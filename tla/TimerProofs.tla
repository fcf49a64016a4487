----------------------------- MODULE TimerProofs -----------------------------
(***************************************************************************)
(* Proofs about Timer, for every number of timers and threads, every       *)
(* interval, every bound on the clock and every choice of calls.           *)
(*                                                                         *)
(* The argument: a timer is in the set, in one thread's batch or on its way*)
(* back in with one thread, and in one of these places only; every step    *)
(* moves one timer, or, at expiry, a whole batch.  An iterator that is not *)
(* stale points into the set, which is why refresh() takes out a timer that*)
(* no other thread has in hand.  Only the order of a batch needs the keys: *)
(* they differ as long as none was changed inside the set.                 *)
(***************************************************************************)
EXTENDS Timer, FiniteSetTheorems, SequenceTheorems, TLAPS

-----------------------------------------------------------------------------
(* The batch of GetExpiredCb().                                            *)

(* A non-empty set of numbers has a least one.                             *)
LEMMA LeastOf ==
  ASSUME NEW S \in SUBSET Nat, S # {}
  PROVE  \E n \in S : \A m \in S : n <= m
PROOF
<1> DEFINE R == OpToRel(<, Nat)
<1>1. PICK n \in S : \A m \in S : <<m, n>> \notin R
  BY NatLessThanWellFounded, WFMin, Zenon
<1>2. \A m \in S : ~(m < n)
  BY <1>1 DEF OpToRel
<1> QED
  BY <1>2, SMT

(* A finite set whose members have keys of their own can be put in order:  *)
(* the smallest counterexample, without its first member, would be smaller.*)
LEMMA OrderExists ==
  ASSUME NEW T, NEW key \in [T -> Nat], NEW S \in SUBSET T, IsFiniteSet(S),
         \A x, y \in S : key[x] = key[y] => x = y
  PROVE  \E s \in [1 .. Cardinality(S) -> S] :
           \A i, j \in 1 .. Cardinality(S) : i < j => key[s[i]] < key[s[j]]
PROOF
<1> DEFINE Keyed(U) == IsFiniteSet(U) /\ \A x, y \in U : key[x] = key[y] => x = y
           Ordered(U) == \E s \in [1 .. Cardinality(U) -> U] :
                           \A i, j \in 1 .. Cardinality(U) :
                             i < j => key[s[i]] < key[s[j]]
           Bad == {n \in Nat : \E U \in SUBSET T :
                     Keyed(U) /\ Cardinality(U) = n /\ ~Ordered(U)}
<1>1. ASSUME Bad # {} PROVE FALSE
  <2>1. PICK n \in Bad : \A m \in Bad : n <= m
    BY <1>1, LeastOf
  <2>2. PICK U \in SUBSET T : Keyed(U) /\ Cardinality(U) = n /\ ~Ordered(U)
    BY <2>1
  <2>n. n \in Nat
    BY <2>1
  <2>3. U # {}
    <3>1. ASSUME U = {} PROVE Ordered(U)
      <4>1. Cardinality(U) = 0
        BY <3>1, FS_EmptySet
      <4>2. [i \in 1 .. 0 |-> i] \in [1 .. 0 -> {}]
        OBVIOUS
      <4> QED
        BY <3>1, <4>1, <4>2
    <3> QED
      BY <2>2, <3>1
  <2>4. PICK x \in U : \A y \in U : key[x] <= key[y]
    <3> DEFINE K == {key[y] : y \in U}
    <3>1. K \in SUBSET Nat /\ K # {}
      BY <2>3
    <3> HIDE DEF K
    <3>2. PICK n0 \in K : \A m \in K : n0 <= m
      BY <3>1, LeastOf
    <3> QED
      BY <3>2 DEF K
  <2> DEFINE V == U \ {x}
  <2>5. IsFiniteSet(V) /\ Cardinality(V) = n - 1 /\ n - 1 \in Nat
    <3>1. IsFiniteSet(V) /\ Cardinality(V) = n - 1
      BY <2>2, <2>4, FS_RemoveElement
    <3> QED
      BY <3>1, FS_CardinalityType
  <2>6. Ordered(V)
    <3>1. n - 1 \notin Bad
      BY <2>1, <2>n
    <3>2. V \in SUBSET T /\ Keyed(V)
      BY <2>2, <2>5
    <3> QED
      BY <2>5, <3>1, <3>2
  <2>7. PICK s \in [1 .. n - 1 -> V] :
               \A i, j \in 1 .. n - 1 : i < j => key[s[i]] < key[s[j]]
    BY <2>5, <2>6
  <2> DEFINE r == [i \in 1 .. n |-> IF i = 1 THEN x ELSE s[i - 1]]
  <2>8. r \in [1 .. n -> U]
    <3>1. ASSUME NEW i \in 1 .. n, i # 1 PROVE s[i - 1] \in V
      BY <2>n, <2>5, <2>7, <3>1
    <3> QED
      BY <3>1, <2>4
  <2>9. ASSUME NEW i \in 1 .. n, NEW j \in 1 .. n, i < j
        PROVE  key[r[i]] < key[r[j]]
    <3>1. j # 1 /\ r[j] = s[j - 1] /\ j - 1 \in 1 .. n - 1
      BY <2>n, <2>9
    <3>2. s[j - 1] \in V
      BY <2>7, <3>1
    <3>3. CASE i = 1
      <4>1. r[i] = x /\ key[x] <= key[r[j]] /\ key[x] # key[r[j]]
        BY <2>2, <2>4, <3>1, <3>2, <3>3
      <4>2. key[x] \in Nat /\ key[r[j]] \in Nat
        BY <2>4, <3>1, <3>2
      <4> QED
        BY <4>1, <4>2
    <3>4. CASE i # 1
      <4>1. r[i] = s[i - 1] /\ i - 1 \in 1 .. n - 1 /\ i - 1 < j - 1
        BY <2>n, <2>9, <3>4
      <4> QED
        BY <2>7, <3>1, <4>1
    <3> QED
      BY <3>3, <3>4
  <2> HIDE DEF r
  <2>10. Ordered(U)
    BY <2>2, <2>8, <2>9
  <2> QED
    BY <2>2, <2>10
<1>2. Keyed(S)
  OBVIOUS
<1>3. Cardinality(S) \in Nat
  BY FS_CardinalityType
<1> QED
  BY <1>1, <1>2, <1>3

InSeq(s) == {s[i] : i \in DOMAIN s}
Distinct(s) == \A i, j \in DOMAIN s : s[i] = s[j] => i = j

(* The batch holds what is due, each timer once.                           *)
LEMMA BatchHoldsAll ==
  ASSUME NEW S \in SUBSET Timers, IsFiniteSet(S), m_next \in [Timers -> Nat],
         \A x, y \in S : m_next[x] = m_next[y] => x = y
  PROVE  /\ Batch(S) \in Seq(Timers)
         /\ InSeq(Batch(S)) = S /\ Distinct(Batch(S))
         /\ Batch(S) = <<>> <=> S = {}
PROOF
<1> DEFINE n == Cardinality(S)
           b == Batch(S)
<1>n. n \in Nat
  BY FS_CardinalityType
<1>1. /\ b \in [1 .. n -> S]
      /\ \A i, j \in 1 .. n : i < j => m_next[b[i]] < m_next[b[j]]
  <2>1. \E s \in [1 .. n -> S] : \A i, j \in 1 .. n : i < j => m_next[s[i]] < m_next[s[j]]
    BY OrderExists
  <2>2. \E s \in [1 .. n -> S] : \A i, j \in DOMAIN s : i < j => m_next[s[i]] < m_next[s[j]]
    BY <2>1
  <2>3. /\ b \in [1 .. n -> S]
        /\ \A i, j \in DOMAIN b : i < j => m_next[b[i]] < m_next[b[j]]
    BY <2>2 DEF Batch
  <2> HIDE DEF b, n
  <2> QED
    BY <2>3
<1> HIDE DEF b
<1>2. Distinct(b)
  <2>1. ASSUME NEW i \in 1 .. n, NEW j \in 1 .. n, i < j PROVE b[i] # b[j]
    <3>1. m_next[b[i]] < m_next[b[j]] /\ m_next[b[i]] \in Nat
      BY <1>1, <2>1
    <3> QED
      BY <3>1
  <2>2. DOMAIN b = 1 .. n
    BY <1>1
  <2> QED
    BY <1>n, <2>1, <2>2 DEF Distinct
<1>3. InSeq(b) = S
  <2>1. b \in Injection(1 .. n, S)
    BY <1>1, <1>2 DEF Injection, IsInjective, Distinct
  <2>2. IsFiniteSet(1 .. n) /\ Cardinality(1 .. n) = n
    BY <1>n, FS_Interval
  <2>3. b \in Surjection(1 .. n, S)
    BY <2>1, <2>2, FS_Injection
  <2> QED
    BY <1>1, <2>3 DEF Surjection, InSeq
<1>4. b \in Seq(Timers)
  <2>1. b \in [1 .. n -> Timers]
    BY <1>1
  <2> QED
    BY <1>n, <2>1, SeqDef
<1>5. b = <<>> <=> S = {}
  <2>1. Len(b) \in Nat /\ DOMAIN b = 1 .. Len(b) /\ (b # <<>> => Len(b) # 0)
    BY <1>4, LenProperties, EmptySeq
  <2>2. b # <<>> => S # {}
    <3>1. ASSUME b # <<>> PROVE 1 \in DOMAIN b
      BY <2>1, <3>1
    <3> QED
      BY <1>3, <3>1 DEF InSeq
  <2>3. b = <<>> => S = {}
    <3>1. ASSUME b = <<>> PROVE DOMAIN b = {}
      BY <2>1, <3>1, EmptySeq
    <3> QED
      BY <1>3, <3>1 DEF InSeq
  <2> QED
    BY <2>2, <2>3
<1> QED
  BY <1>2, <1>3, <1>4, <1>5 DEF b

(* The loop over temp takes its timers one by one.                         *)
LEMMA TailDropsHead ==
  ASSUME NEW s \in Seq(Timers), s # <<>>, Distinct(s)
  PROVE  /\ Head(s) \in Timers /\ Tail(s) \in Seq(Timers)
         /\ InSeq(s) = InSeq(Tail(s)) \cup {Head(s)} /\ Head(s) \notin InSeq(Tail(s))
         /\ Distinct(Tail(s))
         /\ Tail(s) = <<>> <=> Len(s) = 1
PROOF
<1>1. /\ Len(s) \in Nat /\ Len(s) >= 1 /\ DOMAIN s = 1 .. Len(s)
      /\ \A i \in 1 .. Len(s) : s[i] \in Timers
  BY EmptySeq, LenProperties
<1>2. /\ Head(s) = s[1] /\ Tail(s) \in Seq(Timers)
      /\ Len(Tail(s)) = Len(s) - 1
      /\ DOMAIN Tail(s) = 1 .. Len(s) - 1
      /\ \A i \in 1 .. Len(s) - 1 : Tail(s)[i] = s[i + 1]
  BY <1>1, HeadTailProperties
<1>3. InSeq(s) = InSeq(Tail(s)) \cup {Head(s)}
  <2>1. ASSUME NEW i \in 1 .. Len(s), i # 1
        PROVE  i - 1 \in DOMAIN Tail(s) /\ Tail(s)[i - 1] = s[i]
    BY <1>1, <1>2, <2>1
  <2>2. ASSUME NEW i \in DOMAIN Tail(s)
        PROVE  i + 1 \in DOMAIN s /\ Tail(s)[i] = s[i + 1]
    BY <1>1, <1>2
  <2>3. InSeq(s) \subseteq InSeq(Tail(s)) \cup {Head(s)}
    <3>1. ASSUME NEW i \in DOMAIN s
          PROVE  s[i] = Head(s) \/ \E j \in DOMAIN Tail(s) : s[i] = Tail(s)[j]
      BY <1>1, <1>2, <2>1, <3>1
    <3> QED
      BY <3>1 DEF InSeq
  <2>4. InSeq(Tail(s)) \subseteq InSeq(s)
    BY <2>2 DEF InSeq
  <2>5. Head(s) \in InSeq(s)
    <3>1. 1 \in DOMAIN s /\ Head(s) = s[1]
      BY <1>1, <1>2
    <3> QED
      BY <3>1 DEF InSeq
  <2> QED
    BY <2>3, <2>4, <2>5
<1>4. Head(s) \notin InSeq(Tail(s))
  BY <1>1, <1>2 DEF InSeq, Distinct
<1>5. Distinct(Tail(s))
  BY <1>1, <1>2 DEF Distinct
<1>6. Tail(s) = <<>> <=> Len(s) = 1
  BY <1>1, <1>2, EmptySeq
<1> QED
  BY <1>1, <1>2, <1>3, <1>4, <1>5, <1>6

-----------------------------------------------------------------------------
(* The inductive invariant.                                                *)

(* A batch is a sequence of timers, none twice; a thread has one exactly   *)
(* while it is in the loop of GetExpiredCb().                              *)
Batches ==
  /\ temp \in [Thread -> Seq(Timers)]
  /\ \A p \in Thread :
       /\ temp[p] # <<>> <=> pc[p] \in {"deliver", "rearm"}
       /\ \A i, j \in DOMAIN temp[p] : temp[p][i] = temp[p][j] => i = j

(* A call of a timer is about one that exists, and so is every insertion.  *)
CallsAbout ==
  \A p \in Thread :
    /\ pc[p] \in {"insert", "cancel", "reset", "clear", "refresh", "erasing"} =>
         self[p] \in created
    /\ InFlight(p) \subseteq created

(* An iterator that is not stale points into the set.                      *)
Iterators == \A p \in Thread : it[p] \in Timers => it[p] \in m_timers

Placed(x) == x \in m_timers \/ \E p \in Thread : x \in InFlight(p)

(* A one-shot timer that can still fire has not, nor has one to come.      *)
Unfired ==
  /\ \A x \in Timers \ Recurring : Placed(x) => handed[x] = 0
  /\ \A x \in Timers \ created : handed[x] = 0

(* What can fire has a callback, or lost it to reset().                    *)
HasCallback == \A x \in Timers : Placed(x) => m_cb[x] \/ x \in wasReset

(* No two timers of the set have the same key, unless a key was changed    *)
(* inside the set.                                                         *)
OwnKeys == corrupt \/ \A x, y \in m_timers : m_next[x] = m_next[y] => x = y

Inv ==
  /\ TypeOK /\ IsFiniteSet(m_timers)
  /\ Batches /\ CallsAbout /\ Iterators /\ OnePlace
  /\ Unfired /\ HasCallback /\ OwnKeys
  /\ HandedOnce /\ EmptyOnlyAfterReset /\ NothingVanishes

(* No timer, no call: the invariant holds at first.                        *)
LEMMA InitInv == Init => Inv
PROOF
<1> SUFFICES ASSUME Init PROVE Inv
  OBVIOUS
<1> USE TimerAssumption DEF Init
<1>1. TypeOK
  <2>1. now \in StartTime .. MaxTime /\ 0 \in 0 .. Wrap - 1
    OBVIOUS
  <2>2. /\ created \subseteq Timers /\ m_timers \subseteq created
        /\ m_next \in [Timers -> 0 .. Wrap - 1] /\ m_gap \in [Timers -> Gaps \cup {0}]
        /\ handed \in [Timers -> Nat]
        /\ empty \subseteq Timers /\ wasReset \subseteq Timers /\ gone \subseteq Timers
    BY <2>1
  <2>3. /\ m_cb \in [Timers -> BOOLEAN] /\ m_timeManager \in [Timers -> BOOLEAN]
        /\ corrupt \in BOOLEAN
    OBVIOUS
  <2>4. /\ pc \in [Thread -> {"free", "insert", "peek", "expire", "deliver", "rearm",
                              "cancel", "reset", "clear", "refresh", "erasing"}]
        /\ self \in [Thread -> Timers \cup {None}]
        /\ it \in [Thread -> Timers \cup {None, Stale}]
        /\ \A p \in Thread : \A i \in DOMAIN temp[p] : temp[p][i] \in Timers
    OBVIOUS
  <2> QED
    BY <2>1, <2>2, <2>3, <2>4 DEF TypeOK
<1>2. IsFiniteSet(m_timers)
  BY FS_EmptySet
<1>3. \A p \in Thread : temp[p] = <<>> /\ InFlight(p) = {}
  BY DEF InFlight
<1>4. Batches
  BY <1>3, EmptySeq DEF Batches
<1>5. CallsAbout /\ Iterators /\ OnePlace
  BY <1>3 DEF CallsAbout, Iterators, OnePlace
<1>6. Unfired /\ HasCallback /\ OwnKeys
  BY <1>3 DEF Unfired, HasCallback, OwnKeys, Placed
<1>7. HandedOnce /\ EmptyOnlyAfterReset /\ NothingVanishes
  BY DEF HandedOnce, EmptyOnlyAfterReset, NothingVanishes
<1> QED
  BY <1>1, <1>2, <1>4, <1>5, <1>6, <1>7 DEF Inv

-----------------------------------------------------------------------------
(* Times.                                                                  *)

(* The clock and an interval do not reach the end of uint64_t ...          *)
LEMMA KeyFits ==
  ASSUME TypeOK, NEW g \in Gaps \cup {0}
  PROVE  now + g \in 0 .. Wrap - 1
PROOF
<1>1. now \in Nat /\ now <= MaxTime /\ g \in Nat /\ Wrap \in Nat /\ MaxTime \in Nat
  BY TimerAssumption DEF TypeOK
<1>2. MaxTime + g < Wrap
  BY TimerAssumption
<1> QED
  BY <1>1, <1>2

(* ... and a difference that does is wrapped.                              *)
LEMMA UnsignedFits ==
  ASSUME NEW n \in Int
  PROVE  Unsigned(n) \in 0 .. Wrap - 1
PROOF
<1>1. Wrap \in Nat /\ Wrap > 0
  BY TimerAssumption
<1> QED
  BY <1>1 DEF Unsigned

-----------------------------------------------------------------------------
(* Steps that move no timer.                                               *)

(* Where a thread is in a call, what it found and the time may change.     *)
LEMMA StillKeepsInv ==
  ASSUME Inv, ~corrupt, TypeOK',
         UNCHANGED <<created, m_timers, m_next, m_cb, temp, history>>,
         \A p \in Thread :
           /\ pc'[p] = "insert" <=> pc[p] = "insert"
           /\ pc[p] = "insert" => self'[p] = self[p]
           /\ pc'[p] \in {"deliver", "rearm"} <=> pc[p] \in {"deliver", "rearm"}
           /\ pc'[p] \in {"insert", "cancel", "reset", "clear", "refresh", "erasing"} =>
                self'[p] \in created
           /\ it'[p] \in Timers => it'[p] \in m_timers
  PROVE  Inv'
PROOF
<1> USE DEF Inv, history
<1>1. \A p \in Thread : InFlight(p)' = InFlight(p)
  BY DEF InFlight
<1>2. Batches'
  BY DEF Batches
<1>3. CallsAbout' /\ Iterators' /\ OnePlace'
  BY <1>1 DEF CallsAbout, Iterators, OnePlace
<1>4. Unfired' /\ HasCallback'
  BY <1>1 DEF Unfired, HasCallback, Placed
<1>5. OwnKeys'
  BY DEF OwnKeys
<1>6. HandedOnce' /\ EmptyOnlyAfterReset' /\ NothingVanishes'
  BY <1>1 DEF HandedOnce, EmptyOnlyAfterReset, NothingVanishes
<1> QED
  BY <1>2, <1>3, <1>4, <1>5, <1>6

(* The clock, the looks at the set, find(), and the first half of the erase*)
(* that refresh() makes.                                                   *)
LEMMA LookKeepsInv ==
  ASSUME Inv, ~corrupt,
         \/ Tick
         \/ \E p \in Thread :
              \/ PeekSize(p) \/ PeekFirst(p) \/ RefreshErase(p)
              \/ \E x \in Timers, op \in Ops : Find(p, x, op)
  PROVE  Inv'
PROOF
<1> USE TimerAssumption DEF Inv, fields, history
<1>1. CASE Tick
  <2>1. TypeOK'
    <3>1. now' \in StartTime .. MaxTime
      BY <1>1 DEF Tick, TypeOK
    <3> QED
      BY <1>1, <3>1 DEF Tick, TypeOK
  <2> QED
    BY <1>1, <2>1, StillKeepsInv DEF Tick, CallsAbout, Iterators
<1>2. ASSUME NEW p \in Thread, PeekSize(p) \/ PeekFirst(p) \/ RefreshErase(p)
      PROVE  Inv'
  <2> USE <1>2 DEF PeekSize, PeekFirst, RefreshErase, Goto
  <2>1. TypeOK'
    <3>1. corrupt' \in BOOLEAN
      BY Zenon DEF Racing
    <3> QED
      BY <3>1 DEF TypeOK
  <2>2. \A q \in Thread :
          /\ pc'[q] = "insert" <=> pc[q] = "insert"
          /\ pc'[q] \in {"deliver", "rearm"} <=> pc[q] \in {"deliver", "rearm"}
          /\ pc'[q] \in {"insert", "cancel", "reset", "clear", "refresh", "erasing"} =>
               self[q] \in created
    BY DEF TypeOK, CallsAbout
  <2> QED
    BY <2>1, <2>2, StillKeepsInv DEF Iterators
<1>3. ASSUME NEW p \in Thread, NEW x \in Timers, NEW op \in Ops, Find(p, x, op)
      PROVE  Inv'
  <2> USE <1>3 DEF Find, Enter
  <2>1. it' = it \/ \E y \in m_timers : it' = [it EXCEPT ![p] = y]
    <3>1. Found(x) # {} => (CHOOSE y \in Found(x) : TRUE) \in m_timers
      BY DEF Found
    <3> QED
      BY <3>1
  <2>2. \/ pc' = pc /\ self' = self
        \/ \E l \in {"cancel", "reset", "clear", "refresh"} :
             pc' = [pc EXCEPT ![p] = l] /\ self' = [self EXCEPT ![p] = x]
    OBVIOUS
  <2>3. /\ pc[p] = "free" /\ x \in created
        /\ UNCHANGED <<now, created, m_timers, fields, temp, history>>
    OBVIOUS
  <2>4. corrupt' \in BOOLEAN
    <3>1. m_timeManager[x] \in BOOLEAN
      BY DEF TypeOK
    <3> QED
      BY <3>1, Zenon DEF Racing
  <2> HIDE DEF Find
  <2>5. TypeOK'
    BY <2>1, <2>2, <2>3, <2>4 DEF TypeOK
  <2>6. \A q \in Thread :
          /\ pc'[q] = "insert" <=> pc[q] = "insert"
          /\ pc[q] = "insert" => self'[q] = self[q]
          /\ pc'[q] \in {"deliver", "rearm"} <=> pc[q] \in {"deliver", "rearm"}
          /\ pc'[q] \in {"insert", "cancel", "reset", "clear", "refresh", "erasing"} =>
               self'[q] \in created
    BY <2>2, <2>3 DEF TypeOK, CallsAbout
  <2>7. \A q \in Thread : it'[q] \in Timers => it'[q] \in m_timers
    BY <2>1 DEF TypeOK, Iterators
  <2> QED
    BY <2>3, <2>5, <2>6, <2>7, StillKeepsInv
<1> QED
  BY <1>1, <1>2, <1>3

-----------------------------------------------------------------------------
(* Steps that move one timer.                                              *)

(* The constructor: a new timer is on its way in.                          *)
LEMMA ConstructKeepsInv ==
  ASSUME Inv, ~corrupt, NEW p \in Thread, NEW x \in Timers, NEW g \in Gaps,
         Construct(p, x, g)
  PROVE  Inv'
PROOF
<1> USE DEF Inv, Construct, Enter, history
<1>t. /\ pc \in [Thread -> {"free", "insert", "peek", "expire", "deliver", "rearm",
                            "cancel", "reset", "clear", "refresh", "erasing"}]
      /\ self \in [Thread -> Timers \cup {None}] /\ created \subseteq Timers
      /\ m_next \in [Timers -> 0 .. Wrap - 1] /\ m_gap \in [Timers -> Gaps \cup {0}]
      /\ m_cb \in [Timers -> BOOLEAN] /\ m_timeManager \in [Timers -> BOOLEAN]
      /\ m_timers \subseteq created
  BY DEF TypeOK
<1>n. /\ x \notin m_timers
      /\ \A q \in Thread : x \notin InFlight(q)
      /\ handed[x] = 0
  BY <1>t DEF CallsAbout, Unfired
<1>1. TypeOK'
  <2>1. now + g \in 0 .. Wrap - 1
    BY KeyFits
  <2>2. m_next' \in [Timers -> 0 .. Wrap - 1] /\ m_gap' \in [Timers -> Gaps \cup {0}]
    BY <1>t, <2>1
  <2>3. m_cb' \in [Timers -> BOOLEAN] /\ m_timeManager' \in [Timers -> BOOLEAN]
    BY <1>t
  <2> QED
    BY <1>t, <2>2, <2>3 DEF TypeOK
<1>2. Batches'
  BY <1>t DEF Batches
<1>f. /\ InFlight(p)' = {x} /\ InFlight(p) = {}
      /\ \A q \in Thread \ {p} : InFlight(q)' = InFlight(q)
  <2>1. temp[p] = <<>>
    BY DEF Batches
  <2>2. \A q \in Thread \ {p} : pc'[q] = pc[q] /\ self'[q] = self[q]
    BY <1>t
  <2>3. pc'[p] = "insert" /\ self'[p] = x
    BY <1>t
  <2> QED
    BY <2>1, <2>2, <2>3 DEF InFlight
<1>3. CallsAbout' /\ Iterators'
  BY <1>t, <1>f DEF CallsAbout, Iterators
<1>4. OnePlace'
  BY <1>n, <1>f DEF OnePlace
<1>5. Unfired' /\ HasCallback'
  BY <1>t, <1>n, <1>f DEF Unfired, HasCallback, Placed
<1>6. OwnKeys'
  BY <1>t, <1>n DEF OwnKeys
<1>7. HandedOnce' /\ EmptyOnlyAfterReset' /\ NothingVanishes'
  BY <1>f DEF HandedOnce, EmptyOnlyAfterReset, NothingVanishes
<1> QED
  BY <1>1, <1>2, <1>3, <1>4, <1>5, <1>6, <1>7

(* What insert() does to the set: x is in it, or its key was taken.        *)
LEMMA InsertedOnce ==
  ASSUME TypeOK, NEW S \in SUBSET m_timers, IsFiniteSet(m_timers), NEW x \in Timers, NEW k,
         x \in created, InsertInto(S, x, k)
  PROVE  /\ IsFiniteSet(m_timers') /\ m_timers' \subseteq created
         /\ S \subseteq m_timers' /\ m_timers' \subseteq S \cup {x}
         /\ gone \subseteq gone' /\ gone' \subseteq gone \cup {x}
         /\ x \in m_timers' \/ x \in gone'
         /\ x \in m_timers' => x \in S \/ \A y \in S : m_next[y] # k
PROOF
<1>1. IsFiniteSet(S) /\ IsFiniteSet(S \cup {x})
  BY FS_Subset, FS_AddElement
<1>2. S \subseteq created
  BY DEF TypeOK
<1> QED
  BY <1>1, <1>2 DEF InsertInto

(* addTimer() and refresh() put the timer in their hands into the set.     *)
LEMMA InsertKeepsInv ==
  ASSUME Inv, ~corrupt, NEW p \in Thread, Insert(p)
  PROVE  Inv'
PROOF
<1> USE DEF Inv, Insert, Return, fields
<1>x. PICK x \in Timers : x = self[p] /\ x \in created
  BY DEF CallsAbout, TypeOK
<1>t. /\ pc \in [Thread -> {"free", "insert", "peek", "expire", "deliver", "rearm",
                            "cancel", "reset", "clear", "refresh", "erasing"}]
      /\ self \in [Thread -> Timers \cup {None}] /\ created \subseteq Timers
      /\ m_timers \subseteq created /\ gone \subseteq Timers
  BY DEF TypeOK
<1>i. /\ IsFiniteSet(m_timers') /\ m_timers' \subseteq created
      /\ m_timers \subseteq m_timers' /\ m_timers' \subseteq m_timers \cup {x}
      /\ gone \subseteq gone' /\ gone' \subseteq gone \cup {x}
      /\ x \in m_timers' \/ x \in gone'
      /\ x \in m_timers' => x \in m_timers \/ \A y \in m_timers : m_next[y] # m_next[x]
  <2>1. InsertInto(m_timers, x, m_next[x])
    BY <1>x
  <2>2. m_timers \in SUBSET m_timers /\ TypeOK /\ IsFiniteSet(m_timers)
    OBVIOUS
  <2> HIDE DEF Inv, Insert
  <2> QED
    BY <1>x, <2>1, <2>2, InsertedOnce
<1>1. TypeOK'
  <2>1. corrupt' \in BOOLEAN
    BY Zenon DEF Racing
  <2>2. gone' \subseteq Timers
    BY <1>t, <1>i
  <2>3. /\ pc' = [pc EXCEPT ![p] = "free"] /\ self' = [self EXCEPT ![p] = None]
        /\ UNCHANGED <<now, created, fields, it, temp, handed, empty, wasReset>>
    OBVIOUS
  <2> HIDE DEF Insert
  <2> QED
    BY <1>i, <2>1, <2>2, <2>3 DEF TypeOK
<1>2. Batches'
  BY <1>t DEF Batches
<1>f. /\ InFlight(p)' = {} /\ InFlight(p) = {x}
      /\ \A q \in Thread \ {p} : InFlight(q)' = InFlight(q)
  <2>1. temp[p] = <<>>
    BY DEF Batches
  <2>2. \A q \in Thread \ {p} : pc'[q] = pc[q] /\ self'[q] = self[q]
    BY <1>t
  <2>3. pc'[p] = "free"
    BY <1>t
  <2> QED
    BY <1>x, <2>1, <2>2, <2>3 DEF InFlight
<1>3. CallsAbout' /\ Iterators'
  BY <1>t, <1>i, <1>f DEF CallsAbout, Iterators
<1>4. OnePlace'
  BY <1>i, <1>f DEF OnePlace
<1>5. Unfired' /\ HasCallback'
  <2>1. \A y \in Timers : Placed(y)' => Placed(y)
    BY <1>i, <1>f DEF Placed
  <2> QED
    BY <2>1 DEF Unfired, HasCallback
<1>6. OwnKeys'
  BY <1>i DEF OwnKeys
<1>7. HandedOnce' /\ EmptyOnlyAfterReset' /\ NothingVanishes'
  BY <1>i, <1>f DEF HandedOnce, EmptyOnlyAfterReset, NothingVanishes
<1> QED
  BY <1>i, <1>1, <1>2, <1>3, <1>4, <1>5, <1>6, <1>7

(* refresh() takes the timer its iterator shows out of the set: no other   *)
(* thread has that one in hand.                                            *)
LEMMA RefreshKeepsInv ==
  ASSUME Inv, ~corrupt, NEW p \in Thread, RefreshErased(p)
  PROVE  Inv'
PROOF
<1> USE DEF Inv, RefreshErased, Enter, Without, Invalidate, history
<1>y. PICK y \in Timers : y = it[p] /\ y \in m_timers
  BY DEF Iterators
<1>t. /\ pc \in [Thread -> {"free", "insert", "peek", "expire", "deliver", "rearm",
                            "cancel", "reset", "clear", "refresh", "erasing"}]
      /\ self \in [Thread -> Timers \cup {None}] /\ created \subseteq Timers
      /\ it \in [Thread -> Timers \cup {None, Stale}]
      /\ m_timers \subseteq created /\ m_next \in [Timers -> 0 .. Wrap - 1]
      /\ m_gap \in [Timers -> Gaps \cup {0}]
  BY DEF TypeOK
<1>s. /\ m_timers' = m_timers \ {y}
      /\ m_next' = [m_next EXCEPT ![y] = now + m_gap[self[p]]]
      /\ pc' = [pc EXCEPT ![p] = "insert"] /\ self' = [self EXCEPT ![p] = y]
      /\ it' = [q \in Thread |-> IF q = p THEN None ELSE IF it[q] \in {y} THEN Stale ELSE it[q]]
      /\ pc[p] = "erasing"
      /\ UNCHANGED <<now, created, m_gap, m_cb, m_timeManager, temp, history, corrupt>>
  BY <1>y
<1> HIDE DEF RefreshErased
<1>1. TypeOK'
  <2>1. self[p] \in created
    BY <1>s DEF CallsAbout
  <2>2. now + m_gap[self[p]] \in 0 .. Wrap - 1
    BY <1>t, <2>1, KeyFits
  <2>3. m_next' \in [Timers -> 0 .. Wrap - 1]
    BY <1>t, <1>s, <2>2
  <2>4. it' \in [Thread -> Timers \cup {None, Stale}]
    BY <1>t, <1>s
  <2> QED
    BY <1>t, <1>s, <2>3, <2>4 DEF TypeOK
<1>2. IsFiniteSet(m_timers')
  BY <1>s, FS_Subset
<1>3. Batches'
  BY <1>t, <1>s DEF Batches
<1>f. /\ InFlight(p)' = {y} /\ InFlight(p) = {}
      /\ \A q \in Thread \ {p} : InFlight(q)' = InFlight(q)
  <2>1. temp[p] = <<>>
    BY <1>s DEF Batches
  <2>2. \A q \in Thread \ {p} : pc'[q] = pc[q] /\ self'[q] = self[q]
    BY <1>t, <1>s
  <2>3. pc'[p] = "insert" /\ self'[p] = y
    BY <1>t, <1>s
  <2> QED
    BY <1>s, <2>1, <2>2, <2>3 DEF InFlight
<1>4. CallsAbout'
  BY <1>t, <1>s, <1>y, <1>f DEF CallsAbout
<1>5. Iterators'
  BY <1>t, <1>s, TimerAssumption DEF Iterators
<1>6. OnePlace'
  BY <1>y, <1>s, <1>f DEF OnePlace
<1>7. Unfired' /\ HasCallback'
  <2>1. \A x \in Timers : Placed(x)' => Placed(x)
    BY <1>y, <1>s, <1>f DEF Placed
  <2> QED
    BY <1>s, <2>1 DEF Unfired, HasCallback
<1>8. OwnKeys'
  BY <1>t, <1>s DEF OwnKeys
<1>9. HandedOnce' /\ EmptyOnlyAfterReset' /\ NothingVanishes'
  BY <1>y, <1>s, <1>f DEF HandedOnce, EmptyOnlyAfterReset, NothingVanishes
<1> QED
  BY <1>1, <1>2, <1>3, <1>4, <1>5, <1>6, <1>7, <1>8, <1>9

(* cancel() and reset() erase what their iterator shows, if anything.      *)
LEMMA EraseKeepsInv ==
  ASSUME Inv, ~corrupt, NEW p \in Thread, Erase(p)
  PROVE  Inv'
PROOF
<1> USE DEF Inv, Erase, Without, Invalidate, fields
<1>t. /\ pc \in [Thread -> {"free", "insert", "peek", "expire", "deliver", "rearm",
                            "cancel", "reset", "clear", "refresh", "erasing"}]
      /\ self \in [Thread -> Timers \cup {None}] /\ created \subseteq Timers
      /\ it \in [Thread -> Timers \cup {None, Stale}]
      /\ m_timers \subseteq created /\ gone \subseteq Timers
  BY DEF TypeOK
<1>y. PICK y : y = it[p] /\ (y \in Timers => y \in m_timers)
  BY DEF Iterators
<1>s. /\ m_timers' = m_timers \ {y}
      /\ gone' = gone \cup ({y} \cap Timers)
      /\ it' = [q \in Thread |-> IF q = p THEN None ELSE IF it[q] \in {y} THEN Stale ELSE it[q]]
      /\ pc[p] \in {"cancel", "reset"}
      /\ \/ pc' = [pc EXCEPT ![p] = "clear"] /\ self' = self
         \/ pc' = [pc EXCEPT ![p] = "free"] /\ self' = [self EXCEPT ![p] = None]
      /\ UNCHANGED <<now, created, fields, temp, handed, empty, wasReset>>
  BY <1>y DEF Goto, Return
<1>c. corrupt' \in BOOLEAN
  BY Zenon DEF Racing
<1> HIDE DEF Erase
<1>1. TypeOK'
  <2>1. it' \in [Thread -> Timers \cup {None, Stale}]
    BY <1>t, <1>s
  <2>2. m_timers' \subseteq created' /\ gone' \subseteq Timers
    BY <1>t, <1>s
  <2> QED
    BY <1>t, <1>s, <1>c, <2>1, <2>2 DEF TypeOK
<1>2. IsFiniteSet(m_timers')
  BY <1>s, FS_Subset
<1>3. Batches'
  BY <1>t, <1>s DEF Batches
<1>f. \A q \in Thread : InFlight(q)' = InFlight(q)
  <2>1. \A q \in Thread \ {p} : pc'[q] = pc[q] /\ self'[q] = self[q]
    BY <1>t, <1>s
  <2>2. pc'[p] # "insert" /\ pc[p] # "insert"
    BY <1>t, <1>s
  <2> QED
    BY <1>s, <2>1, <2>2 DEF InFlight
<1>4. CallsAbout'
  BY <1>t, <1>s, <1>f DEF CallsAbout
<1>5. Iterators'
  BY <1>t, <1>s, TimerAssumption DEF Iterators
<1>6. OnePlace'
  BY <1>s, <1>f DEF OnePlace
<1>7. Unfired' /\ HasCallback'
  <2>1. \A x \in Timers : Placed(x)' => Placed(x)
    BY <1>s, <1>f DEF Placed
  <2> QED
    BY <1>s, <2>1 DEF Unfired, HasCallback
<1>8. OwnKeys'
  BY <1>s DEF OwnKeys
<1>9. HandedOnce' /\ EmptyOnlyAfterReset' /\ NothingVanishes'
  BY <1>t, <1>s, <1>f DEF HandedOnce, EmptyOnlyAfterReset, NothingVanishes
<1> QED
  BY <1>1, <1>2, <1>3, <1>4, <1>5, <1>6, <1>7, <1>8, <1>9

(* reset() clears the fields of a timer that may be on its way somewhere.  *)
LEMMA ClearKeepsInv ==
  ASSUME Inv, ~corrupt, NEW p \in Thread, Clear(p)
  PROVE  Inv'
PROOF
<1> USE DEF Inv, Clear, Return
<1>x. PICK x \in Timers : x = self[p]
  BY DEF CallsAbout, TypeOK
<1>t. /\ pc \in [Thread -> {"free", "insert", "peek", "expire", "deliver", "rearm",
                            "cancel", "reset", "clear", "refresh", "erasing"}]
      /\ self \in [Thread -> Timers \cup {None}]
      /\ m_next \in [Timers -> 0 .. Wrap - 1] /\ m_gap \in [Timers -> Gaps \cup {0}]
      /\ m_cb \in [Timers -> BOOLEAN] /\ m_timeManager \in [Timers -> BOOLEAN]
      /\ wasReset \subseteq Timers /\ m_timers \subseteq Timers
  BY DEF TypeOK
<1>s. /\ m_gap' = [m_gap EXCEPT ![x] = 0] /\ m_next' = [m_next EXCEPT ![x] = 0]
      /\ m_cb' = [m_cb EXCEPT ![x] = FALSE]
      /\ m_timeManager' = [m_timeManager EXCEPT ![x] = FALSE]
      /\ wasReset' = wasReset \cup {x}
      /\ corrupt' = (x \in m_timers)
      /\ pc' = [pc EXCEPT ![p] = "free"] /\ self' = [self EXCEPT ![p] = None]
      /\ pc[p] = "clear"
      /\ UNCHANGED <<now, created, m_timers, it, temp, handed, empty, gone>>
  BY <1>x
<1> HIDE DEF Clear
<1>1. TypeOK'
  <2>1. 0 \in 0 .. Wrap - 1
    BY TimerAssumption
  <2>2. m_next' \in [Timers -> 0 .. Wrap - 1] /\ m_gap' \in [Timers -> Gaps \cup {0}]
    BY <1>t, <1>s, <2>1
  <2>3. /\ m_cb' \in [Timers -> BOOLEAN] /\ m_timeManager' \in [Timers -> BOOLEAN]
        /\ corrupt' \in BOOLEAN
    BY <1>t, <1>s
  <2> QED
    BY <1>t, <1>s, <2>2, <2>3 DEF TypeOK
<1>2. Batches'
  BY <1>t, <1>s DEF Batches
<1>f. \A q \in Thread : InFlight(q)' = InFlight(q)
  <2>1. \A q \in Thread \ {p} : pc'[q] = pc[q] /\ self'[q] = self[q]
    BY <1>t, <1>s
  <2>2. pc'[p] # "insert" /\ pc[p] # "insert"
    BY <1>t, <1>s
  <2> QED
    BY <1>s, <2>1, <2>2 DEF InFlight
<1>3. CallsAbout' /\ Iterators' /\ OnePlace'
  BY <1>t, <1>s, <1>f DEF CallsAbout, Iterators, OnePlace
<1>4. Unfired' /\ HasCallback'
  <2>1. \A y \in Timers : Placed(y)' => Placed(y)
    BY <1>s, <1>f DEF Placed
  <2> QED
    BY <1>t, <1>s, <2>1 DEF Unfired, HasCallback
<1>5. OwnKeys'
  BY <1>t, <1>s DEF OwnKeys
<1>6. HandedOnce' /\ EmptyOnlyAfterReset' /\ NothingVanishes'
  BY <1>t, <1>s, <1>f DEF HandedOnce, EmptyOnlyAfterReset, NothingVanishes
<1> QED
  BY <1>s, <1>1, <1>2, <1>3, <1>4, <1>5, <1>6

(* reset(gap, from_now): out with the old key and in with the new one.     *)
LEMMA RegapKeepsInv ==
  ASSUME Inv, ~corrupt, NEW p \in Thread, NEW x \in Timers, NEW g \in Gaps,
         NEW from_now \in BOOLEAN, Regap(p, x, g, from_now)
  PROVE  Inv'
PROOF
<1> USE DEF Inv
<1>c. corrupt' \in BOOLEAN
  <2>1. m_timeManager[x] \in BOOLEAN
    BY DEF TypeOK
  <2> QED
    BY <2>1, Zenon DEF Regap, Racing
<1>u. UNCHANGED <<now, created, m_cb, m_timeManager, pc, self, temp, handed, empty, wasReset>>
  BY DEF Regap
<1>p. pc[p] = "free"
  BY DEF Regap
<1>t. /\ m_timers \subseteq created /\ created \subseteq Timers /\ gone \subseteq Timers
      /\ m_next \in [Timers -> 0 .. Wrap - 1] /\ m_gap \in [Timers -> Gaps \cup {0}]
      /\ it \in [Thread -> Timers \cup {None, Stale}]
  BY DEF TypeOK
<1>f. \A q \in Thread : InFlight(q)' = InFlight(q)
  BY <1>u DEF InFlight
<1>1. CASE UNCHANGED <<m_timers, m_next, m_gap, it, gone>>
  <2>1. TypeOK'
    BY <1>1, <1>c, <1>u DEF TypeOK
  <2> QED
    BY <1>1, <1>u, <2>1, StillKeepsInv DEF history, CallsAbout, Iterators
<1>2. ASSUME NEW y \in Found(x), NEW next,
             next = (IF from_now THEN now + g ELSE Unsigned(m_next[y] - g)),
             m_gap' = [m_gap EXCEPT ![y] = g], m_next' = [m_next EXCEPT ![y] = next],
             InsertInto(Without(y), y, next), Invalidate({y}, p)
      PROVE  Inv'
  <2>y. y \in m_timers /\ y \in Timers /\ y \in created
    BY <1>t DEF Found
  <2>k. next \in 0 .. Wrap - 1
    <3>1. now + g \in 0 .. Wrap - 1
      BY KeyFits
    <3>2. m_next[y] - g \in Int
      <4>1. m_next[y] \in Int /\ g \in Int
        BY <1>t, <2>y, TimerAssumption
      <4> QED
        BY <4>1
    <3> QED
      BY <1>2, <3>1, <3>2, UnsignedFits
  <2>i. /\ IsFiniteSet(m_timers') /\ m_timers' \subseteq created
        /\ m_timers \ {y} \subseteq m_timers' /\ m_timers' \subseteq m_timers
        /\ gone \subseteq gone' /\ gone' \subseteq gone \cup {y}
        /\ y \in m_timers' \/ y \in gone'
        /\ y \in m_timers' => \A z \in m_timers \ {y} : m_next[z] # next
    <3>1. m_timers \ {y} \in SUBSET m_timers
      OBVIOUS
    <3>2. InsertInto(m_timers \ {y}, y, next)
      BY <1>2 DEF Without
    <3> QED
      BY <2>y, <3>1, <3>2, InsertedOnce
  <2>s. it' = [q \in Thread |-> IF q = p THEN None ELSE IF it[q] \in {y} THEN Stale ELSE it[q]]
    BY <1>2 DEF Invalidate
  <2>1. TypeOK'
    <3>1. m_next' \in [Timers -> 0 .. Wrap - 1] /\ m_gap' \in [Timers -> Gaps \cup {0}]
      BY <1>2, <1>t, <2>k
    <3>2. it' \in [Thread -> Timers \cup {None, Stale}]
      BY <1>t, <2>s
    <3>3. gone' \subseteq Timers
      BY <1>t, <2>i, <2>y
    <3> QED
      BY <1>c, <1>u, <2>i, <3>1, <3>2, <3>3 DEF TypeOK
  <2>2. Batches' /\ CallsAbout'
    BY <1>u, <1>f DEF Batches, CallsAbout
  <2>3. Iterators'
    BY <1>t, <2>i, <2>s, TimerAssumption DEF Iterators
  <2>4. OnePlace'
    BY <1>f, <2>i DEF OnePlace
  <2>5. Unfired' /\ HasCallback'
    <3>1. \A z \in Timers : Placed(z)' => Placed(z)
      BY <1>f, <2>i DEF Placed
    <3> QED
      BY <1>u, <3>1 DEF Unfired, HasCallback
  <2>6. OwnKeys'
    <3>1. \A z \in Timers : m_next'[z] = IF z = y THEN next ELSE m_next[z]
      BY <1>2, <1>t
    <3> QED
      BY <1>t, <2>i, <3>1 DEF OwnKeys
  <2>7. HandedOnce' /\ EmptyOnlyAfterReset' /\ NothingVanishes'
    BY <1>u, <1>f, <2>i DEF HandedOnce, EmptyOnlyAfterReset, NothingVanishes
  <2> QED
    BY <2>i, <2>1, <2>2, <2>3, <2>4, <2>5, <2>6, <2>7
<1> QED
  BY <1>1, <1>2 DEF Regap

-----------------------------------------------------------------------------
(* GetExpiredCb().                                                         *)

(* Under the lock everything due goes from the set into the batch.         *)
LEMMA CollectKeepsInv ==
  ASSUME Inv, ~corrupt, NEW p \in Thread, Collect(p)
  PROVE  Inv'
PROOF
<1> USE DEF Inv
<1> DEFINE due == {x \in m_timers : m_next[x] <= now}
<1>t. /\ pc \in [Thread -> {"free", "insert", "peek", "expire", "deliver", "rearm",
                            "cancel", "reset", "clear", "refresh", "erasing"}]
      /\ self \in [Thread -> Timers \cup {None}]
      /\ m_timers \subseteq created /\ created \subseteq Timers
      /\ m_next \in [Timers -> 0 .. Wrap - 1] /\ m_next \in [Timers -> Nat]
      /\ it \in [Thread -> Timers \cup {None, Stale}]
  BY DEF TypeOK
<1>b. /\ Batch(due) \in Seq(Timers)
      /\ InSeq(Batch(due)) = due /\ Distinct(Batch(due))
      /\ Batch(due) = <<>> <=> due = {}
  <2>1. due \in SUBSET Timers /\ IsFiniteSet(due)
    BY <1>t, FS_Subset
  <2>2. \A x, y \in due : m_next[x] = m_next[y] => x = y
    BY DEF OwnKeys
  <2> HIDE DEF due
  <2> QED
    BY <1>t, <2>1, <2>2, BatchHoldsAll
<1>s. /\ pc[p] = "expire"
      /\ m_timers' = m_timers \ due
      /\ temp' = [temp EXCEPT ![p] = Batch(due)]
      /\ it' = [q \in Thread |-> IF q = p THEN None ELSE IF it[q] \in due THEN Stale ELSE it[q]]
      /\ \/ due = {} /\ pc' = [pc EXCEPT ![p] = "free"] /\ self' = [self EXCEPT ![p] = None]
         \/ due # {} /\ pc' = [pc EXCEPT ![p] = "deliver"] /\ self' = self
      /\ UNCHANGED <<now, created, fields, history>>
  BY DEF Collect, Remaining, Invalidate, Return, Goto
<1>c. corrupt' \in BOOLEAN
  BY Zenon DEF Collect, Racing
<1>d. due \subseteq m_timers
  OBVIOUS
<1> HIDE DEF due
<1>3. Batches'
  BY <1>t, <1>s, <1>b DEF Batches, Distinct
<1>1. TypeOK'
  <2>1. it' \in [Thread -> Timers \cup {None, Stale}]
    BY <1>t, <1>s
  <2>2. \A q \in Thread : \A i \in DOMAIN temp'[q] : temp'[q][i] \in Timers
    <3>1. ASSUME NEW q \in Thread PROVE \A i \in DOMAIN temp'[q] : temp'[q][i] \in Timers
      <4>1. temp'[q] \in Seq(Timers)
        BY <1>3 DEF Batches
      <4> QED
        BY <4>1, LenProperties
    <3> QED
      BY <3>1
  <2>3. m_timers' \subseteq created
    BY <1>t, <1>s
  <2> QED
    BY <1>s, <1>c, <2>1, <2>2, <2>3 DEF TypeOK, fields, history
<1>2. IsFiniteSet(m_timers')
  BY <1>s, FS_Subset
<1>f. /\ InFlight(p)' = due /\ InFlight(p) = {}
      /\ \A q \in Thread \ {p} : InFlight(q)' = InFlight(q)
  <2>1. temp[p] = <<>> /\ temp \in [Thread -> Seq(Timers)]
    BY <1>s DEF Batches
  <2>2. \A q \in Thread \ {p} : pc'[q] = pc[q] /\ self'[q] = self[q] /\ temp'[q] = temp[q]
    BY <1>t, <1>s, <2>1
  <2>3. pc'[p] # "insert" /\ temp'[p] = Batch(due)
    BY <1>t, <1>s, <2>1
  <2> QED
    BY <1>s, <1>b, <2>1, <2>2, <2>3 DEF InFlight, InSeq
<1>4. CallsAbout'
  BY <1>t, <1>s, <1>d, <1>f DEF CallsAbout
<1>5. Iterators'
  BY <1>t, <1>s, TimerAssumption DEF Iterators
<1>6. OnePlace'
  BY <1>s, <1>d, <1>f DEF OnePlace
<1>7. Unfired' /\ HasCallback'
  <2>1. \A x \in Timers : Placed(x)' => Placed(x)
    BY <1>s, <1>d, <1>f DEF Placed
  <2> QED
    BY <1>s, <2>1 DEF Unfired, HasCallback, fields, history
<1>8. OwnKeys'
  BY <1>s DEF OwnKeys, fields
<1>9. HandedOnce' /\ EmptyOnlyAfterReset' /\ NothingVanishes'
  BY <1>s, <1>d, <1>f DEF HandedOnce, EmptyOnlyAfterReset, NothingVanishes, history
<1> QED
  BY <1>1, <1>2, <1>3, <1>4, <1>5, <1>6, <1>7, <1>8, <1>9

(* What the head of a batch is, and what is left without it.               *)
LEMMA HeadInFlight ==
  ASSUME Inv, NEW p \in Thread, pc[p] \in {"deliver", "rearm"}
  PROVE  /\ temp[p] \in Seq(Timers) /\ temp[p] # <<>>
         /\ Head(temp[p]) \in Timers /\ Head(temp[p]) \in created
         /\ InFlight(p) = InSeq(temp[p])
         /\ InSeq(temp[p]) = InSeq(Tail(temp[p])) \cup {Head(temp[p])}
         /\ Head(temp[p]) \notin InSeq(Tail(temp[p]))
         /\ Tail(temp[p]) \in Seq(Timers) /\ Distinct(Tail(temp[p]))
         /\ Tail(temp[p]) = <<>> <=> Len(temp[p]) = 1
         /\ Head(temp[p]) \notin m_timers
         /\ \A q \in Thread \ {p} : Head(temp[p]) \notin InFlight(q)
PROOF
<1>1. temp[p] \in Seq(Timers) /\ temp[p] # <<>> /\ Distinct(temp[p])
  BY DEF Inv, Batches, Distinct
<1>2. InFlight(p) = InSeq(temp[p])
  BY DEF InFlight, InSeq
<1>3. /\ Head(temp[p]) \in Timers
      /\ InSeq(temp[p]) = InSeq(Tail(temp[p])) \cup {Head(temp[p])}
      /\ Head(temp[p]) \notin InSeq(Tail(temp[p]))
      /\ Tail(temp[p]) \in Seq(Timers) /\ Distinct(Tail(temp[p]))
      /\ Tail(temp[p]) = <<>> <=> Len(temp[p]) = 1
  BY <1>1, TailDropsHead
<1>4. Head(temp[p]) \in InFlight(p)
  BY <1>2, <1>3
<1> QED
  BY <1>1, <1>2, <1>3, <1>4 DEF Inv, OnePlace, CallsAbout

(* A thread leaves the head of its batch behind.                           *)
LEMMA DropHead ==
  ASSUME Inv, NEW p \in Thread, pc[p] \in {"deliver", "rearm"},
         temp' = [temp EXCEPT ![p] = Tail(@)],
         IF Len(temp[p]) = 1 THEN Return(p) ELSE Goto(p, "deliver")
  PROVE  /\ Batches'
         /\ \A q \in Thread : \A i \in DOMAIN temp'[q] : temp'[q][i] \in Timers
         /\ pc' \in [Thread -> {"free", "insert", "peek", "expire", "deliver", "rearm",
                                "cancel", "reset", "clear", "refresh", "erasing"}]
         /\ self' \in [Thread -> Timers \cup {None}]
         /\ InFlight(p)' = InFlight(p) \ {Head(temp[p])}
         /\ \A q \in Thread \ {p} : InFlight(q)' = InFlight(q)
         /\ \A q \in Thread : q # p => pc'[q] = pc[q] /\ self'[q] = self[q]
         /\ pc'[p] \in {"free", "deliver"}
PROOF
<1>t. /\ pc \in [Thread -> {"free", "insert", "peek", "expire", "deliver", "rearm",
                            "cancel", "reset", "clear", "refresh", "erasing"}]
      /\ self \in [Thread -> Timers \cup {None}]
      /\ temp \in [Thread -> Seq(Timers)]
  BY DEF Inv, TypeOK, Batches
<1>s. \/ Len(temp[p]) = 1 /\ pc' = [pc EXCEPT ![p] = "free"] /\ self' = [self EXCEPT ![p] = None]
      \/ Len(temp[p]) # 1 /\ pc' = [pc EXCEPT ![p] = "deliver"] /\ self' = self
  BY DEF Return, Goto
<1>h. /\ Tail(temp[p]) \in Seq(Timers) /\ Distinct(Tail(temp[p]))
      /\ Tail(temp[p]) = <<>> <=> Len(temp[p]) = 1
      /\ InFlight(p) = InSeq(Tail(temp[p])) \cup {Head(temp[p])}
      /\ Head(temp[p]) \notin InSeq(Tail(temp[p]))
  BY HeadInFlight
<1>1. Batches'
  BY <1>t, <1>s, <1>h DEF Inv, Batches, Distinct
<1>2. ASSUME NEW q \in Thread PROVE \A i \in DOMAIN temp'[q] : temp'[q][i] \in Timers
  <2>1. temp'[q] \in Seq(Timers)
    BY <1>1 DEF Batches
  <2> QED
    BY <2>1, LenProperties
<1>3. /\ pc' \in [Thread -> {"free", "insert", "peek", "expire", "deliver", "rearm",
                             "cancel", "reset", "clear", "refresh", "erasing"}]
      /\ self' \in [Thread -> Timers \cup {None}]
      /\ pc'[p] \in {"free", "deliver"}
  BY <1>t, <1>s
<1>4. \A q \in Thread \ {p} : pc'[q] = pc[q] /\ self'[q] = self[q] /\ temp'[q] = temp[q]
  BY <1>t, <1>s
<1>5. InFlight(p)' = InSeq(Tail(temp[p]))
  BY <1>t, <1>3 DEF InFlight, InSeq
<1>6. \A q \in Thread \ {p} : InFlight(q)' = InFlight(q)
  BY <1>4 DEF InFlight
<1> QED
  BY <1>h, <1>1, <1>2, <1>3, <1>4, <1>5, <1>6

(* The loop hands the callback of the head over; a one-shot timer is done, *)
(* a recurring one goes on to Rearm.                                       *)
LEMMA DeliverKeepsInv ==
  ASSUME Inv, ~corrupt, NEW p \in Thread, Deliver(p)
  PROVE  Inv'
PROOF
<1> USE DEF Inv
<1>x. PICK x \in Timers : x = Head(temp[p])
  BY HeadInFlight DEF Deliver
<1>p. pc[p] = "deliver"
  BY DEF Deliver
<1>t. /\ pc \in [Thread -> {"free", "insert", "peek", "expire", "deliver", "rearm",
                            "cancel", "reset", "clear", "refresh", "erasing"}]
      /\ self \in [Thread -> Timers \cup {None}]
      /\ m_timers \subseteq created /\ created \subseteq Timers
      /\ m_next \in [Timers -> 0 .. Wrap - 1] /\ m_gap \in [Timers -> Gaps \cup {0}]
      /\ m_cb \in [Timers -> BOOLEAN] /\ handed \in [Timers -> Nat]
      /\ empty \subseteq Timers
  BY DEF TypeOK
<1>h. /\ x \in created /\ x \notin m_timers /\ x \in InFlight(p)
      /\ \A q \in Thread \ {p} : x \notin InFlight(q)
  BY <1>x, <1>p, HeadInFlight
<1>s. /\ handed' = IF x \in Recurring THEN handed ELSE [handed EXCEPT ![x] = @ + 1]
      /\ empty' = IF m_cb[x] THEN empty ELSE empty \cup {x}
      /\ UNCHANGED <<now, created, m_timers, m_gap, m_timeManager, it, wasReset, gone>>
  BY <1>x DEF Deliver
<1>0. Placed(x)
  BY <1>h DEF Placed
<1>1. handed' \in [Timers -> Nat] /\ empty' \subseteq Timers
  BY <1>t, <1>s
<1>2. HandedOnce'
  BY <1>t, <1>s, <1>0 DEF HandedOnce, Unfired
<1>3. EmptyOnlyAfterReset'
  BY <1>s, <1>0 DEF EmptyOnlyAfterReset, HasCallback
<1>4. CASE Rearms(x)
  <2>s. /\ m_next' = [m_next EXCEPT ![x] = now + m_gap[x]]
        /\ corrupt' = (x \in m_timers)
        /\ pc' = [pc EXCEPT ![p] = "rearm"]
        /\ UNCHANGED <<m_cb, temp, self>>
    BY <1>x, <1>4 DEF Deliver, Goto
  <2>r. handed' = handed
    BY <1>4, <1>s DEF Rearms
  <2>f. \A q \in Thread : InFlight(q)' = InFlight(q)
    BY <1>t, <1>p, <2>s DEF InFlight
  <2>1. TypeOK'
    <3>1. now + m_gap[x] \in 0 .. Wrap - 1
      BY <1>t, KeyFits
    <3>2. m_next' \in [Timers -> 0 .. Wrap - 1]
      BY <1>t, <2>s, <3>1
    <3> QED
      BY <1>1, <1>s, <2>s, <3>2 DEF TypeOK
  <2>2. Batches'
    BY <1>t, <1>p, <2>s DEF Batches
  <2>3. CallsAbout'
    BY <1>t, <1>s, <2>s, <2>f DEF CallsAbout
  <2>4. Iterators' /\ OnePlace'
    BY <1>s, <2>f DEF Iterators, OnePlace
  <2>5. Unfired' /\ HasCallback'
    BY <1>s, <2>s, <2>r, <2>f DEF Unfired, HasCallback, Placed
  <2>6. OwnKeys'
    BY <1>t, <1>h, <1>s, <2>s DEF OwnKeys
  <2>7. NothingVanishes'
    BY <1>s, <2>r, <2>f DEF NothingVanishes
  <2> QED
    BY <1>2, <1>3, <1>s, <2>1, <2>2, <2>3, <2>4, <2>5, <2>6, <2>7
<1>5. CASE ~Rearms(x)
  <2>s. /\ m_cb' = [m_cb EXCEPT ![x] = FALSE]
        /\ temp' = [temp EXCEPT ![p] = Tail(@)]
        /\ IF Len(temp[p]) = 1 THEN Return(p) ELSE Goto(p, "deliver")
        /\ UNCHANGED <<m_next, corrupt>>
    BY <1>x, <1>5 DEF Deliver
  <2>d. /\ Batches'
        /\ \A q \in Thread : \A i \in DOMAIN temp'[q] : temp'[q][i] \in Timers
        /\ pc' \in [Thread -> {"free", "insert", "peek", "expire", "deliver", "rearm",
                               "cancel", "reset", "clear", "refresh", "erasing"}]
        /\ self' \in [Thread -> Timers \cup {None}]
        /\ InFlight(p)' = InFlight(p) \ {x}
        /\ \A q \in Thread \ {p} : InFlight(q)' = InFlight(q)
        /\ \A q \in Thread : q # p => pc'[q] = pc[q] /\ self'[q] = self[q]
        /\ pc'[p] \in {"free", "deliver"}
    BY <1>x, <1>p, <2>s, DropHead
  <2>1. TypeOK'
    <3>1. m_cb' \in [Timers -> BOOLEAN]
      BY <1>t, <2>s
    <3> QED
      BY <1>1, <1>s, <2>s, <2>d, <3>1 DEF TypeOK
  <2>3. CallsAbout'
    BY <1>s, <2>d DEF CallsAbout
  <2>4. Iterators' /\ OnePlace'
    BY <1>s, <2>d DEF Iterators, OnePlace
  <2>p. /\ \A y \in Timers : Placed(y)' => Placed(y)
        /\ ~Placed(x)'
    BY <1>h, <1>s, <2>d DEF Placed
  <2>5. Unfired' /\ HasCallback'
    BY <1>t, <1>h, <1>s, <2>s, <2>p DEF Unfired, HasCallback
  <2>6. OwnKeys'
    BY <1>s, <2>s DEF OwnKeys
  <2>7. NothingVanishes'
    <3>1. (x \notin Recurring /\ handed'[x] = 1) \/ x \in wasReset
      BY <1>5, <1>t, <1>s, <1>0 DEF Rearms, Unfired
    <3>2. \A y \in Timers \ {x} : handed'[y] = handed[y]
      BY <1>t, <1>s
    <3> QED
      BY <1>t, <1>s, <2>d, <3>1, <3>2 DEF NothingVanishes
  <2> QED
    BY <1>2, <1>3, <1>s, <2>1, <2>d, <2>3, <2>4, <2>5, <2>6, <2>7
<1> QED
  BY <1>4, <1>5

(* A recurring timer that fired goes back into the set.                    *)
LEMMA RearmKeepsInv ==
  ASSUME Inv, ~corrupt, NEW p \in Thread, Rearm(p)
  PROVE  Inv'
PROOF
<1> USE DEF Inv
<1>x. PICK x \in Timers : x = Head(temp[p])
  BY HeadInFlight DEF Rearm
<1>p. pc[p] = "rearm"
  BY DEF Rearm
<1>t. /\ m_timers \subseteq created /\ created \subseteq Timers /\ gone \subseteq Timers
  BY DEF TypeOK
<1>h. /\ x \in created /\ x \notin m_timers /\ x \in InFlight(p)
      /\ \A q \in Thread \ {p} : x \notin InFlight(q)
  BY <1>x, <1>p, HeadInFlight
<1>s. /\ temp' = [temp EXCEPT ![p] = Tail(@)]
      /\ IF Len(temp[p]) = 1 THEN Return(p) ELSE Goto(p, "deliver")
      /\ UNCHANGED <<now, created, fields, it, handed, empty, wasReset>>
  BY DEF Rearm
<1>c. corrupt' \in BOOLEAN
  BY Zenon DEF Rearm, Racing
<1>i. /\ IsFiniteSet(m_timers') /\ m_timers' \subseteq created
      /\ m_timers \subseteq m_timers' /\ m_timers' \subseteq m_timers \cup {x}
      /\ gone \subseteq gone' /\ gone' \subseteq gone \cup {x}
      /\ x \in m_timers' \/ x \in gone'
      /\ x \in m_timers' => x \in m_timers \/ \A y \in m_timers : m_next[y] # m_next[x]
  <2>1. InsertInto(m_timers, x, m_next[x])
    BY <1>x DEF Rearm
  <2>2. m_timers \in SUBSET m_timers /\ TypeOK /\ IsFiniteSet(m_timers)
    OBVIOUS
  <2> HIDE DEF Inv
  <2> QED
    BY <1>h, <2>1, <2>2, InsertedOnce
<1>d. /\ Batches'
      /\ \A q \in Thread : \A i \in DOMAIN temp'[q] : temp'[q][i] \in Timers
      /\ pc' \in [Thread -> {"free", "insert", "peek", "expire", "deliver", "rearm",
                             "cancel", "reset", "clear", "refresh", "erasing"}]
      /\ self' \in [Thread -> Timers \cup {None}]
      /\ InFlight(p)' = InFlight(p) \ {x}
      /\ \A q \in Thread \ {p} : InFlight(q)' = InFlight(q)
      /\ \A q \in Thread : q # p => pc'[q] = pc[q] /\ self'[q] = self[q]
      /\ pc'[p] \in {"free", "deliver"}
  BY <1>x, <1>p, <1>s, DropHead
<1>1. TypeOK'
  <2>1. gone' \subseteq Timers
    BY <1>t, <1>i
  <2> QED
    BY <1>s, <1>c, <1>i, <1>d, <2>1 DEF TypeOK, fields
<1>2. CallsAbout'
  BY <1>s, <1>d DEF CallsAbout
<1>3. Iterators' /\ OnePlace'
  BY <1>s, <1>h, <1>i, <1>d DEF Iterators, OnePlace
<1>4. Unfired' /\ HasCallback'
  <2>1. \A y \in Timers : Placed(y)' => Placed(y)
    BY <1>h, <1>i, <1>d DEF Placed
  <2> QED
    BY <1>s, <2>1 DEF Unfired, HasCallback, fields
<1>5. OwnKeys'
  BY <1>s, <1>i DEF OwnKeys, fields
<1>6. HandedOnce' /\ EmptyOnlyAfterReset' /\ NothingVanishes'
  BY <1>s, <1>i, <1>d DEF HandedOnce, EmptyOnlyAfterReset, NothingVanishes
<1> QED
  BY <1>i, <1>d, <1>1, <1>2, <1>3, <1>4, <1>5, <1>6

-----------------------------------------------------------------------------
(* Every step keeps the invariant.                                         *)
LEMMA NextKeepsInv == Inv /\ [Next]_vars => Inv'
PROOF
<1> SUFFICES ASSUME Inv, [Next]_vars PROVE Inv'
  OBVIOUS
<1>1. CASE Next
  <2>0. ~corrupt
    BY <1>1 DEF Next
  <2>1. CASE Tick
    BY <2>0, <2>1, LookKeepsInv
  <2>2. ASSUME NEW p \in Thread, Adds(p) PROVE Inv'
    BY <2>0, <2>2, InsertKeepsInv, ConstructKeepsInv DEF Adds
  <2>3. ASSUME NEW p \in Thread, Loops(p) PROVE Inv'
    BY <2>0, <2>3, LookKeepsInv, CollectKeepsInv, DeliverKeepsInv, RearmKeepsInv DEF Loops
  <2>4. ASSUME NEW p \in Thread, Calls(p) PROVE Inv'
    BY <2>0, <2>4, LookKeepsInv, EraseKeepsInv, ClearKeepsInv, RefreshKeepsInv,
       RegapKeepsInv DEF Calls
  <2> QED
    BY <1>1, <2>1, <2>2, <2>3, <2>4 DEF Next
<1>2. CASE UNCHANGED vars
  <2> USE <1>2 DEF vars, Inv, fields, history
  <2>1. TypeOK' /\ Batches' /\ Iterators' /\ OwnKeys'
    BY DEF TypeOK, Batches, Iterators, OwnKeys
  <2>2. \A p \in Thread : InFlight(p)' = InFlight(p)
    BY DEF InFlight
  <2>3. CallsAbout' /\ OnePlace' /\ Unfired' /\ HasCallback'
    BY <2>2 DEF CallsAbout, OnePlace, Unfired, HasCallback, Placed
  <2>4. HandedOnce' /\ EmptyOnlyAfterReset' /\ NothingVanishes'
    BY <2>2 DEF HandedOnce, EmptyOnlyAfterReset, NothingVanishes
  <2> QED
    BY <2>1, <2>3, <2>4
<1> QED
  BY <1>1, <1>2

(* The invariant holds in every behaviour.                                 *)
LEMMA InvHolds == Spec => []Inv
PROOF
  BY InitInv, NextKeepsInv, PTL DEF Spec

-----------------------------------------------------------------------------
(* The theorems.                                                           *)

(* The variables keep their types; a key below zero wraps as uint64_t does.*)
THEOREM TypeCorrect == Spec => []TypeOK
PROOF
<1>1. Inv => TypeOK
  BY DEF Inv
<1> QED
  BY InvHolds, <1>1, PTL

(* A one-shot callback goes to the scheduler once, whichever workers       *)
(* collect and whatever is done to the timer in between.                   *)
THEOREM HandedOnceHolds == Spec => []HandedOnce
PROOF
<1>1. Inv => HandedOnce
  BY DEF Inv
<1> QED
  BY InvHolds, <1>1, PTL

(* An empty callback goes to the scheduler only for a timer that reset()   *)
(* cleared while it was out of the set.                                    *)
THEOREM EmptyOnlyAfterResetHolds == Spec => []EmptyOnlyAfterReset
PROOF
<1>1. Inv => EmptyOnlyAfterReset
  BY DEF Inv
<1> QED
  BY InvHolds, <1>1, PTL

(* A timer is in the set or in flight with one thread, never in two places.*)
THEOREM OnePlaceHolds == Spec => []OnePlace
PROOF
<1>1. Inv => OnePlace
  BY DEF Inv
<1> QED
  BY InvHolds, <1>1, PTL

(* Expiry and refresh() put back what they took out.                       *)
THEOREM NothingVanishesHolds == Spec => []NothingVanishes
PROOF
<1>1. Inv => NothingVanishes
  BY DEF Inv
<1> QED
  BY InvHolds, <1>1, PTL

=============================================================================
