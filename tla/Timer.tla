-------------------------------- MODULE Timer --------------------------------
(***************************************************************************)
(* sylar::Timer and sylar::TimerManager (Timer.cpp, Timer.hpp): a std::set *)
(* of timers ordered by m_next alone, a lock that some of its users drop   *)
(* half way, and the batch hand-over of expired callbacks.                 *)
(*                                                                         *)
(* A thread is a worker of the scheduler: it goes round its idle loop      *)
(* (GetNextTimerMs, then GetExpiredCb) or runs code that uses a timer.     *)
(* A section under TimerRWMutex is one step; what the code does after it   *)
(* let the lock go is a step of its own.                                   *)
(*                                                                         *)
(* An iterator whose node another thread erased, an access to the set      *)
(* while refresh() changes it without the lock, the first element of an    *)
(* empty set, a key changed inside the set, and a use of m_timeManager     *)
(* after reset() are undefined: the model says so (corrupt) and stops.     *)
(***************************************************************************)
EXTENDS Integers, Sequences, FiniteSets

CONSTANTS
  Timers,        \* the Timer objects the program creates
  Recurring,     \* those created with recurring = true
  Thread,        \* the threads that use the TimerManager
  Gaps,          \* intervals in milliseconds
  StartTime,     \* the clock at the start, far from zero as in the program
  MaxTime,       \* bound: the clock stops here
  Wrap,          \* one more than the largest uint64_t, scaled down
  Ops,           \* the calls made besides addTimer()
  None, Stale    \* no timer; an iterator whose node is gone

ASSUME TimerAssumption ==
  /\ Recurring \subseteq Timers /\ {None, Stale} \cap Timers = {} /\ None # Stale
  /\ Gaps \subseteq Nat \ {0} /\ StartTime \in Nat /\ MaxTime \in Nat /\ Wrap \in Nat
  /\ StartTime <= MaxTime /\ MaxTime < Wrap
  /\ \A g \in Gaps : g <= StartTime /\ MaxTime + g < Wrap
  /\ Ops \subseteq {"cancel", "refresh", "reset", "regap"}

VARIABLES
  now,           \* GetCurrentMS()
  created,       \* timers constructed so far
  m_timers,      \* the set
  m_next, m_gap,
  m_cb,          \* the callback is not null
  m_timeManager, \* the back pointer is not null
  pc,            \* where each thread is in its call
  self,          \* the timer its call is about
  it,            \* its iterator into m_timers
  temp,          \* GetExpiredCb: the batch taken out and not handed over yet
  handed,        \* history: how often a one-shot callback was put in obs
  empty,         \* history: timers for which obs got an empty function
  wasReset,      \* history: timers whose fields reset() cleared
  gone,          \* history: timers erased by a caller or refused by insert()
  corrupt

vars == <<now, created, m_timers, m_next, m_gap, m_cb, m_timeManager, pc, self,
          it, temp, handed, empty, wasReset, gone, corrupt>>
fields == <<m_next, m_gap, m_cb, m_timeManager>>
history == <<handed, empty, wasReset, gone>>

Init ==
  /\ now = StartTime
  /\ created = {} /\ m_timers = {}
  /\ m_next = [x \in Timers |-> 0] /\ m_gap = [x \in Timers |-> 0]
  /\ m_cb = [x \in Timers |-> FALSE] /\ m_timeManager = [x \in Timers |-> FALSE]
  /\ pc = [p \in Thread |-> "free"]
  /\ self = [p \in Thread |-> None]
  /\ it = [p \in Thread |-> None]
  /\ temp = [p \in Thread |-> <<>>]
  /\ handed = [x \in Timers |-> 0] /\ empty = {} /\ wasReset = {} /\ gone = {}
  /\ corrupt = FALSE

-----------------------------------------------------------------------------
(* The set.                                                                *)

(* find(): the comparator knows m_next only, so this may be another timer. *)
Found(x) == {y \in m_timers : m_next[y] = m_next[x]}

(* insert() of x with key k: nothing happens when the key is taken.        *)
InsertInto(S, x, k) ==
  LET taken == \E y \in S : m_next[y] = k
  IN  /\ m_timers' = IF taken THEN S ELSE S \cup {x}
      /\ gone' = IF taken THEN gone \cup {x} ELSE gone

(* Mutant: the node stays in the set.                                      *)
Without_Keeps(y) == m_timers

Without(y) == m_timers \ {y}

(* Mutant: the difference is not an unsigned one.                          *)
Unsigned_Signed(n) == n

(* uint64_t arithmetic, scaled down.                                       *)
Unsigned(n) == n % Wrap

(* Erasing nodes leaves the iterators other threads hold on them stale.    *)
Invalidate(S, p) ==
  it' = [q \in Thread |-> IF q = p THEN None ELSE IF it[q] \in S THEN Stale ELSE it[q]]

(* Another thread is inside refresh()'s erase without the lock.            *)
Racing(p) == \E q \in Thread \ {p} : pc[q] = "erasing"

Return(p) == pc' = [pc EXCEPT ![p] = "free"] /\ self' = [self EXCEPT ![p] = None]
Goto(p, l) == pc' = [pc EXCEPT ![p] = l] /\ UNCHANGED self
Enter(p, x, l) == pc' = [pc EXCEPT ![p] = l] /\ self' = [self EXCEPT ![p] = x]

-----------------------------------------------------------------------------
Tick ==
  /\ now < MaxTime
  /\ now' = now + 1
  /\ UNCHANGED <<created, m_timers, fields, pc, self, it, temp, history, corrupt>>

(* addTimer(ms, cb, recurring): the constructor reads the clock ...        *)
Construct(p, x, g) ==
  /\ pc[p] = "free"
  /\ x \notin created
  /\ created' = created \cup {x}
  /\ m_gap' = [m_gap EXCEPT ![x] = g]
  /\ m_next' = [m_next EXCEPT ![x] = now + g]
  /\ m_cb' = [m_cb EXCEPT ![x] = TRUE]
  /\ m_timeManager' = [m_timeManager EXCEPT ![x] = TRUE]
  /\ Enter(p, x, "insert")
  /\ UNCHANGED <<now, m_timers, it, temp, history, corrupt>>

(* ... and the insertion follows under the lock.  refresh() ends the same  *)
(* way, with the timer its iterator showed it.                             *)
Insert(p) ==
  /\ pc[p] = "insert"
  /\ InsertInto(m_timers, self[p], m_next[self[p]])
  /\ corrupt' = Racing(p)
  /\ Return(p)
  /\ UNCHANGED <<now, created, fields, it, temp, handed, empty, wasReset>>

-----------------------------------------------------------------------------
(* The idle loop of a worker.                                              *)

(* GetNextTimerMs(): size() without the lock.                              *)
PeekSize(p) ==
  /\ pc[p] = "free"
  /\ corrupt' = Racing(p)
  /\ Goto(p, IF m_timers = {} THEN "expire" ELSE "peek")
  /\ UNCHANGED <<now, created, m_timers, fields, it, temp, history>>

(* begin() is read through, whatever became of the set in between.         *)
PeekFirst(p) ==
  /\ pc[p] = "peek"
  /\ corrupt' = (m_timers = {} \/ Racing(p))
  /\ Goto(p, "expire")
  /\ UNCHANGED <<now, created, m_timers, fields, it, temp, history>>

(* Mutants: the expired timers are copied and stay in the set; the erase   *)
(* runs to the end of the set.                                             *)
Remaining_All(S) == m_timers
Remaining_None(S) == {}

Remaining(S) == m_timers \ S

(* temp gets the nodes in the order of the set.                            *)
Batch(S) ==
  CHOOSE s \in [1 .. Cardinality(S) -> S] :
    \A i, j \in DOMAIN s : i < j => m_next[s[i]] < m_next[s[j]]

(* GetExpiredCb(): everything up to now leaves the set under one lock (the *)
(* clock, which the code reads just before it locks, is read with it).     *)
Collect(p) ==
  LET due == {x \in m_timers : m_next[x] <= now}
  IN  /\ pc[p] = "expire"
      /\ m_timers' = Remaining(due)
      /\ temp' = [temp EXCEPT ![p] = Batch(due)]
      /\ Invalidate(due, p)
      /\ corrupt' = Racing(p)
      /\ IF due = {} THEN Return(p) ELSE Goto(p, "deliver")
      /\ UNCHANGED <<now, created, fields, history>>

(* Mutant: every timer is treated as one-shot.                             *)
Rearms_Never(x) == FALSE

Rearms(x) == x \in Recurring /\ x \notin wasReset

(* The loop after the lock: the callback goes to obs, then the timer is    *)
(* prepared for its next round or stripped of its callback.                *)
Deliver(p) ==
  LET x == Head(temp[p])
  IN  /\ pc[p] = "deliver"
      /\ handed' = IF x \in Recurring THEN handed ELSE [handed EXCEPT ![x] = @ + 1]
      /\ empty' = IF m_cb[x] THEN empty ELSE empty \cup {x}
      /\ IF Rearms(x)
           THEN /\ m_next' = [m_next EXCEPT ![x] = now + m_gap[x]]
                /\ corrupt' = (x \in m_timers)
                /\ UNCHANGED m_cb
                /\ Goto(p, "rearm")
                /\ UNCHANGED temp
           ELSE /\ m_cb' = [m_cb EXCEPT ![x] = FALSE]
                /\ temp' = [temp EXCEPT ![p] = Tail(@)]
                /\ IF Len(temp[p]) = 1 THEN Return(p) ELSE Goto(p, "deliver")
                /\ UNCHANGED <<m_next, corrupt>>
      /\ UNCHANGED <<now, created, m_timers, m_gap, m_timeManager, it, wasReset, gone>>

(* addTimer(timer) of a recurring timer that fired.                        *)
Rearm(p) ==
  /\ pc[p] = "rearm"
  /\ InsertInto(m_timers, Head(temp[p]), m_next[Head(temp[p])])
  /\ temp' = [temp EXCEPT ![p] = Tail(@)]
  /\ corrupt' = Racing(p)
  /\ IF Len(temp[p]) = 1 THEN Return(p) ELSE Goto(p, "deliver")
  /\ UNCHANGED <<now, created, fields, it, handed, empty, wasReset>>

-----------------------------------------------------------------------------
(* The methods of Timer.                                                   *)

(* cancel(), refresh() and reset() begin with find() under a shared lock   *)
(* and return when there is nothing.                                       *)
Find(p, x, op) ==
  /\ pc[p] = "free" /\ x \in created
  /\ op \in Ops \cap {"cancel", "refresh", "reset"}
  /\ corrupt' = (Racing(p) \/ ~m_timeManager[x])
  /\ IF Found(x) = {}
       THEN /\ IF op = "reset" THEN Enter(p, x, "clear") ELSE UNCHANGED <<pc, self>>
            /\ UNCHANGED it
       ELSE /\ it' = [it EXCEPT ![p] = CHOOSE y \in Found(x) : TRUE]
            /\ Enter(p, x, op)
  /\ UNCHANGED <<now, created, m_timers, fields, temp, history>>

(* cancel(): the lock is taken again and the old iterator erased.          *)
Erase(p) ==
  /\ pc[p] \in {"cancel", "reset"}
  /\ corrupt' = (it[p] = Stale \/ Racing(p))
  /\ m_timers' = Without(it[p])
  /\ gone' = gone \cup ({it[p]} \cap Timers)
  /\ Invalidate({it[p]}, p)
  /\ IF pc[p] = "reset" THEN Goto(p, "clear") ELSE Return(p)
  /\ UNCHANGED <<now, created, fields, temp, handed, empty, wasReset>>

(* reset(): the fields are cleared without the lock.                       *)
Clear(p) ==
  LET x == self[p]
  IN  /\ pc[p] = "clear"
      /\ m_gap' = [m_gap EXCEPT ![x] = 0] /\ m_next' = [m_next EXCEPT ![x] = 0]
      /\ m_cb' = [m_cb EXCEPT ![x] = FALSE]
      /\ m_timeManager' = [m_timeManager EXCEPT ![x] = FALSE]
      /\ wasReset' = wasReset \cup {x}
      /\ corrupt' = (x \in m_timers)
      /\ Return(p)
      /\ UNCHANGED <<now, created, m_timers, it, temp, handed, empty, gone>>

(* refresh(): the node is erased without the lock, in two steps so that    *)
(* another thread can get in between ...                                   *)
RefreshErase(p) ==
  /\ pc[p] = "refresh"
  /\ corrupt' = (it[p] = Stale \/ Racing(p))
  /\ Goto(p, "erasing")
  /\ UNCHANGED <<now, created, m_timers, fields, it, temp, history>>

(* ... and the timer found, with the interval of the caller, goes back in. *)
RefreshErased(p) ==
  LET y == it[p]
  IN  /\ pc[p] = "erasing" /\ y \in Timers
      /\ m_timers' = Without(y)
      /\ m_next' = [m_next EXCEPT ![y] = now + m_gap[self[p]]]
      /\ Invalidate({y}, p)
      /\ Enter(p, y, "insert")
      /\ UNCHANGED <<now, created, m_gap, m_cb, m_timeManager, temp, history, corrupt>>

(* reset(gap, from_now): one section under the lock.                       *)
Regap(p, x, g, from_now) ==
  /\ "regap" \in Ops
  /\ pc[p] = "free" /\ x \in created
  /\ corrupt' = (Racing(p) \/ ~m_timeManager[x])
  /\ IF Found(x) = {}
       THEN UNCHANGED <<m_timers, m_next, m_gap, it, gone>>
       ELSE \E y \in Found(x) :
              LET next == IF from_now THEN now + g ELSE Unsigned(m_next[y] - g)
              IN  /\ m_gap' = [m_gap EXCEPT ![y] = g]
                  /\ m_next' = [m_next EXCEPT ![y] = next]
                  /\ InsertInto(Without(y), y, next)
                  /\ Invalidate({y}, p)
  /\ UNCHANGED <<now, created, m_cb, m_timeManager, pc, self, temp,
                 handed, empty, wasReset>>

-----------------------------------------------------------------------------
Adds(p) == Insert(p) \/ \E x \in Timers, g \in Gaps : Construct(p, x, g)
Loops(p) == PeekSize(p) \/ PeekFirst(p) \/ Collect(p) \/ Deliver(p) \/ Rearm(p)
Calls(p) ==
  \/ \E x \in Timers, op \in Ops : Find(p, x, op)
  \/ Erase(p) \/ Clear(p) \/ RefreshErase(p) \/ RefreshErased(p)
  \/ \E x \in Timers, g \in Gaps, b \in BOOLEAN : Regap(p, x, g, b)

Next ==
  /\ ~corrupt
  /\ \/ Tick
     \/ \E p \in Thread : Adds(p) \/ Loops(p) \/ Calls(p)

Spec == Init /\ [][Next]_vars

(* Time passes; a worker gets through what it has begun and comes back to  *)
(* its idle loop however often other code uses the timers in between.      *)
Fairness ==
  /\ WF_vars(~corrupt /\ Tick)
  /\ \A p \in Thread :
       /\ SF_vars(~corrupt /\ PeekSize(p))
       /\ WF_vars(~corrupt /\ pc[p] # "free" /\ (Adds(p) \/ Loops(p) \/ Calls(p)))

FairSpec == Spec /\ Fairness

-----------------------------------------------------------------------------
(* Properties.                                                             *)

(* Types of the variables; a key that reset(gap, false) moves below zero   *)
(* wraps, as uint64_t does (Timer.cpp:70).                                 *)
TypeOK ==
  /\ now \in StartTime .. MaxTime
  /\ created \subseteq Timers /\ m_timers \subseteq created
  /\ m_next \in [Timers -> 0 .. Wrap - 1]
  /\ m_gap \in [Timers -> Gaps \cup {0}]
  /\ m_cb \in [Timers -> BOOLEAN] /\ m_timeManager \in [Timers -> BOOLEAN]
  /\ pc \in [Thread -> {"free", "insert", "peek", "expire", "deliver", "rearm",
                        "cancel", "reset", "clear", "refresh", "erasing"}]
  /\ self \in [Thread -> Timers \cup {None}]
  /\ it \in [Thread -> Timers \cup {None, Stale}]
  /\ \A p \in Thread : \A i \in DOMAIN temp[p] : temp[p][i] \in Timers
  /\ handed \in [Timers -> Nat]
  /\ empty \subseteq Timers /\ wasReset \subseteq Timers /\ gone \subseteq Timers
  /\ corrupt \in BOOLEAN

InFlight(p) ==
  {temp[p][i] : i \in DOMAIN temp[p]} \cup (IF pc[p] = "insert" THEN {self[p]} ELSE {})

(* A one-shot timer's callback is handed to the scheduler once, whichever  *)
(* workers collect and whoever finds the timer by another timer's key.     *)
HandedOnce == \A x \in Timers \ Recurring : handed[x] <= 1

(* An empty function, which the scheduler would count as a task and never  *)
(* run, is handed over only for a timer that reset() cleared while it was  *)
(* out of the set.                                                         *)
EmptyOnlyAfterReset == empty \subseteq wasReset

(* A timer is in the set, or on its way out or back in with one thread.    *)
OnePlace ==
  \A p \in Thread :
    /\ InFlight(p) \cap m_timers = {}
    /\ \A q \in Thread \ {p} : InFlight(p) \cap InFlight(q) = {}

(* A timer is lost only to a caller that erased it or to a timer with the  *)
(* same m_next: expiry and refresh() put back what they took out.          *)
NothingVanishes ==
  \A x \in created \ (gone \cup wasReset) :
    \/ x \in m_timers \/ \E p \in Thread : x \in InFlight(p)
    \/ x \notin Recurring /\ handed[x] = 1

(* A timer in the set fires when its time comes, unless a caller erased it *)
(* or moved it past the end of the clock, or undefined behaviour came first.*)
Fires ==
  \A x \in Timers \ Recurring :
    (x \in m_timers) ~> (handed[x] = 1 \/ x \in gone \/ m_next[x] > MaxTime \/ corrupt)

(* cancel() removes the timer it is called on (Timer.cpp:21).              *)
CancelRemovesSelf ==
  [][\A p \in Thread :
       pc[p] = "cancel" /\ pc'[p] # "cancel" => m_timers \ m_timers' \subseteq {self[p]}]_vars
=============================================================================
