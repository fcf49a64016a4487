------------------------------- MODULE NetProofs -------------------------------
(***************************************************************************)
(* Proofs about MCNet: the descriptor table, a Socket and the TCP server,  *)
(* for every number of threads, descriptors, listeners, workers and        *)
(* clients, every first size of the table of at least 2, and any bounds.   *)
(*                                                                         *)
(* The arguments: a descriptor that a call has begun on is that call's     *)
(* alone until the call has left it, so the table changes in step with the *)
(* kernel; a Socket's m_sock is a descriptor of its own; and with a single *)
(* stop() there is a single closing task, which has the sockets to itself. *)
(***************************************************************************)
EXTENDS MCNet, WellFoundedInduction, TLAPS

-----------------------------------------------------------------------------
(* The descriptor table.                                                   *)

Ctx == [of : 1 .. MaxOpened, socket : BOOLEAN, userNonblock : BOOLEAN, sysNonblock : BOOLEAN]
DescTyped ==
  /\ DescTypeOK
  /\ table \in [Fds -> Ctx \cup {NoCtx}] /\ size \in Nat /\ size >= 2

(* A call in progress has an open descriptor, and no other call has it.    *)
DescBusy ==
  /\ \A t \in Thread : tpc[t] # "idle" => open[tfd[t]] # 0
  /\ \A s, t \in Thread : tpc[s] # "idle" /\ tpc[t] # "idle" /\ tfd[s] = tfd[t] => s = t

(* Openings are numbered in turn, and contexts are made for sockets.       *)
DescCounted ==
  \A f \in Fds :
    /\ open[f] <= opened
    /\ table[f] # NoCtx => table[f].of <= opened /\ table[f].socket /\ table[f].sysNonblock

(* A descriptor on its way into the table is a new socket, of which only   *)
(* SOCK_NONBLOCK is known; one on its way to ::close() is out of it.       *)
Entering ==
  \A t \in Thread : tpc[t] \in {"get", "create"} =>
    LET f == tfd[t]
    IN  /\ isSocket[f] /\ (user[f] => f \in born)
        /\ table[f] # NoCtx => table[f].of # open[f]
Leaving ==
  \A t \in Thread : tpc[t] = "close" => table[tfd[t]] = NoCtx \/ tfd[t] \in rawClosed

(* A context of the descriptor now open has its modes.                     *)
OwnModes ==
  \A f \in Fds : table[f] # NoCtx /\ table[f].of = open[f] =>
    /\ table[f].userNonblock = user[f] \/ f \in born
    /\ kernel[f] \/ f \in ioctled

DescInv ==
  DescTyped /\ DescBusy /\ DescCounted /\ Entering /\ Leaving /\ NoStaleContext /\ OwnModes

-----------------------------------------------------------------------------
(* The Socket.                                                             *)

(* It owns what it has; before its first descriptor it remembers nothing.  *)
SockOwned == m_sock # NoSock => owner[m_sock] = "self"
SockFirst == socks = 0 => m_localAddress = NoSock
SockInv == SockTypeOK /\ SockOwned /\ SockFirst /\ LocalIsOwn

-----------------------------------------------------------------------------
(* The server.                                                             *)

AcceptTask == {"accept"} \X Listener \X (1 .. 2)
CloseTask == {"close"} \X {Free} \X (1 .. MaxStops)
ClientTask == {"client"} \X Client \X {0}
SrvTask == AcceptTask \cup CloseTask \cup ClientTask
Place == {<<"run">>, <<"begin">>, <<"accept">>} \cup {<<"closed", l>> : l \in Listener}

SrvTyped ==
  /\ SrvTypeOK
  /\ tasks \subseteq SrvTask /\ job \in [SrvWorker -> SrvTask \cup {Idle}]
  /\ at \in [SrvWorker -> Place] /\ left \in [SrvWorker -> SUBSET Listener]
  /\ client \in [Client -> {"away", "pending", "accepted", "handled"}
                             \X (Listener \cup {Free})]

(* A worker that is in a closing task, or has one to begin.                *)
Closing(w) == job[w][1] = "close"

(* Each stop() makes one closing task, taken once.                         *)
CloseOnce ==
  /\ starts = 0 => stops = 0
  /\ \A t \in tasks : t[1] = "close" => t[3] <= stops /\ \A w \in SrvWorker : job[w] # t
  /\ \A w \in SrvWorker : Closing(w) => job[w][3] <= stops
  /\ \A v, w \in SrvWorker : Closing(v) /\ job[v] = job[w] => v = w

(* Between the two halves of its turn the closing task has the socket.     *)
InTurn ==
  \A w \in SrvWorker :
    /\ at[w] \in {<<"closed", l>> : l \in Listener} => Closing(w) /\ at[w][2] \in left[w]
    /\ job[w] = Idle => at[w] = <<"run">>

(* With one stop() the loop goes over sockets that are still in m_socks ...*)
LoopSafe == stops <= 1 => \A w \in SrvWorker : Closing(w) => left[w] \subseteq m_socks

(* ... and a Socket has its descriptor, save where it was just closed.     *)
SrvOwned ==
  stops <= 1 =>
    \A l \in Listener :
      fd[l] # 0 => owns[fd[l]] = l \/ \E w \in SrvWorker : at[w] = <<"closed", l>>

SrvInv ==
  SrvTyped /\ CloseOnce /\ InTurn /\ LoopSafe /\ SrvOwned
    /\ StrayNeedsTwoStops

(* Before start() nothing of the server is scheduled.                      *)
Unstarted == starts = 0 => tasks = {} /\ \A w \in SrvWorker : job[w] = Idle
BoundInv == Unstarted /\ BindAllOrNothing

NetInv == DescInv /\ SockInv /\ SrvInv /\ BoundInv

-----------------------------------------------------------------------------
(* A set of naturals that is not empty has a least one.                    *)
LEMMA LeastOf ==
  ASSUME NEW S \in SUBSET Nat, S # {}
  PROVE  \E n \in S : \A m \in S : n <= m
PROOF
<1> DEFINE R == OpToRel(<, Nat)
<1>1. PICK n \in S : \A m \in S : <<m, n>> \notin R
  BY NatLessThanWellFounded, WFMin, Zenon
<1>2. \A m \in S : ~(m < n)
  BY <1>1 DEF OpToRel
<1> QED
  BY <1>2, SMT

LEMMA DescInitInv == DescInit => DescInv
PROOF
<1> SUFFICES ASSUME DescInit PROVE DescInv
  OBVIOUS
<1> USE DescAssumption DEF DescInit
<1>1. 0 \in Fds /\ size \in Nat /\ size >= 2
  BY DEF Fds
<1>2. DescTyped
  BY <1>1 DEF DescTyped, DescTypeOK
<1>3. DescCounted
  BY DEF DescCounted
<1> QED
  BY <1>2, <1>3 DEF DescInv, DescBusy, Entering, Leaving, NoStaleContext, OwnModes

LEMMA DescStutter == DescInv /\ UNCHANGED descVars => DescInv'
PROOF
<1> SUFFICES ASSUME DescInv, UNCHANGED descVars PROVE DescInv'
  OBVIOUS
<1> USE DEF descVars, kernelVars, threadVars, ghostVars
<1>1. DescTyped'
  BY DEF DescInv, DescTyped, DescTypeOK
<1>2. DescBusy' /\ DescCounted' /\ Entering' /\ Leaving'
  BY DEF DescInv, DescBusy, DescCounted, Entering, Leaving
<1>3. NoStaleContext' /\ OwnModes'
  BY DEF DescInv, NoStaleContext, OwnModes
<1> QED
  BY <1>1, <1>2, <1>3 DEF DescInv

(* A table that grows past the descriptor has a place for it.              *)
LEMMA GrownHolds ==
  ASSUME NEW f \in Fds, size \in Nat, size >= 2
  PROVE  Grown(f) \in Nat /\ Grown(f) >= size /\ f < Grown(f)
PROOF
<1> f \in Nat
  BY DescAssumption DEF Fds
<1>1. CASE f >= size
  <2>1. (f * 3) \div 2 \in Nat /\ (f * 3) \div 2 >= f + 1
    BY <1>1
  <2> QED
    BY <1>1, <2>1 DEF Grown
<1>2. CASE ~(f >= size)
  BY <1>2 DEF Grown
<1> QED
  BY <1>1, <1>2

(* A context that is managed is a context in the table, of a socket; the   *)
(* table shows every one there is.                                         *)
LEMMA ContextOf ==
  ASSUME DescInv, NEW f \in Fds
  PROVE  /\ Context(f) = table[f]
         /\ Managed(f) <=> table[f] # NoCtx
         /\ table[f] # NoCtx => table[f] \in Ctx /\ f < size
PROOF
<1>1. table[f] # NoCtx => table[f] \in Ctx /\ f < size /\ table[f].socket
  BY DEF DescInv, DescTyped, DescTypeOK, DescCounted
<1> QED
  BY <1>1 DEF Context, Managed

LEMMA OpenInv ==
  ASSUME DescInv, NEW t \in Thread, NEW call \in {"socket", "accept", "open"},
         NEW nonblock \in BOOLEAN, Open(t, call, nonblock)
  PROVE  DescInv'
PROOF
<1> DEFINE First == CHOOSE g \in Fds : open[g] = 0 /\ \A h \in Fds : open[h] = 0 => g <= h
<1> USE DescAssumption
<1>1. PICK f : f = First
  OBVIOUS
<1>2. f \in Fds /\ open[f] = 0
  <2> DEFINE Free0 == {g \in Fds : open[g] = 0}
  <2>1. Free0 # {} /\ Free0 \in SUBSET Nat
    BY DEF Open, Fds
  <2>2. \E g \in Free0 : \A h \in Free0 : g <= h
    BY <2>1, LeastOf
  <2>3. \E g \in Fds : open[g] = 0 /\ \A h \in Fds : open[h] = 0 => g <= h
    BY <2>2
  <2> QED
    BY <1>1, <2>3
<1>3. /\ tpc[t] = "idle" /\ opened < MaxOpened
      /\ call = "accept" => ~nonblock
      /\ opened' = opened + 1 /\ open' = [open EXCEPT ![f] = opened + 1]
      /\ isSocket' = [isSocket EXCEPT ![f] = call # "open"]
      /\ kernel' = [kernel EXCEPT ![f] = nonblock]
      /\ user' = [user EXCEPT ![f] = nonblock]
      /\ born' = IF nonblock THEN born \cup {f} ELSE born
      /\ \/ call # "open" /\ At(t, "get", f)
         \/ UNCHANGED threadVars
      /\ UNCHANGED <<table, size, ioctled, rawClosed>>
  BY <1>1 DEF Open
<1> HIDE DEF First
<1> USE DEF DescInv, DescTyped, DescTypeOK
<1>4. opened \in Nat /\ opened' \in 1 .. MaxOpened
  BY <1>3
<1>5. DescTyped'
  <2>1. /\ open' \in [Fds -> 0 .. MaxOpened] /\ opened' \in 0 .. MaxOpened
        /\ \A g \in Fds : table'[g] # NoCtx => g < size'
        /\ table' \in [Fds -> Ctx \cup {NoCtx}] /\ size' \in Nat /\ size' >= 2
    BY <1>2, <1>3, <1>4
  <2>2. /\ isSocket' \in [Fds -> BOOLEAN] /\ kernel' \in [Fds -> BOOLEAN]
        /\ user' \in [Fds -> BOOLEAN]
    BY <1>2, <1>3
  <2>3. born' \subseteq Fds /\ ioctled' \subseteq Fds /\ rawClosed' \subseteq Fds
    BY <1>2, <1>3
  <2>4. /\ tpc' \in [Thread -> {"idle", "get", "create", "del", "close"}]
        /\ tfd' \in [Thread -> Fds] /\ hooked' \in [Thread -> BOOLEAN]
    BY <1>2, <1>3 DEF At, threadVars
  <2> QED
    BY <2>1, <2>2, <2>3, <2>4
<1>6. \A s \in Thread : tpc[s] # "idle" => tfd[s] # f /\ tfd[s] \in Fds
  BY <1>2 DEF DescBusy
<1>7. \A s \in Thread : \/ s # t /\ tpc'[s] = tpc[s] /\ tfd'[s] = tfd[s]
                        \/ s = t /\ tpc'[s] = "get" /\ tfd'[s] = f /\ call # "open"
                        \/ s = t /\ tpc'[s] = "idle"
  BY <1>3 DEF At, threadVars
<1>8. DescBusy'
  BY <1>2, <1>3, <1>4, <1>6, <1>7 DEF DescBusy
<1>9. DescCounted'
  BY <1>2, <1>3, <1>4 DEF DescCounted, Ctx
<1>10. table[f] # NoCtx => table[f].of # open'[f] /\ f \in rawClosed
  BY <1>2, <1>3, <1>4 DEF DescCounted, NoStaleContext, Ctx
<1>11. Entering'
  <2>1. /\ user'[f] = nonblock /\ (nonblock => f \in born')
        /\ call # "open" => isSocket'[f]
        /\ \A g \in Fds : g # f => /\ isSocket'[g] = isSocket[g] /\ user'[g] = user[g]
                                   /\ open'[g] = open[g] /\ (g \in born => g \in born')
    BY <1>2, <1>3
  <2>2. table' = table
    BY <1>3
  <2> SUFFICES ASSUME NEW s \in Thread, tpc'[s] \in {"get", "create"}
               PROVE  /\ isSocket'[tfd'[s]] /\ (user'[tfd'[s]] => tfd'[s] \in born')
                      /\ table'[tfd'[s]] # NoCtx => table'[tfd'[s]].of # open'[tfd'[s]]
    BY DEF Entering
  <2>3. CASE s = t
    BY <1>7, <1>10, <2>1, <2>2, <2>3
  <2>4. CASE s # t
    BY <1>6, <1>7, <2>1, <2>2, <2>4 DEF Entering
  <2> QED
    BY <2>3, <2>4
<1>12. Leaving'
  BY <1>3, <1>6, <1>7 DEF Leaving
<1>13. NoStaleContext'
  BY <1>3, <1>10 DEF NoStaleContext
<1>14. OwnModes'
  BY <1>3, <1>10 DEF OwnModes
<1> QED
  BY <1>5, <1>8, <1>9, <1>11, <1>12, <1>13, <1>14

LEMMA GetLookInv ==
  ASSUME DescInv, NEW t \in Thread, GetLook(t)
  PROVE  DescInv'
PROOF
<1>1. PICK f \in Fds : f = tfd[t]
  BY DEF DescInv, DescTyped, DescTypeOK
<1>2. /\ tpc[t] = "get" /\ (At(t, "idle", 0) \/ At(t, "create", f))
      /\ UNCHANGED <<kernelVars, table, size, ghostVars>>
  BY <1>1 DEF GetLook
<1> USE DescAssumption DEF kernelVars, ghostVars
<1>3. \A s \in Thread : \/ s # t /\ tpc'[s] = tpc[s] /\ tfd'[s] = tfd[s]
                        \/ s = t /\ tpc'[s] = "idle"
                        \/ s = t /\ tpc'[s] = "create" /\ tfd'[s] = f
  BY <1>2 DEF At, DescInv, DescTyped, DescTypeOK
<1>4. DescTyped'
  <2>1. 0 \in Fds
    BY DEF Fds
  <2> QED
    BY <1>2, <2>1 DEF At, DescInv, DescTyped, DescTypeOK
<1>5. DescBusy' /\ Entering' /\ Leaving'
  BY <1>1, <1>2, <1>3 DEF DescInv, DescBusy, Entering, Leaving
<1>6. DescCounted' /\ NoStaleContext' /\ OwnModes'
  BY <1>2 DEF DescInv, DescCounted, NoStaleContext, OwnModes
<1> QED
  BY <1>4, <1>5, <1>6 DEF DescInv

LEMMA GetCreateInv ==
  ASSUME DescInv, NEW t \in Thread, GetCreate(t)
  PROVE  DescInv'
PROOF
<1>1. PICK f \in Fds : f = tfd[t]
  BY DEF DescInv, DescTyped, DescTypeOK
<1> DEFINE new == [of |-> open[f], socket |-> isSocket[f],
                   userNonblock |-> FALSE, sysNonblock |-> isSocket[f]]
<1>2. /\ tpc[t] = "create"
      /\ table' = [table EXCEPT ![f] = new]
      /\ kernel' = [kernel EXCEPT ![f] = @ \/ isSocket[f]]
      /\ size' = Grown(f)
      /\ At(t, "idle", 0)
      /\ rawClosed' = rawClosed \ {f}
      /\ UNCHANGED <<open, opened, isSocket, user, born, ioctled>>
  BY <1>1 DEF GetCreate
<1> USE DescAssumption
<1>3. /\ isSocket[f] = TRUE /\ (user[f] => f \in born)
      /\ open[f] \in 1 .. MaxOpened /\ open[f] <= opened
  BY <1>1, <1>2 DEF DescInv, DescTyped, DescTypeOK, DescBusy, DescCounted, Entering
<1>4. new \in Ctx /\ new.of = open[f] /\ new.socket /\ new.sysNonblock /\ ~new.userNonblock
  BY <1>3 DEF Ctx
<1>5. \A s \in Thread : \/ s # t /\ tpc'[s] = tpc[s] /\ tfd'[s] = tfd[s]
                        \/ s = t /\ tpc'[s] = "idle"
  BY <1>2 DEF At, DescInv, DescTyped, DescTypeOK
<1>6. \A s \in Thread : s # t /\ tpc[s] # "idle" => tfd[s] # f /\ tfd[s] \in Fds
  BY <1>1, <1>2 DEF DescInv, DescTyped, DescTypeOK, DescBusy
<1>7. table'[f] = new /\ \A g \in Fds : g # f => table'[g] = table[g]
  BY <1>2 DEF DescInv, DescTyped
<1>8. kernel'[f] /\ \A g \in Fds : g # f => kernel'[g] = kernel[g]
  BY <1>2, <1>3 DEF DescInv, DescTyped, DescTypeOK
<1> HIDE DEF new
<1>9. DescTyped'
  <2>1. 0 \in Fds
    BY DEF Fds
  <2>2. /\ size' \in Nat /\ size' >= 2
        /\ \A g \in Fds : table'[g] # NoCtx => g < size'
    <3>1. size' \in Nat /\ size' >= size /\ f < size'
      BY <1>2, GrownHolds DEF DescInv, DescTyped
    <3>2. \A g \in Fds : g \in Int
      BY DEF Fds
    <3> QED
      BY <1>7, <3>1, <3>2 DEF DescInv, DescTyped, DescTypeOK
  <2>3. table' \in [Fds -> Ctx \cup {NoCtx}]
    BY <1>2, <1>4 DEF DescInv, DescTyped
  <2>4. /\ tpc' \in [Thread -> {"idle", "get", "create", "del", "close"}]
        /\ tfd' \in [Thread -> Fds] /\ hooked' \in [Thread -> BOOLEAN]
    BY <1>2, <2>1 DEF At, DescInv, DescTyped, DescTypeOK
  <2>5. kernel' \in [Fds -> BOOLEAN]
    BY <1>2, <1>3 DEF DescInv, DescTyped, DescTypeOK
  <2> QED
    BY <1>2, <2>2, <2>3, <2>4, <2>5 DEF DescInv, DescTyped, DescTypeOK
<1>10. DescBusy' /\ Entering' /\ Leaving'
  BY <1>2, <1>5, <1>6, <1>7 DEF DescInv, DescBusy, Entering, Leaving
<1>11. DescCounted'
  BY <1>2, <1>3, <1>4, <1>7 DEF DescInv, DescCounted
<1>12. NoStaleContext'
  BY <1>2, <1>4, <1>7 DEF DescInv, NoStaleContext
<1>13. OwnModes'
  <2>1. user[f] = FALSE \/ f \in born
    BY <1>3 DEF DescInv, DescTyped, DescTypeOK
  <2>2. new.userNonblock = FALSE
    BY DEF new
  <2> QED
    BY <1>2, <1>7, <1>8, <2>1, <2>2 DEF DescInv, OwnModes
<1> QED
  BY <1>9, <1>10, <1>11, <1>12, <1>13 DEF DescInv

(* fcntl() and ioctl(): a descriptor in the table has the new mode noted,  *)
(* and the kernel's flag stays on unless FIONBIO says otherwise.           *)
LEMMA ModeInv ==
  ASSUME DescInv, NEW t \in Thread, NEW f \in Fds, NEW b \in BOOLEAN,
         SetFlags(t, f, b) \/ Ioctl(t, f, b)
  PROVE  DescInv'
PROOF
<1>1. /\ \A s \in Thread : tfd[s] = f => tpc[s] \notin {"get", "create"}
      /\ user' = [user EXCEPT ![f] = b] /\ born' = born \ {f}
      /\ UNCHANGED <<open, opened, isSocket, size, threadVars, rawClosed>>
  BY DEF SetFlags, Ioctl
<1>2. IF table[f] # NoCtx THEN table' = [table EXCEPT ![f].userNonblock = b] ELSE table' = table
  BY ContextOf DEF SetFlags, Ioctl
<1>3. /\ kernel' \in [Fds -> BOOLEAN] /\ ioctled' \subseteq Fds
      /\ \A g \in Fds : g # f => kernel'[g] = kernel[g] /\ (g \in ioctled <=> g \in ioctled')
      /\ table[f] # NoCtx => kernel'[f] \/ f \in ioctled'
  <2> USE DEF DescInv, DescTyped, DescTypeOK
  <2>1. CASE SetFlags(t, f, b)
    <3>1. CASE table[f] # NoCtx
      <4>1. Context(f).sysNonblock = TRUE
        BY <3>1, ContextOf DEF DescCounted, Ctx
      <4>2. kernel' = [kernel EXCEPT ![f] = TRUE]
        BY <2>1, <3>1, <4>1, ContextOf DEF SetFlags, Masked
      <4> QED
        BY <2>1, <4>2 DEF SetFlags
    <3>2. CASE table[f] = NoCtx
      <4>1. kernel' = [kernel EXCEPT ![f] = b]
        BY <2>1, <3>2, ContextOf DEF SetFlags
      <4> QED
        BY <2>1, <3>2, <4>1 DEF SetFlags
    <3> QED
      BY <3>1, <3>2
  <2>2. CASE Ioctl(t, f, b)
    BY <2>2 DEF Ioctl
  <2> QED
    BY <2>1, <2>2
<1>4. /\ \A g \in Fds : g # f => table'[g] = table[g]
      /\ table[f] = NoCtx => table'[f] = NoCtx
      /\ table[f] # NoCtx => /\ table'[f] \in Ctx /\ table'[f].userNonblock = b
                             /\ table'[f].of = table[f].of
                             /\ table'[f].socket = table[f].socket
                             /\ table'[f].sysNonblock = table[f].sysNonblock
  BY <1>2, ContextOf DEF DescInv, DescTyped, Ctx
<1> USE DEF threadVars
<1>5. DescTyped'
  <2>1. table' \in [Fds -> Ctx \cup {NoCtx}]
    BY <1>2, <1>4 DEF DescInv, DescTyped
  <2>2. \A g \in Fds : table'[g] # NoCtx => g < size'
    BY <1>1, <1>4 DEF DescInv, DescTyped, DescTypeOK
  <2> QED
    BY <1>1, <1>3, <2>1, <2>2 DEF DescInv, DescTyped, DescTypeOK
<1>6. DescBusy' /\ Entering' /\ Leaving'
  <2>1. \A s \in Thread : tfd[s] \in Fds
    BY DEF DescInv, DescTyped, DescTypeOK
  <2> QED
    BY <1>1, <1>4, <2>1 DEF DescInv, DescBusy, Entering, Leaving, DescTyped, DescTypeOK
<1>7. DescCounted' /\ NoStaleContext'
  BY <1>1, <1>4 DEF DescInv, DescCounted, NoStaleContext
<1>8. OwnModes'
  <2>1. user'[f] = b /\ \A g \in Fds : g # f => user'[g] = user[g]
    BY <1>1 DEF DescInv, DescTyped, DescTypeOK
  <2>2. SUFFICES ASSUME NEW g \in Fds, table'[g] # NoCtx, table'[g].of = open'[g]
                 PROVE  /\ table'[g].userNonblock = user'[g] \/ g \in born'
                        /\ kernel'[g] \/ g \in ioctled'
    BY DEF OwnModes
  <2>3. CASE g = f
    BY <1>1, <1>3, <1>4, <2>1, <2>2, <2>3
  <2>4. CASE g # f
    BY <1>1, <1>3, <1>4, <2>1, <2>2, <2>4 DEF DescInv, OwnModes
  <2> QED
    BY <2>3, <2>4
<1> QED
  BY <1>5, <1>6, <1>7, <1>8 DEF DescInv

LEMMA CloseLookInv ==
  ASSUME DescInv, NEW t \in Thread, NEW f \in Fds, CloseLook(t, f)
  PROVE  DescInv'
PROOF
<1>1. PICK l \in {"del", "close"} :
        /\ At(t, l, f)
        /\ l = "close" => table[f] = NoCtx \/ f \in rawClosed'
  BY ContextOf DEF CloseLook
<1>2. /\ tpc[t] = "idle" /\ open[f] # 0 /\ Quiet(f)
      /\ rawClosed \subseteq rawClosed' /\ rawClosed' \subseteq rawClosed \cup {f}
      /\ UNCHANGED <<kernelVars, table, size, user, born, ioctled>>
  BY DEF CloseLook
<1> USE DEF kernelVars
<1>3. \A s \in Thread : \/ s # t /\ tpc'[s] = tpc[s] /\ tfd'[s] = tfd[s]
                        \/ s = t /\ tpc'[s] = l /\ tfd'[s] = f
  BY <1>1 DEF At, DescInv, DescTyped, DescTypeOK
<1>4. DescTyped'
  BY <1>1, <1>2 DEF At, DescInv, DescTyped, DescTypeOK
<1>5. DescBusy'
  BY <1>2, <1>3 DEF DescInv, DescBusy, Quiet
<1>6. Entering' /\ Leaving'
  BY <1>1, <1>2, <1>3 DEF DescInv, Entering, Leaving
<1>7. DescCounted' /\ NoStaleContext' /\ OwnModes'
  BY <1>2 DEF DescInv, DescCounted, NoStaleContext, OwnModes
<1> QED
  BY <1>4, <1>5, <1>6, <1>7 DEF DescInv

LEMMA CloseDeleteInv ==
  ASSUME DescInv, NEW t \in Thread, CloseDelete(t)
  PROVE  DescInv'
PROOF
<1>1. PICK f \in Fds : f = tfd[t]
  BY DEF DescInv, DescTyped, DescTypeOK
<1>2. /\ tpc[t] = "del" /\ At(t, "close", f)
      /\ UNCHANGED <<kernelVars, size, ghostVars>>
  BY <1>1 DEF CloseDelete
<1> USE DEF kernelVars, ghostVars
<1>3. table' = [table EXCEPT ![f] = NoCtx]
  <2>1. CASE OutOfTable(f)
    <3>1. f \in Int /\ size \in Int
      BY DescAssumption DEF Fds, DescInv, DescTyped
    <3>2. table[f] = NoCtx
      BY <2>1, <3>1 DEF OutOfTable, DescInv, DescTyped, DescTypeOK
    <3> QED
      BY <1>1, <2>1, <3>2 DEF CloseDelete, DescInv, DescTyped
  <2> QED
    BY <1>1, <2>1 DEF CloseDelete
<1>4. \A s \in Thread : \/ s # t /\ tpc'[s] = tpc[s] /\ tfd'[s] = tfd[s]
                        \/ s = t /\ tpc'[s] = "close" /\ tfd'[s] = f
  BY <1>2 DEF At, DescInv, DescTyped, DescTypeOK
<1>5. table'[f] = NoCtx /\ \A g \in Fds : g # f => table'[g] = table[g]
  BY <1>3 DEF DescInv, DescTyped
<1>6. DescTyped'
  <2>1. /\ tpc' \in [Thread -> {"idle", "get", "create", "del", "close"}]
        /\ tfd' \in [Thread -> Fds] /\ hooked' \in [Thread -> BOOLEAN]
    BY <1>2 DEF At, DescInv, DescTyped, DescTypeOK
  <2> QED
    BY <1>2, <1>3, <1>5, <2>1 DEF DescInv, DescTyped, DescTypeOK
<1>7. DescBusy' /\ Entering' /\ Leaving'
  <2>1. \A s \in Thread : tfd[s] \in Fds
    BY DEF DescInv, DescTyped, DescTypeOK
  <2> QED
    BY <1>1, <1>2, <1>4, <1>5, <2>1 DEF DescInv, DescBusy, Entering, Leaving
<1>8. DescCounted' /\ NoStaleContext' /\ OwnModes'
  BY <1>2, <1>5 DEF DescInv, DescCounted, NoStaleContext, OwnModes
<1> QED
  BY <1>6, <1>7, <1>8 DEF DescInv

LEMMA CloseKernelInv ==
  ASSUME DescInv, NEW t \in Thread, CloseKernel(t)
  PROVE  DescInv'
PROOF
<1>1. PICK f \in Fds : f = tfd[t]
  BY DEF DescInv, DescTyped, DescTypeOK
<1>2. /\ tpc[t] = "close" /\ At(t, "idle", 0)
      /\ open' = [open EXCEPT ![f] = 0]
      /\ isSocket' = [isSocket EXCEPT ![f] = FALSE]
      /\ kernel' = [kernel EXCEPT ![f] = FALSE]
      /\ user' = [user EXCEPT ![f] = FALSE]
      /\ born' = born \ {f} /\ ioctled' = ioctled \ {f}
      /\ UNCHANGED <<opened, table, size, rawClosed>>
  BY <1>1 DEF CloseKernel
<1> USE DescAssumption
<1>3. \A s \in Thread : \/ s # t /\ tpc'[s] = tpc[s] /\ tfd'[s] = tfd[s]
                        \/ s = t /\ tpc'[s] = "idle"
  BY <1>2 DEF At, DescInv, DescTyped, DescTypeOK
<1>4. \A s \in Thread : s # t /\ tpc[s] # "idle" => tfd[s] # f /\ tfd[s] \in Fds
  BY <1>1, <1>2 DEF DescInv, DescTyped, DescTypeOK, DescBusy
<1>5. /\ open'[f] = 0
      /\ \A g \in Fds : g # f => /\ open'[g] = open[g] /\ isSocket'[g] = isSocket[g]
                                 /\ kernel'[g] = kernel[g] /\ user'[g] = user[g]
  BY <1>2 DEF DescInv, DescTyped, DescTypeOK
<1>6. DescTyped'
  <2>1. 0 \in Fds
    BY DEF Fds
  <2>2. /\ tpc' \in [Thread -> {"idle", "get", "create", "del", "close"}]
        /\ tfd' \in [Thread -> Fds] /\ hooked' \in [Thread -> BOOLEAN]
    BY <1>2, <2>1 DEF At, DescInv, DescTyped, DescTypeOK
  <2>3. open' \in [Fds -> 0 .. MaxOpened]
    BY <1>2 DEF DescInv, DescTyped, DescTypeOK
  <2> QED
    BY <1>2, <2>2, <2>3 DEF DescInv, DescTyped, DescTypeOK
<1>7. DescBusy' /\ Entering' /\ Leaving'
  BY <1>2, <1>3, <1>4, <1>5 DEF DescInv, DescBusy, Entering, Leaving
<1>8. DescCounted'
  BY <1>2, <1>5 DEF DescInv, DescCounted, DescTyped, DescTypeOK
<1>9. table[f] # NoCtx => f \in rawClosed /\ table[f].of # 0
  BY <1>1, <1>2 DEF DescInv, Leaving, DescTyped, Ctx
<1>10. NoStaleContext' /\ OwnModes'
  BY <1>2, <1>5, <1>9 DEF DescInv, NoStaleContext, OwnModes
<1> QED
  BY <1>6, <1>7, <1>8, <1>10 DEF DescInv

LEMMA DescStep == DescInv /\ DescNext => DescInv'
PROOF
<1> SUFFICES ASSUME DescInv, DescNext PROVE DescInv'
  OBVIOUS
<1>1. PICK t \in Thread :
        \/ GetLook(t) \/ GetCreate(t) \/ CloseDelete(t) \/ CloseKernel(t)
        \/ \E b \in BOOLEAN :
             \/ \E call \in {"socket", "accept", "open"} : Open(t, call, b)
             \/ \E f \in Fds : SetFlags(t, f, b) \/ Ioctl(t, f, b)
        \/ \E f \in Fds : CloseLook(t, f)
  BY DEF DescNext
<1> QED
  BY <1>1, GetLookInv, GetCreateInv, CloseDeleteInv, CloseKernelInv, OpenInv, ModeInv,
     CloseLookInv

(* Between calls a context that is in the table has the modes.             *)
LEMMA ModesFollow == DescInv => ModesAgree
PROOF
<1> SUFFICES ASSUME DescInv, NEW f \in Fds, open[f] # 0, Context(f) # NoCtx,
                    Context(f).of = open[f]
             PROVE  /\ Shown(f) = user[f] \/ f \in born
                    /\ kernel[f] \/ f \in ioctled
  BY DEF ModesAgree
<1>1. table[f] # NoCtx /\ table[f].of = open[f] /\ Managed(f) /\ Context(f) = table[f]
  BY ContextOf
<1> QED
  BY <1>1 DEF DescInv, OwnModes, Shown

-----------------------------------------------------------------------------
Owners == {"free", "self", "other"}

(* The lowest free descriptor is a free descriptor.                        *)
LEMMA LowestFree ==
  ASSUME NEW own, NEW e \in Descriptor, own[e] = "free"
  PROVE  Lowest(own) \in Descriptor /\ own[Lowest(own)] = "free"
PROOF
<1> DEFINE S == {d \in Descriptor : own[d] = "free"}
<1>1. S \in SUBSET Nat /\ S # {}
  BY SockAssumption
<1>2. \E d \in S : \A g \in S : d <= g
  BY <1>1, LeastOf
<1>3. \E d \in Descriptor : own[d] = "free" /\ \A g \in Descriptor : own[g] = "free" => d <= g
  BY <1>2
<1> QED
  BY <1>3 DEF Lowest

LEMMA SockInitInv == SockInit => SockInv
PROOF
<1> SUFFICES ASSUME SockInit PROVE SockInv
  OBVIOUS
<1> DEFINE First == CHOOSE e \in Descriptor : \A g \in Descriptor : e <= g
<1>1. PICK d : d = First
  OBVIOUS
<1>2. d \in Descriptor /\ d # NoSock
  <2>1. \E e \in Descriptor : \A g \in Descriptor : e <= g
    BY SockAssumption, LeastOf
  <2> QED
    BY <1>1, <2>1, SockAssumption DEF NoSock
<1> DEFINE got == [e \in Descriptor |-> IF e = d THEN "self" ELSE "free"]
           none == [e \in Descriptor |-> "free"]
<1>3. /\ crashed = FALSE /\ reopened = FALSE /\ m_isConnected \in BOOLEAN
      /\ m_remoteAddress \in BOOLEAN
      /\ socks \in {0, 1} /\ m_localAddress \in {NoSock, socks}
      /\ m_ssl \in {NoSock, d}
      /\ \/ m_sock = NoSock /\ owner = none
         \/ m_sock = d /\ owner = got
  BY <1>1 DEF SockInit, NoSock
<1> HIDE DEF First
<1>4. SockTypeOK
  <2>1. owner \in [Descriptor -> Owners]
    BY <1>3 DEF Owners
  <2>2. reopened \in BOOLEAN /\ (crashed => family = "UNIX")
    BY <1>3
  <2>3. /\ m_sock \in Descriptor \cup {NoSock} /\ m_ssl \in Descriptor \cup {NoSock}
        /\ m_isConnected \in BOOLEAN /\ m_remoteAddress \in BOOLEAN
    BY <1>2, <1>3
  <2>4. m_localAddress \in 0 .. MaxSocks /\ socks \in 0 .. MaxSocks
    BY <1>3, SockAssumption DEF NoSock
  <2> QED
    BY <2>1, <2>2, <2>3, <2>4 DEF SockTypeOK, Owners
<1>5. SockOwned
  BY <1>2, <1>3 DEF SockOwned
<1> QED
  BY <1>3, <1>4, <1>5 DEF SockInv, SockFirst, LocalIsOwn, NoSock

LEMMA SockStutter == SockInv /\ UNCHANGED sockVars => SockInv'
BY DEF SockInv, SockTypeOK, SockOwned, SockFirst, LocalIsOwn, sockVars, stateVars

LEMMA OthersInv == SockInv /\ Others => SockInv'
PROOF
<1> SUFFICES ASSUME SockInv, Others PROVE SockInv'
  OBVIOUS
<1> USE DEF SockInv
<1>1. UNCHANGED <<fixedVars, stateVars, socks, reopened, crashed>>
  BY DEF Others
<1>2. PICK d \in Descriptor, x \in {"free", "other"} :
        owner[d] # "self" /\ owner' = [owner EXCEPT ![d] = x]
  BY DEF Others
<1>3. SockTypeOK' /\ SockFirst' /\ LocalIsOwn'
  BY <1>1, <1>2 DEF SockTypeOK, SockFirst, LocalIsOwn, fixedVars, stateVars
<1>4. SockOwned'
  BY <1>1, <1>2 DEF SockTypeOK, SockOwned, stateVars, NoSock
<1> QED
  BY <1>3, <1>4

(* A call that needs a descriptor keeps the one there is, or gets a free   *)
(* one, as the next of the object's sockets.                               *)
LEMMA HasSockHolds ==
  ASSUME SockInv, NEW d \in Descriptor, NEW own \in [Descriptor -> Owners], HasSock(d, own)
  PROVE  /\ d # NoSock /\ own[d] = "self"
         /\ \/ m_sock # NoSock /\ socks' = socks
            \/ m_sock = NoSock /\ socks' = socks + 1
         /\ socks' \in 1 .. MaxSocks \/ socks' = socks
         /\ socks' \in 0 .. MaxSocks
PROOF
<1> USE SockAssumption
<1>1. d # NoSock
  BY DEF NoSock
<1>2. CASE m_sock # NoSock
  BY <1>1, <1>2 DEF HasSock, SockInv, SockOwned, SockTypeOK
<1>3. CASE m_sock = NoSock
  <2>1. /\ d = Lowest(owner) /\ own = [owner EXCEPT ![d] = "self"]
        /\ socks < MaxSocks /\ socks' = socks + 1
    BY <1>3 DEF HasSock
  <2>2. own[d] = "self"
    BY <2>1 DEF SockInv, SockTypeOK
  <2> QED
    BY <1>1, <1>3, <2>1, <2>2 DEF SockInv, SockTypeOK
<1> QED
  BY <1>2, <1>3

(* The local address, when it is fetched and was either unknown or cached. *)
LEMMA FetchHolds ==
  ASSUME SockInv, NEW cached \in {NoSock, m_localAddress}, FetchLocal(cached)
  PROVE  /\ m_localAddress' \in {NoSock, socks', cached}
         /\ cached # NoSock => m_localAddress' = cached
         /\ crashed' => family = "UNIX"
BY DEF FetchLocal, Local, SockInv, SockTypeOK

LEMMA BindInv == SockInv /\ Bind => SockInv'
PROOF
<1> SUFFICES ASSUME SockInv, Bind PROVE SockInv'
  OBVIOUS
<1> USE SockAssumption
<1>1. PICK d \in Descriptor, own \in [Descriptor -> Owners] :
        /\ HasSock(d, own)
        /\ reopened' = (reopened \/ (m_sock = NoSock /\ socks > 0))
        /\ m_sock' = d /\ owner' = own
        /\ FetchLocal(m_localAddress) \/ UNCHANGED <<m_localAddress, crashed>>
        /\ UNCHANGED <<fixedVars, m_isConnected, m_remoteAddress, m_ssl>>
  BY DEF Bind, Owners
<1>2. /\ d # NoSock /\ own[d] = "self"
      /\ \/ m_sock # NoSock /\ socks' = socks
         \/ m_sock = NoSock /\ socks' = socks + 1
      /\ socks' \in 0 .. MaxSocks
  BY <1>1, HasSockHolds
<1>3. /\ m_localAddress' \in {NoSock, socks', m_localAddress}
      /\ m_localAddress # NoSock => m_localAddress' = m_localAddress
      /\ crashed' => family = "UNIX"
  BY <1>1, FetchHolds DEF SockInv, SockTypeOK
<1>4. SockTypeOK'
  <2>1. reopened' \in BOOLEAN
    BY <1>1 DEF SockInv, SockTypeOK
  <2>2. m_localAddress' \in 0 .. MaxSocks
    BY <1>2, <1>3 DEF SockInv, SockTypeOK, NoSock
  <2> QED
    BY <1>1, <1>2, <1>3, <2>1, <2>2 DEF SockInv, SockTypeOK, Owners, fixedVars
<1>5. SockOwned'
  BY <1>1, <1>2 DEF SockOwned
<1>6. SockFirst'
  BY <1>1, <1>2, <1>3 DEF SockInv, SockTypeOK, SockFirst, NoSock
<1>7. LocalIsOwn'
  <2>1. CASE m_sock = NoSock /\ socks > 0
    BY <1>1, <2>1 DEF LocalIsOwn
  <2>2. CASE m_sock = NoSock /\ ~(socks > 0)
    BY <1>3, <2>2 DEF SockInv, SockTypeOK, SockFirst, LocalIsOwn, NoSock
  <2>3. CASE m_sock # NoSock
    BY <1>1, <1>2, <1>3, <2>3 DEF SockInv, LocalIsOwn
  <2> QED
    BY <2>1, <2>2, <2>3
<1> QED
  BY <1>4, <1>5, <1>6, <1>7 DEF SockInv

(* connect() and reconnect() differ in what they start from, and in what   *)
(* the model notes of it.                                                  *)
LEMMA ConnectInv == SockInv /\ (Connect \/ Reconnect) => SockInv'
PROOF
<1> SUFFICES ASSUME SockInv, Connect \/ Reconnect PROVE SockInv'
  OBVIOUS
<1> USE SockAssumption
<1>1. PICK cached \in {NoSock, m_localAddress} :
        /\ Connecting(cached)
        /\ reopened' \in BOOLEAN
        /\ reopened => reopened'
        /\ cached # NoSock /\ m_sock = NoSock /\ socks > 0 => reopened'
  <2>1. CASE Connect
    BY <2>1 DEF Connect, SockInv, SockTypeOK
  <2>2. CASE Reconnect
    BY <2>2 DEF Reconnect, SockInv, SockTypeOK
  <2> QED
    BY <2>1, <2>2
<1>2. PICK d \in Descriptor, own \in [Descriptor -> Owners] :
        /\ HasSock(d, own)
        /\ m_remoteAddress' = TRUE
        /\ \/ /\ m_sock' = d /\ owner' = own /\ m_isConnected' = TRUE
              /\ FetchLocal(cached)
              /\ m_ssl' = IF ssl THEN d ELSE m_ssl
           \/ /\ m_sock' = NoSock /\ owner' = [own EXCEPT ![d] = "free"]
              /\ m_isConnected' = FALSE /\ m_localAddress' = cached
              /\ UNCHANGED <<m_ssl, crashed>>
           \/ /\ m_sock' = d /\ owner' = own
              /\ m_localAddress' = cached
              /\ UNCHANGED <<m_isConnected, m_ssl, crashed>>
        /\ UNCHANGED fixedVars
  BY <1>1 DEF Connecting, Owners
<1>3. /\ d # NoSock /\ own[d] = "self"
      /\ \/ m_sock # NoSock /\ socks' = socks
         \/ m_sock = NoSock /\ socks' = socks + 1
      /\ socks' \in 0 .. MaxSocks
  BY <1>2, HasSockHolds
<1>4. /\ m_localAddress' \in {NoSock, socks', cached}
      /\ cached # NoSock => m_localAddress' = cached
      /\ crashed' => family = "UNIX"
  BY <1>2, FetchHolds DEF SockInv, SockTypeOK
<1>5. SockTypeOK'
  <2>1. owner' \in [Descriptor -> Owners]
    BY <1>2 DEF Owners
  <2>2. /\ m_sock' \in Descriptor \cup {NoSock} /\ m_ssl' \in Descriptor \cup {NoSock}
        /\ m_isConnected' \in BOOLEAN
    BY <1>2 DEF SockInv, SockTypeOK
  <2>3. m_localAddress' \in 0 .. MaxSocks
    BY <1>3, <1>4 DEF SockInv, SockTypeOK, NoSock
  <2> QED
    BY <1>1, <1>2, <1>3, <1>4, <2>1, <2>2, <2>3 DEF SockTypeOK, Owners, fixedVars
<1>6. SockOwned'
  BY <1>2, <1>3 DEF SockOwned
<1>7. SockFirst' /\ LocalIsOwn'
  BY <1>1, <1>2, <1>3, <1>4 DEF SockInv, SockTypeOK, SockFirst, LocalIsOwn, NoSock
<1> QED
  BY <1>5, <1>6, <1>7 DEF SockInv

LEMMA CloseInv == SockInv /\ Close => SockInv'
PROOF
<1> SUFFICES ASSUME SockInv, Close PROVE SockInv'
  OBVIOUS
<1>1. owner' \in [Descriptor -> {"free", "self", "other"}]
  BY DEF Close, Dropped, SockInv, SockTypeOK
<1> QED
  BY <1>1 DEF Close, Closed, SockInv, SockTypeOK, SockOwned, SockFirst, LocalIsOwn, fixedVars

LEMMA SockStep == SockInv /\ SockNext => SockInv'
BY OthersInv, BindInv, ConnectInv, CloseInv DEF SockNext

LEMMA SockFollows == SockInv => SocketOwn
BY DEF SockInv, SockOwned, SocketOwn, SendsToOwn, Used

-----------------------------------------------------------------------------
(* What tasks are made of, and that places are told apart.                 *)
LEMMA TaskKinds ==
  ASSUME NEW t \in SrvTask \cup {Idle}
  PROVE  /\ t[1] = "close" => t = <<"close", Free, t[3]>> /\ t[3] \in 1 .. MaxStops
         /\ t[1] = "accept" => t[2] \in Listener
         /\ t[1] = "client" => t[2] \in Client
         /\ Idle[1] = "idle"
BY DEF SrvTask, AcceptTask, CloseTask, ClientTask, Idle

LEMMA PlaceKinds ==
  /\ <<"run">> \in Place /\ <<"begin">> \in Place /\ <<"accept">> \in Place
  /\ \A l : <<"closed", l>> \notin {<<"run">>, <<"begin">>, <<"accept">>}
  /\ \A l : <<"closed", l>>[2] = l
PROOF
<1>1. /\ <<"run">>[1] = "run" /\ <<"begin">>[1] = "begin" /\ <<"accept">>[1] = "accept"
      /\ \A l : <<"closed", l>>[1] = "closed"
  OBVIOUS
<1> QED
  BY <1>1 DEF Place

LEMMA SrvInitInv == SrvInit => SrvInv
PROOF
<1> SUFFICES ASSUME SrvInit PROVE SrvInv
  OBVIOUS
<1> USE SrvAssumption DEF SrvInit
<1>1. SrvTyped
  <2>1. /\ m_isStop \in BOOLEAN /\ m_socks \subseteq Listener /\ fails \subseteq Listener
        /\ fd \in [Listener -> SrvFds \cup {0}]
        /\ owns \in [SrvFds -> Listener \cup {Free, Other}]
    OBVIOUS
  <2>2. starts \in 0 .. 2 /\ stops \in 0 .. MaxStops
    OBVIOUS
  <2>5. released \in BOOLEAN /\ strayClose \in BOOLEAN /\ srvFault \in BOOLEAN
    OBVIOUS
  <2>3. client \in [Client -> {"away", "pending", "accepted", "handled"}
                               \X (Listener \cup {Free})]
    OBVIOUS
  <2>4. /\ tasks \subseteq SrvTask /\ job \in [SrvWorker -> SrvTask \cup {Idle}]
        /\ at \in [SrvWorker -> Place] /\ left \in [SrvWorker -> SUBSET Listener]
    BY PlaceKinds
  <2> QED
    BY <2>1, <2>2, <2>3, <2>4, <2>5 DEF SrvTyped, SrvTypeOK
<1>2. \A w \in SrvWorker : job[w] = Idle /\ ~Closing(w) /\ at[w] = <<"run">>
  BY DEF Closing, Idle
<1>3. CloseOnce
  BY <1>2 DEF CloseOnce
<1>4. InTurn
  BY <1>2, PlaceKinds DEF InTurn
<1>5. LoopSafe /\ SrvOwned /\ StrayNeedsTwoStops
  BY <1>2 DEF LoopSafe, SrvOwned, StrayNeedsTwoStops
<1> QED
  BY <1>1, <1>3, <1>4, <1>5 DEF SrvInv

LEMMA SrvStutter == SrvInv /\ UNCHANGED srvVars => SrvInv'
PROOF
<1> SUFFICES ASSUME SrvInv, UNCHANGED srvVars PROVE SrvInv'
  OBVIOUS
<1> USE DEF srvVars, listenVars, workVars, countVars, SrvInv
<1>1. SrvTyped'
  BY DEF SrvTyped, SrvTypeOK
<1>2. CloseOnce' /\ InTurn' /\ LoopSafe' /\ SrvOwned'
  BY DEF CloseOnce, InTurn, LoopSafe, SrvOwned, Closing
<1>3. StrayNeedsTwoStops'
  BY DEF StrayNeedsTwoStops
<1> QED
  BY <1>1, <1>2, <1>3

(* With one stop() at most, there is one closing task at most.             *)
LEMMA OneCloser ==
  ASSUME SrvInv, stops <= 1, NEW v \in SrvWorker, NEW w \in SrvWorker, Closing(v), Closing(w)
  PROVE  v = w
PROOF
<1>1. job[v][3] = 1 /\ job[w][3] = 1
  <2>1. job[v] \in SrvTask \cup {Idle} /\ job[w] \in SrvTask \cup {Idle} /\ stops \in Int
    BY DEF SrvInv, SrvTyped, SrvTypeOK
  <2>2. job[v][3] \in 1 .. MaxStops /\ job[w][3] \in 1 .. MaxStops
    BY <2>1, TaskKinds DEF Closing
  <2>3. job[v][3] <= stops /\ job[w][3] <= stops
    BY DEF SrvInv, CloseOnce
  <2> QED
    BY <2>1, <2>2, <2>3
<1>2. job[v] = <<"close", Free, 1>> /\ job[w] = <<"close", Free, 1>>
  BY <1>1, TaskKinds DEF SrvInv, SrvTyped, Closing
<1> QED
  BY <1>2 DEF SrvInv, CloseOnce

(* A socket that is being closed is one of the closing task's loop.        *)
LEMMA ClosedInLoop ==
  ASSUME SrvInv, stops <= 1, NEW w \in SrvWorker, NEW l \in Listener, at[w] = <<"closed", l>>
  PROVE  Closing(w) /\ l \in left[w] /\ l \in m_socks
BY PlaceKinds DEF SrvInv, InTurn, LoopSafe

(* Steps that make no closing task and begin none.                         *)
LEMMA CloseOnceKept ==
  ASSUME SrvInv, \A t \in tasks' : t \in tasks \/ t[1] # "close",
         \A w \in SrvWorker : job'[w] = job[w] \/ job'[w] = Idle,
         stops' = stops, starts' = 0 => starts = 0
  PROVE  CloseOnce'
PROOF
<1>1. Idle[1] # "close" /\ \A t \in tasks : t[1] = "close" => t # Idle
  BY DEF Idle
<1> QED
  BY <1>1 DEF SrvInv, CloseOnce, Closing

(* Pointers are dropped: with one stop() nothing is closed that is not the *)
(* Socket's own, if that holds of every Socket that goes.                  *)
LEMMA DestroyingHolds ==
  ASSUME SrvInv, Destroying
  PROVE  /\ fd' \in [Listener -> SrvFds \cup {0}]
         /\ owns' \in [SrvFds -> Listener \cup {Free, Other}]
         /\ strayClose' \in BOOLEAN
         /\ (\A l \in Listener : fd[l] # 0 /\ ~Held(l)' => owns[fd[l]] = l) =>
              /\ strayClose' = strayClose
              /\ \A l \in Listener : fd'[l] # 0 =>
                   fd'[l] = fd[l] /\ (owns[fd[l]] = l => owns'[fd'[l]] = l)
PROOF
<1> USE DEF SrvInv, SrvTyped, SrvTypeOK
<1>1. PICK gone \in SUBSET Listener :
        /\ gone = {l \in Listener : fd[l] # 0 /\ ~Held(l)'}
        /\ fd' = [l \in Listener |-> IF l \in gone THEN 0 ELSE fd[l]]
        /\ owns' = [d \in SrvFds |-> IF \E l \in gone : fd[l] = d THEN Free ELSE owns[d]]
        /\ strayClose' = (strayClose \/ \E l \in gone : owns[fd[l]] # l)
  BY DEF Destroying
<1>2. fd' \in [Listener -> SrvFds \cup {0}] /\ owns' \in [SrvFds -> Listener \cup {Free, Other}]
  BY <1>1
<1>3. strayClose' \in BOOLEAN
  BY <1>1
<1>4. ASSUME \A l \in gone : owns[fd[l]] = l
      PROVE  /\ strayClose' = strayClose
             /\ \A l \in Listener : fd'[l] # 0 =>
                  fd'[l] = fd[l] /\ (owns[fd[l]] = l => owns'[fd'[l]] = l)
  <2>1. strayClose' = strayClose
    BY <1>1, <1>4
  <2>2. ASSUME NEW l \in Listener, fd'[l] # 0
        PROVE  fd'[l] = fd[l] /\ (owns[fd[l]] = l => owns'[fd'[l]] = l)
    <3>1. l \notin gone /\ fd'[l] = fd[l] /\ fd[l] \in SrvFds
      BY <1>1, <2>2
    <3>2. owns[fd[l]] = l => ~\E k \in gone : fd[k] = fd[l]
      BY <1>4, <3>1
    <3> QED
      BY <1>1, <3>1, <3>2
  <2> QED
    BY <2>1, <2>2
<1> QED
  BY <1>1, <1>2, <1>3, <1>4

-----------------------------------------------------------------------------
(* The owner of the server.                                                *)

LEMMA BindAllInv ==
  ASSUME SrvInv, NEW addrs \in SUBSET Listener, NEW now \in SUBSET addrs,
         NEW before \in {fails, {}}, BindAll(addrs, now, before)
  PROVE  SrvInv'
PROOF
<1> USE SrvAssumption
<1>1. /\ stops = 0 /\ ~released /\ fails' = before \cup now
      /\ UNCHANGED <<m_isStop, workVars, client, countVars, srvFault>>
  BY DEF BindAll
<1> USE DEF workVars, countVars
<1>2. \A w \in SrvWorker : ~Closing(w) /\ \A l \in Listener : at[w] # <<"closed", l>>
  <2>1. \A w \in SrvWorker : ~Closing(w)
    BY <1>1, TaskKinds DEF SrvInv, SrvTyped, CloseOnce, Closing
  <2> QED
    BY <2>1, PlaceKinds DEF SrvInv, InTurn
<1>3. \A l \in Listener : fd[l] # 0 => owns[fd[l]] = l
  BY <1>1, <1>2 DEF SrvInv, SrvOwned
<1>4. /\ fd' \in [Listener -> SrvFds \cup {0}] /\ owns' \in [SrvFds -> Listener \cup {Free, Other}]
      /\ m_socks' \subseteq Listener /\ strayClose' = strayClose
      /\ \A l \in Listener : fd'[l] # 0 => owns'[fd'[l]] = l
  <2>1. CASE m_socks' = {} /\ Destroying
    BY <1>3, <2>1, DestroyingHolds
  <2>2. CASE ~(m_socks' = {} /\ Destroying)
    <3>1. PICK f \in [addrs -> {d \in SrvFds : owns[d] = Free}] :
            /\ \A k, l \in addrs : f[k] = f[l] => k = l
            /\ m_socks' = m_socks \cup addrs
            /\ fd' = [l \in Listener |-> IF l \in addrs THEN f[l] ELSE fd[l]]
            /\ owns' = [d \in SrvFds |->
                 IF \E l \in addrs : f[l] = d THEN CHOOSE l \in addrs : f[l] = d
                 ELSE owns[d]]
            /\ UNCHANGED strayClose
      BY <2>2 DEF BindAll
    <3>2. \A d \in SrvFds : \A l \in addrs : f[l] = d => owns'[d] = l
      BY <3>1
    <3>3. owns' \in [SrvFds -> Listener \cup {Free, Other}]
      BY <3>1 DEF SrvInv, SrvTyped, SrvTypeOK
    <3>4. ASSUME NEW l \in Listener, fd'[l] # 0 PROVE owns'[fd'[l]] = l
      <4>1. CASE l \in addrs
        BY <3>1, <3>2, <4>1
      <4>2. CASE l \notin addrs
        <5>1. fd'[l] = fd[l] /\ fd[l] \in SrvFds /\ owns[fd[l]] = l
          BY <1>3, <3>1, <3>4, <4>2 DEF SrvInv, SrvTyped, SrvTypeOK
        <5>2. ~\E k \in addrs : f[k] = fd[l]
          BY <3>1, <5>1
        <5> QED
          BY <3>1, <5>1, <5>2
      <4> QED
        BY <4>1, <4>2
    <3>5. fd' \in [Listener -> SrvFds \cup {0}]
      BY <3>1 DEF SrvInv, SrvTyped, SrvTypeOK
    <3> QED
      BY <3>1, <3>3, <3>4, <3>5 DEF SrvInv, SrvTyped, SrvTypeOK
  <2> QED
    BY <2>1, <2>2
<1>5. SrvTyped'
  BY <1>1, <1>4 DEF SrvInv, SrvTyped, SrvTypeOK
<1>6. CloseOnce'
  BY <1>1, CloseOnceKept
<1>7. InTurn' /\ LoopSafe'
  BY <1>1, <1>2 DEF SrvInv, InTurn, LoopSafe, Closing
<1>8. SrvOwned' /\ StrayNeedsTwoStops'
  BY <1>1, <1>4 DEF SrvInv, SrvOwned, StrayNeedsTwoStops
<1> QED
  BY <1>5, <1>6, <1>7, <1>8 DEF SrvInv

LEMMA StartInv == SrvInv /\ Start => SrvInv'
PROOF
<1> SUFFICES ASSUME SrvInv, Start PROVE SrvInv'
  OBVIOUS
<1>1. /\ m_isStop' = FALSE /\ starts \in {0, 1} /\ starts' = starts + 1
      /\ tasks' = tasks \cup {<<"accept", l, starts'>> : l \in m_socks}
      /\ UNCHANGED <<listenVars, fails, job, at, left, client, stops, released,
                     strayClose, srvFault>>
  BY DEF Start
<1> USE DEF listenVars
<1>2. \A l \in m_socks : <<"accept", l, starts'>> \in SrvTask /\ <<"accept", l, starts'>>[1] = "accept"
  BY <1>1 DEF SrvTask, AcceptTask, SrvInv, SrvTyped, SrvTypeOK
<1>3. SrvTyped'
  <2>1. tasks' \subseteq SrvTask
    BY <1>1, <1>2 DEF SrvInv, SrvTyped
  <2>2. starts' \in 0 .. 2
    BY <1>1
  <2>3. UNCHANGED <<listenVars, fails, job, at, left, client, stops, released,
                    strayClose, srvFault>>
    BY <1>1
  <2> QED
    BY <1>1, <2>1, <2>2, <2>3 DEF SrvInv, SrvTyped, SrvTypeOK
<1>4. CloseOnce'
  BY <1>1, <1>2, CloseOnceKept DEF SrvInv, SrvTyped, SrvTypeOK
<1>5. InTurn' /\ LoopSafe' /\ SrvOwned'
  BY <1>1 DEF SrvInv, InTurn, LoopSafe, SrvOwned, Closing
<1>6. StrayNeedsTwoStops'
  BY <1>1 DEF SrvInv, StrayNeedsTwoStops, SrvTyped, SrvTypeOK
<1> QED
  BY <1>3, <1>4, <1>5, <1>6 DEF SrvInv

LEMMA StopInv == SrvInv /\ Stop => SrvInv'
PROOF
<1> SUFFICES ASSUME SrvInv, Stop PROVE SrvInv'
  OBVIOUS
<1> USE SrvAssumption
<1>1. PICK n \in 1 .. MaxStops : n = stops + 1
  BY DEF Stop, SrvInv, SrvTyped, SrvTypeOK
<1>2. PICK new : new = <<"close", Free, n>>
  OBVIOUS
<1>3. /\ starts > 0 /\ m_isStop' = TRUE /\ stops' = n /\ n = stops + 1
      /\ tasks' = tasks \cup {new}
      /\ UNCHANGED <<listenVars, fails, job, at, left, client, starts, released,
                     strayClose, srvFault>>
  BY <1>1, <1>2 DEF Stop
<1> USE DEF listenVars
<1>4. new \in SrvTask /\ new[1] = "close" /\ new[3] = n
  BY <1>2 DEF SrvTask, CloseTask
<1>5. SrvTyped'
  BY <1>3, <1>4 DEF SrvInv, SrvTyped, SrvTypeOK
<1>6. CloseOnce'
  <2>1. \A w \in SrvWorker : Closing(w) => job[w][3] <= stops /\ job[w] # new
    BY <1>3, <1>4 DEF SrvInv, CloseOnce, SrvTyped, SrvTypeOK
  <2>2. \A t \in tasks : t[1] = "close" => t[3] \in Int
    BY TaskKinds DEF SrvInv, SrvTyped
  <2>3. \A w \in SrvWorker : Closing(w) => job[w][3] \in Int
    BY TaskKinds DEF SrvInv, SrvTyped, Closing
  <2>4. stops \in Int
    BY DEF SrvInv, SrvTyped, SrvTypeOK
  <2>5. \A w \in SrvWorker : job[w] # new
    BY <1>4, <2>1 DEF Closing
  <2> QED
    BY <1>3, <1>4, <2>1, <2>2, <2>3, <2>4, <2>5 DEF SrvInv, CloseOnce, Closing
<1>7. InTurn' /\ LoopSafe' /\ SrvOwned'
  <2>1. stops' <= 1 => stops <= 1
    BY <1>3 DEF SrvInv, SrvTyped, SrvTypeOK
  <2> QED
    BY <1>3, <2>1 DEF SrvInv, InTurn, LoopSafe, SrvOwned, Closing
<1>8. StrayNeedsTwoStops'
  BY <1>3 DEF SrvInv, StrayNeedsTwoStops, SrvTyped, SrvTypeOK
<1> QED
  BY <1>5, <1>6, <1>7, <1>8 DEF SrvInv

LEMMA ReleaseInv == SrvInv /\ Release => SrvInv'
PROOF
<1> SUFFICES ASSUME SrvInv, Release PROVE SrvInv'
  OBVIOUS
<1>1. /\ \A w \in SrvWorker : job[w] = Idle
      /\ released' = TRUE /\ m_socks' = {} /\ Destroying
      /\ UNCHANGED <<workVars, m_isStop, fails, client, starts, stops, srvFault>>
  BY DEF Release
<1> USE DEF workVars
<1>2. \A w \in SrvWorker : ~Closing(w) /\ \A l \in Listener : at[w] # <<"closed", l>>
  BY <1>1, PlaceKinds DEF SrvInv, InTurn, Closing, Idle
<1>3. stops <= 1 => \A l \in Listener : fd[l] # 0 => owns[fd[l]] = l
  BY <1>2 DEF SrvInv, SrvOwned
<1>4. /\ fd' \in [Listener -> SrvFds \cup {0}] /\ owns' \in [SrvFds -> Listener \cup {Free, Other}]
      /\ strayClose' \in BOOLEAN
      /\ stops <= 1 => /\ strayClose' = strayClose
                       /\ \A l \in Listener : fd'[l] # 0 => owns'[fd'[l]] = l
  BY <1>1, <1>3, DestroyingHolds
<1>5. SrvTyped'
  BY <1>1, <1>4 DEF SrvInv, SrvTyped, SrvTypeOK
<1>6. CloseOnce'
  BY <1>1, CloseOnceKept
<1>7. InTurn' /\ LoopSafe' /\ SrvOwned'
  BY <1>1, <1>2, <1>4 DEF SrvInv, InTurn, LoopSafe, SrvOwned, Closing
<1>8. StrayNeedsTwoStops'
  BY <1>1, <1>4, SrvAssumption
     DEF SrvInv, StrayNeedsTwoStops, SrvTyped, SrvTypeOK
<1> QED
  BY <1>5, <1>6, <1>7, <1>8 DEF SrvInv

-----------------------------------------------------------------------------
(* The world.                                                              *)

LEMMA WorldInv ==
  ASSUME SrvInv,
         \/ \E c \in Client, l \in Listener : Arrives(c, l)
         \/ \E d \in SrvFds : OtherOpens(d)
  PROVE  SrvInv'
PROOF
<1> USE SrvAssumption DEF workVars, countVars
<1>1. UNCHANGED <<m_isStop, m_socks, fd, fails, workVars, countVars, strayClose, srvFault>>
  BY DEF Arrives, OtherOpens, listenVars
<1>2. /\ client' \in [Client -> {"away", "pending", "accepted", "handled"}
                                  \X (Listener \cup {Free})]
      /\ owns' \in [SrvFds -> Listener \cup {Free, Other}]
      /\ \A d \in SrvFds : \A l \in Listener : owns[d] = l => owns'[d] = l
  <2>1. CASE \E c \in Client, l \in Listener : Arrives(c, l)
    BY <2>1 DEF Arrives, listenVars, SrvInv, SrvTyped, SrvTypeOK
  <2>2. CASE \E d \in SrvFds : OtherOpens(d)
    BY <2>2 DEF OtherOpens, SrvInv, SrvTyped, SrvTypeOK
  <2> QED
    BY <2>1, <2>2
<1>3. SrvTyped'
  BY <1>1, <1>2 DEF SrvInv, SrvTyped, SrvTypeOK
<1>4. CloseOnce'
  BY <1>1, CloseOnceKept
<1>5. InTurn' /\ LoopSafe'
  BY <1>1 DEF SrvInv, InTurn, LoopSafe, Closing
<1>6. SrvOwned'
  BY <1>1, <1>2 DEF SrvInv, SrvOwned, SrvTyped, SrvTypeOK
<1>7. StrayNeedsTwoStops'
  BY <1>1 DEF SrvInv, StrayNeedsTwoStops
<1> QED
  BY <1>3, <1>4, <1>5, <1>6, <1>7 DEF SrvInv

-----------------------------------------------------------------------------
(* The workers.                                                            *)

LEMMA TakeInv ==
  ASSUME SrvInv, NEW w \in SrvWorker, NEW t \in tasks, Take(w, t)
  PROVE  SrvInv'
PROOF
<1>1. /\ job[w] = Idle
      /\ tasks' = tasks \ {t} /\ job' = [job EXCEPT ![w] = t]
      /\ at' = [at EXCEPT ![w] = <<"begin">>]
      /\ left' = [left EXCEPT ![w] = IF t[1] = "close" THEN m_socks ELSE {}]
      /\ client' = IF t[1] = "client" THEN [client EXCEPT ![t[2]] = <<"handled", Free>>]
                   ELSE client
      /\ UNCHANGED <<m_isStop, listenVars, fails, countVars, strayClose, srvFault>>
  BY DEF Take, Step
<1> USE DEF listenVars, countVars
<1>2. t \in SrvTask /\ t # Idle
  BY DEF SrvInv, SrvTyped, SrvTask, AcceptTask, CloseTask, ClientTask, Idle
<1>3. /\ job'[w] = t /\ at'[w] = <<"begin">>
      /\ t[1] = "close" => left'[w] = m_socks
      /\ \A v \in SrvWorker : v # w => job'[v] = job[v] /\ at'[v] = at[v] /\ left'[v] = left[v]
  BY <1>1 DEF SrvInv, SrvTyped
<1>4. \A l \in Listener : at[w] # <<"closed", l>>
  BY <1>1, PlaceKinds DEF SrvInv, InTurn
<1>5. SrvTyped'
  <2>1. /\ tasks' \subseteq SrvTask /\ job' \in [SrvWorker -> SrvTask \cup {Idle}]
        /\ at' \in [SrvWorker -> Place]
    BY <1>1, <1>2, PlaceKinds DEF SrvInv, SrvTyped
  <2>2. left' \in [SrvWorker -> SUBSET Listener]
    BY <1>1 DEF SrvInv, SrvTyped, SrvTypeOK
  <2>3. client' \in [Client -> {"away", "pending", "accepted", "handled"}
                                 \X (Listener \cup {Free})]
    BY <1>1, <1>2, TaskKinds DEF SrvInv, SrvTyped
  <2> QED
    BY <1>1, <2>1, <2>2, <2>3 DEF SrvInv, SrvTyped, SrvTypeOK
<1>6. CloseOnce'
  BY <1>1, <1>3 DEF SrvInv, CloseOnce, Closing
<1>7. InTurn'
  BY <1>2, <1>3, PlaceKinds DEF SrvInv, InTurn, Closing
<1>8. LoopSafe'
  BY <1>1, <1>3 DEF SrvInv, LoopSafe, Closing
<1>9. SrvOwned'
  BY <1>1, <1>3, <1>4 DEF SrvInv, SrvOwned
<1>10. StrayNeedsTwoStops'
  BY <1>1 DEF SrvInv, StrayNeedsTwoStops
<1> QED
  BY <1>5, <1>6, <1>7, <1>8, <1>9, <1>10 DEF SrvInv

(* A task that is not a closing one goes on, or ends: all but the pointers *)
(* it may drop stays as it is.                                             *)
LEMMA GoesOn ==
  ASSUME SrvInv, NEW w \in SrvWorker, ~Closing(w), NEW l \in Place,
         l \in {<<"begin">>, <<"accept">>} \/ l = <<"run">>,
         at' = [at EXCEPT ![w] = l],
         \/ job' = job /\ job[w] # Idle
         \/ job' = [job EXCEPT ![w] = Idle] /\ l = <<"run">>,
         UNCHANGED <<m_socks, left, stops>>
  PROVE  /\ job' \in [SrvWorker -> SrvTask \cup {Idle}] /\ at' \in [SrvWorker -> Place]
         /\ \A v \in SrvWorker : job'[v] = job[v] \/ job'[v] = Idle
         /\ \A v \in SrvWorker : \A k \in Listener :
              at'[v] = <<"closed", k>> <=> at[v] = <<"closed", k>>
         /\ InTurn' /\ LoopSafe'
PROOF
<1>1. /\ job' \in [SrvWorker -> SrvTask \cup {Idle}] /\ at' \in [SrvWorker -> Place]
      /\ at'[w] = l /\ \A v \in SrvWorker : v # w => at'[v] = at[v] /\ job'[v] = job[v]
      /\ \/ job'[w] = job[w] /\ job[w] # Idle
         \/ job'[w] = Idle /\ l = <<"run">>
  BY DEF SrvInv, SrvTyped
<1>2. \A k \in Listener : at[w] # <<"closed", k>> /\ l # <<"closed", k>>
  BY PlaceKinds DEF SrvInv, InTurn
<1>3. Idle[1] # "close"
  BY DEF Idle
<1>4. InTurn'
  BY <1>1, <1>2 DEF SrvInv, InTurn, Closing
<1>5. LoopSafe'
  BY <1>1, <1>3 DEF SrvInv, LoopSafe, Closing
<1> QED
  BY <1>1, <1>2, <1>4, <1>5

LEMMA LoopTestInv ==
  ASSUME SrvInv, NEW w \in SrvWorker, LoopTest(w)
  PROVE  SrvInv'
PROOF
<1>1. /\ job[w][1] = "accept" /\ at[w] = <<"begin">>
      /\ UNCHANGED <<m_isStop, m_socks, fails, tasks, client, countVars, srvFault, left>>
      /\ \/ /\ job' = [job EXCEPT ![w] = Idle] /\ at' = [at EXCEPT ![w] = <<"run">>]
            /\ Destroying
         \/ /\ at' = [at EXCEPT ![w] = <<"accept">>]
            /\ UNCHANGED <<job, fd, owns, strayClose>>
  BY DEF LoopTest, Ends, Step
<1> USE DEF countVars
<1>2. ~Closing(w) /\ job[w] # Idle
  BY <1>1 DEF Closing, Idle
<1>3. /\ job' \in [SrvWorker -> SrvTask \cup {Idle}] /\ at' \in [SrvWorker -> Place]
      /\ \A v \in SrvWorker : job'[v] = job[v] \/ job'[v] = Idle
      /\ \A v \in SrvWorker : \A k \in Listener :
           at'[v] = <<"closed", k>> <=> at[v] = <<"closed", k>>
      /\ InTurn' /\ LoopSafe'
  BY <1>1, <1>2, GoesOn, PlaceKinds
<1>4. /\ fd' \in [Listener -> SrvFds \cup {0}] /\ owns' \in [SrvFds -> Listener \cup {Free, Other}]
      /\ strayClose' \in BOOLEAN
      /\ stops <= 1 =>
           /\ strayClose' = strayClose
           /\ \A l \in Listener : fd'[l] # 0 =>
                fd'[l] = fd[l] /\ (owns[fd[l]] = l => owns'[fd'[l]] = l)
  <2>1. CASE Destroying
    <3>1. ASSUME stops <= 1, NEW l \in Listener, fd[l] # 0, ~Held(l)'
          PROVE  owns[fd[l]] = l
      <4>1. l \notin m_socks
        BY <1>1, <3>1 DEF Held
      <4>2. \A v \in SrvWorker : at[v] # <<"closed", l>>
        BY <3>1, <4>1, ClosedInLoop
      <4> QED
        BY <3>1, <4>2 DEF SrvInv, SrvOwned
    <3> QED
      BY <2>1, <3>1, DestroyingHolds
  <2>2. CASE UNCHANGED <<fd, owns, strayClose>>
    BY <2>2 DEF SrvInv, SrvTyped, SrvTypeOK
  <2> QED
    BY <1>1, <2>1, <2>2
<1>5. SrvTyped'
  BY <1>1, <1>3, <1>4 DEF SrvInv, SrvTyped, SrvTypeOK
<1>6. CloseOnce'
  BY <1>1, <1>3, CloseOnceKept
<1>7. SrvOwned'
  BY <1>1, <1>3, <1>4 DEF SrvInv, SrvOwned
<1>9. StrayNeedsTwoStops'
  BY <1>1, <1>4, SrvAssumption DEF SrvInv, StrayNeedsTwoStops, SrvTyped, SrvTypeOK
<1> QED
  BY <1>3, <1>5, <1>6, <1>7, <1>9 DEF SrvInv

LEMMA AcceptInv ==
  ASSUME SrvInv, NEW w \in SrvWorker, Accept(w)
  PROVE  SrvInv'
PROOF
<1>1. /\ job[w][1] = "accept" /\ at[w] = <<"accept">>
      /\ at' = [at EXCEPT ![w] = <<"begin">>]
      /\ \/ \E c \in Client :
              /\ client' = [client EXCEPT ![c] = <<"accepted", Free>>]
              /\ tasks' = tasks \cup {<<"client", c, 0>>}
         \/ UNCHANGED <<client, tasks>>
      /\ UNCHANGED <<m_isStop, listenVars, fails, job, left, countVars, strayClose, srvFault>>
  <2>1. CASE UNCHANGED <<client, tasks>>
    BY <2>1 DEF Accept, Step
  <2>2. CASE ~UNCHANGED <<client, tasks>>
    <3>1. PICK c \in Client : /\ client' = [client EXCEPT ![c] = <<"accepted", Free>>]
                              /\ tasks' = tasks \cup {<<"client", c, 0>>}
      BY <2>2 DEF Accept, Handed
    <3> QED
      BY <3>1 DEF Accept, Step
  <2> QED
    BY <2>1, <2>2
<1> USE DEF countVars, listenVars
<1>2. ~Closing(w) /\ job[w] # Idle
  BY <1>1 DEF Closing, Idle
<1>3. /\ job' \in [SrvWorker -> SrvTask \cup {Idle}] /\ at' \in [SrvWorker -> Place]
      /\ \A v \in SrvWorker : job'[v] = job[v] \/ job'[v] = Idle
      /\ \A v \in SrvWorker : \A k \in Listener :
           at'[v] = <<"closed", k>> <=> at[v] = <<"closed", k>>
      /\ InTurn' /\ LoopSafe'
  BY <1>1, <1>2, GoesOn, PlaceKinds
<1>4. /\ client' \in [Client -> {"away", "pending", "accepted", "handled"}
                                  \X (Listener \cup {Free})]
      /\ tasks' \subseteq SrvTask
      /\ \A t \in tasks' : t \in tasks \/ t[1] # "close"
  BY <1>1 DEF SrvInv, SrvTyped, SrvTask, ClientTask
<1>5. SrvTyped'
  BY <1>1, <1>3, <1>4 DEF SrvInv, SrvTyped, SrvTypeOK
<1>6. CloseOnce'
  BY <1>1, <1>3, <1>4, CloseOnceKept
<1>7. SrvOwned'
  BY <1>1, <1>3 DEF SrvInv, SrvOwned
<1>8. StrayNeedsTwoStops'
  BY <1>1 DEF SrvInv, StrayNeedsTwoStops
<1> QED
  BY <1>3, <1>5, <1>6, <1>7, <1>8 DEF SrvInv

LEMMA ClientDoneInv ==
  ASSUME SrvInv, NEW w \in SrvWorker, ClientDone(w)
  PROVE  SrvInv'
PROOF
<1>1. /\ job[w][1] = "client"
      /\ job' = [job EXCEPT ![w] = Idle] /\ at' = [at EXCEPT ![w] = <<"run">>]
      /\ UNCHANGED <<m_isStop, listenVars, fails, tasks, client, countVars, strayClose,
                     srvFault, left>>
  BY DEF ClientDone, Ends, Step
<1> USE DEF countVars, listenVars
<1>2. ~Closing(w)
  BY <1>1 DEF Closing
<1>3. /\ job' \in [SrvWorker -> SrvTask \cup {Idle}] /\ at' \in [SrvWorker -> Place]
      /\ \A v \in SrvWorker : job'[v] = job[v] \/ job'[v] = Idle
      /\ \A v \in SrvWorker : \A k \in Listener :
           at'[v] = <<"closed", k>> <=> at[v] = <<"closed", k>>
      /\ InTurn' /\ LoopSafe'
  BY <1>1, <1>2, GoesOn, PlaceKinds
<1>4. SrvTyped'
  BY <1>1, <1>3 DEF SrvInv, SrvTyped, SrvTypeOK
<1>5. CloseOnce'
  BY <1>1, <1>3, CloseOnceKept
<1>6. SrvOwned'
  BY <1>1, <1>3 DEF SrvInv, SrvOwned
<1>7. StrayNeedsTwoStops'
  BY <1>1 DEF SrvInv, StrayNeedsTwoStops
<1> QED
  BY <1>3, <1>4, <1>5, <1>6, <1>7 DEF SrvInv

(* The closing task closes what is its Socket's own, if it is alone, and   *)
(* its loop goes over m_socks as it is.                                    *)
LEMMA CloseOneInv ==
  ASSUME SrvInv, NEW w \in SrvWorker, NEW l \in Listener, CloseOne(w, l)
  PROVE  SrvInv'
PROOF
<1> USE SrvAssumption
<1>1. /\ Closing(w) /\ at[w] = <<"begin">> /\ l \in left[w]
      /\ UNCHANGED <<m_isStop, m_socks, fd, fails, tasks, job, left, client, countVars>>
      /\ \/ srvFault' = TRUE /\ m_socks = {} /\ UNCHANGED <<at, owns, strayClose>>
         \/ /\ at' = [at EXCEPT ![w] = <<"closed", l>>]
            /\ strayClose' = (strayClose \/ (fd[l] # 0 /\ owns[fd[l]] # l))
            /\ owns' = IF fd[l] = 0 THEN owns ELSE [owns EXCEPT ![fd[l]] = Free]
            /\ UNCHANGED srvFault
  BY DEF CloseOne, Closing, Step
<1> USE DEF countVars
<1>2. ASSUME stops <= 1
      PROVE  /\ m_socks # {}
             /\ \A k \in Listener : fd[k] # 0 => owns[fd[k]] = k
  <2>1. \A v \in SrvWorker : \A k \in Listener : at[v] # <<"closed", k>>
    BY <1>1, <1>2, ClosedInLoop, OneCloser, PlaceKinds
  <2> QED
    BY <1>1, <1>2, <2>1 DEF SrvInv, LoopSafe, SrvOwned
<1>3. /\ at' \in [SrvWorker -> Place] /\ owns' \in [SrvFds -> Listener \cup {Free, Other}]
      /\ \A v \in SrvWorker : v # w => at'[v] = at[v]
      /\ at'[w] = at[w] \/ at'[w] = <<"closed", l>>
  BY <1>1 DEF SrvInv, SrvTyped, SrvTypeOK, Place
<1>4. strayClose' \in BOOLEAN /\ srvFault' \in BOOLEAN
  BY <1>1 DEF SrvInv, SrvTyped, SrvTypeOK
<1>5. SrvTyped'
  BY <1>1, <1>3, <1>4 DEF SrvInv, SrvTyped, SrvTypeOK
<1>6. CloseOnce'
  BY <1>1, CloseOnceKept
<1>7. InTurn'
  <2>1. job[w] # Idle
    BY <1>1 DEF Closing, Idle
  <2> QED
    BY <1>1, <1>3, <2>1, PlaceKinds DEF SrvInv, InTurn, Closing
<1>8. LoopSafe'
  BY <1>1 DEF SrvInv, LoopSafe, Closing
<1>9. SrvOwned'
  <2> SUFFICES ASSUME stops <= 1, NEW k \in Listener, fd[k] # 0
               PROVE  owns'[fd[k]] = k \/ \E v \in SrvWorker : at'[v] = <<"closed", k>>
    BY <1>1 DEF SrvOwned
  <2>1. m_socks # {} /\ owns[fd[k]] = k /\ fd[k] \in SrvFds /\ (fd[l] # 0 => owns[fd[l]] = l)
    BY <1>2 DEF SrvInv, SrvTyped, SrvTypeOK
  <2>2. at'[w] = <<"closed", l>>
    BY <1>1, <2>1 DEF SrvInv, SrvTyped
  <2>3. CASE k = l
    BY <2>2, <2>3
  <2>4. CASE k # l
    BY <1>1, <2>1, <2>4 DEF SrvInv, SrvTyped, SrvTypeOK
  <2> QED
    BY <2>3, <2>4
<1>11. StrayNeedsTwoStops'
  <2>1. stops \in Int /\ stops' = stops
    BY <1>1 DEF SrvInv, SrvTyped, SrvTypeOK
  <2>2. CASE stops <= 1
    BY <1>1, <1>2, <2>2 DEF SrvInv, StrayNeedsTwoStops
  <2>3. CASE ~(stops <= 1)
    BY <2>1, <2>3 DEF StrayNeedsTwoStops
  <2> QED
    BY <2>2, <2>3
<1> QED
  BY <1>5, <1>6, <1>7, <1>8, <1>9, <1>11 DEF SrvInv

LEMMA CloseSetsInv ==
  ASSUME SrvInv, NEW w \in SrvWorker, NEW l \in Listener, CloseSets(w, l)
  PROVE  SrvInv'
PROOF
<1>1. /\ at[w] = <<"closed", l>>
      /\ fd' = [fd EXCEPT ![l] = 0]
      /\ left' = [left EXCEPT ![w] = @ \ {l}]
      /\ at' = [at EXCEPT ![w] = <<"begin">>]
      /\ UNCHANGED <<m_isStop, m_socks, owns, fails, tasks, job, client, countVars,
                     strayClose, srvFault>>
  BY DEF CloseSets, Reset, Step
<1> USE DEF countVars
<1>2. Closing(w) /\ job[w] # Idle
  <2>1. Closing(w)
    BY <1>1 DEF SrvInv, InTurn
  <2> QED
    BY <2>1 DEF Closing, Idle
<1>3. /\ at'[w] = <<"begin">> /\ \A v \in SrvWorker : v # w => at'[v] = at[v] /\ left'[v] = left[v]
      /\ left'[w] \subseteq left[w]
      /\ fd'[l] = 0 /\ \A k \in Listener : k # l => fd'[k] = fd[k]
  BY <1>1 DEF SrvInv, SrvTyped, SrvTypeOK
<1>4. SrvTyped'
  <2>1. /\ fd' \in [Listener -> SrvFds \cup {0}] /\ left' \in [SrvWorker -> SUBSET Listener]
        /\ at' \in [SrvWorker -> Place]
    BY <1>1, PlaceKinds DEF SrvInv, SrvTyped, SrvTypeOK
  <2> QED
    BY <1>1, <2>1 DEF SrvInv, SrvTyped, SrvTypeOK
<1>5. CloseOnce'
  BY <1>1, CloseOnceKept
<1>6. InTurn'
  BY <1>1, <1>2, <1>3, PlaceKinds DEF SrvInv, InTurn, Closing
<1>7. LoopSafe'
  BY <1>1, <1>3 DEF SrvInv, LoopSafe, Closing
<1>8. SrvOwned'
  <2> SUFFICES ASSUME stops <= 1, NEW k \in Listener, fd'[k] # 0
               PROVE  owns[fd'[k]] = k \/ \E v \in SrvWorker : at'[v] = <<"closed", k>>
    BY <1>1 DEF SrvOwned
  <2>1. k # l /\ fd'[k] = fd[k]
    BY <1>3
  <2>2. at[w] # <<"closed", k>>
    BY <1>1, <2>1, PlaceKinds
  <2> QED
    BY <1>3, <2>1, <2>2 DEF SrvInv, SrvOwned
<1>9. StrayNeedsTwoStops'
  BY <1>1 DEF SrvInv, StrayNeedsTwoStops
<1> QED
  BY <1>4, <1>5, <1>6, <1>7, <1>8, <1>9 DEF SrvInv

LEMMA CloseEndsInv ==
  ASSUME SrvInv, NEW w \in SrvWorker, CloseEnds(w)
  PROVE  SrvInv'
PROOF
<1>1. /\ Closing(w) /\ at[w] = <<"begin">>
      /\ m_socks' = {} /\ Destroying
      /\ job' = [job EXCEPT ![w] = Idle] /\ at' = [at EXCEPT ![w] = <<"run">>]
      /\ UNCHANGED <<tasks, left, m_isStop, fails, client, countVars, srvFault>>
  BY DEF CloseEnds, Closing, Ends, Step
<1> USE DEF countVars
<1>2. /\ job'[w] = Idle /\ at'[w] = <<"run">>
      /\ \A v \in SrvWorker : v # w => job'[v] = job[v] /\ at'[v] = at[v]
  BY <1>1 DEF SrvInv, SrvTyped
<1>3. Idle[1] # "close"
  BY DEF Idle
<1>4. ASSUME stops <= 1, NEW l \in Listener, fd[l] # 0 PROVE owns[fd[l]] = l
  <2>1. \A v \in SrvWorker : at[v] # <<"closed", l>>
    BY <1>1, <1>4, ClosedInLoop, OneCloser, PlaceKinds
  <2> QED
    BY <1>4, <2>1 DEF SrvInv, SrvOwned
<1>5. /\ fd' \in [Listener -> SrvFds \cup {0}] /\ owns' \in [SrvFds -> Listener \cup {Free, Other}]
      /\ strayClose' \in BOOLEAN
      /\ stops <= 1 => /\ strayClose' = strayClose
                       /\ \A l \in Listener : fd'[l] # 0 => owns'[fd'[l]] = l
  BY <1>1, <1>4, DestroyingHolds
<1>6. SrvTyped'
  <2>1. job' \in [SrvWorker -> SrvTask \cup {Idle}] /\ at' \in [SrvWorker -> Place]
    BY <1>1, PlaceKinds DEF SrvInv, SrvTyped
  <2> QED
    BY <1>1, <1>5, <2>1 DEF SrvInv, SrvTyped, SrvTypeOK
<1>7. CloseOnce'
  BY <1>1, <1>2, CloseOnceKept
<1>8. InTurn'
  BY <1>1, <1>2, PlaceKinds DEF SrvInv, InTurn, Closing
<1>9. LoopSafe'
  <2>1. stops <= 1 => \A v \in SrvWorker : ~Closing(v)'
    BY <1>1, <1>2, <1>3, OneCloser DEF Closing
  <2> QED
    BY <1>1, <2>1 DEF LoopSafe
<1>10. SrvOwned'
  BY <1>1, <1>5 DEF SrvOwned
<1>12. StrayNeedsTwoStops'
  BY <1>1, <1>5, SrvAssumption DEF SrvInv, StrayNeedsTwoStops, SrvTyped, SrvTypeOK
<1> QED
  BY <1>6, <1>7, <1>8, <1>9, <1>10, <1>12 DEF SrvInv

LEMMA SrvStep == SrvInv /\ SrvNext => SrvInv'
PROOF
<1> SUFFICES ASSUME SrvInv, SrvNext PROVE SrvInv'
  OBVIOUS
<1>1. CASE \E addrs \in SUBSET Listener, before \in {fails, {}} :
             \E now \in SUBSET addrs : BindAll(addrs, now, before)
  BY <1>1, BindAllInv
<1>2. CASE Start \/ Stop \/ Release
  BY <1>2, StartInv, StopInv, ReleaseInv
<1>3. CASE \/ \E c \in Client, l \in Listener : Arrives(c, l)
           \/ \E d \in SrvFds : OtherOpens(d)
  BY <1>3, WorldInv
<1>4. CASE \E w \in SrvWorker : Runs(w) \/ ClientDone(w)
  BY <1>4, TakeInv, LoopTestInv, AcceptInv, ClientDoneInv, CloseOneInv, CloseSetsInv,
     CloseEndsInv DEF Runs
<1> QED
  BY <1>1, <1>2, <1>3, <1>4 DEF SrvNext

(* At first nothing is bound.                                              *)
LEMMA BindInitInv == SrvInit => BoundInv
  BY DEF SrvInit, BoundInv, Unstarted, BindAllOrNothing

(* A failure empties the vector; before start() nothing but the vector     *)
(* holds a Socket, so what leaves it is closed.                            *)
LEMMA BindStep == SrvInv /\ BoundInv /\ SrvNext => BoundInv'
PROOF
<1> SUFFICES ASSUME SrvInv, BoundInv, SrvNext PROVE BoundInv'
  OBVIOUS
<1> USE DEF listenVars, workVars, countVars
<1>0. starts \in 0 .. 2 /\ \A l \in Listener : fd[l] \in SrvFds \cup {0}
  BY DEF SrvInv, SrvTyped, SrvTypeOK
<1>a. ASSUME UNCHANGED <<tasks, job, starts>> PROVE Unstarted'
  BY <1>a DEF BoundInv, Unstarted
<1>b. ASSUME starts = 0, UNCHANGED <<tasks, job>>, Destroying
      PROVE  \A l \in Listener : fd'[l] = IF l \in m_socks' THEN fd[l] ELSE 0
  <2>1. \A l \in Listener : Held(l)' <=> l \in m_socks'
    BY <1>b DEF BoundInv, Unstarted, Held, Idle
  <2>2. fd' = [l \in Listener |-> IF fd[l] # 0 /\ ~Held(l)' THEN 0 ELSE fd[l]]
    BY <1>b DEF Destroying
  <2> QED
    BY <2>1, <2>2
<1>1. ASSUME NEW addrs \in SUBSET Listener, NEW before \in {fails, {}},
             NEW now \in SUBSET addrs, BindAll(addrs, now, before)
      PROVE  BoundInv'
  <2>1. /\ fails' = Failed(now, before) /\ UNCHANGED <<tasks, job, starts>>
    BY <1>1 DEF BindAll, Failed
  <2>2. CASE Failed(now, before) # {}
    <3>1. m_socks' = {} /\ Destroying
      BY <1>1, <2>2 DEF BindAll
    <3>2. starts = 0 => \A l \in Listener : fd'[l] = 0
      BY <1>b, <2>1, <3>1
    <3> QED
      BY <1>a, <2>1, <3>1, <3>2 DEF BoundInv, BindAllOrNothing
  <2>3. CASE Failed(now, before) = {}
    <3>1. PICK f \in [addrs -> {d \in SrvFds : owns[d] = Free}] :
            /\ m_socks' = m_socks \cup addrs
            /\ fd' = [l \in Listener |-> IF l \in addrs THEN f[l] ELSE fd[l]]
      BY <1>1, <2>3 DEF BindAll
    <3>2. \A l \in addrs : f[l] # 0
      BY <3>1, SrvAssumption
    <3>3. starts = 0 => \A l \in Listener : fd'[l] # 0 <=> l \in m_socks'
      BY <3>1, <3>2 DEF BoundInv, BindAllOrNothing
    <3> QED
      BY <1>a, <2>1, <2>3, <3>3 DEF BoundInv, BindAllOrNothing
  <2> QED
    BY <2>2, <2>3
<1>2. CASE Start \/ Stop
  <2>1. starts' # 0 /\ UNCHANGED <<m_socks, fails>>
    BY <1>0, <1>2 DEF Start, Stop
  <2> QED
    BY <2>1 DEF BoundInv, Unstarted, BindAllOrNothing
<1>3. CASE Release
  <2>1. /\ m_socks' = {} /\ Destroying /\ UNCHANGED <<tasks, job, starts>>
    BY <1>3 DEF Release
  <2> QED
    BY <1>a, <1>b, <2>1 DEF BoundInv, BindAllOrNothing
<1>4. CASE \/ \E c \in Client, l \in Listener : Arrives(c, l)
           \/ \E d \in SrvFds : OtherOpens(d)
  <2>1. UNCHANGED <<m_socks, fd, fails, tasks, job, starts>>
    BY <1>4 DEF Arrives, OtherOpens
  <2> QED
    BY <1>a, <2>1 DEF BoundInv, BindAllOrNothing
<1>5. ASSUME NEW w \in SrvWorker, Runs(w) \/ ClientDone(w) PROVE BoundInv'
  <2>1. starts # 0
    <3>1. (\E t \in tasks : Take(w, t)) \/ job[w] # Idle
      <4>1. ASSUME NEW l \in Listener, CloseSets(w, l) PROVE job[w] # Idle
        BY <4>1, PlaceKinds DEF CloseSets, SrvInv, InTurn
      <4>2. Idle[1] = "idle"
        BY DEF Idle
      <4>3. ASSUME LoopTest(w) \/ Accept(w) \/ CloseEnds(w) \/ ClientDone(w)
            PROVE  job[w] # Idle
        BY <4>2, <4>3 DEF LoopTest, Accept, CloseEnds, ClientDone
      <4>4. ASSUME NEW l \in Listener, CloseOne(w, l) PROVE job[w] # Idle
        BY <4>2, <4>4 DEF CloseOne
      <4> QED
        BY <1>5, <4>1, <4>3, <4>4 DEF Runs
    <3> QED
      BY <3>1 DEF BoundInv, Unstarted
  <2>2. starts' = starts /\ fails' = fails /\ m_socks' \in {m_socks, {}}
    BY <1>5 DEF Runs, Take, LoopTest, Accept, CloseEnds, CloseOne, CloseSets, ClientDone
  <2> QED
    BY <2>1, <2>2 DEF BoundInv, Unstarted, BindAllOrNothing
<1> QED
  BY <1>1, <1>2, <1>3, <1>4, <1>5 DEF SrvNext

-----------------------------------------------------------------------------
(* The three parts together.                                               *)

(* NetInv is inductive: a step is one of a single part.                    *)
LEMMA NetInductive == NetInv /\ [NetNext]_netVars => NetInv'
PROOF
<1> SUFFICES ASSUME NetInv, [NetNext]_netVars PROVE NetInv'
  OBVIOUS
<1>1. \/ DescNext /\ UNCHANGED <<sockVars, srvVars>>
      \/ SockNext /\ UNCHANGED <<descVars, srvVars>>
      \/ SrvNext /\ UNCHANGED <<descVars, sockVars>>
      \/ UNCHANGED <<descVars, sockVars, srvVars>>
  BY DEF NetNext, netVars
<1>2. DescInv'
  BY <1>1, DescStep, DescStutter DEF NetInv
<1>3. SockInv'
  BY <1>1, SockStep, SockStutter DEF NetInv
<1>4. SrvInv'
  BY <1>1, SrvStep, SrvStutter DEF NetInv
<1>5. BoundInv'
  <2>1. CASE UNCHANGED srvVars
    BY <2>1 DEF NetInv, BoundInv, Unstarted, BindAllOrNothing, srvVars, listenVars, workVars, countVars
  <2> QED
    BY <1>1, <2>1, BindStep DEF NetInv
<1> QED
  BY <1>2, <1>3, <1>4, <1>5 DEF NetInv

THEOREM NetInvariant == NetSpec => []NetInv
PROOF
<1>1. NetInit => NetInv
  BY DescInitInv, SockInitInv, SrvInitInv, BindInitInv DEF NetInit, NetInv
<1> QED
  BY <1>1, NetInductive, PTL DEF NetSpec

(* Every variable of the three parts keeps its type (hook.cpp,             *)
(* fd_manager.cpp, socket.cpp, server.cpp).                                *)
THEOREM TypeCorrect == NetSpec => []NetTypeOK
PROOF
<1>1. NetInv => NetTypeOK
  BY DEF NetInv, DescInv, DescTyped, SockInv, SrvInv, SrvTyped, NetTypeOK
<1> QED
  BY <1>1, NetInvariant, PTL

(* No descriptor finds the context of an earlier one of its number in the  *)
(* table, unless that was closed with hooks off (hook.cpp:417).            *)
THEOREM NoStaleContextHolds == NetSpec => []NoStaleContext
PROOF
<1>1. NetInv => NoStaleContext
  BY DEF NetInv, DescInv
<1> QED
  BY <1>1, NetInvariant, PTL

(* Between calls the program is shown the mode it asked for, and the       *)
(* kernel's flag is on (hook.cpp:466-534).                                 *)
THEOREM ModesAgreeHolds == NetSpec => []ModesAgree
PROOF
<1>1. NetInv => ModesAgree
  BY ModesFollow DEF NetInv
<1> QED
  BY <1>1, NetInvariant, PTL

(* A Socket sends to its own descriptor, and the local address it          *)
(* remembers is that descriptor's (socket.cpp:175, 242-317, 348).          *)
THEOREM SocketOwnHolds == NetSpec => []SocketOwn
PROOF
<1>1. NetInv => SocketOwn
  BY SockFollows DEF NetInv, SockInv
<1> QED
  BY <1>1, NetInvariant, PTL

(* After a failed bind() the server has no socket, and until it starts none*)
(* is open but its own (server.cpp:67).                                    *)
THEOREM BindAllOrNothingHolds == NetSpec => []BindAllOrNothing
PROOF
<1>1. NetInv => BindAllOrNothing
  BY DEF NetInv, BoundInv
<1> QED
  BY <1>1, NetInvariant, PTL

(* One stop() closes no descriptor of others, and goes through no vector   *)
(* that was cleared (server.cpp:113, socket.cpp:236).                      *)
THEOREM StrayNeedsTwoStopsHolds == NetSpec => []StrayNeedsTwoStops
PROOF
<1>1. NetInv => StrayNeedsTwoStops
  BY DEF NetInv, SrvInv
<1> QED
  BY <1>1, NetInvariant, PTL
=============================================================================
