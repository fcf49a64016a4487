------------------------------ MODULE HookProofs ------------------------------
(***************************************************************************)
(* Proofs about Hook, for every number of workers, any calls on any        *)
(* descriptors, scheduled together in any way, and any number of arrivals. *)
(*                                                                         *)
(* The argument: an event's callback belongs to a call that is still under *)
(* way, so a stack that is gone is reached only by a callback that was     *)
(* queued before.  A call of do_io() returns after its flag was cleared,   *)
(* so by then it has used up a callback, or timed out, or met another call *)
(* on its descriptor: a callback that is left over is a second one.        *)
(* A sleeper's timer is in the set or handed over as a task, and a timer   *)
(* leaves the set in another way only where one of its m_next was.         *)
(***************************************************************************)
EXTENDS Hook, TLAPS

USE DEF Begun

-----------------------------------------------------------------------------
(* The inductive invariant.                                                *)

(* Each kind of call has its own way through the program.                  *)
ByKind ==
  \A c \in Call :
    /\ Kind[c] \in Sleeps => pc[c] \in {"absent", "queued", "timer", "wait", "done"}
    /\ IsIO(c) => pc[c] \in {"absent", "queued", "add", "arm", "wait", "finish", "done"}
    /\ Kind[c] = "connect" => pc[c] \in {"absent", "queued", "add", "leave", "done"}
    /\ Kind[c] = "close" => pc[c] \in {"absent", "queued", "closing", "done"}

(* A call that has not begun has touched nothing; close() has no timer.    *)
Fresh ==
  \A c \in Call :
    /\ ~Begun(c) => flag[c] /\ c \notin timers \cup expired
    /\ Kind[c] = "close" => c \notin timers \cup expired

(* A callback in a slot is that of a call on the descriptor, waiting for   *)
(* the event; one of do_io() goes before its call returns.  What is        *)
(* registered has a callback.                                              *)
Owned(c, f, e) ==
  /\ Target[c] = f /\ Ev(c) = e
  /\ \/ IsIO(c) /\ pc[c] \in {"arm", "wait", "finish"}
     \/ Kind[c] = "connect" /\ pc[c] \in {"leave", "done"}
Registered ==
  /\ \A f \in Fd, e \in Event : slot[f][e] # NoCall => Owned(slot[f][e], f, e)
  /\ \A f \in Fd : interest[f] # "NONE" => slot[f][interest[f]] # NoCall

(* What half a callback is about.                                          *)
HalfDone ==
  \A w \in Worker, c \in Call :
    /\ doing[w] = <<"cancel", c>> => Kind[c] = "usleep"
    /\ doing[w] = <<"timeout", c>> =>
         Kind[c] \notin Sleeps \cup {"close"} /\ c \in cancelled /\ Begun(c)

(* A call that has not reached its addEvent(), nor its wait.               *)
Early(c) == pc[c] \in {"absent", "queued", "timer", "add"}

(* A callback is scheduled for an arrival, or for an addEvent() that found *)
(* the descriptor ready; a call adds its event once.                       *)
Signalled(c) ==
  /\ edge[Target[c]] /\ interest[Target[c]] = Ev(c)
  /\ slot[Target[c]][Ev(c)] = c
Counted ==
  \A c \in Call :
    /\ wakes[c] <= triggered[c]
    /\ Early(c) => triggered[c] = 0
    /\ Kind[c] \in Sleeps \cup {"close"} => triggered[c] = 0
    /\ triggered[c] <= arrivals + 1
    /\ Signalled(c) => triggered[c] <= arrivals

USE DEF Early

(* A wait that is over was ended by a callback that is used up, or by a    *)
(* timeout, or by another call on the descriptor.                          *)
Meets(c) ==
  \E d \in Call \ {c} : Target[d] = Target[c] /\ Kind[d] \notin Sleeps /\ Begun(d)
Answered(c) == wakes[c] < triggered[c] \/ c \in cancelled \/ Meets(c)
WaitsAnswered ==
  \A c \in Call : IsIO(c) =>
    /\ ~flag[c] \/ pc[c] = "finish" => Answered(c)
    /\ pc[c] = "done" => Answered(c) \/ triggered[c] = 0

(* sleep() sleeps until its one callback has run.                          *)
SleepTimers ==
  \A c \in Call : Kind[c] = "sleep" =>
    /\ c \in timers \cup expired => pc[c] \in {"timer", "wait"} /\ flag[c]
    /\ c \notin timers \cap expired

Inv ==
  /\ TypeOK /\ FaultCauses /\ ByKind /\ Fresh /\ Registered /\ HalfDone /\ Counted
  /\ WaitsAnswered /\ SleepTimers

LEMMA InitInv == Init => Inv
PROOF
<1> SUFFICES ASSUME Init PROVE Inv
  OBVIOUS
<1> USE HookAssumption DEF Init
<1>1. TypeOK
  <2>1. pc \in [Call -> {"absent", "queued", "timer", "add", "arm", "wait", "finish", "leave",
                         "closing", "done"}]
    OBVIOUS
  <2>2. /\ doing \in [Worker -> {"run", "call", "cancel", "timeout"} \X (Call \cup {NoCall})]
        /\ flag \in [Call -> BOOLEAN]
        /\ timers \subseteq Call /\ lost \subseteq Call
        /\ due \in [Call -> Deadline \cup {NoDeadline}]
        /\ expired \subseteq Call /\ cancelled \subseteq Call
    OBVIOUS
  <2>3. /\ interest \in [Fd -> Event \cup {"NONE"}]
        /\ slot \in [Fd -> [Event -> Call \cup {NoCall}]]
        /\ ready \in [Fd -> SUBSET Event] /\ edge \in [Fd -> BOOLEAN] /\ closed \subseteq Fd
    BY DEF NoSlots
  <2>4. /\ wakes \in [Call -> 0 .. MaxArrivals + 1]
        /\ triggered \in [Call -> 0 .. MaxArrivals + 1] /\ arrivals \in 0 .. MaxArrivals
    OBVIOUS
  <2>5. fault \in [call : Call \cup {NoCall}, why : {"none", "frame", "null", "throw"}]
    BY DEF NoFault
  <2> QED
    BY <2>1, <2>2, <2>3, <2>4, <2>5 DEF TypeOK
<1>2. \A c \in Call : pc[c] \in {"absent", "queued"}
  OBVIOUS
<1>3. ByKind
  BY <1>2 DEF ByKind
<1>4. Fresh /\ SleepTimers /\ WaitsAnswered /\ FaultCauses
  BY <1>2 DEF Fresh, SleepTimers, WaitsAnswered, FaultCauses
<1>5. Registered
  BY DEF Registered, NoSlots
<1>6. HalfDone
  <2>1. \A c \in Call : <<"run", NoCall>> # <<"cancel", c>> /\ <<"run", NoCall>> # <<"timeout", c>>
    OBVIOUS
  <2> QED
    BY <2>1 DEF HalfDone
<1>7. Counted
  <2>1. \A c \in Call : ~Signalled(c)
    BY DEF Signalled
  <2> QED
    BY <2>1 DEF Counted
<1> QED
  BY <1>1, <1>3, <1>4, <1>5, <1>6, <1>7 DEF Inv

-----------------------------------------------------------------------------
(* What steps have in common.                                              *)

(* A wait that was answered stays so.                                      *)
LEMMA AnsweredStays ==
  ASSUME \A d \in Call : Begun(d) => Begun(d)',
         cancelled \subseteq cancelled',
         \A d \in Call : wakes[d] < triggered[d] => wakes'[d] < triggered'[d],
         NEW c \in Call, Answered(c)
  PROVE  Answered(c)'
BY DEF Answered, Meets

LEMMA CountersAre ==
  ASSUME Inv, NEW c \in Call
  PROVE  wakes[c] \in Nat /\ triggered[c] \in Nat /\ wakes[c] <= triggered[c] /\ arrivals \in Nat
BY HookAssumption DEF Inv, TypeOK, Counted

(* Counters, callbacks and registrations untouched.                        *)
LEMMA CountedStays ==
  ASSUME Inv, UNCHANGED <<taskVars, arrivals>>,
         \A c \in Call : Early(c)' => Early(c),
         \A c \in Call : Signalled(c)' => Signalled(c)
  PROVE  Counted'
BY DEF Inv, Counted, taskVars

LEMMA EventsKept ==
  ASSUME UNCHANGED <<interest, slot, edge>>, NEW c \in Call
  PROVE  Signalled(c)' = Signalled(c)
BY DEF Signalled

(* Halves of callbacks stay, go, or (by the name of the step) begin.       *)
LEMMA HalfDoneStays ==
  ASSUME Inv, cancelled \subseteq cancelled',
         \A d \in Call : Begun(d) => Begun(d)',
         \A w \in Worker : \/ doing'[w] = doing[w]
                           \/ doing'[w][1] \in {"run", "call"}
  PROVE  HalfDone'
PROOF
<1>1. \A c \in Call : <<"cancel", c>>[1] = "cancel" /\ <<"timeout", c>>[1] = "timeout"
  OBVIOUS
<1> QED
  BY <1>1 DEF Inv, HalfDone

(* The steps a call takes on its own way: where from, and where to.        *)
Moves(c, l) ==
  \/ Kind[c] \in Sleeps /\ pc[c] = "queued" /\ l = "timer"
  \/ Kind[c] \in Sleeps /\ pc[c] = "timer" /\ l = "wait"
  \/ Kind[c] \in Sleeps /\ pc[c] = "wait" /\ ~flag[c] /\ l = "done"
  \/ IsIO(c) /\ pc[c] = "queued" /\ l \in {"done", "add"}
  \/ IsIO(c) /\ pc[c] = "arm" /\ l = "wait"
  \/ IsIO(c) /\ pc[c] = "wait" /\ ~flag[c] /\ l \in {"finish", "arm"}
  \/ Kind[c] = "connect" /\ pc[c] = "queued" /\ l \in {"done", "add"}
  \/ Kind[c] = "connect" /\ pc[c] = "leave" /\ l = "done"

LEMMA KindsDiffer ==
  ASSUME NEW c \in Call
  PROVE  /\ Kind[c] = "sleep" => Kind[c] \in Sleeps
         /\ ~(Kind[c] \in Sleeps /\ IsIO(c))
         /\ Kind[c] = "connect" => ~IsIO(c) /\ Kind[c] \notin Sleeps
         /\ Kind[c] = "close" => ~IsIO(c) /\ Kind[c] \notin Sleeps /\ Kind[c] # "connect"
         /\ Kind[c] \in Sleeps \cup {"connect", "close"} \/ IsIO(c)
         /\ Ev(c) \in Event /\ Target[c] \in Fd
BY HookAssumption DEF IsIO, Sleeps, Ev, Event

(* Such a step keeps the invariant, whatever else it does of what is listed*)
(* here: a timer may be added as the call begins, or taken out.            *)
LEMMA MovesInv ==
  ASSUME Inv, fault = NoFault, NEW c \in Call, NEW l, Moves(c, l),
         pc' = [pc EXCEPT ![c] = l],
         timers' \subseteq timers \/ (pc[c] = "queued" /\ l # "done" /\ timers' = timers \cup {c}),
         due' \in [Call -> Deadline \cup {NoDeadline}], lost' \subseteq Call,
         flag' \in {flag, [flag EXCEPT ![c] = TRUE]},
         ready' \in [Fd -> SUBSET Event],
         doing' \in [Worker -> {"run", "call", "cancel", "timeout"} \X (Call \cup {NoCall})],
         \A w \in Worker : doing'[w] = doing[w] \/ doing'[w][1] \in {"run", "call"},
         UNCHANGED <<expired, cancelled, eventVars, taskVars, closed, arrivals, fault>>
  PROVE  Inv'
PROOF
<1> USE DEF eventVars, taskVars
<1>1. /\ pc'[c] = l /\ \A d \in Call : d # c => pc'[d] = pc[d]
      /\ l \notin {"absent", "queued"}
      /\ \A d \in Call : Begun(d) => Begun(d)'
  BY DEF Inv, TypeOK, Moves
<1>2. flag' \in [Call -> BOOLEAN] /\ \A d \in Call : flag[d] => flag'[d]
  BY DEF Inv, TypeOK
<1>2a. \A d \in Call : flag'[d] = flag[d] \/ (d = c /\ flag'[d] = TRUE)
  BY DEF Inv, TypeOK
<1>3. TypeOK'
  <2>1. l \in {"timer", "add", "arm", "wait", "finish", "done"}
    BY DEF Moves
  <2>2. timers' \subseteq Call
    BY DEF Inv, TypeOK
  <2> QED
    BY <1>2, <2>1, <2>2 DEF Inv, TypeOK
<1>4. ByKind'
  BY <1>1, KindsDiffer DEF Inv, ByKind, Moves, IsIO
<1>5. Fresh'
  BY <1>1, <1>2, KindsDiffer DEF Inv, Fresh, Moves
<1>6. Registered'
  <2> SUFFICES ASSUME NEW f \in Fd, NEW e \in Event, slot[f][e] # NoCall
               PROVE  Owned(slot[f][e], f, e)'
    BY DEF Inv, Registered
  <2>1. PICK d \in Call : d = slot[f][e]
    BY DEF Inv, TypeOK
  <2>2. Owned(d, f, e)
    BY <2>1 DEF Inv, Registered
  <2>3. Owned(d, f, e)'
    BY <1>1, <2>2, KindsDiffer DEF Owned, Moves, IsIO, Ev
  <2> QED
    BY <2>1, <2>3 DEF Owned
<1>7. HalfDone'
  BY <1>1, HalfDoneStays
<1>8. Counted'
  <2>1. ASSUME NEW d \in Call, Early(d)' PROVE Early(d)
    BY <1>1, <2>1 DEF Moves, Early
  <2> QED
    BY <2>1, CountedStays, EventsKept
<1>9. WaitsAnswered'
  <2> SUFFICES ASSUME NEW d \in Call, IsIO(d)
               PROVE  /\ ~flag'[d] \/ pc'[d] = "finish" => Answered(d)'
                      /\ pc'[d] = "done" => Answered(d)' \/ triggered[d] = 0
    BY DEF WaitsAnswered, IsIO
  <2>1. Answered(d) => Answered(d)'
    BY <1>1, AnsweredStays
  <2>2. ~flag[d] \/ pc[d] = "finish" => Answered(d)
    BY DEF Inv, WaitsAnswered
  <2>3. CASE d # c
    BY <1>1, <1>2a, <2>1, <2>3 DEF Inv, WaitsAnswered
  <2>4. CASE d = c
    <3>1. pc[d] = "queued" => triggered[d] = 0
      BY DEF Inv, Counted, Early
    <3>2. l = "finish" => Answered(d)
      BY <2>2, <2>4 DEF Moves
    <3>3. l = "done" => triggered[d] = 0
      BY <2>4, <3>1, KindsDiffer DEF Moves
    <3> QED
      BY <1>1, <1>2a, <2>1, <2>2, <2>4, <3>2, <3>3
  <2> QED
    BY <2>3, <2>4
<1>10. SleepTimers'
  <2> SUFFICES ASSUME NEW d \in Call, Kind[d] = "sleep"
               PROVE  /\ d \in timers' \cup expired => pc'[d] \in {"timer", "wait"} /\ flag'[d]
                      /\ d \notin timers' \cap expired
    BY DEF SleepTimers
  <2>1. CASE d # c
    BY <1>1, <1>2, <2>1 DEF Inv, SleepTimers
  <2>2. CASE d = c /\ pc[c] = "queued"
    <3>1. l = "timer" /\ flag[c] /\ c \notin timers \cup expired
      BY <2>2, KindsDiffer DEF Moves, Inv, Fresh
    <3> QED
      BY <1>1, <1>2, <2>2, <3>1
  <2>3. CASE d = c /\ pc[c] # "queued"
    BY <1>1, <1>2, <2>3, KindsDiffer DEF Moves, Inv, SleepTimers
  <2> QED
    BY <2>1, <2>2, <2>3
<1>11. FaultCauses'
  BY DEF FaultCauses
<1> QED
  BY <1>3, <1>4, <1>5, <1>6, <1>7, <1>8, <1>9, <1>10, <1>11 DEF Inv

-----------------------------------------------------------------------------
(* The kernel, and a worker that polls.                                    *)

LEMMA ArriveInv ==
  ASSUME Inv, fault = NoFault, NEW f \in Fd, NEW e \in Event, Arrive(f, e)
  PROVE  Inv'
PROOF
<1>1. /\ arrivals < MaxArrivals /\ arrivals' = arrivals + 1
      /\ ready' = [ready EXCEPT ![f] = @ \cup {e}]
      /\ edge' = [edge EXCEPT ![f] = @ \/ interest[f] = e]
      /\ UNCHANGED <<pc, doing, flag, timerVars, interest, slot, taskVars, closed, fault>>
  BY DEF Arrive
<1> USE HookAssumption DEF timerVars, taskVars
<1>2. TypeOK'
  <2>1. arrivals' \in 0 .. MaxArrivals
    BY <1>1 DEF Inv, TypeOK
  <2>2. ready' \in [Fd -> SUBSET Event] /\ edge' \in [Fd -> BOOLEAN]
    BY <1>1 DEF Inv, TypeOK
  <2> QED
    BY <1>1, <2>1, <2>2 DEF Inv, TypeOK
<1>3. ByKind' /\ Fresh' /\ HalfDone' /\ SleepTimers' /\ FaultCauses'
  BY <1>1 DEF Inv, ByKind, Fresh, HalfDone, SleepTimers, FaultCauses, IsIO
<1>4. Registered'
  BY <1>1 DEF Inv, Registered, Owned, Ev, IsIO
<1>5. Counted'
  <2>1. \A c \in Call : triggered[c] \in Nat /\ arrivals \in Nat
    BY CountersAre
  <2> QED
    BY <1>1, <2>1 DEF Inv, Counted
<1>6. WaitsAnswered'
  BY <1>1 DEF Inv, WaitsAnswered, Answered, Meets, IsIO
<1> QED
  BY <1>2, <1>3, <1>4, <1>5, <1>6 DEF Inv

LEMMA PollEdgesInv ==
  ASSUME Inv, fault = NoFault, NEW w \in Worker, PollEdges(w)
  PROVE  Inv'
PROOF
<1> DEFINE woken == UNION {Woken(f) : f \in Fd}
<1>1. PICK W : W = woken
  OBVIOUS
<1>2. /\ edge' = [f \in Fd |-> FALSE] /\ UNCHANGED slot
      /\ wakes' = [c \in Call |-> wakes[c] + IF c \in W THEN 1 ELSE 0]
      /\ triggered' = [c \in Call |-> triggered[c] + IF c \in W THEN 1 ELSE 0]
      /\ UNCHANGED <<pc, doing, flag, timerVars, interest, netVars, fault>>
  BY <1>1 DEF PollEdges, AfterEdges
<1>3. \A c \in Call : c \in W =>
        /\ Signalled(c)
        /\ \/ IsIO(c) /\ pc[c] \in {"arm", "wait", "finish"}
           \/ Kind[c] = "connect" /\ pc[c] \in {"leave", "done"}
  <2> SUFFICES ASSUME NEW c \in Call, c \in W
               PROVE  /\ Signalled(c)
                      /\ \/ IsIO(c) /\ pc[c] \in {"arm", "wait", "finish"}
                         \/ Kind[c] = "connect" /\ pc[c] \in {"leave", "done"}
    OBVIOUS
  <2>1. PICK f \in Fd : c \in Woken(f)
    BY <1>1
  <2>2. /\ edge[f] /\ interest[f] \in ready[f]
        /\ slot[f][interest[f]] = c /\ c # NoCall
    BY <2>1 DEF Woken
  <2>3. PICK e \in Event : e = interest[f]
    BY <2>2 DEF Inv, TypeOK
  <2>4. slot[f][e] = c
    BY <2>2, <2>3
  <2>5. Owned(slot[f][e], f, e)
    BY <2>2, <2>4 DEF Inv, Registered
  <2>6. Owned(c, f, e)
    BY <2>4, <2>5
  <2> QED
    BY <2>2, <2>3, <2>4, <2>6 DEF Owned, Signalled
<1> HIDE DEF woken
<1> USE HookAssumption DEF timerVars, netVars
<1>4. \A c \in Call :
        /\ wakes[c] \in Nat /\ triggered[c] \in Nat /\ arrivals \in 0 .. MaxArrivals
        /\ wakes[c] <= triggered[c] /\ triggered[c] <= arrivals + 1
        /\ Signalled(c) => triggered[c] <= arrivals
  BY CountersAre DEF Inv, Counted, TypeOK
<1>5. \A c \in Call : \/ c \in W /\ wakes'[c] = wakes[c] + 1 /\ triggered'[c] = triggered[c] + 1
                      \/ c \notin W /\ wakes'[c] = wakes[c] /\ triggered'[c] = triggered[c]
  BY <1>2, <1>4
<1>6. TypeOK'
  <2>1. \A c \in Call : wakes'[c] \in 0 .. MaxArrivals + 1 /\ triggered'[c] \in 0 .. MaxArrivals + 1
    BY <1>3, <1>4, <1>5
  <2>2. /\ wakes' \in [Call -> 0 .. MaxArrivals + 1]
        /\ triggered' \in [Call -> 0 .. MaxArrivals + 1]
    BY <1>2, <2>1
  <2>3. edge' \in [Fd -> BOOLEAN]
    BY <1>2
  <2> QED
    BY <1>2, <2>2, <2>3 DEF Inv, TypeOK
<1>7. ByKind' /\ Fresh' /\ HalfDone' /\ SleepTimers'
  BY <1>2 DEF Inv, ByKind, Fresh, HalfDone, SleepTimers, IsIO
<1>8. Registered'
  BY <1>2 DEF Inv, Registered, Owned, Ev, IsIO
<1>9. Counted'
  <2>1. \A c \in Call : ~Signalled(c)'
    BY <1>2, KindsDiffer DEF Signalled
  <2>2. \A c \in Call : wakes'[c] <= triggered'[c] /\ triggered'[c] <= arrivals + 1
    BY <1>3, <1>4, <1>5
  <2>3. \A c \in Call :
          Early(c) \/ Kind[c] \in Sleeps \cup {"close"} =>
            c \notin W /\ triggered[c] = 0
    BY <1>3, KindsDiffer DEF Inv, Counted
  <2> QED
    BY <1>2, <1>5, <2>1, <2>2, <2>3 DEF Counted
<1>10. WaitsAnswered'
  <2> SUFFICES ASSUME NEW c \in Call, IsIO(c)
               PROVE  /\ ~flag[c] \/ pc[c] = "finish" => Answered(c)'
                      /\ pc[c] = "done" => Answered(c)' \/ triggered'[c] = 0
    BY <1>2 DEF WaitsAnswered, IsIO
  <2>1. Answered(c) => Answered(c)'
    <3>1. \A d \in Call : wakes[d] < triggered[d] => wakes'[d] < triggered'[d]
      BY <1>4, <1>5
    <3> QED
      BY <1>2, <3>1, AnsweredStays
  <2>2. pc[c] = "done" => c \notin W
    BY <1>3, KindsDiffer
  <2> QED
    BY <1>5, <2>1, <2>2 DEF Inv, WaitsAnswered
<1>11. FaultCauses'
  BY <1>2 DEF FaultCauses
<1> QED
  BY <1>6, <1>7, <1>8, <1>9, <1>10, <1>11 DEF Inv

LEMMA PollTimerInv ==
  ASSUME Inv, fault = NoFault, NEW w \in Worker, NEW c \in Call, PollTimer(w, c)
  PROVE  Inv'
PROOF
<1>1. /\ c \in timers
      /\ timers' = timers \ {c} /\ expired' = expired \cup {c}
      /\ UNCHANGED <<pc, doing, flag, due, lost, cancelled, eventVars, taskVars, netVars, fault>>
  BY DEF PollTimer
<1> USE DEF eventVars, taskVars, netVars
<1>2. TypeOK'
  BY <1>1 DEF Inv, TypeOK
<1>3. ByKind' /\ Fresh' /\ HalfDone' /\ SleepTimers' /\ FaultCauses'
  BY <1>1 DEF Inv, ByKind, Fresh, HalfDone, SleepTimers, FaultCauses, IsIO
<1>4. Registered'
  BY <1>1 DEF Inv, Registered, Owned, Ev, IsIO
<1>5. Counted'
  BY <1>1, CountedStays, EventsKept
<1>6. WaitsAnswered'
  BY <1>1 DEF Inv, WaitsAnswered, Answered, Meets, IsIO
<1> QED
  BY <1>2, <1>3, <1>4, <1>5, <1>6 DEF Inv

-----------------------------------------------------------------------------
(* The calls.                                                              *)

(* What addTimer() does to the set, refused or not.                        *)
LEMMA AddTimerIs ==
  ASSUME TypeOK, NEW c \in Call, AddTimer(c)
  PROVE  /\ timers' \in {timers, timers \cup {c}} /\ lost' \subseteq Call
         /\ due' \in [Call -> Deadline \cup {NoDeadline}]
PROOF
<1>1. PICK t \in Deadline :
        /\ due' = [due EXCEPT ![c] = t]
        /\ \/ lost' = lost \cup {c} /\ timers' = timers
           \/ lost' = lost /\ timers' = timers \cup {c}
  BY DEF AddTimer
<1> QED
  BY <1>1 DEF TypeOK

(* What a call reads leaves the kernel's readiness, and a worker that      *)
(* enters or leaves a call is in one: types are kept.                      *)
LEMMA ReadyTyped ==
  ASSUME TypeOK, NEW f \in Fd, NEW e
  PROVE  [ready EXCEPT ![f] = @ \ {e}] \in [Fd -> SUBSET Event]
PROOF
<1>1. ready \in [Fd -> SUBSET Event]
  BY DEF TypeOK
<1>2. ready[f] \ {e} \in SUBSET Event
  BY <1>1
<1> QED
  BY <1>1, <1>2

LEMMA DoingTyped ==
  ASSUME TypeOK, NEW w \in Worker, NEW c \in Call \cup {NoCall},
         NEW what \in {"run", "call"}
  PROVE  LET next == [doing EXCEPT ![w] = <<what, c>>]
         IN  /\ next \in [Worker -> {"run", "call", "cancel", "timeout"} \X (Call \cup {NoCall})]
             /\ \A v \in Worker : next[v] = doing[v] \/ next[v][1] \in {"run", "call"}
PROOF
<1>1. doing \in [Worker -> {"run", "call", "cancel", "timeout"} \X (Call \cup {NoCall})]
  BY DEF TypeOK
<1>2. <<what, c>> \in {"run", "call", "cancel", "timeout"} \X (Call \cup {NoCall})
  OBVIOUS
<1>3. <<what, c>>[1] \in {"run", "call"}
  OBVIOUS
<1> QED
  BY <1>1, <1>2, <1>3

LEMMA BeginInv ==
  ASSUME Inv, fault = NoFault, NEW w \in Worker, NEW c \in Call, Begin(w, c)
  PROVE  Inv'
PROOF
<1>1. PICK l \in {"timer", "add", "done"} :
        /\ Moves(c, l) /\ pc[c] = "queued" /\ pc' = [pc EXCEPT ![c] = l]
        /\ \/ l # "done" /\ AddTimer(c) /\ ready' = ready
              /\ doing' = [doing EXCEPT ![w] = <<"call", c>>]
           \/ l = "done" /\ UNCHANGED timerSet /\ doing' = doing
              /\ ready' = [ready EXCEPT ![Target[c]] = @ \ {Ev(c)}]
  BY DEF Begin, Goto, Does, Consume, Moves
<1>1a. /\ timers' \subseteq timers \/ (l # "done" /\ timers' = timers \cup {c})
       /\ due' \in [Call -> Deadline \cup {NoDeadline}] /\ lost' \subseteq Call
  BY <1>1, AddTimerIs DEF timerSet, Inv, TypeOK
<1>2. UNCHANGED <<flag, expired, cancelled, eventVars, taskVars, closed, arrivals, fault>>
  BY DEF Begin
<1>3. ready' \in [Fd -> SUBSET Event]
  <2>1. Target[c] \in Fd /\ TypeOK
    BY KindsDiffer DEF Inv
  <2>2. ready \in [Fd -> SUBSET Event]
    BY <2>1 DEF TypeOK
  <2> QED
    BY <1>1, <2>1, <2>2, ReadyTyped
<1>4. /\ doing' \in [Worker -> {"run", "call", "cancel", "timeout"} \X (Call \cup {NoCall})]
      /\ \A v \in Worker : doing'[v] = doing[v] \/ doing'[v][1] \in {"run", "call"}
  <2>1. TypeOK
    BY DEF Inv
  <2>2. doing \in [Worker -> {"run", "call", "cancel", "timeout"} \X (Call \cup {NoCall})]
    BY <2>1 DEF TypeOK
  <2> QED
    BY <1>1, <2>1, <2>2, DoingTyped
<1> QED
  BY <1>1, <1>1a, <1>2, <1>3, <1>4, MovesInv

LEMMA AssignInv ==
  ASSUME Inv, fault = NoFault, NEW w \in Worker, NEW c \in Call, Assign(w, c)
  PROVE  Inv'
PROOF
<1>1. Kind[c] \in Sleeps
  BY KindsDiffer DEF Assign, In, Inv, ByKind
<1>2. Moves(c, "wait") /\ pc' = [pc EXCEPT ![c] = "wait"]
  BY <1>1 DEF Assign, In, Goto, Moves
<1> QED
  BY <1>2, MovesInv DEF Assign, timerVars, netVars, Inv, TypeOK

LEMMA ArmInv ==
  ASSUME Inv, fault = NoFault, NEW w \in Worker, NEW c \in Call, Arm(w, c)
  PROVE  Inv'
PROOF
<1>1. IsIO(c)
  BY KindsDiffer DEF Arm, In, Inv, ByKind
<1>2. Moves(c, "wait") /\ pc' = [pc EXCEPT ![c] = "wait"]
  BY <1>1 DEF Arm, In, Goto, Moves
<1> QED
  BY <1>2, MovesInv DEF Arm, timerVars, netVars, Inv, TypeOK

LEMMA ResumeInv ==
  ASSUME Inv, fault = NoFault, NEW w \in Worker, NEW c \in Call, Resume(w, c)
  PROVE  Inv'
PROOF
<1>1. PICK l \in {"done", "finish", "arm"} :
        /\ Moves(c, l) /\ pc' = [pc EXCEPT ![c] = l]
        /\ doing' = doing \/ doing' = [doing EXCEPT ![w] = <<"run", NoCall>>]
        /\ ready' = ready \/ ready' = [ready EXCEPT ![Target[c]] = @ \ {Ev(c)}]
  BY DEF Resume, MayResume, In, Goto, Does, Leave, Consume, Moves
<1>2. UNCHANGED <<flag, timerVars, eventVars, taskVars, closed, arrivals, fault>>
  BY DEF Resume
<1>3. ready' \in [Fd -> SUBSET Event]
  <2>1. Target[c] \in Fd /\ TypeOK
    BY KindsDiffer DEF Inv
  <2>2. ready \in [Fd -> SUBSET Event]
    BY <2>1 DEF TypeOK
  <2> QED
    BY <1>1, <2>1, <2>2, ReadyTyped
<1>4. /\ doing' \in [Worker -> {"run", "call", "cancel", "timeout"} \X (Call \cup {NoCall})]
      /\ \A v \in Worker : doing'[v] = doing[v] \/ doing'[v][1] \in {"run", "call"}
  <2>1. TypeOK
    BY DEF Inv
  <2>2. doing \in [Worker -> {"run", "call", "cancel", "timeout"} \X (Call \cup {NoCall})]
    BY <2>1 DEF TypeOK
  <2> QED
    BY <1>1, <2>1, <2>2, DoingTyped
<1>5. due' \in [Call -> Deadline \cup {NoDeadline}] /\ lost' \subseteq Call
  BY <1>2 DEF timerVars, Inv, TypeOK
<1> QED
  BY <1>1, <1>2, <1>3, <1>4, <1>5, MovesInv DEF timerVars

LEMMA ConnectInv ==
  ASSUME Inv, fault = NoFault, NEW w \in Worker, NEW c \in Call, Connect(w, c)
  PROVE  Inv'
PROOF
<1>1. PICK l \in {"done", "add"} :
        /\ Moves(c, l) /\ pc' = [pc EXCEPT ![c] = l]
        /\ \/ doing' = doing
           \/ doing' = [doing EXCEPT ![w] = <<"run", NoCall>>]
           \/ doing' = [doing EXCEPT ![w] = <<"call", c>>]
        /\ \/ UNCHANGED timerSet
           \/ CancelTimer(c)
           \/ pc[c] = "queued" /\ l # "done" /\ AddTimer(c)
  BY DEF Connect, In, Goto, Does, Leave, Moves
<1>1a. /\ timers' \subseteq timers
            \/ (pc[c] = "queued" /\ l # "done" /\ timers' = timers \cup {c})
       /\ due' \in [Call -> Deadline \cup {NoDeadline}] /\ lost' \subseteq Call
  BY <1>1, AddTimerIs DEF CancelTimer, timerSet, Inv, TypeOK
<1>2. UNCHANGED <<flag, expired, cancelled, eventVars, taskVars, netVars, fault>>
  BY DEF Connect
<1>3. /\ doing' \in [Worker -> {"run", "call", "cancel", "timeout"} \X (Call \cup {NoCall})]
      /\ \A v \in Worker : doing'[v] = doing[v] \/ doing'[v][1] \in {"run", "call"}
  <2>1. TypeOK
    BY DEF Inv
  <2>2. doing \in [Worker -> {"run", "call", "cancel", "timeout"} \X (Call \cup {NoCall})]
    BY <2>1 DEF TypeOK
  <2> QED
    BY <1>1, <2>1, <2>2, DoingTyped
<1>4. ready' \in [Fd -> SUBSET Event] /\ UNCHANGED <<closed, arrivals>>
  BY <1>2 DEF Inv, TypeOK, netVars
<1> QED
  BY <1>1, <1>1a, <1>2, <1>3, <1>4, MovesInv

(* addEvent(): the call's own callback is in the slot from now on, and no  *)
(* other one of its kind is.                                               *)
LEMMA AddEventInv ==
  ASSUME Inv, fault = NoFault, NEW w \in Worker, NEW c \in Call, NEW next,
         \/ IsIO(c) /\ next = "arm"
         \/ Kind[c] = "connect" /\ next = "leave",
         AddEvent(w, c, next)
  PROVE  Inv'
PROOF
<1> USE HookAssumption DEF timerVars, taskVars, netVars
<1>1. PICK f \in Fd : f = Target[c]
  BY KindsDiffer
<1>2. PICK e \in Event : e = Ev(c)
  BY KindsDiffer
<1>3. /\ pc[c] = "add" /\ pc' = [pc EXCEPT ![c] = next]
      /\ UNCHANGED <<doing, flag, timerVars, taskVars, netVars, fault>>
      /\ \/ UNCHANGED eventVars
         \/ /\ interest' = [interest EXCEPT ![f] = e]
            /\ slot' = [slot EXCEPT ![f][e] = c]
            /\ edge' = [edge EXCEPT ![f] = @ \/ e \in ready[f]]
  BY <1>1, <1>2 DEF AddEvent, In, Goto
<1> USE DEF eventVars
<1>4. /\ pc'[c] = next /\ \A d \in Call : d # c => pc'[d] = pc[d]
      /\ next \in {"arm", "leave"}
  BY <1>3 DEF Inv, TypeOK
<1>5. \A d \in Call : Begun(d) => Begun(d)'
  BY <1>4
<1>6. TypeOK'
  <2>1. interest' \in [Fd -> Event \cup {"NONE"}]
    <3>1. interest \in [Fd -> Event \cup {"NONE"}]
      BY DEF Inv, TypeOK
    <3> QED
      BY <1>3, <3>1
  <2>2. edge' \in [Fd -> BOOLEAN]
    <3>1. (edge[f] \/ e \in ready[f]) \in BOOLEAN
      OBVIOUS
    <3> QED
      BY <1>3, <3>1 DEF Inv, TypeOK
  <2>3. slot' \in [Fd -> [Event -> Call \cup {NoCall}]]
    <3>1. [slot EXCEPT ![f][e] = c] \in [Fd -> [Event -> Call \cup {NoCall}]]
      BY DEF Inv, TypeOK
    <3> QED
      BY <1>3, <3>1 DEF Inv, TypeOK
  <2> QED
    BY <1>3, <1>4, <2>1, <2>2, <2>3 DEF Inv, TypeOK
<1>7. ByKind'
  BY <1>4, KindsDiffer DEF Inv, ByKind, IsIO
<1>8. Fresh' /\ FaultCauses'
  BY <1>3, <1>4 DEF Inv, Fresh, FaultCauses
<1>9. Registered'
  <2>1. ASSUME NEW g \in Fd, NEW x \in Event, NEW d \in Call, Owned(d, g, x)
        PROVE  Owned(d, g, x)'
    BY <1>3, <1>4, <2>1, KindsDiffer DEF Owned, IsIO, Ev
  <2>2. Owned(c, f, e)'
    BY <1>1, <1>2, <1>4 DEF Owned, IsIO, Ev
  <2>3. /\ \A g \in Fd, x \in Event :
             slot'[g][x] = slot[g][x] \/ (g = f /\ x = e /\ slot'[g][x] = c)
        /\ \A g \in Fd :
             interest'[g] = interest[g] \/ (g = f /\ interest'[g] = e /\ slot'[f][e] = c)
    BY <1>3 DEF Inv, TypeOK
  <2>4. ASSUME NEW g \in Fd, NEW x \in Event, NEW d \in Call, d = slot'[g][x]
        PROVE  Owned(d, g, x)'
    <3>1. CASE slot'[g][x] = slot[g][x]
      <4>1. slot[g][x] = d /\ slot[g][x] # NoCall
        BY <2>4, <3>1
      <4>2. Owned(slot[g][x], g, x)
        BY <4>1 DEF Inv, Registered
      <4>3. Owned(d, g, x)
        BY <4>1, <4>2
      <4> QED
        BY <2>1, <4>3
    <3>2. CASE g = f /\ x = e /\ slot'[g][x] = c
      BY <2>2, <2>4, <3>2
    <3> QED
      BY <2>3, <3>1, <3>2
  <2>5. \A g \in Fd, x \in Event : slot'[g][x] # NoCall =>
          \E d \in Call : d = slot'[g][x] /\ Owned(d, g, x)'
    BY <1>6, <2>4 DEF TypeOK
  <2>6. \A g \in Fd : interest'[g] # "NONE" => slot'[g][interest'[g]] # NoCall
    <3> SUFFICES ASSUME NEW g \in Fd, interest'[g] # "NONE"
                 PROVE  slot'[g][interest'[g]] # NoCall
      OBVIOUS
    <3>1. PICK x \in Event : x = interest'[g]
      BY <1>6 DEF TypeOK
    <3>2. CASE interest'[g] = interest[g]
      <4>1. slot[g][x] # NoCall
        BY <3>1, <3>2 DEF Inv, Registered
      <4> QED
        BY <2>3, <3>1, <4>1, HookAssumption
    <3>3. CASE g = f /\ interest'[g] = e /\ slot'[f][e] = c
      BY <3>3, HookAssumption
    <3> QED
      BY <2>3, <3>2, <3>3
  <2> QED
    BY <2>5, <2>6 DEF Registered, Owned
<1>10. HalfDone'
  BY <1>3, <1>5, HalfDoneStays
<1>11. Counted'
  <2>1. triggered[c] = 0 /\ arrivals \in Nat
    BY <1>3, CountersAre DEF Inv, Counted
  <2>2. ASSUME NEW d \in Call, d # c, Signalled(d)' PROVE Signalled(d)
    <3>1. Target[d] \in Fd /\ Ev(d) \in Event
      BY KindsDiffer
    <3>2. CASE UNCHANGED eventVars
      BY <2>2, <3>2, EventsKept
    <3>3. CASE Target[d] # f
      BY <1>3, <2>2, <3>1, <3>2, <3>3 DEF Signalled, Ev, Inv, TypeOK
    <3>4. CASE Target[d] = f /\ ~UNCHANGED eventVars
      <4>1. interest'[f] = e /\ slot'[f][e] = c
        BY <1>3, <3>4 DEF Inv, TypeOK
      <4> QED
        BY <2>2, <3>4, <4>1 DEF Signalled, Ev
    <3> QED
      BY <3>2, <3>3, <3>4
  <2> QED
    BY <1>3, <1>4, <2>1, <2>2 DEF Inv, Counted
<1>12. WaitsAnswered'
  <2>1. \A d \in Call : Answered(d) => Answered(d)'
    BY <1>3, <1>5, AnsweredStays
  <2> QED
    BY <1>3, <1>4, <2>1 DEF Inv, WaitsAnswered, IsIO
<1>13. SleepTimers'
  BY <1>3, <1>4, KindsDiffer DEF Inv, SleepTimers
<1> QED
  BY <1>6, <1>7, <1>8, <1>9, <1>10, <1>11, <1>12, <1>13 DEF Inv

(* Taking a descriptor's events out leaves the callbacks of the others.    *)
LEMMA ErasedEvents ==
  ASSUME Inv, NEW f \in Fd, EraseEvents(f),
         \A d \in Call : \/ pc'[d] = pc[d]
                         \/ Target[d] = f /\ IsIO(d)
                         \/ Kind[d] = "close"
  PROVE  /\ interest' \in [Fd -> Event \cup {"NONE"}]
         /\ slot' \in [Fd -> [Event -> Call \cup {NoCall}]]
         /\ edge' \in [Fd -> BOOLEAN]
         /\ Registered'
         /\ \A d \in Call : Signalled(d)' => Signalled(d)
PROOF
<1>1. /\ interest' \in [Fd -> Event \cup {"NONE"}] /\ edge' \in [Fd -> BOOLEAN]
      /\ slot' \in [Fd -> [Event -> Call \cup {NoCall}]]
      /\ slot'[f] = NoSlots /\ \A g \in Fd : g # f => slot'[g] = slot[g]
      /\ interest'[f] = "NONE" /\ \A g \in Fd : g # f => interest'[g] = interest[g]
      /\ ~edge'[f] /\ \A g \in Fd : g # f => edge'[g] = edge[g]
  BY DEF EraseEvents, NoSlots, Inv, TypeOK
<1>2. Registered'
  <2>1. ASSUME NEW g \in Fd, NEW x \in Event, NEW d \in Call, d = slot'[g][x], d # NoCall
        PROVE  Owned(d, g, x)'
    <3>1. g # f /\ slot[g][x] = d
      BY <1>1, <2>1 DEF NoSlots
    <3>2. Owned(slot[g][x], g, x)
      BY <2>1, <3>1 DEF Inv, Registered
    <3>3. Owned(d, g, x)
      BY <3>1, <3>2
    <3>4. pc'[d] = pc[d]
      BY <3>1, <3>3, KindsDiffer DEF Owned
    <3> QED
      BY <3>3, <3>4 DEF Owned, IsIO, Ev
  <2>2. \A g \in Fd, x \in Event : slot'[g][x] # NoCall =>
          \E d \in Call : d = slot'[g][x] /\ Owned(d, g, x)'
    BY <1>1, <2>1
  <2>3. ASSUME NEW g \in Fd, interest'[g] # "NONE" PROVE slot'[g][interest'[g]] # NoCall
    BY <1>1, <2>3 DEF Inv, Registered
  <2> QED
    BY <2>2, <2>3 DEF Registered, Owned
<1>3. ASSUME NEW d \in Call, Signalled(d)' PROVE Signalled(d)
  <2>1. Target[d] \in Fd
    BY KindsDiffer
  <2> QED
    BY <1>1, <1>3, <2>1 DEF Signalled, Ev
<1> QED
  BY <1>1, <1>2, <1>3

(* The steps of a call that end what is registered for its descriptor.     *)
LEMMA ErasesInv ==
  ASSUME Inv, fault = NoFault, NEW c \in Call, NEW l,
         \/ IsIO(c) /\ pc[c] = "finish" /\ l = "done"
         \/ Kind[c] = "close" /\ pc[c] \in {"queued", "closing"} /\ l \in {"closing", "done"},
         pc' = [pc EXCEPT ![c] = l],
         EraseEvents(Target[c]),
         closed' \subseteq Fd,
         doing' \in [Worker -> {"run", "call", "cancel", "timeout"} \X (Call \cup {NoCall})],
         \A w \in Worker : doing'[w] = doing[w] \/ doing'[w][1] \in {"run", "call"},
         UNCHANGED <<flag, timerVars, taskVars, ready, arrivals, fault>>
  PROVE  Inv'
PROOF
<1> USE DEF timerVars, taskVars
<1>1. /\ pc'[c] = l /\ \A d \in Call : d # c => pc'[d] = pc[d]
      /\ l \in {"closing", "done"}
      /\ \A d \in Call : Begun(d) => Begun(d)'
  BY DEF Inv, TypeOK
<1>2. /\ interest' \in [Fd -> Event \cup {"NONE"}]
      /\ slot' \in [Fd -> [Event -> Call \cup {NoCall}]]
      /\ edge' \in [Fd -> BOOLEAN]
      /\ Registered'
      /\ \A d \in Call : Signalled(d)' => Signalled(d)
  <2>1. Target[c] \in Fd
    BY KindsDiffer
  <2> QED
    BY <1>1, <2>1, ErasedEvents
<1>3. TypeOK'
  BY <1>1, <1>2 DEF Inv, TypeOK
<1>4. ByKind'
  BY <1>1, KindsDiffer DEF Inv, ByKind, IsIO
<1>5. Fresh' /\ FaultCauses'
  BY <1>1 DEF Inv, Fresh, FaultCauses
<1>6. HalfDone'
  BY <1>1, HalfDoneStays
<1>7. Counted'
  BY <1>1, <1>2, CountedStays
<1>8. WaitsAnswered'
  <2>1. \A d \in Call : Answered(d) => Answered(d)'
    BY <1>1, AnsweredStays
  <2> QED
    BY <1>1, <2>1, KindsDiffer DEF Inv, WaitsAnswered, IsIO
<1>9. SleepTimers'
  BY <1>1, KindsDiffer DEF Inv, SleepTimers
<1> QED
  BY <1>2, <1>3, <1>4, <1>5, <1>6, <1>7, <1>8, <1>9 DEF Inv

LEMMA FinishInv ==
  ASSUME Inv, fault = NoFault, NEW w \in Worker, NEW c \in Call, Finish(w, c)
  PROVE  Inv'
PROOF
<1>1. /\ pc[c] = "finish" /\ pc' = [pc EXCEPT ![c] = "done"]
      /\ doing' = [doing EXCEPT ![w] = <<"run", NoCall>>]
      /\ EraseEvents(Target[c])
      /\ UNCHANGED <<flag, timerVars, taskVars, netVars, fault>>
  BY DEF Finish, In, Leave, Goto, Does
<1>2. IsIO(c)
  BY <1>1, KindsDiffer DEF Inv, ByKind
<1>3. /\ doing' \in [Worker -> {"run", "call", "cancel", "timeout"} \X (Call \cup {NoCall})]
      /\ \A v \in Worker : doing'[v] = doing[v] \/ doing'[v][1] \in {"run", "call"}
      /\ closed' \subseteq Fd /\ UNCHANGED <<ready, arrivals>>
  BY <1>1 DEF Inv, TypeOK, netVars
<1> QED
  BY <1>1, <1>2, <1>3, ErasesInv

LEMMA CloseInv ==
  ASSUME Inv, fault = NoFault, NEW w \in Worker, NEW c \in Call, Close(w, c)
  PROVE  Inv'
PROOF
<1>1. Kind[c] = "close" /\ Target[c] \in Fd
  BY KindsDiffer DEF Close
<1>2. PICK l \in {"closing", "done"} :
        /\ pc[c] \in {"queued", "closing"} /\ pc' = [pc EXCEPT ![c] = l]
        /\ \/ doing' = [doing EXCEPT ![w] = <<"run", NoCall>>]
           \/ doing' = [doing EXCEPT ![w] = <<"call", c>>]
        /\ closed' \subseteq closed \cup {Target[c]}
  BY DEF Close, In, Leave, Goto, Does
<1>3. /\ EraseEvents(Target[c])
      /\ UNCHANGED <<flag, timerVars, taskVars, ready, arrivals, fault>>
  BY DEF Close
<1>4. /\ doing' \in [Worker -> {"run", "call", "cancel", "timeout"} \X (Call \cup {NoCall})]
      /\ \A v \in Worker : doing'[v] = doing[v] \/ doing'[v][1] \in {"run", "call"}
      /\ closed' \subseteq Fd
  <2>1. TypeOK
    BY DEF Inv
  <2>2. /\ doing \in [Worker -> {"run", "call", "cancel", "timeout"} \X (Call \cup {NoCall})]
        /\ closed \subseteq Fd
    BY <2>1 DEF TypeOK
  <2> QED
    BY <1>1, <1>2, <2>1, <2>2, DoingTyped
<1> QED
  BY <1>1, <1>2, <1>3, <1>4, ErasesInv

-----------------------------------------------------------------------------
(* The callbacks.                                                          *)

LEMMA ClearFlagHolds ==
  ASSUME Inv, fault = NoFault, NEW c \in Call, ClearFlag(c)
  PROVE  /\ flag' \in [Call -> BOOLEAN]
         /\ fault' \in [call : Call \cup {NoCall}, why : {"none", "frame", "null", "throw"}]
         /\ \A d \in Call : flag'[d] = flag[d] \/ (d = c /\ Alive(c) /\ ~flag'[d])
         /\ \/ fault' = NoFault
            \/ fault' = [call |-> c, why |-> "frame"] /\ (~Alive(c) \/ Kind[c] = "connect")
PROOF
<1>1. CASE Alive(c) /\ Kind[c] # "connect"
  <2>1. flag' = [flag EXCEPT ![c] = FALSE] /\ fault' = NoFault
    BY <1>1 DEF ClearFlag
  <2>2. /\ flag' \in [Call -> BOOLEAN] /\ ~flag'[c]
        /\ \A d \in Call : d # c => flag'[d] = flag[d]
    BY <2>1 DEF Inv, TypeOK
  <2> QED
    BY <1>1, <2>1, <2>2 DEF NoFault
<1>2. CASE ~(Alive(c) /\ Kind[c] # "connect")
  <2>1. flag' = flag /\ fault' = [call |-> c, why |-> "frame"]
    BY <1>2 DEF ClearFlag
  <2>2. flag' \in [Call -> BOOLEAN]
    BY <2>1 DEF Inv, TypeOK
  <2> QED
    BY <1>2, <2>1, <2>2
<1> QED
  BY <1>1, <1>2

(* A callback that is run while the call it is for is over, is a second.   *)
LEMMA RunWakeInv ==
  ASSUME Inv, fault = NoFault, NEW w \in Worker, NEW c \in Call, RunWake(w, c)
  PROVE  Inv'
PROOF
<1>1. /\ wakes[c] > 0 /\ wakes' = [wakes EXCEPT ![c] = @ - 1]
      /\ UNCHANGED <<pc, doing, timerVars, eventVars, triggered, netVars>>
  BY DEF RunWake
<1>2. /\ flag' \in [Call -> BOOLEAN]
      /\ fault' \in [call : Call \cup {NoCall}, why : {"none", "frame", "null", "throw"}]
      /\ \A d \in Call : flag'[d] = flag[d] \/ (d = c /\ Alive(c) /\ ~flag'[d])
      /\ \/ fault' = NoFault
         \/ fault' = [call |-> c, why |-> "frame"] /\ (~Alive(c) \/ Kind[c] = "connect")
  BY ClearFlagHolds DEF RunWake
<1> USE HookAssumption DEF timerVars, eventVars, netVars
<1>3. \A d \in Call : /\ wakes[d] \in 0 .. MaxArrivals + 1 /\ triggered[d] \in Nat
                      /\ wakes[d] <= triggered[d]
  BY CountersAre DEF Inv, TypeOK
<1>4. wakes'[c] = wakes[c] - 1 /\ \A d \in Call : d # c => wakes'[d] = wakes[d]
  BY <1>1 DEF Inv, TypeOK
<1>5. /\ \A d \in Call : wakes'[d] <= wakes[d]
      /\ wakes'[c] < triggered[c] /\ triggered[c] >= 1
  BY <1>1, <1>3, <1>4
<1>6. ~Early(c)
  BY <1>5 DEF Inv, Counted
<1>7. TypeOK'
  <2>1. wakes' \in [Call -> 0 .. MaxArrivals + 1]
    BY <1>1, <1>3 DEF Inv, TypeOK
  <2> QED
    BY <1>1, <1>2, <2>1 DEF Inv, TypeOK
<1>8. ByKind' /\ HalfDone'
  BY <1>1 DEF Inv, ByKind, HalfDone, IsIO
<1>9. Fresh'
  BY <1>1, <1>2, <1>6 DEF Inv, Fresh
<1>10. Registered'
  BY <1>1 DEF Inv, Registered, Owned, IsIO, Ev
<1>11. Counted'
  <2>1. \A d \in Call : wakes'[d] <= triggered[d]
    BY <1>3, <1>4, <1>5
  <2> QED
    BY <1>1, <2>1, EventsKept DEF Inv, Counted
<1>12. \A d \in Call : Answered(d) => Answered(d)'
  <2>1. \A d \in Call : wakes[d] < triggered[d] => wakes'[d] < triggered'[d]
    BY <1>1, <1>3, <1>4, <1>5
  <2> QED
    BY <1>1, <2>1, AnsweredStays
<1>13. WaitsAnswered'
  <2>1. Answered(c)'
    BY <1>1, <1>5 DEF Answered
  <2> QED
    BY <1>1, <1>2, <1>12, <2>1 DEF Inv, WaitsAnswered, IsIO
<1>14. Kind[c] \notin Sleeps \cup {"close"}
  BY <1>5 DEF Inv, Counted
<1>15. SleepTimers'
  BY <1>1, <1>2, <1>14, KindsDiffer DEF Inv, SleepTimers
<1>16. FaultCauses'
  <2>1. CASE Kind[c] = "connect" \/ fault' = NoFault
    BY <1>2, <2>1 DEF FaultCauses
  <2>2. CASE IsIO(c) /\ ~Alive(c) /\ fault' = [call |-> c, why |-> "frame"]
    <3>1. pc[c] = "done"
      BY <1>6, <2>2 DEF Alive
    <3>2. Answered(c)
      BY <1>5, <2>2, <3>1 DEF Inv, WaitsAnswered
    <3>3. wakes[c] < triggered[c] => triggered[c] >= 2
      BY <1>1, <1>3
    <3>4. triggered[c] >= 2 \/ c \in cancelled \/ Meets(c)
      BY <3>2, <3>3 DEF Answered
    <3> QED
      BY <1>1, <2>2, <3>4 DEF FaultCauses, Meets, IsIO
  <2> QED
    BY <1>2, <1>14, <2>1, <2>2, KindsDiffer
<1> QED
  BY <1>7, <1>8, <1>9, <1>10, <1>11, <1>13, <1>15, <1>16 DEF Inv

LEMMA RunSleepTimerInv ==
  ASSUME Inv, fault = NoFault, NEW w \in Worker, NEW c \in Call, RunSleepTimer(w, c)
  PROVE  Inv'
PROOF
<1>1. /\ c \in expired /\ Kind[c] \in Sleeps /\ expired' = expired \ {c}
      /\ \/ doing' = doing
         \/ Kind[c] = "usleep" /\ doing' = [doing EXCEPT ![w] = <<"cancel", c>>]
      /\ UNCHANGED <<pc, timers, due, lost, cancelled, eventVars, taskVars, netVars>>
  BY DEF RunSleepTimer, ThenCancels, Does, timerSet
<1>2. /\ flag' \in [Call -> BOOLEAN]
      /\ fault' \in [call : Call \cup {NoCall}, why : {"none", "frame", "null", "throw"}]
      /\ \A d \in Call : flag'[d] = flag[d] \/ (d = c /\ Alive(c) /\ ~flag'[d])
      /\ \/ fault' = NoFault
         \/ fault' = [call |-> c, why |-> "frame"] /\ (~Alive(c) \/ Kind[c] = "connect")
  BY ClearFlagHolds DEF RunSleepTimer
<1> USE DEF eventVars, taskVars, netVars
<1>3. TypeOK'
  <2>1. doing' \in [Worker -> {"run", "call", "cancel", "timeout"} \X (Call \cup {NoCall})]
    BY <1>1 DEF Inv, TypeOK
  <2> QED
    BY <1>1, <1>2, <2>1 DEF Inv, TypeOK
<1>4. ByKind'
  BY <1>1 DEF Inv, ByKind, IsIO
<1>5. Fresh'
  BY <1>1, <1>2 DEF Inv, Fresh, Alive
<1>6. Registered'
  BY <1>1 DEF Inv, Registered, Owned, IsIO, Ev
<1>7. HalfDone'
  <2>1. \A d \in Call : <<"cancel", c>> # <<"timeout", d>> /\ (<<"cancel", c>> = <<"cancel", d>> => c = d)
    OBVIOUS
  <2>2. \A v \in Worker : doing'[v] = doing[v] \/ (Kind[c] = "usleep" /\ doing'[v] = <<"cancel", c>>)
    BY <1>1 DEF Inv, TypeOK
  <2> QED
    BY <1>1, <2>1, <2>2 DEF Inv, HalfDone
<1>8. Counted'
  BY <1>1, CountedStays, EventsKept
<1>9. WaitsAnswered'
  BY <1>1, <1>2, KindsDiffer DEF Inv, WaitsAnswered, Answered, Meets, IsIO
<1>10. SleepTimers'
  BY <1>1, <1>2 DEF Inv, SleepTimers
<1>11. FaultCauses'
  <2>1. Kind[c] = "sleep" => Alive(c) /\ Kind[c] # "connect"
    BY <1>1 DEF Inv, SleepTimers, Alive
  <2>2. fault' = NoFault \/ (Kind[c] = "usleep" /\ fault'.call = c)
    BY <1>1, <1>2, <2>1 DEF Sleeps
  <2> QED
    BY <2>2 DEF FaultCauses
<1> QED
  BY <1>3, <1>4, <1>5, <1>6, <1>7, <1>8, <1>9, <1>10, <1>11 DEF Inv

LEMMA CancelOwnInv ==
  ASSUME Inv, fault = NoFault, NEW w \in Worker, NEW c \in Call, CancelOwn(w, c)
  PROVE  Inv'
PROOF
<1>1. /\ doing[w] = <<"cancel", c>> /\ doing' = [doing EXCEPT ![w] = <<"run", NoCall>>]
      /\ fault' \in {NoFault, [call |-> c, why |-> "null"], [call |-> c, why |-> "frame"]}
      /\ timers' \subseteq timers /\ lost' \subseteq lost \cup timers /\ due' = due
      /\ UNCHANGED <<pc, flag, expired, cancelled, eventVars, taskVars, netVars>>
  BY DEF CancelOwn, Does, CancelTimer, timerSet
<1> USE DEF eventVars, taskVars, netVars
<1>2. TypeOK'
  <2>1. /\ doing' \in [Worker -> {"run", "call", "cancel", "timeout"} \X (Call \cup {NoCall})]
        /\ fault' \in [call : Call \cup {NoCall}, why : {"none", "frame", "null", "throw"}]
    BY <1>1 DEF Inv, TypeOK, NoFault
  <2> QED
    BY <1>1, <2>1 DEF Inv, TypeOK
<1>3. ByKind' /\ Fresh' /\ SleepTimers'
  BY <1>1 DEF Inv, ByKind, Fresh, SleepTimers, IsIO
<1>4. Registered'
  BY <1>1 DEF Inv, Registered, Owned, IsIO, Ev
<1>5. HalfDone'
  <2>1. \A v \in Worker : doing'[v] = doing[v] \/ doing'[v][1] \in {"run", "call"}
    BY <1>1 DEF Inv, TypeOK
  <2> QED
    BY <1>1, <2>1, HalfDoneStays
<1>6. Counted'
  BY <1>1, CountedStays, EventsKept
<1>7. WaitsAnswered'
  BY <1>1 DEF Inv, WaitsAnswered, Answered, Meets, IsIO
<1>8. FaultCauses'
  <2>1. Kind[c] = "usleep"
    BY <1>1 DEF Inv, HalfDone
  <2> QED
    BY <1>1, <2>1 DEF FaultCauses, NoFault
<1> QED
  BY <1>2, <1>3, <1>4, <1>5, <1>6, <1>7, <1>8 DEF Inv

LEMMA RunTimeoutInv ==
  ASSUME Inv, fault = NoFault, NEW w \in Worker, NEW c \in Call, RunTimeout(w, c)
  PROVE  Inv'
PROOF
<1>1. /\ c \in expired /\ Kind[c] \notin Sleeps /\ expired' = expired \ {c}
      /\ \/ /\ cancelled' = cancelled \cup {c}
            /\ doing' = [doing EXCEPT ![w] = <<"timeout", c>>]
         \/ UNCHANGED <<cancelled, doing>>
      /\ UNCHANGED <<pc, flag, timers, due, lost, eventVars, taskVars, netVars, fault>>
  BY DEF RunTimeout, Does, timerSet
<1> USE DEF eventVars, taskVars, netVars
<1>2. TypeOK'
  <2>1. /\ doing' \in [Worker -> {"run", "call", "cancel", "timeout"} \X (Call \cup {NoCall})]
        /\ cancelled' \subseteq Call
    BY <1>1 DEF Inv, TypeOK
  <2> QED
    BY <1>1, <2>1 DEF Inv, TypeOK
<1>3. ByKind' /\ Fresh' /\ SleepTimers' /\ FaultCauses'
  BY <1>1 DEF Inv, ByKind, Fresh, SleepTimers, FaultCauses, IsIO
<1>4. Registered'
  BY <1>1 DEF Inv, Registered, Owned, IsIO, Ev
<1>5. HalfDone'
  <2>1. Begun(c) /\ Kind[c] # "close"
    BY <1>1 DEF Inv, Fresh
  <2>2. \A d \in Call : <<"timeout", c>> # <<"cancel", d>> /\ (<<"timeout", c>> = <<"timeout", d>> => c = d)
    OBVIOUS
  <2>3. /\ \A v \in Worker : \/ doing'[v] = doing[v]
                             \/ doing'[v] = <<"timeout", c>> /\ c \in cancelled'
        /\ cancelled \subseteq cancelled'
    BY <1>1 DEF Inv, TypeOK
  <2> QED
    BY <1>1, <2>1, <2>2, <2>3 DEF Inv, HalfDone
<1>6. Counted'
  BY <1>1, CountedStays, EventsKept
<1>7. WaitsAnswered'
  <2>1. cancelled \subseteq cancelled'
    BY <1>1
  <2> QED
    BY <1>1, <2>1 DEF Inv, WaitsAnswered, Answered, Meets, IsIO
<1> QED
  BY <1>2, <1>3, <1>4, <1>5, <1>6, <1>7 DEF Inv

(* The timeout: the callback it runs is that of a call under way, and where*)
(* there is none for its event another call has registered the other one.  *)
LEMMA TimeoutDeletesInv ==
  ASSUME Inv, fault = NoFault, NEW w \in Worker, NEW c \in Call, TimeoutDeletes(w, c)
  PROVE  Inv'
PROOF
<1> USE HookAssumption
<1>1. PICK f \in Fd, e \in Event : f = Target[c] /\ e = Ev(c)
  BY KindsDiffer
<1>2. /\ doing[w] = <<"timeout", c>> /\ doing' = [doing EXCEPT ![w] = <<"run", NoCall>>]
      /\ \/ UNCHANGED <<flag, fault, eventVars>>
         \/ interest[f] # "NONE" /\ Activated(c) /\ EraseEvents(f)
      /\ UNCHANGED <<pc, timerVars, taskVars, netVars>>
  BY <1>1 DEF TimeoutDeletes, Does
<1> USE DEF timerVars, taskVars, netVars
<1>3. Kind[c] \notin Sleeps \cup {"close"} /\ c \in cancelled /\ Begun(c)
  BY <1>2 DEF Inv, HalfDone
<1>4. CASE UNCHANGED <<flag, fault, eventVars>>
  <2> USE DEF eventVars
  <2>1. TypeOK'
    <3>1. doing' \in [Worker -> {"run", "call", "cancel", "timeout"} \X (Call \cup {NoCall})]
      BY <1>2 DEF Inv, TypeOK
    <3> QED
      BY <1>2, <1>4, <3>1 DEF Inv, TypeOK
  <2>2. ByKind' /\ Fresh' /\ SleepTimers' /\ FaultCauses'
    BY <1>2, <1>4 DEF Inv, ByKind, Fresh, SleepTimers, FaultCauses, IsIO
  <2>3. Registered'
    BY <1>2, <1>4 DEF Inv, Registered, Owned, IsIO, Ev
  <2>4. HalfDone'
    <3>1. \A v \in Worker : doing'[v] = doing[v] \/ doing'[v][1] \in {"run", "call"}
      BY <1>2 DEF Inv, TypeOK
    <3> QED
      BY <1>2, <3>1, HalfDoneStays
  <2>5. Counted'
    BY <1>2, <1>4, CountedStays, EventsKept
  <2>6. WaitsAnswered'
    BY <1>2, <1>4 DEF Inv, WaitsAnswered, Answered, Meets, IsIO
  <2> QED
    BY <2>1, <2>2, <2>3, <2>4, <2>5, <2>6 DEF Inv
<1>5. CASE interest[f] # "NONE" /\ Activated(c) /\ EraseEvents(f)
  <2>1. /\ interest' \in [Fd -> Event \cup {"NONE"}]
        /\ slot' \in [Fd -> [Event -> Call \cup {NoCall}]]
        /\ edge' \in [Fd -> BOOLEAN]
        /\ Registered'
        /\ \A d \in Call : Signalled(d)' => Signalled(d)
    BY <1>2, <1>5, ErasedEvents
  <2>2. PICK d \in Call \cup {NoCall} : d = slot[f][e]
    BY DEF Inv, TypeOK
  <2>3. /\ flag' \in [Call -> BOOLEAN]
        /\ fault' \in [call : Call \cup {NoCall}, why : {"none", "frame", "null", "throw"}]
        /\ \A b \in Call : flag'[b] = flag[b] \/ (b = d /\ d # NoCall /\ Alive(d) /\ ~flag'[b])
        /\ FaultCauses'
    <3>1. CASE d = NoCall
      <4>1. fault' = [call |-> c, why |-> "throw"] /\ flag' = flag
        BY <1>1, <1>5, <2>2, <3>1 DEF Activated
      <4>2. PICK x \in Event : x = interest[f]
        BY <1>5 DEF Inv, TypeOK
      <4>3. PICK b \in Call : b = slot[f][x]
        BY <1>5, <4>2 DEF Inv, TypeOK, Registered
      <4>4. Owned(slot[f][x], f, x)
        BY <4>3 DEF Inv, Registered
      <4>5. Owned(b, f, x)
        BY <4>3, <4>4
      <4>6. x # e
        BY <2>2, <3>1, <4>3
      <4>7. b # c /\ Target[b] = Target[c] /\ Kind[b] \notin Sleeps /\ Begun(b)
        BY <1>1, <4>5, <4>6, KindsDiffer DEF Owned
      <4>8. Kind[c] = "connect" \/ IsIO(c)
        BY <1>3, KindsDiffer
      <4>9. FaultCauses'
        BY <1>2, <4>1, <4>7, <4>8 DEF FaultCauses, IsIO
      <4> QED
        BY <4>1, <4>9 DEF Inv, TypeOK
    <3>2. CASE d # NoCall
      <4>1. ClearFlag(d) /\ d \in Call
        BY <1>1, <1>5, <2>2, <3>2 DEF Activated
      <4>2. Owned(slot[f][e], f, e)
        BY <2>2, <3>2 DEF Inv, Registered
      <4>3. Owned(d, f, e)
        BY <2>2, <4>2
      <4>4. IsIO(d) => Alive(d)
        BY <4>1, <4>3, KindsDiffer DEF Owned, Alive
      <4>5. fault' = NoFault \/ (Kind[d] = "connect" /\ fault'.call = d)
        BY <4>1, <4>3, <4>4, ClearFlagHolds DEF Owned
      <4> QED
        BY <3>2, <4>1, <4>5, ClearFlagHolds DEF FaultCauses
    <3> QED
      BY <3>1, <3>2
  <2>4. d # NoCall => /\ Target[d] = f /\ Kind[d] \notin Sleeps
                      /\ d \in Call
    <3> SUFFICES ASSUME d # NoCall
                 PROVE  Target[d] = f /\ Kind[d] \notin Sleeps
      BY <2>2
    <3>1. Owned(slot[f][e], f, e)
      BY <2>2 DEF Inv, Registered
    <3>2. Owned(d, f, e)
      BY <2>2, <3>1
    <3> QED
      BY <3>2, KindsDiffer DEF Owned
  <2>5. TypeOK'
    <3>1. doing' \in [Worker -> {"run", "call", "cancel", "timeout"} \X (Call \cup {NoCall})]
      BY <1>2 DEF Inv, TypeOK
    <3> QED
      BY <1>2, <2>1, <2>3, <3>1 DEF Inv, TypeOK
  <2>6. ByKind'
    BY <1>2 DEF Inv, ByKind, IsIO
  <2>7. Fresh'
    BY <1>2, <2>3 DEF Inv, Fresh, Alive
  <2>8. HalfDone'
    <3>1. \A v \in Worker : doing'[v] = doing[v] \/ doing'[v][1] \in {"run", "call"}
      BY <1>2 DEF Inv, TypeOK
    <3> QED
      BY <1>2, <3>1, HalfDoneStays
  <2>9. Counted'
    BY <1>2, <2>1, CountedStays
  <2>10. WaitsAnswered'
    <3>1. \A b \in Call : Answered(b)' = Answered(b)
      BY <1>2 DEF Answered, Meets
    <3>2. d # NoCall => Answered(d)
      BY <1>1, <1>3, <2>4 DEF Answered, Meets
    <3> QED
      BY <1>2, <2>3, <3>1, <3>2 DEF Inv, WaitsAnswered, IsIO
  <2>11. SleepTimers'
    BY <1>2, <2>3, <2>4, KindsDiffer DEF Inv, SleepTimers
  <2> QED
    BY <2>1, <2>3, <2>5, <2>6, <2>7, <2>8, <2>9, <2>10, <2>11 DEF Inv
<1> QED
  BY <1>2, <1>4, <1>5

-----------------------------------------------------------------------------
(* The timers of the sleeps: a second invariant, over the first.           *)

(* m_next is computed as the call begins, and stays; what is in the set,   *)
(* or was lost from it, has one.                                           *)
Dated ==
  /\ \A c \in Call : ~Begun(c) => due[c] = NoDeadline
  /\ \A c \in timers \cup lost : due[c] # NoDeadline

(* A timer is lost to another call's timer of the same m_next.             *)
Paired == \A c \in lost : \E d \in Call \ {c} : due[d] = due[c]

(* A sleep that is to wait has its timer somewhere, or lost it.            *)
Held ==
  \A c \in Call : Kind[c] \in Sleeps /\ Alive(c) /\ flag[c] => c \in timers \cup expired \cup lost

(* A callback that goes on to cancel() has cleared the flag.               *)
Cancelling ==
  \A w \in Worker, c \in Call :
    doing[w] = <<"cancel", c>> => Begun(c) /\ (Alive(c) => ~flag[c])

Pending == Dated /\ Paired /\ Held /\ Cancelling

(* No callback of a sleep's timer begins.                                  *)
Quiet == \A w \in Worker : doing'[w] = doing[w] \/ doing'[w][1] # "cancel"

LEMMA DoesQuiet ==
  ASSUME Inv, NEW w \in Worker, NEW d, doing' = doing \/ (Does(w, d) /\ d[1] # "cancel")
  PROVE  Quiet
BY DEF Does, Quiet, Inv, TypeOK

LEMMA CancellingStays ==
  ASSUME Inv, Cancelling, Quiet,
         \A d \in Call : Begun(d) => Begun(d)',
         \A d \in Call : Kind[d] \in Sleeps /\ Alive(d)' /\ flag'[d] /\ Begun(d) =>
           Alive(d) /\ flag[d]
  PROVE  Cancelling'
PROOF
<1>1. \A c \in Call : <<"cancel", c>>[1] = "cancel"
  OBVIOUS
<1>2. \A w \in Worker, c \in Call : doing'[w] = <<"cancel", c>> => doing[w] = <<"cancel", c>>
  BY <1>1 DEF Quiet
<1>3. \A w \in Worker, c \in Call : doing[w] = <<"cancel", c>> => Kind[c] \in Sleeps
  BY DEF Inv, HalfDone, Sleeps
<1> QED
  BY <1>2, <1>3 DEF Cancelling

(* A step that adds no timer: what it takes out of the set has expired, or *)
(* is lost to its like.                                                    *)
LEMMA PendingStays ==
  ASSUME Inv, Pending, UNCHANGED due, Quiet \/ Cancelling',
         timers' \subseteq timers, lost \subseteq lost',
         \A d \in lost' \ lost : d \in timers /\ \E c \in Call \ {d} : due[c] = due[d],
         \A d \in Call : Begun(d) => Begun(d)',
         \A d \in Call : Kind[d] \in Sleeps /\ Alive(d)' /\ flag'[d] =>
           /\ Alive(d) /\ flag[d]
           /\ d \in timers \cup expired => d \in timers' \cup expired' \cup lost'
  PROVE  Pending'
PROOF
<1>1. Dated'
  BY DEF Pending, Dated
<1>2. Paired'
  BY DEF Pending, Paired
<1>3. Held'
  BY DEF Pending, Held
<1>4. Cancelling'
  BY CancellingStays DEF Pending
<1> QED
  BY <1>1, <1>2, <1>3, <1>4 DEF Pending

LEMMA CancelTimerLoses ==
  ASSUME Inv, NEW c \in Call, CancelTimer(c)
  PROVE  /\ due' = due /\ timers' \subseteq timers /\ lost \subseteq lost'
         /\ \A d \in lost' \ lost : d \in timers /\ \E b \in Call \ {d} : due[b] = due[d]
         /\ \A d \in timers : d \in timers' \/ d \in lost' \/ d = c
BY DEF CancelTimer

(* A call begins with addTimer().                                          *)
LEMMA AddTimerPending ==
  ASSUME Inv, Pending, NEW c \in Call, pc[c] = "queued", AddTimer(c), NEW l,
         l \notin {"absent", "queued"}, pc' = [pc EXCEPT ![c] = l],
         UNCHANGED <<flag, expired>>, Quiet
  PROVE  Pending'
PROOF
<1> USE HookAssumption
<1>1. PICK t \in Deadline :
        /\ due' = [due EXCEPT ![c] = t]
        /\ \/ /\ lost' = lost \cup {c} /\ timers' = timers
              /\ \E d \in timers : due[d] = t
           \/ lost' = lost /\ timers' = timers \cup {c}
  BY DEF AddTimer
<1>2. /\ due'[c] = t /\ \A d \in Call : d # c => due'[d] = due[d]
      /\ pc'[c] = l /\ \A d \in Call : d # c => pc'[d] = pc[d]
      /\ timers \subseteq Call /\ lost \subseteq Call
  BY <1>1 DEF Inv, TypeOK
<1>3. c \notin timers /\ c \notin lost /\ due[c] = NoDeadline
  BY DEF Pending, Dated
<1>4. Dated'
  BY <1>1, <1>2, <1>3 DEF Pending, Dated
<1>5. Paired'
  <2>1. ASSUME NEW d \in lost PROVE \E b \in Call \ {d} : due'[b] = due'[d]
    <3>1. PICK b \in Call \ {d} : due[b] = due[d]
      BY DEF Pending, Paired
    <3>2. b # c /\ d # c
      BY <1>3, <2>1, <3>1 DEF Pending, Dated
    <3> QED
      BY <1>2, <2>1, <3>1, <3>2
  <2>2. ASSUME NEW d \in timers, due[d] = t PROVE \E b \in Call \ {c} : due'[b] = due'[c]
    BY <1>2, <1>3, <2>2
  <2> QED
    BY <1>1, <2>1, <2>2 DEF Paired
<1>6. Held'
  BY <1>1, <1>2 DEF Pending, Held, Alive
<1>7. Cancelling'
  BY <1>2, CancellingStays DEF Pending, Alive
<1> QED
  BY <1>4, <1>5, <1>6, <1>7 DEF Pending

LEMMA PendingInit == Init => Pending
PROOF
<1>1. ASSUME NEW c \in Call PROVE <<"run", NoCall>> # <<"cancel", c>>
  OBVIOUS
<1> QED
  BY <1>1, HookAssumption DEF Init, Pending, Dated, Paired, Held, Cancelling, Alive

(* The steps that leave the set, and the tasks, as they are.               *)
LEMMA TimersKept ==
  ASSUME Inv, Pending, UNCHANGED <<timers, due, lost, expired>>, Quiet,
         \A d \in Call : Begun(d) => Begun(d)',
         \A d \in Call : Kind[d] \in Sleeps /\ Alive(d)' /\ flag'[d] => Alive(d) /\ flag[d]
  PROVE  Pending'
BY PendingStays

(* What a callback does to a flag.                                         *)
LEMMA FlagsOnlyClear ==
  ASSUME Inv, fault = NoFault, NEW c \in Call, ClearFlag(c)
  PROVE  \A d \in Call : flag'[d] => flag[d]
BY ClearFlagHolds DEF Inv, TypeOK

LEMMA PendingWork ==
  ASSUME Inv, Pending, fault = NoFault, NEW w \in Worker, Work(w)
  PROVE  Pending'
PROOF
<1> USE DEF timerSet, timerVars
<1>1. ASSUME NEW c \in Call, Begin(w, c) PROVE Pending'
  <2>1. PICK l \in {"timer", "add", "done"} :
          /\ pc[c] = "queued" /\ pc' = [pc EXCEPT ![c] = l]
          /\ AddTimer(c) \/ (UNCHANGED timerSet /\ IsIO(c))
          /\ UNCHANGED <<flag, expired>>
          /\ doing' = doing \/ Does(w, <<"call", c>>)
    BY <1>1 DEF Begin, Goto
  <2>1a. Quiet
    BY <2>1, DoesQuiet
  <2>2. CASE AddTimer(c)
    BY <2>1, <2>1a, <2>2, AddTimerPending
  <2>3. CASE UNCHANGED timerSet /\ IsIO(c)
    BY <2>1, <2>1a, <2>3, TimersKept, KindsDiffer DEF Alive, Inv, TypeOK
  <2> QED
    BY <2>1, <2>2, <2>3
<1>2. ASSUME NEW c \in Call, Connect(w, c) PROVE Pending'
  <2>1. PICK l \in {"add", "done"} :
          /\ Kind[c] = "connect" /\ pc[c] # "absent" /\ pc' = [pc EXCEPT ![c] = l]
          /\ \/ pc[c] = "queued" /\ AddTimer(c)
             \/ UNCHANGED timerSet
             \/ pc[c] = "leave" /\ CancelTimer(c)
          /\ UNCHANGED <<flag, expired>>
          /\ doing' = doing \/ Does(w, <<"call", c>>) \/ Does(w, <<"run", NoCall>>)
    BY <1>2 DEF Connect, Goto, In, Leave
  <2>1a. Quiet
    BY <2>1, DoesQuiet
  <2>2. /\ \A d \in Call : Begun(d) => Begun(d)'
        /\ \A d \in Call : Kind[d] \in Sleeps /\ Alive(d)' => Alive(d) /\ d # c
    BY <2>1, KindsDiffer DEF Alive, Inv, TypeOK
  <2>3. CASE pc[c] = "queued" /\ AddTimer(c)
    BY <2>1, <2>1a, <2>3, AddTimerPending
  <2>4. CASE UNCHANGED timerSet
    BY <2>1, <2>1a, <2>2, <2>4, TimersKept
  <2>5. CASE pc[c] = "leave" /\ CancelTimer(c)
    BY <2>1, <2>1a, <2>2, <2>5, CancelTimerLoses, PendingStays
  <2> QED
    BY <2>1, <2>3, <2>4, <2>5
<1>3. ASSUME NEW c \in Call, NEW l, l \notin {"absent", "queued"}, pc[c] # "done",
             pc' = [pc EXCEPT ![c] = l],
             Kind[c] \in Sleeps => Begun(c) /\ flag' = flag,
             \A d \in Call : d # c => flag'[d] = flag[d],
             doing' = doing \/ Does(w, <<"call", c>>) \/ Does(w, <<"run", NoCall>>),
             UNCHANGED timerVars
      PROVE  Pending'
  <2>1. \A d \in Call : Begun(d) => Begun(d)'
    BY <1>3 DEF Inv, TypeOK
  <2>2. \A d \in Call : Kind[d] \in Sleeps /\ Alive(d)' /\ flag'[d] => Alive(d) /\ flag[d]
    BY <1>3 DEF Alive, Inv, TypeOK
  <2>3. Quiet
    BY <1>3, DoesQuiet
  <2> QED
    BY <1>3, <2>1, <2>2, <2>3, TimersKept
<1>4. ASSUME NEW c \in Call, Assign(w, c) \/ Arm(w, c) \/ Resume(w, c) \/ Finish(w, c)
      PROVE  Pending'
  <2>1. PICK l \in {"wait", "done", "finish", "arm"} :
          /\ pc[c] \in {"timer", "arm", "wait", "finish"} /\ pc' = [pc EXCEPT ![c] = l]
          /\ UNCHANGED flag \/ (pc[c] = "arm" /\ flag' = [flag EXCEPT ![c] = TRUE])
          /\ UNCHANGED timerVars
          /\ doing' = doing \/ Does(w, <<"run", NoCall>>)
    BY <1>4 DEF Assign, Arm, Resume, Finish, In, Goto, Leave
  <2>2. Kind[c] \in Sleeps => pc[c] # "arm"
    BY DEF Inv, ByKind
  <2> QED
    BY <1>3, <2>1, <2>2 DEF Inv, TypeOK
<1>5. ASSUME NEW c \in Call, NEW next, next \in {"arm", "leave"}, AddEvent(w, c, next)
      PROVE  Pending'
  <2>1. /\ pc[c] = "add" /\ pc' = [pc EXCEPT ![c] = next]
        /\ UNCHANGED flag /\ UNCHANGED timerVars /\ UNCHANGED doing
    BY <1>5 DEF AddEvent, In, Goto
  <2> QED
    BY <1>3, <1>5, <2>1
<1>6. ASSUME NEW c \in Call, Close(w, c) PROVE Pending'
  <2>1. PICK l \in {"closing", "done"} :
          /\ Kind[c] = "close" /\ pc[c] # "done" /\ pc' = [pc EXCEPT ![c] = l]
          /\ UNCHANGED flag /\ UNCHANGED timerVars
          /\ Does(w, <<"call", c>>) \/ Does(w, <<"run", NoCall>>)
    BY <1>6 DEF Close, In, Goto, Leave
  <2> QED
    BY <1>3, <2>1, KindsDiffer
<1>7. CASE PollEdges(w)
  BY <1>7, TimersKept DEF PollEdges, Alive, Quiet
<1>8. ASSUME NEW c \in Call, RunWake(w, c) \/ TimeoutDeletes(w, c) PROVE Pending'
  <2>1. UNCHANGED <<pc, timers, due, lost, expired>>
    BY <1>8 DEF RunWake, TimeoutDeletes
  <2>2. UNCHANGED flag \/ \E d \in Call : ClearFlag(d)
    <3>1. CASE RunWake(w, c)
      BY <3>1 DEF RunWake
    <3>2. CASE TimeoutDeletes(w, c)
      BY <3>2, KindsDiffer DEF TimeoutDeletes, Activated, Inv, TypeOK
    <3> QED
      BY <1>8, <3>1, <3>2
  <2>3. \A d \in Call : flag'[d] => flag[d]
    BY <2>2, FlagsOnlyClear
  <2>4. Quiet
    BY <1>8, DoesQuiet DEF RunWake, TimeoutDeletes
  <2> QED
    BY <2>1, <2>3, <2>4, TimersKept DEF Alive
<1>9. ASSUME NEW c \in Call, RunSleepTimer(w, c) PROVE Pending'
  <2>1. /\ Kind[c] \in Sleeps /\ expired' = expired \ {c} /\ ClearFlag(c)
        /\ UNCHANGED <<pc, timers, due, lost>>
        /\ c \in expired /\ (doing' = doing \/ Does(w, <<"cancel", c>>))
    BY <1>9 DEF RunSleepTimer
  <2>2. \A d \in Call : flag'[d] => flag[d]
    BY <2>1, FlagsOnlyClear
  <2>3. Alive(c) => ~flag'[c]
    BY <2>1, KindsDiffer DEF ClearFlag, Inv, TypeOK
  <2>4. Cancelling'
    <3>1. Begun(c)
      BY <2>1 DEF Inv, Fresh
    <3>2. \A v \in Worker : doing'[v] = doing[v] \/ doing'[v] = <<"cancel", c>>
      BY <2>1 DEF Does, Inv, TypeOK
    <3>3. \A d \in Call : <<"cancel", d>> = <<"cancel", c>> => d = c
      OBVIOUS
    <3> QED
      BY <2>1, <2>2, <2>3, <3>1, <3>2, <3>3 DEF Pending, Cancelling, Alive
  <2> QED
    BY <2>1, <2>2, <2>3, <2>4, PendingStays DEF Alive
<1>10. ASSUME NEW c \in Call, CancelOwn(w, c) PROVE Pending'
  <2>1. /\ UNCHANGED <<pc, flag, expired>>
        /\ UNCHANGED timerSet \/ CancelTimer(c)
        /\ doing[w] = <<"cancel", c>> /\ Does(w, <<"run", NoCall>>)
    BY <1>10 DEF CancelOwn
  <2>2. Quiet
    BY <2>1, DoesQuiet
  <2>3. ~(Alive(c) /\ flag[c])
    BY <2>1 DEF Pending, Cancelling
  <2>4. CASE UNCHANGED timerSet
    BY <2>1, <2>2, <2>4, TimersKept DEF Alive
  <2>5. CASE CancelTimer(c)
    BY <2>1, <2>2, <2>3, <2>5, CancelTimerLoses, PendingStays DEF Alive
  <2> QED
    BY <2>1, <2>4, <2>5
<1>11. ASSUME NEW c \in Call, RunTimeout(w, c) PROVE Pending'
  <2>1. /\ Kind[c] \notin Sleeps /\ expired' = expired \ {c}
        /\ UNCHANGED <<pc, flag, timers, due, lost>>
        /\ doing' = doing \/ Does(w, <<"timeout", c>>)
    BY <1>11 DEF RunTimeout
  <2>2. Quiet
    BY <2>1, DoesQuiet
  <2> QED
    BY <2>1, <2>2, PendingStays DEF Alive
<1> QED
  BY <1>1, <1>2, <1>4, <1>5, <1>6, <1>7, <1>8, <1>9, <1>10, <1>11 DEF Work

LEMMA PendingInductive == Inv /\ Pending /\ [Next]_vars => Pending'
PROOF
<1> SUFFICES ASSUME Inv, Pending, [Next]_vars PROVE Pending'
  OBVIOUS
<1>1. CASE UNCHANGED vars
  BY <1>1, TimersKept DEF vars, timerVars, Alive, Quiet
<1>2. ASSUME NEW f \in Fd, NEW e \in Event, Arrive(f, e) PROVE Pending'
  BY <1>2, TimersKept DEF Arrive, timerVars, Alive, Quiet
<1>3. ASSUME NEW w \in Worker, NEW c \in Call, PollTimer(w, c) PROVE Pending'
  BY <1>3, PendingStays DEF PollTimer, Alive, Quiet
<1> QED
  BY <1>1, <1>2, <1>3, PendingWork DEF Next

-----------------------------------------------------------------------------
(* The theorems.                                                           *)

LEMMA StutterInv == Inv /\ UNCHANGED vars => Inv'
PROOF
<1> SUFFICES ASSUME Inv, UNCHANGED vars PROVE Inv'
  OBVIOUS
<1> USE DEF vars, eventVars, timerVars, taskVars, netVars
<1>1. TypeOK'
  BY DEF Inv, TypeOK
<1>2. ByKind' /\ Fresh' /\ HalfDone' /\ SleepTimers' /\ FaultCauses'
  BY DEF Inv, ByKind, Fresh, HalfDone, SleepTimers, FaultCauses, IsIO
<1>3. Registered'
  BY DEF Inv, Registered, Owned, IsIO, Ev
<1>4. Counted'
  BY CountedStays, EventsKept
<1>5. WaitsAnswered'
  BY DEF Inv, WaitsAnswered, Answered, Meets, IsIO
<1> QED
  BY <1>1, <1>2, <1>3, <1>4, <1>5 DEF Inv

LEMMA Inductive == Inv /\ [Next]_vars => Inv'
PROOF
<1> SUFFICES ASSUME Inv, [Next]_vars PROVE Inv'
  OBVIOUS
<1>1. CASE UNCHANGED vars
  BY <1>1, StutterInv
<1>2. CASE Next
  <2>1. fault = NoFault
    BY <1>2 DEF Next
  <2>2. CASE \E f \in Fd, e \in Event : Arrive(f, e)
    BY <2>1, <2>2, ArriveInv
  <2>3. CASE \E w \in Worker, c \in Call : PollTimer(w, c)
    BY <2>1, <2>3, PollTimerInv
  <2>4. ASSUME NEW w \in Worker, Work(w) PROVE Inv'
    <3>1. CASE PollEdges(w)
      BY <2>1, <3>1, PollEdgesInv
    <3>2. ASSUME NEW c \in Call,
                 \/ Begin(w, c) \/ Assign(w, c) \/ Arm(w, c) \/ Resume(w, c) \/ Finish(w, c)
                 \/ Connect(w, c) \/ Close(w, c)
          PROVE  Inv'
      BY <2>1, <3>2, BeginInv, AssignInv, ArmInv, ResumeInv, FinishInv, ConnectInv, CloseInv
    <3>3. ASSUME NEW c \in Call,
                 \/ IsIO(c) /\ AddEvent(w, c, "arm")
                 \/ Kind[c] = "connect" /\ AddEvent(w, c, "leave")
          PROVE  Inv'
      BY <2>1, <3>3, AddEventInv
    <3>4. ASSUME NEW c \in Call,
                 \/ RunWake(w, c) \/ RunSleepTimer(w, c) \/ CancelOwn(w, c)
                 \/ RunTimeout(w, c) \/ TimeoutDeletes(w, c)
          PROVE  Inv'
      BY <2>1, <3>4, RunWakeInv, RunSleepTimerInv, CancelOwnInv, RunTimeoutInv,
         TimeoutDeletesInv
    <3> QED
      BY <2>4, <3>1, <3>2, <3>3, <3>4 DEF Work
  <2> QED
    BY <1>2, <2>2, <2>3, <2>4 DEF Next
<1> QED
  BY <1>1, <1>2

(* Inv is an invariant of every behaviour.                                 *)
THEOREM Invariance == Spec => []Inv
BY InitInv, Inductive, PTL DEF Spec

(* The variables keep their types; no callback is scheduled more often     *)
(* than there are arrivals, and once for the addEvent() (hook.cpp:134).    *)
THEOREM TypeCorrect == Spec => []TypeOK
PROOF
<1>1. Inv => TypeOK
  BY DEF Inv
<1> QED
  BY <1>1, Invariance, PTL

(* A callback reaches a stack that is gone only through the second line of *)
(* usleep()'s, through connect()'s, through do_io()'s when it was queued   *)
(* twice, after a timeout, or on a descriptor that is shared               *)
(* (hook.cpp:130, 208, 232, 307).                                          *)
THEOREM FaultCausesHolds == Spec => []FaultCauses
PROOF
<1>1. Inv => FaultCauses
  BY DEF Inv
<1> QED
  BY <1>1, Invariance, PTL

(* A sleep that is to wait has its timer in the set or its callback among  *)
(* the tasks, or another call's timer has the same m_next; whatever the    *)
(* calls, and whatever they cancel (hook.cpp:185, Timer.cpp:23, 96).       *)
THEOREM TimerHeldAlways == Spec => []TimerHeld
PROOF
<1>1. Inv /\ Pending => TimerHeld
  BY DEF Pending, Held, Paired, TimerHeld
<1>2. Spec => [](Inv /\ Pending)
  BY InitInv, Inductive, PendingInit, PendingInductive, PTL DEF Spec
<1> QED
  BY <1>1, <1>2, PTL

(* A waiting call with its descriptor to itself stays registered until it  *)
(* ends or times out: an edge that gave it nothing, or a step of a call on *)
(* another descriptor, does not take its event out (hook.cpp:134).         *)
THEOREM KeepsRegistrationHolds == Spec => KeepsRegistration
PROOF
<1> DEFINE Keeps ==
      \A c \in Call :
        /\ IsIO(c) /\ pc[c] = "wait" /\ pc'[c] = "wait" /\ Alone(c) /\ Alone(c)'
        /\ slot[Target[c]][Ev(c)] = c
        => slot'[Target[c]][Ev(c)] = c \/ c \in cancelled
<1>1. Inv /\ [Next]_vars => [Keeps]_vars
  <2> SUFFICES ASSUME Inv, Next, NEW c \in Call, IsIO(c), pc[c] = "wait", pc'[c] = "wait",
                      Alone(c), Alone(c)', slot[Target[c]][Ev(c)] = c
               PROVE  slot'[Target[c]][Ev(c)] = c \/ c \in cancelled
    OBVIOUS
  <2>1. PICK f \in Fd, e \in Event : f = Target[c] /\ e = Ev(c)
    BY KindsDiffer
  <2>2. \A d \in Call : Alive(d) /\ Kind[d] \notin Sleeps /\ Target[d] = f => d = c
    BY <2>1 DEF Alone
  <2>3. ASSUME NEW d \in Call, NEW w \in Worker,
               \/ AddEvent(w, d, "arm") /\ IsIO(d)
               \/ AddEvent(w, d, "leave") /\ Kind[d] = "connect"
        PROVE  slot'[f] = slot[f]
    <3>1. pc[d] = "add" /\ Kind[d] \notin Sleeps
      BY <2>3, KindsDiffer DEF AddEvent, In
    <3>2. Target[d] # f /\ Target[d] \in Fd
      BY <2>2, <3>1, KindsDiffer DEF Alive
    <3> QED
      BY <2>3, <3>2 DEF AddEvent, eventVars, Inv, TypeOK
  <2>4. ASSUME NEW g \in Fd, g # f, EraseEvents(g) PROVE slot'[f] = slot[f]
    BY <2>4 DEF EraseEvents, Inv, TypeOK
  <2>5. ASSUME NEW d \in Call, NEW w \in Worker, Finish(w, d) PROVE slot'[f] = slot[f]
    <3>1. pc[d] = "finish" /\ EraseEvents(Target[d])
      BY <2>5 DEF Finish, In
    <3>2. Kind[d] \notin Sleeps /\ Target[d] \in Fd
      BY <3>1, KindsDiffer DEF Inv, ByKind
    <3> QED
      BY <2>2, <2>4, <3>1, <3>2 DEF Alive
  <2>6. ASSUME NEW d \in Call, NEW w \in Worker, Close(w, d) PROVE slot'[f] = slot[f]
    <3>1. /\ EraseEvents(Target[d]) /\ d # c /\ Kind[d] \notin Sleeps /\ Target[d] \in Fd
          /\ pc[d] = "closing" \/ pc'[d] = "closing"
      BY <2>6, KindsDiffer DEF Close, In, Goto, Inv, TypeOK
    <3>2. Target[d] # f
      BY <2>1, <3>1 DEF Alone, Alive
    <3> QED
      BY <2>4, <3>1, <3>2
  <2>7. ASSUME NEW d \in Call, NEW w \in Worker, TimeoutDeletes(w, d), c \notin cancelled
        PROVE  slot'[f] = slot[f]
    <3>1. /\ doing[w] = <<"timeout", d>>
          /\ UNCHANGED slot \/ EraseEvents(Target[d])
      BY <2>7 DEF TimeoutDeletes, eventVars
    <3>2. d # c /\ Kind[d] \notin Sleeps /\ Target[d] \in Fd
      BY <2>7, <3>1, KindsDiffer DEF Inv, HalfDone
    <3>3. Target[d] # f
      BY <2>1, <3>1, <3>2 DEF Alone
    <3> QED
      BY <2>4, <3>1, <3>2, <3>3
  <2>8. \/ UNCHANGED slot
        \/ \E d \in Call, w \in Worker :
             \/ AddEvent(w, d, "arm") /\ IsIO(d)
             \/ AddEvent(w, d, "leave") /\ Kind[d] = "connect"
             \/ Finish(w, d) \/ Close(w, d) \/ TimeoutDeletes(w, d)
    <3>1. CASE \E g \in Fd, a \in Event : Arrive(g, a)
      BY <3>1 DEF Arrive
    <3>2. CASE \E w \in Worker, d \in Call : PollTimer(w, d)
      BY <3>2 DEF PollTimer, eventVars
    <3>3. ASSUME NEW w \in Worker, PollEdges(w) PROVE UNCHANGED slot
      BY <3>3 DEF PollEdges, AfterEdges
    <3>4. ASSUME NEW w \in Worker, NEW d \in Call,
                 \/ Begin(w, d) \/ Assign(w, d) \/ Arm(w, d) \/ Resume(w, d)
                 \/ Connect(w, d) \/ RunWake(w, d) \/ RunSleepTimer(w, d)
                 \/ CancelOwn(w, d) \/ RunTimeout(w, d)
          PROVE  UNCHANGED slot
      BY <3>4 DEF Begin, Assign, Arm, Resume, Connect, RunWake, RunSleepTimer, CancelOwn,
                  RunTimeout, eventVars
    <3> QED
      BY <3>1, <3>2, <3>3, <3>4 DEF Next, Work
  <2> QED
    BY <2>1, <2>3, <2>5, <2>6, <2>7, <2>8
<1>2. Spec => [][Keeps]_vars
  BY <1>1, Invariance, PTL DEF Spec
<1> QED
  BY <1>2 DEF KeepsRegistration
=============================================================================
