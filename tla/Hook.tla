--------------------------------- MODULE Hook ---------------------------------
(***************************************************************************)
(* The hooked system calls that wait (hook.cpp): sleep(), usleep() and     *)
(* nanosleep(), the do_io() behind read() to sendmsg(), connect(), and     *)
(* close() against them; over the workers of an IOmanager, its timers, its *)
(* events and its task slots.                                              *)
(*                                                                         *)
(* A call does not give its worker up: the worker goes on polling from     *)
(* inside the call until a flag on the call's stack is cleared.  Polling   *)
(* only hands callbacks over as tasks, and a task is run by a worker that  *)
(* is in run().  Slots are reused, so tasks are taken in any order.  The   *)
(* steps inside addEvent(), delEvent() and idle() are those of modules     *)
(* IOManager and Timer; here each of them is one step.  What the calls see *)
(* of Timer's set is modelled: it is ordered by m_next alone, so of two    *)
(* timers of one millisecond the second is refused, and the cancel() of    *)
(* the one takes the other out.                                            *)
(*                                                                         *)
(* When a callback uses the stack of a call that has returned, or what the *)
(* call has not yet set, the model records it in fault and stops.          *)
(***************************************************************************)
EXTENDS Integers

CONSTANTS
  Worker,        \* threads in IOmanager::run()
  Call,          \* tasks whose body is one hooked call
  Fd,            \* connected sockets the program left blocking
  Kind,          \* Call -> which call it is
  Target,        \* Call -> the descriptor (any, for the sleeps)
  Programs,      \* the sets of calls that are scheduled together
  Deadline,      \* milliseconds a timer may be due at
  MaxArrivals,   \* bound: what the network does
  NoCall, NoDeadline

Sleeps == {"sleep", "usleep"}        \* nanosleep() is as usleep()
Event == {"READ", "WRITE"}

ASSUME HookAssumption ==
  /\ NoCall \notin Call
  /\ Kind \in [Call -> Sleeps \cup {"read", "write", "connect", "close"}]
  /\ Target \in [Call -> Fd]
  /\ Programs \subseteq SUBSET Call /\ MaxArrivals \in Nat
  /\ NoDeadline \notin Deadline

VARIABLES
  pc,           \* where each call is
  doing,        \* what each worker is in: a call, half a callback, or run()
  flag,         \* the calls' local flag: TRUE while they are to wait
  timers,       \* calls whose timer is in m_timers
  due,          \* m_next of each call's timer
  lost,         \* history: calls whose timer was refused, or erased by another
  expired,      \* timer callbacks among the tasks
  cancelled,    \* timer_info::cancelled
  interest,     \* the event each descriptor is registered for, or "NONE"
  slot,         \* its callbacks, by the call whose flag they clear
  ready, edge,  \* kernel: what it is ready for, and whether an edge waits
  closed,       \* descriptors closed
  wakes,        \* event callbacks among the tasks, for each call
  triggered,    \* history: how often each call's callback was scheduled
  arrivals, fault

eventVars == <<interest, slot, edge>>
timerSet == <<timers, due, lost>>
timerVars == <<timers, due, lost, expired, cancelled>>
taskVars == <<wakes, triggered>>
netVars == <<ready, closed, arrivals>>
vars == <<pc, doing, flag, timerVars, eventVars, taskVars, netVars, fault>>

IsIO(c) == Kind[c] \in {"read", "write"}

(* Mutant: a writer is registered for both events in one.                  *)
Ev_Both(c) == IF Kind[c] = "read" THEN "READ" ELSE "READWRITE"

(* The event a call waits for.                                             *)
Ev(c) == IF Kind[c] = "read" THEN "READ" ELSE "WRITE"
NoSlots == [e \in Event |-> NoCall]
NoFault == [call |-> NoCall, why |-> "none"]

(* The call has begun; it has not returned either: its stack is there.     *)
Begun(c) == pc[c] \notin {"absent", "queued"}
Alive(c) == Begun(c) /\ pc[c] # "done"

Init ==
  /\ \E S \in Programs :
       pc = [c \in Call |-> IF c \in S THEN "queued" ELSE "absent"]
  /\ doing = [w \in Worker |-> <<"run", NoCall>>]
  /\ flag = [c \in Call |-> TRUE]
  /\ timers = {} /\ due = [c \in Call |-> NoDeadline] /\ lost = {}
  /\ expired = {} /\ cancelled = {}
  /\ interest = [f \in Fd |-> "NONE"] /\ slot = [f \in Fd |-> NoSlots]
  /\ ready = [f \in Fd |-> {}] /\ edge = [f \in Fd |-> FALSE]
  /\ closed = {}
  /\ wakes = [c \in Call |-> 0] /\ triggered = [c \in Call |-> 0]
  /\ arrivals = 0
  /\ fault = NoFault

Goto(c, l) == pc' = [pc EXCEPT ![c] = l]
Does(w, d) == doing' = [doing EXCEPT ![w] = d]
Free(w) == doing[w][1] = "run"
In(w, c, l) == doing[w] = <<"call", c>> /\ pc[c] = l

(* A task is done, or a call returns to run().                             *)
Leave(w, c) == Goto(c, "done") /\ Does(w, <<"run", NoCall>>)

-----------------------------------------------------------------------------
(* The kernel.                                                             *)

(* Data, or room to write, or an error; an edge if it is registered for.   *)
Arrive(f, e) ==
  /\ arrivals < MaxArrivals /\ f \notin closed
  /\ \E c \in Call : /\ Target[c] = f /\ Ev(c) = e /\ pc[c] # "absent"
                    /\ Kind[c] \notin Sleeps \cup {"close"}
  /\ arrivals' = arrivals + 1
  /\ ready' = [ready EXCEPT ![f] = @ \cup {e}]
  /\ edge' = [edge EXCEPT ![f] = @ \/ interest[f] = e]
  /\ UNCHANGED <<pc, doing, flag, timerVars, interest, slot, taskVars, closed, fault>>

(* The call gets what it is for, or learns that the descriptor is closed.  *)
Succeeds(c) == Ev(c) \in ready[Target[c]] \/ Target[c] \in closed
Consume(c) == ready' = [ready EXCEPT ![Target[c]] = @ \ {Ev(c)}]

-----------------------------------------------------------------------------
(* A worker polls.                                                         *)

(* The callbacks that wait for an event, by epoll's view of it.            *)
Woken(f) ==
  IF edge[f] /\ interest[f] \in ready[f] THEN {slot[f][interest[f]]} \ {NoCall} ELSE {}

(* Mutant: the registration is used up by its edge.                        *)
AfterEdges_OneShot ==
  slot' = [f \in Fd |-> IF edge[f] THEN NoSlots ELSE slot[f]]

(* The registration stays, and may be triggered again.                     *)
AfterEdges == UNCHANGED slot

(* Who resumes IOmanager::idle(): run(), and a call that waits.            *)
Polls(w) == Free(w) \/ \E c \in Call : In(w, c, "wait") /\ flag[c]

(* A turn of idle() that finds edges: their callbacks become tasks.        *)
PollEdges(w) ==
  LET woken == UNION {Woken(f) : f \in Fd}
  IN  /\ Polls(w) /\ \E f \in Fd : edge[f]
      /\ edge' = [f \in Fd |-> FALSE]
      /\ AfterEdges
      /\ wakes' = [c \in Call |-> wakes[c] + IF c \in woken THEN 1 ELSE 0]
      /\ triggered' = [c \in Call |-> triggered[c] + IF c \in woken THEN 1 ELSE 0]
      /\ UNCHANGED <<pc, doing, flag, timerVars, interest, netVars, fault>>

(* A turn that finds the time of c's timer come.                           *)
PollTimer(w, c) ==
  /\ Polls(w) /\ c \in timers
  /\ timers' = timers \ {c} /\ expired' = expired \cup {c}
  /\ UNCHANGED <<pc, doing, flag, due, lost, cancelled, eventVars, taskVars, netVars, fault>>

-----------------------------------------------------------------------------
(* The calls.                                                              *)

(* addTimer(): m_next is computed, and insert() refuses a timer of the     *)
(* same m_next as one that is there; nobody looks at its result.           *)
AddTimer(c) ==
  \E t \in Deadline :
    /\ due' = [due EXCEPT ![c] = t]
    /\ IF \E d \in timers : due[d] = t
         THEN lost' = lost \cup {c} /\ UNCHANGED timers
         ELSE timers' = timers \cup {c} /\ UNCHANGED lost

(* Timer::cancel(): find() knows a timer by its m_next, whoever's it is.   *)
CancelTimer(c) ==
  LET hit == {d \in timers : due[d] = due[c]}
  IN  timers' = timers \ hit /\ lost' = lost \cup (hit \ {c}) /\ UNCHANGED due

(* The sleeps, and do_io()'s first attempt, which returns at once when     *)
(* there is something or when the descriptor has no context any more.      *)
(* Every wait of do_io() has a timer: it sets the timeout itself.          *)
Begin(w, c) ==
  /\ Free(w) /\ pc[c] = "queued"
  /\ \/ /\ Kind[c] \in Sleeps
        /\ Goto(c, "timer") /\ Does(w, <<"call", c>>)
        /\ AddTimer(c)
        /\ UNCHANGED ready
     \/ /\ IsIO(c) /\ Succeeds(c)
        /\ Goto(c, "done") /\ Consume(c)
        /\ UNCHANGED <<doing, timerSet>>
     \/ /\ IsIO(c) /\ ~Succeeds(c)
        /\ Goto(c, "add") /\ Does(w, <<"call", c>>)
        /\ AddTimer(c)
        /\ UNCHANGED ready
  /\ UNCHANGED <<flag, expired, cancelled, eventVars, taskVars, closed, arrivals, fault>>

(* Mutant: the flag is set when the timer is on its way already.           *)
Assign_Sets(w, c) ==
  /\ In(w, c, "timer")
  /\ Goto(c, "wait")
  /\ flag' = [flag EXCEPT ![c] = TRUE]
  /\ UNCHANGED <<doing, timerVars, eventVars, taskVars, netVars, fault>>

(* addTimer() has returned, and sleepTimer is assigned.                    *)
Assign(w, c) ==
  /\ In(w, c, "timer")
  /\ Goto(c, "wait")
  /\ UNCHANGED <<doing, flag, timerVars, eventVars, taskVars, netVars, fault>>

(* addEvent(), whose result nobody looks at: the descriptor is registered  *)
(* for this event alone, beside the callback of the other event if there   *)
(* is one.  epoll_ctl fails on a closed descriptor.                        *)
AddEvent(w, c, next) ==
  LET f == Target[c]
  IN  /\ In(w, c, "add")
      /\ Goto(c, next)
      /\ IF f \in closed THEN UNCHANGED eventVars
         ELSE /\ interest' = [interest EXCEPT ![f] = Ev(c)]
              /\ slot' = [slot EXCEPT ![f][Ev(c)] = c]
              /\ edge' = [edge EXCEPT ![f] = @ \/ Ev(c) \in ready[f]]
      /\ UNCHANGED <<doing, flag, timerVars, taskVars, netVars, fault>>

(* The loop of do_io(): the flag is set, whatever happened before.         *)
Arm(w, c) ==
  /\ In(w, c, "arm")
  /\ Goto(c, "wait")
  /\ flag' = [flag EXCEPT ![c] = TRUE]
  /\ UNCHANGED <<doing, timerVars, eventVars, taskVars, netVars, fault>>

(* Mutant: do_io() tries again after each turn of idle().                  *)
MayResume_EachTurn(c) == ~flag[c] \/ IsIO(c)

(* while(flag): the call goes on when its flag is clear.                   *)
MayResume(c) == ~flag[c]

(* Then a sleep returns, and do_io() tries again.                          *)
Resume(w, c) ==
  /\ In(w, c, "wait") /\ MayResume(c)
  /\ \/ /\ Kind[c] \in Sleeps
        /\ Leave(w, c)
        /\ UNCHANGED ready
     \/ /\ IsIO(c) /\ Succeeds(c)
        /\ Goto(c, "finish") /\ Consume(c)
        /\ UNCHANGED doing
     \/ /\ IsIO(c) /\ ~Succeeds(c)
        /\ Goto(c, "arm")
        /\ UNCHANGED <<doing, ready>>
  /\ UNCHANGED <<flag, timerVars, eventVars, taskVars, closed, arrivals, fault>>

EraseEvents(f) ==
  /\ interest' = [interest EXCEPT ![f] = "NONE"]
  /\ slot' = [slot EXCEPT ![f] = NoSlots]
  /\ edge' = [edge EXCEPT ![f] = FALSE]

(* delEvent() without activate, which takes the whole descriptor out, and  *)
(* the return.  The timer is left in m_timers.                             *)
Finish(w, c) ==
  /\ In(w, c, "finish")
  /\ EraseEvents(Target[c])
  /\ Leave(w, c)
  /\ UNCHANGED <<flag, timerVars, taskVars, netVars, fault>>

(* connect(): success or EINPROGRESS, and it returns 0.  On another error  *)
(* it adds a timer and an event, finds that isStopping() does not hold,    *)
(* cancels the timer and returns, 0 again; the event stays registered.     *)
Connect(w, c) ==
  /\ Kind[c] = "connect"
  /\ \/ /\ Free(w) /\ pc[c] = "queued"
        /\ \/ Goto(c, "done") /\ UNCHANGED <<doing, timerSet>>
           \/ Goto(c, "add") /\ Does(w, <<"call", c>>) /\ AddTimer(c)
     \/ /\ In(w, c, "leave")
        /\ Leave(w, c)
        /\ CancelTimer(c)
  /\ UNCHANGED <<flag, expired, cancelled, eventVars, taskVars, netVars, fault>>

(* close(): cancel() takes the events out and wakes nobody; the context    *)
(* goes, and then the descriptor.                                          *)
Close(w, c) ==
  LET f == Target[c]
  IN  /\ Kind[c] = "close"
      /\ \/ /\ Free(w) /\ pc[c] = "queued"
            /\ Goto(c, "closing") /\ Does(w, <<"call", c>>)
            /\ UNCHANGED closed
         \/ /\ In(w, c, "closing")
            /\ closed' = closed \cup {f}
            /\ Leave(w, c)
      /\ EraseEvents(f)
      /\ UNCHANGED <<flag, timerVars, taskVars, ready, arrivals, fault>>

-----------------------------------------------------------------------------
(* The callbacks.                                                          *)

(* A callback clears the flag of c, if c's stack is still there.  That of  *)
(* connect() goes on to its timer and to delEvent(), which runs it again:  *)
(* then the timer is gone.                                                 *)
ClearFlag(c) ==
  IF Alive(c) /\ Kind[c] # "connect"
    THEN flag' = [flag EXCEPT ![c] = FALSE] /\ UNCHANGED fault
    ELSE fault' = [call |-> c, why |-> "frame"] /\ UNCHANGED flag

(* The callback of an event.                                               *)
RunWake(w, c) ==
  /\ Free(w) /\ wakes[c] > 0
  /\ wakes' = [wakes EXCEPT ![c] = @ - 1]
  /\ ClearFlag(c)
  /\ UNCHANGED <<pc, doing, timerVars, eventVars, triggered, netVars>>

(* The sleeps whose callback goes on to cancel the timer.                  *)
ThenCancels(c) == Kind[c] = "usleep"

(* The callback of a sleep's timer, its first line.                        *)
RunSleepTimer(w, c) ==
  /\ Free(w) /\ c \in expired /\ Kind[c] \in Sleeps
  /\ expired' = expired \ {c}
  /\ ClearFlag(c)
  /\ IF ThenCancels(c) THEN Does(w, <<"cancel", c>>) ELSE UNCHANGED doing
  /\ UNCHANGED <<pc, timerSet, cancelled, eventVars, taskVars, netVars>>

(* sleepTimer->cancel() through the sleeper's stack.  The timer itself is  *)
(* out of m_timers already: one that is found is another call's.           *)
CancelOwn(w, c) ==
  /\ doing[w] = <<"cancel", c>>
  /\ Does(w, <<"run", NoCall>>)
  /\ IF pc[c] = "wait"
       THEN CancelTimer(c) /\ UNCHANGED fault
       ELSE /\ fault' = [call |-> c, why |-> IF pc[c] = "timer" THEN "null" ELSE "frame"]
            /\ UNCHANGED timerSet
  /\ UNCHANGED <<pc, flag, expired, cancelled, eventVars, taskVars, netVars>>

(* The callback of a condition timer: nothing once the call has returned,  *)
(* and the timer_info with it.                                             *)
RunTimeout(w, c) ==
  /\ Free(w) /\ c \in expired /\ Kind[c] \notin Sleeps
  /\ expired' = expired \ {c}
  /\ IF Alive(c)
       THEN cancelled' = cancelled \cup {c} /\ Does(w, <<"timeout", c>>)
       ELSE UNCHANGED <<cancelled, doing>>
  /\ UNCHANGED <<pc, flag, timerSet, eventVars, taskVars, netVars, fault>>

(* Mutant: the timeout takes the event out without running its callback.   *)
Activated_No(c) == UNCHANGED <<flag, fault>>

(* delEvent() with activate runs the callback the entry now has for the    *)
(* event, whoever added it; an empty one throws.                           *)
Activated(c) ==
  LET d == slot[Target[c]][Ev(c)]
  IN  IF d = NoCall
        THEN fault' = [call |-> c, why |-> "throw"] /\ UNCHANGED flag
        ELSE ClearFlag(d)

(* ... and erases the entry, if there was one.                             *)
TimeoutDeletes(w, c) ==
  /\ doing[w] = <<"timeout", c>>
  /\ Does(w, <<"run", NoCall>>)
  /\ IF interest[Target[c]] = "NONE"
       THEN UNCHANGED <<flag, fault, eventVars>>
       ELSE Activated(c) /\ EraseEvents(Target[c])
  /\ UNCHANGED <<pc, timerVars, taskVars, netVars>>

-----------------------------------------------------------------------------
Work(w) ==
  \/ PollEdges(w)
  \/ \E c \in Call :
       \/ Begin(w, c) \/ Assign(w, c) \/ Arm(w, c) \/ Resume(w, c) \/ Finish(w, c)
       \/ IsIO(c) /\ AddEvent(w, c, "arm")
       \/ Kind[c] = "connect" /\ AddEvent(w, c, "leave")
       \/ Connect(w, c) \/ Close(w, c)
       \/ RunWake(w, c) \/ RunSleepTimer(w, c) \/ CancelOwn(w, c)
       \/ RunTimeout(w, c) \/ TimeoutDeletes(w, c)

Next ==
  /\ fault = NoFault
  /\ \/ \E f \in Fd, e \in Event : Arrive(f, e)
     \/ \E w \in Worker, c \in Call : PollTimer(w, c)
     \/ \E w \in Worker : Work(w)

Spec == Init /\ [][Next]_vars

(* Workers run, and as long as one of them polls the time of a timer comes *)
(* and is found; the network does as it likes.                             *)
Fairness ==
  /\ \A w \in Worker : WF_vars(fault = NoFault /\ Work(w))
  /\ \A c \in Call : 
       WF_vars(fault = NoFault /\ \E w \in Worker : PollTimer(w, c))

FairSpec == Spec /\ Fairness

-----------------------------------------------------------------------------
(* Properties.                                                             *)

(* Types of the variables.                                                 *)
TypeOK ==
  /\ pc \in [Call -> {"absent", "queued", "timer", "add", "arm", "wait", "finish", "leave",
                      "closing", "done"}]
  /\ doing \in [Worker -> {"run", "call", "cancel", "timeout"} \X (Call \cup {NoCall})]
  /\ flag \in [Call -> BOOLEAN]
  /\ timers \subseteq Call /\ lost \subseteq Call
  /\ due \in [Call -> Deadline \cup {NoDeadline}]
  /\ expired \subseteq Call /\ cancelled \subseteq Call
  /\ interest \in [Fd -> Event \cup {"NONE"}]
  /\ slot \in [Fd -> [Event -> Call \cup {NoCall}]]
  /\ ready \in [Fd -> SUBSET Event] /\ edge \in [Fd -> BOOLEAN]
  /\ closed \subseteq Fd
  /\ wakes \in [Call -> 0 .. MaxArrivals + 1]
  /\ triggered \in [Call -> 0 .. MaxArrivals + 1]
  /\ arrivals \in 0 .. MaxArrivals
  /\ fault \in [call : Call \cup {NoCall}, why : {"none", "frame", "null", "throw"}]

(* No other call, and no timeout of one, is at work on c's descriptor.     *)
Alone(c) ==
  \A d \in Call \ {c} :
    Target[d] = Target[c] /\ Kind[d] \notin Sleeps =>
      /\ ~Alive(d)
      /\ \A w \in Worker : doing[w] # <<"timeout", d>>

(* Every worker is in a call and waits; so it stays, for nobody is left to *)
(* run what clears a flag.                                                 *)
AllBlocked == \A w \in Worker : \E c \in Call : In(w, c, "wait") /\ flag[c]

(* What a callback can do to a stack that is gone (hook.cpp:130, 208, 232, *)
(* 307): that of sleep() never does; that of usleep() by its second line;  *)
(* that of do_io() when it was queued twice, after a timeout, or when      *)
(* another call has come to the descriptor; an empty one is run only when  *)
(* another call has.                                                       *)
FaultCauses ==
  LET c == fault.call
  IN  fault # NoFault =>
        \/ Kind[c] \in {"usleep", "connect"}
        \/ /\ IsIO(c)
           /\ \/ fault.why = "frame" /\ (triggered[c] >= 2 \/ c \in cancelled)
              \/ \E d \in Call \ {c} : Target[d] = Target[c] /\ Kind[d] \notin Sleeps
                                         /\ Begun(d)

(* A call that has its descriptor to itself stays registered, over edges   *)
(* that gave it nothing too, until it ends or times out (hook.cpp:134).    *)
KeepsRegistration ==
  [][\A c \in Call :
       /\ IsIO(c) /\ pc[c] = "wait" /\ pc'[c] = "wait" /\ Alone(c) /\ Alone(c)'
       /\ slot[Target[c]][Ev(c)] = c
       => slot'[Target[c]][Ev(c)] = c \/ c \in cancelled]_vars

(* A sleeping call that is still to wait has its timer in the set, or the  *)
(* callback among the tasks; the only loss is to a timer of the same       *)
(* millisecond (hook.cpp:185, Timer.cpp:23, 96).                           *)
TimerHeld ==
  \A c \in {b \in Call : Kind[b] \in Sleeps} :
    Alive(c) /\ flag[c] =>
      \/ c \in timers \cup expired
      \/ \E d \in Call \ {c} : due[d] = due[c]

(* A sleeping call wakes up (hook.cpp:189), unless its timer met another   *)
(* of the same millisecond and was refused, or erased in the other's       *)
(* place, or no worker is left to run its callback, or one of the faults   *)
(* above ends it all.                                                      *)
SleeperWakes ==
  \A c \in {b \in Call : Kind[b] \in Sleeps} :
    pc[c] = "wait" ~> (pc[c] = "done" \/ c \in lost \/ AllBlocked \/ fault # NoFault)

(* Data that is there before the timeout is returned, even when the flag   *)
(* was set after the wake-up: the timeout then makes do_io() look again    *)
(* (hook.cpp:119, 135).  Not so when another call comes to the descriptor, *)
(* or when the timer of the timeout met one of the same millisecond.       *)
DataReturned ==
  \A c \in {b \in Call : IsIO(b)} :
    (/\ pc[c] = "wait" /\ c \notin cancelled
     /\ slot[Target[c]][Ev(c)] = c /\ Ev(c) \in ready[Target[c]])
      ~> \/ pc[c] \in {"finish", "done"} \/ Ev(c) \notin ready[Target[c]]
         \/ c \in lost \/ ~Alone(c) \/ AllBlocked \/ fault # NoFault
=============================================================================
