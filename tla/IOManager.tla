------------------------------ MODULE IOManager ------------------------------
(***************************************************************************)
(* sylar::IOmanager's events (iomanager.cpp): the map m_events from file   *)
(* descriptors to contexts, the epoll interest list beside it, the workers *)
(* that turn edges into scheduled callbacks, and the pipe that tickles     *)
(* them.                                                                   *)
(*                                                                         *)
(* A client is code that registers events (a task's body, or main).  Its   *)
(* calls are split where the code drops schedule_mutex.  What the kernel   *)
(* does is modelled from how the code uses it: an edge-triggered item is   *)
(* put on the ready list by an arrival, or by epoll_ctl when the           *)
(* descriptor is ready already, and one epoll_wait takes it off.           *)
(*                                                                         *)
(* Clients keep to one call at a time for a descriptor (InUse).            *)
(* Dereferencing a context or a map entry that is gone is undefined: the   *)
(* model records that it happened (corrupt) and stops.  m_number_event,    *)
(* which is counted up and down but never read, is left out.               *)
(***************************************************************************)
EXTENDS Integers, FiniteSets

CONSTANTS
  Fd,            \* descriptors that clients register
  Ctx,           \* fdContext objects; bound: each is allocated once
  Worker,        \* threads in IOmanager::idle()
  Client,        \* threads that call the interface
  PipeCap,       \* bytes the pipe holds
  MaxArrivals,   \* bound on what the network does
  NoCtx, NoFd

ASSUME IOAssumption ==
  /\ NoCtx \notin Ctx /\ NoFd \notin Fd
  /\ PipeCap \in Nat /\ MaxArrivals \in Nat

Event == {"READ", "WRITE"}       \* EPOLLIN and EPOLLOUT have the same values

VARIABLES
  m_events,        \* Fd -> its context
  events_now,      \* the event each context was last set to
  slots,           \* the events of each context that have a callback
  live,            \* contexts not freed
  mask, data,      \* epoll: the event each Fd is registered for, its data.ptr
  level, listed,   \* kernel: what each Fd is ready for, and the ready list
  pipe, pipeListed,
  arrivals,        \* how many arrivals there were
  wpc, epvs,       \* workers: where they are, what epoll_wait gave them
  hitPipe,         \* ... and whether the pipe was among it
  cpc, cfd, cev,   \* clients: where they are, descriptor and event of the call
  cop,             \* addEvent: the epoll_ctl operation it decided on
  queued,          \* callbacks in the scheduler's slots
  halfAdded,       \* history: entries whose EPOLL_CTL_ADD failed
  corrupt          \* a context or map entry was used that had been freed

mapVars == <<m_events, events_now, slots, live>>
epollVars == <<mask, data, level, listed>>
pipeVars == <<pipe, pipeListed>>
workerVars == <<wpc, epvs, hitPipe>>
clientVars == <<cpc, cfd, cev, cop>>
vars == <<mapVars, epollVars, pipeVars, arrivals, workerVars,
          clientVars, queued, halfAdded, corrupt>>

Init ==
  /\ m_events = [f \in Fd |-> NoCtx]
  /\ events_now = [c \in Ctx |-> "READ"] /\ slots = [c \in Ctx |-> {}]
  /\ live = {}
  /\ mask = [f \in Fd |-> {}] /\ data = [f \in Fd |-> NoCtx]
  /\ level = [f \in Fd |-> {}] /\ listed = [f \in Fd |-> FALSE]
  /\ pipe = 0 /\ pipeListed = FALSE
  /\ arrivals = 0
  /\ wpc = [w \in Worker |-> "wait"] /\ epvs = [w \in Worker |-> {}]
  /\ hitPipe = [w \in Worker |-> FALSE]
  /\ cpc = [k \in Client |-> "free"] /\ cfd = [k \in Client |-> NoFd]
  /\ cev = [k \in Client |-> "READ"] /\ cop = [k \in Client |-> "ADD"]
  /\ queued = {}
  /\ halfAdded = {}
  /\ corrupt = FALSE

-----------------------------------------------------------------------------
(* The kernel.                                                             *)

(* Data, room to write, or an error (EPOLLERR, EPOLLHUP) arrives.          *)
Arrive(f, e) ==
  /\ arrivals < MaxArrivals
  /\ arrivals' = arrivals + 1
  /\ level' = [level EXCEPT ![f] = @ \cup {e}]
  /\ listed' = [listed EXCEPT ![f] = @ \/ (mask[f] # {} /\ e \in mask[f] \cup {"ERR"})]
  /\ UNCHANGED <<mapVars, mask, data, pipeVars, workerVars,
                 clientVars, queued, halfAdded, corrupt>>

(* epoll_ctl ADD or MOD: fails on the wrong kind of descriptor, and lists  *)
(* one that is ready for the new event already.                            *)
Register(f, op, e, c) ==
  /\ IF op = "ADD" THEN mask[f] = {} ELSE mask[f] # {}
  /\ mask' = [mask EXCEPT ![f] = {e}]
  /\ data' = [data EXCEPT ![f] = c]
  /\ listed' = [listed EXCEPT ![f] = @ \/ level[f] \cap {e, "ERR"} # {}]
  /\ UNCHANGED level

(* Mutant: the descriptor is left in the interest list.                    *)
Unregister_Not(f) == UNCHANGED <<mask, data, listed>>

Unregister(f) ==
  /\ mask' = [mask EXCEPT ![f] = {}]
  /\ data' = [data EXCEPT ![f] = NoCtx]
  /\ listed' = [listed EXCEPT ![f] = FALSE]

-----------------------------------------------------------------------------
(* A worker in idle().                                                     *)

(* epoll_wait, with a timeout of zero: the minimum of zero and the time to *)
(* the next timer.  The array (256 items) holds the whole ready list.      *)
Wait(w) ==
  LET fs == {f \in Fd : listed[f]}
      happened(f) == level[f] \cap (mask[f] \cup {"ERR"})
  IN  /\ wpc[w] = "wait"
      /\ fs # {} \/ pipeListed
      /\ epvs' = [epvs EXCEPT ![w] =
                    {[ptr |-> data[f], fd |-> f, events |-> happened(f)] :
                       f \in {g \in fs : happened(g) # {}}}]
      /\ hitPipe' = [hitPipe EXCEPT ![w] = pipeListed]
      /\ listed' = [f \in Fd |-> FALSE]
      /\ pipeListed' = FALSE
      /\ wpc' = [wpc EXCEPT ![w] = "handle"]
      /\ UNCHANGED <<mapVars, mask, data, level, pipe, arrivals,
                     clientVars, queued, halfAdded, corrupt>>

(* Mutant: read() taken to have filled the buffer of ten.                  *)
BytesRead_Asked == 10

(* read() of one byte from the non-blocking end.                           *)
BytesRead == IF pipe = 0 THEN 0 ELSE 1

(* The pipe's event: one byte is read.                                     *)
HandlePipe(w) ==
  /\ wpc[w] = "handle" /\ hitPipe[w]
  /\ pipe' = pipe - BytesRead
  /\ hitPipe' = [hitPipe EXCEPT ![w] = FALSE]
  /\ UNCHANGED <<mapVars, epollVars, pipeListed, arrivals, wpc, epvs,
                 clientVars, queued, halfAdded, corrupt>>

(* An error counts as the event the context is set to; the context is      *)
(* reached through the raw pointer epoll kept.                             *)
Widen(w, i) ==
  /\ wpc[w] = "handle" /\ i \in epvs[w] /\ "ERR" \in i.events
  /\ IF i.ptr \in live
       THEN /\ epvs' = [epvs EXCEPT ![w] = (@ \ {i}) \cup
                          {[i EXCEPT !.events = (@ \ {"ERR"}) \cup {events_now[i.ptr]}]}]
            /\ UNCHANGED corrupt
       ELSE corrupt' = TRUE /\ UNCHANGED epvs
  /\ UNCHANGED <<mapVars, epollVars, pipeVars, arrivals, wpc, hitPipe,
                 clientVars, queued, halfAdded>>

(* Mutant: GetEvent() knows the reading side only.                         *)
Slot_ReadOnly(c, e) == e = "READ" /\ e \in slots[c]

(* The context has a callback for the event.                               *)
Slot(c, e) == e \in slots[c]

(* triggerEvent() for READ, then for WRITE: the callback, if there is one, *)
(* goes to the scheduler, and the count of events goes down.               *)
Trigger(w, i, e) ==
  /\ wpc[w] = "handle" /\ i \in epvs[w] /\ "ERR" \notin i.events /\ e \in i.events
  /\ e = "WRITE" => "READ" \notin i.events
  /\ IF i.ptr \in live
       THEN /\ epvs' = [epvs EXCEPT ![w] = (@ \ {i}) \cup
                          (IF i.events = {e} THEN {} ELSE {[i EXCEPT !.events = @ \ {e}]})]
            /\ IF Slot(i.ptr, e)
                 THEN /\ queued' = queued \cup {<<i.fd, e>>}
                      /\ wpc' = [wpc EXCEPT ![w] = "tickle"]
                 ELSE UNCHANGED <<queued, wpc>>
            /\ UNCHANGED corrupt
       ELSE /\ corrupt' = TRUE
            /\ UNCHANGED <<epvs, queued, wpc>>
  /\ UNCHANGED <<mapVars, epollVars, pipeVars, arrivals, hitPipe, clientVars, halfAdded>>

(* tickle() at the end of schedule(): a blocking write of one byte.        *)
Tickle(w) ==
  /\ wpc[w] = "tickle"
  /\ pipe < PipeCap
  /\ pipe' = pipe + 1 /\ pipeListed' = TRUE
  /\ wpc' = [wpc EXCEPT ![w] = "handle"]
  /\ UNCHANGED <<mapVars, epollVars, arrivals, epvs, hitPipe,
                 clientVars, queued, halfAdded, corrupt>>

(* Every other schedule() tickles as well.                                 *)
OtherTickle ==
  /\ pipe < PipeCap
  /\ pipe' = pipe + 1 /\ pipeListed' = TRUE
  /\ UNCHANGED <<mapVars, epollVars, arrivals, workerVars, clientVars, queued,
                 halfAdded, corrupt>>

(* The list is done: back to run(), which resumes idle() later.            *)
Yield(w) ==
  /\ wpc[w] = "handle" /\ epvs[w] = {} /\ ~hitPipe[w]
  /\ wpc' = [wpc EXCEPT ![w] = "wait"]
  /\ UNCHANGED <<mapVars, epollVars, pipeVars, arrivals, epvs, hitPipe,
                 clientVars, queued, halfAdded, corrupt>>

(* A callback runs and uses up what its descriptor was ready for.          *)
RunCallback(f, e) ==
  /\ <<f, e>> \in queued
  /\ queued' = queued \ {<<f, e>>}
  /\ level' = [level EXCEPT ![f] = @ \ {e}]
  /\ UNCHANGED <<mapVars, mask, data, listed, pipeVars, arrivals,
                 workerVars, clientVars, halfAdded, corrupt>>

-----------------------------------------------------------------------------
(* The interface.                                                          *)

InUse(f) == \E k \in Client : cpc[k] # "free" /\ cfd[k] = f

Enter(k, l, f, e) ==
  /\ cpc[k] = "free" /\ ~InUse(f)
  /\ cpc' = [cpc EXCEPT ![k] = l]
  /\ cfd' = [cfd EXCEPT ![k] = f] /\ cev' = [cev EXCEPT ![k] = e]

Return(k) ==
  /\ cpc' = [cpc EXCEPT ![k] = "free"] /\ cfd' = [cfd EXCEPT ![k] = NoFd]
  /\ cev' = [cev EXCEPT ![k] = "READ"] /\ cop' = [cop EXCEPT ![k] = "ADD"]

Fresh == {c \in Ctx : c \notin live /\ slots[c] = {}}

(* addEvent(), the locked part: a new context, or the old one set to the   *)
(* new event (not to both).                                                *)
Add(k, f, e) ==
  /\ m_events[f] # NoCtx \/ Fresh # {}
  /\ Enter(k, "addCtl", f, e)
  /\ IF m_events[f] = NoCtx
       THEN LET c == CHOOSE d \in Fresh : TRUE
            IN
              /\ m_events' = [m_events EXCEPT ![f] = c]
              /\ live' = live \cup {c}
              /\ events_now' = [events_now EXCEPT ![c] = e]
              /\ slots' = [slots EXCEPT ![c] = {e}]
              /\ cop' = [cop EXCEPT ![k] = "ADD"]
       ELSE LET c == m_events[f]
            IN  /\ events_now' = [events_now EXCEPT ![c] = e]
                /\ slots' = [slots EXCEPT ![c] = @ \cup {e}]
                /\ cop' = [cop EXCEPT ![k] = "MOD"]
                /\ UNCHANGED <<m_events, live>>
  /\ UNCHANGED <<epollVars, pipeVars, arrivals, workerVars, queued,
                 halfAdded, corrupt>>

(* Then epoll_ctl without the lock.  An ADD may fail (no memory, too many  *)
(* watches); the entry stays in the map and addEvent() returns false.  A   *)
(* MOD of such an entry's descriptor fails.  After a success the code looks*)
(* at m_events[fd] once more, without the lock; as the descriptor has no   *)
(* other call going on, the entry is there.                                *)
AddCtl(k) ==
  LET f == cfd[k]
  IN  /\ cpc[k] = "addCtl"
      /\ \/ /\ Register(f, cop[k], cev[k], m_events[f])
            /\ Return(k)
            /\ UNCHANGED halfAdded
         \/ /\ cop[k] = "ADD" \/ mask[f] = {}
            /\ Return(k)
            /\ halfAdded' = halfAdded \cup {f}
            /\ UNCHANGED epollVars
      /\ UNCHANGED <<mapVars, pipeVars, arrivals, workerVars, queued, corrupt>>

(* delEvent(), cancel(), changerEvent(): the lookup under the shared lock. *)
Lookup(k, f, e, l) ==
  /\ m_events[f] # NoCtx
  /\ l = "delRun" => Slot(m_events[f], e)
  /\ Enter(k, l, f, e)
  /\ UNCHANGED <<cop, mapVars, epollVars, pipeVars, arrivals, workerVars,
                 queued, halfAdded, corrupt>>

(* Mutant: the entry stays when its context is freed.                      *)
Erased_Keeps(f) == m_events

Erased(f) == [m_events EXCEPT ![f] = NoCtx]

Freed(f) == live \ {m_events[f]}

(* delEvent() under the exclusive lock: the count goes down first, the     *)
(* entry goes only if epoll knew the descriptor.  With activate the event's*)
(* callback is run in place, lock held; clients ask so only for an event   *)
(* that has a callback.                                                    *)
Del(k) ==
  LET f == cfd[k]
  IN  /\ cpc[k] \in {"del", "delRun"}
      /\ IF mask[f] = {}
           THEN UNCHANGED <<m_events, live, epollVars>>
           ELSE /\ Unregister(f)
                /\ level' = [level EXCEPT ![f] = IF cpc[k] = "delRun" THEN @ \ {cev[k]} ELSE @]
                /\ live' = Freed(f)
                /\ m_events' = Erased(f)
      /\ Return(k)
      /\ UNCHANGED <<events_now, slots, pipeVars, arrivals, workerVars, queued,
                     halfAdded, corrupt>>

(* cancel(): the entry goes first, whatever epoll says; the count stays.   *)
(* The iterator still points at the freed entry when the event and the     *)
(* pointer for EPOLL_CTL_DEL are read through it.  Either the memory is as *)
(* it was, and the kernel ignores both, or it has been used again.         *)
Cancel(k) ==
  LET f == cfd[k]
  IN  /\ cpc[k] = "cancel"
      /\ Unregister(f)
      /\ live' = Freed(f)
      /\ m_events' = Erased(f)
      /\ halfAdded' = halfAdded \ {f}
      /\ corrupt' \in BOOLEAN
      /\ Return(k)
      /\ UNCHANGED <<events_now, slots, level, pipeVars, arrivals, workerVars, queued>>

(* changerEvent(): the other event, with whatever callback it has.         *)
Change(k) ==
  LET f == cfd[k]
      c == m_events[f]
  IN  /\ cpc[k] = "change"
      /\ events_now' = [events_now EXCEPT ![c] = cev[k]]
      /\ IF mask[f] = {} THEN UNCHANGED epollVars ELSE Register(f, "MOD", cev[k], c)
      /\ Return(k)
      /\ UNCHANGED <<m_events, slots, live, pipeVars, arrivals, workerVars,
                     queued, halfAdded, corrupt>>

-----------------------------------------------------------------------------
InIdle(w) ==
  \/ Wait(w) \/ HandlePipe(w) \/ Tickle(w) \/ Yield(w)
  \/ \E i \in epvs[w] : Widen(w, i) \/ \E e \in Event : Trigger(w, i, e)

InCall(k) == AddCtl(k) \/ Del(k) \/ Cancel(k) \/ Change(k)

Next ==
  /\ ~corrupt
  /\ \/ \E f \in Fd, e \in Event \cup {"ERR"} : Arrive(f, e)
     \/ OtherTickle
     \/ \E w \in Worker : InIdle(w)
     \/ \E f \in Fd, e \in Event : RunCallback(f, e)
     \/ \E k \in Client : InCall(k)
     \/ \E k \in Client, f \in Fd, e \in Event :
          Add(k, f, e) \/ \E l \in {"del", "delRun", "cancel", "change"} : Lookup(k, f, e, l)

Spec == Init /\ [][Next]_vars

(* The workers run; clients and the network do as they like, but a call    *)
(* once begun goes on.                                                     *)
Fairness ==
  /\ \A w \in Worker : WF_vars(~corrupt /\ InIdle(w))
  /\ \A k \in Client : WF_vars(~corrupt /\ InCall(k))

FairSpec == Spec /\ Fairness

-----------------------------------------------------------------------------
(* Properties.                                                             *)

(* Types of the variables; the pipe neither overflows nor is read below    *)
(* empty (iomanager.cpp:264, 319).                                         *)
TypeOK ==
  /\ m_events \in [Fd -> Ctx \cup {NoCtx}]
  /\ events_now \in [Ctx -> Event] /\ slots \in [Ctx -> SUBSET Event]
  /\ live \subseteq Ctx
  /\ mask \in [Fd -> SUBSET Event] /\ data \in [Fd -> Ctx \cup {NoCtx}]
  /\ level \in [Fd -> SUBSET (Event \cup {"ERR"})] /\ listed \in [Fd -> BOOLEAN]
  /\ pipe \in 0 .. PipeCap /\ pipeListed \in BOOLEAN
  /\ arrivals \in 0 .. MaxArrivals
  /\ wpc \in [Worker -> {"wait", "handle", "tickle"}]
  /\ \A w \in Worker : \A i \in epvs[w] : i.ptr \in Ctx /\ i.fd \in Fd
  /\ hitPipe \in [Worker -> BOOLEAN]
  /\ cpc \in [Client -> {"free", "addCtl", "del", "delRun", "cancel", "change"}]
  /\ cfd \in [Client -> Fd \cup {NoFd}] /\ cev \in [Client -> Event]
  /\ cop \in [Client -> {"ADD", "MOD"}]
  /\ queued \subseteq Fd \X Event
  /\ halfAdded \subseteq Fd
  /\ corrupt \in BOOLEAN

(* Between calls the map and the epoll interest list tell the same story:  *)
(* a descriptor is watched for the event of its context, through its       *)
(* context, and nothing else is watched.  The one exception is an entry    *)
(* left behind by an EPOLL_CTL_ADD that failed.                            *)
InterestMatches ==
  \A f \in Fd : ~InUse(f) =>
    /\ mask[f] # {} <=> m_events[f] # NoCtx /\ f \notin halfAdded
    /\ mask[f] # {} => data[f] = m_events[f] /\ mask[f] = {events_now[m_events[f]]}

(* epoll never keeps a pointer to a context that was freed, nor the map.   *)
NoDanglingInterest ==
  \A f \in Fd : data[f] \in live \cup {NoCtx} /\ m_events[f] \in live \cup {NoCtx}

(* An edge of an event that has a callback reaches the scheduler, unless   *)
(* the event is given up meanwhile, a dead context was used, or the tickle *)
(* pipe has filled up.                                                     *)
EdgeDispatched ==
  \A f \in Fd, e \in Event :
    (listed[f] /\ mask[f] = {e} /\ e \in level[f] /\ e \in slots[data[f]]) ~>
      (<<f, e>> \in queued \/ mask[f] # {e} \/ e \notin level[f]
        \/ corrupt \/ pipe = PipeCap)

(* A worker that gets the signal reads all of it (iomanager.cpp:262).      *)
PipeDrained ==
  [][\A w \in Worker : hitPipe[w] /\ ~hitPipe'[w] => pipe' = 0]_vars
=============================================================================
