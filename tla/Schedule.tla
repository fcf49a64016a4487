------------------------------ MODULE Schedule ------------------------------
(***************************************************************************)
(* sylar::Schedule: worker threads that share a vector of task slots       *)
(* (schedule.cpp, schedule.hpp).  Each worker runs a loop that takes the   *)
(* task of the first occupied slot, runs it, and otherwise resumes its     *)
(* idle coroutine, which spins until task_number says there is work.       *)
(*                                                                         *)
(* Sections under the exclusive side of schedule_mutex are one step each;  *)
(* sections under its shared side are two (lock, and read + unlock), so    *)
(* that overlapping readers keep a writer out as they do in the program.   *)
(* The two accesses to m_stopping made outside the lock, in schedule() and *)
(* in ~Schedule(), are steps of their own.                                 *)
(*                                                                         *)
(* The owner is the thread that builds, starts and destroys the scheduler  *)
(* (main in tests/test_schedule.cpp).  It and the bodies of running tasks  *)
(* are the program's callers of schedule(); each task is handed over once  *)
(* and its callback is not null.                                           *)
(***************************************************************************)
EXTENDS Integers, Sequences, FiniteSets

CONSTANTS
  Worker,        \* the threads start() creates: m_thread_cout of them
  Owner,         \* the thread that owns the Schedule object
  Task,          \* the callbacks handed to schedule()
  NoTask,        \* an empty std::function
  Ends           \* how the owner gives the scheduler up: "destroy", "stop"

Caller == Worker \cup {Owner}

ASSUME WorkerAssumption == IsFiniteSet(Worker) /\ Worker # {} /\ Owner \notin Worker
ASSUME TaskAssumption == IsFiniteSet(Task) /\ NoTask \notin Task
ASSUME EndsAssumption == Ends \subseteq {"destroy", "stop"}

VARIABLES
  m_task,             \* the slots: a callback, or NoTask after reset()
  task_number,        \* tasks accepted and not yet counted as finished
  idele_thread_cout,  \* counted down for each task taken, never up
  m_stopping,
  pc,                 \* where each worker is in run() and idle()
  task,               \* the local copy of run(): the task the worker took
  idle_fiber,         \* each worker's coroutine: "live", or "finished"
  arg,                \* the callback a caller holds past line 48 of schedule()
  owner,              \* where the owner is in the life of the scheduler
  aborted,            \* std::terminate or a failed assertion ended the process
  asked,              \* history: callbacks some call of schedule() was made with
  refused,            \* history: those dropped because m_stopping was set
  ran                 \* history: how often each body ran to its end

slotVars == <<m_task, task_number>>
history == <<asked, refused, ran>>
vars == <<m_task, task_number, idele_thread_cout, m_stopping, pc, task,
          idle_fiber, arg, owner, aborted, asked, refused, ran>>

WorkerPC ==
  {"off",         \* not created yet
   "idle",        \* at the head of the loop of idle()
   "idleRead",    \* in idle(), holding the lock shared
   "take",        \* at the head of the loop of run()
   "exec",        \* in the task's body
   "count",       \* after the body, before the lock that counts it down
   "check",       \* before the shared lock of the stop test
   "checkRead",   \* holding it
   "returned"}    \* run() returned: the thread ends

OwnerPC == {"building", "starting", "open", "joining", "destroyed", "stopLocked"}

-----------------------------------------------------------------------------
(* The lock.  std::shared_mutex is a glibc rwlock.                         *)

Readers == {w \in Worker : pc[w] \in {"idleRead", "checkRead"}}
HeldExclusive == owner = "stopLocked"

CanLockShared == ~HeldExclusive
CanLock == ~HeldExclusive /\ Readers = {}

-----------------------------------------------------------------------------
(* The slots.                                                              *)

OccupiedIn(s) == {i \in DOMAIN s : s[i] # NoTask}
FreeIn(s) == {i \in DOMAIN s : s[i] = NoTask}
FirstOf(S) == CHOOSE i \in S : \A j \in S : i <= j

(* Mutant: the callback is swapped into the first slot, empty or not.      *)
Put_Overwrites(s, t) ==
  IF s = <<>> THEN Append(s, t) ELSE [s EXCEPT ![1] = t]

(* A new task reuses the first empty slot, else the vector grows.          *)
Put(s, t) ==
  IF FreeIn(s) = {} THEN Append(s, t)
                    ELSE [s EXCEPT ![FirstOf(FreeIn(s))] = t]

Queued == {m_task[i] : i \in OccupiedIn(m_task)}

(* Workers whose task has left its slot and is not counted down yet.       *)
Busy == {w \in Worker : pc[w] \in {"exec", "count"}}

(* Mutant: one increment for a whole range.                                *)
AddTasks_Once(n) == task_number' = task_number + 1

AddTasks(n) == task_number' = task_number + n

-----------------------------------------------------------------------------
Init ==
  /\ m_task = <<>>
  /\ task_number = 0
  /\ idele_thread_cout = 0
  /\ m_stopping = FALSE
  /\ pc = [w \in Worker |-> "off"]
  /\ task = [w \in Worker |-> NoTask]
  /\ idle_fiber = [w \in Worker |-> "live"]
  /\ arg = [c \in Caller |-> NoTask]
  /\ owner = "building"
  /\ aborted = FALSE
  /\ asked = {} /\ refused = {}
  /\ ran = [t \in Task |-> 0]

(* c is in code that may call schedule(): the owner while it has the       *)
(* scheduler to itself or serves it, a worker inside a task's body.        *)
MayCall(c) ==
  /\ IF c = Owner THEN owner \in {"building", "open"} ELSE pc[c] = "exec"
  /\ arg[c] = NoTask

-----------------------------------------------------------------------------
(* The interface: schedule(), start(), ~Schedule(), stop().                *)

(* schedule(cb), line 48: m_stopping is read before the lock is taken.     *)
Ask(c, t) ==
  /\ MayCall(c)
  /\ t \notin asked
  /\ asked' = asked \cup {t}
  /\ IF m_stopping
       THEN refused' = refused \cup {t} /\ UNCHANGED arg
       ELSE arg' = [arg EXCEPT ![c] = t] /\ UNCHANGED refused
  /\ UNCHANGED <<slotVars, idele_thread_cout, m_stopping, pc, task, idle_fiber,
                 owner, aborted, ran>>

(* schedule(cb), the locked part; tickle() of the base class does nothing. *)
Insert(c) ==
  /\ arg[c] # NoTask
  /\ CanLock
  /\ m_task' = Put(m_task, arg[c])
  /\ AddTasks(1)
  /\ arg' = [arg EXCEPT ![c] = NoTask]
  /\ UNCHANGED <<idele_thread_cout, m_stopping, pc, task, idle_fiber, owner,
                 aborted, history>>

(* schedule(begin, end) over a range of two: all of it under one lock, and *)
(* without a look at m_stopping.                                           *)
InsertRange(c, t, u) ==
  /\ MayCall(c)
  /\ {t, u} \cap asked = {} /\ t # u
  /\ CanLock
  /\ asked' = asked \cup {t, u}
  /\ m_task' = Put(Put(m_task, t), u)
  /\ AddTasks(2)
  /\ UNCHANGED <<idele_thread_cout, m_stopping, pc, task, idle_fiber, arg,
                 owner, aborted, refused, ran>>

(* One iteration of start(): the thread runs at once, and constructing its *)
(* coroutine already enters idle().                                        *)
StartWorker(w) ==
  /\ owner \in {"building", "starting"} /\ arg[Owner] = NoTask
  /\ pc[w] = "off"
  /\ pc' = [pc EXCEPT ![w] = "idle"]
  /\ owner' = IF \E v \in Worker \ {w} : pc[v] = "off" THEN "starting" ELSE "open"
  /\ UNCHANGED <<slotVars, idele_thread_cout, m_stopping, task, idle_fiber,
                 arg, aborted, history>>

(* ~Schedule(): m_stopping is written without the lock ...                 *)
Destroy ==
  /\ "destroy" \in Ends
  /\ owner = "open" /\ arg[Owner] = NoTask
  /\ m_stopping' = TRUE
  /\ owner' = "joining"
  /\ UNCHANGED <<slotVars, idele_thread_cout, pc, task, idle_fiber, arg,
                 aborted, history>>

(* Mutant: the threads are detached, as ~Thread() would do.                *)
AllReturned_Detached == TRUE

AllReturned == \A w \in Worker : pc[w] = "returned"

(* ... and every thread is joined before the members go away.              *)
Joined ==
  /\ owner = "joining"
  /\ AllReturned
  /\ owner' = "destroyed"
  /\ UNCHANGED <<slotVars, idele_thread_cout, m_stopping, pc, task, idle_fiber,
                 arg, aborted, history>>

(* stop() takes the lock, sets m_stopping and calls run() with the lock    *)
(* still held.                                                             *)
Stop ==
  /\ "stop" \in Ends
  /\ owner = "open" /\ arg[Owner] = NoTask
  /\ CanLock
  /\ m_stopping' = TRUE
  /\ owner' = "stopLocked"
  /\ UNCHANGED <<slotVars, idele_thread_cout, pc, task, idle_fiber, arg,
                 aborted, history>>

(* run() enters idle(), whose lock_shared() fails in the thread that holds *)
(* the lock (EDEADLK): the system_error leaves main uncaught.              *)
StopRuns ==
  /\ owner = "stopLocked"
  /\ aborted' = TRUE
  /\ UNCHANGED <<slotVars, idele_thread_cout, m_stopping, pc, task, idle_fiber,
                 arg, owner, history>>

-----------------------------------------------------------------------------
(* A worker in idle().                                                     *)

IdleLock(w) ==
  /\ pc[w] = "idle"
  /\ CanLockShared
  /\ pc' = [pc EXCEPT ![w] = "idleRead"]
  /\ UNCHANGED <<slotVars, idele_thread_cout, m_stopping, task, idle_fiber,
                 arg, owner, aborted, history>>

(* Mutant: the loop of idle() does not look at m_stopping.                 *)
GoesRound_IgnoresStop == task_number = 0
(* Mutant: the coroutine breaks out on m_stopping, work or not.            *)
FiberEnds_OnStop == m_stopping

GoesRound == task_number = 0 /\ ~m_stopping
FiberEnds == task_number = 0 /\ m_stopping

(* With work the coroutine yields; without work it ends when m_stopping is *)
(* set and goes round again when it is not.                                *)
IdleTest(w) ==
  /\ pc[w] = "idleRead"
  /\ pc' = [pc EXCEPT ![w] = IF GoesRound THEN "idle" ELSE "take"]
  /\ idle_fiber' = IF FiberEnds THEN [idle_fiber EXCEPT ![w] = "finished"]
                                 ELSE idle_fiber
  /\ UNCHANGED <<slotVars, idele_thread_cout, m_stopping, task, arg, owner,
                 aborted, history>>

-----------------------------------------------------------------------------
(* A worker in run().                                                      *)

(* Mutant: reset() is forgotten, as the loop works on a copy of the slot.  *)
Vacate_Keeps(s, i) == s

Vacate(s, i) == [s EXCEPT ![i] = NoTask]

(* The first occupied slot wins: line 76 assigns to thread_id where it     *)
(* means to compare, so a task pinned to another thread is taken as well.  *)
Take(w) ==
  /\ pc[w] = "take"
  /\ CanLock
  /\ LET i == FirstOf(OccupiedIn(m_task))
     IN  IF OccupiedIn(m_task) = {}
           THEN /\ pc' = [pc EXCEPT ![w] = "check"]
                /\ UNCHANGED <<m_task, task, idele_thread_cout>>
           ELSE /\ pc' = [pc EXCEPT ![w] = "exec"]
                /\ task' = [task EXCEPT ![w] = m_task[i]]
                /\ m_task' = Vacate(m_task, i)
                /\ idele_thread_cout' = idele_thread_cout - 1
  /\ UNCHANGED <<task_number, m_stopping, idle_fiber, arg, owner, aborted, history>>

(* task.m_cb() returns; the calls of schedule() it makes are Ask, Insert   *)
(* and InsertRange.                                                        *)
BodyEnds(w) ==
  /\ pc[w] = "exec" /\ arg[w] = NoTask
  /\ ran' = [ran EXCEPT ![task[w]] = @ + 1]
  /\ pc' = [pc EXCEPT ![w] = "count"]
  /\ UNCHANGED <<slotVars, idele_thread_cout, m_stopping, task, idle_fiber,
                 arg, owner, aborted, asked, refused>>

CountDown(w) ==
  /\ pc[w] = "count"
  /\ CanLock
  /\ task_number' = task_number - 1
  /\ pc' = [pc EXCEPT ![w] = "check"]
  /\ task' = [task EXCEPT ![w] = NoTask]
  /\ UNCHANGED <<m_task, idele_thread_cout, m_stopping, idle_fiber, arg, owner,
                 aborted, history>>

CheckLock(w) ==
  /\ pc[w] = "check"
  /\ CanLockShared
  /\ pc' = [pc EXCEPT ![w] = "checkRead"]
  /\ UNCHANGED <<slotVars, idele_thread_cout, m_stopping, task, idle_fiber,
                 arg, owner, aborted, history>>

(* Mutant: no slot is occupied, though a task may still be running.        *)
Leaves_NoneQueued == m_stopping /\ OccupiedIn(m_task) = {}

Leaves == m_stopping /\ task_number = 0

(* run() returns when the scheduler stops and nothing is left, otherwise   *)
(* it resumes the coroutine; resuming a finished one fails an assertion.   *)
CheckTest(w) ==
  /\ pc[w] = "checkRead"
  /\ pc' = [pc EXCEPT ![w] = IF Leaves THEN "returned" ELSE "idle"]
  /\ aborted' = (~Leaves /\ idle_fiber[w] = "finished")
  /\ UNCHANGED <<slotVars, idele_thread_cout, m_stopping, task, idle_fiber,
                 arg, owner, history>>

-----------------------------------------------------------------------------
Call(c) == Insert(c) \/ \E t \in Task : Ask(c, t) \/ \E u \in Task : InsertRange(c, t, u)
InLife == (\E w \in Worker : StartWorker(w)) \/ Destroy \/ Joined \/ Stop \/ StopRuns
InIdle(w) == IdleLock(w) \/ IdleTest(w)
InRun(w) == Take(w) \/ BodyEnds(w) \/ CountDown(w) \/ CheckLock(w) \/ CheckTest(w)

Next ==
  /\ ~aborted
  /\ \/ \E c \in Caller : Call(c)
     \/ InLife
     \/ \E w \in Worker : InIdle(w) \/ InRun(w)

Spec == Init /\ [][Next]_vars

(* The kernel runs every thread and a body ends; a thread waiting for the  *)
(* exclusive side of the lock gets it although readers come and go.  The   *)
(* owner does start the scheduler; whether and when it calls schedule(),   *)
(* destroys or stops it is its own choice.                                 *)
Fairness ==
  /\ \A c \in Caller : SF_vars(~aborted /\ Insert(c))
  /\ \A w \in Worker :
       /\ SF_vars(~aborted /\ (Take(w) \/ CountDown(w)))
       /\ WF_vars(~aborted /\ (InIdle(w) \/ BodyEnds(w) \/ CheckLock(w) \/ CheckTest(w)))
  /\ WF_vars(~aborted /\ \E w \in Worker : StartWorker(w))
  /\ WF_vars(~aborted /\ Joined)
  /\ WF_vars(~aborted /\ StopRuns)

FairSpec == Spec /\ Fairness

-----------------------------------------------------------------------------
(* Properties.                                                             *)

(* Types of the variables; task_number, an int in the code (schedule.hpp), *)
(* is never negative.                                                      *)
TypeOK ==
  /\ m_task \in Seq(Task \cup {NoTask})
  /\ task_number \in Nat
  /\ idele_thread_cout \in Int
  /\ m_stopping \in BOOLEAN
  /\ pc \in [Worker -> WorkerPC]
  /\ task \in [Worker -> Task \cup {NoTask}]
  /\ idle_fiber \in [Worker -> {"live", "finished"}]
  /\ arg \in [Caller -> Task \cup {NoTask}]
  /\ owner \in OwnerPC
  /\ aborted \in BOOLEAN
  /\ asked \subseteq Task /\ refused \subseteq Task
  /\ ran \in [Task -> Nat]

Accepted == (asked \ refused) \ {arg[c] : c \in Caller}

(* task_number, which run(), idle() and the stop test read instead of the  *)
(* vector, is the number of occupied slots plus the number of tasks in the *)
(* hands of a worker, at every point outside the lock.                     *)
Accounting ==
  task_number = Cardinality(OccupiedIn(m_task)) + Cardinality(Busy)

(* A worker leaves run() only into a scheduler that is drained for good: no*)
(* slot is occupied, no body is running that could add one, and no caller  *)
(* of schedule() that saw m_stopping unset is still on its way to the lock.*)
ReturnedDrained ==
  (\E w \in Worker : pc[w] = "returned") =>
    /\ m_stopping /\ task_number = 0
    /\ OccupiedIn(m_task) = {} /\ Busy = {}
    /\ \A c \in Caller : arg[c] = NoTask

(* idle() lets its coroutine end when it sees the scheduler stopping with  *)
(* no work; run() looks again later, under another lock.  Whatever happens *)
(* in between, run() never resumes the ended coroutine: only stop(), which *)
(* enters run() with the lock held, brings the process down.               *)
OnlyStopAborts == aborted => owner = "stopLocked"

(* The owner may call stop() to help the workers empty the queue           *)
(* (schedule.cpp:130), as tests/test_schedule.cpp does before it exits.    *)
NeverAborts == ~aborted

(* ~Schedule() gives up no task: once it has returned, each accepted task, *)
(* those scheduled by other tasks while it was joining included, ran once. *)
DestroyedAllRan ==
  owner = "destroyed" => \A t \in Accepted : ran[t] = 1

(* ~Schedule() returns: every worker notices m_stopping, though the flag is*)
(* set without the lock and nobody is woken.                               *)
DestroyReturns == (owner = "joining") ~> (owner = "destroyed")

(* The scheduler implements the task pool: tasks in a slot wait, tasks in a*)
(* body run, and the pool is closed once a worker has left.                *)
Pool == INSTANCE TaskPool WITH
          waiting <- Queued,
          running <- {task[w] : w \in {v \in Worker : pc[v] = "exec"}},
          done <- {t \in Task : ran[t] # 0},
          closed <- \E w \in Worker : pc[w] = "returned"

(* No accepted task is run twice or lost, none is run that was refused, and*)
(* a pool that a worker has left accepts nothing.                          *)
ImplementsPool == Pool!Spec

(* Every accepted task runs, also those accepted while ~Schedule() joins   *)
(* and whatever slot they landed in, unless stop() kills the process.      *)
AcceptedRuns ==
  \A t \in Task : (t \in Accepted) ~> (ran[t] = 1 \/ aborted)
=============================================================================
