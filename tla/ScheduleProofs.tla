--------------------------- MODULE ScheduleProofs ---------------------------
(***************************************************************************)
(* Proofs about Schedule, for every number of workers and tasks and for    *)
(* both ways to give the scheduler up.                                     *)
(*                                                                         *)
(* The argument: task_number counts exactly the tasks that are in a slot   *)
(* or in a worker's hands (Accounting), so zero means that no body is      *)
(* running; m_stopping set means that the owner is past its last call; so  *)
(* "stopping and zero", once true, is true for ever (Settled), and whatever*)
(* a worker concludes from it under one lock still holds under the next.   *)
(*                                                                         *)
(* That the scheduler implements TaskPool and that ~Schedule() gives up no *)
(* task takes more than a count: each task is followed.  A callback some   *)
(* call was made with is refused, held by its caller on the way to the     *)
(* lock, in a slot, in a body, or done, and never in two of these places   *)
(* or twice in one (Places).                                               *)
(***************************************************************************)
EXTENDS Schedule, FiniteSetTheorems, SequenceTheorems, WellFoundedInduction, TLAPS

USE DEF Caller

-----------------------------------------------------------------------------
(* The slots.                                                              *)

Slots == Seq(Task \cup {NoTask})

(* A non-empty set of slot numbers has a first one.                        *)
LEMMA FirstOfMember ==
  ASSUME NEW S \in SUBSET Nat, S # {}
  PROVE  FirstOf(S) \in S
PROOF
<1>1. \E n \in S : \A m \in S : n <= m
  <2> DEFINE R == OpToRel(<, Nat)
  <2>1. PICK n \in S : \A m \in S : <<m, n>> \notin R
    BY NatLessThanWellFounded, WFMin, Zenon
  <2>2. \A m \in S : ~(m < n)
    BY <2>1 DEF OpToRel
  <2> QED
    BY <2>2, SMT
<1> QED
  BY <1>1 DEF FirstOf

(* The occupied slots can be counted; the count is zero only without any.  *)
LEMMA OccupiedFinite ==
  ASSUME NEW s \in Slots
  PROVE  /\ IsFiniteSet(OccupiedIn(s))
         /\ Cardinality(OccupiedIn(s)) \in Nat
         /\ Cardinality(OccupiedIn(s)) = 0 <=> OccupiedIn(s) = {}
PROOF
<1>s. Len(s) \in Nat /\ DOMAIN s = 1 .. Len(s)
  BY LenProperties DEF Slots
<1>1. IsFiniteSet(1 .. Len(s))
  BY <1>s, FS_Interval
<1>2. OccupiedIn(s) \in SUBSET (1 .. Len(s))
  BY <1>s DEF OccupiedIn
<1> QED
  BY <1>1, <1>2, FS_Subset, FS_EmptySet, FS_CardinalityType

(* schedule() adds its callback in a slot that was free or new, and leaves *)
(* every other slot as it was.                                             *)
LEMMA PutAddsOne ==
  ASSUME NEW s \in Slots, NEW t \in Task
  PROVE  /\ Put(s, t) \in Slots
         /\ \E k \in Nat : /\ k \notin OccupiedIn(s)
                           /\ OccupiedIn(Put(s, t)) = OccupiedIn(s) \cup {k}
                           /\ Put(s, t)[k] = t
                           /\ \A i \in OccupiedIn(s) : Put(s, t)[i] = s[i]
         /\ Cardinality(OccupiedIn(Put(s, t))) = Cardinality(OccupiedIn(s)) + 1
PROOF
<1> USE TaskAssumption
<1>s. /\ Len(s) \in Nat /\ DOMAIN s = 1 .. Len(s)
      /\ s \in [1 .. Len(s) -> Task \cup {NoTask}]
  BY LenProperties DEF Slots
<1>1. /\ Put(s, t) \in Slots
      /\ \E k \in Nat : /\ k \notin OccupiedIn(s)
                        /\ OccupiedIn(Put(s, t)) = OccupiedIn(s) \cup {k}
                        /\ Put(s, t)[k] = t
                        /\ \A i \in OccupiedIn(s) : Put(s, t)[i] = s[i]
  <2>1. CASE FreeIn(s) = {}
    <3> DEFINE k == Len(s) + 1
    <3>1. Put(s, t) = Append(s, t)
      BY <2>1 DEF Put
    <3>2. /\ Append(s, t) \in Slots
          /\ DOMAIN Append(s, t) = 1 .. k
          /\ \A i \in 1 .. Len(s) : Append(s, t)[i] = s[i]
          /\ Append(s, t)[k] = t
      BY <1>s DEF Slots
    <3> QED
      BY <1>s, <3>1, <3>2 DEF OccupiedIn
  <2>2. CASE FreeIn(s) # {}
    <3> DEFINE k == FirstOf(FreeIn(s))
    <3>0. FreeIn(s) \subseteq 1 .. Len(s) /\ FreeIn(s) \in SUBSET Nat
      BY <1>s DEF FreeIn
    <3>1. k \in FreeIn(s)
      BY <3>0, <2>2, FirstOfMember
    <3>2. Put(s, t) = [s EXCEPT ![k] = t]
      BY <2>2 DEF Put
    <3>3. k \in 1 .. Len(s) /\ s[k] = NoTask
      BY <3>0, <3>1 DEF FreeIn
    <3> HIDE DEF k
    <3>4. [s EXCEPT ![k] = t] \in Slots
      BY <3>3, ExceptSeq DEF Slots
    <3>5. OccupiedIn([s EXCEPT ![k] = t]) = OccupiedIn(s) \cup {k}
      BY <1>s, <3>3 DEF OccupiedIn
    <3> QED
      BY <1>s, <3>2, <3>3, <3>4, <3>5 DEF OccupiedIn
  <2> QED
    BY <2>1, <2>2
<1>2. PICK k \in Nat : /\ k \notin OccupiedIn(s)
                       /\ OccupiedIn(Put(s, t)) = OccupiedIn(s) \cup {k}
  BY <1>1
<1>3. Cardinality(OccupiedIn(s) \cup {k}) = Cardinality(OccupiedIn(s)) + 1
  BY <1>2, OccupiedFinite, FS_AddElement
<1> QED
  BY <1>1, <1>2, <1>3

(* run() empties the slot it took the task from, and no other.             *)
LEMMA VacateRemovesOne ==
  ASSUME NEW s \in Slots, NEW i \in OccupiedIn(s)
  PROVE  /\ Vacate(s, i) \in Slots
         /\ OccupiedIn(Vacate(s, i)) = OccupiedIn(s) \ {i}
         /\ \A j \in OccupiedIn(s) \ {i} : Vacate(s, i)[j] = s[j]
         /\ Cardinality(OccupiedIn(Vacate(s, i))) = Cardinality(OccupiedIn(s)) - 1
PROOF
<1>s. /\ Len(s) \in Nat /\ DOMAIN s = 1 .. Len(s)
      /\ s \in [1 .. Len(s) -> Task \cup {NoTask}]
      /\ i \in 1 .. Len(s)
  BY LenProperties DEF Slots, OccupiedIn
<1>1. Vacate(s, i) \in Slots
  BY <1>s, ExceptSeq DEF Slots, Vacate
<1>2. OccupiedIn(Vacate(s, i)) = OccupiedIn(s) \ {i}
  BY <1>s DEF OccupiedIn, Vacate
<1>3. \A j \in OccupiedIn(s) \ {i} : Vacate(s, i)[j] = s[j]
  BY <1>s DEF OccupiedIn, Vacate
<1>4. Cardinality(OccupiedIn(s) \ {i}) = Cardinality(OccupiedIn(s)) - 1
  BY OccupiedFinite, FS_RemoveElement
<1> QED
  BY <1>1, <1>2, <1>3, <1>4

(* The slot run() takes from is an occupied one.                           *)
LEMMA FirstOccupied ==
  ASSUME NEW s \in Slots, OccupiedIn(s) # {}
  PROVE  /\ FirstOf(OccupiedIn(s)) \in OccupiedIn(s)
         /\ s[FirstOf(OccupiedIn(s))] \in Task
PROOF
<1>s. /\ OccupiedIn(s) \subseteq 1 .. Len(s) /\ Len(s) \in Nat
      /\ s \in [1 .. Len(s) -> Task \cup {NoTask}]
  BY LenProperties DEF Slots, OccupiedIn
<1>0. OccupiedIn(s) \in SUBSET Nat
  BY <1>s
<1>1. FirstOf(OccupiedIn(s)) \in OccupiedIn(s)
  BY <1>0, FirstOfMember
<1> QED
  BY <1>s, <1>1 DEF OccupiedIn

-----------------------------------------------------------------------------
(* The inductive invariant.                                                *)

(* A call of schedule() past its test of m_stopping is made from a body or *)
(* by the owner before it gives the scheduler up.                          *)
CallsFromLivePlaces ==
  /\ \A w \in Worker : arg[w] # NoTask => pc[w] = "exec"
  /\ arg[Owner] # NoTask => owner \in {"building", "open"}

(* A busy worker has its task in hand.                                     *)
BusyHoldsTask == \A w \in Worker : pc[w] \in {"exec", "count"} => task[w] \in Task

(* m_stopping is set exactly when the owner has given the scheduler up.    *)
StoppingIsPast == m_stopping <=> owner \in {"joining", "destroyed", "stopLocked"}

(* What a worker concluded when it left run() or let its coroutine end.    *)
Settled ==
  (\E w \in Worker : pc[w] = "returned" \/ idle_fiber[w] = "finished") =>
    m_stopping /\ task_number = 0

Inv ==
  /\ TypeOK
  /\ Accounting
  /\ CallsFromLivePlaces
  /\ BusyHoldsTask
  /\ StoppingIsPast
  /\ Settled
  /\ OnlyStopAborts

(* The busy workers can be counted.                                        *)
LEMMA BusyFinite ==
  ASSUME TypeOK
  PROVE  /\ IsFiniteSet(Busy) /\ Cardinality(Busy) \in Nat
         /\ Cardinality(Busy) = 0 <=> Busy = {}
PROOF
<1>1. Busy \in SUBSET Worker /\ IsFiniteSet(Worker)
  BY WorkerAssumption DEF Busy
<1> QED
  BY <1>1, FS_Subset, FS_EmptySet, FS_CardinalityType

(* While a worker has a task in hand the count is positive ...             *)
LEMMA BusyCounts ==
  ASSUME TypeOK, Accounting, Busy # {}
  PROVE  task_number > 0
PROOF
<1>1. m_task \in Slots
  BY DEF TypeOK, Slots
<1> QED
  BY <1>1, BusyFinite, OccupiedFinite DEF Accounting, TypeOK

(* ... and a count of zero means that there is no task anywhere.           *)
LEMMA ZeroIsDrained ==
  ASSUME TypeOK, Accounting, task_number = 0
  PROVE  OccupiedIn(m_task) = {} /\ Busy = {}
PROOF
<1>1. m_task \in Slots
  BY DEF TypeOK, Slots
<1> QED
  BY <1>1, BusyFinite, OccupiedFinite DEF Accounting, TypeOK

(* A caller that may still add a task keeps every worker in run().         *)
LEMMA CallerKeepsOpen ==
  ASSUME Inv, NEW c \in Caller, arg[c] # NoTask \/ MayCall(c)
  PROVE  ~(m_stopping /\ task_number = 0)
PROOF
<1>1. CASE c = Owner
  BY <1>1 DEF Inv, MayCall, CallsFromLivePlaces, StoppingIsPast
<1>2. CASE c \in Worker
  <2>1. pc[c] = "exec"
    BY <1>2, WorkerAssumption DEF Inv, MayCall, CallsFromLivePlaces
  <2>2. Busy # {}
    BY <1>2, <2>1 DEF Busy
  <2> QED
    BY <2>2, BusyCounts DEF Inv
<1> QED
  BY <1>1, <1>2

(* No task, no thread: the invariant holds at first.                       *)
LEMMA InitInv == Init => Inv
PROOF
<1> SUFFICES ASSUME Init PROVE Inv
  OBVIOUS
<1> USE DEF Init
<1>0. m_task \in Seq(Task \cup {NoTask})
  BY EmptySeq
<1>1. TypeOK
  <2>1. /\ task_number \in Nat /\ idele_thread_cout \in Int
        /\ asked \subseteq Task /\ refused \subseteq Task
        /\ owner \in OwnerPC
    BY DEF OwnerPC
  <2>2. m_stopping \in BOOLEAN /\ aborted \in BOOLEAN
    OBVIOUS
  <2>3. /\ pc \in [Worker -> WorkerPC]
        /\ task \in [Worker -> Task \cup {NoTask}]
        /\ idle_fiber \in [Worker -> {"live", "finished"}]
    BY DEF WorkerPC
  <2>4. arg \in [Caller -> Task \cup {NoTask}] /\ ran \in [Task -> Nat]
    OBVIOUS
  <2> QED
    BY <1>0, <2>1, <2>2, <2>3, <2>4 DEF TypeOK
<1>2. OccupiedIn(m_task) = {} /\ Busy = {}
  BY DEF OccupiedIn, Busy
<1>3. Accounting
  BY <1>2, FS_EmptySet DEF Accounting
<1>4. CallsFromLivePlaces /\ BusyHoldsTask /\ StoppingIsPast /\ Settled /\ OnlyStopAborts
  BY DEF CallsFromLivePlaces, BusyHoldsTask, StoppingIsPast, Settled, OnlyStopAborts
<1> QED
  BY <1>1, <1>3, <1>4 DEF Inv

-----------------------------------------------------------------------------
(* Steps that leave the slots and the count alone keep Accounting if they  *)
(* keep the set of busy workers.                                           *)
LEMMA SameBusySameCount ==
  ASSUME Accounting, UNCHANGED slotVars, Busy' = Busy
  PROVE  Accounting'
PROOF
  BY DEF Accounting, slotVars, OccupiedIn

(* The look at m_stopping: a caller exists only in an open scheduler.      *)
LEMMA AskKeepsInv ==
  ASSUME Inv, NEW c \in Caller, NEW t \in Task, Ask(c, t)
  PROVE  Inv'
PROOF
<1> USE DEF Inv, Ask, slotVars
<1>1. TypeOK'
  BY DEF TypeOK
<1>2. Accounting'
  BY SameBusySameCount DEF Busy
<1>3. CallsFromLivePlaces'
  BY WorkerAssumption DEF CallsFromLivePlaces, MayCall, TypeOK
<1>4. BusyHoldsTask' /\ StoppingIsPast' /\ Settled' /\ OnlyStopAborts'
  BY DEF BusyHoldsTask, StoppingIsPast, Settled, OnlyStopAborts
<1> QED
  BY <1>1, <1>2, <1>3, <1>4

(* One more occupied slot, one more in the count.                          *)
LEMMA InsertKeepsInv ==
  ASSUME Inv, NEW c \in Caller, Insert(c)
  PROVE  Inv'
PROOF
<1> USE DEF Inv, Insert, AddTasks
<1>0. arg[c] \in Task /\ m_task \in Slots
  BY DEF TypeOK, Slots
<1>1. TypeOK'
  BY <1>0, PutAddsOne DEF TypeOK, history, Slots
<1>2. Accounting'
  <2>1. Busy' = Busy
    BY DEF Busy
  <2>2. /\ Cardinality(OccupiedIn(m_task')) = Cardinality(OccupiedIn(m_task)) + 1
        /\ Cardinality(OccupiedIn(m_task)) \in Nat
    BY <1>0, PutAddsOne, OccupiedFinite
  <2> QED
    BY <2>1, <2>2, BusyFinite DEF Accounting
<1>3. CallsFromLivePlaces'
  BY DEF CallsFromLivePlaces, TypeOK
<1>4. Settled'
  <2>1. ~(m_stopping /\ task_number = 0)
    BY CallerKeepsOpen
  <2> QED
    BY <2>1 DEF Settled
<1>5. BusyHoldsTask' /\ StoppingIsPast' /\ OnlyStopAborts'
  BY DEF BusyHoldsTask, StoppingIsPast, OnlyStopAborts
<1> QED
  BY <1>1, <1>2, <1>3, <1>4, <1>5

(* Two more of each; the caller is a worker with a task in hand or the     *)
(* owner before it stops anything, so no worker has left.                  *)
LEMMA InsertRangeKeepsInv ==
  ASSUME Inv, NEW c \in Caller, NEW t \in Task, NEW u \in Task, InsertRange(c, t, u)
  PROVE  Inv'
PROOF
<1> USE DEF Inv, InsertRange, AddTasks
<1>0. m_task \in Slots
  BY DEF TypeOK, Slots
<1>p. /\ Put(m_task, t) \in Slots
      /\ Put(Put(m_task, t), u) \in Slots
      /\ Cardinality(OccupiedIn(Put(m_task, t))) = Cardinality(OccupiedIn(m_task)) + 1
      /\ Cardinality(OccupiedIn(Put(Put(m_task, t), u))) =
           Cardinality(OccupiedIn(Put(m_task, t))) + 1
  BY <1>0, PutAddsOne
<1>1. TypeOK'
  BY <1>p DEF TypeOK, Slots
<1>2. Accounting'
  <2>1. Busy' = Busy
    BY DEF Busy
  <2>2. Cardinality(OccupiedIn(m_task')) = Cardinality(OccupiedIn(m_task)) + 2
    BY <1>0, <1>p, OccupiedFinite
  <2> QED
    BY <1>0, <2>1, <2>2, BusyFinite, OccupiedFinite DEF Accounting
<1>3. Settled'
  <2>1. ~(m_stopping /\ task_number = 0)
    BY CallerKeepsOpen
  <2> QED
    BY <2>1 DEF Settled
<1>4. CallsFromLivePlaces' /\ BusyHoldsTask' /\ StoppingIsPast' /\ OnlyStopAborts'
  BY DEF CallsFromLivePlaces, BusyHoldsTask, StoppingIsPast, OnlyStopAborts
<1> QED
  BY <1>1, <1>2, <1>3, <1>4

(* The owner starts, joins or stops without touching slots and count.      *)
LEMMA OwnerKeepsInv ==
  ASSUME Inv, ~aborted, InLife
  PROVE  Inv'
PROOF
<1> USE DEF Inv
<1>1. ASSUME NEW w \in Worker, StartWorker(w)
      PROVE  Inv'
  <2> USE <1>1 DEF StartWorker, history, slotVars
  <2>1. TypeOK'
    BY DEF TypeOK, WorkerPC, OwnerPC
  <2>2. Accounting'
    BY SameBusySameCount DEF Busy, TypeOK
  <2>3. CallsFromLivePlaces' /\ BusyHoldsTask' /\ StoppingIsPast'
    BY DEF CallsFromLivePlaces, BusyHoldsTask, StoppingIsPast, TypeOK
  <2>4. Settled' /\ OnlyStopAborts'
    BY DEF Settled, OnlyStopAborts, TypeOK
  <2> QED
    BY <2>1, <2>2, <2>3, <2>4
<1>2. ASSUME Destroy \/ Joined \/ Stop \/ StopRuns
      PROVE  Inv'
  <2> USE <1>2 DEF Destroy, Joined, Stop, StopRuns, history, slotVars
  <2>1. TypeOK'
    BY DEF TypeOK, OwnerPC
  <2>2. Accounting'
    BY SameBusySameCount DEF Busy
  <2>3. CallsFromLivePlaces' /\ BusyHoldsTask' /\ StoppingIsPast'
    BY DEF CallsFromLivePlaces, BusyHoldsTask, StoppingIsPast
  <2>4. Settled' /\ OnlyStopAborts'
    BY DEF Settled, OnlyStopAborts
  <2> QED
    BY <2>1, <2>2, <2>3, <2>4
<1> QED
  BY <1>1, <1>2 DEF InLife

(* idle(): the coroutine ends only in a state that is settled.             *)
LEMMA IdleKeepsInv ==
  ASSUME Inv, NEW w \in Worker, InIdle(w)
  PROVE  Inv'
PROOF
<1> USE InIdle(w) DEF Inv, InIdle, IdleLock, IdleTest, GoesRound, FiberEnds, history, slotVars
<1>1. TypeOK'
  BY DEF TypeOK, WorkerPC
<1>2. Accounting'
  BY SameBusySameCount DEF Busy, TypeOK
<1>3. CallsFromLivePlaces' /\ BusyHoldsTask' /\ StoppingIsPast'
  BY DEF CallsFromLivePlaces, BusyHoldsTask, StoppingIsPast, TypeOK
<1>4. Settled' /\ OnlyStopAborts'
  BY DEF Settled, OnlyStopAborts, TypeOK
<1> QED
  BY <1>1, <1>2, <1>3, <1>4

(* A task leaves its slot for the worker's hands: the sum is the same.     *)
LEMMA TakeKeepsInv ==
  ASSUME Inv, NEW w \in Worker, Take(w)
  PROVE  Inv'
PROOF
<1> USE DEF Inv, Take, history
<1> DEFINE i == FirstOf(OccupiedIn(m_task))
<1>0. m_task \in Slots
  BY DEF TypeOK, Slots
<1>1. CASE OccupiedIn(m_task) = {}
  <2>1. TypeOK'
    BY <1>1 DEF TypeOK, WorkerPC
  <2>2. Accounting'
    BY <1>1, SameBusySameCount DEF Busy, TypeOK, slotVars
  <2>3. CallsFromLivePlaces' /\ BusyHoldsTask' /\ StoppingIsPast'
    BY <1>1 DEF CallsFromLivePlaces, BusyHoldsTask, StoppingIsPast, TypeOK
  <2>4. Settled' /\ OnlyStopAborts'
    BY <1>1 DEF Settled, OnlyStopAborts, TypeOK
  <2> QED
    BY <2>1, <2>2, <2>3, <2>4
<1>2. CASE OccupiedIn(m_task) # {}
  <2>0. i \in OccupiedIn(m_task) /\ m_task[i] \in Task
    BY <1>0, <1>2, FirstOccupied
  <2>v. /\ Vacate(m_task, i) \in Slots
        /\ Cardinality(OccupiedIn(Vacate(m_task, i))) = Cardinality(OccupiedIn(m_task)) - 1
    BY <1>0, <2>0, VacateRemovesOne
  <2>t. /\ pc' = [pc EXCEPT ![w] = "exec"]
        /\ task' = [task EXCEPT ![w] = m_task[i]]
        /\ m_task' = Vacate(m_task, i)
        /\ idele_thread_cout' = idele_thread_cout - 1
        /\ UNCHANGED <<task_number, m_stopping, idle_fiber, arg, owner, aborted, history>>
    BY <1>2
  <2> HIDE DEF i, Take
  <2>1. TypeOK'
    BY <2>0, <2>v, <2>t DEF TypeOK, WorkerPC, Slots
  <2>2. Accounting'
    <3>1. w \notin Busy /\ Busy' = Busy \cup {w}
      BY <2>t DEF Busy, TypeOK, Take
    <3>2. Cardinality(Busy') = Cardinality(Busy) + 1
      BY <3>1, BusyFinite, FS_AddElement
    <3>3. Cardinality(OccupiedIn(m_task)) \in Nat /\ Cardinality(Busy) \in Nat
      BY <1>0, OccupiedFinite, BusyFinite
    <3> QED
      BY <2>t, <2>v, <3>2, <3>3 DEF Accounting
  <2>3. CallsFromLivePlaces' /\ BusyHoldsTask' /\ StoppingIsPast'
    BY <2>0, <2>t DEF CallsFromLivePlaces, BusyHoldsTask, StoppingIsPast, TypeOK
  <2>4. Settled' /\ OnlyStopAborts'
    BY <2>t DEF Settled, OnlyStopAborts, TypeOK
  <2> QED
    BY <2>1, <2>2, <2>3, <2>4
<1> QED
  BY <1>1, <1>2

(* The task leaves the worker's hands and the count.                       *)
LEMMA CountDownKeepsInv ==
  ASSUME Inv, NEW w \in Worker, CountDown(w)
  PROVE  Inv'
PROOF
<1> USE DEF Inv, CountDown, history
<1>0. w \in Busy /\ task_number > 0
  BY BusyCounts DEF Busy
<1>1. TypeOK'
  BY <1>0 DEF TypeOK, WorkerPC
<1>2. Accounting'
  <2>1. Busy' = Busy \ {w}
    BY <1>0 DEF Busy, TypeOK
  <2>2. Cardinality(Busy') = Cardinality(Busy) - 1
    BY <1>0, <2>1, BusyFinite, FS_RemoveElement
  <2>3. m_task \in Slots
    BY DEF TypeOK, Slots
  <2> QED
    BY <2>2, <2>3, BusyFinite, OccupiedFinite DEF Accounting
<1>3. CallsFromLivePlaces' /\ BusyHoldsTask' /\ StoppingIsPast'
  BY DEF CallsFromLivePlaces, BusyHoldsTask, StoppingIsPast, TypeOK
<1>4. Settled' /\ OnlyStopAborts'
  BY <1>0 DEF Settled, OnlyStopAborts, TypeOK
<1> QED
  BY <1>1, <1>2, <1>3, <1>4

(* The rest of run(): the stop test lets a worker go when all is settled.  *)
LEMMA RunKeepsInv ==
  ASSUME Inv, NEW w \in Worker, BodyEnds(w) \/ CheckLock(w) \/ CheckTest(w)
  PROVE  Inv'
PROOF
<1> USE DEF Inv, BodyEnds, CheckLock, CheckTest, Leaves, history, slotVars
<1>1. TypeOK'
  <2>1. CASE BodyEnds(w)
    <3>1. task[w] \in Task
      BY <2>1 DEF BusyHoldsTask
    <3> QED
      BY <2>1, <3>1 DEF TypeOK, WorkerPC
  <2>2. CASE CheckLock(w)
    BY <2>2 DEF TypeOK, WorkerPC
  <2>3. CASE CheckTest(w)
    BY <2>3 DEF TypeOK, WorkerPC
  <2> QED
    BY <2>1, <2>2, <2>3
<1>2. Accounting'
  BY SameBusySameCount DEF Busy, TypeOK
<1>3. CallsFromLivePlaces' /\ BusyHoldsTask' /\ StoppingIsPast'
  BY DEF CallsFromLivePlaces, BusyHoldsTask, StoppingIsPast, TypeOK
<1>4. Settled' /\ OnlyStopAborts'
  BY DEF Settled, OnlyStopAborts, TypeOK
<1> QED
  BY <1>1, <1>2, <1>3, <1>4

(* Every step keeps the invariant.                                         *)
LEMMA NextKeepsInv == Inv /\ [Next]_vars => Inv'
PROOF
<1> SUFFICES ASSUME Inv, [Next]_vars PROVE Inv'
  OBVIOUS
<1>1. CASE Next
  <2>1. ~aborted
    BY <1>1 DEF Next
  <2>2. ASSUME NEW c \in Caller, Call(c) PROVE Inv'
    BY <2>2, AskKeepsInv, InsertKeepsInv, InsertRangeKeepsInv DEF Call
  <2>3. CASE InLife
    BY <2>1, <2>3, OwnerKeepsInv
  <2>4. ASSUME NEW w \in Worker, InIdle(w) PROVE Inv'
    BY <2>4, IdleKeepsInv
  <2>5. ASSUME NEW w \in Worker, InRun(w) PROVE Inv'
    BY <2>5, TakeKeepsInv, CountDownKeepsInv, RunKeepsInv DEF InRun
  <2> QED
    BY <1>1, <2>2, <2>3, <2>4, <2>5 DEF Next
<1>2. CASE UNCHANGED vars
  BY <1>2 DEF vars, Inv, TypeOK, Accounting, OccupiedIn, Busy, CallsFromLivePlaces,
              BusyHoldsTask, StoppingIsPast, Settled, OnlyStopAborts
<1> QED
  BY <1>1, <1>2

(* The invariant holds in every behaviour.                                 *)
LEMMA InvHolds == Spec => []Inv
PROOF
  BY InitInv, NextKeepsInv, PTL DEF Spec

-----------------------------------------------------------------------------
(* The theorems.                                                           *)

(* The variables keep their types; in particular task_number, a signed int *)
(* in the code, never becomes negative.                                    *)
THEOREM TypeCorrect == Spec => []TypeOK
PROOF
<1>1. Inv => TypeOK
  BY DEF Inv
<1> QED
  BY InvHolds, <1>1, PTL

(* task_number counts the tasks in slots and in the hands of workers.      *)
THEOREM AccountingHolds == Spec => []Accounting
PROOF
<1>1. Inv => Accounting
  BY DEF Inv
<1> QED
  BY InvHolds, <1>1, PTL

(* run() returns only into a scheduler that is drained for good.           *)
THEOREM ReturnedDrainedHolds == Spec => []ReturnedDrained
PROOF
<1>1. ASSUME Inv, NEW w \in Worker, pc[w] = "returned"
      PROVE  /\ m_stopping /\ task_number = 0
             /\ OccupiedIn(m_task) = {} /\ Busy = {}
             /\ \A c \in Caller : arg[c] = NoTask
  <2>1. m_stopping /\ task_number = 0
    BY <1>1 DEF Inv, Settled
  <2>2. OccupiedIn(m_task) = {} /\ Busy = {}
    BY <1>1, <2>1, ZeroIsDrained DEF Inv
  <2>3. \A c \in Caller : arg[c] = NoTask
    BY <1>1, <2>1, CallerKeepsOpen
  <2> QED
    BY <2>1, <2>2, <2>3
<1>2. Inv => ReturnedDrained
  BY <1>1 DEF ReturnedDrained
<1> QED
  BY InvHolds, <1>2, PTL

(* A coroutine that has ended is never resumed: nothing but stop() aborts. *)
THEOREM OnlyStopAbortsHolds == Spec => []OnlyStopAborts
PROOF
<1>1. Inv => OnlyStopAborts
  BY DEF Inv
<1> QED
  BY InvHolds, <1>1, PTL

-----------------------------------------------------------------------------
(* Each task, followed.                                                    *)

(* The tasks held by callers that are past line 48 of schedule().          *)
Held == {arg[c] : c \in Caller} \ {NoTask}

(* The tasks in a body, and those whose body has run to its end.           *)
InBody == {task[w] : w \in {v \in Worker : pc[v] = "exec"}}
Done == {t \in Task : ran[t] # 0}

QueuedIn(s) == {s[i] : i \in OccupiedIn(s)}

(* No task is in two slots.                                                *)
DistinctIn(s) == \A i, j \in OccupiedIn(s) : s[i] = s[j] => i = j

-----------------------------------------------------------------------------
(* The inductive invariant, on top of Inv.                                 *)

(* A callback handed to schedule() is in one of the places ...             *)
SomePlace == asked = refused \cup Held \cup Queued \cup InBody \cup Done

(* ... and in no other ...                                                 *)
OnlyPlace ==
  /\ refused \cap (Held \cup Queued \cup InBody \cup Done) = {}
  /\ Held \cap (Queued \cup InBody \cup Done) = {}
  /\ Queued \cap (InBody \cup Done) = {}
  /\ InBody \cap Done = {}

(* ... and once in the place it is in.                                     *)
OnceThere ==
  /\ DistinctIn(m_task)
  /\ \A c, d \in Caller : arg[c] # NoTask /\ arg[c] = arg[d] => c = d
  /\ \A v, w \in Worker :
       pc[v] = "exec" /\ pc[w] = "exec" /\ task[v] = task[w] => v = w
  /\ \A t \in Task : ran[t] \in {0, 1}

(* ~Schedule() returns after every thread has.                             *)
DestroyedIsOver == owner = "destroyed" => AllReturned

Places == SomePlace /\ OnlyPlace /\ OnceThere /\ DestroyedIsOver

PInv == Inv /\ Places

-----------------------------------------------------------------------------
(* What the operations on the slots do to the set of queued tasks.         *)

(* schedule() queues its callback and unqueues none.                       *)
LEMMA PutQueues ==
  ASSUME NEW s \in Slots, NEW t \in Task
  PROVE  /\ QueuedIn(Put(s, t)) = QueuedIn(s) \cup {t}
         /\ DistinctIn(s) /\ t \notin QueuedIn(s) => DistinctIn(Put(s, t))
PROOF
<1>1. PICK k \in Nat : /\ k \notin OccupiedIn(s)
                       /\ OccupiedIn(Put(s, t)) = OccupiedIn(s) \cup {k}
                       /\ Put(s, t)[k] = t
                       /\ \A i \in OccupiedIn(s) : Put(s, t)[i] = s[i]
  BY PutAddsOne
<1>2. QueuedIn(Put(s, t)) = QueuedIn(s) \cup {t}
  BY <1>1 DEF QueuedIn
<1>3. ASSUME DistinctIn(s), t \notin QueuedIn(s) PROVE DistinctIn(Put(s, t))
  BY <1>1, <1>3 DEF DistinctIn, QueuedIn
<1> QED
  BY <1>2, <1>3

(* run() unqueues the task of the slot it empties, and no other.           *)
LEMMA VacateUnqueues ==
  ASSUME NEW s \in Slots, NEW i \in OccupiedIn(s), DistinctIn(s)
  PROVE  /\ QueuedIn(Vacate(s, i)) = QueuedIn(s) \ {s[i]}
         /\ DistinctIn(Vacate(s, i))
PROOF
<1>1. /\ OccupiedIn(Vacate(s, i)) = OccupiedIn(s) \ {i}
      /\ \A j \in OccupiedIn(s) \ {i} : Vacate(s, i)[j] = s[j]
  BY VacateRemovesOne
<1> QED
  BY <1>1 DEF QueuedIn, DistinctIn

(* What is in a slot, a hand or an argument is a callback, not nothing.    *)
LEMMA PlacesHoldTasks ==
  ASSUME Inv
  PROVE  /\ m_task \in Slots /\ Queued = QueuedIn(m_task)
         /\ Held \subseteq Task /\ Queued \subseteq Task /\ InBody \subseteq Task
PROOF
<1>1. m_task \in Slots
  BY DEF Inv, TypeOK, Slots
<1>2. /\ Len(m_task) \in Nat /\ DOMAIN m_task = 1 .. Len(m_task)
      /\ m_task \in [1 .. Len(m_task) -> Task \cup {NoTask}]
  BY <1>1, LenProperties DEF Slots
<1>3. Queued = QueuedIn(m_task) /\ Queued \subseteq Task
  BY <1>2 DEF Queued, QueuedIn, OccupiedIn
<1>4. Held \subseteq Task
  BY DEF Inv, TypeOK, Held
<1>5. InBody \subseteq Task
  BY DEF Inv, InBody, BusyHoldsTask
<1> QED
  BY <1>1, <1>3, <1>4, <1>5

(* At first no call was made, and every place is empty.                    *)
LEMMA InitPlaces == Init => Places
PROOF
<1> SUFFICES ASSUME Init PROVE Places
  OBVIOUS
<1> USE DEF Init
<1>1. Held = {} /\ Queued = {} /\ InBody = {} /\ Done = {}
  BY DEF Held, Queued, InBody, Done, OccupiedIn
<1>2. SomePlace /\ OnlyPlace
  BY <1>1 DEF SomePlace, OnlyPlace
<1>3. OnceThere /\ DestroyedIsOver
  BY DEF OnceThere, DistinctIn, OccupiedIn, DestroyedIsOver
<1> QED
  BY <1>2, <1>3 DEF Places

-----------------------------------------------------------------------------
(* Every step keeps the invariant, and is a step of the pool or none.      *)

(* A step that moves no task keeps every task where it is.                 *)
LEMMA SamePlaces ==
  ASSUME Inv, Places,
         UNCHANGED <<m_task, arg, asked, refused, ran>>,
         InBody' = InBody,
         \A w \in Worker : pc'[w] = "exec" => pc[w] = "exec" /\ task'[w] = task[w],
         DestroyedIsOver'
  PROVE  Places'
PROOF
<1>1. Held' = Held /\ Queued' = Queued /\ Done' = Done
  BY DEF Held, Queued, Done, OccupiedIn
<1>2. SomePlace' /\ OnlyPlace'
  BY <1>1 DEF Places, SomePlace, OnlyPlace
<1>3. OnceThere'
  BY DEF Places, OnceThere, DistinctIn, OccupiedIn
<1> QED
  BY <1>2, <1>3 DEF Places

(* A call that reads m_stopping: its callback is refused, or held.         *)
LEMMA AskKeepsPlaces ==
  ASSUME Inv, Places, NEW c \in Caller, NEW t \in Task, Ask(c, t)
  PROVE  Places'
PROOF
<1> USE DEF Ask, slotVars, Places
<1>a. arg \in [Caller -> Task \cup {NoTask}] /\ arg[c] = NoTask /\ t # NoTask
  BY TaskAssumption DEF Inv, TypeOK, MayCall
<1>1. Queued' = Queued /\ InBody' = InBody /\ Done' = Done
  BY DEF Queued, InBody, Done, OccupiedIn
<1>2. t \notin refused \cup Held \cup Queued \cup InBody \cup Done
  BY DEF SomePlace
<1>3. CASE m_stopping
  <2>1. Held' = Held /\ refused' = refused \cup {t}
    BY <1>3 DEF Held
  <2>2. SomePlace' /\ OnlyPlace'
    BY <1>1, <1>2, <2>1 DEF SomePlace, OnlyPlace
  <2>3. OnceThere' /\ DestroyedIsOver'
    BY <1>3 DEF OnceThere, DistinctIn, OccupiedIn, DestroyedIsOver, AllReturned
  <2> QED
    BY <2>2, <2>3
<1>4. CASE ~m_stopping
  <2>1. Held' = Held \cup {t} /\ refused' = refused
    BY <1>4, <1>a DEF Held
  <2>2. SomePlace' /\ OnlyPlace'
    BY <1>1, <1>2, <2>1 DEF SomePlace, OnlyPlace
  <2>3. \A d \in Caller : arg[d] # t
    BY <1>2, <1>a DEF Held
  <2>4. OnceThere' /\ DestroyedIsOver'
    BY <1>4, <1>a, <2>3 DEF OnceThere, DistinctIn, OccupiedIn, DestroyedIsOver, AllReturned
  <2> QED
    BY <2>2, <2>4
<1> QED
  BY <1>3, <1>4

(* The callback goes from its caller's argument into a slot.               *)
LEMMA InsertKeepsPlaces ==
  ASSUME Inv, Places, NEW c \in Caller, Insert(c)
  PROVE  /\ Places'
         /\ arg[c] \in Held /\ Queued' = Queued \cup {arg[c]}
         /\ InBody' = InBody /\ Done' = Done
PROOF
<1> USE DEF Insert, history, Places
<1>a. /\ arg \in [Caller -> Task \cup {NoTask}] /\ arg[c] \in Task
      /\ m_task \in Slots /\ Queued = QueuedIn(m_task)
  BY PlacesHoldTasks DEF Inv, TypeOK
<1>1. InBody' = InBody /\ Done' = Done
  BY DEF InBody, Done
<1>2. arg[c] \in Held
  BY DEF Held
<1>3. Held' = Held \ {arg[c]}
  BY <1>a DEF Held, OnceThere
<1>4. arg[c] \notin QueuedIn(m_task)
  BY <1>a, <1>2 DEF OnlyPlace
<1>5. Queued' = Queued \cup {arg[c]}
  BY <1>a, PutQueues DEF Queued, QueuedIn
<1>6. SomePlace' /\ OnlyPlace'
  BY <1>1, <1>2, <1>3, <1>5 DEF SomePlace, OnlyPlace
<1>7. DistinctIn(m_task')
  BY <1>a, <1>4, PutQueues DEF OnceThere
<1>8. OnceThere' /\ DestroyedIsOver'
  BY <1>a, <1>7 DEF OnceThere, DestroyedIsOver, AllReturned
<1> QED
  BY <1>1, <1>2, <1>5, <1>6, <1>8

(* A range of callbacks goes into slots at once.                           *)
LEMMA InsertRangeKeepsPlaces ==
  ASSUME Inv, Places, NEW c \in Caller, NEW t \in Task, NEW u \in Task,
         InsertRange(c, t, u)
  PROVE  /\ Places'
         /\ {t, u} \cap (Queued \cup InBody \cup Done) = {}
         /\ Queued' = Queued \cup {t, u}
         /\ InBody' = InBody /\ Done' = Done
PROOF
<1> USE DEF InsertRange, Places
<1>a. m_task \in Slots /\ Queued = QueuedIn(m_task)
  BY PlacesHoldTasks
<1>1. Held' = Held /\ InBody' = InBody /\ Done' = Done
  BY DEF Held, InBody, Done
<1>2. {t, u} \cap (refused \cup Held \cup Queued \cup InBody \cup Done) = {}
  BY DEF SomePlace
<1>p. Put(m_task, t) \in Slots
  BY <1>a, PutAddsOne
<1>3. /\ QueuedIn(Put(m_task, t)) = Queued \cup {t}
      /\ QueuedIn(Put(Put(m_task, t), u)) = Queued \cup {t, u}
  BY <1>a, <1>p, PutQueues
<1>4. Queued' = Queued \cup {t, u}
  BY <1>3 DEF Queued, QueuedIn
<1>5. DistinctIn(Put(m_task, t))
  BY <1>a, <1>2, PutQueues DEF OnceThere
<1>6. DistinctIn(m_task')
  BY <1>a, <1>2, <1>3, <1>5, <1>p, PutQueues
<1>7. SomePlace' /\ OnlyPlace'
  BY <1>1, <1>2, <1>4 DEF SomePlace, OnlyPlace
<1>8. OnceThere' /\ DestroyedIsOver'
  BY <1>6 DEF OnceThere, DestroyedIsOver, AllReturned
<1> QED
  BY <1>1, <1>2, <1>4, <1>7, <1>8

(* The task goes from its slot into a body.                                *)
LEMMA TakeKeepsPlaces ==
  ASSUME Inv, Places, NEW w \in Worker, Take(w), OccupiedIn(m_task) # {}
  PROVE  /\ Places'
         /\ \E t \in Queued : Queued' = Queued \ {t} /\ InBody' = InBody \cup {t}
         /\ Done' = Done
PROOF
<1> USE DEF Take, history, Places
<1> DEFINE i == FirstOf(OccupiedIn(m_task))
           t == m_task[i]
<1>a. m_task \in Slots /\ Queued = QueuedIn(m_task)
  BY PlacesHoldTasks
<1>0. i \in OccupiedIn(m_task) /\ t \in Task
  BY <1>a, FirstOccupied
<1>t. /\ pc[w] = "take"
      /\ pc' = [pc EXCEPT ![w] = "exec"]
      /\ task' = [task EXCEPT ![w] = t]
      /\ m_task' = Vacate(m_task, i)
      /\ UNCHANGED <<arg, owner, asked, refused, ran>>
  OBVIOUS
<1> HIDE DEF i, t, Take
<1>1. Held' = Held /\ Done' = Done
  BY <1>t DEF Held, Done
<1>2. t = m_task[i] /\ t \in Queued
  BY <1>0 DEF Queued, t
<1>3. QueuedIn(m_task') = Queued \ {t} /\ DistinctIn(m_task')
  BY <1>a, <1>0, <1>2, <1>t, VacateUnqueues DEF OnceThere
<1>4. Queued' = Queued \ {t}
  BY <1>3 DEF Queued, QueuedIn
<1>5. /\ pc \in [Worker -> WorkerPC] /\ task \in [Worker -> Task \cup {NoTask}]
  BY DEF Inv, TypeOK
<1>6. InBody' = InBody \cup {t}
  BY <1>t, <1>5 DEF InBody
<1>7. SomePlace' /\ OnlyPlace'
  BY <1>t, <1>1, <1>2, <1>4, <1>6 DEF SomePlace, OnlyPlace
<1>8. \A v \in Worker : pc[v] = "exec" => task[v] # t
  BY <1>2 DEF OnlyPlace, InBody
<1>9. OnceThere'
  BY <1>t, <1>3, <1>5, <1>8 DEF OnceThere
<1>10. DestroyedIsOver'
  BY <1>t DEF DestroyedIsOver, AllReturned
<1> QED
  BY <1>1, <1>2, <1>4, <1>6, <1>7, <1>9, <1>10

(* The body returns: its task is done, for the first time.                 *)
LEMMA BodyEndsKeepsPlaces ==
  ASSUME Inv, Places, NEW w \in Worker, BodyEnds(w)
  PROVE  /\ Places'
         /\ \E t \in InBody : InBody' = InBody \ {t} /\ Done' = Done \cup {t}
         /\ Queued' = Queued
PROOF
<1> USE DEF BodyEnds, slotVars, Places
<1> DEFINE t == task[w]
<1>a. /\ pc \in [Worker -> WorkerPC] /\ ran \in [Task -> Nat] /\ t \in Task
  BY DEF Inv, TypeOK, BusyHoldsTask
<1>0. t \in InBody
  BY DEF InBody
<1>1. ran[t] = 0
  BY <1>a, <1>0 DEF OnlyPlace, Done
<1>2. Held' = Held /\ Queued' = Queued
  BY DEF Held, Queued, OccupiedIn
<1>3. InBody' = InBody \ {t}
  BY <1>a DEF InBody, OnceThere
<1>4. Done' = Done \cup {t}
  BY <1>a, <1>1 DEF Done
<1>5. SomePlace' /\ OnlyPlace'
  BY <1>0, <1>2, <1>3, <1>4 DEF SomePlace, OnlyPlace
<1>6. OnceThere'
  BY <1>a, <1>1 DEF OnceThere, DistinctIn, OccupiedIn
<1>7. DestroyedIsOver'
  BY DEF DestroyedIsOver, AllReturned
<1> QED
  BY <1>0, <1>2, <1>3, <1>4, <1>5, <1>6, <1>7

(* The steps that move no task and let no worker leave.                    *)
LEMMA StillKeepsPlaces ==
  ASSUME Inv, Places,
         \/ InLife
         \/ \E w \in Worker : \/ InIdle(w) \/ CountDown(w) \/ CheckLock(w)
                              \/ CheckTest(w)
                              \/ Take(w) /\ OccupiedIn(m_task) = {}
  PROVE  /\ Places'
         /\ Queued' = Queued /\ InBody' = InBody /\ Done' = Done
PROOF
<1> DEFINE Quiet == /\ UNCHANGED <<m_task, arg, asked, refused, ran>>
                    /\ \A w \in Worker : /\ pc[w] = "exec" <=> pc'[w] = "exec"
                                         /\ pc[w] = "exec" => task'[w] = task[w]
                    /\ DestroyedIsOver'
<1>p. /\ pc \in [Worker -> WorkerPC] /\ task \in [Worker -> Task \cup {NoTask}]
      /\ DestroyedIsOver
  BY DEF Inv, TypeOK, Places
<1>1. ASSUME InLife PROVE Quiet
  <2>1. ASSUME NEW w \in Worker, StartWorker(w) PROVE Quiet
    BY <1>p, <2>1 DEF StartWorker, slotVars, history, DestroyedIsOver
  <2>2. ASSUME Destroy \/ Joined \/ Stop \/ StopRuns PROVE Quiet
    BY <2>2 DEF Destroy, Joined, Stop, StopRuns, slotVars, history,
                Places, DestroyedIsOver, AllReturned
  <2> QED
    BY <1>1, <2>1, <2>2 DEF InLife
<1>2. ASSUME NEW w \in Worker, InIdle(w) PROVE Quiet
  BY <1>p, <1>2 DEF InIdle, IdleLock, IdleTest, slotVars, history,
                    DestroyedIsOver, AllReturned
<1>3. ASSUME NEW w \in Worker, CountDown(w) \/ CheckLock(w) \/ CheckTest(w)
      PROVE  Quiet
  BY <1>p, <1>3 DEF CountDown, CheckLock, CheckTest, slotVars, history,
                    DestroyedIsOver, AllReturned
<1>4. ASSUME NEW w \in Worker, Take(w), OccupiedIn(m_task) = {} PROVE Quiet
  BY <1>p, <1>4 DEF Take, history, DestroyedIsOver, AllReturned
<1>5. Quiet
  BY <1>1, <1>2, <1>3, <1>4
<1>6. InBody' = InBody
  BY <1>5 DEF InBody
<1>7. Queued' = Queued /\ Done' = Done
  BY <1>5 DEF Queued, Done, OccupiedIn
<1>8. Places'
  BY <1>5, <1>6, SamePlaces
<1> QED
  BY <1>6, <1>7, <1>8

(* Every step keeps the invariant.                                         *)
LEMMA NextKeepsPInv == PInv /\ [Next]_vars => PInv'
PROOF
<1> SUFFICES ASSUME Inv, Places, [Next]_vars PROVE Places'
  BY NextKeepsInv DEF PInv
<1>1. CASE Next
  <2>1. ASSUME NEW c \in Caller, Call(c) PROVE Places'
    BY <2>1, AskKeepsPlaces, InsertKeepsPlaces, InsertRangeKeepsPlaces DEF Call
  <2>2. CASE InLife
    BY <2>2, StillKeepsPlaces
  <2>3. ASSUME NEW w \in Worker, InIdle(w) \/ InRun(w) PROVE Places'
    BY <2>3, StillKeepsPlaces, TakeKeepsPlaces, BodyEndsKeepsPlaces DEF InRun
  <2> QED
    BY <1>1, <2>1, <2>2, <2>3 DEF Next
<1>2. CASE UNCHANGED vars
  <2>1. InBody' = InBody /\ DestroyedIsOver'
    BY <1>2 DEF vars, InBody, Places, DestroyedIsOver, AllReturned
  <2> QED
    BY <1>2, <2>1, SamePlaces DEF vars
<1> QED
  BY <1>1, <1>2

(* The invariant holds in every behaviour.                                 *)
LEMMA PInvHolds == Spec => []PInv
PROOF
<1>1. Init => PInv
  BY InitInv, InitPlaces DEF PInv
<1> QED
  BY <1>1, NextKeepsPInv, PTL DEF Spec

-----------------------------------------------------------------------------
(* The theorems.                                                           *)

(* ~Schedule() returns when every thread has; then no task is queued, held *)
(* or in a body, so each one accepted is done, and it was done once.       *)
THEOREM DestroyedAllRanHolds == Spec => []DestroyedAllRan
PROOF
<1>1. ASSUME PInv, owner = "destroyed", NEW t \in Accepted
      PROVE  ran[t] = 1
  <2>1. PICK w \in Worker : pc[w] = "returned"
    BY <1>1, WorkerAssumption DEF PInv, Places, DestroyedIsOver, AllReturned
  <2>2. /\ OccupiedIn(m_task) = {} /\ Busy = {}
        /\ m_stopping /\ task_number = 0
    BY <1>1, <2>1, ZeroIsDrained DEF PInv, Inv, Settled
  <2>3. \A c \in Caller : arg[c] = NoTask
    BY <1>1, <2>2, CallerKeepsOpen DEF PInv
  <2>4. Held = {} /\ Queued = {} /\ InBody = {}
    BY <2>2, <2>3 DEF Held, Queued, InBody, Busy
  <2>5. t \in Done
    BY <1>1, <2>4 DEF PInv, Places, SomePlace, Accepted
  <2> QED
    BY <1>1, <2>5 DEF PInv, Places, OnceThere, Done
<1>2. PInv => DestroyedAllRan
  BY <1>1 DEF DestroyedAllRan
<1> QED
  BY PInvHolds, <1>2, PTL

(* One step of the scheduler is one step of the pool, or none.             *)
LEMMA StepIsPoolStep == PInv /\ [Next]_vars => [Pool!Next]_Pool!vars
PROOF
<1> SUFFICES ASSUME Inv, Places, [Next]_vars
             PROVE  [Pool!Next]_Pool!vars
  BY DEF PInv
<1> DEFINE Left == \E w \in Worker : pc[w] = "returned"
<1>p. pc \in [Worker -> WorkerPC]
  BY DEF Inv, TypeOK
<1>t. Queued \subseteq Task /\ InBody \subseteq Task
  BY PlacesHoldTasks
<1>v. Queued' = Queued /\ InBody' = InBody /\ Done' = Done /\ Left' = Left
        => UNCHANGED Pool!vars
  BY DEF Pool!vars, InBody, Done
<1>o. ASSUME NEW c \in Caller, arg[c] # NoTask \/ MayCall(c) PROVE ~Left
  BY <1>o, CallerKeepsOpen DEF Inv, Settled
<1>1. ASSUME NEW c \in Caller, NEW t \in Task, Ask(c, t) PROVE UNCHANGED Pool!vars
  BY <1>1, <1>v DEF Ask, slotVars, Queued, OccupiedIn, InBody, Done
<1>2. ASSUME NEW c \in Caller, Insert(c) PROVE Pool!Next
  <2>1. Pool!Accept({arg[c]})
    <3>1. Left' = Left /\ ~Left
      BY <1>2, <1>o DEF Insert, history
    <3>2. {arg[c]} \cap (Queued \cup InBody \cup Done) = {}
      BY <1>2, InsertKeepsPlaces DEF Places, OnlyPlace
    <3> QED
      BY <1>2, <3>1, <3>2, InsertKeepsPlaces DEF Pool!Accept, InBody, Done
  <2>2. arg[c] \in Task
    BY <1>2 DEF Insert, Inv, TypeOK
  <2> QED
    BY <2>1, <2>2 DEF Pool!Next
<1>3. ASSUME NEW c \in Caller, NEW t \in Task, NEW u \in Task, InsertRange(c, t, u)
      PROVE  Pool!Next
  <2>1. Pool!Accept({t, u})
    <3>1. Left' = Left /\ ~Left
      BY <1>3, <1>o DEF InsertRange
    <3> QED
      BY <1>3, <3>1, InsertRangeKeepsPlaces DEF Pool!Accept, InBody, Done
  <2> QED
    BY <2>1 DEF Pool!Next
<1>4. CASE InLife
  <2>1. Left' = Left
    <3>1. ASSUME NEW w \in Worker, StartWorker(w) PROVE Left' = Left
      BY <1>p, <3>1 DEF StartWorker
    <3>2. ASSUME Destroy \/ Joined \/ Stop \/ StopRuns PROVE Left' = Left
      BY <3>2 DEF Destroy, Joined, Stop, StopRuns
    <3> QED
      BY <1>4, <3>1, <3>2 DEF InLife
  <2> QED
    BY <1>4, <1>v, <2>1, StillKeepsPlaces
<1>5. ASSUME NEW w \in Worker, InIdle(w) \/ CountDown(w) \/ CheckLock(w)
      PROVE  UNCHANGED Pool!vars
  <2>1. Left' = Left
    BY <1>p, <1>5 DEF InIdle, IdleLock, IdleTest, CountDown, CheckLock
  <2> QED
    BY <1>5, <1>v, <2>1, StillKeepsPlaces
<1>6. ASSUME NEW w \in Worker, Take(w) PROVE [Pool!Next]_Pool!vars
  <2>1. Left' = Left
    BY <1>p, <1>6 DEF Take
  <2>2. CASE OccupiedIn(m_task) = {}
    BY <1>6, <1>v, <2>1, <2>2, StillKeepsPlaces
  <2>3. CASE OccupiedIn(m_task) # {}
    <3>1. PICK t \in Queued : Queued' = Queued \ {t} /\ InBody' = InBody \cup {t}
      BY <1>6, <2>3, TakeKeepsPlaces
    <3>2. Done' = Done
      BY <1>6, <2>3, TakeKeepsPlaces
    <3>3. Pool!Begin(t)
      BY <2>1, <3>1, <3>2 DEF Pool!Begin, InBody, Done
    <3> QED
      BY <1>t, <3>3 DEF Pool!Next
  <2> QED
    BY <2>2, <2>3
<1>7. ASSUME NEW w \in Worker, BodyEnds(w) PROVE Pool!Next
  <2>1. Left' = Left
    BY <1>p, <1>7 DEF BodyEnds
  <2>2. PICK t \in InBody : InBody' = InBody \ {t} /\ Done' = Done \cup {t}
    BY <1>7, BodyEndsKeepsPlaces
  <2>3. Queued' = Queued
    BY <1>7, BodyEndsKeepsPlaces
  <2>4. Pool!End(t)
    BY <2>1, <2>2, <2>3 DEF Pool!End, InBody, Done
  <2> QED
    BY <1>t, <2>4 DEF Pool!Next
<1>8. ASSUME NEW w \in Worker, CheckTest(w) PROVE [Pool!Next]_Pool!vars
  <2>1. Queued' = Queued /\ InBody' = InBody /\ Done' = Done
    BY <1>8, StillKeepsPlaces
  <2>2. CASE Left' = Left
    BY <1>v, <2>1, <2>2
  <2>3. CASE Left' # Left
    <3>1. Leaves /\ ~Left /\ Left'
      BY <1>p, <1>8, <2>3 DEF CheckTest
    <3>2. Queued = {} /\ InBody = {}
      BY <3>1, ZeroIsDrained DEF Inv, Leaves, Queued, InBody, Busy
    <3>3. Pool!Close
      BY <2>1, <3>1, <3>2 DEF Pool!Close, InBody, Done
    <3> QED
      BY <3>3 DEF Pool!Next
  <2> QED
    BY <2>2, <2>3
<1>9. CASE UNCHANGED vars
  BY <1>9, <1>v DEF vars, Queued, OccupiedIn, InBody, Done
<1>10. CASE Next
  BY <1>10, <1>1, <1>2, <1>3, <1>4, <1>5, <1>6, <1>7, <1>8 DEF Next, Call, InRun
<1> QED
  BY <1>9, <1>10

(* The scheduler keeps the promise of TaskPool: an accepted task is run at *)
(* most once and never lost, a refused one never run, and a pool that a    *)
(* worker has left is empty and accepts nothing more.                      *)
THEOREM ImplementsPoolHolds == Spec => ImplementsPool
PROOF
<1>1. Init => Pool!Init
  BY DEF Init, Pool!Init, Queued, OccupiedIn
<1> QED
  BY <1>1, PInvHolds, StepIsPoolStep, PTL DEF Spec, ImplementsPool, Pool!Spec

=============================================================================
