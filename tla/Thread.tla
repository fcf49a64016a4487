-------------------------------- MODULE Thread --------------------------------
(***************************************************************************)
(* sylar::Thread and sylar::Semaphore (thread.cpp): a constructor starts   *)
(* the system thread and waits on the object's semaphore until run() has   *)
(* taken over the thread's id and its callback.                            *)
(*                                                                         *)
(* A semaphore is a count and a condition variable.  wait() looks at the   *)
(* count under g_mutex, one mutex for all semaphores of the process;       *)
(* notify() raises the count and signals without that mutex, as two steps. *)
(*                                                                         *)
(* An owner makes threads one after the other (Schedule::start() is one),  *)
(* may join each, and lets go of it, which detaches a thread not joined.   *)
(* Using the object once it is gone is undefined: the model records that   *)
(* it happened (corrupt) and stops.  The thread's name is left out.        *)
(***************************************************************************)
EXTENDS Naturals

CONSTANTS
  Owner,       \* code that makes threads
  T,           \* Thread objects; bound: each is made once
  Wrap,        \* one more than the largest uint32_t, scaled down
  NoOwner, NoThread

ASSUME ThreadAssumption ==
  /\ NoOwner \notin Owner /\ NoThread \notin T
  /\ Wrap \in Nat /\ Wrap > 1

VARIABLES
  opc, making,   \* owners: where they are, and with which thread
  g_mutex,       \* who holds it
  obj,           \* the object: "none", "building", "built", "gone"
  m_id, m_cb,    \* its id is set; its callback is still in it
  value,         \* its semaphore's count
  rpc,           \* run(): where it is
  joined,        \* history: join() has returned
  corrupt        \* an object was used that was gone

ownerVars == <<opc, making>>
fieldVars == <<m_id, m_cb>>
vars == <<ownerVars, g_mutex, obj, fieldVars, value, rpc, joined, corrupt>>

Init ==
  /\ opc = [o \in Owner |-> "free"] /\ making = [o \in Owner |-> NoThread]
  /\ g_mutex = NoOwner
  /\ obj = [t \in T |-> "none"]
  /\ m_id = [t \in T |-> FALSE] /\ m_cb = [t \in T |-> FALSE]
  /\ value = [t \in T |-> 0]
  /\ rpc = [t \in T |-> "none"]
  /\ joined = [t \in T |-> FALSE]
  /\ corrupt = FALSE

Goto(o, l) == opc' = [opc EXCEPT ![o] = l]

Advance(t, l) == rpc' = [rpc EXCEPT ![t] = l]

-----------------------------------------------------------------------------
(* The owner's side.                                                       *)

(* The constructor up to _semaphore.wait(): run() has started.             *)
Construct(o, t) ==
  /\ opc[o] = "free" /\ obj[t] = "none"
  /\ obj' = [obj EXCEPT ![t] = "building"]
  /\ m_cb' = [m_cb EXCEPT ![t] = TRUE]
  /\ Advance(t, "start")
  /\ Goto(o, "lock") /\ making' = [making EXCEPT ![o] = t]
  /\ UNCHANGED <<g_mutex, m_id, value, joined, corrupt>>

(* wait() takes g_mutex, on entry and again after each signal.             *)
Lock(o) ==
  /\ opc[o] = "lock" /\ g_mutex = NoOwner
  /\ g_mutex' = o
  /\ Goto(o, "test")
  /\ UNCHANGED <<making, obj, fieldVars, value, rpc, joined, corrupt>>

(* Mutant: off by one.                                                     *)
Ready_OffByOne(t) == value[t] >= 0

Ready(t) == value[t] > 0

Released == NoOwner

(* Mutant: the count is not taken down.                                    *)
Lowered_Not(t) == value[t]

Lowered(t) == (value[t] + Wrap - 1) % Wrap

(* The predicate holds: the count goes down and the constructor returns.   *)
Pass(o) ==
  LET t == making[o]
  IN  /\ opc[o] = "test" /\ Ready(t)
      /\ value' = [value EXCEPT ![t] = Lowered(t)]
      /\ g_mutex' = NoOwner
      /\ obj' = [obj EXCEPT ![t] = "built"]
      /\ Goto(o, "free") /\ making' = [making EXCEPT ![o] = NoThread]
      /\ UNCHANGED <<fieldVars, rpc, joined, corrupt>>

(* It does not: the condition is waited for.  A signal between the two     *)
(* steps finds nobody.                                                     *)
Miss(o) ==
  /\ opc[o] = "test" /\ ~Ready(making[o])
  /\ Goto(o, "enqueue")
  /\ UNCHANGED <<making, g_mutex, obj, fieldVars, value, rpc, joined, corrupt>>

Enqueue(o) ==
  /\ opc[o] = "enqueue"
  /\ g_mutex' = Released
  /\ Goto(o, "blocked")
  /\ UNCHANGED <<making, obj, fieldVars, value, rpc, joined, corrupt>>

(* A condition variable may wake its waiter without a signal.              *)
Spurious(o) ==
  /\ opc[o] = "blocked"
  /\ Goto(o, "lock")
  /\ UNCHANGED <<making, g_mutex, obj, fieldVars, value, rpc, joined, corrupt>>

(* Mutant: join() waits for the handshake only.                            *)
Finished_Handshake(t) == rpc[t] \in {"raised", "body", "ended"}

Finished(t) == rpc[t] = "ended"

Join(o, t) ==
  /\ opc[o] = "free" /\ obj[t] = "built" /\ ~joined[t] /\ Finished(t)
  /\ joined' = [joined EXCEPT ![t] = TRUE]
  /\ UNCHANGED <<ownerVars, g_mutex, obj, fieldVars, value, rpc, corrupt>>

(* ~Thread(): detaches a thread that was not joined.                       *)
Drop(o, t) ==
  /\ opc[o] = "free" /\ obj[t] = "built"
  /\ obj' = [obj EXCEPT ![t] = "gone"]
  /\ UNCHANGED <<ownerVars, g_mutex, fieldVars, value, rpc, joined, corrupt>>

-----------------------------------------------------------------------------
(* run(), on the new thread.                                               *)

(* A step of run() that touches the object, when it is still there.        *)
Touch(t) == obj[t] # "gone" /\ UNCHANGED corrupt

SetId(t) ==
  /\ rpc[t] = "start" /\ Touch(t)
  /\ m_id' = [m_id EXCEPT ![t] = TRUE]
  /\ Advance(t, "named")
  /\ UNCHANGED <<ownerVars, g_mutex, obj, m_cb, value, joined>>

TakeCb(t) ==
  /\ rpc[t] = "named" /\ Touch(t)
  /\ m_cb' = [m_cb EXCEPT ![t] = FALSE]
  /\ Advance(t, "taken")
  /\ UNCHANGED <<ownerVars, g_mutex, obj, m_id, value, joined>>

(* notify(): value++, without g_mutex ...                                  *)
Raise(t) ==
  /\ rpc[t] = "taken" /\ Touch(t)
  /\ value' = [value EXCEPT ![t] = (@ + 1) % Wrap]
  /\ Advance(t, "raised")
  /\ UNCHANGED <<ownerVars, g_mutex, obj, fieldVars, joined>>

Waiters(t) == {o \in Owner : opc[o] = "blocked" /\ making[o] = t}

(* ... and notify_one(), which wakes a waiter if there is one.             *)
Signal(t) ==
  /\ rpc[t] = "raised" /\ Touch(t)
  /\ opc' = [o \in Owner |-> IF o \in Waiters(t) THEN "lock" ELSE opc[o]]
  /\ Advance(t, "body")
  /\ UNCHANGED <<making, g_mutex, obj, fieldVars, value, joined>>

(* The object went away under run(): the constructor had seen the count    *)
(* and returned before notify_one() was called.                            *)
Dangle(t) ==
  /\ rpc[t] \in {"start", "named", "taken", "raised"} /\ obj[t] = "gone"
  /\ corrupt' = TRUE
  /\ UNCHANGED <<ownerVars, g_mutex, obj, fieldVars, value, rpc, joined>>

(* The callback, which run() has taken out of the object, returns.         *)
End(t) ==
  /\ rpc[t] = "body"
  /\ Advance(t, "ended")
  /\ UNCHANGED <<ownerVars, g_mutex, obj, fieldVars, value, joined, corrupt>>

-----------------------------------------------------------------------------
InWait(o) == Lock(o) \/ Pass(o) \/ Miss(o) \/ Enqueue(o)

InRun(t) == SetId(t) \/ TakeCb(t) \/ Raise(t) \/ Signal(t) \/ Dangle(t) \/ End(t)

OwnerStep(o) ==
  InWait(o) \/ Spurious(o) \/ \E t \in T : Construct(o, t) \/ Join(o, t) \/ Drop(o, t)

Next ==
  /\ ~corrupt
  /\ (\E o \in Owner : OwnerStep(o)) \/ (\E t \in T : InRun(t))

Spec == Init /\ [][Next]_vars

(* Threads run, and g_mutex is not withheld from a thread for ever.        *)
Fairness ==
  /\ \A o \in Owner : SF_vars(~corrupt /\ InWait(o))
  /\ \A t \in T : WF_vars(~corrupt /\ InRun(t))

FairSpec == Spec /\ Fairness

-----------------------------------------------------------------------------
(* Properties.                                                             *)

(* Types of the variables (thread.cpp:72-88, thread.hpp:60-66).            *)
TypeOK ==
  /\ opc \in [Owner -> {"free", "lock", "test", "enqueue", "blocked"}]
  /\ making \in [Owner -> T \cup {NoThread}]
  /\ g_mutex \in Owner \cup {NoOwner}
  /\ obj \in [T -> {"none", "building", "built", "gone"}]
  /\ m_id \in [T -> BOOLEAN] /\ m_cb \in [T -> BOOLEAN]
  /\ value \in [T -> {0, 1}]
  /\ rpc \in [T -> {"none", "start", "named", "taken", "raised", "body", "ended"}]
  /\ joined \in [T -> BOOLEAN]
  /\ corrupt \in BOOLEAN

(* A constructor that has returned leaves a thread whose id can be asked   *)
(* for and whose callback run() has taken, and a semaphore back at zero:   *)
(* the handshake of Thread() with run().                                   *)
HandedOver ==
  \A t \in T : obj[t] \in {"built", "gone"} => m_id[t] /\ ~m_cb[t] /\ value[t] = 0

(* run() reaches an object that is gone only if its owner let go of it     *)
(* without join(): Schedule, which joins first, is safe from the window    *)
(* between value++ and notify_one().                                       *)
JoinIsEnough ==
  corrupt => \E t \in T : obj[t] = "gone" /\ ~joined[t] /\ rpc[t] = "raised"

(* Once run() has notified, the constructor that waits for it goes on      *)
(* (thread.cpp:62).                                                        *)
NotifiedGoesOn == \A t \in T : rpc[t] = "body" ~> obj[t] # "building" \/ corrupt
=============================================================================
