----------------------------- MODULE ThreadProofs -----------------------------
(***************************************************************************)
(* Proofs about Thread, for every set of owners and of threads.            *)
(*                                                                         *)
(* The argument: no two owners make the same thread, so a semaphore has one*)
(* waiter and is raised once.  Its count is one exactly while run() has    *)
(* raised it and the constructor has not returned (Handshake), and nothing *)
(* else lets the constructor return.                                       *)
(***************************************************************************)
EXTENDS Thread, TLAPS

USE DEF ownerVars, fieldVars

(* The fields of an object say how far run() has come.                     *)
Fields ==
  \A t \in T :
    /\ obj[t] = "none" <=> rpc[t] = "none"
    /\ m_id[t] <=> rpc[t] \notin {"none", "start"}
    /\ m_cb[t] <=> rpc[t] \in {"start", "named"}
    /\ joined[t] => rpc[t] = "ended" /\ obj[t] \in {"built", "gone"}

(* The count, the constructor and run() agree.                             *)
Handshake ==
  \A t \in T :
    /\ value[t] = 1 <=> obj[t] = "building" /\ rpc[t] \in {"raised", "body", "ended"}
    /\ obj[t] \in {"built", "gone"} => rpc[t] \in {"raised", "body", "ended"}

(* An owner in a constructor is the only one to make that thread.          *)
OneMaker ==
  \A o \in Owner : opc[o] # "free" =>
    /\ making[o] \in T /\ obj[making[o]] = "building"
    /\ \A p \in Owner : opc[p] # "free" /\ making[p] = making[o] => p = o

IInv == TypeOK /\ Fields /\ Handshake /\ OneMaker /\ JoinIsEnough

(* The count goes from zero to one and back without wrapping.              *)
LEMMA CountSteps == (0 + 1) % Wrap = 1 /\ (1 + Wrap - 1) % Wrap = 0
PROOF
<1>1. Wrap \in Nat /\ Wrap > 1
  BY ThreadAssumption
<1>2. 1 % Wrap = 1
  BY <1>1, SMT
<1>3. Wrap % Wrap = 0
  BY <1>1, SMT
<1>4. 0 + 1 = 1 /\ 1 + Wrap - 1 = Wrap
  BY <1>1, SMT
<1> QED
  BY <1>2, <1>3, <1>4

(* No thread exists at first.                                              *)
LEMMA InitInv == Init => IInv
PROOF
<1> SUFFICES ASSUME Init PROVE IInv
  OBVIOUS
<1>1. TypeOK
  BY DEF Init, TypeOK
<1>2. Fields /\ Handshake
  BY DEF Init, Fields, Handshake
<1>3. OneMaker /\ JoinIsEnough
  BY DEF Init, OneMaker, JoinIsEnough
<1> QED
  BY <1>1, <1>2, <1>3 DEF IInv

(* A constructor begins: its thread is new, so nobody else makes it.       *)
LEMMA ConstructKeepsInv ==
  ASSUME IInv, ~corrupt, NEW o \in Owner, NEW t \in T, Construct(o, t)
  PROVE  IInv'
PROOF
<1> USE DEF Construct, Goto, Advance
<1>1. TypeOK'
  BY DEF IInv, TypeOK
<1>2. Fields'
  BY DEF IInv, TypeOK, Fields
<1>3. Handshake'
  BY DEF IInv, TypeOK, Fields, Handshake
<1>4. OneMaker'
  BY DEF IInv, TypeOK, OneMaker
<1>5. JoinIsEnough'
  BY DEF JoinIsEnough
<1> QED
  BY <1>1, <1>2, <1>3, <1>4, <1>5 DEF IInv

(* The constructor sees the count and returns: run() has raised it.        *)
LEMMA PassKeepsInv ==
  ASSUME IInv, ~corrupt, NEW o \in Owner, Pass(o)
  PROVE  IInv'
PROOF
<1> USE DEF Pass, Goto
<1> DEFINE t == making[o]
<1>1. t \in T /\ obj[t] = "building" /\ value[t] = 1
  BY DEF IInv, TypeOK, OneMaker, Ready
<1>2. rpc[t] \in {"raised", "body", "ended"}
  BY <1>1 DEF IInv, Handshake
<1>3. value' = [value EXCEPT ![t] = 0]
  BY <1>1, CountSteps DEF Lowered
<1>4. TypeOK'
  BY <1>1, <1>3 DEF IInv, TypeOK
<1>5. Fields'
  BY <1>1 DEF IInv, TypeOK, Fields
<1>6. Handshake'
  BY <1>1, <1>2, <1>3 DEF IInv, TypeOK, Handshake
<1>7. OneMaker'
  BY <1>1 DEF IInv, TypeOK, OneMaker
<1>8. JoinIsEnough'
  BY DEF JoinIsEnough
<1> QED
  BY <1>4, <1>5, <1>6, <1>7, <1>8 DEF IInv

(* The other steps of wait() leave the object and run() alone.             *)
LEMMA WaitKeepsInv ==
  ASSUME IInv, ~corrupt, NEW o \in Owner,
         Lock(o) \/ Miss(o) \/ Enqueue(o) \/ Spurious(o)
  PROVE  IInv'
PROOF
<1> USE DEF Lock, Miss, Enqueue, Spurious, Goto
<1>1. TypeOK'
  BY DEF IInv, TypeOK, Released
<1>2. Fields' /\ Handshake'
  BY DEF IInv, Fields, Handshake
<1>3. OneMaker'
  BY DEF IInv, TypeOK, OneMaker
<1>4. JoinIsEnough'
  BY DEF JoinIsEnough
<1> QED
  BY <1>1, <1>2, <1>3, <1>4 DEF IInv

(* join() and ~Thread().                                                   *)
LEMMA GiveUpKeepsInv ==
  ASSUME IInv, ~corrupt, NEW o \in Owner, NEW t \in T, Join(o, t) \/ Drop(o, t)
  PROVE  IInv'
PROOF
<1> USE DEF Join, Drop
<1>1. TypeOK'
  BY DEF IInv, TypeOK
<1>2. Fields'
  BY DEF IInv, TypeOK, Fields, Finished
<1>3. Handshake'
  BY DEF IInv, TypeOK, Handshake
<1>4. OneMaker'
  BY DEF IInv, TypeOK, OneMaker
<1>5. JoinIsEnough'
  BY DEF JoinIsEnough
<1> QED
  BY <1>1, <1>2, <1>3, <1>4, <1>5 DEF IInv

(* run() up to the handshake, and its end.                                 *)
LEMMA RunKeepsInv ==
  ASSUME IInv, ~corrupt, NEW t \in T, SetId(t) \/ TakeCb(t) \/ End(t)
  PROVE  IInv'
PROOF
<1> USE DEF SetId, TakeCb, End, Touch, Advance
<1>1. TypeOK'
  BY DEF IInv, TypeOK
<1>2. Fields'
  BY DEF IInv, TypeOK, Fields
<1>3. Handshake'
  BY DEF IInv, TypeOK, Handshake
<1>4. OneMaker'
  BY DEF IInv, OneMaker
<1>5. JoinIsEnough'
  BY DEF JoinIsEnough
<1> QED
  BY <1>1, <1>2, <1>3, <1>4, <1>5 DEF IInv

(* value++: the constructor has not returned yet.                          *)
LEMMA RaiseKeepsInv ==
  ASSUME IInv, ~corrupt, NEW t \in T, Raise(t)
  PROVE  IInv'
PROOF
<1> USE DEF Raise, Touch, Advance
<1>1. obj[t] = "building" /\ value[t] = 0
  BY DEF IInv, TypeOK, Fields, Handshake
<1>2. value' = [value EXCEPT ![t] = 1]
  BY <1>1, CountSteps
<1>3. TypeOK'
  BY <1>2 DEF IInv, TypeOK
<1>4. Fields'
  BY DEF IInv, TypeOK, Fields
<1>5. Handshake'
  BY <1>1, <1>2 DEF IInv, TypeOK, Handshake
<1>6. OneMaker'
  BY DEF IInv, OneMaker
<1>7. JoinIsEnough'
  BY DEF JoinIsEnough
<1> QED
  BY <1>3, <1>4, <1>5, <1>6, <1>7 DEF IInv

(* notify_one() moves the waiter, which stays in the constructor.          *)
LEMMA SignalKeepsInv ==
  ASSUME IInv, ~corrupt, NEW t \in T, Signal(t)
  PROVE  IInv'
PROOF
<1> USE DEF Signal, Touch, Advance, Waiters
<1>1. TypeOK'
  BY DEF IInv, TypeOK
<1>2. Fields'
  BY DEF IInv, TypeOK, Fields
<1>3. Handshake'
  BY DEF IInv, TypeOK, Handshake
<1>4. OneMaker'
  BY DEF IInv, TypeOK, OneMaker
<1>5. JoinIsEnough'
  BY DEF JoinIsEnough
<1> QED
  BY <1>1, <1>2, <1>3, <1>4, <1>5 DEF IInv

(* An object that is gone is reached only by notify_one(), and had not been*)
(* joined.                                                                 *)
LEMMA DangleKeepsInv ==
  ASSUME IInv, ~corrupt, NEW t \in T, Dangle(t)
  PROVE  IInv'
PROOF
<1> USE DEF Dangle
<1>1. TypeOK'
  BY DEF IInv, TypeOK
<1>2. Fields' /\ Handshake' /\ OneMaker'
  BY DEF IInv, Fields, Handshake, OneMaker
<1>3. rpc[t] = "raised" /\ ~joined[t]
  BY DEF IInv, TypeOK, Fields, Handshake
<1>4. JoinIsEnough'
  BY <1>3 DEF JoinIsEnough
<1> QED
  BY <1>1, <1>2, <1>4 DEF IInv

(* Every step keeps the invariant.                                         *)
LEMMA NextKeepsInv == IInv /\ [Next]_vars => IInv'
PROOF
<1> SUFFICES ASSUME IInv, [Next]_vars PROVE IInv'
  OBVIOUS
<1>1. CASE UNCHANGED vars
  BY <1>1 DEF vars, ownerVars, fieldVars, IInv, TypeOK, Fields, Handshake, OneMaker,
              JoinIsEnough
<1>2. CASE Next
  <2>1. ~corrupt
    BY <1>2 DEF Next
  <2>2. ASSUME NEW o \in Owner, OwnerStep(o) PROVE IInv'
    BY <2>1, <2>2, PassKeepsInv, WaitKeepsInv, ConstructKeepsInv, GiveUpKeepsInv
       DEF OwnerStep, InWait
  <2>3. ASSUME NEW t \in T, InRun(t) PROVE IInv'
    BY <2>1, <2>3, RunKeepsInv, RaiseKeepsInv, SignalKeepsInv, DangleKeepsInv DEF InRun
  <2> QED
    BY <1>2, <2>2, <2>3 DEF Next
<1> QED
  BY <1>1, <1>2

(* The invariant holds in every behaviour.                                 *)
LEMMA InvHolds == Spec => []IInv
PROOF
BY InitInv, NextKeepsInv, PTL DEF Spec

(* The variables have their types; in particular no semaphore's count      *)
(* passes one, and it never goes below zero (thread.cpp:22-35).            *)
THEOREM TypeCorrect == Spec => []TypeOK
PROOF
<1>1. IInv => TypeOK
  BY DEF IInv
<1> QED
  BY <1>1, InvHolds, PTL

(* The constructor returns only after run() has set the id and taken the   *)
(* callback, however the two interleave (thread.cpp:55-64, 76-91).         *)
THEOREM HandedOverHolds == Spec => []HandedOver
PROOF
<1>1. IInv => HandedOver
  BY DEF IInv, TypeOK, Fields, Handshake, HandedOver
<1> QED
  BY <1>1, InvHolds, PTL

(* A Thread that is joined before it is destroyed is never used after that *)
(* (thread.cpp:66-74, 76-91).                                              *)
THEOREM JoinIsEnoughHolds == Spec => []JoinIsEnough
PROOF
<1>1. IInv => JoinIsEnough
  BY DEF IInv
<1> QED
  BY <1>1, InvHolds, PTL
=============================================================================
