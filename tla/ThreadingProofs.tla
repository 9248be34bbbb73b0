-------------------------- MODULE ThreadingProofs --------------------------
(***************************************************************************)
(* The safety properties of Threading, for every set of threads.           *)
(***************************************************************************)
EXTENDS Threading, TLAPS

\* The three together are inductive: SuccessIsHonest needs that the mutex has one
\* owner, and TypeOK that success has been set where it is read.
Inv == TypeOK /\ SuccessIsHonest /\ DataReachesJoiner

\* The initial states satisfy the invariant.
LEMMA InitInv == Init => Inv
<1> SUFFICES ASSUME Init PROVE Inv
  OBVIOUS
<1>1. TypeOK
  BY DEF Init, TypeOK
<1>2. SuccessIsHonest
  <2>1. \A t \in Thread : pc[t] # "hold"
    BY DEF Init
  <2>2. \A t \in Thread : success[t] # TRUE
    BY GarbageAssumption DEF Init
  <2>3. QED
    BY <2>1, <2>2 DEF SuccessIsHonest
<1>3. DataReachesJoiner
  BY DEF Init, DataReachesJoiner
<1>4. QED
  BY <1>1, <1>2, <1>3 DEF Inv

\* start_thread_obtaining_mutex keeps the invariant, with or without memory.
LEMMA CreatePreserves ==
  ASSUME Inv, NEW t \in Thread, Create(t)
  PROVE  Inv'
<1> USE NobodyAssumption, GarbageAssumption
    DEF Inv, TypeOK, SuccessIsHonest, DataReachesJoiner
<1>1. CASE \E result \in {"sleep", "refused"} : Allocate(t, result, FALSE)
  BY <1>1 DEF Allocate
<1>2. CASE NoMemory(t)
  BY <1>2 DEF NoMemory
<1>3. QED
  BY <1>1, <1>2 DEF Create, Start, CreateFails

\* So does every step of a thread, and its join.
LEMMA StepPreserves ==
  ASSUME Inv, NEW t \in Thread, ThreadStep(t) \/ ThreadFails(t) \/ Join(t)
  PROVE  Inv'
<1> USE NobodyAssumption, GarbageAssumption
    DEF Inv, TypeOK, SuccessIsHonest, DataReachesJoiner, Go
<1>1. CASE WakeToObtain(t)
  BY <1>1 DEF WakeToObtain
<1>2. CASE Lock(t)
  BY <1>2 DEF Lock
<1>3. CASE LockFails(t)
  BY <1>3 DEF LockFails
<1>4. CASE Release(t)
  BY <1>4 DEF Release
<1>5. CASE UnlockFails(t)
  BY <1>5 DEF UnlockFails
<1>6. CASE Join(t)
  BY <1>6 DEF Join
<1>7. QED
  BY <1>1, <1>2, <1>3, <1>4, <1>5, <1>6 DEF ThreadStep, ThreadFails

\* Every reachable state satisfies the invariant.
LEMMA Invariance == Spec => []Inv
<1>1. Inv /\ [Next]_vars => Inv'
  <2> SUFFICES ASSUME Inv, [Next]_vars PROVE Inv'
    OBVIOUS
  <2>1. CASE Next
    BY <2>1, CreatePreserves, StepPreserves DEF Next
  <2>2. CASE UNCHANGED vars
    BY <2>2 DEF vars, Inv, TypeOK, SuccessIsHonest, DataReachesJoiner
  <2>3. QED
    BY <2>1, <2>2
<1>2. QED
  BY InitInv, <1>1, PTL DEF Spec

(***************************************************************************)
(* Every thread is where its program can be, the mutex has one owner or    *)
(* none, and success is read only after it has been set (threadfunc).      *)
(***************************************************************************)
THEOREM TypeCorrect == Spec => []TypeOK
  BY Invariance, PTL DEF Inv

(***************************************************************************)
(* However many threads share the mutex, only its owner is between lock    *)
(* and unlock, and a thread that reports success has given it back         *)
(* (threadfunc, lines 26-38).                                              *)
(***************************************************************************)
THEOREM SuccessCanBeTrusted == Spec => []SuccessIsHonest
  BY Invariance, PTL DEF Inv

(***************************************************************************)
(* The data of a thread that can still use it, or that has returned it, is *)
(* not freed, whatever fails (threading.h, lines 4-9).                     *)
(***************************************************************************)
THEOREM DataIsNeverFreedEarly == Spec => []DataReachesJoiner
  BY Invariance, PTL DEF Inv
=============================================================================
