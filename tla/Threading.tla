----------------------------- MODULE Threading -----------------------------
(***************************************************************************)
(* examples/threading/threading.c: threads that sleep, hold a mutex for a  *)
(* while and return their thread_data, and the caller that starts, joins   *)
(* and frees them as threading.h asks for.  A thread names its data.       *)
(***************************************************************************)
CONSTANTS
    Thread,
    Nobody,
    Garbage   \* what a bool holds that was never set

ASSUME NobodyAssumption == Nobody \notin Thread

ASSUME GarbageAssumption == Garbage \notin BOOLEAN

VARIABLES
    pc,       \* where each thread is
    data,     \* its thread_data
    mutex,    \* the owner of the mutex
    success   \* thread_complete_success

vars == <<pc, data, mutex, success>>

TypeOK ==
    /\ pc \in [Thread -> {"none", "refused", "sleep", "lock", "hold",
                          "returned", "joined"}]
    /\ data \in [Thread -> {"none", "allocated", "freed"}]
    /\ mutex \in Thread \cup {Nobody}
    /\ success \in [Thread -> BOOLEAN \cup {Garbage}]
    /\ \A t \in Thread : data[t] # "none" => success[t] \in BOOLEAN

-----------------------------------------------------------------------------
(* start_thread_obtaining_mutex *)

\* malloc returns memory and all of it is set; pthread_create works or not.
Allocate(t, result, complete) ==
    /\ pc[t] = "none"
    /\ pc' = [pc EXCEPT ![t] = result]
    /\ data' = [data EXCEPT ![t] = "allocated"]
    /\ success' = [success EXCEPT ![t] = complete]
    /\ UNCHANGED mutex

\* Mutant: thread_complete_success is not set.
StartUnset(t) == Allocate(t, "sleep", Garbage)

Start(t) == Allocate(t, "sleep", FALSE)

CreateFails(t) == Allocate(t, "refused", FALSE)

NoMemory(t) ==
    /\ pc[t] = "none"
    /\ pc' = [pc EXCEPT ![t] = "refused"]
    /\ UNCHANGED <<data, mutex, success>>

-----------------------------------------------------------------------------
(* threadfunc *)

Go(t, from, to) ==
    /\ pc[t] = from
    /\ pc' = [pc EXCEPT ![t] = to]

\* The first usleep is over.
WakeToObtain(t) == Go(t, "sleep", "lock") /\ UNCHANGED <<data, mutex, success>>

Lock(t) ==
    /\ Go(t, "lock", "hold")
    /\ mutex = Nobody
    /\ mutex' = t
    /\ UNCHANGED <<data, success>>

\* Mutant: the error of pthread_mutex_lock is not looked at.
LockFailsUnseen(t) == Go(t, "lock", "hold") /\ UNCHANGED <<data, mutex, success>>

\* Mutant: the thread frees the data it returns.
LockFailsAndFrees(t) ==
    /\ Go(t, "lock", "returned")
    /\ data' = [data EXCEPT ![t] = "freed"]
    /\ UNCHANGED <<mutex, success>>

LockFails(t) == Go(t, "lock", "returned") /\ UNCHANGED <<data, mutex, success>>

\* Mutant: the mutex is kept.
ReleaseForgotten(t) ==
    /\ Go(t, "hold", "returned")
    /\ success' = [success EXCEPT ![t] = TRUE]
    /\ UNCHANGED <<data, mutex>>

\* The second usleep is over, and the mutex unlocked.
Release(t) ==
    /\ Go(t, "hold", "returned")
    /\ mutex' = Nobody
    /\ success' = [success EXCEPT ![t] = TRUE]
    /\ UNCHANGED data

\* pthread_mutex_unlock fails, and the mutex is kept.
UnlockFails(t) == Go(t, "hold", "returned") /\ UNCHANGED <<data, mutex, success>>

-----------------------------------------------------------------------------

\* The caller joins the thread and frees what it returned.
Join(t) ==
    /\ Go(t, "returned", "joined")
    /\ data' = [data EXCEPT ![t] = "freed"]
    /\ UNCHANGED <<mutex, success>>

Init ==
    /\ pc = [t \in Thread |-> "none"]
    /\ data = [t \in Thread |-> "none"]
    /\ mutex = Nobody
    /\ success = [t \in Thread |-> Garbage]

Create(t) == Start(t) \/ CreateFails(t) \/ NoMemory(t)

ThreadStep(t) == WakeToObtain(t) \/ Lock(t) \/ Release(t)

ThreadFails(t) == LockFails(t) \/ UnlockFails(t)

Next == \E t \in Thread : Create(t) \/ ThreadStep(t) \/ ThreadFails(t) \/ Join(t)

Spec == Init /\ [][Next]_vars

\* The scheduler runs every thread that can run, and a sleep ends.  No call has
\* to fail.
FairSpec == Spec /\ \A t \in Thread : WF_vars(ThreadStep(t))

-----------------------------------------------------------------------------
(* Properties *)

(***************************************************************************)
(* A thread that sleeps between lock and unlock (line 31) owns the mutex,  *)
(* so no two do; and one that reports success has given it back, so that   *)
(* the joiner can rely on it.                                              *)
(***************************************************************************)
SuccessIsHonest ==
    /\ \A t \in Thread : pc[t] = "hold" => mutex = t
    /\ \A t \in Thread : success[t] = TRUE => pc[t] \in {"returned", "joined"} /\ mutex # t

(***************************************************************************)
(* The data is there as long as the thread may use it and, as threading.h  *)
(* promises (lines 4-9), when the joiner receives it; what nobody can free *)
(* is only the data of threads that could not be created (line 65).        *)
(***************************************************************************)
DataReachesJoiner ==
    \A t \in Thread :
        /\ pc[t] \in {"sleep", "lock", "hold", "returned"} => data[t] = "allocated"
        /\ data[t] = "allocated" => pc[t] \notin {"none", "joined"}

\* A thread that failed to unlock the mutex, and has it for ever.
Kept == \E t \in Thread : pc[t] \in {"returned", "joined"} /\ mutex = t /\ ~success[t]

(***************************************************************************)
(* Every thread that was started returns, so a join of it ends, unless a   *)
(* thread whose unlock failed keeps the mutex for ever (line 33).          *)
(***************************************************************************)
StartedThreadReturns ==
    \A t \in Thread : pc[t] = "sleep" ~> pc[t] = "returned" \/ Kept
=============================================================================
