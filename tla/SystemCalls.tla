---------------------------- MODULE SystemCalls ----------------------------
(***************************************************************************)
(* examples/systemcalls/systemcalls.c: a program that calls do_system,     *)
(* do_exec and do_exec_redirect, the children it forks and the commands    *)
(* they become.  A child whose execv fails may return from the call and go *)
(* on as a second copy of the program, so every process runs the same      *)
(* code.  Of files the output files are modelled: the descriptors redir_fd *)
(* and which of the files standard output is.  What is written to them is  *)
(* left out, and the main process is not killed.                           *)
(***************************************************************************)
EXTENDS Naturals

CONSTANTS
    Process,
    Main,       \* the process the program starts in
    MaxCalls,   \* bound on the calls of all processes together
    NULL

ASSUME MainAssumption == Main \in Process

ASSUME MaxCallsAssumption == MaxCalls \in Nat

VARIABLES
    pc,          \* what each process is doing
    origin,      \* who forked it, and in which call
    frame,       \* the call it is in: function, number and forked child
    last,        \* the call that it last came back from, and its result
    ran,         \* its execv succeeded
    status,      \* how it ended
    fds,         \* the open descriptors redir_fd, by the numbers of their calls
    out,         \* the call whose output file standard output is, if it is one
    calls,       \* how many calls were made
    forkFailed,  \* the calls whose fork failed
    execFailed,  \* the calls of do_exec_redirect whose execv failed
    unawaited    \* children whose waitpid failed

vars == <<pc, origin, frame, last, ran, status, fds, out, calls, forkFailed,
          execFailed, unawaited>>

Functions == {"system", "exec", "redirect"}

Status == {"zero", "nonzero", "signal"}

OrNull(S) == S \cup {NULL}

CallId == 1..MaxCalls

Origin == [by : Process, fn : Functions, id : CallId]

Frame == [fn : Functions, id : CallId, child : OrNull(Process)]

TypeOK ==
    /\ pc \in [Process -> {"unused", "program", "fork", "wait", "child",
                           "command", "zombie", "gone"}]
    /\ origin \in [Process -> OrNull(Origin)]
    /\ frame \in [Process -> OrNull(Frame)]
    /\ last \in [Process -> OrNull([fn : Functions, child : OrNull(Process),
                                    ok : BOOLEAN])]
    /\ ran \in [Process -> BOOLEAN]
    /\ status \in [Process -> OrNull(Status)]
    /\ fds \in [Process -> SUBSET CallId]
    /\ out \in [Process -> OrNull(CallId)]
    /\ calls \in 0..MaxCalls
    /\ forkFailed \subseteq CallId
    /\ execFailed \subseteq CallId
    /\ unawaited \subseteq Process

-----------------------------------------------------------------------------
(* The calling process *)

\* The output file is opened before the fork; if that fails the call goes on
\* with a redir_fd of -1.
Call(p) ==
    /\ pc[p] = "program"
    /\ calls < MaxCalls
    /\ calls' = calls + 1
    /\ pc' = [pc EXCEPT ![p] = "fork"]
    /\ \E fn \in Functions :
         /\ frame' = [frame EXCEPT ![p] = [fn |-> fn, id |-> calls + 1, child |-> NULL]]
         /\ \E opened \in IF fn = "redirect" THEN {{}, {calls + 1}} ELSE {{}} :
              fds' = [fds EXCEPT ![p] = @ \cup opened]
    /\ UNCHANGED <<origin, last, ran, status, out, forkFailed, execFailed, unawaited>>

\* The call of p is over; its caller sees ok.
Return(p, ok) ==
    /\ frame' = [frame EXCEPT ![p] = NULL]
    /\ last' = [last EXCEPT ![p] =
                  [fn |-> frame[p].fn, child |-> frame[p].child, ok |-> ok]]

\* redir_fd stays open.
ForkFails(p) ==
    /\ pc[p] = "fork"
    /\ pc' = [pc EXCEPT ![p] = "program"]
    /\ Return(p, FALSE)
    /\ forkFailed' = forkFailed \cup {frame[p].id}
    /\ UNCHANGED <<origin, ran, status, fds, out, calls, execFailed, unawaited>>

\* What fork makes of p and its child c, which begins with a copy of the
\* descriptors.  The parent closes redir_fd.
Split(p, c, fdsOfParent) ==
    /\ pc[p] = "fork"
    /\ pc[c] = "unused"
    /\ pc' = [pc EXCEPT ![p] = "wait", ![c] = "child"]
    /\ origin' = [origin EXCEPT ![c] = [by |-> p, fn |-> frame[p].fn, id |-> frame[p].id]]
    /\ frame' = [frame EXCEPT ![p].child = c, ![c] = frame[p]]
    /\ fds' = [fds EXCEPT ![p] = fdsOfParent, ![c] = fds[p]]
    /\ out' = [out EXCEPT ![c] = out[p]]
    /\ UNCHANGED <<last, ran, status, calls, forkFailed, execFailed, unawaited>>

\* Mutant: only the child closes redir_fd.
ForkKeepsFile(p) == \E c \in Process : Split(p, c, fds[p])

Fork(p) == \E c \in Process : Split(p, c, fds[p] \ {frame[p].id})

\* Mutant: the exit code is not looked at.
SucceedsAlways(fn, s) == fn # "system" \/ s = "zero"

\* Mutant: the result is only set when the process ended by itself.
SucceedsUnset(fn, s) == IF s = "signal" THEN NULL ELSE s = "zero"

\* do_system compares all of the status with 0; the others look at the exit code
\* of a process that ended by itself.
Succeeds(fn, s) == s = "zero" \/ (s = "signal" /\ fn # "system")

\* Mutant: the parent never calls waitpid.
NoWait(p) ==
    /\ pc[p] = "wait"
    /\ pc' = [pc EXCEPT ![p] = "program"]
    /\ Return(p, TRUE)
    /\ UNCHANGED <<origin, ran, status, fds, out, calls, forkFailed, execFailed,
                   unawaited>>

\* waitpid returns the child.
Wait(p) ==
    /\ pc[p] = "wait"
    /\ LET c == frame[p].child
       IN  /\ pc[c] = "zombie"
           /\ pc' = [pc EXCEPT ![p] = "program", ![c] = "gone"]
           /\ Return(p, Succeeds(frame[p].fn, status[c]))
    /\ UNCHANGED <<origin, ran, status, fds, out, calls, forkFailed, execFailed,
                   unawaited>>

\* waitpid returns -1, interrupted or without a child to wait for: nobody looks
\* and status, which was never set, decides.  system() reports it.
WaitFails(p) ==
    /\ pc[p] = "wait"
    /\ pc' = [pc EXCEPT ![p] = "program"]
    /\ \E ok \in IF frame[p].fn = "system" THEN {FALSE} ELSE BOOLEAN : Return(p, ok)
    /\ unawaited' = unawaited \cup {frame[p].child}
    /\ UNCHANGED <<origin, ran, status, fds, out, calls, forkFailed, execFailed>>

-----------------------------------------------------------------------------
(* The child *)

\* The child of do_exec_redirect makes the output file its standard output,
\* unless dup2 fails, as it does on the -1 of a failed open; then it closes
\* redir_fd.  The other two change no descriptor.
Redirect(c) ==
    LET opened == IF frame[c].fn = "redirect" THEN {frame[c].id} \cap fds[c] ELSE {}
    IN  /\ \E file \in opened \cup {out[c]} : out' = [out EXCEPT ![c] = file]
        /\ fds' = [fds EXCEPT ![c] = @ \ opened]

\* The child is now the command, with the descriptors it has.
Exec(c) ==
    /\ pc[c] = "child"
    /\ pc' = [pc EXCEPT ![c] = "command"]
    /\ ran' = [ran EXCEPT ![c] = TRUE]
    /\ Redirect(c)
    /\ frame' = [frame EXCEPT ![c] = NULL]
    /\ UNCHANGED <<origin, last, status, calls, forkFailed, execFailed, unawaited>>

\* A process that has a parent ends.
End(c, s) ==
    /\ c # Main
    /\ pc' = [pc EXCEPT ![c] = "zombie"]
    /\ status' = [status EXCEPT ![c] = s]
    /\ frame' = [frame EXCEPT ![c] = NULL]
    /\ fds' = [fds EXCEPT ![c] = {}]
    /\ out' = [out EXCEPT ![c] = NULL]
    /\ UNCHANGED <<origin, last, ran, calls, forkFailed, execFailed, unawaited>>

\* execv fails.  The child of do_exec and of system() exits ...
ExecFails(c) ==
    /\ pc[c] = "child"
    /\ frame[c].fn # "redirect"
    /\ End(c, "nonzero")

\* ... but that of do_exec_redirect returns false, and is a second program whose
\* standard output stays the file.
ExecFailsAndReturns(c) ==
    /\ pc[c] = "child"
    /\ frame[c].fn = "redirect"
    /\ pc' = [pc EXCEPT ![c] = "program"]
    /\ Return(c, FALSE)
    /\ Redirect(c)
    /\ execFailed' = execFailed \cup {frame[c].id}
    /\ UNCHANGED <<origin, ran, status, calls, forkFailed, unawaited>>

\* The command, or the copy of the program, ends by itself ...
Exit(c) ==
    /\ pc[c] \in {"command", "program"}
    /\ \E s \in {"zero", "nonzero"} : End(c, s)

\* ... or by a signal.
Killed(c) ==
    /\ pc[c] \in {"program", "fork", "wait", "child", "command"}
    /\ End(c, "signal")

-----------------------------------------------------------------------------

Init ==
    /\ pc = [p \in Process |-> IF p = Main THEN "program" ELSE "unused"]
    /\ origin = [p \in Process |-> NULL]
    /\ frame = [p \in Process |-> NULL]
    /\ last = [p \in Process |-> NULL]
    /\ ran = [p \in Process |-> FALSE]
    /\ status = [p \in Process |-> NULL]
    /\ fds = [p \in Process |-> {}]
    /\ out = [p \in Process |-> NULL]
    /\ calls = 0
    /\ forkFailed = {}
    /\ execFailed = {}
    /\ unawaited = {}

Step(p) ==
    \/ Call(p) \/ ForkFails(p) \/ Fork(p) \/ Wait(p) \/ WaitFails(p)
    \/ Exec(p) \/ ExecFails(p) \/ ExecFailsAndReturns(p)
    \/ Exit(p) \/ Killed(p)

Next == \E p \in Process : Step(p)

Spec == Init /\ [][Next]_vars

-----------------------------------------------------------------------------
(* Properties *)

\* p was told that its last command succeeded.
ToldTrue(p) == last[p] # NULL /\ last[p].ok

\* The command of its last call ran and ended with 0.
Succeeded(p) == ran[last[p].child] /\ status[last[p].child] = "zero"

(***************************************************************************)
(* True means that the command ran and ended with 0; of do_exec and        *)
(* do_exec_redirect it can also mean that the child died of a signal or    *)
(* that waitpid failed, and of do_exec_redirect that there is no such      *)
(* command and that the copy of the program has ended with 0 in its place. *)
(***************************************************************************)
TrueMeansRan ==
    \A p \in Process : ToldTrue(p) =>
        LET c == last[p].child IN
        \/ Succeeded(p)
        \/ last[p].fn # "system" /\ (status[c] = "signal" \/ c \in unawaited)
        \/ last[p].fn = "redirect" /\ ~ran[c] /\ status[c] = "zero"

(***************************************************************************)
(* However many copies of the program there are, they run one at a time:   *)
(* whoever forked a process waits for just that process until it ends,     *)
(* unless waitpid failed or the waiting process has itself been killed.    *)
(***************************************************************************)
ParentWaits ==
    \A c \in Process \ {Main} :
        pc[c] \notin {"unused", "gone"} /\ c \notin unawaited =>
            LET p == origin[c].by IN
            pc[p] \in {"zombie", "gone"} \/ (pc[p] = "wait" /\ frame[p].child = c)

\* A command of do_exec_redirect has the output file of the call.
OwnFile(p) ==
    IF pc[p] = "command" /\ origin[p].fn = "redirect" THEN {origin[p].id} ELSE {}

(***************************************************************************)
(* What is true of "This file will be closed at completion of the function *)
(* call" (line 112).  A redir_fd stays open only where a failed fork left  *)
(* it (line 143), in the program and in what is forked from it.  Standard  *)
(* output is an output file only in the command of the call; where execv   *)
(* failed, in the copy that returns (line 155) and in what it runs, with   *)
(* the call long over.  That of the first process is never redirected.     *)
(***************************************************************************)
OnlyFailuresKeepFiles ==
    /\ \A p \in Process : pc[p] \in {"program", "command", "wait"} =>
         /\ fds[p] \subseteq forkFailed
         /\ out[p] \in OrNull(execFailed \cup OwnFile(p))
    /\ out[Main] = NULL

-----------------------------------------------------------------------------
(* A claim of the repository's comments that the code does not meet *)

(***************************************************************************)
(* "@return true if the command [...] were executed successfully [...]     *)
(* false if an error occurred, either in invocation of the fork, waitpid,  *)
(* or execv() command, or if a non-zero return value was returned by the   *)
(* command" (lines 46-52), where waitpid has not failed.                   *)
(***************************************************************************)
TrueMeansSuccess ==
    \A p \in Process :
        ToldTrue(p) /\ last[p].child \notin unawaited => Succeeded(p)
=============================================================================
