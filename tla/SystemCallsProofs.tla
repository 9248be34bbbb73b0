------------------------- MODULE SystemCallsProofs -------------------------
(***************************************************************************)
(* The safety properties of SystemCalls, for every set of processes and    *)
(* every bound on the calls.                                               *)
(***************************************************************************)
EXTENDS SystemCalls, TLAPS

\* A process inside a call has a frame.  The child of a fork is in the function
\* that forked it, and a caller in waitpid has forked the child it waits for, in
\* the same function.
FrameMatches(p) ==
    /\ pc[p] \in {"fork", "wait", "child"} => frame[p] \in Frame
    /\ p # Main /\ pc[p] # "unused" => origin[p] \in Origin
    /\ pc[p] = "child" => /\ frame[p].fn = origin[p].fn
                         /\ frame[p].id = origin[p].id
    /\ pc[p] = "wait" =>
         /\ frame[p].child \in Process
         /\ pc[frame[p].child] # "unused"
         /\ origin[frame[p].child].fn = frame[p].fn

FramesMatch == \A p \in Process : FrameMatches(p)

\* The file that a call of do_exec_redirect opens.
RedirFd(p) == IF frame[p].fn = "redirect" THEN {frame[p].id} ELSE {}

\* Between opening the output file and closing it, a process holds no more than
\* that file and what failed forks have left.  Until it is redirected its standard
\* output is a file only after a failed execv.
FileInUse ==
    \A p \in Process : pc[p] \in {"fork", "child"} =>
        /\ fds[p] \subseteq forkFailed \cup RedirFd(p)
        /\ out[p] \in OrNull(execFailed)

\* A second process goes on with the program only out of do_exec_redirect.
OnlyRedirectCopies ==
    \A p \in Process \ {Main} :
        pc[p] \in {"program", "fork", "wait"} => origin[p].fn = "redirect"

\* Only a command, or a copy of the program, can end with 0.
ZeroIsEarned ==
    \A c \in Process :
        /\ pc[c] = "command" => ran[c]
        /\ pc[c] = "zombie" /\ status[c] = "zero" => ran[c] \/ origin[c].fn = "redirect"

\* A call that returned true has seen its child to the end, or its waitpid failed.
ToldOfTheEnd ==
    \A p \in Process : ToldTrue(p) =>
        /\ last[p].child \in Process
        /\ \/ pc[last[p].child] = "gone"
           \/ last[p].fn # "system" /\ last[p].child \in unawaited

\* Zombies have a parent: the first process never ends.
FirstStays == pc[Main] \in {"program", "fork", "wait"}

Shape == TypeOK /\ FramesMatch /\ FirstStays

Files == FileInUse /\ OnlyFailuresKeepFiles

Results == ZeroIsEarned /\ ToldOfTheEnd /\ OnlyRedirectCopies /\ TrueMeansRan

Inv == Shape /\ Files /\ Results /\ ParentWaits

\* Whoever makes a call is waiting for nobody.
LEMMA CallPreserves ==
    ASSUME Inv, NEW p \in Process, Call(p)
    PROVE  Inv'
<1> USE MainAssumption, MaxCallsAssumption
    DEF Inv, Shape, Files, Results, TypeOK, FrameMatches, Frame, Origin, OrNull,
        Functions, Status, CallId
<1> USE DEF Call
<1>1. Shape'
  <2>1. TypeOK'
    BY DEF FramesMatch
  <2>2. FramesMatch'
    BY DEF FramesMatch
  <2>3. FirstStays'
    BY DEF FirstStays
  <2> QED BY <2>1, <2>2, <2>3
<1>2. Files'
  BY DEF FileInUse, RedirFd, OnlyFailuresKeepFiles, OwnFile, FramesMatch
<1>3. Results'
  <2>1. ZeroIsEarned'
    BY DEF ZeroIsEarned, OnlyRedirectCopies
  <2>2. ToldOfTheEnd'
    BY DEF ToldOfTheEnd, ToldTrue, FramesMatch
  <2>3. OnlyRedirectCopies'
    BY DEF OnlyRedirectCopies, FramesMatch
  <2>4. TrueMeansRan'
    BY DEF TrueMeansRan, ToldTrue, Succeeded, ToldOfTheEnd, ZeroIsEarned, FramesMatch
  <2> QED BY <2>1, <2>2, <2>3, <2>4
<1>4. ParentWaits'
  BY DEF FramesMatch, ParentWaits
<1> QED BY <1>1, <1>2, <1>3, <1>4

\* The file of a call whose fork fails is counted in forkFailed.
LEMMA ForkFailsPreserves ==
    ASSUME Inv, NEW p \in Process, ForkFails(p)
    PROVE  Inv'
<1> USE MainAssumption, MaxCallsAssumption
    DEF Inv, Shape, Files, Results, TypeOK, FrameMatches, Frame, Origin, OrNull,
        Functions, Status, CallId
<1> USE DEF ForkFails, Return
<1>1. Shape'
  <2>1. TypeOK'
    BY DEF FramesMatch
  <2>2. FramesMatch'
    BY DEF FramesMatch
  <2>3. FirstStays'
    BY DEF FirstStays
  <2> QED BY <2>1, <2>2, <2>3
<1>2. Files'
  BY DEF FileInUse, RedirFd, OnlyFailuresKeepFiles, OwnFile, FramesMatch
<1>3. Results'
  <2>1. ZeroIsEarned'
    BY DEF ZeroIsEarned, OnlyRedirectCopies
  <2>2. ToldOfTheEnd'
    BY DEF ToldOfTheEnd, ToldTrue, FramesMatch
  <2>3. OnlyRedirectCopies'
    BY DEF OnlyRedirectCopies, FramesMatch
  <2>4. TrueMeansRan'
    BY DEF TrueMeansRan, ToldTrue, Succeeded, ToldOfTheEnd, ZeroIsEarned, FramesMatch
  <2> QED BY <2>1, <2>2, <2>3, <2>4
<1>4. ParentWaits'
  BY DEF FramesMatch, ParentWaits
<1> QED BY <1>1, <1>2, <1>3, <1>4

\* The caller waits for the new child; an earlier child of it is gone, or unawaited.
LEMMA ForkPreserves ==
    ASSUME Inv, NEW p \in Process, Fork(p)
    PROVE  Inv'
<1> USE MainAssumption, MaxCallsAssumption
    DEF Inv, Shape, Files, Results, TypeOK, FrameMatches, Frame, Origin, OrNull,
        Functions, Status, CallId
<1> PICK c \in Process : Split(p, c, fds[p] \ {frame[p].id})
  BY DEF Fork
<1> USE DEF Split
<1>1. Shape'
  <2>1. TypeOK'
    <3>1. frame[p] \in Frame
      BY DEF FramesMatch
    <3>2. [frame[p] EXCEPT !.child = c] \in Frame
      BY <3>1
    <3>3. frame' \in [Process -> OrNull(Frame)]
      BY <3>1, <3>2
    <3>4. origin' \in [Process -> OrNull(Origin)]
      BY <3>1
    <3> QED BY <3>3, <3>4
  <2>2. ASSUME NEW q \in Process PROVE FrameMatches(q)'
    <3>1. CASE q = p
      BY <3>1 DEF FramesMatch
    <3>2. CASE q = c
      BY <3>2 DEF FramesMatch
    <3>3. CASE q \notin {p, c}
      BY <3>3 DEF FramesMatch
    <3> QED BY <3>1, <3>2, <3>3
  <2>3. FirstStays'
    BY DEF FirstStays
  <2> QED BY <2>1, <2>2, <2>3 DEF FramesMatch
<1>2. Files'
  <2>1. frame[p] \in Frame /\ c # Main /\ p # c
    BY DEF FramesMatch, FirstStays
  <2>2. /\ frame'[p].id = frame[p].id /\ frame'[c] = frame[p]
        /\ fds'[p] = fds[p] \ {frame[p].id} /\ fds'[c] = fds[p]
        /\ out'[c] = out[p] /\ out'[p] = out[p]
        /\ pc'[p] = "wait" /\ pc'[c] = "child"
    BY <2>1
  <2>3. \A q \in Process \ {p, c} :
          /\ pc'[q] = pc[q] /\ fds'[q] = fds[q] /\ out'[q] = out[q]
          /\ frame'[q] = frame[q] /\ origin'[q] = origin[q]
    OBVIOUS
  <2>4. FileInUse'
    BY <2>1, <2>2, <2>3 DEF FileInUse, RedirFd
  <2>5. OnlyFailuresKeepFiles'
    BY <2>1, <2>2, <2>3 DEF FileInUse, RedirFd, OnlyFailuresKeepFiles, OwnFile
  <2> QED BY <2>4, <2>5
<1>3. Results'
  <2>1. ZeroIsEarned'
    BY DEF ZeroIsEarned, OnlyRedirectCopies
  <2>2. ToldOfTheEnd'
    BY DEF ToldOfTheEnd, ToldTrue, FramesMatch
  <2>3. OnlyRedirectCopies'
    BY DEF OnlyRedirectCopies, FramesMatch
  <2>4. TrueMeansRan'
    BY DEF TrueMeansRan, ToldTrue, Succeeded, ToldOfTheEnd, ZeroIsEarned, FramesMatch
  <2> QED BY <2>1, <2>2, <2>3, <2>4
<1>4. ParentWaits'
  <2> SUFFICES ASSUME NEW d \in Process \ {Main},
                      pc'[d] \notin {"unused", "gone"}, d \notin unawaited'
               PROVE  LET q == origin'[d].by
                      IN  \/ pc'[q] \in {"zombie", "gone"}
                          \/ pc'[q] = "wait" /\ frame'[q].child = d
    BY DEF ParentWaits
  <2>1. CASE d = c
    BY <2>1 DEF FramesMatch
  <2>2. CASE d # c
    BY <2>2 DEF FramesMatch, ParentWaits
  <2> QED BY <2>1, <2>2
<1> QED BY <1>1, <1>2, <1>3, <1>4

\* Only the child that has ended was waited for, and it ended as the caller is told.
LEMMA WaitPreserves ==
    ASSUME Inv, NEW p \in Process, Wait(p)
    PROVE  Inv'
<1> USE MainAssumption, MaxCallsAssumption
    DEF Inv, Shape, Files, Results, TypeOK, FrameMatches, Frame, Origin, OrNull,
        Functions, Status, CallId
<1> USE DEF Wait, Return
<1>1. Shape'
  <2>1. TypeOK'
    BY DEF Succeeds, FramesMatch
  <2>2. FramesMatch'
    BY DEF FramesMatch
  <2>3. FirstStays'
    BY DEF FirstStays
  <2> QED BY <2>1, <2>2, <2>3
<1>2. Files'
  BY DEF FileInUse, RedirFd, OnlyFailuresKeepFiles, OwnFile, FramesMatch
<1>3. Results'
  <2>1. ZeroIsEarned'
    BY DEF ZeroIsEarned, OnlyRedirectCopies
  <2>2. ToldOfTheEnd'
    BY DEF Succeeds, ToldOfTheEnd, ToldTrue, FramesMatch
  <2>3. OnlyRedirectCopies'
    BY DEF OnlyRedirectCopies, FramesMatch
  <2>4. TrueMeansRan'
    <3> SUFFICES ASSUME NEW q \in Process, ToldTrue(q)'
                 PROVE  LET c == last'[q].child
                        IN  \/ ran'[c] /\ status'[c] = "zero"
                            \/ last'[q].fn # "system"
                                 /\ (status'[c] = "signal" \/ c \in unawaited')
                            \/ last'[q].fn = "redirect" /\ ~ran'[c] /\ status'[c] = "zero"
      BY DEF TrueMeansRan, Succeeded
    <3>1. CASE q # p
      <4>1. last'[q] = last[q] /\ UNCHANGED <<ran, status, unawaited>>
        BY <3>1
      <4> QED BY <4>1 DEF TrueMeansRan, ToldTrue, Succeeded
    <3>2. CASE q = p
      <4> DEFINE d == frame[p].child
      <4>1. /\ last'[p].fn = frame[p].fn /\ last'[p].child = d
            /\ last'[p].ok = Succeeds(frame[p].fn, status[d])
            /\ UNCHANGED <<ran, status, unawaited>>
        OBVIOUS
      <4>2. status[d] = "zero" \/ (status[d] = "signal" /\ frame[p].fn # "system")
        BY <3>2, <4>1 DEF ToldTrue, Succeeds
      <4>3. status[d] = "zero" => ran[d] \/ frame[p].fn = "redirect"
        BY DEF ZeroIsEarned, FramesMatch
      <4>4. ran[d] \in BOOLEAN
        BY DEF FramesMatch
      <4> QED BY <3>2, <4>1, <4>2, <4>3, <4>4
    <3> QED BY <3>1, <3>2
  <2> QED BY <2>1, <2>2, <2>3, <2>4
<1>4. ParentWaits'
  <2> SUFFICES ASSUME NEW d \in Process \ {Main},
                      pc'[d] \notin {"unused", "gone"}, d \notin unawaited'
               PROVE  LET q == origin'[d].by
                      IN  \/ pc'[q] \in {"zombie", "gone"}
                          \/ pc'[q] = "wait" /\ frame'[q].child = d
    BY DEF ParentWaits
  <2>1. pc[d] \notin {"unused", "gone"} /\ d # frame[p].child
    BY DEF FramesMatch
  <2> QED BY <2>1 DEF FramesMatch, ParentWaits
<1> QED BY <1>1, <1>2, <1>3, <1>4

\* The child of a failed waitpid is unawaited from then on.
LEMMA WaitFailsPreserves ==
    ASSUME Inv, NEW p \in Process, WaitFails(p)
    PROVE  Inv'
<1> USE MainAssumption, MaxCallsAssumption
    DEF Inv, Shape, Files, Results, TypeOK, FrameMatches, Frame, Origin, OrNull,
        Functions, Status, CallId
<1> PICK ok \in BOOLEAN : Return(p, ok) /\ (frame[p].fn = "system" => ok = FALSE)
  BY DEF WaitFails
<1> USE DEF WaitFails, Return
<1>1. Shape'
  <2>1. TypeOK'
    BY DEF FramesMatch
  <2>2. FramesMatch'
    BY DEF FramesMatch
  <2>3. FirstStays'
    BY DEF FirstStays
  <2> QED BY <2>1, <2>2, <2>3
<1>2. Files'
  BY DEF FileInUse, RedirFd, OnlyFailuresKeepFiles, OwnFile, FramesMatch
<1>3. Results'
  <2>1. ZeroIsEarned'
    BY DEF ZeroIsEarned, OnlyRedirectCopies
  <2>2. ToldOfTheEnd'
    BY DEF ToldOfTheEnd, ToldTrue, FramesMatch
  <2>3. OnlyRedirectCopies'
    BY DEF OnlyRedirectCopies, FramesMatch
  <2>4. TrueMeansRan'
    BY DEF TrueMeansRan, ToldTrue, Succeeded, ToldOfTheEnd, ZeroIsEarned, FramesMatch
  <2> QED BY <2>1, <2>2, <2>3, <2>4
<1>4. ParentWaits'
  BY DEF FramesMatch, ParentWaits
<1> QED BY <1>1, <1>2, <1>3, <1>4

\* The child of a call keeps no redir_fd, and its standard output becomes the file
\* of no other call.
LEMMA RedirectFiles ==
    ASSUME Inv, NEW p \in Process, pc[p] = "child", Redirect(p)
    PROVE  /\ p # Main
           /\ frame[p] \in Frame
           /\ frame[p].fn = origin[p].fn /\ frame[p].id = origin[p].id
           /\ fds' = [fds EXCEPT ![p] = fds'[p]] /\ fds'[p] \subseteq forkFailed
           /\ fds' \in [Process -> SUBSET CallId]
           /\ out' = [out EXCEPT ![p] = out'[p]]
           /\ out'[p] \in OrNull(execFailed \cup RedirFd(p))
           /\ out' \in [Process -> OrNull(CallId)]
<1>1. /\ p # Main
      /\ frame[p] \in Frame
      /\ frame[p].fn = origin[p].fn /\ frame[p].id = origin[p].id
  BY DEF Inv, Shape, FramesMatch, FrameMatches, FirstStays
<1>2. /\ fds \in [Process -> SUBSET CallId]
      /\ out \in [Process -> OrNull(CallId)]
      /\ fds[p] \subseteq forkFailed \cup RedirFd(p)
      /\ out[p] \in OrNull(execFailed)
  BY DEF Inv, Shape, Files, TypeOK, FileInUse
<1>3. frame[p].id \in CallId
  BY <1>1 DEF Frame
<1>4. /\ fds' = [fds EXCEPT ![p] = @ \ (RedirFd(p) \cap fds[p])]
      /\ \E file \in (RedirFd(p) \cap fds[p]) \cup {out[p]} : out' = [out EXCEPT ![p] = file]
  BY DEF Redirect, RedirFd
<1>5. RedirFd(p) \subseteq CallId
  BY <1>3 DEF RedirFd
<1> QED BY <1>1, <1>2, <1>4, <1>5 DEF OrNull

\* The command has run, and its process has closed redir_fd.
LEMMA ExecPreserves ==
    ASSUME Inv, NEW p \in Process, Exec(p)
    PROVE  Inv'
<1> USE MainAssumption, MaxCallsAssumption
    DEF Inv, Shape, Files, Results, TypeOK, FrameMatches, Frame, Origin, OrNull,
        Functions, Status, CallId
<1> USE DEF Exec
<1>r. /\ p # Main
      /\ frame[p] \in Frame
      /\ frame[p].fn = origin[p].fn /\ frame[p].id = origin[p].id
      /\ fds' = [fds EXCEPT ![p] = fds'[p]] /\ fds'[p] \subseteq forkFailed
      /\ fds' \in [Process -> SUBSET CallId]
      /\ out' = [out EXCEPT ![p] = out'[p]]
      /\ out'[p] \in OrNull(execFailed \cup RedirFd(p))
      /\ out' \in [Process -> OrNull(CallId)]
  BY RedirectFiles
<1>1. Shape'
  BY <1>r DEF FramesMatch, FirstStays
<1>2. Files'
  <2>1. fds'[p] \subseteq forkFailed /\ p # Main
    BY <1>r
  <2>2. out'[p] \in OrNull(execFailed \cup OwnFile(p)')
    BY <1>r DEF RedirFd, OwnFile
  <2>3. \A q \in Process \ {p} :
          /\ pc'[q] = pc[q] /\ fds'[q] = fds[q] /\ out'[q] = out[q]
          /\ frame'[q] = frame[q] /\ origin'[q] = origin[q]
    BY <1>r
  <2>4. FileInUse'
    BY <2>3 DEF FileInUse, RedirFd
  <2>5. OnlyFailuresKeepFiles'
    BY <2>1, <2>2, <2>3 DEF FileInUse, OnlyFailuresKeepFiles, OwnFile
  <2> QED BY <2>4, <2>5
<1>3. Results'
  BY DEF ZeroIsEarned, ToldOfTheEnd, ToldTrue, TrueMeansRan, Succeeded,
     OnlyRedirectCopies, FramesMatch
<1>4. ParentWaits'
  BY DEF FramesMatch, ParentWaits
<1> QED BY <1>1, <1>2, <1>3, <1>4

\* A child that cannot run its command ends with 1.
LEMMA ExecFailsPreserves ==
    ASSUME Inv, NEW p \in Process, ExecFails(p)
    PROVE  Inv'
<1> USE MainAssumption, MaxCallsAssumption
    DEF Inv, Shape, Files, Results, TypeOK, FrameMatches, Frame, Origin, OrNull,
        Functions, Status, CallId
<1> USE DEF ExecFails, End
<1>1. Shape'
  BY DEF FramesMatch, FirstStays
<1>2. Files'
  BY DEF FileInUse, RedirFd, OnlyFailuresKeepFiles, OwnFile, FramesMatch
<1>3. Results'
  BY DEF ZeroIsEarned, ToldOfTheEnd, ToldTrue, TrueMeansRan, Succeeded,
     OnlyRedirectCopies, FramesMatch
<1>4. ParentWaits'
  BY DEF FramesMatch, ParentWaits
<1> QED BY <1>1, <1>2, <1>3, <1>4

\* The child of do_exec_redirect, and no other, goes on with the program.
LEMMA ExecFailsAndReturnsPreserves ==
    ASSUME Inv, NEW p \in Process, ExecFailsAndReturns(p)
    PROVE  Inv'
<1> USE MainAssumption, MaxCallsAssumption
    DEF Inv, Shape, Files, Results, TypeOK, FrameMatches, Frame, Origin, OrNull,
        Functions, Status, CallId
<1> USE DEF ExecFailsAndReturns, Return
<1>r. /\ p # Main
      /\ frame[p] \in Frame
      /\ frame[p].fn = origin[p].fn /\ frame[p].id = origin[p].id
      /\ fds' = [fds EXCEPT ![p] = fds'[p]] /\ fds'[p] \subseteq forkFailed
      /\ fds' \in [Process -> SUBSET CallId]
      /\ out' = [out EXCEPT ![p] = out'[p]]
      /\ out'[p] \in OrNull(execFailed \cup RedirFd(p))
      /\ out' \in [Process -> OrNull(CallId)]
  BY RedirectFiles
<1>1. Shape'
  BY <1>r DEF FramesMatch, FirstStays
<1>2. Files'
  <2>1. fds'[p] \subseteq forkFailed /\ p # Main
    BY <1>r
  <2>2. out'[p] \in OrNull(execFailed')
    BY <1>r DEF RedirFd
  <2>3. \A q \in Process \ {p} :
          /\ pc'[q] = pc[q] /\ fds'[q] = fds[q] /\ out'[q] = out[q]
          /\ frame'[q] = frame[q] /\ origin'[q] = origin[q]
    BY <1>r
  <2>4. FileInUse'
    BY <2>3 DEF FileInUse, RedirFd
  <2>5. OnlyFailuresKeepFiles'
    BY <2>1, <2>2, <2>3 DEF FileInUse, OnlyFailuresKeepFiles, OwnFile
  <2> QED BY <2>4, <2>5
<1>3. Results'
  BY DEF ZeroIsEarned, ToldOfTheEnd, ToldTrue, TrueMeansRan, Succeeded,
     OnlyRedirectCopies, FramesMatch
<1>4. ParentWaits'
  BY DEF FramesMatch, ParentWaits
<1> QED BY <1>1, <1>2, <1>3, <1>4

\* What ends with 0 is a command or a copy of the program.
LEMMA ExitPreserves ==
    ASSUME Inv, NEW p \in Process, Exit(p)
    PROVE  Inv'
<1> USE MainAssumption, MaxCallsAssumption
    DEF Inv, Shape, Files, Results, TypeOK, FrameMatches, Frame, Origin, OrNull,
        Functions, Status, CallId
<1> USE DEF Exit, End
<1>1. Shape'
  BY DEF FramesMatch, FirstStays
<1>2. Files'
  BY DEF FileInUse, RedirFd, OnlyFailuresKeepFiles, OwnFile, FramesMatch
<1>3. Results'
  BY DEF ZeroIsEarned, ToldOfTheEnd, ToldTrue, TrueMeansRan, Succeeded,
     OnlyRedirectCopies, FramesMatch
<1>4. ParentWaits'
  BY DEF FramesMatch, ParentWaits
<1> QED BY <1>1, <1>2, <1>3, <1>4

\* A caller killed in waitpid is a zombie, and need not wait.
LEMMA KilledPreserves ==
    ASSUME Inv, NEW p \in Process, Killed(p)
    PROVE  Inv'
<1> USE MainAssumption, MaxCallsAssumption
    DEF Inv, Shape, Files, Results, TypeOK, FrameMatches, Frame, Origin, OrNull,
        Functions, Status, CallId
<1> USE DEF Killed, End
<1>1. Shape'
  BY DEF FramesMatch, FirstStays
<1>2. Files'
  BY DEF FileInUse, RedirFd, OnlyFailuresKeepFiles, OwnFile, FramesMatch
<1>3. Results'
  BY DEF ZeroIsEarned, ToldOfTheEnd, ToldTrue, TrueMeansRan, Succeeded,
     OnlyRedirectCopies, FramesMatch
<1>4. ParentWaits'
  BY DEF FramesMatch, ParentWaits
<1> QED BY <1>1, <1>2, <1>3, <1>4

\* The initial states satisfy the invariant.
LEMMA InitInv == Init => Inv
<1> SUFFICES ASSUME Init PROVE Inv
  OBVIOUS
<1> USE MainAssumption, MaxCallsAssumption DEF Init
<1>1. Shape
  BY DEF Shape, TypeOK, OrNull, CallId, FramesMatch, FrameMatches, FirstStays
<1>2. Files
  BY DEF Files, FileInUse, OnlyFailuresKeepFiles, OrNull
<1>3. Results
  BY DEF Results, ZeroIsEarned, ToldOfTheEnd, TrueMeansRan, ToldTrue, OnlyRedirectCopies
<1>4. ParentWaits
  BY DEF ParentWaits
<1> QED BY <1>1, <1>2, <1>3, <1>4 DEF Inv

\* Every reachable state satisfies the invariant.
LEMMA Invariance == Spec => []Inv
<1>1. Inv /\ [Next]_vars => Inv'
  <2> SUFFICES ASSUME Inv, [Next]_vars PROVE Inv'
    OBVIOUS
  <2>1. CASE Next
    BY <2>1, CallPreserves, ForkFailsPreserves, ForkPreserves, WaitPreserves,
       WaitFailsPreserves, ExecPreserves, ExecFailsPreserves,
       ExecFailsAndReturnsPreserves, ExitPreserves, KilledPreserves
       DEF Next, Step
  <2>2. CASE UNCHANGED vars
    <3>1. Shape'
      BY <2>2 DEF vars, Inv, Shape, TypeOK, FramesMatch, FrameMatches, FirstStays
    <3>2. Files'
      BY <2>2 DEF vars, Inv, Files, FileInUse, RedirFd, OnlyFailuresKeepFiles, OwnFile, OrNull
    <3>3. Results'
      BY <2>2 DEF vars, Inv, Results, ZeroIsEarned, ToldOfTheEnd, TrueMeansRan,
                  ToldTrue, Succeeded, OnlyRedirectCopies
    <3>4. ParentWaits'
      BY <2>2 DEF vars, Inv, ParentWaits
    <3> QED BY <3>1, <3>2, <3>3, <3>4 DEF Inv
  <2> QED BY <2>1, <2>2
<1> QED BY InitInv, <1>1, PTL DEF Spec

(***************************************************************************)
(* However many processes and calls there are, a process that waits, forks *)
(* or is forked has a frame, and the variables keep their types.           *)
(***************************************************************************)
THEOREM TypeCorrect == Spec => []TypeOK
<1>1. Inv => TypeOK
  BY DEF Inv, Shape
<1> QED BY <1>1, Invariance, PTL

(***************************************************************************)
(* The result true always means what TrueMeansRan says (do_system, do_exec *)
(* and do_exec_redirect, lines 17-175): the end of a process that was       *)
(* waited for is final, so a caller is never told of a command that is     *)
(* still running.                                                          *)
(***************************************************************************)
THEOREM TrueIsWhatItMeans == Spec => []TrueMeansRan
<1>1. Inv => TrueMeansRan
  BY DEF Inv, Results
<1> QED BY <1>1, Invariance, PTL

(***************************************************************************)
(* Any number of copies of the program run one at a time: each waits for   *)
(* the one process it forked (waitpid, lines 84 and 160).                  *)
(***************************************************************************)
THEOREM ProgramsTakeTurns == Spec => []ParentWaits
<1>1. Inv => ParentWaits
  BY DEF Inv
<1> QED BY <1>1, Invariance, PTL

(***************************************************************************)
(* No call, however deep the chain of copies it is made in, leaves its     *)
(* output file open but in the processes where its fork or its execv       *)
(* failed, and none redirects the standard output of the first process     *)
(* (lines 112, 143, 147 and 155).                                          *)
(***************************************************************************)
THEOREM FilesAreClosed == Spec => []OnlyFailuresKeepFiles
<1>1. Inv => OnlyFailuresKeepFiles
  BY DEF Inv, Files
<1> QED BY <1>1, Invariance, PTL
=============================================================================
