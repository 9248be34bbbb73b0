----------------------------- MODULE AesdSocket -----------------------------
(***************************************************************************)
(* server/aesdsocket.c in both of its builds: the accept loop of main, one *)
(* thread for each connection, the timestamp thread of the file build, the *)
(* mutex they share, shutting down on a signal, and starting again.        *)
(*                                                                         *)
(* With USE_AESD_CHAR_DEVICE the data is in /dev/aesdchar, which is        *)
(* AesdDevice with the server as its only user; without it, in a file.  A  *)
(* client names its connection, its thread and its list node.  Between two *)
(* steps of a thread lies every call that can block or at which a          *)
(* pthread_cancel can take effect.                                         *)
(***************************************************************************)
EXTENDS Integers, Sequences, FiniteSets, SequencesExt

CONSTANTS
    Client,
    Timestamp,    \* the timestamp thread, and the text it writes
    Builds,       \* the values of USE_AESD_CHAR_DEVICE
    RemoveMayFail, \* whether remove() may fail
    Capacity,     \* of the device
    Newline, Zeros,
    Seek,         \* the message AESDCHAR_IOCSEEKTO:x,y
    MaxSent,      \* bound on messages and timestamps together
    NULL, Nobody

ASSUME BuildsAssumption == Builds \subseteq BOOLEAN /\ RemoveMayFail \in BOOLEAN

ASSUME BoundsAssumption == Capacity \in Nat \ {0} /\ MaxSent \in Nat

\* No two of the values that the code tells apart are the same.
ASSUME NamesAssumption ==
    /\ {Timestamp, Newline, Zeros, Nobody, NULL} \cap Client = {}
    /\ Timestamp \notin {Newline, Zeros, Nobody}
    /\ \A c \in Client : Seek \notin {<<c>>, <<c, Newline>>}

VARIABLES
    use_device,             \* USE_AESD_CHAR_DEVICE of this build
    kept,                   \* remove() failed: the file is an earlier process's
    log, partial, jammed,   \* the device
    file,                   \* the bytes of AESDFILE, or NULL
    shutdown_flag,
    main,                   \* where main is
    list,                   \* the nodes behind head, newest first
    current,                \* the node main looks at, or NULL
    lost,                   \* threads that never got a list node
    freed,                  \* clients whose threads have been joined and nodes freed
    file_mut,               \* the owner of fwl->file_mut
    ts,                     \* where ts_thread is
    pc,                     \* where each client's thread is
    msg,                    \* the message it is dealing with, or NULL
    pos,                    \* where it reads the device or the file
    reply,                  \* what it has read to send in answer
    operation_complete,
    cancelled,              \* threads with a pending pthread_cancel
    sent                    \* how many messages and timestamps there were

setup == <<use_device, kept>>
device == <<log, partial, jammed>>
store == <<device, file>>
server == <<shutdown_flag, main, list, current, lost, freed>>
handlers == <<pc, msg, pos, reply, operation_complete, sent>>
vars == <<setup, store, server, file_mut, ts, handlers, cancelled>>

\* What a client may send besides Seek: a line, and a piece of one without its
\* newline.  Bytes behind a newline are never looked at.  The client's name
\* stands for its text.
Line(c) == <<c, Newline>>
Part(c) == <<c>>

Data == {Line(c) : c \in Client} \cup {Part(c) : c \in Client}

\* One timestamp line.  All of outstr is written, with the zeros behind the text.
Stamp == <<Timestamp, Newline, Zeros>>

Byte == Client \cup {Newline, Timestamp, Zeros}

Dev == INSTANCE AesdDevice WITH Chunk <- Data

\* What is stored, as a reader that starts at the beginning gets it.
Stored == IF use_device THEN Dev!Contents ELSE file

Running == main \notin {"exited", "killed"}

Started == {c \in Client : pc[c] # "none"}

Finished == {c \in Client : pc[c] = "finished"}

TypeOK ==
    /\ use_device \in BOOLEAN /\ kept \in BOOLEAN
    /\ file \in Seq(Byte) \cup {NULL}
    /\ shutdown_flag \in BOOLEAN
    /\ main \in {"check", "calling", "accept", "scan", "reap",
                 "cancel", "join", "tsjoin", "exited", "killed"}
    /\ list \in Seq(Client)
    /\ current \in Client \cup {NULL}
    /\ lost \subseteq Client /\ freed \subseteq Client
    /\ file_mut \in Client \cup {Timestamp, Nobody}
    /\ ts \in {"unset", "failed", "check", "sleep", "lock", "write", "finished"}
    /\ pc \in [Client -> {"none", "recv", "lock", "write", "unopened", "read",
                          "send", "close", "done", "finished"}]
    /\ msg \in [Client -> Data \cup {Seek, NULL}]
    /\ pos \in [Client -> Nat]
    /\ reply \in [Client -> Seq(Byte)]
    /\ operation_complete \in [Client -> BOOLEAN]
    /\ cancelled \subseteq Client \cup {Timestamp}
    /\ sent \in 0..MaxSent

-----------------------------------------------------------------------------
(* handle_connection *)

\* The thread of c takes a step; it leaves the variables of main alone.
Go(c, from, to) ==
    /\ Running
    /\ pc[c] = from
    /\ pc' = [pc EXCEPT ![c] = to]
    /\ UNCHANGED <<setup, server, ts, cancelled>>

\* The device is closed and the buffer is free for the next message.
Forget(c) ==
    /\ msg' = [msg EXCEPT ![c] = NULL]
    /\ pos' = [pos EXCEPT ![c] = 0]
    /\ reply' = [reply EXCEPT ![c] = <<>>]

\* Without the device a seek command is a line like any other.
Recv(c) ==
    /\ Go(c, "recv", "lock")
    /\ sent < MaxSent
    /\ sent' = sent + 1
    /\ \E m \in {Line(c), Part(c)} \cup {s \in {Seek} : use_device} :
         msg' = [msg EXCEPT ![c] = m]
    /\ UNCHANGED <<store, file_mut, pos, reply, operation_complete>>

\* recv returns 0 or -1: the loop ends.  The thread still logs the address in
\* its node before it exits.
RecvEnds(c) ==
    /\ Go(c, "recv", "done")
    /\ operation_complete' = [operation_complete EXCEPT ![c] = TRUE]
    /\ UNCHANGED <<store, file_mut, msg, pos, reply, sent>>

\* Mutant: nobody waits for the mutex.
LockWithoutWaiting(c) ==
    /\ Go(c, "lock", "write")
    /\ file_mut' = c
    /\ UNCHANGED <<store, msg, pos, reply, operation_complete, sent>>

Lock(c) ==
    /\ Go(c, "lock", "write")
    /\ file_mut = Nobody
    /\ file_mut' = c
    /\ UNCHANGED <<store, msg, pos, reply, operation_complete, sent>>

\* open() fails, say for want of descriptors: every call on char_dev then fails
\* too, and nothing is sent.
OpenFails(c) ==
    /\ use_device
    /\ Go(c, "write", "unopened")
    /\ UNCHANGED <<store, file_mut, msg, pos, reply, operation_complete, sent>>

\* The first bytes of data reach the file.
PutInFile(data, n) == file' = file \o SubSeq(data, 1, n)

\* write(), or fwrite() and fflush().
Put(data) ==
    IF use_device
    THEN (Dev!WriteLine(data) \/ Dev!WritePart(data)) /\ UNCHANGED file
    ELSE PutInFile(data, Len(data)) /\ UNCHANGED device

\* They fail: the device keeps what it has or loses the command it collects, and
\* stdio drops the bytes that did not reach the file.
PutFails(data) ==
    IF use_device
    THEN (Dev!LosePartial \/ (~jammed /\ UNCHANGED device)) /\ UNCHANGED file
    ELSE (\E n \in 0..(Len(data) - 1) : PutInFile(data, n)) /\ UNCHANGED device

AfterWrite(c) == IF msg[c] = Line(c) THEN "read" ELSE "close"

\* A whole line is answered, from the start of what is stored.
Write(c) ==
    /\ msg[c] # Seek
    /\ Go(c, "write", AfterWrite(c))
    /\ Put(msg[c])
    /\ pos' = [pos EXCEPT ![c] = 0]
    /\ UNCHANGED <<file_mut, msg, reply, operation_complete, sent>>

\* Nobody looks at the results of the calls that write.
WriteFails(c) ==
    /\ msg[c] # Seek
    /\ Go(c, "write", AfterWrite(c))
    /\ PutFails(msg[c])
    /\ pos' = [pos EXCEPT ![c] = 0]
    /\ UNCHANGED <<file_mut, msg, reply, operation_complete, sent>>

\* ioctl(): the command and the offset choose a position, or do not exist.  A
\* failure is logged and the thread reads all the same.
SeekSucceeds(c) ==
    /\ msg[c] = Seek
    /\ Go(c, "write", "read")
    /\ ~jammed /\ log # <<>>
    /\ \E p \in 0..Len(Dev!Contents) : pos' = [pos EXCEPT ![c] = p]
    /\ UNCHANGED <<store, file_mut, msg, reply, operation_complete, sent>>

\* Mutant: the -1 of the failed ioctl is taken for a position.
SeekFailsToMinusOne(c) ==
    /\ msg[c] = Seek
    /\ Go(c, "write", "read")
    /\ Dev!FailSeek
    /\ pos' = [pos EXCEPT ![c] = -1]
    /\ UNCHANGED <<file, file_mut, msg, reply, operation_complete, sent>>

\* The driver refuses the seek with its mutex locked or, when the command number
\* is out of range, before it locks it.
SeekFails(c) ==
    /\ msg[c] = Seek
    /\ Go(c, "write", "read")
    /\ Dev!FailSeek \/ UNCHANGED device
    /\ UNCHANGED <<file, file_mut, msg, pos, reply, operation_complete, sent>>

\* One call gets no more than a line: getline all the rest of it, read() what
\* its buffer holds.
ReadLengths(c) ==
    {n \in 1..(Len(Stored) - pos[c]) :
        /\ \A i \in 1..(n - 1) : Stored[pos[c] + i] # Newline
        /\ \/ use_device
           \/ pos[c] + n = Len(Stored)
           \/ Stored[pos[c] + n] = Newline}

\* The loop of read() or getline(), and send().
Read(c) ==
    /\ Go(c, "read", "send")
    /\ ~jammed
    /\ \E n \in ReadLengths(c) :
         /\ pos' = [pos EXCEPT ![c] = pos[c] + n]
         /\ reply' = [reply EXCEPT
                        ![c] = reply[c] \o SubSeq(Stored, pos[c] + 1, pos[c] + n)]
    /\ UNCHANGED <<store, file_mut, msg, operation_complete, sent>>

ReadEnds(c) ==
    /\ Go(c, "read", "close")
    /\ ~jammed
    /\ pos[c] = Len(Stored)
    /\ UNCHANGED <<store, file_mut, msg, pos, reply, operation_complete, sent>>

\* send() has no timeout: when its buffers are full it waits until the client
\* reads, with file_mut locked.
SendReturns(c) ==
    /\ Go(c, "send", "read")
    /\ UNCHANGED <<store, file_mut, msg, pos, reply, operation_complete, sent>>

\* The client is gone when send() is called: SIGPIPE, which nobody handles,
\* ends the process.
BrokenPipe(c) ==
    /\ Running
    /\ pc[c] = "send"
    /\ main' = "killed"
    /\ UNCHANGED <<setup, store, shutdown_flag, list, current, lost, freed,
                   file_mut, ts, handlers, cancelled>>

\* Mutant: the branch without a newline forgets to unlock.
UnlockAfterReplyOnly(c) ==
    /\ \E from \in {"close", "unopened"} : Go(c, from, "recv")
    /\ file_mut' = IF msg[c] = Part(c) THEN file_mut ELSE Nobody
    /\ Forget(c)
    /\ UNCHANGED <<store, operation_complete, sent>>

Unlock(c) ==
    /\ \E from \in {"close", "unopened"} : Go(c, from, "recv")
    /\ file_mut' = Nobody
    /\ Forget(c)
    /\ UNCHANGED <<store, operation_complete, sent>>

ThreadExits(c) ==
    /\ Go(c, "done", "finished")
    /\ UNCHANGED <<store, file_mut, msg, pos, reply, operation_complete, sent>>

\* A pending cancellation takes effect in recv, in what reads and writes the
\* device or the file, and in send, but not while the thread waits for the
\* mutex.  No cleanup handler gives the mutex back.
Cancelled(c) ==
    /\ c \in cancelled
    /\ \E from \in {"recv", "write", "unopened", "read", "send", "close"} :
         Go(c, from, "finished")
    /\ Forget(c)
    /\ UNCHANGED <<store, file_mut, operation_complete, sent>>

-----------------------------------------------------------------------------
(* handle_timestamp, in the file build *)

TsGo(from, to) ==
    /\ Running
    /\ ts = from
    /\ ts' = to
    /\ UNCHANGED <<setup, device, server, pc, msg, pos, reply,
                   operation_complete, cancelled>>

TsCheck ==
    /\ TsGo("check", IF shutdown_flag THEN "finished" ELSE "sleep")
    /\ UNCHANGED <<file, file_mut, sent>>

\* clock_nanosleep returns.
TsWakes ==
    /\ TsGo("sleep", "lock")
    /\ sent < MaxSent
    /\ sent' = sent + 1
    /\ UNCHANGED <<file, file_mut>>

\* localtime or strftime fails.
TsFails ==
    /\ TsGo("sleep", "finished")
    /\ UNCHANGED <<file, file_mut, sent>>

TsLock ==
    /\ TsGo("lock", "write")
    /\ file_mut = Nobody
    /\ file_mut' = Timestamp
    /\ UNCHANGED <<file, sent>>

\* All of it or, if fwrite or fflush fails, some of it.
TsWrite ==
    /\ TsGo("write", "check")
    /\ \E n \in 0..Len(Stamp) : PutInFile(Stamp, n)
    /\ file_mut' = Nobody
    /\ UNCHANGED sent

TsCancelled ==
    /\ Timestamp \in cancelled
    /\ \E from \in {"sleep", "write"} : TsGo(from, "finished")
    /\ UNCHANGED <<file, file_mut, sent>>

-----------------------------------------------------------------------------
(* main *)

\* Main takes a step; it leaves what is stored and the threads alone.
MainGo(from, to) ==
    /\ main = from
    /\ main' = to
    /\ UNCHANGED <<setup, device, file_mut, msg, pos, reply,
                   operation_complete, sent>>

\* ... and starts no thread, frees no node and cancels nobody.
MainOnly(from, to) ==
    /\ MainGo(from, to)
    /\ UNCHANGED <<file, pc, ts, shutdown_flag, list, lost, freed, cancelled>>

\* while (!shutdown_flag)
CheckFlag ==
    /\ MainOnly("check", IF shutdown_flag THEN "cancel" ELSE "calling")
    /\ UNCHANGED current

\* Only from here on does a signal interrupt accept.
EnterAccept == MainOnly("calling", "accept") /\ UNCHANGED current

\* accept fails for another reason than a signal.
AcceptFails ==
    /\ MainOnly("accept", IF shutdown_flag THEN "cancel" ELSE "check")
    /\ UNCHANGED current

\* What the three list functions leave of the list.
AddToStart(c) == <<c>> \o list

RemoveHead == Tail(list)

RemoveNode(c) == RemoveFirst(list, c)

\* The first client of the file build starts the timestamp thread, if
\* pthread_create can: nobody looks.
StartTimestamp ==
    ts' \in IF ~use_device /\ ts = "unset" THEN {"check", "failed"} ELSE {ts}

\* accept returns a client.
Connect(c, to) ==
    /\ MainGo("accept", to)
    /\ StartTimestamp
    /\ pc[c] = "none"
    /\ pc' = [pc EXCEPT ![c] = "recv"]
    /\ UNCHANGED <<file, shutdown_flag, freed, cancelled>>

\* Mutant: the new node is not linked to the old head.
AcceptDropsList(c) ==
    /\ Connect(c, "scan")
    /\ list' = <<c>>
    /\ current' = c
    /\ UNCHANGED lost

\* Node, thread, list node, and the scan begins.
Accept(c) ==
    /\ Connect(c, "scan")
    /\ list' = AddToStart(c)
    /\ current' = c
    /\ UNCHANGED lost

\* malloc of the client node fails.
NoClientNode ==
    /\ MainGo("accept", "cancel")
    /\ StartTimestamp
    /\ UNCHANGED <<file, pc, shutdown_flag, list, current, lost, freed, cancelled>>

\* malloc of the list node fails, when the thread already runs.
NoListNode(c) ==
    /\ Connect(c, "cancel")
    /\ lost' = lost \cup {c}
    /\ UNCHANGED <<list, current>>

\* current->next
NextOf(c) ==
    LET i == SelectInSeq(list, LAMBDA x : x = c)
    IN  IF i < Len(list) THEN list[i + 1] ELSE NULL

\* Mutant: the scan does not move on from a thread that still runs.
ScanWaits ==
    /\ MainOnly("scan", IF current = NULL THEN "check"
                        ELSE IF operation_complete[current] THEN "reap" ELSE "scan")
    /\ UNCHANGED current

\* One round of the scan over the list.
ScanEnd == current = NULL /\ MainOnly("scan", "check") /\ UNCHANGED current

ScanNode ==
    /\ current # NULL
    /\ IF operation_complete[current]
       THEN MainOnly("scan", "reap") /\ UNCHANGED current
       ELSE MainOnly("scan", "scan") /\ current' = NextOf(current)

Scan == ScanEnd \/ ScanNode

\* The node of a joined thread leaves the list.
FreeNode(c, rest) ==
    /\ freed' = freed \cup {c}
    /\ list' = rest
    /\ UNCHANGED <<file, pc, ts, shutdown_flag, lost, cancelled>>

\* Mutant: the node is freed without waiting for its thread.
ReapWithoutJoin ==
    /\ MainGo("reap", "scan")
    /\ FreeNode(current, RemoveNode(current))
    /\ current' = NextOf(current)

\* pthread_join and list_remove_using_client_file_node.
Reap ==
    /\ MainGo("reap", "scan")
    /\ pc[current] = "finished"
    /\ FreeNode(current, RemoveNode(current))
    /\ current' = NextOf(current)

\* Mutant: the clean-up joins without cancelling.
CancelHeadForgotten ==
    /\ list # <<>>
    /\ MainOnly("cancel", "join")
    /\ current' = Head(list)

\* while (head != NULL) after the loop.
CancelHead ==
    /\ list # <<>>
    /\ MainGo("cancel", "join")
    /\ current' = Head(list)
    /\ cancelled' = cancelled \cup {Head(list)}
    /\ UNCHANGED <<file, pc, ts, shutdown_flag, list, lost, freed>>

JoinHead ==
    /\ MainGo("join", "cancel")
    /\ pc[current] = "finished"
    /\ FreeNode(current, RemoveHead)
    /\ UNCHANGED current

\* The mutex is destroyed, fwl is freed and the process ends.
FreeAndExit ==
    /\ use_device
    /\ list = <<>>
    /\ MainOnly("cancel", "exited")
    /\ UNCHANGED current

\* What remove() leaves of the file.
AfterRemove == {NULL} \cup {f \in {file} : RemoveMayFail}

\* In the file build the timestamp thread is cancelled and joined first ...
CancelTimestamp ==
    /\ ~use_device /\ ts \notin {"unset", "failed"}
    /\ list = <<>>
    /\ MainGo("cancel", "tsjoin")
    /\ cancelled' = cancelled \cup {Timestamp}
    /\ UNCHANGED <<file, pc, ts, shutdown_flag, list, current, lost, freed>>

\* ... and the file closed and removed; nobody looks whether it is.
JoinTimestamp ==
    /\ ts = "finished"
    /\ MainGo("tsjoin", "exited")
    /\ file' \in AfterRemove
    /\ UNCHANGED <<pc, ts, shutdown_flag, list, current, lost, freed, cancelled>>

\* ts_thread was never set and pthread_cancel and pthread_join are given what
\* the stack holds: an error that nobody looks at, a crash, or a join for ever.
CancelUnset ==
    /\ ~use_device /\ ts \in {"unset", "failed"}
    /\ list = <<>>
    /\ \E to \in {"exited", "killed", "tsjoin"} :
         /\ MainGo("cancel", to)
         /\ file' \in IF to = "exited" THEN AfterRemove ELSE {file}
    /\ UNCHANGED <<pc, ts, shutdown_flag, list, current, lost, freed, cancelled>>

\* SIGINT or SIGTERM runs raise_shutdown_flag on the main thread; an accept
\* that has begun returns -1 and sees the flag.
Signal ==
    /\ Running
    /\ ~shutdown_flag
    /\ shutdown_flag' = TRUE
    /\ main' = IF main = "accept" THEN "cancel" ELSE main
    /\ UNCHANGED <<setup, store, list, current, lost, freed, file_mut, ts,
                   handlers, cancelled>>

-----------------------------------------------------------------------------
(* Starting *)

\* A new process has nothing in memory, and its accept loop begins.
Boot ==
    /\ ~Running
    /\ main' = "check"
    /\ shutdown_flag' = FALSE
    /\ list' = <<>> /\ current' = NULL
    /\ lost' = {} /\ freed' = {} /\ cancelled' = {}
    /\ file_mut' = Nobody /\ ts' = "unset"
    /\ pc' = [c \in Client |-> "none"]
    /\ msg' = [c \in Client |-> NULL]
    /\ pos' = [c \in Client |-> 0]
    /\ reply' = [c \in Client |-> <<>>]
    /\ operation_complete' = [c \in Client |-> FALSE]
    /\ UNCHANGED <<use_device, device, sent>>

\* Mutant: a file that exists is not removed.
StartWithoutRemove ==
    /\ Boot
    /\ file' = IF use_device THEN NULL ELSE IF file = NULL THEN <<>> ELSE file
    /\ kept' = FALSE

\* main up to its loop.  In the file build a file that an earlier process left
\* behind is removed and a new one is opened; nobody looks whether remove()
\* fails, and what is opened then is the old file.
Start ==
    /\ Boot
    /\ \E f \in AfterRemove :
         /\ file' = IF use_device THEN NULL ELSE IF f = NULL THEN <<>> ELSE f
         /\ kept' = (f # NULL)

\* fopen fails after remove(); the other errors of the start leave everything as
\* it was.
StartFails ==
    /\ ~Running
    /\ file' \in AfterRemove
    /\ UNCHANGED <<setup, device, server, file_mut, ts, handlers, cancelled>>

\* aesdchar_unload and aesdchar_load, for which nobody may have the device open:
\* no thread between open and close, and none that was cancelled there.
ReloadModule ==
    /\ use_device
    /\ Running => /\ \A c \in Client : pc[c] \notin {"read", "send", "close"}
                  /\ file_mut \notin Finished
    /\ Dev!Reset
    /\ UNCHANGED <<setup, file, server, file_mut, ts, handlers, cancelled>>

-----------------------------------------------------------------------------

Init ==
    /\ use_device \in Builds /\ kept = FALSE
    /\ Dev!Init
    /\ file = NULL
    /\ main = "exited"
    /\ shutdown_flag = FALSE
    /\ list = <<>> /\ current = NULL
    /\ lost = {} /\ freed = {} /\ cancelled = {}
    /\ file_mut = Nobody /\ ts = "unset"
    /\ pc = [c \in Client |-> "none"]
    /\ msg = [c \in Client |-> NULL]
    /\ pos = [c \in Client |-> 0]
    /\ reply = [c \in Client |-> <<>>]
    /\ operation_complete = [c \in Client |-> FALSE]
    /\ sent = 0

\* What a thread does by itself, and what only its client can cause.
ThreadStep(c) ==
    \/ Lock(c) \/ OpenFails(c) \/ Write(c) \/ WriteFails(c)
    \/ SeekSucceeds(c) \/ SeekFails(c) \/ Read(c) \/ ReadEnds(c)
    \/ Unlock(c) \/ ThreadExits(c) \/ Cancelled(c)

ClientStep(c) == Recv(c) \/ RecvEnds(c) \/ SendReturns(c) \/ BrokenPipe(c)

TimestampStep == TsCheck \/ TsWakes \/ TsLock \/ TsWrite \/ TsCancelled

MainStep ==
    \/ CheckFlag \/ EnterAccept
    \/ Scan \/ Reap
    \/ CancelHead \/ JoinHead \/ FreeAndExit
    \/ CancelTimestamp \/ JoinTimestamp \/ CancelUnset

AcceptStep ==
    \/ AcceptFails
    \/ NoClientNode
    \/ \E c \in Client : Accept(c) \/ NoListNode(c)

Next ==
    \/ \E c \in Client : ThreadStep(c) \/ ClientStep(c)
    \/ TimestampStep \/ TsFails
    \/ MainStep
    \/ AcceptStep
    \/ Signal
    \/ Start \/ StartFails \/ ReloadModule

Spec == Init /\ [][Next]_vars

\* The scheduler runs every thread that can run, and time passes.  Nobody has to
\* connect, send, read what it is sent, hang up, raise a signal or start the
\* server.
FairSpec ==
    /\ Spec
    /\ WF_vars(MainStep)
    /\ WF_vars(TimestampStep)
    /\ \A c \in Client : WF_vars(ThreadStep(c))

-----------------------------------------------------------------------------
(* Properties *)

InLoop == main \in {"check", "calling", "accept", "scan", "reap"}

(***************************************************************************)
(* The pieces that a thread reads and sends in answer to a line, one call  *)
(* after the other and with the client free to be slow, make up all that   *)
(* is stored, as it is when the last of them has been sent: neither        *)
(* another connection nor the timestamp thread writes in between, and      *)
(* nobody moves the position (lines 200-247).  The answer to a seek is all *)
(* that is stored from some byte on.                                       *)
(***************************************************************************)
ReplyIsSnapshot ==
    \A c \in Client :
        Running /\ pc[c] = "close" =>
            /\ msg[c] = Line(c) => reply[c] = Stored
            /\ msg[c] = Seek =>
                 \E p \in 0..Len(Stored) : reply[c] = SubSeq(Stored, p + 1, Len(Stored))

(***************************************************************************)
(* A client's node is freed only when its thread cannot use it any more,   *)
(* although the thread announces its end before it last reads the node     *)
(* (lines 263 and 267).  When fwl is freed, and its file closed, every     *)
(* thread has finished but for one that got no list node: there is never   *)
(* more than one of those, and it has ended the accept loop (line 541).    *)
(* That one may still use fwl.                                             *)
(***************************************************************************)
FreedAfterJoin ==
    /\ \A c \in freed : pc[c] = "finished"
    /\ main = "exited" => /\ Started \subseteq Finished \cup lost
                          /\ ts \in {"unset", "failed", "finished"}
    /\ \A c, d \in lost : c = d
    /\ lost # {} => ~InLoop

(***************************************************************************)
(* Every thread that was started is in the list once, or has been joined   *)
(* and freed, or is the one whose list node could not be allocated; main   *)
(* never joins a thread twice and never follows a freed node.              *)
(***************************************************************************)
ThreadsAccounted ==
    /\ IsInjective(list)
    /\ Started = ToSet(list) \cup freed \cup lost
    /\ ToSet(list) \cap freed = {}
    /\ lost \cap (ToSet(list) \cup freed) = {}
    /\ main \in {"scan", "reap"} => current \in ToSet(list) \cup {NULL}
    /\ main \in {"reap", "join"} => current \in ToSet(list)

(***************************************************************************)
(* A server that was killed leaves its file behind, and the next one       *)
(* deletes it ("bad exit could cause this", lines 479-480): unless         *)
(* remove() failed, the file only holds what threads of this process wrote.*)
(***************************************************************************)
FileIsOfThisRun ==
    Running /\ ~use_device /\ ~kept =>
        /\ ToSet(file) \cap Client \subseteq Started
        /\ Timestamp \in ToSet(file) => ts \notin {"unset", "failed"}

\* The mutex stays locked by a thread that is gone.
Orphaned ==
    \/ file_mut \in Finished
    \/ file_mut = Timestamp /\ ts = "finished"

(***************************************************************************)
(* The mutex is orphaned only by a cancellation, that is, only during the  *)
(* clean-up: as long as main accepts clients, a thread that ends has       *)
(* released it.                                                            *)
(***************************************************************************)
OrphanedOnlyInCleanup == Orphaned => ~InLoop

\* No client leaves a send() waiting for ever.
ClientsRead == \A c \in Client : []<>(pc[c] # "send")

(***************************************************************************)
(* A message that was received is dealt with and the thread waits for the  *)
(* next one, unless a failed seek has locked the device or the server is   *)
(* shutting down.  It takes clients that read what they are sent: one that *)
(* does not keeps its thread in send() with file_mut locked, and all the   *)
(* others wait (lines 218, 235 and 242).                                   *)
(***************************************************************************)
MessageHandled ==
    ClientsRead =>
        \A c \in Client :
            pc[c] = "lock" ~> pc[c] \in {"recv", "finished"} \/ jammed \/ ~InLoop

(***************************************************************************)
(* The scan always comes back to the accept loop: the join it waits for is *)
(* that of a thread that has announced its end.                            *)
(***************************************************************************)
ScanEnds == main \in {"scan", "reap"} ~> main \in {"check", "killed"}

(***************************************************************************)
(* The clean-up joins every thread and ends the process, unless the device *)
(* is locked by a failed seek, a thread was cancelled inside the mutex, or *)
(* there is no timestamp thread to join (line 580).  Again clients must    *)
(* read: main may join a thread that waits for file_mut before it gets to  *)
(* cancel the one that holds it in send().                                 *)
(***************************************************************************)
CleanupEnds ==
    ClientsRead =>
        (main = "cancel" ~>
            \/ ~Running
            \/ jammed
            \/ Orphaned
            \/ ~use_device /\ ts \in {"unset", "failed"})

-----------------------------------------------------------------------------
(* Claims of the repository's comments that the code does not meet *)

(***************************************************************************)
(* "shutdown_flag is raised when SIGINT or SIGTERM is raised, this way the *)
(* while loop has a way to exit" (lines 511-512): once the flag is up, the *)
(* accept loop is left.                                                    *)
(***************************************************************************)
ShutdownLeavesLoop == shutdown_flag ~> ~InLoop

(***************************************************************************)
(* "... causing the infinite while loops to exit and close the program"    *)
(* (lines 333-334): once the loop is left, the program is closed, at least *)
(* when no seek has failed and clients read what they are sent.            *)
(***************************************************************************)
CleanupCompletes == []~jammed /\ ClientsRead => (main = "cancel" ~> ~Running)
=============================================================================
