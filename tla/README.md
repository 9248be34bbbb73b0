# Verification of the aesd character device and socket server

This directory holds TLA+ models of the code in this repository, the TLC
configurations that check them and the proofs that TLAPS checks. The two main
parts are the kernel module `aesdchar`
(`aesd-char-driver/`), with the circular buffer it keeps its data in, and the
server `aesdsocket` (`server/aesdsocket.c`), which stores what its clients send
in that device, or in a file, and answers with what is stored. Two smaller programs
run commands (`examples/systemcalls`) and share a mutex (`examples/threading`).

To run a check: `tlc -config MCAesdDriver.cfg MCAesdDriver.tla`. To check the
proofs: `tlapm X.tla` for each of `SequenceLemmas`, `SumLemmas`,
`AesdCircularBufferProofs`, `AesdDriverProofs`, `AesdDeviceProofs`,
`AesdSocketProofs`, `SystemCallsProofs` and `ThreadingProofs`.

## Inventory

| component | state | operations | what makes it correct |
|---|---|---|---|
| circular buffer, `aesd-circular-buffer.c` | ten entries (pointer and size), `in_offs`, `out_offs`, `full` | `init`, `add_entry`, `find_entry_offset_for_fpos` | a bounded log of the last ten commands; the pointer returned is the one overwritten; the offset search agrees with the concatenation of the commands |
| driver, `main.c` | the buffer, `working_entry`, `dev_mutex`; the kernel heap; `filp->f_pos` | load, unload, open, release, read, write, llseek, ioctl | memory is freed once and not used after; reads return the bytes of the log; commands end with a newline; a seek reaches the command it names; a call gives the mutex back |
| server, device build, `aesdsocket.c` | `shutdown_flag`, the thread list, the nodes' `operation_complete`, `file_mut` | accept, one thread per connection, scan and join, cancel and join, signal handler | an answer is a snapshot; a node is freed after its thread has ended; every thread is joined once; messages are dealt with; shutting down ends |
| server, file build (`USE_AESD_CHAR_DEVICE=0`) | the same, a `FILE *` and a timestamp thread | the same, and a line every ten seconds | the same; timestamps stay out of answers; the file is closed after the threads have ended; a restart begins with an empty file |
| threading example | a mutex and one record per thread | start, wait, lock, wait, unlock | a reported success is true; the record reaches the joiner; the thread returns |
| systemcalls example | processes, their descriptors of output files | `do_system`, `do_exec`, `do_exec_redirect` | true exactly when the command succeeded; one process returns to the caller; children are awaited and files closed |
| finder-app, start scripts, tests, build files | none | | not modelled |

How they interact. A client talks to its connection thread over TCP. The thread
takes `file_mut`, opens `/dev/aesdchar`, writes or seeks, reads to the end, closes
and releases `file_mut`. The kernel calls the driver's functions with a copy of
the file position and stores the copy back when they return. The driver takes
`dev_mutex` and calls the buffer's functions. `main` accepts clients and, after
each, scans the list for threads that have announced their end and joins them. A
signal sets a flag that ends the loop; `main` then cancels and joins what is left.
In the file build the first client starts the timestamp thread, which appends to
the same file under `file_mut`. A server that is killed leaves its file, or what it
wrote to the device, for the next one.

What is hard here: two levels of mutexes with early returns between lock and
unlock; a partial command shared by all writers across calls; allocation failures
half way through a write; a file position that is read and written on both sides
of the lock; cancellation of threads that hold a mutex; a signal that races the
call it should interrupt; a `send` that waits for its client with the mutex locked; a
node freed by one thread while another still reads it; a child that returns from the function that forked it.
The `hazards` of `PROJECT.json` list these with their lines.

## Modules

    CommandLog            abstract: a bounded log
      ^ implemented by
    AesdCircularBuffer    struct aesd_circular_buffer        (proofs: AesdCircularBufferProofs)
      ^ instantiated by
    AesdDriver            main.c, the VFS around it, the kernel heap
      | implements                                           (proofs: AesdDriverProofs,
      |                                                       AesdDeviceProofs)
      v
    AesdDevice            abstract: /dev/aesdchar as a program sees it
      ^ instantiated by
    AesdSocket            aesdsocket.c, both builds          (proofs: AesdSocketProofs)

    SystemCalls           systemcalls.c, its processes       (proofs: SystemCallsProofs)
    Threading             threading.c, and its caller        (proofs: ThreadingProofs)

    SequenceLemmas        facts about the sequence operators of the community modules
    SumLemmas             facts about their sums and about concatenations

### CommandLog and AesdCircularBuffer

`AesdCircularBuffer` has the four variables of the C structure. `AddEntry` is
`aesd_circular_buffer_add_entry`, `Replaced` its return value, `FindEntry` the
offset search. `Wrap` is the arithmetic of `size_t`: `sum + size - 1` is computed
unsigned. `LogOf` is the refinement mapping to `CommandLog`: the live entries,
oldest first.

### AesdDriver and AesdDevice

The body of a call under `dev_mutex` is one step, enabled while nobody holds the
mutex. This is sound because everything such a body reads and writes is protected
by the mutex or belongs to the thread alone. What the mutex does not protect has
steps of its own:

* The kernel's `read` and `write` copy `filp->f_pos` before they call the driver
  (`BeginRead`, `BeginWrite`) and store it after (`VfsReturn`). Character devices
  do not take `f_pos_lock`, so threads that share a file may overlap.
* `aesd_llseek` computes under the mutex (`SeekCur`, `SeekEnd`) and stores after it
  (`SeekStore`).
* `SeekToFails` returns to the program and leaves `dev_mutex` with the thread, as
  lines 323-332 do.

`heap` maps each block of kernel memory to its bytes, or to `Unused`. Each failure
of `aesd_write` is an action: the first `kzalloc` (`WriteNoMemory`),
`copy_from_user` (`WriteFault`), `krealloc` (`WriteNoGrowth`) and the second
`kzalloc` (`WriteNoEntry`); the last three leave `kbuff` behind. A call that is
interrupted while it waits for the mutex returns without a change of state.

The range check of `aesd_adjust_file_offset` lets `cmd = 10` pass. `entry[10]` is
the memory behind the array; `SeekEntryExists` and `SeekEntrySize` say what is
there in the layout of a 64-bit build: `in_offs`, `out_offs` and `full`, then the
pointer of `working_entry`.

`AesdDevice` is what a program sees: the log, the partial command, and `jammed`,
true once a failed seek has kept the mutex. `AesdDriver!ImplementsDevice` is the
refinement.

### AesdSocket

One variable per shared datum of the server (`shutdown_flag`, `list`, `file_mut`,
`operation_complete`) and a program counter for `main`, for the timestamp thread and
for each connection. `use_device` is `USE_AESD_CHAR_DEVICE`: a value that never
changes and chooses between `device` and `file` where the code has an `#if`. A
client stands for its connection, its thread and its nodes. The server is the only
user of the device, so the device is `AesdDevice` itself. `file` is the bytes of
the file, `NULL` when there is none; a timestamp ends with the zeros of its 4096-byte
buffer (line 322). A thread's program counter is

| value | the thread is about to |
|---|---|
| `recv` | receive (lines 192-199) |
| `lock` | take `file_mut` (200, 250) |
| `write` | open the device, write or seek (207-213, 221-232, 238, 252-256) |
| `unopened` | unlock: the device could not be opened (221, 255) |
| `read` | read the next piece of what is stored, or its end (216, 233, 240) |
| `send` | get back from `send`, when the client has read enough (218, 235, 242) |
| `close` | close and unlock (245-259) |
| `done` | look at its node for the last time, after announcing its end (263-272) |
| `finished` | nothing: it can be joined |

Each piece of an answer is read (`Read`) and sent in steps of its own. A `send` has no
timeout: it returns when the client reads (`SendReturns`), and until then the thread
waits with `file_mut` locked. An `open` that fails, a write that fails, in the file build
after some of its bytes, and a seek that fails are actions, since the code goes on after
each. A client that is gone
when `send` is called raises SIGPIPE, which nobody handles, and ends the process
(`BrokenPipe`). A pending `pthread_cancel` takes effect in the calls that POSIX
names as cancellation points and not in `pthread_mutex_lock`; there are no cleanup
handlers (`Cancelled`). Signals are handled on the main thread.

The timestamp thread (`Ts...`) tests the flag, sleeps, takes `file_mut`, and writes and
unlocks; `clock_nanosleep` and the write are its cancellation points. When no client
ever came, or its `pthread_create` failed, `ts_thread` is uninitialised and the
clean-up cancels and joins whatever the stack holds (`CancelUnset`: an ignored error, a
crash, or a join for ever).

`Start` is a new process on what the last one left: fresh memory (`Boot`), the device
unchanged, the file removed and created again, or, where `remove` failed, opened with
what is in it (`kept`). `StartFails` are the error returns of the set-up.
`ReloadModule` stands for the unload and load scripts, which work only while nobody has
the device open: between two runs of the server, and between two messages of one.

### SystemCalls

One program counter per process, since a child may become a second copy of the
program and call the same functions again. `frame` is the call a process is in,
`last` what its last call returned, `fds` the descriptors `redir_fd` it has open and
`out` the output file that `dup2` has made its standard output; forked processes and
commands inherit both. `Call` opens the output file (or fails to, and goes
on), `Fork` and `ForkFails` are the outcomes of `fork`, `Exec`, `ExecFails` (the child of
`do_exec` and of `system` exits) and `ExecFailsAndReturns` (that of `do_exec_redirect`
returns false to the caller) those of `execv`, `Redirect` what the child does to its
descriptors before, `Wait` and `WaitFails` those of
`waitpid`. `Succeeds` is what becomes of the status. `system()` is external and is
modelled as fork, exec and wait whose child never returns. Commands, copies and
children may be killed at any time, the first process is not.

### Threading

`Start`, `CreateFails` and `NoMemory` are `start_thread_obtaining_mutex`; the other
actions are `threadfunc`, with a lock or unlock that fails; `Join` is the caller, who
frees what it joins, as `threading.h` asks.

## What the runs check

| run | expected | what it shows |
|---|---|---|
| `ring` | pass | the buffer at its real size is a bounded log, returns what it overwrites, finds every byte |
| `driver` | pass | two threads on one open file, all failures, loading and unloading: no dangling pointer, reads return log bytes of one command, commands end with their newline, seeks work until the first overwrite, memory is lost only by the late errors of a write, the device is implemented |
| `failed_seek_lock` | violation | a refused seek returns with `dev_mutex` held |
| `seek_after_wrap` | violation | once a command is overwritten a seek goes to another command than the one named |
| `seek_cur_race` | violation | the end of a write of another thread moves the offset under a `SEEK_CUR` |
| `socket_safety` | pass | three connections in both builds, with timestamps, slow clients, crashes and restarts: answers are snapshots, a node is freed after its thread has ended and `fwl` after all have but one without a list node, each thread is accounted for, nothing of a killed server is left in the file unless `remove` failed, `file_mut` is orphaned only by a cancellation |
| `socket_live` | pass | two connections in both builds: the scan ends; if clients read their answers, each message is dealt with and the clean-up ends, with the exceptions stated below |
| `shutdown_lost` | violation | a signal between line 513 and line 516 is not noticed until the next client |
| `cleanup_hang` | violation | cancelling the holder of `file_mut` makes the next join wait for ever, although clients read |
| `system_calls` | pass | three calls, nested in copies of the program: what true can mean, copies of the program run one at a time while their parents wait, an output file stays open only after a failed fork and, as standard output of the copy, after a failed exec |
| `true_means_success` | violation | `do_exec` returns true for a command that a signal has killed |
| `threading` | pass | three threads: a reported success is true, the data reaches the joiner, every thread returns unless an unlock failed |

The six violations are the `findings` of `PROJECT.json`, each with the comment or
the code it contradicts. The passing properties are stated around them:
`MessageHandled` and `CleanupEnds` hold unless the device is jammed by a failed
seek or, for the second, `file_mut` has been orphaned or there is no timestamp thread
to join; both need clients that read (see Fairness). `FreedAfterJoin` and
`ThreadsAccounted` make an exception of the thread whose list node could not be allocated
(line 540): it is not joined and may use `fwl` when `main` has freed it. They say that
there is one such thread at most, and only once the accept loop has been left.
`TrueMeansRan` names every way in which a call can return true; that a failed `waitpid`
is one of them is against lines 46-52 as well, which the finding says.
`OnlyFailuresKeepFiles` names the two ways in which line 112, "This file will be closed
at completion of the function call", is not met.

The socket runs set `CHECK_DEADLOCK FALSE`: the server may wait for clients that never
come, or hang as the findings describe. So do `system_calls` and `threading`, whose
callers make a bounded number of calls and stop.

## Bounds

* `ring`: ten slots as in the code, `SIZE_MAX` 255 (any value above the sum of the
  sizes makes the same difference), entries of one and two bytes: two sizes are
  needed to tell a sum from a count. Every content of a full buffer at every
  rotation is reached. Entries of size 0 are left out: the driver never adds one.
* `driver`: two slots, so that a third command overwrites. Chunks without a
  newline, with one at the end, and with bytes after it; `MaxCommand` 2 lets a command be
  collected from two writes. Four blocks: a full device, a working entry and `kbuff`,
  so a single leak already makes allocations fail. `MaxPos` 4 is the length of a
  full device, and positions past the end occur when it is shorter. Reads of one
  byte and of more than a command. One open file shared by two threads, where all
  races on the position are. A `write` of zero bytes is not enumerated.
* `socket_safety`: three connections, so that a node is removed from the middle of the
  list; two messages or timestamps between them (`MaxSent` counts both), which is what a race
  on `file_mut` or on an answer needs. The bound is over all runs of the server together, so a
  restart can follow a crash that left a message in the file. Connections are
  interchangeable and symmetry is used. Messages are answered in as many pieces as
  there are lines, or more.
* `socket_live`: two connections, the same bound, no symmetry. `remove` succeeds
  (`RemoveMayFail`): how the file begins makes no difference to who waits.
* `system_calls`: four processes and three calls, so that a copy of the program can
  make a call whose child becomes a copy again. Process ids are interchangeable.
* `threading`: three threads, so that two can wait while one holds the mutex.

## Fairness

`FairSpec` of `AesdSocket` assumes weak fairness of `MainStep`, of `TimestampStep` and of
each `ThreadStep`: the kernel's scheduler runs a thread that can run, and an uncontended
`pthread_mutex_lock` succeeds. There is no fairness for clients (they need not connect,
send, read or hang up: `ClientStep`), signals, whoever starts the server, or a failing
`accept`, `malloc` or `strftime`.

A client that never reads its answer keeps its thread in `send` with `file_mut` locked.
Then no other message is dealt with, and the clean-up hangs when `main` joins a thread that
waits for the mutex before it has cancelled the one in `send`. So `MessageHandled`,
`CleanupEnds` and `CleanupCompletes` have the premise `ClientsRead`: no client leaves a
`send` waiting for ever (a client that takes its time, or that hangs up, is within it).
`ScanEnds` needs no such premise, since a thread that has announced its end sends nothing.

`MaxSent` bounds the messages and timestamps of all threads, so no thread that waits for
`file_mut` is overtaken for ever and weak fairness of `Lock` is enough. With clients that
never stop sending, a mutex that is not fair could starve a thread, which POSIX allows and
the model does not show.

`FairSpec` of `Threading` is the
same for its threads, each of which locks once; the caller need not start or join any,
and no call has to fail.

## What is proved

Every invariant and action property that the passing runs check, and both
refinements, is also a theorem `Spec => ...`, for every value of the constants that
the named assumptions allow. The theorems are at the end of the proof modules, each
after its inductive invariant; `PROJECT.json` lists them with the property each one
states.

| module | theorems | inductive invariant |
|---|---|---|
| `AesdCircularBufferProofs` | `TypeCorrect`, `OffsetsAgree`, `NothingLost`, `BufferIsLog`, `SearchIsExact` | `TypeOK /\ OffsetsConsistent` |
| `AesdDriverProofs` | `TypeCorrect`, `PointersAreGood`, `CommandsAreLines`, `LeaksAreFailedWrites` | `Inv == DeviceInv /\ CallInv` |
| `AesdDeviceProofs` | `ReadsAreRight`, `SeeksAreRight`, `DriverIsDevice` | the same |
| `AesdSocketProofs` | `TypeCorrect`, `AnswersAreSnapshots`, `NodesOutliveThreads`, `EveryThreadIsJoinedOnce`, `OldFilesAreDeleted`, `LoopNeverOrphans` | `Inv == Types /\ Locking /\ Threads /\ Storage` |
| `SystemCallsProofs` | `TypeCorrect`, `TrueIsWhatItMeans`, `ProgramsTakeTurns`, `FilesAreClosed` | `Inv == Shape /\ Files /\ Results /\ ParentWaits` |
| `ThreadingProofs` | `TypeCorrect`, `SuccessCanBeTrusted`, `DataIsNeverFreedEarly` | the conjunction of its properties |

### The buffer

Assumed: between 1 and 255 slots, since the offsets are `uint8_t`
(`SlotsAssumption`); entries own memory and are not empty (`EntryAssumption`); as
many entries as there are slots do not overflow a `size_t` (`SizesAssumption`).

`OverwrittenIsReturned` is not inductive by itself: it needs that the slot under
`in_offs` is empty as long as the buffer is not full, which is what the last conjunct
of `OffsetsConsistent` says. `BufferIsLog` splits on `full`: before, a call appends at
`in_offs` and the log starts at slot 0; after, the log is a rotation of the array by
`out_offs` and a call moves the rotation by one. `AddEntryEffect` states the call
without the modulus, `LogOfValue` the log without it, and the rest is a comparison
index by index.

`SearchIsExact` needs what sums and concatenations are. `SumLemmas` shows that
`SumFunctionOnSet`, a fold in an order that nobody knows, adds up the terms of any set
of indices, step by step, and `FlattenPlaces` that the i-th of a sequence of
sequences lies in their concatenation behind the lengths of those before it. Then
`SumsFit` says that no sum wraps, `BeforeStep` that the sums ascend, strictly over the
live entries, and the least hit is the entry that the offset falls into. The
subtraction of 1 that does wrap, for an empty slot at the start, needs an empty
buffer, which the code has returned from before.

These are inductions over numbers. The induction rule of the library takes an
operator, which the provers cannot instantiate; `SetInduction` states it for a set
(which contains 0 and the successor of each of its members) and is used with the set
of the numbers for which the claim holds.

### The driver

Assumed: the buffer's assumption on `Slots`; data are sequences of bytes that fit a
command, and reads ask for something (`CallsAssumption`); the names of "nothing"
are nothing else (`NamesAssumption`); a full device stays within the bound on
positions and within a `size_t` (`BoundsAssumption`). From the last follows
`CommandsFit`, that commands are entries as `AesdCircularBufferProofs` assumes them, and
with it the results about the buffer hold of the member of the device:
`AesdDriverProofs` instantiates that module, and `SameBuffer`, `SameSearch` say that the
two instances are one buffer.

`DeviceInv` is about what `dev_mutex` protects. Ownership (`NoDanglingPointer`) is
not inductive alone: that the pointer `add_entry` returns can be freed needs that
it is the overwritten one and that no other slot has it; that an unloaded module
leaks nothing when it is loaded again needs `Emptied`. That a command has one
newline needs that the collected part has none (`LinesEnd`). `CallInv` is about the
calls under way: a call is to an open file and a file is open only while the module is
loaded, so no call runs in an unloaded module, and a write that has begun can
move the position by all of its data. There is one lemma per kind of write, with the
pieces of the heap it changes; the steps that leave the device alone share
`KeptDevice`. `LeaksAreFailedWrites` comes out of the same lemmas, as an action.

`ReadsAreRight` joins `RingSearch` (where the search ends), `LogSlots` (the sizes are
the lengths of the blocks) and `LogLayout` (where the blocks lie in the
concatenation). `SeeksAreRight` adds that while `out_offs` is 0 slots are in order of
age, so that the sum over the slots below a command is where it starts
(`SlotsInOrder`), and that a position falls into one command only (`OneCommand`). That a
read stops at the end of its command comes from the commands' only newline being last.

`DriverIsDevice` maps each step: a write with a newline to `WriteLine`
(`AddCommandPushes`: of the blocks of the log the write frees that of the oldest
command only), one without to `WritePart`, a `krealloc` that fails to
`LosePartial`, a refused seek to `FailSeek`, loading and unloading to `Reset`, and
everything else to no change of what is seen.

### The server

Assumed: at least one command in the device, a natural bound on messages, and that the
values the code tells apart differ. `Locking` says that
whoever is between lock and unlock owns `file_mut`, and, as long as `main` is in
its loop, only they do; what a thread's message can be at each point;
`OrphanedOnlyInCleanup`. `Threads` is `FreedAfterJoin` and
`ThreadsAccounted` with what the clean-up knows of the head of the list; its steps use
the lemmas about lists without duplicates in `SequenceLemmas`. `Storage` is
`FileIsOfThisRun` and `AnswerSoFar`: while an answer is read, what has been read of it
is what is stored up to `pos`. It needs the ownership of `Locking`, by which nobody else
writes or moves `pos`, and `ReplyIsSnapshot` is its last case.

### The processes and the threads

`SystemCalls` assumes that there is a first process and a natural bound on the calls. Its
properties need that the
child of a fork is in the function that forked it and that a caller waits for a child of
the function it is in (`FramesMatch`), what a process may hold open inside a call and
what its standard output is before it is redirected (`FileInUse`), that only
`do_exec_redirect` lets a child return (`OnlyRedirectCopies`), that only commands and copies of the program can end with 0
(`ZeroIsEarned`), and that the end of a child which was waited for is final
(`ToldOfTheEnd`).

`Threading` assumes that `Nobody` is not a thread and that memory that was never set is
not a Boolean. That the mutex has one owner needs the type of `mutex`, and the
properties about `success` that it was set.

### Only model-checked

* Liveness: `MessageHandled`, `ScanEnds`, `CleanupEnds`, `StartedThreadReturns`. The
  prover has no rules for `ENABLED` and fairness.
* The violations: that something can happen is shown by a run, not by a proof.
* That `AesdSocket` uses its device only as `AesdDevice` allows holds by construction:
  its steps on the device are those of the instance.

## Not modelled

* A failing `pthread_create` of a connection: `tid` then holds what the stack held, in
  practice the id of the thread before, and two nodes with one id confuse
  `list_remove_using_client_file_node`. The outcome is up to the compiler, and every
  property of the list would have to except it.
* The number of descriptors (`clientfd` is never closed): `AcceptFails` has the effect.
* What commands and the program write to standard output, and its buffers: of standard
  output only which output file it is, if any.
* SIGKILL at an arbitrary moment: a killed server is reached through SIGPIPE
  (`BrokenPipe`) and the join of a thread id that was never set (`CancelUnset`).
* Setting up the socket and the daemon: straight-line code whose every error ends
  the process.
* Registration of the device number: it has no effect on the state modelled.
* A line that arrives together with bytes behind its newline: the server
  drops them. The driver's model takes such chunks, the server's clients do not send them.
* finder-app, the tests and the build files keep no state; of the scripts only their
  effect is modelled (`Start`, `Signal`, `ReloadModule`).

## Plan

1. Done: `CommandLog`, `AesdCircularBuffer`, `AesdDevice`, `AesdDriver`,
   `AesdSocket` in both builds with crash and restart, `SystemCalls`, `Threading`.
2. Done: proofs of every safety property that the runs check and of both refinements.
3. Next: action properties of the server worth a theorem (what a step of one
   connection may never do to another's node or answer), and mutual
   exclusion under `file_mut` during the clean-up, with the exception the findings name.
4. The driver's side of the findings as theorems: which states jam the device, and that
   nothing else does.
