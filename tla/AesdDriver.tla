----------------------------- MODULE AesdDriver -----------------------------
(***************************************************************************)
(* The aesdchar kernel module, aesd-char-driver/main.c, with the threads   *)
(* that call it.                                                           *)
(*                                                                         *)
(* dev_mutex serialises the bodies of the calls, so that a body under the  *)
(* mutex is one step, taken while nobody holds it.  What the mutex does    *)
(* not protect keeps its own steps: the VFS hands a call a copy of the     *)
(* file position and stores it back after the call, and llseek stores its  *)
(* result after it has released the mutex.                                 *)
(***************************************************************************)
EXTENDS Integers, Sequences, FiniteSetsExt, SequencesExt

CONSTANTS
    Thread,      \* the threads that make system calls
    File,        \* the open file descriptions, struct file
    Block,       \* what the kernel allocator can hand out
    Slots,       \* AESDCHAR_MAX_WRITE_OPERATIONS_SUPPORTED
    Chunk,       \* what a program passes to one write
    ReadSize,    \* how much a program asks one read for
    Newline,
    NULL, Nobody, Closed, Unused,
    SIZE_MAX,
    MaxPos,      \* bound on file positions
    MaxCommand   \* bound on the length of a command

\* in_offs and out_offs are uint8_t and are reduced modulo Slots.
ASSUME SlotsAssumption == Slots \in 1..255

\* The bounds leave room for a full device, whose size no size_t overflows.
ASSUME BoundsAssumption ==
    /\ MaxPos \in Nat /\ MaxCommand \in Nat /\ SIZE_MAX \in Nat
    /\ Slots * MaxCommand <= MaxPos
    /\ Slots * MaxCommand <= SIZE_MAX

VARIABLES
    entry, in_offs, out_offs, full,  \* dev->buffer
    working_entry,                   \* dev->working_entry
    dev_mutex,                       \* who holds it between two steps
    heap,                            \* the bytes of each block, or Unused
    loaded,                          \* the module is in the kernel
    f_pos,                           \* filp->f_pos of each file, or Closed
    call                             \* what each thread is in the middle of

buffer == <<entry, in_offs, out_offs, full>>
dev == <<buffer, working_entry, dev_mutex>>
vars == <<dev, heap, loaded, f_pos, call>>

Command == [buffptr : Block, size : 1..MaxCommand]

Ring == INSTANCE AesdCircularBuffer WITH Entry <- Command

Byte == UNION {ToSet(c) : c \in Chunk}

\* What one system call passes or asks for.
ASSUME CallsAssumption ==
    /\ Chunk \subseteq Seq(Byte)
    /\ \A c \in Chunk : Len(c) <= MaxCommand
    /\ ReadSize \subseteq Nat \ {0}

\* The values that stand for "nothing" are nothing else.
ASSUME NamesAssumption ==
    /\ NULL \notin Block /\ NULL \notin Nat
    /\ Nobody \notin Thread
    /\ Closed \notin Nat
    /\ Unused \notin Seq(Byte)

Idle == [op |-> "idle"]

Calls ==
    {Idle}
    \cup [op : {"read"}, file : File, pos : 0..MaxPos, count : ReadSize]
    \cup [op : {"write"}, file : File, pos : 0..MaxPos, data : Chunk]
    \cup [op : {"return", "seek_cur", "seek_end"}, file : File, pos : 0..MaxPos]

TypeOK ==
    /\ loaded => Ring!TypeOK
    /\ working_entry \in [buffptr : Block \cup {NULL}, size : 0..MaxCommand]
    /\ dev_mutex \in Thread \cup {Nobody}
    /\ heap \in [Block -> BoundedSeq(Byte, MaxCommand) \cup {Unused}]
    /\ loaded \in BOOLEAN
    /\ f_pos \in [File -> 0..MaxPos \cup {Closed}]
    /\ call \in [Thread -> Calls]

Spare == {b \in Block : heap[b] = Unused}

IsOpen(f) == f_pos[f] # Closed

Begin(t, c) == call[t] = Idle /\ call' = [call EXCEPT ![t] = c]

Finish(t) == call' = [call EXCEPT ![t] = Idle]

\* The call returns a count that is not negative: the VFS will store pos.
ReturnAt(t, pos) ==
    call' = [call EXCEPT ![t] = [op |-> "return", file |-> @.file, pos |-> pos]]

-----------------------------------------------------------------------------
(* Loading, opening, closing *)

\* aesd_init_module, whose memset clears the whole device.
Load ==
    /\ ~loaded
    /\ loaded' = TRUE
    /\ entry' = [i \in 0..Slots-1 |-> Ring!Free]
    /\ in_offs' = 0 /\ out_offs' = 0 /\ full' = FALSE
    /\ working_entry' = Ring!Free
    /\ dev_mutex' = Nobody
    /\ UNCHANGED <<heap, f_pos, call>>

\* aesd_cleanup_module; the kernel refuses to unload a module with open
\* files.  The sizes of the entries are left as they are.
OwnedBuffers ==
    {entry[k].buffptr : k \in 0..Slots-1} \cup {working_entry.buffptr}

Unload ==
    /\ loaded
    /\ \A f \in File : ~IsOpen(f)
    /\ loaded' = FALSE
    /\ heap' = [b \in Block |-> IF b \in OwnedBuffers THEN Unused ELSE heap[b]]
    /\ entry' = [k \in 0..Slots-1 |-> [entry[k] EXCEPT !.buffptr = NULL]]
    /\ working_entry' = IF working_entry.buffptr # NULL
                        THEN Ring!Free ELSE working_entry
    /\ UNCHANGED <<in_offs, out_offs, full, dev_mutex, f_pos, call>>

\* aesd_open and aesd_release keep nothing; the position is the VFS's.
Open(f) ==
    /\ loaded
    /\ ~IsOpen(f)
    /\ f_pos' = [f_pos EXCEPT ![f] = 0]
    /\ UNCHANGED <<dev, heap, loaded, call>>

Release(f) ==
    /\ IsOpen(f)
    /\ \A t \in Thread : call[t] # Idle => call[t].file # f
    /\ f_pos' = [f_pos EXCEPT ![f] = Closed]
    /\ UNCHANGED <<dev, heap, loaded, call>>

-----------------------------------------------------------------------------
(* The VFS around a read or a write *)

BeginRead(t, f, count) ==
    /\ IsOpen(f)
    /\ Begin(t, [op |-> "read", file |-> f, pos |-> f_pos[f], count |-> count])
    /\ UNCHANGED <<dev, heap, loaded, f_pos>>

BeginWrite(t, f, data) ==
    /\ IsOpen(f)
    /\ f_pos[f] + Len(data) <= MaxPos
    /\ Begin(t, [op |-> "write", file |-> f, pos |-> f_pos[f], data |-> data])
    /\ UNCHANGED <<dev, heap, loaded, f_pos>>

\* The store of the position after the call, under no lock.
VfsReturn(t) ==
    /\ call[t].op = "return"
    /\ f_pos' = [f_pos EXCEPT ![call[t].file] = call[t].pos]
    /\ Finish(t)
    /\ UNCHANGED <<dev, heap, loaded>>

\* A signal while the call waits for the mutex.
Interrupted(t) ==
    /\ call[t].op \in {"read", "write"}
    /\ Finish(t)
    /\ UNCHANGED <<dev, heap, loaded, f_pos>>

-----------------------------------------------------------------------------
(* aesd_read *)

\* The commands in the buffer, oldest first, and all their bytes.
Commands == [k \in 1..Len(Ring!LogOf) |-> heap[Ring!LogOf[k].buffptr]]

LogBytes == FlattenSeq(Commands)

\* Mutant: a read goes on with the next command.
ReadBytesAcross(pos, count) ==
    SubSeq(LogBytes, pos + 1, Min({pos + count, Len(LogBytes)}))

\* The bytes one read returns: those of the command that pos falls into, from
\* pos to its end or up to count.
ReadBytes(pos, count) ==
    LET hit == Ring!FindEntry(pos)
    IN  IF hit = Ring!NotFound \/ pos > Ring!TotalSize THEN <<>>
        ELSE SubSeq(heap[entry[hit.slot].buffptr], hit.offset + 1,
                    Min({hit.offset + count, entry[hit.slot].size}))

Read(t) ==
    /\ call[t].op = "read"
    /\ dev_mutex = Nobody
    /\ ReturnAt(t, call[t].pos + Len(ReadBytes(call[t].pos, call[t].count)))
    /\ UNCHANGED <<dev, heap, loaded, f_pos>>

\* copy_to_user fails.
ReadFault(t) ==
    /\ call[t].op = "read"
    /\ dev_mutex = Nobody
    /\ Ring!FindEntry(call[t].pos) # Ring!NotFound
    /\ Finish(t)
    /\ UNCHANGED <<dev, heap, loaded, f_pos>>

-----------------------------------------------------------------------------
(* aesd_write *)

HasNewline(data) == Newline \in ToSet(data)

\* Mutant: what follows the newline is taken too.
TakenAll(data) == data

\* The bytes taken: up to and including the first newline.
Taken(data) ==
    IF HasNewline(data)
    THEN SubSeq(data, 1, SelectInSeq(data, LAMBDA b : b = Newline))
    ELSE data

\* What is in the working entry, and its size as krealloc is told it.
Collected == IF working_entry.buffptr = NULL THEN <<>>
                                             ELSE heap[working_entry.buffptr]

CollectedSize == IF working_entry.buffptr = NULL THEN 0 ELSE working_entry.size

\* Mutant: the copy goes to the start of the block.
GrowAtStart(b, data) ==
    [x \in Block |->
        IF x = b THEN data \o SubSeq(Collected, Len(data) + 1, Len(Collected))
        ELSE IF x = working_entry.buffptr THEN Unused ELSE heap[x]]

\* The heap once the working entry has moved to block b and holds data too.
Grow(b, data) ==
    [x \in Block |->
        IF x = b THEN Collected \o data
        ELSE IF x = working_entry.buffptr THEN Unused ELSE heap[x]]

\* Where kzalloc or krealloc may place the working entry while kbuff is in use.
Places(kbuff) == (Spare \ {kbuff}) \cup ({working_entry.buffptr} \ {NULL})

\* The data has no newline: the working entry keeps it.
KeepPartial(b, size, h) ==
    /\ working_entry' = [buffptr |-> b, size |-> size]
    /\ heap' = h
    /\ UNCHANGED buffer

\* Mutants: the working entry is not reset; what was replaced is not freed.
AddCommandKeepsWorking(b, size, h) ==
    /\ Ring!AddEntry([buffptr |-> b, size |-> size])
    /\ heap' = [x \in Block |-> IF x = Ring!Replaced THEN Unused ELSE h[x]]
    /\ working_entry' = [buffptr |-> b, size |-> size]

AddCommandForgetsReplaced(b, size, h) ==
    /\ Ring!AddEntry([buffptr |-> b, size |-> size])
    /\ heap' = h
    /\ working_entry' = Ring!Free

\* The data ends the command: it goes into the buffer, what it replaces is
\* freed, and the working entry starts afresh.
AddCommand(b, size, h) ==
    /\ Ring!AddEntry([buffptr |-> b, size |-> size])
    /\ heap' = [x \in Block |-> IF x = Ring!Replaced THEN Unused ELSE h[x]]
    /\ working_entry' = Ring!Free

Write(t) ==
    /\ call[t].op = "write"
    /\ dev_mutex = Nobody
    /\ \E kbuff \in Spare : \E b \in Places(kbuff) :
         LET data == call[t].data
             size == CollectedSize + Len(Taken(data))
         IN  /\ size <= MaxCommand
             /\ IF HasNewline(data) THEN AddCommand(b, size, Grow(b, Taken(data)))
                                    ELSE KeepPartial(b, size, Grow(b, Taken(data)))
    /\ ReturnAt(t, call[t].pos + Len(Taken(call[t].data)))
    /\ UNCHANGED <<dev_mutex, loaded, f_pos>>

\* The first kzalloc fails: nothing has happened yet.
WriteNoMemory(t) ==
    /\ call[t].op = "write"
    /\ dev_mutex = Nobody
    /\ Finish(t)
    /\ UNCHANGED <<dev, heap, loaded, f_pos>>

\* The other early returns leave kbuff allocated.  What it holds is never
\* read again.
LeakKbuff == \E kbuff \in Spare : heap' = [heap EXCEPT ![kbuff] = <<>>]

\* copy_from_user fails.
WriteFault(t) ==
    /\ call[t].op = "write"
    /\ dev_mutex = Nobody
    /\ LeakKbuff
    /\ Finish(t)
    /\ UNCHANGED <<dev, loaded, f_pos>>

\* krealloc fails: it has not freed the old block, and the only pointer to it
\* is overwritten.
WriteNoGrowth(t) ==
    /\ call[t].op = "write"
    /\ dev_mutex = Nobody
    /\ working_entry.buffptr # NULL
    /\ working_entry' = [working_entry EXCEPT !.buffptr = NULL]
    /\ LeakKbuff
    /\ Finish(t)
    /\ UNCHANGED <<buffer, dev_mutex, loaded, f_pos>>

\* The kzalloc of the working entry fails, after its size has been set.
WriteNoEntry(t) ==
    /\ call[t].op = "write"
    /\ dev_mutex = Nobody
    /\ working_entry.buffptr = NULL
    /\ working_entry' = [working_entry EXCEPT !.size = Len(Taken(call[t].data))]
    /\ LeakKbuff
    /\ Finish(t)
    /\ UNCHANGED <<buffer, dev_mutex, loaded, f_pos>>

-----------------------------------------------------------------------------
(* aesd_llseek *)

SeekSet(t, f, off) ==
    /\ IsOpen(f)
    /\ call[t] = Idle
    /\ f_pos' = [f_pos EXCEPT ![f] = off]
    /\ UNCHANGED <<dev, heap, loaded, call>>

\* Mutant: a negative position is not refused.
SeekUnchecked(t, op, f, newpos) ==
    /\ IsOpen(f)
    /\ dev_mutex = Nobody
    /\ newpos <= MaxPos
    /\ Begin(t, [op |-> op, file |-> f, pos |-> newpos])
    /\ UNCHANGED <<dev, heap, loaded, f_pos>>

\* The new position is computed under the mutex and checked after it; a
\* negative one is refused.
Seek(t, op, f, newpos) ==
    /\ IsOpen(f)
    /\ dev_mutex = Nobody
    /\ newpos \in 0..MaxPos
    /\ Begin(t, [op |-> op, file |-> f, pos |-> newpos])
    /\ UNCHANGED <<dev, heap, loaded, f_pos>>

SeekCur(t, f, off) == IsOpen(f) /\ Seek(t, "seek_cur", f, f_pos[f] + off)

SeekEnd(t, f, off) == Seek(t, "seek_end", f, Ring!TotalSize + off)

\* filp->f_pos = newpos, after the mutex is released.
SeekStore(t) ==
    /\ call[t].op \in {"seek_cur", "seek_end"}
    /\ f_pos' = [f_pos EXCEPT ![call[t].file] = call[t].pos]
    /\ Finish(t)
    /\ UNCHANGED <<dev, heap, loaded>>

-----------------------------------------------------------------------------
(* aesd_ioctl and aesd_adjust_file_offset *)

\* Any cmd up to and including Slots passes the range check.  entry[Slots] is
\* the memory behind the array: its buffptr is read from in_offs, out_offs
\* and full, its size from working_entry.buffptr (a 64-bit build).
SeekEntryExists(cmd) ==
    IF cmd < Slots THEN entry[cmd].buffptr # NULL
    ELSE in_offs # 0 \/ out_offs # 0 \/ full

SeekEntrySize(cmd) ==
    IF cmd < Slots THEN entry[cmd].size
    ELSE IF working_entry.buffptr = NULL THEN 0 ELSE SIZE_MAX

\* Mutant: the sum includes the command itself.
SeekTargetAfter(cmd, off) == Ring!SumOfSizes(0..cmd) + off

\* filp->f_pos after a seek that succeeds.
SeekTarget(cmd, off) == Ring!SumOfSizes(0..cmd-1) + off

SeekTo(t, f, cmd, off) ==
    /\ IsOpen(f)
    /\ call[t] = Idle
    /\ dev_mutex = Nobody
    /\ SeekEntryExists(cmd)
    /\ off <= SeekEntrySize(cmd)
    /\ SeekTarget(cmd, off) <= MaxPos
    /\ f_pos' = [f_pos EXCEPT ![f] = SeekTarget(cmd, off)]
    /\ UNCHANGED <<dev, heap, loaded, call>>

\* The two -EINVAL returns inside the critical section: the thread goes back
\* to its program and still holds the mutex.
SeekToFails(t, f, cmd, off) ==
    /\ IsOpen(f)
    /\ call[t] = Idle
    /\ dev_mutex = Nobody
    /\ ~SeekEntryExists(cmd) \/ off > SeekEntrySize(cmd)
    /\ dev_mutex' = t
    /\ UNCHANGED <<buffer, working_entry, heap, loaded, f_pos, call>>

-----------------------------------------------------------------------------

Init ==
    /\ Ring!Init
    /\ working_entry = Ring!Free
    /\ dev_mutex = Nobody
    /\ heap = [b \in Block |-> Unused]
    /\ loaded = FALSE
    /\ f_pos = [f \in File |-> Closed]
    /\ call = [t \in Thread |-> Idle]

Module == Load \/ Unload \/ \E f \in File : Open(f) \/ Release(f)

ReadCall(t) ==
    \/ \E f \in File, count \in ReadSize : BeginRead(t, f, count)
    \/ Read(t)
    \/ ReadFault(t)

WriteCall(t) ==
    \/ \E f \in File, data \in Chunk : BeginWrite(t, f, data)
    \/ Write(t)
    \/ WriteNoMemory(t)
    \/ WriteFault(t)
    \/ WriteNoGrowth(t)
    \/ WriteNoEntry(t)

SeekCall(t) ==
    \E f \in File :
        \/ \E off \in 0..MaxPos : SeekSet(t, f, off)
        \/ \E off \in -1..1 : SeekCur(t, f, off)
        \/ \E off \in -1..1 : SeekEnd(t, f, off)

IoctlCall(t) ==
    \E f \in File, cmd \in 0..Slots, off \in 0..MaxCommand :
        SeekTo(t, f, cmd, off) \/ SeekToFails(t, f, cmd, off)

Next ==
    \/ Module
    \/ \E t \in Thread :
         \/ ReadCall(t)
         \/ WriteCall(t)
         \/ SeekCall(t)
         \/ IoctlCall(t)
         \/ SeekStore(t)
         \/ VfsReturn(t)
         \/ Interrupted(t)

Spec == Init /\ [][Next]_vars

-----------------------------------------------------------------------------
(* What programs see of the device *)

OwnedBlocks == OwnedBuffers \ {NULL}

\* Blocks that nothing points to any more.
Leaked == {b \in Block : heap[b] # Unused} \ OwnedBlocks

Device ==
    INSTANCE AesdDevice WITH
        Capacity <- Slots,
        log <- IF loaded THEN Commands ELSE <<>>,
        partial <- IF loaded THEN Collected ELSE <<>>,
        jammed <- loaded /\ dev_mutex # Nobody

-----------------------------------------------------------------------------
(* Properties *)

(***************************************************************************)
(* Every pointer of the device is to memory that is allocated and as long  *)
(* as the size beside it says, and no two pointers are to the same block,  *)
(* so that no kfree of aesd_write or of the cleanup frees memory in use.   *)
(***************************************************************************)
NoDanglingPointer ==
    loaded =>
        /\ \A k \in 0..Slots-1 : entry[k].buffptr # NULL =>
             /\ heap[entry[k].buffptr] # Unused
             /\ Len(heap[entry[k].buffptr]) = entry[k].size
             /\ entry[k].buffptr # working_entry.buffptr
             /\ \A j \in 0..Slots-1 :
                  entry[j].buffptr = entry[k].buffptr => j = k
        /\ working_entry.buffptr # NULL =>
             /\ heap[working_entry.buffptr] # Unused
             /\ Len(heap[working_entry.buffptr]) = working_entry.size

(***************************************************************************)
(* A block is lost only by a write that fails after its first allocation   *)
(* (lines 171-176, 203-208 and 217-222 return without kfree(kbuff)).  No   *)
(* successful write, no overwritten command and no unloading of the module *)
(* loses memory.                                                           *)
(***************************************************************************)
LeakOnlyOnFailedWrite ==
    [][ \/ Leaked' \subseteq Leaked
        \/ \E t \in Thread : WriteFault(t) \/ WriteNoGrowth(t) \/ WriteNoEntry(t) ]_vars

(***************************************************************************)
(* A read returns the bytes at its position of the commands concatenated   *)
(* oldest first, at least one of them unless the position is at or past    *)
(* the end, and none from behind the end of a command: a newline is the    *)
(* last byte it returns.                                                   *)
(***************************************************************************)
ReadReturnsLogBytes ==
    loaded =>
        \A pos \in 0..MaxPos, count \in ReadSize :
            LET got == ReadBytes(pos, count)
            IN  /\ got = SubSeq(LogBytes, pos + 1, pos + Len(got))
                /\ Len(got) <= count
                /\ pos < Len(LogBytes) => got # <<>>
                /\ pos >= Len(LogBytes) => got = <<>>
                /\ \A i \in 1..Len(got)-1 : got[i] # Newline

(***************************************************************************)
(* "a new buffer entry shall not be placed in to the buffer until a        *)
(* newline character is found" (line 178): each command in the buffer has  *)
(* one newline, its last byte, and the working entry has none, however the *)
(* writes of several threads and failed writes are mixed.                  *)
(***************************************************************************)
CommandsEndWithNewline ==
    loaded =>
        /\ \A k \in DOMAIN Commands :
             {i \in DOMAIN Commands[k] : Commands[k][i] = Newline}
                = {Len(Commands[k])}
        /\ ~HasNewline(Collected)

\* A seek to a byte of the k-th oldest command is accepted, and the next read
\* returns the bytes of that command from there on.
SeekReaches(k) ==
    \A off \in 0..Len(Commands[k])-1 :
        /\ SeekEntryExists(k - 1)
        /\ off <= SeekEntrySize(k - 1)
        /\ ReadBytes(SeekTarget(k - 1, off), MaxCommand)
              = SubSeq(Commands[k], off + 1, Len(Commands[k]))

(***************************************************************************)
(* Until a first command is overwritten, AESDCHAR_IOCSEEKTO finds every    *)
(* byte of every command: the sum over the slots below write_cmd           *)
(* (lines 337-343) and the search from out_offs agree.                     *)
(***************************************************************************)
SeekBeforeWrap ==
    loaded /\ out_offs = 0 => \A k \in DOMAIN Commands : SeekReaches(k)

\* Every step of the driver is a step of the device that programs see, or
\* changes nothing that they see.
ImplementsDevice == Device!Spec

-----------------------------------------------------------------------------
(* Claims of the repository's comments that the code does not meet *)

(***************************************************************************)
(* A call that has returned holds no lock: aesdsocket logs a failed seek   *)
(* (aesdsocket.c line 229) and goes on to read from the same device, which *)
(* takes dev_mutex.                                                        *)
(***************************************************************************)
MutexFreeOnReturn == \A t \in Thread : call[t] = Idle => dev_mutex # t

(***************************************************************************)
(* write_cmd is "The zero referenced write command to seek into" and       *)
(* write_cmd_offset "The zero referenced offset within the write"          *)
(* (aesd_ioctl.h lines 27 and 31).  A reader sees the commands oldest      *)
(* first, so the first of them is command 0.                               *)
(***************************************************************************)
SeekLandsInCommand == loaded => \A k \in DOMAIN Commands : SeekReaches(k)

(***************************************************************************)
(* "lock the mutex here so that the file offset cannot be changed from the *)
(* read/write functions" (main.c lines 269-270): while a seek from the     *)
(* current offset is under way, the end of no read or write of another     *)
(* thread moves the offset it started from.                                *)
(***************************************************************************)
SeekCurHoldsOffset ==
    [][ \A t, u \in Thread :
            call[t].op = "seek_cur" /\ VfsReturn(u) =>
                f_pos'[call[t].file] = f_pos[call[t].file] ]_vars
=============================================================================
