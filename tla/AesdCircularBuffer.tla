------------------------- MODULE AesdCircularBuffer -------------------------
(***************************************************************************)
(* struct aesd_circular_buffer and its three operations, as written in     *)
(* aesd-char-driver/aesd-circular-buffer.c.  The module is used twice: on  *)
(* its own, with add_entry as the only step, and as the "buffer" member of *)
(* the device in AesdDriver.  Locking is the caller's business.            *)
(***************************************************************************)
EXTENDS Integers, Sequences, FiniteSetsExt, SequencesExt

CONSTANTS
    Slots,     \* AESDCHAR_MAX_WRITE_OPERATIONS_SUPPORTED
    Entry,     \* the entries callers add, records [buffptr, size]
    NULL,      \* the null pointer
    SIZE_MAX   \* the largest size_t

\* in_offs and out_offs are uint8_t and are reduced modulo Slots.
ASSUME SlotsAssumption == Slots \in 1..255

\* Callers add entries that own memory; the driver adds none that is empty,
\* since an added command ends with its newline.
ASSUME EntryAssumption ==
    \A e \in Entry : /\ e.buffptr # NULL
                     /\ e.size \in Nat \ {0}

\* The entries are blocks of kernel memory, far from filling the address space.
ASSUME SizesAssumption ==
    /\ SIZE_MAX \in Nat
    /\ \A e \in Entry : Slots * e.size <= SIZE_MAX

VARIABLES entry, in_offs, out_offs, full

vars == <<entry, in_offs, out_offs, full>>

Free == [buffptr |-> NULL, size |-> 0]

TypeOK ==
    /\ entry \in [0..Slots-1 -> Entry \cup {Free}]
    /\ in_offs \in 0..Slots-1
    /\ out_offs \in 0..Slots-1
    /\ full \in BOOLEAN

-----------------------------------------------------------------------------
(* Reading *)

\* The slot of the i-th oldest entry, and arithmetic in size_t.
Slot(i) == (i + out_offs) % Slots

Wrap(n) == n % (SIZE_MAX + 1)

\* The sizes by age, and sum_offsets when the loop reaches index i.
SizesByAge == [i \in 0..Slots-1 |-> entry[Slot(i)].size]

SumBefore(i) == Wrap(SumFunctionOnSet(SizesByAge, 0..i-1))

IsEmpty == ~full /\ in_offs = out_offs

NotFound == [slot |-> NULL, offset |-> 0]

\* Mutant: the search without the "- 1".
HitsOffByOne(char_offset) ==
    {i \in 0..Slots-1 : SumBefore(i) + entry[Slot(i)].size >= char_offset}

\* aesd_circular_buffer_find_entry_offset_for_fpos.  The subtraction of 1 is
\* done in size_t, so it wraps when both terms are zero.
Hits(char_offset) ==
    {i \in 0..Slots-1 :
        Wrap(SumBefore(i) + entry[Slot(i)].size - 1) >= char_offset}

FindEntry(char_offset) ==
    IF IsEmpty \/ Hits(char_offset) = {}
    THEN NotFound
    ELSE LET i == Min(Hits(char_offset))
         IN  [slot |-> Slot(i), offset |-> Wrap(char_offset - SumBefore(i))]

\* The file size the driver computes from the buffer: a sum over every slot,
\* occupied or not, in slot order.
Sizes == [k \in 0..Slots-1 |-> entry[k].size]

SumOfSizes(slots) == SumFunctionOnSet(Sizes, slots)

TotalSize == SumOfSizes(0..Slots-1)

-----------------------------------------------------------------------------
(* Writing *)

\* aesd_circular_buffer_init
Init ==
    /\ entry = [i \in 0..Slots-1 |-> Free]
    /\ in_offs = 0
    /\ out_offs = 0
    /\ full = FALSE

\* Mutant: the newest entry is returned instead of the oldest.
ReplacedReadsNewest ==
    IF full THEN entry[(in_offs + Slots - 1) % Slots].buffptr ELSE NULL

\* The return value of add_entry: the memory of the entry that the call is
\* about to overwrite.
Replaced == IF full THEN entry[out_offs].buffptr ELSE NULL

\* Mutants of add_entry: the oldest entry stays the oldest after it has been
\* overwritten; the index runs off the array; "full" is never noticed.
AddEntryKeepsOutOffs(e) ==
    /\ out_offs' = out_offs
    /\ entry' = [entry EXCEPT ![in_offs] = e]
    /\ in_offs' = (in_offs + 1) % Slots
    /\ full' = (full \/ in_offs' = out_offs')

AddEntryRunsOff(e) ==
    /\ out_offs' = IF full THEN (out_offs + 1) % Slots ELSE out_offs
    /\ entry' = [entry EXCEPT ![in_offs] = e]
    /\ in_offs' = in_offs + 1
    /\ full' = (full \/ in_offs' = Slots)

AddEntryNeverFull(e) ==
    /\ out_offs' = IF full THEN (out_offs + 1) % Slots ELSE out_offs
    /\ entry' = [entry EXCEPT ![in_offs] = e]
    /\ in_offs' = (in_offs + 1) % Slots
    /\ full' = full

\* aesd_circular_buffer_add_entry
AddEntry(e) ==
    /\ out_offs' = IF full THEN (out_offs + 1) % Slots ELSE out_offs
    /\ entry' = [entry EXCEPT ![in_offs] = e]
    /\ in_offs' = (in_offs + 1) % Slots
    /\ full' = (full \/ in_offs' = out_offs')

Next == \E e \in Entry : AddEntry(e)

Spec == Init /\ [][Next]_vars

-----------------------------------------------------------------------------
(* The log the buffer stands for *)

Count == IF full THEN Slots ELSE in_offs - out_offs

Live == {Slot(i) : i \in 0..Count-1}

LogOf == [k \in 1..Count |-> entry[Slot(k-1)]]

Log == INSTANCE CommandLog WITH Capacity <- Slots, Command <- Entry, log <- LogOf

-----------------------------------------------------------------------------
(* Properties *)

(***************************************************************************)
(* The two offsets and the flag never disagree: a full buffer has both     *)
(* offsets on the oldest entry, a buffer that never filled still starts at *)
(* slot 0, and exactly the slots between the offsets hold memory.  Every   *)
(* loop of the driver over "all slots" relies on this.                     *)
(***************************************************************************)
OffsetsConsistent ==
    /\ full => in_offs = out_offs
    /\ ~full => out_offs = 0
    /\ \A k \in 0..Slots-1 : entry[k].buffptr # NULL <=> k \in Live

(***************************************************************************)
(* add_entry reads its return value through out_offs (line 109) and stores *)
(* through in_offs (line 114): the pointer the caller gets back to free is *)
(* the one in the slot that is overwritten, and NULL only when that slot   *)
(* holds nothing.  A difference would be a leak and a dangling entry.      *)
(***************************************************************************)
OverwrittenIsReturned == entry[in_offs].buffptr = Replaced

(***************************************************************************)
(* The offset search finds, for every character offset, the byte at that   *)
(* position of the live entries concatenated oldest first, wherever the    *)
(* oldest entry sits in the array, and nothing past the end (header of     *)
(* aesd_circular_buffer_find_entry_offset_for_fpos).                       *)
(***************************************************************************)
BytesOf(k) == [j \in 1..entry[k].size |-> [slot |-> k, offset |-> j - 1]]

LogBytes == FlattenSeq([i \in 1..Count |-> BytesOf(Slot(i - 1))])

FindMatchesLog ==
    \A off \in 0..TotalSize+1 :
        FindEntry(off) = IF off < Len(LogBytes) THEN LogBytes[off + 1] ELSE NotFound

\* The buffer is a bounded log: each add_entry pushes one command and drops
\* only the oldest, and only when the buffer was full.
ImplementsLog == Log!Spec
=============================================================================
