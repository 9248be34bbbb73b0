-------------------------- MODULE AesdDriverProofs --------------------------
(***************************************************************************)
(* The safety of the driver, for every number of threads, files, slots and *)
(* blocks and whatever the programs write: its types, its memory and its   *)
(* commands.  AesdDeviceProofs goes on to what programs see.               *)
(*                                                                         *)
(* The inductive invariant Inv is about the device (DeviceInv: the buffer, *)
(* the working entry, the heap) and about the calls under way (CallInv).   *)
(* What AesdCircularBufferProofs shows of the buffer on its own is taken   *)
(* over by instantiating it with the commands for its entries.             *)
(***************************************************************************)
EXTENDS AesdDriver, SumLemmas

\* The results about the buffer, with the entries the driver makes.
Buffer == INSTANCE AesdCircularBufferProofs WITH Entry <- Command

-----------------------------------------------------------------------------
(* What the results about the buffer say of dev->buffer *)

\* What the results assume of the entries is true of the commands.
CommandsAreEntries ==
    /\ Slots \in 1..255
    /\ \A e \in Command : /\ e.buffptr # NULL
                          /\ e.size \in Nat \ {0}
    /\ SIZE_MAX \in Nat /\ \A e \in Command : Slots * e.size <= SIZE_MAX

\* They are: a full device of the longest commands fits.
LEMMA CommandsFit == CommandsAreEntries
<1>1. ASSUME NEW e \in Command
      PROVE  /\ e.buffptr # NULL /\ e.size \in Nat \ {0}
             /\ Slots * e.size <= SIZE_MAX
  <2>1. e.buffptr \in Block /\ e.size \in 1..MaxCommand
    BY DEF Command
  <2>2. e.size \in Nat \ {0} /\ e.size <= MaxCommand
    BY <2>1, BoundsAssumption
  <2>3. Slots * e.size <= Slots * MaxCommand
    <3>1. PICK d \in Nat : MaxCommand = e.size + d
      <4>1. MaxCommand - e.size \in Nat /\ MaxCommand = e.size + (MaxCommand - e.size)
        BY <2>2, BoundsAssumption
      <4> QED BY <4>1
    <3>2. Slots * MaxCommand = Slots * e.size + Slots * d /\ Slots * d \in Nat
          /\ Slots * e.size \in Nat
      BY <2>2, <3>1, SlotsAssumption
    <3> QED BY <3>2
  <2>4. Slots * e.size \in Nat /\ Slots * MaxCommand \in Nat
    BY <2>2, SlotsAssumption, BoundsAssumption
  <2> QED BY <2>1, <2>2, <2>3, <2>4, BoundsAssumption, NamesAssumption
<1> QED BY <1>1, SlotsAssumption, BoundsAssumption DEF CommandsAreEntries

\* The buffer is in order.
RingFits == Ring!TypeOK /\ Ring!OffsetsConsistent

\* The two instances of the buffer say the same.
BuffersAgree ==
    /\ Buffer!IndInv <=> RingFits
    /\ Buffer!Free = Ring!Free
    /\ Buffer!Live = Ring!Live
    /\ Buffer!LogOf = Ring!LogOf
    /\ Buffer!Count = Ring!Count
    /\ \A i : Buffer!Slot(i) = Ring!Slot(i)
    /\ Buffer!Replaced = Ring!Replaced
    /\ Buffer!OverwrittenIsReturned <=> Ring!OverwrittenIsReturned

\* They have the same definitions.
LEMMA SameBuffer == BuffersAgree
<1>1. Buffer!Free = Ring!Free
  BY DEF Buffer!Free, Ring!Free
<1>2. /\ \A i : Buffer!Slot(i) = Ring!Slot(i)
      /\ Buffer!Count = Ring!Count
  BY DEF Buffer!Slot, Ring!Slot, Buffer!Count, Ring!Count
<1>3. Buffer!Live = Ring!Live /\ Buffer!LogOf = Ring!LogOf
  BY <1>2 DEF Buffer!Live, Ring!Live, Buffer!LogOf, Ring!LogOf
<1>4. Buffer!TypeOK <=> Ring!TypeOK
  BY <1>1 DEF Buffer!TypeOK, Ring!TypeOK
<1>5. Buffer!OffsetsConsistent <=> Ring!OffsetsConsistent
  BY <1>3 DEF Buffer!OffsetsConsistent, Ring!OffsetsConsistent
<1>6. Buffer!Replaced = Ring!Replaced
  BY DEF Buffer!Replaced, Ring!Replaced
<1>7. Buffer!OverwrittenIsReturned <=> Ring!OverwrittenIsReturned
  BY <1>6 DEF Buffer!OverwrittenIsReturned, Ring!OverwrittenIsReturned
<1> QED BY <1>1, <1>2, <1>3, <1>4, <1>5, <1>6, <1>7 
     DEF Buffer!IndInv, RingFits, BuffersAgree

\* So do their steps.
LEMMA SameAddEntry == \A e : Buffer!AddEntry(e) <=> Ring!AddEntry(e)
  BY DEF Buffer!AddEntry, Ring!AddEntry

\* add_entry keeps the buffer in order, writes one slot, and returns what was
\* in it; the slot is the newest afterwards.
LEMMA AddEntryOnRing ==
    ASSUME RingFits, NEW e \in Command, Ring!AddEntry(e)
    PROVE  /\ RingFits'
           /\ entry' = [entry EXCEPT ![in_offs] = e]
           /\ Ring!Replaced = entry[in_offs].buffptr
           /\ Ring!LogOf' = IF Len(Ring!LogOf) < Slots
                            THEN Append(Ring!LogOf, e)
                            ELSE Append(Tail(Ring!LogOf), e)
<1>1. Buffer!IndInv /\ Buffer!AddEntry(e)
  BY SameBuffer, SameAddEntry DEF BuffersAgree
<1>2. Buffer!IndInv'
  <2>1. Buffer!TypeOK'
    BY <1>1, CommandsFit, Buffer!AddEntryType DEF CommandsAreEntries
  <2>2. Buffer!OffsetsConsistent'
    BY <1>1, CommandsFit, Buffer!AddEntryOffsets DEF CommandsAreEntries
  <2> QED BY <2>1, <2>2 DEF Buffer!IndInv
<1>0. BuffersAgree'
  BY SameBuffer, PTL
<1>3. RingFits'
  BY <1>0, <1>2 DEF BuffersAgree
<1>4. entry' = [entry EXCEPT ![in_offs] = e]
  BY DEF Ring!AddEntry
<1>5. Buffer!OverwrittenIsReturned
  BY <1>1, CommandsFit, Buffer!ReturnsOverwritten DEF CommandsAreEntries
<1>6. Ring!Replaced = entry[in_offs].buffptr
  BY <1>5, SameBuffer DEF BuffersAgree, Ring!OverwrittenIsReturned
<1>7. Buffer!Log!Push(e)
  BY <1>1, <1>2, CommandsFit, Buffer!AddEntryPushes DEF CommandsAreEntries
<1> QED BY <1>3, <1>4, <1>6, <1>7, <1>0, SameBuffer DEF BuffersAgree, Buffer!Log!Push

-----------------------------------------------------------------------------
(* Bytes and lines *)

\* What can be in a block.
LEMMA BoundedSeqs ==
    ASSUME NEW S, NEW n \in Nat, NEW s
    PROVE  s \in BoundedSeq(S, n) <=> s \in Seq(S) /\ Len(s) <= n
<1>1. BoundedSeq(S, n) = UNION {[1..m -> S] : m \in 0..n}
  BY DEF BoundedSeq, SeqOf
<1>2. ASSUME s \in BoundedSeq(S, n) PROVE s \in Seq(S) /\ Len(s) <= n
  <2>1. PICK m \in 0..n : s \in [1..m -> S]
    BY <1>1, <1>2
  <2> QED BY <2>1
<1>3. ASSUME s \in Seq(S), Len(s) <= n PROVE s \in BoundedSeq(S, n)
  <2>1. Len(s) \in 0..n /\ s \in [1..Len(s) -> S]
    BY <1>3, LenProperties
  <2> QED BY <1>1, <2>1
<1> QED BY <1>2, <1>3

\* A command: its last byte is its only newline.
EndsLine(s) == {i \in DOMAIN s : s[i] = Newline} = {Len(s)}

\* What a write takes of its data.
LEMMA TakenProperties ==
    ASSUME NEW data \in Chunk
    PROVE  /\ data \in Seq(Byte) /\ Len(data) \in Nat
           /\ Taken(data) \in Seq(Byte)
           /\ Len(Taken(data)) \in 0..Len(data) /\ Len(data) <= MaxCommand
           /\ HasNewline(data) => EndsLine(Taken(data)) /\ Len(Taken(data)) > 0
           /\ ~HasNewline(data) => Taken(data) = data
<1>1. /\ data \in Seq(Byte) /\ Len(data) \in Nat /\ Len(data) <= MaxCommand
      /\ DOMAIN data = 1..Len(data) /\ \A i \in 1..Len(data) : data[i] \in Byte
  BY CallsAssumption, LenProperties, ElementOfSeq
<1>2. CASE HasNewline(data)
  <2> DEFINE n == SelectInSeq(data, LAMBDA b : b = Newline)
  <2>1. \E i \in 1..Len(data) : data[i] = Newline
    BY <1>1, <1>2 DEF HasNewline, ToSet
  <2>2. n \in 1..Len(data) /\ data[n] = Newline /\ \A j \in 1..n-1 : data[j] # Newline
    BY <1>1, <2>1, FirstPlace
  <2>3. Taken(data) = SubSeq(data, 1, n)
    BY <1>2 DEF Taken
  <2> HIDE DEF n
  <2>4. \A i \in 1..n : data[i] \in Byte
    BY <1>1, <2>2
  <2>5. /\ Taken(data) \in Seq(Byte) /\ Len(Taken(data)) = n
        /\ \A i \in 1..n : Taken(data)[i] = data[i]
    BY <2>2, <2>3, <2>4, SubSeqProperties
  <2>6. DOMAIN Taken(data) = 1..n
    BY <2>5, LenProperties
  <2>7. \A i \in 1..n : Taken(data)[i] = Newline <=> i = n
    BY <1>1, <2>2, <2>5
  <2>8. n \in 1..n
    BY <1>1, <2>2
  <2>9. EndsLine(Taken(data))
    BY <2>5, <2>6, <2>7, <2>8 DEF EndsLine
  <2> QED BY <1>1, <1>2, <2>2, <2>5, <2>9
<1>3. CASE ~HasNewline(data)
  BY <1>1, <1>3 DEF Taken
<1> QED BY <1>2, <1>3

\* Bytes without a newline and what follows them.
LEMMA LineOfPieces ==
    ASSUME NEW s \in Seq(Byte), NEW t \in Seq(Byte), ~HasNewline(s)
    PROVE  /\ EndsLine(t) /\ Len(t) > 0 => EndsLine(s \o t)
           /\ ~HasNewline(t) => ~HasNewline(s \o t)
<1> DEFINE c == s \o t
           m == Len(s)
           n == Len(t)
<1>1. /\ m \in Nat /\ n \in Nat /\ DOMAIN s = 1..m /\ DOMAIN t = 1..n
      /\ c \in Seq(Byte) /\ Len(c) = m + n /\ DOMAIN c = 1..m+n
      /\ \A i \in 1..m+n : c[i] = IF i <= m THEN s[i] ELSE t[i - m]
  BY ConcatProperties, LenProperties
<1>2. \A i \in 1..m : s[i] # Newline
  BY <1>1 DEF HasNewline, ToSet
<1> HIDE DEF c, m, n
<1>3. ASSUME EndsLine(t), n > 0 PROVE EndsLine(c)
  <2>1. n \in 1..n /\ \A i \in 1..n : t[i] = Newline <=> i = n
    BY <1>1, <1>3 DEF EndsLine, n
  <2>2. ASSUME NEW i \in 1..m+n PROVE c[i] = Newline <=> i = m + n
    <3>1. CASE i <= m
      BY <1>1, <1>2, <2>1, <3>1
    <3>2. CASE ~(i <= m)
      <4>1. i - m \in 1..n /\ (i - m = n <=> i = m + n)
        BY <1>1, <3>2
      <4> QED BY <1>1, <2>1, <3>2, <4>1
    <3> QED BY <3>1, <3>2
  <2>3. m + n \in 1..m+n
    BY <1>1, <1>3
  <2> QED BY <1>1, <2>2, <2>3 DEF EndsLine
<1>4. ASSUME ~HasNewline(t) PROVE ~HasNewline(c)
  <2>1. \A i \in 1..n : t[i] # Newline
    BY <1>1, <1>4 DEF HasNewline, ToSet
  <2>2. ASSUME NEW i \in 1..m+n PROVE c[i] # Newline
    <3>1. CASE i <= m
      BY <1>1, <1>2, <3>1
    <3>2. CASE ~(i <= m)
      <4>1. i - m \in 1..n
        BY <1>1, <3>2
      <4> QED BY <1>1, <2>1, <3>2, <4>1
    <3> QED BY <3>1, <3>2
  <2> QED BY <1>1, <2>2 DEF HasNewline, ToSet
<1> QED BY <1>3, <1>4 DEF c, n

-----------------------------------------------------------------------------
(* The inductive invariant of the device: the buffer, the working entry    *)
(* and the heap                                                            *)

DeviceTypes ==
    /\ loaded \in BOOLEAN
    /\ working_entry \in [buffptr : Block \cup {NULL}, size : 0..MaxCommand]
    /\ heap \in [Block -> BoundedSeq(Byte, MaxCommand) \cup {Unused}]

\* CommandsEndWithNewline, slot by slot.
LinesEnd ==
    loaded =>
        /\ \A k \in 0..Slots-1 :
             entry[k].buffptr # NULL => EndsLine(heap[entry[k].buffptr])
        /\ ~HasNewline(Collected)

\* A module that is not loaded owns nothing.
Emptied ==
    ~loaded => /\ working_entry.buffptr = NULL
               /\ \A k \in 0..Slots-1 : entry[k].buffptr = NULL

DeviceInv ==
    /\ DeviceTypes
    /\ loaded => RingFits
    /\ NoDanglingPointer
    /\ LinesEnd
    /\ Emptied

\* What the slots and the working entry hold, for the proofs below.
LEMMA DeviceFacts ==
    ASSUME DeviceInv, loaded
    PROVE  /\ in_offs \in 0..Slots-1 /\ Slots \in Nat \ {0}
           /\ entry \in [0..Slots-1 -> Command \cup {Ring!Free}]
           /\ \A k \in 0..Slots-1 : entry[k].buffptr \in Block \cup {NULL}
           /\ working_entry.buffptr \in Block \cup {NULL}
           /\ NULL \notin Block
           /\ \A x \in Block : heap[x] # Unused =>
                heap[x] \in Seq(Byte) /\ Len(heap[x]) <= MaxCommand
           /\ Collected \in Seq(Byte)
           /\ Len(Collected) = CollectedSize
           /\ CollectedSize \in 0..MaxCommand
<1>1. /\ in_offs \in 0..Slots-1 /\ Slots \in Nat \ {0}
      /\ entry \in [0..Slots-1 -> Command \cup {Ring!Free}]
  BY SlotsAssumption DEF DeviceInv, RingFits, Ring!TypeOK
<1>2. /\ \A k \in 0..Slots-1 : entry[k].buffptr \in Block \cup {NULL}
      /\ working_entry.buffptr \in Block \cup {NULL}
  BY <1>1 DEF DeviceInv, DeviceTypes, Command, Ring!Free
<1>3. \A x \in Block : heap[x] # Unused =>
        heap[x] \in Seq(Byte) /\ Len(heap[x]) <= MaxCommand
  BY BoundsAssumption, BoundedSeqs DEF DeviceInv, DeviceTypes
<1>4. /\ Collected \in Seq(Byte) /\ Len(Collected) = CollectedSize
      /\ CollectedSize \in 0..MaxCommand
  <2>1. CASE working_entry.buffptr = NULL
    <3>1. Collected = <<>> /\ CollectedSize = 0
      BY <2>1 DEF Collected, CollectedSize
    <3> QED BY <3>1, EmptySeq, BoundsAssumption
  <2>2. CASE working_entry.buffptr # NULL
    <3>1. /\ Collected = heap[working_entry.buffptr]
          /\ CollectedSize = working_entry.size
      BY <2>2 DEF Collected, CollectedSize
    <3>2. /\ heap[working_entry.buffptr] # Unused
          /\ Len(heap[working_entry.buffptr]) = working_entry.size
      BY <2>2 DEF DeviceInv, NoDanglingPointer
    <3>3. working_entry.size \in 0..MaxCommand
      BY DEF DeviceInv, DeviceTypes
    <3> QED BY <1>2, <1>3, <2>2, <3>1, <3>2, <3>3
  <2> QED BY <2>1, <2>2
<1> QED BY <1>1, <1>2, <1>3, <1>4, NamesAssumption

\* h is the heap with the working entry moved to b and extended by data.
IsGrown(h, b, data) ==
    /\ h \in [Block -> BoundedSeq(Byte, MaxCommand) \cup {Unused}]
    /\ h[b] = Collected \o data /\ h[b] # Unused
    /\ Len(h[b]) = CollectedSize + Len(data)
    /\ \A x \in Block : x # b /\ x # working_entry.buffptr => h[x] = heap[x]
    /\ working_entry.buffptr # NULL /\ working_entry.buffptr # b
         => h[working_entry.buffptr] = Unused

\* Neither kzalloc nor krealloc hands out a block that a slot points to.
LEMMA GrowEffect ==
    ASSUME DeviceInv, loaded, NEW data \in Seq(Byte), NEW kbuff \in Spare,
           NEW b \in Places(kbuff), CollectedSize + Len(data) <= MaxCommand
    PROVE  /\ b \in Block
           /\ heap[b] = Unused \/ b = working_entry.buffptr
           /\ \A k \in 0..Slots-1 : entry[k].buffptr # b
           /\ IsGrown(Grow(b, data), b, data)
<1>0. Len(data) \in Nat
  BY LenProperties
<1>1. b \in Block /\ (heap[b] = Unused \/ b = working_entry.buffptr)
  BY DeviceFacts DEF Places, Spare
<1>2. \A k \in 0..Slots-1 : entry[k].buffptr # b
  BY <1>1, DeviceFacts DEF DeviceInv, NoDanglingPointer
<1> DEFINE h == Grow(b, data)
           line == Collected \o data
<1>3. line \in Seq(Byte) /\ Len(line) = CollectedSize + Len(data)
  BY DeviceFacts, ConcatProperties
<1>4. line \in BoundedSeq(Byte, MaxCommand) /\ line # Unused
  BY <1>3, BoundedSeqs, BoundsAssumption, NamesAssumption
<1>5. /\ h[b] = line
      /\ \A x \in Block : x # b /\ x # working_entry.buffptr => h[x] = heap[x]
      /\ working_entry.buffptr # NULL /\ working_entry.buffptr # b
           => h[working_entry.buffptr] = Unused
  BY <1>1, DeviceFacts DEF Grow
<1> HIDE DEF line
<1>6. h \in [Block -> BoundedSeq(Byte, MaxCommand) \cup {Unused}]
  BY <1>4 DEF Grow, line, DeviceInv, DeviceTypes
<1> HIDE DEF h
<1>7. IsGrown(h, b, data)
  BY <1>3, <1>4, <1>5, <1>6 DEF IsGrown, line
<1> QED BY <1>1, <1>2, <1>7 DEF h

\* A line that is complete: it goes into the buffer, and what it replaces is the
\* only block that is freed besides the old place of the working entry.
LEMMA AddCommandKeeps ==
    ASSUME DeviceInv, loaded, loaded', NEW data \in Seq(Byte),
           EndsLine(data), Len(data) > 0,
           NEW b \in Block, heap[b] = Unused \/ b = working_entry.buffptr,
           \A k \in 0..Slots-1 : entry[k].buffptr # b,
           NEW h, IsGrown(h, b, data), CollectedSize + Len(data) <= MaxCommand,
           AddCommand(b, CollectedSize + Len(data), h)
    PROVE  DeviceInv' /\ Leaked' \subseteq Leaked
<1> DEFINE size == CollectedSize + Len(data)
           e == [buffptr |-> b, size |-> size]
           q == entry[in_offs].buffptr
<1>0. Len(data) \in Nat
  BY LenProperties
<1>1. e \in Command
  <2>1. size \in 1..MaxCommand
    BY <1>0, DeviceFacts, BoundsAssumption
  <2> QED BY <2>1 DEF Command
<1>2. Ring!AddEntry(e)
  BY DEF AddCommand
<1>3. RingFits
  BY DEF DeviceInv
<1>4. /\ RingFits' /\ entry' = [entry EXCEPT ![in_offs] = e]
      /\ Ring!Replaced = q
  BY <1>1, <1>2, <1>3, AddEntryOnRing
<1>5. /\ heap' = [x \in Block |-> IF x = q THEN Unused ELSE h[x]]
      /\ working_entry' = Ring!Free /\ working_entry'.buffptr = NULL
  BY <1>4 DEF AddCommand, Ring!Free
<1>6. DeviceTypes'
  <2>1. working_entry' \in [buffptr : Block \cup {NULL}, size : 0..MaxCommand]
    BY <1>5, BoundsAssumption DEF Ring!Free
  <2>2. heap' \in [Block -> BoundedSeq(Byte, MaxCommand) \cup {Unused}]
    BY <1>5 DEF IsGrown
  <2> QED BY <2>1, <2>2 DEF DeviceTypes
<1>7. /\ entry'[in_offs].buffptr = b /\ entry'[in_offs].size = size
      /\ \A k \in 0..Slots-1 : k # in_offs => entry'[k] = entry[k]
  BY <1>4, DeviceFacts
<1>8. heap'[b] = Collected \o data /\ heap'[b] # Unused /\ Len(heap'[b]) = size
  <2>1. b # q
    BY DeviceFacts
  <2> QED BY <1>5, <2>1 DEF IsGrown
<1>9. ASSUME NEW k \in 0..Slots-1, k # in_offs, entry[k].buffptr # NULL
      PROVE  heap'[entry[k].buffptr] = heap[entry[k].buffptr]
  <2>1. /\ entry[k].buffptr # q /\ entry[k].buffptr # b
        /\ entry[k].buffptr # working_entry.buffptr /\ entry[k].buffptr \in Block
    BY <1>9, DeviceFacts DEF DeviceInv, NoDanglingPointer
  <2> QED BY <1>5, <2>1 DEF IsGrown
<1> HIDE DEF size, e
<1>10. NoDanglingPointer'
  <2> SUFFICES ASSUME NEW k \in 0..Slots-1, entry'[k].buffptr # NULL
               PROVE  /\ heap'[entry'[k].buffptr] # Unused
                      /\ Len(heap'[entry'[k].buffptr]) = entry'[k].size
                      /\ entry'[k].buffptr # working_entry'.buffptr
                      /\ \A j \in 0..Slots-1 :
                           entry'[j].buffptr = entry'[k].buffptr => j = k
    BY <1>5 DEF NoDanglingPointer
  <2>1. CASE k = in_offs
    BY <1>5, <1>7, <1>8, <2>1
  <2>2. CASE k # in_offs
    <3>1. entry'[k] = entry[k] /\ entry[k].buffptr # NULL
      BY <1>7, <2>2
    <3>2. heap'[entry[k].buffptr] = heap[entry[k].buffptr]
      BY <1>9, <2>2, <3>1
    <3>3. /\ heap[entry[k].buffptr] # Unused
          /\ Len(heap[entry[k].buffptr]) = entry[k].size
          /\ \A j \in 0..Slots-1 : entry[j].buffptr = entry[k].buffptr => j = k
      BY <3>1 DEF DeviceInv, NoDanglingPointer
    <3>4. ASSUME NEW j \in 0..Slots-1, entry'[j].buffptr = entry'[k].buffptr
          PROVE  j = k
      BY <1>7, <3>1, <3>3, <3>4
    <3> QED BY <1>5, <3>1, <3>2, <3>3, <3>4
  <2> QED BY <2>1, <2>2
<1>11. LinesEnd'
  <2>1. EndsLine(Collected \o data)
    BY DeviceFacts, LineOfPieces DEF DeviceInv, LinesEnd
  <2>2. ASSUME NEW k \in 0..Slots-1, entry'[k].buffptr # NULL
        PROVE  EndsLine(heap'[entry'[k].buffptr])
    <3>1. CASE k = in_offs
      BY <1>7, <1>8, <2>1, <3>1
    <3>2. CASE k # in_offs
      BY <1>7, <1>9, <2>2, <3>2 DEF DeviceInv, LinesEnd
    <3> QED BY <3>1, <3>2
  <2>3. Collected' = <<>>
    BY <1>5 DEF Collected
  <2>4. ~HasNewline(<<>>)
    BY DEF HasNewline, ToSet
  <2>5. ~HasNewline(Collected')
    BY <2>3, <2>4
  <2> QED BY <2>2, <2>5 DEF LinesEnd, EndsLine, HasNewline
<1>12. Leaked' \subseteq Leaked
  <2> SUFFICES ASSUME NEW x \in Leaked' PROVE x \in Leaked
    OBVIOUS
  <2>1. /\ x \in Block /\ heap'[x] # Unused /\ x # b
        /\ \A k \in 0..Slots-1 : x # entry'[k].buffptr
    BY <1>5, <1>7, DeviceFacts DEF Leaked, OwnedBlocks, OwnedBuffers
  <2>2. x # q /\ x # working_entry.buffptr /\ heap[x] # Unused
    BY <1>5, <2>1, DeviceFacts DEF IsGrown
  <2>3. \A k \in 0..Slots-1 : x # entry[k].buffptr
    BY <1>7, <2>1, <2>2
  <2> QED BY <2>1, <2>2, <2>3 DEF Leaked, OwnedBlocks, OwnedBuffers
<1> QED BY <1>4, <1>6, <1>10, <1>11, <1>12 DEF DeviceInv, Emptied

\* The blocks of the slots are left alone.
SlotsKept ==
    /\ UNCHANGED buffer
    /\ \A k \in 0..Slots-1 : entry[k].buffptr # NULL =>
         heap'[entry[k].buffptr] = heap[entry[k].buffptr]

\* The working entry has memory of its own, or none.
WorkingFits ==
    working_entry.buffptr # NULL =>
        /\ heap[working_entry.buffptr] # Unused
        /\ Len(heap[working_entry.buffptr]) = working_entry.size
        /\ \A k \in 0..Slots-1 : entry[k].buffptr # working_entry.buffptr

\* A step that keeps the slots need only answer for the working entry.
LEMMA WorkingStepKeeps ==
    ASSUME DeviceInv, loaded, loaded', SlotsKept, DeviceTypes', WorkingFits',
           ~HasNewline(Collected')
    PROVE  DeviceInv'
<1>1. entry' = entry /\ in_offs' = in_offs /\ out_offs' = out_offs /\ full' = full
  BY DEF SlotsKept, buffer
<1>2. RingFits'
  BY <1>1 DEF DeviceInv, RingFits, Ring!TypeOK, Ring!OffsetsConsistent,
              Ring!Live, Ring!Slot, Ring!Count
<1>3. NoDanglingPointer'
  BY <1>1 DEF DeviceInv, NoDanglingPointer, SlotsKept, WorkingFits
<1>4. LinesEnd'
  BY <1>1 DEF DeviceInv, LinesEnd, SlotsKept, EndsLine, HasNewline
<1> QED BY <1>2, <1>3, <1>4 DEF DeviceInv, Emptied

\* A line that is not complete: the working entry keeps it, and loses nothing.
LEMMA KeepPartialKeeps ==
    ASSUME DeviceInv, loaded, loaded', NEW data \in Seq(Byte), ~HasNewline(data),
           NEW b \in Block, heap[b] = Unused \/ b = working_entry.buffptr,
           \A k \in 0..Slots-1 : entry[k].buffptr # b,
           NEW h, IsGrown(h, b, data), CollectedSize + Len(data) <= MaxCommand,
           KeepPartial(b, CollectedSize + Len(data), h)
    PROVE  /\ DeviceInv' /\ Leaked' \subseteq Leaked
           /\ SlotsKept /\ Collected' = Collected \o data
<1> DEFINE size == CollectedSize + Len(data)
<1>1. size \in 0..MaxCommand
  BY DeviceFacts, LenProperties, BoundsAssumption
<1>2. /\ working_entry' = [buffptr |-> b, size |-> size] /\ heap' = h
      /\ UNCHANGED buffer /\ entry' = entry
  BY DEF KeepPartial, buffer
<1>3. b # NULL /\ heap'[b] = Collected \o data /\ heap'[b] # Unused /\ Len(heap'[b]) = size
  BY <1>2, DeviceFacts DEF IsGrown
<1> HIDE DEF size
<1>4. DeviceTypes'
  BY <1>1, <1>2 DEF DeviceTypes, IsGrown
<1>5. SlotsKept
  <2>1. ASSUME NEW k \in 0..Slots-1, entry[k].buffptr # NULL
        PROVE  heap'[entry[k].buffptr] = heap[entry[k].buffptr]
    <3>1. /\ entry[k].buffptr # b /\ entry[k].buffptr \in Block
          /\ entry[k].buffptr # working_entry.buffptr
      BY <2>1, DeviceFacts DEF DeviceInv, NoDanglingPointer
    <3> QED BY <1>2, <3>1 DEF IsGrown
  <2> QED BY <1>2, <2>1 DEF SlotsKept
<1>6. WorkingFits'
  BY <1>2, <1>3 DEF WorkingFits
<1>7. Collected' = Collected \o data
  BY <1>2, <1>3 DEF Collected
<1>8. ~HasNewline(Collected')
  <2>1. ~HasNewline(Collected \o data)
    BY DeviceFacts, LineOfPieces DEF DeviceInv, LinesEnd
  <2> QED BY <1>7, <2>1
<1>9. Leaked' \subseteq Leaked
  <2> SUFFICES ASSUME NEW x \in Leaked' PROVE x \in Leaked
    OBVIOUS
  <2>1. /\ x \in Block /\ h[x] # Unused /\ x # b
        /\ \A k \in 0..Slots-1 : x # entry[k].buffptr
    BY <1>2, DeviceFacts DEF Leaked, OwnedBlocks, OwnedBuffers
  <2>2. x # working_entry.buffptr /\ heap[x] # Unused
    BY <2>1, DeviceFacts DEF IsGrown
  <2> QED BY <2>1, <2>2 DEF Leaked, OwnedBlocks, OwnedBuffers
<1>10. DeviceInv'
  BY <1>4, <1>5, <1>6, <1>8, WorkingStepKeeps
<1> QED BY <1>5, <1>7, <1>9, <1>10

\* aesd_write, when nothing fails.
LEMMA WriteKeeps ==
    ASSUME DeviceInv, loaded, NEW t \in Thread, call[t].data \in Chunk, Write(t)
    PROVE  DeviceInv' /\ Leaked' \subseteq Leaked
<1> DEFINE data == call[t].data
           size == CollectedSize + Len(Taken(data))
<1>0. PICK kbuff \in Spare : \E b \in Places(kbuff) :
        /\ size <= MaxCommand
        /\ IF HasNewline(data) THEN AddCommand(b, size, Grow(b, Taken(data)))
                               ELSE KeepPartial(b, size, Grow(b, Taken(data)))
  BY Zenon DEF Write
<1>1. PICK b \in Places(kbuff) :
        /\ size <= MaxCommand
        /\ IF HasNewline(data) THEN AddCommand(b, size, Grow(b, Taken(data)))
                               ELSE KeepPartial(b, size, Grow(b, Taken(data)))
  BY <1>0
<1>2. loaded'
  BY DEF Write
<1>3. /\ Taken(data) \in Seq(Byte)
      /\ HasNewline(data) => EndsLine(Taken(data)) /\ Len(Taken(data)) > 0
      /\ ~HasNewline(data) => ~HasNewline(Taken(data))
  BY TakenProperties
<1> HIDE DEF data
<1>4. /\ b \in Block /\ (heap[b] = Unused \/ b = working_entry.buffptr)
      /\ \A k \in 0..Slots-1 : entry[k].buffptr # b
      /\ IsGrown(Grow(b, Taken(data)), b, Taken(data))
  BY <1>1, <1>3, GrowEffect
<1>5. CASE HasNewline(data)
  BY <1>1, <1>2, <1>3, <1>4, <1>5, AddCommandKeeps
<1>6. CASE ~HasNewline(data)
  BY <1>1, <1>2, <1>3, <1>4, <1>6, KeepPartialKeeps
<1> QED BY <1>5, <1>6

\* A write that fails leaves what the slots hold alone.
LEMMA LeakKeepsSlots ==
    ASSUME DeviceInv, loaded, LeakKbuff, UNCHANGED buffer
    PROVE  /\ SlotsKept
           /\ heap' \in [Block -> BoundedSeq(Byte, MaxCommand) \cup {Unused}]
           /\ \A x \in Block : heap[x] # Unused => heap'[x] = heap[x]
<1>1. PICK kbuff \in Spare : heap' = [heap EXCEPT ![kbuff] = <<>>]
  BY DEF LeakKbuff
<1>2. <<>> \in BoundedSeq(Byte, MaxCommand)
  <2>1. <<>> \in Seq(Byte) /\ Len(<<>>) <= MaxCommand /\ MaxCommand \in Nat
    BY EmptySeq, BoundsAssumption
  <2> QED BY <2>1, BoundedSeqs
<1>3. heap' \in [Block -> BoundedSeq(Byte, MaxCommand) \cup {Unused}]
  BY <1>1, <1>2 DEF DeviceInv, DeviceTypes
<1>4. \A x \in Block : heap[x] # Unused => heap'[x] = heap[x]
  BY <1>1 DEF DeviceInv, DeviceTypes, Spare
<1>5. SlotsKept
  BY <1>4, DeviceFacts DEF SlotsKept, DeviceInv, NoDanglingPointer
<1> QED BY <1>3, <1>4, <1>5

\* A working entry that nothing was done to.
LEMMA WorkingKept ==
    ASSUME DeviceInv, loaded, UNCHANGED working_entry, entry' = entry,
           \A x \in Block : heap[x] # Unused => heap'[x] = heap[x]
    PROVE  WorkingFits' /\ Collected' = Collected /\ ~HasNewline(Collected')
<1>1. working_entry.buffptr # NULL =>
        heap'[working_entry.buffptr] = heap[working_entry.buffptr]
  BY DeviceFacts DEF DeviceInv, NoDanglingPointer
<1>2. WorkingFits'
  BY <1>1 DEF WorkingFits, DeviceInv, NoDanglingPointer
<1>3. Collected' = Collected
  BY <1>1 DEF Collected
<1> QED BY <1>2, <1>3 DEF DeviceInv, LinesEnd

\* The error returns of aesd_write.
LEMMA FailedWriteKeeps ==
    ASSUME DeviceInv, loaded, NEW t \in Thread, call[t].data \in Chunk,
           WriteFault(t) \/ WriteNoGrowth(t) \/ WriteNoEntry(t)
    PROVE  DeviceInv'
<1>1. LeakKbuff /\ UNCHANGED buffer /\ loaded' /\ entry' = entry
  BY DEF WriteFault, WriteNoGrowth, WriteNoEntry, dev, buffer
<1>2. /\ SlotsKept
      /\ heap' \in [Block -> BoundedSeq(Byte, MaxCommand) \cup {Unused}]
      /\ \A x \in Block : heap[x] # Unused => heap'[x] = heap[x]
  BY <1>1, LeakKeepsSlots
<1>3. CASE WriteFault(t)
  <2>1. UNCHANGED working_entry /\ UNCHANGED loaded
    BY <1>3 DEF WriteFault, dev
  <2>2. WorkingFits' /\ ~HasNewline(Collected')
    BY <1>1, <1>2, <2>1, WorkingKept
  <2>3. DeviceTypes'
    BY <1>2, <2>1 DEF DeviceInv, DeviceTypes
  <2> QED BY <1>1, <1>2, <2>2, <2>3, WorkingStepKeeps
<1>4. CASE WriteNoGrowth(t) \/ WriteNoEntry(t)
  <2>1. working_entry'.buffptr = NULL
    BY <1>4 DEF WriteNoGrowth, WriteNoEntry, DeviceInv, DeviceTypes
  <2>2. working_entry' \in [buffptr : Block \cup {NULL}, size : 0..MaxCommand]
    <3>1. Len(Taken(call[t].data)) \in 0..MaxCommand
      BY TakenProperties, BoundsAssumption
    <3> QED BY <1>4, <3>1 DEF WriteNoGrowth, WriteNoEntry, DeviceInv, DeviceTypes
  <2>3. DeviceTypes'
    BY <1>1, <1>2, <2>2 DEF DeviceTypes
  <2>4. WorkingFits' /\ Collected' = <<>>
    BY <2>1 DEF WorkingFits, Collected
  <2>5. ~HasNewline(Collected')
    BY <2>4 DEF HasNewline, ToSet
  <2> QED BY <1>1, <1>2, <2>3, <2>4, <2>5, WorkingStepKeeps
<1> QED BY <1>3, <1>4

LogIsEmpty == Ring!LogOf = <<>>

\* aesd_circular_buffer_init puts the buffer in order and leaves it empty.
LEMMA InitOnRing == Ring!Init => RingFits /\ LogIsEmpty
<1> SUFFICES ASSUME Ring!Init PROVE RingFits /\ LogIsEmpty
  OBVIOUS
<1>1. Buffer!Init
  BY SameBuffer DEF BuffersAgree, Ring!Init, Buffer!Init
<1>2. Buffer!IndInv
  BY <1>1, CommandsFit, Buffer!InitIndInv DEF CommandsAreEntries
<1>3. LogIsEmpty
  <2>1. Ring!Count = 0
    BY DEF Ring!Init, Ring!Count
  <2> QED BY <2>1 DEF Ring!LogOf, LogIsEmpty
<1> QED BY <1>2, <1>3, SameBuffer DEF BuffersAgree

\* Loading the module loses nothing that was allocated.
LEMMA LoadKeeps ==
    ASSUME DeviceInv, Load
    PROVE  /\ DeviceInv' /\ Leaked' \subseteq Leaked
           /\ LogIsEmpty' /\ Collected' = <<>>
<1>1. Ring!Init'
  BY DEF Load, Ring!Init
<1>2. RingFits' /\ LogIsEmpty'
  BY <1>1, InitOnRing, PTL
<1>3. /\ loaded' /\ ~loaded /\ heap' = heap /\ working_entry' = Ring!Free
      /\ working_entry'.buffptr = NULL
      /\ \A k \in 0..Slots-1 : entry'[k].buffptr = NULL
  BY DEF Load, Ring!Free
<1>4. DeviceTypes'
  BY <1>3, BoundsAssumption DEF Load, DeviceInv, DeviceTypes, Ring!Free
<1>5. Collected' = <<>> /\ ~HasNewline(Collected')
  <2>1. Collected' = <<>>
    BY <1>3 DEF Collected
  <2>2. ~HasNewline(<<>>)
    BY DEF HasNewline, ToSet
  <2> QED BY <2>1, <2>2
<1>6. NoDanglingPointer' /\ LinesEnd' /\ Emptied'
  BY <1>3, <1>5 DEF NoDanglingPointer, LinesEnd, Emptied, HasNewline
<1>7. Leaked' \subseteq Leaked
  BY <1>3 DEF DeviceInv, Emptied, Leaked, OwnedBlocks, OwnedBuffers
<1> QED BY <1>2, <1>4, <1>5, <1>6, <1>7 DEF DeviceInv

\* Unloading it frees everything that the device owns.
LEMMA UnloadKeeps ==
    ASSUME DeviceInv, Unload
    PROVE  DeviceInv' /\ Leaked' \subseteq Leaked
<1>1. /\ loaded /\ ~loaded' /\ loaded' \in BOOLEAN
      /\ heap' = [b \in Block |-> IF b \in OwnedBuffers THEN Unused ELSE heap[b]]
      /\ working_entry' = IF working_entry.buffptr # NULL
                          THEN Ring!Free ELSE working_entry
  BY DEF Unload
<1>2. \A k \in 0..Slots-1 : entry'[k].buffptr = NULL
  <2>1. \A k \in 0..Slots-1 : entry'[k] = [entry[k] EXCEPT !.buffptr = NULL]
    BY DEF Unload
  <2>2. \A k \in 0..Slots-1 : entry[k] \in [buffptr : Block \cup {NULL}, size : Nat]
    <3>1. 0..MaxCommand \subseteq Nat /\ 1..MaxCommand \subseteq Nat
      BY BoundsAssumption
    <3> QED BY <1>1, <3>1, DeviceFacts DEF Command, Ring!Free
  <2> QED BY <2>1, <2>2
<1>3. DeviceTypes' /\ working_entry'.buffptr = NULL
  BY <1>1, BoundsAssumption DEF DeviceInv, DeviceTypes, Ring!Free
<1>4. NoDanglingPointer' /\ LinesEnd' /\ Emptied'
  BY <1>1, <1>2, <1>3 DEF NoDanglingPointer, LinesEnd, Emptied
<1>5. Leaked' \subseteq Leaked
  <2> SUFFICES ASSUME NEW x \in Block, heap'[x] # Unused PROVE x \in Leaked
    BY DEF Leaked
  <2>1. x \notin OwnedBuffers /\ heap[x] # Unused
    BY <1>1
  <2> QED BY <2>1 DEF Leaked, OwnedBlocks
<1> QED BY <1>1, <1>3, <1>4, <1>5 DEF DeviceInv

\* The steps that are not about the device itself.
DeviceKept == UNCHANGED <<buffer, working_entry, heap, loaded>>

\* They keep what the device promises, and its memory.
LEMMA KeptDevice ==
    ASSUME DeviceInv, DeviceKept
    PROVE  DeviceInv' /\ Leaked' = Leaked
<1>1. /\ entry' = entry /\ in_offs' = in_offs /\ out_offs' = out_offs
      /\ full' = full /\ working_entry' = working_entry /\ heap' = heap
      /\ loaded' = loaded
  BY DEF DeviceKept, buffer
<1>2. loaded => RingFits'
  BY <1>1 DEF DeviceInv, RingFits, Ring!TypeOK, Ring!OffsetsConsistent,
              Ring!Live, Ring!Slot, Ring!Count
<1>3. DeviceTypes' /\ NoDanglingPointer' /\ Emptied'
  BY <1>1 DEF DeviceInv, DeviceTypes, NoDanglingPointer, Emptied
<1>4. LinesEnd'
  BY <1>1 DEF DeviceInv, LinesEnd, EndsLine, HasNewline, Collected
<1>5. Leaked' = Leaked
  BY <1>1 DEF Leaked, OwnedBlocks, OwnedBuffers
<1> QED BY <1>1, <1>2, <1>3, <1>4, <1>5 DEF DeviceInv

-----------------------------------------------------------------------------
(* Searching the buffer *)

\* The two instances search the same way.
SearchesAgree ==
    /\ Buffer!TotalSize = Ring!TotalSize
    /\ Buffer!NotFound = Ring!NotFound
    /\ \A off : Buffer!FindEntry(off) = Ring!FindEntry(off)
    /\ Buffer!Sizes = Ring!Sizes

\* They do: they have the same definitions.
LEMMA SameSearch == SearchesAgree
<1>1. \A f, S : Buffer!SumFunctionOnSet(f, S) = Ring!SumFunctionOnSet(f, S)
  BY DEF Buffer!SumFunctionOnSet, Ring!SumFunctionOnSet,
         Buffer!FoldFunctionOnSet, Ring!FoldFunctionOnSet,
         Buffer!MapThenFoldSet, Ring!MapThenFoldSet
<1>2. Buffer!Sizes = Ring!Sizes /\ Buffer!NotFound = Ring!NotFound
  BY DEF Buffer!Sizes, Ring!Sizes, Buffer!NotFound, Ring!NotFound
<1>3. Buffer!TotalSize = Ring!TotalSize
  BY <1>1, <1>2 DEF Buffer!TotalSize, Ring!TotalSize, Buffer!SumOfSizes, Ring!SumOfSizes
<1>4. Buffer!SizesByAge = Ring!SizesByAge /\ \A i : Buffer!Slot(i) = Ring!Slot(i)
  BY DEF Buffer!SizesByAge, Ring!SizesByAge, Buffer!Slot, Ring!Slot
<1>5. \A n : Buffer!Wrap(n) = Ring!Wrap(n)
  BY DEF Buffer!Wrap, Ring!Wrap
<1>6. \A i : Buffer!SumBefore(i) = Ring!SumBefore(i)
  BY <1>1, <1>4, <1>5 DEF Buffer!SumBefore, Ring!SumBefore
<1>7. \A off : Buffer!Hits(off) = Ring!Hits(off)
  BY <1>4, <1>5, <1>6 DEF Buffer!Hits, Ring!Hits
<1>8. \A S : Buffer!Min(S) = Ring!Min(S)
  BY DEF Buffer!Min, Ring!Min
<1>9. Buffer!IsEmpty <=> Ring!IsEmpty
  BY DEF Buffer!IsEmpty, Ring!IsEmpty
<1>10. \A off : Buffer!FindEntry(off) = Ring!FindEntry(off)
  BY <1>2, <1>4, <1>5, <1>6, <1>7, <1>8, <1>9 DEF Buffer!FindEntry, Ring!FindEntry
<1> QED BY <1>2, <1>3, <1>10 DEF SearchesAgree

\* How many bytes lie before the i-th oldest command, and how many it has.
Start(i) == Buffer!Before(i)

SizeOf(i) == entry[Ring!Slot(i)].size

\* The search for a position, and the size it is compared with.
SearchFinds(pos) ==
    /\ pos < Ring!TotalSize =>
         \E i \in 0..Ring!Count-1 :
            /\ Start(i) <= pos /\ pos < Start(i) + SizeOf(i)
            /\ Ring!FindEntry(pos) = [slot |-> Ring!Slot(i), offset |-> pos - Start(i)]
    /\ pos >= Ring!TotalSize => Ring!FindEntry(pos) = Ring!NotFound

\* The search finds the command that the position falls into.
LEMMA RingSearch ==
    ASSUME RingFits, NEW pos \in Nat
    PROVE  SearchFinds(pos)
<1>1. Buffer!IndInv
  BY SameBuffer DEF BuffersAgree
<1>2. /\ pos < Buffer!TotalSize =>
           \E i \in 0..Buffer!Count-1 :
              /\ Buffer!Before(i) <= pos /\ pos < Buffer!Before(i) + Buffer!SizesByAge[i]
              /\ Buffer!FindEntry(pos)
                   = [slot |-> Buffer!Slot(i), offset |-> pos - Buffer!Before(i)]
      /\ pos >= Buffer!TotalSize => Buffer!FindEntry(pos) = Buffer!NotFound
  BY <1>1, CommandsFit, Buffer!FindEntryFinds DEF CommandsAreEntries
<1>3. Ring!Count \in 0..Slots
  BY SlotsAssumption DEF RingFits, Ring!TypeOK, Ring!OffsetsConsistent, Ring!Count
<1>4. \A i \in 0..Ring!Count-1 : Buffer!SizesByAge[i] = SizeOf(i)
  <2>1. \A i \in 0..Ring!Count-1 : i \in 0..Slots-1
    BY <1>3, SlotsAssumption
  <2> QED BY <2>1, SameBuffer DEF BuffersAgree, Buffer!SizesByAge, SizeOf
<1>5. ASSUME pos < Ring!TotalSize
      PROVE  \E i \in 0..Ring!Count-1 :
                /\ Start(i) <= pos /\ pos < Start(i) + SizeOf(i)
                /\ Ring!FindEntry(pos) = [slot |-> Ring!Slot(i), offset |-> pos - Start(i)]
  <2>1. PICK i \in 0..Buffer!Count-1 :
          /\ Buffer!Before(i) <= pos /\ pos < Buffer!Before(i) + Buffer!SizesByAge[i]
          /\ Buffer!FindEntry(pos)
               = [slot |-> Buffer!Slot(i), offset |-> pos - Buffer!Before(i)]
    BY <1>2, <1>5, SameSearch DEF SearchesAgree
  <2>2. i \in 0..Ring!Count-1 /\ Buffer!Slot(i) = Ring!Slot(i)
    BY SameBuffer DEF BuffersAgree
  <2>3. Start(i) <= pos /\ pos < Start(i) + SizeOf(i)
    BY <1>4, <2>1, <2>2 DEF Start
  <2>4. Ring!FindEntry(pos) = [slot |-> Ring!Slot(i), offset |-> pos - Start(i)]
    BY <2>1, <2>2, SameSearch DEF SearchesAgree, Start
  <2> QED BY <2>2, <2>3, <2>4
<1>6. pos >= Ring!TotalSize => Ring!FindEntry(pos) = Ring!NotFound
  BY <1>2, SameSearch DEF SearchesAgree
<1> QED BY <1>5, <1>6 DEF SearchFinds

\* The device never holds more than the bounds allow for.
LEMMA RingTotal ==
    ASSUME RingFits
    PROVE  Ring!TotalSize \in Nat /\ Ring!TotalSize <= MaxPos
<1>1. Buffer!SizesUpTo(MaxCommand)
  BY BoundsAssumption DEF Buffer!SizesUpTo, Command
<1>2. Buffer!TotalSize \in Nat /\ Buffer!TotalSize <= Slots * MaxCommand
  BY <1>1, SameBuffer, CommandsFit, BoundsAssumption, Buffer!TotalBound
     DEF BuffersAgree, CommandsAreEntries
<1>3. Slots * MaxCommand \in Nat
  BY SlotsAssumption, BoundsAssumption
<1> QED BY <1>2, <1>3, BoundsAssumption, SameSearch DEF SearchesAgree

\* Each command begins where the one before it ends, and none begins past the end.
LEMMA StartProperties ==
    ASSUME RingFits, NEW i \in 0..Slots-1
    PROVE  /\ Start(i) \in Nat /\ SizeOf(i) \in Nat
           /\ Start(i) + SizeOf(i) <= Ring!TotalSize
<1>1. Buffer!IndInv
  BY SameBuffer DEF BuffersAgree
<1>2. /\ Slots \in Nat \ {0} /\ Slots \in 0..Slots /\ i \in 0..Slots /\ i + 1 \in 0..Slots
      /\ i < Slots
  BY SlotsAssumption
<1>3. Buffer!Before(i) \in Nat /\ Buffer!Before(i + 1) \in Nat
  BY <1>1, <1>2, CommandsFit, Buffer!SumsFit DEF CommandsAreEntries
<1>4. /\ Buffer!Before(i + 1) = Buffer!Before(i) + Buffer!SizesByAge[i]
      /\ \A j \in 0..Slots : i < j => Buffer!Before(i + 1) <= Buffer!Before(j)
  BY <1>1, CommandsFit, Buffer!BeforeStep DEF CommandsAreEntries
<1>5. Ring!TotalSize = Buffer!Before(Slots)
  BY <1>1, CommandsFit, SameSearch, Buffer!TotalIsSum DEF CommandsAreEntries, SearchesAgree
<1>6. Buffer!SizesByAge[i] = SizeOf(i)
  BY SameBuffer DEF BuffersAgree, Buffer!SizesByAge, SizeOf
<1>7. SizeOf(i) \in Nat
  <2>1. Ring!Slot(i) \in 0..Slots-1
    BY SlotsAssumption DEF Ring!Slot, RingFits, Ring!TypeOK
  <2> QED BY <2>1, BoundsAssumption DEF SizeOf, RingFits, Ring!TypeOK, Command, Ring!Free
<1> QED BY <1>2, <1>3, <1>4, <1>5, <1>6, <1>7 DEF Start

-----------------------------------------------------------------------------
(* aesd_read *)

\* The commands of the log have memory with as many bytes as they say.
LEMMA LogSlots ==
    ASSUME DeviceInv, loaded
    PROVE  /\ Ring!Count \in 0..Slots
           /\ \A i \in 0..Ring!Count-1 :
                /\ i \in 0..Slots-1 /\ Ring!Slot(i) \in 0..Slots-1
                /\ entry[Ring!Slot(i)].buffptr \in Block
                /\ heap[entry[Ring!Slot(i)].buffptr] \in Seq(Byte)
                /\ Len(heap[entry[Ring!Slot(i)].buffptr]) = SizeOf(i)
                /\ EndsLine(heap[entry[Ring!Slot(i)].buffptr])
<1>1. Ring!Count \in 0..Slots
  BY SlotsAssumption
     DEF DeviceInv, RingFits, Ring!TypeOK, Ring!OffsetsConsistent, Ring!Count
<1>2. ASSUME NEW i \in 0..Ring!Count-1
      PROVE  /\ i \in 0..Slots-1 /\ Ring!Slot(i) \in 0..Slots-1
             /\ entry[Ring!Slot(i)].buffptr # NULL
  <2>1. i \in 0..Slots-1
    BY <1>1, SlotsAssumption
  <2>2. Ring!Slot(i) \in 0..Slots-1
    BY <2>1, SlotsAssumption DEF Ring!Slot, DeviceInv, RingFits, Ring!TypeOK
  <2>3. Ring!Slot(i) \in Ring!Live
    BY DEF Ring!Live
  <2> QED BY <2>1, <2>2, <2>3 DEF DeviceInv, RingFits, Ring!OffsetsConsistent
<1>3. ASSUME NEW k \in 0..Slots-1, entry[k].buffptr # NULL
      PROVE  /\ entry[k].buffptr \in Block
             /\ heap[entry[k].buffptr] \in Seq(Byte)
             /\ Len(heap[entry[k].buffptr]) = entry[k].size
             /\ EndsLine(heap[entry[k].buffptr])
  BY <1>3, DeviceFacts DEF DeviceInv, NoDanglingPointer, LinesEnd
<1> QED BY <1>1, <1>2, <1>3 DEF SizeOf

\* The n bytes that a read returns lie in one command.
LiesInCommand(pos, count, i, n) ==
    /\ Start(i) <= pos /\ pos + n <= Start(i) + SizeOf(i)
    /\ n = count \/ pos + n = Start(i) + SizeOf(i)
    /\ ReadBytes(pos, count)
         = SubSeq(heap[entry[Ring!Slot(i)].buffptr],
                  pos - Start(i) + 1, pos - Start(i) + n)

\* What a read returns.
ReadIsRight(pos, count) ==
    /\ pos < Ring!TotalSize =>
         \E i \in 0..Ring!Count-1 : \E n \in 1..count : LiesInCommand(pos, count, i, n)
    /\ pos >= Ring!TotalSize => ReadBytes(pos, count) = <<>>

\* A read returns the bytes of one command from the position on.
LEMMA ReadShape ==
    ASSUME DeviceInv, loaded, NEW pos \in Nat, NEW count \in Nat \ {0}
    PROVE  ReadIsRight(pos, count)
<1>1. RingFits
  BY DEF DeviceInv
<1>2. SearchFinds(pos) /\ Ring!TotalSize \in Nat
  BY <1>1, RingSearch, RingTotal
<1>3. ASSUME pos >= Ring!TotalSize PROVE ReadBytes(pos, count) = <<>>
  BY <1>2, <1>3 DEF SearchFinds, ReadBytes
<1>4. ASSUME pos < Ring!TotalSize
      PROVE  \E i \in 0..Ring!Count-1 : \E n \in 1..count : LiesInCommand(pos, count, i, n)
  <2>1. PICK i \in 0..Ring!Count-1 :
          /\ Start(i) <= pos /\ pos < Start(i) + SizeOf(i)
          /\ Ring!FindEntry(pos) = [slot |-> Ring!Slot(i), offset |-> pos - Start(i)]
    BY <1>2, <1>4 DEF SearchFinds
  <2>2. i \in 0..Slots-1 /\ Ring!Slot(i) \in 0..Slots-1
    BY LogSlots
  <2>3. Start(i) \in Nat /\ SizeOf(i) \in Nat
    BY <1>1, <2>2, StartProperties
  <2> DEFINE off == pos - Start(i)
             end == Min({off + count, SizeOf(i)})
             n == end - off
  <2>4. /\ end \in {off + count, SizeOf(i)}
        /\ end <= off + count /\ end <= SizeOf(i)
    <3>1. {off + count, SizeOf(i)} \in SUBSET Nat /\ {off + count, SizeOf(i)} # {}
      BY <2>1, <2>3
    <3> HIDE DEF off
    <3>2. /\ Min({off + count, SizeOf(i)}) \in {off + count, SizeOf(i)}
          /\ \A y \in {off + count, SizeOf(i)} : Min({off + count, SizeOf(i)}) <= y
      BY <3>1, MinIsLeast
    <3> QED BY <3>2
  <2> HIDE DEF end
  <2>5. /\ n \in 1..count /\ pos + n <= Start(i) + SizeOf(i) /\ off + n = end
        /\ n = count \/ pos + n = Start(i) + SizeOf(i)
    BY <2>1, <2>3, <2>4
  <2>6. Ring!FindEntry(pos) # Ring!NotFound
    <3>1. Ring!Slot(i) # NULL
      BY <2>2, SlotsAssumption, NamesAssumption
    <3> QED BY <2>1, <3>1 DEF Ring!NotFound
  <2>7. ~(pos > Ring!TotalSize)
    BY <1>2, <1>4
  <2>8. ReadBytes(pos, count)
          = SubSeq(heap[entry[Ring!Slot(i)].buffptr], off + 1, end)
    <3> DEFINE hit == Ring!FindEntry(pos)
               from(k, o) == SubSeq(heap[entry[k].buffptr], o + 1,
                                    Min({o + count, entry[k].size}))
    <3>1. ReadBytes(pos, count) = from(hit.slot, hit.offset)
      BY <2>6, <2>7 DEF ReadBytes
    <3>2. hit.slot = Ring!Slot(i) /\ hit.offset = off
      BY <2>1
    <3> HIDE DEF from, hit
    <3>3. ReadBytes(pos, count) = from(Ring!Slot(i), off)
      BY <3>1, <3>2
    <3> QED BY <3>3 DEF from, end, SizeOf
  <2> HIDE DEF n
  <2>9. LiesInCommand(pos, count, i, n)
    BY <2>1, <2>5, <2>8 DEF LiesInCommand
  <2> QED BY <2>5, <2>9
<1> QED BY <1>3, <1>4 DEF ReadIsRight

\* A read never moves the position past the end.
LEMMA ReadStays ==
    ASSUME DeviceInv, loaded, NEW pos \in 0..MaxPos, NEW count \in ReadSize
    PROVE  pos + Len(ReadBytes(pos, count)) \in 0..MaxPos
<1>1. pos \in Nat /\ count \in Nat \ {0} /\ MaxPos \in Nat
  BY BoundsAssumption, CallsAssumption
<1>2. ReadIsRight(pos, count)
  BY <1>1, ReadShape
<1>3. Ring!TotalSize \in Nat /\ Ring!TotalSize <= MaxPos
  BY RingTotal DEF DeviceInv
<1>4. CASE pos < Ring!TotalSize
  <2>1. PICK i \in 0..Ring!Count-1, n \in 1..count : LiesInCommand(pos, count, i, n)
    BY <1>2, <1>4 DEF ReadIsRight
  <2> DEFINE s == heap[entry[Ring!Slot(i)].buffptr]
             off == pos - Start(i)
  <2>2. i \in 0..Slots-1 /\ s \in Seq(Byte) /\ Len(s) = SizeOf(i)
    BY LogSlots
  <2>3. /\ Start(i) \in Nat /\ SizeOf(i) \in Nat
        /\ Start(i) + SizeOf(i) <= Ring!TotalSize
    BY <2>2, StartProperties DEF DeviceInv
  <2>4. Start(i) <= pos /\ pos + n <= Start(i) + SizeOf(i)
    BY <2>1 DEF LiesInCommand
  <2>5. ReadBytes(pos, count) = SubSeq(s, off + 1, off + n)
    BY <2>1 DEF LiesInCommand
  <2> HIDE DEF s
  <2>6. off \in Nat /\ off + n <= Len(s) /\ n \in Nat \ {0}
    BY <1>1, <2>2, <2>3, <2>4
  <2> HIDE DEF off
  <2>7. Len(SubSeq(s, off + 1, off + n)) = n
    <3> DEFINE first == off + 1
               last == off + n
    <3>1. /\ first \in Int /\ last \in Int /\ first <= last /\ last - first + 1 = n
          /\ first >= 1 /\ last <= Len(s)
      BY <2>6
    <3> HIDE DEF first, last
    <3>2. \A j \in first..last : s[j] \in Byte
      BY <2>2, <2>3, <3>1, ElementOfSeq
    <3>3. Len(SubSeq(s, first, last)) = n
      BY <3>1, <3>2, SubSeqProperties
    <3> QED BY <3>3 DEF first, last
  <2> QED BY <1>1, <1>3, <2>3, <2>4, <2>5, <2>6, <2>7
<1>5. CASE pos >= Ring!TotalSize
  BY <1>1, <1>2, <1>5 DEF ReadIsRight
<1> QED BY <1>1, <1>3, <1>4, <1>5

-----------------------------------------------------------------------------
(* The calls *)

CallTypes ==
    /\ dev_mutex \in Thread \cup {Nobody}
    /\ f_pos \in [File -> 0..MaxPos \cup {Closed}]
    /\ call \in [Thread -> Calls]

\* A call is to an open file, and files are open only while the module is
\* loaded.
CallsAreOpen ==
    /\ \A t \in Thread : call[t] # Idle => IsOpen(call[t].file)
    /\ \A f \in File : IsOpen(f) => loaded

\* A write that has begun can move the position by all of its data.
WritesFit ==
    \A t \in Thread :
        call[t].op = "write" => call[t].pos + Len(call[t].data) <= MaxPos

CallInv == CallTypes /\ CallsAreOpen /\ WritesFit

\* What the calls of each kind carry.
LEMMA CallFacts ==
    ASSUME CallInv, NEW t \in Thread
    PROVE  /\ call[t] # Idle =>
                /\ loaded /\ call[t].file \in File /\ IsOpen(call[t].file)
                /\ call[t].pos \in 0..MaxPos
           /\ call[t].op = "read" => call[t] # Idle /\ call[t].count \in ReadSize
           /\ call[t].op = "write" => call[t] # Idle /\ call[t].data \in Chunk
           /\ call[t].op \in {"return", "seek_cur", "seek_end"} => call[t] # Idle
<1>1. call[t] \in Calls
  BY DEF CallInv, CallTypes
<1>2. call[t] # Idle => call[t].file \in File /\ call[t].pos \in 0..MaxPos
  BY <1>1 DEF Calls
<1>3. call[t].op = "read" => call[t] # Idle /\ call[t].count \in ReadSize
  BY <1>1 DEF Calls, Idle
<1>4. call[t].op = "write" => call[t] # Idle /\ call[t].data \in Chunk
  BY <1>1 DEF Calls, Idle
<1>5. call[t].op \in {"return", "seek_cur", "seek_end"} => call[t] # Idle
  BY DEF Idle
<1>6. call[t] # Idle => loaded /\ IsOpen(call[t].file)
  BY <1>2 DEF CallInv, CallsAreOpen
<1> QED BY <1>2, <1>3, <1>4, <1>5, <1>6

\* Thread t begins a call, goes on with it or ends it.
LEMMA CallChanges ==
    ASSUME CallInv, NEW t \in Thread, NEW c \in Calls,
           c # Idle => c.file \in File /\ IsOpen(c.file),
           c.op = "write" => c.pos + Len(c.data) <= MaxPos,
           call' = [call EXCEPT ![t] = c], UNCHANGED <<dev_mutex, f_pos, loaded>>
    PROVE  CallInv'
<1>1. \A u \in Thread : call'[u] = IF u = t THEN c ELSE call[u]
  BY DEF CallInv, CallTypes
<1>2. CallTypes'
  BY DEF CallInv, CallTypes
<1>3. CallsAreOpen'
  BY <1>1 DEF CallInv, CallsAreOpen, IsOpen
<1>4. WritesFit'
  BY <1>1 DEF CallInv, WritesFit
<1> QED BY <1>2, <1>3, <1>4 DEF CallInv

\* The call of t ends.
LEMMA CallEnds ==
    ASSUME CallInv, NEW t \in Thread, Finish(t), UNCHANGED <<dev_mutex, f_pos, loaded>>
    PROVE  CallInv'
<1>1. Idle \in Calls /\ Idle.op # "write"
  BY DEF Calls, Idle
<1> QED BY <1>1, CallChanges DEF Finish

\* The call of t has a result.
LEMMA CallReturns ==
    ASSUME CallInv, NEW t \in Thread, call[t] # Idle, NEW pos \in 0..MaxPos,
           ReturnAt(t, pos), UNCHANGED <<dev_mutex, f_pos, loaded>>
    PROVE  CallInv'
<1> DEFINE c == [op |-> "return", file |-> call[t].file, pos |-> pos]
<1>1. call[t].file \in File /\ IsOpen(call[t].file)
  BY CallFacts
<1>2. c \in Calls /\ c.op # "write" /\ c.file = call[t].file
  BY <1>1 DEF Calls
<1>3. call' = [call EXCEPT ![t] = c]
  BY DEF ReturnAt, CallInv, CallTypes
<1> HIDE DEF c
<1> QED BY <1>1, <1>2, <1>3, CallChanges

\* The position of an open file moves, and the call that moved it ends.
LEMMA PositionMoves ==
    ASSUME CallInv, NEW f \in File, IsOpen(f), NEW pos \in 0..MaxPos,
           f_pos' = [f_pos EXCEPT ![f] = pos], UNCHANGED <<dev_mutex, loaded>>,
           UNCHANGED call \/ \E t \in Thread : Finish(t)
    PROVE  CallInv'
<1>1. pos # Closed /\ pos \in Nat
  BY NamesAssumption, BoundsAssumption
<1>2. \A g \in File : f_pos'[g] = IF g = f THEN pos ELSE f_pos[g]
  BY DEF CallInv, CallTypes
<1>3. \A g \in File : f_pos'[g] # Closed <=> f_pos[g] # Closed
  BY <1>1, <1>2 DEF IsOpen
<1>4. call' \in [Thread -> Calls] /\ \A u \in Thread : call'[u] \in {call[u], Idle}
  BY DEF CallInv, CallTypes, Finish, Calls
<1>5. CallTypes'
  BY <1>4 DEF CallInv, CallTypes
<1>6. CallsAreOpen'
  <2>1. ASSUME NEW u \in Thread, call'[u] # Idle PROVE f_pos'[call'[u].file] # Closed
    <3>1. call'[u] = call[u] /\ call[u].file \in File /\ f_pos[call[u].file] # Closed
      BY <1>4, <2>1, CallFacts DEF IsOpen
    <3> QED BY <1>3, <3>1
  <2> QED BY <1>3, <2>1 DEF CallInv, CallsAreOpen, IsOpen
<1>7. WritesFit'
  <2>1. Idle.op # "write"
    BY DEF Idle
  <2> QED BY <1>4, <2>1 DEF CallInv, WritesFit
<1> QED BY <1>5, <1>6, <1>7 DEF CallInv

-----------------------------------------------------------------------------
(* The invariant of the driver *)

Inv == DeviceInv /\ CallInv

\* The sum over the slots below an index.
LEMMA SlotSums ==
    ASSUME RingFits, NEW n \in 0..Slots
    PROVE  /\ Ring!SumOfSizes(0..n-1) = SumFunctionOnSet(Ring!Sizes, 0..n-1)
           /\ Ring!SumOfSizes(0..n-1) \in Nat
           /\ HasTerms(Ring!Sizes, Slots)
<1>1. Ring!SumOfSizes(0..n-1) = SumFunctionOnSet(Ring!Sizes, 0..n-1)
  BY DEF Ring!SumOfSizes, Ring!SumFunctionOnSet, SumFunctionOnSet,
         Ring!FoldFunctionOnSet, FoldFunctionOnSet, Ring!MapThenFoldSet, MapThenFoldSet
<1>2. HasTerms(Ring!Sizes, Slots)
  <2>1. ASSUME NEW k \in 0..Slots-1 PROVE entry[k].size \in Nat
    BY BoundsAssumption DEF RingFits, Ring!TypeOK, Command, Ring!Free
  <2> QED BY <2>1 DEF HasTerms, Ring!Sizes
<1>3. 0..n-1 \in SUBSET (0..Slots-1) /\ Slots \in Nat
  BY SlotsAssumption
<1>4. SumFunctionOnSet(Ring!Sizes, 0..n-1) \in Nat
  BY <1>2, <1>3, SumProperties
<1> QED BY <1>1, <1>2, <1>4

\* Files are opened and closed.
LEMMA OpenStepKeeps ==
    ASSUME Inv, NEW f \in File, Open(f) \/ Release(f)
    PROVE  DeviceKept /\ CallInv'
<1>0. CallInv /\ DeviceInv
  BY DEF Inv
<1>1. CASE Open(f)
  <2>1. DeviceKept /\ UNCHANGED <<dev_mutex, call>> /\ loaded' = loaded /\ loaded
    BY <1>1 DEF Open, DeviceKept, dev
  <2>2. f_pos' = [f_pos EXCEPT ![f] = 0] /\ 0 \in 0..MaxPos /\ 0 # Closed
    BY <1>1, BoundsAssumption, NamesAssumption DEF Open
  <2>3. CallTypes'
    BY <1>0, <2>1, <2>2 DEF CallInv, CallTypes
  <2>4. \A g \in File : f_pos'[g] = IF g = f THEN 0 ELSE f_pos[g]
    BY <1>0, <2>2 DEF CallInv, CallTypes
  <2>5. CallsAreOpen'
    <3>1. ASSUME NEW u \in Thread, call'[u] # Idle PROVE f_pos'[call'[u].file] # Closed
      <4>1. call'[u] = call[u] /\ call[u].file \in File /\ f_pos[call[u].file] # Closed
        BY <1>0, <2>1, <3>1, CallFacts DEF IsOpen
      <4> QED BY <2>2, <2>4, <4>1
    <3> QED BY <2>1, <3>1 DEF CallsAreOpen, IsOpen
  <2>6. WritesFit'
    BY <1>0, <2>1 DEF CallInv, WritesFit
  <2> QED BY <2>1, <2>3, <2>5, <2>6 DEF CallInv
<1>2. CASE Release(f)
  <2>1. /\ DeviceKept /\ UNCHANGED <<dev_mutex, call>> /\ loaded' = loaded
        /\ \A u \in Thread : call[u] # Idle => call[u].file # f
    BY <1>2 DEF Release, DeviceKept, dev
  <2>2. f_pos' = [f_pos EXCEPT ![f] = Closed]
    BY <1>2 DEF Release
  <2>3. CallTypes'
    BY <1>0, <2>1, <2>2 DEF CallInv, CallTypes
  <2>4. \A g \in File : f_pos'[g] = IF g = f THEN Closed ELSE f_pos[g]
    BY <1>0, <2>2 DEF CallInv, CallTypes
  <2>5. CallsAreOpen'
    <3>1. ASSUME NEW u \in Thread, call'[u] # Idle PROVE f_pos'[call'[u].file] # Closed
      <4>1. /\ call'[u] = call[u] /\ call[u].file \in File /\ call[u].file # f
            /\ f_pos[call[u].file] # Closed
        BY <1>0, <2>1, <3>1, CallFacts DEF IsOpen
      <4> QED BY <2>4, <4>1
    <3>2. \A g \in File : f_pos'[g] # Closed => f_pos[g] # Closed
      BY <2>4
    <3> QED BY <1>0, <2>1, <3>1, <3>2 DEF CallInv, CallsAreOpen, IsOpen
  <2>6. WritesFit'
    BY <1>0, <2>1 DEF CallInv, WritesFit
  <2> QED BY <2>1, <2>3, <2>5, <2>6 DEF CallInv
<1> QED BY <1>1, <1>2

\* The steps of read and of the VFS.
LEMMA VfsStepKeeps ==
    ASSUME Inv, NEW t \in Thread,
           \/ ReadCall(t) \/ WriteNoMemory(t) \/ VfsReturn(t) \/ Interrupted(t)
           \/ \E f \in File, data \in Chunk : BeginWrite(t, f, data)
    PROVE  DeviceKept /\ CallInv'
<1>0. CallInv /\ DeviceInv
  BY DEF Inv
<1>1. ASSUME NEW f \in File, NEW count \in ReadSize, BeginRead(t, f, count)
      PROVE  DeviceKept /\ CallInv'
  <2> DEFINE c == [op |-> "read", file |-> f, pos |-> f_pos[f], count |-> count]
  <2>1. /\ DeviceKept /\ UNCHANGED <<dev_mutex, f_pos, loaded>>
        /\ call' = [call EXCEPT ![t] = c] /\ IsOpen(f)
    BY <1>1 DEF BeginRead, Begin, DeviceKept, dev
  <2>2. f_pos[f] \in 0..MaxPos
    BY <1>0, <2>1 DEF CallInv, CallTypes, IsOpen
  <2>3. c \in Calls /\ c.op # "write" /\ c.file = f
    BY <2>2 DEF Calls
  <2> HIDE DEF c
  <2> QED BY <1>0, <2>1, <2>3, CallChanges
<1>2. ASSUME NEW f \in File, NEW data \in Chunk, BeginWrite(t, f, data)
      PROVE  DeviceKept /\ CallInv'
  <2> DEFINE c == [op |-> "write", file |-> f, pos |-> f_pos[f], data |-> data]
  <2>1. /\ DeviceKept /\ UNCHANGED <<dev_mutex, f_pos, loaded>>
        /\ call' = [call EXCEPT ![t] = c] /\ IsOpen(f)
        /\ f_pos[f] + Len(data) <= MaxPos
    BY <1>2 DEF BeginWrite, Begin, DeviceKept, dev
  <2>2. f_pos[f] \in 0..MaxPos
    BY <1>0, <2>1 DEF CallInv, CallTypes, IsOpen
  <2>3. c \in Calls /\ c.file = f /\ c.pos = f_pos[f] /\ c.data = data
    BY <2>2 DEF Calls
  <2> HIDE DEF c
  <2> QED BY <1>0, <2>1, <2>3, CallChanges
<1>3. CASE Read(t)
  <2>1. /\ DeviceKept /\ UNCHANGED <<dev_mutex, f_pos, loaded>> /\ call[t].op = "read"
        /\ ReturnAt(t, call[t].pos + Len(ReadBytes(call[t].pos, call[t].count)))
    BY <1>3 DEF Read, DeviceKept, dev
  <2>2. /\ call[t] # Idle /\ loaded /\ call[t].pos \in 0..MaxPos
        /\ call[t].count \in ReadSize
    BY <1>0, <2>1, CallFacts
  <2>3. call[t].pos + Len(ReadBytes(call[t].pos, call[t].count)) \in 0..MaxPos
    BY <1>0, <2>2, ReadStays
  <2> QED BY <1>0, <2>1, <2>2, <2>3, CallReturns
<1>4. CASE ReadFault(t) \/ WriteNoMemory(t) \/ Interrupted(t)
  <2>1. DeviceKept /\ UNCHANGED <<dev_mutex, f_pos, loaded>> /\ Finish(t)
    BY <1>4 DEF ReadFault, WriteNoMemory, Interrupted, DeviceKept, dev
  <2> QED BY <1>0, <2>1, CallEnds
<1>5. CASE VfsReturn(t)
  <2>1. /\ DeviceKept /\ UNCHANGED <<dev_mutex, loaded>> /\ Finish(t)
        /\ call[t].op = "return"
        /\ f_pos' = [f_pos EXCEPT ![call[t].file] = call[t].pos]
    BY <1>5 DEF VfsReturn, DeviceKept, dev
  <2>2. call[t].file \in File /\ IsOpen(call[t].file) /\ call[t].pos \in 0..MaxPos
    BY <1>0, <2>1, CallFacts
  <2> QED BY <1>0, <2>1, <2>2, PositionMoves
<1> QED BY <1>1, <1>2, <1>3, <1>4, <1>5 DEF ReadCall

\* The steps of llseek and ioctl.
LEMMA SeekStepKeeps ==
    ASSUME Inv, NEW t \in Thread, SeekCall(t) \/ SeekStore(t) \/ IoctlCall(t)
    PROVE  DeviceKept /\ CallInv'
<1>0. CallInv /\ DeviceInv
  BY DEF Inv
<1>1. ASSUME NEW g \in File, NEW off \in 0..MaxPos, SeekSet(t, g, off)
      PROVE  DeviceKept /\ CallInv'
  <2>1. /\ DeviceKept /\ UNCHANGED <<dev_mutex, loaded>> /\ UNCHANGED call
        /\ IsOpen(g) /\ f_pos' = [f_pos EXCEPT ![g] = off]
    BY <1>1 DEF SeekSet, DeviceKept, dev
  <2> QED BY <1>0, <2>1, PositionMoves
<1>2. ASSUME NEW g \in File, NEW op \in {"seek_cur", "seek_end"}, NEW newpos,
             Seek(t, op, g, newpos)
      PROVE  DeviceKept /\ CallInv'
  <2> DEFINE c == [op |-> op, file |-> g, pos |-> newpos]
  <2>1. /\ DeviceKept /\ UNCHANGED <<dev_mutex, f_pos, loaded>>
        /\ call' = [call EXCEPT ![t] = c] /\ IsOpen(g) /\ newpos \in 0..MaxPos
    BY <1>2 DEF Seek, Begin, DeviceKept, dev
  <2>2. c \in Calls /\ c.op # "write" /\ c.file = g
    BY <2>1 DEF Calls
  <2> HIDE DEF c
  <2> QED BY <1>0, <2>1, <2>2, CallChanges
<1>3. CASE SeekCall(t)
  BY <1>1, <1>2, <1>3 DEF SeekCall, SeekCur, SeekEnd
<1>4. CASE SeekStore(t)
  <2>1. /\ DeviceKept /\ UNCHANGED <<dev_mutex, loaded>> /\ Finish(t)
        /\ call[t].op \in {"seek_cur", "seek_end"}
        /\ f_pos' = [f_pos EXCEPT ![call[t].file] = call[t].pos]
    BY <1>4 DEF SeekStore, DeviceKept, dev
  <2>2. call[t].file \in File /\ IsOpen(call[t].file) /\ call[t].pos \in 0..MaxPos
    BY <1>0, <2>1, CallFacts
  <2> QED BY <1>0, <2>1, <2>2, PositionMoves
<1>5. ASSUME NEW f \in File, NEW cmd \in 0..Slots, NEW off \in 0..MaxCommand,
             SeekTo(t, f, cmd, off)
      PROVE  DeviceKept /\ CallInv'
  <2>1. /\ DeviceKept /\ UNCHANGED <<dev_mutex, loaded>> /\ UNCHANGED call
        /\ IsOpen(f) /\ SeekTarget(cmd, off) <= MaxPos
        /\ f_pos' = [f_pos EXCEPT ![f] = SeekTarget(cmd, off)]
    BY <1>5 DEF SeekTo, DeviceKept, dev
  <2>2. RingFits
    BY <1>0, <2>1 DEF CallInv, CallsAreOpen, DeviceInv
  <2>3. SeekTarget(cmd, off) \in 0..MaxPos
    <3>1. Ring!SumOfSizes(0..cmd-1) \in Nat
      BY <2>2, SlotSums
    <3> QED BY <2>1, <3>1, BoundsAssumption DEF SeekTarget
  <2> QED BY <1>0, <2>1, <2>3, PositionMoves
<1>6. ASSUME NEW f \in File, NEW cmd \in 0..Slots, NEW off \in 0..MaxCommand,
             SeekToFails(t, f, cmd, off)
      PROVE  DeviceKept /\ CallInv'
  <2>1. DeviceKept /\ UNCHANGED <<loaded, f_pos, call>> /\ dev_mutex' = t
    BY <1>6 DEF SeekToFails, DeviceKept
  <2> QED BY <1>0, <2>1 DEF CallInv, CallTypes, CallsAreOpen, WritesFit, IsOpen
<1> QED BY <1>3, <1>4, <1>5, <1>6 DEF IoctlCall

\* The steps of write that change the device.
LEMMA WriteStepKeeps ==
    ASSUME Inv, NEW t \in Thread,
           Write(t) \/ WriteFault(t) \/ WriteNoGrowth(t) \/ WriteNoEntry(t)
    PROVE  /\ Inv'
           /\ Write(t) => Leaked' \subseteq Leaked
<1>0. CallInv /\ DeviceInv
  BY DEF Inv
<1>1. /\ call[t].op = "write" /\ call[t] # Idle /\ loaded /\ call[t].data \in Chunk
      /\ call[t].pos \in 0..MaxPos
  BY <1>0, CallFacts DEF Write, WriteFault, WriteNoGrowth, WriteNoEntry
<1>2. CASE Write(t)
  <2>1. DeviceInv' /\ Leaked' \subseteq Leaked
    BY <1>0, <1>1, <1>2, WriteKeeps
  <2>2. /\ UNCHANGED <<dev_mutex, f_pos, loaded>>
        /\ ReturnAt(t, call[t].pos + Len(Taken(call[t].data)))
    BY <1>2 DEF Write
  <2>3. call[t].pos + Len(Taken(call[t].data)) \in 0..MaxPos
    <3>1. call[t].pos + Len(call[t].data) <= MaxPos
      BY <1>0, <1>1 DEF CallInv, WritesFit
    <3>2. Len(Taken(call[t].data)) \in 0..Len(call[t].data) /\ Len(call[t].data) \in Nat
      BY <1>1, TakenProperties
    <3> QED BY <1>1, <3>1, <3>2, BoundsAssumption
  <2>4. CallInv'
    BY <1>0, <1>1, <2>2, <2>3, CallReturns
  <2> QED BY <1>2, <2>1, <2>4 DEF Inv
<1>3. CASE WriteFault(t) \/ WriteNoGrowth(t) \/ WriteNoEntry(t)
  <2>1. UNCHANGED <<dev_mutex, f_pos, loaded>> /\ Finish(t)
    BY <1>3 DEF WriteFault, WriteNoGrowth, WriteNoEntry, dev
  <2>2. DeviceInv'
    BY <1>0, <1>1, <1>3, FailedWriteKeeps
  <2>3. CallInv'
    BY <1>0, <2>1, CallEnds
  <2>4. Leaked' \subseteq Leaked \/ ~Write(t)
    BY <1>0, <1>1, WriteKeeps
  <2> QED BY <2>2, <2>3, <2>4 DEF Inv
<1> QED BY <1>2, <1>3

\* Loading and unloading, which happen while no file is open.
LEMMA ModuleStepKeeps ==
    ASSUME Inv, Load \/ Unload
    PROVE  Inv' /\ Leaked' \subseteq Leaked
<1>0. CallInv /\ DeviceInv
  BY DEF Inv
<1>1. DeviceInv' /\ Leaked' \subseteq Leaked
  BY <1>0, LoadKeeps, UnloadKeeps
<1>2. /\ UNCHANGED <<f_pos, call>> /\ dev_mutex' \in Thread \cup {Nobody}
      /\ loaded' \/ \A f \in File : ~IsOpen(f)
  BY <1>0 DEF Load, Unload, CallInv, CallTypes
<1>3. CallInv'
  <2>1. CallTypes' /\ WritesFit'
    BY <1>0, <1>2 DEF CallInv, CallTypes, WritesFit
  <2>2. CallsAreOpen'
    BY <1>0, <1>2 DEF CallInv, CallsAreOpen, IsOpen
  <2> QED BY <2>1, <2>2 DEF CallInv
<1> QED BY <1>1, <1>3 DEF Inv

\* A block is lost only by a write that fails.
LeakAllowed ==
    \/ Leaked' \subseteq Leaked
    \/ \E t \in Thread : WriteFault(t) \/ WriteNoGrowth(t) \/ WriteNoEntry(t)

\* Each step of the driver.
LEMMA StepKeeps == Inv /\ Next => Inv' /\ LeakAllowed
<1> SUFFICES ASSUME Inv, Next PROVE Inv' /\ LeakAllowed
  OBVIOUS
<1>1. ASSUME DeviceKept, CallInv' PROVE Inv' /\ LeakAllowed
  BY <1>1, KeptDevice DEF Inv, LeakAllowed
<1>2. CASE Module
  <2>1. CASE Load \/ Unload
    BY <2>1, ModuleStepKeeps DEF LeakAllowed
  <2>2. ASSUME NEW f \in File, Open(f) \/ Release(f) PROVE Inv' /\ LeakAllowed
    BY <1>1, <2>2, OpenStepKeeps
  <2> QED BY <1>2, <2>1, <2>2 DEF Module
<1>3. ASSUME NEW t \in Thread,
             \/ ReadCall(t) \/ WriteNoMemory(t) \/ VfsReturn(t) \/ Interrupted(t)
             \/ \E f \in File, data \in Chunk : BeginWrite(t, f, data)
             \/ SeekCall(t) \/ SeekStore(t) \/ IoctlCall(t)
      PROVE  Inv' /\ LeakAllowed
  BY <1>1, <1>3, VfsStepKeeps, SeekStepKeeps
<1>4. ASSUME NEW t \in Thread,
             Write(t) \/ WriteFault(t) \/ WriteNoGrowth(t) \/ WriteNoEntry(t)
      PROVE  Inv' /\ LeakAllowed
  BY <1>4, WriteStepKeeps DEF LeakAllowed
<1>5. ASSUME NEW t \in Thread, WriteCall(t) PROVE Inv' /\ LeakAllowed
  BY <1>3, <1>4, <1>5 DEF WriteCall
<1> QED BY <1>2, <1>3, <1>5 DEF Next

\* Before the module is loaded there is nothing.
LEMMA InitKeeps == Init => Inv
<1> SUFFICES ASSUME Init PROVE Inv
  OBVIOUS
<1>1. DeviceTypes
  <2>1. working_entry \in [buffptr : Block \cup {NULL}, size : 0..MaxCommand]
    BY BoundsAssumption DEF Init, Ring!Free
  <2>2. heap \in [Block -> BoundedSeq(Byte, MaxCommand) \cup {Unused}]
    BY DEF Init
  <2> QED BY <2>1, <2>2 DEF Init, DeviceTypes
<1>2. ~loaded /\ Emptied
  BY DEF Init, Emptied, Ring!Init, Ring!Free
<1>3. DeviceInv
  BY <1>1, <1>2 DEF DeviceInv, NoDanglingPointer, LinesEnd
<1>4. \A t \in Thread : call[t] = Idle
  BY DEF Init
<1>5. CallTypes /\ CallsAreOpen
  BY <1>4 DEF Init, CallTypes, CallsAreOpen, Calls, IsOpen
<1>6. WritesFit
  BY <1>4 DEF WritesFit, Idle
<1> QED BY <1>3, <1>5, <1>6 DEF Inv, CallInv

\* A step that changes nothing.
LEMMA StutterKeeps == Inv /\ UNCHANGED vars => Inv'
<1> SUFFICES ASSUME Inv, UNCHANGED vars PROVE Inv'
  OBVIOUS
<1>1. DeviceKept /\ UNCHANGED <<dev_mutex, f_pos, call>> /\ loaded' = loaded
  BY DEF vars, dev, DeviceKept
<1>2. DeviceInv'
  BY <1>1, KeptDevice DEF Inv
<1>3. CallInv'
  BY <1>1 DEF Inv, CallInv, CallTypes, CallsAreOpen, WritesFit, IsOpen
<1> QED BY <1>2, <1>3 DEF Inv

\* Every reachable state satisfies the invariant.
LEMMA Invariance == Spec => []Inv
<1>1. Inv /\ [Next]_vars => Inv'
  BY StepKeeps, StutterKeeps
<1> QED BY <1>1, InitKeeps, PTL DEF Spec

-----------------------------------------------------------------------------
(* What holds of every behaviour *)

(***************************************************************************)
(* The offsets, sizes and positions of the driver stay in their ranges:    *)
(* neither the sizes that writes add up nor the positions that reads,      *)
(* writes and seeks compute leave the bounds.                              *)
(***************************************************************************)
THEOREM TypeCorrect == Spec => []TypeOK
<1>1. Inv => TypeOK
  BY DEF Inv, DeviceInv, DeviceTypes, RingFits, CallInv, CallTypes, TypeOK
<1> QED BY <1>1, Invariance, PTL

(***************************************************************************)
(* Whatever fails and however calls interleave, no pointer of the device   *)
(* is to freed memory or to memory of another length than its size, and no *)
(* two are to the same block.                                              *)
(***************************************************************************)
THEOREM PointersAreGood == Spec => []NoDanglingPointer
<1>1. Inv => NoDanglingPointer
  BY DEF Inv, DeviceInv
<1> QED BY <1>1, Invariance, PTL

(***************************************************************************)
(* A command is in the buffer only when its newline has come (line 178).   *)
(***************************************************************************)
THEOREM CommandsAreLines == Spec => []CommandsEndWithNewline
<1>1. Inv => CommandsEndWithNewline
  <2> SUFFICES ASSUME Inv, loaded
               PROVE  /\ \A k \in DOMAIN Commands : EndsLine(Commands[k])
                      /\ ~HasNewline(Collected)
    BY DEF CommandsEndWithNewline, EndsLine
  <2>1. ~HasNewline(Collected)
    BY DEF Inv, DeviceInv, LinesEnd
  <2>2. ASSUME NEW k \in DOMAIN Commands PROVE EndsLine(Commands[k])
    <3>1. Ring!Count \in Nat /\ Len(Ring!LogOf) = Ring!Count
      BY LogSlots, SlotsAssumption DEF Inv, Ring!LogOf
    <3>2. k - 1 \in 0..Ring!Count-1 /\ k \in 1..Ring!Count /\ k \in 1..Len(Ring!LogOf)
      BY <3>1 DEF Commands
    <3>3. Commands[k] = heap[entry[Ring!Slot(k - 1)].buffptr]
      BY <3>2 DEF Commands, Ring!LogOf
    <3> QED BY <3>2, <3>3, LogSlots DEF Inv
  <2> QED BY <2>1, <2>2
<1> QED BY <1>1, Invariance, PTL

(***************************************************************************)
(* Memory is lost only by the three error returns of aesd_write that skip  *)
(* kfree(kbuff).                                                           *)
(***************************************************************************)
THEOREM LeaksAreFailedWrites == Spec => LeakOnlyOnFailedWrite
<1>1. Inv /\ [Next]_vars => [LeakAllowed]_vars
  BY StepKeeps
<1> QED BY <1>1, Invariance, PTL DEF Spec, LeakOnlyOnFailedWrite, LeakAllowed
=============================================================================
