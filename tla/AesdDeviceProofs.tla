-------------------------- MODULE AesdDeviceProofs --------------------------
(***************************************************************************)
(* What programs see of the driver: the bytes that reads return, where     *)
(* seeks lead, and that the driver implements the device of AesdDevice,    *)
(* for every number of threads, files, slots and blocks and whatever the   *)
(* programs write.                                                         *)
(***************************************************************************)
EXTENDS AesdDriverProofs

-----------------------------------------------------------------------------
(* Reads and the log *)

\* The bytes of each command lie in the log behind those of the older ones.
LogIsCommands ==
    /\ Commands \in Seq(Seq(Byte)) /\ Len(Commands) = Ring!Count
    /\ \A i \in 0..Ring!Count-1 :
         Commands[i + 1] = heap[entry[Ring!Slot(i)].buffptr]
    /\ LogBytes \in Seq(Byte) /\ Len(LogBytes) = Ring!TotalSize
    /\ \A i \in 0..Ring!Count-1 : \A j \in 1..SizeOf(i) :
         LogBytes[Start(i) + j] = Commands[i + 1][j]

\* They do: the sizes by age are the lengths of the commands.
LEMMA LogLayout ==
    ASSUME DeviceInv, loaded
    PROVE  LogIsCommands
<1>1. Ring!Count \in 0..Slots /\ Ring!Count \in Nat /\ Slots \in Nat
  BY LogSlots, SlotsAssumption
<1>2. Len(Ring!LogOf) = Ring!Count
  BY <1>1 DEF Ring!LogOf
<1>3. Commands = [k \in 1..Ring!Count |-> heap[entry[Ring!Slot(k - 1)].buffptr]]
  BY <1>2 DEF Commands, Ring!LogOf
<1>4. ASSUME NEW k \in 1..Ring!Count
      PROVE  heap[entry[Ring!Slot(k - 1)].buffptr] \in Seq(Byte)
  <2>1. k - 1 \in 0..Ring!Count-1
    BY <1>1
  <2> QED BY <2>1, LogSlots
<1>5. Commands \in Seq(Seq(Byte)) /\ Len(Commands) = Ring!Count
  BY <1>1, <1>3, <1>4, IsASeq
<1>6. ASSUME NEW i \in 0..Ring!Count-1
      PROVE  /\ Commands[i + 1] = heap[entry[Ring!Slot(i)].buffptr]
             /\ Len(Commands[i + 1]) = SizeOf(i)
             /\ Buffer!SizesByAge[i] = SizeOf(i)
  <2>1. i + 1 \in 1..Ring!Count /\ i + 1 - 1 = i
    BY <1>1
  <2>2. i \in 0..Slots-1 /\ Len(heap[entry[Ring!Slot(i)].buffptr]) = SizeOf(i)
    BY LogSlots
  <2>3. Buffer!SizesByAge[i] = SizeOf(i)
    BY <2>2, SameBuffer DEF BuffersAgree, Buffer!SizesByAge, SizeOf
  <2> QED BY <1>3, <2>1, <2>2, <2>3
<1>7. HasLengths(Buffer!SizesByAge, Commands)
  BY <1>5, <1>6 DEF HasLengths
<1>8. LiesIn(Buffer!SizesByAge, Commands, LogBytes) /\ LogBytes \in Seq(Byte)
  BY <1>5, <1>7, FlattenPlaces, FlattenType DEF LogBytes
<1>9. \A i : SumFunctionOnSet(Buffer!SizesByAge, 0..i-1) = Start(i)
  BY DEF Start, Buffer!Before, Buffer!SumFunctionOnSet, SumFunctionOnSet,
         Buffer!FoldFunctionOnSet, FoldFunctionOnSet, Buffer!MapThenFoldSet, MapThenFoldSet
<1>10. Len(LogBytes) = Ring!TotalSize
  <2>1. Len(LogBytes) = Start(Ring!Count)
    BY <1>5, <1>8, <1>9 DEF LiesIn
  <2>2. Buffer!IndInv
    BY SameBuffer DEF DeviceInv, BuffersAgree
  <2>3. /\ Buffer!TotalSize = Buffer!Before(Slots)
        /\ Buffer!Before(Buffer!Count) = Buffer!Before(Slots)
    BY <2>2, CommandsFit, Buffer!TotalIsSum DEF CommandsAreEntries
  <2> QED BY <2>1, <2>3, SameBuffer, SameSearch DEF BuffersAgree, SearchesAgree, Start
<1>11. ASSUME NEW i \in 0..Ring!Count-1, NEW j \in 1..SizeOf(i)
       PROVE  LogBytes[Start(i) + j] = Commands[i + 1][j]
  <2>1. i \in 0..Len(Commands)-1 /\ j \in 1..Len(Commands[i + 1])
    BY <1>5, <1>6
  <2>2. LogBytes[SumFunctionOnSet(Buffer!SizesByAge, 0..i-1) + j] = Commands[i + 1][j]
    BY <1>8, <2>1 DEF LiesIn
  <2> QED BY <1>9, <2>2
<1> QED BY <1>5, <1>6, <1>8, <1>10, <1>11 DEF LogIsCommands

\* A piece of a sequence.
LEMMA Piece ==
    ASSUME NEW s \in Seq(Byte), NEW m \in Nat, NEW n \in Nat, m + n <= Len(s)
    PROVE  /\ SubSeq(s, m + 1, m + n) \in Seq(Byte)
           /\ Len(SubSeq(s, m + 1, m + n)) = n
           /\ \A j \in 1..n : SubSeq(s, m + 1, m + n)[j] = s[m + j]
<1> DEFINE first == m + 1
           last == m + n
<1>1. /\ first \in Int /\ last \in Int /\ first >= 1 /\ last <= Len(s)
      /\ last - first + 1 = n /\ (first <= last <=> n # 0)
      /\ Len(s) \in Nat /\ \A j \in 1..n : first + j - 1 = m + j
  BY LenProperties
<1> HIDE DEF first, last
<1>2. \A j \in first..last : s[j] \in Byte
  BY <1>1, ElementOfSeq
<1>3. /\ SubSeq(s, first, last) \in Seq(Byte)
      /\ Len(SubSeq(s, first, last)) = IF first <= last THEN last - first + 1 ELSE 0
      /\ \A j \in 1..last-first+1 : SubSeq(s, first, last)[j] = s[first + j - 1]
  BY <1>1, <1>2, SubSeqProperties
<1>4. Len(SubSeq(s, first, last)) = n
  BY <1>1, <1>3
<1>5. \A j \in 1..n : SubSeq(s, first, last)[j] = s[m + j]
  BY <1>1, <1>3
<1> QED BY <1>3, <1>4, <1>5 DEF first, last

(***************************************************************************)
(* A read returns the bytes of the log at its position, some unless it is  *)
(* at the end, never more than were asked for and never from behind the    *)
(* end of a command (aesd_read).                                           *)
(***************************************************************************)
THEOREM ReadsAreRight == Spec => []ReadReturnsLogBytes
<1>1. Inv => ReadReturnsLogBytes
  <2> DEFINE got(pos, count) == ReadBytes(pos, count)
  <2> SUFFICES ASSUME Inv, loaded, NEW pos \in 0..MaxPos, NEW count \in ReadSize
               PROVE  /\ got(pos, count)
                           = SubSeq(LogBytes, pos + 1, pos + Len(got(pos, count)))
                      /\ Len(got(pos, count)) <= count
                      /\ pos < Len(LogBytes) => got(pos, count) # <<>>
                      /\ pos >= Len(LogBytes) => got(pos, count) = <<>>
                      /\ \A i \in 1..Len(got(pos, count))-1 : got(pos, count)[i] # Newline
    BY DEF ReadReturnsLogBytes
  <2> DEFINE g == ReadBytes(pos, count)
  <2>1. pos \in Nat /\ count \in Nat \ {0} /\ DeviceInv
    BY BoundsAssumption, CallsAssumption DEF Inv
  <2>2. ReadIsRight(pos, count)
    BY <2>1, ReadShape
  <2>3. LogIsCommands /\ Ring!TotalSize \in Nat
    BY <2>1, LogLayout, RingTotal DEF DeviceInv
  <2>4. CASE pos >= Ring!TotalSize
    <3>1. g = <<>> /\ Len(g) = 0
      BY <2>2, <2>4 DEF ReadIsRight
    <3>2. SubSeq(LogBytes, pos + 1, pos) = <<>>
      <4>1. pos + 1 \in Int /\ pos \in Int /\ pos < pos + 1
        BY <2>1
      <4> QED BY <4>1, SubSeqEmpty
    <3>3. pos + Len(g) = pos
      BY <2>1, <3>1
    <3>4. \A i \in 1..Len(g)-1 : g[i] # Newline
      BY <3>1
    <3> QED BY <2>1, <2>3, <2>4, <3>1, <3>2, <3>3, <3>4 DEF LogIsCommands
  <2>5. CASE pos < Ring!TotalSize
    <3>1. PICK i \in 0..Ring!Count-1, n \in 1..count : LiesInCommand(pos, count, i, n)
      BY <2>2, <2>5 DEF ReadIsRight
    <3> DEFINE s == heap[entry[Ring!Slot(i)].buffptr]
               off == pos - Start(i)
    <3>2. i \in 0..Slots-1 /\ s \in Seq(Byte) /\ Len(s) = SizeOf(i)
      BY <2>1, LogSlots
    <3>3. /\ Start(i) \in Nat /\ SizeOf(i) \in Nat
          /\ Start(i) + SizeOf(i) <= Ring!TotalSize
      BY <2>1, <3>2, StartProperties DEF DeviceInv
    <3>4. Start(i) <= pos /\ pos + n <= Start(i) + SizeOf(i)
      BY <3>1 DEF LiesInCommand
    <3>5. g = SubSeq(s, off + 1, off + n)
      BY <3>1 DEF LiesInCommand
    <3>6. s = Commands[i + 1]
      BY <2>3 DEF LogIsCommands
    <3> HIDE DEF s, g
    <3>7. off \in Nat /\ n \in Nat \ {0} /\ off + n <= Len(s) /\ Start(i) + off = pos
      BY <2>1, <3>2, <3>3, <3>4
    <3> HIDE DEF off
    <3>8. g \in Seq(Byte) /\ Len(g) = n /\ \A j \in 1..n : g[j] = s[off + j]
      BY <3>2, <3>5, <3>7, Piece
    <3> DEFINE r == SubSeq(LogBytes, pos + 1, pos + n)
    <3>9. r \in Seq(Byte) /\ Len(r) = n /\ \A j \in 1..n : r[j] = LogBytes[pos + j]
      <4>1. LogBytes \in Seq(Byte) /\ pos + n <= Len(LogBytes)
        BY <2>1, <2>3, <3>3, <3>4, <3>7 DEF LogIsCommands
      <4> QED BY <2>1, <3>7, <4>1, Piece
    <3> HIDE DEF r
    <3>10. ASSUME NEW j \in 1..n PROVE g[j] = r[j]
      <4>1. off + j \in 1..SizeOf(i) /\ Start(i) + (off + j) = pos + j
        BY <2>1, <3>2, <3>3, <3>7
      <4>2. LogBytes[Start(i) + (off + j)] = Commands[i + 1][off + j]
        BY <2>3, <4>1 DEF LogIsCommands
      <4> QED BY <3>6, <3>8, <3>9, <4>1, <4>2
    <3>11. g = r
      BY <3>8, <3>9, <3>10, SeqEqual
    <3>12. g # <<>>
      BY <3>7, <3>8
    <3>13. Len(g) <= count /\ pos < Len(LogBytes) /\ ~(pos >= Len(LogBytes))
      BY <2>1, <2>3, <2>5, <3>8 DEF LogIsCommands
    <3>14. g = SubSeq(LogBytes, pos + 1, pos + Len(g))
      BY <3>8, <3>11 DEF r
    <3>15. ASSUME NEW j \in 1..Len(g)-1 PROVE g[j] # Newline
      <4>1. EndsLine(s)
        BY <2>1, LogSlots DEF s
      <4>2. j \in 1..n /\ off + j \in 1..Len(s) /\ off + j # Len(s)
        BY <3>2, <3>7, <3>8
      <4> QED BY <3>8, <4>1, <4>2 DEF EndsLine
    <3> QED BY <3>12, <3>13, <3>14, <3>15 DEF g
  <2> QED BY <2>1, <2>3, <2>4, <2>5
<1> QED BY <1>1, Invariance, PTL

-----------------------------------------------------------------------------
(* Seeking *)

\* Commands do not overlap.
LEMMA StartsAscend ==
    ASSUME RingFits, NEW i \in 0..Slots-1, NEW j \in 0..Slots-1, i < j
    PROVE  Start(i) + SizeOf(i) <= Start(j)
<1>1. Buffer!IndInv
  BY SameBuffer DEF BuffersAgree
<1>2. j \in 0..Slots
  BY SlotsAssumption
<1>3. /\ Buffer!Before(i + 1) = Buffer!Before(i) + Buffer!SizesByAge[i]
      /\ \A n \in 0..Slots : i < n => Buffer!Before(i + 1) <= Buffer!Before(n)
  BY <1>1, CommandsFit, Buffer!BeforeStep DEF CommandsAreEntries
<1>4. Buffer!SizesByAge[i] = SizeOf(i)
  BY SameBuffer DEF BuffersAgree, Buffer!SizesByAge, SizeOf
<1> QED BY <1>2, <1>3, <1>4 DEF Start

\* A position falls into one command only.
LEMMA OneCommand ==
    ASSUME RingFits, NEW i \in 0..Slots-1, NEW j \in 0..Slots-1, NEW pos \in Nat,
           Start(i) <= pos, pos < Start(i) + SizeOf(i),
           Start(j) <= pos, pos < Start(j) + SizeOf(j)
    PROVE  i = j
<1>1. /\ Start(i) \in Nat /\ SizeOf(i) \in Nat /\ Start(j) \in Nat /\ SizeOf(j) \in Nat
      /\ i \in Int /\ j \in Int
  BY StartProperties
<1>2. CASE i < j
  <2>1. Start(i) + SizeOf(i) <= Start(j)
    BY <1>2, StartsAscend
  <2> QED BY <1>1, <2>1
<1>3. CASE j < i
  <2>1. Start(j) + SizeOf(j) <= Start(i)
    BY <1>3, StartsAscend
  <2> QED BY <1>1, <2>1
<1> QED BY <1>1, <1>2, <1>3

\* While the oldest command is in slot 0, the slots are in order of age, and the
\* sum over the slots below a command is where it starts.
LEMMA SlotsInOrder ==
    ASSUME RingFits, out_offs = 0, NEW i \in 0..Slots-1
    PROVE  Ring!Slot(i) = i /\ Ring!SumOfSizes(0..i-1) = Start(i)
<1>1. \A k \in 0..Slots-1 : Ring!Slot(k) = k
  BY SlotsAssumption DEF Ring!Slot
<1>2. Ring!Sizes = Ring!SizesByAge
  BY <1>1 DEF Ring!Sizes, Ring!SizesByAge
<1>3. Buffer!SizesByAge = Ring!SizesByAge
  BY SameBuffer DEF BuffersAgree, Buffer!SizesByAge, Ring!SizesByAge
<1>4. Buffer!SumFunctionOnSet(Buffer!SizesByAge, 0..i-1)
        = Ring!SumFunctionOnSet(Ring!SizesByAge, 0..i-1)
  BY <1>3 DEF Buffer!SumFunctionOnSet, Ring!SumFunctionOnSet,
              Buffer!FoldFunctionOnSet, Ring!FoldFunctionOnSet,
              Buffer!MapThenFoldSet, Ring!MapThenFoldSet
<1> QED BY <1>1, <1>2, <1>4 DEF Start, Buffer!Before, Ring!SumOfSizes

(***************************************************************************)
(* Until the first command is overwritten a seek to any byte of any        *)
(* command is accepted and the next read continues from that byte          *)
(* (aesd_adjust_file_offset, lines 316-350).                               *)
(***************************************************************************)
THEOREM SeeksAreRight == Spec => []SeekBeforeWrap
<1>1. Inv => SeekBeforeWrap
  <2> SUFFICES ASSUME Inv, loaded, out_offs = 0, NEW k \in DOMAIN Commands,
                      NEW off \in 0..Len(Commands[k])-1
               PROVE  /\ SeekEntryExists(k - 1)
                      /\ off <= SeekEntrySize(k - 1)
                      /\ ReadBytes(SeekTarget(k - 1, off), MaxCommand)
                           = SubSeq(Commands[k], off + 1, Len(Commands[k]))
    BY DEF SeekBeforeWrap, SeekReaches
  <2>1. DeviceInv /\ RingFits
    BY DEF Inv, DeviceInv
  <2>2. LogIsCommands /\ Ring!Count \in 0..Slots /\ Slots \in Nat \ {0}
    BY <2>1, LogLayout, LogSlots, SlotsAssumption
  <2> DEFINE i == k - 1
             s == heap[entry[Ring!Slot(i)].buffptr]
  <2>3. i \in 0..Ring!Count-1 /\ k = i + 1 /\ Ring!Count \in Nat
    <3>1. DOMAIN Commands = 1..Ring!Count
      BY <2>2, LenProperties DEF LogIsCommands
    <3> QED BY <2>2, <3>1
  <2> HIDE DEF i
  <2>4. /\ i \in 0..Slots-1 /\ s \in Seq(Byte) /\ Len(s) = SizeOf(i)
        /\ entry[Ring!Slot(i)].buffptr \in Block
    BY <2>1, <2>3, LogSlots
  <2>5. Commands[k] = s
    BY <2>2, <2>3 DEF LogIsCommands
  <2>6. Ring!Slot(i) = i /\ Ring!SumOfSizes(0..i-1) = Start(i)
    BY <2>1, <2>4, SlotsInOrder
  <2>7. /\ Start(i) \in Nat /\ SizeOf(i) \in Nat
        /\ Start(i) + SizeOf(i) <= Ring!TotalSize /\ Ring!TotalSize \in Nat
    BY <2>1, <2>4, StartProperties, RingTotal
  <2>8. /\ off \in Nat /\ off < SizeOf(i)
        /\ SizeOf(i) <= MaxCommand /\ MaxCommand \in Nat \ {0}
    <3>1. off \in 0..SizeOf(i)-1
      BY <2>4, <2>5
    <3>2. SizeOf(i) <= MaxCommand
      BY <2>1, <2>4, <2>6, BoundsAssumption
         DEF SizeOf, RingFits, Ring!TypeOK, Command, Ring!Free
    <3> QED BY <2>7, <3>1, <3>2, BoundsAssumption
  <2>9. SeekEntryExists(i) /\ off <= SeekEntrySize(i)
    <3>1. i < Slots
      BY <2>2, <2>4
    <3>2. entry[i].buffptr # NULL
      BY <2>4, <2>6, NamesAssumption
    <3>3. entry[i].size = SizeOf(i)
      BY <2>6 DEF SizeOf
    <3> QED BY <2>7, <2>8, <3>1, <3>2, <3>3 DEF SeekEntryExists, SeekEntrySize
  <2> DEFINE pos == Start(i) + off
  <2>10. SeekTarget(i, off) = pos
    BY <2>6 DEF SeekTarget
  <2>11. /\ pos \in Nat /\ pos < Ring!TotalSize /\ Start(i) <= pos
         /\ pos < Start(i) + SizeOf(i) /\ pos - Start(i) = off
    BY <2>7, <2>8
  <2> HIDE DEF pos
  <2>12. PICK j \in 0..Ring!Count-1, n \in 1..MaxCommand :
           LiesInCommand(pos, MaxCommand, j, n)
    BY <2>1, <2>8, <2>11, ReadShape DEF ReadIsRight
  <2>13. /\ Start(j) <= pos /\ pos + n <= Start(j) + SizeOf(j)
         /\ n = MaxCommand \/ pos + n = Start(j) + SizeOf(j)
         /\ ReadBytes(pos, MaxCommand)
              = SubSeq(heap[entry[Ring!Slot(j)].buffptr],
                       pos - Start(j) + 1, pos - Start(j) + n)
    BY <2>12 DEF LiesInCommand
  <2>14. j = i
    <3>1. j \in 0..Slots-1
      BY <2>1, LogSlots
    <3>2. Start(j) \in Nat /\ SizeOf(j) \in Nat
      BY <2>1, <3>1, StartProperties
    <3>3. pos < Start(j) + SizeOf(j)
      BY <2>8, <2>11, <2>13, <3>2
    <3> QED BY <2>1, <2>4, <2>11, <2>13, <3>1, <3>3, OneCommand
  <2>15. off + n = SizeOf(i)
    <3>1. /\ pos + n <= Start(i) + SizeOf(i)
          /\ n = MaxCommand \/ pos + n = Start(i) + SizeOf(i)
      BY <2>13, <2>14
    <3>2. n \in Nat /\ pos = Start(i) + off
      BY <2>7, <2>8, <2>12 DEF pos
    <3>3. CASE n = MaxCommand
      <4>1. off + n <= SizeOf(i)
        BY <2>7, <2>8, <3>1, <3>2
      <4> QED BY <2>7, <2>8, <3>2, <3>3, <4>1
    <3>4. CASE pos + n = Start(i) + SizeOf(i)
      BY <2>7, <2>8, <3>2, <3>4
    <3> QED BY <3>1, <3>3, <3>4
  <2>16. ReadBytes(pos, MaxCommand) = SubSeq(s, off + 1, Len(s))
    BY <2>4, <2>11, <2>13, <2>14, <2>15
  <2> HIDE DEF s
  <2>17. /\ SeekEntryExists(k - 1) /\ off <= SeekEntrySize(k - 1)
         /\ SeekTarget(k - 1, off) = pos
    BY <2>9, <2>10 DEF i
  <2> QED BY <2>5, <2>16, <2>17
<1> QED BY <1>1, Invariance, PTL

-----------------------------------------------------------------------------
(* The device that programs see *)

\* s with x behind it, and without its first element if it was full.
Dropped(s) == IF Len(s) < Slots THEN 0 ELSE 1

Pushed(s, x) == IF Len(s) < Slots THEN Append(s, x) ELSE Append(Tail(s), x)

\* Which elements it has.
LEMMA PushedElements ==
    ASSUME NEW S, NEW s \in Seq(S), NEW x \in S
    PROVE  /\ Pushed(s, x) \in Seq(S)
           /\ Len(Pushed(s, x)) = Len(s) - Dropped(s) + 1
           /\ Len(s) - Dropped(s) \in Nat
           /\ \A m \in 1..Len(s) - Dropped(s) :
                m + Dropped(s) \in 1..Len(s) /\ Pushed(s, x)[m] = s[m + Dropped(s)]
           /\ Pushed(s, x)[Len(s) - Dropped(s) + 1] = x
<1>1. Len(s) \in Nat /\ Slots \in Nat \ {0}
  BY LenProperties, SlotsAssumption
<1>2. CASE Len(s) < Slots
  <2>1. Dropped(s) = 0 /\ Pushed(s, x) = Append(s, x)
    BY <1>2 DEF Dropped, Pushed
  <2>2. /\ Append(s, x) \in Seq(S) /\ Len(Append(s, x)) = Len(s) + 1
        /\ \A m \in 1..Len(s) : Append(s, x)[m] = s[m]
        /\ Append(s, x)[Len(s) + 1] = x
    BY AppendProperties
  <2> QED BY <1>1, <2>1, <2>2
<1>3. CASE ~(Len(s) < Slots)
  <2> DEFINE t == Tail(s)
  <2>1. Dropped(s) = 1 /\ Pushed(s, x) = Append(t, x)
    BY <1>3 DEF Dropped, Pushed
  <2>2. s # <<>>
    BY <1>1, <1>3
  <2>3. t \in Seq(S) /\ Len(t) = Len(s) - 1 /\ \A m \in 1..Len(t) : t[m] = s[m + 1]
    BY <2>2, HeadTailProperties
  <2> HIDE DEF t
  <2>4. /\ Append(t, x) \in Seq(S) /\ Len(Append(t, x)) = Len(t) + 1
        /\ \A m \in 1..Len(t) : Append(t, x)[m] = t[m]
        /\ Append(t, x)[Len(t) + 1] = x
    BY <2>3, AppendProperties
  <2>5. Len(s) - 1 \in Nat /\ \A m \in 1..Len(s)-1 : m + 1 \in 1..Len(s)
    BY <1>1, <1>3
  <2> QED BY <2>1, <2>3, <2>4, <2>5
<1> QED BY <1>2, <1>3

\* What the log is made of.
LogHeld ==
    /\ Ring!LogOf \in Seq(Command) /\ Len(Ring!LogOf) = Ring!Count
    /\ Ring!Count \in 0..Slots
    /\ \A m \in 1..Ring!Count :
         /\ \E k \in 0..Slots-1 : Ring!LogOf[m] = entry[k] /\ entry[k].buffptr # NULL
         /\ Ring!LogOf[m].buffptr \in Block
         /\ heap[Ring!LogOf[m].buffptr] # Unused
    /\ Commands \in Seq(Seq(Byte)) /\ Len(Commands) = Ring!Count
    /\ \A m \in 1..Ring!Count : Commands[m] = heap[Ring!LogOf[m].buffptr]

\* Every command of the log is a slot with memory of its own.
LEMMA LogIsHeld == DeviceInv /\ loaded => LogHeld
<1> SUFFICES ASSUME DeviceInv, loaded PROVE LogHeld
  OBVIOUS
<1>1. Ring!Count \in 0..Slots /\ Ring!Count \in Nat
  BY LogSlots, SlotsAssumption
<1>2. /\ Ring!LogOf = [m \in 1..Ring!Count |-> entry[Ring!Slot(m - 1)]]
      /\ Len(Ring!LogOf) = Ring!Count
  BY <1>1 DEF Ring!LogOf
<1>3. ASSUME NEW m \in 1..Ring!Count
      PROVE  /\ Ring!LogOf[m] = entry[Ring!Slot(m - 1)]
             /\ Ring!Slot(m - 1) \in 0..Slots-1
             /\ entry[Ring!Slot(m - 1)].buffptr \in Block
             /\ heap[entry[Ring!Slot(m - 1)].buffptr] \in Seq(Byte)
  <2>1. m - 1 \in 0..Ring!Count-1
    BY <1>1
  <2> QED BY <1>2, <2>1, LogSlots
<1>4. ASSUME NEW m \in 1..Ring!Count
      PROVE  entry[Ring!Slot(m - 1)] \in Command /\ entry[Ring!Slot(m - 1)].buffptr # NULL
  BY <1>3, DeviceFacts DEF Ring!Free
<1>5. Ring!LogOf \in Seq(Command)
  BY <1>1, <1>2, <1>4, IsASeq
<1>6. /\ Commands \in Seq(Seq(Byte)) /\ Len(Commands) = Ring!Count
  BY LogLayout DEF LogIsCommands
<1>7. \A m \in 1..Ring!Count : Commands[m] = heap[Ring!LogOf[m].buffptr]
  BY <1>2 DEF Commands
<1> QED BY <1>1, <1>2, <1>3, <1>4, <1>5, <1>6, <1>7, NamesAssumption DEF LogHeld

\* The commands after a step are those before it with line behind them.
CommandsPush(line) == Commands' = Pushed(Commands, line)

\* A complete line becomes the newest command, and nothing else happens to the
\* log except that the oldest command may make room.
LEMMA AddCommandPushes ==
    ASSUME DeviceInv, loaded, loaded', NEW data \in Seq(Byte),
           EndsLine(data), Len(data) > 0,
           NEW b \in Block, heap[b] = Unused \/ b = working_entry.buffptr,
           \A k \in 0..Slots-1 : entry[k].buffptr # b,
           NEW h, IsGrown(h, b, data), CollectedSize + Len(data) <= MaxCommand,
           AddCommand(b, CollectedSize + Len(data), h)
    PROVE  CommandsPush(Collected \o data) /\ Collected' = <<>>
<1> DEFINE size == CollectedSize + Len(data)
           e == [buffptr |-> b, size |-> size]
           q == entry[in_offs].buffptr
           line == Collected \o data
           L == Ring!LogOf
<1>0. Len(data) \in Nat
  BY LenProperties
<1>1. e \in Command
  <2>1. size \in 1..MaxCommand
    BY <1>0, DeviceFacts, BoundsAssumption
  <2> QED BY <2>1 DEF Command
<1>2. L' = Pushed(L, e) /\ Ring!Replaced = q
  <2>1. Ring!AddEntry(e) /\ RingFits
    BY DEF AddCommand, DeviceInv
  <2> QED BY <1>1, <2>1, AddEntryOnRing DEF Pushed
<1>3. LogHeld /\ LogHeld'
  <2>1. DeviceInv'
    BY AddCommandKeeps
  <2> QED BY <2>1, LogIsHeld, PTL
<1>4. /\ heap' = [x \in Block |-> IF x = q THEN Unused ELSE h[x]]
      /\ working_entry'.buffptr = NULL
  BY <1>2 DEF AddCommand, Ring!Free
<1>5. Collected' = <<>>
  BY <1>4 DEF Collected
<1>6. heap'[b] = line /\ line \in Seq(Byte)
  <2>1. b # q
    BY DeviceFacts
  <2>2. line \in Seq(Byte)
    BY DeviceFacts, ConcatProperties
  <2> QED BY <1>4, <2>1, <2>2 DEF IsGrown
<1>7. e.buffptr = b
  OBVIOUS
<1> HIDE DEF e, line
<1> DEFINE n == Len(L) - Dropped(L)
<1>8. /\ Len(L') = n + 1 /\ n \in Nat /\ L'[n + 1] = e
      /\ \A m \in 1..n : m + Dropped(L) \in 1..Len(L) /\ L'[m] = L[m + Dropped(L)]
  <2>1. L \in Seq(Command)
    BY <1>3 DEF LogHeld
  <2> DEFINE p == Pushed(L, e)
  <2>2. /\ Len(p) = Len(L) - Dropped(L) + 1
        /\ Len(L) - Dropped(L) \in Nat
        /\ \A m \in 1..Len(L) - Dropped(L) :
             m + Dropped(L) \in 1..Len(L) /\ p[m] = L[m + Dropped(L)]
        /\ p[Len(L) - Dropped(L) + 1] = e
    BY <1>1, <2>1, PushedElements
  <2>3. L' = p
    BY <1>2
  <2> HIDE DEF p
  <2> QED BY <2>2, <2>3
<1>9. /\ Len(Commands) = Len(L) /\ Commands \in Seq(Seq(Byte))
      /\ Len(Commands') = n + 1 /\ Commands' \in Seq(Seq(Byte))
      /\ \A m \in 1..n+1 : /\ Commands'[m] = heap'[L'[m].buffptr]
                           /\ heap'[L'[m].buffptr] # Unused
      /\ \A m \in 1..Len(L) : Commands[m] = heap[L[m].buffptr]
  BY <1>3, <1>8 DEF LogHeld
<1>10. /\ Pushed(Commands, line) \in Seq(Seq(Byte)) /\ Len(Pushed(Commands, line)) = n + 1
       /\ Pushed(Commands, line)[n + 1] = line
       /\ \A m \in 1..n : Pushed(Commands, line)[m] = Commands[m + Dropped(L)]
  <2>1. Dropped(Commands) = Dropped(L)
    BY <1>9 DEF Dropped
  <2> DEFINE d == Dropped(Commands)
             p == Pushed(Commands, line)
  <2>2. /\ p \in Seq(Seq(Byte))
        /\ Len(p) = Len(Commands) - d + 1
        /\ \A m \in 1..Len(Commands) - d : p[m] = Commands[m + d]
        /\ p[Len(Commands) - d + 1] = line
    <3>1. Commands \in Seq(Seq(Byte)) /\ line \in Seq(Byte)
      BY <1>6, <1>9
    <3> QED BY <3>1, PushedElements
  <2>3. Len(Commands) - d = n
    BY <1>9, <2>1
  <2> HIDE DEF d, p, n
  <2>4. d = Dropped(L)
    BY <2>1 DEF d
  <2>5. /\ Len(p) = n + 1 /\ p[n + 1] = line
        /\ \A m \in 1..n : p[m] = Commands[m + d]
    BY <2>2, <2>3
  <2> QED BY <2>2, <2>4, <2>5 DEF p
<1> HIDE DEF n
<1>11. ASSUME NEW m \in 1..n+1 PROVE Commands'[m] = Pushed(Commands, line)[m]
  <2>1. CASE m = n + 1
    BY <1>6, <1>7, <1>8, <1>9, <1>10, <2>1
  <2>2. CASE m \in 1..n
    <3> DEFINE j == m + Dropped(L)
    <3>1. j \in 1..Len(L) /\ L'[m] = L[j]
      BY <1>8, <2>2
    <3> HIDE DEF j
    <3>2. PICK k \in 0..Slots-1 : L[j] = entry[k] /\ entry[k].buffptr # NULL
      BY <1>3, <3>1 DEF LogHeld
    <3> DEFINE p == L[j].buffptr
    <3>3. p \in Block /\ p # b /\ p # working_entry.buffptr
      BY <1>3, <3>1, <3>2 DEF LogHeld, DeviceInv, NoDanglingPointer
    <3>4. heap'[p] # Unused
      BY <1>9, <3>1
    <3>5. heap'[p] = h[p]
      BY <1>4, <3>3, <3>4
    <3>6. heap'[p] = heap[p]
      BY <3>3, <3>5 DEF IsGrown
    <3>7. Commands'[m] = Commands[j]
      BY <1>9, <3>1, <3>6
    <3> QED BY <1>10, <2>2, <3>7 DEF j
  <2> QED BY <1>8, <2>1, <2>2
<1>12. Commands' = Pushed(Commands, line)
  BY <1>8, <1>9, <1>10, <1>11, SeqEqual
<1> QED BY <1>5, <1>12 DEF CommandsPush, line

\* A step that keeps what the slots hold keeps the commands.
LEMMA KeptCommands ==
    ASSUME DeviceInv, loaded, SlotsKept
    PROVE  Commands' = Commands
<1>1. entry' = entry /\ in_offs' = in_offs /\ out_offs' = out_offs /\ full' = full
  BY DEF SlotsKept, buffer
<1>2. Ring!LogOf' = Ring!LogOf
  BY <1>1 DEF Ring!LogOf, Ring!Count, Ring!Slot
<1>3. \A m \in 1..Ring!Count : heap'[Ring!LogOf[m].buffptr] = heap[Ring!LogOf[m].buffptr]
  BY LogIsHeld DEF LogHeld, SlotsKept
<1>4. Len(Ring!LogOf) = Ring!Count
  BY LogIsHeld DEF LogHeld
<1> QED BY <1>2, <1>3, <1>4 DEF Commands

\* The two modules split a write in the same way.
LEMMA SameWrites ==
    /\ \A data : Device!HasNewline(data) <=> HasNewline(data)
    /\ \A data : Device!Taken(data) = Taken(data)
<1>1. \A data : Device!HasNewline(data) <=> HasNewline(data)
  BY DEF Device!HasNewline, HasNewline, Device!ToSet, ToSet
<1>2. \A data : Device!SelectInSeq(data, LAMBDA b : b = Newline)
                  = SelectInSeq(data, LAMBDA b : b = Newline)
  BY DEF Device!SelectInSeq, SelectInSeq, Device!Min, Min
<1> QED BY <1>1, <1>2 DEF Device!Taken, Taken

\* What programs see of the device stays as it is.
ViewKept == UNCHANGED Device!vars

\* A step of the device.
DeviceStep == Device!Next \/ ViewKept

\* Nothing to see but the commands, what is collected and the lock.
LEMMA SameView ==
    ASSUME loaded, loaded', Commands' = Commands, Collected' = Collected,
           dev_mutex' = dev_mutex
    PROVE  ViewKept
  BY DEF ViewKept, Device!vars

\* Steps that are not about the device.
LEMMA KeptView ==
    ASSUME DeviceKept, dev_mutex' = dev_mutex
    PROVE  ViewKept
<1>1. /\ entry' = entry /\ in_offs' = in_offs /\ out_offs' = out_offs
      /\ full' = full /\ working_entry' = working_entry /\ heap' = heap
      /\ loaded' = loaded
  BY DEF DeviceKept, buffer
<1>2. Commands' = Commands
  BY <1>1 DEF Commands, Ring!LogOf, Ring!Count, Ring!Slot
<1>3. Collected' = Collected
  BY <1>1 DEF Collected
<1> QED BY <1>1, <1>2, <1>3 DEF ViewKept, Device!vars

\* A write: the device takes the line, or the part of one.
LEMMA WriteIsStep ==
    ASSUME Inv, NEW t \in Thread, Write(t)
    PROVE  Device!Next
<1> DEFINE data == call[t].data
           size == CollectedSize + Len(Taken(data))
<1>1. /\ DeviceInv /\ loaded /\ data \in Chunk /\ dev_mutex = Nobody
      /\ loaded' /\ dev_mutex' = dev_mutex
  <2>1. call[t].op = "write" /\ CallInv
    BY DEF Write, Inv
  <2> QED BY <2>1, CallFacts DEF Write, Inv
<1>2. PICK kbuff \in Spare : \E b \in Places(kbuff) :
        /\ size <= MaxCommand
        /\ IF HasNewline(data) THEN AddCommand(b, size, Grow(b, Taken(data)))
                               ELSE KeepPartial(b, size, Grow(b, Taken(data)))
  BY Zenon DEF Write
<1>3. PICK b \in Places(kbuff) :
        /\ size <= MaxCommand
        /\ IF HasNewline(data) THEN AddCommand(b, size, Grow(b, Taken(data)))
                               ELSE KeepPartial(b, size, Grow(b, Taken(data)))
  BY <1>2
<1>4. /\ Taken(data) \in Seq(Byte)
      /\ HasNewline(data) => EndsLine(Taken(data)) /\ Len(Taken(data)) > 0
      /\ ~HasNewline(data) => Taken(data) = data
  BY <1>1, TakenProperties
<1> HIDE DEF data
<1>5. /\ b \in Block /\ (heap[b] = Unused \/ b = working_entry.buffptr)
      /\ \A k \in 0..Slots-1 : entry[k].buffptr # b
      /\ IsGrown(Grow(b, Taken(data)), b, Taken(data))
  BY <1>1, <1>3, <1>4, GrowEffect
<1>6. CASE HasNewline(data)
  <2>1. CommandsPush(Collected \o Taken(data)) /\ Collected' = <<>>
    BY <1>1, <1>3, <1>4, <1>5, <1>6, AddCommandPushes
  <2>2. Device!WriteLine(data)
    BY <1>1, <1>6, <2>1, SameWrites
       DEF Device!WriteLine, Device!Log!Push, CommandsPush, Pushed
  <2> QED BY <1>1, <2>2 DEF Device!Next
<1>7. CASE ~HasNewline(data)
  <2>1. SlotsKept /\ Collected' = Collected \o data
    BY <1>1, <1>3, <1>4, <1>5, <1>7, KeepPartialKeeps
  <2>2. Commands' = Commands
    BY <1>1, <2>1, KeptCommands
  <2>3. Device!WritePart(data)
    BY <1>1, <1>7, <2>1, <2>2, SameWrites DEF Device!WritePart
  <2> QED BY <1>1, <2>3 DEF Device!Next
<1> QED BY <1>6, <1>7

\* A write that fails loses at most what was collected.
LEMMA FailedWriteIsStep ==
    ASSUME Inv, NEW t \in Thread,
           WriteFault(t) \/ WriteNoGrowth(t) \/ WriteNoEntry(t)
    PROVE  DeviceStep
<1>1. /\ DeviceInv /\ loaded /\ dev_mutex = Nobody /\ loaded' /\ dev_mutex' = dev_mutex
      /\ LeakKbuff /\ UNCHANGED buffer /\ entry' = entry
  <2>1. call[t].op = "write" /\ CallInv
    BY DEF WriteFault, WriteNoGrowth, WriteNoEntry, Inv
  <2>2. loaded
    BY <2>1, CallFacts
  <2> QED BY <2>2 DEF WriteFault, WriteNoGrowth, WriteNoEntry, dev, buffer, Inv
<1>2. SlotsKept /\ \A x \in Block : heap[x] # Unused => heap'[x] = heap[x]
  BY <1>1, LeakKeepsSlots
<1>3. Commands' = Commands
  BY <1>1, <1>2, KeptCommands
<1>4. CASE WriteFault(t)
  <2>1. UNCHANGED working_entry
    BY <1>4 DEF WriteFault, dev
  <2>2. Collected' = Collected
    BY <1>1, <1>2, <2>1, WorkingKept
  <2> QED BY <1>1, <1>3, <2>2, SameView DEF DeviceStep
<1>5. CASE WriteNoGrowth(t) \/ WriteNoEntry(t)
  <2>1. working_entry'.buffptr = NULL
    BY <1>1, <1>5 DEF WriteNoGrowth, WriteNoEntry, DeviceInv, DeviceTypes
  <2>2. Collected' = <<>>
    BY <2>1 DEF Collected
  <2>3. Device!LosePartial
    BY <1>1, <1>3, <2>2 DEF Device!LosePartial
  <2> QED BY <2>3 DEF DeviceStep, Device!Next
<1> QED BY <1>4, <1>5

\* The seek that fails keeps the lock.
LEMMA FailedSeekIsStep ==
    ASSUME Inv, NEW t \in Thread, NEW f \in File, NEW cmd, NEW off,
           SeekToFails(t, f, cmd, off)
    PROVE  Device!Next
<1>1. /\ loaded /\ loaded' = loaded /\ dev_mutex = Nobody /\ dev_mutex' # Nobody
      /\ UNCHANGED <<buffer, working_entry, heap>>
  BY NamesAssumption DEF SeekToFails, Inv, CallInv, CallsAreOpen
<1>2. /\ entry' = entry /\ in_offs' = in_offs /\ out_offs' = out_offs
      /\ full' = full /\ working_entry' = working_entry /\ heap' = heap
  BY <1>1 DEF buffer
<1>3. Commands' = Commands
  BY <1>2 DEF Commands, Ring!LogOf, Ring!Count, Ring!Slot
<1>4. Collected' = Collected
  BY <1>2 DEF Collected
<1>5. Device!FailSeek
  BY <1>1, <1>3, <1>4 DEF Device!FailSeek
<1> QED BY <1>5 DEF Device!Next

\* Loading and unloading leave nothing to see.
LEMMA ModuleIsReset ==
    ASSUME Inv, Load \/ Unload
    PROVE  Device!Next
<1>1. CASE Load
  <2>1. LogIsEmpty' /\ Collected' = <<>>
    BY <1>1, LoadKeeps DEF Inv
  <2>2. Commands' = <<>>
    BY <2>1 DEF LogIsEmpty, Commands
  <2>3. Device!Reset
    BY <1>1, <2>1, <2>2 DEF Device!Reset, Load
  <2> QED BY <2>3 DEF Device!Next
<1>2. CASE Unload
  <2>1. Device!Reset
    BY <1>2 DEF Device!Reset, Unload
  <2> QED BY <2>1 DEF Device!Next
<1> QED BY <1>1, <1>2

\* Each step of the driver is a step of the device or keeps what is seen of it.
LEMMA StepIsDeviceStep == Inv /\ [Next]_vars => DeviceStep
<1> SUFFICES ASSUME Inv, [Next]_vars PROVE DeviceStep
  OBVIOUS
<1>1. ASSUME DeviceKept, dev_mutex' = dev_mutex PROVE DeviceStep
  BY <1>1, KeptView DEF DeviceStep
<1>2. CASE UNCHANGED vars
  <2>1. DeviceKept /\ dev_mutex' = dev_mutex
    BY <1>2 DEF vars, dev, DeviceKept
  <2> QED BY <1>1, <2>1
<1>3. CASE Module
  <2>1. CASE Load \/ Unload
    BY <2>1, ModuleIsReset DEF DeviceStep
  <2>2. ASSUME NEW f \in File, Open(f) \/ Release(f) PROVE DeviceStep
    <3>1. DeviceKept /\ dev_mutex' = dev_mutex
      BY <2>2 DEF Open, Release, DeviceKept, dev
    <3> QED BY <1>1, <3>1
  <2> QED BY <1>3, <2>1, <2>2 DEF Module
<1>4. ASSUME NEW t \in Thread,
             \/ ReadCall(t) \/ WriteNoMemory(t) \/ VfsReturn(t) \/ Interrupted(t)
             \/ \E f \in File, data \in Chunk : BeginWrite(t, f, data)
      PROVE  DeviceStep
  <2>1. DeviceKept
    BY <1>4, VfsStepKeeps
  <2>2. dev_mutex' = dev_mutex
    BY <1>4 DEF ReadCall, BeginRead, Read, ReadFault, WriteNoMemory, VfsReturn,
                Interrupted, BeginWrite, dev
  <2> QED BY <1>1, <2>1, <2>2
<1>5. ASSUME NEW t \in Thread, SeekCall(t) \/ SeekStore(t) PROVE DeviceStep
  <2>1. DeviceKept
    BY <1>5, SeekStepKeeps
  <2>2. dev_mutex' = dev_mutex
    BY <1>5 DEF SeekCall, SeekSet, SeekCur, SeekEnd, Seek, SeekStore, dev
  <2> QED BY <1>1, <2>1, <2>2
<1>6. ASSUME NEW t \in Thread, IoctlCall(t) PROVE DeviceStep
  <2>1. PICK f \in File, cmd \in 0..Slots, off \in 0..MaxCommand :
          SeekTo(t, f, cmd, off) \/ SeekToFails(t, f, cmd, off)
    BY <1>6 DEF IoctlCall
  <2>2. CASE SeekTo(t, f, cmd, off)
    <3>1. DeviceKept /\ dev_mutex' = dev_mutex
      BY <2>2 DEF SeekTo, DeviceKept, dev
    <3> QED BY <1>1, <3>1
  <2>3. CASE SeekToFails(t, f, cmd, off)
    BY <2>3, FailedSeekIsStep DEF DeviceStep
  <2> QED BY <2>1, <2>2, <2>3
<1>7. ASSUME NEW t \in Thread,
             Write(t) \/ WriteFault(t) \/ WriteNoGrowth(t) \/ WriteNoEntry(t)
      PROVE  DeviceStep
  BY <1>7, WriteIsStep, FailedWriteIsStep DEF DeviceStep
<1>8. ASSUME NEW t \in Thread, WriteCall(t) PROVE DeviceStep
  BY <1>4, <1>7, <1>8 DEF WriteCall
<1> QED BY <1>2, <1>3, <1>4, <1>5, <1>6, <1>8 DEF Next

(***************************************************************************)
(* The driver implements the device of AesdDevice, which is all that       *)
(* AesdSocket knows of it: a completed write appends one whole line, a     *)
(* write that fails loses no more than an unfinished line, and no other    *)
(* call, however it interleaves, changes what programs see.                *)
(***************************************************************************)
THEOREM DriverIsDevice == Spec => ImplementsDevice
<1>1. Init => Device!Init
  BY DEF Init, Device!Init
<1>2. Inv /\ [Next]_vars => [Device!Next]_(Device!vars)
  BY StepIsDeviceStep DEF DeviceStep, ViewKept
<1> QED BY <1>1, <1>2, Invariance, PTL DEF Spec, ImplementsDevice, Device!Spec
=============================================================================
