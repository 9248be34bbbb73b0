---------------------- MODULE AesdCircularBufferProofs ----------------------
(***************************************************************************)
(* The buffer is correct for every number of slots, every set of entries   *)
(* and every sequence of calls: its offsets are consistent, add_entry      *)
(* returns what it overwrites, and it implements a bounded log.            *)
(***************************************************************************)
EXTENDS AesdCircularBuffer, SumLemmas

-----------------------------------------------------------------------------
(* Indices and offsets never make more than one lap of the array *)

\* The slot of each index, while the indices stay within one lap.
LEMMA SlotValue ==
    ASSUME TypeOK, NEW i \in 0..Slots-1
    PROVE  /\ Slot(i) = IF i + out_offs < Slots THEN i + out_offs
                                                ELSE i + out_offs - Slots
           /\ Slot(i) \in 0..Slots-1
<1>1. /\ out_offs \in 0..Slots-1
      /\ i + out_offs \in 0..2*Slots-1
  BY SlotsAssumption DEF TypeOK
<1>2. (i + out_offs) % Slots = IF i + out_offs < Slots THEN i + out_offs
                                                       ELSE i + out_offs - Slots
  BY <1>1, SlotsAssumption
<1> QED BY <1>1, <1>2, SlotsAssumption DEF Slot

\* A full buffer uses every slot; another one uses those below in_offs.
OffsetsAligned == (full => in_offs = out_offs) /\ (~full => out_offs = 0)

LiveIsPrefix == /\ full => Live = 0..Slots-1
                /\ ~full => Live = 0..in_offs-1

\* The slots that hold a command are the first ones of the array.
LEMMA LiveSlots == TypeOK /\ OffsetsAligned => LiveIsPrefix
<1> SUFFICES ASSUME TypeOK, OffsetsAligned PROVE LiveIsPrefix
  OBVIOUS
<1> USE DEF OffsetsAligned, LiveIsPrefix
<1>1. CASE full
  <2>1. Live \subseteq 0..Slots-1
    BY <1>1, SlotValue DEF Live, Count
  <2>2. ASSUME NEW k \in 0..Slots-1 PROVE k \in Live
    <3>1. CASE k >= out_offs
      <4>1. k - out_offs \in 0..Slots-1 /\ out_offs \in 0..Slots-1
        BY <3>1, SlotsAssumption DEF TypeOK
      <4>2. Slot(k - out_offs) = k
        BY <4>1, SlotsAssumption DEF Slot
      <4> QED BY <4>1, <4>2, <1>1 DEF Live, Count
    <3>2. CASE k < out_offs
      <4>1. k - out_offs + Slots \in 0..Slots-1 /\ out_offs \in 0..Slots-1
        BY <3>2, SlotsAssumption DEF TypeOK
      <4>2. Slot(k - out_offs + Slots) = k
        BY <4>1, SlotsAssumption DEF Slot
      <4> QED BY <4>1, <4>2, <1>1 DEF Live, Count
    <3> QED BY <3>1, <3>2, SlotsAssumption DEF TypeOK
  <2> QED BY <1>1, <2>1, <2>2
<1>2. CASE ~full
  <2>1. \A i \in 0..Slots-1 : Slot(i) = i
    BY <1>2, SlotValue, SlotsAssumption DEF TypeOK
  <2> QED BY <1>2, <2>1, SlotsAssumption DEF Live, Count, TypeOK
<1> QED BY <1>1, <1>2

-----------------------------------------------------------------------------
(* The inductive invariant: OffsetsConsistent with the types it is read in *)

IndInv == TypeOK /\ OffsetsConsistent

\* aesd_circular_buffer_init establishes the invariant.
LEMMA InitIndInv == Init => IndInv
<1> SUFFICES ASSUME Init PROVE IndInv
  OBVIOUS
<1>1. TypeOK
  <2>1. 0 \in 0..Slots-1
    BY SlotsAssumption
  <2>2. [i \in 0..Slots-1 |-> Free] \in [0..Slots-1 -> Entry \cup {Free}]
    OBVIOUS
  <2> QED BY <2>1, <2>2 DEF Init, TypeOK
<1>2. OffsetsAligned
  BY DEF Init, OffsetsAligned
<1>3. Live = {}
  BY <1>1, <1>2, LiveSlots DEF Init, LiveIsPrefix
<1>4. \A k \in 0..Slots-1 : entry[k].buffptr = NULL
  BY DEF Init, Free
<1> QED BY <1>1, <1>2, <1>3, <1>4 DEF IndInv, OffsetsConsistent, OffsetsAligned

\* add_entry in terms of the buffer before it, without the modulus.
LEMMA AddEntryEffect ==
    ASSUME IndInv, NEW e \in Entry, AddEntry(e)
    PROVE  /\ in_offs + 1 < Slots => in_offs' = in_offs + 1
           /\ in_offs + 1 = Slots => in_offs' = 0
           /\ full => out_offs' = in_offs'
           /\ ~full => out_offs' = 0
           /\ full' \in BOOLEAN
           /\ full \/ in_offs + 1 = Slots => full'
           /\ ~full /\ in_offs + 1 < Slots => ~full'
           /\ entry' = [entry EXCEPT ![in_offs] = e]
<1>1. in_offs \in 0..Slots-1
  BY DEF IndInv, TypeOK
<1>2. /\ in_offs + 1 < Slots => in_offs' = in_offs + 1
      /\ in_offs + 1 = Slots => in_offs' = 0
  BY <1>1, SlotsAssumption DEF AddEntry
<1>3. full => in_offs' = out_offs'
  BY DEF IndInv, OffsetsConsistent, AddEntry
<1>4. ~full => out_offs' = 0
  BY DEF IndInv, OffsetsConsistent, AddEntry
<1>5. /\ full' \in BOOLEAN
      /\ full \/ in_offs + 1 = Slots => full'
      /\ ~full /\ in_offs + 1 < Slots => ~full'
  <2>1. full' <=> full \/ in_offs' = out_offs'
    BY DEF AddEntry
  <2>2. full' \in BOOLEAN
    BY DEF AddEntry
  <2> QED BY <2>1, <2>2, <1>1, <1>2, <1>4, SlotsAssumption
<1> QED BY <1>2, <1>3, <1>4, <1>5 DEF AddEntry

\* add_entry keeps the offsets inside the array.
LEMMA AddEntryType ==
    ASSUME IndInv, NEW e \in Entry, AddEntry(e)
    PROVE  TypeOK'
<1>1. /\ in_offs \in 0..Slots-1
      /\ entry \in [0..Slots-1 -> Entry \cup {Free}]
      /\ full \in BOOLEAN
      /\ Slots \in Nat \ {0}
  BY SlotsAssumption DEF IndInv, TypeOK
<1>2. in_offs' \in 0..Slots-1 /\ out_offs' \in 0..Slots-1
  BY <1>1, AddEntryEffect
<1>3. full' \in BOOLEAN
  BY <1>1, AddEntryEffect
<1>4. entry' \in [0..Slots-1 -> Entry \cup {Free}]
  BY <1>1, AddEntryEffect
<1> QED BY <1>2, <1>3, <1>4 DEF TypeOK

\* add_entry keeps the offsets, the flag and the occupied slots in agreement.
LEMMA AddEntryOffsets ==
    ASSUME IndInv, NEW e \in Entry, AddEntry(e)
    PROVE  OffsetsConsistent'
<1>1. /\ in_offs \in 0..Slots-1
      /\ entry \in [0..Slots-1 -> Entry \cup {Free}]
      /\ Slots \in Nat \ {0}
  BY SlotsAssumption DEF IndInv, TypeOK
<1>2. OffsetsAligned'
  BY <1>1, AddEntryEffect DEF OffsetsAligned
<1>3. LiveIsPrefix'
  <2>1. TypeOK'
    BY AddEntryType
  <2> QED BY <1>2, <2>1, LiveSlots, PTL
<1>4. LiveIsPrefix
  BY LiveSlots DEF IndInv, OffsetsConsistent, OffsetsAligned
<1>5. Live' = Live \cup {in_offs}
  <2> USE DEF LiveIsPrefix
  <2>1. CASE full
    <3>1. full'
      BY <2>1, AddEntryEffect
    <3> QED BY <2>1, <3>1, <1>1, <1>3, <1>4
  <2>2. CASE ~full /\ in_offs + 1 = Slots
    <3>1. full'
      BY <2>2, AddEntryEffect
    <3> QED BY <2>2, <3>1, <1>1, <1>3, <1>4
  <2>3. CASE ~full /\ in_offs + 1 < Slots
    <3>1. ~full' /\ in_offs' = in_offs + 1
      BY <2>3, <1>1, AddEntryEffect
    <3> QED BY <2>3, <3>1, <1>1, <1>3, <1>4
  <2> QED BY <2>1, <2>2, <2>3, <1>1
<1>6. ASSUME NEW k \in 0..Slots-1
      PROVE  entry'[k].buffptr # NULL <=> k \in Live'
  <2>1. CASE k = in_offs
    BY <2>1, <1>5, AddEntryEffect, EntryAssumption DEF IndInv, TypeOK
  <2>2. CASE k # in_offs
    BY <2>2, <1>5, AddEntryEffect DEF IndInv, TypeOK, OffsetsConsistent
  <2> QED BY <2>1, <2>2
<1> QED BY <1>2, <1>6 DEF OffsetsConsistent, OffsetsAligned

\* No call of add_entry breaks the invariant.
LEMMA NextIndInv == IndInv /\ [Next]_vars => IndInv'
<1> SUFFICES ASSUME IndInv, [Next]_vars PROVE IndInv'
  OBVIOUS
<1>1. ASSUME NEW e \in Entry, AddEntry(e) PROVE IndInv'
  BY <1>1, AddEntryType, AddEntryOffsets DEF IndInv
<1>2. CASE UNCHANGED vars
  BY <1>2 DEF vars, IndInv, TypeOK, OffsetsConsistent, Live, Slot, Count
<1> QED BY <1>1, <1>2 DEF Next

-----------------------------------------------------------------------------
(* What holds of every behaviour *)

\* The offsets never leave the array and every slot holds an entry that was
\* added, or nothing.
THEOREM TypeCorrect == Spec => []TypeOK
<1>1. IndInv => TypeOK
  BY DEF IndInv
<1> QED BY <1>1, InitIndInv, NextIndInv, PTL DEF Spec

\* The offsets, the flag and the occupied slots always agree.
THEOREM OffsetsAgree == Spec => []OffsetsConsistent
<1>1. IndInv => OffsetsConsistent
  BY DEF IndInv
<1> QED BY <1>1, InitIndInv, NextIndInv, PTL DEF Spec

\* What add_entry returns is what is in the slot that it overwrites.
LEMMA ReturnsOverwritten == IndInv => OverwrittenIsReturned
<1> SUFFICES ASSUME IndInv PROVE OverwrittenIsReturned
  OBVIOUS
<1>1. in_offs \in Live <=> full
  <2>1. in_offs \in 0..Slots-1 /\ Slots \in Nat
    BY SlotsAssumption DEF IndInv, TypeOK
  <2>2. LiveIsPrefix
    BY LiveSlots DEF IndInv, OffsetsConsistent, OffsetsAligned
  <2> QED BY <2>1, <2>2 DEF LiveIsPrefix
<1>2. entry[in_offs].buffptr # NULL <=> full
  BY <1>1 DEF IndInv, OffsetsConsistent, TypeOK
<1> QED BY <1>2 DEF OverwrittenIsReturned, Replaced, IndInv, OffsetsConsistent

\* add_entry always returns the pointer it overwrites.
THEOREM NothingLost == Spec => []OverwrittenIsReturned
  BY ReturnsOverwritten, InitIndInv, NextIndInv, PTL DEF Spec

-----------------------------------------------------------------------------
(* The buffer implements the bounded log *)

\* The log is a sequence of entries, one for each index.
LogIsEntries ==
    /\ Count \in 0..Slots
    /\ full => Count = Slots
    /\ ~full => Count = in_offs
    /\ LogOf \in [1..Count -> Entry \cup {Free}]
    /\ \A k \in 1..Count :
         /\ k - 1 + out_offs < Slots => LogOf[k] = entry[k - 1 + out_offs]
         /\ k - 1 + out_offs >= Slots => LogOf[k] = entry[k - 1 + out_offs - Slots]

\* What each element of the log is, without the modulus.
LEMMA LogOfValue == IndInv => LogIsEntries
<1> SUFFICES ASSUME IndInv PROVE LogIsEntries
  OBVIOUS
<1>1. Count \in 0..Slots /\ Count = IF full THEN Slots ELSE in_offs
  BY SlotsAssumption DEF IndInv, TypeOK, OffsetsConsistent, Count
<1>2. ASSUME NEW k \in 1..Count
      PROVE  /\ k - 1 \in 0..Slots-1
             /\ entry[Slot(k-1)] \in Entry \cup {Free}
  <2>1. k - 1 \in 0..Slots-1
    BY <1>1
  <2> QED BY <2>1, SlotValue DEF IndInv, TypeOK
<1>3. LogOf \in [1..Count -> Entry \cup {Free}]
  BY <1>2 DEF LogOf
<1>4. ASSUME NEW k \in 1..Count
      PROVE  /\ k - 1 + out_offs < Slots => LogOf[k] = entry[k - 1 + out_offs]
             /\ k - 1 + out_offs >= Slots
                  => LogOf[k] = entry[k - 1 + out_offs - Slots]
  <2>1. LogOf[k] = entry[Slot(k-1)]
    BY DEF LogOf
  <2>2. out_offs \in 0..Slots-1 /\ k \in Int
    BY <1>1 DEF IndInv, TypeOK
  <2>3. Slot(k-1) = IF k - 1 + out_offs < Slots THEN k - 1 + out_offs
                                               ELSE k - 1 + out_offs - Slots
    BY <1>2, SlotValue DEF IndInv
  <2> QED BY <2>1, <2>2, <2>3, SlotsAssumption
<1> QED BY <1>1, <1>3, <1>4 DEF LogIsEntries

\* One add_entry is one push.
LEMMA AddEntryPushes ==
    ASSUME IndInv, IndInv', NEW e \in Entry, AddEntry(e)
    PROVE  Log!Push(e)
<1> DEFINE pushed == IF Len(LogOf) < Slots THEN Append(LogOf, e)
                                           ELSE Append(Tail(LogOf), e)
<1>1. /\ in_offs \in 0..Slots-1
      /\ out_offs \in 0..Slots-1
      /\ entry \in [0..Slots-1 -> Entry \cup {Free}]
      /\ Slots \in Nat \ {0}
  BY SlotsAssumption DEF IndInv, TypeOK
<1>2. LogIsEntries /\ LogIsEntries'
  BY LogOfValue, PTL
<1>3. /\ full' => Count' = Slots
      /\ ~full' => Count' = in_offs'
  BY <1>2 DEF LogIsEntries
<1>4. ASSUME NEW k \in 1..Count'
      PROVE  /\ k - 1 + out_offs' < Slots => LogOf'[k] = entry'[k - 1 + out_offs']
             /\ k - 1 + out_offs' >= Slots
                  => LogOf'[k] = entry'[k - 1 + out_offs' - Slots]
  BY <1>2 DEF LogIsEntries
<1>5. /\ in_offs + 1 < Slots => in_offs' = in_offs + 1
      /\ in_offs + 1 = Slots => in_offs' = 0
      /\ full => out_offs' = in_offs'
      /\ ~full => out_offs' = 0
      /\ full \/ in_offs + 1 = Slots => full'
      /\ ~full /\ in_offs + 1 < Slots => ~full'
      /\ entry' = [entry EXCEPT ![in_offs] = e]
  BY AddEntryEffect
<1>6. CASE ~full
  <2>1. /\ Count = in_offs
        /\ out_offs = 0
        /\ LogOf \in [1..in_offs -> Entry \cup {Free}]
        /\ \A k \in 1..in_offs : LogOf[k] = entry[k - 1]
    BY <1>1, <1>6, <1>2 DEF IndInv, OffsetsConsistent, LogIsEntries
  <2>2. LogOf \in Seq(Entry \cup {Free}) /\ Len(LogOf) = in_offs
    BY <2>1, <1>1
  <2>3. Count' = in_offs + 1 /\ out_offs' = 0
    BY <1>1, <1>3, <1>6, <1>5
  <2>4. pushed = Append(LogOf, e)
    BY <2>2, <1>1
  <2>5. /\ pushed \in [1..in_offs+1 -> Entry \cup {Free}]
        /\ pushed[in_offs+1] = e
        /\ \A k \in 1..in_offs : pushed[k] = LogOf[k]
    <3> HIDE DEF pushed
    <3>1. pushed \in Seq(Entry \cup {Free}) /\ Len(pushed) = in_offs + 1
      BY <2>2, <2>4, <1>1
    <3>2. \A k \in 1..in_offs+1 :
            pushed[k] = IF k <= in_offs THEN LogOf[k] ELSE e
      BY <2>2, <2>4, <1>1
    <3> QED BY <3>1, <3>2, <1>1
  <2>6. ASSUME NEW k \in 1..in_offs+1 PROVE LogOf'[k] = pushed[k]
    <3>1. LogOf'[k] = entry'[k-1]
      BY <1>1, <1>4, <2>3
    <3>2. CASE k = in_offs + 1
      BY <3>1, <3>2, <2>5, <1>1, <1>5
    <3>3. CASE k \in 1..in_offs
      <4>1. entry'[k-1] = entry[k-1]
        BY <3>3, <1>1, <1>5
      <4> QED BY <3>1, <3>3, <4>1, <2>1, <2>5
    <3> QED BY <3>2, <3>3, <1>1
  <2>7. LogOf' = pushed
    <3> HIDE DEF pushed
    <3> QED BY <1>2, <2>3, <2>5, <2>6 DEF LogIsEntries
  <2> QED BY <2>7 DEF Log!Push
<1>7. CASE full
  <2>1. /\ Count = Slots
        /\ in_offs = out_offs
        /\ LogOf \in [1..Slots -> Entry \cup {Free}]
    BY <1>7, <1>2 DEF IndInv, OffsetsConsistent, LogIsEntries
  <2>2. LogOf \in Seq(Entry \cup {Free}) /\ Len(LogOf) = Slots
    BY <2>1, <1>1
  <2>3. /\ Count' = Slots
        /\ in_offs + 1 < Slots => out_offs' = in_offs + 1
        /\ in_offs + 1 = Slots => out_offs' = 0
    BY <1>1, <1>3, <1>7, <1>5
  <2>4. pushed = Append(Tail(LogOf), e)
    BY <2>2, <1>1
  <2>5. /\ Tail(LogOf) \in Seq(Entry \cup {Free})
        /\ Len(Tail(LogOf)) = Slots - 1
        /\ \A k \in 1..Slots-1 : Tail(LogOf)[k] = LogOf[k+1]
    BY <2>2, <1>1
  <2>6. /\ pushed \in [1..Slots -> Entry \cup {Free}]
        /\ pushed[Slots] = e
        /\ \A k \in 1..Slots-1 : pushed[k] = LogOf[k+1]
    <3> HIDE DEF pushed
    <3>1. pushed \in Seq(Entry \cup {Free}) /\ Len(pushed) = Slots
      BY <2>4, <2>5, <1>1
    <3>2. pushed[Slots] = e
      BY <2>4, <2>5, <1>1
    <3>3. \A k \in 1..Slots-1 : pushed[k] = Tail(LogOf)[k]
      BY <2>4, <2>5, <1>1
    <3> QED BY <3>1, <3>2, <3>3, <2>5, <1>1
  <2>7. ASSUME NEW k \in 1..Slots PROVE LogOf'[k] = pushed[k]
    <3> /\ k \in 1..Count'
        /\ k \in Int
      BY <2>3, <1>1
    <3>1. CASE k = Slots
      <4>1. LogOf'[k] = entry'[in_offs]
        <5>1. CASE in_offs + 1 < Slots
          <6>1. k - 1 + out_offs' >= Slots /\ k - 1 + out_offs' - Slots = in_offs
            BY <3>1, <5>1, <1>1, <2>3
          <6> QED BY <6>1, <1>4
        <5>2. CASE in_offs + 1 = Slots
          <6>1. k - 1 + out_offs' < Slots /\ k - 1 + out_offs' = in_offs
            BY <3>1, <5>2, <1>1, <2>3
          <6> QED BY <6>1, <1>4
        <5> QED BY <5>1, <5>2, <1>1
      <4> QED BY <3>1, <4>1, <2>6, <1>1, <1>5
    <3>2. CASE k \in 1..Slots-1 /\ k + in_offs < Slots
      <4>1. k - 1 + out_offs' < Slots /\ k - 1 + out_offs' = k + in_offs
        BY <3>2, <1>1, <2>3
      <4>2. LogOf'[k] = entry'[k + in_offs]
        BY <4>1, <1>4
      <4>3. LogOf[k+1] = entry[k + in_offs]
        BY <3>2, <1>1, <2>1, <1>2 DEF LogIsEntries
      <4>4. entry'[k + in_offs] = entry[k + in_offs]
        BY <3>2, <1>1, <1>5
      <4> QED BY <3>2, <4>2, <4>3, <4>4, <2>6
    <3>3. CASE k \in 1..Slots-1 /\ k + in_offs >= Slots
      <4>1. LogOf'[k] = entry'[k + in_offs - Slots]
        <5>1. CASE in_offs + 1 < Slots
          <6>1. k - 1 + out_offs' >= Slots
                /\ k - 1 + out_offs' - Slots = k + in_offs - Slots
            BY <3>3, <5>1, <1>1, <2>3
          <6> QED BY <6>1, <1>4
        <5>2. CASE in_offs + 1 = Slots
          <6>1. k - 1 + out_offs' < Slots
                /\ k - 1 + out_offs' = k + in_offs - Slots
            BY <3>3, <5>2, <1>1, <2>3
          <6> QED BY <6>1, <1>4
        <5> QED BY <5>1, <5>2, <1>1
      <4>2. LogOf[k+1] = entry[k + in_offs - Slots]
        BY <3>3, <1>1, <2>1, <1>2 DEF LogIsEntries
      <4>3. entry'[k + in_offs - Slots] = entry[k + in_offs - Slots]
        BY <3>3, <1>1, <1>5
      <4> QED BY <3>3, <4>1, <4>2, <4>3, <2>6
    <3>4. /\ k = Slots \/ k \in 1..Slots-1
          /\ k + in_offs < Slots \/ k + in_offs >= Slots
      BY <1>1
    <3> QED BY <3>1, <3>2, <3>3, <3>4
  <2>8. LogOf' = pushed
    <3> HIDE DEF pushed
    <3> QED BY <1>2, <2>3, <2>6, <2>7 DEF LogIsEntries
  <2> QED BY <2>8 DEF Log!Push
<1> QED BY <1>1, <1>6, <1>7 DEF IndInv, TypeOK

\* The buffer is the bounded log of the entries added to it.
THEOREM BufferIsLog == Spec => ImplementsLog
<1>1. Init => Log!Init
  <2> SUFFICES ASSUME Init PROVE LogOf = <<>>
    BY DEF Log!Init
  <2>1. Count = 0
    BY DEF Init, Count
  <2> QED BY <2>1 DEF LogOf
<1>2. IndInv /\ IndInv' /\ [Next]_vars => [Log!Next]_LogOf
  <2> SUFFICES ASSUME IndInv, IndInv', [Next]_vars PROVE [Log!Next]_LogOf
    OBVIOUS
  <2>1. ASSUME NEW e \in Entry, AddEntry(e) PROVE Log!Next
    BY <2>1, AddEntryPushes DEF Log!Next
  <2>2. CASE UNCHANGED vars
    BY <2>2 DEF vars, LogOf, Count, Slot
  <2> QED BY <2>1, <2>2 DEF Next
<1> QED BY <1>1, <1>2, InitIndInv, NextIndInv, PTL DEF Spec, ImplementsLog, Log!Spec

-----------------------------------------------------------------------------
(* The offset search finds the byte *)

\* How many bytes lie before the i-th oldest entry, without the wrap.
Before(i) == SumFunctionOnSet(SizesByAge, 0..i-1)

\* Live entries have bytes, the other slots have none.
SizesFit ==
    /\ HasTerms(SizesByAge, Slots)
    /\ \A i \in 0..Slots-1 :
         /\ SizesByAge[i] = entry[Slot(i)].size
         /\ i < Count => SizesByAge[i] >= 1
         /\ i >= Count => SizesByAge[i] = 0
         /\ Slots * SizesByAge[i] <= SIZE_MAX

\* The sizes by age are numbers, and small enough to be added.
LEMMA EntrySizes == IndInv => SizesFit
<1> SUFFICES ASSUME IndInv PROVE SizesFit
  OBVIOUS
<1>1. /\ entry \in [0..Slots-1 -> Entry \cup {Free}]
      /\ in_offs \in 0..Slots-1 /\ Slots \in Nat \ {0}
      /\ Count \in 0..Slots /\ (~full => Count = in_offs /\ out_offs = 0)
      /\ (full => Count = Slots)
  BY SlotsAssumption DEF IndInv, TypeOK, OffsetsConsistent, Count
<1>2. ASSUME NEW i \in 0..Slots-1
      PROVE  /\ SizesByAge[i] = entry[Slot(i)].size
             /\ SizesByAge[i] \in Nat
             /\ i < Count => SizesByAge[i] >= 1
             /\ i >= Count => SizesByAge[i] = 0
             /\ Slots * SizesByAge[i] <= SIZE_MAX
  <2> DEFINE k == Slot(i)
  <2>1. /\ k \in 0..Slots-1
        /\ i + out_offs < Slots => k = i + out_offs
    BY SlotValue DEF IndInv
  <2>2. SizesByAge[i] = entry[k].size
    BY DEF SizesByAge
  <2>3. k \in Live <=> i < Count
    <3>1. CASE full
      <4>1. Live = 0..Slots-1
        BY <3>1, LiveSlots DEF IndInv, OffsetsConsistent, OffsetsAligned, LiveIsPrefix
      <4> QED BY <1>1, <2>1, <3>1, <4>1
    <3>2. CASE ~full
      <4>1. Live = 0..in_offs-1
        BY <3>2, LiveSlots DEF IndInv, OffsetsConsistent, OffsetsAligned, LiveIsPrefix
      <4>2. k = i
        BY <1>1, <2>1, <3>2
      <4> QED BY <1>1, <3>2, <4>1, <4>2
    <3> QED BY <3>1, <3>2
  <2>4. entry[k].buffptr # NULL <=> i < Count
    BY <2>1, <2>3 DEF IndInv, OffsetsConsistent
  <2>5. CASE entry[k] \in Entry
    BY <1>1, <2>2, <2>4, <2>5, EntryAssumption, SizesAssumption
  <2>6. CASE entry[k] = Free
    <3>1. SizesByAge[i] = 0 /\ ~(i < Count)
      BY <2>2, <2>4, <2>6 DEF Free
    <3>2. Slots * 0 = 0
      BY <1>1
    <3> QED BY <2>2, <3>1, <3>2, SizesAssumption
  <2> QED BY <1>1, <2>1, <2>5, <2>6
<1> QED BY <1>2 DEF SizesFit, HasTerms

\* A product and the quotient.
LEMMA QuotientBound ==
    ASSUME NEW n \in Nat \ {0}, NEW b \in Nat
    PROVE  /\ b \div n \in Nat
           /\ n * (b \div n) <= b
           /\ \A a \in Nat : n * a <= b => a <= b \div n
<1> DEFINE q == b \div n
<1>1. q \in Nat /\ n * q <= b /\ b < n * q + n
  OBVIOUS
<1> HIDE DEF q
<1>2. ASSUME NEW a \in Nat, n * a <= b PROVE a <= q
  <2> SUFFICES ASSUME a >= q + 1 PROVE FALSE
    BY <1>1
  <2>1. PICK c \in Nat : a = q + 1 + c
    <3>1. a - (q + 1) \in Nat
      BY <1>1
    <3> QED BY <1>1, <3>1
  <2>2. n * a = n * q + n + n * c /\ n * c \in Nat /\ n * q \in Nat
    BY <1>1, <2>1
  <2> QED BY <1>1, <1>2, <2>2
<1> QED BY <1>1, <1>2 DEF q

\* No sum of sizes wraps.
LEMMA SumsFit ==
    ASSUME IndInv, NEW j \in 0..Slots
    PROVE  Before(j) \in Nat /\ Before(j) <= SIZE_MAX /\ SumBefore(j) = Before(j)
<1> DEFINE m == SIZE_MAX \div Slots
<1>1. Slots \in Nat \ {0} /\ SIZE_MAX \in Nat
  BY SlotsAssumption, SizesAssumption
<1>2. /\ m \in Nat /\ Slots * m <= SIZE_MAX
      /\ \A a \in Nat : Slots * a <= SIZE_MAX => a <= m
  BY <1>1, QuotientBound
<1> HIDE DEF m
<1>3. HasTerms(SizesByAge, Slots) /\ \A i \in 0..Slots-1 : SizesByAge[i] <= m
  BY <1>2, EntrySizes DEF SizesFit, HasTerms
<1>4. Before(j) <= j * m /\ Before(j) \in Nat
  <2>1. SumFunctionOnSet(SizesByAge, 0..j-1) <= j * m
    BY <1>1, <1>2, <1>3, SumBound
  <2>2. SumFunctionOnSet(SizesByAge, 0..j-1) \in Nat
    BY <1>1, <1>3, SumGrows
  <2> QED BY <2>1, <2>2 DEF Before
<1>5. j * m <= Slots * m
  <2>1. PICK d \in Nat : Slots = j + d
    <3>1. Slots - j \in Nat /\ Slots = j + (Slots - j)
      BY <1>1
    <3> QED BY <3>1
  <2>2. Slots * m = j * m + d * m /\ d * m \in Nat /\ j * m \in Nat
    BY <1>1, <1>2, <2>1
  <2> QED BY <2>2
<1>6. Before(j) <= SIZE_MAX
  <2>1. j * m \in Nat /\ Slots * m \in Nat
    BY <1>1, <1>2
  <2> QED BY <1>1, <1>2, <1>4, <1>5, <2>1
<1>7. Before(j) % (SIZE_MAX + 1) = Before(j)
  BY <1>1, <1>4, <1>6
<1> QED BY <1>4, <1>6, <1>7 DEF SumBefore, Wrap, Before

\* Each entry begins where the one before it ends.
LEMMA BeforeStep ==
    ASSUME IndInv, NEW i \in 0..Slots-1
    PROVE  /\ Before(0) = 0
           /\ Before(i + 1) = Before(i) + SizesByAge[i]
           /\ \A j \in 0..Slots : i < j => Before(i + 1) <= Before(j)
<1>1. Slots \in Nat \ {0} /\ HasTerms(SizesByAge, Slots)
  BY SlotsAssumption, EntrySizes DEF SizesFit
<1>2. Before(0) = 0
  <2>1. 0..0-1 = {}
    OBVIOUS
  <2> QED BY <1>1, <2>1, SumProperties DEF Before
<1>3. Before(i + 1) = Before(i) + SizesByAge[i]
  <2>1. i + 1 - 1 = i
    BY <1>1
  <2> QED BY <1>1, <2>1, SumStep DEF Before
<1>4. ASSUME NEW j \in 0..Slots, i < j PROVE Before(i + 1) <= Before(j)
  <2>1. i + 1 \in 0..j
    BY <1>1, <1>4
  <2> QED BY <1>1, <2>1, SumGrows DEF Before
<1> QED BY <1>2, <1>3, <1>4

\* The sum in slot order is the sum in order of age.
LEMMA TotalIsSum == IndInv => TotalSize = Before(Slots) /\ Before(Count) = Before(Slots)
<1> SUFFICES ASSUME IndInv
             PROVE  TotalSize = Before(Slots) /\ Before(Count) = Before(Slots)
  OBVIOUS
<1>1. /\ Slots \in Nat \ {0} /\ out_offs \in 0..Slots-1 /\ Count \in 0..Slots
      /\ entry \in [0..Slots-1 -> Entry \cup {Free}]
  BY SlotsAssumption DEF IndInv, TypeOK, OffsetsConsistent, Count
<1>2. SizesFit
  BY EntrySizes
<1> DEFINE p == [i \in 0..Slots-1 |-> Slot(i)]
<1>3. \A i \in 0..Slots-1 : p[i] \in 0..Slots-1 /\ SizesByAge[i] = Sizes[p[i]]
  BY SlotValue DEF SizesByAge, Sizes, IndInv
<1>4. ASSUME NEW i \in 0..Slots-1, NEW j \in 0..Slots-1, p[i] = p[j] PROVE i = j
  <2>1. /\ Slot(i) = IF i + out_offs < Slots THEN i + out_offs ELSE i + out_offs - Slots
        /\ Slot(j) = IF j + out_offs < Slots THEN j + out_offs ELSE j + out_offs - Slots
    BY SlotValue DEF IndInv
  <2> QED BY <1>1, <1>4, <2>1
<1>5. \A k \in 0..Slots-1 : \E i \in 0..Slots-1 : p[i] = k
  <2> SUFFICES ASSUME NEW k \in 0..Slots-1 PROVE \E i \in 0..Slots-1 : p[i] = k
    OBVIOUS
  <2>1. CASE k >= out_offs
    <3>1. k - out_offs \in 0..Slots-1 /\ k - out_offs + out_offs = k
      BY <1>1, <2>1
    <3>2. Slot(k - out_offs) = k
      BY <1>1, <3>1, SlotValue DEF IndInv
    <3> QED BY <3>1, <3>2
  <2>2. CASE k < out_offs
    <3>1. /\ k - out_offs + Slots \in 0..Slots-1
          /\ k - out_offs + Slots + out_offs = k + Slots /\ ~(k + Slots < Slots)
          /\ k + Slots - Slots = k
      BY <1>1, <2>2
    <3>2. Slot(k - out_offs + Slots) = k
      BY <1>1, <3>1, SlotValue DEF IndInv
    <3> QED BY <3>1, <3>2
  <2> QED BY <1>1, <2>1, <2>2
<1>6. {p[i] : i \in 0..Slots-1} = 0..Slots-1
  BY <1>3, <1>5
<1>7. HasTerms(Sizes, Slots)
  <2> SUFFICES ASSUME NEW k \in 0..Slots-1 PROVE Sizes[k] \in Nat
    BY DEF HasTerms
  <2>1. PICK i \in 0..Slots-1 : p[i] = k
    BY <1>5
  <2> QED BY <1>2, <1>3, <2>1 DEF SizesFit, HasTerms
<1> HIDE DEF p
<1>8. SumFunctionOnSet(SizesByAge, 0..Slots-1)
        = SumFunctionOnSet(Sizes, {p[i] : i \in 0..Slots-1})
  <2>1. Slots \in 0..Slots
    BY <1>1
  <2>2. IsReordering(p, Sizes, SizesByAge, Slots)
    BY <1>3, <1>4 DEF IsReordering
  <2> QED BY <1>1, <1>7, <2>1, <2>2, SumPermuted
<1>9. TotalSize = Before(Slots)
  BY <1>6, <1>8 DEF TotalSize, SumOfSizes, Before
<1>10. Before(Count) = Before(Slots)
  <2> DEFINE S == {n \in Nat : Count + n <= Slots => Before(Count + n) = Before(Count)}
  <2>1. 0 \in S
    BY <1>1
  <2>2. ASSUME NEW n \in Nat, n \in S PROVE n + 1 \in S
    <3> SUFFICES ASSUME Count + (n + 1) <= Slots
                 PROVE  Before(Count + (n + 1)) = Before(Count)
      OBVIOUS
    <3>1. /\ Count + n \in 0..Slots-1 /\ Count + n >= Count
          /\ Count + (n + 1) = Count + n + 1 /\ Count + n \in 0..Slots
      BY <1>1
    <3>2. Before(Count + n + 1) = Before(Count + n) + SizesByAge[Count + n]
      BY <3>1, BeforeStep
    <3>3. SizesByAge[Count + n] = 0
      BY <1>2, <3>1 DEF SizesFit
    <3>4. Before(Count + n) \in Nat
      BY <3>1, SumsFit
    <3>5. Before(Count + n) = Before(Count)
      BY <1>1, <2>2, <3>1
    <3> QED BY <3>1, <3>2, <3>3, <3>4, <3>5
  <2> HIDE DEF S
  <2>3. Slots - Count \in S
    BY <1>1, <2>1, <2>2, SetInduction
  <2>4. Count + (Slots - Count) = Slots
    BY <1>1
  <2> QED BY <1>1, <2>3, <2>4 DEF S
<1> QED BY <1>9, <1>10

\* No entry has more than m bytes.
SizesUpTo(m) == \A e \in Entry : e.size <= m

\* Nor have all of them together more than a full buffer of such entries.
LEMMA TotalBound ==
    ASSUME IndInv, NEW m \in Nat, SizesUpTo(m)
    PROVE  TotalSize \in Nat /\ TotalSize <= Slots * m
<1>1. Slots \in Nat \ {0} /\ Slots \in 0..Slots
  BY SlotsAssumption
<1>2. HasTerms(SizesByAge, Slots)
  BY EntrySizes DEF SizesFit
<1>3. ASSUME NEW i \in 0..Slots-1 PROVE SizesByAge[i] <= m
  <2>1. Slot(i) \in 0..Slots-1 /\ SizesByAge[i] = entry[Slot(i)].size
    BY EntrySizes, SlotValue DEF IndInv, SizesFit
  <2>2. entry[Slot(i)] \in Entry \/ entry[Slot(i)] = Free
    BY <2>1 DEF IndInv, TypeOK
  <2> QED BY <2>1, <2>2 DEF SizesUpTo, Free
<1>4. SumFunctionOnSet(SizesByAge, 0..Slots-1) <= Slots * m
  BY <1>1, <1>2, <1>3, SumBound
<1>5. TotalSize = Before(Slots) /\ Before(Slots) \in Nat
  BY <1>1, TotalIsSum, SumsFit
<1> QED BY <1>4, <1>5 DEF Before

\* The search returns the entry and the offset in it that char_offset falls in,
\* and nothing from the end on.
LEMMA FindEntryFinds ==
    ASSUME IndInv, NEW off \in Nat
    PROVE  /\ off < TotalSize =>
                \E i \in 0..Count-1 :
                   /\ Before(i) <= off /\ off < Before(i) + SizesByAge[i]
                   /\ FindEntry(off) = [slot |-> Slot(i), offset |-> off - Before(i)]
           /\ off >= TotalSize => FindEntry(off) = NotFound
<1>1. /\ Slots \in Nat \ {0} /\ SIZE_MAX \in Nat /\ Count \in 0..Slots
      /\ IsEmpty <=> Count = 0
  BY SlotsAssumption, SizesAssumption
     DEF IndInv, TypeOK, OffsetsConsistent, Count, IsEmpty
<1>2. SizesFit /\ TotalSize = Before(Slots) /\ Before(Count) = Before(Slots)
  BY EntrySizes, TotalIsSum
<1>3. \A j \in 0..Slots : Before(j) \in Nat /\ Before(j) <= SIZE_MAX /\ SumBefore(j) = Before(j)
  BY SumsFit
<1>4. \A i \in 0..Slots-1 :
        /\ Before(0) = 0
        /\ Before(i + 1) = Before(i) + SizesByAge[i]
        /\ \A j \in 0..Slots : i < j => Before(i + 1) <= Before(j)
  BY BeforeStep
<1>5. CASE Count = 0
  <2>1. TotalSize = 0
    <3>1. 0 \in 0..Slots-1
      BY <1>1
    <3> QED BY <1>2, <1>4, <1>5, <3>1
  <2> QED BY <1>1, <1>5, <2>1 DEF FindEntry
<1>6. CASE Count # 0
  <2>1. Hits(off) = {i \in 0..Slots-1 : Before(i + 1) > off}
    <3>1. Hits(off) = {i \in 0..Slots-1 :
                         Wrap(SumBefore(i) + entry[Slot(i)].size - 1) >= off}
      BY Zenon DEF Hits
    <3>2. ASSUME NEW i \in 0..Slots-1
          PROVE  Wrap(SumBefore(i) + entry[Slot(i)].size - 1) = Before(i + 1) - 1
      <4>1. i \in 0..Slots /\ i + 1 \in 0..Slots /\ 0 \in 0..Slots-1 /\ 0 < i + 1
        BY <1>1
      <4>2. /\ SumBefore(i) \in Nat /\ entry[Slot(i)].size \in Nat
            /\ SumBefore(i) + entry[Slot(i)].size = Before(i + 1)
        BY <1>2, <1>3, <1>4, <4>1 DEF SizesFit, HasTerms
      <4>3. Before(i + 1) \in 1..SIZE_MAX
        <5>1. Before(1) = SizesByAge[0] /\ SizesByAge[0] >= 1 /\ SizesByAge[0] \in Nat
          <6>1. Before(0 + 1) = Before(0) + SizesByAge[0] /\ Before(0) = 0
            BY <1>4, <4>1
          <6>2. SizesByAge[0] >= 1 /\ SizesByAge[0] \in Nat
            BY <1>1, <1>2, <1>6, <4>1 DEF SizesFit, HasTerms
          <6> QED BY <6>1, <6>2
        <5>2. Before(0 + 1) <= Before(i + 1)
          BY <1>4, <4>1
        <5>3. Before(i + 1) \in Nat /\ Before(i + 1) <= SIZE_MAX
          BY <1>3, <4>1
        <5> QED BY <1>1, <5>1, <5>2, <5>3
      <4>4. \A a, b \in Nat : a + b \in 1..SIZE_MAX => Wrap(a + b - 1) = a + b - 1
        BY <1>1 DEF Wrap
      <4>5. SumBefore(i) + entry[Slot(i)].size \in 1..SIZE_MAX
        BY <4>2, <4>3
      <4>6. Wrap(SumBefore(i) + entry[Slot(i)].size - 1)
              = SumBefore(i) + entry[Slot(i)].size - 1
        BY <4>2, <4>4, <4>5, Zenon
      <4> QED BY <4>2, <4>6
    <3>3. \A i \in 0..Slots-1 : Before(i + 1) \in Nat
      <4>1. \A i \in 0..Slots-1 : i + 1 \in 0..Slots
        BY <1>1
      <4> QED BY <1>3, <4>1
    <3>4. \A i \in 0..Slots-1 : Before(i + 1) - 1 >= off <=> Before(i + 1) > off
      BY <3>3
    <3> QED BY <3>1, <3>2, <3>4
  <2>2. CASE off >= TotalSize
    <3>1. ASSUME NEW i \in 0..Slots-1 PROVE ~(Before(i + 1) > off)
      <4>1. i + 1 \in 0..Slots /\ Slots \in 0..Slots /\ i < Slots
        BY <1>1
      <4>2. Before(i + 1) <= Before(Slots)
        BY <1>4, <4>1
      <4>3. Before(i + 1) \in Nat /\ Before(Slots) \in Nat
        BY <1>3, <4>1
      <4> QED BY <1>2, <2>2, <4>2, <4>3
    <3>2. Hits(off) = {}
      BY <2>1, <3>1
    <3>3. ~(off < TotalSize)
      <4>1. Slots \in 0..Slots
        BY <1>1
      <4> QED BY <1>2, <1>3, <2>2, <4>1
    <3> QED BY <3>2, <3>3 DEF FindEntry
  <2>3. CASE off < TotalSize
    <3> DEFINE H == Hits(off)
               i == Min(H)
    <3>1. Slots - 1 \in H
      <4>1. Slots - 1 \in 0..Slots-1 /\ Slots - 1 + 1 = Slots /\ Slots \in 0..Slots
        BY <1>1
      <4>2. Before(Slots - 1 + 1) > off
        BY <1>2, <1>3, <2>3, <4>1
      <4> QED BY <2>1, <4>1, <4>2
    <3>2. H \in SUBSET Nat /\ H # {}
      BY <2>1, <3>1
    <3> HIDE DEF H
    <3>3. i \in H /\ \A h \in H : i <= h
      BY <3>2, MinIsLeast
    <3>4. i \in 0..Slots-1 /\ Before(i + 1) > off
      BY <2>1, <3>3 DEF H
    <3> HIDE DEF i
    <3>5. i \in 0..Slots /\ i + 1 \in 0..Slots /\ Before(i) \in Nat /\ SizesByAge[i] \in Nat
      <4>1. i \in 0..Slots /\ i + 1 \in 0..Slots
        BY <1>1, <3>4
      <4> QED BY <1>2, <1>3, <3>4, <4>1 DEF SizesFit, HasTerms
    <3>6. Before(i) <= off
      <4>1. CASE i = 0
        BY <1>4, <3>4, <4>1
      <4>2. CASE i # 0
        <5>1. i - 1 \in 0..Slots-1 /\ ~(i <= i - 1) /\ i - 1 + 1 = i
          BY <1>1, <3>4, <4>2
        <5>2. i - 1 \notin H
          BY <3>3, <5>1
        <5>3. ~(Before(i) > off)
          BY <2>1, <5>1, <5>2 DEF H
        <5> QED BY <3>5, <5>3
      <4> QED BY <4>1, <4>2
    <3>7. off < Before(i) + SizesByAge[i]
      BY <1>4, <3>4, <3>5
    <3>8. i \in 0..Count-1
      <4>1. SizesByAge[i] # 0
        BY <3>5, <3>6, <3>7
      <4>2. i < Count
        BY <1>1, <1>2, <3>4, <4>1 DEF SizesFit
      <4> QED BY <1>1, <3>4, <4>2
    <3>9. FindEntry(off) = [slot |-> Slot(i), offset |-> Wrap(off - SumBefore(i))]
      <4>1. ~IsEmpty /\ H # {}
        BY <1>1, <1>6, <3>3
      <4> QED BY <4>1 DEF FindEntry, H, i
    <3>10. Wrap(off - SumBefore(i)) = off - Before(i)
      <4>1. SumBefore(i) = Before(i) /\ Before(i + 1) <= SIZE_MAX /\ Before(i + 1) \in Nat
        BY <1>3, <3>5
      <4>2. off - Before(i) \in 0..SIZE_MAX
        BY <1>1, <3>4, <3>5, <3>6, <4>1
      <4>3. (off - Before(i)) % (SIZE_MAX + 1) = off - Before(i)
        BY <1>1, <4>2
      <4> QED BY <4>1, <4>3 DEF Wrap
    <3>11. ~(off >= TotalSize)
      <4>1. Slots \in 0..Slots
        BY <1>1
      <4> QED BY <1>2, <1>3, <2>3, <4>1
    <3> QED BY <3>6, <3>7, <3>8, <3>9, <3>10, <3>11
  <2>4. TotalSize \in Nat
    <3>1. Slots \in 0..Slots
      BY <1>1
    <3> QED BY <1>2, <1>3, <3>1
  <2> QED BY <2>2, <2>3, <2>4
<1> QED BY <1>1, <1>5, <1>6

\* The bytes of each live entry are in the log behind those of the older ones.
LEMMA LogPlaces ==
    ASSUME IndInv
    PROVE  /\ Len(LogBytes) = TotalSize
           /\ \A i \in 0..Count-1 : \A j \in 1..SizesByAge[i] :
                LogBytes[Before(i) + j] = [slot |-> Slot(i), offset |-> j - 1]
<1> DEFINE B == [slot : 0..Slots-1, offset : Nat]
           s == [k \in 1..Count |-> BytesOf(Slot(k - 1))]
<1>1. Count \in 0..Slots /\ SizesFit /\ Slots \in Nat
  BY EntrySizes, LogOfValue, SlotsAssumption DEF LogIsEntries
<1>2. ASSUME NEW k \in 0..Count-1
      PROVE  /\ BytesOf(Slot(k)) \in Seq(B)
             /\ Len(BytesOf(Slot(k))) = SizesByAge[k]
             /\ BytesOf(Slot(k))
                  = [n \in 1..SizesByAge[k] |-> [slot |-> Slot(k), offset |-> n - 1]]
  <2>1. k \in 0..Slots-1
    BY <1>1
  <2>2. Slot(k) \in 0..Slots-1 /\ SizesByAge[k] \in Nat /\ entry[Slot(k)].size = SizesByAge[k]
    BY <1>1, <2>1, SlotValue DEF IndInv, SizesFit, HasTerms
  <2>3. BytesOf(Slot(k))
          = [n \in 1..SizesByAge[k] |-> [slot |-> Slot(k), offset |-> n - 1]]
    BY <2>2 DEF BytesOf
  <2>4. \A n \in 1..SizesByAge[k] : [slot |-> Slot(k), offset |-> n - 1] \in B
    BY <2>2
  <2> HIDE DEF B
  <2> QED BY <2>2, <2>3, <2>4, IsASeq
<1> HIDE DEF B
<1>3. s \in Seq(Seq(B)) /\ Len(s) = Count /\ \A k \in 1..Count : s[k] = BytesOf(Slot(k - 1))
  <2>1. ASSUME NEW k \in 1..Count PROVE BytesOf(Slot(k - 1)) \in Seq(B)
    <3>1. k - 1 \in 0..Count-1
      BY <1>1
    <3> QED BY <1>2, <3>1
  <2>2. Count \in Nat
    BY <1>1
  <2> QED BY <2>1, <2>2, IsASeq
<1>4. FlattenSeq(s) = LogBytes
  BY DEF LogBytes
<1> HIDE DEF s
<1>5. HasLengths(SizesByAge, s)
  <2>1. ASSUME NEW k \in 0..Count-1 PROVE SizesByAge[k] = Len(s[k + 1])
    <3>1. k + 1 \in 1..Count /\ k + 1 - 1 = k
      BY <1>1
    <3> QED BY <1>2, <1>3, <3>1
  <2> QED BY <1>3, <2>1 DEF HasLengths
<1>6. LiesIn(SizesByAge, s, LogBytes)
  BY <1>3, <1>4, <1>5, FlattenPlaces
<1>7. Len(LogBytes) = TotalSize
  <2>1. Len(LogBytes) = Before(Count)
    BY <1>3, <1>6 DEF LiesIn, Before
  <2> QED BY <2>1, TotalIsSum
<1>8. ASSUME NEW i \in 0..Count-1, NEW j \in 1..SizesByAge[i]
      PROVE  LogBytes[Before(i) + j] = [slot |-> Slot(i), offset |-> j - 1]
  <2>1. i + 1 \in 1..Count /\ i + 1 - 1 = i /\ i \in 0..Len(s)-1
    BY <1>1, <1>3
  <2>2. s[i + 1] = BytesOf(Slot(i))
    BY <1>3, <2>1
  <2>3. j \in 1..Len(s[i + 1])
    BY <1>2, <2>2
  <2>4. LogBytes[Before(i) + j] = s[i + 1][j]
    BY <1>6, <2>1, <2>3 DEF LiesIn, Before
  <2>5. BytesOf(Slot(i))[j] = [slot |-> Slot(i), offset |-> j - 1]
    BY <1>2
  <2> QED BY <2>2, <2>4, <2>5
<1> QED BY <1>7, <1>8

\* The header of aesd_circular_buffer_find_entry_offset_for_fpos: whatever the
\* sizes of the entries and wherever the oldest of them is, the search finds
\* the byte at each position, and nothing past the end.
THEOREM SearchIsExact == Spec => []FindMatchesLog
<1>1. IndInv => FindMatchesLog
  <2> SUFFICES ASSUME IndInv, NEW off \in 0..TotalSize+1
               PROVE  FindEntry(off) = IF off < Len(LogBytes) THEN LogBytes[off + 1]
                                                              ELSE NotFound
    BY DEF FindMatchesLog
  <2>1. TotalSize \in Nat
    <3>1. Slots \in 0..Slots
      BY SlotsAssumption
    <3> QED BY <3>1, TotalIsSum, SumsFit
  <2>2. Len(LogBytes) = TotalSize
    BY LogPlaces
  <2>3. off \in Nat
    BY <2>1
  <2>4. CASE off < TotalSize
    <3>1. PICK i \in 0..Count-1 :
            /\ Before(i) <= off /\ off < Before(i) + SizesByAge[i]
            /\ FindEntry(off) = [slot |-> Slot(i), offset |-> off - Before(i)]
      BY <2>3, <2>4, FindEntryFinds
    <3>2. i \in 0..Slots-1 /\ i \in 0..Slots
      BY LogOfValue, SlotsAssumption DEF LogIsEntries
    <3>3. Before(i) \in Nat /\ SizesByAge[i] \in Nat
      BY <3>2, SumsFit, EntrySizes DEF SizesFit, HasTerms
    <3> DEFINE j == off - Before(i) + 1
    <3>4. /\ j \in 1..SizesByAge[i] /\ Before(i) + j = off + 1
          /\ j - 1 = off - Before(i)
      BY <2>3, <3>1, <3>3
    <3> HIDE DEF j
    <3>5. LogBytes[Before(i) + j] = [slot |-> Slot(i), offset |-> j - 1]
      BY <3>4, LogPlaces
    <3> QED BY <2>2, <2>4, <3>1, <3>4, <3>5
  <2>5. CASE ~(off < TotalSize)
    <3>1. off >= TotalSize
      BY <2>1, <2>3, <2>5
    <3>2. FindEntry(off) = NotFound
      BY <2>3, <3>1, FindEntryFinds
    <3> QED BY <2>2, <2>5, <3>2
  <2> QED BY <2>4, <2>5
<1> QED BY <1>1, InitIndInv, NextIndInv, PTL DEF Spec
=============================================================================
