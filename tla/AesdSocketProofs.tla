-------------------------- MODULE AesdSocketProofs --------------------------
(***************************************************************************)
(* The safety properties of AesdSocket, for every set of clients, both     *)
(* builds and any number of messages.                                      *)
(***************************************************************************)
EXTENDS AesdSocket, SequenceLemmas

InSection(c) == pc[c] \in {"write", "unopened", "read", "send", "close"}

Answering(c) == pc[c] \in {"read", "send", "close"}

DeviceTypeOK ==
    /\ log \in Seq(Seq(Byte))
    /\ partial \in Seq(Byte)
    /\ jammed \in BOOLEAN

\* The build decides which store there is, and whether there are timestamps.
BuildFits ==
    /\ use_device => ts = "unset"
    /\ Running /\ ~use_device => file \in Seq(Byte)

\* Whoever is between lock and unlock owns the mutex.  As long as main is in its
\* loop nobody else does, and nobody is cancelled.
MutexHeld ==
    /\ \A c \in Client : InSection(c) => file_mut = c
    /\ ts = "write" => file_mut = Timestamp
    /\ InLoop => /\ cancelled = {}
                 /\ \A c \in Client : file_mut = c => InSection(c)
                 /\ file_mut = Timestamp => ts = "write"

\* What a thread deals with while it has a message, and that it has none else.
MessageFits ==
    \A c \in Client :
        /\ pc[c] = "lock" \/ InSection(c) =>
             /\ msg[c] \in {Line(c), Part(c)} \cup {Seek}
             /\ msg[c] = Seek => use_device
        /\ pc[c] \in {"read", "send"} => msg[c] # Part(c)
        /\ ~Answering(c) => pos[c] = 0 /\ reply[c] = <<>>

\* The list is empty when the clean-up is past it, and while main joins it looks
\* at the head.
CleanupAtHead ==
    /\ main \in {"tsjoin", "exited"} => list = <<>>
    /\ main = "join" => list # <<>> /\ current = Head(list)

Types == TypeOK /\ DeviceTypeOK /\ BuildFits

Locking == MutexHeld /\ MessageFits /\ OrphanedOnlyInCleanup

Threads == CleanupAtHead /\ FreedAfterJoin /\ ThreadsAccounted

\* What a thread has read so far ends where it reads on, and began with the
\* first byte if it answers a line.
ReadSoFar(got, at, all) ==
    /\ Len(got) <= at /\ at <= Len(all)
    /\ got = SubSeq(all, at - Len(got) + 1, at)

AnswerSoFar ==
    \A c \in Client : Running /\ Answering(c) =>
        /\ ReadSoFar(reply[c], pos[c], Stored)
        /\ msg[c] = Line(c) => Len(reply[c]) = pos[c]
        /\ pc[c] = "close" /\ msg[c] # Part(c) => pos[c] = Len(Stored)

Storage == AnswerSoFar /\ FileIsOfThisRun

Inv == Types /\ Locking /\ Threads /\ Storage

-----------------------------------------------------------------------------
(* What is stored *)

\* What clients and the timestamp thread write are sequences of bytes.
LEMMA WhatIsWritten ==
    /\ Stamp \in Seq(Byte) /\ ToSet(Stamp) = {Timestamp, Newline, Zeros}
    /\ \A c \in Client : /\ Line(c) \in Seq(Byte) /\ ToSet(Line(c)) = {c, Newline}
                         /\ Part(c) \in Seq(Byte) /\ ToSet(Part(c)) = {c}
                         /\ Line(c) # Part(c)
                         /\ Seek \notin {Line(c), Part(c)}
                         /\ {Line(c), Part(c)} \subseteq Data
<1>1. Stamp \in Seq(Byte)
  BY DEF Stamp, Byte
<1>2. ToSet(Stamp) = {Timestamp, Newline, Zeros}
  BY DEF Stamp, ToSet
<1>3. ASSUME NEW c \in Client
      PROVE  /\ Line(c) \in Seq(Byte) /\ ToSet(Line(c)) = {c, Newline}
             /\ Part(c) \in Seq(Byte) /\ ToSet(Part(c)) = {c}
             /\ Line(c) # Part(c)
             /\ Seek \notin {Line(c), Part(c)}
             /\ {Line(c), Part(c)} \subseteq Data
  <2>1. Line(c) \in Seq(Byte) /\ Part(c) \in Seq(Byte)
    BY DEF Line, Part, Byte
  <2>2. ToSet(Line(c)) = {c, Newline}
    BY DEF Line, ToSet
  <2>3. ToSet(Part(c)) = {c}
    BY DEF Part, ToSet
  <2>4. Line(c) # Part(c)
    BY DEF Line, Part
  <2> QED BY <2>1, <2>2, <2>3, <2>4, NamesAssumption DEF Line, Part, Data
<1> QED BY <1>1, <1>2, <1>3

\* The instance of the device comes with its own copy of the operators of the
\* library.
LEMMA SameOperators ==
    /\ \A s : Dev!FlattenSeq(s) = FlattenSeq(s) /\ Dev!ToSet(s) = ToSet(s)
    /\ \A s : Dev!SelectInSeq(s, LAMBDA b : b = Newline)
               = SelectInSeq(s, LAMBDA b : b = Newline)
BY DEF Dev!FlattenSeq, FlattenSeq, Dev!ToSet, ToSet, Dev!SelectInSeq, SelectInSeq,
       Dev!Min, Min

\* The device stores bytes, and so does the file.
LEMMA StoredBytes ==
    ASSUME DeviceTypeOK, use_device \/ file \in Seq(Byte)
    PROVE  /\ Dev!Contents \in Seq(Byte)
           /\ Stored \in Seq(Byte) /\ Len(Stored) \in Nat
<1>1. Dev!Contents \in Seq(Byte)
  BY SameOperators, FlattenType DEF DeviceTypeOK, Dev!Contents
<1> QED BY <1>1, LenProperties DEF Stored

\* The same as one formula, which can be primed.
StoreTypeOK == DeviceTypeOK /\ (use_device \/ file \in Seq(Byte))

StoredIsBytes == Stored \in Seq(Byte) /\ Len(Stored) \in Nat

LEMMA BytesAreStored == StoreTypeOK => StoredIsBytes
BY StoredBytes DEF StoreTypeOK, StoredIsBytes

\* The first bytes of something that is written.
LEMMA FirstBytes ==
    ASSUME NEW data \in Seq(Byte), NEW n \in 0..Len(data)
    PROVE  /\ SubSeq(data, 1, n) \in Seq(Byte)
           /\ ToSet(SubSeq(data, 1, n)) \subseteq ToSet(data)
<1>1. Len(data) \in Nat /\ DOMAIN data = 1..Len(data)
  BY LenProperties
<1>2. \A i \in 1..n : data[i] \in Byte
  BY <1>1, ElementOfSeq
<1>3. /\ SubSeq(data, 1, n) \in Seq(Byte)
      /\ Len(SubSeq(data, 1, n)) = n
      /\ \A i \in 1..n : SubSeq(data, 1, n)[i] = data[i]
  BY <1>1, <1>2, SubSeqProperties
<1>4. DOMAIN SubSeq(data, 1, n) = 1..n
  BY <1>3, LenProperties
<1>5. ToSet(SubSeq(data, 1, n)) \subseteq ToSet(data)
  BY <1>1, <1>3, <1>4 DEF ToSet
<1> QED BY <1>3, <1>5

\* Two pieces that follow each other are one piece.
LEMMA Pieces ==
    ASSUME NEW s \in Seq(Byte), NEW a \in Nat, NEW b \in Nat, NEW e \in Nat,
           a <= b, b <= e, e <= Len(s)
    PROVE  /\ SubSeq(s, a + 1, b) \in Seq(Byte) /\ Len(SubSeq(s, a + 1, b)) = b - a
           /\ SubSeq(s, a + 1, b) \o SubSeq(s, b + 1, e) = SubSeq(s, a + 1, e)
<1>1. Len(s) \in Nat
  BY LenProperties
<1>2. \A i \in 1..Len(s) : s[i] \in Byte
  BY <1>1, ElementOfSeq
<1>10. b <= Len(s) /\ a <= e
  BY <1>1
<1> DEFINE piece(x, y) == SubSeq(s, x + 1, y)
<1>3. ASSUME NEW x \in Nat, NEW y \in Nat, x <= y, y <= Len(s)
      PROVE  /\ piece(x, y) \in Seq(Byte) /\ Len(piece(x, y)) = y - x
             /\ \A i \in 1..(y - x) : piece(x, y)[i] = s[x + i]
  <2>1. x + 1 \in Int /\ \A i \in x + 1..y : s[i] \in Byte
    BY <1>1, <1>2, <1>3
  <2>2. /\ piece(x, y) \in Seq(Byte)
        /\ Len(piece(x, y)) = IF x + 1 <= y THEN y - (x + 1) + 1 ELSE 0
        /\ \A i \in 1..y - (x + 1) + 1 : piece(x, y)[i] = s[x + 1 + i - 1]
    BY <2>1, SubSeqProperties
  <2> HIDE DEF piece
  <2> QED BY <1>3, <2>2
<1> HIDE DEF piece
<1>4. /\ piece(a, b) \in Seq(Byte) /\ Len(piece(a, b)) = b - a
      /\ \A i \in 1..(b - a) : piece(a, b)[i] = s[a + i]
  BY <1>10, <1>3
<1>5. /\ piece(b, e) \in Seq(Byte) /\ Len(piece(b, e)) = e - b
      /\ \A i \in 1..(e - b) : piece(b, e)[i] = s[b + i]
  BY <1>3
<1>6. /\ piece(a, e) \in Seq(Byte) /\ Len(piece(a, e)) = e - a
      /\ \A i \in 1..(e - a) : piece(a, e)[i] = s[a + i]
  BY <1>10, <1>3
<1> DEFINE both == piece(a, b) \o piece(b, e)
<1>7. both \in Seq(Byte) /\ Len(both) = e - a
  <2>1. both \in Seq(Byte) /\ Len(both) = Len(piece(a, b)) + Len(piece(b, e))
    BY <1>4, <1>5, ConcatProperties
  <2> HIDE DEF both
  <2> QED BY <1>4, <1>5, <2>1
<1>8. ASSUME NEW i \in 1..(e - a) PROVE both[i] = piece(a, e)[i]
  <2>1. both[i] = IF i <= b - a THEN piece(a, b)[i] ELSE piece(b, e)[i - (b - a)]
    BY <1>4, <1>5, <1>8, ConcatProperties
  <2>2. CASE i <= b - a
    BY <1>4, <1>6, <2>1, <2>2
  <2>3. CASE ~(i <= b - a)
    <3>1. i - (b - a) \in 1..(e - b) /\ b + (i - (b - a)) = a + i
      BY <2>3
    <3> QED BY <1>5, <1>6, <2>1, <2>3, <3>1
  <2> QED BY <2>2, <2>3
<1> HIDE DEF both
<1>9. both = piece(a, e)
  BY <1>6, <1>7, <1>8, SeqEqual
<1> QED BY <1>4, <1>9 DEF piece, both

\* What has been read, and the next piece.
LEMMA ReadOnType ==
    ASSUME NEW s \in Seq(Byte), NEW r \in Seq(Byte), NEW a \in Nat, NEW n \in Nat,
           a + n <= Len(s)
    PROVE  r \o SubSeq(s, a + 1, a + n) \in Seq(Byte)
<1> DEFINE b == a + n
<1>1. b \in Nat /\ a <= b /\ b <= Len(s) /\ Len(s) \in Nat
  BY LenProperties
<1> HIDE DEF b
<1>2. SubSeq(s, a + 1, b) \in Seq(Byte)
  BY <1>1, Pieces
<1>3. r \o SubSeq(s, a + 1, b) \in Seq(Byte)
  BY <1>2, ConcatProperties
<1> QED BY <1>3 DEF b

\* A write keeps the device a device, and adds its data to the file.
LEMMA PutEffect ==
    ASSUME DeviceTypeOK, use_device \in BOOLEAN, NEW data \in Seq(Byte), Put(data)
    PROVE  /\ DeviceTypeOK'
           /\ use_device => file' = file
           /\ ~use_device => file' = file \o data /\ UNCHANGED device
<1>1. CASE ~use_device
  <2>1. SubSeq(data, 1, Len(data)) = data
    BY SubSeqFull
  <2> QED BY <1>1, <2>1 DEF Put, PutInFile, device, DeviceTypeOK
<1>2. CASE use_device /\ Dev!WritePart(data)
  <2>1. partial \o data \in Seq(Byte)
    BY ConcatProperties DEF DeviceTypeOK
  <2> QED BY <1>2, <2>1 DEF Put, Dev!WritePart, DeviceTypeOK
<1>3. CASE use_device /\ Dev!WriteLine(data)
  <2> DEFINE taken == Dev!Taken(data)
             all == partial \o taken
  <2>1. taken \in Seq(Byte)
    <3> DEFINE k == SelectInSeq(data, LAMBDA b : b = Newline)
    <3>1. \E i \in 1..Len(data) : data[i] = Newline
      <4>1. DOMAIN data = 1..Len(data)
        BY LenProperties
      <4> QED BY <1>3, <4>1, SameOperators DEF Dev!WriteLine, Dev!HasNewline, ToSet
    <3>2. k \in 1..Len(data)
      BY <3>1, FirstPlace
    <3>3. taken = SubSeq(data, 1, k)
      BY <1>3, SameOperators DEF Dev!WriteLine, Dev!Taken
    <3> HIDE DEF k
    <3>4. \A i \in 1..k : data[i] \in Byte
      BY <3>2, LenProperties, ElementOfSeq
    <3>5. SubSeq(data, 1, k) \in Seq(Byte)
      BY <3>2, <3>4, LenProperties, SubSeqProperties
    <3> QED BY <3>3, <3>5
  <2>2. all \in Seq(Byte)
    BY <2>1, ConcatProperties DEF DeviceTypeOK
  <2> HIDE DEF taken
  <2>3. log' \in Seq(Seq(Byte))
    <3>1. Append(log, all) \in Seq(Seq(Byte))
      BY <2>2, AppendProperties DEF DeviceTypeOK
    <3>2. CASE log = <<>>
      <4>1. log' = Append(log, all)
        BY <1>3, <3>2, BoundsAssumption DEF Dev!WriteLine, Dev!Log!Push, taken
      <4> QED BY <3>1, <4>1
    <3>3. CASE log # <<>>
      <4>1. Tail(log) \in Seq(Seq(Byte))
        BY <3>3, HeadTailProperties DEF DeviceTypeOK
      <4>2. Append(Tail(log), all) \in Seq(Seq(Byte))
        BY <2>2, <4>1, AppendProperties
      <4>3. log' \in {Append(log, all), Append(Tail(log), all)}
        BY <1>3 DEF Dev!WriteLine, Dev!Log!Push, taken
      <4> QED BY <3>1, <4>2, <4>3
    <3> QED BY <3>2, <3>3
  <2>4. partial' \in Seq(Byte)
    BY <1>3 DEF Dev!WriteLine
  <2> QED BY <1>3, <2>3, <2>4 DEF Put, Dev!WriteLine, DeviceTypeOK
<1> QED BY <1>1, <1>2, <1>3 DEF Put

\* So does one that fails, but what it adds may be less.
LEMMA PutFailsEffect ==
    ASSUME DeviceTypeOK, use_device \in BOOLEAN, NEW data \in Seq(Byte), PutFails(data)
    PROVE  /\ DeviceTypeOK' /\ UNCHANGED log
           /\ \E d \in Seq(Byte) :
                /\ ToSet(d) \subseteq ToSet(data)
                /\ file' = IF use_device THEN file ELSE file \o d
<1>1. CASE ~use_device
  <2>1. PICK n \in 0..(Len(data) - 1) : PutInFile(data, n)
    BY <1>1 DEF PutFails
  <2>2. n \in 0..Len(data)
    BY LenProperties
  <2>3. /\ SubSeq(data, 1, n) \in Seq(Byte)
        /\ ToSet(SubSeq(data, 1, n)) \subseteq ToSet(data)
    BY <2>2, FirstBytes
  <2>4. file' = file \o SubSeq(data, 1, n)
    BY <2>1 DEF PutInFile
  <2>5. DeviceTypeOK' /\ UNCHANGED log
    BY <1>1 DEF PutFails, device, DeviceTypeOK
  <2> QED BY <1>1, <2>3, <2>4, <2>5
<1>2. CASE use_device
  <2>1. <<>> \in Seq(Byte) /\ ToSet(<<>>) \subseteq ToSet(data)
    BY NothingInside
  <2>2. DeviceTypeOK' /\ UNCHANGED <<log, file>>
    BY <1>2, <2>1 DEF PutFails, Dev!LosePartial, device, DeviceTypeOK
  <2> QED BY <1>2, <2>1, <2>2
<1> QED BY <1>1, <1>2

-----------------------------------------------------------------------------
(* The list *)

\* What is in the list is a client.
LEMMA InsideSeq ==
    ASSUME NEW s \in Seq(Client), NEW c \in ToSet(s)
    PROVE  c \in Client
BY LenProperties, ElementOfSeq DEF ToSet

\* The node behind a node is another node of the list, if there is one.
LEMMA NextInList ==
    ASSUME list \in Seq(Client), IsInjective(list), NEW c \in ToSet(list)
    PROVE  /\ NextOf(c) \in (ToSet(list) \ {c}) \cup {NULL}
           /\ NextOf(c) \in Client \cup {NULL}
<1> DEFINE i == SelectInSeq(list, LAMBDA x : x = c)
<1>1. Len(list) \in Nat /\ DOMAIN list = 1..Len(list)
  BY LenProperties
<1>2. i \in 1..Len(list) /\ list[i] = c
  <2>1. \E j \in 1..Len(list) : list[j] = c
    BY <1>1 DEF ToSet
  <2> QED BY <2>1, FirstPlace
<1>3. NextOf(c) = IF i < Len(list) THEN list[i + 1] ELSE NULL
  BY DEF NextOf
<1> HIDE DEF i
<1>4. CASE i < Len(list)
  <2>1. i + 1 \in 1..Len(list) /\ i + 1 # i
    BY <1>1, <1>2, <1>4
  <2>2. list[i + 1] \in ToSet(list) /\ list[i + 1] # c
    BY <1>1, <1>2, <2>1 DEF ToSet, IsInjective
  <2> QED BY <1>3, <1>4, <2>2, InsideSeq
<1> QED BY <1>3, <1>4

-----------------------------------------------------------------------------
(* Every step *)

\* Variables keep their types.
LEMMA TypesPreserved ==
    ASSUME Inv, Next
    PROVE  Types'
<1> USE NamesAssumption, BoundsAssumption, BuildsAssumption
    DEF Inv, Types, Locking, Threads, Storage, setup, store, device, server, handlers,
             Running,
        InSection
<1> USE DEF TypeOK, DeviceTypeOK, BuildFits
<1>1. ASSUME NEW c \in Client, ThreadStep(c) PROVE Types'
  <2>1. CASE Lock(c)
    BY <2>1 DEF Lock, Go
  <2>2. CASE OpenFails(c)
    BY <2>2 DEF OpenFails, Go
  <2>3. CASE Write(c)
    <3>1. msg[c] \in Seq(Byte)
      <4>1. msg[c] \in {Line(c), Part(c)}
        BY <2>3 DEF Write, Go, MessageFits
      <4>2. Line(c) \in Seq(Byte) /\ Part(c) \in Seq(Byte)
        BY WhatIsWritten
      <4> QED BY <4>1, <4>2
    <3>2. /\ DeviceTypeOK'
          /\ use_device => file' = file
          /\ ~use_device => file' = file \o msg[c]
      BY <2>3, <3>1, PutEffect DEF Write
    <3>3. ASSUME ~use_device PROVE file \in Seq(Byte) /\ file' \in Seq(Byte)
      <4>1. file \in Seq(Byte)
        BY <2>3, <3>3 DEF Write, Go
      <4>2. file \o msg[c] \in Seq(Byte)
        BY <3>1, <4>1, ConcatProperties
      <4> QED BY <3>2, <3>3, <4>1, <4>2
    <3>4. TypeOK'
      BY <2>3, <3>2, <3>3 DEF Write, Go, AfterWrite
    <3>5. BuildFits'
      BY <2>3, <3>3 DEF Write, Go
    <3> QED BY <3>2, <3>4, <3>5
  <2>4. CASE WriteFails(c)
    <3>1. msg[c] \in Seq(Byte)
      <4>1. msg[c] \in {Line(c), Part(c)}
        BY <2>4 DEF WriteFails, Go, MessageFits
      <4>2. Line(c) \in Seq(Byte) /\ Part(c) \in Seq(Byte)
        BY WhatIsWritten
      <4> QED BY <4>1, <4>2
    <3>2. /\ DeviceTypeOK'
          /\ \E d \in Seq(Byte) : file' = IF use_device THEN file ELSE file \o d
      BY <2>4, <3>1, PutFailsEffect DEF WriteFails
    <3>3. ASSUME ~use_device PROVE file \in Seq(Byte) /\ file' \in Seq(Byte)
      <4>1. file \in Seq(Byte)
        BY <2>4, <3>3 DEF WriteFails, Go
      <4>2. PICK d \in Seq(Byte) : file' = file \o d
        BY <3>2, <3>3
      <4> QED BY <4>1, <4>2, ConcatProperties
    <3>4. TypeOK'
      BY <2>4, <3>2, <3>3 DEF WriteFails, Go, AfterWrite
    <3>5. BuildFits'
      BY <2>4, <3>3 DEF WriteFails, Go
    <3> QED BY <3>2, <3>4, <3>5
  <2>5. CASE SeekSucceeds(c)
    <3>1. use_device /\ Len(Dev!Contents) \in Nat
      BY <2>5, StoredBytes, LenProperties DEF SeekSucceeds, Go, MessageFits
    <3> QED BY <2>5, <3>1 DEF SeekSucceeds, Go
  <2>6. CASE SeekFails(c)
    <3>1. DeviceTypeOK'
      BY <2>6 DEF SeekFails, Dev!FailSeek
    <3>2. BuildFits'
      BY <2>6 DEF SeekFails, Go
    <3>3. TypeOK'
      BY <2>6 DEF SeekFails, Go
    <3> QED BY <3>1, <3>2, <3>3
  <2>7. CASE Read(c)
    <3>1. Stored \in Seq(Byte) /\ Len(Stored) \in Nat
      BY <2>7, StoredBytes DEF Read, Go
    <3>2. PICK n \in ReadLengths(c) :
            /\ pos' = [pos EXCEPT ![c] = pos[c] + n]
            /\ reply' = [reply EXCEPT
                           ![c] = reply[c] \o SubSeq(Stored, pos[c] + 1, pos[c] + n)]
      BY <2>7 DEF Read
    <3>3. n \in Nat /\ pos[c] \in Nat /\ pos[c] + n <= Len(Stored)
      BY <3>1 DEF ReadLengths
    <3>4. reply[c] \in Seq(Byte)
      OBVIOUS
    <3>5. reply[c] \o SubSeq(Stored, pos[c] + 1, pos[c] + n) \in Seq(Byte)
      BY ONLY <3>1, <3>3, <3>4, ReadOnType
    <3>6. pos' \in [Client -> Nat]
      <4>1. pos[c] + n \in Nat
        BY <3>3
      <4> QED BY <3>2, <4>1
    <3>7. reply' \in [Client -> Seq(Byte)]
      BY <3>2, <3>5
    <3> QED BY <2>7, <3>6, <3>7 DEF Read, Go
  <2>11. CASE ReadEnds(c)
    BY <2>11 DEF ReadEnds, Go
  <2>8. CASE Unlock(c)
    BY <2>8 DEF Unlock, Go, Forget
  <2>9. CASE ThreadExits(c)
    BY <2>9 DEF ThreadExits, Go
  <2>10. CASE Cancelled(c)
    BY <2>10 DEF Cancelled, Go, Forget
  <2> QED BY <2>1, <2>2, <2>3, <2>4, <2>5, <2>6, <2>7, <2>8, <2>9, <2>10, <2>11,
         <1>1 DEF ThreadStep
<1>2. ASSUME NEW c \in Client, ClientStep(c) PROVE Types'
  <2>1. CASE Recv(c)
    <3>1. {Line(c), Part(c)} \subseteq Data
      BY WhatIsWritten
    <3>2. PICK m \in {Line(c), Part(c)} \cup {x \in {Seek} : use_device} :
            msg' = [msg EXCEPT ![c] = m]
      BY <2>1 DEF Recv
    <3>3. m \in Data \cup {Seek, NULL}
      BY <3>1, <3>2
    <3>4. msg' \in [Client -> Data \cup {Seek, NULL}]
      BY <3>2, <3>3
    <3>5. sent' \in 0..MaxSent /\ pc' \in [Client -> {"none", "recv", "lock", "write",
                           "unopened", "read", "send", "close", "done", "finished"}]
      BY <2>1 DEF Recv, Go
    <3>6. UNCHANGED <<setup, store, server, file_mut, ts, pos, reply,
                     operation_complete, cancelled>>
      BY <2>1 DEF Recv, Go
    <3> QED BY <3>4, <3>5, <3>6
  <2>2. CASE RecvEnds(c)
    BY <2>2 DEF RecvEnds, Go
  <2>3. CASE BrokenPipe(c)
    BY <2>3 DEF BrokenPipe
  <2>4. CASE SendReturns(c)
    BY <2>4 DEF SendReturns, Go
  <2> QED BY <2>1, <2>2, <2>3, <2>4, <1>2 DEF ClientStep
<1>3. CASE TimestampStep \/ TsFails
  <2>1. CASE TsCheck
    BY <2>1 DEF TsCheck, TsGo
  <2>2. CASE TsWakes
    BY <2>2 DEF TsWakes, TsGo
  <2>3. CASE TsLock
    BY <2>3 DEF TsLock, TsGo
  <2>4. CASE TsWrite
    <3>1. PICK n \in 0..Len(Stamp) : PutInFile(Stamp, n)
      BY <2>4 DEF TsWrite
    <3>2. file \in Seq(Byte) /\ file' \in Seq(Byte)
      BY <2>4, <3>1, WhatIsWritten, FirstBytes, ConcatProperties DEF TsWrite, TsGo, PutInFile
    <3> QED BY <2>4, <3>2 DEF TsWrite, TsGo
  <2>5. CASE TsCancelled
    BY <2>5 DEF TsCancelled, TsGo
  <2>6. CASE TsFails
    BY <2>6 DEF TsFails, TsGo
  <2> QED BY <2>1, <2>2, <2>3, <2>4, <2>5, <2>6, <1>3 DEF TimestampStep
<1>4. CASE MainStep
  <2>1. CASE CheckFlag
    BY <2>1 DEF CheckFlag, MainOnly, MainGo
  <2>2. CASE EnterAccept
    BY <2>2 DEF EnterAccept, MainOnly, MainGo
  <2>3. CASE Scan
    <3>1. current' \in Client \cup {NULL}
      BY <2>3, NextInList DEF Scan, ScanEnd, ScanNode, MainOnly, MainGo,
         ThreadsAccounted
    <3> QED BY <2>3, <3>1 DEF Scan, ScanEnd, ScanNode, MainOnly, MainGo
  <2>4. CASE Reap
    <3>1. /\ current \in ToSet(list) /\ IsInjective(list)
      BY <2>4 DEF Reap, MainGo, ThreadsAccounted
    <3>2. NextOf(current) \in Client \cup {NULL}
      BY <3>1, NextInList
    <3>3. current \in Client /\ RemoveNode(current) \in Seq(Client)
      BY <3>1, InsideSeq, WithoutOne DEF RemoveNode
    <3> QED BY <2>4, <3>2, <3>3 DEF Reap, MainGo, FreeNode
  <2>5. CASE CancelHead
    <3>1. Head(list) \in Client
      BY <2>5, HeadTailProperties DEF CancelHead
    <3> QED BY <2>5, <3>1 DEF CancelHead, MainGo
  <2>6. CASE JoinHead
    <3>1. Tail(list) \in Seq(Client) /\ current \in Client
      BY <2>6, HeadTailProperties DEF JoinHead, MainGo, CleanupAtHead
    <3> QED BY <2>6, <3>1 DEF JoinHead, MainGo, FreeNode, RemoveHead
  <2>7. CASE FreeAndExit
    BY <2>7 DEF FreeAndExit, MainOnly, MainGo
  <2>8. CASE CancelTimestamp
    BY <2>8 DEF CancelTimestamp, MainGo
  <2>9. CASE JoinTimestamp
    BY <2>9 DEF JoinTimestamp, MainGo, AfterRemove
  <2>10. CASE CancelUnset
    BY <2>10 DEF CancelUnset, MainGo, AfterRemove
  <2> QED BY <2>1, <2>2, <2>3, <2>4, <2>5, <2>6, <2>7, <2>8, <2>9, <2>10, <1>4 DEF
           MainStep
<1>5. CASE AcceptStep
  <2>1. CASE AcceptFails
    BY <2>1 DEF AcceptFails, MainOnly, MainGo
  <2>2. CASE NoClientNode
    BY <2>2 DEF NoClientNode, MainGo, StartTimestamp
  <2>3. ASSUME NEW c \in Client, Accept(c) PROVE Types'
    <3>1. <<c>> \o list \in Seq(Client)
      BY ConcatProperties
    <3> QED BY <2>3, <3>1 DEF Accept, Connect, StartTimestamp, MainGo, AddToStart
  <2>4. ASSUME NEW c \in Client, NoListNode(c) PROVE Types'
    BY <2>4 DEF NoListNode, Connect, StartTimestamp, MainGo
  <2> QED BY <2>1, <2>2, <2>3, <2>4, <1>5 DEF AcceptStep
<1>6. CASE Signal \/ Start \/ StartFails \/ ReloadModule
  <2>1. CASE Signal
    BY <2>1 DEF Signal
  <2>2. CASE Start
    <3>1. <<>> \in Seq(Byte) /\ <<>> \in Seq(Client)
      BY EmptySeq
    <3> QED BY <2>2, <3>1 DEF Start, Boot, AfterRemove
  <2>3. CASE StartFails
    BY <2>3 DEF StartFails, AfterRemove
  <2>4. CASE ReloadModule
    <3>1. <<>> \in Seq(Byte) /\ <<>> \in Seq(Seq(Byte))
      BY EmptySeq
    <3> QED BY <2>4, <3>1 DEF ReloadModule, Dev!Reset
  <2> QED BY <2>1, <2>2, <2>3, <2>4, <1>6
<1> QED BY <1>1, <1>2, <1>3, <1>4, <1>5, <1>6 DEF Next

\* One thread begins to answer a message of its own.
LEMMA OneThreadAnswers ==
    ASSUME MessageFits, UNCHANGED use_device, NEW c \in Client,
           \A d \in Client : d # c => /\ pc'[d] = pc[d] /\ msg'[d] = msg[d]
                                     /\ pos'[d] = pos[d] /\ reply'[d] = reply[d],
           Answering(c)', msg'[c] \in {Line(c), Part(c)} \cup {Seek},
           msg'[c] = Seek => use_device,
           pc'[c] \in {"read", "send"} => msg'[c] # Part(c)
    PROVE  MessageFits'
BY DEF MessageFits, InSection, Answering, Line, Part

\* Only the owner of the mutex is between lock and unlock, and has what it needs.
LEMMA LockingPreserved ==
    ASSUME Inv, Next
    PROVE  Locking'
<1> USE NamesAssumption, BoundsAssumption, BuildsAssumption
    DEF Inv, Types, Locking, Threads, Storage, setup, store, device, server, handlers,
             Running,
        InSection
<1> USE DEF MutexHeld, MessageFits, OrphanedOnlyInCleanup, Orphaned, Finished,
         InLoop, TypeOK, Answering
<1>1. ASSUME NEW c \in Client, ThreadStep(c) PROVE Locking'
  <2>1. CASE Lock(c)
    BY <2>1 DEF Lock, Go
  <2>2. CASE OpenFails(c)
    BY <2>2 DEF OpenFails, Go
  <2>3. CASE Write(c)
    <3>1. MutexHeld' /\ OrphanedOnlyInCleanup'
      BY <2>3 DEF Write, Go, AfterWrite
    <3>2. MessageFits'
      <4>1. \A d \in Client : d # c => /\ pc'[d] = pc[d] /\ msg'[d] = msg[d]
                                      /\ pos'[d] = pos[d] /\ reply'[d] = reply[d]
        BY <2>3 DEF Write, Go, AfterWrite
      <4>2. /\ Answering(c)' /\ UNCHANGED <<use_device, msg>>
            /\ msg[c] \in {Line(c), Part(c)} \cup {Seek}
            /\ msg[c] = Seek => use_device
        BY <2>3 DEF Write, Go, AfterWrite
      <4>3. pc'[c] \in {"read", "send"} => msg[c] # Part(c)
        BY <2>3, WhatIsWritten DEF Write, Go, AfterWrite
      <4> QED BY <4>1, <4>2, <4>3, OneThreadAnswers
    <3> QED BY <3>1, <3>2
  <2>4. CASE WriteFails(c)
    <3>1. MutexHeld' /\ OrphanedOnlyInCleanup'
      BY <2>4 DEF WriteFails, Go, AfterWrite
    <3>2. MessageFits'
      <4>1. \A d \in Client : d # c => /\ pc'[d] = pc[d] /\ msg'[d] = msg[d]
                                      /\ pos'[d] = pos[d] /\ reply'[d] = reply[d]
        BY <2>4 DEF WriteFails, Go, AfterWrite
      <4>2. /\ Answering(c)' /\ UNCHANGED <<use_device, msg>>
            /\ msg[c] \in {Line(c), Part(c)} \cup {Seek}
            /\ msg[c] = Seek => use_device
        BY <2>4 DEF WriteFails, Go, AfterWrite
      <4>3. pc'[c] \in {"read", "send"} => msg[c] # Part(c)
        BY <2>4, WhatIsWritten DEF WriteFails, Go, AfterWrite
      <4> QED BY <4>1, <4>2, <4>3, OneThreadAnswers
    <3> QED BY <3>1, <3>2
  <2>5. CASE SeekSucceeds(c)
    <3>1. MutexHeld' /\ OrphanedOnlyInCleanup'
      BY <2>5 DEF SeekSucceeds, Go
    <3>2. MessageFits'
      <4>1. \A d \in Client : d # c => /\ pc'[d] = pc[d] /\ msg'[d] = msg[d]
                                      /\ pos'[d] = pos[d] /\ reply'[d] = reply[d]
        BY <2>5 DEF SeekSucceeds, Go
      <4>2. /\ Answering(c)' /\ UNCHANGED <<use_device, msg>>
            /\ msg[c] \in {Line(c), Part(c)} \cup {Seek}
            /\ msg[c] = Seek => use_device
        BY <2>5 DEF SeekSucceeds, Go
      <4>3. pc'[c] \in {"read", "send"} => msg[c] # Part(c)
        BY <2>5, WhatIsWritten DEF SeekSucceeds, Go
      <4> QED BY <4>1, <4>2, <4>3, OneThreadAnswers
    <3> QED BY <3>1, <3>2
  <2>6. CASE SeekFails(c)
    <3>1. MutexHeld' /\ OrphanedOnlyInCleanup'
      BY <2>6 DEF SeekFails, Go
    <3>2. MessageFits'
      <4>1. \A d \in Client : d # c => /\ pc'[d] = pc[d] /\ msg'[d] = msg[d]
                                      /\ pos'[d] = pos[d] /\ reply'[d] = reply[d]
        BY <2>6 DEF SeekFails, Go
      <4>2. /\ Answering(c)' /\ UNCHANGED <<use_device, msg>>
            /\ msg[c] \in {Line(c), Part(c)} \cup {Seek}
            /\ msg[c] = Seek => use_device
        BY <2>6 DEF SeekFails, Go
      <4>3. pc'[c] \in {"read", "send"} => msg[c] # Part(c)
        BY <2>6, WhatIsWritten DEF SeekFails, Go
      <4> QED BY <4>1, <4>2, <4>3, OneThreadAnswers
    <3> QED BY <3>1, <3>2
  <2>7. CASE Read(c)
    BY <2>7 DEF Read, Go
  <2>11. CASE ReadEnds(c)
    BY <2>11 DEF ReadEnds, Go
  <2>8. CASE Unlock(c)
    BY <2>8 DEF Unlock, Go, Forget
  <2>9. CASE ThreadExits(c)
    BY <2>9 DEF ThreadExits, Go
  <2>10. CASE Cancelled(c)
    BY <2>10 DEF Cancelled, Go, Forget
  <2> QED BY <2>1, <2>2, <2>3, <2>4, <2>5, <2>6, <2>7, <2>8, <2>9, <2>10, <2>11,
         <1>1 DEF ThreadStep
<1>2. ASSUME NEW c \in Client, ClientStep(c) PROVE Locking'
  <2>1. CASE Recv(c)
    <3>1. MutexHeld' /\ OrphanedOnlyInCleanup'
      BY <2>1 DEF Recv, Go
    <3>2. MessageFits'
      <4>1. msg' = [msg EXCEPT ![c] = msg'[c]] /\ msg'[c] \in {Line(c), Part(c)}
               \cup {Seek}
        BY <2>1 DEF Recv
      <4>2. msg'[c] = Seek => use_device
        BY <2>1, WhatIsWritten DEF Recv
      <4> QED BY <2>1, <4>1, <4>2 DEF Recv, Go
    <3> QED BY <3>1, <3>2
  <2>2. CASE RecvEnds(c)
    BY <2>2 DEF RecvEnds, Go
  <2>3. CASE BrokenPipe(c)
    BY <2>3 DEF BrokenPipe
  <2>4. CASE SendReturns(c)
    BY <2>4 DEF SendReturns, Go
  <2> QED BY <2>1, <2>2, <2>3, <2>4, <1>2 DEF ClientStep
<1>3. CASE TimestampStep \/ TsFails
  <2>1. CASE TsCheck
    BY <2>1 DEF TsCheck, TsGo
  <2>2. CASE TsWakes
    BY <2>2 DEF TsWakes, TsGo
  <2>3. CASE TsLock
    BY <2>3 DEF TsLock, TsGo
  <2>4. CASE TsWrite
    BY <2>4 DEF TsWrite, TsGo
  <2>5. CASE TsCancelled
    BY <2>5 DEF TsCancelled, TsGo
  <2>6. CASE TsFails
    BY <2>6 DEF TsFails, TsGo
  <2> QED BY <2>1, <2>2, <2>3, <2>4, <2>5, <2>6, <1>3 DEF TimestampStep
<1>4. CASE MainStep
  <2>1. CASE CheckFlag
    BY <2>1 DEF CheckFlag, MainOnly, MainGo
  <2>2. CASE EnterAccept
    BY <2>2 DEF EnterAccept, MainOnly, MainGo
  <2>3. CASE Scan
    BY <2>3 DEF Scan, ScanEnd, ScanNode, MainOnly, MainGo
  <2>4. CASE Reap
    BY <2>4 DEF Reap, MainGo, FreeNode
  <2>5. CASE CancelHead
    BY <2>5 DEF CancelHead, MainGo
  <2>6. CASE JoinHead
    BY <2>6 DEF JoinHead, MainGo, FreeNode, RemoveHead
  <2>7. CASE FreeAndExit
    BY <2>7 DEF FreeAndExit, MainOnly, MainGo
  <2>8. CASE CancelTimestamp
    BY <2>8 DEF CancelTimestamp, MainGo
  <2>9. CASE JoinTimestamp
    BY <2>9 DEF JoinTimestamp, MainGo, AfterRemove
  <2>10. CASE CancelUnset
    BY <2>10 DEF CancelUnset, MainGo, AfterRemove
  <2> QED BY <2>1, <2>2, <2>3, <2>4, <2>5, <2>6, <2>7, <2>8, <2>9, <2>10, <1>4 DEF
           MainStep
<1>5. CASE AcceptStep
  <2>1. CASE AcceptFails
    BY <2>1 DEF AcceptFails, MainOnly, MainGo
  <2>2. CASE NoClientNode
    BY <2>2 DEF NoClientNode, MainGo, StartTimestamp
  <2>3. ASSUME NEW c \in Client, Accept(c) PROVE Locking'
    BY <2>3 DEF Accept, Connect, StartTimestamp, MainGo, AddToStart
  <2>4. ASSUME NEW c \in Client, NoListNode(c) PROVE Locking'
    BY <2>4 DEF NoListNode, Connect, StartTimestamp, MainGo
  <2> QED BY <2>1, <2>2, <2>3, <2>4, <1>5 DEF AcceptStep
<1>6. CASE Signal \/ Start \/ StartFails \/ ReloadModule
  <2>1. CASE Signal
    BY <2>1 DEF Signal
  <2>2. CASE Start
    BY <2>2 DEF Start, Boot
  <2>3. CASE StartFails
    BY <2>3 DEF StartFails
  <2>4. CASE ReloadModule
    BY <2>4 DEF ReloadModule, Dev!Reset
  <2> QED BY <2>1, <2>2, <2>3, <2>4, <1>6
<1> QED BY <1>1, <1>2, <1>3, <1>4, <1>5, <1>6 DEF Next

\* A step of a client's thread changes nothing of what main keeps.
LEMMA GoKeepsThreads ==
    ASSUME Inv, NEW c \in Client, NEW from, NEW to, Go(c, from, to),
           from \notin {"none", "finished"}, to # "none"
    PROVE  Threads'
BY DEF Go, Inv, Types, Threads, server, CleanupAtHead, FreedAfterJoin, ThreadsAccounted,
       Started, Finished, Running, TypeOK, InLoop

\* Nor does a step of the timestamp thread.
LEMMA TsGoKeepsThreads ==
    ASSUME Inv, NEW from, NEW to, TsGo(from, to),
           from \in {"check", "sleep", "lock", "write"}
    PROVE  Threads'
BY DEF TsGo, Inv, Types, Threads, server, CleanupAtHead, FreedAfterJoin, ThreadsAccounted,
       Started, Finished, Running, TypeOK, InLoop

\* Main accounts for every thread, and frees nothing that one of them uses.
LEMMA ThreadsPreserved ==
    ASSUME Inv, Next
    PROVE  Threads'
<1> USE NamesAssumption, BoundsAssumption, BuildsAssumption
    DEF Inv, Types, Locking, Threads, Storage, setup, store, device, server, handlers,
             Running,
        InSection
<1> USE DEF CleanupAtHead, FreedAfterJoin, ThreadsAccounted, Started, Finished,
         TypeOK, BuildFits, InLoop
<1>1. ASSUME NEW c \in Client, ThreadStep(c) PROVE Threads'
  <2>1. CASE Lock(c)
    BY <2>1, GoKeepsThreads DEF Lock
  <2>2. CASE OpenFails(c)
    BY <2>2, GoKeepsThreads DEF OpenFails
  <2>3. CASE Write(c)
    BY <2>3, GoKeepsThreads DEF Write, AfterWrite
  <2>4. CASE WriteFails(c)
    BY <2>4, GoKeepsThreads DEF WriteFails, AfterWrite
  <2>5. CASE SeekSucceeds(c)
    BY <2>5, GoKeepsThreads DEF SeekSucceeds
  <2>6. CASE SeekFails(c)
    BY <2>6, GoKeepsThreads DEF SeekFails
  <2>7. CASE Read(c)
    BY <2>7, GoKeepsThreads DEF Read
  <2>11. CASE ReadEnds(c)
    BY <2>11, GoKeepsThreads DEF ReadEnds
  <2>8. CASE Unlock(c)
    BY <2>8, GoKeepsThreads DEF Unlock
  <2>9. CASE ThreadExits(c)
    <3>1. Go(c, "done", "finished")
      BY <2>9 DEF ThreadExits
    <3>2. "done" \notin {"none", "finished"} /\ "finished" # "none"
      OBVIOUS
    <3> QED BY <3>1, <3>2, GoKeepsThreads
  <2>10. CASE Cancelled(c)
    <3>1. PICK from \in {"recv", "write", "unopened", "read", "send", "close"} :
            Go(c, from, "finished")
      BY <2>10 DEF Cancelled
    <3>2. from \notin {"none", "finished"}
      BY <3>1
    <3> QED BY <3>1, <3>2, GoKeepsThreads
  <2> QED BY <2>1, <2>2, <2>3, <2>4, <2>5, <2>6, <2>7, <2>8, <2>9, <2>10, <2>11,
         <1>1 DEF ThreadStep
<1>2. ASSUME NEW c \in Client, ClientStep(c) PROVE Threads'
  <2>1. CASE Recv(c)
    BY <2>1, GoKeepsThreads DEF Recv
  <2>2. CASE RecvEnds(c)
    BY <2>2, GoKeepsThreads DEF RecvEnds
  <2>3. CASE BrokenPipe(c)
    BY <2>3 DEF BrokenPipe
  <2>4. CASE SendReturns(c)
    BY <2>4 DEF SendReturns, Go
  <2> QED BY <2>1, <2>2, <2>3, <2>4, <1>2 DEF ClientStep
<1>3. CASE TimestampStep \/ TsFails
  <2>1. CASE TsCheck
    BY <2>1, TsGoKeepsThreads DEF TsCheck
  <2>2. CASE TsWakes
    BY <2>2, TsGoKeepsThreads DEF TsWakes
  <2>3. CASE TsLock
    BY <2>3, TsGoKeepsThreads DEF TsLock
  <2>4. CASE TsWrite
    BY <2>4, TsGoKeepsThreads DEF TsWrite
  <2>5. CASE TsCancelled
    BY <2>5, TsGoKeepsThreads DEF TsCancelled
  <2>6. CASE TsFails
    BY <2>6, TsGoKeepsThreads DEF TsFails
  <2> QED BY <2>1, <2>2, <2>3, <2>4, <2>5, <2>6, <1>3 DEF TimestampStep
<1>4. CASE MainStep
  <2>1. CASE CheckFlag
    BY <2>1 DEF CheckFlag, MainOnly, MainGo
  <2>2. CASE EnterAccept
    BY <2>2 DEF EnterAccept, MainOnly, MainGo
  <2>3. CASE Scan
    <3>1. CASE ScanEnd
      BY <3>1 DEF ScanEnd, MainOnly, MainGo
    <3>2. CASE ScanNode
      <4>1. current \in ToSet(list) /\ NextOf(current) \in ToSet(list) \cup {NULL}
        BY <3>2, NextInList DEF ScanNode, MainOnly, MainGo
      <4> QED BY <3>2, <4>1 DEF ScanNode, MainOnly, MainGo
    <3> QED BY <2>3, <3>1, <3>2 DEF Scan
  <2>4. CASE Reap
    <3>1. /\ current \in ToSet(list) /\ current \notin freed
          /\ list \in Seq(Client) /\ IsInjective(list)
      BY <2>4 DEF Reap, MainGo
    <3>2. NextOf(current) \in (ToSet(list) \ {current}) \cup {NULL}
      BY <3>1, NextInList
    <3>3. /\ list' = RemoveNode(current) /\ IsInjective(list')
          /\ ToSet(list') = ToSet(list) \ {current}
      BY <2>4, <3>1, WithoutOne DEF Reap, FreeNode, RemoveNode
    <3> QED BY <2>4, <3>1, <3>2, <3>3 DEF Reap, MainGo, FreeNode
  <2>5. CASE CancelHead
    <3>1. Head(list) \in ToSet(list)
      BY <2>5, WithoutFirst DEF CancelHead
    <3> QED BY <2>5, <3>1 DEF CancelHead, MainGo
  <2>6. CASE JoinHead
    <3>1. list # <<>> /\ current = Head(list)
      BY <2>6 DEF JoinHead, MainGo
    <3>2. /\ list' = Tail(list) /\ IsInjective(list') /\ current \in ToSet(list)
          /\ ToSet(list') = ToSet(list) \ {current}
      BY <2>6, <3>1, WithoutFirst DEF JoinHead, FreeNode, RemoveHead
    <3> QED BY <2>6, <3>1, <3>2 DEF JoinHead, MainGo, FreeNode
  <2>7. CASE FreeAndExit
    BY <2>7, NothingInside DEF FreeAndExit, MainOnly, MainGo
  <2>8. CASE CancelTimestamp
    BY <2>8 DEF CancelTimestamp, MainGo
  <2>9. CASE JoinTimestamp
    BY <2>9, NothingInside DEF JoinTimestamp, MainGo
  <2>10. CASE CancelUnset
    BY <2>10, NothingInside DEF CancelUnset, MainGo
  <2> QED BY <2>1, <2>2, <2>3, <2>4, <2>5, <2>6, <2>7, <2>8, <2>9, <2>10, <1>4 DEF
           MainStep
<1>5. CASE AcceptStep
  <2>1. CASE AcceptFails
    BY <2>1 DEF AcceptFails, MainOnly, MainGo
  <2>2. CASE NoClientNode
    BY <2>2 DEF NoClientNode, MainGo, StartTimestamp
  <2>3. ASSUME NEW c \in Client, Accept(c) PROVE Threads'
    <3>1. c \notin ToSet(list)
      BY <2>3 DEF Accept, Connect
    <3>2. IsInjective(list') /\ ToSet(list') = ToSet(list) \cup {c}
      BY <2>3, <3>1, WithFirst DEF Accept, AddToStart
    <3> QED BY <2>3, <3>2 DEF Accept, Connect, StartTimestamp, MainGo
  <2>4. ASSUME NEW c \in Client, NoListNode(c) PROVE Threads'
    BY <2>4 DEF NoListNode, Connect, StartTimestamp, MainGo
  <2> QED BY <2>1, <2>2, <2>3, <2>4, <1>5 DEF AcceptStep
<1>6. CASE Signal \/ Start \/ StartFails \/ ReloadModule
  <2>1. CASE Signal
    BY <2>1 DEF Signal
  <2>2. CASE Start
    BY <2>2, NothingInside DEF Start, Boot
  <2>3. CASE StartFails
    BY <2>3 DEF StartFails
  <2>4. CASE ReloadModule
    BY <2>4 DEF ReloadModule, Dev!Reset
  <2> QED BY <2>1, <2>2, <2>3, <2>4, <1>6
<1> QED BY <1>1, <1>2, <1>3, <1>4, <1>5, <1>6 DEF Next

\* What c has read so far is not disturbed.
AnswerKept(c) ==
    Answering(c)' => /\ Answering(c)
                     /\ pc'[c] = "close" => pc[c] = "close"
                     /\ msg'[c] = msg[c] /\ pos'[c] = pos[c] /\ reply'[c] = reply[c]

\* Nothing is said of what is stored by a step that leaves it alone, begins and
\* ends no answer and forgets no thread.
LEMMA StorageKept ==
    ASSUME Inv, UNCHANGED setup,
           Running' => Running /\ UNCHANGED <<log, file>>,
           Started \subseteq Started',
           ts' \in {"unset", "failed"} => ts \in {"unset", "failed"},
           \A c \in Client : AnswerKept(c)
    PROVE  Storage'
<1> USE DEF Inv, Storage, setup
<1>1. AnswerSoFar'
  <2> SUFFICES ASSUME NEW c \in Client, Running', Answering(c)'
               PROVE  /\ ReadSoFar(reply'[c], pos'[c], Stored')
                      /\ msg'[c] = Line(c) => Len(reply'[c]) = pos'[c]
                      /\ pc'[c] = "close" /\ msg'[c] # Part(c) => pos'[c] = Len(Stored')
    BY DEF AnswerSoFar, Line, Part
  <2>1. Stored' = Stored
    BY DEF Stored, Dev!Contents
  <2>2. /\ Running /\ Answering(c)
        /\ pc'[c] = "close" => pc[c] = "close"
        /\ msg'[c] = msg[c] /\ pos'[c] = pos[c] /\ reply'[c] = reply[c]
    BY DEF AnswerKept
  <2>3. /\ ReadSoFar(reply[c], pos[c], Stored)
        /\ msg[c] = Line(c) => Len(reply[c]) = pos[c]
        /\ pc[c] = "close" /\ msg[c] # Part(c) => pos[c] = Len(Stored)
    BY <2>2 DEF AnswerSoFar
  <2> QED BY <2>1, <2>2, <2>3
<1>2. FileIsOfThisRun'
  BY DEF FileIsOfThisRun, Running
<1> QED BY <1>1, <1>2

\* A thread that owns the mutex begins to answer; whatever it wrote, nobody else
\* is answering.
LEMMA AnswerBegins ==
    ASSUME Inv, NEW c \in Client, Running, pc[c] = "write", UNCHANGED main,
           \A d \in Client : d # c => pc'[d] = pc[d],
           reply'[c] = <<>>, pos'[c] \in Nat,
           Stored' \in Seq(Byte), pos'[c] <= Len(Stored'),
           msg'[c] = Line(c) => pos'[c] = 0,
           pc'[c] = "close" => msg'[c] = Part(c)
    PROVE  AnswerSoFar'
<1>1. \A d \in Client : d # c => ~Answering(d)'
  BY DEF Inv, Locking, MutexHeld, InSection, Answering
<1>2. SubSeq(Stored', pos'[c] - 0 + 1, pos'[c]) = <<>> /\ Len(<<>>) = 0
  BY EmptySeq
<1>3. Len(reply'[c]) = 0 /\ 0 <= pos'[c]
  BY <1>2
<1>4. ReadSoFar(reply'[c], pos'[c], Stored')
  BY <1>2, <1>3 DEF ReadSoFar
<1> QED BY <1>1, <1>3, <1>4 DEF AnswerSoFar, Line, Part

\* What is added to the file comes from a thread of this process.
LEMMA FileGrows ==
    ASSUME Inv, Running, ~use_device, NEW data \in Seq(Byte),
           file' = file \o data, UNCHANGED <<setup, main>>,
           Started \subseteq Started',
           ts \notin {"unset", "failed"} => ts' \notin {"unset", "failed"},
           ToSet(data) \cap Client \subseteq Started',
           Timestamp \in ToSet(data) => ts' \notin {"unset", "failed"}
    PROVE  FileIsOfThisRun'
<1>1. file \in Seq(Byte)
  BY DEF Inv, Types, BuildFits
<1>2. ToSet(file') = ToSet(file) \cup ToSet(data)
  BY <1>1, InsideBoth
<1> QED BY <1>2 DEF Inv, Storage, FileIsOfThisRun, Running, setup

\* Nobody writes while an answer is being sent.
LEMMA StoragePreserved ==
    ASSUME Inv, Next
    PROVE  Storage'
<1> USE NamesAssumption, BoundsAssumption, BuildsAssumption
    DEF Inv, Types, Locking, Threads, Storage, setup, store, device, server, handlers,
             Running,
        InSection
<1> USE DEF FileIsOfThisRun, Started
<1>1. ASSUME NEW c \in Client, ThreadStep(c) PROVE Storage'
  <2>1. CASE Lock(c)
    BY <2>1, StorageKept DEF Lock, Go, AnswerKept, Answering
  <2>2. CASE OpenFails(c)
    BY <2>2, StorageKept DEF OpenFails, Go, AnswerKept, Answering
  <2>3. CASE Write(c)
    <3>1. /\ Running /\ pc[c] = "write" /\ file_mut = c
          /\ msg[c] \in {Line(c), Part(c)}
          /\ \A d \in Client : d # c => pc'[d] = pc[d]
          /\ UNCHANGED <<setup, main, ts>>
      BY <2>3 DEF Write, Go, MutexHeld, MessageFits, TypeOK
    <3>2. msg[c] \in Seq(Byte) /\ ToSet(msg[c]) \subseteq {c, Newline}
      BY <3>1, WhatIsWritten
    <3>3. DeviceTypeOK' /\ (use_device => file' = file)
          /\ (~use_device => file' = file \o msg[c])
      BY <2>3, <3>2, PutEffect DEF Write, TypeOK
    <3>4. Stored' \in Seq(Byte) /\ 0 <= Len(Stored')
      <4>1. ASSUME ~use_device PROVE StoreTypeOK'
        <5>1. file \in Seq(Byte)
          BY <3>1, <4>1 DEF BuildFits
        <5>2. file \o msg[c] \in Seq(Byte)
          BY <3>2, <5>1, ConcatProperties
        <5>3. file' \in Seq(Byte)
          BY <3>3, <4>1, <5>2
        <5> QED BY <3>3, <5>3 DEF StoreTypeOK
      <4>2. ASSUME use_device PROVE StoreTypeOK'
        BY <3>1, <3>3, <4>2 DEF StoreTypeOK
      <4>3. StoreTypeOK'
        BY <4>1, <4>2 DEF TypeOK
      <4>4. StoreTypeOK' => StoredIsBytes'
        BY BytesAreStored, PTL
      <4> QED BY <4>3, <4>4 DEF StoredIsBytes
    <3>5. AnswerSoFar'
      <4>1. /\ reply'[c] = <<>> /\ pos'[c] = 0 /\ msg' = msg
            /\ pc'[c] = "close" => msg'[c] = Part(c)
        BY <2>3, <3>1 DEF Write, Go, AfterWrite, MessageFits, Answering, TypeOK
      <4> QED BY <3>1, <3>4, <4>1, AnswerBegins
    <3>6. FileIsOfThisRun'
      <4>1. CASE use_device
        BY <3>1, <4>1
      <4>2. CASE ~use_device
        <5>1. Started' = Started /\ c \in Started
          BY <2>3, <3>1, <4>2 DEF Write, Go, AfterWrite
        <5> QED BY <3>1, <3>2, <3>3, <4>2, <5>1, FileGrows
      <4> QED BY <4>1, <4>2
    <3> QED BY <3>5, <3>6
  <2>4. CASE WriteFails(c)
    <3>1. /\ Running /\ pc[c] = "write" /\ file_mut = c
          /\ msg[c] \in {Line(c), Part(c)}
          /\ \A d \in Client : d # c => pc'[d] = pc[d]
          /\ UNCHANGED <<setup, main, ts>>
      BY <2>4 DEF WriteFails, Go, MutexHeld, MessageFits, TypeOK
    <3>2. msg[c] \in Seq(Byte) /\ ToSet(msg[c]) \subseteq {c, Newline}
      BY <3>1, WhatIsWritten
    <3>3. PICK data \in Seq(Byte) :
            /\ DeviceTypeOK' /\ ToSet(data) \subseteq {c, Newline}
            /\ file' = IF use_device THEN file ELSE file \o data
      BY <2>4, <3>2, PutFailsEffect DEF WriteFails, TypeOK
    <3>4. Stored' \in Seq(Byte) /\ 0 <= Len(Stored')
      <4>1. ASSUME ~use_device PROVE StoreTypeOK'
        <5>1. file \in Seq(Byte)
          BY <3>1, <4>1 DEF BuildFits
        <5>2. file \o data \in Seq(Byte)
          BY <5>1, ConcatProperties
        <5>3. file' \in Seq(Byte)
          BY <3>3, <4>1, <5>2
        <5> QED BY <3>3, <5>3 DEF StoreTypeOK
      <4>2. ASSUME use_device PROVE StoreTypeOK'
        BY <3>1, <3>3, <4>2 DEF StoreTypeOK
      <4>3. StoreTypeOK'
        BY <4>1, <4>2 DEF TypeOK
      <4>4. StoreTypeOK' => StoredIsBytes'
        BY BytesAreStored, PTL
      <4> QED BY <4>3, <4>4 DEF StoredIsBytes
    <3>5. AnswerSoFar'
      <4>1. /\ reply'[c] = <<>> /\ pos'[c] = 0 /\ msg' = msg
            /\ pc'[c] = "close" => msg'[c] = Part(c)
        BY <2>4, <3>1 DEF WriteFails, Go, AfterWrite, MessageFits, Answering, TypeOK
      <4> QED BY <3>1, <3>4, <4>1, AnswerBegins
    <3>6. FileIsOfThisRun'
      <4>1. CASE use_device
        BY <3>1, <4>1
      <4>2. CASE ~use_device
        <5>1. Started' = Started /\ c \in Started
          BY <2>4, <3>1, <4>2 DEF WriteFails, Go, AfterWrite
        <5> QED BY <3>1, <3>3, <4>2, <5>1, FileGrows
      <4> QED BY <4>1, <4>2
    <3> QED BY <3>5, <3>6
  <2>5. CASE SeekSucceeds(c)
    <3>1. /\ Running /\ pc[c] = "write" /\ msg[c] = Seek /\ use_device
          /\ \A d \in Client : d # c => pc'[d] = pc[d]
          /\ pc'[c] = "read" /\ msg' = msg /\ reply'[c] = <<>>
          /\ UNCHANGED <<setup, main, ts, store>>
      BY <2>5 DEF SeekSucceeds, Go, MessageFits, Answering, TypeOK
    <3>2. Stored \in Seq(Byte) /\ Len(Stored) \in Nat /\ Stored = Dev!Contents
      BY <3>1, StoredBytes DEF Stored
    <3>3. Stored' = Stored
      BY <3>1 DEF Stored, Dev!Contents
    <3>4. pos'[c] \in Nat /\ pos'[c] <= Len(Stored')
      BY <2>5, <3>2, <3>3 DEF SeekSucceeds, TypeOK
    <3>5. AnswerSoFar'
      BY <3>1, <3>2, <3>3, <3>4, WhatIsWritten, AnswerBegins
    <3> QED BY <3>1, <3>5
  <2>6. CASE SeekFails(c)
    <3>1. /\ Running /\ pc[c] = "write" /\ msg[c] = Seek /\ use_device
          /\ \A d \in Client : d # c => pc'[d] = pc[d]
          /\ pc'[c] = "read" /\ msg' = msg /\ reply'[c] = <<>> /\ pos'[c] = 0
          /\ UNCHANGED <<setup, main, ts, log, file>>
      BY <2>6 DEF SeekFails, Go, MessageFits, Answering, TypeOK, Dev!FailSeek
    <3>2. Stored \in Seq(Byte) /\ Len(Stored) \in Nat
      BY <3>1, StoredBytes
    <3>3. Stored' = Stored
      BY <3>1 DEF Stored, Dev!Contents
    <3>4. AnswerSoFar'
      BY <3>1, <3>2, <3>3, WhatIsWritten, AnswerBegins
    <3> QED BY <3>1, <3>4
  <2>7. CASE Read(c)
    <3>1. /\ Running /\ pc[c] = "read" /\ pc'[c] = "send" /\ file_mut = c
          /\ \A d \in Client : d # c => ~Answering(d)'
          /\ UNCHANGED <<setup, main, ts, store, msg>>
      BY <2>7 DEF Read, Go, MutexHeld, TypeOK, Answering
    <3>2. Stored \in Seq(Byte) /\ Len(Stored) \in Nat
      BY <3>1, StoredBytes DEF BuildFits
    <3>3. Stored' = Stored
      BY <3>1 DEF Stored, Dev!Contents
    <3>4. PICK n \in ReadLengths(c) :
            /\ pos' = [pos EXCEPT ![c] = pos[c] + n]
            /\ reply' = [reply EXCEPT
                           ![c] = reply[c] \o SubSeq(Stored, pos[c] + 1, pos[c] + n)]
      BY <2>7 DEF Read
    <3>5. n \in Nat /\ pos[c] \in Nat /\ pos[c] + n <= Len(Stored)
      BY <3>2 DEF ReadLengths, TypeOK
    <3> DEFINE got == Len(reply[c])
    <3>6. /\ got \in Nat /\ got <= pos[c]
          /\ reply[c] = SubSeq(Stored, pos[c] - got + 1, pos[c])
          /\ msg[c] = Line(c) => got = pos[c]
      BY <3>1, LenProperties DEF AnswerSoFar, ReadSoFar, Answering, TypeOK
    <3> HIDE DEF got
    <3> DEFINE first == pos[c] - got
               here == pos[c]
               there == pos[c] + n
    <3>7. /\ first \in Nat /\ here \in Nat /\ there \in Nat
          /\ first <= here /\ here <= there /\ there <= Len(Stored)
      BY <3>5, <3>6
    <3>12. /\ reply[c] = SubSeq(Stored, first + 1, here)
           /\ reply'[c] = reply[c] \o SubSeq(Stored, here + 1, there)
      BY <3>4, <3>6 DEF TypeOK
    <3>13. there - first = got + n /\ pos'[c] = pos[c] + n
      BY <3>4, <3>5, <3>6 DEF TypeOK
    <3>14. first + 1 = pos[c] - got + 1 /\ there = pos[c] + n
      OBVIOUS
    <3> HIDE DEF first, here, there
    <3>15. /\ SubSeq(Stored, first + 1, here) \o SubSeq(Stored, here + 1, there)
                = SubSeq(Stored, first + 1, there)
           /\ Len(SubSeq(Stored, first + 1, there)) = there - first
      <4>1. first <= there
        BY <3>7
      <4> QED BY <3>2, <3>7, <4>1, Pieces
    <3>8. reply'[c] = SubSeq(Stored, pos[c] - got + 1, pos[c] + n)
      BY <3>12, <3>14, <3>15
    <3>9. Len(reply'[c]) = got + n /\ pos'[c] = pos[c] + n
      BY <3>12, <3>13, <3>15
    <3>10. pos'[c] - Len(reply'[c]) = pos[c] - got
      BY <3>5, <3>6, <3>9
    <3>11. AnswerSoFar'
      <4>1. /\ Len(reply'[c]) <= pos'[c] /\ pos'[c] <= Len(Stored')
            /\ msg'[c] = Line(c) => Len(reply'[c]) = pos'[c]
        BY <3>1, <3>3, <3>5, <3>6, <3>9
      <4>2. reply'[c] = SubSeq(Stored', pos'[c] - Len(reply'[c]) + 1, pos'[c])
        BY <3>3, <3>8, <3>9, <3>10
      <4>3. ReadSoFar(reply'[c], pos'[c], Stored')
        BY <4>1, <4>2 DEF ReadSoFar
      <4> QED BY <3>1, <4>1, <4>3 DEF AnswerSoFar, Line
    <3> QED BY <3>1, <3>11, <2>7 DEF Read, Go
  <2>11. CASE ReadEnds(c)
    <3>1. /\ Running /\ pc[c] = "read" /\ file_mut = c /\ pos[c] = Len(Stored)
          /\ \A d \in Client : d # c => ~Answering(d)'
          /\ UNCHANGED <<setup, main, ts, store, msg, pos, reply>>
      BY <2>11 DEF ReadEnds, Go, MutexHeld, TypeOK, Answering
    <3>2. Stored' = Stored
      BY <3>1 DEF Stored, Dev!Contents
    <3>3. AnswerSoFar'
      BY <3>1, <3>2 DEF AnswerSoFar, Answering, Line, Part
    <3> QED BY <3>1, <3>3, <2>11 DEF ReadEnds, Go
  <2>8. CASE Unlock(c)
    <3>1. Running /\ UNCHANGED <<setup, log, file, main, ts>>
      BY <2>8 DEF Unlock, Go, Forget
    <3>2. \A d \in Client : pc[d] # "none" => pc'[d] # "none"
      BY <2>8 DEF Unlock, Go, TypeOK
    <3>3. \A d \in Client : AnswerKept(d)
      BY <2>8 DEF Unlock, Go, Forget, TypeOK, AnswerKept, Answering
    <3> QED BY <3>1, <3>2, <3>3, StorageKept
  <2>9. CASE ThreadExits(c)
    BY <2>9, StorageKept DEF ThreadExits, Go, AnswerKept, Answering
  <2>10. CASE Cancelled(c)
    <3>1. Running /\ UNCHANGED <<setup, log, file, main, ts>>
      BY <2>10 DEF Cancelled, Go, Forget
    <3>2. \A d \in Client : pc[d] # "none" => pc'[d] # "none"
      BY <2>10 DEF Cancelled, Go, TypeOK
    <3>3. \A d \in Client : AnswerKept(d)
      BY <2>10 DEF Cancelled, Go, Forget, TypeOK, AnswerKept, Answering
    <3> QED BY <3>1, <3>2, <3>3, StorageKept
  <2> QED BY <2>1, <2>2, <2>3, <2>4, <2>5, <2>6, <2>7, <2>8, <2>9, <2>10, <2>11,
         <1>1 DEF ThreadStep
<1>2. ASSUME NEW c \in Client, ClientStep(c) PROVE Storage'
  <2>1. CASE Recv(c)
    BY <2>1, StorageKept DEF Recv, Go, AnswerKept, Answering
  <2>2. CASE RecvEnds(c)
    BY <2>2, StorageKept DEF RecvEnds, Go, AnswerKept, Answering
  <2>3. CASE BrokenPipe(c)
    BY <2>3, StorageKept DEF BrokenPipe, AnswerKept, Answering
  <2>4. CASE SendReturns(c)
    BY <2>4, StorageKept DEF SendReturns, Go, AnswerKept, Answering, TypeOK
  <2> QED BY <2>1, <2>2, <2>3, <2>4, <1>2 DEF ClientStep
<1>3. CASE TimestampStep \/ TsFails
  <2>1. CASE TsCheck
    BY <2>1, StorageKept DEF TsCheck, TsGo, AnswerKept, Answering
  <2>2. CASE TsWakes
    BY <2>2, StorageKept DEF TsWakes, TsGo, AnswerKept, Answering
  <2>3. CASE TsLock
    BY <2>3, StorageKept DEF TsLock, TsGo, AnswerKept, Answering
  <2>4. CASE TsWrite
    <3>1. /\ Running /\ ts = "write" /\ file_mut = Timestamp /\ ~use_device
          /\ UNCHANGED <<setup, main, pc>> /\ ts' = "check"
      BY <2>4 DEF TsWrite, TsGo, MutexHeld, BuildFits
    <3>2. \A d \in Client : ~Answering(d)'
      BY <3>1 DEF MutexHeld, Answering
    <3>3. PICK n \in 0..Len(Stamp) : PutInFile(Stamp, n)
      BY <2>4 DEF TsWrite
    <3>4. Stamp \in Seq(Byte) /\ ToSet(Stamp) \cap Client = {}
      BY WhatIsWritten
    <3> DEFINE data == SubSeq(Stamp, 1, n)
    <3>5. data \in Seq(Byte) /\ ToSet(data) \cap Client = {} /\ file' = file \o data
      BY <3>3, <3>4, FirstBytes DEF PutInFile
    <3> HIDE DEF data
    <3>6. FileIsOfThisRun'
      BY <3>1, <3>5, FileGrows
    <3>7. AnswerSoFar'
      BY <3>2 DEF AnswerSoFar
    <3> QED BY <3>6, <3>7
  <2>5. CASE TsCancelled
    BY <2>5, StorageKept DEF TsCancelled, TsGo, AnswerKept, Answering
  <2>6. CASE TsFails
    BY <2>6, StorageKept DEF TsFails, TsGo, AnswerKept, Answering
  <2> QED BY <2>1, <2>2, <2>3, <2>4, <2>5, <2>6, <1>3 DEF TimestampStep
<1>4. CASE MainStep
  <2>1. CASE CheckFlag
    BY <2>1, StorageKept DEF CheckFlag, MainOnly, MainGo, AnswerKept, Answering
  <2>2. CASE EnterAccept
    BY <2>2, StorageKept DEF EnterAccept, MainOnly, MainGo, AnswerKept, Answering
  <2>3. CASE Scan
    BY <2>3, StorageKept DEF Scan, ScanEnd, ScanNode, MainOnly, MainGo, AnswerKept, Answering
  <2>4. CASE Reap
    BY <2>4, StorageKept DEF Reap, MainGo, FreeNode, AnswerKept, Answering
  <2>5. CASE CancelHead
    BY <2>5, StorageKept DEF CancelHead, MainGo, AnswerKept, Answering
  <2>6. CASE JoinHead
    BY <2>6, StorageKept DEF JoinHead, MainGo, FreeNode, RemoveHead, AnswerKept, Answering
  <2>7. CASE FreeAndExit
    BY <2>7, StorageKept DEF FreeAndExit, MainOnly, MainGo, AnswerKept, Answering
  <2>8. CASE CancelTimestamp
    BY <2>8, StorageKept DEF CancelTimestamp, MainGo, AnswerKept, Answering
  <2>9. CASE JoinTimestamp
    BY <2>9, StorageKept DEF JoinTimestamp, MainGo, AnswerKept, Answering
  <2>10. CASE CancelUnset
    BY <2>10, StorageKept DEF CancelUnset, MainGo, AnswerKept, Answering
  <2> QED BY <2>1, <2>2, <2>3, <2>4, <2>5, <2>6, <2>7, <2>8, <2>9, <2>10, <1>4 DEF
           MainStep
<1>5. CASE AcceptStep
  <2>1. CASE AcceptFails
    BY <2>1, StorageKept DEF AcceptFails, MainOnly, MainGo, AnswerKept, Answering
  <2>2. CASE NoClientNode
    BY <2>2, StorageKept DEF NoClientNode, MainGo, StartTimestamp, AnswerKept, Answering
  <2>3. ASSUME NEW c \in Client, Accept(c) PROVE Storage'
    BY <2>3, StorageKept DEF Accept, Connect, StartTimestamp, MainGo, AddToStart, AnswerKept, Answering
  <2>4. ASSUME NEW c \in Client, NoListNode(c) PROVE Storage'
    BY <2>4, StorageKept DEF NoListNode, Connect, StartTimestamp, MainGo, AnswerKept, Answering
  <2> QED BY <2>1, <2>2, <2>3, <2>4, <1>5 DEF AcceptStep
<1>6. CASE Signal \/ Start \/ StartFails \/ ReloadModule
  <2>1. CASE Signal
    BY <2>1, StorageKept DEF Signal, AnswerKept, Answering
  <2>2. CASE Start
    <3>1. \A c \in Client : ~Answering(c)'
      BY <2>2 DEF Start, Boot, Answering
    <3>2. AnswerSoFar'
      BY <3>1 DEF AnswerSoFar
    <3>3. FileIsOfThisRun'
      BY <2>2, NothingInside DEF Start, Boot, AfterRemove
    <3> QED BY <3>2, <3>3
  <2>3. CASE StartFails
    BY <2>3, StorageKept DEF StartFails, AnswerKept, Answering
  <2>4. CASE ReloadModule
    <3>1. \A c \in Client : Running' => ~Answering(c)'
      BY <2>4 DEF ReloadModule, Answering
    <3>2. AnswerSoFar'
      BY <3>1 DEF AnswerSoFar
    <3>3. FileIsOfThisRun'
      BY <2>4 DEF ReloadModule
    <3> QED BY <3>2, <3>3
  <2> QED BY <2>1, <2>2, <2>3, <2>4, <1>6
<1> QED BY <1>1, <1>2, <1>3, <1>4, <1>5, <1>6 DEF Next

-----------------------------------------------------------------------------
(* The invariant *)

\* The initial states satisfy the invariant.
LEMMA InitInv == Init => Inv
<1> SUFFICES ASSUME Init PROVE Inv
  OBVIOUS
<1> USE NamesAssumption, BoundsAssumption, BuildsAssumption DEF Init, Dev!Init, Running
<1>1. Types
  <2>1. <<>> \in Seq(Byte) /\ <<>> \in Seq(Client) /\ <<>> \in Seq(Seq(Byte))
    BY EmptySeq
  <2>2. DeviceTypeOK /\ BuildFits
    BY <2>1 DEF DeviceTypeOK, BuildFits
  <2>3. use_device \in BOOLEAN /\ kept \in BOOLEAN /\ file \in Seq(Byte) \cup {NULL}
    OBVIOUS
  <2>4. sent \in 0..MaxSent
    OBVIOUS
  <2>5. /\ pc \in [Client -> {"none", "recv", "lock", "write", "unopened", "read",
                          "send", "close", "done", "finished"}]
        /\ msg \in [Client -> Data \cup {Seek, NULL}]
        /\ pos \in [Client -> Nat]
        /\ reply \in [Client -> Seq(Byte)]
        /\ operation_complete \in [Client -> BOOLEAN]
    BY <2>1
  <2>6. TypeOK
    BY <2>1, <2>3, <2>4, <2>5 DEF TypeOK
  <2> QED BY <2>2, <2>6 DEF Types
<1>2. Locking
  BY DEF Locking, MutexHeld, InSection, InLoop, MessageFits, OrphanedOnlyInCleanup,
     Answering
<1>3. Threads
  BY NothingInside DEF Threads, CleanupAtHead, FreedAfterJoin, ThreadsAccounted, Started,
     Finished
<1>4. Storage
  BY DEF Storage, AnswerSoFar, FileIsOfThisRun
<1> QED BY <1>1, <1>2, <1>3, <1>4 DEF Inv

\* Every reachable state satisfies the invariant.
LEMMA Invariance == Spec => []Inv
<1>1. Inv /\ [Next]_vars => Inv'
  <2> SUFFICES ASSUME Inv, [Next]_vars PROVE Inv'
    OBVIOUS
  <2>1. CASE Next
    BY <2>1, TypesPreserved, LockingPreserved, ThreadsPreserved, StoragePreserved DEF Inv
  <2>2. CASE UNCHANGED vars
    <3> USE <2>2 DEF vars, setup, store, device, server, handlers, Inv, Running
    <3>1. Types'
      BY DEF Types, TypeOK, DeviceTypeOK, BuildFits
    <3>2. Locking'
      BY DEF Locking, MutexHeld, InSection, InLoop, MessageFits, OrphanedOnlyInCleanup,
         Orphaned, Finished, Answering
    <3>3. Threads'
      BY DEF Threads, CleanupAtHead, FreedAfterJoin, ThreadsAccounted, Started, Finished,
         InLoop
    <3>4. Storage'
      BY DEF Storage, AnswerSoFar, Answering, FileIsOfThisRun, Stored, Dev!Contents,
         Started
    <3> QED BY <3>1, <3>2, <3>3, <3>4
  <2> QED BY <2>1, <2>2
<1> QED BY InitInv, <1>1, PTL DEF Spec

(***************************************************************************)
(* The variables keep their types, in both builds: whatever is read of the *)
(* device or of the file is a sequence of bytes, and a seek leaves a       *)
(* position.                                                               *)
(***************************************************************************)
THEOREM TypeCorrect == Spec => []TypeOK
<1>1. Inv => TypeOK
  BY DEF Inv, Types
<1> QED BY <1>1, Invariance, PTL

(***************************************************************************)
(* For any number of connections and timestamps, and however many reads    *)
(* and sends an answer takes: the answer to a line is what is stored, and  *)
(* the answer to a seek an end of it (handle_connection, lines 190-247;    *)
(* handle_timestamp, lines 316-324).                                       *)
(***************************************************************************)
THEOREM AnswersAreSnapshots == Spec => []ReplyIsSnapshot
<1>1. Inv => ReplyIsSnapshot
  <2> SUFFICES ASSUME Inv, NEW c \in Client, Running, pc[c] = "close"
               PROVE  /\ msg[c] = Line(c) => reply[c] = Stored
                      /\ msg[c] = Seek =>
                           \E p \in 0..Len(Stored) :
                             reply[c] = SubSeq(Stored, p + 1, Len(Stored))
    BY DEF ReplyIsSnapshot
  <2>1. Stored \in Seq(Byte) /\ Len(Stored) \in Nat
    BY StoredBytes DEF Inv, Types, TypeOK, BuildFits
  <2> DEFINE got == Len(reply[c])
  <2>2. got \in Nat /\ pos[c] \in Nat
    BY LenProperties DEF Inv, Types, TypeOK
  <2>3. /\ got <= pos[c] /\ pos[c] <= Len(Stored)
        /\ reply[c] = SubSeq(Stored, pos[c] - got + 1, pos[c])
        /\ msg[c] = Line(c) => got = pos[c]
        /\ msg[c] # Part(c) => pos[c] = Len(Stored)
    BY DEF Inv, Storage, AnswerSoFar, ReadSoFar, Answering
  <2> HIDE DEF got
  <2>4. Line(c) # Part(c) /\ Seek # Part(c)
    BY WhatIsWritten
  <2>5. msg[c] = Line(c) => reply[c] = Stored
    <3> SUFFICES ASSUME msg[c] = Line(c) PROVE reply[c] = Stored
      OBVIOUS
    <3>1. pos[c] = Len(Stored) /\ pos[c] - got + 1 = 1
      BY <2>2, <2>3, <2>4
    <3> QED BY <2>1, <2>3, <3>1, SubSeqFull
  <2>6. ASSUME msg[c] = Seek
        PROVE  \E p \in 0..Len(Stored) : reply[c] = SubSeq(Stored, p + 1, Len(Stored))
    <3>1. pos[c] = Len(Stored) /\ pos[c] - got \in 0..Len(Stored)
      BY <2>1, <2>2, <2>3, <2>4, <2>6
    <3>2. reply[c] = SubSeq(Stored, (pos[c] - got) + 1, Len(Stored))
      BY <2>3, <3>1
    <3> QED BY <3>1, <3>2
  <2> QED BY <2>5, <2>6
<1> QED BY <1>1, Invariance, PTL

(***************************************************************************)
(* A node is freed only after its thread has ended.  When fwl is freed,    *)
(* and its file closed, every thread has ended but for at most one: the    *)
(* thread of the client whose list node could not be allocated, with which *)
(* the accept loop ended (main, lines 541-598).                            *)
(***************************************************************************)
THEOREM NodesOutliveThreads == Spec => []FreedAfterJoin
<1>1. Inv => FreedAfterJoin
  BY DEF Inv, Threads
<1> QED BY <1>1, Invariance, PTL

(***************************************************************************)
(* The list holds every thread that main has still to join, once (the list *)
(* functions, lines 100-175, and their callers).                           *)
(***************************************************************************)
THEOREM EveryThreadIsJoinedOnce == Spec => []ThreadsAccounted
<1>1. Inv => ThreadsAccounted
  BY DEF Inv, Threads
<1> QED BY <1>1, Invariance, PTL

(***************************************************************************)
(* However often the server is killed and started again, its file only     *)
(* holds what this process wrote, unless remove() failed (lines 478-489).  *)
(***************************************************************************)
THEOREM OldFilesAreDeleted == Spec => []FileIsOfThisRun
<1>1. Inv => FileIsOfThisRun
  BY DEF Inv, Storage
<1> QED BY <1>1, Invariance, PTL

(***************************************************************************)
(* As long as clients are accepted, no thread ends with the mutex locked.  *)
(***************************************************************************)
THEOREM LoopNeverOrphans == Spec => []OrphanedOnlyInCleanup
<1>1. Inv => OrphanedOnlyInCleanup
  BY DEF Inv, Locking
<1> QED BY <1>1, Invariance, PTL
====
