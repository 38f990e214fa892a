------------------------- MODULE ActorStagingProofs -------------------------
(***************************************************************************)
(* Safety of ActorStaging for any messages, sizes and area, and the step-   *)
(* by-step proof that it implements ActorMailbox.                           *)
(***************************************************************************)
EXTENDS ActorStaging, SequenceTheorems, TLAPS

-----------------------------------------------------------------------------
(* The inductive invariant.                                                 *)

\* The message that starts at o of area a, and where it ends.
Name(a, o) == a[o][1]
End(a, o) == o + Size[Name(a, o)]

\* That message is whole and lies below the write offset w.
Whole(a, w, o) ==
    /\ o \in Addresses
    /\ Name(a, o) \in Messages
    /\ End(a, o) <= w
    /\ \A i \in 1 .. Size[Name(a, o)] : a[o + i - 1] = <<Name(a, o), i>>

\* Queued messages are whole and lie one behind the other in queue order.
QueuedInOrder ==
    /\ \A i \in DOMAIN queue : Whole(area, write, queue[i])
    /\ \A i, j \in DOMAIN queue : i < j => End(area, queue[i]) <= queue[j]

\* The message being decoded is whole and lies before the queued ones; what has
\* been read of it are its own bytes.
DecodingFirst ==
    pc = "decode" =>
        /\ Whole(area, write, offset)
        /\ \A i \in DOMAIN queue : End(area, offset) <= queue[i]
        /\ Len(read) <= Size[Name(area, offset)]
        /\ \A i \in 1 .. Len(read) : read[i] = <<Name(area, offset), i>>

\* The message being released was decoded.
ReleasesDecoded ==
    pc = "release" =>
        /\ read # <<>>
        /\ read[1][1] \in Messages \ Undecodable

\* A receive in progress wants none of the messages set aside.
SetAsideUnwanted ==
    pc # "idle" => \A i \in DOMAIN deferred : deferred[i] \notin Wanted(selective)

Held == IF pc \in {"decode", "release"} THEN 1 ELSE 0

\* What is counted are the messages queued, in hand and, for ever, those that
\* did not decode; every one takes up at least a byte, and the offset is at 0
\* exactly while none is counted.
Counted ==
    /\ out = Len(queue) + Held + failed
    /\ out <= write
    /\ (out = 0) <=> (write = 0)

StagingInv ==
    /\ TypeOK
    /\ QueuedInOrder
    /\ DecodingFirst
    /\ ReleasesDecoded
    /\ SetAsideUnwanted
    /\ Counted

-----------------------------------------------------------------------------
(* Types of the operators. *)

LEMMA WantedIsMessages ==
    ASSUME NEW sel \in BOOLEAN
    PROVE  Wanted(sel) \subseteq Messages /\ Undecodable \subseteq Wanted(sel)
BY StagingAssumption DEF StagingAssumption, Wanted, Mailbox!Wanted

LEMMA ByteOfMessage ==
    ASSUME NEW m \in Messages, NEW i \in 1 .. Size[m]
    PROVE  <<m, i>> \in AllBytes
BY DEF AllBytes, Bytes

LEMMA MessageOfByte ==
    ASSUME NEW b \in AllBytes
    PROVE  b[1] \in Messages
BY DEF AllBytes, Bytes

LEMMA WithoutTyped ==
    ASSUME NEW S, NEW s \in Seq(S), NEW i \in DOMAIN s
    PROVE  /\ Mailbox!Without(s, i) \in Seq(S)
           /\ Len(Mailbox!Without(s, i)) = Len(s) - 1
           /\ \A k \in 1 .. (Len(s) - 1) :
                Mailbox!Without(s, i)[k] = IF k < i THEN s[k] ELSE s[k + 1]
<1> DEFINE l == SubSeq(s, 1, i - 1)
           r == SubSeq(s, i + 1, Len(s))
<1>1. i \in 1 .. Len(s) /\ Len(s) \in Nat /\ \A k \in 1 .. Len(s) : s[k] \in S
  BY LenProperties, ElementOfSeq
<1>2. /\ l \in Seq(S) /\ Len(l) = i - 1
      /\ \A k \in 1 .. (i - 1) : l[k] = s[k]
  <2>1. \A k \in 1 .. (i - 1) : s[k] \in S
    BY <1>1
  <2>2. i - 1 \in Int /\ 1 \in Int
    BY <1>1
  <2> QED
    BY <1>1, <2>1, <2>2, SubSeqProperties
<1>3. /\ r \in Seq(S) /\ Len(r) = Len(s) - i
      /\ \A k \in 1 .. (Len(s) - i) : r[k] = s[i + k]
  <2>1. \A k \in (i + 1) .. Len(s) : s[k] \in S
    BY <1>1
  <2>2. i + 1 \in Int /\ Len(s) \in Int
    BY <1>1
  <2>3. /\ r \in Seq(S)
        /\ Len(r) = IF i + 1 <= Len(s) THEN Len(s) - (i + 1) + 1 ELSE 0
        /\ \A k \in 1 .. (Len(s) - (i + 1) + 1) : r[k] = s[(i + 1) + k - 1]
    BY <2>1, <2>2, SubSeqProperties
  <2> QED
    BY <1>1, <2>3
<1> HIDE DEF l, r
<1>4. /\ l \o r \in Seq(S)
      /\ Len(l \o r) = Len(l) + Len(r)
      /\ \A k \in 1 .. (Len(l) + Len(r)) :
           (l \o r)[k] = IF k <= Len(l) THEN l[k] ELSE r[k - Len(l)]
  BY <1>2, <1>3, ConcatProperties
<1>5. Mailbox!Without(s, i) = l \o r
  BY DEF Mailbox!Without, l, r
<1>6. \A k \in 1 .. (Len(s) - 1) : (l \o r)[k] = IF k < i THEN s[k] ELSE s[k + 1]
  <2> TAKE k \in 1 .. (Len(s) - 1)
  <2>1. CASE k < i
    <3>1. k \in 1 .. (i - 1)
      BY <1>1, <2>1
    <3>2. k \in 1 .. (Len(l) + Len(r)) /\ k <= Len(l)
      BY <1>1, <1>2, <1>3, <2>1
    <3>3. (l \o r)[k] = l[k]
      BY <1>4, <3>2
    <3> QED
      BY <1>2, <2>1, <3>1, <3>3
  <2>2. CASE ~(k < i)
    <3>3. k \in 1 .. (Len(l) + Len(r)) /\ ~(k <= Len(l))
      BY <1>1, <1>2, <1>3, <2>2
    <3>1. (l \o r)[k] = r[k - (i - 1)]
      BY <1>2, <1>4, <3>3
    <3>2. k - (i - 1) \in 1 .. (Len(s) - i) /\ i + (k - (i - 1)) = k + 1
      BY <1>1, <2>2
    <3> QED
      BY <1>3, <2>2, <3>1, <3>2
  <2> QED
    BY <2>1, <2>2
<1>7. Len(l \o r) = Len(s) - 1
  BY <1>1, <1>2, <1>3, <1>4
<1> QED
  BY <1>4, <1>5, <1>6, <1>7

-----------------------------------------------------------------------------
(* The invariant holds initially and is kept by every step. *)

LEMMA StagingInit == Init => StagingInv
<1> SUFFICES ASSUME Init PROVE StagingInv
  OBVIOUS
<1> USE StagingAssumption DEF StagingAssumption, Init
<1>1. TypeOK
  BY DEF TypeOK, Addresses, Mailbox!Results
<1>2. QueuedInOrder /\ DecodingFirst /\ ReleasesDecoded /\ SetAsideUnwanted /\ Counted
  BY DEF QueuedInOrder, DecodingFirst, ReleasesDecoded, SetAsideUnwanted, Counted, Held
<1> QED
  BY <1>1, <1>2 DEF StagingInv

\* A message below the write offset is not touched by a post.
LEMMA PostKeepsWhole ==
    ASSUME TypeOK, NEW m \in Messages, Post(m), NEW o, Whole(area, write, o)
    PROVE  /\ Whole(area', write', o)
           /\ Name(area', o) = Name(area, o)
           /\ End(area', o) = End(area, o)
<1> USE StagingAssumption DEF StagingAssumption
<1> DEFINE n == Name(area, o)
<1>1. /\ o \in Addresses /\ n \in Messages /\ o + Size[n] <= write
      /\ \A i \in 1 .. Size[n] : area[o + i - 1] = <<n, i>>
  BY DEF Whole, End
<1>2. Size[n] \in Nat \ {0} /\ o \in Nat /\ write \in Nat /\ Size[m] \in Nat \ {0}
  BY <1>1 DEF TypeOK, Addresses
<1>3. write' = write + Size[m] /\ write + Size[m] <= AreaBytes
  BY DEF Post, Fits
<1>4. \A x \in Addresses : x < write => area'[x] = area[x]
  BY <1>2 DEF Post, Addresses
<1>5. area'[o] = area[o]
  BY <1>1, <1>2, <1>4
<1>6. Name(area', o) = n
  BY <1>5 DEF Name
<1> HIDE DEF n
<1>7. \A i \in 1 .. Size[n] : area'[o + i - 1] = <<n, i>>
  <2> TAKE i \in 1 .. Size[n]
  <2>1. o + i - 1 \in Addresses /\ o + i - 1 < write
    BY <1>1, <1>2, <1>3 DEF Addresses
  <2> QED
    BY <1>1, <1>4, <2>1
<1>8. End(area', o) = End(area, o) /\ End(area, o) = o + Size[n]
  BY <1>6 DEF End, n
<1>9. End(area', o) <= write'
  BY <1>1, <1>2, <1>3, <1>8
<1> QED
  BY <1>1, <1>6, <1>7, <1>8, <1>9 DEF Whole, n

\* What a post wrote is whole and lies behind everything written before.
LEMMA PostWritesWhole ==
    ASSUME TypeOK, NEW m \in Messages, Post(m)
    PROVE  /\ Whole(area', write', write)
           /\ Name(area', write) = m
           /\ End(area', write) = write'
<1> USE StagingAssumption DEF StagingAssumption
<1>1. write \in Nat /\ Size[m] \in Nat \ {0} /\ AreaBytes \in Nat
  BY DEF TypeOK
<1>2. write' = write + Size[m] /\ write + Size[m] <= AreaBytes
  BY DEF Post, Fits
<1>3. \A x \in Addresses : x \in write .. (write + Size[m] - 1) => area'[x] = <<m, x - write + 1>>
  BY DEF Post
<1>4. \A i \in 1 .. Size[m] : area'[write + i - 1] = <<m, i>>
  <2> TAKE i \in 1 .. Size[m]
  <2>1. /\ write + i - 1 \in Addresses
        /\ write + i - 1 \in write .. (write + Size[m] - 1)
        /\ (write + i - 1) - write + 1 = i
    BY <1>1, <1>2 DEF Addresses
  <2> QED
    BY <1>3, <2>1
<1>5. write \in Addresses /\ area'[write] = <<m, 1>>
  <2>1. 1 \in 1 .. Size[m] /\ write + 1 - 1 = write
    BY <1>1
  <2> QED
    BY <1>1, <1>2, <1>4, <2>1 DEF Addresses
<1>6. Name(area', write) = m
  BY <1>5 DEF Name
<1>7. End(area', write) = write'
  BY <1>2, <1>6 DEF End
<1> QED
  BY <1>1, <1>2, <1>4, <1>5, <1>6, <1>7 DEF Whole

LEMMA PostKeeps ==
    ASSUME StagingInv, NEW m \in Messages, Post(m)
    PROVE  StagingInv'
<1> USE StagingAssumption DEF StagingAssumption
<1>1. TypeOK /\ QueuedInOrder /\ DecodingFirst /\ Counted
  BY DEF StagingInv
<1>2. /\ write \in Nat /\ Size[m] \in Nat \ {0} /\ write' = write + Size[m]
      /\ write + Size[m] <= AreaBytes /\ out' = out + 1 /\ out \in Nat
      /\ UNCHANGED <<deferred, pc, selective, offset, read, got, failed>>
  BY <1>1 DEF Post, Fits, TypeOK, receiverVars
<1>3. /\ queue \in Seq(Addresses) /\ write \in Addresses /\ queue' = Append(queue, write)
  BY <1>1, PostWritesWhole DEF Post, TypeOK, Whole
<1>4. /\ queue' \in Seq(Addresses) /\ Len(queue) \in Nat /\ Len(queue') = Len(queue) + 1
      /\ DOMAIN queue = 1 .. Len(queue) /\ DOMAIN queue' = 1 .. (Len(queue) + 1)
      /\ \A i \in DOMAIN queue : queue'[i] = queue[i]
      /\ queue'[Len(queue) + 1] = write
  BY <1>3, AppendProperties, LenProperties
<1>5. \A o : Whole(area, write, o) =>
         Whole(area', write', o) /\ Name(area', o) = Name(area, o) /\ End(area', o) = End(area, o)
  BY <1>1, PostKeepsWhole
<1>6. Whole(area', write', write)
  BY <1>1, PostWritesWhole
<1>7. area' \in [Addresses -> AllBytes \cup {Junk}]
  <2> SUFFICES ASSUME NEW x \in Addresses, x \in write .. (write + Size[m] - 1)
               PROVE  <<m, x - write + 1>> \in AllBytes
    BY <1>1 DEF Post, TypeOK
  <2>1. x - write + 1 \in 1 .. Size[m]
    BY <1>2
  <2> QED
    BY <2>1, ByteOfMessage
<1>8. Counted'
  <2>1. Held' = Held /\ Held \in Nat /\ failed \in Nat
    BY <1>1, <1>2 DEF Held, TypeOK
  <2> QED
    BY <1>1, <1>2, <1>4, <2>1 DEF Counted
<1>9. TypeOK'
  <2>1. write' \in 0 .. AreaBytes /\ out' \in 0 .. AreaBytes
    BY <1>2, <1>8, <1>1 DEF Counted
  <2> QED
    BY <1>1, <1>2, <1>4, <1>7, <2>1 DEF TypeOK
<1>10. QueuedInOrder'
  <2>1. \A i \in DOMAIN queue' : Whole(area', write', queue'[i])
    BY <1>1, <1>4, <1>5, <1>6 DEF QueuedInOrder
  <2>2. \A i, j \in DOMAIN queue' : i < j => End(area', queue'[i]) <= queue'[j]
    <3> SUFFICES ASSUME NEW i \in DOMAIN queue', NEW j \in DOMAIN queue', i < j
                 PROVE  End(area', queue'[i]) <= queue'[j]
      OBVIOUS
    <3>1. i \in DOMAIN queue /\ queue'[i] = queue[i]
      BY <1>4
    <3>2. Whole(area, write, queue[i]) /\ End(area', queue'[i]) = End(area, queue[i])
      BY <1>1, <1>5, <3>1 DEF QueuedInOrder
    <3>3. CASE j \in DOMAIN queue
      BY <1>1, <1>4, <3>1, <3>2, <3>3 DEF QueuedInOrder
    <3>4. CASE j = Len(queue) + 1
      BY <1>4, <3>2, <3>4 DEF Whole
    <3> QED
      BY <1>4, <3>3, <3>4
  <2> QED
    BY <2>1, <2>2 DEF QueuedInOrder
<1>11. DecodingFirst'
  <2> SUFFICES ASSUME pc = "decode" PROVE DecodingFirst'
    BY <1>2 DEF DecodingFirst
  <2>1. /\ Whole(area, write, offset)
        /\ \A i \in DOMAIN queue : End(area, offset) <= queue[i]
        /\ Len(read) <= Size[Name(area, offset)]
        /\ \A i \in 1 .. Len(read) : read[i] = <<Name(area, offset), i>>
    BY <1>1 DEF DecodingFirst
  <2>2. /\ Whole(area', write', offset) /\ Name(area', offset) = Name(area, offset)
        /\ End(area', offset) = End(area, offset)
    BY <1>5, <2>1
  <2>3. \A i \in DOMAIN queue' : End(area', offset) <= queue'[i]
    BY <1>4, <2>1, <2>2 DEF Whole
  <2> QED
    BY <1>2, <2>1, <2>2, <2>3 DEF DecodingFirst
<1>12. ReleasesDecoded' /\ SetAsideUnwanted'
  BY <1>2 DEF StagingInv, ReleasesDecoded, SetAsideUnwanted, Wanted, Mailbox!Wanted
<1> QED
  BY <1>8, <1>9, <1>10, <1>11, <1>12 DEF StagingInv

\* Steps that leave the staging area and the queue alone.
LEMMA LookKeeps ==
    ASSUME StagingInv, NEW sel \in BOOLEAN, FromDeferred(sel) \/ StartLook(sel)
    PROVE  StagingInv'
<1> USE StagingAssumption DEF StagingAssumption, stagingVars
<1>1. CASE StartLook(sel)
  BY <1>1 DEF StartLook, StagingInv, TypeOK, QueuedInOrder, DecodingFirst, ReleasesDecoded,
     SetAsideUnwanted, Counted, Held, Wanted, Mailbox!Wanted
<1>2. CASE FromDeferred(sel)
  <2>1. PICK i \in DOMAIN deferred : deferred' = Mailbox!Without(deferred, i) /\ Return(deferred[i])
    BY <1>2 DEF FromDeferred
  <2>2. deferred \in Seq(Messages \ Undecodable)
    BY DEF StagingInv, TypeOK
  <2>3. deferred' \in Seq(Messages \ Undecodable) /\ deferred[i] \in Messages
    BY <2>1, <2>2, WithoutTyped
  <2>4. TypeOK'
    BY <1>2, <2>1, <2>3 DEF FromDeferred, Return, StagingInv, TypeOK, Mailbox!Results, Addresses
  <2>5. /\ pc = "idle" /\ pc' = "idle" /\ UNCHANGED <<area, write, out, queue, failed>>
    BY <1>2, <2>1 DEF FromDeferred, Return
  <2> QED
    BY <2>4, <2>5 DEF StagingInv, QueuedInOrder, DecodingFirst, ReleasesDecoded,
       SetAsideUnwanted, Counted, Held
<1> QED
  BY <1>1, <1>2

LEMMA TimeOutKeeps ==
    ASSUME StagingInv, TimeOut
    PROVE  StagingInv'
BY StagingAssumption
   DEF StagingAssumption, TimeOut, Return, stagingVars, Addresses, StagingInv, TypeOK, QueuedInOrder,
       DecodingFirst, ReleasesDecoded, SetAsideUnwanted, Counted, Held,
       Mailbox!Results

LEMMA DequeueKeeps ==
    ASSUME StagingInv, Dequeue
    PROVE  StagingInv'
<1>1. /\ queue \in Seq(Addresses) /\ queue # <<>> /\ queue' = Tail(queue) /\ offset' = Head(queue)
      /\ pc = "look" /\ pc' = "decode" /\ read' = <<>>
      /\ UNCHANGED <<area, write, out, deferred, selective, got, failed>>
  BY DEF Dequeue, StagingInv, TypeOK
<1>2. /\ queue' \in Seq(Addresses) /\ Head(queue) \in Addresses
      /\ Len(queue) \in Nat \ {0} /\ Len(queue') = Len(queue) - 1
      /\ DOMAIN queue = 1 .. Len(queue) /\ DOMAIN queue' = 1 .. (Len(queue) - 1)
      /\ \A i \in DOMAIN queue' : queue'[i] = queue[i + 1]
      /\ Head(queue) = queue[1]
  <2>1. Head(queue) = queue[1]
    BY <1>1
  <2> QED
    BY <1>1, <2>1, HeadTailProperties, LenProperties, EmptySeq
<1>3. TypeOK'
  BY <1>1, <1>2, EmptySeq DEF StagingInv, TypeOK
<1>4. Counted'
  BY <1>1, <1>2 DEF StagingInv, TypeOK, Counted, Held
<1>5. QueuedInOrder'
  <2>1. \A i \in DOMAIN queue' : i + 1 \in DOMAIN queue
    BY <1>2
  <2>2. \A i, j \in DOMAIN queue' : i < j => i + 1 < j + 1
    BY <1>2
  <2> QED
    BY <1>1, <1>2, <2>1, <2>2 DEF StagingInv, QueuedInOrder
<1>6. DecodingFirst'
  <2>1. 1 \in DOMAIN queue /\ \A i \in DOMAIN queue' : i + 1 \in DOMAIN queue /\ 1 < i + 1
    BY <1>2
  <2>2. Whole(area, write, queue[1]) /\ \A i \in DOMAIN queue' : End(area, queue[1]) <= queue[i + 1]
    BY <2>1 DEF StagingInv, QueuedInOrder
  <2>3. Size[Name(area, queue[1])] \in Nat
    BY <2>2, StagingAssumption DEF StagingAssumption, Whole
  <2>4. Len(read') = 0
    BY <1>1
  <2> QED
    BY <1>1, <1>2, <2>2, <2>3, <2>4 DEF DecodingFirst
<1>7. ReleasesDecoded' /\ SetAsideUnwanted'
  BY <1>1 DEF StagingInv, ReleasesDecoded, SetAsideUnwanted, Wanted, Mailbox!Wanted
<1> QED
  BY <1>3, <1>4, <1>5, <1>6, <1>7 DEF StagingInv

\* While a message is decoded, what has been read tells its name and length.
LEMMA ReadTells ==
    ASSUME StagingInv, pc = "decode"
    PROVE  /\ Name(area, offset) \in Messages
           /\ Len(read) \in Nat
           /\ read # <<>> => Len(read) >= 1 /\ read[1][1] = Name(area, offset)
           /\ ReadAll => (Decodes(read) <=> Name(area, offset) \notin Undecodable)
<1>1. /\ read \in Seq(AllBytes) /\ Whole(area, write, offset)
      /\ \A i \in 1 .. Len(read) : read[i] = <<Name(area, offset), i>>
  BY DEF StagingInv, TypeOK, DecodingFirst
<1>2. Len(read) \in Nat /\ DOMAIN read = 1 .. Len(read) /\ (read # <<>> => Len(read) >= 1)
  BY <1>1, LenProperties, EmptySeq
<1>3. read # <<>> => read[1] = <<Name(area, offset), 1>>
  BY <1>1, <1>2
<1>4. read # <<>> => read[1][1] = Name(area, offset)
  BY <1>3
<1>5. ReadAll => (Decodes(read) <=> Name(area, offset) \notin Undecodable)
  BY <1>1, <1>2, <1>4 DEF ReadAll, Decodes
<1> QED
  BY <1>1, <1>2, <1>4, <1>5 DEF Whole

LEMMA ReadByteKeeps ==
    ASSUME StagingInv, ReadByte
    PROVE  StagingInv'
<1> DEFINE n == Name(area, offset)
           b == area[offset + Len(read)]
<1>1. /\ pc = "decode" /\ pc' = "decode" /\ read' = Append(read, b)
      /\ UNCHANGED <<area, write, out, queue, deferred, selective, offset, got, failed>>
  BY DEF ReadByte, stagingVars
<1>2. /\ Whole(area, write, offset) /\ read \in Seq(AllBytes)
      /\ \A i \in 1 .. Len(read) : read[i] = <<n, i>>
      /\ Len(read) <= Size[n]
  BY <1>1 DEF StagingInv, TypeOK, DecodingFirst
<1>3. n \in Messages /\ Size[n] \in Nat \ {0} /\ Len(read) \in Nat /\ offset \in Nat
  BY <1>1, <1>2, ReadTells, StagingAssumption DEF StagingAssumption, Whole, Addresses
<1>4. Len(read) < Size[n]
  <2>1. CASE read = <<>>
    BY <1>3, <2>1
  <2>2. CASE read # <<>>
    BY <1>1, <2>2, ReadTells DEF ReadByte
  <2> QED
    BY <2>1, <2>2
<1>5. b = <<n, Len(read) + 1>>
  <2>1. Len(read) + 1 \in 1 .. Size[n] /\ offset + (Len(read) + 1) - 1 = offset + Len(read)
    BY <1>3, <1>4
  <2> QED
    BY <1>2, <2>1 DEF Whole
<1>6. b \in AllBytes
  BY <1>3, <1>4, <1>5, ByteOfMessage
<1> HIDE DEF b, n
<1>7. /\ read' \in Seq(AllBytes) /\ Len(read') = Len(read) + 1
      /\ \A i \in 1 .. Len(read) : read'[i] = read[i]
      /\ read'[Len(read) + 1] = b
  BY <1>1, <1>2, <1>6, AppendProperties
<1>8. TypeOK'
  BY <1>1, <1>7 DEF StagingInv, TypeOK
<1>9. DecodingFirst'
  <2>1. \A i \in 1 .. Len(read') : read'[i] = <<n, i>>
    BY <1>2, <1>3, <1>5, <1>7
  <2>2. Len(read') <= Size[n]
    BY <1>3, <1>4, <1>7
  <2> QED
    BY <1>1, <2>1, <2>2 DEF StagingInv, DecodingFirst, n
<1> QED
  BY <1>1, <1>8, <1>9 DEF StagingInv, QueuedInOrder, ReleasesDecoded, SetAsideUnwanted, Counted, Held,
     Wanted, Mailbox!Wanted

LEMMA DecodeKeeps ==
    ASSUME StagingInv, DecodeEnds \/ DecodeFails
    PROVE  StagingInv'
<1> USE StagingAssumption DEF StagingAssumption, stagingVars
<1>1. CASE DecodeEnds
  <2>1. pc = "decode" /\ ReadAll /\ Decodes(read)
    BY <1>1 DEF DecodeEnds, ReadAll
  <2>2. read[1][1] \in Messages \ Undecodable /\ read # <<>>
    BY <2>1, ReadTells DEF ReadAll
  <2> QED
    BY <1>1, <2>1, <2>2 DEF DecodeEnds, StagingInv, TypeOK, QueuedInOrder, DecodingFirst,
       ReleasesDecoded, SetAsideUnwanted, Counted, Held, Wanted, Mailbox!Wanted
<1>2. CASE DecodeFails
  <2>1. pc = "decode"
    BY <1>2 DEF DecodeFails, ReadAll
  <2> QED
    BY <1>2, <2>1 DEF DecodeFails, Return, Addresses, StagingInv, TypeOK, QueuedInOrder,
       DecodingFirst, ReleasesDecoded, SetAsideUnwanted, Counted, Held,
       Mailbox!Results
<1> QED
  BY <1>1, <1>2

\* The area is rewound only when no message is left in it.
LEMMA ReleaseKeeps ==
    ASSUME StagingInv, Release
    PROVE  StagingInv'
<1> USE StagingAssumption DEF StagingAssumption
<1> DEFINE m == read[1][1]
<1>1. /\ pc = "release" /\ out' = out - 1 /\ Rewind /\ UNCHANGED <<area, queue, selective, failed>>
      /\ \/ m \in Wanted(selective) /\ Return(m) /\ UNCHANGED deferred
         \/ m \notin Wanted(selective) /\ SetAside(m)
  BY DEF Release
<1>2. m \in Messages \ Undecodable /\ read # <<>>
  BY <1>1 DEF StagingInv, ReleasesDecoded
<1>3. pc' \in {"idle", "look"} /\ offset' = 0 /\ read' = <<>>
  BY <1>1 DEF Return, SetAside
<1>4. /\ Len(queue) \in Nat /\ Len(queue) + 1 <= out /\ out \in Nat /\ write \in Nat
      /\ failed \in Nat /\ DOMAIN queue = 1 .. Len(queue) /\ queue \in Seq(Addresses)
  BY <1>1, LenProperties DEF StagingInv, TypeOK, Counted, Held
<1>5. write' = IF out = 1 THEN 0 ELSE write
  BY <1>1 DEF Rewind
<1>6. Counted'
  BY <1>1, <1>3, <1>4, <1>5 DEF StagingInv, Counted, Held
<1>7. deferred' \in Seq(Messages \ Undecodable) /\ got' \in Mailbox!Results
  <2>1. deferred \in Seq(Messages \ Undecodable) /\ got \in Mailbox!Results
    BY DEF StagingInv, TypeOK
  <2> HIDE DEF m
  <2>2. Append(deferred, m) \in Seq(Messages \ Undecodable)
    BY <1>2, <2>1, AppendProperties
  <2>3. m \in Mailbox!Results
    BY <1>2 DEF Mailbox!Results
  <2> QED
    BY <1>1, <2>1, <2>2, <2>3 DEF Return, SetAside
<1>8. TypeOK'
  <2>1. write' \in 0 .. AreaBytes /\ out' \in 0 .. AreaBytes
    BY <1>1, <1>4, <1>5 DEF StagingInv, TypeOK
  <2> QED
    BY <1>1, <1>3, <1>7, <2>1, EmptySeq DEF StagingInv, TypeOK, Addresses
<1>9. QueuedInOrder'
  <2>1. CASE out = 1
    <3>1. DOMAIN queue' = {}
      BY <1>1, <1>4, <2>1
    <3> QED
      BY <3>1 DEF QueuedInOrder
  <2>2. CASE out # 1
    BY <1>1, <1>5, <2>2 DEF StagingInv, QueuedInOrder
  <2> QED
    BY <2>1, <2>2
<1>10. SetAsideUnwanted'
  <2>1. CASE Return(m)
    BY <2>1 DEF Return, SetAsideUnwanted
  <2>2. CASE m \notin Wanted(selective) /\ SetAside(m)
    <3>1. deferred' = Append(deferred, m) /\ selective' = selective
      BY <1>1, <2>2 DEF SetAside
    <3>2. \A i \in DOMAIN deferred : deferred[i] \notin Wanted(selective)
      BY <1>1 DEF StagingInv, SetAsideUnwanted
    <3>3. deferred \in Seq(Messages \ Undecodable)
      BY DEF StagingInv, TypeOK
    <3> HIDE DEF m
    <3>4. /\ DOMAIN deferred = 1 .. Len(deferred) /\ Len(deferred) \in Nat
          /\ DOMAIN deferred' = 1 .. (Len(deferred) + 1)
          /\ \A i \in 1 .. Len(deferred) : deferred'[i] = deferred[i]
          /\ deferred'[Len(deferred) + 1] = m
      BY <1>2, <1>7, <3>1, <3>3, AppendProperties, LenProperties
    <3>5. \A i \in DOMAIN deferred' : deferred'[i] \notin Wanted(selective)
      BY <2>2, <3>2, <3>4
    <3> QED
      BY <3>1, <3>5 DEF SetAsideUnwanted, Wanted, Mailbox!Wanted
  <2> QED
    BY <1>1, <2>1, <2>2
<1> QED
  BY <1>3, <1>6, <1>8, <1>9, <1>10 DEF StagingInv, DecodingFirst, ReleasesDecoded

LEMMA ReuseKeeps ==
    ASSUME StagingInv, Reuse
    PROVE  StagingInv'
BY StagingAssumption, EmptySeq
   DEF StagingAssumption, Reuse, StagingInv, TypeOK, QueuedInOrder, DecodingFirst, ReleasesDecoded,
       SetAsideUnwanted, Counted, Held, Mailbox!Results

LEMMA StutterKeeps ==
    ASSUME StagingInv, UNCHANGED vars
    PROVE  StagingInv'
BY DEF vars, stagingVars, receiverVars, StagingInv, TypeOK, QueuedInOrder, DecodingFirst,
       ReleasesDecoded, SetAsideUnwanted, Counted, Held, Wanted, Mailbox!Wanted

LEMMA StagingStep == StagingInv /\ [Next]_vars => StagingInv'
<1> SUFFICES ASSUME StagingInv, [Next]_vars PROVE StagingInv'
  OBVIOUS
<1>1. ASSUME NEW m \in Messages, Post(m) PROVE StagingInv'
  BY <1>1, PostKeeps
<1>2. ASSUME NEW sel \in BOOLEAN, FromDeferred(sel) \/ StartLook(sel) PROVE StagingInv'
  BY <1>2, LookKeeps
<1>3. CASE Dequeue BY <1>3, DequeueKeeps
<1>4. CASE TimeOut BY <1>4, TimeOutKeeps
<1>5. CASE ReadByte BY <1>5, ReadByteKeeps
<1>6. CASE DecodeEnds \/ DecodeFails BY <1>6, DecodeKeeps
<1>7. CASE Release BY <1>7, ReleaseKeeps
<1>8. CASE Reuse BY <1>8, ReuseKeeps
<1>9. CASE UNCHANGED vars BY <1>9, StutterKeeps
<1> QED
  BY <1>1, <1>2, <1>3, <1>4, <1>5, <1>6, <1>7, <1>8, <1>9 DEF Next

LEMMA StagingAlways == Spec => []StagingInv
BY StagingInit, StagingStep, PTL DEF Spec

\* Whatever messages of whatever sizes are posted, taken, set aside or fail to
\* decode, the area, its counters and the recipient's locals keep their types:
\* no byte is written or read outside the area.
THEOREM StagingTyped == Spec => []TypeOK
<1>1. StagingInv => TypeOK
  BY DEF StagingInv
<1> QED
  BY <1>1, StagingAlways, PTL

\* The space of the area comes back: with every message read and none that
\* failed to decode, the write offset is at 0, for any interleaving of posts
\* with the recipient.
THEOREM OnlyErrorsKeepSpace == Spec => []SpaceLostToErrorsOnly
<1>1. StagingInv => SpaceLostToErrorsOnly
  <2> SUFFICES ASSUME StagingInv, failed = 0, NothingUnread PROVE write = 0
    BY DEF SpaceLostToErrorsOnly, SpaceComesBack
  <2>1. queue \in Seq(Addresses) /\ pc # "release" /\ pc # "decode" /\ DOMAIN queue = {}
    BY DEF NothingUnread, Unread, StagingInv, TypeOK
  <2>2. Len(queue) = 0
    BY <2>1, LenProperties
  <2>3. out = 0
    BY <2>1, <2>2 DEF StagingInv, Counted, Held
  <2> QED
    BY <2>3 DEF StagingInv, Counted
<1> QED
  BY <1>1, StagingAlways, PTL

\* With a decoder that accepts whatever was encoded, the docstring's claim
\* holds outright.
THEOREM SpaceIsGivenBack ==
    ASSUME Undecodable = {}
    PROVE  Spec => []SpaceComesBack
<1> DEFINE J == StagingInv /\ failed = 0
<1>1. Init => J
  BY StagingInit DEF Init
<1>2. J /\ [Next]_vars => J'
  <2> SUFFICES ASSUME J, [Next]_vars PROVE J'
    OBVIOUS
  <2>1. ~DecodeFails
    BY ReadTells DEF DecodeFails, ReadAll
  <2>2. failed' = 0
    BY <2>1 DEF Next, Post, FromDeferred, StartLook, Dequeue, TimeOut, ReadByte, DecodeEnds,
       Release, Reuse, vars, receiverVars
  <2> QED
    BY <2>2, StagingStep
<1>3. J => SpaceLostToErrorsOnly /\ failed = 0
  <2> SUFFICES ASSUME J, NothingUnread PROVE write = 0
    BY DEF SpaceLostToErrorsOnly, SpaceComesBack
  <2>1. queue \in Seq(Addresses) /\ pc # "release" /\ pc # "decode" /\ DOMAIN queue = {}
    BY DEF NothingUnread, Unread, StagingInv, TypeOK
  <2>2. Len(queue) = 0
    BY <2>1, LenProperties
  <2> QED
    BY <2>1, <2>2 DEF StagingInv, Counted, Held
<1>4. SpaceLostToErrorsOnly /\ failed = 0 => SpaceComesBack
  BY DEF SpaceLostToErrorsOnly
<1> HIDE DEF J
<1> QED
  BY <1>1, <1>2, <1>3, <1>4, PTL DEF Spec

\* A post never lands on bytes of a message that is queued or being decoded.
THEOREM NoTornMessage == Spec => []UnreadBytesIntact
<1>1. StagingInv => UnreadBytesIntact
  <2> SUFFICES ASSUME StagingInv PROVE UnreadBytesIntact
    OBVIOUS
  <2> USE StagingAssumption DEF StagingAssumption
  <2>1. \A o \in Unread : Whole(area, write, o)
    BY DEF Unread, StagingInv, QueuedInOrder, DecodingFirst
  <2>2. \A o \in Unread : /\ o \in Nat /\ MessageAt(o) \in Messages
                         /\ Size[MessageAt(o)] \in Nat \ {0} /\ Span(o) = o .. (End(area, o) - 1)
                         /\ End(area, o) = o + Size[MessageAt(o)] /\ End(area, o) <= write
    BY <2>1 DEF Whole, End, Name, MessageAt, Span, Addresses
  <2>3. write \in Nat /\ queue \in Seq(Addresses) /\ DOMAIN queue = 1 .. Len(queue) /\ Len(queue) \in Nat
    BY LenProperties DEF StagingInv, TypeOK
  <2>4. ASSUME NEW o \in Unread, NEW x \in Span(o)
        PROVE  x < write /\ area[x] = <<MessageAt(o), x - o + 1>>
    <3>1. /\ x \in o .. (o + Size[MessageAt(o)] - 1) /\ o + Size[MessageAt(o)] <= write
          /\ o \in Nat /\ Size[MessageAt(o)] \in Nat
      BY <2>2, <2>4
    <3>2. /\ x - o + 1 \in 1 .. Size[MessageAt(o)] /\ o + (x - o + 1) - 1 = x /\ x < write
      BY <2>3, <3>1
    <3>3. \A i \in 1 .. Size[MessageAt(o)] : area[o + i - 1] = <<MessageAt(o), i>>
      BY <2>1, <2>4 DEF Whole, Name, MessageAt
    <3> QED
      BY <3>2, <3>3
  <2>5. ASSUME NEW o \in Unread, NEW p \in Unread, o # p
        PROVE  End(area, o) <= p \/ End(area, p) <= o
    <3>1. CASE \E i \in DOMAIN queue : o = queue[i]
      <4> PICK i \in DOMAIN queue : o = queue[i]
        BY <3>1
      <4>1. CASE \E j \in DOMAIN queue : p = queue[j]
        <5> PICK j \in DOMAIN queue : p = queue[j]
          BY <4>1
        <5>1. i < j \/ j < i
          BY <2>3, <2>5
        <5> QED
          BY <5>1 DEF StagingInv, QueuedInOrder
      <4>2. CASE pc = "decode" /\ p = offset
        BY <4>2 DEF StagingInv, DecodingFirst
      <4> QED
        BY <4>1, <4>2 DEF Unread
    <3>2. CASE pc = "decode" /\ o = offset
      <4>1. \E j \in DOMAIN queue : p = queue[j]
        BY <2>5, <3>2 DEF Unread
      <4> QED
        BY <3>2, <4>1 DEF StagingInv, DecodingFirst
    <3> QED
      BY <3>1, <3>2 DEF Unread
  <2>6. ASSUME NEW o \in Unread, NEW p \in Unread, o # p
        PROVE  Span(o) \cap Span(p) = {}
    <3>1. End(area, o) <= p \/ End(area, p) <= o
      BY <2>5, <2>6
    <3>2. /\ Span(o) = o .. (End(area, o) - 1) /\ Span(p) = p .. (End(area, p) - 1)
          /\ o \in Nat /\ p \in Nat /\ End(area, o) \in Nat /\ End(area, p) \in Nat
      BY <2>2
    <3> QED
      BY <3>1, <3>2
  <2> QED
    BY <2>4, <2>6 DEF UnreadBytesIntact
<1> QED
  BY <1>1, StagingAlways, PTL

-----------------------------------------------------------------------------
(* Sequences: what is set aside, in hand and queued, one after the other. *)

LEMMA OneMessage ==
    ASSUME NEW S, NEW m \in S
    PROVE  <<m>> \in Seq(S) /\ Len(<<m>>) = 1
OBVIOUS

LEMMA AppendBehind ==
    ASSUME NEW S, NEW d \in Seq(S), NEW q \in Seq(S), NEW m \in S
    PROVE  d \o Append(q, m) = Append(d \o q, m)
<1>1. /\ Append(q, m) = q \o <<m>> /\ <<m>> \in Seq(S) /\ d \o q \in Seq(S)
  BY AppendIsConcat, ConcatProperties
<1>2. Append(d \o q, m) = (d \o q) \o <<m>>
  BY <1>1, AppendIsConcat
<1> QED
  BY <1>1, <1>2, ConcatAssociative

LEMMA HeadMovesOver ==
    ASSUME NEW S, NEW d \in Seq(S), NEW q \in Seq(S), q # <<>>
    PROVE  (d \o <<Head(q)>>) \o Tail(q) = d \o q
<1>1. /\ Head(q) \in S /\ Tail(q) \in Seq(S) /\ Len(Tail(q)) = Len(q) - 1
      /\ \A i \in 1 .. Len(Tail(q)) : Tail(q)[i] = q[i + 1]
  BY HeadTailProperties
<1>2. Head(q) = q[1] /\ Len(q) \in Nat \ {0} /\ <<Head(q)>> \in Seq(S) /\ Len(<<Head(q)>>) = 1
  BY <1>1, EmptySeq
<1>3. <<Head(q)>> \o Tail(q) = q
  <2> DEFINE h == <<Head(q)>>
             r == Tail(q)
  <2>1. /\ h \o r \in Seq(S) /\ Len(h \o r) = Len(h) + Len(r)
        /\ \A i \in 1 .. Len(h) + Len(r) : (h \o r)[i] = IF i <= Len(h) THEN h[i] ELSE r[i - Len(h)]
    BY <1>1, <1>2, ConcatProperties
  <2>2. h[1] = q[1] /\ Len(h) = 1
    BY <1>2
  <2> HIDE DEF h
  <2>3. Len(h \o r) = Len(q)
    BY <1>1, <1>2, <2>1, <2>2
  <2>4. \A i \in 1 .. Len(q) : (h \o r)[i] = q[i]
    <3> TAKE i \in 1 .. Len(q)
    <3>1. CASE i = 1
      BY <1>1, <1>2, <2>1, <2>2, <3>1
    <3>2. CASE i # 1
      <4>1. i - 1 \in 1 .. Len(r) /\ (i - 1) + 1 = i /\ i \in 1 .. Len(h) + Len(r) /\ ~(i <= Len(h))
        BY <1>1, <1>2, <2>2, <3>2
      <4> QED
        BY <1>1, <2>1, <2>2, <4>1
    <3> QED
      BY <3>1, <3>2
  <2> QED
    BY <2>1, <2>3, <2>4, SeqEqual DEF h
<1> QED
  BY <1>1, <1>2, <1>3, ConcatAssociative

LEMMA WithoutInFront ==
    ASSUME NEW S, NEW d \in Seq(S), NEW q \in Seq(S), NEW i \in DOMAIN d
    PROVE  /\ i \in DOMAIN (d \o q)
           /\ \A k \in 1 .. i : (d \o q)[k] = d[k]
           /\ Mailbox!Without(d \o q, i) = Mailbox!Without(d, i) \o q
<1> DEFINE c == d \o q
           w == Mailbox!Without(d, i)
           l == Mailbox!Without(c, i)
           r == w \o q
<1>1. /\ c \in Seq(S) /\ Len(c) = Len(d) + Len(q) /\ Len(d) \in Nat /\ Len(q) \in Nat
      /\ i \in 1 .. Len(d) /\ DOMAIN c = 1 .. Len(c)
      /\ \A k \in 1 .. Len(d) + Len(q) : c[k] = IF k <= Len(d) THEN d[k] ELSE q[k - Len(d)]
  BY ConcatProperties, LenProperties
<1>2. /\ w \in Seq(S) /\ Len(w) = Len(d) - 1
      /\ \A k \in 1 .. (Len(d) - 1) : w[k] = IF k < i THEN d[k] ELSE d[k + 1]
  BY WithoutTyped
<1> HIDE DEF c, w
<1>3. i \in DOMAIN c /\ i \in 1 .. Len(c)
  BY <1>1
<1>4. /\ l \in Seq(S) /\ Len(l) = Len(c) - 1
      /\ \A k \in 1 .. (Len(c) - 1) : l[k] = IF k < i THEN c[k] ELSE c[k + 1]
  BY <1>1, <1>3, WithoutTyped
<1>5. /\ r \in Seq(S) /\ Len(r) = Len(w) + Len(q)
      /\ \A k \in 1 .. Len(w) + Len(q) : r[k] = IF k <= Len(w) THEN w[k] ELSE q[k - Len(w)]
  BY <1>2, ConcatProperties
<1> HIDE DEF l, r
<1>6. Len(l) = Len(r) /\ Len(l) = Len(d) + Len(q) - 1
  BY <1>1, <1>2, <1>4, <1>5
<1>7. ASSUME NEW k \in 1 .. Len(l) PROVE l[k] = r[k]
  <2>1. CASE k < i
    <3>0. k \in 1 .. (Len(c) - 1) /\ k \in 1 .. Len(d) + Len(q) /\ k <= Len(d)
      BY <1>1, <1>4, <1>6, <1>7, <2>1
    <3>1. l[k] = d[k]
      BY <1>1, <1>4, <2>1, <3>0
    <3>2. r[k] = w[k] /\ k \in 1 .. (Len(d) - 1)
      BY <1>1, <1>2, <1>5, <1>6, <1>7, <2>1
    <3> QED
      BY <1>2, <2>1, <3>1, <3>2
  <2>2. CASE ~(k < i) /\ k <= Len(d) - 1
    <3>0. k \in 1 .. (Len(c) - 1) /\ k + 1 \in 1 .. Len(d) + Len(q) /\ k + 1 <= Len(d)
      BY <1>1, <1>4, <1>6, <1>7, <2>2
    <3>1. l[k] = c[k + 1] /\ k + 1 \in 1 .. Len(d) + Len(q) /\ k + 1 <= Len(d)
      BY <1>4, <2>2, <3>0
    <3>2. r[k] = w[k] /\ k \in 1 .. (Len(d) - 1)
      BY <1>1, <1>2, <1>5, <1>6, <1>7, <2>2
    <3> QED
      BY <1>1, <1>2, <2>2, <3>1, <3>2
  <2>3. CASE ~(k < i) /\ ~(k <= Len(d) - 1)
    <3>1. l[k] = c[k + 1] /\ k + 1 \in 1 .. Len(d) + Len(q) /\ ~(k + 1 <= Len(d))
      BY <1>1, <1>4, <1>6, <1>7, <2>3
    <3>2. r[k] = q[k - (Len(d) - 1)]
      BY <1>1, <1>2, <1>5, <1>6, <1>7, <2>3
    <3>3. (k + 1) - Len(d) = k - (Len(d) - 1)
      BY <1>1, <1>7, <1>6
    <3> QED
      BY <1>1, <3>1, <3>2, <3>3
  <2> QED
    BY <2>1, <2>2, <2>3
<1>8. l = r
  BY <1>4, <1>5, <1>6, <1>7, SeqEqual
<1>9. \A k \in 1 .. i : c[k] = d[k]
  BY <1>1
<1> QED
  BY <1>3, <1>8, <1>9 DEF c, w, l, r

LEMMA WithoutLast ==
    ASSUME NEW S, NEW d \in Seq(S), NEW m \in S
    PROVE  Mailbox!Without(Append(d, m), Len(d) + 1) = d
<1> DEFINE c == Append(d, m)
           l == Mailbox!Without(c, Len(d) + 1)
<1>1. /\ c \in Seq(S) /\ Len(c) = Len(d) + 1 /\ Len(d) \in Nat
      /\ DOMAIN c = 1 .. Len(c) /\ \A k \in 1 .. Len(d) : c[k] = d[k]
  BY AppendProperties, LenProperties
<1> HIDE DEF c
<1>2. Len(d) + 1 \in DOMAIN c
  BY <1>1
<1>3. /\ l \in Seq(S) /\ Len(l) = Len(c) - 1
      /\ \A k \in 1 .. (Len(c) - 1) : l[k] = IF k < Len(d) + 1 THEN c[k] ELSE c[k + 1]
  BY <1>1, <1>2, WithoutTyped
<1> HIDE DEF l
<1>4. Len(l) = Len(d) /\ \A k \in 1 .. Len(l) : l[k] = d[k]
  BY <1>1, <1>3
<1>5. l = d
  BY <1>3, <1>4, SeqEqual
<1> QED
  BY <1>5 DEF c, l

-----------------------------------------------------------------------------
(* The mailbox that the state stands for. *)

NamesOf(a, q) == [i \in DOMAIN q |-> Name(a, q[i])]

LEMMA WaitingParts ==
    /\ Waiting = (deferred \o InHand) \o NamesOf(area, queue)
    /\ Waiting' = (deferred' \o InHand') \o NamesOf(area', queue')
BY DEF Waiting, NamesOf, MessageAt, Name

\* What is in hand, by program counter.
LEMMA InHandParts ==
    /\ pc = "decode" => InHand = <<Name(area, offset)>>
    /\ pc = "release" => InHand = <<read[1][1]>>
    /\ pc \in {"idle", "look"} => InHand = <<>>
    /\ pc' = "decode" => InHand' = <<Name(area', offset')>>
    /\ pc' = "release" => InHand' = <<read'[1][1]>>
    /\ pc' \in {"idle", "look"} => InHand' = <<>>
BY DEF InHand, MessageAt, Name

LEMMA WaitingTyped ==
    ASSUME StagingInv
    PROVE  /\ deferred \in Seq(Messages)
           /\ NamesOf(area, queue) \in Seq(Messages)
           /\ InHand \in Seq(Messages)
           /\ deferred \o InHand \in Seq(Messages)
           /\ Waiting \in Seq(Messages)
<1>1. deferred \in Seq(Messages)
  BY SeqMonotonic DEF StagingInv, TypeOK
<1>2. NamesOf(area, queue) \in Seq(Messages)
  <2>1. DOMAIN queue = 1 .. Len(queue) /\ Len(queue) \in Nat
    BY LenProperties DEF StagingInv, TypeOK
  <2>2. \A i \in DOMAIN queue : Name(area, queue[i]) \in Messages
    BY DEF StagingInv, QueuedInOrder, Whole
  <2>3. NamesOf(area, queue) \in [1 .. Len(queue) -> Messages]
    BY <2>1, <2>2 DEF NamesOf
  <2> QED
    BY <2>1, <2>3, SeqDef
<1>3. InHand \in Seq(Messages)
  <2>1. CASE pc = "decode"
    <3>1. Name(area, offset) \in Messages
      BY <2>1 DEF StagingInv, DecodingFirst, Whole
    <3> QED
      BY <2>1, <3>1, InHandParts, OneMessage
  <2>2. CASE pc = "release"
    <3>1. read[1][1] \in Messages
      BY <2>2 DEF StagingInv, ReleasesDecoded
    <3> QED
      BY <2>2, <3>1, InHandParts, OneMessage
  <2>3. CASE pc \in {"idle", "look"}
    BY <2>3, InHandParts, EmptySeq
  <2> QED
    BY <2>1, <2>2, <2>3 DEF StagingInv, TypeOK
<1> QED
  BY <1>1, <1>2, <1>3, ConcatProperties, WaitingParts

-----------------------------------------------------------------------------
(* Every step is a step of the mailbox or leaves it alone. *)

LEMMA PostPuts ==
    ASSUME StagingInv, NEW m \in Messages, Post(m)
    PROVE  Mailbox!Put(m)
<1> DEFINE n == NamesOf(area, queue)
           n2 == NamesOf(area', queue')
<1>1. /\ TypeOK /\ queue \in Seq(Addresses) /\ write \in Addresses /\ queue' = Append(queue, write)
      /\ Len(Waiting) < Capacity /\ UNCHANGED <<deferred, pc, selective, offset, read, got>>
  BY PostWritesWhole DEF Post, StagingInv, TypeOK, Whole, receiverVars
<1>2. /\ Len(queue) \in Nat /\ DOMAIN queue = 1 .. Len(queue) /\ DOMAIN queue' = 1 .. (Len(queue) + 1)
      /\ \A i \in DOMAIN queue : queue'[i] = queue[i]
      /\ queue'[Len(queue) + 1] = write
  BY <1>1, AppendProperties, LenProperties
<1>3. \A i \in DOMAIN queue : Name(area', queue[i]) = Name(area, queue[i])
  BY <1>1, PostKeepsWhole DEF StagingInv, QueuedInOrder
<1>4. Name(area', write) = m
  BY <1>1, PostWritesWhole
<1>5. n \in Seq(Messages) /\ deferred \in Seq(Messages) /\ InHand \in Seq(Messages)
      /\ deferred \o InHand \in Seq(Messages)
  BY WaitingTyped
<1>6. n2 = Append(n, m)
  <2>1. /\ Append(n, m) \in Seq(Messages) /\ Len(n) = Len(queue) /\ Len(Append(n, m)) = Len(queue) + 1
        /\ \A i \in DOMAIN queue : Append(n, m)[i] = Name(area, queue[i])
        /\ Append(n, m)[Len(queue) + 1] = m
    <3>1. DOMAIN n = 1 .. Len(queue) /\ \A i \in DOMAIN queue : n[i] = Name(area, queue[i])
      BY <1>2 DEF NamesOf
    <3> HIDE DEF n
    <3>2. Len(n) = Len(queue)
      BY <1>2, <1>5, <3>1, LenProperties
    <3> QED
      BY <1>2, <1>5, <3>1, <3>2, AppendProperties
  <2>2. DOMAIN n2 = 1 .. (Len(queue) + 1) /\ \A i \in DOMAIN queue' : n2[i] = Name(area', queue'[i])
    BY <1>2 DEF NamesOf
  <2> HIDE DEF n, n2
  <2>3. n2 = [i \in 1 .. (Len(queue) + 1) |-> n2[i]]
    BY <2>2 DEF n2, NamesOf
  <2>4. \A i \in 1 .. (Len(queue) + 1) : n2[i] = Append(n, m)[i]
    BY <1>2, <1>3, <1>4, <2>1, <2>2
  <2>5. n2 \in [1 .. (Len(queue) + 1) -> Messages]
    <3>1. \A i \in 1 .. (Len(queue) + 1) : Append(n, m)[i] \in Messages
      BY <2>1, ElementOfSeq
    <3> QED
      BY <2>3, <2>4, <3>1
  <2>6. n2 \in Seq(Messages) /\ Len(n2) = Len(queue) + 1
    <3>1. Len(queue) + 1 \in Nat
      BY <1>2
    <3>2. n2 \in Seq(Messages)
      BY <2>5, <3>1, SeqDef
    <3> QED
      BY <2>2, <3>1, <3>2, LenProperties
  <2> QED
    BY <2>1, <2>4, <2>6, SeqEqual
<1>7. InHand' = InHand
  <2>1. CASE pc = "decode"
    <3>1. Name(area', offset) = Name(area, offset)
      BY <1>1, <2>1, PostKeepsWhole DEF StagingInv, DecodingFirst
    <3> QED
      BY <1>1, <2>1, <3>1, InHandParts
  <2>2. CASE pc # "decode"
    BY <1>1, <2>2, InHandParts DEF TypeOK
  <2> QED
    BY <2>1, <2>2
<1> HIDE DEF n, n2
<1>8. Waiting' = Append(Waiting, m)
  <2>1. Waiting' = (deferred \o InHand) \o Append(n, m) /\ Waiting = (deferred \o InHand) \o n
    BY <1>1, <1>6, <1>7, WaitingParts DEF n, n2
  <2> QED
    BY <1>5, <2>1, AppendBehind
<1> QED
  BY <1>1, <1>8 DEF Mailbox!Put

LEMMA LookGets ==
    ASSUME StagingInv, NEW sel \in BOOLEAN
    PROVE  /\ FromDeferred(sel) => Mailbox!Get(sel)
           /\ StartLook(sel) => UNCHANGED <<Waiting, got>>
<1> DEFINE n == NamesOf(area, queue)
<1>1. n \in Seq(Messages) /\ deferred \in Seq(Messages) /\ deferred \in Seq(Messages \ Undecodable)
  BY WaitingTyped DEF StagingInv, TypeOK
<1>2. pc = "idle" => Waiting = deferred \o n
  <2> SUFFICES ASSUME pc = "idle" PROVE Waiting = deferred \o n
    OBVIOUS
  <2>1. InHand = <<>>
    BY InHandParts
  <2> QED
    BY <1>1, <2>1, WaitingParts, ConcatEmptySeq
<1>3. ASSUME StartLook(sel) PROVE UNCHANGED <<Waiting, got>>
  <2>1. /\ InHand = <<>> /\ InHand' = <<>> /\ UNCHANGED <<area, queue, deferred, got>>
    BY <1>3, InHandParts DEF StartLook, stagingVars
  <2> QED
    BY <2>1, WaitingParts
<1>4. ASSUME FromDeferred(sel) PROVE Mailbox!Get(sel)
  <2>1. PICK i \in DOMAIN deferred : /\ Mailbox!FirstOf(deferred, Wanted(sel), i)
                                     /\ deferred' = Mailbox!Without(deferred, i)
                                     /\ Return(deferred[i])
    BY <1>4 DEF FromDeferred
  <2>2. /\ pc = "idle" /\ pc' = "idle" /\ UNCHANGED <<area, queue>>
        /\ got' = deferred[i]
    BY <1>4, <2>1 DEF FromDeferred, Return, stagingVars
  <2>3. Waiting = deferred \o n
    BY <1>2, <2>2
  <2>4. deferred' \in Seq(Messages)
    BY <1>1, <2>1, WithoutTyped
  <2>5. Waiting' = deferred' \o n
    <3>1. InHand' = <<>>
      BY <2>2, InHandParts
    <3> QED
      BY <2>2, <2>4, <3>1, WaitingParts, ConcatEmptySeq
  <2>6. /\ i \in DOMAIN Waiting /\ \A k \in 1 .. i : Waiting[k] = deferred[k]
        /\ Waiting' = Mailbox!Without(Waiting, i)
    BY <1>1, <2>1, <2>3, <2>5, WithoutInFront
  <2>7. i \in 1 .. Len(deferred) /\ Len(deferred) \in Nat
    BY <1>1, LenProperties
  <2>8. Mailbox!FirstOf(Waiting, Wanted(sel), i) /\ Waiting[i] = deferred[i]
    <3>1. i \in 1 .. i /\ \A j \in 1 .. (i - 1) : j \in 1 .. i
      BY <2>7
    <3> QED
      BY <2>1, <2>6, <3>1 DEF Mailbox!FirstOf
  <2>9. Mailbox!Outcome(Waiting[i]) = deferred[i]
    <3>1. deferred[i] \notin Undecodable
      BY <1>1, <2>7, ElementOfSeq
    <3> QED
      BY <2>8, <3>1 DEF Mailbox!Outcome
  <2> QED
    BY <2>2, <2>6, <2>8, <2>9 DEF Mailbox!Get, Wanted
<1> QED
  BY <1>3, <1>4

LEMMA TimeOutGetsNothing ==
    ASSUME StagingInv, TimeOut
    PROVE  Mailbox!GetNothing(selective)
<1>1. /\ pc = "look" /\ queue = <<>> /\ got' = "nothing" /\ pc' = "idle"
      /\ UNCHANGED <<area, queue, deferred>>
  BY DEF TimeOut, Return, stagingVars
<1>2. InHand = <<>> /\ InHand' = <<>>
  BY <1>1, InHandParts
<1>3. deferred \in Seq(Messages) /\ NamesOf(area, queue) = <<>>
  BY <1>1, WaitingTyped DEF NamesOf
<1>4. Waiting = deferred /\ Waiting' = deferred
  BY <1>1, <1>2, <1>3, WaitingParts, ConcatEmptySeq
<1>5. \A i \in DOMAIN deferred : deferred[i] \notin Wanted(selective)
  BY <1>1 DEF StagingInv, SetAsideUnwanted
<1> QED
  BY <1>1, <1>4, <1>5 DEF Mailbox!GetNothing, Wanted

LEMMA DequeueMovesOn ==
    ASSUME StagingInv, Dequeue
    PROVE  UNCHANGED <<Waiting, got>>
<1> DEFINE n == NamesOf(area, queue)
<1>1. /\ queue \in Seq(Addresses) /\ queue # <<>> /\ queue' = Tail(queue) /\ offset' = Head(queue)
      /\ pc = "look" /\ pc' = "decode" /\ UNCHANGED <<area, deferred, got>>
  BY DEF Dequeue, StagingInv, TypeOK
<1>2. /\ Len(queue) \in Nat \ {0} /\ DOMAIN queue = 1 .. Len(queue)
      /\ DOMAIN queue' = 1 .. (Len(queue) - 1)
      /\ \A i \in DOMAIN queue' : queue'[i] = queue[i + 1]
      /\ Head(queue) = queue[1]
  <2>1. Head(queue) = queue[1]
    BY <1>1
  <2> QED
    BY <1>1, <2>1, HeadTailProperties, LenProperties, EmptySeq
<1>3. n \in Seq(Messages) /\ deferred \in Seq(Messages)
  BY WaitingTyped
<1>4. /\ DOMAIN n = 1 .. Len(queue) /\ \A i \in 1 .. Len(queue) : n[i] = Name(area, queue[i])
  BY <1>2 DEF NamesOf
<1>5. NamesOf(area', queue') = [i \in 1 .. (Len(queue) - 1) |-> n[i + 1]]
  <2>1. \A i \in 1 .. (Len(queue) - 1) : Name(area', queue'[i]) = n[i + 1]
    <3> TAKE i \in 1 .. (Len(queue) - 1)
    <3>1. i + 1 \in 1 .. Len(queue)
      BY <1>2
    <3> QED
      BY <1>1, <1>2, <1>4, <3>1
  <2> QED
    BY <1>2, <2>1 DEF NamesOf
<1> HIDE DEF n
<1>6. /\ n # <<>> /\ Len(n) = Len(queue) /\ Head(n) = n[1] /\ Tail(n) \in Seq(Messages)
      /\ Len(Tail(n)) = Len(queue) - 1
      /\ \A i \in 1 .. (Len(queue) - 1) : Tail(n)[i] = n[i + 1]
  <2>1. Len(n) = Len(queue) /\ n # <<>>
    BY <1>2, <1>3, <1>4, LenProperties, EmptySeq
  <2> QED
    BY <1>2, <1>3, <2>1, HeadTailProperties
<1>7. NamesOf(area', queue') = Tail(n)
  <2> DEFINE u == NamesOf(area', queue')
  <2>1. /\ u \in [1 .. (Len(queue) - 1) -> Messages]
        /\ \A i \in 1 .. (Len(queue) - 1) : u[i] = Tail(n)[i]
    <3>1. \A i \in 1 .. (Len(queue) - 1) : Tail(n)[i] \in Messages
      BY <1>6, ElementOfSeq
    <3> QED
      BY <1>5, <1>6, <3>1
  <2>2. Len(queue) - 1 \in Nat
    BY <1>2
  <2> HIDE DEF u
  <2>3. u \in Seq(Messages)
    BY <2>1, <2>2, SeqDef
  <2>4. Len(u) = Len(queue) - 1
    BY <2>1, <2>2, <2>3, LenProperties
  <2> QED
    BY <1>6, <2>1, <2>3, <2>4, SeqEqual DEF u
<1>8. InHand = <<>> /\ InHand' = <<Head(n)>>
  <2>1. n[1] = Name(area', offset')
    BY <1>1, <1>2, <1>4
  <2> QED
    BY <1>1, <1>6, <2>1, InHandParts
<1>9. Waiting = deferred \o n
  BY <1>3, <1>8, WaitingParts, ConcatEmptySeq DEF n
<1>10. Waiting' = (deferred \o <<Head(n)>>) \o Tail(n)
  BY <1>1, <1>7, <1>8, WaitingParts
<1> QED
  BY <1>1, <1>3, <1>6, <1>9, <1>10, HeadMovesOver

LEMMA ReadingMovesNothing ==
    ASSUME StagingInv, ReadByte \/ DecodeEnds
    PROVE  UNCHANGED <<Waiting, got>>
<1>1. pc = "decode" /\ UNCHANGED <<area, queue, deferred, offset, got>>
  BY DEF ReadByte, DecodeEnds, ReadAll, stagingVars
<1>2. CASE ReadByte
  <2>1. pc' = "decode"
    BY <1>1, <1>2 DEF ReadByte
  <2> QED
    BY <1>1, <2>1, InHandParts, WaitingParts
<1>3. CASE DecodeEnds
  <2>1. /\ pc' = "release" /\ read' = read /\ read[1][1] = Name(area, offset)
    BY <1>1, <1>3, ReadTells DEF DecodeEnds, ReadAll
  <2> QED
    BY <1>1, <2>1, InHandParts, WaitingParts
<1> QED
  BY <1>2, <1>3

\* The message in hand, the first a receive in progress wants, is taken out.
LEMMA TakesTheOneInHand ==
    ASSUME StagingInv, pc \in {"decode", "release"}, NEW m \in Messages,
           InHand = <<m>>, m \in Wanted(selective),
           InHand' = <<>>, UNCHANGED <<area, queue, deferred>>, got' = Mailbox!Outcome(m)
    PROVE  Mailbox!Get(selective)
<1> DEFINE n == NamesOf(area, queue)
           d == Append(deferred, m)
           i == Len(deferred) + 1
<1>1. n \in Seq(Messages) /\ deferred \in Seq(Messages)
  BY WaitingTyped
<1>2. /\ d \in Seq(Messages) /\ Len(deferred) \in Nat /\ DOMAIN d = 1 .. (Len(deferred) + 1)
      /\ DOMAIN deferred = 1 .. Len(deferred)
      /\ d[i] = m /\ \A k \in 1 .. Len(deferred) : d[k] = deferred[k]
  BY <1>1, AppendProperties, LenProperties
<1>3. Waiting = d \o n
  BY <1>1, WaitingParts, AppendIsConcat
<1>4. Waiting' = deferred \o n
  BY <1>1, WaitingParts, ConcatEmptySeq
<1>5. i \in DOMAIN d
  BY <1>2
<1>6. Mailbox!Without(d, i) = deferred
  BY <1>1, WithoutLast
<1> HIDE DEF n, d, i
<1>7. /\ i \in DOMAIN Waiting /\ \A k \in 1 .. i : Waiting[k] = d[k]
      /\ Mailbox!Without(Waiting, i) = deferred \o n
  BY <1>1, <1>2, <1>3, <1>5, <1>6, WithoutInFront
<1>8. /\ i \in 1 .. i /\ \A k \in 1 .. (i - 1) : k \in 1 .. i /\ k \in 1 .. Len(deferred)
  BY <1>2 DEF i
<1>9. Waiting[i] = m /\ \A k \in 1 .. (i - 1) : Waiting[k] = deferred[k]
  BY <1>2, <1>7, <1>8
<1>10. Mailbox!FirstOf(Waiting, Wanted(selective), i)
  <2>1. \A k \in DOMAIN deferred : deferred[k] \notin Wanted(selective)
    BY DEF StagingInv, SetAsideUnwanted
  <2> QED
    BY <1>2, <1>7, <1>8, <1>9, <2>1 DEF Mailbox!FirstOf
<1> QED
  BY <1>4, <1>7, <1>9, <1>10 DEF Mailbox!Get, Wanted

LEMMA DecodeFailsGets ==
    ASSUME StagingInv, DecodeFails
    PROVE  Mailbox!Get(selective)
<1> DEFINE m == Name(area, offset)
<1>1. /\ pc = "decode" /\ ReadAll /\ ~Decodes(read) /\ pc' = "idle" /\ got' = "error"
      /\ UNCHANGED <<area, queue, deferred>>
  BY DEF DecodeFails, ReadAll, Return, stagingVars
<1>2. m \in Messages /\ m \in Undecodable
  BY <1>1, ReadTells
<1>3. selective \in BOOLEAN
  BY DEF StagingInv, TypeOK
<1>4. m \in Wanted(selective)
  BY <1>2, <1>3, WantedIsMessages
<1>5. got' = Mailbox!Outcome(m)
  BY <1>1, <1>2 DEF Mailbox!Outcome
<1>6. InHand = <<m>> /\ InHand' = <<>>
  BY <1>1, InHandParts
<1> HIDE DEF m
<1> QED
  BY <1>1, <1>2, <1>4, <1>5, <1>6, TakesTheOneInHand

LEMMA ReleaseGets ==
    ASSUME StagingInv, Release
    PROVE  Mailbox!Get(selective) \/ UNCHANGED <<Waiting, got>>
<1> DEFINE m == read[1][1]
           n == NamesOf(area, queue)
<1>1. /\ pc = "release" /\ UNCHANGED <<area, queue>>
      /\ \/ m \in Wanted(selective) /\ Return(m) /\ UNCHANGED deferred
         \/ m \notin Wanted(selective) /\ SetAside(m)
  BY DEF Release
<1>2. m \in Messages \ Undecodable
  BY <1>1 DEF StagingInv, ReleasesDecoded
<1>3. InHand = <<m>>
  BY <1>1, InHandParts
<1> HIDE DEF m
<1>4. CASE m \in Wanted(selective) /\ Return(m) /\ UNCHANGED deferred
  <2>1. got' = m /\ pc' = "idle"
    BY <1>4 DEF Return
  <2>2. got' = Mailbox!Outcome(m) /\ InHand' = <<>>
    BY <1>2, <2>1, InHandParts DEF Mailbox!Outcome
  <2> QED
    BY <1>1, <1>2, <1>3, <1>4, <2>2, TakesTheOneInHand
<1>5. CASE SetAside(m)
  <2>1. /\ deferred' = Append(deferred, m) /\ pc' = "look" /\ got' = got
    BY <1>5 DEF SetAside
  <2>2. InHand' = <<>>
    BY <2>1, InHandParts
  <2>3. n \in Seq(Messages) /\ deferred \in Seq(Messages)
    BY WaitingTyped
  <2>4. deferred' \in Seq(Messages) /\ deferred' = deferred \o <<m>>
    BY <1>2, <2>1, <2>3, AppendProperties, AppendIsConcat
  <2>5. Waiting' = deferred' \o n
    BY <1>1, <2>2, <2>4, WaitingParts, ConcatEmptySeq
  <2> QED
    BY <1>3, <2>1, <2>4, <2>5, WaitingParts
<1> QED
  BY <1>1, <1>4, <1>5

LEMMA ReuseRespawns ==
    ASSUME Reuse
    PROVE  Mailbox!Respawn
<1>1. /\ deferred' = <<>> /\ queue' = <<>> /\ pc' = "idle" /\ got' = "none"
  BY DEF Reuse
<1>2. InHand' = <<>> /\ NamesOf(area', queue') = <<>>
  BY <1>1, InHandParts DEF NamesOf
<1>3. <<>> \o <<>> = <<>>
  BY ConcatEmptySeq, EmptySeq
<1>4. Waiting' = <<>>
  BY <1>1, <1>2, <1>3, WaitingParts
<1> QED
  BY <1>1, <1>4 DEF Mailbox!Respawn

LEMMA StutterMovesNothing ==
    ASSUME UNCHANGED vars
    PROVE  UNCHANGED <<Waiting, got>>
BY DEF vars, stagingVars, receiverVars, Waiting, InHand, MessageAt

LEMMA MailboxStep == StagingInv /\ [Next]_vars => [Mailbox!Next]_<<Waiting, got>>
<1> SUFFICES ASSUME StagingInv, [Next]_vars PROVE Mailbox!Next \/ UNCHANGED <<Waiting, got>>
  OBVIOUS
<1> USE DEF Mailbox!Next
<1>0. selective \in BOOLEAN
  BY DEF StagingInv, TypeOK
<1>1. ASSUME NEW m \in Messages, Post(m) PROVE Mailbox!Next
  BY <1>1, PostPuts
<1>2. ASSUME NEW sel \in BOOLEAN, FromDeferred(sel) \/ StartLook(sel)
      PROVE  Mailbox!Next \/ UNCHANGED <<Waiting, got>>
  BY <1>2, LookGets
<1>3. CASE Dequeue BY <1>3, DequeueMovesOn
<1>4. CASE TimeOut BY <1>0, <1>4, TimeOutGetsNothing
<1>5. CASE ReadByte \/ DecodeEnds BY <1>5, ReadingMovesNothing
<1>6. CASE DecodeFails BY <1>0, <1>6, DecodeFailsGets
<1>7. CASE Release BY <1>0, <1>7, ReleaseGets
<1>8. CASE Reuse BY <1>8, ReuseRespawns
<1>9. CASE UNCHANGED vars BY <1>9, StutterMovesNothing
<1> QED
  BY <1>1, <1>2, <1>3, <1>4, <1>5, <1>6, <1>7, <1>8, <1>9 DEF Next

\* Posts copied into the staging area, byte-wise reads outside the lock, the
\* rewinding write offset and the messages set aside are together one first-in
\* first-out mailbox with selective receive, for any messages and sizes.
THEOREM StagingImplementsMailbox == Spec => IsMailbox
<1>1. Init => Mailbox!Init
  <2> SUFFICES ASSUME Init PROVE Mailbox!Init
    OBVIOUS
  <2>1. deferred = <<>> /\ queue = <<>> /\ pc = "idle" /\ got = "none"
    BY DEF Init
  <2>2. InHand = <<>> /\ NamesOf(area, queue) = <<>> /\ <<>> \o <<>> = <<>>
    BY <2>1, InHandParts, ConcatEmptySeq, EmptySeq DEF NamesOf
  <2>3. Waiting = <<>>
    BY <2>1, <2>2, WaitingParts
  <2> QED
    BY <2>1, <2>3 DEF Mailbox!Init
<1> QED
  BY <1>1, StagingAlways, MailboxStep, PTL DEF Spec, IsMailbox, Mailbox!Spec
=============================================================================
