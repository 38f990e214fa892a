---------------------------- MODULE ActorStaging ----------------------------
(***************************************************************************)
(* One actor's staging area and mailbox, net/hosted-actor-runtime.lisp:     *)
(* %ar-post copies an encoded message behind the write offset, %ar-dequeue  *)
(* and %ar-take read it back outside the lock and give the bytes back, and  *)
(* the write offset rewinds when nothing is outstanding.  On top of it      *)
(* actors-receive and actors-receive-if with the messages set aside.        *)
(*                                                                         *)
(* A message of Size[m] bytes is encoded as the bytes <<m, 1>> ..           *)
(* <<m, Size[m]>>: enough to tell a torn or overwritten message from the    *)
(* one that was sent.  Senders run on other threads; posts interleave with  *)
(* every byte the recipient reads.                                          *)
(***************************************************************************)
EXTENDS Integers, Sequences

CONSTANTS
    Messages,     \* what may be sent
    Matching,     \* the messages a selective receive asks for
    Undecodable,  \* the messages the recipient's decoder signals on
    Size,         \* encoded length of each message
    AreaBytes,    \* %ar-staging-bytes - 16
    Capacity      \* bound of the instance: messages waiting at once

ASSUME StagingAssumption ==
    /\ Matching \subseteq Messages
    /\ Undecodable \subseteq Messages
    /\ Capacity \in Nat
    /\ AreaBytes \in Nat \ {0}
    /\ Size \in [Messages -> Nat \ {0}]

VARIABLES
    area,      \* the data bytes
    write,     \* +0 write offset
    out,       \* +8 messages outstanding
    queue,     \* staging offsets in the mailbox cells, oldest first
    deferred,  \* *ar-deferred*
    pc,        \* "idle", "look", "decode" or "release"
    selective, \* is the receive in progress an actors-receive-if?
    offset,    \* where the message being decoded starts
    read,      \* the bytes decoded so far
    got,       \* what the last receive returned
    failed     \* history: receives of this slot's life that signalled

stagingVars == <<area, write, out, queue>>
receiverVars == <<deferred, pc, selective, offset, read, got, failed>>
vars == <<stagingVars, receiverVars>>

Addresses == 0 .. (AreaBytes - 1)
Bytes(m) == {<<m, i>> : i \in 1 .. Size[m]}
Junk == <<"junk", 0>>
AllBytes == UNION {Bytes(m) : m \in Messages}

Init ==
    /\ area \in [Addresses -> {Junk}]
    /\ write = 0 /\ out = 0 /\ queue = <<>>
    /\ deferred = <<>>
    /\ pc = "idle" /\ selective = FALSE
    /\ offset = 0 /\ read = <<>>
    /\ got = "none" /\ failed = 0

\* The mailbox as ActorMailbox sees it, read from the bytes themselves.
MessageAt(o) == area[o][1]

InHand == CASE pc = "decode"  -> <<MessageAt(offset)>>
            [] pc = "release" -> <<read[1][1]>>
            [] OTHER          -> <<>>

Waiting == deferred \o InHand \o [i \in DOMAIN queue |-> MessageAt(queue[i])]

Mailbox == INSTANCE ActorMailbox WITH box <- Waiting, result <- got

Wanted(sel) == Mailbox!Wanted(sel)

\* Mutant: the bound forgets part of the header.
FitsShort(m) == write + Size[m] <= AreaBytes + 1

Fits(m) == write + Size[m] <= AreaBytes

\* %ar-post: under the lock, refused (and retried) when it does not fit.
Post(m) ==
    /\ Len(Waiting) < Capacity
    /\ Fits(m)
    /\ area' = [x \in Addresses |->
                  IF x \in write .. (write + Size[m] - 1)
                    THEN <<m, x - write + 1>> ELSE area[x]]
    /\ write' = write + Size[m]
    /\ out' = out + 1
    /\ queue' = Append(queue, write)
    /\ UNCHANGED receiverVars

\* The receive returns r, and its locals are gone.
Return(r) == got' = r /\ pc' = "idle" /\ offset' = 0 /\ read' = <<>>

\* A receive is answered from the messages set aside, if one of them will do.
FromDeferred(sel) ==
    /\ pc = "idle"
    /\ \E i \in DOMAIN deferred :
         /\ Mailbox!FirstOf(deferred, Wanted(sel), i)
         /\ deferred' = Mailbox!Without(deferred, i)
         /\ Return(deferred[i])
    /\ selective' = sel
    /\ UNCHANGED <<stagingVars, failed>>

\* Otherwise the mailbox is looked at.
StartLook(sel) ==
    /\ pc = "idle"
    /\ \A i \in DOMAIN deferred : deferred[i] \notin Wanted(sel)
    /\ selective' = sel
    /\ pc' = "look"
    /\ UNCHANGED <<stagingVars, deferred, offset, read, got, failed>>

\* Mutant: the bytes are given back with the cell, before they are read.
DequeueReleases ==
    /\ pc = "look"
    /\ queue # <<>>
    /\ queue' = Tail(queue)
    /\ out' = out - 1
    /\ write' = IF out = 1 THEN 0 ELSE write
    /\ offset' = Head(queue)
    /\ read' = <<>>
    /\ pc' = "decode"
    /\ UNCHANGED <<area, deferred, selective, got, failed>>

\* %ar-dequeue, under the lock.
Dequeue ==
    /\ pc = "look"
    /\ queue # <<>>
    /\ queue' = Tail(queue)
    /\ offset' = Head(queue)
    /\ read' = <<>>
    /\ pc' = "decode"
    /\ UNCHANGED <<area, write, out, deferred, selective, got, failed>>

\* The deadline of a timed receive passes and the mailbox is still empty.
TimeOut ==
    /\ pc = "look"
    /\ queue = <<>>
    /\ Return("nothing")
    /\ UNCHANGED <<stagingVars, deferred, selective, failed>>

\* %ar-decode reads one byte after the other, outside the lock.
ReadByte ==
    /\ pc = "decode"
    /\ read # <<>> => Len(read) < Size[read[1][1]]
    /\ read' = Append(read, area[offset + Len(read)])
    /\ UNCHANGED <<stagingVars, deferred, pc, selective, offset, got, failed>>

ReadAll == pc = "decode" /\ read # <<>> /\ Len(read) = Size[read[1][1]]

Decodes(b) ==
    b[1][1] \notin Undecodable /\ \A i \in DOMAIN b : b[i] = <<b[1][1], i>>

DecodeEnds ==
    /\ ReadAll /\ Decodes(read)
    /\ pc' = "release"
    /\ UNCHANGED <<stagingVars, deferred, selective, offset, read, got, failed>>

\* The decoder signals: the error leaves %ar-take before the bytes are
\* released, and user code handles it.
DecodeFails ==
    /\ ReadAll /\ ~Decodes(read)
    /\ Return("error")
    /\ failed' = failed + 1
    /\ UNCHANGED <<stagingVars, deferred, selective>>

\* Mutant: the area is never rewound.
RewindNever == UNCHANGED write

Rewind == write' = IF out = 1 THEN 0 ELSE write

\* Mutant: a message that does not match is put before the ones set aside.
SetAsideFirst(m) ==
    /\ deferred' = <<m>> \o deferred
    /\ pc' = "look" /\ offset' = 0 /\ read' = <<>>
    /\ UNCHANGED got

\* actors-receive-if keeps a message that does not match and looks again.
SetAside(m) ==
    /\ deferred' = Append(deferred, m)
    /\ pc' = "look" /\ offset' = 0 /\ read' = <<>>
    /\ UNCHANGED got

\* The rest of %ar-take, under the lock, and the return to the caller.
Release ==
    LET m == read[1][1] IN
    /\ pc = "release"
    /\ out' = out - 1
    /\ Rewind
    /\ \/ m \in Wanted(selective) /\ Return(m) /\ UNCHANGED deferred
       \/ m \notin Wanted(selective) /\ SetAside(m)
    /\ UNCHANGED <<area, queue, selective, failed>>

\* The actor ends between two receives and actors-spawn reuses its slot.
Reuse ==
    /\ pc = "idle"
    /\ write' = 0 /\ out' = 0 /\ queue' = <<>> /\ deferred' = <<>>
    /\ got' = "none" /\ failed' = 0
    /\ UNCHANGED <<area, pc, selective, offset, read>>

Next ==
    \/ \E m \in Messages : Post(m)
    \/ \E sel \in BOOLEAN : FromDeferred(sel) \/ StartLook(sel)
    \/ Dequeue \/ TimeOut \/ ReadByte \/ DecodeEnds \/ DecodeFails \/ Release
    \/ Reuse

Spec == Init /\ [][Next]_vars

-----------------------------------------------------------------------------
TypeOK ==
    /\ area \in [Addresses -> AllBytes \cup {Junk}]
    /\ write \in 0 .. AreaBytes
    /\ out \in 0 .. AreaBytes
    /\ queue \in Seq(Addresses)
    /\ deferred \in Seq(Messages \ Undecodable)
    /\ pc \in {"idle", "look", "decode", "release"}
    /\ selective \in BOOLEAN
    /\ offset \in Addresses
    /\ read \in Seq(AllBytes)
    /\ got \in Mailbox!Results
    /\ failed \in 0 .. AreaBytes

\* The staging offsets of the messages not yet rebuilt by the recipient.
Unread == {queue[i] : i \in DOMAIN queue}
            \cup (IF pc = "decode" THEN {offset} ELSE {})

Span(o) == o .. (o + Size[MessageAt(o)] - 1)

\* Every message that is queued or being decoded lies whole and unmixed below
\* the write offset: nothing a sender copies in lands on bytes still to be
\* read, however the posts fall between the recipient's dequeue and release.
UnreadBytesIntact ==
    /\ \A o \in Unread : \A x \in Span(o) :
         x < write /\ area[x] = <<MessageAt(o), x - o + 1>>
    /\ \A o, p \in Unread : o # p => Span(o) \cap Span(p) = {}

\* Is every message taken out of the area, and given back by the recipient?
NothingUnread == Unread = {} /\ pc # "release"

\* The docstring of %ar-take, "rewinding the area when nothing is outstanding":
\* with every message read, the whole area is there for the senders that wait.
SpaceComesBack == NothingUnread => write = 0

\* What does hold: until a decode has signalled, reading every message brings
\* the space back, whatever the senders post between dequeue and release.
SpaceLostToErrorsOnly == failed = 0 => SpaceComesBack

\* Senders, the staging area and the messages set aside together are one
\* first-in first-out mailbox with selective receive.
IsMailbox == Mailbox!Spec
=============================================================================
