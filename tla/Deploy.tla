------------------------------- MODULE Deploy -------------------------------
(***************************************************************************)
(* devices/pi-zero-2-w/deploy-kernel.py: a kernel image sent over a serial *)
(* line to the board's loader.  The script resets the board, waits for     *)
(* RDY, sends a magic byte, wants the acknowledgement as the very next     *)
(* byte, then sends the size, the image in chunks and an 8-bit sum.        *)
(*                                                                         *)
(* External: the loader, modelled from the protocol the script drives      *)
(* (BOOT, RDY and a newline; a wait for the magic byte that ends by itself;*)
(* size, image and sum taken by position, whatever was lost before them),  *)
(* and the line to the board, which may damage or lose a byte of the image.*)
(***************************************************************************)
EXTENDS Integers, Sequences, FiniteSets, FiniteSetsExt, SequencesExt

CONSTANTS DeployImages,    \* the images sent
          DeployByte,      \* the values a damaged byte may take
          DeployStale,     \* what the old program may print before the reset
          ChunkSize,       \* bytes per write: 256
          DeployMaxFaults  \* bound: bytes damaged or lost on the line

\* What the board may print, a line or a byte at a time.
Texts == {"BOOT", "RDY", "NL", "ACK", "OK", "ER"}

ASSUME DeployAssumption ==
  /\ DeployStale \subseteq Seq(Texts)
  /\ DeployByte \subseteq 0..255
  /\ DeployImages \subseteq Seq(0..255)
  /\ ChunkSize \in Nat \ {0}
  /\ DeployMaxFaults \in Nat

VARIABLES
  dpPc,     \* where the script is
  dpImage,  \* data
  dpSent,   \* sent
  dpReady,  \* RDY is in boot_output
  dpResp,   \* what the last read returned
  dpExit,   \* exit status, -1 while running
  dpIn,     \* bytes on their way to the script, or waiting in its buffer
  dpWire,   \* bytes on their way to the board
  dpBoard,  \* the loader
  dpWant,   \* the size the loader was told
  dpGot,    \* the image bytes the loader has stored
  dpFaults  \* how many bytes the line has damaged or lost

dpHost == <<dpPc, dpImage, dpSent, dpReady, dpResp, dpExit>>
dpLoader == <<dpBoard, dpWant, dpGot>>
dpVars == <<dpHost, dpIn, dpWire, dpLoader, dpFaults>>

\* A byte on the wire, and whether it is one of the image's.
Plain(v) == [v |-> v, image |-> FALSE]
Wire(bytes) == [i \in 1..Len(bytes) |-> [v |-> bytes[i], image |-> TRUE]]

Magic == 85
\* sum(); the sum of the last chunk alone, and that of the image.
SumOf(bytes) ==
  LET upto[n \in 0..Len(bytes)] == IF n = 0 THEN 0 ELSE upto[n - 1] + bytes[n]
  IN upto[Len(bytes)]
LastChunkSum(bytes) ==
  IF bytes = <<>> THEN 0
  ELSE SumOf(SubSeq(bytes, Len(bytes) - ((Len(bytes) - 1) % ChunkSize), Len(bytes))) % 256
checksum(bytes) == SumOf(bytes) % 256

DeployInit ==
  /\ dpPc = "idle" /\ dpImage = <<>> /\ dpSent = 0
  /\ dpReady = FALSE /\ dpResp = <<>> /\ dpExit = -1
  /\ dpIn = <<>> /\ dpWire = <<>>
  /\ dpBoard = "running" /\ dpWant = 0 /\ dpGot = <<>>
  /\ dpFaults = 0

DeployFinish(code) == dpPc' = "done" /\ dpExit' = code

\* deploy: the file is read and the port opened and cleared.  What the old
\* program prints between this and the reset stays in the buffer.
DeployOpen ==
  /\ dpPc = "idle"
  /\ dpPc' = "reset"
  /\ dpImage' \in DeployImages
  /\ dpIn' \in DeployStale
  /\ UNCHANGED <<dpSent, dpReady, dpResp, dpExit, dpWire, dpLoader, dpFaults>>

\* reset_target: the RUN line is pulled, or the operator resets by hand.
reset_target ==
  /\ dpPc = "reset"
  /\ dpPc' = "wait"
  /\ dpBoard' = "boot"
  /\ UNCHANGED <<dpImage, dpSent, dpReady, dpResp, dpExit, dpIn, dpWire, dpWant, dpGot,
                 dpFaults>>

\* deploy: one read of the boot wait takes all that has arrived.
DeployPoll ==
  /\ dpPc = "wait"
  /\ dpIn # <<>>
  /\ dpReady' = (dpReady \/ Contains(dpIn, "RDY"))
  /\ dpPc' = IF dpReady' THEN "magic" ELSE "wait"
  /\ dpIn' = <<>>
  /\ UNCHANGED <<dpImage, dpSent, dpResp, dpExit, dpWire, dpLoader, dpFaults>>

\* deploy: ten seconds without RDY.
DeployNoReady ==
  /\ dpPc = "wait"
  /\ DeployFinish(1)
  /\ UNCHANGED <<dpImage, dpSent, dpReady, dpResp, dpIn, dpWire, dpLoader, dpFaults>>

DeployMagic ==
  /\ dpPc = "magic"
  /\ dpPc' = "ack"
  /\ dpWire' = Append(dpWire, Plain(Magic))
  /\ UNCHANGED <<dpImage, dpSent, dpReady, dpResp, dpExit, dpIn, dpLoader, dpFaults>>

\* The acknowledgement; and any byte at all taken for it.
AnyByteIsAck(byte) == TRUE
IsAck(byte) == byte = "ACK"

\* deploy: ser.read(1), a byte or a tenth of a second without one.
DeployAck ==
  /\ dpPc = "ack"
  /\ \/ /\ dpIn # <<>>
        /\ IF IsAck(Head(dpIn))
           THEN dpPc' = "size" /\ UNCHANGED dpExit
           ELSE DeployFinish(1)
        /\ dpResp' = <<Head(dpIn)>>
        /\ dpIn' = Tail(dpIn)
     \/ /\ dpIn = <<>>
        /\ DeployFinish(1)
        /\ UNCHANGED <<dpIn, dpResp>>
  /\ UNCHANGED <<dpImage, dpSent, dpReady, dpWire, dpLoader, dpFaults>>

DeploySize ==
  /\ dpPc = "size"
  /\ dpPc' = "data"
  /\ dpWire' = Append(dpWire, Plain(Len(dpImage)))
  /\ UNCHANGED <<dpImage, dpSent, dpReady, dpResp, dpExit, dpIn, dpLoader, dpFaults>>

\* data[a:b], which ends at the end of the data at the latest.
Slice(a, b) == SubSeq(dpImage, a + 1, Min({b, Len(dpImage)}))

\* The end of the next chunk.
ChunkEnd == Min({dpSent + ChunkSize, Len(dpImage)})

\* deploy: the next chunk; or, the image being sent, the sum.
DeployChunk ==
  /\ dpPc = "data"
  /\ dpSent < Len(dpImage)
  /\ dpWire' = dpWire \o Wire(Slice(dpSent, ChunkEnd))
  /\ dpSent' = ChunkEnd
  /\ UNCHANGED <<dpPc, dpImage, dpReady, dpResp, dpExit, dpIn, dpLoader, dpFaults>>

DeploySum ==
  /\ dpPc = "data"
  /\ dpSent >= Len(dpImage)
  /\ dpPc' = "resp"
  /\ dpWire' = Append(dpWire, Plain(checksum(dpImage)))
  /\ UNCHANGED <<dpImage, dpSent, dpReady, dpResp, dpExit, dpIn, dpLoader, dpFaults>>

\* deploy: up to ten bytes within five seconds are printed, whatever they
\* are; the script then ends, which is status 0.
DeployResponse ==
  /\ dpPc = "resp"
  /\ dpResp' = dpIn
  /\ dpIn' = <<>>
  /\ DeployFinish(0)
  /\ UNCHANGED <<dpImage, dpSent, dpReady, dpWire, dpLoader, dpFaults>>

DeployHost ==
  \/ DeployOpen \/ reset_target \/ DeployPoll \/ DeployNoReady \/ DeployMagic \/ DeployAck
  \/ DeploySize \/ DeployChunk \/ DeploySum \/ DeployResponse

-----------------------------------------------------------------------------
(* The loader and the line. *)

\* The loader prints BOOT, RDY and the newline after it, each when it gets to it.
LoaderPrints ==
  /\ \/ dpBoard = "boot" /\ dpBoard' = "booted" /\ dpIn' = Append(dpIn, "BOOT")
     \/ dpBoard = "booted" /\ dpBoard' = "ready" /\ dpIn' = Append(dpIn, "RDY")
     \/ dpBoard = "ready" /\ dpBoard' = "listen" /\ dpIn' = Append(dpIn, "NL")
  /\ UNCHANGED <<dpHost, dpWire, dpWant, dpGot, dpFaults>>

\* A byte that reaches a board that is not reading is lost.
LoaderDeaf ==
  /\ dpBoard \in {"boot", "booted", "ssh"}
  /\ dpWire # <<>>
  /\ dpWire' = Tail(dpWire)
  /\ UNCHANGED <<dpHost, dpIn, dpLoader, dpFaults>>

\* The loader's wait for the magic byte ends by itself.
LoaderGivesUp ==
  /\ dpBoard = "listen"
  /\ dpBoard' = "ssh"
  /\ UNCHANGED <<dpHost, dpIn, dpWire, dpWant, dpGot, dpFaults>>

LoaderReads ==
  /\ dpWire # <<>>
  /\ LET v == Head(dpWire).v IN
     \/ /\ dpBoard = "listen" /\ v = Magic
        /\ dpBoard' = "size" /\ dpIn' = Append(dpIn, "ACK")
        /\ UNCHANGED <<dpWant, dpGot>>
     \/ /\ dpBoard = "size"
        /\ dpWant' = v
        /\ dpBoard' = IF v = 0 THEN "sum" ELSE "recv"
        /\ UNCHANGED <<dpIn, dpGot>>
     \/ /\ dpBoard = "recv"
        /\ dpGot' = Append(dpGot, v)
        /\ dpBoard' = IF Len(dpGot') = dpWant THEN "sum" ELSE "recv"
        /\ UNCHANGED <<dpIn, dpWant>>
     \/ /\ dpBoard = "sum"
        /\ IF v = checksum(dpGot)
           THEN dpBoard' = "jumped" /\ dpIn' = Append(dpIn, "OK")
           ELSE dpBoard' = "refused" /\ dpIn' = Append(dpIn, "ER")
        /\ UNCHANGED <<dpWant, dpGot>>
  /\ dpWire' = Tail(dpWire)
  /\ UNCHANGED <<dpHost, dpFaults>>

\* The line damages or loses a byte of the image.
LineFault ==
  /\ dpFaults < DeployMaxFaults
  /\ \E i \in 1..Len(dpWire) :
       /\ dpWire[i].image
       /\ \/ \E b \in DeployByte \ {dpWire[i].v} : dpWire' = [dpWire EXCEPT ![i].v = b]
          \/ dpWire' = RemoveAt(dpWire, i)
  /\ dpFaults' = dpFaults + 1
  /\ UNCHANGED <<dpHost, dpIn, dpLoader>>

DeployBoard == LoaderPrints \/ LoaderDeaf \/ LoaderGivesUp \/ LoaderReads \/ LineFault

DeployNext == DeployHost \/ DeployBoard

DeploySpec == DeployInit /\ [][DeployNext]_dpVars

-----------------------------------------------------------------------------
\* Every part of the script's, the line's and the loader's state keeps its
\* shape: what is of the image is a byte, and the size, which takes four bytes
\* on the line, is a number here.
DeployTypeOK ==
  /\ dpPc \in {"idle", "reset", "wait", "magic", "ack", "size", "data", "resp", "done"}
  /\ dpSent \in 0..Len(dpImage)
  /\ dpReady \in BOOLEAN
  /\ dpExit \in {-1, 0, 1}
  /\ Range(dpIn) \cup Range(dpResp) \subseteq Texts
  /\ \A i \in 1..Len(dpWire) : dpWire[i].v \in IF dpWire[i].image THEN 0..255 ELSE Nat
  /\ dpWant \in Nat
  /\ dpFaults \in 0..DeployMaxFaults

\* The size, the image and the sum are sent only to a loader that is taking
\* them: a reset of the board, a stale RDY or a loader that gave up never puts
\* image bytes on the line of a board that is running something else.
ImageOnlyToLoader ==
  dpPc \in {"size", "data", "resp"} => dpBoard \in {"size", "recv", "sum", "jumped", "refused"}

\* One byte of the image damaged or lost on the line is caught by the sum: the
\* loader starts only the image that was sent.
LoaderStartsWhatWasSent == dpBoard = "jumped" /\ dpFaults <= 1 => dpGot = dpImage
=============================================================================
