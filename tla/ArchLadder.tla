----------------------------- MODULE ArchLadder -----------------------------
(***************************************************************************)
(* scripts/arch-ladder.py: one rung on one architecture, graded by reading *)
(* the answer out of guest memory.  Two machines run side by side: the     *)
(* script, and the guest it booted, which stores its answer one byte at a  *)
(* time and then the magic word, also one byte at a time.  The script      *)
(* looks at the memory at some instant of its own choosing (a fixed        *)
(* settling time), so it may find any prefix of those eight stores.        *)
(*                                                                         *)
(* External: QEMU.  pmemsave is taken as one snapshot of the probe region; *)
(* the file it leaves may be missing or short when the script reads it,    *)
(* because qmp() takes the next line QEMU sends for the reply and ignores  *)
(* what the line says.                                                     *)
(***************************************************************************)
EXTENDS Integers, Sequences

CONSTANTS Radix,       \* the values of a byte: 256
          MAGIC,       \* the magic word: 0x0BADF00D
          ArchAnswers, \* the values a rung's probe may return
          ArchExpects  \* the values given as --expect

ASSUME RadixAssumption == Radix \in Nat /\ Radix > 1

\* The last byte of the magic to be stored is not the byte cleared memory has.
ASSUME MagicAssumption == MAGIC \in Nat /\ MAGIC >= Radix * Radix * Radix

ASSUME ArchIntAssumption == ArchAnswers \subseteq Int /\ ArchExpects \subseteq Int

Bytes == 0..(Radix - 1)

\* The stores without their masks.
UnmaskedStore(v) == <<v, v \div Radix, v \div (Radix * Radix),
                      v \div (Radix * Radix * Radix)>>

\* The four byte stores of v, low byte first: (logand (ash v (* -8 i)) 255).
\* \div rounds down, as ash does on a negative fixnum.
store32(v) == <<v % Radix, (v \div Radix) % Radix,
                (v \div (Radix * Radix)) % Radix,
                (v \div (Radix * Radix * Radix)) % Radix>>

\* The eight byte stores of kernel-main, in order: where and what.  The
\* region is the answer at positions 1..4 and the magic at 5..8.
payload(v) == store32(v) \o store32(MAGIC)

VARIABLES
  archPc,      \* where the script is
  archExpect,  \* --expect
  archAnswer,  \* what this guest's probe returns
  archStored,  \* how many of the payload's byte stores have happened
  archMem,     \* the eight bytes of the probe region
  archQemu,    \* "none", "up" or "exited"
  archRaw,     \* the bytes of the dump file the script read
  archExit     \* exit status, -1 while running

archVars == <<archPc, archExpect, archAnswer, archStored, archMem, archQemu,
              archRaw, archExit>>

ZeroRegion == [i \in 1..8 |-> 0]

ArchInit ==
  /\ archPc = "idle"
  /\ archExpect = 0
  /\ archAnswer = 0
  /\ archStored = 0
  /\ archMem = ZeroRegion
  /\ archQemu = "none"
  /\ archRaw = <<>>
  /\ archExit = -1

ArchFinish(pc, code) == archPc' = pc /\ archExit' = code

\* main: the script is invoked with a rung and --expect.
ArchInvoke ==
  /\ archPc = "idle"
  /\ archPc' = "start"
  /\ archExpect' \in ArchExpects
  /\ UNCHANGED <<archAnswer, archStored, archMem, archQemu, archRaw, archExit>>

\* main: a missing rung or --expect, or an unknown architecture.
ArchUsage ==
  /\ archPc = "idle"
  /\ ArchFinish("usage", 2)
  /\ UNCHANGED <<archExpect, archAnswer, archStored, archMem, archQemu, archRaw>>

\* main: the emulator is not on the path.
ArchSkip ==
  /\ archPc = "start"
  /\ ArchFinish("skip", 0)
  /\ UNCHANGED <<archExpect, archAnswer, archStored, archMem, archQemu, archRaw>>

\* main: the build leaves no image, or its hour runs out (uncaught, status 1).
ArchBuildFail ==
  /\ archPc = "start"
  /\ ArchFinish("buildfail", 1)
  /\ UNCHANGED <<archExpect, archAnswer, archStored, archMem, archQemu, archRaw>>

\* main and run: an image exists; the emulator starts on cleared memory.
ArchBoot ==
  /\ archPc = "start"
  /\ archPc' = "settling"
  /\ archQemu' = "up"
  /\ archAnswer' \in ArchAnswers
  /\ UNCHANGED <<archExpect, archStored, archMem, archRaw, archExit>>

\* The order of payload's eight stores, by position: the magic is written
\* after the answer.
StoreOrder == <<1, 2, 3, 4, 5, 6, 7, 8>>

\* The guest performs its next byte store.
GuestStore ==
  /\ archQemu = "up"
  /\ archStored < 8
  /\ archStored' = archStored + 1
  /\ LET at == StoreOrder[archStored + 1] IN
       archMem' = [archMem EXCEPT ![at] = payload(archAnswer)[at]]
  /\ UNCHANGED <<archPc, archExpect, archAnswer, archQemu, archRaw, archExit>>

\* The emulator ends by itself (a guest fault with -no-reboot, a bad image).
QemuExits ==
  /\ archQemu = "up"
  /\ archQemu' = "exited"
  /\ UNCHANGED <<archPc, archExpect, archAnswer, archStored, archMem, archRaw, archExit>>

\* run: the settling time is over and p.poll() is looked at.
ArchSettled ==
  /\ archPc = "settling"
  /\ IF archQemu = "exited" THEN ArchFinish("fail", 1)
                            ELSE archPc' = "dump" /\ UNCHANGED archExit
  /\ UNCHANGED <<archExpect, archAnswer, archStored, archMem, archQemu, archRaw>>

\* qmp: greeting, capabilities, pmemsave, quit.  The file read half a second
\* later is a prefix of the snapshot, or is missing.
ArchDump ==
  /\ archPc = "dump"
  /\ archQemu = "up"
  /\ \E n \in 0..8 : archRaw' = SubSeq(archMem, 1, n)
  /\ archPc' = "grade"
  /\ archQemu' = "exited"
  /\ UNCHANGED <<archExpect, archAnswer, archStored, archMem, archExit>>

\* qmp: no socket, or the connection closes: the exception passes through the
\* finally clause, which kills the emulator, and leaves main with status 1.
ArchDumpRaises ==
  /\ archPc = "dump"
  /\ archQemu' = "exited"
  /\ ArchFinish("fail", 1)
  /\ UNCHANGED <<archExpect, archAnswer, archStored, archMem, archRaw>>

\* word: int.from_bytes of up to four bytes of the dump; a short slice has
\* fewer digits.
ByteAt(raw, i) == IF i \in DOMAIN raw THEN raw[i] ELSE 0

word(raw, at) ==
  ByteAt(raw, at) + Radix * (ByteAt(raw, at + 1)
                  + Radix * (ByteAt(raw, at + 2) + Radix * ByteAt(raw, at + 3)))

\* "The image wrote something" taken for an answer.
NoMagicCheck(raw, expect) ==
  IF raw = <<>> THEN "fail" ELSE IF word(raw, 1) # expect THEN "wrong" ELSE "pass"

Verdict(raw, expect) ==
  IF raw = <<>> \/ word(raw, 5) # MAGIC THEN "fail"
  ELSE IF word(raw, 1) # expect THEN "wrong" ELSE "pass"

StatusOf(verdict) == CASE verdict = "pass" -> 0 [] verdict = "wrong" -> 3
                       [] OTHER -> 1

\* run and main: NO DUMP, NO MAGIC, WRONG or PASS.
ArchGrade ==
  /\ archPc = "grade"
  /\ LET v == Verdict(archRaw, archExpect) IN ArchFinish(v, StatusOf(v))
  /\ UNCHANGED <<archExpect, archAnswer, archStored, archMem, archQemu, archRaw>>

ArchNext ==
  \/ ArchInvoke \/ ArchUsage \/ ArchSkip \/ ArchBuildFail \/ ArchBoot
  \/ GuestStore \/ QemuExits
  \/ ArchSettled \/ ArchDump \/ ArchDumpRaises \/ ArchGrade

ArchSpec == ArchInit /\ [][ArchNext]_archVars

-----------------------------------------------------------------------------
WordValues == Radix * Radix * Radix * Radix

ArchEnds == {"usage", "skip", "buildfail", "fail", "wrong", "pass"}

\* Every value of the script's and the guest's state keeps its shape.
ArchTypeOK ==
  /\ archPc \in {"idle", "start", "settling", "dump", "grade"} \cup ArchEnds
  /\ archExpect \in Int
  /\ archAnswer \in Int
  /\ archStored \in 0..8
  /\ archMem \in [1..8 -> Bytes]
  /\ archQemu \in {"none", "up", "exited"}
  /\ \E n \in 0..8 : archRaw \in [1..n -> Bytes]
  /\ archExit \in {-1, 0, 1, 2, 3}

\* payload's promise: the magic in a dump implies that all four bytes of the
\* answer beside it are the guest's answer, whenever the dump was taken.
MagicImpliesAnswer ==
  word(archRaw, 5) = MAGIC => \A i \in 1..4 : ByteAt(archRaw, i) = store32(archAnswer)[i]

\* The exit status is about the guest's answer, never about how far the guest
\* had got: PASS only for an answer whose low word is --expect, and exit 3
\* (which the gate's positive control relies on) only for an image that built,
\* ran to the end of its stores and answered something else.
VerdictSound ==
  /\ archPc = "pass" => archAnswer % WordValues = archExpect
  /\ archExit = 3 => archStored = 8 /\ archAnswer % WordValues # archExpect

\* No path out of run(), the raising ones included, leaves the emulator running.
NoOrphanEmulator == archExit # -1 => archQemu # "up"
=============================================================================
