-------------------------- MODULE ArchLadderProofs --------------------------
(***************************************************************************)
(* For every radix, magic word, answer and expected value: what            *)
(* arch-ladder.py reads next to the magic is the guest's answer, its       *)
(* verdict is about that answer, and it leaves no emulator running.        *)
(***************************************************************************)
EXTENDS ArchLadder, SequenceTheorems, TLAPS

\* The memory holds the first archStored stores and is clear otherwise.
MemIsPrefix ==
  \A i \in 1..8 : archMem[i] = IF i <= archStored THEN payload(archAnswer)[i] ELSE 0

\* Where the script is tells whether there is an emulator, and only an ended
\* run has an exit status.
PcTellsQemu ==
  /\ archPc \in {"idle", "start", "usage", "skip", "buildfail"}
       => archQemu = "none" /\ archStored = 0
  /\ archPc \in {"grade", "fail", "wrong", "pass"} => archQemu = "exited"
  /\ archExit # -1 => archPc \in ArchEnds

\* The bytes read are those of the memory, which no longer changes.
RawIsMem ==
  /\ archRaw # <<>> => archQemu = "exited"
  /\ \A i \in DOMAIN archRaw : archRaw[i] = archMem[i]

ArchInv == ArchTypeOK /\ MemIsPrefix /\ PcTellsQemu /\ RawIsMem

-----------------------------------------------------------------------------
(* Bytes and words. *)

\* Four stores are four bytes, whatever the value (store32's masks).
LEMMA StoresAreBytes ==
  ASSUME NEW v \in Int
  PROVE  store32(v) \in [1..4 -> Bytes]
<1> DEFINE d1 == v \div Radix
           d2 == v \div (Radix * Radix)
           d3 == v \div (Radix * Radix * Radix)
<1>1. Radix \in Int /\ Radix > 0 /\ Radix * Radix \in Int /\ Radix * Radix > 0
    BY RadixAssumption
<1>2. Radix * Radix * Radix \in Int /\ Radix * Radix * Radix > 0
    BY <1>1
<1>3. d1 \in Int /\ d2 \in Int /\ d3 \in Int
    BY <1>1, <1>2
<1>4. \A x \in Int : x % Radix \in Bytes
    BY <1>1 DEF Bytes
<1> HIDE DEF d1, d2, d3
<1>5. store32(v) = <<v % Radix, d1 % Radix, d2 % Radix, d3 % Radix>>
    BY DEF store32, d1, d2, d3
<1> QED
    BY <1>3, <1>4, <1>5

\* The payload is the answer's four bytes, then the magic's.
LEMMA PayloadBytes ==
  ASSUME NEW v \in Int
  PROVE  /\ payload(v) \in [1..8 -> Bytes]
         /\ \A i \in 1..4 : payload(v)[i] = store32(v)[i]
<1>1. ASSUME NEW w \in Int PROVE store32(w) \in Seq(Bytes) /\ Len(store32(w)) = 4
  <2>1. Len(store32(w)) = 4
      BY DEF store32
  <2>2. store32(w) \in Seq(Bytes)
      BY StoresAreBytes, SeqDef
  <2> QED
      BY <2>1, <2>2
<1>2. MAGIC \in Int
    BY MagicAssumption
<1> DEFINE s == store32(v)
           m == store32(MAGIC)
<1>3. s \in Seq(Bytes) /\ m \in Seq(Bytes) /\ Len(s) = 4 /\ Len(m) = 4
    BY <1>1, <1>2
<1> HIDE DEF s, m
<1>4. /\ s \o m \in Seq(Bytes)
      /\ Len(s \o m) = 8
      /\ \A i \in 1..4 : (s \o m)[i] = s[i]
  <2>1. s \o m \in Seq(Bytes)
      BY <1>3, ConcatProperties
  <2>2. Len(s \o m) = Len(s) + Len(m)
      BY <1>3, ConcatProperties
  <2>3. \A i \in 1 .. Len(s) + Len(m) :
          (s \o m)[i] = IF i <= Len(s) THEN s[i] ELSE m[i - Len(s)]
      BY <1>3, ConcatProperties
  <2> QED
      BY <1>3, <2>1, <2>2, <2>3
<1>5. payload(v) = s \o m
    BY DEF payload, s, m
<1>6. payload(v) \in [1..8 -> Bytes]
    BY <1>4, <1>5, LenProperties
<1> QED
    BY <1>4, <1>5, <1>6 DEF s

\* A word whose top byte is zero is smaller than the magic.
LEMMA SmallWord ==
  ASSUME NEW a \in Bytes, NEW b \in Bytes, NEW c \in Bytes
  PROVE  a + Radix * (b + Radix * (c + Radix * 0)) # MAGIC
<1>1. Radix \in Int /\ Radix > 1 /\ a \in Int /\ b \in Int /\ c \in Int
      /\ a <= Radix - 1 /\ b <= Radix - 1 /\ c <= Radix - 1
    BY RadixAssumption DEF Bytes
<1>2. Radix * c <= Radix * (Radix - 1)
    BY <1>1
<1>3. b + Radix * c <= Radix * Radix - 1
    BY <1>1, <1>2
<1>4. Radix * (b + Radix * c) <= Radix * (Radix * Radix - 1)
    BY <1>1, <1>3
<1>5. a + Radix * (b + Radix * c) < Radix * Radix * Radix
    BY <1>1, <1>4
<1>6. c + Radix * 0 = c
    BY <1>1
<1> QED
    BY <1>1, <1>5, <1>6, MagicAssumption

-----------------------------------------------------------------------------
(* The invariant. *)

\* Nothing is booted, stored or read at the start.
LEMMA InitArchInv == ArchInit => ArchInv
<1> SUFFICES ASSUME ArchInit PROVE ArchInv
    OBVIOUS
<1>1. ArchTypeOK
  <2>1. archMem \in [1..8 -> Bytes]
      BY RadixAssumption DEF ArchInit, ZeroRegion, Bytes
  <2>2. archRaw \in [1..0 -> Bytes]
      BY DEF ArchInit
  <2>3. \E n \in 0..8 : archRaw \in [1..n -> Bytes]
      BY <2>2
  <2> QED
      BY <2>1, <2>3 DEF ArchInit, ArchTypeOK
<1>2. MemIsPrefix
    BY DEF ArchInit, MemIsPrefix, ZeroRegion
<1>3. PcTellsQemu /\ RawIsMem
    BY DEF ArchInit, PcTellsQemu, RawIsMem, ArchEnds
<1> QED
    BY <1>1, <1>2, <1>3 DEF ArchInv

\* Steps of the script that leave the guest's memory and the dump alone.
LEMMA ScriptKeepsInv ==
  ASSUME ArchInv,
         \/ ArchInvoke \/ ArchUsage \/ ArchSkip \/ ArchBuildFail
         \/ QemuExits \/ ArchSettled \/ ArchDumpRaises \/ ArchGrade
         \/ UNCHANGED archVars
  PROVE  ArchInv'
<1> USE DEF ArchInv, ArchTypeOK, MemIsPrefix, PcTellsQemu, RawIsMem, ArchEnds
<1>1. CASE ArchInvoke
    BY <1>1, ArchIntAssumption DEF ArchInvoke
<1>2. CASE ArchUsage
    BY <1>2 DEF ArchUsage, ArchFinish
<1>3. CASE ArchSkip
    BY <1>3 DEF ArchSkip, ArchFinish
<1>4. CASE ArchBuildFail
    BY <1>4 DEF ArchBuildFail, ArchFinish
<1>5. CASE QemuExits
    BY <1>5 DEF QemuExits
<1>6. CASE ArchSettled
    BY <1>6 DEF ArchSettled, ArchFinish
<1>7. CASE ArchDumpRaises
    BY <1>7 DEF ArchDumpRaises, ArchFinish
<1>8. CASE ArchGrade
  <2>1. Verdict(archRaw, archExpect) \in {"fail", "wrong", "pass"}
      BY DEF Verdict
  <2>2. StatusOf(Verdict(archRaw, archExpect)) \in {0, 1, 3}
      BY <2>1 DEF StatusOf
  <2> QED
      BY <1>8, <2>1, <2>2 DEF ArchGrade, ArchFinish
<1>9. CASE UNCHANGED archVars
    BY <1>9 DEF archVars
<1> QED
    BY <1>1, <1>2, <1>3, <1>4, <1>5, <1>6, <1>7, <1>8, <1>9

\* The boot fixes the answer before any store has happened.
LEMMA BootKeepsInv ==
  ASSUME ArchInv, ArchBoot
  PROVE  ArchInv'
<1>1. archStored = 0 /\ archRaw = <<>>
    BY DEF ArchInv, ArchTypeOK, PcTellsQemu, RawIsMem, ArchBoot
<1>2. archAnswer' \in Int
    BY ArchIntAssumption DEF ArchBoot
<1>3. ArchTypeOK'
    BY <1>2 DEF ArchInv, ArchTypeOK, ArchBoot
<1>4. MemIsPrefix'
    BY <1>1 DEF ArchInv, MemIsPrefix, ArchBoot
<1>5. PcTellsQemu' /\ RawIsMem'
    BY <1>1 DEF ArchInv, PcTellsQemu, RawIsMem, ArchBoot, ArchEnds
<1> QED
    BY <1>3, <1>4, <1>5 DEF ArchInv

\* The guest's stores extend the prefix by one byte.
LEMMA StoreKeepsInv ==
  ASSUME ArchInv, GuestStore
  PROVE  ArchInv'
<1> DEFINE p == payload(archAnswer)
           k == archStored + 1
<1>1. /\ archStored \in 0..8 /\ archStored < 8 /\ k \in 1..8
      /\ archMem \in [1..8 -> Bytes] /\ archAnswer \in Int
    BY DEF ArchInv, ArchTypeOK, GuestStore
<1>2. p \in [1..8 -> Bytes]
    BY <1>1, PayloadBytes
<1>3. StoreOrder[k] = k
    BY <1>1 DEF StoreOrder
<1>4. archMem' = [archMem EXCEPT ![k] = p[k]] /\ archStored' = k /\ archAnswer' = archAnswer
    BY <1>3 DEF GuestStore
<1>5. archRaw = <<>>
    BY DEF ArchInv, RawIsMem, GuestStore
<1>6. \A i \in 1..8 : archMem[i] = IF i <= archStored THEN p[i] ELSE 0
    BY DEF ArchInv, MemIsPrefix
<1>7. p' = p
    BY <1>4
<1> HIDE DEF p
<1>8. archMem' \in [1..8 -> Bytes]
    BY <1>1, <1>2, <1>4
<1>9. \A i \in 1..8 : archMem'[i] = IF i <= k THEN p[i] ELSE 0
    BY <1>1, <1>4, <1>6
<1>10. MemIsPrefix'
    BY <1>4, <1>7, <1>9 DEF MemIsPrefix, p
<1>11. ArchTypeOK'
  <2>1. archStored' \in 0..8
      BY <1>1, <1>4
  <2>2. \E n \in 0..8 : archRaw' \in [1..n -> Bytes]
      BY DEF ArchInv, ArchTypeOK, GuestStore
  <2> QED
      BY <1>8, <2>1, <2>2 DEF ArchInv, ArchTypeOK, GuestStore
<1>12. PcTellsQemu'
    BY DEF ArchInv, PcTellsQemu, GuestStore, ArchEnds
<1>13. RawIsMem'
    BY <1>5 DEF RawIsMem, GuestStore
<1> QED
    BY <1>10, <1>11, <1>12, <1>13 DEF ArchInv

\* The dump is a prefix of the memory, and ends the guest.
LEMMA DumpKeepsInv ==
  ASSUME ArchInv, ArchDump
  PROVE  ArchInv'
<1>1. PICK n \in 0..8 : archRaw' = SubSeq(archMem, 1, n)
    BY DEF ArchDump
<1>2. archMem \in [1..8 -> Bytes] /\ archMem' = archMem
    BY DEF ArchInv, ArchTypeOK, ArchDump
<1>3. /\ archRaw' \in [1..n -> Bytes]
      /\ \A i \in 1..n : archRaw'[i] = archMem[i]
  <2>1. archRaw' = [i \in 1..n |-> archMem[i]]
      BY <1>1, <1>2
  <2> QED
      BY <1>2, <2>1
<1>4. ArchTypeOK'
    BY <1>3 DEF ArchInv, ArchTypeOK, ArchDump
<1>5. RawIsMem'
    BY <1>2, <1>3 DEF RawIsMem, ArchDump
<1>6. MemIsPrefix' /\ PcTellsQemu'
    BY DEF ArchInv, MemIsPrefix, PcTellsQemu, ArchDump, ArchEnds
<1> QED
    BY <1>4, <1>5, <1>6 DEF ArchInv

\* The invariant holds throughout.
LEMMA ArchInvHolds == ArchSpec => []ArchInv
<1>1. ArchInit => ArchInv
    BY InitArchInv
<1>2. ArchInv /\ [ArchNext]_archVars => ArchInv'
    BY ScriptKeepsInv, BootKeepsInv, StoreKeepsInv, DumpKeepsInv DEF ArchNext
<1> QED
    BY <1>1, <1>2, PTL DEF ArchSpec

-----------------------------------------------------------------------------
(* What it gives. *)

\* A dump that shows the magic was taken after the last of the eight stores.
LEMMA MagicIsLast ==
  ASSUME ArchInv, word(archRaw, 5) = MAGIC
  PROVE  /\ archStored = 8
         /\ \A i \in 1..4 : ByteAt(archRaw, i) = store32(archAnswer)[i]
<1>1. PICK n \in 0..8 : archRaw \in [1..n -> Bytes]
    BY DEF ArchInv, ArchTypeOK
<1>2. \A i \in 1..8 : ByteAt(archRaw, i) \in Bytes
    BY <1>1, RadixAssumption DEF ByteAt, Bytes
<1>3. ByteAt(archRaw, 8) # 0
  <2> DEFINE a == ByteAt(archRaw, 5)
             b == ByteAt(archRaw, 6)
             c == ByteAt(archRaw, 7)
  <2>1. a \in Bytes /\ b \in Bytes /\ c \in Bytes
      BY <1>2
  <2>2. word(archRaw, 5) = a + Radix * (b + Radix * (c + Radix * ByteAt(archRaw, 8)))
      BY DEF word
  <2> HIDE DEF a, b, c
  <2> QED
      BY <2>1, <2>2, SmallWord
<1>4. n = 8 /\ archRaw[8] # 0
    BY <1>1, <1>3 DEF ByteAt
<1>5. archMem[8] # 0
    BY <1>1, <1>4 DEF ArchInv, RawIsMem
<1>6. archStored = 8
    BY <1>5 DEF ArchInv, MemIsPrefix, ArchTypeOK
<1>7. ASSUME NEW i \in 1..4 PROVE ByteAt(archRaw, i) = store32(archAnswer)[i]
  <2>1. ByteAt(archRaw, i) = archMem[i]
      BY <1>1, <1>4 DEF ByteAt, ArchInv, RawIsMem
  <2>2. archMem[i] = payload(archAnswer)[i]
      BY <1>6 DEF ArchInv, MemIsPrefix
  <2>3. payload(archAnswer)[i] = store32(archAnswer)[i]
      BY PayloadBytes DEF ArchInv, ArchTypeOK
  <2> QED
      BY <2>1, <2>2, <2>3
<1> QED
    BY <1>6, <1>7

\* arch-ladder.py's state keeps its types, whatever the guest does: a dump is
\* at most eight bytes, each of them a byte, however the stores were cut.
THEOREM LadderTyped == ArchSpec => []ArchTypeOK
<1>1. ArchInv => ArchTypeOK
    BY DEF ArchInv
<1> QED
    BY <1>1, ArchInvHolds, PTL

\* The promise of payload in arch-ladder.py, for every answer, radix and magic
\* with a non-zero top byte: a dump with the magic has the guest's answer.
THEOREM MagicMeansAnswer == ArchSpec => []MagicImpliesAnswer
<1>1. ArchInv => MagicImpliesAnswer
    BY MagicIsLast DEF MagicImpliesAnswer
<1> QED
    BY <1>1, ArchInvHolds, PTL

\* run()'s finally clause: however the script ends, the emulator does not run.
THEOREM LeavesNoEmulator == ArchSpec => []NoOrphanEmulator
<1>1. ArchInv => NoOrphanEmulator
    BY DEF ArchInv, PcTellsQemu, NoOrphanEmulator, ArchEnds
<1> QED
    BY <1>1, ArchInvHolds, PTL

-----------------------------------------------------------------------------
(* The verdict.  The four bytes of a value, read back as a word, are the    *)
(* value modulo the words there are.                                        *)

\* Quotient and remainder are unique.
LEMMA DivisionUnique ==
  ASSUME NEW b \in Int, b > 0, NEW q \in Int, NEW r \in Int, 0 <= r, r < b,
         NEW p \in Int, NEW t \in Int, 0 <= t, t < b,
         b * q + r = b * p + t
  PROVE  q = p /\ r = t
<1>1. b * (q - p) = t - r
    OBVIOUS
<1>2. ASSUME q - p >= 1 PROVE FALSE
  <2>1. b * (q - p) >= b * 1
      BY <1>2
  <2> QED
      BY <1>1, <2>1
<1>3. ASSUME p - q >= 1 PROVE FALSE
  <2>1. b * (p - q) >= b * 1
      BY <1>3
  <2>2. b * (p - q) = r - t
      BY <1>1
  <2> QED
      BY <2>1, <2>2
<1>4. q = p
    BY <1>2, <1>3
<1> QED
    BY <1>1, <1>4

\* \div and % are a quotient and a remainder.
LEMMA Division ==
  ASSUME NEW a \in Int, NEW b \in Int, b > 0
  PROVE  /\ a \div b \in Int /\ a % b \in Int
         /\ 0 <= a % b /\ a % b < b
         /\ a = b * (a \div b) + (a % b)
<1>1. a \div b \in Int /\ a % b \in Int
    OBVIOUS
<1>2. 0 <= a % b /\ a % b < b
    OBVIOUS
<1>3. a = b * (a \div b) + (a % b)
    OBVIOUS
<1> QED
    BY <1>1, <1>2, <1>3

\* What recognises a quotient and a remainder.
LEMMA DivisionIs ==
  ASSUME NEW a \in Int, NEW b \in Int, b > 0, NEW q \in Int, NEW r \in Int,
         0 <= r, r < b, a = b * q + r
  PROVE  a \div b = q /\ a % b = r
<1> DEFINE p == a \div b
           t == a % b
<1>1. p \in Int /\ t \in Int /\ 0 <= t /\ t < b /\ a = b * p + t
    BY Division
<1> HIDE DEF p, t
<1>2. q = p /\ r = t
    BY <1>1, DivisionUnique
<1> QED
    BY <1>2 DEF p, t

\* Dividing twice is dividing by the product.
LEMMA DivideTwice ==
  ASSUME NEW a \in Int, NEW b \in Int, b > 0, NEW c \in Int, c > 0
  PROVE  a \div (b * c) = (a \div b) \div c
<1> DEFINE d == a \div b
           e == d \div c
           f == d % c
           g == a % b
<1>1. d \in Int /\ g \in Int /\ 0 <= g /\ g < b /\ a = b * d + g
    BY Division
<1>2. e \in Int /\ f \in Int /\ 0 <= f /\ f < c /\ d = c * e + f
    BY <1>1, Division
<1> HIDE DEF d, e, f, g
<1>3. b * c \in Int /\ b * c > 0 /\ b * f \in Int /\ b * f + g \in Int
    BY <1>1, <1>2
<1>4. a = (b * c) * e + (b * f + g)
  <2>1. b * d = b * (c * e) + b * f
      BY <1>1, <1>2
  <2>2. b * (c * e) = (b * c) * e
      BY <1>2
  <2> QED
      BY <1>1, <1>2, <1>3, <2>1, <2>2
<1>5. 0 <= b * f + g /\ b * f + g < b * c
  <2>1. 0 <= b * f
      BY <1>2
  <2>2. b * f <= b * (c - 1)
      BY <1>2
  <2>3. b * (c - 1) = b * c - b
      OBVIOUS
  <2> QED
      BY <1>1, <1>3, <2>1, <2>2, <2>3
<1>6. a \div (b * c) = e
    BY <1>2, <1>3, <1>4, <1>5, DivisionIs
<1> QED
    BY <1>6 DEF d, e

\* A value's four stores, read back, are the value modulo a word.
LEMMA WordOfStores ==
  ASSUME NEW v \in Int
  PROVE  store32(v)[1] + Radix * (store32(v)[2] + Radix * (store32(v)[3]
           + Radix * store32(v)[4])) = v % WordValues
<1> DEFINE R == Radix
           d1 == v \div R
           d2 == d1 \div R
           d3 == d2 \div R
           d4 == d3 \div R
           b0 == v % R
           b1 == d1 % R
           b2 == d2 % R
           b3 == d3 % R
<1>1. R \in Int /\ R > 1 /\ R * R \in Int /\ R * R > 0
    BY RadixAssumption
<1>2. d1 \in Int /\ b0 \in Int /\ 0 <= b0 /\ b0 < R /\ v = R * d1 + b0
    BY <1>1, Division
<1>3. d2 \in Int /\ b1 \in Int /\ 0 <= b1 /\ b1 < R /\ d1 = R * d2 + b1
    BY <1>1, <1>2, Division
<1>4. d3 \in Int /\ b2 \in Int /\ 0 <= b2 /\ b2 < R /\ d2 = R * d3 + b2
    BY <1>1, <1>3, Division
<1>5. d4 \in Int /\ b3 \in Int /\ 0 <= b3 /\ b3 < R /\ d3 = R * d4 + b3
    BY <1>1, <1>4, Division
<1>6. v \div (R * R) = d2
    BY <1>1, DivideTwice
<1>7. v \div (R * R * R) = d3
    BY <1>1, <1>6, DivideTwice
<1>8. store32(v) = <<b0, b1, b2, b3>>
    BY <1>6, <1>7 DEF store32
<1> HIDE DEF R, d1, d2, d3, d4, b0, b1, b2, b3
<1> DEFINE w2 == b2 + R * b3
           w1 == b1 + R * w2
           w0 == b0 + R * w1
<1>9. w2 \in Int /\ 0 <= w2 /\ w2 <= R * R - 1
  <2>1. 0 <= R * b3 /\ R * b3 <= R * (R - 1)
      BY <1>1, <1>5
  <2> QED
      BY <1>1, <1>4, <1>5, <2>1
<1>10. w1 \in Int /\ 0 <= w1 /\ w1 <= R * R * R - 1
  <2> HIDE DEF w2
  <2>1. 0 <= R * w2 /\ R * w2 <= R * (R * R - 1)
      BY <1>1, <1>9
  <2> QED
      BY <1>1, <1>3, <1>9, <2>1
<1>11. w0 \in Int /\ 0 <= w0 /\ w0 <= R * R * R * R - 1
  <2> HIDE DEF w1
  <2>1. 0 <= R * w1 /\ R * w1 <= R * (R * R * R - 1)
      BY <1>1, <1>10
  <2> QED
      BY <1>1, <1>2, <1>10, <2>1
<1>12. v = (R * R * R * R) * d4 + w0
  <2>1. d2 = (R * R) * d4 + w2
      BY <1>1, <1>4, <1>5
  <2> HIDE DEF w2
  <2>2. R * d2 = (R * R * R) * d4 + R * w2
      BY <1>1, <1>5, <1>9, <2>1
  <2>3. d1 = (R * R * R) * d4 + w1
      BY <1>1, <1>3, <1>5, <1>9, <2>2
  <2> HIDE DEF w1
  <2>4. R * d1 = (R * R * R * R) * d4 + R * w1
      BY <1>1, <1>5, <1>10, <2>3
  <2> QED
      BY <1>1, <1>2, <1>5, <1>10, <2>4
<1>13. R * R * R * R \in Int /\ R * R * R * R > 0
    BY <1>1, <1>11
<1>14. v % (R * R * R * R) = w0
  <2> HIDE DEF w0
  <2>1. w0 < R * R * R * R
      BY <1>11, <1>13
  <2> QED
      BY <1>5, <1>11, <1>12, <1>13, <2>1, DivisionIs
<1>15. v % WordValues = w0
    BY <1>14 DEF WordValues, R
<1> QED
    BY <1>8, <1>15 DEF R

\* A verdict is the verdict on the bytes read: they and --expect outlive it.
VerdictOnRaw ==
  /\ archPc = "pass" => word(archRaw, 5) = MAGIC /\ word(archRaw, 1) = archExpect
  /\ archExit = 3 => word(archRaw, 5) = MAGIC /\ word(archRaw, 1) # archExpect

\* ArchGrade establishes it; afterwards the script reads nothing more.
LEMMA VerdictKept ==
  ASSUME ArchInv, VerdictOnRaw, [ArchNext]_archVars
  PROVE  VerdictOnRaw'
<1> USE DEF VerdictOnRaw
<1>1. ASSUME archPc \notin ArchEnds, archPc' # "pass", archExit' # 3 PROVE VerdictOnRaw'
    BY <1>1
<1>2. archPc \notin ArchEnds => archExit = -1
    BY DEF ArchInv, PcTellsQemu
<1>3. ASSUME UNCHANGED <<archPc, archExit, archRaw, archExpect>> PROVE VerdictOnRaw'
  <2>1. word(archRaw, 5)' = word(archRaw, 5) /\ word(archRaw, 1)' = word(archRaw, 1)
      BY <1>3
  <2> QED
      BY <1>3, <2>1
<1>4. CASE ArchInvoke
    BY <1>1, <1>2, <1>4 DEF ArchInvoke, ArchEnds
<1>5. CASE ArchUsage \/ ArchSkip \/ ArchBuildFail \/ ArchDumpRaises
    BY <1>1, <1>5 DEF ArchUsage, ArchSkip, ArchBuildFail, ArchDumpRaises, ArchFinish, ArchEnds
<1>6. CASE ArchBoot \/ ArchDump
    BY <1>1, <1>2, <1>6 DEF ArchBoot, ArchDump, ArchEnds
<1>7. CASE ArchSettled
    BY <1>1, <1>2, <1>7 DEF ArchSettled, ArchFinish, ArchEnds
<1>8. CASE GuestStore \/ QemuExits \/ UNCHANGED archVars
    BY <1>3, <1>8 DEF GuestStore, QemuExits, archVars
<1>9. CASE ArchGrade
  <2>1. /\ archPc' = Verdict(archRaw, archExpect)
        /\ archExit' = StatusOf(Verdict(archRaw, archExpect))
        /\ word(archRaw, 5)' = word(archRaw, 5)
        /\ word(archRaw, 1)' = word(archRaw, 1)
        /\ archExpect' = archExpect
      BY <1>9 DEF ArchGrade, ArchFinish
  <2>2. CASE archRaw = <<>> \/ word(archRaw, 5) # MAGIC
      BY <2>1, <2>2 DEF Verdict, StatusOf
  <2>3. CASE archRaw # <<>> /\ word(archRaw, 5) = MAGIC /\ word(archRaw, 1) = archExpect
      BY <2>1, <2>3 DEF Verdict, StatusOf
  <2>4. CASE archRaw # <<>> /\ word(archRaw, 5) = MAGIC /\ word(archRaw, 1) # archExpect
      BY <2>1, <2>4 DEF Verdict, StatusOf
  <2> QED
      BY <2>2, <2>3, <2>4
<1> QED
    BY <1>4, <1>5, <1>6, <1>7, <1>8, <1>9 DEF ArchNext

\* arch-ladder.py's exit status is about the guest's answer and never about how
\* far the guest had got: 0 as a verdict means the answer's low word is
\* --expect, and 3 that the guest finished its stores with another one.
THEOREM VerdictMeansAnswer == ArchSpec => []VerdictSound
<1>1. ArchInit => VerdictOnRaw
    BY DEF ArchInit, VerdictOnRaw
<1>2. ArchInv /\ VerdictOnRaw /\ [ArchNext]_archVars => VerdictOnRaw'
    BY VerdictKept
<1>3. ArchInv /\ VerdictOnRaw => VerdictSound
  <2> SUFFICES ASSUME ArchInv, VerdictOnRaw PROVE VerdictSound
      OBVIOUS
  <2>1. ASSUME word(archRaw, 5) = MAGIC
        PROVE  archStored = 8 /\ word(archRaw, 1) = archAnswer % WordValues
    <3>1. archStored = 8 /\ \A i \in 1..4 : ByteAt(archRaw, i) = store32(archAnswer)[i]
        BY <2>1, MagicIsLast
    <3>2. archAnswer \in Int
        BY DEF ArchInv, ArchTypeOK
    <3>3. word(archRaw, 1) = store32(archAnswer)[1] + Radix * (store32(archAnswer)[2]
            + Radix * (store32(archAnswer)[3] + Radix * store32(archAnswer)[4]))
        BY <3>1 DEF word
    <3> QED
        BY <3>1, <3>2, <3>3, WordOfStores
  <2> QED
      BY <2>1 DEF VerdictOnRaw, VerdictSound
<1> QED
    BY <1>1, <1>2, <1>3, ArchInvHolds, PTL DEF ArchSpec
=============================================================================
