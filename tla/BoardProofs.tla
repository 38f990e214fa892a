---------------------------- MODULE BoardProofs -----------------------------
(***************************************************************************)
(* The scripts that drive a board: deploy-kernel.py, the netboot scripts    *)
(* and board-video.py.  For every image, clip, number of tries and every    *)
(* behaviour of the machine at the other end of the line.                   *)
(***************************************************************************)
EXTENDS MCScripts, SequenceTheorems, WellFoundedInduction, TLAPS

-----------------------------------------------------------------------------
(* What a queue holds after a step on it. *)

Members(s) == {s[i] : i \in DOMAIN s}

LEMMA MembersAppend ==
    ASSUME NEW S, NEW s \in Seq(S), NEW e \in S
    PROVE  Append(s, e) \in Seq(S) /\ Members(Append(s, e)) = Members(s) \cup {e}
<1> DEFINE r == Append(s, e)
<1>1. /\ r \in Seq(S) /\ DOMAIN r = 1 .. (Len(s) + 1) /\ DOMAIN s = 1 .. Len(s)
      /\ Len(s) \in Nat /\ r[Len(s) + 1] = e
      /\ \A i \in 1 .. Len(s) : r[i] = s[i]
  OBVIOUS
<1> HIDE DEF r
<1>2. \A i \in DOMAIN r : i \in DOMAIN s \/ i = Len(s) + 1
  BY <1>1
<1>3. Len(s) + 1 \in DOMAIN r /\ \A i \in DOMAIN s : i \in DOMAIN r
  BY <1>1
<1>4. ASSUME NEW x \in Members(r) PROVE x \in Members(s) \cup {e}
  BY <1>1, <1>2 DEF Members
<1>5. ASSUME NEW x \in Members(s) \cup {e} PROVE x \in Members(r)
  BY <1>1, <1>3 DEF Members
<1> QED
  BY <1>1, <1>4, <1>5 DEF r

LEMMA MembersTail ==
    ASSUME NEW S, NEW s \in Seq(S), s # <<>>
    PROVE  /\ Tail(s) \in Seq(S) /\ Members(Tail(s)) \subseteq Members(s)
           /\ Head(s) \in Members(s) /\ Head(s) \in S
<1> DEFINE r == Tail(s)
<1>1. /\ r \in Seq(S) /\ DOMAIN r = 1 .. (Len(s) - 1) /\ DOMAIN s = 1 .. Len(s)
      /\ Len(s) \in Nat /\ Len(s) > 0 /\ Head(s) = s[1]
      /\ \A i \in 1 .. (Len(s) - 1) : r[i] = s[i + 1]
  OBVIOUS
<1> HIDE DEF r
<1>2. \A i \in DOMAIN r : i + 1 \in DOMAIN s /\ r[i] = s[i + 1]
  BY <1>1
<1>3. 1 \in DOMAIN s
  BY <1>1
<1>4. Members(r) \subseteq Members(s)
  BY <1>2 DEF Members
<1>5. Head(s) \in Members(s) /\ Head(s) \in S
  BY <1>1, <1>3 DEF Members
<1> QED
  BY <1>1, <1>4, <1>5 DEF r

LEMMA MembersFront ==
    ASSUME NEW S, NEW s \in Seq(S), Len(s) > 1
    PROVE  /\ SubSeq(s, 1, Len(s) - 1) \in Seq(S)
           /\ Members(SubSeq(s, 1, Len(s) - 1)) \subseteq Members(s)
<1> DEFINE r == SubSeq(s, 1, Len(s) - 1)
<1>1. /\ r \in Seq(S) /\ DOMAIN r = 1 .. (Len(s) - 1) /\ DOMAIN s = 1 .. Len(s)
      /\ Len(s) \in Nat
      /\ \A i \in 1 .. (Len(s) - 1) : r[i] = s[i]
  OBVIOUS
<1> HIDE DEF r
<1>2. \A i \in DOMAIN r : i \in DOMAIN s /\ r[i] = s[i]
  BY <1>1
<1> QED
  BY <1>1, <1>2 DEF Members, r

LEMMA MembersEmpty == Members(<<>>) = {}
BY DEF Members

-----------------------------------------------------------------------------
(* Sums of bytes. *)

\* Induction over the naturals, stated with a set.
LEMMA SetInduction ==
    ASSUME NEW S, 0 \in S, \A n \in Nat : n \in S => n + 1 \in S
    PROVE  Nat \subseteq S
<1> DEFINE T == Nat \ S
           R == OpToRel(<, Nat)
<1> SUFFICES ASSUME T # {} PROVE FALSE
  OBVIOUS
<1>1. IsWellFoundedOn(R, Nat)
  BY NatLessThanWellFounded
<1>2. T \subseteq Nat
  OBVIOUS
<1>3. \A y, z \in Nat : y < z => <<y, z>> \in R
  BY DEF OpToRel
<1> HIDE DEF R
<1>4. PICK x \in T : \A y \in T : ~(<<y, x>> \in R)
  <2> HIDE DEF T
  <2> QED
    BY <1>1, <1>2, WFMin
<1>5. x \in Nat /\ x \notin S /\ x # 0
  OBVIOUS
<1>6. x - 1 \in Nat /\ x - 1 < x /\ (x - 1) + 1 = x
  BY <1>5
<1>7. x - 1 \notin T
  BY <1>3, <1>4, <1>5, <1>6
<1> QED
  BY <1>5, <1>6, <1>7

\* The partial sums of a sequence.
Sums(b, f) ==
    /\ f = [n \in 0 .. Len(b) |-> IF n = 0 THEN 0 ELSE f[n - 1] + b[n]]

LEMMA SumsExist ==
    ASSUME NEW b \in Seq(Nat)
    PROVE  \E f : Sums(b, f)
<1> DEFINE Upto(k, f) == f = [n \in 0 .. k |-> IF n = 0 THEN 0 ELSE f[n - 1] + b[n]]
           K == {k \in Nat : \E f : Upto(k, f)}
<1>1. 0 \in K
  <2> DEFINE g == [n \in 0 .. 0 |-> 0]
  <2>1. Upto(0, g)
    OBVIOUS
  <2> QED
    BY <2>1
<1>2. ASSUME NEW k \in Nat, k \in K PROVE k + 1 \in K
  <2>1. PICK f : Upto(k, f)
    BY <1>2
  <2> DEFINE g == [n \in 0 .. (k + 1) |-> IF n = k + 1 THEN f[k] + b[k + 1] ELSE f[n]]
             h == [n \in 0 .. (k + 1) |-> IF n = 0 THEN 0 ELSE g[n - 1] + b[n]]
  <2>2. \A n \in 0 .. k : f[n] = IF n = 0 THEN 0 ELSE f[n - 1] + b[n]
    BY <2>1
  <2>3. ASSUME NEW n \in 0 .. (k + 1) PROVE g[n] = h[n]
    <3>1. CASE n = k + 1
      <4>1. n # 0 /\ n - 1 = k /\ k \in 0 .. (k + 1) /\ k # k + 1
        BY <3>1
      <4>2. g[n - 1] = f[k] /\ g[n] = f[k] + b[k + 1]
        BY <3>1, <4>1
      <4> QED
        BY <3>1, <4>1, <4>2
    <3>2. CASE n # k + 1
      <4>1. n \in 0 .. k /\ g[n] = f[n]
        BY <3>2
      <4>2. n # 0 => g[n - 1] = f[n - 1]
        BY <4>1
      <4> QED
        BY <2>2, <4>1, <4>2
    <3> QED
      BY <3>1, <3>2
  <2>4. g = h
    BY <2>3
  <2> HIDE DEF g
  <2>5. Upto(k + 1, g)
    BY <2>4
  <2>6. \E e : Upto(k + 1, e)
    BY <2>5
  <2> HIDE DEF Upto
  <2> QED
    BY <2>6
<1>3. Len(b) \in K
  <2>1. Len(b) \in Nat
    OBVIOUS
  <2> HIDE DEF K
  <2> QED
    BY <1>1, <1>2, <2>1, SetInduction
<1> QED
  BY <1>3 DEF Sums

LEMMA SumOfSums ==
    ASSUME NEW b \in Seq(Nat)
    PROVE  \E f : Sums(b, f) /\ SumOf(b) = f[Len(b)]
<1> DEFINE f == CHOOSE g : Sums(b, g)
<1>1. Sums(b, f)
  BY SumsExist
<1>2. SumOf(b) = f[Len(b)]
  BY DEF SumOf, Sums
<1> QED
  BY <1>1, <1>2

LEMMA SeqElements ==
    ASSUME NEW S, NEW s \in Seq(S)
    PROVE  Len(s) \in Nat /\ DOMAIN s = 1 .. Len(s) /\ \A i \in 1 .. Len(s) : s[i] \in S
OBVIOUS

LEMMA SeqOfElements ==
    ASSUME NEW S, NEW T, NEW s \in Seq(S), \A i \in 1 .. Len(s) : s[i] \in T
    PROVE  s \in Seq(T)
OBVIOUS

\* A sequence of bytes is a sequence of numbers.
LEMMA BytesAreNumbers == Seq(0 .. 255) \subseteq Seq(Nat)
<1> DEFINE B == 0 .. 255
           N == Nat
<1>1. B \subseteq N
  OBVIOUS
<1> HIDE DEF B, N
<1>2. Seq(B) \subseteq Seq(N)
  BY <1>1
<1> QED
  BY ONLY <1>2 DEF B, N

LEMMA NumbersAreBytes ==
    ASSUME NEW s \in Seq(Nat), \A i \in 1 .. Len(s) : s[i] \in 0 .. 255
    PROVE  s \in Seq(0 .. 255)
<1> DEFINE B == 0 .. 255
           N == Nat
<1>1. s \in Seq(N) /\ \A i \in 1 .. Len(s) : s[i] \in B
  OBVIOUS
<1> HIDE DEF B, N
<1>2. s \in Seq(B)
  BY ONLY <1>1, SeqOfElements
<1> QED
  BY ONLY <1>2 DEF B

\* Two bytes are less than 256 apart, and residues less than 256 apart differ.
LEMMA ByteGap ==
    ASSUME NEW x \in 0 .. 255, NEW y \in 0 .. 255, x # y
    PROVE  x - y \in Int /\ x - y # 0 /\ x - y < 256 /\ 0 - (x - y) < 256
OBVIOUS

LEMMA NoGap == \A x \in 0 .. 255, y \in 0 .. 255 : x = y => x - y = 0
OBVIOUS

LEMMA GapChangesResidue ==
    ASSUME NEW x \in Int, NEW y \in Int, NEW d \in Int,
           x - y = d, d # 0, d < 256, 0 - d < 256
    PROVE  x % 256 # y % 256
OBVIOUS

LEMMA SumsApart ==
    \A u, v, x, y \in Int : (u + x) - (v + y) = (u - v) + (x - y)
OBVIOUS

\* The partial sums of a sequence, a term at a time.
LEMMA SumsStep ==
    ASSUME NEW b \in Seq(Nat), NEW f, Sums(b, f)
    PROVE  f[0] = 0 /\ \A n \in 1 .. Len(b) : f[n] = f[n - 1] + b[n]
<1> DEFINE m == Len(b)
<1>1. m \in Nat
  OBVIOUS
<1>2. f = [n \in 0 .. m |-> IF n = 0 THEN 0 ELSE f[n - 1] + b[n]]
  BY DEF Sums
<1> HIDE DEF m
<1>3. \A n \in 0 .. m : f[n] = IF n = 0 THEN 0 ELSE f[n - 1] + b[n]
  BY <1>2
<1>4. 0 \in 0 .. m /\ \A n \in 1 .. m : n \in 0 .. m /\ n # 0
  BY <1>1
<1> QED
  BY <1>3, <1>4 DEF m

\* The partial sums of m terms; and terms that differ in one place.
PartialSums(m, b, f) ==
    /\ f[0] = 0
    /\ \A n \in 1 .. m : b[n] \in Nat /\ f[n] = f[n - 1] + b[n]
OneApart(m, b, c, p, d) == \A n \in 1 .. m : b[n] - c[n] = IF n = p THEN d ELSE 0

\* Two sums whose terms differ in one place differ by what that place does.
LEMMA OneTermDiffers ==
    ASSUME NEW m \in Nat, NEW b, NEW c, NEW f, NEW g, NEW p \in 1 .. m, NEW d \in Int,
           PartialSums(m, b, f), PartialSums(m, c, g), OneApart(m, b, c, p, d)
    PROVE  f[m] \in Int /\ g[m] \in Int /\ f[m] - g[m] = d
<1> DEFINE Aside(k) == /\ f[k] \in Int /\ g[k] \in Int
                       /\ f[k] - g[k] = IF k < p THEN 0 ELSE d
           K == {k \in Nat : k <= m => Aside(k)}
<1>1. 0 \in K
  BY 0 < p DEF PartialSums
<1>2. ASSUME NEW k \in Nat, k \in K PROVE k + 1 \in K
  <2> SUFFICES ASSUME k + 1 <= m PROVE Aside(k + 1)
    OBVIOUS
  <2>1. Aside(k)
    BY <1>2
  <2>2. k + 1 \in 1 .. m /\ (k + 1) - 1 = k
    OBVIOUS
  <2>3. /\ f[k + 1] = f[k] + b[k + 1] /\ g[k + 1] = g[k] + c[k + 1]
        /\ b[k + 1] \in Nat /\ c[k + 1] \in Nat
        /\ b[k + 1] - c[k + 1] = IF k + 1 = p THEN d ELSE 0
    BY <2>2 DEF PartialSums, OneApart
  <2>4. k < p <=> (k + 1 < p \/ k + 1 = p)
    OBVIOUS
  <2> DEFINE u == f[k]
             v == g[k]
             x == b[k + 1]
             y == c[k + 1]
  <2>5. u \in Int /\ v \in Int /\ x \in Int /\ y \in Int
    BY <2>1, <2>3
  <2>6. u - v = (IF k < p THEN 0 ELSE d) /\ x - y = (IF k + 1 = p THEN d ELSE 0)
    BY <2>1, <2>3
  <2>7. f[k + 1] = u + x /\ g[k + 1] = v + y
    BY <2>3
  <2> HIDE DEF u, v, x, y
  <2>8. /\ u + x \in Int /\ v + y \in Int
        /\ (u + x) - (v + y) = IF k + 1 < p THEN 0 ELSE d
    <3>1. (u + x) - (v + y) = (u - v) + (x - y)
      BY <2>5, SumsApart
    <3>2. k + 1 < p => ~(k + 1 = p)
      OBVIOUS
    <3> QED
      BY <2>4, <2>5, <2>6, <3>1, <3>2
  <2> QED
    BY <2>7, <2>8
<1>3. m \in K
  <2> HIDE DEF K
  <2> QED
    BY <1>1, <1>2, SetInduction
<1> QED
  BY <1>3

\* A change of one byte changes the sum.
LEMMA OneByteChangesSum ==
    ASSUME NEW b \in Seq(0 .. 255), NEW c \in Seq(0 .. 255), Len(b) = Len(c),
           NEW p \in 1 .. Len(b), b[p] # c[p],
           \A i \in 1 .. Len(b) : i # p => b[i] = c[i]
    PROVE  checksum(b) # checksum(c)
<1> DEFINE m == Len(b)
           d == b[p] - c[p]
<1>0. m \in Nat /\ p \in 1 .. m
  BY SeqElements
<1>1. b \in Seq(Nat) /\ c \in Seq(Nat)
  <2>1. Seq(0 .. 255) \subseteq Seq(Nat)
    BY BytesAreNumbers
  <2> QED
    BY ONLY <2>1, b \in Seq(0 .. 255), c \in Seq(0 .. 255)
<1>2. PICK f : Sums(b, f) /\ SumOf(b) = f[m]
  BY <1>1, SumOfSums
<1>3. PICK g : Sums(c, g) /\ SumOf(c) = g[m]
  BY <1>1, SumOfSums
<1>4. /\ f[0] = 0 /\ \A n \in 1 .. m : f[n] = f[n - 1] + b[n]
      /\ g[0] = 0 /\ \A n \in 1 .. m : g[n] = g[n - 1] + c[n]
  <2>1. f[0] = 0 /\ \A n \in 1 .. Len(b) : f[n] = f[n - 1] + b[n]
    BY ONLY <1>1, <1>2, SumsStep
  <2>2. g[0] = 0 /\ \A n \in 1 .. Len(c) : g[n] = g[n - 1] + c[n]
    BY ONLY <1>1, <1>3, SumsStep
  <2> QED
    BY <2>1, <2>2
<1>5. \A n \in 1 .. m : b[n] \in 0 .. 255 /\ c[n] \in 0 .. 255
  BY SeqElements
<1>6. b[p] \in 0 .. 255 /\ c[p] \in 0 .. 255 /\ b[p] # c[p]
  BY <1>0, <1>5
<1>7. \A n \in 1 .. m : n # p => b[n] = c[n]
  OBVIOUS
<1> HIDE DEF m
<1>8. d \in Int /\ d # 0 /\ d < 256 /\ 0 - d < 256
  BY <1>6, ByteGap
<1>9. ASSUME NEW n \in 1 .. m PROVE b[n] - c[n] = IF n = p THEN d ELSE 0
  <2>1. CASE n = p
    BY <2>1
  <2>2. CASE n # p
    BY <1>5, <1>7, <2>2, NoGap
  <2> QED
    BY <2>1, <2>2
<1> HIDE DEF d
<1>10. f[m] \in Int /\ g[m] \in Int /\ f[m] - g[m] = d
  <2>1. \A n \in 1 .. m : b[n] \in Nat /\ c[n] \in Nat
    BY <1>5, 0 .. 255 \subseteq Nat
  <2>2. PartialSums(m, b, f) /\ PartialSums(m, c, g)
    BY <1>4, <2>1 DEF PartialSums
  <2>3. OneApart(m, b, c, p, d)
    BY <1>9 DEF OneApart
  <2> QED
    BY ONLY <1>0, <1>8, <2>2, <2>3, OneTermDiffers
<1>11. f[m] % 256 # g[m] % 256
  <2>1. PICK u \in Int : u = f[m]
    BY ONLY <1>10
  <2>2. PICK v \in Int : v = g[m]
    BY ONLY <1>10
  <2>3. u - v = d
    BY ONLY <1>10, <2>1, <2>2
  <2>4. u % 256 # v % 256
    BY ONLY <1>8, <2>3, GapChangesResidue
  <2> QED
    BY ONLY <2>1, <2>2, <2>4
<1> QED
  BY <1>2, <1>3, <1>11 DEF checksum, m

LEMMA SumIsNat ==
    ASSUME NEW b \in Seq(Nat)
    PROVE  checksum(b) \in Nat
<1>1. PICK m \in Nat : m = Len(b)
  OBVIOUS
<1>2. PICK f : Sums(b, f) /\ SumOf(b) = f[m]
  BY <1>1, SumOfSums
<1>3. f[0] = 0 /\ \A n \in 1 .. m : f[n] = f[n - 1] + b[n]
  BY ONLY b \in Seq(Nat), <1>1, <1>2, SumsStep
<1>4. \A n \in 1 .. m : b[n] \in Nat
  BY <1>1, SeqElements
<1> DEFINE K == {k \in Nat : k <= m => f[k] \in Nat}
<1>5. 0 \in K
  BY <1>3
<1>6. ASSUME NEW k \in Nat, k \in K PROVE k + 1 \in K
  <2> SUFFICES ASSUME k + 1 <= m PROVE f[k + 1] \in Nat
    OBVIOUS
  <2>1. f[k] \in Nat
    BY <1>1, <1>6
  <2>2. k + 1 \in 1 .. m /\ (k + 1) - 1 = k
    BY <1>1
  <2>3. f[k + 1] = f[k] + b[k + 1] /\ b[k + 1] \in Nat
    BY <1>3, <1>4, <2>2
  <2> QED
    BY ONLY <2>1, <2>3
<1>7. m \in K
  <2> HIDE DEF K
  <2> QED
    BY <1>1, <1>5, <1>6, SetInduction
<1>8. f[m] \in Nat
  BY <1>1, <1>7
<1> QED
  BY <1>2, <1>8 DEF checksum

-----------------------------------------------------------------------------
(* deploy-kernel.py.  Until the magic byte is sent the line is empty and    *)
(* the board is no further than its wait; from the last look for RDY on, an *)
(* acknowledgement in the buffer comes from a loader that has begun.        *)

Taking == {"size", "recv", "sum", "jumped", "refused"}
Waiting == {"running", "boot", "booted", "ready", "listen", "ssh"}

DeployInv ==
    /\ dpIn \in Seq(Texts)
    /\ dpBoard \in Waiting \cup Taking
    /\ dpPc \in {"idle", "reset", "wait", "magic"} => dpWire = <<>> /\ dpBoard \in Waiting
    /\ dpPc \in {"magic", "ack"} /\ "ACK" \in Members(dpIn) => dpBoard \in Taking
    /\ ImageOnlyToLoader

LEMMA DeployHostStep ==
    ASSUME DeployInv, DeployHost
    PROVE  DeployInv'
<1> USE DEF dpHost, dpLoader
<1>1. CASE DeployOpen
  BY <1>1, DeployAssumption DEF DeployOpen, DeployInv, ImageOnlyToLoader, DeployAssumption
<1>2. CASE reset_target
  BY <1>2 DEF reset_target, DeployInv, ImageOnlyToLoader, Waiting
<1>3. CASE DeployPoll
  BY <1>3, MembersEmpty DEF DeployPoll, DeployInv, ImageOnlyToLoader
<1>4. CASE DeployNoReady
  BY <1>4 DEF DeployNoReady, DeployFinish, DeployInv, ImageOnlyToLoader
<1>5. CASE DeployMagic
  BY <1>5 DEF DeployMagic, DeployInv, ImageOnlyToLoader
<1>6. CASE DeployAck
  <2>1. CASE dpIn # <<>> /\ IsAck(Head(dpIn))
    <3>1. dpPc = "ack" /\ "ACK" \in Members(dpIn) /\ Tail(dpIn) \in Seq(Texts)
      BY <1>6, <2>1, MembersTail DEF DeployInv, DeployAck, IsAck
    <3>2. dpPc' = "size" /\ dpIn' = Tail(dpIn) /\ UNCHANGED <<dpBoard, dpWire>>
      BY <1>6, <2>1 DEF DeployAck
    <3> QED
      BY <3>1, <3>2 DEF DeployInv, ImageOnlyToLoader, Taking
  <2>2. CASE ~(dpIn # <<>> /\ IsAck(Head(dpIn)))
    <3>1. /\ dpPc' = "done" /\ dpIn' \in Seq(Texts) /\ UNCHANGED <<dpBoard, dpWire>>
      BY <1>6, <2>2, MembersTail DEF DeployAck, DeployFinish, DeployInv
    <3> QED
      BY <3>1 DEF DeployInv, ImageOnlyToLoader
  <2> QED
    BY <2>1, <2>2
<1>7. CASE DeploySize
  BY <1>7 DEF DeploySize, DeployInv, ImageOnlyToLoader
<1>8. CASE DeployChunk
  BY <1>8 DEF DeployChunk, DeployInv, ImageOnlyToLoader
<1>9. CASE DeploySum
  BY <1>9 DEF DeploySum, DeployInv, ImageOnlyToLoader
<1>10. CASE DeployResponse
  BY <1>10 DEF DeployResponse, DeployFinish, DeployInv, ImageOnlyToLoader
<1> QED
  BY <1>1, <1>2, <1>3, <1>4, <1>5, <1>6, <1>7, <1>8, <1>9, <1>10 DEF DeployHost

LEMMA DeployBoardStep ==
    ASSUME DeployInv, DeployBoard
    PROVE  DeployInv'
<1> USE DEF dpHost, dpLoader
<1>1. CASE LoaderPrints
  <2>1. PICK e \in {"BOOT", "RDY", "NL"} :
          /\ dpIn' = Append(dpIn, e) /\ e \in Texts
          /\ dpBoard \in Waiting /\ dpBoard' \in {"booted", "ready", "listen"}
    BY <1>1 DEF LoaderPrints, Texts, Waiting
  <2>2. dpIn' \in Seq(Texts) /\ Members(dpIn') = Members(dpIn) \cup {e}
    BY <2>1, MembersAppend DEF DeployInv
  <2>3. UNCHANGED <<dpPc, dpWire>>
    BY <1>1 DEF LoaderPrints
  <2> QED
    BY <2>1, <2>2, <2>3 DEF DeployInv, ImageOnlyToLoader, Waiting, Taking
<1>2. CASE LoaderDeaf
  BY <1>2 DEF LoaderDeaf, DeployInv, ImageOnlyToLoader
<1>3. CASE LoaderGivesUp
  BY <1>3 DEF LoaderGivesUp, DeployInv, ImageOnlyToLoader, Waiting, Taking
<1>4. CASE LoaderReads
  <2>1. dpWire # <<>> /\ UNCHANGED dpPc
    BY <1>4 DEF LoaderReads
  <2>2. dpPc \notin {"idle", "reset", "wait", "magic"}
    BY <2>1 DEF DeployInv
  <2>3. dpBoard' \in Taking
    BY <1>4 DEF LoaderReads, Taking
  <2>4. dpIn' = dpIn \/ \E e \in {"ACK", "OK", "ER"} : dpIn' = Append(dpIn, e)
    BY <1>4 DEF LoaderReads
  <2>5. dpIn' \in Seq(Texts)
    BY <2>4, MembersAppend DEF DeployInv, Texts
  <2> QED
    BY <2>1, <2>2, <2>3, <2>5 DEF DeployInv, ImageOnlyToLoader, Taking
<1>5. CASE LineFault
  <2>1. UNCHANGED <<dpPc, dpIn, dpBoard>> /\ dpWire # <<>>
    BY <1>5 DEF LineFault
  <2> QED
    BY <2>1 DEF DeployInv, ImageOnlyToLoader
<1> QED
  BY <1>1, <1>2, <1>3, <1>4, <1>5 DEF DeployBoard

LEMMA DeployHolds == DeploySpec => []DeployInv
<1>1. DeployInit => DeployInv
  BY DEF DeployInit, DeployInv, Waiting, ImageOnlyToLoader
<1>2. DeployInv /\ [DeployNext]_dpVars => DeployInv'
  <2> SUFFICES ASSUME DeployInv, [DeployNext]_dpVars PROVE DeployInv'
    OBVIOUS
  <2>1. CASE UNCHANGED dpVars
    BY <2>1 DEF dpVars, dpHost, dpLoader, DeployInv, ImageOnlyToLoader
  <2> QED
    BY <2>1, DeployHostStep, DeployBoardStep DEF DeployNext
<1> QED
  BY <1>1, <1>2, PTL DEF DeploySpec

\* deploy-kernel.py, for any image and whatever the old program left on the
\* line: size, image and sum are sent only to a loader that is taking them.
THEOREM ImageReachesLoader == DeploySpec => []ImageOnlyToLoader
<1>1. DeployInv => ImageOnlyToLoader
  BY DEF DeployInv
<1> QED
  BY <1>1, DeployHolds, PTL

-----------------------------------------------------------------------------
(* The sum.  What the loader has taken and what is on the line are together *)
(* what was sent, up to one byte of the image that was damaged or is        *)
(* missing: a missing one leaves the loader waiting for the sum, a damaged  *)
(* one changes it.                                                          *)

Listening == {"size", "recv", "sum"}
OnWire == [v : Nat, image : BOOLEAN]

\* What has been sent, counted from the size, and what has arrived of it.
SizeSent == dpPc \in {"data", "resp"} \/ dpExit = 0
SentLen == IF dpPc = "data" THEN 1 + dpSent ELSE 2 + Len(dpImage)
SentAt(j) ==
    IF j = 1 THEN Len(dpImage)
    ELSE IF j <= Len(dpImage) + 1 THEN dpImage[j - 1] ELSE checksum(dpImage)

Taken == IF dpBoard = "size" THEN 0 ELSE 1 + Len(dpGot)
ArrivedAt(j) ==
    IF j > Taken THEN dpWire[j - Taken].v ELSE IF j = 1 THEN dpWant ELSE dpGot[j - 1]

ImagePlace(p) == p \in 2 .. (Len(dpImage) + 1) /\ p <= SentLen

Undamaged ==
    /\ Taken + Len(dpWire) = SentLen
    /\ \A j \in 1 .. SentLen : ArrivedAt(j) = SentAt(j)
    /\ \A i \in 1 .. Len(dpWire) : dpWire[i].image => ImagePlace(Taken + i)
Damaged(p) ==
    /\ ImagePlace(p)
    /\ Taken + Len(dpWire) = SentLen
    /\ ArrivedAt(p) \in 0 .. 255 /\ ArrivedAt(p) # dpImage[p - 1]
    /\ \A j \in 1 .. SentLen : j # p => ArrivedAt(j) = SentAt(j)
Missing(p) ==
    /\ ImagePlace(p)
    /\ Taken + Len(dpWire) = SentLen - 1
    /\ \A j \in 1 .. (SentLen - 1) : ArrivedAt(j) = SentAt(IF j < p THEN j ELSE j + 1)

OnLine ==
    /\ dpFaults = 0 => Undamaged
    /\ dpFaults = 1 => \E p \in Nat : Damaged(p) \/ Missing(p)

LineShape ==
    /\ dpImage \in Seq(0 .. 255)
    /\ dpSent \in 0 .. Len(dpImage)
    /\ dpWire \in Seq(OnWire)
    /\ dpGot \in Seq(Nat) /\ dpWant \in Nat
    /\ dpFaults \in Nat

NothingSent ==
    /\ dpSent = 0 /\ dpFaults = 0
    /\ dpWire = <<>> \/ dpWire = <<Plain(Magic)>>
    /\ dpPc # "ack" /\ dpExit = -1 => dpWire = <<>>
    /\ dpBoard \in Waiting \cup {"size"}
    /\ dpBoard = "size" => dpWire = <<>>

LineControl ==
    /\ dpPc # "done" <=> dpExit = -1
    /\ dpPc = "resp" \/ dpExit = 0 => dpSent = Len(dpImage)
    /\ ~SizeSent => NothingSent
    /\ SizeSent => dpBoard \in Taking
    /\ dpBoard \in Waiting \cup {"size"} => dpGot = <<>>
    /\ dpBoard = "recv" => Len(dpGot) < dpWant
    /\ dpBoard = "sum" => Len(dpGot) = dpWant

LineInv ==
    /\ LineShape
    /\ LineControl
    /\ SizeSent /\ dpBoard \in Listening => OnLine
    /\ LoaderStartsWhatWasSent

\* The lengths are numbers.
LEMMA LineNumbers ==
    ASSUME LineShape
    PROVE  /\ Len(dpImage) \in Nat /\ Len(dpWire) \in Nat /\ Len(dpGot) \in Nat
           /\ dpSent \in Nat /\ dpSent <= Len(dpImage)
           /\ SentLen \in Nat /\ SentLen >= 1 /\ SentLen <= 2 + Len(dpImage)
           /\ Taken \in Nat
<1>1. Len(dpImage) \in Nat /\ Len(dpWire) \in Nat /\ Len(dpGot) \in Nat
  BY SeqElements DEF LineShape
<1>2. dpSent \in 0 .. Len(dpImage)
  BY DEF LineShape
<1> QED
  BY <1>1, <1>2 DEF SentLen, Taken

\* A step that moves what has arrived from the line into the loader, or moves
\* nothing, leaves the whole the same.
LEMMA SameLine ==
    ASSUME LineShape, OnLine, UNCHANGED <<dpImage, dpFaults>>, SentLen' = SentLen,
           Taken' + Len(dpWire') = Taken + Len(dpWire),
           \A j \in 1 .. (Taken + Len(dpWire)) : ArrivedAt(j)' = ArrivedAt(j),
           \A i \in 1 .. Len(dpWire') : \E k \in 1 .. Len(dpWire) :
             Taken' + i = Taken + k /\ dpWire'[i].image = dpWire[k].image
    PROVE  OnLine'
<1>1. \A j : SentAt(j)' = SentAt(j)
  BY DEF SentAt
<1>2. \A p : ImagePlace(p)' <=> ImagePlace(p)
  BY DEF ImagePlace
<1>3. ASSUME Undamaged PROVE Undamaged'
  BY <1>1, <1>2, <1>3 DEF Undamaged
<1>4. ASSUME NEW p \in Nat, Damaged(p) PROVE Damaged(p)'
  <2>1. p \in 1 .. SentLen /\ SentLen \in Nat
    BY <1>4, LineNumbers DEF Damaged, ImagePlace
  <2> QED
    BY <1>1, <1>2, <1>4, <2>1 DEF Damaged
<1>5. ASSUME NEW p \in Nat, Missing(p) PROVE Missing(p)'
  BY <1>1, <1>2, <1>5 DEF Missing
<1> QED
  BY <1>3, <1>4, <1>5 DEF OnLine

\* What the script sends next is added at the end.
LEMMA MoreOnLine ==
    ASSUME LineShape, OnLine, NEW w \in Seq(OnWire), dpWire' = dpWire \o w,
           UNCHANGED <<dpImage, dpFaults, dpBoard, dpGot, dpWant>>,
           SentLen' = SentLen + Len(w),
           \A i \in 1 .. Len(w) : w[i].v = SentAt(SentLen + i),
           \A i \in 1 .. Len(w), j \in Nat :
             w[i].image /\ j = SentLen + i => ImagePlace(j)'
    PROVE  OnLine'
<1> DEFINE n == Len(dpWire)
           k == Len(w)
<1>1. /\ n \in Nat /\ k \in Nat /\ Len(dpWire') = n + k
      /\ \A i \in 1 .. n : dpWire'[i] = dpWire[i]
      /\ \A i \in 1 .. k : dpWire'[n + i] = w[i]
  BY SeqElements, ConcatProperties DEF LineShape
<1>2. \A j : SentAt(j)' = SentAt(j)
  BY DEF SentAt
<1>3. SentLen \in Nat /\ Taken \in Nat /\ Taken' = Taken
  BY LineNumbers DEF Taken
<1>0. /\ SentLen' = SentLen + k
      /\ \A i \in 1 .. k : w[i].v = SentAt(SentLen + i)
      /\ \A i \in 1 .. k, j \in Nat : w[i].image /\ j = SentLen + i => ImagePlace(j)'
  OBVIOUS
<1> HIDE DEF n, k
<1>10. /\ Len(dpWire') = n + k /\ SentLen' = SentLen + k /\ Taken' = Taken
      /\ n \in Nat /\ k \in Nat /\ Taken \in Nat /\ SentLen \in Nat
  BY ONLY <1>0, <1>1, <1>3
<1>4. \A j \in 1 .. (Taken + n) : ArrivedAt(j)' = ArrivedAt(j)
  <2> SUFFICES ASSUME NEW j \in 1 .. (Taken + n) PROVE ArrivedAt(j)' = ArrivedAt(j)
    OBVIOUS
  <2>1. j > Taken => j - Taken \in 1 .. n
    BY <1>1, <1>3
  <2> QED
    BY <1>1, <1>3, <2>1 DEF ArrivedAt
<1>5. ASSUME NEW i \in 1 .. k, NEW j \in Nat, j = Taken + n + i PROVE ArrivedAt(j)' = w[i].v
  <2>1. j > Taken' /\ j - Taken' = n + i
    BY <1>1, <1>3, <1>5
  <2>2. dpWire'[n + i] = w[i]
    BY <1>1
  <2>3. ArrivedAt(j)' = dpWire'[j - Taken'].v
    BY <2>1 DEF ArrivedAt
  <2> QED
    BY <2>1, <2>2, <2>3
<1>6. \A p : ImagePlace(p) => ImagePlace(p)'
  BY <1>1, <1>3 DEF ImagePlace, k
<1>7. ASSUME Undamaged PROVE Undamaged'
  <2>1. Taken + n = SentLen
    BY <1>7 DEF Undamaged, n
  <2>2. ASSUME NEW j \in 1 .. (SentLen + k) PROVE ArrivedAt(j)' = SentAt(j)
    <3>1. CASE j <= SentLen
      BY <1>3, <1>4, <1>7, <2>1, <3>1 DEF Undamaged
    <3>2. CASE j > SentLen
      <4>1. /\ j - SentLen \in 1 .. k /\ j \in Nat
            /\ SentLen + (j - SentLen) = j /\ j = Taken + n + (j - SentLen)
        BY <1>1, <1>3, <2>1, <3>2
      <4> QED
        BY <1>0, <1>5, <2>1, <4>1
    <3> QED
      BY <1>3, <3>1, <3>2
  <2>3. ASSUME NEW i \in 1 .. (n + k), dpWire'[i].image, NEW j \in Nat, j = Taken + i
        PROVE  ImagePlace(j)'
    <3>1. CASE i <= n
      BY <1>1, <1>6, <1>7, <2>3, <3>1 DEF Undamaged, n
    <3>2. CASE i > n
      <4>1. i - n \in 1 .. k /\ n + (i - n) = i /\ j = SentLen + (i - n)
        BY <1>1, <1>3, <2>1, <2>3, <3>2
      <4>2. w[i - n].image
        BY <1>1, <2>3, <4>1
      <4> QED
        BY <1>0, <4>1, <4>2
    <3> QED
      BY <1>1, <3>1, <3>2
  <2>4. Taken' + Len(dpWire') = SentLen'
    BY ONLY <1>10, <2>1
  <2> QED
    BY <1>0, <1>1, <1>2, <1>3, <2>2, <2>3, <2>4 DEF Undamaged
<1>8. ASSUME NEW p \in Nat, Damaged(p) PROVE Damaged(p)'
  <2>1. Taken + n = SentLen /\ p \in 1 .. SentLen
    BY <1>3, <1>8 DEF Damaged, n, ImagePlace
  <2>2. ASSUME NEW j \in 1 .. (SentLen + k), j # p PROVE ArrivedAt(j)' = SentAt(j)
    <3>1. CASE j <= SentLen
      BY <1>3, <1>4, <1>8, <2>1, <2>2, <3>1 DEF Damaged
    <3>2. CASE j > SentLen
      <4>1. /\ j - SentLen \in 1 .. k /\ j \in Nat
            /\ SentLen + (j - SentLen) = j /\ j = Taken + n + (j - SentLen)
        BY <1>1, <1>3, <2>1, <3>2
      <4> QED
        BY <1>0, <1>5, <2>1, <4>1
    <3> QED
      BY <1>3, <3>1, <3>2
  <2>3. Taken' + Len(dpWire') = SentLen'
    BY ONLY <1>10, <2>1
  <2>4. ArrivedAt(p)' = ArrivedAt(p)
    BY <1>4, <2>1
  <2> QED
    BY <1>2, <1>6, <1>8, <2>2, <1>0, <2>3, <2>4 DEF Damaged
<1>9. ASSUME NEW p \in Nat, Missing(p) PROVE Missing(p)'
  <2>1. Taken + n = SentLen - 1 /\ p \in 1 .. SentLen
    BY <1>3, <1>9 DEF Missing, n, ImagePlace
  <2>2. ASSUME NEW j \in 1 .. (SentLen + k - 1)
        PROVE  ArrivedAt(j)' = SentAt(IF j < p THEN j ELSE j + 1)
    <3>1. CASE j <= SentLen - 1
      BY <1>3, <1>4, <1>9, <2>1, <3>1 DEF Missing
    <3>2. CASE j > SentLen - 1
      <4>1. /\ (j + 1) - SentLen \in 1 .. k /\ SentLen + ((j + 1) - SentLen) = j + 1
            /\ j = Taken + n + ((j + 1) - SentLen) /\ j \in Nat /\ ~(j < p)
        BY <1>1, <1>3, <2>1, <3>2
      <4> QED
        BY <1>0, <1>5, <4>1
    <3> QED
      BY <1>3, <3>1, <3>2
  <2>3. Taken' + Len(dpWire') = SentLen' - 1
    BY ONLY <1>10, <2>1
  <2>4. \A j : SentAt(IF j < p THEN j ELSE j + 1)' = SentAt(IF j < p THEN j ELSE j + 1)
    BY DEF SentAt
  <2>5. ImagePlace(p)' /\ SentLen' - 1 = SentLen + k - 1
    BY <1>0, <1>1, <1>3, <1>6, <1>9 DEF Missing
  <2>6. \A j \in 1 .. (SentLen' - 1) :
          ArrivedAt(j)' = SentAt(IF j < p THEN j ELSE j + 1)'
    BY ONLY <2>2, <2>4, <2>5
  <2> QED
    BY ONLY <2>3, <2>5, <2>6 DEF Missing
<1> QED
  BY <1>7, <1>8, <1>9 DEF OnLine

LEMMA RemoveAtFacts ==
    ASSUME NEW S, NEW s \in Seq(S), NEW i \in 1 .. Len(s)
    PROVE  /\ RemoveAt(s, i) \in Seq(S) /\ Len(RemoveAt(s, i)) = Len(s) - 1
           /\ \A k \in 1 .. (Len(s) - 1) :
                RemoveAt(s, i)[k] = IF k < i THEN s[k] ELSE s[k + 1]
<1> DEFINE l == SubSeq(s, 1, i - 1)
           r == SubSeq(s, i + 1, Len(s))
<1>1. i \in 1 .. Len(s) /\ Len(s) \in Nat /\ \A k \in 1 .. Len(s) : s[k] \in S
  BY SeqElements
<1>2. /\ l \in Seq(S) /\ Len(l) = i - 1
      /\ \A k \in 1 .. (i - 1) : l[k] = s[k]
  <2>1. \A k \in 1 .. (i - 1) : s[k] \in S
    BY <1>1
  <2>2. i - 1 \in Int /\ 1 \in Int
    BY <1>1
  <2> QED
    BY <1>1, <2>1, <2>2, SubSeqProperties
<1>3. /\ r \in Seq(S) /\ Len(r) = Len(s) - i
      /\ \A k \in 1 .. (Len(s) - i) : r[k] = s[i + k]
  <2>1. \A k \in (i + 1) .. Len(s) : s[k] \in S
    BY <1>1
  <2>2. i + 1 \in Int /\ Len(s) \in Int
    BY <1>1
  <2>3. /\ r \in Seq(S)
        /\ Len(r) = IF i + 1 <= Len(s) THEN Len(s) - (i + 1) + 1 ELSE 0
        /\ \A k \in 1 .. (Len(s) - (i + 1) + 1) : r[k] = s[(i + 1) + k - 1]
    BY <2>1, <2>2, SubSeqProperties
  <2> QED
    BY <1>1, <2>3
<1> HIDE DEF l, r
<1>4. /\ l \o r \in Seq(S)
      /\ Len(l \o r) = Len(l) + Len(r)
      /\ \A k \in 1 .. (Len(l) + Len(r)) :
           (l \o r)[k] = IF k <= Len(l) THEN l[k] ELSE r[k - Len(l)]
  BY <1>2, <1>3, ConcatProperties
<1>5. RemoveAt(s, i) = l \o r
  BY DEF RemoveAt, l, r
<1>6. \A k \in 1 .. (Len(s) - 1) : (l \o r)[k] = IF k < i THEN s[k] ELSE s[k + 1]
  <2> TAKE k \in 1 .. (Len(s) - 1)
  <2>1. CASE k < i
    BY <1>1, <1>2, <1>3, <1>4, <2>1
  <2>2. CASE ~(k < i)
    <3>3. k \in 1 .. (Len(l) + Len(r)) /\ ~(k <= Len(l))
      BY <1>1, <1>2, <1>3, <2>2
    <3>1. (l \o r)[k] = r[k - (i - 1)]
      BY <1>2, <1>4, <3>3
    <3>2. k - (i - 1) \in 1 .. (Len(s) - i) /\ i + (k - (i - 1)) = k + 1
      BY <1>1, <2>2
    <3> QED
      BY <1>3, <2>2, <3>1, <3>2
  <2> QED
    BY <2>1, <2>2
<1>7. Len(l \o r) = Len(s) - 1
  BY <1>1, <1>2, <1>3, <1>4
<1> QED
  BY <1>4, <1>5, <1>6, <1>7

\* The line's first fault damages or loses one byte of the image.
LEMMA FirstFault ==
    ASSUME LineShape, Undamaged, dpFaults = 0, LineFault
    PROVE  OnLine'
<1> DEFINE n == Len(dpWire)
<1>0. /\ n \in Nat /\ Taken \in Nat /\ SentLen \in Nat /\ dpWire \in Seq(OnWire)
      /\ Len(dpImage) \in Nat
  BY LineNumbers DEF LineShape
<1>1. PICK i \in 1 .. n :
        /\ dpWire[i].image
        /\ \/ \E b \in DeployByte \ {dpWire[i].v} : dpWire' = [dpWire EXCEPT ![i].v = b]
           \/ dpWire' = RemoveAt(dpWire, i)
  BY DEF LineFault
<1>2. dpFaults' = 1 /\ UNCHANGED <<dpHost, dpIn, dpLoader>>
  BY DEF LineFault
<1>3. Taken' = Taken /\ SentLen' = SentLen /\ \A j : SentAt(j)' = SentAt(j)
  BY <1>2 DEF dpHost, dpLoader, Taken, SentLen, SentAt
<1>4. \A p : ImagePlace(p)' <=> ImagePlace(p)
  BY <1>2, <1>3 DEF ImagePlace, dpHost
<1>5. PICK p \in Nat : p = Taken + i
  BY <1>0, <1>1
<1>6. /\ Taken + n = SentLen
      /\ \A j \in 1 .. SentLen : ArrivedAt(j) = SentAt(j)
      /\ ImagePlace(p)
  BY <1>1, <1>5 DEF Undamaged
<1>7. p \in 2 .. (Len(dpImage) + 1) /\ p \in 1 .. SentLen
  BY <1>0, <1>6 DEF ImagePlace
<1>8. SentAt(p) = dpImage[p - 1] /\ ArrivedAt(p) = dpWire[i].v /\ p - Taken = i
  <2>1. p > Taken /\ p - Taken = i /\ p # 1 /\ p <= Len(dpImage) + 1
    BY <1>0, <1>1, <1>5, <1>7
  <2> QED
    BY <2>1 DEF SentAt, ArrivedAt
<1>9. \A j \in 1 .. Taken : ArrivedAt(j)' = ArrivedAt(j)
  <2> SUFFICES ASSUME NEW j \in 1 .. Taken PROVE ArrivedAt(j)' = ArrivedAt(j)
    OBVIOUS
  <2>1. ~(j > Taken)
    BY <1>0
  <2> QED
    BY <1>2, <1>3, <2>1 DEF ArrivedAt, dpLoader
<1>10. \A j \in 1 .. SentLen : j > Taken => /\ ArrivedAt(j)' = dpWire'[j - Taken].v
                                            /\ ArrivedAt(j) = dpWire[j - Taken].v
                                            /\ j - Taken \in 1 .. n
  <2> SUFFICES ASSUME NEW j \in 1 .. SentLen, j > Taken
               PROVE  /\ ArrivedAt(j)' = dpWire'[j - Taken].v
                      /\ ArrivedAt(j) = dpWire[j - Taken].v
                      /\ j - Taken \in 1 .. n
    OBVIOUS
  <2> QED
    BY <1>0, <1>3, <1>6 DEF ArrivedAt
<1> HIDE DEF n
<1>11. CASE \E b \in DeployByte \ {dpWire[i].v} : dpWire' = [dpWire EXCEPT ![i].v = b]
  <2>1. PICK b \in DeployByte \ {dpWire[i].v} : dpWire' = [dpWire EXCEPT ![i].v = b]
    BY <1>11
  <2>2. b \in 0 .. 255 /\ b # dpWire[i].v
    BY <2>1, DeployAssumption DEF DeployAssumption
  <2>3. /\ Len(dpWire') = n /\ dpWire'[i].v = b
        /\ \A j \in 1 .. n : j # i => dpWire'[j] = dpWire[j]
    BY <1>0, <1>1, <2>1 DEF n, OnWire
  <2>4. ArrivedAt(p)' = b
    BY <1>0, <1>1, <1>5, <1>7, <1>8, <1>10, <2>3
  <2>5. ASSUME NEW j \in 1 .. SentLen, j # p PROVE ArrivedAt(j)' = SentAt(j)
    <3>1. CASE j > Taken
      <4>1. j - Taken \in 1 .. n /\ j - Taken # i
        BY <1>0, <1>1, <1>5, <1>10, <2>5, <3>1
      <4>2. ArrivedAt(j)' = ArrivedAt(j)
        BY <1>10, <2>3, <3>1, <4>1
      <4> QED
        BY <1>6, <4>2
    <3>2. CASE ~(j > Taken)
      BY <1>0, <1>6, <1>9, <3>2
    <3> QED
      BY <3>1, <3>2
  <2>6. Damaged(p)'
    <3>1. dpImage' = dpImage
      BY <1>2 DEF dpHost
    <3>2. ImagePlace(p)' /\ Taken' + Len(dpWire') = SentLen'
      BY <1>3, <1>4, <1>6, <2>3
    <3>3. ArrivedAt(p)' \in 0 .. 255 /\ ArrivedAt(p)' # dpImage'[p - 1]
      BY <1>6, <1>7, <1>8, <2>2, <2>4, <3>1
    <3>4. \A j \in 1 .. SentLen' : j # p => ArrivedAt(j)' = SentAt(j)'
      BY <1>3, <2>5
    <3> QED
      BY ONLY <3>2, <3>3, <3>4 DEF Damaged
  <2> QED
    BY <1>2, <2>6 DEF OnLine
<1>12. CASE dpWire' = RemoveAt(dpWire, i)
  <2>1. /\ Len(dpWire') = n - 1
        /\ \A j \in 1 .. (n - 1) : dpWire'[j] = IF j < i THEN dpWire[j] ELSE dpWire[j + 1]
    BY <1>0, <1>1, <1>12, RemoveAtFacts DEF n
  <2>2. ASSUME NEW j \in 1 .. (SentLen - 1)
        PROVE  ArrivedAt(j)' = SentAt(IF j < p THEN j ELSE j + 1)
    <3>1. j \in 1 .. SentLen /\ j + 1 \in 1 .. SentLen
      BY <1>0
    <3>2. CASE ~(j > Taken)
      BY <1>0, <1>1, <1>5, <1>6, <1>9, <3>1, <3>2
    <3>3. CASE j > Taken
      <4>1. j - Taken \in 1 .. (n - 1) /\ (j < p <=> j - Taken < i)
        BY <1>0, <1>1, <1>5, <1>6, <3>3
      <4>2. CASE j < p
        BY <1>6, <1>10, <2>1, <3>1, <3>3, <4>1, <4>2
      <4>3. CASE ~(j < p)
        <5>1. j + 1 > Taken /\ (j + 1) - Taken = (j - Taken) + 1
          BY <1>0, <3>3
        <5>2. dpWire'[j - Taken] = dpWire[(j - Taken) + 1]
          BY <2>1, <4>1, <4>3
        <5>3. ArrivedAt(j)' = ArrivedAt(j + 1)
          BY <1>10, <3>1, <3>3, <5>1, <5>2
        <5> QED
          BY <1>6, <3>1, <4>3, <5>3
      <4> QED
        BY <4>2, <4>3
    <3> QED
      BY <3>2, <3>3
  <2>3. Missing(p)'
    <3>1. ImagePlace(p)' /\ Taken' + Len(dpWire') = SentLen' - 1
      BY <1>0, <1>3, <1>4, <1>6, <2>1
    <3>2. \A j \in 1 .. (SentLen' - 1) :
            ArrivedAt(j)' = SentAt(IF j < p THEN j ELSE j + 1)'
      <4>1. \A j : SentAt(IF j < p THEN j ELSE j + 1)' = SentAt(IF j < p THEN j ELSE j + 1)
        BY <1>2 DEF SentAt, dpHost
      <4> QED
        BY ONLY <1>3, <2>2, <4>1
    <3> QED
      BY ONLY <3>1, <3>2 DEF Missing
  <2> QED
    BY <1>2, <2>3 DEF OnLine
<1> QED
  BY <1>1, <1>11, <1>12

\* The sum, the loader having taken as many bytes as it was told: it agrees
\* only when the bytes taken are the image's.
LEMMA SumVerdict ==
    ASSUME LineShape, OnLine, dpFaults <= 1, dpBoard = "sum", Len(dpGot) = dpWant,
           dpWire # <<>>, Head(dpWire).v = checksum(dpGot)
    PROVE  dpGot = dpImage
<1> DEFINE n == Len(dpWire)
           m == Len(dpImage)
<1>1. /\ n \in Nat /\ m \in Nat /\ Len(dpGot) \in Nat /\ SentLen \in Nat /\ SentLen <= 2 + m
      /\ n # 0 /\ Taken = 1 + Len(dpGot) /\ Head(dpWire) = dpWire[1]
  BY LineNumbers DEF LineShape, Taken
<1>2. dpGot \in Seq(Nat) /\ dpImage \in Seq(0 .. 255)
  BY DEF LineShape
<1> HIDE DEF n, m
<1>3. ArrivedAt(1) = Len(dpGot)
  BY <1>1 DEF ArrivedAt
<1>4. SentAt(1) = m
  BY DEF SentAt, m
<1>5. \A j \in 1 .. Len(dpGot) : ArrivedAt(j + 1) = dpGot[j]
  BY <1>1 DEF ArrivedAt
<1>6. \A j \in 1 .. m : SentAt(j + 1) = dpImage[j]
  BY <1>1 DEF SentAt, m
<1>7. CASE Undamaged
  <2>1. /\ Taken + n = SentLen
        /\ \A j \in 1 .. SentLen : ArrivedAt(j) = SentAt(j)
    BY <1>7 DEF Undamaged, n
  <2>2. Len(dpGot) = m
    BY <1>1, <1>3, <1>4, <2>1
  <2>3. ASSUME NEW j \in 1 .. m PROVE dpGot[j] = dpImage[j]
    <3>1. j + 1 \in 1 .. SentLen
      BY <1>1, <2>1, <2>2
    <3> QED
      BY <1>5, <1>6, <2>1, <2>2, <3>1
  <2> QED
    <3>1. dpImage \in Seq(Nat)
      BY <1>2, BytesAreNumbers
    <3>2. Len(dpImage) = m
      BY DEF m
    <3> QED
      BY ONLY <1>2, <2>2, <2>3, <3>1, <3>2, SeqEqual
<1>8. ASSUME NEW p \in Nat, Damaged(p) PROVE FALSE
  <2>1. /\ p \in 2 .. (m + 1) /\ p <= SentLen /\ Taken + n = SentLen
        /\ ArrivedAt(p) \in 0 .. 255 /\ ArrivedAt(p) # dpImage[p - 1]
        /\ \A j \in 1 .. SentLen : j # p => ArrivedAt(j) = SentAt(j)
    BY <1>8 DEF Damaged, ImagePlace, n, m
  <2>2. Len(dpGot) = m
    BY <1>1, <1>3, <1>4, <2>1
  <2>3. SentLen = 2 + m /\ n = 1 /\ p - 1 \in 1 .. m /\ (p - 1) + 1 = p
    BY <1>1, <2>1, <2>2
  <2>4. ASSUME NEW j \in 1 .. m, j # p - 1 PROVE dpGot[j] = dpImage[j]
    <3>1. j + 1 \in 1 .. SentLen /\ j + 1 # p
      BY <1>1, <2>1, <2>3, <2>4
    <3> QED
      BY <1>5, <1>6, <2>1, <2>2, <3>1
  <2>5. dpGot[p - 1] \in 0 .. 255 /\ dpGot[p - 1] # dpImage[p - 1]
    BY <1>5, <2>1, <2>2, <2>3
  <2>6. ASSUME NEW j \in 1 .. m PROVE dpGot[j] \in 0 .. 255
    <3>1. dpImage[j] \in 0 .. 255
      BY <1>2, ElementOfSeq DEF m
    <3> QED
      BY <2>4, <2>5, <3>1
  <2>7. dpGot \in Seq(0 .. 255)
    <3>1. \A j \in 1 .. Len(dpGot) : dpGot[j] \in 0 .. 255
      BY <2>2, <2>6
    <3> QED
      BY ONLY <1>2, <3>1, NumbersAreBytes
  <2>8. checksum(dpGot) # checksum(dpImage)
    BY <1>2, <2>2, <2>3, <2>4, <2>5, <2>7, OneByteChangesSum DEF m
  <2>9. SentAt(2 + m) = checksum(dpImage) /\ ArrivedAt(2 + m) = dpWire[1].v
    BY <1>1, <2>2 DEF SentAt, ArrivedAt, m
  <2>10. 2 + m \in 1 .. SentLen /\ 2 + m # p
    BY <1>1, <2>1, <2>3
  <2> QED
    BY <1>1, <2>1, <2>8, <2>9, <2>10
<1>9. ASSUME NEW p \in Nat, Missing(p) PROVE FALSE
  <2>1. /\ p \in 2 .. (m + 1) /\ p <= SentLen /\ Taken + n = SentLen - 1
        /\ \A j \in 1 .. (SentLen - 1) : ArrivedAt(j) = SentAt(IF j < p THEN j ELSE j + 1)
    BY <1>9 DEF Missing, ImagePlace, n, m
  <2>2. Len(dpGot) = m
    BY <1>1, <1>3, <1>4, <2>1
  <2> QED
    BY <1>1, <2>1, <2>2
<1>10. dpFaults \in {0, 1}
  BY DEF LineShape
<1> QED
  BY <1>7, <1>8, <1>9, <1>10 DEF OnLine

LEMMA LoaderPhases ==
    /\ \A b \in Taking : b \notin Waiting
    /\ "jumped" \notin Waiting
    /\ Listening \subseteq Taking
    /\ "recv" \notin Waiting /\ "sum" \notin Waiting
BY DEF Waiting, Taking, Listening

\* A step before the size is sent, and after it none.
LEMMA QuietStep ==
    ASSUME ~SizeSent', LineShape', NothingSent', dpGot' = <<>>,
           dpPc' # "done" <=> dpExit' = -1
    PROVE  LineInv'
<1>1. dpBoard' \notin {"recv", "sum", "jumped"}
  BY LoaderPhases DEF NothingSent
<1>2. LineControl'
  BY <1>1 DEF LineControl, SizeSent
<1>3. LoaderStartsWhatWasSent'
  BY <1>1 DEF LoaderStartsWhatWasSent
<1> QED
  BY <1>2, <1>3 DEF LineInv

\* What holds while nothing is sent.
LEMMA BeforeSize ==
    ASSUME LineInv, ~SizeSent
    PROVE  /\ LineShape /\ NothingSent /\ dpGot = <<>>
           /\ dpBoard \notin {"recv", "sum", "jumped", "refused"}
           /\ (dpPc # "done" <=> dpExit = -1)
BY LoaderPhases DEF LineInv, LineControl, NothingSent, Taking

LEMMA LineHostBefore ==
    ASSUME DeployInv, LineInv,
           DeployOpen \/ reset_target \/ DeployPoll \/ DeployNoReady \/ DeployMagic \/ DeployAck
    PROVE  LineInv'
<1> USE DEF dpHost, dpLoader
<1>0. dpPc \in {"idle", "reset", "wait", "magic", "ack"} /\ dpPc # "done"
  BY DEF DeployOpen, reset_target, DeployPoll, DeployNoReady, DeployMagic, DeployAck
<1>1. ~SizeSent /\ dpExit = -1
  BY <1>0 DEF LineInv, LineControl, SizeSent
<1>2. /\ LineShape /\ NothingSent /\ dpGot = <<>>
      /\ dpBoard \notin {"recv", "sum", "jumped", "refused"}
  BY <1>1, BeforeSize
<1>3. UNCHANGED <<dpSent, dpWant, dpGot, dpFaults>>
  BY DEF DeployOpen, reset_target, DeployPoll, DeployNoReady, DeployMagic, DeployAck
<1>4. CASE DeployOpen
  <2>1. dpImage' \in Seq(0 .. 255) /\ UNCHANGED <<dpWire, dpBoard, dpExit>> /\ dpPc' = "reset"
    BY <1>4, DeployAssumption DEF DeployOpen, DeployAssumption
  <2>2. LineShape'
    <3>1. Len(dpImage') \in Nat /\ dpSent' = 0
      BY <1>2, <1>3, <2>1, SeqElements DEF NothingSent
    <3> QED
      BY <1>2, <1>3, <2>1, <3>1 DEF LineShape
  <2>3. NothingSent' /\ ~SizeSent'
    BY <1>0, <1>1, <1>2, <1>3, <1>4, <2>1 DEF NothingSent, SizeSent, DeployOpen
  <2> QED
    BY <1>1, <1>2, <1>3, <2>1, <2>2, <2>3, QuietStep
<1>5. CASE reset_target
  <2>1. dpBoard' = "boot" /\ UNCHANGED <<dpImage, dpWire, dpExit>> /\ dpPc' = "wait"
    BY <1>5 DEF reset_target
  <2>2. LineShape'
    BY <1>2, <1>3, <2>1 DEF LineShape
  <2>3. NothingSent' /\ ~SizeSent'
    BY <1>0, <1>1, <1>2, <1>3, <1>5, <2>1 DEF NothingSent, SizeSent, reset_target, Waiting
  <2> QED
    BY <1>1, <1>2, <1>3, <2>1, <2>2, <2>3, QuietStep
<1>6. CASE DeployPoll
  <2>1. UNCHANGED <<dpBoard, dpImage, dpWire, dpExit>> /\ dpPc' \in {"magic", "wait"}
    BY <1>6 DEF DeployPoll
  <2>2. LineShape'
    BY <1>2, <1>3, <2>1 DEF LineShape
  <2>3. NothingSent' /\ ~SizeSent'
    BY <1>0, <1>1, <1>2, <1>3, <1>6, <2>1 DEF NothingSent, SizeSent, DeployPoll
  <2> QED
    BY <1>1, <1>2, <1>3, <2>1, <2>2, <2>3, QuietStep
<1>7. CASE DeployNoReady
  <2>1. UNCHANGED <<dpBoard, dpImage, dpWire>> /\ dpPc' = "done" /\ dpExit' = 1
    BY <1>7 DEF DeployNoReady, DeployFinish
  <2>2. LineShape'
    BY <1>2, <1>3, <2>1 DEF LineShape
  <2>3. NothingSent' /\ ~SizeSent'
    BY <1>0, <1>1, <1>2, <1>3, <2>1 DEF NothingSent, SizeSent
  <2> QED
    BY <1>1, <1>2, <1>3, <2>1, <2>2, <2>3, QuietStep
<1>8. CASE DeployMagic
  <2>1. /\ UNCHANGED <<dpBoard, dpImage, dpExit>> /\ dpPc' = "ack"
        /\ dpWire = <<>> /\ dpWire' = Append(dpWire, Plain(Magic)) /\ dpBoard \in Waiting
    BY <1>1, <1>2, <1>8 DEF DeployMagic, NothingSent, DeployInv
  <2>2. dpWire' = <<Plain(Magic)>> /\ Plain(Magic) \in OnWire
    BY <2>1 DEF Plain, Magic, OnWire
  <2>3. LineShape'
    BY <1>2, <1>3, <2>1, <2>2 DEF LineShape
  <2>4. NothingSent' /\ ~SizeSent'
    <3>1. dpBoard # "size"
      BY <2>1 DEF Waiting
    <3> QED
      BY <1>1, <1>2, <1>3, <2>1, <2>2, <3>1 DEF NothingSent, SizeSent
  <2> QED
    BY <1>1, <1>2, <1>3, <2>1, <2>3, <2>4, QuietStep
<1>9. CASE DeployAck
  <2>1. UNCHANGED <<dpBoard, dpImage, dpWire>>
    BY <1>9 DEF DeployAck
  <2>2. LineShape'
    BY <1>2, <1>3, <2>1 DEF LineShape
  <2>3. \/ dpPc' = "done" /\ dpExit' = 1
        \/ dpPc' = "size" /\ dpExit' = -1 /\ dpIn # <<>> /\ IsAck(Head(dpIn))
    BY <1>1, <1>9 DEF DeployAck, DeployFinish
  <2>4. CASE dpPc' = "done" /\ dpExit' = 1
    <3>1. NothingSent' /\ ~SizeSent'
      BY <1>0, <1>1, <1>2, <1>3, <2>1, <2>4 DEF NothingSent, SizeSent
    <3> QED
      BY <1>1, <1>2, <1>3, <2>2, <2>4, <3>1, QuietStep
  <2>5. CASE dpPc' = "size" /\ dpExit' = -1 /\ dpIn # <<>> /\ IsAck(Head(dpIn))
    <3>1. "ACK" \in Members(dpIn) /\ dpPc = "ack"
      BY <1>9, <2>5, MembersTail DEF DeployInv, IsAck, DeployAck
    <3>2. dpBoard \in Taking
      BY <3>1 DEF DeployInv
    <3>3. dpWire = <<>>
      BY <1>2, <3>2 DEF NothingSent, Taking, Waiting
    <3>4. NothingSent' /\ ~SizeSent'
      BY <1>2, <1>3, <2>1, <2>5, <3>3 DEF NothingSent, SizeSent
    <3> QED
      BY <1>1, <1>2, <1>3, <2>2, <2>5, <3>4, QuietStep
  <2> QED
    BY <2>3, <2>4, <2>5
<1> QED
  BY <1>4, <1>5, <1>6, <1>7, <1>8, <1>9

\* The end of the next chunk, and the chunk as it goes out.
LEMMA SmallerOf == \A a, b \in Nat : Min({a, b}) = IF a <= b THEN a ELSE b
<1> TAKE a, b \in Nat
<1> DEFINE S == {a, b}
           m == IF a <= b THEN a ELSE b
<1>1. m \in S /\ \A y \in S : m <= y
  OBVIOUS
<1>2. \A x \in S : (\A y \in S : x <= y) => x = m
  OBVIOUS
<1> HIDE DEF S, m
<1>3. Min(S) = m
  BY <1>1, <1>2 DEF Min
<1> QED
  BY <1>3 DEF S, m

LEMMA ChunkEndIs ==
    ASSUME Len(dpImage) \in Nat, dpSent \in Nat, dpSent <= Len(dpImage)
    PROVE  ChunkEnd \in Nat /\ dpSent <= ChunkEnd /\ ChunkEnd <= Len(dpImage)
<1>1. ChunkSize \in Nat /\ dpSent + ChunkSize \in Nat
  BY DeployAssumption DEF DeployAssumption
<1>2. ChunkEnd = IF dpSent + ChunkSize <= Len(dpImage) THEN dpSent + ChunkSize ELSE Len(dpImage)
  BY <1>1, SmallerOf DEF ChunkEnd
<1> QED
  BY <1>1, <1>2

LEMMA SliceIs ==
    ASSUME dpImage \in Seq(0 .. 255), NEW a \in Nat, NEW b \in Nat,
           a <= b, b <= Len(dpImage)
    PROVE  /\ Slice(a, b) \in Seq(0 .. 255) /\ Len(Slice(a, b)) = b - a
           /\ \A i \in 1 .. (b - a) : Slice(a, b)[i] = dpImage[a + i]
<1>1. Len(dpImage) \in Nat /\ \A i \in 1 .. Len(dpImage) : dpImage[i] \in 0 .. 255
  BY SeqElements
<1>2. Slice(a, b) = SubSeq(dpImage, a + 1, b)
  BY <1>1, SmallerOf DEF Slice
<1>3. a + 1 \in Int /\ b \in Int /\ \A i \in (a + 1) .. b : dpImage[i] \in 0 .. 255
  <2>1. \A i \in (a + 1) .. b : i \in 1 .. Len(dpImage)
    BY <1>1
  <2>2. a + 1 \in Int /\ b \in Int
    OBVIOUS
  <2> QED
    BY ONLY <1>1, <2>1, <2>2
<1> DEFINE r == SubSeq(dpImage, a + 1, b)
<1>4. /\ r \in Seq(0 .. 255) /\ Len(r) = IF a + 1 <= b THEN b - (a + 1) + 1 ELSE 0
      /\ \A i \in 1 .. (b - (a + 1) + 1) : r[i] = dpImage[(a + 1) + i - 1]
  BY <1>3, SubSeqProperties
<1> HIDE DEF r
<1>5. Len(r) = b - a /\ \A i \in 1 .. (b - a) : r[i] = dpImage[a + i]
  BY <1>4
<1> QED
  BY <1>2, <1>4, <1>5 DEF r

LEMMA WireIs ==
    ASSUME NEW s \in Seq(0 .. 255)
    PROVE  /\ Wire(s) \in Seq(OnWire) /\ Len(Wire(s)) = Len(s)
           /\ \A i \in 1 .. Len(s) : Wire(s)[i].v = s[i]
<1>1. Len(s) \in Nat /\ \A i \in 1 .. Len(s) : s[i] \in 0 .. 255
  BY SeqElements
<1>2. \A i \in 1 .. Len(s) : [v |-> s[i], image |-> TRUE] \in OnWire
  BY ONLY <1>1, 0 .. 255 \subseteq Nat DEF OnWire
<1> QED
  BY <1>1, <1>2, IsASeq, LenProperties DEF Wire

\* The script's steps from the size on: what they send joins the line.
LEMMA LineHostAfter ==
    ASSUME DeployInv, LineInv,
           DeploySize \/ DeployChunk \/ DeploySum \/ DeployResponse
    PROVE  LineInv'
<1> USE DEF dpHost, dpLoader
<1>1. LineShape /\ LineControl /\ LoaderStartsWhatWasSent
  BY DEF LineInv
<1>2. UNCHANGED <<dpImage, dpBoard, dpWant, dpGot, dpFaults>>
  BY DEF DeploySize, DeployChunk, DeploySum, DeployResponse
<1>3. /\ Len(dpImage) \in Nat /\ dpSent \in Nat /\ dpSent <= Len(dpImage)
      /\ SentLen \in Nat
  BY <1>1, LineNumbers
<1>4. ASSUME LineShape', SizeSent', dpPc' # "done" <=> dpExit' = -1, dpBoard \in Taking,
             dpPc' = "resp" \/ dpExit' = 0 => dpSent' = Len(dpImage),
             dpBoard \in Listening => OnLine'
      PROVE  LineInv'
  <2>1. LineControl'
    BY <1>1, <1>2, <1>4 DEF LineControl
  <2>2. LoaderStartsWhatWasSent'
    BY <1>1, <1>2 DEF LoaderStartsWhatWasSent
  <2> QED
    BY <1>2, <1>4, <2>1, <2>2 DEF LineInv
<1>5. CASE DeploySize
  <2>1. dpPc = "size" /\ dpExit = -1 /\ ~SizeSent
    BY <1>1, <1>5 DEF DeploySize, LineControl, SizeSent
  <2>2. /\ NothingSent /\ dpGot = <<>>
    BY <2>1, BeforeSize
  <2>3. dpBoard = "size" /\ dpWire = <<>>
    BY <2>1, <2>2, LoaderPhases DEF DeployInv, ImageOnlyToLoader, NothingSent, Taking
  <2>4. dpPc' = "data" /\ dpExit' = -1 /\ dpSent' = 0 /\ dpFaults = 0
    BY <1>5, <2>1, <2>2 DEF DeploySize, NothingSent
  <2>5. dpWire' = <<Plain(Len(dpImage))>> /\ Plain(Len(dpImage)) \in OnWire
    BY <1>3, <1>5, <2>3 DEF DeploySize, Plain, OnWire
  <2>6. LineShape'
    BY <1>1, <1>2, <1>3, <2>4, <2>5 DEF LineShape
  <2>7. /\ Len(dpWire') = 1 /\ dpWire'[1].v = Len(dpImage) /\ dpWire'[1].image = FALSE
    BY <2>5 DEF Plain
  <2>8. SentLen' = 1 /\ Taken' = 0
    BY <1>2, <2>3, <2>4 DEF SentLen, Taken
  <2>9. Undamaged'
    <3>1. ArrivedAt(1)' = dpWire'[1].v
      BY <2>8 DEF ArrivedAt
    <3>2. SentAt(1)' = Len(dpImage)
      BY <1>2 DEF SentAt
    <3> QED
      BY <2>7, <2>8, <3>1, <3>2 DEF Undamaged
  <2>10. SizeSent' /\ dpBoard \in Taking
    BY <2>3, <2>4 DEF SizeSent, Taking
  <2> QED
    BY <1>2, <1>4, <2>4, <2>6, <2>9, <2>10 DEF OnLine
<1>6. CASE DeployChunk
  <2>1. /\ dpPc = "data" /\ dpPc' = "data" /\ dpExit' = dpExit /\ SizeSent /\ dpExit = -1
        /\ dpSent < Len(dpImage)
    BY <1>1, <1>6 DEF DeployChunk, SizeSent, LineControl
  <2> DEFINE e == ChunkEnd
             w == Wire(Slice(dpSent, e))
  <2>2. e \in Nat /\ dpSent <= e /\ e <= Len(dpImage)
    BY <1>3, <2>1, ChunkEndIs
  <2>3. dpWire' = dpWire \o w /\ dpSent' = e
    BY <1>6 DEF DeployChunk
  <2> HIDE DEF e
  <2>4. /\ Slice(dpSent, e) \in Seq(0 .. 255) /\ Len(Slice(dpSent, e)) = e - dpSent
        /\ \A i \in 1 .. (e - dpSent) : Slice(dpSent, e)[i] = dpImage[dpSent + i]
    BY <1>1, <1>3, <2>2, SliceIs DEF LineShape
  <2>5. /\ w \in Seq(OnWire) /\ Len(w) = e - dpSent
        /\ \A i \in 1 .. (e - dpSent) : w[i].v = dpImage[dpSent + i]
    BY <2>4, WireIs
  <2> HIDE DEF w
  <2>6. LineShape'
    <3>1. dpWire' \in Seq(OnWire)
      BY <1>1, <2>3, <2>5, ConcatProperties DEF LineShape
    <3>2. dpSent' \in 0 .. Len(dpImage)
      BY <1>3, <2>2, <2>3
    <3> QED
      BY <1>1, <1>2, <3>1, <3>2 DEF LineShape
  <2>7. SentLen = 1 + dpSent /\ SentLen' = SentLen + Len(w) /\ SentLen' = 1 + e
    BY <1>3, <2>1, <2>2, <2>3, <2>5 DEF SentLen
  <2>8. ASSUME NEW i \in 1 .. Len(w) PROVE w[i].v = SentAt(SentLen + i)
    <3>1. /\ SentLen + i = (dpSent + i) + 1 /\ SentLen + i # 1
          /\ SentLen + i <= Len(dpImage) + 1 /\ i \in 1 .. (e - dpSent)
          /\ (SentLen + i) - 1 = dpSent + i
      BY <1>3, <2>2, <2>5, <2>7
    <3> QED
      BY <2>5, <3>1 DEF SentAt
  <2>9. ASSUME NEW i \in 1 .. Len(w), NEW j \in Nat, j = SentLen + i PROVE ImagePlace(j)'
    BY <1>2, <1>3, <2>2, <2>5, <2>7, <2>9 DEF ImagePlace
  <2>10. SizeSent' /\ dpBoard \in Taking
    BY <1>1, <2>1 DEF SizeSent, LineControl
  <2>11. ASSUME dpBoard \in Listening PROVE OnLine'
    <3>1. OnLine
      BY <2>1, <2>11 DEF LineInv
    <3> QED
      BY <1>1, <1>2, <2>3, <2>5, <2>7, <2>8, <2>9, <3>1, MoreOnLine
  <2> QED
    BY <1>4, <2>1, <2>6, <2>10, <2>11
<1>7. CASE DeploySum
  <2>1. /\ dpPc = "data" /\ dpPc' = "resp" /\ dpExit' = dpExit /\ SizeSent /\ dpExit = -1
        /\ dpSent = Len(dpImage) /\ dpSent' = dpSent
        /\ dpWire' = Append(dpWire, Plain(checksum(dpImage)))
    BY <1>1, <1>3, <1>7 DEF DeploySum, SizeSent, LineControl
  <2> DEFINE c == checksum(dpImage)
             w == <<Plain(c)>>
  <2>2. c \in Nat
    <3>1. dpImage \in Seq(Nat)
      BY <1>1, BytesAreNumbers DEF LineShape
    <3> QED
      BY <3>1, SumIsNat
  <2> HIDE DEF c
  <2>3. w \in Seq(OnWire) /\ Len(w) = 1 /\ w[1].v = c /\ w[1].image = FALSE
    BY <2>2 DEF Plain, OnWire
  <2>4. dpWire' = dpWire \o w
    <3>1. dpWire \in Seq(OnWire) /\ Plain(c) \in OnWire
      BY <1>1, <2>2 DEF LineShape, Plain, OnWire
    <3>2. dpWire' = Append(dpWire, Plain(c))
      BY <2>1 DEF c
    <3> QED
      BY ONLY <3>1, <3>2, AppendIsConcat
  <2> HIDE DEF w
  <2>5. LineShape'
    <3>1. dpWire' \in Seq(OnWire)
      BY <1>1, <2>3, <2>4, ConcatProperties DEF LineShape
    <3> QED
      BY <1>1, <1>2, <2>1, <3>1 DEF LineShape
  <2>6. SentLen = 1 + Len(dpImage) /\ SentLen' = SentLen + Len(w)
    BY <1>2, <1>3, <2>1, <2>3 DEF SentLen
  <2>7. SentAt(SentLen + 1) = c
    BY <1>3, <2>6 DEF SentAt, c
  <2>8. /\ \A i \in 1 .. Len(w) : w[i].v = SentAt(SentLen + i)
        /\ \A i \in 1 .. Len(w), j \in Nat : w[i].image /\ j = SentLen + i => ImagePlace(j)'
    BY <2>3, <2>7
  <2>9. SizeSent' /\ dpBoard \in Taking
    BY <1>1, <2>1 DEF SizeSent, LineControl
  <2>10. ASSUME dpBoard \in Listening PROVE OnLine'
    <3>1. OnLine
      BY <2>1, <2>10 DEF LineInv
    <3> QED
      BY <1>1, <1>2, <2>3, <2>4, <2>6, <2>8, <3>1, MoreOnLine
  <2> QED
    BY <1>2, <1>4, <2>1, <2>5, <2>9, <2>10
<1>8. CASE DeployResponse
  <2>1. /\ dpPc = "resp" /\ dpPc' = "done" /\ dpExit' = 0 /\ SizeSent
        /\ dpSent = Len(dpImage) /\ dpSent' = dpSent /\ dpWire' = dpWire
    BY <1>1, <1>8 DEF DeployResponse, DeployFinish, SizeSent, LineControl
  <2>2. LineShape'
    BY <1>1, <1>2, <2>1 DEF LineShape
  <2>3. SizeSent' /\ dpBoard \in Taking
    BY <1>1, <2>1 DEF SizeSent, LineControl
  <2>4. SentLen' = SentLen /\ Taken' = Taken
    BY <1>2, <2>1 DEF SentLen, Taken
  <2>5. \A j : ArrivedAt(j)' = ArrivedAt(j)
    BY <1>2, <2>1, <2>4 DEF ArrivedAt
  <2>6. ASSUME dpBoard \in Listening PROVE OnLine'
    <3>1. OnLine
      BY <2>1, <2>6 DEF LineInv
    <3> QED
      BY <1>1, <1>2, <2>1, <2>4, <2>5, <3>1, SameLine
  <2> QED
    BY <1>2, <1>4, <2>1, <2>2, <2>3, <2>6
<1> QED
  BY <1>5, <1>6, <1>7, <1>8

\* What is on the line stays bytes of the image and others.
LEMMA FaultTyped ==
    ASSUME LineShape, LineFault
    PROVE  dpWire' \in Seq(OnWire)
<1>1. dpWire \in Seq(OnWire)
  BY DEF LineShape
<1>2. PICK i \in 1 .. Len(dpWire) :
        \/ \E b \in DeployByte \ {dpWire[i].v} : dpWire' = [dpWire EXCEPT ![i].v = b]
        \/ dpWire' = RemoveAt(dpWire, i)
  BY DEF LineFault
<1>3. CASE dpWire' = RemoveAt(dpWire, i)
  BY <1>1, <1>3, RemoveAtFacts
<1>4. CASE \E b \in DeployByte \ {dpWire[i].v} : dpWire' = [dpWire EXCEPT ![i].v = b]
  <2>1. PICK b \in DeployByte : dpWire' = [dpWire EXCEPT ![i].v = b]
    BY <1>4
  <2>2. b \in 0 .. 255
    BY DeployAssumption DEF DeployAssumption
  <2>3. b \in Nat
    BY ONLY <2>2
  <2>4. dpWire[i] \in OnWire
    BY <1>1, SeqElements
  <2>5. [dpWire[i] EXCEPT !.v = b] \in OnWire
    BY ONLY <2>3, <2>4 DEF OnWire
  <2>6. dpWire' = [dpWire EXCEPT ![i] = [dpWire[i] EXCEPT !.v = b]]
    BY <2>1
  <2> QED
    BY ONLY <1>1, <2>5, <2>6, i \in 1 .. Len(dpWire), ExceptSeq
<1> QED
  BY <1>2, <1>3, <1>4

LEMMA LineStutters ==
    ASSUME LineInv, UNCHANGED dpVars
    PROVE  LineInv'
<1>1. /\ UNCHANGED <<dpPc, dpImage, dpSent, dpReady, dpResp, dpExit>>
      /\ UNCHANGED <<dpIn, dpWire, dpBoard, dpWant, dpGot, dpFaults>>
  BY DEF dpVars, dpHost, dpLoader
<1>2. LineShape' /\ LineControl'
  BY <1>1 DEF LineInv, LineShape, LineControl, NothingSent, SizeSent
<1>3. (SizeSent /\ dpBoard \in Listening => OnLine)'
  <2>1. SizeSent' = SizeSent /\ Taken' = Taken /\ SentLen' = SentLen
    BY <1>1 DEF SizeSent, Taken, SentLen
  <2>2. /\ \A k : ArrivedAt(k)' = ArrivedAt(k)
        /\ \A k : SentAt(k)' = SentAt(k)
        /\ \A p : ImagePlace(p)' = ImagePlace(p)
    BY <1>1, <2>1 DEF ArrivedAt, SentAt, ImagePlace
  <2>3. Undamaged' = Undamaged
    BY <1>1, <2>1, <2>2 DEF Undamaged
  <2>4. \A p : Damaged(p)' = Damaged(p)
    BY <1>1, <2>1, <2>2 DEF Damaged
  <2>5. \A p : Missing(p)' = Missing(p)
    BY <1>1, <2>1, <2>2 DEF Missing
  <2>6. OnLine' = OnLine
    BY <1>1, <2>3, <2>4, <2>5 DEF OnLine
  <2> QED
    BY <1>1, <2>1, <2>6 DEF LineInv
<1>4. LoaderStartsWhatWasSent'
  BY <1>1 DEF LineInv, LoaderStartsWhatWasSent
<1> QED
  BY <1>2, <1>3, <1>4 DEF LineInv

\* The loader and the line, before the size.
LEMMA LineBoardBefore ==
    ASSUME DeployInv, LineInv, DeployBoard, ~SizeSent
    PROVE  LineInv'
<1> USE DEF dpHost, dpLoader
<1>1. /\ LineShape /\ NothingSent /\ dpGot = <<>>
      /\ dpBoard \notin {"recv", "sum", "jumped", "refused"}
      /\ dpPc # "done" <=> dpExit = -1
  BY BeforeSize
<1>2. UNCHANGED <<dpPc, dpExit, dpImage, dpSent>>
  BY DEF DeployBoard, LoaderPrints, LoaderDeaf, LoaderGivesUp, LoaderReads, LineFault
<1>3. ~SizeSent'
  BY <1>2 DEF SizeSent
<1>4. Tail(<<Plain(Magic)>>) = <<>> /\ Head(<<Plain(Magic)>>).v = Magic
  BY DEF Plain
<1>5. CASE LoaderPrints
  <2>1. /\ UNCHANGED <<dpWire, dpWant, dpGot, dpFaults>>
        /\ dpBoard' \in {"booted", "ready", "listen"}
    BY <1>5 DEF LoaderPrints
  <2>2. LineShape'
    BY <1>1, <1>2, <2>1 DEF LineShape
  <2>3. NothingSent'
    BY <1>1, <1>2, <2>1 DEF NothingSent, Waiting
  <2> QED
    BY <1>1, <1>2, <1>3, <2>1, <2>2, <2>3, QuietStep
<1>6. CASE LoaderDeaf
  <2>1. /\ UNCHANGED <<dpBoard, dpWant, dpGot, dpFaults>> /\ dpWire # <<>>
        /\ dpWire' = Tail(dpWire)
    BY <1>6 DEF LoaderDeaf
  <2>2. dpWire' = <<>>
    BY <1>1, <1>4, <2>1 DEF NothingSent
  <2>3. LineShape'
    BY <1>1, <1>2, <2>1, <2>2 DEF LineShape
  <2>4. NothingSent'
    BY <1>1, <1>2, <2>1, <2>2 DEF NothingSent
  <2> QED
    BY <1>1, <1>2, <1>3, <2>1, <2>3, <2>4, QuietStep
<1>7. CASE LoaderGivesUp
  <2>1. UNCHANGED <<dpWire, dpWant, dpGot, dpFaults>> /\ dpBoard' = "ssh"
    BY <1>7 DEF LoaderGivesUp
  <2>2. LineShape'
    BY <1>1, <1>2, <2>1 DEF LineShape
  <2>3. NothingSent'
    BY <1>1, <1>2, <2>1 DEF NothingSent, Waiting
  <2> QED
    BY <1>1, <1>2, <1>3, <2>1, <2>2, <2>3, QuietStep
<1>8. CASE LoaderReads
  <2>1. dpWire # <<>> /\ dpWire' = Tail(dpWire) /\ dpFaults' = dpFaults
    BY <1>8 DEF LoaderReads
  <2>2. dpBoard # "size" /\ dpWire' = <<>>
    BY <1>1, <1>4, <2>1 DEF NothingSent
  <2>3. dpBoard' = "size" /\ UNCHANGED <<dpWant, dpGot>>
    BY <1>1, <1>8, <2>2 DEF LoaderReads
  <2>4. LineShape'
    BY <1>1, <1>2, <2>1, <2>2, <2>3 DEF LineShape
  <2>5. NothingSent'
    BY <1>1, <1>2, <2>1, <2>2, <2>3 DEF NothingSent
  <2> QED
    BY <1>1, <1>2, <1>3, <2>3, <2>4, <2>5, QuietStep
<1>9. CASE LineFault
  <2>1. PICK i \in 1 .. Len(dpWire) : dpWire[i].image
    BY <1>9 DEF LineFault
  <2>2. dpWire = <<Plain(Magic)>>
    BY <1>1, <2>1 DEF NothingSent
  <2>3. Len(dpWire) = 1 /\ dpWire[1].image = FALSE
    BY <2>2 DEF Plain
  <2> QED
    BY <2>1, <2>3
<1> QED
  BY <1>5, <1>6, <1>7, <1>8, <1>9 DEF DeployBoard

\* The loader and the line, from the size on.
LEMMA LineBoardAfter ==
    ASSUME DeployInv, LineInv, DeployBoard, SizeSent
    PROVE  LineInv'
<1> USE DEF dpHost, dpLoader
<1>1. LineShape /\ LineControl /\ LoaderStartsWhatWasSent
  BY DEF LineInv
<1>2. UNCHANGED <<dpPc, dpExit, dpImage, dpSent>>
  BY DEF DeployBoard, LoaderPrints, LoaderDeaf, LoaderGivesUp, LoaderReads, LineFault
<1>3. SizeSent' /\ SentLen' = SentLen
  BY <1>2 DEF SizeSent, SentLen
<1>4. dpBoard \in Taking /\ dpBoard \notin Waiting
  BY <1>1, LoaderPhases DEF LineControl
<1>5. /\ Len(dpImage) \in Nat /\ Len(dpWire) \in Nat /\ Len(dpGot) \in Nat
      /\ SentLen \in Nat /\ SentLen >= 1 /\ Taken \in Nat
  BY <1>1, LineNumbers
<1>6. ASSUME LineShape', dpBoard' \in Taking, dpBoard' = "size" => dpGot' = <<>>,
             dpBoard' = "recv" => Len(dpGot') < dpWant',
             dpBoard' = "sum" => Len(dpGot') = dpWant',
             dpBoard' \in Listening => OnLine', LoaderStartsWhatWasSent'
      PROVE  LineInv'
  <2>1. LineControl'
    BY <1>1, <1>2, <1>3, <1>6, LoaderPhases DEF LineControl
  <2> QED
    BY <1>6, <2>1 DEF LineInv
<1>7. CASE LoaderReads
  <2>1. /\ dpWire # <<>> /\ dpWire' = Tail(dpWire) /\ dpFaults' = dpFaults
        /\ dpBoard \in Listening
    BY <1>4, <1>7 DEF LoaderReads, Listening, Waiting
  <2>2. OnLine
    BY <2>1 DEF LineInv
  <2> DEFINE v == Head(dpWire).v
             n == Len(dpWire)
  <2>3. /\ dpWire' \in Seq(OnWire) /\ Len(dpWire') = n - 1 /\ n >= 1
        /\ \A i \in 1 .. (n - 1) : dpWire'[i] = dpWire[i + 1]
        /\ Head(dpWire) = dpWire[1] /\ dpWire[1] \in OnWire
    BY <1>1, <1>5, <2>1 DEF LineShape
  <2>4. v \in Nat /\ v = dpWire[1].v
    BY <2>3 DEF OnWire
  <2>5. ASSUME dpBoard \in {"size", "recv"}, Taken' = Taken + 1,
               ArrivedAt(Taken + 1) = v,
               \A j \in 1 .. Taken : ArrivedAt(j)' = ArrivedAt(j),
               NEW t \in Nat, t = Taken + 1, ArrivedAt(t)' = v
        PROVE  OnLine'
    <3>1. Taken' + Len(dpWire') = Taken + Len(dpWire)
      BY ONLY <1>5, <2>3, <2>5
    <3>2. ASSUME NEW j \in 1 .. (Taken + Len(dpWire)) PROVE ArrivedAt(j)' = ArrivedAt(j)
      <4>1. CASE j <= Taken
        BY <1>5, <2>5, <4>1
      <4>2. CASE j = t
        BY <2>5, <4>2
      <4>3. CASE j > t
        <5>1. /\ j > Taken' /\ j > Taken /\ j - Taken' \in 1 .. (n - 1)
              /\ (j - Taken') + 1 = j - Taken
          BY <1>5, <2>5, <4>3
        <5>2. ArrivedAt(j)' = dpWire'[j - Taken'].v /\ ArrivedAt(j) = dpWire[j - Taken].v
          BY <5>1 DEF ArrivedAt
        <5>3. dpWire'[j - Taken'] = dpWire[j - Taken]
          BY ONLY <2>3, <5>1
        <5> QED
          BY ONLY <5>2, <5>3
      <4> QED
        BY <1>5, <2>5, <4>1, <4>2, <4>3
    <3>3. \A i \in 1 .. Len(dpWire') : \E k \in 1 .. Len(dpWire) :
            Taken' + i = Taken + k /\ dpWire'[i].image = dpWire[k].image
      <4> SUFFICES ASSUME NEW i \in 1 .. Len(dpWire')
                   PROVE  \E k \in 1 .. Len(dpWire) :
                            Taken' + i = Taken + k /\ dpWire'[i].image = dpWire[k].image
        OBVIOUS
      <4>1. /\ i \in 1 .. (n - 1) /\ i + 1 \in 1 .. Len(dpWire)
            /\ Taken' + i = Taken + (i + 1)
        BY ONLY <1>5, <2>3, <2>5, i \in 1 .. Len(dpWire')
      <4> QED
        BY ONLY <2>3, <4>1
    <3> QED
      BY <1>1, <1>2, <1>3, <2>1, <2>2, <3>1, <3>2, <3>3, SameLine
  <2>6. CASE dpBoard = "size"
    <3>1. /\ dpWant' = v /\ dpGot' = dpGot /\ dpGot = <<>> /\ Len(dpGot) = 0
          /\ dpBoard' = IF v = 0 THEN "sum" ELSE "recv"
      BY <1>1, <1>7, <2>6 DEF LoaderReads, LineControl
    <3>2. LineShape'
      BY <1>1, <1>2, <2>1, <2>3, <2>4, <3>1 DEF LineShape
    <3>3. Taken = 0 /\ Taken' = 1
      BY <2>6, <3>1 DEF Taken
    <3>4. ArrivedAt(Taken + 1) = v /\ ArrivedAt(1)' = v
      BY <2>3, <3>1, <3>3 DEF ArrivedAt
    <3>5. OnLine'
      BY <2>5, <2>6, <3>3, <3>4
    <3> QED
      BY <1>6, <2>4, <3>1, <3>2, <3>5 DEF Taking, LoaderStartsWhatWasSent
  <2>7. CASE dpBoard = "recv"
    <3>1. /\ dpWant' = dpWant /\ dpGot' = Append(dpGot, v) /\ Len(dpGot) < dpWant
          /\ dpBoard' = IF Len(dpGot') = dpWant THEN "sum" ELSE "recv"
      BY <1>1, <1>7, <2>7 DEF LoaderReads, LineControl
    <3>2. dpGot \in Seq(Nat) /\ dpWant \in Nat
      BY <1>1 DEF LineShape
    <3>3. /\ dpGot' \in Seq(Nat) /\ Len(dpGot') = Len(dpGot) + 1
          /\ \A i \in 1 .. Len(dpGot) : dpGot'[i] = dpGot[i]
          /\ dpGot'[Len(dpGot) + 1] = v
      BY <2>4, <3>1, <3>2, AppendProperties
    <3>4. LineShape'
      BY <1>1, <1>2, <2>1, <2>3, <3>1, <3>3 DEF LineShape
    <3>5. Taken = 1 + Len(dpGot) /\ Taken' = Taken + 1 /\ dpBoard' # "size"
      BY <1>5, <2>7, <3>1, <3>3 DEF Taken
    <3>6. ArrivedAt(Taken + 1) = v
      BY <1>5, <2>4 DEF ArrivedAt
    <3>7. ASSUME NEW j \in 1 .. Taken PROVE ArrivedAt(j)' = ArrivedAt(j)
      <4>1. ~(j > Taken) /\ ~(j > Taken') /\ (j # 1 => j - 1 \in 1 .. Len(dpGot))
        BY ONLY <1>5, <3>5, <3>7
      <4> QED
        BY <3>1, <3>3, <4>1 DEF ArrivedAt
    <3>8. PICK t \in Nat : t = Taken + 1
      BY <1>5
    <3>9. ArrivedAt(t)' = v
      <4>1. ~(t > Taken') /\ t # 1 /\ t - 1 = Len(dpGot) + 1
        BY ONLY <1>5, <3>5, <3>8, t \in Nat
      <4>2. ArrivedAt(t)' = dpGot'[t - 1]
        BY <4>1 DEF ArrivedAt
      <4> QED
        BY ONLY <3>3, <4>1, <4>2
    <3>10. OnLine'
      BY <2>5, <2>7, <3>5, <3>6, <3>7, <3>8, <3>9
    <3>11. dpBoard' = "recv" => Len(dpGot') < dpWant'
      BY ONLY <1>5, <3>1, <3>2, <3>3
    <3>12. /\ dpBoard' \in {"recv", "sum"}
           /\ dpBoard' = "sum" => Len(dpGot') = dpWant'
      BY <3>1
    <3> QED
      BY <1>6, <3>4, <3>10, <3>11, <3>12 DEF Taking, LoaderStartsWhatWasSent
  <2>8. CASE dpBoard = "sum"
    <3>1. /\ UNCHANGED <<dpWant, dpGot>> /\ Len(dpGot) = dpWant
          /\ dpBoard' = IF v = checksum(dpGot) THEN "jumped" ELSE "refused"
      BY <1>1, <1>7, <2>8 DEF LoaderReads, LineControl
    <3>2. LineShape'
      BY <1>1, <1>2, <2>1, <2>3, <3>1 DEF LineShape
    <3>3. LoaderStartsWhatWasSent'
      <4>1. v = checksum(dpGot) /\ dpFaults <= 1 => dpGot = dpImage
        BY <1>1, <2>1, <2>2, <2>8, <3>1, SumVerdict
      <4> QED
        BY <1>2, <2>1, <3>1, <4>1 DEF LoaderStartsWhatWasSent
    <3> QED
      BY <1>6, <3>1, <3>2, <3>3 DEF Taking, Listening
  <2> QED
    BY <2>1, <2>6, <2>7, <2>8 DEF Listening
<1>8. CASE LineFault
  <2>1. UNCHANGED <<dpBoard, dpWant, dpGot>> /\ dpFaults' = dpFaults + 1 /\ dpFaults \in Nat
    BY <1>1, <1>8 DEF LineFault, LineShape
  <2>2. LineShape'
    <3>1. dpWire' \in Seq(OnWire)
      BY <1>1, <1>8, FaultTyped
    <3> QED
      BY <1>1, <1>2, <2>1, <3>1 DEF LineShape
  <2>3. LoaderStartsWhatWasSent'
    BY <1>1, <1>2, <2>1 DEF LoaderStartsWhatWasSent
  <2>4. ASSUME dpBoard \in Listening PROVE OnLine'
    <3>1. CASE dpFaults = 0
      <4>1. Undamaged
        BY <2>4, <3>1 DEF LineInv, OnLine
      <4> QED
        BY <1>1, <1>8, <3>1, <4>1, FirstFault
    <3>2. CASE dpFaults # 0
      BY <2>1, <3>2 DEF OnLine
    <3> QED
      BY <3>1, <3>2
  <2> QED
    BY <1>1, <1>4, <1>6, <2>1, <2>2, <2>3, <2>4 DEF LineControl
<1>9. ~LoaderPrints /\ ~LoaderDeaf /\ ~LoaderGivesUp
  BY <1>4 DEF LoaderPrints, LoaderDeaf, LoaderGivesUp, Waiting
<1> QED
  BY <1>7, <1>8, <1>9 DEF DeployBoard

LEMMA LineHolds == DeploySpec => []LineInv
<1>1. DeployInit => LineInv
  BY DEF DeployInit, LineInv, LineShape, LineControl, NothingSent, SizeSent, Waiting,
         Listening, LoaderStartsWhatWasSent
<1>2. DeployInv /\ LineInv /\ [DeployNext]_dpVars => LineInv'
  <2> SUFFICES ASSUME DeployInv, LineInv, [DeployNext]_dpVars PROVE LineInv'
    OBVIOUS
  <2>1. CASE UNCHANGED dpVars
    BY <2>1, LineStutters
  <2> QED
    BY <2>1, LineHostBefore, LineHostAfter, LineBoardBefore, LineBoardAfter
       DEF DeployNext, DeployHost
<1> QED
  BY <1>1, <1>2, DeployHolds, PTL DEF DeploySpec

\* deploy-kernel.py and the loader's protocol, for any image and whatever is on
\* the line: when no more than one byte of the image is damaged or lost, the
\* loader starts the image that was sent or nothing.
THEOREM SumCatchesAFault == DeploySpec => []LoaderStartsWhatWasSent
<1>1. LineInv => LoaderStartsWhatWasSent
  BY DEF LineInv
<1> QED
  BY <1>1, LineHolds, PTL

-----------------------------------------------------------------------------
(* The shape of deploy-kernel.py's state: what is on the line as part of    *)
(* the image stays a byte, through faults and losses.                       *)

LineItem == {r \in OnWire : r.image => r.v \in 0 .. 255}

DeployShape ==
    /\ dpPc \in {"idle", "reset", "wait", "magic", "ack", "size", "data", "resp", "done"}
    /\ dpReady \in BOOLEAN
    /\ dpExit \in {-1, 0, 1}
    /\ dpIn \in Seq(Texts) /\ dpResp \in Seq(Texts)
    /\ dpWire \in Seq(LineItem)
    /\ dpFaults \in 0 .. DeployMaxFaults

LEMMA PlainItem ==
    ASSUME NEW v \in Nat
    PROVE  Plain(v) \in LineItem
BY DEF Plain, LineItem, OnWire

LEMMA WireItems ==
    ASSUME NEW s \in Seq(0 .. 255)
    PROVE  Wire(s) \in Seq(LineItem)
<1>1. Len(s) \in Nat /\ \A i \in 1 .. Len(s) : s[i] \in 0 .. 255
  BY SeqElements
<1>2. ASSUME NEW i \in 1 .. Len(s) PROVE [v |-> s[i], image |-> TRUE] \in LineItem
  <2>1. PICK x \in 0 .. 255 : x = s[i]
    BY <1>1
  <2>2. x \in Nat
    BY ONLY x \in 0 .. 255
  <2>3. [v |-> x, image |-> TRUE] \in OnWire
    BY ONLY <2>2 DEF OnWire
  <2>4. [v |-> x, image |-> TRUE] \in LineItem
    BY ONLY <2>3, x \in 0 .. 255 DEF LineItem
  <2> QED
    BY ONLY <2>1, <2>4
<1> DEFINE I == LineItem
<1>3. \A i \in 1 .. Len(s) : [v |-> s[i], image |-> TRUE] \in I
  BY <1>2
<1> HIDE DEF I
<1>4. [i \in 1 .. Len(s) |-> [v |-> s[i], image |-> TRUE]] \in Seq(I)
  BY ONLY <1>1, <1>3
<1> QED
  BY ONLY <1>4 DEF Wire, I

LEMMA DeployHostShape ==
    ASSUME DeployShape, LineInv, DeployHost
    PROVE  DeployShape'
<1> USE DEF dpHost, dpLoader
<1>1. LineShape /\ Len(dpImage) \in Nat /\ dpSent \in Nat /\ dpSent <= Len(dpImage)
  BY LineNumbers DEF LineInv
<1>2. <<>> \in Seq(Texts) /\ DeployStale \subseteq Seq(Texts)
  BY DeployAssumption DEF DeployAssumption
<1>3. CASE DeployOpen \/ reset_target \/ DeployPoll \/ DeployNoReady
  BY <1>2, <1>3 DEF DeployShape, DeployOpen, reset_target, DeployPoll, DeployNoReady, DeployFinish
<1>4. CASE DeployMagic \/ DeploySize \/ DeploySum
  <2>1. PICK v \in Nat : dpWire' = Append(dpWire, Plain(v))
    <3>1. Magic \in Nat /\ Len(dpImage) \in Nat
      BY <1>1 DEF Magic
    <3>2. checksum(dpImage) \in Nat
      BY <1>1, BytesAreNumbers, SumIsNat DEF LineShape
    <3> QED
      BY <1>4, <3>1, <3>2 DEF DeployMagic, DeploySize, DeploySum
  <2>2. dpWire' \in Seq(LineItem)
    BY <2>1, PlainItem DEF DeployShape
  <2> QED
    BY <1>4, <2>2 DEF DeployShape, DeployMagic, DeploySize, DeploySum
<1>5. CASE DeployAck
  <2>1. CASE dpIn # <<>>
    <3>1. Head(dpIn) \in Texts /\ Tail(dpIn) \in Seq(Texts)
      BY <2>1, MembersTail DEF DeployShape
    <3>2. <<Head(dpIn)>> \in Seq(Texts)
      BY <3>1
    <3> QED
      BY <1>5, <2>1, <3>1, <3>2 DEF DeployShape, DeployAck, DeployFinish
  <2>2. CASE dpIn = <<>>
    BY <1>5, <2>2 DEF DeployShape, DeployAck, DeployFinish
  <2> QED
    BY <2>1, <2>2
<1>6. CASE DeployChunk
  <2>1. Slice(dpSent, ChunkEnd) \in Seq(0 .. 255)
    BY <1>1, ChunkEndIs, SliceIs DEF LineShape
  <2>2. Wire(Slice(dpSent, ChunkEnd)) \in Seq(LineItem)
    BY ONLY <2>1, WireItems
  <2>3. dpWire' \in Seq(LineItem)
    BY <1>6, <2>2 DEF DeployChunk, DeployShape
  <2> QED
    BY <1>6, <2>3 DEF DeployChunk, DeployShape
<1>7. CASE DeployResponse
  BY <1>2, <1>7 DEF DeployShape, DeployResponse, DeployFinish
<1> QED
  BY <1>3, <1>4, <1>5, <1>6, <1>7 DEF DeployHost

LEMMA DeployBoardShape ==
    ASSUME DeployShape, DeployBoard
    PROVE  DeployShape'
<1> USE DEF dpHost, dpLoader
<1>1. dpIn \in Seq(Texts) /\ dpWire \in Seq(LineItem)
  BY DEF DeployShape
<1>2. \A x \in Texts : Append(dpIn, x) \in Seq(Texts)
  BY <1>1
<1>3. dpWire # <<>> => Tail(dpWire) \in Seq(LineItem)
  BY <1>1, MembersTail
<1>4. CASE LoaderPrints
  BY <1>2, <1>4 DEF LoaderPrints, DeployShape, Texts
<1>5. CASE LoaderDeaf \/ LoaderGivesUp
  BY <1>3, <1>5 DEF LoaderDeaf, LoaderGivesUp, DeployShape
<1>6. CASE LoaderReads
  <2>1. /\ dpWire' \in Seq(LineItem)
        /\ UNCHANGED <<dpPc, dpImage, dpSent, dpReady, dpResp, dpExit, dpFaults>>
    BY <1>3, <1>6 DEF LoaderReads
  <2>2. dpIn' \in {dpIn, Append(dpIn, "ACK"), Append(dpIn, "OK"), Append(dpIn, "ER")}
    BY <1>6 DEF LoaderReads
  <2>3. dpIn' \in Seq(Texts)
    BY <1>1, <1>2, <2>2 DEF Texts
  <2> QED
    BY <2>1, <2>3 DEF DeployShape
<1>7. CASE LineFault
  <2>1. PICK i \in 1 .. Len(dpWire) :
          /\ dpWire[i].image
          /\ \/ \E b \in DeployByte \ {dpWire[i].v} : dpWire' = [dpWire EXCEPT ![i].v = b]
             \/ dpWire' = RemoveAt(dpWire, i)
    BY <1>7 DEF LineFault
  <2>2. ASSUME dpWire' = RemoveAt(dpWire, i) PROVE dpWire' \in Seq(LineItem)
    BY <1>1, <2>2, RemoveAtFacts
  <2>3. ASSUME \E b \in DeployByte \ {dpWire[i].v} : dpWire' = [dpWire EXCEPT ![i].v = b]
        PROVE  dpWire' \in Seq(LineItem)
    <3>1. PICK b \in DeployByte : dpWire' = [dpWire EXCEPT ![i].v = b]
      BY <2>3
    <3>2. b \in 0 .. 255
      BY DeployAssumption DEF DeployAssumption
    <3>3. b \in Nat /\ b \in 0 .. 255
      BY ONLY <3>2
    <3>4. dpWire[i] \in LineItem
      BY <1>1, SeqElements
    <3>5. [dpWire[i] EXCEPT !.v = b] \in LineItem
      BY ONLY <3>3, <3>4 DEF LineItem, OnWire
    <3>6. dpWire' = [dpWire EXCEPT ![i] = [dpWire[i] EXCEPT !.v = b]]
      BY <3>1
    <3> QED
      BY ONLY <1>1, <3>5, <3>6, i \in 1 .. Len(dpWire), ExceptSeq
  <2>4. dpWire' \in Seq(LineItem)
    BY <2>1, <2>2, <2>3
  <2>5. dpFaults' \in 0 .. DeployMaxFaults
    BY <1>7, DeployAssumption DEF LineFault, DeployShape, DeployAssumption
  <2> QED
    BY <1>7, <2>4, <2>5 DEF LineFault, DeployShape
<1> QED
  BY <1>4, <1>5, <1>6, <1>7 DEF DeployBoard

\* deploy-kernel.py, the line and the loader, for any image and however many
\* faults: the state keeps its shape.
LEMMA DeployTyped == DeploySpec => []DeployTypeOK
<1>1. DeployInit => DeployShape
  <2>1. <<>> \in Seq(Texts) /\ <<>> \in Seq(LineItem) /\ 0 \in 0 .. DeployMaxFaults
    BY DeployAssumption DEF DeployAssumption
  <2> QED
    BY <2>1 DEF DeployInit, DeployShape
<1>2. LineInv /\ DeployShape /\ [DeployNext]_dpVars => DeployShape'
  <2>1. DeployShape /\ UNCHANGED dpVars => DeployShape'
    BY DEF DeployShape, dpVars, dpHost
  <2> QED
    BY <2>1, DeployHostShape, DeployBoardShape DEF DeployNext
<1>3. LineInv /\ DeployShape => DeployTypeOK
  <2> SUFFICES ASSUME LineInv, DeployShape PROVE DeployTypeOK
    OBVIOUS
  <2>1. dpSent \in 0 .. Len(dpImage) /\ dpWant \in Nat
    BY DEF LineInv, LineShape
  <2>2. Range(dpIn) \cup Range(dpResp) \subseteq Texts
    BY SeqElements DEF DeployShape, Range
  <2>3. ASSUME NEW i \in 1 .. Len(dpWire)
        PROVE  dpWire[i].v \in IF dpWire[i].image THEN 0 .. 255 ELSE Nat
    <3>1. dpWire[i] \in LineItem
      BY SeqElements DEF DeployShape
    <3> QED
      BY <3>1 DEF LineItem, OnWire
  <2> QED
    BY <2>1, <2>2, <2>3 DEF DeployShape, DeployTypeOK
<1> QED
  BY <1>1, <1>2, <1>3, LineHolds, PTL DEF DeploySpec

-----------------------------------------------------------------------------
(* The netboot scripts.  The invariant says, for each place in the plan,    *)
(* what U-Boot may be busy with, what a marker in the script's buffer is    *)
(* about, and what memory holds by then.  A marker may be an earlier try's, *)
(* and a size that was read means that no transfer was under way.           *)

Kinds == {"plain", "core", "linux"}
Left(k, i) == SubSeq(Plan(k), i, Len(Plan(k)))
Marked == "transferred" \in nbOut

AtPlain(i) ==
    /\ i >= 3 => ubBusy = "no"
    /\ i >= 4 => ubMem["core"] = "zero"

AtCore(i) ==
    /\ nbCoreOk => ubMem["core"] = "whole"
    /\ i = 3 => ubBusy \in {"no", "core"}
    /\ i = 3 /\ Marked => ubMem["core"] = "whole"

AtLinux(i) ==
    /\ i <= 4 => nbSize = "none"
    /\ i \in {3, 4} => ubBusy \in {"no", "initrd"}
    /\ (i = 3 /\ Marked) \/ i = 4 => ubMem["initrd"] = "whole" /\ ubFile = "initrd"
    /\ i >= 5 /\ nbSize # "none" =>
         nbSize = "initrd" /\ ubMem["initrd"] = "whole" /\ ubBusy \in {"no", "dtb"}
    /\ i = 5 /\ nbSize # "none" /\ Marked => ubMem["dtb"] = "whole"
    /\ i = 6 /\ nbSize # "none" => ubMem["dtb"] = "whole"

\* The script is at stage i of its plan.
AtStage(i) ==
    /\ nbPlan = Left(nbKind, i)
    /\ nbPc \in {"window", "abort"} => Plan(nbKind)[i].do = "fetch"
    /\ i >= 3 => ubMem["image"] = "whole"
    /\ nbKind = "plain" => AtPlain(i)
    /\ nbKind = "core" => AtCore(i)
    /\ nbKind = "linux" => AtLinux(i)

NetShape ==
    /\ nbPc \in {"idle", "run", "window", "abort", "done"}
    /\ ubMem \in [Regions -> {"old", "part", "whole", "zero"}]
    /\ ubBusy \in {"no"} \cup Regions

NetInv ==
    /\ NetShape
    /\ nbPc = "idle" => /\ ubBusy = "no" /\ nbOut = {} /\ nbSize = "none" /\ ~nbCoreOk
                        /\ ~ubStarted
    /\ nbPc \in {"run", "window", "abort"} =>
         /\ nbKind \in Kinds /\ ~ubStarted
         /\ \E i \in 1 .. Len(Plan(nbKind)) : AtStage(i)
    /\ ubStarted => StartsWholeImage /\ CoreAsReported /\ ubBusy = "no"

LEMMA SuffixFacts ==
    ASSUME NEW S, NEW s \in Seq(S), NEW i \in 1 .. Len(s)
    PROVE  LET r == SubSeq(s, i, Len(s)) IN
           r # <<>> /\ Head(r) = s[i] /\ Tail(r) = SubSeq(s, i + 1, Len(s))
<1> DEFINE n == Len(s)
           r == SubSeq(s, i, n)
           q == SubSeq(s, i + 1, n)
<1>1. n \in Nat /\ i \in Int /\ i >= 1 /\ i <= n
  OBVIOUS
<1>2. /\ r \in Seq(S) /\ Len(r) = n - i + 1
      /\ \A j \in 1 .. (n - i + 1) : r[j] = s[i + j - 1]
  BY <1>1, SubSeqProperties
<1>3. /\ q \in Seq(S) /\ Len(q) = n - i
      /\ \A j \in 1 .. (n - i) : q[j] = s[(i + 1) + j - 1]
  OBVIOUS
<1> HIDE DEF n, r, q
<1>4. r # <<>> /\ Head(r) = s[i]
  BY <1>1, <1>2
<1>5. Tail(r) \in Seq(S) /\ Len(Tail(r)) = n - i
      /\ \A j \in 1 .. (n - i) : Tail(r)[j] = r[j + 1]
  BY <1>1, <1>2, <1>4
<1>6. ASSUME NEW j \in 1 .. (n - i) PROVE Tail(r)[j] = q[j]
  <2>1. j + 1 \in 1 .. (n - i + 1) /\ i + (j + 1) - 1 = (i + 1) + j - 1
    BY <1>1
  <2> QED
    BY <1>2, <1>3, <1>5, <2>1
<1>7. Tail(r) = q
  BY <1>3, <1>5, <1>6, SeqEqual
<1> QED
  BY <1>4, <1>7 DEF r, q, n

Stages == [do : {"fetch", "unzip", "clear", "filesize", "go"}, region : Regions \cup {"none"}]

LEMMA PlanTable ==
    /\ \A k \in Kinds :
         /\ Plan(k) \in Seq(Stages)
         /\ Plan(k)[1] = Fetch("load") /\ Plan(k)[2] = Do("unzip")
    /\ Len(Plan("plain")) = 4 /\ Plan("plain")[3] = Do("clear") /\ Plan("plain")[4] = Do("go")
    /\ Len(Plan("core")) = 4 /\ Plan("core")[3] = Fetch("core") /\ Plan("core")[4] = Do("go")
    /\ Len(Plan("linux")) = 6 /\ Plan("linux")[3] = Fetch("initrd")
    /\ Plan("linux")[4] = Do("filesize") /\ Plan("linux")[5] = Fetch("dtb")
    /\ Plan("linux")[6] = Do("go")
<1>1. /\ \A r \in Regions : Fetch(r) \in Stages
      /\ \A w \in {"unzip", "clear", "filesize", "go"} : Do(w) \in Stages
  BY DEF Fetch, Do, Stages
<1>2. {"load", "core", "initrd", "dtb"} \subseteq Regions
  BY DEF Regions
<1>3. /\ PlainPlan \in Seq(Stages) /\ CorePlan \in Seq(Stages) /\ LinuxPlan \in Seq(Stages)
  BY <1>1, <1>2 DEF PlainPlan, CorePlan, LinuxPlan
<1>4. /\ Plan("plain") = PlainPlan /\ Plan("core") = CorePlan /\ Plan("linux") = LinuxPlan
  BY DEF Plan
<1>5. \A k \in Kinds : Plan(k) \in Seq(Stages)
  BY <1>3, <1>4 DEF Kinds
<1>6. /\ PlainPlan[1] = Fetch("load") /\ PlainPlan[2] = Do("unzip")
      /\ CorePlan[1] = Fetch("load") /\ CorePlan[2] = Do("unzip")
      /\ LinuxPlan[1] = Fetch("load") /\ LinuxPlan[2] = Do("unzip")
  BY DEF PlainPlan, CorePlan, LinuxPlan
<1>7. \A k \in Kinds : Plan(k)[1] = Fetch("load") /\ Plan(k)[2] = Do("unzip")
  BY <1>4, <1>6 DEF Kinds
<1> QED
  BY <1>4, <1>5, <1>7 DEF PlainPlan, CorePlan, LinuxPlan

\* Which stages have which command.
LEMMA StageTable ==
    ASSUME NEW k \in Kinds, NEW i \in 1 .. Len(Plan(k))
    PROVE  /\ i \in Nat /\ i >= 1 /\ i <= Len(Plan(k)) /\ Len(Plan(k)) \in Nat
           /\ Plan(k)[i].do = "unzip" => i = 2
           /\ Plan(k)[i].do = "clear" => k = "plain" /\ i = 3
           /\ Plan(k)[i].do = "filesize" => k = "linux" /\ i = 4
           /\ Plan(k)[i].do = "go" => i = (IF k = "linux" THEN 6 ELSE 4)
           /\ Plan(k)[i].do # "go" => i + 1 \in 1 .. Len(Plan(k))
           /\ Plan(k)[i].do = "fetch" =>
                \/ i = 1 /\ Plan(k)[i].region = "load"
                \/ k = "core" /\ i = 3 /\ Plan(k)[i].region = "core"
                \/ k = "linux" /\ i = 3 /\ Plan(k)[i].region = "initrd"
                \/ k = "linux" /\ i = 5 /\ Plan(k)[i].region = "dtb"
<1>1. \A r : Fetch(r).do = "fetch" /\ Fetch(r).region = r
  BY DEF Fetch
<1>2. \A w : Do(w).do = w
  BY DEF Do
<1>3. Plan(k)[1] = Fetch("load") /\ Plan(k)[2] = Do("unzip")
  BY PlanTable
<1>4. CASE k = "plain"
  <2>1. Len(Plan(k)) = 4 /\ Plan(k)[3] = Do("clear") /\ Plan(k)[4] = Do("go")
    BY <1>4, PlanTable
  <2>2. i = 1 \/ i = 2 \/ i = 3 \/ i = 4
    BY <2>1
  <2> QED
    BY <1>1, <1>2, <1>3, <1>4, <2>1, <2>2
<1>5. CASE k = "core"
  <2>1. Len(Plan(k)) = 4 /\ Plan(k)[3] = Fetch("core") /\ Plan(k)[4] = Do("go")
    BY <1>5, PlanTable
  <2>2. i = 1 \/ i = 2 \/ i = 3 \/ i = 4
    BY <2>1
  <2> QED
    BY <1>1, <1>2, <1>3, <1>5, <2>1, <2>2
<1>6. CASE k = "linux"
  <2>1. /\ Len(Plan(k)) = 6 /\ Plan(k)[3] = Fetch("initrd") /\ Plan(k)[4] = Do("filesize")
        /\ Plan(k)[5] = Fetch("dtb") /\ Plan(k)[6] = Do("go")
    BY <1>6, PlanTable
  <2>2. i = 1 \/ i = 2 \/ i = 3 \/ i = 4 \/ i = 5 \/ i = 6
    BY <2>1
  <2> QED
    BY <1>1, <1>2, <1>3, <1>6, <2>1, <2>2
<1> QED
  BY <1>4, <1>5, <1>6 DEF Kinds

\* What the script looks at is the stage it is at, and Advance moves to the next.
LEMMA StageIs ==
    ASSUME NEW i \in 1 .. Len(Plan(nbKind)), nbKind \in Kinds, AtStage(i)
    PROVE  /\ nbPlan # <<>> /\ Stage = Plan(nbKind)[i]
           /\ Advance => nbPlan' = Left(nbKind, i + 1) /\ nbPc' = "run"
<1>1. Plan(nbKind) \in Seq(Stages)
  BY PlanTable
<1>2. nbPlan = SubSeq(Plan(nbKind), i, Len(Plan(nbKind)))
  BY DEF AtStage, Left
<1>3. nbPlan # <<>> /\ Head(nbPlan) = Plan(nbKind)[i] /\ Tail(nbPlan) = Left(nbKind, i + 1)
  BY <1>1, <1>2, SuffixFacts DEF Left
<1> QED
  BY <1>3 DEF Stage, Advance

\* Memory after a transfer has begun or has ended: what was whole stays whole.
LEMMA MemoryStep ==
    ASSUME NetShape, NEW r \in Regions, NEW v \in {"part", "whole"},
           ubMem' = [ubMem EXCEPT ![r] = v], v = "part" => ubMem[r] # "whole"
    PROVE  /\ ubMem' \in [Regions -> {"old", "part", "whole", "zero"}]
           /\ ubMem'[r] = v
           /\ \A q \in Regions : q # r => ubMem'[q] = ubMem[q]
           /\ \A q \in Regions : ubMem[q] = "whole" => ubMem'[q] = "whole"
BY DEF NetShape

LEMMA NetbootStartKeeps ==
    ASSUME NetInv, NEW k \in Kinds, NetbootStart(k)
    PROVE  NetInv'
<1>1. /\ nbPc = "idle" /\ nbPc' = "run" /\ nbKind' = k /\ nbPlan' = Plan(k)
      /\ UNCHANGED <<nbCoreOk, nbSize, nbOut, ubBusy, ubMem, ubFile, ubStarted>>
  BY DEF NetbootStart
<1>2. ubBusy = "no" /\ nbOut = {} /\ nbSize = "none" /\ ~nbCoreOk /\ ~ubStarted /\ NetShape
  BY <1>1 DEF NetInv
<1>3. NetShape'
  BY <1>1, <1>2 DEF NetShape
<1>4. Plan(k) \in Seq(Stages) /\ 1 \in 1 .. Len(Plan(k))
  BY PlanTable DEF Kinds
<1>5. Left(k, 1) = Plan(k)
  BY <1>4 DEF Left
<1>6. AtStage(1)'
  BY <1>1, <1>2, <1>5 DEF AtStage, AtPlain, AtCore, AtLinux, Left, Marked
<1> QED
  BY <1>1, <1>2, <1>3, <1>4, <1>6 DEF NetInv

LEMMA TftpCommandKeeps ==
    ASSUME NetInv, TftpCommand
    PROVE  NetInv'
<1>1. /\ nbPc = "run" /\ nbPc' = "window" /\ Stage.do = "fetch"
      /\ UNCHANGED <<nbKind, nbPlan, nbCoreOk, nbSize, nbOut, ubFile, ubStarted>>
  BY DEF TftpCommand, Typed
<1>2. PICK i \in 1 .. Len(Plan(nbKind)) : AtStage(i)
  BY <1>1 DEF NetInv
<1>3. nbKind \in Kinds /\ ~ubStarted /\ NetShape
  BY <1>1 DEF NetInv
<1>4. Plan(nbKind)[i].do = "fetch" /\ Stage = Plan(nbKind)[i]
  BY <1>1, <1>2, <1>3, StageIs
<1>5. i \in Nat /\ Plan(nbKind)[i].region \in Regions
      /\ \/ i = 1 /\ Plan(nbKind)[i].region = "load"
         \/ nbKind = "core" /\ i = 3 /\ Plan(nbKind)[i].region = "core"
         \/ nbKind = "linux" /\ i = 3 /\ Plan(nbKind)[i].region = "initrd"
         \/ nbKind = "linux" /\ i = 5 /\ Plan(nbKind)[i].region = "dtb"
  BY <1>3, <1>4, StageTable DEF Regions
<1>6. CASE ubBusy = "no"
  <2> DEFINE r == Plan(nbKind)[i].region
  <2>1. r \in Regions /\ ubBusy' = r
    BY <1>4, <1>5, <1>6 DEF TftpCommand
  <2>2. ubMem' = [ubMem EXCEPT ![r] = IF ubMem[r] = "whole" THEN "whole" ELSE "part"]
    BY <1>3, <1>4, <1>6 DEF TftpCommand, NetShape
  <2>3. /\ ubMem' \in [Regions -> {"old", "part", "whole", "zero"}]
        /\ \A q \in Regions : q # r => ubMem'[q] = ubMem[q]
        /\ \A q \in Regions : ubMem[q] = "whole" => ubMem'[q] = "whole"
    BY <1>3, <2>1, <2>2, MemoryStep
  <2> HIDE DEF r
  <2>4. AtStage(i)'
    <3>1. {"load", "image", "core", "initrd", "dtb"} \subseteq Regions
      BY DEF Regions
    <3>2. nbKind = "plain" => AtPlain(i)'
      BY <1>1, <1>2, <1>5, <2>1, <2>3, <3>1 DEF AtStage, AtPlain
    <3>3. nbKind = "core" => AtCore(i)'
      BY <1>1, <1>2, <1>5, <2>1, <2>3, <3>1 DEF AtStage, AtCore, Marked, r
    <3>4. nbKind = "linux" => AtLinux(i)'
      BY <1>1, <1>2, <1>5, <2>1, <2>3, <3>1 DEF AtStage, AtLinux, Marked, r
    <3> QED
      BY <1>1, <1>2, <1>4, <2>3, <3>1, <3>2, <3>3, <3>4 DEF AtStage, Left
  <2> QED
    BY <1>1, <1>3, <2>1, <2>3, <2>4 DEF NetInv, NetShape
<1>7. CASE ubBusy # "no"
  <2>1. UNCHANGED <<ubBusy, ubMem>>
    BY <1>7 DEF TftpCommand
  <2>2. AtStage(i)'
    BY <1>1, <1>2, <1>4, <2>1 DEF AtStage, AtPlain, AtCore, AtLinux, Marked, Left
  <2> QED
    BY <1>1, <1>3, <2>1, <2>2 DEF NetInv, NetShape
<1> QED
  BY <1>6, <1>7

LEMMA TftpWindowKeeps ==
    ASSUME NetInv, TftpWindow
    PROVE  NetInv'
<1>1. /\ nbPc = "window" /\ nbOut' = {}
      /\ UNCHANGED <<nbKind, nbSize, ubBusy, ubMem, ubFile, ubStarted>>
  BY DEF TftpWindow
<1>2. PICK i \in 1 .. Len(Plan(nbKind)) : AtStage(i)
  BY <1>1 DEF NetInv
<1>3. nbKind \in Kinds /\ ~ubStarted /\ NetShape
  BY <1>1 DEF NetInv
<1>4. Plan(nbKind)[i].do = "fetch" /\ Stage = Plan(nbKind)[i]
  BY <1>1, <1>2, <1>3, StageIs DEF AtStage
<1>5. i \in Nat /\ i + 1 \in 1 .. Len(Plan(nbKind))
      /\ \/ i = 1 /\ Plan(nbKind)[i].region = "load"
         \/ nbKind = "core" /\ i = 3 /\ Plan(nbKind)[i].region = "core"
         \/ nbKind = "linux" /\ i = 3 /\ Plan(nbKind)[i].region = "initrd"
         \/ nbKind = "linux" /\ i = 5 /\ Plan(nbKind)[i].region = "dtb"
  BY <1>3, <1>4, StageTable
<1>6. NetShape'
  <2>1. nbPc' \in {"run", "abort"}
    BY <1>1 DEF TftpWindow, Advance
  <2> QED
    BY <1>1, <1>3, <2>1 DEF NetShape
<1>7. CASE Marked
  <2>1. Advance /\ nbCoreOk' = (nbCoreOk \/ Stage.region = "core")
    BY <1>7 DEF TftpWindow, Marked, Transferred
  <2>2. nbPc' = "run" /\ nbPlan' = Left(nbKind, i + 1)
    BY <1>2, <1>3, <2>1, StageIs
  <2>3. nbKind = "plain" => AtPlain(i + 1)'
    BY <1>5 DEF AtPlain
  <2>4. nbKind = "core" => AtCore(i + 1)'
    <3>1. nbCoreOk' => nbCoreOk \/ Plan(nbKind)[i].region = "core"
      BY <1>4, <2>1
    <3>2. nbKind = "core" => (nbCoreOk \/ i = 3 => ubMem["core"] = "whole")
      BY <1>2, <1>7 DEF AtStage, AtCore
    <3>3. nbKind = "core" => (nbCoreOk' => ubMem'["core"] = "whole") /\ i + 1 # 3
      BY <1>1, <1>5, <3>1, <3>2
    <3> QED
      BY <3>3 DEF AtCore
  <2>5. nbKind = "linux" => AtLinux(i + 1)'
    <3>1. CASE nbKind = "linux" /\ i = 1
      BY <1>1, <1>2, <1>5, <3>1 DEF AtStage, AtLinux, Marked
    <3>2. CASE nbKind = "linux" /\ i = 3
      BY <1>1, <1>2, <1>5, <1>7, <3>2 DEF AtStage, AtLinux, Marked
    <3>3. CASE nbKind = "linux" /\ i = 5
      BY <1>1, <1>2, <1>5, <1>7, <3>3 DEF AtStage, AtLinux, Marked
    <3> QED
      BY <1>5, <3>1, <3>2, <3>3
  <2>6. i + 1 >= 3 => ubMem'["image"] = "whole"
    BY <1>1, <1>2, <1>5 DEF AtStage
  <2>7. AtStage(i + 1)'
    BY <1>1, <2>2, <2>3, <2>4, <2>5, <2>6 DEF AtStage, Left
  <2> QED
    BY <1>1, <1>3, <1>5, <1>6, <2>2, <2>7 DEF NetInv
<1>8. CASE ~Marked
  <2>1. nbPc' = "abort" /\ UNCHANGED <<nbPlan, nbCoreOk>>
    BY <1>8 DEF TftpWindow, Marked, Transferred
  <2>2. AtStage(i)'
    BY <1>1, <1>2, <1>4, <2>1 DEF AtStage, AtPlain, AtCore, AtLinux, Marked, Left
  <2> QED
    BY <1>1, <1>3, <1>6, <2>1, <2>2 DEF NetInv
<1> QED
  BY <1>7, <1>8

LEMMA TftpAbortKeeps ==
    ASSUME NetInv, TftpAbort
    PROVE  NetInv'
<1>1. /\ nbPc = "abort" /\ nbOut' = {} /\ ubBusy' \in {"no", ubBusy}
      /\ UNCHANGED <<nbKind, nbCoreOk, nbSize, ubMem, ubFile, ubStarted>>
  BY DEF TftpAbort
<1>2. PICK i \in 1 .. Len(Plan(nbKind)) : AtStage(i)
  BY <1>1 DEF NetInv
<1>3. nbKind \in Kinds /\ ~ubStarted /\ NetShape
  BY <1>1 DEF NetInv
<1>4. Plan(nbKind)[i].do = "fetch" /\ Stage = Plan(nbKind)[i]
  BY <1>1, <1>2, <1>3, StageIs DEF AtStage
<1>5. i \in Nat /\ i + 1 \in 1 .. Len(Plan(nbKind))
      /\ (Plan(nbKind)[i].region = "core" => nbKind = "core" /\ i = 3)
  BY <1>3, <1>4, StageTable
<1>6. \/ nbPc' = "run" /\ UNCHANGED nbPlan
      \/ nbPc' = "done"
      \/ Stage.region = "core" /\ Advance
  BY DEF TftpAbort, OutOfTries, NetbootFinish
<1>7. NetShape'
  BY <1>1, <1>3, <1>6 DEF NetShape, Advance
<1>8. CASE nbPc' = "run" /\ UNCHANGED nbPlan
  <2>1. AtStage(i)'
    <3>1. nbKind = "plain" => AtPlain(i)'
      BY <1>1, <1>2 DEF AtStage, AtPlain
    <3>2. nbKind = "core" => AtCore(i)'
      BY <1>1, <1>2 DEF AtStage, AtCore, Marked
    <3>3. nbKind = "linux" => AtLinux(i)'
      BY <1>1, <1>2 DEF AtStage, AtLinux, Marked
    <3> QED
      BY <1>1, <1>2, <1>8, <3>1, <3>2, <3>3 DEF AtStage, Left
  <2> QED
    BY <1>1, <1>3, <1>7, <1>8, <2>1 DEF NetInv
<1>9. CASE nbPc' = "done"
  BY <1>1, <1>3, <1>7, <1>9 DEF NetInv
<1>10. CASE Stage.region = "core" /\ Advance
  <2>1. nbPc' = "run" /\ nbPlan' = Left(nbKind, i + 1) /\ nbKind = "core" /\ i = 3
    BY <1>2, <1>3, <1>4, <1>5, <1>10, StageIs
  <2>2. AtStage(i + 1)'
    BY <1>1, <1>2, <2>1 DEF AtStage, AtCore, Left
  <2> QED
    BY <1>1, <1>3, <1>5, <1>7, <2>1, <2>2 DEF NetInv
<1> QED
  BY <1>6, <1>8, <1>9, <1>10

\* unzip, clear, filesize: the stages that type one command.
LEMMA UnzipKeeps ==
    ASSUME NetInv, Unzip
    PROVE  NetInv'
<1>1. /\ nbPc = "run" /\ Stage.do = "unzip" /\ nbOut' = {}
      /\ UNCHANGED <<nbKind, nbCoreOk, nbSize, ubBusy, ubFile, ubStarted>>
  BY DEF Unzip, Typed
<1>2. PICK i \in 1 .. Len(Plan(nbKind)) : AtStage(i)
  BY <1>1 DEF NetInv
<1>3. nbKind \in Kinds /\ ~ubStarted /\ NetShape
  BY <1>1 DEF NetInv
<1>4. i = 2 /\ i + 1 \in 1 .. Len(Plan(nbKind))
  BY <1>1, <1>2, <1>3, StageIs, StageTable
<1>5. CASE UnzipWorks
  <2>1. Advance /\ ubBusy = "no" /\ ubMem' = [ubMem EXCEPT !["image"] = "whole"]
    BY <1>5 DEF Unzip, UnzipWorks
  <2>2. nbPc' = "run" /\ nbPlan' = Left(nbKind, 3) /\ 3 \in 1 .. Len(Plan(nbKind))
    BY <1>2, <1>3, <1>4, <2>1, StageIs
  <2>3. /\ ubMem' \in [Regions -> {"old", "part", "whole", "zero"}]
        /\ ubMem'["image"] = "whole" /\ ubMem'["core"] = ubMem["core"]
    BY <1>3, <2>1 DEF NetShape, Regions
  <2>4. AtPlain(3)'
    BY <1>1, <2>1 DEF AtPlain
  <2>5. nbKind = "core" => AtCore(3)'
    BY <1>1, <1>2, <2>1, <2>3 DEF AtStage, AtCore, Marked
  <2>6. nbKind = "linux" => AtLinux(3)'
    BY <1>1, <1>2, <1>4, <2>1 DEF AtStage, AtLinux, Marked
  <2>7. AtStage(3)'
    BY <1>1, <2>2, <2>3, <2>4, <2>5, <2>6 DEF AtStage, Left
  <2> QED
    BY <1>1, <1>3, <2>2, <2>3, <2>7 DEF NetInv, NetShape
<1>6. CASE ~UnzipWorks
  <2>1. nbPc' = "done" /\ UNCHANGED ubMem
    BY <1>6 DEF Unzip, NetbootFinish
  <2> QED
    BY <1>1, <1>3, <2>1 DEF NetInv, NetShape
<1> QED
  BY <1>5, <1>6

LEMMA ClearCoreKeeps ==
    ASSUME NetInv, ClearCore
    PROVE  NetInv'
<1>1. /\ nbPc = "run" /\ Stage.do = "clear" /\ nbOut' = {} /\ Advance
      /\ UNCHANGED <<nbKind, nbCoreOk, nbSize, ubBusy, ubFile, ubStarted>>
  BY DEF ClearCore, Typed
<1>2. PICK i \in 1 .. Len(Plan(nbKind)) : AtStage(i)
  BY <1>1 DEF NetInv
<1>3. nbKind \in Kinds /\ ~ubStarted /\ NetShape
  BY <1>1 DEF NetInv
<1>4. nbKind = "plain" /\ i = 3 /\ i + 1 \in 1 .. Len(Plan(nbKind))
  BY <1>1, <1>2, <1>3, StageIs, StageTable
<1>5. nbPc' = "run" /\ nbPlan' = Left(nbKind, 4) /\ 4 \in 1 .. Len(Plan(nbKind))
  BY <1>1, <1>2, <1>3, <1>4, StageIs
<1>6. ubBusy = "no" /\ ubMem["image"] = "whole"
  BY <1>2, <1>4 DEF AtStage, AtPlain
<1>7. ubMem' = [ubMem EXCEPT !["core"] = "zero"]
  BY <1>6 DEF ClearCore
<1>8. /\ ubMem' \in [Regions -> {"old", "part", "whole", "zero"}]
      /\ ubMem'["image"] = "whole" /\ ubMem'["core"] = "zero"
  BY <1>3, <1>6, <1>7 DEF NetShape, Regions
<1>9. AtStage(4)'
  BY <1>1, <1>4, <1>5, <1>6, <1>8 DEF AtStage, AtPlain, Left
<1> QED
  BY <1>1, <1>3, <1>5, <1>8, <1>9 DEF NetInv, NetShape

LEMMA ReadFilesizeKeeps ==
    ASSUME NetInv, ReadFilesize
    PROVE  NetInv'
<1>1. /\ nbPc = "run" /\ Stage.do = "filesize" /\ nbOut' = {} /\ Advance
      /\ UNCHANGED <<nbKind, nbCoreOk, ubBusy, ubMem, ubFile, ubStarted>>
      /\ nbSize' = IF ubBusy = "no" THEN ubFile ELSE "none"
  BY DEF ReadFilesize, Typed
<1>2. PICK i \in 1 .. Len(Plan(nbKind)) : AtStage(i)
  BY <1>1 DEF NetInv
<1>3. nbKind \in Kinds /\ ~ubStarted /\ NetShape
  BY <1>1 DEF NetInv
<1>4. nbKind = "linux" /\ i = 4 /\ i + 1 \in 1 .. Len(Plan(nbKind))
  BY <1>1, <1>2, <1>3, StageIs, StageTable
<1>5. nbPc' = "run" /\ nbPlan' = Left(nbKind, 5) /\ 5 \in 1 .. Len(Plan(nbKind))
  BY <1>1, <1>2, <1>3, <1>4, StageIs
<1>6. /\ ubMem["image"] = "whole" /\ ubMem["initrd"] = "whole" /\ ubFile = "initrd"
      /\ ubBusy \in {"no", "initrd"}
  BY <1>2, <1>4 DEF AtStage, AtLinux
<1>7. AtLinux(5)'
  BY <1>1, <1>6 DEF AtLinux, Marked
<1>8. AtStage(5)'
  BY <1>1, <1>4, <1>5, <1>6, <1>7 DEF AtStage, Left
<1> QED
  BY <1>1, <1>3, <1>5, <1>8 DEF NetInv, NetShape

LEMMA GoKeeps ==
    ASSUME NetInv, Go
    PROVE  NetInv'
<1>1. /\ nbPc = "run" /\ Stage.do = "go" /\ nbPc' = "done"
      /\ ubStarted' = (ubBusy = "no" /\ (nbKind = "linux" => nbSize # "none"))
      /\ UNCHANGED <<nbKind, nbCoreOk, nbSize, ubBusy, ubMem>>
  BY DEF Go, Typed, NetbootFinish
<1>2. PICK i \in 1 .. Len(Plan(nbKind)) : AtStage(i)
  BY <1>1 DEF NetInv
<1>3. nbKind \in Kinds /\ NetShape
  BY <1>1 DEF NetInv
<1>4. i = IF nbKind = "linux" THEN 6 ELSE 4
  BY <1>1, <1>2, <1>3, StageIs, StageTable
<1>5. NetShape'
  BY <1>1, <1>3 DEF NetShape
<1>6. ubStarted' => StartsWholeImage'
  <2>1. ubMem["image"] = "whole"
    BY <1>2, <1>4 DEF AtStage
  <2>2. nbKind = "linux" /\ ubStarted' => nbSize # "none" /\ i = 6
    BY <1>1, <1>4
  <2>3. nbKind = "linux" /\ ubStarted' =>
          nbSize = "initrd" /\ ubMem["initrd"] = "whole" /\ ubMem["dtb"] = "whole"
    BY <1>2, <2>2 DEF AtStage, AtLinux
  <2> QED
    BY <1>1, <2>1, <2>3 DEF StartsWholeImage
<1>7. ubStarted' => CoreAsReported'
  BY <1>1, <1>2, <1>4 DEF AtStage, AtPlain, AtCore, CoreAsReported
<1> QED
  BY <1>1, <1>5, <1>6, <1>7 DEF NetInv

LEMMA TransferDoneKeeps ==
    ASSUME NetInv, TransferDone
    PROVE  NetInv'
<1>1. /\ ubBusy # "no" /\ ubBusy' = "no" /\ ubFile' = ubBusy
      /\ ubMem' = [ubMem EXCEPT ![ubBusy] = "whole"]
      /\ UNCHANGED <<nbPc, nbKind, nbPlan, nbCoreOk, nbSize, ubStarted>>
  BY DEF TransferDone, nbScript
<1>2. NetShape /\ ~ubStarted /\ nbPc # "idle" /\ ubBusy \in Regions
  BY <1>1 DEF NetInv, NetShape
<1>3. /\ ubMem' \in [Regions -> {"old", "part", "whole", "zero"}]
      /\ ubMem'[ubBusy] = "whole"
      /\ \A q \in Regions : q # ubBusy => ubMem'[q] = ubMem[q]
      /\ \A q \in Regions : ubMem[q] = "whole" => ubMem'[q] = "whole"
  BY <1>1, <1>2, MemoryStep
<1>4. NetShape'
  BY <1>1, <1>2, <1>3 DEF NetShape
<1>5. {"load", "image", "core", "initrd", "dtb"} \subseteq Regions
  BY DEF Regions
<1>6. ASSUME nbPc \in {"run", "window", "abort"}
      PROVE  nbKind \in Kinds /\ \E i \in 1 .. Len(Plan(nbKind)) : AtStage(i)'
  <2>1. PICK i \in 1 .. Len(Plan(nbKind)) : AtStage(i)
    BY <1>6 DEF NetInv
  <2>2. nbKind \in Kinds
    BY <1>6 DEF NetInv
  <2>3. i \in Nat
    BY <2>2, StageTable
  <2>4. nbKind = "plain" => AtPlain(i)'
    BY <1>1, <1>3, <1>5, <2>1, <2>3 DEF AtStage, AtPlain
  <2>5. nbKind = "core" => AtCore(i)'
    BY <1>1, <1>3, <1>5, <2>1, <2>3 DEF AtStage, AtCore
  <2>6. nbKind = "linux" => AtLinux(i)'
    <3>1. CASE nbKind = "linux" /\ i < 3
      BY <1>1, <2>1, <2>3, <3>1 DEF AtStage, AtLinux
    <3>2. CASE nbKind = "linux" /\ i \in {3, 4}
      BY <1>1, <1>3, <1>5, <2>1, <2>3, <3>2 DEF AtStage, AtLinux
    <3>3. CASE nbKind = "linux" /\ i > 4
      BY <1>1, <1>3, <1>5, <2>1, <2>3, <3>3 DEF AtStage, AtLinux
    <3> QED
      BY <2>3, <3>1, <3>2, <3>3
  <2>7. AtStage(i)'
    BY <1>1, <1>3, <1>5, <2>1, <2>4, <2>5, <2>6 DEF AtStage, Left
  <2> QED
    BY <2>2, <2>7
<1> QED
  BY <1>1, <1>2, <1>4, <1>6 DEF NetInv

LEMMA TransferFailsKeeps ==
    ASSUME NetInv, TransferFails
    PROVE  NetInv'
<1>1. /\ ubBusy # "no" /\ ubBusy' \in {"no", ubBusy} /\ (Marked' => Marked)
      /\ UNCHANGED <<nbPc, nbKind, nbPlan, nbCoreOk, nbSize, ubStarted, ubMem, ubFile>>
  BY DEF TransferFails, nbScript, Marked
<1>2. NetShape /\ ~ubStarted /\ nbPc # "idle"
  BY <1>1 DEF NetInv
<1>3. NetShape'
  BY <1>1, <1>2 DEF NetShape
<1>4. ASSUME nbPc \in {"run", "window", "abort"}
      PROVE  nbKind \in Kinds /\ \E i \in 1 .. Len(Plan(nbKind)) : AtStage(i)'
  <2>1. PICK i \in 1 .. Len(Plan(nbKind)) : AtStage(i)
    BY <1>4 DEF NetInv
  <2>2. nbKind = "plain" => AtPlain(i)'
    BY <1>1, <2>1 DEF AtStage, AtPlain
  <2>3. nbKind = "core" => AtCore(i)'
    BY <1>1, <2>1 DEF AtStage, AtCore
  <2>4. nbKind = "linux" => AtLinux(i)'
    BY <1>1, <2>1 DEF AtStage, AtLinux
  <2>5. AtStage(i)'
    BY <1>1, <2>1, <2>2, <2>3, <2>4 DEF AtStage, Left
  <2> QED
    BY <1>4, <2>5 DEF NetInv
<1> QED
  BY <1>1, <1>2, <1>3, <1>4 DEF NetInv

LEMMA NetbootStutters ==
    ASSUME NetInv, UNCHANGED nbVars
    PROVE  NetInv'
<1>1. UNCHANGED <<nbPc, nbKind, nbPlan, nbCoreOk, nbSize, nbOut, ubBusy, ubMem, ubFile, ubStarted>>
  BY DEF nbVars, nbScript
<1> QED
  BY <1>1 DEF NetInv, NetShape, AtStage, AtPlain, AtCore, AtLinux, Marked, Left,
              StartsWholeImage, CoreAsReported

LEMMA NetbootStep ==
    ASSUME NetInv, [NetbootNext]_nbVars
    PROVE  NetInv'
<1>1. CASE \E k \in Kinds : NetbootStart(k)
  BY <1>1, NetbootStartKeeps
<1>2. CASE TftpCommand \/ TftpWindow \/ TftpAbort
  BY <1>2, TftpCommandKeeps, TftpWindowKeeps, TftpAbortKeeps
<1>3. CASE Unzip \/ ClearCore \/ ReadFilesize \/ Go
  BY <1>3, UnzipKeeps, ClearCoreKeeps, ReadFilesizeKeeps, GoKeeps
<1>4. CASE TransferDone \/ TransferFails
  BY <1>4, TransferDoneKeeps, TransferFailsKeeps
<1>5. CASE UNCHANGED nbVars
  BY <1>5, NetbootStutters
<1> QED
  BY <1>1, <1>2, <1>3, <1>4, <1>5 DEF NetbootNext, NetbootScript, Kinds

LEMMA NetbootHolds == NetbootSpec => []NetInv
<1>1. NetbootInit => NetInv
  BY DEF NetbootInit, NetInv, NetShape
<1>2. NetInv /\ [NetbootNext]_nbVars => NetInv'
  BY NetbootStep
<1> QED
  BY <1>1, <1>2, PTL DEF NetbootSpec

\* netboot-core-gz.py and netboot-linux.py, for any number of tries and
\* whatever the transfers do: what is started is a whole image, and for Linux
\* a whole initramfs and device tree with the initramfs's own size.
THEOREM WholeImageStarts == NetbootSpec => []StartsWholeImage
<1>1. NetInv => StartsWholeImage
  BY DEF NetInv, StartsWholeImage
<1> QED
  BY <1>1, NetbootHolds, PTL

\* The same scripts: a boot without --core finds the core's magic word
\* cleared, and a printed ok=True means that the core is whole.
THEOREM CoreOkIsTrue == NetbootSpec => []CoreAsReported
<1>1. NetInv => CoreAsReported
  BY DEF NetInv, CoreAsReported
<1> QED
  BY <1>1, NetbootHolds, PTL

\* What is left of NetbootTypeOK once NetInv holds.
LEMMA NetbootTypedStep ==
    ASSUME NetInv, NetbootTypeOK, [NetbootNext]_nbVars
    PROVE  NetbootTypeOK'
<1>1. nbPc' \in {"idle", "run", "window", "abort", "done"}
      /\ ubMem' \in [Regions -> {"old", "part", "whole", "zero"}]
      /\ ubBusy' \in {"no"} \cup Regions
  BY NetbootStep DEF NetInv, NetShape
<1> DEFINE Tries == 0 .. TftpTries \cup 0 .. CoreTries
           Rest == /\ nbTry \in Tries /\ nbCoreOk \in BOOLEAN
                   /\ nbSize \in {"none"} \cup Regions /\ nbExit \in {-1, 0, 2, 3}
                   /\ nbOut \subseteq {"transferred", "retry"}
                   /\ ubFile \in {"none"} \cup Regions
<1>2. Rest
  BY DEF NetbootTypeOK
<1>3. \A r : TriesOf(r) \in Tries /\ 0 \in Tries
  BY NetbootAssumption DEF NetbootAssumption, TriesOf
<1>4. Advance => nbTry' \in Tries
  BY <1>3 DEF Advance
<1>5. ubBusy \in {"no"} \cup Regions
  BY DEF NetbootTypeOK
<1>6. Rest'
  <2>1. CASE \E kind \in {"plain", "core", "linux"} : NetbootStart(kind)
    BY <1>2, <1>3, <2>1 DEF NetbootStart
  <2>2. CASE TftpCommand
    BY <1>2, <2>2 DEF TftpCommand
  <2>3. CASE TftpWindow
    <3>1. CASE Transferred(nbOut)
      BY <1>2, <1>4, <2>3, <3>1 DEF TftpWindow
    <3>2. CASE ~Transferred(nbOut)
      BY <1>2, <2>3, <3>2 DEF TftpWindow
    <3> QED
      BY <3>1, <3>2
  <2>4. CASE TftpAbort
    <3>1. nbTry' \in Tries
      <4>1. CASE TriesLeft > 0
        BY <1>2, <2>4, <4>1, NetbootAssumption DEF TftpAbort, TriesLeft, NetbootAssumption
      <4>2. CASE ~(TriesLeft > 0)
        BY <1>2, <1>4, <2>4, <4>2 DEF TftpAbort, OutOfTries
      <4> QED
        BY <4>1, <4>2
    <3>2. nbExit' \in {-1, 0, 2, 3}
      BY <1>2, <2>4 DEF TftpAbort, OutOfTries, NetbootFinish
    <3> QED
      BY <1>2, <2>4, <3>1, <3>2 DEF TftpAbort
  <2>5. CASE Unzip
    BY <1>2, <1>4, <2>5 DEF Unzip, NetbootFinish
  <2>6. CASE ClearCore
    BY <1>2, <1>4, <2>6 DEF ClearCore
  <2>7. CASE ReadFilesize
    BY <1>2, <1>4, <2>7 DEF ReadFilesize
  <2>8. CASE Go
    BY <1>2, <2>8 DEF Go, NetbootFinish
  <2>9. CASE TransferDone
    BY <1>2, <1>5, <2>9 DEF TransferDone, nbScript
  <2>10. CASE TransferFails
    BY <1>2, <2>10 DEF TransferFails, nbScript
  <2>11. CASE UNCHANGED nbVars
    BY <1>2, <2>11 DEF nbVars, nbScript
  <2> QED
    BY <2>1, <2>2, <2>3, <2>4, <2>5, <2>6, <2>7, <2>8, <2>9, <2>10, <2>11
       DEF NetbootNext, NetbootScript
<1> QED
  BY <1>1, <1>6 DEF NetbootTypeOK

\* The netboot scripts and U-Boot, for any number of tries: the state keeps its
\* shape and no transfer is tried beyond its tries.
LEMMA NetbootTyped == NetbootSpec => []NetbootTypeOK
<1>1. NetbootInit => NetbootTypeOK
  <2>1. 0 \in 0 .. TftpTries
    BY NetbootAssumption DEF NetbootAssumption
  <2>2. "none" \in {"none"} \cup Regions /\ "no" \in {"no"} \cup Regions
    OBVIOUS
  <2>3. [r \in Regions |-> "old"] \in [Regions -> {"old", "part", "whole", "zero"}]
    OBVIOUS
  <2> QED
    BY <2>1, <2>2, <2>3 DEF NetbootInit, NetbootTypeOK
<1>2. NetInv /\ NetbootTypeOK /\ [NetbootNext]_nbVars => NetbootTypeOK'
  BY NetbootTypedStep
<1> QED
  BY <1>1, <1>2, NetbootHolds, PTL DEF NetbootSpec

-----------------------------------------------------------------------------
(* board-video.py.  Over the serial line: the query waited for carries the  *)
(* latest tag, so a line or an answer with that tag is of the step the      *)
(* session is at, and an answer to (jit-eager) means that it was evaluated. *)

Lines == [tag : Nat, form : SerialSteps \cup {"sshboot"}]

SerialInv ==
    /\ rpQueue \in Seq(Lines) /\ rpOut \in Seq(Lines)
    /\ bvTag \in Nat
    /\ \A x \in Members(rpQueue) \cup Members(rpOut) : x.tag <= bvTag
    /\ bvWait = "serial" =>
         /\ bvPc \in SerialSteps /\ bvTag > 0
         /\ \A x \in Members(rpQueue) \cup Members(rpOut) : x.tag = bvTag => x.form = bvPc
    /\ \A x \in Members(rpOut) : x.form = "eager" => bdLinked
    /\ RelinkReported

\* A step that types nothing and prints nothing, and leaves no query behind.
LEMMA SerialQuiet ==
    ASSUME SerialInv, UNCHANGED <<rpQueue, rpOut, bvTag, bvTook>>,
           bdLinked => bdLinked', bvWait' = "serial" => bvWait = "serial" /\ bvPc' = bvPc
    PROVE  SerialInv'
BY DEF SerialInv, RelinkReported

LEMMA sqKeeps ==
    ASSUME SerialInv, sq
    PROVE  SerialInv'
<1> DEFINE line == [tag |-> bvTag + 1, form |-> bvPc]
<1>1. /\ bvPc \in SerialSteps /\ bvTag' = bvTag + 1 /\ rpOut' = <<>>
      /\ rpQueue' = Append(rpQueue, line) /\ UNCHANGED <<bvPc, bvTook, bdLinked>>
  BY DEF sq
<1>2. bvTag \in Nat /\ line \in Lines
  BY <1>1 DEF SerialInv, Lines
<1>3. rpQueue' \in Seq(Lines) /\ Members(rpQueue') = Members(rpQueue) \cup {line}
  BY <1>1, <1>2, MembersAppend DEF SerialInv
<1>4. Members(rpOut') = {} /\ rpOut' \in Seq(Lines)
  BY <1>1, MembersEmpty
<1>5. \A x \in Members(rpQueue) : x.tag \in Nat /\ x.tag <= bvTag
  <2>1. ASSUME NEW x \in Members(rpQueue) PROVE x \in Lines
    BY <2>1 DEF Members, SerialInv
  <2> QED
    BY <2>1 DEF SerialInv, Lines
<1>6. line.tag = bvTag + 1 /\ line.form = bvPc
  OBVIOUS
<1> HIDE DEF line
<1>7. \A x \in Members(rpQueue') \cup Members(rpOut') :
         x.tag <= bvTag' /\ (x.tag = bvTag' => x.form = bvPc')
  BY <1>1, <1>2, <1>3, <1>4, <1>5, <1>6
<1> QED
  BY <1>1, <1>2, <1>3, <1>4, <1>7 DEF SerialInv, RelinkReported

LEMMA SerialAnswerKeeps ==
    ASSUME SerialInv, SerialAnswer
    PROVE  SerialInv'
<1>1. /\ bvWait = "serial" /\ bvTook' = bvTook \cup {bvPc} /\ rpOut' = <<>>
      /\ UNCHANGED <<bvTag, rpQueue, bdLinked>> /\ bvWait' = "no"
  BY DEF SerialAnswer, AfterSerial
<1>2. PICK i \in 1 .. Len(rpOut) : rpOut[i].tag = bvTag
  BY DEF SerialAnswer, MyTag
<1>3. rpOut[i] \in Members(rpOut)
  BY DEF SerialInv, Members
<1>4. bvPc = "eager" => bdLinked
  BY <1>1, <1>2, <1>3 DEF SerialInv
<1>5. Members(rpOut') = {} /\ rpOut' \in Seq(Lines)
  BY <1>1, MembersEmpty
<1>6. RelinkReported'
  BY <1>1, <1>4 DEF SerialInv, RelinkReported
<1> QED
  BY <1>1, <1>5, <1>6 DEF SerialInv

LEMMA TypeSshBootKeeps ==
    ASSUME SerialInv, TypeSshBoot
    PROVE  SerialInv'
<1> DEFINE line == [tag |-> 0, form |-> "sshboot"]
<1>1. /\ bvPc = "sshboot" /\ rpQueue' = Append(rpQueue, line)
      /\ UNCHANGED <<bvTag, bvTook, bvWait, rpOut, bdLinked>>
  BY DEF TypeSshBoot
<1>2. line \in Lines /\ line.tag = 0
  BY DEF Lines
<1>3. rpQueue' \in Seq(Lines) /\ Members(rpQueue') = Members(rpQueue) \cup {line}
  BY <1>1, <1>2, MembersAppend DEF SerialInv
<1> HIDE DEF line
<1>4. bvWait # "serial"
  BY <1>1 DEF SerialInv, SerialSteps
<1> QED
  BY <1>1, <1>2, <1>3, <1>4 DEF SerialInv, RelinkReported

LEMMA ReplEvaluatesKeeps ==
    ASSUME SerialInv, ReplEvaluates
    PROVE  SerialInv'
<1> DEFINE line == Head(rpQueue)
<1>1. /\ rpQueue # <<>> /\ rpQueue' = Tail(rpQueue)
      /\ bdLinked' = (bdLinked \/ line.form = "eager")
      /\ rpOut' = IF line.form = "sshboot" THEN rpOut ELSE Append(rpOut, line)
      /\ UNCHANGED <<bvTag, bvTook, bvWait, bvPc>>
  BY DEF ReplEvaluates, bvHost
<1>2. /\ rpQueue' \in Seq(Lines) /\ Members(rpQueue') \subseteq Members(rpQueue)
      /\ line \in Members(rpQueue) /\ line \in Lines
  BY <1>1, MembersTail DEF SerialInv
<1>3. rpOut' \in Seq(Lines) /\ Members(rpOut') \subseteq Members(rpOut) \cup {line}
  BY <1>1, <1>2, MembersAppend DEF SerialInv
<1> HIDE DEF line
<1>4. \A x \in Members(rpQueue') \cup Members(rpOut') : x \in Members(rpQueue) \cup Members(rpOut)
  BY <1>2, <1>3
<1>5. \A x \in Members(rpOut') : x.form = "eager" => bdLinked'
  BY <1>1, <1>3 DEF SerialInv
<1>6. RelinkReported'
  BY <1>1 DEF SerialInv, RelinkReported
<1> QED
  BY <1>1, <1>2, <1>3, <1>4, <1>5, <1>6 DEF SerialInv

LEMMA ReplReportsKeeps ==
    ASSUME SerialInv, ReplReports
    PROVE  SerialInv'
<1>1. /\ rpQueue # <<>> /\ rpQueue' = Tail(rpQueue)
      /\ UNCHANGED <<bvTag, bvTook, bvWait, bvPc, rpOut, bdLinked>>
  BY DEF ReplReports, bvHost
<1>2. rpQueue' \in Seq(Lines) /\ Members(rpQueue') \subseteq Members(rpQueue)
  BY <1>1, MembersTail DEF SerialInv
<1> QED
  BY <1>1, <1>2 DEF SerialInv, RelinkReported

LEMMA ReplLosesLineKeeps ==
    ASSUME SerialInv, ReplLosesLine
    PROVE  SerialInv'
<1>1. /\ Len(rpQueue) > 1 /\ rpQueue' = SubSeq(rpQueue, 1, Len(rpQueue) - 1)
      /\ UNCHANGED <<bvTag, bvTook, bvWait, bvPc, rpOut, bdLinked>>
  BY DEF ReplLosesLine, bvHost
<1>2. rpQueue' \in Seq(Lines) /\ Members(rpQueue') \subseteq Members(rpQueue)
  BY <1>1, MembersFront DEF SerialInv
<1> QED
  BY <1>1, <1>2 DEF SerialInv, RelinkReported

LEMMA SerialStep ==
    ASSUME SerialInv, VideoNext \/ UNCHANGED bvVars
    PROVE  SerialInv'
<1>1. CASE VideoNetboots \/ VideoNoBoot \/ VideoNetbooted
  <2>1. bvPc \in {"idle", "netboot"} /\ UNCHANGED <<rpQueue, rpOut, bvTag, bvTook, bvWait>>
    BY <1>1 DEF VideoNetboots, VideoNoBoot, VideoNetbooted, bvBoard
  <2>2. bvWait # "serial"
    BY <2>1 DEF SerialInv, SerialSteps
  <2>3. bdLinked => bdLinked'
    BY <1>1 DEF VideoNetboots, VideoNoBoot, VideoNetbooted, bvBoard
  <2> QED
    BY <2>1, <2>2, <2>3, SerialQuiet
<1>2. CASE SerialTimeout
  BY <1>2, SerialQuiet DEF SerialTimeout, AfterSerial, bvBoard
<1>3. CASE run \/ RunAttemptFails \/ SshServes
  <2>1. bvWait' # "serial" /\ UNCHANGED <<rpQueue, rpOut, bvTag, bvTook, bdLinked>>
    BY <1>3 DEF run, RunAttemptFails, SshServes, bvBoard
  <2> QED
    BY <2>1, SerialQuiet
<1>4. CASE SshFormEnds
  <2>1. /\ UNCHANGED <<rpQueue, rpOut, bvTag, bvTook, bdLinked>>
        /\ bvWait' = "no" \/ UNCHANGED <<bvWait, bvPc>>
    BY <1>4 DEF SshFormEnds
  <2> QED
    BY <2>1, SerialQuiet
<1>5. CASE UNCHANGED bvVars
  BY <1>5, SerialQuiet DEF bvVars, bvHost, bvBoard
<1> QED
  BY <1>1, <1>2, <1>3, <1>4, <1>5, sqKeeps, SerialAnswerKeeps, TypeSshBootKeeps,
     ReplEvaluatesKeeps, ReplReportsKeeps, ReplLosesLineKeeps DEF VideoNext, VideoHost

\* board-video.py, for any number of probes: an answer logged for (jit-eager)
\* means that the restored core was re-linked, whatever lines were lost and
\* whatever answers of timed-out queries came later.
THEOREM RelinkIsReal == VideoSpec => []RelinkReported
<1>1. VideoInit => SerialInv
  BY MembersEmpty DEF VideoInit, SerialInv, RelinkReported
<1>2. SerialInv /\ [VideoNext \/ (NetbootNext /\ UNCHANGED bvVars)]_<<nbVars, bvVars>>
        => SerialInv'
  BY SerialStep
<1>3. SerialInv => RelinkReported
  BY DEF SerialInv
<1> QED
  BY <1>1, <1>2, <1>3, PTL DEF VideoSpec

-----------------------------------------------------------------------------
(* Over SSH: a client that is being served is the one the board evaluates   *)
(* for, and from the load that was answered until the play is done the      *)
(* board has no other form to finish than that clip's play.                 *)

PlayForm(c) == [step |-> "play", clip |-> c]

\* The player holds clip c, unless a load of it failed.
Ready(c) == bdLoaded = Clips[c] \/ Clips[c] \in bdFailed

ClipInv ==
    /\ bvPc \in {"load", "play"} => bdInit
    /\ bvPc = "play" => Ready(bvClip) /\ bdForm \in {NoForm, PlayForm(bvClip)}
    /\ bdForm.step = "play" => Ready(bdForm.clip) /\ bdInit
    /\ bvWait = "served" => bdForm = [step |-> bvPc, clip |-> bvClip]
    /\ bvWait \in {"open", "served"} => bvPc \in SshSteps
    /\ PlaysTheAskedClip

\* A step that leaves the board's player alone and does not reach load or play.
LEMMA ClipQuiet ==
    ASSUME ClipInv, UNCHANGED <<bdForm, bdInit, bdLoaded, bdFailed, bdPlays>>,
           bvPc' \notin {"load", "play"}, bvWait' \notin {"open", "served"}
    PROVE  ClipInv'
BY DEF ClipInv, Ready, PlaysTheAskedClip

\* Where the session goes after a form: to a load whose clip's form is not yet
\* sent, to a play only from that clip's load, or to its end.
LEMMA AfterRunGoes ==
    ASSUME NEW answered \in BOOLEAN, bvPc \in SshSteps, AfterRun(answered)
    PROVE  \/ bvPc' \notin {"load", "play"}
           \/ bvPc' = "load" /\ ((bvPc = "init" /\ answered) \/ bvPc \in {"load", "play"})
           \/ bvPc' = "play" /\ bvPc = "load" /\ answered /\ bvClip' = bvClip
<1>1. NextClip => bvPc' \in {"load", "done"}
  BY DEF NextClip, Goto, VideoFinish
<1>2. CASE bvPc = "up"
  BY <1>2 DEF AfterRun, Goto
<1>3. CASE bvPc = "push"
  BY <1>3 DEF AfterRun, Goto
<1>4. CASE bvPc = "init"
  <2>1. AfterInit(answered)
    BY <1>4 DEF AfterRun
  <2> QED
    BY <1>1, <1>4, <2>1 DEF AfterInit, VideoFinish
<1>5. CASE bvPc = "load"
  <2>1. AfterLoad(answered)
    BY <1>5 DEF AfterRun
  <2> QED
    BY <1>1, <1>5, <2>1 DEF AfterLoad, Goto
<1>6. CASE bvPc = "play"
  <2>1. NextClip
    BY <1>6 DEF AfterRun
  <2> QED
    BY <1>1, <1>6, <2>1
<1> QED
  BY <1>2, <1>3, <1>4, <1>5, <1>6 DEF SshSteps

LEMMA RunAttemptFailsKeeps ==
    ASSUME ClipInv, RunAttemptFails
    PROVE  ClipInv'
<1>1. /\ bvWait' = "no" /\ bvPc \in SshSteps
      /\ UNCHANGED <<bdForm, bdInit, bdLoaded, bdFailed, bdPlays>>
      /\ UNCHANGED <<bvPc, bvClip>> \/ AfterRun(FALSE)
  BY DEF RunAttemptFails, ClipInv, bvBoard
<1>2. CASE UNCHANGED <<bvPc, bvClip>>
  BY <1>1, <1>2 DEF ClipInv, Ready, PlaysTheAskedClip
<1>3. CASE AfterRun(FALSE)
  <2>1. bvPc' # "play" /\ (bvPc' = "load" => bvPc \in {"load", "play"})
    BY <1>1, <1>3, AfterRunGoes
  <2> QED
    BY <1>1, <2>1 DEF ClipInv, Ready, PlaysTheAskedClip
<1> QED
  BY <1>1, <1>2, <1>3

LEMMA SshServesKeeps ==
    ASSUME ClipInv, SshServes
    PROVE  ClipInv'
<1>1. /\ bdForm = NoForm /\ bvWait = "open" /\ bvWait' = "served"
      /\ bdForm' = [step |-> bvPc, clip |-> bvClip]
      /\ UNCHANGED <<bvPc, bvClip, bdInit, bdLoaded, bdFailed, bdPlays>>
  BY DEF SshServes
<1>2. bdForm'.step = bvPc /\ bdForm'.clip = bvClip /\ (bvPc = "play" => bdForm' = PlayForm(bvClip))
  BY <1>1 DEF PlayForm
<1> QED
  BY <1>1, <1>2 DEF ClipInv, Ready, PlaysTheAskedClip

LEMMA SshFormEndsKeeps ==
    ASSUME ClipInv, SshFormEnds
    PROVE  ClipInv'
<1>1. bdForm # NoForm /\ bdForm' = NoForm
  BY DEF SshFormEnds
<1>2. NoForm.step = "no"
  BY DEF NoForm
<1>3. PICK ok \in BOOLEAN :
        /\ bdInit' = (bdInit \/ (ok /\ bdForm.step = "init"))
        /\ IF bdForm.step = "load"
           THEN /\ bdLoaded' \in Loads(ok)
                /\ bdFailed' = IF ok THEN bdFailed ELSE bdFailed \cup {Clips[bdForm.clip]}
           ELSE UNCHANGED <<bdLoaded, bdFailed>>
        /\ IF bvWait = "served" THEN bvWait' = "no" /\ AfterRun(ok \/ bdForm.step # "init")
                                ELSE UNCHANGED <<bvWait, bvPc, bvClip, bvTry, bvExit>>
  BY DEF SshFormEnds
\* A load, whatever it came to, leaves its clip ready to play.
<1>4. bdForm.step = "load" => (bdLoaded' = Clips[bdForm.clip] \/ Clips[bdForm.clip] \in bdFailed')
  <2>1. CASE ok
    BY <1>3, <2>1 DEF Loads
  <2>2. CASE ~ok
    BY <1>3, <2>2
  <2> QED
    BY <2>1, <2>2
<1>5. bdForm.step # "load" => UNCHANGED <<bdLoaded, bdFailed>>
  BY <1>3
<1>6. bdFailed \subseteq bdFailed'
  BY <1>3
<1>7. PlaysTheAskedClip'
  <2>1. CASE bdForm.step # "play"
    <3>1. UNCHANGED bdPlays
      BY <2>1 DEF SshFormEnds
    <3> QED
      BY <1>6, <3>1 DEF ClipInv, PlaysTheAskedClip
  <2>2. CASE bdForm.step = "play"
    <3>1. bdPlays' = bdPlays \cup
            {[asked |-> Clips[bdForm.clip], loaded |-> bdLoaded, init |-> bdInit]}
      BY <2>2 DEF SshFormEnds
    <3>2. (bdLoaded = Clips[bdForm.clip] \/ Clips[bdForm.clip] \in bdFailed) /\ bdInit
      BY <2>2 DEF ClipInv, Ready
    <3> QED
      BY <1>6, <3>1, <3>2 DEF ClipInv, PlaysTheAskedClip
  <2> QED
    BY <2>1, <2>2
<1>8. CASE bvWait = "served"
  <2> DEFINE answered == ok \/ bdForm.step # "init"
  <2>1. bvWait' = "no" /\ AfterRun(answered) /\ answered \in BOOLEAN
    BY <1>3, <1>8
  <2>2. bvPc \in SshSteps /\ bdForm.step = bvPc /\ bdForm.clip = bvClip
    BY <1>8 DEF ClipInv
  <2>3. \/ bvPc' \notin {"load", "play"}
        \/ bvPc' = "load" /\ ((bvPc = "init" /\ answered) \/ bvPc \in {"load", "play"})
        \/ bvPc' = "play" /\ bvPc = "load" /\ bvClip' = bvClip
    <3> HIDE DEF answered
    <3> QED
      BY <2>1, <2>2, AfterRunGoes
  <2>4. bvPc' \in {"load", "play"} => bdInit'
    BY <1>3, <2>2, <2>3 DEF ClipInv
  <2>5. bvPc' = "play" => Ready(bvClip)' /\ bdForm' \in {NoForm, PlayForm(bvClip)'}
    BY <1>1, <1>4, <2>2, <2>3 DEF Ready
  <2> QED
    BY <1>1, <1>2, <1>7, <2>1, <2>4, <2>5 DEF ClipInv
<1>9. CASE bvWait # "served"
  <2>1. UNCHANGED <<bvWait, bvPc, bvClip>>
    BY <1>3, <1>9
  <2>2. bvPc = "play" => bdForm.step = "play"
    BY <1>1 DEF ClipInv, PlayForm
  <2>3. bvPc \in {"load", "play"} => bdInit'
    BY <1>3 DEF ClipInv
  <2>4. bvPc' = "play" => Ready(bvClip)'
    BY <1>5, <2>1, <2>2 DEF ClipInv, Ready
  <2> QED
    BY <1>1, <1>2, <1>7, <1>9, <2>1, <2>3, <2>4 DEF ClipInv
<1> QED
  BY <1>8, <1>9

\* A query that ends stays at its step or moves on to the next.
LEMMA AfterSerialGoes ==
    ASSUME NEW a \in BOOLEAN, bvPc \in SerialSteps, bvTry \in Int, AfterSerial(a)
    PROVE  /\ bvTry' \in Int
           /\ bvPc' \in {"hot", "eager", "sshboot", "done"} \/ bvPc' = bvPc
<1>1. CASE bvPc = "probe" /\ a
  <2>1. bvPc' = "hot" /\ UNCHANGED bvTry
    BY <1>1 DEF AfterSerial
  <2> QED
    BY <2>1
<1>2. CASE bvPc = "probe" /\ ~a /\ bvTry > 1
  <2>1. ~(bvPc = "probe" /\ a) /\ ~(bvTry <= 1) /\ bvPc # "hot" /\ bvPc # "eager"
    BY <1>2
  <2>2. bvTry' = bvTry - 1 /\ UNCHANGED <<bvPc, bvExit>>
    BY <1>2, <2>1, Zenon DEF AfterSerial
  <2> QED
    BY <2>2
<1>3. CASE bvPc = "probe" /\ ~a /\ bvTry <= 1
  <2>1. VideoFinish(1) /\ UNCHANGED bvTry
    BY <1>3 DEF AfterSerial
  <2> QED
    BY <2>1 DEF VideoFinish
<1>4. CASE bvPc = "hot"
  <2>1. bvPc' = "eager" /\ UNCHANGED bvTry
    BY <1>4 DEF AfterSerial
  <2> QED
    BY <2>1
<1>5. CASE bvPc = "eager"
  <2>1. bvPc' = "sshboot" /\ UNCHANGED bvTry
    BY <1>5 DEF AfterSerial
  <2> QED
    BY <2>1
<1> QED
  BY <1>1, <1>2, <1>3, <1>4, <1>5 DEF SerialSteps

\* Tries stay numbers.
LEMMA TryStep ==
    ASSUME SerialInv, ClipInv, bvTry \in Int, VideoNext \/ UNCHANGED bvVars
    PROVE  bvTry' \in Int
<1>1. SerialTries \in Int /\ \A step : TriesFor(step) \in Int
  BY VideoAssumption DEF VideoAssumption, TriesFor, SshTries
<1>2. NextClip \/ AfterInit(FALSE) \/ AfterInit(TRUE) => bvTry' \in Int
  BY <1>1 DEF NextClip, AfterInit, Goto
<1>3. ASSUME NEW a \in BOOLEAN, bvPc \in SshSteps, AfterRun(a) PROVE bvTry' \in Int
  BY <1>1, <1>2, <1>3 DEF AfterRun, AfterLoad, AfterInit, Goto, SshSteps
<1>4. CASE VideoNetboots \/ VideoNoBoot \/ VideoNetbooted \/ TypeSshBoot \/ sq \/ run
  BY <1>1, <1>4 DEF VideoNetboots, VideoNoBoot, VideoNetbooted, TypeSshBoot, sq, run
<1>5. CASE ReplEvaluates \/ ReplReports \/ ReplLosesLine \/ SshServes \/ UNCHANGED bvVars
  BY <1>5 DEF ReplEvaluates, ReplReports, ReplLosesLine, SshServes, bvVars, bvHost
<1>6. CASE SerialAnswer \/ SerialTimeout
  <2>1. bvPc \in SerialSteps
    BY <1>6 DEF SerialAnswer, SerialTimeout, SerialInv
  <2>2. PICK a \in BOOLEAN : AfterSerial(a)
    BY <1>6 DEF SerialAnswer, SerialTimeout
  <2> QED
    BY <2>1, <2>2, AfterSerialGoes
<1>7. CASE RunAttemptFails
  <2>1. bvPc \in SshSteps /\ (bvTry' = bvTry - 1 \/ AfterRun(FALSE))
    BY <1>7 DEF RunAttemptFails, AttemptsLeft, ClipInv
  <2>2. AfterRun(FALSE) => bvTry' \in Int
    BY <1>3, <2>1
  <2>3. bvTry - 1 \in Int
    OBVIOUS
  <2> QED
    BY <2>1, <2>2, <2>3, Zenon
<1>8. CASE SshFormEnds
  BY <1>3, <1>8 DEF SshFormEnds, ClipInv
<1> QED
  BY <1>4, <1>5, <1>6, <1>7, <1>8 DEF VideoNext, VideoHost

LEMMA ClipStep ==
    ASSUME SerialInv, bvTry \in Int, ClipInv, VideoNext \/ UNCHANGED bvVars
    PROVE  ClipInv'
<1>1. CASE VideoNetboots \/ VideoNoBoot \/ VideoNetbooted \/ TypeSshBoot
  <2>1. /\ bvPc \in {"idle", "netboot", "sshboot"} /\ bvPc' \in {"netboot", "up", "probe", "done"}
        /\ UNCHANGED <<bvWait, bdForm, bdInit, bdLoaded, bdFailed, bdPlays>>
    BY <1>1 DEF VideoNetboots, VideoNoBoot, VideoNetbooted, TypeSshBoot, VideoFinish, bvBoard
  <2>2. bvWait \notin {"open", "served"}
    BY <2>1 DEF ClipInv, SshSteps
  <2> QED
    BY <2>1, <2>2, ClipQuiet
<1>2. CASE sq
  BY <1>2, ClipQuiet DEF sq, SerialSteps
<1>3. CASE ReplEvaluates \/ ReplReports \/ ReplLosesLine \/ UNCHANGED bvVars
  <2>1. UNCHANGED <<bvPc, bvClip, bvWait, bdForm, bdInit, bdLoaded, bdFailed, bdPlays>>
    BY <1>3 DEF ReplEvaluates, ReplReports, ReplLosesLine, bvVars, bvHost, bvBoard
  <2> QED
    BY <2>1 DEF ClipInv, Ready, PlaysTheAskedClip
<1>4. CASE run
  <2>1. /\ bvPc \in SshSteps /\ bvWait' = "open"
        /\ UNCHANGED <<bvPc, bvClip, bdForm, bdInit, bdLoaded, bdFailed, bdPlays>>
    BY <1>4 DEF run, bvBoard
  <2> QED
    BY <2>1 DEF ClipInv, Ready, PlaysTheAskedClip
<1>5. CASE SerialAnswer \/ SerialTimeout
  <2>1. bvWait = "serial" /\ bvWait' = "no" /\ UNCHANGED <<bvClip, bdForm, bdInit, bdLoaded, bdFailed, bdPlays>>
    BY <1>5 DEF SerialAnswer, SerialTimeout, AfterSerial, bvBoard
  <2>2. bvPc' \in {"hot", "eager", "sshboot", "done"} \/ bvPc' = bvPc
    <3>1. bvPc \in SerialSteps
      BY <1>5 DEF SerialAnswer, SerialTimeout, SerialInv
    <3>2. PICK a \in BOOLEAN : AfterSerial(a)
      BY <1>5 DEF SerialAnswer, SerialTimeout
    <3> QED
      BY <3>1, <3>2, AfterSerialGoes
  <2> QED
    BY <2>1, <2>2 DEF ClipInv, Ready, PlaysTheAskedClip
<1> QED
  BY <1>1, <1>2, <1>3, <1>4, <1>5, RunAttemptFailsKeeps, SshServesKeeps, SshFormEndsKeeps
     DEF VideoNext, VideoHost

\* The invariants of the session hold together: the answers of the serial line
\* and the forms over SSH each need what the other says of the session's steps.
LEMMA SessionHolds == VideoSpec => [](SerialInv /\ ClipInv /\ bvTry \in Int)
<1> DEFINE Inv == SerialInv /\ ClipInv /\ bvTry \in Int
<1>1. VideoInit => Inv
  BY MembersEmpty DEF VideoInit, SerialInv, RelinkReported, ClipInv, NoForm, PlaysTheAskedClip
<1>2. Inv /\ [VideoNext \/ (NetbootNext /\ UNCHANGED bvVars)]_<<nbVars, bvVars>> => Inv'
  <2>1. ASSUME Inv, VideoNext \/ UNCHANGED bvVars PROVE Inv'
    BY <2>1, SerialStep, ClipStep, TryStep
  <2> QED
    BY <2>1
<1> QED
  BY <1>1, <1>2, PTL DEF VideoSpec

\* board-video.py, for any list of clips and any number of tries: a play shows
\* the clip it was asked for, unless a load of that clip failed on the board, in a
\* player that was set up, although the forms of clients that gave up still run.
THEOREM ClipIsTheAskedOne == VideoSpec => []PlaysTheAskedClip
<1>1. ClipInv => PlaysTheAskedClip
  BY DEF ClipInv
<1> QED
  BY <1>1, SessionHolds, PTL

-----------------------------------------------------------------------------
(* The shape of the session's state: its tries, its clip, and the tags.     *)
(* Only the line that starts the server has no tag.                         *)

MostTries == SerialTries + TriesFor("up")
VideoSteps == {"idle", "netboot", "sshboot", "done"} \cup SerialSteps \cup SshSteps

TagInv ==
    /\ \A x \in Members(rpQueue) : x.form # "sshboot" => x.tag >= 1
    /\ \A x \in Members(rpOut) : x.tag >= 1

SessionShape ==
    /\ bvPc \in VideoSteps
    /\ bvClip \in 0 .. Len(Clips)
    /\ bvTook \subseteq SerialSteps
    /\ bvPc \in {"probe"} \cup SshSteps => bvTry \in 1 .. MostTries
    /\ bvWait \in {"no", "serial", "open", "served"}
    /\ bvExit \in {-1, 0, 1}
    /\ bdForm.step \in {"no"} \cup SshSteps

LEMMA TagStep ==
    ASSUME SerialInv, TagInv, VideoNext \/ UNCHANGED bvVars
    PROVE  TagInv'
<1>1. bvTag \in Nat /\ rpQueue \in Seq(Lines) /\ rpOut \in Seq(Lines)
  BY DEF SerialInv
<1>2. CASE UNCHANGED <<rpQueue, rpOut>>
  BY <1>2 DEF TagInv
<1>3. CASE sq
  <2> DEFINE line == [tag |-> bvTag + 1, form |-> bvPc]
  <2>1. bvPc \in SerialSteps /\ rpOut' = <<>> /\ rpQueue' = Append(rpQueue, line)
    BY <1>3 DEF sq
  <2>2. line \in Lines /\ line.tag >= 1
    BY <1>1, <2>1 DEF Lines
  <2>3. Members(rpQueue') = Members(rpQueue) \cup {line} /\ Members(rpOut') = {}
    BY <1>1, <2>1, <2>2, MembersAppend, MembersEmpty
  <2> QED
    BY <2>2, <2>3 DEF TagInv
<1>4. CASE SerialAnswer
  <2>1. rpOut' = <<>> /\ UNCHANGED rpQueue
    BY <1>4 DEF SerialAnswer
  <2> QED
    BY <2>1, MembersEmpty DEF TagInv
<1>5. CASE TypeSshBoot
  <2> DEFINE line == [tag |-> 0, form |-> "sshboot"]
  <2>1. UNCHANGED rpOut /\ rpQueue' = Append(rpQueue, line)
    BY <1>5 DEF TypeSshBoot
  <2>2. line \in Lines
    BY DEF Lines
  <2>3. Members(rpQueue') = Members(rpQueue) \cup {line}
    BY <1>1, <2>1, <2>2, MembersAppend
  <2> QED
    BY <2>1, <2>3 DEF TagInv
<1>6. CASE ReplEvaluates
  <2> DEFINE line == Head(rpQueue)
  <2>1. /\ rpQueue # <<>> /\ rpQueue' = Tail(rpQueue)
        /\ rpOut' = IF line.form = "sshboot" THEN rpOut ELSE Append(rpOut, line)
    BY <1>6 DEF ReplEvaluates
  <2>2. /\ Members(rpQueue') \subseteq Members(rpQueue)
        /\ line \in Members(rpQueue) /\ line \in Lines
    BY <1>1, <2>1, MembersTail
  <2> HIDE DEF line
  <2>3. CASE line.form = "sshboot"
    BY <2>1, <2>2, <2>3 DEF TagInv
  <2>4. CASE line.form # "sshboot"
    <3>1. Members(rpOut') = Members(rpOut) \cup {line} /\ line.tag >= 1
      BY <1>1, <2>1, <2>2, <2>4, MembersAppend DEF TagInv
    <3> QED
      BY <2>2, <3>1 DEF TagInv
  <2> QED
    BY <2>3, <2>4
<1>7. CASE ReplReports
  <2>1. rpQueue # <<>> /\ rpQueue' = Tail(rpQueue) /\ UNCHANGED rpOut
    BY <1>7 DEF ReplReports
  <2>2. Members(rpQueue') \subseteq Members(rpQueue)
    BY <1>1, <2>1, MembersTail
  <2> QED
    BY <2>1, <2>2 DEF TagInv
<1>8. CASE ReplLosesLine
  <2>1. /\ Len(rpQueue) > 1 /\ rpQueue' = SubSeq(rpQueue, 1, Len(rpQueue) - 1)
        /\ UNCHANGED rpOut
    BY <1>8 DEF ReplLosesLine
  <2>2. Members(rpQueue') \subseteq Members(rpQueue)
    BY <1>1, <2>1, MembersFront
  <2> QED
    BY <2>1, <2>2 DEF TagInv
<1> QED
  BY <1>2, <1>3, <1>4, <1>5, <1>6, <1>7, <1>8
     DEF VideoNext, VideoHost, bvVars, bvBoard, VideoNetboots, VideoNoBoot, VideoNetbooted,
         SerialTimeout, run, RunAttemptFails, SshServes, SshFormEnds

\* After a form over SSH the session is at a step with its tries, or done.
LEMMA AfterRunShape ==
    ASSUME SessionShape, NEW answered \in BOOLEAN, bvPc \in SshSteps, AfterRun(answered)
    PROVE  /\ bvPc' \in SshSteps \cup {"done"}
           /\ bvClip' \in 0 .. Len(Clips)
           /\ bvPc' \in SshSteps => bvTry' \in 1 .. MostTries
           /\ bvExit' \in {-1, 0, 1}
<1>1. \A step : TriesFor(step) \in 1 .. MostTries
  BY VideoAssumption DEF VideoAssumption, TriesFor, SshTries, MostTries
<1>2. Len(Clips) \in Nat /\ bvClip \in 0 .. Len(Clips) /\ bvExit \in {-1, 0, 1}
  BY VideoAssumption DEF VideoAssumption, SessionShape
<1> DEFINE Goes == /\ bvPc' \in SshSteps \cup {"done"}
                   /\ bvClip' \in 0 .. Len(Clips)
                   /\ bvPc' \in SshSteps => bvTry' \in 1 .. MostTries
                   /\ bvExit' \in {-1, 0, 1}
<1>3. ASSUME NEW step \in SshSteps, NEW clip \in 0 .. Len(Clips), Goto(step, clip) PROVE Goes
  BY <1>1, <1>2, <1>3 DEF Goto
<1>4. ASSUME VideoFinish(0) \/ VideoFinish(1), UNCHANGED bvClip PROVE Goes
  BY <1>2, <1>4 DEF VideoFinish, SshSteps
<1>5. NextClip => Goes
  <2>1. bvClip < Len(Clips) => bvClip + 1 \in 0 .. Len(Clips)
    BY <1>2
  <2>2. "load" \in SshSteps
    BY DEF SshSteps
  <2> QED
    BY <1>3, <1>4, <2>1, <2>2 DEF NextClip
<1>6. {"push", "init", "play"} \subseteq SshSteps /\ 0 \in 0 .. Len(Clips)
  BY <1>2 DEF SshSteps
<1> HIDE DEF Goes
<1>7. CASE bvPc = "up" \/ bvPc = "push"
  <2>1. Goto("push", 0) \/ Goto("init", 0)
    BY <1>7 DEF AfterRun
  <2> QED
    BY <1>3, <1>6, <2>1 DEF Goes
<1>8. CASE bvPc = "init"
  <2>1. AfterInit(answered)
    BY <1>8 DEF AfterRun
  <2> QED
    BY <1>4, <1>5, <2>1 DEF AfterInit, Goes
<1>9. CASE bvPc = "load"
  <2>1. AfterLoad(answered)
    BY <1>9 DEF AfterRun
  <2> QED
    BY <1>2, <1>3, <1>5, <1>6, <2>1 DEF AfterLoad, Goes
<1>10. CASE bvPc = "play"
  <2>1. NextClip
    BY <1>10 DEF AfterRun
  <2> QED
    BY <1>5, <2>1 DEF Goes
<1> QED
  BY <1>7, <1>8, <1>9, <1>10 DEF SshSteps

\* After a serial query: the probe again with a try less, or the next step.
LEMMA AfterSerialShape ==
    ASSUME SessionShape, NEW a \in BOOLEAN, bvPc \in SerialSteps, bvTry \in Int, AfterSerial(a)
    PROVE  /\ bvPc' \in {"probe", "hot", "eager", "sshboot", "done"}
           /\ bvPc' = "probe" => bvTry' \in 1 .. MostTries
           /\ bvExit' \in {-1, 0, 1}
<1>1. bvExit \in {-1, 0, 1} /\ (bvPc = "probe" => bvTry \in 1 .. MostTries)
  BY DEF SessionShape
<1>2. CASE bvPc = "probe" /\ a
  <2>1. bvPc' = "hot" /\ UNCHANGED bvExit
    BY <1>2 DEF AfterSerial
  <2> QED
    BY <1>1, <2>1
<1>3. CASE bvPc = "probe" /\ ~a /\ bvTry > 1
  <2>1. ~(bvPc = "probe" /\ a) /\ ~(bvTry <= 1) /\ bvPc # "hot" /\ bvPc # "eager"
    BY <1>3
  <2>2. bvTry' = bvTry - 1 /\ UNCHANGED <<bvPc, bvExit>>
    BY <1>3, <2>1, Zenon DEF AfterSerial
  <2>3. MostTries \in Nat
    BY VideoAssumption DEF VideoAssumption, MostTries, TriesFor, SshTries
  <2> QED
    BY <1>1, <1>3, <2>2, <2>3
<1>4. CASE bvPc = "probe" /\ ~a /\ bvTry <= 1
  <2>1. VideoFinish(1)
    BY <1>4 DEF AfterSerial
  <2> QED
    BY <2>1 DEF VideoFinish
<1>5. CASE bvPc = "hot"
  <2>1. bvPc' = "eager" /\ UNCHANGED bvExit
    BY <1>5 DEF AfterSerial
  <2> QED
    BY <1>1, <2>1
<1>6. CASE bvPc = "eager"
  <2>1. bvPc' = "sshboot" /\ UNCHANGED bvExit
    BY <1>6 DEF AfterSerial
  <2> QED
    BY <1>1, <2>1
<1> QED
  BY <1>2, <1>3, <1>4, <1>5, <1>6 DEF SerialSteps

LEMMA SessionStep ==
    ASSUME SerialInv, ClipInv, bvTry \in Int, SessionShape, VideoNext \/ UNCHANGED bvVars
    PROVE  SessionShape'
<1>1. /\ bvPc \in VideoSteps /\ bvClip \in 0 .. Len(Clips) /\ bvTook \subseteq SerialSteps
      /\ bvPc \in {"probe"} \cup SshSteps => bvTry \in 1 .. MostTries
      /\ bvWait \in {"no", "serial", "open", "served"} /\ bvExit \in {-1, 0, 1}
      /\ bdForm.step \in {"no"} \cup SshSteps
  BY DEF SessionShape
<1>2. MostTries \in Nat /\ SerialTries \in 1 .. MostTries /\ TriesFor("up") \in 1 .. MostTries
  BY VideoAssumption DEF VideoAssumption, TriesFor, SshTries, MostTries
<1>3. CASE UNCHANGED <<bvPc, bvClip, bvTry, bvTook, bvWait, bvExit, bdForm>>
  BY <1>1, <1>3 DEF SessionShape
<1>4. CASE VideoNetboots \/ VideoNoBoot \/ VideoNetbooted \/ TypeSshBoot
  <2>1. UNCHANGED <<bvClip, bvTook, bvWait, bdForm>>
    BY <1>4 DEF VideoNetboots, VideoNoBoot, VideoNetbooted, TypeSshBoot, bvBoard
  <2>2. /\ bvPc' \in {"netboot", "up", "probe", "done"} /\ bvExit' \in {-1, 0, 1}
        /\ bvPc' \in {"probe", "up"} => bvTry' \in 1 .. MostTries
    BY <1>1, <1>2, <1>4 DEF VideoNetboots, VideoNoBoot, VideoNetbooted, TypeSshBoot, VideoFinish
  <2> QED
    BY <1>1, <2>1, <2>2 DEF SessionShape, VideoSteps, SshSteps, SerialSteps
<1>5. CASE sq \/ run
  <2>1. UNCHANGED <<bvPc, bvClip, bvTry, bvTook, bvExit, bdForm>> /\ bvWait' \in {"serial", "open"}
    BY <1>5 DEF sq, run, bvBoard
  <2> QED
    BY <1>1, <2>1 DEF SessionShape
<1>6. CASE SerialAnswer \/ SerialTimeout
  <2>1. bvPc \in SerialSteps /\ bvWait' = "no" /\ UNCHANGED <<bvClip, bdForm>>
    BY <1>6 DEF SerialAnswer, SerialTimeout, SerialInv, AfterSerial, bvBoard
  <2>2. bvTook' \subseteq SerialSteps
    BY <1>1, <1>6, <2>1 DEF SerialAnswer, SerialTimeout
  <2>3. PICK a \in BOOLEAN : AfterSerial(a)
    BY <1>6 DEF SerialAnswer, SerialTimeout
  <2>4. /\ bvPc' \in {"probe", "hot", "eager", "sshboot", "done"}
        /\ bvPc' = "probe" => bvTry' \in 1 .. MostTries
        /\ bvExit' \in {-1, 0, 1}
    BY <2>1, <2>3, AfterSerialShape
  <2> QED
    BY <1>1, <2>1, <2>2, <2>4 DEF SessionShape, VideoSteps, SshSteps, SerialSteps
<1>7. ASSUME NEW a \in BOOLEAN, bvPc \in SshSteps, AfterRun(a), bvWait' = "no",
             UNCHANGED bvTook, bdForm'.step \in {"no"} \cup SshSteps
      PROVE  SessionShape'
  <2>1. /\ bvPc' \in SshSteps \cup {"done"}
        /\ bvClip' \in 0 .. Len(Clips)
        /\ bvPc' \in SshSteps => bvTry' \in 1 .. MostTries
        /\ bvExit' \in {-1, 0, 1}
    BY <1>7, AfterRunShape
  <2>2. "probe" \notin SshSteps \cup {"done"} /\ SshSteps \cup {"done"} \subseteq VideoSteps
    BY DEF SshSteps, VideoSteps
  <2> QED
    BY <1>1, <1>7, <2>1, <2>2 DEF SessionShape
<1>8. CASE RunAttemptFails
  <2>1. bvPc \in SshSteps /\ bvWait' = "no" /\ UNCHANGED <<bvTook, bdForm>>
    BY <1>8 DEF RunAttemptFails, ClipInv, bvBoard
  <2>2. CASE AnotherAttempt
    <3>1. bvTry' = bvTry - 1 /\ bvTry > 1 /\ UNCHANGED <<bvPc, bvClip, bvExit>>
      BY <1>8, <2>2 DEF RunAttemptFails, AnotherAttempt, AttemptsLeft
    <3>2. bvTry' \in 1 .. MostTries
      BY <1>1, <1>2, <2>1, <3>1
    <3> QED
      BY <1>1, <2>1, <3>1, <3>2 DEF SessionShape
  <2>3. CASE ~AnotherAttempt
    <3>1. AfterRun(FALSE)
      BY <1>8, <2>3 DEF RunAttemptFails
    <3> QED
      BY <1>1, <1>7, <2>1, <3>1
  <2> QED
    BY <2>2, <2>3
<1>9. CASE SshServes
  <2>1. /\ bvWait' = "served" /\ bvPc \in SshSteps /\ bdForm' = [step |-> bvPc, clip |-> bvClip]
        /\ UNCHANGED <<bvPc, bvClip, bvTry, bvTook, bvExit>>
    BY <1>9 DEF SshServes, ClipInv
  <2> QED
    BY <1>1, <2>1 DEF SessionShape
<1>10. CASE SshFormEnds
  <2>1. UNCHANGED bvTook /\ bdForm' = NoForm /\ bdForm'.step = "no"
    BY <1>10 DEF SshFormEnds, NoForm
  <2>2. CASE bvWait = "served"
    <3>1. bvPc \in SshSteps
      BY <2>2 DEF ClipInv
    <3>2. PICK ok \in BOOLEAN : bvWait' = "no" /\ AfterRun(ok \/ bdForm.step # "init")
      BY <1>10, <2>2 DEF SshFormEnds
    <3>3. (ok \/ bdForm.step # "init") \in BOOLEAN
      OBVIOUS
    <3> QED
      BY <1>7, <2>1, <3>1, <3>2, <3>3
  <2>3. CASE bvWait # "served"
    <3>1. UNCHANGED <<bvWait, bvPc, bvClip, bvTry, bvExit>>
      BY <1>10, <2>3 DEF SshFormEnds
    <3> QED
      BY <1>1, <2>1, <3>1 DEF SessionShape
  <2> QED
    BY <2>2, <2>3
<1>11. ReplEvaluates \/ ReplReports \/ ReplLosesLine \/ UNCHANGED bvVars
         => UNCHANGED <<bvPc, bvClip, bvTry, bvTook, bvWait, bvExit, bdForm>>
  BY DEF ReplEvaluates, ReplReports, ReplLosesLine, bvVars, bvHost, bvBoard
<1> QED
  BY <1>3, <1>4, <1>5, <1>6, <1>8, <1>9, <1>10, <1>11 DEF VideoNext, VideoHost

\* board-video.py, whatever the clips: a probe or an attempt has a try left, a
\* clip is one of the list, and no answer bears a tag that was not given out.
LEMMA VideoTyped == VideoSpec => []VideoTypeOK
<1> DEFINE Inv == SerialInv /\ ClipInv /\ bvTry \in Int
<1>1. VideoInit => TagInv /\ SessionShape
  <2>1. VideoInit => TagInv
    BY MembersEmpty DEF VideoInit, TagInv
  <2>2. VideoInit => SessionShape
    BY VideoAssumption
       DEF VideoAssumption, VideoInit, SessionShape, VideoSteps, SshSteps, SerialSteps, NoForm
  <2> QED
    BY <2>1, <2>2
<1>2. Inv /\ TagInv /\ SessionShape
        /\ [VideoNext \/ (NetbootNext /\ UNCHANGED bvVars)]_<<nbVars, bvVars>>
        => (TagInv /\ SessionShape)'
  <2>1. ASSUME Inv, TagInv, SessionShape, VideoNext \/ UNCHANGED bvVars
        PROVE  (TagInv /\ SessionShape)'
    BY <2>1, TagStep, SessionStep
  <2> QED
    BY <2>1
<1>3. Inv /\ TagInv /\ SessionShape => VideoTypeOK
  <2> SUFFICES ASSUME Inv, TagInv, SessionShape PROVE VideoTypeOK
    OBVIOUS
  <2>1. bvTag \in Nat /\ rpQueue \in Seq(Lines) /\ rpOut \in Seq(Lines)
    BY DEF SerialInv
  <2>2. ASSUME NEW i \in 1 .. Len(rpQueue) PROVE rpQueue[i].tag \in 0 .. bvTag
    <3>1. rpQueue[i] \in Members(rpQueue) /\ rpQueue[i] \in Lines
      BY <2>1 DEF Members
    <3>2. rpQueue[i].tag \in Nat
      BY <3>1 DEF Lines
    <3>3. rpQueue[i].tag <= bvTag
      BY <3>1 DEF SerialInv
    <3> QED
      BY <2>1, <3>2, <3>3
  <2>3. ASSUME NEW i \in 1 .. Len(rpOut) PROVE rpOut[i].tag \in 1 .. bvTag
    <3>1. rpOut[i] \in Members(rpOut) /\ rpOut[i] \in Lines
      BY <2>1 DEF Members
    <3>2. rpOut[i].tag \in Nat
      BY <3>1 DEF Lines
    <3>3. rpOut[i].tag <= bvTag /\ rpOut[i].tag >= 1
      BY <3>1 DEF SerialInv, TagInv
    <3> QED
      BY <2>1, <3>2, <3>3
  <2> QED
    BY <2>2, <2>3 DEF VideoTypeOK, SessionShape, VideoSteps, MostTries
<1> QED
  BY <1>1, <1>2, <1>3, SessionHolds, PTL DEF VideoSpec

-----------------------------------------------------------------------------
(* The composition: a behaviour in which one of the scripts is run.         *)

\* Each script and the machine it drives behave in MCScripts as their own
\* specification says, so what is proved of one holds of the composition.
THEOREM BoardRunsScripts ==
    ScriptsSpec => /\ DeploySpec /\ NetbootSpec /\ VideoSpec
                   /\ SelfHostSpec /\ PushSpec /\ CoreSpec
<1>1. ScriptsInit => /\ DeployInit /\ NetbootInit /\ VideoInit
                     /\ SelfHostInit /\ PushInit /\ CoreInit
  BY DEF ScriptsInit, BoardInit
<1> USE DEF NoScript, NoDeploy, NoNetboot, NoVideo, NoSelfHost, NoPush, NoCore
<1>0. [ScriptsNext]_scriptVars => NoScript \/ [BoardNext]_boardVars
  BY DEF ScriptsNext, scriptVars
<1> USE DEF DeployRuns, NetbootRuns, VideoRuns, SelfHostRuns, PushRuns, CoreRuns
<1>2. [ScriptsNext]_scriptVars => [DeployNext]_dpVars
  BY <1>0 DEF BoardNext, boardVars
<1>3. [ScriptsNext]_scriptVars => [SelfHostNext]_shVars
  BY <1>0 DEF BoardNext, boardVars
<1>4. [ScriptsNext]_scriptVars => [PushNext]_puVars
  BY <1>0 DEF BoardNext, boardVars
<1>5. [ScriptsNext]_scriptVars => [CoreNext]_csVars
  BY <1>0 DEF BoardNext, boardVars
<1>6. [ScriptsNext]_scriptVars
        => [VideoNext \/ (NetbootNext /\ UNCHANGED bvVars)]_<<nbVars, bvVars>>
  BY <1>0 DEF BoardNext, boardVars
<1>7. VideoNext => NetbootNext \/ UNCHANGED nbVars
  <2>1. VideoNetboots => NetbootNext
    BY DEF VideoNetboots, NetbootNext, NetbootScript
  <2> QED
    BY <2>1 DEF VideoNext, VideoHost, VideoNoBoot, VideoNetbooted, sq, SerialAnswer, SerialTimeout,
                TypeSshBoot, run, RunAttemptFails, ReplEvaluates, ReplReports, ReplLosesLine,
                SshServes, SshFormEnds
<1>8. [ScriptsNext]_scriptVars => [NetbootNext]_nbVars
  BY <1>6, <1>7
<1> QED
  BY <1>1, <1>2, <1>3, <1>4, <1>5, <1>6, <1>8, PTL
     DEF ScriptsSpec, DeploySpec, NetbootSpec, VideoSpec, SelfHostSpec, PushSpec, CoreSpec
=============================================================================
