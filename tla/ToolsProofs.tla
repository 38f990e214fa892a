---------------------------- MODULE ToolsProofs -----------------------------
(***************************************************************************)
(* Proofs about scripts/hosted-ladder.py and scripts/make-uki.py, for any  *)
(* number of architectures, rungs and workers, and for any well-formed     *)
(* image and any sections added to it.                                     *)
(***************************************************************************)
EXTENDS MCScripts, SequenceTheorems, FiniteSetTheorems, WellFoundedInduction, TLAPS

-----------------------------------------------------------------------------
(* hosted-ladder.py.  A cell that passed printed the rung's number; the      *)
(* architectures already graded had their control rejected, and if nothing   *)
(* was counted against them, all their cells passed.                         *)

CellSound(c, e) ==
    /\ c \in CellType
    /\ c.outcome = "PASS" => c.got = e
    /\ c.outcome = "WRONG" => c.got # -1

Graded(a) ==
    /\ hostControl[a].outcome = "WRONG"
    /\ hostFailures = 0 => \A r \in Rungs : hostCells[a][r].outcome = "PASS"

HostedShape ==
    /\ hostPc \in {"idle", "control", "pool", "raising", "done"}
    /\ hostJobs \in Int
    /\ hostArch \in Arches
    /\ hostControl \in [Arches -> CellType]
    /\ hostCells \in [Arches -> [Rungs -> CellType]]
    /\ hostFailures \in Nat
    /\ hostExit \in {-1, 0, 1, 2}

HostedInv ==
    /\ HostedShape
    /\ \A a \in Arches : CellSound(hostControl[a], expected_of(1) + 1)
    /\ \A a \in Arches, r \in Rungs : CellSound(hostCells[a][r], expected_of(r))
    /\ \A a \in Arches : a < hostArch => Graded(a)
    /\ hostPc \in {"pool", "raising"} => Control.outcome = "WRONG"
    /\ hostExit = 0 => hostFailures = 0 /\ \A a \in Arches : Graded(a)
    /\ hostPc # "done" => hostExit = -1
    /\ hostFailures <= (IF hostPc = "done" THEN hostArch ELSE hostArch - 1) * Len(HostedExpected)

LEMMA HostedConstants ==
    /\ HostedArches \in Nat /\ HostedArches > 0 /\ HostedModulus \in Nat /\ HostedModulus > 0
    /\ HostedExpected \in Seq(Int) /\ Len(HostedExpected) \in Nat
    /\ \A r \in Rungs : expected_of(r) \in Int
    /\ 1 \in Rungs /\ 1 \in Arches /\ Arches \subseteq Nat /\ Rungs \subseteq Nat
BY HostedShapeAssumption DEF HostedShapeAssumption, expected_of, Rungs, Arches

LEMMA FreshCells ==
    /\ QueuedCell \in CellType /\ QueuedCell.outcome = ""
    /\ BuildingCell \in CellType /\ BuildingCell.outcome = ""
<1>1. -1 \in -1 .. (HostedModulus - 1)
  BY HostedConstants
<1>2. QueuedCell \in CellType /\ QueuedCell.outcome = ""
  BY <1>1 DEF QueuedCell, CellType
<1>3. \A c \in CellType : /\ [c EXCEPT !.at = "build"] \in CellType
                          /\ [c EXCEPT !.at = "build"].outcome = c.outcome
  BY DEF CellType
<1> QED
  BY <1>2, <1>3 DEF BuildingCell

\* run_cell keeps the word with the verdict on it.
LEMMA RunCellSound ==
    ASSUME NEW c \in CellType, NEW e, NEW d \in run_cell(c, e), c.at # "done",
           CellSound(c, e)
    PROVE  CellSound(d, e)
<1>1. /\ c.at \in {"queued", "build", "emulate", "done"} /\ c.got \in -1 .. (HostedModulus - 1)
      /\ c.outcome \in {"", "PASS", "WRONG", "BUILD", "RUN", "raised"}
  BY DEF CellType
<1>2. CASE d = [c EXCEPT !.at = "emulate"]
  <2>1. d \in CellType /\ d.outcome = c.outcome /\ d.got = c.got
    BY <1>2 DEF CellType
  <2> QED
    BY <2>1 DEF CellSound
<1>3. ASSUME NEW o \in {"BUILD", "RUN", "raised"}, d = Ended(c, o)
      PROVE  CellSound(d, e)
  <2>1. d \in CellType /\ d.outcome = o
    BY <1>3 DEF CellType, Ended
  <2> QED
    BY <2>1 DEF CellSound
<1>4. ASSUME NEW v \in HostedAnswers, NEW w, w = PrintedWord(v),
             d = [Ended(c, IF w = e THEN "PASS" ELSE "WRONG") EXCEPT !.got = w]
      PROVE  CellSound(d, e)
  <2>1. w \in 0 .. (HostedModulus - 1)
    BY <1>4, HostedShapeAssumption DEF HostedShapeAssumption, PrintedWord
  <2> DEFINE o == IF w = e THEN "PASS" ELSE "WRONG"
  <2>2. o \in {"PASS", "WRONG"} /\ (o = "PASS" => w = e)
    OBVIOUS
  <2>3. d = [[c EXCEPT !.at = "done", !.outcome = o] EXCEPT !.got = w]
    BY <1>4 DEF Ended
  <2> HIDE DEF o
  <2>4. w \in -1 .. (HostedModulus - 1) /\ w # -1
    BY <2>1, HostedConstants
  <2>5. d \in CellType /\ d.outcome = o /\ d.got = w
    BY <2>2, <2>3, <2>4 DEF CellType
  <2> QED
    BY <2>2, <2>4, <2>5 DEF CellSound
<1>5. CASE c.at = "build"
  <2>1. d = [c EXCEPT !.at = "emulate"] \/ d = Ended(c, "BUILD") \/ d = Ended(c, "raised")
    BY <1>5 DEF run_cell
  <2> QED
    BY <1>2, <1>3, <2>1
<1>6. CASE c.at # "build"
  <2>1. \/ d = Ended(c, "RUN") \/ d = Ended(c, "raised")
        \/ d \in {[Ended(c, IF w = e THEN "PASS" ELSE "WRONG") EXCEPT !.got = w] :
                   w \in {PrintedWord(v) : v \in HostedAnswers}}
    BY <1>6 DEF run_cell
  <2>2. ASSUME NEW w \in {PrintedWord(v) : v \in HostedAnswers},
               d = [Ended(c, IF w = e THEN "PASS" ELSE "WRONG") EXCEPT !.got = w]
        PROVE  CellSound(d, e)
    <3>1. PICK v \in HostedAnswers : w = PrintedWord(v)
      OBVIOUS
    <3> QED
      BY <1>4, <2>2, <3>1
  <2> QED
    BY <1>3, <2>1, <2>2
<1> QED
  BY <1>5, <1>6

\* One cell more: the rest stay as they were.
LEMMA CellReplaced ==
    ASSUME HostedInv, NEW r \in Rungs, NEW d, CellSound(d, expected_of(r)),
           hostPc \in {"pool", "raising"},
           hostCells' = [hostCells EXCEPT ![hostArch][r] = d],
           UNCHANGED <<hostPc, hostJobs, hostArch, hostControl, hostFailures, hostExit>>
    PROVE  HostedInv'
<1>1. HostedShape /\ hostExit = -1 /\ hostArch \in Arches /\ d \in CellType
  BY DEF HostedInv, HostedShape, CellSound
<1>2. hostCells \in [Arches -> [Rungs -> CellType]]
  BY <1>1 DEF HostedShape
<1>3. /\ hostCells' \in [Arches -> [Rungs -> CellType]]
      /\ \A a \in Arches : a # hostArch => hostCells'[a] = hostCells[a]
      /\ \A q \in Rungs : hostCells'[hostArch][q] = IF q = r THEN d ELSE hostCells[hostArch][q]
  BY <1>1, <1>2
<1>4. HostedShape'
  BY <1>1, <1>3 DEF HostedShape
<1>5. \A a \in Arches, q \in Rungs : CellSound(hostCells'[a][q], expected_of(q))
  BY <1>3 DEF HostedInv
<1>6. \A a \in Arches : a < hostArch => a # hostArch
  BY <1>1, HostedConstants
<1>7. \A a \in Arches : a < hostArch' => Graded(a)'
  BY <1>3, <1>6 DEF HostedInv, Graded
<1>8. Control' = Control
  BY DEF Control
<1> QED
  BY <1>1, <1>4, <1>5, <1>7, <1>8 DEF HostedInv, CellSound, expected_of

\* Only where the pool stands, or the exit status, changes.
LEMMA OutcomesKept ==
    ASSUME HostedInv, UNCHANGED <<hostArch, hostControl, hostCells, hostFailures>>,
           hostJobs' \in Int, hostPc # "done",
           hostPc' \in {"control", "pool", "raising", "done"}, hostExit' \in {-1, 1, 2},
           hostPc' # "done" => hostExit' = -1,
           hostPc' \in {"pool", "raising"} => Control.outcome = "WRONG"
    PROVE  HostedInv'
<1>1. HostedShape'
  BY DEF HostedInv, HostedShape
<1>2. \A a : Graded(a)' <=> Graded(a)
  BY DEF Graded
<1>3. Control' = Control
  BY DEF Control
<1>4. hostFailures' <= (IF hostPc' = "done" THEN hostArch' ELSE hostArch' - 1) * Len(HostedExpected)
  <2> DEFINE L == Len(HostedExpected)
  <2>1. hostArch \in Nat /\ hostArch >= 1 /\ L \in Nat /\ hostFailures \in Nat
    BY HostedConstants DEF HostedInv, HostedShape, Arches
  <2>2. hostFailures <= (hostArch - 1) * L
    BY DEF HostedInv
  <2> HIDE DEF L
  <2>3. (hostArch - 1) * L <= hostArch * L /\ (hostArch - 1) * L \in Int /\ hostArch * L \in Int
    BY <2>1
  <2>4. hostFailures <= hostArch * L
    BY <2>1, <2>2, <2>3
  <2> QED
    BY <2>2, <2>4 DEF L
<1> QED
  BY <1>1, <1>2, <1>3, <1>4 DEF HostedInv, CellSound, expected_of

LEMMA ControlStepKeeps ==
    ASSUME HostedInv, ControlStep
    PROVE  HostedInv'
<1> DEFINE e == expected_of(1) + 1
<1>1. PICK c \in run_cell(Control, e) : hostControl' = [hostControl EXCEPT ![hostArch] = c]
  BY DEF ControlStep
<1>2. /\ hostPc = "control" /\ Control.at # "done"
      /\ UNCHANGED <<hostPc, hostJobs, hostArch, hostCells, hostFailures, hostExit>>
  BY DEF ControlStep
<1>3. HostedShape /\ hostExit = -1 /\ hostArch \in Arches /\ hostControl \in [Arches -> CellType]
  BY <1>2 DEF HostedInv, HostedShape
<1>4. Control \in CellType /\ CellSound(Control, e)
  BY <1>3 DEF HostedInv, Control
<1>5. CellSound(c, e)
  BY <1>2, <1>4, RunCellSound
<1>6. c \in CellType
  BY <1>5 DEF CellSound
<1>7. /\ hostControl' \in [Arches -> CellType]
      /\ \A a \in Arches : hostControl'[a] = IF a = hostArch THEN c ELSE hostControl[a]
  BY <1>1, <1>3, <1>6
<1>8. HostedShape'
  BY <1>2, <1>3, <1>7 DEF HostedShape
<1>9. \A a \in Arches : CellSound(hostControl'[a], e)
  BY <1>5, <1>7 DEF HostedInv
<1>10. \A a \in Arches : a < hostArch => a # hostArch
  BY <1>3, HostedConstants
<1>11. \A a \in Arches : a < hostArch' => Graded(a)'
  BY <1>2, <1>7, <1>10 DEF HostedInv, Graded
<1> QED
  BY <1>2, <1>3, <1>8, <1>9, <1>11 DEF HostedInv, CellSound, expected_of

\* The count stays at zero only when every cell of this architecture passed.
LEMMA CountedRight ==
    ASSUME HostedShape
    PROVE  /\ Counted \in Nat /\ Counted >= hostFailures /\ Counted <= hostFailures + Len(HostedExpected)
           /\ Counted = 0 => \A r \in Rungs : hostCells[hostArch][r].outcome = "PASS"
<1> DEFINE n == Cardinality(NotPassed)
<1>1. IsFiniteSet(Rungs) /\ Cardinality(Rungs) = Len(HostedExpected)
  BY HostedConstants, FS_Interval DEF Rungs
<1>2. NotPassed \subseteq Rungs
  BY DEF NotPassed
<1>3. IsFiniteSet(NotPassed) /\ n <= Cardinality(Rungs)
  BY <1>1, <1>2, FS_Subset
<1>4. n \in Nat
  BY <1>3, FS_CardinalityType
<1>5. hostFailures \in Nat
  BY DEF HostedShape
<1>6. n = 0 => NotPassed = {}
  BY <1>3, FS_EmptySet
<1>7. NotPassed = {} => \A r \in Rungs : hostCells[hostArch][r].outcome = "PASS"
  BY DEF NotPassed, Cells
<1> HIDE DEF n
<1>8. Counted = hostFailures + n
  BY DEF Counted, n
<1> QED
  BY <1>1, <1>3, <1>4, <1>5, <1>6, <1>7, <1>8, HostedConstants

LEMMA PoolDrainedKeeps ==
    ASSUME HostedInv, PoolDrained
    PROVE  HostedInv'
<1> DEFINE L == Len(HostedExpected)
<1>1. /\ hostPc = "pool" /\ hostFailures' = Counted /\ UNCHANGED <<hostJobs, hostControl, hostCells>>
  BY DEF PoolDrained
<1>2. \/ hostArch < HostedArches /\ hostPc' = "control" /\ hostArch' = hostArch + 1 /\ hostExit' = hostExit
      \/ /\ ~(hostArch < HostedArches) /\ hostPc' = "done" /\ hostArch' = hostArch
         /\ hostExit' = IF hostFailures' = 0 THEN 0 ELSE 1
  BY DEF PoolDrained, HostedFinish
<1>3. HostedShape /\ hostExit = -1 /\ hostControl[hostArch].outcome = "WRONG"
  BY <1>1 DEF HostedInv, Control
<1>4. /\ hostArch \in 1 .. HostedArches /\ hostArch \in Nat /\ HostedArches \in Nat
      /\ hostFailures \in Nat /\ L \in Nat
  BY <1>3, HostedConstants DEF HostedShape, Arches
<1>5. /\ hostFailures' \in Nat /\ hostFailures' >= hostFailures /\ hostFailures' <= hostFailures + L
      /\ hostFailures' = 0 => \A r \in Rungs : hostCells[hostArch][r].outcome = "PASS"
  BY <1>1, <1>3, CountedRight
<1>6. hostFailures' = 0 => hostFailures = 0
  BY <1>4, <1>5
<1>7. \A a \in Arches : a < hostArch \/ a = hostArch => Graded(a)'
  BY <1>1, <1>3, <1>5, <1>6 DEF HostedInv, Graded
<1>8. hostFailures' <= hostArch * L
  <2>1. hostFailures <= (hostArch - 1) * L
    BY <1>1 DEF HostedInv
  <2> HIDE DEF L
  <2>2. (hostArch - 1) * L + L = hostArch * L /\ (hostArch - 1) * L \in Int
    BY <1>4
  <2> QED
    BY <1>4, <1>5, <2>1, <2>2
<1> HIDE DEF L
<1>9. CASE hostArch < HostedArches
  <2>1. /\ hostPc' = "control" /\ hostArch' = hostArch + 1 /\ hostExit' = -1
    BY <1>2, <1>3, <1>9
  <2>2. hostArch' \in Arches
    BY <1>4, <1>9, <2>1 DEF Arches
  <2>3. HostedShape'
    BY <1>1, <1>3, <1>5, <2>1, <2>2 DEF HostedShape
  <2>4. \A a \in Arches : a < hostArch' => a < hostArch \/ a = hostArch
    BY <1>4, <2>1, HostedConstants
  <2>5. hostArch' - 1 = hostArch
    BY <1>4, <2>1
  <2> QED
    BY <1>1, <1>7, <1>8, <2>1, <2>3, <2>4, <2>5 DEF HostedInv, CellSound, expected_of, L
<1>10. CASE ~(hostArch < HostedArches)
  <2>1. hostPc' = "done" /\ hostArch' = hostArch /\ hostExit' = IF hostFailures' = 0 THEN 0 ELSE 1
    BY <1>2, <1>10
  <2>2. hostExit' \in {0, 1}
    BY <2>1
  <2>3. HostedShape'
    BY <1>1, <1>3, <1>5, <2>1, <2>2 DEF HostedShape
  <2>4. \A a \in Arches : a < hostArch \/ a = hostArch
    BY <1>4, <1>10 DEF Arches
  <2>5. \A a \in Arches : Graded(a)'
    BY <1>7, <2>4
  <2>6. hostExit' = 0 => hostFailures' = 0
    BY <2>1
  <2> QED
    BY <1>1, <1>8, <2>1, <2>3, <2>5, <2>6 DEF HostedInv, CellSound, expected_of, L
<1> QED
  BY <1>9, <1>10

LEMMA CellStepKeeps ==
    ASSUME HostedInv, NEW r \in Rungs, CellStarts(r) \/ CellStep(r)
    PROVE  HostedInv'
<1>1. /\ hostArch \in Arches /\ hostCells \in [Arches -> [Rungs -> CellType]]
      /\ CellSound(hostCells[hostArch][r], expected_of(r))
  BY DEF HostedInv, HostedShape
<1>2. CASE CellStarts(r)
  <2>1. CellSound(BuildingCell, expected_of(r))
    BY FreshCells DEF CellSound
  <2> QED
    BY <1>2, <2>1, CellReplaced DEF CellStarts
<1>3. CASE CellStep(r)
  <2>1. PICK c \in run_cell(Cells[r], expected_of(r)) : hostCells' = [hostCells EXCEPT ![hostArch][r] = c]
    BY <1>3 DEF CellStep
  <2>2. Cells[r] \in CellType /\ Cells[r].at # "done" /\ CellSound(Cells[r], expected_of(r))
    BY <1>1, <1>3 DEF CellStep, InFlight, Cells
  <2>3. CellSound(c, expected_of(r))
    BY <2>2, RunCellSound
  <2> QED
    BY <1>3, <2>1, <2>3, CellReplaced DEF CellStep
<1> QED
  BY <1>2, <1>3

LEMMA HostedInductive ==
    HostedSpec => []HostedInv
<1>1. HostedInit => HostedInv
  <2> SUFFICES ASSUME HostedInit PROVE HostedInv
    OBVIOUS
  <2>1. hostControl \in [Arches -> CellType] /\ \A a \in Arches : hostControl[a] = BuildingCell
    BY FreshCells DEF HostedInit
  <2>2. /\ hostCells \in [Arches -> [Rungs -> CellType]]
        /\ \A a \in Arches, r \in Rungs : hostCells[a][r] = QueuedCell
    BY FreshCells DEF HostedInit
  <2>3. HostedShape
    BY <2>1, <2>2, HostedConstants DEF HostedInit, HostedShape
  <2>4. \A a \in Arches : ~(a < hostArch)
    BY HostedConstants DEF HostedInit, Arches
  <2>5. hostFailures <= (hostArch - 1) * Len(HostedExpected)
    BY HostedConstants DEF HostedInit
  <2>6. /\ \A a \in Arches : CellSound(hostControl[a], expected_of(1) + 1)
        /\ \A a \in Arches, r \in Rungs : CellSound(hostCells[a][r], expected_of(r))
    BY FreshCells, <2>1, <2>2 DEF CellSound
  <2>7. hostPc = "idle" /\ hostExit = -1
    BY DEF HostedInit
  <2> QED
    BY <2>3, <2>4, <2>5, <2>6, <2>7 DEF HostedInv
<1>2. HostedInv /\ [HostedNext]_hostVars => HostedInv'
  <2> SUFFICES ASSUME HostedInv, [HostedNext]_hostVars PROVE HostedInv'
    OBVIOUS
  <2>1. hostJobs \in Int /\ HostedJobs \subseteq Int
    BY HostedShapeAssumption DEF HostedInv, HostedShape, HostedShapeAssumption
  <2>2. CASE HostedInvoke
    <3>1. hostJobs' \in Int /\ hostExit = -1
      BY <2>1, <2>2 DEF HostedInvoke, HostedInv
    <3> QED
      BY <2>2, <3>1, OutcomesKept DEF HostedInvoke
  <2>3. CASE ControlDecides
    <3>1. hostExit = -1
      BY <2>3 DEF ControlDecides, HostedInv
    <3> QED
      BY <2>1, <2>3, <3>1, OutcomesKept DEF ControlDecides, HostedFinish, ControlAccepted
  <2>4. ASSUME NEW r \in Rungs, PoolRaises(r) PROVE HostedInv'
    <3>1. hostExit = -1 /\ Control.outcome = "WRONG"
      BY <2>4 DEF PoolRaises, HostedInv
    <3> QED
      BY <2>1, <2>4, <3>1, OutcomesKept DEF PoolRaises
  <2>5. CASE PoolUnwinds
    BY <2>1, <2>5, OutcomesKept DEF PoolUnwinds, HostedFinish
  <2>6. CASE UNCHANGED hostVars
    <3>1. UNCHANGED <<hostPc, hostJobs, hostArch, hostControl, hostCells, hostFailures, hostExit>>
      BY <2>6 DEF hostVars
    <3> QED
      BY <3>1 DEF HostedInv, HostedShape, Graded, Control, CellSound, expected_of
  <2> QED
    BY <2>2, <2>3, <2>4, <2>5, <2>6, ControlStepKeeps, CellStepKeeps, PoolDrainedKeeps DEF HostedNext
<1> QED
  BY <1>1, <1>2, PTL DEF HostedSpec

\* hosted-ladder.py, for any number of architectures, rungs and workers: its
\* state keeps its shape, and it counts at most one failure for each cell.
THEOREM HostedTyped == HostedSpec => []HostedTypeOK
<1>1. HostedInv => HostedTypeOK
  <2> SUFFICES ASSUME HostedInv PROVE HostedTypeOK
    OBVIOUS
  <2> DEFINE L == Len(HostedExpected)
             k == IF hostPc = "done" THEN hostArch ELSE hostArch - 1
  <2>1. hostArch \in Nat /\ hostArch \in 1 .. HostedArches /\ HostedArches \in Nat /\ L \in Nat
        /\ hostFailures \in Nat
    BY HostedConstants DEF HostedInv, HostedShape, Arches
  <2>2. hostFailures <= k * L
    BY DEF HostedInv
  <2>3. k \in Nat /\ k <= HostedArches
    BY <2>1
  <2> HIDE DEF L, k
  <2>4. k * L <= HostedArches * L /\ k * L \in Nat /\ HostedArches * L \in Nat
    BY <2>1, <2>3
  <2>5. hostFailures \in 0 .. HostedArches * L
    BY <2>1, <2>2, <2>4
  <2> QED
    BY <2>5 DEF HostedInv, HostedShape, HostedTypeOK, L
<1> QED
  BY <1>1, HostedInductive, PTL

\* "Exit code is 0 only when every cell passed AND the positive control failed",
\* for any number of architectures, rungs and workers.
THEOREM ZeroMeansGraded == HostedSpec => []CleanExitMeansGraded
<1>1. HostedInv => CleanExitMeansGraded
  BY DEF HostedInv, CleanExitMeansGraded, Graded, CellSound
<1> QED
  BY <1>1, HostedInductive, PTL

-----------------------------------------------------------------------------
(* make-uki.py.  The sections added so far lie behind the image, in memory   *)
(* and in the file, apart from each other, and the table with all the rows   *)
(* that are still to come ends before the first section's data.              *)

NewRow(r) ==
    /\ r.va % SecAlign = 0 /\ r.va >= last_end(ukImage) /\ r.va + r.vsize <= ukVa
    /\ r.raw >= ukImage.len /\ r.rawsize >= r.vsize /\ r.raw + r.rawsize <= ukLen

RowsApart(s) ==
    \A i, j \in DOMAIN s : i # j =>
      /\ Apart(s[i].va, s[i].vsize, s[j].va, s[j].vsize)
      /\ Apart(s[i].raw, s[i].rawsize, s[j].raw, s[j].rawsize)

UkiLaidOut ==
    /\ WellFormed(ukImage)
    /\ ukTodo \in Seq(Nat) /\ ukRows \in Seq(TableRow)
    /\ ukLen \in Nat /\ ukLen >= ukImage.len
    /\ ukVa \in Nat /\ ukVa >= last_end(ukImage) /\ ukVa % SecAlign = 0
    /\ ukImage.table + UkiEntry * (Len(ukImage.rows) + Len(ukRows) + Len(ukTodo)) <= raw_first(ukImage)
    /\ \A i \in DOMAIN ukRows : NewRow(ukRows[i])
    /\ RowsApart(ukRows)

UkiInv ==
    /\ ukPc \in {"idle", "layout", "refused", "done"}
    /\ ukPc \in {"idle", "refused"} => ukRows = <<>> /\ ukLen = 0 /\ ukVa = 0
    /\ ukPc \in {"layout", "done"} => UkiLaidOut
    /\ IF ukPc = "done" THEN ukSize = ukVa /\ ukTodo = <<>> ELSE ukSize = -1

\* Induction over the naturals, stated with a set.
LEMMA NatSetInduction ==
    ASSUME NEW S, 0 \in S, \A n \in Nat : n \in S => n + 1 \in S
    PROVE  Nat \subseteq S
<1> DEFINE T == Nat \ S
           R == OpToRel(<, Nat)
<1> SUFFICES ASSUME T # {} PROVE FALSE
  OBVIOUS
<1>1. IsWellFoundedOn(R, Nat)
  BY NatLessThanWellFounded
<1>2. T \subseteq Nat
  OBVIOUS
<1>3. \A y, z \in Nat : y < z => <<y, z>> \in R
  BY DEF OpToRel
<1> HIDE DEF R
<1>4. PICK x \in T : \A y \in T : ~(<<y, x>> \in R)
  <2> HIDE DEF T
  <2> QED
    BY <1>1, <1>2, WFMin
<1>5. x \in Nat /\ x \notin S /\ x # 0
  OBVIOUS
<1>6. x - 1 \in Nat /\ x - 1 < x /\ (x - 1) + 1 = x
  BY <1>5
<1>7. x - 1 \notin T
  BY <1>3, <1>4, <1>5, <1>6
<1> QED
  BY <1>5, <1>6, <1>7

\* min() and max() over the table.
LEMMA LeastExists ==
    ASSUME NEW S, S \subseteq Nat, S # {}
    PROVE  Min(S) \in S /\ \A y \in S : Min(S) <= y
<1> DEFINE R == OpToRel(<, Nat)
<1>1. IsWellFoundedOn(R, Nat)
  BY NatLessThanWellFounded
<1>2. \A y, z \in Nat : y < z => <<y, z>> \in R
  BY DEF OpToRel
<1> HIDE DEF R
<1>3. PICK x \in S : \A y \in S : ~(<<y, x>> \in R)
  BY <1>1, WFMin
<1>4. ASSUME NEW y \in S PROVE x <= y
  <2>1. x \in Nat /\ y \in Nat /\ ~(<<y, x>> \in R)
    BY <1>3
  <2>2. ~(y < x)
    BY <1>2, <2>1
  <2> QED
    BY <2>1, <2>2
<1>5. \E m \in S : \A y \in S : m <= y
  BY <1>4
<1> QED
  BY <1>5, Zenon DEF Min

LEMMA GreatestExists ==
    ASSUME NEW n \in Nat, NEW f, \A i \in 1 .. n : f[i] \in Nat
    PROVE  LET S == {0} \cup {f[i] : i \in 1 .. n}
           IN  Max(S) \in Nat /\ \A y \in S : Max(S) >= y
<1> DEFINE Upto(k) == {0} \cup {f[i] : i \in 1 .. k}
           K == {k \in Nat : k <= n => \E m \in Upto(k) : \A y \in Upto(k) : m >= y}
<1>1. 0 \in K
  OBVIOUS
<1>2. ASSUME NEW k \in Nat, k \in K PROVE k + 1 \in K
  <2> SUFFICES ASSUME k + 1 <= n PROVE \E m \in Upto(k + 1) : \A y \in Upto(k + 1) : m >= y
    OBVIOUS
  <2>1. PICK m \in Upto(k) : \A y \in Upto(k) : m >= y
    BY <1>2
  <2>2. Upto(k + 1) = Upto(k) \cup {f[k + 1]}
    <3>1. 1 .. (k + 1) = (1 .. k) \cup {k + 1}
      OBVIOUS
    <3> QED
      BY <3>1
  <2>3. f[k + 1] \in Nat /\ Upto(k) \subseteq Nat
    OBVIOUS
  <2> HIDE DEF Upto
  <2>4. CASE m >= f[k + 1]
    BY <2>1, <2>2, <2>4
  <2>5. CASE ~(m >= f[k + 1])
    BY <2>1, <2>2, <2>3, <2>5
  <2> QED
    BY <2>4, <2>5
<1>3. n \in K
  <2> HIDE DEF K
  <2> QED
    BY <1>1, <1>2, NatSetInduction
<1>4. \E m \in Upto(n) : \A y \in Upto(n) : m >= y
  BY <1>3
<1>5. Upto(n) \subseteq Nat
  OBVIOUS
<1>6. Max(Upto(n)) \in Upto(n) /\ \A y \in Upto(n) : Max(Upto(n)) >= y
  <2> HIDE DEF Upto
  <2> QED
    BY <1>4, Zenon DEF Max
<1> QED
  BY <1>5, <1>6

\* add_sections: raw_first and last_end.
LEMMA TableEnds ==
    ASSUME NEW img, WellFormed(img)
    PROVE  /\ raw_first(img) \in Nat /\ raw_first(img) <= img.len
           /\ \A i \in DOMAIN img.rows : raw_first(img) <= img.rows[i].raw
           /\ last_end(img) \in Nat
           /\ \A i \in DOMAIN img.rows : img.rows[i].va + img.rows[i].vsize <= last_end(img)
<1> DEFINE s == img.rows
           n == Len(s)
<1>1. s \in Seq(TableRow) /\ s # <<>> /\ img.len \in Nat
  BY DEF WellFormed
<1>2. n \in Nat /\ n > 0 /\ DOMAIN s = 1 .. n /\ \A i \in 1 .. n : s[i] \in TableRow
  BY <1>1
<1>3. \A i \in 1 .. n : s[i].raw \in Nat /\ s[i].rawsize \in Nat /\ s[i].va + s[i].vsize \in Nat
  BY <1>2 DEF TableRow
<1>4. \A i \in 1 .. n : s[i].raw + s[i].rawsize <= img.len
  BY <1>2 DEF WellFormed
<1> DEFINE A == {s[i].raw : i \in 1 .. n}
           g == [i \in 1 .. n |-> s[i].va + s[i].vsize]
           B == {0} \cup {g[i] : i \in 1 .. n}
<1>5. Min(A) \in A /\ \A y \in A : Min(A) <= y
  <2>1. 1 \in 1 .. n
    BY <1>2
  <2>2. A \subseteq Nat
    BY <1>3
  <2>3. s[1].raw \in A
    BY <2>1
  <2> QED
    BY <2>2, <2>3, LeastExists
<1>6. raw_first(img) = Min(A)
  BY <1>2 DEF raw_first
<1>7. last_end(img) = Max(B)
  <2>1. {g[i] : i \in 1 .. n} = {s[i].va + s[i].vsize : i \in 1 .. n}
    OBVIOUS
  <2> QED
    BY <1>2, <2>1 DEF last_end
<1>8. Max(B) \in Nat /\ \A y \in B : Max(B) >= y
  <2>1. \A i \in 1 .. n : g[i] \in Nat
    BY <1>3
  <2> HIDE DEF g
  <2> QED
    BY <1>2, <2>1, GreatestExists
<1>9. raw_first(img) \in Nat /\ raw_first(img) <= img.len
  <2>1. PICK i \in 1 .. n : Min(A) = s[i].raw
    BY <1>5
  <2>2. s[i].raw \in Nat /\ s[i].rawsize \in Nat /\ s[i].raw + s[i].rawsize <= img.len
    BY <1>3, <1>4
  <2>3. s[i].raw <= img.len
    BY <1>1, <2>2
  <2>4. raw_first(img) = s[i].raw
    BY <1>6, <2>1, Zenon
  <2> QED
    BY <2>2, <2>3, <2>4
<1>10. \A i \in 1 .. n : raw_first(img) <= s[i].raw
  BY <1>5, <1>6
<1>11. \A i \in 1 .. n : s[i].va + s[i].vsize <= last_end(img)
  <2>1. ASSUME NEW i \in 1 .. n PROVE s[i].va + s[i].vsize <= last_end(img)
    <3>1. g[i] = s[i].va + s[i].vsize /\ g[i] \in B /\ g[i] \in Nat
      BY <1>3
    <3> HIDE DEF B, g
    <3> QED
      BY <1>7, <1>8, <3>1
  <2> QED
    BY <2>1
<1> QED
  BY <1>2, <1>7, <1>8, <1>9, <1>10, <1>11

LEMMA AlignUp ==
    ASSUME NEW x \in Nat, NEW a \in Nat \ {0}
    PROVE  align(x, a) \in Nat /\ align(x, a) >= x /\ align(x, a) % a = 0
<1> DEFINE q == (x + a - 1) \div a
<1>1. q \in Nat
  OBVIOUS
<1>2. q * a >= x
  OBVIOUS
<1> HIDE DEF q
<1>3. q * a \in Nat /\ (q * a) % a = 0
  BY <1>1
<1> QED
  BY <1>2, <1>3 DEF align, q

\* A row behind the others joins rows that are apart.
LEMMA RowJoins ==
    ASSUME NEW s \in Seq(TableRow), RowsApart(s), NEW r \in TableRow,
           \A i \in DOMAIN s : s[i].va + s[i].vsize <= r.va /\ s[i].raw + s[i].rawsize <= r.raw
    PROVE  RowsApart(Append(s, r))
<1> DEFINE t == Append(s, r)
           n == Len(s)
<1>1. /\ n \in Nat /\ DOMAIN s = 1 .. n /\ DOMAIN t = 1 .. (n + 1)
      /\ t[n + 1] = r /\ \A i \in 1 .. n : t[i] = s[i]
  OBVIOUS
<1> HIDE DEF t, n
<1>2. ASSUME NEW i \in DOMAIN t, NEW j \in DOMAIN t, i # j
      PROVE  /\ Apart(t[i].va, t[i].vsize, t[j].va, t[j].vsize)
             /\ Apart(t[i].raw, t[i].rawsize, t[j].raw, t[j].rawsize)
  <2>1. (i \in 1 .. n \/ i = n + 1) /\ (j \in 1 .. n \/ j = n + 1)
    BY <1>1
  <2>2. CASE i \in 1 .. n /\ j \in 1 .. n
    BY <1>1, <1>2, <2>2 DEF RowsApart
  <2>3. CASE i \in 1 .. n /\ j = n + 1
    BY <1>1, <2>3 DEF Apart
  <2>4. CASE i = n + 1 /\ j \in 1 .. n
    BY <1>1, <2>4 DEF Apart
  <2> QED
    BY <1>2, <2>1, <2>2, <2>3, <2>4
<1> QED
  BY <1>2 DEF RowsApart, t

LEMMA UkiStartKeeps ==
    ASSUME UkiInv, UkiStart
    PROVE  UkiInv'
<1>1. /\ ukPc = "idle" /\ ukImage' \in UkiImages /\ ukTodo' \in UkiPayloads /\ UNCHANGED <<ukRows, ukSize>>
      /\ IF TableOverruns(ukImage', Len(ukTodo'))
         THEN ukPc' = "refused" /\ UNCHANGED <<ukLen, ukVa>>
         ELSE /\ ukPc' = "layout" /\ ukLen' = align(ukImage'.len, FileAlign)
              /\ ukVa' = align(last_end(ukImage'), SecAlign)
  BY DEF UkiStart
<1>2. ukRows = <<>> /\ ukLen = 0 /\ ukVa = 0 /\ ukSize = -1
  BY <1>1 DEF UkiInv
<1>3. CASE TableOverruns(ukImage', Len(ukTodo'))
  BY <1>1, <1>2, <1>3 DEF UkiInv
<1>4. CASE ~TableOverruns(ukImage', Len(ukTodo'))
  <2> DEFINE img == ukImage'
             n == Len(ukTodo')
             m == Len(img.rows)
  <2>1. WellFormed(img) /\ ukTodo' \in Seq(Nat) /\ n \in Nat
    BY <1>1, UkiFilesAssumption DEF UkiFilesAssumption
  <2>2. img.len \in Nat /\ img.table \in Nat /\ m \in Nat
    BY <2>1 DEF WellFormed
  <2>3. raw_first(img) \in Nat /\ last_end(img) \in Nat
    BY <2>1, TableEnds
  <2>4. ukLen' \in Nat /\ ukLen' >= img.len
    BY <1>1, <1>4, <2>2, AlignUp, UkiAssumption DEF UkiAssumption
  <2>5. ukVa' \in Nat /\ ukVa' >= last_end(img) /\ ukVa' % SecAlign = 0
    BY <1>1, <1>4, <2>3, AlignUp, UkiAssumption DEF UkiAssumption
  <2>6. img.table + UkiEntry * (m + n) <= raw_first(img)
    <3>1. ~(img.table + UkiEntry * (m + n) > raw_first(img))
      BY <1>4 DEF TableOverruns
    <3> DEFINE k == UkiEntry * (m + n)
    <3>2. k \in Nat
      BY <2>1, <2>2, UkiAssumption DEF UkiAssumption
    <3> HIDE DEF k, m, n, img
    <3> QED
      BY <2>2, <2>3, <3>1, <3>2 DEF k
  <2>7. ukRows' = <<>> /\ ukRows' \in Seq(TableRow) /\ Len(ukRows') = 0 /\ DOMAIN ukRows' = {}
    BY <1>1, <1>2
  <2>8. m + Len(ukRows') + n = m + n
    BY <2>1, <2>2, <2>7
  <2>9. RowsApart(ukRows)'
    BY <2>7 DEF RowsApart
  <2> HIDE DEF img, n, m
  <2>10. UkiLaidOut'
    BY <2>1, <2>4, <2>5, <2>6, <2>7, <2>8, <2>9 DEF UkiLaidOut, img, n, m
  <2> QED
    BY <1>1, <1>2, <1>4, <2>10 DEF UkiInv
<1> QED
  BY <1>3, <1>4

LEMMA UkiAddKeeps ==
    ASSUME UkiInv, UkiAdd
    PROVE  UkiInv'
<1> DEFINE size == Head(ukTodo)
           padded == align(size, FileAlign)
           r == [va |-> ukVa, vsize |-> size, raw |-> ukLen, rawsize |-> padded]
<1>1. /\ ukPc = "layout" /\ ukTodo # <<>> /\ UNCHANGED <<ukPc, ukImage, ukSize>>
      /\ ukRows' = Append(ukRows, r) /\ ukLen' = ukLen + padded /\ ukVa' = align(ukVa + size, SecAlign)
      /\ ukTodo' = Tail(ukTodo)
  BY DEF UkiAdd
<1>2. UkiLaidOut /\ ukSize = -1
  BY <1>1 DEF UkiInv
<1>3. /\ WellFormed(ukImage) /\ ukTodo \in Seq(Nat) /\ ukRows \in Seq(TableRow)
      /\ ukLen \in Nat /\ ukLen >= ukImage.len
      /\ ukVa \in Nat /\ ukVa >= last_end(ukImage) /\ ukVa % SecAlign = 0
  BY <1>2 DEF UkiLaidOut
<1>4. size \in Nat /\ ukTodo' \in Seq(Nat) /\ Len(ukTodo') = Len(ukTodo) - 1 /\ Len(ukTodo) \in Nat
  BY <1>1, <1>3
<1> HIDE DEF size
<1>5. padded \in Nat /\ padded >= size
  BY <1>4, AlignUp, UkiAssumption DEF UkiAssumption
<1> HIDE DEF padded
<1>6. ukVa' \in Nat /\ ukVa' >= ukVa + size /\ ukVa' % SecAlign = 0
  <2>1. ukVa + size \in Nat
    BY <1>3, <1>4
  <2> QED
    BY <1>1, <2>1, AlignUp, UkiAssumption DEF UkiAssumption
<1>7. /\ r \in TableRow /\ r.va = ukVa /\ r.vsize = size /\ r.raw = ukLen /\ r.rawsize = padded
  BY <1>3, <1>4, <1>5 DEF TableRow
<1> HIDE DEF r
<1>8. last_end(ukImage) \in Nat /\ ukImage.len \in Nat
  BY <1>3, TableEnds DEF WellFormed
<1>9. /\ ukRows' \in Seq(TableRow) /\ Len(ukRows') = Len(ukRows) + 1 /\ Len(ukRows) \in Nat
      /\ \A i \in DOMAIN ukRows' : (i \in DOMAIN ukRows /\ ukRows'[i] = ukRows[i]) \/ ukRows'[i] = r
  <2> DEFINE t == Append(ukRows, r)
  <2>1. /\ t \in Seq(TableRow) /\ Len(t) = Len(ukRows) + 1 /\ Len(ukRows) \in Nat
        /\ \A i \in DOMAIN t : (i \in DOMAIN ukRows /\ t[i] = ukRows[i]) \/ t[i] = r
    BY <1>3, <1>7
  <2>2. ukRows' = t
    BY <1>1
  <2> HIDE DEF t
  <2> QED
    BY <2>1, <2>2
<1>10. ukLen' \in Nat /\ ukLen' >= ukLen /\ ukLen' = ukLen + padded
  BY <1>1, <1>3, <1>5
<1>11. \A i \in DOMAIN ukRows : NewRow(ukRows[i]) /\ ukRows[i] \in TableRow
  BY <1>2, <1>3 DEF UkiLaidOut
<1>12. ASSUME NEW q \in TableRow, NewRow(q)
       PROVE  /\ q.va + q.vsize <= r.va /\ q.raw + q.rawsize <= r.raw
              /\ q.va % SecAlign = 0 /\ q.va >= last_end(ukImage) /\ q.va + q.vsize <= ukVa'
              /\ q.raw >= ukImage.len /\ q.rawsize >= q.vsize /\ q.raw + q.rawsize <= ukLen'
  <2>1. q.va \in Nat /\ q.vsize \in Nat /\ q.raw \in Nat /\ q.rawsize \in Nat
    BY DEF TableRow
  <2>2. /\ q.va % SecAlign = 0 /\ q.va >= last_end(ukImage) /\ q.va + q.vsize <= ukVa
        /\ q.raw >= ukImage.len /\ q.rawsize >= q.vsize /\ q.raw + q.rawsize <= ukLen
    BY <1>12 DEF NewRow
  <2>3. \A x, y, z \in Nat : x <= y /\ y <= z => x <= z
    OBVIOUS
  <2>4. ukVa \in Nat /\ ukVa' \in Nat /\ ukVa <= ukVa'
    BY <1>3, <1>4, <1>6
  <2>5. q.va + q.vsize \in Nat /\ q.raw + q.rawsize \in Nat
    BY <2>1
  <2>6. q.va + q.vsize <= ukVa'
    BY <2>2, <2>3, <2>4, <2>5
  <2>7. q.raw + q.rawsize <= ukLen'
    BY <1>3, <1>10, <2>2, <2>3, <2>5
  <2> QED
    BY <1>7, <2>2, <2>6, <2>7
<1>13. /\ r.va % SecAlign = 0 /\ r.va >= last_end(ukImage) /\ r.va + r.vsize <= ukVa'
       /\ r.raw >= ukImage.len /\ r.rawsize >= r.vsize /\ r.raw + r.rawsize <= ukLen'
  BY <1>3, <1>4, <1>5, <1>6, <1>7, <1>10
<1>14. \A i \in DOMAIN ukRows' : NewRow(ukRows[i])'
  <2>1. last_end(ukImage)' = last_end(ukImage) /\ ukImage' = ukImage
    BY <1>1 DEF last_end
  <2> SUFFICES ASSUME NEW i \in DOMAIN ukRows' PROVE NewRow(ukRows[i])'
    OBVIOUS
  <2>2. CASE i \in DOMAIN ukRows /\ ukRows'[i] = ukRows[i]
    BY <1>11, <1>12, <2>1, <2>2 DEF NewRow
  <2>3. CASE ukRows'[i] = r
    BY <1>13, <2>1, <2>3 DEF NewRow
  <2> QED
    BY <1>9, <2>2, <2>3
<1>15. RowsApart(ukRows)'
  <2>1. RowsApart(ukRows)
    BY <1>2 DEF UkiLaidOut
  <2>2. RowsApart(Append(ukRows, r))
    BY <1>3, <1>7, <1>11, <1>12, <2>1, RowJoins
  <2> QED
    BY <1>1, <2>2 DEF RowsApart
<1>16. Len(ukRows') + Len(ukTodo') = Len(ukRows) + Len(ukTodo)
  BY <1>4, <1>9
<1>17. Len(ukImage.rows) \in Nat
  BY <1>3 DEF WellFormed
<1>18. Len(ukImage.rows) + Len(ukRows') + Len(ukTodo') = Len(ukImage.rows) + Len(ukRows) + Len(ukTodo)
  <2>1. \A a, b, c, d, e \in Int : b + c = d + e => a + b + c = a + d + e
    OBVIOUS
  <2>2. /\ Len(ukImage.rows) \in Int /\ Len(ukRows) \in Int /\ Len(ukTodo) \in Int
        /\ Len(ukRows') \in Int /\ Len(ukTodo') \in Int
    BY <1>4, <1>9, <1>17
  <2> QED
    BY <1>16, <2>1, <2>2
<1>19. ukImage'.table + UkiEntry * (Len(ukImage'.rows) + Len(ukRows') + Len(ukTodo')) <= raw_first(ukImage')
  BY <1>1, <1>2, <1>18 DEF UkiLaidOut
<1>20. ukLen' >= ukImage.len /\ ukVa' >= last_end(ukImage)
  BY <1>3, <1>4, <1>6, <1>8, <1>10
<1>21. UkiLaidOut'
  BY <1>1, <1>3, <1>4, <1>6, <1>9, <1>10, <1>14, <1>15, <1>19, <1>20 DEF UkiLaidOut
<1> QED
  BY <1>1, <1>2, <1>21 DEF UkiInv

LEMMA UkiWriteKeeps ==
    ASSUME UkiInv, UkiWrite \/ UNCHANGED ukVars
    PROVE  UkiInv'
<1>1. UNCHANGED <<ukImage, ukTodo, ukRows, ukLen, ukVa>>
  BY DEF UkiWrite, ukVars
<1>2. \A x : NewRow(x)' <=> NewRow(x)
  BY <1>1 DEF NewRow
<1>3. RowsApart(ukRows)' <=> RowsApart(ukRows)
  BY <1>1 DEF RowsApart
<1>4. UkiLaidOut => UkiLaidOut'
  BY <1>1, <1>2, <1>3 DEF UkiLaidOut
<1>5. CASE UkiWrite
  BY <1>4, <1>5 DEF UkiWrite, UkiInv
<1>6. CASE UNCHANGED ukVars
  BY <1>1, <1>4, <1>6 DEF UkiInv, ukVars
<1> QED
  BY <1>5, <1>6

LEMMA UkiInductive == UkiSpec => []UkiInv
<1>1. UkiInit => UkiInv
  BY DEF UkiInit, UkiInv
<1>2. UkiInv /\ [UkiNext]_ukVars => UkiInv'
  BY UkiStartKeeps, UkiAddKeeps, UkiWriteKeeps DEF UkiNext
<1> QED
  BY <1>1, <1>2, PTL DEF UkiSpec

\* The rows of the written table, old and new.
LEMMA RowsOfFile ==
    ASSUME UkiLaidOut
    PROVE  /\ Len(AllRows) = Len(ukImage.rows) + Len(ukRows)
           /\ \A i \in DOMAIN AllRows :
                \/ i \in DOMAIN ukImage.rows /\ AllRows[i] = ukImage.rows[i]
                \/ /\ i - Len(ukImage.rows) \in DOMAIN ukRows
                   /\ AllRows[i] = ukRows[i - Len(ukImage.rows)] /\ i > Len(ukImage.rows)
           /\ DOMAIN AllRows \subseteq Nat /\ Len(ukImage.rows) \in Nat
           /\ DOMAIN ukImage.rows = 1 .. Len(ukImage.rows)
<1> DEFINE s == ukImage.rows
           t == ukRows
<1>1. s \in Seq(TableRow) /\ t \in Seq(TableRow)
  BY DEF UkiLaidOut, WellFormed
<1>2. Len(s) \in Nat /\ Len(t) \in Nat /\ DOMAIN s = 1 .. Len(s) /\ DOMAIN t = 1 .. Len(t)
  BY <1>1
<1> HIDE DEF s, t
<1>3. /\ s \o t \in Seq(TableRow) /\ Len(s \o t) = Len(s) + Len(t)
      /\ \A i \in 1 .. (Len(s) + Len(t)) : (s \o t)[i] = IF i <= Len(s) THEN s[i] ELSE t[i - Len(s)]
  BY <1>1, ConcatProperties
<1> DEFINE u == s \o t
<1>4. DOMAIN u = 1 .. (Len(s) + Len(t))
  BY <1>1, <1>2, <1>3
<1>5. AllRows = u
  BY DEF AllRows, s, t
<1> HIDE DEF u
<1>6. ASSUME NEW i \in 1 .. (Len(s) + Len(t))
      PROVE  \/ i \in DOMAIN s /\ u[i] = s[i]
             \/ i - Len(s) \in DOMAIN t /\ u[i] = t[i - Len(s)] /\ i > Len(s)
  <2>1. CASE i <= Len(s)
    BY <1>2, <1>3, <2>1 DEF u
  <2>2. CASE ~(i <= Len(s))
    BY <1>2, <1>3, <2>2 DEF u
  <2> QED
    BY <2>1, <2>2
<1>7. Len(u) = Len(s) + Len(t) /\ DOMAIN u \subseteq Nat
  BY <1>2, <1>3, <1>4 DEF u
<1> QED
  BY <1>2, <1>4, <1>5, <1>6, <1>7 DEF s, t

\* make-uki.py, for any well-formed image and any sections: lengths and places
\* are natural numbers, and the file holds every section that was added.
THEOREM UkiTyped == UkiSpec => []UkiTypeOK
<1>1. UkiInv => UkiTypeOK
  <2> SUFFICES ASSUME UkiInv PROVE UkiTypeOK
    OBVIOUS
  <2>1. CASE ukPc \in {"idle", "refused"}
    BY <2>1 DEF UkiInv, UkiTypeOK
  <2>2. CASE ukPc \in {"layout", "done"}
    BY <2>2 DEF UkiInv, UkiLaidOut, UkiTypeOK, NewRow
  <2> QED
    BY <2>1, <2>2 DEF UkiInv
<1> QED
  BY <1>1, UkiInductive, PTL

\* make-uki.py, for any well-formed image, any sections and any alignments: no
\* two sections of a written file share memory or bytes of the file, every new
\* one starts at a section boundary inside SizeOfImage, and the longer table
\* covers no section's data.
THEOREM WrittenFileLoads == UkiSpec => []UkiLoads
<1>1. UkiInv => UkiLoads
  <2> SUFFICES ASSUME UkiInv, ukPc = "done" PROVE UkiLoads
    BY DEF UkiLoads
  <2> DEFINE n == Len(ukImage.rows)
             F == AllRows
             old(i) == i \in DOMAIN ukImage.rows /\ F[i] = ukImage.rows[i]
             new(i) == i - n \in DOMAIN ukRows /\ F[i] = ukRows[i - n] /\ i > n
  <2>1. UkiLaidOut /\ ukSize = ukVa /\ ukTodo = <<>>
    BY DEF UkiInv
  <2>2. /\ WellFormed(ukImage) /\ ukVa \in Nat /\ ukVa >= last_end(ukImage)
        /\ RowsApart(ukRows) /\ \A i \in DOMAIN ukRows : NewRow(ukRows[i]) /\ ukRows[i] \in TableRow
    BY <2>1 DEF UkiLaidOut
  <2>3. /\ raw_first(ukImage) \in Nat /\ raw_first(ukImage) <= ukImage.len
        /\ \A i \in DOMAIN ukImage.rows : raw_first(ukImage) <= ukImage.rows[i].raw
        /\ last_end(ukImage) \in Nat
        /\ \A i \in DOMAIN ukImage.rows : ukImage.rows[i].va + ukImage.rows[i].vsize <= last_end(ukImage)
    BY <2>2, TableEnds
  <2>4. /\ n \in Nat /\ DOMAIN F \subseteq Nat /\ \A i \in DOMAIN F : old(i) \/ new(i)
    BY <2>1, RowsOfFile
  <2>5. /\ ukImage.len \in Nat /\ ukImage.table \in Nat
        /\ \A i \in DOMAIN ukImage.rows :
             ukImage.rows[i] \in TableRow /\ ukImage.rows[i].raw + ukImage.rows[i].rawsize <= ukImage.len
    BY <2>2 DEF WellFormed
  <2>6. ASSUME NEW i \in DOMAIN F, old(i)
        PROVE  /\ F[i] \in TableRow /\ F[i].va + F[i].vsize <= last_end(ukImage)
               /\ F[i].raw + F[i].rawsize <= ukImage.len /\ F[i].raw >= raw_first(ukImage)
    <3>1. /\ ukImage.rows[i] \in TableRow /\ ukImage.rows[i].raw >= raw_first(ukImage)
      BY <2>3, <2>5, <2>6 DEF TableRow
    <3> QED
      BY <2>3, <2>5, <2>6, <3>1
  <2>7. ASSUME NEW i \in DOMAIN F, new(i)
        PROVE  F[i] \in TableRow /\ NewRow(F[i])
    BY <2>2, <2>7
  <2>8. ASSUME NEW i \in DOMAIN F, NEW j \in DOMAIN F, old(i), new(j)
        PROVE  /\ F[i].va + F[i].vsize <= F[j].va /\ F[i].raw + F[i].rawsize <= F[j].raw
    <3>1. /\ F[i] \in TableRow /\ F[i].va + F[i].vsize <= last_end(ukImage)
          /\ F[i].raw + F[i].rawsize <= ukImage.len /\ F[j] \in TableRow
          /\ F[j].va >= last_end(ukImage) /\ F[j].raw >= ukImage.len
      BY <2>6, <2>7, <2>8 DEF NewRow
    <3> DEFINE a == F[i]
               b == F[j]
    <3>2. /\ a.va \in Nat /\ a.vsize \in Nat /\ a.raw \in Nat /\ a.rawsize \in Nat
          /\ b.va \in Nat /\ b.raw \in Nat
      BY <3>1 DEF TableRow
    <3> QED
      BY <2>3, <2>5, <3>1, <3>2
  <2> HIDE DEF F
  <2>9. ASSUME NEW i \in DOMAIN F, NEW j \in DOMAIN F, i # j
        PROVE  /\ Apart(F[i].va, F[i].vsize, F[j].va, F[j].vsize)
               /\ Apart(F[i].raw, F[i].rawsize, F[j].raw, F[j].rawsize)
    <3>1. CASE old(i) /\ old(j)
      BY <2>2, <2>9, <3>1 DEF WellFormed
    <3>2. CASE new(i) /\ new(j)
      <4>1. i \in Nat /\ j \in Nat /\ i - n # j - n
        BY <2>4, <2>9
      <4> QED
        BY <2>2, <3>2, <4>1 DEF RowsApart
    <3>3. CASE old(i) /\ new(j)
      BY <2>8, <3>3 DEF Apart
    <3>4. CASE new(i) /\ old(j)
      BY <2>8, <3>4 DEF Apart
    <3> QED
      BY <2>4, <3>1, <3>2, <3>3, <3>4
  <2>10. ASSUME NEW i \in DOMAIN F
         PROVE  F[i].va + F[i].vsize <= ukSize /\ F[i].raw >= raw_first(ukImage)
    <3>1. CASE old(i)
      <4>1. F[i].va \in Nat /\ F[i].vsize \in Nat
        BY <2>6, <3>1 DEF TableRow
      <4> QED
        BY <2>1, <2>2, <2>3, <2>6, <3>1, <4>1
    <3>2. CASE new(i)
      <4>1. F[i].raw \in Nat /\ NewRow(F[i])
        BY <2>7, <3>2 DEF TableRow
      <4> QED
        BY <2>1, <2>3, <2>5, <4>1 DEF NewRow
    <3> QED
      BY <2>4, <3>1, <3>2
  <2>11. ukImage.table + UkiEntry * Len(F) <= raw_first(ukImage)
    <3>1. Len(F) = n + Len(ukRows) /\ Len(ukRows) \in Nat /\ Len(ukTodo) = 0
      BY <2>1, RowsOfFile DEF F, UkiLaidOut
    <3>2. n + Len(ukRows) + Len(ukTodo) = Len(F)
      BY <2>4, <3>1
    <3> QED
      BY <2>1, <3>2 DEF UkiLaidOut
  <2>12. ASSUME NEW i \in DOMAIN F
         PROVE  ukImage.table + UkiEntry * Len(F) <= F[i].raw
    <3>1. Len(F) \in Nat /\ UkiEntry * Len(F) \in Nat
      <4>1. Len(F) = n + Len(ukRows) /\ Len(ukRows) \in Nat
        BY <2>1, RowsOfFile DEF F, UkiLaidOut
      <4>2. Len(F) \in Nat
        BY <2>4, <4>1
      <4> QED
        BY <4>2, UkiAssumption DEF UkiAssumption
    <3>2. F[i].raw \in Nat
      BY <2>4, <2>6, <2>7 DEF TableRow
    <3> DEFINE k == UkiEntry * Len(F)
    <3>3. k \in Nat /\ ukImage.table + k <= raw_first(ukImage) /\ F[i].raw >= raw_first(ukImage)
      BY <2>10, <2>11, <3>1
    <3> HIDE DEF k
    <3>4. ukImage.table + k <= F[i].raw
      BY <2>3, <2>5, <3>2, <3>3
    <3> QED
      BY <3>4 DEF k
  <2>13. \A i \in DOMAIN ukRows : ukRows[i].va % SecAlign = 0
    BY <2>2 DEF NewRow
  <2> QED
    BY <2>9, <2>10, <2>12, <2>13 DEF UkiLoads, F
<1> QED
  BY <1>1, UkiInductive, PTL

-----------------------------------------------------------------------------
\* In a run of any of the tools, the hosted ladder and make-uki.py behave as
\* they do alone, so what is proved of them holds of the composed run.
THEOREM ToolsRunAlone == ScriptsSpec => HostedSpec /\ UkiSpec
<1>1. ScriptsInit => HostedInit /\ UkiInit
  BY DEF ScriptsInit, ToolsInit
<1>2. [ScriptsNext]_scriptVars => NoTool \/ [ToolsNext]_toolsVars
  BY DEF ScriptsNext, scriptVars
<1>3. [ScriptsNext]_scriptVars => [HostedNext]_hostVars
  BY <1>2 DEF NoTool, ToolsNext, toolsVars, ArchRuns, HostedRuns, NativeRuns, UkiRuns, NoHosted
<1>4. [ScriptsNext]_scriptVars => [UkiNext]_ukVars
  BY <1>2 DEF NoTool, ToolsNext, toolsVars, ArchRuns, HostedRuns, NativeRuns, UkiRuns, NoUki
<1> QED
  BY <1>1, <1>3, <1>4, PTL DEF ScriptsSpec, HostedSpec, UkiSpec
=============================================================================
