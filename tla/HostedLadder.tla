---------------------------- MODULE HostedLadder ----------------------------
(***************************************************************************)
(* scripts/hosted-ladder.py: the rungs on the hosted Linux ports.  For     *)
(* each architecture one positive control runs first, alone, with an       *)
(* expected value that is wrong on purpose; then the cells run in a thread *)
(* pool and the results are counted in rung order.                         *)
(***************************************************************************)
EXTENDS Integers, Sequences, FiniteSets

CONSTANTS HostedArches,   \* how many architectures this invocation grades
          HostedExpected, \* for each rung, in order, the number its header names
          HostedAnswers,  \* the values a rung's probe may return
          HostedModulus,  \* the values of the word an image prints: 2^32
          HostedJobs      \* the values HOSTED_LADDER_JOBS may have

ASSUME HostedShapeAssumption ==
  /\ HostedArches \in Nat \ {0}
  /\ HostedExpected \in Seq(Int) /\ HostedExpected # <<>>
  /\ HostedAnswers \subseteq Int
  /\ HostedModulus \in Nat \ {0}
  /\ HostedJobs \subseteq Int

VARIABLES
  hostPc,       \* "idle", "control", "pool", "raising" or "done"
  hostJobs,     \* HOSTED_LADDER_JOBS
  hostArch,     \* the architecture being graded
  hostControl,  \* architecture -> its control cell
  hostCells,    \* architecture -> rung -> cell
  hostFailures, \* failures
  hostExit      \* exit status, -1 while running

hostVars == <<hostPc, hostJobs, hostArch, hostControl, hostCells, hostFailures, hostExit>>

Rungs == 1..Len(HostedExpected)
Arches == 1..HostedArches

\* jobs(), and n = min(jobs(), len(rungs)).
jobs == IF hostJobs > 1 THEN hostJobs ELSE 1
PoolWidth == IF jobs < Len(HostedExpected) THEN jobs ELSE Len(HostedExpected)

expected_of(r) == HostedExpected[r]

\* payload and int.from_bytes: four bytes of the answer, low byte first, put
\* together again, so that a negative answer comes back as a large word.
PrintedWord(v) == v % HostedModulus

\* A cell: where it is, its outcome ("raised" for an exception that leaves
\* run_cell), and the word its image printed, -1 for none.
QueuedCell == [at |-> "queued", outcome |-> "", got |-> -1]
BuildingCell == [QueuedCell EXCEPT !.at = "build"]
Ended(cell, outcome) == [cell EXCEPT !.at = "done", !.outcome = outcome]

\* run_cell, in the two subprocesses it waits for: the build, whose timeout is
\* not caught, and the emulator, whose timeout is; a missing emulator raises.
\* The value is the set of cells that may follow.
run_cell(cell, expect) ==
  IF cell.at = "build"
  THEN {[cell EXCEPT !.at = "emulate"], Ended(cell, "BUILD"), Ended(cell, "raised")}
  ELSE {Ended(cell, "RUN"), Ended(cell, "raised")}
       \cup {[Ended(cell, IF w = expect THEN "PASS" ELSE "WRONG") EXCEPT !.got = w] :
               w \in {PrintedWord(v) : v \in HostedAnswers}}

HostedInit ==
  /\ hostPc = "idle"
  /\ hostJobs = 0
  /\ hostArch = 1
  /\ hostControl = [a \in Arches |-> BuildingCell]
  /\ hostCells = [a \in Arches |-> [r \in Rungs |-> QueuedCell]]
  /\ hostFailures = 0
  /\ hostExit = -1

Cells == hostCells[hostArch]
Control == hostControl[hostArch]
InFlight == {r \in Rungs : Cells[r].at \in {"build", "emulate"}}
NotPassed == {r \in Rungs : Cells[r].outcome # "PASS"}

HostedFinish(code) == hostPc' = "done" /\ hostExit' = code

\* main: the script is invoked.
HostedInvoke ==
  /\ hostPc = "idle"
  /\ hostPc' = "control"
  /\ hostJobs' \in HostedJobs
  /\ UNCHANGED <<hostArch, hostControl, hostCells, hostFailures, hostExit>>

\* main: the control cell, rung 1 with its expected value off by one.
ControlStep ==
  /\ hostPc = "control"
  /\ Control.at # "done"
  /\ \E c \in run_cell(Control, expected_of(1) + 1) :
       hostControl' = [hostControl EXCEPT ![hostArch] = c]
  /\ UNCHANGED <<hostPc, hostJobs, hostArch, hostCells, hostFailures, hostExit>>

\* The control that takes any failure for "failed as required".
AnyFailure == Control.outcome # "PASS"
ControlAccepted == Control.outcome = "WRONG"

\* main: only the outcome WRONG lets the architecture be graded; PASS and the
\* control that did not run both refuse with status 2.
ControlDecides ==
  /\ hostPc = "control"
  /\ Control.at = "done"
  /\ CASE ControlAccepted -> hostPc' = "pool" /\ UNCHANGED hostExit
       [] Control.outcome = "raised" -> HostedFinish(1)
       [] OTHER -> HostedFinish(2)
  /\ UNCHANGED <<hostJobs, hostArch, hostControl, hostCells, hostFailures>>

\* ThreadPoolExecutor: a free worker takes the first queued rung.
CellStarts(r) ==
  /\ hostPc = "pool"
  /\ Cells[r].at = "queued"
  /\ \A q \in Rungs : q < r => Cells[q].at # "queued"
  /\ Cardinality(InFlight) < PoolWidth
  /\ hostCells' = [hostCells EXCEPT ![hostArch][r] = BuildingCell]
  /\ UNCHANGED <<hostPc, hostJobs, hostArch, hostControl, hostFailures, hostExit>>

CellStep(r) ==
  /\ hostPc \in {"pool", "raising"}
  /\ r \in InFlight
  /\ \E c \in run_cell(Cells[r], expected_of(r)) :
       hostCells' = [hostCells EXCEPT ![hostArch][r] = c]
  /\ UNCHANGED <<hostPc, hostJobs, hostArch, hostControl, hostFailures, hostExit>>

\* The count of failures after this architecture's results.
Counted == hostFailures + Cardinality(NotPassed)

\* main: the pool has drained and the results are counted; then the next
\* architecture, or the exit status.
PoolDrained ==
  /\ hostPc = "pool"
  /\ \A r \in Rungs : Cells[r].at = "done" /\ Cells[r].outcome # "raised"
  /\ hostFailures' = Counted
  /\ IF hostArch < HostedArches
     THEN hostPc' = "control" /\ hostArch' = hostArch + 1 /\ UNCHANGED hostExit
     ELSE HostedFinish(IF hostFailures' = 0 THEN 0 ELSE 1) /\ UNCHANGED hostArch
  /\ UNCHANGED <<hostJobs, hostControl, hostCells>>

\* list(pool.map(..)) takes the results in rung order; one that raised raises
\* again there, and the cells no worker has taken are cancelled.
PoolRaises(r) ==
  /\ hostPc = "pool"
  /\ Cells[r].outcome = "raised"
  /\ \A q \in Rungs : q < r => Cells[q].at = "done" /\ Cells[q].outcome # "raised"
  /\ hostPc' = "raising"
  /\ UNCHANGED <<hostJobs, hostArch, hostControl, hostCells, hostFailures, hostExit>>

\* The with statement waits for the workers before the exception leaves main.
PoolUnwinds ==
  /\ hostPc = "raising"
  /\ InFlight = {}
  /\ HostedFinish(1)
  /\ UNCHANGED <<hostJobs, hostArch, hostControl, hostCells, hostFailures>>

HostedNext ==
  \/ HostedInvoke
  \/ ControlStep
  \/ ControlDecides
  \/ \E r \in Rungs : CellStarts(r) \/ CellStep(r) \/ PoolRaises(r)
  \/ PoolDrained
  \/ PoolUnwinds

HostedSpec == HostedInit /\ [][HostedNext]_hostVars

-----------------------------------------------------------------------------
CellType == [at : {"queued", "build", "emulate", "done"},
             outcome : {"", "PASS", "WRONG", "BUILD", "RUN", "raised"},
             got : -1..(HostedModulus - 1)]

\* The harness's state keeps its shape, and it counts at most one failure for
\* each cell.
HostedTypeOK ==
  /\ hostPc \in {"idle", "control", "pool", "raising", "done"}
  /\ hostJobs \in Int
  /\ hostArch \in Arches
  /\ hostControl \in [Arches -> CellType]
  /\ hostCells \in [Arches -> [Rungs -> CellType]]
  /\ hostFailures \in 0..HostedArches * Len(HostedExpected)
  /\ hostExit \in {-1, 0, 1, 2}

\* "Exit code is 0 only when every cell passed AND the positive control
\* failed": on status 0 every image of every architecture printed its rung's
\* number, and every control printed a number that was rejected.
CleanExitMeansGraded ==
  hostExit = 0 => \A a \in Arches :
    /\ hostControl[a].outcome = "WRONG" /\ hostControl[a].got # -1
    /\ \A r \in Rungs : hostCells[a][r].got = expected_of(r)
=============================================================================
