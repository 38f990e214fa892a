------------------------------- MODULE Netboot ------------------------------
(***************************************************************************)
(* scripts/netboot-core-gz.py and                                          *)
(* docs/reel-on-zero/zlinux/netboot-linux.py: a board reset into U-Boot    *)
(* and driven by typed commands and by what comes back on the serial line  *)
(* within a time window.  Both scripts fetch files over an unreliable USB  *)
(* network adapter, try again on failure, and start what they fetched.     *)
(*                                                                         *)
(* External: U-Boot.  It runs one command at a time and drops what is      *)
(* typed meanwhile; a transfer ends with "Bytes transferred", with "Retry  *)
(* count exceeded" (and U-Boot starts it over by itself), or with a        *)
(* receive error and no marker; control-C stops a transfer unless the      *)
(* adapter is wedged; unzip checks what it reads.  RAM keeps its contents  *)
(* across the reset.                                                       *)
(***************************************************************************)
EXTENDS Integers, Sequences, FiniteSets

CONSTANTS TftpTries, \* --tftp-tries
          CoreTries  \* tries of the core's transfer: 4

ASSUME NetbootAssumption == TftpTries \in Nat \ {0} /\ CoreTries \in Nat \ {0}

VARIABLES
  nbPc,     \* "idle", "run", "window", "abort" or "done"
  nbKind,   \* "none", or which plan: "plain", "core" (--core) or "linux"
  nbPlan,   \* the stages this invocation still has to go through
  nbTry,    \* tries left of the transfer of the current stage
  nbCoreOk, \* ok, as the core's loop leaves it
  nbSize,   \* the initrd size printenv gave, "none" if it was not seen
  nbExit,   \* exit status, -1 while running
  nbOut,    \* markers U-Boot has printed and the script has not read
  ubBusy,   \* the region U-Boot is transferring to, or "no"
  ubMem,    \* region -> "old", "part", "whole" or "zero"
  ubFile,   \* U-Boot's filesize variable: the last region transferred
  ubStarted \* U-Boot has handed over to what was fetched

nbScript == <<nbPc, nbKind, nbPlan, nbTry, nbCoreOk, nbSize, nbExit>>
nbVars == <<nbScript, nbOut, ubBusy, ubMem, ubFile, ubStarted>>

\* 0x08000000 where the gzipped image lands, the image, the core at
\* 0x18000000, the initramfs and the device tree.
Regions == {"load", "image", "core", "initrd", "dtb"}

Fetch(r) == [do |-> "fetch", region |-> r]
Do(what) == [do |-> what, region |-> "none"]

\* The stages of the two scripts: without --core, with it, and for Linux; and
\* the first without the clearing of the core's magic word.
NoClear == <<Fetch("load"), Do("unzip"), Do("go")>>
PlainPlan == <<Fetch("load"), Do("unzip"), Do("clear"), Do("go")>>
CorePlan == <<Fetch("load"), Do("unzip"), Fetch("core"), Do("go")>>
LinuxPlan == <<Fetch("load"), Do("unzip"), Fetch("initrd"), Do("filesize"), Fetch("dtb"),
               Do("go")>>
Plan(kind) == CASE kind = "plain" -> PlainPlan [] kind = "core" -> CorePlan
                [] kind = "linux" -> LinuxPlan

NetbootInit ==
  /\ nbPc = "idle" /\ nbKind = "none" /\ nbPlan = <<>> /\ nbTry = 0 /\ nbCoreOk = FALSE /\ nbSize = "none"
  /\ nbExit = -1 /\ nbOut = {}
  /\ ubBusy = "no" /\ ubMem = [r \in Regions |-> "old"] /\ ubFile = "none"
  /\ ubStarted = FALSE

Stage == Head(nbPlan)
\* How often a transfer is tried.
TriesOf(r) == IF r = "core" THEN CoreTries ELSE TftpTries

NetbootFinish(code) == nbPc' = "done" /\ nbExit' = code

\* To the next stage, with its tries.
Advance ==
  /\ nbPc' = "run"
  /\ nbPlan' = Tail(nbPlan)
  /\ nbTry' = IF Len(nbPlan) > 1 THEN TriesOf(nbPlan[2].region) ELSE 0

\* Reset, the autoboot stop, usb start and the bind loop: six pings with a usb
\* reset between them, and on with it whether or not one was answered.
NetbootStart(kind) ==
  /\ nbPc = "idle"
  /\ nbPc' = "run"
  /\ nbKind' = kind
  /\ nbPlan' = Plan(kind)
  /\ nbTry' = TriesOf("load")
  /\ UNCHANGED <<nbCoreOk, nbSize, nbExit, nbOut, ubBusy, ubMem, ubFile, ubStarted>>

Typed(what) == nbPc = "run" /\ nbPlan # <<>> /\ Stage.do = what

\* tftp: the command is typed.  Blocks over a whole copy of the same file leave
\* it whole.
TftpCommand ==
  /\ Typed("fetch")
  /\ nbPc' = "window"
  /\ IF ubBusy = "no"
     THEN /\ ubBusy' = Stage.region
          /\ ubMem' = [ubMem EXCEPT ![Stage.region] = IF @ = "whole" THEN @ ELSE "part"]
     ELSE UNCHANGED <<ubBusy, ubMem>>
  /\ UNCHANGED <<nbKind, nbPlan, nbTry, nbCoreOk, nbSize, nbExit, nbOut, ubFile, ubStarted>>

\* The marker that makes a window a success.
Transferred(out) == "transferred" \in out

\* tftp: the window ends; all that came in it has been read.
TftpWindow ==
  /\ nbPc = "window"
  /\ nbOut' = {}
  /\ IF Transferred(nbOut)
     THEN /\ Advance
          /\ nbCoreOk' = (nbCoreOk \/ Stage.region = "core")
     ELSE /\ nbPc' = "abort"
          /\ UNCHANGED <<nbPlan, nbTry, nbCoreOk>>
  /\ UNCHANGED <<nbKind, nbSize, nbExit, ubBusy, ubMem, ubFile, ubStarted>>

\* The last try: the image, the initramfs and the device tree are given up
\* with status 2; the core's loop only prints ok=False and goes on.  And the
\* loop that falls out of its last try as if it had succeeded.
FallThrough == Advance /\ UNCHANGED nbExit
OutOfTries ==
  IF Stage.region = "core"
  THEN Advance /\ UNCHANGED nbExit
  ELSE NetbootFinish(2) /\ UNCHANGED <<nbPlan, nbTry>>

\* The tries left after this one; and a try that is not counted.
NotCounted == nbTry
TriesLeft == nbTry - 1

\* tftp: control-C, usb stop, usb start; what is printed meanwhile is read and
\* dropped.  A wedged adapter does not hear the control-C.
TftpAbort ==
  /\ nbPc = "abort"
  /\ nbOut' = {}
  /\ ubBusy' \in {"no", ubBusy}
  /\ IF TriesLeft > 0
     THEN nbPc' = "run" /\ nbTry' = TriesLeft /\ UNCHANGED <<nbPlan, nbExit>>
     ELSE OutOfTries
  /\ UNCHANGED <<nbKind, nbCoreOk, nbSize, ubMem, ubFile, ubStarted>>

\* unzip 0x08000000: prints its size only for a whole gzip.  A command typed
\* into a transfer is lost, and then there is no answer either.
UnzipWorks == ubBusy = "no" /\ ubMem["load"] = "whole"

Unzip ==
  /\ Typed("unzip")
  /\ nbOut' = {}
  /\ IF UnzipWorks
     THEN Advance /\ ubMem' = [ubMem EXCEPT !["image"] = "whole"] /\ UNCHANGED nbExit
     ELSE NetbootFinish(3) /\ UNCHANGED <<nbPlan, nbTry, ubMem>>
  /\ UNCHANGED <<nbKind, nbCoreOk, nbSize, ubBusy, ubFile, ubStarted>>

\* mw.q 0x18000000 0: no core's magic word there.
ClearCore ==
  /\ Typed("clear")
  /\ nbOut' = {}
  /\ Advance
  /\ ubMem' = IF ubBusy = "no" THEN [ubMem EXCEPT !["core"] = "zero"] ELSE ubMem
  /\ UNCHANGED <<nbKind, nbCoreOk, nbSize, nbExit, ubBusy, ubFile, ubStarted>>

\* printenv filesize, read back into the booti command.
ReadFilesize ==
  /\ Typed("filesize")
  /\ nbOut' = {}
  /\ Advance
  /\ nbSize' = IF ubBusy = "no" THEN ubFile ELSE "none"
  /\ UNCHANGED <<nbKind, nbCoreOk, nbExit, ubBusy, ubMem, ubFile, ubStarted>>

\* The device tree's commands, the pre-go commands, then go or booti (which
\* refuses a size that is not a number); the console is read for a while and
\* the script ends, which is status 0.
Go ==
  /\ Typed("go")
  /\ nbOut' = {}
  /\ NetbootFinish(0)
  /\ ubStarted' = (ubBusy = "no" /\ (nbKind = "linux" => nbSize # "none"))
  /\ UNCHANGED <<nbKind, nbPlan, nbTry, nbCoreOk, nbSize, ubBusy, ubMem, ubFile>>

NetbootScript ==
  \/ \E kind \in {"plain", "core", "linux"} : NetbootStart(kind)
  \/ TftpCommand \/ TftpWindow \/ TftpAbort \/ Unzip \/ ClearCore \/ ReadFilesize \/ Go

-----------------------------------------------------------------------------
(* U-Boot's transfer. *)

TransferDone ==
  /\ ubBusy # "no"
  /\ ubMem' = [ubMem EXCEPT ![ubBusy] = "whole"]
  /\ ubFile' = ubBusy
  /\ nbOut' = nbOut \cup {"transferred"}
  /\ ubBusy' = "no"
  /\ UNCHANGED <<nbScript, ubStarted>>

\* "Retry count exceeded; starting again", or a receive error that ends it.
TransferFails ==
  /\ ubBusy # "no"
  /\ \/ nbOut' = nbOut \cup {"retry"} /\ UNCHANGED ubBusy
     \/ ubBusy' = "no" /\ UNCHANGED nbOut
  /\ UNCHANGED <<nbScript, ubMem, ubFile, ubStarted>>

NetbootNext == NetbootScript \/ TransferDone \/ TransferFails

NetbootSpec == NetbootInit /\ [][NetbootNext]_nbVars

-----------------------------------------------------------------------------
\* The script's view, U-Boot's markers and the memory keep their shape.
NetbootTypeOK ==
  /\ nbPc \in {"idle", "run", "window", "abort", "done"}
  /\ nbTry \in 0..TftpTries \cup 0..CoreTries
  /\ nbCoreOk \in BOOLEAN
  /\ nbSize \in {"none"} \cup Regions
  /\ nbExit \in {-1, 0, 2, 3}
  /\ nbOut \subseteq {"transferred", "retry"}
  /\ ubBusy \in {"no"} \cup Regions
  /\ ubMem \in [Regions -> {"old", "part", "whole", "zero"}]
  /\ ubFile \in {"none"} \cup Regions

\* Whatever a late marker, a lost command or a wedged adapter did, what is
\* started is a whole image: nothing left from an earlier session and nothing
\* cut short; for Linux the initramfs and device tree too, with the initramfs's
\* own size.
StartsWholeImage ==
  ubStarted =>
    /\ ubMem["image"] = "whole"
    /\ nbKind = "linux" =>
         ubMem["initrd"] = "whole" /\ ubMem["dtb"] = "whole" /\ nbSize = "initrd"

\* A board started without --core finds no core of an earlier boot in the RAM
\* that survived the reset; with --core, the printed ok=True is the truth even
\* when the marker seen in the window was an earlier try's.
CoreAsReported ==
  ubStarted =>
    /\ nbKind = "plain" => ubMem["core"] = "zero"
    /\ nbKind = "core" /\ nbCoreOk => ubMem["core"] = "whole"
=============================================================================
