----------------------------- MODULE BoardVideo -----------------------------
(***************************************************************************)
(* docs/reel-on-zero/board-video.py: one session with the board.  The      *)
(* script netboots it (module Netboot), has the restored core re-linked by *)
(* tagged queries on the serial REPL, starts the board's SSH server from   *)
(* there, and then drives it by one SSH connection per form, each form     *)
(* tried three times.                                                      *)
(*                                                                         *)
(* The board runs modus: its REPL (lib/serial-repl.lisp) evaluates the     *)
(* lines typed at it one after the other; its SSH server (net/ssh.lisp and *)
(* the overrides of mvm/build-cl-repl-common.lisp) takes no connection     *)
(* while it serves one, finishes the form of a client that has gone, and   *)
(* answers an error as it answers a value.  A restore believes a core by   *)
(* its magic word, the first thing a transfer writes.  External: the UART, *)
(* which loses a line typed while another is evaluated.                    *)
(***************************************************************************)
EXTENDS Netboot

CONSTANTS Clips,       \* --clip, in order: a sequence
          SerialTries, \* probes of the serial REPL: 8
          UpRounds     \* bound: rounds of the 240 s wait for the SSH server

ASSUME VideoAssumption ==
  Clips \in Seq(STRING) /\ SerialTries \in Nat \ {0} /\ UpRounds \in Nat \ {0}

VARIABLES
  bvPc,      \* the step of the session
  bvClip,    \* which clip
  bvTry,     \* probes or SSH attempts left for this step
  bvTag,     \* tag of the query waited for; also the number of queries so far
  bvTook,    \* the serial queries the script takes for answered
  bvWait,    \* "no", "serial", or an SSH client: "open" (not served yet), "served"
  bvExit,    \* exit status, -1 while running
  rpQueue,   \* lines typed at the serial REPL: [tag, form]
  rpOut,     \* answers on the serial line: [tag, form]
  bdLinked,  \* (jit-eager) has been evaluated since the restore
  bdSsh,     \* the SSH server runs
  bdForm,    \* the form of an SSH connection being evaluated: [step, clip]
  bdInit,    \* (rh-init) has been evaluated
  bdLoaded,  \* the clip in *rh-ivf*
  bdFailed,  \* the clips a load of which failed
  bdPlays    \* what has been played: [asked, loaded, init]

bvHost == <<bvPc, bvClip, bvTry, bvTag, bvTook, bvWait, bvExit>>
bvBoard == <<rpQueue, rpOut, bdLinked, bdSsh, bdForm, bdInit, bdLoaded, bdFailed, bdPlays>>
bvVars == <<bvHost, bvBoard>>

SerialSteps == {"probe", "hot", "eager"}
SshSteps == {"up", "push", "init", "load", "play"}
SshTries == 3
TriesFor(step) == IF step = "up" THEN SshTries * UpRounds ELSE SshTries

NoForm == [step |-> "no", clip |-> 0]

VideoInit ==
  /\ bvPc = "idle" /\ bvClip = 0 /\ bvTry = 0 /\ bvTag = 0 /\ bvTook = {}
  /\ bvWait = "no" /\ bvExit = -1
  /\ rpQueue = <<>> /\ rpOut = <<>> /\ bdLinked = FALSE /\ bdSsh = FALSE
  /\ bdForm = NoForm /\ bdInit = FALSE /\ bdLoaded = "none" /\ bdFailed = {} /\ bdPlays = {}

VideoFinish(code) == bvPc' = "done" /\ bvExit' = code

\* netboot-core-gz.py with --core, waited for.
VideoNetboots ==
  /\ bvPc = "idle"
  /\ bvPc' = "netboot"
  /\ NetbootStart("core")
  /\ UNCHANGED <<bvClip, bvTry, bvTag, bvTook, bvWait, bvExit, bvBoard>>

\* --no-boot: the board is up, re-linked and with its SSH server running.
VideoNoBoot ==
  /\ bvPc = "idle"
  /\ nbPc = "idle"
  /\ bvPc' = "up"
  /\ bvTry' = TriesFor("up")
  /\ bdLinked' = TRUE
  /\ bdSsh' = TRUE
  /\ UNCHANGED <<bvClip, bvTag, bvTook, bvWait, bvExit, rpQueue, rpOut, bdForm, bdInit, bdLoaded,
                 bdFailed, bdPlays, nbVars>>

\* The core's RAM holds a magic word: the core's own, or an earlier one's.
MayRestore == ubStarted /\ ubMem["core"] # "zero"

\* The transcript must say CORE-RESTORED.
VideoNetbooted ==
  /\ bvPc = "netboot"
  /\ nbPc = "done"
  /\ \/ MayRestore /\ bvPc' = "probe" /\ bvTry' = SerialTries /\ UNCHANGED bvExit
     \/ VideoFinish(1) /\ UNCHANGED bvTry
  /\ UNCHANGED <<bvClip, bvTag, bvTook, bvWait, bvBoard, nbVars>>

-----------------------------------------------------------------------------
(* Serial: tagged queries. *)

\* sq: a new tag, the input buffer dropped, the form typed.
sq ==
  /\ bvPc \in SerialSteps
  /\ bvWait = "no"
  /\ bvWait' = "serial"
  /\ bvTag' = bvTag + 1
  /\ rpOut' = <<>>
  /\ rpQueue' = Append(rpQueue, [tag |-> bvTag', form |-> bvPc])
  /\ UNCHANGED <<bvPc, bvClip, bvTry, bvTook, bvExit, bdLinked, bdSsh, bdForm, bdInit, bdLoaded,
                 bdFailed, bdPlays, nbVars>>

\* After a query: the probe is repeated up to its limit, the two re-link
\* queries are passed over whether they were answered or not.
AfterSerial(answered) ==
  /\ bvWait' = "no"
  /\ CASE bvPc = "probe" /\ answered -> bvPc' = "hot" /\ UNCHANGED <<bvTry, bvExit>>
       [] bvPc = "probe" /\ ~answered /\ bvTry > 1 ->
            bvTry' = bvTry - 1 /\ UNCHANGED <<bvPc, bvExit>>
       [] bvPc = "probe" /\ ~answered /\ bvTry <= 1 -> VideoFinish(1) /\ UNCHANGED bvTry
       [] bvPc = "hot" -> bvPc' = "eager" /\ UNCHANGED <<bvTry, bvExit>>
       [] bvPc = "eager" -> bvPc' = "sshboot" /\ UNCHANGED <<bvTry, bvExit>>

\* rd_until: the pattern names the tag; and a pattern that does not.
AnyTag(answer) == TRUE
MyTag(answer) == answer.tag = bvTag

SerialAnswer ==
  /\ bvWait = "serial"
  /\ \E i \in 1..Len(rpOut) : MyTag(rpOut[i])
  /\ bvTook' = bvTook \cup {bvPc}
  /\ AfterSerial(TRUE)
  /\ rpOut' = <<>>
  /\ UNCHANGED <<bvClip, bvTag, rpQueue, bdLinked, bdSsh, bdForm, bdInit, bdLoaded, bdFailed,
                 bdPlays, nbVars>>

SerialTimeout ==
  /\ bvWait = "serial"
  /\ AfterSerial(FALSE)
  /\ UNCHANGED <<bvClip, bvTag, bvTook, bvBoard, nbVars>>

\* (ssh-boot) is typed and not waited for.
TypeSshBoot ==
  /\ bvPc = "sshboot"
  /\ bvPc' = "up"
  /\ bvTry' = TriesFor("up")
  /\ rpQueue' = Append(rpQueue, [tag |-> 0, form |-> "sshboot"])
  /\ UNCHANGED <<bvClip, bvTag, bvTook, bvWait, bvExit, rpOut, bdLinked, bdSsh, bdForm, bdInit,
                 bdLoaded, bdFailed, bdPlays, nbVars>>

\* The REPL evaluates the line typed first and prints its value.  (ssh-boot)
\* does not return.
ReplEvaluates ==
  /\ rpQueue # <<>>
  /\ ~bdSsh
  /\ LET line == Head(rpQueue) IN
     /\ bdLinked' = (bdLinked \/ line.form = "eager")
     /\ bdSsh' = (line.form = "sshboot")
     /\ rpOut' = IF line.form = "sshboot" THEN rpOut ELSE Append(rpOut, line)
  /\ rpQueue' = Tail(rpQueue)
  /\ UNCHANGED <<bvHost, bdForm, bdInit, bdLoaded, bdFailed,
                 bdPlays, nbVars>>

\* The form does not read or ends in an error, which the REPL prints instead.
ReplReports ==
  /\ rpQueue # <<>>
  /\ ~bdSsh
  /\ rpQueue' = Tail(rpQueue)
  /\ UNCHANGED <<bvHost, rpOut, bdLinked, bdSsh, bdForm, bdInit, bdLoaded, bdFailed, bdPlays, nbVars>>

\* A line typed behind one being evaluated overruns the UART.
ReplLosesLine ==
  /\ Len(rpQueue) > 1
  /\ ~bdSsh
  /\ rpQueue' = SubSeq(rpQueue, 1, Len(rpQueue) - 1)
  /\ UNCHANGED <<bvHost, rpOut, bdLinked, bdSsh, bdForm, bdInit, bdLoaded, bdFailed,
                 bdPlays, nbVars>>

-----------------------------------------------------------------------------
(* SSH: run(form), three attempts. *)

Goto(step, clip) ==
  bvPc' = step /\ bvClip' = clip /\ bvTry' = TriesFor(step) /\ UNCHANGED bvExit

NextClip ==
  IF bvClip < Len(Clips) THEN Goto("load", bvClip + 1)
  ELSE VideoFinish(0) /\ UNCHANGED <<bvClip, bvTry>>

\* (rh-init) must have answered, and with a plausible address.
AfterInit(answered) ==
  \/ answered /\ NextClip
  \/ VideoFinish(1) /\ UNCHANGED <<bvClip, bvTry>>

\* A clip that did not load is passed over; and is played all the same.
PlayRegardless(answered) == Goto("play", bvClip)
AfterLoad(answered) == IF answered THEN Goto("play", bvClip) ELSE NextClip

\* What follows run(): the wait for the server and the pushed forms go on
\* regardless, a play is not looked at.
AfterRun(answered) ==
  CASE bvPc = "up" -> Goto("push", 0)
    [] bvPc = "push" -> Goto("init", 0)
    [] bvPc = "init" -> AfterInit(answered)
    [] bvPc = "load" -> AfterLoad(answered)
    [] bvPc = "play" -> NextClip

\* range(3): another attempt; one attempt too many; and what an attempt uses up.
OneMoreAttempt == bvTry >= 1
AnotherAttempt == bvTry > 1
AttemptsLeft == bvTry - 1

run ==
  /\ bvPc \in SshSteps
  /\ bvWait = "no"
  /\ bvWait' = "open"
  /\ UNCHANGED <<bvPc, bvClip, bvTry, bvTag, bvTook, bvExit, bvBoard, nbVars>>

\* No connection, no output, or the time is up: the client is gone, the form
\* it may have started is not.
RunAttemptFails ==
  /\ bvWait \in {"open", "served"}
  /\ bvWait' = "no"
  /\ IF AnotherAttempt THEN bvTry' = AttemptsLeft /\ UNCHANGED <<bvPc, bvClip, bvExit>>
                       ELSE AfterRun(FALSE)
  /\ UNCHANGED <<bvTag, bvTook, bvBoard, nbVars>>

\* The board takes the next connection when it has finished with the last.
SshServes ==
  /\ bdSsh
  /\ bdForm = NoForm
  /\ bvWait = "open"
  /\ bvWait' = "served"
  /\ bdForm' = [step |-> bvPc, clip |-> bvClip]
  /\ UNCHANGED <<bvPc, bvClip, bvTry, bvTag, bvTook, bvExit, rpQueue, rpOut, bdLinked, bdSsh, bdInit,
                 bdLoaded, bdFailed, bdPlays, nbVars>>

\* What a load leaves in *rh-ivf*: the clip; what was there before, when the
\* fetch failed; or the page of a server that has no such clip.
Loads(ok) == IF ok THEN {Clips[bdForm.clip]} ELSE {bdLoaded, "page"}

\* The form ends, and an error is answered as a value is, to the client if there
\* still is one.  (rh-init) must answer an address.
SshFormEnds ==
  /\ bdForm # NoForm
  /\ bdForm' = NoForm
  /\ \E ok \in BOOLEAN :
       /\ bdInit' = (bdInit \/ (ok /\ bdForm.step = "init"))
       /\ IF bdForm.step = "load"
          THEN /\ bdLoaded' \in Loads(ok)
               /\ bdFailed' = IF ok THEN bdFailed ELSE bdFailed \cup {Clips[bdForm.clip]}
          ELSE UNCHANGED <<bdLoaded, bdFailed>>
       /\ IF bvWait = "served" THEN bvWait' = "no" /\ AfterRun(ok \/ bdForm.step # "init")
                               ELSE UNCHANGED <<bvWait, bvPc, bvClip, bvTry, bvExit>>
  /\ bdPlays' = IF bdForm.step # "play" THEN bdPlays
                ELSE bdPlays \cup {[asked |-> Clips[bdForm.clip], loaded |-> bdLoaded, init |-> bdInit]}
  /\ UNCHANGED <<bvTag, bvTook, rpQueue, rpOut, bdLinked, bdSsh, nbVars>>

VideoHost ==
  \/ VideoNetboots \/ VideoNoBoot \/ VideoNetbooted \/ sq \/ SerialAnswer \/ SerialTimeout \/ TypeSshBoot
  \/ run \/ RunAttemptFails

VideoNext ==
  \/ VideoHost
  \/ ReplEvaluates \/ ReplReports \/ ReplLosesLine \/ SshServes \/ SshFormEnds

\* The session together with the netboot it waits for.
VideoSpec ==
  /\ NetbootInit /\ VideoInit
  /\ [][VideoNext \/ (NetbootNext /\ UNCHANGED bvVars)]_<<nbVars, bvVars>>

-----------------------------------------------------------------------------
\* Every part of the session's and the board's state keeps its shape; a step
\* that tries has a try left.
VideoTypeOK ==
  /\ bvPc \in {"idle", "netboot", "sshboot", "done"} \cup SerialSteps \cup SshSteps
  /\ bvClip \in 0..Len(Clips)
  /\ bvTook \subseteq SerialSteps
  /\ bvPc \in {"probe"} \cup SshSteps => bvTry \in 1..(SerialTries + TriesFor("up"))
  /\ bvWait \in {"no", "serial", "open", "served"}
  /\ bvExit \in {-1, 0, 1}
  /\ \A i \in 1..Len(rpQueue) : rpQueue[i].tag \in 0..bvTag
  /\ \A i \in 1..Len(rpOut) : rpOut[i].tag \in 1..bvTag
  /\ bdForm.step \in {"no"} \cup SshSteps

\* When the script has logged an answer to (jit-eager), the restored core has
\* been re-linked, though answers of queries that timed out keep arriving on the
\* same line and typed lines may be lost.
RelinkReported == "eager" \in bvTook => bdLinked

\* A clip is recorded under its own name: what a play shows is the clip it was
\* asked for, in a player that was set up, although forms of clients that timed
\* out still run and are tried again.  Only where a load of the clip failed does
\* the script play what is there: it goes by whether the load was answered, and
\* the board answers an error too.
PlaysTheAskedClip ==
  \A p \in bdPlays : p.init /\ (p.loaded = p.asked \/ p.asked \in bdFailed)
=============================================================================
