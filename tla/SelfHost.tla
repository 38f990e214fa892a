------------------------------ MODULE SelfHost ------------------------------
(***************************************************************************)
(* scripts/self-host-gen1.py: Gen0 is booted in QEMU, told to build an     *)
(* image, and the image is saved from the guest's memory through QMP.  The *)
(* size of the image is what the guest prints after "D:", read from a pipe *)
(* in pieces of any length.                                                *)
(*                                                                         *)
(* External: the guest, which prints one character at a time, a prompt     *)
(* first and, after the build, "D:", the digits of the size and a newline; *)
(* and QEMU, which may end by itself, may leave a QMP command unanswered,  *)
(* answer it with an error or send an event first, and may take its time   *)
(* to write the file.                                                      *)
(***************************************************************************)
EXTENDS Integers, Sequences, FiniteSets, SequencesExt

CONSTANTS ImageDigits, \* number of digits of the image's size
          DrainReads   \* reads after the marker was seen: 5

ASSUME SelfHostAssumption == ImageDigits \in Nat \ {0} /\ DrainReads \in Nat

VARIABLES
  shPc,    \* "idle", the step of the script, "done", or "raised" (an exception)
  shBuf,   \* what this read_until has read: a sequence of characters
  shDrain, \* reads left in the drain loop, -1 before the marker
  shSize,  \* digits of the size taken, -1 before
  shExit,  \* exit status, -1 while running
  gsTodo,  \* characters the guest has still to print
  gsPipe,  \* characters in the pipe
  gsBuild, \* "no", "running" or "built"
  quLive,  \* QEMU is running
  quAsked, \* QEMU has been sent pmemsave and is not through with it
  quFile   \* the file gen1: "none", "old" (an earlier run's), "part" or "whole"

shScript == <<shPc, shBuf, shDrain, shSize, shExit>>
guest == <<gsTodo, gsPipe, gsBuild>>
image == <<quAsked, quFile>>
shVars == <<shScript, guest, quLive, image>>

Prompt == ">"
SizeMark == "D:"
Digit == "0"
Answer == <<SizeMark>> \o [i \in 1..ImageDigits |-> Digit] \o <<"newline">>

SelfHostInit ==
  /\ shPc = "idle" /\ shBuf = <<>> /\ shDrain = -1 /\ shSize = -1 /\ shExit = -1
  /\ gsTodo = <<>> /\ gsPipe = <<>> /\ gsBuild = "no"
  /\ quLive = FALSE /\ quAsked = FALSE /\ quFile = "none"

\* The path of gen1 is fixed unless an argument names another: there may be the
\* image of an earlier run.
StartQemu ==
  /\ shPc = "idle"
  /\ shPc' = "repl"
  /\ quLive' = TRUE
  /\ gsTodo' = <<Prompt>>
  /\ quFile' \in {"none", "old"}
  /\ UNCHANGED <<shBuf, shDrain, shSize, shExit, gsPipe, gsBuild, quAsked>>

-----------------------------------------------------------------------------
(* read_until *)

Reading == shPc \in {"repl", "build"}
Marker == IF shPc = "repl" THEN Prompt ELSE SizeMark

\* A failed wait: FAIL is printed, QEMU killed, status 1.
Fail == shPc' = "done" /\ shExit' = 1 /\ quLive' = FALSE

Digits(buf) == Cardinality({i \in DOMAIN buf : buf[i] = Digit})

\* Mutant: the pattern of the size matches no digits as well.
ReadDoneAnySize(buf) ==
  /\ shBuf' = <<>>
  /\ shDrain' = -1
  /\ IF shPc = "repl"
     THEN shPc' = "ask" /\ UNCHANGED <<shSize, shExit, quLive>>
     ELSE shPc' = "connect" /\ shSize' = Digits(buf) /\ UNCHANGED <<shExit, quLive>>

\* After read_until: the build is asked for; or the size is parsed, with
\* re.search(r'D:\s*(\d+)'), and the image is to be saved.
ReadDone(buf) ==
  /\ shBuf' = <<>>
  /\ shDrain' = -1
  /\ IF shPc = "repl"
     THEN shPc' = "ask" /\ UNCHANGED <<shSize, shExit, quLive>>
     ELSE IF Digits(buf) = 0 THEN Fail /\ UNCHANGED shSize
     ELSE shPc' = "connect" /\ shSize' = Digits(buf) /\ UNCHANGED <<shExit, quLive>>

\* Reads after the marker.
DrainLimit == DrainReads

\* One read takes all there is in the pipe, at the end of the file nothing.
\* Once the marker is there, up to five more reads follow.
read_until ==
  /\ Reading
  /\ gsPipe # <<>>
  /\ gsPipe' = <<>>
  /\ LET buf == shBuf \o gsPipe
         left == IF shDrain > 0 THEN shDrain - 1
                 ELSE IF Contains(buf, Marker) THEN DrainLimit ELSE -1
     IN IF left = 0 THEN ReadDone(buf)
        ELSE /\ shBuf' = buf
             /\ shDrain' = left
             /\ UNCHANGED <<shPc, shSize, shExit, quLive>>
  /\ UNCHANGED <<gsTodo, gsBuild, image>>

\* A tenth of a second without output ends the drain.
DrainQuiet ==
  /\ Reading
  /\ shDrain > 0
  /\ gsPipe = <<>>
  /\ ReadDone(shBuf)
  /\ UNCHANGED <<guest, image>>

\* The time is up, or the pipe is at its end: no marker.
ReadFails ==
  /\ Reading
  /\ shDrain = -1
  /\ Fail
  /\ UNCHANGED <<shBuf, shDrain, shSize, guest, image>>

-----------------------------------------------------------------------------
\* (build-image) is typed; a guest that is gone breaks the pipe.
AskBuild ==
  /\ shPc = "ask"
  /\ IF quLive
     THEN shPc' = "build" /\ gsBuild' = "running" /\ UNCHANGED shExit
     ELSE shPc' = "raised" /\ shExit' = 1 /\ UNCHANGED gsBuild
  /\ UNCHANGED <<shBuf, shDrain, shSize, gsTodo, gsPipe, quLive, image>>

\* connect, the greeting and the capabilities.  A recv raises after five
\* seconds without an answer; what it returns, an error, an event or, from a
\* QEMU that is gone, nothing, is not looked at.
QmpConnect ==
  /\ shPc = "connect"
  /\ \/ quLive /\ shPc' = "save" /\ UNCHANGED shExit
     \/ shPc' = "raised" /\ shExit' = 1
  /\ UNCHANGED <<shBuf, shDrain, shSize, guest, quLive, image>>

\* pmemsave is sent; a connection that QEMU has left may take it or break.
QmpSend ==
  /\ shPc = "save"
  /\ \/ shPc' = "reply" /\ quAsked' = quLive /\ UNCHANGED shExit
     \/ ~quLive /\ shPc' = "raised" /\ shExit' = 1 /\ UNCHANGED quAsked
  /\ UNCHANGED <<shBuf, shDrain, shSize, guest, quLive, quFile>>

\* Whatever recv returns and whenever, QEMU is killed and the size of what is
\* at the path is printed: the image, the part written so far or the image of
\* an earlier run.  Only a recv that raises or a missing file is an error.
QmpSave ==
  /\ shPc = "reply"
  /\ \/ shPc' = "raised" /\ shExit' = 1 /\ UNCHANGED quLive
     \/ /\ quLive' = FALSE
        /\ IF quFile = "none" THEN shPc' = "raised" /\ shExit' = 1
                              ELSE shPc' = "done" /\ shExit' = 0
  /\ UNCHANGED <<shBuf, shDrain, shSize, guest, image>>

SelfHostScript ==
  \/ StartQemu \/ read_until \/ DrainQuiet \/ ReadFails \/ AskBuild \/ QmpConnect
  \/ QmpSend \/ QmpSave

\* The guest prints its next character; builds; and QEMU may end.
GuestPrints ==
  /\ quLive
  /\ gsTodo # <<>>
  /\ gsPipe' = Append(gsPipe, Head(gsTodo))
  /\ gsTodo' = Tail(gsTodo)
  /\ UNCHANGED <<shScript, gsBuild, quLive, image>>

GuestBuilds ==
  /\ quLive
  /\ gsBuild = "running"
  /\ gsTodo = <<>>
  /\ gsBuild' = "built"
  /\ gsTodo' = Answer
  /\ UNCHANGED <<shScript, gsPipe, quLive, image>>

QemuEnds ==
  /\ quLive
  /\ quLive' = FALSE
  /\ UNCHANGED <<shScript, guest, image>>

\* pmemsave empties the file, writes it and answers; or it fails, before or
\* after it has opened the file.
QemuSaves ==
  /\ quLive
  /\ quAsked
  /\ \/ quFile' = "part" /\ UNCHANGED quAsked
     \/ quFile' = "whole" /\ quAsked' = FALSE
     \/ quAsked' = FALSE /\ UNCHANGED quFile
  /\ UNCHANGED <<shScript, guest, quLive>>

SelfHostNext == SelfHostScript \/ GuestPrints \/ GuestBuilds \/ QemuEnds \/ QemuSaves

SelfHostSpec == SelfHostInit /\ [][SelfHostNext]_shVars

-----------------------------------------------------------------------------
\* The script's state keeps its shape; the drain never reads more than its
\* limit.
SelfHostTypeOK ==
  /\ shPc \in {"idle", "repl", "ask", "build", "connect", "save", "reply", "done", "raised"}
  /\ shDrain \in -1..DrainReads
  /\ shSize \in -1..ImageDigits
  /\ shExit \in {-1, 0, 1}
  /\ gsBuild \in {"no", "running", "built"}
  /\ quAsked \in BOOLEAN
  /\ quFile \in {"none", "old", "part", "whole"}

\* Status 0 comes, and the image of an earlier run is overwritten, only after the
\* guest has built and a size was read: no prompt, no echo, no guest that died on
\* the way and no cut of its output in the pipe passes for a build.  What is in
\* the file is not claimed: see QmpSave.
SuccessMeansBuilt ==
  shExit = 0 \/ quFile \in {"part", "whole"} =>
    gsBuild = "built" /\ shSize > 0
=============================================================================
