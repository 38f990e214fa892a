------------------------------ MODULE CoreSave ------------------------------
(***************************************************************************)
(* docs/reel-on-zero/qsave.py and qcore.py: a core of the running image    *)
(* made under QEMU.  Forms are typed at the REPL, each waited for and      *)
(* passed over when its answer does not come in time; then the image is    *)
(* saved, the printed end of the core read, and the memory up to it dumped *)
(* through the gdb stub.                                                   *)
(*                                                                         *)
(* The image's REPL (lib/serial-repl.lisp) is behind a socket that loses   *)
(* nothing: it evaluates the lines in order and may take longer than any   *)
(* wait.  Saving an image (lib/save-image.lisp) ends in %core-close of     *)
(* mvm/build-cl-repl-common.lisp, which prints CORE-END= and the cursor's  *)
(* address.  The address has EndDigits digits and any number of fewer      *)
(* digits is below the core's base 0x18000000, as it is for nine.          *)
(***************************************************************************)
EXTENDS Integers, Sequences, FiniteSets, SequencesExt

CONSTANTS CoreForms, \* how many forms are pushed
          EndDigits, \* number of digits of the end of the core
          Probes     \* bound: tagged probes in the 5400 s of qsave's wait

ASSUME CoreAssumption == CoreForms \in Nat /\ EndDigits \in Nat \ {0} /\ Probes \in Nat \ {0}

VARIABLES
  csPc,    \* "idle", "probe", "push", "eager", "save", "end", "dump", "done"
  csKind,  \* "qsave" or "qcore"
  csSent,  \* forms pushed; probes sent, in "probe"
  csWait,  \* the line waited for, 0 if none
  csLines, \* lines sent so far: the next line's number
  csBuf,   \* what the wait for CORE-END has read: characters
  csEnd,   \* digits of the end of the core taken, -1 before
  csCount, \* the number taken was read as a byte count
  csLate,  \* the wait for the end of the core ran out
  csExit,  \* exit status, -1 while running
  crTodo,  \* what the REPL has still to do: lines [id, form], or characters to print
  crOut,   \* what it has printed and the script has not read: [id, ch]
  crDone,  \* forms evaluated: a set of names
  crCore   \* the set evaluated when the core was saved, {} before

csScript == <<csPc, csKind, csSent, csWait, csLines, csBuf, csEnd, csCount, csLate, csExit>>
csVars == <<csScript, crTodo, crOut, crDone, crCore>>

\* The forms that must be in the core.
Pushed == {<<"push", n>> : n \in 1..CoreForms}
Eager == <<"eager", 0>>
Install == <<"install", 0>>
SaveForm == <<"save", 0>>
CoreMark == "CORE-END="
CoreDigit == "0"

CoreInit ==
  /\ csPc = "idle" /\ csKind = "none" /\ csSent = 0 /\ csWait = 0 /\ csLines = 1
  /\ csBuf = <<>> /\ csEnd = -1 /\ csCount = FALSE /\ csLate = FALSE /\ csExit = -1
  /\ crTodo = <<>> /\ crOut = <<>> /\ crDone = {} /\ crCore = {}

CoreFinish(code) == csPc' = "done" /\ csExit' = code

\* sendall: the line goes to the REPL's queue.
Send(form) ==
  /\ crTodo' = Append(crTodo, [id |-> csLines, form |-> form, ch |-> ""])
  /\ csLines' = csLines + 1

\* qsave starts on a REPL that may still be at the install, which prints as it
\* goes; qcore has just asked for it.
CoreStart ==
  /\ csPc = "idle"
  /\ csKind' \in {"qsave", "qcore"}
  /\ csPc' = IF csKind' = "qsave" THEN "probe" ELSE "push"
  /\ crTodo' = <<[id |-> 0, form |-> <<"print", 0>>, ch |-> "v"],
                [id |-> 0, form |-> Install, ch |-> ""]>>
  /\ UNCHANGED <<csSent, csWait, csLines, csBuf, csEnd, csCount, csLate, csExit, crOut, crDone, crCore>>

\* The next line of the current step.
NextForm ==
  CASE csPc = "probe" -> <<"probe", csSent + 1>>
    [] csPc = "push" -> <<"push", csSent + 1>>
    [] csPc = "eager" -> Eager
    [] csPc = "save" -> SaveForm

\* A line is typed and its answer waited for.  After the last form of a push
\* comes (jit-eager), after it the save.
CoreSend ==
  /\ csPc \in {"probe", "push", "eager", "save"}
  /\ csWait = 0
  /\ csPc = "push" => csSent < CoreForms
  /\ Send(NextForm)
  /\ csWait' = csLines
  /\ csPc' = IF csPc = "save" THEN "end" ELSE csPc
  /\ csSent' = IF csPc \in {"probe", "push"} THEN csSent + 1 ELSE csSent
  /\ UNCHANGED <<csKind, csBuf, csEnd, csCount, csLate, csExit, crOut, crDone, crCore>>

PushDone ==
  /\ csPc = "push"
  /\ csWait = 0
  /\ csSent = CoreForms
  /\ csPc' = "eager"
  /\ UNCHANGED <<csKind, csSent, csWait, csLines, csBuf, csEnd, csCount, csLate, csExit, crTodo, crOut, crDone,
                 crCore>>

\* The tagged answer of this very line.
Answered(out) == \E i \in DOMAIN out : out[i].id = csWait

\* 5400 s of probes.
OutOfProbes == csSent >= Probes

\* q, snd, ev, push: the wait ends with the answer or without it.  Only qsave's
\* probe must be answered.
CoreWaited ==
  /\ csPc \in {"probe", "push", "eager"}
  /\ csWait # 0
  /\ csWait' = 0
  /\ crOut' = <<>>
  /\ CASE csPc = "probe" /\ Answered(crOut) -> csPc' = "push" /\ csSent' = 0 /\ UNCHANGED csExit
       [] csPc = "probe" /\ ~Answered(crOut) /\ OutOfProbes -> CoreFinish(1) /\ UNCHANGED csSent
       [] csPc = "eager" -> csPc' = "save" /\ UNCHANGED <<csSent, csExit>>
       [] OTHER -> UNCHANGED <<csPc, csSent, csExit>>
  /\ UNCHANGED <<csKind, csLines, csBuf, csEnd, csCount, csLate, crTodo, crDone, crCore>>

\* rd_until: CORE-END=\d+ is enough for qsave; qcore wants what follows the
\* digits too.
QsavePattern(buf) == Contains(buf, CoreMark) /\ Contains(buf, CoreDigit)
QcorePattern(buf) == QsavePattern(buf) /\ Contains(buf, "newline")
Matches(buf) == IF csKind = "qsave" THEN QsavePattern(buf) ELSE QcorePattern(buf)

\* re.search(r"CORE-END=(\d+)"): the digits that are there.  qcore takes a
\* number below the core's base for a byte count, and adds the base.
DigitsOf(buf) == Cardinality({i \in DOMAIN buf : buf[i] = CoreDigit})
TakeEnd(buf) ==
  /\ csPc' = "dump"
  /\ csEnd' = DigitsOf(buf)
  /\ csCount' = (csKind = "qcore" /\ DigitsOf(buf) < EndDigits)

CoreRead ==
  /\ csPc = "end"
  /\ crOut # <<>>
  /\ LET buf == csBuf \o [i \in DOMAIN crOut |-> crOut[i].ch] IN
     /\ csBuf' = buf
     /\ IF Matches(buf) THEN TakeEnd(buf) ELSE UNCHANGED <<csPc, csEnd, csCount>>
  /\ crOut' = <<>>
  /\ UNCHANGED <<csKind, csSent, csWait, csLines, csLate, csExit, crTodo, crDone, crCore>>

\* 20 or 30 minutes are over: what was read is searched all the same, and
\* without a digit the script gives up.
NoCoreEnd ==
  /\ csPc = "end"
  /\ csLate' = TRUE
  /\ IF QsavePattern(csBuf) THEN TakeEnd(csBuf) /\ UNCHANGED csExit
                            ELSE CoreFinish(1) /\ UNCHANGED <<csEnd, csCount>>
  /\ UNCHANGED <<csKind, csSent, csWait, csLines, csBuf, crTodo, crOut, crDone, crCore>>

\* gdb dumps the memory from 0x18000000 to the end; only qsave limits its time
\* and looks at the file.
GdbDump ==
  /\ csPc = "dump"
  /\ \/ CoreFinish(0)
     \/ csKind = "qsave" /\ CoreFinish(1)
  /\ UNCHANGED <<csKind, csSent, csWait, csLines, csBuf, csEnd, csCount, csLate, crTodo, crOut, crDone, crCore>>

CoreScript == CoreStart \/ CoreSend \/ PushDone \/ CoreWaited \/ CoreRead \/ NoCoreEnd \/ GdbDump

\* The output of a save, as far as the scripts look at it: what print-dec prints
\* of the end, and the line's end.
Chars(id) == [i \in 1..(EndDigits + 2) |->
                [id |-> id, form |-> <<"print", 0>>,
                 ch |-> IF i = 1 THEN CoreMark ELSE IF i = EndDigits + 2 THEN "newline" ELSE CoreDigit]]

\* The REPL: a line evaluated, in the order typed; and a character printed.
CoreRepl ==
  /\ crTodo # <<>>
  /\ LET line == Head(crTodo) IN
     \/ /\ line.ch = "" /\ line.form = SaveForm
        /\ crCore' = crDone
        /\ crTodo' = Chars(line.id) \o Tail(crTodo)
        /\ UNCHANGED <<crOut, crDone>>
     \/ /\ line.ch = "" /\ line.form # SaveForm
        /\ crDone' = crDone \cup {line.form}
        /\ crOut' = Append(crOut, [id |-> line.id, ch |-> "v"])
        /\ crTodo' = Tail(crTodo)
        /\ UNCHANGED crCore
     \/ /\ line.ch # ""
        /\ crOut' = Append(crOut, [id |-> line.id, ch |-> line.ch])
        /\ crTodo' = Tail(crTodo)
        /\ UNCHANGED <<crDone, crCore>>
  /\ UNCHANGED csScript

CoreNext == CoreScript \/ CoreRepl

CoreSpec == CoreInit /\ [][CoreNext]_csVars

-----------------------------------------------------------------------------
\* The script's state keeps its shape and stays within its loops.
CoreTypeOK ==
  /\ csPc \in {"idle", "probe", "push", "eager", "save", "end", "dump", "done"}
  /\ csSent \in 0..Probes \cup 0..CoreForms
  /\ csWait \in 0..(csLines - 1)
  /\ csEnd \in -1..EndDigits
  /\ csCount \in BOOLEAN
  /\ csLate \in BOOLEAN
  /\ csExit \in {-1, 0, 1}

\* A core that was dumped holds everything that was typed before the save,
\* although the script went on from waits that had run out; and qcore's dump
\* ends where the core does: while its wait lasts, a printed number cut by a read
\* is not taken for the whole, nor an address for a byte count.
CoreHoldsTheSession ==
  csExit = 0 =>
    /\ Pushed \cup {Eager, Install} \subseteq crCore
    /\ csKind = "qcore" /\ ~csLate => csEnd = EndDigits /\ ~csCount
=============================================================================
