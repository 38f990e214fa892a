----------------------------- MODULE SerialPush -----------------------------
(***************************************************************************)
(* scripts/push-serial.py: Lisp files split into top-level forms, each     *)
(* flattened to one line, typed at the board's serial REPL and waited for  *)
(* until the prompt comes back or 30 seconds have passed.                  *)
(*                                                                         *)
(* Characters: the parentheses, "C" for the semicolon that opens a comment, *)
(* "Q" for the double quote, "B" for the backslash, "N" for the newline,   *)
(* "S" for the space, "a" for any other.                                   *)
(* The REPL is the image's own (lib/serial-repl.lisp): it echoes what it   *)
(* reads, prints a value or an error for each form, then the prompt "> ",  *)
(* and nothing for an empty line.  A ">" can also end what it has echoed of *)
(* a form so far, or a value (#<...>).                                     *)
(***************************************************************************)
EXTENDS Integers, Sequences, FiniteSets, SequencesExt

CONSTANTS PushSources, \* files, as sequences of pieces: a form and what stands around it
          Strays       \* bound: ">" printed that are no prompts

VARIABLES
  puPc,     \* "idle", "nudge", "scan", "send", "wait" or "done"
  puSource, \* the file
  puText,   \* src[i:], while forms scans it
  puScan,   \* what forms has so far
  puForms,  \* what forms returned
  puAt,     \* forms sent
  puBuf,    \* b: what this wait has read
  puOk,     \* ok
  puNudged, \* the prompt of the empty line was read before the first form
  rlTodo,   \* lines the REPL has still to evaluate
  rlOut,    \* what it has printed and nobody has read: text, "v", or ">"
  rlDone,   \* forms evaluated
  rlStray   \* ">" printed in an echo or at the end of a value

puVars == <<puPc, puSource, puText, puScan, puForms, puAt, puBuf, puOk, puNudged,
            rlTodo, rlOut, rlDone, rlStray>>

-----------------------------------------------------------------------------
(* Files, as the Lisp reader reads them.                                   *)

LispChar == {"(", ")", "C", "Q", "B", "N", "S", "a"}

\* A comment ends with its line.  Of a string, escaping[i] says whether its i-th
\* character is a backslash that quotes the next; the white space inside is
\* single spaces.
CommentText(t) == /\ Len(t) > 1 /\ t[1] = "C"
                  /\ \A i \in 1..Len(t) : t[i] = "N" <=> i = Len(t)
StringText(t) ==
  /\ Len(t) > 1 /\ t[1] = "Q"
  /\ \A i \in 2..Len(t) : t[i] # "N" /\ (t[i] = "S" => t[i - 1] # "S")
  /\ \E escaping \in [1..Len(t) -> BOOLEAN] :
       /\ ~escaping[1]
       /\ \A i \in 2..Len(t) :
            /\ escaping[i] <=> t[i] = "B" /\ ~escaping[i - 1]
            /\ t[i] = "Q" /\ ~escaping[i - 1] <=> i = Len(t)

Word ==
  {w \in [kind : {"open", "close", "atom", "white", "comment", "string"}, text : Seq(LispChar)] :
     \/ w.kind = "open" /\ w.text = <<"(">>
     \/ w.kind = "close" /\ w.text = <<")">>
     \/ w.kind = "atom" /\ w.text = <<"a">>
     \/ w.kind = "white" /\ w.text \in {<<"S">>, <<"N">>}
     \/ w.kind = "comment" /\ CommentText(w.text)
     \/ w.kind = "string" /\ StringText(w.text)}
Gap == {w \in Word : w.kind \in {"white", "comment"}}

\* A form opens at its first word and closes at its last.
Depth(words, j) == Cardinality({i \in 1..j : words[i].kind = "open"})
                   - Cardinality({i \in 1..j : words[i].kind = "close"})
LispForm ==
  {words \in Seq(Word) : /\ Len(words) > 0 /\ words[1].kind = "open"
                         /\ \A j \in 1..Len(words) - 1 : Depth(words, j) > 0
                         /\ Depth(words, Len(words)) = 0}
Piece == [before : Seq(Gap), form : LispForm, after : Seq(Gap)]

ASSUME PushAssumption == PushSources \subseteq Seq(Piece) /\ Strays \in Nat

TextOf(words) == FlattenSeq([j \in DOMAIN words |-> words[j].text])
FileText(file) ==
  FlattenSeq([i \in DOMAIN file |->
    TextOf(file[i].before) \o TextOf(file[i].form) \o TextOf(file[i].after)])

\* The form on one line: white space and comments between two words are a space.
OneLine(words) ==
  FlattenSeq([j \in DOMAIN words |->
    IF words[j] \notin Gap THEN words[j].text
    ELSE IF j > 1 /\ words[j - 1] \in Gap THEN <<>> ELSE <<"S">>])

-----------------------------------------------------------------------------
(* forms *)

White == {"S", "N"}
Scan0 == [out |-> <<>>, cur |-> <<>>, depth |-> 0, instr |-> FALSE, esc |-> FALSE,
          comment |-> FALSE]

\* A character of a string; and strings without escapes.
NoEscapes(st, c) ==
  [st EXCEPT !.cur = Append(@, c), !.instr = c # "Q"]
InString(st, c) ==
  [st EXCEPT !.cur = Append(@, c),
             !.esc = ~st.esc /\ c = "B",
             !.instr = st.esc \/ c # "Q"]

Closed(st) ==
  IF st.depth = 1
  THEN [st EXCEPT !.depth = 0, !.out = Append(@, Append(st.cur, ")")), !.cur = <<>>]
  ELSE [st EXCEPT !.depth = @ - 1, !.cur = Append(@, ")")]

\* One character of the source.
Scan(st, c) ==
  IF st.comment /\ c # "N" THEN st
  ELSE IF st.instr THEN InString(st, c)
  ELSE CASE c = "C" -> [st EXCEPT !.comment = TRUE]
         [] c = "Q" -> [st EXCEPT !.instr = TRUE, !.cur = Append(@, c)]
         [] c = "(" -> [st EXCEPT !.depth = @ + 1, !.cur = Append(@, c)]
         [] c = ")" -> Closed(st)
         [] c \in White ->
              [st EXCEPT !.comment = FALSE, !.cur = IF st.depth = 0 THEN @ ELSE Append(@, c)]
         [] OTHER -> [st EXCEPT !.cur = Append(@, c)]

\* re.sub(r'\s+', ' '): of a run of white space one space stays.
Flatten(form) ==
  LET flat[i \in 0..Len(form)] ==
        IF i = 0 THEN <<>>
        ELSE IF form[i] \notin White THEN Append(flat[i - 1], form[i])
        ELSE IF i > 1 /\ form[i - 1] \in White THEN flat[i - 1]
        ELSE Append(flat[i - 1], "S")
  IN flat[Len(form)]

\* The list forms returns.
OneLineEach(out) == [i \in DOMAIN out |-> Flatten(out[i])]

\* forms: one turn of its loop, and its end.
forms ==
  /\ puPc = "scan"
  /\ IF puText = <<>>
     THEN /\ puPc' = "send"
          /\ puForms' = OneLineEach(puScan.out)
          /\ UNCHANGED <<puText, puScan>>
     ELSE /\ puText' = Tail(puText)
          /\ puScan' = Scan(puScan, Head(puText))
          /\ UNCHANGED <<puPc, puForms>>
  /\ UNCHANGED <<puSource, puAt, puBuf, puOk, puNudged, rlTodo, rlOut, rlDone,
                 rlStray>>

-----------------------------------------------------------------------------
(* main *)

PushInit ==
  /\ puPc = "idle" /\ puSource = <<>> /\ puText = <<>> /\ puScan = Scan0
  /\ puForms = <<>> /\ puAt = 0 /\ puBuf = <<>> /\ puOk = 0
  /\ puNudged = FALSE
  /\ rlTodo = <<>> /\ rlOut = <<>> /\ rlDone = 0 /\ rlStray = 0

\* The port is opened and cleared, and an empty line typed, which the REPL only
\* echoes.  It may still be at a form typed earlier.
PushOpen ==
  /\ puPc = "idle"
  /\ puPc' = "nudge"
  /\ puSource' \in PushSources
  /\ puText' = FileText(puSource')
  /\ rlTodo' \in {<<>>, <<"earlier">>}
  /\ UNCHANGED <<puScan, puForms, puAt, puBuf, puOk, puNudged, rlOut, rlDone, rlStray>>

\* After 0.3 s one read takes what there is.
PushNudged ==
  /\ puPc = "nudge"
  /\ puPc' = "scan"
  /\ puNudged' = (rlTodo = <<>>)
  /\ rlOut' = <<>>
  /\ UNCHANGED <<puSource, puText, puScan, puForms, puAt, puBuf, puOk, rlTodo, rlDone, rlStray>>

\* b = b"" at each form; and a buffer that is kept.
KeptBuffer == puBuf
FreshBuffer == <<>>

PushSend ==
  /\ puPc = "send"
  /\ IF puAt < Len(puForms)
     THEN /\ puPc' = "wait"
          /\ puAt' = puAt + 1
          /\ puBuf' = FreshBuffer
          /\ rlTodo' = Append(rlTodo, "form")
     ELSE puPc' = "done" /\ UNCHANGED <<puAt, puBuf, rlTodo>>
  /\ UNCHANGED <<puSource, puText, puScan, puForms, puOk, puNudged, rlOut, rlDone, rlStray>>

\* A turn of the wait: a read, which may return nothing, and the test.
PushRead ==
  /\ puPc = "wait"
  /\ LET b == puBuf \o rlOut IN
     /\ b # <<>>
     /\ puBuf' = b
     /\ IF Last(b) = ">" THEN puPc' = "send" /\ puOk' = puOk + 1
                         ELSE UNCHANGED <<puPc, puOk>>
  /\ rlOut' = <<>>
  /\ UNCHANGED <<puSource, puText, puScan, puForms, puAt, puNudged, rlTodo, rlDone, rlStray>>

\* 30 seconds: "??", and on to the next form.
PushTimeout ==
  /\ puPc = "wait"
  /\ puPc' = "send"
  /\ UNCHANGED <<puSource, puText, puScan, puForms, puAt, puBuf, puOk, puNudged, rlTodo, rlOut, rlDone,
                 rlStray>>

PushScript == PushOpen \/ PushNudged \/ forms \/ PushSend \/ PushRead \/ PushTimeout

\* Of the form being read, what is echoed so far ends in a ">"; or the earlier
\* form's value does.
ReplEchoes ==
  /\ rlTodo # <<>>
  /\ Head(rlTodo) # "printed"
  /\ rlStray < Strays
  /\ rlOut' = Append(rlOut, ">")
  /\ rlStray' = rlStray + 1
  /\ UNCHANGED <<puPc, puSource, puText, puScan, puForms, puAt, puBuf, puOk, puNudged, rlTodo, rlDone>>

\* The form is evaluated and its value, or the error, printed.
ReplPrints ==
  /\ rlTodo # <<>>
  /\ Head(rlTodo) = "form"
  /\ \/ rlOut' = Append(rlOut, "v") /\ UNCHANGED rlStray
     \/ rlStray < Strays /\ rlOut' = Append(rlOut, ">") /\ rlStray' = rlStray + 1
  /\ rlDone' = rlDone + 1
  /\ rlTodo' = <<"printed">> \o Tail(rlTodo)
  /\ UNCHANGED <<puPc, puSource, puText, puScan, puForms, puAt, puBuf, puOk, puNudged>>

\* The prompt.
ReplPrompts ==
  /\ rlTodo # <<>>
  /\ Head(rlTodo) # "form"
  /\ rlOut' = Append(rlOut, ">")
  /\ rlTodo' = Tail(rlTodo)
  /\ UNCHANGED <<puPc, puSource, puText, puScan, puForms, puAt, puBuf, puOk, puNudged, rlDone, rlStray>>

PushNext == PushScript \/ ReplEchoes \/ ReplPrints \/ ReplPrompts

PushSpec == PushInit /\ [][PushNext]_puVars

-----------------------------------------------------------------------------
\* The script's counters are counts of the file's forms; what is typed is one
\* line.
PushTypeOK ==
  /\ puPc \in {"idle", "nudge", "scan", "send", "wait", "done"}
  /\ puAt \in 0..Len(puForms)
  /\ puOk \in 0..puAt
  /\ rlDone \in 0..puAt
  /\ rlStray \in 0..Strays
  /\ \A i \in DOMAIN puForms : ~Contains(puForms[i], "N")

\* The forms typed are the forms of the file, each read as Lisp reads it:
\* parentheses, quotes and semicolons inside strings and comments do not count.
FormsAsWritten ==
  puPc \in {"send", "wait", "done"} =>
    puForms = [i \in DOMAIN puSource |-> OneLine(puSource[i].form)]

\* "== ok/total forms evaluated ==": a form counted as done is backed by an
\* evaluation of its own however late the answers come.  The script takes any
\* ">" that ends what it has read for the prompt; each one that is not, and the
\* prompt of an earlier form that came after the first read, costs at most one
\* wrong count, which later forms do not multiply.
CountedWereEvaluated == puOk <= rlDone + rlStray + (IF puNudged THEN 0 ELSE 1)
=============================================================================
