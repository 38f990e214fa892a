----------------------------- MODULE ReplProofs -----------------------------
(***************************************************************************)
(* The scripts that drive a Lisp: push-serial.py, self-host-gen1.py,        *)
(* qsave.py and qcore.py.  For every file, image and number of forms, and   *)
(* however late the machine's answers come.                                 *)
(***************************************************************************)
EXTENDS BoardProofs, FiniteSetTheorems

-----------------------------------------------------------------------------
(* push-serial.py.  A form counted, a prompt on its way to the script and a *)
(* value printed without its prompt each stand for an evaluation of their   *)
(* own, or for a ">" that is no prompt; the prompt of a form typed earlier   *)
(* may stand for one more, once it has been printed and unless it was read  *)
(* in time.                                                                 *)

One(p) == IF p THEN 1 ELSE 0
ReplAt(line) == rlTodo # <<>> /\ rlTodo[1] = line
Extra == One(~puNudged /\ ~ReplAt("earlier"))
Unread == One(">" \in Members(rlOut))
Half == One(ReplAt("printed"))

PushShape ==
    /\ puOk \in Nat /\ rlDone \in Nat /\ rlStray \in Nat
    /\ rlTodo \in Seq({"earlier", "form", "printed"})
    /\ \A i \in DOMAIN rlTodo : i > 1 => rlTodo[i] = "form"
    /\ rlOut \in Seq({"v", ">"}) /\ puBuf \in Seq({"v", ">"})
    /\ puPc = "idle" => rlTodo = <<>> /\ rlOut = <<>>
    /\ puPc \in {"idle", "nudge"} => ~puNudged
    /\ puPc \in {"idle", "nudge"} => puOk = 0
    /\ puPc = "nudge" => rlTodo \in {<<>>, <<"earlier">>}
    /\ puNudged => ~ReplAt("earlier")
    /\ puPc = "wait" /\ puBuf # <<>> => Last(puBuf) # ">"

PushInv == PushShape /\ puOk + Unread + Half <= rlDone + rlStray + Extra

LEMMA NoneCounted ==
    ASSUME NEW a, NEW b, NEW c, NEW d \in Nat, NEW e \in Nat, NEW f \in Nat,
           a = 0, b = 0, c = 0
    PROVE  a + b + c <= d + e + f
OBVIOUS

LEMMA OneMoreStray ==
    ASSUME NEW a \in Nat, NEW b \in Nat, NEW c \in Nat, NEW d \in Nat, NEW e \in Nat,
           NEW f \in Nat, NEW g \in Nat, a + b + c <= d + e + f, g <= b + 1
    PROVE  a + g + c <= d + (e + 1) + f
OBVIOUS

LEMMA PushBits ==
    Unread \in {0, 1} /\ Half \in {0, 1} /\ Extra \in {0, 1}
    /\ Unread' \in {0, 1} /\ Half' \in {0, 1} /\ Extra' \in {0, 1}
BY DEF Unread, Half, Extra, One

\* A step that neither types nor prints nor counts.
LEMMA PushQuiet ==
    ASSUME PushInv, UNCHANGED <<puOk, puBuf, puNudged, rlTodo, rlOut, rlDone, rlStray>>,
           puPc' \notin {"idle", "nudge", "wait"}
    PROVE  PushInv'
<1>1. PushShape'
  BY DEF PushInv, PushShape, ReplAt
<1>2. Unread' = Unread /\ Half' = Half /\ Extra' = Extra
  BY DEF Unread, Half, Extra, ReplAt
<1> QED
  BY <1>1, <1>2 DEF PushInv

LEMMA PushOpenKeeps ==
    ASSUME PushInv, PushOpen
    PROVE  PushInv'
<1>1. /\ puPc = "idle" /\ puPc' = "nudge" /\ rlTodo' \in {<<>>, <<"earlier">>}
      /\ UNCHANGED <<puBuf, puOk, puNudged, rlOut, rlDone, rlStray>>
  BY DEF PushOpen
<1>2. rlOut = <<>> /\ puOk = 0 /\ rlDone \in Nat /\ rlStray \in Nat
  BY <1>1 DEF PushInv, PushShape
<1>3. PushShape'
  <2>1. rlTodo' \in Seq({"earlier", "form", "printed"})
    <3>1. CASE rlTodo' = <<>>
      BY <3>1
    <3>2. CASE rlTodo' = <<"earlier">>
      BY <3>2
    <3> QED
      BY <1>1, <3>1, <3>2
  <2>2. \A i \in DOMAIN rlTodo' : i > 1 => rlTodo'[i] = "form"
    <3>1. CASE rlTodo' = <<>>
      BY <3>1
    <3>2. CASE rlTodo' = <<"earlier">>
      BY <3>2
    <3> QED
      BY <1>1, <3>1, <3>2
  <2> QED
    BY <1>1, <1>2, <2>1, <2>2 DEF PushInv, PushShape
<1>4. Unread' = 0
  BY <1>1, <1>2, MembersEmpty DEF Unread, One
<1>5. Half' = 0
  BY <1>1 DEF Half, One, ReplAt
<1>6. Extra' \in Nat
  BY PushBits
<1>7. puOk' = 0 /\ rlDone' \in Nat /\ rlStray' \in Nat
  BY <1>1, <1>2
<1>8. puOk' + Unread' + Half' <= rlDone' + rlStray' + Extra'
  BY <1>4, <1>5, <1>6, <1>7, NoneCounted
<1> QED
  BY <1>3, <1>8 DEF PushInv

LEMMA PushNudgedKeeps ==
    ASSUME PushInv, PushNudged
    PROVE  PushInv'
<1>1. /\ puPc = "nudge" /\ puPc' = "scan" /\ puNudged' = (rlTodo = <<>>) /\ rlOut' = <<>>
      /\ UNCHANGED <<puBuf, puOk, rlTodo, rlDone, rlStray>>
  BY DEF PushNudged
<1>2. puOk = 0 /\ rlDone \in Nat /\ rlStray \in Nat /\ rlTodo \in {<<>>, <<"earlier">>}
  BY <1>1 DEF PushInv, PushShape
<1>3. PushShape'
  <2>1. puNudged' => ~ReplAt("earlier")'
    BY <1>1 DEF ReplAt
  <2> QED
    BY <1>1, <1>2, <2>1 DEF PushInv, PushShape
<1>4. Unread' = 0
  BY <1>1, MembersEmpty DEF Unread, One
<1>5. Half' = 0
  BY <1>1, <1>2 DEF Half, One, ReplAt
<1>6. Extra' \in Nat
  BY PushBits
<1>7. puOk' = 0 /\ rlDone' \in Nat /\ rlStray' \in Nat
  BY <1>1, <1>2
<1>8. puOk' + Unread' + Half' <= rlDone' + rlStray' + Extra'
  BY <1>4, <1>5, <1>6, <1>7, NoneCounted
<1> QED
  BY <1>3, <1>8 DEF PushInv

LEMMA PushSendKeeps ==
    ASSUME PushInv, PushSend
    PROVE  PushInv'
<1>1. CASE puPc' = "done"
  <2>1. UNCHANGED <<puOk, puBuf, puNudged, rlTodo, rlOut, rlDone, rlStray>>
    BY <1>1 DEF PushSend
  <2> QED
    BY <1>1, <2>1, PushQuiet
<1>2. CASE puPc' = "wait"
  <2>1. /\ puBuf' = <<>> /\ rlTodo' = Append(rlTodo, "form")
        /\ UNCHANGED <<puOk, puNudged, rlOut, rlDone, rlStray>>
    BY <1>2 DEF PushSend, FreshBuffer
  <2>2. rlTodo \in Seq({"earlier", "form", "printed"})
        /\ \A i \in DOMAIN rlTodo : i > 1 => rlTodo[i] = "form"
    BY DEF PushInv, PushShape
  <2>3. /\ rlTodo' \in Seq({"earlier", "form", "printed"}) /\ rlTodo' # <<>>
        /\ \A i \in DOMAIN rlTodo' : i > 1 => rlTodo'[i] = "form"
        /\ rlTodo'[1] = IF rlTodo = <<>> THEN "form" ELSE rlTodo[1]
    BY <2>1, <2>2
  <2>4. (ReplAt("earlier")' <=> ReplAt("earlier")) /\ (ReplAt("printed")' <=> ReplAt("printed"))
    BY <2>3 DEF ReplAt
  <2>5. PushShape'
    BY <1>2, <2>1, <2>3, <2>4 DEF PushInv, PushShape
  <2>6. Unread' = Unread /\ Half' = Half /\ Extra' = Extra
    BY <2>1, <2>4 DEF Unread, Half, Extra, One
  <2> QED
    BY <2>1, <2>5, <2>6 DEF PushInv
<1> QED
  BY <1>1, <1>2 DEF PushSend

\* What a read appended to the buffer ends with.
LEMMA BufferEnd ==
    ASSUME NEW a \in Seq({"v", ">"}), NEW b \in Seq({"v", ">"}), a \o b # <<>>
    PROVE  /\ a \o b \in Seq({"v", ">"})
           /\ b = <<>> => Last(a \o b) = Last(a) /\ a # <<>>
           /\ b # <<>> => Last(a \o b) \in Members(b)
<1>1. CASE b = <<>>
  BY <1>1, ConcatEmptySeq
<1>2. CASE b # <<>>
  <2>1. Len(a) \in Nat /\ Len(b) \in Nat /\ Len(b) > 0 /\ DOMAIN b = 1 .. Len(b)
    BY <1>2
  <2>2. a \o b \in Seq({"v", ">"}) /\ Len(a \o b) = Len(a) + Len(b)
    OBVIOUS
  <2>3. (a \o b)[Len(a) + Len(b)] = b[Len(b)]
    BY <2>1, ConcatProperties
  <2> QED
    BY <1>2, <2>1, <2>2, <2>3 DEF Last, Members
<1> QED
  BY <1>1, <1>2

LEMMA PushReadKeeps ==
    ASSUME PushInv, PushRead
    PROVE  PushInv'
<1> DEFINE b == puBuf \o rlOut
<1>1. /\ puPc = "wait" /\ b # <<>> /\ puBuf' = b /\ rlOut' = <<>>
      /\ IF Last(b) = ">" THEN puPc' = "send" /\ puOk' = puOk + 1
                          ELSE UNCHANGED <<puPc, puOk>>
      /\ UNCHANGED <<puNudged, rlTodo, rlDone, rlStray>>
  BY DEF PushRead
<1>2. /\ puBuf \in Seq({"v", ">"}) /\ rlOut \in Seq({"v", ">"})
      /\ puBuf # <<>> => Last(puBuf) # ">"
      /\ puOk \in Nat /\ rlDone \in Nat /\ rlStray \in Nat
      /\ puOk + Unread + Half <= rlDone + rlStray + Extra
  BY <1>1 DEF PushInv, PushShape
<1>3. b \in Seq({"v", ">"}) /\ (Last(b) = ">" => ">" \in Members(rlOut))
  BY <1>1, <1>2, BufferEnd
<1> HIDE DEF b
<1>4. PushShape'
  BY <1>1, <1>2, <1>3 DEF PushInv, PushShape, ReplAt
<1>5. Unread' = 0 /\ Half' = Half /\ Extra' = Extra
  BY <1>1, MembersEmpty DEF Unread, Half, Extra, ReplAt, One
<1>6. (puOk' = puOk + 1 /\ Unread = 1) \/ puOk' = puOk
  BY <1>1, <1>3 DEF Unread, One
<1>7. Unread \in Nat /\ Half \in Nat /\ Extra \in Nat
  BY PushBits
<1>8. puOk' + Unread' + Half' <= rlDone' + rlStray' + Extra'
  BY <1>1, <1>2, <1>5, <1>6, <1>7
<1> QED
  BY <1>4, <1>8 DEF PushInv

LEMMA ReplEchoesKeeps ==
    ASSUME PushInv, ReplEchoes
    PROVE  PushInv'
<1>1. /\ rlTodo # <<>> /\ rlOut' = Append(rlOut, ">") /\ rlStray' = rlStray + 1
      /\ UNCHANGED <<puPc, puBuf, puOk, puNudged, rlTodo, rlDone>>
  BY DEF ReplEchoes
<1>2. /\ rlOut \in Seq({"v", ">"})
      /\ puOk \in Nat /\ rlDone \in Nat /\ rlStray \in Nat
      /\ puOk + Unread + Half <= rlDone + rlStray + Extra
  BY DEF PushInv, PushShape
<1>3. rlOut' \in Seq({"v", ">"}) /\ rlStray' \in Nat
  BY <1>1, <1>2
<1>4. PushShape'
  <2>1. PushShape
    BY DEF PushInv
  <2>2. puPc # "idle"
    BY <1>1, <2>1 DEF PushShape
  <2>3. ReplAt("earlier")' <=> ReplAt("earlier")
    BY <1>1 DEF ReplAt
  <2>4. (puPc = "wait" /\ puBuf # <<>> => Last(puBuf) # ">")'
    BY <1>1, <2>1 DEF PushShape
  <2>5. (\A i \in DOMAIN rlTodo : i > 1 => rlTodo[i] = "form")'
    BY <1>1, <2>1 DEF PushShape
  <2> QED
    BY <1>1, <1>2, <1>3, <2>1, <2>2, <2>3, <2>4, <2>5 DEF PushShape
<1>5. Half' = Half /\ Extra' = Extra
  BY <1>1 DEF Half, Extra, ReplAt
<1>6. Unread \in Nat /\ Unread' \in Nat /\ Half \in Nat /\ Extra \in Nat /\ Unread' <= Unread + 1
  BY PushBits
<1>7. puOk' = puOk /\ rlDone' = rlDone /\ rlStray' = rlStray + 1
  BY <1>1
<1>8. puOk' + Unread' + Half' <= rlDone' + rlStray' + Extra'
  BY <1>2, <1>5, <1>6, <1>7, OneMoreStray
<1> QED
  BY <1>4, <1>8 DEF PushInv

LEMMA ReplPrintsKeeps ==
    ASSUME PushInv, ReplPrints
    PROVE  PushInv'
<1>1. /\ rlTodo # <<>> /\ Head(rlTodo) = "form"
      /\ \/ rlOut' = Append(rlOut, "v") /\ UNCHANGED rlStray
         \/ rlOut' = Append(rlOut, ">") /\ rlStray' = rlStray + 1
      /\ rlDone' = rlDone + 1 /\ rlTodo' = <<"printed">> \o Tail(rlTodo)
      /\ UNCHANGED <<puPc, puBuf, puOk, puNudged>>
  BY DEF ReplPrints
<1>2. /\ rlTodo \in Seq({"earlier", "form", "printed"}) /\ rlOut \in Seq({"v", ">"})
      /\ \A i \in DOMAIN rlTodo : i > 1 => rlTodo[i] = "form"
      /\ puOk \in Nat /\ rlDone \in Nat /\ rlStray \in Nat
      /\ puOk + Unread + Half <= rlDone + rlStray + Extra
  BY DEF PushInv, PushShape
<1>3. /\ rlTodo' \in Seq({"earlier", "form", "printed"}) /\ rlTodo' # <<>>
      /\ \A i \in DOMAIN rlTodo' : i > 1 => rlTodo'[i] = "form"
      /\ rlTodo'[1] = "printed" /\ rlTodo[1] = "form"
  <2>1. Tail(rlTodo) \in Seq({"earlier", "form", "printed"}) /\ Len(Tail(rlTodo)) = Len(rlTodo) - 1
        /\ \A i \in 1 .. (Len(rlTodo) - 1) : Tail(rlTodo)[i] = rlTodo[i + 1]
    BY <1>1, <1>2
  <2>2. /\ rlTodo' \in Seq({"earlier", "form", "printed"}) /\ Len(rlTodo') = Len(rlTodo)
        /\ rlTodo'[1] = "printed"
        /\ \A i \in 2 .. Len(rlTodo) : rlTodo'[i] = Tail(rlTodo)[i - 1]
    BY <1>1, <1>2, <2>1
  <2>3. ASSUME NEW i \in DOMAIN rlTodo', i > 1 PROVE rlTodo'[i] = "form"
    <3>1. i \in 2 .. Len(rlTodo) /\ i - 1 \in 1 .. (Len(rlTodo) - 1) /\ (i - 1) + 1 = i
          /\ i \in DOMAIN rlTodo
      BY <1>2, <2>2, <2>3
    <3> QED
      BY <1>2, <2>1, <2>2, <2>3, <3>1
  <2> QED
    BY <1>1, <1>2, <2>2, <2>3
<1>4. /\ rlOut' \in Seq({"v", ">"}) /\ rlStray' \in Nat
      /\ \/ Members(rlOut') = Members(rlOut) \cup {"v"} /\ rlStray' = rlStray
         \/ Members(rlOut') = Members(rlOut) \cup {">"} /\ rlStray' = rlStray + 1
  <2>1. CASE rlOut' = Append(rlOut, "v") /\ UNCHANGED rlStray
    BY <1>2, <2>1, MembersAppend
  <2>2. CASE rlOut' = Append(rlOut, ">") /\ rlStray' = rlStray + 1
    BY <1>2, <2>2, MembersAppend
  <2> QED
    BY <1>1, <2>1, <2>2
<1>5. ReplAt("printed")' /\ ~ReplAt("earlier")' /\ ~ReplAt("printed") /\ ~ReplAt("earlier")
  BY <1>3 DEF ReplAt
<1>6. PushShape'
  <2>1. puPc \notin {"idle", "nudge"}
    BY <1>1, <1>3 DEF PushInv, PushShape
  <2> QED
    BY <1>1, <1>2, <1>3, <1>4, <1>5, <2>1 DEF PushInv, PushShape
<1>7. Half' = 1 /\ Half = 0 /\ Extra' = Extra
  BY <1>1, <1>5 DEF Half, Extra, One
<1>8. Unread \in {0, 1} /\ Unread' \in {0, 1} /\ Extra \in Nat
  BY PushBits
<1>9. (Unread' = Unread /\ rlStray' = rlStray) \/ rlStray' = rlStray + 1
  BY <1>4 DEF Unread, One
<1>10. puOk' + Unread' + Half' <= rlDone' + rlStray' + Extra'
  BY <1>1, <1>2, <1>7, <1>8, <1>9
<1> QED
  BY <1>6, <1>10 DEF PushInv

LEMMA ReplPromptsKeeps ==
    ASSUME PushInv, ReplPrompts
    PROVE  PushInv'
<1>1. /\ rlTodo # <<>> /\ Head(rlTodo) # "form" /\ rlOut' = Append(rlOut, ">")
      /\ rlTodo' = Tail(rlTodo)
      /\ UNCHANGED <<puPc, puBuf, puOk, puNudged, rlDone, rlStray>>
  BY DEF ReplPrompts
<1>2. /\ rlTodo \in Seq({"earlier", "form", "printed"}) /\ rlOut \in Seq({"v", ">"})
      /\ \A i \in DOMAIN rlTodo : i > 1 => rlTodo[i] = "form"
      /\ puOk \in Nat /\ rlDone \in Nat /\ rlStray \in Nat
      /\ puOk + Unread + Half <= rlDone + rlStray + Extra
      /\ puNudged => ~ReplAt("earlier")
  BY DEF PushInv, PushShape
<1>3. /\ rlTodo' \in Seq({"earlier", "form", "printed"})
      /\ \A i \in DOMAIN rlTodo' : rlTodo'[i] = "form"
      /\ rlTodo[1] \in {"earlier", "printed"}
  <2>1. rlTodo' \in Seq({"earlier", "form", "printed"}) /\ Len(rlTodo') = Len(rlTodo) - 1
        /\ \A i \in 1 .. (Len(rlTodo) - 1) : rlTodo'[i] = rlTodo[i + 1]
    BY <1>1, <1>2
  <2>2. ASSUME NEW i \in DOMAIN rlTodo' PROVE rlTodo'[i] = "form"
    <3>1. i \in 1 .. (Len(rlTodo) - 1) /\ i + 1 \in DOMAIN rlTodo /\ i + 1 > 1
      BY <1>2, <2>1
    <3> QED
      BY <1>2, <2>1, <3>1
  <2>3. 1 \in DOMAIN rlTodo /\ rlTodo[1] = Head(rlTodo) /\ Head(rlTodo) \in {"earlier", "form", "printed"}
    BY <1>1, <1>2
  <2> QED
    BY <1>1, <2>1, <2>2, <2>3
<1>4. rlOut' \in Seq({"v", ">"}) /\ Members(rlOut') = Members(rlOut) \cup {">"}
  BY <1>1, <1>2, MembersAppend
<1>5. ~ReplAt("printed")' /\ ~ReplAt("earlier")' /\ (ReplAt("printed") \/ ReplAt("earlier"))
  <2>1. rlTodo' # <<>> => 1 \in DOMAIN rlTodo'
    BY <1>3
  <2> QED
    BY <1>1, <1>3, <2>1 DEF ReplAt
<1>6. puPc = "nudge" => rlTodo' = <<>>
  BY <1>1 DEF PushInv, PushShape
<1>7. PushShape'
  <2>1. puPc # "idle"
    BY <1>1 DEF PushInv, PushShape
  <2> QED
    BY <1>1, <1>2, <1>3, <1>4, <1>5, <1>6, <2>1 DEF PushInv, PushShape
<1>8. Unread' = 1 /\ Half' = 0
  BY <1>4, <1>5 DEF Unread, Half, One
<1>9. (Half = 1 /\ Extra' = Extra) \/ (Half = 0 /\ Extra = 0 /\ Extra' = 1)
  <2>1. ReplAt("printed") => ~ReplAt("earlier")
    BY DEF ReplAt
  <2>2. CASE ReplAt("printed")
    BY <1>1, <1>5, <2>1, <2>2 DEF Half, Extra, One
  <2>3. CASE ~ReplAt("printed")
    <3>1. ReplAt("earlier") /\ ~puNudged /\ ~puNudged'
      BY <1>1, <1>2, <1>5, <2>3
    <3> QED
      BY <1>5, <2>3, <3>1 DEF Half, Extra, One
  <2> QED
    BY <2>2, <2>3
<1>10. Unread \in Nat /\ Extra \in Nat
  BY PushBits
<1>11. puOk' + Unread' + Half' <= rlDone' + rlStray' + Extra'
  BY <1>1, <1>2, <1>8, <1>9, <1>10
<1> QED
  BY <1>7, <1>11 DEF PushInv

LEMMA PushHolds == PushSpec => []PushInv
<1>1. PushInit => PushInv
  <2>1. PushInit => PushShape
    BY DEF PushInit, PushShape, ReplAt
  <2>2. PushInit => Unread = 0
    BY MembersEmpty DEF PushInit, Unread, One
  <2>3. PushInit => Half = 0
    BY DEF PushInit, Half, One, ReplAt
  <2>4. PushInit => puOk + Unread + Half <= rlDone + rlStray + Extra
    BY <2>2, <2>3, PushBits DEF PushInit
  <2> QED
    BY <2>1, <2>4 DEF PushInv
<1>2. PushInv /\ [PushNext]_puVars => PushInv'
  <2> SUFFICES ASSUME PushInv, [PushNext]_puVars PROVE PushInv'
    OBVIOUS
  <2>1. CASE forms
    <3>1. /\ UNCHANGED <<puOk, puBuf, puNudged, rlTodo, rlOut, rlDone, rlStray>>
          /\ puPc' \notin {"idle", "nudge", "wait"}
      BY <2>1 DEF forms
    <3> QED
      BY <3>1, PushQuiet
  <2>2. CASE PushTimeout
    <3>1. /\ UNCHANGED <<puOk, puBuf, puNudged, rlTodo, rlOut, rlDone, rlStray>>
          /\ puPc' \notin {"idle", "nudge", "wait"}
      BY <2>2 DEF PushTimeout
    <3> QED
      BY <3>1, PushQuiet
  <2>3. CASE UNCHANGED puVars
    <3>1. UNCHANGED <<puPc, puOk, puBuf, puNudged, rlTodo, rlOut, rlDone, rlStray>>
      BY <2>3 DEF puVars
    <3> QED
      BY <3>1 DEF PushInv, PushShape, Unread, Half, Extra, ReplAt
  <2> QED
    BY <2>1, <2>2, <2>3, PushOpenKeeps, PushNudgedKeeps, PushSendKeeps, PushReadKeeps,
       ReplEchoesKeeps, ReplPrintsKeeps, ReplPromptsKeeps DEF PushNext, PushScript
<1> QED
  BY <1>1, <1>2, PTL DEF PushSpec

\* push-serial.py, for any file: a form counted as evaluated is backed by an
\* evaluation of its own, but for each ">" that is no prompt and for the prompt
\* of a form typed earlier when that missed the first read.
THEOREM CountIsBacked == PushSpec => []CountedWereEvaluated
<1>1. PushInv => CountedWereEvaluated
  <2> SUFFICES ASSUME PushInv PROVE CountedWereEvaluated
    OBVIOUS
  <2>1. /\ puOk \in Nat /\ rlDone \in Nat /\ rlStray \in Nat
        /\ puOk + Unread + Half <= rlDone + rlStray + Extra
    BY DEF PushInv, PushShape
  <2>2. Unread \in Nat /\ Half \in Nat /\ Extra \in {0, 1} /\ (puNudged => Extra = 0)
    BY PushBits DEF Extra, One
  <2> QED
    BY <2>1, <2>2 DEF CountedWereEvaluated
<1> QED
  BY <1>1, PushHolds, PTL

-----------------------------------------------------------------------------
(* push-serial.py.  From the state a the scan of the text t ends in b.      *)

Runs(a, t, b) ==
    \E f : /\ f[0] = a /\ f[Len(t)] = b
           /\ \A i \in 1 .. Len(t) : f[i] = Scan(f[i - 1], t[i])

LEMMA RunsNone ==
    ASSUME NEW a
    PROVE  Runs(a, <<>>, a)
<1> DEFINE f == [i \in 0 .. 0 |-> a]
<1>1. f[0] = a /\ Len(<<>>) = 0 /\ 1 .. 0 = {}
  OBVIOUS
<1> HIDE DEF f
<1>2. /\ f[0] = a /\ f[Len(<<>>)] = a
      /\ \A i \in 1 .. Len(<<>>) : f[i] = Scan(f[i - 1], <<>>[i])
  BY <1>1
<1> QED
  BY <1>2 DEF Runs

LEMMA RunsOne ==
    ASSUME NEW a, NEW c
    PROVE  Runs(a, <<c>>, Scan(a, c))
<1> DEFINE b == Scan(a, c)
           f == [i \in 0 .. 1 |-> IF i = 0 THEN a ELSE b]
<1> HIDE DEF b
<1>1. f[0] = a /\ f[1] = b
  OBVIOUS
<1> HIDE DEF f
<1>2. Len(<<c>>) = 1 /\ <<c>>[1] = c /\ 1 .. 1 = {1}
  OBVIOUS
<1>3. \A i \in 1 .. 1 : i = 1 /\ i - 1 = 0
  OBVIOUS
<1>4. \A i \in 1 .. 1 : f[i] = Scan(f[i - 1], <<c>>[i])
  BY <1>1, <1>2, <1>3 DEF b
<1>5. /\ f[0] = a /\ f[Len(<<c>>)] = Scan(a, c)
      /\ \A i \in 1 .. Len(<<c>>) : f[i] = Scan(f[i - 1], <<c>>[i])
  BY <1>1, <1>2, <1>4 DEF b
<1> QED
  BY <1>5 DEF Runs

LEMMA RunsThen ==
    ASSUME NEW S, NEW s \in Seq(S), NEW t \in Seq(S), NEW a, NEW b, NEW c,
           Runs(a, s, b), Runs(b, t, c)
    PROVE  Runs(a, s \o t, c)
<1>1. PICK f : /\ f[0] = a /\ f[Len(s)] = b
               /\ \A i \in 1 .. Len(s) : f[i] = Scan(f[i - 1], s[i])
  BY DEF Runs
<1>2. PICK g : /\ g[0] = b /\ g[Len(t)] = c
               /\ \A i \in 1 .. Len(t) : g[i] = Scan(g[i - 1], t[i])
  BY DEF Runs
<1> DEFINE m == Len(s)
           n == Len(t)
           h == [i \in 0 .. m + n |-> IF i <= m THEN f[i] ELSE g[i - m]]
<1>3. /\ m \in Nat /\ n \in Nat /\ Len(s \o t) = m + n
      /\ \A i \in 1 .. m + n : (s \o t)[i] = IF i <= m THEN s[i] ELSE t[i - m]
  BY ConcatProperties
<1> HIDE DEF m, n
<1>4. \A i \in 0 .. m : h[i] = f[i]
  BY <1>3
<1>5. \A i \in 0 .. n : h[i + m] = g[i]
  <2> SUFFICES ASSUME NEW i \in 0 .. n PROVE h[i + m] = g[i]
    OBVIOUS
  <2>1. CASE i = 0
    <3>1. i + m = m /\ m \in 0 .. m /\ f[m] = b /\ g[i] = b
      BY <1>1, <1>2, <1>3, <2>1 DEF m
    <3> QED
      BY <1>4, <3>1
  <2>2. CASE i # 0
    <3>1. i + m \in 0 .. m + n /\ ~(i + m <= m) /\ (i + m) - m = i
      BY <1>3, <2>2
    <3> QED
      BY <3>1
  <2> QED
    BY <2>1, <2>2
<1> HIDE DEF h
<1>6. ASSUME NEW i \in 1 .. m + n PROVE h[i] = Scan(h[i - 1], (s \o t)[i])
  <2>1. CASE i <= m
    <3>1. i \in 1 .. m /\ i \in 0 .. m /\ i - 1 \in 0 .. m /\ (s \o t)[i] = s[i]
      BY <1>3, <2>1
    <3>2. h[i] = f[i] /\ h[i - 1] = f[i - 1]
      BY <1>4, <3>1
    <3>3. f[i] = Scan(f[i - 1], s[i])
      BY <1>1, <3>1 DEF m
    <3> QED
      BY <3>1, <3>2, <3>3
  <2>2. CASE ~(i <= m)
    <3> DEFINE k == i - m
    <3>0. m \in Nat /\ n \in Nat /\ (s \o t)[i] = t[k]
      BY <1>3, <2>2
    <3>1. k \in 1 .. n /\ k \in 0 .. n /\ k - 1 \in 0 .. n
          /\ i = k + m /\ i - 1 = (k - 1) + m
      BY <2>2, <3>0
    <3> HIDE DEF k
    <3>2. h[k + m] = g[k] /\ h[(k - 1) + m] = g[k - 1]
      BY <1>5, <3>1
    <3>3. h[i] = g[k] /\ h[i - 1] = g[k - 1]
      BY <3>1, <3>2
    <3>4. g[k] = Scan(g[k - 1], t[k])
      BY <1>2, <3>1 DEF n
    <3> QED
      BY <3>0, <3>3, <3>4
  <2> QED
    BY <2>1, <2>2
<1>7. h[0] = a /\ h[m + n] = c
  <2>1. 0 \in 0 .. m /\ n \in 0 .. n /\ n + m = m + n
    BY <1>3
  <2>2. h[0] = f[0] /\ h[n + m] = g[n]
    BY <1>4, <1>5, <2>1
  <2> QED
    BY <1>1, <1>2, <2>1, <2>2 DEF n
<1>8. /\ h[0] = a /\ h[Len(s \o t)] = c
      /\ \A i \in 1 .. Len(s \o t) : h[i] = Scan(h[i - 1], (s \o t)[i])
  BY <1>3, <1>6, <1>7
<1> QED
  BY <1>8 DEF Runs

LEMMA RunsHead ==
    ASSUME NEW S, NEW t \in Seq(S), t # <<>>, NEW a, NEW b, Runs(a, t, b)
    PROVE  Runs(Scan(a, Head(t)), Tail(t), b)
<1>1. PICK f : /\ f[0] = a /\ f[Len(t)] = b
               /\ \A i \in 1 .. Len(t) : f[i] = Scan(f[i - 1], t[i])
  BY DEF Runs
<1> DEFINE n == Len(Tail(t))
           g == [i \in 0 .. n |-> f[i + 1]]
<1>2. /\ n \in Nat /\ Len(t) = n + 1 /\ Head(t) = t[1]
      /\ \A i \in 1 .. n : Tail(t)[i] = t[i + 1]
  OBVIOUS
<1> HIDE DEF n
<1>3. \A i \in 0 .. n : g[i] = f[i + 1]
  OBVIOUS
<1> HIDE DEF g
<1>4. g[0] = Scan(a, Head(t))
  <2>1. 0 \in 0 .. n /\ 0 + 1 = 1 /\ 1 \in 1 .. Len(t) /\ 1 - 1 = 0
    BY <1>2
  <2>2. g[0] = f[1] /\ f[1] = Scan(f[0], t[1])
    BY <1>1, <1>3, <2>1
  <2> QED
    BY <1>1, <1>2, <2>2
<1>5. g[n] = b
  BY <1>1, <1>2, <1>3
<1>6. ASSUME NEW i \in 1 .. n PROVE g[i] = Scan(g[i - 1], Tail(t)[i])
  <2>1. i \in 0 .. n /\ i - 1 \in 0 .. n /\ (i - 1) + 1 = i /\ i + 1 \in 1 .. Len(t)
        /\ (i + 1) - 1 = i
    BY <1>2
  <2>2. g[i] = f[i + 1] /\ g[i - 1] = f[i]
    BY <1>3, <2>1
  <2>3. f[i + 1] = Scan(f[i], t[i + 1])
    BY <1>1, <2>1
  <2> QED
    BY <1>2, <2>2, <2>3
<1>7. /\ g[0] = Scan(a, Head(t)) /\ g[Len(Tail(t))] = b
      /\ \A i \in 1 .. Len(Tail(t)) : g[i] = Scan(g[i - 1], Tail(t)[i])
  BY <1>4, <1>5, <1>6 DEF n
<1> QED
  BY <1>7 DEF Runs

LEMMA RunsEnd ==
    ASSUME NEW a, NEW b, Runs(a, <<>>, b)
    PROVE  a = b
BY DEF Runs

\* FlattenSeq, one sequence of s after the other.
Joins(s, f) ==
    f[0] = <<>> /\ \A i \in 1 .. Len(s) : f[i] = f[i - 1] \o s[i]

LEMMA JoinsUp ==
    ASSUME NEW S, NEW s \in Seq(Seq(S))
    PROVE  \E f \in [0 .. Len(s) -> Seq(S)] : Joins(s, f) /\ FlattenSeq(s) = f[Len(s)]
<1> DEFINE N == Len(s)
           K == {k \in 0 .. N : \E f \in [0 .. k -> Seq(S)] :
                   f[0] = <<>> /\ \A i \in 1 .. k : f[i] = f[i - 1] \o s[i]}
           T == K \cup {k \in Nat : k > N}
<1>1. N \in Nat /\ \A i \in 1 .. N : s[i] \in Seq(S)
  OBVIOUS
<1> HIDE DEF N
<1>2. 0 \in T
  <2> DEFINE f == [i \in 0 .. 0 |-> <<>>]
  <2>1. f \in [0 .. 0 -> Seq(S)] /\ f[0] = <<>> /\ 1 .. 0 = {}
    OBVIOUS
  <2> HIDE DEF f
  <2>2. f[0] = <<>> /\ \A i \in 1 .. 0 : f[i] = f[i - 1] \o s[i]
    BY <2>1
  <2>3. \E e \in [0 .. 0 -> Seq(S)] :
           e[0] = <<>> /\ \A i \in 1 .. 0 : e[i] = e[i - 1] \o s[i]
    BY <2>1, <2>2
  <2>4. 0 \in 0 .. N
    BY <1>1
  <2> QED
    BY <2>3, <2>4
<1>3. ASSUME NEW k \in Nat, k \in T PROVE k + 1 \in T
  <2>1. CASE k + 1 > N
    <3>1. k + 1 \in {j \in Nat : j > N}
      BY <2>1
    <3> HIDE DEF K
    <3> QED
      BY <3>1
  <2>2. CASE ~(k + 1 > N)
    <3>1. k + 1 \in 1 .. N /\ k + 1 \in 0 .. N /\ ~(k > N)
      BY <1>1, <2>2
    <3>2. k \in K
      BY <1>3, <3>1
    <3>3. PICK f \in [0 .. k -> Seq(S)] :
                f[0] = <<>> /\ \A i \in 1 .. k : f[i] = f[i - 1] \o s[i]
      BY <3>2
    <3> DEFINE g == [i \in 0 .. k + 1 |-> IF i = k + 1 THEN f[k] \o s[k + 1] ELSE f[i]]
    <3>4. f[k] \o s[k + 1] \in Seq(S)
      <4>1. f[k] \in Seq(S) /\ s[k + 1] \in Seq(S)
        BY <1>1, <3>1
      <4> QED
        BY <4>1
    <3>5. g \in [0 .. k + 1 -> Seq(S)]
      <4>1. \A i \in 0 .. k + 1 : i # k + 1 => i \in 0 .. k
        OBVIOUS
      <4>2. \A i \in 0 .. k + 1 : (IF i = k + 1 THEN f[k] \o s[k + 1] ELSE f[i]) \in Seq(S)
        BY <3>4, <4>1
      <4> QED
        BY <4>2
    <3>6. /\ g[k + 1] = f[k] \o s[k + 1]
          /\ \A i \in 0 .. k : g[i] = f[i]
      <4>1. k + 1 \in 0 .. k + 1 /\ \A i \in 0 .. k : i \in 0 .. k + 1 /\ i # k + 1
        OBVIOUS
      <4> QED
        BY <4>1
    <3> HIDE DEF g
    <3>7. g[0] = <<>>
      BY <3>3, <3>6
    <3>8. ASSUME NEW i \in 1 .. k + 1 PROVE g[i] = g[i - 1] \o s[i]
      <4>1. CASE i = k + 1
        <5>1. i - 1 = k /\ k \in 0 .. k
          BY <4>1
        <5> QED
          BY <3>6, <4>1, <5>1
      <4>2. CASE i # k + 1
        <5>1. i \in 1 .. k /\ i \in 0 .. k /\ i - 1 \in 0 .. k
          BY <4>2
        <5> QED
          BY <3>3, <3>6, <5>1
      <4> QED
        BY <4>1, <4>2
    <3>9. \E e \in [0 .. k + 1 -> Seq(S)] :
             e[0] = <<>> /\ \A i \in 1 .. k + 1 : e[i] = e[i - 1] \o s[i]
      BY <3>5, <3>7, <3>8
    <3> QED
      BY <3>1, <3>9
  <2> QED
    BY <2>1, <2>2
<1>4. Nat \subseteq T
  <2> HIDE DEF T
  <2> QED
    BY <1>2, <1>3, SetInduction
<1>5. N \in K
  <2>1. N \notin {k \in Nat : k > N}
    BY <1>1
  <2> HIDE DEF K
  <2>2. N \in T
    <3> HIDE DEF T
    <3> QED
      BY <1>1, <1>4
  <2> QED
    BY <2>1, <2>2
<1>6. PICK f \in [0 .. N -> Seq(S)] :
            f[0] = <<>> /\ \A i \in 1 .. N : f[i] = f[i - 1] \o s[i]
  BY <1>5
<1>7. FlattenSeq(s) = f[N]
  <2>1. CASE N = 0
    <3>1. s = <<>> /\ FlattenSeq(s) = s
      BY <2>1 DEF FlattenSeq, N
    <3> QED
      BY <1>6, <2>1, <3>1
  <2>2. CASE N # 0
    <3> DEFINE Turn(g) == [i \in 1 .. N |-> IF i = 1 THEN s[i] ELSE g[i - 1] \o s[i]]
               g == [i \in 1 .. N |-> f[i]]
               c == CHOOSE h : h = Turn(h)
    <3>1. 1 \in 1 .. N /\ f[1] = s[1]
      <4>1. 1 \in 1 .. N /\ 1 - 1 = 0
        BY <1>1, <2>2
      <4>2. s[1] \in Seq(S)
        BY <1>1, <4>1
      <4>3. f[1] = <<>> \o s[1]
        BY <1>6, <4>1
      <4> QED
        BY <4>1, <4>2, <4>3
    <3>2. ASSUME NEW i \in 1 .. N PROVE g[i] = IF i = 1 THEN s[i] ELSE g[i - 1] \o s[i]
      <4>1. CASE i = 1
        BY <3>1, <4>1
      <4>2. CASE i # 1
        <5>1. i - 1 \in 1 .. N
          BY <1>1, <4>2
        <5>2. g[i] = f[i] /\ g[i - 1] = f[i - 1]
          BY <5>1
        <5>3. f[i] = f[i - 1] \o s[i]
          BY <1>6
        <5> HIDE DEF g
        <5> QED
          BY <4>2, <5>2, <5>3
      <4> QED
        BY <4>1, <4>2
    <3>3. g = Turn(g)
      BY <3>2
    <3>4. c = Turn(c)
      <4> HIDE DEF Turn, g
      <4> QED
        BY <3>3
    <3>5. FlattenSeq(s) = c[N]
      <4>1. FlattenSeq(s) = c[Len(s)]
        BY <2>2 DEF FlattenSeq, N
      <4> QED
        BY <4>1 DEF N
    <3> HIDE DEF c
    <3>6. \A i \in 1 .. N : c[i] = IF i = 1 THEN s[i] ELSE c[i - 1] \o s[i]
      BY <3>4
    <3> DEFINE E == {k \in Nat : k = 0 \/ k > N \/ c[k] = f[k]}
    <3>7. ASSUME NEW k \in Nat, k \in E PROVE k + 1 \in E
      <4>1. CASE k + 1 > N
        BY <4>1
      <4>2. CASE k = 0 /\ ~(k + 1 > N)
        <5>1. k + 1 = 1 /\ 1 \in 1 .. N /\ 1 \in Nat
          BY <1>1, <4>2
        <5>2. c[1] = f[1]
          BY <3>1, <3>6, <5>1
        <5> QED
          BY <5>1, <5>2
      <4>3. CASE k # 0 /\ ~(k + 1 > N)
        <5>1. k + 1 \in 1 .. N /\ k + 1 # 1 /\ (k + 1) - 1 = k /\ c[k] = f[k]
          BY <1>1, <3>7, <4>3
        <5>2. c[k + 1] = c[k] \o s[k + 1] /\ f[k + 1] = f[k] \o s[k + 1]
          BY <1>6, <3>6, <5>1
        <5>3. c[k + 1] = f[k + 1] /\ k + 1 \in Nat
          BY <5>1, <5>2
        <5> QED
          BY <5>3
      <4> QED
        BY <4>1, <4>2, <4>3
    <3>8. Nat \subseteq E
      <4>1. 0 \in E
        OBVIOUS
      <4> HIDE DEF E
      <4> QED
        BY <3>7, <4>1, SetInduction
    <3>9. c[N] = f[N]
      BY <1>1, <2>2, <3>8
    <3> QED
      BY <3>5, <3>9
  <2> QED
    BY <2>1, <2>2
<1> QED
  BY <1>6, <1>7 DEF Joins, N

-----------------------------------------------------------------------------
(* What forms makes of a word.                                              *)

At(o, u, d) ==
    [out |-> o, cur |-> u, depth |-> d, instr |-> FALSE, esc |-> FALSE, comment |-> FALSE]
InComment(o, u, d) ==
    [out |-> o, cur |-> u, depth |-> d, instr |-> FALSE, esc |-> FALSE, comment |-> TRUE]
Quoted(o, u, d, e) ==
    [out |-> o, cur |-> u, depth |-> d, instr |-> TRUE, esc |-> e, comment |-> FALSE]

\* The characters of a word that reach cur.
KeptText(w) == IF w.kind = "comment" THEN <<"N">> ELSE w.text
Raw(words) == FlattenSeq([j \in DOMAIN words |-> KeptText(words[j])])

LEMMA ScansCode ==
    ASSUME NEW o, NEW u, NEW d
    PROVE  /\ Scan(At(o, u, d), "(") = At(o, Append(u, "("), d + 1)
           /\ d # 1 => Scan(At(o, u, d), ")") = At(o, Append(u, ")"), d - 1)
           /\ Scan(At(o, u, 1), ")") = At(Append(o, Append(u, ")")), <<>>, 0)
           /\ Scan(At(o, u, d), "a") = At(o, Append(u, "a"), d)
<1>1. Scan(At(o, u, d), "(") = At(o, Append(u, "("), d + 1)
  BY DEF Scan, At, White
<1>2. d # 1 => Scan(At(o, u, d), ")") = At(o, Append(u, ")"), d - 1)
  BY DEF Scan, At, White, Closed
<1>3. Scan(At(o, u, 1), ")") = At(Append(o, Append(u, ")")), <<>>, 0)
  BY DEF Scan, At, White, Closed
<1>4. Scan(At(o, u, d), "a") = At(o, Append(u, "a"), d)
  BY DEF Scan, At, White
<1> QED
  BY <1>1, <1>2, <1>3, <1>4

LEMMA CommentOpens ==
    ASSUME NEW o, NEW u, NEW d
    PROVE  Scan(At(o, u, d), "C") = InComment(o, u, d)
<1>1. Scan(At(o, u, d), "C") = [At(o, u, d) EXCEPT !.comment = TRUE]
  <2> DEFINE x == At(o, u, d)
  <2>1. ~x.comment /\ ~x.instr
    BY DEF At
  <2> HIDE DEF x
  <2>2. Scan(x, "C") = [x EXCEPT !.comment = TRUE]
    BY <2>1 DEF Scan, White
  <2> QED
    BY <2>2 DEF x
<1>2. [At(o, u, d) EXCEPT !.comment = TRUE] = InComment(o, u, d)
  <2> DEFINE yes == TRUE
             no == FALSE
  <2> HIDE DEF yes, no
  <2>1. [[out |-> o, cur |-> u, depth |-> d, instr |-> no, esc |-> no, comment |-> no]
           EXCEPT !.comment = yes]
        = [out |-> o, cur |-> u, depth |-> d, instr |-> no, esc |-> no, comment |-> yes]
    OBVIOUS
  <2> QED
    BY Zenon, <2>1 DEF At, InComment, yes, no
<1> QED
  BY <1>1, <1>2

LEMMA StringOpens ==
    ASSUME NEW o, NEW u, NEW d
    PROVE  Scan(At(o, u, d), "Q") = Quoted(o, Append(u, "Q"), d, FALSE)
<1>1. Scan(At(o, u, d), "Q") = [At(o, u, d) EXCEPT !.instr = TRUE, !.cur = Append(u, "Q")]
  <2> DEFINE x == At(o, u, d)
  <2>1. ~x.comment /\ ~x.instr /\ x.cur = u
    BY DEF At
  <2> HIDE DEF x
  <2>2. Scan(x, "Q") = [x EXCEPT !.instr = TRUE, !.cur = Append(x.cur, "Q")]
    BY <2>1 DEF Scan, White
  <2>3. Scan(x, "Q") = [x EXCEPT !.instr = TRUE, !.cur = Append(u, "Q")]
    BY <2>1, <2>2
  <2> QED
    BY <2>3 DEF x
<1>2. [At(o, u, d) EXCEPT !.instr = TRUE, !.cur = Append(u, "Q")]
      = Quoted(o, Append(u, "Q"), d, FALSE)
  <2> DEFINE yes == TRUE
             no == FALSE
             v == Append(u, "Q")
  <2> HIDE DEF yes, no, v
  <2>1. [[out |-> o, cur |-> u, depth |-> d, instr |-> no, esc |-> no, comment |-> no]
           EXCEPT !.instr = yes]
        = [out |-> o, cur |-> u, depth |-> d, instr |-> yes, esc |-> no, comment |-> no]
    OBVIOUS
  <2>2. [[out |-> o, cur |-> u, depth |-> d, instr |-> yes, esc |-> no, comment |-> no]
           EXCEPT !.cur = v]
        = [out |-> o, cur |-> v, depth |-> d, instr |-> yes, esc |-> no, comment |-> no]
    OBVIOUS
  <2>3. [[out |-> o, cur |-> u, depth |-> d, instr |-> no, esc |-> no, comment |-> no]
           EXCEPT !.instr = yes, !.cur = v]
        = [out |-> o, cur |-> v, depth |-> d, instr |-> yes, esc |-> no, comment |-> no]
    BY <2>1, <2>2
  <2> QED
    BY <2>3, Zenon, <2>1 DEF At, Quoted, yes, no, v
<1> QED
  BY <1>1, <1>2

LEMMA ScansWhite ==
    ASSUME NEW o, NEW u, NEW d, NEW c \in White
    PROVE  /\ d # 0 => Scan(At(o, u, d), c) = At(o, Append(u, c), d)
           /\ d = 0 => Scan(At(o, u, d), c) = At(o, u, d)
           /\ d # 0 => Scan(InComment(o, u, d), "N") = At(o, Append(u, "N"), d)
           /\ d = 0 => Scan(InComment(o, u, d), "N") = At(o, u, d)
<1>1. c \in {"S", "N"}
  BY DEF White
<1>2. d # 0 => Scan(At(o, u, d), c) = At(o, Append(u, c), d)
  BY <1>1 DEF Scan, At, White
<1>3. d = 0 => Scan(At(o, u, d), c) = At(o, u, d)
  BY <1>1 DEF Scan, At, White
<1>4. d # 0 => Scan(InComment(o, u, d), "N") = At(o, Append(u, "N"), d)
  BY DEF Scan, At, White, InComment
<1>5. d = 0 => Scan(InComment(o, u, d), "N") = At(o, u, d)
  BY DEF Scan, At, White, InComment
<1> QED
  BY <1>2, <1>3, <1>4, <1>5

LEMMA CommentGoesOn ==
    ASSUME NEW o, NEW u, NEW d, NEW c \in LispChar, c # "N"
    PROVE  Scan(InComment(o, u, d), c) = InComment(o, u, d)
<1> DEFINE x == InComment(o, u, d)
<1>1. x.comment
  BY DEF InComment
<1> HIDE DEF x
<1>2. Scan(x, c) = x
  BY <1>1 DEF Scan
<1> QED
  BY <1>2 DEF x

\* A character between the quotes.
LEMMA ScansQuoted ==
    ASSUME NEW o, NEW u, NEW d, NEW c, NEW e \in BOOLEAN
    PROVE  Scan(Quoted(o, u, d, e), c)
           = [out |-> o, cur |-> Append(u, c), depth |-> d,
              instr |-> (e \/ c # "Q"), esc |-> (~e /\ c = "B"), comment |-> FALSE]
<1> DEFINE q == Quoted(o, u, d, e)
<1>2. q.comment = FALSE /\ q.instr = TRUE /\ q.esc = e /\ q.cur = u
  BY DEF Quoted, At
<1>3. Scan(q, c) = InString(q, c)
  <2> HIDE DEF q
  <2> QED
    BY <1>2 DEF Scan
<1>4. InString(q, c) = [q EXCEPT !.cur = Append(u, c), !.esc = ~e /\ c = "B",
                                 !.instr = e \/ c # "Q"]
  <2> HIDE DEF q
  <2> QED
    BY <1>2 DEF InString
<1>5. InString(q, c) = [out |-> o, cur |-> Append(u, c), depth |-> d,
                        instr |-> (e \/ c # "Q"), esc |-> (~e /\ c = "B"), comment |-> FALSE]
  BY <1>4 DEF Quoted, At
<1> QED
  BY <1>3, <1>5

LEMMA StringEnds ==
    ASSUME NEW o, NEW u, NEW d, NEW e \in BOOLEAN, ~e
    PROVE  Scan(Quoted(o, u, d, e), "Q") = At(o, Append(u, "Q"), d)
<1>1. (e \/ "Q" # "Q") = FALSE /\ (~e /\ "Q" = "B") = FALSE
  OBVIOUS
<1>2. Scan(Quoted(o, u, d, e), "Q")
      = [out |-> o, cur |-> Append(u, "Q"), depth |-> d,
         instr |-> (e \/ "Q" # "Q"), esc |-> (~e /\ "Q" = "B"), comment |-> FALSE]
  BY ScansQuoted
<1> QED
  BY <1>1, <1>2 DEF At

LEMMA StringGoesOn ==
    ASSUME NEW o, NEW u, NEW d, NEW c, NEW e \in BOOLEAN, ~(c = "Q" /\ ~e)
    PROVE  Scan(Quoted(o, u, d, e), c) = Quoted(o, Append(u, c), d, c = "B" /\ ~e)
<1>1. (e \/ c # "Q") = TRUE /\ (~e /\ c = "B") = (c = "B" /\ ~e)
  OBVIOUS
<1>2. Scan(Quoted(o, u, d, e), c)
      = [out |-> o, cur |-> Append(u, c), depth |-> d,
         instr |-> (e \/ c # "Q"), esc |-> (~e /\ c = "B"), comment |-> FALSE]
  BY ScansQuoted
<1>3. Quoted(o, Append(u, c), d, c = "B" /\ ~e)
      = [out |-> o, cur |-> Append(u, c), depth |-> d, instr |-> TRUE,
         esc |-> (c = "B" /\ ~e), comment |-> FALSE]
  BY DEF Quoted
<1> QED
  BY <1>1, <1>2, <1>3

LEMMA CommentRuns ==
    ASSUME NEW t \in Seq(LispChar), CommentText(t), NEW o, NEW u, NEW d
    PROVE  /\ d # 0 => Runs(At(o, u, d), t, At(o, Append(u, "N"), d))
           /\ d = 0 => Runs(At(o, u, d), t, At(o, u, d))
<1> DEFINE n == Len(t)
           z == IF d = 0 THEN At(o, u, d) ELSE At(o, Append(u, "N"), d)
           a == At(o, u, d)
           k == InComment(o, u, d)
           f == [i \in 0 .. n |-> IF i = 0 THEN a ELSE IF i < n THEN k ELSE z]
<1>1. /\ n \in Nat /\ n > 1 /\ t[1] = "C" /\ t[n] = "N"
      /\ \A i \in 1 .. n : t[i] \in LispChar /\ (i < n => t[i] # "N")
  <2>1. n \in Nat /\ n > 1 /\ t[1] = "C" /\ \A i \in 1 .. n : t[i] = "N" <=> i = n
    BY DEF CommentText
  <2>2. \A i \in 1 .. n : t[i] \in LispChar
    OBVIOUS
  <2> HIDE DEF n
  <2>3. n \in 1 .. n /\ \A i \in 1 .. n : i < n => i # n
    BY <2>1
  <2> QED
    BY <2>1, <2>2, <2>3
<1>2. Scan(a, "C") = k
  BY CommentOpens
<1>3. Scan(k, "N") = z
  <2>1. "N" \in White
    BY DEF White
  <2> QED
    BY <2>1, ScansWhite
<1>4. \A c \in LispChar : c # "N" => Scan(k, c) = k
  BY CommentGoesOn
<1> HIDE DEF n, z, a, k
<1>5. /\ f[0] = a /\ f[n] = z
      /\ \A i \in 1 .. n : i < n => f[i] = k
  BY <1>1
<1> HIDE DEF f
<1>6. ASSUME NEW i \in 1 .. n PROVE f[i] = Scan(f[i - 1], t[i])
  <2>1. CASE i = 1
    BY <1>1, <1>2, <1>5, <2>1
  <2>2. CASE i # 1 /\ i < n
    <3>1. i - 1 \in 1 .. n /\ i - 1 < n
      BY <1>1, <2>2
    <3>2. f[i - 1] = k /\ f[i] = k
      BY <1>5, <2>2, <3>1
    <3> QED
      BY <1>1, <1>4, <2>2, <3>2
  <2>3. CASE ~(i < n)
    <3>1. i = n /\ i - 1 \in 1 .. n /\ i - 1 < n
      BY <1>1, <2>3
    <3> QED
      BY <1>1, <1>3, <1>5, <3>1
  <2> QED
    BY <2>1, <2>2, <2>3
<1>7. Runs(a, t, z)
  BY <1>5, <1>6 DEF Runs, n
<1> QED
  BY <1>7 DEF a, z

LEMMA SubSeqGrows ==
    ASSUME NEW S, NEW t \in Seq(S), NEW i \in 1 .. Len(t)
    PROVE  /\ SubSeq(t, 1, i - 1) \in Seq(S)
           /\ SubSeq(t, 1, i) = Append(SubSeq(t, 1, i - 1), t[i])
OBVIOUS

LEMMA StringRuns ==
    ASSUME NEW t \in Seq(LispChar), StringText(t), NEW o, NEW u \in Seq(LispChar), NEW d
    PROVE  Runs(At(o, u, d), t, At(o, u \o t, d))
<1> DEFINE n == Len(t)
           cur == [i \in 0 .. n |-> u \o SubSeq(t, 1, i)]
<1>1. /\ n \in Nat /\ n > 1 /\ t[1] = "Q"
      /\ \A i \in 1 .. n : t[i] \in LispChar
  BY DEF StringText
<1>2. PICK esc \in [1 .. n -> BOOLEAN] :
         /\ ~esc[1]
         /\ \A i \in 2 .. n : /\ esc[i] <=> t[i] = "B" /\ ~esc[i - 1]
                              /\ t[i] = "Q" /\ ~esc[i - 1] <=> i = n
  BY DEF StringText
<1>3. /\ cur[0] = u /\ cur[n] = u \o t
      /\ \A i \in 1 .. n : cur[i] = Append(cur[i - 1], t[i])
  <2>1. SubSeq(t, 1, 0) = <<>> /\ SubSeq(t, 1, n) = t /\ u \o <<>> = u
    OBVIOUS
  <2>2. 0 \in 0 .. n /\ n \in 0 .. n
    BY <1>1
  <2>3. ASSUME NEW i \in 1 .. n PROVE cur[i] = Append(cur[i - 1], t[i])
    <3>1. i \in 0 .. n /\ i - 1 \in 0 .. n
      BY <1>1
    <3>2. /\ SubSeq(t, 1, i - 1) \in Seq(LispChar)
          /\ SubSeq(t, 1, i) = Append(SubSeq(t, 1, i - 1), t[i])
      BY SubSeqGrows
    <3> DEFINE r == SubSeq(t, 1, i - 1)
    <3>3. u \o Append(r, t[i]) = Append(u \o r, t[i])
      <4>1. r \in Seq(LispChar) /\ t[i] \in LispChar
        BY <1>1, <3>2
      <4> HIDE DEF r
      <4> QED
        BY <4>1
    <3>4. cur[i] = u \o SubSeq(t, 1, i) /\ cur[i - 1] = u \o r
      BY <3>1
    <3> HIDE DEF cur, r
    <3> QED
      BY <3>2, <3>3, <3>4 DEF r
  <2>4. cur[0] = u /\ cur[n] = u \o t
    BY <2>1, <2>2
  <2> HIDE DEF cur, n
  <2> QED
    BY <2>3, <2>4
<1> HIDE DEF cur, n
<1> DEFINE f == [i \in 0 .. n |->
                   IF i = 0 \/ i = n THEN At(o, cur[i], d) ELSE Quoted(o, cur[i], d, esc[i])]
<1>4. /\ f[0] = At(o, u, d) /\ f[n] = At(o, u \o t, d)
      /\ \A i \in 1 .. n : i < n => f[i] = Quoted(o, cur[i], d, esc[i])
  <2>1. 0 \in 0 .. n /\ n \in 0 .. n
    BY <1>1
  <2>2. f[0] = At(o, cur[0], d) /\ f[n] = At(o, cur[n], d)
    BY <2>1
  <2>3. ASSUME NEW i \in 1 .. n, i < n PROVE f[i] = Quoted(o, cur[i], d, esc[i])
    <3>1. i \in 0 .. n /\ i # 0 /\ i # n
      BY <1>1, <2>3
    <3> QED
      BY <3>1
  <2> HIDE DEF f
  <2> QED
    BY <1>3, <2>2, <2>3
<1> HIDE DEF f
<1>5. ASSUME NEW i \in 1 .. n PROVE f[i] = Scan(f[i - 1], t[i])
  <2>1. CASE i = 1
    <3>1. i < n /\ i - 1 = 0
      BY <1>1, <2>1
    <3>2. esc[1] \in BOOLEAN /\ ~esc[1]
      BY <1>2, <2>1
    <3>3. esc[1] = FALSE
      BY <3>2
    <3>4. cur[i] = Append(cur[i - 1], t[i])
      BY <1>3
    <3>5. cur[1] = Append(u, "Q")
      BY <1>1, <1>3, <2>1, <3>1, <3>4
    <3>6. f[i] = Quoted(o, cur[i], d, esc[i])
      BY <1>4, <3>1
    <3>7. f[1] = Quoted(o, Append(u, "Q"), d, FALSE)
      BY <2>1, <3>3, <3>5, <3>6
    <3>8. Scan(At(o, u, d), "Q") = Quoted(o, Append(u, "Q"), d, FALSE)
      BY StringOpens
    <3> QED
      BY <1>1, <1>4, <2>1, <3>1, <3>7, <3>8
  <2>2. CASE i # 1
    <3>1. i \in 2 .. n /\ i - 1 \in 1 .. n /\ i - 1 < n
      BY <1>1, <2>2
    <3>2. esc[i - 1] \in BOOLEAN /\ esc[i] \in BOOLEAN /\ t[i] \in LispChar
      BY <1>1, <1>2, <3>1
    <3>3. f[i - 1] = Quoted(o, cur[i - 1], d, esc[i - 1])
      BY <1>4, <3>1
    <3>4. (esc[i] <=> t[i] = "B" /\ ~esc[i - 1]) /\ (t[i] = "Q" /\ ~esc[i - 1] <=> i = n)
      BY <1>2, <3>1
    <3>5. cur[i] = Append(cur[i - 1], t[i])
      BY <1>3
    <3>6. CASE i = n
      <4>1. Scan(f[i - 1], t[i]) = At(o, Append(cur[i - 1], t[i]), d)
        <5> DEFINE e == esc[i - 1]
                   v == cur[i - 1]
        <5>1. e \in BOOLEAN /\ ~e /\ t[i] = "Q"
          BY <3>2, <3>4, <3>6
        <5>2. f[i - 1] = Quoted(o, v, d, e)
          BY <3>3
        <5> HIDE DEF e, v
        <5>3. Scan(Quoted(o, v, d, e), "Q") = At(o, Append(v, "Q"), d)
          BY <5>1, StringEnds
        <5> QED
          BY <5>1, <5>2, <5>3 DEF v
      <4> QED
        BY <1>3, <1>4, <3>5, <3>6, <4>1
    <3>7. CASE i # n
      <4>1. Scan(f[i - 1], t[i])
            = Quoted(o, Append(cur[i - 1], t[i]), d, t[i] = "B" /\ ~esc[i - 1])
        <5> DEFINE e == esc[i - 1]
                   v == cur[i - 1]
                   c == t[i]
        <5>1. e \in BOOLEAN /\ c \in LispChar /\ ~(c = "Q" /\ ~e)
          BY <3>2, <3>4, <3>7
        <5>2. f[i - 1] = Quoted(o, v, d, e)
          BY <3>3
        <5> HIDE DEF e, v, c
        <5>3. Scan(Quoted(o, v, d, e), c) = Quoted(o, Append(v, c), d, c = "B" /\ ~e)
          BY <5>1, StringGoesOn
        <5> QED
          BY <5>2, <5>3 DEF e, v, c
      <4>2. esc[i] = (t[i] = "B" /\ ~esc[i - 1])
        BY <3>2, <3>4
      <4>3. f[i] = Quoted(o, cur[i], d, esc[i])
        BY <1>1, <1>4, <3>7
      <4> QED
        BY <3>5, <4>1, <4>2, <4>3
    <3> QED
      BY <3>6, <3>7
  <2> QED
    BY <2>1, <2>2
<1> QED
  BY <1>4, <1>5 DEF Runs, n

\* From state to state, a sequence at a time.
LEMMA RunsUp ==
    ASSUME NEW S, NEW s \in Seq(Seq(S)), NEW st,
           \A k \in 1 .. Len(s) : Runs(st[k - 1], s[k], st[k])
    PROVE  Runs(st[0], FlattenSeq(s), st[Len(s)])
<1> DEFINE N == Len(s)
<1>1. N \in Nat /\ \A i \in 1 .. N : s[i] \in Seq(S)
  OBVIOUS
<1>2. PICK f \in [0 .. N -> Seq(S)] : Joins(s, f) /\ FlattenSeq(s) = f[N]
  BY JoinsUp
<1>3. f[0] = <<>> /\ \A i \in 1 .. N : f[i] = f[i - 1] \o s[i]
  BY <1>2 DEF Joins
<1>4. \A k \in 1 .. N : Runs(st[k - 1], s[k], st[k])
  OBVIOUS
<1> HIDE DEF N
<1> DEFINE K == {k \in Nat : k <= N => Runs(st[0], f[k], st[k])}
<1>5. 0 \in K
  BY <1>3, RunsNone
<1>6. ASSUME NEW k \in Nat, k \in K PROVE k + 1 \in K
  <2>1. CASE k + 1 <= N
    <3>1. k + 1 \in 1 .. N /\ (k + 1) - 1 = k /\ k <= N /\ k \in 0 .. N
      BY <1>1, <2>1
    <3>2. Runs(st[0], f[k], st[k])
      BY <1>6, <3>1
    <3>3. Runs(st[k], s[k + 1], st[k + 1])
      BY <1>4, <3>1
    <3>4. f[k] \in Seq(S) /\ s[k + 1] \in Seq(S) /\ f[k + 1] = f[k] \o s[k + 1]
      BY <1>1, <1>2, <1>3, <3>1
    <3>5. Runs(st[0], f[k] \o s[k + 1], st[k + 1])
      BY <3>2, <3>3, <3>4, RunsThen
    <3>6. Runs(st[0], f[k + 1], st[k + 1])
      BY <3>4, <3>5
    <3> QED
      BY <3>6
  <2>2. CASE ~(k + 1 <= N)
    BY <2>2
  <2> QED
    BY <2>1, <2>2
<1>7. Nat \subseteq K
  <2> HIDE DEF K
  <2> QED
    BY <1>5, <1>6, SetInduction
<1>8. Runs(st[0], f[N], st[N])
  BY <1>1, <1>7
<1> QED
  BY <1>2, <1>8 DEF N

LEMMA WordShape ==
    ASSUME NEW w \in Word
    PROVE  /\ w.text \in Seq(LispChar)
           /\ KeptText(w) \in Seq(LispChar)
           /\ w.kind \in {"open", "close", "atom", "white", "comment", "string"}
           /\ w.kind = "open" => w.text = <<"(">> /\ KeptText(w) = <<"(">>
           /\ w.kind = "close" => w.text = <<")">> /\ KeptText(w) = <<")">>
           /\ w.kind = "atom" => w.text = <<"a">> /\ KeptText(w) = <<"a">>
           /\ w.kind = "white" =>
                KeptText(w) = w.text /\ \E c \in White : w.text = <<c>>
           /\ w.kind = "comment" => CommentText(w.text) /\ KeptText(w) = <<"N">>
           /\ w.kind = "string" => StringText(w.text) /\ KeptText(w) = w.text
<1>1. /\ w.kind \in {"open", "close", "atom", "white", "comment", "string"}
      /\ w.text \in Seq(LispChar)
      /\ w.kind = "open" => w.text = <<"(">>
      /\ w.kind = "close" => w.text = <<")">>
      /\ w.kind = "atom" => w.text = <<"a">>
      /\ w.kind = "white" => w.text \in {<<"S">>, <<"N">>}
      /\ w.kind = "comment" => CommentText(w.text)
      /\ w.kind = "string" => StringText(w.text)
  BY DEF Word
<1>2. KeptText(w) = IF w.kind = "comment" THEN <<"N">> ELSE w.text
  BY DEF KeptText
<1>3. <<"N">> \in Seq(LispChar)
  BY DEF LispChar
<1>4. w.kind = "white" => \E c \in White : w.text = <<c>>
  <2>1. "S" \in White /\ "N" \in White
    BY DEF White
  <2> QED
    BY <1>1, <2>1
<1> QED
  BY <1>1, <1>2, <1>3, <1>4

LEMMA OneMore ==
    ASSUME NEW u \in Seq(LispChar), NEW c
    PROVE  Append(u, c) = u \o <<c>>
OBVIOUS

\* An opening parenthesis, a closing one that is not the form's, and the form's.
LEMMA OpenRuns ==
    ASSUME NEW w \in Word, w.kind = "open", NEW o, NEW u \in Seq(LispChar), NEW d
    PROVE  Runs(At(o, u, d), w.text, At(o, u \o KeptText(w), d + 1))
<1>1. w.text = <<"(">> /\ KeptText(w) = <<"(">>
  BY WordShape
<1>2. Scan(At(o, u, d), "(") = At(o, Append(u, "("), d + 1)
  BY ScansCode
<1>3. Runs(At(o, u, d), <<"(">>, Scan(At(o, u, d), "("))
  BY RunsOne
<1> QED
  BY <1>1, <1>2, <1>3, OneMore

LEMMA CloseRuns ==
    ASSUME NEW w \in Word, w.kind = "close", NEW o, NEW u \in Seq(LispChar), NEW d, d # 1
    PROVE  Runs(At(o, u, d), w.text, At(o, u \o KeptText(w), d - 1))
<1>1. w.text = <<")">> /\ KeptText(w) = <<")">>
  BY WordShape
<1>2. Scan(At(o, u, d), ")") = At(o, Append(u, ")"), d - 1)
  BY ScansCode
<1>3. Runs(At(o, u, d), <<")">>, Scan(At(o, u, d), ")"))
  BY RunsOne
<1> QED
  BY <1>1, <1>2, <1>3, OneMore

LEMMA LastCloses ==
    ASSUME NEW w \in Word, w.kind = "close", NEW o, NEW u \in Seq(LispChar)
    PROVE  Runs(At(o, u, 1), w.text, At(Append(o, u \o KeptText(w)), <<>>, 0))
<1>1. w.text = <<")">> /\ KeptText(w) = <<")">>
  BY WordShape
<1>2. Scan(At(o, u, 1), ")") = At(Append(o, Append(u, ")")), <<>>, 0)
  BY ScansCode
<1>3. Runs(At(o, u, 1), <<")">>, Scan(At(o, u, 1), ")"))
  BY RunsOne
<1> QED
  BY <1>1, <1>2, <1>3, OneMore

\* The other words, inside a form; and a gap outside.
LEMMA InnerRuns ==
    ASSUME NEW w \in Word, w.kind \notin {"open", "close"}, NEW o, NEW u \in Seq(LispChar),
           NEW d, d # 0
    PROVE  Runs(At(o, u, d), w.text, At(o, u \o KeptText(w), d))
<1>1. CASE w.kind = "atom"
  <2>1. w.text = <<"a">> /\ KeptText(w) = <<"a">>
    BY <1>1, WordShape
  <2>2. Scan(At(o, u, d), "a") = At(o, Append(u, "a"), d)
    BY ScansCode
  <2>3. Runs(At(o, u, d), <<"a">>, Scan(At(o, u, d), "a"))
    BY RunsOne
  <2> QED
    BY <2>1, <2>2, <2>3, OneMore
<1>2. CASE w.kind = "white"
  <2>1. PICK c \in White : w.text = <<c>>
    BY <1>2, WordShape
  <2>2. KeptText(w) = <<c>>
    BY <1>2, <2>1, WordShape
  <2>3. Scan(At(o, u, d), c) = At(o, Append(u, c), d)
    BY ScansWhite
  <2>4. Runs(At(o, u, d), <<c>>, Scan(At(o, u, d), c))
    BY RunsOne
  <2> QED
    BY <2>1, <2>2, <2>3, <2>4, OneMore
<1>3. CASE w.kind = "comment"
  <2>1. CommentText(w.text) /\ KeptText(w) = <<"N">> /\ w.text \in Seq(LispChar)
    BY <1>3, WordShape
  <2>2. Runs(At(o, u, d), w.text, At(o, Append(u, "N"), d))
    BY <2>1, CommentRuns
  <2> QED
    BY <2>1, <2>2, OneMore
<1>4. CASE w.kind = "string"
  <2>1. StringText(w.text) /\ KeptText(w) = w.text /\ w.text \in Seq(LispChar)
    BY <1>4, WordShape
  <2>2. Runs(At(o, u, d), w.text, At(o, u \o w.text, d))
    BY <2>1, StringRuns
  <2> QED
    BY <2>1, <2>2
<1> QED
  BY <1>1, <1>2, <1>3, <1>4, WordShape

LEMMA GapRuns ==
    ASSUME NEW w \in Gap, NEW o, NEW u
    PROVE  Runs(At(o, u, 0), w.text, At(o, u, 0))
<1>1. w \in Word /\ w.kind \in {"white", "comment"}
  BY DEF Gap
<1>2. CASE w.kind = "white"
  <2>1. PICK c \in White : w.text = <<c>>
    BY <1>1, <1>2, WordShape
  <2>2. Scan(At(o, u, 0), c) = At(o, u, 0)
    BY ScansWhite
  <2>3. Runs(At(o, u, 0), <<c>>, Scan(At(o, u, 0), c))
    BY RunsOne
  <2> QED
    BY <2>1, <2>2, <2>3
<1>3. CASE w.kind = "comment"
  <2>1. CommentText(w.text) /\ w.text \in Seq(LispChar)
    BY <1>1, <1>3, WordShape
  <2> QED
    BY <2>1, CommentRuns
<1> QED
  BY <1>1, <1>2, <1>3

LEMMA FunctionIsSeq ==
    ASSUME NEW S, NEW n \in Nat, NEW f \in [1 .. n -> S]
    PROVE  f \in Seq(S) /\ Len(f) = n
OBVIOUS

\* The texts of words, and what reaches cur of them.
WordTexts(words) == [j \in DOMAIN words |-> words[j].text]
KeptOfWords(words) == [j \in DOMAIN words |-> KeptText(words[j])]

LEMMA TextsOfWords ==
    ASSUME NEW words \in Seq(Word)
    PROVE  /\ WordTexts(words) \in Seq(Seq(LispChar)) /\ Len(WordTexts(words)) = Len(words)
           /\ KeptOfWords(words) \in Seq(Seq(LispChar)) /\ Len(KeptOfWords(words)) = Len(words)
           /\ \A j \in 1 .. Len(words) : /\ words[j] \in Word
                                         /\ WordTexts(words)[j] = words[j].text
                                         /\ KeptOfWords(words)[j] = KeptText(words[j])
           /\ TextOf(words) = FlattenSeq(WordTexts(words))
           /\ Raw(words) = FlattenSeq(KeptOfWords(words))
<1> DEFINE n == Len(words)
<1>1. DOMAIN words = 1 .. n /\ n \in Nat /\ \A j \in 1 .. n : words[j] \in Word
  OBVIOUS
<1> HIDE DEF n
<1>2. \A j \in 1 .. n : words[j].text \in Seq(LispChar) /\ KeptText(words[j]) \in Seq(LispChar)
  BY <1>1, WordShape
<1>3. /\ WordTexts(words) = [j \in 1 .. n |-> words[j].text]
      /\ KeptOfWords(words) = [j \in 1 .. n |-> KeptText(words[j])]
  BY <1>1 DEF WordTexts, KeptOfWords
<1>4. WordTexts(words) \in [1 .. n -> Seq(LispChar)]
  BY <1>2, <1>3
<1>5. KeptOfWords(words) \in [1 .. n -> Seq(LispChar)]
  BY <1>2, <1>3
<1>6. WordTexts(words) \in Seq(Seq(LispChar)) /\ Len(WordTexts(words)) = n
  BY <1>1, <1>4, FunctionIsSeq
<1>7. KeptOfWords(words) \in Seq(Seq(LispChar)) /\ Len(KeptOfWords(words)) = n
  BY <1>1, <1>5, FunctionIsSeq
<1>8. \A j \in 1 .. n : /\ words[j] \in Word
                        /\ WordTexts(words)[j] = words[j].text
                        /\ KeptOfWords(words)[j] = KeptText(words[j])
  BY <1>1, <1>3
<1>9. TextOf(words) = FlattenSeq(WordTexts(words)) /\ Raw(words) = FlattenSeq(KeptOfWords(words))
  BY DEF TextOf, Raw, WordTexts, KeptOfWords
<1> QED
  BY <1>6, <1>7, <1>8, <1>9 DEF n

LEMMA GapsRun ==
    ASSUME NEW gaps \in Seq(Gap), NEW o, NEW u
    PROVE  /\ TextOf(gaps) \in Seq(LispChar)
           /\ Runs(At(o, u, 0), TextOf(gaps), At(o, u, 0))
<1> DEFINE s == WordTexts(gaps)
           a == At(o, u, 0)
           st == [k \in 0 .. Len(s) |-> a]
<1>1. gaps \in Seq(Word)
  <2>1. Gap \subseteq Word
    BY DEF Gap
  <2> QED
    BY <2>1
<1>2. s \in Seq(Seq(LispChar)) /\ Len(s) = Len(gaps)
  BY <1>1, TextsOfWords
<1>3. ASSUME NEW k \in 1 .. Len(s) PROVE Runs(a, s[k], a)
  <2>1. gaps[k] \in Gap /\ s[k] = gaps[k].text
    BY <1>1, <1>2, TextsOfWords
  <2> QED
    BY <2>1, GapRuns
<1>4. Len(s) \in Nat /\ TextOf(gaps) = FlattenSeq(s)
  BY <1>1, <1>2, TextsOfWords
<1>5. FlattenSeq(s) \in Seq(LispChar)
  <2> HIDE DEF s
  <2>1. PICK f \in [0 .. Len(s) -> Seq(LispChar)] : FlattenSeq(s) = f[Len(s)]
    BY <1>2, JoinsUp
  <2> QED
    BY <1>4, <2>1
<1> HIDE DEF s, a
<1>6. \A k \in 0 .. Len(s) : st[k] = a
  OBVIOUS
<1> HIDE DEF st
<1>7. ASSUME NEW k \in 1 .. Len(s) PROVE Runs(st[k - 1], s[k], st[k])
  <2>1. k \in 0 .. Len(s) /\ k - 1 \in 0 .. Len(s)
    BY <1>4
  <2> QED
    BY <1>3, <1>6, <2>1
<1>8. Runs(st[0], FlattenSeq(s), st[Len(s)])
  BY <1>2, <1>7, RunsUp
<1>9. st[0] = a /\ st[Len(s)] = a
  BY <1>4, <1>6
<1> QED
  BY <1>4, <1>5, <1>8, <1>9 DEF a

\* One more word on a depth.
LEMMA CountStep ==
    ASSUME NEW T, NEW j \in Nat \ {0}
    PROVE  /\ Cardinality({i \in 1 .. j : i \in T}) \in Nat
           /\ Cardinality({i \in 1 .. j - 1 : i \in T}) \in Nat
           /\ Cardinality({i \in 1 .. j : i \in T})
              = Cardinality({i \in 1 .. j - 1 : i \in T}) + (IF j \in T THEN 1 ELSE 0)
<1> DEFINE A == {i \in 1 .. j - 1 : i \in T}
           B == {i \in 1 .. j : i \in T}
<1>1. IsFiniteSet(1 .. j - 1) /\ A \in SUBSET (1 .. j - 1)
  BY FS_Interval
<1>2. IsFiniteSet(A)
  BY <1>1, FS_Subset
<1>3. j \notin A
  OBVIOUS
<1>4. B = IF j \in T THEN A \cup {j} ELSE A
  <2>1. \A i \in Nat : i \in 1 .. j <=> i \in 1 .. j - 1 \/ i = j
    OBVIOUS
  <2>2. B \subseteq Nat /\ A \subseteq Nat
    OBVIOUS
  <2> QED
    BY <2>1, <2>2
<1> HIDE DEF A, B
<1>5. Cardinality(A) \in Nat
  BY <1>2, FS_CardinalityType
<1>6. Cardinality(A \cup {j}) = Cardinality(A) + 1
  BY <1>2, <1>3, FS_AddElement
<1>7. Cardinality(B) = Cardinality(A) + (IF j \in T THEN 1 ELSE 0)
  BY <1>4, <1>5, <1>6
<1> QED
  BY <1>5, <1>7 DEF A, B

LEMMA DepthStep ==
    ASSUME NEW words, NEW j \in Nat \ {0}
    PROVE  /\ Depth(words, j - 1) \in Int
           /\ Depth(words, j) = Depth(words, j - 1)
                + (IF words[j].kind = "open" THEN 1
                   ELSE IF words[j].kind = "close" THEN -1 ELSE 0)
<1> DEFINE O == {i \in Nat : words[i].kind = "open"}
           C == {i \in Nat : words[i].kind = "close"}
           o(n) == Cardinality({i \in 1 .. n : i \in O})
           c(n) == Cardinality({i \in 1 .. n : i \in C})
<1>1. ASSUME NEW n \in Nat PROVE Depth(words, n) = o(n) - c(n)
  <2>1. {i \in 1 .. n : words[i].kind = "open"} = {i \in 1 .. n : i \in O}
    OBVIOUS
  <2>2. {i \in 1 .. n : words[i].kind = "close"} = {i \in 1 .. n : i \in C}
    OBVIOUS
  <2> QED
    BY <2>1, <2>2 DEF Depth
<1>2. j \in O <=> words[j].kind = "open"
  OBVIOUS
<1>3. j \in C <=> words[j].kind = "close"
  OBVIOUS
<1> HIDE DEF O, C
<1>4. o(j) \in Nat /\ o(j - 1) \in Nat /\ o(j) = o(j - 1) + (IF j \in O THEN 1 ELSE 0)
  BY CountStep
<1>5. c(j) \in Nat /\ c(j - 1) \in Nat /\ c(j) = c(j - 1) + (IF j \in C THEN 1 ELSE 0)
  BY CountStep
<1>6. j \in Nat /\ j - 1 \in Nat
  OBVIOUS
<1>7. Depth(words, j) = o(j) - c(j) /\ Depth(words, j - 1) = o(j - 1) - c(j - 1)
  BY <1>1, <1>6
<1>8. ~(words[j].kind = "open" /\ words[j].kind = "close")
  OBVIOUS
<1> HIDE DEF o, c
<1> QED
  BY <1>2, <1>3, <1>4, <1>5, <1>7, <1>8

LEMMA DepthNone ==
    ASSUME NEW words
    PROVE  Depth(words, 0) = 0
<1>1. {i \in 1 .. 0 : words[i].kind = "open"} = {} /\ {i \in 1 .. 0 : words[i].kind = "close"} = {}
  OBVIOUS
<1> QED
  BY <1>1, FS_EmptySet DEF Depth

\* A form is at some depth inside, and its last word is the closing parenthesis
\* that leaves the first one.
LEMMA FormDepths ==
    ASSUME NEW form \in LispForm
    PROVE  /\ form \in Seq(Word) /\ Len(form) \in Nat /\ Len(form) > 1
           /\ \A k \in 1 .. Len(form) - 1 : Depth(form, k) \in Nat /\ Depth(form, k) > 0
           /\ Depth(form, 0) = 0 /\ form[1].kind = "open"
           /\ Depth(form, Len(form) - 1) = 1 /\ form[Len(form)].kind = "close"
<1> DEFINE m == Len(form)
<1>1. /\ form \in Seq(Word) /\ m > 0 /\ form[1].kind = "open"
      /\ \A k \in 1 .. m - 1 : Depth(form, k) > 0
      /\ Depth(form, m) = 0
  BY DEF LispForm
<1>2. m \in Nat
  BY <1>1
<1> HIDE DEF m
<1>3. Depth(form, 0) = 0
  BY DepthNone
<1>4. m # 1
  <2> SUFFICES ASSUME m = 1 PROVE FALSE
    OBVIOUS
  <2>1. Depth(form, 1) = Depth(form, 1 - 1) + 1
    BY <1>1, DepthStep
  <2> QED
    BY <1>1, <1>3, <2>1
<1>5. m \in Nat \ {0} /\ m - 1 \in 1 .. m - 1
  BY <1>1, <1>2, <1>4
<1>6. Depth(form, m - 1) > 0
  BY <1>1, <1>5
<1>7. /\ Depth(form, m - 1) \in Int
      /\ Depth(form, m) = Depth(form, m - 1)
           + (IF form[m].kind = "open" THEN 1 ELSE IF form[m].kind = "close" THEN -1 ELSE 0)
  BY <1>5, DepthStep
<1>8. Depth(form, m - 1) = 1 /\ form[m].kind = "close"
  <2> DEFINE d == Depth(form, m - 1)
             w == form[m]
  <2>1. d \in Int /\ d > 0
    BY <1>6, <1>7
  <2>2. 0 = d + (IF w.kind = "open" THEN 1 ELSE IF w.kind = "close" THEN -1 ELSE 0)
    BY <1>1, <1>7
  <2> HIDE DEF d, w
  <2>3. d = 1 /\ w.kind = "close"
    BY <2>1, <2>2
  <2> QED
    BY <2>3 DEF d, w
<1>9. ASSUME NEW k \in 1 .. m - 1 PROVE Depth(form, k) \in Nat
  <2>1. k + 1 \in Nat \ {0} /\ (k + 1) - 1 = k
    BY <1>2
  <2>2. Depth(form, k) \in Int
    BY <2>1, DepthStep
  <2> QED
    BY <1>1, <2>2
<1> QED
  BY <1>1, <1>2, <1>3, <1>4, <1>8, <1>9 DEF m

LEMMA FormRuns ==
    ASSUME NEW form \in LispForm, NEW o
    PROVE  /\ TextOf(form) \in Seq(LispChar)
           /\ Runs(At(o, <<>>, 0), TextOf(form), At(Append(o, Raw(form)), <<>>, 0))
<1> DEFINE m == Len(form)
           s == WordTexts(form)
           r == KeptOfWords(form)
<1>1. /\ form \in Seq(Word) /\ m \in Nat /\ m > 1
      /\ \A k \in 1 .. m - 1 : Depth(form, k) \in Nat /\ Depth(form, k) > 0
      /\ Depth(form, 0) = 0 /\ form[1].kind = "open"
      /\ Depth(form, m - 1) = 1 /\ form[m].kind = "close"
  BY FormDepths
<1>2. /\ s \in Seq(Seq(LispChar)) /\ Len(s) = m
      /\ r \in Seq(Seq(LispChar)) /\ Len(r) = m
      /\ \A j \in 1 .. m : /\ form[j] \in Word /\ s[j] = form[j].text
                           /\ r[j] = KeptText(form[j])
      /\ TextOf(form) = FlattenSeq(s) /\ Raw(form) = FlattenSeq(r)
  BY <1>1, TextsOfWords
<1> HIDE DEF s, r, m
<1>3. PICK g \in [0 .. m -> Seq(LispChar)] : Joins(r, g) /\ FlattenSeq(r) = g[m]
  BY <1>2, JoinsUp
<1>4. g[0] = <<>> /\ \A i \in 1 .. m : g[i] = g[i - 1] \o r[i]
  BY <1>2, <1>3 DEF Joins
<1>5. TextOf(form) \in Seq(LispChar)
  <2>1. PICK f \in [0 .. m -> Seq(LispChar)] : FlattenSeq(s) = f[m]
    BY <1>2, JoinsUp
  <2>2. m \in 0 .. m
    BY <1>1
  <2> QED
    BY <1>2, <2>1, <2>2
<1> DEFINE z == At(Append(o, g[m]), <<>>, 0)
           st == [k \in 0 .. m |-> IF k = m THEN z ELSE At(o, g[k], Depth(form, k))]
<1>6. /\ st[0] = At(o, <<>>, 0) /\ st[m] = z
      /\ \A k \in 0 .. m : k # m => st[k] = At(o, g[k], Depth(form, k))
  BY <1>1, <1>4
<1> HIDE DEF st, z
<1>7. ASSUME NEW k \in 1 .. m PROVE Runs(st[k - 1], s[k], st[k])
  <2>1. k \in 0 .. m /\ k - 1 \in 0 .. m /\ k - 1 # m /\ k \in Nat \ {0}
    BY <1>1
  <2>2. /\ form[k] \in Word /\ s[k] = form[k].text /\ g[k] = g[k - 1] \o KeptText(form[k])
        /\ g[k - 1] \in Seq(LispChar)
    BY <1>2, <1>3, <1>4, <2>1
  <2> DEFINE d == Depth(form, k - 1)
             e == Depth(form, k)
             w == form[k]
  <2>3. st[k - 1] = At(o, g[k - 1], d)
    BY <1>6, <2>1
  <2>4. e = d + (IF w.kind = "open" THEN 1 ELSE IF w.kind = "close" THEN -1 ELSE 0)
    BY <2>1, DepthStep
  <2>5. CASE k = m
    <3>1. d = 1 /\ w.kind = "close"
      BY <1>1, <2>5
    <3>2. Runs(At(o, g[k - 1], 1), w.text, At(Append(o, g[k - 1] \o KeptText(w)), <<>>, 0))
      <4> HIDE DEF w
      <4> QED
        BY <2>2, <3>1, LastCloses DEF w
    <3>3. st[k] = At(Append(o, g[k]), <<>>, 0)
      BY <1>6, <2>5 DEF z
    <3> QED
      BY <2>2, <2>3, <3>1, <3>2, <3>3
  <2>6. CASE k # m
    <3>1. k \in 1 .. m - 1 /\ e \in Nat /\ e > 0
      BY <1>1, <2>1, <2>6
    <3>2. st[k] = At(o, g[k], e)
      BY <1>6, <2>1, <2>6
    <3>3. d \in Nat /\ (w.kind # "open" => d # 0)
      <4>1. CASE k = 1
        BY <1>1, <4>1
      <4>2. CASE k # 1
        <5>1. k - 1 \in 1 .. m - 1
          BY <1>1, <2>1, <4>2
        <5> QED
          BY <1>1, <5>1
      <4> QED
        BY <4>1, <4>2
    <3> HIDE DEF d, e, w
    <3>4. w \in Word /\ s[k] = w.text /\ g[k] = g[k - 1] \o KeptText(w)
      BY <2>2 DEF w
    <3>5. CASE w.kind = "open"
      <4>1. Runs(At(o, g[k - 1], d), w.text, At(o, g[k - 1] \o KeptText(w), d + 1))
        BY <2>2, <3>4, <3>5, OpenRuns
      <4>2. e = d + 1
        BY <2>4, <3>5
      <4> QED
        BY <2>3, <3>2, <3>4, <4>1, <4>2
    <3>6. CASE w.kind = "close"
      <4>1. e = d - 1 /\ d # 1
        BY <2>4, <3>1, <3>3, <3>6
      <4>2. Runs(At(o, g[k - 1], d), w.text, At(o, g[k - 1] \o KeptText(w), d - 1))
        BY <2>2, <3>4, <3>6, <4>1, CloseRuns
      <4> QED
        BY <2>3, <3>2, <3>4, <4>1, <4>2
    <3>7. CASE w.kind \notin {"open", "close"}
      <4>1. e = d /\ d # 0
        BY <2>4, <3>3, <3>7
      <4>2. Runs(At(o, g[k - 1], d), w.text, At(o, g[k - 1] \o KeptText(w), d))
        BY <2>2, <3>4, <3>7, <4>1, InnerRuns
      <4> QED
        BY <2>3, <3>2, <3>4, <4>1, <4>2
    <3> QED
      BY <3>5, <3>6, <3>7
  <2> QED
    BY <2>5, <2>6
<1>8. Runs(st[0], FlattenSeq(s), st[m])
  BY <1>2, <1>7, RunsUp
<1> QED
  BY <1>2, <1>3, <1>5, <1>6, <1>8 DEF z

\* forms, over a piece and over a file.
PieceText(p) == TextOf(p.before) \o TextOf(p.form) \o TextOf(p.after)
Raws(file) == [i \in DOMAIN file |-> Raw(file[i].form)]

LEMMA PieceRuns ==
    ASSUME NEW p \in Piece, NEW o
    PROVE  /\ PieceText(p) \in Seq(LispChar)
           /\ Runs(At(o, <<>>, 0), PieceText(p), At(Append(o, Raw(p.form)), <<>>, 0))
<1> DEFINE b == TextOf(p.before)
           f == TextOf(p.form)
           e == TextOf(p.after)
           z == Append(o, Raw(p.form))
<1>1. p.before \in Seq(Gap) /\ p.form \in LispForm /\ p.after \in Seq(Gap)
  BY DEF Piece
<1>2. b \in Seq(LispChar) /\ Runs(At(o, <<>>, 0), b, At(o, <<>>, 0))
  BY <1>1, GapsRun
<1>3. f \in Seq(LispChar) /\ Runs(At(o, <<>>, 0), f, At(z, <<>>, 0))
  BY <1>1, FormRuns
<1>4. e \in Seq(LispChar) /\ Runs(At(z, <<>>, 0), e, At(z, <<>>, 0))
  BY <1>1, GapsRun
<1>5. PieceText(p) = (b \o f) \o e
  BY DEF PieceText
<1> HIDE DEF b, f, e, z
<1>6. b \o f \in Seq(LispChar) /\ Runs(At(o, <<>>, 0), b \o f, At(z, <<>>, 0))
  BY <1>2, <1>3, RunsThen
<1>7. (b \o f) \o e \in Seq(LispChar) /\ Runs(At(o, <<>>, 0), (b \o f) \o e, At(z, <<>>, 0))
  <2> DEFINE y == b \o f
  <2>1. y \in Seq(LispChar) /\ Runs(At(o, <<>>, 0), y, At(z, <<>>, 0))
    BY <1>6
  <2> HIDE DEF y
  <2>2. Runs(At(o, <<>>, 0), y \o e, At(z, <<>>, 0))
    BY <1>4, <2>1, RunsThen
  <2>3. y \o e \in Seq(LispChar)
    BY <1>4, <2>1
  <2> QED
    BY <2>2, <2>3 DEF y
<1> QED
  BY <1>5, <1>7 DEF z

LEMMA FileRuns ==
    ASSUME NEW file \in Seq(Piece)
    PROVE  /\ FileText(file) \in Seq(LispChar)
           /\ Runs(Scan0, FileText(file), At(Raws(file), <<>>, 0))
<1> DEFINE n == Len(file)
           s == [i \in DOMAIN file |-> PieceText(file[i])]
           r == Raws(file)
           st == [k \in 0 .. n |-> At(SubSeq(r, 1, k), <<>>, 0)]
<1>1. DOMAIN file = 1 .. n /\ n \in Nat /\ \A i \in 1 .. n : file[i] \in Piece
  OBVIOUS
<1>2. \A i \in 1 .. n : PieceText(file[i]) \in Seq(LispChar)
  BY <1>1, PieceRuns
<1>3. \A i \in 1 .. n : file[i].form \in LispForm
  BY <1>1 DEF Piece
<1>4. \A i \in 1 .. n : Raw(file[i].form) \in Seq(LispChar)
  <2> SUFFICES ASSUME NEW i \in 1 .. n PROVE Raw(file[i].form) \in Seq(LispChar)
    OBVIOUS
  <2> DEFINE w == file[i].form
  <2>1. w \in Seq(Word)
    BY <1>3, FormDepths
  <2> HIDE DEF w
  <2>2. /\ KeptOfWords(w) \in Seq(Seq(LispChar)) /\ Raw(w) = FlattenSeq(KeptOfWords(w))
    BY <2>1, TextsOfWords
  <2>3. Len(KeptOfWords(w)) \in 0 .. Len(KeptOfWords(w))
    BY <2>2
  <2>4. PICK f \in [0 .. Len(KeptOfWords(w)) -> Seq(LispChar)] :
              FlattenSeq(KeptOfWords(w)) = f[Len(KeptOfWords(w))]
    BY <2>2, JoinsUp
  <2>5. Raw(w) \in Seq(LispChar)
    BY <2>2, <2>3, <2>4
  <2> QED
    BY <2>5 DEF w
<1>5. FileText(file) = FlattenSeq(s)
  BY DEF FileText, PieceText
<1>6. s \in [1 .. n -> Seq(LispChar)] /\ \A i \in 1 .. n : s[i] = PieceText(file[i])
  BY <1>1, <1>2
<1>7. r \in [1 .. n -> Seq(LispChar)] /\ \A i \in 1 .. n : r[i] = Raw(file[i].form)
  BY <1>1, <1>4 DEF Raws
<1> HIDE DEF n, s, r
<1>8. s \in Seq(Seq(LispChar)) /\ Len(s) = n
  BY <1>1, <1>6, FunctionIsSeq
<1>9. r \in Seq(Seq(LispChar)) /\ Len(r) = n
  BY <1>1, <1>7, FunctionIsSeq
<1>10. \A k \in 0 .. n : st[k] = At(SubSeq(r, 1, k), <<>>, 0)
  OBVIOUS
<1> HIDE DEF st
<1>11. ASSUME NEW k \in 1 .. n PROVE Runs(st[k - 1], s[k], st[k])
  <2>1. k \in 0 .. n /\ k - 1 \in 0 .. n /\ k \in 1 .. Len(r)
    BY <1>1, <1>9
  <2>2. SubSeq(r, 1, k) = Append(SubSeq(r, 1, k - 1), r[k])
    BY <1>9, <2>1, SubSeqGrows
  <2>3. Runs(At(SubSeq(r, 1, k - 1), <<>>, 0), PieceText(file[k]),
             At(Append(SubSeq(r, 1, k - 1), Raw(file[k].form)), <<>>, 0))
    BY <1>1, PieceRuns
  <2> QED
    BY <1>6, <1>7, <1>10, <2>1, <2>2, <2>3
<1>12. Runs(st[0], FlattenSeq(s), st[n])
  BY <1>8, <1>11, RunsUp
<1>13. st[0] = Scan0 /\ st[n] = At(r, <<>>, 0)
  <2>1. 0 \in 0 .. n /\ n \in 0 .. n
    BY <1>1
  <2>2. SubSeq(r, 1, 0) = <<>> /\ SubSeq(r, 1, n) = r
    BY <1>9
  <2>3. Scan0 = At(<<>>, <<>>, 0)
    BY DEF Scan0, At
  <2> QED
    BY <1>10, <2>1, <2>2, <2>3
<1>14. FlattenSeq(s) \in Seq(LispChar)
  <2>1. PICK f \in [0 .. n -> Seq(LispChar)] : FlattenSeq(s) = f[n]
    BY <1>8, JoinsUp
  <2>2. n \in 0 .. n
    BY <1>1
  <2> QED
    BY <2>1, <2>2
<1> QED
  BY <1>5, <1>12, <1>13, <1>14 DEF r

-----------------------------------------------------------------------------
(* A form on one line.                                                      *)

FlatStep(x, c, afterWhite) ==
    IF c \notin White THEN Append(x, c) ELSE IF afterWhite THEN x ELSE Append(x, "S")
FlatTo(s, t) ==
    \E g : /\ g[0] = <<>> /\ g[Len(s)] = t
           /\ \A i \in 1 .. Len(s) : g[i] = FlatStep(g[i - 1], s[i], i > 1 /\ s[i - 1] \in White)
EndsWhite(s) == Len(s) > 0 /\ s[Len(s)] \in White

LEMMA FlattenIs ==
    ASSUME NEW s \in Seq(LispChar), NEW t, FlatTo(s, t)
    PROVE  Flatten(s) = t
<1> DEFINE N == Len(s)
           Turn(f) == [i \in 0 .. N |->
                         IF i = 0 THEN <<>>
                         ELSE IF s[i] \notin White THEN Append(f[i - 1], s[i])
                         ELSE IF i > 1 /\ s[i - 1] \in White THEN f[i - 1]
                         ELSE Append(f[i - 1], "S")]
           c == CHOOSE f : f = Turn(f)
<1>1. PICK g : /\ g[0] = <<>> /\ g[N] = t
               /\ \A i \in 1 .. N :
                    g[i] = FlatStep(g[i - 1], s[i], i > 1 /\ s[i - 1] \in White)
  BY DEF FlatTo
<1>2. N \in Nat
  OBVIOUS
<1> DEFINE h == [i \in 0 .. N |-> g[i]]
<1>3. Flatten(s) = c[N]
  BY DEF Flatten
<1> HIDE DEF N
<1>4. ASSUME NEW i \in 0 .. N
      PROVE  h[i] = IF i = 0 THEN <<>>
                    ELSE IF s[i] \notin White THEN Append(h[i - 1], s[i])
                    ELSE IF i > 1 /\ s[i - 1] \in White THEN h[i - 1]
                    ELSE Append(h[i - 1], "S")
  <2>1. CASE i = 0
    BY <1>1, <2>1
  <2>2. CASE i # 0
    <3>1. i \in 1 .. N /\ i - 1 \in 0 .. N
      BY <1>2, <2>2
    <3>2. h[i] = g[i] /\ h[i - 1] = g[i - 1]
      BY <3>1
    <3>3. g[i] = FlatStep(g[i - 1], s[i], i > 1 /\ s[i - 1] \in White)
      BY <1>1, <3>1
    <3> HIDE DEF h
    <3> QED
      BY <2>2, <3>2, <3>3 DEF FlatStep
  <2> QED
    BY <2>1, <2>2
<1>5. h = Turn(h)
  BY <1>4
<1>6. c = Turn(c)
  <2> HIDE DEF Turn, h
  <2> QED
    BY <1>5
<1> HIDE DEF c
<1>7. c[0] = <<>> /\ \A i \in 1 .. N :
        c[i] = IF s[i] \notin White THEN Append(c[i - 1], s[i])
               ELSE IF i > 1 /\ s[i - 1] \in White THEN c[i - 1]
               ELSE Append(c[i - 1], "S")
  <2>1. \A i \in 0 .. N :
          c[i] = IF i = 0 THEN <<>>
                 ELSE IF s[i] \notin White THEN Append(c[i - 1], s[i])
                 ELSE IF i > 1 /\ s[i - 1] \in White THEN c[i - 1]
                 ELSE Append(c[i - 1], "S")
    BY <1>6
  <2>2. 0 \in 0 .. N /\ \A i \in 1 .. N : i \in 0 .. N /\ i # 0
    BY <1>2
  <2> HIDE DEF Turn, h
  <2> QED
    BY <2>1, <2>2
<1> DEFINE E == {k \in Nat : k <= N => c[k] = g[k]}
<1>8. 0 \in E
  BY <1>1, <1>7
<1>9. ASSUME NEW k \in Nat, k \in E PROVE k + 1 \in E
  <2>1. CASE k + 1 <= N
    <3>1. k + 1 \in 1 .. N /\ (k + 1) - 1 = k /\ c[k] = g[k]
      BY <1>2, <1>9, <2>1
    <3>2. g[k + 1] = FlatStep(g[k], s[k + 1], k + 1 > 1 /\ s[k] \in White)
      BY <1>1, <3>1
    <3>3. c[k + 1] = IF s[k + 1] \notin White THEN Append(c[k], s[k + 1])
                     ELSE IF k + 1 > 1 /\ s[k] \in White THEN c[k]
                     ELSE Append(c[k], "S")
      BY <1>7, <3>1
    <3> HIDE DEF Turn, h
    <3>4. c[k + 1] = g[k + 1]
      BY <3>1, <3>2, <3>3 DEF FlatStep
    <3> QED
      BY <3>4
  <2>2. CASE ~(k + 1 <= N)
    BY <2>2
  <2> QED
    BY <2>1, <2>2
<1>10. Nat \subseteq E
  <2> HIDE DEF E
  <2> QED
    BY <1>8, <1>9, SetInduction
<1>11. c[N] = g[N]
  BY <1>2, <1>10
<1> QED
  BY <1>1, <1>3, <1>11

\* A text flattened, then another after it.
LEMMA FlatExtends ==
    ASSUME NEW s \in Seq(LispChar), NEW u \in Seq(LispChar), NEW t, FlatTo(s, t), NEW h, h[0] = t,
           \A j \in 1 .. Len(u) :
             h[j] = FlatStep(h[j - 1], u[j],
                             (j = 1 /\ EndsWhite(s)) \/ (j > 1 /\ u[j - 1] \in White))
    PROVE  FlatTo(s \o u, h[Len(u)])
<1> DEFINE m == Len(s)
           n == Len(u)
           x == s \o u
<1>1. /\ m \in Nat /\ n \in Nat /\ Len(x) = m + n
      /\ \A i \in 1 .. m + n : x[i] = IF i <= m THEN s[i] ELSE u[i - m]
  BY ConcatProperties
<1>2. PICK g : /\ g[0] = <<>> /\ g[m] = t
               /\ \A i \in 1 .. m :
                    g[i] = FlatStep(g[i - 1], s[i], i > 1 /\ s[i - 1] \in White)
  BY DEF FlatTo
<1>3. \A j \in 1 .. n :
        h[j] = FlatStep(h[j - 1], u[j],
                        (j = 1 /\ EndsWhite(s)) \/ (j > 1 /\ u[j - 1] \in White))
  OBVIOUS
<1>4. EndsWhite(s) <=> m > 0 /\ s[m] \in White
  BY DEF EndsWhite
<1> HIDE DEF m, n, x
<1> DEFINE f == [i \in 0 .. m + n |-> IF i <= m THEN g[i] ELSE h[i - m]]
<1>5. \A i \in 0 .. m : f[i] = g[i]
  BY <1>1
<1>6. \A i \in 0 .. n : f[i + m] = h[i]
  <2> SUFFICES ASSUME NEW i \in 0 .. n PROVE f[i + m] = h[i]
    OBVIOUS
  <2>1. CASE i = 0
    <3>1. i + m = m /\ m \in 0 .. m
      BY <1>1, <2>1
    <3> HIDE DEF f
    <3> QED
      BY <1>2, <1>5, <2>1, <3>1
  <2>2. CASE i # 0
    <3>1. i + m \in 0 .. m + n /\ ~(i + m <= m) /\ (i + m) - m = i
      BY <1>1, <2>2
    <3> QED
      BY <3>1
  <2> QED
    BY <2>1, <2>2
<1> HIDE DEF f
<1>7. ASSUME NEW i \in 1 .. m + n
      PROVE  f[i] = FlatStep(f[i - 1], x[i], i > 1 /\ x[i - 1] \in White)
  <2>1. CASE i <= m
    <3>1. i \in 1 .. m /\ i \in 0 .. m /\ i - 1 \in 0 .. m
      BY <1>1, <2>1
    <3>2. x[i] = s[i] /\ (i > 1 => x[i - 1] = s[i - 1])
      <4>1. i > 1 => i - 1 \in 1 .. m + n /\ i - 1 <= m
        BY <1>1, <3>1
      <4> QED
        BY <1>1, <2>1, <4>1
    <3>3. (i > 1 /\ x[i - 1] \in White) = (i > 1 /\ s[i - 1] \in White)
      BY <3>2
    <3>4. f[i] = g[i] /\ f[i - 1] = g[i - 1]
      BY <1>5, <3>1
    <3> QED
      BY <1>2, <3>1, <3>2, <3>3, <3>4
  <2>2. CASE ~(i <= m)
    <3> DEFINE j == i - m
    <3>1. /\ j \in 1 .. n /\ j \in 0 .. n /\ j - 1 \in 0 .. n
          /\ i = j + m /\ i - 1 = (j - 1) + m
      <4>1. m \in Nat /\ n \in Nat
        BY <1>1
      <4> QED
        BY <2>2, <4>1
    <3>2. x[i] = u[j]
      BY <1>1, <2>2
    <3>3. i > 1 /\ j > 1 => x[i - 1] = u[j - 1]
      <4>1. i > 1 /\ j > 1 => i - 1 \in 1 .. m + n /\ ~(i - 1 <= m) /\ (i - 1) - m = j - 1
        BY <1>1, <3>1
      <4> HIDE DEF j
      <4> QED
        BY <1>1, <4>1
    <3>4. i > 1 /\ j = 1 => x[i - 1] = s[m]
      <4>1. i > 1 /\ j = 1 => i - 1 \in 1 .. m + n /\ i - 1 <= m /\ i - 1 = m
        BY <1>1, <3>1
      <4> HIDE DEF j
      <4> QED
        BY <1>1, <4>1
    <3>5. (i > 1 <=> (j = 1 /\ m > 0) \/ j > 1) /\ (j = 1 \/ j > 1)
      BY <1>1, <3>1
    <3> HIDE DEF j
    <3>6. (i > 1 /\ x[i - 1] \in White)
          <=> (j = 1 /\ EndsWhite(s)) \/ (j > 1 /\ u[j - 1] \in White)
      <4>1. CASE j = 1
        <5>1. ~(j > 1)
          BY <4>1
        <5> QED
          BY Zenon, <1>4, <3>4, <3>5, <4>1, <5>1
      <4>2. CASE j > 1
        <5>1. j # 1
          BY <4>2
        <5> QED
          BY Zenon, <3>3, <3>5, <4>2, <5>1
      <4> QED
        BY <3>5, <4>1, <4>2
    <3>7. f[i] = h[j] /\ f[i - 1] = h[j - 1]
      <4>1. f[j + m] = h[j] /\ f[(j - 1) + m] = h[j - 1]
        BY <1>6, <3>1
      <4> QED
        BY <3>1, <4>1
    <3>8. h[j] = FlatStep(h[j - 1], u[j],
                          (j = 1 /\ EndsWhite(s)) \/ (j > 1 /\ u[j - 1] \in White))
      BY <1>3, <3>1
    <3>9. (i > 1 /\ x[i - 1] \in White)
          = ((j = 1 /\ EndsWhite(s)) \/ (j > 1 /\ u[j - 1] \in White))
      BY <3>6
    <3> QED
      BY <3>2, <3>7, <3>8, <3>9
  <2> QED
    BY <2>1, <2>2
<1>8. f[0] = <<>> /\ f[m + n] = h[n]
  <2>1. 0 \in 0 .. m /\ n \in 0 .. n /\ n + m = m + n
    BY <1>1
  <2>2. f[0] = g[0] /\ f[n + m] = h[n]
    BY <1>5, <1>6, <2>1
  <2> QED
    BY <1>2, <2>1, <2>2
<1>9. FlatTo(x, h[n])
  BY <1>1, <1>7, <1>8 DEF FlatTo
<1> QED
  BY <1>9 DEF x, n

\* Text whose white space is single spaces inside.
Solid(u) ==
    /\ u \in Seq(LispChar) /\ Len(u) > 0 /\ ~EndsWhite(u)
    /\ \A i \in 1 .. Len(u) : u[i] \in White => u[i] = "S" /\ i > 1 /\ u[i - 1] \notin White

LEMMA FlatSolid ==
    ASSUME NEW s \in Seq(LispChar), NEW u, Solid(u), NEW t \in Seq(LispChar), FlatTo(s, t)
    PROVE  FlatTo(s \o u, t \o u)
<1> DEFINE n == Len(u)
           h == [j \in 0 .. n |-> t \o SubSeq(u, 1, j)]
<1>1. /\ u \in Seq(LispChar) /\ n \in Nat /\ n > 0 /\ \A i \in 1 .. n : u[i] \in LispChar
      /\ \A i \in 1 .. n : u[i] \in White => u[i] = "S" /\ i > 1 /\ u[i - 1] \notin White
  BY DEF Solid
<1>2. h[0] = t /\ h[n] = t \o u
  <2>1. SubSeq(u, 1, 0) = <<>> /\ SubSeq(u, 1, n) = u /\ t \o <<>> = t
    BY <1>1
  <2>2. 0 \in 0 .. n /\ n \in 0 .. n
    BY <1>1
  <2> QED
    BY <2>1, <2>2
<1>3. ASSUME NEW j \in 1 .. n PROVE h[j] = Append(h[j - 1], u[j])
  <2>1. j \in 0 .. n /\ j - 1 \in 0 .. n
    BY <1>1
  <2> DEFINE r == SubSeq(u, 1, j - 1)
  <2>2. r \in Seq(LispChar) /\ SubSeq(u, 1, j) = Append(r, u[j])
    BY <1>1, SubSeqGrows
  <2>3. h[j] = t \o SubSeq(u, 1, j) /\ h[j - 1] = t \o r
    BY <2>1
  <2>4. u[j] \in LispChar
    BY <1>1
  <2> HIDE DEF r, h
  <2>5. t \o Append(r, u[j]) = Append(t \o r, u[j])
    BY <2>2, <2>4
  <2> QED
    BY <2>2, <2>3, <2>5
<1> HIDE DEF h, n
<1>4. ASSUME NEW j \in 1 .. n
      PROVE  h[j] = FlatStep(h[j - 1], u[j],
                             (j = 1 /\ EndsWhite(s)) \/ (j > 1 /\ u[j - 1] \in White))
  <2>1. CASE u[j] \notin White
    BY <1>3, <2>1 DEF FlatStep
  <2>2. CASE u[j] \in White
    <3>1. u[j] = "S" /\ j > 1 /\ u[j - 1] \notin White /\ j # 1
      BY <1>1, <2>2
    <3>2. ~((j = 1 /\ EndsWhite(s)) \/ (j > 1 /\ u[j - 1] \in White))
      BY <3>1
    <3> DEFINE after == (j = 1 /\ EndsWhite(s)) \/ (j > 1 /\ u[j - 1] \in White)
    <3>3. ~after
      BY <3>2
    <3> HIDE DEF after
    <3>4. FlatStep(h[j - 1], u[j], after) = Append(h[j - 1], "S")
      BY <2>2, <3>3 DEF FlatStep
    <3> QED
      BY <1>3, <3>1, <3>4 DEF after
  <2> QED
    BY <2>1, <2>2
<1>5. FlatTo(s \o u, h[n])
  BY <1>1, <1>2, <1>4, FlatExtends DEF n
<1> QED
  BY <1>2, <1>5

LEMMA FlatWhite ==
    ASSUME NEW s \in Seq(LispChar), NEW c \in White, NEW t, FlatTo(s, t)
    PROVE  FlatTo(s \o <<c>>, IF EndsWhite(s) THEN t ELSE Append(t, "S"))
<1> DEFINE z == IF EndsWhite(s) THEN t ELSE Append(t, "S")
           h == [j \in 0 .. 1 |-> IF j = 0 THEN t ELSE z]
           u == <<c>>
<1>1. u \in Seq(LispChar) /\ Len(u) = 1 /\ u[1] = c
  BY DEF White, LispChar
<1> HIDE DEF z, u
<1>2. h[0] = t /\ h[1] = z
  OBVIOUS
<1> HIDE DEF h
<1>3. ASSUME NEW j \in 1 .. Len(u)
      PROVE  h[j] = FlatStep(h[j - 1], u[j],
                             (j = 1 /\ EndsWhite(s)) \/ (j > 1 /\ u[j - 1] \in White))
  <2>1. j = 1 /\ j - 1 = 0 /\ ~(j > 1)
    BY <1>1
  <2> DEFINE after == (j = 1 /\ EndsWhite(s)) \/ (j > 1 /\ u[j - 1] \in White)
  <2>2. after <=> EndsWhite(s)
    BY Zenon, <2>1
  <2> HIDE DEF after
  <2>3. FlatStep(t, c, after) = z
    BY <2>2 DEF FlatStep, z
  <2>4. h[j] = z /\ h[j - 1] = t /\ u[j] = c
    BY <1>1, <1>2, <2>1
  <2> QED
    BY <2>3, <2>4 DEF after
<1>4. FlatTo(s \o u, h[Len(u)])
  BY <1>1, <1>2, <1>3, FlatExtends
<1> QED
  BY <1>1, <1>2, <1>4 DEF u, z

\* A word that is no gap stays as it is; a gap is one character of white space.
LEMMA SolidWord ==
    ASSUME NEW w \in Word, w \notin Gap
    PROVE  Solid(w.text) /\ KeptText(w) = w.text
<1>1. w.kind \in {"open", "close", "atom", "string"}
  BY WordShape DEF Gap
<1>2. CASE w.kind # "string"
  <2>1. PICK c \in {"(", ")", "a"} : w.text = <<c>> /\ KeptText(w) = w.text
    BY <1>1, <1>2, WordShape
  <2>2. c \notin White /\ c \in LispChar
    BY DEF White, LispChar
  <2>3. Len(<<c>>) = 1 /\ <<c>>[1] = c /\ <<c>> \in Seq(LispChar) /\ 1 .. 1 = {1}
    BY <2>2
  <2>4. Solid(<<c>>)
    BY <2>2, <2>3 DEF Solid, EndsWhite
  <2> QED
    BY <2>1, <2>4
<1>3. CASE w.kind = "string"
  <2> DEFINE t == w.text
             n == Len(t)
  <2>1. KeptText(w) = t /\ t \in Seq(LispChar) /\ StringText(t)
    BY <1>3, WordShape
  <2> HIDE DEF t
  <2>2. n \in Nat
    BY <2>1
  <2>3. /\ n > 1 /\ t[1] = "Q"
        /\ \A i \in 2 .. n : t[i] # "N" /\ (t[i] = "S" => t[i - 1] # "S")
        /\ \E escaping \in [1 .. n -> BOOLEAN] :
             \A i \in 2 .. n : t[i] = "Q" /\ ~escaping[i - 1] <=> i = n
    BY <2>1 DEF StringText
  <2> HIDE DEF n
  <2>4. t[n] = "Q"
    <3>1. n \in 2 .. n
      BY <2>2, <2>3
    <3> QED
      BY <2>3, <3>1
  <2>5. ASSUME NEW i \in 1 .. n, t[i] \in White
        PROVE  t[i] = "S" /\ i > 1 /\ t[i - 1] \notin White
    <3>1. t[i] \in {"S", "N"}
      BY <2>5 DEF White
    <3>2. i # 1
      BY <2>3, <3>1
    <3>3. i \in 2 .. n /\ i > 1
      BY <2>2, <3>2
    <3>4. t[i] = "S" /\ t[i - 1] # "S"
      BY <2>3, <3>1, <3>3
    <3>5. t[i - 1] # "N"
      <4>1. CASE i = 2
        <5>1. i - 1 = 1
          BY <4>1
        <5> QED
          BY <2>3, <5>1
      <4>2. CASE i # 2
        <5>1. i - 1 \in 2 .. n
          BY <2>2, <3>3, <4>2
        <5> QED
          BY <2>3, <5>1
      <4> QED
        BY <4>1, <4>2
    <3> QED
      BY <3>3, <3>4, <3>5 DEF White
  <2>6. "Q" \notin White
    BY DEF White
  <2>7. Solid(t)
    BY <2>1, <2>3, <2>4, <2>5, <2>6 DEF Solid, EndsWhite, n
  <2> QED
    BY <2>1, <2>7 DEF t
<1> QED
  BY <1>2, <1>3

LEMMA GapWord ==
    ASSUME NEW w \in Gap
    PROVE  \E c \in White : KeptText(w) = <<c>>
<1>1. w \in Word /\ w.kind \in {"white", "comment"}
  BY DEF Gap
<1>2. CASE w.kind = "white"
  BY <1>1, <1>2, WordShape
<1>3. CASE w.kind = "comment"
  <2>1. "N" \in White
    BY DEF White
  <2> QED
    BY <1>1, <1>3, <2>1, WordShape
<1> QED
  BY <1>1, <1>2, <1>3

LEMMA EndOfConcat ==
    ASSUME NEW S, NEW s \in Seq(S), NEW u \in Seq(S), Len(u) > 0
    PROVE  EndsWhite(s \o u) <=> EndsWhite(u)
<1> DEFINE m == Len(s)
           n == Len(u)
           x == s \o u
<1>1. /\ m \in Nat /\ n \in Nat /\ n > 0 /\ Len(x) = m + n
      /\ \A i \in 1 .. m + n : x[i] = IF i <= m THEN s[i] ELSE u[i - m]
  BY ConcatProperties
<1> HIDE DEF m, n, x
<1>2. m + n \in 1 .. m + n /\ ~(m + n <= m) /\ (m + n) - m = n /\ m + n > 0
  BY <1>1
<1>3. x[m + n] = u[n]
  BY <1>1, <1>2
<1>4. EndsWhite(x) <=> EndsWhite(u)
  BY <1>1, <1>2, <1>3 DEF EndsWhite, n
<1> QED
  BY <1>4 DEF x

NoNewLine(x) == \A i \in 1 .. Len(x) : x[i] # "N"

LEMMA NoNewLineConcat ==
    ASSUME NEW S, NEW s \in Seq(S), NEW u \in Seq(S), NoNewLine(s), NoNewLine(u)
    PROVE  NoNewLine(s \o u)
<1> DEFINE m == Len(s)
           n == Len(u)
           x == s \o u
<1>1. /\ m \in Nat /\ n \in Nat /\ Len(x) = m + n
      /\ \A i \in 1 .. m + n : x[i] = IF i <= m THEN s[i] ELSE u[i - m]
  BY ConcatProperties
<1>2. (\A i \in 1 .. m : s[i] # "N") /\ (\A i \in 1 .. n : u[i] # "N")
  BY DEF NoNewLine
<1> HIDE DEF m, n, x
<1>3. ASSUME NEW i \in 1 .. m + n PROVE x[i] # "N"
  <2>1. CASE i <= m
    <3>1. i \in 1 .. m
      BY <1>1, <2>1
    <3> QED
      BY <1>1, <1>2, <2>1, <3>1
  <2>2. CASE ~(i <= m)
    <3>1. i - m \in 1 .. n
      BY <1>1, <2>2
    <3> QED
      BY <1>1, <1>2, <2>2, <3>1
  <2> QED
    BY <2>1, <2>2
<1>4. NoNewLine(x)
  BY <1>1, <1>3 DEF NoNewLine
<1> QED
  BY <1>4 DEF x

\* What forms returns for a form is the form on one line.
LEMMA FlattenReads ==
    ASSUME NEW form \in LispForm
    PROVE  Flatten(Raw(form)) = OneLine(form) /\ NoNewLine(OneLine(form))
<1> DEFINE m == Len(form)
           r == KeptOfWords(form)
           Read(j) == IF form[j] \notin Gap THEN form[j].text
                      ELSE IF j > 1 /\ form[j - 1] \in Gap THEN <<>> ELSE <<"S">>
           q == [j \in DOMAIN form |-> Read(j)]
<1>1. form \in Seq(Word) /\ m \in Nat /\ DOMAIN form = 1 .. m
  BY FormDepths
<1>2. /\ r \in Seq(Seq(LispChar)) /\ Len(r) = m
      /\ \A j \in 1 .. m : form[j] \in Word /\ r[j] = KeptText(form[j])
      /\ Raw(form) = FlattenSeq(r)
  BY <1>1, TextsOfWords
<1>3. OneLine(form) = FlattenSeq(q)
  BY DEF OneLine
<1>4. <<>> \in Seq(LispChar) /\ <<"S">> \in Seq(LispChar)
  BY DEF LispChar
<1>5. ASSUME NEW j \in 1 .. m PROVE Read(j) \in Seq(LispChar)
  <2>1. form[j] \in Word
    BY <1>2
  <2>2. form[j].text \in Seq(LispChar)
    BY <2>1, WordShape
  <2> QED
    BY <1>4, <2>2
<1>6. q \in [1 .. m -> Seq(LispChar)] /\ \A j \in 1 .. m : q[j] = Read(j)
  BY <1>1, <1>5
<1> HIDE DEF m, r, q
<1>7. q \in Seq(Seq(LispChar)) /\ Len(q) = m
  BY <1>1, <1>6, FunctionIsSeq
<1>8. PICK g \in [0 .. m -> Seq(LispChar)] : Joins(r, g) /\ FlattenSeq(r) = g[m]
  BY <1>2, JoinsUp
<1>9. PICK h \in [0 .. m -> Seq(LispChar)] : Joins(q, h) /\ FlattenSeq(q) = h[m]
  BY <1>7, JoinsUp
<1>10. g[0] = <<>> /\ \A i \in 1 .. m : g[i] = g[i - 1] \o r[i]
  BY <1>2, <1>8 DEF Joins
<1>11. h[0] = <<>> /\ \A i \in 1 .. m : h[i] = h[i - 1] \o q[i]
  BY <1>7, <1>9 DEF Joins
<1> DEFINE K == {k \in Nat : k <= m =>
                   /\ FlatTo(g[k], h[k]) /\ NoNewLine(h[k])
                   /\ EndsWhite(g[k]) <=> k > 0 /\ form[k] \in Gap}
<1>12. 0 \in K
  <2>1. FlatTo(<<>>, <<>>)
    <3> DEFINE e == [i \in 0 .. 0 |-> <<>>]
    <3>1. e[0] = <<>> /\ Len(<<>>) = 0 /\ 1 .. 0 = {}
      OBVIOUS
    <3> HIDE DEF e
    <3>2. /\ e[0] = <<>> /\ e[Len(<<>>)] = <<>>
          /\ \A i \in 1 .. Len(<<>>) :
               e[i] = FlatStep(e[i - 1], <<>>[i], i > 1 /\ <<>>[i - 1] \in White)
      BY <3>1
    <3> QED
      BY <3>2 DEF FlatTo
  <2>2. NoNewLine(<<>>) /\ ~EndsWhite(<<>>)
    BY DEF NoNewLine, EndsWhite
  <2> QED
    BY <1>10, <1>11, <2>1, <2>2
<1>13. ASSUME NEW k \in Nat, k \in K PROVE k + 1 \in K
  <2>1. CASE k + 1 <= m
    <3> DEFINE w == form[k + 1]
    <3>1. k + 1 \in 1 .. m /\ (k + 1) - 1 = k /\ k \in 0 .. m /\ k + 1 > 0
      BY <1>1, <2>1
    <3>2. /\ FlatTo(g[k], h[k]) /\ NoNewLine(h[k])
          /\ EndsWhite(g[k]) <=> k > 0 /\ form[k] \in Gap
      BY <1>13, <3>1
    <3>3. g[k] \in Seq(LispChar) /\ h[k] \in Seq(LispChar)
      BY <1>8, <1>9, <3>1
    <3>4. w \in Word /\ g[k + 1] = g[k] \o KeptText(w)
      BY <1>2, <1>10, <3>1
    <3>5. h[k + 1] = h[k] \o (IF w \notin Gap THEN w.text
                              ELSE IF k + 1 > 1 /\ form[k] \in Gap THEN <<>> ELSE <<"S">>)
      BY <1>6, <1>11, <3>1
    <3> HIDE DEF w, K, Read
    <3>6. CASE w \notin Gap
      <4>1. Solid(w.text) /\ KeptText(w) = w.text
        BY <3>4, <3>6, SolidWord
      <4>2. FlatTo(g[k + 1], h[k + 1])
        <5>1. FlatTo(g[k] \o w.text, h[k] \o w.text)
          BY <3>2, <3>3, <4>1, FlatSolid
        <5> QED
          BY <3>4, <3>5, <3>6, <4>1, <5>1
      <4>3. /\ w.text \in Seq(LispChar) /\ Len(w.text) > 0 /\ ~EndsWhite(w.text)
            /\ NoNewLine(w.text)
        <5>1. "N" \in White
          BY DEF White
        <5> QED
          BY <4>1, <5>1 DEF Solid, NoNewLine
      <4>4. ~EndsWhite(g[k + 1])
        BY <3>3, <3>4, <4>1, <4>3, EndOfConcat
      <4>5. NoNewLine(h[k + 1])
        BY <3>2, <3>3, <3>5, <3>6, <4>3, NoNewLineConcat
      <4> QED
        BY <3>6, <4>2, <4>4, <4>5 DEF K, w
    <3>7. CASE w \in Gap
      <4>1. PICK c \in White : KeptText(w) = <<c>>
        BY <3>7, GapWord
      <4>2. FlatTo(g[k] \o <<c>>, IF EndsWhite(g[k]) THEN h[k] ELSE Append(h[k], "S"))
        BY <3>2, <3>3, FlatWhite
      <4>3. k + 1 > 1 /\ form[k] \in Gap <=> EndsWhite(g[k])
        BY <3>2
      <4>4. h[k + 1] = IF EndsWhite(g[k]) THEN h[k] ELSE Append(h[k], "S")
        <5>1. h[k] \o <<>> = h[k] /\ h[k] \o <<"S">> = Append(h[k], "S")
          BY <3>3
        <5> QED
          BY <3>5, <3>7, <4>3, <5>1
      <4>5. FlatTo(g[k + 1], h[k + 1])
        BY <3>4, <4>1, <4>2, <4>4
      <4>6. EndsWhite(g[k + 1])
        <5>1. <<c>> \in Seq(LispChar) /\ Len(<<c>>) = 1 /\ <<c>>[1] = c
          BY DEF White, LispChar
        <5>2. EndsWhite(<<c>>)
          BY <5>1 DEF EndsWhite
        <5>3. EndsWhite(g[k] \o <<c>>)
          <6> DEFINE u == <<c>>
          <6>1. u \in Seq(LispChar) /\ Len(u) > 0 /\ EndsWhite(u)
            BY <5>1, <5>2
          <6> HIDE DEF u
          <6>2. EndsWhite(g[k] \o u)
            BY <3>3, <6>1, EndOfConcat
          <6> QED
            BY <6>2 DEF u
        <5>4. g[k + 1] = g[k] \o <<c>>
          BY <3>4, <4>1
        <5> QED
          BY Zenon, <5>3, <5>4
      <4>7. NoNewLine(h[k + 1])
        <5>1. CASE EndsWhite(g[k])
          <6>1. h[k + 1] = h[k]
            BY <4>4, <5>1
          <6> QED
            BY Zenon, <3>2, <6>1
        <5>2. CASE ~EndsWhite(g[k])
          <6>1. h[k + 1] = h[k] \o <<"S">>
            BY <3>3, <4>4, <5>2
          <6>2. NoNewLine(<<"S">>)
            BY DEF NoNewLine
          <6> QED
            BY <1>4, <3>2, <3>3, <6>1, <6>2, NoNewLineConcat
        <5> QED
          BY <5>1, <5>2
      <4> QED
        BY <3>1, <3>7, <4>5, <4>6, <4>7 DEF K, w
    <3> QED
      BY <3>6, <3>7
  <2>2. CASE ~(k + 1 <= m)
    BY <2>2
  <2> QED
    BY <2>1, <2>2
<1>14. Nat \subseteq K
  <2> HIDE DEF K
  <2> QED
    BY <1>12, <1>13, SetInduction
<1>15. FlatTo(g[m], h[m]) /\ NoNewLine(h[m])
  BY <1>1, <1>14
<1>16. g[m] \in Seq(LispChar)
  <2>1. m \in 0 .. m
    BY <1>1
  <2> QED
    BY <1>8, <2>1
<1>17. Flatten(g[m]) = h[m]
  BY <1>15, <1>16, FlattenIs
<1> QED
  BY <1>2, <1>3, <1>8, <1>9, <1>15, <1>17

-----------------------------------------------------------------------------
(* What is left of the file brings forms to the forms of the file.          *)

PushReads ==
    /\ puPc \in {"idle", "nudge", "scan", "send", "wait", "done"}
    /\ puSource \in Seq(Piece)
    /\ puPc = "idle" => puScan = Scan0
    /\ puPc \in {"nudge", "scan"} =>
         /\ puText \in Seq(LispChar)
         /\ Runs(puScan, puText, At(Raws(puSource), <<>>, 0))
    /\ puPc \in {"idle", "nudge", "scan"} => puForms = <<>>
    /\ FormsAsWritten

LEMMA FormsRead ==
    ASSUME NEW file \in Seq(Piece)
    PROVE  OneLineEach(Raws(file)) = [i \in DOMAIN file |-> OneLine(file[i].form)]
<1>1. \A i \in DOMAIN file : file[i] \in Piece
  OBVIOUS
<1>2. \A i \in DOMAIN file : Flatten(Raw(file[i].form)) = OneLine(file[i].form)
  BY <1>1, FlattenReads DEF Piece
<1>3. DOMAIN Raws(file) = DOMAIN file
      /\ \A i \in DOMAIN file : Raws(file)[i] = Raw(file[i].form)
  BY DEF Raws
<1>4. OneLineEach(Raws(file)) = [i \in DOMAIN file |-> Flatten(Raws(file)[i])]
  BY <1>3 DEF OneLineEach
<1> QED
  BY <1>2, <1>3, <1>4

LEMMA FormsKeeps ==
    ASSUME PushReads, forms
    PROVE  PushReads'
<1> DEFINE z == At(Raws(puSource), <<>>, 0)
<1>1. /\ puPc = "scan" /\ puSource \in Seq(Piece) /\ UNCHANGED puSource
      /\ puText \in Seq(LispChar) /\ Runs(puScan, puText, z) /\ puForms = <<>>
  BY DEF forms, PushReads
<1> HIDE DEF z
<1>2. CASE puText = <<>>
  <2>1. puPc' = "send" /\ puForms' = OneLineEach(puScan.out)
    BY <1>2 DEF forms
  <2>2. puScan = z
    BY <1>1, <1>2, RunsEnd
  <2>3. puScan.out = Raws(puSource)
    BY <2>2 DEF z, At
  <2>4. puForms' = [i \in DOMAIN puSource' |-> OneLine(puSource'[i].form)]
    BY <1>1, <2>1, <2>3, FormsRead
  <2> QED
    BY <1>1, <2>1, <2>4 DEF PushReads, FormsAsWritten
<1>3. CASE puText # <<>>
  <2>1. /\ puPc' = "scan" /\ puForms' = <<>> /\ puText' = Tail(puText)
        /\ puScan' = Scan(puScan, Head(puText))
    BY <1>1, <1>3 DEF forms
  <2>2. Runs(puScan', puText', z)
    BY <1>1, <1>3, <2>1, RunsHead
  <2>3. puText' \in Seq(LispChar)
    BY <1>1, <1>3, <2>1
  <2>4. Runs(puScan, puText, At(Raws(puSource), <<>>, 0))' <=> Runs(puScan', puText', z)
    BY <1>1 DEF z
  <2> QED
    BY <1>1, <2>1, <2>2, <2>3, <2>4 DEF PushReads, FormsAsWritten
<1> QED
  BY <1>2, <1>3

LEMMA PushOpenReads ==
    ASSUME PushReads, PushOpen
    PROVE  PushReads'
<1>1. /\ puPc = "idle" /\ puPc' = "nudge" /\ puSource' \in PushSources
      /\ puText' = FileText(puSource') /\ puScan' = Scan0 /\ puForms' = <<>>
  BY DEF PushOpen, PushReads
<1>2. puSource' \in Seq(Piece)
  BY <1>1, PushAssumption
<1>3. puText' \in Seq(LispChar) /\ Runs(puScan', puText', At(Raws(puSource'), <<>>, 0))
  BY <1>1, <1>2, FileRuns
<1> QED
  BY <1>1, <1>2, <1>3 DEF PushReads, FormsAsWritten

LEMMA PushReadsHold == PushSpec => []PushReads
<1>1. PushInit => PushReads
  BY DEF PushInit, PushReads, FormsAsWritten
<1>2. PushReads /\ [PushNext]_puVars => PushReads'
  <2> SUFFICES ASSUME PushReads, [PushNext]_puVars PROVE PushReads'
    OBVIOUS
  <2>1. CASE PushNudged
    <3>1. puPc = "nudge" /\ puPc' = "scan" /\ UNCHANGED <<puSource, puText, puScan, puForms>>
      BY <2>1 DEF PushNudged
    <3>2. UNCHANGED At(Raws(puSource), <<>>, 0)
      BY <3>1
    <3> QED
      BY <3>1, <3>2 DEF PushReads, FormsAsWritten
  <2>2. CASE PushSend \/ PushRead \/ PushTimeout
    <3>1. /\ puPc \in {"send", "wait"} /\ puPc' \in {"send", "wait", "done"}
          /\ UNCHANGED <<puSource, puForms>>
      BY <2>2 DEF PushSend, PushRead, PushTimeout
    <3> QED
      BY <3>1 DEF PushReads, FormsAsWritten
  <2>3. CASE ReplEchoes \/ ReplPrints \/ ReplPrompts \/ UNCHANGED puVars
    <3>1. UNCHANGED <<puPc, puSource, puText, puScan, puForms>>
      BY <2>3 DEF ReplEchoes, ReplPrints, ReplPrompts, puVars
    <3>2. UNCHANGED At(Raws(puSource), <<>>, 0)
      BY <3>1
    <3> QED
      BY <3>1, <3>2 DEF PushReads, FormsAsWritten
  <2> QED
    BY <2>1, <2>2, <2>3, FormsKeeps, PushOpenReads DEF PushNext, PushScript
<1> QED
  BY <1>1, <1>2, PTL DEF PushSpec

\* push-serial.py, for any file: the forms it types are those of the file, each
\* as Lisp reads it and on one line.
THEOREM FormsAreRead == PushSpec => []FormsAsWritten
<1>1. PushReads => FormsAsWritten
  BY DEF PushReads
<1> QED
  BY <1>1, PushReadsHold, PTL

\* Each form sent is waited for, evaluated or still on its way, once.
Pending == Len(rlTodo) - One(rlTodo # <<>> /\ rlTodo[1] # "form")

PushCounts ==
    /\ puAt \in 0 .. Len(puForms)
    /\ puOk \in 0 .. puAt
    /\ puPc = "wait" => puOk < puAt
    /\ puPc \in {"idle", "nudge", "scan"} => puAt = 0
    /\ rlDone \in Nat /\ rlDone + Pending <= puAt
    /\ rlStray \in 0 .. Strays

LEMMA ReadForms ==
    ASSUME NEW file \in Seq(Piece), NEW read,
           read = [i \in DOMAIN file |-> OneLine(file[i].form)]
    PROVE  Len(read) \in Nat /\ \A i \in DOMAIN read : NoNewLine(read[i])
<1> DEFINE n == Len(file)
           S == {OneLine(p.form) : p \in Piece}
<1>1. n \in Nat /\ DOMAIN file = 1 .. n /\ \A i \in 1 .. n : file[i] \in Piece
  OBVIOUS
<1>2. read = [i \in 1 .. n |-> OneLine(file[i].form)]
  BY <1>1
<1> HIDE DEF n
<1>3. read \in [1 .. n -> S]
  BY <1>1, <1>2
<1>4. Len(read) = n
  <2> HIDE DEF S
  <2> QED
    BY <1>1, <1>3, FunctionIsSeq
<1>5. \A i \in 1 .. n : NoNewLine(read[i])
  BY <1>1, <1>2, FlattenReads DEF Piece
<1> QED
  BY <1>1, <1>3, <1>4, <1>5

LEMMA FormsLength ==
    ASSUME PushReads
    PROVE  Len(puForms) \in Nat /\ \A i \in DOMAIN puForms : NoNewLine(puForms[i])
<1>1. CASE puPc \in {"idle", "nudge", "scan"}
  BY <1>1 DEF PushReads
<1>2. CASE puPc \in {"send", "wait", "done"}
  BY <1>2, ReadForms DEF PushReads, FormsAsWritten
<1> QED
  BY <1>1, <1>2 DEF PushReads

LEMMA FormsLengthNext ==
    ASSUME PushReads'
    PROVE  Len(puForms') \in Nat
<1>1. CASE puPc' \in {"idle", "nudge", "scan"}
  BY <1>1 DEF PushReads
<1>2. CASE puPc' \in {"send", "wait", "done"}
  <2>1. puSource' \in Seq(Piece)
        /\ puForms' = [i \in DOMAIN puSource' |-> OneLine(puSource'[i].form)]
    BY <1>2 DEF PushReads, FormsAsWritten
  <2> QED
    BY <2>1, ReadForms
<1> QED
  BY <1>1, <1>2 DEF PushReads

LEMMA PendingIs ==
    ASSUME PushShape
    PROVE  /\ Len(rlTodo) \in Nat /\ Pending \in Nat
           /\ rlTodo = <<>> => Pending = 0
           /\ rlTodo # <<>> /\ rlTodo[1] = "form" => Pending = Len(rlTodo)
           /\ rlTodo # <<>> /\ rlTodo[1] # "form" => Pending = Len(rlTodo) - 1
<1>1. rlTodo \in Seq({"earlier", "form", "printed"})
  BY DEF PushShape
<1>2. Len(rlTodo) \in Nat /\ (rlTodo = <<>> <=> Len(rlTodo) = 0)
  BY <1>1
<1> QED
  BY <1>2 DEF Pending, One

LEMMA PushTyped == PushSpec => []PushTypeOK
<1>1. PushInit => PushCounts
  BY PushAssumption DEF PushAssumption, PushInit, PushCounts, Pending, One
<1>2. PushInv /\ PushReads /\ PushReads' /\ PushInv' /\ PushCounts /\ [PushNext]_puVars => PushCounts'
  <2> SUFFICES ASSUME PushInv, PushInv', PushReads, PushReads', PushCounts, [PushNext]_puVars
               PROVE  PushCounts'
    OBVIOUS
  <2>0. PushShape /\ PushShape' /\ Len(puForms) \in Nat /\ Len(puForms') \in Nat
    BY FormsLength, FormsLengthNext DEF PushInv
  <2>1. CASE PushOpen
    <3>1. /\ puPc = "idle" /\ puPc' = "nudge" /\ UNCHANGED <<puForms, puAt, puOk, rlDone, rlStray>>
          /\ rlTodo' \in {<<>>, <<"earlier">>}
      BY <2>1 DEF PushOpen
    <3>2. Pending' = 0
      BY <3>1 DEF Pending, One
    <3>3. puAt = 0 /\ puOk = 0 /\ rlDone = 0
      BY <2>0, <3>1, PendingIs DEF PushCounts
    <3> QED
      BY <3>1, <3>2, <3>3 DEF PushCounts
  <2>2. CASE PushNudged
    <3>1. /\ puPc = "nudge" /\ puPc' = "scan" /\ UNCHANGED <<puForms, puAt, puOk, rlDone, rlStray, rlTodo>>
      BY <2>2 DEF PushNudged
    <3> QED
      BY <3>1 DEF PushCounts, Pending
  <2>3. CASE forms
    <3>1. /\ puPc = "scan" /\ puPc' \in {"scan", "send"} /\ UNCHANGED <<puAt, puOk, rlDone, rlStray, rlTodo>>
      BY <2>3 DEF forms
    <3>2. puAt = 0 /\ Pending' = Pending
      BY <3>1 DEF PushCounts, Pending
    <3> QED
      BY <2>0, <3>1, <3>2 DEF PushCounts
  <2>4. CASE PushSend
    <3>1. CASE puAt < Len(puForms)
      <4>1. /\ puPc = "send" /\ puPc' = "wait" /\ puAt' = puAt + 1
            /\ rlTodo' = Append(rlTodo, "form") /\ UNCHANGED <<puForms, puOk, rlDone, rlStray>>
        BY <2>4, <3>1 DEF PushSend
      <4>2. Pending' = Pending + 1
        <5>1. rlTodo \in Seq({"earlier", "form", "printed"})
          BY <2>0 DEF PushShape
        <5>2. Len(rlTodo') = Len(rlTodo) + 1 /\ rlTodo' # <<>> /\ Len(rlTodo) \in Nat
          BY <4>1, <5>1
        <5>3. rlTodo'[1] = IF rlTodo = <<>> THEN "form" ELSE rlTodo[1]
          BY <4>1, <5>1
        <5> QED
          BY <5>1, <5>2, <5>3 DEF Pending, One
      <4>3. Pending \in Nat
        BY <2>0, PendingIs
      <4> QED
        BY <2>0, <3>1, <4>1, <4>2, <4>3 DEF PushCounts
    <3>2. CASE ~(puAt < Len(puForms))
      <4>1. puPc = "send" /\ puPc' = "done" /\ UNCHANGED <<puForms, puAt, puOk, rlDone, rlStray, rlTodo>>
        BY <2>4, <3>2 DEF PushSend
      <4> QED
        BY <4>1 DEF PushCounts, Pending
    <3> QED
      BY <3>1, <3>2
  <2>5. CASE PushRead \/ PushTimeout
    <3>1. /\ puPc = "wait" /\ puPc' \in {"wait", "send"} /\ UNCHANGED <<puForms, puAt, rlDone, rlStray, rlTodo>>
          /\ puOk' = puOk \/ (puOk' = puOk + 1 /\ puPc' = "send")
      BY <2>5 DEF PushRead, PushTimeout
    <3>2. Pending' = Pending
      BY <3>1 DEF Pending
    <3> QED
      BY <2>0, <3>1, <3>2 DEF PushCounts
  <2>6. CASE ReplPrints
    <3>1. /\ rlTodo # <<>> /\ rlTodo[1] = "form" /\ rlTodo' = <<"printed">> \o Tail(rlTodo)
          /\ rlDone' = rlDone + 1 /\ UNCHANGED <<puPc, puForms, puAt, puOk>>
          /\ rlStray' = rlStray \/ (rlStray < Strays /\ rlStray' = rlStray + 1)
      BY <2>0, <2>6 DEF ReplPrints, PushShape
    <3>2. Pending = Len(rlTodo) /\ Pending' = Pending - 1
      <4>1. rlTodo \in Seq({"earlier", "form", "printed"})
        BY <2>0 DEF PushShape
      <4>2. Len(rlTodo') = Len(rlTodo) /\ rlTodo' # <<>> /\ rlTodo'[1] = "printed"
        BY <3>1, <4>1
      <4>3. Len(rlTodo) \in Nat
        BY <4>1
      <4> QED
        BY <3>1, <4>2, <4>3 DEF Pending, One
    <3>3. Pending \in Nat
      BY <2>0, PendingIs
    <3> QED
      BY PushAssumption, <3>1, <3>2, <3>3 DEF PushAssumption, PushCounts
  <2>7. CASE ReplPrompts
    <3>1. /\ rlTodo # <<>> /\ rlTodo[1] # "form" /\ rlTodo' = Tail(rlTodo)
          /\ UNCHANGED <<puPc, puForms, puAt, puOk, rlDone, rlStray>>
      BY <2>0, <2>7 DEF ReplPrompts, PushShape
    <3>2. Pending' = Pending
      <4>1. rlTodo \in Seq({"earlier", "form", "printed"})
            /\ \A i \in DOMAIN rlTodo : i > 1 => rlTodo[i] = "form"
        BY <2>0 DEF PushShape
      <4>2. Len(rlTodo') = Len(rlTodo) - 1 /\ Len(rlTodo) \in Nat
        BY <3>1, <4>1
      <4>3. rlTodo' # <<>> => rlTodo'[1] = "form"
        <5>1. rlTodo' # <<>> => 2 \in DOMAIN rlTodo /\ rlTodo'[1] = rlTodo[2]
          BY <3>1, <4>1
        <5> QED
          BY <4>1, <5>1
      <4>4. Pending = Len(rlTodo) - 1
        BY <3>1 DEF Pending, One
      <4>5. Pending' = Len(rlTodo') - 0
        BY <4>3 DEF Pending, One
      <4> QED
        BY <4>2, <4>4, <4>5
    <3> QED
      BY <3>1, <3>2 DEF PushCounts
  <2>8. CASE ReplEchoes
    <3>1. /\ rlStray < Strays /\ rlStray' = rlStray + 1
          /\ UNCHANGED <<puPc, puForms, puAt, puOk, rlDone, rlTodo>>
      BY <2>8 DEF ReplEchoes
    <3>2. Pending' = Pending
      BY <3>1 DEF Pending
    <3> QED
      BY PushAssumption, <3>1, <3>2 DEF PushAssumption, PushCounts
  <2>9. CASE UNCHANGED puVars
    BY <2>9 DEF PushCounts, Pending, puVars
  <2> QED
    BY <2>1, <2>2, <2>3, <2>4, <2>5, <2>6, <2>7, <2>8, <2>9 DEF PushNext, PushScript
<1>3. PushInv /\ PushReads /\ PushCounts => PushTypeOK
  <2> SUFFICES ASSUME PushInv, PushReads, PushCounts PROVE PushTypeOK
    OBVIOUS
  <2>1. \A i \in DOMAIN puForms : ~Contains(puForms[i], "N")
    BY FormsLength DEF NoNewLine, Contains
  <2>2. Pending \in Nat
    BY PendingIs DEF PushInv
  <2>3. rlDone \in 0 .. puAt
    BY <2>2 DEF PushCounts
  <2> QED
    BY <2>1, <2>3 DEF PushTypeOK, PushCounts, PushReads
<1> QED
  BY <1>1, <1>2, <1>3, PushHolds, PushReadsHold, PTL DEF PushSpec

-----------------------------------------------------------------------------
(* self-host-gen1.py.  A digit anywhere between the guest and the script's  *)
(* buffer was printed by a build that had ended.                            *)

Printed == {Prompt, SizeMark, Digit, "newline"}

BuildInv ==
    /\ gsTodo \in Seq(Printed) /\ gsPipe \in Seq(Printed) /\ shBuf \in Seq(Printed)
    /\ shPc \in {"idle", "repl", "ask"} => gsBuild = "no"
    /\ Digit \in Members(gsTodo) \cup Members(gsPipe) \cup Members(shBuf) => gsBuild = "built"
    /\ shPc \in {"connect", "save", "reply"} \/ quAsked \/ quFile \in {"part", "whole"}
         => gsBuild = "built" /\ shSize \in Nat /\ shSize > 0
    /\ shExit = 0 => shPc = "done"
    /\ SuccessMeansBuilt

LEMMA MembersConcat ==
    ASSUME NEW S, NEW a \in Seq(S), NEW b \in Seq(S)
    PROVE  a \o b \in Seq(S) /\ Members(a \o b) \subseteq Members(a) \cup Members(b)
<1>1. /\ a \o b \in Seq(S) /\ Len(a \o b) = Len(a) + Len(b)
      /\ \A i \in 1 .. Len(a) + Len(b) : (a \o b)[i] = IF i <= Len(a) THEN a[i] ELSE b[i - Len(a)]
  BY ConcatProperties
<1>2. /\ Len(a) \in Nat /\ Len(b) \in Nat /\ DOMAIN a = 1 .. Len(a) /\ DOMAIN b = 1 .. Len(b)
      /\ DOMAIN (a \o b) = 1 .. Len(a) + Len(b)
  BY <1>1
<1>3. ASSUME NEW i \in DOMAIN (a \o b) PROVE (a \o b)[i] \in Members(a) \cup Members(b)
  <2>1. CASE i <= Len(a)
    BY <1>1, <1>2, <2>1 DEF Members
  <2>2. CASE ~(i <= Len(a))
    <3>1. i - Len(a) \in DOMAIN b /\ (a \o b)[i] = b[i - Len(a)]
      BY <1>1, <1>2, <2>2
    <3> QED
      BY <3>1 DEF Members
  <2> QED
    BY <2>1, <2>2
<1> QED
  BY <1>1, <1>3 DEF Members

\* What is parsed as a size.
LEMMA DigitsFound ==
    ASSUME NEW buf \in Seq(Printed)
    PROVE  Digits(buf) \in Nat /\ (Digits(buf) # 0 => Digit \in Members(buf))
<1> DEFINE D == {i \in DOMAIN buf : buf[i] = Digit}
<1>1. Len(buf) \in Nat /\ DOMAIN buf = 1 .. Len(buf)
  OBVIOUS
<1>2. IsFiniteSet(1 .. Len(buf))
  BY <1>1, FS_Interval
<1>3. IsFiniteSet(D)
  BY <1>1, <1>2, FS_Subset
<1>4. Cardinality(D) \in Nat
  BY <1>3, FS_CardinalityType
<1>5. Cardinality(D) # 0 => D # {}
  BY FS_EmptySet
<1> QED
  BY <1>4, <1>5 DEF Digits, Members

LEMMA ReadDoneKeeps ==
    ASSUME BuildInv, NEW buf \in Seq(Printed), Digit \in Members(buf) => gsBuild = "built",
           Reading, ReadDone(buf), UNCHANGED <<gsTodo, gsBuild, quAsked, quFile>>, gsPipe' \in {gsPipe, <<>>}
    PROVE  BuildInv'
<1>1. shBuf' = <<>> /\ Members(shBuf') = {} /\ shBuf' \in Seq(Printed)
  BY MembersEmpty DEF ReadDone
<1>2. gsPipe' \in Seq(Printed) /\ Members(gsPipe') \subseteq Members(gsPipe)
  <2>1. CASE gsPipe' = gsPipe
    BY <2>1 DEF BuildInv
  <2>2. CASE gsPipe' = <<>>
    <3>1. Members(gsPipe') = {}
      BY <2>2, MembersEmpty
    <3> QED
      BY <2>2, <3>1
  <2> QED
    BY <2>1, <2>2
<1>3. shExit # 0
  BY DEF BuildInv, Reading
<1>4. CASE shPc = "repl"
  <2>1. shPc' = "ask" /\ UNCHANGED <<shSize, shExit, quLive>>
    BY <1>4 DEF ReadDone
  <2> QED
    BY <1>1, <1>2, <1>3, <1>4, <2>1 DEF BuildInv, SuccessMeansBuilt
<1>5. CASE shPc # "repl" /\ Digits(buf) = 0
  <2>1. shPc' = "done" /\ shExit' = 1 /\ UNCHANGED shSize
    BY <1>5 DEF ReadDone, Fail
  <2> QED
    BY <1>1, <1>2, <2>1 DEF BuildInv, SuccessMeansBuilt
<1>6. CASE shPc # "repl" /\ Digits(buf) # 0
  <2>1. shPc' = "connect" /\ shSize' = Digits(buf) /\ UNCHANGED shExit
    BY <1>6 DEF ReadDone
  <2>2. shSize' \in Nat /\ shSize' > 0 /\ gsBuild = "built"
    BY <1>6, <2>1, DigitsFound
  <2> QED
    BY <1>1, <1>2, <1>3, <2>1, <2>2 DEF BuildInv, SuccessMeansBuilt
<1> QED
  BY <1>4, <1>5, <1>6

LEMMA BuildReads ==
    ASSUME BuildInv, read_until \/ DrainQuiet \/ ReadFails
    PROVE  BuildInv'
<1>1. CASE read_until
  <2> DEFINE buf == shBuf \o gsPipe
  <2>1. buf \in Seq(Printed) /\ Members(buf) \subseteq Members(shBuf) \cup Members(gsPipe)
    BY MembersConcat DEF BuildInv
  <2>2. /\ Reading /\ gsPipe' = <<>> /\ UNCHANGED <<gsTodo, gsBuild, quAsked, quFile>>
        /\ ReadDone(buf) \/ (shBuf' = buf /\ UNCHANGED <<shPc, shSize, shExit>>)
    BY <1>1 DEF read_until, image
  <2> HIDE DEF buf
  <2>3. Digit \in Members(buf) => gsBuild = "built"
    BY <2>1 DEF BuildInv
  <2>4. CASE ReadDone(buf)
    BY <2>1, <2>2, <2>3, <2>4, ReadDoneKeeps
  <2>5. CASE shBuf' = buf /\ UNCHANGED <<shPc, shSize, shExit>>
    <3>1. gsPipe' \in Seq(Printed) /\ Members(gsPipe') = {}
      BY <2>2, MembersEmpty
    <3> QED
      BY <2>1, <2>2, <2>3, <2>5, <3>1 DEF BuildInv, SuccessMeansBuilt
  <2> QED
    BY <2>2, <2>4, <2>5
<1>2. CASE DrainQuiet
  BY <1>2, ReadDoneKeeps DEF DrainQuiet, guest, image, BuildInv
<1>3. CASE ReadFails
  BY <1>3 DEF ReadFails, Fail, guest, image, BuildInv, SuccessMeansBuilt
<1> QED
  BY <1>1, <1>2, <1>3

LEMMA BuildQmp ==
    ASSUME BuildInv, StartQemu \/ AskBuild \/ QmpConnect \/ QmpSend \/ QmpSave
             \/ QemuSaves
    PROVE  BuildInv'
<1>1. CASE StartQemu
  <2>1. /\ shPc = "idle" /\ shPc' = "repl" /\ gsTodo' = <<Prompt>>
        /\ UNCHANGED <<shBuf, shSize, shExit, gsPipe, gsBuild, quAsked>>
        /\ quFile' \in {"none", "old"}
    BY <1>1 DEF StartQemu
  <2>2. gsTodo' \in Seq(Printed) /\ Digit \notin Members(gsTodo')
    BY <2>1 DEF Printed, Prompt, Digit, Members
  <2> QED
    BY <2>1, <2>2 DEF BuildInv, SuccessMeansBuilt
<1>2. CASE AskBuild
  <2>1. /\ shPc = "ask" /\ UNCHANGED <<shBuf, shSize, gsTodo, gsPipe, quAsked, quFile>>
        /\ \/ shPc' = "build" /\ gsBuild' = "running" /\ UNCHANGED shExit
           \/ shPc' = "raised" /\ shExit' = 1 /\ UNCHANGED gsBuild
    BY <1>2 DEF AskBuild, image
  <2>2. gsBuild = "no" /\ shExit # 0
    BY <2>1 DEF BuildInv
  <2> QED
    BY <2>1, <2>2 DEF BuildInv, SuccessMeansBuilt
<1>3. CASE QmpConnect
  <2>1. /\ shPc = "connect"
        /\ UNCHANGED <<shBuf, shSize, gsTodo, gsPipe, gsBuild, quAsked, quFile>>
        /\ \/ shPc' = "save" /\ UNCHANGED shExit
           \/ shPc' = "raised" /\ shExit' = 1
    BY <1>3 DEF QmpConnect, guest, image
  <2>2. shExit # 0
    BY <2>1 DEF BuildInv
  <2> QED
    BY <2>1, <2>2 DEF BuildInv, SuccessMeansBuilt
<1>4. CASE QmpSend
  <2>1. /\ shPc = "save" /\ UNCHANGED <<shBuf, shSize, gsTodo, gsPipe, gsBuild, quFile>>
        /\ \/ shPc' = "reply" /\ UNCHANGED shExit
           \/ shPc' = "raised" /\ shExit' = 1
    BY <1>4 DEF QmpSend, guest
  <2>2. shExit # 0 /\ gsBuild = "built" /\ shSize \in Nat /\ shSize > 0
    BY <2>1 DEF BuildInv
  <2> QED
    BY <2>1, <2>2 DEF BuildInv, SuccessMeansBuilt
<1>5. CASE QmpSave
  <2>1. /\ shPc = "reply" /\ shPc' \in {"done", "raised"} /\ (shExit' = 0 => shPc' = "done")
        /\ UNCHANGED <<shBuf, shSize, gsTodo, gsPipe, gsBuild, quAsked, quFile>>
    BY <1>5 DEF QmpSave, guest, image
  <2>2. gsBuild = "built" /\ shSize \in Nat /\ shSize > 0
    BY <2>1 DEF BuildInv
  <2> QED
    BY <2>1, <2>2 DEF BuildInv, SuccessMeansBuilt
<1>6. CASE QemuSaves
  <2>1. quAsked /\ UNCHANGED <<shPc, shBuf, shSize, shExit, gsTodo, gsPipe, gsBuild>>
    BY <1>6 DEF QemuSaves, shScript, guest
  <2>2. gsBuild = "built" /\ shSize \in Nat /\ shSize > 0
    BY <2>1 DEF BuildInv
  <2> QED
    BY <2>1, <2>2 DEF BuildInv, SuccessMeansBuilt
<1> QED
  BY <1>1, <1>2, <1>3, <1>4, <1>5, <1>6

LEMMA BuildGuest ==
    ASSUME BuildInv, GuestPrints \/ GuestBuilds \/ QemuEnds \/ UNCHANGED shVars
    PROVE  BuildInv'
<1>1. CASE GuestPrints
  <2>1. /\ gsTodo # <<>> /\ gsPipe' = Append(gsPipe, Head(gsTodo)) /\ gsTodo' = Tail(gsTodo)
        /\ UNCHANGED <<shPc, shBuf, shSize, shExit, gsBuild, quAsked, quFile>>
    BY <1>1 DEF GuestPrints, shScript, image
  <2>2. /\ gsTodo' \in Seq(Printed) /\ Members(gsTodo') \subseteq Members(gsTodo)
        /\ Head(gsTodo) \in Members(gsTodo) /\ Head(gsTodo) \in Printed
    BY <2>1, MembersTail DEF BuildInv
  <2>3. gsPipe' \in Seq(Printed) /\ Members(gsPipe') = Members(gsPipe) \cup {Head(gsTodo)}
    BY <2>1, <2>2, MembersAppend DEF BuildInv
  <2> QED
    BY <2>1, <2>2, <2>3 DEF BuildInv, SuccessMeansBuilt
<1>2. CASE GuestBuilds
  <2>1. /\ gsBuild = "running" /\ gsBuild' = "built" /\ gsTodo' = Answer
        /\ UNCHANGED <<shPc, shBuf, shSize, shExit, gsPipe, quAsked, quFile>>
    BY <1>2 DEF GuestBuilds, shScript, image
  <2>2. Answer \in Seq(Printed)
    <3>1. ImageDigits \in Nat
      BY SelfHostAssumption DEF SelfHostAssumption
    <3>2. [i \in 1 .. ImageDigits |-> Digit] \in Seq(Printed)
      BY <3>1 DEF Printed
    <3> QED
      BY <3>2 DEF Answer, Printed
  <2>3. shPc \notin {"idle", "repl", "ask"}
    BY <2>1 DEF BuildInv
  <2> QED
    BY <2>1, <2>2, <2>3 DEF BuildInv, SuccessMeansBuilt
<1>3. CASE QemuEnds \/ UNCHANGED shVars
  <2>1. UNCHANGED <<shPc, shBuf, shSize, shExit, gsTodo, gsPipe, gsBuild, quAsked, quFile>>
    BY <1>3 DEF QemuEnds, shVars, shScript, guest, image
  <2> QED
    BY <2>1 DEF BuildInv, SuccessMeansBuilt
<1> QED
  BY <1>1, <1>2, <1>3

\* Digits come from a build that ended, at all times.
LEMMA BuildHolds == SelfHostSpec => []BuildInv
<1>1. SelfHostInit => BuildInv
  BY MembersEmpty DEF SelfHostInit, BuildInv, SuccessMeansBuilt
<1>2. BuildInv /\ [SelfHostNext]_shVars => BuildInv'
  BY BuildReads, BuildQmp, BuildGuest DEF SelfHostNext, SelfHostScript
<1> QED
  BY <1>1, <1>2, PTL DEF SelfHostSpec

\* self-host-gen1.py, for an image of any size and any number of drain reads:
\* status 0, and a file that is overwritten, mean that the guest had built and
\* that a size was read, however QEMU answers or fails to.
THEOREM SuccessIsReal == SelfHostSpec => []SuccessMeansBuilt
<1>1. BuildInv => SuccessMeansBuilt
  BY DEF BuildInv
<1> QED
  BY <1>1, BuildHolds, PTL

-----------------------------------------------------------------------------
(* The shape of the script's state.  A size is read from no more digits     *)
(* than the guest printed, however the pipe cuts them: the digits between   *)
(* the guest and the script's buffer are at most those of one answer.       *)

LEMMA DigitsConcat ==
    ASSUME NEW a \in Seq(Printed), NEW b \in Seq(Printed)
    PROVE  Digits(a \o b) = Digits(a) + Digits(b)
<1> DEFINE ab == a \o b
           A == {i \in DOMAIN a : a[i] = Digit}
           B == {i \in DOMAIN b : b[i] = Digit}
           C == {i \in DOMAIN ab : ab[i] = Digit}
           n == Len(a)
           m == Len(b)
           f == [i \in B |-> n + i]
           Moved == {n + i : i \in B}
<1>1. /\ DOMAIN ab = 1 .. n + m
      /\ \A i \in 1 .. n + m : ab[i] = IF i <= n THEN a[i] ELSE b[i - n]
  <2>1. /\ a \o b \in Seq(Printed) /\ Len(a \o b) = Len(a) + Len(b)
        /\ \A i \in 1 .. Len(a) + Len(b) :
             (a \o b)[i] = IF i <= Len(a) THEN a[i] ELSE b[i - Len(a)]
    BY ConcatProperties
  <2> QED
    BY <2>1
<1>2. n \in Nat /\ m \in Nat /\ DOMAIN a = 1 .. n /\ DOMAIN b = 1 .. m
  OBVIOUS
<1> HIDE DEF ab, n, m
<1>3. IsFiniteSet(A) /\ IsFiniteSet(B)
  <2>1. IsFiniteSet(1 .. n) /\ IsFiniteSet(1 .. m)
    BY <1>2, FS_Interval
  <2> QED
    BY <1>2, <2>1, FS_Subset
<1>4. Cardinality(A) \in Nat /\ Cardinality(B) \in Nat
  BY <1>3, FS_CardinalityType
<1>5. f \in Bijection(B, Moved)
  <2>1. B \subseteq Nat
    BY <1>2
  <2> QED
    BY <1>2, <2>1 DEF Bijection, Injection, Surjection, IsInjective
<1>6. IsFiniteSet(Moved) /\ Cardinality(Moved) = Cardinality(B)
  BY <1>3, <1>5, FS_Bijection DEF ExistsBijection
<1>7. A \cap Moved = {}
  BY <1>2
<1>8. C = A \cup Moved
  <2>1. ASSUME NEW i \in C PROVE i \in A \cup Moved
    <3>1. i \in 1 .. n + m /\ ab[i] = Digit
      BY <1>1
    <3>2. CASE i <= n
      BY <1>1, <1>2, <3>1, <3>2
    <3>3. CASE ~(i <= n)
      <4>1. i - n \in B /\ n + (i - n) = i
        BY <1>1, <1>2, <3>1, <3>3
      <4> QED
        BY <4>1
    <3> QED
      BY <3>2, <3>3
  <2>2. ASSUME NEW i \in A PROVE i \in C
    BY <1>1, <1>2
  <2>3. ASSUME NEW j \in B PROVE n + j \in C
    <3>1. n + j \in 1 .. n + m /\ ~(n + j <= n) /\ (n + j) - n = j
      BY <1>2
    <3> QED
      BY <1>1, <3>1
  <2> QED
    BY <2>1, <2>2, <2>3
<1>9. Cardinality(C) = Cardinality(A) + Cardinality(Moved) - Cardinality(A \cap Moved)
  BY <1>3, <1>6, <1>8, FS_Union
<1>10. Cardinality(A \cap Moved) = 0
  BY <1>7, FS_EmptySet
<1>11. Digits(ab) = Cardinality(C) /\ Digits(a) = Cardinality(A) /\ Digits(b) = Cardinality(B)
  BY DEF Digits
<1>12. Digits(ab) = Digits(a) + Digits(b)
  <2> HIDE DEF A, B, C, Moved
  <2> QED
    BY <1>4, <1>6, <1>9, <1>10, <1>11
<1> QED
  BY <1>12 DEF ab

LEMMA DigitsNone ==
    ASSUME NEW a \in Seq(Printed), Digit \notin Members(a)
    PROVE  Digits(a) = 0
<1>1. {i \in DOMAIN a : a[i] = Digit} = {}
  BY DEF Members
<1> QED
  BY <1>1, FS_EmptySet DEF Digits

LEMMA DigitsOfAnswer ==
    Answer \in Seq(Printed) /\ Digits(Answer) = ImageDigits
<1> DEFINE size == [i \in 1 .. ImageDigits |-> Digit]
           D == {i \in DOMAIN size : size[i] = Digit}
<1>1. ImageDigits \in Nat
  BY SelfHostAssumption DEF SelfHostAssumption
<1>2. size \in Seq(Printed)
  BY <1>1 DEF Printed
<1>3. D = 1 .. ImageDigits
  OBVIOUS
<1>4. Cardinality(1 .. ImageDigits) = ImageDigits
  BY <1>1, FS_Interval
<1>5. Digits(size) = ImageDigits
  BY <1>3, <1>4 DEF Digits
<1> HIDE DEF size, D
<1>6. /\ <<SizeMark>> \in Seq(Printed) /\ Digit \notin Members(<<SizeMark>>)
      /\ <<"newline">> \in Seq(Printed) /\ Digit \notin Members(<<"newline">>)
  BY DEF Printed, SizeMark, Digit, Members
<1>7. Digits(<<SizeMark>>) = 0 /\ Digits(<<"newline">>) = 0
  BY <1>6, DigitsNone
<1>8. /\ <<SizeMark>> \o size \in Seq(Printed)
      /\ Digits(<<SizeMark>> \o size) = 0 + ImageDigits
  <2>1. <<SizeMark>> \o size \in Seq(Printed)
    BY <1>2, <1>6, MembersConcat
  <2>2. Digits(<<SizeMark>> \o size) = Digits(<<SizeMark>>) + Digits(size)
    BY <1>2, <1>6, DigitsConcat
  <2> QED
    BY <1>5, <1>7, <2>1, <2>2
<1>9. /\ (<<SizeMark>> \o size) \o <<"newline">> \in Seq(Printed)
      /\ Digits((<<SizeMark>> \o size) \o <<"newline">>) = (0 + ImageDigits) + 0
  <2> DEFINE head == <<SizeMark>> \o size
  <2>1. head \in Seq(Printed) /\ Digits(head) = 0 + ImageDigits
    BY <1>8
  <2> HIDE DEF head
  <2>2. head \o <<"newline">> \in Seq(Printed)
    BY <1>6, <2>1, MembersConcat
  <2>3. Digits(head \o <<"newline">>) = Digits(head) + Digits(<<"newline">>)
    BY <1>6, <2>1, DigitsConcat
  <2>4. Digits(head \o <<"newline">>) = (0 + ImageDigits) + 0
    BY <1>7, <2>1, <2>3
  <2> QED
    BY <2>2, <2>4 DEF head
<1>10. Answer = (<<SizeMark>> \o size) \o <<"newline">>
  BY DEF Answer, size
<1> QED
  BY <1>1, <1>9, <1>10

DigitsLeft == Digits(shBuf) + Digits(gsPipe) + Digits(gsTodo)

SelfHostShape ==
    /\ shPc \in {"idle", "repl", "ask", "build", "connect", "save", "reply", "done", "raised"}
    /\ shDrain \in -1 .. DrainReads
    /\ shSize \in -1 .. ImageDigits
    /\ shExit \in {-1, 0, 1}
    /\ gsBuild \in {"no", "running", "built"}
    /\ quFile \in {"none", "old", "part", "whole"}

LEMMA DigitsAreCounts ==
    ASSUME BuildInv
    PROVE  Digits(shBuf) \in Nat /\ Digits(gsPipe) \in Nat /\ Digits(gsTodo) \in Nat
BY DigitsFound DEF BuildInv

LEMMA EmptyNoDigits == Digits(<<>>) = 0
<1>1. <<>> \in Seq(Printed) /\ Digit \notin Members(<<>>)
  BY MembersEmpty
<1> QED
  BY <1>1, DigitsNone

\* What follows a read: the size is of the digits that were there.
LEMMA ReadDoneShape ==
    ASSUME SelfHostShape, NEW buf, Digits(buf) \in 0 .. ImageDigits, ReadDone(buf),
           UNCHANGED <<gsBuild, quFile>>
    PROVE  SelfHostShape'
<1>1. /\ shSize \in -1 .. ImageDigits /\ shExit \in {-1, 0, 1}
      /\ gsBuild \in {"no", "running", "built"} /\ quFile \in {"none", "old", "part", "whole"}
  BY DEF SelfHostShape
<1>2. -1 \in -1 .. DrainReads /\ Digits(buf) \in -1 .. ImageDigits
  BY SelfHostAssumption DEF SelfHostAssumption
<1>3. /\ shDrain' = -1 /\ shPc' \in {"ask", "done", "connect"}
      /\ shSize' \in {shSize, Digits(buf)} /\ shExit' \in {shExit, 1}
  BY DEF ReadDone, Fail
<1> QED
  BY <1>1, <1>2, <1>3 DEF SelfHostShape

LEMMA SelfHostTypedReads ==
    ASSUME BuildInv, SelfHostShape, DigitsLeft <= ImageDigits, read_until \/ DrainQuiet \/ ReadFails
    PROVE  SelfHostShape' /\ DigitsLeft' <= ImageDigits
<1>1. /\ Digits(shBuf) \in Nat /\ Digits(gsPipe) \in Nat /\ Digits(gsTodo) \in Nat
      /\ ImageDigits \in Nat /\ DrainReads \in Nat
  BY DigitsAreCounts, SelfHostAssumption DEF SelfHostAssumption
<1>2. Digits(shBuf) + Digits(gsPipe) + Digits(gsTodo) <= ImageDigits
  BY DEF DigitsLeft
<1>3. /\ shPc \in {"idle", "repl", "ask", "build", "connect", "save", "reply", "done", "raised"}
      /\ shDrain \in -1 .. DrainReads /\ shSize \in -1 .. ImageDigits /\ shExit \in {-1, 0, 1}
      /\ gsBuild \in {"no", "running", "built"} /\ quFile \in {"none", "old", "part", "whole"}
  BY DEF SelfHostShape
<1>4. CASE read_until
  <2> DEFINE buf == shBuf \o gsPipe
             left == IF shDrain > 0 THEN shDrain - 1
                     ELSE IF Contains(buf, Marker) THEN DrainLimit ELSE -1
  <2>1. Digits(buf) = Digits(shBuf) + Digits(gsPipe)
    BY DigitsConcat DEF BuildInv
  <2>2. left \in -1 .. DrainReads
    <3> HIDE DEF buf
    <3> QED
      BY <1>1, <1>3 DEF DrainLimit
  <2>3. /\ gsPipe' = <<>> /\ UNCHANGED <<gsTodo, gsBuild, quFile>>
        /\ \/ ReadDone(buf)
           \/ shBuf' = buf /\ shDrain' = left /\ UNCHANGED <<shPc, shSize, shExit>>
    BY <1>4 DEF read_until, image
  <2> HIDE DEF buf, left
  <2>4. CASE ReadDone(buf)
    <3>1. Digits(buf) \in 0 .. ImageDigits
      BY <1>1, <1>2, <2>1
    <3>2. SelfHostShape'
      BY <2>3, <2>4, <3>1, ReadDoneShape
    <3>3. shBuf' = <<>>
      BY <2>4 DEF ReadDone
    <3> QED
      BY <1>1, <1>2, <2>3, <3>2, <3>3, EmptyNoDigits DEF DigitsLeft
  <2>5. CASE shBuf' = buf /\ shDrain' = left /\ UNCHANGED <<shPc, shSize, shExit>>
    <3>1. SelfHostShape'
      BY <1>3, <2>2, <2>3, <2>5 DEF SelfHostShape
    <3> QED
      BY <1>1, <1>2, <2>1, <2>3, <2>5, <3>1, EmptyNoDigits DEF DigitsLeft
  <2> QED
    BY <2>3, <2>4, <2>5
<1>5. CASE DrainQuiet
  <2>1. ReadDone(shBuf) /\ shBuf' = <<>> /\ UNCHANGED <<gsTodo, gsPipe, gsBuild, quFile>>
    BY <1>5 DEF DrainQuiet, ReadDone, guest, image
  <2>2. Digits(shBuf) \in 0 .. ImageDigits
    BY <1>1, <1>2
  <2>3. SelfHostShape'
    BY <2>1, <2>2, ReadDoneShape
  <2> QED
    BY <1>1, <1>2, <2>1, <2>3, EmptyNoDigits DEF DigitsLeft
<1>6. CASE ReadFails
  <2>1. /\ shPc' = "done" /\ shExit' = 1
        /\ UNCHANGED <<shBuf, shDrain, shSize, gsTodo, gsPipe, gsBuild, quFile>>
    BY <1>6 DEF ReadFails, Fail, guest, image
  <2> QED
    BY <1>2, <1>3, <2>1 DEF SelfHostShape, DigitsLeft
<1> QED
  BY <1>4, <1>5, <1>6

LEMMA SelfHostTypedRest ==
    ASSUME BuildInv, SelfHostShape, DigitsLeft <= ImageDigits,
           StartQemu \/ AskBuild \/ QmpConnect \/ QmpSend \/ QmpSave \/ GuestPrints \/ GuestBuilds
             \/ QemuEnds \/ QemuSaves \/ UNCHANGED shVars
    PROVE  SelfHostShape' /\ DigitsLeft' <= ImageDigits
<1>1. /\ Digits(shBuf) \in Nat /\ Digits(gsPipe) \in Nat /\ Digits(gsTodo) \in Nat
      /\ ImageDigits \in Nat
  BY DigitsAreCounts, SelfHostAssumption DEF SelfHostAssumption
<1>2. Digits(shBuf) + Digits(gsPipe) + Digits(gsTodo) <= ImageDigits
  BY DEF DigitsLeft
<1>3. /\ shPc \in {"idle", "repl", "ask", "build", "connect", "save", "reply", "done", "raised"}
      /\ shDrain \in -1 .. DrainReads /\ shSize \in -1 .. ImageDigits /\ shExit \in {-1, 0, 1}
      /\ gsBuild \in {"no", "running", "built"} /\ quFile \in {"none", "old", "part", "whole"}
  BY DEF SelfHostShape
<1>4. CASE StartQemu
  <2>1. /\ shPc' = "repl" /\ gsTodo' = <<Prompt>>
        /\ UNCHANGED <<shBuf, shDrain, shSize, shExit, gsPipe, gsBuild>>
        /\ quFile' \in {"none", "old"}
    BY <1>4 DEF StartQemu
  <2>2. <<Prompt>> \in Seq(Printed) /\ Digit \notin Members(<<Prompt>>)
    BY DEF Printed, Prompt, Digit, Members
  <2>3. Digits(gsTodo') = 0
    BY <2>1, <2>2, DigitsNone
  <2>4. SelfHostShape'
    BY <1>3, <2>1 DEF SelfHostShape
  <2> QED
    BY <1>1, <1>2, <2>1, <2>3, <2>4 DEF DigitsLeft
<1>5. CASE AskBuild \/ QmpConnect \/ QmpSend \/ QmpSave
  <2>1. /\ shPc' \in {"build", "raised", "save", "reply", "done"} /\ shExit' \in {shExit, 0, 1}
        /\ gsBuild' \in {gsBuild, "running"}
        /\ UNCHANGED <<shBuf, shDrain, shSize, gsTodo, gsPipe, quFile>>
    BY <1>5 DEF AskBuild, QmpConnect, QmpSend, QmpSave, guest, image
  <2> QED
    BY <1>2, <1>3, <2>1 DEF SelfHostShape, DigitsLeft
<1>6. CASE QemuSaves
  <2>1. /\ quFile' \in {quFile, "part", "whole"}
        /\ UNCHANGED <<shPc, shBuf, shDrain, shSize, shExit, gsTodo, gsPipe, gsBuild>>
    BY <1>6 DEF QemuSaves, guest, shScript
  <2> QED
    BY <1>2, <1>3, <2>1 DEF SelfHostShape, DigitsLeft
<1>7. CASE GuestPrints
  <2> DEFINE c == Head(gsTodo)
             rest == Tail(gsTodo)
  <2>1. /\ gsTodo # <<>> /\ gsPipe' = Append(gsPipe, c) /\ gsTodo' = rest
        /\ UNCHANGED <<shPc, shBuf, shDrain, shSize, shExit, gsBuild, quFile>>
    BY <1>7 DEF GuestPrints, shScript, image
  <2>2. gsTodo \in Seq(Printed) /\ gsPipe \in Seq(Printed)
    BY DEF BuildInv
  <2>3. c \in Printed /\ rest \in Seq(Printed)
    BY <2>1, <2>2
  <2>4. gsTodo = <<c>> \o rest /\ <<c>> \in Seq(Printed)
    BY <2>1, <2>2, <2>3
  <2>5. Append(gsPipe, c) = gsPipe \o <<c>>
    BY <2>2, <2>3, AppendIsConcat
  <2> HIDE DEF c, rest
  <2>6. Digits(<<c>>) \in Nat /\ Digits(rest) \in Nat
    BY <2>3, <2>4, DigitsFound
  <2>7. Digits(gsTodo) = Digits(<<c>>) + Digits(rest) /\ Digits(gsPipe') = Digits(gsPipe) + Digits(<<c>>)
    BY <2>1, <2>2, <2>3, <2>4, <2>5, DigitsConcat
  <2>8. SelfHostShape'
    BY <1>3, <2>1 DEF SelfHostShape
  <2> QED
    BY <1>1, <1>2, <2>1, <2>6, <2>7, <2>8 DEF DigitsLeft
<1>8. CASE GuestBuilds
  <2>1. /\ gsBuild = "running" /\ gsBuild' = "built" /\ gsTodo' = Answer
        /\ UNCHANGED <<shPc, shBuf, shDrain, shSize, shExit, gsPipe, quFile>>
    BY <1>8 DEF GuestBuilds, shScript, image
  <2>2. Digits(shBuf) = 0 /\ Digits(gsPipe) = 0
    BY <2>1, DigitsNone DEF BuildInv
  <2>3. SelfHostShape'
    BY <1>3, <2>1 DEF SelfHostShape
  <2> QED
    BY <1>1, <2>1, <2>2, <2>3, DigitsOfAnswer DEF DigitsLeft
<1>9. CASE QemuEnds \/ UNCHANGED shVars
  <2>1. UNCHANGED <<shPc, shBuf, shDrain, shSize, shExit, gsTodo, gsPipe, gsBuild, quFile>>
    BY <1>9 DEF QemuEnds, shVars, shScript, guest, image
  <2> QED
    BY <1>2, <1>3, <2>1 DEF SelfHostShape, DigitsLeft
<1> QED
  BY <1>4, <1>5, <1>6, <1>7, <1>8, <1>9

QemuFlags == quLive \in BOOLEAN /\ quAsked \in BOOLEAN

LEMMA QemuFlagsStep == QemuFlags /\ [SelfHostNext]_shVars => QemuFlags'
<1> SUFFICES ASSUME QemuFlags, [SelfHostNext]_shVars PROVE QemuFlags'
  OBVIOUS
<1>1. quLive' \in {quLive, TRUE, FALSE}
  BY DEF SelfHostNext, SelfHostScript, StartQemu, read_until, DrainQuiet, ReadFails, ReadDone, Fail,
     AskBuild, QmpConnect, QmpSend, QmpSave, GuestPrints, GuestBuilds, QemuEnds, QemuSaves, shVars
<1>2. quAsked' \in {quAsked, quLive, FALSE}
  BY DEF SelfHostNext, SelfHostScript, StartQemu, read_until, DrainQuiet, ReadFails,
     AskBuild, QmpConnect, QmpSend, QmpSave, GuestPrints, GuestBuilds, QemuEnds, QemuSaves, shVars,
     image
<1> QED
  BY <1>1, <1>2 DEF QemuFlags

\* self-host-gen1.py, for an image of any size and any number of drain reads.
LEMMA SelfHostTyped == SelfHostSpec => []SelfHostTypeOK
<1> DEFINE Inv == SelfHostShape /\ DigitsLeft <= ImageDigits
<1>1. SelfHostInit => Inv
  <2> SUFFICES ASSUME SelfHostInit PROVE Inv
    OBVIOUS
  <2>1. ImageDigits \in Nat /\ DrainReads \in Nat
    BY SelfHostAssumption DEF SelfHostAssumption
  <2>2. DigitsLeft = 0
    BY EmptyNoDigits DEF SelfHostInit, DigitsLeft
  <2>3. SelfHostShape
    BY <2>1 DEF SelfHostInit, SelfHostShape
  <2> QED
    BY <2>1, <2>2, <2>3
<1>2. BuildInv /\ Inv /\ [SelfHostNext]_shVars => Inv'
  BY SelfHostTypedReads, SelfHostTypedRest DEF SelfHostNext, SelfHostScript
<1>3. Inv /\ QemuFlags => SelfHostTypeOK
  BY DEF SelfHostShape, SelfHostTypeOK, QemuFlags
<1>4. SelfHostInit => QemuFlags
  BY DEF SelfHostInit, QemuFlags
<1> QED
  BY <1>1, <1>2, <1>3, <1>4, QemuFlagsStep, BuildHolds, PTL DEF SelfHostSpec

-----------------------------------------------------------------------------
(* qsave.py and qcore.py.  What was typed has been evaluated or waits in    *)
(* the REPL's queue, and the save is the last line there; once it has been  *)
(* evaluated, what was read, what was printed and what is still to be       *)
(* printed are together some values and then the end of the core.           *)

CoreChars == {"", "v", CoreMark, CoreDigit, "newline"}
CoreLines == {"push", "eager", "install", "save", "probe", "print"} \X Nat
Items == [id : Nat, form : CoreLines, ch : CoreChars]
Prints == [id : Nat, ch : CoreChars]
Needed == Pushed \cup {Eager, Install}

Queued(f) == \E i \in DOMAIN crTodo : crTodo[i].ch = "" /\ crTodo[i].form = f
Kept(f) == f \in crDone \/ Queued(f)

TextsOf(s) == [i \in DOMAIN s |-> s[i].ch]
HeardOf(b, o) == b \o TextsOf(o)
StreamOf(b, o, t) == HeardOf(b, o) \o TextsOf(t)
Heard == HeardOf(csBuf, crOut)
Stream == StreamOf(csBuf, crOut, crTodo)
EndText(i) == IF i = 1 THEN CoreMark ELSE IF i = EndDigits + 2 THEN "newline" ELSE CoreDigit

CoreShape ==
    /\ csBuf \in Seq(CoreChars) /\ crOut \in Seq(Prints) /\ crTodo \in Seq(Items)
    /\ csSent \in Nat /\ csLines \in Nat /\ (csPc = "idle" => csSent = 0)

TypedKept ==
    /\ csPc # "idle" => Kept(Install)
    /\ csPc = "push" => \A n \in 1 .. csSent : Kept(<<"push", n>>)
    /\ csPc \in {"eager", "save"} => \A f \in Pushed : Kept(f)
    /\ csPc = "save" \/ (csPc = "eager" /\ csWait # 0) => Kept(Eager)

SaveLast ==
    \A i \in DOMAIN crTodo : crTodo[i].form = SaveForm =>
      /\ i = Len(crTodo) /\ csPc \in {"end", "done"}
      /\ \A f \in Needed : Kept(f)

Unsaved ==
    /\ csPc # "dump"
    /\ \A i \in DOMAIN csBuf : csBuf[i] = "v"
    /\ \A i \in DOMAIN crOut : crOut[i].ch = "v"
    /\ \A i \in DOMAIN crTodo : crTodo[i].ch \in {"", "v"}
    /\ SaveLast

EndAt(k) ==
    /\ Len(Stream) = k + EndDigits + 2
    /\ \A i \in 1 .. k : Stream[i] = "v"
    /\ \A i \in 1 .. (EndDigits + 2) : Stream[k + i] = EndText(i)

Saved ==
    /\ Needed \subseteq crCore
    /\ csPc \in {"end", "dump", "done"}
    /\ \A i \in DOMAIN crTodo : crTodo[i].ch # ""
    /\ csPc = "end" => \E k \in Nat : EndAt(k)

EndTaken == csKind = "qcore" /\ ~csLate => csEnd = EndDigits /\ ~csCount

CoreInv ==
    /\ CoreShape
    /\ TypedKept
    /\ Unsaved \/ Saved
    /\ csPc = "dump" => EndTaken
    /\ csExit = 0 => csPc = "done" /\ Saved /\ EndTaken

LEMMA TextsSeq ==
    ASSUME NEW R, \A r \in R : r.ch \in CoreChars, NEW s \in Seq(R)
    PROVE  /\ TextsOf(s) \in Seq(CoreChars) /\ Len(TextsOf(s)) = Len(s)
           /\ \A i \in 1 .. Len(s) : TextsOf(s)[i] = s[i].ch
<1>1. Len(s) \in Nat /\ DOMAIN s = 1 .. Len(s) /\ \A i \in 1 .. Len(s) : s[i] \in R
  OBVIOUS
<1>2. TextsOf(s) = [i \in 1 .. Len(s) |-> s[i].ch]
  BY <1>1 DEF TextsOf
<1>3. \A i \in 1 .. Len(s) : s[i].ch \in CoreChars
  BY <1>1
<1> QED
  BY <1>1, <1>2, <1>3

LEMMA TextFields ==
    (\A r \in Items : r.ch \in CoreChars) /\ (\A r \in Prints : r.ch \in CoreChars)
BY DEF Items, Prints

\* The REPL prints a character: it moves from the queue to the output.
LEMMA StreamPrints ==
    ASSUME CoreShape, crTodo # <<>>, crTodo' = Tail(crTodo), csBuf' = csBuf,
           NEW n \in Nat, crOut' = Append(crOut, [id |-> n, ch |-> Head(crTodo).ch])
    PROVE  Stream' = Stream
<1> DEFINE h == Head(crTodo).ch
           O == TextsOf(crOut)
           T == TextsOf(Tail(crTodo))
<1>1. csBuf \in Seq(CoreChars) /\ crOut \in Seq(Prints) /\ crTodo \in Seq(Items)
  BY DEF CoreShape
<1>2. Head(crTodo) \in Items /\ Tail(crTodo) \in Seq(Items) /\ h \in CoreChars
  BY <1>1, TextFields
<1>3. [id |-> n, ch |-> h] \in Prints /\ [id |-> n, ch |-> h].ch = h
  BY <1>2 DEF Prints
<1>4. O \in Seq(CoreChars) /\ T \in Seq(CoreChars) /\ <<h>> \in Seq(CoreChars)
  <2>1. O \in Seq(CoreChars)
    BY <1>1, TextFields, TextsSeq
  <2>2. T \in Seq(CoreChars)
    BY <1>2, TextFields, TextsSeq
  <2>3. <<h>> \in Seq(CoreChars)
    BY <1>2
  <2> QED
    BY <2>1, <2>2, <2>3
<1>5. TextsOf(crOut') = O \o <<h>>
  <2> DEFINE r == Append(crOut, [id |-> n, ch |-> h])
  <2>1. /\ r \in Seq(Prints) /\ Len(r) = Len(crOut) + 1 /\ Len(crOut) \in Nat
        /\ r[Len(crOut) + 1].ch = h /\ \A i \in 1 .. Len(crOut) : r[i] = crOut[i]
    BY <1>1, <1>3
  <2>2. crOut' = r
    OBVIOUS
  <2> HIDE DEF r, h
  <2>3. /\ TextsOf(r) \in Seq(CoreChars) /\ Len(TextsOf(r)) = Len(crOut) + 1
        /\ \A i \in 1 .. (Len(crOut) + 1) : TextsOf(r)[i] = r[i].ch
    BY <2>1, TextFields, TextsSeq
  <2>4. Len(O) = Len(crOut) /\ \A i \in 1 .. Len(crOut) : O[i] = crOut[i].ch
    BY <1>1, TextFields, TextsSeq
  <2> HIDE DEF O
  <2>5. /\ O \o <<h>> \in Seq(CoreChars) /\ Len(O \o <<h>>) = Len(crOut) + 1
        /\ \A i \in 1 .. Len(crOut) : (O \o <<h>>)[i] = O[i]
        /\ (O \o <<h>>)[Len(crOut) + 1] = h
    <3> DEFINE L == <<h>>
    <3>1. O \in Seq(CoreChars) /\ L \in Seq(CoreChars) /\ Len(L) = 1 /\ L[1] = h
      BY <1>4
    <3> HIDE DEF L
    <3>2. /\ O \o L \in Seq(CoreChars) /\ Len(O \o L) = Len(O) + Len(L)
          /\ \A i \in 1 .. Len(O) + Len(L) :
               (O \o L)[i] = IF i <= Len(O) THEN O[i] ELSE L[i - Len(O)]
      BY <3>1, ConcatProperties
    <3>3. /\ Len(O \o L) = Len(crOut) + 1 /\ (O \o L)[Len(crOut) + 1] = h
          /\ \A i \in 1 .. Len(crOut) : (O \o L)[i] = O[i]
      BY <2>1, <2>4, <3>1, <3>2
    <3> QED
      BY <3>2, <3>3 DEF L
  <2>6. ASSUME NEW i \in 1 .. (Len(crOut) + 1) PROVE TextsOf(r)[i] = (O \o <<h>>)[i]
    <3>1. i \in 1 .. Len(crOut) \/ i = Len(crOut) + 1
      BY <2>1
    <3> QED
      BY <2>1, <2>3, <2>4, <2>5, <3>1
  <2>7. TextsOf(r) = O \o <<h>>
    BY <2>3, <2>5, <2>6, SeqEqual
  <2> QED
    BY <2>2, <2>7
<1>6. TextsOf(crTodo) = <<h>> \o T
  <2> DEFINE C == TextsOf(crTodo)
             r == Tail(crTodo)
  <2>1. /\ Len(crTodo) \in Nat /\ Len(crTodo) > 0 /\ Len(r) = Len(crTodo) - 1
        /\ crTodo[1].ch = h /\ \A i \in 1 .. (Len(crTodo) - 1) : r[i] = crTodo[i + 1]
    BY <1>1
  <2>2. /\ C \in Seq(CoreChars) /\ Len(C) = Len(crTodo)
        /\ \A i \in 1 .. Len(crTodo) : C[i] = crTodo[i].ch
    BY <1>1, TextFields, TextsSeq
  <2>3. Len(T) = Len(crTodo) - 1 /\ \A i \in 1 .. (Len(crTodo) - 1) : T[i] = r[i].ch
    BY <1>2, <2>1, TextFields, TextsSeq
  <2> HIDE DEF C, r, h, T
  <2>4. /\ <<h>> \o T \in Seq(CoreChars) /\ Len(<<h>> \o T) = Len(crTodo)
        /\ (<<h>> \o T)[1] = h
        /\ \A i \in 2 .. Len(crTodo) : (<<h>> \o T)[i] = T[i - 1]
    BY <1>4, <2>1, <2>3
  <2>5. ASSUME NEW i \in 1 .. Len(crTodo) PROVE C[i] = (<<h>> \o T)[i]
    <3>1. CASE i = 1
      BY <2>1, <2>2, <2>4, <3>1
    <3>2. CASE i # 1
      <4>1. i \in 2 .. Len(crTodo) /\ i - 1 \in 1 .. (Len(crTodo) - 1) /\ (i - 1) + 1 = i
        BY <2>1, <3>2
      <4>2. C[i] = crTodo[i].ch
        BY <2>2
      <4>3. r[i - 1] = crTodo[i]
        BY <2>1, <4>1
      <4>4. T[i - 1] = r[i - 1].ch
        BY <2>3, <4>1
      <4>5. (<<h>> \o T)[i] = T[i - 1]
        BY <2>4, <4>1
      <4> QED
        BY <4>2, <4>3, <4>4, <4>5, Zenon
    <3> QED
      BY <3>1, <3>2
  <2>6. C = <<h>> \o T
    BY <2>2, <2>4, <2>5, SeqEqual
  <2> QED
    BY <2>6 DEF C
<1> HIDE DEF h, O, T
<1>7. (csBuf \o (O \o <<h>>)) \o T = (csBuf \o O) \o (<<h>> \o T)
  <2>0. csBuf \in Seq(CoreChars)
    BY <1>1
  <2>1. csBuf \o (O \o <<h>>) = (csBuf \o O) \o <<h>>
    BY ONLY <1>4, <2>0, ConcatAssociative
  <2>2. csBuf \o O \in Seq(CoreChars)
    BY <1>4, <2>0, ConcatProperties
  <2>3. ((csBuf \o O) \o <<h>>) \o T = (csBuf \o O) \o (<<h>> \o T)
    BY ONLY <1>4, <2>2, ConcatAssociative
  <2> QED
    BY <2>1, <2>3
<1>8. Stream' = (csBuf \o (O \o <<h>>)) \o T
  BY <1>5 DEF Stream, Heard, StreamOf, HeardOf, T
<1>9. Stream = (csBuf \o O) \o (<<h>> \o T)
  BY <1>6 DEF Stream, Heard, StreamOf, HeardOf, O
<1> QED
  BY <1>7, <1>8, <1>9

LEMMA StreamShape ==
    ASSUME NEW b \in Seq(CoreChars), NEW o \in Seq(Prints), NEW t \in Seq(Items)
    PROVE  /\ HeardOf(b, o) \in Seq(CoreChars)
           /\ \A i \in DOMAIN HeardOf(b, o) : (\A j \in DOMAIN b : b[j] = "v")
                /\ (\A j \in DOMAIN o : o[j].ch = "v") => HeardOf(b, o)[i] = "v"
           /\ Len(StreamOf(b, o, t)) = Len(HeardOf(b, o)) + Len(t)
           /\ \A i \in 1 .. Len(HeardOf(b, o)) : StreamOf(b, o, t)[i] = HeardOf(b, o)[i]
           /\ \A i \in 1 .. Len(t) : StreamOf(b, o, t)[Len(HeardOf(b, o)) + i] = t[i].ch
<1> DEFINE O == TextsOf(o)
           T == TextsOf(t)
           H == HeardOf(b, o)
           X == StreamOf(b, o, t)
<1>1. b \in Seq(CoreChars) /\ o \in Seq(Prints) /\ t \in Seq(Items)
  OBVIOUS
<1>2. /\ O \in Seq(CoreChars) /\ Len(O) = Len(o)
      /\ \A i \in 1 .. Len(o) : O[i] = o[i].ch
  BY <1>1, TextFields, TextsSeq
<1>3. /\ T \in Seq(CoreChars) /\ Len(T) = Len(t)
      /\ \A i \in 1 .. Len(t) : T[i] = t[i].ch
  BY <1>1, TextFields, TextsSeq
<1> HIDE DEF O, T, H, X
<1>4. H = b \o O /\ X = H \o T
  BY DEF HeardOf, StreamOf, O, T, H, X
<1>5. /\ H \in Seq(CoreChars) /\ Len(H) = Len(b) + Len(O)
      /\ \A i \in 1 .. Len(b) + Len(O) :
           H[i] = IF i <= Len(b) THEN b[i] ELSE O[i - Len(b)]
  <2>1. /\ b \o O \in Seq(CoreChars) /\ Len(b \o O) = Len(b) + Len(O)
        /\ \A i \in 1 .. Len(b) + Len(O) :
             (b \o O)[i] = IF i <= Len(b) THEN b[i] ELSE O[i - Len(b)]
    BY <1>1, <1>2, ConcatProperties
  <2> QED
    BY <1>4, <2>1, Zenon
<1>6. /\ Len(X) = Len(H) + Len(T)
      /\ \A i \in 1 .. Len(H) + Len(T) :
           X[i] = IF i <= Len(H) THEN H[i] ELSE T[i - Len(H)]
  <2>1. H \in Seq(CoreChars) /\ T \in Seq(CoreChars)
    BY <1>3, <1>5
  <2>2. /\ Len(H \o T) = Len(H) + Len(T)
        /\ \A i \in 1 .. Len(H) + Len(T) :
             (H \o T)[i] = IF i <= Len(H) THEN H[i] ELSE T[i - Len(H)]
    BY <2>1, ConcatProperties
  <2> QED
    BY <1>4, <2>2, Zenon
<1>7. /\ Len(b) \in Nat /\ DOMAIN b = 1 .. Len(b)
      /\ Len(o) \in Nat /\ DOMAIN o = 1 .. Len(o)
      /\ Len(t) \in Nat /\ Len(H) \in Nat /\ DOMAIN H = 1 .. Len(H)
  BY <1>1, <1>5
<1>8. ASSUME NEW i \in DOMAIN H, \A j \in DOMAIN b : b[j] = "v",
             \A j \in DOMAIN o : o[j].ch = "v"
      PROVE  H[i] = "v"
  <2>1. CASE i <= Len(b)
    BY <1>2, <1>5, <1>7, <1>8, <2>1
  <2>2. CASE ~(i <= Len(b))
    <3>1. i - Len(b) \in 1 .. Len(o) /\ H[i] = O[i - Len(b)]
      BY <1>2, <1>5, <1>7, <2>2
    <3> QED
      BY <1>2, <1>7, <1>8, <3>1
  <2> QED
    BY <2>1, <2>2
<1>9. \A i \in 1 .. Len(H) : X[i] = H[i]
  BY <1>3, <1>6, <1>7
<1>10. ASSUME NEW i \in 1 .. Len(t) PROVE X[Len(H) + i] = t[i].ch
  <2>1. /\ Len(H) + i \in 1 .. Len(H) + Len(T) /\ ~(Len(H) + i <= Len(H))
        /\ (Len(H) + i) - Len(H) = i
    BY <1>3, <1>7
  <2> QED
    BY <1>3, <1>6, <2>1
<1> QED
  BY <1>3, <1>5, <1>6, <1>8, <1>9, <1>10 DEF H, X

LEMMA HeardShape ==
    ASSUME CoreShape
    PROVE  /\ Heard \in Seq(CoreChars)
           /\ \A i \in DOMAIN Heard : (\A j \in DOMAIN csBuf : csBuf[j] = "v")
                /\ (\A j \in DOMAIN crOut : crOut[j].ch = "v") => Heard[i] = "v"
           /\ Len(Stream) = Len(Heard) + Len(crTodo)
           /\ \A i \in 1 .. Len(Heard) : Stream[i] = Heard[i]
           /\ \A i \in 1 .. Len(crTodo) : Stream[Len(Heard) + i] = crTodo[i].ch
BY StreamShape DEF CoreShape, Heard, Stream

\* Where the characters are: the digits stand between the mark and the newline.
LEMMA EndPlaces ==
    ASSUME CoreShape, NEW k \in Nat, EndAt(k)
    PROVE  /\ Len(Heard) \in Nat /\ DOMAIN Heard = 1 .. Len(Heard)
           /\ Len(Heard) <= k + EndDigits + 2
           /\ \A i \in 1 .. Len(Heard) :
                /\ Heard[i] = CoreDigit <=> i \in (k + 2) .. (k + EndDigits + 1)
                /\ Heard[i] = "newline" => i = k + EndDigits + 2
<1> DEFINE n == Len(Heard)
           e == EndDigits
<1>1. e \in Nat /\ e > 0
  BY CoreAssumption DEF CoreAssumption
<1>2. /\ n \in Nat /\ DOMAIN Heard = 1 .. n /\ Len(crTodo) \in Nat
      /\ n + Len(crTodo) = k + e + 2
      /\ \A i \in 1 .. n : Heard[i] = Stream[i]
  BY HeardShape DEF EndAt, CoreShape
<1>3. /\ \A i \in 1 .. k : Stream[i] = "v"
      /\ \A i \in 1 .. (e + 2) : Stream[k + i] = EndText(i)
  BY DEF EndAt
<1>4. /\ EndText(1) = CoreMark /\ EndText(e + 2) = "newline"
      /\ \A i \in 2 .. (e + 1) : EndText(i) = CoreDigit
  BY <1>1 DEF EndText
<1>5. /\ CoreMark # "newline" /\ CoreDigit # "newline" /\ CoreMark # CoreDigit
      /\ CoreDigit # "v" /\ "v" # "newline"
  BY DEF CoreMark, CoreDigit
<1> HIDE DEF n, e
<1>6. ASSUME NEW i \in 1 .. (k + e + 2)
      PROVE  /\ i <= k => Stream[i] = "v"
             /\ i = k + 1 => Stream[i] = CoreMark
             /\ i \in (k + 2) .. (k + e + 1) => Stream[i] = CoreDigit
             /\ i = k + e + 2 => Stream[i] = "newline"
             /\ i <= k \/ i = k + 1 \/ i \in (k + 2) .. (k + e + 1) \/ i = k + e + 2
  <2>1. CASE i <= k
    BY <1>1, <1>3, <2>1
  <2>2. CASE i > k
    <3>1. i - k \in 1 .. (e + 2) /\ k + (i - k) = i
      BY <1>1, <2>2
    <3>2. Stream[i] = EndText(i - k)
      BY <1>3, <3>1
    <3>3. i = k + 1 => i - k = 1
      OBVIOUS
    <3>4. i \in (k + 2) .. (k + e + 1) => i - k \in 2 .. (e + 1)
      BY <1>1
    <3>5. i = k + e + 2 => i - k = e + 2
      BY <1>1
    <3> QED
      BY <1>1, <1>4, <2>2, <3>2, <3>3, <3>4, <3>5
  <2> QED
    BY <2>1, <2>2
<1>7. ASSUME NEW i \in 1 .. n
      PROVE  /\ Heard[i] = CoreDigit <=> i \in (k + 2) .. (k + e + 1)
             /\ Heard[i] = "newline" => i = k + e + 2
  <2>1. i \in 1 .. (k + e + 2) /\ Heard[i] = Stream[i]
    BY <1>1, <1>2
  <2>2. i \in (k + 2) .. (k + e + 1) => ~(i <= k) /\ i # k + 1 /\ i # k + e + 2
    BY <1>1, <2>1
  <2> QED
    BY <1>5, <1>6, <2>1, <2>2
<1>8. n <= k + e + 2
  BY <1>1, <1>2
<1> QED
  BY <1>2, <1>7, <1>8 DEF n, e

\* With what follows the digits, the digits are all there.
LEMMA WholeEnd ==
    ASSUME CoreShape, NEW k \in Nat, EndAt(k), Contains(Heard, "newline")
    PROVE  Cardinality({i \in DOMAIN Heard : Heard[i] = CoreDigit}) = EndDigits
<1> DEFINE n == Len(Heard)
           e == EndDigits
           D == {i \in DOMAIN Heard : Heard[i] = CoreDigit}
<1>1. e \in Nat /\ e > 0
  BY CoreAssumption DEF CoreAssumption
<1>2. /\ n \in Nat /\ DOMAIN Heard = 1 .. n /\ n <= k + e + 2
      /\ \A i \in 1 .. n : /\ Heard[i] = CoreDigit <=> i \in (k + 2) .. (k + e + 1)
                           /\ Heard[i] = "newline" => i = k + e + 2
  BY EndPlaces
<1>3. PICK j \in 1 .. n : Heard[j] = "newline"
  BY DEF Contains
<1> HIDE DEF n, e
<1>4. n = k + e + 2
  BY <1>1, <1>2, <1>3
<1>5. (k + 2) .. (k + e + 1) \subseteq 1 .. n
  BY <1>1, <1>4
<1>6. D = (k + 2) .. (k + e + 1)
  BY <1>2, <1>5
<1>7. Cardinality((k + 2) .. (k + e + 1)) = e
  BY <1>1, FS_Interval
<1> QED
  BY <1>6, <1>7 DEF e

\* And at no time are there more.
LEMMA EndSoFar ==
    ASSUME CoreShape, NEW k \in Nat, EndAt(k), NEW b, DOMAIN b \subseteq DOMAIN Heard,
           \A i \in DOMAIN b : b[i] = Heard[i]
    PROVE  Cardinality({i \in DOMAIN b : b[i] = CoreDigit}) \in 0 .. EndDigits
<1> DEFINE e == EndDigits
           D == {i \in DOMAIN b : b[i] = CoreDigit}
           P == (k + 2) .. (k + e + 1)
<1>1. e \in Nat
  BY CoreAssumption DEF CoreAssumption
<1>2. D \subseteq P
  BY EndPlaces
<1>3. k + 2 \in Int /\ k + e + 1 \in Int /\ (k + e + 1) - (k + 2) + 1 = e
  BY <1>1
<1>4. IsFiniteSet(P) /\ Cardinality(P) = e
  <2>1. CASE k + 2 > k + e + 1
    <3>1. e = 0 /\ P = {}
      BY <1>1, <2>1
    <3> QED
      BY <3>1, FS_EmptySet
  <2>2. CASE ~(k + 2 > k + e + 1)
    BY <1>1, <1>3, <2>2, FS_Interval
  <2> QED
    BY <2>1, <2>2
<1>5. IsFiniteSet(D) /\ Cardinality(D) <= Cardinality(P)
  BY <1>2, <1>4, FS_Subset
<1>6. Cardinality(D) \in Nat
  BY <1>5, FS_CardinalityType
<1> QED
  BY <1>1, <1>4, <1>5, <1>6

\* A line typed, and a line done with: nothing that was kept is lost.
LEMMA KeptSend ==
    ASSUME CoreShape, NEW x \in Items, crTodo' = Append(crTodo, x), crDone' = crDone
    PROVE  /\ \A f : Kept(f) => Kept(f)'
           /\ \A f : x.ch = "" /\ f = x.form => Kept(f)'
<1>1. crTodo \in Seq(Items)
  BY DEF CoreShape
<1>2. /\ Len(crTodo) \in Nat /\ DOMAIN crTodo = 1 .. Len(crTodo)
      /\ DOMAIN crTodo' = 1 .. (Len(crTodo) + 1) /\ crTodo'[Len(crTodo) + 1] = x
      /\ \A i \in 1 .. Len(crTodo) : crTodo'[i] = crTodo[i]
  BY <1>1
<1>3. \A i \in DOMAIN crTodo : i \in DOMAIN crTodo' /\ crTodo'[i] = crTodo[i]
  BY <1>2
<1>4. Len(crTodo) + 1 \in DOMAIN crTodo'
  BY <1>2
<1> QED
  BY <1>2, <1>3, <1>4 DEF Kept, Queued

LEMMA TailParts ==
    ASSUME NEW S, NEW s \in Seq(S), s # <<>>
    PROVE  /\ Head(s) = s[1] /\ Head(s) \in S /\ 1 \in DOMAIN s
           /\ Tail(s) \in Seq(S) /\ Len(Tail(s)) = Len(s) - 1 /\ Len(s) \in Nat
           /\ \A i \in DOMAIN s : i # 1 => i - 1 \in DOMAIN Tail(s) /\ Tail(s)[i - 1] = s[i]
           /\ \A i \in DOMAIN Tail(s) : i + 1 \in DOMAIN s /\ Tail(s)[i] = s[i + 1]
<1> DEFINE n == Len(s)
           r == Tail(s)
<1>1. n \in Nat /\ n > 0 /\ DOMAIN s = 1 .. n
  OBVIOUS
<1>2. Head(s) = s[1] /\ Head(s) \in S
  OBVIOUS
<1>3. r \in Seq(S) /\ Len(r) = n - 1 /\ \A i \in 1 .. Len(r) : r[i] = s[i + 1]
  BY HeadTailProperties
<1> HIDE DEF n, r
<1>4. DOMAIN r = 1 .. (n - 1)
  BY <1>1, <1>3
<1>5. ASSUME NEW i \in DOMAIN s, i # 1 PROVE i - 1 \in DOMAIN r /\ r[i - 1] = s[i]
  <2>1. i \in 1 .. n /\ i - 1 \in 1 .. (n - 1) /\ (i - 1) + 1 = i
    BY <1>1, <1>5
  <2> QED
    BY <1>3, <1>4, <2>1
<1>6. ASSUME NEW i \in DOMAIN r PROVE i + 1 \in DOMAIN s /\ r[i] = s[i + 1]
  BY <1>1, <1>3, <1>4
<1> QED
  BY <1>1, <1>2, <1>3, <1>5, <1>6 DEF n, r

LEMMA TwoLines ==
    ASSUME NEW S, NEW a \in S, NEW b \in S
    PROVE  /\ <<a, b>> \in Seq(S) /\ DOMAIN <<a, b>> = {1, 2}
           /\ <<a, b>>[1] = a /\ <<a, b>>[2] = b
OBVIOUS

LEMMA KeptTail ==
    ASSUME CoreShape, crTodo # <<>>, crTodo' = Tail(crTodo), crDone \subseteq crDone',
           Head(crTodo).ch = "" => Head(crTodo).form \in crDone'
    PROVE  \A f : Kept(f) => Kept(f)'
<1>1. crTodo \in Seq(Items)
  BY DEF CoreShape
<1>2. /\ Head(crTodo) = crTodo[1]
      /\ \A i \in DOMAIN crTodo : i # 1 => i - 1 \in DOMAIN crTodo' /\ crTodo'[i - 1] = crTodo[i]
  BY <1>1, TailParts
<1>3. ASSUME NEW f, NEW i \in DOMAIN crTodo, crTodo[i].ch = "", crTodo[i].form = f
      PROVE  Kept(f)'
  <2>1. CASE i = 1
    BY <1>2, <1>3, <2>1 DEF Kept
  <2>2. CASE i # 1
    <3>1. i - 1 \in DOMAIN crTodo' /\ crTodo'[i - 1] = crTodo[i]
      BY <1>2, <2>2
    <3> QED
      BY <1>3, <3>1 DEF Kept, Queued
  <2> QED
    BY <2>1, <2>2
<1> QED
  BY <1>3 DEF Kept, Queued

-----------------------------------------------------------------------------
(* The script's steps. *)

LEMMA CoreStartKeeps ==
    ASSUME CoreInv, CoreStart
    PROVE  CoreInv'
<1> DEFINE p == [id |-> 0, form |-> <<"print", 0>>, ch |-> "v"]
           q == [id |-> 0, form |-> Install, ch |-> ""]
<1>1. /\ csPc = "idle" /\ csPc' \in {"probe", "push"} /\ crTodo' = <<p, q>>
      /\ UNCHANGED <<csSent, csWait, csLines, csBuf, csEnd, csLate, csExit, crOut, crDone, crCore>>
  BY DEF CoreStart
<1>2. /\ p \in Items /\ q \in Items /\ p.ch = "v" /\ q.ch = "" /\ q.form = Install
      /\ p.form # SaveForm /\ q.form # SaveForm
  <2>1. <<"print", 0>> \in CoreLines /\ Install \in CoreLines
    BY DEF Install, CoreLines
  <2>2. <<"print", 0>> # SaveForm /\ Install # SaveForm
    BY DEF Install, SaveForm
  <2>3. "v" \in CoreChars /\ "" \in CoreChars
    BY DEF CoreChars
  <2> QED
    BY <2>1, <2>2, <2>3 DEF Items
<1> HIDE DEF p, q
<1>3. crTodo' \in Seq(Items) /\ DOMAIN crTodo' = {1, 2} /\ crTodo'[1] = p /\ crTodo'[2] = q
  <2>1. p \in Items /\ q \in Items
    BY <1>2
  <2>2. /\ <<p, q>> \in Seq(Items) /\ DOMAIN <<p, q>> = {1, 2}
        /\ <<p, q>>[1] = p /\ <<p, q>>[2] = q
    BY <2>1, TwoLines
  <2> QED
    BY <1>1, <2>2, Zenon
<1>4. csExit # 0 /\ CoreShape /\ Unsaved
  BY <1>1 DEF CoreInv, Saved
<1>5. Kept(Install)'
  BY <1>2, <1>3 DEF Kept, Queued
<1>6. csSent = 0
  BY <1>1, <1>4 DEF CoreShape
<1>7. CoreShape'
  BY <1>1, <1>3, <1>4 DEF CoreShape
<1>8. TypedKept'
  BY <1>1, <1>5, <1>6 DEF TypedKept
<1>9. \A i \in DOMAIN crTodo' : crTodo'[i] \in {p, q}
  BY <1>3
<1>10. Unsaved'
  BY <1>1, <1>2, <1>4, <1>9 DEF Unsaved, SaveLast
<1> QED
  BY <1>1, <1>4, <1>7, <1>8, <1>10 DEF CoreInv

LEMMA AppendParts ==
    ASSUME NEW S, NEW s \in Seq(S), NEW x \in S
    PROVE  /\ Append(s, x) \in Seq(S) /\ Len(Append(s, x)) = Len(s) + 1 /\ Len(s) \in Nat
           /\ \A i \in DOMAIN Append(s, x) :
                \/ i \in DOMAIN s /\ i # Len(s) + 1 /\ Append(s, x)[i] = s[i]
                \/ i = Len(s) + 1 /\ Append(s, x)[i] = x
OBVIOUS

LEMMA CoreSendKeeps ==
    ASSUME CoreInv, CoreSend
    PROVE  CoreInv'
<1> DEFINE x == [id |-> csLines, form |-> NextForm, ch |-> ""]
<1>1. /\ csPc \in {"probe", "push", "eager", "save"}
      /\ crTodo' = Append(crTodo, x) /\ csLines' = csLines + 1 /\ csWait' = csLines
      /\ csPc' = IF csPc = "save" THEN "end" ELSE csPc
      /\ csSent' = IF csPc \in {"probe", "push"} THEN csSent + 1 ELSE csSent
      /\ UNCHANGED <<csKind, csBuf, csEnd, csLate, csExit, crOut, crDone, crCore>>
  BY DEF CoreSend, Send
<1>2. CoreShape /\ TypedKept /\ Unsaved /\ csExit # 0
  BY <1>1 DEF CoreInv, Saved
<1>3. crTodo \in Seq(Items) /\ csSent \in Nat /\ csLines \in Nat
  BY <1>2 DEF CoreShape
<1>4. NextForm \in CoreLines /\ (csPc # "save" => NextForm # SaveForm)
  <2>1. CASE csPc = "probe"
    BY <1>3, <2>1 DEF NextForm, CoreLines, SaveForm
  <2>2. CASE csPc = "push"
    BY <1>3, <2>2 DEF NextForm, CoreLines, SaveForm
  <2>3. CASE csPc = "eager"
    BY <2>3 DEF NextForm, CoreLines, SaveForm, Eager
  <2>4. CASE csPc = "save"
    BY <2>4 DEF NextForm, CoreLines, SaveForm
  <2> QED
    BY <1>1, <2>1, <2>2, <2>3, <2>4
<1>5. x \in Items /\ x.ch = "" /\ x.form = NextForm
  BY <1>3, <1>4 DEF Items, CoreChars
<1> HIDE DEF x
<1>6. /\ crTodo' \in Seq(Items) /\ Len(crTodo') = Len(crTodo) + 1
      /\ \A i \in DOMAIN crTodo' : \/ i \in DOMAIN crTodo /\ crTodo'[i] = crTodo[i]
                                   \/ i = Len(crTodo) + 1 /\ crTodo'[i] = x
  BY <1>1, <1>3, <1>5, AppendParts
<1>7. (\A f : Kept(f) => Kept(f)') /\ (\A f : f = NextForm => Kept(f)')
  BY <1>1, <1>2, <1>5, KeptSend
<1>8. CoreShape'
  BY <1>1, <1>2, <1>6 DEF CoreShape
<1>9. TypedKept'
  <2>1. Kept(Install)'
    BY <1>1, <1>2, <1>7 DEF TypedKept
  <2>2. csPc = "push" => \A n \in 1 .. (csSent + 1) : Kept(<<"push", n>>)'
    <3>1. csPc = "push" => NextForm = <<"push", csSent + 1>>
      BY DEF NextForm
    <3>2. csPc = "push" => \A n \in 1 .. csSent : Kept(<<"push", n>>)'
      BY <1>2, <1>7 DEF TypedKept
    <3>3. \A n \in 1 .. (csSent + 1) : n \in 1 .. csSent \/ n = csSent + 1
      BY <1>3
    <3>4. csPc = "push" => \A n \in 1 .. (csSent + 1) : n = csSent + 1 => Kept(<<"push", n>>)'
      BY <1>7, <3>1
    <3> QED
      BY <3>2, <3>3, <3>4
  <2>3. csPc = "eager" => (\A f \in Pushed : Kept(f)') /\ Kept(Eager)'
    <3>1. csPc = "eager" => NextForm = Eager
      BY DEF NextForm
    <3>2. csPc = "eager" => \A f : f = Eager => Kept(f)'
      BY <1>7, <3>1
    <3>3. csPc = "eager" => \A f \in Pushed : Kept(f)'
      BY <1>2, <1>7 DEF TypedKept
    <3> QED
      BY <3>2, <3>3 DEF Eager
  <2> QED
    BY <1>1, <2>1, <2>2, <2>3 DEF TypedKept
<1>10. csPc = "save" => \A f \in Needed : Kept(f)'
  BY <1>2, <1>7 DEF TypedKept, Needed
<1>11. \A i \in DOMAIN crTodo : crTodo[i].form # SaveForm
  BY <1>1, <1>2 DEF Unsaved, SaveLast
<1>12. SaveLast'
  <2>1. ASSUME NEW i \in DOMAIN crTodo', crTodo'[i].form = SaveForm
        PROVE  i = Len(crTodo') /\ csPc = "save"
    BY <1>1, <1>4, <1>5, <1>6, <1>11, <2>1
  <2> QED
    BY <1>1, <1>10, <2>1 DEF SaveLast
<1>13. Unsaved'
  <2>1. \A i \in DOMAIN crTodo' : crTodo'[i].ch \in {"", "v"}
    BY <1>2, <1>5, <1>6 DEF Unsaved
  <2> QED
    BY <1>1, <1>2, <1>12, <2>1 DEF Unsaved
<1> QED
  BY <1>1, <1>2, <1>8, <1>9, <1>13 DEF CoreInv

LEMMA PushDoneKeeps ==
    ASSUME CoreInv, PushDone
    PROVE  CoreInv'
<1>1. /\ csPc = "push" /\ csWait = 0 /\ csSent = CoreForms /\ csPc' = "eager"
      /\ UNCHANGED <<csKind, csSent, csWait, csLines, csBuf, csEnd, csLate, csExit, crTodo, crOut,
                     crDone, crCore>>
  BY DEF PushDone
<1>2. CoreShape /\ TypedKept /\ Unsaved /\ csExit # 0
  BY <1>1 DEF CoreInv, Saved
<1>3. \A f : Kept(f)' <=> Kept(f)
  BY <1>1 DEF Kept, Queued
<1>4. \A f \in Pushed : Kept(f)
  BY <1>1, <1>2 DEF TypedKept, Pushed
<1>5. TypedKept'
  BY <1>1, <1>2, <1>3, <1>4 DEF TypedKept
<1>6. Unsaved'
  BY <1>1, <1>2 DEF Unsaved, SaveLast
<1>7. CoreShape'
  BY <1>1, <1>2 DEF CoreShape
<1> QED
  BY <1>1, <1>2, <1>5, <1>6, <1>7 DEF CoreInv

LEMMA CoreWaitedKeeps ==
    ASSUME CoreInv, CoreWaited
    PROVE  CoreInv'
<1>1. /\ csPc \in {"probe", "push", "eager"} /\ csWait # 0 /\ csWait' = 0 /\ crOut' = <<>>
      /\ UNCHANGED <<csKind, csLines, csBuf, csEnd, csCount, csLate, crTodo, crDone, crCore>>
  BY DEF CoreWaited
<1>2. CoreShape /\ TypedKept /\ Unsaved /\ csExit # 0
  BY <1>1 DEF CoreInv, Saved
<1>3. \/ csPc = "probe" /\ csPc' = "push" /\ csSent' = 0 /\ UNCHANGED csExit
      \/ csPc' = "done" /\ csExit' = 1 /\ UNCHANGED csSent
      \/ csPc = "eager" /\ csPc' = "save" /\ UNCHANGED <<csSent, csExit>>
      \/ csPc \in {"probe", "push"} /\ UNCHANGED <<csPc, csSent, csExit>>
  <2>1. CASE csPc = "probe" /\ Answered(crOut)
    BY <2>1 DEF CoreWaited
  <2>2. CASE csPc = "probe" /\ ~Answered(crOut) /\ OutOfProbes
    BY <2>2 DEF CoreWaited, CoreFinish
  <2>3. CASE csPc = "probe" /\ ~Answered(crOut) /\ ~OutOfProbes
    BY <2>3 DEF CoreWaited
  <2>4. CASE csPc = "push"
    BY <2>4 DEF CoreWaited
  <2>5. CASE csPc = "eager"
    BY <2>5 DEF CoreWaited
  <2> QED
    BY <1>1, <2>1, <2>2, <2>3, <2>4, <2>5
<1>4. \A f : Kept(f)' <=> Kept(f)
  BY <1>1 DEF Kept, Queued
<1>5. csSent' \in Nat /\ csPc' # "idle" /\ csPc' # "dump" /\ csExit' # 0
  BY <1>1, <1>2, <1>3 DEF CoreShape
<1>6. CoreShape'
  BY <1>1, <1>2, <1>5 DEF CoreShape
<1>7. TypedKept'
  <2>1. csPc' = "push" => \A n \in 1 .. csSent' : Kept(<<"push", n>>)
    <3>1. CASE csSent' = 0
      BY <3>1
    <3>2. CASE csSent' # 0
      BY <1>1, <1>2, <1>3, <3>2 DEF TypedKept
    <3> QED
      BY <3>1, <3>2
  <2>2. csPc' \in {"eager", "save"} => csPc = "eager"
    BY <1>1, <1>3
  <2> QED
    BY <1>1, <1>2, <1>4, <2>1, <2>2 DEF TypedKept
<1>8. Unsaved'
  <2>1. \A i \in DOMAIN crTodo : crTodo[i].form # SaveForm
    BY <1>1, <1>2 DEF Unsaved, SaveLast
  <2>2. \A i \in DOMAIN crOut' : crOut'[i].ch = "v"
    BY <1>1
  <2>3. SaveLast'
    BY <1>1, <2>1 DEF SaveLast
  <2> QED
    BY <1>1, <1>2, <1>5, <2>2, <2>3 DEF Unsaved
<1> QED
  BY <1>5, <1>6, <1>7, <1>8 DEF CoreInv

\* Before the save there is no end of a core to be found in what was read.
LEMMA NoEndYet ==
    ASSUME NEW buf \in Seq(CoreChars), \A i \in DOMAIN buf : buf[i] = "v"
    PROVE  ~QsavePattern(buf)
<1>1. DOMAIN buf = 1 .. Len(buf)
  OBVIOUS
<1> QED
  BY <1>1 DEF QsavePattern, Contains, CoreMark

LEMMA CoreReadKeeps ==
    ASSUME CoreInv, CoreRead
    PROVE  CoreInv'
<1>1. /\ csPc = "end" /\ csBuf' = Heard /\ crOut' = <<>>
      /\ IF Matches(Heard)
         THEN /\ csPc' = "dump" /\ csEnd' = DigitsOf(Heard)
              /\ csCount' = (csKind = "qcore" /\ DigitsOf(Heard) < EndDigits)
         ELSE UNCHANGED <<csPc, csEnd, csCount>>
      /\ UNCHANGED <<csKind, csSent, csWait, csLines, csLate, csExit, crTodo, crDone, crCore>>
  BY DEF CoreRead, TakeEnd, Heard, HeardOf, TextsOf
<1>2. CoreShape /\ TypedKept /\ (Unsaved \/ Saved) /\ csExit # 0
  BY <1>1 DEF CoreInv
<1>3. Heard \in Seq(CoreChars)
  BY <1>2, HeardShape
<1>4. CoreShape'
  BY <1>1, <1>2, <1>3 DEF CoreShape
<1>5. \A f : Kept(f)' <=> Kept(f)
  BY <1>1 DEF Kept, Queued
<1>6. csPc' \in {"end", "dump"}
  BY <1>1
<1>7. TypedKept'
  BY <1>1, <1>2, <1>5, <1>6 DEF TypedKept
<1>8. CASE Unsaved
  <2>1. \A i \in DOMAIN Heard : Heard[i] = "v"
    BY <1>2, <1>8, HeardShape DEF Unsaved
  <2>2. ~Matches(Heard)
    BY <1>3, <2>1, NoEndYet DEF Matches, QcorePattern
  <2>3. csPc' = csPc
    BY <1>1, <2>2
  <2>4. \A i \in DOMAIN crOut' : crOut'[i].ch = "v"
    BY <1>1
  <2>5. SaveLast'
    BY <1>1, <1>5, <1>8, <2>3 DEF Unsaved, SaveLast
  <2>6. Unsaved'
    BY <1>1, <1>8, <2>1, <2>3, <2>4, <2>5 DEF Unsaved
  <2> QED
    BY <1>1, <1>2, <1>4, <1>7, <2>3, <2>6 DEF CoreInv
<1>9. CASE Saved
  <2>1. PICK k \in Nat : EndAt(k)
    BY <1>1, <1>9 DEF Saved
  <2>2. Stream' = Stream
    <3>1. HeardOf(Heard, <<>>) = Heard
      <4>1. TextsOf(<<>>) = <<>>
        BY DEF TextsOf
      <4>2. Heard \o <<>> = Heard
        BY <1>3, ConcatEmptySeq
      <4> QED
        BY <4>1, <4>2 DEF HeardOf
    <3> QED
      BY <1>1, <3>1 DEF Stream, StreamOf, Heard
  <2>3. EndAt(k)'
    BY <2>1, <2>2 DEF EndAt
  <2>4. Saved'
    BY <1>1, <1>6, <1>9, <2>3 DEF Saved
  <2>5. csPc' = "dump" => EndTaken'
    <3>1. ASSUME Matches(Heard), csKind = "qcore" PROVE csEnd' = EndDigits /\ ~csCount'
      <4>1. Contains(Heard, "newline")
        BY <3>1 DEF Matches, QcorePattern
      <4>2. DigitsOf(Heard) = EndDigits
        BY <1>2, <2>1, <4>1, WholeEnd DEF DigitsOf
      <4>3. ~(DigitsOf(Heard) < EndDigits)
        BY <4>2, CoreAssumption DEF CoreAssumption
      <4>4. /\ csEnd' = DigitsOf(Heard)
            /\ csCount' = (csKind = "qcore" /\ DigitsOf(Heard) < EndDigits)
        BY <1>1, <3>1
      <4> QED
        BY <4>2, <4>3, <4>4
    <3> QED
      BY <1>1, <3>1 DEF EndTaken
  <2> QED
    BY <1>1, <1>2, <1>4, <1>7, <2>4, <2>5 DEF CoreInv
<1> QED
  BY <1>2, <1>8, <1>9

LEMMA NoCoreEndKeeps ==
    ASSUME CoreInv, NoCoreEnd
    PROVE  CoreInv'
<1>1. /\ csPc = "end" /\ csLate' = TRUE
      /\ IF QsavePattern(csBuf) THEN csPc' = "dump" /\ UNCHANGED csExit
                                ELSE csPc' = "done" /\ csExit' = 1
      /\ UNCHANGED <<csKind, csSent, csWait, csLines, csBuf, crTodo, crOut, crDone, crCore>>
  BY DEF NoCoreEnd, TakeEnd, CoreFinish
<1>2. CoreShape /\ TypedKept /\ (Unsaved \/ Saved) /\ csExit # 0
  BY <1>1 DEF CoreInv
<1>3. csPc' \in {"dump", "done"} /\ csExit' # 0
  BY <1>1, <1>2
<1>4. CoreShape'
  BY <1>1, <1>2, <1>3 DEF CoreShape
<1>5. \A f : Kept(f)' <=> Kept(f)
  BY <1>1 DEF Kept, Queued
<1>6. TypedKept'
  BY <1>1, <1>2, <1>3, <1>5 DEF TypedKept
<1>7. EndTaken'
  BY <1>1 DEF EndTaken
<1>8. CASE Unsaved
  <2>1. ~QsavePattern(csBuf)
    BY <1>2, <1>8, NoEndYet DEF Unsaved, CoreShape
  <2>2. csPc' = "done"
    BY <1>1, <2>1
  <2>3. SaveLast'
    BY <1>1, <1>5, <1>8, <2>2 DEF Unsaved, SaveLast
  <2>4. Unsaved'
    BY <1>1, <1>8, <2>2, <2>3 DEF Unsaved
  <2> QED
    BY <1>3, <1>4, <1>6, <2>2, <2>4 DEF CoreInv
<1>9. CASE Saved
  <2>1. Saved'
    BY <1>1, <1>3, <1>9 DEF Saved
  <2> QED
    BY <1>3, <1>4, <1>6, <1>7, <2>1 DEF CoreInv
<1> QED
  BY <1>2, <1>8, <1>9

LEMMA GdbDumpKeeps ==
    ASSUME CoreInv, GdbDump
    PROVE  CoreInv'
<1>1. /\ csPc = "dump" /\ csPc' = "done"
      /\ UNCHANGED <<csKind, csSent, csWait, csLines, csBuf, csEnd, csCount, csLate, crTodo, crOut, crDone, crCore>>
  BY DEF GdbDump, CoreFinish
<1>2. CoreShape /\ TypedKept /\ Saved /\ EndTaken
  BY <1>1 DEF CoreInv, Unsaved
<1>3. CoreShape'
  BY <1>1, <1>2 DEF CoreShape
<1>4. \A f : Kept(f)' <=> Kept(f)
  BY <1>1 DEF Kept, Queued
<1>5. TypedKept'
  BY <1>1, <1>2, <1>4 DEF TypedKept
<1>6. Saved' /\ EndTaken'
  BY <1>1, <1>2 DEF Saved, EndTaken
<1> QED
  BY <1>1, <1>3, <1>5, <1>6 DEF CoreInv

-----------------------------------------------------------------------------
(* The REPL's step: the save, another line, a character. *)

ReplSave ==
    /\ crTodo # <<>> /\ Head(crTodo).ch = "" /\ Head(crTodo).form = SaveForm
    /\ crCore' = crDone /\ crTodo' = Chars(Head(crTodo).id) \o Tail(crTodo)
    /\ UNCHANGED <<crOut, crDone, csScript>>

LEMMA ReplSaves ==
    ASSUME CoreInv, ReplSave
    PROVE  CoreInv'
<1> DEFINE id == Head(crTodo).id
           n == EndDigits + 2
<1>1. UNCHANGED <<csPc, csKind, csSent, csWait, csLines, csBuf, csEnd, csLate, csExit, crOut, crDone>>
      /\ crTodo # <<>> /\ Head(crTodo).ch = "" /\ Head(crTodo).form = SaveForm
      /\ crCore' = crDone
  BY DEF ReplSave, csScript
<1>2. CoreShape /\ TypedKept
  BY DEF CoreInv
<1>3. crTodo \in Seq(Items) /\ 1 \in DOMAIN crTodo /\ crTodo[1] = Head(crTodo)
      /\ Head(crTodo) \in Items /\ Tail(crTodo) \in Seq(Items) /\ Len(Tail(crTodo)) = Len(crTodo) - 1
  BY <1>1, <1>2, TailParts DEF CoreShape
<1>4. ~Saved /\ Unsaved
  BY <1>1, <1>3 DEF CoreInv, Saved
<1>5. Len(crTodo) = 1 /\ csPc \in {"end", "done"} /\ \A f \in Needed : Kept(f)
  BY <1>1, <1>3, <1>4 DEF Unsaved, SaveLast
<1>6. Needed \subseteq crDone
  <2>1. SaveForm \notin Needed
    BY DEF SaveForm, Needed, Pushed, Eager, Install
  <2>2. ASSUME NEW f \in Needed, Queued(f) PROVE f = SaveForm
    <3>1. PICK i \in DOMAIN crTodo : crTodo[i].form = f
      BY <2>2 DEF Queued
    <3>2. i = 1
      <4>1. DOMAIN crTodo = 1 .. Len(crTodo)
        BY <1>3
      <4>2. i \in 1 .. 1
        BY <1>5, <4>1
      <4> QED
        BY <4>2
    <3> QED
      BY <1>1, <1>3, <3>1, <3>2
  <2> QED
    BY <1>5, <2>1, <2>2 DEF Kept
<1>7. /\ Chars(id) \in Seq(Items) /\ Len(Chars(id)) = n /\ n \in Nat
      /\ \A i \in 1 .. n : Chars(id)[i].ch = EndText(i)
  <2>1. EndDigits \in Nat /\ id \in Nat
    BY <1>3, CoreAssumption DEF CoreAssumption, Items
  <2>2. <<"print", 0>> \in CoreLines
    BY DEF CoreLines
  <2>3. \A i \in 1 .. n : EndText(i) \in CoreChars
    BY DEF EndText, CoreChars
  <2> HIDE DEF id
  <2>4. \A i \in 1 .. n : [id |-> id, form |-> <<"print", 0>>, ch |-> EndText(i)] \in Items
    BY <2>1, <2>2, <2>3 DEF Items
  <2>5. Chars(id) = [i \in 1 .. n |-> [id |-> id, form |-> <<"print", 0>>, ch |-> EndText(i)]]
    BY DEF Chars, EndText
  <2>6. n \in Nat
    BY <2>1
  <2> HIDE DEF n
  <2> DEFINE F == [i \in 1 .. n |-> [id |-> id, form |-> <<"print", 0>>, ch |-> EndText(i)]]
  <2>7. \A i \in 1 .. n : F[i] \in Items /\ F[i].ch = EndText(i)
    BY <2>4
  <2>8. F \in [1 .. n -> Items]
    BY <2>4
  <2>9. Chars(id) = F
    BY <2>5
  <2> HIDE DEF F
  <2>10. F \in Seq(Items) /\ Len(F) = n
    BY <2>6, <2>8
  <2> QED
    BY <2>6, <2>7, <2>9, <2>10
<1> HIDE DEF id, n
<1>8. crTodo' = Chars(id)
  <2>1. Tail(crTodo) = <<>>
    <3> DEFINE t == Tail(crTodo)
    <3>1. t \in Seq(Items) /\ Len(t) = 0
      BY <1>3, <1>5
    <3> HIDE DEF t
    <3>2. t = <<>>
      BY <3>1, EmptySeq
    <3> QED
      BY <3>2 DEF t
  <2> QED
    BY <1>7, <2>1, ConcatEmptySeq DEF id, ReplSave
<1>9. crTodo' \in Seq(Items) /\ DOMAIN crTodo' = 1 .. n /\ Len(crTodo') = n
      /\ \A i \in 1 .. n : crTodo'[i].ch = EndText(i)
  <2> DEFINE c == Chars(id)
  <2>1. c \in Seq(Items) /\ Len(c) = n /\ n \in Nat /\ \A i \in 1 .. n : c[i].ch = EndText(i)
    BY <1>7
  <2>2. crTodo' = c
    BY <1>8
  <2> HIDE DEF c
  <2>3. DOMAIN c = 1 .. n
    BY <2>1
  <2> QED
    BY <2>1, <2>2, <2>3, Zenon
<1>10. CoreShape'
  BY <1>1, <1>2, <1>9 DEF CoreShape
<1>11. TypedKept'
  <2>1. Install \in crDone
    BY <1>6 DEF Needed
  <2>2. Kept(Install)'
    BY <1>1, <2>1 DEF Kept, Install
  <2> QED
    BY <1>1, <1>5, <2>2 DEF TypedKept
<1>12. \E k \in Nat : EndAt(k)'
  <2> DEFINE k == Len(Heard)
  <2>1. Heard' = Heard /\ Heard \in Seq(CoreChars) /\ k \in Nat /\ DOMAIN Heard = 1 .. k
    <3>1. Heard' = Heard
      BY <1>1 DEF Heard
    <3>2. Heard \in Seq(CoreChars)
      BY <1>2, HeardShape
    <3>3. ASSUME NEW h \in Seq(CoreChars) PROVE Len(h) \in Nat /\ DOMAIN h = 1 .. Len(h)
      OBVIOUS
    <3> QED
      BY <3>1, <3>2, <3>3
  <2>2. /\ Len(Stream') = k + n
        /\ \A i \in 1 .. k : Stream'[i] = Heard[i]
        /\ \A i \in 1 .. n : Stream'[k + i] = EndText(i)
    <3>1. /\ Len(StreamOf(csBuf, crOut, crTodo')) = k + n
          /\ \A i \in 1 .. k : StreamOf(csBuf, crOut, crTodo')[i] = Heard[i]
          /\ \A i \in 1 .. n : StreamOf(csBuf, crOut, crTodo')[k + i] = crTodo'[i].ch
      BY <1>2, <1>9, StreamShape DEF Heard, CoreShape
    <3>2. Stream' = StreamOf(csBuf, crOut, crTodo')
      BY <1>1 DEF Stream
    <3> QED
      BY <1>9, <3>1, <3>2
  <2>3. \A i \in 1 .. k : Heard[i] = "v"
    <3>1. \A i \in DOMAIN Heard : Heard[i] = "v"
      BY <1>2, <1>4, HeardShape DEF Unsaved
    <3>2. DOMAIN Heard = 1 .. k
      BY <2>1
    <3> QED
      BY <3>1, <3>2
  <2>4. k + n = k + EndDigits + 2
    <3>1. n = EndDigits + 2 /\ EndDigits \in Nat
      BY CoreAssumption DEF CoreAssumption, n
    <3> QED
      BY <2>1, <3>1
  <2> HIDE DEF k
  <2>5. ASSUME NEW j \in Nat, j = k PROVE EndAt(j)'
    BY <2>2, <2>3, <2>4, <2>5 DEF EndAt, n
  <2> QED
    BY <2>1, <2>5
<1>13. Saved'
  <2>1. \A i \in DOMAIN crTodo' : crTodo'[i].ch # ""
    BY <1>9 DEF EndText, CoreMark, CoreDigit
  <2> QED
    BY <1>1, <1>5, <1>6, <1>12, <2>1 DEF Saved
<1>14. csExit # 0
  BY <1>4 DEF CoreInv
<1> QED
  BY <1>1, <1>5, <1>10, <1>11, <1>13, <1>14 DEF CoreInv

\* The queue without its first line.
LEMMA SaveLastTail ==
    ASSUME CoreShape, SaveLast, crTodo # <<>>, crTodo' = Tail(crTodo), UNCHANGED csPc,
           \A f : Kept(f) => Kept(f)'
    PROVE  SaveLast'
<1>1. /\ crTodo' \in Seq(Items) /\ Len(crTodo') = Len(crTodo) - 1 /\ Len(crTodo) \in Nat
      /\ \A i \in DOMAIN crTodo' : i + 1 \in DOMAIN crTodo /\ crTodo'[i] = crTodo[i + 1]
  BY TailParts DEF CoreShape
<1>2. ASSUME NEW i \in DOMAIN crTodo', crTodo'[i].form = SaveForm
      PROVE  i = Len(crTodo') /\ csPc \in {"end", "done"} /\ \A f \in Needed : Kept(f)'
  <2>1. i + 1 = Len(crTodo) /\ csPc \in {"end", "done"} /\ \A f \in Needed : Kept(f)
    BY <1>1, <1>2 DEF SaveLast
  <2>2. i \in Int
    BY <1>1
  <2> QED
    BY <1>1, <2>1, <2>2
<1> QED
  BY <1>2 DEF SaveLast

LEMMA ReplPrintsText ==
    ASSUME CoreInv, crTodo # <<>>, crTodo' = Tail(crTodo),
           NEW c \in CoreChars, crOut' = Append(crOut, [id |-> Head(crTodo).id, ch |-> c]),
           \/ Head(crTodo).ch = "" /\ c = "v" /\ crDone' = crDone \cup {Head(crTodo).form}
           \/ Head(crTodo).ch # "" /\ c = Head(crTodo).ch /\ crDone' = crDone,
           UNCHANGED <<crCore, csScript>>
    PROVE  CoreInv'
<1>1. UNCHANGED <<csPc, csKind, csSent, csWait, csLines, csBuf, csEnd, csCount, csLate, csExit>>
  BY DEF csScript
<1>2. CoreShape /\ TypedKept /\ (Unsaved \/ Saved)
  BY DEF CoreInv
<1>3. /\ crTodo[1] = Head(crTodo) /\ 1 \in DOMAIN crTodo /\ Head(crTodo) \in Items
      /\ crTodo' \in Seq(Items)
      /\ \A i \in DOMAIN crTodo' : i + 1 \in DOMAIN crTodo /\ crTodo'[i] = crTodo[i + 1]
  BY <1>2, TailParts DEF CoreShape
<1>4. Head(crTodo).id \in Nat
  BY <1>3 DEF Items
<1>5. [id |-> Head(crTodo).id, ch |-> c] \in Prints /\ [id |-> Head(crTodo).id, ch |-> c].ch = c
  BY <1>4 DEF Prints
<1>6. /\ crOut' \in Seq(Prints)
      /\ \A i \in DOMAIN crOut' :
           (i \in DOMAIN crOut /\ crOut'[i] = crOut[i]) \/ crOut'[i].ch = c
  <2> DEFINE x == [id |-> Head(crTodo).id, ch |-> c]
  <2>1. x \in Prints /\ x.ch = c /\ crOut' = Append(crOut, x) /\ crOut \in Seq(Prints)
    BY <1>2, <1>5 DEF CoreShape
  <2> HIDE DEF x
  <2> DEFINE a == Append(crOut, x)
  <2>2. /\ a \in Seq(Prints)
        /\ \A i \in DOMAIN a : (i \in DOMAIN crOut /\ a[i] = crOut[i]) \/ a[i] = x
    BY <2>1, AppendParts
  <2>3. crOut' = a
    BY <2>1
  <2> HIDE DEF a
  <2> QED
    BY <2>1, <2>2, <2>3
<1>7. CoreShape'
  BY <1>1, <1>2, <1>3, <1>6 DEF CoreShape
<1>8. \A f : Kept(f) => Kept(f)'
  BY <1>2, KeptTail
<1>9. TypedKept'
  BY <1>1, <1>2, <1>8 DEF TypedKept
<1>10. CASE Unsaved
  <2>1. c = "v"
    BY <1>3, <1>10 DEF Unsaved
  <2>2. SaveLast'
    BY <1>1, <1>2, <1>8, <1>10, SaveLastTail DEF Unsaved
  <2>3. Unsaved'
    BY <1>1, <1>3, <1>6, <1>10, <2>1, <2>2 DEF Unsaved
  <2>4. csExit = 0 => Saved /\ Saved'
    BY <1>1, <1>3, <1>10 DEF CoreInv, Saved
  <2> QED
    BY <1>1, <1>7, <1>9, <2>3, <2>4 DEF CoreInv, EndTaken
<1>11. CASE Saved
  <2>1. Head(crTodo).ch # "" /\ c = Head(crTodo).ch
    BY <1>3, <1>11 DEF Saved
  <2>2. Stream' = Stream
    BY <1>1, <1>2, <1>4, <2>1, StreamPrints
  <2>3. \A k \in Nat : EndAt(k) => EndAt(k)'
    BY <2>2 DEF EndAt
  <2>4. Saved'
    BY <1>1, <1>3, <1>11, <2>3 DEF Saved
  <2> QED
    BY <1>1, <1>7, <1>9, <2>4 DEF CoreInv, EndTaken
<1> QED
  BY <1>2, <1>10, <1>11

LEMMA CoreReplKeeps ==
    ASSUME CoreInv, CoreRepl
    PROVE  CoreInv'
<1> DEFINE line == Head(crTodo)
<1>1. crTodo # <<>> /\ UNCHANGED csScript
  BY DEF CoreRepl
<1>2. line \in Items /\ line.ch \in CoreChars
  <2>1. crTodo \in Seq(Items)
    BY DEF CoreInv, CoreShape
  <2>2. line \in Items
    BY <1>1, <2>1, TailParts
  <2> QED
    BY <2>2 DEF Items
<1>3. CASE line.ch = "" /\ line.form = SaveForm
  BY <1>1, <1>3, ReplSaves DEF CoreRepl, ReplSave
<1>4. CASE line.ch = "" /\ line.form # SaveForm
  <2>1. "v" \in CoreChars
    BY DEF CoreChars
  <2>2. /\ crDone' = crDone \cup {line.form} /\ crOut' = Append(crOut, [id |-> line.id, ch |-> "v"])
        /\ crTodo' = Tail(crTodo) /\ UNCHANGED crCore
    BY <1>4 DEF CoreRepl
  <2> QED
    BY <1>1, <1>4, <2>1, <2>2, ReplPrintsText
<1>5. CASE line.ch # ""
  <2>1. /\ crOut' = Append(crOut, [id |-> line.id, ch |-> line.ch])
        /\ crTodo' = Tail(crTodo) /\ UNCHANGED <<crDone, crCore>>
    BY <1>5 DEF CoreRepl
  <2> QED
    BY <1>1, <1>2, <1>5, <2>1, ReplPrintsText
<1> QED
  BY <1>3, <1>4, <1>5

\* What was typed is kept, and what was read is of one stream, at all times.
LEMMA CoreHolds == CoreSpec => []CoreInv
<1>1. CoreInit => CoreInv
  <2> SUFFICES ASSUME CoreInit PROVE CoreInv
    OBVIOUS
  <2>1. CoreShape /\ TypedKept
    BY DEF CoreInit, CoreShape, TypedKept
  <2>2. Unsaved
    BY DEF CoreInit, Unsaved, SaveLast
  <2> QED
    BY <2>1, <2>2 DEF CoreInit, CoreInv
<1>2. CoreInv /\ [CoreNext]_csVars => CoreInv'
  <2> SUFFICES ASSUME CoreInv, [CoreNext]_csVars PROVE CoreInv'
    OBVIOUS
  <2>1. CASE UNCHANGED csVars
    <3>1. UNCHANGED <<csPc, csKind, csSent, csWait, csLines, csBuf, csEnd, csCount, csLate, csExit,
                      crTodo, crOut, crDone, crCore>>
      BY <2>1 DEF csVars, csScript
    <3>2. \A f : Kept(f)' <=> Kept(f)
      BY <3>1 DEF Kept, Queued
    <3>3. TypedKept' /\ CoreShape'
      BY <3>1, <3>2 DEF CoreInv, TypedKept, CoreShape
    <3>4. (Unsaved => Unsaved') /\ (EndTaken => EndTaken')
      BY <3>1, <3>2 DEF Unsaved, SaveLast, EndTaken
    <3>5. Saved => Saved'
      <4>1. Stream' = Stream
        BY <3>1 DEF Stream
      <4> QED
        BY <3>1, <4>1 DEF Saved, EndAt
    <3> QED
      BY <3>1, <3>3, <3>4, <3>5 DEF CoreInv
  <2> QED
    BY <2>1, CoreStartKeeps, CoreSendKeeps, PushDoneKeeps, CoreWaitedKeeps, CoreReadKeeps,
       NoCoreEndKeeps, GdbDumpKeeps, CoreReplKeeps DEF CoreNext, CoreScript
<1> QED
  BY <1>1, <1>2, PTL DEF CoreSpec

\* qsave.py and qcore.py, for any number of forms, probes and digits: a dumped
\* core holds everything that was typed before the save, and qcore's dump ends
\* where the core does as long as its wait lasted.
THEOREM CoreIsTheSession == CoreSpec => []CoreHoldsTheSession
<1>1. CoreInv => CoreHoldsTheSession
  BY DEF CoreInv, CoreHoldsTheSession, Saved, Needed, EndTaken
<1> QED
  BY <1>1, CoreHolds, PTL

-----------------------------------------------------------------------------
(* The shape of the state of qsave.py and qcore.py: a probe that is sent is  *)
(* one of those left, a form one of the list, and an end is never read with  *)
(* more digits than the core printed.                                        *)

CoreSteps ==
    /\ csSent \in 0..Probes \cup 0..CoreForms
    /\ csPc = "probe" => csSent <= Probes /\ (csWait = 0 => csSent < Probes)
    /\ csPc = "push" => csSent <= CoreForms
    /\ csLines \in Nat \ {0} /\ csWait \in 0 .. (csLines - 1)

CoreRest ==
    /\ csPc \in {"idle", "probe", "push", "eager", "save", "end", "dump", "done"}
    /\ csEnd \in -1 .. EndDigits
    /\ csCount \in BOOLEAN
    /\ csLate \in BOOLEAN
    /\ csExit \in {-1, 0, 1}

\* An end is taken only when the core has been saved.
LEMMA EndTakenShape ==
    ASSUME CoreInv, csPc = "end", NEW b \in {csBuf, Heard}, QsavePattern(b)
    PROVE  Cardinality({i \in DOMAIN b : b[i] = CoreDigit}) \in 0 .. EndDigits
<1>1. CoreShape /\ (Unsaved \/ Saved) /\ csBuf \in Seq(CoreChars)
  BY DEF CoreInv, CoreShape
<1>2. Heard \in Seq(CoreChars)
  BY <1>1, HeardShape
<1>3. ~Unsaved
  <2> SUFFICES ASSUME Unsaved PROVE FALSE
    OBVIOUS
  <2>1. \A i \in DOMAIN b : b[i] = "v"
    BY <1>1, HeardShape DEF Unsaved
  <2> QED
    BY <1>1, <1>2, <2>1, NoEndYet
<1>4. PICK k \in Nat : EndAt(k)
  BY <1>1, <1>3 DEF Saved
<1>5. DOMAIN csBuf \subseteq DOMAIN Heard /\ \A i \in DOMAIN csBuf : csBuf[i] = Heard[i]
  <2> DEFINE O == TextsOf(crOut)
  <2>1. O \in Seq(CoreChars) /\ csBuf \in Seq(CoreChars)
    BY <1>1, TextFields, TextsSeq DEF CoreShape
  <2>2. Heard = csBuf \o O
    BY DEF Heard, HeardOf
  <2> HIDE DEF O
  <2>3. /\ Len(csBuf \o O) = Len(csBuf) + Len(O)
        /\ \A i \in 1 .. Len(csBuf) + Len(O) :
             (csBuf \o O)[i] = IF i <= Len(csBuf) THEN csBuf[i] ELSE O[i - Len(csBuf)]
    BY <2>1, ConcatProperties
  <2>4. Len(csBuf) \in Nat /\ Len(O) \in Nat /\ DOMAIN csBuf = 1 .. Len(csBuf)
    BY <2>1
  <2>5. DOMAIN Heard = 1 .. (Len(csBuf) + Len(O))
    BY <1>2, <2>2, <2>3
  <2>6. \A i \in DOMAIN csBuf : i \in 1 .. (Len(csBuf) + Len(O)) /\ i <= Len(csBuf)
    BY <2>4
  <2> QED
    BY <2>2, <2>3, <2>5, <2>6
<1>6. DOMAIN b \subseteq DOMAIN Heard /\ \A i \in DOMAIN b : b[i] = Heard[i]
  BY <1>5
<1> QED
  BY <1>1, <1>4, <1>6, EndSoFar

LEMMA CoreStepsKeep ==
    ASSUME CoreInv, CoreSteps, CoreNext \/ UNCHANGED csVars
    PROVE  CoreSteps'
<1>1. Probes \in Nat /\ Probes > 0 /\ CoreForms \in Nat
  BY CoreAssumption DEF CoreAssumption
<1>2. /\ csSent \in Nat /\ csSent \in 0..Probes \cup 0..CoreForms
      /\ csLines \in Nat /\ csLines > 0 /\ csWait \in 0 .. (csLines - 1)
      /\ csPc = "probe" => csSent <= Probes /\ (csWait = 0 => csSent < Probes)
      /\ csPc = "push" => csSent <= CoreForms
      /\ csPc = "idle" => csSent = 0
  BY DEF CoreSteps, CoreInv, CoreShape
<1>3. CASE UNCHANGED <<csSent, csWait, csLines>> /\ (csPc' \in {"probe", "push"} => UNCHANGED csPc)
  BY <1>2, <1>3 DEF CoreSteps
<1>4. CASE CoreStart
  <2>1. csPc = "idle" /\ UNCHANGED <<csSent, csWait, csLines>>
    BY <1>4 DEF CoreStart
  <2> QED
    BY <1>1, <1>2, <2>1 DEF CoreSteps
<1>5. CASE CoreSend
  <2>1. csPc \in {"probe", "push", "eager", "save"} /\ csWait = 0
        /\ (csPc = "push" => csSent < CoreForms)
        /\ csWait' = csLines /\ csLines' = csLines + 1
        /\ csPc' = (IF csPc = "save" THEN "end" ELSE csPc)
        /\ csSent' = (IF csPc \in {"probe", "push"} THEN csSent + 1 ELSE csSent)
    BY <1>5 DEF CoreSend, Send
  <2>2. csLines' \in Nat \ {0} /\ csWait' \in 0 .. (csLines' - 1) /\ csWait' # 0
    BY <1>2, <2>1
  <2>3. CASE csPc = "probe"
    <3>1. csSent' = csSent + 1 /\ csPc' = "probe" /\ csSent < Probes
      BY <1>2, <2>1, <2>3
    <3>2. csSent' \in 0 .. Probes /\ csSent' <= Probes
      BY <1>1, <1>2, <3>1
    <3>3. csSent' \in 0 .. Probes \cup 0 .. CoreForms /\ csPc' # "push"
      BY <3>1, <3>2
    <3> QED
      BY <2>2, <3>1, <3>2, <3>3, Zenon DEF CoreSteps
  <2>4. CASE csPc = "push"
    <3>1. csSent' = csSent + 1 /\ csPc' = "push" /\ csSent < CoreForms
      BY <2>1, <2>4
    <3>2. csSent' \in 0 .. CoreForms /\ csSent' <= CoreForms
      BY <1>1, <1>2, <3>1
    <3>3. csSent' \in 0 .. Probes \cup 0 .. CoreForms /\ csPc' # "probe"
      BY <3>1, <3>2
    <3> QED
      BY <2>2, <3>1, <3>2, <3>3, Zenon DEF CoreSteps
  <2>5. CASE csPc \notin {"probe", "push"}
    <3>1. csSent' = csSent /\ csPc' \notin {"probe", "push"}
      BY <2>1, <2>5
    <3> QED
      BY <1>2, <2>2, <3>1 DEF CoreSteps
  <2> QED
    BY <2>3, <2>4, <2>5
<1>6. CASE PushDone
  BY <1>3, <1>6 DEF PushDone
<1>7. CASE CoreWaited
  <2>1. csWait' = 0 /\ UNCHANGED csLines /\ csPc \in {"probe", "push", "eager"}
    BY <1>7 DEF CoreWaited
  <2>2. \/ csPc' = "push" /\ csSent' = 0
        \/ csPc' \in {"done", "save"} /\ UNCHANGED csSent
        \/ csPc \in {"probe", "push"} /\ UNCHANGED <<csPc, csSent>> /\ (csPc = "probe" => ~OutOfProbes)
    <3>1. CASE csPc = "probe" /\ Answered(crOut)
      BY <1>7, <3>1 DEF CoreWaited
    <3>2. CASE csPc = "probe" /\ ~Answered(crOut) /\ OutOfProbes
      BY <1>7, <3>2 DEF CoreWaited, CoreFinish
    <3>3. CASE csPc = "probe" /\ ~Answered(crOut) /\ ~OutOfProbes
      BY <1>7, <3>3 DEF CoreWaited
    <3>4. CASE csPc = "push"
      BY <1>7, <3>4 DEF CoreWaited
    <3>5. CASE csPc = "eager"
      BY <1>7, <3>5 DEF CoreWaited
    <3> QED
      BY <2>1, <3>1, <3>2, <3>3, <3>4, <3>5
  <2>3. csLines' \in Nat \ {0} /\ csWait' \in 0 .. (csLines' - 1)
    BY <1>2, <2>1
  <2>4. ~OutOfProbes => csSent < Probes
    BY <1>1, <1>2 DEF OutOfProbes
  <2>5. CASE csPc' = "push" /\ csSent' = 0
    <3>1. csSent' \in 0 .. Probes \cup 0 .. CoreForms /\ csSent' <= CoreForms /\ csPc' # "probe"
      BY <1>1, <2>5
    <3> QED
      BY <2>3, <3>1, Zenon DEF CoreSteps
  <2>6. CASE csPc' \in {"done", "save"} /\ UNCHANGED csSent
    BY <1>2, <2>3, <2>6 DEF CoreSteps
  <2>7. CASE csPc \in {"probe", "push"} /\ UNCHANGED <<csPc, csSent>> /\ (csPc = "probe" => ~OutOfProbes)
    BY <1>2, <2>3, <2>4, <2>7 DEF CoreSteps
  <2> QED
    BY <2>2, <2>5, <2>6, <2>7
<1>8. CASE CoreRead \/ NoCoreEnd \/ GdbDump \/ CoreRepl \/ UNCHANGED csVars
  <2>1. UNCHANGED <<csSent, csWait, csLines>> /\ (csPc' \in {"dump", "done"} \/ UNCHANGED csPc)
    BY <1>8 DEF CoreRead, NoCoreEnd, GdbDump, CoreRepl, TakeEnd, CoreFinish, csVars, csScript
  <2> QED
    BY <1>3, <2>1
<1> QED
  BY <1>4, <1>5, <1>6, <1>7, <1>8 DEF CoreNext, CoreScript

LEMMA CoreRestStep ==
    ASSUME CoreInv, CoreRest, CoreNext \/ UNCHANGED csVars
    PROVE  CoreRest'
<1>1. /\ csPc \in {"idle", "probe", "push", "eager", "save", "end", "dump", "done"}
      /\ csEnd \in -1 .. EndDigits /\ csCount \in BOOLEAN /\ csLate \in BOOLEAN /\ csExit \in {-1, 0, 1}
      /\ EndDigits \in Nat
  BY CoreAssumption DEF CoreRest, CoreAssumption
<1>2. CASE CoreStart \/ CoreSend \/ PushDone \/ CoreWaited
  <2>1. UNCHANGED <<csEnd, csCount, csLate>>
    BY <1>2 DEF CoreStart, CoreSend, PushDone, CoreWaited
  <2>2. CASE CoreWaited
    <3>1. /\ csPc' \in {"probe", "push", "save", "done"} \/ UNCHANGED csPc
          /\ csExit' \in {1, csExit}
      <4>1. CASE csPc = "probe" /\ Answered(crOut)
        BY <2>2, <4>1 DEF CoreWaited
      <4>2. CASE csPc = "probe" /\ ~Answered(crOut) /\ OutOfProbes
        BY <2>2, <4>2 DEF CoreWaited, CoreFinish
      <4>3. CASE csPc = "probe" /\ ~Answered(crOut) /\ ~OutOfProbes
        BY <2>2, <4>3 DEF CoreWaited
      <4>4. CASE csPc = "push"
        BY <2>2, <4>4 DEF CoreWaited
      <4>5. CASE csPc = "eager"
        BY <2>2, <4>5 DEF CoreWaited
      <4>6. csPc \in {"probe", "push", "eager"}
        BY <2>2 DEF CoreWaited
      <4> QED
        BY <4>1, <4>2, <4>3, <4>4, <4>5, <4>6
    <3> QED
      BY <1>1, <2>1, <3>1 DEF CoreRest
  <2>3. CASE CoreStart \/ CoreSend \/ PushDone
    <3>1. UNCHANGED csExit /\ csPc' \in {"probe", "push", "eager", "end", csPc}
      BY <2>3 DEF CoreStart, CoreSend, PushDone
    <3> QED
      BY <1>1, <2>1, <3>1 DEF CoreRest
  <2> QED
    BY <1>2, <2>2, <2>3
<1>3. CASE CoreRead
  <2>1. /\ csPc = "end" /\ UNCHANGED <<csLate, csExit>>
        /\ IF Matches(Heard)
           THEN csPc' = "dump" /\ csEnd' = DigitsOf(Heard) /\ csCount' \in BOOLEAN
           ELSE UNCHANGED <<csPc, csEnd, csCount>>
    BY <1>3 DEF CoreRead, TakeEnd, Heard, HeardOf, TextsOf
  <2>2. CASE Matches(Heard)
    <3>1. QsavePattern(Heard)
      BY <2>2 DEF Matches, QcorePattern
    <3>2. csEnd' \in 0 .. EndDigits
      BY <2>1, <2>2, <3>1, EndTakenShape DEF DigitsOf
    <3>3. csEnd' \in -1 .. EndDigits
      BY <1>1, <3>2
    <3> QED
      BY <1>1, <2>1, <2>2, <3>3 DEF CoreRest
  <2>3. CASE ~Matches(Heard)
    BY <1>1, <2>1, <2>3 DEF CoreRest
  <2> QED
    BY <2>2, <2>3
<1>4. CASE NoCoreEnd
  <2>1. /\ csPc = "end" /\ csLate' = TRUE
        /\ IF QsavePattern(csBuf)
           THEN /\ csPc' = "dump" /\ UNCHANGED csExit
                /\ csEnd' = DigitsOf(csBuf) /\ csCount' \in BOOLEAN
           ELSE csPc' = "done" /\ csExit' = 1 /\ UNCHANGED <<csEnd, csCount>>
    BY <1>4 DEF NoCoreEnd, TakeEnd, CoreFinish
  <2>2. CASE QsavePattern(csBuf)
    <3>1. csEnd' \in 0 .. EndDigits
      BY <2>1, <2>2, EndTakenShape DEF DigitsOf
    <3>2. csEnd' \in -1 .. EndDigits
      BY <1>1, <3>1
    <3> QED
      BY <1>1, <2>1, <2>2, <3>2 DEF CoreRest
  <2>3. CASE ~QsavePattern(csBuf)
    BY <1>1, <2>1, <2>3 DEF CoreRest
  <2> QED
    BY <2>2, <2>3
<1>5. CASE GdbDump
  <2>1. csPc' = "done" /\ csExit' \in {0, 1} /\ UNCHANGED <<csEnd, csCount, csLate>>
    BY <1>5 DEF GdbDump, CoreFinish
  <2> QED
    BY <1>1, <2>1 DEF CoreRest
<1>6. CASE CoreRepl \/ UNCHANGED csVars
  <2>1. UNCHANGED <<csPc, csEnd, csCount, csLate, csExit>>
    BY <1>6 DEF CoreRepl, csVars, csScript
  <2> QED
    BY <1>1, <2>1 DEF CoreRest
<1> QED
  BY <1>2, <1>3, <1>4, <1>5, <1>6 DEF CoreNext, CoreScript

\* qsave.py and qcore.py, for any number of forms, probes and digits.
LEMMA CoreTyped == CoreSpec => []CoreTypeOK
<1>1. CoreInit => CoreSteps /\ CoreRest
  <2> SUFFICES ASSUME CoreInit PROVE CoreSteps /\ CoreRest
    OBVIOUS
  <2>1. 0 \in 0 .. Probes /\ -1 \in -1 .. EndDigits
    BY CoreAssumption DEF CoreAssumption
  <2>2. CoreSteps
    BY <2>1 DEF CoreInit, CoreSteps
  <2>3. CoreRest
    BY <2>1 DEF CoreInit, CoreRest
  <2> QED
    BY <2>2, <2>3
<1>2. CoreInv /\ CoreSteps /\ CoreRest /\ [CoreNext]_csVars => (CoreSteps /\ CoreRest)'
  BY CoreStepsKeep, CoreRestStep
<1>3. CoreSteps /\ CoreRest => CoreTypeOK
  BY DEF CoreSteps, CoreRest, CoreTypeOK
<1> QED
  BY <1>1, <1>2, <1>3, CoreHolds, PTL DEF CoreSpec

-----------------------------------------------------------------------------
\* The scripts in one run, for every value of the constants: the composed
\* specification refines each script's own, so all that is proved of them holds.
THEOREM ScriptsTellTheTruth ==
    ScriptsSpec => []/\ ImageOnlyToLoader /\ StartsWholeImage /\ CoreAsReported
                     /\ RelinkReported /\ PlaysTheAskedClip /\ SuccessMeansBuilt
                     /\ FormsAsWritten /\ CountedWereEvaluated /\ CoreHoldsTheSession
BY BoardRunsScripts, ImageReachesLoader, WholeImageStarts, CoreOkIsTrue, RelinkIsReal,
   ClipIsTheAskedOne, SuccessIsReal, FormsAreRead, CountIsBacked, CoreIsTheSession, PTL

\* Whichever script runs, its state and that of the machine it drives keep their
\* shape, and no loop goes beyond its tries.
THEOREM BoardTyped == ScriptsSpec => []BoardTypeOK
<1>1. (DeployTypeOK /\ NetbootTypeOK /\ VideoTypeOK /\ SelfHostTypeOK /\ PushTypeOK
         /\ CoreTypeOK) => BoardTypeOK
  BY DEF BoardTypeOK
<1> QED
  BY <1>1, BoardRunsScripts, DeployTyped, NetbootTyped, VideoTyped, SelfHostTyped, PushTyped,
     CoreTyped, PTL
=============================================================================
