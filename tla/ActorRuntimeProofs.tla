------------------------- MODULE ActorRuntimeProofs -------------------------
(***************************************************************************)
(* Safety of ActorRuntime for any number of schedulers, actor slots, pool   *)
(* cells and any program of calls.                                          *)
(***************************************************************************)
EXTENDS ActorRuntime, FiniteSetTheorems, TLAPS

MainPoints ==
    {"user", "send", "nap", "wake", "wakeAll", "mwake", "mwakeAll", "take",
     "mdeclare", "mlook", "mwait", "mparked", "join"}

\* Main is the main thread's actor and nobody else's: it is never queued,
\* never blocked, never handed back and never ends.
MainStaysMain ==
    /\ cur[MainThread] = Main /\ pc[MainThread] = "actor"
    /\ \A t \in Schedulers : cur[t] # Main
    /\ status[Main] = "running"
    /\ ~leaving[Main]
    /\ at[Main] \in MainPoints

Typed == TypeOK /\ MainStaysMain

LEMMA IdFacts ==
    /\ Main \in Ids /\ Main \notin Slots /\ Slots \subseteq Ids
    /\ None \notin Ids /\ None # Main
    /\ MainThread \in Threads /\ MainThread \notin Schedulers
    /\ Schedulers \subseteq Threads
    /\ Nobody \notin Threads
    /\ \A a \in Ids : a = Main \/ a \in Slots
    /\ \A t \in Threads : t = MainThread \/ t \in Schedulers
BY RuntimeAssumption
   DEF RuntimeAssumption, Main, Ids, Slots, None, MainThread, Threads, Nobody

LEMMA TypedInit == Init => Typed
<1> SUFFICES ASSUME Init PROVE Typed
  OBVIOUS
<1> USE IdFacts, RuntimeAssumption DEF RuntimeAssumption, Init
<1>1. /\ lock \in Threads \cup {Nobody}
      /\ runq \in Seq(Slots)
      /\ status \in [Ids -> {"free", "running", "ready", "dead", "blocked"}]
      /\ mail \in [Ids -> 0 .. MailRoom]
      /\ pool \in Nat
      /\ link \in [Ids -> Ids \cup {None}]
  OBVIOUS
<1>2. /\ scan \in [Ids -> BOOLEAN]
      /\ deadline \in [Ids -> BOOLEAN]
      /\ timedOut \in [Ids -> BOOLEAN]
      /\ due \in [Ids -> {"never", "later", "past"}]
      /\ leaving \in [Ids -> BOOLEAN]
      /\ kept \in [Ids -> BOOLEAN]
      /\ limited \in [Threads -> BOOLEAN]
  OBVIOUS
<1>3. /\ at \in [Ids -> Points]
      /\ sendTo \in [Ids -> Ids]
      /\ pc \in [Threads -> Places]
      /\ cur \in [Threads -> Ids \cup {None}]
  BY DEF Points, MainPoints, Places
<1>4. /\ stack \in [Threads -> Slots \cup {None}]
      /\ window \in [Threads -> Slots \cup {None}]
      /\ wake \in {0, 1} /\ mainWake \in {0, 1}
      /\ stop \in BOOLEAN /\ started \in BOOLEAN
  OBVIOUS
<1>5. MainStaysMain
  BY DEF MainStaysMain, MainPoints
<1> QED
  BY <1>1, <1>2, <1>3, <1>4, <1>5 DEF Typed, TypeOK

\* Expired is a finite set of blocked slots and its enumerations list each of
\* its members once.
LEMMA EnumerationFacts ==
    ASSUME NEW E \in SUBSET Slots, NEW s \in Enumerations(E)
    PROVE  /\ s \in Seq(E)
           /\ \A a \in E : \E i \in DOMAIN s : s[i] = a
           /\ \A i, j \in DOMAIN s : s[i] = s[j] => i = j
<1>1. IsFiniteSet(Slots)
  BY FS_Interval, RuntimeAssumption DEF Slots, RuntimeAssumption
<1>2. Cardinality(E) \in Nat
  BY <1>1, FS_Subset, FS_CardinalityType
<1> DEFINE n == Cardinality(E)
<1>3. s \in [1 .. n -> E] /\ Ascending(s, E)
  BY DEF Enumerations
<1> HIDE DEF n
<1>4. n \in Nat
  BY <1>2 DEF n
<1>5. s \in Seq(E) /\ DOMAIN s = 1 .. n
  BY <1>3, <1>4
<1>6. \A i, j \in DOMAIN s : s[i] = s[j] => i = j
  <2> SUFFICES ASSUME NEW i \in 1 .. n, NEW j \in 1 .. n, s[i] = s[j], i # j
              PROVE FALSE
    BY <1>5
  <2>1. s[i] \in Int
    <3>1. s[i] \in Slots
      BY <1>3
    <3>2. Slots \subseteq Int
      BY RuntimeAssumption DEF Slots, RuntimeAssumption
    <3> QED
      BY <3>1, <3>2
  <2> QED
    BY <1>3, <1>4, <1>5, <2>1 DEF Ascending
<1> QED
  BY <1>3, <1>5, <1>6 DEF Ascending

LEMMA ExpiredFacts ==
    ASSUME NEW s \in Enumerations(Expired)
    PROVE  /\ s \in Seq(Slots)
           /\ \A i \in DOMAIN s : s[i] \in Expired
           /\ \A a \in Expired : \E i \in DOMAIN s : s[i] = a
           /\ \A i, j \in DOMAIN s : s[i] = s[j] => i = j
<1>1. Expired \in SUBSET Slots
  BY DEF Expired
<1>2. s \in Seq(Expired)
  BY <1>1, EnumerationFacts
<1> QED
  BY <1>1, <1>2, EnumerationFacts

LEMMA ScheduleTyped ==
    ASSUME Typed, NEW t \in Threads, Schedule(t)
    PROVE  Typed'
<1> USE IdFacts DEF Typed, TypeOK, MainStaysMain, actorVars, codeVars, cpuVars, wakeVars, Places
<1>1. CASE SchedTop(t) BY <1>1 DEF SchedTop
<1>2. CASE SchedSetFs(t) BY <1>2 DEF SchedSetFs
<1>3. CASE SchedStopCheck(t) BY <1>3 DEF SchedStopCheck
<1>4. CASE SchedDeclare(t) BY <1>4 DEF SchedDeclare
<1>5. CASE SchedFindNothing(t) BY <1>5 DEF SchedFindNothing
<1>7. CASE SchedIdleWait(t) BY <1>7 DEF SchedIdleWait
<1>8. CASE SchedIdleTimeout(t) BY <1>8 DEF SchedIdleTimeout
<1>9. CASE RestoreStack(t) BY <1>9 DEF RestoreStack
<1>10. CASE RestoreRelease(t) BY <1>10 DEF RestoreRelease
<1>6. CASE SchedDispatch(t)
  <2> PICK s \in Enumerations(Expired) : runq \o s # <<>> /\ runq' = Tail(runq \o s)
      /\ status' = [a \in Ids |-> IF a = Head(runq \o s) THEN "running"
                                     ELSE StatusAfterExpire(a)]
      /\ cur' = [cur EXCEPT ![t] = Head(runq \o s)]
      /\ window' = [window EXCEPT ![t] = Head(runq \o s)]
    BY <1>6 DEF SchedDispatch
  <2>1. s \in Seq(Slots)
    BY ExpiredFacts
  <2> DEFINE q == runq \o s
  <2>2. q \in Seq(Slots) /\ q # <<>>
    BY <2>1
  <2>3. Head(q) \in Slots /\ Tail(q) \in Seq(Slots)
    BY <2>2
  <2>4. \A a \in Ids : StatusAfterExpire(a) \in {"free", "running", "ready", "dead", "blocked"}
    BY DEF StatusAfterExpire
  <2>5. StatusAfterExpire(Main) = "running"
    BY DEF StatusAfterExpire, Expired
  <2>6. deadline' \in [Ids -> BOOLEAN] /\ timedOut' \in [Ids -> BOOLEAN]
    BY <1>6 DEF SchedDispatch, ExpireWords
  <2> HIDE DEF q
  <2>7. /\ runq' = Tail(q)
        /\ status' = [a \in Ids |-> IF a = Head(q) THEN "running"
                                     ELSE StatusAfterExpire(a)]
        /\ cur' = [cur EXCEPT ![t] = Head(q)]
        /\ window' = [window EXCEPT ![t] = Head(q)]
    BY DEF q
  <2>8. status' \in [Ids -> {"free", "running", "ready", "dead", "blocked"}]
        /\ status'[Main] = "running"
    BY <2>3, <2>4, <2>5, <2>7
  <2>9. t # MainThread /\ t \in Schedulers
    BY <1>6 DEF SchedDispatch
  <2>10. /\ cur' \in [Threads -> Ids \cup {None}]
         /\ window' \in [Threads -> Slots \cup {None}]
         /\ pc' \in [Threads -> Places]
    <3>1. Head(q) \in Ids /\ Head(q) \in Slots
      BY <2>3
    <3>2. pc' = [pc EXCEPT ![t] = "switch"]
      BY <1>6 DEF SchedDispatch
    <3> QED
      BY <2>7, <3>1, <3>2
  <2>12. runq' \in Seq(Slots) /\ lock' \in Threads \cup {Nobody}
    BY <1>6, <2>3, <2>7 DEF SchedDispatch
  <2>11. /\ cur'[MainThread] = Main /\ pc'[MainThread] = "actor"
         /\ \A u \in Schedulers : cur'[u] # Main
    BY <1>6, <2>3, <2>7, <2>9 DEF SchedDispatch
  <2> QED
    BY <1>6, <2>6, <2>8, <2>10, <2>11, <2>12 DEF SchedDispatch
<1> QED
  BY <1>1, <1>2, <1>3, <1>4, <1>5, <1>6, <1>7, <1>8, <1>9, <1>10 DEF Schedule

LEMMA SendStepsTyped ==
    ASSUME Typed, NEW t \in Threads, NEW a \in Ids, SendSteps(t, a)
    PROVE  Typed'
<1> USE IdFacts DEF Typed, TypeOK, MainStaysMain, actorVars, codeVars, cpuVars,
                    wakeVars, Runs, Goto, OnlyGoto, Points, MainPoints, Places
<1>1. CASE Post(t, a)
  <2> DEFINE b == sendTo[a]
  <2>1. b \in Ids /\ mail[b] \in 0 .. MailRoom
    OBVIOUS
  <2>2. /\ mail' = [mail EXCEPT ![b] = @ + 1] /\ mail[b] < MailRoom
        /\ pool' = pool - 1 /\ pool > 0
        /\ sendTo' = [sendTo EXCEPT ![a] = Main]
        /\ UNCHANGED <<lock, link, scan, deadline, timedOut, due, leaving, kept,
                       pc, cur, stack, window, limited, wake, mainWake, stop,
                       started>>
    BY <1>1 DEF Post, HasRoom
  <2> HIDE DEF b
  <2>3. mail' \in [Ids -> 0 .. MailRoom] /\ pool' \in Nat
    BY <2>1, <2>2, RuntimeAssumption DEF RuntimeAssumption
  <2>4. sendTo' \in [Ids -> Ids]
    BY <2>2
  <2>5. \/ /\ status[b] = "blocked" /\ status' = [status EXCEPT ![b] = "ready"]
           /\ runq' = Append(runq, b)
           /\ at' = [at EXCEPT ![a] = "wake"]
        \/ /\ UNCHANGED <<status, runq>>
           /\ \/ at' = [at EXCEPT ![a] = "mwake"]
              \/ at' = [at EXCEPT ![a] = "exit"] /\ leaving[a]
              \/ at' = [at EXCEPT ![a] = "user"]
    <3>1. CASE status[b] = "blocked"
      BY <1>1, <3>1 DEF Post, b
    <3>2. CASE status[b] # "blocked"
      BY <1>1, <3>2 DEF Post, AfterSend, b
    <3> QED
      BY ONLY <3>1, <3>2
  <2>6. status' \in [Ids -> {"free", "running", "ready", "dead", "blocked"}]
        /\ status'[Main] = "running"
    <3>1. CASE UNCHANGED <<status, runq>>
      BY <3>1
    <3>2. CASE status[b] = "blocked" /\ status' = [status EXCEPT ![b] = "ready"]
      BY <2>1, <3>2
    <3> QED
      BY ONLY <2>5, <3>1, <3>2
  <2>7. runq' \in Seq(Slots)
    <3>1. status[b] = "blocked" => b \in Slots
      BY <2>1
    <3>2. b \in Slots /\ runq' = Append(runq, b) => runq' \in Seq(Slots)
      OBVIOUS
    <3>3. runq' = runq => runq' \in Seq(Slots)
      OBVIOUS
    <3>4. (status[b] = "blocked" /\ runq' = Append(runq, b)) \/ runq' = runq
      BY <2>5
    <3> QED
      BY <3>1, <3>2, <3>3, <3>4
  <2>8. at' \in [Ids -> Points]
    BY <2>5
  <2>9. at'[Main] \in MainPoints
    BY <2>5
  <2> QED
    BY <2>2, <2>3, <2>4, <2>6, <2>7, <2>8, <2>9
<1>2. CASE PostRefused(t, a)
  BY <1>2 DEF PostRefused
<1>3. CASE SendNap(t, a)
  BY <1>3 DEF SendNap
<1>4. CASE SendGivesUp(t, a)
  BY <1>4 DEF SendGivesUp
<1>5. CASE WakeIdle(t, a)
  BY <1>5 DEF WakeIdle
<1>6. CASE WakeIdleAll(t, a)
  BY <1>6 DEF WakeIdleAll, AfterSend
<1>7. CASE WakeMain(t, a)
  BY <1>7 DEF WakeMain
<1>8. CASE WakeMainAll(t, a)
  <2>1. /\ at' \in [Ids -> Points]
        /\ at'[Main] \in MainPoints
    BY <1>8 DEF WakeMainAll, AfterSend
  <2> QED
    BY <1>8, <2>1 DEF WakeMainAll
<1> QED
  BY <1>1, <1>2, <1>3, <1>4, <1>5, <1>6, <1>7, <1>8 DEF SendSteps

LEMMA ReceiveStepsTyped ==
    ASSUME Typed, NEW t \in Threads, NEW a \in Ids, ReceiveSteps(t, a)
    PROVE  Typed'
<1> USE IdFacts DEF Typed, TypeOK, MainStaysMain, actorVars, codeVars, cpuVars,
                    wakeVars, Runs, Goto, OnlyGoto, Points, MainPoints, Places
<1>1. CASE ReceiveTake(t, a)
  BY <1>1, RuntimeAssumption DEF ReceiveTake, RuntimeAssumption
<1>2. CASE TakeRelease(t, a)
  BY <1>2 DEF TakeRelease
<1>3. CASE ReceiveTimesOut(t, a)
  BY <1>3 DEF ReceiveTimesOut
<1>4. CASE ReceiveBlock(t, a)
  BY <1>4 DEF ReceiveBlock, HandBack, GivenUp
<1>5. CASE MainDeclare(t, a)
  BY <1>5 DEF MainDeclare
<1>6. CASE MainTake(t, a)
  BY <1>6, RuntimeAssumption DEF MainTake, RuntimeAssumption
<1>7. CASE MainFindsNothing(t, a)
  BY <1>7 DEF MainFindsNothing
<1>8. CASE MainTimesOut(t, a)
  BY <1>8 DEF MainTimesOut
<1>9. CASE MainFutexWait(t, a)
  BY <1>9 DEF MainFutexWait
<1>10. CASE MainFutexTimeout(t, a)
  BY <1>10 DEF MainFutexTimeout
<1>11. CASE TakeFails(t, a)
  BY <1>11 DEF TakeFails
<1> QED
  BY <1>1, <1>2, <1>3, <1>4, <1>5, <1>6, <1>7, <1>8, <1>9, <1>10, <1>11 DEF ReceiveSteps

LEMMA FinishesTyped ==
    ASSUME Typed, NEW t \in Threads, NEW a \in Ids, Finishes(t, a)
    PROVE  Typed'
<1> USE IdFacts DEF Typed, TypeOK, MainStaysMain, actorVars, codeVars, cpuVars,
                    wakeVars, Runs, Goto, OnlyGoto, Points, MainPoints, Places
<1>1. CASE ActorEntry(t, a)
  BY <1>1 DEF ActorEntry
<1>2. CASE YieldResumed(t, a)
  <2>1. \/ at' = [at EXCEPT ![a] = "user"]
        \/ at' = [at EXCEPT ![a] = "send"]
    BY <1>2 DEF YieldResumed
  <2>2. at' \in [Ids -> Points]
    BY <2>1
  <2>3. at'[Main] \in MainPoints
    BY <2>1
  <2> QED
    BY <1>2, <2>2, <2>3 DEF YieldResumed
<1>3. CASE ActorEnds(t, a)
  BY <1>3 DEF ActorEnds
<1>4. CASE ActorExit(t, a)
  BY <1>4 DEF ActorExit, HandBack
<1>5. CASE StopJoined(t, a)
  BY <1>5 DEF StopJoined
<1> QED
  BY <1>1, <1>2, <1>3, <1>4, <1>5 DEF Finishes

LEMMA CallsTyped ==
    ASSUME Typed, NEW t \in Threads, NEW a \in Ids, Calls(t, a)
    PROVE  Typed'
<1> USE IdFacts DEF Typed, TypeOK, MainStaysMain, actorVars, codeVars, cpuVars,
                    wakeVars, Runs, Goto, OnlyGoto, Points, MainPoints, Places
<1>1. CASE Yield(t, a)
  <2>1. a \in Slots /\ t \in Schedulers /\ pc[t] = "actor" /\ cur[t] = a
    BY <1>1 DEF Yield
  <2>2. \/ at' = [at EXCEPT ![a] = "resumed"]
        \/ at' = [at EXCEPT ![a] = "resend"]
    BY <1>1 DEF Yield
  <2>3. at' \in [Ids -> Points] /\ at'[Main] \in MainPoints
    <3>1. a # Main /\ a \in Ids
      BY <2>1
    <3>2. at' \in [Ids -> Points]
      BY <2>2, <3>1
    <3>3. at'[Main] = at[Main]
      BY <2>2, <3>1
    <3> QED
      BY <3>2, <3>3
  <2>4. runq' \in Seq(Slots)
    BY <1>1, <2>1 DEF Yield
  <2> QED
    BY <1>1, <2>1, <2>3, <2>4 DEF Yield, HandBack
<1>2. CASE Spawn(t, a)
  <2> PICK id \in Claimable :
        /\ status' = [status EXCEPT ![id] = "ready"]
        /\ runq' = Append(runq, id)
        /\ mail' = [mail EXCEPT ![id] = 0]
        /\ link' = [link EXCEPT ![id] = None]
        /\ scan' = [scan EXCEPT ![id] = TRUE]
        /\ leaving' = [leaving EXCEPT ![id] = FALSE]
        /\ kept' = [kept EXCEPT ![id] = FALSE]
        /\ at' = [at EXCEPT ![id] = "entry", ![a] = "wake"]
    BY <1>2 DEF Spawn
  <2>1. id \in Slots /\ id \in Ids /\ id # Main
    BY DEF Claimable
  <2>2. mail' \in [Ids -> 0 .. MailRoom]
    BY <2>1, RuntimeAssumption DEF RuntimeAssumption
  <2>3. runq' \in Seq(Slots)
    BY <2>1
  <2>4. at' \in [Ids -> Points] /\ at'[Main] \in MainPoints
    BY <2>1
  <2>5. status' \in [Ids -> {"free", "running", "ready", "dead", "blocked"}]
        /\ status'[Main] = "running"
    BY <2>1
  <2>6. leaving' \in [Ids -> BOOLEAN] /\ ~leaving'[Main] /\ kept' \in [Ids -> BOOLEAN]
        /\ link' \in [Ids -> Ids \cup {None}] /\ scan' \in [Ids -> BOOLEAN]
    BY <2>1
  <2>7. UNCHANGED <<lock, pool, deadline, timedOut, due, sendTo, pc, cur, stack,
                    window, limited, wake, mainWake, stop, started>>
    BY <1>2 DEF Spawn
  <2> QED
    BY <2>2, <2>3, <2>4, <2>5, <2>6, <2>7
<1>3. CASE SpawnRefused(t, a)
  BY <1>3 DEF SpawnRefused
<1>4. CASE StopRaise(t, a)
  BY <1>4 DEF StopRaise
<1>5. ASSUME NEW b \in Ids, SendStart(t, a, b) PROVE Typed'
  BY <1>5 DEF SendStart
<1>6. ASSUME NEW b \in Ids, NEW c \in Ids, Link(t, a, b, c) PROVE Typed'
  <2>1. link' \in [Ids -> Ids \cup {None}]
    <3>1. b \in Ids \cup {None} /\ c \in Ids \cup {None}
      OBVIOUS
    <3>2. link' = [link EXCEPT ![b] = c, ![c] = b]
      BY <1>6 DEF Link
    <3> QED
      BY <3>1, <3>2
  <2>2. UNCHANGED <<lock, runq, status, mail, pool, scan, deadline, timedOut, due,
                    at, sendTo, leaving, kept, pc, cur, stack, window, limited, wake,
                    mainWake, stop, started>>
    BY <1>6 DEF Link
  <2> QED
    BY <2>1, <2>2
<1>7. ASSUME NEW timed \in BOOLEAN, ReceiveStart(t, a, timed) PROVE Typed'
  BY <1>7 DEF ReceiveStart
<1> QED
  BY <1>1, <1>2, <1>3, <1>4, <1>5, <1>6, <1>7 DEF Calls

LEMMA TypedStep == Typed /\ [Next]_vars => Typed'
<1> SUFFICES ASSUME Typed, [Next]_vars PROVE Typed'
  OBVIOUS
<1>1. ASSUME NEW t \in Threads, Schedule(t) PROVE Typed'
  BY <1>1, ScheduleTyped
<1>2. ASSUME NEW t \in Threads, NEW a \in Ids, Computes(t, a) PROVE Typed'
  BY <1>2, SendStepsTyped, ReceiveStepsTyped, FinishesTyped, CallsTyped
     DEF Computes
<1>3. ASSUME NEW a \in Ids, ClockPasses(a) PROVE Typed'
  BY <1>3 DEF ClockPasses, Typed, TypeOK, MainStaysMain, codeVars, cpuVars, wakeVars
<1>4. CASE UNCHANGED vars
  BY <1>4 DEF vars, Typed, TypeOK, MainStaysMain, actorVars, codeVars, cpuVars, wakeVars
<1> QED
  BY <1>1, <1>2, <1>3, <1>4 DEF Next

\* The type invariant, for every instance: mailboxes stay within their bound,
\* the pool is never overdrawn, only spawnable actors are queued.
THEOREM RuntimeTyped == Spec => []TypeOK
<1>1. Typed /\ [Next]_vars => Typed'
  BY TypedStep
<1>2. Typed => TypeOK
  BY DEF Typed
<1> QED
  BY <1>1, <1>2, TypedInit, PTL DEF Spec

-----------------------------------------------------------------------------
(* Sequences without repetition: appending, concatenating, taking the tail. *)

Elements(q) == {q[i] : i \in DOMAIN q}

OnceEach(q) == \A i, j \in DOMAIN q : q[i] = q[j] => i = j

LEMMA AppendOnce ==
    ASSUME NEW S, NEW q \in Seq(S), NEW a \in S, OnceEach(q), a \notin Elements(q)
    PROVE  OnceEach(Append(q, a)) /\ Elements(Append(q, a)) = Elements(q) \cup {a}
<1> DEFINE r == Append(q, a)
<1>1. /\ DOMAIN r = 1 .. (Len(q) + 1) /\ DOMAIN q = 1 .. Len(q) /\ Len(q) \in Nat
      /\ r[Len(q) + 1] = a
      /\ \A i \in 1 .. Len(q) : r[i] = q[i]
  OBVIOUS
<1> HIDE DEF r
<1>2. \A i \in DOMAIN r : i \in DOMAIN q \/ i = Len(q) + 1
  BY <1>1
<1>3. OnceEach(r)
  BY <1>1, <1>2 DEF OnceEach, Elements
<1>4. Elements(r) = Elements(q) \cup {a}
  <2>1. ASSUME NEW x \in Elements(r) PROVE x \in Elements(q) \cup {a}
    BY <1>1, <1>2 DEF Elements
  <2>2. ASSUME NEW x \in Elements(q) PROVE x \in Elements(r)
    BY <1>1 DEF Elements
  <2>3. a \in Elements(r)
    BY <1>1 DEF Elements
  <2> QED
    BY <2>1, <2>2, <2>3
<1> QED
  BY <1>3, <1>4 DEF r

LEMMA ConcatOnce ==
    ASSUME NEW S, NEW q \in Seq(S), NEW s \in Seq(S), OnceEach(q), OnceEach(s),
           Elements(q) \cap Elements(s) = {}
    PROVE  OnceEach(q \o s) /\ Elements(q \o s) = Elements(q) \cup Elements(s)
<1> DEFINE r == q \o s
<1>1. /\ DOMAIN r = 1 .. (Len(q) + Len(s))
      /\ DOMAIN q = 1 .. Len(q) /\ DOMAIN s = 1 .. Len(s)
      /\ Len(q) \in Nat /\ Len(s) \in Nat
      /\ \A i \in 1 .. Len(q) : r[i] = q[i]
      /\ \A i \in 1 .. Len(s) : r[Len(q) + i] = s[i]
  OBVIOUS
<1> HIDE DEF r
<1>2. ASSUME NEW i \in DOMAIN r
      PROVE  \/ i \in DOMAIN q /\ r[i] = q[i]
             \/ i - Len(q) \in DOMAIN s /\ r[i] = s[i - Len(q)]
  <2>1. CASE i <= Len(q)
    BY <1>1, <2>1
  <2>2. CASE i > Len(q)
    <3>1. i - Len(q) \in 1 .. Len(s) /\ Len(q) + (i - Len(q)) = i
      BY <1>1, <2>2
    <3> QED
      BY <1>1, <3>1
  <2> QED
    BY <1>1, <2>1, <2>2
<1>3. OnceEach(r)
  <2> SUFFICES ASSUME NEW i \in DOMAIN r, NEW j \in DOMAIN r, r[i] = r[j]
              PROVE  i = j
    BY DEF OnceEach
  <2>1. CASE i \in DOMAIN q /\ r[i] = q[i] /\ j \in DOMAIN q /\ r[j] = q[j]
    BY <2>1 DEF OnceEach
  <2>2. CASE /\ i - Len(q) \in DOMAIN s /\ r[i] = s[i - Len(q)]
             /\ j - Len(q) \in DOMAIN s /\ r[j] = s[j - Len(q)]
    <3>1. i - Len(q) = j - Len(q)
      BY <2>2 DEF OnceEach
    <3> QED
      BY <1>1, <3>1
  <2>3. CASE i \in DOMAIN q /\ r[i] = q[i]
             /\ j - Len(q) \in DOMAIN s /\ r[j] = s[j - Len(q)]
    BY <2>3 DEF Elements
  <2>4. CASE j \in DOMAIN q /\ r[j] = q[j]
             /\ i - Len(q) \in DOMAIN s /\ r[i] = s[i - Len(q)]
    BY <2>4 DEF Elements
  <2> QED
    BY <1>2, <2>1, <2>2, <2>3, <2>4
<1>4. Elements(r) = Elements(q) \cup Elements(s)
  <2>1. ASSUME NEW x \in Elements(r) PROVE x \in Elements(q) \cup Elements(s)
    BY <1>2 DEF Elements
  <2>2. ASSUME NEW x \in Elements(q) PROVE x \in Elements(r)
    BY <1>1 DEF Elements
  <2>3. ASSUME NEW x \in Elements(s) PROVE x \in Elements(r)
    <3> PICK i \in DOMAIN s : x = s[i]
      BY DEF Elements
    <3>1. Len(q) + i \in DOMAIN r /\ r[Len(q) + i] = x
      BY <1>1
    <3> QED
      BY <3>1 DEF Elements
  <2> QED
    BY <2>1, <2>2, <2>3
<1> QED
  BY <1>3, <1>4 DEF r

LEMMA TailOnce ==
    ASSUME NEW S, NEW q \in Seq(S), q # <<>>, OnceEach(q)
    PROVE  /\ OnceEach(Tail(q))
           /\ Elements(Tail(q)) = Elements(q) \ {Head(q)}
           /\ Head(q) \in Elements(q)
<1> DEFINE r == Tail(q)
<1>1. /\ DOMAIN q = 1 .. Len(q) /\ Len(q) \in Nat /\ Len(q) > 0
      /\ DOMAIN r = 1 .. (Len(q) - 1)
      /\ Head(q) = q[1]
      /\ \A i \in 1 .. (Len(q) - 1) : r[i] = q[i + 1]
  OBVIOUS
<1> HIDE DEF r
<1>2. OnceEach(r)
  <2> SUFFICES ASSUME NEW i \in DOMAIN r, NEW j \in DOMAIN r, r[i] = r[j]
              PROVE  i = j
    BY DEF OnceEach
  <2>1. i + 1 \in DOMAIN q /\ j + 1 \in DOMAIN q /\ q[i + 1] = q[j + 1]
    BY <1>1
  <2>2. i + 1 = j + 1
    BY <2>1 DEF OnceEach
  <2> QED
    BY <1>1, <2>2
<1>3. ASSUME NEW x \in Elements(r) PROVE x \in Elements(q) /\ x # Head(q)
  <2> PICK i \in DOMAIN r : x = r[i]
    BY DEF Elements
  <2>1. i + 1 \in DOMAIN q /\ x = q[i + 1] /\ i + 1 # 1 /\ 1 \in DOMAIN q
    BY <1>1
  <2> QED
    BY <1>1, <2>1 DEF Elements, OnceEach
<1>4. ASSUME NEW x \in Elements(q), x # Head(q) PROVE x \in Elements(r)
  <2> PICK i \in DOMAIN q : x = q[i]
    BY DEF Elements
  <2>1. i # 1
    BY <1>1, <1>4
  <2>2. i - 1 \in DOMAIN r /\ r[i - 1] = q[(i - 1) + 1] /\ (i - 1) + 1 = i
    BY <1>1, <2>1
  <2> QED
    BY <2>2 DEF Elements
<1>5. Head(q) \in Elements(q)
  BY <1>1 DEF Elements
<1> QED
  BY <1>2, <1>3, <1>4, <1>5 DEF r

-----------------------------------------------------------------------------
(* Who stands on which stack.  The inductive invariant says what each place *)
(* of a thread implies about its current actor and its stack, that the lock *)
(* is held through a context switch, that a current actor is "running" (and *)
(* so not queued), and that an actor being left is nobody's current actor.  *)

LoopPlaces == {"top", "setfs", "stop2", "declare", "look", "idle", "parked", "done"}

SwitchHoldsLock ==
    \A t \in Threads : pc[t] \in {"switch", "release"} => lock = t

PlaceTellsStack ==
    /\ stack[MainThread] = None
    /\ \A t \in Schedulers :
         /\ pc[t] \in LoopPlaces => stack[t] = None /\ cur[t] = None
         /\ pc[t] \in {"actor", "release"} => stack[t] = cur[t]
         /\ pc[t] = "switch" /\ cur[t] # None => stack[t] = None

CurrentRuns ==
    /\ \A t \in Threads : cur[t] # None => status[cur[t]] = "running"
    /\ \A t, u \in Threads : cur[t] = cur[u] /\ cur[t] # None => t = u

LeftBehind ==
    \A t, u \in Threads :
        pc[t] = "switch" /\ cur[t] = None /\ stack[t] # None => cur[u] # stack[t]

Switching == SwitchHoldsLock /\ PlaceTellsStack /\ CurrentRuns /\ LeftBehind

Queues == RunQueueExact /\ NoSleepOnMail

SafeInv == Typed /\ Switching /\ Queues

LEMMA SafeInit == Init => SafeInv
<1> SUFFICES ASSUME Init PROVE SafeInv
  OBVIOUS
<1> USE IdFacts
<1>1. Typed
  BY TypedInit
<1>2. SwitchHoldsLock /\ PlaceTellsStack
  BY DEF Init, SwitchHoldsLock, PlaceTellsStack, LoopPlaces
<1>3. CurrentRuns
  BY DEF Init, CurrentRuns
<1>4. LeftBehind
  BY DEF Init, LeftBehind
<1>5. RunQueueExact
  <2>1. runq = <<>> /\ DOMAIN runq = {}
    BY DEF Init
  <2>2. \A a \in Slots : status[a] = "free"
    BY DEF Init
  <2> QED
    BY <2>1, <2>2 DEF RunQueueExact, Queued
<1>6. NoSleepOnMail
  BY DEF Init, NoSleepOnMail
<1> QED
  BY <1>1, <1>2, <1>3, <1>4, <1>5, <1>6 DEF SafeInv, Switching, Queues

\* Steps that touch neither threads, nor the lock, nor the queue.
LEMMA QuietStep ==
    ASSUME SafeInv, Typed', UNCHANGED <<lock, runq, status, mail, pc, cur, stack>>
    PROVE  SafeInv'
BY DEF SafeInv, Switching, Queues, SwitchHoldsLock, PlaceTellsStack, CurrentRuns,
       LeftBehind, RunQueueExact, Queued, NoSleepOnMail

\* With the lock free nobody is in the middle of a context switch.
LEMMA FreeLockNobodySwitches ==
    ASSUME Typed, SwitchHoldsLock, lock = Nobody
    PROVE  \A t \in Threads : pc[t] \notin {"switch", "release"}
BY IdFacts DEF SwitchHoldsLock

LoopMoves ==
    \A u \in Threads :
        pc'[u] = pc[u] \/ {pc[u], pc'[u]} \subseteq LoopPlaces

\* Threads move between places of their scheduler loops, nothing else.
LEMMA LoopStep ==
    ASSUME SafeInv, Typed', LoopMoves,
           UNCHANGED <<lock, runq, status, mail, cur, stack>>
    PROVE  SafeInv'
<1> USE IdFacts DEF LoopMoves
<1>2. SwitchHoldsLock'
  BY DEF SafeInv, Switching, SwitchHoldsLock, LoopPlaces
<1>3. PlaceTellsStack'
  BY DEF SafeInv, Switching, PlaceTellsStack, LoopPlaces
<1>4. CurrentRuns' /\ Queues'
  BY DEF SafeInv, Switching, CurrentRuns, Queues, RunQueueExact, Queued, NoSleepOnMail
<1>5. LeftBehind'
  BY DEF SafeInv, Switching, LeftBehind, LoopPlaces
<1> QED
  BY <1>2, <1>3, <1>4, <1>5 DEF SafeInv, Switching

\* A thread leaves its actor: the lock is taken, the stack is still the
\* actor's, the actor is nobody's current actor any more.
LEMMA HandBackSwitching ==
    ASSUME SafeInv, Typed', NEW t \in Threads, NEW a \in Slots, NEW v,
           Runs(t, a), lock = Nobody, HandBack(t),
           status' = [status EXCEPT ![a] = v]
    PROVE  Switching'
<1> USE IdFacts
<1>1. /\ pc[t] = "actor" /\ cur[t] = a /\ t \in Schedulers
      /\ lock' = t
      /\ cur' = [cur EXCEPT ![t] = None]
      /\ pc' = [pc EXCEPT ![t] = "switch"]
      /\ UNCHANGED stack
  BY DEF Runs, HandBack, SafeInv, Typed, MainStaysMain
<1>2. \A u \in Threads : pc[u] \notin {"switch", "release"}
  BY FreeLockNobodySwitches DEF SafeInv, Switching
<1>3. /\ cur'[t] = None /\ pc'[t] = "switch"
      /\ \A u \in Threads \ {t} : cur'[u] = cur[u] /\ pc'[u] = pc[u]
  BY <1>1 DEF SafeInv, Typed, TypeOK
<1>4. SwitchHoldsLock'
  BY <1>1, <1>2, <1>3 DEF SwitchHoldsLock
<1>5. PlaceTellsStack'
  BY <1>1, <1>3 DEF SafeInv, Switching, PlaceTellsStack, LoopPlaces
<1>6. CurrentRuns'
  <2>1. \A u \in Threads : cur'[u] # None => u # t /\ cur[u] # a /\ cur[u] \in Ids
    BY <1>1, <1>3 DEF SafeInv, Switching, CurrentRuns, Typed, TypeOK
  <2> QED
    BY <1>3, <2>1 DEF SafeInv, Switching, CurrentRuns, Typed, TypeOK
<1>7. LeftBehind'
  <2> SUFFICES ASSUME NEW w \in Threads, NEW u \in Threads, pc'[w] = "switch",
                      cur'[w] = None, stack'[w] # None
              PROVE  cur'[u] # stack'[w]
    BY DEF LeftBehind
  <2>1. w = t
    BY <1>2, <1>3
  <2>2. stack'[w] = a
    BY <1>1, <2>1 DEF SafeInv, Switching, PlaceTellsStack
  <2> QED
    BY <1>1, <1>3, <2>1, <2>2 DEF SafeInv, Switching, CurrentRuns
<1> QED
  BY <1>4, <1>5, <1>6, <1>7 DEF Switching

\* No thread changes and every current actor keeps running.
LEMMA StatusSwitching ==
    ASSUME SafeInv, UNCHANGED <<lock, pc, cur, stack>>,
           \A a \in Ids : status[a] = "running" => status'[a] = "running"
    PROVE  Switching'
BY IdFacts DEF SafeInv, Typed, TypeOK, Switching, SwitchHoldsLock, PlaceTellsStack,
       CurrentRuns, LeftBehind

\* An actor that is not queued becomes ready and is queued.
LEMMA EnqueueQueue ==
    ASSUME SafeInv, NEW a \in Slots, status[a] # "ready",
           status' = [status EXCEPT ![a] = "ready"], runq' = Append(runq, a)
    PROVE  RunQueueExact'
<1>1. runq \in Seq(Slots) /\ status \in [Ids -> {"free", "running", "ready", "dead", "blocked"}]
  BY DEF SafeInv, Typed, TypeOK
<1>2. OnceEach(runq) /\ Elements(runq) = {b \in Slots : status[b] = "ready"}
  BY DEF SafeInv, Queues, RunQueueExact, Queued, OnceEach, Elements
<1>3. OnceEach(runq') /\ Elements(runq') = Elements(runq) \cup {a}
  BY <1>1, <1>2, AppendOnce
<1>4. {b \in Slots : status'[b] = "ready"} = {b \in Slots : status[b] = "ready"} \cup {a}
  BY <1>1, IdFacts
<1> QED
  BY <1>2, <1>3, <1>4 DEF RunQueueExact, Queued, OnceEach, Elements

\* A dispatch takes the head of the queue, behind which the expired actors
\* were put, and makes it the thread's current actor.
LEMMA DispatchSafe ==
    ASSUME SafeInv, Typed', NEW t \in Threads, SchedDispatch(t)
    PROVE  SafeInv'
<1> USE IdFacts
<1> PICK s \in Enumerations(Expired) :
      /\ runq \o s # <<>> /\ runq' = Tail(runq \o s)
      /\ status' = [a \in Ids |-> IF a = Head(runq \o s) THEN "running"
                                     ELSE StatusAfterExpire(a)]
      /\ cur' = [cur EXCEPT ![t] = Head(runq \o s)]
  BY DEF SchedDispatch
<1>1. /\ s \in Seq(Slots) /\ OnceEach(s) /\ Elements(s) = Expired
  <2>1. s \in Seq(Slots) /\ OnceEach(s)
    BY ExpiredFacts DEF OnceEach
  <2>2. Elements(s) = Expired
    BY ExpiredFacts DEF Elements
  <2> QED
    BY <2>1, <2>2
<1>2. /\ runq \in Seq(Slots) /\ OnceEach(runq)
      /\ Elements(runq) = {a \in Slots : status[a] = "ready"}
  BY DEF SafeInv, Typed, TypeOK, Queues, RunQueueExact, Queued, OnceEach, Elements
<1> DEFINE q == runq \o s
<1> DEFINE h == Head(q)
<1>3. q \in Seq(Slots) /\ q # <<>>
  BY <1>1, <1>2
<1>4. OnceEach(q) /\ Elements(q) = {a \in Slots : status[a] = "ready"} \cup Expired
  <2>1. Elements(runq) \cap Elements(s) = {}
    BY <1>1, <1>2 DEF Expired
  <2> QED
    BY <1>1, <1>2, <2>1, ConcatOnce
<1> HIDE DEF q
<1>5. /\ OnceEach(Tail(q)) /\ Elements(Tail(q)) = Elements(q) \ {h}
      /\ h \in Elements(q)
  BY <1>3, <1>4, TailOnce
<1>6. h \in Slots /\ status[h] \in {"ready", "blocked"}
  BY <1>4, <1>5 DEF Expired
<1>7. /\ runq' = Tail(q)
      /\ status' = [a \in Ids |-> IF a = h THEN "running" ELSE StatusAfterExpire(a)]
      /\ cur' = [cur EXCEPT ![t] = h]
  BY DEF q
<1> HIDE DEF h
<1>8. /\ pc[t] = "look" /\ lock = Nobody /\ lock' = t
      /\ pc' = [pc EXCEPT ![t] = "switch"]
      /\ UNCHANGED <<stack, mail>>
  BY DEF SchedDispatch
<1>9. t \in Schedulers /\ t # MainThread
  BY <1>8 DEF SafeInv, Typed, MainStaysMain
<1>10. /\ cur'[t] = h /\ pc'[t] = "switch"
       /\ \A u \in Threads \ {t} : cur'[u] = cur[u] /\ pc'[u] = pc[u]
  <2>1. DOMAIN cur = Threads /\ DOMAIN pc = Threads /\ t \in Threads
    BY DEF SafeInv, Typed, TypeOK
  <2> QED
    BY ONLY <1>7, <1>8, <2>1
<1>11. \A u \in Threads : pc[u] \notin {"switch", "release"}
  BY <1>8, FreeLockNobodySwitches DEF SafeInv, Switching
<1>12. \A u \in Threads : cur[u] # h
  BY <1>6 DEF SafeInv, Switching, CurrentRuns, None, Slots
<1>13. \A a \in Ids : status[a] = "running" => status'[a] = "running"
  BY <1>7 DEF StatusAfterExpire, Expired
<1>14. SwitchHoldsLock'
  BY <1>8, <1>10, <1>11 DEF SwitchHoldsLock
<1>15. PlaceTellsStack'
  BY <1>8, <1>9, <1>10 DEF SafeInv, Switching, PlaceTellsStack, LoopPlaces
<1>16. CurrentRuns'
  <2>1. status'[h] = "running"
    BY <1>6, <1>7
  <2>2. \A u \in Threads : cur'[u] # None => status'[cur'[u]] = "running"
    <3> SUFFICES ASSUME NEW u \in Threads, cur'[u] # None
                PROVE  status'[cur'[u]] = "running"
      OBVIOUS
    <3>1. CASE u = t
      BY <1>10, <2>1, <3>1
    <3>2. CASE u # t
      <4>1. cur'[u] = cur[u] /\ cur[u] \in Ids /\ status[cur[u]] = "running"
        BY <1>10, <3>2 DEF SafeInv, Typed, TypeOK, Switching, CurrentRuns
      <4> QED
        BY <1>13, <4>1
    <3> QED
      BY <3>1, <3>2
  <2>3. \A u, w \in Threads : cur'[u] = cur'[w] /\ cur'[u] # None => u = w
    BY <1>10, <1>12 DEF SafeInv, Switching, CurrentRuns
  <2> QED
    BY <2>2, <2>3 DEF CurrentRuns
<1>17. LeftBehind'
  <2>1. h # None
    BY <1>6
  <2> QED
    BY <1>10, <1>11, <2>1 DEF LeftBehind
<1>18. RunQueueExact'
  <2>1. {a \in Slots : status'[a] = "ready"} = Elements(q) \ {h}
    <3>1. ASSUME NEW a \in Slots
          PROVE  status'[a] = "ready" <=> a # h /\ (a \in Expired \/ status[a] = "ready")
      BY <1>7 DEF StatusAfterExpire
    <3>2. Elements(q) \subseteq Slots
      BY <1>4 DEF Expired
    <3> QED
      BY <1>4, <3>1, <3>2
  <2>2. OnceEach(runq') /\ Elements(runq') = Elements(q) \ {h}
    BY <1>5, <1>7
  <2> QED
    BY <2>1, <2>2 DEF RunQueueExact, Queued, OnceEach, Elements
<1>19. NoSleepOnMail'
  BY <1>7, <1>8 DEF SafeInv, Queues, NoSleepOnMail, StatusAfterExpire
<1> QED
  BY <1>14, <1>15, <1>16, <1>17, <1>18, <1>19 DEF SafeInv, Switching, Queues

LEMMA ScheduleSafe ==
    ASSUME SafeInv, Typed', NEW t \in Threads, Schedule(t)
    PROVE  SafeInv'
<1> USE IdFacts DEF actorVars, codeVars, cpuVars, wakeVars
<1>1. pc \in [Threads -> Places] /\ Typed
  BY DEF SafeInv, Typed, TypeOK
<1>2. CASE \/ SchedTop(t) \/ SchedSetFs(t) \/ SchedStopCheck(t)
           \/ SchedDeclare(t) \/ SchedFindNothing(t) \/ SchedIdleWait(t)
           \/ SchedIdleTimeout(t)
  <2>1. /\ pc[t] \in LoopPlaces
        /\ \E p \in LoopPlaces : pc' = [pc EXCEPT ![t] = p]
    BY <1>2 DEF LoopPlaces, SchedTop, SchedSetFs, SchedStopCheck, SchedDeclare,
                SchedFindNothing, SchedIdleWait, SchedIdleTimeout
  <2>3. UNCHANGED <<lock, runq, status, mail, cur, stack>>
    BY <1>2 DEF SchedTop, SchedSetFs, SchedStopCheck, SchedDeclare,
                SchedFindNothing, SchedIdleWait, SchedIdleTimeout
  <2>4. LoopMoves
    BY <1>1, <2>1 DEF LoopMoves
  <2> QED
    BY <2>3, <2>4, LoopStep
<1>9. CASE RestoreStack(t)
  <2>1. /\ pc[t] = "switch" /\ t \in Schedulers
        /\ pc' = [pc EXCEPT ![t] = "release"]
        /\ stack' = [stack EXCEPT ![t] = cur[t]]
        /\ UNCHANGED <<lock, runq, status, mail, cur>>
    BY <1>1, <1>9 DEF RestoreStack, Typed, MainStaysMain
  <2>2. /\ pc'[t] = "release" /\ stack'[t] = cur[t]
        /\ \A u \in Threads \ {t} : pc'[u] = pc[u] /\ stack'[u] = stack[u]
    BY <1>1, <2>1 DEF Typed, TypeOK
  <2>3. \A u \in Threads \ {t} : pc[u] \notin {"switch", "release"}
    BY <2>1 DEF SafeInv, Switching, SwitchHoldsLock
  <2>4. SwitchHoldsLock' /\ PlaceTellsStack'
    BY <2>1, <2>2 DEF SafeInv, Switching, SwitchHoldsLock, PlaceTellsStack, LoopPlaces
  <2>5. CurrentRuns' /\ Queues'
    BY <2>1 DEF SafeInv, Switching, CurrentRuns, Queues, RunQueueExact, Queued, NoSleepOnMail
  <2>6. LeftBehind'
    BY <2>2, <2>3 DEF LeftBehind
  <2> QED
    BY <2>4, <2>5, <2>6 DEF SafeInv, Switching
<1>10. CASE RestoreRelease(t)
  <2>1. /\ pc[t] = "release" /\ t \in Schedulers /\ lock' = Nobody
        /\ pc' = [pc EXCEPT ![t] = IF cur[t] = None THEN "setfs" ELSE "actor"]
        /\ UNCHANGED <<runq, status, mail, cur, stack>>
    BY <1>1, <1>10 DEF RestoreRelease, Typed, MainStaysMain
  <2>2. /\ pc'[t] = IF cur[t] = None THEN "setfs" ELSE "actor"
        /\ \A u \in Threads \ {t} : pc'[u] = pc[u]
    BY <1>1, <2>1
  <2>3. \A u \in Threads \ {t} : pc[u] \notin {"switch", "release"}
    BY <2>1 DEF SafeInv, Switching, SwitchHoldsLock
  <2>4. SwitchHoldsLock' /\ PlaceTellsStack'
    BY <2>1, <2>2, <2>3 DEF SafeInv, Switching, SwitchHoldsLock, PlaceTellsStack, LoopPlaces
  <2>5. CurrentRuns' /\ Queues'
    BY <2>1 DEF SafeInv, Switching, CurrentRuns, Queues, RunQueueExact, Queued, NoSleepOnMail
  <2>6. LeftBehind'
    BY <2>2, <2>3 DEF LeftBehind
  <2> QED
    BY <2>4, <2>5, <2>6 DEF SafeInv, Switching
<1>11. CASE SchedDispatch(t)
  BY <1>11, DispatchSafe
<1> QED
  BY <1>2, <1>9, <1>10, <1>11 DEF Schedule

\* The steps of a computation that leave threads, lock, queue and mail alone.
LEMMA QuietSafe ==
    ASSUME SafeInv, Typed', NEW t \in Threads, NEW a \in Ids,
           \/ PostRefused(t, a) \/ SendNap(t, a) \/ SendGivesUp(t, a)
           \/ WakeIdle(t, a) \/ WakeMain(t, a) \/ WakeMainAll(t, a)
           \/ TakeRelease(t, a) \/ TakeFails(t, a)
           \/ ReceiveTimesOut(t, a) \/ MainDeclare(t, a)
           \/ MainFindsNothing(t, a) \/ MainTimesOut(t, a)
           \/ MainFutexWait(t, a) \/ MainFutexTimeout(t, a)
           \/ ActorEntry(t, a) \/ YieldResumed(t, a) \/ ActorEnds(t, a)
           \/ StopJoined(t, a) \/ StopRaise(t, a)
           \/ (\E b \in Ids : SendStart(t, a, b))
           \/ (\E b, c \in Ids : Link(t, a, b, c))
           \/ (\E timed \in BOOLEAN : ReceiveStart(t, a, timed))
    PROVE  SafeInv'
<1>1. UNCHANGED <<lock, runq, status, mail, pc, cur, stack>>
  BY DEF OnlyGoto, actorVars, cpuVars,
         PostRefused, SendNap, SendGivesUp, WakeIdle, WakeMain, WakeMainAll,
         TakeRelease, TakeFails, ReceiveTimesOut, MainDeclare, MainFindsNothing,
         MainTimesOut, MainFutexWait, MainFutexTimeout, ActorEntry,
         YieldResumed, ActorEnds, StopJoined, StopRaise, SendStart, Link,
         ReceiveStart
<1> QED
  BY <1>1, QuietStep

\* FUTEX_WAKE on the wake word sends the parked schedulers round their loop.
LEMMA WakeIdleAllSafe ==
    ASSUME SafeInv, Typed', NEW t \in Threads, NEW a \in Ids, WakeIdleAll(t, a)
    PROVE  SafeInv'
<1>1. UNCHANGED <<lock, runq, status, mail, cur, stack>>
  BY DEF WakeIdleAll, actorVars
<1>2. LoopMoves
  BY DEF WakeIdleAll, LoopPlaces, LoopMoves
<1> QED
  BY <1>1, <1>2, LoopStep

LEMMA PostSafe ==
    ASSUME SafeInv, Typed', NEW t \in Threads, NEW a \in Ids, Post(t, a)
    PROVE  SafeInv'
<1> USE IdFacts
<1> DEFINE b == sendTo[a]
<1>1. /\ b \in Ids
      /\ mail \in [Ids -> 0 .. MailRoom]
      /\ status \in [Ids -> {"free", "running", "ready", "dead", "blocked"}]
      /\ status[Main] = "running"
  BY DEF SafeInv, Typed, TypeOK, MainStaysMain
<1>2. /\ mail' = [mail EXCEPT ![b] = @ + 1]
      /\ UNCHANGED <<lock, pc, cur, stack>>
  BY DEF Post, cpuVars
<1>3. \/ status[b] = "blocked" /\ status' = [status EXCEPT ![b] = "ready"]
         /\ runq' = Append(runq, b)
      \/ status[b] # "blocked" /\ UNCHANGED <<status, runq>>
  BY DEF Post
<1> HIDE DEF b
<1>4. \A x \in Ids : status[x] = "running" => status'[x] = "running"
  BY <1>1, <1>3
<1>5. Switching'
  BY <1>2, <1>4, StatusSwitching
<1>6. RunQueueExact'
  <2>1. CASE status[b] = "blocked" /\ status' = [status EXCEPT ![b] = "ready"]
             /\ runq' = Append(runq, b)
    <3>1. b \in Slots
      BY <1>1, <2>1
    <3> QED
      BY <2>1, <3>1, EnqueueQueue
  <2>2. CASE UNCHANGED <<status, runq>>
    BY <2>2 DEF SafeInv, Queues, RunQueueExact, Queued
  <2> QED
    BY <1>3, <2>1, <2>2
<1>7. NoSleepOnMail'
  BY <1>1, <1>2, <1>3 DEF SafeInv, Queues, NoSleepOnMail
<1> QED
  BY <1>5, <1>6, <1>7 DEF SafeInv, Queues

\* A receive that takes a message does not make anybody sleep on one.
LEMMA TakeSafe ==
    ASSUME SafeInv, Typed', NEW t \in Threads, NEW a \in Ids,
           ReceiveTake(t, a) \/ MainTake(t, a)
    PROVE  SafeInv'
<1>1. /\ UNCHANGED <<lock, runq, status, pc, cur, stack>>
      /\ mail' = [mail EXCEPT ![a] = @ - 1] /\ mail[a] > 0
  BY DEF ReceiveTake, MainTake, cpuVars
<1>2. Switching'
  BY <1>1, StatusSwitching
<1>3. RunQueueExact'
  BY <1>1 DEF SafeInv, Queues, RunQueueExact, Queued
<1>4. NoSleepOnMail'
  BY <1>1, IdFacts DEF SafeInv, Typed, TypeOK, Queues, NoSleepOnMail
<1> QED
  BY <1>2, <1>3, <1>4 DEF SafeInv, Queues

LEMMA LeaveSafe ==
    ASSUME SafeInv, Typed', NEW t \in Threads, NEW a \in Ids,
           Yield(t, a) \/ ReceiveBlock(t, a) \/ ActorExit(t, a)
    PROVE  SafeInv'
<1> USE IdFacts
<1>1. a \in Slots
  BY DEF SafeInv, Typed, MainStaysMain, MainPoints, Yield, ReceiveBlock, ActorExit
<1>2. Runs(t, a) /\ lock = Nobody /\ HandBack(t)
      /\ \E v : status' = [status EXCEPT ![a] = v]
  BY DEF Yield, ReceiveBlock, ActorExit
<1>3. Switching'
  BY <1>1, <1>2, HandBackSwitching
<1>4. status[a] = "running"
  BY <1>1, <1>2 DEF Runs, SafeInv, Switching, CurrentRuns
<1>5. /\ UNCHANGED mail
      /\ mail \in [Ids -> 0 .. MailRoom]
      /\ status \in [Ids -> {"free", "running", "ready", "dead", "blocked"}]
  BY DEF Yield, ReceiveBlock, ActorExit, SafeInv, Typed, TypeOK
<1>6. CASE Yield(t, a)
  <2>1. status' = [status EXCEPT ![a] = "ready"] /\ runq' = Append(runq, a)
    BY <1>6 DEF Yield
  <2>2. RunQueueExact'
    BY <1>1, <1>4, <2>1, EnqueueQueue
  <2>3. NoSleepOnMail'
    BY <1>5, <2>1 DEF SafeInv, Queues, NoSleepOnMail
  <2> QED
    BY <1>3, <2>2, <2>3 DEF SafeInv, Queues
<1>7. CASE ReceiveBlock(t, a) \/ ActorExit(t, a)
  <2>1. /\ UNCHANGED runq
        /\ \/ status' = [status EXCEPT ![a] = "blocked"] /\ mail[a] = 0
           \/ status' = [status EXCEPT ![a] = "dead"]
    BY <1>7 DEF ReceiveBlock, ActorExit
  <2>2. \A b \in Slots : status'[b] = "ready" <=> status[b] = "ready"
    BY <1>1, <1>4, <1>5, <2>1
  <2>3. RunQueueExact'
    BY <2>1, <2>2 DEF SafeInv, Queues, RunQueueExact, Queued
  <2>4. NoSleepOnMail'
    BY <1>5, <2>1 DEF SafeInv, Queues, NoSleepOnMail
  <2> QED
    BY <1>3, <2>3, <2>4 DEF SafeInv, Queues
<1> QED
  BY <1>6, <1>7

LEMMA SpawnSafe ==
    ASSUME SafeInv, Typed', NEW t \in Threads, NEW a \in Ids, Spawn(t, a)
    PROVE  SafeInv'
<1> USE IdFacts
<1> PICK id \in Claimable :
      /\ status' = [status EXCEPT ![id] = "ready"]
      /\ runq' = Append(runq, id)
      /\ mail' = [mail EXCEPT ![id] = 0]
  BY DEF Spawn
<1>1. id \in Slots /\ status[id] \in {"free", "dead"}
  BY DEF Claimable
<1>2. UNCHANGED <<lock, pc, cur, stack>>
  BY DEF Spawn, cpuVars
<1>3. /\ mail \in [Ids -> 0 .. MailRoom]
      /\ status \in [Ids -> {"free", "running", "ready", "dead", "blocked"}]
  BY DEF SafeInv, Typed, TypeOK
<1>4. Switching'
  BY <1>1, <1>2, <1>3, StatusSwitching
<1>5. RunQueueExact'
  BY <1>1, EnqueueQueue
<1>6. NoSleepOnMail'
  BY <1>1, <1>3 DEF SafeInv, Queues, NoSleepOnMail
<1> QED
  BY <1>4, <1>5, <1>6 DEF SafeInv, Queues

\* The refused spawn keeps the lock, which nobody held.
LEMMA SpawnRefusedSafe ==
    ASSUME SafeInv, Typed', NEW t \in Threads, NEW a \in Ids, SpawnRefused(t, a)
    PROVE  SafeInv'
<1>1. /\ lock = Nobody
      /\ UNCHANGED <<runq, status, mail, pc, cur, stack>>
  BY DEF SpawnRefused, actorVars, cpuVars
<1>2. \A u \in Threads : pc[u] \notin {"switch", "release"}
  BY <1>1, FreeLockNobodySwitches DEF SafeInv, Switching
<1> QED
  BY <1>1, <1>2 DEF SafeInv, Switching, Queues, SwitchHoldsLock, PlaceTellsStack,
                    CurrentRuns, LeftBehind, RunQueueExact, Queued, NoSleepOnMail

LEMMA SafeStep == SafeInv /\ [Next]_vars => SafeInv'
<1> SUFFICES ASSUME SafeInv, [Next]_vars PROVE SafeInv'
  OBVIOUS
<1>1. Typed'
  BY TypedStep DEF SafeInv
<1>2. ASSUME NEW t \in Threads, Schedule(t) PROVE SafeInv'
  BY <1>1, <1>2, ScheduleSafe
<1>3. ASSUME NEW t \in Threads, NEW a \in Ids, Computes(t, a) PROVE SafeInv'
  <2>1. CASE SendSteps(t, a)
    BY <1>1, <2>1, QuietSafe, PostSafe, WakeIdleAllSafe DEF SendSteps
  <2>2. CASE ReceiveSteps(t, a)
    BY <1>1, <2>2, QuietSafe, TakeSafe, LeaveSafe DEF ReceiveSteps
  <2>3. CASE Calls(t, a)
    BY <1>1, <2>3, QuietSafe, LeaveSafe, SpawnSafe, SpawnRefusedSafe DEF Calls
  <2>4. CASE Finishes(t, a)
    BY <1>1, <2>4, QuietSafe, LeaveSafe DEF Finishes
  <2> QED
    BY <1>3, <2>1, <2>2, <2>3, <2>4 DEF Computes
<1>4. ASSUME NEW a \in Ids, ClockPasses(a) PROVE SafeInv'
  BY <1>1, <1>4, QuietStep DEF ClockPasses, cpuVars
<1>5. CASE UNCHANGED vars
  BY <1>1, <1>5, QuietStep DEF vars, actorVars, cpuVars
<1> QED
  BY <1>2, <1>3, <1>4, <1>5 DEF Next

\* What the invariant gives: a stack has at most one thread on it.
LEMMA SafeStacks == SafeInv => OneThreadPerStack
<1> SUFFICES ASSUME SafeInv, NEW t \in Threads, NEW u \in Threads,
                    stack[t] = stack[u], stack[t] # None
            PROVE  t = u
  BY DEF OneThreadPerStack
<1> USE IdFacts
<1>1. t \in Schedulers /\ u \in Schedulers
  BY DEF SafeInv, Switching, PlaceTellsStack
<1>2. \A x \in {t, u} :
        \/ pc[x] \in {"actor", "release"} /\ stack[x] = cur[x]
        \/ pc[x] = "switch" /\ cur[x] = None
  BY <1>1 DEF SafeInv, Typed, TypeOK, Places, Switching, PlaceTellsStack, LoopPlaces
<1>3. CASE pc[t] \in {"actor", "release"} /\ pc[u] \in {"actor", "release"}
  BY <1>2, <1>3 DEF SafeInv, Switching, CurrentRuns
<1>4. CASE pc[t] = "switch"
  BY <1>2, <1>4 DEF SafeInv, Switching, SwitchHoldsLock, LeftBehind
<1>5. CASE pc[u] = "switch"
  BY <1>2, <1>5 DEF SafeInv, Switching, SwitchHoldsLock, LeftBehind
<1> QED
  BY <1>2, <1>3, <1>4, <1>5

\* Leaving the stack before releasing the lock is enough: whatever the number
\* of scheduler threads and actors and whatever they call, two CPUs never
\* stand on one actor's stack.
THEOREM StacksAreExclusive == Spec => []OneThreadPerStack
<1> QED
  BY SafeInit, SafeStep, SafeStacks, PTL DEF Spec

\* The run queue holds exactly the ready actors, each once.
THEOREM QueueIsExact == Spec => []RunQueueExact
<1>1. SafeInv => RunQueueExact
  BY DEF SafeInv, Queues
<1> QED
  BY <1>1, SafeInit, SafeStep, PTL DEF Spec

\* No actor is blocked on a mailbox that holds a message.
THEOREM NobodySleepsOnMail == Spec => []NoSleepOnMail
<1>1. SafeInv => NoSleepOnMail
  BY DEF SafeInv, Queues
<1> QED
  BY <1>1, SafeInit, SafeStep, PTL DEF Spec

-----------------------------------------------------------------------------
(* The wake word, with any number of actors and schedulers.  A scheduler    *)
(* that declares its intent to sleep erases the word, a wake meant for      *)
(* another one included, but it looks at the queue next.  So while all of   *)
(* them are past their look, idle or parked, nobody has erased the wake of  *)
(* an actor that was queued since; and main alone computes then.            *)

AtRest == \A t \in Schedulers : pc[t] \in {"idle", "parked"}

AllParked == \A t \in Schedulers : pc[t] = "parked"

AwakeInv ==
    ~stop /\ runq # <<>> /\ AtRest
        => /\ wake = 0 => \E a \in Ids : at[a] = "wake"
           /\ AllParked => Waking

\* Steps that leave threads, queue and word alone, and do not end a wake.
LEMMA AwakeQuiet ==
    ASSUME AwakeInv, UNCHANGED <<runq, pc, wake, stop>>,
           \A b \in Ids : at[b] \in {"wake", "wakeAll"} => at'[b] = at[b]
    PROVE  AwakeInv'
BY DEF AwakeInv, AtRest, AllParked, Waking

\* A computation's step that goes from one point to another.
LEMMA AwakeGoto ==
    ASSUME SafeInv, AwakeInv, UNCHANGED <<runq, pc, wake, stop>>,
           NEW a \in Ids, NEW p, Goto(a, p), at[a] \notin {"wake", "wakeAll"}
    PROVE  AwakeInv'
<1>1. at' = [at EXCEPT ![a] = p] /\ DOMAIN at = Ids
  BY DEF Goto, SafeInv, Typed, TypeOK
<1>2. \A b \in Ids : at'[b] = IF b = a THEN p ELSE at[b]
  BY <1>1
<1> QED
  BY <1>2, AwakeQuiet

\* A scheduler's own steps.  It comes to rest by going idle beside an empty
\* queue, or by parking while nobody is awake but main and the word reads 0.
LEMMA AwakeSchedule ==
    ASSUME SafeInv, AwakeInv, NEW t \in Threads, Schedule(t)
    PROVE  AwakeInv'
<1>1. UNCHANGED <<at, stop>>
  BY DEF Schedule, SchedTop, SchedSetFs, SchedStopCheck, SchedDeclare, SchedFindNothing, SchedDispatch,
         SchedIdleWait, SchedIdleTimeout, RestoreStack, RestoreRelease, codeVars, wakeVars
<1>2. t \in Schedulers /\ pc \in [Threads -> Places]
  <2>1. pc[t] # "actor"
    BY DEF Schedule, SchedTop, SchedSetFs, SchedStopCheck, SchedDeclare, SchedFindNothing, SchedDispatch,
           SchedIdleWait, SchedIdleTimeout, RestoreStack, RestoreRelease
  <2> QED
    BY <2>1, IdFacts DEF SafeInv, Typed, TypeOK, MainStaysMain
<1> SUFFICES ASSUME ~stop, AtRest', runq' # <<>>
             PROVE  (wake' = 0 => \E a \in Ids : at[a] = "wake") /\ (AllParked' => Waking)
  BY <1>1 DEF AwakeInv, Waking
<1>3. pc'[t] \in {"idle", "parked"}
  BY <1>2 DEF AtRest
<1>4. CASE SchedIdleWait(t)
  <2>1. /\ pc[t] = "idle" /\ pc' = [pc EXCEPT ![t] = IF wake = 0 THEN "parked" ELSE "top"]
        /\ UNCHANGED <<runq, wake>>
    BY <1>4 DEF SchedIdleWait, wakeVars
  <2>2. wake = 0 /\ \A u \in Threads \ {t} : pc'[u] = pc[u]
    BY <1>2, <1>3, <2>1
  <2>3. AtRest
    BY <2>1, <2>2, IdFacts DEF AtRest
  <2> QED
    BY <2>1, <2>2, <2>3 DEF AwakeInv, Waking
<1>5. CASE SchedFindNothing(t)
  BY <1>5 DEF SchedFindNothing
<1>6. CASE \/ SchedTop(t) \/ SchedSetFs(t) \/ SchedStopCheck(t) \/ SchedDeclare(t)
           \/ SchedDispatch(t) \/ SchedIdleTimeout(t) \/ RestoreStack(t) \/ RestoreRelease(t)
  <2>1. pc'[t] \in {"stop2", "declare", "look", "switch", "top", "release", "setfs", "actor"}
    BY <1>2, <1>6 DEF SchedTop, SchedSetFs, SchedStopCheck, SchedDeclare, SchedDispatch,
                      SchedIdleTimeout, RestoreStack, RestoreRelease
  <2> QED
    BY <1>3, <2>1
<1> QED
  BY <1>4, <1>5, <1>6 DEF Schedule

\* A computation moves no thread but its own to the switch, and the parked
\* ones to the top of their loop.
LEMMA ComputeThreads ==
    ASSUME NEW t \in Threads, NEW a \in Ids, Computes(t, a)
    PROVE  /\ Runs(t, a)
           /\ \/ pc' = pc
              \/ pc' = [pc EXCEPT ![t] = "switch"]
              \/ pc' = [u \in Threads |-> IF pc[u] = "parked" THEN "top" ELSE pc[u]]
<1>1. CASE SendSteps(t, a)
  BY <1>1 DEF SendSteps, Post, PostRefused, SendNap, SendGivesUp, WakeIdle, WakeIdleAll, WakeMain,
              WakeMainAll, OnlyGoto, cpuVars
<1>2. CASE ReceiveSteps(t, a)
  BY <1>2 DEF ReceiveSteps, ReceiveTake, TakeRelease, TakeFails, ReceiveTimesOut, ReceiveBlock,
              MainDeclare, MainTake, MainFindsNothing, MainTimesOut, MainFutexWait, MainFutexTimeout,
              HandBack, OnlyGoto, cpuVars
<1>3. CASE Calls(t, a)
  BY <1>3 DEF Calls, Yield, Spawn, SpawnRefused, StopRaise, SendStart, Link, ReceiveStart, HandBack, cpuVars
<1>4. CASE Finishes(t, a)
  BY <1>4 DEF Finishes, ActorEntry, YieldResumed, ActorEnds, ActorExit, StopJoined, HandBack, cpuVars
<1> QED
  BY <1>1, <1>2, <1>3, <1>4 DEF Computes

\* The schedulers are not all at rest while one of them runs an actor: a step
\* that leaves them at rest is main's.
LEMMA RestingMeansMain ==
    ASSUME SafeInv, NEW t \in Threads, NEW a \in Ids, Computes(t, a), AtRest'
    PROVE  a = Main
<1>1. Runs(t, a) /\ pc \in [Threads -> Places]
  BY ComputeThreads DEF SafeInv, Typed, TypeOK
<1>2. pc'[t] \in {"actor", "switch"}
  BY <1>1, ComputeThreads DEF Runs
<1>3. t = MainThread
  BY <1>2, IdFacts DEF AtRest
<1> QED
  BY <1>1, <1>3 DEF Runs, SafeInv, Typed, MainStaysMain

\* Main queues an actor only on its way to a wake, and its wake leaves no
\* scheduler parked.
LEMMA AwakeSend ==
    ASSUME Schedulers # {}, SafeInv, AwakeInv, NEW t \in Threads, SendSteps(t, Main)
    PROVE  AwakeInv'
<1>1. Main \in Ids /\ at \in [Ids -> Points]
  BY IdFacts DEF SafeInv, Typed, TypeOK
<1>2. CASE Post(t, Main)
  <2>1. /\ at[Main] = "send" /\ UNCHANGED <<pc, wake, stop>>
        /\ \/ Goto(Main, "wake")
           \/ UNCHANGED runq /\ \E p \in {"mwake", AfterSend(Main)} : Goto(Main, p)
    BY <1>2 DEF Post, cpuVars, wakeVars
  <2>2. CASE Goto(Main, "wake")
    <3>1. at'[Main] = "wake"
      BY <1>1, <2>2 DEF Goto
    <3> QED
      BY <1>1, <3>1 DEF AwakeInv, Waking
  <2>3. CASE UNCHANGED runq /\ \E p \in {"mwake", AfterSend(Main)} : Goto(Main, p)
    BY <1>1, <2>1, <2>3, AwakeGoto
  <2> QED
    BY <2>1, <2>2, <2>3
<1>3. CASE PostRefused(t, Main) \/ SendNap(t, Main) \/ SendGivesUp(t, Main) \/ WakeMain(t, Main)
  <2>1. /\ at[Main] \notin {"wake", "wakeAll"} /\ UNCHANGED <<runq, pc, wake, stop>>
        /\ \E p \in {"nap", "full", "send", "user", "mwakeAll"} : Goto(Main, p)
    BY <1>3 DEF PostRefused, SendNap, SendGivesUp, WakeMain, OnlyGoto, cpuVars, wakeVars
  <2> QED
    BY <1>1, <2>1, AwakeGoto
<1>4. CASE WakeMainAll(t, Main)
  <2>1. /\ at[Main] = "mwakeAll" /\ UNCHANGED <<runq, pc, wake, stop>>
        /\ \A b \in Ids : b # Main => at'[b] = at[b]
    BY <1>1, <1>4 DEF WakeMainAll, cpuVars, wakeVars
  <2> QED
    BY <2>1, AwakeQuiet
<1>5. CASE WakeIdle(t, Main)
  <2>1. wake' = 1 /\ at'[Main] = "wakeAll"
    BY <1>1, <1>5 DEF WakeIdle, Goto
  <2> QED
    BY <1>1, <2>1 DEF AwakeInv, Waking
<1>6. CASE WakeIdleAll(t, Main)
  <2>1. /\ at[Main] = "wakeAll" /\ UNCHANGED <<runq, wake, stop>>
        /\ \A b \in Ids : b # Main => at'[b] = at[b]
        /\ pc' = [u \in Threads |-> IF pc[u] = "parked" THEN "top" ELSE pc[u]]
    BY <1>1, <1>6 DEF WakeIdleAll, Goto, wakeVars
  <2>2. \A u \in Schedulers : pc'[u] = IF pc[u] = "parked" THEN "top" ELSE pc[u]
    BY <2>1, IdFacts
  <2>3. AtRest' => AtRest /\ ~AllParked'
    BY <2>2 DEF AtRest, AllParked
  <2> QED
    BY <2>1, <2>3 DEF AwakeInv
<1> QED
  BY <1>2, <1>3, <1>4, <1>5, <1>6 DEF SendSteps

\* Main's receives and calls: a spawn is on its way to a wake, and a stop ends
\* the promise.
LEMMA AwakeCalls ==
    ASSUME SafeInv, AwakeInv, NEW t \in Threads,
           ReceiveSteps(t, Main) \/ Calls(t, Main) \/ Finishes(t, Main)
    PROVE  AwakeInv'
<1>1. Main \in Ids /\ Main \notin Slots /\ at \in [Ids -> Points] /\ at[Main] \in MainPoints
  BY IdFacts DEF SafeInv, Typed, TypeOK, MainStaysMain
<1>2. CASE Spawn(t, Main)
  <2>1. /\ UNCHANGED <<pc, wake, stop>>
        /\ \E id \in Slots : at' = [at EXCEPT ![id] = "entry", ![Main] = "wake"]
    BY <1>2 DEF Spawn, Claimable, cpuVars, wakeVars
  <2>2. at'[Main] = "wake"
    BY <1>1, <2>1
  <2> QED
    BY <1>1, <2>2 DEF AwakeInv, Waking
<1>3. CASE \E b, c \in Ids : Link(t, Main, b, c)
  <2>1. UNCHANGED <<at, runq, pc, wake, stop>>
    BY <1>3 DEF Link, codeVars, cpuVars, wakeVars
  <2> QED
    BY <2>1, AwakeQuiet
<1>4. CASE StopRaise(t, Main)
  BY <1>4 DEF StopRaise, AwakeInv
<1>5. CASE ReceiveSteps(t, Main) /\ ~ReceiveBlock(t, Main)
  <2>1. /\ at[Main] \notin {"wake", "wakeAll"} /\ UNCHANGED <<runq, pc, wake, stop>>
        /\ \E p \in {"take", "user", "mlook", "mwait", "mparked", "mdeclare"} : Goto(Main, p)
    BY <1>5 DEF ReceiveSteps, ReceiveTake, TakeRelease, TakeFails, ReceiveTimesOut, MainDeclare, MainTake,
                MainFindsNothing, MainTimesOut, MainFutexWait, MainFutexTimeout, OnlyGoto, cpuVars, wakeVars
  <2> QED
    BY <1>1, <2>1, AwakeGoto
<1>6. CASE \/ \E b \in Ids : SendStart(t, Main, b)
           \/ \E timed \in BOOLEAN : ReceiveStart(t, Main, timed)
           \/ ActorEntry(t, Main) \/ YieldResumed(t, Main) \/ StopJoined(t, Main)
  <2>1. /\ at[Main] \notin {"wake", "wakeAll"} /\ UNCHANGED <<runq, pc, wake, stop>>
        /\ \E p \in {"send", "mdeclare", "recv", "user"} : Goto(Main, p)
    BY <1>6 DEF SendStart, ReceiveStart, ActorEntry, YieldResumed, StopJoined, cpuVars, wakeVars
  <2> QED
    BY <1>1, <2>1, AwakeGoto
\* Main is no actor that yields, blocks or ends.
<1>7. ~(\/ Yield(t, Main) \/ SpawnRefused(t, Main) \/ ReceiveBlock(t, Main)
        \/ ActorEnds(t, Main) \/ ActorExit(t, Main))
  BY <1>1 DEF Yield, SpawnRefused, ReceiveBlock, ActorEnds, ActorExit, MainPoints
<1> QED
  BY <1>2, <1>3, <1>4, <1>5, <1>6, <1>7 DEF Calls, Finishes

\* THE WAKE WORD IS A STATE, in every instance: until actors-stop is called the
\* schedulers never all sleep beside an actor that could run, unless main is
\* about to wake them.  (One of them may sleep beside work while another runs.)
THEOREM SchedulersDoNotAllSleep ==
    ASSUME Schedulers # {}
    PROVE  Spec => []NotAllAsleep
<1>1. Init => AwakeInv
  BY DEF Init, AwakeInv
<1>2. SafeInv /\ AwakeInv /\ [Next]_vars => AwakeInv'
  <2> SUFFICES ASSUME SafeInv, AwakeInv, [Next]_vars PROVE AwakeInv'
    OBVIOUS
  <2>1. ASSUME NEW t \in Threads, NEW a \in Ids, Computes(t, a) PROVE AwakeInv'
    <3>1. CASE AtRest'
      <4>1. a = Main
        BY <2>1, <3>1, RestingMeansMain
      <4> QED
        BY <2>1, <4>1, AwakeSend, AwakeCalls DEF Computes
    <3>2. CASE ~AtRest'
      BY <3>2 DEF AwakeInv
    <3> QED
      BY <3>1, <3>2
  <2>2. ASSUME NEW a \in Ids, ClockPasses(a) PROVE AwakeInv'
    <3>1. UNCHANGED <<at, runq, pc, wake, stop>>
      BY <2>2 DEF ClockPasses, codeVars, cpuVars, wakeVars
    <3> QED
      BY <3>1, AwakeQuiet
  <2>3. CASE UNCHANGED vars
    <3>1. UNCHANGED <<at, runq, pc, wake, stop>>
      BY <2>3 DEF vars, codeVars, cpuVars, wakeVars
    <3> QED
      BY <3>1, AwakeQuiet
  <2> QED
    BY <2>1, <2>2, <2>3, AwakeSchedule DEF Next
<1>3. AwakeInv => NotAllAsleep
  BY DEF AwakeInv, AtRest, AllParked, NotAllAsleep
<1> QED
  BY <1>1, <1>2, <1>3, SafeInit, SafeStep, PTL DEF Spec
=============================================================================
