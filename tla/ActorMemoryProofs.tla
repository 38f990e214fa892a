------------------------- MODULE ActorMemoryProofs --------------------------
(***************************************************************************)
(* What the collector, the thread windows, the cell pool and main's wake    *)
(* word rest on, for any number of schedulers, slots, cells and any program *)
(* of calls: invariants on top of SafeInv of ActorRuntimeProofs.            *)
(***************************************************************************)
EXTENDS ActorRuntimeProofs

-----------------------------------------------------------------------------
(* The collector.  A waiting actor has its scan entry; a running one has it *)
(* until it is on its own stack again, where the thread's scan finds it.    *)

WaitingScanned ==
    \A a \in Slots : status[a] \in {"ready", "blocked"} => scan[a]

RunningFound ==
    \A a \in Slots : status[a] = "running" =>
        scan[a] \/ \E t \in Schedulers : pc[t] = "actor" /\ cur[t] = a

Collected == WaitingScanned /\ RunningFound

\* Threads on actors stay there, statuses and scan entries stay.
LEMMA CollectedQuiet ==
    ASSUME Collected, UNCHANGED <<status, scan, cur>>,
           \A u \in Schedulers : pc[u] = "actor" => pc'[u] = "actor"
    PROVE  Collected'
BY DEF Collected, WaitingScanned, RunningFound

\* An actor clears its own scan entry while it runs.
LEMMA CollectedUnscan ==
    ASSUME SafeInv, Collected, NEW t \in Threads, NEW a \in Ids, Runs(t, a),
           scan' = [scan EXCEPT ![a] = FALSE], UNCHANGED <<status, pc, cur>>
    PROVE  Collected'
<1> USE IdFacts
<1>1. status[a] = "running" /\ (a \in Slots => t \in Schedulers)
  BY DEF SafeInv, Switching, CurrentRuns, Typed, MainStaysMain, Runs
<1>2. \A b \in Ids : b # a => scan'[b] = scan[b]
  BY DEF SafeInv, Typed, TypeOK
<1>3. WaitingScanned'
  BY <1>1, <1>2 DEF Collected, WaitingScanned
<1>4. RunningFound'
  BY <1>1, <1>2 DEF Collected, RunningFound, Runs
<1> QED
  BY <1>3, <1>4 DEF Collected

\* A thread leaves its actor, whose scan entry is set unless it is dead.
LEMMA CollectedHandBack ==
    ASSUME SafeInv, Collected, NEW t \in Threads, NEW a \in Slots, Runs(t, a),
           HandBack(t), NEW v \in {"ready", "blocked", "dead"},
           status' = [status EXCEPT ![a] = v],
           scan' = [scan EXCEPT ![a] = (v # "dead")]
    PROVE  Collected'
<1> USE IdFacts
<1>1. /\ status \in [Ids -> {"free", "running", "ready", "dead", "blocked"}]
      /\ scan \in [Ids -> BOOLEAN]
      /\ pc \in [Threads -> Places] /\ cur \in [Threads -> Ids \cup {None}]
  BY DEF SafeInv, Typed, TypeOK
<1>2. /\ status'[a] = v /\ (v # "dead" => scan'[a])
      /\ \A b \in Slots : b # a => status'[b] = status[b] /\ scan'[b] = scan[b]
  BY <1>1
<1>3. \A u \in Schedulers : u # t => pc'[u] = pc[u] /\ cur'[u] = cur[u]
  BY <1>1 DEF HandBack
<1>4. WaitingScanned'
  BY <1>2 DEF Collected, WaitingScanned
<1>5. RunningFound'
  BY <1>2, <1>3 DEF Collected, RunningFound, Runs
<1> QED
  BY <1>4, <1>5 DEF Collected

LEMMA CollectedDispatch ==
    ASSUME SafeInv, Collected, NEW t \in Threads, SchedDispatch(t)
    PROVE  Collected'
<1> USE IdFacts
<1> PICK s \in Enumerations(Expired) :
      /\ runq \o s # <<>>
      /\ status' = [a \in Ids |-> IF a = Head(runq \o s) THEN "running"
                                  ELSE StatusAfterExpire(a)]
      /\ cur' = [cur EXCEPT ![t] = Head(runq \o s)]
  BY DEF SchedDispatch
<1>1. s \in Seq(Slots) /\ \A i \in DOMAIN s : s[i] \in Expired
  BY ExpiredFacts
<1>2. runq \in Seq(Slots) /\ pc \in [Threads -> Places]
      /\ cur \in [Threads -> Ids \cup {None}]
  BY DEF SafeInv, Typed, TypeOK
<1> DEFINE h == Head(runq \o s)
<1>3. h \in Slots /\ scan[h]
  <2>1. \A i \in DOMAIN runq : runq[i] \in Slots /\ status[runq[i]] = "ready"
    BY <1>2 DEF SafeInv, Queues, RunQueueExact, Queued
  <2>2. \A i \in DOMAIN s : s[i] \in Slots /\ status[s[i]] = "blocked"
    BY <1>1 DEF Expired
  <2>3. CASE runq # <<>>
    <3>1. h = runq[1] /\ 1 \in DOMAIN runq
      BY <1>1, <1>2, <2>3
    <3> QED
      BY <2>1, <3>1 DEF Collected, WaitingScanned
  <2>4. CASE runq = <<>>
    <3>1. h = s[1] /\ 1 \in DOMAIN s
      BY <1>1, <1>2, <2>4
    <3> QED
      BY <2>2, <3>1 DEF Collected, WaitingScanned
  <2> QED
    BY <2>3, <2>4
<1> HIDE DEF h
<1>4. /\ status' = [a \in Ids |-> IF a = h THEN "running" ELSE StatusAfterExpire(a)]
      /\ cur' = [cur EXCEPT ![t] = h]
      /\ pc[t] = "look" /\ pc' = [pc EXCEPT ![t] = "switch"]
      /\ scan' = scan
  BY DEF h, SchedDispatch
<1>5. \A a \in Slots :
        status'[a] = (IF a = h THEN "running"
                      ELSE IF a \in Expired THEN "ready" ELSE status[a])
  BY <1>4 DEF StatusAfterExpire
<1>6. \A a \in Expired : status[a] = "blocked"
  BY DEF Expired
<1>7. WaitingScanned'
  BY <1>4, <1>5, <1>6 DEF Collected, WaitingScanned
<1>8. RunningFound'
  <2>1. \A u \in Schedulers : pc[u] = "actor" => pc'[u] = "actor" /\ cur'[u] = cur[u]
    BY <1>2, <1>4
  <2> SUFFICES ASSUME NEW a \in Slots, status'[a] = "running"
              PROVE  scan'[a] \/ \E u \in Schedulers : pc'[u] = "actor" /\ cur'[u] = a
    BY DEF RunningFound
  <2>2. a = h \/ status[a] = "running"
    BY <1>5
  <2>3. status[a] = "running" =>
          scan[a] \/ \E u \in Schedulers : pc[u] = "actor" /\ cur[u] = a
    BY DEF Collected, RunningFound
  <2> QED
    BY <1>3, <1>4, <2>1, <2>2, <2>3
<1> QED
  BY <1>7, <1>8 DEF Collected

LEMMA CollectedSpawn ==
    ASSUME SafeInv, Collected, NEW t \in Threads, NEW a \in Ids, Spawn(t, a)
    PROVE  Collected'
<1> PICK id \in Claimable :
      /\ status' = [status EXCEPT ![id] = "ready"]
      /\ scan' = [scan EXCEPT ![id] = TRUE]
  BY DEF Spawn
<1>1. id \in Slots /\ UNCHANGED <<pc, cur>>
  BY DEF Claimable, Spawn, cpuVars
<1>2. /\ status \in [Ids -> {"free", "running", "ready", "dead", "blocked"}]
      /\ scan \in [Ids -> BOOLEAN]
  BY DEF SafeInv, Typed, TypeOK
<1>3. /\ status'[id] = "ready" /\ scan'[id]
      /\ \A b \in Slots : b # id => status'[b] = status[b] /\ scan'[b] = scan[b]
  BY <1>1, <1>2, IdFacts
<1> QED
  BY <1>1, <1>3 DEF Collected, WaitingScanned, RunningFound

\* A post only ever makes a blocked actor ready.
LEMMA CollectedPost ==
    ASSUME SafeInv, Collected, NEW t \in Threads, NEW a \in Ids, Post(t, a)
    PROVE  Collected'
<1> USE IdFacts
<1> DEFINE b == sendTo[a]
<1>1. /\ status \in [Ids -> {"free", "running", "ready", "dead", "blocked"}]
      /\ b \in Ids
  BY DEF SafeInv, Typed, TypeOK
<1>2. /\ UNCHANGED <<scan, pc, cur>>
      /\ \/ UNCHANGED status
         \/ status[b] = "blocked" /\ status' = [status EXCEPT ![b] = "ready"]
  BY DEF Post, cpuVars
<1> HIDE DEF b
<1>3. CASE UNCHANGED status
  BY <1>2, <1>3, CollectedQuiet
<1>4. CASE status[b] = "blocked" /\ status' = [status EXCEPT ![b] = "ready"]
  <2>1. status'[b] = "ready" /\ \A c \in Slots : c # b => status'[c] = status[c]
    BY <1>1, <1>4
  <2> QED
    BY <1>2, <1>4, <2>1 DEF Collected, WaitingScanned, RunningFound
<1> QED
  BY <1>2, <1>3, <1>4

LEMMA CollectedSchedule ==
    ASSUME SafeInv, Collected, NEW t \in Threads, Schedule(t)
    PROVE  Collected'
<1>1. CASE SchedDispatch(t)
  BY <1>1, CollectedDispatch
<1>2. CASE ~SchedDispatch(t)
  <2>1. UNCHANGED <<status, scan, cur>>
    BY <1>2 DEF Schedule, SchedTop, SchedSetFs, SchedStopCheck, SchedDeclare,
       SchedFindNothing, SchedIdleWait, SchedIdleTimeout, RestoreStack,
       RestoreRelease, actorVars
  <2>2. \E p \in Places : pc' = [pc EXCEPT ![t] = p] /\ pc[t] # "actor"
    BY <1>2 DEF Places, Schedule, SchedTop, SchedSetFs, SchedStopCheck, SchedDeclare,
       SchedFindNothing, SchedIdleWait, SchedIdleTimeout, RestoreStack,
       RestoreRelease, actorVars
  <2>3. \A u \in Schedulers : pc[u] = "actor" => pc'[u] = "actor"
    BY <2>2, IdFacts DEF SafeInv, Typed, TypeOK
  <2> QED
    BY <2>1, <2>3, CollectedQuiet
<1> QED
  BY <1>1, <1>2

LEMMA CollectedComputes ==
    ASSUME SafeInv, Collected, NEW t \in Threads, NEW a \in Ids, Computes(t, a)
    PROVE  Collected'
<1> USE DEF actorVars, cpuVars, OnlyGoto
<1>1. ASSUME \/ PostRefused(t, a) \/ SendNap(t, a) \/ SendGivesUp(t, a)
             \/ WakeIdle(t, a) \/ WakeMain(t, a) \/ WakeMainAll(t, a)
             \/ TakeRelease(t, a) \/ TakeFails(t, a)
             \/ MainDeclare(t, a) \/ MainTake(t, a)
             \/ MainFindsNothing(t, a) \/ MainTimesOut(t, a)
             \/ MainFutexWait(t, a) \/ MainFutexTimeout(t, a)
             \/ SpawnRefused(t, a) \/ StopRaise(t, a) \/ ActorEnds(t, a)
             \/ StopJoined(t, a)
             \/ \E b \in Ids : SendStart(t, a, b)
             \/ \E b, c \in Ids : Link(t, a, b, c)
             \/ \E timed \in BOOLEAN : ReceiveStart(t, a, timed)
      PROVE  Collected'
  <2>1. UNCHANGED <<status, scan, pc, cur>>
    BY <1>1 DEF PostRefused, SendNap, SendGivesUp, WakeIdle, WakeMain, WakeMainAll,
       TakeRelease, TakeFails, MainDeclare, MainTake, MainFindsNothing, MainTimesOut,
       MainFutexWait, MainFutexTimeout, SpawnRefused, StopRaise, ActorEnds,
       StopJoined, SendStart, Link, ReceiveStart
  <2> QED
    BY <2>1, CollectedQuiet
<1>2. CASE WakeIdleAll(t, a)
  <2>1. \A u \in Schedulers : pc[u] = "actor" => pc'[u] = "actor"
    BY <1>2, IdFacts DEF WakeIdleAll
  <2> QED
    BY <1>2, <2>1, CollectedQuiet DEF WakeIdleAll
<1>3. CASE ReceiveTake(t, a) \/ ReceiveTimesOut(t, a) \/ ActorEntry(t, a)
           \/ YieldResumed(t, a)
  <2>1. /\ Runs(t, a) /\ scan' = [scan EXCEPT ![a] = FALSE]
        /\ UNCHANGED <<status, pc, cur>>
    BY <1>3 DEF ReceiveTake, ReceiveTimesOut, ActorEntry, YieldResumed
  <2> QED
    BY <2>1, CollectedUnscan
<1>4. CASE Yield(t, a) \/ ReceiveBlock(t, a) \/ ActorExit(t, a)
  <2>1. /\ Runs(t, a) /\ HandBack(t)
        /\ \/ /\ status' = [status EXCEPT ![a] = "ready"]
              /\ scan' = [scan EXCEPT ![a] = TRUE]
           \/ /\ status' = [status EXCEPT ![a] = "blocked"]
              /\ scan' = [scan EXCEPT ![a] = TRUE]
           \/ /\ status' = [status EXCEPT ![a] = "dead"]
              /\ scan' = [scan EXCEPT ![a] = FALSE]
    BY <1>4 DEF Yield, ReceiveBlock, ActorExit
  <2>2. a \in Slots
    <3>1. a = Main => at[a] \notin {"recv", "exit"}
      BY DEF SafeInv, Typed, MainStaysMain, MainPoints
    <3> QED
      BY <1>4, <3>1, IdFacts DEF Yield, ReceiveBlock, ActorExit
  <2> QED
    BY <2>1, <2>2, CollectedHandBack
<1> QED
  BY <1>1, <1>2, <1>3, <1>4, CollectedPost, CollectedSpawn
     DEF Computes, SendSteps, ReceiveSteps, Calls, Finishes

\* What the collector is promised: at every instant a live actor is covered by
\* its scan entry or by the scan of a thread that stands on its stack.
THEOREM CollectorMissesNobody == Spec => []CollectorReachesActors
<1>1. Init => Collected
  BY IdFacts DEF Init, Collected, WaitingScanned, RunningFound
<1>2. SafeInv /\ Collected /\ [Next]_vars => Collected'
  <2> SUFFICES ASSUME SafeInv, Collected, [Next]_vars PROVE Collected'
    OBVIOUS
  <2>1. ASSUME NEW a \in Ids, ClockPasses(a) PROVE Collected'
    BY <2>1, CollectedQuiet DEF ClockPasses, cpuVars
  <2>2. CASE UNCHANGED vars
    BY <2>2, CollectedQuiet DEF vars, actorVars, cpuVars
  <2> QED
    BY <2>1, <2>2, CollectedSchedule, CollectedComputes DEF Next
<1>3. SafeInv /\ Collected => CollectorReachesActors
  <2> SUFFICES ASSUME SafeInv, Collected, NEW a \in Slots,
                      status[a] \in {"running", "ready", "blocked"}, ~scan[a]
              PROVE  \E t \in Threads : stack[t] = a
    BY DEF CollectorReachesActors
  <2>1. PICK t \in Schedulers : pc[t] = "actor" /\ cur[t] = a
    BY DEF Collected, WaitingScanned, RunningFound
  <2> QED
    BY <2>1, IdFacts DEF SafeInv, Switching, PlaceTellsStack
<1> QED
  BY <1>1, <1>2, <1>3, SafeInit, SafeStep, PTL DEF Spec

-----------------------------------------------------------------------------
(* The thread windows.  A thread that executes an actor, or is on its way   *)
(* to one, has that actor's window; in its loop it has its own, but for the *)
(* step that puts FS back.                                                  *)

WindowFollows ==
    /\ window[MainThread] = None
    /\ \A t \in Schedulers :
         /\ pc[t] = "actor" => window[t] = cur[t]
         /\ pc[t] \in {"switch", "release"} /\ cur[t] # None => window[t] = cur[t]
         /\ pc[t] \in LoopPlaces \ {"setfs"} => window[t] = None

LEMMA WindowQuiet ==
    ASSUME WindowFollows, UNCHANGED <<cur, window>>,
           \A u \in Schedulers : pc'[u] = pc[u] \/ (pc[u] = "parked" /\ pc'[u] = "top")
    PROVE  WindowFollows'
BY IdFacts DEF WindowFollows, LoopPlaces

LEMMA WindowHandBack ==
    ASSUME SafeInv, WindowFollows, NEW t \in Threads, HandBack(t)
    PROVE  WindowFollows'
<1>1. /\ pc \in [Threads -> Places] /\ cur \in [Threads -> Ids \cup {None}]
      /\ cur' = [cur EXCEPT ![t] = None] /\ pc' = [pc EXCEPT ![t] = "switch"]
      /\ UNCHANGED window
  BY DEF SafeInv, Typed, TypeOK, HandBack
<1> QED
  BY <1>1, IdFacts DEF WindowFollows, LoopPlaces

LEMMA WindowSchedule ==
    ASSUME SafeInv, WindowFollows, NEW t \in Threads, Schedule(t)
    PROVE  WindowFollows'
<1> USE IdFacts
<1>1. /\ pc \in [Threads -> Places] /\ cur \in [Threads -> Ids \cup {None}]
      /\ window \in [Threads -> Slots \cup {None}]
      /\ pc[MainThread] = "actor"
      /\ \A u \in Schedulers : pc[u] \in {"actor", "release"} => stack[u] = cur[u]
  BY DEF SafeInv, Typed, TypeOK, MainStaysMain, Switching, PlaceTellsStack
<1>2. CASE SchedDispatch(t)
  <2> PICK h : /\ cur' = [cur EXCEPT ![t] = h]
               /\ window' = [window EXCEPT ![t] = h]
    BY <1>2 DEF SchedDispatch
  <2>1. pc[t] = "look" /\ pc' = [pc EXCEPT ![t] = "switch"]
    BY <1>2 DEF SchedDispatch
  <2> QED
    BY <1>1, <2>1 DEF WindowFollows, LoopPlaces
<1>3. CASE SchedSetFs(t)
  BY <1>1, <1>3 DEF SchedSetFs, WindowFollows, LoopPlaces
<1>4. CASE RestoreStack(t)
  BY <1>1, <1>4 DEF RestoreStack, WindowFollows, LoopPlaces
<1>5. CASE RestoreRelease(t)
  BY <1>1, <1>5 DEF RestoreRelease, WindowFollows, LoopPlaces
<1>6. CASE \/ SchedTop(t) \/ SchedStopCheck(t) \/ SchedDeclare(t)
           \/ SchedFindNothing(t) \/ SchedIdleWait(t) \/ SchedIdleTimeout(t)
  <2>1. /\ pc[t] \in LoopPlaces \ {"setfs"}
        /\ \E p \in LoopPlaces \ {"setfs"} : pc' = [pc EXCEPT ![t] = p]
        /\ UNCHANGED <<cur, window>>
    BY <1>6 DEF LoopPlaces, SchedTop, SchedStopCheck, SchedDeclare,
                SchedFindNothing, SchedIdleWait, SchedIdleTimeout
  <2> QED
    BY <1>1, <2>1 DEF WindowFollows, LoopPlaces
<1> QED
  BY <1>2, <1>3, <1>4, <1>5, <1>6 DEF Schedule

LEMMA WindowComputes ==
    ASSUME SafeInv, WindowFollows, NEW t \in Threads, NEW a \in Ids, Computes(t, a)
    PROVE  WindowFollows'
<1> USE DEF cpuVars, OnlyGoto
<1>1. CASE SendSteps(t, a)
  <2>1. CASE WakeIdleAll(t, a)
    <3>1. \A u \in Schedulers : pc'[u] = pc[u] \/ (pc[u] = "parked" /\ pc'[u] = "top")
      BY <2>1, IdFacts DEF WakeIdleAll
    <3> QED
      BY <2>1, <3>1, WindowQuiet DEF WakeIdleAll
  <2>2. CASE ~WakeIdleAll(t, a)
    <3>1. UNCHANGED <<pc, cur, window>>
      BY <1>1, <2>2 DEF SendSteps, Post, PostRefused, SendNap, SendGivesUp,
         WakeIdle, WakeMain, WakeMainAll
    <3> QED
      BY <3>1, WindowQuiet
  <2> QED
    BY <2>1, <2>2
<1>2. CASE ReceiveSteps(t, a)
  <2>1. CASE ReceiveBlock(t, a)
    BY <2>1, WindowHandBack DEF ReceiveBlock
  <2>2. CASE ~ReceiveBlock(t, a)
    <3>1. UNCHANGED <<pc, cur, window>>
      BY <1>2, <2>2 DEF ReceiveSteps, ReceiveTake, TakeRelease, TakeFails, ReceiveTimesOut,
         MainDeclare, MainTake, MainFindsNothing, MainTimesOut, MainFutexWait,
         MainFutexTimeout
    <3> QED
      BY <3>1, WindowQuiet
  <2> QED
    BY <2>1, <2>2
<1>3. CASE Calls(t, a)
  <2>1. CASE Yield(t, a)
    BY <2>1, WindowHandBack DEF Yield
  <2>2. CASE ~Yield(t, a)
    <3>1. UNCHANGED <<pc, cur, window>>
      BY <1>3, <2>2 DEF Calls, Spawn, SpawnRefused, StopRaise, SendStart, Link,
         ReceiveStart
    <3> QED
      BY <3>1, WindowQuiet
  <2> QED
    BY <2>1, <2>2
<1>4. CASE Finishes(t, a)
  <2>1. CASE ActorExit(t, a)
    BY <2>1, WindowHandBack DEF ActorExit
  <2>2. CASE ~ActorExit(t, a)
    <3>1. UNCHANGED <<pc, cur, window>>
      BY <1>4, <2>2 DEF Finishes, ActorEntry, YieldResumed, ActorEnds, StopJoined
    <3> QED
      BY <3>1, WindowQuiet
  <2> QED
    BY <2>1, <2>2
<1> QED
  BY <1>1, <1>2, <1>3, <1>4 DEF Computes

\* AN ACTOR HAS ITS OWN WINDOW, in every instance: two threads share one only
\* while one of them is between its hand-back and %ar-set-fs.
THEOREM WindowsAreTheirOwn == Spec => []WindowOverlapIsTransient
<1>1. Init => WindowFollows
  BY IdFacts DEF Init, WindowFollows, LoopPlaces
<1>2. SafeInv /\ WindowFollows /\ [Next]_vars => WindowFollows'
  <2> SUFFICES ASSUME SafeInv, WindowFollows, [Next]_vars PROVE WindowFollows'
    OBVIOUS
  <2>1. ASSUME NEW a \in Ids, ClockPasses(a) PROVE WindowFollows'
    BY <2>1, WindowQuiet DEF ClockPasses, cpuVars
  <2>2. CASE UNCHANGED vars
    BY <2>2, WindowQuiet DEF vars, cpuVars
  <2> QED
    BY <2>1, <2>2, WindowSchedule, WindowComputes DEF Next
<1>3. SafeInv /\ WindowFollows => WindowOverlapIsTransient
  <2> SUFFICES ASSUME SafeInv, WindowFollows, NEW t \in Threads, NEW u \in Threads,
                      t # u, window[t] = window[u], window[t] # None,
                      ~LeavingWindow(t), ~LeavingWindow(u)
              PROVE  FALSE
    BY DEF WindowOverlapIsTransient
  <2> USE IdFacts
  <2>1. t \in Schedulers /\ u \in Schedulers
    BY DEF WindowFollows
  <2>2. \A x \in {t, u} : pc[x] \in {"switch", "release", "actor"}
    BY <2>1 DEF SafeInv, Typed, TypeOK, Places, WindowFollows, LoopPlaces,
                LeavingWindow
  <2>3. \A x \in {t, u} : cur[x] # None
    <3>1. \A x \in {t, u} : pc[x] \in {"switch", "release"} => cur[x] # None
      BY DEF LeavingWindow
    <3>2. \A x \in {t, u} : pc[x] = "actor" => cur[x] # None
      BY <2>1 DEF WindowFollows
    <3> QED
      BY <2>2, <3>1, <3>2
  <2>4. cur[t] = cur[u]
    BY <2>1, <2>2, <2>3 DEF WindowFollows
  <2> QED
    BY <2>3, <2>4 DEF SafeInv, Switching, CurrentRuns
<1> QED
  BY <1>1, <1>2, <1>3, SafeInit, SafeStep, PTL DEF Spec

-----------------------------------------------------------------------------
(* The cell pool.  A post takes a cell from the pool into one mailbox, a    *)
(* take gives one back, a spawn forgets those of a mailbox.                 *)

Cells(m) == {c \in Ids \X (1 .. MailRoom) : c[2] <= m[c[1]]}

LEMMA CellsFinite ==
    ASSUME NEW m
    PROVE  IsFiniteSet(Cells(m)) /\ Cardinality(Cells(m)) \in Nat
<1>1. NSlots + 1 \in Int /\ MailRoom \in Int
  BY RuntimeAssumption DEF RuntimeAssumption
<1>2. IsFiniteSet(Slots) /\ IsFiniteSet(1 .. MailRoom)
  BY <1>1, FS_Interval DEF Slots
<1>3. IsFiniteSet({Main})
  BY FS_Singleton
<1>4. IsFiniteSet(Ids)
  BY <1>2, <1>3, FS_Union DEF Ids
<1>5. IsFiniteSet(Ids \X (1 .. MailRoom))
  BY <1>2, <1>4, FS_Product
<1>6. Cells(m) \subseteq Ids \X (1 .. MailRoom)
  BY DEF Cells
<1> QED
  BY <1>5, <1>6, FS_Subset, FS_CardinalityType

LEMMA CellsFewer ==
    ASSUME NEW m \in [Ids -> 0 .. MailRoom], NEW n \in [Ids -> 0 .. MailRoom],
           \A a \in Ids : n[a] <= m[a]
    PROVE  Cardinality(Cells(n)) <= Cardinality(Cells(m))
<1>1. MailRoom \in Int
  BY RuntimeAssumption DEF RuntimeAssumption
<1>2. Cells(n) \subseteq Cells(m)
  <2> SUFFICES ASSUME NEW a \in Ids, NEW i \in 1 .. MailRoom, i <= n[a]
              PROVE  i <= m[a]
    BY DEF Cells
  <2>1. n[a] \in Int /\ m[a] \in Int /\ n[a] <= m[a] /\ i \in Int
    BY <1>1
  <2> QED
    BY <2>1
<1> QED
  BY <1>2, CellsFinite, FS_Subset

LEMMA CellsOneMore ==
    ASSUME NEW m \in [Ids -> 0 .. MailRoom], NEW n \in [Ids -> 0 .. MailRoom],
           NEW b \in Ids, n[b] = m[b] + 1, \A a \in Ids : a # b => n[a] = m[a]
    PROVE  Cardinality(Cells(n)) = Cardinality(Cells(m)) + 1
<1> DEFINE new == <<b, n[b]>>
<1>1. MailRoom \in Int /\ m[b] \in Int /\ n[b] \in 1 .. MailRoom
  BY RuntimeAssumption DEF RuntimeAssumption
<1>2. new \notin Cells(m)
  BY <1>1 DEF Cells
<1>3. ASSUME NEW a \in Ids, NEW i \in 1 .. MailRoom
      PROVE  <<a, i>> \in Cells(n) <=> <<a, i>> \in Cells(m) \cup {new}
  <2>1. CASE a # b
    BY <2>1 DEF Cells
  <2>2. CASE a = b
    <3>1. i <= n[b] <=> i <= m[b] \/ i = n[b]
      BY <1>1
    <3> QED
      BY <2>2, <3>1 DEF Cells
  <2> QED
    BY <2>1, <2>2
<1>4. Cells(n) = Cells(m) \cup {new}
  <2>1. /\ Cells(n) \subseteq Ids \X (1 .. MailRoom)
        /\ Cells(m) \cup {new} \subseteq Ids \X (1 .. MailRoom)
    BY <1>1 DEF Cells
  <2> HIDE DEF new
  <2>2. \A c \in Ids \X (1 .. MailRoom) : c \in Cells(n) <=> c \in Cells(m) \cup {new}
    BY <1>3
  <2> QED
    BY <2>1, <2>2
<1> HIDE DEF new
<1> QED
  BY <1>2, <1>4, CellsFinite, FS_AddElement

LEMMA CellsStep ==
    ASSUME SafeInv, SafeInv', CellsConserved, [Next]_vars
    PROVE  CellsConserved'
<1> USE IdFacts
<1>1. /\ mail \in [Ids -> 0 .. MailRoom] /\ mail' \in [Ids -> 0 .. MailRoom]
      /\ pool \in Nat /\ PoolCells \in Nat
      /\ pool + Cardinality(Cells(mail)) <= PoolCells
      /\ CellsConserved' <=> pool' + Cardinality(Cells(mail')) <= PoolCells
      /\ Cardinality(Cells(mail)) \in Nat /\ Cardinality(Cells(mail')) \in Nat
  BY RuntimeAssumption, CellsFinite DEF RuntimeAssumption, SafeInv, Typed, TypeOK,
     CellsConserved, CellsInUse, Cells
<1>2. CASE UNCHANGED <<mail, pool>>
  BY <1>1, <1>2
<1>3. ASSUME NEW t \in Threads, NEW a \in Ids, Post(t, a) PROVE CellsConserved'
  <2> DEFINE b == sendTo[a]
  <2>1. /\ b \in Ids /\ mail' = [mail EXCEPT ![b] = @ + 1]
        /\ pool > 0 /\ pool' = pool - 1
    BY <1>3 DEF Post, HasRoom, SafeInv, Typed, TypeOK
  <2> HIDE DEF b
  <2>2. mail'[b] = mail[b] + 1 /\ \A c \in Ids : c # b => mail'[c] = mail[c]
    BY <1>1, <2>1
  <2>3. Cardinality(Cells(mail')) = Cardinality(Cells(mail)) + 1
    BY <1>1, <2>1, <2>2, CellsOneMore
  <2> QED
    BY <1>1, <2>1, <2>3
<1>4. ASSUME NEW t \in Threads, NEW a \in Ids, ReceiveTake(t, a) \/ MainTake(t, a)
      PROVE CellsConserved'
  <2>1. mail' = [mail EXCEPT ![a] = @ - 1] /\ pool' = pool + 1
    BY <1>4 DEF ReceiveTake, MainTake
  <2>2. mail[a] = mail'[a] + 1 /\ \A c \in Ids : c # a => mail[c] = mail'[c]
    <3>1. mail[a] \in Int /\ mail'[a] = mail[a] - 1
      BY <1>1, <2>1
    <3> QED
      BY <1>1, <2>1, <3>1
  <2>3. Cardinality(Cells(mail)) = Cardinality(Cells(mail')) + 1
    BY <1>1, <2>2, CellsOneMore
  <2> QED
    BY <1>1, <2>1, <2>3
<1>5. ASSUME NEW t \in Threads, NEW a \in Ids, Spawn(t, a) PROVE CellsConserved'
  <2> PICK id \in Claimable : mail' = [mail EXCEPT ![id] = 0]
    BY <1>5 DEF Spawn
  <2>1. \A c \in Ids : mail'[c] <= mail[c]
    <3>1. \A c \in Ids : mail[c] \in Nat
      BY <1>1, RuntimeAssumption DEF RuntimeAssumption
    <3> QED
      BY <1>1, <3>1
  <2>2. Cardinality(Cells(mail')) <= Cardinality(Cells(mail))
    BY <1>1, <2>1, CellsFewer
  <2>3. pool' = pool
    BY <1>5 DEF Spawn
  <2> QED
    BY <1>1, <2>2, <2>3
<1> USE DEF actorVars, OnlyGoto
<1>6. ASSUME NEW t \in Threads, Schedule(t) PROVE CellsConserved'
  BY <1>2, <1>6 DEF Schedule, SchedTop, SchedSetFs, SchedStopCheck, SchedDeclare,
     SchedFindNothing, SchedDispatch, SchedIdleWait, SchedIdleTimeout,
     RestoreStack, RestoreRelease
<1>7. ASSUME NEW t \in Threads, NEW a \in Ids, Computes(t, a) PROVE CellsConserved'
  <2>1. CASE SendSteps(t, a)
    BY <1>2, <1>3, <2>1 DEF SendSteps, PostRefused, SendNap, SendGivesUp, WakeIdle,
       WakeIdleAll, WakeMain, WakeMainAll
  <2>2. CASE ReceiveSteps(t, a)
    BY <1>2, <1>4, <2>2 DEF ReceiveSteps, TakeRelease, TakeFails, ReceiveTimesOut, ReceiveBlock,
       MainDeclare, MainFindsNothing, MainTimesOut, MainFutexWait, MainFutexTimeout
  <2>3. CASE Calls(t, a)
    BY <1>2, <1>5, <2>3 DEF Calls, Yield, SpawnRefused, StopRaise, SendStart, Link,
       ReceiveStart
  <2>4. CASE Finishes(t, a)
    BY <1>2, <2>4 DEF Finishes, ActorEntry, YieldResumed, ActorEnds, ActorExit,
       StopJoined
  <2> QED
    BY <1>7, <2>1, <2>2, <2>3, <2>4 DEF Computes
<1>8. ASSUME NEW a \in Ids, ClockPasses(a) PROVE CellsConserved'
  BY <1>2, <1>8 DEF ClockPasses
<1>9. CASE UNCHANGED vars
  BY <1>2, <1>9 DEF vars
<1> QED
  BY <1>6, <1>7, <1>8, <1>9 DEF Next

\* For any pool and any mailboxes: free cells and queued messages together
\* never exceed the pool, so a cell is never both free and in a mailbox and
\* never freed twice.
THEOREM CellsAreConserved == Spec => []CellsConserved
<1>1. Init => CellsConserved
  <2> SUFFICES ASSUME Init PROVE CellsConserved
    OBVIOUS
  <2>1. CellsInUse = {}
    BY IdFacts DEF Init, CellsInUse
  <2>2. Cardinality(CellsInUse) = 0
    BY <2>1, FS_EmptySet
  <2> QED
    BY <2>2, RuntimeAssumption DEF Init, CellsConserved, RuntimeAssumption
<1>2. SafeInv /\ SafeInv' /\ CellsConserved /\ [Next]_vars => CellsConserved'
  BY CellsStep
<1> QED
  BY <1>1, <1>2, SafeInit, SafeStep, PTL DEF Spec

-----------------------------------------------------------------------------
(* Main's wake word.  From the look at its mailbox on, mail that arrives    *)
(* has a sender that has yet to exchange the word, or has exchanged it and  *)
(* then main either reads it before it sleeps or has yet to be woken.       *)

MainOwed ==
    at[Main] \in {"mwait", "mparked"} /\ mail[Main] > 0 =>
        \/ \E a \in Slots : at[a] = "mwake"
        \/ mainWake = 1 /\ at[Main] = "mwait"
        \/ mainWake = 1 /\ \E a \in Slots : at[a] = "mwakeAll"

\* A claimable slot owes nobody a wake, and main's receive is main's alone.
SlotPoints ==
    \A a \in Slots :
        /\ status[a] \in {"free", "dead"} => at[a] \in {"entry", "exit"}
        /\ at[a] \notin {"mdeclare", "mlook", "mwait", "mparked"}

Owed == MainOwed /\ SlotPoints

\* A computation that is not waking main moves on.
LEMMA OwedMove ==
    ASSUME SafeInv, Owed, NEW a \in Ids, NEW p \in Points,
           at' = [at EXCEPT ![a] = p],
           a = Main => p \notin {"mwait", "mparked"},
           a # Main => at[a] \notin {"mwake", "mwakeAll"},
           a # Main => p \notin {"mdeclare", "mlook", "mwait", "mparked"},
           status[a] = "running",
           \A c \in Slots : status'[c] \in {"free", "dead"} => status'[c] = status[c],
           mail'[Main] > 0 => mail[Main] > 0, mainWake' = mainWake
    PROVE  Owed'
<1> USE IdFacts
<1>1. /\ at'[a] = p /\ \A c \in Ids : c # a => at'[c] = at[c]
  BY DEF SafeInv, Typed, TypeOK
<1>2. MainOwed'
  <2>1. CASE a = Main
    BY <1>1, <2>1 DEF Owed, MainOwed
  <2>2. CASE a # Main
    BY <1>1, <2>2 DEF Owed, MainOwed
  <2> QED
    BY <2>1, <2>2
<1>3. SlotPoints'
  BY <1>1 DEF Owed, SlotPoints
<1> QED
  BY <1>2, <1>3 DEF Owed

\* Nobody moves; statuses change, but only an actor at its end becomes dead.
LEMMA OwedStay ==
    ASSUME SafeInv, Owed, UNCHANGED <<at, mail, mainWake>>,
           \A c \in Slots : status'[c] \in {"free", "dead"}
                              => status'[c] = status[c] \/ at[c] = "exit"
    PROVE  Owed'
BY IdFacts DEF Owed, MainOwed, SlotPoints

LEMMA OwedSchedule ==
    ASSUME SafeInv, Owed, NEW t \in Threads, Schedule(t)
    PROVE  Owed'
<1> USE DEF actorVars, codeVars, wakeVars
<1>1. CASE SchedDispatch(t)
  <2> PICK h : status' = [a \in Ids |-> IF a = h THEN "running"
                                        ELSE StatusAfterExpire(a)]
    BY <1>1 DEF SchedDispatch
  <2>1. \A c \in Slots : status'[c] \in {"free", "dead"} => status'[c] = status[c]
    BY IdFacts DEF StatusAfterExpire
  <2>2. UNCHANGED <<at, mail, mainWake>>
    BY <1>1 DEF SchedDispatch
  <2> QED
    BY <2>1, <2>2, OwedStay
<1>2. CASE ~SchedDispatch(t)
  <2>1. UNCHANGED <<at, mail, mainWake, status>>
    BY <1>2 DEF Schedule, SchedTop, SchedSetFs, SchedStopCheck, SchedDeclare,
       SchedFindNothing, SchedIdleWait, SchedIdleTimeout, RestoreStack,
       RestoreRelease
  <2> QED
    BY <2>1, OwedStay
<1> QED
  BY <1>1, <1>2

LEMMA RunningFacts ==
    ASSUME SafeInv, NEW t \in Threads, NEW a \in Ids, Runs(t, a)
    PROVE  status[a] = "running" /\ (a = Main => at[a] \in MainPoints)
BY IdFacts DEF SafeInv, Switching, CurrentRuns, Runs, Typed, MainStaysMain

LEMMA OwedPost ==
    ASSUME SafeInv, Owed, NEW t \in Threads, NEW a \in Ids, Post(t, a)
    PROVE  Owed'
<1> USE IdFacts
<1>1. status[a] = "running" /\ at[a] = "send" /\ status[Main] = "running"
  BY RunningFacts DEF Post, SafeInv, Typed, MainStaysMain
<1> DEFINE b == sendTo[a]
<1>2. /\ status \in [Ids -> {"free", "running", "ready", "dead", "blocked"}]
      /\ mail \in [Ids -> 0 .. MailRoom] /\ at \in [Ids -> Points] /\ b \in Ids
  BY DEF SafeInv, Typed, TypeOK
<1>3. /\ mail' = [mail EXCEPT ![b] = @ + 1] /\ mainWake' = mainWake
      /\ \/ UNCHANGED status
         \/ status' = [status EXCEPT ![b] = "ready"]
  BY DEF Post, wakeVars
<1>4. b = Main => at' = [at EXCEPT ![a] = "mwake"]
  BY <1>1 DEF Post, Goto
<1>5. b # Main => \E p \in {"wake", "exit", "user"} : at' = [at EXCEPT ![a] = p]
  BY DEF Post, Goto, AfterSend
<1> HIDE DEF b
<1>6. \A c \in Slots : status'[c] \in {"free", "dead"} => status'[c] = status[c]
  BY <1>2, <1>3
<1>7. CASE b # Main
  <2>1. mail'[Main] = mail[Main]
    BY <1>2, <1>3, <1>7
  <2>2. PICK p \in {"wake", "exit", "user"} : at' = [at EXCEPT ![a] = p]
    BY <1>5, <1>7
  <2>3. p \in Points /\ p \notin {"mdeclare", "mlook", "mwait", "mparked"}
    BY DEF Points
  <2> QED
    BY <1>1, <1>3, <1>6, <2>1, <2>2, <2>3, OwedMove
<1>8. CASE b = Main
  <2>1. at'[a] = "mwake" /\ \A c \in Ids : c # a => at'[c] = at[c]
    BY <1>2, <1>4, <1>8
  <2>2. MainOwed'
    BY <2>1 DEF MainOwed
  <2>3. SlotPoints'
    BY <1>1, <1>6, <2>1 DEF Owed, SlotPoints
  <2> QED
    BY <2>2, <2>3 DEF Owed
<1> QED
  BY <1>7, <1>8

LEMMA OwedWakes ==
    ASSUME SafeInv, Owed, NEW t \in Threads, NEW a \in Ids,
           WakeMain(t, a) \/ WakeMainAll(t, a)
    PROVE  Owed'
<1> USE IdFacts
<1>1. status[a] = "running" /\ UNCHANGED <<status, mail>> /\ at \in [Ids -> Points]
  BY RunningFacts DEF WakeMain, WakeMainAll, actorVars, SafeInv, Typed, TypeOK
<1>2. CASE WakeMain(t, a)
  <2>1. /\ mainWake' = 1 /\ at'[a] = "mwakeAll"
        /\ \A c \in Ids : c # a => at'[c] = at[c]
    BY <1>1, <1>2 DEF WakeMain, Goto
  <2>2. MainOwed'
    BY <2>1 DEF MainOwed
  <2>3. SlotPoints'
    BY <1>1, <2>1 DEF Owed, SlotPoints
  <2> QED
    BY <2>2, <2>3 DEF Owed
<1>3. CASE WakeMainAll(t, a)
  <2>1. /\ mainWake' = mainWake /\ at[a] = "mwakeAll"
        /\ at' = [at EXCEPT ![a] = AfterSend(a),
                            ![Main] = IF at[Main] = "mparked" THEN "mdeclare" ELSE @]
        /\ AfterSend(a) \in {"user", "exit"}
    BY <1>3 DEF WakeMainAll, AfterSend, wakeVars
  <2>2. /\ \A c \in Slots : c # a => at'[c] = at[c]
        /\ a \in Slots => at'[a] \in {"user", "exit"}
        /\ a = Main => at'[Main] \in {"user", "exit"}
        /\ a # Main => at'[Main] = IF at[Main] = "mparked" THEN "mdeclare" ELSE at[Main]
    BY <1>1, <2>1
  <2>3. MainOwed'
    BY <1>1, <2>1, <2>2 DEF Owed, MainOwed
  <2>4. SlotPoints'
    BY <1>1, <2>2 DEF Owed, SlotPoints
  <2> QED
    BY <2>3, <2>4 DEF Owed
<1> QED
  BY <1>2, <1>3

LEMMA OwedSend ==
    ASSUME SafeInv, Owed, NEW t \in Threads, NEW a \in Ids, SendSteps(t, a)
    PROVE  Owed'
<1>1. CASE \/ PostRefused(t, a) \/ SendNap(t, a) \/ SendGivesUp(t, a)
           \/ WakeIdle(t, a) \/ WakeIdleAll(t, a)
  <2>1. /\ Runs(t, a) /\ at[a] \notin {"mwake", "mwakeAll"}
        /\ \E p \in {"nap", "full", "send", "user", "wakeAll", "join", "exit"} :
             at' = [at EXCEPT ![a] = p]
        /\ UNCHANGED <<status, mail, mainWake>>
    BY <1>1 DEF PostRefused, SendNap, SendGivesUp, WakeIdle, WakeIdleAll, AfterSend,
       Goto, OnlyGoto, actorVars, wakeVars
  <2>2. PICK p \in {"nap", "full", "send", "user", "wakeAll", "join", "exit"} :
          at' = [at EXCEPT ![a] = p]
    BY <2>1
  <2>3. p \in Points /\ p \notin {"mdeclare", "mlook", "mwait", "mparked"}
    BY DEF Points
  <2> QED
    BY <2>1, <2>2, <2>3, RunningFacts, OwedMove
<1> QED
  BY <1>1, OwedPost, OwedWakes DEF SendSteps

LEMMA OwedReceive ==
    ASSUME SafeInv, Owed, NEW t \in Threads, NEW a \in Ids, ReceiveSteps(t, a)
    PROVE  Owed'
<1> USE IdFacts DEF actorVars, codeVars, wakeVars, Goto, OnlyGoto
<1>0. /\ at \in [Ids -> Points] /\ mail \in [Ids -> 0 .. MailRoom]
      /\ status \in [Ids -> {"free", "running", "ready", "dead", "blocked"}]
      /\ \A c \in Slots : at[c] \notin {"mdeclare", "mlook", "mwait", "mparked"}
  BY DEF SafeInv, Typed, TypeOK, Owed, SlotPoints
<1>1. CASE \/ ReceiveTake(t, a) \/ TakeRelease(t, a) \/ TakeFails(t, a)
           \/ ReceiveTimesOut(t, a)
           \/ MainTake(t, a) \/ MainTimesOut(t, a)
  <2>1. /\ Runs(t, a) /\ at[a] \notin {"mwake", "mwakeAll"}
        /\ \E p \in {"take", "user"} : at' = [at EXCEPT ![a] = p]
        /\ UNCHANGED <<status, mainWake>>
        /\ mail' = mail \/ mail' = [mail EXCEPT ![a] = @ - 1]
    BY <1>1 DEF ReceiveTake, TakeRelease, TakeFails, ReceiveTimesOut, MainTake, MainTimesOut
  <2>2. PICK p \in {"take", "user"} : at' = [at EXCEPT ![a] = p]
    BY <2>1
  <2>3. p \in Points /\ p \notin {"mdeclare", "mlook", "mwait", "mparked"}
    BY DEF Points
  <2>4. mail'[Main] > 0 => mail[Main] > 0
    BY <1>0, <2>1, RuntimeAssumption DEF RuntimeAssumption
  <2> QED
    BY <2>1, <2>2, <2>3, <2>4, RunningFacts, OwedMove
<1>2. CASE ReceiveBlock(t, a)
  <2>1. UNCHANGED <<at, mail, mainWake>> /\ status' = [status EXCEPT ![a] = "blocked"]
    BY <1>2 DEF ReceiveBlock
  <2> QED
    BY <1>0, <2>1, OwedStay
<1>3. CASE \/ MainDeclare(t, a) \/ MainFindsNothing(t, a) \/ MainFutexWait(t, a)
           \/ MainFutexTimeout(t, a)
  <2>1. a = Main /\ UNCHANGED <<status, mail>>
    BY <1>0, <1>3 DEF MainDeclare, MainFindsNothing, MainFutexWait, MainFutexTimeout
  <2>2. \E p : at' = [at EXCEPT ![Main] = p]
    BY <1>3, <2>1 DEF MainDeclare, MainFindsNothing, MainFutexWait, MainFutexTimeout
  <2>3. SlotPoints'
    BY <1>0, <2>1, <2>2 DEF Owed, SlotPoints
  <2>4. MainOwed'
    <3>1. \A c \in Slots : at'[c] = at[c]
      BY <1>0, <2>2
    <3>2. CASE MainDeclare(t, a)
      BY <1>0, <2>1, <3>2 DEF MainDeclare, MainOwed
    <3>3. CASE MainFindsNothing(t, a)
      BY <1>0, <2>1, <3>3 DEF MainFindsNothing, MainOwed
    <3>4. CASE MainFutexWait(t, a)
      <4>1. /\ at[Main] = "mwait" /\ UNCHANGED mainWake
            /\ at'[Main] = IF mainWake = 0 THEN "mparked" ELSE "mdeclare"
        BY <1>0, <2>1, <3>4 DEF MainFutexWait
      <4> QED
        BY <2>1, <3>1, <4>1 DEF Owed, MainOwed
    <3>5. CASE MainFutexTimeout(t, a)
      BY <1>0, <2>1, <3>5 DEF MainFutexTimeout, MainOwed
    <3> QED
      BY <1>3, <3>2, <3>3, <3>4, <3>5
  <2> QED
    BY <2>3, <2>4 DEF Owed
<1> QED
  BY <1>1, <1>2, <1>3 DEF ReceiveSteps

\* The slot a spawn claims was nobody's waker.
LEMMA OwedSpawn ==
    ASSUME SafeInv, Owed, NEW t \in Threads, NEW a \in Ids, Spawn(t, a)
    PROVE  Owed'
<1> USE IdFacts
<1> PICK id \in Claimable :
      /\ status' = [status EXCEPT ![id] = "ready"]
      /\ mail' = [mail EXCEPT ![id] = 0]
      /\ at' = [at EXCEPT ![id] = "entry", ![a] = "wake"]
  BY DEF Spawn
<1>1. /\ at \in [Ids -> Points] /\ mail \in [Ids -> 0 .. MailRoom]
      /\ status \in [Ids -> {"free", "running", "ready", "dead", "blocked"}]
  BY DEF SafeInv, Typed, TypeOK
<1>2. /\ id \in Slots /\ at[id] \in {"entry", "exit"} /\ id # a
      /\ status[a] = "running" /\ at[a] = "user" /\ mainWake' = mainWake
  BY RunningFacts DEF Claimable, Owed, SlotPoints, Spawn, wakeVars
<1>3. /\ at'[a] = "wake" /\ at'[id] = "entry"
      /\ \A c \in Ids : c \notin {a, id} => at'[c] = at[c]
      /\ mail'[Main] = mail[Main]
  BY <1>1, <1>2
<1>4. MainOwed'
  BY <1>2, <1>3 DEF Owed, MainOwed
<1>5. SlotPoints'
  BY <1>1, <1>2, <1>3 DEF Owed, SlotPoints
<1> QED
  BY <1>4, <1>5 DEF Owed

LEMMA OwedCalls ==
    ASSUME SafeInv, Owed, NEW t \in Threads, NEW a \in Ids,
           Calls(t, a) \/ Finishes(t, a)
    PROVE  Owed'
<1> USE DEF actorVars, codeVars, wakeVars, Goto
<1>0. status \in [Ids -> {"free", "running", "ready", "dead", "blocked"}]
  BY DEF SafeInv, Typed, TypeOK
<1>1. CASE SpawnRefused(t, a) \/ \E b, c \in Ids : Link(t, a, b, c)
  <2>1. UNCHANGED <<at, mail, mainWake, status>>
    BY <1>1 DEF SpawnRefused, Link
  <2> QED
    BY <2>1, OwedStay
<1>2. CASE ActorExit(t, a)
  <2>1. /\ UNCHANGED <<at, mail, mainWake>> /\ at[a] = "exit"
        /\ status' = [status EXCEPT ![a] = "dead"]
    BY <1>2 DEF ActorExit
  <2> QED
    BY <1>0, <2>1, IdFacts, OwedStay
<1>3. ASSUME \/ Yield(t, a) \/ StopRaise(t, a) \/ ActorEntry(t, a)
             \/ YieldResumed(t, a) \/ ActorEnds(t, a) \/ StopJoined(t, a)
             \/ \E b \in Ids : SendStart(t, a, b)
             \/ \E timed \in BOOLEAN : ReceiveStart(t, a, timed)
      PROVE  Owed'
  <2>1. /\ Runs(t, a) /\ at[a] \notin {"mwake", "mwakeAll"}
        /\ \E p \in {"resumed", "resend", "wake", "user", "send", "exit", "recv", "mdeclare"} :
             /\ at' = [at EXCEPT ![a] = p]
             /\ p = "mdeclare" => a = Main
        /\ UNCHANGED <<mail, mainWake>>
    BY <1>3 DEF Yield, StopRaise, ActorEntry, YieldResumed, ActorEnds, StopJoined,
       SendStart, ReceiveStart
  <2>2. PICK p \in {"resumed", "resend", "wake", "user", "send", "exit", "recv", "mdeclare"} :
          at' = [at EXCEPT ![a] = p] /\ (p = "mdeclare" => a = Main)
    BY <2>1
  <2>3. /\ p \in Points /\ p \notin {"mlook", "mwait", "mparked"}
    BY DEF Points
  <2>4. status' = status \/ status' = [status EXCEPT ![a] = "ready"]
    BY <1>3 DEF Yield, StopRaise, ActorEntry, YieldResumed, ActorEnds, StopJoined,
       SendStart, ReceiveStart
  <2>5. \A c \in Slots : status'[c] \in {"free", "dead"} => status'[c] = status[c]
    BY <1>0, <2>4, IdFacts
  <2> QED
    BY <2>1, <2>2, <2>3, <2>5, RunningFacts, OwedMove
<1> QED
  BY <1>1, <1>2, <1>3, OwedSpawn DEF Calls, Finishes

\* Main does not sleep on its mail, in any instance: a parked main thread whose
\* mailbox holds a message has a sender that has yet to wake it.
THEOREM MainIsWoken == Spec => []MainNotForgotten
<1>1. Init => Owed
  BY IdFacts DEF Init, Owed, MainOwed, SlotPoints
<1>2. SafeInv /\ Owed /\ [Next]_vars => Owed'
  <2> SUFFICES ASSUME SafeInv, Owed, [Next]_vars PROVE Owed'
    OBVIOUS
  <2>1. ASSUME NEW a \in Ids, ClockPasses(a) PROVE Owed'
    BY <2>1, OwedStay DEF ClockPasses, codeVars, wakeVars
  <2>2. CASE UNCHANGED vars
    BY <2>2, OwedStay DEF vars, actorVars, codeVars, wakeVars
  <2> QED
    BY <2>1, <2>2, OwedSchedule, OwedSend, OwedReceive, OwedCalls DEF Next, Computes
<1>3. Owed => MainNotForgotten
  BY DEF Owed, MainOwed, MainNotForgotten
<1> QED
  BY <1>1, <1>2, <1>3, SafeInit, SafeStep, PTL DEF Spec

-----------------------------------------------------------------------------
(* The scheduler lock.  Without closures from an actor's own region every   *)
(* section that keeps the lock ends in a context switch that releases it.   *)

HolderSwitches == \A t \in Threads : lock = t => pc[t] \in {"switch", "release"}

LEMMA HolderStep ==
    ASSUME "closure" \notin ActorOps, SafeInv, HolderSwitches, [Next]_vars
    PROVE  HolderSwitches'
<1> USE IdFacts DEF actorVars, codeVars, cpuVars, wakeVars, OnlyGoto
<1>1. pc \in [Threads -> Places] /\ pc[MainThread] = "actor"
  BY DEF SafeInv, Typed, TypeOK, MainStaysMain
<1>2. ASSUME UNCHANGED <<lock, pc>> PROVE HolderSwitches'
  BY <1>2 DEF HolderSwitches
<1>3. ASSUME NEW t \in Threads, HandBack(t) PROVE HolderSwitches'
  BY <1>1, <1>3 DEF HandBack, HolderSwitches
<1>4. ASSUME NEW t \in Threads, Schedule(t) PROVE HolderSwitches'
  <2>1. CASE RestoreRelease(t)
    BY <2>1 DEF RestoreRelease, HolderSwitches
  <2>2. CASE SchedDispatch(t)
    BY <1>1, <2>2 DEF SchedDispatch, HolderSwitches
  <2>3. CASE RestoreStack(t)
    BY <1>1, <2>3 DEF RestoreStack, HolderSwitches
  <2>4. CASE ~(RestoreRelease(t) \/ SchedDispatch(t) \/ RestoreStack(t))
    <3>1. /\ UNCHANGED lock /\ pc[t] \notin {"switch", "release"}
          /\ \E p : pc' = [pc EXCEPT ![t] = p]
      BY <1>4, <2>4 DEF Schedule, SchedTop, SchedSetFs, SchedStopCheck, SchedDeclare,
         SchedFindNothing, SchedIdleWait, SchedIdleTimeout
    <3> QED
      BY <1>1, <3>1 DEF HolderSwitches
  <2> QED
    BY <2>1, <2>2, <2>3, <2>4
<1>5. ASSUME NEW t \in Threads, NEW a \in Ids, Computes(t, a) PROVE HolderSwitches'
  <2>1. CASE WakeIdleAll(t, a)
    BY <1>1, <2>1 DEF WakeIdleAll, HolderSwitches
  <2>2. CASE SendSteps(t, a) /\ ~WakeIdleAll(t, a)
    BY <1>2, <2>2 DEF SendSteps, Post, PostRefused, SendNap, SendGivesUp, WakeIdle,
       WakeMain, WakeMainAll
  <2>3. CASE ReceiveBlock(t, a) \/ Yield(t, a) \/ ActorExit(t, a)
    BY <1>3, <2>3 DEF ReceiveBlock, Yield, ActorExit
  <2>4. CASE ReceiveSteps(t, a) /\ ~ReceiveBlock(t, a)
    BY <1>2, <2>4 DEF ReceiveSteps, ReceiveTake, TakeRelease, TakeFails, ReceiveTimesOut,
       MainDeclare, MainTake, MainFindsNothing, MainTimesOut, MainFutexWait,
       MainFutexTimeout
  <2>5. CASE Calls(t, a) /\ ~Yield(t, a)
    <3>1. ~SpawnRefused(t, a)
      BY DEF SpawnRefused, Ops
    <3> QED
      BY <1>2, <2>5, <3>1 DEF Calls, Spawn, StopRaise, SendStart, Link, ReceiveStart
  <2>6. CASE Finishes(t, a) /\ ~ActorExit(t, a)
    BY <1>2, <2>6 DEF Finishes, ActorEntry, YieldResumed, ActorEnds, StopJoined
  <2> QED
    BY <1>5, <2>1, <2>2, <2>3, <2>4, <2>5, <2>6 DEF Computes
<1>6. ASSUME NEW a \in Ids, ClockPasses(a) PROVE HolderSwitches'
  BY <1>2, <1>6 DEF ClockPasses
<1>7. CASE UNCHANGED vars
  BY <1>2, <1>7 DEF vars
<1> QED
  BY <1>4, <1>5, <1>6, <1>7 DEF Next

\* The spawn of a closure is the only way to leak the scheduler lock: where no
\* actor spawns one of its own, user code never runs with the lock held by its
\* thread, whatever the other calls.
THEOREM OnlyClosuresLeakTheLock ==
    ASSUME "closure" \notin ActorOps
    PROVE  Spec => []LockNotLeaked
<1>1. Init => HolderSwitches
  BY IdFacts DEF Init, HolderSwitches
<1>2. SafeInv /\ HolderSwitches /\ [Next]_vars => HolderSwitches'
  BY HolderStep
<1>3. HolderSwitches => LockNotLeaked
  BY DEF HolderSwitches, LockNotLeaked
<1> QED
  BY <1>1, <1>2, <1>3, SafeInit, SafeStep, PTL DEF Spec
=============================================================================
