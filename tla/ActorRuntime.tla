---------------------------- MODULE ActorRuntime ----------------------------
(***************************************************************************)
(* The hosted actor runtime, net/hosted-actor-runtime.lisp on the scheduler *)
(* core of net/actors.lisp and the wake protocol of net/hosted-sync.lisp:   *)
(* actors scheduled M:N over native scheduler threads, with a main thread   *)
(* that is actor 1.                                                         *)
(*                                                                         *)
(* A section under the scheduler spin lock is one action when it releases   *)
(* the lock itself; a section that ends in RESTORE-CONTEXT keeps the lock   *)
(* and the context switch is two more actions, the change of stack and the  *)
(* release, in the order of +OP-RESTORE-CTX+.  What a computation is doing  *)
(* is kept per actor (at), what a scheduler loop is doing per thread (pc).  *)
(* Message contents and staging bytes are the subject of ActorStaging.      *)
(***************************************************************************)
EXTENDS Integers, Sequences, FiniteSets

CONSTANTS
    Schedulers,   \* the scheduler threads ACTORS-START makes
    NSlots,       \* actor slots
    PoolCells,    \* mailbox cells in the shared pool
    MailRoom,     \* messages one recipient's staging area takes
    MainOps,      \* the calls main's program makes in this instance
    ActorOps      \* the calls the actors' functions make

AllOps == {"yield", "send", "receive", "timeout", "spawn", "closure",
           "garbled", "exit", "link", "stop"}

ASSUME RuntimeAssumption ==
    /\ NSlots \in Nat \ {0}
    /\ PoolCells \in Nat \ {0}
    /\ MailRoom \in Nat \ {0}
    /\ MainOps \subseteq AllOps /\ ActorOps \subseteq AllOps
    /\ "main" \notin Schedulers
    /\ "nobody" \notin Schedulers

Main == 1                        \* the main thread's actor id
Slots == 2 .. (NSlots + 1)       \* ids of the spawnable actors
Ids == {Main} \cup Slots
None == 0                        \* no actor; a thread's own stack or window
MainThread == "main"
Nobody == "nobody"
Threads == Schedulers \cup {MainThread}

VARIABLES
    lock,      \* who holds the scheduler spin lock
    runq,      \* the run queue, linked through the actor structs
    status,    \* actor struct +0x00
    mail,      \* length of each mailbox
    pool,      \* free mailbox cells
    link,      \* actor struct +0x60
    scan,      \* is the parked-actor scan entry set?
    deadline,  \* is the receive deadline word non-zero?
    timedOut,  \* the timed-out flag
    due,       \* the deadline of the receive in progress, against the clock
    at,        \* where each actor's computation stands
    sendTo,    \* recipient of the send in progress (Main when there is none)
    leaving,   \* has the actor entered %ar-exit?
    kept,      \* has a message that did not decode kept its staging bytes?
    pc,        \* where each scheduler loop stands
    cur,       \* per-CPU current actor
    stack,     \* whose stack the thread runs on
    window,    \* whose window FS points at
    limited,   \* is the idle wait bounded by a deadline?
    wake,      \* the idle schedulers' wake word
    mainWake,  \* the main thread's wake word
    stop,      \* the stop flag of %sched-stop
    started    \* control block +0x00

actorVars == <<status, mail, pool, link, scan, deadline, timedOut, due>>
codeVars == <<at, sendTo, leaving, kept>>
cpuVars == <<pc, cur, stack, window, limited>>
wakeVars == <<wake, mainWake, stop, started>>
vars == <<lock, runq, actorVars, codeVars, cpuVars, wakeVars>>

(***************************************************************************)
(* at[a]: "entry" not yet started; "user" running user code; "resumed" back *)
(* from a yield; "send" about to post; "full" refused by %ar-post; "resend" *)
(* back from the yield of a refused send; "wake", "wakeAll" the two steps   *)
(* of wake-idle-ap; "mwake", "mwakeAll" those of waking main; "recv" about  *)
(* to look into its mailbox (also where a blocked actor resumes); "take"    *)
(* decoding, its staging bytes not yet released; "exit" about to leave for  *)
(* good.  Main also: "mdeclare", "mlook", "mwait", "mparked" in its receive *)
(* loop, "nap" in a refused send, "join" in actors-stop.                    *)
(***************************************************************************)
Points == {"entry", "user", "resumed", "send", "full", "resend", "wake",
           "wakeAll", "mwake", "mwakeAll", "recv", "take", "exit", "mdeclare",
           "mlook", "mwait", "mparked", "nap", "join"}

(***************************************************************************)
(* pc[t]: "top", "setfs", "stop2", "declare", "look", "idle", "parked" of   *)
(* %ar-sched-run; "switch", "release" of RESTORE-CONTEXT; "actor" while the *)
(* thread runs cur[t]; "done" when the loop has returned.                   *)
(***************************************************************************)
Places == {"top", "setfs", "stop2", "declare", "look", "idle", "parked",
           "switch", "release", "actor", "done"}

Init ==
    /\ lock = Nobody
    /\ runq = <<>>
    /\ status = [a \in Ids |-> IF a = Main THEN "running" ELSE "free"]
    /\ mail = [a \in Ids |-> 0]
    /\ pool = PoolCells
    /\ link = [a \in Ids |-> None]
    /\ scan = [a \in Ids |-> FALSE]
    /\ deadline = [a \in Ids |-> FALSE]
    /\ timedOut = [a \in Ids |-> FALSE]
    /\ due = [a \in Ids |-> "never"]
    /\ at = [a \in Ids |-> IF a = Main THEN "user" ELSE "entry"]
    /\ sendTo = [a \in Ids |-> Main]
    /\ leaving = [a \in Ids |-> FALSE]
    /\ kept = [a \in Ids |-> FALSE]
    /\ pc = [t \in Threads |-> IF t = MainThread THEN "actor" ELSE "top"]
    /\ cur = [t \in Threads |-> IF t = MainThread THEN Main ELSE None]
    /\ stack = [t \in Threads |-> None]
    /\ window = [t \in Threads |-> None]
    /\ limited = [t \in Threads |-> FALSE]
    /\ wake = 0
    /\ mainWake = 0
    /\ stop = FALSE
    /\ started = TRUE

-----------------------------------------------------------------------------
(* RESTORE-CONTEXT: off the old stack first, then release, then jump.       *)

RestoreStack(t) ==
    /\ pc[t] = "switch"
    /\ stack' = [stack EXCEPT ![t] = cur[t]]
    /\ pc' = [pc EXCEPT ![t] = "release"]
    /\ UNCHANGED <<lock, runq, actorVars, codeVars, cur, window, limited, wakeVars>>

\* Mutant: a hand-back resumes past the step that puts FS back.
RestoreSkipsSetFs(t) ==
    /\ pc[t] = "release"
    /\ lock' = Nobody
    /\ pc' = [pc EXCEPT ![t] = IF cur[t] = None THEN "stop2" ELSE "actor"]
    /\ UNCHANGED <<runq, actorVars, codeVars, cur, stack, window, limited, wakeVars>>

RestoreRelease(t) ==
    /\ pc[t] = "release"
    /\ lock' = Nobody
    /\ pc' = [pc EXCEPT ![t] = IF cur[t] = None THEN "setfs" ELSE "actor"]
    /\ UNCHANGED <<runq, actorVars, codeVars, cur, stack, window, limited, wakeVars>>

\* Mutant: release the lock, then leave the actor's stack.
HandBackReleasesFirst(t) ==
    /\ lock' = Nobody
    /\ cur' = [cur EXCEPT ![t] = None]
    /\ pc' = [pc EXCEPT ![t] = "switch"]
    /\ UNCHANGED <<stack, window, limited>>

\* The tail of %ar-hand-back and %ar-exit: thread t, inside the lock, leaves
\* its actor for the scheduler's own save area.
HandBack(t) ==
    /\ lock' = t
    /\ cur' = [cur EXCEPT ![t] = None]
    /\ pc' = [pc EXCEPT ![t] = "switch"]
    /\ UNCHANGED <<stack, window, limited>>

-----------------------------------------------------------------------------
(* The scheduler loop, %ar-sched-run.                                       *)

\* The loop top; SAVE-CONTEXT, and FS is this thread's already.
SchedTop(t) ==
    /\ pc[t] = "top"
    /\ limited' = [limited EXCEPT ![t] = FALSE]
    /\ pc' = [pc EXCEPT ![t] = IF stop THEN "done" ELSE "stop2"]
    /\ UNCHANGED <<lock, runq, actorVars, codeVars, cur, stack, window,
                   wakeVars>>

\* Every hand-back resumes behind that SAVE-CONTEXT with FS still on the
\* actor's window: put it back.
SchedSetFs(t) ==
    /\ pc[t] = "setfs"
    /\ window' = [window EXCEPT ![t] = None]
    /\ pc' = [pc EXCEPT ![t] = "stop2"]
    /\ UNCHANGED <<lock, runq, actorVars, codeVars, cur, stack, limited,
                   wakeVars>>

SchedStopCheck(t) ==
    /\ pc[t] = "stop2"
    /\ pc' = [pc EXCEPT ![t] = IF stop THEN "done" ELSE "declare"]
    /\ UNCHANGED <<lock, runq, actorVars, codeVars, cur, stack, window,
                   limited, wakeVars>>

\* XCHG(wake, 0), the intent to sleep, comes before the look at the queue.
SchedDeclare(t) ==
    /\ pc[t] = "declare"
    /\ wake' = 0
    /\ pc' = [pc EXCEPT ![t] = "look"]
    /\ UNCHANGED <<lock, runq, actorVars, codeVars, cur, stack, window,
                   limited, mainWake, stop, started>>

\* %ar-expire: the blocked actors whose deadline has passed, in slot order.
Expired ==
    {a \in Slots : deadline[a] /\ due[a] = "past" /\ status[a] = "blocked"}

Ascending(s, E) ==
    /\ \A i, j \in DOMAIN s : i < j => s[i] < s[j]
    /\ \A a \in E : \E i \in DOMAIN s : s[i] = a

Enumerations(E) == {s \in [1 .. Cardinality(E) -> E] : Ascending(s, E)}

\* What the pass does to the expired actors, whatever it does next.
ExpireWords ==
    /\ deadline' = [a \in Ids |-> deadline[a] /\ a \notin Expired]
    /\ timedOut' = [a \in Ids |-> timedOut[a] \/ a \in Expired]

StatusAfterExpire(a) == IF a \in Expired THEN "ready" ELSE status[a]

\* Mutant: the pass returns no pending deadline.
SchedSleepsUnbounded(t) ==
    /\ pc[t] = "look"
    /\ lock = Nobody
    /\ runq = <<>> /\ Expired = {}
    /\ pc' = [pc EXCEPT ![t] = "idle"]
    /\ UNCHANGED <<lock, runq, actorVars, codeVars, cur, stack, window, limited,
                   wakeVars>>

\* Nothing to run: release and go idle, no longer than the earliest deadline.
SchedFindNothing(t) ==
    /\ pc[t] = "look"
    /\ lock = Nobody
    /\ runq = <<>> /\ Expired = {}
    /\ limited' = [limited EXCEPT ![t] = \E a \in Slots : deadline[a]]
    /\ pc' = [pc EXCEPT ![t] = "idle"]
    /\ UNCHANGED <<lock, runq, actorVars, codeVars, cur, stack, window,
                   wakeVars>>

\* Something to run: make it current, enter its window and region, and
\* switch to it with the lock held.
SchedDispatch(t) ==
    /\ pc[t] = "look"
    /\ lock = Nobody
    /\ \E s \in Enumerations(Expired) :
         LET q == runq \o s IN
         /\ q # <<>>
         /\ runq' = Tail(q)
         /\ status' = [a \in Ids |-> IF a = Head(q) THEN "running"
                                     ELSE StatusAfterExpire(a)]
         /\ cur' = [cur EXCEPT ![t] = Head(q)]
         /\ window' = [window EXCEPT ![t] = Head(q)]
    /\ ExpireWords
    /\ lock' = t
    /\ pc' = [pc EXCEPT ![t] = "switch"]
    /\ UNCHANGED <<mail, pool, link, scan, due, codeVars, stack, limited,
                   wakeVars>>

\* Mutant: the intent to sleep is declared after the look at the queue.
SchedDeclaresLate(t) ==
    /\ pc[t] = "idle"
    /\ wake' = 0
    /\ pc' = [pc EXCEPT ![t] = "parked"]
    /\ UNCHANGED <<lock, runq, actorVars, codeVars, cur, stack, window,
                   limited, mainWake, stop, started>>

\* %ar-idle-wait: FUTEX_WAIT(wake, 0) sleeps only while the word reads 0.
SchedIdleWait(t) ==
    /\ pc[t] = "idle"
    /\ pc' = [pc EXCEPT ![t] = IF wake = 0 THEN "parked" ELSE "top"]
    /\ UNCHANGED <<lock, runq, actorVars, codeVars, cur, stack, window,
                   limited, wakeVars>>

\* The bounded wait runs out once the deadline it was computed from passes.
SchedIdleTimeout(t) ==
    /\ pc[t] = "parked"
    /\ limited[t]
    /\ pc' = [pc EXCEPT ![t] = "top"]
    /\ UNCHANGED <<lock, runq, actorVars, codeVars, cur, stack, window,
                   limited, wakeVars>>

-----------------------------------------------------------------------------
(* The computations.  Runs(t, a): thread t is executing actor a's code.     *)

Runs(t, a) == pc[t] = "actor" /\ cur[t] = a

Ops(a) == IF a = Main THEN MainOps ELSE ActorOps

Goto(a, p) == at' = [at EXCEPT ![a] = p]

\* Most steps of a computation only move it on.
OnlyGoto(a, p) ==
    /\ Goto(a, p)
    /\ UNCHANGED <<lock, runq, actorVars, sendTo, leaving, kept, cpuVars, wakeVars>>

\* %ar-actor-entry up to the funcall.
ActorEntry(t, a) ==
    /\ Runs(t, a) /\ at[a] = "entry"
    /\ scan' = [scan EXCEPT ![a] = FALSE]
    /\ deadline' = [deadline EXCEPT ![a] = FALSE]
    /\ Goto(a, "user")
    /\ UNCHANGED <<lock, runq, status, mail, pool, link, timedOut, due, sendTo,
                   leaving, kept, cpuVars, wakeVars>>

\* Mutant: the yield forgets the scan entry.
YieldUnmarked(t, a) ==
    /\ Runs(t, a) /\ a \in Slots
    /\ \/ at[a] = "user" /\ "yield" \in Ops(a) /\ Goto(a, "resumed")
       \/ at[a] = "full" /\ Goto(a, "resend")
    /\ lock = Nobody
    /\ status' = [status EXCEPT ![a] = "ready"]
    /\ runq' = Append(runq, a)
    /\ HandBack(t)
    /\ UNCHANGED <<mail, pool, link, scan, deadline, timedOut, due, sendTo,
                   leaving, kept, wakeVars>>

\* actors-yield, called by user code or by a send that found no room.
Yield(t, a) ==
    /\ Runs(t, a) /\ a \in Slots
    /\ \/ at[a] = "user" /\ "yield" \in Ops(a) /\ Goto(a, "resumed")
       \/ at[a] = "full" /\ Goto(a, "resend")
    /\ lock = Nobody
    /\ status' = [status EXCEPT ![a] = "ready"]
    /\ runq' = Append(runq, a)
    /\ scan' = [scan EXCEPT ![a] = TRUE]
    /\ HandBack(t)
    /\ UNCHANGED <<mail, pool, link, deadline, timedOut, due, sendTo, leaving, kept,
                   wakeVars>>

\* The resumed side of actors-yield: %ar-mark-running.
YieldResumed(t, a) ==
    /\ Runs(t, a)
    /\ \/ at[a] = "resumed" /\ Goto(a, "user")
       \/ at[a] = "resend" /\ Goto(a, "send")
    /\ scan' = [scan EXCEPT ![a] = FALSE]
    /\ UNCHANGED <<lock, runq, status, mail, pool, link, deadline, timedOut,
                   due, sendTo, leaving, kept, cpuVars, wakeVars>>

-----------------------------------------------------------------------------
(* actors-send, %ar-post, mailbox-enqueue-and-wake, wake-idle-ap.           *)

SendStart(t, a, b) ==
    /\ Runs(t, a) /\ at[a] = "user" /\ "send" \in Ops(a)
    /\ sendTo' = [sendTo EXCEPT ![a] = b]
    /\ Goto(a, "send")
    /\ UNCHANGED <<lock, runq, actorVars, leaving, kept, cpuVars, wakeVars>>

\* Mutant: the post takes a cell without asking whether there is one.
HasRoomAnyway(b) == mail[b] < MailRoom

HasRoom(b) == mail[b] < MailRoom /\ pool > 0

\* Staging space comes back only when no message is outstanding, so an area in
\* use may refuse a message that is too long for the rest of it.
StagingInUse(b) == mail[b] > 0 \/ at[b] = "take" \/ kept[b]

AfterSend(a) == IF leaving[a] THEN "exit" ELSE "user"

\* Mutant: the post queues its recipient without looking at the status.
PostAlwaysQueues(t, a) ==
    LET b == sendTo[a] IN
    /\ Runs(t, a) /\ at[a] = "send"
    /\ lock = Nobody
    /\ HasRoom(b)
    /\ mail' = [mail EXCEPT ![b] = @ + 1]
    /\ pool' = pool - 1
    /\ sendTo' = [sendTo EXCEPT ![a] = Main]
    /\ status' = [status EXCEPT ![b] = "ready"]
    /\ runq' = Append(runq, b)
    /\ Goto(a, "wake")
    /\ UNCHANGED <<lock, link, scan, deadline, timedOut, due, leaving, kept, cpuVars,
                   wakeVars>>

Post(t, a) ==
    LET b == sendTo[a] IN
    /\ Runs(t, a) /\ at[a] = "send"
    /\ lock = Nobody
    /\ HasRoom(b)
    /\ mail' = [mail EXCEPT ![b] = @ + 1]
    /\ pool' = pool - 1
    /\ sendTo' = [sendTo EXCEPT ![a] = Main]
    /\ IF status[b] = "blocked"
         THEN /\ status' = [status EXCEPT ![b] = "ready"]
              /\ runq' = Append(runq, b)
              /\ Goto(a, "wake")
         ELSE /\ UNCHANGED <<status, runq>>
              /\ Goto(a, IF b = Main THEN "mwake" ELSE AfterSend(a))
    /\ UNCHANGED <<lock, link, scan, deadline, timedOut, due, leaving, kept, cpuVars,
                   wakeVars>>

PostRefused(t, a) ==
    /\ Runs(t, a) /\ at[a] = "send"
    /\ lock = Nobody
    /\ ~HasRoom(sendTo[a]) \/ StagingInUse(sendTo[a])
    /\ OnlyGoto(a, IF a = Main THEN "nap" ELSE "full")

\* Main sleeps a millisecond between tries.
SendNap(t, a) ==
    /\ Runs(t, a) /\ at[a] = "nap"
    /\ OnlyGoto(a, "send")

\* After 10 s of refusals actors-send signals, before it yields or naps, and
\* the caller handles the error (if an actor does not: ActorEnds).
SendGivesUp(t, a) ==
    /\ Runs(t, a) /\ ~leaving[a]
    /\ at[a] \in {"nap", "full"}
    /\ sendTo' = [sendTo EXCEPT ![a] = Main]
    /\ Goto(a, "user")
    /\ UNCHANGED <<lock, runq, actorVars, leaving, kept, cpuVars, wakeVars>>

\* wake-idle-ap: XCHG(wake, 1), then FUTEX_WAKE.
WakeIdle(t, a) ==
    /\ Runs(t, a) /\ at[a] = "wake"
    /\ wake' = 1
    /\ Goto(a, "wakeAll")
    /\ UNCHANGED <<lock, runq, actorVars, sendTo, leaving, kept, cpuVars, mainWake,
                   stop, started>>

WakeIdleAll(t, a) ==
    /\ Runs(t, a) /\ at[a] = "wakeAll"
    /\ pc' = [u \in Threads |-> IF pc[u] = "parked" THEN "top" ELSE pc[u]]
    /\ Goto(a, IF a = Main /\ stop /\ started THEN "join" ELSE AfterSend(a))
    /\ UNCHANGED <<lock, runq, actorVars, sendTo, leaving, kept, cur, stack, window,
                   limited, wakeVars>>

WakeMain(t, a) ==
    /\ Runs(t, a) /\ at[a] = "mwake"
    /\ mainWake' = 1
    /\ Goto(a, "mwakeAll")
    /\ UNCHANGED <<lock, runq, actorVars, sendTo, leaving, kept, cpuVars, wake, stop,
                   started>>

WakeMainAll(t, a) ==
    /\ Runs(t, a) /\ at[a] = "mwakeAll"
    /\ at' = [at EXCEPT ![a] = AfterSend(a),
                        ![Main] = IF at[Main] = "mparked" THEN "mdeclare"
                                  ELSE @]
    /\ UNCHANGED <<lock, runq, actorVars, sendTo, leaving, kept, cpuVars, wakeVars>>

-----------------------------------------------------------------------------
(* %ar-raw-receive in an actor.                                             *)

ReceiveStart(t, a, timed) ==
    /\ Runs(t, a) /\ at[a] = "user"
    /\ (IF timed THEN "timeout" ELSE "receive") \in Ops(a)
    /\ due' = [due EXCEPT ![a] = IF timed THEN "later" ELSE "never"]
    /\ timedOut' = [timedOut EXCEPT ![a] = IF a = Main THEN @ ELSE FALSE]
    /\ Goto(a, IF a = Main THEN "mdeclare" ELSE "recv")
    /\ UNCHANGED <<lock, runq, status, mail, pool, link, scan, deadline,
                   sendTo, leaving, kept, cpuVars, wakeVars>>

\* The clock passes the deadline of a receive in progress.
ClockPasses(a) ==
    /\ due[a] = "later"
    /\ due' = [due EXCEPT ![a] = "past"]
    /\ UNCHANGED <<lock, runq, status, mail, pool, link, scan, deadline,
                   timedOut, codeVars, cpuVars, wakeVars>>

GivenUp(a) == due[a] # "never" /\ (timedOut[a] \/ due[a] = "past")

\* Mutant: the cell is freed twice.
ReceiveFreesTwice(t, a) ==
    /\ Runs(t, a) /\ at[a] = "recv"
    /\ lock = Nobody
    /\ mail[a] > 0
    /\ mail' = [mail EXCEPT ![a] = @ - 1]
    /\ pool' = pool + 2
    /\ deadline' = [deadline EXCEPT ![a] = FALSE]
    /\ scan' = [scan EXCEPT ![a] = FALSE]
    /\ due' = [due EXCEPT ![a] = "never"]
    /\ Goto(a, "take")
    /\ UNCHANGED <<lock, runq, status, link, timedOut, sendTo, leaving, kept,
                   cpuVars, wakeVars>>

\* A message is there: take it, whatever the deadline says.
ReceiveTake(t, a) ==
    /\ Runs(t, a) /\ at[a] = "recv"
    /\ lock = Nobody
    /\ mail[a] > 0
    /\ mail' = [mail EXCEPT ![a] = @ - 1]
    /\ pool' = pool + 1
    /\ deadline' = [deadline EXCEPT ![a] = FALSE]
    /\ scan' = [scan EXCEPT ![a] = FALSE]
    /\ due' = [due EXCEPT ![a] = "never"]
    /\ Goto(a, "take")
    /\ UNCHANGED <<lock, runq, status, link, timedOut, sendTo, leaving, kept,
                   cpuVars, wakeVars>>

\* The rest of %ar-take: the message is decoded outside the lock, and its
\* bytes are released under it.
TakeRelease(t, a) ==
    /\ Runs(t, a) /\ at[a] = "take"
    /\ lock = Nobody
    /\ OnlyGoto(a, "user")

\* The decoder signals, in main or in an actor whose function handles it: the
\* error leaves %ar-take before the message's bytes are released.
TakeFails(t, a) ==
    /\ Runs(t, a) /\ at[a] = "take" /\ "garbled" \in Ops(a)
    /\ kept' = [kept EXCEPT ![a] = TRUE]
    /\ Goto(a, "user")
    /\ UNCHANGED <<lock, runq, actorVars, sendTo, leaving, cpuVars, wakeVars>>

\* No message and the deadline has passed.
ReceiveTimesOut(t, a) ==
    /\ Runs(t, a) /\ at[a] = "recv"
    /\ lock = Nobody
    /\ mail[a] = 0 /\ GivenUp(a)
    /\ deadline' = [deadline EXCEPT ![a] = FALSE]
    /\ timedOut' = [timedOut EXCEPT ![a] = FALSE]
    /\ scan' = [scan EXCEPT ![a] = FALSE]
    /\ due' = [due EXCEPT ![a] = "never"]
    /\ Goto(a, "user")
    /\ UNCHANGED <<lock, runq, status, mail, pool, link, sendTo, leaving, kept,
                   cpuVars, wakeVars>>

\* Mutant: the mailbox was looked at before the lock was taken.
ReceiveBlocksUnchecked(t, a) ==
    /\ Runs(t, a) /\ at[a] = "recv"
    /\ lock = Nobody
    /\ ~GivenUp(a)
    /\ deadline' = [deadline EXCEPT ![a] = due[a] # "never"]
    /\ status' = [status EXCEPT ![a] = "blocked"]
    /\ scan' = [scan EXCEPT ![a] = TRUE]
    /\ HandBack(t)
    /\ UNCHANGED <<runq, mail, pool, link, timedOut, due, codeVars, wakeVars>>

\* No message yet: publish the deadline, block and hand the thread back.  The
\* actor resumes at the same point.
ReceiveBlock(t, a) ==
    /\ Runs(t, a) /\ at[a] = "recv"
    /\ lock = Nobody
    /\ mail[a] = 0 /\ ~GivenUp(a)
    /\ deadline' = [deadline EXCEPT ![a] = due[a] # "never"]
    /\ status' = [status EXCEPT ![a] = "blocked"]
    /\ scan' = [scan EXCEPT ![a] = TRUE]
    /\ HandBack(t)
    /\ UNCHANGED <<runq, mail, pool, link, timedOut, due, codeVars, wakeVars>>

-----------------------------------------------------------------------------
(* %ar-raw-receive in the main thread: the same protocol on a wake word of  *)
(* its own, with the thread itself parked.                                  *)

MainDeclare(t, a) ==
    /\ Runs(t, a) /\ at[a] = "mdeclare"
    /\ mainWake' = 0
    /\ Goto(a, "mlook")
    /\ UNCHANGED <<lock, runq, actorVars, sendTo, leaving, kept, cpuVars, wake, stop,
                   started>>

MainTake(t, a) ==
    /\ Runs(t, a) /\ at[a] = "mlook"
    /\ lock = Nobody
    /\ mail[a] > 0
    /\ mail' = [mail EXCEPT ![a] = @ - 1]
    /\ pool' = pool + 1
    /\ due' = [due EXCEPT ![a] = "never"]
    /\ Goto(a, "take")
    /\ UNCHANGED <<lock, runq, status, link, scan, deadline, timedOut, sendTo,
                   leaving, kept, cpuVars, wakeVars>>

MainFindsNothing(t, a) ==
    /\ Runs(t, a) /\ at[a] = "mlook"
    /\ lock = Nobody
    /\ mail[a] = 0
    /\ OnlyGoto(a, "mwait")

\* The deadline is looked at after the mailbox, and outside the lock.
MainTimesOut(t, a) ==
    /\ Runs(t, a) /\ at[a] = "mwait"
    /\ due[a] = "past"
    /\ due' = [due EXCEPT ![a] = "never"]
    /\ Goto(a, "user")
    /\ UNCHANGED <<lock, runq, status, mail, pool, link, scan, deadline,
                   timedOut, sendTo, leaving, kept, cpuVars, wakeVars>>

\* Mutant: main declares its intent to sleep after the look.
MainDeclaresLate(t, a) ==
    /\ Runs(t, a) /\ at[a] = "mwait"
    /\ due[a] # "past"
    /\ mainWake' = 0
    /\ Goto(a, "mparked")
    /\ UNCHANGED <<lock, runq, actorVars, sendTo, leaving, kept, cpuVars, wake, stop,
                   started>>

MainFutexWait(t, a) ==
    /\ Runs(t, a) /\ at[a] = "mwait"
    /\ due[a] # "past"
    /\ OnlyGoto(a, IF mainWake = 0 THEN "mparked" ELSE "mdeclare")

MainFutexTimeout(t, a) ==
    /\ Runs(t, a) /\ at[a] = "mparked"
    /\ due[a] = "past"
    /\ OnlyGoto(a, "mdeclare")

-----------------------------------------------------------------------------
(* Life cycle: actors-spawn, %ar-exit, actors-link, actors-stop.            *)

Claimable == {i \in Slots : status[i] \in {"free", "dead"}}

\* actors-spawn claims the first free or dead slot and starts it clean.  The
\* cells of a previous occupant's mailbox are not given back to the pool.
Spawn(t, a) ==
    /\ Runs(t, a) /\ at[a] = "user" /\ "spawn" \in Ops(a)
    /\ started
    /\ lock = Nobody
    /\ \E id \in Claimable :
         /\ \A i \in Claimable : id <= i
         /\ status' = [status EXCEPT ![id] = "ready"]
         /\ runq' = Append(runq, id)
         /\ mail' = [mail EXCEPT ![id] = 0]
         /\ link' = [link EXCEPT ![id] = None]
         /\ scan' = [scan EXCEPT ![id] = TRUE]
         /\ leaving' = [leaving EXCEPT ![id] = FALSE]
         /\ kept' = [kept EXCEPT ![id] = FALSE]
         /\ at' = [at EXCEPT ![id] = "entry", ![a] = "wake"]
    /\ UNCHANGED <<lock, pool, deadline, timedOut, due, sendTo, cpuVars,
                   wakeVars>>

\* An actor that passes a closure of its own: the shared-store guard refuses
\* the store into *ar-fns*, inside the lock, and the error unwinds into the
\* caller.
SpawnRefused(t, a) ==
    /\ Runs(t, a) /\ a \in Slots /\ at[a] = "user" /\ "closure" \in Ops(a)
    /\ started
    /\ lock = Nobody
    /\ Claimable # {}
    /\ lock' = t
    /\ UNCHANGED <<runq, actorVars, codeVars, cpuVars, wakeVars>>

\* The function returns, or an error ends it (a send that gave up after 10 s
\* or a message that does not decode): %ar-exit tells the linked actor first,
\* which is the actor itself when it was linked to itself.
ActorEnds(t, a) ==
    /\ Runs(t, a) /\ a \in Slots /\ ~leaving[a]
    /\ \/ at[a] = "user" /\ "exit" \in Ops(a)
       \/ at[a] = "take" /\ "exit" \in Ops(a)
       \/ at[a] = "full"
    /\ leaving' = [leaving EXCEPT ![a] = TRUE]
    /\ kept' = [kept EXCEPT ![a] = @ \/ at[a] = "take"]
    /\ sendTo' = [sendTo EXCEPT ![a] = IF link[a] = None THEN Main ELSE link[a]]
    /\ Goto(a, IF link[a] = None THEN "exit" ELSE "send")
    /\ UNCHANGED <<lock, runq, actorVars, cpuVars, wakeVars>>

ActorExit(t, a) ==
    /\ Runs(t, a) /\ at[a] = "exit"
    /\ lock = Nobody
    /\ status' = [status EXCEPT ![a] = "dead"]
    /\ scan' = [scan EXCEPT ![a] = FALSE]
    /\ HandBack(t)
    /\ UNCHANGED <<runq, mail, pool, link, deadline, timedOut, due, codeVars,
                   wakeVars>>

\* Two plain stores, no lock, into the structs of whichever two ids the caller
\* names: its own need not be one of them.
Link(t, a, b, c) ==
    /\ Runs(t, a) /\ at[a] = "user" /\ "link" \in Ops(a)
    /\ link' = [link EXCEPT ![b] = c, ![c] = b]
    /\ UNCHANGED <<lock, runq, status, mail, pool, scan, deadline, timedOut,
                   due, codeVars, cpuVars, wakeVars>>

\* actors-stop: raise the flag, wake the idle schedulers, wait for them.
StopRaise(t, a) ==
    /\ Runs(t, a) /\ a = Main /\ at[a] = "user" /\ "stop" \in Ops(a)
    /\ started
    /\ stop' = TRUE
    /\ Goto(a, "wake")
    /\ UNCHANGED <<lock, runq, actorVars, sendTo, leaving, kept, cpuVars, wake,
                   mainWake, started>>

\* %join-native-thread polls a bounded number of times: it also returns when
\* its budget runs out.
StopJoined(t, a) ==
    /\ Runs(t, a) /\ at[a] = "join"
    /\ started' = FALSE
    /\ Goto(a, "user")
    /\ UNCHANGED <<lock, runq, actorVars, sendTo, leaving, kept, cpuVars, wake,
                   mainWake, stop>>

-----------------------------------------------------------------------------
Schedule(t) ==
    \/ SchedTop(t) \/ SchedSetFs(t) \/ SchedStopCheck(t) \/ SchedDeclare(t)
    \/ SchedFindNothing(t) \/ SchedDispatch(t)
    \/ SchedIdleWait(t) \/ SchedIdleTimeout(t)
    \/ RestoreStack(t) \/ RestoreRelease(t)

SendSteps(t, a) ==
    \/ Post(t, a) \/ PostRefused(t, a) \/ SendNap(t, a)
    \/ SendGivesUp(t, a) \/ WakeIdle(t, a) \/ WakeIdleAll(t, a)
    \/ WakeMain(t, a) \/ WakeMainAll(t, a)

ReceiveSteps(t, a) ==
    \/ ReceiveTake(t, a) \/ TakeRelease(t, a) \/ TakeFails(t, a)
    \/ ReceiveTimesOut(t, a)
    \/ ReceiveBlock(t, a)
    \/ MainDeclare(t, a) \/ MainTake(t, a) \/ MainFindsNothing(t, a)
    \/ MainTimesOut(t, a) \/ MainFutexWait(t, a) \/ MainFutexTimeout(t, a)

\* What user code starts of its own accord.
Calls(t, a) ==
    \/ Yield(t, a) \/ Spawn(t, a) \/ SpawnRefused(t, a) \/ StopRaise(t, a)
    \/ \E b \in Ids : SendStart(t, a, b)
    \/ \E b, c \in Ids : Link(t, a, b, c)
    \/ \E timed \in BOOLEAN : ReceiveStart(t, a, timed)

Finishes(t, a) ==
    \/ ActorEntry(t, a) \/ YieldResumed(t, a) \/ ActorEnds(t, a)
    \/ ActorExit(t, a) \/ StopJoined(t, a)

Computes(t, a) ==
    SendSteps(t, a) \/ ReceiveSteps(t, a) \/ Calls(t, a) \/ Finishes(t, a)

Next ==
    \/ \E t \in Threads : Schedule(t)
    \/ \E t \in Threads : \E a \in Ids : Computes(t, a)
    \/ \E a \in Ids : ClockPasses(a)

(***************************************************************************)
(* Fairness.  Native threads are scheduled by the kernel and the spin lock  *)
(* is retried until it is had, so a step that is enabled again and again is *)
(* taken (SF); time passes; an actor's function keeps making the calls that *)
(* hand its thread back: it does not compute for ever, poll for ever with a *)
(* deadline that is already past, or read a mailbox that never runs empty   *)
(* without yielding (scheduling is cooperative).  Main owes nothing.        *)
(***************************************************************************)
Fairness ==
    /\ \A t \in Schedulers : SF_vars(Schedule(t))
    /\ \A a \in Ids :
         /\ SF_vars(\E t \in Threads :
                      SendSteps(t, a) \/ ReceiveSteps(t, a) \/ Finishes(t, a))
         /\ WF_vars(ClockPasses(a))
    /\ \A a \in Slots :
         /\ SF_vars(\E t \in Threads, b \in BOOLEAN : ReceiveStart(t, a, b))
         /\ SF_vars(\E t \in Threads : ReceiveBlock(t, a))
         /\ SF_vars(\E t \in Threads : Yield(t, a))

Spec == Init /\ [][Next]_vars

FairSpec == Spec /\ Fairness

-----------------------------------------------------------------------------
TypeOK ==
    /\ lock \in Threads \cup {Nobody}
    /\ runq \in Seq(Slots)
    /\ status \in [Ids -> {"free", "running", "ready", "dead", "blocked"}]
    /\ mail \in [Ids -> 0 .. MailRoom]
    /\ pool \in Nat
    /\ link \in [Ids -> Ids \cup {None}]
    /\ scan \in [Ids -> BOOLEAN]
    /\ deadline \in [Ids -> BOOLEAN]
    /\ timedOut \in [Ids -> BOOLEAN]
    /\ due \in [Ids -> {"never", "later", "past"}]
    /\ at \in [Ids -> Points]
    /\ sendTo \in [Ids -> Ids]
    /\ leaving \in [Ids -> BOOLEAN]
    /\ kept \in [Ids -> BOOLEAN]
    /\ pc \in [Threads -> Places]
    /\ cur \in [Threads -> Ids \cup {None}]
    /\ stack \in [Threads -> Slots \cup {None}]
    /\ window \in [Threads -> Slots \cup {None}]
    /\ limited \in [Threads -> BOOLEAN]
    /\ wake \in {0, 1} /\ mainWake \in {0, 1}
    /\ stop \in BOOLEAN /\ started \in BOOLEAN

Queued == {runq[i] : i \in DOMAIN runq}

\* Two CPUs never stand on one actor's stack: the hazard the AP-SCHEDULER-
\* BLOCKED comment describes, closed by leaving the stack before the release.
OneThreadPerStack ==
    \A t, u \in Threads : stack[t] = stack[u] /\ stack[t] # None => t = u

\* The run queue holds exactly the ready actors, each of them once: a wake, an
\* expiry, a yield and a spawn never queue an actor that another one queued.
RunQueueExact ==
    /\ \A i, j \in DOMAIN runq : runq[i] = runq[j] => i = j
    /\ Queued = {a \in Slots : status[a] = "ready"}

\* No message is slept on: a blocked actor's mailbox is empty, because the
\* post that fills it also makes the actor ready.
NoSleepOnMail == \A a \in Slots : status[a] = "blocked" => mail[a] = 0

\* The mailbox cells in use, as pairs of an actor and a place in its mailbox.
CellsInUse == {c \in Ids \X (1 .. MailRoom) : c[2] <= mail[c[1]]}

\* A cell is never free and in a mailbox at once, nor freed twice: free cells
\* and queued messages together never exceed the pool (reuse of a slot may
\* lose cells, nothing makes new ones).
CellsConserved == pool + Cardinality(CellsInUse) <= PoolCells

\* The claim of %ar-mark-parked: at no instant is a live actor covered neither
\* by its scan entry nor by the scan of a thread that runs on its stack.
CollectorReachesActors ==
    \A a \in Slots : status[a] \in {"running", "ready", "blocked"}
        => scan[a] \/ \E t \in Threads : stack[t] = a

\* A parked main thread with mail is owed a wake.
MainNotForgotten ==
    at[Main] = "mparked" /\ mail[Main] > 0
        => \E a \in Slots : at[a] \in {"mwake", "mwakeAll"}

\* Steps that end in a look at the run queue.
OnTheWayToLook(t) ==
    \/ pc[t] \in {"top", "setfs", "stop2", "declare", "look"}
    \/ pc[t] \in {"switch", "release"} /\ cur[t] = None

Waking == \E a \in Ids : at[a] \in {"wake", "wakeAll"}

\* The argument of THE WAKE WORD IS A STATE: a scheduler sleeps next to a
\* non-empty run queue only while a waker or another scheduler is on its way.
\* The word is one for all schedulers, though, and the XCHG with which one of
\* them declares its own intent also takes back a wake meant for another.
IdleFindsNoWork ==
    (\E t \in Schedulers : pc[t] = "parked") /\ runq # <<>>
        => Waking \/ \E t \in Schedulers : OnTheWayToLook(t)

\* What the wake word does promise: the schedulers never all sleep beside an
\* actor that could run, unless a waker is on its way or stop was raised.  A
\* wake that one of them erases is lost to the others, but not to itself.
NotAllAsleep ==
    ~stop /\ runq # <<>> /\ (\A t \in Schedulers : pc[t] = "parked") => Waking

\* User code never runs with the scheduler lock held by its own thread: every
\* operation, the refused ones included, gives the lock back.
LockNotLeaked == \A t \in Threads : pc[t] = "actor" => lock # t

\* AN ACTOR HAS ITS OWN WINDOW.  The lock is released before FS leaves it, so
\* two threads may share one; but then one of them is a scheduler between its
\* hand-back and %ar-set-fs, never two that execute or one that idles.
LeavingWindow(t) ==
    pc[t] = "setfs" \/ (pc[t] \in {"switch", "release"} /\ cur[t] = None)

WindowOverlapIsTransient ==
    \A t, u \in Threads :
        t # u /\ window[t] = window[u] /\ window[t] # None
            => LeavingWindow(t) \/ LeavingWindow(u)

\* A send is refused for lack of cells only while messages are waiting to be
\* read: cells come back.
RefusedOnlyWhileUndrained == pool = 0 => \E a \in Ids : mail[a] > 0

\* A message sent to an actor that waits in a receive ends that receive.
MailEndsReceive ==
    \A a \in Slots : (at[a] = "recv" /\ mail[a] > 0) ~> at[a] # "recv"

\* A receive with a timeout returns once its time has passed.
TimedReceiveReturns ==
    \A a \in Slots : (at[a] = "recv" /\ due[a] = "past") ~> at[a] # "recv"

\* %sched-stop tells every scheduler to leave its loop and wakes them so that
\* they can: once stop is raised every scheduler returns.
StopIsHeard == stop ~> \A t \in Schedulers : pc[t] = "done"
=============================================================================
