----------------------------- MODULE FutexMutex -----------------------------
(***************************************************************************)
(* The three-state futex mutex of net/hosted-sync.lisp: %mutex-lock,       *)
(* %mutex-trylock and %mutex-unlock on one machine word,                   *)
(*     0  free      1  held, nobody known to be parked                     *)
(*     2  held, and a thread may be parked                                 *)
(* Every atomic step of the code is one action: each XCHG, the kernel's    *)
(* compare-and-park, the kernel's wake and the expiry of the 20 ms net.    *)
(***************************************************************************)
EXTENDS Integers

CONSTANTS
    Threads,      \* the native threads that use the mutex
    UsesTrylock,  \* does any caller use %mutex-trylock (sb-thread:grab-mutex)?
    TimeoutNet    \* is there a timespec, so that the park is bounded to 20 ms?

ASSUME ConfigAssumption == UsesTrylock \in BOOLEAN /\ TimeoutNet \in BOOLEAN

VARIABLES
    word,     \* the mutex word
    pc,       \* where each thread stands in lock / unlock
    expired   \* is %futex-timeouts non-zero?

vars == <<word, pc, expired>>

Free == 0
Held == 1
HeldWaiters == 2

(***************************************************************************)
(* "idle"    outside the mutex           "slow"    about to XCHG 2         *)
(* "compare" about to enter FUTEX_WAIT   "parked"  asleep in the kernel    *)
(* "bump"    woken by the timeout        "holder"  owns the mutex          *)
(* "wake"    has released it and owes a FUTEX_WAKE                         *)
(***************************************************************************)
Location == {"idle", "slow", "compare", "parked", "bump", "holder", "wake"}

Init ==
    /\ word = Free
    /\ pc = [t \in Threads |-> "idle"]
    /\ expired = FALSE

Goto(t, l) == pc' = [pc EXCEPT ![t] = l]

\* %mutex-lock's first XCHG: it writes 1 whatever was there.
LockFast(t) ==
    /\ pc[t] = "idle"
    /\ word' = Held
    /\ Goto(t, IF word = Free THEN "holder" ELSE "slow")
    /\ UNCHANGED expired

\* Mutant: the slow loop counts waiters instead of exchanging in a 2.
LockSlowCounts(t) ==
    /\ pc[t] = "slow"
    /\ word' = word + 1
    /\ Goto(t, IF word = Free THEN "holder" ELSE "compare")
    /\ UNCHANGED expired

\* Mutant: the slow loop takes the absence of waiters for a free mutex.
LockSlowNoWaiters(t) ==
    /\ pc[t] = "slow"
    /\ word' = HeldWaiters
    /\ Goto(t, IF word # HeldWaiters THEN "holder" ELSE "compare")
    /\ UNCHANGED expired

\* One turn of the slow loop: XCHG 2, ours if the word was free.
LockSlow(t) ==
    /\ pc[t] = "slow"
    /\ word' = HeldWaiters
    /\ Goto(t, IF word = Free THEN "holder" ELSE "compare")
    /\ UNCHANGED expired

\* FUTEX_WAIT(word, 2): the kernel parks the thread only if the word still
\* reads 2, and otherwise answers EAGAIN, which sends it round the loop.
FutexWait(t) ==
    /\ pc[t] = "compare"
    /\ Goto(t, IF word = HeldWaiters THEN "parked" ELSE "slow")
    /\ UNCHANGED <<word, expired>>

\* Mutant: no timespec reaches the kernel although the caller relies on one.
FutexTimeoutNever(t) ==
    /\ FALSE
    /\ UNCHANGED vars

\* The kernel returns -110 from the park ...
FutexTimeout(t) ==
    /\ TimeoutNet
    /\ pc[t] = "parked"
    /\ Goto(t, "bump")
    /\ UNCHANGED <<word, expired>>

\* ... and %futex-timeout-bump counts it before the loop's next XCHG.
TimeoutBump(t) ==
    /\ pc[t] = "bump"
    /\ expired' = TRUE
    /\ Goto(t, "slow")
    /\ UNCHANGED word

\* %mutex-trylock: the same unconditional XCHG 1, and the loser walks away.
Trylock(t) ==
    /\ UsesTrylock
    /\ pc[t] = "idle"
    /\ word' = Held
    /\ Goto(t, IF word = Free THEN "holder" ELSE "idle")
    /\ UNCHANGED expired

\* Mutant: the unlock wakes only when the word reads 1.
UnlockWakesOnHeld(t) ==
    /\ pc[t] = "holder"
    /\ word' = Free
    /\ Goto(t, IF word = Held THEN "wake" ELSE "idle")
    /\ UNCHANGED expired

\* Mutant: the unlock decrements the word.
UnlockDecrements(t) ==
    /\ pc[t] = "holder"
    /\ word' = word - 1
    /\ Goto(t, IF word = HeldWaiters THEN "wake" ELSE "idle")
    /\ UNCHANGED expired

\* %mutex-unlock's XCHG 0: only a word that read 2 owes a wake.
Unlock(t) ==
    /\ pc[t] = "holder"
    /\ word' = Free
    /\ Goto(t, IF word = HeldWaiters THEN "wake" ELSE "idle")
    /\ UNCHANGED expired

Parked == {t \in Threads : pc[t] = "parked"}

\* FUTEX_WAKE(word, 1): one parked thread, if there is one, leaves the park.
FutexWake(t) ==
    /\ pc[t] = "wake"
    /\ \/ /\ Parked = {}
          /\ Goto(t, "idle")
       \/ \E p \in Parked :
            pc' = [pc EXCEPT ![t] = "idle", ![p] = "slow"]
    /\ UNCHANGED <<word, expired>>

Next ==
    \E t \in Threads :
        \/ LockFast(t) \/ LockSlow(t) \/ FutexWait(t)
        \/ FutexTimeout(t) \/ TimeoutBump(t)
        \/ Trylock(t) \/ Unlock(t) \/ FutexWake(t)

\* A thread that has started an operation keeps running it, and a critical
\* section ends; nobody is obliged to start one.
Fairness ==
    \A t \in Threads :
        WF_vars(LockSlow(t) \/ FutexWait(t) \/ FutexTimeout(t)
                \/ TimeoutBump(t) \/ Unlock(t) \/ FutexWake(t))

Spec == Init /\ [][Next]_vars

FairSpec == Spec /\ Fairness

-----------------------------------------------------------------------------
TypeOK ==
    /\ word \in {Free, Held, HeldWaiters}
    /\ pc \in [Threads -> Location]
    /\ expired \in BOOLEAN

Holders == {t \in Threads : pc[t] = "holder"}

\* At most one thread is between a successful lock and its unlock, although
\* every XCHG of the protocol overwrites the word without testing it first.
MutualExclusion ==
    \A t, u \in Threads : pc[t] = "holder" /\ pc[u] = "holder" => t = u

\* The word is 0 exactly while nobody holds the mutex: the unconditional
\* XCHGs of the losers never free it and never claim it.
WordTracksHolder == (word = Free) <=> (Holders = {})

\* Threads whose next steps write 2 or issue the wake.
Answerable == {t \in Threads : pc[t] \in {"slow", "compare", "bump", "wake"}}

\* The comment's claim that no waiter sleeps against a word that will not be
\* woken: while a thread is parked, either the word says 2, so that the
\* holder's unlock wakes, or somebody is still on the way to say so.
NoStrandedWaiter ==
    Parked # {} => word = HeldWaiters \/ Answerable # {}

\* With every caller the argument of the comment fails at one place only: the
\* steps of lock, unlock and the timeout net never strand a parked thread, a
\* trylock that finds the mutex held may.
OnlyTrylockStrands ==
    [][NoStrandedWaiter /\ ~NoStrandedWaiter' => \E t \in Threads : Trylock(t)]_vars

\* A mutex that threads are waiting for does not stay unused: somebody is
\* waiting leads to somebody holding it.
WaitersMakeProgress ==
    (\E t \in Threads : pc[t] \in {"slow", "compare", "parked", "bump"})
        ~> (Holders # {})
=============================================================================
