-------------------------- MODULE FutexMutexProofs --------------------------
(***************************************************************************)
(* For every set of threads: the futex mutex excludes, and a parked waiter *)
(* is stranded by a trylock or by nobody, whatever the timeout net does.   *)
(***************************************************************************)
EXTENDS FutexMutex, TLAPS

\* At most one holder, and none at all exactly while the word is free.
ExclusionInv == TypeOK /\ MutualExclusion /\ WordTracksHolder

\* ExclusionInv is inductive: every XCHG of a loser leaves a non-zero word
\* non-zero, and only the holder's unlock writes 0.
LEMMA ExclusionStep == ExclusionInv /\ [Next]_vars => ExclusionInv'
<1> SUFFICES ASSUME ExclusionInv, [Next]_vars PROVE ExclusionInv'
    OBVIOUS
<1> USE DEF ExclusionInv, TypeOK, MutualExclusion, WordTracksHolder, Holders,
            Location, Goto, Free, Held, HeldWaiters
<1>1. ASSUME NEW t \in Threads, LockFast(t) PROVE ExclusionInv'
    BY <1>1 DEF LockFast
<1>2. ASSUME NEW t \in Threads, LockSlow(t) PROVE ExclusionInv'
    BY <1>2 DEF LockSlow
<1>3. ASSUME NEW t \in Threads, FutexWait(t) PROVE ExclusionInv'
    BY <1>3 DEF FutexWait
<1>4. ASSUME NEW t \in Threads, FutexTimeout(t) PROVE ExclusionInv'
    BY <1>4 DEF FutexTimeout
<1>5. ASSUME NEW t \in Threads, TimeoutBump(t) PROVE ExclusionInv'
    BY <1>5 DEF TimeoutBump
<1>6. ASSUME NEW t \in Threads, Trylock(t) PROVE ExclusionInv'
    BY <1>6 DEF Trylock
<1>7. ASSUME NEW t \in Threads, Unlock(t) PROVE ExclusionInv'
    BY <1>7 DEF Unlock
<1>8. ASSUME NEW t \in Threads, FutexWake(t) PROVE ExclusionInv'
    BY <1>8 DEF FutexWake, Parked
<1>9. CASE UNCHANGED vars
    BY <1>9 DEF vars
<1>10. QED
    BY <1>1, <1>2, <1>3, <1>4, <1>5, <1>6, <1>7, <1>8, <1>9 DEF Next

\* Mutual exclusion of %mutex-lock / %mutex-trylock / %mutex-unlock.
THEOREM MutexExcludes == Spec => [](TypeOK /\ MutualExclusion)
<1>1. Init => ExclusionInv
    BY DEF Init, ExclusionInv, TypeOK, MutualExclusion, WordTracksHolder,
           Holders, Location, Free, Held, HeldWaiters
<1>2. ExclusionInv => TypeOK /\ MutualExclusion
    BY DEF ExclusionInv
<1>3. QED
    BY <1>1, <1>2, ExclusionStep, PTL DEF Spec

\* Every state the mutex's callers can be in is one the code has.
THEOREM MutexTyped == Spec => []TypeOK
    BY MutexExcludes, PTL

\* The unconditional exchanges of %mutex-lock, %mutex-trylock and
\* %mutex-unlock leave the word telling the truth: 0 exactly while nobody
\* holds the mutex.
THEOREM WordTellsHolder == Spec => []WordTracksHolder
<1>1. Init => ExclusionInv
    BY DEF Init, ExclusionInv, TypeOK, MutualExclusion, WordTracksHolder,
           Holders, Location, Free, Held, HeldWaiters
<1>2. ExclusionInv => WordTracksHolder
    BY DEF ExclusionInv
<1>3. QED
    BY <1>1, <1>2, ExclusionStep, PTL DEF Spec

-----------------------------------------------------------------------------
\* Every step but a trylock that walks away preserves the debt to the parked
\* threads.
LEMMA NoStrandedStep ==
    ExclusionInv /\ NoStrandedWaiter /\ [Next]_vars
        => NoStrandedWaiter' \/ \E t \in Threads : Trylock(t)
<1> SUFFICES ASSUME ExclusionInv, NoStrandedWaiter, [Next]_vars,
                    ~ \E t \in Threads : Trylock(t)
             PROVE  NoStrandedWaiter'
    OBVIOUS
<1> USE DEF NoStrandedWaiter, Parked, Answerable, Goto, Free, Held, HeldWaiters
<1>0. TypeOK /\ WordTracksHolder
    BY DEF ExclusionInv
<1>1. ASSUME NEW t \in Threads, LockFast(t) PROVE NoStrandedWaiter'
    BY <1>0, <1>1 DEF LockFast, TypeOK
<1>2. ASSUME NEW t \in Threads, LockSlow(t) PROVE NoStrandedWaiter'
    BY <1>2 DEF LockSlow
<1>3. ASSUME NEW t \in Threads, FutexWait(t) PROVE NoStrandedWaiter'
    BY <1>0, <1>3 DEF FutexWait, TypeOK
<1>4. ASSUME NEW t \in Threads, FutexTimeout(t) PROVE NoStrandedWaiter'
    BY <1>0, <1>4 DEF FutexTimeout, TypeOK
<1>5. ASSUME NEW t \in Threads, TimeoutBump(t) PROVE NoStrandedWaiter'
    BY <1>0, <1>5 DEF TimeoutBump, TypeOK
<1>6. ASSUME NEW t \in Threads, Unlock(t) PROVE NoStrandedWaiter'
    BY <1>0, <1>6 DEF Unlock, TypeOK
<1>7. ASSUME NEW t \in Threads, FutexWake(t) PROVE NoStrandedWaiter'
    BY <1>0, <1>7 DEF FutexWake, TypeOK
<1>8. CASE UNCHANGED vars
    BY <1>8 DEF vars
<1>9. QED
    BY <1>1, <1>2, <1>3, <1>4, <1>5, <1>6, <1>7, <1>8 DEF Next

\* Whoever else uses the mutex, with or without the timeout net: the one step
\* after which a parked thread is owed no wake is %mutex-trylock's exchange.
THEOREM OnlyTrylocksStrand == Spec => OnlyTrylockStrands
<1>1. Init => ExclusionInv
    BY DEF Init, ExclusionInv, TypeOK, MutualExclusion, WordTracksHolder,
           Holders, Location, Free, Held, HeldWaiters
<1>2. ExclusionInv /\ [Next]_vars
          => [NoStrandedWaiter /\ ~NoStrandedWaiter'
                => \E t \in Threads : Trylock(t)]_vars
    BY NoStrandedStep
<1>3. QED
    BY <1>1, <1>2, ExclusionStep, PTL DEF Spec, OnlyTrylockStrands

\* The claim of the MUTEX comment, for every number of threads: with callers
\* that only lock and unlock, a parked thread is always owed a wake.
THEOREM LockUnlockNeverStrands ==
    ASSUME ~UsesTrylock
    PROVE  Spec => []NoStrandedWaiter
<1>1. Init => ExclusionInv /\ NoStrandedWaiter
    BY DEF Init, ExclusionInv, TypeOK, MutualExclusion, WordTracksHolder,
           Holders, Location, Free, Held, HeldWaiters, NoStrandedWaiter, Parked
<1>2. ExclusionInv /\ NoStrandedWaiter /\ [Next]_vars
          => (ExclusionInv /\ NoStrandedWaiter)'
    BY ExclusionStep, NoStrandedStep DEF Trylock
<1>3. QED
    BY <1>1, <1>2, PTL DEF Spec
=============================================================================
