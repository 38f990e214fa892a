--------------------------- MODULE MCActorRuntime ---------------------------
(***************************************************************************)
(* Model-checking instances of ActorRuntime.                               *)
(***************************************************************************)
EXTENDS ActorRuntime, TLC

CONSTANTS s1, s2

SchedulerSymmetry == Permutations({s1, s2})
=============================================================================
