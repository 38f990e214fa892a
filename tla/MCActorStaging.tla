--------------------------- MODULE MCActorStaging ---------------------------
(***************************************************************************)
(* Model-checking instance of ActorStaging: a short message, a long one, a  *)
(* selectively received one and one that does not decode.                   *)
(***************************************************************************)
EXTENDS ActorStaging, TLC

CONSTANTS short, long, wanted, broken

MessageSizes == (short :> 1) @@ (long :> 3) @@ (wanted :> 2) @@ (broken :> 1)
=============================================================================
