---------------------------- MODULE MCFutexMutex ----------------------------
(***************************************************************************)
(* Model-checking instances of FutexMutex.  The mutants are slips that the *)
(* code could have made; each one breaks a property.                       *)
(***************************************************************************)
EXTENDS FutexMutex

CONSTANTS t1, t2, t3, t4
=============================================================================
