----------------------- MODULE MCLastSignGuardFaulty -----------------------
(* LastSignGuard with a disk that may fail and a process that may die. *)
EXTENDS LastSignGuard
=============================================================================
