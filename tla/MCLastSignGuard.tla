-------------------------- MODULE MCLastSignGuard --------------------------
(* Instances of LastSignGuard that satisfy the assumption of its proofs. *)
EXTENDS LastSignGuardProofs
=============================================================================
