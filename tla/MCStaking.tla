----------------------------- MODULE MCStaking -----------------------------
(* Validators 1 and 2 start with the same stake.  Once a delegation of 3   *)
(* has gone to one of them it holds more than two thirds of the stake, so  *)
(* the other may stay silent and be jailed; 3 may register.                *)
EXTENDS Staking

(* 2 can add to its stake once, 3 can register, a delegator delegates once. *)
MCWallet == [x \in Account |-> CASE x = 1 -> 0 [] x \in {2, 3} -> 2 [] OTHER -> 3]

Interchangeable == Permutations(Delegator)
=============================================================================
