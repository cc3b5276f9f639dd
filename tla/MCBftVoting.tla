---------------------------- MODULE MCBftVoting ----------------------------
(***************************************************************************)
(* Instances of BftVoting.  Three validators with stakes 2, 1, 1 have the  *)
(* same threshold (3 of 4) as four equal ones and far fewer states.        *)
(***************************************************************************)
EXTENDS BftVotingProofs, TLC

CONSTANTS v1, v2, v3

HashSymmetry == Permutations(Hash)

(* v1 and one other, by supermajority_threshold(4) = 3. *)
Supermajority == {{v1, v2}, {v1, v3}, {v1, v2, v3}}

Rotation == [r \in Round |-> <<v1, v2, v3>>[(r % 3) + 1]]
=============================================================================
