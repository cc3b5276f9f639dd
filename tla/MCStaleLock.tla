---------------------------- MODULE MCStaleLock ----------------------------
(***************************************************************************)
(* BftVoting with more rounds than STALE_LOCK_ROUND_GAP, so that a lock    *)
(* can be relaxed and taken again.  Four equal validators, any three of    *)
(* them a supermajority; they go through each round in turn, which keeps   *)
(* the search short and is one of the schedules of the loop.               *)
(***************************************************************************)
EXTENDS BftVoting, FiniteSets, TLC

CONSTANTS v1, v2, v3, v4

Supermajority == {Q \in SUBSET Validator : Cardinality(Q) >= 3}

Order == <<v1, v2, v3, v4>>

Rotation == [r \in Round |-> Order[(r % 4) + 1]]

(* Where v stands: rounds in order, phases in order, the proposer first.   *)
Pos(v) ==
    LET rank == [Propose |-> 0, Prevote |-> 1, Precommit |-> 2, Finalize |-> 3]
        place == CHOOSE i \in 0 .. 3 : Order[((i + round[v]) % 4) + 1] = v
    IN  (round[v] * 4 + rank[phase[v]]) * 4 + place

InTurn ==
    \A v \in Validator :
        phase'[v] # phase[v] \/ round'[v] # round[v] =>
            /\ \A u \in Validator : chain[u] = None => Pos(v) <= Pos(u)
            /\ round'[v] # round[v] =>
                  phase[v] = "Precommit" /\ round'[v] = round[v] + 1

(* A committed block is applied at once, by v3 or v4; late proposals and   *)
(* block sync are not needed for the behaviour.                            *)
Prompt ==
    /\ \A v \in Validator : phase'[v] = "Finalize" => v \in {v3, v4}
    /\ (\E u \in Validator : phase[u] = "Finalize" /\ chain[u] = None) => chain' # chain
    /\ staging_block' = staging_block \/ phase' # phase \/ round' # round
    /\ \A v \in Validator : chain'[v] # chain[v] => phase[v] = "Finalize"

HashSymmetry == Permutations(Hash)

Schedule == InTurn /\ Prompt
=============================================================================
