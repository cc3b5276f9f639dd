-------------------------- MODULE MCValidatorLoop --------------------------
(***************************************************************************)
(* Instances of ValidatorLoop: stakes 2, 1, 1 (threshold 3 of 4).          *)
(***************************************************************************)
EXTENDS ValidatorLoop

CONSTANTS v1, v2, v3

Stakes == [v \in Validator |-> IF v = v1 /\ v3 \in Validator THEN 2 ELSE 1]

Rotation == [r \in Round |-> IF v3 \in Validator THEN <<v1, v2, v3>>[(r % 3) + 1]
                                                    ELSE <<v1, v2>>[(r % 2) + 1]]

(* A validator works off its action before another one moves.  Nothing is *)
(* lost: an arm of the loop reads only its own validator's state and only *)
(* adds to what others read, so a step of another validator in between    *)
(* can as well come after.                                                *)
Busy(v) == todo[v] # Idle /\ ~(engine[v].round = MaxRound
               /\ todo[v].action.kind \in {"SkipRound", "TimeoutAdvanceRound"})
Moves(v) == engine'[v] # engine[v] \/ todo'[v] # todo[v] \/ chain'[v] # chain[v]
OneAtATime == \A v, u \in Validator : Busy(v) /\ Moves(u) => u = v

(* Hashes differ in name only, so the first one proposed may be fixed.     *)
FirstProposed ==
    (\A r \in Round : chosen.proposal[r] = None)
        => \A r \in Round : chosen'.proposal[r] \in {None, CHOOSE h \in Hash : TRUE}

Reduced == OneAtATime /\ FirstProposed

(* Behaviours in which v1 and v2 stay in round 0 and reach the Precommit   *)
(* phase, and the network loses every precommit but v3's to v1 and v1's to *)
(* v2.  Late precommits are never owed to anybody: no fairness of the loop *)
(* is about them.                                                          *)
Lossy ==
    \A v, u \in Validator :
        engine'[v].precommits[u] # engine[v].precommits[u] =>
            \/ u = v \/ <<u, v>> \in {<<v3, v1>>, <<v1, v2>>}
            \/ engine'[v].precommits[u] = NoVote

Patient ==
    \A v \in Validator :
        /\ todo'[v].arm = "timeout" /\ engine[v].round = 0
              => engine[v].phase \notin {"Propose", "Prevote"}
        /\ engine'[v].round # engine[v].round => v = v3

LateRound == OneAtATime /\ Lossy /\ Patient
=============================================================================
