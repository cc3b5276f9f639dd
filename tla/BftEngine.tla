----------------------------- MODULE BftEngine -----------------------------
(***************************************************************************)
(* The BFT engine of one validator at one height, as the pure functions of *)
(* crates/sentrix-bft/src/engine.rs: every handler takes the engine state  *)
(* and returns the pair <<new state, BftAction>> that the Rust method      *)
(* leaves behind and returns.                                              *)
(*                                                                         *)
(* Left out: phase_start and the metrics (timeouts are nondeterministic),  *)
(* proposed_hash (written, never read), and the height (votes of another   *)
(* height return Wait at once).                                            *)
(***************************************************************************)
EXTENDS Integers, FiniteSets, FiniteSetsExt

CONSTANTS
    Validator,             \* the active set
    Stake,                 \* StakeRegistry: total_stake of each validator
    Hash,                  \* block hashes
    None,                  \* Option::None; as a vote, the nil vote
    NoVote,                \* no vote recorded, nothing pending
    Proposer,              \* weighted_proposer(height, round)
    STALE_LOCK_ROUND_GAP,  \* engine.rs: 16
    MAX_ROUND              \* engine/timeouts.rs: 100

ASSUME EngineAssumption ==
    /\ None \notin Hash /\ NoVote \notin Hash /\ None # NoVote
    /\ Stake \in [Validator -> Nat]
    /\ STALE_LOCK_ROUND_GAP \in Nat /\ MAX_ROUND \in Nat

VoteHash == Hash \cup {None}

StakeOf(S) == MapThenSumSet(LAMBDA v : Stake[v], S)

total_active_stake == StakeOf(Validator)

supermajority_threshold(total) == (total * 2) \div 3 + 1

(* The sets of validators whose stake reaches a threshold. *)
Reaching(stake) == {S \in SUBSET Validator : StakeOf(S) >= stake}
Supermajorities == Reaching(supermajority_threshold(total_active_stake))
FPlusOnes == Reaching(total_active_stake \div 3 + 1)

(* VoteCollector: the hash, or nil, whose tally reaches the threshold.     *)
supermajority(votes) ==
    {h \in VoteHash : {v \in Validator : votes[v] = h} \in Supermajorities}

(* BftAction *)
Wait == [kind |-> "Wait", hash |-> None]
BroadcastPrevote(h) == [kind |-> "BroadcastPrevote", hash |-> h]
BroadcastPrecommit(h) == [kind |-> "BroadcastPrecommit", hash |-> h]
FinalizeBlock(h) == [kind |-> "FinalizeBlock", hash |-> h]
SkipRound == [kind |-> "SkipRound", hash |-> None]
TimeoutAdvanceRound == [kind |-> "TimeoutAdvanceRound", hash |-> None]
ProposeBlock == [kind |-> "ProposeBlock", hash |-> None]

NoVotes == [v \in Validator |-> NoVote]

(* BftRoundState::new and BftEngine::new, at a given round. *)
new(r) ==
    [round |-> r, phase |-> "Propose", prevotes |-> NoVotes,
     precommits |-> NoVotes, our_prevote_cast |-> FALSE,
     our_precommit_cast |-> FALSE, locked_hash |-> None,
     locked_round |-> None, locked_block |-> None, staging_block |-> None,
     pending_prevote |-> NoVote, pending_precommit |-> NoVote,
     peer_rounds |-> [v \in Validator |-> 0]]

(* advance_round, and each iteration of catch_up_round: everything of the  *)
(* round goes, the lock and peer_rounds stay.                              *)
enter_round(e, r) ==
    [new(r) EXCEPT !.locked_hash = e.locked_hash,
                   !.locked_round = e.locked_round,
                   !.locked_block = e.locked_block,
                   !.peer_rounds = e.peer_rounds]

advance_round(e) == enter_round(e, e.round + 1)

catch_up_round(e, target) ==
    IF target <= e.round THEN e ELSE enter_round(e, target)

(* emit_prevote and emit_precommit: a pending vote is repeated, never      *)
(* replaced.                                                               *)
emit_prevote(e, h) ==
    IF e.pending_prevote = NoVote
    THEN <<[e EXCEPT !.pending_prevote = h], BroadcastPrevote(h)>>
    ELSE <<e, IF e.pending_prevote = h THEN BroadcastPrevote(h) ELSE Wait>>

emit_precommit(e, h) ==
    IF e.pending_precommit = NoVote
    THEN <<[e EXCEPT !.pending_precommit = h], BroadcastPrecommit(h)>>
    ELSE <<e, IF e.pending_precommit = h THEN BroadcastPrecommit(h) ELSE Wait>>

(* The lock accept_proposal releases before it looks at the proposal; the  *)
(* staged bytes are cleared with it.                                       *)
relax_stale_lock(e, h) ==
    IF /\ e.locked_hash \notin {None, h}
       /\ e.locked_block = None
       /\ e.round - e.locked_round >= STALE_LOCK_ROUND_GAP
    THEN [e EXCEPT !.locked_hash = None, !.locked_round = None,
                   !.staging_block = None]
    ELSE e

(* Mutant: the lock is not consulted. *)
accept_proposal_AnyHash(e, h) ==
    LET e1 == [e EXCEPT !.phase = "Prevote"]
    IN  IF e1.our_prevote_cast THEN <<e1, Wait>> ELSE emit_prevote(e1, h)

accept_proposal(e, h) ==
    LET e1 == [relax_stale_lock(e, h) EXCEPT !.phase = "Prevote"]
    IN  IF e1.our_prevote_cast THEN <<e1, Wait>>
        ELSE emit_prevote(e1, IF e1.locked_hash \in {None, h} THEN h ELSE None)

(* on_proposal, from the expected proposer, and on_own_proposal.           *)
on_proposal(e, h) ==
    IF e.pending_prevote = h THEN <<e, BroadcastPrevote(h)>>
    ELSE IF e.phase # "Propose" THEN <<e, Wait>>
    ELSE accept_proposal(e, h)

stash_proposal_bytes(e, h) == [e EXCEPT !.staging_block = h]

locked_proposal_bytes(e) ==
    IF e.locked_hash # None /\ e.locked_block # None THEN {e.locked_hash}
    ELSE {}

(* The effect of a prevote supermajority for hash h on the lock.           *)
lock_on(e, h) ==
    IF h = None THEN e
    ELSE [e EXCEPT
            !.locked_hash = h,
            !.locked_round = e.round,
            !.locked_block = IF e.staging_block = h THEN h
                             ELSE IF e.locked_hash = h THEN @ ELSE None,
            !.staging_block = None]

(* on_prevote_weighted, for a vote of the engine's own height and round.   *)
on_prevote_weighted(e, self, v, h) ==
    IF v = self /\ e.pending_prevote \notin {NoVote, h} THEN <<e, Wait>>
    ELSE LET e1 == IF v = self THEN [e EXCEPT !.pending_prevote = NoVote] ELSE e
             e2 == [e1 EXCEPT !.prevotes[v] = h]
         IN  IF e1.prevotes[v] # NoVote THEN <<e1, Wait>>
             ELSE IF e2.phase # "Prevote" \/ supermajority(e2.prevotes) = {}
             THEN <<e2, Wait>>
             ELSE LET winner == CHOOSE x \in supermajority(e2.prevotes) : TRUE
                      e3 == [lock_on(e2, winner) EXCEPT !.phase = "Precommit"]
                  IN  IF e3.our_precommit_cast THEN <<e3, Wait>>
                      ELSE emit_precommit(e3, winner)

(* on_precommit_weighted: a supermajority counts in every phase.           *)
on_precommit_weighted(e, self, v, h) ==
    IF v = self /\ e.pending_precommit \notin {NoVote, h} THEN <<e, Wait>>
    ELSE LET e1 == IF v = self THEN [e EXCEPT !.pending_precommit = NoVote]
                   ELSE e
             e2 == [e1 EXCEPT !.precommits[v] = h]
         IN  IF e1.precommits[v] # NoVote THEN <<e1, Wait>>
             ELSE IF supermajority(e2.precommits) = {} THEN <<e2, Wait>>
             ELSE IF None \in supermajority(e2.precommits)
             THEN <<e2, SkipRound>>
             ELSE <<[e2 EXCEPT !.phase = "Finalize"],
                    FinalizeBlock(CHOOSE x \in supermajority(e2.precommits) :
                                      TRUE)>>

(* Mutant: a pending vote is waited for instead of emitted again. *)
on_timeout_NoReemit(e) ==
    IF e.pending_prevote # NoVote \/ e.pending_precommit # NoVote THEN <<e, Wait>>
    ELSE CASE e.phase = "Propose" ->
                 emit_prevote([e EXCEPT !.phase = "Prevote"], None)
           [] e.phase = "Prevote" ->
                 emit_precommit([e EXCEPT !.phase = "Precommit"], None)
           [] e.phase = "Precommit" -> <<e, TimeoutAdvanceRound>>
           [] e.phase = "Finalize" -> <<e, Wait>>

on_timeout(e) ==
    CASE e.pending_prevote # NoVote -> <<e, BroadcastPrevote(e.pending_prevote)>>
      [] e.pending_prevote = NoVote /\ e.pending_precommit # NoVote ->
            <<e, BroadcastPrecommit(e.pending_precommit)>>
      [] OTHER ->
            CASE e.phase = "Propose" ->
                    LET e1 == [e EXCEPT !.phase = "Prevote"]
                    IN  IF e1.our_prevote_cast THEN <<e1, Wait>>
                        ELSE emit_prevote(e1, None)
              [] e.phase = "Prevote" ->
                    LET e1 == [e EXCEPT !.phase = "Precommit"]
                    IN  IF e1.our_precommit_cast THEN <<e1, Wait>>
                        ELSE emit_precommit(e1, None)
              [] e.phase = "Precommit" ->
                    <<e, IF e.round >= MAX_ROUND THEN SkipRound
                                                 ELSE TimeoutAdvanceRound>>
              [] e.phase = "Finalize" -> <<e, Wait>>

(* The largest round above ours that one of these sets of peers has        *)
(* reached, as a set with at most one element.                             *)
round_reached_by(e, sets) ==
    LET ahead(r) == {v \in Validator : e.peer_rounds[v] >= r}
        reached == {r \in {e.peer_rounds[v] : v \in Validator} :
                        r > e.round /\ ahead(r) \in sets}
    IN  {r \in reached : \A s \in reached : s <= r}

f_plus_one_round(e) == round_reached_by(e, FPlusOnes)

peer_supermajority_higher_round(e) == round_reached_by(e, Supermajorities)

(* Mutant: the rule before issue #143, one round behind a single peer. *)
on_round_status_weighted_Legacy(e, v, r) ==
    LET e1 == [e EXCEPT !.peer_rounds[v] = IF r >= @ THEN r ELSE @]
    IN  IF r > e1.round + 1 THEN catch_up_round(e1, r - 1) ELSE e1

(* on_round_status_weighted, for a status of the same height: catch_up_round *)
(* returns no vote, so the action is always Wait.                          *)
on_round_status_weighted(e, v, r) ==
    LET e1 == [e EXCEPT !.peer_rounds[v] = IF r >= @ THEN r ELSE @]
        target == f_plus_one_round(e1)
    IN  IF target = {} THEN e1
        ELSE catch_up_round(e1, CHOOSE t \in target : TRUE)
=============================================================================
