----------------------------- MODULE BftVoting -----------------------------
(***************************************************************************)
(* The voting rules of one height of Voyager consensus, seen from outside: *)
(* who has prevoted and precommitted which block hash in which round, who  *)
(* is locked on what, and whether the locked bytes are cached.             *)
(*                                                                         *)
(* It is the safety content of crates/sentrix-bft/src/engine.rs and of the *)
(* validator loop of bin/sentrix/src/main.rs.  Two over-approximations     *)
(* make it small: a vote counts as seen by everybody as soon as the engine *)
(* chooses it (ValidatorLoop delivers votes one by one, loses them, and is *)
(* checked to refine this module), and a round may be left at any moment.  *)
(* Nil votes (block_hash = None) carry no safety content and only move the *)
(* phase.  A validator takes no more steps once its chain has the block of *)
(* this height: the loop then replaces the engine by one for the next.     *)
(***************************************************************************)
EXTENDS Integers

CONSTANTS
    Validator,             \* the active set
    Hash,                  \* block hashes that can be proposed at this height
    None,                  \* Rust's Option::None
    Quorum,                \* sets whose stake reaches supermajority_threshold
    Proposer,              \* weighted_proposer(height, round), per round
    MaxRound,              \* bound: rounds 0 .. MaxRound
    STALE_LOCK_ROUND_GAP,  \* engine.rs: 16
    MayRestart             \* validators whose process may die and come back

Round == 0 .. MaxRound

Phase == {"Propose", "Prevote", "Precommit", "Finalize"}

ASSUME ConstantsAssumption ==
    /\ None \notin Hash
    /\ MaxRound \in Nat
    /\ STALE_LOCK_ROUND_GAP \in Nat \ {0}
    /\ Proposer \in [Round -> Validator]
    /\ MayRestart \subseteq Validator
    /\ Quorum \subseteq SUBSET Validator

VARIABLES
    round,          \* state.round of each validator's engine
    phase,          \* state.phase
    locked_hash,    \* state.locked_hash
    locked_round,   \* state.locked_round
    locked_block,   \* state.locked_block: the hash its bytes carry
    staging_block,  \* state.staging_block: the hash of the staged bytes
    proposal,       \* the signed proposal of each round
    prevotes,       \* <<validator, round, hash>> credited by peers
    precommits,     \* <<validator, round, hash>>
    chain,          \* the block of this height in each validator's chain
    finalized       \* <<validator, hash>>: every finalisation that happened

lockVars == <<locked_hash, locked_round, locked_block>>
vars == <<round, phase, locked_hash, locked_round, locked_block,
          staging_block, proposal, prevotes, precommits, chain, finalized>>

Vote == Validator \X Round \X Hash

(* A supermajority of prevotes, or of precommits, for one hash.            *)
Polka(r, h) == \E Q \in Quorum : \A q \in Q : <<q, r, h>> \in prevotes

Committed(r, h) == \E Q \in Quorum : \A q \in Q : <<q, r, h>> \in precommits

Init ==
    /\ round = [v \in Validator |-> 0]
    /\ phase = [v \in Validator |-> "Propose"]
    /\ locked_hash = [v \in Validator |-> None]
    /\ locked_round = [v \in Validator |-> None]
    /\ locked_block = [v \in Validator |-> None]
    /\ staging_block = [v \in Validator |-> None]
    /\ proposal = [r \in Round |-> None]
    /\ prevotes = {}
    /\ precommits = {}
    /\ chain = [v \in Validator |-> None]
    /\ finalized = {}

(* The lock that accept_proposal drops: on another hash, without bytes,    *)
(* and at least STALE_LOCK_ROUND_GAP rounds old.                           *)
StaleLock(v, h) ==
    /\ locked_hash[v] \notin {None, h}
    /\ locked_block[v] = None
    /\ round[v] - locked_round[v] >= STALE_LOCK_ROUND_GAP

(* Mutant: the lock is not consulted. *)
accept_proposal_AnyHash(v, h, credited) ==
    /\ phase' = [phase EXCEPT ![v] = "Prevote"]
    /\ staging_block' = [staging_block EXCEPT ![v] = h]
    /\ prevotes' = prevotes \cup credited \cup {<<v, round[v], h>>}
    /\ UNCHANGED <<round, lockVars, precommits, chain, finalized>>

(* accept_proposal: relax a stale lock (the staged bytes go with it), move *)
(* to Prevote and vote for h unless locked on another hash.  `credited'    *)
(* holds the votes that peers credit besides (the proposer's embedded one).*)
accept_proposal(v, h, credited) ==
    LET relax == StaleLock(v, h)
        votes == relax \/ locked_hash[v] \in {None, h}
    IN  /\ phase' = [phase EXCEPT ![v] = "Prevote"]
        /\ locked_hash' = IF relax THEN [locked_hash EXCEPT ![v] = None]
                                   ELSE locked_hash
        /\ locked_round' = IF relax THEN [locked_round EXCEPT ![v] = None]
                                    ELSE locked_round
        /\ staging_block' = [staging_block EXCEPT
                                ![v] = IF relax THEN None ELSE h]
        /\ prevotes' = prevotes \cup credited
                         \cup (IF votes THEN {<<v, round[v], h>>} ELSE {})
        /\ UNCHANGED <<round, locked_block, precommits, chain, finalized>>

(* build_or_reuse_proposal and on_own_proposal: a proposer holding locked  *)
(* bytes re-proposes them, any other builds a fresh block.  The proposal   *)
(* carries the proposer's own prevote for it, whatever its engine votes.   *)
(* A proposer that has restarted cannot sign a second proposal for the     *)
(* round, but its engine still accepts, and votes on, the block it built.  *)
Propose(v, h) ==
    /\ chain[v] = None
    /\ phase[v] = "Propose"
    /\ Proposer[round[v]] = v
    /\ locked_block[v] # None => h = locked_hash[v]
    /\ LET signed == proposal[round[v]] = None
       IN  /\ signed \/ v \in MayRestart
           /\ proposal' = IF signed THEN [proposal EXCEPT ![round[v]] = h]
                                    ELSE proposal
           /\ accept_proposal(v, h, IF signed THEN {<<v, round[v], h>>} ELSE {})

(* on_proposal from the round's proposer, while still in Propose.          *)
OnProposal(v) ==
    LET h == proposal[round[v]]
    IN  /\ chain[v] = None
        /\ h # None
        /\ phase[v] = "Propose"
        /\ accept_proposal(v, h, {})
        /\ UNCHANGED proposal

(* A proposal that arrives after Propose is over: on_proposal ignores it,  *)
(* but the validator loop has already staged its bytes.                    *)
LateProposal(v) ==
    LET h == proposal[round[v]]
    IN  /\ chain[v] = None
        /\ h # None
        /\ phase[v] # "Propose"
        /\ staging_block' = [staging_block EXCEPT ![v] = h]
        /\ UNCHANGED <<round, phase, lockVars, proposal, prevotes,
                       precommits, chain, finalized>>

(* on_timeout in Propose (nil prevote) and in Prevote (nil precommit).     *)
OnTimeout(v) ==
    /\ chain[v] = None
    /\ phase[v] \in {"Propose", "Prevote"}
    /\ phase' = [phase EXCEPT ![v] = IF @ = "Propose" THEN "Prevote"
                                                      ELSE "Precommit"]
    /\ UNCHANGED <<round, lockVars, staging_block, proposal, prevotes,
                   precommits, chain, finalized>>

(* Mutant: precommits without locking. *)
OnPolka_NoLock(v, h) ==
    /\ chain[v] = None
    /\ phase[v] = "Prevote"
    /\ Polka(round[v], h)
    /\ phase' = [phase EXCEPT ![v] = "Precommit"]
    /\ precommits' = precommits \cup {<<v, round[v], h>>}
    /\ UNCHANGED <<round, lockVars, staging_block, proposal, prevotes, chain,
                   finalized>>

(* Mutant: the bytes of an earlier lock survive a new one. *)
OnPolka_KeepsBytes(v, h) ==
    /\ chain[v] = None
    /\ phase[v] = "Prevote"
    /\ Polka(round[v], h)
    /\ phase' = [phase EXCEPT ![v] = "Precommit"]
    /\ locked_hash' = [locked_hash EXCEPT ![v] = h]
    /\ locked_round' = [locked_round EXCEPT ![v] = round[v]]
    /\ locked_block' = [locked_block EXCEPT
                           ![v] = IF staging_block[v] = h THEN h ELSE @]
    /\ staging_block' = [staging_block EXCEPT ![v] = None]
    /\ precommits' = precommits \cup {<<v, round[v], h>>}
    /\ UNCHANGED <<round, proposal, prevotes, chain, finalized>>

(* on_prevote_weighted crossing the threshold for h: lock on h, promote    *)
(* the staged bytes if they are h's, precommit h.                          *)
OnPolka(v, h) ==
    /\ chain[v] = None
    /\ phase[v] = "Prevote"
    /\ Polka(round[v], h)
    /\ phase' = [phase EXCEPT ![v] = "Precommit"]
    /\ locked_hash' = [locked_hash EXCEPT ![v] = h]
    /\ locked_round' = [locked_round EXCEPT ![v] = round[v]]
    /\ locked_block' = [locked_block EXCEPT
                           ![v] = IF staging_block[v] = h THEN h
                                  ELSE IF locked_hash[v] = h THEN @ ELSE None]
    /\ staging_block' = [staging_block EXCEPT ![v] = None]
    /\ precommits' = precommits \cup {<<v, round[v], h>>}
    /\ UNCHANGED <<round, proposal, prevotes, chain, finalized>>

(* advance_round and catch_up_round: a later round, the lock is kept, the  *)
(* staged bytes are not.                                                   *)
AdvanceRound(v, r) ==
    /\ chain[v] = None
    /\ r > round[v]
    /\ round' = [round EXCEPT ![v] = r]
    /\ phase' = [phase EXCEPT ![v] = "Propose"]
    /\ staging_block' = [staging_block EXCEPT ![v] = None]
    /\ UNCHANGED <<lockVars, proposal, prevotes, precommits, chain, finalized>>

(* on_precommit_weighted crossing the threshold for h in the validator's   *)
(* own round.                                                              *)
OnCommit(v, h) ==
    /\ chain[v] = None
    /\ Committed(round[v], h)
    /\ phase' = [phase EXCEPT ![v] = "Finalize"]
    /\ UNCHANGED <<round, lockVars, staging_block, proposal, prevotes,
                   precommits, chain, finalized>>

(* The FinalizeBlock arm of the validator loop: the block is applied.      *)
Finalize(v, h) ==
    /\ chain[v] = None
    /\ phase[v] = "Finalize"
    /\ Committed(round[v], h)
    /\ chain' = [chain EXCEPT ![v] = h]
    /\ finalized' = finalized \cup {<<v, h>>}
    /\ UNCHANGED <<round, phase, lockVars, staging_block, proposal, prevotes,
                   precommits>>

(* NewBlock gossip or block sync: the block of a peer that has finalised.  *)
SyncBlock(v, u) ==
    /\ chain[v] = None
    /\ chain[u] # None
    /\ chain' = [chain EXCEPT ![v] = chain[u]]
    /\ finalized' = finalized \cup {<<v, chain[u]>>}
    /\ UNCHANGED <<round, phase, lockVars, staging_block, proposal, prevotes,
                   precommits>>

(* The process dies and comes back: a new BftEngine, without the lock, at  *)
(* the round that the sign guard's file names.  A block that was applied   *)
(* in memory but not yet saved is gone.                                    *)
Restart(v, r) ==
    /\ v \in MayRestart
    /\ round' = [round EXCEPT ![v] = r]
    /\ phase' = [phase EXCEPT ![v] = "Propose"]
    /\ locked_hash' = [locked_hash EXCEPT ![v] = None]
    /\ locked_round' = [locked_round EXCEPT ![v] = None]
    /\ locked_block' = [locked_block EXCEPT ![v] = None]
    /\ staging_block' = [staging_block EXCEPT ![v] = None]
    /\ \/ chain' = [chain EXCEPT ![v] = None]
       \/ UNCHANGED chain
    /\ UNCHANGED <<proposal, prevotes, precommits, finalized>>

Next ==
    \E v \in Validator :
        \/ \E h \in Hash : \/ Propose(v, h) \/ OnPolka(v, h)
                          \/ OnCommit(v, h) \/ Finalize(v, h)
        \/ OnProposal(v) \/ LateProposal(v) \/ OnTimeout(v)
        \/ \E r \in Round : AdvanceRound(v, r) \/ Restart(v, r)
        \/ \E u \in Validator : SyncBlock(v, u)

Spec == Init /\ [][Next]_vars

----------------------------------------------------------------------------
(* BftState's fields: hashes and rounds, or None.                          *)
TypeOK ==
    /\ round \in [Validator -> Round]
    /\ phase \in [Validator -> Phase]
    /\ locked_hash \in [Validator -> Hash \cup {None}]
    /\ locked_round \in [Validator -> Round \cup {None}]
    /\ locked_block \in [Validator -> Hash \cup {None}]
    /\ staging_block \in [Validator -> Hash \cup {None}]
    /\ proposal \in [Round -> Hash \cup {None}]
    /\ prevotes \subseteq Vote
    /\ precommits \subseteq Vote
    /\ chain \in [Validator -> Hash \cup {None}]
    /\ finalized \subseteq Validator \X Hash

(* Finality: whatever any two validators ever finalised at this height,    *)
(* in whatever rounds and across restarts, is the same block.              *)
Agreement ==
    \A a, b \in finalized : a[2] = b[2]

(* The invariant the comment in on_prevote_weighted states for             *)
(* locked_proposal_bytes: cached bytes are those of the locked hash.       *)
LockedBytesMatch ==
    \A v \in Validator :
        locked_block[v] # None => locked_block[v] = locked_hash[v]
=============================================================================
