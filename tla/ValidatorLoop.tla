--------------------------- MODULE ValidatorLoop ---------------------------
(***************************************************************************)
(* The Voyager validator loop of bin/sentrix/src/main.rs at one height:    *)
(* every validator drives its BftEngine with the proposals, votes and      *)
(* round statuses of the others and with its own timeouts, and works off   *)
(* the BftAction a handler returns, one step per arm of the loop's match.  *)
(*                                                                         *)
(* The network keeps what was signed and sent.  Any of it may reach a peer *)
(* late, out of order, again, or never, so every loss and every partition  *)
(* is a behaviour.  A vote the guard refuses to sign has no signature and  *)
(* is dropped by peers (verify_sig), but the local engine counts it.       *)
(***************************************************************************)
EXTENDS BftEngine, SignState

CONSTANTS
    MaxRound,     \* bound: no validator goes past this round
    MayRestart,   \* validators whose process may die and come back
    MaxRestarts,  \* bound: restarts in a behaviour
    MayReject     \* validators whose add_block may reject a committed block

Round == 0 .. MaxRound

VARIABLES
    engine,          \* bft_engine of each validator
    todo,            \* the BftAction at hand, and the arm of the loop it is in
    proposed_block,  \* the block held for the FinalizeBlock arm
    guard,           \* LastSignState, in memory and on disk
    sent,            \* signed messages <<step, from, round, hash>>
    chain,           \* the block of this height, once applied
    restarts,
    chosen,          \* history: what engines decided to propose and to vote
    finalized        \* history: <<validator, hash>> of every applied block

vars == <<engine, todo, proposed_block, guard, sent, chain, restarts, chosen,
          finalized>>

Idle == [action |-> Wait, arm |-> "peer"]
Todo(a, arm) == IF a = Wait THEN Idle ELSE [action |-> a, arm |-> arm]

(* need_new_round: the proposer of the first round proposes at once. *)
Started(v, r) == IF Proposer[r] = v THEN Todo(ProposeBlock, "start") ELSE Idle

Init ==
    /\ engine = [v \in Validator |-> new(0)]
    /\ todo = [v \in Validator |-> Started(v, 0)]
    /\ proposed_block = [v \in Validator |-> None]
    /\ guard = [v \in Validator |-> Recorded(<<0, 0, 0>>, NoVote)]
    /\ sent = {}
    /\ chain = [v \in Validator |-> None]
    /\ restarts = 0
    /\ chosen = [proposal |-> [r \in Round |-> None], prevotes |-> {}, precommits |-> {}]
    /\ finalized = {}

(* Proposal::sign, Prevote::sign, Precommit::sign.                         *)
Asks(v, step) == <<1, engine[v].round, step>>

(* Mutant: the guard is not asked. *)
MaySign_Unguarded(v, step, h) == TRUE

MaySign(v, step, h) == ~Refuses(guard[v], Asks(v, step), h)
Signs(v, step, h) ==
    guard' = IF Records(guard[v], Asks(v, step))
             THEN [guard EXCEPT ![v] = Recorded(Asks(v, step), h)] ELSE guard

(* The votes an action of v's engine stands for. *)
Chosen(c, v, r, a) ==
    CASE a.kind = "BroadcastPrevote" /\ a.hash # None ->
            [c EXCEPT !.prevotes = @ \cup {<<v, r, a.hash>>}]
      [] a.kind = "BroadcastPrecommit" /\ a.hash # None ->
            [c EXCEPT !.precommits = @ \cup {<<v, r, a.hash>>}]
      [] OTHER -> c

(* v's engine has become res[1] and returned res[2]. *)
Takes(v, res, arm) ==
    /\ engine' = [engine EXCEPT ![v] = res[1]]
    /\ todo' = [todo EXCEPT ![v] = Todo(res[2], arm)]
    /\ chosen' = Chosen(chosen, v, res[1].round, res[2])

(* The loop is between two actions and still at this height.  A synced     *)
(* block is only looked at here and in the FinalizeBlock arm.              *)
Ready(v) == todo[v] = Idle /\ chain[v] = None

Quiet == UNCHANGED <<guard, sent, chain, restarts, finalized>>

----------------------------------------------------------------------------
(* BftMessage::Propose: stash block and bytes, then on_proposal.           *)
RecvProposal(v, p, h) ==
    /\ Ready(v) /\ p # v
    /\ <<Proposal, p, engine[v].round, h>> \in sent
    /\ proposed_block' = [proposed_block EXCEPT ![v] = h]
    /\ Takes(v, on_proposal(stash_proposal_bytes(engine[v], h), h), "peer")
    /\ Quiet

(* BftMessage::Prevote: a signed prevote, or the proposer's unsigned one   *)
(* that the network layer unpacks from its signed proposal.  Prevotes that *)
(* come after the Prevote phase are recorded and not looked at again.      *)
RecvPrevote(v, u, h) ==
    /\ Ready(v) /\ u # v
    /\ engine[v].phase \in {"Propose", "Prevote"}
    /\ \/ <<Prevote, u, engine[v].round, h>> \in sent
       \/ <<Proposal, u, engine[v].round, h>> \in sent
    /\ Takes(v, on_prevote_weighted(engine[v], v, u, h), "peer")
    /\ Quiet /\ UNCHANGED proposed_block

RecvPrecommit(v, u, h) ==
    /\ Ready(v) /\ u # v
    /\ <<Precommit, u, engine[v].round, h>> \in sent
    /\ Takes(v, on_precommit_weighted(engine[v], v, u, h), "peer")
    /\ Quiet /\ UNCHANGED proposed_block

(* BftMessage::RoundStatus, of a round u has reached. *)
RecvRoundStatus(v, u, r) ==
    /\ Ready(v) /\ u # v
    /\ r <= engine[u].round
    /\ r > engine[v].round   \* others change nothing that is read later
    /\ Takes(v, <<on_round_status_weighted(engine[v], u, r), Wait>>, "peer")
    /\ Quiet /\ UNCHANGED proposed_block

(* is_timed_out and on_timeout. *)
Timeout(v) ==
    /\ Ready(v)
    /\ Takes(v, on_timeout(engine[v]), "timeout")
    /\ Quiet /\ UNCHANGED proposed_block

----------------------------------------------------------------------------
Doing(v, kind) == todo[v].action.kind = kind

(* BroadcastPrevote: sign, broadcast, mark_prevote_cast, count our vote.   *)
DoPrevote(v) ==
    LET h == todo[v].action.hash
        e == [engine[v] EXCEPT !.our_prevote_cast = TRUE]
    IN  /\ Doing(v, "BroadcastPrevote")
        /\ Signs(v, Prevote, h)
        /\ sent' = IF MaySign(v, Prevote, h)
                   THEN sent \cup {<<Prevote, v, e.round, h>>} ELSE sent
        /\ Takes(v, on_prevote_weighted(e, v, v, h), todo[v].arm)
        /\ UNCHANGED <<proposed_block, chain, restarts, finalized>>

(* BroadcastPrecommit, likewise. *)
DoPrecommit(v) ==
    LET h == todo[v].action.hash
        e == [engine[v] EXCEPT !.our_precommit_cast = TRUE]
    IN  /\ Doing(v, "BroadcastPrecommit")
        /\ Signs(v, Precommit, h)
        /\ sent' = IF MaySign(v, Precommit, h)
                   THEN sent \cup {<<Precommit, v, e.round, h>>} ELSE sent
        /\ Takes(v, on_precommit_weighted(e, v, v, h), todo[v].arm)
        /\ UNCHANGED <<proposed_block, chain, restarts, finalized>>

(* The broadcast of a signed vote fails: the vote stays pending.           *)
BroadcastDropped(v) ==
    /\ \/ /\ Doing(v, "BroadcastPrevote")
          /\ Signs(v, Prevote, todo[v].action.hash)
       \/ /\ Doing(v, "BroadcastPrecommit")
          /\ Signs(v, Precommit, todo[v].action.hash)
    /\ todo' = [todo EXCEPT ![v] = Idle]
    /\ UNCHANGED <<engine, proposed_block, sent, chain, restarts, chosen, finalized>>

(* FinalizeBlock.  The loop that follows a timeout has no arm for it.      *)
(* Otherwise, in this order: the chain already has the block; a            *)
(* supermajority is in a later round; the block held is another one, or    *)
(* there is none; validate_block or add_block rejects it; it is applied.   *)
DoFinalize(v) ==
    LET h == todo[v].action.hash
        ahead == peer_supermajority_higher_round(engine[v])
        apply == /\ chain' = [chain EXCEPT ![v] = h]
                 /\ finalized' = finalized \cup {<<v, h>>}
        refuse == UNCHANGED <<chain, finalized>>
        clear == proposed_block' = [proposed_block EXCEPT ![v] = None]
    IN  /\ Doing(v, "FinalizeBlock")
        /\ todo' = [todo EXCEPT ![v] = Idle]
        /\ CASE todo[v].arm = "timeout" ->
                  UNCHANGED proposed_block /\ UNCHANGED engine /\ refuse
             [] todo[v].arm # "timeout" /\ chain[v] # None ->
                  clear /\ UNCHANGED engine /\ refuse
             [] todo[v].arm # "timeout" /\ chain[v] = None /\ ahead # {} ->
                  /\ \E r \in ahead : engine' = [engine EXCEPT
                                                    ![v] = catch_up_round(@, r)]
                  /\ UNCHANGED proposed_block /\ refuse
             [] OTHER ->
                  /\ clear /\ UNCHANGED engine
                  /\ IF proposed_block[v] = h
                     THEN apply \/ (v \in MayReject /\ refuse)
                     ELSE refuse
        /\ UNCHANGED <<guard, sent, restarts, chosen>>

(* SkipRound and TimeoutAdvanceRound; the new round's proposer proposes.   *)
DoAdvance(v) ==
    LET e == advance_round(engine[v])
    IN  /\ Doing(v, "SkipRound") \/ Doing(v, "TimeoutAdvanceRound")
        /\ e.round <= MaxRound
        /\ engine' = [engine EXCEPT ![v] = e]
        /\ todo' = [todo EXCEPT ![v] = IF Proposer[e.round] = v
                                       THEN Todo(ProposeBlock, "peer") ELSE Idle]
        /\ Quiet /\ UNCHANGED <<proposed_block, chosen>>

(* build_or_reuse_proposal, broadcast, stash, on_own_proposal.  Only the   *)
(* start of a height works off the prevote that on_own_proposal returns;   *)
(* after a round change it stays pending until the next timeout.           *)
DoPropose(v, h) ==
    LET r == engine[v].round
        res == on_proposal(stash_proposal_bytes(engine[v], h), h)
        signed == MaySign(v, Proposal, h)
        first == IF chosen.proposal[r] = None
                 THEN [chosen EXCEPT !.proposal[r] = h] ELSE chosen
        credited == IF signed THEN Chosen(first, v, r, BroadcastPrevote(h)) ELSE first
    IN  /\ Doing(v, "ProposeBlock")
        /\ locked_proposal_bytes(engine[v]) \subseteq {h}
        /\ Signs(v, Proposal, h)
        /\ sent' = IF signed THEN sent \cup {<<Proposal, v, r, h>>} ELSE sent
        /\ proposed_block' = [proposed_block EXCEPT ![v] = h]
        /\ engine' = [engine EXCEPT ![v] = res[1]]
        /\ todo' = [todo EXCEPT ![v] = IF @.arm = "start" THEN Todo(res[2], "start")
                                                          ELSE Idle]
        /\ chosen' = Chosen(credited, v, r, res[2])
        /\ UNCHANGED <<chain, restarts, finalized>>

(* create_block_voyager, or the trial run of its block, fails. *)
CannotBuild(v) ==
    /\ Doing(v, "ProposeBlock")
    /\ locked_proposal_bytes(engine[v]) = {}
    /\ todo' = [todo EXCEPT ![v] = Idle]
    /\ Quiet /\ UNCHANGED <<engine, proposed_block, chosen>>

----------------------------------------------------------------------------
(* NewBlock gossip or block sync applies a peer's block, at any time.  It  *)
(* touches nothing the other arms read, so it is placed where it can       *)
(* matter: between actions and before FinalizeBlock.                       *)
SyncBlock(v, u) ==
    /\ chain[v] = None /\ chain[u] # None
    /\ todo[v] = Idle \/ Doing(v, "FinalizeBlock")
    /\ chain' = [chain EXCEPT ![v] = chain[u]]
    /\ finalized' = finalized \cup {<<v, chain[u]>>}
    /\ UNCHANGED <<engine, todo, proposed_block, guard, sent, restarts, chosen>>

(* The process dies and starts again: a new engine, moved to the round     *)
(* after the last vote it signed, or to the round of its last proposal.    *)
(* A block whose save was still queued is lost.                            *)
Restart(v) ==
    LET last == guard[v].tuple
        target == IF last[1] = 0 THEN 0
                  ELSE IF last[3] >= Prevote THEN last[2] + 1 ELSE last[2]
    IN  /\ v \in MayRestart
        /\ restarts < MaxRestarts
        /\ target <= MaxRound
        /\ restarts' = restarts + 1
        /\ engine' = [engine EXCEPT ![v] = new(target)]
        /\ proposed_block' = [proposed_block EXCEPT ![v] = None]
        /\ \/ /\ chain' = [chain EXCEPT ![v] = None]
              /\ todo' = [todo EXCEPT ![v] = Started(v, target)]
           \/ /\ chain[v] # None
              /\ todo' = [todo EXCEPT ![v] = Idle]
              /\ UNCHANGED chain
        /\ UNCHANGED <<guard, sent, chosen, finalized>>

(* The steps of v's own loop that get something done. *)
Work(v) ==
    \/ DoPrevote(v) \/ DoPrecommit(v) \/ DoFinalize(v) \/ DoAdvance(v)
    \/ CannotBuild(v) \/ \E h \in Hash : DoPropose(v, h)

(* What v learns from a peer's round status or gets by block sync. *)
FollowPeers(v) ==
    \E u \in Validator :
        SyncBlock(v, u) \/ \E r \in Round : RecvRoundStatus(v, u, r)

Next ==
    \E v \in Validator :
        \/ \E u \in Validator, h \in Hash : RecvProposal(v, u, h)
        \/ \E u \in Validator, h \in VoteHash :
              RecvPrevote(v, u, h) \/ RecvPrecommit(v, u, h)
        \/ Timeout(v) \/ Work(v) \/ BroadcastDropped(v)
        \/ FollowPeers(v) \/ Restart(v)

Spec == Init /\ [][Next]_vars

(* The loop of a live process keeps turning: its timeouts fire, it works   *)
(* off its action, and of a broadcast that is tried for ever one gets out. *)
(* Votes, proposals and all that comes from peers may be lost.             *)
LoopSpec ==
    /\ Spec
    /\ \A v \in Validator : WF_vars(Timeout(v)) /\ SF_vars(Work(v))

(* Peers repeat their round status every few seconds and serve the blocks  *)
(* they have.                                                              *)
FairSpec == LoopSpec /\ \A v \in Validator : WF_vars(FollowPeers(v))

----------------------------------------------------------------------------
(* The state that BftVoting sees. *)
Voting == INSTANCE BftVoting WITH
    Quorum <- Supermajorities,
    round <- [v \in Validator |-> engine[v].round],
    phase <- [v \in Validator |-> engine[v].phase],
    locked_hash <- [v \in Validator |-> engine[v].locked_hash],
    locked_round <- [v \in Validator |-> engine[v].locked_round],
    locked_block <- [v \in Validator |-> engine[v].locked_block],
    staging_block <- [v \in Validator |-> engine[v].staging_block],
    proposal <- chosen.proposal,
    prevotes <- chosen.prevotes,
    precommits <- chosen.precommits

(* Every step of every loop, whatever the network loses, delays, repeats   *)
(* or reorders and whoever restarts, is a step the voting rules allow.  So *)
(* the theorems about BftVoting hold of the loop.                          *)
VotingRules == Voting!Spec

(* The guard's promise as peers see it: a validator never signs two        *)
(* different messages for one step of one round, even across a restart.    *)
NoEquivocation ==
    \A m, n \in sent : m[1] = n[1] /\ m[2] = n[2] /\ m[3] = n[3] => m[4] = n[4]

(* No engine knows of f+1 stake in a later round: a lagging validator has  *)
(* always already jumped (issue #143).  In particular the round guard of   *)
(* the FinalizeBlock arm never finds a supermajority ahead.                *)
CaughtUp ==
    \A v \in Validator : f_plus_one_round(engine[v]) = {}

(* No validator stays in a round for ever for want of votes or proposals,  *)
(* which may all be lost: by their own timeouts, which emit again what is  *)
(* pending, all of them come to the block, to the last round of the model, *)
(* or to the Finalize phase, where timeouts do nothing.                    *)
Progress ==
    <>(\A v \in Validator :
          \/ chain[v] # None
          \/ engine[v].round = MaxRound
          \/ engine[v].phase = "Finalize")

(* The comment in the FinalizeBlock arm: "Apply the finalized block we     *)
(* already hold, whoever proposed it".  A validator that has seen the      *)
(* supermajority for the block it holds does not sit in Finalize with it:  *)
(* it gets the block onto its chain, or moves on with its peers.           *)
HeldBlockIsApplied ==
    \A v \in Validator :
        /\ engine[v].phase = "Finalize"
        /\ proposed_block[v] \in supermajority(engine[v].precommits)
        ~> (chain[v] # None \/ engine[v].phase # "Finalize")
=============================================================================
