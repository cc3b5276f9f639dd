-------------------------- MODULE BftVotingProofs --------------------------
(***************************************************************************)
(* Why one height never finalises two blocks, for every validator set,     *)
(* stake distribution, set of hashes and number of rounds that satisfy     *)
(* SafetyAssumption.                                                       *)
(***************************************************************************)
EXTENDS BftVoting, TLAPS

(* supermajority_threshold(total) = 2 total / 3 + 1, so any three quorums  *)
(* share stake; someone in that share keeps its lock.  No lock is old      *)
(* enough for accept_proposal to relax it twice before round               *)
(* STALE_LOCK_ROUND_GAP + 1.                                               *)
ASSUME SafetyAssumption ==
    /\ \A A, B, C \in Quorum : (A \cap B \cap C) \ MayRestart # {}
    /\ MaxRound <= STALE_LOCK_ROUND_GAP

Steady == Validator \ MayRestart

(* v can still precommit in round r. *)
Open(v, r) ==
    \/ round[v] < r
    \/ round[v] = r /\ phase[v] \in {"Propose", "Prevote"}

(* Some quorum has precommitted h in round r, or still can. *)
Choosable(r, h) ==
    \E Q \in Quorum : \A q \in Q \ MayRestart :
        <<q, r, h>> \in precommits \/ Open(q, r)

(* A lock always has its round. *)
LockHasRound ==
    \A v \in Validator : locked_hash[v] # None => locked_round[v] \in Round

(* Votes are only cast in a round the voter has reached. *)
VotesAreReached ==
    \A v \in Steady, r \in Round, h \in Hash :
        /\ <<v, r, h>> \in prevotes =>
              \/ r < round[v]
              \/ r = round[v] /\ phase[v] # "Propose"
        /\ <<v, r, h>> \in precommits => ~Open(v, r)

(* A round has one proposal and nobody prevotes anything else. *)
PrevotesProposal ==
    \A v \in Steady, r \in Round, h \in Hash :
        <<v, r, h>> \in prevotes => h = proposal[r]

PrecommitHasPolka ==
    \A v \in Steady, r \in Round, h \in Hash :
        <<v, r, h>> \in precommits => Polka(r, h)

(* Whoever has just prevoted h holds h's bytes, unless a lock was relaxed. *)
PrevoteIsStaged ==
    \A v \in Steady, h \in Hash :
        phase[v] = "Prevote" /\ <<v, round[v], h>> \in prevotes =>
            staging_block[v] = h \/ round[v] >= STALE_LOCK_ROUND_GAP

(* v has seen a polka for another hash in a round after r. *)
SawOtherPolka(v, r, h) ==
    \E s \in Round, g \in Hash :
        /\ r < s /\ g # h /\ Polka(s, g)
        /\ \/ s < round[v]
           \/ s = round[v] /\ phase[v] \in {"Precommit", "Finalize"}

Backs(v, r, h) == <<v, r, h>> \in prevotes /\ <<v, r, h>> \in precommits

(* A validator that prevoted and precommitted h keeps the lock with the    *)
(* bytes until it sees a later polka for something else.                   *)
BackersStayLocked ==
    \A v \in Steady, r \in Round, h \in Hash :
        Backs(v, r, h) /\ r < STALE_LOCK_ROUND_GAP =>
            \/ locked_hash[v] = h /\ locked_block[v] = h
            \/ SawOtherPolka(v, r, h)

(* ... and so defects only after such a polka. *)
BackersDefectLate ==
    \A v \in Steady, r, s \in Round, h, g \in Hash :
        Backs(v, r, h) /\ <<v, s, g>> \in prevotes /\ r < s /\ g # h =>
            \E t \in Round, k \in Hash :
                r < t /\ t < s /\ k # h /\ Polka(t, k)

(* Once a supermajority has prevoted another hash in a later round, no     *)
(* supermajority of precommits for h in round r exists or can still come   *)
(* about, whoever has not yet spoken there: the lock that                  *)
(* on_prevote_weighted takes and accept_proposal consults binds the later  *)
(* rounds, also when few have seen the earlier polka.                      *)
PolkaExcludes ==
    \A r, s \in Round, h, g \in Hash :
        r < s /\ h # g /\ Polka(s, g) => ~Choosable(r, h)

FinalizedIsCommitted ==
    /\ \A v \in Validator, h \in Hash :
          <<v, h>> \in finalized => \E r \in Round : Committed(r, h)
    /\ \A v \in Validator : chain[v] # None => <<v, chain[v]>> \in finalized

IInv ==
    /\ TypeOK
    /\ LockedBytesMatch
    /\ LockHasRound
    /\ VotesAreReached
    /\ PrevotesProposal
    /\ PrecommitHasPolka
    /\ PrevoteIsStaged
    /\ BackersStayLocked
    /\ BackersDefectLate
    /\ PolkaExcludes
    /\ FinalizedIsCommitted

----------------------------------------------------------------------------
(* What the assumptions say of single quorums. *)
LEMMA QuorumFacts ==
    /\ \A A \in Quorum : \E q \in A : q \in Steady
    /\ \A A, B \in Quorum : \E q \in A \cap B : q \in Steady
    /\ \A A, B, C \in Quorum : \E q \in A \cap B \cap C : q \in Steady
BY ConstantsAssumption, SafetyAssumption DEF Steady

(* accept_proposal keeps the types. *)
LEMMA AcceptType ==
    ASSUME TypeOK, NEW v \in Validator, NEW h \in Hash, NEW credited \in SUBSET Vote,
           accept_proposal(v, h, credited)
    PROVE  /\ phase' \in [Validator -> Phase]
           /\ locked_hash' \in [Validator -> Hash \cup {None}]
           /\ locked_round' \in [Validator -> Round \cup {None}]
           /\ staging_block' \in [Validator -> Hash \cup {None}]
           /\ prevotes' \subseteq Vote
BY DEF TypeOK, accept_proposal, Phase, Vote

(* One step of any action keeps the types. *)
LEMMA TypeStep == TypeOK /\ [Next]_vars => TypeOK'
<1> SUFFICES ASSUME TypeOK, [Next]_vars PROVE TypeOK'
  OBVIOUS
<1> USE ConstantsAssumption
<1>1. ASSUME NEW v \in Validator, NEW h \in Hash, Propose(v, h) PROVE TypeOK'
  <2> DEFINE credited == IF proposal[round[v]] = None THEN {<<v, round[v], h>>}
                                                     ELSE {}
  <2>1. credited \in SUBSET Vote /\ accept_proposal(v, h, credited)
    BY <1>1 DEF Propose, TypeOK, Vote
  <2>2. proposal' \in [Round -> Hash \cup {None}]
    BY <1>1 DEF Propose, TypeOK
  <2> HIDE DEF credited
  <2>3. UNCHANGED <<round, locked_block, precommits, chain, finalized>>
    BY <2>1 DEF accept_proposal
  <2> QED
    BY <2>1, <2>2, <2>3, AcceptType DEF TypeOK
<1>2. ASSUME NEW v \in Validator, OnProposal(v) PROVE TypeOK'
  <2>1. proposal[round[v]] \in Hash /\ accept_proposal(v, proposal[round[v]], {})
    BY <1>2 DEF OnProposal, TypeOK
  <2>2. UNCHANGED <<round, locked_block, precommits, chain, finalized, proposal>>
    BY <1>2, <2>1 DEF OnProposal, accept_proposal
  <2> QED
    BY <2>1, <2>2, AcceptType DEF TypeOK
<1>3. ASSUME NEW v \in Validator, LateProposal(v) PROVE TypeOK'
  BY <1>3 DEF LateProposal, TypeOK, lockVars
<1>4. ASSUME NEW v \in Validator, OnTimeout(v) PROVE TypeOK'
  BY <1>4 DEF OnTimeout, TypeOK, lockVars, Phase
<1>5. ASSUME NEW v \in Validator, NEW h \in Hash, OnPolka(v, h) PROVE TypeOK'
  BY <1>5 DEF OnPolka, TypeOK, Phase, Vote
<1>6. ASSUME NEW v \in Validator, NEW h \in Hash, OnCommit(v, h) PROVE TypeOK'
  BY <1>6 DEF OnCommit, TypeOK, lockVars, Phase
<1>7. ASSUME NEW v \in Validator, NEW h \in Hash, Finalize(v, h) PROVE TypeOK'
  BY <1>7 DEF Finalize, TypeOK, lockVars
<1>8. ASSUME NEW v \in Validator, NEW r \in Round, AdvanceRound(v, r) PROVE TypeOK'
  BY <1>8 DEF AdvanceRound, TypeOK, lockVars, Phase
<1>9. ASSUME NEW v \in Validator, NEW r \in Round, Restart(v, r) PROVE TypeOK'
  BY <1>9 DEF Restart, TypeOK, Phase
<1>10. ASSUME NEW v \in Validator, NEW u \in Validator, SyncBlock(v, u) PROVE TypeOK'
  BY <1>10 DEF SyncBlock, TypeOK, lockVars
<1>11. CASE UNCHANGED vars
  BY <1>11 DEF vars, TypeOK
<1> QED
  BY <1>1, <1>2, <1>3, <1>4, <1>5, <1>6, <1>7, <1>8, <1>9, <1>10, <1>11 DEF Next

----------------------------------------------------------------------------
(* What one step can do to the votes and locks of a steady validator w.    *)

NewPrevote(w, r, h) ==
    /\ r = round[w] /\ round'[w] = round[w]
    /\ phase[w] = "Propose" /\ phase'[w] = "Prevote"
    /\ proposal'[r] = h
    /\ locked_block[w] # None => locked_hash[w] = h
    /\ staging_block'[w] = h \/ r >= STALE_LOCK_ROUND_GAP

NewPrecommit(w, r, h) ==
    /\ r = round[w] /\ round'[w] = round[w]
    /\ phase[w] = "Prevote" /\ phase'[w] = "Precommit"
    /\ Polka(r, h)
    /\ locked_hash'[w] = h
    /\ staging_block[w] = h => locked_block'[w] = h
    /\ locked_hash[w] = h /\ locked_block[w] = h => locked_block'[w] = h

Moves(w) ==
    \/ round'[w] > round[w] /\ phase'[w] = "Propose"
    \/ /\ round'[w] = round[w]
       /\ \/ phase'[w] = phase[w]
          \/ phase[w] = "Propose" /\ phase'[w] = "Prevote"
          \/ phase[w] = "Prevote" /\ phase'[w] = "Precommit"
          \/ phase'[w] = "Finalize"

StepOf(w) ==
    /\ \A r \in Round, h \in Hash :
          /\ <<w, r, h>> \in prevotes' \ prevotes => NewPrevote(w, r, h)
          /\ <<w, r, h>> \in precommits' \ precommits => NewPrecommit(w, r, h)
    /\ \/ locked_hash'[w] = locked_hash[w] /\ locked_block'[w] = locked_block[w]
       \/ locked_block[w] = None /\ locked_hash'[w] = None /\ locked_block'[w] = None
       \/ \E h \in Hash : NewPrecommit(w, round[w], h)
    /\ Moves(w)
    /\ phase'[w] = "Prevote" /\ phase[w] = "Prevote" /\ round'[w] = round[w] =>
          staging_block'[w] \in {staging_block[w], proposal[round[w]]}

Grows ==
    /\ prevotes \subseteq prevotes'
    /\ precommits \subseteq precommits'
    /\ \A r \in Round : proposal[r] # None => proposal'[r] = proposal[r]

(* Accepting a proposal is such a step for the validator that accepts.     *)
LEMMA AcceptStep ==
    ASSUME TypeOK, LockHasRound, NEW v \in Validator, NEW h \in Hash,
           NEW credited \in SUBSET {<<v, round[v], h>>},
           accept_proposal(v, h, credited),
           phase[v] = "Propose", proposal'[round[v]] = h,
           locked_block[v] # None => credited = {} \/ h = locked_hash[v],
           LockedBytesMatch
    PROVE  StepOf(v)
<1> USE ConstantsAssumption
<1>1. StaleLock(v, h) => round[v] >= STALE_LOCK_ROUND_GAP
  BY DEF StaleLock, LockHasRound, TypeOK, Round
<1>2. staging_block'[v] = h \/ round[v] >= STALE_LOCK_ROUND_GAP
  BY <1>1 DEF accept_proposal, TypeOK
<1>3. ASSUME NEW r \in Round, NEW k \in Hash, <<v, r, k>> \in prevotes' \ prevotes
      PROVE  NewPrevote(v, r, k)
  <2>1. r = round[v] /\ k = h
    BY <1>3 DEF accept_proposal
  <2>2. credited # {} \/ StaleLock(v, h) \/ locked_hash[v] \in {None, h}
    BY <1>3 DEF accept_proposal
  <2>3. locked_block[v] # None => locked_hash[v] = h
    BY <2>2 DEF StaleLock, LockedBytesMatch, TypeOK
  <2> QED
    BY <1>2, <2>1, <2>3 DEF accept_proposal, NewPrevote, TypeOK
<1>4. \/ locked_hash'[v] = locked_hash[v] /\ locked_block'[v] = locked_block[v]
      \/ locked_block[v] = None /\ locked_hash'[v] = None /\ locked_block'[v] = None
  BY DEF accept_proposal, StaleLock, TypeOK
<1> QED
  BY <1>3, <1>4 DEF accept_proposal, StepOf, Moves, TypeOK

(* accept_proposal leaves every other validator alone.                     *)
LEMMA AcceptOthers ==
    ASSUME TypeOK, NEW v \in Validator, NEW h \in Hash,
           NEW credited \in SUBSET {<<v, round[v], h>>},
           accept_proposal(v, h, credited), NEW w \in Steady, w # v
    PROVE  StepOf(w)
<1>1. \A r \in Round, k \in Hash : <<w, r, k>> \notin prevotes' \ prevotes
  BY DEF accept_proposal
<1> QED
  BY <1>1 DEF accept_proposal, StepOf, Moves, TypeOK, Steady

(* Every step of the system is such a step for every steady validator.     *)
LEMMA StepShape ==
    TypeOK /\ LockHasRound /\ LockedBytesMatch /\ [Next]_vars =>
        Grows /\ \A w \in Steady : StepOf(w)
<1> SUFFICES ASSUME TypeOK, LockHasRound, LockedBytesMatch, [Next]_vars
             PROVE  Grows /\ \A w \in Steady : StepOf(w)
  OBVIOUS
<1> USE ConstantsAssumption
<1> DEFINE Goal == Grows /\ \A w \in Steady : StepOf(w)
<1>0. Steady \subseteq Validator
  BY DEF Steady
<1>1. ASSUME NEW v \in Validator, NEW h \in Hash, Propose(v, h) PROVE Goal
  <2> DEFINE credited == IF proposal[round[v]] = None THEN {<<v, round[v], h>>}
                                                     ELSE {}
  <2>1. credited \in SUBSET {<<v, round[v], h>>} /\ accept_proposal(v, h, credited)
    BY <1>1 DEF Propose
  <2>2. /\ phase[v] = "Propose"
        /\ locked_block[v] # None => h = locked_hash[v]
        /\ v \in Steady => proposal'[round[v]] = h
        /\ \A r \in Round : proposal[r] # None => proposal'[r] = proposal[r]
    BY <1>1 DEF Propose, TypeOK, Steady
  <2> HIDE DEF credited
  <2>3. v \in Steady => StepOf(v)
    BY <2>1, <2>2, AcceptStep
  <2>4. \A w \in Steady : w # v => StepOf(w)
    BY <2>1, AcceptOthers
  <2>5. Grows
    BY <2>1, <2>2 DEF Grows, accept_proposal
  <2> QED
    BY <2>3, <2>4, <2>5
<1>2. ASSUME NEW v \in Validator, OnProposal(v) PROVE Goal
  <2> DEFINE h == proposal[round[v]]
  <2>1. h \in Hash /\ accept_proposal(v, h, {}) /\ phase[v] = "Propose"
    BY <1>2 DEF OnProposal, TypeOK
  <2>2. proposal' = proposal /\ round[v] \in Round
    BY <1>2 DEF OnProposal, TypeOK
  <2>3. {} \in SUBSET {<<v, round[v], h>>} /\ proposal'[round[v]] = h
    BY <2>2
  <2> HIDE DEF h
  <2>4. StepOf(v)
    BY <2>1, <2>3, AcceptStep
  <2>5. \A w \in Steady : w # v => StepOf(w)
    BY <2>1, <2>3, AcceptOthers
  <2>6. Grows
    BY <2>1, <2>2 DEF Grows, accept_proposal
  <2> QED
    BY <2>4, <2>5, <2>6
<1>3. ASSUME NEW v \in Validator, LateProposal(v) PROVE Goal
  BY <1>0, <1>3 DEF LateProposal, TypeOK, lockVars, Grows, StepOf, Moves
<1>4. ASSUME NEW v \in Validator, OnTimeout(v) PROVE Goal
  BY <1>0, <1>4 DEF OnTimeout, TypeOK, lockVars, Grows, StepOf, Moves
<1>5. ASSUME NEW v \in Validator, NEW h \in Hash, OnPolka(v, h) PROVE Goal
  <2>1. Grows
    BY <1>5 DEF OnPolka, Grows
  <2>2. NewPrecommit(v, round[v], h)
    BY <1>5 DEF OnPolka, NewPrecommit, TypeOK
  <2>3. \A r \in Round, k \in Hash :
            <<v, r, k>> \in precommits' \ precommits => r = round[v] /\ k = h
    BY <1>5 DEF OnPolka
  <2>4. /\ round' = round /\ prevotes' = prevotes
        /\ phase[v] = "Prevote" /\ phase'[v] = "Precommit"
    BY <1>5 DEF OnPolka, TypeOK
  <2>5. StepOf(v)
    BY <2>2, <2>3, <2>4 DEF StepOf, Moves
  <2>6. ASSUME NEW w \in Steady, w # v PROVE StepOf(w)
    BY <1>0, <1>5, <2>6 DEF OnPolka, TypeOK, StepOf, Moves
  <2> QED
    BY <2>1, <2>5, <2>6
<1>6. ASSUME NEW v \in Validator, NEW h \in Hash, OnCommit(v, h) PROVE Goal
  BY <1>0, <1>6 DEF OnCommit, TypeOK, lockVars, Grows, StepOf, Moves
<1>7. ASSUME NEW v \in Validator, NEW h \in Hash, Finalize(v, h) PROVE Goal
  BY <1>0, <1>7 DEF Finalize, TypeOK, lockVars, Grows, StepOf, Moves
<1>8. ASSUME NEW v \in Validator, NEW r \in Round, AdvanceRound(v, r) PROVE Goal
  BY <1>0, <1>8 DEF AdvanceRound, TypeOK, lockVars, Grows, StepOf, Moves
<1>9. ASSUME NEW v \in Validator, NEW r \in Round, Restart(v, r) PROVE Goal
  BY <1>0, <1>9 DEF Restart, TypeOK, Grows, StepOf, Moves, Steady
<1>10. ASSUME NEW v \in Validator, NEW u \in Validator, SyncBlock(v, u) PROVE Goal
  BY <1>0, <1>10 DEF SyncBlock, TypeOK, lockVars, Grows, StepOf, Moves
<1>11. CASE UNCHANGED vars
  BY <1>0, <1>11 DEF vars, TypeOK, Grows, StepOf, Moves
<1> QED
  BY <1>1, <1>2, <1>3, <1>4, <1>5, <1>6, <1>7, <1>8, <1>9, <1>10, <1>11 DEF Next

----------------------------------------------------------------------------
(* The locks of all validators, steady or not. *)
LEMMA LockStep ==
    TypeOK /\ LockHasRound /\ LockedBytesMatch /\ [Next]_vars =>
        LockHasRound' /\ LockedBytesMatch'
<1> SUFFICES ASSUME TypeOK, LockHasRound, LockedBytesMatch, [Next]_vars
             PROVE  LockHasRound' /\ LockedBytesMatch'
  OBVIOUS
<1> USE ConstantsAssumption DEF TypeOK, LockHasRound, LockedBytesMatch
<1>1. ASSUME NEW v \in Validator, NEW h \in Hash, NEW c, accept_proposal(v, h, c)
      PROVE  LockHasRound' /\ LockedBytesMatch'
  BY <1>1 DEF accept_proposal, StaleLock
<1>2. ASSUME NEW v \in Validator, NEW h \in Hash, OnPolka(v, h)
      PROVE  LockHasRound' /\ LockedBytesMatch'
  BY <1>2 DEF OnPolka
<1>3. ASSUME NEW v \in Validator, NEW r \in Round, Restart(v, r)
      PROVE  LockHasRound' /\ LockedBytesMatch'
  BY <1>3 DEF Restart
<1>4. ASSUME NEW v \in Validator, NEW h \in Hash, Propose(v, h)
      PROVE  LockHasRound' /\ LockedBytesMatch'
  BY <1>1, <1>4 DEF Propose
<1>5. ASSUME NEW v \in Validator, OnProposal(v)
      PROVE  LockHasRound' /\ LockedBytesMatch'
  <2>1. proposal[round[v]] \in Hash
    BY <1>5 DEF OnProposal
  <2> QED
    BY <1>1, <1>5, <2>1 DEF OnProposal
<1>6. CASE UNCHANGED lockVars
  BY <1>6 DEF lockVars
<1>7. ASSUME NEW v \in Validator
      PROVE  /\ LateProposal(v) \/ OnTimeout(v) => UNCHANGED lockVars
             /\ \A h \in Hash : OnCommit(v, h) \/ Finalize(v, h) => UNCHANGED lockVars
             /\ \A r \in Round : AdvanceRound(v, r) => UNCHANGED lockVars
             /\ \A u \in Validator : SyncBlock(v, u) => UNCHANGED lockVars
  BY DEF LateProposal, OnTimeout, OnCommit, Finalize, AdvanceRound, SyncBlock
<1>8. UNCHANGED vars => UNCHANGED lockVars
  BY DEF vars, lockVars
<1> HIDE DEF TypeOK, LockHasRound, LockedBytesMatch
<1> QED
  BY <1>2, <1>3, <1>4, <1>5, <1>6, <1>7, <1>8 DEF Next

(* Rounds are numbers, so that "later" and "not earlier" make sense. *)
LEMMA MoveFacts ==
    ASSUME TypeOK, TypeOK', NEW w \in Steady, StepOf(w)
    PROVE  /\ round[w] \in Nat /\ round'[w] \in Nat
           /\ round[w] \in Round /\ phase[w] \in Phase
           /\ Moves(w)
           /\ round'[w] >= round[w]
<1>1. w \in Validator /\ Moves(w)
  BY DEF Steady, StepOf
<1>2. round[w] \in Round /\ round'[w] \in Round /\ phase[w] \in Phase
  BY <1>1 DEF TypeOK
<1>3. round[w] \in Nat /\ round'[w] \in Nat
  BY <1>2, ConstantsAssumption DEF Round
<1> QED
  BY <1>1, <1>2, <1>3 DEF Moves

LEMMA RoundIsNat == \A r \in Round : r \in Nat
BY ConstantsAssumption DEF Round

(* A polka stays a polka, and a round that is closed for a steady          *)
(* validator stays closed.                                                 *)
LEMMA Stable ==
    ASSUME TypeOK, TypeOK', Grows, \A w \in Steady : StepOf(w)
    PROVE  /\ \A r \in Round, h \in Hash : Polka(r, h) => Polka(r, h)'
           /\ \A w \in Steady, r \in Round : ~Open(w, r) => ~Open(w, r)'
           /\ \A v \in Steady, r \in Round, h \in Hash :
                 SawOtherPolka(v, r, h) => SawOtherPolka(v, r, h)'
<1>1. \A r \in Round, h \in Hash : Polka(r, h) => Polka(r, h)'
  BY DEF Grows, Polka
<1>2. Steady \subseteq Validator
  BY DEF Steady
<1>3. ASSUME NEW w \in Steady, NEW r \in Round, ~Open(w, r) PROVE ~Open(w, r)'
  BY <1>3, MoveFacts, RoundIsNat DEF Open, Moves, Phase
<1>4. ASSUME NEW v \in Steady, NEW r \in Round, NEW h \in Hash, SawOtherPolka(v, r, h)
      PROVE  SawOtherPolka(v, r, h)'
  <2>1. PICK s \in Round, g \in Hash :
            /\ r < s /\ g # h /\ Polka(s, g)
            /\ \/ s < round[v]
               \/ s = round[v] /\ phase[v] \in {"Precommit", "Finalize"}
    BY <1>4 DEF SawOtherPolka
  <2>2. Polka(s, g)'
    BY <1>1, <2>1
  <2>3. \/ s < round'[v]
        \/ s = round'[v] /\ phase'[v] \in {"Precommit", "Finalize"}
    BY <2>1, MoveFacts, RoundIsNat DEF Moves
  <2> QED
    BY <2>1, <2>2, <2>3 DEF SawOtherPolka
<1> QED
  BY <1>1, <1>3, <1>4

(* VotesAreReached, PrevotesProposal, PrecommitHasPolka, PrevoteIsStaged.  *)
LEMMA VoteStep ==
    ASSUME TypeOK, TypeOK', Grows, \A w \in Steady : StepOf(w),
           VotesAreReached, PrevotesProposal, PrecommitHasPolka, PrevoteIsStaged
    PROVE  VotesAreReached' /\ PrevotesProposal' /\ PrecommitHasPolka'
               /\ PrevoteIsStaged'
<1> USE ConstantsAssumption
<1>0. Steady \subseteq Validator
  BY DEF Steady
<1>1. ASSUME NEW v \in Steady, NEW r \in Round, NEW h \in Hash,
             <<v, r, h>> \in prevotes'
      PROVE  r < round'[v] \/ (r = round'[v] /\ phase'[v] # "Propose")
  <2>1. CASE <<v, r, h>> \in prevotes
    <3>1. r < round[v] \/ (r = round[v] /\ phase[v] # "Propose")
      BY <2>1 DEF VotesAreReached
    <3>2. round[v] \in Nat /\ round'[v] \in Nat /\ r \in Nat /\ Moves(v)
      BY MoveFacts, RoundIsNat
    <3> QED
      BY <3>1, <3>2 DEF Moves
  <2>2. CASE <<v, r, h>> \notin prevotes
    BY <1>1, <2>2 DEF StepOf, NewPrevote
  <2> QED
    BY <2>1, <2>2
<1>2. ASSUME NEW v \in Steady, NEW r \in Round, NEW h \in Hash,
             <<v, r, h>> \in precommits'
      PROVE  ~Open(v, r)'
  <2>1. CASE <<v, r, h>> \in precommits
    BY <2>1, Stable DEF VotesAreReached
  <2>2. CASE <<v, r, h>> \notin precommits
    BY <1>2, <2>2, MoveFacts, RoundIsNat DEF StepOf, NewPrecommit, Open
  <2> QED
    BY <2>1, <2>2
<1>3. PrevotesProposal'
  BY DEF PrevotesProposal, Grows, StepOf, NewPrevote
<1>4. PrecommitHasPolka'
  BY Stable DEF PrecommitHasPolka, StepOf, NewPrecommit
<1>5. ASSUME NEW v \in Steady, NEW h \in Hash, phase'[v] = "Prevote",
             <<v, round'[v], h>> \in prevotes'
      PROVE  staging_block'[v] = h \/ round'[v] >= STALE_LOCK_ROUND_GAP
  <2>1. round'[v] = round[v] /\ round[v] \in Round
    BY <1>5, MoveFacts DEF Moves
  <2>2. CASE <<v, round[v], h>> \in prevotes
    <3>1. phase[v] = "Prevote"
      BY <1>5, <2>1, <2>2, MoveFacts DEF VotesAreReached, Moves
    <3>2. proposal[round[v]] = h
      BY <2>1, <2>2 DEF PrevotesProposal
    <3> QED
      BY <1>5, <2>1, <2>2, <3>1, <3>2 DEF PrevoteIsStaged, StepOf
  <2>3. CASE <<v, round[v], h>> \notin prevotes
    BY <1>5, <2>1, <2>3 DEF StepOf, NewPrevote
  <2> QED
    BY <2>2, <2>3
<1> QED
  BY <1>1, <1>2, <1>3, <1>4, <1>5 DEF VotesAreReached, PrevoteIsStaged

(* A backer of h keeps lock and bytes: only a later polka moves the lock.  *)
LEMMA BackerStep ==
    ASSUME TypeOK, TypeOK', Grows, \A w \in Steady : StepOf(w),
           VotesAreReached, PrevoteIsStaged, BackersStayLocked
    PROVE  BackersStayLocked'
<1> USE ConstantsAssumption
<1> SUFFICES ASSUME NEW v \in Steady, NEW r \in Round, NEW h \in Hash,
                    Backs(v, r, h)', r < STALE_LOCK_ROUND_GAP,
                    ~SawOtherPolka(v, r, h)'
             PROVE  locked_hash'[v] = h /\ locked_block'[v] = h
  BY DEF BackersStayLocked
<1>1. ~SawOtherPolka(v, r, h)
  BY Stable
<1>2. /\ round[v] \in Nat /\ round'[v] \in Nat /\ r \in Nat /\ round[v] \in Round
      /\ STALE_LOCK_ROUND_GAP \in Nat /\ Moves(v)
  BY MoveFacts, RoundIsNat
<1>3. CASE <<v, r, h>> \notin precommits
  <2>1. NewPrecommit(v, r, h)
    BY <1>3 DEF StepOf, Backs
  <2>2. <<v, r, h>> \in prevotes
    BY <2>1 DEF StepOf, Backs, NewPrecommit, NewPrevote
  <2>3. staging_block[v] = h
    BY <1>2, <2>1, <2>2 DEF NewPrecommit, PrevoteIsStaged
  <2> QED
    BY <2>1, <2>3 DEF NewPrecommit
<1>4. CASE <<v, r, h>> \in precommits
  <2>1. r <= round[v] /\ (r = round[v] => phase[v] \notin {"Propose", "Prevote"})
    BY <1>2, <1>4 DEF VotesAreReached, Open
  <2>2. <<v, r, h>> \in prevotes
    BY <2>1 DEF StepOf, Backs, NewPrevote
  <2>3. locked_hash[v] = h /\ locked_block[v] = h
    BY <1>1, <1>4, <2>2 DEF BackersStayLocked, Backs
  <2>4. CASE \E g \in Hash : NewPrecommit(v, round[v], g)
    <3>1. PICK g \in Hash : NewPrecommit(v, round[v], g)
      BY <2>4
    <3>2. r < round[v]
      BY <1>2, <2>1, <3>1 DEF NewPrecommit
    <3>3. Polka(round[v], g)' /\ round'[v] = round[v] /\ phase'[v] = "Precommit"
      BY <1>2, <3>1, Stable DEF NewPrecommit
    <3>4. g = h
      BY <1>2, <3>2, <3>3 DEF SawOtherPolka
    <3> QED
      BY <2>3, <3>1, <3>4 DEF NewPrecommit
  <2>5. h # None
    OBVIOUS
  <2> QED
    BY <2>3, <2>4, <2>5 DEF StepOf
<1> QED
  BY <1>3, <1>4

(* A backer votes for something else only after a polka for something else *)
(* that was there before the vote.                                         *)
DefectsAfterPolka ==
    \A v \in Steady, r, s \in Round, h, g \in Hash :
        Backs(v, r, h)' /\ <<v, s, g>> \in prevotes' /\ r < s /\ g # h =>
            \E t \in Round, k \in Hash :
                r < t /\ t < s /\ k # h /\ Polka(t, k)

LEMMA DefectStep ==
    ASSUME TypeOK, TypeOK', Grows, \A w \in Steady : StepOf(w),
           VotesAreReached, BackersStayLocked, BackersDefectLate
    PROVE  DefectsAfterPolka
<1> USE ConstantsAssumption
<1> SUFFICES ASSUME NEW v \in Steady, NEW r \in Round, NEW s \in Round,
                    NEW h \in Hash, NEW g \in Hash,
                    Backs(v, r, h)', <<v, s, g>> \in prevotes', r < s, g # h
             PROVE  \E t \in Round, k \in Hash :
                        r < t /\ t < s /\ k # h /\ Polka(t, k)
  BY DEF DefectsAfterPolka
<1>1. /\ round[v] \in Nat /\ r \in Nat /\ s \in Nat /\ round[v] \in Round
      /\ MaxRound \in Nat /\ STALE_LOCK_ROUND_GAP \in Nat /\ s <= MaxRound
  BY MoveFacts, RoundIsNat DEF Round
<1>2. CASE <<v, s, g>> \in prevotes
  <2>1. s <= round[v]
    BY <1>1, <1>2 DEF VotesAreReached
  <2>2. Backs(v, r, h)
    BY <1>1, <2>1 DEF Backs, StepOf, NewPrevote, NewPrecommit
  <2> QED
    BY <1>2, <2>2 DEF BackersDefectLate
<1>3. CASE <<v, s, g>> \notin prevotes
  <2>1. NewPrevote(v, s, g)
    BY <1>3 DEF StepOf
  <2>2. Backs(v, r, h)
    BY <1>1, <2>1 DEF Backs, StepOf, NewPrevote, NewPrecommit
  <2>3. r < STALE_LOCK_ROUND_GAP
    BY <1>1, SafetyAssumption
  <2>4. SawOtherPolka(v, r, h)
    BY <2>1, <2>2, <2>3 DEF BackersStayLocked, NewPrevote
  <2>5. PICK t \in Round, k \in Hash :
            /\ r < t /\ k # h /\ Polka(t, k)
            /\ \/ t < round[v]
               \/ t = round[v] /\ phase[v] \in {"Precommit", "Finalize"}
    BY <2>4 DEF SawOtherPolka
  <2>6. t < s
    BY <2>1, <2>5 DEF NewPrevote
  <2> QED
    BY <2>5, <2>6
<1> QED
  BY <1>2, <1>3

(* The heart of the argument: three quorums meet in a backer of h that     *)
(* voted for g, so an even earlier polka had already excluded h.           *)
LEMMA ExcludeStep ==
    ASSUME TypeOK, TypeOK', Grows, \A w \in Steady : StepOf(w),
           VotesAreReached', PrecommitHasPolka', DefectsAfterPolka, PolkaExcludes
    PROVE  PolkaExcludes'
<1> USE ConstantsAssumption
<1>1. ASSUME NEW r \in Round, NEW h \in Hash, Choosable(r, h)'
      PROVE  Choosable(r, h)
  <2>1. PICK Q \in Quorum : \A q \in Q \ MayRestart :
            <<q, r, h>> \in precommits' \/ Open(q, r)'
    BY <1>1 DEF Choosable
  <2>2. ASSUME NEW q \in Q \ MayRestart
        PROVE  <<q, r, h>> \in precommits \/ Open(q, r)
    <3>1. q \in Steady
      BY DEF Steady
    <3>2. CASE Open(q, r)'
      BY <3>1, <3>2, Stable
    <3>3. CASE <<q, r, h>> \in precommits' \ precommits
      BY <3>1, <3>3 DEF StepOf, NewPrecommit, Open
    <3> QED
      BY <2>1, <3>2, <3>3
  <2> QED
    BY <2>2 DEF Choosable
<1> SUFFICES ASSUME NEW r \in Round, NEW s \in Round, NEW h \in Hash, NEW g \in Hash,
                    r < s, h # g, Polka(s, g)', Choosable(r, h)'
             PROVE  FALSE
  BY DEF PolkaExcludes
<1>2. PICK A \in Quorum : \A q \in A \ MayRestart :
          <<q, r, h>> \in precommits' \/ Open(q, r)'
  BY DEF Choosable
<1>3. PICK B \in Quorum : \A q \in B : <<q, s, g>> \in prevotes'
  BY DEF Polka
<1>4. ASSUME NEW q \in A \cap B, q \in Steady
      PROVE  <<q, r, h>> \in precommits'
  <2>1. q \in Validator /\ r \in Nat /\ s \in Nat /\ round'[q] \in Nat
    BY <1>4, MoveFacts, RoundIsNat DEF Steady
  <2>2. s <= round'[q]
    <3>1. <<q, s, g>> \in prevotes'
      BY <1>3
    <3>2. s < round'[q] \/ (s = round'[q] /\ phase'[q] # "Propose")
      BY <1>4, <3>1 DEF VotesAreReached
    <3> QED
      BY <2>1, <3>2
  <2>3. ~Open(q, r)'
    BY <2>1, <2>2 DEF Open
  <2> QED
    BY <1>2, <1>4, <2>3 DEF Steady
<1>5. PICK C \in Quorum : \A q \in C : <<q, r, h>> \in prevotes'
  <2>1. PICK q \in A \cap B : q \in Steady
    BY QuorumFacts
  <2> QED
    BY <1>4, <2>1 DEF PrecommitHasPolka, Polka
<1>6. PICK q \in A \cap B \cap C : q \in Steady
  BY QuorumFacts
<1>7. Backs(q, r, h)'
  BY <1>4, <1>5, <1>6 DEF Backs
<1>8. PICK t \in Round, k \in Hash : r < t /\ k # h /\ Polka(t, k)
  BY <1>3, <1>6, <1>7 DEF DefectsAfterPolka
<1> QED
  BY <1>1, <1>8 DEF PolkaExcludes

(* Whatever was finalised has a quorum of precommits in some round.        *)
LEMMA FinalizedStep ==
    TypeOK /\ FinalizedIsCommitted /\ Grows /\ [Next]_vars => FinalizedIsCommitted'
<1> SUFFICES ASSUME TypeOK, FinalizedIsCommitted, Grows, [Next]_vars
             PROVE  FinalizedIsCommitted'
  OBVIOUS
<1> USE ConstantsAssumption
<1>1. \A r \in Round, h \in Hash : Committed(r, h) => Committed(r, h)'
  BY DEF Grows, Committed
<1>2. ASSUME NEW v \in Validator, NEW h \in Hash, Finalize(v, h)
      PROVE  FinalizedIsCommitted'
  BY <1>1, <1>2 DEF Finalize, FinalizedIsCommitted, TypeOK
<1>3. ASSUME NEW v \in Validator, NEW u \in Validator, SyncBlock(v, u)
      PROVE  FinalizedIsCommitted'
  <2>1. <<u, chain[u]>> \in finalized /\ chain[u] \in Hash
    BY <1>3 DEF SyncBlock, FinalizedIsCommitted, TypeOK
  <2>2. PICK g \in Hash : g = chain[u]
    BY <2>1
  <2>3. \A w \in Validator, h \in Hash :
            <<w, h>> \in finalized' => \E s \in Round : Committed(s, h)'
    <3>1. \E r \in Round : Committed(r, g)'
      BY <1>1, <2>1, <2>2 DEF FinalizedIsCommitted
    <3>2. finalized' = finalized \cup {<<v, g>>}
      BY <1>3, <2>2 DEF SyncBlock
    <3> QED
      BY <1>1, <3>1, <3>2 DEF FinalizedIsCommitted
  <2>4. \A w \in Validator : chain'[w] # None => <<w, chain'[w]>> \in finalized'
    BY <1>3 DEF SyncBlock, FinalizedIsCommitted, TypeOK
  <2> QED
    BY <2>3, <2>4 DEF FinalizedIsCommitted
<1>4. ASSUME NEW v \in Validator, NEW r \in Round, Restart(v, r)
      PROVE  FinalizedIsCommitted'
  BY <1>1, <1>4 DEF Restart, FinalizedIsCommitted, TypeOK
<1>5. CASE UNCHANGED <<chain, finalized>>
  BY <1>1, <1>5 DEF FinalizedIsCommitted
<1>6. ASSUME NEW v \in Validator
      PROVE  /\ OnProposal(v) \/ LateProposal(v) \/ OnTimeout(v) =>
                    UNCHANGED <<chain, finalized>>
             /\ \A h \in Hash : Propose(v, h) \/ OnPolka(v, h) \/ OnCommit(v, h) =>
                    UNCHANGED <<chain, finalized>>
             /\ \A r \in Round : AdvanceRound(v, r) => UNCHANGED <<chain, finalized>>
  BY DEF OnProposal, LateProposal, OnTimeout, Propose, OnPolka, OnCommit,
         AdvanceRound, accept_proposal
<1>7. UNCHANGED vars => UNCHANGED <<chain, finalized>>
  BY DEF vars
<1> QED
  BY <1>2, <1>3, <1>4, <1>5, <1>6, <1>7 DEF Next

----------------------------------------------------------------------------
(* The inductive invariant holds in every reachable state.                 *)
THEOREM Invariance == Spec => []IInv
<1>1. Init => IInv
  <2> SUFFICES ASSUME Init PROVE IInv
    OBVIOUS
  <2> USE ConstantsAssumption
  <2>1. TypeOK
    BY DEF Init, TypeOK, Round, Phase, Vote
  <2>2. LockedBytesMatch /\ LockHasRound /\ FinalizedIsCommitted
    BY DEF Init, LockedBytesMatch, LockHasRound, FinalizedIsCommitted
  <2>3. prevotes = {} /\ precommits = {}
    BY DEF Init
  <2>4. \A r \in Round, h \in Hash : ~Polka(r, h)
    BY <2>3, QuorumFacts DEF Polka
  <2> QED
    BY <2>1, <2>2, <2>3, <2>4
    DEF IInv, VotesAreReached, PrevotesProposal, PrecommitHasPolka, PrevoteIsStaged,
        BackersStayLocked, BackersDefectLate, PolkaExcludes, Backs
<1>2. IInv /\ [Next]_vars => IInv'
  <2> SUFFICES ASSUME IInv, [Next]_vars PROVE IInv'
    OBVIOUS
  <2> USE DEF IInv
  <2>1. TypeOK'
    BY TypeStep
  <2>2. Grows /\ \A w \in Steady : StepOf(w)
    BY StepShape
  <2>3. LockHasRound' /\ LockedBytesMatch'
    BY LockStep
  <2>4. VotesAreReached' /\ PrevotesProposal' /\ PrecommitHasPolka' /\ PrevoteIsStaged'
    BY <2>1, <2>2, VoteStep
  <2>5. BackersStayLocked'
    BY <2>1, <2>2, BackerStep
  <2>6. DefectsAfterPolka
    BY <2>1, <2>2, DefectStep
  <2>7. \A r \in Round, h \in Hash : Polka(r, h) => Polka(r, h)'
    BY <2>1, <2>2, Stable
  <2>8. BackersDefectLate'
    BY <2>6, <2>7 DEF DefectsAfterPolka, BackersDefectLate
  <2>9. PolkaExcludes'
    BY <2>1, <2>2, <2>4, <2>6, ExcludeStep
  <2>10. FinalizedIsCommitted'
    BY <2>2, FinalizedStep
  <2> QED
    BY <2>1, <2>3, <2>4, <2>5, <2>8, <2>9, <2>10
<1> QED
  BY <1>1, <1>2, PTL DEF Spec

(* Two quorums of precommits, in whatever rounds, are for the same hash.   *)
LEMMA OneCommit ==
    ASSUME IInv, NEW r \in Round, NEW s \in Round, NEW h \in Hash, NEW g \in Hash,
           Committed(r, h), Committed(s, g)
    PROVE  h = g
<1>1. Polka(r, h) /\ Polka(s, g)
  BY QuorumFacts DEF IInv, Committed, PrecommitHasPolka
<1>2. Choosable(r, h) /\ Choosable(s, g)
  BY DEF Committed, Choosable
<1>3. CASE r = s
  <2>1. PICK q \in Steady : <<q, r, h>> \in prevotes /\ <<q, r, g>> \in prevotes
    BY <1>1, <1>3, QuorumFacts DEF Polka
  <2> QED
    BY <2>1 DEF IInv, PrevotesProposal
<1>4. CASE r < s
  BY <1>1, <1>2, <1>4 DEF IInv, PolkaExcludes
<1>5. CASE s < r
  BY <1>1, <1>2, <1>5 DEF IInv, PolkaExcludes
<1> QED
  BY <1>3, <1>4, <1>5, RoundIsNat

(* Locks bind later rounds.  Under SafetyAssumption, which the code's      *)
(* stake threshold and stale-lock gap have to meet, a polka for one hash   *)
(* excludes a commit of another in every earlier round, for good.          *)
THEOREM LocksBind == Spec => []PolkaExcludes
<1>1. IInv => PolkaExcludes
  BY DEF IInv
<1> QED
  BY <1>1, Invariance, PTL

(* Finality.  Under SafetyAssumption no two validators ever finalise       *)
(* different blocks at a height, whatever messages are lost, whatever      *)
(* times out, and whichever of MayRestart die and come back.               *)
THEOREM Finality == Spec => []Agreement
<1>1. IInv => Agreement
  <2> SUFFICES ASSUME IInv, NEW a \in finalized, NEW b \in finalized
               PROVE  a[2] = b[2]
    BY DEF Agreement
  <2>1. /\ a[1] \in Validator /\ a[2] \in Hash /\ <<a[1], a[2]>> \in finalized
        /\ b[1] \in Validator /\ b[2] \in Hash /\ <<b[1], b[2]>> \in finalized
    <3>1. a \in Validator \X Hash /\ b \in Validator \X Hash
      BY DEF IInv, TypeOK
    <3>2. a = <<a[1], a[2]>> /\ b = <<b[1], b[2]>>
      BY <3>1
    <3> QED
      BY <3>1, <3>2
  <2>2. PICK r \in Round, s \in Round : Committed(r, a[2]) /\ Committed(s, b[2])
    BY <2>1 DEF IInv, FinalizedIsCommitted
  <2> QED
    BY <2>1, <2>2, OneCommit
<1> QED
  BY <1>1, Invariance, PTL

(* locked_proposal_bytes never returns another block's bytes.              *)
THEOREM CachedBytes == Spec => []LockedBytesMatch
<1>1. IInv => LockedBytesMatch
  BY DEF IInv
<1> QED
  BY <1>1, Invariance, PTL
=============================================================================
