------------------------------ MODULE Staking ------------------------------
(***************************************************************************)
(* The stake registry, the slashing engine and the epoch bookkeeping of    *)
(* one node, with the protocol treasury that holds the money behind them.  *)
(*                                                                         *)
(* A step is a committed block that carries at most one staking            *)
(* transaction: the coinbase is credited to the treasury, the transaction  *)
(* moves its amount and is dispatched, then the rewards of the block are   *)
(* shared out and, on the last block of an epoch, the epoch is closed.  A  *)
(* dispatch that fails rejects the whole block, which is no step.  All the *)
(* forks that gate these operations are active, and fees, which never      *)
(* touch the treasury, are zero.                                           *)
(***************************************************************************)
EXTENDS Integers, FiniteSets, Sequences, FiniteSetsExt, Functions, SequencesExt

CONSTANTS
    Validator,                    \* addresses, ordered as numbers
    Delegator,                    \* addresses that only delegate
    Genesis,                      \* the validators activate_voyager registers
    Wallet,                       \* what each account starts with
    Amount,                       \* amounts a transaction may carry
    BlockReward,                  \* get_block_reward()
    Commission,                   \* commission_rate of every validator
    MIN_SELF_STAKE, MAX_ACTIVE_VALIDATORS,
    UNBONDING_PERIOD, MAX_UNBONDING_ENTRIES, MAX_UNBONDING_PER_VALIDATOR,
    MAX_DELEGATIONS_PER_ACCOUNT,
    REDELEGATE_COOLDOWN,
    EPOCH_LENGTH, LIVENESS_WINDOW, MIN_SIGNED_PER_WINDOW,
    DOWNTIME_SLASH_BP, DOWNTIME_JAIL_BLOCKS, DOUBLE_SIGN_SLASH_BP,
    BP,                           \* basis points in the whole, 10_000
    MaxHeight,                    \* bound on the blocks
    Treasury                      \* PROTOCOL_TREASURY

ASSUME StakingAssumption ==
    /\ Validator \subseteq Nat /\ Genesis \subseteq Validator
    /\ Validator \cap Delegator = {} /\ Treasury \notin Validator \cup Delegator

VARIABLES
    height,     \* of the latest block
    reg,        \* stake_registry
    slashing,   \* liveness records, first_seen, total_slashed
    epoch,      \* epoch_manager.current_epoch: number and validator set
    accounts    \* balances and total_burned

vars == <<height, reg, slashing, epoch, accounts>>

Account == Validator \cup Delegator \cup {Treasury}
Forever == MaxHeight + DOWNTIME_JAIL_BLOCKS + 1  \* u64::MAX as jail_until

----------------------------------------------------------------------------
(* The registry. *)

total_stake(val) == val.self_stake + val.total_delegated

is_active_eligible(val) ==
    ~val.is_jailed /\ ~val.is_tombstoned /\ val.self_stake >= MIN_SELF_STAKE

(* The MAX_ACTIVE_VALIDATORS eligible validators with the most stake, ties *)
(* to the lower address.                                                   *)
compute_active_set(validators) ==
    LET eligible == {v \in DOMAIN validators : is_active_eligible(validators[v])}
        Before(v, w) ==
            \/ total_stake(validators[v]) > total_stake(validators[w])
            \/ total_stake(validators[v]) = total_stake(validators[w]) /\ v < w
    IN {v \in eligible :
            Cardinality({w \in eligible : Before(w, v)}) < MAX_ACTIVE_VALIDATORS}

update_active_set(r) == [r EXCEPT !.active_set = compute_active_set(r.validators)]

NewValidator(self_stake) ==
    [self_stake |-> self_stake, total_delegated |-> 0, is_jailed |-> FALSE,
     jail_until |-> 0, is_tombstoned |-> FALSE, pending_rewards |-> 0]

register_validator(r, v, self_stake) ==
    [r EXCEPT !.validators =
        [w \in DOMAIN @ \cup {v} |-> IF w = v THEN NewValidator(self_stake) ELSE @[w]]]

(* The delegation of d to v after a change by n; an entry that undelegate  *)
(* or redelegate brings to zero is dropped.                                *)
Delegated(r, d, v) == IF v \in DOMAIN r.delegations[d] THEN r.delegations[d][v] ELSE 0

ChangeEntry(entries, v, n) ==
    LET old == IF v \in DOMAIN entries THEN entries[v] ELSE 0
    IN [w \in {u \in DOMAIN entries \cup {v} : u = v => old + n > 0} |->
            IF w = v THEN old + n ELSE entries[w]]

ChangeDelegation(r, d, v, n) ==
    [r EXCEPT !.delegations[d] = ChangeEntry(@, v, n),
              !.validators[v].total_delegated = @ + n]

HasRoom(entries, v) ==
    v \in DOMAIN entries \/ Cardinality(DOMAIN entries) < MAX_DELEGATIONS_PER_ACCOUNT

UnbondingRoom(queue, d, v) ==
    LET of_validator == {i \in DOMAIN queue : queue[i].validator = v}
        of_pair      == {i \in of_validator : queue[i].delegator = d}
    IN /\ Cardinality(of_pair) < MAX_UNBONDING_ENTRIES
       /\ Cardinality(of_validator) < MAX_UNBONDING_PER_VALIDATOR

undelegate(r, d, v, amount, h) ==
    [ChangeDelegation(r, d, v, -amount) EXCEPT
        !.unbonding_queue =
            Append(@, [delegator |-> d, validator |-> v, amount |-> amount,
                       completion_height |-> h + UNBONDING_PERIOD])]

redelegate(r, d, from, to, amount, h) ==
    [ChangeDelegation(ChangeDelegation(r, d, from, -amount), d, to, amount) EXCEPT
        !.redelegate_cooldowns[d] = h + REDELEGATE_COOLDOWN]

div_ceil(a, b) == (a + b - 1) \div b
SaturatingSub(a, b) == IF a > b THEN a - b ELSE 0

slash_amount(val, bp) == (total_stake(val) * bp) \div BP

SumDelegated(delegations, v) ==
    MapThenSumSet(LAMBDA d : delegations[d][v],
                  {d \in Delegator : v \in DOMAIN delegations[d]})

(* What each delegator of v keeps when `remaining` is taken from all of    *)
(* them, in proportion and rounded against the delegator.                  *)
SlashedDelegations(r, v, remaining) ==
    [d \in Delegator |->
        [w \in DOMAIN r.delegations[d] |->
            IF w = v
            THEN SaturatingSub(r.delegations[d][v],
                    div_ceil(r.delegations[d][v] * remaining,
                             r.validators[v].total_delegated))
            ELSE r.delegations[d][w]]]

SlashedUnbonding(queue, v, bp) ==
    [i \in DOMAIN queue |->
        IF queue[i].validator = v
        THEN [queue[i] EXCEPT !.amount = @ - (@ * bp) \div BP]
        ELSE queue[i]]

(* Mutant: total_delegated drops by `remaining`, as before Audit M3. *)
slash_RoundedTotal(r, v, bp) ==
    LET val       == r.validators[v]
        from_self == Min({slash_amount(val, bp), val.self_stake})
        remaining == slash_amount(val, bp) - from_self
        hit       == remaining > 0 /\ val.total_delegated > 0
        left      == IF hit THEN SlashedDelegations(r, v, remaining) ELSE r.delegations
    IN update_active_set(
        [r EXCEPT !.validators[v].self_stake = @ - from_self,
                  !.validators[v].total_delegated = SaturatingSub(@, remaining),
                  !.delegations = left,
                  !.unbonding_queue = SlashedUnbonding(@, v, bp)])

slash(r, v, bp) ==
    LET val       == r.validators[v]
        from_self == Min({slash_amount(val, bp), val.self_stake})
        remaining == slash_amount(val, bp) - from_self
        hit       == remaining > 0 /\ val.total_delegated > 0
        left      == IF hit THEN SlashedDelegations(r, v, remaining) ELSE r.delegations
    IN update_active_set(
        [r EXCEPT !.validators[v].self_stake = @ - from_self,
                  !.validators[v].total_delegated =
                      IF hit THEN SumDelegated(left, v) ELSE @,
                  !.delegations = left,
                  !.unbonding_queue = SlashedUnbonding(@, v, bp)])

(* Mutant: the active set is left for the next epoch. *)
jail_NextEpoch(r, v, until) ==
    [r EXCEPT !.validators[v].is_jailed = TRUE, !.validators[v].jail_until = until]

jail(r, v, until) ==
    update_active_set(
        [r EXCEPT !.validators[v].is_jailed = TRUE, !.validators[v].jail_until = until])

tombstone(r, v) ==
    update_active_set(
        [r EXCEPT !.validators[v].is_jailed = TRUE, !.validators[v].is_tombstoned = TRUE,
                  !.validators[v].jail_until = Forever])

unjail(r, v) ==
    update_active_set(
        [r EXCEPT !.validators[v].is_jailed = FALSE, !.validators[v].jail_until = 0])

(* The split of one signer's share: commission and the part of the pool    *)
(* that its own stake earns, then the delegators' part.                    *)
Share(weights, v, reward) == (reward * weights[v]) \div SumFunction(weights)
CommissionOf(share) == (share * Commission) \div BP

SelfShare(val, share) ==
    IF total_stake(val) = 0 THEN 0
    ELSE ((share - CommissionOf(share)) * val.self_stake) \div total_stake(val)

DelegatorPool(val, share) ==
    IF total_stake(val) = 0 THEN 0
    ELSE share - CommissionOf(share) - SelfShare(val, share)

(* Mutant: each delegator's part is rounded up. *)
DelegatorShare_Ceil(r, d, v, share) ==
    LET sum == SumDelegated(r.delegations, v)
    IN IF sum = 0 THEN 0
       ELSE div_ceil(DelegatorPool(r.validators[v], share) * Delegated(r, d, v), sum)

DelegatorShare(r, d, v, share) ==
    LET sum == SumDelegated(r.delegations, v)
    IN IF sum = 0 THEN 0
       ELSE (DelegatorPool(r.validators[v], share) * Delegated(r, d, v)) \div sum

(* Every signer of the justification is paid in proportion to the weight   *)
(* it signed with; a signer the registry does not know is dropped.         *)
distribute_reward(r, weights, reward) ==
    LET paid == DOMAIN weights \cap DOMAIN r.validators
    IN [r EXCEPT
        !.validators = [v \in DOMAIN @ |->
            IF v \in paid
            THEN LET share == Share(weights, v, reward)
                 IN [@[v] EXCEPT !.pending_rewards =
                        @ + CommissionOf(share) + SelfShare(r.validators[v], share)]
            ELSE @[v]],
        !.delegator_rewards = [d \in Delegator |->
            @[d] + MapThenSumSet(
                LAMBDA v : DelegatorShare(r, d, v, Share(weights, v, reward)), paid)]]

----------------------------------------------------------------------------
(* Liveness. *)

record_block_signatures(s, signers, h) ==
    [s EXCEPT
        !.records = [v \in Validator |->
            IF v \in signers
            THEN {x \in @[v] \cup {h} : x > h - LIVENESS_WINDOW}
            ELSE @[v]],
        !.first_seen = [v \in DOMAIN @ \cup signers |->
            IF v \in DOMAIN @ THEN @[v] ELSE h]]

is_downtime_at(s, v, h) ==
    /\ h >= LIVENESS_WINDOW
    /\ v \in DOMAIN s.first_seen
    /\ s.first_seen[v] <= h - LIVENESS_WINDOW
    /\ Cardinality({x \in s.records[v] : x > h - LIVENESS_WINDOW}) < MIN_SIGNED_PER_WINDOW

compute_jail_evidence(s, set, h) == {v \in set : is_downtime_at(s, v, h)}

reset(s, v) == [s EXCEPT !.records[v] = {}]

(* check_liveness on the active set of the new epoch, the amounts burned.  *)
check_liveness(r, s, a, h) ==
    LET down == {v \in r.active_set :
                    is_downtime_at(s, v, h) /\ ~r.validators[v].is_jailed}
        Punish(v, x) ==
            LET amount == slash_amount(x.r.validators[v], DOWNTIME_SLASH_BP)
            IN [r |-> jail(slash(x.r, v, DOWNTIME_SLASH_BP), v, h + DOWNTIME_JAIL_BLOCKS),
                s |-> [reset(x.s, v) EXCEPT !.total_slashed = @ + amount],
                a |-> [x.a EXCEPT !.total_burned = @ + amount]]
    IN FoldSet(Punish, [r |-> r, s |-> s, a |-> a], down)

----------------------------------------------------------------------------
(* Accounts and epochs. *)

credit(a, x, amount) == [a EXCEPT !.balance[x] = @ + amount]

CanPay(a, from, amount) == a.balance[from] >= amount

transfer(a, from, to, amount) ==
    [a EXCEPT !.balance = [x \in DOMAIN @ |->
        @[x] - (IF x = from THEN amount ELSE 0) + (IF x = to THEN amount ELSE 0)]]

is_epoch_boundary(h) == h > 0 /\ (h + 1) % EPOCH_LENGTH = 0

(* Matured entries leave the queue; a release the treasury cannot pay is   *)
(* logged and dropped.                                                     *)
Matured(queue, h) == SelectSeq(queue, LAMBDA e : e.completion_height <= h)

process_unbonding(r, h) ==
    [r EXCEPT !.unbonding_queue = SelectSeq(@, LAMBDA e : e.completion_height > h)]

Release(a, entry) ==
    IF CanPay(a, Treasury, entry.amount)
    THEN transfer(a, Treasury, entry.delegator, entry.amount)
    ELSE a

(* Mutant: what matured is taken off the queue and paid to nobody. *)
run_epoch_bookkeeping_NoRelease(r, s, a, h) ==
    check_liveness(update_active_set(process_unbonding(r, h)), s, a, h)

run_epoch_bookkeeping(r, s, a, h) ==
    check_liveness(update_active_set(process_unbonding(r, h)), s,
                   FoldLeft(Release, a, Matured(r.unbonding_queue, h)), h)

(* The end of apply_block_pass2: rewards and liveness from the signers of  *)
(* the block, who are members of the active set it was decided by, then    *)
(* the epoch.                                                              *)
EndBlock(r, s, a, signers) ==
    LET h       == height + 1
        weights == [v \in signers |-> total_stake(reg.validators[v])]
        paid    == distribute_reward(r, weights, BlockReward)
        seen    == record_block_signatures(s, signers, h)
        closed  == IF is_epoch_boundary(h)
                   THEN run_epoch_bookkeeping(paid, seen, a, h)
                   ELSE [r |-> paid, s |-> seen, a |-> a]
    IN /\ height' = h
       /\ reg' = closed.r
       /\ slashing' = closed.s
       /\ accounts' = closed.a
       /\ epoch' = IF is_epoch_boundary(h)
                   THEN [number |-> epoch.number + 1,
                         validator_set |-> compute_active_set(paid.validators)]
                   ELSE epoch

(* Precommits of more than two thirds of the active stake. *)
Signers ==
    LET Stake(S) == MapThenSumSet(LAMBDA v : total_stake(reg.validators[v]), S)
    IN {S \in SUBSET reg.active_set :
            S # {} /\ Stake(S) >= (2 * Stake(reg.active_set)) \div 3 + 1}

(* What the transactions of a block act on: the coinbase comes first. *)
Minted == credit(accounts, Treasury, BlockReward)
NextHeight == height + 1

----------------------------------------------------------------------------
(* One block per staking operation. *)

EmptyBlock(signers) == EndBlock(reg, slashing, Minted, signers)

ClaimRewards(claimer, signers) ==
    LET mine   == IF claimer \in Delegator THEN reg.delegator_rewards[claimer]
                  ELSE reg.validators[claimer].pending_rewards
        paid   == IF claimer \in Delegator
                  THEN [reg EXCEPT !.delegator_rewards[claimer] = 0]
                  ELSE [reg EXCEPT !.validators[claimer].pending_rewards = 0]
    IN /\ mine > 0
       /\ CanPay(Minted, Treasury, mine)
       /\ EndBlock(paid, slashing, transfer(Minted, Treasury, claimer, mine), signers)

RegisterValidator(v, self_stake, signers) ==
    /\ v \notin DOMAIN reg.validators
    /\ self_stake >= MIN_SELF_STAKE
    /\ CanPay(accounts, v, self_stake)
    /\ EndBlock(register_validator(reg, v, self_stake), slashing,
                transfer(Minted, v, Treasury, self_stake), signers)

AddSelfStake(v, amount, signers) ==
    /\ v \in DOMAIN reg.validators /\ ~reg.validators[v].is_tombstoned
    /\ CanPay(accounts, v, amount)
    /\ EndBlock(update_active_set([reg EXCEPT !.validators[v].self_stake = @ + amount]),
                slashing, transfer(Minted, v, Treasury, amount), signers)

Delegate(d, v, amount, signers) ==
    /\ v \in DOMAIN reg.validators /\ ~reg.validators[v].is_tombstoned
    /\ HasRoom(reg.delegations[d], v)
    /\ CanPay(accounts, d, amount)
    /\ EndBlock(ChangeDelegation(reg, d, v, amount), slashing,
                transfer(Minted, d, Treasury, amount), signers)

Undelegate(d, v, amount, signers) ==
    /\ v \in DOMAIN reg.delegations[d] /\ Delegated(reg, d, v) >= amount
    /\ UnbondingRoom(reg.unbonding_queue, d, v)
    /\ EndBlock(undelegate(reg, d, v, amount, NextHeight), slashing, Minted, signers)

Redelegate(d, from, to, amount, signers) ==
    /\ from # to
    /\ NextHeight >= reg.redelegate_cooldowns[d]
    /\ to \in DOMAIN reg.validators /\ ~reg.validators[to].is_tombstoned
    /\ from \in DOMAIN reg.delegations[d] /\ Delegated(reg, d, from) >= amount
    /\ HasRoom(ChangeEntry(reg.delegations[d], from, -amount), to)
    /\ EndBlock(redelegate(reg, d, from, to, amount, NextHeight), slashing, Minted, signers)

(* Mutant: only the stake decides. *)
Unjail_StakeOnly(v, signers) ==
    /\ v \in DOMAIN reg.validators
    /\ reg.validators[v].self_stake >= MIN_SELF_STAKE
    /\ EndBlock(unjail(reg, v), slashing, Minted, signers)

Unjail(v, signers) ==
    /\ v \in DOMAIN reg.validators /\ ~reg.validators[v].is_tombstoned
    /\ NextHeight >= reg.validators[v].jail_until
    /\ reg.validators[v].self_stake >= MIN_SELF_STAKE
    /\ EndBlock(unjail(reg, v), slashing, Minted, signers)

(* Evidence of two blocks at one height.  Evidence seen before is about a  *)
(* validator already tombstoned.  Nothing is burned.                       *)
SubmitEvidence(offender, signers) ==
    /\ offender \in DOMAIN reg.validators /\ ~reg.validators[offender].is_tombstoned
    /\ EndBlock(tombstone(slash(reg, offender, DOUBLE_SIGN_SLASH_BP), offender),
                [slashing EXCEPT !.total_slashed =
                    @ + slash_amount(reg.validators[offender], DOUBLE_SIGN_SLASH_BP)],
                Minted, signers)

(* A jail decision cited by a block is recomputed over the active set it   *)
(* claims; the block is not on the chain yet, so the height is the one     *)
(* before it.                                                              *)
JailEvidenceBundle(claimed, signers) ==
    LET cited == compute_jail_evidence(slashing, claimed, height)
    IN /\ claimed # {} /\ claimed \subseteq DOMAIN reg.validators
       /\ EndBlock(FoldSet(LAMBDA v, r : jail(r, v, height + DOWNTIME_JAIL_BLOCKS), reg, cited),
                   FoldSet(LAMBDA v, s : reset(s, v), slashing, cited),
                   Minted, signers)

(* activate_voyager: every validator the chain had before is registered    *)
(* with MIN_SELF_STAKE.  That stake is on the books only: no account is    *)
(* charged and the treasury holds nothing.                                 *)
Init ==
    /\ height = 0
    /\ reg = update_active_set(
            [validators |-> [v \in Genesis |-> NewValidator(MIN_SELF_STAKE)],
             delegations |-> [d \in Delegator |-> <<>>],
             unbonding_queue |-> <<>>,
             redelegate_cooldowns |-> [d \in Delegator |-> 0],
             active_set |-> {},
             delegator_rewards |-> [d \in Delegator |-> 0]])
    /\ slashing = [records |-> [v \in Validator |-> {}], first_seen |-> <<>>,
                   total_slashed |-> 0]
    /\ epoch = [number |-> 0, validator_set |-> reg.active_set]
    /\ accounts = [balance |-> [x \in Account |-> IF x = Treasury THEN 0 ELSE Wallet[x]],
                   total_burned |-> 0]

Next ==
    /\ height < MaxHeight
    /\ \E signers \in Signers :
        \/ EmptyBlock(signers)
        \/ \E c \in Delegator \cup DOMAIN reg.validators : ClaimRewards(c, signers)
        \/ \E v \in Validator :
            \/ Unjail(v, signers)
            \/ SubmitEvidence(v, signers)
            \/ \E n \in Amount : RegisterValidator(v, n, signers) \/ AddSelfStake(v, n, signers)
        \/ \E d \in Delegator, v \in Validator, n \in Amount :
            \/ Delegate(d, v, n, signers)
            \/ Undelegate(d, v, n, signers)
            \/ \E w \in Validator : Redelegate(d, v, w, n, signers)
        \/ \E claimed \in SUBSET Validator : JailEvidenceBundle(claimed, signers)

Spec == Init /\ [][Next]_vars

----------------------------------------------------------------------------
(* total_delegated of every validator is the sum of the delegations to it, *)
(* through any mix of delegation, undelegation, redelegation and slashes:  *)
(* the denominator pay_one_signer and slash divide by.                     *)
TotalDelegatedIsSum ==
    \A v \in DOMAIN reg.validators :
        reg.validators[v].total_delegated = SumDelegated(reg.delegations, v)

(* All that an operation or an epoch boundary can take out of the          *)
(* treasury.  No operation pays a self stake back.                         *)
Payable ==
    LET Held(v)    == reg.validators[v].total_delegated + reg.validators[v].pending_rewards
        Leaving(i) == reg.unbonding_queue[i].amount
    IN MapThenSumSet(Held, DOMAIN reg.validators)
       + MapThenSumSet(Leaving, DOMAIN reg.unbonding_queue)
       + SumFunction(reg.delegator_rewards)

(* The treasury covers every delegation, every delegation being released   *)
(* and every reward not yet claimed, although the stakes it starts with    *)
(* were never paid in.  So neither ClaimRewards nor the release at an      *)
(* epoch boundary, whose failure is only logged, lacks the money.          *)
TreasurySolvent == accounts.balance[Treasury] >= Payable

(* Whoever may propose is allowed to: the active set holds no validator    *)
(* that is jailed, tombstoned or slashed below the minimum, and no more    *)
(* than MAX_ACTIVE_VALIDATORS.                                             *)
ActiveSetEligible ==
    /\ reg.active_set \subseteq {v \in DOMAIN reg.validators :
                                    is_active_eligible(reg.validators[v])}
    /\ Cardinality(reg.active_set) <= MAX_ACTIVE_VALIDATORS

(* A validator tombstoned for double signing stays so, and in jail,        *)
(* whatever stake is added and whichever unjail or jail operations follow: *)
(* "permanent ban, no unjail".                                             *)
TombstoneIsFinal ==
    [][\A v \in DOMAIN reg.validators :
        reg.validators[v].is_tombstoned =>
            reg'.validators[v].is_tombstoned /\ reg'.validators[v].is_jailed]_vars

Worth(d) ==
    LET Entry(v)   == reg.delegations[d][v]
        Leaving(i) == reg.unbonding_queue[i].amount
    IN accounts.balance[d] + reg.delegator_rewards[d] + MapThenSumSet(Entry, DOMAIN reg.delegations[d])
       + MapThenSumSet(Leaving, {i \in DOMAIN reg.unbonding_queue :
                            reg.unbonding_queue[i].delegator = d})

Punished(v) ==
    /\ v \in DOMAIN reg.validators
    /\ \/ reg'.validators[v].is_jailed /\ ~reg.validators[v].is_jailed
       \/ reg'.validators[v].is_tombstoned /\ ~reg.validators[v].is_tombstoned

(* A delegator loses money only in a block that punishes a validator it    *)
(* delegates to or is leaving: no move between a wallet, a delegation, the *)
(* unbonding queue and the reward account drops any of it.                 *)
DelegatorKeepsFunds ==
    [][\A d \in Delegator :
        Worth(d)' < Worth(d) =>
            \E v \in Validator :
                /\ Punished(v)
                /\ \/ v \in DOMAIN reg.delegations[d]
                   \/ \E i \in DOMAIN reg.unbonding_queue :
                        reg.unbonding_queue[i].delegator = d
                            /\ reg.unbonding_queue[i].validator = v]_vars
=============================================================================
