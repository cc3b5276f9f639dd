# TLA+ models of the Sentrix node

Sentrix is a layer-1 blockchain node in Rust. These modules model the parts of
it in which order, loss, crashes and rounding decide whether the node is
correct: the BFT consensus and its validator loop, the guard against signing
twice, staking, the ledger with its mempool, and what a restart makes of the
disk. Every definition that stands for code names its lines in `PROJECT.json`
("map"); paths below are relative to `src/`.

## 1. The system

### Parts and what they hold

| Part | State | Operations | Talks to |
|---|---|---|---|
| BFT engine (`crates/sentrix-bft/src/engine.rs`) | round, phase, lock (hash, round, bytes), staged bytes, vote collectors, peers' rounds | on_proposal, on_prevote_weighted, on_precommit_weighted, on_round_status_weighted, on_timeout, advance_round | called by the validator loop, returns a `BftAction` |
| Sign guard (`crates/sentrix-bft/src/last_sign_guard.rs`) | last signed (height, round, step) and payload, in memory and in a file | check_and_record_with_bytes, init | asked before every signature |
| Validator loop (`bin/sentrix/src/main.rs`) | the engine, the action at hand, the block held for finalisation | one arm per message kind, timeout and action | engine, guard, ledger, network |
| Staking (`crates/sentrix-staking`) | validators, delegations, unbonding queue, liveness records, epoch | register, delegate, undelegate, redelegate, claim, unjail, evidence, rewards, epoch end | called by the block executor; its money is in the treasury account |
| Ledger (`crates/sentrix-core`: mempool, block_producer, block_executor, trie ops) | accounts, minted supply, mempool and its counters, window of blocks, trie | add_to_mempool, build a block, add_block with rollback, pruning | validator loop, network, RPC |
| Storage (`crates/sentrix-storage`, `sentrix-core/src/storage.rs`, writer task in `main.rs`) | blocks, height key, state blob with its checkpoint height, trie roots | save_block, save_blocks, save_blockchain, load_blockchain | three tasks write, start-up reads |
| Network (`crates/sentrix-network`) | peers, pending requests, rate limits | gossip of blocks, votes and transactions, GetBlocks sync, handshake | ledger (under the write lock), event channel to `main.rs` |
| Trie, tokens, NFT, EVM, authority, fork schedule, RPC, tools | see "components" in `PROJECT.json` | | |

All changes of the in-memory `Blockchain` run under one write lock, so an
operation on it is one step. What interleaves is everything around the lock:
messages, timeouts, the tasks that write to disk, crashes.

### What is hard here

* Votes of different rounds reach validators in different orders; a lock must
  carry the decision of a round that few have seen into later rounds.
* A process dies between the change in memory, the write to disk and the message
  on the wire. Each of the guard, the loop and the storage has such a gap.
* A block is refused after it has already changed everything.
* The pool has counters that mirror it and an order that mixes fees and nonces.
* Rounding: slashes, reward shares, commission, burned fees.
* Three tasks write blocks and one height key.

The full list, line by line, is "hazards" in `PROJECT.json`; entries without a
property say in a note why.

## 2. Modules

| Module | Models | State |
|---|---|---|
| `BftVoting` | the voting rules of one height, seen from outside (abstract specification) | who voted and precommitted what, locks, proposals, what was finalised |
| `BftVotingProofs` | finality of those rules, for any constants | inductive invariant `IInv` |
| `BftEngine` | the engine: one operator per handler, `<<state, action>>` as the Rust method leaves and returns them | no variables |
| `SignState` | the guard's decision | shared by the two next modules |
| `LastSignGuard`, `LastSignGuardProofs` | the guard with its file, failing writes and crashes; its promise proved | `state`, `file`, `failed`, `signed` |
| `ValidatorLoop` | all validators' loops, their engines and guards over a network that loses, delays, repeats and reorders; restarts; refused blocks | one action per arm of the loop |
| `Staking` | registry, slashing, epochs and the treasury; a step is a block with at most one staking transaction | one action per operation |
| `Ledger` | mempool, block building, `add_block` with both passes, delegation and release at an epoch's end, rollback, trie | `bc`, `expired`, `canonical`, `returned` |
| `Storage` | the disk, its three writers, exit and `load_blockchain` | `bc`, `disk`, `unsaved`, `writer`; history `lost`, `torn` |
| `MC*` | values of constants, symmetry and schedules for TLC | |

`ValidatorLoop` composes `BftEngine` and `SignState`, and implements `BftVoting`:
`Voting == INSTANCE BftVoting WITH ...` maps the engines' fields to the abstract
variables and the history `chosen` to the votes; the run `loop` checks
`Voting!Spec` as a property. So what is proved about `BftVoting` holds of the
loop on the instance checked: two validators, where a quorum is both of them. What
needs a validator outside the quorum, or more than `STALE_LOCK_ROUND_GAP` rounds (a
stale lock released in the loop, a held block of another proposal than the one
committed), is checked and proved at the level of `BftVoting` only.

### How the models abstract

* **BFT.** One height. A block is its hash; bytes are the hash they carry.
  Signatures cannot be forged, and a vote the guard refuses has none. Timers are
  nondeterministic. `BftVoting` counts a vote as visible once an engine chose
  it; `ValidatorLoop` delivers each vote separately.
* **Staking.** Addresses, amounts and basis points are small numbers; every
  rounding is that of the code. A failing dispatch rejects the block, which is
  no step. All forks that gate the operations are active. The chain starts as
  `activate_voyager` leaves it: each earlier validator is registered with
  `MIN_SELF_STAKE`, which is charged to no account and is not in the treasury;
  the treasury holds nothing (the reset of `pending_rewards` at the reward fork
  leaves it no claims either).
* **Ledger.** A transaction is a record whose fields are its identity: a payment,
  a delegation or an undelegation. The registry is the stake each sender has
  delegated and the stake on its way back; rewards, liveness and the rest of it
  are in `Staking`, and what an epoch's end slashes for downtime is an input.
  Tokens, NFTs and EVM are left out. A header's state root is reduced to how it
  compares with the one computed. The trie is the balance it commits per address.
  `REWARD_APPLY_PATH`, `STATE_ROOT_V2` and `EXTENDED_TOUCH_LIST` are taken as
  activated, though the last two default to never;
  `SPECULATIVE_APPLY_HEIGHT` is at its default, never.
* **Storage.** A block is its height; a state is the record of the blocks it has
  absorbed: the height of its balances, the accounts created, and the sequence
  of blocks applied to everything that is not in the trie. Each MDBX transaction
  is atomic and durable. Each block changes some known account (it pays a
  reward), so an older blob always differs from the trie.

## 3. Runs

Passing runs:

| Run | Instance | Shows |
|---|---|---|
| `voting` | stakes 2, 1, 1; two hashes; rounds 0 and 1; lock gap 1; one validator may restart | `Agreement`, `LockedBytesMatch`, `PolkaExcludes` |
| `guard` | one height, two rounds, three steps, two payloads | `NoDoubleSign`, `SignedIsOnDisk`, `SignsForward` under crashes anywhere, except between a failed write and the next good one |
| `loop` | two validators, two hashes, rounds 0 and 1, one restart, any block may be refused, with fairness | the loop implements `BftVoting` (`VotingRules`), `NoEquivocation`, `CaughtUp`, `Progress`: no validator stays in a round for want of votes or proposals, its own timeouts take it to the next round, the block or Finalize |
| `staking` | three validators (one may register), two delegators, four blocks, epochs of two | books balance, the treasury covers all that can be taken out of it (`TreasurySolvent`), active set eligible, a tombstone is final, a delegator loses only by a slash |
| `ledger` | two senders, three payments with conflicting fee and nonce order, a delegation and its undelegation, a refused undelegation, three blocks, an epoch's end with a release and a downtime slash, pool of three | a refused block leaves no trace, the pool stays fit to build from, its counters mirror it, supply adds up to the unit, nothing is mined twice, the trie commits the accounts |
| `storage` | window of three, five blocks, two exits, failing writes, writer at any pace | no block inside the window is forgotten, the loaded window has no holes, a failed start repairs itself, a checkpoint at the chain's height restores the state |

Runs in which the code does not do what the repository says ("findings"):

| Run | What TLC shows |
|---|---|
| `stale_lock` | with more rounds than `STALE_LOCK_ROUND_GAP`, releasing a lock in `accept_proposal` leads to two blocks finalised at one height; a comment says it "cannot fork" |
| `guard_faulty` | a failed write, the same request again, then a crash: one tuple signed for two payloads |
| `finalize_stall` | stakes 2, 1, 1: a timeout re-emits a validator's precommit, which completes the supermajority; the timeout arm drops the resulting `FinalizeBlock`, and the validator stays in Finalize with the block in hand, although the loop says it applies "the finalized block we already hold" |
| `ledger_window` | with the window full, the rollback truncates to a length the chain already has: the refused block stays the tip |
| `ledger_expiry` | a pending transaction ages out before its sender's later ones: no block built from the pool is valid any more |
| `storage_replay` | after a crash between a block's save and the next checkpoint, B3 moves the checkpoint before B2 looks at it: the documented replay never happens |

Two more statements of the repository do not hold of the code. They have no run
of their own; the passing runs state what holds instead:

* `tests/integration_supply.rs:4-5` calls
  `sum(balances) + total_burned == total_minted` the fundamental invariant, and
  `block_executor.rs:1553` says that fees are split with "no rounding loss". The
  books round the burned half up per transaction, the block withholds it rounded
  up per block, and a downtime slash is added to `total_burned` and taken from no
  account. `SupplyAccounted` states the equality with exactly that overstatement
  (`Overstated`) on the other side; the run reaches both kinds of drift.
* `transaction.rs:26-27` and `block_executor.rs:795` say that the treasury equals
  the unclaimed rewards. It also holds the escrowed stakes, what rounding leaves
  over, and not the stakes that `activate_voyager` wrote. `TreasurySolvent` states
  what the payments need: the treasury is at least `Payable`, all that an operation
  or an epoch's end can take out of it. A self stake is not in it, because no
  operation pays one back. That is also why a release, whose failure
  `run_epoch_bookkeeping` only logs, does not fail in these behaviours.

### Bounds, and why they are enough

* Two rounds are the fewest in which a lock of one round meets a proposal of
  another; `stale_lock` needs a third. Stakes 2, 1, 1 have the threshold of four
  equal validators (3 of 4). Two hashes are the fewest that can disagree. What
  the bounds leave open about finality is closed by the proof.
* The loop runs with two validators because every message is delivered on its
  own; both are needed for a quorum, so each loss matters. `OneAtATime` lets a
  validator finish its action first: an arm reads only its own state.
  Quorums that leave a validator out are covered by `voting`. Hashes differ in
  name only, so the first one proposed is fixed (`FirstProposed`): TLC's own
  symmetry is not sound for liveness. The node refuses BFT with so few validators
  (`main.rs:1952-1987`); two are a stand-in for the part of a larger set whose
  votes are needed, not a deployment.
* `finalize_stall` has three validators and stakes 2, 1, 1, which the node admits
  (three active of four registered). The full loop of three is out of reach, so
  `LateRound` looks for the counterexample only where the network loses all but
  two precommits; every such behaviour is one of `FairSpec`, which owes nobody a
  vote. The first validator to stall needs the precommits of others that have not:
  among four equal ones those are two, which is f+1 once they are ahead and pulls
  the rest along. One with more stake needs less (2, 1, 1 or 3, 1, 1, 1).
* Staking: two delegators give rounding something to lose; four blocks are two
  epochs, enough to unbond, be jailed and return. A fifth block (633,000 states)
  shows nothing else.
* Ledger: states are compared without `returned`, which no step reads (`VIEW`);
  the property about it is checked on every step. Three nonces of one sender make
  fee order and nonce order conflict, pools of three and two per sender reach
  their limits. Odd fees make the two
  roundings of the burned half differ; the second block ends the epoch, releases
  what the first undelegated and slashes. The window (5) is larger
  than the chain (3), only a sender's last nonce may expire, refused operations
  come only in blocks of others, and each nonce is signed once. The first two
  restrictions leave out exactly what `ledger_window` and `ledger_expiry` show to
  fail; the other two leave out pools that no block can be built from, which the
  code does not prevent either (see the hazards with a note).
* Storage: a window of three with five blocks makes blocks leave the window;
  two queued events and the validator's own save give every order of two writers.
  Nothing in the code makes blocks wait for the disk, and nothing in the model
  does: a block may leave the window before it is saved (`lost`). With the real
  window of 1000 blocks and a tick of 5 s that takes a long series of failed
  writes. `SecondStartSucceeds` excepts it, since the loader then asks for a copy
  of another node's `chain.db`.

`CHECK_DEADLOCK FALSE` is set where the model really ends: a height is finished,
or a bound on heights, rounds or exits is reached. `Ledger` never stops.

### Fairness

`loop` uses `LoopSpec`. Weak fairness of `Timeout`: the loop polls its timers.
Strong fairness of `Work`: a live process works off its action, and of a broadcast
that is tried again and again one gets out. Nothing that comes from peers has any:
votes, proposals and round status may all be lost. So `Progress` promises what the
validators' own timers give, and stops at Finalize, where they give nothing.

`finalize_stall` uses `FairSpec`, which adds weak fairness of `FollowPeers`: peers
repeat their round status and serve the blocks they have. The stall survives it.

## 4. Proofs

Checked by TLAPS for every value of the constants that meets the assumptions.

**Finality** (`BftVotingProofs`). Assumed (`SafetyAssumption`): any three quorums
share a validator that keeps its lock (with `2/3 + 1` three quorums always share
stake; the assumption is that not all of that share restarts), and rounds do not
exceed `STALE_LOCK_ROUND_GAP`. The second is needed: `stale_lock` is the
counterexample without it. Proved: `Invariance`, `LocksBind`
(`Spec => []PolkaExcludes`), `Finality` (`Spec => []Agreement`) and `CachedBytes`
(`Spec => []LockedBytesMatch`).

`Agreement` is not inductive: it says nothing of votes. `IInv` adds that votes
are cast only in rounds reached and only for the round's proposal, that a
precommit has a polka, that whoever backed a hash (prevoted and precommitted it)
keeps lock and bytes until a later polka for another hash, hence votes otherwise
only after one, and from this `PolkaExcludes`: a polka for `g` in a later round
means that `h` can no longer be chosen in an earlier one. In the step for
`PolkaExcludes` the quorum that could choose `h`, the quorum of `h`'s polka and
that of `g`'s meet in a steady backer of `h` that voted `g`; it did so after an
even earlier polka, which excluded `h` already. Three quorums, not two, because
the engine locks on a polka without having prevoted for it, and such a lock has
no bytes to defend it.

**The sign guard** (`LastSignGuardProofs`). Assumed (`DurableAssumption`): the
process does not die between a failed write and the next that succeeds;
`guard_faulty` shows why. Proved: `SignsOnce`, `SignsInOrder`, `SignsDurably`,
from `GInv`: the state in memory dominates every signature, and equals the file
unless the last write failed.

**Only model-checked.** Liveness (`Progress`) and the refinement of `BftVoting`
by `ValidatorLoop`. `Staking` and `Ledger` sum and fold over sets and sequences;
what a fold computes for every input needs induction over data, which the
provers do not do. `Storage` uses one fold, in the replay.

## 5. Not modelled, and what comes next

"components" in `PROJECT.json` lists every part with its status. Left out for
good: RPC, gRPC, exporter, wallet, wire formats and tools (input and output
without state of their own), bytecode execution (an external interpreter), MDBX.

Plan, in order:

1. **Sync**: batched GetBlocks with overlapping answers, follow-up requests sent
   before a batch is applied, gossip meanwhile, fork detection and its clearing.
   Properties: every node reaches the best peer's height; no block of a batch is
   lost to a duplicate; a marked fork stays marked until the chain is canonical.
2. **Trie**: insert, delete, canonical delete against a map; the background prune
   next to commits: no committed root within the window loses a node.
3. **Tokens and NFTs**: balances against supply, allowances, ownership and
   approvals, with failing operations inside a block that goes on.
4. **EVM bridge**: account changes written back against the ledger's books.
5. **Fork schedule**: activations and `SPECULATIVE_APPLY_HEIGHT`, whose own-block
   rule refuses the block the proposer uses to find its root.
6. **Composition**: `Ledger` with `Storage`, so that a restart is one of the
   ledger's events; an abstract single-decision specification that `BftVoting`
   implements.
7. **Proofs**: `BftVoting` implements the single decision; `PersistedIsOnDisk` and
   `WindowHasNoHoles` of `Storage`; step lemmas of `Ledger` that need no fold
   (rollback restores, sidecars mirror the pool).

## 6. Running

    tlc -config Ledger.cfg MCLedger        # one run; pairs are in PROJECT.json
    tlapm BftVotingProofs.tla              # one module's proofs
