------------------------------- MODULE Ledger -------------------------------
(***************************************************************************)
(* The node's ledger: the in-memory Blockchain (accounts, minted supply,   *)
(* mempool with its two sidecars, window of recent blocks, state trie) and *)
(* the operations that change it: admission to the mempool, block          *)
(* production, and add_block with its dry run (Pass 1), its commit         *)
(* (Pass 2) and the rollback of a commit that fails.                       *)
(*                                                                         *)
(* Every operation runs under the write lock of the Blockchain, so one     *)
(* action is one operation.  The order in which admissions, blocks from    *)
(* peers, own blocks and the clock interleave is free.                     *)
(*                                                                         *)
(* Abstractions.  A transaction is a record; two transactions with the     *)
(* same fields are the same transaction (txid).  Signature, address and    *)
(* size checks accept it.  It is a payment, a delegation or an             *)
(* undelegation; the registry is the stake each sender has delegated and   *)
(* the stake on its way back, and the rest of it, rewards and liveness     *)
(* included, is the Staking module's.  A block's state_root is reduced to  *)
(* how it compares with the root the node computes.  The trie is the       *)
(* balance it commits per address.  Forks are past activation except       *)
(* SPECULATIVE_APPLY_HEIGHT, which defaults to never.                      *)
(***************************************************************************)
EXTENDS Integers, FiniteSets, Sequences, SequencesExt, FiniteSetsExt

CONSTANTS
    Tx,               \* transactions: [from, to, amount, fee, nonce, op, data]
    Submitted,        \* the transactions submitted to this node's mempool
    Sender,           \* addresses that sign transactions
    PROTOCOL_TREASURY,\* receives the block reward
    Proposer,         \* the validator address of every block
    Premine,          \* genesis balance of each sender
    BLOCK_REWARD, MAX_SUPPLY, HALVING_INTERVAL,
    MAX_MEMPOOL_SIZE, MAX_MEMPOOL_PER_SENDER,
    MAX_TX_PER_BLOCK, \* coinbase included
    CHAIN_WINDOW_SIZE,\* blocks kept in memory
    EPOCH_LENGTH, UNBONDING_PERIOD,
    Slashes,          \* what an epoch's end may slash for downtime, in all
    MayExpire,        \* the transactions whose timestamp may age out
    MaxHeight         \* bound: blocks are offered up to this height

VARIABLES
    bc,        \* the Blockchain
    expired,   \* transactions older than MEMPOOL_MAX_AGE_SECS by the clock
    canonical, \* the last block for which add_block returned Ok
    returned   \* what the last operation on bc returned

vars == <<bc, expired, canonical, returned>>

Address == Sender \cup {PROTOCOL_TREASURY, Proposer}

Spend(tx) == tx.amount + tx.fee

div_ceil(n, d) == (n + d - 1) \div d

Sum(S, f(_)) == MapThenSumSet(f, S)

PendingOf(pool, a) == {i \in DOMAIN pool : pool[i].from = a}

height(b) == Last(b.chain).index

(* What a child commits to as its parent's hash. *)
Hash(block) == [index |-> block.index, txs |-> block.txs, root |-> block.root]

-----------------------------------------------------------------------------
(* The mempool *)

mempool_pending_count(b, a) == b.sender_count[a]

mempool_pending_spend(b, a) == Sum(PendingOf(b.mempool, a), LAMBDA i : Spend(b.mempool[i]))

HasRoom_OffByOne(b, a) ==
    /\ Len(b.mempool) <= MAX_MEMPOOL_SIZE
    /\ mempool_pending_count(b, a) <= MAX_MEMPOOL_PER_SENDER

HasRoom(b, a) ==
    /\ Len(b.mempool) < MAX_MEMPOOL_SIZE
    /\ mempool_pending_count(b, a) < MAX_MEMPOOL_PER_SENDER

rebuild_mempool_sidecars(b) ==
    [b EXCEPT !.txids = Range(b.mempool),
              !.sender_count = [a \in Sender |-> Cardinality(PendingOf(b.mempool, a))]]

(* partition_point is a binary search: it ends at some place where the     *)
(* comparison flips.  The pool is not sorted by fee once a sender's nonce  *)
(* order has overridden the fee, and then there are several such places.   *)
FeePos(pool, fee) ==
    {p \in 0 .. Len(pool) : /\ p > 0 => pool[p].fee >= fee
                            /\ p < Len(pool) => pool[p + 1].fee < fee}

InsertPos_FeeOnly(pool, tx) == FeePos(pool, tx.fee)

InsertPos(pool, tx) ==
    {Max({p} \cup PendingOf(pool, tx.from)) : p \in FeePos(pool, tx.fee)}

prune_mempool(b, old) ==
    rebuild_mempool_sidecars(
        [b EXCEPT !.mempool = SelectSeq(b.mempool, LAMBDA t : t \notin old)])

evict_stale_nonce_for_senders(b, senders) ==
    LET kept(t) == t.from \in senders => t.nonce >= b.accounts.nonce[t.from]
    IN  rebuild_mempool_sidecars([b EXCEPT !.mempool = SelectSeq(b.mempool, kept)])

-----------------------------------------------------------------------------
(* Accounts *)

(* Every change of a balance is noted in touched, touched_in_block. *)
credit(acc, a, amount) ==
    [acc EXCEPT !.balance[a] = @ + amount, !.touched = @ \cup {a}]

transfer_NoNonce(acc, tx) ==
    LET debited == [acc EXCEPT !.balance[tx.from] = @ - Spend(tx),
                               !.touched = @ \cup {tx.from},
                               !.total_burned = @ + div_ceil(tx.fee, 2)]
    IN  credit(debited, tx.to, tx.amount)

transfer(acc, tx) ==
    LET debited == [acc EXCEPT !.balance[tx.from] = @ - Spend(tx),
                               !.touched = @ \cup {tx.from},
                               !.nonce[tx.from] = @ + 1,
                               !.total_burned = @ + div_ceil(tx.fee, 2)]
    IN  credit(debited, tx.to, tx.amount)

total_supply(acc) == Sum(Address, LAMBDA a : acc.balance[a])

get_block_reward(b) ==
    LET remaining == Max({0, MAX_SUPPLY - b.total_minted})
        reward    == BLOCK_REWARD \div 2 ^ (height(b) \div HALVING_INTERVAL)
    IN  Min({reward, remaining})

-----------------------------------------------------------------------------
(* Block production: the coinbase (implicit in a block here) and a prefix  *)
(* of the mempool.                                                         *)
build_block(b) ==
    [index |-> height(b) + 1, prev |-> Hash(Last(b.chain)), root |-> "none",
     txs |-> SubSeq(b.mempool, 1, Min({Len(b.mempool), MAX_TX_PER_BLOCK - 1})),
     justified |-> FALSE, slashed |-> 0]

-----------------------------------------------------------------------------
(* add_block, Pass 1: every transaction has its sender's next nonce and    *)
(* the sender can pay for all of its transactions of the block without     *)
(* anything the block credits.                                             *)
Pass1(b, block) ==
    /\ block.index = height(b) + 1
    /\ block.prev = Hash(Last(b.chain))
    /\ \A i, j \in DOMAIN block.txs : block.txs[i] = block.txs[j] => i = j
    /\ \A i \in DOMAIN block.txs :
          LET a    == block.txs[i].from
              mine == {j \in 1 .. i : block.txs[j].from = a}
          IN  /\ block.txs[i].nonce = b.accounts.nonce[a] + Cardinality(mine) - 1
              /\ b.accounts.balance[a] >= Sum(mine, LAMBDA j : Spend(block.txs[j]))

(* The staking dispatch of a transaction; the treasury has its amount. *)
delegate(reg, tx) == [reg EXCEPT !.delegated[tx.from] = @ + tx.amount]

undelegate(reg, tx, h) ==
    [reg EXCEPT !.delegated[tx.from] = @ - tx.data,
                !.unbonding = Append(@, [delegator |-> tx.from, amount |-> tx.data,
                                         completion_height |-> h + UNBONDING_PERIOD])]

Dispatch(reg, tx, h) ==
    CASE tx.op = "payment"    -> reg
      [] tx.op = "delegate"   -> delegate(reg, tx)
      [] tx.op = "undelegate" -> undelegate(reg, tx, h)

Dispatchable(reg, tx) == tx.op = "undelegate" => reg.delegated[tx.from] >= tx.data

(* Pass 2, transaction loop: stops at the first transfer that cannot be    *)
(* paid or operation that is refused, which leaves the transfer made.      *)
ApplyTx(h, r, tx) ==
    LET pays == r.ok /\ r.accounts.balance[tx.from] >= Spend(tx)
        does == pays /\ Dispatchable(r.registry, tx)
    IN  [ok       |-> does,
         accounts |-> IF pays THEN transfer(r.accounts, tx) ELSE r.accounts,
         registry |-> IF does THEN Dispatch(r.registry, tx, h) ELSE r.registry]

FeeShare_Ceil(txs) ==
    LET total_fee == Sum(DOMAIN txs, LAMBDA i : txs[i].fee)
    IN  div_ceil(total_fee, 2)

FeeShare(txs) ==
    LET total_fee == Sum(DOMAIN txs, LAMBDA i : txs[i].fee)
    IN  total_fee - div_ceil(total_fee, 2)

ApplyTransactions(b, block) ==
    LET reward == get_block_reward(b)
        minted == credit([b.accounts EXCEPT !.touched = {}], PROTOCOL_TREASURY, reward)
        looped == FoldLeft(LAMBDA r, tx : ApplyTx(block.index, r, tx),
                           [ok |-> TRUE, accounts |-> minted, registry |-> b.registry],
                           block.txs)
    IN  [ok |-> looped.ok,
         bc |-> [b EXCEPT !.total_minted = @ + reward,
                          !.registry = looped.registry,
                          !.accounts = IF looped.ok /\ FeeShare(block.txs) > 0
                                       THEN credit(looped.accounts, Proposer, FeeShare(block.txs))
                                       ELSE looped.accounts]]

(* Mined transactions leave the pool, then those whose nonce was used by   *)
(* the block, then the expired ones.                                       *)
CleanMempool(b, block, old) ==
    LET mined   == [b EXCEPT !.mempool = SelectSeq(b.mempool, LAMBDA t : t \notin Range(block.txs))]
        senders == {block.txs[i].from : i \in DOMAIN block.txs}
    IN  prune_mempool(evict_stale_nonce_for_senders(rebuild_mempool_sidecars(mined), senders), old)

(* Append the block and drop the oldest ones beyond the window. *)
PushBlock(b, block) ==
    LET pushed == Append(b.chain, block)
        excess == Max({0, Len(pushed) - CHAIN_WINDOW_SIZE})
    IN  [b EXCEPT !.chain = SubSeq(pushed, excess + 1, Len(pushed))]

is_epoch_boundary(h) == h > 0 /\ (h + 1) % EPOCH_LENGTH = 0

(* Stake on its way back that is due leaves the queue and is paid from the *)
(* treasury, or a warning is logged.                                       *)
Matured(e, h) == e.completion_height <= h

process_unbonding(reg, h) ==
    [reg EXCEPT !.unbonding = SelectSeq(@, LAMBDA e : ~Matured(e, h))]

Release(acc, e) ==
    IF acc.balance[PROTOCOL_TREASURY] < e.amount THEN acc
    ELSE LET debited == [acc EXCEPT !.balance[PROTOCOL_TREASURY] = @ - e.amount,
                                    !.touched = @ \cup {PROTOCOL_TREASURY}]
         IN  credit(debited, e.delegator, e.amount)

(* The end of an epoch, with the block already on the chain.  What         *)
(* check_liveness slashes is added to total_burned and taken from nobody;  *)
(* it falls on the self stake of validators.                               *)
run_epoch_bookkeeping(b, slashed) ==
    LET h   == height(b)
        due == SelectSeq(b.registry.unbonding, LAMBDA e : Matured(e, h))
    IN  IF is_epoch_boundary(h)
        THEN [b EXCEPT !.registry = process_unbonding(@, h),
                       !.accounts = [FoldLeft(Release, @, due) EXCEPT
                                        !.total_burned = @ + slashed]]
        ELSE b

CommitBalances(b, touched) ==
    [b EXCEPT !.trie = [a \in Address |-> IF a \in touched
                                          THEN b.accounts.balance[a] ELSE b.trie[a]],
              !.accounts.touched = {}]

NamedBy(block) ==
    UNION {{block.txs[i].from, block.txs[i].to} : i \in DOMAIN block.txs}
    \cup {Proposer, PROTOCOL_TREASURY}

update_trie_for_block_NotExtended(b) == CommitBalances(b, NamedBy(Last(b.chain)))

(* The trie is not rebuilt: it is updated at the addresses that the last   *)
(* block names, at the proposer, at the treasury (STATE_ROOT_V2) and at    *)
(* every address a change of accounts noted (EXTENDED_TOUCH_LIST), a list  *)
(* that is drained.                                                        *)
update_trie_for_block(b) ==
    CommitBalances(b, NamedBy(Last(b.chain)) \cup b.accounts.touched)

(* A missing root is stamped on an own block only; a root that differs is  *)
(* tolerated only on a peer's block whose justification was verified.      *)
RootAccepted(block, source) ==
    \/ block.root = "agrees"
    \/ block.root = "none" /\ source = "SelfProduced"
    \/ block.root = "differs" /\ source = "Peer" /\ block.justified

StampRoot(b) ==
    [b EXCEPT !.chain[Len(b.chain)].root = IF @ = "none" THEN "agrees" ELSE @]

(* The whole of Pass 2.  The reward bookkeeping between the push and the   *)
(* epoch changes no account.                                               *)
apply_block_pass2(b, block, source, old) ==
    LET applied == ApplyTransactions(b, block)
        cleaned == CleanMempool(applied.bc, block, old)
        closed  == run_epoch_bookkeeping(PushBlock(cleaned, block), block.slashed)
        updated == update_trie_for_block(closed)
    IN  IF ~applied.ok THEN applied
        ELSE IF RootAccepted(block, source) THEN [ok |-> TRUE, bc |-> StampRoot(updated)]
        ELSE [ok |-> FALSE, bc |-> updated]

Truncate(s, n) == SubSeq(s, 1, Min({n, Len(s)}))

rollback_TrieLeft(snap, dirty) ==
    rebuild_mempool_sidecars(
        [dirty EXCEPT !.accounts = snap.accounts,
                      !.registry = snap.registry,
                      !.mempool = snap.mempool,
                      !.total_minted = snap.total_minted,
                      !.chain = Truncate(dirty.chain, Len(snap.chain))])

rollback_NoRebuild(snap, dirty) ==
    [dirty EXCEPT !.accounts = snap.accounts,
                  !.registry = snap.registry,
                  !.mempool = snap.mempool,
                  !.total_minted = snap.total_minted,
                  !.chain = Truncate(dirty.chain, Len(snap.chain)),
                  !.trie = snap.trie]

(* The error arm of add_block_impl.  The snapshot keeps the LENGTH of the  *)
(* chain, not the chain.                                                   *)
rollback(snap, dirty) ==
    rebuild_mempool_sidecars(
        [dirty EXCEPT !.accounts = snap.accounts,
                      !.registry = snap.registry,
                      !.mempool = snap.mempool,
                      !.total_minted = snap.total_minted,
                      !.chain = Truncate(dirty.chain, Len(snap.chain)),
                      !.trie = snap.trie])

add_block(b, block, source, old) ==
    LET result == apply_block_pass2(b, block, source, old)
    IN  IF ~Pass1(b, block) THEN [ok |-> FALSE, bc |-> b]
        ELSE IF result.ok THEN result
        ELSE [ok |-> FALSE, bc |-> rollback(b, result.bc)]

-----------------------------------------------------------------------------
(* The specification *)

GenesisAccounts ==
    [balance |-> [a \in Address |-> IF a \in Sender THEN Premine[a] ELSE 0],
     nonce |-> [a \in Sender |-> 0], total_burned |-> 0, touched |-> {}]

GenesisBlock ==
    [index |-> 0, prev |-> "none", txs |-> <<>>, root |-> "agrees", justified |-> FALSE,
     slashed |-> 0]

Init ==
    /\ bc = [accounts |-> GenesisAccounts,
             registry |-> [delegated |-> [a \in Sender |-> 0], unbonding |-> <<>>],
             total_minted |-> total_supply(GenesisAccounts),
             mempool |-> <<>>, txids |-> {}, sender_count |-> [a \in Sender |-> 0],
             chain |-> <<GenesisBlock>>, trie |-> GenesisAccounts.balance]
    /\ expired = {}
    /\ canonical = GenesisBlock
    /\ returned = "Ok"

add_to_mempool(tx) ==
    /\ tx \in Submitted
    /\ HasRoom(bc, tx.from)
    /\ tx \notin expired
    /\ tx \notin bc.txids
    /\ tx.nonce = bc.accounts.nonce[tx.from] + mempool_pending_count(bc, tx.from)
    /\ bc.accounts.balance[tx.from] - mempool_pending_spend(bc, tx.from) >= Spend(tx)
    /\ \E pos \in InsertPos(bc.mempool, tx) :
          bc' = [bc EXCEPT !.mempool = InsertAt(@, pos + 1, tx),
                           !.txids = @ \cup {tx},
                           !.sender_count[tx.from] = @ + 1]
    /\ returned' = "Ok"
    /\ UNCHANGED <<expired, canonical>>

(* The clock passes a transaction's timestamp + MEMPOOL_MAX_AGE_SECS. *)
Expire(tx) ==
    /\ tx \in MayExpire \ expired
    /\ expired' = expired \cup {tx}
    /\ UNCHANGED <<bc, canonical, returned>>

(* sentrix mempool clear *)
clear_mempool ==
    /\ bc' = [bc EXCEPT !.mempool = <<>>, !.txids = {},
                        !.sender_count = [a \in Sender |-> 0]]
    /\ returned' = "Ok"
    /\ UNCHANGED <<expired, canonical>>

AddBlock(block, source) ==
    LET result == add_block(bc, block, source, expired)
    IN  /\ bc' = result.bc
        /\ canonical' = IF result.ok THEN Last(result.bc.chain) ELSE canonical
        /\ returned' = IF result.ok THEN "Ok" ELSE "Err"
        /\ UNCHANGED expired

(* The proposer builds a block, applies it to a scratch clone, gives up    *)
(* when that fails, and commits it once the round finalises it.            *)
ProduceBlock(slashed) ==
    /\ height(bc) < MaxHeight
    /\ AddBlock([build_block(bc) EXCEPT !.slashed = slashed], "SelfProduced")
    /\ returned' = "Ok"

(* A block built by another validator on the chain all agree on, from a    *)
(* peer or from the stash of the finalised proposal.                       *)
ForeignBlock(txs, root, justified, slashed, source) ==
    /\ height(bc) < MaxHeight
    /\ AddBlock([index |-> canonical.index + 1, prev |-> Hash(canonical),
                 root |-> root, txs |-> txs, justified |-> justified,
                 slashed |-> slashed], source)

ForeignTxs == {<<>>} \cup {<<t>> : t \in Tx} \cup {<<t, u>> : t, u \in Tx}

(* Whether the justification was verified matters when the roots differ.   *)
Verified(root) == IF root = "differs" THEN BOOLEAN ELSE {FALSE}

(* What the liveness records of the next block's validators amount to. *)
NextSlashes == IF is_epoch_boundary(canonical.index + 1) THEN Slashes ELSE {0}

Next ==
    \/ \E tx \in Tx : add_to_mempool(tx) \/ Expire(tx)
    \/ clear_mempool
    \/ \E slashed \in NextSlashes : ProduceBlock(slashed)
    \/ \E txs \in ForeignTxs, root \in {"none", "agrees", "differs"},
          slashed \in NextSlashes, source \in {"Peer", "SelfProduced"} :
          \E justified \in Verified(root) : ForeignBlock(txs, root, justified, slashed, source)

Spec == Init /\ [][Next]_vars

-----------------------------------------------------------------------------
(* Properties *)

(* Types, and the limits the code keeps on the pool, per sender and in     *)
(* all, and on the window of blocks.                                       *)
TypeOK ==
    /\ bc.accounts.balance \in [Address -> Nat]
    /\ bc.accounts.nonce \in [Sender -> Nat]
    /\ bc.accounts.total_burned \in Nat /\ bc.total_minted \in Nat
    /\ bc.mempool \in Seq(Submitted) /\ bc.txids \subseteq Submitted
    /\ Len(bc.mempool) <= MAX_MEMPOOL_SIZE
    /\ bc.sender_count \in [Sender -> 0 .. MAX_MEMPOOL_PER_SENDER]
    /\ bc.trie \in [Address -> Nat]
    /\ Len(bc.chain) \in 1 .. CHAIN_WINDOW_SIZE
    /\ expired \subseteq MayExpire

(* The sidecars that add_to_mempool reads for its duplicate, per-sender    *)
(* and nonce checks mirror the pool, after every admission, block, failed  *)
(* block and clear.                                                        *)
SidecarsMirrorPool ==
    /\ bc.txids = Range(bc.mempool)
    /\ \A a \in Sender : bc.sender_count[a] = Cardinality(PendingOf(bc.mempool, a))

(* The block a proposer builds from its own pool passes its own add_block, *)
(* whatever was admitted and whatever blocks came in between: one bad or   *)
(* misplaced pending transaction would cost the node every block it is     *)
(* asked to propose.                                                       *)
PoolIsProducible == add_block(bc, build_block(bc), "SelfProduced", expired).ok

(* By how much a block makes total_burned exceed what it takes out of      *)
(* circulation: each transaction reports half of its own fee rounded up    *)
(* while the block withholds half of all fees rounded up, and a downtime   *)
(* slash is reported although the stake stays in the treasury.             *)
Overstated(block) ==
    LET fee(i) == block.txs[i].fee
    IN  Sum(DOMAIN block.txs, LAMBDA i : div_ceil(fee(i), 2))
        - div_ceil(Sum(DOMAIN block.txs, fee), 2) + block.slashed

(* The supply: minting stops at MAX_SUPPLY, and held + burned = minted     *)
(* exactly, but for what the blocks have overstated as burned: no payment, *)
(* delegation, release at an epoch's end, refused block or split of fees   *)
(* makes or loses a unit.  (The window holds the whole chain.)             *)
SupplyAccounted ==
    /\ bc.total_minted <= MAX_SUPPLY
    /\ total_supply(bc.accounts) + bc.accounts.total_burned
         = bc.total_minted + Sum(DOMAIN bc.chain, LAMBDA i : Overstated(bc.chain[i]))

(* No transaction is in two blocks: neither the pool, nor a peer's block,  *)
(* nor a transaction that comes back after its block is mined twice.       *)
NoTxMinedTwice ==
    \A i, j \in DOMAIN bc.chain :
        i # j => Range(bc.chain[i].txs) \cap Range(bc.chain[j].txs) = {}

(* The trie, which is only ever updated at the addresses a block is known  *)
(* to touch, commits the balance of every address: after blocks, refused   *)
(* blocks, mints to the treasury and releases to delegators at an epoch's  *)
(* end, which no transaction of the block names.                           *)
TrieCommitsAccounts == bc.trie = bc.accounts.balance

(* A block that add_block refuses leaves no trace: not in the accounts,    *)
(* the registry, the minted supply, the chain, the trie, the pool or its   *)
(* sidecars.                                                               *)
RefusedLeavesNoTrace == [][returned' = "Err" => bc' = bc]_vars

=============================================================================
