------------------------------ MODULE Storage ------------------------------
(***************************************************************************)
(* What a node keeps on disk, who writes it, and what a restart makes of   *)
(* it.  Three tasks write: the validator task and the P2P event handler    *)
(* save one block after it was applied (save_block), the background writer *)
(* saves the blocks applied since its last tick (save_blocks), and every   *)
(* minute or at shutdown the whole state is saved (save_blockchain).  The  *)
(* trie commits its root to disk while a block is applied.                 *)
(*                                                                         *)
(* Blocks are named by their height.  Of the state the model keeps which   *)
(* blocks it has absorbed:                                                 *)
(*   accounts.at       the height whose balances and nonces it holds       *)
(*   accounts.created  the blocks whose newly created accounts it knows    *)
(*   modules           the blocks applied, in order, to everything that is *)
(*                     not in the trie: stake registry, epoch, slashing,   *)
(*                     contracts, total_minted                             *)
(***************************************************************************)
EXTENDS Integers, Sequences, FiniteSets, SequencesExt

CONSTANTS CHAIN_WINDOW_SIZE, \* blocks kept in memory
          CreatesAccount,    \* heights of blocks that pay a new account
          MaxHeight,         \* bound: heights
          MaxQueue,          \* bound: NewBlock events waiting for the handler
          MaxCrashes,        \* bound: exits of the process
          MaxStarts          \* bound: starts that fail one after the other

ASSUME StorageAssumption == /\ CHAIN_WINDOW_SIZE \in Nat \ {0}
                            /\ MaxHeight \in Nat
                            /\ CreatesAccount \subseteq 1 .. MaxHeight

VARIABLES bc,       \* in memory: [chain, accounts, modules]
          disk,     \* MDBX: [blocks, height, blob, blob_height, roots]
          unsaved,  \* blocks to be saved: [bft: 0 or a height, p2p: heights]
          writer,   \* the background writer: [last_persisted, batch]
          up,       \* the process runs
          fails,    \* loads that failed since the last one that succeeded
          crashes,  \* exits so far
          torn,     \* a load found the blob at another height than the chain
          lost      \* blocks that left the window before they were on disk

vars == <<bc, disk, unsaved, writer, up, fails, crashes, torn, lost>>

Height == 0 .. MaxHeight

(* The sliding window keeps the newest CHAIN_WINDOW_SIZE blocks.           *)
Window(S) == {i \in S : Cardinality({j \in S : j >= i}) <= CHAIN_WINDOW_SIZE}

height(chain) == CHOOSE h \in chain : \A i \in chain : i <= h

(* add_block: the block is appended, the state absorbs it.                 *)
add_block(b, h) ==
    [chain |-> Window(b.chain \cup {h}),
     accounts |-> [at |-> h, created |-> b.accounts.created \cup ({h} \cap CreatesAccount)],
     modules |-> Append(b.modules, h)]

(* The state an uninterrupted node has at height h.                        *)
Canonical(b) == LET h == height(b.chain) IN
    /\ b.accounts = [at |-> h, created |-> CreatesAccount \cap 1 .. h]
    /\ b.modules = [i \in 1 .. h |-> i]
-----------------------------------------------------------------------------
save_block(d, h) == [d EXCEPT !.blocks = @ \cup {h}, !.height = h]

(* A writer that takes the batch for a checkpoint.                         *)
save_blocks_Checkpoint(d, B) == IF B = {} THEN d ELSE
    [d EXCEPT !.blocks = @ \cup B, !.height = height(B), !.blob_height = height(B)]

save_blocks(d, B) == IF B = {} THEN d ELSE
    [d EXCEPT !.blocks = @ \cup B, !.height = height(B)]

(* One transaction: blob, checkpoint, every block of the window, tip.      *)
save_blockchain(d, b) ==
    [d EXCEPT !.blob = [accounts |-> b.accounts, modules |-> b.modules],
              !.blob_height = height(b.chain),
              !.blocks = @ \cup b.chain,
              !.height = height(b.chain)]
-----------------------------------------------------------------------------
WindowStart(h) == IF h >= CHAIN_WINDOW_SIZE THEN h - CHAIN_WINDOW_SIZE + 1 ELSE 0

Missing(d) == (WindowStart(d.height) .. d.height) \ d.blocks

(* A loader that skips what it does not find.                              *)
LoadWindow_Skips(d) == (WindowStart(d.height) .. d.height) \cap d.blocks

(* The blocks below the first missing one; when that is the first of the   *)
(* window, the window below it that ends with a block on disk.             *)
LoadWindow(d) ==
    LET start == WindowStart(d.height)
        found == {i \in start .. d.height : \A j \in start .. i : j \in d.blocks}
        low == height({i \in Height : i < start /\ i \in d.blocks} \cup {0})
    IN  IF found # {} THEN found ELSE (WindowStart(low) .. low) \cap d.blocks

AdjustHeight_Forgotten(d, chain) == d

(* A missing block: the height key is set back to what was loaded.         *)
AdjustHeight(d, chain) ==
    IF Missing(d) = {} THEN d ELSE [d EXCEPT !.height = height(chain)]

(* B3: the accounts the blob knows are set to the leaves of the trie at    *)
(* the loaded height; an account the blob does not know is not looked up.  *)
reconcile_accounts_from_trie(accounts, h, roots) ==
    IF h \in roots THEN [accounts EXCEPT !.at = h] ELSE accounts

(* B2: blocks above the checkpoint are applied again to the truncated      *)
(* chain.  add_block_from_peer wants the successor of the tip and          *)
(* recomputes the state root, so it refuses the first block unless chain   *)
(* and accounts end with the checkpoint.                                   *)
Replayable(d, b, h) ==
    /\ d.blob_height + 1 .. h \subseteq d.blocks
    /\ d.blob_height \in b.chain
    /\ b.accounts.at = d.blob_height

Replay(d, b, h) ==
    FoldLeft(add_block, [b EXCEPT !.chain = {i \in @ : i <= d.blob_height}],
             [i \in 1 .. h - d.blob_height |-> d.blob_height + i])

(* load_blockchain: [ok, bc, disk].  The height read at the start decides  *)
(* about the replay, the checkpoint is read after B3 may have moved it.    *)
load_blockchain(d) ==
    LET chain  == LoadWindow(d)
        h      == height(chain)
        d1     == AdjustHeight(d, chain)
        loaded == [chain |-> chain, modules |-> d.blob.modules,
                   accounts |-> reconcile_accounts_from_trie(d.blob.accounts, h, d.roots)]
        total_minted_was_stale == Len(loaded.modules) # h
        repaired == loaded.accounts # d.blob.accounts
        d2     == IF repaired \/ total_minted_was_stale THEN save_blockchain(d1, loaded) ELSE d1
    IN  IF d.height <= d2.blob_height
        THEN [ok |-> TRUE, bc |-> loaded, disk |-> d2]
        ELSE IF Replayable(d2, loaded, d.height)
        THEN LET b == Replay(d2, loaded, d.height)
             IN  [ok |-> TRUE, bc |-> b, disk |-> save_blockchain(d2, b)]
        ELSE [ok |-> FALSE, bc |-> loaded, disk |-> d2]
-----------------------------------------------------------------------------
(* After `sentrix init`: genesis in memory and on disk.                    *)
Init ==
    LET genesis == [accounts |-> [at |-> 0, created |-> {}], modules |-> << >>]
    IN  /\ bc = [chain |-> {0}, accounts |-> genesis.accounts, modules |-> genesis.modules]
        /\ disk = [blocks |-> {0}, height |-> 0, blob |-> genesis, blob_height |-> 0, roots |-> {}]
        /\ unsaved = [bft |-> 0, p2p |-> {}]
        /\ writer = [last_persisted |-> 0, batch |-> {}]
        /\ up = TRUE /\ fails = 0 /\ crashes = 0 /\ torn = FALSE /\ lost = {}

(* A block is applied under the write lock, which also commits the trie.   *)
(* Nothing waits for the disk: the block that leaves the window may not be *)
(* there.                                                                  *)
Apply(h) ==
    /\ up /\ h <= MaxHeight
    /\ bc' = add_block(bc, h)
    /\ disk' = [disk EXCEPT !.roots = @ \cup {h}]
    /\ lost' = lost \cup ((bc.chain \ bc'.chain) \ disk.blocks)
    /\ UNCHANGED <<writer, up, fails, crashes, torn>>

(* FinalizeBlock as the round starts with the own proposal: the save is    *)
(* left to the writer.                                                     *)
FinalizeQueued ==
    /\ unsaved.bft = 0
    /\ Apply(height(bc.chain) + 1)
    /\ UNCHANGED unsaved

(* FinalizeBlock on a peer's message: saved once the lock was dropped.     *)
FinalizeSaved ==
    /\ unsaved.bft = 0
    /\ Apply(height(bc.chain) + 1)
    /\ unsaved' = [unsaved EXCEPT !.bft = height(bc.chain) + 1]

(* A gossiped or synced block is announced to the event handler.  The      *)
(* gossip task drops the lock first, so announcements can overtake.        *)
SyncBlock ==
    /\ Cardinality(unsaved.p2p) < MaxQueue
    /\ Apply(height(bc.chain) + 1)
    /\ unsaved' = [unsaved EXCEPT !.p2p = @ \cup {height(bc.chain) + 1}]

(* save_block may fail, which is only logged.                              *)
SaveFinalized ==
    /\ up /\ unsaved.bft # 0
    /\ disk' \in {disk, save_block(disk, unsaved.bft)}
    /\ unsaved' = [unsaved EXCEPT !.bft = 0]
    /\ UNCHANGED <<bc, writer, up, fails, crashes, torn, lost>>

SaveSynced ==
    /\ up
    /\ \E h \in unsaved.p2p :
          /\ disk' \in {disk, save_block(disk, h)}
          /\ unsaved' = [unsaved EXCEPT !.p2p = @ \ {h}]
    /\ UNCHANGED <<bc, writer, up, fails, crashes, torn, lost>>

(* The writer clones the new blocks under the read lock ...                *)
Tick ==
    /\ up /\ writer.batch = {}
    /\ writer' = [writer EXCEPT !.batch = {i \in bc.chain : i > writer.last_persisted}]
    /\ UNCHANGED <<bc, disk, unsaved, up, fails, crashes, torn, lost>>

WriteBatch_Regardless ==
    /\ up /\ writer.batch # {}
    /\ disk' \in {disk, save_blocks(disk, writer.batch)}
    /\ writer' = [last_persisted |-> height(writer.batch), batch |-> {}]
    /\ UNCHANGED <<bc, unsaved, up, fails, crashes, torn, lost>>

(* ... and writes them without it; a failed write is tried again.          *)
WriteBatch ==
    /\ up /\ writer.batch # {}
    /\ \/ /\ disk' = save_blocks(disk, writer.batch)
          /\ writer' = [last_persisted |-> height(writer.batch), batch |-> {}]
       \/ /\ writer' = [writer EXCEPT !.batch = {}]
          /\ UNCHANGED disk
    /\ UNCHANGED <<bc, unsaved, up, fails, crashes, torn, lost>>

(* The periodic checkpoint and the one at shutdown.                        *)
Checkpoint ==
    /\ up
    /\ disk' = save_blockchain(disk, bc)
    /\ UNCHANGED <<bc, unsaved, writer, up, fails, crashes, torn, lost>>

Exit ==
    /\ up /\ crashes < MaxCrashes
    /\ up' = FALSE /\ crashes' = crashes + 1
    /\ unsaved' = [bft |-> 0, p2p |-> {}]
    /\ writer' = [writer EXCEPT !.batch = {}]
    /\ UNCHANGED <<bc, disk, fails, torn, lost>>

Start ==
    /\ ~up /\ fails < MaxStarts
    /\ LET l == load_blockchain(disk)
       IN  /\ disk' = l.disk
           /\ up' = l.ok
           /\ bc' = l.bc
           /\ fails' = IF l.ok THEN 0 ELSE fails + 1
           /\ writer' = [last_persisted |-> height(l.bc.chain), batch |-> {}]
    /\ torn' = (torn \/ disk.blob_height # disk.height)
    /\ UNCHANGED <<unsaved, crashes, lost>>

Next == \/ FinalizeQueued \/ FinalizeSaved \/ SyncBlock
        \/ SaveFinalized \/ SaveSynced \/ Tick \/ WriteBatch \/ Checkpoint
        \/ Exit \/ Start

Spec == Init /\ [][Next]_vars
-----------------------------------------------------------------------------
(* Every block up to the writer's mark is on disk or left the window       *)
(* before any write of it succeeded, which a writer that has fallen a      *)
(* window behind skips.  A failed write alone loses nothing.               *)
PersistedIsOnDisk == up => 0 .. writer.last_persisted \subseteq disk.blocks \cup lost

(* get_block finds a block by its distance from the first of the window,   *)
(* so the window has no holes, also when the disk had some at the start.   *)
WindowHasNoHoles == up => bc.chain = WindowStart(height(bc.chain)) .. height(bc.chain)

(* A start that fails on a missing block has set the height key back: the  *)
(* next one succeeds, unless a block was lost for good, for which the      *)
(* loader's message asks for a copy of another node's chain.db.            *)
SecondStartSucceeds == lost = {} => fails <= 1

(* As long as every start found the checkpoint at the height of the chain, *)
(* accounts and modules are those of a node that never stopped.            *)
CleanRestartRestores == up /\ ~torn => Canonical(bc)

(* main.rs: a crash between the commit in memory and the save on disk is   *)
(* made good by the replay of load_blockchain.                             *)
RestartReplays == up => Canonical(bc)
=============================================================================
