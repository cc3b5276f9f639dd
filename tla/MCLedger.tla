------------------------------ MODULE MCLedger ------------------------------
(* Two senders: alice signs nonces 0, 1 and 2 with rising fees, so fee     *)
(* order and nonce order conflict; bob delegates and then undelegates, at  *)
(* odd fees.  No nonce is signed twice for the pool.  A further            *)
(* transaction of bob undelegates what was never delegated, which Pass 2   *)
(* refuses; it comes in blocks of others only.                             *)
EXTENDS Ledger

MCTx(from, to, amount, fee, nonce, op, data) ==
    [from |-> from, to |-> to, amount |-> amount, fee |-> fee, nonce |-> nonce,
     op |-> op, data |-> data]

AliceTx == {MCTx("alice", "bob", 1, n + 1, n, "payment", 0) : n \in 0 .. 2}

BobTx == {MCTx("bob", "treasury", 2, 1, 0, "delegate", 2),
          MCTx("bob", "treasury", 0, 3, 1, "undelegate", 2)}

MCSubmitted == AliceTx \cup BobTx

MCTxs == MCSubmitted \cup {MCTx("bob", "treasury", 0, 1, 0, "undelegate", 2)}

(* Only the last nonce of a sender may age out: the others would leave a   *)
(* gap behind.                                                             *)
LastNonces == {t \in MCSubmitted : \A u \in MCSubmitted : u.from = t.from => u.nonce <= t.nonce}

MCPremine == [a \in {"alice", "bob"} |-> IF a = "alice" THEN 10 ELSE 6]

(* The last return value decides nothing that follows.                     *)
Blockchain == <<bc, expired, canonical>>
=============================================================================
