----------------------------- MODULE SignState -----------------------------
(***************************************************************************)
(* LastSignState of crates/sentrix-bft/src/last_sign_guard.rs and the      *)
(* decision check_and_record_with_bytes takes on it: a signature is asked  *)
(* for a tuple <<height, round, step>> and a payload.                      *)
(***************************************************************************)
EXTENDS Integers

(* VoteStep, as the number that is compared and stored. *)
Proposal == 0
Prevote == 1
Precommit == 2

(* The order of Rust's tuples. *)
Before(a, b) ==
    \/ a[1] < b[1]
    \/ a[1] = b[1] /\ a[2] < b[2]
    \/ a[1] = b[1] /\ a[2] = b[2] /\ a[3] < b[3]

(* Mutant: the bytes are not compared. *)
Replays_AnyBytes(st, t, p) == t = st.tuple

(* Same tuple and same bytes: sign again, without writing. *)
Replays(st, t, p) == t = st.tuple /\ p = st.bytes

(* A later tuple: record it, write it, sign. *)
Records(st, t) == Before(st.tuple, t)

(* Anything else is a DoubleSignAttempt and the signature stays empty. *)
Refuses(st, t, p) == ~Replays(st, t, p) /\ ~Records(st, t)

Recorded(t, p) == [tuple |-> t, bytes |-> p]
=============================================================================
