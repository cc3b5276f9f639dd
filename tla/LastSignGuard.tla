--------------------------- MODULE LastSignGuard ---------------------------
(***************************************************************************)
(* The guard one validator process keeps against signing twice: the state  *)
(* in memory, its copy in LAST_SIGN_GUARD_PATH, and the signatures that    *)
(* left the process.  Requests are arbitrary, as the guard knows nothing   *)
(* of the engine.  The file may fail to be written and the process may die *)
(* at any point of check_and_record_with_bytes and start again.            *)
(*                                                                         *)
(* write_atomic is one step: the rename either happened or did not.  Its   *)
(* directory fsync is best effort in the code; a rename lost with the      *)
(* directory is not modelled.                                              *)
(***************************************************************************)
EXTENDS SignState

CONSTANTS
    MaxHeight, MaxRound,  \* bounds of the tuples that are asked for
    Payload,              \* digests of signing payloads
    NoBytes,              \* last_sign_bytes_hex = ""
    FailThenCrash         \* the process may die before it has written its
                          \* state again after a failed write

Tuple == (1 .. MaxHeight) \X (0 .. MaxRound) \X {Proposal, Prevote, Precommit}

(* LastSignState::default(): the tuple (0, 0, 0). *)
Default == Recorded(<<0, 0, 0>>, NoBytes)

State == [tuple : Tuple \cup {<<0, 0, 0>>}, bytes : Payload \cup {NoBytes}]

ASSUME GuardAssumption ==
    /\ MaxHeight \in Nat /\ MaxRound \in Nat
    /\ NoBytes \notin Payload
    /\ FailThenCrash \in BOOLEAN

VARIABLES
    state,   \* GUARD.state: LastSignState in memory
    file,    \* the state that init would read
    failed,  \* the last write failed
    signed   \* <<tuple, payload>> of every signature produced

vars == <<state, file, failed, signed>>

Init == state = Default /\ file = Default /\ failed = FALSE /\ signed = {}

(* Same bytes again: Ok, nothing is written. *)
Replay(t, p) ==
    /\ Replays(state, t, p)
    /\ signed' = signed \cup {<<t, p>>}
    /\ UNCHANGED <<state, file, failed>>

(* Mutant: the file is left for later. *)
Record_NoWrite(t, p) ==
    /\ Records(state, t)
    /\ state' = Recorded(t, p)
    /\ failed' = FALSE
    /\ signed' = signed \cup {<<t, p>>}
    /\ UNCHANGED file

(* A new tuple: the memory is updated, the file is written, Ok.            *)
Record(t, p) ==
    /\ Records(state, t)
    /\ state' = Recorded(t, p)
    /\ file' = Recorded(t, p)
    /\ failed' = FALSE
    /\ signed' = signed \cup {<<t, p>>}

(* write_atomic fails after the memory was updated: Err, no signature.     *)
PersistFails(t, p) ==
    /\ Records(state, t)
    /\ state' = Recorded(t, p)
    /\ failed' = TRUE
    /\ UNCHANGED <<file, signed>>

(* The process dies between the rename and the signature, and init reads   *)
(* the new file.                                                           *)
CrashAfterWrite(t, p) ==
    /\ Records(state, t)
    /\ file' = Recorded(t, p)
    /\ state' = Recorded(t, p)
    /\ failed' = FALSE
    /\ UNCHANGED signed

(* Mutant: init starts from the default state. *)
Crash_Forgets ==
    /\ failed => FailThenCrash
    /\ state' = Default
    /\ failed' = FALSE
    /\ UNCHANGED <<file, signed>>

(* The process dies anywhere else; init reads the file.                    *)
Crash ==
    /\ failed => FailThenCrash
    /\ state' = file
    /\ failed' = FALSE
    /\ UNCHANGED <<file, signed>>

Next ==
    \/ \E t \in Tuple, p \in Payload :
          Replay(t, p) \/ Record(t, p) \/ PersistFails(t, p) \/ CrashAfterWrite(t, p)
    \/ Crash

Spec == Init /\ [][Next]_vars

----------------------------------------------------------------------------
TypeOK ==
    /\ state \in State
    /\ file \in State
    /\ failed \in BOOLEAN
    /\ signed \subseteq Tuple \X Payload

(* The module's purpose, "prevents double-voting across validator          *)
(* restarts": one tuple is never signed for two payloads.                  *)
NoDoubleSign ==
    \A t \in Tuple, p, q \in Payload :
        <<t, p>> \in signed /\ <<t, q>> \in signed => p = q

(* Signing never goes backwards: a signature for a new tuple is later than *)
(* every signature that left the process before, restarts included.        *)
SignsForward ==
    [][\A a \in signed' \ signed, b \in signed : Before(b[1], a[1])]_vars

(* "On Ok, the new tuple is fsync'd to disk BEFORE returning": whatever    *)
(* was signed is covered by the file, unless its last write failed.        *)
SignedIsOnDisk ==
    ~failed => \A a \in signed : a[1] = file.tuple \/ Before(a[1], file.tuple)
=============================================================================
