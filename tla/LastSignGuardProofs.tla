------------------------ MODULE LastSignGuardProofs ------------------------
(***************************************************************************)
(* The sign guard keeps its promise for any tuples and payloads as long as *)
(* the process does not die between a failed write and the next one that   *)
(* succeeds.                                                               *)
(***************************************************************************)
EXTENDS LastSignGuard, TLAPS

(* A failed write is not followed by a restart from the older file. *)
ASSUME DurableAssumption == FailThenCrash = FALSE

(* The state dominates every signature, and is the one init would read.    *)
Dominates ==
    \A t \in Tuple, p \in Payload :
        <<t, p>> \in signed =>
            Before(t, state.tuple) \/ (t = state.tuple /\ p = state.bytes)

FileIsCurrent == ~failed => file = state

GInv == TypeOK /\ Dominates /\ FileIsCurrent /\ NoDoubleSign

(* Before is a strict order on the tuples of the guard. *)
LEMMA TupleOrder ==
    /\ \A a \in Tuple \cup {<<0, 0, 0>>} : ~Before(a, a)
    /\ \A a, b, c \in Tuple \cup {<<0, 0, 0>>} :
          Before(a, b) /\ Before(b, c) => Before(a, c)
<1>1. \A a \in Tuple \cup {<<0, 0, 0>>} :
          a[1] \in Int /\ a[2] \in Int /\ a[3] \in Int
  BY GuardAssumption DEF Tuple, Proposal, Prevote, Precommit
<1> QED
  BY <1>1 DEF Before

LEMMA RecordedType ==
    ASSUME NEW t \in Tuple, NEW p \in Payload
    PROVE  /\ Recorded(t, p) \in State
           /\ Recorded(t, p).tuple = t /\ Recorded(t, p).bytes = p
BY DEF Recorded, State

(* Recording a later tuple, signed or not, keeps the order.                *)
LEMMA RecordKeeps ==
    ASSUME GInv, NEW t \in Tuple, NEW p \in Payload, Records(state, t),
           state' = Recorded(t, p), signed' \in {signed, signed \cup {<<t, p>>}}
    PROVE  Dominates' /\ NoDoubleSign'
<1>1. state.tuple \in Tuple \cup {<<0, 0, 0>>} /\ Before(state.tuple, t)
  BY DEF GInv, TypeOK, State, Records
<1>2. \A u \in Tuple, q \in Payload : <<u, q>> \in signed => Before(u, t)
  BY <1>1, TupleOrder DEF GInv, Dominates
<1>3. \A q \in Payload : <<t, q>> \notin signed
  BY <1>2, TupleOrder
<1>4. Dominates'
  BY <1>2, RecordedType DEF Dominates
<1>5. NoDoubleSign'
  BY <1>3 DEF GInv, NoDoubleSign
<1> QED
  BY <1>4, <1>5

(* The guard's invariant is inductive.                                     *)
LEMMA GuardStep == GInv /\ [Next]_vars => GInv'
<1> SUFFICES ASSUME GInv, [Next]_vars PROVE GInv'
  OBVIOUS
<1> USE GuardAssumption
<1>1. ASSUME NEW t \in Tuple, NEW p \in Payload, Replay(t, p) PROVE GInv'
  <2>1. state' = state /\ file' = file /\ failed' = failed /\ signed' = signed \cup {<<t, p>>}
        /\ t = state.tuple /\ p = state.bytes
    BY <1>1 DEF Replay, Replays
  <2>2. TypeOK' /\ FileIsCurrent'
    BY <2>1 DEF GInv, TypeOK, FileIsCurrent
  <2>3. Dominates'
    BY <2>1 DEF GInv, Dominates
  <2>4. \A q \in Payload : <<t, q>> \in signed => q = p
    BY <2>1, TupleOrder DEF GInv, Dominates
  <2>5. NoDoubleSign'
    BY <2>1, <2>4 DEF GInv, NoDoubleSign
  <2> QED
    BY <2>2, <2>3, <2>5 DEF GInv
<1>2. ASSUME NEW t \in Tuple, NEW p \in Payload, Record(t, p) PROVE GInv'
  <2>1. Dominates' /\ NoDoubleSign'
    BY <1>2, RecordKeeps DEF Record
  <2>2. failed' \in BOOLEAN
    BY <1>2 DEF Record
  <2>3. TypeOK'
    BY <1>2, <2>2, RecordedType DEF Record, GInv, TypeOK
  <2>4. FileIsCurrent'
    BY <1>2, Zenon DEF Record, FileIsCurrent
  <2> QED
    BY <2>1, <2>3, <2>4 DEF GInv
<1>3. ASSUME NEW t \in Tuple, NEW p \in Payload, PersistFails(t, p) PROVE GInv'
  <2>1. Dominates' /\ NoDoubleSign'
    BY <1>3, RecordKeeps DEF PersistFails
  <2>2. failed' \in BOOLEAN
    BY <1>3 DEF PersistFails
  <2>3. TypeOK'
    BY <1>3, <2>2, RecordedType DEF PersistFails, GInv, TypeOK
  <2>4. FileIsCurrent'
    BY <1>3, Zenon DEF PersistFails, FileIsCurrent
  <2> QED
    BY <2>1, <2>3, <2>4 DEF GInv
<1>4. ASSUME NEW t \in Tuple, NEW p \in Payload, CrashAfterWrite(t, p) PROVE GInv'
  <2>1. Dominates' /\ NoDoubleSign'
    BY <1>4, RecordKeeps DEF CrashAfterWrite
  <2>2. failed' \in BOOLEAN
    BY <1>4 DEF CrashAfterWrite
  <2>3. TypeOK'
    BY <1>4, <2>2, RecordedType DEF CrashAfterWrite, GInv, TypeOK
  <2>4. FileIsCurrent'
    BY <1>4, Zenon DEF CrashAfterWrite, FileIsCurrent
  <2> QED
    BY <2>1, <2>3, <2>4 DEF GInv
<1>5. CASE Crash
  <2>1. UNCHANGED vars
    BY <1>5, DurableAssumption DEF Crash, GInv, TypeOK, FileIsCurrent, vars
  <2> QED
    BY <2>1 DEF vars, GInv, TypeOK, Dominates, FileIsCurrent, NoDoubleSign
<1>6. CASE UNCHANGED vars
  BY <1>6 DEF vars, GInv, TypeOK, Dominates, FileIsCurrent, NoDoubleSign
<1> QED
  BY <1>1, <1>2, <1>3, <1>4, <1>5, <1>6 DEF Next

(* The invariant holds in every reachable state.                           *)
THEOREM GuardInvariance == Spec => []GInv
<1>1. Init => GInv
  <2> SUFFICES ASSUME Init PROVE GInv
    OBVIOUS
  <2>1. failed \in BOOLEAN
    BY DEF Init
  <2>2. TypeOK
    BY <2>1, GuardAssumption DEF Init, TypeOK, Default, Recorded, State
  <2>3. Dominates /\ NoDoubleSign
    BY DEF Init, Dominates, NoDoubleSign
  <2>4. FileIsCurrent
    BY DEF Init, FileIsCurrent
  <2> QED
    BY <2>2, <2>3, <2>4 DEF GInv
<1> QED
  BY <1>1, GuardStep, PTL DEF Spec

(* No tuple is signed for two payloads, across any number of restarts.     *)
THEOREM SignsOnce == Spec => []NoDoubleSign
<1>1. GInv => NoDoubleSign
  BY DEF GInv
<1> QED
  BY <1>1, GuardInvariance, PTL

(* Each new signature is later than all the ones before it.                *)
THEOREM SignsInOrder == Spec => SignsForward
<1> DEFINE Fwd == \A a \in signed' \ signed, b \in signed : Before(b[1], a[1])
<1>1. GInv /\ [Next]_vars => [Fwd]_vars
  <2> SUFFICES ASSUME GInv, Next, NEW a \in signed' \ signed, NEW b \in signed
               PROVE  Before(b[1], a[1])
    OBVIOUS
  <2>1. b \in Tuple \X Payload /\ b = <<b[1], b[2]>>
    BY DEF GInv, TypeOK
  <2>2. b[1] \in Tuple /\ (Before(b[1], state.tuple) \/ b = <<state.tuple, state.bytes>>)
    BY <2>1 DEF GInv, Dominates
  <2>3. PICK t \in Tuple, p \in Payload : Replay(t, p) \/ Record(t, p)
    BY DEF Next, Replay, Record, PersistFails, CrashAfterWrite, Crash
  <2>4. a = <<t, p>>
    BY <2>3 DEF Replay, Record
  <2>5. CASE Replay(t, p)
    BY <2>2, <2>4, <2>5 DEF Replay, Replays
  <2>6. CASE Record(t, p)
    <3>1. Before(state.tuple, t) /\ state.tuple \in Tuple \cup {<<0, 0, 0>>}
      BY <2>6 DEF Record, Records, GInv, TypeOK, State
    <3> QED
      BY <2>2, <2>4, <3>1, TupleOrder
  <2> QED
    BY <2>3, <2>5, <2>6
<1> QED
  BY <1>1, GuardInvariance, PTL DEF Spec, SignsForward

(* What was signed is on disk, unless the last write failed.               *)
THEOREM SignsDurably == Spec => []SignedIsOnDisk
<1>1. GInv => SignedIsOnDisk
  <2> SUFFICES ASSUME GInv, ~failed, NEW a \in signed
               PROVE  a[1] = file.tuple \/ Before(a[1], file.tuple)
    BY DEF SignedIsOnDisk
  <2>1. file = state
    BY DEF GInv, FileIsCurrent
  <2>2. a \in Tuple \X Payload /\ a = <<a[1], a[2]>>
    BY DEF GInv, TypeOK
  <2>3. Before(a[1], state.tuple) \/ a[1] = state.tuple
    BY <2>2 DEF GInv, Dominates
  <2> QED
    BY <2>1, <2>3
<1> QED
  BY <1>1, GuardInvariance, PTL
=============================================================================
