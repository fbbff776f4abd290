------------------------- MODULE ControlStoreProofs -------------------------
(***************************************************************************)
(* Theorems about ControlStore, for every value of its constants.          *)
(***************************************************************************)
EXTENDS ControlStore, TLAPS

-----------------------------------------------------------------------------
(* The rows the pure functions of OperationState compute.                   *)

(* A transition is possible only from a row, and yields the row that        *)
(* differs from it in the state, the revision and the active attempt.       *)
LEMMA TransitionRow ==
  ASSUME NEW row \in OpRows \cup {NoOp}, NEW rev, NEW to,
         CanTransition(row, rev, to)
  PROVE  /\ row \in OpRows
         /\ row.rev + 1 \in 1..MaxInt64
         /\ to \in OperationStates
         /\ Transition(row, to) \in OpRows
         /\ Transition(row, to).desc = row.desc
         /\ Transition(row, to).state = to
         /\ Transition(row, to).rev = row.rev + 1
         /\ Transition(row, to).gen = row.gen
         /\ Transition(row, to).active =
              IF to \in {"ready", "succeeded", "failed", "cancelled"}
                THEN NoID ELSE row.active
<1>1. row \in OpRows
  BY DEF CanTransition, NoOp
<1>2. to \in OperationStates
  BY DEF CanTransition, AllowedTransitions, OperationStates
<1>3. row.rev + 1 \in 1..MaxInt64
  BY <1>1, MaxInt64Assumption DEF CanTransition, OpRows
<1>. QED
  BY <1>1, <1>2, <1>3 DEF Transition, OpRows

LEMMA StartedRow ==
  ASSUME NEW row \in OpRows \cup {NoOp}, NEW rev, NEW a \in Attempts,
         CanStartAttempt(row, rev, a)
  PROVE  /\ row \in OpRows
         /\ row.state = "ready"
         /\ row.gen + 1 \in 1..MaxInt64
         /\ StartedOperation(row, a) \in OpRows
         /\ StartedOperation(row, a).desc = row.desc
         /\ StartedOperation(row, a).state = "executing"
         /\ StartedOperation(row, a).rev = row.rev + 1
         /\ StartedOperation(row, a).gen = row.gen + 1
         /\ StartedOperation(row, a).active = a
<1>1. CanTransition(row, rev, "executing")
  BY DEF CanStartAttempt
<1>2. /\ row \in OpRows
      /\ Transition(row, "executing") \in OpRows
      /\ Transition(row, "executing").desc = row.desc
      /\ Transition(row, "executing").state = "executing"
      /\ Transition(row, "executing").rev = row.rev + 1
  BY <1>1, TransitionRow
<1>3. row.state = "ready"
  BY <1>1 DEF CanTransition, AllowedTransitions
<1>4. row.gen + 1 \in 1..MaxInt64
  BY <1>2, MaxInt64Assumption DEF CanStartAttempt, OpRows
<1>. DEFINE moved == Transition(row, "executing")
<1>5. StartedOperation(row, a) = [moved EXCEPT !.gen = row.gen + 1, !.active = a]
  BY DEF StartedOperation
<1>6. /\ row \in OpRows
      /\ moved \in OpRows
      /\ moved.desc = row.desc
      /\ moved.state = "executing"
      /\ moved.rev = row.rev + 1
  BY <1>2
<1>7. row.gen + 1 \in 0..MaxInt64
  BY <1>4, MaxInt64Assumption
<1>. HIDE DEF moved
<1>8. StartedOperation(row, a) \in OpRows
  BY <1>5, <1>6, <1>7 DEF OpRows
<1>. QED
  BY <1>3, <1>4, <1>5, <1>6, <1>8 DEF OpRows

LEMMA LostRow ==
  ASSUME NEW row \in OpRows \cup {NoOp}, NEW rev,
         CanLoseExecutionCertainty(row, rev)
  PROVE  /\ row \in OpRows
         /\ LoseExecutionCertainty(row) \in OpRows
         /\ LoseExecutionCertainty(row).desc = row.desc
         /\ LoseExecutionCertainty(row).state = "unknown_outcome"
         /\ LoseExecutionCertainty(row).rev = row.rev + 1
         /\ LoseExecutionCertainty(row).gen = row.gen
         /\ LoseExecutionCertainty(row).active = row.active
         /\ row.state \in InFlightStates
<1>1. CASE row.state # "unknown_outcome"
  <2>1. CanTransition(row, rev, "unknown_outcome")
    BY <1>1 DEF CanLoseExecutionCertainty
  <2>2. row.state \in InFlightStates
    BY <2>1 DEF CanTransition, AllowedTransitions, InFlightStates
  <2>. QED
    BY <1>1, <2>1, <2>2, TransitionRow DEF LoseExecutionCertainty
<1>2. CASE row.state = "unknown_outcome"
  <2>1. row \in OpRows
    BY <1>2 DEF NoOp
  <2>2. row.rev + 1 \in 1..MaxInt64
    BY <1>2, <2>1, MaxInt64Assumption DEF CanLoseExecutionCertainty, OpRows
  <2>. QED
    BY <1>2, <2>1, <2>2 DEF LoseExecutionCertainty, OpRows, InFlightStates
<1>. QED
  BY <1>1, <1>2
-----------------------------------------------------------------------------
(* The inductive invariant.  TypeOK alone is not inductive: a transition    *)
(* writes the row of the active attempt, so it matters that there is one.   *)
(* And a scope can only be shown free of other holders when its reservation *)
(* is known to name the active attempt of the one operation that holds it.  *)

ActiveAttemptLinked ==
  \A o \in Ops :
    /\ op[o].active # NoID <=> op[o].state \in InFlightStates
    /\ op[o].active # NoID => /\ attempt[op[o].active].op = o
                              /\ attempt[op[o].active].gen = op[o].gen

TaskOfOperation == \A o \in Ops : op[o] # NoOp => task[op[o].desc.task] # NoTask

ReservationFor(o) ==
  [op |-> o, attempt |-> op[o].active,
   lease |-> attempt[op[o].active].lease, gen |-> op[o].gen]

HoldersReserved ==
  \A o \in Ops : HoldsConflictReservation(op[o]) =>
    \A s \in op[o].desc.scopes : reservation[s] = ReservationFor(o)

ReservationsHeld ==
  \A s \in Scopes : reservation[s] # NoReservation =>
    LET o == reservation[s].op IN
    HoldsConflictReservation(op[o]) /\ s \in op[o].desc.scopes

IInv ==
  /\ TypeOK
  /\ ActiveAttemptLinked
  /\ TaskOfOperation
  /\ HoldersReserved
  /\ ReservationsHeld

(* What IInv says of one operation and its active attempt.                  *)
LEMMA ActiveAttemptRow ==
  ASSUME IInv, NEW o \in Ops, op[o].active # NoID
  PROVE  /\ op[o] \in OpRows
         /\ op[o].active \in Attempts
         /\ attempt[op[o].active] \in AttemptRows
<1>1. op[o] \in OpRows
  BY DEF IInv, TypeOK, NoOp
<1>2. op[o].active \in Attempts
  BY <1>1 DEF OpRows
<1>3. attempt[op[o].active].op = o
  BY DEF IInv, ActiveAttemptLinked
<1>. QED
  BY <1>1, <1>2, <1>3, IdentifierAssumption DEF IInv, TypeOK, NoAttempt

(* An operation row belongs to a descriptor whose scopes are scopes.        *)
LEMMA DescriptorTyped ==
  ASSUME NEW d \in Descriptors
  PROVE  d.id \in Ops /\ d.task \in Tasks /\ d.scopes \subseteq Scopes
BY InputAssumption

(* A reservation is in the name of an operation with a row.                 *)
LEMMA ReservationOwner ==
  ASSUME IInv, NEW s \in Scopes, reservation[s] # NoReservation
  PROVE  /\ reservation[s] \in ReservationRows
         /\ reservation[s].op \in Ops
         /\ op[reservation[s].op] \in OpRows
         /\ op[reservation[s].op].state \in InFlightStates
         /\ reservation[s] = ReservationFor(reservation[s].op)
<1>1. reservation[s] \in ReservationRows
  BY DEF IInv, TypeOK
<1>2. reservation[s].op \in Ops
  BY <1>1 DEF ReservationRows
<1>3. op[reservation[s].op].state \in InFlightStates
  BY DEF IInv, ReservationsHeld, HoldsConflictReservation
<1>4. op[reservation[s].op] \in OpRows
  BY <1>2, <1>3 DEF IInv, TypeOK, NoOp, InFlightStates
<1>5. reservation[s] = ReservationFor(reservation[s].op)
  BY <1>2 DEF IInv, ReservationsHeld, HoldersReserved
<1>. QED
  BY <1>1, <1>2, <1>3, <1>4, <1>5

-----------------------------------------------------------------------------
(* MoveOperation, which every transition but the first of an attempt and a  *)
(* revocation goes through, preserves the invariant of the tables it        *)
(* writes.                                                                  *)
LEMMA MovePreserves ==
  ASSUME IInv, NEW o \in Ops, NEW rev, NEW to, NEW mark \in AttemptStates \cup {KeepState},
         to # "executing", MoveOperation(o, rev, to, mark), UNCHANGED task
  PROVE  /\ op' \in [Ops -> OpRows \cup {NoOp}]
         /\ attempt' \in [Attempts -> AttemptRows \cup {NoAttempt}]
         /\ reservation' \in [Scopes -> ReservationRows \cup {NoReservation}]
         /\ ActiveAttemptLinked'
         /\ TaskOfOperation'
         /\ HoldersReserved'
         /\ ReservationsHeld'
<1>. DEFINE row == Transition(op[o], to)
<1>1. /\ CanTransition(op[o], rev, to)
      /\ op' = [op EXCEPT ![o] = row]
      /\ attempt' = [a \in Attempts |->
                       IF a = op[o].active /\ mark # KeepState
                         THEN [attempt[a] EXCEPT !.state = mark]
                         ELSE attempt[a]]
      /\ reservation' = IF HoldsConflictReservation(row)
                          THEN reservation ELSE Released(o)
  BY DEF MoveOperation
<1>2. op[o] \in OpRows \cup {NoOp}
  BY DEF IInv, TypeOK
<1>3. /\ op[o] \in OpRows
      /\ row \in OpRows
      /\ row.desc = op[o].desc
      /\ row.state = to
      /\ row.gen = op[o].gen
      /\ row.active = IF to \in {"ready", "succeeded", "failed", "cancelled"}
                        THEN NoID ELSE op[o].active
  <2>1. CanTransition(op[o], rev, to)
    BY <1>1
  <2>2. /\ op[o] \in OpRows
        /\ row \in OpRows
        /\ row.desc = op[o].desc
        /\ row.state = to
        /\ row.gen = op[o].gen
    BY <1>2, <2>1, TransitionRow
  <2>3. row.active = IF to \in {"ready", "succeeded", "failed", "cancelled"}
                       THEN NoID ELSE op[o].active
    BY <1>2, <2>1, TransitionRow
  <2>. QED
    BY <2>2, <2>3
<1>4. <<op[o].state, to>> \in AllowedTransitions
  BY <1>1 DEF CanTransition
<1>. HIDE DEF row
<1>5. to \in InFlightStates => op[o].state \in InFlightStates
  BY <1>4 DEF AllowedTransitions, InFlightStates
<1>6. to \in InFlightStates <=> to \notin {"ready", "succeeded", "failed", "cancelled"}
  BY <1>4 DEF AllowedTransitions, InFlightStates
<1>7. op' \in [Ops -> OpRows \cup {NoOp}]
  BY <1>1, <1>3 DEF IInv, TypeOK
<1>8. \A a \in Attempts :
        /\ attempt'[a] \in AttemptRows \cup {NoAttempt}
        /\ attempt'[a].op = attempt[a].op
        /\ attempt'[a].gen = attempt[a].gen
        /\ attempt'[a].lease = attempt[a].lease
  <2>. TAKE a \in Attempts
  <2>1. CASE a = op[o].active /\ mark # KeepState
    <3>1. attempt[a] \in AttemptRows
      BY <2>1, IdentifierAssumption, ActiveAttemptRow
    <3>2. attempt'[a] = [attempt[a] EXCEPT !.state = mark]
      BY <1>1, <2>1
    <3>. QED
      BY <2>1, <3>1, <3>2 DEF AttemptRows
  <2>2. CASE ~(a = op[o].active /\ mark # KeepState)
    <3>1. attempt'[a] = attempt[a]
      BY <1>1, <2>2
    <3>. QED
      BY <3>1 DEF IInv, TypeOK
  <2>. QED
    BY <2>1, <2>2
<1>9. attempt' \in [Attempts -> AttemptRows \cup {NoAttempt}]
  BY <1>1, <1>8
<1>10. reservation' \in [Scopes -> ReservationRows \cup {NoReservation}]
  BY <1>1 DEF IInv, TypeOK, Released
<1>11. ActiveAttemptLinked'
  <2>. SUFFICES ASSUME NEW x \in Ops
                PROVE  /\ op'[x].active # NoID <=> op'[x].state \in InFlightStates
                       /\ op'[x].active # NoID =>
                            /\ attempt'[op'[x].active].op = x
                            /\ attempt'[op'[x].active].gen = op'[x].gen
    BY DEF ActiveAttemptLinked
  <2>0. /\ op[x].active # NoID <=> op[x].state \in InFlightStates
        /\ op[x].active # NoID =>
             /\ op[x].active \in Attempts
             /\ attempt[op[x].active].op = x
             /\ attempt[op[x].active].gen = op[x].gen
    BY ActiveAttemptRow DEF IInv, ActiveAttemptLinked
  <2>1. CASE x = o
    <3>1. op'[x] = row
      BY <1>1, <2>1 DEF IInv, TypeOK
    <3>2. op'[x].active # NoID <=> op'[x].state \in InFlightStates
      BY <1>3, <1>5, <1>6, <2>0, <2>1, <3>1
    <3>3. op'[x].active # NoID => op'[x].active = op[x].active
      BY <1>3, <2>1, <3>1
    <3>. QED
      BY <1>3, <1>8, <2>0, <2>1, <3>1, <3>2, <3>3
  <2>2. CASE x # o
    <3>1. op'[x] = op[x]
      BY <1>1, <2>2 DEF IInv, TypeOK
    <3>. QED
      BY <1>8, <2>0, <3>1
  <2>. QED
    BY <2>1, <2>2
<1>12. TaskOfOperation'
  <2>. SUFFICES ASSUME NEW x \in Ops, op'[x] # NoOp
                PROVE  task[op'[x].desc.task] # NoTask
    BY DEF TaskOfOperation
  <2>1. op[x] # NoOp /\ op'[x].desc = op[x].desc
    <3>1. CASE x = o
      <4>1. op'[x] = row
        BY <1>1, <3>1 DEF IInv, TypeOK
      <4>2. op[o].state # "absent"
        BY <1>3 DEF OpRows, OperationStates
      <4>3. op[x] # NoOp
        BY <3>1, <4>2 DEF NoOp
      <4>. QED
        BY <1>3, <3>1, <4>1, <4>3
    <3>2. CASE x # o
      BY <1>1, <3>2 DEF IInv, TypeOK
    <3>. QED
      BY <3>1, <3>2
  <2>. QED
    BY <2>1 DEF IInv, TaskOfOperation
<1>13. HoldersReserved'
  <2>. SUFFICES ASSUME NEW x \in Ops, HoldsConflictReservation(op'[x]),
                       NEW s \in op'[x].desc.scopes
                PROVE  reservation'[s] =
                         [op |-> x, attempt |-> op'[x].active,
                          lease |-> attempt'[op'[x].active].lease,
                          gen |-> op'[x].gen]
    BY DEF HoldersReserved, ReservationFor
  <2>1. op'[x].desc = op[x].desc /\ op'[x].gen = op[x].gen
    BY <1>1, <1>3 DEF IInv, TypeOK
  <2>2. HoldsConflictReservation(op[x]) /\ op'[x].active = op[x].active
    BY <1>1, <1>3, <1>5, <1>6, <2>1 DEF IInv, TypeOK, HoldsConflictReservation
  <2>3. /\ op[x].active # NoID
        /\ op[x].active \in Attempts
        /\ op[x] \in OpRows
    BY <2>2, ActiveAttemptRow DEF IInv, ActiveAttemptLinked, HoldsConflictReservation
  <2>4. s \in Scopes
    BY <2>1, <2>3, DescriptorTyped DEF OpRows
  <2>5. reservation[s] = ReservationFor(x)
    BY <2>1, <2>2 DEF IInv, HoldersReserved
  <2>6. reservation'[s] = reservation[s]
    <3>1. CASE x = o
      <4>1. op'[x] = row
        BY <1>1, <3>1 DEF IInv, TypeOK
      <4>. QED
        BY <1>1, <4>1
    <3>2. CASE x # o
      <4>1. reservation[s].op = x
        BY <2>5 DEF ReservationFor
      <4>2. Released(o)[s] = reservation[s]
        BY <2>4, <3>2, <4>1 DEF Released
      <4>. QED
        BY <1>1, <4>2
    <3>. QED
      BY <3>1, <3>2
  <2>7. attempt'[op'[x].active].lease = attempt[op[x].active].lease
    BY <1>8, <2>2, <2>3
  <2>. QED
    BY <2>1, <2>2, <2>5, <2>6, <2>7 DEF ReservationFor
<1>14. ReservationsHeld'
  <2>. SUFFICES ASSUME NEW s \in Scopes, reservation'[s] # NoReservation
                PROVE  /\ HoldsConflictReservation(op'[reservation'[s].op])
                       /\ s \in op'[reservation'[s].op].desc.scopes
    BY DEF ReservationsHeld
  <2>1. reservation'[s] = reservation[s] /\ reservation[s] # NoReservation
    BY <1>1 DEF Released
  <2>. DEFINE x == reservation[s].op
  <2>2. /\ x \in Ops
        /\ HoldsConflictReservation(op[x])
        /\ s \in op[x].desc.scopes
    BY <2>1, ReservationOwner DEF IInv, ReservationsHeld
  <2>3. CASE x = o
    <3>1. HoldsConflictReservation(row)
      BY <1>1, <2>1, <2>3 DEF Released
    <3>2. op'[x] = row
      BY <1>1, <2>3 DEF IInv, TypeOK
    <3>. QED
      BY <1>3, <2>1, <2>2, <2>3, <3>1, <3>2
  <2>4. CASE x # o
    <3>1. op'[x] = op[x]
      BY <1>1, <2>2, <2>4 DEF IInv, TypeOK
    <3>. QED
      BY <2>1, <2>2, <3>1
  <2>. QED
    BY <2>3, <2>4
<1>. QED
  BY <1>7, <1>9, <1>10, <1>11, <1>12, <1>13, <1>14
-----------------------------------------------------------------------------
(* Calls that leave operations, attempts and reservations alone keep what   *)
(* relates them, as long as no task loses its row.                          *)
LEMMA UntouchedLinks ==
  ASSUME IInv, UNCHANGED <<op, attempt, reservation>>,
         \A t \in Tasks : task[t] # NoTask => task'[t] # NoTask
  PROVE  ActiveAttemptLinked' /\ TaskOfOperation' /\ HoldersReserved' /\ ReservationsHeld'
<1>1. ActiveAttemptLinked'
  BY DEF IInv, ActiveAttemptLinked
<1>2. TaskOfOperation'
  <2>. SUFFICES ASSUME NEW o \in Ops, op[o] # NoOp
                PROVE  task'[op[o].desc.task] # NoTask
    BY DEF TaskOfOperation
  <2>1. op[o].desc.task \in Tasks
    BY DescriptorTyped DEF IInv, TypeOK, OpRows
  <2>. QED
    BY <2>1 DEF IInv, TaskOfOperation
<1>3. HoldersReserved'
  BY DEF IInv, HoldersReserved, ReservationFor
<1>4. ReservationsHeld'
  BY DEF IInv, ReservationsHeld
<1>. QED
  BY <1>1, <1>2, <1>3, <1>4

LEMMA EvidenceTyped ==
  ASSUME IInv, NEW e \in EvidenceIds, NEW o \in Ops, NEW a \in Attempts \cup {NoID},
         NEW k \in EvidenceKinds, AddEvidence(e, o, a, k)
  PROVE  evidence' \in [EvidenceIds -> EvidenceRows \cup {NoEvidence}]
BY DEF IInv, TypeOK, AddEvidence, EvidenceRows

LEMMA InitInvariant == Init => IInv
<1>. SUFFICES ASSUME Init PROVE IInv
  OBVIOUS
<1>1. TypeOK
  BY DEF Init, TypeOK
<1>2. \A o \in Ops : op[o] = NoOp /\ op[o].active = NoID /\ op[o].state = "absent"
  BY DEF Init, NoOp
<1>3. ActiveAttemptLinked
  BY <1>2 DEF ActiveAttemptLinked, InFlightStates
<1>4. TaskOfOperation
  BY <1>2 DEF TaskOfOperation
<1>5. HoldersReserved
  BY <1>2 DEF HoldersReserved, HoldsConflictReservation, InFlightStates
<1>6. ReservationsHeld
  BY DEF Init, ReservationsHeld
<1>. QED
  BY <1>1, <1>3, <1>4, <1>5, <1>6 DEF IInv

-----------------------------------------------------------------------------
(* One lemma per action.                                                    *)
LEMMA CreateTaskInvariant ==
  ASSUME IInv, NEW t \in Tasks, CreateTask(t)
  PROVE  IInv'
<1>1. [state |-> "planned", rev |-> 1] \in TaskRows
  BY MaxInt64Assumption DEF TaskRows, TaskStates
<1>2. task' \in [Tasks -> TaskRows \cup {NoTask}]
  BY <1>1 DEF CreateTask, IInv, TypeOK
<1>3. \A x \in Tasks : task[x] # NoTask => task'[x] # NoTask
  BY DEF CreateTask, IInv, TypeOK
<1>4. TypeOK'
  BY <1>2 DEF CreateTask, IInv, TypeOK
<1>. QED
  BY <1>3, <1>4, UntouchedLinks DEF CreateTask, IInv

LEMMA CreateOperationInvariant ==
  ASSUME IInv, NEW d \in Descriptors, CreateOperation(d)
  PROVE  IInv'
<1>. DEFINE row == [desc |-> d, state |-> "planned", rev |-> 1, gen |-> 0,
                    active |-> NoID]
<1>1. d.id \in Ops /\ d.task \in Tasks
  BY DescriptorTyped
<1>2. /\ op[d.id] = NoOp
      /\ task[d.task] # NoTask
      /\ op' = [op EXCEPT ![d.id] = row]
      /\ UNCHANGED <<task, attempt, evidence, verification, revocation, reservation>>
  BY DEF CreateOperation
<1>3. row \in OpRows
  BY MaxInt64Assumption DEF OpRows, OperationStates
<1>4. row.active = NoID /\ row.state \notin InFlightStates /\ row.desc = d
  BY DEF InFlightStates
<1>. HIDE DEF row
<1>5. /\ op'[d.id] = row
      /\ \A x \in Ops : x # d.id => op'[x] = op[x]
  BY <1>1, <1>2 DEF IInv, TypeOK
<1>6. TypeOK'
  BY <1>2, <1>3 DEF IInv, TypeOK
<1>7. ActiveAttemptLinked'
  BY <1>2, <1>4, <1>5 DEF IInv, ActiveAttemptLinked
<1>8. TaskOfOperation'
  BY <1>2, <1>4, <1>5 DEF IInv, TaskOfOperation
<1>9. HoldersReserved'
  BY <1>2, <1>4, <1>5 DEF IInv, HoldersReserved, ReservationFor, HoldsConflictReservation
<1>10. ReservationsHeld'
  <2>. SUFFICES ASSUME NEW s \in Scopes, reservation[s] # NoReservation
                PROVE  /\ HoldsConflictReservation(op'[reservation[s].op])
                       /\ s \in op'[reservation[s].op].desc.scopes
    BY <1>2 DEF ReservationsHeld
  <2>1. reservation[s].op \in Ops /\ op[reservation[s].op].state \in InFlightStates
    BY ReservationOwner
  <2>2. reservation[s].op # d.id
    BY <1>2, <2>1 DEF NoOp, InFlightStates
  <2>. QED
    BY <1>5, <2>1, <2>2 DEF IInv, ReservationsHeld
<1>. QED
  BY <1>6, <1>7, <1>8, <1>9, <1>10 DEF IInv

LEMMA MarkReadyInvariant ==
  ASSUME IInv, NEW o \in Ops, NEW rev, MarkReady(o, rev)
  PROVE  IInv'
<1>1. /\ MoveOperation(o, rev, "ready", KeepState)
      /\ UNCHANGED <<task, evidence, verification, revocation>>
  BY DEF MarkReady
<1>2. /\ op' \in [Ops -> OpRows \cup {NoOp}]
      /\ attempt' \in [Attempts -> AttemptRows \cup {NoAttempt}]
      /\ reservation' \in [Scopes -> ReservationRows \cup {NoReservation}]
      /\ ActiveAttemptLinked' /\ TaskOfOperation' /\ HoldersReserved' /\ ReservationsHeld'
  BY <1>1, MovePreserves
<1>. QED
  BY <1>1, <1>2 DEF IInv, TypeOK

LEMMA BeginVerificationInvariant ==
  ASSUME IInv, NEW o \in Ops, NEW rev, BeginVerification(o, rev)
  PROVE  IInv'
<1>. DEFINE mark == IF op[o].state = "executing" THEN "reported" ELSE KeepState
<1>1. /\ MoveOperation(o, rev, "verifying", mark)
      /\ UNCHANGED <<task, evidence, verification, revocation>>
  BY DEF BeginVerification
<1>2. mark \in AttemptStates \cup {KeepState}
  BY DEF AttemptStates
<1>. HIDE DEF mark
<1>3. /\ op' \in [Ops -> OpRows \cup {NoOp}]
      /\ attempt' \in [Attempts -> AttemptRows \cup {NoAttempt}]
      /\ reservation' \in [Scopes -> ReservationRows \cup {NoReservation}]
      /\ ActiveAttemptLinked' /\ TaskOfOperation' /\ HoldersReserved' /\ ReservationsHeld'
  BY <1>1, <1>2, MovePreserves
<1>. QED
  BY <1>1, <1>3 DEF IInv, TypeOK

LEMMA MarkUnknownOutcomeInvariant ==
  ASSUME IInv, NEW o \in Ops, NEW rev, MarkUnknownOutcome(o, rev)
  PROVE  IInv'
<1>1. /\ MoveOperation(o, rev, "unknown_outcome", "uncertain")
      /\ UNCHANGED <<task, evidence, verification, revocation>>
  BY DEF MarkUnknownOutcome
<1>2. "uncertain" \in AttemptStates
  BY DEF AttemptStates
<1>3. /\ op' \in [Ops -> OpRows \cup {NoOp}]
      /\ attempt' \in [Attempts -> AttemptRows \cup {NoAttempt}]
      /\ reservation' \in [Scopes -> ReservationRows \cup {NoReservation}]
      /\ ActiveAttemptLinked' /\ TaskOfOperation' /\ HoldersReserved' /\ ReservationsHeld'
  BY <1>1, <1>2, MovePreserves
<1>. QED
  BY <1>1, <1>3 DEF IInv, TypeOK

LEMMA RegisterEvidenceInvariant ==
  ASSUME IInv, NEW e \in EvidenceIds, NEW o \in Ops, NEW a \in Attempts \cup {NoID},
         NEW k \in EvidenceKinds, RegisterEvidence(e, o, a, k)
  PROVE  IInv'
<1>1. evidence' \in [EvidenceIds -> EvidenceRows \cup {NoEvidence}]
  BY EvidenceTyped DEF RegisterEvidence
<1>2. TypeOK'
  BY <1>1 DEF RegisterEvidence, IInv, TypeOK
<1>. QED
  BY <1>2, UntouchedLinks DEF RegisterEvidence, IInv

LEMMA RecordWorkerReportInvariant ==
  ASSUME IInv, NEW e \in EvidenceIds, NEW a \in Attempts, NEW inTime \in BOOLEAN,
         RecordWorkerReport(e, a, inTime)
  PROVE  IInv'
<1>. DEFINE o == attempt[a].op
<1>1. o \in Ops
  BY DEF RecordWorkerReport, IInv, TypeOK, AttemptRows
<1>2. evidence' \in [EvidenceIds -> EvidenceRows \cup {NoEvidence}]
  <2>1. AddEvidence(e, o, a, WorkerReportKind) /\ WorkerReportKind \in EvidenceKinds
    BY DEF RecordWorkerReport, EvidenceKinds
  <2>. QED
    BY <1>1, <2>1, EvidenceTyped
<1>3. UNCHANGED <<task, verification, revocation>>
  BY DEF RecordWorkerReport
<1>4. CASE MoveOperation(o, op[o].rev, "verifying", "reported")
  <2>1. "reported" \in AttemptStates
    BY DEF AttemptStates
  <2>2. /\ op' \in [Ops -> OpRows \cup {NoOp}]
        /\ attempt' \in [Attempts -> AttemptRows \cup {NoAttempt}]
        /\ reservation' \in [Scopes -> ReservationRows \cup {NoReservation}]
        /\ ActiveAttemptLinked' /\ TaskOfOperation' /\ HoldersReserved' /\ ReservationsHeld'
    BY <1>1, <1>3, <1>4, <2>1, MovePreserves
  <2>. QED
    BY <1>2, <1>3, <2>2 DEF IInv, TypeOK
<1>5. CASE UNCHANGED <<op, attempt, reservation>>
  <2>1. TypeOK'
    BY <1>2, <1>3, <1>5 DEF IInv, TypeOK
  <2>. QED
    BY <1>3, <1>5, <2>1, UntouchedLinks DEF IInv
<1>. QED
  BY <1>4, <1>5 DEF RecordWorkerReport

LEMMA ApplyInvariant ==
  ASSUME IInv, NEW o \in Ops, NEW rev, NEW v \in VerificationIds, NEW a \in Attempts,
         NEW cited \in SUBSET EvidenceIds, NEW verdict \in Verdicts,
         NEW safe \in BOOLEAN, NEW notStarted \in BOOLEAN,
         Apply(o, rev, v, a, cited, verdict, safe, notStarted)
  PROVE  IInv'
<1>. DEFINE to == VerdictState[verdict]
            mark == VerdictAttemptState(verdict, notStarted)
            row == [op |-> o, attempt |-> a, evidence |-> cited,
                    verdict |-> verdict, safe |-> safe]
<1>1. /\ MoveOperation(o, rev, to, mark)
      /\ verification' = [verification EXCEPT ![v] = row]
      /\ UNCHANGED <<task, evidence, revocation>>
  BY DEF Apply
<1>2. mark \in AttemptStates \cup {KeepState}
  BY DEF AttemptStates, VerdictAttemptState
<1>3. to # "executing"
  BY DEF Verdicts, VerdictState
<1>4. row \in VerificationRows
  BY DEF VerificationRows
<1>. HIDE DEF to, mark, row
<1>5. verification' \in [VerificationIds -> VerificationRows \cup {NoVerification}]
  BY <1>1, <1>4 DEF IInv, TypeOK
<1>6. /\ op' \in [Ops -> OpRows \cup {NoOp}]
      /\ attempt' \in [Attempts -> AttemptRows \cup {NoAttempt}]
      /\ reservation' \in [Scopes -> ReservationRows \cup {NoReservation}]
      /\ ActiveAttemptLinked' /\ TaskOfOperation' /\ HoldersReserved' /\ ReservationsHeld'
  BY <1>1, <1>2, <1>3, MovePreserves
<1>. QED
  BY <1>1, <1>5, <1>6 DEF IInv, TypeOK

LEMMA FinalizeTaskInvariant ==
  ASSUME IInv, NEW t \in Tasks, NEW rev \in Revisions, FinalizeTask(t, rev)
  PROVE  IInv'
<1>. DEFINE row == [state |-> FinalState(t), rev |-> rev + 1]
<1>1. /\ task' = [task EXCEPT ![t] = row]
      /\ rev < MaxInt64
      /\ UNCHANGED <<op, attempt, evidence, verification, revocation, reservation>>
  BY DEF FinalizeTask
<1>2. row \in TaskRows
  <2>1. FinalState(t) \in TaskStates
    BY DEF FinalState, TaskStates, TerminalTaskStates
  <2>2. rev + 1 \in 1..MaxInt64
    BY <1>1, MaxInt64Assumption DEF Revisions
  <2>. QED
    BY <2>1, <2>2 DEF TaskRows
<1>3. row # NoTask
  BY DEF FinalState, NoTask
<1>. HIDE DEF row
<1>4. TypeOK'
  BY <1>1, <1>2 DEF IInv, TypeOK
<1>5. \A x \in Tasks : task[x] # NoTask => task'[x] # NoTask
  BY <1>1, <1>3 DEF IInv, TypeOK
<1>. QED
  BY <1>1, <1>4, <1>5, UntouchedLinks DEF IInv
(* A grant, with records of it or without.                                  *)
LEMMA GrantInvariant ==
  ASSUME IInv, NEW o \in Ops, NEW rev, NEW a \in Attempts, NEW l \in Leases,
         NEW w \in Actors, NEW retry \in Attempts \cup {NoID},
         Grant(o, rev, a, l, w, retry),
         UNCHANGED <<task, verification, revocation>>,
         evidence' \in [EvidenceIds -> EvidenceRows \cup {NoEvidence}]
  PROVE  IInv'
<1>. DEFINE row == StartedOperation(op[o], a)
            granted == [op |-> o, lease |-> l, gen |-> op[o].gen + 1, owner |-> w,
                        retryOf |-> retry, state |-> "running"]
            taken == op[o].desc.effect = "mutation"
            held == [op |-> o, attempt |-> a, lease |-> l, gen |-> op[o].gen + 1]
<1>1. /\ CanStartAttempt(op[o], rev, a)
      /\ attempt[a] = NoAttempt
      /\ taken => \A s \in op[o].desc.scopes : reservation[s] = NoReservation
      /\ op' = [op EXCEPT ![o] = row]
      /\ attempt' = [attempt EXCEPT ![a] = granted]
      /\ reservation' = [s \in Scopes |->
                           IF taken /\ s \in op[o].desc.scopes
                             THEN held ELSE reservation[s]]
  BY DEF Grant, ReservedFor
<1>2. /\ op[o] \in OpRows
      /\ op[o].state = "ready"
      /\ op[o].gen + 1 \in 1..MaxInt64
      /\ row \in OpRows
      /\ row.desc = op[o].desc
      /\ row.state = "executing"
      /\ row.gen = op[o].gen + 1
      /\ row.active = a
  <2>1. op[o] \in OpRows \cup {NoOp}
    BY DEF IInv, TypeOK
  <2>. QED
    BY <1>1, <2>1, StartedRow
<1>3. /\ granted \in AttemptRows
      /\ granted.op = o
      /\ granted.gen = op[o].gen + 1
      /\ granted.lease = l
  BY <1>2 DEF AttemptRows, AttemptStates
<1>4. held \in ReservationRows /\ held.op = o /\ held # NoReservation
  BY <1>2, IdentifierAssumption DEF ReservationRows, NoReservation
<1>. HIDE DEF row, granted
<1>5. /\ op'[o] = row
      /\ \A x \in Ops : x # o => op'[x] = op[x]
      /\ attempt'[a] = granted
      /\ \A b \in Attempts : b # a => attempt'[b] = attempt[b]
  BY <1>1 DEF IInv, TypeOK
<1>6. \A x \in Ops : op[x].active # NoID => op[x].active \in Attempts /\ op[x].active # a
  <2>. TAKE x \in Ops
  <2>. HAVE op[x].active # NoID
  <2>1. op[x].active \in Attempts /\ attempt[op[x].active].op = x
    BY ActiveAttemptRow DEF IInv, ActiveAttemptLinked
  <2>. QED
    BY <1>1, <2>1, IdentifierAssumption DEF NoAttempt
<1>7. a # NoID
  BY IdentifierAssumption
<1>8. op' \in [Ops -> OpRows \cup {NoOp}]
  BY <1>1, <1>2 DEF IInv, TypeOK
<1>9. attempt' \in [Attempts -> AttemptRows \cup {NoAttempt}]
  BY <1>1, <1>3 DEF IInv, TypeOK
<1>10. reservation' \in [Scopes -> ReservationRows \cup {NoReservation}]
  <2>. HIDE DEF held, taken
  <2>. QED
    BY <1>1, <1>4 DEF IInv, TypeOK
<1>11. TypeOK'
  BY <1>1, <1>8, <1>9, <1>10 DEF IInv, TypeOK
<1>12. ActiveAttemptLinked'
  <2>. SUFFICES ASSUME NEW x \in Ops
                PROVE  /\ op'[x].active # NoID <=> op'[x].state \in InFlightStates
                       /\ op'[x].active # NoID =>
                            /\ attempt'[op'[x].active].op = x
                            /\ attempt'[op'[x].active].gen = op'[x].gen
    BY DEF ActiveAttemptLinked
  <2>1. CASE x = o
    BY <1>2, <1>3, <1>5, <1>7, <2>1 DEF InFlightStates
  <2>2. CASE x # o
    BY <1>5, <1>6, <2>2 DEF IInv, ActiveAttemptLinked
  <2>. QED
    BY <2>1, <2>2
<1>13. TaskOfOperation'
  <2>. SUFFICES ASSUME NEW x \in Ops, op'[x] # NoOp
                PROVE  task[op'[x].desc.task] # NoTask
    BY <1>1 DEF TaskOfOperation
  <2>1. op[o] # NoOp
    BY <1>2 DEF NoOp
  <2>. QED
    BY <1>2, <1>5, <2>1 DEF IInv, TaskOfOperation
<1>14. HoldersReserved'
  <2>. SUFFICES ASSUME NEW x \in Ops, HoldsConflictReservation(op'[x]),
                       NEW s \in op'[x].desc.scopes
                PROVE  reservation'[s] =
                         [op |-> x, attempt |-> op'[x].active,
                          lease |-> attempt'[op'[x].active].lease,
                          gen |-> op'[x].gen]
    BY DEF HoldersReserved, ReservationFor
  <2>1. CASE x = o
    <3>1. taken /\ s \in op[o].desc.scopes
      BY <1>2, <1>5, <2>1 DEF HoldsConflictReservation
    <3>2. s \in Scopes
      BY <1>2, <3>1, DescriptorTyped DEF OpRows
    <3>3. reservation'[s] = held
      BY <1>1, <3>1, <3>2
    <3>. QED
      BY <1>2, <1>3, <1>5, <2>1, <3>3
  <2>2. CASE x # o
    <3>1. op'[x] = op[x]
      BY <1>5, <2>2
    <3>2. reservation[s] = ReservationFor(x) /\ op[x].active # NoID
      BY <3>1 DEF IInv, HoldersReserved, ActiveAttemptLinked, HoldsConflictReservation
    <3>3. s \in Scopes
      BY <3>1, <3>2, ActiveAttemptRow, DescriptorTyped DEF OpRows
    <3>4. ~(taken /\ s \in op[o].desc.scopes)
      BY <1>1, <3>2, IdentifierAssumption DEF ReservationFor, NoReservation
    <3>5. reservation'[s] = reservation[s]
      BY <1>1, <3>3, <3>4
    <3>6. attempt'[op[x].active] = attempt[op[x].active]
      BY <1>5, <1>6, <3>2
    <3>. QED
      BY <3>1, <3>2, <3>5, <3>6 DEF ReservationFor
  <2>. QED
    BY <2>1, <2>2
<1>15. ReservationsHeld'
  <2>. SUFFICES ASSUME NEW s \in Scopes, reservation'[s] # NoReservation
                PROVE  /\ HoldsConflictReservation(op'[reservation'[s].op])
                       /\ s \in op'[reservation'[s].op].desc.scopes
    BY DEF ReservationsHeld
  <2>1. CASE taken /\ s \in op[o].desc.scopes
    <3>1. reservation'[s].op = o
      BY <1>1, <1>4, <2>1
    <3>. QED
      BY <1>2, <1>5, <2>1, <3>1 DEF HoldsConflictReservation, InFlightStates
  <2>2. CASE ~(taken /\ s \in op[o].desc.scopes)
    <3>1. reservation'[s] = reservation[s]
      BY <1>1, <2>2
    <3>2. /\ reservation[s].op \in Ops
          /\ op[reservation[s].op].state \in InFlightStates
      BY <3>1, ReservationOwner
    <3>3. op'[reservation[s].op] = op[reservation[s].op]
      BY <1>2, <1>5, <3>2 DEF InFlightStates
    <3>. QED
      BY <3>1, <3>3 DEF IInv, ReservationsHeld
  <2>. QED
    BY <2>1, <2>2
<1>. QED
  BY <1>11, <1>12, <1>13, <1>14, <1>15 DEF IInv

LEMMA StartAttemptInvariant ==
  ASSUME IInv, NEW o \in Ops, NEW rev, NEW a \in Attempts, NEW l \in Leases,
         NEW w \in Actors, NEW retry \in Attempts \cup {NoID},
         StartAttempt(o, rev, a, l, w, retry)
  PROVE  IInv'
<1>1. evidence' \in [EvidenceIds -> EvidenceRows \cup {NoEvidence}]
  BY DEF StartAttempt, IInv, TypeOK
<1>. QED
  BY <1>1, GrantInvariant DEF StartAttempt

LEMMA InvalidateAttemptInvariant ==
  ASSUME IInv, NEW o \in Ops, NEW rev, NEW a \in Attempts, NEW e \in EvidenceIds,
         NEW k \in EvidenceKinds, InvalidateAttempt(o, rev, a, e, k)
  PROVE  IInv'
<1>. DEFINE row == LoseExecutionCertainty(op[o])
            lost == [attempt[a] EXCEPT !.state = "uncertain"]
            revoked == [op |-> o, evidence |-> e]
<1>1. /\ op[o].active = a
      /\ CanLoseExecutionCertainty(op[o], rev)
      /\ AddEvidence(e, o, a, k)
      /\ revocation' = [revocation EXCEPT ![a] = revoked]
      /\ attempt' = [attempt EXCEPT ![a] = lost]
      /\ op' = [op EXCEPT ![o] = row]
      /\ UNCHANGED <<task, verification, reservation>>
  BY DEF InvalidateAttempt
<1>2. /\ op[o] \in OpRows
      /\ row \in OpRows
      /\ row.desc = op[o].desc
      /\ row.state = "unknown_outcome"
      /\ row.gen = op[o].gen
      /\ row.active = op[o].active
      /\ op[o].state \in InFlightStates
  <2>1. op[o] \in OpRows \cup {NoOp}
    BY DEF IInv, TypeOK
  <2>. QED
    BY <1>1, <2>1, LostRow
<1>3. /\ attempt[a] \in AttemptRows
      /\ attempt[a].op = o
      /\ attempt[a].gen = op[o].gen
  BY <1>1, IdentifierAssumption, ActiveAttemptRow DEF IInv, ActiveAttemptLinked
<1>4. /\ lost \in AttemptRows
      /\ lost.op = attempt[a].op
      /\ lost.gen = attempt[a].gen
      /\ lost.lease = attempt[a].lease
  BY <1>3 DEF AttemptRows, AttemptStates
<1>5. revoked \in RevocationRows
  BY DEF RevocationRows
<1>. HIDE DEF row, lost, revoked
<1>6. /\ op'[o] = row
      /\ \A x \in Ops : x # o => op'[x] = op[x]
  BY <1>1 DEF IInv, TypeOK
<1>7. \A b \in Attempts : /\ attempt'[b].op = attempt[b].op
                          /\ attempt'[b].gen = attempt[b].gen
                          /\ attempt'[b].lease = attempt[b].lease
  BY <1>1, <1>4 DEF IInv, TypeOK
<1>8. \A x \in Ops : /\ op'[x].desc = op[x].desc
                     /\ op'[x].active = op[x].active
                     /\ op'[x].gen = op[x].gen
                     /\ op'[x].state \in InFlightStates <=> op[x].state \in InFlightStates
                     /\ op'[x] # NoOp => op[x] # NoOp
  <2>. TAKE x \in Ops
  <2>1. CASE x = o
    <3>1. op[o] # NoOp
      BY <1>2 DEF NoOp, InFlightStates
    <3>. QED
      BY <1>2, <1>6, <2>1, <3>1 DEF InFlightStates
  <2>2. CASE x # o
    BY <1>6, <2>2
  <2>. QED
    BY <2>1, <2>2
<1>9. TypeOK'
  <2>1. op' \in [Ops -> OpRows \cup {NoOp}]
    BY <1>1, <1>2 DEF IInv, TypeOK
  <2>2. attempt' \in [Attempts -> AttemptRows \cup {NoAttempt}]
    BY <1>1, <1>4 DEF IInv, TypeOK
  <2>3. evidence' \in [EvidenceIds -> EvidenceRows \cup {NoEvidence}]
    BY <1>1, EvidenceTyped
  <2>4. revocation' \in [Attempts -> RevocationRows \cup {NoRevocation}]
    BY <1>1, <1>5 DEF IInv, TypeOK
  <2>. QED
    BY <1>1, <2>1, <2>2, <2>3, <2>4 DEF IInv, TypeOK
<1>10. ActiveAttemptLinked'
  <2>1. \A x \in Ops : op[x].active # NoID => op[x].active \in Attempts
    BY ActiveAttemptRow
  <2>. QED
    BY <1>7, <1>8, <2>1 DEF IInv, ActiveAttemptLinked
<1>11. TaskOfOperation'
  BY <1>1, <1>8 DEF IInv, TaskOfOperation
<1>12. HoldersReserved'
  <2>. SUFFICES ASSUME NEW x \in Ops, HoldsConflictReservation(op'[x]),
                       NEW s \in op'[x].desc.scopes
                PROVE  reservation[s] =
                         [op |-> x, attempt |-> op'[x].active,
                          lease |-> attempt'[op'[x].active].lease,
                          gen |-> op'[x].gen]
    BY <1>1 DEF HoldersReserved, ReservationFor
  <2>1. HoldsConflictReservation(op[x]) /\ s \in op[x].desc.scopes
    BY <1>8 DEF HoldsConflictReservation
  <2>2. reservation[s] = ReservationFor(x) /\ op[x].active \in Attempts
    BY <2>1, ActiveAttemptRow
       DEF IInv, HoldersReserved, ActiveAttemptLinked, HoldsConflictReservation
  <2>. QED
    BY <1>7, <1>8, <2>2 DEF ReservationFor
<1>13. ReservationsHeld'
  <2>. SUFFICES ASSUME NEW s \in Scopes, reservation[s] # NoReservation
                PROVE  /\ HoldsConflictReservation(op'[reservation[s].op])
                       /\ s \in op'[reservation[s].op].desc.scopes
    BY <1>1 DEF ReservationsHeld
  <2>1. reservation[s].op \in Ops
    BY ReservationOwner
  <2>. QED
    BY <1>8, <2>1 DEF IInv, ReservationsHeld, HoldsConflictReservation
<1>. QED
  BY <1>9, <1>10, <1>11, <1>12, <1>13 DEF IInv
(* The operations that collection removes hold no scope: they are terminal. *)
LEMMA CollectedAreSettled ==
  ASSUME IInv, NEW gone \in SUBSET Ops, NEW dropped \in SUBSET Tasks,
         Collect(gone, dropped), NEW o \in gone
  PROVE  /\ op[o].state \in TerminalOperationStates
         /\ op[o].state \notin InFlightStates
         /\ \A s \in Scopes : reservation[s].op # o
<1>1. op[o] # NoOp /\ Pending(op[o].desc.task) = {}
  BY DEF Collect
<1>2. o \in TaskOps(op[o].desc.task)
  BY <1>1 DEF TaskOps
<1>3. op[o].state \in TerminalOperationStates /\ ~ \E s \in Scopes : reservation[s].op = o
  BY <1>1, <1>2 DEF Pending
<1>. QED
  BY <1>3 DEF TerminalOperationStates, InFlightStates

LEMMA CollectInvariant ==
  ASSUME IInv, NEW gone \in SUBSET Ops, NEW dropped \in SUBSET Tasks,
         Collect(gone, dropped)
  PROVE  IInv'
<1>1. /\ task' = [t \in Tasks |-> IF t \in dropped THEN NoTask ELSE task[t]]
      /\ op' = [o \in Ops |-> IF o \in gone THEN NoOp ELSE op[o]]
      /\ attempt' = [a \in Attempts |->
                       IF attempt[a].op \in gone THEN NoAttempt ELSE attempt[a]]
      /\ evidence' = [e \in EvidenceIds |->
                        IF evidence[e].op \in gone THEN NoEvidence ELSE evidence[e]]
      /\ verification' = [v \in VerificationIds |->
                            IF verification[v].op \in gone
                              THEN NoVerification ELSE verification[v]]
      /\ revocation' = [a \in Attempts |->
                          IF revocation[a].op \in gone
                            THEN NoRevocation ELSE revocation[a]]
      /\ UNCHANGED reservation
  BY DEF Collect
<1>2. TypeOK'
  BY <1>1 DEF IInv, TypeOK
<1>3. \A o \in Ops : /\ o \in gone => op'[o] = NoOp /\ op[o].state \notin InFlightStates
                     /\ o \notin gone => op'[o] = op[o]
  BY <1>1, CollectedAreSettled
<1>4. /\ NoOp.active = NoID
      /\ NoOp.state \notin InFlightStates
  BY DEF NoOp, InFlightStates
<1>5. \A o \in Ops : o \notin gone /\ op[o].active # NoID =>
         attempt'[op[o].active] = attempt[op[o].active]
  <2>. TAKE o \in Ops
  <2>. HAVE o \notin gone /\ op[o].active # NoID
  <2>1. op[o].active \in Attempts /\ attempt[op[o].active].op = o
    BY ActiveAttemptRow DEF IInv, ActiveAttemptLinked
  <2>. QED
    BY <1>1, <2>1
<1>6. ActiveAttemptLinked'
  BY <1>3, <1>4, <1>5 DEF IInv, ActiveAttemptLinked
<1>7. TaskOfOperation'
  <2>. SUFFICES ASSUME NEW o \in Ops, op'[o] # NoOp
                PROVE  task'[op'[o].desc.task] # NoTask
    BY DEF TaskOfOperation
  <2>1. o \notin gone /\ op'[o] = op[o] /\ op[o] # NoOp
    BY <1>3
  <2>2. op[o].desc.task \in Tasks
    BY <2>1, DescriptorTyped DEF IInv, TypeOK, OpRows
  <2>3. op[o].desc.task \notin dropped
    <3>1. o \in TaskOps(op[o].desc.task)
      BY <2>1 DEF TaskOps
    <3>. QED
      BY <2>1, <3>1 DEF Collect
  <2>. QED
    BY <1>1, <2>1, <2>2, <2>3 DEF IInv, TaskOfOperation
<1>8. HoldersReserved'
  <2>. SUFFICES ASSUME NEW o \in Ops, HoldsConflictReservation(op'[o]),
                       NEW s \in op'[o].desc.scopes
                PROVE  reservation[s] =
                         [op |-> o, attempt |-> op'[o].active,
                          lease |-> attempt'[op'[o].active].lease,
                          gen |-> op'[o].gen]
    BY <1>1 DEF HoldersReserved, ReservationFor
  <2>1. o \notin gone /\ op'[o] = op[o]
    BY <1>3, <1>4 DEF HoldsConflictReservation
  <2>2. reservation[s] = ReservationFor(o) /\ op[o].active # NoID
    BY <2>1 DEF IInv, HoldersReserved, ActiveAttemptLinked, HoldsConflictReservation
  <2>. QED
    BY <1>5, <2>1, <2>2 DEF ReservationFor
<1>9. ReservationsHeld'
  <2>. SUFFICES ASSUME NEW s \in Scopes, reservation[s] # NoReservation
                PROVE  /\ HoldsConflictReservation(op'[reservation[s].op])
                       /\ s \in op'[reservation[s].op].desc.scopes
    BY <1>1 DEF ReservationsHeld
  <2>1. reservation[s].op \in Ops /\ reservation[s].op \notin gone
    BY ReservationOwner, CollectedAreSettled
  <2>. QED
    BY <1>3, <2>1 DEF IInv, ReservationsHeld
<1>. QED
  BY <1>2, <1>6, <1>7, <1>8, <1>9 DEF IInv

-----------------------------------------------------------------------------
LEMMA NextInvariant ==
  ASSUME IInv, [Next]_vars
  PROVE  IInv'
<1>1. CASE UNCHANGED vars
  <2>1. TypeOK'
    BY <1>1 DEF IInv, TypeOK, vars
  <2>. QED
    BY <1>1, <2>1, UntouchedLinks DEF IInv, vars
<1>2. CASE \E t \in Tasks : CreateTask(t)
  BY <1>2, CreateTaskInvariant
<1>3. CASE \E d \in Descriptors : CreateOperation(d)
  BY <1>3, CreateOperationInvariant
<1>4. CASE \E o \in Ops, rev \in Revisions : MarkReady(o, rev)
  BY <1>4, MarkReadyInvariant
<1>5. CASE \E o \in Ops, rev \in Revisions, a \in Attempts, l \in Leases,
              w \in Actors, retry \in Attempts \cup {NoID} :
             StartAttempt(o, rev, a, l, w, retry)
  BY <1>5, StartAttemptInvariant
<1>6. CASE \E o \in Ops, rev \in Revisions : BeginVerification(o, rev)
  BY <1>6, BeginVerificationInvariant
<1>7. CASE \E o \in Ops, rev \in Revisions : MarkUnknownOutcome(o, rev)
  BY <1>7, MarkUnknownOutcomeInvariant
<1>8. CASE \E e \in EvidenceIds, o \in Ops, a \in Attempts \cup {NoID},
              k \in RegisteredKinds : RegisterEvidence(e, o, a, k)
  BY <1>8, InputAssumption, RegisterEvidenceInvariant
<1>9. CASE \E e \in EvidenceIds, a \in Attempts, inTime \in BOOLEAN :
             RecordWorkerReport(e, a, inTime)
  BY <1>9, RecordWorkerReportInvariant
<1>10. CASE \E o \in Ops, rev \in Revisions, v \in VerificationIds, a \in Attempts,
               cited \in SUBSET EvidenceIds, verdict \in Verdicts, safe \in BOOLEAN :
              \/ ApplyVerification(o, rev, v, a, cited, verdict, safe)
              \/ MarkNotStarted(o, rev, v, a, cited, verdict, safe)
  BY <1>10, ApplyInvariant DEF ApplyVerification, MarkNotStarted
<1>11. CASE \E o \in Ops, rev \in Revisions, a \in Attempts, e \in EvidenceIds,
               k \in EvidenceKinds : InvalidateAttempt(o, rev, a, e, k)
  BY <1>11, InvalidateAttemptInvariant
<1>12. CASE \E t \in Tasks, rev \in Revisions : FinalizeTask(t, rev)
  BY <1>12, FinalizeTaskInvariant
<1>13. CASE \E gone \in SUBSET Ops, dropped \in SUBSET Tasks : Collect(gone, dropped)
  BY <1>13, CollectInvariant
<1>. QED
  BY <1>1, <1>2, <1>3, <1>4, <1>5, <1>6, <1>7, <1>8, <1>9, <1>10, <1>11, <1>12,
     <1>13 DEF Next

(* The inductive invariant holds in every state the store can reach.        *)
THEOREM InductiveInvariant == Spec => []IInv
<1>1. Init => IInv
  BY InitInvariant
<1>2. IInv /\ [Next]_vars => IInv'
  BY NextInvariant
<1>. QED
  BY <1>1, <1>2, PTL DEF Spec

(* Every table always holds well-formed rows: no call writes a revision or  *)
(* a generation out of range, or a row that a reader could not interpret.   *)
THEOREM TypeCorrect == Spec => []TypeOK
<1>1. IInv => TypeOK
  BY DEF IInv
<1>. QED
  BY <1>1, InductiveInvariant, PTL

LEMMA InspectableStore == IInv => RecoveryIntegrity
<1>. SUFFICES ASSUME IInv, NEW o \in Ops, op[o] # NoOp
              PROVE  InspectionSucceeds(o)
  BY DEF RecoveryIntegrity
<1>1. task[op[o].desc.task] # NoTask
  BY DEF IInv, TaskOfOperation
<1>2. op[o].active # NoID => /\ attempt[op[o].active].op = o
                             /\ attempt[op[o].active].gen = op[o].gen
  BY DEF IInv, ActiveAttemptLinked
<1>3. HoldsConflictReservation(op[o]) =>
        \A s \in op[o].desc.scopes : reservation[s] = ReservationFor(o)
  BY DEF IInv, HoldersReserved
<1>. QED
  BY <1>1, <1>2, <1>3 DEF InspectionSucceeds, ReservationFor

(* InspectRecovery can classify every operation of every reachable store:   *)
(* its ErrIntegrity branches are unreachable.                               *)
THEOREM RecoveryNeverFails == Spec => []RecoveryIntegrity
BY InspectableStore, InductiveInvariant, PTL

(* No reservation outlives the operation in flight that took it.            *)
THEOREM ReservationsNeverLeak == Spec => []NoLeakedReservation
<1>1. IInv => NoLeakedReservation
  <2>. SUFFICES ASSUME IInv, NEW s \in Scopes, reservation[s] # NoReservation
                PROVE  /\ HoldsConflictReservation(op[reservation[s].op])
                       /\ s \in op[reservation[s].op].desc.scopes
                       /\ reservation[s].attempt = op[reservation[s].op].active
    BY DEF NoLeakedReservation
  <2>1. reservation[s] = ReservationFor(reservation[s].op)
    BY ReservationOwner
  <2>2. ReservationFor(reservation[s].op).attempt = op[reservation[s].op].active
    BY DEF ReservationFor
  <2>. QED
    BY <2>1, <2>2 DEF IInv, ReservationsHeld
<1>. QED
  BY <1>1, InductiveInvariant, PTL

LEMMA DisjointHolders == IInv => ScopeMutualExclusion
<1>. SUFFICES ASSUME IInv, NEW x \in Ops, NEW y \in Ops, x # y,
                     HoldsConflictReservation(op[x]),
                     HoldsConflictReservation(op[y]),
                     NEW s \in op[x].desc.scopes, s \in op[y].desc.scopes
              PROVE  FALSE
  BY DEF ScopeMutualExclusion
<1>1. reservation[s] = ReservationFor(x) /\ reservation[s] = ReservationFor(y)
  BY DEF IInv, HoldersReserved
<1>2. ReservationFor(x).op = x /\ ReservationFor(y).op = y
  BY DEF ReservationFor
<1>. QED
  BY <1>1, <1>2

(* Two mutations in flight never share a conflict scope, for any number of  *)
(* tasks, operations, scopes, attempts and callers.                         *)
THEOREM MutualExclusion == Spec => []ScopeMutualExclusion
BY DisjointHolders, InductiveInvariant, PTL

-----------------------------------------------------------------------------
(* What a step does to the reservations.                                    *)

(* A transition keeps a reservation, or frees one that was taken by the     *)
(* active attempt of the operation that moves, which is then out of flight. *)
LEMMA MoveReservation ==
  ASSUME IInv, NEW o \in Ops, NEW rev, NEW to, NEW mark, to # "executing",
         MoveOperation(o, rev, to, mark),
         NEW s \in Scopes, reservation[s] # NoReservation,
         reservation'[s] # reservation[s]
  PROVE  /\ reservation'[s] = NoReservation
         /\ reservation[s].op = o
         /\ reservation[s].attempt = op[o].active
         /\ op[o].state \in InFlightStates
         /\ to \notin InFlightStates
<1>. DEFINE row == Transition(op[o], to)
<1>1. /\ CanTransition(op[o], rev, to)
      /\ reservation' = IF HoldsConflictReservation(row)
                          THEN reservation ELSE Released(o)
  BY DEF MoveOperation
<1>2. op[o] \in OpRows \cup {NoOp}
  BY DEF IInv, TypeOK
<1>3. row.desc = op[o].desc /\ row.state = to
  BY <1>1, <1>2, TransitionRow
<1>. HIDE DEF row
<1>4. ~HoldsConflictReservation(row) /\ reservation' = Released(o)
  BY <1>1
<1>5. reservation[s].op = o /\ reservation'[s] = NoReservation
  BY <1>4 DEF Released
<1>6. HoldsConflictReservation(op[o])
  BY <1>5 DEF IInv, ReservationsHeld
<1>7. reservation[s].attempt = op[o].active
  <2>1. reservation[s] = ReservationFor(o)
    BY <1>5, ReservationOwner
  <2>. QED
    BY <2>1 DEF ReservationFor
<1>. QED
  BY <1>3, <1>4, <1>5, <1>6, <1>7 DEF HoldsConflictReservation

(* The states that take an operation out of flight, other than by a verdict *)
(* recorded with the transition, are left unreachable by MarkReady's guard. *)
LEMMA NextFreesByVerdict ==
  ASSUME IInv, Next, NEW s \in Scopes, reservation[s] # NoReservation,
         reservation'[s] # reservation[s]
  PROVE  /\ reservation'[s] = NoReservation
         /\ \E v \in VerificationIds :
              /\ verification[v] = NoVerification
              /\ verification'[v].attempt = reservation[s].attempt
              /\ verification'[v].verdict \notin {"absent", "inconclusive"}
<1>1. ASSUME NEW t \in Tasks, CreateTask(t) PROVE FALSE
  BY <1>1 DEF CreateTask
<1>2. ASSUME NEW d \in Descriptors, CreateOperation(d) PROVE FALSE
  BY <1>2 DEF CreateOperation
<1>3. ASSUME NEW o \in Ops, NEW rev \in Revisions, MarkReady(o, rev) PROVE FALSE
  <2>1. MoveOperation(o, rev, "ready", KeepState) /\ op[o].state = "planned"
    BY <1>3 DEF MarkReady
  <2>2. op[o].state \in InFlightStates
    BY <2>1, MoveReservation
  <2>. QED
    BY <2>1, <2>2 DEF InFlightStates
<1>4. ASSUME NEW o \in Ops, NEW rev \in Revisions, NEW a \in Attempts, NEW l \in Leases,
             NEW w \in Actors, NEW retry \in Attempts \cup {NoID},
             StartAttempt(o, rev, a, l, w, retry)
      PROVE  FALSE
  BY <1>4 DEF StartAttempt, Grant, ReservedFor
<1>5. ASSUME NEW o \in Ops, NEW rev \in Revisions, BeginVerification(o, rev) PROVE FALSE
  <2>. DEFINE mark == IF op[o].state = "executing" THEN "reported" ELSE KeepState
  <2>1. MoveOperation(o, rev, "verifying", mark)
    BY <1>5 DEF BeginVerification
  <2>. HIDE DEF mark
  <2>2. "verifying" \notin InFlightStates
    BY <2>1, MoveReservation
  <2>. QED
    BY <2>2 DEF InFlightStates
<1>6. ASSUME NEW o \in Ops, NEW rev \in Revisions, MarkUnknownOutcome(o, rev) PROVE FALSE
  <2>1. MoveOperation(o, rev, "unknown_outcome", "uncertain")
    BY <1>6 DEF MarkUnknownOutcome
  <2>2. "unknown_outcome" \notin InFlightStates
    BY <2>1, MoveReservation
  <2>. QED
    BY <2>2 DEF InFlightStates
<1>7. ASSUME NEW e \in EvidenceIds, NEW o \in Ops, NEW a \in Attempts \cup {NoID},
             NEW k \in RegisteredKinds, RegisterEvidence(e, o, a, k)
      PROVE  FALSE
  BY <1>7 DEF RegisterEvidence
<1>8. ASSUME NEW e \in EvidenceIds, NEW a \in Attempts, NEW inTime \in BOOLEAN,
             RecordWorkerReport(e, a, inTime)
      PROVE  FALSE
  <2>. DEFINE o == attempt[a].op
  <2>1. o \in Ops
    BY <1>8 DEF RecordWorkerReport, IInv, TypeOK, AttemptRows
  <2>2. CASE MoveOperation(o, op[o].rev, "verifying", "reported")
    <3>1. "verifying" \notin InFlightStates
      BY <2>1, <2>2, MoveReservation
    <3>. QED
      BY <3>1 DEF InFlightStates
  <2>3. CASE UNCHANGED reservation
    BY <2>3
  <2>. QED
    BY <1>8, <2>2, <2>3 DEF RecordWorkerReport
<1>9. ASSUME NEW o \in Ops, NEW rev \in Revisions, NEW v \in VerificationIds,
             NEW a \in Attempts, NEW cited \in SUBSET EvidenceIds,
             NEW verdict \in Verdicts, NEW safe \in BOOLEAN, NEW notStarted \in BOOLEAN,
             Apply(o, rev, v, a, cited, verdict, safe, notStarted)
      PROVE  /\ reservation'[s] = NoReservation
             /\ verification[v] = NoVerification
             /\ verification'[v].attempt = reservation[s].attempt
             /\ verification'[v].verdict \notin {"absent", "inconclusive"}
  <2>. DEFINE to == VerdictState[verdict]
              mark == VerdictAttemptState(verdict, notStarted)
              row == [op |-> o, attempt |-> a, evidence |-> cited,
                      verdict |-> verdict, safe |-> safe]
  <2>1. /\ MoveOperation(o, rev, to, mark)
        /\ verification[v] = NoVerification
        /\ verification' = [verification EXCEPT ![v] = row]
        /\ op[o].active = a
    BY <1>9 DEF Apply, VerificationAdmissible
  <2>2. to # "executing" /\ (to \notin InFlightStates => verdict # "inconclusive")
    BY DEF Verdicts, VerdictState, InFlightStates
  <2>3. verdict # "absent" /\ row.attempt = a /\ row.verdict = verdict
    BY DEF Verdicts
  <2>. HIDE DEF to, mark, row
  <2>4. /\ reservation'[s] = NoReservation
        /\ reservation[s].attempt = op[o].active
        /\ to \notin InFlightStates
    BY <2>1, <2>2, MoveReservation
  <2>5. verification'[v] = row
    BY <2>1 DEF IInv, TypeOK
  <2>. QED
    BY <2>1, <2>2, <2>3, <2>4, <2>5
<1>10. ASSUME NEW o \in Ops, NEW rev \in Revisions, NEW a \in Attempts,
              NEW e \in EvidenceIds, NEW k \in EvidenceKinds,
              InvalidateAttempt(o, rev, a, e, k)
       PROVE  FALSE
  BY <1>10 DEF InvalidateAttempt
<1>11. ASSUME NEW t \in Tasks, NEW rev \in Revisions, FinalizeTask(t, rev) PROVE FALSE
  BY <1>11 DEF FinalizeTask
<1>12. ASSUME NEW gone \in SUBSET Ops, NEW dropped \in SUBSET Tasks,
              Collect(gone, dropped)
       PROVE  FALSE
  BY <1>12 DEF Collect
<1>13. \E o \in Ops, rev \in Revisions, v \in VerificationIds, a \in Attempts,
          cited \in SUBSET EvidenceIds, verdict \in Verdicts, safe \in BOOLEAN :
         \/ ApplyVerification(o, rev, v, a, cited, verdict, safe)
         \/ MarkNotStarted(o, rev, v, a, cited, verdict, safe)
  BY <1>1, <1>2, <1>3, <1>4, <1>5, <1>6, <1>7, <1>8, <1>10, <1>11, <1>12 DEF Next
<1>14. PICK o \in Ops, rev \in Revisions, v \in VerificationIds, a \in Attempts,
            cited \in SUBSET EvidenceIds, verdict \in Verdicts, safe \in BOOLEAN,
            notStarted \in BOOLEAN :
         Apply(o, rev, v, a, cited, verdict, safe, notStarted)
  BY <1>13 DEF ApplyVerification, MarkNotStarted
<1>15. /\ reservation'[s] = NoReservation
       /\ verification[v] = NoVerification
       /\ verification'[v].attempt = reservation[s].attempt
       /\ verification'[v].verdict \notin {"absent", "inconclusive"}
  BY <1>9, <1>14
<1>. QED
  BY <1>15

(* A conflict scope is freed only by the step that records a conclusive     *)
(* verdict on the attempt that holds it.                                    *)
THEOREM FreedOnlyByVerdict == Spec => ScopeFreedOnlyByVerdict
<1>. DEFINE Freed(s) ==
       /\ reservation'[s] = NoReservation
       /\ \E v \in VerificationIds :
            /\ verification[v] = NoVerification
            /\ verification'[v].attempt = reservation[s].attempt
            /\ verification'[v].verdict \notin {"absent", "inconclusive"}
<1>1. IInv /\ [Next]_vars =>
        [\A s \in Scopes :
           /\ reservation[s] # NoReservation
           /\ reservation'[s] # reservation[s]
           => Freed(s)]_vars
  BY NextFreesByVerdict
<1>. QED
  BY <1>1, InductiveInvariant, PTL DEF Spec, ScopeFreedOnlyByVerdict
-----------------------------------------------------------------------------
(* The store implements the scope lock.                                     *)

(* The scopes the lock says a client holds are those reserved for it.       *)
LEMMA HeldScopes ==
  ASSUME IInv, NEW o \in Ops
  PROVE  Lock!Held(o) = {s \in Scopes : reservation[s].op = o}
<1>1. \A s \in Scopes : GrantOf(s) # NoReservation /\ GrantOf(s).client = o
                          <=> reservation[s].op = o
  <2>. TAKE s \in Scopes
  <2>1. CASE reservation[s] = NoReservation
    <3>1. NoReservation.op # o
      BY IdentifierAssumption DEF NoReservation
    <3>. QED
      BY <2>1, <3>1 DEF GrantOf
  <2>2. CASE reservation[s] # NoReservation
    <3>. DEFINE g == [client |-> reservation[s].op, token |-> reservation[s].gen]
    <3>1. GrantOf(s) = g
      BY <2>2 DEF GrantOf
    <3>2. g # NoReservation /\ g.client = reservation[s].op
      BY DEF NoReservation
    <3>. QED
      BY <3>1, <3>2
  <2>. QED
    BY <2>1, <2>2
<1>. QED
  BY <1>1 DEF Lock!Held

(* A transition releases all the scopes of its operation, or none.          *)
LEMMA MoveImplements ==
  ASSUME IInv, NEW o \in Ops, NEW rev, NEW to, NEW mark,
         MoveOperation(o, rev, to, mark)
  PROVE  [Lock!LockNext]_(Lock!lockVars)
<1>. DEFINE row == Transition(op[o], to)
<1>1. /\ CanTransition(op[o], rev, to)
      /\ op' = [op EXCEPT ![o] = row]
      /\ reservation' = IF HoldsConflictReservation(row)
                          THEN reservation ELSE Released(o)
  BY DEF MoveOperation
<1>2. op[o] \in OpRows \cup {NoOp}
  BY DEF IInv, TypeOK
<1>3. row.gen = op[o].gen /\ row.desc = op[o].desc
  BY <1>1, <1>2, TransitionRow
<1>. HIDE DEF row
<1>4. /\ [x \in Ops |-> op'[x].gen] = [x \in Ops |-> op[x].gen]
      /\ \A x \in Ops : op'[x].desc = op[x].desc
  BY <1>1, <1>3 DEF IInv, TypeOK
<1>5. [x \in Ops |-> NeedsOf(x)'] = [x \in Ops |-> NeedsOf(x)]
  BY <1>4 DEF NeedsOf
<1>6. CASE reservation' = reservation
  <2>1. \A s \in Scopes : GrantOf(s)' = GrantOf(s)
    BY <1>6 DEF GrantOf
  <2>. QED
    BY <1>4, <1>5, <2>1 DEF Lock!lockVars
<1>7. CASE reservation' # reservation
  <2>1. reservation' = Released(o)
    BY <1>1, <1>7
  <2>2. Lock!Held(o) = {s \in Scopes : reservation[s].op = o}
    BY HeldScopes
  <2>3. Lock!Held(o) # {}
    BY <1>7, <2>1, <2>2 DEF Released, IInv, TypeOK
  <2>4. \A s \in Scopes : GrantOf(s)' = IF s \in Lock!Held(o) THEN NoReservation ELSE GrantOf(s)
    BY <2>1, <2>2 DEF Released, GrantOf
  <2>5. Lock!Release(o)
    BY <1>4, <1>5, <2>3, <2>4 DEF Lock!Release
  <2>. QED
    BY <2>5 DEF Lock!LockNext
<1>. QED
  BY <1>6, <1>7

(* Calls that change no generation, descriptor or reservation are stutters. *)
LEMMA StutterImplements ==
  ASSUME IInv, UNCHANGED reservation,
         \A o \in Ops : op'[o].gen = op[o].gen /\ op'[o].desc = op[o].desc
  PROVE  UNCHANGED Lock!lockVars
<1>1. \A s \in Scopes : GrantOf(s)' = GrantOf(s)
  BY DEF GrantOf
<1>2. \A o \in Ops : NeedsOf(o)' = NeedsOf(o)
  BY DEF NeedsOf
<1>. QED
  BY <1>1, <1>2 DEF Lock!lockVars

(* A new operation says which scopes it will need.                          *)
LEMMA CreateOperationImplements ==
  ASSUME IInv, NEW d \in Descriptors, CreateOperation(d)
  PROVE  Lock!LockNext
<1>. DEFINE row == [desc |-> d, state |-> "planned", rev |-> 1, gen |-> 0, active |-> NoID]
            S == {s \in Scopes : d.effect = "mutation" /\ s \in d.scopes}
<1>1. /\ op[d.id] = NoOp
      /\ UNCHANGED reservation
      /\ op' = [op EXCEPT ![d.id] = row]
  BY DEF CreateOperation
<1>2. d.id \in Ops
  BY InputAssumption
<1>3. row.gen = 0 /\ row.desc = d
  OBVIOUS
<1>4. /\ op[d.id].gen = 0
      /\ NeedsOf(d.id) = {}
  BY <1>1 DEF NoOp, NoDescriptor, NeedsOf
<1>. HIDE DEF row
<1>5. /\ op'[d.id] = row
      /\ \A o \in Ops : o # d.id => op'[o] = op[o]
  BY <1>1, <1>2 DEF IInv, TypeOK
<1>6. [o \in Ops |-> op'[o].gen] = [o \in Ops |-> op[o].gen]
  BY <1>3, <1>4, <1>5
<1>7. \A s \in Scopes : GrantOf(s)' = GrantOf(s)
  BY <1>1 DEF GrantOf
<1>8. NeedsOf(d.id)' = S
  BY <1>3, <1>5 DEF NeedsOf
<1>9. \A o \in Ops : o # d.id => NeedsOf(o)' = NeedsOf(o)
  BY <1>5 DEF NeedsOf
<1>10. PICK T \in SUBSET Scopes : T = S
  OBVIOUS
<1>. HIDE DEF S
<1>11. [o \in Ops |-> NeedsOf(o)'] = [[o \in Ops |-> NeedsOf(o)] EXCEPT ![d.id] = T]
  BY <1>2, <1>8, <1>9, <1>10
<1>12. Lock!Register(d.id, T)
  BY <1>2, <1>4, <1>6, <1>7, <1>11 DEF Lock!Register
<1>. QED
  BY <1>2, <1>10, <1>12 DEF Lock!LockNext

LEMMA StartAttemptImplements ==
  ASSUME IInv, NEW o \in Ops, NEW rev, NEW a \in Attempts, NEW l \in Leases,
         NEW w \in Actors, NEW retry \in Attempts \cup {NoID},
         StartAttempt(o, rev, a, l, w, retry)
  PROVE  Lock!LockNext
<1>. DEFINE row == StartedOperation(op[o], a)
            held == [op |-> o, attempt |-> a, lease |-> l, gen |-> op[o].gen + 1]
<1>1. /\ CanStartAttempt(op[o], rev, a)
      /\ op' = [op EXCEPT ![o] = row]
      /\ \A s \in NeedsOf(o) : reservation[s] = NoReservation
      /\ \A s \in Scopes :
           reservation'[s] = IF s \in NeedsOf(o) THEN held ELSE reservation[s]
  BY DEF StartAttempt, Grant, ReservedFor, NeedsOf
<1>2. op[o] \in OpRows \cup {NoOp}
  BY DEF IInv, TypeOK
<1>3. row.gen = op[o].gen + 1 /\ op[o].state = "ready" /\ row.desc = op[o].desc
  BY <1>1, <1>2, StartedRow
<1>4. /\ held.op = o
      /\ held.gen = op[o].gen + 1
      /\ held # NoReservation
  BY IdentifierAssumption DEF NoReservation
<1>. HIDE DEF row, held
<1>5. Lock!Held(o) = {}
  <2>1. \A s \in Scopes : reservation[s].op # o
    <3>. TAKE s \in Scopes
    <3>1. CASE reservation[s] = NoReservation
      BY <3>1, IdentifierAssumption DEF NoReservation
    <3>2. CASE reservation[s] # NoReservation
      BY <1>3, <3>2, ReservationOwner DEF InFlightStates
    <3>. QED
      BY <3>1, <3>2
  <2>. QED
    BY <2>1, HeldScopes
<1>6. [x \in Ops |-> op'[x].gen] =
        [[x \in Ops |-> op[x].gen] EXCEPT ![o] = [x \in Ops |-> op[x].gen][o] + 1]
  BY <1>1, <1>3 DEF IInv, TypeOK
<1>7. \A s \in Scopes : GrantOf(s)' =
        IF s \in NeedsOf(o)
          THEN [client |-> o, token |-> [x \in Ops |-> op[x].gen][o] + 1]
          ELSE GrantOf(s)
  BY <1>1, <1>4 DEF GrantOf
<1>8. \A s \in NeedsOf(o) : s \in Scopes /\ [x \in Scopes |-> GrantOf(x)][s] = NoReservation
  BY <1>1 DEF GrantOf, NeedsOf
<1>9. \A x \in Ops : op'[x].desc = op[x].desc
  BY <1>1, <1>3 DEF IInv, TypeOK
<1>10. \A x \in Ops : NeedsOf(x)' = NeedsOf(x)
  BY <1>9 DEF NeedsOf
<1>11. [x \in Ops |-> NeedsOf(x)][o] = NeedsOf(o)
  OBVIOUS
<1>12. Lock!Acquire(o)
  BY <1>5, <1>6, <1>7, <1>8, <1>10, <1>11 DEF Lock!Acquire
<1>. QED
  BY <1>12 DEF Lock!LockNext

LEMMA CollectImplements ==
  ASSUME IInv, NEW gone \in SUBSET Ops, NEW dropped \in SUBSET Tasks,
         Collect(gone, dropped)
  PROVE  Lock!LockNext
<1>1. /\ op' = [o \in Ops |-> IF o \in gone THEN NoOp ELSE op[o]]
      /\ UNCHANGED reservation
  BY DEF Collect
<1>2. \A o \in gone : Lock!Held(o) = {}
  BY CollectedAreSettled, HeldScopes
<1>3. [o \in Ops |-> op'[o].gen] =
        [o \in Ops |-> IF o \in gone THEN 0 ELSE [x \in Ops |-> op[x].gen][o]]
  BY <1>1 DEF NoOp
<1>4. \A s \in Scopes : GrantOf(s)' = GrantOf(s)
  BY <1>1 DEF GrantOf
<1>5. \A o \in Ops : NeedsOf(o)' = IF o \in gone THEN {} ELSE NeedsOf(o)
  BY <1>1 DEF NeedsOf, NoOp, NoDescriptor
<1>6. Lock!Forget(gone)
  BY <1>2, <1>3, <1>4, <1>5 DEF Lock!Forget
<1>. QED
  BY <1>6 DEF Lock!LockNext

LEMMA NextImplements ==
  ASSUME IInv, [Next]_vars
  PROVE  [Lock!LockNext]_(Lock!lockVars)
<1>1. CASE UNCHANGED vars
  BY <1>1, StutterImplements DEF vars
<1>2. ASSUME NEW t \in Tasks, CreateTask(t)
      PROVE  UNCHANGED Lock!lockVars
  BY <1>2, StutterImplements DEF CreateTask
<1>3. ASSUME NEW d \in Descriptors, CreateOperation(d)
      PROVE  Lock!LockNext
  BY <1>3, CreateOperationImplements
<1>4. ASSUME NEW o \in Ops, NEW rev \in Revisions, MarkReady(o, rev)
      PROVE  [Lock!LockNext]_(Lock!lockVars)
  BY <1>4, MoveImplements DEF MarkReady
<1>5. ASSUME NEW o \in Ops, NEW rev \in Revisions, BeginVerification(o, rev)
      PROVE  [Lock!LockNext]_(Lock!lockVars)
  BY <1>5, MoveImplements DEF BeginVerification
<1>6. ASSUME NEW o \in Ops, NEW rev \in Revisions, MarkUnknownOutcome(o, rev)
      PROVE  [Lock!LockNext]_(Lock!lockVars)
  BY <1>6, MoveImplements DEF MarkUnknownOutcome
<1>7. ASSUME NEW e \in EvidenceIds, NEW o \in Ops, NEW a \in Attempts \cup {NoID},
             NEW k \in RegisteredKinds, RegisterEvidence(e, o, a, k)
      PROVE  UNCHANGED Lock!lockVars
  BY <1>7, StutterImplements DEF RegisterEvidence
<1>8. ASSUME NEW e \in EvidenceIds, NEW a \in Attempts, NEW inTime \in BOOLEAN,
             RecordWorkerReport(e, a, inTime)
      PROVE  [Lock!LockNext]_(Lock!lockVars)
  <2>. DEFINE o == attempt[a].op
  <2>1. o \in Ops
    BY <1>8 DEF RecordWorkerReport, IInv, TypeOK, AttemptRows
  <2>2. CASE MoveOperation(o, op[o].rev, "verifying", "reported")
    BY <2>1, <2>2, MoveImplements
  <2>3. CASE UNCHANGED <<op, attempt, reservation>>
    BY <2>3, StutterImplements
  <2>. QED
    BY <1>8, <2>2, <2>3 DEF RecordWorkerReport
<1>9. ASSUME NEW o \in Ops, NEW rev \in Revisions, NEW v \in VerificationIds,
             NEW a \in Attempts, NEW cited \in SUBSET EvidenceIds,
             NEW verdict \in Verdicts, NEW safe \in BOOLEAN,
             ApplyVerification(o, rev, v, a, cited, verdict, safe)
               \/ MarkNotStarted(o, rev, v, a, cited, verdict, safe)
      PROVE  [Lock!LockNext]_(Lock!lockVars)
  <2>1. \E mark : MoveOperation(o, rev, VerdictState[verdict], mark)
    BY <1>9 DEF ApplyVerification, MarkNotStarted, Apply
  <2>. QED
    BY <2>1, MoveImplements
<1>10. ASSUME NEW o \in Ops, NEW rev \in Revisions, NEW a \in Attempts,
              NEW e \in EvidenceIds, NEW k \in EvidenceKinds,
              InvalidateAttempt(o, rev, a, e, k)
       PROVE  UNCHANGED Lock!lockVars
  <2>1. /\ CanLoseExecutionCertainty(op[o], rev)
        /\ op' = [op EXCEPT ![o] = LoseExecutionCertainty(op[o])]
        /\ UNCHANGED reservation
    BY <1>10 DEF InvalidateAttempt
  <2>2. /\ LoseExecutionCertainty(op[o]).gen = op[o].gen
        /\ LoseExecutionCertainty(op[o]).desc = op[o].desc
    <3>1. op[o] \in OpRows \cup {NoOp}
      BY DEF IInv, TypeOK
    <3>. QED
      BY <2>1, <3>1, LostRow
  <2>3. \A x \in Ops : op'[x].gen = op[x].gen /\ op'[x].desc = op[x].desc
    BY <2>1, <2>2 DEF IInv, TypeOK
  <2>. QED
    BY <2>1, <2>3, StutterImplements
<1>11. ASSUME NEW t \in Tasks, NEW rev \in Revisions, FinalizeTask(t, rev)
       PROVE  UNCHANGED Lock!lockVars
  BY <1>11, StutterImplements DEF FinalizeTask
<1>. QED
  BY <1>1, <1>2, <1>3, <1>4, <1>5, <1>6, <1>7, <1>8, <1>9, <1>10, <1>11,
     StartAttemptImplements, CollectImplements DEF Next

(* Every behaviour of the store is a behaviour of the scope lock: scopes    *)
(* are granted and released all or none, exactly those that the operation   *)
(* was created with, never taken over, and every grant of an operation      *)
(* carries a larger lease generation than the one before.                   *)
THEOREM StoreImplementsScopeLock == Spec => ImplementsScopeLock
<1>1. Init => Lock!LockInit
  <2>. SUFFICES ASSUME Init PROVE Lock!LockInit
    OBVIOUS
  <2>1. \A s \in Scopes : GrantOf(s) = NoReservation
    BY DEF Init, GrantOf
  <2>2. \A o \in Ops : op[o].gen = 0 /\ NeedsOf(o) = {}
    BY DEF Init, NoOp, NoDescriptor, NeedsOf
  <2>. QED
    BY <2>1, <2>2 DEF Lock!LockInit
<1>2. IInv /\ [Next]_vars => [Lock!LockNext]_(Lock!lockVars)
  BY NextImplements
<1>. QED
  BY <1>1, <1>2, InductiveInvariant, PTL DEF Spec, ImplementsScopeLock, Lock!LockSpec
=============================================================================
