---------------------- MODULE ControlStoreHistoryProofs ----------------------
(***************************************************************************)
(* Theorems about what ControlStore keeps of the past: the generations of  *)
(* an operation, the verdicts its attempts were left with, the evidence of *)
(* its decisions and the settlement of its task; and what no later step    *)
(* may take back.  They rest on the invariant IInv of ControlStoreProofs.  *)
(***************************************************************************)
EXTENDS ControlStoreProofs

-----------------------------------------------------------------------------
(* The inductive invariant.                                                 *)

(* An attempt belongs to an operation with a row, its generation is not     *)
(* beyond the current one, and no other attempt has the same.               *)
AttemptsNumbered ==
  \A a \in Attempts : attempt[a] # NoAttempt =>
    /\ op[attempt[a].op] # NoOp
    /\ attempt[a].gen <= op[attempt[a].op].gen
    /\ \A b \in Attempts :
         attempt[b].op = attempt[a].op /\ attempt[b].gen = attempt[a].gen => b = a

GenerationsFilled ==
  \A o \in Ops : \A g \in 1..op[o].gen :
    \E a \in Attempts : attempt[a].op = o /\ attempt[a].gen = g

(* Ready is reached from planned without a verdict: then there is no        *)
(* attempt yet.                                                             *)
FreshUntilReady == \A o \in Ops : op[o].state = "planned" => op[o].gen = 0

(* BeginVerification marks the attempt of an executing operation reported:  *)
(* that must not give back an authority that was lost.                      *)
ExecutingIsRunning ==
  \A o \in Ops :
    op[o].state = "executing" => attempt[op[o].active].state = "running"

TasksSettled ==
  \A t \in Tasks : Terminal(t) =>
    \A o \in TaskOps(t) :
      /\ op[o].state \in TerminalOperationStates
      /\ task[t].state = "completed" => op[o].state = "succeeded"

(* The four parts of EvidenceGraphComplete that a step can break.           *)
EvidenceLinked ==
  \A e \in EvidenceIds : evidence[e] # NoEvidence =>
    /\ op[evidence[e].op] # NoOp
    /\ evidence[e].attempt # NoID =>
         attempt[evidence[e].attempt].op = evidence[e].op

VerificationsLinked ==
  \A v \in VerificationIds : verification[v] # NoVerification =>
    /\ verification[v].evidence # {}
    /\ \A e \in verification[v].evidence :
         /\ evidence[e].op = verification[v].op
         /\ evidence[e].attempt = verification[v].attempt

RevocationsLinked ==
  \A a \in Attempts : revocation[a] # NoRevocation =>
    /\ attempt[a].op = revocation[a].op
    /\ evidence[revocation[a].evidence].attempt = a
    /\ evidence[revocation[a].evidence].kind = LossKind

Numbered == AttemptsNumbered /\ GenerationsFilled /\ FreshUntilReady
Linked   == EvidenceLinked /\ VerificationsLinked /\ RevocationsLinked

HInv ==
  /\ IInv
  /\ Numbered
  /\ ExecutingIsRunning
  /\ RetryIsJustified
  /\ Linked
  /\ TasksSettled

-----------------------------------------------------------------------------
(* Rows.                                                                    *)
LEMMA AttemptRow ==
  ASSUME IInv, NEW a \in Attempts
  PROVE  /\ attempt[a] # NoAttempt => /\ attempt[a] \in AttemptRows
                                      /\ attempt[a].op \in Ops
                                      /\ attempt[a].gen \in 1..MaxInt64
         /\ attempt[a].op \in Ops => attempt[a] # NoAttempt
<1>1. attempt[a] \in AttemptRows \cup {NoAttempt}
  BY DEF IInv, TypeOK
<1>. QED
  BY <1>1, IdentifierAssumption DEF AttemptRows, NoAttempt

LEMMA OperationRow ==
  ASSUME IInv, NEW o \in Ops
  PROVE  /\ op[o] # NoOp => op[o] \in OpRows
         /\ op[o].state # "absent" => op[o] # NoOp
         /\ op[o].gen \in 0..MaxInt64
         /\ op[o] = NoOp => op[o].gen = 0 /\ op[o].active = NoID
<1>1. op[o] \in OpRows \cup {NoOp}
  BY DEF IInv, TypeOK
<1>. QED
  BY <1>1, MaxInt64Assumption DEF OpRows, NoOp

LEMMA PresentOperation ==
  ASSUME NEW row \in OpRows
  PROVE  row # NoOp /\ row.desc \in Descriptors /\ row.desc.task \in Tasks
         /\ row.rev \in 1..MaxInt64 /\ row.gen \in 0..MaxInt64
BY DescriptorTyped DEF OpRows, NoOp, OperationStates

(* The active attempt of one operation is not that of another.              *)
LEMMA ActiveAttemptOwn ==
  ASSUME IInv, NEW o \in Ops, op[o].state \in InFlightStates
  PROVE  /\ op[o].active \in Attempts
         /\ attempt[op[o].active].op = o
         /\ attempt[op[o].active].gen = op[o].gen
         /\ attempt[op[o].active] # NoAttempt
BY ActiveAttemptRow, AttemptRow DEF IInv, ActiveAttemptLinked

-----------------------------------------------------------------------------
(* What the steps of one operation have in common.                          *)

(* The operation moves on to its next revision; rows of other operations,   *)
(* their attempts and their reservations stay, and so do all tasks.         *)
OperationSteps(o) ==
  /\ op[o] \in OpRows
  /\ op'[o] \in OpRows
  /\ op[o].state \notin TerminalOperationStates
  /\ op'[o].desc = op[o].desc
  /\ op'[o].rev = op[o].rev + 1
  /\ \A x \in Ops \ {o} : op'[x] = op[x]
  /\ \A a \in Attempts : attempt'[a] # attempt[a] =>
       /\ attempt'[a].op = o
       /\ attempt[a] = NoAttempt \/ attempt[a].op = o
  /\ \A s \in Scopes : reservation'[s] # reservation[s] =>
       /\ reservation[s] = NoReservation \/ reservation[s].op = o
       /\ reservation'[s] = NoReservation \/ reservation'[s].op = o
  /\ UNCHANGED task

(* No attempt appears or goes, and an attempt keeps what it was granted.    *)
AttemptsKept ==
  \A a \in Attempts :
    /\ attempt'[a] = NoAttempt <=> attempt[a] = NoAttempt
    /\ attempt'[a].op = attempt[a].op
    /\ attempt'[a].gen = attempt[a].gen
    /\ attempt'[a].retryOf = attempt[a].retryOf

(* Only the active attempt is marked.                                       *)
MarksActive(o, mark) ==
  \A a \in Attempts : attempt'[a] # attempt[a] =>
    a = op[o].active /\ attempt'[a].state = mark

(* The new attempt becomes the active one, and no other attempt changes.    *)
Activates(o, a) ==
  /\ op'[o].active = a
  /\ attempt[a] = NoAttempt
  /\ \A b \in Attempts \ {a} : attempt'[b] = attempt[b]

LEMMA MoveSteps ==
  ASSUME IInv, NEW o \in Ops, NEW rev, NEW to, NEW mark \in AttemptStates \cup {KeepState},
         to # "executing", MoveOperation(o, rev, to, mark), UNCHANGED task
  PROVE  /\ OperationSteps(o)
         /\ AttemptsKept
         /\ <<op[o].state, to>> \in AllowedTransitions
         /\ op'[o].state = to
         /\ op'[o].gen = op[o].gen
         /\ op'[o].active \in {op[o].active, NoID}
         /\ MarksActive(o, mark)
<1>. DEFINE row == Transition(op[o], to)
<1>1. /\ CanTransition(op[o], rev, to)
      /\ op' = [op EXCEPT ![o] = row]
      /\ attempt' = [a \in Attempts |->
                       IF a = op[o].active /\ mark # KeepState
                         THEN [attempt[a] EXCEPT !.state = mark]
                         ELSE attempt[a]]
      /\ reservation' = IF HoldsConflictReservation(row)
                          THEN reservation ELSE Released(o)
  BY DEF MoveOperation
<1>2. op[o] \in OpRows \cup {NoOp}
  BY DEF IInv, TypeOK
<1>3. /\ op[o] \in OpRows
      /\ row \in OpRows
      /\ row.desc = op[o].desc
      /\ row.state = to
      /\ row.rev = op[o].rev + 1
      /\ row.gen = op[o].gen
  BY <1>1, <1>2, TransitionRow
<1>4. row.active \in {op[o].active, NoID}
  BY <1>1, <1>2, TransitionRow
<1>5. <<op[o].state, to>> \in AllowedTransitions
  BY <1>1 DEF CanTransition
<1>6. op[o].state \notin TerminalOperationStates
  BY <1>5 DEF AllowedTransitions, TerminalOperationStates
<1>. HIDE DEF row
<1>7. op'[o] = row /\ \A x \in Ops \ {o} : op'[x] = op[x]
  BY <1>1 DEF IInv, TypeOK
<1>8. \A a \in Attempts : attempt'[a] # attempt[a] =>
        /\ a = op[o].active
        /\ attempt'[a] = [attempt[a] EXCEPT !.state = mark]
  BY <1>1
<1>9. op[o].active # NoID =>
        attempt[op[o].active].op = o /\ attempt[op[o].active] \in AttemptRows
  BY ActiveAttemptRow DEF IInv, ActiveAttemptLinked
<1>10. \A a \in Attempts : attempt'[a] # attempt[a] =>
         /\ attempt[a] \in AttemptRows
         /\ attempt'[a] \in AttemptRows
         /\ attempt[a].op = o
         /\ attempt'[a].op = attempt[a].op
         /\ attempt'[a].gen = attempt[a].gen
         /\ attempt'[a].retryOf = attempt[a].retryOf
         /\ attempt'[a].state = mark
  <2>. SUFFICES ASSUME NEW a \in Attempts, attempt'[a] # attempt[a]
                PROVE  /\ attempt[a] \in AttemptRows
                       /\ attempt'[a] \in AttemptRows
                       /\ attempt[a].op = o
                       /\ attempt'[a].op = attempt[a].op
                       /\ attempt'[a].gen = attempt[a].gen
                       /\ attempt'[a].retryOf = attempt[a].retryOf
                       /\ attempt'[a].state = mark
    OBVIOUS
  <2>1. a = op[o].active /\ mark # KeepState
    BY <1>1
  <2>2. attempt'[a] = [attempt[a] EXCEPT !.state = mark]
    BY <1>8
  <2>3. attempt[a] \in AttemptRows /\ attempt[a].op = o
    BY <1>9, <2>1, IdentifierAssumption
  <2>4. mark \in AttemptStates
    BY <2>1
  <2>. QED
    BY <2>2, <2>3, <2>4 DEF AttemptRows
<1>11. AttemptsKept
  <2>1. \A r \in AttemptRows : r # NoAttempt
    BY IdentifierAssumption DEF AttemptRows, NoAttempt
  <2>. QED
    BY <1>10, <2>1 DEF AttemptsKept
<1>12. \A s \in Scopes : reservation'[s] # reservation[s] =>
         reservation[s].op = o /\ reservation'[s] = NoReservation
  BY <1>1 DEF Released
<1>13. OperationSteps(o)
  BY <1>3, <1>6, <1>7, <1>10, <1>12 DEF OperationSteps
<1>14. MarksActive(o, mark)
  BY <1>8, <1>10 DEF MarksActive
<1>. QED
  BY <1>3, <1>4, <1>5, <1>7, <1>11, <1>13, <1>14

(* The same of a grant, which adds an attempt.                              *)
LEMMA GrantSteps ==
  ASSUME IInv, NEW o \in Ops, NEW rev, NEW a \in Attempts, NEW l \in Leases,
         NEW w \in Actors, NEW retry \in Attempts \cup {NoID},
         Grant(o, rev, a, l, w, retry), UNCHANGED task
  PROVE  /\ OperationSteps(o)
         /\ op[o].state = "ready"
         /\ op'[o].state = "executing"
         /\ op'[o].gen = op[o].gen + 1
         /\ Activates(o, a)
         /\ attempt'[a] = [op |-> o, lease |-> l, gen |-> op[o].gen + 1,
                           owner |-> w, retryOf |-> retry, state |-> "running"]
         /\ op[o].rev = rev
<1>. DEFINE row == StartedOperation(op[o], a)
            granting == [op |-> o, lease |-> l, gen |-> op[o].gen + 1,
                         owner |-> w, retryOf |-> retry, state |-> "running"]
            held == [op |-> o, attempt |-> a, lease |-> l, gen |-> op[o].gen + 1]
<1>1. /\ CanStartAttempt(op[o], rev, a)
      /\ attempt[a] = NoAttempt
      /\ op[o].desc.effect = "mutation" =>
           \A s \in op[o].desc.scopes : reservation[s] = NoReservation
      /\ op' = [op EXCEPT ![o] = row]
      /\ attempt' = [attempt EXCEPT ![a] = granting]
      /\ reservation' =
           [s \in Scopes |->
              IF op[o].desc.effect = "mutation" /\ s \in op[o].desc.scopes
                THEN held ELSE reservation[s]]
  BY DEF Grant, ReservedFor
<1>2. /\ op[o] \in OpRows
      /\ op[o].state = "ready"
      /\ row \in OpRows
      /\ row.desc = op[o].desc
      /\ row.state = "executing"
      /\ row.rev = op[o].rev + 1
      /\ row.gen = op[o].gen + 1
      /\ row.active = a
  <2>1. op[o] \in OpRows \cup {NoOp}
    BY DEF IInv, TypeOK
  <2>. QED
    BY <1>1, <2>1, StartedRow
<1>3. granting.op = o /\ held.op = o
  OBVIOUS
<1>4. op[o].rev = rev
  BY <1>1 DEF CanStartAttempt, CanTransition
<1>. HIDE DEF row, granting, held
<1>5. /\ op'[o] = row
      /\ \A x \in Ops \ {o} : op'[x] = op[x]
      /\ attempt'[a] = granting
      /\ \A b \in Attempts \ {a} : attempt'[b] = attempt[b]
  BY <1>1 DEF IInv, TypeOK
<1>6. \A s \in Scopes : reservation'[s] # reservation[s] =>
        reservation[s] = NoReservation /\ reservation'[s].op = o
  BY <1>1, <1>3
<1>7. op[o].state \notin TerminalOperationStates
  BY <1>2 DEF TerminalOperationStates
<1>8. \A b \in Attempts : attempt'[b] # attempt[b] =>
        attempt'[b].op = o /\ attempt[b] = NoAttempt
  BY <1>1, <1>3, <1>5
<1>9. OperationSteps(o)
  BY <1>2, <1>5, <1>6, <1>7, <1>8 DEF OperationSteps
<1>10. Activates(o, a)
  BY <1>1, <1>2, <1>5 DEF Activates
<1>. QED
  BY <1>1, <1>2, <1>4, <1>5, <1>9, <1>10 DEF granting

(* And of a revocation, after which the attempt has lost its authority.     *)
LEMMA InvalidateSteps ==
  ASSUME IInv, NEW o \in Ops, NEW rev, NEW a \in Attempts, NEW e \in EvidenceIds,
         NEW k \in EvidenceKinds, InvalidateAttempt(o, rev, a, e, k)
  PROVE  /\ OperationSteps(o)
         /\ AttemptsKept
         /\ op[o].state \in InFlightStates
         /\ op[o].active = a
         /\ op'[o].state = "unknown_outcome"
         /\ op'[o].gen = op[o].gen
         /\ op'[o].active = a
         /\ attempt[a].op = o
         /\ attempt'[a].state = "uncertain"
         /\ \A b \in Attempts \ {a} : attempt'[b] = attempt[b]
<1>. DEFINE row == LoseExecutionCertainty(op[o])
            lost == [attempt[a] EXCEPT !.state = "uncertain"]
<1>1. /\ op[o].active = a
      /\ CanLoseExecutionCertainty(op[o], rev)
      /\ attempt' = [attempt EXCEPT ![a] = lost]
      /\ op' = [op EXCEPT ![o] = row]
      /\ UNCHANGED <<task, verification, reservation>>
  BY DEF InvalidateAttempt
<1>2. /\ op[o] \in OpRows
      /\ row \in OpRows
      /\ row.desc = op[o].desc
      /\ row.state = "unknown_outcome"
      /\ row.rev = op[o].rev + 1
      /\ row.gen = op[o].gen
      /\ row.active = op[o].active
      /\ op[o].state \in InFlightStates
  <2>1. op[o] \in OpRows \cup {NoOp}
    BY DEF IInv, TypeOK
  <2>. QED
    BY <1>1, <2>1, LostRow
<1>3. attempt[a] \in AttemptRows /\ attempt[a].op = o
  BY <1>1, IdentifierAssumption, ActiveAttemptRow DEF IInv, ActiveAttemptLinked
<1>4. /\ lost \in AttemptRows
      /\ lost.op = o
      /\ lost.gen = attempt[a].gen
      /\ lost.retryOf = attempt[a].retryOf
      /\ lost.state = "uncertain"
  BY <1>3 DEF AttemptRows, AttemptStates
<1>. HIDE DEF row, lost
<1>5. /\ op'[o] = row
      /\ \A x \in Ops \ {o} : op'[x] = op[x]
      /\ attempt'[a] = lost
      /\ \A b \in Attempts \ {a} : attempt'[b] = attempt[b]
  BY <1>1 DEF IInv, TypeOK
<1>6. \A r \in AttemptRows : r # NoAttempt
  BY IdentifierAssumption DEF AttemptRows, NoAttempt
<1>7. AttemptsKept
  BY <1>3, <1>4, <1>5, <1>6 DEF AttemptsKept
<1>8. op[o].state \notin TerminalOperationStates
  BY <1>2 DEF InFlightStates, TerminalOperationStates
<1>9. OperationSteps(o)
  BY <1>1, <1>2, <1>3, <1>4, <1>5, <1>8 DEF OperationSteps
<1>. QED
  BY <1>1, <1>2, <1>3, <1>4, <1>5, <1>7, <1>9

-----------------------------------------------------------------------------
(* What a step has to leave alone for a part of the invariant to hold on.   *)

LEMMA NumberedKept ==
  ASSUME IInv, IInv', Numbered, AttemptsKept,
         \A o \in Ops : /\ op'[o].gen = op[o].gen
                        /\ op[o] # NoOp => op'[o] # NoOp
                        /\ op'[o].state = "planned" =>
                             op[o].state = "planned" \/ op[o] = NoOp
  PROVE  Numbered'
<1>1. AttemptsNumbered'
  <2>. SUFFICES ASSUME NEW a \in Attempts, attempt'[a] # NoAttempt
                PROVE  /\ op'[attempt'[a].op] # NoOp
                       /\ attempt'[a].gen <= op'[attempt'[a].op].gen
                       /\ \A b \in Attempts :
                            attempt'[b].op = attempt'[a].op /\ attempt'[b].gen = attempt'[a].gen
                            => b = a
    BY DEF AttemptsNumbered
  <2>1. attempt[a] # NoAttempt /\ attempt[a].op \in Ops
    BY AttemptRow DEF AttemptsKept
  <2>. QED
    BY <2>1 DEF Numbered, AttemptsNumbered, AttemptsKept
<1>2. GenerationsFilled'
  BY DEF Numbered, GenerationsFilled, AttemptsKept
<1>3. FreshUntilReady'
  BY OperationRow DEF Numbered, FreshUntilReady
<1>. QED
  BY <1>1, <1>2, <1>3 DEF Numbered

(* A verification row is not overwritten.                                   *)
VerificationsKept ==
  \A v \in VerificationIds :
    verification[v] # NoVerification => verification'[v] = verification[v]

LEMMA RetryKept ==
  ASSUME IInv, RetryIsJustified, Numbered, AttemptsKept, VerificationsKept,
         \A o \in Ops : /\ op'[o].gen = op[o].gen
                        /\ op'[o].state = "ready" => op[o].state \in {"ready", "planned"}
  PROVE  RetryIsJustified'
<1>. SUFFICES ASSUME NEW a \in Attempts, attempt'[a] # NoAttempt,
                     \/ attempt'[a].gen < op'[attempt'[a].op].gen
                     \/ op'[attempt'[a].op].state = "ready"
              PROVE  \E v \in VerificationIds :
                       /\ verification'[v].op = attempt'[a].op
                       /\ verification'[v].attempt = a
                       /\ verification'[v].verdict = "not_satisfied_retryable"
                       /\ verification'[v].safe
  BY DEF RetryIsJustified
<1>. DEFINE o == attempt[a].op
<1>1. /\ attempt[a] # NoAttempt
      /\ o \in Ops
      /\ attempt[a].gen \in 1..MaxInt64
      /\ attempt'[a].op = o
      /\ attempt'[a].gen = attempt[a].gen
  BY AttemptRow DEF AttemptsKept
<1>2. op[o].state # "planned"
  <2>1. attempt[a].gen <= op[o].gen
    BY <1>1 DEF Numbered, AttemptsNumbered
  <2>2. op[o].gen # 0
    BY <1>1, <2>1
  <2>. QED
    BY <1>1, <2>2 DEF Numbered, FreshUntilReady
<1>3. attempt[a].gen < op[o].gen \/ op[o].state = "ready"
  BY <1>1, <1>2
<1>4. PICK v \in VerificationIds : /\ verification[v].op = o
                                   /\ verification[v].attempt = a
                                   /\ verification[v].verdict = "not_satisfied_retryable"
                                   /\ verification[v].safe
  BY <1>1, <1>3 DEF RetryIsJustified
<1>5. verification'[v] = verification[v]
  BY <1>4 DEF VerificationsKept, NoVerification
<1>. QED
  BY <1>1, <1>4, <1>5

(* The evidence that a step adds is of an operation and of an attempt of it. *)
EvidenceGrows ==
  \A e \in EvidenceIds : evidence'[e] # evidence[e] =>
    /\ evidence[e] = NoEvidence
    /\ op'[evidence'[e].op] # NoOp
    /\ evidence'[e].attempt # NoID =>
         attempt'[evidence'[e].attempt].op = evidence'[e].op

(* Rows of operations stay, and so does what the rows of attempts are of.   *)
OwnersKept ==
  /\ \A o \in Ops : op[o] # NoOp => op'[o] # NoOp
  /\ \A a \in Attempts : attempt[a] # NoAttempt => attempt'[a].op = attempt[a].op

LEMMA EvidenceLinkedKept ==
  ASSUME IInv, EvidenceLinked, EvidenceGrows, OwnersKept
  PROVE  EvidenceLinked'
<1>. SUFFICES ASSUME NEW e \in EvidenceIds, evidence'[e] # NoEvidence
              PROVE  /\ op'[evidence'[e].op] # NoOp
                     /\ evidence'[e].attempt # NoID =>
                          attempt'[evidence'[e].attempt].op = evidence'[e].op
  BY DEF EvidenceLinked
<1>1. CASE evidence'[e] # evidence[e]
  BY <1>1 DEF EvidenceGrows
<1>2. CASE evidence'[e] = evidence[e]
  <2>1. evidence[e] \in EvidenceRows
    BY <1>2 DEF IInv, TypeOK
  <2>2. evidence[e].op \in Ops /\ evidence[e].attempt \in Attempts \cup {NoID}
    BY <2>1 DEF EvidenceRows
  <2>3. /\ op[evidence[e].op] # NoOp
        /\ evidence[e].attempt # NoID => attempt[evidence[e].attempt].op = evidence[e].op
    BY <1>2 DEF EvidenceLinked
  <2>4. op'[evidence[e].op] # NoOp
    BY <2>2, <2>3 DEF OwnersKept
  <2>5. ASSUME evidence[e].attempt # NoID
        PROVE  attempt'[evidence[e].attempt].op = evidence[e].op
    <3>1. evidence[e].attempt \in Attempts /\ attempt[evidence[e].attempt].op \in Ops
      BY <2>2, <2>3, <2>5
    <3>2. attempt[evidence[e].attempt] # NoAttempt
      BY <3>1, AttemptRow
    <3>. QED
      BY <2>3, <2>5, <3>1, <3>2 DEF OwnersKept
  <2>. QED
    BY <1>2, <2>4, <2>5
<1>. QED
  BY <1>1, <1>2

(* What a verification cites stays, because no evidence is overwritten.     *)
LEMMA CitedEvidenceKept ==
  ASSUME IInv, VerificationsLinked, EvidenceGrows, NEW v \in VerificationIds,
         verification[v] # NoVerification
  PROVE  /\ verification[v].evidence # {}
         /\ \A e \in verification[v].evidence :
              /\ evidence'[e].op = verification[v].op
              /\ evidence'[e].attempt = verification[v].attempt
<1>1. verification[v] \in VerificationRows
  BY DEF IInv, TypeOK
<1>2. verification[v].op \in Ops /\ verification[v].evidence \subseteq EvidenceIds
  BY <1>1 DEF VerificationRows
<1>3. \A e \in verification[v].evidence : evidence'[e] = evidence[e]
  <2>. TAKE e \in verification[v].evidence
  <2>1. evidence[e].op \in Ops /\ e \in EvidenceIds
    BY <1>2 DEF VerificationsLinked
  <2>2. evidence[e] # NoEvidence
    BY <2>1, IdentifierAssumption DEF NoEvidence
  <2>. QED
    BY <2>1, <2>2 DEF EvidenceGrows
<1>. QED
  BY <1>3 DEF VerificationsLinked

LEMMA VerificationsLinkedKept ==
  ASSUME IInv, VerificationsLinked, EvidenceGrows, UNCHANGED verification
  PROVE  VerificationsLinked'
BY CitedEvidenceKept DEF VerificationsLinked

(* So does what a revocation cites.                                         *)
LEMMA RevokingEvidenceKept ==
  ASSUME IInv, RevocationsLinked, EvidenceGrows, OwnersKept, NEW a \in Attempts,
         revocation[a] # NoRevocation
  PROVE  /\ attempt'[a].op = revocation[a].op
         /\ evidence'[revocation[a].evidence].attempt = a
         /\ evidence'[revocation[a].evidence].kind = LossKind
<1>1. revocation[a] \in RevocationRows
  BY DEF IInv, TypeOK
<1>2. revocation[a].op \in Ops /\ revocation[a].evidence \in EvidenceIds
  BY <1>1 DEF RevocationRows
<1>3. /\ attempt[a].op = revocation[a].op
      /\ evidence[revocation[a].evidence].attempt = a
      /\ evidence[revocation[a].evidence].kind = LossKind
  BY DEF RevocationsLinked
<1>4. attempt'[a].op = attempt[a].op
  BY <1>2, <1>3, AttemptRow DEF OwnersKept
<1>5. evidence[revocation[a].evidence] # NoEvidence
  BY <1>3, IdentifierAssumption DEF NoEvidence
<1>6. evidence'[revocation[a].evidence] = evidence[revocation[a].evidence]
  BY <1>2, <1>5 DEF EvidenceGrows
<1>. QED
  BY <1>3, <1>4, <1>6

LEMMA RevocationsLinkedKept ==
  ASSUME IInv, RevocationsLinked, EvidenceGrows, OwnersKept, UNCHANGED revocation
  PROVE  RevocationsLinked'
BY RevokingEvidenceKept DEF RevocationsLinked

LEMMA LinkedKept ==
  ASSUME IInv, Linked, EvidenceGrows, OwnersKept, UNCHANGED <<verification, revocation>>
  PROVE  Linked'
BY EvidenceLinkedKept, VerificationsLinkedKept, RevocationsLinkedKept DEF Linked

(* No task gets or keeps a settled state that its operations do not have.   *)
LEMMA TasksSettledKept ==
  ASSUME TasksSettled,
         \A t \in Tasks : Terminal(t)' => task'[t] = task[t],
         \A o \in Ops : \/ op'[o] = op[o]
                        \/ op'[o] = NoOp
                        \/ task'[op'[o].desc.task].state \notin TerminalTaskStates
  PROVE  TasksSettled'
<1>. SUFFICES ASSUME NEW t \in Tasks, task'[t].state \in TerminalTaskStates,
                     NEW o \in Ops, op'[o] # NoOp, op'[o].desc.task = t
              PROVE  /\ op'[o].state \in TerminalOperationStates
                     /\ task'[t].state = "completed" => op'[o].state = "succeeded"
  BY DEF TasksSettled, TaskOps, Terminal
<1>1. task'[t] = task[t] /\ op'[o] = op[o]
  BY DEF Terminal
<1>. QED
  BY <1>1 DEF TasksSettled, TaskOps, Terminal

(* An operation that can move is of a task that is open.                    *)
LEMMA MovingTaskIsOpen ==
  ASSUME TasksSettled, NEW o \in Ops, op[o] \in OpRows,
         op[o].state \notin TerminalOperationStates
  PROVE  ~Terminal(op[o].desc.task)
<1>1. op[o] # NoOp /\ op[o].desc.task \in Tasks
  BY PresentOperation
<1>. QED
  BY <1>1 DEF TasksSettled, TaskOps

LEMMA SettledByStep ==
  ASSUME TasksSettled, NEW o \in Ops, OperationSteps(o)
  PROVE  TasksSettled'
<1>1. ~Terminal(op[o].desc.task)
  BY MovingTaskIsOpen DEF OperationSteps
<1>2. \A x \in Ops : \/ op'[x] = op[x]
                     \/ task'[op'[x].desc.task].state \notin TerminalTaskStates
  BY <1>1 DEF OperationSteps, Terminal
<1>3. \A t \in Tasks : task'[t] = task[t]
  BY DEF OperationSteps
<1>. QED
  BY <1>2, <1>3, TasksSettledKept

LEMMA ExecutingKept ==
  ASSUME IInv, ExecutingIsRunning,
         \A o \in Ops : op'[o].state = "executing" =>
           /\ op'[o] = op[o]
           /\ \A a \in Attempts : attempt[a].op = o => attempt'[a] = attempt[a]
  PROVE  ExecutingIsRunning'
<1>. SUFFICES ASSUME NEW o \in Ops, op'[o].state = "executing"
              PROVE  attempt'[op'[o].active].state = "running"
  BY DEF ExecutingIsRunning
<1>1. op'[o] = op[o] /\ op[o].state = "executing"
  OBVIOUS
<1>2. op[o].active \in Attempts /\ attempt[op[o].active].op = o
  BY <1>1, ActiveAttemptOwn DEF InFlightStates
<1>3. attempt'[op[o].active] = attempt[op[o].active]
  BY <1>2
<1>. QED
  BY <1>1, <1>3 DEF ExecutingIsRunning

LEMMA ExecutingByStep ==
  ASSUME IInv, ExecutingIsRunning, NEW o \in Ops, OperationSteps(o),
         op'[o].state # "executing"
  PROVE  ExecutingIsRunning'
<1>1. \A x \in Ops : op'[x].state = "executing" =>
        /\ op'[x] = op[x]
        /\ \A a \in Attempts : attempt[a].op = x => attempt'[a] = attempt[a]
  <2>. SUFFICES ASSUME NEW x \in Ops, op'[x].state = "executing"
                PROVE  /\ op'[x] = op[x]
                       /\ \A a \in Attempts : attempt[a].op = x => attempt'[a] = attempt[a]
    OBVIOUS
  <2>1. x # o
    OBVIOUS
  <2>2. \A a \in Attempts : attempt[a].op = x => attempt[a] # NoAttempt
    BY IdentifierAssumption DEF NoAttempt
  <2>. QED
    BY <2>1, <2>2 DEF OperationSteps
<1>. QED
  BY <1>1, ExecutingKept

(* A move of the operation keeps all but what it newly decides.             *)
LEMMA OwnersKeptByStep ==
  ASSUME IInv, NEW o \in Ops, OperationSteps(o)
  PROVE  OwnersKept
<1>1. op'[o] # NoOp
  BY PresentOperation DEF OperationSteps
<1>. QED
  BY <1>1 DEF OperationSteps, OwnersKept

-----------------------------------------------------------------------------
(* One lemma per action.                                                    *)

LEMMA InitHistory == Init => HInv
<1>. SUFFICES ASSUME Init PROVE HInv
  OBVIOUS
<1>1. IInv
  BY InitInvariant
<1>2. /\ \A o \in Ops : op[o] = NoOp /\ op[o].state = "absent" /\ op[o].gen = 0
      /\ \A a \in Attempts : attempt[a] = NoAttempt
  BY DEF Init, NoOp
<1>3. Numbered
  BY <1>2 DEF Numbered, AttemptsNumbered, GenerationsFilled, FreshUntilReady
<1>4. ExecutingIsRunning
  BY <1>2 DEF ExecutingIsRunning
<1>5. RetryIsJustified
  BY <1>2 DEF RetryIsJustified
<1>6. Linked
  BY DEF Init, Linked, EvidenceLinked, VerificationsLinked, RevocationsLinked
<1>7. TasksSettled
  BY <1>2 DEF TasksSettled, TaskOps
<1>. QED
  BY <1>1, <1>3, <1>4, <1>5, <1>6, <1>7 DEF HInv

(* Calls that only add tasks, or settle one.                                *)
LEMMA TaskStepKeeps ==
  ASSUME HInv, UNCHANGED <<op, attempt, evidence, verification, revocation>>
  PROVE  /\ Numbered'
         /\ ExecutingIsRunning'
         /\ RetryIsJustified'
         /\ Linked'
<1>1. Numbered'
  BY DEF HInv, Numbered, AttemptsNumbered, GenerationsFilled, FreshUntilReady
<1>2. ExecutingIsRunning'
  BY DEF HInv, ExecutingIsRunning
<1>3. RetryIsJustified'
  BY DEF HInv, RetryIsJustified
<1>4. Linked'
  BY DEF HInv, Linked, EvidenceLinked, VerificationsLinked, RevocationsLinked
<1>. QED
  BY <1>1, <1>2, <1>3, <1>4

LEMMA CreateTaskHistory ==
  ASSUME HInv, NEW t \in Tasks, CreateTask(t)
  PROVE  HInv'
<1>1. /\ task' = [task EXCEPT ![t] = [state |-> "planned", rev |-> 1]]
      /\ UNCHANGED <<op, attempt, evidence, verification, revocation, reservation>>
  BY DEF CreateTask
<1>2. IInv'
  BY CreateTaskInvariant DEF HInv
<1>3. \A x \in Tasks : Terminal(x)' => task'[x] = task[x]
  BY <1>1 DEF HInv, IInv, TypeOK, Terminal, TerminalTaskStates
<1>4. TasksSettled'
  BY <1>1, <1>3, TasksSettledKept DEF HInv
<1>. QED
  BY <1>1, <1>2, <1>4, TaskStepKeeps DEF HInv

LEMMA FinalizeTaskHistory ==
  ASSUME HInv, NEW t \in Tasks, NEW rev \in Revisions, FinalizeTask(t, rev)
  PROVE  HInv'
<1>1. /\ Pending(t) = {}
      /\ Failed(t) # {} \/ Cancelled(t) \in {{}, TaskOps(t)}
      /\ task' = [task EXCEPT ![t] = [state |-> FinalState(t), rev |-> rev + 1]]
      /\ UNCHANGED <<op, attempt, evidence, verification, revocation, reservation>>
  BY DEF FinalizeTask
<1>2. IInv'
  BY FinalizeTaskInvariant DEF HInv
<1>3. \A o \in TaskOps(t) : op[o].state \in TerminalOperationStates
  BY <1>1 DEF Pending
<1>4. FinalState(t) = "completed" => \A o \in TaskOps(t) : op[o].state = "succeeded"
  <2>. SUFFICES ASSUME FinalState(t) = "completed", NEW o \in TaskOps(t)
                PROVE  op[o].state = "succeeded"
    OBVIOUS
  <2>1. Failed(t) = {} /\ Cancelled(t) # TaskOps(t)
    BY DEF FinalState
  <2>2. Cancelled(t) = {}
    BY <1>1, <2>1
  <2>. QED
    BY <1>3, <2>1, <2>2 DEF Failed, Cancelled, TerminalOperationStates
<1>5. /\ task'[t].state = FinalState(t)
      /\ \A x \in Tasks : x # t => task'[x] = task[x]
  BY <1>1 DEF HInv, IInv, TypeOK
<1>6. TasksSettled'
  <2>. SUFFICES ASSUME NEW x \in Tasks, task'[x].state \in TerminalTaskStates,
                       NEW o \in TaskOps(x)
                PROVE  /\ op[o].state \in TerminalOperationStates
                       /\ task'[x].state = "completed" => op[o].state = "succeeded"
    BY <1>1 DEF TasksSettled, TaskOps, Terminal
  <2>1. CASE x = t
    BY <1>3, <1>4, <1>5, <2>1
  <2>2. CASE x # t
    BY <1>5, <2>2 DEF HInv, TasksSettled, Terminal
  <2>. QED
    BY <2>1, <2>2
<1>. QED
  BY <1>1, <1>2, <1>6, TaskStepKeeps DEF HInv

LEMMA CreateOperationHistory ==
  ASSUME HInv, NEW d \in Descriptors, CreateOperation(d)
  PROVE  HInv'
<1>. DEFINE row == [desc |-> d, state |-> "planned", rev |-> 1, gen |-> 0,
                    active |-> NoID]
<1>1. /\ ~Terminal(d.task)
      /\ op[d.id] = NoOp
      /\ op' = [op EXCEPT ![d.id] = row]
      /\ UNCHANGED <<task, attempt, evidence, verification, revocation, reservation>>
  BY DEF CreateOperation
<1>2. IInv'
  BY CreateOperationInvariant DEF HInv
<1>3. /\ row.desc = d /\ row.state = "planned" /\ row.gen = 0
      /\ row # NoOp
  BY DEF NoOp
<1>. HIDE DEF row
<1>4. /\ d.id \in Ops
      /\ op'[d.id] = row
      /\ \A x \in Ops : x # d.id => op'[x] = op[x]
  BY <1>1, DescriptorTyped DEF HInv, IInv, TypeOK
<1>5. op[d.id].gen = 0
  BY <1>1 DEF NoOp
<1>6. AttemptsKept
  BY <1>1 DEF AttemptsKept
<1>7. Numbered'
  <2>1. \A o \in Ops : /\ op'[o].gen = op[o].gen
                       /\ op[o] # NoOp => op'[o] # NoOp
                       /\ op'[o].state = "planned" => op[o].state = "planned" \/ op[o] = NoOp
    BY <1>1, <1>3, <1>4, <1>5
  <2>. QED
    BY <1>2, <1>6, <2>1, NumberedKept DEF HInv
<1>8. RetryIsJustified'
  <2>1. \A o \in Ops : /\ op'[o].gen = op[o].gen
                       /\ op'[o].state = "ready" => op[o].state \in {"ready", "planned"}
    BY <1>1, <1>3, <1>4, <1>5
  <2>2. VerificationsKept
    BY <1>1 DEF VerificationsKept
  <2>. QED
    BY <1>6, <2>1, <2>2, RetryKept DEF HInv
<1>9. Linked'
  <2>1. EvidenceGrows
    BY <1>1 DEF EvidenceGrows
  <2>2. OwnersKept
    BY <1>1, <1>3, <1>4 DEF OwnersKept
  <2>. QED
    BY <1>1, <2>1, <2>2, LinkedKept DEF HInv
<1>10. ExecutingIsRunning'
  <2>1. \A o \in Ops : op'[o].state = "executing" =>
          /\ op'[o] = op[o]
          /\ \A a \in Attempts : attempt[a].op = o => attempt'[a] = attempt[a]
    BY <1>1, <1>3, <1>4
  <2>. QED
    BY <2>1, ExecutingKept DEF HInv
<1>11. TasksSettled'
  <2>1. \A o \in Ops : \/ op'[o] = op[o]
                       \/ task'[op'[o].desc.task].state \notin TerminalTaskStates
    BY <1>1, <1>3, <1>4 DEF Terminal
  <2>. QED
    BY <1>1, <2>1, TasksSettledKept DEF HInv
<1>. QED
  BY <1>2, <1>7, <1>8, <1>9, <1>10, <1>11 DEF HInv

(* A move of an operation that leads back to ready only from planned, with  *)
(* the evidence it may add: MarkReady, BeginVerification,                   *)
(* MarkUnknownOutcome, RecordWorkerReport and InvalidateAttempt.            *)
LEMMA StepHistory ==
  ASSUME HInv, IInv', NEW o \in Ops, OperationSteps(o), AttemptsKept,
         op'[o].gen = op[o].gen,
         op'[o].state \notin {"planned", "executing"},
         op'[o].state = "ready" => op[o].state = "planned",
         UNCHANGED verification
  PROVE  Numbered' /\ ExecutingIsRunning' /\ RetryIsJustified' /\ TasksSettled' /\ OwnersKept
<1>1. \A x \in Ops : x # o => op'[x] = op[x]
  BY DEF OperationSteps
<1>2. OwnersKept
  BY OwnersKeptByStep DEF HInv
<1>3. Numbered'
  <2>1. \A x \in Ops : /\ op'[x].gen = op[x].gen
                       /\ op[x] # NoOp => op'[x] # NoOp
                       /\ op'[x].state = "planned" => op[x].state = "planned" \/ op[x] = NoOp
    BY <1>1, <1>2 DEF OwnersKept
  <2>. QED
    BY <2>1, NumberedKept DEF HInv
<1>4. RetryIsJustified'
  <2>1. \A x \in Ops : /\ op'[x].gen = op[x].gen
                       /\ op'[x].state = "ready" => op[x].state \in {"ready", "planned"}
    BY <1>1
  <2>2. VerificationsKept
    BY DEF VerificationsKept
  <2>. QED
    BY <2>1, <2>2, RetryKept DEF HInv
<1>5. ExecutingIsRunning'
  BY ExecutingByStep DEF HInv
<1>6. TasksSettled'
  BY SettledByStep DEF HInv
<1>. QED
  BY <1>2, <1>3, <1>4, <1>5, <1>6

(* The moves that add no records.                                           *)
LEMMA MoveHistory ==
  ASSUME HInv, IInv', NEW o \in Ops, NEW rev, NEW to,
         NEW mark \in AttemptStates \cup {KeepState},
         to \notin {"planned", "executing"},
         to = "ready" => op[o].state = "planned",
         MoveOperation(o, rev, to, mark),
         UNCHANGED <<task, evidence, verification, revocation>>
  PROVE  HInv'
<1>1. /\ OperationSteps(o)
      /\ AttemptsKept
      /\ op'[o].state = to
      /\ op'[o].gen = op[o].gen
  BY MoveSteps DEF HInv
<1>2. Numbered' /\ ExecutingIsRunning' /\ RetryIsJustified' /\ TasksSettled' /\ OwnersKept
  BY <1>1, StepHistory
<1>3. EvidenceGrows
  BY DEF EvidenceGrows
<1>4. Linked'
  BY <1>2, <1>3, LinkedKept DEF HInv
<1>. QED
  BY <1>2, <1>4 DEF HInv

LEMMA MarkReadyHistory ==
  ASSUME HInv, NEW o \in Ops, NEW rev, MarkReady(o, rev)
  PROVE  HInv'
<1>1. IInv'
  BY MarkReadyInvariant DEF HInv
<1>. QED
  BY <1>1, MoveHistory DEF MarkReady

LEMMA BeginVerificationHistory ==
  ASSUME HInv, NEW o \in Ops, NEW rev, BeginVerification(o, rev)
  PROVE  HInv'
<1>. DEFINE mark == IF op[o].state = "executing" THEN "reported" ELSE KeepState
<1>1. IInv'
  BY BeginVerificationInvariant DEF HInv
<1>2. mark \in AttemptStates \cup {KeepState}
  BY DEF AttemptStates
<1>3. /\ MoveOperation(o, rev, "verifying", mark)
      /\ UNCHANGED <<task, evidence, verification, revocation>>
  BY DEF BeginVerification
<1>. HIDE DEF mark
<1>. QED
  BY <1>1, <1>2, <1>3, MoveHistory

LEMMA MarkUnknownOutcomeHistory ==
  ASSUME HInv, NEW o \in Ops, NEW rev, MarkUnknownOutcome(o, rev)
  PROVE  HInv'
<1>1. IInv'
  BY MarkUnknownOutcomeInvariant DEF HInv
<1>2. "uncertain" \in AttemptStates
  BY DEF AttemptStates
<1>. QED
  BY <1>1, <1>2, MoveHistory DEF MarkUnknownOutcome

(* A new evidence record keeps the evidence complete.                       *)
LEMMA AdmittedEvidenceGrows ==
  ASSUME IInv, NEW e \in EvidenceIds, NEW o \in Ops, NEW a \in Attempts \cup {NoID},
         NEW k, EvidenceAdmissible(e, o, a), AddEvidence(e, o, a, k), OwnersKept
  PROVE  /\ EvidenceGrows
         /\ evidence'[e] = [op |-> o, attempt |-> a, kind |-> k]
         /\ \A x \in EvidenceIds \ {e} : evidence'[x] = evidence[x]
<1>1. /\ op[o] # NoOp
      /\ a # NoID => attempt[a].op = o
      /\ evidence[e] = NoEvidence
  BY DEF EvidenceAdmissible
<1>2. /\ evidence'[e] = [op |-> o, attempt |-> a, kind |-> k]
      /\ \A x \in EvidenceIds \ {e} : evidence'[x] = evidence[x]
  BY DEF AddEvidence, IInv, TypeOK
<1>3. op'[o] # NoOp
  BY <1>1 DEF OwnersKept
<1>4. a # NoID => attempt'[a].op = o
  BY <1>1, AttemptRow DEF OwnersKept
<1>5. EvidenceGrows
  BY <1>1, <1>2, <1>3, <1>4 DEF EvidenceGrows
<1>. QED
  BY <1>2, <1>5

LEMMA RegisterEvidenceHistory ==
  ASSUME HInv, NEW e \in EvidenceIds, NEW o \in Ops, NEW a \in Attempts \cup {NoID},
         NEW k \in EvidenceKinds, RegisterEvidence(e, o, a, k)
  PROVE  HInv'
<1>1. /\ EvidenceAdmissible(e, o, a)
      /\ AddEvidence(e, o, a, k)
      /\ UNCHANGED <<task, op, attempt, verification, revocation, reservation>>
  BY DEF RegisterEvidence
<1>2. IInv'
  BY RegisterEvidenceInvariant DEF HInv
<1>3. OwnersKept
  BY <1>1 DEF OwnersKept
<1>4. Linked'
  BY <1>1, <1>3, AdmittedEvidenceGrows, LinkedKept DEF HInv
<1>5. Numbered'
  BY <1>1 DEF HInv, Numbered, AttemptsNumbered, GenerationsFilled, FreshUntilReady
<1>6. ExecutingIsRunning'
  BY <1>1 DEF HInv, ExecutingIsRunning
<1>7. RetryIsJustified'
  BY <1>1 DEF HInv, RetryIsJustified
<1>8. TasksSettled'
  BY <1>1 DEF HInv, TasksSettled, TaskOps, Terminal
<1>. QED
  BY <1>2, <1>4, <1>5, <1>6, <1>7, <1>8 DEF HInv

LEMMA RecordWorkerReportHistory ==
  ASSUME HInv, NEW e \in EvidenceIds, NEW a \in Attempts, NEW inTime \in BOOLEAN,
         RecordWorkerReport(e, a, inTime)
  PROVE  HInv'
<1>. DEFINE o == attempt[a].op
<1>1. /\ attempt[a] # NoAttempt
      /\ EvidenceAdmissible(e, o, a)
      /\ AddEvidence(e, o, a, WorkerReportKind)
      /\ UNCHANGED <<task, verification, revocation>>
  BY DEF RecordWorkerReport
<1>2. o \in Ops
  BY <1>1, AttemptRow DEF HInv
<1>3. IInv'
  BY RecordWorkerReportInvariant DEF HInv
<1>4. CASE MoveOperation(o, op[o].rev, "verifying", "reported")
  <2>. HIDE DEF o
  <2>1. "reported" \in AttemptStates
    BY DEF AttemptStates
  <2>2. /\ OperationSteps(o)
        /\ AttemptsKept
        /\ op'[o].state = "verifying"
        /\ op'[o].gen = op[o].gen
    BY <1>1, <1>2, <1>4, <2>1, MoveSteps DEF HInv
  <2>3. Numbered' /\ ExecutingIsRunning' /\ RetryIsJustified' /\ TasksSettled' /\ OwnersKept
    BY <1>1, <1>2, <1>3, <2>2, StepHistory
  <2>4. Linked'
    BY <1>1, <1>2, <2>3, AdmittedEvidenceGrows, LinkedKept DEF HInv
  <2>. QED
    BY <1>3, <2>3, <2>4 DEF HInv
<1>5. CASE UNCHANGED <<op, attempt, reservation>>
  <2>1. OwnersKept
    BY <1>5 DEF OwnersKept
  <2>2. Linked'
    BY <1>1, <1>2, <2>1, AdmittedEvidenceGrows, LinkedKept DEF HInv
  <2>3. Numbered'
    BY <1>5 DEF HInv, Numbered, AttemptsNumbered, GenerationsFilled, FreshUntilReady
  <2>4. ExecutingIsRunning'
    BY <1>5 DEF HInv, ExecutingIsRunning
  <2>5. RetryIsJustified'
    BY <1>1, <1>5 DEF HInv, RetryIsJustified
  <2>6. TasksSettled'
    BY <1>1, <1>5 DEF HInv, TasksSettled, TaskOps, Terminal
  <2>. QED
    BY <1>3, <2>2, <2>3, <2>4, <2>5, <2>6 DEF HInv
<1>. QED
  BY <1>4, <1>5 DEF RecordWorkerReport

LEMMA InvalidateAttemptHistory ==
  ASSUME HInv, NEW o \in Ops, NEW rev, NEW a \in Attempts, NEW e \in EvidenceIds,
         NEW k \in EvidenceKinds, InvalidateAttempt(o, rev, a, e, k)
  PROVE  HInv'
<1>1. /\ revocation[a] = NoRevocation
      /\ k = LossKind
      /\ EvidenceAdmissible(e, o, a)
      /\ AddEvidence(e, o, a, k)
      /\ revocation' = [revocation EXCEPT ![a] = [op |-> o, evidence |-> e]]
      /\ UNCHANGED <<task, verification, reservation>>
  BY DEF InvalidateAttempt
<1>2. IInv'
  BY InvalidateAttemptInvariant DEF HInv
<1>3. /\ OperationSteps(o)
      /\ AttemptsKept
      /\ op'[o].state = "unknown_outcome"
      /\ op'[o].gen = op[o].gen
      /\ attempt[a].op = o
  BY InvalidateSteps DEF HInv
<1>4. Numbered' /\ ExecutingIsRunning' /\ RetryIsJustified' /\ TasksSettled' /\ OwnersKept
  BY <1>1, <1>2, <1>3, StepHistory
<1>5. EvidenceGrows /\ evidence'[e] = [op |-> o, attempt |-> a, kind |-> k]
  BY <1>1, <1>4, AdmittedEvidenceGrows DEF HInv
<1>6. EvidenceLinked' /\ VerificationsLinked'
  BY <1>1, <1>4, <1>5, EvidenceLinkedKept, VerificationsLinkedKept DEF HInv, Linked
<1>7. RevocationsLinked'
  <2>. SUFFICES ASSUME NEW b \in Attempts, revocation'[b] # NoRevocation
                PROVE  /\ attempt'[b].op = revocation'[b].op
                       /\ evidence'[revocation'[b].evidence].attempt = b
                       /\ evidence'[revocation'[b].evidence].kind = LossKind
    BY DEF RevocationsLinked
  <2>1. CASE b = a
    <3>1. revocation'[a] = [op |-> o, evidence |-> e]
      BY <1>1 DEF HInv, IInv, TypeOK
    <3>. QED
      BY <1>1, <1>3, <1>5, <2>1, <3>1 DEF AttemptsKept
  <2>2. CASE b # a
    <3>1. revocation'[b] = revocation[b]
      BY <1>1, <2>2 DEF HInv, IInv, TypeOK
    <3>. QED
      BY <1>4, <1>5, <3>1, RevokingEvidenceKept DEF HInv, Linked
  <2>. QED
    BY <2>1, <2>2
<1>. QED
  BY <1>2, <1>4, <1>6, <1>7 DEF HInv, Linked

(* A verdict: leading back to ready, it is itself the justification of a    *)
(* retry of the attempt it is about.                                        *)
LEMMA ApplyHistory ==
  ASSUME HInv, NEW o \in Ops, NEW rev, NEW v \in VerificationIds, NEW a \in Attempts,
         NEW cited \in SUBSET EvidenceIds, NEW verdict \in Verdicts,
         NEW safe \in BOOLEAN, NEW notStarted \in BOOLEAN,
         Apply(o, rev, v, a, cited, verdict, safe, notStarted)
  PROVE  HInv'
<1>. DEFINE to == VerdictState[verdict]
            mark == VerdictAttemptState(verdict, notStarted)
            row == [op |-> o, attempt |-> a, evidence |-> cited,
                    verdict |-> verdict, safe |-> safe]
<1>1. /\ op[o].active = a
      /\ cited # {}
      /\ \A e \in cited : evidence[e].op = o /\ evidence[e].attempt = a
      /\ verdict = "not_satisfied_retryable" => safe
      /\ verification[v] = NoVerification
      /\ MoveOperation(o, rev, to, mark)
      /\ verification' = [verification EXCEPT ![v] = row]
      /\ UNCHANGED <<task, evidence, revocation>>
  BY DEF Apply, VerificationAdmissible
<1>2. mark \in AttemptStates \cup {KeepState}
  BY DEF AttemptStates, VerdictAttemptState
<1>3. /\ to \notin {"planned", "executing"}
      /\ to = "ready" => verdict = "not_satisfied_retryable"
  BY DEF Verdicts, VerdictState
<1>4. /\ row.op = o
      /\ row.attempt = a
      /\ row.evidence = cited
      /\ row.verdict = verdict
      /\ row.safe = safe
  OBVIOUS
<1>. HIDE DEF to, mark, row
<1>5. IInv'
  BY ApplyInvariant DEF HInv
<1>6. /\ verification'[v] = row
      /\ \A x \in VerificationIds \ {v} : verification'[x] = verification[x]
  BY <1>1 DEF HInv, IInv, TypeOK
<1>7. /\ OperationSteps(o)
      /\ AttemptsKept
      /\ <<op[o].state, to>> \in AllowedTransitions
      /\ op'[o].state = to
      /\ op'[o].gen = op[o].gen
  BY <1>1, <1>2, <1>3, MoveSteps DEF HInv
<1>8. \A x \in Ops : x # o => op'[x] = op[x]
  BY <1>7 DEF OperationSteps
<1>9. OwnersKept
  BY <1>7, OwnersKeptByStep DEF HInv
<1>10. Numbered'
  <2>1. \A x \in Ops : /\ op'[x].gen = op[x].gen
                       /\ op[x] # NoOp => op'[x] # NoOp
                       /\ op'[x].state = "planned" => op[x].state = "planned" \/ op[x] = NoOp
    BY <1>3, <1>7, <1>8, <1>9 DEF OwnersKept
  <2>. QED
    BY <1>5, <1>7, <2>1, NumberedKept DEF HInv
<1>11. ExecutingIsRunning'
  BY <1>3, <1>7, ExecutingByStep DEF HInv
<1>12. TasksSettled'
  BY <1>7, SettledByStep DEF HInv
<1>13. EvidenceGrows
  BY <1>1 DEF EvidenceGrows
<1>14. EvidenceLinked' /\ RevocationsLinked'
  BY <1>1, <1>9, <1>13, EvidenceLinkedKept, RevocationsLinkedKept DEF HInv, Linked
<1>15. VerificationsLinked'
  <2>. SUFFICES ASSUME NEW x \in VerificationIds, verification'[x] # NoVerification
                PROVE  /\ verification'[x].evidence # {}
                       /\ \A e \in verification'[x].evidence :
                            /\ evidence'[e].op = verification'[x].op
                            /\ evidence'[e].attempt = verification'[x].attempt
    BY DEF VerificationsLinked
  <2>1. CASE x = v
    BY <1>1, <1>4, <1>6, <2>1
  <2>2. CASE x # v
    <3>1. verification'[x] = verification[x]
      BY <1>6, <2>2
    <3>. QED
      BY <1>13, <3>1, CitedEvidenceKept DEF HInv, Linked
  <2>. QED
    BY <2>1, <2>2
<1>16. RetryIsJustified'
  <2>1. VerificationsKept
    BY <1>1, <1>6 DEF VerificationsKept
  <2>2. CASE to # "ready"
    <3>1. \A x \in Ops : /\ op'[x].gen = op[x].gen
                         /\ op'[x].state = "ready" => op[x].state \in {"ready", "planned"}
      BY <1>7, <1>8, <2>2
    <3>. QED
      BY <1>7, <2>1, <3>1, RetryKept DEF HInv
  <2>3. CASE to = "ready"
    <3>. SUFFICES ASSUME NEW b \in Attempts, attempt'[b] # NoAttempt,
                         \/ attempt'[b].gen < op'[attempt'[b].op].gen
                         \/ op'[attempt'[b].op].state = "ready"
                  PROVE  \E x \in VerificationIds :
                           /\ verification'[x].op = attempt'[b].op
                           /\ verification'[x].attempt = b
                           /\ verification'[x].verdict = "not_satisfied_retryable"
                           /\ verification'[x].safe
      BY DEF RetryIsJustified
    <3>1. /\ attempt[b] # NoAttempt
          /\ attempt'[b].op = attempt[b].op
          /\ attempt'[b].gen = attempt[b].gen
          /\ attempt[b].op \in Ops
          /\ attempt[b].gen \in 1..MaxInt64
      BY <1>7, AttemptRow DEF AttemptsKept, HInv
    <3>2. CASE b = a
      <4>1. attempt[a].op = o
        BY <1>1, IdentifierAssumption DEF HInv, IInv, ActiveAttemptLinked
      <4>. QED
        BY <1>1, <1>3, <1>4, <1>6, <2>3, <3>1, <3>2, <4>1
    <3>3. CASE b # a
      <4>1. attempt[b].gen < op[attempt[b].op].gen \/ op[attempt[b].op].state = "ready"
        <5>1. CASE attempt[b].op # o
          BY <1>8, <3>1, <5>1
        <5>2. CASE attempt[b].op = o
          <6>1. attempt[a].op = o /\ attempt[a].gen = op[o].gen
            BY <1>1, IdentifierAssumption DEF HInv, IInv, ActiveAttemptLinked
          <6>2. attempt[b].gen # op[o].gen
            BY <3>1, <3>3, <5>2, <6>1 DEF HInv, Numbered, AttemptsNumbered
          <6>3. attempt[b].gen <= op[o].gen
            BY <3>1, <5>2 DEF HInv, Numbered, AttemptsNumbered
          <6>4. op[o].gen \in 0..MaxInt64
            BY OperationRow DEF HInv
          <6>. QED
            BY <3>1, <5>2, <6>2, <6>3, <6>4, MaxInt64Assumption
        <5>. QED
          BY <5>1, <5>2
      <4>2. PICK x \in VerificationIds :
              /\ verification[x].op = attempt[b].op
              /\ verification[x].attempt = b
              /\ verification[x].verdict = "not_satisfied_retryable"
              /\ verification[x].safe
        BY <3>1, <4>1 DEF HInv, RetryIsJustified
      <4>3. verification'[x] = verification[x]
        BY <2>1, <4>2 DEF VerificationsKept, NoVerification
      <4>. QED
        BY <3>1, <4>2, <4>3
    <3>. QED
      BY <3>2, <3>3
  <2>. QED
    BY <2>2, <2>3
<1>. QED
  BY <1>5, <1>10, <1>11, <1>12, <1>14, <1>15, <1>16 DEF HInv, Linked

(* A grant, with the record of its acceptance or without one.               *)
LEMMA GrantHistory ==
  ASSUME HInv, IInv', NEW o \in Ops, NEW rev, NEW a \in Attempts, NEW l \in Leases,
         NEW w \in Actors, NEW retry \in Attempts \cup {NoID},
         Grant(o, rev, a, l, w, retry),
         UNCHANGED <<task, verification, revocation>>,
         \A e \in EvidenceIds : evidence'[e] # evidence[e] =>
           evidence[e] = NoEvidence /\ evidence'[e].op = o /\ evidence'[e].attempt = a
  PROVE  HInv'
<1>. DEFINE new == [op |-> o, lease |-> l, gen |-> op[o].gen + 1,
                    owner |-> w, retryOf |-> retry, state |-> "running"]
<1>1. /\ OperationSteps(o)
      /\ op[o].state = "ready"
      /\ op'[o].state = "executing"
      /\ op'[o].gen = op[o].gen + 1
      /\ op'[o].active = a
      /\ attempt[a] = NoAttempt
      /\ attempt'[a] = new
      /\ \A b \in Attempts \ {a} : attempt'[b] = attempt[b]
  <2>1. IInv /\ UNCHANGED task
    BY DEF HInv
  <2>2. /\ OperationSteps(o)
        /\ op[o].state = "ready"
        /\ op'[o].state = "executing"
        /\ op'[o].gen = op[o].gen + 1
        /\ Activates(o, a)
        /\ attempt'[a] = new
    BY <2>1, GrantSteps
  <2>. QED
    BY <2>2 DEF Activates
<1>2. /\ new.op = o
      /\ new.gen = op[o].gen + 1
      /\ new.state = "running"
  OBVIOUS
<1>. HIDE DEF new
<1>3. /\ op[o] \in OpRows
      /\ op[o].gen \in Nat
      /\ op'[o] # NoOp
      /\ \A x \in Ops \ {o} : op'[x] = op[x]
  BY <1>1, PresentOperation, MaxInt64Assumption DEF OperationSteps
<1>4. \A x \in Ops : op[x].gen <= op'[x].gen /\ (op[x] # NoOp => op'[x] # NoOp)
  <2>1. \A x \in Ops : op[x].gen \in 0..MaxInt64
    BY OperationRow DEF HInv
  <2>. QED
    BY <1>1, <1>3, <2>1
<1>5. \A b \in Attempts : attempt[b] # NoAttempt =>
        /\ b # a
        /\ attempt[b].op \in Ops
        /\ attempt[b].gen \in 1..MaxInt64
        /\ attempt[b].gen <= op[attempt[b].op].gen
        /\ op[attempt[b].op] # NoOp
  BY <1>1, AttemptRow DEF HInv, Numbered, AttemptsNumbered
<1>6. \A b \in Attempts : b # a /\ attempt[b].op = o =>
        attempt[b].gen # op[o].gen + 1
  <2>. SUFFICES ASSUME NEW b \in Attempts, b # a, attempt[b].op = o
                PROVE  attempt[b].gen # op[o].gen + 1
    OBVIOUS
  <2>1. attempt[b] # NoAttempt
    BY AttemptRow DEF HInv
  <2>. QED
    BY <1>3, <1>5, <2>1
<1>7. OwnersKept
  BY <1>1, OwnersKeptByStep DEF HInv
<1>8. AttemptsNumbered'
  <2>. SUFFICES ASSUME NEW b \in Attempts, attempt'[b] # NoAttempt
                PROVE  /\ op'[attempt'[b].op] # NoOp
                       /\ attempt'[b].gen <= op'[attempt'[b].op].gen
                       /\ \A c \in Attempts :
                            attempt'[c].op = attempt'[b].op /\ attempt'[c].gen = attempt'[b].gen
                            => c = b
    BY DEF AttemptsNumbered
  <2>1. CASE b = a
    BY <1>1, <1>2, <1>3, <1>6, <2>1
  <2>2. CASE b # a
    <3>1. attempt'[b] = attempt[b] /\ attempt[b] # NoAttempt
      BY <1>1, <2>2
    <3>2. attempt[b].gen <= op'[attempt[b].op].gen
      <4>1. /\ op[attempt[b].op].gen \in 0..MaxInt64
            /\ attempt[b].op \in Ops
            /\ attempt[b].gen \in 1..MaxInt64
            /\ attempt[b].gen <= op[attempt[b].op].gen
        BY <1>5, <3>1, OperationRow DEF HInv
      <4>2. op'[attempt[b].op].gen \in {op[attempt[b].op].gen, op[attempt[b].op].gen + 1}
        BY <1>1, <1>3, <4>1
      <4>. QED
        BY <4>1, <4>2, MaxInt64Assumption
    <3>3. op'[attempt[b].op] # NoOp
      BY <1>4, <1>5, <3>1
    <3>4. \A c \in Attempts \ {a} :
            attempt'[c].op = attempt[b].op /\ attempt'[c].gen = attempt[b].gen => c = b
      BY <1>1, <3>1 DEF HInv, Numbered, AttemptsNumbered
    <3>5. ~(new.op = attempt[b].op /\ new.gen = attempt[b].gen)
      BY <1>2, <1>6, <2>2
    <3>. QED
      BY <1>1, <3>1, <3>2, <3>3, <3>4, <3>5
  <2>. QED
    BY <2>1, <2>2
<1>9. GenerationsFilled'
  <2>. SUFFICES ASSUME NEW x \in Ops, NEW g \in 1..op'[x].gen
                PROVE  \E b \in Attempts : attempt'[b].op = x /\ attempt'[b].gen = g
    BY DEF GenerationsFilled
  <2>1. CASE g \in 1..op[x].gen
    <3>1. PICK b \in Attempts : attempt[b].op = x /\ attempt[b].gen = g
      BY <2>1 DEF HInv, Numbered, GenerationsFilled
    <3>2. b # a
      BY <1>1, <3>1, IdentifierAssumption DEF NoAttempt
    <3>. QED
      BY <1>1, <3>1, <3>2
  <2>2. CASE g \notin 1..op[x].gen
    <3>1. x = o
      BY <1>3, <2>2
    <3>2. g = op[o].gen + 1
      BY <1>1, <1>3, <2>2, <3>1
    <3>. QED
      BY <1>1, <1>2, <3>1, <3>2
  <2>. QED
    BY <2>1, <2>2
<1>10. FreshUntilReady'
  BY <1>1, <1>3 DEF HInv, Numbered, FreshUntilReady
<1>11. ExecutingIsRunning'
  <2>. SUFFICES ASSUME NEW x \in Ops, op'[x].state = "executing"
                PROVE  attempt'[op'[x].active].state = "running"
    BY DEF ExecutingIsRunning
  <2>1. CASE x = o
    BY <1>1, <1>2, <2>1
  <2>2. CASE x # o
    <3>1. op'[x] = op[x]
      BY <1>3, <2>2
    <3>2. op[x].active \in Attempts /\ attempt[op[x].active] # NoAttempt
      BY <3>1, ActiveAttemptOwn DEF HInv, InFlightStates
    <3>3. attempt'[op[x].active] = attempt[op[x].active]
      BY <1>1, <1>5, <3>2
    <3>. QED
      BY <3>1, <3>3 DEF HInv, ExecutingIsRunning
  <2>. QED
    BY <2>1, <2>2
<1>12. RetryIsJustified'
  <2>. SUFFICES ASSUME NEW b \in Attempts, attempt'[b] # NoAttempt,
                       \/ attempt'[b].gen < op'[attempt'[b].op].gen
                       \/ op'[attempt'[b].op].state = "ready"
                PROVE  \E x \in VerificationIds :
                         /\ verification'[x].op = attempt'[b].op
                         /\ verification'[x].attempt = b
                         /\ verification'[x].verdict = "not_satisfied_retryable"
                         /\ verification'[x].safe
    BY DEF RetryIsJustified
  <2>1. b # a
    BY <1>1, <1>2, <1>3
  <2>2. attempt'[b] = attempt[b] /\ attempt[b] # NoAttempt /\ attempt[b].op \in Ops
    BY <1>1, <1>5, <2>1
  <2>3. attempt[b].gen < op[attempt[b].op].gen \/ op[attempt[b].op].state = "ready"
    BY <1>1, <1>3, <2>2
  <2>. QED
    BY <2>2, <2>3 DEF HInv, RetryIsJustified
<1>13. Linked'
  <2>1. EvidenceGrows
    BY <1>1, <1>2, <1>3 DEF EvidenceGrows
  <2>. QED
    BY <1>7, <2>1, LinkedKept DEF HInv
<1>14. TasksSettled'
  BY <1>1, SettledByStep DEF HInv
<1>. QED
  BY <1>8, <1>9, <1>10, <1>11, <1>12, <1>13, <1>14 DEF HInv, Numbered

LEMMA StartAttemptHistory ==
  ASSUME HInv, NEW o \in Ops, NEW rev, NEW a \in Attempts, NEW l \in Leases,
         NEW w \in Actors, NEW retry \in Attempts \cup {NoID},
         StartAttempt(o, rev, a, l, w, retry)
  PROVE  HInv'
<1>1. IInv'
  BY StartAttemptInvariant DEF HInv
<1>. QED
  BY <1>1, GrantHistory DEF StartAttempt

(* Collection removes whole graphs of settled operations.                   *)
LEMMA CollectHistory ==
  ASSUME HInv, NEW gone \in SUBSET Ops, NEW dropped \in SUBSET Tasks,
         Collect(gone, dropped)
  PROVE  HInv'
<1>1. /\ task' = [t \in Tasks |-> IF t \in dropped THEN NoTask ELSE task[t]]
      /\ op' = [o \in Ops |-> IF o \in gone THEN NoOp ELSE op[o]]
      /\ attempt' = [a \in Attempts |->
                       IF attempt[a].op \in gone THEN NoAttempt ELSE attempt[a]]
      /\ evidence' = [e \in EvidenceIds |->
                        IF evidence[e].op \in gone THEN NoEvidence ELSE evidence[e]]
      /\ verification' = [v \in VerificationIds |->
                            IF verification[v].op \in gone
                              THEN NoVerification ELSE verification[v]]
      /\ revocation' = [a \in Attempts |->
                          IF revocation[a].op \in gone
                            THEN NoRevocation ELSE revocation[a]]
  BY DEF Collect
<1>2. IInv'
  BY CollectInvariant DEF HInv
<1>3. /\ NoOp.gen = 0
      /\ NoOp.state = "absent"
      /\ NoAttempt.op = NoID
      /\ NoID \notin Ops
  BY IdentifierAssumption DEF NoOp, NoAttempt
<1>4. \A o \in Ops : op'[o] = op[o] \/ op'[o] = NoOp
  BY <1>1
<1>5. \A a \in Attempts : attempt'[a] # NoAttempt =>
        /\ attempt'[a] = attempt[a]
        /\ attempt[a].op \in Ops
        /\ attempt[a].op \notin gone
        /\ op'[attempt[a].op] = op[attempt[a].op]
  BY <1>1, AttemptRow DEF HInv
<1>6. \A a \in Attempts : attempt[a].op \in Ops \ gone =>
        attempt'[a] = attempt[a] /\ attempt[a] # NoAttempt
  BY <1>1, AttemptRow DEF HInv
<1>7. AttemptsNumbered'
  <2>. SUFFICES ASSUME NEW a \in Attempts, attempt'[a] # NoAttempt
                PROVE  /\ op'[attempt'[a].op] # NoOp
                       /\ attempt'[a].gen <= op'[attempt'[a].op].gen
                       /\ \A b \in Attempts :
                            attempt'[b].op = attempt'[a].op /\ attempt'[b].gen = attempt'[a].gen
                            => b = a
    BY DEF AttemptsNumbered
  <2>1. /\ attempt'[a] = attempt[a]
        /\ attempt[a].op \in Ops
        /\ op'[attempt[a].op] = op[attempt[a].op]
    BY <1>5
  <2>2. \A b \in Attempts : attempt'[b].op = attempt[a].op => attempt'[b] = attempt[b]
    BY <1>1, <1>3, <2>1
  <2>. QED
    BY <2>1, <2>2 DEF HInv, Numbered, AttemptsNumbered
<1>8. GenerationsFilled'
  <2>. SUFFICES ASSUME NEW o \in Ops, NEW g \in 1..op'[o].gen
                PROVE  \E a \in Attempts : attempt'[a].op = o /\ attempt'[a].gen = g
    BY DEF GenerationsFilled
  <2>1. o \notin gone /\ op'[o] = op[o]
    BY <1>1, <1>3
  <2>2. PICK a \in Attempts : attempt[a].op = o /\ attempt[a].gen = g
    BY <2>1 DEF HInv, Numbered, GenerationsFilled
  <2>3. attempt'[a] = attempt[a]
    BY <1>6, <2>1, <2>2
  <2>. QED
    BY <2>2, <2>3
<1>9. FreshUntilReady'
  BY <1>3, <1>4 DEF HInv, Numbered, FreshUntilReady
<1>10. ExecutingIsRunning'
  <2>1. \A o \in Ops : op'[o].state = "executing" =>
          /\ op'[o] = op[o]
          /\ \A a \in Attempts : attempt[a].op = o => attempt'[a] = attempt[a]
    BY <1>1, <1>3
  <2>. QED
    BY <2>1, ExecutingKept DEF HInv
<1>11. RetryIsJustified'
  <2>. SUFFICES ASSUME NEW a \in Attempts, attempt'[a] # NoAttempt,
                       \/ attempt'[a].gen < op'[attempt'[a].op].gen
                       \/ op'[attempt'[a].op].state = "ready"
                PROVE  \E v \in VerificationIds :
                         /\ verification'[v].op = attempt'[a].op
                         /\ verification'[v].attempt = a
                         /\ verification'[v].verdict = "not_satisfied_retryable"
                         /\ verification'[v].safe
    BY DEF RetryIsJustified
  <2>1. /\ attempt'[a] = attempt[a]
        /\ attempt[a] # NoAttempt
        /\ attempt[a].op \notin gone
        /\ op'[attempt[a].op] = op[attempt[a].op]
    BY <1>5
  <2>2. PICK v \in VerificationIds :
          /\ verification[v].op = attempt[a].op
          /\ verification[v].attempt = a
          /\ verification[v].verdict = "not_satisfied_retryable"
          /\ verification[v].safe
    BY <2>1 DEF HInv, RetryIsJustified
  <2>3. verification'[v] = verification[v]
    BY <1>1, <2>1, <2>2
  <2>. QED
    BY <2>1, <2>2, <2>3
<1>12. EvidenceLinked'
  <2>. SUFFICES ASSUME NEW e \in EvidenceIds, evidence'[e] # NoEvidence
                PROVE  /\ op'[evidence'[e].op] # NoOp
                       /\ evidence'[e].attempt # NoID =>
                            attempt'[evidence'[e].attempt].op = evidence'[e].op
    BY DEF EvidenceLinked
  <2>1. /\ evidence'[e] = evidence[e]
        /\ evidence[e].op \notin gone
        /\ evidence[e] \in EvidenceRows
    BY <1>1 DEF HInv, IInv, TypeOK
  <2>2. evidence[e].op \in Ops /\ evidence[e].attempt \in Attempts \cup {NoID}
    BY <2>1 DEF EvidenceRows
  <2>3. op'[evidence[e].op] # NoOp
    BY <1>1, <2>1, <2>2 DEF HInv, Linked, EvidenceLinked
  <2>4. ASSUME evidence[e].attempt # NoID
        PROVE  attempt'[evidence[e].attempt].op = evidence[e].op
    <3>1. attempt[evidence[e].attempt].op = evidence[e].op
      BY <2>1, <2>4 DEF HInv, Linked, EvidenceLinked
    <3>. QED
      BY <1>6, <2>1, <2>2, <2>4, <3>1
  <2>. QED
    BY <2>1, <2>3, <2>4
<1>13. VerificationsLinked'
  <2>. SUFFICES ASSUME NEW v \in VerificationIds, verification'[v] # NoVerification
                PROVE  /\ verification'[v].evidence # {}
                       /\ \A e \in verification'[v].evidence :
                            /\ evidence'[e].op = verification'[v].op
                            /\ evidence'[e].attempt = verification'[v].attempt
    BY DEF VerificationsLinked
  <2>1. /\ verification'[v] = verification[v]
        /\ verification[v].op \notin gone
        /\ verification[v] \in VerificationRows
    BY <1>1 DEF HInv, IInv, TypeOK
  <2>2. verification[v].evidence \subseteq EvidenceIds
    BY <2>1 DEF VerificationRows
  <2>3. /\ verification[v].evidence # {}
        /\ \A e \in verification[v].evidence :
             /\ evidence[e].op = verification[v].op
             /\ evidence[e].attempt = verification[v].attempt
    BY <2>1 DEF HInv, Linked, VerificationsLinked
  <2>4. \A e \in verification[v].evidence : evidence'[e] = evidence[e]
    BY <1>1, <2>1, <2>2, <2>3
  <2>. QED
    BY <2>1, <2>3, <2>4
<1>14. RevocationsLinked'
  <2>. SUFFICES ASSUME NEW a \in Attempts, revocation'[a] # NoRevocation
                PROVE  /\ attempt'[a].op = revocation'[a].op
                       /\ evidence'[revocation'[a].evidence].attempt = a
                       /\ evidence'[revocation'[a].evidence].kind = LossKind
    BY DEF RevocationsLinked
  <2>. DEFINE e == revocation[a].evidence
  <2>1. /\ revocation'[a] = revocation[a]
        /\ revocation[a].op \notin gone
        /\ revocation[a] \in RevocationRows
    BY <1>1 DEF HInv, IInv, TypeOK
  <2>2. revocation[a].op \in Ops /\ e \in EvidenceIds
    BY <2>1 DEF RevocationRows
  <2>3. /\ attempt[a].op = revocation[a].op
        /\ evidence[e].attempt = a
        /\ evidence[e].kind = LossKind
    BY <2>1 DEF HInv, Linked, RevocationsLinked
  <2>4. attempt'[a] = attempt[a]
    BY <1>6, <2>1, <2>2, <2>3
  <2>5. evidence[e].op = attempt[a].op
    <3>1. evidence[e] # NoEvidence
      BY <2>3, IdentifierAssumption DEF NoEvidence
    <3>. QED
      BY <2>2, <2>3, <3>1, IdentifierAssumption DEF HInv, Linked, EvidenceLinked
  <2>6. evidence'[e] = evidence[e]
    BY <1>1, <2>1, <2>2, <2>3, <2>5
  <2>. QED
    BY <2>1, <2>3, <2>4, <2>6
<1>15. TasksSettled'
  <2>1. \A t \in Tasks : Terminal(t)' => task'[t] = task[t]
    BY <1>1 DEF Terminal, NoTask, TerminalTaskStates
  <2>. QED
    BY <1>4, <2>1, TasksSettledKept DEF HInv
<1>. QED
  BY <1>2, <1>7, <1>8, <1>9, <1>10, <1>11, <1>12, <1>13, <1>14, <1>15
     DEF HInv, Numbered, Linked

(* Every step of the store preserves the invariant.                         *)
LEMMA NextHistory ==
  ASSUME HInv, [Next]_vars
  PROVE  HInv'
<1>1. ASSUME NEW t \in Tasks, CreateTask(t)
      PROVE  HInv'
  BY <1>1, CreateTaskHistory
<1>2. ASSUME NEW d \in Descriptors, CreateOperation(d)
      PROVE  HInv'
  BY <1>2, CreateOperationHistory
<1>3. ASSUME NEW o \in Ops, NEW rev \in Revisions, MarkReady(o, rev)
      PROVE  HInv'
  BY <1>3, MarkReadyHistory
<1>4. ASSUME NEW o \in Ops, NEW rev \in Revisions, NEW a \in Attempts, NEW l \in Leases,
             NEW w \in Actors, NEW retry \in Attempts \cup {NoID},
             StartAttempt(o, rev, a, l, w, retry)
      PROVE  HInv'
  BY <1>4, StartAttemptHistory
<1>5. ASSUME NEW o \in Ops, NEW rev \in Revisions, BeginVerification(o, rev)
      PROVE  HInv'
  BY <1>5, BeginVerificationHistory
<1>6. ASSUME NEW o \in Ops, NEW rev \in Revisions, MarkUnknownOutcome(o, rev)
      PROVE  HInv'
  BY <1>6, MarkUnknownOutcomeHistory
<1>7. ASSUME NEW e \in EvidenceIds, NEW o \in Ops, NEW a \in Attempts \cup {NoID},
             NEW k \in RegisteredKinds, RegisterEvidence(e, o, a, k)
      PROVE  HInv'
  BY <1>7, RegisterEvidenceHistory, InputAssumption
<1>8. ASSUME NEW e \in EvidenceIds, NEW a \in Attempts, NEW inTime \in BOOLEAN,
             RecordWorkerReport(e, a, inTime)
      PROVE  HInv'
  BY <1>8, RecordWorkerReportHistory
<1>9. ASSUME NEW o \in Ops, NEW rev \in Revisions, NEW v \in VerificationIds,
             NEW a \in Attempts, NEW cited \in SUBSET EvidenceIds,
             NEW verdict \in Verdicts, NEW safe \in BOOLEAN,
             \/ ApplyVerification(o, rev, v, a, cited, verdict, safe)
             \/ MarkNotStarted(o, rev, v, a, cited, verdict, safe)
      PROVE  HInv'
  <2>1. \E notStarted \in BOOLEAN : Apply(o, rev, v, a, cited, verdict, safe, notStarted)
    BY <1>9 DEF ApplyVerification, MarkNotStarted
  <2>. QED
    BY <2>1, ApplyHistory
<1>10. ASSUME NEW o \in Ops, NEW rev \in Revisions, NEW a \in Attempts,
              NEW e \in EvidenceIds, NEW k \in EvidenceKinds,
              InvalidateAttempt(o, rev, a, e, k)
       PROVE  HInv'
  BY <1>10, InvalidateAttemptHistory
<1>11. ASSUME NEW t \in Tasks, NEW rev \in Revisions, FinalizeTask(t, rev)
       PROVE  HInv'
  BY <1>11, FinalizeTaskHistory
<1>12. ASSUME NEW gone \in SUBSET Ops, NEW dropped \in SUBSET Tasks,
              Collect(gone, dropped)
       PROVE  HInv'
  BY <1>12, CollectHistory
<1>13. CASE UNCHANGED vars
  <2>1. IInv'
    BY <1>13, NextInvariant DEF HInv
  <2>2. UNCHANGED <<task, op, attempt, evidence, verification, revocation>>
    BY <1>13 DEF vars
  <2>3. TasksSettled'
    BY <2>2 DEF HInv, TasksSettled, TaskOps, Terminal
  <2>. QED
    BY <2>1, <2>2, <2>3, TaskStepKeeps DEF HInv
<1>. QED
  BY <1>1, <1>2, <1>3, <1>4, <1>5, <1>6, <1>7, <1>8, <1>9, <1>10, <1>11, <1>12, <1>13
     DEF Next

(* HInv holds in every reachable state: the invariant below all theorems of *)
(* this module, about every method of core.Store.                           *)
THEOREM HistoryInvariant == Spec => []HInv
<1>1. HInv /\ [Next]_vars => HInv'
  BY NextHistory
<1>. QED
  BY InitHistory, <1>1, PTL DEF Spec

-----------------------------------------------------------------------------
(* The invariants of the runs.                                              *)

LEMMA DenseGenerations == HInv => GenerationsDense
<1>. SUFFICES ASSUME HInv, NEW o \in Ops, NEW g \in 1..MaxInt64
              PROVE  LET holders == {a \in Attempts : attempt[a].op = o /\ attempt[a].gen = g}
                     IN  IF g <= op[o].gen THEN \E a \in holders : holders = {a}
                                           ELSE holders = {}
  BY DEF GenerationsDense
<1>. DEFINE holders == {a \in Attempts : attempt[a].op = o /\ attempt[a].gen = g}
<1>1. \A a \in holders : /\ attempt[a] # NoAttempt
                         /\ g <= op[o].gen
                         /\ \A b \in holders : b = a
  <2>. TAKE a \in holders
  <2>1. attempt[a] # NoAttempt
    BY AttemptRow DEF HInv
  <2>. QED
    BY <2>1 DEF HInv, Numbered, AttemptsNumbered
<1>2. CASE g <= op[o].gen
  <2>1. op[o].gen \in Nat
    BY OperationRow, MaxInt64Assumption DEF HInv
  <2>2. PICK a \in Attempts : attempt[a].op = o /\ attempt[a].gen = g
    BY <1>2, <2>1, MaxInt64Assumption DEF HInv, Numbered, GenerationsFilled
  <2>3. a \in holders
    BY <2>2
  <2>4. holders = {a}
    BY <1>1, <2>3
  <2>. QED
    BY <1>2, <2>3, <2>4
<1>3. CASE ~(g <= op[o].gen)
  BY <1>1, <1>3
<1>. QED
  BY <1>2, <1>3

LEMMA CompleteEvidence == HInv => EvidenceGraphComplete
BY DEF HInv, Numbered, AttemptsNumbered, Linked, EvidenceLinked, VerificationsLinked,
       RevocationsLinked, EvidenceGraphComplete

LEMMA SettledTasks == HInv => TerminalTaskIsSettled
<1>. SUFFICES ASSUME HInv, NEW t \in Tasks, Terminal(t)
              PROVE  /\ Pending(t) = {}
                     /\ task[t].state = "completed" =>
                          \A o \in TaskOps(t) : op[o].state = "succeeded"
  BY DEF TerminalTaskIsSettled
<1>1. \A o \in TaskOps(t) : op[o].state \in TerminalOperationStates
  BY DEF HInv, TasksSettled
<1>2. \A o \in TaskOps(t), s \in Scopes : reservation[s].op # o
  <2>. SUFFICES ASSUME NEW o \in TaskOps(t), NEW s \in Scopes, reservation[s].op = o
                PROVE  FALSE
    OBVIOUS
  <2>1. o \in Ops
    BY DEF TaskOps
  <2>2. reservation[s] # NoReservation
    BY <2>1, IdentifierAssumption DEF NoReservation
  <2>3. op[o].state \in InFlightStates
    BY <2>2, ReservationOwner DEF HInv
  <2>. QED
    BY <1>1, <2>3 DEF TerminalOperationStates, InFlightStates
<1>3. Pending(t) = {}
  BY <1>1, <1>2 DEF Pending
<1>. QED
  BY <1>3 DEF HInv, TasksSettled

(* However often an operation is retried, its attempts carry the lease      *)
(* generations 1 to its current one, each exactly once (StartedOperation,   *)
(* StartAttempt and collection).                                            *)
THEOREM NoGenerationTwice == Spec => []GenerationsDense
BY HistoryInvariant, DenseGenerations, PTL

(* No attempt is left behind for another one without a verification of it   *)
(* that found the target unchanged and another execution safe               *)
(* (ApplyVerification and MarkNotStarted are the only ways back to ready).  *)
THEOREM RetriesAreJustified == Spec => []RetryIsJustified
<1>1. HInv => RetryIsJustified
  BY DEF HInv
<1>. QED
  BY HistoryInvariant, <1>1, PTL

(* The evidence that verifications and revocations cite is there, and is    *)
(* about the attempt they decide on, also while collection removes other    *)
(* operations.                                                              *)
THEOREM DecisionsKeepTheirEvidence == Spec => []EvidenceGraphComplete
BY HistoryInvariant, CompleteEvidence, PTL

(* FinalizeTask leaves nothing open in the task it settles, and nothing is  *)
(* added to the task afterwards.                                            *)
THEOREM TerminalTasksStaySettled == Spec => []TerminalTaskIsSettled
BY HistoryInvariant, SettledTasks, PTL

-----------------------------------------------------------------------------
(* The transactions of internal/execution are larger than a call of the     *)
(* store: one registers other kinds of evidence than a controller may, and  *)
(* one grants an attempt together with the record of its acceptance.  What  *)
(* follows is about their steps too.                                        *)
GrantWithRecord(o, rev, a, l, w, retry) ==
  /\ Grant(o, rev, a, l, w, retry)
  /\ \E e \in EvidenceIds, k \in EvidenceKinds :
       evidence[e] = NoEvidence /\ AddEvidence(e, o, a, k)
  /\ UNCHANGED <<task, verification, revocation>>

(* Every step but collection.                                               *)
Growth ==
  \/ UNCHANGED vars
  \/ \E t \in Tasks : CreateTask(t)
  \/ \E d \in Descriptors : CreateOperation(d)
  \/ \E o \in Ops, rev \in Revisions :
       MarkReady(o, rev) \/ BeginVerification(o, rev) \/ MarkUnknownOutcome(o, rev)
  \/ \E o \in Ops, rev \in Revisions, a \in Attempts, l \in Leases, w \in Actors,
        retry \in Attempts \cup {NoID} :
       StartAttempt(o, rev, a, l, w, retry) \/ GrantWithRecord(o, rev, a, l, w, retry)
  \/ \E e \in EvidenceIds, o \in Ops, a \in Attempts \cup {NoID}, k \in EvidenceKinds :
       RegisterEvidence(e, o, a, k)
  \/ \E e \in EvidenceIds, a \in Attempts, inTime \in BOOLEAN :
       RecordWorkerReport(e, a, inTime)
  \/ \E o \in Ops, rev \in Revisions, v \in VerificationIds, a \in Attempts,
        cited \in SUBSET EvidenceIds, verdict \in Verdicts, safe \in BOOLEAN :
       \/ ApplyVerification(o, rev, v, a, cited, verdict, safe)
       \/ MarkNotStarted(o, rev, v, a, cited, verdict, safe)
  \/ \E o \in Ops, rev \in Revisions, a \in Attempts, e \in EvidenceIds,
        k \in EvidenceKinds :
       InvalidateAttempt(o, rev, a, e, k)
  \/ \E t \in Tasks, rev \in Revisions : FinalizeTask(t, rev)

StoreStep ==
  Growth \/ \E gone \in SUBSET Ops, dropped \in SUBSET Tasks : Collect(gone, dropped)

LEMMA NextIsStoreStep == [Next]_vars => StoreStep
<1>. SUFFICES ASSUME [Next]_vars
              PROVE  StoreStep
  OBVIOUS
<1>. QED
  BY InputAssumption DEF Next, StoreStep, Growth

LEMMA AddedRecord ==
  ASSUME IInv, NEW o \in Ops, NEW rev, NEW a \in Attempts, NEW l \in Leases,
         NEW w \in Actors, NEW retry \in Attempts \cup {NoID},
         GrantWithRecord(o, rev, a, l, w, retry)
  PROVE  /\ evidence' \in [EvidenceIds -> EvidenceRows \cup {NoEvidence}]
         /\ \A e \in EvidenceIds : evidence'[e] # evidence[e] =>
              evidence[e] = NoEvidence /\ evidence'[e].op = o /\ evidence'[e].attempt = a
<1>1. PICK e \in EvidenceIds, k \in EvidenceKinds :
        evidence[e] = NoEvidence /\ AddEvidence(e, o, a, k)
  BY DEF GrantWithRecord
<1>2. evidence' \in [EvidenceIds -> EvidenceRows \cup {NoEvidence}]
  BY <1>1, EvidenceTyped
<1>. DEFINE row == [op |-> o, attempt |-> a, kind |-> k]
<1>3. evidence' = [evidence EXCEPT ![e] = row] /\ row.op = o /\ row.attempt = a
  BY <1>1 DEF AddEvidence
<1>. HIDE DEF row
<1>4. \A x \in EvidenceIds : evidence'[x] # evidence[x] =>
        evidence[x] = NoEvidence /\ evidence'[x].op = o /\ evidence'[x].attempt = a
  BY <1>1, <1>3 DEF IInv, TypeOK
<1>. QED
  BY <1>2, <1>4

LEMMA StoreStepHistory ==
  ASSUME HInv, StoreStep
  PROVE  HInv'
<1>1. ASSUME NEW o \in Ops, NEW rev \in Revisions, NEW a \in Attempts, NEW l \in Leases,
             NEW w \in Actors, NEW retry \in Attempts \cup {NoID},
             GrantWithRecord(o, rev, a, l, w, retry)
      PROVE  HInv'
  <2>1. /\ Grant(o, rev, a, l, w, retry)
        /\ UNCHANGED <<task, verification, revocation>>
    BY <1>1 DEF GrantWithRecord
  <2>2. /\ evidence' \in [EvidenceIds -> EvidenceRows \cup {NoEvidence}]
        /\ \A e \in EvidenceIds : evidence'[e] # evidence[e] =>
             evidence[e] = NoEvidence /\ evidence'[e].op = o /\ evidence'[e].attempt = a
    BY <1>1, AddedRecord DEF HInv
  <2>3. IInv'
    BY <2>1, <2>2, GrantInvariant DEF HInv
  <2>. QED
    BY <2>1, <2>2, <2>3, GrantHistory
<1>2. Growth \/ \E gone \in SUBSET Ops, dropped \in SUBSET Tasks : Collect(gone, dropped)
  BY DEF StoreStep
<1>3. [Next]_vars => HInv'
  BY NextHistory
<1>. QED
  BY <1>1, <1>2, <1>3, RegisterEvidenceHistory DEF Growth, Next

-----------------------------------------------------------------------------
(* The action properties.                                                   *)

(* The records that a step adds are about the one operation it moves.       *)
RecordsOf(o) ==
  /\ \A e \in EvidenceIds : evidence'[e] # evidence[e] => evidence'[e].op = o
  /\ \A v \in VerificationIds :
       verification'[v] # verification[v] => verification'[v].op = o
  /\ \A a \in Attempts : revocation'[a] # revocation[a] => attempt[a].op = o

(* Execution begins only with a new attempt.                                *)
BeginsAnew(o) ==
  op'[o].state = "executing" =>
    attempt[op'[o].active] = NoAttempt /\ UNCHANGED revocation

(* No record of an attempt, its revocation or its evidence goes or changes  *)
(* in what it says.                                                         *)
RecordsStay ==
  /\ \A a \in Attempts : attempt[a] # NoAttempt =>
       /\ attempt'[a].op = attempt[a].op
       /\ attempt'[a].gen = attempt[a].gen
       /\ attempt'[a].retryOf = attempt[a].retryOf
  /\ \A a \in Attempts : revocation[a] # NoRevocation => revocation'[a] # NoRevocation
  /\ \A e \in EvidenceIds : evidence[e] # NoEvidence => evidence'[e] = evidence[e]

Moves(o) == OperationSteps(o) /\ RecordsOf(o) /\ BeginsAnew(o) /\ RecordsStay

(* A step that only adds evidence does so for an operation of an open task. *)
OnlyEvidence ==
  /\ UNCHANGED <<task, op, attempt, verification, revocation, reservation>>
  /\ \A e \in EvidenceIds : evidence'[e] # evidence[e] =>
       /\ evidence[e] = NoEvidence
       /\ ~Terminal(op[evidence'[e].op].desc.task)

OnlyTasks == UNCHANGED <<op, attempt, evidence, verification, revocation, reservation>>

LEMMA AddedEvidence ==
  ASSUME IInv, NEW e \in EvidenceIds, NEW o \in Ops, NEW a, NEW k, AddEvidence(e, o, a, k)
  PROVE  \A x \in EvidenceIds : evidence'[x] # evidence[x] => x = e /\ evidence'[x].op = o
BY DEF AddEvidence, IInv, TypeOK

LEMMA GrantKind ==
  ASSUME HInv, NEW o \in Ops, NEW rev, NEW a \in Attempts, NEW l \in Leases,
         NEW w \in Actors, NEW retry \in Attempts \cup {NoID},
         Grant(o, rev, a, l, w, retry),
         UNCHANGED <<task, verification, revocation>>,
         \A e \in EvidenceIds : evidence'[e] # evidence[e] =>
           evidence[e] = NoEvidence /\ evidence'[e].op = o
  PROVE  Moves(o)
<1>1. OperationSteps(o) /\ Activates(o, a)
  BY GrantSteps DEF HInv
<1>2. RecordsOf(o)
  BY DEF RecordsOf
<1>3. BeginsAnew(o)
  BY <1>1 DEF BeginsAnew, Activates
<1>4. RecordsStay
  BY <1>1 DEF RecordsStay, Activates
<1>. QED
  BY <1>1, <1>2, <1>3, <1>4 DEF Moves

(* Every step moves one operation, creates one, collects, or changes only   *)
(* tasks or only evidence.                                                  *)
LEMMA GrowthKinds ==
  ASSUME HInv, Growth
  PROVE  \/ \E o \in Ops : Moves(o)
         \/ OnlyEvidence
         \/ OnlyTasks
         \/ \E d \in Descriptors : CreateOperation(d)
<1>. DEFINE Moved   == \E o \in Ops : Moves(o)
            Created == \E d \in Descriptors : CreateOperation(d)
            Kind    == Moved \/ OnlyEvidence \/ OnlyTasks \/ Created
<1>1. ASSUME NEW t \in Tasks, CreateTask(t)
      PROVE  Kind
  BY <1>1 DEF CreateTask, OnlyTasks
<1>2. ASSUME NEW o \in Ops, NEW rev, NEW to, NEW mark \in AttemptStates \cup {KeepState},
             to # "executing", MoveOperation(o, rev, to, mark),
             UNCHANGED <<task, evidence, verification, revocation>>
      PROVE  Moved
  <2>1. OperationSteps(o) /\ AttemptsKept /\ op'[o].state = to
    BY <1>2, MoveSteps DEF HInv
  <2>2. RecordsOf(o) /\ RecordsStay
    BY <1>2, <2>1 DEF RecordsOf, RecordsStay, AttemptsKept
  <2>. QED
    BY <1>2, <2>1, <2>2 DEF BeginsAnew, Moves
<1>3. ASSUME NEW o \in Ops, NEW rev \in Revisions, MarkReady(o, rev)
      PROVE  Kind
  <2>. HIDE DEF Moved
  <2>. QED
    BY <1>2, <1>3 DEF MarkReady
<1>4. ASSUME NEW o \in Ops, NEW rev \in Revisions, NEW a \in Attempts, NEW l \in Leases,
             NEW w \in Actors, NEW retry \in Attempts \cup {NoID},
             StartAttempt(o, rev, a, l, w, retry)
      PROVE  Kind
  BY <1>4, GrantKind DEF StartAttempt
<1>5. ASSUME NEW o \in Ops, NEW rev \in Revisions, BeginVerification(o, rev)
      PROVE  Kind
  <2>. DEFINE mark == IF op[o].state = "executing" THEN "reported" ELSE KeepState
  <2>1. mark \in AttemptStates \cup {KeepState}
    BY DEF AttemptStates
  <2>2. /\ MoveOperation(o, rev, "verifying", mark)
        /\ UNCHANGED <<task, evidence, verification, revocation>>
    BY <1>5 DEF BeginVerification
  <2>. HIDE DEF mark, Moved
  <2>. QED
    BY <1>2, <2>1, <2>2
<1>6. ASSUME NEW o \in Ops, NEW rev \in Revisions, MarkUnknownOutcome(o, rev)
      PROVE  Kind
  <2>1. "uncertain" \in AttemptStates
    BY DEF AttemptStates
  <2>. HIDE DEF Moved
  <2>. QED
    BY <1>2, <1>6, <2>1 DEF MarkUnknownOutcome
<1>7. ASSUME NEW e \in EvidenceIds, NEW o \in Ops, NEW a \in Attempts \cup {NoID},
             NEW k \in EvidenceKinds, RegisterEvidence(e, o, a, k)
      PROVE  Kind
  <2>1. \A x \in EvidenceIds : evidence'[x] # evidence[x] => x = e /\ evidence'[x].op = o
    BY <1>7, AddedEvidence DEF HInv, RegisterEvidence
  <2>. QED
    BY <1>7, <2>1 DEF RegisterEvidence, EvidenceAdmissible, OnlyEvidence
<1>8. ASSUME NEW e \in EvidenceIds, NEW a \in Attempts, NEW inTime \in BOOLEAN,
             RecordWorkerReport(e, a, inTime)
      PROVE  Kind
  <2>. DEFINE o == attempt[a].op
  <2>1. /\ EvidenceAdmissible(e, o, a)
        /\ AddEvidence(e, o, a, WorkerReportKind)
        /\ UNCHANGED <<task, verification, revocation>>
        /\ \/ MoveOperation(o, op[o].rev, "verifying", "reported")
           \/ UNCHANGED <<op, attempt, reservation>>
    BY <1>8 DEF RecordWorkerReport
  <2>2. o \in Ops
    BY <1>8, AttemptRow DEF HInv, RecordWorkerReport
  <2>. HIDE DEF o
  <2>3. \A x \in EvidenceIds : evidence'[x] # evidence[x] =>
          evidence[x] = NoEvidence /\ evidence'[x].op = o
    BY <2>1, <2>2, AddedEvidence DEF HInv, EvidenceAdmissible
  <2>4. CASE MoveOperation(o, op[o].rev, "verifying", "reported")
    <3>1. "reported" \in AttemptStates
      BY DEF AttemptStates
    <3>2. OperationSteps(o) /\ AttemptsKept /\ op'[o].state = "verifying"
      BY <2>1, <2>2, <2>4, <3>1, MoveSteps DEF HInv
    <3>3. RecordsOf(o) /\ BeginsAnew(o) /\ RecordsStay
      BY <2>1, <2>3, <3>2 DEF RecordsOf, BeginsAnew, RecordsStay, AttemptsKept
    <3>. QED
      BY <2>2, <3>2, <3>3 DEF Moves
  <2>5. CASE UNCHANGED <<op, attempt, reservation>>
    <3>1. OnlyEvidence
      BY <2>1, <2>3, <2>5 DEF EvidenceAdmissible, OnlyEvidence
    <3>. QED
      BY <3>1
  <2>. QED
    BY <2>1, <2>4, <2>5
<1>9. ASSUME NEW o \in Ops, NEW rev \in Revisions, NEW v \in VerificationIds,
             NEW a \in Attempts, NEW cited \in SUBSET EvidenceIds,
             NEW verdict \in Verdicts, NEW safe \in BOOLEAN,
             \/ ApplyVerification(o, rev, v, a, cited, verdict, safe)
             \/ MarkNotStarted(o, rev, v, a, cited, verdict, safe)
      PROVE  Kind
  <2>1. PICK notStarted \in BOOLEAN : Apply(o, rev, v, a, cited, verdict, safe, notStarted)
    BY <1>9 DEF ApplyVerification, MarkNotStarted
  <2>. DEFINE to == VerdictState[verdict]
              mark == VerdictAttemptState(verdict, notStarted)
              row == [op |-> o, attempt |-> a, evidence |-> cited,
                      verdict |-> verdict, safe |-> safe]
  <2>2. /\ MoveOperation(o, rev, to, mark)
        /\ verification' = [verification EXCEPT ![v] = row]
        /\ UNCHANGED <<task, evidence, revocation>>
    BY <2>1 DEF Apply
  <2>3. mark \in AttemptStates \cup {KeepState} /\ to # "executing" /\ row.op = o
    BY DEF AttemptStates, VerdictAttemptState, Verdicts, VerdictState
  <2>. HIDE DEF to, mark, row
  <2>4. OperationSteps(o) /\ AttemptsKept /\ op'[o].state = to
    BY <2>2, <2>3, MoveSteps DEF HInv
  <2>5. RecordsOf(o)
    BY <2>2, <2>3 DEF RecordsOf, HInv, IInv, TypeOK
  <2>6. RecordsStay
    BY <2>2, <2>4 DEF RecordsStay, AttemptsKept
  <2>. QED
    BY <2>3, <2>4, <2>5, <2>6 DEF BeginsAnew, Moves
<1>10. ASSUME NEW o \in Ops, NEW rev \in Revisions, NEW a \in Attempts,
              NEW e \in EvidenceIds, NEW k \in EvidenceKinds,
              InvalidateAttempt(o, rev, a, e, k)
       PROVE  Kind
  <2>1. /\ OperationSteps(o) /\ AttemptsKept
        /\ attempt[a].op = o /\ op'[o].state # "executing"
    BY <1>10, InvalidateSteps DEF HInv
  <2>2. /\ AddEvidence(e, o, a, k)
        /\ evidence[e] = NoEvidence
        /\ revocation[a] = NoRevocation
        /\ revocation' = [revocation EXCEPT ![a] = [op |-> o, evidence |-> e]]
        /\ UNCHANGED verification
    BY <1>10 DEF InvalidateAttempt, EvidenceAdmissible
  <2>3. \A x \in EvidenceIds : evidence'[x] # evidence[x] => x = e /\ evidence'[x].op = o
    BY <2>2, AddedEvidence DEF HInv
  <2>4. \A b \in Attempts : revocation'[b] # revocation[b] => b = a
    BY <2>2 DEF HInv, IInv, TypeOK
  <2>5. RecordsOf(o)
    BY <2>1, <2>2, <2>3, <2>4 DEF RecordsOf
  <2>6. RecordsStay
    BY <2>1, <2>2, <2>3, <2>4 DEF RecordsStay, AttemptsKept
  <2>. QED
    BY <2>1, <2>5, <2>6 DEF BeginsAnew, Moves
<1>11. ASSUME NEW t \in Tasks, NEW rev \in Revisions, FinalizeTask(t, rev)
       PROVE  Kind
  BY <1>11 DEF FinalizeTask, OnlyTasks
<1>12. ASSUME UNCHANGED vars
       PROVE  Kind
  BY <1>12 DEF vars, OnlyTasks
<1>13. ASSUME NEW d \in Descriptors, CreateOperation(d)
       PROVE  Kind
  BY <1>13
<1>14. ASSUME NEW o \in Ops, NEW rev \in Revisions, NEW a \in Attempts, NEW l \in Leases,
              NEW w \in Actors, NEW retry \in Attempts \cup {NoID},
              GrantWithRecord(o, rev, a, l, w, retry)
       PROVE  Kind
  <2>1. \A e \in EvidenceIds : evidence'[e] # evidence[e] =>
          evidence[e] = NoEvidence /\ evidence'[e].op = o
    BY <1>14, AddedRecord DEF HInv
  <2>. QED
    BY <1>14, <2>1, GrantKind DEF GrantWithRecord
<1>. HIDE DEF Kind
<1>15. Kind
  BY <1>1, <1>3, <1>4, <1>5, <1>6, <1>7, <1>8, <1>9, <1>10, <1>11, <1>12, <1>13, <1>14
     DEF Growth
<1>. QED
  BY <1>15 DEF Kind

(* A step changes what belongs to an operation only with its revision.      *)
LEMMA RevisionStep ==
  ASSUME HInv, StoreStep, NEW x \in Ops, op[x] # NoOp, op'[x] # NoOp
  PROVE  \/ op'[x].rev > op[x].rev
         \/ /\ op'[x] = op[x]
            /\ \A a \in Attempts :
                 attempt[a].op = x \/ attempt'[a].op = x =>
                   attempt'[a] = attempt[a] /\ revocation'[a] = revocation[a]
            /\ \A v \in VerificationIds :
                 verification'[v].op = x => verification[v] = verification'[v]
            /\ \A s \in Scopes :
                 reservation[s].op = x \/ reservation'[s].op = x =>
                   reservation'[s] = reservation[s]
<1>0. /\ NoAttempt.op = NoID
      /\ NoReservation.op = NoID
      /\ NoVerification.op = NoID
      /\ NoID \notin Ops
  BY IdentifierAssumption DEF NoAttempt, NoReservation, NoVerification
<1>1. ASSUME NEW o \in Ops, Moves(o)
      PROVE  \/ op'[x].rev > op[x].rev
             \/ /\ op'[x] = op[x]
                /\ \A a \in Attempts :
                     attempt[a].op = x \/ attempt'[a].op = x =>
                       attempt'[a] = attempt[a] /\ revocation'[a] = revocation[a]
                /\ \A v \in VerificationIds :
                     verification'[v].op = x => verification[v] = verification'[v]
                /\ \A s \in Scopes :
                     reservation[s].op = x \/ reservation'[s].op = x =>
                       reservation'[s] = reservation[s]
  <2>1. CASE x = o
    <3>1. op[x] \in OpRows /\ op'[x].rev = op[x].rev + 1
      BY <1>1, <2>1 DEF Moves, OperationSteps
    <3>2. op[x].rev \in Nat
      BY <3>1, PresentOperation, MaxInt64Assumption
    <3>. QED
      BY <3>1, <3>2
  <2>2. CASE x # o
    <3>1. op'[x] = op[x]
      BY <1>1, <2>2 DEF Moves, OperationSteps
    <3>2. \A a \in Attempts : attempt[a].op = x \/ attempt'[a].op = x =>
            attempt'[a] = attempt[a]
      BY <1>0, <1>1, <2>2 DEF Moves, OperationSteps
    <3>3. \A a \in Attempts : attempt[a].op = x => revocation'[a] = revocation[a]
      BY <1>1, <2>2 DEF Moves, RecordsOf
    <3>4. \A v \in VerificationIds :
            verification'[v].op = x => verification[v] = verification'[v]
      BY <1>1, <2>2 DEF Moves, RecordsOf
    <3>5. \A s \in Scopes : reservation[s].op = x \/ reservation'[s].op = x =>
            reservation'[s] = reservation[s]
      BY <1>0, <1>1, <2>2 DEF Moves, OperationSteps
    <3>. QED
      BY <3>1, <3>2, <3>3, <3>4, <3>5
  <2>. QED
    BY <2>1, <2>2
<1>2. CASE OnlyEvidence
  BY <1>2 DEF OnlyEvidence
<1>3. CASE OnlyTasks
  BY <1>3 DEF OnlyTasks
<1>4. ASSUME NEW d \in Descriptors, CreateOperation(d)
      PROVE  /\ op'[x] = op[x]
             /\ UNCHANGED <<attempt, verification, revocation, reservation>>
  BY <1>4, DescriptorTyped DEF CreateOperation, HInv, IInv, TypeOK
<1>5. ASSUME NEW gone \in SUBSET Ops, NEW dropped \in SUBSET Tasks, Collect(gone, dropped)
      PROVE  /\ op'[x] = op[x]
             /\ \A a \in Attempts :
                  attempt[a].op = x \/ attempt'[a].op = x =>
                    attempt'[a] = attempt[a] /\ revocation'[a] = revocation[a]
             /\ \A v \in VerificationIds :
                  verification'[v].op = x => verification[v] = verification'[v]
             /\ UNCHANGED reservation
  <2>1. /\ op' = [o \in Ops |-> IF o \in gone THEN NoOp ELSE op[o]]
        /\ attempt' = [a \in Attempts |->
                         IF attempt[a].op \in gone THEN NoAttempt ELSE attempt[a]]
        /\ verification' = [v \in VerificationIds |->
                              IF verification[v].op \in gone
                                THEN NoVerification ELSE verification[v]]
        /\ revocation' = [a \in Attempts |->
                            IF revocation[a].op \in gone
                              THEN NoRevocation ELSE revocation[a]]
        /\ UNCHANGED reservation
    BY <1>5 DEF Collect
  <2>2. x \notin gone /\ op'[x] = op[x]
    BY <2>1
  <2>3. \A a \in Attempts : attempt[a].op = x \/ attempt'[a].op = x =>
          attempt[a].op = x /\ attempt'[a] = attempt[a]
    BY <1>0, <2>1, <2>2
  <2>4. \A a \in Attempts : attempt[a].op = x => revocation'[a] = revocation[a]
    <3>. SUFFICES ASSUME NEW a \in Attempts, attempt[a].op = x,
                         revocation'[a] # revocation[a]
                  PROVE  FALSE
      OBVIOUS
    <3>1. revocation[a] # NoRevocation /\ revocation[a].op \in gone
      BY <2>1
    <3>2. revocation[a].op = x
      BY <3>1 DEF HInv, Linked, RevocationsLinked
    <3>. QED
      BY <2>2, <3>1, <3>2
  <2>5. \A v \in VerificationIds : verification'[v].op = x => verification[v] = verification'[v]
    BY <1>0, <2>1
  <2>. QED
    BY <2>1, <2>2, <2>3, <2>4, <2>5
<1>. QED
  BY <1>1, <1>2, <1>3, <1>4, <1>5, GrowthKinds DEF StoreStep

(* A decision that names a revision is made on the operation, attempts,     *)
(* authority, verdicts and scopes that were read with that revision: the    *)
(* compare-and-set of internal/state covers all of them.                    *)
THEOREM RevisionIsSufficient == Spec => RevisionCoversDecision
<1>1. HInv /\ [Next]_vars =>
        \A o \in Ops :
          /\ op[o] # NoOp
          /\ op'[o] # NoOp
          => \/ op'[o].rev > op[o].rev
             \/ /\ op'[o] = op[o]
                /\ \A a \in Attempts :
                     attempt[a].op = o \/ attempt'[a].op = o =>
                       attempt'[a] = attempt[a] /\ revocation'[a] = revocation[a]
                /\ \A v \in VerificationIds :
                     verification'[v].op = o => verification[v] = verification'[v]
                /\ \A s \in Scopes :
                     reservation[s].op = o \/ reservation'[s].op = o =>
                       reservation'[s] = reservation[s]
  BY RevisionStep, NextIsStoreStep
<1>. QED
  BY HistoryInvariant, <1>1, PTL DEF Spec, RevisionCoversDecision

(* A step that changes an operation, or its records, finds its task open.   *)
LEMMA ClosedStep ==
  ASSUME HInv, StoreStep, NEW x \in Ops, op[x] # NoOp, Terminal(op[x].desc.task)
  PROVE  /\ op'[x] \in {op[x], NoOp}
         /\ \A e \in EvidenceIds : evidence'[e].op = x => evidence[e] = evidence'[e]
         /\ \A a \in Attempts : attempt'[a].op = x => attempt[a] = attempt'[a]
<1>0. /\ NoAttempt.op = NoID
      /\ NoEvidence.op = NoID
      /\ NoID \notin Ops
  BY IdentifierAssumption DEF NoAttempt, NoEvidence
<1>1. ASSUME NEW o \in Ops, Moves(o)
      PROVE  /\ op'[x] = op[x]
             /\ \A e \in EvidenceIds : evidence'[e].op = x => evidence[e] = evidence'[e]
             /\ \A a \in Attempts : attempt'[a].op = x => attempt[a] = attempt'[a]
  <2>1. x # o
    <3>1. op[o] \in OpRows /\ op[o].state \notin TerminalOperationStates
      BY <1>1 DEF Moves, OperationSteps
    <3>. QED
      BY <3>1, MovingTaskIsOpen DEF HInv
  <2>2. op'[x] = op[x]
    BY <1>1, <2>1 DEF Moves, OperationSteps
  <2>3. \A e \in EvidenceIds : evidence'[e].op = x => evidence[e] = evidence'[e]
    BY <1>1, <2>1 DEF Moves, RecordsOf
  <2>4. \A a \in Attempts : attempt'[a].op = x => attempt[a] = attempt'[a]
    BY <1>1, <2>1 DEF Moves, OperationSteps
  <2>. QED
    BY <2>2, <2>3, <2>4
<1>2. CASE OnlyEvidence
  BY <1>2 DEF OnlyEvidence
<1>3. CASE OnlyTasks
  BY <1>3 DEF OnlyTasks
<1>4. ASSUME NEW d \in Descriptors, CreateOperation(d)
      PROVE  op'[x] = op[x] /\ UNCHANGED <<attempt, evidence>>
  BY <1>4, DescriptorTyped DEF CreateOperation, HInv, IInv, TypeOK
<1>5. ASSUME NEW gone \in SUBSET Ops, NEW dropped \in SUBSET Tasks, Collect(gone, dropped)
      PROVE  /\ op'[x] \in {op[x], NoOp}
             /\ \A e \in EvidenceIds : evidence'[e].op = x => evidence[e] = evidence'[e]
             /\ \A a \in Attempts : attempt'[a].op = x => attempt[a] = attempt'[a]
  BY <1>0, <1>5 DEF Collect
<1>. QED
  BY <1>1, <1>2, <1>3, <1>4, <1>5, GrowthKinds DEF StoreStep

(* After FinalizeTask a late report, evidence or verdict changes nothing of *)
(* the operations, attempts and evidence of the task.                       *)
THEOREM ClosedTasksAreFrozen == Spec => ClosedTaskIsFrozen
<1>1. HInv /\ [Next]_vars =>
        \A o \in Ops :
          /\ op[o] # NoOp
          /\ Terminal(op[o].desc.task)
          => /\ op'[o] \in {op[o], NoOp}
             /\ \A e \in EvidenceIds :
                  evidence'[e].op = o => evidence[e] = evidence'[e]
             /\ \A a \in Attempts :
                  attempt'[a].op = o => attempt[a] = attempt'[a]
  BY ClosedStep, NextIsStoreStep
<1>. QED
  BY HistoryInvariant, <1>1, PTL DEF Spec, ClosedTaskIsFrozen

-----------------------------------------------------------------------------
(* Authority.                                                               *)

(* An attempt that is there before and after a step is not made active,     *)
(* running or reported by it, and keeps its revocation.                     *)
AuthorityFades ==
  \A a \in Attempts :
    /\ attempt[a] # NoAttempt
    /\ attempt'[a] # NoAttempt
    => LET o == attempt[a].op IN
       /\ attempt'[a].op = o
       /\ op'[o].active = a =>
            /\ op[o].active = a
            /\ attempt'[a].state \in {"running", "reported"} =>
                 attempt[a].state \in {"running", "reported"}
       /\ revocation'[a] = NoRevocation => revocation[a] = NoRevocation

LEMMA FadingIsForGood ==
  ASSUME HInv, AuthorityFades, NEW a \in Attempts,
         attempt[a] # NoAttempt, attempt'[a] # NoAttempt,
         ~HasAuthority(attempt[a].op, a)
  PROVE  ~HasAuthority(attempt[a].op, a)'
<1>. SUFFICES ASSUME HasAuthority(attempt[a].op, a)'
              PROVE  HasAuthority(attempt[a].op, a)
  OBVIOUS
<1>. DEFINE o == attempt[a].op
<1>1. o \in Ops /\ attempt'[a].op = o
  BY AttemptRow DEF HInv, AuthorityFades
<1>2. /\ op'[o].active = a
      /\ revocation'[a] = NoRevocation
      /\ attempt'[a].state \in {"running", "reported"}
  BY <1>1 DEF HasAuthority, Authoritative
<1>3. /\ op[o].active = a
      /\ revocation[a] = NoRevocation
      /\ attempt[a].state \in {"running", "reported"}
  BY <1>2 DEF AuthorityFades
<1>4. /\ attempt[a].gen = op[o].gen
      /\ op[o].state \in InFlightStates
  BY <1>1, <1>3, IdentifierAssumption DEF HInv, IInv, ActiveAttemptLinked
<1>. QED
  BY <1>3, <1>4 DEF HasAuthority, Authoritative

(* A move marks the active attempt; reported only what has been running.    *)
LEMMA MoveFades ==
  ASSUME HInv, NEW o \in Ops, NEW rev, NEW to, NEW mark \in AttemptStates \cup {KeepState},
         to # "executing", MoveOperation(o, rev, to, mark), UNCHANGED <<task, revocation>>,
         mark \in {"running", "reported"} =>
           attempt[op[o].active].state \in {"running", "reported"}
  PROVE  AuthorityFades
<1>1. /\ OperationSteps(o)
      /\ AttemptsKept
      /\ op'[o].active \in {op[o].active, NoID}
      /\ \A a \in Attempts : attempt'[a] # attempt[a] =>
           a = op[o].active /\ attempt'[a].state = mark
  <2>. IInv /\ UNCHANGED task
    BY DEF HInv
  <2>1. /\ OperationSteps(o)
        /\ AttemptsKept
        /\ op'[o].active \in {op[o].active, NoID}
    BY MoveSteps
  <2>2. MarksActive(o, mark)
    BY MoveSteps
  <2>. QED
    BY <2>1, <2>2 DEF MarksActive
<1>. SUFFICES ASSUME NEW a \in Attempts, attempt[a] # NoAttempt, attempt'[a] # NoAttempt
              PROVE  /\ attempt'[a].op = attempt[a].op
                     /\ op'[attempt[a].op].active = a =>
                          /\ op[attempt[a].op].active = a
                          /\ attempt'[a].state \in {"running", "reported"} =>
                               attempt[a].state \in {"running", "reported"}
  BY DEF AuthorityFades
<1>2. attempt'[a].op = attempt[a].op /\ attempt[a].op \in Ops /\ a # NoID
  BY <1>1, AttemptRow, IdentifierAssumption DEF AttemptsKept, HInv
<1>3. op'[attempt[a].op].active = a => op[attempt[a].op].active = a
  BY <1>1, <1>2 DEF OperationSteps
<1>4. attempt'[a].state \in {"running", "reported"} =>
        attempt[a].state \in {"running", "reported"}
  BY <1>1
<1>. QED
  BY <1>2, <1>3, <1>4

LEMMA GrantFades ==
  ASSUME HInv, NEW o \in Ops, NEW rev, NEW a \in Attempts, NEW l \in Leases,
         NEW w \in Actors, NEW retry \in Attempts \cup {NoID},
         Grant(o, rev, a, l, w, retry),
         UNCHANGED <<task, revocation>>
  PROVE  AuthorityFades
<1>1. OperationSteps(o) /\ Activates(o, a)
  BY GrantSteps DEF HInv
<1>2. /\ op'[o].active = a
      /\ attempt[a] = NoAttempt
      /\ \A b \in Attempts \ {a} : attempt'[b] = attempt[b]
  BY <1>1 DEF Activates
<1>3. \A b \in Attempts : attempt[b] # NoAttempt =>
        b # a /\ attempt[b].op \in Ops
  BY <1>2, AttemptRow DEF HInv
<1>4. \A b \in Attempts, x \in Ops : b # a /\ op'[x].active = b => op[x].active = b
  BY <1>1, <1>2 DEF OperationSteps
<1>. QED
  BY <1>2, <1>3, <1>4 DEF AuthorityFades

LEMMA AuthorityStep ==
  ASSUME HInv, StoreStep
  PROVE  AuthorityFades
<1>1. CASE UNCHANGED <<op, attempt, revocation>>
  BY <1>1 DEF AuthorityFades
<1>2. ASSUME NEW d \in Descriptors, CreateOperation(d)
      PROVE  AuthorityFades
  <2>. DEFINE row == [desc |-> d, state |-> "planned", rev |-> 1, gen |-> 0,
                      active |-> NoID]
  <2>1. /\ op' = [op EXCEPT ![d.id] = row]
        /\ UNCHANGED <<attempt, revocation>>
    BY <1>2 DEF CreateOperation
  <2>2. row.active = NoID
    OBVIOUS
  <2>. HIDE DEF row
  <2>3. \A o \in Ops : op'[o].active \in {op[o].active, NoID}
    BY <2>1, <2>2 DEF HInv, IInv, TypeOK
  <2>. QED
    BY <2>1, <2>3, AttemptRow, IdentifierAssumption DEF AuthorityFades, HInv
<1>3. ASSUME NEW o \in Ops, NEW rev \in Revisions, MarkReady(o, rev)
      PROVE  AuthorityFades
  BY <1>3, MoveFades DEF MarkReady, AttemptStates, KeepState
<1>4. ASSUME NEW o \in Ops, NEW rev \in Revisions, NEW a \in Attempts, NEW l \in Leases,
             NEW w \in Actors, NEW retry \in Attempts \cup {NoID},
             StartAttempt(o, rev, a, l, w, retry)
      PROVE  AuthorityFades
  BY <1>4, GrantFades DEF StartAttempt
<1>5. ASSUME NEW o \in Ops, NEW rev \in Revisions, BeginVerification(o, rev)
      PROVE  AuthorityFades
  <2>. DEFINE mark == IF op[o].state = "executing" THEN "reported" ELSE KeepState
  <2>1. mark \in AttemptStates \cup {KeepState}
    BY DEF AttemptStates
  <2>2. /\ MoveOperation(o, rev, "verifying", mark)
        /\ UNCHANGED <<task, evidence, verification, revocation>>
    BY <1>5 DEF BeginVerification
  <2>3. mark \in {"running", "reported"} =>
          attempt[op[o].active].state \in {"running", "reported"}
    BY DEF HInv, ExecutingIsRunning, KeepState
  <2>. HIDE DEF mark
  <2>. QED
    BY <2>1, <2>2, <2>3, MoveFades
<1>6. ASSUME NEW o \in Ops, NEW rev \in Revisions, MarkUnknownOutcome(o, rev)
      PROVE  AuthorityFades
  BY <1>6, MoveFades DEF MarkUnknownOutcome, AttemptStates
<1>7. ASSUME NEW e \in EvidenceIds, NEW a \in Attempts, NEW inTime \in BOOLEAN,
             RecordWorkerReport(e, a, inTime)
      PROVE  AuthorityFades
  <2>. DEFINE o == attempt[a].op
  <2>1. /\ UNCHANGED <<task, verification, revocation>>
        /\ \/ /\ HasAuthority(o, a)
              /\ MoveOperation(o, op[o].rev, "verifying", "reported")
           \/ UNCHANGED <<op, attempt, reservation>>
    BY <1>7 DEF RecordWorkerReport, ClaimCounts
  <2>2. o \in Ops
    BY <1>7, AttemptRow DEF HInv, RecordWorkerReport
  <2>3. HasAuthority(o, a) => attempt[op[o].active].state \in {"running", "reported"}
    BY DEF HasAuthority, Authoritative
  <2>. HIDE DEF o
  <2>. QED
    BY <1>1, <2>1, <2>2, <2>3, MoveFades DEF AttemptStates
<1>8. ASSUME NEW o \in Ops, NEW rev \in Revisions, NEW v \in VerificationIds,
             NEW a \in Attempts, NEW cited \in SUBSET EvidenceIds,
             NEW verdict \in Verdicts, NEW safe \in BOOLEAN,
             \/ ApplyVerification(o, rev, v, a, cited, verdict, safe)
             \/ MarkNotStarted(o, rev, v, a, cited, verdict, safe)
      PROVE  AuthorityFades
  <2>1. PICK notStarted \in BOOLEAN : Apply(o, rev, v, a, cited, verdict, safe, notStarted)
    BY <1>8 DEF ApplyVerification, MarkNotStarted
  <2>. DEFINE to == VerdictState[verdict]
              mark == VerdictAttemptState(verdict, notStarted)
  <2>2. /\ MoveOperation(o, rev, to, mark)
        /\ UNCHANGED <<task, evidence, revocation>>
    BY <2>1 DEF Apply
  <2>3. /\ mark \in AttemptStates \cup {KeepState}
        /\ mark \notin {"running", "reported"}
        /\ to # "executing"
    BY DEF AttemptStates, VerdictAttemptState, Verdicts, VerdictState
  <2>. HIDE DEF to, mark
  <2>. QED
    BY <2>2, <2>3, MoveFades
<1>9. ASSUME NEW o \in Ops, NEW rev \in Revisions, NEW a \in Attempts,
             NEW e \in EvidenceIds, NEW k \in EvidenceKinds,
             InvalidateAttempt(o, rev, a, e, k)
      PROVE  AuthorityFades
  <2>1. /\ OperationSteps(o)
        /\ AttemptsKept
        /\ op[o].active = a
        /\ op'[o].active = a
        /\ attempt'[a].state = "uncertain"
        /\ \A b \in Attempts \ {a} : attempt'[b] = attempt[b]
    BY <1>9, InvalidateSteps DEF HInv
  <2>2. revocation' = [revocation EXCEPT ![a] = [op |-> o, evidence |-> e]]
    BY <1>9 DEF InvalidateAttempt
  <2>3. revocation'[a] # NoRevocation
    BY <2>2, IdentifierAssumption DEF NoRevocation, HInv, IInv, TypeOK
  <2>4. \A b \in Attempts \ {a} : revocation'[b] = revocation[b]
    BY <2>2 DEF HInv, IInv, TypeOK
  <2>5. \A x \in Ops : op'[x].active = op[x].active
    BY <2>1 DEF OperationSteps
  <2>6. \A b \in Attempts : attempt[b] # NoAttempt => attempt[b].op \in Ops
    BY AttemptRow DEF HInv
  <2>7. \A b \in Attempts : attempt'[b].op = attempt[b].op
    BY <2>1 DEF AttemptsKept
  <2>. QED
    BY <2>1, <2>3, <2>4, <2>5, <2>6, <2>7 DEF AuthorityFades
<1>10. ASSUME NEW gone \in SUBSET Ops, NEW dropped \in SUBSET Tasks, Collect(gone, dropped)
       PROVE  AuthorityFades
  <2>1. /\ op' = [o \in Ops |-> IF o \in gone THEN NoOp ELSE op[o]]
        /\ attempt' = [a \in Attempts |->
                         IF attempt[a].op \in gone THEN NoAttempt ELSE attempt[a]]
        /\ revocation' = [a \in Attempts |->
                            IF revocation[a].op \in gone
                              THEN NoRevocation ELSE revocation[a]]
    BY <1>10 DEF Collect
  <2>2. \A a \in Attempts : attempt'[a] # NoAttempt =>
          /\ attempt[a] # NoAttempt
          /\ attempt[a].op \in Ops \ gone
          /\ attempt'[a] = attempt[a]
    BY <2>1, AttemptRow DEF HInv
  <2>3. \A a \in Attempts : attempt'[a] # NoAttempt /\ revocation'[a] = NoRevocation =>
          revocation[a] = NoRevocation
    BY <2>1, <2>2 DEF HInv, Linked, RevocationsLinked
  <2>. QED
    BY <2>1, <2>2, <2>3 DEF AuthorityFades
<1>11. ASSUME NEW o \in Ops, NEW rev \in Revisions, NEW a \in Attempts, NEW l \in Leases,
              NEW w \in Actors, NEW retry \in Attempts \cup {NoID},
              GrantWithRecord(o, rev, a, l, w, retry)
       PROVE  AuthorityFades
  BY <1>11, GrantFades DEF GrantWithRecord
<1>. QED
  BY <1>1, <1>2, <1>3, <1>4, <1>5, <1>6, <1>7, <1>8, <1>9, <1>10, <1>11
     DEF StoreStep, Growth, vars, CreateTask, RegisterEvidence, FinalizeTask

(* A report that does not count leaves the store as it is, but for itself.  *)
LEMMA LateReportStep ==
  ASSUME HInv, StoreStep, NEW a \in Attempts, attempt[a] # NoAttempt, Reports(a),
         ~HasAuthority(attempt[a].op, a) \/ op[attempt[a].op].state # "executing"
  PROVE  UNCHANGED <<op, attempt, reservation>>
<1>. DEFINE row == [op |-> attempt[a].op, attempt |-> a, kind |-> WorkerReportKind]
<1>1. PICK e \in EvidenceIds : evidence[e] = NoEvidence /\ evidence'[e] = row
  BY DEF Reports
<1>2. row.attempt = a /\ row.kind = WorkerReportKind
  OBVIOUS
<1>. HIDE DEF row
<1>3. row # NoEvidence
  BY <1>2 DEF NoEvidence, WorkerReportKind
<1>4. evidence' # evidence
  BY <1>1, <1>3
<1>5. ASSUME NEW x \in EvidenceIds, NEW o, NEW b, NEW k, AddEvidence(x, o, b, k)
      PROVE  b = a /\ k = WorkerReportKind
  <2>. DEFINE new == [op |-> o, attempt |-> b, kind |-> k]
  <2>1. evidence' = [evidence EXCEPT ![x] = new]
    BY <1>5 DEF AddEvidence
  <2>2. new.attempt = b /\ new.kind = k
    OBVIOUS
  <2>. HIDE DEF new
  <2>3. new = row
    BY <1>1, <1>3, <2>1 DEF HInv, IInv, TypeOK
  <2>. QED
    BY <1>2, <2>2, <2>3
<1>6. ASSUME NEW x \in EvidenceIds, NEW b \in Attempts, NEW inTime \in BOOLEAN,
             RecordWorkerReport(x, b, inTime)
      PROVE  UNCHANGED <<op, attempt, reservation>>
  <2>1. b = a
    BY <1>5, <1>6 DEF RecordWorkerReport
  <2>2. ~ClaimCounts(attempt[a].op, a)
    BY DEF ClaimCounts
  <2>. QED
    BY <1>6, <2>1, <2>2 DEF RecordWorkerReport
<1>7. ASSUME NEW o \in Ops, NEW rev \in Revisions, NEW b \in Attempts,
             NEW x \in EvidenceIds, NEW k \in EvidenceKinds,
             InvalidateAttempt(o, rev, b, x, k)
      PROVE  FALSE
  BY <1>5, <1>7 DEF InvalidateAttempt, LossKind, WorkerReportKind
<1>8. ASSUME NEW o \in Ops, NEW rev \in Revisions, NEW b \in Attempts, NEW l \in Leases,
             NEW w \in Actors, NEW retry \in Attempts \cup {NoID},
             GrantWithRecord(o, rev, b, l, w, retry)
      PROVE  FALSE
  BY <1>5, <1>8 DEF GrantWithRecord, Grant
<1>9. ASSUME NEW gone \in SUBSET Ops, NEW dropped \in SUBSET Tasks, Collect(gone, dropped)
      PROVE  FALSE
  BY <1>1, <1>3, <1>9 DEF Collect
<1>10. ASSUME NEW x \in EvidenceIds, NEW o \in Ops, NEW b \in Attempts \cup {NoID},
              NEW k \in EvidenceKinds, RegisterEvidence(x, o, b, k)
       PROVE  UNCHANGED <<op, attempt, reservation>>
  BY <1>10 DEF RegisterEvidence
<1>11. ASSUME NEW o \in Ops, NEW rev \in Revisions,
              MarkReady(o, rev) \/ BeginVerification(o, rev) \/ MarkUnknownOutcome(o, rev)
       PROVE  FALSE
  BY <1>4, <1>11 DEF MarkReady, BeginVerification, MarkUnknownOutcome
<1>12. ASSUME NEW o \in Ops, NEW rev \in Revisions, NEW v \in VerificationIds,
              NEW b \in Attempts, NEW cited \in SUBSET EvidenceIds,
              NEW verdict \in Verdicts, NEW safe \in BOOLEAN,
              \/ ApplyVerification(o, rev, v, b, cited, verdict, safe)
              \/ MarkNotStarted(o, rev, v, b, cited, verdict, safe)
       PROVE  FALSE
  BY <1>4, <1>12 DEF ApplyVerification, MarkNotStarted, Apply
<1>13. ASSUME NEW d \in Descriptors, CreateOperation(d)
       PROVE  FALSE
  BY <1>4, <1>13 DEF CreateOperation
<1>14. ASSUME NEW o \in Ops, NEW rev \in Revisions, NEW b \in Attempts, NEW l \in Leases,
              NEW w \in Actors, NEW retry \in Attempts \cup {NoID},
              StartAttempt(o, rev, b, l, w, retry)
       PROVE  FALSE
  BY <1>4, <1>14 DEF StartAttempt
<1>15. ASSUME (UNCHANGED vars)
              \/ (\E t \in Tasks : CreateTask(t))
              \/ (\E t \in Tasks, rev \in Revisions : FinalizeTask(t, rev))
       PROVE  FALSE
  BY <1>4, <1>15 DEF vars, CreateTask, FinalizeTask
<1>. QED
  BY <1>6, <1>7, <1>8, <1>9, <1>10, <1>11, <1>12, <1>13, <1>14, <1>15 DEF StoreStep, Growth

(* Once CheckActiveAttemptContext refuses an attempt, it refuses it for     *)
(* ever: a revoked, uncertain or closed attempt gets no authority back, and *)
(* RecordWorkerReport keeps what its worker still says and moves nothing.   *)
THEOREM AuthorityIsLostForGood == Spec => LostAuthorityIsFinal
<1>1. HInv /\ [Next]_vars =>
        \A a \in Attempts :
          /\ attempt[a] # NoAttempt
          /\ attempt'[a] # NoAttempt
          => /\ ~HasAuthority(attempt[a].op, a) => ~HasAuthority(attempt[a].op, a)'
             /\ /\ Reports(a)
                /\ \/ ~HasAuthority(attempt[a].op, a)
                   \/ op[attempt[a].op].state # "executing"
                => UNCHANGED <<op, attempt, reservation>>
  BY AuthorityStep, FadingIsForGood, LateReportStep, NextIsStoreStep
<1>. QED
  BY HistoryInvariant, <1>1, PTL DEF Spec, LostAuthorityIsFinal
=============================================================================
