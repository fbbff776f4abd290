---------------------------- MODULE ControlStore ----------------------------
(***************************************************************************)
(* The canonical store of the control plane: internal/core over a          *)
(* Repository.  Every exported method of core.Store runs its whole body in *)
(* one Repository.Update, which commits all of its writes or, on any       *)
(* error, none of them; so every method is one action, and a call that     *)
(* returns an error is a step that changes nothing and is not modelled.    *)
(*                                                                         *)
(* A table of the repository (a Go map, or an SQLite table) is a function  *)
(* on the identifiers that maps an identifier without a row to the "no     *)
(* row" record of the table.  Not represented: timestamps, target and      *)
(* policy references (a mismatch is an error), summaries and digests.      *)
(* Messages are in module MessageRetention.                                *)
(***************************************************************************)
EXTENDS OperationState

CONSTANTS
  Tasks, Ops, Attempts, Leases, Actors, Scopes, EvidenceIds, VerificationIds,
  Descriptors,      \* the operation descriptors the controller may submit
  RegisteredKinds   \* the kinds of evidence the controller may register

VARIABLES
  task,          \* tasks
  op,            \* operations
  attempt,       \* attempts, each with the lease it was granted
  evidence,      \* evidence records
  verification,  \* verification records
  revocation,    \* revocations of authority, by attempt
  reservation    \* conflict scope reservations

vars == <<task, op, attempt, evidence, verification, revocation, reservation>>

(* Identifiers are never the empty string (the Validate methods).           *)
ASSUME IdentifierAssumption ==
  /\ NoID \notin Tasks
  /\ NoID \notin Ops
  /\ NoID \notin Attempts
  /\ NoID \notin Leases
  /\ NoID \notin Actors
  /\ NoID \notin EvidenceIds

(* The ten evidence kinds in the three classes the core tells apart.        *)
WorkerReportKind == "worker_report"
LossKind == "loss_observation"  \* process, transport and policy records
EvidenceKinds == {WorkerReportKind, LossKind, "other"}

Verdicts ==
  {"satisfied", "not_satisfied_retryable", "not_satisfied_terminal",
   "inconclusive"}

ASSUME InputAssumption ==
  /\ Descriptors \subseteq [id : Ops, task : Tasks, effect : EffectClasses,
                            scopes : SUBSET Scopes]
  /\ RegisteredKinds \subseteq EvidenceKinds

-----------------------------------------------------------------------------
(* Rows, and the record that stands for a missing row.                      *)
TaskRows == [state : TaskStates, rev : 1..MaxInt64]
NoTask   == [state |-> "absent", rev |-> 0]

OpRows == [desc : Descriptors, state : OperationStates, rev : 1..MaxInt64,
           gen : 0..MaxInt64, active : Attempts \cup {NoID}]
NoDescriptor ==
  [id |-> NoID, task |-> NoID, effect |-> "read_only", scopes |-> {}]
NoOp == [desc |-> NoDescriptor, state |-> "absent", rev |-> 0, gen |-> 0,
         active |-> NoID]

AttemptRows == [op : Ops, lease : Leases, gen : 1..MaxInt64, owner : Actors,
                retryOf : Attempts \cup {NoID}, state : AttemptStates]
NoAttempt == [op |-> NoID, lease |-> NoID, gen |-> 0, owner |-> NoID,
              retryOf |-> NoID, state |-> "absent"]

EvidenceRows == [op : Ops, attempt : Attempts \cup {NoID}, kind : EvidenceKinds]
NoEvidence   == [op |-> NoID, attempt |-> NoID, kind |-> "absent"]

VerificationRows ==
  [op : Ops, attempt : Attempts, evidence : SUBSET EvidenceIds,
   verdict : Verdicts, safe : BOOLEAN]
NoVerification == [op |-> NoID, attempt |-> NoID, evidence |-> {},
                   verdict |-> "absent", safe |-> FALSE]

RevocationRows == [op : Ops, evidence : EvidenceIds]
NoRevocation   == [op |-> NoID, evidence |-> NoID]

ReservationRows == [op : Ops, attempt : Attempts, lease : Leases,
                    gen : 1..MaxInt64]
NoReservation == [op |-> NoID, attempt |-> NoID, lease |-> NoID, gen |-> 0]

Init ==
  /\ task         = [t \in Tasks |-> NoTask]
  /\ op           = [o \in Ops |-> NoOp]
  /\ attempt      = [a \in Attempts |-> NoAttempt]
  /\ evidence     = [e \in EvidenceIds |-> NoEvidence]
  /\ verification = [v \in VerificationIds |-> NoVerification]
  /\ revocation   = [a \in Attempts |-> NoRevocation]
  /\ reservation  = [s \in Scopes |-> NoReservation]

-----------------------------------------------------------------------------
(* Queries on the tables.                                                   *)
Terminal(t) == task[t].state \in TerminalTaskStates

TaskOps(t) == {o \in Ops : op[o] # NoOp /\ op[o].desc.task = t}

(* Mutant of Pending: only work in flight keeps a task open.                *)
PendingInFlight(t) == {o \in TaskOps(t) : op[o].state \in InFlightStates}

(* Work that keeps a task open: an operation that is not terminal, or one   *)
(* that still holds a reservation.                                          *)
Pending(t) ==
  {o \in TaskOps(t) : \/ op[o].state \notin TerminalOperationStates
                      \/ \E s \in Scopes : reservation[s].op = o}

(* The check a worker's action has to pass: CheckActiveAttemptContext.      *)
Authoritative(o, a, l, g, w) ==
  /\ op[o].active = a
  /\ op[o].gen = g
  /\ revocation[a] = NoRevocation
  /\ attempt[a].state \in {"running", "reported"}
  /\ attempt[a].lease = l
  /\ attempt[a].gen = g
  /\ attempt[a].owner = w
  /\ op[o].state \in InFlightStates

(* The same check asked with the identity recorded for the attempt.         *)
HasAuthority(o, a) ==
  Authoritative(o, a, attempt[a].lease, attempt[a].gen, attempt[a].owner)

-----------------------------------------------------------------------------
(* Writes shared by several methods.                                        *)

(* Mutant of Released: the deletion stops at the first row.                 *)
ReleasedOne(o) ==
  LET first == CHOOSE s \in Scopes : \/ reservation[s].op = o
                                     \/ \A x \in Scopes : reservation[x].op # o
  IN  [s \in Scopes |->
         IF reservation[s].op = o /\ s = first THEN NoReservation
                                               ELSE reservation[s]]

Released(o) ==
  [s \in Scopes |->
     IF reservation[s].op = o THEN NoReservation ELSE reservation[s]]

(* Mutant of ReservedFor: the loop ends after the first scope.              *)
ReservedFirst(o, a, l) ==
  [s \in Scopes |->
     IF /\ op[o].desc.effect = "mutation"
        /\ s = CHOOSE first \in op[o].desc.scopes : TRUE
       THEN [op |-> o, attempt |-> a, lease |-> l, gen |-> op[o].gen + 1]
       ELSE reservation[s]]

ReservedFor(o, a, l) ==
  [s \in Scopes |->
     IF op[o].desc.effect = "mutation" /\ s \in op[o].desc.scopes
       THEN [op |-> o, attempt |-> a, lease |-> l, gen |-> op[o].gen + 1]
       ELSE reservation[s]]

(* Transaction.transition: the operation moves, its active attempt takes    *)
(* the state `mark` or keeps its own, and the scopes are released when the  *)
(* new state does not hold them.                                            *)
KeepState == "keep"

MoveOperation(o, rev, to, mark) ==
  /\ CanTransition(op[o], rev, to)
  /\ op' = [op EXCEPT ![o] = Transition(op[o], to)]
  /\ attempt' = [a \in Attempts |->
                   IF a = op[o].active /\ mark # KeepState
                     THEN [attempt[a] EXCEPT !.state = mark]
                     ELSE attempt[a]]
  /\ reservation' = IF HoldsConflictReservation(Transition(op[o], to))
                      THEN reservation
                      ELSE Released(o)

(* Mutant of EvidenceAdmissible: the attempt may be of another operation.   *)
EvidenceOfAnyAttempt(e, o, a) ==
  /\ op[o] # NoOp
  /\ a # NoID => attempt[a] # NoAttempt
  /\ ~Terminal(op[o].desc.task)
  /\ evidence[e] = NoEvidence

(* Mutant of EvidenceAdmissible: late evidence of a closed task is taken.   *)
EvidenceOfClosedTask(e, o, a) ==
  /\ op[o] # NoOp
  /\ a # NoID => attempt[a].op = o
  /\ evidence[e] = NoEvidence

(* Transaction.registerEvidence: the record belongs to the operation and,   *)
(* if it names an attempt, to an attempt of it; the task is still open.     *)
EvidenceAdmissible(e, o, a) ==
  /\ op[o] # NoOp
  /\ a # NoID => attempt[a].op = o
  /\ ~Terminal(op[o].desc.task)
  /\ evidence[e] = NoEvidence

AddEvidence(e, o, a, k) ==
  evidence' = [evidence EXCEPT ![e] = [op |-> o, attempt |-> a, kind |-> k]]

-----------------------------------------------------------------------------
(* Tasks and operations.                                                    *)
CreateTask(t) ==
  /\ task[t] = NoTask
  /\ task' = [task EXCEPT ![t] = [state |-> "planned", rev |-> 1]]
  /\ UNCHANGED <<op, attempt, evidence, verification, revocation, reservation>>

ValidDescriptor(d) == d.effect = "mutation" => d.scopes # {}

CreateOperation(d) ==
  /\ ValidDescriptor(d)
  /\ task[d.task] # NoTask
  /\ ~Terminal(d.task)
  /\ op[d.id] = NoOp
  /\ op' = [op EXCEPT ![d.id] = [desc |-> d, state |-> "planned", rev |-> 1,
                                 gen |-> 0, active |-> NoID]]
  /\ UNCHANGED <<task, attempt, evidence, verification, revocation, reservation>>

(* Mutant of MarkReady: from any state that the table lets go to ready.     *)
MarkReadyFromAny(o, rev) ==
  /\ MoveOperation(o, rev, "ready", KeepState)
  /\ UNCHANGED <<task, evidence, verification, revocation>>

MarkReady(o, rev) ==
  /\ op[o].state = "planned"
  /\ MoveOperation(o, rev, "ready", KeepState)
  /\ UNCHANGED <<task, evidence, verification, revocation>>

(* The attempt, its lease and every scope are granted together or not at    *)
(* all.  `retry` may be empty also for a second and later attempt.          *)
Grant(o, rev, a, l, w, retry) ==
  /\ retry # NoID => attempt[retry].op = o
  /\ CanStartAttempt(op[o], rev, a)
  /\ attempt[a] = NoAttempt
  /\ \A b \in Attempts : attempt[b].lease # l
  /\ op[o].desc.effect = "mutation" =>
       \A s \in op[o].desc.scopes : reservation[s] = NoReservation
  /\ op' = [op EXCEPT ![o] = StartedOperation(op[o], a)]
  /\ attempt' = [attempt EXCEPT ![a] =
                   [op |-> o, lease |-> l, gen |-> op[o].gen + 1, owner |-> w,
                    retryOf |-> retry, state |-> "running"]]
  /\ reservation' = ReservedFor(o, a, l)

StartAttempt(o, rev, a, l, w, retry) ==
  /\ Grant(o, rev, a, l, w, retry)
  /\ UNCHANGED <<task, evidence, verification, revocation>>

-----------------------------------------------------------------------------
(* From execution to a verdict.                                             *)

(* Mutant of BeginVerification: reconciliation marks the attempt reported.  *)
BeginVerificationReports(o, rev) ==
  /\ MoveOperation(o, rev, "verifying", "reported")
  /\ UNCHANGED <<task, evidence, verification, revocation>>

BeginVerification(o, rev) ==
  /\ MoveOperation(o, rev, "verifying",
                   IF op[o].state = "executing" THEN "reported" ELSE KeepState)
  /\ UNCHANGED <<task, evidence, verification, revocation>>

MarkUnknownOutcome(o, rev) ==
  /\ MoveOperation(o, rev, "unknown_outcome", "uncertain")
  /\ UNCHANGED <<task, evidence, verification, revocation>>

RegisterEvidence(e, o, a, k) ==
  /\ EvidenceAdmissible(e, o, a)
  /\ AddEvidence(e, o, a, k)
  /\ UNCHANGED <<task, op, attempt, verification, revocation, reservation>>

(* Mutant of ClaimCounts: the state of the operation is all that is asked.  *)
ClaimCountsByState(o, a) == op[o].state = "executing"

(* The claim that may move its operation.                                   *)
ClaimCounts(o, a) == HasAuthority(o, a) /\ op[o].state = "executing"

(* A worker's claim that names its own attempt, lease, generation and actor *)
(* (any other is an error).  The claim of a stale attempt, or of one whose  *)
(* operation has left executing, is kept as evidence and changes nothing    *)
(* else; that of an attempt with authority moves the operation to           *)
(* verifying, unless its deadline has passed (`inTime` is FALSE): then the  *)
(* whole transaction is rolled back.                                        *)
RecordWorkerReport(e, a, inTime) ==
  LET o == attempt[a].op IN
  /\ attempt[a] # NoAttempt
  /\ op[o] # NoOp
  /\ EvidenceAdmissible(e, o, a)
  /\ AddEvidence(e, o, a, WorkerReportKind)
  /\ HasAuthority(o, a) => inTime
  /\ \/ /\ ClaimCounts(o, a)
        /\ MoveOperation(o, op[o].rev, "verifying", "reported")
     \/ /\ ~ClaimCounts(o, a)
        /\ UNCHANGED <<op, attempt, reservation>>
  /\ UNCHANGED <<task, verification, revocation>>

(* validateVerification: the record is about the active attempt, and all of *)
(* the evidence it cites is about that attempt too.                         *)
VerificationAdmissible(o, a, cited, verdict, safe) ==
  /\ op[o].active = a
  /\ cited # {}
  /\ \A e \in cited : evidence[e].op = o /\ evidence[e].attempt = a
  /\ verdict = "not_satisfied_retryable" => safe

VerdictState ==
  [satisfied               |-> "succeeded",
   not_satisfied_retryable |-> "ready",
   not_satisfied_terminal  |-> "failed",
   inconclusive            |-> "unknown_outcome"]

VerdictAttemptState(verdict, notStarted) ==
  IF notStarted THEN "not_started"
  ELSE IF verdict = "inconclusive" THEN "uncertain" ELSE "closed"

(* Transaction.apply: the verification row and the transition together.     *)
Apply(o, rev, v, a, cited, verdict, safe, notStarted) ==
  /\ VerificationAdmissible(o, a, cited, verdict, safe)
  /\ verification[v] = NoVerification
  /\ verification' =
       [verification EXCEPT ![v] =
          [op |-> o, attempt |-> a, evidence |-> cited,
           verdict |-> verdict, safe |-> safe]]
  /\ MoveOperation(o, rev, VerdictState[verdict],
                   VerdictAttemptState(verdict, notStarted))
  /\ UNCHANGED <<task, evidence, revocation>>

ApplyVerification(o, rev, v, a, cited, verdict, safe) ==
  Apply(o, rev, v, a, cited, verdict, safe, FALSE)

MarkNotStarted(o, rev, v, a, cited, verdict, safe) ==
  /\ verdict = "not_satisfied_retryable" /\ safe
  /\ Apply(o, rev, v, a, cited, verdict, safe, TRUE)

-----------------------------------------------------------------------------
(* Recovery.                                                                *)

(* The controller withdraws the authority of the active attempt.  Nothing   *)
(* is said about the executor, so its scopes stay reserved.                 *)
InvalidateAttempt(o, rev, a, e, k) ==
  /\ op[o].rev = rev
  /\ op[o].active = a
  /\ revocation[a] = NoRevocation
  /\ k = LossKind
  /\ CanLoseExecutionCertainty(op[o], rev)
  /\ EvidenceAdmissible(e, o, a)
  /\ AddEvidence(e, o, a, k)
  /\ revocation' = [revocation EXCEPT ![a] = [op |-> o, evidence |-> e]]
  /\ attempt' = [attempt EXCEPT ![a] = [attempt[a] EXCEPT !.state = "uncertain"]]
  /\ op' = [op EXCEPT ![o] = LoseExecutionCertainty(op[o])]
  /\ UNCHANGED <<task, verification, reservation>>

(* InspectRecovery only reads.  This is its consistency check of one        *)
(* operation, which fails the whole page with ErrIntegrity or ErrNotFound.  *)
InspectionSucceeds(o) ==
  /\ task[op[o].desc.task] # NoTask
  /\ op[o].active # NoID =>
       LET a == op[o].active IN
       /\ attempt[a].op = o
       /\ attempt[a].gen = op[o].gen
       /\ HoldsConflictReservation(op[o]) =>
            \A s \in op[o].desc.scopes :
              reservation[s] = [op |-> attempt[a].op, attempt |-> a,
                                lease |-> attempt[a].lease,
                                gen |-> attempt[a].gen]

-----------------------------------------------------------------------------
(* The end of a task.                                                       *)
Failed(t)    == {o \in TaskOps(t) : op[o].state = "failed"}
Cancelled(t) == {o \in TaskOps(t) : op[o].state = "cancelled"}

FinalState(t) ==
  IF Failed(t) # {} THEN "failed"
  ELSE IF Cancelled(t) = TaskOps(t) THEN "cancelled" ELSE "completed"

FinalizeTask(t, rev) ==
  /\ task[t] # NoTask
  /\ task[t].rev = rev
  /\ ~Terminal(t)
  /\ rev < MaxInt64
  /\ TaskOps(t) # {}
  /\ Pending(t) = {}
  /\ Failed(t) # {} \/ Cancelled(t) \in {{}, TaskOps(t)}
  /\ task' = [task EXCEPT ![t] = [state |-> FinalState(t), rev |-> rev + 1]]
  /\ UNCHANGED <<op, attempt, evidence, verification, revocation, reservation>>

(* A batch of Collect, as its effect on these tables: the whole graphs of   *)
(* some operations of settled tasks, and some tasks left without any.       *)
(* Which of them is up to the age of the task, its messages, the cursor and *)
(* the row budget, none of which the rest of the store looks at.            *)
Collect(gone, dropped) ==
  /\ \A o \in gone : /\ op[o] # NoOp
                     /\ Terminal(op[o].desc.task)
                     /\ Pending(op[o].desc.task) = {}
  /\ \A t \in dropped : /\ Terminal(t)
                        /\ Pending(t) = {}
                        /\ TaskOps(t) \subseteq gone
  /\ gone # {} \/ dropped # {}
  /\ task' = [t \in Tasks |-> IF t \in dropped THEN NoTask ELSE task[t]]
  /\ op' = [o \in Ops |-> IF o \in gone THEN NoOp ELSE op[o]]
  /\ attempt' = [a \in Attempts |->
                   IF attempt[a].op \in gone THEN NoAttempt ELSE attempt[a]]
  /\ evidence' = [e \in EvidenceIds |->
                    IF evidence[e].op \in gone THEN NoEvidence ELSE evidence[e]]
  /\ verification' =
       [v \in VerificationIds |->
          IF verification[v].op \in gone THEN NoVerification ELSE verification[v]]
  /\ revocation' =
       [a \in Attempts |->
          IF revocation[a].op \in gone THEN NoRevocation ELSE revocation[a]]
  /\ UNCHANGED reservation

-----------------------------------------------------------------------------
Revisions == 1..MaxInt64

Next ==
  \/ \E t \in Tasks : CreateTask(t)
  \/ \E d \in Descriptors : CreateOperation(d)
  \/ \E o \in Ops, rev \in Revisions : MarkReady(o, rev)
  \/ \E o \in Ops, rev \in Revisions, a \in Attempts, l \in Leases,
        w \in Actors, retry \in Attempts \cup {NoID} :
       StartAttempt(o, rev, a, l, w, retry)
  \/ \E o \in Ops, rev \in Revisions : BeginVerification(o, rev)
  \/ \E o \in Ops, rev \in Revisions : MarkUnknownOutcome(o, rev)
  \/ \E e \in EvidenceIds, o \in Ops, a \in Attempts \cup {NoID},
        k \in RegisteredKinds :
       RegisterEvidence(e, o, a, k)
  \/ \E e \in EvidenceIds, a \in Attempts, inTime \in BOOLEAN :
       RecordWorkerReport(e, a, inTime)
  \/ \E o \in Ops, rev \in Revisions, v \in VerificationIds, a \in Attempts,
        cited \in SUBSET EvidenceIds, verdict \in Verdicts, safe \in BOOLEAN :
       \/ ApplyVerification(o, rev, v, a, cited, verdict, safe)
       \/ MarkNotStarted(o, rev, v, a, cited, verdict, safe)
  \/ \E o \in Ops, rev \in Revisions, a \in Attempts, e \in EvidenceIds,
        k \in EvidenceKinds :
       InvalidateAttempt(o, rev, a, e, k)
  \/ \E t \in Tasks, rev \in Revisions : FinalizeTask(t, rev)
  \/ \E gone \in SUBSET Ops, dropped \in SUBSET Tasks : Collect(gone, dropped)

Spec == Init /\ [][Next]_vars

-----------------------------------------------------------------------------
(* TypeOK: every table holds well-formed rows, or no row, under the         *)
(* identifiers of its kind.                                                 *)
TypeOK ==
  /\ task \in [Tasks -> TaskRows \cup {NoTask}]
  /\ op \in [Ops -> OpRows \cup {NoOp}]
  /\ attempt \in [Attempts -> AttemptRows \cup {NoAttempt}]
  /\ evidence \in [EvidenceIds -> EvidenceRows \cup {NoEvidence}]
  /\ verification \in [VerificationIds -> VerificationRows \cup {NoVerification}]
  /\ revocation \in [Attempts -> RevocationRows \cup {NoRevocation}]
  /\ reservation \in [Scopes -> ReservationRows \cup {NoReservation}]

(* InspectRecovery can always classify every operation: it never finds a    *)
(* dangling active attempt, a generation that disagrees with the operation, *)
(* or a held scope that is missing or in the name of an older attempt.      *)
RecoveryIntegrity == \A o \in Ops : op[o] # NoOp => InspectionSucceeds(o)

(* A reserved scope belongs to a mutation that is still in flight and whose *)
(* descriptor names the scope: no path through verification, recovery or    *)
(* collection leaks a reservation, which would block the scope for ever.    *)
NoLeakedReservation ==
  \A s \in Scopes :
    reservation[s] # NoReservation =>
      LET o == reservation[s].op IN
      /\ HoldsConflictReservation(op[o])
      /\ s \in op[o].desc.scopes
      /\ reservation[s].attempt = op[o].active

(* Two mutations in flight never have a conflict scope in common, whatever  *)
(* is known about their executors.                                          *)
ScopeMutualExclusion ==
  \A o1, o2 \in Ops :
    /\ o1 # o2
    /\ HoldsConflictReservation(op[o1])
    /\ HoldsConflictReservation(op[o2])
    => op[o1].desc.scopes \cap op[o2].desc.scopes = {}

(* The attempts of an operation carry the lease generations 1 to its        *)
(* current one, each exactly once: no generation is granted twice, skipped  *)
(* or left over when an operation is collected.                             *)
GenerationsDense ==
  \A o \in Ops :
    \A g \in 1..MaxInt64 :
      LET holders == {a \in Attempts : attempt[a].op = o /\ attempt[a].gen = g} IN
      IF g <= op[o].gen THEN \E a \in holders : holders = {a} ELSE holders = {}

(* Every attempt that an operation has left behind for a new try has a      *)
(* verification of that very attempt which found the target unchanged and   *)
(* another execution safe; no other way leads back to ready.                *)
RetryIsJustified ==
  \A a \in Attempts :
    LET o == attempt[a].op IN
    /\ attempt[a] # NoAttempt
    /\ attempt[a].gen < op[o].gen \/ op[o].state = "ready"
    => \E v \in VerificationIds :
         /\ verification[v].op = o
         /\ verification[v].attempt = a
         /\ verification[v].verdict = "not_satisfied_retryable"
         /\ verification[v].safe

(* The records of a decision are complete: whatever a verification or a     *)
(* revocation cites is there and is about the attempt it decides on.        *)
(* Collection removes a graph whole or leaves it whole.                     *)
EvidenceGraphComplete ==
  /\ \A a \in Attempts : attempt[a] # NoAttempt => op[attempt[a].op] # NoOp
  /\ \A e \in EvidenceIds :
       evidence[e] # NoEvidence =>
         /\ op[evidence[e].op] # NoOp
         /\ evidence[e].attempt # NoID =>
              attempt[evidence[e].attempt].op = evidence[e].op
  /\ \A v \in VerificationIds :
       verification[v] # NoVerification =>
         /\ verification[v].evidence # {}
         /\ \A e \in verification[v].evidence :
              /\ evidence[e].op = verification[v].op
              /\ evidence[e].attempt = verification[v].attempt
  /\ \A a \in Attempts :
       revocation[a] # NoRevocation =>
         /\ attempt[a].op = revocation[a].op
         /\ evidence[revocation[a].evidence].attempt = a
         /\ evidence[revocation[a].evidence].kind = LossKind

(* A terminal task has only settled operations, and a completed one only    *)
(* succeeded operations: nothing is added to it or left open in it.         *)
TerminalTaskIsSettled ==
  \A t \in Tasks :
    Terminal(t) =>
      /\ Pending(t) = {}
      /\ task[t].state = "completed" =>
           \A o \in TaskOps(t) : op[o].state = "succeeded"

(* Reports(a): the step keeps a claim of the worker of attempt a.           *)
Reports(a) ==
  \E e \in EvidenceIds :
    /\ evidence[e] = NoEvidence
    /\ evidence'[e] = [op |-> attempt[a].op, attempt |-> a, kind |-> WorkerReportKind]

(* Authority is not given back: an attempt that fails the authority check   *)
(* once, by a revocation, a verdict or a loss of certainty, fails it for    *)
(* ever, also when reconciliation takes its operation back to verifying.    *)
(* And what its worker says from then on, or says again when its operation  *)
(* is being verified, is kept and moves nothing: neither its own operation, *)
(* which may be executing a later attempt by now, nor any attempt or scope. *)
LostAuthorityIsFinal ==
  [][\A a \in Attempts :
       /\ attempt[a] # NoAttempt
       /\ attempt'[a] # NoAttempt
       => /\ ~HasAuthority(attempt[a].op, a) => ~HasAuthority(attempt[a].op, a)'
          /\ /\ Reports(a)
             /\ \/ ~HasAuthority(attempt[a].op, a)
                \/ op[attempt[a].op].state # "executing"
             => UNCHANGED <<op, attempt, reservation>>]_vars

(* A scope is freed only by the step that records a conclusive verdict on   *)
(* the attempt holding it: neither a lost lease, nor a report, nor a        *)
(* restart, nor collection frees one, and no other operation takes it over. *)
ScopeFreedOnlyByVerdict ==
  [][\A s \in Scopes :
       /\ reservation[s] # NoReservation
       /\ reservation'[s] # reservation[s]
       => /\ reservation'[s] = NoReservation
          /\ \E v \in VerificationIds :
               /\ verification[v] = NoVerification
               /\ verification'[v].attempt = reservation[s].attempt
               /\ verification'[v].verdict \notin {"absent", "inconclusive"}]_vars

(* A decision names the revision it was taken at, so the revision has to    *)
(* cover all that a decision looks at: while the revision of an operation   *)
(* stays, so do its row, its attempts, their authority, its verdicts and    *)
(* its scopes.  A revision is never reached twice.                          *)
RevisionCoversDecision ==
  [][\A o \in Ops :
       /\ op[o] # NoOp
       /\ op'[o] # NoOp
       => \/ op'[o].rev > op[o].rev
          \/ /\ op'[o] = op[o]
             /\ \A a \in Attempts :
                  attempt[a].op = o \/ attempt'[a].op = o =>
                    attempt'[a] = attempt[a] /\ revocation'[a] = revocation[a]
             /\ \A v \in VerificationIds :
                  verification'[v].op = o => verification[v] = verification'[v]
             /\ \A s \in Scopes :
                  reservation[s].op = o \/ reservation'[s].op = o =>
                    reservation'[s] = reservation[s]]_vars

(* The store implements the scope lock: CreateOperation fixes the scopes of *)
(* a mutation, StartAttempt acquires exactly these, all at once, with the   *)
(* lease generation as the token, a verdict releases all of them at once,   *)
(* collection forgets the client, and every other call leaves the lock      *)
(* alone.  A read needs no scope.                                           *)
NeedsOf(o) ==
  {s \in Scopes : op[o].desc.effect = "mutation" /\ s \in op[o].desc.scopes}

GrantOf(s) ==
  IF reservation[s] = NoReservation
    THEN NoReservation
    ELSE [client |-> reservation[s].op, token |-> reservation[s].gen]

Lock == INSTANCE ScopeLock
  WITH Clients <- Ops,
       Free    <- NoReservation,
       needs   <- [o \in Ops |-> NeedsOf(o)],
       grant   <- [s \in Scopes |-> GrantOf(s)],
       last    <- [o \in Ops |-> op[o].gen]

ImplementsScopeLock == Lock!LockSpec

(* What is recorded about a closed task does not change any more: its       *)
(* operations, attempts and evidence stay as they are until they are        *)
(* collected, and a late call adds none.                                    *)
ClosedTaskIsFrozen ==
  [][\A o \in Ops :
       /\ op[o] # NoOp
       /\ Terminal(op[o].desc.task)
       => /\ op'[o] \in {op[o], NoOp}
          /\ \A e \in EvidenceIds :
               evidence'[e].op = o => evidence[e] = evidence'[e]
          /\ \A a \in Attempts :
               attempt'[a].op = o => attempt[a] = attempt'[a]]_vars
=============================================================================
