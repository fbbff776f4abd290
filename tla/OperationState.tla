--------------------------- MODULE OperationState ---------------------------
(***************************************************************************)
(* The operation state machine of internal/state: the states of tasks,     *)
(* operations and attempts, the table of legal operation transitions, and  *)
(* the three pure functions that compute the next operation record.  The   *)
(* functions are total here; each has a companion predicate that is TRUE   *)
(* exactly when the Go function returns no error.                          *)
(*                                                                         *)
(* Timestamps are left out: nothing the control plane decides depends on   *)
(* CreatedAt or UpdatedAt of an operation or an attempt.                   *)
(***************************************************************************)
EXTENDS Naturals

CONSTANT MaxInt64   \* the largest revision and lease generation that is stored

ASSUME MaxInt64Assumption == MaxInt64 \in Nat \ {0}

NoID == "no id"     \* the empty identifier

TerminalTaskStates == {"completed", "failed", "cancelled"}

TaskStates ==
  {"planned", "active", "blocked", "awaiting_decision"} \cup TerminalTaskStates

OperationStates ==
  {"planned", "ready", "executing", "verifying", "unknown_outcome",
   "succeeded", "failed", "cancelled"}

TerminalOperationStates == {"succeeded", "failed", "cancelled"}

AttemptStates ==
  {"created", "running", "reported", "rejected", "not_started", "uncertain",
   "closed"}

EffectClasses == {"read_only", "mutation"}

-----------------------------------------------------------------------------
(* The table allowedTransitions, as a set of pairs.                         *)
AllowedTransitions ==
  {<<"planned", "ready">>,             <<"planned", "cancelled">>,
   <<"ready", "executing">>,           <<"ready", "cancelled">>,
   <<"executing", "verifying">>,       <<"executing", "ready">>,
   <<"executing", "unknown_outcome">>,
   <<"verifying", "succeeded">>,       <<"verifying", "ready">>,
   <<"verifying", "failed">>,          <<"verifying", "unknown_outcome">>,
   <<"unknown_outcome", "verifying">>}

(* An operation that owns an attempt: its scopes stay reserved, whatever is *)
(* known about the executor.                                                *)
InFlightStates == {"executing", "verifying", "unknown_outcome"}

(* Mutants of HoldsConflictReservation: losing certainty, or a report, frees *)
(* the scopes.                                                              *)
HoldsUntilUnknown(op) ==
  op.desc.effect = "mutation" /\ op.state \in {"executing", "verifying"}
HoldsWhileExecuting(op) ==
  op.desc.effect = "mutation" /\ op.state = "executing"

HoldsConflictReservation(op) ==
  /\ op.desc.effect = "mutation"
  /\ op.state \in InFlightStates

(* Mutant of CanTransition: no exhaustion check.                            *)
CanTransitionUnbounded(op, rev, to) ==
  /\ op.rev = rev
  /\ <<op.state, to>> \in AllowedTransitions

(* Compare-and-set on the revision, the exhaustion check, then the table.   *)
CanTransition(op, rev, to) ==
  /\ op.rev = rev
  /\ op.rev > 0
  /\ op.rev < MaxInt64
  /\ <<op.state, to>> \in AllowedTransitions

Transition(op, to) ==
  [op EXCEPT !.state  = to,
             !.rev    = op.rev + 1,
             !.active = IF to \in {"ready", "succeeded", "failed", "cancelled"}
                          THEN NoID
                          ELSE op.active]

CanStartAttempt(op, rev, a) ==
  /\ a # NoID
  /\ CanTransition(op, rev, "executing")
  /\ op.gen < MaxInt64

(* Mutant of StartedOperation: a retry keeps the generation.                *)
StartedInSameGeneration(op, a) ==
  [Transition(op, "executing") EXCEPT !.active = a]

StartedOperation(op, a) ==
  [Transition(op, "executing") EXCEPT !.gen = op.gen + 1, !.active = a]

(* An operation whose outcome is already unknown stays there, but its       *)
(* revision still moves, so a decision read before the loss goes stale.     *)
CanLoseExecutionCertainty(op, rev) ==
  IF op.state # "unknown_outcome"
    THEN CanTransition(op, rev, "unknown_outcome")
    ELSE op.rev = rev /\ op.rev > 0 /\ op.rev < MaxInt64

(* Mutant of LoseExecutionCertainty: a second loss keeps the revision.      *)
LoseCertaintyOnce(op) ==
  IF op.state # "unknown_outcome" THEN Transition(op, "unknown_outcome") ELSE op

LoseExecutionCertainty(op) ==
  IF op.state # "unknown_outcome"
    THEN Transition(op, "unknown_outcome")
    ELSE [op EXCEPT !.rev = op.rev + 1]
=============================================================================
