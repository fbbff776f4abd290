------------------------------- MODULE Runner -------------------------------
(***************************************************************************)
(* The execution runner of internal/execution over the canonical store:    *)
(* concurrent calls of Runner.Execute, each with the goroutine of its      *)
(* worker, its context and its deadline, next to a controller that decides *)
(* about the same operations through the store.                            *)
(*                                                                         *)
(* Every transaction of the runner is one step here, and changes the       *)
(* tables by the actions of ControlStore.  An evidence record and the      *)
(* message it comes with have the same identifier, except for offers; so   *)
(* of the messages only the table of offers is kept.  Their admission by   *)
(* age is in module MessageRetention, and shows here as a call that fails. *)
(***************************************************************************)
EXTENDS ControlStore, Sequences, TLC

CONSTANTS
  Calls,          \* calls of Execute
  Messages,       \* message identifiers of offers
  Offers,         \* the offers a caller may make
  Worker,         \* the actor of the runner's worker
  MaxHeartbeats,  \* heartbeats of one call that are accepted
  Faults          \* the faults that may happen: "store", "commit", "crash"

VARIABLES
  call,        \* Execute: where each call is, its context and local variables
  mutex,       \* the heartbeat of the call that holds mu: "free" or "beat"
  worker,      \* the goroutine of the worker
  offered,     \* offers in the messages table, by message
  granted      \* history: the call that was told it started the attempt

runnerVars == <<call, mutex, worker, offered, granted>>

allVars == <<vars, runnerVars>>

NoCall == "no call"

(* An offer as the caller makes it, and as it is sent: with the revision of *)
(* the operation that the caller has read.                                  *)
OfferRows == [msg : Messages, op : Ops, attempt : Attempts, lease : Leases,
              retry : Attempts \cup {NoID}]
NoOffer == [msg |-> NoID, op |-> NoID, attempt |-> NoID, lease |-> NoID,
            retry |-> NoID]
Requests == [offer : Offers, rev : 1..MaxInt64]
NoRequest == [offer |-> NoOffer, rev |-> 0]

(* The identifiers of the records that the runner stores.                   *)
Accepted(a) == a \o "/accepted"
Rejected(m) == m \o "/rejected"
Beat(a, i)  == a \o "/heartbeat/" \o ToString(i)
Result(a)   == a \o "/result"
Lost(a)     == a \o "/lost"
Observed(a) == a \o "/observed"   \* by the controller

ASSUME RunnerAssumption ==
  /\ Offers \subseteq OfferRows
  /\ Worker \in Actors
  /\ NoCall \notin Calls
  /\ MaxHeartbeats \in Nat
  /\ Faults \subseteq {"store", "commit", "crash"}
  /\ \A a \in Attempts : /\ {Accepted(a), Result(a), Lost(a), Observed(a)}
                              \subseteq EvidenceIds
                         /\ \A i \in 0..MaxHeartbeats - 1 : Beat(a, i) \in EvidenceIds
  /\ \A m \in Messages : Rejected(m) \in EvidenceIds

(* The part of an identifier after its last slash tells what it records, so *)
(* that one of a kind is not one of another kind, whatever the attempts are *)
(* called; the part before it tells the attempt.  The controller keeps its  *)
(* own observations under names that are none of these.                     *)
ASSUME RecordsApart ==
  \A a, b \in Attempts :
    /\ Result(a) = Result(b) \/ Lost(a) = Lost(b) => a = b
    /\ Result(a) \notin {Accepted(b), Lost(b), Observed(b)}
    /\ Lost(a) \notin {Accepted(b), Observed(b)}
    /\ \A m \in Messages : Rejected(m) \notin {Result(a), Lost(a)}
    /\ \A i \in 0..MaxHeartbeats - 1 :
         /\ Beat(a, i) \notin {Accepted(b), Result(b), Lost(b), Observed(b)}
         /\ \A m \in Messages : Rejected(m) # Beat(a, i)
         /\ \A j \in 0..MaxHeartbeats - 1 : Beat(a, i) = Beat(b, j) => a = b

Answers == {"none", "rejected", "duplicate", "reported", "unknown", "error"}

Places ==
  {"idle", "admit", "offer", "gate", "select", "close", "report", "lose",
   "invalidate", "returned", "crashed"}

NewCall == [at |-> "idle", req |-> NoRequest, ended |-> FALSE,
            permitted |-> FALSE, beats |-> 0, closed |-> FALSE, claim |-> FALSE,
            rev |-> 0, answer |-> "none", failed |-> FALSE]

RunnerInit ==
  /\ Init
  /\ call    = [c \in Calls |-> NewCall]
  /\ mutex   = [c \in Calls |-> "free"]
  /\ worker  = [c \in Calls |-> "none"]
  /\ offered = [m \in Messages |-> NoRequest]
  /\ granted = [a \in Attempts |-> NoCall]

-----------------------------------------------------------------------------
At(c, place) == call[c].at = place

OfferOf(c)   == call[c].req.offer
AttemptOf(c) == OfferOf(c).attempt
OpOf(c)      == OfferOf(c).op

Goto(c, place) == call' = [call EXCEPT ![c].at = place]

(* Execute returns; `failed` says whether without having recorded, as far   *)
(* as it was told, what became of the attempt.  The code then returns an    *)
(* error; it does so too for a loss that is recorded after a failed report. *)
(* Of its variables only those that its worker shares are left.             *)
Return(c, answer, failed) ==
  call' = [call EXCEPT ![c] =
             [NewCall EXCEPT !.at = "returned", !.req = call[c].req,
                             !.closed = call[c].closed, !.answer = answer,
                             !.failed = failed]]

(* A store call on the context of Execute may fail when the context has     *)
(* ended, and any store call when the database does.                        *)
StoreMayFail(c) == "store" \in Faults \/ call[c].ended

(* The commit has taken effect but its answer is an error.                  *)
CommitMayBeLost == "commit" \in Faults

-----------------------------------------------------------------------------
(* Admission.                                                               *)

(* A caller makes an offer for an operation it has read.                    *)
Submit(c, off) ==
  /\ At(c, "idle")
  /\ op[off.op] # NoOp
  /\ call' = [call EXCEPT ![c].at = "admit",
                          ![c].req = [offer |-> off, rev |-> op[off.op].rev]]
  /\ UNCHANGED <<vars, mutex, worker, offered, granted>>

(* A request is delivered again.                                            *)
Redeliver(c, d) ==
  /\ At(c, "idle") /\ ~At(d, "idle")
  /\ call' = [call EXCEPT ![c].at = "admit", ![c].req = call[d].req]
  /\ UNCHANGED <<vars, mutex, worker, offered, granted>>

(* Mutant of LinksRetry: any attempt of the operation will do, or none.     *)
LinksAnything(c) == OfferOf(c).retry # NoID => attempt[OfferOf(c).retry].op = OpOf(c)

(* A retry must name the attempt of the generation before it.               *)
LinksRetry(c) ==
  op[OpOf(c)].gen > 0 /\ op[OpOf(c)].state = "ready" =>
    LET prior == attempt[OfferOf(c).retry] IN
    /\ OfferOf(c).retry # NoID
    /\ prior.op = OpOf(c)
    /\ prior.gen = op[OpOf(c)].gen

(* The request is invalid, too late or its context has ended; otherwise     *)
(* capabilities, policy and the worker's Accept are in `accepts`.           *)
Admit(c, accepts) ==
  /\ At(c, "admit")
  /\ \/ Return(c, "rejected", TRUE)
     \/ /\ StoreMayFail(c)
        /\ Return(c, "error", TRUE)
     \/ /\ op[OpOf(c)] # NoOp
        /\ call' = [call EXCEPT ![c].at = "offer",
                                ![c].permitted = accepts /\ LinksRetry(c)]
  /\ UNCHANGED <<vars, mutex, worker, offered, granted>>

(* The offer is one transaction: its message, and either the attempt with   *)
(* its record, or the record of the refusal.                                *)

(* Mutant of OfferKnown: a redelivery resumes the work.                     *)
OfferResumed(c) ==
  /\ At(c, "offer")
  /\ offered[OfferOf(c).msg] = call[c].req
  /\ Goto(c, "gate")
  /\ UNCHANGED <<vars, mutex, worker, offered, granted>>

(* An offer that is known changes nothing, and is not dispatched.           *)
OfferKnown(c) ==
  /\ At(c, "offer")
  /\ offered[OfferOf(c).msg] = call[c].req
  /\ Return(c, "duplicate", FALSE)
  /\ UNCHANGED <<vars, mutex, worker, offered, granted>>

NewOffer(c) ==
  /\ At(c, "offer")
  /\ offered[OfferOf(c).msg] = NoRequest
  /\ offered' = [offered EXCEPT ![OfferOf(c).msg] = call[c].req]

OfferRefused(c, lost) ==
  /\ NewOffer(c)
  /\ ~call[c].permitted
  /\ lost => CommitMayBeLost
  /\ RegisterEvidence(Rejected(OfferOf(c).msg), OpOf(c), NoID, LossKind)
  /\ IF lost THEN Return(c, "error", TRUE) ELSE Return(c, "rejected", FALSE)
  /\ UNCHANGED <<mutex, worker, granted>>

OfferGranted(c, lost) ==
  LET off == OfferOf(c) IN
  /\ NewOffer(c)
  /\ call[c].permitted
  /\ lost => CommitMayBeLost
  /\ Grant(off.op, call[c].req.rev, off.attempt, off.lease, Worker, off.retry)
  /\ evidence[Accepted(off.attempt)] = NoEvidence
  /\ AddEvidence(Accepted(off.attempt), off.op, off.attempt, LossKind)
  /\ IF lost
       THEN Return(c, "error", TRUE)
       ELSE call' = [call EXCEPT ![c].at = "gate", ![c].permitted = FALSE]
  /\ granted' = IF lost THEN granted ELSE [granted EXCEPT ![off.attempt] = c]
  /\ UNCHANGED <<task, verification, revocation, mutex, worker>>

(* Another content under the same identifier, a grant that the store        *)
(* refuses, a message that is too old, a failing database: never dispatched. *)
OfferFails(c) ==
  /\ At(c, "offer")
  /\ Return(c, "error", TRUE)
  /\ UNCHANGED <<vars, mutex, worker, offered, granted>>

-----------------------------------------------------------------------------
(* Heartbeats.                                                              *)

(* The transaction of a heartbeat: authority is checked, the beat recorded. *)
RecordBeat(c) ==
  /\ HasAuthority(OpOf(c), AttemptOf(c))
  /\ RegisterEvidence(Beat(AttemptOf(c), call[c].beats), OpOf(c), AttemptOf(c),
                      WorkerReportKind)

(* What the heartbeat function looks at before it; the deadline and the     *)
(* policy may deny a heartbeat at any time.                                 *)
MayBeat(c) ==
  /\ ~call[c].closed
  /\ ~call[c].ended
  /\ call[c].beats < MaxHeartbeats

(* The gate right before dispatch, and the dispatch.                        *)
GatePasses(c) ==
  /\ At(c, "gate")
  /\ MayBeat(c)
  /\ RecordBeat(c)
  /\ call' = [call EXCEPT ![c].at = "select", ![c].beats = call[c].beats + 1]
  /\ worker' = [worker EXCEPT ![c] = "running"]
  /\ UNCHANGED <<mutex, offered, granted>>

(* Mutant of GateFails: the loss is answered but not recorded.              *)
GateGivesUp(c, lost) ==
  /\ At(c, "gate")
  /\ ~lost
  /\ Return(c, "unknown", FALSE)
  /\ UNCHANGED <<vars, mutex, worker, offered, granted>>

GateFails(c, lost) ==
  /\ At(c, "gate")
  /\ IF lost THEN CommitMayBeLost /\ MayBeat(c) /\ RecordBeat(c) ELSE UNCHANGED vars
  /\ Goto(c, "lose")
  /\ UNCHANGED <<mutex, worker, offered, granted>>

(* A heartbeat of the worker, from any goroutine of it, also after Run has  *)
(* returned: mu is held from the checks to the end of the transaction.      *)
BeatBegins(c) ==
  /\ worker[c] # "none" /\ ~At(c, "crashed")
  /\ mutex[c] = "free"
  /\ MayBeat(c)
  /\ mutex' = [mutex EXCEPT ![c] = "beat"]
  /\ UNCHANGED <<vars, call, worker, offered, granted>>

BeatCommits(c, lost) ==
  /\ mutex[c] = "beat"
  /\ lost => CommitMayBeLost
  /\ RecordBeat(c)
  /\ mutex' = [mutex EXCEPT ![c] = "free"]
  /\ call' = IF lost THEN call
                     ELSE [call EXCEPT ![c].beats = call[c].beats + 1]
  /\ UNCHANGED <<worker, offered, granted>>

BeatFails(c) ==
  /\ mutex[c] = "beat"
  /\ mutex' = [mutex EXCEPT ![c] = "free"]
  /\ UNCHANGED <<vars, call, worker, offered, granted>>

-----------------------------------------------------------------------------
(* The result.                                                              *)
(* Worker.Run returns a claim or an error, or panics.                       *)
WorkerReturns(c, result) ==
  /\ worker[c] = "running" /\ ~At(c, "crashed")
  /\ worker' = [worker EXCEPT ![c] = result]
  /\ UNCHANGED <<vars, call, mutex, offered, granted>>

(* Mutant of Select: the end of the context is not waited for.              *)
SelectResult(c) ==
  /\ At(c, "select")
  /\ worker[c] # "running"
  /\ call' = [call EXCEPT ![c].at = "close", ![c].claim = worker[c] = "claimed"]
  /\ UNCHANGED <<vars, mutex, worker, offered, granted>>

Select(c) ==
  /\ At(c, "select")
  /\ \E claim \in BOOLEAN :
       /\ IF claim THEN worker[c] = "claimed" ELSE call[c].ended \/ worker[c] = "failed"
       /\ call' = [call EXCEPT ![c].at = "close", ![c].claim = claim]
  /\ UNCHANGED <<vars, mutex, worker, offered, granted>>

(* Mutant of Close: the heartbeat in progress is not waited for.            *)
CloseAtOnce(c, within) ==
  /\ At(c, "close")
  /\ call' = [call EXCEPT ![c].closed = TRUE, ![c].claim = FALSE,
                ![c].at = IF ~call[c].ended /\ call[c].claim /\ within THEN "report"
                                                                ELSE "lose"]
  /\ UNCHANGED <<vars, mutex, worker, offered, granted>>

(* Heartbeats end here.  Then cancellation wins over a claim, and so do the *)
(* limits and the policy, which `within` stands for.                        *)
Close(c, within) ==
  /\ At(c, "close")
  /\ mutex[c] = "free"
  /\ call' = [call EXCEPT ![c].closed = TRUE, ![c].claim = FALSE,
                ![c].at = IF ~call[c].ended /\ call[c].claim /\ within THEN "report"
                                                                ELSE "lose"]
  /\ UNCHANGED <<vars, mutex, worker, offered, granted>>

Report(c, inTime, lost) ==
  /\ At(c, "report")
  /\ lost => CommitMayBeLost
  /\ RecordWorkerReport(Result(AttemptOf(c)), AttemptOf(c), inTime)
  /\ IF lost THEN Goto(c, "lose") ELSE Return(c, "reported", FALSE)
  /\ UNCHANGED <<mutex, worker, offered, granted>>

ReportFails(c) ==
  /\ At(c, "report")
  /\ \/ StoreMayFail(c)
     \/ HasAuthority(OpOf(c), AttemptOf(c))   \* its deadline has passed
     \/ ~EvidenceAdmissible(Result(AttemptOf(c)), OpOf(c), AttemptOf(c))
  /\ Goto(c, "lose")
  /\ UNCHANGED <<vars, mutex, worker, offered, granted>>

-----------------------------------------------------------------------------
(* uncertain(): on a context of its own, in two transactions.               *)
Lose(c) ==
  /\ At(c, "lose")
  /\ \/ /\ "store" \in Faults \/ op[OpOf(c)].active # AttemptOf(c)
        /\ Return(c, "unknown", TRUE)
     \/ /\ op[OpOf(c)].active = AttemptOf(c)
        /\ call' = [call EXCEPT ![c].at = "invalidate", ![c].rev = op[OpOf(c)].rev]
  /\ UNCHANGED <<vars, mutex, worker, offered, granted>>

Invalidate(c, lost) ==
  /\ At(c, "invalidate")
  /\ lost => CommitMayBeLost
  /\ InvalidateAttempt(OpOf(c), call[c].rev, AttemptOf(c), Lost(AttemptOf(c)), LossKind)
  /\ Return(c, "unknown", lost)
  /\ UNCHANGED <<mutex, worker, offered, granted>>

(* The reasons why the store refuses the loss.                              *)
LossRefused(c) ==
  \/ op[OpOf(c)].rev # call[c].rev
  \/ revocation[AttemptOf(c)] # NoRevocation
  \/ op[OpOf(c)].rev = MaxInt64

(* Mutant of InvalidateFails: the loss is stored on the caller's context.   *)
InvalidateFailsByCaller(c) ==
  /\ At(c, "invalidate")
  /\ StoreMayFail(c) \/ LossRefused(c)
  /\ Return(c, "unknown", TRUE)
  /\ UNCHANGED <<vars, mutex, worker, offered, granted>>

InvalidateFails(c) ==
  /\ At(c, "invalidate")
  /\ "store" \in Faults \/ LossRefused(c)
  /\ Return(c, "unknown", TRUE)
  /\ UNCHANGED <<vars, mutex, worker, offered, granted>>

-----------------------------------------------------------------------------
(* The surroundings.                                                        *)

Live(c) == call[c].at \notin {"idle", "returned", "crashed"}

(* The caller cancels, or the deadline of the context fires.                *)
CtxDone(c) ==
  /\ Live(c) /\ ~call[c].ended
  /\ call' = [call EXCEPT ![c].ended = TRUE]
  /\ UNCHANGED <<vars, mutex, worker, offered, granted>>

(* The process of the call is gone, and a transaction it had open.          *)
Crash(c) ==
  /\ "crash" \in Faults
  /\ Live(c)
  /\ call' = [call EXCEPT ![c] = [NewCall EXCEPT !.at = "crashed", !.req = call[c].req]]
  /\ mutex' = [mutex EXCEPT ![c] = "free"]
  /\ UNCHANGED <<vars, worker, offered, granted>>

(* The controller prepares operations, decides about them, citing the       *)
(* record of the attempt's acceptance, and closes their tasks.              *)
Decide(o, v, verdict, safe) ==
  LET a == op[o].active
      cited == {Accepted(a)} IN
  /\ a # NoID
  /\ \/ ApplyVerification(o, op[o].rev, v, a, cited, verdict, safe)
     \/ MarkNotStarted(o, op[o].rev, v, a, cited, verdict, safe)

Controller ==
  /\ \/ \E t \in Tasks : CreateTask(t)
     \/ \E d \in Descriptors : CreateOperation(d)
     \/ \E o \in Ops : \/ MarkReady(o, op[o].rev)
                       \/ BeginVerification(o, op[o].rev)
                       \/ MarkUnknownOutcome(o, op[o].rev)
     \/ \E o \in Ops, v \in VerificationIds, verdict \in Verdicts, safe \in BOOLEAN :
          Decide(o, v, verdict, safe)
     \/ \E o \in Ops, a \in Attempts :
          InvalidateAttempt(o, op[o].rev, a, Observed(a), LossKind)
     \/ \E t \in Tasks : FinalizeTask(t, task[t].rev)
  /\ UNCHANGED runnerVars

-----------------------------------------------------------------------------
(* The steps of the goroutine that runs Execute.                            *)
Main(c) ==
  \/ \E accepts \in BOOLEAN : Admit(c, accepts)
  \/ OfferKnown(c)
  \/ \E lost \in BOOLEAN : \/ OfferRefused(c, lost)
                           \/ OfferGranted(c, lost)
                           \/ GateFails(c, lost)
                           \/ \E inTime \in BOOLEAN : Report(c, inTime, lost)
                           \/ Invalidate(c, lost)
  \/ OfferFails(c)
  \/ GatePasses(c)
  \/ Select(c)
  \/ ReportFails(c)
  \/ Lose(c)
  \/ InvalidateFails(c)

BeatEnds(c) == BeatFails(c) \/ \E lost \in BOOLEAN : BeatCommits(c, lost)

RunnerNext ==
  \/ \E c \in Calls, off \in Offers : Submit(c, off)
  \/ \E c, d \in Calls : Redeliver(c, d)
  \/ \E c \in Calls : \/ Main(c)
                      \/ \E within \in BOOLEAN : Close(c, within)
                      \/ BeatBegins(c)
                      \/ BeatEnds(c)
                      \/ \E result \in {"claimed", "failed"} : WorkerReturns(c, result)
                      \/ CtxDone(c)
                      \/ Crash(c)
  \/ Controller

RunnerSpec == RunnerInit /\ [][RunnerNext]_allVars

(* A call runs on, and its store calls and its context end in time.  mu is  *)
(* a sync.Mutex, which does not starve a waiter.  Nothing is assumed of the *)
(* worker, of callers or of the controller.                                 *)
FairRunner ==
  RunnerSpec /\ \A c \in Calls : /\ WF_allVars(Main(c))
                                 /\ WF_allVars(BeatEnds(c))
                                 /\ WF_allVars(CtxDone(c))
                                 /\ SF_allVars(\E within \in BOOLEAN : Close(c, within))

-----------------------------------------------------------------------------
(* RunnerTypeOK: the runner's variables are well formed.                    *)
RunnerTypeOK ==
  /\ call \in [Calls -> [at : Places, req : Requests \cup {NoRequest},
                         ended : BOOLEAN, permitted : BOOLEAN,
                         beats : 0..MaxHeartbeats, closed : BOOLEAN,
                         claim : BOOLEAN, rev : 0..MaxInt64,
                         answer : Answers, failed : BOOLEAN]]
  /\ mutex \in [Calls -> {"free", "beat"}]
  /\ worker \in [Calls -> {"none", "running", "claimed", "failed"}]
  /\ offered \in [Messages -> Requests \cup {NoRequest}]
  /\ granted \in [Attempts -> Calls \cup {NoCall}]

(* Execute dispatches at most once per committed offer: an attempt is run   *)
(* only by the one call that was told that its offer started the attempt,   *)
(* however often the offer is delivered, and never after a commit whose     *)
(* answer was lost, or after a restart.                                     *)
DispatchedByItsOffer ==
  \A c \in Calls :
    worker[c] # "none" => /\ granted[AttemptOf(c)] = c
                          /\ offered[OfferOf(c).msg] = call[c].req

(* Every attempt after the first of an operation names the attempt of the   *)
(* generation before it, though the check is made before the transaction.   *)
RetryIsLinked ==
  \A a \in Attempts :
    attempt[a].gen > 1 =>
      LET prior == attempt[attempt[a].retryOf] IN
      /\ attempt[a].retryOf # NoID
      /\ prior.op = attempt[a].op
      /\ prior.gen = attempt[a].gen - 1

(* A call that returns without an error has settled its attempt: it is not  *)
(* left executing with authority, and an outcome that is answered as        *)
(* unknown has been recorded as a loss.                                     *)
SettledOnReturn ==
  \A c \in Calls :
    /\ At(c, "returned") /\ ~call[c].failed
    /\ granted[AttemptOf(c)] = c
    => /\ ~(op[OpOf(c)].active = AttemptOf(c) /\ op[OpOf(c)].state = "executing")
       /\ call[c].answer = "unknown" => revocation[AttemptOf(c)] # NoRevocation

(* Two workers run for one operation only when the attempt of the older one *)
(* has been found without effect and safe to run again: that a call has     *)
(* returned, or its process is gone, does not say that its worker stopped.  *)
OverlapIsJustified ==
  \A c, d \in Calls :
    LET a == AttemptOf(c)
        b == AttemptOf(d) IN
    /\ worker[c] = "running" /\ worker[d] = "running"
    /\ OpOf(c) = OpOf(d)
    /\ attempt[a].gen < attempt[b].gen
    => \E v \in VerificationIds : /\ verification[v].attempt = a
                                  /\ verification[v].verdict = "not_satisfied_retryable"
                                  /\ verification[v].safe

(* No heartbeat of an attempt is recorded after its result or its loss has  *)
(* been recorded by the runner, though the worker may still be running.     *)
BeatsEndWithOutcome ==
  [][\A a \in Attempts, i \in 0..MaxHeartbeats - 1 :
       evidence[Beat(a, i)] = NoEvidence /\ evidence'[Beat(a, i)] # NoEvidence
       => evidence[Result(a)] = NoEvidence /\ evidence[Lost(a)] = NoEvidence]_allVars

(* Every call of Execute returns, also when its worker never does.          *)
EveryCallReturns == \A c \in Calls : At(c, "admit") ~> ~Live(c)

(* When no fault happens, the runner does not leave an attempt executing:   *)
(* it is reported, or its loss is recorded.                                 *)
AttemptsSettle ==
  \A a \in Attempts :
    granted[a] # NoCall ~>
      ~(\E o \in Ops : op[o].active = a /\ op[o].state = "executing")
=============================================================================
