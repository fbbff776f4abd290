---------------------------- MODULE RunnerProofs ----------------------------
(***************************************************************************)
(* Theorems about Runner: its transactions keep the invariant of the       *)
(* store, an attempt is run by the one call that started it, retries are   *)
(* linked, and what a call answers is what has been recorded.              *)
(*                                                                         *)
(* The inductive invariant says, for each place in Execute, what the call  *)
(* may rely on although other calls and the controller act in between: the *)
(* offer and the attempt are its own, and the operation has not been at    *)
(* the revision of the offer with another content.                         *)
(***************************************************************************)
EXTENDS Runner, ControlStoreHistoryProofs

-----------------------------------------------------------------------------
(* The inductive invariant.                                                 *)

(* Where a call works on an attempt that it was told to have started.       *)
Working == {"gate", "select", "close", "report", "lose", "invalidate"}

Early == {"idle", "admit", "offer"}

(* The offer of a call has been committed, and this call was told.          *)
OwnsOffer(c) ==
  /\ granted[AttemptOf(c)] = c
  /\ offered[OfferOf(c).msg] = call[c].req

CallInv(c) ==
  /\ call[c].at \in {"idle", "admit", "offer", "gate"} => worker[c] = "none"
  /\ ~At(c, "idle") => /\ call[c].req \in Requests
                       /\ op[OpOf(c)] # NoOp
                       /\ call[c].req.rev <= op[OpOf(c)].rev
  /\ call[c].at \in Working \/ worker[c] # "none" => OwnsOffer(c)
  /\ At(c, "offer") /\ call[c].permitted /\ op[OpOf(c)].rev = call[c].req.rev =>
       LinksRetry(c)
  /\ At(c, "report") => call[c].closed
  /\ mutex[c] = "beat" => /\ worker[c] # "none"
                          /\ ~call[c].closed
                          /\ ~At(c, "crashed")
                          /\ call[c].beats < MaxHeartbeats

(* A call that was told to have started an attempt is past its offer.       *)
GrantInv(a) ==
  granted[a] \in Calls =>
    /\ AttemptOf(granted[a]) = a
    /\ OpOf(granted[a]) = attempt[a].op
    /\ call[granted[a]].at \notin Early

(* A result is recorded when the heartbeats of its call have ended, and a   *)
(* loss together with the revocation.                                       *)
OutcomeInv(a) ==
  /\ evidence[Result(a)] # NoEvidence =>
       /\ granted[a] \in Calls
       /\ call[granted[a]].closed \/ At(granted[a], "crashed")
  /\ evidence[Lost(a)] # NoEvidence => revocation[a] # NoRevocation

(* SettledOnReturn, for one call.                                           *)
Settled(c) ==
  /\ At(c, "returned") /\ ~call[c].failed
  /\ granted[AttemptOf(c)] = c
  => /\ ~(op[OpOf(c)].active = AttemptOf(c) /\ op[OpOf(c)].state = "executing")
     /\ call[c].answer = "unknown" => revocation[AttemptOf(c)] # NoRevocation

ExecutingIsUnrevoked ==
  \A o \in Ops : op[o].state = "executing" => revocation[op[o].active] = NoRevocation

CallsInv    == \A c \in Calls : CallInv(c)
GrantsInv   == \A a \in Attempts : GrantInv(a)
OutcomesInv == \A a \in Attempts : OutcomeInv(a)
AllSettled  == \A c \in Calls : Settled(c)

RInv ==
  /\ HInv
  /\ RunnerTypeOK
  /\ CallsInv
  /\ GrantsInv
  /\ OutcomesInv
  /\ ExecutingIsUnrevoked
  /\ RetryIsLinked
  /\ AllSettled

-----------------------------------------------------------------------------
(* Types.                                                                   *)
CallTypes == [at : Places, req : Requests \cup {NoRequest},
              ended : BOOLEAN, permitted : BOOLEAN,
              beats : 0..MaxHeartbeats, closed : BOOLEAN,
              claim : BOOLEAN, rev : 0..MaxInt64,
              answer : Answers, failed : BOOLEAN]

LEMMA OfferTypes ==
  ASSUME NEW c \in Calls, call[c].req \in Requests
  PROVE  /\ OfferOf(c) \in Offers
         /\ OpOf(c) \in Ops
         /\ AttemptOf(c) \in Attempts
         /\ OfferOf(c).msg \in Messages
         /\ OfferOf(c).lease \in Leases
         /\ OfferOf(c).retry \in Attempts \cup {NoID}
         /\ call[c].req.rev \in 1..MaxInt64
BY RunnerAssumption DEF Requests, OfferRows, OfferOf, OpOf, AttemptOf

LEMMA RequestsApart == NoRequest \notin Requests
BY DEF NoRequest, Requests

LEMMA NewCallType == NewCall \in CallTypes
BY RunnerAssumption, MaxInt64Assumption DEF NewCall, CallTypes, Places, Answers

LEMMA Returning ==
  ASSUME RunnerTypeOK, NEW c \in Calls, NEW answer \in Answers, NEW failed \in BOOLEAN,
         Return(c, answer, failed)
  PROVE  /\ call' \in [Calls -> CallTypes]
         /\ call'[c].at = "returned"
         /\ call'[c].req = call[c].req
         /\ call'[c].closed = call[c].closed
         /\ call'[c].beats = 0
         /\ call'[c].answer = answer
         /\ call'[c].failed = failed
         /\ \A d \in Calls \ {c} : call'[d] = call[d]
BY NewCallType DEF Return, RunnerTypeOK, CallTypes, NewCall, Places

LEMMA TypedStep ==
  ASSUME RunnerTypeOK, NEW c \in Calls, NEW row \in CallTypes,
         call' = [call EXCEPT ![c] = row],
         mutex' \in [Calls -> {"free", "beat"}],
         worker' \in [Calls -> {"none", "running", "claimed", "failed"}],
         offered' \in [Messages -> Requests \cup {NoRequest}],
         granted' \in [Attempts -> Calls \cup {NoCall}]
  PROVE  /\ RunnerTypeOK'
         /\ call'[c] = row
         /\ \A d \in Calls \ {c} : call'[d] = call[d]
<1>1. call \in [Calls -> CallTypes]
  BY DEF RunnerTypeOK, CallTypes
<1>2. call' \in [Calls -> CallTypes] /\ call'[c] = row
  BY <1>1
<1>3. \A d \in Calls \ {c} : call'[d] = call[d]
  BY <1>1
<1>. QED
  BY <1>2, <1>3 DEF RunnerTypeOK, CallTypes

LEMMA QuietTypes ==
  ASSUME RunnerTypeOK, UNCHANGED <<mutex, worker, offered, granted>>
  PROVE  /\ mutex' \in [Calls -> {"free", "beat"}]
         /\ worker' \in [Calls -> {"none", "running", "claimed", "failed"}]
         /\ offered' \in [Messages -> Requests \cup {NoRequest}]
         /\ granted' \in [Attempts -> Calls \cup {NoCall}]
BY DEF RunnerTypeOK

(* What the rows of the store are for a call that has read its operation.   *)
LEMMA KnownCall ==
  ASSUME RInv, NEW c \in Calls, ~At(c, "idle")
  PROVE  /\ call[c].req \in Requests
         /\ OpOf(c) \in Ops
         /\ AttemptOf(c) \in Attempts
         /\ OfferOf(c).msg \in Messages
         /\ op[OpOf(c)] # NoOp
         /\ call[c].req.rev \in 1..MaxInt64
         /\ call[c].req.rev <= op[OpOf(c)].rev
BY OfferTypes DEF RInv, CallsInv, CallInv

LEMMA OwnAttempt ==
  ASSUME RInv, NEW a \in Attempts, granted[a] \in Calls
  PROVE  /\ AttemptOf(granted[a]) = a
         /\ attempt[a].op = OpOf(granted[a])
         /\ OpOf(granted[a]) \in Ops
         /\ attempt[a] # NoAttempt
         /\ call[granted[a]].at \notin Early
<1>1. GrantInv(a)
  BY DEF RInv, GrantsInv
<1>2. OpOf(granted[a]) \in Ops
  BY <1>1, KnownCall DEF GrantInv, Early, At
<1>. QED
  BY <1>1, <1>2, IdentifierAssumption DEF GrantInv, NoAttempt

-----------------------------------------------------------------------------
(* What the store keeps from step to step.                                  *)
RowsStay ==
  \A o \in Ops : op[o] # NoOp =>
    /\ op'[o] # NoOp
    /\ op'[o].rev \in Nat
    /\ op[o].rev <= op'[o].rev
    /\ op'[o].rev = op[o].rev =>
         /\ op'[o] = op[o]
         /\ \A a \in Attempts : attempt[a].op = o => attempt'[a] = attempt[a]

ExecutingStays ==
  \A o \in Ops : op'[o].state = "executing" =>
    \/ op'[o] = op[o]
    \/ attempt[op'[o].active] = NoAttempt /\ UNCHANGED revocation

LEMMA GrowthStays ==
  ASSUME HInv, Growth
  PROVE  RowsStay /\ RecordsStay /\ ExecutingStays
<1>. DEFINE Goal == RowsStay /\ RecordsStay /\ ExecutingStays
<1>0. \A o \in Ops : op[o] # NoOp => op[o].rev \in Nat
  BY OperationRow, PresentOperation, MaxInt64Assumption DEF HInv
<1>1. CASE \E o \in Ops : Moves(o)
  <2>1. PICK o \in Ops : Moves(o)
    BY <1>1
  <2>2. /\ op[o] \in OpRows
        /\ op'[o] \in OpRows
        /\ op'[o].rev = op[o].rev + 1
        /\ \A x \in Ops \ {o} : op'[x] = op[x]
        /\ \A a \in Attempts : attempt'[a] # attempt[a] =>
             attempt[a] = NoAttempt \/ attempt[a].op = o
    BY <2>1 DEF Moves, OperationSteps
  <2>3. op'[o] # NoOp /\ op[o] # NoOp
    BY <2>2, PresentOperation
  <2>4. \A a \in Attempts : attempt[a].op \in Ops \ {o} => attempt'[a] = attempt[a]
    BY <2>2, IdentifierAssumption DEF NoAttempt
  <2>5. RowsStay
    BY <1>0, <2>2, <2>3, <2>4 DEF RowsStay
  <2>6. ExecutingStays
    BY <2>1, <2>2 DEF Moves, BeginsAnew, ExecutingStays
  <2>. QED
    BY <2>1, <2>5, <2>6 DEF Moves
<1>2. CASE OnlyEvidence
  BY <1>0, <1>2 DEF OnlyEvidence, RowsStay, RecordsStay, ExecutingStays
<1>3. CASE OnlyTasks
  BY <1>0, <1>3 DEF OnlyTasks, RowsStay, RecordsStay, ExecutingStays
<1>4. ASSUME NEW d \in Descriptors, CreateOperation(d)
      PROVE  Goal
  <2>. DEFINE row == [desc |-> d, state |-> "planned", rev |-> 1, gen |-> 0,
                      active |-> NoID]
  <2>1. /\ op[d.id] = NoOp
        /\ op' = [op EXCEPT ![d.id] = row]
        /\ UNCHANGED <<attempt, evidence, revocation>>
    BY <1>4 DEF CreateOperation
  <2>2. row.state # "executing"
    OBVIOUS
  <2>. HIDE DEF row
  <2>3. \A o \in Ops : op[o] # NoOp => op'[o] = op[o]
    BY <2>1 DEF HInv, IInv, TypeOK
  <2>4. \A o \in Ops : op'[o].state = "executing" => op'[o] = op[o]
    BY <2>1, <2>2 DEF HInv, IInv, TypeOK
  <2>5. RowsStay
    BY <1>0, <2>1, <2>3 DEF RowsStay
  <2>6. RecordsStay
    BY <2>1 DEF RecordsStay
  <2>. QED
    BY <2>4, <2>5, <2>6 DEF ExecutingStays
<1>. QED
  BY <1>1, <1>2, <1>3, <1>4, GrowthKinds

(* A revocation is of an attempt that has been started.                     *)
LEMMA FreshIsUnrevoked ==
  ASSUME HInv, NEW a \in Attempts, attempt[a] = NoAttempt
  PROVE  revocation[a] = NoRevocation
<1>1. revocation[a] # NoRevocation => revocation[a].op \in Ops /\ attempt[a].op = revocation[a].op
  BY DEF HInv, IInv, TypeOK, RevocationRows, Linked, RevocationsLinked
<1>. QED
  BY <1>1, IdentifierAssumption DEF NoAttempt

LEMMA UnrevokedKept ==
  ASSUME HInv, Growth, ExecutingIsUnrevoked
  PROVE  ExecutingIsUnrevoked'
<1>. SUFFICES ASSUME NEW o \in Ops, op'[o].state = "executing"
              PROVE  revocation'[op'[o].active] = NoRevocation
  BY DEF ExecutingIsUnrevoked
<1>1. HInv'
  BY StoreStepHistory DEF StoreStep
<1>2. op'[o] # NoOp
  BY DEF NoOp
<1>3. op'[o].active \in Attempts
  <2>1. op'[o] \in OpRows
    BY <1>1, <1>2 DEF HInv, IInv, TypeOK
  <2>2. op'[o].active # NoID
    BY <1>1 DEF HInv, IInv, ActiveAttemptLinked, InFlightStates
  <2>. QED
    BY <2>1, <2>2 DEF OpRows
<1>4. CASE op'[o] = op[o]
  <2>1. op[o].active \in Attempts /\ attempt[op[o].active].op = o
    BY <1>4, ActiveAttemptOwn DEF HInv, InFlightStates
  <2>2. op[o] \in OpRows /\ op[o].rev \in Nat
    BY <1>2, <1>4, OperationRow, PresentOperation, MaxInt64Assumption DEF HInv
  <2>3. \A a \in Attempts : attempt[a].op = o => revocation'[a] = revocation[a]
    BY <1>2, <1>4, <2>2, RevisionStep DEF StoreStep
  <2>. QED
    BY <1>4, <2>1, <2>3 DEF ExecutingIsUnrevoked
<1>5. CASE attempt[op'[o].active] = NoAttempt /\ UNCHANGED revocation
  BY <1>3, <1>5, FreshIsUnrevoked
<1>. QED
  BY <1>4, <1>5, GrowthStays DEF ExecutingStays

-----------------------------------------------------------------------------
(* What a step of the runner leaves to the calls that do not take it.       *)

(* The step does not move the call, though its context may end, a heartbeat *)
(* of it may be over, or its worker may return.                             *)
Unmoved(c) ==
  /\ call'[c].at = call[c].at
  /\ call'[c].req = call[c].req
  /\ call'[c].permitted = call[c].permitted
  /\ call'[c].closed = call[c].closed
  /\ call'[c].answer = call[c].answer
  /\ call'[c].failed = call[c].failed
  /\ worker'[c] = "none" <=> worker[c] = "none"
  /\ mutex'[c] = "beat" => mutex[c] = "beat" /\ call'[c].beats = call[c].beats

(* The call goes on, and takes nothing back.                                *)
Advances(c) ==
  /\ ~At(c, "idle") => call'[c].req = call[c].req
  /\ call[c].at \notin Early => call'[c].at \notin Early
  /\ call[c].closed \/ At(c, "crashed") => call'[c].closed \/ call'[c].at = "crashed"

OffersStay == \A m \in Messages : offered[m] # NoRequest => offered'[m] = offered[m]
GrantsStay == \A a \in Attempts : granted[a] \in Calls => granted'[a] = granted[a]

LEMMA UnmovedAdvances ==
  ASSUME NEW c \in Calls, Unmoved(c)
  PROVE  Advances(c)
BY DEF Unmoved, Advances, At

(* An offer that is permitted is so for what its operation was.             *)
LEMMA LinkKept ==
  ASSUME RInv, RowsStay, NEW c \in Calls, At(c, "offer"), call[c].permitted,
         call'[c].req = call[c].req, op'[OpOf(c)].rev = call[c].req.rev
  PROVE  LinksRetry(c)'
<1>. DEFINE o == OpOf(c)
            retry == OfferOf(c).retry
<1>1. /\ o \in Ops /\ op[o] # NoOp
      /\ call[c].req.rev <= op[o].rev
      /\ call[c].req.rev \in 1..MaxInt64
      /\ retry \in Attempts \cup {NoID}
  BY KnownCall, OfferTypes DEF At
<1>2. op[o].rev \in Nat
  BY <1>1, OperationRow, PresentOperation, MaxInt64Assumption DEF RInv, HInv
<1>3. op[o].rev <= op'[o].rev
  BY <1>1 DEF RowsStay
<1>4. op'[o].rev = call[c].req.rev /\ op[o].rev = call[c].req.rev
  BY <1>1, <1>2, <1>3, MaxInt64Assumption
<1>5. op'[o] = op[o] /\ \A a \in Attempts : attempt[a].op = o => attempt'[a] = attempt[a]
  BY <1>1, <1>4 DEF RowsStay
<1>6. LinksRetry(c)
  BY <1>4 DEF RInv, CallsInv, CallInv
<1>7. OpOf(c)' = o /\ OfferOf(c)' = OfferOf(c)
  BY DEF OpOf, OfferOf
<1>. QED
  BY <1>1, <1>5, <1>6, <1>7 DEF LinksRetry

LEMMA OwnsKept ==
  ASSUME RInv, OffersStay, GrantsStay, NEW c \in Calls, ~At(c, "idle"), OwnsOffer(c),
         call'[c].req = call[c].req
  PROVE  OwnsOffer(c)'
<1>1. /\ AttemptOf(c)' = AttemptOf(c) /\ OfferOf(c)' = OfferOf(c)
      /\ AttemptOf(c) \in Attempts /\ OfferOf(c).msg \in Messages
      /\ call[c].req # NoRequest
  BY KnownCall, RequestsApart DEF AttemptOf, OfferOf
<1>. QED
  BY <1>1 DEF OwnsOffer, OffersStay, GrantsStay

LEMMA KnownKept ==
  ASSUME RInv, RowsStay, NEW c \in Calls, ~At(c, "idle"), call'[c].req = call[c].req
  PROVE  /\ call'[c].req \in Requests
         /\ op'[OpOf(c)'] # NoOp
         /\ call'[c].req.rev <= op'[OpOf(c)'].rev
<1>1. /\ call[c].req \in Requests
      /\ OpOf(c) \in Ops /\ OpOf(c)' = OpOf(c)
      /\ op[OpOf(c)] # NoOp
      /\ call[c].req.rev \in 1..MaxInt64
      /\ call[c].req.rev <= op[OpOf(c)].rev
  BY KnownCall DEF OpOf, OfferOf
<1>2. op[OpOf(c)].rev \in Nat
  BY <1>1, OperationRow, PresentOperation, MaxInt64Assumption DEF RInv, HInv
<1>3. op'[OpOf(c)] # NoOp /\ op[OpOf(c)].rev <= op'[OpOf(c)].rev
  BY <1>1 DEF RowsStay
<1>4. op'[OpOf(c)].rev \in Nat
  BY <1>1 DEF RowsStay
<1>. QED
  BY <1>1, <1>2, <1>3, <1>4, MaxInt64Assumption

LEMMA UnmovedKept ==
  ASSUME RInv, RowsStay, OffersStay, GrantsStay, NEW c \in Calls, Unmoved(c)
  PROVE  CallInv(c)'
<1>1. CallInv(c)
  BY DEF RInv, CallsInv
<1>2. call'[c].at \in {"idle", "admit", "offer", "gate"} => worker'[c] = "none"
  BY <1>1 DEF Unmoved, CallInv
<1>3. ~At(c, "idle")' => /\ call'[c].req \in Requests
                         /\ op'[OpOf(c)'] # NoOp
                         /\ call'[c].req.rev <= op'[OpOf(c)'].rev
  BY KnownKept DEF Unmoved, At
<1>4. call'[c].at \in Working \/ worker'[c] # "none" => OwnsOffer(c)'
  BY <1>1, OwnsKept DEF Unmoved, At, CallInv, Working
<1>5. At(c, "offer")' /\ call'[c].permitted /\ op'[OpOf(c)'].rev = call'[c].req.rev =>
        LinksRetry(c)'
  <2>1. OpOf(c)' = OpOf(c)
    BY DEF Unmoved, OpOf, OfferOf
  <2>. QED
    BY <2>1, LinkKept DEF Unmoved, At
<1>6. At(c, "report")' => call'[c].closed
  BY <1>1 DEF Unmoved, At, CallInv
<1>7. mutex'[c] = "beat" => /\ worker'[c] # "none"
                            /\ ~call'[c].closed
                            /\ ~At(c, "crashed")'
                            /\ call'[c].beats < MaxHeartbeats
  BY <1>1 DEF Unmoved, At, CallInv
<1>. QED
  BY <1>2, <1>3, <1>4, <1>5, <1>6, <1>7 DEF CallInv

(* A call that works on its attempt goes on, or ends.                       *)
LEMMA WorkingKept ==
  ASSUME RInv, RunnerTypeOK', RowsStay, OffersStay, GrantsStay,
         NEW c \in Calls, ~At(c, "idle"),
         call'[c].at \in (Working \ {"gate"}) \cup {"returned", "crashed"},
         call[c].at \in Working \/ call'[c].at \notin Working,
         call'[c].req = call[c].req,
         call'[c].at = "report" => call'[c].closed,
         worker'[c] # "none" => worker[c] # "none" \/ call[c].at \in Working,
         mutex'[c] = "beat" => /\ mutex[c] = "beat"
                               /\ worker'[c] # "none"
                               /\ call'[c].at # "crashed"
                               /\ call'[c].closed = call[c].closed
                               /\ call'[c].beats <= call[c].beats
  PROVE  CallInv(c)'
<1>1. CallInv(c)
  BY DEF RInv, CallsInv
<1>2. call'[c].at \notin {"idle", "admit", "offer", "gate"}
  BY DEF Working
<1>3. /\ call'[c].req \in Requests
      /\ op'[OpOf(c)'] # NoOp
      /\ call'[c].req.rev <= op'[OpOf(c)'].rev
  BY KnownKept
<1>4. call'[c].at \in Working \/ worker'[c] # "none" => OwnsOffer(c)'
  BY <1>1, OwnsKept DEF CallInv
<1>5. mutex'[c] = "beat" => /\ worker'[c] # "none"
                            /\ ~call'[c].closed
                            /\ ~At(c, "crashed")'
                            /\ call'[c].beats < MaxHeartbeats
  <2>1. call[c].beats \in Nat /\ call'[c].beats \in Nat /\ MaxHeartbeats \in Nat
    BY RunnerAssumption DEF RInv, RunnerTypeOK
  <2>. QED
    BY <1>1, <2>1 DEF CallInv, At
<1>. QED
  BY <1>2, <1>3, <1>4, <1>5 DEF CallInv, At

-----------------------------------------------------------------------------
(* What a step keeps that starts no attempt and records no outcome.         *)
StartsNone   == \A a \in Attempts : attempt[a] = NoAttempt => attempt'[a] = NoAttempt
OutcomesStay == \A a \in Attempts : /\ evidence'[Result(a)] = evidence[Result(a)]
                                    /\ evidence'[Lost(a)] = evidence[Lost(a)]
BeatsStay    == \A a \in Attempts, i \in 0..MaxHeartbeats - 1 :
                  evidence'[Beat(a, i)] = evidence[Beat(a, i)]

LEMMA GrantKept ==
  ASSUME RInv, RecordsStay, NEW a \in Attempts, granted'[a] = granted[a],
         \A c \in Calls : Advances(c)
  PROVE  GrantInv(a)'
<1>. SUFFICES ASSUME granted[a] \in Calls
              PROVE  /\ AttemptOf(granted[a])' = a
                     /\ OpOf(granted[a])' = attempt'[a].op
                     /\ call'[granted[a]].at \notin Early
  BY DEF GrantInv, AttemptOf, OpOf, OfferOf
<1>1. /\ AttemptOf(granted[a]) = a
      /\ attempt[a].op = OpOf(granted[a])
      /\ attempt[a] # NoAttempt
      /\ call[granted[a]].at \notin Early
  BY OwnAttempt
<1>2. Advances(granted[a]) /\ ~At(granted[a], "idle")
  BY <1>1 DEF Early, At
<1>3. attempt'[a].op = attempt[a].op
  BY <1>1 DEF RecordsStay
<1>4. call'[granted[a]].req = call[granted[a]].req /\ call'[granted[a]].at \notin Early
  BY <1>1, <1>2 DEF Advances
<1>. QED
  BY <1>1, <1>3, <1>4 DEF AttemptOf, OpOf, OfferOf

LEMMA OutcomesKept ==
  ASSUME RInv, RecordsStay, GrantsStay, OutcomesStay, \A c \in Calls : Advances(c)
  PROVE  OutcomesInv'
<1>. SUFFICES ASSUME NEW a \in Attempts
              PROVE  OutcomeInv(a)'
  BY DEF OutcomesInv
<1>1. OutcomeInv(a)
  BY DEF RInv, OutcomesInv
<1>2. evidence'[Result(a)] # NoEvidence =>
        /\ granted'[a] \in Calls
        /\ call'[granted'[a]].closed \/ At(granted[a], "crashed")'
  BY <1>1 DEF OutcomeInv, OutcomesStay, GrantsStay, Advances, At
<1>3. evidence'[Lost(a)] # NoEvidence => revocation'[a] # NoRevocation
  BY <1>1 DEF OutcomeInv, OutcomesStay, RecordsStay
<1>. QED
  BY <1>2, <1>3 DEF OutcomeInv, At

(* The attempt that an attempt is a retry of is kept with it.               *)
LEMMA LinkedRetryKept ==
  ASSUME RInv, RecordsStay, NEW a \in Attempts, attempt[a] # NoAttempt, attempt'[a].gen > 1
  PROVE  LET prior == attempt'[attempt'[a].retryOf] IN
         /\ attempt'[a].retryOf # NoID
         /\ prior.op = attempt'[a].op
         /\ prior.gen = attempt'[a].gen - 1
<1>. DEFINE p == attempt[a].retryOf
<1>1. attempt'[a].gen = attempt[a].gen /\ attempt'[a].op = attempt[a].op
      /\ attempt'[a].retryOf = p
  BY DEF RecordsStay
<1>2. /\ p # NoID
      /\ attempt[p].op = attempt[a].op
      /\ attempt[p].gen = attempt[a].gen - 1
  BY <1>1 DEF RInv, RetryIsLinked
<1>3. attempt[a] \in AttemptRows /\ attempt[a].op \in Ops
  BY AttemptRow DEF RInv, HInv
<1>4. p \in Attempts
  BY <1>2, <1>3 DEF AttemptRows
<1>5. attempt[p] # NoAttempt
  BY <1>2, <1>3, IdentifierAssumption DEF NoAttempt
<1>6. attempt'[p].op = attempt[p].op /\ attempt'[p].gen = attempt[p].gen
  BY <1>4, <1>5 DEF RecordsStay
<1>. QED
  BY <1>1, <1>2, <1>6

LEMMA RetriesKept ==
  ASSUME RInv, RecordsStay, StartsNone
  PROVE  RetryIsLinked'
<1>1. \A a \in Attempts : attempt'[a].gen > 1 => attempt[a] # NoAttempt
  BY DEF StartsNone, NoAttempt
<1>. QED
  BY <1>1, LinkedRetryKept DEF RetryIsLinked

LEMMA SettledKept ==
  ASSUME RInv, RecordsStay, ExecutingStays, NEW c \in Calls, Unmoved(c),
         \A a \in Attempts : granted'[a] = c => granted[a] = c
  PROVE  Settled(c)'
<1>. SUFFICES ASSUME call'[c].at = "returned", ~call'[c].failed, granted'[AttemptOf(c)'] = c
              PROVE  /\ ~(/\ op'[OpOf(c)'].active = AttemptOf(c)'
                          /\ op'[OpOf(c)'].state = "executing")
                     /\ call'[c].answer = "unknown" => revocation'[AttemptOf(c)'] # NoRevocation
  BY DEF Settled, At
<1>1. /\ AttemptOf(c)' = AttemptOf(c) /\ OpOf(c)' = OpOf(c)
      /\ call[c].at = "returned" /\ ~call[c].failed /\ call'[c].answer = call[c].answer
  BY DEF Unmoved, AttemptOf, OpOf, OfferOf
<1>2. AttemptOf(c) \in Attempts /\ OpOf(c) \in Ops
  BY <1>1, KnownCall DEF At
<1>3. granted[AttemptOf(c)] = c
  BY <1>1, <1>2
<1>4. /\ ~(op[OpOf(c)].active = AttemptOf(c) /\ op[OpOf(c)].state = "executing")
      /\ call[c].answer = "unknown" => revocation[AttemptOf(c)] # NoRevocation
  BY <1>1, <1>3 DEF RInv, AllSettled, Settled, At
<1>5. attempt[AttemptOf(c)] # NoAttempt
  BY <1>2, <1>3, OwnAttempt
<1>6. revocation[AttemptOf(c)] # NoRevocation => revocation'[AttemptOf(c)] # NoRevocation
  BY <1>2 DEF RecordsStay
<1>7. ~(op'[OpOf(c)].active = AttemptOf(c) /\ op'[OpOf(c)].state = "executing")
  BY <1>2, <1>4, <1>5 DEF ExecutingStays
<1>. QED
  BY <1>1, <1>4, <1>6, <1>7

(* The call that takes the step is where it may be.                         *)
Arrives(c) == Advances(c) /\ CallInv(c)' /\ Settled(c)'

(* The invariant after a step, from what it does to the call that takes it, *)
(* to the outcomes and to the attempts.                                     *)
NoneGranted(c) == \A a \in Attempts : granted'[a] = c => granted[a] = c

LEMMA StepByParts ==
  ASSUME RInv, RunnerTypeOK', Growth, OffersStay, GrantsStay,
         GrantsInv', OutcomesInv', RetryIsLinked',
         \A c \in Calls : (Unmoved(c) /\ NoneGranted(c)) \/ Arrives(c)
  PROVE  RInv'
<1>1. RowsStay /\ RecordsStay /\ ExecutingStays
  BY GrowthStays DEF RInv
<1>2. HInv'
  BY StoreStepHistory DEF StoreStep, RInv
<1>3. CallsInv'
  BY <1>1, UnmovedKept DEF CallsInv, Arrives
<1>4. AllSettled'
  BY <1>1, SettledKept DEF AllSettled, Arrives, NoneGranted
<1>5. ExecutingIsUnrevoked'
  BY UnrevokedKept DEF RInv
<1>. QED
  BY <1>2, <1>3, <1>4, <1>5 DEF RInv

(* A step that starts no attempt.                                           *)
LEMMA OutcomeStep ==
  ASSUME RInv, RunnerTypeOK', Growth, StartsNone, OutcomesInv', OffersStay,
         UNCHANGED granted,
         \A c \in Calls : Unmoved(c) \/ Arrives(c)
  PROVE  RInv'
<1>1. RecordsStay /\ GrantsStay
  BY GrowthStays DEF RInv, GrantsStay
<1>2. \A c \in Calls : Advances(c) /\ NoneGranted(c)
  BY UnmovedAdvances DEF Arrives, NoneGranted
<1>3. GrantsInv'
  BY <1>1, <1>2, GrantKept DEF GrantsInv
<1>4. RetryIsLinked'
  BY <1>1, RetriesKept
<1>. QED
  BY <1>1, <1>2, <1>3, <1>4, StepByParts

(* A step that records no outcome either.                                   *)
LEMMA CommonStep ==
  ASSUME RInv, RunnerTypeOK', Growth, StartsNone, OutcomesStay, OffersStay,
         UNCHANGED granted,
         \A c \in Calls : Unmoved(c) \/ Arrives(c)
  PROVE  RInv'
<1>1. RecordsStay /\ GrantsStay
  BY GrowthStays DEF RInv, GrantsStay
<1>2. \A c \in Calls : Advances(c)
  BY UnmovedAdvances DEF Arrives
<1>3. OutcomesInv'
  BY <1>1, <1>2, OutcomesKept
<1>. QED
  BY <1>3, OutcomeStep

(* The same, for a step that does not touch the store.                      *)
LEMMA CommonCallStep ==
  ASSUME RInv, RunnerTypeOK', UNCHANGED vars, OffersStay, UNCHANGED granted,
         \A c \in Calls : Unmoved(c) \/ Arrives(c)
  PROVE  RInv'
<1>1. Growth
  BY DEF Growth
<1>2. StartsNone /\ OutcomesStay
  BY DEF vars, StartsNone, OutcomesStay
<1>. QED
  BY <1>1, <1>2, CommonStep

(* And what stays then.                                                     *)
LEMMA QuietStays ==
  ASSUME RInv, UNCHANGED vars
  PROVE  RowsStay /\ RecordsStay /\ ExecutingStays
BY GrowthStays DEF RInv, Growth

LEMMA QuietOffers ==
  ASSUME RInv, UNCHANGED offered
  PROVE  offered' \in [Messages -> Requests \cup {NoRequest}] /\ OffersStay
BY DEF RInv, RunnerTypeOK, OffersStay

-----------------------------------------------------------------------------
(* One lemma per action.                                                    *)
LEMMA InitRunner == RunnerInit => RInv
<1>. SUFFICES ASSUME RunnerInit
              PROVE  RInv
  OBVIOUS
<1>1. /\ Init
      /\ call    = [c \in Calls |-> NewCall]
      /\ mutex   = [c \in Calls |-> "free"]
      /\ worker  = [c \in Calls |-> "none"]
      /\ offered = [m \in Messages |-> NoRequest]
      /\ granted = [a \in Attempts |-> NoCall]
  BY DEF RunnerInit
<1>2. HInv
  BY <1>1, InitHistory
<1>3. NewCall.at = "idle"
  BY DEF NewCall
<1>4. RunnerTypeOK
  BY <1>1, NewCallType DEF RunnerTypeOK, CallTypes
<1>5. CallsInv
  BY <1>1, <1>3 DEF CallsInv, CallInv, At, Working
<1>6. GrantsInv
  BY <1>1, RunnerAssumption DEF GrantsInv, GrantInv
<1>7. OutcomesInv
  <2>1. \A e \in EvidenceIds : evidence[e] = NoEvidence
    BY <1>1 DEF Init
  <2>. QED
    BY <2>1, RunnerAssumption DEF OutcomesInv, OutcomeInv
<1>8. ExecutingIsUnrevoked
  BY <1>1 DEF ExecutingIsUnrevoked, Init, NoOp
<1>9. RetryIsLinked
  BY <1>1 DEF RetryIsLinked, Init, NoAttempt
<1>10. AllSettled
  BY <1>1, <1>3 DEF AllSettled, Settled, At
<1>. QED
  BY <1>2, <1>4, <1>5, <1>6, <1>7, <1>8, <1>9, <1>10 DEF RInv

(* A call that has just been made.                                          *)
LEMMA AdmittedStep ==
  ASSUME RInv, NEW c \in Calls, At(c, "idle"), NEW req \in Requests,
         op[req.offer.op] # NoOp, req.rev <= op[req.offer.op].rev,
         call' = [call EXCEPT ![c].at = "admit", ![c].req = req],
         UNCHANGED vars, UNCHANGED <<mutex, worker, offered, granted>>
  PROVE  RInv'
<1>. DEFINE row == [call[c] EXCEPT !.at = "admit", !.req = req]
<1>0. /\ call' = [call EXCEPT ![c] = row]
      /\ row \in CallTypes
      /\ row.at = "admit" /\ row.req = req /\ row.closed = call[c].closed
  BY DEF RInv, RunnerTypeOK, CallTypes, Places
<1>. HIDE DEF row
<1>1. /\ call'[c].at = "admit"
      /\ call'[c].req = req
      /\ call'[c].closed = call[c].closed
      /\ \A d \in Calls \ {c} : call'[d] = call[d]
  BY <1>0 DEF RInv, RunnerTypeOK
<1>2. RunnerTypeOK'
  BY <1>0, TypedStep, QuietTypes DEF RInv
<1>3. CallInv(c)
  BY DEF RInv, CallsInv
<1>4. worker[c] = "none" /\ mutex[c] # "beat"
  BY <1>3 DEF CallInv, At
<1>5. OpOf(c)' = req.offer.op
  BY <1>1 DEF OpOf, OfferOf
<1>6. CallInv(c)'
  BY <1>1, <1>4, <1>5 DEF CallInv, At, Working, vars
<1>7. Arrives(c)
  BY <1>1, <1>6 DEF Arrives, Advances, At, Early, Settled
<1>8. \A d \in Calls \ {c} : Unmoved(d)
  BY <1>1 DEF Unmoved
<1>9. OffersStay
  BY DEF OffersStay
<1>. QED
  BY <1>2, <1>7, <1>8, <1>9, CommonCallStep

LEMMA SubmitStep ==
  ASSUME RInv, NEW c \in Calls, NEW off \in Offers, Submit(c, off)
  PROVE  RInv'
<1>. DEFINE req == [offer |-> off, rev |-> op[off.op].rev]
<1>1. /\ At(c, "idle")
      /\ op[off.op] # NoOp
      /\ call' = [call EXCEPT ![c].at = "admit", ![c].req = req]
      /\ UNCHANGED vars /\ UNCHANGED <<mutex, worker, offered, granted>>
  BY DEF Submit
<1>2. off.op \in Ops
  BY RunnerAssumption DEF OfferRows
<1>3. op[off.op].rev \in 1..MaxInt64
  BY <1>1, <1>2, OperationRow, PresentOperation DEF RInv, HInv
<1>4. req \in Requests /\ op[req.offer.op] # NoOp
  BY <1>1, <1>3 DEF Requests
<1>5. req.rev <= op[req.offer.op].rev
  BY <1>3, MaxInt64Assumption
<1>. HIDE DEF req
<1>. QED
  BY <1>1, <1>4, <1>5, AdmittedStep

LEMMA RedeliverStep ==
  ASSUME RInv, NEW c \in Calls, NEW d \in Calls, Redeliver(c, d)
  PROVE  RInv'
<1>1. /\ At(c, "idle") /\ ~At(d, "idle")
      /\ call' = [call EXCEPT ![c].at = "admit", ![c].req = call[d].req]
      /\ UNCHANGED vars /\ UNCHANGED <<mutex, worker, offered, granted>>
  BY DEF Redeliver
<1>2. /\ call[d].req \in Requests
      /\ op[call[d].req.offer.op] # NoOp
      /\ call[d].req.rev <= op[call[d].req.offer.op].rev
  BY <1>1, KnownCall DEF OpOf, OfferOf
<1>. QED
  BY <1>1, <1>2, AdmittedStep

(* Execute returns.                                                         *)
SettlesNext(c) == Settled(c)'

LEMMA ReturnArrives ==
  ASSUME RInv, NEW c \in Calls, call[c].at \in Working \cup {"admit", "offer"},
         NEW answer \in Answers, NEW failed \in BOOLEAN,
         Return(c, answer, failed),
         UNCHANGED <<mutex, worker, granted>>,
         offered' \in [Messages -> Requests \cup {NoRequest}],
         RowsStay, OffersStay, SettlesNext(c)
  PROVE  /\ RunnerTypeOK'
         /\ Arrives(c)
         /\ \A d \in Calls \ {c} : Unmoved(d)
<1>1. /\ call' \in [Calls -> CallTypes]
      /\ call'[c].at = "returned"
      /\ call'[c].req = call[c].req
      /\ call'[c].closed = call[c].closed
      /\ call'[c].beats = 0
      /\ \A d \in Calls \ {c} : call'[d] = call[d]
  BY Returning DEF RInv
<1>2. ~At(c, "idle") /\ call[c].at # "crashed"
  BY DEF At, Working
<1>3. RunnerTypeOK'
  BY <1>1 DEF RInv, RunnerTypeOK, CallTypes
<1>4. GrantsStay
  BY DEF GrantsStay
<1>5. mutex'[c] = "beat" => mutex[c] = "beat" /\ worker'[c] # "none"
  BY DEF RInv, CallsInv, CallInv
<1>6. 0 <= call[c].beats
  BY DEF RInv, RunnerTypeOK
<1>7. CallInv(c)'
  BY <1>1, <1>2, <1>3, <1>4, <1>5, <1>6, WorkingKept DEF Working
<1>8. Advances(c)
  BY <1>1, <1>2 DEF Advances, Early, At
<1>9. \A d \in Calls \ {c} : Unmoved(d)
  BY <1>1 DEF Unmoved
<1>. QED
  BY <1>3, <1>7, <1>8, <1>9 DEF Arrives, SettlesNext

(* It returns an error, or an answer about an attempt that it did not start. *)
LEMMA ReturnSettles ==
  ASSUME RInv, NEW c \in Calls, ~At(c, "idle"),
         NEW answer \in Answers, NEW failed \in BOOLEAN,
         Return(c, answer, failed),
         failed \/ At(c, "offer"), UNCHANGED granted
  PROVE  SettlesNext(c)
<1>1. call'[c].req = call[c].req /\ call'[c].failed = failed
  BY Returning DEF RInv
<1>2. ~failed => granted[AttemptOf(c)] # c
  BY KnownCall, OwnAttempt DEF At, Early
<1>. QED
  BY <1>1, <1>2 DEF SettlesNext, Settled, AttemptOf, OfferOf

LEMMA ReturnStep ==
  ASSUME RInv, NEW c \in Calls, call[c].at \in Working \cup {"admit", "offer"},
         NEW answer \in Answers, NEW failed \in BOOLEAN,
         Return(c, answer, failed),
         failed \/ At(c, "offer"),
         Growth, StartsNone, OutcomesStay, UNCHANGED <<mutex, worker, granted>>,
         offered' \in [Messages -> Requests \cup {NoRequest}], OffersStay
  PROVE  RInv'
<1>1. ~At(c, "idle")
  BY DEF At, Working
<1>2. SettlesNext(c)
  BY <1>1, ReturnSettles
<1>3. RowsStay
  BY GrowthStays DEF RInv
<1>. QED
  BY <1>2, <1>3, ReturnArrives, CommonStep

LEMMA QuietReturnStep ==
  ASSUME RInv, NEW c \in Calls, call[c].at \in Working \cup {"admit", "offer"},
         NEW answer \in Answers, NEW failed \in BOOLEAN,
         Return(c, answer, failed),
         failed \/ At(c, "offer"),
         UNCHANGED vars, UNCHANGED <<mutex, worker, offered, granted>>
  PROVE  RInv'
<1>1. Growth
  BY DEF Growth
<1>2. StartsNone /\ OutcomesStay
  BY DEF vars, StartsNone, OutcomesStay
<1>. QED
  BY <1>1, <1>2, QuietOffers, ReturnStep

LEMMA AdmitStep ==
  ASSUME RInv, NEW c \in Calls, NEW accepts \in BOOLEAN, Admit(c, accepts)
  PROVE  RInv'
<1>1. /\ At(c, "admit") /\ ~At(c, "idle")
      /\ UNCHANGED vars /\ UNCHANGED <<mutex, worker, offered, granted>>
  BY DEF Admit, At
<1>2. offered' \in [Messages -> Requests \cup {NoRequest}] /\ OffersStay
  BY <1>1 DEF RInv, RunnerTypeOK, OffersStay
<1>3. ASSUME NEW answer \in Answers, Return(c, answer, TRUE)
      PROVE  RInv'
  BY <1>1, <1>3, QuietReturnStep DEF At
<1>4. CASE call' = [call EXCEPT ![c].at = "offer",
                                ![c].permitted = accepts /\ LinksRetry(c)]
  <2>. DEFINE p == accepts /\ LinksRetry(c)
  <2>1. p \in BOOLEAN
    BY DEF LinksRetry
  <2>2. p => LinksRetry(c)
    OBVIOUS
  <2>3. call' = [call EXCEPT ![c].at = "offer", ![c].permitted = p]
    BY <1>4
  <2>. HIDE DEF p
  <2>. DEFINE row == [call[c] EXCEPT !.at = "offer", !.permitted = p]
  <2>0. /\ call' = [call EXCEPT ![c] = row]
        /\ row \in CallTypes
    <3>1. call[c] \in CallTypes
      BY DEF RInv, RunnerTypeOK, CallTypes
    <3>2. row \in CallTypes
      BY <2>1, <3>1 DEF CallTypes, Places
    <3>3. call' = [call EXCEPT ![c] = row]
      BY <2>3
    <3>. QED
      BY <3>2, <3>3
  <2>4. /\ call'[c].at = "offer"
        /\ call'[c].req = call[c].req
        /\ call'[c].permitted = p
        /\ call'[c].closed = call[c].closed
        /\ \A d \in Calls \ {c} : call'[d] = call[d]
    BY <2>3 DEF RInv, RunnerTypeOK
  <2>5. RunnerTypeOK'
    <3>. HIDE DEF row
    <3>. QED
      BY <1>1, <2>0, TypedStep, QuietTypes DEF RInv
  <2>6. CallInv(c)
    BY DEF RInv, CallsInv
  <2>7. worker[c] = "none" /\ mutex[c] # "beat"
    BY <1>1, <2>6 DEF CallInv, At
  <2>8. OpOf(c)' = OpOf(c) /\ LinksRetry(c)' = LinksRetry(c)
    BY <1>1, <2>4 DEF OpOf, OfferOf, LinksRetry, vars
  <2>9. CallInv(c)'
    BY <1>1, <2>2, <2>4, <2>6, <2>7, <2>8 DEF CallInv, At, Working, vars
  <2>10. Arrives(c)
    BY <1>1, <2>4, <2>9 DEF Arrives, Advances, At, Early, Settled
  <2>11. \A d \in Calls \ {c} : Unmoved(d)
    BY <1>1, <2>4 DEF Unmoved
  <2>. QED
    BY <1>1, <1>2, <2>5, <2>10, <2>11, CommonCallStep
<1>. QED
  BY <1>3, <1>4 DEF Admit, Answers

(* A call that works on its attempt goes on to the next place.              *)
LEMMA WorkingArrives ==
  ASSUME RInv, RunnerTypeOK', RowsStay, OffersStay, GrantsStay,
         NEW c \in Calls, call[c].at \in Working,
         call'[c].at \in Working \ {"gate"},
         call'[c].req = call[c].req,
         call[c].closed => call'[c].closed,
         call'[c].at = "report" => call'[c].closed,
         mutex'[c] = "beat" => /\ mutex[c] = "beat"
                               /\ worker'[c] # "none"
                               /\ call'[c].closed = call[c].closed
                               /\ call'[c].beats <= call[c].beats
  PROVE  Arrives(c)
<1>1. ~At(c, "idle") /\ ~At(c, "crashed") /\ call'[c].at \notin {"returned", "crashed"}
  BY DEF At, Working
<1>2. CallInv(c)'
  BY <1>1, WorkingKept
<1>3. Advances(c)
  BY <1>1 DEF Advances, Early, Working
<1>4. Settled(c)'
  BY <1>1 DEF Settled, At
<1>. QED
  BY <1>2, <1>3, <1>4 DEF Arrives

LEMMA WorkStep ==
  ASSUME RInv, NEW c \in Calls, call[c].at \in Working, NEW row \in CallTypes,
         call' = [call EXCEPT ![c] = row],
         row.at \in Working \ {"gate"},
         row.req = call[c].req,
         row.beats = call[c].beats,
         call[c].closed => row.closed,
         row.at = "report" => row.closed,
         mutex[c] = "beat" => row.closed = call[c].closed,
         UNCHANGED vars, UNCHANGED <<mutex, worker, offered, granted>>
  PROVE  RInv'
<1>1. /\ RunnerTypeOK'
      /\ call'[c] = row
      /\ \A d \in Calls \ {c} : call'[d] = call[d]
  BY TypedStep, QuietTypes DEF RInv
<1>2. RowsStay
  BY QuietStays
<1>3. OffersStay /\ GrantsStay
  BY DEF OffersStay, GrantsStay
<1>4. mutex'[c] = "beat" => worker'[c] # "none"
  BY DEF RInv, CallsInv, CallInv
<1>5. call'[c].beats <= call[c].beats
  BY <1>1 DEF RInv, RunnerTypeOK
<1>6. Arrives(c)
  BY <1>1, <1>2, <1>3, <1>4, <1>5, WorkingArrives
<1>7. \A d \in Calls \ {c} : Unmoved(d)
  BY <1>1 DEF Unmoved
<1>. QED
  BY <1>1, <1>3, <1>6, <1>7, CommonCallStep

(* A step that goes to a place and changes nothing else.                    *)
LEMMA GotoStep ==
  ASSUME RInv, NEW c \in Calls, call[c].at \in Working,
         NEW place \in Working \ {"gate", "report"}, Goto(c, place),
         UNCHANGED vars, UNCHANGED <<mutex, worker, offered, granted>>
  PROVE  RInv'
<1>. DEFINE row == [call[c] EXCEPT !.at = place]
<1>1. /\ call' = [call EXCEPT ![c] = row]
      /\ row \in CallTypes
      /\ row.at = place /\ row.req = call[c].req
      /\ row.beats = call[c].beats /\ row.closed = call[c].closed
  <2>1. call[c] \in CallTypes
    BY DEF RInv, RunnerTypeOK, CallTypes
  <2>2. place \in Places
    BY DEF Working, Places
  <2>. QED
    BY <2>1, <2>2 DEF Goto, CallTypes
<1>. HIDE DEF row
<1>. QED
  BY <1>1, WorkStep

LEMMA SelectStep ==
  ASSUME RInv, NEW c \in Calls, Select(c)
  PROVE  RInv'
<1>1. PICK claim \in BOOLEAN : call' = [call EXCEPT ![c].at = "close", ![c].claim = claim]
  BY DEF Select
<1>2. At(c, "select") /\ UNCHANGED vars /\ UNCHANGED <<mutex, worker, offered, granted>>
  BY DEF Select
<1>. DEFINE row == [call[c] EXCEPT !.at = "close", !.claim = claim]
<1>3. /\ call' = [call EXCEPT ![c] = row]
      /\ row \in CallTypes
      /\ row.at = "close" /\ row.req = call[c].req
      /\ row.beats = call[c].beats /\ row.closed = call[c].closed
  <2>1. call[c] \in CallTypes
    BY DEF RInv, RunnerTypeOK, CallTypes
  <2>. QED
    BY <1>1, <2>1 DEF CallTypes, Places
<1>. HIDE DEF row
<1>. QED
  BY <1>2, <1>3, WorkStep DEF At, Working

LEMMA CloseStep ==
  ASSUME RInv, NEW c \in Calls, NEW within \in BOOLEAN, Close(c, within)
  PROVE  RInv'
<1>. DEFINE next == IF ~call[c].ended /\ call[c].claim /\ within THEN "report" ELSE "lose"
            row == [call[c] EXCEPT !.closed = TRUE, !.claim = FALSE, !.at = next]
<1>1. /\ At(c, "close") /\ mutex[c] = "free"
      /\ call' = [call EXCEPT ![c].closed = TRUE, ![c].claim = FALSE, ![c].at = next]
      /\ UNCHANGED vars /\ UNCHANGED <<mutex, worker, offered, granted>>
  BY DEF Close
<1>2. next \in {"report", "lose"}
  OBVIOUS
<1>. HIDE DEF next
<1>3. /\ call' = [call EXCEPT ![c] = row]
      /\ row \in CallTypes
      /\ row.at = next /\ row.req = call[c].req
      /\ row.beats = call[c].beats /\ row.closed = TRUE
  <2>1. call[c] \in CallTypes
    BY DEF RInv, RunnerTypeOK, CallTypes
  <2>. QED
    BY <1>1, <1>2, <2>1 DEF CallTypes, Places
<1>. HIDE DEF row
<1>. QED
  BY <1>1, <1>2, <1>3, WorkStep DEF At, Working

LEMMA ReportFailsStep ==
  ASSUME RInv, NEW c \in Calls, ReportFails(c)
  PROVE  RInv'
<1>1. /\ At(c, "report") /\ Goto(c, "lose")
      /\ UNCHANGED vars /\ UNCHANGED <<mutex, worker, offered, granted>>
  BY DEF ReportFails
<1>. QED
  BY <1>1, GotoStep DEF At, Working

LEMMA LoseStep ==
  ASSUME RInv, NEW c \in Calls, Lose(c)
  PROVE  RInv'
<1>1. /\ At(c, "lose")
      /\ UNCHANGED vars /\ UNCHANGED <<mutex, worker, offered, granted>>
  BY DEF Lose
<1>2. call[c].at \in Working
  BY <1>1 DEF At, Working
<1>3. CASE Return(c, "unknown", TRUE)
  BY <1>1, <1>2, <1>3, QuietReturnStep DEF Answers
<1>4. CASE /\ op[OpOf(c)].active = AttemptOf(c)
           /\ call' = [call EXCEPT ![c].at = "invalidate", ![c].rev = op[OpOf(c)].rev]
  <2>. DEFINE row == [call[c] EXCEPT !.at = "invalidate", !.rev = op[OpOf(c)].rev]
  <2>1. op[OpOf(c)].rev \in 0..MaxInt64
    <3>1. OpOf(c) \in Ops /\ op[OpOf(c)] # NoOp
      BY <1>1, KnownCall DEF At
    <3>. QED
      BY <3>1, OperationRow, PresentOperation, MaxInt64Assumption DEF RInv, HInv
  <2>2. call[c] \in CallTypes
    BY DEF RInv, RunnerTypeOK, CallTypes
  <2>3. /\ call' = [call EXCEPT ![c] = row]
        /\ row \in CallTypes
        /\ row.at = "invalidate" /\ row.req = call[c].req
        /\ row.beats = call[c].beats /\ row.closed = call[c].closed
    BY <1>4, <2>1, <2>2 DEF CallTypes, Places
  <2>. HIDE DEF row
  <2>. QED
    BY <1>1, <1>2, <2>3, WorkStep DEF Working
<1>. QED
  BY <1>3, <1>4 DEF Lose

LEMMA InvalidateFailsStep ==
  ASSUME RInv, NEW c \in Calls, InvalidateFails(c)
  PROVE  RInv'
<1>1. /\ At(c, "invalidate") /\ Return(c, "unknown", TRUE)
      /\ UNCHANGED vars /\ UNCHANGED <<mutex, worker, offered, granted>>
  BY DEF InvalidateFails
<1>. QED
  BY <1>1, QuietReturnStep DEF Answers, At, Working

LEMMA OfferFailsStep ==
  ASSUME RInv, NEW c \in Calls, OfferFails(c)
  PROVE  RInv'
<1>1. /\ At(c, "offer") /\ Return(c, "error", TRUE)
      /\ UNCHANGED vars /\ UNCHANGED <<mutex, worker, offered, granted>>
  BY DEF OfferFails
<1>. QED
  BY <1>1, QuietReturnStep DEF Answers, At

LEMMA OfferKnownStep ==
  ASSUME RInv, NEW c \in Calls, OfferKnown(c)
  PROVE  RInv'
<1>1. /\ At(c, "offer") /\ Return(c, "duplicate", FALSE)
      /\ UNCHANGED vars /\ UNCHANGED <<mutex, worker, offered, granted>>
  BY DEF OfferKnown
<1>. QED
  BY <1>1, QuietReturnStep DEF Answers, At

(* Steps that move no call.                                                 *)
LEMMA CtxDoneStep ==
  ASSUME RInv, NEW c \in Calls, CtxDone(c)
  PROVE  RInv'
<1>1. /\ call' = [call EXCEPT ![c].ended = TRUE]
      /\ UNCHANGED vars /\ UNCHANGED <<mutex, worker, offered, granted>>
  BY DEF CtxDone
<1>. DEFINE row == [call[c] EXCEPT !.ended = TRUE]
<1>2. /\ call' = [call EXCEPT ![c] = row]
      /\ row \in CallTypes
      /\ row.at = call[c].at /\ row.req = call[c].req
      /\ row.permitted = call[c].permitted /\ row.closed = call[c].closed
      /\ row.answer = call[c].answer /\ row.failed = call[c].failed
      /\ row.beats = call[c].beats
  <2>1. call[c] \in CallTypes
    BY DEF RInv, RunnerTypeOK, CallTypes
  <2>. QED
    BY <1>1, <2>1 DEF CallTypes
<1>. HIDE DEF row
<1>3. /\ RunnerTypeOK'
      /\ call'[c] = row
      /\ \A d \in Calls \ {c} : call'[d] = call[d]
  BY <1>1, <1>2, TypedStep, QuietTypes DEF RInv
<1>4. \A d \in Calls : Unmoved(d)
  BY <1>1, <1>2, <1>3 DEF Unmoved
<1>. QED
  BY <1>1, <1>3, <1>4, QuietOffers, CommonCallStep

LEMMA BeatBeginsStep ==
  ASSUME RInv, NEW c \in Calls, BeatBegins(c)
  PROVE  RInv'
<1>1. /\ worker[c] # "none" /\ ~At(c, "crashed")
      /\ ~call[c].closed /\ call[c].beats < MaxHeartbeats
      /\ mutex' = [mutex EXCEPT ![c] = "beat"]
      /\ UNCHANGED vars /\ UNCHANGED <<call, worker, offered, granted>>
  BY DEF BeatBegins, MayBeat
<1>2. RunnerTypeOK'
  BY <1>1 DEF RInv, RunnerTypeOK
<1>3. CallInv(c) /\ Settled(c)
  BY DEF RInv, CallsInv, AllSettled
<1>4. CallInv(c)'
  BY <1>1, <1>3
     DEF CallInv, At, OwnsOffer, LinksRetry, OpOf, AttemptOf, OfferOf, vars
<1>5. Settled(c)'
  BY <1>1, <1>3 DEF Settled, At, OpOf, AttemptOf, OfferOf, vars
<1>6. Arrives(c)
  BY <1>1, <1>4, <1>5 DEF Arrives, Advances, At
<1>7. \A d \in Calls \ {c} : Unmoved(d)
  BY <1>1 DEF Unmoved, RInv, RunnerTypeOK
<1>. QED
  BY <1>1, <1>2, <1>6, <1>7, QuietOffers, CommonCallStep

LEMMA BeatFailsStep ==
  ASSUME RInv, NEW c \in Calls, BeatFails(c)
  PROVE  RInv'
<1>1. /\ mutex' = [mutex EXCEPT ![c] = "free"]
      /\ UNCHANGED vars /\ UNCHANGED <<call, worker, offered, granted>>
  BY DEF BeatFails
<1>2. RunnerTypeOK'
  BY <1>1 DEF RInv, RunnerTypeOK
<1>3. \A d \in Calls : Unmoved(d)
  BY <1>1 DEF Unmoved, RInv, RunnerTypeOK
<1>. QED
  BY <1>1, <1>2, <1>3, QuietOffers, CommonCallStep

LEMMA WorkerReturnsStep ==
  ASSUME RInv, NEW c \in Calls, NEW result \in {"claimed", "failed"}, WorkerReturns(c, result)
  PROVE  RInv'
<1>1. /\ worker[c] = "running"
      /\ worker' = [worker EXCEPT ![c] = result]
      /\ UNCHANGED vars /\ UNCHANGED <<call, mutex, offered, granted>>
  BY DEF WorkerReturns
<1>2. RunnerTypeOK'
  BY <1>1 DEF RInv, RunnerTypeOK
<1>3. \A d \in Calls : Unmoved(d)
  BY <1>1 DEF Unmoved, RInv, RunnerTypeOK
<1>. QED
  BY <1>1, <1>2, <1>3, QuietOffers, CommonCallStep

LEMMA CrashStep ==
  ASSUME RInv, NEW c \in Calls, Crash(c)
  PROVE  RInv'
<1>. DEFINE row == [NewCall EXCEPT !.at = "crashed", !.req = call[c].req]
<1>1. /\ Live(c)
      /\ call' = [call EXCEPT ![c] = row]
      /\ mutex' = [mutex EXCEPT ![c] = "free"]
      /\ UNCHANGED vars /\ UNCHANGED <<worker, offered, granted>>
  BY DEF Crash
<1>2. row \in CallTypes /\ row.at = "crashed" /\ row.req = call[c].req
  BY NewCallType DEF CallTypes, NewCall, Places, RInv, RunnerTypeOK
<1>. HIDE DEF row
<1>3. /\ RunnerTypeOK'
      /\ call'[c] = row
      /\ \A d \in Calls \ {c} : call'[d] = call[d]
  BY <1>1, <1>2, TypedStep DEF RInv, RunnerTypeOK
<1>4. mutex'[c] = "free" /\ \A d \in Calls \ {c} : mutex'[d] = mutex[d]
  BY <1>1 DEF RInv, RunnerTypeOK
<1>5. ~At(c, "idle")
  BY <1>1 DEF Live, At
<1>6. RowsStay /\ OffersStay /\ GrantsStay
  BY <1>1, QuietStays, QuietOffers DEF GrantsStay
<1>7. CallInv(c)'
  BY <1>1, <1>2, <1>3, <1>4, <1>5, <1>6, WorkingKept DEF Working
<1>8. Arrives(c)
  BY <1>2, <1>3, <1>7 DEF Arrives, Advances, Settled, Early, At
<1>9. \A d \in Calls \ {c} : Unmoved(d)
  BY <1>1, <1>3, <1>4 DEF Unmoved
<1>. QED
  BY <1>1, <1>3, <1>6, <1>8, <1>9, CommonCallStep

-----------------------------------------------------------------------------
(* Steps that store a record.                                               *)
OnlyRecord(e) ==
  /\ evidence[e] = NoEvidence
  /\ \A x \in EvidenceIds : x # e => evidence'[x] = evidence[x]

LEMMA RecordStore ==
  ASSUME RInv, NEW e \in EvidenceIds, NEW o \in Ops, NEW a \in Attempts \cup {NoID},
         NEW k \in EvidenceKinds, RegisterEvidence(e, o, a, k)
  PROVE  Growth /\ StartsNone /\ OnlyRecord(e)
<1>1. Growth
  BY DEF Growth
<1>2. /\ evidence[e] = NoEvidence
      /\ AddEvidence(e, o, a, k)
      /\ UNCHANGED attempt
  BY DEF RegisterEvidence, EvidenceAdmissible
<1>3. \A x \in EvidenceIds : x # e => evidence'[x] = evidence[x]
  BY <1>2 DEF AddEvidence, RInv, HInv, IInv, TypeOK
<1>. QED
  BY <1>1, <1>2, <1>3 DEF StartsNone, OnlyRecord

LEMMA RecordBeatStore ==
  ASSUME RInv, NEW c \in Calls, ~At(c, "idle"), RecordBeat(c), call[c].beats < MaxHeartbeats
  PROVE  /\ Growth /\ StartsNone /\ OutcomesStay
         /\ call[c].beats \in 0..MaxHeartbeats - 1
         /\ OnlyRecord(Beat(AttemptOf(c), call[c].beats))
<1>. DEFINE a == AttemptOf(c)
            i == call[c].beats
<1>1. OpOf(c) \in Ops /\ a \in Attempts
  BY KnownCall
<1>2. i \in 0..MaxHeartbeats - 1
  BY RunnerAssumption DEF RInv, RunnerTypeOK
<1>3. Beat(a, i) \in EvidenceIds
  BY <1>1, <1>2, RunnerAssumption
<1>4. RegisterEvidence(Beat(a, i), OpOf(c), a, WorkerReportKind)
  BY DEF RecordBeat
<1>5. Growth /\ StartsNone /\ OnlyRecord(Beat(a, i))
  BY <1>1, <1>3, <1>4, RecordStore DEF EvidenceKinds
<1>6. OutcomesStay
  <2>1. \A b \in Attempts : /\ Result(b) \in EvidenceIds /\ Lost(b) \in EvidenceIds
                            /\ Beat(a, i) # Result(b) /\ Beat(a, i) # Lost(b)
    BY <1>1, <1>2, RunnerAssumption, RecordsApart
  <2>. QED
    BY <1>5, <2>1 DEF OnlyRecord, OutcomesStay
<1>. QED
  BY <1>2, <1>5, <1>6

LEMMA GatePassesStep ==
  ASSUME RInv, NEW c \in Calls, GatePasses(c)
  PROVE  RInv'
<1>. DEFINE row == [call[c] EXCEPT !.at = "select", !.beats = call[c].beats + 1]
<1>1. /\ At(c, "gate") /\ MayBeat(c) /\ RecordBeat(c)
      /\ call' = [call EXCEPT ![c].at = "select", ![c].beats = call[c].beats + 1]
      /\ worker' = [worker EXCEPT ![c] = "running"]
      /\ UNCHANGED <<mutex, offered, granted>>
  BY DEF GatePasses
<1>2. /\ Growth /\ StartsNone /\ OutcomesStay
      /\ call[c].beats \in 0..MaxHeartbeats - 1
  BY <1>1, RecordBeatStore DEF At, MayBeat
<1>3. /\ call' = [call EXCEPT ![c] = row]
      /\ row \in CallTypes
      /\ row.at = "select" /\ row.req = call[c].req /\ row.closed = call[c].closed
  <2>1. call[c] \in CallTypes
    BY DEF RInv, RunnerTypeOK, CallTypes
  <2>2. call[c].beats + 1 \in 0..MaxHeartbeats
    BY <1>2, RunnerAssumption
  <2>. QED
    BY <1>1, <2>1, <2>2 DEF CallTypes, Places
<1>. HIDE DEF row
<1>4. /\ RunnerTypeOK'
      /\ call'[c] = row
      /\ \A d \in Calls \ {c} : call'[d] = call[d]
  BY <1>1, <1>3, TypedStep DEF RInv, RunnerTypeOK
<1>5. \A d \in Calls \ {c} : worker'[d] = worker[d]
  BY <1>1 DEF RInv, RunnerTypeOK
<1>6. mutex'[c] # "beat"
  BY <1>1 DEF RInv, CallsInv, CallInv, At
<1>7. RowsStay /\ OffersStay /\ GrantsStay
  BY <1>1, <1>2, GrowthStays, QuietOffers DEF GrantsStay, RInv
<1>8. Arrives(c)
  BY <1>1, <1>3, <1>4, <1>6, <1>7, WorkingArrives DEF At, Working
<1>9. \A d \in Calls \ {c} : Unmoved(d)
  BY <1>1, <1>4, <1>5 DEF Unmoved
<1>. QED
  BY <1>1, <1>2, <1>4, <1>7, <1>8, <1>9, CommonStep

LEMMA GateFailsStep ==
  ASSUME RInv, NEW c \in Calls, NEW lost \in BOOLEAN, GateFails(c, lost)
  PROVE  RInv'
<1>1. /\ At(c, "gate") /\ Goto(c, "lose")
      /\ UNCHANGED <<mutex, worker, offered, granted>>
  BY DEF GateFails
<1>2. CASE ~lost
  <2>1. UNCHANGED vars
    BY <1>2 DEF GateFails
  <2>. QED
    BY <1>1, <2>1, GotoStep DEF At, Working
<1>3. CASE lost
  <2>. DEFINE row == [call[c] EXCEPT !.at = "lose"]
  <2>0. MayBeat(c) /\ RecordBeat(c)
    BY <1>3 DEF GateFails
  <2>1. Growth /\ StartsNone /\ OutcomesStay
    BY <1>1, <2>0, RecordBeatStore DEF At, MayBeat
  <2>2. /\ call' = [call EXCEPT ![c] = row]
        /\ row \in CallTypes
        /\ row.at = "lose" /\ row.req = call[c].req /\ row.closed = call[c].closed
    <3>1. call[c] \in CallTypes
      BY DEF RInv, RunnerTypeOK, CallTypes
    <3>. QED
      BY <1>1, <3>1 DEF Goto, CallTypes, Places
  <2>. HIDE DEF row
  <2>3. /\ RunnerTypeOK'
        /\ call'[c] = row
        /\ \A d \in Calls \ {c} : call'[d] = call[d]
    BY <1>1, <2>2, TypedStep, QuietTypes DEF RInv
  <2>4. mutex'[c] # "beat"
    BY <1>1 DEF RInv, CallsInv, CallInv, At
  <2>5. RowsStay /\ OffersStay /\ GrantsStay
    BY <1>1, <2>1, GrowthStays, QuietOffers DEF GrantsStay, RInv
  <2>6. Arrives(c)
    BY <1>1, <2>2, <2>3, <2>4, <2>5, WorkingArrives DEF At, Working
  <2>7. \A d \in Calls \ {c} : Unmoved(d)
    BY <1>1, <2>3 DEF Unmoved
  <2>. QED
    BY <1>1, <2>1, <2>3, <2>5, <2>6, <2>7, CommonStep
<1>. QED
  BY <1>1, <1>2, <1>3

LEMMA BeatCommitsStep ==
  ASSUME RInv, NEW c \in Calls, NEW lost \in BOOLEAN, BeatCommits(c, lost)
  PROVE  RInv'
<1>. DEFINE row == [call[c] EXCEPT !.beats = call[c].beats + 1]
<1>1. /\ mutex[c] = "beat" /\ RecordBeat(c)
      /\ mutex' = [mutex EXCEPT ![c] = "free"]
      /\ UNCHANGED <<worker, offered, granted>>
      /\ call' = call \/ call' = [call EXCEPT ![c].beats = call[c].beats + 1]
  BY DEF BeatCommits
<1>2. worker[c] # "none" /\ call[c].beats < MaxHeartbeats /\ ~At(c, "idle")
  BY <1>1 DEF RInv, CallsInv, CallInv, At
<1>3. /\ Growth /\ StartsNone /\ OutcomesStay
      /\ call[c].beats \in 0..MaxHeartbeats - 1
  BY <1>1, <1>2, RecordBeatStore
<1>4. RunnerTypeOK' /\ \A d \in Calls : /\ call'[d].at = call[d].at
                                        /\ call'[d].req = call[d].req
                                        /\ call'[d].permitted = call[d].permitted
                                        /\ call'[d].closed = call[d].closed
                                        /\ call'[d].answer = call[d].answer
                                        /\ call'[d].failed = call[d].failed
                                        /\ d # c => call'[d].beats = call[d].beats
  <2>1. CASE call' = call
    BY <1>1, <2>1 DEF RInv, RunnerTypeOK
  <2>2. CASE call' = [call EXCEPT ![c].beats = call[c].beats + 1]
    <3>1. call[c] \in CallTypes
      BY DEF RInv, RunnerTypeOK, CallTypes
    <3>2. call[c].beats + 1 \in 0..MaxHeartbeats
      BY <1>3, RunnerAssumption
    <3>3. /\ call' = [call EXCEPT ![c] = row]
          /\ row \in CallTypes
          /\ row.at = call[c].at /\ row.req = call[c].req
          /\ row.permitted = call[c].permitted /\ row.closed = call[c].closed
          /\ row.answer = call[c].answer /\ row.failed = call[c].failed
      BY <2>2, <3>1, <3>2 DEF CallTypes
    <3>. HIDE DEF row
    <3>4. /\ RunnerTypeOK'
          /\ call'[c] = row
          /\ \A d \in Calls \ {c} : call'[d] = call[d]
      BY <1>1, <3>3, TypedStep DEF RInv, RunnerTypeOK
    <3>. QED
      BY <3>3, <3>4
  <2>. QED
    BY <1>1, <2>1, <2>2
<1>5. mutex'[c] = "free" /\ \A d \in Calls \ {c} : mutex'[d] = mutex[d]
  BY <1>1 DEF RInv, RunnerTypeOK
<1>6. \A d \in Calls : Unmoved(d)
  BY <1>1, <1>4, <1>5 DEF Unmoved
<1>. QED
  BY <1>1, <1>3, <1>4, <1>6, QuietOffers, CommonStep

-----------------------------------------------------------------------------
(* The transaction of the offer.                                            *)
LEMMA NewOfferStays ==
  ASSUME RInv, NEW c \in Calls, NewOffer(c)
  PROVE  /\ At(c, "offer")
         /\ offered' \in [Messages -> Requests \cup {NoRequest}]
         /\ OffersStay
         /\ offered'[OfferOf(c).msg] = call[c].req
<1>1. /\ At(c, "offer")
      /\ offered[OfferOf(c).msg] = NoRequest
      /\ offered' = [offered EXCEPT ![OfferOf(c).msg] = call[c].req]
  BY DEF NewOffer
<1>2. call[c].req \in Requests /\ OfferOf(c).msg \in Messages
  BY <1>1, KnownCall DEF At
<1>. QED
  BY <1>1, <1>2 DEF RInv, RunnerTypeOK, OffersStay

LEMMA OfferRefusedStep ==
  ASSUME RInv, NEW c \in Calls, NEW lost \in BOOLEAN, OfferRefused(c, lost)
  PROVE  RInv'
<1>. DEFINE e == Rejected(OfferOf(c).msg)
<1>1. /\ NewOffer(c)
      /\ RegisterEvidence(e, OpOf(c), NoID, LossKind)
      /\ UNCHANGED <<mutex, worker, granted>>
  BY DEF OfferRefused
<1>2. /\ At(c, "offer")
      /\ offered' \in [Messages -> Requests \cup {NoRequest}]
      /\ OffersStay
  BY <1>1, NewOfferStays
<1>3. OpOf(c) \in Ops /\ OfferOf(c).msg \in Messages
  BY <1>2, KnownCall DEF At
<1>4. e \in EvidenceIds /\ \A a \in Attempts : e # Result(a) /\ e # Lost(a)
  BY <1>3, RunnerAssumption, RecordsApart
<1>. HIDE DEF e
<1>5. Growth /\ StartsNone /\ OnlyRecord(e)
  BY <1>1, <1>3, <1>4, RecordStore DEF EvidenceKinds
<1>6. OutcomesStay
  BY <1>4, <1>5, RunnerAssumption DEF OnlyRecord, OutcomesStay
<1>7. ASSUME NEW answer \in Answers, NEW failed \in BOOLEAN, Return(c, answer, failed)
      PROVE  RInv'
  BY <1>1, <1>2, <1>5, <1>6, <1>7, ReturnStep DEF At
<1>8. CASE lost
  <2>1. Return(c, "error", TRUE)
    BY <1>8 DEF OfferRefused
  <2>. QED
    BY <1>7, <2>1 DEF Answers
<1>9. CASE ~lost
  <2>1. Return(c, "rejected", FALSE)
    BY <1>9 DEF OfferRefused
  <2>. QED
    BY <1>7, <2>1 DEF Answers
<1>. QED
  BY <1>8, <1>9

(* What the store does when an offer is granted.                            *)
NewAttempt(c) ==
  /\ attempt[AttemptOf(c)] = NoAttempt
  /\ attempt'[AttemptOf(c)].op = OpOf(c)
  /\ attempt'[AttemptOf(c)].retryOf = OfferOf(c).retry
  /\ attempt'[AttemptOf(c)].gen = op[OpOf(c)].gen + 1
  /\ \A b \in Attempts \ {AttemptOf(c)} : attempt'[b] = attempt[b]

LEMMA GrantedStore ==
  ASSUME RInv, NEW c \in Calls, NEW lost \in BOOLEAN, OfferGranted(c, lost)
  PROVE  /\ Growth
         /\ OutcomesStay
         /\ NewAttempt(c)
         /\ LinksRetry(c)
         /\ op[OpOf(c)].state = "ready"
         /\ op[OpOf(c)].gen \in Nat
<1>. DEFINE off == OfferOf(c)
            e == Accepted(AttemptOf(c))
<1>1. /\ NewOffer(c)
      /\ call[c].permitted
      /\ Grant(OpOf(c), call[c].req.rev, AttemptOf(c), off.lease, Worker, off.retry)
      /\ evidence[e] = NoEvidence
      /\ AddEvidence(e, OpOf(c), AttemptOf(c), LossKind)
      /\ UNCHANGED <<task, verification, revocation>>
  BY DEF OfferGranted, OpOf, AttemptOf
<1>2. At(c, "offer")
  BY <1>1 DEF NewOffer
<1>3. /\ call[c].req \in Requests
      /\ OpOf(c) \in Ops
      /\ AttemptOf(c) \in Attempts
      /\ call[c].req.rev \in Revisions
      /\ off.lease \in Leases
      /\ off.retry \in Attempts \cup {NoID}
  BY <1>2, KnownCall, OfferTypes DEF At, Revisions
<1>4. /\ e \in EvidenceIds
      /\ \A a \in Attempts : /\ Result(a) \in EvidenceIds /\ Lost(a) \in EvidenceIds
                             /\ e # Result(a) /\ e # Lost(a)
  BY <1>3, RunnerAssumption, RecordsApart
<1>. HIDE DEF e, off
<1>5. GrantWithRecord(OpOf(c), call[c].req.rev, AttemptOf(c), off.lease, Worker, off.retry)
  BY <1>1, <1>4 DEF GrantWithRecord, EvidenceKinds
<1>6. Growth
  BY <1>3, <1>5, RunnerAssumption DEF Growth
<1>7. \A x \in EvidenceIds : x # e => evidence'[x] = evidence[x]
  BY <1>1 DEF AddEvidence, RInv, HInv, IInv, TypeOK
<1>8. OutcomesStay
  BY <1>4, <1>7 DEF OutcomesStay
<1>9. /\ op[OpOf(c)].state = "ready"
      /\ op[OpOf(c)].rev = call[c].req.rev
      /\ Activates(OpOf(c), AttemptOf(c))
      /\ attempt'[AttemptOf(c)] =
           [op |-> OpOf(c), lease |-> off.lease, gen |-> op[OpOf(c)].gen + 1,
            owner |-> Worker, retryOf |-> off.retry, state |-> "running"]
  BY <1>1, <1>3, RunnerAssumption, GrantSteps DEF RInv, HInv
<1>10. NewAttempt(c)
  BY <1>9 DEF NewAttempt, Activates, off
<1>11. LinksRetry(c)
  BY <1>1, <1>2, <1>9 DEF RInv, CallsInv, CallInv
<1>12. op[OpOf(c)].gen \in Nat
  BY <1>3, OperationRow, MaxInt64Assumption DEF RInv, HInv
<1>. QED
  BY <1>6, <1>8, <1>9, <1>10, <1>11, <1>12

(* The retry check was made before the transaction, on the same revision.   *)
LEMMA GrantedRetry ==
  ASSUME RInv, RecordsStay, NEW c \in Calls, ~At(c, "idle"), NewAttempt(c), LinksRetry(c),
         op[OpOf(c)].state = "ready", op[OpOf(c)].gen \in Nat
  PROVE  RetryIsLinked'
<1>. DEFINE x == AttemptOf(c)
            p == OfferOf(c).retry
<1>1. x \in Attempts /\ OpOf(c) \in Ops /\ p \in Attempts \cup {NoID}
  BY KnownCall, OfferTypes
<1>2. ASSUME op[OpOf(c)].gen > 0
      PROVE  /\ p # NoID
             /\ attempt'[p].op = OpOf(c)
             /\ attempt'[p].gen = op[OpOf(c)].gen
  <2>1. /\ p # NoID
        /\ attempt[p].op = OpOf(c)
        /\ attempt[p].gen = op[OpOf(c)].gen
    BY <1>2 DEF LinksRetry
  <2>2. p # x
    BY <1>1, <2>1, IdentifierAssumption DEF NewAttempt, NoAttempt
  <2>3. attempt'[p] = attempt[p]
    BY <1>1, <2>1, <2>2 DEF NewAttempt
  <2>. QED
    BY <2>1, <2>3
<1>3. ASSUME NEW a \in Attempts, attempt'[a].gen > 1
      PROVE  LET prior == attempt'[attempt'[a].retryOf] IN
             /\ attempt'[a].retryOf # NoID
             /\ prior.op = attempt'[a].op
             /\ prior.gen = attempt'[a].gen - 1
  <2>1. CASE a = x
    <3>1. /\ attempt'[a].retryOf = p
          /\ attempt'[a].op = OpOf(c)
          /\ attempt'[a].gen = op[OpOf(c)].gen + 1
      BY <2>1 DEF NewAttempt
    <3>2. op[OpOf(c)].gen > 0 /\ attempt'[a].gen - 1 = op[OpOf(c)].gen
      BY <1>3, <3>1
    <3>. HIDE DEF p
    <3>. QED
      BY <1>2, <3>1, <3>2
  <2>2. CASE a # x
    <3>1. attempt'[a] = attempt[a]
      BY <2>2 DEF NewAttempt
    <3>2. attempt[a] # NoAttempt
      BY <1>3, <3>1 DEF NoAttempt
    <3>. QED
      BY <1>3, <3>2, LinkedRetryKept
  <2>. QED
    BY <2>1, <2>2
<1>. QED
  BY <1>3 DEF RetryIsLinked

LEMMA OfferGrantedStep ==
  ASSUME RInv, NEW c \in Calls, NEW lost \in BOOLEAN, OfferGranted(c, lost)
  PROVE  RInv'
<1>. DEFINE a == AttemptOf(c)
<1>1. NewOffer(c) /\ UNCHANGED <<mutex, worker>>
  BY DEF OfferGranted
<1>2. /\ At(c, "offer") /\ ~At(c, "idle") /\ call[c].at \in Working \cup {"admit", "offer"}
      /\ offered' \in [Messages -> Requests \cup {NoRequest}]
      /\ OffersStay
      /\ offered'[OfferOf(c).msg] = call[c].req
  BY <1>1, NewOfferStays DEF At
<1>3. /\ Growth /\ OutcomesStay /\ NewAttempt(c) /\ LinksRetry(c)
      /\ op[OpOf(c)].state = "ready" /\ op[OpOf(c)].gen \in Nat
  BY GrantedStore
<1>4. RowsStay /\ RecordsStay
  BY <1>3, GrowthStays DEF RInv
<1>5. RetryIsLinked'
  BY <1>2, <1>3, <1>4, GrantedRetry
<1>6. a \in Attempts /\ granted[a] \notin Calls
  BY <1>2, <1>3, KnownCall, OwnAttempt DEF NewAttempt
<1>7. CASE lost
  <2>1. Return(c, "error", TRUE) /\ UNCHANGED granted
    BY <1>7 DEF OfferGranted
  <2>2. SettlesNext(c)
    BY <1>2, <2>1, ReturnSettles DEF Answers
  <2>3. /\ RunnerTypeOK'
        /\ Arrives(c)
        /\ \A d \in Calls \ {c} : Unmoved(d)
    BY <1>1, <1>2, <1>4, <2>1, <2>2, ReturnArrives DEF Answers
  <2>4. GrantsStay /\ \A d \in Calls : NoneGranted(d)
    BY <2>1 DEF GrantsStay, NoneGranted
  <2>5. \A d \in Calls : Advances(d)
    BY <2>3, UnmovedAdvances DEF Arrives
  <2>6. GrantsInv'
    BY <1>4, <2>1, <2>5, GrantKept DEF GrantsInv
  <2>7. OutcomesInv'
    BY <1>3, <1>4, <2>4, <2>5, OutcomesKept
  <2>. QED
    BY <1>2, <1>3, <1>5, <2>3, <2>4, <2>6, <2>7, StepByParts
<1>8. CASE ~lost
  <2>. DEFINE row == [call[c] EXCEPT !.at = "gate", !.permitted = FALSE]
  <2>1. /\ call' = [call EXCEPT ![c].at = "gate", ![c].permitted = FALSE]
        /\ granted' = [granted EXCEPT ![a] = c]
    BY <1>8 DEF OfferGranted, AttemptOf
  <2>2. /\ call' = [call EXCEPT ![c] = row]
        /\ row \in CallTypes
        /\ row.at = "gate" /\ row.req = call[c].req /\ row.closed = call[c].closed
    <3>1. call[c] \in CallTypes
      BY DEF RInv, RunnerTypeOK, CallTypes
    <3>. QED
      BY <2>1, <3>1 DEF CallTypes, Places
  <2>. HIDE DEF row, a
  <2>3. /\ granted' \in [Attempts -> Calls \cup {NoCall}]
        /\ granted'[a] = c
        /\ \A b \in Attempts \ {a} : granted'[b] = granted[b]
    BY <1>6, <2>1 DEF RInv, RunnerTypeOK
  <2>4. /\ RunnerTypeOK'
        /\ call'[c] = row
        /\ \A d \in Calls \ {c} : call'[d] = call[d]
    BY <1>1, <1>2, <2>2, <2>3, TypedStep DEF RInv, RunnerTypeOK
  <2>5. GrantsStay
    BY <1>6, <2>3 DEF GrantsStay
  <2>6. \A d \in Calls \ {c} : Unmoved(d) /\ NoneGranted(d)
    BY <1>1, <2>3, <2>4 DEF Unmoved, NoneGranted
  <2>7. OwnsOffer(c)'
    BY <1>2, <2>2, <2>3, <2>4 DEF OwnsOffer, AttemptOf, OfferOf, a
  <2>8. worker'[c] = "none" /\ mutex'[c] # "beat"
    BY <1>1, <1>2 DEF RInv, CallsInv, CallInv, At
  <2>9. CallInv(c)'
    <3>1. /\ call'[c].req \in Requests
          /\ op'[OpOf(c)'] # NoOp
          /\ call'[c].req.rev <= op'[OpOf(c)'].rev
      BY <1>2, <1>4, <2>2, <2>4, KnownKept
    <3>. QED
      BY <2>2, <2>4, <2>7, <2>8, <3>1 DEF CallInv, At
  <2>10. Advances(c)
    BY <1>2, <2>2, <2>4 DEF Advances, Early, At
  <2>11. Arrives(c)
    BY <2>2, <2>4, <2>9, <2>10 DEF Arrives, Settled, At
  <2>12. \A d \in Calls : Advances(d)
    BY <2>6, <2>10, UnmovedAdvances
  <2>13. OutcomesInv'
    BY <1>3, <1>4, <2>5, <2>12, OutcomesKept
  <2>14. AttemptOf(c)' = a /\ OpOf(c)' = OpOf(c) /\ attempt'[a].op = OpOf(c)
    BY <1>3, <2>2, <2>4 DEF NewAttempt, AttemptOf, OpOf, OfferOf, a
  <2>15. GrantsInv'
    <3>. SUFFICES ASSUME NEW b \in Attempts
                  PROVE  GrantInv(b)'
      BY DEF GrantsInv
    <3>1. CASE b = a
      <4>1. /\ AttemptOf(granted[b])' = b
            /\ OpOf(granted[b])' = attempt'[b].op
            /\ call'[granted'[b]].at \notin Early
        BY <2>2, <2>3, <2>4, <2>14, <3>1 DEF Early, AttemptOf, OpOf, OfferOf
      <4>. QED
        BY <4>1 DEF GrantInv
    <3>2. CASE b # a
      BY <1>4, <2>3, <2>12, <3>2, GrantKept
    <3>. QED
      BY <3>1, <3>2
  <2>. QED
    BY <1>2, <1>3, <1>5, <2>4, <2>5, <2>6, <2>11, <2>13, <2>15, StepByParts
<1>. QED
  BY <1>7, <1>8

-----------------------------------------------------------------------------
(* The transactions of the result and of the loss.                          *)

(* What is left of the records when one outcome of a call is stored.        *)
LEMMA OutcomeRecorded ==
  ASSUME RInv, RecordsStay, UNCHANGED granted, NEW a \in Attempts, NEW e \in EvidenceIds,
         OnlyRecord(e),
         \A b \in Attempts : /\ e = Result(b) => b = a
                             /\ e = Lost(b) => b = a,
         e = Result(a) => granted[a] \in Calls /\ call[granted[a]].closed,
         e = Lost(a) => revocation'[a] # NoRevocation,
         \A c \in Calls : Advances(c)
  PROVE  OutcomesInv'
<1>. SUFFICES ASSUME NEW b \in Attempts
              PROVE  OutcomeInv(b)'
  BY DEF OutcomesInv
<1>1. OutcomeInv(b)
  BY DEF RInv, OutcomesInv
<1>2. Result(b) \in EvidenceIds /\ Lost(b) \in EvidenceIds
  BY RunnerAssumption
<1>3. ASSUME evidence'[Result(b)] # NoEvidence
      PROVE  /\ granted'[b] \in Calls
             /\ call'[granted'[b]].closed \/ At(granted[b], "crashed")'
  <2>1. granted[b] \in Calls /\ (call[granted[b]].closed \/ At(granted[b], "crashed"))
    <3>1. CASE e = Result(b)
      BY <3>1
    <3>2. CASE e # Result(b)
      BY <1>1, <1>2, <1>3, <3>2 DEF OutcomeInv, OnlyRecord
    <3>. QED
      BY <3>1, <3>2
  <2>2. Advances(granted[b])
    BY <2>1
  <2>. QED
    BY <2>1, <2>2 DEF Advances, At
<1>4. ASSUME evidence'[Lost(b)] # NoEvidence
      PROVE  revocation'[b] # NoRevocation
  <2>1. CASE e = Lost(b)
    BY <2>1
  <2>2. CASE e # Lost(b)
    BY <1>1, <1>2, <1>4, <2>2 DEF OutcomeInv, OnlyRecord, RecordsStay
  <2>. QED
    BY <2>1, <2>2
<1>. QED
  BY <1>3, <1>4 DEF OutcomeInv, At

(* An attempt that is left executing still has its authority.               *)
LEMMA ExecutingHasAuthority ==
  ASSUME RInv, NEW o \in Ops, op[o].state = "executing"
  PROVE  HasAuthority(o, op[o].active)
<1>1. op[o].state \in InFlightStates
  BY DEF InFlightStates
<1>2. attempt[op[o].active].gen = op[o].gen
  BY <1>1, ActiveAttemptOwn DEF RInv, HInv
<1>3. attempt[op[o].active].state = "running" /\ revocation[op[o].active] = NoRevocation
  BY DEF RInv, HInv, ExecutingIsRunning, ExecutingIsUnrevoked
<1>. QED
  BY <1>1, <1>2, <1>3 DEF HasAuthority, Authoritative

LEMMA ReportStore ==
  ASSUME RInv, NEW e \in EvidenceIds, NEW a \in Attempts, NEW inTime \in BOOLEAN,
         RecordWorkerReport(e, a, inTime)
  PROVE  /\ Growth /\ StartsNone /\ OnlyRecord(e) /\ UNCHANGED revocation
         /\ ~(op'[attempt[a].op].active = a /\ op'[attempt[a].op].state = "executing")
<1>. DEFINE o == attempt[a].op
<1>1. /\ attempt[a] # NoAttempt
      /\ evidence[e] = NoEvidence
      /\ AddEvidence(e, o, a, WorkerReportKind)
      /\ UNCHANGED <<task, verification, revocation>>
  BY DEF RecordWorkerReport, EvidenceAdmissible
<1>2. o \in Ops
  BY <1>1, AttemptRow DEF RInv, HInv
<1>3. \A x \in EvidenceIds : x # e => evidence'[x] = evidence[x]
  BY <1>1 DEF AddEvidence, RInv, HInv, IInv, TypeOK
<1>4. Growth
  BY DEF Growth
<1>5. StartsNone /\ ~(op'[o].active = a /\ op'[o].state = "executing")
  <2>1. CASE MoveOperation(o, op[o].rev, "verifying", "reported")
    <3>1. AttemptsKept /\ op'[o].state = "verifying"
      BY <1>1, <1>2, <2>1, MoveSteps DEF RInv, HInv, AttemptStates
    <3>. QED
      BY <3>1 DEF AttemptsKept, StartsNone
  <2>2. CASE /\ ~ClaimCounts(o, a)
             /\ UNCHANGED <<op, attempt, reservation>>
    BY <1>2, <2>2, ExecutingHasAuthority DEF StartsNone, ClaimCounts
  <2>. QED
    BY <2>1, <2>2 DEF RecordWorkerReport
<1>. QED
  BY <1>1, <1>3, <1>4, <1>5 DEF OnlyRecord

LEMMA ReportStep ==
  ASSUME RInv, NEW c \in Calls, NEW inTime \in BOOLEAN, NEW lost \in BOOLEAN,
         Report(c, inTime, lost)
  PROVE  RInv'
<1>. DEFINE a == AttemptOf(c)
            e == Result(a)
<1>1. /\ At(c, "report") /\ ~At(c, "idle") /\ call[c].at \in Working
      /\ RecordWorkerReport(e, a, inTime)
      /\ UNCHANGED <<mutex, worker, offered, granted>>
  BY DEF Report, At, Working
<1>2. /\ granted[a] = c
      /\ call[c].closed
  BY <1>1 DEF RInv, CallsInv, CallInv, OwnsOffer
<1>3. a \in Attempts /\ attempt[a].op = OpOf(c)
  BY <1>1, <1>2, KnownCall, OwnAttempt
<1>4. e \in EvidenceIds /\ \A b \in Attempts : (e = Result(b) => b = a) /\ e # Lost(b)
  BY <1>3, RunnerAssumption, RecordsApart
<1>. HIDE DEF e
<1>5. /\ Growth /\ StartsNone /\ OnlyRecord(e) /\ UNCHANGED revocation
      /\ ~(op'[OpOf(c)].active = a /\ op'[OpOf(c)].state = "executing")
  BY <1>1, <1>3, <1>4, ReportStore
<1>6. RowsStay /\ RecordsStay /\ OffersStay /\ GrantsStay
  BY <1>1, <1>5, GrowthStays, QuietOffers DEF GrantsStay, RInv
<1>7. RunnerTypeOK' /\ Arrives(c) /\ \A d \in Calls \ {c} : Unmoved(d)
  <2>1. CASE lost
    <3>. DEFINE row == [call[c] EXCEPT !.at = "lose"]
    <3>1. /\ call' = [call EXCEPT ![c] = row]
          /\ row \in CallTypes
          /\ row.at = "lose" /\ row.req = call[c].req /\ row.closed = call[c].closed
          /\ row.beats = call[c].beats
      <4>1. call[c] \in CallTypes
        BY DEF RInv, RunnerTypeOK, CallTypes
      <4>2. Goto(c, "lose")
        BY <2>1 DEF Report
      <4>. QED
        BY <4>1, <4>2 DEF Goto, CallTypes, Places
    <3>. HIDE DEF row
    <3>2. /\ RunnerTypeOK'
          /\ call'[c] = row
          /\ \A d \in Calls \ {c} : call'[d] = call[d]
      BY <1>1, <3>1, TypedStep, QuietTypes DEF RInv
    <3>3. mutex'[c] # "beat"
      BY <1>1, <1>2 DEF RInv, CallsInv, CallInv
    <3>4. Arrives(c)
      BY <1>1, <1>6, <3>1, <3>2, <3>3, WorkingArrives DEF Working
    <3>. QED
      BY <1>1, <3>2, <3>4 DEF Unmoved
  <2>2. CASE ~lost
    <3>1. Return(c, "reported", FALSE)
      BY <2>2 DEF Report
    <3>2. call'[c].req = call[c].req /\ call'[c].answer = "reported"
      BY <3>1, Returning DEF RInv, Answers
    <3>3. SettlesNext(c)
      BY <1>5, <3>2 DEF SettlesNext, Settled, AttemptOf, OpOf, OfferOf, a
    <3>. QED
      BY <1>1, <1>6, <3>1, <3>3, QuietOffers, ReturnArrives DEF Answers
  <2>. QED
    BY <2>1, <2>2
<1>8. \A d \in Calls : Advances(d)
  BY <1>7, UnmovedAdvances DEF Arrives
<1>9. OutcomesInv'
  BY <1>1, <1>2, <1>3, <1>4, <1>5, <1>6, <1>8, OutcomeRecorded
<1>. QED
  BY <1>1, <1>5, <1>6, <1>7, <1>9, OutcomeStep

LEMMA InvalidateStore ==
  ASSUME RInv, NEW o \in Ops, NEW rev, NEW a \in Attempts, NEW e \in EvidenceIds,
         InvalidateAttempt(o, rev, a, e, LossKind)
  PROVE  /\ Growth /\ StartsNone /\ OnlyRecord(e)
         /\ revocation'[a] # NoRevocation
         /\ op'[o].state = "unknown_outcome"
<1>1. /\ op[o].rev = rev
      /\ evidence[e] = NoEvidence
      /\ AddEvidence(e, o, a, LossKind)
      /\ revocation' = [revocation EXCEPT ![a] = [op |-> o, evidence |-> e]]
      /\ op[o] # NoOp
  BY DEF InvalidateAttempt, EvidenceAdmissible
<1>2. rev \in Revisions
  BY <1>1, OperationRow, PresentOperation DEF RInv, HInv, Revisions
<1>3. Growth
  BY <1>2 DEF Growth, EvidenceKinds
<1>4. AttemptsKept /\ op'[o].state = "unknown_outcome"
  BY InvalidateSteps DEF RInv, HInv, EvidenceKinds
<1>5. revocation'[a] # NoRevocation
  BY <1>1, IdentifierAssumption DEF NoRevocation, RInv, HInv, IInv, TypeOK
<1>6. \A x \in EvidenceIds : x # e => evidence'[x] = evidence[x]
  BY <1>1 DEF AddEvidence, RInv, HInv, IInv, TypeOK
<1>. QED
  BY <1>1, <1>3, <1>4, <1>5, <1>6 DEF AttemptsKept, StartsNone, OnlyRecord

LEMMA InvalidateStep ==
  ASSUME RInv, NEW c \in Calls, NEW lost \in BOOLEAN, Invalidate(c, lost)
  PROVE  RInv'
<1>. DEFINE a == AttemptOf(c)
            e == Lost(a)
<1>1. /\ At(c, "invalidate") /\ ~At(c, "idle") /\ call[c].at \in Working
      /\ InvalidateAttempt(OpOf(c), call[c].rev, a, e, LossKind)
      /\ Return(c, "unknown", lost)
      /\ UNCHANGED <<mutex, worker, offered, granted>>
  BY DEF Invalidate, At, Working
<1>2. a \in Attempts /\ OpOf(c) \in Ops
  BY <1>1, KnownCall
<1>3. e \in EvidenceIds /\ \A b \in Attempts : (e = Lost(b) => b = a) /\ e # Result(b)
  BY <1>2, RunnerAssumption, RecordsApart
<1>. HIDE DEF e
<1>4. /\ Growth /\ StartsNone /\ OnlyRecord(e)
      /\ revocation'[a] # NoRevocation
      /\ op'[OpOf(c)].state = "unknown_outcome"
  BY <1>1, <1>2, <1>3, InvalidateStore
<1>5. RowsStay /\ RecordsStay /\ OffersStay
  BY <1>1, <1>4, GrowthStays, QuietOffers DEF RInv
<1>6. call'[c].req = call[c].req
  BY <1>1, Returning DEF RInv, Answers
<1>7. SettlesNext(c)
  BY <1>4, <1>6 DEF SettlesNext, Settled, AttemptOf, OpOf, OfferOf, a
<1>8. RunnerTypeOK' /\ Arrives(c) /\ \A d \in Calls \ {c} : Unmoved(d)
  BY <1>1, <1>5, <1>7, QuietOffers, ReturnArrives DEF Answers
<1>9. \A d \in Calls : Advances(d)
  BY <1>8, UnmovedAdvances DEF Arrives
<1>10. OutcomesInv'
  BY <1>1, <1>2, <1>3, <1>4, <1>5, <1>9, OutcomeRecorded
<1>. QED
  BY <1>1, <1>4, <1>5, <1>8, <1>10, OutcomeStep

-----------------------------------------------------------------------------
(* The controller.                                                          *)
LEMMA StoreOnlyStep ==
  ASSUME RInv, UNCHANGED runnerVars, Growth, StartsNone, OutcomesStay
  PROVE  RInv'
<1>1. UNCHANGED <<call, mutex, worker, offered, granted>>
  BY DEF runnerVars
<1>2. RunnerTypeOK'
  BY <1>1 DEF RInv, RunnerTypeOK
<1>3. \A c \in Calls : Unmoved(c)
  BY <1>1 DEF Unmoved
<1>. QED
  BY <1>1, <1>2, <1>3, QuietOffers, CommonStep

LEMMA ReadRevision ==
  ASSUME RInv, NEW o \in Ops, op[o].rev > 0
  PROVE  op[o].rev \in Revisions
<1>1. op[o] # NoOp
  BY DEF NoOp
<1>. QED
  BY <1>1, OperationRow, PresentOperation DEF RInv, HInv, Revisions

(* An operation that the controller moves keeps its attempts, and no        *)
(* evidence is recorded.                                                    *)
LEMMA MovedByController ==
  ASSUME RInv, NEW o \in Ops, NEW to, NEW mark \in AttemptStates \cup {KeepState},
         to # "executing", MoveOperation(o, op[o].rev, to, mark),
         UNCHANGED <<task, evidence>>
  PROVE  op[o].rev \in Revisions /\ StartsNone /\ OutcomesStay
<1>1. op[o].rev > 0
  BY DEF MoveOperation, CanTransition
<1>2. AttemptsKept
  BY MoveSteps DEF RInv, HInv
<1>. QED
  BY <1>1, <1>2, ReadRevision DEF AttemptsKept, StartsNone, OutcomesStay

LEMMA DecideStore ==
  ASSUME RInv, NEW o \in Ops, NEW v \in VerificationIds, NEW verdict \in Verdicts,
         NEW safe \in BOOLEAN, Decide(o, v, verdict, safe)
  PROVE  Growth /\ StartsNone /\ OutcomesStay /\ BeatsStay
<1>. DEFINE a == op[o].active
            cited == {Accepted(a)}
<1>1. /\ a # NoID
      /\ \/ ApplyVerification(o, op[o].rev, v, a, cited, verdict, safe)
         \/ MarkNotStarted(o, op[o].rev, v, a, cited, verdict, safe)
  BY DEF Decide
<1>2. a \in Attempts
  BY <1>1 DEF RInv, HInv, IInv, TypeOK, OpRows, NoOp
<1>3. cited \in SUBSET EvidenceIds
  BY <1>2, RunnerAssumption
<1>. HIDE DEF a, cited
<1>4. PICK notStarted \in BOOLEAN :
        Apply(o, op[o].rev, v, a, cited, verdict, safe, notStarted)
  BY <1>1 DEF ApplyVerification, MarkNotStarted
<1>. DEFINE mark == VerdictAttemptState(verdict, notStarted)
            to == VerdictState[verdict]
<1>5. /\ MoveOperation(o, op[o].rev, to, mark)
      /\ UNCHANGED <<task, evidence, revocation>>
  BY <1>4 DEF Apply
<1>6. mark \in AttemptStates \cup {KeepState} /\ to # "executing"
  BY DEF VerdictAttemptState, VerdictState, Verdicts, AttemptStates
<1>. HIDE DEF mark, to
<1>7. op[o].rev \in Revisions /\ StartsNone /\ OutcomesStay
  BY <1>5, <1>6, MovedByController
<1>8. Growth
  BY <1>1, <1>2, <1>3, <1>7 DEF Growth
<1>. QED
  BY <1>5, <1>7, <1>8 DEF BeatsStay

(* What a step of the controller does to the store, and to its records.     *)
ControllerStore == Growth /\ StartsNone /\ OutcomesStay /\ BeatsStay

LEMMA MovedStore ==
  ASSUME RInv, NEW o \in Ops,
         \/ MarkReady(o, op[o].rev)
         \/ BeginVerification(o, op[o].rev)
         \/ MarkUnknownOutcome(o, op[o].rev)
  PROVE  ControllerStore
<1>1. /\ op[o].rev \in Revisions /\ StartsNone /\ OutcomesStay
      /\ UNCHANGED evidence
  <2>1. CASE MarkReady(o, op[o].rev)
    <3>1. /\ MoveOperation(o, op[o].rev, "ready", KeepState)
          /\ UNCHANGED <<task, evidence>>
      BY <2>1 DEF MarkReady
    <3>. QED
      BY <3>1, MovedByController
  <2>2. CASE BeginVerification(o, op[o].rev)
    <3>. DEFINE mark == IF op[o].state = "executing" THEN "reported" ELSE KeepState
    <3>1. /\ MoveOperation(o, op[o].rev, "verifying", mark)
          /\ UNCHANGED <<task, evidence>>
      BY <2>2 DEF BeginVerification
    <3>2. mark \in AttemptStates \cup {KeepState}
      BY DEF AttemptStates
    <3>. HIDE DEF mark
    <3>. QED
      BY <3>1, <3>2, MovedByController
  <2>3. CASE MarkUnknownOutcome(o, op[o].rev)
    <3>1. /\ MoveOperation(o, op[o].rev, "unknown_outcome", "uncertain")
          /\ UNCHANGED <<task, evidence>>
      BY <2>3 DEF MarkUnknownOutcome
    <3>. QED
      BY <3>1, MovedByController DEF AttemptStates
  <2>. QED
    BY <2>1, <2>2, <2>3
<1>2. Growth
  BY <1>1 DEF Growth
<1>. QED
  BY <1>1, <1>2 DEF ControllerStore, BeatsStay

LEMMA ControllerActs ==
  ASSUME RInv, Controller
  PROVE  ControllerStore
<1>1. ASSUME NEW t \in Tasks, CreateTask(t)
      PROVE  ControllerStore
  BY <1>1 DEF ControllerStore, Growth, CreateTask, StartsNone, OutcomesStay, BeatsStay
<1>2. ASSUME NEW d \in Descriptors, CreateOperation(d)
      PROVE  ControllerStore
  <2>1. Growth
    BY <1>2 DEF Growth
  <2>2. StartsNone /\ OutcomesStay /\ BeatsStay
    BY <1>2 DEF CreateOperation, StartsNone, OutcomesStay, BeatsStay
  <2>. QED
    BY <2>1, <2>2 DEF ControllerStore
<1>3. ASSUME NEW o \in Ops, NEW v \in VerificationIds, NEW verdict \in Verdicts,
             NEW safe \in BOOLEAN, Decide(o, v, verdict, safe)
      PROVE  ControllerStore
  BY <1>3, DecideStore DEF ControllerStore
<1>4. ASSUME NEW o \in Ops, NEW a \in Attempts,
             InvalidateAttempt(o, op[o].rev, a, Observed(a), LossKind)
      PROVE  ControllerStore
  <2>. DEFINE e == Observed(a)
  <2>1. /\ e \in EvidenceIds
        /\ \A b \in Attempts : e # Result(b) /\ e # Lost(b)
        /\ \A b \in Attempts, i \in 0..MaxHeartbeats - 1 : e # Beat(b, i)
    BY RunnerAssumption, RecordsApart
  <2>2. InvalidateAttempt(o, op[o].rev, a, e, LossKind)
    BY <1>4
  <2>. HIDE DEF e
  <2>3. Growth /\ StartsNone /\ OnlyRecord(e)
    BY <2>1, <2>2, InvalidateStore
  <2>4. OutcomesStay /\ BeatsStay
    BY <2>1, <2>3, RunnerAssumption DEF OnlyRecord, OutcomesStay, BeatsStay
  <2>. QED
    BY <2>3, <2>4 DEF ControllerStore
<1>5. ASSUME NEW t \in Tasks, FinalizeTask(t, task[t].rev)
      PROVE  ControllerStore
  <2>1. task[t].rev \in Revisions
    BY <1>5 DEF FinalizeTask, Revisions, RInv, HInv, IInv, TypeOK, TaskRows
  <2>2. Growth
    BY <1>5, <2>1 DEF Growth
  <2>3. StartsNone /\ OutcomesStay /\ BeatsStay
    BY <1>5 DEF FinalizeTask, StartsNone, OutcomesStay, BeatsStay
  <2>. QED
    BY <2>2, <2>3 DEF ControllerStore
<1>. QED
  BY <1>1, <1>2, <1>3, <1>4, <1>5, MovedStore DEF Controller

LEMMA ControllerStep ==
  ASSUME RInv, Controller
  PROVE  RInv'
<1>1. UNCHANGED runnerVars
  BY DEF Controller
<1>. QED
  BY <1>1, ControllerActs, StoreOnlyStep DEF ControllerStore

-----------------------------------------------------------------------------
LEMMA MainStep ==
  ASSUME RInv, NEW c \in Calls, Main(c)
  PROVE  RInv'
BY AdmitStep, OfferKnownStep, OfferRefusedStep, OfferGrantedStep, GateFailsStep, ReportStep,
   InvalidateStep, OfferFailsStep, GatePassesStep, SelectStep, ReportFailsStep, LoseStep,
   InvalidateFailsStep
   DEF Main

LEMMA NextRunner == RInv /\ [RunnerNext]_allVars => RInv'
<1>. SUFFICES ASSUME RInv, [RunnerNext]_allVars
              PROVE  RInv'
  OBVIOUS
<1>1. CASE UNCHANGED allVars
  <2>1. UNCHANGED vars /\ UNCHANGED runnerVars
    BY <1>1 DEF allVars
  <2>2. Growth /\ StartsNone /\ OutcomesStay
    BY <2>1 DEF Growth, vars, StartsNone, OutcomesStay
  <2>. QED
    BY <2>1, <2>2, StoreOnlyStep
<1>2. CASE RunnerNext
  BY <1>2, SubmitStep, RedeliverStep, MainStep, CloseStep, BeatBeginsStep, BeatFailsStep,
     BeatCommitsStep, WorkerReturnsStep, CtxDoneStep, CrashStep, ControllerStep
     DEF RunnerNext, BeatEnds
<1>. QED
  BY <1>1, <1>2

(* At every moment the store is as its own invariant says, and the calls    *)
(* are where Execute may be: see RInv.                                      *)
THEOREM RunnerInvariant == RunnerSpec => []RInv
<1>1. RunnerInit => RInv
  BY InitRunner
<1>2. RInv /\ [RunnerNext]_allVars => RInv'
  BY NextRunner
<1>. QED
  BY <1>1, <1>2, PTL DEF RunnerSpec

-----------------------------------------------------------------------------
(* The safety properties of the runs.                                       *)

(* The local variables of Execute and the offers in the messages table are  *)
(* well formed.                                                             *)
THEOREM RunnerIsTyped == RunnerSpec => []RunnerTypeOK
<1>1. RInv => RunnerTypeOK
  BY DEF RInv
<1>. QED
  BY <1>1, RunnerInvariant, PTL

(* Runner.Execute dispatches an attempt to a worker only in the call that   *)
(* was told that its offer committed: not for a redelivered offer, not      *)
(* after a commit with a lost answer, and not after a restart.              *)
THEOREM OnlyItsOwnOffer == RunnerSpec => []DispatchedByItsOffer
<1>1. RInv => DispatchedByItsOffer
  BY DEF RInv, CallsInv, CallInv, OwnsOffer, DispatchedByItsOffer
<1>. QED
  BY <1>1, RunnerInvariant, PTL

(* The link of a retry to the attempt before it, which is checked before    *)
(* the transaction of the offer, holds for the attempt that it starts.      *)
THEOREM RetriesAreLinked == RunnerSpec => []RetryIsLinked
<1>1. RInv => RetryIsLinked
  BY DEF RInv
<1>. QED
  BY <1>1, RunnerInvariant, PTL

(* When Execute returns without an error, the attempt that it started is    *)
(* reported, decided about, or recorded as lost: no executing operation is  *)
(* left with nobody that answers for it.                                    *)
THEOREM ReturnedIsSettled == RunnerSpec => []SettledOnReturn
<1>1. RInv => SettledOnReturn
  BY DEF RInv, AllSettled, Settled, SettledOnReturn
<1>. QED
  BY <1>1, RunnerInvariant, PTL

(* A worker is behind the newest one of its operation only after its        *)
(* attempt was left behind, for which RetryIsJustified has a verification.  *)
LEMMA JustifiedOverlap == RInv => OverlapIsJustified
<1>. SUFFICES ASSUME RInv, NEW c \in Calls, NEW d \in Calls,
                     worker[c] = "running", worker[d] = "running", OpOf(c) = OpOf(d),
                     attempt[AttemptOf(c)].gen < attempt[AttemptOf(d)].gen
              PROVE  \E v \in VerificationIds :
                       /\ verification[v].attempt = AttemptOf(c)
                       /\ verification[v].verdict = "not_satisfied_retryable"
                       /\ verification[v].safe
  BY DEF OverlapIsJustified
<1>1. ASSUME NEW x \in Calls, worker[x] = "running"
      PROVE  /\ AttemptOf(x) \in Attempts
             /\ attempt[AttemptOf(x)] # NoAttempt
             /\ attempt[AttemptOf(x)].op = OpOf(x)
             /\ OpOf(x) \in Ops
  <2>1. granted[AttemptOf(x)] = x /\ ~At(x, "idle")
    BY <1>1 DEF RInv, CallsInv, CallInv, OwnsOffer, At
  <2>. QED
    BY <2>1, KnownCall, OwnAttempt
<1>2. attempt[AttemptOf(d)].gen <= op[OpOf(d)].gen
  BY <1>1 DEF RInv, HInv, Numbered, AttemptsNumbered
<1>3. /\ attempt[AttemptOf(c)].gen \in Nat /\ attempt[AttemptOf(d)].gen \in Nat
      /\ op[OpOf(d)].gen \in Nat
  BY <1>1, AttemptRow, OperationRow, MaxInt64Assumption DEF RInv, HInv
<1>4. attempt[AttemptOf(c)].gen < op[OpOf(c)].gen
  BY <1>2, <1>3
<1>. QED
  BY <1>1, <1>4 DEF RInv, HInv, RetryIsJustified

(* Two worker goroutines of one operation overlap only when the store has a *)
(* verification that the older attempt had no effect and is safe to retry:  *)
(* Execute gives a worker up at its deadline without waiting for it.        *)
THEOREM OverlapsAreJustified == RunnerSpec => []OverlapIsJustified
BY JustifiedOverlap, RunnerInvariant, PTL

-----------------------------------------------------------------------------
(* What the steps of the runner do to the store.                            *)
NoLateBeat ==
  \A a \in Attempts, i \in 0..MaxHeartbeats - 1 :
    evidence[Beat(a, i)] = NoEvidence /\ evidence'[Beat(a, i)] # NoEvidence
    => evidence[Result(a)] = NoEvidence /\ evidence[Lost(a)] = NoEvidence

RunnerStore == Growth /\ NoLateBeat

LEMMA QuietStore ==
  ASSUME UNCHANGED vars
  PROVE  RunnerStore
BY DEF RunnerStore, Growth, NoLateBeat, vars

LEMMA OtherRecord ==
  ASSUME NEW e \in EvidenceIds, OnlyRecord(e),
         \A a \in Attempts, i \in 0..MaxHeartbeats - 1 : e # Beat(a, i)
  PROVE  NoLateBeat
BY RunnerAssumption DEF OnlyRecord, NoLateBeat

(* A heartbeat is recorded only while the attempt has authority, and before *)
(* the call has closed its heartbeats.                                      *)
LEMMA BeatInTime ==
  ASSUME RInv, NEW c \in Calls, RecordBeat(c), ~At(c, "idle"), ~At(c, "crashed"),
         call[c].at \in Working \/ worker[c] # "none",
         ~call[c].closed, call[c].beats < MaxHeartbeats
  PROVE  RunnerStore
<1>. DEFINE a == AttemptOf(c)
            e == Beat(a, call[c].beats)
<1>1. Growth /\ call[c].beats \in 0..MaxHeartbeats - 1 /\ OnlyRecord(e)
  BY RecordBeatStore
<1>2. a \in Attempts /\ granted[a] = c
  BY KnownCall DEF RInv, CallsInv, CallInv, OwnsOffer
<1>3. \A b \in Attempts, i \in 0..MaxHeartbeats - 1 : e = Beat(b, i) => b = a
  BY <1>1, <1>2, RecordsApart
<1>4. evidence[Result(a)] = NoEvidence
  BY <1>2 DEF RInv, OutcomesInv, OutcomeInv
<1>5. evidence[Lost(a)] = NoEvidence
  BY <1>2 DEF RInv, OutcomesInv, OutcomeInv, RecordBeat, HasAuthority, Authoritative
<1>. HIDE DEF e, a
<1>6. NoLateBeat
  BY <1>1, <1>3, <1>4, <1>5, RunnerAssumption DEF NoLateBeat, OnlyRecord
<1>. QED
  BY <1>1, <1>6 DEF RunnerStore

LEMMA OfferRefusedStore ==
  ASSUME RInv, NEW c \in Calls, NEW lost \in BOOLEAN, OfferRefused(c, lost)
  PROVE  RunnerStore
<1>. DEFINE e == Rejected(OfferOf(c).msg)
<1>1. RegisterEvidence(e, OpOf(c), NoID, LossKind) /\ At(c, "offer")
  BY DEF OfferRefused, NewOffer
<1>2. OpOf(c) \in Ops /\ OfferOf(c).msg \in Messages
  BY <1>1, KnownCall DEF At
<1>3. /\ e \in EvidenceIds
      /\ \A a \in Attempts, i \in 0..MaxHeartbeats - 1 : e # Beat(a, i)
  BY <1>2, RunnerAssumption, RecordsApart
<1>. HIDE DEF e
<1>4. Growth /\ OnlyRecord(e)
  BY <1>1, <1>2, <1>3, RecordStore DEF EvidenceKinds
<1>. QED
  BY <1>3, <1>4, OtherRecord DEF RunnerStore

LEMMA OfferGrantedStore ==
  ASSUME RInv, NEW c \in Calls, NEW lost \in BOOLEAN, OfferGranted(c, lost)
  PROVE  RunnerStore
<1>. DEFINE e == Accepted(AttemptOf(c))
<1>1. /\ evidence[e] = NoEvidence
      /\ AddEvidence(e, OpOf(c), AttemptOf(c), LossKind)
      /\ At(c, "offer")
  BY DEF OfferGranted, NewOffer, OpOf, AttemptOf
<1>2. AttemptOf(c) \in Attempts
  BY <1>1, KnownCall DEF At
<1>3. /\ e \in EvidenceIds
      /\ \A a \in Attempts, i \in 0..MaxHeartbeats - 1 : e # Beat(a, i)
  BY <1>2, RunnerAssumption, RecordsApart
<1>. HIDE DEF e
<1>4. OnlyRecord(e)
  BY <1>1 DEF OnlyRecord, AddEvidence, RInv, HInv, IInv, TypeOK
<1>. QED
  BY <1>3, <1>4, GrantedStore, OtherRecord DEF RunnerStore

LEMMA ReportRunnerStore ==
  ASSUME RInv, NEW c \in Calls, NEW inTime \in BOOLEAN, NEW lost \in BOOLEAN,
         Report(c, inTime, lost)
  PROVE  RunnerStore
<1>. DEFINE e == Result(AttemptOf(c))
<1>1. RecordWorkerReport(e, AttemptOf(c), inTime) /\ At(c, "report")
  BY DEF Report
<1>2. AttemptOf(c) \in Attempts
  BY <1>1, KnownCall DEF At
<1>3. /\ e \in EvidenceIds
      /\ \A a \in Attempts, i \in 0..MaxHeartbeats - 1 : e # Beat(a, i)
  BY <1>2, RunnerAssumption, RecordsApart
<1>. HIDE DEF e
<1>. QED
  BY <1>1, <1>2, <1>3, ReportStore, OtherRecord DEF RunnerStore

LEMMA InvalidateRunnerStore ==
  ASSUME RInv, NEW c \in Calls, NEW lost \in BOOLEAN, Invalidate(c, lost)
  PROVE  RunnerStore
<1>. DEFINE e == Lost(AttemptOf(c))
<1>1. /\ InvalidateAttempt(OpOf(c), call[c].rev, AttemptOf(c), e, LossKind)
      /\ At(c, "invalidate")
  BY DEF Invalidate
<1>2. AttemptOf(c) \in Attempts /\ OpOf(c) \in Ops
  BY <1>1, KnownCall DEF At
<1>3. /\ e \in EvidenceIds
      /\ \A a \in Attempts, i \in 0..MaxHeartbeats - 1 : e # Beat(a, i)
  BY <1>2, RunnerAssumption, RecordsApart
<1>. HIDE DEF e
<1>. QED
  BY <1>1, <1>2, <1>3, InvalidateStore, OtherRecord DEF RunnerStore

LEMMA GateStore ==
  ASSUME RInv, NEW c \in Calls, At(c, "gate"), MayBeat(c), RecordBeat(c)
  PROVE  RunnerStore
BY BeatInTime DEF At, MayBeat, Working

LEMMA BeatCommitsStore ==
  ASSUME RInv, NEW c \in Calls, NEW lost \in BOOLEAN, BeatCommits(c, lost)
  PROVE  RunnerStore
<1>1. mutex[c] = "beat" /\ RecordBeat(c)
  BY DEF BeatCommits
<1>2. /\ worker[c] # "none" /\ ~call[c].closed
      /\ ~At(c, "crashed") /\ ~At(c, "idle")
      /\ call[c].beats < MaxHeartbeats
  BY <1>1 DEF RInv, CallsInv, CallInv, At
<1>. QED
  BY <1>1, <1>2, BeatInTime

LEMMA ControllerRunnerStore ==
  ASSUME RInv, Controller
  PROVE  RunnerStore
BY ControllerActs DEF ControllerStore, BeatsStay, NoLateBeat, RunnerStore

LEMMA MainStore ==
  ASSUME RInv, NEW c \in Calls, Main(c)
  PROVE  RunnerStore
<1>1. ASSUME NEW accepts \in BOOLEAN, Admit(c, accepts)
      PROVE  RunnerStore
  BY <1>1, QuietStore DEF Admit
<1>2. ASSUME NEW lost \in BOOLEAN, GateFails(c, lost)
      PROVE  RunnerStore
  <2>1. CASE lost
    <3>1. At(c, "gate") /\ MayBeat(c) /\ RecordBeat(c)
      BY <1>2, <2>1 DEF GateFails
    <3>. QED
      BY <3>1, GateStore
  <2>2. CASE ~lost
    <3>1. UNCHANGED vars
      BY <1>2, <2>2 DEF GateFails
    <3>. QED
      BY <3>1, QuietStore
  <2>. QED
    BY <2>1, <2>2
<1>3. CASE GatePasses(c)
  BY <1>3, GateStore DEF GatePasses
<1>4. CASE OfferKnown(c)
  BY <1>4, QuietStore DEF OfferKnown
<1>5. CASE OfferFails(c)
  BY <1>5, QuietStore DEF OfferFails
<1>6. CASE Select(c)
  BY <1>6, QuietStore DEF Select
<1>7. CASE ReportFails(c)
  BY <1>7, QuietStore DEF ReportFails
<1>8. CASE Lose(c)
  BY <1>8, QuietStore DEF Lose
<1>9. CASE InvalidateFails(c)
  BY <1>9, QuietStore DEF InvalidateFails
<1>. QED
  BY <1>1, <1>2, <1>3, <1>4, <1>5, <1>6, <1>7, <1>8, <1>9, OfferRefusedStore,
     OfferGrantedStore, ReportRunnerStore, InvalidateRunnerStore DEF Main

LEMMA NextStore == RInv /\ [RunnerNext]_allVars => RunnerStore
<1>. SUFFICES ASSUME RInv, [RunnerNext]_allVars
              PROVE  RunnerStore
  OBVIOUS
<1>1. ASSUME NEW c \in Calls, NEW off \in Offers, Submit(c, off)
      PROVE  RunnerStore
  BY <1>1, QuietStore DEF Submit
<1>2. ASSUME NEW c \in Calls, NEW d \in Calls, Redeliver(c, d)
      PROVE  RunnerStore
  BY <1>2, QuietStore DEF Redeliver
<1>3. ASSUME NEW c \in Calls, NEW within \in BOOLEAN, Close(c, within)
      PROVE  RunnerStore
  BY <1>3, QuietStore DEF Close
<1>4. ASSUME NEW c \in Calls, BeatBegins(c) \/ BeatFails(c) \/ CtxDone(c) \/ Crash(c)
      PROVE  RunnerStore
  <2>1. UNCHANGED vars
    BY <1>4 DEF BeatBegins, BeatFails, CtxDone, Crash
  <2>. QED
    BY <2>1, QuietStore
<1>5. ASSUME NEW c \in Calls, NEW result \in {"claimed", "failed"}, WorkerReturns(c, result)
      PROVE  RunnerStore
  BY <1>5, QuietStore DEF WorkerReturns
<1>6. CASE UNCHANGED allVars
  BY <1>6, QuietStore DEF allVars
<1>7. CASE RunnerNext
  BY <1>1, <1>2, <1>3, <1>4, <1>5, <1>7, MainStore, BeatCommitsStore, ControllerRunnerStore
     DEF RunnerNext, BeatEnds
<1>. QED
  BY <1>6, <1>7

(* Heartbeats of an attempt end with its outcome: mu, and the authority     *)
(* check in the transaction, keep a late one of the worker out.             *)
THEOREM BeatsAreInTime == RunnerSpec => BeatsEndWithOutcome
<1>1. RInv /\ [RunnerNext]_allVars =>
        \A a \in Attempts, i \in 0..MaxHeartbeats - 1 :
          evidence[Beat(a, i)] = NoEvidence /\ evidence'[Beat(a, i)] # NoEvidence
          => evidence[Result(a)] = NoEvidence /\ evidence[Lost(a)] = NoEvidence
  BY NextStore DEF RunnerStore, NoLateBeat
<1>. QED
  BY <1>1, RunnerInvariant, PTL DEF RunnerSpec, BeatsEndWithOutcome

(* Concurrent calls of Execute, their workers' heartbeats and the           *)
(* controller keep to the protocol of the store, also where the runner puts *)
(* several writes in one transaction: what internal/core promises of        *)
(* scopes, recovery, generations, retries, evidence, authority and          *)
(* revisions holds.                                                         *)
THEOREM RunnerKeepsStore ==
  RunnerSpec => /\ [](ScopeMutualExclusion /\ RecoveryIntegrity /\ GenerationsDense
                      /\ RetryIsJustified /\ EvidenceGraphComplete)
                /\ LostAuthorityIsFinal
                /\ RevisionCoversDecision
<1>1. RInv => /\ ScopeMutualExclusion /\ RecoveryIntegrity /\ GenerationsDense
              /\ RetryIsJustified /\ EvidenceGraphComplete
  BY DisjointHolders, InspectableStore, DenseGenerations, CompleteEvidence DEF RInv, HInv
<1>2. RInv /\ [RunnerNext]_allVars => HInv /\ StoreStep
  BY NextStore DEF RunnerStore, StoreStep, RInv
<1>3. RInv /\ [RunnerNext]_allVars =>
        \A a \in Attempts :
          /\ attempt[a] # NoAttempt
          /\ attempt'[a] # NoAttempt
          => /\ ~HasAuthority(attempt[a].op, a) => ~HasAuthority(attempt[a].op, a)'
             /\ /\ Reports(a)
                /\ \/ ~HasAuthority(attempt[a].op, a)
                   \/ op[attempt[a].op].state # "executing"
                => UNCHANGED <<op, attempt, reservation>>
  BY <1>2, AuthorityStep, FadingIsForGood, LateReportStep
<1>4. RInv /\ [RunnerNext]_allVars =>
        \A o \in Ops :
          /\ op[o] # NoOp
          /\ op'[o] # NoOp
          => \/ op'[o].rev > op[o].rev
             \/ /\ op'[o] = op[o]
                /\ \A a \in Attempts :
                     attempt[a].op = o \/ attempt'[a].op = o =>
                       attempt'[a] = attempt[a] /\ revocation'[a] = revocation[a]
                /\ \A v \in VerificationIds :
                     verification'[v].op = o => verification[v] = verification'[v]
                /\ \A s \in Scopes :
                     reservation[s].op = o \/ reservation'[s].op = o =>
                       reservation'[s] = reservation[s]
  BY <1>2, RevisionStep
<1>. QED
  BY <1>1, <1>3, <1>4, RunnerInvariant, PTL
     DEF RunnerSpec, LostAuthorityIsFinal, RevisionCoversDecision
=============================================================================
