# A TLA+ model of the agent control plane

This directory specifies the control plane of this repository: the canonical
store of tasks, operations and attempts, its message deduplication and
retention, the SQLite database under it, the runner that executes attempts, the
process transport, and the local check that is built on all of them. TLC
checks the specifications on small instances; TLAPS proves the central
invariants for every size.

Check a run with `tlc -config MCRunner_faults.cfg MCRunner`, a proof with
`tlapm ControlStoreProofs.tla`.

## The system

| Component | State it keeps | Operations | What makes it correct |
|---|---|---|---|
| State machine (`internal/state`) | none: functions on operations | `Transition`, `StartAttempt`, `LoseExecutionCertainty` | only allowed transitions, compare-and-set on the revision, no overflow |
| Core store (`internal/core`) | tasks, operations, attempts, evidence, verifications, revocations, scope reservations, messages | one method per decision, `ProcessMessage` around any of them, recovery, finalization | mutations with a common scope exclude each other; a retry and an outcome rest on a verdict; lost authority stays lost; records are complete |
| Repository (`internal/persistence`, `memory`, `sqlite`) | the tables, the message floor | `Update`, `View`, rows, `Collect` | a transaction is all or nothing; collection forgets only what is settled, whole, and never reopens the replay window |
| Execution runner (`internal/execution`) | per call: heartbeats, `closed`, the worker's goroutine | `Execute` | at most one dispatch per committed offer; the outcome is recorded or the loss is; returns |
| Process transport (`internal/transport/process`) | slots, active runs, the idle channel; per run a child and two goroutines | `Run`, `WaitIdle`, `Serve` | slots bound processes; only a clean result is a claim; returns |
| Local check (`internal/localcheck`, `cmd/acp`) | receipt files next to the store | `Check`, `Status`, `Recover`, `Collect` | a check is run once, and can be finished after a crash |
| Reference verifier (`internal/reference`) | none | `Verify` | static validation |
| Protocol and evidence types | none | `Validate` | field checks |

A controller (code that uses `core.Store`) creates a task and its operations,
marks an operation ready and asks the runner to execute it. The runner offers
the attempt in one transaction, dispatches the worker, records heartbeats and
the result or the loss, each in a transaction of its own. The controller
decides about the attempt from evidence; a reconciliation, a retry or an end
follows. A collector removes closed tasks after their retention time. All of
them share nothing but the store, and any of them may be late, repeated, or gone.

Hard to test, and therefore what the properties are about: decisions on stale
reads; two actors in any order about one operation; an answer lost after its
commit; workers that run on after their call has given them up; messages
redelivered after they were forgotten; identifiers used again after
collection; clocks that jump; limits of counters; slots whose cleanup is late.
`PROJECT.json` lists the hazards by line with the properties that cover them.

## The modules

| Module | Models | Uses |
|---|---|---|
| `OperationState` | `internal/state`: states, transition table, the three functions on an operation with their guards | |
| `ControlStore` | `internal/core` without messages, over the repository's tables: one action per exported method that writes, and `Collect` | `OperationState` |
| `ScopeLock` | abstract: a lock manager that grants each client all the scopes it needs, or none | |
| `ControlStoreProofs` | theorems about `ControlStore`: types, scopes, recovery, its refinement | `ControlStore`, TLAPS |
| `ControlStoreHistoryProofs` | theorems about `ControlStore`: generations, retries, evidence, settlement, authority, revisions | `ControlStoreProofs` |
| `MessageRetention` | `ProcessMessage`, its admission by age, deduplication, and the collection of messages | |
| `MessageRetentionProofs` | theorems about `MessageRetention` | `MessageRetention`, TLAPS |
| `Runner` | `Execute`, concurrent calls, over the store | `ControlStore` |
| `RunnerProofs` | theorems about `Runner` and the store under it | `Runner`, `ControlStoreHistoryProofs` |
| `ProcessTransport` | `Worker.Run`, its child, `WaitIdle`, `Serve` | |
| `ProcessTransportProofs` | theorems about `ProcessTransport` | `ProcessTransport`, TLAPS |
| `Collector` | the batches of `persistence.Collect`: cursor, row budget, page, deferral | `MessageRetention` |
| `CollectorProofs` | theorems about `Collector`, its refinement | `Collector`, `MessageRetentionProofs` |
| `AtomicStore` | abstract: what `persistence.Repository` promises of `Update` and `View` | |
| `Database` | the SQLite adapter: `Open`, migrations, the pool, `run`, and the guard of `core.Transaction` | `AtomicStore` |
| `DatabaseProofs` | theorems about `Database`, its refinement | `Database`, TLAPS |
| `LocalCheck` | `internal/localcheck` and `cmd/acp`: check, status, recover, gc | |
| `LocalCheckProofs` | theorems about `LocalCheck` | `LocalCheck`, TLAPS |
| `MC...` | instances for TLC | |

### OperationState and ControlStore

A table is a function from identifiers to rows; a missing row is a record of its
own (`NoTask`, `NoOp`, ...). Each exported method of `core.Store` runs in one
`Repository.Update`, so it is one action with the code's early returns as
guards; a method that returns an error changes nothing and is not a step.
`MoveOperation` is `Transaction.transition`, with the release of the scopes that
comes with it, and every action that moves an operation goes through it.
`StartAttempt` is `Grant` and nothing else, so that `Runner` can use `Grant`
in a larger transaction. `Next` also has redelivered and repeated calls: an
action with the identifiers of an earlier one is just tried again.

Revisions and generations are bounded by `MaxInt64`, which the code compares
with at the same places; the instances use a small number for it, so that the
checks of exhaustion happen. Timestamps, target and policy references, digests
and summaries are left out, because no decision that the properties speak about
reads them (a mismatch is an error). `Collect` in this module may remove the graphs
of any closed tasks, operation by operation; which ones a batch reaches is left open.

`ScopeLock` is what the conflict scopes promise: an operation says when it is created
which scopes it needs (`Register`); an attempt takes exactly these at once, all free, keeps
them, and gives them back at once. A read needs none.
`ImplementsScopeLock` says that `ControlStore` implements it, with the holder of
a scope read off the reservation table.

### MessageRetention

The messages table, the floor and the clock, with the owners that a message may name
(task, operation, attempt) cut down to what admission and collection read.
`Admissible` is the age check, `IsNew` the three-way comparison with the stored
row, `NewFloor` and `Collect` the retention pass. The clock is set to any value at any time
(`SetClock`): nothing in the code makes it monotonic. A collecting process reads the
clock before its transaction begins, so `Collect` and `NewFloor` take the time that it
has read, and it may be any. `Collect` may remove any
part of what it is allowed to remove, since a batch ends where its budget does.

### Collector

One call of `persistence.Collect` inside its transaction: the orphaned messages, the page
of due tasks behind the cursor, each task deferred (`Defer`), or its operations removed one
by one (`TakeOperation`), passed over (`SkipOversized`) or not affordable
(`StopAtOperation`), then its messages and its row (`DropTask`). The transaction is
atomic, so that its reads see the tables as they are, less what `batch` has put aside to
remove; other callers act before and after it, and `Commit` writes. A batch may fail, and
its answer may be lost, after which the caller asks again with its old cursor.
The order in which an adapter lists messages and operations is left open. The rows of a
graph are those of its attempts and a constant for its other records (`OpRows`).
`ImplementsRetention` says that a batch, whatever its budget, is a `Collect` of
`MessageRetention`.

### Database

Processes with different numbers of migrations on one file, each with a pool of
connections. A connection has its place in the pool, its open transaction, and the
contents that the transaction sees; `disk` is what is committed. A call of `View` or `Update`
(`job[c].at`) gets a connection, begins, checks the schema, runs its callback, commits, and
rolls back otherwise. The callback is two decisions of the core, each of which reads and
writes its own part of the rows, so that half of an update exists; the callback may
ignore an error of the first (`Ignore`), after which the guard of `core.Transaction` makes
the second and the commit fail. Any statement may fail, for its context, its lock or its disk,
and the database may then have rolled back the transaction or not. A commit that answers with an
error has taken effect or not. `Close` does not wait for calls; a process may crash.

`AtomicStore` is the contract in the comments of `persistence.Repository`: an update
is stored whole, over the rows that it has read, or not at all; an error leaves open which,
when it comes after the commit; a view answers with the rows of one moment between its call and
its answer. `ImplementsAtomicStore` says that `Database` keeps it.

A `BEGIN` that fails is taken to have had no effect: if a driver began a transaction and
still returned an error, the code would give the connection back without a rollback.
The write-ahead log's readers see the file as of their first read; before the first opener has
switched it on the rollback journal has the same effect, by waiting.

### LocalCheck

Each invocation of `acp` is a process with its place (`call[c].at`); a step is one file operation or
one transaction of the store, of which one task, its one operation and the digests of its
records are kept (`rows`). A receipt is the few fields by which two of them differ; a
partial write (`Partial`) is a file that does not load. `child` is the command itself,
which can outlive the process that started it and the kill at its deadline. `Stop`
ends a process, or fails a step of it, at any place. `Execute` of the runner is here
`Offer`, `Run`, `Report` and `Lose`; `Runner` has its details.

It is assumed that nobody else changes the directory, that one `gc` is run at a time, that
a task is created under a used identifier only when no call but `gc` is about the
earlier task any more (the quickstart asks for new ones always), and that the clock, whose unit is a day, does not pass
a limit while a call runs (calls are cut off after 310 seconds).

The quickstart and ADR 0004 say that `recover` only finishes an operation that was reported
and whose receipt matches. They do not say that it is also refused when it comes later than
the replay window after the end of the command. That follows from the code: the message of the
verification is issued at the receipt's time (service.go:266) and admitted like any other.

`ChecksFinish` therefore has exceptions, each with its cause. `Interrupted` excepts a task whose
outcome is unknown, and a task that its own check has left behind (`broken`: the check was stopped,
its workspace was in use, or a receipt of an earlier task with its identifier was still
there), as long as its report and its receipt do not fit, or when the replay window has passed.
For all of these the code has no way on. Any other task has to be closed in the end, by its
check or by `recover`.

### Runner

Every call of `Execute` is a process with its place (`call[c].at`), its context
(`ended`), its local variables, the mutex of its heartbeats and the goroutine of
its worker, which lives on when the call has returned. Each transaction is one
step that changes the store by an action of `ControlStore`, or by `Grant` and
`AddEvidence` together for an offer; between two transactions any other call, or
the controller, may act. `uncertain` is two steps (`Lose`, `Invalidate`),
as it is two store calls.

`Faults` switches on failing store calls (`"store"`), commits that took effect and
answer with an error (`"commit"`), and the loss of the process (`"crash"`).
Capabilities, policy, limits, deadlines and the worker's `Accept` are one Boolean
each (`accepts`, `inTime`, `within`), chosen freely. The revision in a request is
one that its caller has read (`Submit`), as in `localcheck`.
The `failed` of a return says that the call has not recorded, as far as it was told, what became of the
attempt. `Execute` also returns an error when a loss was recorded after a report that failed; the model
does not count it as failed, so that `SettledOnReturn` has to hold for it too.
The controller does not collect: the retention of closed tasks outlasts the deadline of a call.

### ProcessTransport

A run is `Run` itself with the goroutine of `exchange`, the one of `cmd.Wait`, the
one that releases the slot when cleanup is late, its child and the two pipes.
`acquire` and `release` are two steps each, as the slot and the counter are not
taken together. The child is either the reference worker (`Serve` with
`Local.Run`: one heartbeat, then the answer) or, for a run in `Rogue`, a program
that writes any frame, exits at any time with any status, floods stderr, and may
leave its pipes open in another process. A process that was killed may take any time to
go. A pipe holds one frame; malformed frames and foreign bindings are `"error"`
frames, because `exchange` ends in the same way for all of them.

### Steps that are larger or smaller than in the code

Some reads that the code does one after the other are one step here, because what the
later of them reads can no longer change: the attempt that a retry names (`Admit`: the generation and
operation of an attempt are fixed, and a later attempt fails the comparison), the intent and report of an
operation (`See`), and the receipt behind a verdict (`Confirm`, under the assumption on gc and identifiers).
`Lose` of `LocalCheck` has no guards of its own: its place implies that the operation is executing
or being verified, and a loss that the store refuses is a `Stop`. In `Database` the connection of `Open`
does not fail before its first statement, since such a failure leaves nothing behind.

## The runs

| Run | Instance | Properties | What it shows |
|---|---|---|---|
| `store_conflict` | two mutations with overlapping scope sets | `TypeOK`, `RecoveryIntegrity`, `NoLeakedReservation`, `ScopeMutualExclusion`, `ScopeFreedOnlyByVerdict`, `ImplementsScopeLock` | mutual exclusion of mutations through attempts, losses, verdicts and collection; each grant is all that its operation needs |
| `store_retry` | one mutation, two attempts | `GenerationsDense`, `RetryIsJustified`, `LostAuthorityIsFinal`, `RevisionCoversDecision` | a retry needs a retryable verdict on the attempt before; generations are granted once; reconciliation gives no authority back, and a late report moves nothing; compare-and-set protects every decision |
| `store_retention` | a mutation and a read, tasks that close, identifiers used again | `EvidenceGraphComplete`, `TerminalTaskIsSettled`, `ClosedTaskIsFrozen` | records are complete and closed tasks frozen, through collection and reuse |
| `message_dedup` | colliding and cross-referencing messages, a jumping clock | `AppliedOnce`, `ReplayIsRecognised`, `DedupOutlivesWork` | at most once for ever, recognised within the window |
| `runner_faults` | one offer, two deliveries, all faults | `DispatchedByItsOffer`, `SettledOnReturn`, `BeatsEndWithOutcome` | one dispatch, settled on return, no heartbeat behind the outcome |
| `runner_retry` | an attempt and its retry, two calls | `RetryIsLinked`, `OverlapIsJustified` | a retry names its predecessor although the check precedes the transaction; workers overlap only after a verdict |
| `runner_liveness` | one call, no store faults | `EveryCallReturns`, `AttemptsSettle` | `Execute` returns, and leaves no attempt executing, even if the worker never returns |
| `transport_slots` | two runs of the reference worker, two slots, a `WaitIdle` | `SlotCoversWork`, `IdleChannelHonest`, `IdleBarrier` | a slot lasts as long as its process; the idle barrier is sound |
| `transport_ends` | the reference worker and another program, one slot | `ClaimIsClean`, `EveryRunReturns`, `SlotsComeBack` | only a clean result is a claim; every run ends; slots return |
| `gc_batches` | three tasks, two operations of different size, messages of two tasks that may name each other's operations, a budget of three rows and pages of two tasks | `BudgetIsKept`, `CallsGetSomewhere`, `SettledTasksGo`, `ImplementsRetention` | no batch gets nowhere and asks again; repeated calls remove every task that does not wait for another, for an oversized graph, or in a circle; a batch is a `Collect` |
| `local_check` | two identifiers in one workspace, two processes, two checks, one that stops | `CommandRunsOnce`, `WorkspaceIsExclusive`, `VerdictsAreProved`, `ChecksFinish` | the command is never repeated, never overlaps with another in its workspace, a verdict rests on its receipt; what can be finished is finished by `recover` |
| `sqlite` | a program with one migration and one with two, pools of two connections, two updates and a view, one crash | `PoolIsClean`, `SchemaIsOwn`, `ImplementsAtomicStore` | all or nothing through ignored errors, dropped transactions and ambiguous commits; no connection is pooled inside a transaction; an old program stops at a new schema |

Every property has a mutant in `PROJECT.json`: a definition of the model changed
the way a bug would change the code, under which the run finds the property
violated. The mutant operators stand next to what they mutate.

### Bounds

Two operations with overlapping sets of two scopes are the smallest conflict in which a
partial grant differs from none. Two attempts are one retry, and the third
generation repeats what the second does. Two calls are an offer and its redelivery, or an attempt and
its retry. Two heartbeats (`MaxHeartbeats`) let one be first, one be last, and one too
many be asked for; the transport uses one, since the reference worker sends one.
`MaxInt64` is a small number at which the code's exhaustion checks apply;
behaviours that need more revisions are cut off by the code's own guard.
Model values that are not compared are symmetric where no liveness is checked.

For the collector, a budget of three rows lets a graph of four be oversized, one of three
use the whole budget, and orphans leave too little; a page of two is full before the third task.
Windows of zero and two instants make every age possible. For the local check, two
identifiers in one workspace are the smallest conflict, one of them used twice the smallest
reuse, and one stop suffices to leave any intermediate state behind; two checks
and any number of other calls meet it. For the database, two versions are an upgrade
and two decisions are half an update; two connections let two calls of a process, or a
call and a discarded connection, share a pool, and one crash between any two steps is followed
by a restart that may upgrade.

Deadlock is not checked where identifiers or calls run out, which ends the
behaviour though not the system; it is checked in `message_dedup` and `gc_batches`.

### Fairness

`FairRunner` assumes that a call that can go on does (`Main`: goroutines are scheduled,
store calls end), that a heartbeat's transaction ends, that the context ends
(`Execute` sets the request's deadline), and, as strong fairness, that the call
gets the mutex that heartbeats take again and again: `sync.Mutex` hands it over
to a waiter that starves. Nothing is assumed of the worker, of callers or of
the controller. `FairSpec` of `ProcessTransport` assumes that its goroutines go on, that the
cleanup timer fires, that a heartbeat of the Runner answers, and
that the reference worker goes on; that a deadline ends a run is assumed only for other
programs, so that the exchange with the reference worker must end by the protocol
alone. That a killed process exits is not assumed: `SlotsComeBack` starts from its exit.

`FairCollector` assumes that the operator calls `gc` again with the cursor of the answer, that a
transaction goes on, and, strongly, that not every batch fails; nothing of the clock, which may
go back for ever: then the task waits, and `SettledTasksGo` asks only that each task is
gone or waits again and again. `FairCheck` assumes that a process that is not stopped
goes on, and that its command ends or its deadline does, and, strongly, that an
operator runs `recover` for a task whenever its receipt is there again and again.

## The theorems

`ControlStoreProofs`, for any sets of identifiers, descriptors and any `MaxInt64`:
`TypeCorrect`, `RecoveryNeverFails`, `ReservationsNeverLeak`, `MutualExclusion`,
`FreedOnlyByVerdict` and `StoreImplementsScopeLock`. They rest on one inductive invariant,

    IInv == TypeOK /\ ActiveAttemptLinked /\ TaskOfOperation
                   /\ HoldersReserved /\ ReservationsHeld

Mutual exclusion alone is not inductive: it follows from the reservation table only
if whoever is in flight holds all of its scopes (`HoldersReserved`), and it
survives a release only if every reservation belongs to the active attempt of an
operation in flight (`ReservationsHeld`). That needs the active attempt to be a
row of that operation and generation (`ActiveAttemptLinked`), and, for collection,
that an operation outlives neither its task nor its rows (`TaskOfOperation`). The proof has
a lemma per action, and lemmas on `MoveOperation` and `Released` that they share.

`ControlStoreHistoryProofs`, under the same assumptions, is about what the store keeps of the
past: `NoGenerationTwice`, `RetriesAreJustified`, `DecisionsKeepTheirEvidence`,
`TerminalTasksStaySettled`, and the action properties `RevisionIsSufficient`,
`ClosedTasksAreFrozen` and `AuthorityIsLostForGood`, the last of which also says that a report without
authority moves nothing (`LateReportStep`). Their invariant is

    HInv == IInv /\ Numbered /\ ExecutingIsRunning /\ RetryIsJustified
                 /\ Linked /\ TasksSettled

`GenerationsDense` follows from `Numbered`: every generation up to the current one is taken, none
beyond it, none twice. To keep it, a start must take a fresh generation, and collection must
remove operations with all of their attempts. `RetryIsJustified` is inductive only with
`FreshUntilReady` (the first `MarkReady` needs no verdict, for there is no attempt yet), and only
because a verification is never rewritten and goes with its operation alone. `ExecutingIsRunning`
is what `BeginVerification` needs: it marks the active attempt as reported, which
would revive one that was uncertain. The lemmas of the action properties are about `StoreStep`, which is a step of `Next` or one
of the wider transactions of the runner, a grant together with its record; so they serve
`Runner` as well.

`RunnerProofs`, for any calls, requests, numbers of heartbeats and any set of faults:
`OnlyItsOwnOffer`, `RetriesAreLinked`, `ReturnedIsSettled`, `OverlapsAreJustified`, the
action property `BeatsAreInTime`, and `RunnerKeepsStore`: the promises of the store that are
listed there hold when its decisions are taken by calls of `Execute`. The invariant is

    RInv == HInv /\ RunnerTypeOK /\ CallsInv /\ GrantsInv /\ OutcomesInv
                 /\ ExecutingIsUnrevoked /\ RetryIsLinked /\ AllSettled

A call reads the operation and checks the request, its link to the attempt before included,
outside of the transaction of its offer. What it has read is still true when the offer commits because
revisions only grow, a decision without a new revision changes nothing (`RevisionIsSufficient`
at work), and the offer names the revision; `CallsInv` says that, place by place.
`GrantsInv` has the one call that was told of its start for each attempt; `OutcomesInv` ties the records of
results and losses to where that call is. `SettledOnReturn` needs that an attempt that is left executing
still has its authority (`ExecutingIsUnrevoked`, with `ExecutingIsRunning`), since a call whose
report or loss is refused for want of authority must be able to tell that somebody has decided. One assumption is added for
records (`RecordsApart` in `Runner`): the identifiers `<attempt>/accepted`, `/result`, `/lost` and
`/heartbeat/<n>` of runner.go are different for different purposes, and those of results and losses for different attempts.

`MessageRetentionProofs`, for any windows, messages and clock: `TypeCorrect`,
`AtMostOnce`, `ForgottenIsFenced`, `ReplayRecognised`, `DedupKeptWithWork`, from

    IInv == TypeOK /\ RowsUnderTheirIds /\ OwnersExist /\ Remembered /\ AppliedOnce

where `Remembered` carries the argument: a message that was applied is in the table, or
was issued before the floor and will never be admitted again.

`ProcessTransportProofs`, for any runs, any of them rogue, and any number of slots:
`TypeCorrect`, `SlotsCoverWork`, `IdleChannelIsHonest`, `IdleBarrierIsSound`,
`ClaimsAreClean`, from

    IInv == TypeOK /\ Phases /\ Channels /\ Awaited /\ Clean

`Phases` keeps slot, releaser and child in step with where `Run` is. `Channels` adds
what `IdleChannelHonest` lacks: `active` is the number of counted runs, so
the step that closes the channel is the last one's. With it `Awaited` carries a waiter's set
of runs over channels that close and open, and `Clean` the last frame through the pipe,
the end of the stream and the exit to the claim.

The theorems assume what the specifications state as `ASSUME`: that no identifier is the
empty one, that descriptors are well formed, that windows and bounds are natural numbers,
that the runs of the transport are finitely many.

`CollectorProofs`, for any tasks, messages, budgets of at least one row and pages of at
least one task: `BatchesImplementRetention`, with `BatchesKeepDedup` as its consequence from
`AtMostOnce`, `CallsAdvance`, and `BudgetHolds`, from `CollectorInvariant`: whatever the batch has put aside is
closed and past its retention time by the clock it has read, its messages name
only operations that go with it, and it has paid for what it takes and moved its cursor
behind what it has passed by. Operations are taken from the tasks of the page in
their order, which makes what was decided about one task still hold when the next is looked at.
For the budget `Paid` is added: the sum of what is left and of all marked rows is the budget
(`Spent`), and nothing is marked, and paid for, twice (`Fresh`), as tasks to come have no
marked row, orphans belong to no closed task, and a marked operation is not listed again.

`DatabaseProofs`, for any processes, versions, pools and calls: `PoolStaysClean`,
`SchemaStaysOwn` and `AdapterIsAtomic`, from `DInv`: a connection in a transaction has exactly one
job that is inside one; there is one write transaction at most; what a writer sees is the
file as it is now with its own rows, because the lock keeps the file still; what a reader has got
is part of what its transaction sees; and a job none of whose decisions failed still has
its transaction.
The refinement maps a call to its promise by its place, and a
commit that answers with an error to `Store` with an error heard.

`LocalCheckProofs`, for any identifiers, workspaces, calls, stops and retention times:
`CommandRunsOnceHolds`, `WorkspaceIsExclusiveHolds` and `VerdictsAreProvedHolds`, from

    IInv == TypeOK /\ RowsInv /\ CallsInv /\ OneOwner /\ OneCollector /\ Reserved

A check owns its task from `CreateTask` until the receipt is written or the operation
lost; it is the only owner (`OneOwner`), and where it stands says what its row, its command and
its file are (`Owning` in `CallsInv`). That nothing else decides meanwhile is an argument
about ages: the file of an owned task is none or of an earlier day, the report is none or of
today (`Fresh`), so a receipt that equals the report is not an old one. A receipt that
`gc` is about to remove is of an earlier day than the report of the task, if it has one, so
no verdict rests on it. The assumptions about the clock, identifiers and one `gc`
above are used.

Every safety invariant, action property and refinement that a run checks is proved. Only
model-checked is liveness, which with its fairness (`ENABLED`) is beyond the prover
used here: `EveryCallReturns`, `AttemptsSettle`, `EveryRunReturns`, `SlotsComeBack`,
`SettledTasksGo` and `ChecksFinish`. Induction over data is beyond it too: sums and counts
in the models are therefore cardinalities (`BudgetIsKept`) and functions, not folds.

## Not modelled

- SQLite: the statements of `records.go` and `recovery.go`, which read or write one row
  of a table of `ControlStore` each; `Maintain`, which vacuums; busy waiting, which ends in
  a lock or an error; the settings of a connection.
- The memory adapter's mutex and copies: a transaction of it is one step.
- Local check: parsing of specifications and comparison of inputs (a Boolean), `prepare`,
  the bounded output. A directory whose marker was interrupted is modelled, and stays unusable.
- Framing, JSON, field validation, bindings, environment: pure functions or I/O.
- The reference verifier: a pure function of a document.

## Plan

1. The memory adapter as a second implementation of `AtomicStore`, with its mutex and copies.
2. A runner whose worker is the process transport: that the slots of one cover the
   calls of the other.
3. Stronger forms of what is proved: that every call of `Runner` refines the store with
   transactions of several decisions, once `ControlStore` has such a step.
