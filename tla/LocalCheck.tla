----------------------------- MODULE LocalCheck -----------------------------
(***************************************************************************)
(* The local project check of internal/localcheck and cmd/acp: calls of    *)
(* check, status, recover and gc, each a process of its own, that share a  *)
(* state directory with a marker of its owner, the receipts and the store. *)
(* A call, its context or its machine may end between any two steps; the   *)
(* command it has started then runs on.                                    *)
(*                                                                         *)
(* A step is one file operation or one transaction of the store.  Of the   *)
(* store a task and its only operation are kept, with the scope it         *)
(* reserves and the digests of its records; ControlStore and Runner have   *)
(* the rest.  Files and records are changed by these calls only.           *)
(***************************************************************************)
EXTENDS Integers

CONSTANTS
  Ids,                \* task identifiers
  Configs, Workspaces,
  WorkspaceOf,        \* the workspace of a config
  Exits,              \* how a command may end: exit code, inputs unchanged
  Calls,              \* processes of the command line
  NoId, NoConfig,
  ReplayWindow, TerminalRetention, ReceiptRetention,
  MaxTime,            \* bounds: the clock,
  MaxChecks,          \* calls of check,
  MaxStops            \* and calls that end before they are through

ASSUME LocalCheckAssumption ==
  /\ WorkspaceOf \in [Configs -> Workspaces]
  /\ Exits \subseteq [code : Nat, match : BOOLEAN]
  /\ NoId \notin Ids /\ NoConfig \notin Configs
  /\ {ReplayWindow, TerminalRetention, ReceiptRetention, MaxTime,
      MaxChecks, MaxStops} \subseteq Nat

Times == 0..MaxTime

(* The fields that tell receipts of a task apart.                           *)
Receipts == [config : Configs, exit : Exits, finished : Times]
NoReceipt == [config |-> NoConfig, exit |-> [code |-> 0, match |-> FALSE],
              finished |-> 0]
Partial == [config |-> NoConfig, exit |-> [code |-> 0, match |-> TRUE],
            finished |-> 0]                         \* a write was interrupted

OpStates == {"none", "proposed", "ready", "executing", "verifying",
             "unknown_outcome", "succeeded", "failed"}
Decided == {"succeeded", "failed"}

NoRow == [task |-> "absent", closed |-> 0, op |-> "none", config |-> NoConfig,
          intent |-> NoConfig, report |-> NoReceipt, observed |-> NoReceipt]

NoCall == [at |-> "idle", command |-> "none", id |-> NoId, config |-> NoConfig,
           seen |-> "none", receipt |-> NoReceipt]

VARIABLES
  now,
  root,     \* the state directory: "empty", "partial" marker, "marked" or "open"
  rows,     \* the store, by task
  file,     \* the receipts
  call,     \* the processes
  child,    \* commands that are running, by task
  runs,     \* history: starts of the command for the task as it is now,
  outcome,  \*   and the receipt of the command that has ended
  used,     \* history: identifiers that a task has had,
  broken,   \*   and those of tasks that their check has left behind
  checks, stops

vars == <<now, root, rows, file, call, child, runs, outcome, used, broken, checks, stops>>

Init ==
  /\ now = 0
  /\ root = "empty"
  /\ rows = [i \in Ids |-> NoRow]
  /\ file = [i \in Ids |-> NoReceipt]
  /\ call = [c \in Calls |-> NoCall]
  /\ child = [i \in Ids |-> FALSE]
  /\ runs = [i \in Ids |-> 0]
  /\ outcome = [i \in Ids |-> NoReceipt]
  /\ used = {} /\ broken = {}
  /\ checks = 0 /\ stops = 0

-----------------------------------------------------------------------------
At(c, place) == call[c].at = place
Row(c) == rows[call[c].id]
File(c) == file[call[c].id]

Complete(f) == f \notin {NoReceipt, Partial}

(* Where a call goes on.                                                    *)
Goto(c, place) == [call[c] EXCEPT !.at = place]

(* A step of a call: it goes on, or returns its error.                      *)
Continue(c, allowed, goal) ==
  call' = [call EXCEPT ![c] = IF allowed THEN goal ELSE NoCall]

(* A transaction about the task of a call, applied or refused.              *)
Transact(c, allowed, row, goal) ==
  /\ rows' = IF allowed THEN [rows EXCEPT ![call[c].id] = row] ELSE rows
  /\ Continue(c, allowed, goal)
  /\ UNCHANGED <<now, root, file, child, outcome, checks, stops>>

(* A step that only reads.                                                  *)
Look(c, allowed, goal) ==
  /\ Continue(c, allowed, goal)
  /\ UNCHANGED <<now, root, rows, file, child, runs, outcome, used, broken, checks, stops>>

-----------------------------------------------------------------------------
(* The operator.  Identifiers are not used again, says the quickstart; here *)
(* they may be, but only when no other call than gc is about the earlier    *)
(* task any more.                                                           *)
Opening == {"mark", "writeMark", "open", "begin", "task"}

Reusable(i) ==
  i \in used =>
    \A d \in Calls : call[d].id = i => call[d].command = "gc" \/ call[d].at \in Opening

StartCheck(c, i, config) ==
  /\ At(c, "idle") /\ checks < MaxChecks
  /\ call' = [call EXCEPT ![c] = [NoCall EXCEPT !.at = "mark", !.command = "check",
                                                !.id = i, !.config = config]]
  /\ checks' = checks + 1
  /\ UNCHANGED <<now, root, rows, file, child, runs, outcome, used, broken, stops>>

(* The others open what they find, which no call takes away, and take their *)
(* first step; a call that can do nothing returns at once.                  *)
Found(i, command, place) ==
  [NoCall EXCEPT !.at = place, !.command = command, !.id = i]

CanStart(c) == At(c, "idle") /\ root = "open"

(* status: an operation that is not decided is reported as it is.           *)
StartStatus(c, i) ==
  /\ CanStart(c) /\ rows[i].op \in Decided
  /\ Look(c, TRUE, [Found(i, "status", "confirm") EXCEPT !.seen = rows[i].op])

(* recover loads the receipt.                                               *)
StartRecover(c, i) ==
  /\ CanStart(c) /\ Complete(file[i])
  /\ Look(c, TRUE, [Found(i, "recover", "see") EXCEPT !.receipt = file[i]])

(* gc removes closed tasks that are old enough, as far as its batch gets.   *)
(* One gc at a time.                                                        *)
StartCollect(c, i, gone) ==
  /\ CanStart(c) /\ \A d \in Calls : call[d].command # "gc"
  /\ \A j \in gone : /\ rows[j].task = "closed"
                     /\ rows[j].closed < now - TerminalRetention
  /\ rows' = [j \in Ids |-> IF j \in gone THEN NoRow ELSE rows[j]]
  /\ call' = [call EXCEPT ![c] = Found(i, "gc", "loadOld")]
  /\ UNCHANGED <<now, root, file, child, runs, outcome, used, broken, checks, stops>>

(* Calls are given 310 seconds, retention counts in days.                   *)
Tick ==
  /\ now < MaxTime
  /\ \A c \in Calls : At(c, "idle")
  /\ now' = now + 1
  /\ UNCHANGED <<root, rows, file, call, child, runs, outcome, used, broken, checks, stops>>

(* The process ends, or any of its steps fails for a reason of its own.     *)
Stop(c) ==
  /\ ~At(c, "idle") /\ stops < MaxStops
  /\ call' = [call EXCEPT ![c] = NoCall]
  /\ stops' = stops + 1
  /\ broken' = IF call[c].command = "check" /\ call[c].at \notin Opening
                 THEN broken \cup {call[c].id} ELSE broken
  /\ UNCHANGED <<now, root, rows, file, child, runs, outcome, used, checks>>

-----------------------------------------------------------------------------
(* open, for check: it makes a directory its own only when it is empty.     *)
Mark(c) ==
  /\ At(c, "mark")
  /\ root' = IF root = "empty" THEN "partial" ELSE root
  /\ Continue(c, TRUE, Goto(c, IF root = "empty" THEN "writeMark"
                                                               ELSE "open"))
  /\ UNCHANGED <<now, rows, file, child, runs, outcome, used, broken, checks, stops>>

WriteMark(c) ==
  /\ At(c, "writeMark")
  /\ root' = "marked"
  /\ Continue(c, TRUE, Goto(c, "open"))
  /\ UNCHANGED <<now, rows, file, child, runs, outcome, used, broken, checks, stops>>

(* The marker is read back, for the receipts and the store to be made.      *)
Open(c) ==
  LET owned == root \in {"marked", "open"} IN
  /\ At(c, "open")
  /\ root' = IF owned THEN "open" ELSE root
  /\ Continue(c, owned, Goto(c, "begin"))
  /\ UNCHANGED <<now, rows, file, child, runs, outcome, used, broken, checks, stops>>

-----------------------------------------------------------------------------
(* Check.                                                                   *)
Begin(c) ==
  /\ At(c, "begin")
  /\ Look(c, Row(c).task = "absent", Goto(c, "task"))

CreateTask(c) ==
  LET i == call[c].id
      new == Row(c).task = "absent" IN
  /\ At(c, "task")
  /\ new => Reusable(i)
  /\ Transact(c, new, [NoRow EXCEPT !.task = "open"], Goto(c, "operation"))
  /\ runs' = IF new THEN [runs EXCEPT ![i] = 0] ELSE runs
  /\ used' = used \cup {i}
  /\ broken' = IF new THEN broken \ {i} ELSE broken

CreateOperation(c) ==
  /\ At(c, "operation")
  /\ Transact(c, Row(c).op = "none",
              [Row(c) EXCEPT !.op = "proposed", !.config = call[c].config], Goto(c, "intend"))
  /\ UNCHANGED <<runs, used, broken>>

Intend(c) ==
  /\ At(c, "intend")
  /\ Transact(c, TRUE, [Row(c) EXCEPT !.intent = call[c].config], Goto(c, "ready"))
  /\ UNCHANGED <<runs, used, broken>>

MarkReady(c) ==
  /\ At(c, "ready")
  /\ Transact(c, Row(c).op = "proposed", [Row(c) EXCEPT !.op = "ready"], Goto(c, "offer"))
  /\ UNCHANGED <<runs, used, broken>>

(* Mutant of Reserving: a lost operation gives its workspace back.          *)
ReservingWhileKnown == {"executing", "verifying"}

(* The operations that hold their workspace.                                *)
Reserving == {"executing", "verifying", "unknown_outcome"}

Free(config) ==
  \A i \in Ids : rows[i].op \in Reserving =>
                   WorkspaceOf[rows[i].config] # WorkspaceOf[config]

(* Execute: the offer starts the attempt, or the workspace is in use.       *)
Offer(c) ==
  /\ At(c, "offer")
  /\ Transact(c, Row(c).op = "ready" /\ Free(Row(c).config),
              [Row(c) EXCEPT !.op = "executing"], Goto(c, "run"))
  /\ broken' = IF Free(Row(c).config) THEN broken ELSE broken \cup {call[c].id}
  /\ UNCHANGED <<runs, used>>

(* The worker's last checkpoint, and the command.                           *)
Run(c) ==
  LET i == call[c].id IN
  /\ At(c, "run")
  /\ Row(c).op = "executing"
  /\ call' = [call EXCEPT ![c].at = "running"]
  /\ child' = [child EXCEPT ![i] = TRUE]
  /\ runs' = [runs EXCEPT ![i] = runs[i] + 1]
  /\ UNCHANGED <<now, root, rows, file, outcome, used, broken, checks, stops>>

(* The checkpoint refuses, or the inputs or the program have changed.       *)
RunRefused(c) ==
  /\ At(c, "run")
  /\ Look(c, TRUE, Goto(c, "lose"))

(* The command exits, and the receipt says how.                             *)
Finish(c, exit) ==
  LET i == call[c].id
      receipt == [config |-> call[c].config, exit |-> exit, finished |-> now] IN
  /\ At(c, "running") /\ child[i]
  /\ call' = [call EXCEPT ![c].at = "report", ![c].receipt = receipt]
  /\ child' = [child EXCEPT ![i] = FALSE]
  /\ outcome' = [outcome EXCEPT ![i] = receipt]
  /\ UNCHANGED <<now, root, rows, file, runs, used, broken, checks, stops>>

(* Mutant of GiveUp: the command is started once more.                      *)
GiveUpAndRetry(c, dead) ==
  /\ At(c, "running")
  /\ call' = [call EXCEPT ![c].at = "run"]
  /\ child' = [child EXCEPT ![call[c].id] = ~dead]
  /\ UNCHANGED <<now, root, rows, file, runs, outcome, used, broken, checks, stops>>

(* Too late or too much output: it is killed, and not for ever waited for.  *)
GiveUp(c, dead) ==
  /\ At(c, "running")
  /\ call' = [call EXCEPT ![c].at = "lose"]
  /\ child' = [child EXCEPT ![call[c].id] = ~dead]
  /\ UNCHANGED <<now, root, rows, file, runs, outcome, used, broken, checks, stops>>

(* A command that no process waits for ends unseen.                         *)
EndUnseen(i) ==
  /\ child[i] /\ \A c \in Calls : ~(At(c, "running") /\ call[c].id = i)
  /\ child' = [child EXCEPT ![i] = FALSE]
  /\ UNCHANGED <<now, root, rows, file, call, runs, outcome, used, broken, checks, stops>>

(* The report; it is a loss when its answer is lost.                        *)
Report(c, lost) ==
  /\ At(c, "report") /\ Row(c).op = "executing"
  /\ Transact(c, TRUE,
              [Row(c) EXCEPT !.op = "verifying", !.report = call[c].receipt],
              Goto(c, IF lost THEN "lose" ELSE "save"))
  /\ UNCHANGED <<runs, used, broken>>

ReportRefused(c) ==
  /\ At(c, "report")
  /\ Look(c, TRUE, Goto(c, "lose"))

Lose(c) ==
  /\ At(c, "lose")
  /\ rows' = [rows EXCEPT ![call[c].id].op = "unknown_outcome"]
  /\ call' = [call EXCEPT ![c] = NoCall]
  /\ UNCHANGED <<now, root, file, child, runs, outcome, used, broken, checks, stops>>

(* saveReceipt never replaces a file, not even a partial one.               *)
CreateReceipt(c) ==
  LET new == File(c) = NoReceipt IN
  /\ At(c, "save")
  /\ file' = IF new THEN [file EXCEPT ![call[c].id] = Partial] ELSE file
  /\ Continue(c, new, Goto(c, "writeReceipt"))
  /\ broken' = IF new THEN broken ELSE broken \cup {call[c].id}
  /\ UNCHANGED <<now, root, rows, child, runs, outcome, used, checks, stops>>

WriteReceipt(c) ==
  /\ At(c, "writeReceipt")
  /\ file' = [file EXCEPT ![call[c].id] = call[c].receipt]
  /\ Continue(c, TRUE, [Goto(c, "load") EXCEPT !.config = NoConfig,
                                       !.receipt = NoReceipt])
  /\ UNCHANGED <<now, root, rows, child, runs, outcome, used, broken, checks, stops>>

-----------------------------------------------------------------------------
(* verify, the end of check and the whole of recover.                       *)
Load(c) ==
  /\ At(c, "load")
  /\ Look(c, Complete(File(c)), [Goto(c, "see") EXCEPT !.receipt = File(c)])

(* The receipt is that of the intent and of the worker's report, which do   *)
(* not change any more.                                                     *)
Matches(c) ==
  /\ Row(c).op = "verifying"
  /\ Row(c).intent = call[c].receipt.config
  /\ Row(c).report = call[c].receipt

(* Mutant of See: a decided operation needs no more verification.           *)
SeeVerifying(c) ==
  /\ At(c, "see")
  /\ Look(c, Matches(c), Goto(c, "verify"))

See(c) ==
  LET decided == Row(c).op \in Decided IN
  /\ At(c, "see")
  /\ Look(c, decided \/ Matches(c),
          IF decided THEN [Goto(c, "seeTask") EXCEPT !.receipt = NoReceipt]
                     ELSE Goto(c, "verify"))

Verdict(receipt) ==
  IF receipt.exit.code = 0 /\ receipt.exit.match THEN "succeeded" ELSE "failed"

(* The message of the verification is as old as the receipt; a second one   *)
(* is a duplicate.                                                          *)
Verify(c) ==
  LET r == call[c].receipt
      known == Row(c).observed = r
      new == Row(c).observed = NoReceipt /\ Row(c).op = "verifying" IN
  /\ At(c, "verify")
  /\ Transact(c, r.finished >= now - ReplayWindow /\ (known \/ new),
              IF known THEN Row(c)
              ELSE [Row(c) EXCEPT !.op = Verdict(r), !.observed = r],
              [Goto(c, "seeTask") EXCEPT !.receipt = NoReceipt])
  /\ UNCHANGED <<runs, used, broken>>

SeeTask(c) ==
  /\ At(c, "seeTask")
  /\ Look(c, Row(c).task # "absent",
          Goto(c, IF Row(c).task = "closed" THEN "status" ELSE "finalize"))

Finalize(c) ==
  /\ At(c, "finalize")
  /\ Transact(c, Row(c).task = "open" /\ Row(c).op \in Decided,
              [Row(c) EXCEPT !.task = "closed", !.closed = now], Goto(c, "status"))
  /\ UNCHANGED <<runs, used, broken>>

-----------------------------------------------------------------------------
(* status, at the end of check and recover too.                             *)
Status(c) ==
  /\ At(c, "status")
  /\ Look(c, Row(c).op \in Decided,
          [Goto(c, "confirm") EXCEPT !.seen = Row(c).op])

Confirm(c) ==
  /\ At(c, "confirm")
  /\ Look(c, Complete(File(c)) /\ Row(c).observed = File(c),
          [Goto(c, "done") EXCEPT !.receipt = File(c)])

Answer(c) ==
  /\ At(c, "done")
  /\ Look(c, FALSE, NoCall)

-----------------------------------------------------------------------------
(* gc removes the receipt it was told, if its task is gone.                 *)
LoadOld(c) ==
  /\ At(c, "loadOld")
  /\ Look(c, Complete(File(c)), [Goto(c, "seeGone") EXCEPT !.receipt = File(c)])

(* Mutant of SeeGone: only the age of the receipt counts.                   *)
SeeOld(c) ==
  /\ At(c, "seeGone")
  /\ Look(c, call[c].receipt.finished < now - ReceiptRetention,
          [Goto(c, "remove") EXCEPT !.receipt = NoReceipt])

SeeGone(c) ==
  /\ At(c, "seeGone")
  /\ Look(c, /\ Row(c).task = "absent"
             /\ call[c].receipt.finished < now - ReceiptRetention,
          [Goto(c, "remove") EXCEPT !.receipt = NoReceipt])

RemoveReceipt(c) ==
  /\ At(c, "remove")
  /\ file' = [file EXCEPT ![call[c].id] = NoReceipt]
  /\ call' = [call EXCEPT ![c] = NoCall]
  /\ UNCHANGED <<now, root, rows, child, runs, outcome, used, broken, checks, stops>>

-----------------------------------------------------------------------------
Progress(c) ==
  \/ Mark(c) \/ WriteMark(c) \/ Open(c)
  \/ Begin(c) \/ CreateTask(c) \/ CreateOperation(c) \/ Intend(c) \/ MarkReady(c)
  \/ Offer(c) \/ Run(c) \/ RunRefused(c)
  \/ \E exit \in Exits : Finish(c, exit)
  \/ \E dead \in BOOLEAN : GiveUp(c, dead)
  \/ \E lost \in BOOLEAN : Report(c, lost)
  \/ ReportRefused(c) \/ Lose(c)
  \/ CreateReceipt(c) \/ WriteReceipt(c)
  \/ Load(c) \/ See(c) \/ Verify(c) \/ SeeTask(c) \/ Finalize(c)
  \/ Status(c) \/ Confirm(c) \/ Answer(c)
  \/ LoadOld(c) \/ SeeGone(c) \/ RemoveReceipt(c)

Next ==
  \/ \E c \in Calls, i \in Ids :
       \/ \E config \in Configs : StartCheck(c, i, config)
       \/ StartStatus(c, i) \/ StartRecover(c, i)
       \/ \E gone \in SUBSET Ids : StartCollect(c, i, gone)
  \/ \E c \in Calls : Progress(c) \/ Stop(c)
  \/ \E i \in Ids : EndUnseen(i)
  \/ Tick

Spec == Init /\ [][Next]_vars

(* A process goes on, its command ends or is given up at its deadline, and  *)
(* the operator tries to recover every task again and again.                *)
FairCheck ==
  /\ Spec
  /\ \A c \in Calls : WF_vars(Progress(c))
  /\ \A i \in Ids : SF_vars(\E c \in Calls : StartRecover(c, i))

-----------------------------------------------------------------------------
(* The command of a check is started at most once, whatever happens to its  *)
(* process: a repeated check, a lost answer, a timeout or a recovery does   *)
(* not start it again, and it is not started for a task that has no         *)
(* operation with a reserved workspace.                                     *)
CommandRunsOnce ==
  \A i \in Ids : /\ runs[i] <= 1
                 /\ child[i] => rows[i].op \in {"executing", "unknown_outcome"}

(* Two commands never run in one workspace at a time, also when nobody      *)
(* waits for one of them any more.                                          *)
WorkspaceIsExclusive ==
  \A i, j \in Ids :
    child[i] /\ child[j] /\ i # j =>
      WorkspaceOf[rows[i].config] # WorkspaceOf[rows[j].config]

(* A verdict rests on the receipt of the command that was run for it, which *)
(* is still there while the task is; so does an answer.  A receipt that is  *)
(* left from an earlier task of the same name decides nothing.              *)
VerdictsAreProved ==
  /\ \A i \in Ids : rows[i].op \in Decided =>
       /\ runs[i] = 1
       /\ rows[i].observed = outcome[i]
       /\ file[i] = outcome[i]
       /\ rows[i].op = Verdict(outcome[i])
  /\ \A c \in Calls : At(c, "done") =>
       /\ call[c].seen = Verdict(call[c].receipt)
       /\ Row(c).task # "absent" => call[c].receipt = outcome[call[c].id]

(* A task that no call can finish any more, and why: its outcome is not     *)
(* known; or its check has left it behind (stopped, with its workspace in   *)
(* use, or with a receipt of an earlier task in its way) before its report  *)
(* and its receipt were complete, or after that, but recover came too late  *)
(* for the message of the verification.                                     *)
Interrupted(i) ==
  LET r == rows[i] IN
  /\ r.task = "open"
  /\ \A c \in Calls : call[c].command = "check" => call[c].id # i
  /\ \/ r.op = "unknown_outcome"
     \/ /\ i \in broken
        /\ r.op \notin Decided
        /\ r.op = "verifying" => \/ file[i] # r.report
                               \/ r.report.finished < now - ReplayWindow

(* Every check ends, and every task is closed in the end, if need be by     *)
(* recover: from a complete receipt on, a stop of any call at any step is   *)
(* made up for within the replay window, and what was not stopped, lost or  *)
(* kept out of its workspace never needs that.                              *)
ChecksFinish ==
  \A i \in Ids : []<>(rows[i].task # "open" \/ Interrupted(i))
=============================================================================
