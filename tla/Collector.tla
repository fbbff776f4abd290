------------------------------ MODULE Collector ------------------------------
(***************************************************************************)
(* The batches of Collect, internal/persistence/retention.go, as they are: *)
(* with a cursor over the closed tasks, a budget of tasks and one of rows, *)
(* and a caller that calls again and again with the cursor it was given.   *)
(*                                                                         *)
(* A batch is one transaction.  Its steps are told apart here, but what it *)
(* removes is collected in `batch` and leaves the tables with its commit;  *)
(* no other transaction commits meanwhile.  A batch that fails at any of   *)
(* its steps is one that fails before its commit.                          *)
(***************************************************************************)
EXTENDS MessageRetention, FiniteSets

CONSTANTS
  OpRows,     \* rows of the graph of an operation, its attempts not counted
  MaxTasks,   \* the budgets of a call
  MaxRows

ASSUME CollectorAssumption ==
  /\ OpRows \in [Ops -> Nat \ {0}]
  /\ {MaxTasks, MaxRows} \subseteq Nat \ {0}
  /\ \A S \in {Tasks, Ops, Attempts, MessageIds} : IsFiniteSet(S)

VARIABLES
  cursor,   \* After of the next call, NoTask for the start of a pass
  batch     \* the call in progress

collectorVars == <<cursor, batch>>

allVars == <<vars, collectorVars>>

(* A batch that has done nothing yet, for a caller whose clock shows n.      *)
Blank(place, n) ==
  [at |-> place, now |-> n, left |-> 0, page |-> {}, full |-> FALSE,
   task |-> NoTask, seen |-> {}, stuck |-> FALSE, next |-> NoTask,
   more |-> FALSE, orphans |-> {}, gone |-> {}, pruned |-> {}, dropped |-> {}]

NoBatch == Blank("idle", 0)

CollectorInit ==
  /\ Init
  /\ cursor = NoTask
  /\ batch = NoBatch

-----------------------------------------------------------------------------
At(place) == batch.at = place

(* The rows that DeleteOperationGraph removes.                              *)
GraphRows(o) == OpRows[o] + Cardinality({a \in Attempts : attempt[a] = o})

(* What the transaction sees.                                               *)
OpsLeft(t) == TaskOps(t) \ batch.gone

(* Mutant of SafeToForget: only the age of the messages counts.             *)
SafeByAge(t) == \A m \in TaskMessages(t) : Expired(m, batch.now)

SafeToForget(t) ==
  \A m \in TaskMessages(t) : /\ Expired(m, batch.now)
                             /\ NamedOps(m) \ batch.gone \subseteq TaskOps(t)

(* The first closed tasks behind the cursor whose retention time is over.   *)
Page(after, n) ==
  LET due == {t \in Tasks : t > after /\ PastRetention(t, n)} IN
  {t \in due : Cardinality({u \in due : u < t}) < MaxTasks}

(* As many of the rows as the budget allows; their order is up to their ids. *)
UpTo(limit, rows) ==
  {S \in SUBSET rows : \/ Cardinality(S) = limit
                       \/ S = rows /\ Cardinality(S) < limit}

(* The batch ends here, and asks to be called again with its cursor.        *)
More(b) == [b EXCEPT !.at = "end", !.more = TRUE, !.page = {}]

(* The batch is done with its task, removed or deferred.                    *)
PassBy(b, t) == [b EXCEPT !.at = "task", !.next = t, !.page = b.page \ {t}]

-----------------------------------------------------------------------------
(* The caller reads the clock, and asks for a batch.                        *)
Call ==
  /\ At("idle")
  /\ batch' = Blank("called", now)
  /\ UNCHANGED <<vars, cursor>>

(* The orphaned messages, and the page of tasks.                            *)
Begin ==
  /\ At("called")
  /\ \E orphans \in UpTo(MaxRows, {m \in MessageIds : Orphan(m) /\ Expired(m, batch.now)}) :
       LET left == MaxRows - Cardinality(orphans)
           page == Page(cursor, batch.now)
           b == [batch EXCEPT !.at = "task", !.orphans = orphans, !.left = left,
                              !.next = cursor] IN
       batch' = IF left = 0 THEN More(b)
                ELSE [b EXCEPT !.page = page, !.full = Cardinality(page) = MaxTasks]
  /\ UNCHANGED <<vars, cursor>>

IsNextTask(t) == t \in batch.page /\ \A u \in batch.page : t <= u

Defer(t) ==
  /\ At("task") /\ IsNextTask(t)
  /\ ~SafeToForget(t)
  /\ batch' = PassBy(batch, t)
  /\ UNCHANGED <<vars, cursor>>

Open(t) ==
  /\ At("task") /\ IsNextTask(t)
  /\ SafeToForget(t)
  /\ batch' = [batch EXCEPT !.at = "operations", !.task = t, !.seen = {},
                            !.stuck = FALSE]
  /\ UNCHANGED <<vars, cursor>>

(* TaskOperations lists no more than MaxRows operations.                    *)
Listed(o) ==
  /\ At("operations")
  /\ o \in TaskOps(batch.task) \ batch.seen
  /\ Cardinality(batch.seen) < MaxRows

TakeOperation(o) ==
  /\ Listed(o)
  /\ GraphRows(o) <= batch.left
  /\ batch' = [batch EXCEPT !.gone = batch.gone \cup {o}, !.seen = batch.seen \cup {o},
                            !.left = batch.left - GraphRows(o)]
  /\ UNCHANGED <<vars, cursor>>

(* A graph that no batch can remove does not stop the others.               *)
SkipOversized(o) ==
  /\ Listed(o)
  /\ GraphRows(o) > MaxRows
  /\ batch' = [batch EXCEPT !.seen = batch.seen \cup {o}, !.stuck = TRUE]
  /\ UNCHANGED <<vars, cursor>>

(* Mutant of StopAtOperation: the size of the whole budget does not matter. *)
StopAtAnyOperation(o) ==
  /\ Listed(o)
  /\ GraphRows(o) > batch.left
  /\ batch' = More(batch)
  /\ UNCHANGED <<vars, cursor>>

StopAtOperation(o) ==
  /\ Listed(o)
  /\ batch.left < GraphRows(o) /\ GraphRows(o) <= MaxRows
  /\ batch' = More(batch)
  /\ UNCHANGED <<vars, cursor>>

(* Mutant of LeaveOperations: an empty budget is not noticed.               *)
LeaveOperationsUnpaid ==
  /\ At("operations")
  /\ ~ \E o \in Ops : Listed(o)
  /\ batch' = IF OpsLeft(batch.task) = {} THEN [batch EXCEPT !.at = "messages"]
              ELSE IF batch.stuck THEN PassBy(batch, batch.task)
              ELSE More(batch)
  /\ UNCHANGED <<vars, cursor>>

LeaveOperations ==
  /\ At("operations")
  /\ ~ \E o \in Ops : Listed(o)
  /\ batch' = IF OpsLeft(batch.task) = {}
              THEN IF batch.left = 0 THEN More(batch)
                                     ELSE [batch EXCEPT !.at = "messages"]
              ELSE IF batch.stuck THEN PassBy(batch, batch.task)
              ELSE More(batch)
  /\ UNCHANGED <<vars, cursor>>

(* The messages of a task without operations, and then the task itself.     *)
DropTask ==
  /\ At("messages")
  /\ \E pruned \in UpTo(batch.left, {m \in TaskMessages(batch.task) : Expired(m, batch.now)}) :
       LET b == [batch EXCEPT !.pruned = batch.pruned \cup pruned,
                              !.left = batch.left - Cardinality(pruned)]
           d == [PassBy(b, b.task) EXCEPT !.dropped = b.dropped \cup {b.task},
                                          !.left = b.left - 1] IN
       batch' = IF pruned # TaskMessages(b.task) \/ b.left = 0 THEN More(b)
                ELSE IF d.left = 0 THEN More(d)
                ELSE d
  /\ UNCHANGED <<vars, cursor>>

(* Mutant of EndPage: a pass is over when its page is.                      *)
EndPass ==
  /\ At("task") /\ batch.page = {}
  /\ batch' = [batch EXCEPT !.at = "end", !.more = FALSE, !.next = NoTask]
  /\ UNCHANGED <<vars, cursor>>

(* The page is done: a full one may not have been the last of the pass.     *)
EndPage ==
  /\ At("task") /\ batch.page = {}
  /\ batch' = [batch EXCEPT !.at = "end", !.more = batch.full,
                            !.next = IF batch.full THEN batch.next ELSE NoTask]
  /\ UNCHANGED <<vars, cursor>>

(* The commit; when its answer is lost, the caller keeps its old cursor.    *)
Commit(lost) ==
  /\ At("end")
  /\ floor' = NewFloor(batch.now)
  /\ message' = [m \in MessageIds |->
                   IF m \in batch.orphans \cup batch.pruned THEN NoMessage ELSE message[m]]
  /\ op' = [o \in Ops |-> IF o \in batch.gone THEN NoTask ELSE op[o]]
  /\ attempt' = [a \in Attempts |->
                   IF attempt[a] \in batch.gone THEN NoID ELSE attempt[a]]
  /\ task' = [t \in Tasks |-> IF t \in batch.dropped THEN NoTaskRow ELSE task[t]]
  /\ cursor' = IF lost THEN cursor ELSE batch.next
  /\ batch' = NoBatch
  /\ UNCHANGED <<now, applied>>

Fail ==
  /\ At("end")
  /\ batch' = NoBatch
  /\ UNCHANGED <<vars, cursor>>

-----------------------------------------------------------------------------
(* The other transactions, and the clock.                                   *)
Others ==
  /\ \/ At("idle") \/ At("called")
  /\ \/ \E env \in Envelopes : ProcessMessage(env)
     \/ \E t \in Tasks : CreateTask(t) \/ FinalizeTask(t)
     \/ \E o \in Ops, t \in Tasks : CreateOperation(o, t)
     \/ \E a \in Attempts, o \in Ops : StartAttempt(a, o)
     \/ \E n \in Times : SetClock(n)
  /\ UNCHANGED collectorVars

Step ==
  \/ Begin
  \/ \E t \in Tasks : Defer(t) \/ Open(t)
  \/ \E o \in Ops : TakeOperation(o) \/ SkipOversized(o) \/ StopAtOperation(o)
  \/ LeaveOperations
  \/ DropTask
  \/ EndPage

CollectorNext ==
  \/ Call
  \/ Step
  \/ \E lost \in BOOLEAN : Commit(lost)
  \/ Fail
  \/ Others

CollectorSpec == CollectorInit /\ [][CollectorNext]_allVars

(* The operator calls again, a transaction goes on, and not every batch     *)
(* fails.  Nothing is assumed of the clock.                                 *)
FairCollector ==
  CollectorSpec /\ WF_allVars(Call) /\ WF_allVars(Step) /\ SF_allVars(Commit(FALSE))

-----------------------------------------------------------------------------
(* The rows of the graphs of operations, those of their attempts apart.     *)
OperationRows(ops) == UNION {{o} \X (1..OpRows[o]) : o \in ops}

AttemptsOf(ops) == {a \in Attempts : attempt[a] \in ops}

(* A batch removes no more rows than its caller allows, and accounts for    *)
(* each of them once; it asks for messages only with a budget for them, as  *)
(* the adapters refuse a limit of zero, and with it the batch.              *)
BudgetIsKept ==
  batch.at \notin {"idle", "called"} =>
    /\ batch.left >= 0
    /\ At("messages") => batch.left > 0
    /\ MaxRows = batch.left + Cardinality(OperationRows(batch.gone))
                   + Cardinality(AttemptsOf(batch.gone))
                   + Cardinality(batch.orphans \cup batch.pruned)
                   + Cardinality(batch.dropped)

(* A batch that asks for another call has got somewhere: it has removed a   *)
(* row, or its cursor is behind the one it was given.                       *)
CallsGetSomewhere ==
  At("end") /\ batch.more => batch.left < MaxRows \/ batch.next > cursor

(* A task waits for others: it is still in use, or one of its operations is *)
(* beyond every budget, or a message of it names an operation of a task     *)
(* that waits; a circle of such messages waits for itself.                  *)
Waits(t) ==
  \E S \in SUBSET {u \in Tasks : task[u] # NoTaskRow} :
    /\ t \in S
    /\ \A u \in S :
         \/ ~PastRetention(u, now)
         \/ \E m \in TaskMessages(u) : ~Expired(m, now)
         \/ \E o \in TaskOps(u) : GraphRows(o) > MaxRows
         \/ \E m \in TaskMessages(u) : \E o \in NamedOps(m) : op[o] \in S \ {u}

(* Repeated calls remove every closed task in the end, in whatever order    *)
(* its operations, its messages and other tasks use the budgets up; what    *)
(* stays for ever is what waits.                                            *)
SettledTasksGo ==
  \A t \in Tasks : []<>(task[t] = NoTaskRow \/ Waits(t))

(* The batches do what MessageRetention says of collection.                 *)
ImplementsRetention == Spec
=============================================================================
