--------------------------- MODULE CollectorProofs ---------------------------
(***************************************************************************)
(* Proofs about Collector, for any tables, budgets and clock.              *)
(***************************************************************************)
EXTENDS Collector, MessageRetentionProofs, FiniteSetTheorems

Running == {"task", "operations", "messages", "end"}

Batches ==
  [at : {"idle", "called"} \cup Running, now : Times, left : Int,
   page : SUBSET Tasks, full : BOOLEAN, task : Tasks \cup {NoTask},
   seen : SUBSET Ops, stuck : BOOLEAN, next : Nat, more : BOOLEAN,
   orphans : SUBSET MessageIds, gone : SUBSET Ops, pruned : SUBSET MessageIds,
   dropped : SUBSET Tasks]

(* What the batch has marked may be removed, in one Collect.                *)
Marked(b) ==
  /\ \A m \in b.orphans : Orphan(m) /\ Expired(m, b.now)
  /\ \A o \in b.gone : op[o] # NoTask /\ Collectable(op[o], b.gone, b.now)
  /\ \A m \in b.pruned : \E t \in Tasks : /\ m \in TaskMessages(t)
                                        /\ Collectable(t, b.gone, b.now)
                                        /\ TaskOps(t) \subseteq b.gone
  /\ \A t \in b.dropped : /\ Collectable(t, b.gone, b.now)
                          /\ TaskOps(t) \subseteq b.gone
                          /\ TaskMessages(t) \subseteq b.pruned

(* The page holds tasks that are due, and operations are only taken from    *)
(* tasks before those still to come, which decides about references.        *)
Paged(b) ==
  /\ \A t \in b.page : PastRetention(t, b.now) /\ t > cursor
  /\ b.at = "task" => \A o \in b.gone, t \in b.page : op[o] < t
  /\ b.at \in {"operations", "messages"} =>
       /\ b.task \in b.page
       /\ \A t \in b.page : b.task <= t
       /\ \A o \in b.gone : op[o] <= b.task
       /\ Collectable(b.task, b.gone, b.now)
  /\ b.at = "messages" => TaskOps(b.task) \subseteq b.gone

(* How far the batch has come: what is marked has been paid for, and the    *)
(* cursor is behind the tasks that were passed by.                          *)
Advanced(b) ==
  /\ b.left <= MaxRows
  /\ b.gone # {} => b.left < MaxRows
  /\ b.at = "operations" /\ ~b.stuck => b.seen \subseteq b.gone
  /\ b.full /\ b.at # "end" => b.page # {} \/ b.next > cursor
  /\ b.at = "end" /\ b.more => b.left < MaxRows \/ b.next > cursor

BInv ==
  /\ batch \in Batches
  /\ cursor \in Nat
  /\ batch.at = "called" => batch = Blank("called", batch.now)
  /\ batch.at \in Running => Marked(batch) /\ Paged(batch) /\ Advanced(batch)

CInv == IInv /\ BInv

-----------------------------------------------------------------------------
(* Marking more operations does not make a task less collectable.           *)
LEMMA CollectableGrows ==
  ASSUME NEW t, NEW gone, NEW more, NEW n, gone \subseteq more,
         Collectable(t, gone, n)
  PROVE  Collectable(t, more, n)
BY DEF Collectable

(* What SafeToForget says of the next task is what Collectable asks.        *)
LEMMA SafeIsCollectable ==
  ASSUME CInv, NEW t \in batch.page, batch.at = "task", SafeToForget(t)
  PROVE  Collectable(t, batch.gone, batch.now)
<1>1. PastRetention(t, batch.now) /\ \A o \in batch.gone : op[o] < t
  BY DEF CInv, BInv, Running, Paged
<1>. QED
  BY <1>1 DEF SafeToForget, Collectable, NamedOps, TaskOps

(* A step of the batch leaves the tables alone, so that what it marks can   *)
(* be judged by the tables it began with.                                   *)
LEMMA StepInvariant ==
  ASSUME CInv, UNCHANGED <<vars, cursor>>, batch' \in Batches,
         batch'.at # "called", Marked(batch'), Paged(batch'), Advanced(batch')
  PROVE  CInv'
<1>1. IInv'
  BY NextInvariant DEF CInv
<1>2. UNCHANGED <<now, floor, task, op, attempt, message, cursor>>
  BY DEF vars
<1>3. Marked(batch)'
  BY <1>2 DEF Marked, Orphan, Expired, NewFloor, Collectable, PastRetention,
              NamedOps, TaskOps, TaskMessages
<1>4. Paged(batch)'
  BY <1>2 DEF Paged, Expired, NewFloor, Collectable, PastRetention, NamedOps,
              TaskOps, TaskMessages
<1>5. Advanced(batch)'
  BY <1>2 DEF Advanced
<1>. QED
  BY <1>1, <1>2, <1>3, <1>4, <1>5 DEF CInv, BInv

-----------------------------------------------------------------------------
(* Sizes are natural numbers, and a graph has at least one row.             *)
LEMMA Sizes ==
  /\ \A S \in SUBSET MessageIds : Cardinality(S) \in Nat
  /\ \A S \in SUBSET Tasks : Cardinality(S) \in Nat
  /\ \A o \in Ops : GraphRows(o) \in Nat /\ GraphRows(o) >= 1
<1>1. ASSUME NEW T \in {Tasks, Ops, Attempts, MessageIds}, NEW S \in SUBSET T
      PROVE  Cardinality(S) \in Nat
  <2>1. IsFiniteSet(T)
    BY CollectorAssumption
  <2>. QED
    BY <2>1, FS_Subset, FS_CardinalityType
<1>2. ASSUME NEW o \in Ops
      PROVE  GraphRows(o) \in Nat /\ GraphRows(o) >= 1
  <2>1. Cardinality({a \in Attempts : attempt[a] = o}) \in Nat
    BY <1>1
  <2>2. OpRows[o] \in Nat /\ OpRows[o] >= 1
    BY CollectorAssumption
  <2>. QED
    BY <2>1, <2>2 DEF GraphRows
<1>. QED
  BY <1>1, <1>2

(* A call, or none, starts with nothing marked.                             *)
LEMMA BlankMarksNothing ==
  ASSUME NEW n \in Times, NEW place \in {"idle", "called"}
  PROVE  LET b == Blank(place, n) IN
         /\ b \in Batches /\ b.at = place /\ b.now = n
         /\ b.page = {} /\ b.full = FALSE /\ b.orphans = {}
         /\ b.gone = {} /\ b.pruned = {} /\ b.dropped = {}
BY DEF Blank, Batches, NoTask

LEMMA CallInvariant == ASSUME CInv, Call PROVE CInv'
<1>1. IInv'
  BY NextInvariant DEF CInv, Call
<1>2. /\ batch' = Blank("called", now)
      /\ cursor' = cursor /\ now \in Times
  BY DEF Call, CInv, IInv, TypeOK
<1>3. batch' \in Batches /\ batch'.at = "called" /\ batch'.now = now
  BY <1>2, BlankMarksNothing
<1>. QED
  BY <1>1, <1>2, <1>3 DEF CInv, BInv, Running

LEMMA BeginInvariant == ASSUME CInv, Begin PROVE CInv'
<1>. DEFINE rows == {m \in MessageIds : Orphan(m) /\ Expired(m, batch.now)}
            page == Page(cursor, batch.now)
<1>1. PICK orphans \in UpTo(MaxRows, rows) :
        LET left == MaxRows - Cardinality(orphans)
            b == [batch EXCEPT !.at = "task", !.orphans = orphans, !.left = left,
                               !.next = cursor] IN
        batch' = IF left = 0 THEN More(b)
                 ELSE [b EXCEPT !.page = page, !.full = Cardinality(page) = MaxTasks]
  BY DEF Begin
<1>. DEFINE left == MaxRows - Cardinality(orphans)
            b == [batch EXCEPT !.at = "task", !.orphans = orphans, !.left = left,
                               !.next = cursor]
<1>2. orphans \subseteq rows
  BY DEF UpTo
<1>3. Cardinality(orphans) \in Nat /\ MaxRows \in Nat \ {0} /\ MaxTasks \in Nat \ {0}
  BY <1>2, Sizes, CollectorAssumption
<1>4. page \subseteq {t \in Tasks : t > cursor /\ PastRetention(t, batch.now)}
  BY DEF Page
<1>5. UNCHANGED <<vars, cursor>> /\ batch \in Batches /\ cursor \in Nat
  BY DEF Begin, CInv, BInv
<1>6. batch = Blank("called", batch.now)
  BY DEF Begin, At, CInv, BInv
<1>7. /\ b \in Batches /\ b.at = "task" /\ b.orphans = orphans /\ b.left = left
      /\ b.gone = {} /\ b.pruned = {} /\ b.dropped = {} /\ b.page = {}
      /\ b.now = batch.now /\ b.next = cursor /\ b.full = FALSE
  <2>1. batch.now \in Times
    BY <1>5 DEF Batches
  <2>2. /\ batch.page = {} /\ batch.full = FALSE /\ batch.gone = {}
        /\ batch.pruned = {} /\ batch.dropped = {}
    BY <1>6, <2>1, BlankMarksNothing
  <2>3. left \in Int /\ orphans \in SUBSET MessageIds
    BY <1>2, <1>3
  <2>. HIDE DEF left
  <2>. QED
    BY <1>5, <2>2, <2>3 DEF Batches, Running
<1>. HIDE DEF b, page, left
<1>8. CASE left = 0
  <2>1. batch' = [b EXCEPT !.at = "end", !.more = TRUE, !.page = {}]
    BY <1>1, <1>8 DEF b, left, More
  <2>2. batch' \in Batches /\ batch'.at = "end"
    BY <1>7, <2>1 DEF Batches, Running
  <2>3. Marked(batch')
    BY <1>2, <1>7, <2>1 DEF Marked, Batches
  <2>4. Paged(batch')
    BY <1>7, <2>1 DEF Paged, Batches
  <2>5. Advanced(batch')
    BY <1>3, <1>7, <1>8, <2>1 DEF Advanced, Batches
  <2>. QED
    BY <1>5, <2>2, <2>3, <2>4, <2>5, StepInvariant
<1>9. CASE left # 0
  <2>1. batch' = [b EXCEPT !.page = page, !.full = Cardinality(page) = MaxTasks]
    BY <1>1, <1>9 DEF b, left, page
  <2>2. batch' \in Batches /\ batch'.at = "task"
    BY <1>4, <1>7, <2>1 DEF Batches, Running
  <2>3. Marked(batch')
    BY <1>2, <1>7, <2>1 DEF Marked, Batches
  <2>4. Paged(batch')
    BY <1>4, <1>7, <2>1 DEF Paged, Batches
  <2>5. batch'.full => batch'.page # {}
    <3>1. Cardinality({}) = 0
      BY FS_EmptySet
    <3>. QED
      BY <1>3, <1>7, <2>1, <3>1 DEF Batches
  <2>6. Advanced(batch')
    BY <1>3, <1>7, <2>1, <2>5 DEF Advanced, Batches, left
  <2>. QED
    BY <1>5, <2>2, <2>3, <2>4, <2>6, StepInvariant
<1>. QED
  BY <1>8, <1>9

LEMMA DeferInvariant ==
  ASSUME CInv, NEW t \in Tasks, Defer(t)
  PROVE  CInv'
<1>1. /\ batch \in Batches /\ cursor \in Nat /\ batch.at = "task"
      /\ Marked(batch) /\ Paged(batch) /\ Advanced(batch)
      /\ t \in batch.page /\ \A u \in batch.page : t <= u
      /\ t > cursor
  BY DEF Defer, At, IsNextTask, CInv, BInv, Running, Paged
<1>2. /\ batch' = [batch EXCEPT !.at = "task", !.next = t, !.page = batch.page \ {t}]
      /\ UNCHANGED <<vars, cursor>>
  BY DEF Defer, PassBy
<1>3. batch' \in Batches /\ batch'.at = "task"
  BY <1>1, <1>2, RetentionAssumption DEF Batches, Running
<1>4. Marked(batch')
  BY <1>1, <1>2 DEF Marked, Batches
<1>5. Paged(batch')
  BY <1>1, <1>2 DEF Paged, Batches
<1>6. Advanced(batch')
  BY <1>1, <1>2 DEF Advanced, Batches
<1>. QED
  BY <1>2, <1>3, <1>4, <1>5, <1>6, StepInvariant

LEMMA OpenInvariant ==
  ASSUME CInv, NEW t \in Tasks, Open(t)
  PROVE  CInv'
<1>1. /\ batch \in Batches /\ batch.at = "task"
      /\ Marked(batch) /\ Paged(batch) /\ Advanced(batch)
      /\ t \in batch.page /\ \A u \in batch.page : t <= u
      /\ Collectable(t, batch.gone, batch.now)
  BY SafeIsCollectable DEF Open, At, IsNextTask, CInv, BInv, Running
<1>2. /\ batch' = [batch EXCEPT !.at = "operations", !.task = t, !.seen = {},
                                !.stuck = FALSE]
      /\ UNCHANGED <<vars, cursor>>
  BY DEF Open
<1>3. batch' \in Batches /\ batch'.at = "operations"
  BY <1>1, <1>2 DEF Batches, Running
<1>4. Marked(batch')
  BY <1>1, <1>2 DEF Marked, Batches
<1>5. Paged(batch')
  <2>1. op \in [Ops -> Tasks \cup {NoTask}] /\ Tasks \subseteq Nat
    BY RetentionAssumption DEF CInv, IInv, TypeOK
  <2>2. ASSUME NEW o \in batch.gone PROVE op[o] <= t
    <3>1. o \in Ops
      BY <1>1 DEF Batches
    <3>2. op[o] \in Tasks \/ op[o] = 0
      BY <2>1, <3>1 DEF NoTask
    <3>3. op[o] \in Nat /\ t \in Nat
      BY <2>1, <3>2
    <3>4. op[o] < t
      BY <1>1 DEF Paged
    <3>. QED
      BY <3>3, <3>4
  <2>. QED
    BY <1>1, <1>2, <2>2 DEF Paged, Batches
<1>6. Advanced(batch')
  BY <1>1, <1>2 DEF Advanced, Batches
<1>. QED
  BY <1>2, <1>3, <1>4, <1>5, <1>6, StepInvariant

(* What every step inside an opened task starts from.                       *)
LEMMA Working ==
  ASSUME CInv, batch.at \in {"operations", "messages"}
  PROVE  /\ batch \in Batches /\ cursor \in Nat
         /\ Marked(batch) /\ Paged(batch) /\ Advanced(batch)
         /\ batch.task \in batch.page /\ batch.task \in Tasks
         /\ batch.task \in Nat \ {NoTask} /\ batch.task > cursor
         /\ Collectable(batch.task, batch.gone, batch.now)
         /\ \A o \in Ops : op[o] \in Nat
         /\ MaxRows \in Nat \ {0} /\ batch.left \in Int
<1>1. /\ batch \in Batches /\ cursor \in Nat
      /\ Marked(batch) /\ Paged(batch) /\ Advanced(batch)
  BY DEF CInv, BInv, Running
<1>2. batch.task \in batch.page /\ batch.task > cursor
  BY <1>1 DEF Paged
<1>3. batch.task \in Tasks
  BY <1>1, <1>2 DEF Batches
<1>4. ASSUME NEW o \in Ops PROVE op[o] \in Nat
  <2>1. op[o] \in Tasks \/ op[o] = 0
    BY DEF CInv, IInv, TypeOK, NoTask
  <2>. QED
    BY <2>1, RetentionAssumption
<1>5. Collectable(batch.task, batch.gone, batch.now)
  BY <1>1 DEF Paged
<1>6. batch.left \in Int
  BY <1>1 DEF Batches
<1>. QED
  BY <1>1, <1>2, <1>3, <1>4, <1>5, <1>6, RetentionAssumption, CollectorAssumption

(* The batch stops when there is a reason to call again.                    *)
LEMMA MoreInvariant ==
  ASSUME CInv, UNCHANGED <<vars, cursor>>,
         NEW b \in Batches, batch' = More(b), Marked(b),
         b.left \in Int, b.left < MaxRows
  PROVE  CInv'
<1>1. batch' = [b EXCEPT !.at = "end", !.more = TRUE, !.page = {}]
  BY DEF More
<1>2. batch' \in Batches /\ batch'.at = "end"
  BY <1>1 DEF Batches, Running
<1>3. Marked(batch')
  BY <1>1 DEF Marked, Batches
<1>4. Paged(batch')
  BY <1>1 DEF Paged, Batches
<1>5. Advanced(batch')
  <2>1. batch'.left = b.left /\ MaxRows \in Nat
    BY <1>1, CollectorAssumption DEF Batches
  <2>. QED
    BY <1>2, <2>1 DEF Advanced
<1>. QED
  BY <1>2, <1>3, <1>4, <1>5, StepInvariant

(* Passing by a task moves the cursor behind it, and leaves tasks that come *)
(* later than everything marked.                                            *)
LEMMA PassByInvariant ==
  ASSUME CInv, UNCHANGED <<vars, cursor>>, batch.at \in {"operations", "messages"},
         NEW b \in Batches, batch' = b, Marked(b),
         b.at = "task", b.next = batch.task, b.page = batch.page \ {batch.task},
         b.gone = batch.gone, b.now = batch.now, b.left \in Int,
         b.left <= batch.left
  PROVE  CInv'
<1>1. Paged(b)
  <2>1. \A t \in b.page : PastRetention(t, b.now) /\ t > cursor
    BY Working DEF Paged
  <2>2. ASSUME NEW o \in b.gone, NEW t \in b.page
        PROVE  op[o] < t
    <3>1. op[o] \in Nat /\ t \in Nat /\ batch.task \in Nat
      BY Working, RetentionAssumption DEF Batches
    <3>2. op[o] <= batch.task /\ batch.task <= t /\ t # batch.task
      BY Working DEF Paged
    <3>. QED
      BY <3>1, <3>2
  <2>. QED
    BY <2>1, <2>2 DEF Paged
<1>2. Advanced(b)
  BY Working DEF Advanced
<1>. QED
  BY <1>1, <1>2, StepInvariant

LEMMA TakeOperationInvariant ==
  ASSUME CInv, NEW o \in Ops, TakeOperation(o)
  PROVE  CInv'
<1>. DEFINE gone == batch.gone \cup {o}
<1>1. /\ batch' = [batch EXCEPT !.gone = gone, !.seen = batch.seen \cup {o},
                                !.left = batch.left - GraphRows(o)]
      /\ UNCHANGED <<vars, cursor>> /\ batch.at = "operations"
      /\ op[o] = batch.task /\ GraphRows(o) <= batch.left
  BY DEF TakeOperation, Listed, At, TaskOps
<1>2. GraphRows(o) \in Nat /\ GraphRows(o) >= 1
  BY Sizes
<1>3. batch' \in Batches /\ batch'.at = "operations"
  <2>1. /\ gone \in SUBSET Ops /\ batch.seen \cup {o} \in SUBSET Ops
        /\ batch \in Batches /\ batch.left - GraphRows(o) \in Int
    BY <1>1, <1>2, Working DEF Batches
  <2>. HIDE DEF gone
  <2>. QED
    BY <1>1, <2>1 DEF Batches
<1>4. /\ batch'.gone = gone /\ batch'.now = batch.now /\ batch'.page = batch.page
      /\ batch'.orphans = batch.orphans /\ batch'.pruned = batch.pruned
      /\ batch'.dropped = batch.dropped /\ batch'.task = batch.task
      /\ batch'.left = batch.left - GraphRows(o) /\ batch'.next = batch.next
      /\ batch'.seen = batch.seen \cup {o} /\ batch'.stuck = batch.stuck
      /\ batch'.full = batch.full
  BY <1>1, Working DEF Batches
<1>5. \A t : Collectable(t, batch.gone, batch.now) => Collectable(t, gone, batch.now)
  BY CollectableGrows
<1>6. Marked(batch')
  BY <1>1, <1>4, <1>5, Working DEF Marked
<1>7. Paged(batch')
  BY <1>1, <1>3, <1>4, <1>5, Working DEF Paged
<1>8. Advanced(batch')
  BY <1>1, <1>2, <1>3, <1>4, Working DEF Advanced
<1>. QED
  BY <1>1, <1>3, <1>6, <1>7, <1>8, StepInvariant

LEMMA SkipOversizedInvariant ==
  ASSUME CInv, NEW o \in Ops, SkipOversized(o)
  PROVE  CInv'
<1>1. /\ batch' = [batch EXCEPT !.seen = batch.seen \cup {o}, !.stuck = TRUE]
      /\ UNCHANGED <<vars, cursor>> /\ batch.at = "operations"
  BY DEF SkipOversized, Listed, At
<1>2. batch' \in Batches /\ batch'.at = "operations"
  BY <1>1, Working DEF Batches
<1>3. Marked(batch')
  BY <1>1, Working DEF Marked, Batches
<1>4. Paged(batch')
  BY <1>1, Working DEF Paged, Batches
<1>5. Advanced(batch')
  BY <1>1, Working DEF Advanced, Batches
<1>. QED
  BY <1>1, <1>2, <1>3, <1>4, <1>5, StepInvariant

LEMMA StopAtOperationInvariant ==
  ASSUME CInv, NEW o \in Ops, StopAtOperation(o)
  PROVE  CInv'
<1>1. /\ batch' = More(batch) /\ batch.at = "operations"
      /\ UNCHANGED <<vars, cursor>>
      /\ batch.left < GraphRows(o) /\ GraphRows(o) <= MaxRows
  BY DEF StopAtOperation, Listed, At
<1>2. GraphRows(o) \in Nat
  BY Sizes
<1>3. batch.left < MaxRows
  BY <1>1, <1>2, Working
<1>. QED
  BY <1>1, <1>3, Working, MoreInvariant

LEMMA LeaveOperationsInvariant == ASSUME CInv, LeaveOperations PROVE CInv'
<1>1. /\ UNCHANGED <<vars, cursor>> /\ batch.at = "operations"
      /\ ~ \E o \in Ops : Listed(o)
  BY DEF LeaveOperations, At
<1>. DEFINE none == OpsLeft(batch.task) = {}
<1>0. /\ none /\ batch.left = 0 => batch' = More(batch)
      /\ none /\ batch.left # 0 => batch' = [batch EXCEPT !.at = "messages"]
      /\ ~none /\ batch.stuck => batch' = PassBy(batch, batch.task)
      /\ ~none /\ ~batch.stuck => batch' = More(batch)
  BY DEF LeaveOperations
<1>2. CASE none /\ batch.left = 0
  BY <1>0, <1>1, <1>2, Working, MoreInvariant
<1>3. CASE none /\ batch.left # 0
  <2>1. batch' = [batch EXCEPT !.at = "messages"]
    BY <1>0, <1>3
  <2>2. batch' \in Batches /\ batch'.at = "messages"
    BY <1>1, <2>1, Working DEF Batches, Running
  <2>3. Marked(batch')
    BY <1>1, <2>1, Working DEF Marked, Batches
  <2>4. Paged(batch')
    <3>1. TaskOps(batch.task) \subseteq batch.gone
      BY <1>3 DEF OpsLeft
    <3>. QED
      BY <1>1, <2>1, <3>1, Working DEF Paged, Batches
  <2>5. Advanced(batch')
    BY <1>1, <2>1, Working DEF Advanced, Batches
  <2>. QED
    BY <1>1, <2>2, <2>3, <2>4, <2>5, StepInvariant
<1>4. CASE ~none /\ batch.stuck
  <2>1. batch' = [batch EXCEPT !.at = "task", !.next = batch.task,
                               !.page = batch.page \ {batch.task}]
    BY <1>0, <1>4 DEF PassBy
  <2>2. batch' \in Batches
    BY <1>1, <2>1, Working DEF Batches, Running
  <2>3. Marked(batch')
    BY <1>1, <2>1, Working DEF Marked, Batches
  <2>4. /\ batch'.at = "task" /\ batch'.next = batch.task
        /\ batch'.page = batch.page \ {batch.task}
        /\ batch'.gone = batch.gone /\ batch'.now = batch.now
        /\ batch'.left = batch.left
    BY <1>1, <2>1, Working DEF Batches
  <2>. QED
    BY <1>1, <2>2, <2>3, <2>4, Working, PassByInvariant
<1>5. CASE ~none /\ ~batch.stuck
  <2>1. PICK o \in Ops : op[o] = batch.task /\ o \notin batch.gone
    BY <1>5 DEF OpsLeft, TaskOps
  <2>2. batch.seen \subseteq batch.gone /\ batch.seen \subseteq Ops
    BY <1>1, <1>5, Working DEF Advanced, Batches
  <2>3. ~(Cardinality(batch.seen) < MaxRows)
    BY <1>1, <2>1, <2>2 DEF Listed, At, TaskOps
  <2>4. batch.seen # {}
    BY <1>1, <2>3, Working, FS_EmptySet
  <2>5. batch.left < MaxRows
    BY <1>1, <2>2, <2>4, Working DEF Advanced
  <2>. QED
    BY <1>0, <1>1, <1>5, <2>5, Working, MoreInvariant
<1>. QED
  BY <1>2, <1>3, <1>4, <1>5

LEMMA DropTaskInvariant == ASSUME CInv, DropTask PROVE CInv'
<1>. DEFINE t == batch.task
            dead == {m \in TaskMessages(t) : Expired(m, batch.now)}
<1>1. PICK pruned \in UpTo(batch.left, dead) :
        LET b == [batch EXCEPT !.pruned = batch.pruned \cup pruned,
                               !.left = batch.left - Cardinality(pruned)]
            d == [PassBy(b, b.task) EXCEPT !.dropped = b.dropped \cup {b.task},
                                           !.left = b.left - 1] IN
        batch' = IF pruned # TaskMessages(b.task) \/ b.left = 0 THEN More(b)
                 ELSE IF d.left = 0 THEN More(d)
                 ELSE d
  BY DEF DropTask
<1>. DEFINE b == [batch EXCEPT !.pruned = batch.pruned \cup pruned,
                               !.left = batch.left - Cardinality(pruned)]
            d == [PassBy(b, b.task) EXCEPT !.dropped = b.dropped \cup {b.task},
                                           !.left = b.left - 1]
<1>2. UNCHANGED <<vars, cursor>> /\ batch.at = "messages"
  BY DEF DropTask, At
<1>3. TaskOps(t) \subseteq batch.gone
  BY <1>2, Working DEF Paged
<1>4. dead = TaskMessages(t)
  BY <1>2, Working DEF Collectable
<1>5. pruned \subseteq dead /\ pruned \in SUBSET MessageIds
  BY DEF UpTo, TaskMessages
<1>6. Cardinality(pruned) \in Nat
  BY <1>5, Sizes
<1>7. /\ b \in Batches /\ b.at = "messages" /\ b.page = batch.page
      /\ b.now = batch.now /\ b.gone = batch.gone /\ b.orphans = batch.orphans
      /\ b.dropped = batch.dropped /\ b.task = t
      /\ b.pruned = batch.pruned \cup pruned
      /\ b.left = batch.left - Cardinality(pruned)
  <2>1. /\ batch.pruned \cup pruned \in SUBSET MessageIds
        /\ batch \in Batches /\ batch.left - Cardinality(pruned) \in Int
    BY <1>2, <1>5, <1>6, Working DEF Batches
  <2>. QED
    BY <1>2, <2>1 DEF Batches
<1>. HIDE DEF b
<1>8. Marked(b)
  BY <1>2, <1>3, <1>5, <1>7, Working DEF Marked
<1>9. b.left \in Int /\ b.left <= batch.left /\ batch.left <= MaxRows
  BY <1>2, <1>6, <1>7, Working DEF Advanced
<1>10. d = [b EXCEPT !.at = "task", !.next = t, !.page = batch.page \ {t},
                     !.dropped = batch.dropped \cup {t}, !.left = b.left - 1]
  BY <1>7 DEF PassBy, Batches
<1>11. /\ d \in Batches /\ d.at = "task" /\ d.next = t
       /\ d.page = batch.page \ {t} /\ d.gone = batch.gone
       /\ d.now = batch.now /\ d.dropped = batch.dropped \cup {t}
       /\ d.left = b.left - 1 /\ d.pruned = b.pruned /\ d.orphans = b.orphans
  <2>1. t \in Tasks /\ t \in Nat /\ batch \in Batches
    BY <1>2, Working
  <2>2. /\ batch.page \ {t} \in SUBSET Tasks
        /\ batch.dropped \cup {t} \in SUBSET Tasks /\ b.left - 1 \in Int
    BY <1>9, <2>1 DEF Batches
  <2>. HIDE DEF d, t
  <2>. QED
    BY <1>7, <1>10, <2>1, <2>2 DEF Batches, Running
<1>. HIDE DEF d
<1>12. CASE pruned # TaskMessages(t) \/ b.left = 0
  <2>1. batch' = More(b)
    BY <1>1, <1>7, <1>12 DEF b
  <2>2. b.left < MaxRows
    <3>1. CASE Cardinality(pruned) = batch.left
      BY <1>2, <1>7, <3>1, Working
    <3>2. CASE pruned = dead
      BY <1>2, <1>4, <1>12, <3>2, Working
    <3>. QED
      BY <3>1, <3>2 DEF UpTo
  <2>. QED
    BY <1>2, <1>7, <1>8, <1>9, <2>1, <2>2, MoreInvariant
<1>13. CASE ~(pruned # TaskMessages(t) \/ b.left = 0)
  <2>1. Marked(d)
    <3>1. TaskMessages(t) \subseteq d.pruned
      BY <1>7, <1>11, <1>13
    <3>2. Collectable(t, d.gone, d.now) /\ TaskOps(t) \subseteq d.gone
      BY <1>2, <1>3, <1>11, Working
    <3>. QED
      BY <1>7, <1>8, <1>11, <3>1, <3>2 DEF Marked
  <2>2. CASE d.left = 0
    <3>1. batch' = More(d)
      BY <1>1, <1>7, <1>13, <2>2 DEF b, d
    <3>2. d.left \in Int /\ d.left < MaxRows
      BY <1>2, <2>2, Working
    <3>. QED
      BY <1>2, <1>11, <2>1, <3>1, <3>2, MoreInvariant
  <2>3. CASE d.left # 0
    <3>1. batch' = d
      BY <1>1, <1>7, <1>13, <2>3 DEF b, d
    <3>2. d.left \in Int /\ d.left <= batch.left
      BY <1>2, <1>9, <1>11, Working
    <3>. QED
      BY <1>2, <1>11, <2>1, <3>1, <3>2, PassByInvariant
  <2>. QED
    BY <2>2, <2>3
<1>. QED
  BY <1>12, <1>13

LEMMA EndPageInvariant == ASSUME CInv, EndPage PROVE CInv'
<1>1. /\ batch \in Batches /\ cursor \in Nat
      /\ Marked(batch) /\ Paged(batch) /\ Advanced(batch)
      /\ UNCHANGED <<vars, cursor>> /\ batch.at = "task" /\ batch.page = {}
  BY DEF EndPage, At, CInv, BInv, Running
<1>2. batch' = [batch EXCEPT !.at = "end", !.more = batch.full,
                             !.next = IF batch.full THEN batch.next ELSE NoTask]
  BY DEF EndPage
<1>3. batch' \in Batches /\ batch'.at = "end"
  BY <1>1, <1>2 DEF Batches, Running, NoTask
<1>4. Marked(batch')
  BY <1>1, <1>2 DEF Marked, Batches
<1>5. Paged(batch')
  BY <1>1, <1>2 DEF Paged, Batches
<1>6. Advanced(batch')
  BY <1>1, <1>2 DEF Advanced, Batches
<1>. QED
  BY <1>1, <1>3, <1>4, <1>5, <1>6, StepInvariant

-----------------------------------------------------------------------------
(* What a batch has marked is what one Collect removes, as of the time its  *)
(* caller has read.                                                         *)
LEMMA CommitIsCollect ==
  ASSUME CInv, NEW lost \in BOOLEAN, Commit(lost)
  PROVE  Next
<1>1. batch \in Batches /\ batch.at = "end" /\ Marked(batch)
  BY DEF Commit, At, CInv, BInv, Running
<1>2. Collect(batch.orphans, batch.gone, batch.pruned, batch.dropped, batch.now)
  BY <1>1 DEF Commit, Marked, Collect
<1>3. /\ batch.orphans \in SUBSET {m \in MessageIds : Expired(m, batch.now)}
      /\ batch.pruned \in SUBSET {m \in MessageIds : Expired(m, batch.now)}
      /\ batch.dropped \in SUBSET {t \in Tasks : PastRetention(t, batch.now)}
      /\ batch.gone \in SUBSET Ops /\ batch.now \in Times
  BY <1>1 DEF Batches, Marked, Collectable
<1>. QED
  BY <1>2, <1>3 DEF Next

(* A commit, a failed batch and the transactions of others leave no batch.  *)
LEMMA BetweenBatches ==
  ASSUME CInv, [Next]_vars, cursor' \in Nat,
         \/ batch' = NoBatch
         \/ batch' = batch /\ batch.at \in {"idle", "called"}
  PROVE  CInv'
<1>1. IInv'
  BY NextInvariant DEF CInv
<1>2. CASE batch' = NoBatch
  <2>1. 0 \in Times
    BY RetentionAssumption DEF Times
  <2>2. batch' \in Batches /\ batch'.at = "idle"
    BY <1>2, <2>1, BlankMarksNothing DEF NoBatch
  <2>. QED
    BY <1>1, <2>2 DEF CInv, BInv, Running
<1>3. CASE batch' = batch /\ batch.at \in {"idle", "called"}
  BY <1>1, <1>3 DEF CInv, BInv, Running
<1>. QED
  BY <1>2, <1>3

(* Every step of the collector is one of MessageRetention, or none.         *)
LEMMA StepsImplement ==
  ASSUME CInv, [CollectorNext]_allVars
  PROVE  [Next]_vars
<1>1. CASE UNCHANGED allVars
  BY <1>1 DEF allVars
<1>2. CASE Call \/ Step \/ Fail
  BY <1>2 DEF Call, Step, Fail, Begin, Defer, Open, TakeOperation, SkipOversized,
              StopAtOperation, LeaveOperations, DropTask, EndPage
<1>3. CASE \E lost \in BOOLEAN : Commit(lost)
  BY <1>3, CommitIsCollect
<1>4. CASE Others
  BY <1>4 DEF Others, Next
<1>. QED
  BY <1>1, <1>2, <1>3, <1>4 DEF CollectorNext

LEMMA CollectorInitInvariant == CollectorInit => CInv
<1>. SUFFICES ASSUME CollectorInit PROVE CInv
  OBVIOUS
<1>1. IInv /\ 0 \in Times
  BY InitInvariant, RetentionAssumption DEF CollectorInit, Times
<1>2. batch \in Batches /\ batch.at = "idle"
  BY <1>1, BlankMarksNothing DEF CollectorInit, NoBatch
<1>. QED
  BY <1>1, <1>2 DEF CollectorInit, CInv, BInv, NoTask, Running

LEMMA CollectorNextInvariant == CInv /\ [CollectorNext]_allVars => CInv'
<1>. SUFFICES ASSUME CInv, [CollectorNext]_allVars PROVE CInv'
  OBVIOUS
<1>1. [Next]_vars
  BY StepsImplement
<1>2. CASE UNCHANGED allVars
  <2>1. UNCHANGED <<vars, cursor, batch>>
    BY <1>2 DEF allVars, collectorVars
  <2>2. CASE batch.at \in {"idle", "called"}
    BY <1>1, <2>1, <2>2, BetweenBatches DEF CInv, BInv
  <2>3. CASE batch.at \in Running
    BY <2>1, <2>3, StepInvariant DEF CInv, BInv, Running, Marked, Paged, Advanced
  <2>. QED
    BY <2>2, <2>3 DEF CInv, BInv, Batches
<1>3. CASE Call
  BY <1>3, CallInvariant
<1>4. CASE Step
  BY <1>4, BeginInvariant, DeferInvariant, OpenInvariant, TakeOperationInvariant,
     SkipOversizedInvariant, StopAtOperationInvariant, LeaveOperationsInvariant,
     DropTaskInvariant, EndPageInvariant
  DEF Step
<1>5. CASE \E lost \in BOOLEAN : Commit(lost)
  <2>1. batch' = NoBatch /\ cursor' \in {cursor, batch.next}
    BY <1>5 DEF Commit
  <2>2. cursor' \in Nat
    BY <2>1 DEF CInv, BInv, Batches
  <2>. QED
    BY <1>1, <2>1, <2>2, BetweenBatches
<1>6. CASE Fail
  BY <1>1, <1>6, BetweenBatches DEF Fail, CInv, BInv
<1>7. CASE Others
  BY <1>1, <1>7, BetweenBatches DEF Others, At, collectorVars, CInv, BInv
<1>. QED
  BY <1>2, <1>3, <1>4, <1>5, <1>6, <1>7 DEF CollectorNext

(* What the batches rely on holds in every state.                           *)
THEOREM CollectorInvariant == CollectorSpec => []CInv
<1>. QED
  BY CollectorInitInvariant, CollectorNextInvariant, PTL DEF CollectorSpec

(* The batches of Collect, with their cursor, budgets, pages, stops and     *)
(* lost answers, implement the collection of MessageRetention: whatever     *)
(* order they mark rows in, they remove only what one Collect may remove.   *)
THEOREM BatchesImplementRetention == CollectorSpec => ImplementsRetention
<1>1. CollectorInit => Init
  BY DEF CollectorInit
<1>2. CInv /\ [CollectorNext]_allVars => [Next]_vars
  BY StepsImplement
<1>. QED
  BY <1>1, <1>2, CollectorInvariant, PTL DEF CollectorSpec, Spec, ImplementsRetention

(* A message is applied at most once, collected by these batches or not.    *)
THEOREM BatchesKeepDedup == CollectorSpec => []AppliedOnce
BY BatchesImplementRetention, AtMostOnce DEF ImplementsRetention

(* A batch that asks for another call has removed something or advanced.    *)
THEOREM CallsAdvance == CollectorSpec => []CallsGetSomewhere
<1>1. CInv => CallsGetSomewhere
  BY DEF CInv, BInv, Running, Advanced, CallsGetSomewhere, At
<1>. QED
  BY <1>1, CollectorInvariant, PTL
-----------------------------------------------------------------------------
(* The budget.                                                              *)

(* No row is marked twice: the tasks still to come have no row that is      *)
(* marked, and the operations of the open task that are marked were seen.   *)
Fresh(b) ==
  /\ \A t \in b.page : t \notin b.dropped
  /\ \A t \in b.page : \A m \in b.orphans \cup b.pruned : message[m].env.task # t
  /\ b.at = "operations" => \A o \in b.gone : op[o] = b.task => o \in b.seen

(* Each marked row has been paid for.                                       *)
Spent(b) ==
  /\ b.left \in Nat
  /\ b.at = "messages" => b.left > 0
  /\ MaxRows = b.left + Cardinality(OperationRows(b.gone))
                 + Cardinality(AttemptsOf(b.gone))
                 + Cardinality(b.orphans \cup b.pruned)
                 + Cardinality(b.dropped)

Paid == batch.at \in Running => Fresh(batch) /\ Spent(batch)

LEMMA StepPaid ==
  ASSUME UNCHANGED <<vars, cursor>>, Fresh(batch'), Spent(batch')
  PROVE  Paid'
BY DEF Paid, Fresh, Spent, vars, AttemptsOf, OperationRows

(* The graphs of finitely many operations have finitely many rows.          *)
LEMMA GraphsAreFinite ==
  ASSUME NEW ops \in SUBSET Ops
  PROVE  /\ IsFiniteSet(OperationRows(ops)) /\ Cardinality(OperationRows(ops)) \in Nat
         /\ IsFiniteSet(AttemptsOf(ops)) /\ Cardinality(AttemptsOf(ops)) \in Nat
<1>. DEFINE rows(o) == {o} \X (1..OpRows[o])
            f == [o \in ops |-> rows(o)]
            graphs == {rows(o) : o \in ops}
<1>1. IsFiniteSet(ops)
  BY CollectorAssumption, FS_Subset
<1>2. f \in Surjection(ops, graphs)
  BY DEF Surjection
<1>3. IsFiniteSet(graphs)
  <2>. HIDE DEF f, graphs
  <2>. QED
    BY <1>1, <1>2, FS_Surjection
<1>4. ASSUME NEW o \in ops PROVE IsFiniteSet(rows(o))
  <2>1. OpRows[o] \in Nat
    BY CollectorAssumption
  <2>2. IsFiniteSet(1..OpRows[o])
    BY <2>1, FS_Interval
  <2>3. IsFiniteSet({o})
    BY FS_Singleton
  <2>. QED
    BY <2>2, <2>3, FS_Product
<1>5. \A T \in graphs : IsFiniteSet(T)
  BY <1>4
<1>6. IsFiniteSet(UNION graphs)
  <2>. HIDE DEF graphs
  <2>. QED
    BY <1>3, <1>5, FS_UNION
<1>7. IsFiniteSet(OperationRows(ops))
  BY <1>6 DEF OperationRows
<1>8. AttemptsOf(ops) \subseteq Attempts /\ IsFiniteSet(Attempts)
  BY CollectorAssumption DEF AttemptsOf
<1>9. IsFiniteSet(AttemptsOf(ops))
  BY <1>8, FS_Subset
<1>. QED
  BY <1>7, <1>9, FS_CardinalityType

(* Sets without a common element are counted one after the other.           *)
LEMMA CountApart ==
  ASSUME NEW S, NEW T, IsFiniteSet(S), IsFiniteSet(T), S \cap T = {}
  PROVE  /\ Cardinality(S \cup T) = Cardinality(S) + Cardinality(T)
         /\ Cardinality(S) \in Nat /\ Cardinality(T) \in Nat
<1>1. Cardinality(S) \in Nat /\ Cardinality(T) \in Nat
  BY FS_CardinalityType
<1>2. Cardinality(S \cap T) = 0
  BY FS_EmptySet
<1>3. Cardinality(S \cup T) = Cardinality(S) + Cardinality(T) - 0
  BY <1>2, FS_Union, Zenon
<1>4. \A m, n \in Nat : m + n - 0 = m + n
  OBVIOUS
<1>. QED
  BY <1>1, <1>3, <1>4, Zenon

(* The graph of one more operation costs its rows, the attempts included.   *)
LEMMA GraphIsPaid ==
  ASSUME NEW ops \in SUBSET Ops, NEW o \in Ops, o \notin ops
  PROVE  Cardinality(OperationRows(ops \cup {o})) + Cardinality(AttemptsOf(ops \cup {o}))
           = Cardinality(OperationRows(ops)) + Cardinality(AttemptsOf(ops)) + GraphRows(o)
<1>. DEFINE rows == {o} \X (1..OpRows[o])
            tries == {a \in Attempts : attempt[a] = o}
<1>1. IsFiniteSet(rows) /\ Cardinality(rows) = OpRows[o] /\ OpRows[o] \in Nat
  <2>1. OpRows[o] \in Nat \ {0}
    BY CollectorAssumption
  <2>2. /\ IsFiniteSet(1..OpRows[o]) /\ Cardinality(1..OpRows[o]) = OpRows[o]
    BY <2>1, FS_Interval
  <2>3. IsFiniteSet({o}) /\ Cardinality({o}) = 1
    BY FS_Singleton
  <2>4. /\ IsFiniteSet({o} \X (1..OpRows[o]))
        /\ Cardinality({o} \X (1..OpRows[o])) = Cardinality({o}) * Cardinality(1..OpRows[o])
    BY <2>2, <2>3, FS_Product, Zenon
  <2>5. 1 * OpRows[o] = OpRows[o]
    BY <2>1
  <2>. QED
    BY <2>1, <2>2, <2>3, <2>4, <2>5
<1>2. IsFiniteSet(tries) /\ Cardinality(tries) \in Nat
  <2>1. tries \subseteq Attempts /\ IsFiniteSet(Attempts)
    BY CollectorAssumption
  <2>. HIDE DEF tries
  <2>. QED
    BY <2>1, FS_Subset, FS_CardinalityType
<1>3. /\ OperationRows(ops \cup {o}) = OperationRows(ops) \cup rows
      /\ OperationRows(ops) \cap rows = {}
  BY DEF OperationRows
<1>4. /\ AttemptsOf(ops \cup {o}) = AttemptsOf(ops) \cup tries
      /\ AttemptsOf(ops) \cap tries = {}
  BY DEF AttemptsOf
<1>. HIDE DEF rows, tries
<1>5. Cardinality(OperationRows(ops \cup {o})) = Cardinality(OperationRows(ops)) + OpRows[o]
  BY <1>1, <1>3, GraphsAreFinite, CountApart, Zenon
<1>6. Cardinality(AttemptsOf(ops \cup {o})) = Cardinality(AttemptsOf(ops)) + Cardinality(tries)
  BY <1>2, <1>4, GraphsAreFinite, CountApart, Zenon
<1>7. GraphRows(o) = OpRows[o] + Cardinality(tries)
  BY DEF GraphRows, tries
<1>. QED
  BY <1>1, <1>2, <1>5, <1>6, <1>7, GraphsAreFinite

(* What the steps of a batch start from.                                    *)
LEMMA Counting ==
  ASSUME CInv, batch.at \in Running
  PROVE  /\ batch \in Batches /\ cursor \in Nat
         /\ Marked(batch) /\ Paged(batch) /\ Advanced(batch)
         /\ MaxRows \in Nat \ {0}
         /\ Cardinality(OperationRows(batch.gone)) \in Nat
         /\ Cardinality(AttemptsOf(batch.gone)) \in Nat
         /\ Cardinality(batch.orphans \cup batch.pruned) \in Nat
         /\ Cardinality(batch.dropped) \in Nat
<1>1. /\ batch \in Batches /\ cursor \in Nat
      /\ Marked(batch) /\ Paged(batch) /\ Advanced(batch)
  BY DEF CInv, BInv
<1>2. /\ batch.gone \in SUBSET Ops /\ batch.dropped \in SUBSET Tasks
      /\ batch.orphans \cup batch.pruned \in SUBSET MessageIds
  BY <1>1 DEF Batches
<1>. QED
  BY <1>1, <1>2, GraphsAreFinite, Sizes, CollectorAssumption

(* A step that marks and pays nothing.                                      *)
LEMMA NothingSpent ==
  ASSUME CInv, Paid, batch.at \in Running, UNCHANGED <<vars, cursor>>,
         batch' \in Batches,
         batch'.orphans = batch.orphans, batch'.gone = batch.gone,
         batch'.pruned = batch.pruned, batch'.dropped = batch.dropped,
         batch'.left = batch.left, batch'.page \subseteq batch.page,
         batch'.at = "messages" => batch.left # 0,
         batch'.at = "operations" =>
           \A o \in batch'.gone : op[o] = batch'.task => o \in batch'.seen
  PROVE  Paid'
<1>1. Fresh(batch) /\ Spent(batch)
  BY DEF Paid
<1>2. Fresh(batch')
  BY <1>1 DEF Fresh
<1>3. Spent(batch')
  BY <1>1 DEF Spent
<1>. QED
  BY <1>2, <1>3, StepPaid

LEMMA BeginPaid == ASSUME CInv, Begin PROVE Paid'
<1>. DEFINE rows == {m \in MessageIds : Orphan(m) /\ Expired(m, batch.now)}
            page == Page(cursor, batch.now)
<1>1. PICK orphans \in UpTo(MaxRows, rows) :
        LET left == MaxRows - Cardinality(orphans)
            b == [batch EXCEPT !.at = "task", !.orphans = orphans, !.left = left,
                               !.next = cursor] IN
        batch' = IF left = 0 THEN More(b)
                 ELSE [b EXCEPT !.page = page, !.full = Cardinality(page) = MaxTasks]
  BY DEF Begin
<1>. DEFINE left == MaxRows - Cardinality(orphans)
<1>2. orphans \subseteq rows
  BY DEF UpTo
<1>3. /\ Cardinality(orphans) \in Nat /\ MaxRows \in Nat
      /\ Cardinality(orphans) <= MaxRows
  <2>1. Cardinality(orphans) \in Nat /\ MaxRows \in Nat
    BY <1>2, Sizes, CollectorAssumption
  <2>. QED
    BY <2>1 DEF UpTo
<1>4. UNCHANGED <<vars, cursor>> /\ batch \in Batches
  BY DEF Begin, CInv, BInv
<1>5. batch.gone = {} /\ batch.pruned = {} /\ batch.dropped = {}
  BY <1>4, BlankMarksNothing DEF Begin, At, CInv, BInv, Batches
<1>6. /\ batch'.orphans = orphans /\ batch'.left = left
      /\ batch'.gone = {} /\ batch'.pruned = {} /\ batch'.dropped = {}
      /\ batch'.at \in {"task", "end"} /\ batch'.page \subseteq page
  <2>. HIDE DEF page, left
  <2>1. CASE left = 0
    BY <1>1, <1>4, <1>5, <2>1 DEF More, Batches, left, page
  <2>2. CASE left # 0
    BY <1>1, <1>4, <1>5, <2>2 DEF Batches, left, page
  <2>. QED
    BY <2>1, <2>2
<1>7. Fresh(batch')
  <2>1. \A t \in page : t \in Tasks /\ task[t].state = "closed"
    BY DEF Page, PastRetention
  <2>2. \A t \in page : task[t] # NoTaskRow
    BY <2>1 DEF NoTaskRow
  <2>3. \A t \in page : \A m \in orphans : message[m].env.task # t
    BY <1>2, <2>1, <2>2 DEF Orphan
  <2>. HIDE DEF page
  <2>. QED
    BY <1>6, <2>3 DEF Fresh
<1>8. Spent(batch')
  <2>1. OperationRows({}) = {} /\ AttemptsOf({}) = {} /\ orphans \cup {} = orphans
    BY DEF OperationRows, AttemptsOf
  <2>2. Cardinality({}) = 0
    BY FS_EmptySet
  <2>3. /\ Cardinality(OperationRows(batch'.gone)) = 0
        /\ Cardinality(AttemptsOf(batch'.gone)) = 0
        /\ Cardinality(batch'.dropped) = 0
        /\ Cardinality(batch'.orphans \cup batch'.pruned) = Cardinality(orphans)
    BY <1>6, <2>1, <2>2
  <2>. QED
    BY <1>2, <1>3, <1>6, <2>3 DEF Spent
<1>. QED
  BY <1>4, <1>7, <1>8, StepPaid

LEMMA DeferPaid == ASSUME CInv, Paid, NEW t \in Tasks, Defer(t) PROVE Paid'
<1>1. batch' = [batch EXCEPT !.at = "task", !.next = t, !.page = batch.page \ {t}]
  BY DEF Defer, PassBy
<1>2. batch.at \in Running /\ UNCHANGED <<vars, cursor>> /\ batch \in Batches
  BY DEF Defer, At, Running, CInv, BInv
<1>3. batch' \in Batches
  BY <1>1, <1>2, RetentionAssumption DEF Batches, Running
<1>. QED
  BY <1>1, <1>2, <1>3, NothingSpent DEF Batches

LEMMA OpenPaid == ASSUME CInv, Paid, NEW t \in Tasks, Open(t) PROVE Paid'
<1>1. batch' = [batch EXCEPT !.at = "operations", !.task = t, !.seen = {},
                             !.stuck = FALSE]
  BY DEF Open
<1>2. /\ batch.at = "task" /\ batch.at \in Running /\ UNCHANGED <<vars, cursor>>
      /\ t \in batch.page
  BY DEF Open, At, IsNextTask, Running
<1>3. batch' \in Batches
  BY <1>1, <1>2, Counting DEF Batches, Running
<1>4. ASSUME NEW o \in batch.gone PROVE op[o] # t
  <2>1. op[o] < t /\ o \in Ops
    BY <1>2, Counting DEF Paged, Batches
  <2>2. t \in Nat
    BY RetentionAssumption
  <2>. QED
    BY <2>1, <2>2
<1>. QED
  BY <1>1, <1>2, <1>3, <1>4, Counting, NothingSpent DEF Batches

LEMMA TakeOperationPaid ==
  ASSUME CInv, Paid, NEW o \in Ops, TakeOperation(o)
  PROVE  Paid'
<1>. DEFINE gone == batch.gone \cup {o}
<1>1. /\ batch' = [batch EXCEPT !.gone = gone, !.seen = batch.seen \cup {o},
                                !.left = batch.left - GraphRows(o)]
      /\ UNCHANGED <<vars, cursor>> /\ batch.at = "operations" /\ batch.at \in Running
      /\ op[o] = batch.task /\ o \notin batch.seen /\ GraphRows(o) <= batch.left
  BY DEF TakeOperation, Listed, At, TaskOps, Running
<1>2. Fresh(batch) /\ Spent(batch)
  BY <1>1 DEF Paid
<1>3. o \notin batch.gone /\ batch.gone \in SUBSET Ops
  BY <1>1, <1>2, Counting DEF Fresh, Batches
<1>4. /\ batch'.gone = gone /\ batch'.page = batch.page
      /\ batch'.orphans = batch.orphans /\ batch'.pruned = batch.pruned
      /\ batch'.dropped = batch.dropped /\ batch'.task = batch.task
      /\ batch'.left = batch.left - GraphRows(o) /\ batch'.at = "operations"
      /\ batch'.seen = batch.seen \cup {o}
  BY <1>1, Counting DEF Batches
<1>5. Fresh(batch')
  BY <1>1, <1>2, <1>4 DEF Fresh
<1>6. Spent(batch')
  <2>1. Cardinality(OperationRows(gone)) + Cardinality(AttemptsOf(gone))
          = Cardinality(OperationRows(batch.gone)) + Cardinality(AttemptsOf(batch.gone))
              + GraphRows(o)
    BY <1>3, GraphIsPaid
  <2>2. gone \in SUBSET Ops
    BY <1>3
  <2>. HIDE DEF gone
  <2>3. Cardinality(OperationRows(gone)) \in Nat /\ Cardinality(AttemptsOf(gone)) \in Nat
    BY <2>2, GraphsAreFinite
  <2>4. GraphRows(o) \in Nat
    BY Sizes
  <2>. QED
    BY <1>1, <1>2, <1>4, <2>1, <2>3, <2>4, Counting DEF Spent
<1>. QED
  BY <1>1, <1>5, <1>6, StepPaid

LEMMA SkipOversizedPaid ==
  ASSUME CInv, Paid, NEW o \in Ops, SkipOversized(o)
  PROVE  Paid'
<1>1. /\ batch' = [batch EXCEPT !.seen = batch.seen \cup {o}, !.stuck = TRUE]
      /\ UNCHANGED <<vars, cursor>> /\ batch.at = "operations" /\ batch.at \in Running
  BY DEF SkipOversized, Listed, At, Running
<1>2. batch' \in Batches
  BY <1>1, Counting DEF Batches
<1>3. \A p \in batch.gone : op[p] = batch.task => p \in batch.seen
  BY <1>1 DEF Paid, Fresh
<1>. QED
  BY <1>1, <1>2, <1>3, Counting, NothingSpent DEF Batches

(* The batch ends here.                                                     *)
LEMMA MorePaid ==
  ASSUME CInv, UNCHANGED <<vars, cursor>>, NEW b \in Batches, batch' = More(b),
         Spent(b)
  PROVE  Paid'
<1>1. /\ batch'.at = "end" /\ batch'.page = {} /\ batch'.left = b.left
      /\ batch'.orphans = b.orphans /\ batch'.gone = b.gone
      /\ batch'.pruned = b.pruned /\ batch'.dropped = b.dropped
  BY DEF More, Batches
<1>2. Fresh(batch')
  BY <1>1 DEF Fresh
<1>3. Spent(batch')
  BY <1>1 DEF Spent
<1>. QED
  BY <1>2, <1>3, StepPaid

LEMMA StopAtOperationPaid ==
  ASSUME CInv, Paid, NEW o \in Ops, StopAtOperation(o)
  PROVE  Paid'
<1>1. batch' = More(batch) /\ batch.at \in Running /\ UNCHANGED <<vars, cursor>>
  BY DEF StopAtOperation, Listed, At, Running
<1>. QED
  BY <1>1, Counting, MorePaid DEF Paid

LEMMA LeaveOperationsPaid == ASSUME CInv, Paid, LeaveOperations PROVE Paid'
<1>1. /\ UNCHANGED <<vars, cursor>> /\ batch.at = "operations" /\ batch.at \in Running
  BY DEF LeaveOperations, At, Running
<1>2. \/ batch' = More(batch)
      \/ batch' = [batch EXCEPT !.at = "messages"] /\ batch.left # 0
      \/ batch' = PassBy(batch, batch.task)
  BY DEF LeaveOperations
<1>3. CASE batch' = More(batch)
  BY <1>1, <1>3, Counting, MorePaid DEF Paid
<1>4. CASE batch' = [batch EXCEPT !.at = "messages"] /\ batch.left # 0
  <2>1. batch' \in Batches
    BY <1>1, <1>4, Counting DEF Batches, Running
  <2>. QED
    BY <1>1, <1>4, <2>1, Counting, NothingSpent DEF Batches
<1>5. CASE batch' = PassBy(batch, batch.task)
  <2>1. batch' = [batch EXCEPT !.at = "task", !.next = batch.task,
                               !.page = batch.page \ {batch.task}]
    BY <1>5 DEF PassBy
  <2>2. batch' \in Batches
    BY <1>1, <2>1, Working DEF Batches, Running
  <2>. QED
    BY <1>1, <2>1, <2>2, Counting, NothingSpent DEF Batches
<1>. QED
  BY <1>2, <1>3, <1>4, <1>5

LEMMA EndPagePaid == ASSUME CInv, Paid, EndPage PROVE Paid'
<1>1. batch.at \in Running /\ UNCHANGED <<vars, cursor>>
  BY DEF EndPage, At, Running
<1>2. batch' = [batch EXCEPT !.at = "end", !.more = batch.full,
                             !.next = IF batch.full THEN batch.next ELSE NoTask]
  BY DEF EndPage
<1>3. batch' \in Batches
  BY <1>1, <1>2, Counting DEF Batches, Running, NoTask
<1>. QED
  BY <1>1, <1>2, <1>3, Counting, NothingSpent DEF Batches

LEMMA DropTaskPaid == ASSUME CInv, Paid, DropTask PROVE Paid'
<1>. DEFINE t == batch.task
            dead == {m \in TaskMessages(t) : Expired(m, batch.now)}
<1>1. PICK pruned \in UpTo(batch.left, dead) :
        LET b == [batch EXCEPT !.pruned = batch.pruned \cup pruned,
                               !.left = batch.left - Cardinality(pruned)]
            d == [PassBy(b, b.task) EXCEPT !.dropped = b.dropped \cup {b.task},
                                           !.left = b.left - 1] IN
        batch' = IF pruned # TaskMessages(b.task) \/ b.left = 0 THEN More(b)
                 ELSE IF d.left = 0 THEN More(d)
                 ELSE d
  BY DEF DropTask
<1>. DEFINE b == [batch EXCEPT !.pruned = batch.pruned \cup pruned,
                               !.left = batch.left - Cardinality(pruned)]
            d == [PassBy(b, b.task) EXCEPT !.dropped = b.dropped \cup {b.task},
                                           !.left = b.left - 1]
<1>2. /\ UNCHANGED <<vars, cursor>> /\ batch.at = "messages" /\ batch.at \in Running
      /\ Fresh(batch) /\ Spent(batch)
  BY DEF DropTask, At, Running, Paid
<1>3. /\ pruned \subseteq TaskMessages(t) /\ pruned \in SUBSET MessageIds
      /\ Cardinality(pruned) \in Nat /\ Cardinality(pruned) <= batch.left
  <2>1. pruned \subseteq TaskMessages(t) /\ pruned \in SUBSET MessageIds
    BY DEF UpTo, TaskMessages
  <2>2. Cardinality(pruned) \in Nat /\ batch.left \in Nat
    BY <1>2, <2>1, Sizes DEF Spent
  <2>. QED
    BY <2>1, <2>2 DEF UpTo
<1>4. /\ batch \in Batches /\ t \in batch.page /\ t \in Tasks /\ t \in Nat
  BY <1>2, Working
<1>5. /\ b \in Batches /\ b.at = "messages" /\ b.page = batch.page
      /\ b.gone = batch.gone /\ b.orphans = batch.orphans
      /\ b.dropped = batch.dropped /\ b.task = t
      /\ b.pruned = batch.pruned \cup pruned
      /\ b.left = batch.left - Cardinality(pruned)
  <2>1. /\ batch.pruned \cup pruned \in SUBSET MessageIds
        /\ batch.left - Cardinality(pruned) \in Int /\ batch \in Batches
    BY <1>2, <1>3, <1>4, Working DEF Batches
  <2>. QED
    BY <1>2, <2>1 DEF Batches
<1>. HIDE DEF b
<1>6. d = [b EXCEPT !.at = "task", !.next = t, !.page = batch.page \ {t},
                    !.dropped = batch.dropped \cup {t}, !.left = b.left - 1]
  BY <1>5 DEF PassBy, Batches
<1>7. /\ d \in Batches /\ d.at = "task" /\ d.page = batch.page \ {t}
      /\ d.gone = batch.gone /\ d.dropped = batch.dropped \cup {t}
      /\ d.left = b.left - 1 /\ d.pruned = b.pruned /\ d.orphans = b.orphans
  <2>1. /\ batch.page \ {t} \in SUBSET Tasks
        /\ batch.dropped \cup {t} \in SUBSET Tasks /\ b.left - 1 \in Int
    BY <1>4, <1>5 DEF Batches
  <2>. HIDE DEF d, t
  <2>. QED
    BY <1>4, <1>5, <1>6, <2>1 DEF Batches, Running
<1>. HIDE DEF d
(* The messages of the task were not marked before.                         *)
<1>8. /\ Cardinality(b.orphans \cup b.pruned)
           = Cardinality(batch.orphans \cup batch.pruned) + Cardinality(pruned)
      /\ Cardinality(batch.orphans \cup batch.pruned) \in Nat
  <2>1. (batch.orphans \cup batch.pruned) \cap pruned = {}
    BY <1>2, <1>3, <1>4 DEF Fresh, TaskMessages
  <2>2. /\ IsFiniteSet(MessageIds) /\ batch.orphans \cup batch.pruned \in SUBSET MessageIds
    BY <1>4, CollectorAssumption DEF Batches
  <2>3. IsFiniteSet(batch.orphans \cup batch.pruned) /\ IsFiniteSet(pruned)
    BY <1>3, <2>2, FS_Subset
  <2>4. b.orphans \cup b.pruned = (batch.orphans \cup batch.pruned) \cup pruned
    BY <1>5
  <2>. QED
    BY <2>1, <2>3, <2>4, CountApart, Zenon
<1>9. Cardinality(d.dropped) = Cardinality(batch.dropped) + 1
  <2>1. t \notin batch.dropped
    BY <1>2, <1>4 DEF Fresh
  <2>2. batch.dropped \in SUBSET Tasks /\ IsFiniteSet(Tasks)
    BY <1>4, CollectorAssumption DEF Batches
  <2>3. IsFiniteSet(batch.dropped)
    BY <2>2, FS_Subset
  <2>. QED
    BY <1>7, <2>1, <2>3, FS_AddElement, Zenon
<1>10. /\ batch.left \in Nat
       /\ MaxRows = batch.left + Cardinality(OperationRows(batch.gone))
                      + Cardinality(AttemptsOf(batch.gone))
                      + Cardinality(batch.orphans \cup batch.pruned)
                      + Cardinality(batch.dropped)
  BY <1>2 DEF Spent
<1>11. b.left \in Nat
  BY <1>3, <1>5, <1>10
<1>12. MaxRows = b.left + Cardinality(OperationRows(b.gone))
                   + Cardinality(AttemptsOf(b.gone))
                   + Cardinality(b.orphans \cup b.pruned) + Cardinality(b.dropped)
  BY <1>2, <1>3, <1>5, <1>8, <1>10, Counting
<1>13. CASE pruned # TaskMessages(t) \/ b.left = 0
  <2>1. batch' = More(b)
    BY <1>1, <1>5, <1>13 DEF b
  <2>2. /\ batch'.at = "end" /\ batch'.page = {} /\ batch'.left = b.left
        /\ batch'.orphans = b.orphans /\ batch'.gone = b.gone
        /\ batch'.pruned = b.pruned /\ batch'.dropped = b.dropped
    BY <1>5, <2>1 DEF More, Batches
  <2>3. Fresh(batch')
    BY <2>2 DEF Fresh
  <2>4. Spent(batch')
    BY <1>11, <1>12, <2>2 DEF Spent
  <2>. QED
    BY <1>2, <2>3, <2>4, StepPaid
<1>14. CASE ~(pruned # TaskMessages(t) \/ b.left = 0)
  <2>1. Fresh(d)
    <3>1. \A u \in d.page : u \in batch.page /\ u # t
      BY <1>7
    <3>2. \A u \in d.page : u \notin d.dropped
      BY <1>2, <1>7, <3>1 DEF Fresh
    <3>3. ASSUME NEW u \in d.page, NEW m \in d.orphans \cup d.pruned
          PROVE  message[m].env.task # u
      <4>1. CASE m \in pruned
        BY <1>3, <3>1, <4>1 DEF TaskMessages
      <4>2. CASE m \in batch.orphans \cup batch.pruned
        BY <1>2, <3>1, <4>2 DEF Fresh
      <4>. QED
        BY <1>5, <1>7, <4>1, <4>2
    <3>. QED
      BY <1>7, <3>2, <3>3 DEF Fresh
  <2>2. Spent(d)
    <3>1. d.left \in Nat
      BY <1>7, <1>11, <1>14
    <3>2. MaxRows = d.left + Cardinality(OperationRows(d.gone))
                      + Cardinality(AttemptsOf(d.gone))
                      + Cardinality(d.orphans \cup d.pruned) + Cardinality(d.dropped)
      BY <1>2, <1>3, <1>5, <1>7, <1>8, <1>9, <1>11, <1>12, Counting
    <3>. QED
      BY <1>7, <3>1, <3>2 DEF Spent
  <2>3. batch' \in {d, More(d)}
    BY <1>1, <1>5, <1>14 DEF b, d
  <2>4. CASE batch' = d
    BY <1>2, <2>1, <2>2, <2>4, StepPaid
  <2>5. CASE batch' = More(d)
    BY <1>2, <1>7, <2>2, <2>5, MorePaid
  <2>. QED
    BY <2>3, <2>4, <2>5
<1>. QED
  BY <1>13, <1>14

LEMMA NextPaid == CInv /\ Paid /\ [CollectorNext]_allVars => Paid'
<1>. SUFFICES ASSUME CInv, Paid, [CollectorNext]_allVars PROVE Paid'
  OBVIOUS
<1>1. CASE UNCHANGED allVars
  <2>1. UNCHANGED <<vars, cursor, batch>>
    BY <1>1 DEF allVars, collectorVars
  <2>. QED
    BY <2>1, StepPaid DEF Paid
<1>2. CASE Step
  BY <1>2, BeginPaid, DeferPaid, OpenPaid, TakeOperationPaid, SkipOversizedPaid,
     StopAtOperationPaid, LeaveOperationsPaid, DropTaskPaid, EndPagePaid
  DEF Step
<1>3. CASE Call \/ Fail \/ Others \/ \E lost \in BOOLEAN : Commit(lost)
  <2>1. batch'.at \in {"idle", "called"}
    BY <1>3 DEF Call, Fail, Others, Commit, At, NoBatch, Blank, collectorVars
  <2>. QED
    BY <2>1 DEF Paid, Running
<1>. QED
  BY <1>1, <1>2, <1>3 DEF CollectorNext

(* No call removes more rows than its budget, and every row that it removes *)
(* is paid for once, whatever the graphs and the order in which they come;  *)
(* messages are never asked for with an empty budget.                       *)
THEOREM BudgetHolds == CollectorSpec => []BudgetIsKept
<1>1. CollectorInit => Paid
  BY DEF CollectorInit, NoBatch, Blank, Paid, Running
<1>2. CInv /\ Paid => BudgetIsKept
  BY DEF CInv, BInv, Batches, Running, Paid, Spent, BudgetIsKept, At
<1>. QED
  BY <1>1, <1>2, CollectorInvariant, NextPaid, PTL DEF CollectorSpec
=============================================================================
