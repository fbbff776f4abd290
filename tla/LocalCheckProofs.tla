-------------------------- MODULE LocalCheckProofs --------------------------
(***************************************************************************)
(* What LocalCheck promises for any identifiers, processes and exits: the  *)
(* command runs once, alone in its workspace, and verdicts are proved.     *)
(*                                                                         *)
(* The inductive invariant says how far a task has come by where the check *)
(* that owns it stands, and that the receipts which a call carries, or gc  *)
(* is about to remove, are those of the task as it is, or older.           *)
(***************************************************************************)
EXTENDS LocalCheck, TLAPS

(* A check from the creation of its task to its receipt owns the task.      *)
Owner == {"operation", "intend", "ready", "offer", "run", "running", "report",
          "lose", "save", "writeReceipt"}
Late == {"load", "see", "verify", "seeTask", "finalize", "status", "confirm", "done"}
Cleaning == {"loadOld", "seeGone", "remove"}
Places == {"idle"} \cup Opening \cup Owner \cup Late \cup Cleaning

Files == Receipts \cup {NoReceipt, Partial}
MaybeReceipts == Receipts \cup {NoReceipt}
MaybeConfigs == Configs \cup {NoConfig}

RowType == [task : {"absent", "open", "closed"}, closed : Int, op : OpStates,
            config : MaybeConfigs, intent : MaybeConfigs,
            report : MaybeReceipts, observed : MaybeReceipts]
CallType == [at : Places, command : {"none", "check", "status", "recover", "gc"},
             id : Ids \cup {NoId}, config : MaybeConfigs, seen : OpStates,
             receipt : MaybeReceipts]

TypeOK ==
  /\ now \in Times
  /\ rows \in [Ids -> RowType]
  /\ file \in [Ids -> Files]
  /\ call \in [Calls -> CallType]
  /\ child \in [Ids -> BOOLEAN]
  /\ runs \in [Ids -> Nat]
  /\ outcome \in [Ids -> MaybeReceipts]
  /\ used \in SUBSET Ids

(* How far a task has come, and what that says of its command and receipt.  *)
RowInv(i) ==
  /\ runs[i] <= 1
  /\ child[i] => rows[i].op \in {"executing", "unknown_outcome"} /\ runs[i] = 1
  /\ outcome[i].finished <= now
  /\ file[i] # NoReceipt \/ rows[i].task # "absent" => i \in used
  /\ rows[i].task = "absent" => /\ rows[i] = NoRow
                                /\ Complete(file[i]) => file[i].finished < now
  /\ rows[i].op # "none" => rows[i].config \in Configs
  /\ rows[i].op \in {"none", "proposed", "ready"} /\ rows[i].task # "absent" => runs[i] = 0
  /\ rows[i].op \in {"none", "proposed", "ready", "executing"} => rows[i].report = NoReceipt
  /\ rows[i].op \notin Decided => rows[i].observed = NoReceipt
  /\ rows[i].op \in {"verifying"} \cup Decided =>
       runs[i] = 1 /\ rows[i].report = outcome[i] /\ outcome[i] \in Receipts
  /\ rows[i].op \in Decided =>
       /\ rows[i].observed = outcome[i] /\ file[i] = outcome[i]
       /\ rows[i].op = Verdict(outcome[i])
  /\ rows[i].task = "closed" =>
       /\ rows[i].op \in Decided
       /\ outcome[i].finished <= rows[i].closed /\ rows[i].closed <= now

(* A report that a call of today's has made, or none.                       *)
Fresh(i) == rows[i].report = NoReceipt \/ rows[i].report.finished = now

(* A receipt that was there before the task.                                *)
OldFile(i) == Complete(file[i]) => file[i].finished < now

(* Where the owner of a task stands says how far the task has come.         *)
Owning(c) ==
  LET i == call[c].id
      r == call[c].receipt IN
  /\ rows[i].task = "open" /\ OldFile(i) /\ Fresh(i)
  /\ At(c, "operation") => rows[i].op = "none"
  /\ At(c, "intend") => rows[i].op = "proposed"
  /\ At(c, "ready") => rows[i].op = "proposed"
  /\ At(c, "offer") => rows[i].op = "ready"
  /\ At(c, "run") => rows[i].op = "executing" /\ runs[i] = 0 /\ ~child[i]
  /\ At(c, "running") => rows[i].op = "executing" /\ runs[i] = 1 /\ child[i]
  /\ At(c, "report") => rows[i].op = "executing" /\ runs[i] = 1 /\ ~child[i]
  /\ At(c, "lose") => rows[i].op \in {"executing", "verifying"}
  /\ At(c, "save") \/ At(c, "writeReceipt") => rows[i].op = "verifying"
  /\ At(c, "writeReceipt") => file[i] = Partial
  /\ At(c, "report") \/ At(c, "save") \/ At(c, "writeReceipt") =>
       r \in Receipts /\ r = outcome[i] /\ r.finished = now

CallInv(c) ==
  LET i == call[c].id
      r == call[c].receipt IN
  /\ At(c, "idle") => call[c] = NoCall
  /\ ~At(c, "idle") => i \in Ids
  /\ call[c].command = "gc" <=> call[c].at \in Cleaning
  /\ call[c].at \in Opening \cup Owner => call[c].config \in Configs
  /\ call[c].at \in Owner => Owning(c)
  /\ call[c].at \in Late => i \in used
  /\ At(c, "see") => r \in Receipts /\ (r = file[i] \/ (r.finished < now /\ Fresh(i)))
  /\ At(c, "verify") =>
       /\ r \in Receipts /\ r = file[i] /\ r = rows[i].report
       /\ rows[i].op \in {"verifying", "unknown_outcome"} \cup Decided
       /\ rows[i].task = "closed" => rows[i].closed = now
  /\ At(c, "confirm") => \/ rows[i].task = "absent"
                         \/ rows[i].op \in Decided /\ call[c].seen = rows[i].op
  /\ At(c, "done") => /\ call[c].seen = Verdict(r)
                      /\ rows[i].task # "absent" => rows[i].op \in Decided /\ r = outcome[i]
  /\ At(c, "seeGone") => Complete(file[i])
  /\ At(c, "remove") => Complete(file[i]) /\ file[i].finished < now /\ Fresh(i)

OneOwner ==
  \A c, d \in Calls :
    call[c].at \in Owner /\ call[d].at \in Owner /\ call[c].id = call[d].id => c = d

OneCollector ==
  \A c, d \in Calls : call[c].command = "gc" /\ call[d].command = "gc" => c = d

(* The reservations of the store.                                           *)
Reserved ==
  \A i, j \in Ids : rows[i].op \in Reserving /\ rows[j].op \in Reserving /\ i # j =>
    WorkspaceOf[rows[i].config] # WorkspaceOf[rows[j].config]

RowsInv == \A i \in Ids : RowInv(i)
CallsInv == \A c \in Calls : CallInv(c)

IInv == TypeOK /\ RowsInv /\ CallsInv /\ OneOwner /\ OneCollector /\ Reserved

-----------------------------------------------------------------------------
(* Receipts, and files that are none.                                       *)
LEMMA FilesApart ==
  /\ NoReceipt \notin Receipts /\ Partial \notin Receipts
  /\ \A f \in Files : Complete(f) <=> f \in Receipts
  /\ \A r \in MaybeReceipts : r \in Receipts \/ r = NoReceipt
<1>1. \A r \in Receipts : r.config \in Configs
  BY DEF Receipts
<1>2. NoReceipt.config = NoConfig /\ Partial.config = NoConfig
  BY DEF NoReceipt, Partial
<1>3. NoReceipt \notin Receipts /\ Partial \notin Receipts
  BY <1>1, <1>2, LocalCheckAssumption
<1>. QED
  BY <1>3 DEF Complete, Files, MaybeReceipts

LEMMA ReceiptTypes ==
  /\ NoReceipt \in MaybeReceipts
  /\ \A r \in MaybeReceipts : r.finished \in Int
  /\ \A r \in Receipts : Verdict(r) \in Decided
BY DEF MaybeReceipts, Receipts, NoReceipt, Verdict, Decided, Times

LEMMA EmptyTypes == NoRow \in RowType /\ NoCall \in CallType
BY ReceiptTypes DEF NoRow, NoCall, RowType, CallType, OpStates, MaybeConfigs, Places

LEMMA PlacesApart ==
  /\ "idle" \notin Opening \cup Owner \cup Late \cup Cleaning
  /\ Opening \cap Owner = {} /\ Opening \cap Late = {} /\ Owner \cap Late = {}
  /\ Cleaning \cap (Opening \cup Owner \cup Late) = {}
  /\ {"see", "verify", "confirm", "done"} \subseteq Late
  /\ {"loadOld", "seeGone", "remove"} \subseteq Cleaning
BY DEF Opening, Owner, Late, Cleaning

(* What IInv says of one call, and of the task that it is about.            *)
LEMMA CallKnown ==
  ASSUME IInv, NEW c \in Calls, ~At(c, "idle")
  PROVE  call[c].id \in Ids /\ CallInv(c) /\ RowInv(call[c].id)
BY DEF IInv, CallsInv, RowsInv, CallInv

(* A check that owns its task is the only one, and the task is undecided.   *)
LEMMA Undecided ==
  ASSUME IInv, NEW c \in Calls, call[c].at \in Owner
  PROVE  /\ rows[call[c].id].op \notin Decided
         /\ rows[call[c].id].task = "open"
         /\ \A d \in Calls : d # c /\ call[d].id = call[c].id =>
              call[d].at \notin Owner \cup {"verify", "confirm", "done"}
<1> DEFINE i == call[c].id
<1>1. ~At(c, "idle")
  BY PlacesApart DEF At
<1>2. i \in Ids /\ CallInv(c) /\ RowInv(i)
  BY <1>1, CallKnown
<1>3. rows[i].task = "open" /\ OldFile(i) /\ Fresh(i)
  BY <1>2 DEF CallInv, Owning
<1>4. file[i] \in Receipts => file[i].finished < now
  BY <1>3, FilesApart DEF OldFile, Complete
<1>5. ~(file[i] \in Receipts /\ file[i] = rows[i].report)
  BY <1>2, <1>3, <1>4, FilesApart, ReceiptTypes DEF Fresh, IInv, TypeOK, Times, MaybeReceipts
<1>6. rows[i].op \notin Decided
  BY <1>2, <1>5 DEF RowInv
<1>7. ASSUME NEW d \in Calls, d # c, call[d].id = i
      PROVE  call[d].at \notin Owner \cup {"verify", "confirm", "done"}
  <2>1. CallInv(d)
    BY DEF IInv, CallsInv
  <2>2. call[d].at \notin Owner
    BY <1>7 DEF IInv, OneOwner
  <2>3. ~At(d, "verify")
    BY <2>1, <1>5, <1>7 DEF CallInv
  <2>4. ~At(d, "confirm") /\ ~At(d, "done")
    BY <2>1, <1>3, <1>6, <1>7 DEF CallInv
  <2>. QED
    BY <2>2, <2>3, <2>4 DEF At
<1>. QED
  BY <1>3, <1>6, <1>7

-----------------------------------------------------------------------------
(* A step of one call about one task.                                       *)
Others(c) == \A d \in Calls : d # c => call'[d] = call[d]

OtherTasks(i) ==
  \A j \in Ids : j # i => /\ rows'[j] = rows[j] /\ file'[j] = file[j]
                          /\ child'[j] = child[j] /\ runs'[j] = runs[j]
                          /\ outcome'[j] = outcome[j]

(* It becomes neither a second owner nor a second gc.                       *)
StaysAlone(c) ==
  /\ call'[c].at \in Owner =>
       \A d \in Calls : d # c /\ call[d].at \in Owner => call[d].id # call'[c].id
  /\ call'[c].command = "gc" => \A d \in Calls : d # c => call[d].command # "gc"

LEMMA Alone ==
  ASSUME IInv, NEW c \in Calls, Others(c), StaysAlone(c)
  PROVE  OneOwner' /\ OneCollector'
BY DEF IInv, OneOwner, OneCollector, Others, StaysAlone

LEMMA KeepsAlone ==
  ASSUME IInv, NEW c \in Calls,
         call'[c].at \in Owner => call[c].at \in Owner /\ call'[c].id = call[c].id,
         call'[c].command = "gc" => call[c].command = "gc"
  PROVE  StaysAlone(c)
BY DEF IInv, OneOwner, OneCollector, StaysAlone

LEMMA Frame ==
  ASSUME IInv, TypeOK', NEW c \in Calls, NEW i \in Ids,
         Others(c), OtherTasks(i), now' = now, used \subseteq used',
         RowInv(i)', CallInv(c)', StaysAlone(c), Reserved',
         \A d \in Calls : d # c /\ call[d].id = i => CallInv(d)'
  PROVE  IInv'
<1>1. ASSUME NEW j \in Ids PROVE RowInv(j)'
  <2>1. CASE j = i
    BY <2>1
  <2>2. CASE j # i
    <3>1. RowInv(j)
      BY DEF IInv, RowsInv
    <3>. QED
      BY <2>2, <3>1 DEF OtherTasks, RowInv
  <2>. QED
    BY <2>1, <2>2
<1>2. ASSUME NEW d \in Calls, d # c, call[d].id # i PROVE CallInv(d)'
  <2>1. CallInv(d) /\ call'[d] = call[d]
    BY <1>2 DEF IInv, CallsInv, Others
  <2>2. CASE At(d, "idle")
    BY <2>1, <2>2, PlacesApart DEF CallInv, At
  <2>3. CASE ~At(d, "idle")
    <3>1. call[d].id \in Ids
      BY <2>1, <2>3 DEF CallInv
    <3>2. /\ rows'[call[d].id] = rows[call[d].id] /\ file'[call[d].id] = file[call[d].id]
          /\ child'[call[d].id] = child[call[d].id] /\ runs'[call[d].id] = runs[call[d].id]
          /\ outcome'[call[d].id] = outcome[call[d].id]
      BY <3>1, <1>2 DEF OtherTasks
    <3>. QED
      BY <2>1, <3>1, <3>2 DEF CallInv, Owning, OldFile, Fresh, At
  <2>. QED
    BY <2>2, <2>3
<1>3. CallsInv'
  BY <1>2 DEF CallsInv
<1>4. RowsInv'
  BY <1>1 DEF RowsInv
<1>. QED
  BY <1>3, <1>4, Alone DEF IInv

(* A step that only reads, or touches no task.                              *)
Still == UNCHANGED <<now, rows, file, child, runs, outcome, used>>

LEMMA LookFrame ==
  ASSUME IInv, NEW c \in Calls, call'[c] \in CallType, Others(c),
         DOMAIN call' = Calls, call' \in [Calls -> CallType],
         Still, CallInv(c)', StaysAlone(c)
  PROVE  IInv'
<1>1. TypeOK'
  BY DEF IInv, TypeOK, Still
<1>2. ASSUME NEW d \in Calls, d # c PROVE CallInv(d)'
  <2>1. CallInv(d) /\ call'[d] = call[d]
    BY <1>2 DEF IInv, CallsInv, Others
  <2>. QED
    BY <2>1 DEF CallInv, Owning, OldFile, Fresh, At, Still
<1>3. RowsInv'
  BY DEF IInv, RowsInv, RowInv, Still
<1>4. CallsInv'
  BY <1>2 DEF CallsInv
<1>5. Reserved'
  BY DEF IInv, Reserved, Still
<1>. QED
  BY <1>1, <1>3, <1>4, <1>5, Alone DEF IInv

(* A call that returns, whatever its error.                                 *)
LEMMA Returns ==
  ASSUME IInv, NEW c \in Calls, call' = [call EXCEPT ![c] = NoCall], Still
  PROVE  IInv'
<1>1. call' \in [Calls -> CallType] /\ call'[c] = NoCall /\ Others(c)
  BY EmptyTypes DEF IInv, TypeOK, Others
<1>2. CallInv(c)'
  BY <1>1, PlacesApart DEF CallInv, At, NoCall
<1>3. StaysAlone(c)
  BY <1>1, PlacesApart DEF StaysAlone, NoCall
<1>. QED
  BY <1>1, <1>2, <1>3, LookFrame

(* A step of the owner of a task: the other calls about it only read.       *)
LEMMA OwnerFrame ==
  ASSUME IInv, TypeOK', NEW c \in Calls, call[c].at \in Owner,
         NEW i \in Ids, call[c].id = i,
         Others(c), OtherTasks(i), now' = now, used' = used,
         file'[i] = file[i] \/ file[i] \notin Receipts,
         Fresh(i)', RowInv(i)', CallInv(c)',
         call'[c].at \in Owner => call'[c].id = i,
         call'[c].command # "gc", Reserved'
  PROVE  IInv'
<1>2. ASSUME NEW d \in Calls, d # c, call[d].id = i PROVE CallInv(d)'
  <2>1. CallInv(d) /\ call'[d] = call[d]
    BY <1>2 DEF IInv, CallsInv, Others
  <2>2. call[d].at \notin Owner \cup {"verify", "confirm", "done"}
    BY <1>2, Undecided
  <2>3. At(d, "see") => /\ call[d].receipt \in Receipts
                        /\ \/ call[d].receipt = file'[i]
                           \/ call[d].receipt.finished < now
    BY <2>1, <1>2 DEF CallInv
  <2>4. At(d, "seeGone") \/ At(d, "remove") => file[i] \in Receipts
    BY <2>1, <1>2, FilesApart DEF CallInv, IInv, TypeOK
  <2>. QED
    BY <2>1, <2>2, <2>3, <2>4, <1>2, FilesApart DEF CallInv, At, Fresh
<1>3. StaysAlone(c)
  BY DEF StaysAlone, IInv, OneOwner
<1>. QED
  BY <1>2, <1>3, Frame
-----------------------------------------------------------------------------
(* What is known when the owner of a task takes its step.                   *)
OwnerKnown(c, i) ==
  /\ call[c].id = i /\ call[c].at \in Owner
  /\ call[c] \in CallType /\ call[c].command # "gc" /\ call[c].config \in Configs
  /\ rows[i] \in RowType /\ RowInv(i) /\ Owning(c)
  /\ rows[i].op \notin Decided /\ rows[i].task = "open"
  /\ \A r \in MaybeReceipts : r.finished \in Int

LEMMA OwnerFacts ==
  ASSUME IInv, NEW c \in Calls, call[c].at \in Owner
  PROVE  \E i \in Ids : OwnerKnown(c, i)
<1>1. ~At(c, "idle")
  BY PlacesApart DEF At
<1>2. call[c].id \in Ids /\ CallInv(c) /\ RowInv(call[c].id)
  BY <1>1, CallKnown
<1>3. call[c].command # "gc" /\ call[c].config \in Configs /\ Owning(c)
  BY <1>2, PlacesApart DEF CallInv
<1>4. call[c] \in CallType /\ rows[call[c].id] \in RowType
  BY <1>2 DEF IInv, TypeOK
<1>. QED
  BY <1>2, <1>3, <1>4, Undecided, ReceiptTypes DEF OwnerKnown

(* A step of the owner that goes on owning it.                              *)
LEMMA OwnerStays ==
  ASSUME IInv, TypeOK', NEW c \in Calls, NEW i \in Ids, OwnerKnown(c, i),
         Others(c), OtherTasks(i), now' = now, used' = used,
         file'[i] = file[i] \/ file[i] \notin Receipts,
         RowInv(i)', Owning(c)', call'[c].at \in Owner, call'[c].id = i,
         call'[c].command = call[c].command, call'[c].config = call[c].config,
         Reserved'
  PROVE  IInv'
<1>1. Fresh(i)'
  BY DEF Owning, Fresh
<1>2. CallInv(c)'
  BY PlacesApart DEF CallInv, OwnerKnown, At
<1>. QED
  BY <1>1, <1>2, OwnerFrame DEF OwnerKnown

(* A task that reserves its workspace no more than before.                  *)
LEMMA KeepsReserved ==
  ASSUME Reserved, NEW i \in Ids, OtherTasks(i),
         rows'[i].op \in Reserving =>
           rows[i].op \in Reserving /\ rows'[i].config = rows[i].config
  PROVE  Reserved'
BY DEF Reserved, OtherTasks

(* Steps before the command: the transaction of the row, and the next place. *)
Before == {<<"intend", "proposed">>, <<"ready", "proposed">>, <<"offer", "ready">>,
           <<"run", "executing">>}

LEMMA OwnerAdvances ==
  ASSUME IInv, NEW c \in Calls, NEW i \in Ids, OwnerKnown(c, i),
         NEW place, NEW row \in RowType, <<place, row.op>> \in Before,
         rows' = [rows EXCEPT ![i] = row],
         call' = [call EXCEPT ![c] = [call[c] EXCEPT !.at = place]],
         UNCHANGED <<now, file, child, runs, outcome, used>>,
         rows[i].op \in {"none", "proposed", "ready"}, row.config \in Configs,
         row.task = "open", row.report = rows[i].report, row.observed = rows[i].observed,
         Reserved'
  PROVE  IInv'
<1>1. /\ place \in {"intend", "ready", "offer", "run"}
      /\ row.op \in {"proposed", "ready", "executing"}
      /\ place \in Owner
  BY DEF Before, Owner
<1>2. /\ rows'[i] = row /\ call'[c] = [call[c] EXCEPT !.at = place]
      /\ OtherTasks(i) /\ Others(c)
  BY DEF IInv, TypeOK, OtherTasks, Others
<1>3. /\ call'[c] \in CallType /\ call'[c].at = place /\ call'[c].id = i
      /\ call'[c].command = call[c].command /\ call'[c].config = call[c].config
  BY <1>1, <1>2 DEF OwnerKnown, CallType, Places
<1>4. TypeOK'
  BY <1>2, <1>3 DEF IInv, TypeOK
<1>5. runs[i] = 0 /\ ~child[i] /\ rows[i].report = NoReceipt
  BY DEF OwnerKnown, RowInv
<1>6. RowInv(i)'
  BY <1>1, <1>2, <1>5 DEF OwnerKnown, RowInv, Decided
<1>7. OldFile(i) /\ Fresh(i)
  BY DEF OwnerKnown, Owning
<1>8. Owning(c)'
  BY <1>1, <1>2, <1>3, <1>5, <1>7 DEF Owning, At, OldFile, Fresh, Complete, Before
<1>. QED
  BY <1>1, <1>2, <1>3, <1>4, <1>6, <1>8, OwnerStays

LEMMA CreateOperationStep ==
  ASSUME IInv, NEW c \in Calls, CreateOperation(c)
  PROVE  IInv'
<1>1. call[c].at = "operation" /\ call[c].at \in Owner
  BY DEF CreateOperation, At, Owner
<1>2. PICK i \in Ids : OwnerKnown(c, i)
  BY <1>1, OwnerFacts
<1> DEFINE row == [rows[i] EXCEPT !.op = "proposed", !.config = call[c].config]
<1>3. rows[i].op = "none"
  BY <1>1, <1>2 DEF OwnerKnown, Owning, At
<1>4. /\ rows' = [rows EXCEPT ![i] = row]
      /\ call' = [call EXCEPT ![c] = [call[c] EXCEPT !.at = "intend"]]
      /\ UNCHANGED <<now, file, child, runs, outcome, used>>
  BY <1>2, <1>3 DEF CreateOperation, Transact, Continue, Row, Goto, OwnerKnown
<1>5. /\ row \in RowType /\ row.op = "proposed" /\ row.config = call[c].config
      /\ row.task = rows[i].task /\ row.report = rows[i].report
      /\ row.observed = rows[i].observed
  BY <1>2 DEF OwnerKnown, RowType, CallType, OpStates
<1>6. rows'[i] = row /\ OtherTasks(i)
  BY <1>4 DEF IInv, TypeOK, OtherTasks
<1>7. Reserved'
  BY <1>5, <1>6, KeepsReserved DEF IInv, Reserving
<1> HIDE DEF row
<1>. QED
  BY <1>2, <1>3, <1>4, <1>5, <1>7, OwnerAdvances DEF OwnerKnown, Before

LEMMA IntendStep ==
  ASSUME IInv, NEW c \in Calls, Intend(c)
  PROVE  IInv'
<1>1. call[c].at = "intend" /\ call[c].at \in Owner
  BY DEF Intend, At, Owner
<1>2. PICK i \in Ids : OwnerKnown(c, i)
  BY <1>1, OwnerFacts
<1> DEFINE row == [rows[i] EXCEPT !.intent = call[c].config]
<1>3. rows[i].op = "proposed" /\ rows[i].config \in Configs
  BY <1>1, <1>2 DEF OwnerKnown, Owning, RowInv, At
<1>4. /\ rows' = [rows EXCEPT ![i] = row]
      /\ call' = [call EXCEPT ![c] = [call[c] EXCEPT !.at = "ready"]]
      /\ UNCHANGED <<now, file, child, runs, outcome, used>>
  BY <1>2, <1>3 DEF Intend, Transact, Continue, Row, Goto, OwnerKnown
<1>5. /\ row \in RowType /\ row.op = "proposed" /\ row.config = rows[i].config
      /\ row.task = rows[i].task /\ row.report = rows[i].report
      /\ row.observed = rows[i].observed
  BY <1>2, <1>3 DEF OwnerKnown, RowType, CallType
<1>6. rows'[i] = row /\ OtherTasks(i)
  BY <1>4 DEF IInv, TypeOK, OtherTasks
<1>7. Reserved'
  BY <1>5, <1>6, KeepsReserved DEF IInv, Reserving
<1> HIDE DEF row
<1>. QED
  BY <1>2, <1>3, <1>4, <1>5, <1>7, OwnerAdvances DEF OwnerKnown, Before

LEMMA MarkReadyStep ==
  ASSUME IInv, NEW c \in Calls, MarkReady(c)
  PROVE  IInv'
<1>1. call[c].at = "ready" /\ call[c].at \in Owner
  BY DEF MarkReady, At, Owner
<1>2. PICK i \in Ids : OwnerKnown(c, i)
  BY <1>1, OwnerFacts
<1> DEFINE row == [rows[i] EXCEPT !.op = "ready"]
<1>3. rows[i].op = "proposed" /\ rows[i].config \in Configs
  BY <1>1, <1>2 DEF OwnerKnown, Owning, RowInv, At
<1>4. /\ rows' = [rows EXCEPT ![i] = row]
      /\ call' = [call EXCEPT ![c] = [call[c] EXCEPT !.at = "offer"]]
      /\ UNCHANGED <<now, file, child, runs, outcome, used>>
  BY <1>2, <1>3 DEF MarkReady, Transact, Continue, Row, Goto, OwnerKnown
<1>5. /\ row \in RowType /\ row.op = "ready" /\ row.config = rows[i].config
      /\ row.task = rows[i].task /\ row.report = rows[i].report
      /\ row.observed = rows[i].observed
  BY <1>2, <1>3 DEF OwnerKnown, RowType, OpStates
<1>6. rows'[i] = row /\ OtherTasks(i)
  BY <1>4 DEF IInv, TypeOK, OtherTasks
<1>7. Reserved'
  BY <1>5, <1>6, KeepsReserved DEF IInv, Reserving
<1> HIDE DEF row
<1>. QED
  BY <1>2, <1>3, <1>4, <1>5, <1>7, OwnerAdvances DEF OwnerKnown, Before

(* The offer, when the workspace is free; else the check returns.           *)
LEMMA OfferStep ==
  ASSUME IInv, NEW c \in Calls, Offer(c)
  PROVE  IInv'
<1>1. call[c].at = "offer" /\ call[c].at \in Owner
  BY DEF Offer, At, Owner
<1>2. PICK i \in Ids : OwnerKnown(c, i)
  BY <1>1, OwnerFacts
<1>3. rows[i].op = "ready" /\ rows[i].config \in Configs
  BY <1>1, <1>2 DEF OwnerKnown, Owning, RowInv, At
<1>4. CASE ~Free(Row(c).config)
  BY <1>4, Returns DEF Offer, Transact, Continue, Still
<1>5. CASE Free(Row(c).config)
  <2> DEFINE row == [rows[i] EXCEPT !.op = "executing"]
  <2>1. /\ rows' = [rows EXCEPT ![i] = row]
        /\ call' = [call EXCEPT ![c] = [call[c] EXCEPT !.at = "run"]]
        /\ UNCHANGED <<now, file, child, runs, outcome, used>>
    BY <1>2, <1>3, <1>5 DEF Offer, Transact, Continue, Row, Goto, OwnerKnown
  <2>2. /\ row \in RowType /\ row.op = "executing" /\ row.config = rows[i].config
        /\ row.task = rows[i].task /\ row.report = rows[i].report
        /\ row.observed = rows[i].observed
    BY <1>2, <1>3 DEF OwnerKnown, RowType, OpStates
  <2>3. rows'[i] = row /\ OtherTasks(i)
    BY <2>1 DEF IInv, TypeOK, OtherTasks
  <2>4. \A j \in Ids : rows[j].op \in Reserving =>
          WorkspaceOf[rows[j].config] # WorkspaceOf[rows[i].config]
    BY <1>2, <1>5 DEF Free, Row, OwnerKnown
  <2> HIDE DEF row
  <2>5. Reserved'
    <3>1. \A j \in Ids : j # i => rows'[j] = rows[j]
      BY <2>3 DEF OtherTasks
    <3>2. rows'[i].config = rows[i].config
      BY <2>2, <2>3
    <3>. QED
      BY <2>4, <3>1, <3>2 DEF IInv, Reserved
  <2>. QED
    BY <1>2, <1>3, <2>1, <2>2, <2>5, OwnerAdvances DEF OwnerKnown, Before
<1>. QED
  BY <1>4, <1>5
-----------------------------------------------------------------------------
(* The command.                                                             *)
LEMMA RunStep ==
  ASSUME IInv, NEW c \in Calls, Run(c)
  PROVE  IInv'
<1>1. call[c].at = "run" /\ call[c].at \in Owner
  BY DEF Run, At, Owner
<1>2. PICK i \in Ids : OwnerKnown(c, i)
  BY <1>1, OwnerFacts
<1>3. /\ call' = [call EXCEPT ![c] = [call[c] EXCEPT !.at = "running"]]
      /\ child' = [child EXCEPT ![i] = TRUE] /\ runs' = [runs EXCEPT ![i] = runs[i] + 1]
      /\ UNCHANGED <<now, rows, file, outcome, used>>
  BY <1>2 DEF Run, OwnerKnown
<1>4. rows[i].op = "executing" /\ runs[i] = 0 /\ OldFile(i) /\ Fresh(i)
  BY <1>1, <1>2 DEF OwnerKnown, Owning, At
<1>5. /\ call'[c] \in CallType /\ call'[c].at = "running" /\ call'[c].id = i
      /\ call'[c].command = call[c].command /\ call'[c].config = call[c].config
  BY <1>2, <1>3 DEF IInv, TypeOK, OwnerKnown, CallType, Places, Owner
<1>6. Others(c) /\ OtherTasks(i) /\ child'[i] /\ runs'[i] = 1
  BY <1>3, <1>4 DEF IInv, TypeOK, Others, OtherTasks
<1>7. TypeOK'
  BY <1>3, <1>5 DEF IInv, TypeOK
<1>8. RowInv(i)'
  BY <1>2, <1>3, <1>4, <1>6 DEF OwnerKnown, RowInv, Decided
<1>9. Owning(c)'
  BY <1>2, <1>3, <1>4, <1>5, <1>6 DEF OwnerKnown, Owning, At, OldFile, Fresh, Complete
<1>10. Reserved'
  BY <1>3 DEF IInv, Reserved
<1>11. call'[c].at \in Owner
  BY <1>5 DEF Owner
<1>. QED
  BY <1>2, <1>3, <1>5, <1>6, <1>7, <1>8, <1>9, <1>10, <1>11, OwnerStays

LEMMA FinishStep ==
  ASSUME IInv, NEW c \in Calls, NEW exit \in Exits, Finish(c, exit)
  PROVE  IInv'
<1>1. call[c].at = "running" /\ call[c].at \in Owner
  BY DEF Finish, At, Owner
<1>2. PICK i \in Ids : OwnerKnown(c, i)
  BY <1>1, OwnerFacts
<1> DEFINE receipt == [config |-> call[c].config, exit |-> exit, finished |-> now]
<1>3. /\ call' = [call EXCEPT ![c].at = "report", ![c].receipt = receipt]
      /\ child' = [child EXCEPT ![i] = FALSE] /\ outcome' = [outcome EXCEPT ![i] = receipt]
      /\ UNCHANGED <<now, rows, file, runs, used>>
  BY <1>2 DEF Finish, OwnerKnown
<1>4. rows[i].op = "executing" /\ runs[i] = 1 /\ OldFile(i) /\ Fresh(i)
  BY <1>1, <1>2 DEF OwnerKnown, Owning, At
<1>5. receipt \in Receipts /\ receipt.finished = now /\ now \in Int
  BY <1>2 DEF OwnerKnown, Receipts, IInv, TypeOK, Times
<1> HIDE DEF receipt
<1>6. /\ call'[c] \in CallType /\ call'[c].at = "report" /\ call'[c].id = i
      /\ call'[c].command = call[c].command /\ call'[c].config = call[c].config
      /\ call'[c].receipt = receipt
  BY <1>2, <1>3, <1>5 DEF IInv, TypeOK, OwnerKnown, CallType, Places, Owner, MaybeReceipts
<1>7. Others(c) /\ OtherTasks(i) /\ ~child'[i] /\ outcome'[i] = receipt
  BY <1>3, <1>4 DEF IInv, TypeOK, Others, OtherTasks
<1>8. TypeOK'
  BY <1>3, <1>5, <1>6 DEF IInv, TypeOK, MaybeReceipts
<1>9. RowInv(i)'
  BY <1>2, <1>3, <1>4, <1>5, <1>7 DEF OwnerKnown, RowInv, Decided
<1>10. Owning(c)'
  BY <1>2, <1>3, <1>4, <1>5, <1>6, <1>7
     DEF OwnerKnown, Owning, At, OldFile, Fresh, Complete
<1>11. Reserved'
  BY <1>3 DEF IInv, Reserved
<1>12. call'[c].at \in Owner
  BY <1>6 DEF Owner
<1>. QED
  BY <1>2, <1>3, <1>6, <1>7, <1>8, <1>9, <1>10, <1>11, <1>12, OwnerStays

LEMMA GiveUpStep ==
  ASSUME IInv, NEW c \in Calls, NEW dead \in BOOLEAN, GiveUp(c, dead)
  PROVE  IInv'
<1>1. call[c].at = "running" /\ call[c].at \in Owner
  BY DEF GiveUp, At, Owner
<1>2. PICK i \in Ids : OwnerKnown(c, i)
  BY <1>1, OwnerFacts
<1>3. /\ call' = [call EXCEPT ![c] = [call[c] EXCEPT !.at = "lose"]]
      /\ child' = [child EXCEPT ![i] = ~dead]
      /\ UNCHANGED <<now, rows, file, runs, outcome, used>>
  BY <1>2 DEF GiveUp, OwnerKnown
<1>4. rows[i].op = "executing" /\ runs[i] = 1 /\ OldFile(i) /\ Fresh(i)
  BY <1>1, <1>2 DEF OwnerKnown, Owning, At
<1>5. /\ call'[c] \in CallType /\ call'[c].at = "lose" /\ call'[c].id = i
      /\ call'[c].command = call[c].command /\ call'[c].config = call[c].config
  BY <1>2, <1>3 DEF IInv, TypeOK, OwnerKnown, CallType, Places, Owner
<1>6. Others(c) /\ OtherTasks(i)
  BY <1>3 DEF IInv, TypeOK, Others, OtherTasks
<1>7. TypeOK'
  BY <1>3, <1>5 DEF IInv, TypeOK
<1>8. RowInv(i)'
  BY <1>2, <1>3, <1>4 DEF OwnerKnown, RowInv, Decided
<1>9. Owning(c)'
  BY <1>2, <1>3, <1>4, <1>5 DEF OwnerKnown, Owning, At, OldFile, Fresh, Complete
<1>10. Reserved'
  BY <1>3 DEF IInv, Reserved
<1>11. call'[c].at \in Owner
  BY <1>5 DEF Owner
<1>. QED
  BY <1>2, <1>3, <1>5, <1>6, <1>7, <1>8, <1>9, <1>10, <1>11, OwnerStays

(* The report is of today, and that of the command that has ended.          *)
LEMMA ReportStep ==
  ASSUME IInv, NEW c \in Calls, NEW lost \in BOOLEAN, Report(c, lost)
  PROVE  IInv'
<1>1. call[c].at = "report" /\ call[c].at \in Owner
  BY DEF Report, At, Owner
<1>2. PICK i \in Ids : OwnerKnown(c, i)
  BY <1>1, OwnerFacts
<1> DEFINE row == [rows[i] EXCEPT !.op = "verifying", !.report = call[c].receipt]
           place == IF lost THEN "lose" ELSE "save"
<1>3. /\ rows' = [rows EXCEPT ![i] = row]
      /\ call' = [call EXCEPT ![c] = [call[c] EXCEPT !.at = place]]
      /\ UNCHANGED <<now, file, child, runs, outcome, used>>
  BY <1>2 DEF Report, Transact, Continue, Row, Goto, OwnerKnown
<1>4. /\ rows[i].op = "executing" /\ runs[i] = 1 /\ ~child[i] /\ OldFile(i)
      /\ call[c].receipt \in Receipts /\ call[c].receipt = outcome[i]
      /\ call[c].receipt.finished = now
  BY <1>1, <1>2 DEF OwnerKnown, Owning, At
<1>5. /\ row \in RowType /\ row.op = "verifying" /\ row.config = rows[i].config
      /\ row.task = rows[i].task /\ row.report = outcome[i] /\ row.observed = rows[i].observed
  BY <1>2, <1>4 DEF OwnerKnown, RowType, OpStates, MaybeReceipts
<1>6. place \in {"lose", "save"}
  OBVIOUS
<1> HIDE DEF row, place
<1>7. /\ call'[c] \in CallType /\ call'[c].at = place /\ call'[c].id = i
      /\ call'[c].command = call[c].command /\ call'[c].config = call[c].config
      /\ call'[c].receipt = call[c].receipt
  BY <1>2, <1>3, <1>6 DEF IInv, TypeOK, OwnerKnown, CallType, Places, Owner
<1>8. Others(c) /\ OtherTasks(i) /\ rows'[i] = row
  BY <1>3 DEF IInv, TypeOK, Others, OtherTasks
<1>9. TypeOK'
  BY <1>3, <1>5, <1>7 DEF IInv, TypeOK
<1>10. RowInv(i)'
  BY <1>2, <1>3, <1>4, <1>5, <1>8 DEF OwnerKnown, RowInv, Decided
<1>11. Owning(c)'
  BY <1>2, <1>3, <1>4, <1>5, <1>6, <1>7, <1>8
     DEF OwnerKnown, Owning, At, OldFile, Fresh, Complete
<1>12. Reserved'
  BY <1>4, <1>5, <1>8, KeepsReserved DEF IInv, Reserving
<1>13. call'[c].at \in Owner
  BY <1>6, <1>7 DEF Owner
<1>. QED
  BY <1>2, <1>3, <1>7, <1>8, <1>9, <1>10, <1>11, <1>12, <1>13, OwnerStays

(* A check that returns with a step of its own.                             *)
LEMMA ReturnedCall ==
  ASSUME IInv, NEW c \in Calls, call' = [call EXCEPT ![c] = NoCall]
  PROVE  /\ call' \in [Calls -> CallType] /\ Others(c) /\ CallInv(c)' /\ StaysAlone(c)
         /\ call'[c].at \notin Owner /\ call'[c].command # "gc"
<1>1. call' \in [Calls -> CallType] /\ call'[c] = NoCall /\ Others(c)
  BY EmptyTypes DEF IInv, TypeOK, Others
<1>2. CallInv(c)'
  BY <1>1, PlacesApart DEF CallInv, At, NoCall
<1>. QED
  BY <1>1, <1>2, PlacesApart DEF StaysAlone, NoCall

LEMMA LoseStep ==
  ASSUME IInv, NEW c \in Calls, Lose(c)
  PROVE  IInv'
<1>1. call[c].at = "lose" /\ call[c].at \in Owner
  BY DEF Lose, At, Owner
<1>2. PICK i \in Ids : OwnerKnown(c, i)
  BY <1>1, OwnerFacts
<1> DEFINE row == [rows[i] EXCEPT !.op = "unknown_outcome"]
<1>3. /\ rows' = [rows EXCEPT ![i] = row] /\ call' = [call EXCEPT ![c] = NoCall]
      /\ UNCHANGED <<now, file, child, runs, outcome, used>>
  BY <1>2 DEF Lose, OwnerKnown
<1>4. rows[i].op \in {"executing", "verifying"} /\ Fresh(i)
  BY <1>1, <1>2 DEF OwnerKnown, Owning, At
<1>5. /\ row \in RowType /\ row.op = "unknown_outcome" /\ row.config = rows[i].config
      /\ row.task = rows[i].task /\ row.report = rows[i].report
      /\ row.observed = rows[i].observed
  BY <1>2, <1>4 DEF OwnerKnown, RowType, OpStates
<1> HIDE DEF row
<1>6. OtherTasks(i) /\ rows'[i] = row
  BY <1>3 DEF IInv, TypeOK, OtherTasks
<1>7. TypeOK'
  BY <1>3, <1>5, ReturnedCall DEF IInv, TypeOK
<1>8. RowInv(i)'
  BY <1>2, <1>3, <1>4, <1>5, <1>6 DEF OwnerKnown, RowInv, Decided
<1>9. Fresh(i)'
  BY <1>3, <1>4, <1>5, <1>6 DEF Fresh
<1>10. Reserved'
  BY <1>4, <1>5, <1>6, KeepsReserved DEF IInv, Reserving
<1>. QED
  BY <1>2, <1>3, <1>6, <1>7, <1>8, <1>9, <1>10, ReturnedCall, OwnerFrame DEF OwnerKnown
LEMMA RefusedStep ==
  ASSUME IInv, NEW c \in Calls, RunRefused(c) \/ ReportRefused(c)
  PROVE  IInv'
<1>1. call[c].at \in {"run", "report"} /\ call[c].at \in Owner
  BY DEF RunRefused, ReportRefused, At, Owner
<1>2. PICK i \in Ids : OwnerKnown(c, i)
  BY <1>1, OwnerFacts
<1>3. /\ call' = [call EXCEPT ![c] = [call[c] EXCEPT !.at = "lose"]]
      /\ UNCHANGED <<now, rows, file, child, runs, outcome, used>>
  BY DEF RunRefused, ReportRefused, Look, Continue, Goto
<1>4. rows[i].op = "executing" /\ OldFile(i) /\ Fresh(i)
  BY <1>1, <1>2 DEF OwnerKnown, Owning, At
<1>5. /\ call'[c] \in CallType /\ call'[c].at = "lose" /\ call'[c].id = i
      /\ call'[c].command = call[c].command /\ call'[c].config = call[c].config
  BY <1>2, <1>3 DEF IInv, TypeOK, OwnerKnown, CallType, Places, Owner
<1>6. Others(c) /\ OtherTasks(i)
  BY <1>3 DEF IInv, TypeOK, Others, OtherTasks
<1>7. TypeOK'
  BY <1>3, <1>5 DEF IInv, TypeOK
<1>8. RowInv(i)'
  BY <1>2, <1>3 DEF OwnerKnown, RowInv
<1>9. Owning(c)'
  BY <1>2, <1>3, <1>4, <1>5 DEF OwnerKnown, Owning, At, OldFile, Fresh, Complete
<1>10. Reserved'
  BY <1>3 DEF IInv, Reserved
<1>11. call'[c].at \in Owner
  BY <1>5 DEF Owner
<1>. QED
  BY <1>2, <1>3, <1>5, <1>6, <1>7, <1>8, <1>9, <1>10, <1>11, OwnerStays

(* The receipt is made where none was, and is complete when it is written.  *)
LEMMA CreateReceiptStep ==
  ASSUME IInv, NEW c \in Calls, CreateReceipt(c)
  PROVE  IInv'
<1>1. call[c].at = "save" /\ call[c].at \in Owner
  BY DEF CreateReceipt, At, Owner
<1>2. PICK i \in Ids : OwnerKnown(c, i)
  BY <1>1, OwnerFacts
<1>3. CASE File(c) # NoReceipt
  BY <1>3, Returns DEF CreateReceipt, Continue, Still
<1>4. CASE File(c) = NoReceipt
  <2>1. /\ call' = [call EXCEPT ![c] = [call[c] EXCEPT !.at = "writeReceipt"]]
        /\ file' = [file EXCEPT ![i] = Partial]
        /\ UNCHANGED <<now, rows, child, runs, outcome, used>>
    BY <1>2, <1>4 DEF CreateReceipt, Continue, Goto, OwnerKnown
  <2>2. file[i] = NoReceipt /\ file[i] \notin Receipts /\ Partial \in Files
    BY <1>2, <1>4, FilesApart DEF File, OwnerKnown, Files
  <2>3. /\ rows[i].op = "verifying" /\ Fresh(i) /\ call[c].receipt \in Receipts
        /\ call[c].receipt = outcome[i] /\ call[c].receipt.finished = now
    BY <1>1, <1>2 DEF OwnerKnown, Owning, At
  <2>4. /\ call'[c] \in CallType /\ call'[c].at = "writeReceipt" /\ call'[c].id = i
        /\ call'[c].command = call[c].command /\ call'[c].config = call[c].config
        /\ call'[c].receipt = call[c].receipt
    BY <1>2, <2>1 DEF IInv, TypeOK, OwnerKnown, CallType, Places, Owner
  <2>5. Others(c) /\ OtherTasks(i) /\ file'[i] = Partial
    BY <2>1 DEF IInv, TypeOK, Others, OtherTasks
  <2>6. TypeOK'
    BY <2>1, <2>2, <2>4 DEF IInv, TypeOK
  <2>7. RowInv(i)'
    BY <1>2, <2>1, <2>3 DEF OwnerKnown, RowInv, Decided
  <2>8. Owning(c)'
    BY <1>2, <2>1, <2>3, <2>4, <2>5 DEF OwnerKnown, Owning, At, OldFile, Fresh, Complete
  <2>9. Reserved'
    BY <2>1 DEF IInv, Reserved
  <2>10. call'[c].at \in Owner
    BY <2>4 DEF Owner
  <2>. QED
    BY <1>2, <2>1, <2>2, <2>4, <2>5, <2>6, <2>7, <2>8, <2>9, <2>10, OwnerStays
<1>. QED
  BY <1>3, <1>4

LEMMA WriteReceiptStep ==
  ASSUME IInv, NEW c \in Calls, WriteReceipt(c)
  PROVE  IInv'
<1>1. call[c].at = "writeReceipt" /\ call[c].at \in Owner
  BY DEF WriteReceipt, At, Owner
<1>2. PICK i \in Ids : OwnerKnown(c, i)
  BY <1>1, OwnerFacts
<1> DEFINE goal == [call[c] EXCEPT !.at = "load", !.config = NoConfig, !.receipt = NoReceipt]
<1>3. /\ call' = [call EXCEPT ![c] = goal]
      /\ file' = [file EXCEPT ![i] = call[c].receipt]
      /\ UNCHANGED <<now, rows, child, runs, outcome, used>>
  BY <1>2 DEF WriteReceipt, Continue, Goto, OwnerKnown, CallType
<1>4. /\ rows[i].op = "verifying" /\ Fresh(i) /\ call[c].receipt \in Receipts
      /\ file[i] \notin Receipts
  BY <1>1, <1>2, FilesApart DEF OwnerKnown, Owning, At
<1>5. /\ goal \in CallType /\ goal.at = "load" /\ goal.id = i /\ goal.command # "gc"
  BY <1>2, ReceiptTypes DEF OwnerKnown, CallType, Places, Late, MaybeConfigs
<1> HIDE DEF goal
<1>6. Others(c) /\ OtherTasks(i) /\ call'[c] = goal
  BY <1>3 DEF IInv, TypeOK, Others, OtherTasks
<1>7. TypeOK'
  BY <1>3, <1>4, <1>5 DEF IInv, TypeOK, Files
<1>8. RowInv(i)'
  BY <1>2, <1>3, <1>4 DEF OwnerKnown, RowInv, Decided
<1>9. CallInv(c)'
  <2>1. i \in used
    BY <1>2 DEF OwnerKnown, RowInv
  <2>. QED
    BY <1>3, <1>5, <1>6, <2>1 DEF CallInv, At, Opening, Owner, Cleaning
<1>10. Fresh(i)' /\ Reserved'
  BY <1>3, <1>4 DEF Fresh, IInv, Reserved
<1>11. call'[c].at \notin Owner
  BY <1>5, <1>6 DEF Owner
<1>. QED
  BY <1>2, <1>3, <1>4, <1>5, <1>6, <1>7, <1>8, <1>9, <1>10, <1>11, OwnerFrame DEF OwnerKnown

-----------------------------------------------------------------------------
(* Steps that only read, or are about the directory.                        *)
LEMMA OpeningLook ==
  ASSUME IInv, NEW c \in Calls, NEW goal \in CallType, call' = [call EXCEPT ![c] = goal], Still,
         goal.at \in Opening, goal.id \in Ids, goal.config \in Configs, goal.command # "gc"
  PROVE  IInv'
<1>1. call' \in [Calls -> CallType] /\ call'[c] = goal /\ Others(c)
  BY DEF IInv, TypeOK, Others
<1>2. goal.at \notin Owner \cup Late \cup Cleaning \cup {"idle"}
  BY PlacesApart
<1>3. CallInv(c)'
  BY <1>1, <1>2, PlacesApart DEF CallInv, At
<1>4. StaysAlone(c)
  BY <1>1, <1>2 DEF StaysAlone
<1>. QED
  BY <1>1, <1>3, <1>4, LookFrame

LEMMA LateLook ==
  ASSUME IInv, NEW c \in Calls, NEW goal \in CallType, call' = [call EXCEPT ![c] = goal], Still,
         NEW i \in Ids, i \in used,
         goal.at \in Late, goal.id = i, goal.command # "gc",
         goal.at = "see" =>
           /\ goal.receipt \in Receipts
           /\ goal.receipt = file[i] \/ (goal.receipt.finished < now /\ Fresh(i)),
         goal.at = "verify" =>
           /\ goal.receipt \in Receipts /\ goal.receipt = file[i]
           /\ goal.receipt = rows[i].report /\ rows[i].op = "verifying"
           /\ rows[i].task # "closed",
         goal.at = "confirm" => rows[i].op \in Decided /\ goal.seen = rows[i].op,
         goal.at = "done" => /\ goal.seen = Verdict(goal.receipt) /\ rows[i].op \in Decided
                             /\ goal.receipt = outcome[i]
  PROVE  IInv'
<1>1. call' \in [Calls -> CallType] /\ call'[c] = goal /\ Others(c)
  BY DEF IInv, TypeOK, Others
<1>2. goal.at \notin Owner \cup Opening \cup Cleaning \cup {"idle"}
  BY PlacesApart
<1>3. CallInv(c)'
  BY <1>1, <1>2, PlacesApart DEF CallInv, At, Still, Fresh
<1>4. StaysAlone(c)
  BY <1>1, <1>2 DEF StaysAlone
<1>. QED
  BY <1>1, <1>3, <1>4, LookFrame

LEMMA CleaningLook ==
  ASSUME IInv, NEW c \in Calls, NEW goal \in CallType, call' = [call EXCEPT ![c] = goal], Still,
         NEW i \in Ids, call[c].command = "gc",
         goal.at \in Cleaning, goal.id = i, goal.command = "gc",
         goal.at = "seeGone" => file[i] \in Receipts,
         goal.at = "remove" => file[i] \in Receipts /\ file[i].finished < now /\ Fresh(i)
  PROVE  IInv'
<1>1. call' \in [Calls -> CallType] /\ call'[c] = goal /\ Others(c)
  BY DEF IInv, TypeOK, Others
<1>2. goal.at \notin Owner \cup Opening \cup Late \cup {"idle"}
  BY PlacesApart
<1>3. CallInv(c)'
  BY <1>1, <1>2, PlacesApart, FilesApart DEF CallInv, At, Still, Fresh, Complete
<1>4. StaysAlone(c)
  BY <1>1, <1>2, KeepsAlone
<1>. QED
  BY <1>1, <1>3, <1>4, LookFrame
-----------------------------------------------------------------------------
(* The start of a check, and the directory.                                 *)
LEMMA StartCheckStep ==
  ASSUME IInv, NEW c \in Calls, NEW i \in Ids, NEW config \in Configs, StartCheck(c, i, config)
  PROVE  IInv'
<1> DEFINE goal == [NoCall EXCEPT !.at = "mark", !.command = "check", !.id = i,
                                  !.config = config]
<1>1. call' = [call EXCEPT ![c] = goal] /\ Still
  BY DEF StartCheck, Still
<1>2. /\ goal \in CallType /\ goal.at \in Opening /\ goal.id = i /\ goal.config = config
      /\ goal.command = "check"
  BY ReceiptTypes DEF NoCall, CallType, Places, Opening, MaybeConfigs, OpStates
<1> HIDE DEF goal
<1>. QED
  BY <1>1, <1>2, OpeningLook

(* A check that has not made its task yet.                                  *)
LEMMA OpeningFacts ==
  ASSUME IInv, NEW c \in Calls, call[c].at \in Opening
  PROVE  /\ call[c].id \in Ids /\ call[c].config \in Configs /\ call[c].command # "gc"
         /\ call[c] \in CallType /\ CallInv(c) /\ RowInv(call[c].id)
<1>1. ~At(c, "idle")
  BY PlacesApart DEF At
<1>2. call[c].id \in Ids /\ CallInv(c) /\ RowInv(call[c].id)
  BY <1>1, CallKnown
<1>. QED
  BY <1>2, PlacesApart DEF IInv, TypeOK, CallInv

LEMMA OpeningStep ==
  ASSUME IInv, NEW c \in Calls, Mark(c) \/ WriteMark(c) \/ Open(c) \/ Begin(c)
  PROVE  IInv'
<1>1. call[c].at \in {"mark", "writeMark", "open", "begin"} /\ call[c].at \in Opening
  BY DEF Mark, WriteMark, Open, Begin, At, Opening
<1>2. /\ call[c].id \in Ids /\ call[c].config \in Configs /\ call[c].command # "gc"
      /\ call[c] \in CallType
  BY <1>1, OpeningFacts
<1>3. \/ call' = [call EXCEPT ![c] = NoCall]
      \/ \E place \in Opening : call' = [call EXCEPT ![c] = [call[c] EXCEPT !.at = place]]
  BY DEF Mark, WriteMark, Open, Begin, Look, Continue, Goto, Opening
<1>4. Still
  BY DEF Mark, WriteMark, Open, Begin, Look, Still
<1>5. CASE call' = [call EXCEPT ![c] = NoCall]
  BY <1>4, <1>5, Returns
<1>6. ASSUME NEW place \in Opening, call' = [call EXCEPT ![c] = [call[c] EXCEPT !.at = place]]
      PROVE  IInv'
  <2> DEFINE goal == [call[c] EXCEPT !.at = place]
  <2>1. /\ goal \in CallType /\ goal.at = place /\ goal.id = call[c].id
        /\ goal.config = call[c].config /\ goal.command = call[c].command
    BY <1>2 DEF CallType, Places
  <2>2. call' = [call EXCEPT ![c] = goal]
    BY <1>6
  <2> HIDE DEF goal
  <2>. QED
    BY <1>2, <1>4, <2>1, <2>2, OpeningLook
<1>. QED
  BY <1>3, <1>5, <1>6

(* A task is created: its row was empty, and a receipt that is still there  *)
(* is of an earlier day.                                                    *)
LEMMA CreateTaskStep ==
  ASSUME IInv, NEW c \in Calls, CreateTask(c)
  PROVE  IInv'
<1>1. call[c].at = "task" /\ call[c].at \in Opening
  BY DEF CreateTask, At, Opening
<1>2. PICK i \in Ids : /\ call[c].id = i /\ call[c].config \in Configs
                       /\ call[c].command # "gc" /\ call[c] \in CallType /\ RowInv(i)
  BY <1>1, OpeningFacts
<1>3. CASE rows[i].task # "absent"
  <2>1. i \in used
    BY <1>2, <1>3 DEF RowInv
  <2>2. call' = [call EXCEPT ![c] = NoCall] /\ Still
    BY <1>2, <1>3, <2>1 DEF CreateTask, Transact, Continue, Row, Still
  <2>. QED
    BY <2>2, Returns
<1>4. CASE rows[i].task = "absent"
  <2> DEFINE row == [NoRow EXCEPT !.task = "open"]
             goal == [call[c] EXCEPT !.at = "operation"]
  <2>1. /\ rows' = [rows EXCEPT ![i] = row] /\ call' = [call EXCEPT ![c] = goal]
        /\ runs' = [runs EXCEPT ![i] = 0] /\ used' = used \cup {i}
        /\ UNCHANGED <<now, file, child, outcome>> /\ Reusable(i)
    BY <1>2, <1>4 DEF CreateTask, Transact, Continue, Row, Goto
  <2>2. /\ row \in RowType /\ row.task = "open" /\ row.op = "none"
        /\ row.report = NoReceipt /\ row.observed = NoReceipt
    BY ReceiptTypes DEF NoRow, RowType, OpStates, MaybeConfigs
  <2>3. /\ goal \in CallType /\ goal.at = "operation" /\ goal.id = i
        /\ goal.config = call[c].config /\ goal.command = call[c].command
    BY <1>2 DEF CallType, Places, Owner
  <2> HIDE DEF row, goal
  <2>4. /\ Others(c) /\ OtherTasks(i) /\ rows'[i] = row /\ call'[c] = goal /\ runs'[i] = 0
    BY <2>1 DEF IInv, TypeOK, Others, OtherTasks
  <2>5. TypeOK'
    BY <2>1, <2>2, <2>3 DEF IInv, TypeOK
  <2>6. rows[i] = NoRow /\ OldFile(i) /\ ~child[i]
    BY <1>2, <1>4 DEF RowInv, OldFile, NoRow
  <2>7. RowInv(i)'
    BY <1>2, <2>1, <2>2, <2>4, <2>6 DEF RowInv, Decided
  <2>8. Owning(c)'
    BY <2>1, <2>2, <2>3, <2>4, <2>6 DEF Owning, At, OldFile, Fresh, Complete
  <2>9. CallInv(c)'
    BY <1>2, <2>3, <2>4, <2>8, PlacesApart DEF CallInv, At, Opening, Owner, Late, Cleaning
  <2>10. ASSUME NEW d \in Calls, d # c, call[d].id = i
         PROVE  call[d].at \in Opening \cup Cleaning /\ CallInv(d)'
    <3>1. CallInv(d) /\ call[d] \in CallType /\ call'[d] = call[d]
      BY <2>4, <2>10 DEF IInv, TypeOK, CallsInv, Others
    <3>2. call[d].at # "idle"
      BY <3>1, <2>10, LocalCheckAssumption DEF CallInv, At, NoCall
    <3>3. call[d].at \notin Owner
      BY <3>1, <2>10, <1>4 DEF CallInv, Owning
    <3>4. call[d].at \in Opening \cup Cleaning
      <4>1. CASE i \notin used
        BY <3>1, <3>2, <3>3, <4>1, <2>10 DEF CallInv, CallType, Places
      <4>2. CASE i \in used
        BY <3>1, <4>2, <2>1, <2>10 DEF CallInv, Reusable
      <4>. QED
        BY <4>1, <4>2
    <3>5. call[d].at \notin Late /\ Fresh(i)'
      BY <3>4, <2>2, <2>4, PlacesApart DEF Fresh
    <3>. QED
      BY <3>1, <3>2, <3>3, <3>4, <3>5, <2>1, <2>10, PlacesApart
         DEF CallInv, At, Fresh, Complete
  <2>11. StaysAlone(c)
    BY <1>2, <2>3, <2>4, <2>10, PlacesApart DEF StaysAlone
  <2>12. Reserved'
    BY <2>2, <2>4, KeepsReserved DEF IInv, Reserving
  <2>. QED
    BY <2>1, <2>4, <2>5, <2>7, <2>9, <2>10, <2>11, <2>12, Frame
<1>. QED
  BY <1>3, <1>4
-----------------------------------------------------------------------------
(* verify and status.                                                       *)
LateKnown(c, i) ==
  /\ call[c].id = i /\ call[c].at \in Late /\ i \in used
  /\ call[c] \in CallType /\ call[c].command # "gc" /\ rows[i] \in RowType
  /\ file[i] \in Files /\ now \in Int
  /\ RowInv(i) /\ CallInv(c)
  /\ \A d \in Calls : call[d].id = i /\ call[d].at \in Owner =>
       call[c].at \notin {"verify", "confirm", "done"} /\ rows[i].op \notin Decided

LEMMA LateFacts ==
  ASSUME IInv, NEW c \in Calls, call[c].at \in Late
  PROVE  \E i \in Ids : LateKnown(c, i)
<1>1. ~At(c, "idle")
  BY PlacesApart DEF At
<1>2. call[c].id \in Ids /\ CallInv(c) /\ RowInv(call[c].id)
  BY <1>1, CallKnown
<1>3. /\ call[c].id \in used /\ call[c].command # "gc" /\ call[c] \in CallType
      /\ rows[call[c].id] \in RowType /\ file[call[c].id] \in Files /\ now \in Int
  BY <1>2, PlacesApart DEF IInv, TypeOK, CallInv, Times
<1>4. \A d \in Calls : call[d].id = call[c].id /\ call[d].at \in Owner =>
        call[c].at \notin {"verify", "confirm", "done"} /\ rows[call[c].id].op \notin Decided
  BY Undecided, PlacesApart
<1>. QED
  BY <1>2, <1>3, <1>4 DEF LateKnown

LEMMA StartStatusStep ==
  ASSUME IInv, NEW c \in Calls, NEW i \in Ids, StartStatus(c, i)
  PROVE  IInv'
<1> DEFINE goal == [Found(i, "status", "confirm") EXCEPT !.seen = rows[i].op]
<1>1. call' = [call EXCEPT ![c] = goal] /\ Still /\ rows[i].op \in Decided
  BY DEF StartStatus, Look, Continue, Still
<1>2. rows[i] \in RowType /\ RowInv(i)
  BY DEF IInv, TypeOK, RowsInv
<1>3. /\ goal \in CallType /\ goal.at = "confirm" /\ goal.id = i /\ goal.seen = rows[i].op
      /\ goal.command = "status"
  BY <1>2, ReceiptTypes DEF Found, NoCall, CallType, RowType, Places, Late, MaybeConfigs
<1>4. i \in used
  BY <1>1, <1>2 DEF RowInv, NoRow, Decided
<1> HIDE DEF goal
<1>. QED
  BY <1>1, <1>3, <1>4, LateLook, PlacesApart

LEMMA StartRecoverStep ==
  ASSUME IInv, NEW c \in Calls, NEW i \in Ids, StartRecover(c, i)
  PROVE  IInv'
<1> DEFINE goal == [Found(i, "recover", "see") EXCEPT !.receipt = file[i]]
<1>1. call' = [call EXCEPT ![c] = goal] /\ Still /\ Complete(file[i])
  BY DEF StartRecover, Look, Continue, Still
<1>2. file[i] \in Receipts /\ RowInv(i)
  BY <1>1, FilesApart DEF IInv, TypeOK, RowsInv
<1>3. /\ goal \in CallType /\ goal.at = "see" /\ goal.id = i /\ goal.receipt = file[i]
      /\ goal.command = "recover"
  BY <1>2 DEF Found, NoCall, CallType, Places, Late, MaybeConfigs, MaybeReceipts, OpStates
<1>4. i \in used
  BY <1>2, FilesApart DEF RowInv
<1> HIDE DEF goal
<1>. QED
  BY <1>1, <1>2, <1>3, <1>4, LateLook, PlacesApart

LEMMA LoadStep ==
  ASSUME IInv, NEW c \in Calls, Load(c)
  PROVE  IInv'
<1>1. call[c].at \in Late
  BY DEF Load, At, Late
<1>2. PICK i \in Ids : LateKnown(c, i)
  BY <1>1, LateFacts
<1>3. CASE ~Complete(file[i])
  BY <1>2, <1>3, Returns DEF Load, Look, Continue, File, Still, LateKnown
<1>4. CASE Complete(file[i])
  <2> DEFINE goal == [call[c] EXCEPT !.at = "see", !.receipt = file[i]]
  <2>1. call' = [call EXCEPT ![c] = goal] /\ Still
    BY <1>2, <1>4 DEF Load, Look, Continue, Goto, File, Still, LateKnown, CallType
  <2>2. file[i] \in Receipts
    BY <1>2, <1>4, FilesApart DEF LateKnown
  <2>3. /\ goal \in CallType /\ goal.at = "see" /\ goal.id = i /\ goal.receipt = file[i]
        /\ goal.command # "gc"
    BY <1>2, <2>2 DEF LateKnown, CallType, Places, Late, MaybeReceipts
  <2> HIDE DEF goal
  <2>. QED
    BY <1>2, <2>1, <2>2, <2>3, LateLook, PlacesApart DEF LateKnown
<1>. QED
  BY <1>3, <1>4

(* A receipt that matches the report is not an old one.                     *)
LEMMA SeeStep ==
  ASSUME IInv, NEW c \in Calls, See(c)
  PROVE  IInv'
<1>1. call[c].at = "see" /\ call[c].at \in Late
  BY DEF See, At, Late
<1>2. PICK i \in Ids : LateKnown(c, i)
  BY <1>1, LateFacts
<1>3. CASE rows[i].op \in Decided
  <2> DEFINE goal == [call[c] EXCEPT !.at = "seeTask", !.receipt = NoReceipt]
  <2>1. call' = [call EXCEPT ![c] = goal] /\ Still
    BY <1>2, <1>3 DEF See, Look, Continue, Goto, Row, Still, LateKnown, CallType
  <2>2. /\ goal \in CallType /\ goal.at = "seeTask" /\ goal.id = i /\ goal.command # "gc"
        /\ goal.at \in Late
    BY <1>2, ReceiptTypes DEF LateKnown, CallType, Places, Late
  <2> HIDE DEF goal
  <2>. QED
    BY <1>2, <2>1, <2>2, LateLook DEF LateKnown
<1>4. CASE rows[i].op \notin Decided /\ ~Matches(c)
  BY <1>2, <1>4, Returns DEF See, Look, Continue, Row, Still, LateKnown
<1>5. CASE rows[i].op \notin Decided /\ Matches(c)
  <2> DEFINE goal == [call[c] EXCEPT !.at = "verify"]
  <2>1. call' = [call EXCEPT ![c] = goal] /\ Still
    BY <1>2, <1>5 DEF See, Look, Continue, Goto, Row, Still, LateKnown
  <2>2. /\ goal \in CallType /\ goal.at = "verify" /\ goal.id = i /\ goal.command # "gc"
        /\ goal.receipt = call[c].receipt /\ goal.at \in Late
    BY <1>2 DEF LateKnown, CallType, Places, Late
  <2>3. /\ rows[i].op = "verifying" /\ rows[i].report = call[c].receipt
        /\ rows[i].task # "closed"
    BY <1>2, <1>5 DEF Matches, Row, LateKnown, RowInv
  <2>4. /\ call[c].receipt \in Receipts
        /\ call[c].receipt = file[i] \/ (call[c].receipt.finished < now /\ Fresh(i))
    BY <1>1, <1>2 DEF LateKnown, CallInv, At
  <2>5. call[c].receipt = file[i]
    BY <1>2, <2>3, <2>4, FilesApart, ReceiptTypes DEF Fresh, LateKnown, MaybeReceipts
  <2> HIDE DEF goal
  <2>. QED
    BY <1>2, <2>1, <2>2, <2>3, <2>4, <2>5, LateLook, PlacesApart DEF LateKnown
<1>. QED
  BY <1>3, <1>4, <1>5

LEMMA SeeTaskStep ==
  ASSUME IInv, NEW c \in Calls, SeeTask(c)
  PROVE  IInv'
<1>1. call[c].at \in Late
  BY DEF SeeTask, At, Late
<1>2. PICK i \in Ids : LateKnown(c, i)
  BY <1>1, LateFacts
<1>3. CASE rows[i].task = "absent"
  BY <1>2, <1>3, Returns DEF SeeTask, Look, Continue, Row, Still, LateKnown
<1>4. CASE rows[i].task # "absent"
  <2> DEFINE place == IF rows[i].task = "closed" THEN "status" ELSE "finalize"
             goal == [call[c] EXCEPT !.at = place]
  <2>1. call' = [call EXCEPT ![c] = goal] /\ Still
    BY <1>2, <1>4 DEF SeeTask, Look, Continue, Goto, Row, Still, LateKnown
  <2>2. place \in {"status", "finalize"}
    OBVIOUS
  <2> HIDE DEF place
  <2>3. /\ goal \in CallType /\ goal.at = place /\ goal.id = i /\ goal.command # "gc"
        /\ goal.at \in Late
    BY <1>2, <2>2 DEF LateKnown, CallType, Places, Late
  <2> HIDE DEF goal
  <2>. QED
    BY <1>2, <2>1, <2>2, <2>3, LateLook DEF LateKnown
<1>. QED
  BY <1>3, <1>4

LEMMA StatusStep ==
  ASSUME IInv, NEW c \in Calls, Status(c)
  PROVE  IInv'
<1>1. call[c].at \in Late
  BY DEF Status, At, Late
<1>2. PICK i \in Ids : LateKnown(c, i)
  BY <1>1, LateFacts
<1>3. CASE rows[i].op \notin Decided
  BY <1>2, <1>3, Returns DEF Status, Look, Continue, Row, Still, LateKnown
<1>4. CASE rows[i].op \in Decided
  <2> DEFINE goal == [call[c] EXCEPT !.at = "confirm", !.seen = rows[i].op]
  <2>1. call' = [call EXCEPT ![c] = goal] /\ Still
    BY <1>2, <1>4 DEF Status, Look, Continue, Goto, Row, Still, LateKnown, CallType
  <2>2. /\ goal \in CallType /\ goal.at = "confirm" /\ goal.id = i /\ goal.command # "gc"
        /\ goal.seen = rows[i].op
    BY <1>2 DEF LateKnown, CallType, RowType, Places, Late
  <2> HIDE DEF goal
  <2>. QED
    BY <1>2, <1>4, <2>1, <2>2, LateLook, PlacesApart DEF LateKnown
<1>. QED
  BY <1>3, <1>4

LEMMA ConfirmStep ==
  ASSUME IInv, NEW c \in Calls, Confirm(c)
  PROVE  IInv'
<1>1. call[c].at = "confirm" /\ call[c].at \in Late
  BY DEF Confirm, At, Late
<1>2. PICK i \in Ids : LateKnown(c, i)
  BY <1>1, LateFacts
<1>3. CASE ~(Complete(file[i]) /\ rows[i].observed = file[i])
  BY <1>2, <1>3, Returns DEF Confirm, Look, Continue, Row, File, Still, LateKnown
<1>4. CASE Complete(file[i]) /\ rows[i].observed = file[i]
  <2> DEFINE goal == [call[c] EXCEPT !.at = "done", !.receipt = file[i]]
  <2>1. call' = [call EXCEPT ![c] = goal] /\ Still
    BY <1>2, <1>4 DEF Confirm, Look, Continue, Goto, Row, File, Still, LateKnown, CallType
  <2>2. file[i] \in Receipts
    BY <1>2, <1>4, FilesApart DEF LateKnown
  <2>3. rows[i].op \in Decided
    BY <1>2, <1>4, <2>2, FilesApart DEF LateKnown, RowInv
  <2>4. /\ call[c].seen = rows[i].op /\ rows[i].op = Verdict(outcome[i])
        /\ rows[i].observed = outcome[i]
    BY <1>1, <1>2, <2>3 DEF LateKnown, CallInv, RowInv, At, NoRow, Decided
  <2>5. /\ goal \in CallType /\ goal.at = "done" /\ goal.id = i /\ goal.command # "gc"
        /\ goal.seen = call[c].seen /\ goal.receipt = file[i]
    BY <1>2, <2>2 DEF LateKnown, CallType, Places, Late, MaybeReceipts
  <2> HIDE DEF goal
  <2>6. goal.seen = Verdict(goal.receipt) /\ goal.receipt = outcome[i] /\ goal.at \in Late
    BY <1>4, <2>4, <2>5, PlacesApart
  <2>. QED
    BY <1>2, <2>1, <2>3, <2>5, <2>6, LateLook DEF LateKnown
<1>. QED
  BY <1>3, <1>4
-----------------------------------------------------------------------------
(* The verification decides an operation whose report is the receipt.       *)
LEMMA VerifyStep ==
  ASSUME IInv, NEW c \in Calls, Verify(c)
  PROVE  IInv'
<1>1. call[c].at = "verify" /\ call[c].at \in Late
  BY DEF Verify, At, Late
<1>2. PICK i \in Ids : LateKnown(c, i)
  BY <1>1, LateFacts
<1> DEFINE r == call[c].receipt
           known == rows[i].observed = r
           new == rows[i].observed = NoReceipt /\ rows[i].op = "verifying"
           goal == [call[c] EXCEPT !.at = "seeTask", !.receipt = NoReceipt]
<1>3. r \in Receipts /\ r = file[i] /\ r = rows[i].report
  BY <1>1, <1>2 DEF LateKnown, CallInv, At
<1>4. goal = [Goto(c, "seeTask") EXCEPT !.receipt = NoReceipt]
  BY <1>2 DEF Goto, LateKnown, CallType
<1>5. /\ rows' = IF r.finished >= now - ReplayWindow /\ (known \/ new)
                 THEN [rows EXCEPT ![i] = IF known THEN rows[i]
                         ELSE [rows[i] EXCEPT !.op = Verdict(r), !.observed = r]]
                 ELSE rows
      /\ call' = [call EXCEPT ![c] = IF r.finished >= now - ReplayWindow /\ (known \/ new)
                                     THEN goal ELSE NoCall]
      /\ UNCHANGED <<now, file, child, outcome, runs, used>>
  BY <1>2, <1>4 DEF Verify, Transact, Continue, Row, LateKnown
<1>6. /\ goal \in CallType /\ goal.at = "seeTask" /\ goal.id = i /\ goal.command # "gc"
      /\ goal.at \in Late
  BY <1>2, ReceiptTypes DEF LateKnown, CallType, Places, Late
<1> HIDE DEF goal
<1>7. CASE ~(r.finished >= now - ReplayWindow /\ (known \/ new))
  BY <1>5, <1>7, Returns DEF Still
<1>8. CASE r.finished >= now - ReplayWindow /\ known
  <2>1. rows' = rows /\ call' = [call EXCEPT ![c] = goal]
    BY <1>5, <1>8 DEF IInv, TypeOK
  <2>. QED
    BY <1>2, <1>5, <1>6, <2>1, LateLook DEF LateKnown, Still
<1>9. CASE r.finished >= now - ReplayWindow /\ ~known /\ new
  <2> DEFINE row == [rows[i] EXCEPT !.op = Verdict(r), !.observed = r]
  <2>1. rows' = [rows EXCEPT ![i] = row] /\ call' = [call EXCEPT ![c] = goal]
    BY <1>5, <1>9
  <2>2. Verdict(r) \in Decided
    BY <1>3, ReceiptTypes
  <2>3. /\ row \in RowType /\ row.op = Verdict(r) /\ row.observed = r
        /\ row.task = rows[i].task /\ row.closed = rows[i].closed
        /\ row.config = rows[i].config /\ row.report = rows[i].report
    BY <1>2, <1>3, <2>2 DEF LateKnown, RowType, OpStates, MaybeReceipts, Decided
  <2> HIDE DEF row
  <2>4. rows[i].op = "verifying"
    BY <1>9
  <2> HIDE DEF r
  <2>5. /\ OtherTasks(i) /\ Others(c) /\ rows'[i] = row /\ call'[c] = goal
        /\ call' \in [Calls -> CallType]
    BY <1>5, <1>6, <2>1 DEF IInv, TypeOK, OtherTasks, Others
  <2>6. TypeOK'
    BY <1>5, <2>1, <2>3, <2>5 DEF IInv, TypeOK
  <2>7. /\ runs[i] = 1 /\ ~child[i] /\ r = outcome[i]
        /\ rows[i].task # "absent" /\ rows[i].task # "closed"
    BY <1>2, <1>3, <2>4 DEF LateKnown, RowInv, NoRow, Decided
  <2>8. RowInv(i)'
    BY <1>2, <1>3, <1>5, <2>2, <2>3, <2>4, <2>5, <2>7 DEF LateKnown, RowInv, Decided
  <2>9. CallInv(c)'
    BY <1>2, <1>5, <1>6, <2>5 DEF CallInv, At, Opening, Owner, Cleaning, LateKnown
  <2>10. ASSUME NEW d \in Calls, d # c, call[d].id = i PROVE CallInv(d)'
    <3>1. CallInv(d) /\ call'[d] = call[d]
      BY <2>5, <2>10 DEF IInv, CallsInv, Others
    <3>2. call[d].at \notin Owner
      BY <1>1, <1>2, <2>10 DEF LateKnown
    <3>3. rows[i].op \notin Decided
      BY <2>4 DEF Decided
    <3>4. rows'[i].op \in Decided /\ rows'[i].report = rows[i].report
          /\ rows'[i].task = rows[i].task
      BY <2>2, <2>3, <2>5
    <3>. QED
      BY <1>5, <2>7, <2>10, <3>1, <3>2, <3>3, <3>4 DEF CallInv, At, Fresh, Complete
  <2>11. StaysAlone(c)
    BY <1>6, <2>5, PlacesApart DEF StaysAlone
  <2>12. Reserved'
    BY <2>2, <2>3, <2>5, KeepsReserved DEF IInv, Reserving, Decided
  <2>. QED
    BY <1>5, <2>5, <2>6, <2>8, <2>9, <2>10, <2>11, <2>12, Frame
<1>. QED
  BY <1>7, <1>8, <1>9

LEMMA FinalizeStep ==
  ASSUME IInv, NEW c \in Calls, Finalize(c)
  PROVE  IInv'
<1>1. call[c].at = "finalize" /\ call[c].at \in Late
  BY DEF Finalize, At, Late
<1>2. PICK i \in Ids : LateKnown(c, i)
  BY <1>1, LateFacts
<1>3. CASE ~(rows[i].task = "open" /\ rows[i].op \in Decided)
  BY <1>2, <1>3, Returns DEF Finalize, Transact, Continue, Row, Still, LateKnown
<1>4. CASE rows[i].task = "open" /\ rows[i].op \in Decided
  <2> DEFINE row == [rows[i] EXCEPT !.task = "closed", !.closed = now]
             goal == [call[c] EXCEPT !.at = "status"]
  <2>1. /\ rows' = [rows EXCEPT ![i] = row] /\ call' = [call EXCEPT ![c] = goal]
        /\ UNCHANGED <<now, file, child, outcome, runs, used>>
    BY <1>2, <1>4 DEF Finalize, Transact, Continue, Row, Goto, LateKnown
  <2>2. /\ row \in RowType /\ row.op = rows[i].op /\ row.observed = rows[i].observed
        /\ row.task = "closed" /\ row.closed = now
        /\ row.config = rows[i].config /\ row.report = rows[i].report
    BY <1>2 DEF LateKnown, RowType
  <2>3. /\ goal \in CallType /\ goal.at = "status" /\ goal.id = i /\ goal.command # "gc"
    BY <1>2 DEF LateKnown, CallType, Places, Late
  <2> HIDE DEF row, goal
  <2>4. /\ OtherTasks(i) /\ Others(c) /\ rows'[i] = row /\ call'[c] = goal
    BY <2>1 DEF IInv, TypeOK, OtherTasks, Others
  <2>5. TypeOK'
    BY <2>1, <2>2, <2>3 DEF IInv, TypeOK
  <2>6. RowInv(i)'
    BY <1>2, <1>4, <2>1, <2>2, <2>4 DEF LateKnown, RowInv, Decided
  <2>7. CallInv(c)'
    BY <1>2, <2>1, <2>3, <2>4 DEF CallInv, At, Opening, Owner, Cleaning, LateKnown
  <2>8. ASSUME NEW d \in Calls, d # c, call[d].id = i PROVE CallInv(d)'
    <3>1. CallInv(d) /\ call'[d] = call[d]
      BY <2>4, <2>8 DEF IInv, CallsInv, Others
    <3>2. call[d].at \notin Owner
      BY <1>2, <1>4, <2>8 DEF LateKnown
    <3>. QED
      BY <1>4, <2>1, <2>2, <2>4, <2>8, <3>1, <3>2 DEF CallInv, At, Fresh, Complete
  <2>9. StaysAlone(c)
    BY <2>3, <2>4 DEF StaysAlone, Owner
  <2>10. Reserved'
    BY <2>2, <2>4, KeepsReserved DEF IInv
  <2>. QED
    BY <2>1, <2>4, <2>5, <2>6, <2>7, <2>8, <2>9, <2>10, Frame
<1>. QED
  BY <1>3, <1>4
-----------------------------------------------------------------------------
(* gc: a task that goes was closed on an earlier day than its receipt is    *)
(* removed, and nobody relies on that.                                      *)
LEMMA StartCollectStep ==
  ASSUME IInv, NEW c \in Calls, NEW i \in Ids, NEW gone \in SUBSET Ids,
         StartCollect(c, i, gone)
  PROVE  IInv'
<1> DEFINE goal == Found(i, "gc", "loadOld")
<1>1. /\ call' = [call EXCEPT ![c] = goal]
      /\ rows' = [j \in Ids |-> IF j \in gone THEN NoRow ELSE rows[j]]
      /\ UNCHANGED <<now, file, child, runs, outcome, used>>
      /\ \A d \in Calls : call[d].command # "gc"
      /\ \A j \in gone : rows[j].task = "closed" /\ rows[j].closed < now - TerminalRetention
  BY DEF StartCollect
<1>2. /\ goal \in CallType /\ goal.at = "loadOld" /\ goal.id = i /\ goal.command = "gc"
  BY ReceiptTypes DEF Found, NoCall, CallType, Places, Cleaning, MaybeConfigs, OpStates
<1> HIDE DEF goal
<1>3. call'[c] = goal /\ Others(c) /\ call' \in [Calls -> CallType]
  BY <1>1, <1>2 DEF IInv, TypeOK, Others
<1>4. TypeOK'
  BY <1>1, <1>3, EmptyTypes DEF IInv, TypeOK
<1>5. ASSUME NEW j \in gone
      PROVE  /\ rows[j].task = "closed" /\ rows[j].closed < now /\ rows'[j] = NoRow
             /\ rows[j].op \in Decided /\ file[j] = outcome[j] /\ outcome[j].finished < now
             /\ ~child[j] /\ runs[j] <= 1 /\ j \in used
  <2>1. j \in Ids /\ RowInv(j) /\ rows[j] \in RowType /\ outcome[j].finished \in Int
    BY ReceiptTypes DEF IInv, RowsInv, TypeOK
  <2>2. rows[j].closed \in Int /\ now \in Int /\ TerminalRetention \in Nat
    BY <2>1, LocalCheckAssumption DEF RowType, IInv, TypeOK, Times
  <2>3. rows[j].task = "closed" /\ rows[j].closed < now
    BY <1>1, <2>2
  <2>. QED
    BY <1>1, <2>1, <2>2, <2>3 DEF RowInv, Decided
<1>6. ASSUME NEW j \in Ids PROVE RowInv(j)'
  <2>1. RowInv(j)
    BY DEF IInv, RowsInv
  <2>2. CASE j \notin gone
    BY <1>1, <2>1, <2>2 DEF RowInv
  <2>3. CASE j \in gone
    BY <1>1, <1>5, <2>1, <2>3 DEF RowInv, NoRow, Decided
  <2>. QED
    BY <2>2, <2>3
<1>7. CallInv(c)'
  BY <1>2, <1>3 DEF CallInv, At, Opening, Owner, Late, Cleaning
<1>8. ASSUME NEW d \in Calls, d # c PROVE CallInv(d)'
  <2>1. CallInv(d) /\ call'[d] = call[d]
    BY <1>3, <1>8 DEF IInv, CallsInv, Others
  <2>2. CASE call[d].id \in Ids \ gone
    <3>1. rows'[call[d].id] = rows[call[d].id]
      BY <1>1, <2>2
    <3>. QED
      BY <1>1, <2>1, <3>1 DEF CallInv, Owning, OldFile, Fresh, At, Complete
  <2>3. CASE call[d].id \in gone
    <3>1. call[d].at \notin Owner \cup {"verify"}
      <4>1. rows[call[d].id].task = "closed" /\ rows[call[d].id].closed # now
        BY <1>5, <2>3 DEF IInv, TypeOK, RowType, Times
      <4>. QED
        BY <2>1, <4>1 DEF CallInv, Owning, At
    <3>2. rows'[call[d].id].task = "absent" /\ rows'[call[d].id].report = NoReceipt
      BY <1>5, <2>3 DEF NoRow
    <3>. QED
      BY <1>1, <2>1, <2>3, <3>1, <3>2 DEF CallInv, Fresh, At, Complete
  <2>4. CASE call[d].id \notin Ids
    BY <2>1, <2>4, PlacesApart DEF CallInv, At
  <2>. QED
    BY <2>2, <2>3, <2>4
<1>9. StaysAlone(c)
  BY <1>1, <1>2, <1>3 DEF StaysAlone, Owner
<1>10. Reserved'
  BY <1>1 DEF IInv, Reserved, Reserving, NoRow
<1>11. RowsInv' /\ CallsInv'
  BY <1>6, <1>7, <1>8 DEF RowsInv, CallsInv
<1>. QED
  BY <1>3, <1>4, <1>9, <1>10, <1>11, Alone DEF IInv

CleaningKnown(c, i) ==
  /\ call[c].id = i /\ call[c].command = "gc" /\ call[c] \in CallType
  /\ file[i] \in Files /\ RowInv(i) /\ CallInv(c)

LEMMA CleaningFacts ==
  ASSUME IInv, NEW c \in Calls, call[c].at \in Cleaning
  PROVE  \E i \in Ids : CleaningKnown(c, i)
<1>1. ~At(c, "idle")
  BY PlacesApart DEF At
<1>2. call[c].id \in Ids /\ CallInv(c) /\ RowInv(call[c].id)
  BY <1>1, CallKnown
<1>3. call[c].command = "gc"
  BY <1>2 DEF CallInv
<1>. QED
  BY <1>2, <1>3 DEF CleaningKnown, IInv, TypeOK

LEMMA LoadOldStep ==
  ASSUME IInv, NEW c \in Calls, LoadOld(c)
  PROVE  IInv'
<1>1. call[c].at \in Cleaning
  BY DEF LoadOld, At, Cleaning
<1>2. PICK i \in Ids : CleaningKnown(c, i)
  BY <1>1, CleaningFacts
<1>3. CASE ~Complete(file[i])
  BY <1>2, <1>3, Returns DEF LoadOld, Look, Continue, File, Still, CleaningKnown
<1>4. CASE Complete(file[i])
  <2> DEFINE goal == [call[c] EXCEPT !.at = "seeGone", !.receipt = file[i]]
  <2>1. call' = [call EXCEPT ![c] = goal] /\ Still
    BY <1>2, <1>4 DEF LoadOld, Look, Continue, Goto, File, Still, CleaningKnown, CallType
  <2>2. file[i] \in Receipts
    BY <1>2, <1>4, FilesApart DEF CleaningKnown
  <2>3. /\ goal \in CallType /\ goal.at = "seeGone" /\ goal.id = i /\ goal.command = "gc"
        /\ goal.at \in Cleaning
    BY <1>2, <2>2 DEF CleaningKnown, CallType, Places, Cleaning, MaybeReceipts
  <2> HIDE DEF goal
  <2>. QED
    BY <1>2, <2>1, <2>2, <2>3, CleaningLook DEF CleaningKnown
<1>. QED
  BY <1>3, <1>4

LEMMA SeeGoneStep ==
  ASSUME IInv, NEW c \in Calls, SeeGone(c)
  PROVE  IInv'
<1>1. call[c].at = "seeGone" /\ call[c].at \in Cleaning
  BY DEF SeeGone, At, Cleaning
<1>2. PICK i \in Ids : CleaningKnown(c, i)
  BY <1>1, CleaningFacts
<1> DEFINE old == call[c].receipt.finished < now - ReceiptRetention
<1>3. CASE ~(rows[i].task = "absent" /\ old)
  BY <1>2, <1>3, Returns DEF SeeGone, Look, Continue, Row, Still, CleaningKnown
<1>4. CASE rows[i].task = "absent" /\ old
  <2> DEFINE goal == [call[c] EXCEPT !.at = "remove", !.receipt = NoReceipt]
  <2>1. call' = [call EXCEPT ![c] = goal] /\ Still
    BY <1>2, <1>4 DEF SeeGone, Look, Continue, Goto, Row, Still, CleaningKnown, CallType
  <2>2. file[i] \in Receipts /\ file[i].finished < now /\ Fresh(i)
    BY <1>1, <1>2, <1>4, FilesApart DEF CleaningKnown, CallInv, RowInv, At, NoRow, Fresh
  <2>3. /\ goal \in CallType /\ goal.at = "remove" /\ goal.id = i /\ goal.command = "gc"
        /\ goal.at \in Cleaning
    BY <1>2, ReceiptTypes DEF CleaningKnown, CallType, Places, Cleaning
  <2> HIDE DEF goal
  <2>. QED
    BY <1>2, <2>1, <2>2, <2>3, CleaningLook DEF CleaningKnown
<1>. QED
  BY <1>3, <1>4

(* No verdict rests on a receipt that is removed.                           *)
LEMMA RemoveReceiptStep ==
  ASSUME IInv, NEW c \in Calls, RemoveReceipt(c)
  PROVE  IInv'
<1>1. call[c].at = "remove" /\ call[c].at \in Cleaning
  BY DEF RemoveReceipt, At, Cleaning
<1>2. PICK i \in Ids : CleaningKnown(c, i)
  BY <1>1, CleaningFacts
<1>3. /\ call' = [call EXCEPT ![c] = NoCall] /\ file' = [file EXCEPT ![i] = NoReceipt]
      /\ UNCHANGED <<now, rows, child, runs, outcome, used>>
  BY <1>2 DEF RemoveReceipt, CleaningKnown
<1>4. file[i] \in Receipts /\ file[i].finished < now /\ Fresh(i) /\ now \in Int
  BY <1>1, <1>2, FilesApart DEF CleaningKnown, CallInv, At, IInv, TypeOK, Times
<1>5. file[i] # rows[i].report
  BY <1>4, FilesApart DEF Fresh, Receipts, Times
<1>6. rows[i].op \notin Decided
  BY <1>2, <1>5 DEF CleaningKnown, RowInv
<1>7. Others(c) /\ OtherTasks(i) /\ file'[i] = NoReceipt /\ NoReceipt \in Files
  BY <1>3 DEF IInv, TypeOK, Others, OtherTasks, Files
<1>8. TypeOK'
  BY <1>3, <1>7, ReturnedCall DEF IInv, TypeOK
<1>9. ~Complete(NoReceipt)
  BY DEF Complete
<1>10. RowInv(i)'
  BY <1>2, <1>3, <1>6, <1>7 DEF CleaningKnown, RowInv, Complete
<1>11. ASSUME NEW d \in Calls, d # c, call[d].id = i PROVE CallInv(d)'
  <2>1. CallInv(d) /\ call'[d] = call[d]
    BY <1>7, <1>11 DEF IInv, CallsInv, Others
  <2>2. call[d].at \notin Cleaning
    BY <1>2, <1>11, <2>1 DEF CallInv, IInv, OneCollector, CleaningKnown
  <2>3. call[d].at # "verify"
    BY <1>5, <1>11, <2>1 DEF CallInv, At
  <2>4. CASE call[d].at \in Owner
    <3>1. Owning(d) /\ call[d].at # "writeReceipt"
      BY <1>4, <1>11, <2>1, <2>4, FilesApart DEF CallInv, Owning, At
    <3>2. Owning(d)'
      BY <1>3, <1>7, <1>11, <2>1, <3>1 DEF Owning, OldFile, Fresh, At, Complete
    <3>. QED
      BY <1>3, <1>7, <1>11, <2>1, <2>2, <2>4, <3>2, PlacesApart DEF CallInv, At
  <2>5. CASE call[d].at \notin Owner
    BY <1>3, <1>4, <1>7, <1>11, <2>1, <2>2, <2>3, <2>5, PlacesApart DEF CallInv, At, Fresh
  <2>. QED
    BY <2>4, <2>5
<1>12. Reserved'
  BY <1>3 DEF IInv, Reserved
<1>. QED
  BY <1>3, <1>7, <1>8, <1>10, <1>11, <1>12, ReturnedCall, Frame

-----------------------------------------------------------------------------
LEMMA EndUnseenStep ==
  ASSUME IInv, NEW i \in Ids, EndUnseen(i)
  PROVE  IInv'
<1>1. /\ child' = [child EXCEPT ![i] = FALSE]
      /\ UNCHANGED <<now, rows, file, call, runs, outcome, used>>
      /\ \A c \in Calls : At(c, "running") => call[c].id # i
  BY DEF EndUnseen
<1>2. /\ child' \in [Ids -> BOOLEAN] /\ ~child'[i]
      /\ \A j \in Ids : j # i => child'[j] = child[j]
      /\ \A j \in Ids : child'[j] => child[j]
  BY <1>1 DEF IInv, TypeOK
<1>3. ASSUME NEW j \in Ids PROVE RowInv(j)'
  <2>1. RowInv(j)
    BY DEF IInv, RowsInv
  <2>. QED
    BY <1>1, <1>2, <2>1 DEF RowInv
<1>4. ASSUME NEW c \in Calls PROVE CallInv(c)'
  <2>1. CallInv(c)
    BY DEF IInv, CallsInv
  <2>2. CASE call[c].at \in Owner
    <3>1. call[c].id \in Ids /\ Owning(c)
      BY <2>1, <2>2, PlacesApart DEF CallInv, At
    <3>2. Owning(c)'
      BY <1>1, <1>2, <3>1 DEF Owning, OldFile, Fresh, At, Complete
    <3>. QED
      BY <1>1, <2>1, <2>2, <3>2, PlacesApart DEF CallInv, At
  <2>3. CASE call[c].at \notin Owner
    BY <1>1, <2>1, <2>3 DEF CallInv, At, Fresh, Complete
  <2>. QED
    BY <2>2, <2>3
<1>5. TypeOK' /\ OneOwner' /\ OneCollector' /\ Reserved'
  BY <1>1, <1>2 DEF IInv, TypeOK, OneOwner, OneCollector, Reserved
<1>. QED
  BY <1>3, <1>4, <1>5 DEF IInv, RowsInv, CallsInv

LEMMA TickStep ==
  ASSUME IInv, Tick
  PROVE  IInv'
<1>1. /\ now' = now + 1 /\ now < MaxTime /\ \A c \in Calls : At(c, "idle")
      /\ UNCHANGED <<rows, file, call, child, runs, outcome, used>>
  BY DEF Tick
<1>2. now \in Int /\ now' \in Times /\ MaxTime \in Nat
  BY <1>1, LocalCheckAssumption DEF IInv, TypeOK, Times
<1>3. TypeOK'
  BY <1>1, <1>2 DEF IInv, TypeOK
<1>4. ASSUME NEW i \in Ids PROVE RowInv(i)'
  <2>1. RowInv(i) /\ rows[i] \in RowType /\ outcome[i].finished \in Int
    BY ReceiptTypes DEF IInv, RowsInv, TypeOK
  <2>2. file[i] \in Receipts => file[i].finished \in Int
    BY DEF Receipts, Times
  <2>3. Complete(file[i]) <=> file[i] \in Receipts
    BY FilesApart DEF IInv, TypeOK
  <2>4. rows[i].closed \in Int
    BY <2>1 DEF RowType
  <2>. QED
    BY <1>1, <1>2, <2>1, <2>2, <2>3, <2>4 DEF RowInv, Complete
<1>5. ASSUME NEW c \in Calls PROVE CallInv(c)'
  <2>1. CallInv(c) /\ At(c, "idle")
    BY <1>1 DEF IInv, CallsInv
  <2>. QED
    BY <1>1, <2>1, PlacesApart DEF CallInv, At
<1>6. OneOwner' /\ OneCollector' /\ Reserved'
  BY <1>1 DEF IInv, OneOwner, OneCollector, Reserved
<1>. QED
  BY <1>3, <1>4, <1>5, <1>6 DEF IInv, RowsInv, CallsInv

LEMMA ReturnStep ==
  ASSUME IInv, NEW c \in Calls, Stop(c) \/ Answer(c)
  PROVE  IInv'
BY Returns DEF Stop, Answer, Look, Continue, Still
-----------------------------------------------------------------------------
LEMMA InitIInv == Init => IInv
<1> SUFFICES ASSUME Init PROVE IInv
  OBVIOUS
<1>1. TypeOK
  BY EmptyTypes, ReceiptTypes, LocalCheckAssumption DEF Init, TypeOK, Times, Files
<1>2. ASSUME NEW i \in Ids PROVE RowInv(i)
  <2>1. NoReceipt.finished = 0 /\ ~Complete(NoReceipt)
    BY DEF NoReceipt, Complete
  <2>2. /\ rows[i] = NoRow /\ file[i] = NoReceipt /\ runs[i] = 0 /\ ~child[i]
        /\ outcome[i] = NoReceipt /\ now = 0
    BY DEF Init
  <2>. QED
    BY <2>1, <2>2 DEF RowInv, NoRow, Decided
<1>3. ASSUME NEW c \in Calls PROVE CallInv(c)
  BY PlacesApart DEF Init, CallInv, NoCall, At
<1>4. OneOwner /\ OneCollector /\ Reserved
  BY PlacesApart DEF Init, OneOwner, OneCollector, Reserved, NoCall, NoRow, Reserving
<1>. QED
  BY <1>1, <1>2, <1>3, <1>4 DEF IInv, RowsInv, CallsInv

LEMMA StutterIInv ==
  ASSUME IInv, UNCHANGED vars
  PROVE  IInv'
<1> USE DEF vars
<1>1. ASSUME NEW i \in Ids PROVE RowInv(i)'
  BY DEF IInv, RowsInv, RowInv
<1>2. ASSUME NEW c \in Calls PROVE CallInv(c)'
  BY DEF IInv, CallsInv, CallInv, Owning, OldFile, Fresh, At
<1>3. TypeOK' /\ OneOwner' /\ OneCollector' /\ Reserved'
  BY DEF IInv, TypeOK, OneOwner, OneCollector, Reserved
<1>. QED
  BY <1>1, <1>2, <1>3 DEF IInv, RowsInv, CallsInv

LEMMA ProgressIInv ==
  ASSUME IInv, NEW c \in Calls, Progress(c)
  PROVE  IInv'
<1>1. CASE Mark(c) \/ WriteMark(c) \/ Open(c) \/ Begin(c)
  BY <1>1, OpeningStep
<1>2. CASE CreateTask(c)
  BY <1>2, CreateTaskStep
<1>3. CASE CreateOperation(c)
  BY <1>3, CreateOperationStep
<1>4. CASE Intend(c)
  BY <1>4, IntendStep
<1>5. CASE MarkReady(c)
  BY <1>5, MarkReadyStep
<1>6. CASE Offer(c)
  BY <1>6, OfferStep
<1>7. CASE Run(c)
  BY <1>7, RunStep
<1>8. CASE RunRefused(c) \/ ReportRefused(c)
  BY <1>8, RefusedStep
<1>9. ASSUME NEW exit \in Exits, Finish(c, exit) PROVE IInv'
  BY <1>9, FinishStep
<1>10. ASSUME NEW dead \in BOOLEAN, GiveUp(c, dead) PROVE IInv'
  BY <1>10, GiveUpStep
<1>11. ASSUME NEW lost \in BOOLEAN, Report(c, lost) PROVE IInv'
  BY <1>11, ReportStep
<1>12. CASE Lose(c)
  BY <1>12, LoseStep
<1>13. CASE CreateReceipt(c)
  BY <1>13, CreateReceiptStep
<1>14. CASE WriteReceipt(c)
  BY <1>14, WriteReceiptStep
<1>15. CASE Load(c)
  BY <1>15, LoadStep
<1>16. CASE See(c)
  BY <1>16, SeeStep
<1>17. CASE Verify(c)
  BY <1>17, VerifyStep
<1>18. CASE SeeTask(c)
  BY <1>18, SeeTaskStep
<1>19. CASE Finalize(c)
  BY <1>19, FinalizeStep
<1>20. CASE Status(c)
  BY <1>20, StatusStep
<1>21. CASE Confirm(c)
  BY <1>21, ConfirmStep
<1>22. CASE Answer(c)
  BY <1>22, ReturnStep
<1>23. CASE LoadOld(c)
  BY <1>23, LoadOldStep
<1>24. CASE SeeGone(c)
  BY <1>24, SeeGoneStep
<1>25. CASE RemoveReceipt(c)
  BY <1>25, RemoveReceiptStep
<1>. QED
  BY <1>1, <1>2, <1>3, <1>4, <1>5, <1>6, <1>7, <1>8, <1>9, <1>10, <1>11, <1>12, <1>13,
     <1>14, <1>15, <1>16, <1>17, <1>18, <1>19, <1>20, <1>21, <1>22, <1>23, <1>24, <1>25
     DEF Progress

(* The inductive invariant: how far every task has come, by where the check *)
(* stands that owns it, and how old the receipts are that calls go by.      *)
THEOREM LocalCheckInvariant == Spec => []IInv
<1>1. IInv /\ [Next]_vars => IInv'
  <2> SUFFICES ASSUME IInv, [Next]_vars PROVE IInv'
    OBVIOUS
  <2>1. ASSUME NEW c \in Calls, NEW i \in Ids, NEW config \in Configs,
               StartCheck(c, i, config)
        PROVE  IInv'
    BY <2>1, StartCheckStep
  <2>2. ASSUME NEW c \in Calls, NEW i \in Ids, StartStatus(c, i) \/ StartRecover(c, i)
        PROVE  IInv'
    BY <2>2, StartStatusStep, StartRecoverStep
  <2>3. ASSUME NEW c \in Calls, NEW i \in Ids, NEW gone \in SUBSET Ids,
               StartCollect(c, i, gone)
        PROVE  IInv'
    BY <2>3, StartCollectStep
  <2>4. ASSUME NEW c \in Calls, Progress(c) \/ Stop(c)
        PROVE  IInv'
    BY <2>4, ProgressIInv, ReturnStep
  <2>5. ASSUME NEW i \in Ids, EndUnseen(i) PROVE IInv'
    BY <2>5, EndUnseenStep
  <2>6. CASE Tick
    BY <2>6, TickStep
  <2>7. CASE UNCHANGED vars
    BY <2>7, StutterIInv
  <2>. QED
    BY <2>1, <2>2, <2>3, <2>4, <2>5, <2>6, <2>7 DEF Next
<1>. QED
  BY InitIInv, <1>1, PTL DEF Spec

(* The command of a check is started at most once, and a command that is    *)
(* running belongs to an operation that reserves its workspace: Execute of  *)
(* the runner is called once per task, and recover never calls it.          *)
THEOREM CommandRunsOnceHolds == Spec => []CommandRunsOnce
<1>1. IInv => CommandRunsOnce
  BY DEF IInv, RowsInv, RowInv, CommandRunsOnce
<1>. QED
  BY LocalCheckInvariant, <1>1, PTL

(* Commands never share a workspace: an operation whose outcome is unknown  *)
(* keeps the scope that Check has asked for.                                *)
THEOREM WorkspaceIsExclusiveHolds == Spec => []WorkspaceIsExclusive
<1>1. IInv => WorkspaceIsExclusive
  BY DEF IInv, RowsInv, RowInv, Reserved, Reserving, WorkspaceIsExclusive
<1>. QED
  BY LocalCheckInvariant, <1>1, PTL

(* Verdicts and answers rest on the receipt of the command that was run for *)
(* them: neither a receipt of an earlier task nor gc comes in between.      *)
THEOREM VerdictsAreProvedHolds == Spec => []VerdictsAreProved
<1>1. IInv => VerdictsAreProved
  <2> SUFFICES ASSUME IInv PROVE VerdictsAreProved
    OBVIOUS
  <2>1. ASSUME NEW i \in Ids, rows[i].op \in Decided
        PROVE  /\ runs[i] = 1 /\ rows[i].observed = outcome[i] /\ file[i] = outcome[i]
               /\ rows[i].op = Verdict(outcome[i])
    BY <2>1 DEF IInv, RowsInv, RowInv
  <2>2. ASSUME NEW c \in Calls, At(c, "done")
        PROVE  /\ call[c].seen = Verdict(call[c].receipt)
               /\ Row(c).task # "absent" => call[c].receipt = outcome[call[c].id]
    BY <2>2 DEF IInv, CallsInv, CallInv, Row
  <2>. QED
    BY <2>1, <2>2 DEF VerdictsAreProved
<1>. QED
  BY LocalCheckInvariant, <1>1, PTL
=============================================================================
