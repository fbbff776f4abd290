-------------------------- MODULE MessageRetention --------------------------
(***************************************************************************)
(* Deduplication of messages and its garbage collection: registerMessage   *)
(* of internal/core/store.go against Collect of                            *)
(* internal/persistence/retention.go, under a clock that may jump both     *)
(* ways and senders that may deliver a message any number of times.        *)
(*                                                                         *)
(* Each action is one Repository.Update.  Of tasks, operations and         *)
(* attempts only their existence, owner and closing time are kept; what    *)
(* else decides about them is in ControlStore.  Time is in whole seconds:  *)
(* the code compares Unix seconds.                                         *)
(***************************************************************************)
EXTENDS Integers

CONSTANTS
  Tasks,              \* task identifiers, in their order, as numbers
  Ops, Attempts, MessageIds, Bodies,
  Envelopes,          \* the messages that senders may deliver
  NoID,               \* the empty identifier
  ReplayWindow, FutureSkew, TerminalRetention,
  MaxTime             \* bound: the latest time the clock may show

NoTask == 0

ASSUME RetentionAssumption ==
  /\ Tasks \subseteq Nat \ {NoTask}
  /\ NoID \notin Ops \cup Attempts \cup MessageIds
  /\ Envelopes \subseteq [id : MessageIds, task : Tasks, op : Ops \cup {NoID},
                          attempt : Attempts \cup {NoID}, issued : Nat,
                          body : Bodies]
  /\ {ReplayWindow, FutureSkew, TerminalRetention, MaxTime} \subseteq Nat

VARIABLES
  now,       \* the clock of the controller
  floor,     \* the stored message_floor
  task,      \* tasks: absent, open or closed, and when they were closed
  op,        \* the task of each operation, or NoTask
  attempt,   \* the operation of each attempt, or NoID
  message,   \* the rows of the messages table
  applied    \* how often the callback of an envelope has been committed

vars == <<now, floor, task, op, attempt, message, applied>>

Times == 0..MaxTime

NoTaskRow == [state |-> "absent", updated |-> 0]

MessageRows == [env : Envelopes, expires : Nat]
NoMessage == [env |-> [id |-> NoID, task |-> NoTask, op |-> NoID,
                       attempt |-> NoID, issued |-> 0, body |-> NoID],
              expires |-> 0]

Larger(a, b) == IF a >= b THEN a ELSE b

Init ==
  /\ now = 0
  /\ floor = 0
  /\ task = [t \in Tasks |-> NoTaskRow]
  /\ op = [o \in Ops |-> NoTask]
  /\ attempt = [a \in Attempts |-> NoID]
  /\ message = [m \in MessageIds |-> NoMessage]
  /\ applied = [e \in Envelopes |-> 0]

TaskOps(t) == {o \in Ops : op[o] = t}

TaskMessages(t) == {m \in MessageIds : message[m].env.task = t}

-----------------------------------------------------------------------------
(* Receiving.                                                               *)

(* Mutant of Admissible: the stored floor is not looked at.                 *)
AdmissibleByClock(env) ==
  /\ env.issued >= now - ReplayWindow
  /\ env.issued <= now + FutureSkew

(* The window of issue times the controller takes a message from.           *)
Admissible(env) ==
  /\ env.issued >= Larger(now - ReplayWindow, floor)
  /\ env.issued <= now + FutureSkew

(* The owners that the message names are consistent, as far as they are     *)
(* known yet: it may arrive before its task, operation or attempt exists.   *)
OwnersAgree(env) ==
  /\ env.op # NoID => op[env.op] \in {NoTask, env.task}
  /\ env.attempt # NoID => attempt[env.attempt] \in {NoID, env.op}
  /\ task[env.task].state # "closed"

IsNew(env) == message[env.id] = NoMessage

(* ProcessMessage of a message that is new: the dedup row and the effects   *)
(* of the callback are one transaction.  A delivery outside the window, an  *)
(* identifier with other content, or an owner that disagrees is an error;   *)
(* a repeated delivery is answered as a duplicate; neither changes a thing. *)
ProcessMessage(env) ==
  /\ Admissible(env)
  /\ IsNew(env)
  /\ OwnersAgree(env)
  /\ message' = [message EXCEPT ![env.id] =
                   [env     |-> env,
                    expires |-> Larger(now, env.issued) + ReplayWindow]]
  /\ applied' = [applied EXCEPT ![env] = applied[env] + 1]
  /\ UNCHANGED <<now, floor, task, op, attempt>>

-----------------------------------------------------------------------------
(* The life of the owners.                                                  *)
CreateTask(t) ==
  /\ task[t] = NoTaskRow
  /\ task' = [task EXCEPT ![t] = [state |-> "open", updated |-> 0]]
  /\ UNCHANGED <<now, floor, op, attempt, message, applied>>

CreateOperation(o, t) ==
  /\ op[o] = NoTask
  /\ task[t].state = "open"
  /\ op' = [op EXCEPT ![o] = t]
  /\ UNCHANGED <<now, floor, task, attempt, message, applied>>

(* Only an operation of an open task is not yet terminal.                   *)
StartAttempt(a, o) ==
  /\ attempt[a] = NoID
  /\ op[o] # NoTask /\ task[op[o]].state = "open"
  /\ attempt' = [attempt EXCEPT ![a] = o]
  /\ UNCHANGED <<now, floor, task, op, message, applied>>

FinalizeTask(t) ==
  /\ task[t].state = "open"
  /\ TaskOps(t) # {}
  /\ task' = [task EXCEPT ![t] = [state |-> "closed", updated |-> now]]
  /\ UNCHANGED <<now, floor, op, attempt, message, applied>>

-----------------------------------------------------------------------------
(* Collection, as of the time n that its caller has read from the clock.    *)

(* Mutant of NewFloor: the floor follows the clock.                         *)
FloorOfTheClock(n) == n - ReplayWindow

NewFloor(n) == Larger(floor, n - ReplayWindow)

(* A row that can be forgotten: its own window is over, and a redelivery of *)
(* it would be behind the floor.                                            *)
Expired(m, n) ==
  /\ message[m] # NoMessage
  /\ message[m].expires < n
  /\ message[m].env.issued < NewFloor(n)

(* The existing operations that a row refers to, directly or by its attempt. *)
NamedOps(m) ==
  {o \in Ops : /\ op[o] # NoTask
               /\ \/ message[m].env.op = o
                  \/ \E a \in Attempts :
                       message[m].env.attempt = a /\ attempt[a] = o}

(* Mutant of Orphan: the operation and the attempt are not looked at.       *)
OrphanByTask(m) == \A t \in Tasks : message[m].env.task = t => task[t] = NoTaskRow

Orphan(m) ==
  /\ \A t \in Tasks : message[m].env.task = t => task[t] = NoTaskRow
  /\ NamedOps(m) = {}

(* Closed for longer than the retention time.                               *)
PastRetention(t, n) ==
  /\ task[t].state = "closed"
  /\ task[t].updated < n - TerminalRetention

(* The batch may work on a task: it has been closed for long enough and     *)
(* every message of it is safe to forget.  A message that names an          *)
(* operation of another task defers its task until that one is gone;        *)
(* tasks are visited in the order of their identifiers.                     *)
Collectable(t, gone, n) ==
  /\ PastRetention(t, n)
  /\ \A m \in TaskMessages(t) :
       /\ Expired(m, n)
       /\ \A o \in NamedOps(m) : op[o] = t \/ (o \in gone /\ op[o] < t)

(* One batch of Collect: orphans first, then for each task its operations,  *)
(* when they are all gone its messages, and when these are gone the task.   *)
(* How far the batch gets in each list is up to its cursor and row budget.  *)
Collect(orphans, gone, pruned, dropped, n) ==
  /\ \A m \in orphans : Orphan(m) /\ Expired(m, n)
  /\ \A o \in gone : op[o] # NoTask /\ Collectable(op[o], gone, n)
  /\ \A m \in pruned :
       \E t \in Tasks : /\ m \in TaskMessages(t)
                        /\ Collectable(t, gone, n)
                        /\ TaskOps(t) \subseteq gone
  /\ \A t \in dropped : /\ Collectable(t, gone, n)
                        /\ TaskOps(t) \subseteq gone
                        /\ TaskMessages(t) \subseteq pruned
  /\ floor' = NewFloor(n)
  /\ message' = [m \in MessageIds |->
                   IF m \in orphans \cup pruned THEN NoMessage ELSE message[m]]
  /\ op' = [o \in Ops |-> IF o \in gone THEN NoTask ELSE op[o]]
  /\ attempt' = [a \in Attempts |->
                   IF attempt[a] \in gone THEN NoID ELSE attempt[a]]
  /\ task' = [t \in Tasks |-> IF t \in dropped THEN NoTaskRow ELSE task[t]]
  /\ UNCHANGED <<now, applied>>

(* The clock is set, forwards or backwards.                                 *)
SetClock(n) ==
  /\ now' = n
  /\ UNCHANGED <<floor, task, op, attempt, message, applied>>

-----------------------------------------------------------------------------
Next ==
  \/ \E env \in Envelopes : ProcessMessage(env)
  \/ \E t \in Tasks : CreateTask(t)
  \/ \E o \in Ops, t \in Tasks : CreateOperation(o, t)
  \/ \E a \in Attempts, o \in Ops : StartAttempt(a, o)
  \/ \E t \in Tasks : FinalizeTask(t)
  \/ \E n \in Times :
       \E orphans \in SUBSET {m \in MessageIds : Expired(m, n)},
          pruned \in SUBSET {m \in MessageIds : Expired(m, n)},
          dropped \in SUBSET {t \in Tasks : PastRetention(t, n)},
          gone \in SUBSET Ops :
         Collect(orphans, gone, pruned, dropped, n)
  \/ \E n \in Times : SetClock(n)

Spec == Init /\ [][Next]_vars

-----------------------------------------------------------------------------
(* TypeOK: the rows are well formed, under the identifiers they carry.      *)
TypeOK ==
  /\ now \in Times
  /\ floor \in Nat
  /\ task \in [Tasks -> [state : {"open", "closed"}, updated : Times]
                          \cup {NoTaskRow}]
  /\ op \in [Ops -> Tasks \cup {NoTask}]
  /\ attempt \in [Attempts -> Ops \cup {NoID}]
  /\ message \in [MessageIds -> MessageRows \cup {NoMessage}]
  /\ applied \in [Envelopes -> Nat]

(* The effects of a message are committed at most once, however often it is *)
(* delivered, also after its row has been collected and the clock set back. *)
AppliedOnce == \A env \in Envelopes : applied[env] <= 1

(* What the dedup table no longer remembers is behind the floor: a message  *)
(* that has been applied is either still in the table, under its own        *)
(* content, or can never be taken again.                                    *)
Remembered ==
  \A env \in Envelopes :
    applied[env] > 0 => message[env.id].env = env \/ env.issued < floor

(* A redelivery inside the window is recognised as a duplicate: it is not   *)
(* applied again, and its identifier has not been taken by another content. *)
ReplayIsRecognised ==
  \A env \in Envelopes :
    applied[env] > 0 /\ Admissible(env) => message[env.id].env = env

(* A dedup row outlives the work it started: it is forgotten only together  *)
(* with, or after, the operations of its task and the operation and attempt *)
(* it names.                                                                *)
DedupOutlivesWork ==
  [][\A m \in MessageIds :
       message[m] # NoMessage /\ message'[m] = NoMessage =>
         \A o \in Ops :
           \/ op'[o] = NoTask
           \/ /\ op[o] # message[m].env.task
              /\ o # message[m].env.op
              /\ \A a \in Attempts :
                   message[m].env.attempt = a => attempt[a] # o]_vars
=============================================================================
