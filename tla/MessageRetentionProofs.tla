----------------------- MODULE MessageRetentionProofs -----------------------
(***************************************************************************)
(* Proofs about MessageRetention, for every set of messages, every window  *)
(* and every movement of the clock.                                        *)
(***************************************************************************)
EXTENDS MessageRetention, TLAPS

(* A row is stored under the identifier of its message; the owners that     *)
(* rows of operations and attempts refer to exist.                          *)
RowsUnderTheirIds ==
  \A m \in MessageIds : message[m] # NoMessage => message[m].env.id = m

OwnersExist ==
  /\ \A o \in Ops : op[o] # NoTask => task[op[o]] # NoTaskRow
  /\ \A a \in Attempts : attempt[a] # NoID => op[attempt[a]] # NoTask

IInv ==
  /\ TypeOK
  /\ RowsUnderTheirIds
  /\ OwnersExist
  /\ Remembered
  /\ AppliedOnce

LEMMA InitInvariant == Init => IInv
<1>. SUFFICES ASSUME Init PROVE IInv
  OBVIOUS
<1>1. TypeOK
  BY RetentionAssumption DEF Init, TypeOK, Times
<1>2. RowsUnderTheirIds /\ OwnersExist
  BY DEF Init, RowsUnderTheirIds, OwnersExist
<1>3. Remembered /\ AppliedOnce
  BY DEF Init, Remembered, AppliedOnce
<1>. QED
  BY <1>1, <1>2, <1>3 DEF IInv

(* Larger returns one of its arguments, and bounds both.                    *)
LEMMA LargerBounds ==
  ASSUME NEW a \in Int, NEW b \in Int
  PROVE  Larger(a, b) \in {a, b} /\ Larger(a, b) >= a /\ Larger(a, b) >= b
BY DEF Larger

(* The floor never falls, whatever the clock does.                          *)
LEMMA FloorRises ==
  ASSUME TypeOK, NEW n \in Times
  PROVE  NewFloor(n) \in Nat /\ NewFloor(n) >= floor
<1>1. floor \in Nat /\ n - ReplayWindow \in Int
  BY RetentionAssumption DEF TypeOK, Times
<1>. QED
  BY <1>1, LargerBounds DEF NewFloor

-----------------------------------------------------------------------------
LEMMA ProcessMessageInvariant ==
  ASSUME IInv, NEW env \in Envelopes, ProcessMessage(env)
  PROVE  IInv'
<1>. DEFINE row == [env     |-> env,
                    expires |-> Larger(now, env.issued) + ReplayWindow]
<1>1. /\ message[env.id] = NoMessage
      /\ message' = [message EXCEPT ![env.id] = row]
      /\ applied' = [applied EXCEPT ![env] = applied[env] + 1]
      /\ UNCHANGED <<now, floor, task, op, attempt>>
  BY DEF ProcessMessage, IsNew
<1>2. env.id \in MessageIds /\ env.issued \in Nat
  BY RetentionAssumption
<1>3. row \in MessageRows
  <2>1. now \in Nat /\ ReplayWindow \in Nat
    BY RetentionAssumption DEF IInv, TypeOK, Times
  <2>2. Larger(now, env.issued) + ReplayWindow \in Nat
    BY <1>2, <2>1 DEF Larger
  <2>. QED
    BY <2>2 DEF MessageRows
<1>4. row.env = env
  OBVIOUS
<1>5. env.issued >= floor
  <2>1. floor \in Int /\ now - ReplayWindow \in Int
    BY RetentionAssumption DEF IInv, TypeOK, Times
  <2>2. env.issued >= Larger(now - ReplayWindow, floor)
    BY DEF ProcessMessage, Admissible
  <2>. QED
    BY <1>2, <2>1, <2>2 DEF Larger
<1>. HIDE DEF row
<1>6. NoMessage.env.id = NoID /\ NoID \notin MessageIds
  BY RetentionAssumption DEF NoMessage
<1>7. \A e \in Envelopes : applied[e] > 0 /\ e.id = env.id => e.issued < floor
  BY <1>1, <1>2, <1>6 DEF IInv, Remembered
<1>8. applied[env] = 0
  BY <1>2, <1>5, <1>7 DEF IInv, TypeOK
<1>9. TypeOK'
  BY <1>1, <1>2, <1>3, <1>8 DEF IInv, TypeOK
<1>10. RowsUnderTheirIds'
  BY <1>1, <1>2, <1>4 DEF IInv, TypeOK, RowsUnderTheirIds
<1>11. OwnersExist'
  BY <1>1 DEF IInv, OwnersExist
<1>12. AppliedOnce'
  BY <1>1, <1>8 DEF IInv, TypeOK, AppliedOnce
<1>13. Remembered'
  <2>. SUFFICES ASSUME NEW e \in Envelopes, applied'[e] > 0
                PROVE  message'[e.id].env = e \/ e.issued < floor
    BY <1>1 DEF Remembered
  <2>1. CASE e = env
    BY <1>1, <1>2, <1>4, <2>1 DEF IInv, TypeOK
  <2>2. CASE e # env /\ e.id = env.id
    BY <1>1, <1>7, <2>2 DEF IInv, TypeOK
  <2>3. CASE e.id # env.id
    <3>1. applied[e] > 0 /\ message'[e.id] = message[e.id]
      BY <1>1, <2>3, RetentionAssumption DEF IInv, TypeOK
    <3>. QED
      BY <3>1 DEF IInv, Remembered
  <2>. QED
    BY <2>1, <2>2, <2>3
<1>. QED
  BY <1>9, <1>10, <1>11, <1>12, <1>13 DEF IInv

LEMMA OwnersInvariant ==
  ASSUME IInv,
         \/ \E t \in Tasks : CreateTask(t) \/ FinalizeTask(t)
         \/ \E o \in Ops, t \in Tasks : CreateOperation(o, t)
         \/ \E a \in Attempts, o \in Ops : StartAttempt(a, o)
  PROVE  IInv'
<1>1. UNCHANGED <<now, floor, message, applied>>
  BY DEF CreateTask, FinalizeTask, CreateOperation, StartAttempt
<1>2. (RowsUnderTheirIds /\ Remembered /\ AppliedOnce)'
  BY <1>1 DEF IInv, RowsUnderTheirIds, Remembered, AppliedOnce
<1>3. TypeOK' /\ OwnersExist'
  <2>1. ASSUME NEW t \in Tasks, CreateTask(t)
        PROVE  TypeOK' /\ OwnersExist'
    BY <1>1, <2>1, RetentionAssumption
    DEF CreateTask, IInv, TypeOK, OwnersExist, NoTaskRow, Times
  <2>2. ASSUME NEW t \in Tasks, FinalizeTask(t)
        PROVE  TypeOK' /\ OwnersExist'
    BY <1>1, <2>2, RetentionAssumption
    DEF FinalizeTask, IInv, TypeOK, OwnersExist, NoTaskRow, Times
  <2>3. ASSUME NEW o \in Ops, NEW t \in Tasks, CreateOperation(o, t)
        PROVE  TypeOK' /\ OwnersExist'
    BY <1>1, <2>3, RetentionAssumption
    DEF CreateOperation, IInv, TypeOK, OwnersExist, NoTaskRow, NoTask
  <2>4. ASSUME NEW a \in Attempts, NEW o \in Ops, StartAttempt(a, o)
        PROVE  TypeOK' /\ OwnersExist'
    BY <1>1, <2>4 DEF StartAttempt, IInv, TypeOK, OwnersExist
  <2>. QED
    BY <2>1, <2>2, <2>3, <2>4
<1>. QED
  BY <1>2, <1>3 DEF IInv

(* A batch deletes only rows that are behind the floor it leaves.           *)
LEMMA CollectedAreExpired ==
  ASSUME NEW orphans, NEW gone, NEW pruned, NEW dropped, NEW n,
         Collect(orphans, gone, pruned, dropped, n),
         NEW m \in orphans \cup pruned
  PROVE  Expired(m, n)
BY DEF Collect, Collectable

LEMMA CollectInvariant ==
  ASSUME IInv, NEW orphans \in SUBSET MessageIds, NEW gone \in SUBSET Ops,
         NEW pruned \in SUBSET MessageIds, NEW dropped \in SUBSET Tasks,
         NEW n \in Times, Collect(orphans, gone, pruned, dropped, n)
  PROVE  IInv'
<1>1. /\ floor' = NewFloor(n)
      /\ message' = [m \in MessageIds |->
                       IF m \in orphans \cup pruned THEN NoMessage ELSE message[m]]
      /\ op' = [o \in Ops |-> IF o \in gone THEN NoTask ELSE op[o]]
      /\ attempt' = [a \in Attempts |->
                       IF attempt[a] \in gone THEN NoID ELSE attempt[a]]
      /\ task' = [t \in Tasks |-> IF t \in dropped THEN NoTaskRow ELSE task[t]]
      /\ UNCHANGED <<now, applied>>
  BY DEF Collect
<1>2. NewFloor(n) \in Nat /\ NewFloor(n) >= floor
  BY FloorRises DEF IInv
<1>3. TypeOK'
  BY <1>1, <1>2 DEF IInv, TypeOK
<1>4. RowsUnderTheirIds'
  BY <1>1 DEF IInv, RowsUnderTheirIds
<1>5. OwnersExist'
  <2>1. ASSUME NEW o \in Ops, op'[o] # NoTask
        PROVE  task'[op'[o]] # NoTaskRow
    <3>1. o \notin gone /\ op'[o] = op[o] /\ op[o] \in Tasks
      BY <1>1, <2>1 DEF IInv, TypeOK
    <3>2. op[o] \notin dropped
      BY <3>1 DEF Collect, TaskOps
    <3>. QED
      BY <1>1, <2>1, <3>1, <3>2 DEF IInv, OwnersExist
  <2>2. ASSUME NEW a \in Attempts, attempt'[a] # NoID
        PROVE  op'[attempt'[a]] # NoTask
    <3>1. attempt[a] \in Ops \ gone /\ attempt'[a] = attempt[a]
      BY <1>1, <2>2 DEF IInv, TypeOK
    <3>. QED
      BY <1>1, <2>2, <3>1 DEF IInv, OwnersExist
  <2>. QED
    BY <2>1, <2>2 DEF OwnersExist
<1>6. AppliedOnce'
  BY <1>1 DEF IInv, AppliedOnce
<1>7. Remembered'
  <2>. SUFFICES ASSUME NEW env \in Envelopes, applied[env] > 0
                PROVE  message'[env.id].env = env \/ env.issued < NewFloor(n)
    BY <1>1 DEF Remembered
  <2>1. env.id \in MessageIds /\ env.issued \in Nat
    BY RetentionAssumption
  <2>2. CASE env.issued < floor
    BY <1>2, <2>1, <2>2 DEF IInv, TypeOK
  <2>3. CASE message[env.id].env = env
    <3>1. CASE env.id \in orphans \cup pruned
      <4>1. Expired(env.id, n)
        BY <3>1, CollectedAreExpired
      <4>. QED
        BY <2>3, <4>1 DEF Expired
    <3>2. CASE env.id \notin orphans \cup pruned
      BY <1>1, <2>1, <2>3, <3>2
    <3>. QED
      BY <3>1, <3>2
  <2>. QED
    BY <2>2, <2>3 DEF IInv, Remembered
<1>. QED
  BY <1>3, <1>4, <1>5, <1>6, <1>7 DEF IInv

LEMMA SetClockInvariant ==
  ASSUME IInv, NEW n \in Times, SetClock(n)
  PROVE  IInv'
<1>1. now' = n /\ UNCHANGED <<floor, task, op, attempt, message, applied>>
  BY DEF SetClock
<1>2. TypeOK'
  BY <1>1 DEF IInv, TypeOK
<1>3. (RowsUnderTheirIds /\ OwnersExist /\ Remembered /\ AppliedOnce)'
  BY <1>1 DEF IInv, RowsUnderTheirIds, OwnersExist, Remembered, AppliedOnce
<1>. QED
  BY <1>2, <1>3 DEF IInv

LEMMA NextInvariant == IInv /\ [Next]_vars => IInv'
<1>. SUFFICES ASSUME IInv, [Next]_vars PROVE IInv'
  OBVIOUS
<1>1. CASE UNCHANGED vars
  BY <1>1 DEF vars, IInv, TypeOK, RowsUnderTheirIds, OwnersExist, Remembered,
              AppliedOnce
<1>2. CASE Next
  BY <1>2, ProcessMessageInvariant, OwnersInvariant, CollectInvariant,
     SetClockInvariant DEF Next
<1>. QED
  BY <1>1, <1>2

(* The invariant holds in every state of every behaviour.                   *)
THEOREM InductiveInvariant == Spec => []IInv
<1>. QED
  BY InitInvariant, NextInvariant, PTL DEF Spec

(* The rows of the retention tables are well formed, and the floor is never *)
(* negative.                                                                *)
THEOREM TypeCorrect == Spec => []TypeOK
<1>1. IInv => TypeOK
  BY DEF IInv
<1>. QED
  BY <1>1, InductiveInvariant, PTL

(* At most once: no number of deliveries, collections and movements of the  *)
(* clock applies the effects of a message twice.                            *)
THEOREM AtMostOnce == Spec => []AppliedOnce
<1>1. IInv => AppliedOnce
  BY DEF IInv
<1>. QED
  BY <1>1, InductiveInvariant, PTL

(* A message whose row has been collected is behind the floor for ever.     *)
THEOREM ForgottenIsFenced == Spec => []Remembered
<1>1. IInv => Remembered
  BY DEF IInv
<1>. QED
  BY <1>1, InductiveInvariant, PTL

(* A redelivery inside the window meets the row of the very same message.   *)
THEOREM ReplayRecognised == Spec => []ReplayIsRecognised
<1>1. IInv => ReplayIsRecognised
  <2>. SUFFICES ASSUME IInv, NEW env \in Envelopes, applied[env] > 0,
                       Admissible(env)
                PROVE  message[env.id].env = env
    BY DEF ReplayIsRecognised
  <2>1. /\ floor \in Nat
        /\ now - ReplayWindow \in Int
        /\ env.issued \in Nat
    BY RetentionAssumption DEF IInv, TypeOK, Times
  <2>2. env.issued >= floor
    BY <2>1 DEF Admissible, Larger
  <2>. QED
    BY <2>1, <2>2 DEF IInv, Remembered
<1>. QED
  BY <1>1, InductiveInvariant, PTL

LEMMA NextKeepsDedup ==
  ASSUME IInv, [Next]_vars, NEW m \in MessageIds,
         message[m] # NoMessage, message'[m] = NoMessage,
         NEW o \in Ops, op'[o] # NoTask
  PROVE  /\ op[o] # message[m].env.task
         /\ o # message[m].env.op
         /\ \A a \in Attempts : message[m].env.attempt = a => attempt[a] # o
<1>1. CASE UNCHANGED message
  BY <1>1
<1>2. ASSUME NEW env \in Envelopes, ProcessMessage(env)
      PROVE  FALSE
  BY <1>2, RetentionAssumption
  DEF ProcessMessage, IInv, TypeOK, NoMessage
<1>3. ASSUME NEW orphans \in SUBSET MessageIds, NEW gone \in SUBSET Ops,
             NEW pruned \in SUBSET MessageIds, NEW dropped \in SUBSET Tasks,
             NEW n \in Times, Collect(orphans, gone, pruned, dropped, n)
      PROVE  /\ op[o] # message[m].env.task
             /\ o # message[m].env.op
             /\ \A a \in Attempts : message[m].env.attempt = a => attempt[a] # o
  <2>1. m \in orphans \cup pruned
    BY <1>3 DEF Collect
  <2>2. o \notin gone /\ op[o] \in Tasks
    BY <1>3 DEF Collect, IInv, TypeOK
  <2>3. op[o] # NoTask
    BY <2>2, RetentionAssumption
  <2>4. CASE m \in orphans
    <3>1. Orphan(m)
      BY <1>3, <2>4 DEF Collect
    <3>2. task[op[o]] # NoTaskRow
      BY <2>3 DEF IInv, OwnersExist
    <3>. QED
      BY <2>2, <2>3, <3>1, <3>2 DEF Orphan, NamedOps
  <2>5. CASE m \in pruned
    <3>1. PICK t \in Tasks : /\ m \in TaskMessages(t)
                             /\ Collectable(t, gone, n)
                             /\ TaskOps(t) \subseteq gone
      BY <1>3, <2>5 DEF Collect
    <3>2. message[m].env.task = t
      BY <3>1 DEF TaskMessages
    <3>3. op[o] # t
      BY <2>2, <3>1 DEF TaskOps
    <3>4. o \notin NamedOps(m)
      BY <2>2, <3>1, <3>3 DEF Collectable
    <3>. QED
      BY <2>3, <3>2, <3>3, <3>4 DEF NamedOps
  <2>. QED
    BY <2>1, <2>4, <2>5
<1>. QED
  BY <1>1, <1>2, <1>3
  DEF Next, vars, CreateTask, CreateOperation, StartAttempt, FinalizeTask, SetClock

(* Collection never forgets a message while an operation of its task, or    *)
(* the operation or attempt it names, is still recorded.                    *)
THEOREM DedupKeptWithWork == Spec => DedupOutlivesWork
<1>1. IInv /\ [Next]_vars =>
        [\A m \in MessageIds :
           message[m] # NoMessage /\ message'[m] = NoMessage =>
             \A o \in Ops :
               \/ op'[o] = NoTask
               \/ /\ op[o] # message[m].env.task
                  /\ o # message[m].env.op
                  /\ \A a \in Attempts :
                       message[m].env.attempt = a => attempt[a] # o]_vars
  BY NextKeepsDedup
<1>. QED
  BY <1>1, InductiveInvariant, PTL DEF Spec, DedupOutlivesWork
=============================================================================
