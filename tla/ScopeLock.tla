------------------------------ MODULE ScopeLock ------------------------------
(***************************************************************************)
(* What the store promises about conflict scopes: a lock service whose     *)
(* clients say once which scopes they need.  It grants a client all of     *)
(* them together, never some, takes them back all together, and stamps     *)
(* every grant of a client with a token larger than those of its earlier   *)
(* grants (the fencing token a target can use).                            *)
(***************************************************************************)
EXTENDS Naturals

CONSTANTS Clients, Scopes, Free

VARIABLES
  needs,   \* the scopes that each client needs, fixed before its first grant
  grant,   \* the grant in force for each scope, or Free
  last     \* the last token given to each client

lockVars == <<needs, grant, last>>

Grants == [client : Clients, token : Nat]

Held(c) == {s \in Scopes : grant[s] # Free /\ grant[s].client = c}

LockInit ==
  /\ needs = [c \in Clients |-> {}]
  /\ grant = [s \in Scopes |-> Free]
  /\ last = [c \in Clients |-> 0]

Register(c, S) ==
  /\ last[c] = 0
  /\ needs[c] = {}
  /\ needs' = [needs EXCEPT ![c] = S]
  /\ UNCHANGED <<grant, last>>

Acquire(c) ==
  /\ Held(c) = {}
  /\ \A s \in needs[c] : grant[s] = Free
  /\ last' = [last EXCEPT ![c] = last[c] + 1]
  /\ grant' = [s \in Scopes |->
                 IF s \in needs[c] THEN [client |-> c, token |-> last[c] + 1]
                                   ELSE grant[s]]
  /\ UNCHANGED needs

Release(c) ==
  /\ Held(c) # {}
  /\ grant' = [s \in Scopes |-> IF s \in Held(c) THEN Free ELSE grant[s]]
  /\ UNCHANGED <<needs, last>>

(* Clients that hold nothing are forgotten, with their needs and tokens.    *)
Forget(C) ==
  /\ \A c \in C : Held(c) = {}
  /\ needs' = [c \in Clients |-> IF c \in C THEN {} ELSE needs[c]]
  /\ last' = [c \in Clients |-> IF c \in C THEN 0 ELSE last[c]]
  /\ UNCHANGED grant

LockNext ==
  \/ \E c \in Clients, S \in SUBSET Scopes : Register(c, S)
  \/ \E c \in Clients : Acquire(c)
  \/ \E c \in Clients : Release(c)
  \/ \E C \in SUBSET Clients : Forget(C)

LockSpec == LockInit /\ [][LockNext]_lockVars
=============================================================================
