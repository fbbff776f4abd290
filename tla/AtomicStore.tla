---------------------------- MODULE AtomicStore ----------------------------
(***************************************************************************)
(* What persistence.Repository promises of Update and View: a callback's    *)
(* writes are stored together or not at all, on top of exactly what the     *)
(* callback read, and a reading callback sees the store as it was at one    *)
(* moment of its call.  A call that answers an error promises nothing: its  *)
(* writes may have been stored.                                             *)
(***************************************************************************)
CONSTANTS Updates, Views, Parts

VARIABLES rows,   \* what is stored: pairs <<call, part>>
          place,  \* of each call: "new", "pending", "ok", "error"
          seen    \* what the call read, Unseen when nothing counts

avars == <<rows, place, seen>>

Calls == Updates \cup Views
Unseen == {<<>>}

AInit == /\ rows = {}
         /\ place = [c \in Calls |-> "new"]
         /\ seen = [c \in Calls |-> Unseen]

Call(c) == /\ place[c] = "new"
           /\ place' = [place EXCEPT ![c] = "pending"]
           /\ UNCHANGED <<rows, seen>>

\* All the writes of an update, over the rows its callback read.  The caller
\* of a stored update may still hear an error.
Store(c, heard) ==
    /\ place[c] = "pending"
    /\ rows' = rows \cup ({c} \X Parts)
    /\ place' = [place EXCEPT ![c] = heard]
    /\ seen' = IF heard = "ok" THEN [seen EXCEPT ![c] = rows] ELSE seen

\* A view takes its picture of the store.
Observe(c) == /\ place[c] = "pending"
              /\ seen' = [seen EXCEPT ![c] = rows]
              /\ UNCHANGED <<rows, place>>

Answer(c) == /\ place[c] = "pending"
             /\ seen[c] # Unseen
             /\ place' = [place EXCEPT ![c] = "ok"]
             /\ UNCHANGED <<rows, seen>>

\* Calls that end without an answer: one that fails, or all those of a
\* process that stops.
Fail(lost) == /\ \A c \in lost : place[c] = "pending"
              /\ place' = [c \in Calls |-> IF c \in lost THEN "error" ELSE place[c]]
              /\ seen' = [c \in Calls |-> IF c \in lost THEN Unseen ELSE seen[c]]
              /\ UNCHANGED rows

ANext == \/ \E c \in Calls : Call(c)
         \/ \E c \in Updates, heard \in {"ok", "error"} : Store(c, heard)
         \/ \E c \in Views : Observe(c) \/ Answer(c)
         \/ \E lost \in SUBSET Calls : Fail(lost)

AtomicSpec == AInit /\ [][ANext]_avars
=============================================================================
