------------------------- MODULE MCMessageRetention -------------------------
(***************************************************************************)
(* An instance of MessageRetention for TLC.                                *)
(***************************************************************************)
EXTENDS MessageRetention

CONSTANTS o1, o2, a1, m1, m2, b1, b2

Envelope(id, t, o, a, issued, body) ==
  [id |-> id, task |-> t, op |-> o, attempt |-> a, issued |-> issued,
   body |-> body]

(* A message of task 1; one with the same identifier and other content,     *)
(* sent later; and a message of task 2 that names an operation which may    *)
(* turn out to be of task 1.                                                *)
SomeEnvelopes ==
  {Envelope(m1, 1, o1, NoID, 1, b1), Envelope(m1, 1, o1, NoID, 3, b2),
   Envelope(m2, 2, o1, a1, 2, b1)}
=============================================================================
