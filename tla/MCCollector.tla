----------------------------- MODULE MCCollector -----------------------------
(***************************************************************************)
(* An instance of Collector for TLC.                                       *)
(***************************************************************************)
EXTENDS Collector, TLC

CONSTANTS o1, o2, a1, m1, m2, b1

Envelope(id, t, o) ==
  [id |-> id, task |-> t, op |-> o, attempt |-> NoID, issued |-> 0, body |-> b1]

(* Messages of two tasks that name the operations of each other, if these   *)
(* are made so; the attempt makes the first graph one row larger.           *)
SomeEnvelopes == {Envelope(m1, 1, o2), Envelope(m2, 2, o1)}

SomeRows == (o1 :> 3) @@ (o2 :> 2)
=============================================================================
