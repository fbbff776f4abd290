------------------------------ MODULE MCRunner ------------------------------
(***************************************************************************)
(* Instances of Runner for TLC: one operation, an offer for it, and offers *)
(* of a retry under one message identifier.                                *)
(***************************************************************************)
EXTENDS Runner

CONSTANTS t1, o1, s1, l1, l2

OneMutation ==
  {[id |-> o1, task |-> t1, effect |-> "mutation", scopes |-> {s1}]}

Offer(m, a, l, retry) ==
  [msg |-> m, op |-> o1, attempt |-> a, lease |-> l, retry |-> retry]

FirstOffer == {Offer("m1", "a1", l1, NoID)}

(* A first offer, its retry, and another content under the retry's message. *)
RetryOffers ==
  FirstOffer \cup {Offer("m2", "a2", l2, "a1"), Offer("m2", "a2", l2, NoID)}

Records ==
  UNION {{Accepted(a), Result(a), Lost(a), Observed(a)}
           \cup {Beat(a, i) : i \in 0..MaxHeartbeats} : a \in Attempts}
    \cup {Rejected(m) : m \in Messages}

Symmetry == Permutations(Calls) \cup Permutations(VerificationIds)
=============================================================================
