--------------------------- MODULE MCControlStore ---------------------------
(***************************************************************************)
(* Instances of ControlStore for TLC.                                      *)
(***************************************************************************)
EXTENDS ControlStore, TLC

CONSTANTS t1, t2, o1, o2, s1, s2

Descriptor(o, t, effect, scopes) ==
  [id |-> o, task |-> t, effect |-> effect, scopes |-> scopes]

(* Two mutations of one task whose scopes overlap without being equal.      *)
OverlappingMutations ==
  {Descriptor(o1, t1, "mutation", {s1}), Descriptor(o2, t1, "mutation", {s1, s2})}

(* One mutation, for several generations of it.                             *)
OneMutation == {Descriptor(o1, t1, "mutation", {s1, s2})}

(* A mutation and a read-only operation that names the same scope, which    *)
(* may be of one task or of two.                                            *)
MutationAndRead ==
  {Descriptor(o1, t1, "mutation", {s1}), Descriptor(o2, t1, "read_only", {s1}),
   Descriptor(o2, t2, "read_only", {s1})}

Symmetry ==
  Permutations(Attempts) \cup Permutations(Leases) \cup Permutations(EvidenceIds)
    \cup Permutations(VerificationIds)
=============================================================================
