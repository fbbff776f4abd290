------------------------- MODULE MCProcessTransport -------------------------
(***************************************************************************)
(* Instances of ProcessTransport for TLC: concurrent runs of the reference *)
(* worker, and such a run next to a run of another program.                *)
(***************************************************************************)
EXTENDS ProcessTransport, TLC

CONSTANTS r1, r2

TwoRuns == {r1, r2}
OneRogue == {r2}

Symmetry == Permutations(Runs)
=============================================================================
