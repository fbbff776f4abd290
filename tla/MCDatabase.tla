----------------------------- MODULE MCDatabase -----------------------------
(* A program with one migration and one with two on the same file.          *)
EXTENDS Database, TLC

CONSTANTS p1, p2, u1, u2, v1

MCBinary == (p1 :> 1) @@ (p2 :> 2)
MCHome == (u1 :> p1) @@ (v1 :> p1) @@ (u2 :> p2)
=============================================================================
