---------------------------- MODULE MCLocalCheck ----------------------------
(* Instance of LocalCheck: two tasks in one workspace.                     *)
EXTENDS LocalCheck

CONSTANTS w1

OneWorkspace == [c \in Configs |-> w1]

SomeExits == {[code |-> 0, match |-> TRUE], [code |-> 0, match |-> FALSE]}
=============================================================================
