---------------------------- MODULE MCOperations ----------------------------
(* Operations on small instances: every request names the same Deployment, so *)
(* that operations supersede each other.                                      *)
EXTENDS Operations, TLC

CONSTANTS d1

MCTarget == [o \in Op |-> d1]
MCDeadlineUnset == [d \in Deployment |-> 0]
=============================================================================
