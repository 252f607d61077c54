------------------------------ MODULE MCGates ------------------------------
(* Three operations at a time on one credential set: a request, and two of *)
(* any kind.                                                               *)
EXTENDS Gates

CONSTANTS p1, p2, p3  \* processes

OneRequest == [p \in Process |-> IF p = p1 THEN {"request"} ELSE DOMAIN Steps]
=============================================================================
