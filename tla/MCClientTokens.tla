--------------------------- MODULE MCClientTokens ---------------------------
(* ClientTokens on a small instance: the first token may be configured.     *)
EXTENDS ClientTokens, TLC

CONSTANTS t1, t2, h1, h2, c1, c2, g1, g2

MCBootstrap ==
  {[t \in {t1, t2} |-> IF t = t1 /\ configured
                       THEN [hash |-> h1, enabled |-> TRUE,
                             groups |-> g1, channels |-> c1]
                       ELSE Absent] : configured \in BOOLEAN}

Interchangeable == Permutations(Operator)
=============================================================================
