----------------------------- MODULE MCKeyPool -----------------------------
(* KeyPool on a small instance: a pool built from one credential that can   *)
(* grow to three, and four clock readings, so that two deadlines can lie    *)
(* strictly between the first and the last reading.  The two credentials    *)
(* not held at first are interchangeable; no liveness is checked.           *)
EXTENDS KeyPool, TLC

CONSTANTS k1, k2, k3

MCCredential == {k1, k2, k3}
MCInitialBatch == <<k1>>
Interchangeable == Permutations({k2, k3})
=============================================================================
