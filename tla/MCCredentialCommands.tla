------------------------ MODULE MCCredentialCommands ------------------------
(* CredentialCommands on small instances.                                   *)
EXTENDS CredentialCommands, TLC

Interchangeable == Permutations(Operator) \cup Permutations(Request)
=============================================================================
