--------------------------- MODULE MCControlPlane ---------------------------
(* ControlPlane on small instances.                                         *)
EXTENDS ControlPlane, TLC

Interchangeable ==
  Permutations(Operator) \cup Permutations(Channel) \cup Permutations(Key)

(* What of a state a later step or a property can tell apart.  Of a command *)
(* that has ended only VersionsAgree and SyncKeepsRoutes read anything: the *)
(* generation of its audit event and the version it wrote; its other locals *)
(* stay as they were, and well-formed, and everything else reads those of   *)
(* commands that are under way.  The outcome, which                         *)
(* AcknowledgedDisableServed reads, is not in it: a run of that property    *)
(* has no view.                                                             *)
Remembered ==
  <<store, keys, eventLog, lock, runtimes, crashes, committed, raced,
    [o \in Operator |->
       IF command[o].stage \in {"done", "lost"}
       THEN <<command[o].audited, command[o].wrote>>
       ELSE command[o]]>>
=============================================================================
