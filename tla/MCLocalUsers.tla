----------------------------- MODULE MCLocalUsers -----------------------------
(***************************************************************************)
(* Small instances of LocalUsers for TLC.                                  *)
(***************************************************************************)
EXTENDS LocalUsers

Profile(kinds, n, ops, o, pws) ==
  [kinds |-> kinds, faults |-> n, ops |-> ops, overlap |-> o, passwords |-> pws]
AllOps == JobOps \ {"reconcile"}
CleanKinds == {"refuse", "restart", "busy"}

\* In this order: one job at a time with clean failures; requests that hold
\* the lock, at once; one job at a time with two faults of any kind;
\* everything at once with one.
MCProfiles ==
  { Profile(CleanKinds, 2, AllOps \ {RegenerateDisabled}, FALSE, 3),
    Profile(CleanKinds, 1, {"create", "disable", "enable"}, TRUE, 3),
    Profile(FaultKinds, 2, AllOps, FALSE, 2),
    Profile(FaultKinds, 1, AllOps, TRUE, 2) }

\* One job at a time, nothing fails: create, disable, regenerate.
RegenerateAfterDisable ==
  {Profile({}, 0, {"create", "disable", RegenerateDisabled}, FALSE, 3)}
\* Two requests at once, nothing fails.
RegenerateWhileDeleting == {Profile({}, 0, {"create", "delete", "regenerate"}, TRUE, 3)}
=============================================================================
