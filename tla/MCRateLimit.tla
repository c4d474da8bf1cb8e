----------------------------- MODULE MCRateLimit -----------------------------
(***************************************************************************)
(* Small instances of RateLimit for TLC: hours of three ticks.             *)
(***************************************************************************)
EXTENDS RateLimit, TLC

\* Connections are only told apart by what they have read.
MCSymmetry == Permutations(Connections)

L(hour, burst) == [hour |-> hour, burst |-> burst]
Profile(limits, n, f) == [limits |-> limits, edits |-> n, fails |-> f]

\* A limit that is raised and lowered; limits that come and go, with an
\* evaluation that fails.
MCProfiles ==
  { Profile({L(1, 1), L(3, 2)}, 1, 0),
    Profile({L(0, 0), L(2, 1)}, 2, 1) }
\* A limit that is removed, and nothing that fails.
Removal == {Profile({L(0, 0), L(1, 0)}, 1, 0)}
\* One limit that stays, and one change: the user is disabled.
Disabling == {Profile({L(1, 0)}, 1, 0)}
=============================================================================
