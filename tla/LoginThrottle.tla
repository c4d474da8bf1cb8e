----------------------------- MODULE LoginThrottle -----------------------------
(***************************************************************************)
(* The login rate limiter of core/rate_limit.py as a function of what the  *)
(* audit log holds: the failures of an account since its last success,     *)
(* each with the source it came from. The failures of e-mails that are no  *)
(* account's are counted together. A filter of a query is the set of the   *)
(* positions that pass it.                                                 *)
(***************************************************************************)
EXTENDS Naturals, Sequences, FiniteSets

CONSTANTS
  Sources,            \* client IP addresses
  Thresholds,         \* rate_limit_thresholds: <<[failures, lockout], ...>>
  Window,             \* rate_limit_window_seconds
  AccountWideFactor   \* _ACCOUNT_WIDE_FACTOR

ASSUME ThresholdAssumption ==
  /\ Thresholds \in Seq([failures : Nat \ {0}, lockout : Nat])
  /\ Window \in Nat /\ AccountWideFactor \in Nat \ {0}

Failures == Seq([at : Nat, from : Sources])

\* _lockout_seconds_for: the last threshold that n failures reach.
Lockout(n, factor) ==
  LET met == {i \in DOMAIN Thresholds : n >= Thresholds[i].failures * factor}
  IN  IF met = {} THEN 0
      ELSE Thresholds[CHOOSE i \in met : \A k \in met : k <= i].lockout

\* _worst_case: whether the failures counted lock somebody out now, that is, for
\* as long after the most recent of them as their number has earned.
LocksOut(failures, counted, factor, now) ==
  \E i \in counted : now < failures[i].at + Lockout(Cardinality(counted), factor)

InWindow(failures, now) == {i \in DOMAIN failures : failures[i].at + Window >= now}
From(failures, source) == {i \in DOMAIN failures : failures[i].from = source}

\* The thresholds of the counter of all sources.
\* Variant: they are those of one source.
AccountWideUnscaled(failures, counted, now) == LocksOut(failures, counted, 1, now)
AccountWide(failures, counted, now) == LocksOut(failures, counted, AccountWideFactor, now)

\* check_rate_limit; an unknown e-mail has no account-wide counter.
Locked(known, failures, source, now) ==
  LET recent == InWindow(failures, now)
  IN  \/ LocksOut(failures, recent \cap From(failures, source), 1, now)
      \/ known /\ AccountWide(failures, recent, now)
=============================================================================
