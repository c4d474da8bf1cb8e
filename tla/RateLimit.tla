------------------------------ MODULE RateLimit ------------------------------
(***************************************************************************)
(* How much a local user may send. Postfix asks the policy service         *)
(* (core/rate_limit_policy.py) about every message: a counter per clock    *)
(* hour and a token bucket decide, and a streak of deferrals is noted,     *)
(* which the alerts (core/alerts.py) and the auto-disable tick             *)
(* (core/rate_limit_abuse.py) act on. Administrators change the limits and *)
(* re-enable the user meanwhile; a daily tick deletes old counters.        *)
(*                                                                         *)
(* The module follows one user: no statement of the service reads another  *)
(* user's rows. An evaluation is cut in two, its reads and its commit;     *)
(* SQLAlchemy writes back only the columns that it changed.                *)
(*                                                                         *)
(* What is abstracted: time is a number of ticks; tokens are counted in    *)
(* fractions of 1/Hour, so that a tick refills `hour` of them (the code    *)
(* uses a float); limit 0 stands for NULL.                                 *)
(***************************************************************************)
EXTENDS Integers, Sequences, FiniteSets

CONSTANTS
  Connections,  \* connections of smtpd to the policy service
  Hour,         \* ticks in an hour
  Gap,          \* DEFER_STREAK_GAP
  Threshold,    \* rate_limit_abuse_threshold_minutes
  Retain,       \* _RETAIN of rate_limit_cleanup
  NoTime,       \* NULL
  NoBucket,     \* "the user has no local_user_burst_buckets row"
  Profiles,     \* what may happen: [limits, edits and fails (how many)]
  MaxTime,      \* bounds: ticks,
  MaxMessages   \* ... and messages

Limit == {l \in [hour : Nat, burst : Nat] : l.hour = 0 => l.burst = 0}
ASSUME RateAssumption ==
  /\ Hour \in Nat \ {0} /\ Gap \in Nat /\ Threshold \in Nat
  /\ Retain \in Nat /\ Hour <= Retain
  /\ NoTime \notin Nat /\ NoBucket \notin [tokens : Nat, at : Nat]
  /\ MaxTime \in Nat /\ MaxMessages \in Nat
  /\ \A p \in Profiles : p.limits \subseteq Limit /\ p.edits \in Nat /\ p.fails \in Nat

VARIABLES
  now,
  limit,     \* rate_limit_per_hour and rate_limit_burst of the user
  enabled,
  counter,   \* local_user_rate_limit_counters: messages by window
  bucket,    \* local_user_burst_buckets, or NoBucket
  streak,    \* rate_limit_defer_streak_started_at, _last_at
  eval,      \* what each connection's evaluation has read
  tick,      \* whether the auto-disable tick has chosen the user
  log,       \* history: when each message was evaluated, with which outcome
  edits,
  fails,
  profile    \* what may happen in this behaviour; never changes

policyRows == <<counter, bucket, streak>>
userRow == <<limit, enabled>>
vars == <<now, userRow, policyRows, eval, tick, log, edits, fails, profile>>

Times == 0..MaxTime
\* A window is named by the number of its hour.
WindowOf(t) == t \div Hour
Windows == 0..WindowOf(MaxTime)
NoStreak == [start |-> NoTime, last |-> NoTime]
Streak == [start : Times \cup {NoTime}, last : Times \cup {NoTime}]
Bucket == [tokens : Nat, at : Times]
Idle == [busy |-> FALSE, at |-> 0, limit |-> [hour |-> 0, burst |-> 0], count |-> 0,
         bucket |-> NoBucket, streak |-> NoStreak]
\* "free": not limited, or let through because the evaluation failed.
Outcomes == {"permit", "defer", "free"}

TypeOK ==
  /\ now \in Times
  /\ limit \in profile.limits /\ enabled \in BOOLEAN
  /\ counter \in [Windows -> 0..MaxMessages]
  /\ bucket \in Bucket \cup {NoBucket}
  /\ bucket # NoBucket => bucket.at <= now
  /\ streak \in Streak
  /\ eval \in [Connections ->
        [busy : BOOLEAN, at : Times, limit : Limit, count : 0..MaxMessages,
         bucket : Bucket \cup {NoBucket}, streak : Streak]]
  /\ \A c, d \in Connections : eval[c].busy /\ eval[d].busy => c = d
  /\ tick \in BOOLEAN
  /\ log \in Seq([at : Times, limit : Limit, outcome : Outcomes])
  /\ profile \in Profiles
  /\ edits \in 0..profile.edits /\ fails \in 0..profile.fails

Init ==
  /\ now = 0
  /\ profile \in Profiles
  /\ limit \in profile.limits /\ enabled = TRUE
  /\ counter = [w \in Windows |-> 0]
  /\ bucket = NoBucket
  /\ streak = NoStreak
  /\ eval = [c \in Connections |-> Idle]
  /\ tick = FALSE
  /\ log = <<>>
  /\ edits = 0 /\ fails = 0

\* An evaluation may see the clock move on, by less than a tick.
TimePasses ==
  /\ now < MaxTime
  /\ \A c \in Connections : eval[c].busy => eval[c].at = now
  /\ now' = now + 1
  /\ UNCHANGED <<userRow, policyRows, eval, tick, log, edits, fails, profile>>

-----------------------------------------------------------------------------
\* The policy service: evaluate().

Least(a, b) == IF a < b THEN a ELSE b

\* Variant: the refill is not capped.
RefillUncapped(b, l, t) == b.tokens + (t - b.at) * l.hour
\* _refill_burst_tokens
Refill(b, l, t) == Least(l.burst * Hour, b.tokens + (t - b.at) * l.hour)

\* A bucket that does not exist yet starts full.
Tokens(b, l, t) == IF b = NoBucket THEN l.burst * Hour ELSE Refill(b, l, t)

Logged(e, outcome) ==
  log' = Append(log, [at |-> e.at, limit |-> e.limit, outcome |-> outcome])

\* A user without a limit is not looked at any further.
Unlimited(c) ==
  /\ \A d \in Connections : ~eval[d].busy
  /\ Len(log) < MaxMessages
  /\ limit.hour = 0
  /\ Logged([Idle EXCEPT !.at = now], "free")
  /\ UNCHANGED <<now, userRow, policyRows, eval, tick, edits, fails, profile>>

Reading == [busy |-> TRUE, at |-> now, limit |-> limit, count |-> counter[WindowOf(now)],
            bucket |-> bucket, streak |-> streak]

\* Variant: without _evaluate_lock.
ReadUnlocked(c) ==
  /\ ~eval[c].busy
  /\ Len(log) < MaxMessages
  /\ limit.hour # 0
  /\ eval' = [eval EXCEPT ![c] = Reading]
  /\ UNCHANGED <<now, userRow, policyRows, tick, log, edits, fails, profile>>
\* _evaluate_lock is held from the reads to the commit.
Read(c) ==
  /\ \A d \in Connections : ~eval[d].busy
  /\ Len(log) < MaxMessages
  /\ limit.hour # 0
  /\ eval' = [eval EXCEPT ![c] = Reading]
  /\ UNCHANGED <<now, userRow, policyRows, tick, log, edits, fails, profile>>

Permitted(e) ==
  /\ e.count < e.limit.hour
  /\ e.limit.burst # 0 => Tokens(e.bucket, e.limit, e.at) >= Hour

\* Variant: a column is never set back to NULL.
ColumnNeverCleared(loaded, new, current) ==
  IF new \in {loaded, NoTime} THEN current ELSE new
\* Columns that keep the value they were loaded with are not written.
Column(loaded, new, current) == IF new = loaded THEN current ELSE new
WriteStreak(loaded, new) ==
  streak' = [f \in {"start", "last"} |-> Column(loaded[f], new[f], streak[f])]

Permit(c) ==
  /\ eval[c].busy
  /\ LET e == eval[c]
     IN /\ Permitted(e)
        /\ counter' = [counter EXCEPT ![WindowOf(e.at)] = e.count + 1]
        /\ bucket' = IF e.limit.burst = 0 THEN bucket
                     ELSE [tokens |-> Tokens(e.bucket, e.limit, e.at) - Hour, at |-> e.at]
        /\ WriteStreak(e.streak, NoStreak)
        /\ Logged(e, "permit")
  /\ eval' = [eval EXCEPT ![c] = Idle]
  /\ UNCHANGED <<now, userRow, tick, edits, fails, profile>>

\* Variant: any later deferral continues the streak.
BrokenNever(s, t) == s.start = NoTime \/ s.last = NoTime
Broken(s, t) == s.start = NoTime \/ s.last = NoTime \/ t - s.last > Gap

\* Nothing is spent, and nothing that was refilled is lost.
Deferred(e) == [tokens |-> Tokens(e.bucket, e.limit, e.at), at |-> e.at]

Defer(c) ==
  /\ eval[c].busy
  /\ LET e == eval[c]
     IN /\ ~Permitted(e)
        /\ bucket' = IF e.limit.burst = 0 THEN bucket ELSE Deferred(e)
        /\ WriteStreak(e.streak, [start |-> IF Broken(e.streak, e.at) THEN e.at
                                            ELSE e.streak.start, last |-> e.at])
        /\ Logged(e, "defer")
  /\ eval' = [eval EXCEPT ![c] = Idle]
  /\ UNCHANGED <<now, userRow, counter, tick, edits, fails, profile>>

\* "A bug here must never become a mail outage - fail open."
FailOpen(c) ==
  /\ eval[c].busy
  /\ fails < profile.fails
  /\ fails' = fails + 1
  /\ Logged(eval[c], "free")
  /\ eval' = [eval EXCEPT ![c] = Idle]
  /\ UNCHANGED <<now, userRow, policyRows, tick, edits, profile>>

-----------------------------------------------------------------------------
\* Administrators (api/routes/local_users.py update_user) and the ticks.

SetLimit(l) ==
  /\ edits < profile.edits /\ l # limit
  /\ edits' = edits + 1
  /\ limit' = l
  /\ UNCHANGED <<now, enabled, policyRows, eval, tick, log, fails, profile>>

\* The streak is left alone.
Disable ==
  /\ edits < profile.edits /\ enabled
  /\ edits' = edits + 1
  /\ enabled' = FALSE
  /\ UNCHANGED <<now, limit, policyRows, eval, tick, log, fails, profile>>

Enable ==
  /\ ~enabled
  /\ enabled' = TRUE
  /\ streak' = NoStreak
  /\ UNCHANGED <<now, limit, counter, bucket, eval, tick, log, edits, fails, profile>>

\* A streak of at least the threshold that goes on.
Throttled ==
  /\ streak.start # NoTime /\ streak.last # NoTime
  /\ streak.start <= now - Threshold
  /\ streak.last >= now - Gap

\* run_rate_limit_abuse_detection: the query, then, after the call that
\* revokes the credential, the commit (LocalUsers has the call). A user whose
\* credential cannot be revoked is skipped.
ChooseAbuser ==
  /\ ~tick /\ enabled /\ Throttled
  /\ tick' = TRUE
  /\ UNCHANGED <<now, userRow, policyRows, eval, log, edits, fails, profile>>

DisableAbuser ==
  /\ tick
  /\ tick' = FALSE
  /\ enabled' \in {enabled, FALSE}
  /\ UNCHANGED <<now, limit, policyRows, eval, log, edits, fails, profile>>

\* Variant: the rows of every window that has begun.
ExpiredEarly(w) == w * Hour <= now
Expired(w) == w * Hour < now - Retain

Cleanup ==
  /\ \E w \in Windows : Expired(w) /\ counter[w] # 0
  /\ counter' = [w \in Windows |-> IF Expired(w) THEN 0 ELSE counter[w]]
  /\ UNCHANGED <<now, userRow, bucket, streak, eval, tick, log, edits, fails, profile>>

-----------------------------------------------------------------------------
Evaluate(c) == Unlimited(c) \/ Read(c) \/ Permit(c) \/ Defer(c) \/ FailOpen(c)

Next ==
  \/ TimePasses \/ Disable \/ Enable \/ ChooseAbuser \/ DisableAbuser \/ Cleanup
  \/ \E c \in Connections : Evaluate(c)
  \/ \E l \in profile.limits : SetLimit(l)

Spec == Init /\ [][Next]_vars

-----------------------------------------------------------------------------
(***************************************************************************)
(* Properties                                                              *)
(***************************************************************************)

Messages == 1..Len(log)
Sent == {i \in Messages : log[i].outcome = "permit"}

\* "a coarse period total is exactly what an admin configuring N per hour
\* expects": a message is only permitted while the messages permitted in its
\* clock hour are fewer than the limit it was evaluated with - over changed
\* limits, several connections and deleted counters.
HourlyCeiling ==
  \A i \in Sent :
    Cardinality({j \in Sent : j <= i /\ WindowOf(log[j].at) = WindowOf(log[i].at)})
      <= log[i].limit.hour

\* The token bucket "has no such boundary": in any stretch of time with one
\* limit, also across the end of an hour, no more messages are permitted than
\* the burst and what is refilled from the first of them to the last.
BurstBound ==
  \A i, j \in Sent :
    LET l == log[i].limit
        stretch == {k \in Sent : i <= k /\ k <= j}
    IN i <= j /\ l.burst # 0 /\ (\A k \in i..j : log[k].limit = l) =>
         Cardinality(stretch) * Hour <= l.burst * Hour + (log[j].at - log[i].at) * l.hour

\* "an unbroken streak of rejections": from the start to the last deferral of a
\* streak, which is the newest message evaluated, the user's messages were all
\* deferred, and each came at most DEFER_STREAK_GAP after the one before. (A
\* streak with one column NULL is none to any reader that asks if it goes on.)
Evaluated == {i \in Messages : log[i].outcome # "free"}
Follows(i, j) == i < j /\ \A k \in Evaluated : k <= i \/ j <= k
Unbroken(s) ==
  s.start # NoTime /\ s.last # NoTime =>
    \E first, last \in Evaluated :
      /\ log[first].at = s.start /\ log[last].at = s.last
      /\ first <= last /\ \A i \in Evaluated : i <= last
      /\ \A i \in Evaluated : first <= i => log[i].outcome = "defer"
      /\ \A i, j \in Evaluated :
           first <= i /\ Follows(i, j) => log[j].at - log[i].at <= Gap
StreakUnbroken == Unbroken(streak)

\* "No messages have gone through since" (alerts.py), which is also what the
\* auto-disable tick disables a user for.
NoneGoneThrough ==
  enabled /\ Throttled =>
    \A i \in Messages : log[i].at > streak.start => log[i].outcome = "defer"

\* It is true of a user who keeps a limit and whose evaluations do not fail.
AlwaysLimited == profile.fails = 0 /\ \A l \in profile.limits : l.hour # 0
NoneGoneThroughWhenLimited == AlwaysLimited => NoneGoneThrough

\* "Automatically disabled after being throttled continuously since" the start
\* of the streak (alerts.py, of a disabled user): the deferrals went on for as
\* long as the auto-disable tick asks for.
DisabledAfterThrottling ==
  ~enabled /\ streak.start # NoTime /\ streak.start <= now - Threshold =>
    streak.last # NoTime /\ streak.last >= streak.start + Threshold - Gap
=============================================================================
