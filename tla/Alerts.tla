--------------------------------- MODULE Alerts ---------------------------------
(***************************************************************************)
(* Alerts and their e-mails: core/alerts.py, core/alert_email.py, the      *)
(* connection tests (core/scheduled_tests.py, core/upstream_testing.py),   *)
(* core/update_check.py and the routes that change what they read.         *)
(*                                                                         *)
(* The alert tick is a thread that handles one kind of alert after the     *)
(* other. It works on objects of its session: the settings and the job     *)
(* state are read once and stay as they were, until a commit writes what   *)
(* it changed and forgets the rest, which is then read again. The alerts   *)
(* themselves are computed once. Requests and the other jobs run meanwhile.*)
(*                                                                         *)
(* What is abstracted: the state of a condition is 0 or 1, and of an       *)
(* available update its version, 0 when there is none; intervals of jobs;  *)
(* the acknowledgement of an update, which only the bell looks at; what    *)
(* makes the relay degraded or a user throttled (ConfigPipeline, RateLimit)*)
(***************************************************************************)
EXTENDS Naturals, Sequences

CONSTANTS
  StateKinds,   \* _STATE_TRACKED_KINDS, in order
  VersionKinds, \* _VERSION_TRACKED_KINDS, in order
  TestKind,     \* the kind that the connection tests decide
  Accounts,     \* upstream accounts, enabled
  Versions,     \* 1..n
  MaxFaults,
  Profiles      \* what a behaviour may do, and its bound: [changes (in the world
                \* and the settings), faults (sends and commits that fail, processes
                \* that end)]

SeqRange(s) == {s[i] : i \in DOMAIN s}
Kinds == StateKinds \o VersionKinds
OfState == SeqRange(StateKinds)
OfVersion == SeqRange(VersionKinds)
AllKinds == SeqRange(Kinds)

Changes == {"condition", "test", "update", "settings", "test_alert"}

ASSUME KindAssumption ==
  /\ StateKinds \in Seq(STRING) /\ VersionKinds \in Seq(STRING)
  /\ \A i, j \in DOMAIN Kinds : Kinds[i] = Kinds[j] => i = j
  /\ OfState \cap OfVersion = {} /\ TestKind \in OfState
ASSUME BoundAssumption == Versions \subseteq Nat \ {0} /\ 1 \in Versions /\ MaxFaults \in Nat
  /\ Profiles \subseteq [changes : SUBSET Changes, faults : 0..MaxFaults]

VARIABLES
  degraded,   \* the conditions that hold, those of the tests apart
  failing,    \* accounts whose last_test_result is a failure
  batch,      \* the connection_test tick: the results it has so far
  latest,     \* latest_app_version, latest_postfix_version
  usable,     \* recipients are set and the sender can send
  toggles,    \* the kinds notify_on_... is set for
  known,      \* the _active flags and the last e-mailed versions
  lastFailed, \* whether the last row of an alert e-mail is a failure
  tick,       \* the alert_email tick
  told,       \* history: e-mails about each state of each kind; those of a
              \* condition since its flag was last cleared
  lost,       \* history: how many of them may have gone out without being known
  mixed,      \* history: kinds whose e-mail was of another version than it recorded
  faults,     \* faults so far
  profile     \* what may happen in this behaviour; never changes

world == <<degraded, failing, batch, latest>>
config == <<usable, toggles>>
mail == <<known, lastFailed, tick, told, lost, mixed, faults>>
vars == <<world, config, mail, profile>>

States == Versions \cup {0}
Readings == {r \in [AllKinds -> States] : \A k \in OfState : r[k] \in {0, 1}}
NoTick == [step |-> "idle", kind |-> 1, seen |-> [k \in AllKinds |-> 0],
           row |-> [k \in AllKinds |-> 0], toggles |-> {}, known |-> [k \in AllKinds |-> 0],
           fresh |-> FALSE, sent |-> {}, record |-> 0]
NoBatch == [running |-> FALSE, done |-> {}, failed |-> {}]

TypeOK ==
  /\ degraded \subseteq OfState \ {TestKind} /\ failing \subseteq Accounts
  /\ batch \in [running : BOOLEAN, done : SUBSET Accounts, failed : SUBSET Accounts]
  /\ batch.failed \subseteq batch.done
  /\ latest \in [OfVersion -> States]
  /\ usable \in BOOLEAN /\ toggles \subseteq AllKinds
  /\ known \in Readings /\ lastFailed \in BOOLEAN
  /\ tick \in [step : {"idle", "kind", "sending", "logging"}, kind : 1..Len(Kinds) + 1,
               seen : Readings, row : Readings, toggles : SUBSET AllKinds, known : Readings,
               fresh : BOOLEAN, sent : SUBSET AllKinds, record : States]
  /\ tick.step = "idle" => tick = NoTick
  /\ told \in [AllKinds -> [Versions -> Nat]] /\ lost \in [AllKinds -> 0..MaxFaults]
  /\ mixed \subseteq OfVersion
  /\ faults \in 0..profile.faults /\ profile \in Profiles

Init ==
  /\ degraded = {} /\ failing = {} /\ batch = NoBatch
  /\ latest = [k \in OfVersion |-> 0]
  /\ usable = TRUE /\ toggles = AllKinds
  /\ known = [k \in AllKinds |-> 0] /\ lastFailed = FALSE
  /\ tick = NoTick
  /\ told = [k \in AllKinds |-> [v \in Versions |-> 0]]
  /\ lost = [k \in AllKinds |-> 0]
  /\ mixed = {} /\ faults = 0
  /\ profile \in Profiles

\* compute_active_alerts: the state of every kind.
Reading == [k \in AllKinds |->
  CASE k \in OfVersion -> latest[k]
    [] k = TestKind    -> IF failing # {} THEN 1 ELSE 0
    [] OTHER           -> IF k \in degraded THEN 1 ELSE 0]

Fault == faults < profile.faults /\ faults' = faults + 1

-----------------------------------------------------------------------------
\* What the alerts are about.

May(change) == change \in profile.changes

\* The relay degrades or recovers, a user's streak becomes too long or ends.
ConditionChanges(k) ==
  /\ May("condition") /\ k # TestKind
  /\ degraded' = IF k \in degraded THEN degraded \ {k} ELSE degraded \cup {k}
  /\ UNCHANGED <<failing, batch, latest, config, mail>>

\* run_connection_test_batch tests one account after the other and commits all
\* the results at once.
BatchStart ==
  /\ May("test") /\ ~batch.running
  /\ batch' = [NoBatch EXCEPT !.running = TRUE]
  /\ UNCHANGED <<degraded, failing, latest, config, mail>>

BatchTest(a) ==
  /\ batch.running /\ a \notin batch.done
  /\ \E failed \in SUBSET {a} :
       batch' = [batch EXCEPT !.done = @ \cup {a}, !.failed = @ \cup failed]
  /\ UNCHANGED <<degraded, failing, latest, config, mail>>

\* A secret that does not decrypt leaves its account untested; a commit that
\* fails leaves them all.
BatchCommit ==
  /\ batch.running
  /\ failing' \in {failing, (failing \ batch.done) \cup batch.failed}
  /\ batch' = NoBatch
  /\ UNCHANGED <<degraded, latest, config, mail>>

\* test_connection, and an account that is deleted.
TestAccount(a) ==
  /\ May("test")
  /\ failing' \in {failing \ {a}, failing \cup {a}}
  /\ UNCHANGED <<degraded, batch, latest, config, mail>>

\* _run_checks: each check stores the version it finds, or leaves the last one.
UpdateCheck ==
  /\ May("update")
  /\ latest' \in {l \in [OfVersion -> States] : \A k \in OfVersion : l[k] >= latest[k]}
  /\ latest' # latest
  /\ UNCHANGED <<degraded, failing, batch, config, mail>>

\* update_notification_settings, and edits of the sender and its account.
SettingsChange ==
  /\ May("settings")
  /\ \/ usable' = ~usable /\ UNCHANGED toggles
     \/ UNCHANGED usable /\ \E k \in AllKinds :
          toggles' = IF k \in toggles THEN toggles \ {k} ELSE toggles \cup {k}
  /\ UNCHANGED <<world, mail>>

\* send_test_notification: its e-mail is of no kind, and its row is one more.
TestAlert ==
  /\ May("test_alert") /\ usable /\ lastFailed' \in BOOLEAN
  /\ UNCHANGED <<world, config, known, tick, told, lost, mixed, faults>>

-----------------------------------------------------------------------------
\* The tick.

Kind == Kinds[tick.kind]
Done == tick.kind > Len(Kinds)

\* Nothing is read without recipients or without a sender that can send.
TickStart ==
  /\ tick.step = "idle" /\ usable
  /\ tick' = [NoTick EXCEPT !.step = "kind", !.seen = Reading, !.row = Reading,
                            !.toggles = toggles, !.known = known, !.fresh = TRUE]
  /\ UNCHANGED <<world, config, known, lastFailed, told, lost, mixed, faults>>

\* What the session shows at this kind: after a commit it is read again, the
\* changes that are not committed yet apart.
Refreshed == IF tick.fresh THEN tick
             ELSE [tick EXCEPT !.row = Reading, !.toggles = toggles, !.fresh = TRUE]

\* The state an e-mail about kind k would record: the alert's own for a
\* condition, the one on record for an update.
Recorded(t, k) == IF k \in OfState THEN t.seen[k] ELSE t.row[k]
ToSend(t, k) == k \in t.toggles /\ t.seen[k] # 0 /\ Recorded(t, k) # t.known[k]

\* Variant: a condition that has ended is not written down.
ToClearNever(t, k) == FALSE
ToClear(t, k) == k \in t.toggles /\ k \in OfState /\ t.seen[k] = 0 /\ t.known[k] # 0

NextKind(t) == [t EXCEPT !.step = "kind", !.kind = @ + 1, !.record = 0]

Consider ==
  /\ tick.step = "kind" /\ ~Done
  /\ LET t == Refreshed IN
     tick' = CASE ToSend(t, Kind)  -> [t EXCEPT !.step = "sending",
                                                !.record = Recorded(t, Kind)]
               [] ToClear(t, Kind) -> NextKind([t EXCEPT !.known[Kind] = 0])
               [] OTHER            -> NextKind(t)
  /\ UNCHANGED <<world, config, known, lastFailed, told, lost, mixed, faults>>

\* send_alert_email, to the end.
Mailed(k) == told' = [told EXCEPT ![k][tick.seen[k]] = @ + 1]
Send ==
  /\ tick.step = "sending"
  /\ Mailed(Kind)
  /\ mixed' = IF tick.record = tick.seen[Kind] THEN mixed ELSE mixed \cup {Kind}
  /\ tick' = [tick EXCEPT !.step = "logging", !.sent = @ \cup {Kind}]
  /\ UNCHANGED <<world, config, known, lastFailed, lost, faults>>

\* A commit writes what the tick has changed. The e-mails about a condition that
\* has ended count no more.
Ended(k) == k \in OfState /\ known[k] # 0 /\ tick.known[k] = 0
Commit(mails, misses) ==
  /\ known' = tick.known
  /\ told' = [k \in AllKinds |-> IF Ended(k) THEN [v \in Versions |-> 0] ELSE mails[k]]
  /\ lost' = [k \in AllKinds |-> IF Ended(k) THEN 0 ELSE misses[k]]

\* It raised: the kind is tried again in the next tick, and there is at most one
\* row for each distinct failure, with the commit that goes with it. The e-mail
\* may have gone out all the same.
\* Variant: the kind counts as notified.
SendFailsForGood ==
  /\ tick.step = "sending" /\ Fault
  /\ lastFailed' = TRUE /\ Commit(told, lost)
  /\ tick' = [NextKind(tick) EXCEPT !.known[Kind] = tick.record, !.fresh = FALSE]
  /\ UNCHANGED <<world, config, mixed>>
SendFails ==
  /\ tick.step = "sending" /\ Fault
  /\ \E out \in {0, 1} :
       LET mails == [told EXCEPT ![Kind][tick.seen[Kind]] = @ + out]
           misses == [lost EXCEPT ![Kind] = @ + out]
       IN  \/ /\ lastFailed /\ told' = mails /\ lost' = misses
              /\ tick' = NextKind(tick)
              /\ UNCHANGED <<known, lastFailed>>
           \/ /\ lastFailed' = TRUE /\ Commit(mails, misses)
              /\ tick' = [NextKind(tick) EXCEPT !.fresh = FALSE, !.sent = {}]
  /\ UNCHANGED <<world, config, mixed>>

\* _log_mail commits the row of the e-mail, and with it what the kinds before
\* this one have changed. Only then is this e-mail noted, for the next commit.
LogMail ==
  /\ tick.step = "logging"
  /\ Commit(told, lost) /\ lastFailed' = FALSE
  /\ tick' = [NextKind(tick) EXCEPT !.known[Kind] = tick.record, !.fresh = FALSE,
                                    !.sent = {Kind}]
  /\ UNCHANGED <<world, config, mixed, faults>>

\* What is changed is committed; with nothing to commit the tick just ends.
\* Variant: an e-mail is not a change.
TickEndUncommitted ==
  /\ tick.step = "kind" /\ Done
  /\ IF tick.sent = {} THEN Commit(told, lost) ELSE UNCHANGED <<known, told, lost>>
  /\ tick' = NoTick
  /\ UNCHANGED <<world, config, lastFailed, mixed, faults>>
TickEnd ==
  /\ tick.step = "kind" /\ Done
  /\ Commit(told, lost)
  /\ tick' = NoTick
  /\ UNCHANGED <<world, config, lastFailed, mixed, faults>>

\* A commit that fails ends the tick, as the end of the process does: what was
\* not committed is lost.
\* Variant: the session is not closed.
TickLostOpen ==
  /\ tick.step # "idle" /\ Fault
  /\ lost' = [k \in AllKinds |-> IF k \in tick.sent THEN lost[k] + 1 ELSE lost[k]]
  /\ tick' = [tick EXCEPT !.step = "idle"]
  /\ UNCHANGED <<world, config, known, lastFailed, told, mixed>>
TickLost ==
  /\ tick.step # "idle" /\ Fault
  /\ lost' = [k \in AllKinds |-> IF k \in tick.sent THEN lost[k] + 1 ELSE lost[k]]
  /\ tick' = NoTick
  /\ UNCHANGED <<world, config, known, lastFailed, told, mixed>>

Next ==
  /\ \/ \E k \in OfState : ConditionChanges(k)
     \/ BatchStart \/ BatchCommit
     \/ \E a \in Accounts : BatchTest(a) \/ TestAccount(a)
     \/ UpdateCheck \/ SettingsChange \/ TestAlert
     \/ TickStart \/ Consider \/ Send \/ SendFails \/ LogMail \/ TickEnd \/ TickLost
  /\ UNCHANGED profile

TickStep == /\ TickStart \/ Consider \/ Send \/ SendFails \/ LogMail \/ TickEnd
            /\ UNCHANGED profile

\* The tick runs once a minute, whatever happened to the last one (run_periodic).
Spec == Init /\ [][Next]_vars /\ WF_vars(TickStep)

-----------------------------------------------------------------------------
\* Nothing counts as notified that was not mailed: a flag that is set stands for
\* an e-mail since it was last cleared, a version on record for an e-mail about
\* that version, unless the tick read a newer one between the alert and its
\* e-mail.
NotifiedWasMailed ==
  \A k \in AllKinds : known[k] # 0 => told[k][known[k]] > 0 \/ k \in mixed

\* One e-mail for each time a condition begins and for each new version, and one
\* more for each that could not be written down (alert_email.py's edge trigger).
MailedOnce ==
  \A k \in AllKinds, v \in Versions : told[k][v] <= 1 + lost[k] \/ k \in mixed

\* What stays as it is gets known: a condition that lasts is mailed, one that is
\* over is cleared, so that the next is mailed again, whatever failed before.
Settles ==
  \A k \in AllKinds : \A v \in States :
    <>[](usable /\ k \in toggles /\ Reading[k] = v) => <>[](known[k] = v)

\* Each version on record was mailed: once per newly-seen version.
EveryVersionMailed ==
  \A k \in OfVersion : known[k] # 0 => told[k][known[k]] > 0
=============================================================================
