---------------------------- MODULE TlsCertificate ----------------------------
(***************************************************************************)
(* The relay's TLS certificate: ordered from an ACME server with a DNS-01  *)
(* challenge (core/acme_tls.py), once a day by the renewal tick            *)
(* (core/cert_renewal.py) or when an administrator asks                    *)
(* (api/routes/tls_settings.py), installed by the control surface, and     *)
(* kept in the database, from which a lost volume is filled again.         *)
(*                                                                         *)
(* Requests, the tick and the startup hook run as jobs of Workers, cut     *)
(* where they read the database, talk to the ACME server, call the control *)
(* surface and commit. The control surface handles one call at a time and  *)
(* replaces certificate and key with two renames; it and the application   *)
(* stop and start on their own.                                            *)
(*                                                                         *)
(* What is abstracted: a certificate and its key are a number, free again  *)
(* when nothing refers to it; its age is "fresh", "due" for renewal or     *)
(* "expired"; a day is one step, and what the clock decides per day (the   *)
(* tick's gate, the end of a manual challenge, a certificate's age) changes*)
(* with it. The ACME account and the audit log are left out. A token or a  *)
(* key that cannot be decrypted is an order that fails.                    *)
(***************************************************************************)
EXTENDS Naturals, Sequences

CONSTANTS
  Certs,         \* certificates (with their keys) that may exist at a time
  Placeholder,   \* the self-signed pair of postfix/entrypoint.sh
  NoCert,
  Domains, NoDomain,
  Orders, NoOrder,   \* orders of manual challenges
  Ticker,        \* the thread of the tick and of the startup hook
  Workers,       \* the threads of requests
  NoWorker,
  Profiles       \* what may happen: [ops, kinds, faults (how many), settings at
                 \* first, patched (settings later), patches (how many)]

\* "disk"    a write of the control surface fails
\* "start"   postfix does not start with the new pair
\* "volume"  the postfix container is made anew without its TLS volume
\* "halt"    the postfix container stops and starts
\* "giveup"  the caller's timeout is over before the answer
\* "quit"    the application stops and starts
\* "acme"    the order fails: DNS, the ACME server, a key that is not there
\* "commit"  COMMIT fails
FaultKinds == {"disk", "start", "volume", "halt", "giveup", "quit", "acme", "commit"}
Ops == {"tick", "issue", "start", "confirm", "patch"}

\* relay_settings: tls_acme_enabled, tls_domain, tls_dns_provider.
Settings == [enabled : BOOLEAN, domain : Domains \cup {NoDomain}, manual : BOOLEAN]

ASSUME NoneAssumption ==
  /\ Certs \subseteq Nat /\ Orders \subseteq Nat
  /\ Placeholder \notin Certs /\ NoCert \notin Certs \cup {Placeholder}
  /\ NoDomain \notin Domains /\ NoOrder \notin Orders
  /\ Ticker \notin Workers /\ NoWorker \notin Workers \cup {Ticker}
ASSUME ProfilesAssumption ==
  Profiles \subseteq [ops : SUBSET Ops, kinds : SUBSET FaultKinds, faults : Nat,
                      settings : Settings, patched : SUBSET Settings, patches : Nat]

VARIABLES
  settings,   \* relay_settings
  age,        \* of each certificate
  row,        \* tls_certificate_state: the certificate of record
  pending,    \* tls_pending_manual_challenge: its domain and its order
  spent,      \* orders that the ACME server has finalised
  gate,       \* cert_renewal_last_checked_at is less than a day old
  failed,     \* cert_last_renewal_error is set
  job,        \* what each worker is doing
  app,        \* "starting" until the startup hook is over, then "up"
  live,       \* relay.crt and relay.key
  previous,   \* what _install_tls_certificate read before it wrote
  srv,        \* where the control surface is with the first call
  calls,      \* calls on its socket, the first one being handled
  ordered,    \* history: orders of the tick since its gate was last open
  torn,       \* history: an installation was cut between its two renames
  profile,    \* what may happen in this behaviour; never changes
  faults, patches  \* so far

db == <<settings, row, pending, gate, failed>>
acme == <<age, spent>>
surface == <<live, previous, srv, calls, torn>>
bounds == <<faults, patches>>
vars == <<db, acme, job, app, surface, ordered, profile, bounds>>

Threads == Workers \cup {Ticker}
Pairs == Certs \cup {Placeholder}
Both(c) == [crt |-> c, key |-> c]
Ages == {"fresh", "due", "expired"}
NoChallenge == [domain |-> NoDomain, order |-> NoOrder]
\* `domain` is the one to order for, as the job read it.
Idle == [op |-> "none", step |-> "idle", domain |-> NoDomain, order |-> NoOrder,
         cert |-> NoCert, answer |-> "none"]
Answers == {"none", "accepted", "rejected", "error"}
Jobs == [op : (Ops \ {"patch"}) \cup {"none", "startup"},
         step : {"idle", "sync", "gate", "order", "wait", "commit"},
         domain : Domains \cup {NoDomain}, order : Orders \cup {NoOrder},
         cert : Certs \cup {NoCert}, answer : Answers]
Calls == [worker : Threads \cup {NoWorker}, cert : Certs]

\* A call of this thread is on the socket.
Waiting(t) == job[t].step \in {"sync", "wait"} /\ job[t].answer = "none"

TypeOK ==
  /\ settings \in Settings
  /\ age \in [Certs -> Ages] /\ spent \subseteq Orders
  /\ row \in Certs \cup {NoCert}
  /\ pending \in [domain : Domains, order : Orders] \cup {NoChallenge}
  /\ gate \in BOOLEAN /\ failed \in BOOLEAN
  /\ job \in [Threads -> Jobs]
  /\ app \in {"starting", "up"}
  /\ live \in [crt : Pairs, key : Pairs] /\ previous \in [crt : Pairs, key : Pairs]
  /\ srv \in {"idle", "key", "restart", "accepted", "rejected", "error"}
  /\ calls \in Seq(Calls) /\ (srv # "idle" => calls # <<>>)
  /\ \A t \in Threads : Waiting(t) <=> \E i \in 1..Len(calls) : calls[i].worker = t
  /\ \A i, k \in 1..Len(calls) :
       i # k => calls[i].worker = NoWorker \/ calls[i].worker # calls[k].worker
  /\ ordered \in Nat /\ torn \in BOOLEAN
  /\ profile \in Profiles
  /\ faults \in 0..profile.faults /\ patches \in 0..profile.patches

Init ==
  /\ profile \in Profiles
  /\ settings = profile.settings
  /\ age = [c \in Certs |-> "expired"] /\ spent = {}
  /\ row = NoCert /\ pending = NoChallenge
  /\ gate = FALSE /\ failed = FALSE
  /\ job = [t \in Threads |-> Idle]
  /\ app = "starting"
  /\ live = Both(Placeholder) /\ previous = live
  /\ srv = "idle" /\ calls = <<>>
  /\ ordered = 0 /\ torn = FALSE
  /\ faults = 0 /\ patches = 0

-----------------------------------------------------------------------------
Fault(kind) ==
  /\ kind \in profile.kinds /\ faults < profile.faults
  /\ faults' = faults + 1

At(t, step) == job[t].step = step
Start(t, j) == job' = [job EXCEPT ![t] = j]
MayBegin(w, op) == app = "up" /\ At(w, "idle") /\ op \in profile.ops

\* What something refers to. The numbers are used anew, the least first.
UsedCerts == Certs \cap
  ({row, live.crt, live.key, previous.crt, previous.key}
     \cup {job[t].cert : t \in Threads} \cup {calls[i].cert : i \in 1..Len(calls)})
UsedOrders == Orders \cap ({pending.order} \cup {job[t].order : t \in Threads})
Least(S) == {x \in S : \A y \in S : x <= y}

\* install_tls_certificate, the caller's half: the call is on the socket.
Send(t, c) == calls' = Append(calls, [worker |-> t, cert |-> c])

\* cert_renewal.py's `due`.
Due == row = NoCert \/ age[row] # "fresh"

\* The domain issue_or_renew orders for: none if it refuses.
AutomaticDomain == IF settings.enabled /\ ~settings.manual THEN settings.domain ELSE NoDomain

-----------------------------------------------------------------------------
\* The startup hook and the renewal tick.

\* sync_certificate_to_postfix: what is on record, if anything.
\* Variant: only at startup.
SyncOnlyAtStartup(op) ==
  /\ IF row = NoCert \/ op = "tick"
     THEN Start(Ticker, [Idle EXCEPT !.op = op, !.step = "gate"]) /\ UNCHANGED calls
     ELSE /\ Start(Ticker, [Idle EXCEPT !.op = op, !.step = "sync", !.cert = row])
          /\ Send(Ticker, row)
  /\ UNCHANGED <<db, acme, app, live, previous, srv, torn, ordered, bounds>>
Sync(op) ==
  /\ IF row = NoCert
     THEN Start(Ticker, [Idle EXCEPT !.op = op, !.step = "gate"]) /\ UNCHANGED calls
     ELSE /\ Start(Ticker, [Idle EXCEPT !.op = op, !.step = "sync", !.cert = row])
          /\ Send(Ticker, row)
  /\ UNCHANGED <<db, acme, app, live, previous, srv, torn, ordered, bounds>>

Startup == app = "starting" /\ At(Ticker, "idle") /\ Sync("startup")

StartupOver ==
  /\ job[Ticker].op = "startup" /\ At(Ticker, "gate")
  /\ app' = "up" /\ Start(Ticker, Idle)
  /\ UNCHANGED <<db, acme, surface, ordered, bounds>>

\* _cert_renewal_tick_sync, not before a day has passed.
TickBegin == MayBegin(Ticker, "tick") /\ ~gate /\ settings.enabled /\ Sync("tick")

\* A sync takes any answer, an error too.
SyncAnswered ==
  /\ At(Ticker, "sync") /\ job[Ticker].answer # "none"
  /\ Start(Ticker, [job[Ticker] EXCEPT !.step = "gate", !.cert = NoCert, !.answer = "none"])
  /\ UNCHANGED <<db, acme, app, surface, ordered, bounds>>

\* After the gate's commit the session reads the settings anew.
AfterGate ==
  IF Due THEN Start(Ticker, [job[Ticker] EXCEPT !.step = "order", !.domain = AutomaticDomain])
         ELSE Start(Ticker, Idle)

\* The attempt is on record before it is made.
\* Variant: the gate closes only when nothing is due.
TickGateLate ==
  /\ job[Ticker].op = "tick" /\ At(Ticker, "gate")
  /\ gate' = ~Due /\ AfterGate
  /\ UNCHANGED <<settings, row, pending, failed, acme, app, surface, ordered, bounds>>
TickGate ==
  /\ job[Ticker].op = "tick" /\ At(Ticker, "gate")
  /\ gate' = TRUE /\ AfterGate
  /\ UNCHANGED <<settings, row, pending, failed, acme, app, surface, ordered, bounds>>

-----------------------------------------------------------------------------
\* The requests.

\* issue_now
IssueBegin(w) ==
  /\ MayBegin(w, "issue") /\ settings.enabled /\ settings.domain # NoDomain
  /\ Start(w, [Idle EXCEPT !.op = "issue", !.step = "order", !.domain = AutomaticDomain])
  /\ UNCHANGED <<db, acme, app, surface, ordered, bounds>>

\* start_manual_dns_challenge: a challenge for the same domain is kept.
StartBegin(w) ==
  /\ MayBegin(w, "start") /\ settings.enabled /\ settings.domain # NoDomain
  /\ settings.manual /\ pending.domain # settings.domain
  /\ Start(w, [Idle EXCEPT !.op = "start", !.step = "order", !.domain = settings.domain])
  /\ UNCHANGED <<db, acme, app, surface, ordered, bounds>>

\* confirm_manual_dns_challenge: a challenge for another domain is dropped.
ConfirmBegin(w) ==
  /\ MayBegin(w, "confirm") /\ pending # NoChallenge
  /\ IF pending.domain = settings.domain
     THEN /\ Start(w, [Idle EXCEPT !.op = "confirm", !.step = "order", !.domain = pending.domain,
                                   !.order = pending.order])
          /\ UNCHANGED pending
     ELSE pending' = NoChallenge /\ UNCHANGED job
  /\ UNCHANGED <<settings, row, gate, failed, acme, app, surface, ordered, bounds>>

\* update_tls_settings
Patch ==
  /\ app = "up" /\ "patch" \in profile.ops /\ patches < profile.patches
  /\ patches' = patches + 1
  /\ settings' \in profile.patched /\ settings' # settings
  /\ UNCHANGED <<row, pending, gate, failed, acme, job, app, surface, ordered, faults>>

-----------------------------------------------------------------------------
\* Orders.

CountOrder(t) == ordered' = ordered + (IF job[t].op = "tick" THEN 1 ELSE 0)

\* The order succeeds: a new certificate goes to the control surface.
Issue(t) ==
  /\ At(t, "order") /\ job[t].op # "start"
  /\ job[t].domain # NoDomain /\ job[t].order \notin spent
  /\ spent' = spent \cup ({job[t].order} \ {NoOrder})
  /\ \E c \in Least(Certs \ UsedCerts) :
       /\ age' = [age EXCEPT ![c] = "fresh"]
       /\ Start(t, [job[t] EXCEPT !.step = "wait", !.cert = c])
       /\ Send(t, c)
  /\ CountOrder(t)
  /\ UNCHANGED <<db, app, live, previous, srv, torn, bounds>>

\* It fails: no domain or not automatic, an order that is spent, or a fault.
OrderFails(t) ==
  /\ At(t, "order")
  /\ \/ (job[t].domain = NoDomain \/ job[t].order \in spent) /\ UNCHANGED <<ordered, faults>>
     \/ job[t].domain # NoDomain /\ Fault("acme") /\ CountOrder(t)
  /\ Start(t, [job[t] EXCEPT !.step = "commit", !.answer = "error"])
  /\ UNCHANGED <<db, acme, app, surface, patches>>

\* begin_manual_dns_challenge's order.
StartOrder(w) ==
  /\ At(w, "order") /\ job[w].op = "start"
  /\ \E o \in Least(Orders \ UsedOrders) :
       /\ Start(w, [job[w] EXCEPT !.step = "commit", !.order = o, !.answer = "accepted"])
       /\ spent' = spent \ {o}
  /\ UNCHANGED <<db, age, app, surface, ordered, bounds>>

\* The TXT record of a manual challenge is not visible yet, or its keys cannot be
\* decrypted.
NotVisible(w) ==
  /\ At(w, "order") /\ job[w].op = "confirm"
  /\ Start(w, Idle)
  /\ UNCHANGED <<db, acme, app, surface, ordered, bounds>>

Answered(t) ==
  /\ At(t, "wait") /\ job[t].answer # "none"
  /\ Start(t, [job[t] EXCEPT !.step = "commit"])
  /\ UNCHANGED <<db, acme, app, surface, ordered, bounds>>

\* _finish_issuance keeps what was installed, and what Postfix could not be
\* asked about.
Records(j) == j.op # "start" /\ j.cert # NoCert /\ j.answer # "rejected"

\* What a job leaves in cert_last_renewal_error: nothing after a success, the
\* tick's own failure. Row 1 of the challenges is written, or deleted whatever
\* it holds by then.
FailedAfter(j) == IF j.op # "start" /\ j.answer = "accepted" THEN FALSE
                  ELSE failed \/ j.op = "tick"
PendingAfter(j) ==
  CASE j.op = "start" /\ j.answer = "accepted" -> [domain |-> j.domain, order |-> j.order]
    [] j.op = "confirm" -> NoChallenge
    [] OTHER -> pending

Commit(t) ==
  /\ At(t, "commit")
  /\ LET j == job[t] IN
     /\ row' = IF Records(j) THEN j.cert ELSE row
     /\ failed' = FailedAfter(j) /\ pending' = PendingAfter(j)
  /\ Start(t, Idle)
  /\ UNCHANGED <<settings, gate, acme, app, surface, ordered, bounds>>

\* A commit that fails leaves the database as it was.
CommitFails(t) ==
  /\ At(t, "commit") /\ Fault("commit")
  /\ Start(t, Idle)
  /\ UNCHANGED <<db, acme, app, surface, ordered, patches>>

-----------------------------------------------------------------------------
\* The control surface: _install_tls_certificate.

Asked == calls[1].cert

\* openssl's checks, the files as they are, and the first rename.
Handle ==
  /\ srv = "idle" /\ calls # <<>>
  /\ \/ /\ age[Asked] = "expired" /\ srv' = "rejected"
        /\ UNCHANGED <<live, previous, faults>>
     \/ /\ age[Asked] # "expired" /\ live = Both(Asked) /\ srv' = "accepted"
        /\ UNCHANGED <<live, previous, faults>>
     \/ /\ age[Asked] # "expired" /\ live # Both(Asked)
        /\ \/ Fault("disk") /\ srv' = "error" /\ UNCHANGED <<live, previous>>
           \/ /\ previous' = live /\ live' = [live EXCEPT !.crt = Asked]
              /\ srv' = "key" /\ UNCHANGED faults
  /\ UNCHANGED <<db, acme, job, app, calls, torn, ordered, patches>>

\* The second rename. If it fails the first one stays.
WriteKey ==
  /\ srv = "key"
  /\ \/ live' = [live EXCEPT !.key = Asked] /\ srv' = "restart" /\ UNCHANGED <<torn, faults>>
     \/ Fault("disk") /\ srv' = "error" /\ torn' = TRUE /\ UNCHANGED live
  /\ UNCHANGED <<db, acme, job, app, previous, calls, ordered, patches>>

\* postfix stop and start; the files read before come back if it fails.
\* Variant: only the certificate comes back.
RestartRestoresHalf ==
  /\ srv = "restart"
  /\ \/ srv' = "accepted" /\ torn' = FALSE /\ UNCHANGED <<live, faults>>
     \/ /\ Fault("start") /\ srv' = "rejected"
        /\ live' = [live EXCEPT !.crt = previous.crt] /\ UNCHANGED torn
  /\ UNCHANGED <<db, acme, job, app, previous, calls, ordered, patches>>
Restart ==
  /\ srv = "restart"
  /\ \/ srv' = "accepted" /\ torn' = FALSE /\ UNCHANGED <<live, faults>>
     \/ Fault("start") /\ srv' = "rejected" /\ live' = previous /\ UNCHANGED torn
  /\ UNCHANGED <<db, acme, job, app, previous, calls, ordered, patches>>

\* The answer, to a caller that may be gone.
Reply ==
  /\ srv \in {"accepted", "rejected", "error"}
  /\ LET t == calls[1].worker IN
     job' = IF t = NoWorker THEN job ELSE [job EXCEPT ![t].answer = srv]
  /\ calls' = Tail(calls) /\ srv' = "idle" /\ previous' = live
  /\ UNCHANGED <<db, acme, app, live, torn, ordered, bounds>>

\* The caller's timeout, or no one on the socket: PostfixControlError. A call
\* that is on the socket is still handled.
\* Variant: the call still knows its caller.
GiveUpReachable(t) ==
  /\ Waiting(t) /\ Fault("giveup")
  /\ job' = [job EXCEPT ![t].answer = "error"]
  /\ UNCHANGED <<db, acme, app, surface, ordered, patches>>
GiveUp(t) ==
  /\ Waiting(t) /\ Fault("giveup")
  /\ job' = [job EXCEPT ![t].answer = "error"]
  /\ calls' = [i \in DOMAIN calls |->
       IF calls[i].worker = t THEN [calls[i] EXCEPT !.worker = NoWorker] ELSE calls[i]]
  /\ UNCHANGED <<db, acme, app, live, previous, srv, torn, ordered, patches>>

\* The postfix container stops and starts, with its volume or with a new one.
Halt ==
  /\ \/ Fault("halt") /\ live' = live /\ torn' = (torn \/ srv = "key")
     \/ Fault("volume") /\ live' = Both(Placeholder) /\ torn' = FALSE
  /\ previous' = live' /\ srv' = "idle" /\ calls' = <<>>
  /\ job' = [t \in Threads |->
       IF Waiting(t) THEN [job[t] EXCEPT !.answer = "error"] ELSE job[t]]
  /\ UNCHANGED <<db, acme, app, ordered, patches>>

-----------------------------------------------------------------------------
Quit ==
  /\ app = "up" /\ Fault("quit")
  /\ app' = "starting" /\ job' = [t \in Threads |-> Idle]
  /\ calls' = [i \in DOMAIN calls |-> [calls[i] EXCEPT !.worker = NoWorker]]
  /\ UNCHANGED <<db, acme, live, previous, srv, torn, ordered, patches>>

\* A day passes. Certificates get older, and a manual challenge ends: its row
\* stays, but every reader takes it for none. A tick is over before the next.
Day ==
  /\ gate /\ At(Ticker, "idle")
  /\ gate' = FALSE /\ ordered' = 0
  /\ pending' \in {pending, NoChallenge}
  /\ \E older \in SUBSET {c \in UsedCerts : age[c] # "expired"} :
       age' = [c \in Certs |-> IF c \in UsedCerts \ older THEN age[c]
                               ELSE IF c \in older /\ age[c] = "fresh" THEN "due"
                               ELSE "expired"]
  /\ UNCHANGED <<settings, row, failed, spent, job, app, surface, bounds>>

Serve == Handle \/ WriteKey \/ Restart \/ Reply
Proceed(t) == Issue(t) \/ OrderFails(t) \/ Answered(t) \/ Commit(t)
Ticks == Startup \/ StartupOver \/ TickBegin \/ SyncAnswered \/ TickGate

Next ==
  /\ \/ Ticks \/ Serve \/ Patch \/ Halt \/ Quit \/ Day
     \/ \E t \in Threads : Proceed(t) \/ CommitFails(t) \/ GiveUp(t)
     \/ \E w \in Workers : \/ IssueBegin(w) \/ StartBegin(w) \/ ConfirmBegin(w)
                            \/ StartOrder(w) \/ NotVisible(w)
  /\ UNCHANGED profile

\* The scheduler polls once a minute and days pass; the control surface goes on
\* with the call it has; a tick or a request goes on once it has begun.
Spec ==
  /\ Init /\ [][Next]_vars
  /\ WF_vars(Ticks /\ UNCHANGED profile)
  /\ WF_vars(Serve /\ UNCHANGED profile)
  /\ \A t \in Threads : WF_vars(Proceed(t) /\ UNCHANGED profile)
  /\ WF_vars(Day /\ UNCHANGED profile)

-----------------------------------------------------------------------------
\* The tick places at most one order between two openings of its gate,
\* whatever fails or restarts after it (cert_renewal.py:56).
OneOrderADay == ordered <= 1

\* Certificate and key on disk belong together but for the moment between the
\* two renames, unless an installation was cut right there.
PairMatches == live.crt # live.key => srv = "key" \/ torn

\* Whatever is lost, cut or overtaken, what is on record comes to be installed
\* if it stays on record and valid and the daily check stays enabled
\* (sync_certificate_to_postfix). Requests that never stop ordering may each be
\* on record too late for the next.
SelfHeals ==
  \/ []<>(row # NoCert => live = Both(row) \/ age[row] = "expired" \/ ~settings.enabled)
  \/ []<><<row' # row>>_row

\* A tick that finds the certificate installed and not due leaves no error of an
\* earlier one (the comment at acme_tls.py:330). It does not hold: an order that
\* was saved while Postfix could not be reached is a failure to the tick, and
\* only another order clears it.
ResolvedErrorGoes ==
  [][TickGate /\ live = Both(row) /\ ~Due => ~failed']_vars
=============================================================================
