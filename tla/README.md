# A verification project for SMTP Credential Broker

SMTP Credential Broker puts one Postfix relay between local devices and
upstream mailboxes. An application (FastAPI, one uvicorn worker with many
threads, SQLite or PostgreSQL) holds the configuration; a second container
runs Postfix behind a small control surface on a Unix socket. The interesting
behaviour lies between the two: a database and a set of files that must agree
without a common transaction, a server with one thread, clients that time out,
containers that restart, requests and ticks that read, act and commit while
others do the same.

This directory holds TLA+ models of that behaviour, translated from the source,
their TLC configurations, and machine-checked proofs. `PROJECT.json` maps every
definition to the lines it models and lists the runs, mutants, findings,
hazards and theorems.

Run a configuration with `tlc -workers 2 -config X.cfg M`, check a proof with
`tlapm M_proofs.tla`. A run ends within three minutes on two cores, a proof
within ten.

## 1. Inventory

| Component | State | Operations | Hard behaviour | What makes it correct |
|---|---|---|---|---|
| Control surface, configuration (`postfix/control_surface.py`) | main.cf, master.cf, lookup maps, the Postfix master | `apply_config`: validate, stage, install, activate, stop, start, roll back; `status` | a command fails or hangs at any stage; the container stops between two stages; a client that has hung up | answers are true, failures leave the old files, grants never precede routes, every call comes back |
| Control client (`core/postfix_control.py`) | none | one connection per call, with a timeout | a timeout here is not a cancellation there | the caller's view and the server's may differ; nobody hangs |
| Pipeline and health (`core/config_generator.py`, `core/health.py`) | `config_generations` rows | render, compare with the last good row, apply, record; health check | rendering is several reads; the row is written after the apply; two generations overlap | the files converge to the database; health "ok" is true |
| Local users (`api/routes/local_users.py`, `core/sasldb_reconcile.py`, `core/rate_limit_abuse.py`) | `local_smtp_users`, sasldb2, its copy on a volume | create, disable, enable, regenerate, delete, auto-disable, startup reconciliation | database and sasldb2 change one after the other; failures, timeouts and restarts in between | revoked stays revoked; enabled users, and only they, authenticate |
| Mail log (`core/mail_log_ingest.py`, `_tail_maillog`) | the log file, the stored offset and inode, `mail_log` | tail, rotate, ingest | rotation races writers and the commit; chunks and half lines | every line once and in order; what can be lost is bounded; the end of the file is reached |
| Rate limits (`core/rate_limit_policy.py`, `core/rate_limit_cleanup.py`, `core/rate_limit_abuse.py`, `core/alerts.py`) | hourly counters, token buckets, the deferral streak | evaluate, edit, re-enable, auto-disable, clean up | read-modify-write under a lock that the other writers do not take; clock boundaries | the ceilings hold; deferrals cost nothing; a streak is one |
| Administrators and login (`api/routes/auth.py`, `admins.py`, `core/sessions.py`, `core/rate_limit.py`, `core/totp.py`, `cli.py`) | accounts, sessions, failed logins | set up, log in and out, change password, TOTP, create, (de)activate, break-glass commands | a login in progress while the account changes; one code used twice; two deactivations; lockout windows and overlapping guesses | somebody stays active; old sessions end; a code is good once; the lockouts are kept |
| TLS certificates (`core/acme_tls.py`, `core/cert_renewal.py`, `api/routes/tls_settings.py`, `_install_tls_certificate`) | certificate of record, pending challenge, the daily gate, two files | tick, issue, manual challenge, install, startup sync | two renames; issued, installed and recorded are three steps; retries against the CA's limits | the pair on disk matches; one order a day; what is on record comes to be installed |
| Alerts (`core/alerts.py`, `core/alert_email.py`, `core/scheduled_tests.py`, `core/update_check.py`) | edge-trigger flags, last e-mailed versions, test results | tick, send, test, check for updates, settings | send and flag are two steps; the tick reads some things once and some again | what counts as notified was mailed, once; what lasts gets known |
| Senders, upstream accounts (`api/routes/senders.py`, `upstream_accounts.py`) | rows, encrypted passwords | CRUD | check, then insert; a redirect judged on a row that changes | one map entry per sender; a password goes only where it was entered for |
| Encryption (`core/encryption.py`, `cli.py rotate-encryption-key`) | the key, encrypted columns | encrypt, decrypt, rotate | the application writes while the key rotates | every secret is readable after a rotation |
| Queue, exports, branding, audit log, web interface, migrations | | | no protocol of their own | not modelled |

Interactions. Threads of the application (request handlers, ticks, lifespan)
call the control surface over its socket, one connection per call; the server
accepts one at a time from a backlog of 8. Its main loop has no handler: an
exception outside a request's `try` ends the process, and with it the
container (the process is PID 1) and Postfix. docker-compose restarts the
container; its entrypoint copies sasldb2 back from the volume and starts the
control surface, not Postfix, which is started by the next `apply_config`.
The application's threads meet in the database. With SQLite a SELECT keeps no
snapshot, and the first write of a transaction takes the only write lock. What
one component leaves for another is only rows: the rate limiter's streak makes
candidates for the auto-disable tick and an alert, a generation's row decides
the health that an alert mails about, the key rotation rewrites what accounts,
TOTP and TLS have stored.

## 2. Modules

    ConfigPipeline_proofs --EXTENDS--> ConfigPipeline --EXTENDS--> ControlSurface
    MailLog_proofs --EXTENDS--> MailLog --implements--> LogDelivery
    AdminAccess_proofs --EXTENDS--> AdminAccess --EXTENDS--> LoginThrottle
    LocalUsers_proofs --> LocalUsers             RateLimit_proofs --> RateLimit
    TlsCertificate_proofs --> TlsCertificate     Upstreams_proofs --> Upstreams
    Alerts_proofs --> Alerts

`MC*.tla` hold the values that a .cfg cannot express. Definitions named
"Variant" in a comment are the mutated forms of the next definition: plausible
bugs that the checked properties must catch. The modules themselves do not
use them. Most modules have a `profile`, chosen at the start and never changed,
that says which operations and faults a behaviour may have: TLC explores small
combinations that matter, the proofs are for any profile.

**ControlSurface** is the server and its clients. `phase` is the program counter
of the handler, `cur` the request with the open or closed socket of its client,
`prev` is `previous_config`; `conf`, `maps` and `running` are the installed
files, the live maps and the files the master was started with. One action
per external command or file operation (`Validate`, `StageMaps`,
`InstallConfig`, `ActivateMap`, `StopPostfix`, `StartPostfix`, `RollBack`, ...),
each with the outcomes the code distinguishes: success, a non-zero return code,
an OSError, and the 30 s of `_run`, which no clause catches but the outermost.
`Send`, `GiveUp` and `Return` are `_call`. `Reply` to a client that has given up
is the end of the server.

**ConfigPipeline** extends it: `gen[c]` is `generate_and_apply` of one thread (or
of one `relay generate-config` process), cut at its reads, calls and commit.
`db` is what the database renders to, `lastGood` and `lastResult` are what
later code asks of the rows. `HealthOk` is `run_health_check`.

**LocalUsers** runs the user routes, the auto-disable tick and the startup
reconciliation as jobs of worker threads: `step` is the program counter,
`locked` says whether the job holds the write lock. `live` is /etc/sasldb2,
`volume` its copy. The control surface is here with its three sasldb requests,
again cut at each command.

**MailLog** has Postfix writing lines (whole or half), threads ingesting, and
`_tail_maillog` cut at stat, read, rotate and answer. `rows` lists the lines
applied, `pos` is the committed position; `atRisk` is history: the lines that
were in a renamed file after the last chance to read them there.

**LogDelivery** is what MailLog promises, without files, offsets, sockets or
restarts: lines are written, some may go missing (`Lose`), the others are
applied in blocks, in order, none passed over, and in the end all of them.
MailLog instantiates it (`Log`) with `gone <- atRisk`, the rest of its variables
by name, and checks `Delivery == Log!Spec` as a property. Only `Commit` is a
`Deliver`; rotation is a `Lose`.

**RateLimit** follows one user: `counter`, `bucket` and `streak` are the rows
evaluate writes, `eval` what an evaluation has read and not committed yet;
`log` is history: each message with its time, limit and outcome.

**AdminAccess** has accounts, sessions and the failed attempts, and `job[w]` for
each thread or command process, cut where the code reads and where it commits:
`LoginRead`..`LoginCommit`/`LoginWrong` is `_login` under `login_lock`,
`Authenticate`, `Reauth`, `SelectSessions`, `ChangeCommit` the way of a change of
password, authenticator or activation through `get_current_admin`,
`_require_current_password`, `revoke_all_sessions_for_admin` and the commit;
`TakeStatus` holds `_admin_status_lock`; commands take neither lock. `epoch`
counts an account's credential changes, a session records the epoch that its
login read and whether it raced with a change; `spent` and `replayed` are the
codes that were used. **LoginThrottle** is `check_rate_limit` as an operator on
the sequence of failures since the last success; a filter of its query is a set
of positions in that sequence.

**TlsCertificate** has the ticker (renewal tick and startup hook) and request
threads. A job goes `sync` → `gate` → `order` → `wait` → `commit`: `TickGate` is
the commit of `cert_renewal_last_checked_at` before the attempt, `Issue` and
`OrderFails` the ACME order, `Answered` and `GiveUp` the control call, `Commit` the
row of `_finish_issuance`. `Handle`, `WriteKey`, `Restart`, `Reply` are the two
renames of `_install_tls_certificate`, the restart and the files put back if it
fails. `Halt` (with or without the volume), `Quit`, `Day` are what happens to it.
`row` is the certificate of record, `live` the two files.

**Upstreams** cuts each edit where it reads and where it commits (only changed
columns are written, `Merged`). `secret[c]` is an encrypted cell: which entry and
under which key. `RotateSelect`..`RotateCommit`, `RotateAbort`, `SwitchKey` are
`relay rotate-encryption-key` and the operator's restart with the new key.
`entered` records for each secret where it was entered for; `overlapped` that a
secret was written during a rotation, `raced` the senders committed after others
came or went since their check.

**Alerts** is the alert tick as SQLAlchemy runs it: `tick.seen` are the alerts,
computed once, `tick.row`, `tick.toggles` and `tick.known` what the session has
read, `tick.fresh` whether it still holds; a commit in the middle (`LogMail`, of the
previous kind's row) makes it read anew. `BatchStart`..`BatchCommit` are the
connection tests, `UpdateCheck`, `SettingsChange`, `TestAlert` what else changes
its input. `told`, `lost`, `mixed` are history.

Abstractions, and why they do no harm:
- The text of a file is a model value; a map is the set of senders in it. The
  `tls_policy` map, keyed by next hop, is left out: it takes part in no ordering.
- main.cf is rendered from the environment and is one constant (`Settings`) in
  ConfigPipeline. Requests are whole renderings in ControlSurface (routes
  include logins, `RequestAssumption`); torn ones are ConfigPipeline's.
- A username names one row. A PATCH that does not touch `enabled` changes no
  credential and is not in LocalUsers; it is `SetLimit` in RateLimit.
- A log line is its number; an offset counts lines, a size half lines.
- Tokens are exact fractions where the code has floats; a tick of the clock is
  some minutes, and an evaluation lasts less than one.
- In AdminAccess whether a password matches is a choice, time counts TOTP steps
  (lockouts included), and a code is an account, a secret and a step.
- In TlsCertificate a day is one step and a certificate is fresh, due or expired;
  its number is used anew when nothing refers to it. The key of a certificate of
  record can be decrypted.
- In Upstreams an address is what Postfix folds it to and a spelling.
- In Alerts a job may run at any time, not only when its interval is over.
- PostgreSQL, which the application also runs on, is not modelled: its row locks
  would replace the one write lock of LocalUsers.

External, modelled from its use: postlogd, which writes the log, and reopens it
after `postfix logrotate`. The outcome of Postfix's, Cyrus's and OpenSSL's
commands, of the ACME server and of a mail server is chosen, never computed.

## 3. Runs

| Run | Question | Bounds |
|---|---|---|
| control_surface | Are answers true, failures undone, grants ordered, calls answered, whatever fails? | 2 clients, 1 sender, 2 routing maps, 3 kinds of request, any 2 faults of 11 kinds |
| config_pipeline | Do generations bring the relay to the database's configuration, and is health "ok" true? | 2 threads, 2 texts to render and the image's own, 1 sender with 3 states; 2 benign faults (a start that fails or a replaced container, not both) and 2 edits, one generation at a time; any 1 fault and 1 edit with overlapping generations |
| local_users | Do database, sasldb2 and the volume agree; does revoked stay revoked; do jobs end? | 2 users, 2 workers; four profiles (below) |
| local_users_race (violation) | Can only enabled users authenticate, with two requests at a time? | create, regenerate and delete, no fault |
| mail_log | Does the protocol implement LogDelivery; is what can be lost bounded? | 4 lines, chunks of 1, rotation at 2, 3 inodes, 2 threads, any 2 faults of 6 kinds |
| mail_log_rotation (violation) | Is everything handed out before the file is renamed? | the same, no fault |
| rate_limit | Do both ceilings hold, does a deferral cost nothing, is a streak unbroken? | 5 messages in 8 ticks, an hour of 3 ticks, 2 connections, 2 profiles of limits, edits and failures |
| rate_limit_removal (violation) | Have no messages gone through since the streak began? | one limit that is removed, no failure |
| admin_access | Does somebody stay active, do old sessions end, is a code good once, are guesses spaced? | 2 accounts, 2 workers, 2 sources, thresholds of 1 and 2 failures; four profiles (below) |
| tls_certificate | Is there one order a day, does the pair match, does what is on record get installed? | 4 certificates, 2 domains, 2 manual orders, the ticker and 1 request thread; any 1 of 8 faults, or a manual challenge with 1 change of settings |
| alerts | Was what is on record mailed, and once; does what lasts get known? | 2 conditions, 1 kind of update with 2 versions, 1 account; five profiles of changes with 1 or 2 faults |
| upstreams | Where do passwords go, can every secret be read, is a sender one map entry? | 2 accounts, 1 other secret in a column before theirs, 2 keys, 2 senders with 2 spellings of 2 addresses, 2 workers, 3 secrets entered, 2 rotations |

The profiles of local_users: one job at a time with two clean failures; the
requests that hold the write lock, overlapping, with one; one job at a time with
any two faults; everything overlapping with any one. Those of admin_access:
`Status` (two accounts that create, deactivate and reactivate each other),
`Password` (one account whose password is changed from a session and from the
command line), `Totp` (one authenticator over two steps of its clock), `Guess`
(guesses from two sources over five steps). Each property says in its own premise
which profiles it is about, so that the limits of what the code guarantees are
part of the statement.

Why the bounds are enough. Two clients are needed for a request to wait behind
another and to see what it left behind; a third would only wait longer. Two
faults are needed for a failure during the handling of a failure (the rollback
that fails, the container that stops after a hung command). Two routing maps
are needed for a request to stop between them. Four lines in chunks of one with
rotation at two give two rotations, and a file that outgrows the offset of its
predecessor; three inodes are needed for a fourth file to reuse one. Five
messages in eight ticks cover three clock hours, a full and an empty bucket, and
the cleanup of a window that was used. Two accounts and two workers are what two
administrators who deactivate each other need; three sessions in one epoch are
the one that asks for a change, one the change sees and one that it misses.
Four certificates are the one on record, the one installed, the one that is
being ordered and one that was overtaken. Two versions are what an e-mail and a
record can differ by. Two columns are needed for a rotation to have passed one;
two rotations bring back the first key.

Deadlock is checked in control_surface, config_pipeline, mail_log, admin_access
and alerts, where somebody can always go on. It is off in LocalUsers, RateLimit,
TlsCertificate and Upstreams, where users, passwords, faults, time or certificate
numbers run out.

What the mutants show: for every property of every passing run there is a bug in
one definition of the code that violates it (`PROJECT.json`, "mutants").

Eight more configurations are kept beside the runs. Each checks one statement of
the repository that the code does not keep, and TLC finds it violated (section 6):
`ControlSurface_Uptime.cfg` (`StaysUp`), `ControlSurface_Rollback.cfg`
(`ActivationFailureRestores`), `ConfigPipeline_Overlap.cfg` and
`ConfigPipeline_Image.cfg` (`HealthTruthful`), `LocalUsers_Disabled.cfg`
(`OnlyEnabledAuthenticate`), `TlsCertificate_Error.cfg` (`ResolvedErrorGoes`),
`Alerts_Version.cfg` (`EveryVersionMailed`), `RateLimit_Disabled.cfg`
(`DisabledAfterThrottling`).

## 4. Fairness

- ControlSurface: weak fairness of the server's next step. The handler is a loop
  without waiting other than for commands, which `_run` bounds by 30 s; the
  restart policy boots a stopped container. Nothing is assumed of clients.
- ConfigPipeline: the same, and of a generation that has begun; and weak
  fairness of beginning one. The latter stands for the entrypoint's
  `relay generate-config`, its retries, and administrators whom the health check
  tells to regenerate: `Converges` and `FilesConverge` say that regenerating
  suffices, not that it happens by itself. Nothing is assumed of edits, which
  are bounded, hence end.
- LocalUsers: the server, and the steps of a job that has begun. Nothing is
  assumed of requests or ticks.
- MailLog: the server, the steps of an ingestion, and that one begins again and
  again (the tick, every minute). Nothing is assumed of Postfix writing lines, or
  finishing half a line. LogDelivery asks that blocks are applied as long as lines
  are due, and no more.
- TlsCertificate: the ticker's steps (the scheduler polls every minute), a day that
  ends, the server, and the steps of a request that has begun. Nothing is
  assumed of requests. `SelfHeals` is stated as "again and again", because
  requests that never stop ordering may each come too late for the next.
- Alerts: weak fairness of the tick's step. `run_periodic` catches what a tick
  raises and runs it again a minute later. Nothing is assumed of the rest.
- RateLimit, AdminAccess, Upstreams: none; their properties are about safety.

## 5. Proofs

The theorems hold for any values of the constants that satisfy the modules'
ASSUMEs, and for any profile. Each is proved from an inductive invariant, checked
by TLC first; the properties themselves are not inductive.

`ConfigPipeline_proofs`, first the control surface by itself, then the pipeline over it
- `SurfaceTypeCorrect`: `CSSpec => []CSTypeOK`.
- `SuccessesAreLive`, `FailuresRestore`: `CSSpec => []SuccessIsLive` and
  `CSSpec => []FailureRestores`. A success answer is a fact about the live files, and a
  failed one about the restored files, at the time it is given. The answer to `start` is
  true because of what the phases before it did. The strengthening is `IInv`: the
  type invariant, the two properties, and `JobInv`, which says what a handler has
  done in each phase: nothing up to `install` (`Untouched`), both files from `activate` on
  (`Installed`), the maps below `next` (`Activated`), all of them in `stop` and
  `start` (`AllActivated`), the old files in `rollback_start` (`PutBackConf`).
- `GrantsFollowRoutes`: `CSSpec => GrantOrder`. With `IInv` and `RequestInv`
  (requests on the socket are those clients send), the step that activates
  sender_login is the last one of the loop, because of the sort key
  (`MapOrderFacts`); all routing maps hold the request's routes then, which
  include its logins (`RequestAssumption`).
- `TypeCorrect`: `Spec => []TypeOK`, from `PInv`: `IInv` again (a generation's calls are
  among those that `CSNext` allows) and `GenTyped`, that what a generation sends is a
  whole rendering.
- `HealthIsTruthful`: `Spec => []HealthTruthfulWhenBenign`. Of the three parts of `BenignInv`,
  `Serial` says that one generation at a time has the socket and the handler for
  itself; `ReloadJustified`, that a request without a restart is of the last good
  row's files; and `Phased`, in each phase of the handler and of the answer, what still
  connects the row with the files: what runs was started with the row's files
  (`RunningRecorded`), a container that is never replaced has them on disk (`Keeps`), and
  a success, until its row is committed, is what is live (`Delivered`).
  Nothing is said of the maps after a failure: a refused or rolled back
  generation may leave its maps there, but its row is the newest then, and
  health reports it.

`MailLog_proofs`
- `AppliedInOrder`, `NothingPassedOver`: of whatever takes LogDelivery's steps, by induction
  over its three actions (`LDInv`). A block begins at or after the last applied line, hence
  above all applied lines (`LastIsHighest`).
- `KeepsPromise`: `Spec => Log!Init /\ [][Log!Next]_(Log!delivery)`: MailLog's steps are
  steps of LogDelivery, so the two theorems above are true of it, which `RowsAreLines`
  states: `Spec => [](Log!InOrder /\ Log!NonePassedOver)`. This is the
  safety half of the property `Delivery`. The invariant `Inv` has the types,
  LogDelivery's own invariant, and five parts about the protocol: `FileOK`; `PosOK`
  (what lies before the committed position is applied or at risk; its inode is
  kept by a copy, so that no new file can have it); `QueueOK` (a caller who is
  still there is the last one on the socket and asks from the committed
  position, because of `_ingest_lock`); `JobsOK` (an answer waits for its commit with
  nothing on the socket, and is a block that may be delivered: `Commitable`);
  `ServerOK` (how the handler's offsets lie in the file). The step that needs most is the
  rename: since a chunk is smaller than the size that is rotated
  (`BoundAssumption`), a file that is rotated has been read from the call's own position,
  and what the answer does not reach is at risk.
- `NothingSkipped`: `Spec => []NoneSkipped`, and `TypeCorrect`.

`AdminAccess_proofs`
- `TypeCorrect`: also that each lock has the one holder that is inside it.
- `LastActiveStays`: `Spec => []OneActiveRemains`. `AnotherRemains`: a deactivation that is past
  its count still has another active account; under `_admin_status_lock` nobody else can be
  past it, and the commands deactivate nobody.
- `OldSessionsAreEnded`: `Spec => []OldSessionsEnd`, from `Slots` (sessions are issued
  one after the other), `Known` and `Seen`: a change that is about to commit has read every
  unrevoked session of its account but its own and those that raced with it.
- `CodesAreGoodOnce`: `Spec => []CodeGoodOnce`, from `SecretsOld` (a secret is named by a past
  change) and `Covered`: a code of the present secret that was spent is not after the
  last step on record, nor after that of the row which the login in progress has
  read - by `login_lock`, there is one such row.
- `GuessesAreSpaced`: `Ascending` gives `Spec => []GuessesSpaced`. A login that is under
  way was not locked out when it began (`Pending`); `login_lock` keeps its
  counter as it was; and a lockout that is over is over later, too, since
  a window that moves on holds fewer failures and fewer failures earn no longer
  lockout (`LockedLess`). That is where the thresholds must ascend.
- `SourcesLockThemselves`: with `EscalatesInTime` too, `Spec => []OneSourceLocksOnlyItself`. The
  failures of one source in a window are as far apart as `GuessesSpaced` says
  (`Distant`), so that n of them last D[n] at least (`Lasted`); `EscalatesInTime` asks for a D that
  exceeds the window before n is as many as lock out every source.
  Both hypotheses are about the deployment's numbers, and `DefaultsEscalate` proves them
  of those in config.py:23-28 (5, 10 and 15 failures for 1, 5 and 15
  minutes, an hour's window, factor 4). They are not true of any setting: a
  relay configured with lockouts that are short for its window can be locked
  by one source.

`TlsCertificate_proofs`
- `TypeCorrect`: with `CallsOK`, a thread waits exactly while one call of its own is on
  the socket.
- `OneOrderEachDay`: `Spec => []OneOrderADay`, from `Roles` (ticks are the ticker's) and
  `Paced`: a tick before its order is the first since the gate was open, and the gate
  is shut, and committed, before the order.
- `PairsMatch`: `Spec => []PairMatches`, from `Installing`: what has been written at each point,
  and that the pair that would be put back matches.

`Upstreams_proofs`
- `TypeCorrect`: also that a sender's account exists.
- `OneEntryForEach`: `Spec => []OneEntryEach`, from `Checked`.
- `AllStayReadable`: `Spec => []AllReadable`, from `Kept`: which key the cells are under at each
  step of a rotation, that the columns it has passed are empty, and that the
  rows it has selected are what the cells still hold.
- `PasswordsStayPut`: `Spec => []PasswordStaysPut`, from `Kept`, `Directed` (who enters no password
  redirects nothing) and `Placed`.

`LocalUsers_proofs`
- `TypeCorrect`: also that one thread at most holds the write lock and none has two
  calls waiting.
- `RevokedStayRevoked`: `Spec => []RevokedForGood`, from `StayGone`: whoever is revoked, or has been
  taken by a job that is still to commit, is in neither store, and no call on the
  socket would set a password for that user. It needs `InTurn` (with one job at
  a time, the call it waits for is the last on the socket, so a call that was given up on
  cannot be handled after a later answer), `CallsOK` (a call whose caller is
  still there is the one its job waits for) and `ServerOK` (what an answer
  stands for).
- `ReconciliationCleans`: `Spec => []ReconcileCleans`, from `Swept`: a reconciliation that has its list
  knows at each step who of those in sasldb2 is still to be removed.
- `StoreAgrees`: `Spec => []AgreesWhenOrderly`, from `Agrees`: sasldb2 is ahead of the
  database only by what the jobs under way have replaced and not committed (`Stored`), and
  the copy by what the server has written and not copied; nobody hangs up, and a
  call stores the password of its job (`Attended`); a job finds the rows as it
  needs them, and where requests overlap whoever calls holds the write lock (`Fit`),
  so that there is one such job. One call of the server is two steps, and the container may
  stop between requests only, which is what the premise says.

`RateLimit_proofs`
- `TypeCorrect`: also that one evaluation at most is between its reads and its commit.
- `CeilingHolds`: `Spec => []HourlyCeiling`, from `Counted` (the counter of a window that still
  runs is the number of its permitted messages) and `EvalOK` (the evaluation under
  way has read just that counter, and its window still runs, since an evaluation
  sees the clock move by less than a tick; so the cleanup cannot have deleted it).
- `BurstHolds`: `Spec => []BurstBound`, from `Spent`: since any message from which on the limit is the
  same, what was permitted and what is left in the bucket are together no more
  than the burst and what was refilled.
- `StreaksAreUnbroken`: `Spec => []StreakUnbroken`, from `StreakInv`: what the row says, and what an
  evaluation has read, is unbroken, and the row differs from what was read only
  by having been cleared (by a re-enable; a disable leaves it alone).
- `StreaksLetNothingThrough`: `Spec => []NoneGoneThroughWhenLimited`, from `Quiet` and the part of
  `EvalOK` that says that a streak changes under an evaluation only by being cleared.

`Alerts_proofs`
- `TypeCorrect`: also that what a tick records about a condition is a flag.
- `NoneNotifiedUnmailed`: `Spec => []NotifiedWasMailed`, from `AllBacked`: what is on record, what
  the session is about to commit and the record of the e-mail under way was
  mailed each. `Uncommitted` says how far the session's books may differ from the
  committed ones, `Untouched` that the kinds ahead are as they were.
- `NoneMailedTwice`: `Spec => []MailedOnce`, from `Counted`: the newest state whose e-mail is accounted
  for (`Reach`) is on record or about to be, and an e-mail goes out only about
  one beyond it (`Mailing`), because versions only grow (`VersionsGrow`).

The assumptions: the order of the routing maps is a sequence of names other than
sender_login; a running configuration can be told from "not running"; requests
route whom they let log in; the backlog is positive; a chunk of the mail log is
smaller than the size at which it is rotated; rate-limit counters are kept for an
hour at least; names such as `NoAdmin` stand
for nothing else; bounds are numbers. Nothing is assumed of the bounds' size.

The two theorems about the limiter name two more, as hypotheses.

Every invariant that a run checks is a theorem. Only model-checked are the
liveness properties, which need fairness and ENABLED, and the prover handles
neither: `AnswerEventually`, `Converges`, `FilesConverge`, `JobsEnd`, `SelfHeals`, `Settles`,
and the fairness of `Delivery`. Induction over data is done once, in the lemma
`Greatest` (a finite set of numbers has a greatest), by a set that is minimal in a
well-founded ordering of subsets, since theorems with an operator parameter cannot be used;
elsewhere the invariants carry it.

## 6. Findings

Each one is a configuration that checks what a comment or document of the
repository says. The first three are runs ("violation"), with the quoted lines in
`PROJECT.json`; the others are the further configurations of section 3.

1. Lines that Postfix writes between the read and the rename of a rotation are
   never handed out (mail_log_rotation). The lines of the answer itself are lost
   too when its caller gives up, stops or fails to commit, since the file
   is gone by then; mail_log shows that nothing else is lost.
2. A delete and a regenerate at the same time leave a working credential without
   a user, until the application restarts (local_users_race).
3. Removing a user's limit leaves the deferral streak (rate_limit_removal): for
   ten minutes after the last deferral the alert claims that nothing goes
   through, and the auto-disable tick still disables the user.
4. A caller that times out ends the server: the answer is sent outside the
   handler's `try` (`StaysUp`). The container restarts, and Postfix
   stays down until the next `apply_config`.
5. A command that hangs while maps are activated is not rolled back
   (`ActivationFailureRestores`): TimeoutExpired is not among the exceptions caught.
6. Two overlapping generations can leave Postfix running another configuration
   than the files', with health "ok" (`HealthTruthful`): the decision to restart
   is taken from a row that the other generation replaces.
7. Regenerating the password of a disabled user gives it a working credential
   (`OnlyEnabledAuthenticate` with one job at a time).
8. The error of a renewal that was saved while Postfix could not be reached stays
   after the next day's sync has installed the certificate (`ResolvedErrorGoes`):
   only another order clears it, though acme_tls.py:330 says that a stale error
   does not outlive its cause.
9. When the alert tick sends the e-mail of one kind of alert, its commit
   makes the session read the versions again: an update check that commits in
   between gets its version recorded though the e-mail was about the one
   before (`EveryVersionMailed`, alert_email.py:183-190).

10. In a container that was replaced, a generation whose `postfix start` fails is
    rolled back to the image's master.cf, and Postfix starts with it
    (control_surface.py:376-385). The next generation finds the last good row's
    checksum and a Postfix that runs, installs the files without a restart and
    records "pass": health says ok, and Postfix goes on with the image's master.cf
    (`HealthTruthful` with `ConfigPipeline_Image.cfg`; architecture.md:204).
11. A user whom an administrator disables keeps the deferral streak. Once the
    threshold has passed, the alert says of a user with a single deferral
    "Automatically disabled after being throttled continuously since"
    (alerts.py:119) (`DisabledAfterThrottling`).

Races that the properties leave out by name, because the code does not prevent
them and, for most, says so nowhere:
- A login that overlaps a change of its account's password, authenticator or
  activation keeps the session it opens (`raced` in `OldSessionsEnd`); `is_active`
  is asked again at each request, so that a deactivated account gets nowhere
  with it until it is reactivated. A re-authentication likewise verifies the hash
  read when the request was authenticated.
- A login that read the account before an enrolment writes the old last step back, and the
  enrolment's code can be used once more (`LoginCommit`; the comment at
  admins.py:200 takes it for spent).
- rate_limit.py:106-109 says that a changed password clears the failures;
  `change_own_password` records no success, only the next login does.
- Two first requests may both set up an account (`SetupCheck`, `SetupCommit`).
- A secret that is stored while the key is rotated is lost, or a rotation writes
  an older one back (`overlapped`); security-model.md:44-48 and cli.py:155-158
  promise a rotation that is all or nothing.
- Two senders that differ in case can be created at the same time (`raced` in
  `OneEntryEach`).
- Starting a manual challenge twice at a time burns an order; a confirmation
  that fails clears whatever challenge is stored by then.

What holds, and is not obvious: answers are true under every combination of
faults; the files and maps converge to the database after any of them, also
after concurrent and torn renderings; a revoked user stays revoked through
every failure and restart as long as jobs do not overlap; the write lock
orders overlapping creates, disables and enables; no line of the mail log is
applied twice or out of order; the rate limits hold while administrators edit
them and the cleanup runs; administrators cannot deactivate each other to the last
one; overlapping guesses earn no attempt; a lost volume, a half installed pair
or an answer that never came is repaired by the daily check without another
order; an alert is not mailed twice unless its first e-mail was not put on record.

## 7. Not modelled

- Of the control surface: version and queue operations (one command each).
- Of the pipeline: warnings, dry runs, the audit row, `tls_policy`.
- Of the mail log: the parser and which row a line changes, retention (a daily
  DELETE by age), the cap of 50 chunks per tick (the next tick goes on).
- Of rate limits: the listener, the wire format, the usage figures, several users
  at once (no statement of `evaluate` reads another user's rows).
- Of local users: grants (edits in ConfigPipeline), names, the comparison of
  timestamps in `_deleted_since_last_apply`.
- Of administrators: cookies and CSRF tokens (a function of one response), audit
  rows that nothing reads back, password rules.
- Of TLS: the ACME account, the DNS providers (`core/cloudflare_dns.py`,
  `core/dns_utils.py`: external services), `verify_dns_access`.
- Of alerts: the acknowledgement of an update and the texts.
- Queue, exports, branding, audit log: one statement or one command each. Migrations
  are declarative. The web interface is a client whose requests the modules
  allow in any order. Integration tests and deployment files are the source of
  assumptions only.

## 8. Plan

1. ControlSurface, ConfigPipeline, LocalUsers, MailLog, RateLimit - done.
2. AdminAccess, TlsCertificate, Alerts, Upstreams with the key rotation - done.
3. LogDelivery and the refinement - done, its safety half proved.
4. Proofs of every invariant that a run checks - done. Next are theorems that no
   run's invariant states: that a benign generation which ends in "pass" has
   synchronised the relay with what it rendered (the step that `Converges` needs
   besides fairness), and that LocalUsers' write lock implements one atomic
   change of row and credential at a time (a refinement, of `LockedOnly` profiles).
5. Left: the window in which a deleted name counts as applied (it needs two
   clocks); a reconciliation over two starts of the application, where a
   removal whose sync failed is not tried again; an abstract specification of
   the pipeline ("the relay's configuration is some state the database has had,
   replaced as a whole"), which overlapping and torn generations keep only in parts.
