------------------------------ MODULE AdminAccess ------------------------------
(***************************************************************************)
(* Administrator accounts, their sessions and their authenticator codes:   *)
(* api/routes/auth.py, api/routes/admins.py, core/sessions.py,             *)
(* core/totp.py, api/deps.py and the account commands of cli.py.           *)
(*                                                                         *)
(* A request runs in a thread of the application, a command in a process   *)
(* of its own. Each is cut where it reads the database and where it        *)
(* commits: a SELECT reads what is committed and keeps nothing, and what a *)
(* job writes becomes visible at once, at its commit. Two locks of the     *)
(* application order some of the requests: login_lock, from a login's read *)
(* to its commit, and _admin_status_lock, round a change of is_active. The *)
(* commands take neither.                                                  *)
(*                                                                         *)
(* What is abstracted: whether a password matches the row a job has read   *)
(* is a choice; time is counted in TOTP steps, the lockouts' too, and a    *)
(* code is <<account, secret, step>>; a secret is named by the credential  *)
(* change that stored it. LoginThrottle says what check_rate_limit answers.*)
(***************************************************************************)
EXTENDS Naturals, FiniteSets, Sequences, LoginThrottle

CONSTANTS
  Admins,        \* e-mail addresses
  Workers,       \* threads and processes that run jobs
  NoAdmin, NoWorker,
  SessionTTL,    \* session_ttl_seconds, in TOTP steps
  MaxTime, MaxSessions, MaxChanges, MaxFailures,
  Profiles       \* what a behaviour may do, and its bounds: [ops, emails, sources, time
                 \* (the clock stops there), sessions (how many are issued),
                 \* changes (of one account's credentials), failures (that are
                 \* recorded between two successes of an account)]

CliOps == {"reset_admin_password", "disable_totp"}
OwnOps == {"change_own_password", "confirm_totp", "remove_totp"}
StatusOps == {"deactivate", "reactivate"}
RequestOps == OwnOps \cup StatusOps \cup {"create_admin", "logout"}
JobOps == RequestOps \cup CliOps \cup {"login", "setup"}

ASSUME NoneAssumption == NoAdmin \notin Admins /\ NoWorker \notin Workers \cup Sources
ASSUME BoundAssumption ==
  /\ SessionTTL \in Nat \ {0} /\ MaxTime \in Nat \ {0}
  /\ MaxSessions \in Nat /\ MaxChanges \in Nat /\ MaxFailures \in Nat
  /\ Profiles \subseteq [ops : SUBSET JobOps, emails : SUBSET Admins, sources : SUBSET Sources,
                          time : 1..MaxTime,
                          sessions : 0..MaxSessions, changes : 0..MaxChanges,
                          failures : 0..MaxFailures]

VARIABLES
  accounts,    \* admin_users as committed
  sessions,    \* admin_sessions as committed
  failures,    \* audit_log: the failed attempts since an account's last success;
               \* those of unknown e-mails under NoAdmin
  job,         \* what each worker is doing
  loginLock,   \* who holds core/rate_limit.py's login_lock
  statusLock,  \* who holds _admin_status_lock
  now,         \* the current TOTP step
  epoch,       \* history: credential changes of each account so far
  spent,       \* history: codes that were accepted and must not log in again
  replayed,    \* history: codes that logged in although they were spent
  profile      \* what may happen in this behaviour; never changes

db == <<accounts, sessions>>
locks == <<loginLock, statusLock>>
history == <<epoch, spent, replayed>>
vars == <<db, failures, job, locks, now, history, profile>>

SessionIds == 1..MaxSessions
NoSession == 0
NoSecret == 0
NoStep == 0
Secrets == 0..MaxChanges
TotpSteps == 0..(MaxTime + 1)

Absent == [exists |-> FALSE, active |-> FALSE, secret |-> NoSecret, last |-> NoStep]
NewAccount == [exists |-> TRUE, active |-> TRUE, secret |-> NoSecret, last |-> NoStep]
Account == [exists : BOOLEAN, active : BOOLEAN, secret : Secrets, last : TotpSteps]

\* `epoch` and `raced` are history: the owner's epoch that the login read, and
\* whether a credential change had read the sessions, but not this one, or had
\* committed since.
Session == [owner : Admins, revoked : BOOLEAN, expires : Nat,
            epoch : 0..MaxChanges, raced : BOOLEAN]
Unissued == [owner |-> NoAdmin, revoked |-> TRUE, expires |-> 0, epoch |-> 0, raced |-> FALSE]

Idle == [op |-> "none", step |-> "idle", admin |-> NoAdmin, target |-> NoAdmin,
         source |-> NoWorker,
         token |-> NoSession, row |-> Absent, code |-> NoStep, todo |-> {},
         epoch |-> 0]
Job == [op : JobOps \cup {"none"}, step : {"idle", "reauth", "status", "select", "commit"},
        admin : Admins \cup {NoAdmin}, target : Admins \cup {NoAdmin},
        source : Sources \cup {NoWorker}, token : SessionIds \cup {NoSession}, row : Account, code : TotpSteps,
        todo : SUBSET SessionIds, epoch : 0..MaxChanges]

TypeOK ==
  /\ accounts \in [Admins -> Account]
  /\ sessions \in [SessionIds -> Session \cup {Unissued}]
  /\ failures \in [Admins \cup {NoAdmin} -> Failures]
  /\ \A k \in Admins \cup {NoAdmin} : Len(failures[k]) <= profile.failures
  /\ job \in [Workers -> Job]
  /\ loginLock \in Workers \cup {NoWorker}
  /\ statusLock \in Workers \cup {NoWorker}
  /\ \A w \in Workers :
       /\ loginLock = w <=> job[w].op = "login"
       /\ statusLock = w <=> job[w].op \in StatusOps /\ job[w].step # "status"
  /\ now \in 1..MaxTime
  /\ epoch \in [Admins -> 0..MaxChanges]
  /\ spent \subseteq Admins \X Secrets \X TotpSteps
  /\ replayed \subseteq Admins \X Secrets \X TotpSteps
  /\ profile \in Profiles

Init ==
  /\ accounts = [a \in Admins |-> Absent]
  /\ sessions = [s \in SessionIds |-> Unissued]
  /\ failures = [k \in Admins \cup {NoAdmin} |-> <<>>]
  /\ job = [w \in Workers |-> Idle]
  /\ loginLock = NoWorker /\ statusLock = NoWorker
  /\ now = 1
  /\ epoch = [a \in Admins |-> 0]
  /\ spent = {} /\ replayed = {}
  /\ profile \in Profiles

-----------------------------------------------------------------------------
Active == {a \in Admins : accounts[a].active}
At(w, op, step) == job[w].op = op /\ job[w].step = step
Free(w, op) == job[w] = Idle /\ op \in profile.ops
Start(w, j) == job' = [job EXCEPT ![w] = j]
\* Variant: a login that ends in an exception keeps the lock.
FinishHolding(w) ==
  /\ Start(w, Idle)
  /\ loginLock' = loginLock
  /\ statusLock' = IF statusLock = w THEN NoWorker ELSE statusLock
Finish(w) ==
  /\ Start(w, Idle)
  /\ loginLock' = IF loginLock = w THEN NoWorker ELSE loginLock
  /\ statusLock' = IF statusLock = w THEN NoWorker ELSE statusLock

Issued == {s \in SessionIds : sessions[s] # Unissued}
Unrevoked(a) == {s \in SessionIds : sessions[s].owner = a /\ ~sessions[s].revoked}

\* get_session_by_token, and the is_active check of get_current_admin_optional.
Valid(s) == ~sessions[s].revoked /\ now < sessions[s].expires
Authenticated(s) == Valid(s) /\ accounts[sessions[s].owner].active

\* The part of a change that is between its read of the sessions and its commit.
Changing(a) == \E w \in Workers : /\ job[w].target = a /\ job[w].step = "commit"
                                 /\ job[w].op \in OwnOps \cup CliOps \cup {"deactivate"}
Raced(j) == Changing(j.admin) \/ epoch[j.admin] # j.epoch

\* create_session: the row a request inserts for account a.
Issue(a, seen, raced) ==
  /\ Cardinality(Issued) < profile.sessions
  /\ sessions' = [sessions EXCEPT ![Cardinality(Issued) + 1] =
        [owner |-> a, revoked |-> FALSE, expires |-> now + SessionTTL,
         epoch |-> seen, raced |-> raced]]

\* verify_totp: the steps a code may be for.
FreshSteps(last) == {t \in (now - 1)..(now + 1) : t > last}

-----------------------------------------------------------------------------
\* The first account and the login.

SetupCheck(w) ==
  /\ Free(w, "setup")
  /\ \A a \in Admins : ~accounts[a].exists
  /\ \E a \in profile.emails : Start(w, [Idle EXCEPT !.op = "setup", !.step = "commit", !.admin = a])
  /\ UNCHANGED <<db, failures, locks, now, history>>

\* The e-mail is unique: a second setup of the same one fails at its flush.
SetupCommit(w) ==
  /\ At(w, "setup", "commit")
  /\ LET a == job[w].admin IN
     IF accounts[a].exists THEN UNCHANGED db
     ELSE /\ accounts' = [accounts EXCEPT ![a] = NewAccount]
          /\ Issue(a, 0, FALSE)
  /\ Finish(w)
  /\ UNCHANGED <<failures, now, history>>

\* What the limiter counts for a row a job has read: an account's failures, or
\* those of unknown e-mails.
Counter(a, row) == IF row.exists THEN a ELSE NoAdmin
LockedOut(a, row, source) == Locked(row.exists, failures[Counter(a, row)], source, now)

\* record_login_attempt of a failure, committed.
RecordFailure(k, source) ==
  /\ Len(failures[k]) < profile.failures
  /\ failures' = [failures EXCEPT ![k] = Append(@, [at |-> now, from |-> source])]

\* _login under login_lock, up to the verdict of check_rate_limit on the account
\* it has read.
\* Variant: no lock.
LoginReadUnlocked(w, a) ==
  /\ Free(w, "login")
  /\ \E source \in profile.sources :
       /\ ~LockedOut(a, accounts[a], source)
       /\ Start(w, [Idle EXCEPT !.op = "login", !.step = "commit", !.admin = a,
                       !.source = source, !.row = accounts[a], !.epoch = epoch[a]])
  /\ UNCHANGED <<db, failures, locks, now, history>>
LoginRead(w, a) ==
  /\ Free(w, "login")
  /\ loginLock = NoWorker /\ loginLock' = w
  /\ \E source \in profile.sources :
       /\ ~LockedOut(a, accounts[a], source)
       /\ Start(w, [Idle EXCEPT !.op = "login", !.step = "commit", !.admin = a,
                       !.source = source, !.row = accounts[a], !.epoch = epoch[a]])
  /\ UNCHANGED <<db, failures, statusLock, now, history>>

\* The answer 429: nothing is verified and nothing recorded.
LoginLockedOut(w, a) ==
  /\ Free(w, "login") /\ loginLock = NoWorker
  /\ \E source \in profile.sources : LockedOut(a, accounts[a], source)
  /\ UNCHANGED <<db, failures, job, locks, now, history>>

\* The password and the code are right: the session is committed with the
\* success that clears the account's failures. Only the
\* changed columns are written, so a secret stored meanwhile stays, with the
\* last used step of the old one; the enrolment code counts as unspent then.
LoginCommit(w) ==
  /\ At(w, "login", "commit") /\ job[w].row.active
  /\ LET j == job[w] a == j.admin IN
     /\ Issue(a, j.epoch, Raced(j))
     /\ IF j.row.secret = NoSecret THEN UNCHANGED <<accounts, spent, replayed>>
        ELSE \E t \in FreshSteps(j.row.last) :
          LET code == <<a, j.row.secret, t>> IN
          /\ accounts' = [accounts EXCEPT ![a].last = t]
          /\ replayed' = replayed \cup ({code} \cap spent)
          /\ spent' = {code} \cup {c \in spent : c[1] = a => c[2] = j.row.secret}
  /\ failures' = [failures EXCEPT ![job[w].admin] = <<>>]
  /\ Finish(w)
  /\ UNCHANGED <<now, epoch>>

\* A wrong password or code, an inactive account, an unknown e-mail: recorded
\* before the lock is released.
LoginWrong(w) ==
  /\ At(w, "login", "commit")
  /\ RecordFailure(Counter(job[w].admin, job[w].row), job[w].source)
  /\ Finish(w)
  /\ UNCHANGED <<db, now, history>>

\* A missing code, a secret that cannot be decrypted, a write lock that is not
\* free in time: nothing is recorded.
LoginUndecided(w) ==
  /\ At(w, "login", "commit")
  /\ Finish(w)
  /\ UNCHANGED <<db, failures, now, history>>

-----------------------------------------------------------------------------
\* Requests of an authenticated session (get_current_admin).

\* Where each operation goes first. db.refresh(target) is under the lock.
FirstStep(op) == CASE op \in OwnOps    -> "reauth"
                   [] op \in StatusOps -> "status"
                   [] OTHER            -> "commit"

Authenticate(w, op, s) ==
  /\ Free(w, op) /\ op \in RequestOps /\ Authenticated(s)
  /\ LET me == sessions[s].owner IN
     \E target \in IF op \in StatusOps THEN {a \in Admins : accounts[a].exists} ELSE {me} :
       Start(w, [Idle EXCEPT !.op = op, !.step = FirstStep(op), !.target = target,
                             !.token = s])
  /\ UNCHANGED <<db, failures, locks, now, history>>

\* _require_current_password: one attempt under login_lock, with the limiter of
\* the login, and verify_totp with no step used yet.
Reauth(w) ==
  /\ job[w].step = "reauth" /\ loginLock = NoWorker
  /\ \E source \in profile.sources : LET me == job[w].target IN
       /\ ~LockedOut(me, accounts[me], source)
       /\ \/ /\ \E t \in IF job[w].op = "confirm_totp" THEN FreshSteps(NoStep) ELSE {NoStep} :
                  job' = [job EXCEPT ![w].step = "select", ![w].code = t]
             /\ UNCHANGED failures
          \/ RecordFailure(me, source) /\ Start(w, Idle)
  /\ UNCHANGED <<db, locks, now, history>>

\* update_admin, under _admin_status_lock: the last active account stays.
\* Variant: no lock.
TakeStatusUnlocked(w) ==
  /\ job[w].step = "status"
  /\ LET j == job[w] IN
     IF \/ accounts[j.target].active = (j.op = "reactivate")
        \/ j.op = "deactivate" /\ Cardinality(Active) <= 1
     THEN Start(w, Idle)
     ELSE job' = [job EXCEPT ![w].step = IF j.op = "deactivate" THEN "select" ELSE "commit"]
  /\ UNCHANGED <<db, failures, locks, now, history>>
TakeStatus(w) ==
  /\ job[w].step = "status" /\ statusLock = NoWorker
  /\ LET j == job[w] IN
     IF \/ accounts[j.target].active = (j.op = "reactivate")
        \/ j.op = "deactivate" /\ Cardinality(Active) <= 1
     THEN Start(w, Idle) /\ UNCHANGED statusLock
     ELSE /\ statusLock' = w
          /\ job' = [job EXCEPT ![w].step = IF j.op = "deactivate" THEN "select" ELSE "commit"]
  /\ UNCHANGED <<db, failures, loginLock, now, history>>

\* The commands reset-admin-password and disable-totp: no session, no lock.
Command(w, op, a) ==
  /\ Free(w, op) /\ op \in CliOps /\ accounts[a].exists
  /\ op = "disable_totp" => accounts[a].secret # NoSecret
  /\ Start(w, [Idle EXCEPT !.op = op, !.step = "select", !.target = a])
  /\ UNCHANGED <<db, failures, locks, now, history>>

\* revoke_all_sessions_for_admin: the sessions it reads, except the request's
\* own where it is kept.
\* Variant: the request's own session is kept whatever the operation, and an
\* account that deactivates itself keeps it.
SelectSessionsKeepsOwn(w) ==
  /\ job[w].step = "select"
  /\ job' = [job EXCEPT ![w].step = "commit",
                        ![w].todo = Unrevoked(job[w].target) \ {job[w].token}]
  /\ UNCHANGED <<db, failures, locks, now, history>>
SelectSessions(w) ==
  /\ job[w].step = "select"
  /\ LET j == job[w] IN
     job' = [job EXCEPT ![w].step = "commit",
       ![w].todo = Unrevoked(j.target) \ (IF j.op \in OwnOps THEN {j.token} ELSE {})]
  /\ UNCHANGED <<db, failures, locks, now, history>>

\* The row a change of credentials leaves; disable-totp leaves the last step.
Changed(j) ==
  CASE j.op = "confirm_totp" -> [accounts[j.target] EXCEPT !.secret = epoch[j.target] + 1,
                                                           !.last = j.code]
    [] j.op = "remove_totp"  -> [accounts[j.target] EXCEPT !.secret = NoSecret, !.last = NoStep]
    [] j.op = "disable_totp" -> [accounts[j.target] EXCEPT !.secret = NoSecret]
    [] j.op = "deactivate"   -> [accounts[j.target] EXCEPT !.active = FALSE]
    [] OTHER                 -> accounts[j.target]

\* The one transaction of a change: the row, the sessions, the audit row. The
\* session that asked for it counts as one of the new epoch.
ChangeCommit(w) ==
  /\ job[w].step = "commit" /\ job[w].op \in OwnOps \cup CliOps \cup {"deactivate"}
  /\ LET j == job[w] a == j.target IN
     /\ epoch[a] < profile.changes
     /\ epoch' = [epoch EXCEPT ![a] = @ + 1]
     /\ accounts' = [accounts EXCEPT ![a] = Changed(j)]
     /\ sessions' = [s \in SessionIds |->
          IF s \in j.todo THEN [sessions[s] EXCEPT !.revoked = TRUE]
          ELSE IF s = j.token /\ j.op \in OwnOps
               THEN [sessions[s] EXCEPT !.epoch = epoch[a] + 1]
               ELSE sessions[s]]
     /\ spent' = IF j.op = "confirm_totp" THEN spent \cup {<<a, epoch[a] + 1, j.code>>}
                                           ELSE spent
  /\ Finish(w)
  /\ UNCHANGED <<failures, now, replayed>>

Reactivate(w) ==
  /\ At(w, "reactivate", "commit")
  /\ accounts' = [accounts EXCEPT ![job[w].target].active = TRUE]
  /\ Finish(w)
  /\ UNCHANGED <<failures, sessions, now, history>>

\* create_admin, as a request and as the command of that name: a duplicate is
\* refused.
CreateAdmin(w, a) ==
  /\ At(w, "create_admin", "commit")
  /\ accounts' = IF accounts[a].exists THEN accounts
                 ELSE [accounts EXCEPT ![a] = NewAccount]
  /\ Finish(w)
  /\ UNCHANGED <<failures, sessions, now, history>>

CommandCreate(a) ==
  /\ "create_admin" \in profile.ops /\ ~accounts[a].exists
  /\ accounts' = [accounts EXCEPT ![a] = NewAccount]
  /\ UNCHANGED <<failures, sessions, job, locks, now, history>>

\* revoke_session
Logout(w) ==
  /\ At(w, "logout", "commit")
  /\ sessions' = [sessions EXCEPT ![job[w].token].revoked = TRUE]
  /\ Finish(w)
  /\ UNCHANGED <<failures, accounts, now, history>>

\* A wrong password or code, a lockout, a write lock that is not free within
\* busy_timeout, a process that ends: the transaction is rolled back.
Fails(w) ==
  /\ job[w].step \in {"reauth", "select", "commit"} /\ job[w].op # "login"
  /\ Finish(w)
  /\ UNCHANGED <<db, failures, now, history>>

Tick ==
  /\ now < profile.time /\ now' = now + 1
  /\ UNCHANGED <<db, failures, job, locks, history>>

Next ==
  /\ \/ Tick
     \/ \E a \in profile.emails : CommandCreate(a)
     \/ \E w \in Workers :
          \/ SetupCheck(w) \/ SetupCommit(w)
          \/ LoginCommit(w) \/ LoginWrong(w) \/ LoginUndecided(w)
          \/ Reauth(w) \/ TakeStatus(w) \/ SelectSessions(w)
          \/ ChangeCommit(w) \/ Reactivate(w) \/ Logout(w) \/ Fails(w)
          \/ \E a \in profile.emails : LoginRead(w, a) \/ LoginLockedOut(w, a) \/ CreateAdmin(w, a)
          \/ \E a \in Admins, op \in CliOps : Command(w, op, a)
          \/ \E s \in SessionIds, op \in RequestOps : Authenticate(w, op, s)
  /\ UNCHANGED profile

Spec == Init /\ [][Next]_vars

-----------------------------------------------------------------------------
\* Once the first account is set up some account stays active, whatever
\* deactivations run at once (update_admin's lock and its count; the commands
\* never deactivate).
OneActiveRemains == (\E a \in Admins : accounts[a].exists) => Active # {}

\* A session does not outlive the credentials it was opened with: one that is
\* not revoked is of its owner's last password, authenticator and activation,
\* unless its login overlapped their change. What update_admin,
\* change_own_password, confirm_totp, remove_totp and the commands promise of
\* the sessions they revoke, as far as it is true.
OldSessionsEnd ==
  \A s \in Issued :
    ~sessions[s].revoked /\ sessions[s].epoch < epoch[sessions[s].owner] => sessions[s].raced

\* No code logs in twice, and the code of an enrolment not at all (core/totp.py,
\* confirm_totp), unless a login read the account before the enrolment.
CodeGoodOnce == replayed = {}

\* However requests are interleaved, the attempts that are evaluated keep the
\* distance the limiter asks for: one that fails comes after the lockout that the
\* failures before it, from its source and from all sources, had earned
\* (login_lock, #157; re-authentication goes through it too, #169).
GuessesSpaced ==
  \A k \in Admins \cup {NoAdmin} : \A i \in 2..Len(failures[k]) :
    LET f == failures[k][i] IN
    ~Locked(k # NoAdmin, SubSeq(failures[k], 1, i - 1), f.from, f.at)

\* Failures from one source never lock an account out for another source: what
\* one source can get counted stays below the account-wide thresholds (#157).
OneSourceLocksOnlyItself ==
  \A a \in Admins, s \in Sources :
    ~AccountWide(failures[a], InWindow(failures[a], now) \cap From(failures[a], s), now)
=============================================================================
