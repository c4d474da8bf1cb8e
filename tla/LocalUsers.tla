------------------------------ MODULE LocalUsers ------------------------------
(***************************************************************************)
(* Local SMTP users and their credentials. The database says who may       *)
(* authenticate; Postfix reads sasldb2, which only the control surface     *)
(* writes and which it copies to a volume, to survive its container.       *)
(*                                                                         *)
(* The routes of api/routes/local_users.py, the auto-disable tick of       *)
(* core/rate_limit_abuse.py and the startup reconciliation of              *)
(* core/sasldb_reconcile.py run here as jobs of Workers (threads of the    *)
(* application), each cut at its database statements and calls.            *)
(*                                                                         *)
(* SQLite: a SELECT reads what is committed and keeps nothing; the first   *)
(* INSERT, UPDATE or DELETE takes the one write lock until commit or       *)
(* rollback. A job that flushes before it calls keeps the lock meanwhile.  *)
(*                                                                         *)
(* What is abstracted: a password is a number, its hash the same number;   *)
(* a row is its `enabled` and `password_hash`; the rate-limit streak that  *)
(* makes a user a candidate of the tick is any choice of enabled users.    *)
(***************************************************************************)
EXTENDS Naturals, Sequences

CONSTANTS
  Users,         \* usernames
  Workers,       \* threads that run jobs
  NoUser,
  MaxPasswords,  \* passwords are the numbers up to this one
  Profiles       \* what may happen: [kinds, faults (how many), ops, overlap,
                 \* passwords (how many)]

\* The same route as "regenerate", called on a user that is disabled.
RegenerateDisabled == "regenerate_disabled"
SetOps == {"create", "enable", "regenerate", RegenerateDisabled}
\* Flushed, and so locked, before the call.
FlushFirst == SetOps \cup {"disable"}
RouteOps == FlushFirst \cup {"delete"}
JobOps == RouteOps \cup {"tick", "reconcile"}

\* "refuse"  saslpasswd2 or sasldblistusers2 fails and changes nothing
\* "slow"    it outlives the 30 s of _run (subprocess.TimeoutExpired)
\* "sync"    the copy to the volume fails
\* "giveup"  the caller's 15 s are over before the answer
\* "restart" the postfix container stops between two requests
\* "halt"    ... while a request is being handled or waits
\* "quit"    the application stops
\* "busy"    the write lock is not free within busy_timeout
\* "commit"  COMMIT fails
FaultKinds == {"refuse", "slow", "sync", "giveup", "restart", "halt", "quit",
               "busy", "commit"}

ASSUME UsersAssumption == NoUser \notin Users
ASSUME BoundAssumption ==
  /\ MaxPasswords \in Nat
  /\ Profiles \subseteq [kinds : SUBSET FaultKinds, faults : Nat,
                          ops : SUBSET (JobOps \ {"reconcile"}), overlap : BOOLEAN,
                          passwords : 0..MaxPasswords]

VARIABLES
  rows,     \* local_smtp_users as committed
  barred,   \* usernames deleted since the last applied configuration
  job,      \* what each worker is doing
  app,      \* "starting" until the startup reconciliation is over, then "up"
  live,     \* /etc/sasldb2: the password of each user, or NoPassword
  volume,   \* the copy on the volume
  queue,    \* calls on the control socket, the first one being handled
  srv,      \* where the control surface is with the first call
  result,   \* its answer to that call
  fresh,    \* passwords generated so far
  revoked,  \* history: users whose last committed change took their access away
  profile,  \* what may happen in this behaviour; never changes
  faults    \* faults so far

appVars == <<rows, barred, fresh, revoked>>
sasldb == <<live, volume>>
srvVars == <<sasldb, srv, result>>
vars == <<appVars, job, app, srvVars, queue, profile, faults>>

NoPassword == 0
Passwords == 1..MaxPasswords
Absent == [enabled |-> FALSE, hash |-> NoPassword]
Row == [enabled : BOOLEAN, hash : Passwords]
Enabled == {u \in Users : rows[u].enabled}
Exists(u) == rows[u] # Absent

Idle == [op |-> "none", step |-> "idle", user |-> NoUser, pw |-> NoPassword,
         todo |-> {}, done |-> {}, locked |-> FALSE, missed |-> FALSE, since |-> 0]
Steps == {"idle", "flush", "call", "list", "wait", "pick", "commit"}
Call == [worker : Workers, op : {"set", "delete", "list"}, user : Users \cup {NoUser},
         pw : Passwords \cup {NoPassword}, open : BOOLEAN]
NoResult == [ok |-> FALSE, users |-> {}]

TypeOK ==
  /\ rows \in [Users -> Row \cup {Absent}]
  /\ barred \subseteq Users /\ revoked \subseteq Users
  /\ job \in [Workers -> [op : JobOps \cup {"none"}, step : Steps,
                          user : Users \cup {NoUser}, pw : Passwords \cup {NoPassword},
                          todo : SUBSET Users, done : SUBSET Users, locked : BOOLEAN,
                          missed : BOOLEAN, since : Nat]]
  /\ \A w, x \in Workers : job[w].locked /\ job[x].locked => w = x
  /\ app \in {"starting", "up"}
  /\ live \in [Users -> Passwords \cup {NoPassword}]
  /\ volume \in [Users -> Passwords \cup {NoPassword}]
  /\ queue \in Seq(Call)
  /\ \A i, j \in 1..Len(queue) :
       queue[i].open /\ queue[j].open /\ queue[i].worker = queue[j].worker => i = j
  /\ srv \in {"idle", "sync", "reply", "down"}
  /\ result \in [ok : BOOLEAN, users : SUBSET Users]
  /\ fresh \in 0..MaxPasswords
  /\ profile \in Profiles
  /\ faults \in 0..profile.faults

Init ==
  /\ rows = [u \in Users |-> Absent]
  /\ barred = {} /\ revoked = {}
  /\ job = [w \in Workers |-> Idle]
  /\ app = "starting"
  /\ live = [u \in Users |-> NoPassword]
  /\ volume = live
  /\ queue = <<>>
  /\ srv = "idle"
  /\ result = NoResult
  /\ fresh = 0
  /\ profile \in Profiles
  /\ faults = 0

Fault(kind) ==
  /\ kind \in profile.kinds
  /\ faults < profile.faults
  /\ faults' = faults + 1

At(w, step) == job[w].step = step
AllIdle == \A w \in Workers : At(w, "idle")
LockFree(w) == \A x \in Workers \ {w} : ~job[x].locked

-----------------------------------------------------------------------------
\* How a job goes on.

\* Variant: the failed route's session is never closed.
AfterErrorLeaksSession(j) ==
  IF j.op \in RouteOps THEN [Idle EXCEPT !.locked = j.locked]
  ELSE [j EXCEPT !.step = "pick", !.missed = j.op = "reconcile"]

\* A route that fails rolls back and answers; the tick skips the user; the
\* reconciliation notes that it missed one, or the whole list.
AfterError(j) ==
  CASE j.op \in RouteOps -> Idle
    [] j.op = "tick"     -> [j EXCEPT !.step = "pick"]
    [] OTHER             -> [j EXCEPT !.step = "pick", !.missed = TRUE]

\* What reconcile_sasldb removes.
\* Variant: a user who is only disabled stays.
StaleIfAbsent(users) == {u \in users : ~Exists(u)}
Stale(users) == users \ Enabled

AfterAnswer(j, answer) ==
  IF ~answer.ok THEN AfterError(j)
  ELSE CASE j.op \in FlushFirst      -> [j EXCEPT !.step = "commit"]
         [] j.op \in {"delete", "tick"} -> [j EXCEPT !.step = "flush"]
         [] OTHER -> [j EXCEPT !.step = "pick", !.todo = @ \cup Stale(answer.users)]

Start(w, j) == job' = [job EXCEPT ![w] = j]

-----------------------------------------------------------------------------
\* The application.

\* A route reads the user (or finds the name free) and generates a password.
Loadable(op, u) ==
  CASE op = "create"            -> ~Exists(u) /\ u \notin barred
    [] op \in {"disable", "regenerate"} -> rows[u].enabled
    [] op \in {"enable", RegenerateDisabled} -> Exists(u) /\ ~rows[u].enabled
    [] op = "delete"            -> Exists(u)

Load(w, op, u) ==
  /\ app = "up" /\ At(w, "idle")
  /\ profile.overlap \/ AllIdle
  /\ op \in profile.ops /\ Loadable(op, u)
  /\ IF op \in SetOps THEN fresh < profile.passwords /\ fresh' = fresh + 1
                      ELSE UNCHANGED fresh
  /\ Start(w, [Idle EXCEPT !.op = op, !.user = u,
                           !.pw = IF op \in SetOps THEN fresh + 1 ELSE NoPassword,
                           !.step = IF op \in FlushFirst THEN "flush" ELSE "call"])
  /\ UNCHANGED <<rows, barred, revoked, app, srvVars, queue, faults>>

\* run_rate_limit_abuse_detection: one tick at a time.
BeginTick(w) ==
  /\ app = "up" /\ At(w, "idle")
  /\ profile.overlap \/ AllIdle
  /\ "tick" \in profile.ops
  /\ \A x \in Workers : job[x].op # "tick"
  /\ \E candidates \in SUBSET Enabled \ {{}} :
       Start(w, [Idle EXCEPT !.op = "tick", !.step = "pick", !.todo = candidates])
  /\ UNCHANGED <<appVars, app, srvVars, queue, faults>>

\* reconcile_sasldb, from the application's lifespan before it serves.
BeginReconcile(w) ==
  /\ app = "starting" /\ AllIdle
  /\ Start(w, [Idle EXCEPT !.op = "reconcile", !.step = "list", !.since = faults])
  /\ UNCHANGED <<appVars, app, srvVars, queue, faults>>

\* Variant: a call without the write lock.
FlushUnlocked(w) ==
  /\ At(w, "flush")
  /\ Start(w, [job[w] EXCEPT !.step = CASE job[w].op = "delete" -> "commit"
                                       [] job[w].op = "tick" -> "pick"
                                       [] OTHER -> "call"])
  /\ UNCHANGED <<appVars, app, srvVars, queue, faults>>

\* The first statement that writes. An INSERT of a name that exists and an
\* UPDATE of a row that is gone raise; a DELETE of one does not.
Flush(w) ==
  /\ At(w, "flush") /\ LockFree(w)
  /\ LET j == job[w]
         raises == CASE j.op = "create" -> Exists(j.user)
                     [] j.op = "delete" -> FALSE
                     [] OTHER -> ~Exists(j.user)
         to == CASE j.op = "delete" -> "commit" [] j.op = "tick" -> "pick" [] OTHER -> "call"
     IN Start(w, IF raises THEN Idle
                 ELSE [j EXCEPT !.step = to, !.locked = TRUE,
                                !.done = IF j.op = "tick" THEN @ \cup {j.user} ELSE @])
  /\ UNCHANGED <<appVars, app, srvVars, queue, faults>>

\* OperationalError: database is locked.
FlushBusy(w) ==
  /\ At(w, "flush") /\ ~LockFree(w)
  /\ Fault("busy")
  /\ Start(w, Idle)
  /\ UNCHANGED <<appVars, app, srvVars, queue>>

\* The next user of the tick or the reconciliation, or the end of the loop.
Pick(w) ==
  /\ At(w, "pick")
  /\ LET j == job[w]
     IN \/ \E u \in j.todo :
             /\ Start(w, [j EXCEPT !.step = "call", !.user = u, !.todo = @ \ {u}])
             /\ UNCHANGED app
        \/ /\ j.todo = {}
           /\ IF j.op = "tick"
              THEN Start(w, [j EXCEPT !.step = "commit"]) /\ UNCHANGED app
              ELSE Start(w, Idle) /\ app' = "up"
  /\ UNCHANGED <<appVars, srvVars, queue, faults>>

RpcOp(j) == CASE j.step = "list" -> "list" [] j.op \in SetOps -> "set" [] OTHER -> "delete"

\* core/postfix_control.py _call: a dead server refuses the connection.
Connect(w) ==
  /\ At(w, "call") \/ At(w, "list")
  /\ LET j == job[w]
         op == RpcOp(j)
     IN /\ IF srv = "down"
           THEN Start(w, AfterError(j)) /\ UNCHANGED queue
           ELSE /\ queue' = Append(queue, [worker |-> w, op |-> op, user |-> j.user,
                                           pw |-> j.pw, open |-> TRUE])
                /\ Start(w, [j EXCEPT !.step = "wait"])
        /\ revoked' = IF op = "set" THEN revoked \ {j.user} ELSE revoked
  /\ UNCHANGED <<rows, barred, fresh, app, srvVars, faults>>

\* Variant: the socket stays open.
GiveUpOpen(w) ==
  /\ At(w, "wait")
  /\ Fault("giveup")
  /\ Start(w, AfterError(job[w]))
  /\ UNCHANGED <<appVars, app, srvVars, queue>>

\* The socket timeout: PostfixControlError here, the call stays there.
GiveUp(w) ==
  /\ At(w, "wait")
  /\ Fault("giveup")
  /\ queue' = [i \in 1..Len(queue) |->
                 IF queue[i].worker = w THEN [queue[i] EXCEPT !.open = FALSE] ELSE queue[i]]
  /\ Start(w, AfterError(job[w]))
  /\ UNCHANGED <<appVars, app, srvVars>>

Committed(j) ==
  CASE j.op \in {"create", "enable"} -> [rows EXCEPT ![j.user] = [enabled |-> TRUE, hash |-> j.pw]]
    [] j.op \in {"regenerate", RegenerateDisabled} -> [rows EXCEPT ![j.user].hash = j.pw]
    [] j.op = "disable" -> [rows EXCEPT ![j.user].enabled = FALSE]
    [] j.op = "delete"  -> [rows EXCEPT ![j.user] = Absent]
    [] j.op = "tick"    -> [u \in Users |->
                              IF u \in j.done THEN [rows[u] EXCEPT !.enabled = FALSE]
                                              ELSE rows[u]]

Commit(w) ==
  /\ At(w, "commit")
  /\ LET j == job[w]
     IN /\ rows' = Committed(j)
        /\ barred' = IF j.op = "delete" THEN barred \cup {j.user} ELSE barred
        /\ revoked' = revoked \cup j.done
                        \cup IF j.op \in {"disable", "delete"} THEN {j.user} ELSE {}
  /\ Start(w, Idle)
  /\ UNCHANGED <<fresh, app, srvVars, queue, faults>>

CommitFails(w) ==
  /\ At(w, "commit")
  /\ Fault("commit")
  /\ Start(w, Idle)
  /\ UNCHANGED <<appVars, app, srvVars, queue>>

\* generate_and_apply records an applied configuration (ConfigPipeline).
Applied ==
  /\ barred # {}
  /\ barred' = {}
  /\ UNCHANGED <<rows, fresh, revoked, job, app, srvVars, queue, faults>>

\* The process ends: transactions are rolled back, its sockets close, and
\* it starts again.
AppQuits ==
  /\ Fault("quit")
  /\ job' = [w \in Workers |-> Idle]
  /\ queue' = [i \in 1..Len(queue) |-> [queue[i] EXCEPT !.open = FALSE]]
  /\ app' = "starting"
  /\ UNCHANGED <<appVars, srvVars>>

-----------------------------------------------------------------------------
\* The control surface: _sasl_set_user, _sasl_delete_user, _sasl_list_users.

Answer(ok, users) == srv' = "reply" /\ result' = [ok |-> ok, users |-> users]

Written(call) ==
  [live EXCEPT ![call.user] = IF call.op = "set" THEN call.pw ELSE NoPassword]

\* Variant: a user who is gone already needs no copy to the volume.
ToSyncIfChanged(call) ==
  IF Written(call) = live THEN Answer(TRUE, {}) ELSE srv' = "sync" /\ UNCHANGED result
\* The copy is made even when the user was gone already.
ToSync(call) == srv' = "sync" /\ UNCHANGED result

\* saslpasswd2 -c, saslpasswd2 -d (skipped for a user who is gone already),
\* or sasldblistusers2.
RunCommand ==
  /\ srv = "idle" /\ queue # <<>>
  /\ LET call == Head(queue)
     IN \/ /\ call.op = "list"
           /\ Answer(TRUE, {u \in Users : live[u] # NoPassword})
           /\ UNCHANGED <<live, faults>>
        \/ /\ call.op # "list"
           /\ live' = Written(call)
           /\ ToSync(call)
           /\ UNCHANGED faults
        \/ Fault("refuse") /\ Answer(FALSE, {}) /\ UNCHANGED live
        \/ /\ Fault("slow") /\ Answer(FALSE, {})
           /\ live' \in {live, IF call.op = "list" THEN live ELSE Written(call)}
  /\ UNCHANGED <<appVars, job, app, volume, queue>>

SyncVolume ==
  /\ srv = "sync"
  /\ \/ volume' = live /\ Answer(TRUE, {}) /\ UNCHANGED faults
     \/ UNCHANGED volume /\ Answer(FALSE, {}) /\ Fault("sync")
  /\ UNCHANGED <<appVars, job, app, live, queue>>

\* The container goes down; whoever waits for an answer gets an error.
ServerGone ==
  /\ srv' = "down"
  /\ result' = NoResult
  /\ queue' = <<>>
  /\ job' = [w \in Workers |-> IF At(w, "wait") THEN AfterError(job[w]) ELSE job[w]]

\* To a caller that has hung up, sendall raises and the main loop ends.
Reply ==
  /\ srv = "reply"
  /\ LET call == Head(queue)
     IN \/ /\ call.open
           /\ srv' = "idle" /\ result' = NoResult
           /\ queue' = Tail(queue)
           /\ Start(call.worker, AfterAnswer(job[call.worker], result))
        \/ ~call.open /\ ServerGone
  /\ UNCHANGED <<appVars, app, sasldb, faults>>

ContainerStops ==
  /\ srv # "down"
  /\ IF queue = <<>> THEN Fault("restart") ELSE Fault("halt")
  /\ ServerGone
  /\ UNCHANGED <<appVars, app, sasldb>>

\* postfix/entrypoint.sh restores sasldb2 from the volume.
Boot ==
  /\ srv = "down"
  /\ srv' = "idle"
  /\ live' = volume
  /\ UNCHANGED <<appVars, job, app, volume, result, queue, faults>>

-----------------------------------------------------------------------------
Work(w) == Flush(w) \/ Pick(w) \/ Connect(w) \/ Commit(w) \/ BeginReconcile(w)
Server == RunCommand \/ SyncVolume \/ Reply \/ Boot

Next ==
  /\ \/ Server \/ ContainerStops \/ AppQuits \/ Applied
     \/ \E w \in Workers :
          \/ Work(w) \/ BeginTick(w) \/ FlushBusy(w) \/ GiveUp(w) \/ CommitFails(w)
          \/ \E op \in RouteOps, u \in Users : Load(w, op, u)
  /\ UNCHANGED profile

\* A job that has begun goes on, and so does the server's loop. (Nothing is
\* promised about requests, ticks or applied configurations.)
Spec ==
  /\ Init /\ [][Next]_vars
  /\ WF_vars(Server /\ UNCHANGED profile)
  /\ \A w \in Workers : WF_vars(Work(w) /\ UNCHANGED profile)

-----------------------------------------------------------------------------
(***************************************************************************)
(* Properties                                                              *)
(***************************************************************************)

\* Nobody is in the middle of anything.
Settled == app = "up" /\ AllIdle /\ queue = <<>> /\ srv = "idle"

\* What the database says sasldb2 should hold.
Expected(u) == IF rows[u].enabled THEN rows[u].hash ELSE NoPassword

\* The credential store agrees with the database: a user who may authenticate
\* can, with the password last handed out, and nobody else can. It does, with its
\* copy on the volume, whenever nothing is under way, with one job at a time,
\* commands that fail cleanly and container restarts between requests. And it
\* does while nobody holds the database's write lock, with any number of create,
\* disable and enable requests at once: they flush before they call (the comments
\* in create_user and update_user), so that lock orders their calls as it orders
\* their commits.
Orderly == ~profile.overlap /\ profile.kinds \subseteq {"refuse", "restart", "busy"}
              /\ RegenerateDisabled \notin profile.ops
LockedOnly == profile.ops \subseteq {"create", "disable", "enable"}
                /\ profile.kinds \subseteq {"refuse", "restart", "busy"}
AgreesWhenOrderly ==
  /\ Orderly /\ Settled => \A u \in Users : live[u] = Expected(u) /\ volume[u] = Expected(u)
  /\ LockedOnly /\ srv # "down" /\ (\A w \in Workers : ~job[w].locked) =>
       \A u \in Users : live[u] = Expected(u)

\* "Revoked credentials must stay revoked" (main.py): after a disable or a
\* delete has been committed, the user is neither in sasldb2 nor in the copy
\* that the next container starts from, until an administrator asks for a new
\* credential - whatever failed, hung, was given up on, or was restarted
\* before and after, as long as jobs do not overlap.
RevokedForGood ==
  ~profile.overlap => \A u \in revoked : live[u] = NoPassword /\ volume[u] = NoPassword

\* The startup reconciliation leaves only enabled users in sasldb2, whatever
\* led there, if none of its calls failed and nothing failed meanwhile.
ReconcileCleans ==
  \A w \in Workers :
    /\ job[w].op = "reconcile" /\ At(w, "pick")
    /\ job[w].todo = {} /\ ~job[w].missed /\ job[w].since = faults
    => \A u \in Users : live[u] # NoPassword => u \in Enabled

\* Every job ends: no failed call, lost server or held write lock leaves a
\* request, a tick or the start of the application hanging.
JobsEnd == \A w \in Workers : ~At(w, "idle") ~> At(w, "idle")

\* "disabling removes the user from sasldb2 immediately ... revoking SMTP
\* AUTH" (database-schema.md), "The database is the source of truth for which
\* local users may SMTP-AUTH" (sasldb_reconcile.py): when nothing is under
\* way, nobody but an enabled user of the database is in sasldb2.
OnlyEnabledAuthenticate ==
  Settled => \A u \in Users : live[u] # NoPassword => u \in Enabled
=============================================================================
