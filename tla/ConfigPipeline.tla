---------------------------- MODULE ConfigPipeline ----------------------------
(***************************************************************************)
(* The configuration pipeline of architecture.md section 5: the            *)
(* application renders the database, asks the control surface to apply the *)
(* result and records a config_generations row                             *)
(* (core/config_generator.py generate_and_apply), while administrators go  *)
(* on editing and the health check (core/health.py) compares the database  *)
(* with the last good row.                                                 *)
(*                                                                         *)
(* Each client of ControlSurface is one thread of the application, or one  *)
(* `relay generate-config` process, that runs generations one after the    *)
(* other. SQLAlchemy's reads hold no snapshot, so rendering is three reads *)
(* with edits in between: master.cf, sender_login, the routing maps.       *)
(***************************************************************************)
EXTENDS ControlSurface

CONSTANTS
  Settings,   \* main.cf as rendered from the environment: the same every time
  Masters,    \* what the database can render master.cf to
  NoRow       \* "no generation has been applied yet"

ASSUME PipelineAssumption ==
  /\ Settings \in Texts
  /\ Masters \subseteq Texts
  /\ NoRow \notin [conf : [Files -> Texts], login : SUBSET Senders,
                    route : SUBSET Senders]

VARIABLES
  db,         \* what the database renders to: master.cf, sender states
  lastGood,   \* the newest row with validation_result = pass and applied
  lastResult, \* validation_result of the newest row
  gen,        \* generate_and_apply of each client: step and local variables
  edits       \* edits so far, at most profile.edits

appVars == <<db, lastGood, lastResult, gen, edits>>
vars == <<csVars, appVars>>

\* "off": disabled, or no enabled upstream account; "routed": has a route;
\* "granted": routed and granted to an enabled local user.
SenderStates == {"off", "routed", "granted"}
Login(state) == {s \in Senders : state[s] = "granted"}
Route(state) == {s \in Senders : state[s] # "off"}
RenderConf(d) == [f \in Files |-> IF f = "main.cf" THEN Settings ELSE d.master]

\* The two checksums of a row, or of the database as it is now.
Row(c, login, route) == [conf |-> c, login |-> login, route |-> route]
Current == Row(RenderConf(db), Login(db.state), Route(db.state))

Steps == {"idle", "login", "route", "decide", "probe", "probing", "send", "applying"}
Idle == [step |-> "idle", conf |-> NoPrevious, login |-> {}, route |-> {}, reload |-> TRUE]
Rows == [conf : [Files -> Texts], login : SUBSET Senders, route : SUBSET Senders]

TypeOK ==
  /\ CSTypeOK
  /\ db \in [master : Masters, state : [Senders -> SenderStates]]
  /\ lastGood \in Rows \cup {NoRow}
  /\ lastResult \in {"none", "pass", "fail"}
  /\ gen \in [Clients -> [step : Steps, conf : Conf, login : SUBSET Senders,
                          route : SUBSET Senders, reload : BOOLEAN]]
  /\ edits \in 0..profile.edits

Init ==
  /\ CSInit
  /\ db \in [master : Masters, state : {[s \in Senders |-> "off"]}]
  /\ lastGood = NoRow
  /\ lastResult = "none"
  /\ gen = [c \in Clients |-> Idle]
  /\ edits = 0

-----------------------------------------------------------------------------
\* Administrators: a sender, grant, upstream account or user is edited.

EditMaster(t) ==
  /\ db.master # t
  /\ db' = [db EXCEPT !.master = t]

EditSender(s, state) ==
  /\ db.state[s] # state
  /\ db' = [db EXCEPT !.state[s] = state]

Edit ==
  /\ edits < profile.edits
  /\ edits' = edits + 1
  /\ \/ \E t \in Masters : EditMaster(t)
     \/ \E s \in Senders, state \in SenderStates : EditSender(s, state)
  /\ UNCHANGED <<csVars, lastGood, lastResult, gen>>

-----------------------------------------------------------------------------
\* generate_and_apply, one action per database read, call or commit.

At(c, step) == gen[c].step = step
AppOnly == UNCHANGED <<csVars, db, lastGood, lastResult, edits>>

Begin(c) ==
  /\ At(c, "idle") /\ inbox[c] = "quiet"
  /\ UNCHANGED profile
  /\ profile.overlap \/ \A other \in Clients : At(other, "idle")
  /\ gen' = [gen EXCEPT ![c].step = "login", ![c].conf = RenderConf(db)]
  /\ AppOnly

RenderLogin(c) ==
  /\ At(c, "login")
  /\ gen' = [gen EXCEPT ![c].step = "route", ![c].login = Login(db.state)]
  /\ AppOnly

RenderRoutes(c) ==
  /\ At(c, "route")
  /\ gen' = [gen EXCEPT ![c].step = "decide", ![c].route = Route(db.state)]
  /\ AppOnly

\* Variant: unchanged files never need a start.
DecideWithoutProbe(c) ==
  /\ At(c, "decide")
  /\ gen' = [gen EXCEPT ![c].step = "send",
                       ![c].reload = lastGood = NoRow \/ lastGood.conf # gen[c].conf]
  /\ AppOnly

\* reload_if_main_changed, from the last good row only.
Decide(c) ==
  /\ At(c, "decide")
  /\ LET changed == lastGood = NoRow \/ lastGood.conf # gen[c].conf
     IN gen' = [gen EXCEPT ![c].reload = changed,
                           ![c].step = IF changed THEN "send" ELSE "probe"]
  /\ AppOnly

\* Unchanged files still need a start when Postfix is not running.
Probe(c) ==
  /\ At(c, "probe")
  /\ Send(c, StatusRequest)
  /\ gen' = [gen EXCEPT ![c].step = "probing"]
  /\ UNCHANGED <<db, lastGood, lastResult, edits>>

Probed(c) ==
  /\ At(c, "probing")
  /\ Return(c)
  /\ gen' = [gen EXCEPT ![c].step = "send", ![c].reload = inbox[c] # "running"]
  /\ UNCHANGED <<db, lastGood, lastResult, edits>>

Payload(g) == [op |-> "apply_config", conf |-> g.conf, login |-> g.login,
               route |-> g.route, reload |-> g.reload]

SendApply(c) ==
  /\ At(c, "send")
  /\ Send(c, Payload(gen[c]))
  /\ gen' = [gen EXCEPT ![c].step = "applying"]
  /\ UNCHANGED <<db, lastGood, lastResult, edits>>

\* The answer is in: one row, committed with the time of the answer.
Record(c) ==
  /\ At(c, "applying")
  /\ inbox[c] \in {"success", "failed"}
  /\ Return(c)
  /\ lastResult' = IF inbox[c] = "success" THEN "pass" ELSE "fail"
  /\ lastGood' = IF inbox[c] = "success"
                 THEN Row(gen[c].conf, gen[c].login, gen[c].route) ELSE lastGood
  /\ gen' = [gen EXCEPT ![c] = Idle]
  /\ UNCHANGED <<db, edits>>

\* PostfixControlError: the route answers 503 and records no row.
Unreachable(c) ==
  /\ At(c, "applying")
  /\ inbox[c] = "error"
  /\ Return(c)
  /\ gen' = [gen EXCEPT ![c] = Idle]
  /\ UNCHANGED <<db, lastGood, lastResult, edits>>

\* The process dies, or the commit fails, between the answer and the row.
LoseRow(c) ==
  /\ At(c, "applying")
  /\ inbox[c] \in {"success", "failed"}
  /\ Fault("commit")
  /\ inbox' = [inbox EXCEPT ![c] = "quiet"]
  /\ gen' = [gen EXCEPT ![c] = Idle]
  /\ UNCHANGED <<queue, phase, jobVars, liveVars, db, lastGood, lastResult, edits>>

Generate(c) ==
  /\ \/ RenderLogin(c) \/ RenderRoutes(c) \/ Decide(c) \/ Probe(c)
     \/ Probed(c) \/ SendApply(c) \/ Record(c) \/ Unreachable(c)
  /\ UNCHANGED profile

Surface == Server /\ UNCHANGED appVars
SurfaceFault ==
  /\ ContainerStops \/ \E c \in Clients : GiveUp(c)
  /\ UNCHANGED appVars

Next ==
  /\ \/ Edit \/ Surface \/ SurfaceFault
     \/ \E c \in Clients : Begin(c) \/ Generate(c) \/ LoseRow(c)
  /\ UNCHANGED profile

-----------------------------------------------------------------------------
\* core/health.py run_health_check, as a predicate on the state it reads.

\* Variant: pending changes of the maps go unnoticed.
InSyncFilesOnly == lastGood.conf = Current.conf
InSync == lastGood = Current
HealthOk ==
  /\ phase # "down"
  /\ lastResult # "fail"
  /\ lastGood # NoRow => running # NotRunning /\ InSync

\* Fairness: the server loop and a generation that has begun go on, and
\* somebody begins another one again and again: entrypoint.sh at start, then
\* administrators, whom the health check asks to "regenerate to apply".
Fairness ==
  /\ WF_vars(Surface)
  /\ \A c \in Clients : WF_vars(Generate(c)) /\ WF_vars(Begin(c))

Spec == Init /\ [][Next]_vars /\ Fairness

-----------------------------------------------------------------------------
(***************************************************************************)
(* Properties                                                              *)
(***************************************************************************)

\* Nothing is under way between the application and the control surface.
Quiescent ==
  /\ phase = "idle" /\ queue = <<>>
  /\ \A c \in Clients : At(c, "idle") /\ inbox[c] = "quiet"

\* What is on disk, and what Postfix really does, is what the database says.
FilesSynced ==
  /\ conf = Current.conf
  /\ \A m \in MapNames : maps[m] = MapText(Current, m)
Synced == FilesSynced /\ running = conf

\* "the health endpoint must reflect actual capability" (architecture.md,
\* section 7): when nothing is under way and the relay has been configured,
\* status "ok" means that the files on disk, the live maps and the running
\* master are those the database renders to.
HealthTruthful == Quiescent /\ HealthOk /\ lastGood # NoRow => Synced

\* The faults after which run_health_check still tells the truth: a command
\* that fails in time, a container replaced or stopped between requests, and
\* one generation at a time. (Not a start that fails in a replaced container:
\* the rollback there goes back to the image's master.cf and starts with it.)
Benign ==
  /\ profile.kinds \subseteq {"reject", "postmap", "stop", "start", "restart", "recreate"}
  /\ ~({"start", "recreate"} \subseteq profile.kinds)
  /\ ~profile.overlap
HealthTruthfulWhenBenign == Benign => HealthTruthful

\* After benign faults, once edits end, the relay ends up running what the
\* database says and stays there: a failed or rolled back generation leaves
\* nothing behind that a later one does not repair.
Converges == Benign => <>[]Synced

\* Whatever went wrong - answers given up on, commands that hung, a container
\* stopped half-way, rows never committed, concurrent and torn renderings -
\* regenerating brings the files and maps back to the database. (Not the
\* running master: a generation that finds its files recorded and Postfix up
\* does not restart it.)
FilesConverge == <>[]FilesSynced
=============================================================================
