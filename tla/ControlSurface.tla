---------------------------- MODULE ControlSurface ----------------------------
(***************************************************************************)
(* The Postfix control surface (postfix/control_surface.py) as a           *)
(* single-threaded request server: the `apply_config` pipeline command by  *)
(* command, the `status` request, and the accept loop around both.         *)
(*                                                                         *)
(* The server runs in the postfix container as the process the container   *)
(* lives for: when its main loop ends, the container stops, Postfix with   *)
(* it, and the restart policy boots it again with Postfix stopped.         *)
(*                                                                         *)
(* What is abstracted:                                                     *)
(*   - the text of main.cf and master.cf is a member of Texts; a lookup    *)
(*     map is the set of senders it has an entry for;                      *)
(*   - RoutingMaps lists the sender-keyed maps that are activated before   *)
(*     sender_login (tls_policy, keyed by next hop, is left out);          *)
(*   - the outcome of an external command is chosen, not computed. An      *)
(*     outcome other than success is a fault of a named kind. The profile  *)
(*     of a behaviour, one of Profiles, says which kinds may occur in it   *)
(*     and bounds how often.                                               *)
(***************************************************************************)
EXTENDS Naturals, Sequences

CONSTANTS
  Clients,       \* threads and processes that call the control socket
  Senders,       \* sender addresses
  Texts,         \* contents of main.cf or master.cf
  NoFile,        \* "this file does not exist"
  NotRunning,    \* "no Postfix master process"
  NoJob,         \* "no request is being handled"
  RoutingMaps,   \* the maps written before sender_login, in order
  ImageConf,     \* main.cf and master.cf as the container image ships them
  Requests,      \* the apply_config payloads the clients of this module send
  Backlog,       \* listen() backlog of the control socket
  Profiles       \* what may go wrong: [kinds, faults (how many), edits, overlap]

Files == {"main.cf", "master.cf"}
\* Variant: without the sort key, sender_login comes first.
MapOrderUnsorted == <<"sender_login">> \o RoutingMaps
MapOrder == Append(RoutingMaps, "sender_login")
MapNames == {MapOrder[i] : i \in 1..Len(MapOrder)}
Conf == [Files -> Texts \cup {NoFile}]

ApplyRequest ==
  [op : {"apply_config"}, conf : [Files -> Texts], login : SUBSET Senders,
   route : SUBSET Senders, reload : BOOLEAN]
StatusRequest == [op |-> "status"]
Request == ApplyRequest \cup {StatusRequest}

\* "reject"   postconf refuses the staged files
\* "postmap"  postmap refuses a map, staged or live
\* "disk"     a write or a rename fails (OSError)
\* "stop"     `postfix stop` leaves the master running
\* "start"    `postfix start` returns non-zero
\* "slow"     a command outlives the 30 s of _run (subprocess.TimeoutExpired)
\* "giveup"   a client's socket timeout expires before the answer
\* "restart"  the container stops between two requests
\* "halt"     the container stops while a request is being handled
\* "recreate" the container stops and is replaced by a fresh one
\* "commit"   the application loses the answer before its row is committed
FaultKinds == {"reject", "postmap", "disk", "stop", "start", "slow",
               "giveup", "restart", "halt", "recreate", "commit"}

ASSUME RoutingMapsAssumption ==
  /\ RoutingMaps \in Seq(STRING)
  /\ \A i \in 1..Len(RoutingMaps) : RoutingMaps[i] # "sender_login"
ASSUME ConfAssumption ==
  /\ NoFile \notin Texts
  /\ ImageConf \in Conf
  /\ NotRunning \notin Conf
  /\ NoJob \notin [client : Clients, req : Request, open : BOOLEAN]
ASSUME BoundAssumption ==
  /\ Backlog \in Nat \ {0}
  \* edits and overlap are ConfigPipeline's.
  /\ Profiles \subseteq [kinds : SUBSET FaultKinds, faults : Nat,
                          edits : Nat, overlap : BOOLEAN]
\* config_generator.py renders sender_login from the senders it also routes.
ASSUME RequestAssumption ==
  /\ Requests \subseteq ApplyRequest
  /\ \A r \in Requests : r.login \subseteq r.route

VARIABLES
  queue,    \* requests on the socket that the server has not accepted yet
  inbox,    \* what each client's _call has got: nothing, waiting, or an answer
  phase,    \* where the server is
  cur,      \* the request being handled and whether its client still listens
  answer,   \* the response that will be sent
  next,     \* index into MapOrder of the map to activate
  prev,     \* previous_config: what _install_config returned, or NoPrevious
  conf,     \* the installed main.cf and master.cf
  maps,     \* the live lookup maps
  running,  \* the files the running Postfix master was started with
  before,   \* history: conf and maps when the request was accepted
  profile,  \* what may go wrong in this behaviour; never changes
  faults    \* faults so far

jobVars  == <<cur, answer, next, prev, before>>
liveVars == <<conf, maps, running>>
sockVars == <<queue, inbox>>
csVars   == <<queue, inbox, phase, jobVars, liveVars, profile, faults>>

Phases == {"idle", "status", "validate", "stage", "install", "activate",
           "restore", "stop", "start", "rollback", "rollback_start", "reply",
           "down"}
AnswerKinds == {"success", "failed", "error", "running", "stopped"}
\* "quiet": no call is under way; "waiting": the client is reading its socket.
InboxStates == AnswerKinds \cup {"quiet", "waiting"}
\* The answer, and the phase that gave it.
Answer == [kind : AnswerKinds, at : Phases]
NoAnswer == [kind |-> "error", at |-> "idle"]
NoPrevious == [f \in Files |-> NoFile]
EmptyMaps == [m \in MapNames |-> {}]
NoHistory == [conf |-> NoPrevious, maps |-> EmptyMaps]
Entry == [client : Clients, req : Request, open : BOOLEAN]

CSTypeOK ==
  /\ queue \in Seq(Entry)
  /\ inbox \in [Clients -> InboxStates]
  /\ phase \in Phases
  /\ IF phase \in {"idle", "down"} THEN cur = NoJob ELSE cur \in Entry
  /\ phase \notin {"idle", "down", "status", "reply"} =>
       cur.req \in ApplyRequest
  /\ answer \in Answer
  /\ next \in 1..Len(MapOrder)
  /\ prev \in Conf
  /\ conf \in Conf
  /\ maps \in [MapNames -> SUBSET Senders]
  /\ running \in Conf \cup {NotRunning}
  /\ before \in [conf : Conf, maps : [MapNames -> SUBSET Senders]]
  /\ profile \in Profiles
  /\ faults \in 0..profile.faults

-----------------------------------------------------------------------------
MapText(req, m) == IF m = "sender_login" THEN req.login ELSE req.route

\* Variant: nothing is put back.
RestoredNothing == conf
Restored == [f \in Files |-> IF prev[f] = NoFile THEN conf[f] ELSE prev[f]]

Fault(kind) ==
  /\ kind \in profile.kinds
  /\ faults < profile.faults
  /\ faults' = faults + 1

Respond(kind) ==
  /\ phase' = "reply"
  /\ answer' = [kind |-> kind, at |-> phase]
  /\ UNCHANGED <<cur, next, prev, before>>

Proceed(to) ==
  /\ phase' = to
  /\ UNCHANGED jobVars

\* The handler returns: its locals are gone.
Forget ==
  /\ cur' = NoJob
  /\ answer' = NoAnswer
  /\ next' = 1
  /\ prev' = NoPrevious
  /\ before' = NoHistory

CSInit ==
  /\ queue = <<>>
  /\ inbox = [c \in Clients |-> "quiet"]
  /\ phase = "idle"
  /\ cur = NoJob
  /\ answer = NoAnswer
  /\ next = 1
  /\ prev = NoPrevious
  /\ conf = ImageConf
  /\ maps = EmptyMaps
  /\ running = NotRunning
  /\ before = NoHistory
  /\ profile \in Profiles
  /\ faults = 0

-----------------------------------------------------------------------------
\* The client half of a call: core/postfix_control.py _call.

\* connect + sendall + shutdown; a dead server refuses the connection.
Send(c, req) ==
  /\ inbox[c] = "quiet"
  /\ IF phase = "down"
     THEN /\ inbox' = [inbox EXCEPT ![c] = "error"]
          /\ UNCHANGED queue
     ELSE /\ Len(queue) < Backlog
          /\ queue' = Append(queue, [client |-> c, req |-> req, open |-> TRUE])
          /\ inbox' = [inbox EXCEPT ![c] = "waiting"]
  /\ UNCHANGED <<phase, jobVars, liveVars, faults>>

Hangup(e, c) == IF e.client = c THEN [e EXCEPT !.open = FALSE] ELSE e

\* The socket timeout: the caller gets PostfixControlError and closes its
\* end, the request itself stays where it is.
GiveUp(c) ==
  /\ inbox[c] = "waiting"
  /\ Fault("giveup")
  /\ inbox' = [inbox EXCEPT ![c] = "error"]
  /\ queue' = [i \in 1..Len(queue) |-> Hangup(queue[i], c)]
  /\ cur' = IF phase \in {"idle", "down"} THEN cur ELSE Hangup(cur, c)
  /\ UNCHANGED <<phase, answer, next, prev, before, liveVars>>

-----------------------------------------------------------------------------
\* The server: accept, the two handlers, the answer.

Accept ==
  /\ phase = "idle"
  /\ queue # <<>>
  /\ queue' = Tail(queue)
  /\ cur' = Head(queue)
  /\ phase' = IF Head(queue).req.op = "status" THEN "status" ELSE "validate"
  /\ before' = [conf |-> conf, maps |-> maps]
  /\ UNCHANGED <<inbox, answer, next, prev, liveVars, faults>>

AnswerStatus ==
  /\ phase = "status"
  /\ \/ /\ Respond(IF running = NotRunning THEN "stopped" ELSE "running")
        /\ UNCHANGED faults
     \/ Fault("slow") /\ Respond("error")
  /\ UNCHANGED <<sockVars, liveVars>>

Validate ==
  /\ phase = "validate"
  /\ \/ Proceed("stage") /\ UNCHANGED faults
     \/ Fault("reject") /\ Respond("failed")
     \/ Fault("slow") /\ Respond("error")
  /\ UNCHANGED <<sockVars, liveVars>>

\* Every map is built once in a staging directory, away from the live ones.
StageMaps ==
  /\ phase = "stage"
  /\ \/ Proceed("install") /\ UNCHANGED faults
     \/ (Fault("postmap") \/ Fault("disk")) /\ Respond("failed")
     \/ Fault("slow") /\ Respond("error")
  /\ UNCHANGED <<sockVars, liveVars>>

\* main.cf, then master.cf. An OSError on the way leaves previous_config
\* unset, so the handler has nothing to restore.
InstallConfig ==
  /\ phase = "install"
  /\ \/ /\ conf' = cur.req.conf
        /\ prev' = conf
        /\ phase' = "activate"
        /\ UNCHANGED <<cur, answer, next, before, faults>>
     \/ /\ Fault("disk")
        /\ conf' \in {conf, [conf EXCEPT !["main.cf"] = cur.req.conf["main.cf"]]}
        /\ Respond("failed")
  /\ UNCHANGED <<sockVars, maps, running>>

WithMap(i) == [maps EXCEPT ![MapOrder[i]] = MapText(cur.req, MapOrder[i])]

\* Variant: the loop ends before the last map.
ActivateMapStopsEarly ==
  /\ phase = "activate"
  /\ maps' = WithMap(next)
  /\ IF cur.req.reload THEN Proceed("stop") ELSE Respond("success")
  /\ UNCHANGED <<sockVars, conf, running, faults>>

\* Variant: the loop runs past the last map.
ActivateMapOverruns ==
  /\ phase = "activate"
  /\ maps' = WithMap(next)
  /\ next' = next + 1
  /\ UNCHANGED <<phase, cur, answer, prev, before, sockVars, conf, running, faults>>

ActivateMap ==
  /\ phase = "activate"
  /\ maps' = WithMap(next)
  /\ \/ /\ next < Len(MapOrder)
        /\ next' = next + 1
        /\ UNCHANGED <<phase, cur, answer, prev, before>>
     \/ /\ next = Len(MapOrder)
        /\ IF cur.req.reload THEN Proceed("stop") ELSE Respond("success")
  /\ UNCHANGED <<sockVars, conf, running, faults>>

\* A failed command (RuntimeError) or write (OSError) is rolled back;
\* TimeoutExpired is neither, and leaves the handler with what is there.
ActivateMapFails ==
  /\ phase = "activate"
  /\ \/ (Fault("postmap") \/ Fault("disk")) /\ Proceed("restore") /\ UNCHANGED maps
     \/ Fault("slow") /\ Respond("error") /\ maps' \in {maps, WithMap(next)}
  /\ UNCHANGED <<sockVars, conf, running>>

\* Putting previous_config back, file by file.
PutBack(to, onError) ==
  \/ conf' = Restored /\ to /\ UNCHANGED faults
  \/ /\ Fault("disk")
     /\ conf' \in {conf, [conf EXCEPT !["main.cf"] = Restored["main.cf"]]}
     /\ onError

\* Variant: the rollback returns without a response.
RestoreConfigSilently ==
  /\ phase = "restore"
  /\ conf' = Restored
  /\ phase' = "idle"
  /\ Forget
  /\ UNCHANGED <<sockVars, maps, running, faults>>

RestoreConfig ==
  /\ phase = "restore"
  /\ PutBack(Respond("failed"), Respond("error"))
  /\ UNCHANGED <<sockVars, maps, running>>

\* Best effort: the return code of `postfix stop` is ignored.
StopPostfix ==
  /\ phase = "stop"
  /\ \/ running' = NotRunning /\ Proceed("start") /\ UNCHANGED faults
     \/ UNCHANGED running /\ Proceed("start") /\ Fault("stop")
     \/ running' \in {running, NotRunning} /\ Respond("error") /\ Fault("slow")
  /\ UNCHANGED <<sockVars, conf, maps>>

StartPostfix ==
  /\ phase = "start"
  /\ running = NotRunning
  /\ \/ running' = conf /\ Respond("success") /\ UNCHANGED faults
     \/ running' \in {NotRunning, conf} /\ Respond("error") /\ Fault("slow")
  /\ UNCHANGED <<sockVars, conf, maps>>

\* `postfix start` also fails when the master is still there.
StartPostfixFails ==
  /\ phase = "start"
  /\ \/ running # NotRunning /\ UNCHANGED faults
     \/ running = NotRunning /\ Fault("start")
  /\ IF prev = NoPrevious THEN Respond("failed") ELSE Proceed("rollback")
  /\ UNCHANGED <<sockVars, liveVars>>

RollBack ==
  /\ phase = "rollback"
  /\ PutBack(Proceed("rollback_start"), Respond("error"))
  /\ UNCHANGED <<sockVars, maps, running>>

StartPrevious ==
  /\ phase = "rollback_start"
  /\ \/ /\ running = NotRunning
        /\ running' = conf
        /\ Respond("failed")
        /\ UNCHANGED faults
     \/ /\ \/ running # NotRunning /\ UNCHANGED faults
           \/ running = NotRunning /\ Fault("start")
        /\ UNCHANGED running
        /\ Respond("failed")
     \/ /\ Fault("slow")
        /\ running' \in {running, IF running = NotRunning THEN conf ELSE running}
        /\ Respond("error")
  /\ UNCHANGED <<sockVars, conf, maps>>

\* The container goes down with whatever the main loop was doing.
ServerGone ==
  /\ phase' = "down"
  /\ running' = NotRunning
  /\ queue' = <<>>
  /\ inbox' = [c \in Clients |-> IF inbox[c] = "waiting" THEN "error" ELSE inbox[c]]
  /\ Forget
  /\ UNCHANGED maps

\* sendall is outside the handler's try: to a client that has hung up it
\* raises BrokenPipeError, which ends the main loop.
Reply ==
  /\ phase = "reply"
  /\ \/ /\ cur.open
        /\ inbox' = [inbox EXCEPT ![cur.client] = answer.kind]
        /\ phase' = "idle"
        /\ Forget
        /\ UNCHANGED <<queue, running, maps>>
     \/ ~cur.open /\ ServerGone
  /\ UNCHANGED <<conf, faults>>

\* SIGTERM, a host reboot or a crash at any point; a replaced container
\* starts from the image's files, the maps are on a volume.
ContainerStops ==
  /\ phase # "down"
  /\ ServerGone
  /\ \/ /\ IF phase = "idle" THEN Fault("restart") ELSE Fault("halt")
        /\ \/ UNCHANGED conf
           \/ /\ phase = "install"
              /\ conf' = [conf EXCEPT !["main.cf"] = cur.req.conf["main.cf"]]
     \/ Fault("recreate") /\ conf' = ImageConf

Boot ==
  /\ phase = "down"
  /\ phase' = "idle"
  /\ UNCHANGED <<sockVars, jobVars, liveVars, faults>>

Handle ==
  \/ AnswerStatus \/ Validate \/ StageMaps \/ InstallConfig \/ ActivateMap
  \/ ActivateMapFails \/ RestoreConfig \/ StopPostfix \/ StartPostfix
  \/ StartPostfixFails \/ RollBack \/ StartPrevious

Server == (Accept \/ Handle \/ Reply \/ Boot) /\ UNCHANGED profile

\* The caller has read its answer and returns to its own work.
Return(c) ==
  /\ inbox[c] \notin {"quiet", "waiting"}
  /\ inbox' = [inbox EXCEPT ![c] = "quiet"]
  /\ UNCHANGED <<queue, phase, jobVars, liveVars, faults>>

Client(c) ==
  \/ \E req \in Requests \cup {StatusRequest} : Send(c, req)
  \/ GiveUp(c)
  \/ Return(c)

CSNext ==
  /\ Server \/ ContainerStops \/ \E c \in Clients : Client(c)
  /\ UNCHANGED profile

\* Spec: nothing is promised about clients; the server's loop goes on.
CSSpec == CSInit /\ [][CSNext]_csVars /\ WF_csVars(Server)

-----------------------------------------------------------------------------
(***************************************************************************)
(* Properties                                                              *)
(***************************************************************************)

\* A "success" answer is true when it is given, whatever failed, was slow or
\* stopped before: both files and every map are the request's, and where it
\* asked for a restart the running master was started with those files
\* (_apply_config's last return).
SuccessIsLive ==
  phase = "reply" /\ answer.kind = "success" =>
    /\ conf = cur.req.conf
    /\ \A m \in MapNames : maps[m] = MapText(cur.req, m)
    /\ cur.req.reload => running = conf

\* A "failed" answer leaves main.cf and master.cf as they were when the
\* request came in (a file that did not exist then has nothing to go back
\* to), and one given before the install leaves the maps alone too. The one
\* exception is an OSError inside _install_config, which is not rolled back.
FailureRestores ==
  phase = "reply" /\ answer.kind = "failed" =>
    /\ \/ answer.at = "install"
       \/ \A f \in Files : before.conf[f] \in {conf[f], NoFile}
    /\ answer.at \in {"validate", "stage", "install"} => maps = before.maps

\* "a newly granted sender is never authorized before it has a route"
\* (_activate_maps): whenever the live sender_login gains a sender, every
\* live routing map already has an entry for it, also after an earlier
\* request stopped half-way through its maps.
GrantedAfterRouted ==
  \A s \in maps'["sender_login"] \ maps["sender_login"] :
    \A m \in MapNames : s \in maps'[m]
GrantOrder == [][GrantedAfterRouted]_csVars

\* Every call comes back to its client, with an answer or an error: no
\* failure path of a handler leaves a client or the queue behind it stuck.
AnswerEventually ==
  \A c \in Clients : inbox[c] = "waiting" ~> inbox[c] # "waiting"

\* "a survivable per-request failure, not a crash" (_handle_connection): the
\* server outlives every request (Checked where nothing stops the container
\* from outside).
StaysUp == phase # "down"

\* "A failure at this stage restores the previous main.cf/master.cf"
\* (architecture.md, section 5, of the stage that installs the maps).
ActivationFailureRestores ==
  phase = "reply" /\ answer.at = "activate" /\ answer.kind # "success" =>
    conf = before.conf
=============================================================================
