------------------------ MODULE ConfigPipeline_proofs ------------------------
(***************************************************************************)
(* Proofs about ControlSurface, for any clients, senders, file contents,   *)
(* routing maps, backlog and faults, and about ConfigPipeline, whose       *)
(* generations are clients of it.                                          *)
(***************************************************************************)
EXTENDS ConfigPipeline, SequenceTheorems, TLAPS

-----------------------------------------------------------------------------
(***************************************************************************)
(* The order in which the maps are activated.                              *)
(***************************************************************************)

\* sender_login is the last of the maps and occurs nowhere before
\* (_activate_maps's sort key).
LEMMA MapOrderFacts ==
  /\ Len(MapOrder) \in Nat \ {0}
  /\ Len(MapOrder) = Len(RoutingMaps) + 1
  /\ MapOrder[Len(MapOrder)] = "sender_login"
  /\ \A i \in 1..Len(MapOrder) : i < Len(MapOrder) => MapOrder[i] # "sender_login"
  /\ \A i \in 1..Len(MapOrder) : MapOrder[i] \in MapNames
  /\ \A m \in MapNames : \E i \in 1..Len(MapOrder) : m = MapOrder[i]
<1> DEFINE Name == STRING \cup {"sender_login"}
<1>1. /\ RoutingMaps \in Seq(STRING)
      /\ \A i \in 1..Len(RoutingMaps) : RoutingMaps[i] # "sender_login"
  BY RoutingMapsAssumption
<1>2. /\ Len(Append(RoutingMaps, "sender_login")) = Len(RoutingMaps) + 1
      /\ \A i \in 1..Len(RoutingMaps) :
           Append(RoutingMaps, "sender_login")[i] = RoutingMaps[i]
      /\ Append(RoutingMaps, "sender_login")[Len(RoutingMaps) + 1] = "sender_login"
  <2>1. RoutingMaps \in Seq(Name)
    BY <1>1
  <2> QED BY <2>1, AppendProperties
<1>3. Len(RoutingMaps) \in Nat
  BY <1>1, LenProperties
<1>4. \A i \in 1..(Len(RoutingMaps) + 1) :
        i < Len(RoutingMaps) + 1 => i \in 1..Len(RoutingMaps)
  BY <1>3
<1> QED BY <1>1, <1>2, <1>3, <1>4 DEF MapOrder, MapNames

-----------------------------------------------------------------------------
(***************************************************************************)
(* Type correctness.                                                       *)
(***************************************************************************)

LEMMA MapTextType ==
  ASSUME NEW req \in ApplyRequest, NEW m
  PROVE  MapText(req, m) \in SUBSET Senders
BY DEF ApplyRequest, MapText

LEMMA WithMapType ==
  ASSUME CSTypeOK, phase = "activate"
  PROVE  WithMap(next) \in [MapNames -> SUBSET Senders]
<1>1. cur.req \in ApplyRequest
  BY DEF CSTypeOK
<1>2. MapText(cur.req, MapOrder[next]) \in SUBSET Senders
  BY <1>1, MapTextType
<1> QED BY <1>2 DEF WithMap, CSTypeOK

LEMMA RestoredType ==
  ASSUME CSTypeOK
  PROVE  /\ Restored \in Conf
         /\ [conf EXCEPT !["main.cf"] = Restored["main.cf"]] \in Conf
BY DEF CSTypeOK, Restored, Conf, Files

LEMMA ForgetType ==
  ASSUME Forget
  PROVE  /\ cur' = NoJob
         /\ answer' \in Answer
         /\ next' \in 1..Len(MapOrder)
         /\ prev' \in Conf
         /\ before' \in [conf : Conf, maps : [MapNames -> SUBSET Senders]]
<1>1. 1 \in 1..Len(MapOrder)
  BY MapOrderFacts
<1>2. NoPrevious \in Conf /\ EmptyMaps \in [MapNames -> SUBSET Senders]
  BY DEF NoPrevious, EmptyMaps, Conf
<1>3. NoAnswer \in Answer
  BY DEF NoAnswer, Answer, AnswerKinds, Phases
<1> QED BY <1>1, <1>2, <1>3 DEF Forget, NoHistory

LEMMA TypeInit == CSInit => CSTypeOK
<1> SUFFICES ASSUME CSInit PROVE CSTypeOK
  OBVIOUS
<1>1. queue \in Seq(Entry) /\ inbox \in [Clients -> InboxStates]
  BY DEF CSInit, InboxStates
<1>2. phase = "idle" /\ phase \in Phases /\ cur = NoJob
  BY DEF CSInit, Phases
<1>3. /\ answer \in Answer
      /\ next \in 1..Len(MapOrder)
      /\ prev \in Conf
      /\ before \in [conf : Conf, maps : [MapNames -> SUBSET Senders]]
      /\ maps \in [MapNames -> SUBSET Senders]
  <2>1. 1 \in 1..Len(MapOrder)
    BY MapOrderFacts
  <2> QED BY <2>1 DEF CSInit, NoAnswer, Answer, AnswerKinds, Phases,
                      NoPrevious, NoHistory, EmptyMaps, Conf
<1>4. conf \in Conf /\ running \in Conf \cup {NotRunning}
  BY ConfAssumption DEF CSInit
<1>5. profile \in Profiles /\ faults \in 0..profile.faults
  BY BoundAssumption DEF CSInit
<1> QED BY <1>1, <1>2, <1>3, <1>4, <1>5 DEF CSTypeOK

LEMMA FaultType ==
  ASSUME CSTypeOK, NEW kind, Fault(kind)
  PROVE  faults' \in 0..profile.faults
<1>1. profile.faults \in Nat
  BY BoundAssumption DEF CSTypeOK
<1> QED BY <1>1 DEF CSTypeOK, Fault

\* What Respond leaves behind is a job with a well-formed answer.
LEMMA RespondType ==
  ASSUME CSTypeOK, NEW kind \in AnswerKinds, Respond(kind),
         phase \notin {"idle", "down"}
  PROVE  /\ phase' = "reply" /\ phase' \in Phases
         /\ cur' \in Entry /\ cur' = cur
         /\ answer' \in Answer
         /\ next' \in 1..Len(MapOrder)
         /\ prev' \in Conf
         /\ before' \in [conf : Conf, maps : [MapNames -> SUBSET Senders]]
BY DEF Respond, CSTypeOK, Answer, Phases

LEMMA TypeClient ==
  ASSUME CSTypeOK, NEW c \in Clients, UNCHANGED profile
  PROVE  /\ \A req \in Request : Send(c, req) => CSTypeOK'
         /\ GiveUp(c) => CSTypeOK'
         /\ Return(c) => CSTypeOK'
<1>1. ASSUME NEW req \in Request, Send(c, req) PROVE CSTypeOK'
  <2>1. [client |-> c, req |-> req, open |-> TRUE] \in Entry
    BY DEF Entry
  <2>2. queue' \in Seq(Entry)
    <3>1. queue \in Seq(Entry)
      BY DEF CSTypeOK
    <3>2. CASE UNCHANGED queue
      BY <3>1, <3>2
    <3>3. CASE queue' = Append(queue, [client |-> c, req |-> req, open |-> TRUE])
      BY <3>1, <3>3, <2>1, AppendProperties
    <3> QED BY <1>1, <3>2, <3>3 DEF Send
  <2>3. inbox' \in [Clients -> InboxStates]
    BY <1>1 DEF Send, CSTypeOK, InboxStates, AnswerKinds
  <2> QED BY <1>1, <2>2, <2>3 DEF Send, CSTypeOK, jobVars, liveVars
<1>2. ASSUME GiveUp(c) PROVE CSTypeOK'
  <2>1. \A e \in Entry : Hangup(e, c) \in Entry /\ Hangup(e, c).req = e.req
    BY DEF Entry, Hangup
  <2>2. queue' \in Seq(Entry)
    <3>1. /\ Len(queue) \in Nat
          /\ \A i \in 1..Len(queue) : queue[i] \in Entry
      BY DEF CSTypeOK
    <3>2. \A i \in 1..Len(queue) : Hangup(queue[i], c) \in Entry
      BY <3>1, <2>1
    <3>3. queue' \in [1..Len(queue) -> Entry]
      BY <1>2, <3>2 DEF GiveUp
    <3> QED BY <3>1, <3>3
  <2>3. inbox' \in [Clients -> InboxStates]
    BY <1>2 DEF GiveUp, CSTypeOK, InboxStates, AnswerKinds
  <2>4. IF phase \in {"idle", "down"} THEN cur' = NoJob
        ELSE cur' \in Entry /\ cur'.req = cur.req
    BY <1>2, <2>1 DEF GiveUp, CSTypeOK
  <2>5. faults' \in 0..profile.faults
    BY <1>2, FaultType DEF GiveUp
  <2> QED BY <1>2, <2>2, <2>3, <2>4, <2>5 DEF GiveUp, CSTypeOK, liveVars
<1>3. ASSUME Return(c) PROVE CSTypeOK'
  BY <1>3 DEF Return, CSTypeOK, InboxStates, jobVars, liveVars
<1> QED BY <1>1, <1>2, <1>3

LEMMA TypeServerGone ==
  ASSUME CSTypeOK, ServerGone, conf' \in Conf, UNCHANGED profile,
         faults' \in 0..profile.faults
  PROVE  CSTypeOK'
<1>1. queue' \in Seq(Entry) /\ phase' = "down" /\ phase' \in Phases
  BY DEF ServerGone, Phases
<1>2. inbox' \in [Clients -> InboxStates]
  BY DEF ServerGone, CSTypeOK, InboxStates, AnswerKinds
<1>3. maps' = maps /\ running' = NotRunning
  BY DEF ServerGone
<1>4. Forget
  BY DEF ServerGone
<1> QED BY <1>1, <1>2, <1>3, <1>4, ForgetType DEF CSTypeOK

\* One step per command of the two handlers.
LEMMA TypeHandle ==
  ASSUME CSTypeOK, Handle, UNCHANGED profile
  PROVE  CSTypeOK'
<1> USE DEF sockVars, liveVars, jobVars, Proceed
<1> DEFINE Typed ==
      /\ faults' \in 0..profile.faults
      /\ conf' \in Conf
      /\ maps' \in [MapNames -> SUBSET Senders]
      /\ running' \in Conf \cup {NotRunning}
<1>0. faults \in 0..profile.faults /\ \A kind : Fault(kind) => faults' \in 0..profile.faults
  BY FaultType DEF CSTypeOK
<1>1. ASSUME UNCHANGED sockVars, Typed, phase \notin {"idle", "down"},
             \/ \E kind \in AnswerKinds : Respond(kind)
             \/ \E to \in Phases \ {"idle", "down", "status", "reply"} :
                  Proceed(to) /\ phase \notin {"status", "reply"}
      PROVE  CSTypeOK'
  <2>1. CASE \E kind \in AnswerKinds : Respond(kind)
    BY <1>1, <2>1, RespondType DEF CSTypeOK
  <2>2. CASE \E to \in Phases \ {"idle", "down", "status", "reply"} :
               Proceed(to) /\ phase \notin {"status", "reply"}
    BY <1>1, <2>2 DEF CSTypeOK
  <2> QED BY <1>1, <2>1, <2>2
<1> HIDE DEF Proceed
<1>2. CASE AnswerStatus
  BY <1>0, <1>1, <1>2 DEF AnswerStatus, AnswerKinds, CSTypeOK
<1>3. CASE Validate
  BY <1>0, <1>1, <1>3 DEF Validate, AnswerKinds, Phases, CSTypeOK
<1>4. CASE StageMaps
  BY <1>0, <1>1, <1>4 DEF StageMaps, AnswerKinds, Phases, CSTypeOK
<1>5. CASE InstallConfig
  <2>1. cur.req.conf \in Conf
    BY <1>5 DEF InstallConfig, CSTypeOK, ApplyRequest, Conf
  <2>2. CASE Fault("disk") /\ Respond("failed")
    BY <1>0, <1>1, <1>5, <2>1, <2>2 DEF InstallConfig, AnswerKinds, CSTypeOK, Conf, Files
  <2>3. CASE /\ conf' = cur.req.conf
             /\ prev' = conf
             /\ phase' = "activate"
             /\ UNCHANGED <<cur, answer, next, before, faults>>
    BY <1>5, <2>1, <2>3 DEF InstallConfig, CSTypeOK, Phases
  <2> QED BY <1>5, <2>2, <2>3 DEF InstallConfig
<1>6. CASE ActivateMap
  <2>1. maps' \in [MapNames -> SUBSET Senders]
    BY <1>6, WithMapType DEF ActivateMap
  <2>2. CASE /\ next < Len(MapOrder)
             /\ next' = next + 1
             /\ UNCHANGED <<phase, cur, answer, prev, before>>
    <3>1. next' \in 1..Len(MapOrder)
      BY <2>2, MapOrderFacts DEF CSTypeOK
    <3> QED BY <1>6, <2>1, <2>2, <3>1 DEF ActivateMap, CSTypeOK
  <2>3. CASE IF cur.req.reload THEN Proceed("stop") ELSE Respond("success")
    BY <1>0, <1>1, <1>6, <2>1, <2>3 DEF ActivateMap, AnswerKinds, Phases, CSTypeOK
  <2> QED BY <1>6, <2>2, <2>3 DEF ActivateMap
<1>7. CASE ActivateMapFails
  <2>1. maps' \in [MapNames -> SUBSET Senders]
    BY <1>7, WithMapType DEF ActivateMapFails, CSTypeOK
  <2> QED BY <1>0, <1>1, <1>7, <2>1 DEF ActivateMapFails, AnswerKinds, Phases, CSTypeOK
<1>8. CASE RestoreConfig
  BY <1>0, <1>1, <1>8, RestoredType DEF RestoreConfig, PutBack, AnswerKinds, CSTypeOK
<1>9. CASE StopPostfix
  BY <1>0, <1>1, <1>9 DEF StopPostfix, AnswerKinds, Phases, CSTypeOK
<1>10. CASE StartPostfix
  BY <1>0, <1>1, <1>10 DEF StartPostfix, AnswerKinds, CSTypeOK
<1>11. CASE StartPostfixFails
  BY <1>0, <1>1, <1>11 DEF StartPostfixFails, AnswerKinds, Phases, CSTypeOK
<1>12. CASE RollBack
  BY <1>0, <1>1, <1>12, RestoredType DEF RollBack, PutBack, AnswerKinds, Phases, CSTypeOK
<1>13. CASE StartPrevious
  BY <1>0, <1>1, <1>13 DEF StartPrevious, AnswerKinds, CSTypeOK
<1> QED BY <1>2, <1>3, <1>4, <1>5, <1>6, <1>7, <1>8, <1>9, <1>10, <1>11,
           <1>12, <1>13 DEF Handle

LEMMA TypeServer ==
  ASSUME CSTypeOK, Server
  PROVE  CSTypeOK'
<1>1. CASE Accept
  <2>1. /\ Head(queue) \in Entry
        /\ queue' \in Seq(Entry)
    BY <1>1, HeadTailProperties DEF Accept, CSTypeOK
  <2>2. Head(queue).req.op # "status" => Head(queue).req \in ApplyRequest
    BY <2>1 DEF Entry, Request, StatusRequest
  <2>3. before' \in [conf : Conf, maps : [MapNames -> SUBSET Senders]]
    BY <1>1 DEF Accept, CSTypeOK
  <2> QED BY <1>1, <2>1, <2>2, <2>3 DEF Accept, Server, CSTypeOK, Phases, liveVars
<1>2. CASE Handle
  BY <1>2, TypeHandle DEF Server
<1>3. CASE Reply
  <2>1. CASE ~cur.open /\ ServerGone
    BY <1>3, <2>1, TypeServerGone DEF Reply, Server, CSTypeOK
  <2>2. CASE /\ cur.open
             /\ inbox' = [inbox EXCEPT ![cur.client] = answer.kind]
             /\ phase' = "idle"
             /\ Forget
             /\ UNCHANGED <<queue, running, maps>>
    <3>1. inbox' \in [Clients -> InboxStates]
      BY <2>2 DEF CSTypeOK, InboxStates, Answer
    <3> QED BY <1>3, <2>2, <3>1, ForgetType DEF Reply, Server, CSTypeOK, Phases
  <2> QED BY <1>3, <2>1, <2>2 DEF Reply
<1>4. CASE Boot
  BY <1>4 DEF Boot, Server, CSTypeOK, Phases, sockVars, jobVars, liveVars
<1> QED BY <1>1, <1>2, <1>3, <1>4 DEF Server

LEMMA TypeContainerStops ==
  ASSUME CSTypeOK, ContainerStops, UNCHANGED profile
  PROVE  CSTypeOK'
<1>1. faults' \in 0..profile.faults
  BY FaultType DEF ContainerStops
<1>2. conf' \in Conf
  <2>1. phase = "install" =>
          [conf EXCEPT !["main.cf"] = cur.req.conf["main.cf"]] \in Conf
    BY DEF CSTypeOK, ApplyRequest, Conf, Files
  <2> QED BY <2>1, ConfAssumption DEF ContainerStops, CSTypeOK
<1> QED BY <1>1, <1>2, TypeServerGone DEF ContainerStops

\* Every variable keeps its type, whatever clients, server and faults do.
THEOREM SurfaceTypeCorrect == CSSpec => []CSTypeOK
<1>1. CSInit => CSTypeOK
  BY TypeInit
<1>2. CSTypeOK /\ [CSNext]_csVars => CSTypeOK'
  <2> SUFFICES ASSUME CSTypeOK, [CSNext]_csVars PROVE CSTypeOK'
    OBVIOUS
  <2>1. CASE Server
    BY <2>1, TypeServer
  <2>2. CASE ContainerStops /\ UNCHANGED profile
    BY <2>2, TypeContainerStops
  <2>3. ASSUME NEW c \in Clients, Client(c), UNCHANGED profile PROVE CSTypeOK'
    <3>1. Requests \cup {StatusRequest} \subseteq Request
      BY RequestAssumption DEF Request
    <3> QED BY <2>3, <3>1, TypeClient DEF Client
  <2>4. CASE UNCHANGED csVars
    BY <2>4 DEF csVars, jobVars, liveVars, CSTypeOK
  <2> QED BY <2>1, <2>2, <2>3, <2>4 DEF CSNext
<1> QED BY <1>1, <1>2, PTL DEF CSSpec

-----------------------------------------------------------------------------
(***************************************************************************)
(* The inductive invariant: what a handler has done so far.                *)
(***************************************************************************)

\* Nothing has been installed yet, and there is nothing to roll back to.
Untouched == conf = before.conf /\ maps = before.maps /\ prev = NoPrevious /\ next = 1
\* Both files are the request's, and previous_config is what was there.
Installed == conf = cur.req.conf /\ prev = before.conf
\* The maps before the n-th have been activated.
Activated(n) ==
  \A i \in 1..Len(MapOrder) :
    i < n => maps[MapOrder[i]] = MapText(cur.req, MapOrder[i])
AllActivated == \A m \in MapNames : maps[m] = MapText(cur.req, m)
\* What a rollback restores: every file there was a previous version of.
PutBackConf == \A f \in Files : before.conf[f] \in {conf[f], NoFile}

JobInv ==
  /\ phase \in {"idle", "down"} => next = 1 /\ prev = NoPrevious
  /\ phase \in {"status", "validate", "stage", "install"} => Untouched
  /\ phase \in {"activate", "restore", "stop", "start", "rollback"} => Installed
  /\ phase = "activate" => Activated(next)
  /\ phase \in {"stop", "start"} => AllActivated
  /\ phase = "rollback_start" => PutBackConf

\* Every request on the socket, or in the handler, is one a client sends.
RequestInv ==
  /\ \A i \in 1..Len(queue) : queue[i].req \in Requests \cup {StatusRequest}
  /\ phase \notin {"idle", "down"} => cur.req \in Requests \cup {StatusRequest}

IInv == CSTypeOK /\ JobInv /\ SuccessIsLive /\ FailureRestores

JobSafe == JobInv /\ SuccessIsLive /\ FailureRestores

LEMMA SafeInit == CSInit => JobSafe
BY DEF CSInit, JobSafe, JobInv, SuccessIsLive, FailureRestores

\* What clients do touches neither the job nor the installed files.
LEMMA SafeClient ==
  ASSUME IInv, NEW c \in Clients,
         \/ \E req \in Request : Send(c, req)
         \/ GiveUp(c)
         \/ Return(c)
         \/ UNCHANGED csVars
  PROVE  JobSafe'
<1>1. /\ UNCHANGED <<phase, answer, next, prev, before, conf, maps, running>>
      /\ phase \in {"idle", "down"} \/ cur'.req = cur.req
  <2>1. CASE GiveUp(c)
    <3>1. phase \in {"idle", "down"} \/ cur \in Entry
      BY DEF IInv, CSTypeOK
    <3>2. \A e \in Entry : Hangup(e, c).req = e.req
      BY DEF Entry, Hangup
    <3> QED BY <2>1, <3>1, <3>2 DEF GiveUp, liveVars
  <2>2. CASE UNCHANGED csVars
    BY <2>2 DEF csVars, jobVars, liveVars
  <2> QED BY <2>1, <2>2 DEF Send, Return, jobVars, liveVars
<1>2. JobInv'
  BY <1>1 DEF IInv, JobInv, Untouched, Installed, Activated, AllActivated,
              PutBackConf, MapText
<1>3. SuccessIsLive' /\ FailureRestores'
  BY <1>1 DEF IInv, SuccessIsLive, FailureRestores, MapText
<1> QED BY <1>2, <1>3 DEF JobSafe

\* A handler that has given up what it knew.
LEMMA SafeForget ==
  ASSUME Forget, phase' \in {"idle", "down"}
  PROVE  JobSafe'
BY DEF Forget, JobSafe, JobInv, SuccessIsLive, FailureRestores

LEMMA RestoredIsBefore ==
  ASSUME CSTypeOK, Installed, conf' = Restored, UNCHANGED before
  PROVE  PutBackConf'
BY DEF CSTypeOK, Installed, Restored, PutBackConf, Conf

\* An answer that promises nothing about the files.
LEMMA SafeError ==
  ASSUME Respond("error")
  PROVE  JobSafe'
BY DEF Respond, JobSafe, JobInv, SuccessIsLive, FailureRestores

LEMMA ActivatedStep ==
  ASSUME IInv, phase = "activate", maps' = WithMap(next), UNCHANGED <<cur>>
  PROVE  /\ \A i \in 1..Len(MapOrder) :
              i < next + 1 => maps'[MapOrder[i]] = MapText(cur.req, MapOrder[i])
         /\ next = Len(MapOrder) => AllActivated'
<1>1. /\ next \in 1..Len(MapOrder) /\ Len(MapOrder) \in Nat
      /\ maps \in [MapNames -> SUBSET Senders]
      /\ Activated(next)
  BY MapOrderFacts DEF IInv, CSTypeOK, JobInv
<1>2. \A i \in 1..Len(MapOrder) :
        i < next + 1 => maps'[MapOrder[i]] = MapText(cur.req, MapOrder[i])
  <2> SUFFICES ASSUME NEW i \in 1..Len(MapOrder), i < next + 1
               PROVE  maps'[MapOrder[i]] = MapText(cur.req, MapOrder[i])
    OBVIOUS
  <2>1. MapOrder[i] \in MapNames
    BY MapOrderFacts
  <2>2. CASE MapOrder[i] = MapOrder[next]
    BY <1>1, <2>1, <2>2 DEF WithMap
  <2>3. CASE MapOrder[i] # MapOrder[next]
    <3>1. i < next
      BY <1>1, <2>3
    <3> QED BY <1>1, <2>1, <2>3, <3>1 DEF WithMap, Activated
  <2> QED BY <2>2, <2>3
<1>3. ASSUME next = Len(MapOrder) PROVE AllActivated'
  <2>1. \A i \in 1..Len(MapOrder) : maps'[MapOrder[i]] = MapText(cur.req, MapOrder[i])
    BY <1>1, <1>2, <1>3
  <2> QED BY <2>1, MapOrderFacts DEF AllActivated
<1> QED BY <1>2, <1>3

\* One step per command of the two handlers; an answer is judged at the
\* command that gives it.
LEMMA SafeHandle ==
  ASSUME IInv, Handle
  PROVE  JobSafe'
<1> USE DEF sockVars, liveVars, jobVars
<1>1. CASE AnswerStatus
  BY <1>1, SafeError DEF AnswerStatus, Respond, JobSafe, JobInv, SuccessIsLive, FailureRestores
<1>2. CASE Validate
  <2>1. CASE Proceed("stage") /\ UNCHANGED <<sockVars, liveVars>>
    BY <1>2, <2>1 DEF Validate, Proceed, IInv, JobSafe, JobInv, Untouched,
                      SuccessIsLive, FailureRestores
  <2>2. CASE Respond("failed") /\ UNCHANGED <<sockVars, liveVars>>
    BY <1>2, <2>2 DEF Validate, Respond, IInv, JobSafe, JobInv, Untouched,
                      SuccessIsLive, FailureRestores
  <2> QED BY <1>2, <2>1, <2>2, SafeError DEF Validate
<1>3. CASE StageMaps
  <2>1. CASE Proceed("install") /\ UNCHANGED <<sockVars, liveVars>>
    BY <1>3, <2>1 DEF StageMaps, Proceed, IInv, JobSafe, JobInv, Untouched,
                      SuccessIsLive, FailureRestores
  <2>2. CASE Respond("failed") /\ UNCHANGED <<sockVars, liveVars>>
    BY <1>3, <2>2 DEF StageMaps, Respond, IInv, JobSafe, JobInv, Untouched,
                      SuccessIsLive, FailureRestores
  <2> QED BY <1>3, <2>1, <2>2, SafeError DEF StageMaps
<1>4. CASE InstallConfig
  <2>1. CASE /\ conf' = cur.req.conf
             /\ prev' = conf
             /\ phase' = "activate"
             /\ UNCHANGED <<cur, answer, next, before, faults>>
    <3>1. next' = 1 /\ Installed'
      BY <1>4, <2>1 DEF InstallConfig, IInv, JobInv, Untouched, Installed
    <3>2. Activated(next)'
      BY <3>1 DEF Activated
    <3> QED BY <2>1, <3>1, <3>2 DEF JobSafe, JobInv, SuccessIsLive, FailureRestores
  <2>2. CASE Respond("failed") /\ UNCHANGED maps
    BY <1>4, <2>2 DEF InstallConfig, Respond, IInv, JobSafe, JobInv, Untouched,
                      SuccessIsLive, FailureRestores
  <2> QED BY <1>4, <2>1, <2>2 DEF InstallConfig
<1>5. CASE ActivateMap
  <2>1. UNCHANGED <<cur, conf, running, prev, before>> /\ phase = "activate" /\ Installed
    BY <1>5 DEF ActivateMap, Proceed, Respond, IInv, JobInv
  <2>2. CASE next' = next + 1 /\ UNCHANGED <<phase, answer>>
    <3>1. Activated(next)' /\ Installed'
      BY <1>5, <2>1, <2>2, ActivatedStep DEF ActivateMap, Activated, Installed
    <3> QED BY <2>1, <2>2, <3>1 DEF JobSafe, JobInv, SuccessIsLive, FailureRestores
  <2>3. CASE /\ next = Len(MapOrder)
             /\ IF cur.req.reload THEN Proceed("stop") ELSE Respond("success")
    <3>1. AllActivated'
      BY <1>5, <2>1, <2>3, ActivatedStep DEF ActivateMap
    <3> QED BY <2>1, <2>3, <3>1 DEF Proceed, Respond, JobSafe, JobInv, Installed,
                                    AllActivated, SuccessIsLive, FailureRestores
  <2> QED BY <1>5, <2>2, <2>3 DEF ActivateMap
<1>6. CASE ActivateMapFails
  <2>1. CASE Proceed("restore")
    BY <1>6, <2>1 DEF ActivateMapFails, Proceed, IInv, JobSafe, JobInv, Installed,
                      SuccessIsLive, FailureRestores
  <2> QED BY <1>6, <2>1, SafeError DEF ActivateMapFails
<1>7. CASE RestoreConfig
  <2>1. CASE conf' = Restored /\ Respond("failed")
    <3>1. PutBackConf'
      BY <1>7, <2>1, RestoredIsBefore DEF RestoreConfig, Respond, IInv, JobInv
    <3> QED BY <1>7, <2>1, <3>1 DEF RestoreConfig, Respond, JobSafe, JobInv, PutBackConf,
                                    SuccessIsLive, FailureRestores
  <2> QED BY <1>7, <2>1, SafeError DEF RestoreConfig, PutBack
<1>8. CASE StopPostfix
  <2>1. CASE Proceed("start")
    BY <1>8, <2>1 DEF StopPostfix, Proceed, IInv, JobSafe, JobInv, Installed, AllActivated,
                      SuccessIsLive, FailureRestores
  <2> QED BY <1>8, <2>1, SafeError DEF StopPostfix
<1>9. CASE StartPostfix
  <2>1. CASE running' = conf /\ Respond("success")
    BY <1>9, <2>1 DEF StartPostfix, Respond, IInv, JobSafe, JobInv, Installed, AllActivated,
                      SuccessIsLive, FailureRestores
  <2> QED BY <1>9, <2>1, SafeError DEF StartPostfix
<1>10. CASE StartPostfixFails
  <2>1. CASE prev = NoPrevious /\ Respond("failed")
    <3>1. \A f \in Files : before.conf[f] = NoFile
      BY <1>10, <2>1 DEF StartPostfixFails, IInv, JobInv, Installed, NoPrevious
    <3> QED BY <1>10, <2>1, <3>1 DEF StartPostfixFails, Respond, JobSafe, JobInv,
                                     SuccessIsLive, FailureRestores
  <2>2. CASE Proceed("rollback")
    BY <1>10, <2>2 DEF StartPostfixFails, Proceed, IInv, JobSafe, JobInv, Installed,
                       SuccessIsLive, FailureRestores
  <2> QED BY <1>10, <2>1, <2>2 DEF StartPostfixFails
<1>11. CASE RollBack
  <2>1. CASE conf' = Restored /\ Proceed("rollback_start")
    <3>1. PutBackConf'
      BY <1>11, <2>1, RestoredIsBefore DEF RollBack, Proceed, IInv, JobInv
    <3> QED BY <1>11, <2>1, <3>1 DEF RollBack, Proceed, JobSafe, JobInv,
                                     SuccessIsLive, FailureRestores
  <2> QED BY <1>11, <2>1, SafeError DEF RollBack, PutBack
<1>12. CASE StartPrevious
  <2>1. CASE Respond("failed")
    BY <1>12, <2>1 DEF StartPrevious, Respond, IInv, JobSafe, JobInv, PutBackConf,
                       SuccessIsLive, FailureRestores
  <2> QED BY <1>12, <2>1, SafeError DEF StartPrevious
<1> QED BY <1>1, <1>2, <1>3, <1>4, <1>5, <1>6, <1>7, <1>8, <1>9, <1>10, <1>11,
           <1>12 DEF Handle

LEMMA SafeServer ==
  ASSUME IInv, Server
  PROVE  JobSafe'
<1>1. CASE Accept
  BY <1>1 DEF Accept, liveVars, IInv, JobSafe, JobInv, Untouched,
              SuccessIsLive, FailureRestores
<1>2. CASE Handle
  BY <1>2, SafeHandle
<1>3. CASE Reply
  BY <1>3, SafeForget DEF Reply, ServerGone
<1>4. CASE Boot
  BY <1>4 DEF Boot, jobVars, IInv, JobSafe, JobInv, SuccessIsLive, FailureRestores
<1> QED BY <1>1, <1>2, <1>3, <1>4 DEF Server

\* The invariant is inductive.
LEMMA Invariant == CSSpec => []IInv
<1>1. CSInit => IInv
  BY TypeInit, SafeInit DEF IInv, JobSafe
<1>2. IInv /\ CSTypeOK' /\ [CSNext]_csVars => IInv'
  <2> SUFFICES ASSUME IInv, CSTypeOK', [CSNext]_csVars PROVE JobSafe'
    BY DEF IInv, JobSafe
  <2>1. CASE Server
    BY <2>1, SafeServer
  <2>2. CASE ContainerStops
    BY <2>2, SafeForget DEF ContainerStops, ServerGone
  <2>3. ASSUME NEW c \in Clients, Client(c) PROVE JobSafe'
    <3>1. Requests \cup {StatusRequest} \subseteq Request
      BY RequestAssumption DEF Request
    <3> QED BY <2>3, <3>1, SafeClient DEF Client
  <2>4. CASE UNCHANGED csVars
    <3>1. UNCHANGED <<phase, cur, answer, next, prev, before, conf, maps, running>>
      BY <2>4 DEF csVars, jobVars, liveVars
    <3> QED BY <3>1 DEF IInv, JobSafe, JobInv, Untouched, Installed, Activated,
                        AllActivated, PutBackConf, SuccessIsLive, FailureRestores, MapText
  <2> QED BY <2>1, <2>2, <2>3, <2>4 DEF CSNext
<1> QED BY <1>1, <1>2, SurfaceTypeCorrect, PTL DEF CSSpec

\* A "success" answer is true when it is given (_apply_config), for any number
\* of clients, maps and faults.
THEOREM SuccessesAreLive == CSSpec => []SuccessIsLive
BY Invariant, PTL DEF IInv

\* A "failed" answer leaves main.cf and master.cf as they were, an error
\* inside _install_config apart, and the maps too when nothing was installed.
THEOREM FailuresRestore == CSSpec => []FailureRestores
BY Invariant, PTL DEF IInv

-----------------------------------------------------------------------------
(***************************************************************************)
(* Grants come after routes.                                               *)
(***************************************************************************)

LEMMA RequestsKept ==
  ASSUME CSTypeOK, RequestInv, [CSNext]_csVars
  PROVE  RequestInv'
<1> DEFINE Sent == Requests \cup {StatusRequest}
<1>1. /\ Len(queue) \in Nat
      /\ \A i \in 1..Len(queue) : queue[i].req \in Sent
      /\ \A i \in 1..Len(queue) : queue[i] \in Entry
      /\ phase \notin {"idle", "down"} => cur.req \in Sent /\ cur \in Entry
  BY DEF CSTypeOK, RequestInv
<1>2. ASSUME NEW c \in Clients, Client(c) PROVE RequestInv'
  <2>1. CASE \E req \in Sent : Send(c, req)
    <3>1. PICK req \in Sent : Send(c, req)
      BY <2>1
    <3>2. UNCHANGED <<phase, cur>>
      BY <3>1 DEF Send, jobVars
    <3>3. CASE UNCHANGED queue
      BY <1>1, <3>2, <3>3 DEF RequestInv
    <3>4. CASE queue' = Append(queue, [client |-> c, req |-> req, open |-> TRUE])
      <4> DEFINE e == [client |-> c, req |-> req, open |-> TRUE]
      <4>1. e \in Entry /\ queue \in Seq(Entry)
        BY RequestAssumption DEF Entry, Request, CSTypeOK
      <4>2. /\ Len(queue') = Len(queue) + 1
            /\ \A i \in 1..Len(queue) : queue'[i] = queue[i]
            /\ queue'[Len(queue) + 1] = e
        BY <3>4, <4>1, AppendProperties
      <4>3. e.req = req
        OBVIOUS
      <4> QED BY <1>1, <3>2, <4>2, <4>3 DEF RequestInv
    <3> QED BY <3>1, <3>3, <3>4 DEF Send
  <2>2. CASE GiveUp(c)
    <3>1. \A e \in Entry : Hangup(e, c).req = e.req
      BY DEF Entry, Hangup
    <3>2. /\ Len(queue') = Len(queue)
          /\ \A i \in 1..Len(queue) : queue'[i] = Hangup(queue[i], c)
      BY <1>1, <2>2 DEF GiveUp
    <3>3. phase' = phase /\ (phase \notin {"idle", "down"} => cur'.req = cur.req)
      BY <1>1, <2>2, <3>1 DEF GiveUp
    <3> QED BY <1>1, <3>1, <3>2, <3>3 DEF RequestInv
  <2>3. CASE Return(c)
    BY <1>1, <2>3 DEF Return, jobVars, RequestInv
  <2> QED BY <1>2, <2>1, <2>2, <2>3 DEF Client
<1>3. ASSUME queue' = <<>>, phase' \in {"idle", "down"} PROVE RequestInv'
  BY <1>3 DEF RequestInv
<1>4. CASE Accept
  <2>1. /\ Len(Tail(queue)) = Len(queue) - 1
        /\ \A i \in 1..Len(Tail(queue)) : Tail(queue)[i] = queue[i + 1]
    BY <1>4, HeadTailProperties DEF Accept, CSTypeOK
  <2>2. Len(queue) > 0 /\ Head(queue) = queue[1]
    BY <1>4, EmptySeq DEF Accept, CSTypeOK
  <2> QED BY <1>1, <1>4, <2>1, <2>2 DEF Accept, RequestInv
<1>5. CASE Handle
  <2>1. UNCHANGED queue
    BY <1>5 DEF Handle, AnswerStatus, Validate, StageMaps, InstallConfig, ActivateMap,
         ActivateMapFails, RestoreConfig, StopPostfix, StartPostfix, StartPostfixFails,
         RollBack, StartPrevious, sockVars
  <2>2. UNCHANGED cur /\ phase \notin {"idle", "down"}
    BY <1>5 DEF Handle, AnswerStatus, Validate, StageMaps, InstallConfig, ActivateMap,
         ActivateMapFails, RestoreConfig, StopPostfix, StartPostfix, StartPostfixFails,
         RollBack, StartPrevious, PutBack, Respond, Proceed, jobVars
  <2> QED BY <1>1, <2>1, <2>2 DEF RequestInv
<1>6. CASE Reply
  BY <1>1, <1>3, <1>6 DEF Reply, ServerGone, RequestInv
<1>7. CASE Boot \/ UNCHANGED csVars
  BY <1>1, <1>7 DEF Boot, csVars, sockVars, jobVars, RequestInv
<1>8. CASE ContainerStops
  BY <1>3, <1>8 DEF ContainerStops, ServerGone
<1> QED BY <1>2, <1>4, <1>5, <1>6, <1>7, <1>8 DEF CSNext, Server

\* Only the activation of a map changes one.
LEMMA GrantStep ==
  ASSUME IInv, RequestInv, phase = "activate", maps' = WithMap(next)
  PROVE  GrantedAfterRouted
<1>1. /\ next \in 1..Len(MapOrder) /\ Len(MapOrder) \in Nat
      /\ maps \in [MapNames -> SUBSET Senders]
      /\ Activated(next)
      /\ cur.req \in ApplyRequest
  BY MapOrderFacts DEF IInv, CSTypeOK, JobInv
<1>2. cur.req.login \subseteq cur.req.route
  <2>1. cur.req \in Requests \cup {StatusRequest} /\ cur.req.op = "apply_config"
    BY <1>1 DEF RequestInv, ApplyRequest
  <2> QED BY <2>1, RequestAssumption DEF StatusRequest
<1>3. CASE next < Len(MapOrder)
  <2>1. MapOrder[next] # "sender_login"
    BY <1>1, <1>3, MapOrderFacts
  <2>2. maps'["sender_login"] = maps["sender_login"]
    BY <1>1, <2>1, MapOrderFacts DEF WithMap
  <2> QED BY <2>2 DEF GrantedAfterRouted
<1>4. CASE next = Len(MapOrder)
  <2> SUFFICES ASSUME NEW s \in maps'["sender_login"], NEW m \in MapNames
               PROVE  s \in maps'[m]
    BY DEF GrantedAfterRouted
  <2>1. MapOrder[next] = "sender_login" /\ "sender_login" \in MapNames
    BY <1>1, <1>4, MapOrderFacts
  <2>2. s \in cur.req.login /\ s \in cur.req.route
    BY <1>1, <1>2, <2>1 DEF WithMap, MapText
  <2>3. PICK i \in 1..Len(MapOrder) : m = MapOrder[i]
    BY MapOrderFacts
  <2>4. CASE m = "sender_login"
    BY <2>4
  <2>5. CASE m # "sender_login"
    <3>1. i < next
      BY <1>1, <1>4, <2>1, <2>3, <2>5
    <3>2. maps'[m] = maps[m] /\ maps[m] = cur.req.route
      BY <1>1, <2>1, <2>3, <2>5, <3>1 DEF WithMap, Activated, MapText
    <3> QED BY <2>2, <3>2
  <2> QED BY <2>4, <2>5
<1> QED BY <1>1, <1>3, <1>4

\* A sender is granted only once every routing map has a route for it
\* (_activate_maps), whatever was left behind by earlier requests.
THEOREM GrantsFollowRoutes == CSSpec => GrantOrder
<1>1. CSInit => RequestInv
  BY DEF CSInit, RequestInv
<1>2. CSTypeOK /\ RequestInv /\ [CSNext]_csVars => RequestInv'
  BY RequestsKept
<1>3. IInv /\ RequestInv /\ [CSNext]_csVars => [GrantedAfterRouted]_csVars
  <2> SUFFICES ASSUME IInv, RequestInv, CSNext PROVE GrantedAfterRouted
    OBVIOUS
  <2>1. CASE UNCHANGED maps
    BY <2>1 DEF GrantedAfterRouted
  <2>2. CASE phase = "activate" /\ maps' = WithMap(next)
    BY <2>2, GrantStep
  <2>3. UNCHANGED maps \/ (phase = "activate" /\ maps' = WithMap(next))
    <3>1. ASSUME NEW c \in Clients, Client(c) PROVE UNCHANGED maps
      BY <3>1 DEF Client, Send, GiveUp, Return, liveVars
    <3>2. CASE Handle
      BY <3>2 DEF Handle, AnswerStatus, Validate, StageMaps, InstallConfig, ActivateMap,
         ActivateMapFails, RestoreConfig, StopPostfix, StartPostfix, StartPostfixFails,
         RollBack, StartPrevious, liveVars
    <3>3. CASE Accept \/ Reply \/ Boot \/ ContainerStops
      BY <3>3 DEF Accept, Reply, Boot, ContainerStops, ServerGone, liveVars
    <3> QED BY <3>1, <3>2, <3>3 DEF CSNext, Server
  <2> QED BY <2>1, <2>2, <2>3
<1> QED BY <1>1, <1>2, <1>3, SurfaceTypeCorrect, Invariant, PTL DEF CSSpec, GrantOrder

-----------------------------------------------------------------------------
(***************************************************************************)
(* ConfigPipeline: types, and what the handlers promise its generations.   *)
(***************************************************************************)

\* A generation has rendered files from the moment it has begun.
GenTyped ==
  \A c \in Clients : gen[c].step # "idle" => gen[c].conf \in [Files -> Texts]

AppTypeOK ==
  /\ db \in [master : Masters, state : [Senders -> SenderStates]]
  /\ lastGood \in Rows \cup {NoRow}
  /\ lastResult \in {"none", "pass", "fail"}
  /\ gen \in [Clients -> [step : Steps, conf : Conf, login : SUBSET Senders,
                          route : SUBSET Senders, reload : BOOLEAN]]
  /\ edits \in 0..profile.edits

\* IInv of the control surface, and the types of the application's state.
PInv == IInv /\ AppTypeOK /\ GenTyped

LEMMA RenderConfType ==
  ASSUME db \in [master : Masters, state : [Senders -> SenderStates]]
  PROVE  RenderConf(db) \in [Files -> Texts] /\ RenderConf(db) \in Conf
<1>1. db.master \in Texts /\ Settings \in Texts
  BY PipelineAssumption
<1> QED BY <1>1 DEF RenderConf, Conf

LEMMA PayloadType ==
  ASSUME PInv, NEW c \in Clients, gen[c].step # "idle"
  PROVE  /\ Payload(gen[c]) \in ApplyRequest
         /\ Payload(gen[c]) \in Request
<1>1. gen[c].conf \in [Files -> Texts]
  BY DEF PInv, GenTyped
<1>2. /\ gen[c].login \in SUBSET Senders
      /\ gen[c].route \in SUBSET Senders
      /\ gen[c].reload \in BOOLEAN
  BY DEF PInv, AppTypeOK
<1>3. Payload(gen[c]) \in ApplyRequest
  BY <1>1, <1>2, Zenon DEF Payload, ApplyRequest
<1> QED BY <1>3 DEF Request

\* Each generation's step changes gen[c] alone, and keeps it well-formed.
LEMMA GenStep ==
  ASSUME PInv, NEW c \in Clients,
         NEW g \in [step : Steps, conf : Conf, login : SUBSET Senders,
                    route : SUBSET Senders, reload : BOOLEAN],
         g.step # "idle" => g.conf \in [Files -> Texts],
         gen' = [gen EXCEPT ![c] = g],
         UNCHANGED <<db, edits, profile>>,
         lastGood' \in Rows \cup {NoRow},
         lastResult' \in {"none", "pass", "fail"}
  PROVE  AppTypeOK' /\ GenTyped'
BY DEF PInv, AppTypeOK, GenTyped

LEMMA IdleType ==
  Idle \in [step : Steps, conf : Conf, login : SUBSET Senders,
            route : SUBSET Senders, reload : BOOLEAN]
<1>1. NoPrevious \in Conf
  BY DEF NoPrevious, Conf
<1>2. "idle" \in Steps /\ {} \in SUBSET Senders /\ TRUE \in BOOLEAN
  BY DEF Steps
<1> QED BY <1>1, <1>2, Zenon DEF Idle

\* What the control surface keeps through each kind of step of the pipeline.
LEMMA SurfaceKept ==
  ASSUME PInv, UNCHANGED profile,
         \/ Server
         \/ ContainerStops
         \/ \E c \in Clients : GiveUp(c) \/ Return(c)
         \/ \E c \in Clients, req \in Request : Send(c, req)
         \/ UNCHANGED csVars
  PROVE  IInv'
<1>1. IInv
  BY DEF PInv
<1>2. CSTypeOK
  BY <1>1 DEF IInv
<1>3. CASE Server
  BY <1>1, <1>2, <1>3, TypeServer, SafeServer DEF IInv, JobSafe
<1>4. CASE ContainerStops
  <2>1. CSTypeOK'
    BY <1>2, <1>4, TypeContainerStops
  <2>2. JobSafe'
    BY <1>4, SafeForget DEF ContainerStops, ServerGone
  <2> QED BY <2>1, <2>2 DEF IInv, JobSafe
<1>5. ASSUME NEW c \in Clients, GiveUp(c) \/ Return(c) PROVE IInv'
  <2>1. CSTypeOK'
    BY <1>2, <1>5, TypeClient
  <2>2. JobSafe'
    BY <1>1, <1>5, SafeClient
  <2> QED BY <2>1, <2>2 DEF IInv, JobSafe
<1>6. ASSUME NEW c \in Clients, NEW req \in Request, Send(c, req) PROVE IInv'
  <2>1. CSTypeOK'
    BY <1>2, <1>6, TypeClient
  <2>2. JobSafe'
    BY <1>1, <1>6, SafeClient
  <2> QED BY <2>1, <2>2 DEF IInv, JobSafe
<1>7. CASE UNCHANGED csVars
  <2>1. UNCHANGED <<queue, inbox, phase, cur, answer, next, prev, before, conf,
                    maps, running, profile, faults>>
    BY <1>7 DEF csVars, jobVars, liveVars
  <2>2. CSTypeOK'
    BY <1>2, <2>1 DEF CSTypeOK
  <2>3. JobSafe'
    BY <1>1, <2>1 DEF IInv, JobSafe, JobInv, Untouched, Installed, Activated,
         AllActivated, PutBackConf, SuccessIsLive, FailureRestores, MapText
  <2> QED BY <2>2, <2>3 DEF IInv, JobSafe
<1> QED BY <1>3, <1>4, <1>5, <1>6, <1>7

\* One step per action of the pipeline.
LEMMA PInvStep ==
  ASSUME PInv, [Next]_vars
  PROVE  PInv'
<1> DEFINE Gens == [step : Steps, conf : Conf, login : SUBSET Senders,
                    route : SUBSET Senders, reload : BOOLEAN]
<1>1. /\ db \in [master : Masters, state : [Senders -> SenderStates]]
      /\ lastGood \in Rows \cup {NoRow}
      /\ lastResult \in {"none", "pass", "fail"}
      /\ gen \in [Clients -> Gens]
      /\ edits \in 0..profile.edits
      /\ GenTyped
  BY DEF PInv, AppTypeOK
<1>2. UNCHANGED profile
  BY DEF Next, vars, csVars
<1>3. CASE Edit
  <2>1. IInv'
    BY <1>2, <1>3, SurfaceKept DEF Edit
  <2>2. db' \in [master : Masters, state : [Senders -> SenderStates]]
    BY <1>1, <1>3 DEF Edit, EditMaster, EditSender
  <2>3. edits' \in 0..profile'.edits
    <3>1. profile.edits \in Nat
      BY BoundAssumption DEF PInv, IInv, CSTypeOK
    <3> QED BY <1>1, <1>2, <1>3, <3>1 DEF Edit
  <2> QED BY <1>1, <1>3, <2>1, <2>2, <2>3 DEF Edit, PInv, AppTypeOK, GenTyped
<1>4. CASE Surface \/ SurfaceFault
  <2>1. IInv'
    BY <1>2, <1>4, SurfaceKept DEF Surface, SurfaceFault
  <2>2. UNCHANGED <<db, lastGood, lastResult, gen, edits, profile>>
    BY <1>2, <1>4 DEF Surface, SurfaceFault, appVars
  <2> QED BY <1>1, <2>1, <2>2 DEF PInv, AppTypeOK, GenTyped
<1>5. ASSUME NEW c \in Clients, Begin(c) \/ Generate(c) \/ LoseRow(c) PROVE PInv'
  <2>1. gen[c] \in Gens
    BY <1>1
  <2>2. /\ gen[c].conf \in Conf /\ gen[c].login \in SUBSET Senders
        /\ gen[c].route \in SUBSET Senders /\ gen[c].reload \in BOOLEAN
    BY <2>1
  <2>3. gen[c].step # "idle" => gen[c].conf \in [Files -> Texts]
    BY <1>1 DEF GenTyped
  <2>4. RenderConf(db) \in [Files -> Texts] /\ RenderConf(db) \in Conf
    BY <1>1, RenderConfType
  <2>5. CASE Begin(c)
    <3>1. /\ [gen[c] EXCEPT !.step = "login", !.conf = RenderConf(db)] \in Gens
          /\ [gen[c] EXCEPT !.step = "login", !.conf = RenderConf(db)].conf
               \in [Files -> Texts]
      BY <2>1, <2>4 DEF Steps
    <3>3. gen' = [gen EXCEPT ![c] = [gen[c] EXCEPT !.step = "login", !.conf = RenderConf(db)]]
      BY <1>1, <2>1, <2>5 DEF Begin
    <3> QED BY <1>1, <1>2, <2>5, <3>1, <3>3, GenStep, SurfaceKept DEF Begin, AppOnly, PInv
  <2>6. CASE RenderLogin(c)
    <3>1. /\ [gen[c] EXCEPT !.step = "route", !.login = Login(db.state)] \in Gens
          /\ [gen[c] EXCEPT !.step = "route", !.login = Login(db.state)].conf
               \in [Files -> Texts]
      BY <2>1, <2>3, <2>6 DEF Steps, Login, RenderLogin, At
    <3>3. gen' = [gen EXCEPT ![c] = [gen[c] EXCEPT !.step = "route", !.login = Login(db.state)]]
      BY <1>1, <2>1, <2>6 DEF RenderLogin
    <3> QED BY <1>1, <1>2, <2>6, <3>1, <3>3, GenStep, SurfaceKept DEF RenderLogin, AppOnly, PInv
  <2>7. CASE RenderRoutes(c)
    <3>1. /\ [gen[c] EXCEPT !.step = "decide", !.route = Route(db.state)] \in Gens
          /\ [gen[c] EXCEPT !.step = "decide", !.route = Route(db.state)].conf
               \in [Files -> Texts]
      BY <2>1, <2>3, <2>7 DEF Steps, Route, RenderRoutes, At
    <3>3. gen' = [gen EXCEPT ![c] = [gen[c] EXCEPT !.step = "decide", !.route = Route(db.state)]]
      BY <1>1, <2>1, <2>7 DEF RenderRoutes
    <3> QED BY <1>1, <1>2, <2>7, <3>1, <3>3, GenStep, SurfaceKept DEF RenderRoutes, AppOnly, PInv
  <2>8. CASE Decide(c)
    <3> DEFINE changed == lastGood = NoRow \/ lastGood.conf # gen[c].conf
    <3>1. /\ [gen[c] EXCEPT !.reload = changed,
                !.step = IF changed THEN "send" ELSE "probe"] \in Gens
          /\ [gen[c] EXCEPT !.reload = changed,
                !.step = IF changed THEN "send" ELSE "probe"].conf \in [Files -> Texts]
      BY <2>1, <2>3, <2>8 DEF Steps, Decide, At
    <3>3. gen' = [gen EXCEPT ![c] = [gen[c] EXCEPT !.reload = changed,
                                       !.step = IF changed THEN "send" ELSE "probe"]]
      BY <1>1, <2>1, <2>8 DEF Decide
    <3>4. UNCHANGED csVars /\ UNCHANGED <<db, lastGood, lastResult, edits>>
      BY <2>8 DEF Decide, AppOnly
    <3> HIDE DEF changed
    <3>5. AppTypeOK' /\ GenTyped'
      BY <1>1, <1>2, <3>1, <3>3, <3>4, GenStep
    <3>6. IInv'
      BY <1>2, <3>4, SurfaceKept
    <3> QED BY <3>5, <3>6 DEF PInv
  <2>9. CASE Probe(c)
    <3>1. /\ [gen[c] EXCEPT !.step = "probing"] \in Gens
          /\ [gen[c] EXCEPT !.step = "probing"].conf \in [Files -> Texts]
      BY <2>1, <2>3, <2>9 DEF Steps, Probe, At
    <3>2. StatusRequest \in Request
      BY DEF Request
    <3> QED BY <1>1, <1>2, <2>9, <3>1, <3>2, GenStep, SurfaceKept DEF Probe, PInv
  <2>10. CASE Probed(c)
    <3>1. /\ [gen[c] EXCEPT !.step = "send", !.reload = inbox[c] # "running"] \in Gens
          /\ [gen[c] EXCEPT !.step = "send", !.reload = inbox[c] # "running"].conf
               \in [Files -> Texts]
      BY <2>1, <2>3, <2>10 DEF Steps, Probed, At
    <3>3. gen' = [gen EXCEPT ![c] = [gen[c] EXCEPT !.step = "send", !.reload = inbox[c] # "running"]]
      BY <1>1, <2>1, <2>10 DEF Probed
    <3> QED BY <1>1, <1>2, <2>10, <3>1, <3>3, GenStep, SurfaceKept DEF Probed, PInv
  <2>11. CASE SendApply(c)
    <3>1. /\ [gen[c] EXCEPT !.step = "applying"] \in Gens
          /\ [gen[c] EXCEPT !.step = "applying"].conf \in [Files -> Texts]
      BY <2>1, <2>3, <2>11 DEF Steps, SendApply, At
    <3>2. Payload(gen[c]) \in Request
      BY <2>11, PayloadType DEF SendApply, At
    <3> QED BY <1>1, <1>2, <2>11, <3>1, <3>2, GenStep, SurfaceKept DEF SendApply, PInv
  <2>12. CASE Record(c)
    <3>1. Row(gen[c].conf, gen[c].login, gen[c].route) \in Rows
      BY <2>2, <2>3, <2>12 DEF Row, Rows, Record, At
    <3>2. /\ lastGood' \in Rows \cup {NoRow}
          /\ lastResult' \in {"none", "pass", "fail"}
      BY <1>1, <2>12, <3>1 DEF Record
    <3>3. Idle \in Gens /\ Idle.step = "idle"
      BY IdleType DEF Idle
    <3> QED BY <1>1, <1>2, <2>12, <3>2, <3>3, GenStep, SurfaceKept DEF Record, PInv
  <2>13. CASE Unreachable(c)
    <3>1. Idle \in Gens /\ Idle.step = "idle"
      BY IdleType DEF Idle
    <3> QED BY <1>1, <1>2, <2>13, <3>1, GenStep, SurfaceKept DEF Unreachable, PInv
  <2>14. CASE LoseRow(c)
    <3>1. Idle \in Gens /\ Idle.step = "idle"
      BY IdleType DEF Idle
    <3>2. AppTypeOK' /\ GenTyped'
      BY <1>1, <1>2, <2>14, <3>1, GenStep DEF LoseRow
    <3>3. UNCHANGED <<queue, phase, cur, answer, next, prev, before, conf, maps, running>>
      BY <2>14 DEF LoseRow, jobVars, liveVars
    <3>4. CSTypeOK /\ JobSafe
      BY DEF PInv, IInv, JobSafe
    <3>5. faults' \in 0..profile.faults
      BY <2>14, <3>4, FaultType DEF LoseRow
    <3>6. inbox' \in [Clients -> InboxStates]
      BY <2>14, <3>4 DEF LoseRow, CSTypeOK, InboxStates
    <3>7. CSTypeOK'
      BY <1>2, <3>3, <3>4, <3>5, <3>6 DEF CSTypeOK
    <3>8. JobSafe'
      BY <3>3, <3>4 DEF JobSafe, JobInv, Untouched, Installed, Activated,
           AllActivated, PutBackConf, SuccessIsLive, FailureRestores, MapText
    <3> QED BY <3>2, <3>7, <3>8 DEF PInv, IInv, JobSafe
  <2> QED BY <1>5, <2>5, <2>6, <2>7, <2>8, <2>9, <2>10, <2>11, <2>12, <2>13, <2>14
          DEF Generate
<1>6. CASE UNCHANGED vars
  <2>1. UNCHANGED csVars /\ UNCHANGED <<db, lastGood, lastResult, gen, edits>>
    BY <1>6 DEF vars, appVars
  <2>2. IInv'
    BY <1>2, <2>1, SurfaceKept
  <2> QED BY <1>1, <1>2, <2>1, <2>2 DEF PInv, AppTypeOK, GenTyped
<1> QED BY <1>3, <1>4, <1>5, <1>6 DEF Next

LEMMA PInvInit == Init => PInv
<1> SUFFICES ASSUME Init PROVE PInv
  OBVIOUS
<1>1. IInv
  BY TypeInit, SafeInit DEF Init, IInv, JobSafe
<1>2. db \in [master : Masters, state : [Senders -> SenderStates]]
  BY DEF Init, SenderStates
<1>3. /\ gen \in [Clients -> [step : Steps, conf : Conf, login : SUBSET Senders,
                              route : SUBSET Senders, reload : BOOLEAN]]
      /\ GenTyped
  BY IdleType DEF Init, GenTyped, Idle
<1>4. edits \in 0..profile.edits
  BY <1>1, BoundAssumption DEF Init, IInv, CSTypeOK
<1> QED BY <1>1, <1>2, <1>3, <1>4 DEF Init, PInv, AppTypeOK

LEMMA PipelineInvariant == Spec => []PInv
BY PInvInit, PInvStep, PTL DEF Spec

\* Every variable of the pipeline keeps its type, and what a generation sends
\* is a well-formed apply_config request.
THEOREM TypeCorrect == Spec => []TypeOK
<1>1. PInv => TypeOK
  BY DEF PInv, IInv, AppTypeOK, TypeOK
<1> QED BY <1>1, PipelineInvariant, PTL

-----------------------------------------------------------------------------
(***************************************************************************)
(* The health check after benign faults: the inductive invariant.          *)
(***************************************************************************)

\* The request a generation has sent, as it stands on the socket.
Outgoing(g) == IF g.step = "probing" THEN StatusRequest ELSE Payload(g)
Call(c) == [client |-> c, req |-> Outgoing(gen[c]), open |-> TRUE]

\* One generation at a time: the socket and the handler hold its call, or
\* nothing.
Serial ==
  /\ \A a, b \in Clients : ~At(a, "idle") /\ ~At(b, "idle") => a = b
  /\ \A c \in Clients : inbox[c] # "quiet" <=> gen[c].step \in {"probing", "applying"}
  /\ queue # <<>> =>
       phase = "idle" /\ \E c \in Clients : inbox[c] = "waiting" /\ queue = <<Call(c)>>
  /\ phase \notin {"idle", "down"} =>
       cur = Call(cur.client) /\ inbox[cur.client] = "waiting"

\* Postfix is left alone only with the files of the last good row.
ReloadJustified ==
  \A c \in Clients :
    \/ gen[c].step \in {"probe", "probing"}
    \/ gen[c].step \in {"send", "applying"} /\ ~gen[c].reload
    => lastGood # NoRow /\ lastGood.conf = gen[c].conf

\* Whatever runs was started with the files of the last good row.
RunningRecorded == lastGood # NoRow => running \in {NotRunning, lastGood.conf}
\* A container that is never replaced has the last good row's files.
Keeps(c) == lastGood # NoRow /\ "recreate" \notin profile.kinds => c = lastGood.conf
\* What is live when nothing is under way and the newest row is good.
Settled ==
  /\ RunningRecorded
  /\ Keeps(conf)
  /\ lastGood # NoRow /\ running # NotRunning /\ lastResult # "fail" =>
       conf = lastGood.conf /\ \A m \in MapNames : maps[m] = MapText(lastGood, m)

\* What a "success" has left behind, until its row is committed.
Delivered(g) ==
  /\ running \in {NotRunning, g.conf}
  /\ running # NotRunning \/ "recreate" \notin profile.kinds => conf = g.conf
  /\ running # NotRunning => \A m \in MapNames : maps[m] = MapText(g, m)

Resting ==
  /\ \/ phase \in {"idle", "down", "status", "validate", "stage", "install"}
     \/ phase = "reply" /\ answer.kind \in {"running", "stopped"}
  /\ \A c \in Clients : inbox[c] \notin {"success", "failed"}

Phased ==
  /\ Resting => Settled
  /\ phase \in {"activate", "restore", "stop", "start", "rollback"} =>
       RunningRecorded /\ Keeps(before.conf)
  /\ phase = "rollback_start" => RunningRecorded /\ Keeps(conf)
  /\ phase \in {"rollback", "rollback_start"} =>
       running # NotRunning \/ "start" \in profile.kinds
  /\ phase = "reply" =>
       /\ answer.kind # "error"
       /\ answer.kind \in {"success", "failed"} => cur.req.op = "apply_config"
       /\ answer.kind = "success" => Delivered(gen[cur.client])
       /\ answer.kind = "failed" => RunningRecorded /\ Keeps(conf)
  /\ \A c \in Clients :
       /\ inbox[c] \in {"success", "failed"} => At(c, "applying")
       /\ inbox[c] = "success" => Delivered(gen[c])
       /\ inbox[c] = "failed" => RunningRecorded /\ Keeps(conf)

BenignInv == Serial /\ ReloadJustified /\ Phased

LEMMA BenignFaults ==
  ASSUME Benign
  PROVE  /\ \A kind \in {"disk", "slow", "giveup", "halt", "commit"} : ~Fault(kind)
         /\ "start" \in profile.kinds => "recreate" \notin profile.kinds
BY DEF Benign, Fault

\* While a request is handled, nobody else has a call under way.
LEMMA OneCall ==
  ASSUME PInv, Serial, phase \notin {"idle", "down"}
  PROVE  /\ cur \in Entry /\ cur.client \in Clients
         /\ cur = Call(cur.client) /\ inbox[cur.client] = "waiting"
         /\ queue = <<>>
         /\ \A d \in Clients : d # cur.client => At(d, "idle") /\ inbox[d] = "quiet"
<1>1. cur \in Entry
  BY DEF PInv, IInv, CSTypeOK
<1>2. cur.client \in Clients
  BY <1>1 DEF Entry
<1>3. inbox[cur.client] = "waiting" /\ cur = Call(cur.client)
  BY DEF Serial
<1>4. queue = <<>>
  BY DEF Serial
<1>5. ASSUME NEW d \in Clients, d # cur.client PROVE At(d, "idle") /\ inbox[d] = "quiet"
  <2>1. ~At(cur.client, "idle")
    BY <1>2, <1>3 DEF Serial, At
  <2>2. At(d, "idle")
    BY <1>2, <1>5, <2>1 DEF Serial
  <2> QED BY <2>2 DEF Serial, At
<1> QED BY <1>1, <1>2, <1>3, <1>4, <1>5

\* An apply_config request in the handler is the payload of its generation.
LEMMA CurIsPayload ==
  ASSUME PInv, Serial, phase \notin {"idle", "down"}, cur.req.op = "apply_config"
  PROVE  /\ At(cur.client, "applying")
         /\ cur.req.conf = gen[cur.client].conf
         /\ cur.req.reload = gen[cur.client].reload
         /\ \A m : MapText(cur.req, m) = MapText(gen[cur.client], m)
<1>1. /\ cur = Call(cur.client) /\ inbox[cur.client] = "waiting"
      /\ cur.client \in Clients
  BY OneCall
<1>2. cur.req = Outgoing(gen[cur.client])
  BY <1>1 DEF Call
<1>3. gen[cur.client].step # "probing"
  BY <1>2 DEF Outgoing, StatusRequest
<1>4. cur.req = Payload(gen[cur.client])
  BY <1>2, <1>3 DEF Outgoing
<1>5. At(cur.client, "applying")
  BY <1>1, <1>3 DEF Serial, At
<1> QED BY <1>4, <1>5 DEF Payload, MapText

\* A generation that is not waiting has the socket and the handler to itself.
LEMMA QuietSocket ==
  ASSUME PInv, Serial, NEW c \in Clients, ~At(c, "idle"), inbox[c] # "waiting"
  PROVE  /\ queue = <<>> /\ phase \in {"idle", "down"}
         /\ \A d \in Clients : d # c => At(d, "idle") /\ inbox[d] = "quiet"
<1>1. ASSUME NEW d \in Clients, d # c PROVE At(d, "idle") /\ inbox[d] = "quiet"
  <2>1. At(d, "idle")
    BY <1>1 DEF Serial
  <2> QED BY <2>1 DEF Serial, At
<1>2. \A d \in Clients : inbox[d] # "waiting"
  BY <1>1
<1>3. queue = <<>>
  BY <1>2 DEF Serial
<1>4. phase \in {"idle", "down"}
  <2>1. phase \notin {"idle", "down"} => cur.client \in Clients /\ inbox[cur.client] = "waiting"
    BY OneCall
  <2> QED BY <1>2, <2>1
<1> QED BY <1>1, <1>3, <1>4

\* A step of the application after which no call is under way.
LEMMA QuietFinish ==
  ASSUME NEW c \in Clients, queue' = <<>>, phase' \in {"idle", "down"},
         \A d \in Clients : inbox'[d] = "quiet",
         \A d \in Clients : d # c => gen'[d].step = "idle",
         gen'[c].step \notin {"probing", "applying"},
         Settled',
         \/ gen'[c].step = "probe"
         \/ gen'[c].step = "send" /\ ~gen'[c].reload
         => lastGood' # NoRow /\ lastGood'.conf = gen'[c].conf
  PROVE  BenignInv'
<1>1. Serial'
  BY DEF Serial, At
<1>2. ReloadJustified'
  BY DEF ReloadJustified
<1>3. Phased'
  BY DEF Phased, Resting
<1> QED BY <1>1, <1>2, <1>3 DEF BenignInv

\* A step of the application that sends its request.
LEMMA SendFinish ==
  ASSUME PInv, BenignInv, NEW c \in Clients, ~At(c, "idle"),
         gen[c].step \notin {"probing", "applying"},
         NEW req, Send(c, req),
         UNCHANGED <<lastGood, lastResult, profile>>,
         \A d \in Clients : d # c => gen'[d] = gen[d],
         gen'[c].step \in {"probing", "applying"},
         req = Outgoing(gen'[c]),
         \/ gen'[c].step = "probing"
         \/ gen'[c].step = "applying" /\ ~gen'[c].reload
         => lastGood' # NoRow /\ lastGood'.conf = gen'[c].conf
  PROVE  BenignInv'
<1>1. Serial /\ ReloadJustified /\ Phased
  BY DEF BenignInv
<1>2. inbox[c] = "quiet" /\ inbox \in [Clients -> InboxStates]
  BY DEF Send, PInv, IInv, CSTypeOK
<1>3. /\ queue = <<>> /\ phase \in {"idle", "down"}
      /\ \A d \in Clients : d # c => At(d, "idle") /\ inbox[d] = "quiet"
  BY <1>1, <1>2, QuietSocket
<1>4. UNCHANGED <<phase, cur, answer, before, conf, maps, running, lastGood,
                  lastResult, profile>>
  BY DEF Send, jobVars, liveVars
<1>5. /\ inbox'[c] \in {"error", "waiting"}
      /\ \A d \in Clients : d # c => inbox'[d] = "quiet"
  BY <1>2, <1>3 DEF Send
<1>6. \/ phase = "down" /\ queue' = <<>>
      \/ /\ phase = "idle" /\ inbox'[c] = "waiting"
         /\ queue' = <<[client |-> c, req |-> req, open |-> TRUE]>>
  <2>1. CASE phase = "down"
    BY <1>3, <2>1 DEF Send
  <2>2. CASE phase # "down"
    <3>1. queue' = Append(<<>>, [client |-> c, req |-> req, open |-> TRUE])
      BY <1>3, <2>2 DEF Send
    <3>2. inbox'[c] = "waiting"
      BY <1>2, <2>2 DEF Send
    <3> QED BY <1>3, <2>2, <3>1, <3>2
  <2> QED BY <2>1, <2>2
<1>7. \A d \in Clients : d # c => gen'[d].step = "idle"
  BY <1>3 DEF At
<1>8. Serial'
  <2>1. \A a, b \in Clients : ~At(a, "idle")' /\ ~At(b, "idle")' => a = b
    BY <1>7 DEF At
  <2>2. \A d \in Clients : inbox'[d] # "quiet" <=> gen'[d].step \in {"probing", "applying"}
    BY <1>5, <1>7
  <2>3. queue' # <<>> =>
          /\ phase' = "idle" /\ inbox'[c] = "waiting"
          /\ queue' = <<[client |-> c, req |-> Outgoing(gen'[c]), open |-> TRUE]>>
    BY <1>4, <1>6
  <2>4. phase' \in {"idle", "down"}
    BY <1>3, <1>4
  <2> QED BY <2>1, <2>2, <2>3, <2>4 DEF Serial, Call
<1>9. ReloadJustified'
  BY <1>7 DEF ReloadJustified
<1>10. Phased'
  <2>1. Settled
    BY <1>1, <1>2, <1>3 DEF Phased, Resting
  <2>2. Settled'
    BY <1>4, <2>1 DEF Settled, RunningRecorded, Keeps, MapText
  <2> QED BY <1>3, <1>4, <1>5, <2>2 DEF Phased
<1> QED BY <1>8, <1>9, <1>10 DEF BenignInv


\* One step per action of the application.
LEMMA BenignApplication ==
  ASSUME PInv, Benign, BenignInv, NEW c \in Clients,
         Begin(c) \/ Generate(c), UNCHANGED profile
  PROVE  BenignInv'
<1>1. /\ Serial /\ ReloadJustified /\ Phased
      /\ inbox \in [Clients -> InboxStates]
      /\ gen \in [Clients -> [step : Steps, conf : Conf, login : SUBSET Senders,
                              route : SUBSET Senders, reload : BOOLEAN]]
  BY DEF BenignInv, PInv, IInv, CSTypeOK, AppTypeOK
<1>2. ASSUME queue = <<>>, phase \in {"idle", "down"},
             \A d \in Clients : inbox[d] \notin {"success", "failed"},
             UNCHANGED <<conf, maps, running, lastGood, lastResult>>
      PROVE  Settled'
  <2>1. Settled
    BY <1>1, <1>2 DEF Phased, Resting
  <2> QED BY <1>2, <2>1 DEF Settled, RunningRecorded, Keeps, MapText
<1>3. CASE Begin(c)
  <2>1. /\ \A d \in Clients : At(d, "idle")
        /\ UNCHANGED <<csVars, lastGood, lastResult>>
    BY <1>3 DEF Begin, AppOnly, Benign, At
  <2>2. \A d \in Clients : inbox[d] = "quiet"
    BY <1>1, <2>1 DEF Serial, At
  <2>3. queue = <<>>
    BY <1>1, <2>2 DEF Serial
  <2>4. phase \in {"idle", "down"}
    <3>1. phase \notin {"idle", "down"} => cur.client \in Clients /\ inbox[cur.client] = "waiting"
      BY <1>1, OneCall
    <3> QED BY <2>2, <3>1
  <2>5. UNCHANGED <<queue, phase, inbox, conf, maps, running>>
    BY <2>1 DEF csVars, liveVars
  <2>6. Settled'
    BY <1>2, <2>1, <2>2, <2>3, <2>4, <2>5
  <2>7. /\ gen'[c].step = "login"
        /\ \A d \in Clients : d # c => gen'[d] = gen[d]
    BY <1>1, <1>3 DEF Begin
  <2> QED BY <2>1, <2>2, <2>3, <2>4, <2>5, <2>6, <2>7, QuietFinish DEF At
<1>4. ASSUME ~At(c, "idle"), inbox[c] # "waiting"
      PROVE  /\ queue = <<>> /\ phase \in {"idle", "down"}
             /\ \A d \in Clients : d # c => At(d, "idle") /\ inbox[d] = "quiet"
  BY <1>1, <1>4, QuietSocket
<1>5. ASSUME ~At(c, "idle"), gen[c].step \notin {"probing", "applying"},
             UNCHANGED <<csVars, lastGood, lastResult>>,
             \A d \in Clients : d # c => gen'[d] = gen[d],
             gen'[c].step \notin {"probing", "applying"},
             \/ gen'[c].step = "probe"
             \/ gen'[c].step = "send" /\ ~gen'[c].reload
             => lastGood # NoRow /\ lastGood.conf = gen'[c].conf
      PROVE  BenignInv'
  <2>1. inbox[c] = "quiet"
    BY <1>1, <1>5 DEF Serial
  <2>2. /\ queue = <<>> /\ phase \in {"idle", "down"}
        /\ \A d \in Clients : d # c => At(d, "idle") /\ inbox[d] = "quiet"
    BY <1>4, <1>5, <2>1
  <2>3. UNCHANGED <<queue, phase, inbox, conf, maps, running>>
    BY <1>5 DEF csVars, liveVars
  <2>4. \A d \in Clients : inbox[d] = "quiet"
    BY <2>1, <2>2
  <2>5. Settled'
    BY <1>2, <1>5, <2>2, <2>3, <2>4
  <2> QED BY <1>5, <2>2, <2>3, <2>4, <2>5, QuietFinish DEF At
<1>6. CASE RenderLogin(c)
  <2>1. gen'[c].step = "route" /\ \A d \in Clients : d # c => gen'[d] = gen[d]
    BY <1>1, <1>6 DEF RenderLogin
  <2>2. At(c, "login") /\ UNCHANGED <<csVars, lastGood, lastResult>>
    BY <1>6 DEF RenderLogin, AppOnly
  <2> QED BY <1>5, <2>1, <2>2 DEF At
<1>7. CASE RenderRoutes(c)
  <2>1. gen'[c].step = "decide" /\ \A d \in Clients : d # c => gen'[d] = gen[d]
    BY <1>1, <1>7 DEF RenderRoutes
  <2>2. At(c, "route") /\ UNCHANGED <<csVars, lastGood, lastResult>>
    BY <1>7 DEF RenderRoutes, AppOnly
  <2> QED BY <1>5, <2>1, <2>2 DEF At
<1>8. CASE Decide(c)
  <2> DEFINE changed == lastGood = NoRow \/ lastGood.conf # gen[c].conf
  <2>1. /\ gen'[c].step = (IF changed THEN "send" ELSE "probe")
        /\ gen'[c].reload = changed /\ gen'[c].conf = gen[c].conf
        /\ \A d \in Clients : d # c => gen'[d] = gen[d]
    BY <1>1, <1>8 DEF Decide
  <2>2. At(c, "decide") /\ UNCHANGED <<csVars, lastGood, lastResult>>
    BY <1>8 DEF Decide, AppOnly
  <2> QED BY <1>5, <2>1, <2>2 DEF At
<1>9. CASE Probe(c)
  <2>1. /\ gen'[c].step = "probing" /\ gen'[c].conf = gen[c].conf
        /\ \A d \in Clients : d # c => gen'[d] = gen[d]
    BY <1>1, <1>9 DEF Probe
  <2>2. At(c, "probe") /\ Send(c, StatusRequest) /\ UNCHANGED <<lastGood, lastResult>>
    BY <1>9 DEF Probe
  <2>3. StatusRequest = Outgoing(gen'[c])
    BY <2>1 DEF Outgoing
  <2>4. lastGood # NoRow /\ lastGood.conf = gen[c].conf
    BY <1>1, <2>2 DEF ReloadJustified, At
  <2> QED BY <2>1, <2>2, <2>3, <2>4, SendFinish DEF At
<1>10. CASE SendApply(c)
  <2>1. /\ gen'[c].step = "applying" /\ gen'[c].conf = gen[c].conf
        /\ gen'[c].login = gen[c].login /\ gen'[c].route = gen[c].route
        /\ gen'[c].reload = gen[c].reload
        /\ \A d \in Clients : d # c => gen'[d] = gen[d]
    BY <1>1, <1>10 DEF SendApply
  <2>2. At(c, "send") /\ Send(c, Payload(gen[c])) /\ UNCHANGED <<lastGood, lastResult>>
    BY <1>10 DEF SendApply
  <2>3. Payload(gen[c]) = Outgoing(gen'[c])
    BY <2>1 DEF Outgoing, Payload
  <2>4. ~gen[c].reload => lastGood # NoRow /\ lastGood.conf = gen[c].conf
    BY <1>1, <2>2 DEF ReloadJustified, At
  <2> QED BY <2>1, <2>2, <2>3, <2>4, SendFinish DEF At
<1>11. ASSUME Return(c), gen[c].step \in {"probing", "applying"},
              \A d \in Clients : d # c => gen'[d] = gen[d],
              gen'[c].step \notin {"probing", "applying", "probe"},
              gen'[c].step = "send" /\ ~gen'[c].reload
                => lastGood' # NoRow /\ lastGood'.conf = gen'[c].conf,
              Settled'
       PROVE  BenignInv'
  <2>1. inbox[c] # "waiting" /\ inbox' = [inbox EXCEPT ![c] = "quiet"]
    BY <1>11 DEF Return
  <2>2. /\ queue = <<>> /\ phase \in {"idle", "down"}
        /\ \A d \in Clients : d # c => At(d, "idle") /\ inbox[d] = "quiet"
    BY <1>4, <1>11, <2>1 DEF At
  <2>3. UNCHANGED <<queue, phase>>
    BY <1>11 DEF Return
  <2>4. \A d \in Clients : inbox'[d] = "quiet"
    BY <1>1, <2>1, <2>2
  <2> QED BY <1>11, <2>2, <2>3, <2>4, QuietFinish DEF At
<1>12. ASSUME Return(c), gen[c].step \in {"probing", "applying"},
              inbox[c] \notin {"success", "failed"},
              UNCHANGED <<lastGood, lastResult>>
       PROVE  Settled'
  <2>1. inbox[c] # "waiting" /\ UNCHANGED <<conf, maps, running>>
    BY <1>12 DEF Return, liveVars
  <2>2. /\ queue = <<>> /\ phase \in {"idle", "down"}
        /\ \A d \in Clients : d # c => At(d, "idle") /\ inbox[d] = "quiet"
    BY <1>4, <1>12, <2>1 DEF At
  <2> QED BY <1>2, <1>12, <2>1, <2>2
<1>13. CASE Probed(c)
  <2>1. /\ gen'[c].step = "send" /\ gen'[c].conf = gen[c].conf
        /\ gen'[c].reload = (inbox[c] # "running")
        /\ \A d \in Clients : d # c => gen'[d] = gen[d]
    BY <1>1, <1>13 DEF Probed
  <2>2. At(c, "probing") /\ Return(c) /\ UNCHANGED <<lastGood, lastResult>>
    BY <1>13 DEF Probed
  <2>3. inbox[c] \notin {"success", "failed"}
    BY <1>1, <2>2 DEF Phased, At
  <2>4. lastGood # NoRow /\ lastGood.conf = gen[c].conf
    BY <1>1, <2>2 DEF ReloadJustified, At
  <2>5. Settled'
    BY <1>12, <2>2, <2>3 DEF At
  <2> QED BY <1>11, <2>1, <2>2, <2>4, <2>5 DEF At
<1>14. CASE Record(c)
  <2>1. /\ gen'[c].step = "idle"
        /\ \A d \in Clients : d # c => gen'[d] = gen[d]
    BY <1>1, <1>14 DEF Record, Idle
  <2>2. At(c, "applying") /\ Return(c) /\ UNCHANGED <<conf, maps, running>>
    BY <1>14 DEF Record, Return, liveVars
  <2>3. Settled'
    <3>1. CASE inbox[c] = "success"
      <4>1. Delivered(gen[c])
        BY <1>1, <3>1 DEF Phased
      <4>2. /\ lastGood' = Row(gen[c].conf, gen[c].login, gen[c].route)
            /\ lastResult' = "pass"
        BY <1>14, <3>1 DEF Record
      <4> QED BY <2>2, <4>1, <4>2 DEF Delivered, Settled, RunningRecorded, Keeps, Row, MapText
    <3>2. CASE inbox[c] = "failed"
      <4>1. RunningRecorded /\ Keeps(conf)
        BY <1>1, <3>2 DEF Phased
      <4>2. lastGood' = lastGood /\ lastResult' = "fail"
        BY <1>14, <3>2 DEF Record
      <4> QED BY <2>2, <4>1, <4>2 DEF Settled, RunningRecorded, Keeps
    <3> QED BY <1>14, <3>1, <3>2 DEF Record
  <2> QED BY <1>11, <2>1, <2>2, <2>3 DEF At
<1>15. CASE Unreachable(c)
  <2>1. /\ gen'[c].step = "idle"
        /\ \A d \in Clients : d # c => gen'[d] = gen[d]
    BY <1>1, <1>15 DEF Unreachable, Idle
  <2>2. /\ At(c, "applying") /\ Return(c) /\ inbox[c] = "error"
        /\ UNCHANGED <<lastGood, lastResult>>
    BY <1>15 DEF Unreachable
  <2>3. Settled'
    BY <1>12, <2>2 DEF At
  <2> QED BY <1>11, <2>1, <2>2, <2>3 DEF At
<1> QED BY <1>3, <1>6, <1>7, <1>8, <1>9, <1>10, <1>13, <1>14, <1>15 DEF Generate

\* While a request is handled, a command changes neither the calls nor the
\* application: what is left to show is what holds at the next command.
LEMMA HandlerFinish ==
  ASSUME PInv, BenignInv, phase \notin {"idle", "down"},
         UNCHANGED <<queue, inbox, cur, gen, lastGood, lastResult, profile>>,
         phase' \notin {"idle", "down"},
         \/ phase' \in {"status", "validate", "stage", "install"}
         \/ phase' = "reply" /\ answer'.kind \in {"running", "stopped"}
         => Settled',
         phase' \in {"activate", "restore", "stop", "start", "rollback"} =>
           RunningRecorded' /\ (Keeps(before.conf))',
         phase' = "rollback_start" => RunningRecorded' /\ (Keeps(conf))',
         phase' \in {"rollback", "rollback_start"} =>
           running' # NotRunning \/ "start" \in profile.kinds,
         phase' = "reply" =>
           /\ answer'.kind # "error"
           /\ answer'.kind \in {"success", "failed"} => cur.req.op = "apply_config"
           /\ answer'.kind = "success" => (Delivered(gen[cur.client]))'
           /\ answer'.kind = "failed" => RunningRecorded' /\ (Keeps(conf))'
  PROVE  BenignInv'
<1>1. Serial /\ ReloadJustified
  BY DEF BenignInv
<1>2. \A d \in Clients : inbox[d] \notin {"success", "failed"}
  BY <1>1, OneCall
<1>3. Serial'
  BY <1>1 DEF Serial, At, Call, Outgoing, Payload
<1>4. ReloadJustified'
  BY <1>1 DEF ReloadJustified
<1>5. Phased'
  BY <1>2 DEF Phased, Resting
<1> QED BY <1>3, <1>4, <1>5 DEF BenignInv

\* A restored file is the one there was, so the last good row's.
LEMMA KeptByRestore ==
  ASSUME PInv, Keeps(before.conf), PutBackConf', conf' \in Conf,
         UNCHANGED <<before, lastGood, profile>>
  PROVE  (Keeps(conf))'
<1> SUFFICES ASSUME lastGood # NoRow, "recreate" \notin profile.kinds
             PROVE  conf' = lastGood.conf
  BY DEF Keeps
<1>1. lastGood.conf \in [Files -> Texts] /\ before.conf = lastGood.conf
  BY DEF Keeps, PInv, AppTypeOK, Rows
<1>2. \A f \in Files : conf'[f] = lastGood.conf[f]
  BY <1>1, ConfAssumption DEF PutBackConf
<1> QED BY <1>1, <1>2 DEF Conf

\* One step per command of the two handlers.
LEMMA BenignHandle ==
  ASSUME PInv, Benign, BenignInv, Handle, UNCHANGED appVars, UNCHANGED profile
  PROVE  BenignInv'
<1>1. /\ Serial /\ ReloadJustified /\ Phased
      /\ CSTypeOK /\ JobInv /\ IInv
  BY DEF BenignInv, PInv, IInv
<1>2. phase \notin {"idle", "down"} /\ UNCHANGED <<queue, inbox, cur>>
  BY DEF Handle, AnswerStatus, Validate, StageMaps, InstallConfig, ActivateMap,
     ActivateMapFails, RestoreConfig, StopPostfix, StartPostfix, StartPostfixFails,
     RollBack, StartPrevious, sockVars, PutBack, Respond, Proceed, jobVars
<1>3. UNCHANGED <<gen, lastGood, lastResult>>
  BY DEF appVars
<1>4. \A d \in Clients : inbox[d] \notin {"success", "failed"}
  BY <1>1, <1>2, OneCall
<1>5. \A kind \in {"disk", "slow", "giveup", "halt", "commit"} : ~Fault(kind)
  BY BenignFaults
<1>6. phase \notin {"idle", "down", "status", "reply"} => cur.req.op = "apply_config"
  BY <1>1 DEF CSTypeOK, ApplyRequest
<1>7. phase \in {"status", "validate", "stage", "install"} => Settled
  BY <1>1, <1>4 DEF Phased, Resting
<1>8. ASSUME Settled, UNCHANGED <<conf, maps, running>>
      PROVE  Settled' /\ RunningRecorded' /\ (Keeps(conf))'
  BY <1>3, <1>8 DEF Settled, RunningRecorded, Keeps, MapText
<1>9. CASE AnswerStatus
  <2>1. /\ phase = "status" /\ UNCHANGED <<conf, maps, running>>
        /\ phase' = "reply" /\ answer'.kind \in {"running", "stopped"}
    BY <1>5, <1>9 DEF AnswerStatus, liveVars, Respond
  <2>2. Settled'
    BY <1>7, <1>8, <2>1
  <2> QED BY <1>2, <1>3, <2>1, <2>2, HandlerFinish
<1>10. CASE Validate \/ StageMaps
  <2>1. /\ phase \in {"validate", "stage"} /\ UNCHANGED <<conf, maps, running>>
        /\ \/ phase' \in {"stage", "install"}
           \/ phase' = "reply" /\ answer'.kind = "failed"
    BY <1>5, <1>10 DEF Validate, StageMaps, liveVars, Respond, Proceed
  <2>2. Settled' /\ RunningRecorded' /\ (Keeps(conf))'
    BY <1>7, <1>8, <2>1
  <2> QED BY <1>2, <1>3, <1>6, <2>1, <2>2, HandlerFinish
<1>11. CASE InstallConfig
  <2>1. /\ phase = "install" /\ phase' = "activate"
        /\ UNCHANGED <<before, maps, running>>
    BY <1>5, <1>11 DEF InstallConfig
  <2>2. before.conf = conf
    BY <1>1, <2>1 DEF JobInv, Untouched
  <2>3. RunningRecorded' /\ (Keeps(before.conf))'
    BY <1>3, <1>7, <2>1, <2>2 DEF Settled, RunningRecorded, Keeps
  <2> QED BY <1>2, <1>3, <2>1, <2>3, HandlerFinish
<1>12. ASSUME phase \in {"activate", "restore", "stop", "start", "rollback"}
       PROVE  RunningRecorded /\ Keeps(before.conf)
  BY <1>1, <1>12 DEF Phased
<1>13. CASE ActivateMap
  <2>1. /\ phase = "activate" /\ maps' = WithMap(next)
        /\ UNCHANGED <<conf, running, before>>
    BY <1>13 DEF ActivateMap, Proceed, Respond, jobVars
  <2>2. RunningRecorded' /\ (Keeps(before.conf))'
    BY <1>3, <1>12, <2>1 DEF RunningRecorded, Keeps
  <2>3. CASE phase' \in {"activate", "stop"}
    BY <1>2, <1>3, <2>2, <2>3, HandlerFinish
  <2>4. CASE /\ next = Len(MapOrder) /\ ~cur.req.reload
             /\ phase' = "reply" /\ answer'.kind = "success"
    <3>1. /\ conf = gen[cur.client].conf
          /\ ~gen[cur.client].reload /\ gen[cur.client].step = "applying"
          /\ cur.client \in Clients
      BY <1>1, <1>2, <1>6, <2>1, <2>4, CurIsPayload, OneCall DEF JobInv, Installed, At
    <3>2. lastGood # NoRow /\ lastGood.conf = gen[cur.client].conf
      BY <1>1, <3>1 DEF ReloadJustified
    <3>3. \A m \in MapNames : maps'[m] = MapText(gen[cur.client], m)
      <4>1. \A m \in MapNames : maps'[m] = MapText(cur.req, m)
        BY <1>1, <1>2, <2>1, <2>4, ActivatedStep DEF AllActivated
      <4> QED BY <1>1, <1>2, <1>6, <2>1, <4>1, CurIsPayload
    <3>4. (Delivered(gen[cur.client]))'
      BY <1>2, <1>3, <1>12, <2>1, <3>1, <3>2, <3>3 DEF Delivered, RunningRecorded, MapText
    <3> QED BY <1>2, <1>3, <1>6, <2>1, <2>4, <3>4, HandlerFinish
  <2>5. \/ phase' \in {"activate", "stop"}
        \/ /\ next = Len(MapOrder) /\ ~cur.req.reload
           /\ phase' = "reply" /\ answer'.kind = "success"
    BY <1>13 DEF ActivateMap, Proceed, Respond
  <2> QED BY <2>3, <2>4, <2>5
<1>14. CASE ActivateMapFails
  <2>1. phase = "activate" /\ phase' = "restore" /\ UNCHANGED <<running, before>>
    BY <1>5, <1>14 DEF ActivateMapFails, Proceed, jobVars
  <2>2. RunningRecorded' /\ (Keeps(before.conf))'
    BY <1>3, <1>12, <2>1 DEF RunningRecorded, Keeps
  <2> QED BY <1>2, <1>3, <2>1, <2>2, HandlerFinish
<1>15. ASSUME phase \in {"restore", "rollback"}, conf' = Restored, UNCHANGED <<before, running>>
       PROVE  RunningRecorded' /\ (Keeps(conf))'
  <2>1. PutBackConf'
    BY <1>1, <1>15, RestoredIsBefore DEF JobInv
  <2>2. conf' \in Conf
    BY <1>1, <1>15, RestoredType
  <2>3. (Keeps(conf))'
    BY <1>3, <1>12, <1>15, <2>1, <2>2, KeptByRestore
  <2> QED BY <1>3, <1>12, <1>15, <2>3 DEF RunningRecorded
<1>16. CASE RestoreConfig
  <2>1. /\ phase = "restore" /\ conf' = Restored /\ UNCHANGED <<before, running>>
        /\ phase' = "reply" /\ answer'.kind = "failed"
    BY <1>5, <1>16 DEF RestoreConfig, PutBack, Respond
  <2>2. RunningRecorded' /\ (Keeps(conf))'
    BY <1>15, <2>1
  <2> QED BY <1>2, <1>3, <1>6, <2>1, <2>2, HandlerFinish
<1>17. CASE StopPostfix
  <2>1. /\ phase = "stop" /\ phase' = "start" /\ UNCHANGED before
        /\ running' \in {running, NotRunning}
    BY <1>5, <1>17 DEF StopPostfix, Proceed, jobVars
  <2>2. RunningRecorded' /\ (Keeps(before.conf))'
    BY <1>3, <1>12, <2>1 DEF RunningRecorded, Keeps
  <2> QED BY <1>2, <1>3, <2>1, <2>2, HandlerFinish
<1>18. CASE StartPostfix
  <2>1. /\ phase = "start" /\ running' = conf /\ UNCHANGED <<conf, maps>>
        /\ phase' = "reply" /\ answer'.kind = "success"
    BY <1>5, <1>18 DEF StartPostfix, Respond
  <2>2. /\ conf = gen[cur.client].conf
        /\ \A m \in MapNames : maps[m] = MapText(gen[cur.client], m)
    BY <1>1, <1>2, <1>6, <2>1, CurIsPayload DEF JobInv, Installed, AllActivated
  <2>3. (Delivered(gen[cur.client]))'
    BY <1>2, <1>3, <2>1, <2>2 DEF Delivered, MapText
  <2> QED BY <1>2, <1>3, <1>6, <2>1, <2>3, HandlerFinish
<1>19. CASE StartPostfixFails
  <2>1. /\ phase = "start" /\ UNCHANGED <<conf, maps, running, before>>
        /\ running # NotRunning \/ "start" \in profile.kinds
    BY <1>19 DEF StartPostfixFails, liveVars, Fault, Proceed, Respond, jobVars
  <2>2. RunningRecorded' /\ (Keeps(before.conf))'
    BY <1>3, <1>12, <2>1 DEF RunningRecorded, Keeps
  <2>3. CASE phase' = "rollback"
    BY <1>2, <1>3, <2>1, <2>2, <2>3, HandlerFinish
  <2>4. CASE prev = NoPrevious /\ phase' = "reply" /\ answer'.kind = "failed"
    <3>1. before.conf = NoPrevious
      BY <1>1, <2>1, <2>4 DEF JobInv, Installed
    <3>2. ~(lastGood # NoRow /\ "recreate" \notin profile.kinds)
      <4>1. lastGood # NoRow => lastGood.conf \in [Files -> Texts]
        BY DEF PInv, AppTypeOK, Rows
      <4>2. lastGood # NoRow => lastGood.conf["main.cf"] # NoFile
        BY <4>1, ConfAssumption DEF Files
      <4>3. NoPrevious["main.cf"] = NoFile
        BY DEF NoPrevious, Files
      <4> QED BY <1>12, <2>1, <3>1, <4>2, <4>3 DEF Keeps
    <3>3. (Keeps(conf))'
      BY <1>3, <3>2 DEF Keeps
    <3> QED BY <1>2, <1>3, <1>6, <2>1, <2>2, <2>4, <3>3, HandlerFinish
  <2> QED BY <1>19, <2>3, <2>4 DEF StartPostfixFails, Proceed, Respond
<1>20. CASE RollBack
  <2>1. /\ phase = "rollback" /\ conf' = Restored /\ UNCHANGED <<before, running>>
        /\ phase' = "rollback_start"
    BY <1>5, <1>20 DEF RollBack, PutBack, Proceed, jobVars
  <2>2. RunningRecorded' /\ (Keeps(conf))'
    BY <1>15, <2>1
  <2>3. running # NotRunning \/ "start" \in profile.kinds
    BY <1>1, <2>1 DEF Phased
  <2> QED BY <1>2, <1>3, <2>1, <2>2, <2>3, HandlerFinish
<1>21. CASE StartPrevious
  <2>1. /\ phase = "rollback_start" /\ UNCHANGED conf
        /\ running' = running \/ (running = NotRunning /\ running' = conf)
        /\ phase' = "reply" /\ answer'.kind = "failed"
    BY <1>5, <1>21 DEF StartPrevious, Respond
  <2>2. RunningRecorded /\ Keeps(conf)
    BY <1>1, <2>1 DEF Phased
  <2>3. running = NotRunning => "recreate" \notin profile.kinds
    BY <1>1, <2>1, BenignFaults DEF Phased
  <2>4. RunningRecorded' /\ (Keeps(conf))'
    BY <1>3, <2>1, <2>2, <2>3 DEF RunningRecorded, Keeps
  <2> QED BY <1>2, <1>3, <1>6, <2>1, <2>4, HandlerFinish
<1> QED BY <1>9, <1>10, <1>11, <1>13, <1>14, <1>16, <1>17, <1>18, <1>19, <1>20,
           <1>21 DEF Handle

\* One step for each other action of the server, and for the container.
LEMMA BenignServer ==
  ASSUME PInv, Benign, BenignInv, Server \/ ContainerStops,
         UNCHANGED appVars, UNCHANGED profile
  PROVE  BenignInv'
<1>1. /\ Serial /\ ReloadJustified /\ Phased
      /\ inbox \in [Clients -> InboxStates]
      /\ lastGood # NoRow => lastGood.conf \in [Files -> Texts]
  BY DEF BenignInv, PInv, IInv, CSTypeOK, AppTypeOK, Rows
<1>2. UNCHANGED <<gen, lastGood, lastResult>>
  BY DEF appVars
<1>3. ReloadJustified'
  BY <1>1, <1>2 DEF ReloadJustified
<1>4. CASE Accept
  <2>1. PICK c \in Clients : inbox[c] = "waiting" /\ queue = <<Call(c)>>
    BY <1>1, <1>4 DEF Accept, Serial
  <2>2. Head(queue) = Call(c) /\ Tail(queue) = <<>>
    BY <2>1
  <2>3. /\ phase = "idle" /\ queue' = <<>> /\ cur' = Call(c)
        /\ phase' \in {"status", "validate"}
        /\ UNCHANGED <<inbox, conf, maps, running>>
    BY <1>4, <2>2 DEF Accept, liveVars
  <2>4. cur'.client = c
    BY <2>3 DEF Call
  <2>5. Serial'
    BY <1>1, <1>2, <2>1, <2>3, <2>4 DEF Serial, At, Call, Outgoing, Payload
  <2>6. Phased'
    <3>1. \A d \in Clients : inbox[d] \notin {"success", "failed"}
      <4>1. ~At(c, "idle")
        BY <1>1, <2>1 DEF Serial, At
      <4>2. \A d \in Clients : d # c => At(d, "idle")
        BY <1>1, <4>1 DEF Serial
      <4> QED BY <1>1, <2>1, <4>2 DEF Serial, At
    <3>2. Settled
      BY <1>1, <2>3, <3>1 DEF Phased, Resting
    <3>3. Settled'
      BY <1>2, <2>3, <3>2 DEF Settled, RunningRecorded, Keeps, MapText
    <3> QED BY <2>3, <3>1, <3>3 DEF Phased
  <2> QED BY <1>3, <2>5, <2>6 DEF BenignInv
<1>5. CASE Handle
  BY <1>5, BenignHandle
<1>6. CASE Reply
  <2>1. phase = "reply" /\ answer.kind \in {"running", "stopped", "success", "failed"}
    <3>1. answer.kind \in AnswerKinds
      BY DEF PInv, IInv, CSTypeOK, Answer
    <3> QED BY <1>1, <1>6, <3>1 DEF Reply, Phased, AnswerKinds
  <2>2. /\ cur.client \in Clients /\ cur.open /\ inbox[cur.client] = "waiting"
        /\ queue = <<>>
        /\ \A d \in Clients : d # cur.client => At(d, "idle") /\ inbox[d] = "quiet"
    BY <1>1, <2>1, OneCall DEF Call
  <2>3. /\ inbox' = [inbox EXCEPT ![cur.client] = answer.kind] /\ phase' = "idle"
        /\ UNCHANGED <<queue, running, maps, conf>>
    BY <1>6, <2>2 DEF Reply
  <2>4. /\ inbox'[cur.client] = answer.kind
        /\ \A d \in Clients : d # cur.client => inbox'[d] = "quiet"
    BY <1>1, <2>2, <2>3
  <2>5. Serial'
    <3>1. \A d \in Clients : inbox'[d] # "quiet" <=> gen'[d].step \in {"probing", "applying"}
      <4>1. \A d \in Clients : inbox[d] # "quiet" <=> inbox'[d] # "quiet"
        BY <2>1, <2>2, <2>4
      <4> QED BY <1>1, <1>2, <4>1 DEF Serial
    <3>2. \A a, b \in Clients : ~At(a, "idle")' /\ ~At(b, "idle")' => a = b
      BY <1>1, <1>2 DEF Serial, At
    <3> QED BY <2>2, <2>3, <3>1, <3>2 DEF Serial
  <2>6. Phased'
    <3>1. CASE answer.kind \in {"running", "stopped"}
      <4>1. \A d \in Clients : inbox[d] \notin {"success", "failed"}
        BY <2>2
      <4>2. Settled
        BY <1>1, <2>1, <3>1, <4>1 DEF Phased, Resting
      <4>3. Settled'
        BY <1>2, <2>3, <4>2 DEF Settled, RunningRecorded, Keeps, MapText
      <4>4. \A d \in Clients : inbox'[d] \notin {"success", "failed"}
        BY <2>4, <3>1
      <4> QED BY <2>3, <4>3, <4>4 DEF Phased
    <3>2. CASE answer.kind \in {"success", "failed"}
      <4>1. cur.req.op = "apply_config"
        BY <1>1, <2>1, <3>2 DEF Phased
      <4>2. At(cur.client, "applying")
        BY <1>1, <2>1, <4>1, CurIsPayload
      <4>3. \A d \in Clients :
              /\ inbox'[d] \in {"success", "failed"} => At(d, "applying")'
              /\ inbox'[d] = "success" => (Delivered(gen[d]))'
              /\ inbox'[d] = "failed" => RunningRecorded' /\ (Keeps(conf))'
        <5> SUFFICES ASSUME NEW d \in Clients, inbox'[d] \in {"success", "failed"}
                     PROVE  /\ At(d, "applying")'
                            /\ inbox'[d] = "success" => (Delivered(gen[d]))'
                            /\ inbox'[d] = "failed" => RunningRecorded' /\ (Keeps(conf))'
          OBVIOUS
        <5>1. d = cur.client
          BY <2>4
        <5>2. CASE answer.kind = "success"
          <6>1. Delivered(gen[d])
            BY <1>1, <2>1, <5>1, <5>2 DEF Phased
          <6>2. (Delivered(gen[d]))'
            BY <1>2, <2>3, <6>1 DEF Delivered, MapText
          <6> QED BY <1>2, <2>4, <4>2, <5>1, <5>2, <6>2 DEF At
        <5>3. CASE answer.kind = "failed"
          <6>1. RunningRecorded /\ Keeps(conf)
            BY <1>1, <2>1, <5>3 DEF Phased
          <6>2. RunningRecorded' /\ (Keeps(conf))'
            BY <1>2, <2>3, <6>1 DEF RunningRecorded, Keeps
          <6> QED BY <1>2, <2>4, <4>2, <5>1, <5>3, <6>2 DEF At
        <5> QED BY <3>2, <5>2, <5>3
      <4>4. ~Resting'
        BY <2>2, <2>4, <3>2 DEF Resting
      <4> QED BY <2>3, <4>3, <4>4 DEF Phased
    <3> QED BY <2>1, <3>1, <3>2
  <2> QED BY <1>3, <2>5, <2>6 DEF BenignInv
<1>7. CASE Boot
  <2>1. /\ phase = "down" /\ phase' = "idle"
        /\ UNCHANGED <<queue, inbox, cur, answer, before, conf, maps, running>>
    BY <1>7 DEF Boot, sockVars, jobVars, liveVars
  <2>2. queue = <<>>
    BY <1>1, <2>1 DEF Serial
  <2>3. Serial'
    BY <1>1, <1>2, <2>1, <2>2 DEF Serial, At
  <2>4. Resting' => Settled'
    <3>1. Resting' => Resting
      BY <2>1 DEF Resting
    <3> QED BY <1>1, <1>2, <2>1, <3>1 DEF Phased, Settled, RunningRecorded, Keeps, MapText
  <2>5. \A d \in Clients :
          /\ inbox'[d] \in {"success", "failed"} => At(d, "applying")'
          /\ inbox'[d] = "success" => (Delivered(gen[d]))'
          /\ inbox'[d] = "failed" => RunningRecorded' /\ (Keeps(conf))'
    BY <1>1, <1>2, <2>1 DEF Phased, At, Delivered, RunningRecorded, Keeps, MapText
  <2> QED BY <1>3, <2>1, <2>3, <2>4, <2>5 DEF BenignInv, Phased
<1>8. CASE ContainerStops
  <2>1. /\ phase' = "down" /\ running' = NotRunning /\ queue' = <<>> /\ UNCHANGED maps
        /\ inbox' = [c \in Clients |-> IF inbox[c] = "waiting" THEN "error" ELSE inbox[c]]
    BY <1>8 DEF ContainerStops, ServerGone
  <2>2. \/ phase = "idle" /\ UNCHANGED conf
        \/ "recreate" \in profile.kinds
    <3>1. ~Fault("halt")
      BY BenignFaults
    <3> QED BY <1>8, <3>1 DEF ContainerStops, Fault
  <2>3. Serial'
    <3>1. \A d \in Clients : inbox'[d] # "quiet" <=> inbox[d] # "quiet"
      BY <2>1
    <3> QED BY <1>1, <1>2, <2>1, <3>1 DEF Serial, At
  <2>4. RunningRecorded'
    BY <2>1 DEF RunningRecorded
  <2>5. Resting' => Settled'
    <3>1. CASE "recreate" \in profile.kinds
      BY <2>1, <2>4, <3>1 DEF Settled, Keeps
    <3>2. CASE phase = "idle" /\ UNCHANGED conf
      <4>1. Resting' => Resting
        BY <2>1, <3>2 DEF Resting
      <4> QED BY <1>1, <1>2, <2>1, <2>4, <3>2, <4>1 DEF Phased, Settled, Keeps
    <3> QED BY <2>2, <3>1, <3>2
  <2>6. \A d \in Clients :
          /\ inbox'[d] \in {"success", "failed"} => At(d, "applying")'
          /\ inbox'[d] = "success" => (Delivered(gen[d]))'
          /\ inbox'[d] = "failed" => RunningRecorded' /\ (Keeps(conf))'
    <3> SUFFICES ASSUME NEW d \in Clients, inbox'[d] \in {"success", "failed"}
                 PROVE  /\ At(d, "applying")'
                        /\ inbox'[d] = "success" => (Delivered(gen[d]))'
                        /\ inbox'[d] = "failed" => RunningRecorded' /\ (Keeps(conf))'
      OBVIOUS
    <3>1. inbox'[d] = inbox[d]
      BY <2>1
    <3>2. At(d, "applying")'
      BY <1>1, <1>2, <3>1 DEF Phased, At
    <3>3. inbox'[d] = "success" => (Delivered(gen[d]))'
      BY <1>1, <1>2, <2>1, <2>2, <3>1 DEF Phased, Delivered
    <3>4. inbox'[d] = "failed" => (Keeps(conf))'
      BY <1>1, <1>2, <2>2, <3>1 DEF Phased, Keeps
    <3> QED BY <2>4, <3>2, <3>3, <3>4
  <2> QED BY <1>3, <2>1, <2>3, <2>5, <2>6 DEF BenignInv, Phased
<1> QED BY <1>4, <1>5, <1>6, <1>7, <1>8 DEF Server

LEMMA BenignStep ==
  ASSUME PInv, Benign, BenignInv, [Next]_vars
  PROVE  BenignInv'
<1>1. UNCHANGED profile
  BY DEF Next, vars, csVars
<1>2. ASSUME UNCHANGED <<queue, inbox, phase, cur, answer, before, conf, maps, running,
                        lastGood, lastResult, gen, profile>>
      PROVE  BenignInv'
  <2>1. Serial' /\ ReloadJustified'
    BY <1>2 DEF BenignInv, Serial, ReloadJustified, At, Call, Outgoing, Payload
  <2>2. Phased'
    BY <1>2 DEF BenignInv, Phased, Resting, Settled, RunningRecorded, Keeps, Delivered,
                At, MapText
  <2> QED BY <2>1, <2>2 DEF BenignInv
<1>3. CASE Edit
  BY <1>1, <1>2, <1>3 DEF Edit, csVars, jobVars, liveVars
<1>4. CASE Surface
  BY <1>1, <1>4, BenignServer DEF Surface
<1>5. CASE SurfaceFault
  <2>1. ~ \E c \in Clients : GiveUp(c)
    BY BenignFaults DEF GiveUp
  <2> QED BY <1>1, <1>5, <2>1, BenignServer DEF SurfaceFault
<1>6. ASSUME NEW c \in Clients, Begin(c) \/ Generate(c) \/ LoseRow(c) PROVE BenignInv'
  <2>1. ~LoseRow(c)
    BY BenignFaults DEF LoseRow
  <2> QED BY <1>1, <1>6, <2>1, BenignApplication
<1>7. CASE UNCHANGED vars
  BY <1>2, <1>7 DEF vars, csVars, appVars, jobVars, liveVars
<1> QED BY <1>3, <1>4, <1>5, <1>6, <1>7 DEF Next

LEMMA BenignInit == Init => BenignInv
<1> SUFFICES ASSUME Init PROVE BenignInv
  OBVIOUS
<1>1. \A c \in Clients : inbox[c] = "quiet" /\ gen[c].step = "idle"
  BY DEF Init, CSInit, Idle
<1>2. queue = <<>> /\ phase = "idle" /\ lastGood = NoRow
  BY DEF Init, CSInit
<1>3. Serial /\ ReloadJustified
  BY <1>1, <1>2 DEF Serial, ReloadJustified, At
<1>4. Phased
  BY <1>1, <1>2 DEF Phased, Settled, RunningRecorded, Keeps
<1> QED BY <1>3, <1>4 DEF BenignInv

\* After benign faults, status "ok" with nothing under way means that files,
\* maps and the running master are those the database renders to
\* (core/health.py run_health_check against generate_and_apply and
\* _apply_config), whatever was edited, refused, restarted or rolled back.
THEOREM HealthIsTruthful == Spec => []HealthTruthfulWhenBenign
<1>1. Init => (Benign => BenignInv)
  BY BenignInit
<1>2. PInv /\ (Benign => BenignInv) /\ [Next]_vars => (Benign => BenignInv)'
  <2>1. [Next]_vars /\ Benign' => Benign
    BY DEF Next, vars, csVars, Benign
  <2> QED BY <2>1, BenignStep
<1>3. PInv /\ (Benign => BenignInv) => HealthTruthfulWhenBenign
  <2> SUFFICES ASSUME BenignInv, Quiescent, HealthOk, lastGood # NoRow
               PROVE  Synced
    BY DEF HealthTruthfulWhenBenign, HealthTruthful
  <2>1. Settled
    BY DEF BenignInv, Phased, Resting, Quiescent
  <2>2. lastGood = Current /\ running # NotRunning /\ lastResult # "fail"
    BY DEF HealthOk, InSync
  <2> QED BY <2>1, <2>2 DEF Settled, RunningRecorded, Synced, FilesSynced
<1> QED BY <1>1, <1>2, <1>3, PipelineInvariant, PTL DEF Spec
=============================================================================
