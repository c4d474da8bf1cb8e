------------------------- MODULE TlsCertificate_proofs -------------------------
(***************************************************************************)
(* Proofs about TlsCertificate, for any certificates, domains, orders,     *)
(* threads and profiles.                                                   *)
(***************************************************************************)
EXTENDS TlsCertificate, SequenceTheorems, TLAPS

\* An answer is there only for a job that has asked for one, and a challenge that
\* was started has a domain and an order.
JobOK(j) ==
  /\ j.step \in {"idle", "gate", "order"} => j.answer = "none"
  /\ j.op = "start" => j.step \in {"order", "commit"} /\ j.domain \in Domains
  /\ j.op = "start" /\ j.answer = "accepted" => j.order \in Orders

DbOK ==
  /\ settings \in Settings /\ row \in Certs \cup {NoCert}
  /\ pending \in [domain : Domains, order : Orders] \cup {NoChallenge}
  /\ gate \in BOOLEAN /\ failed \in BOOLEAN
AcmeOK == age \in [Certs -> Ages] /\ spent \subseteq Orders
JobsOK == job \in [Threads -> Jobs] /\ \A t \in Threads : JobOK(job[t])
CallsOK ==
  /\ calls \in Seq(Calls)
  /\ \A t \in Threads : Waiting(t) <=> \E i \in 1..Len(calls) : calls[i].worker = t
  /\ \A i, k \in 1..Len(calls) :
       i # k => calls[i].worker = NoWorker \/ calls[i].worker # calls[k].worker
SurfaceOK ==
  /\ live \in [crt : Pairs, key : Pairs] /\ previous \in [crt : Pairs, key : Pairs]
  /\ srv \in {"idle", "key", "restart", "accepted", "rejected", "error"}
  /\ srv # "idle" => calls # <<>>
RestOK ==
  /\ app \in {"starting", "up"} /\ ordered \in Nat /\ torn \in BOOLEAN
  /\ profile \in Profiles /\ faults \in 0..profile.faults /\ patches \in 0..profile.patches

Typed == DbOK /\ AcmeOK /\ JobsOK /\ CallsOK /\ SurfaceOK /\ RestOK

-----------------------------------------------------------------------------
(***************************************************************************)
(* Type correctness: every call on the socket has the one caller that      *)
(* waits for it.                                                           *)
(***************************************************************************)

LEMMA IdleOK == Idle \in Jobs /\ JobOK(Idle) /\ Idle.step = "idle" /\ Idle.op = "none"
BY DEF Idle, Jobs, JobOK, Answers

LEMMA TypeInit == Init => Typed
<1> SUFFICES ASSUME Init PROVE Typed
  OBVIOUS
<1>1. settings \in Settings /\ profile.faults \in Nat /\ profile.patches \in Nat
  BY ProfilesAssumption DEF Init
<1>2. DbOK /\ AcmeOK
  BY <1>1 DEF Init, DbOK, AcmeOK, Ages
<1>3. JobsOK
  BY IdleOK DEF Init, JobsOK
<1>4. <<>> \in Seq(Calls) /\ Len(<<>>) = 0
  OBVIOUS
<1>5. CallsOK
  BY <1>4, IdleOK DEF Init, CallsOK, Waiting
<1>6. SurfaceOK
  BY DEF Init, SurfaceOK, Both, Pairs
<1>7. RestOK
  <2>1. 0 \in 0..profile.faults /\ 0 \in 0..profile.patches /\ 0 \in Nat
    BY <1>1
  <2>2. faults = 0 /\ patches = 0 /\ ordered = 0 /\ torn = FALSE /\ app = "starting"
    BY DEF Init
  <2>3. profile \in Profiles
    BY DEF Init
  <2> QED BY <2>1, <2>2, <2>3 DEF RestOK
<1> QED BY <1>2, <1>3, <1>5, <1>6, <1>7 DEF Typed

\* A thread that waits for nothing goes on to wait for nothing.
LEMMA JobMoves ==
  ASSUME JobsOK, CallsOK, NEW t \in Threads, NEW j \in Jobs, JobOK(j), ~Waiting(t),
         ~(j.step \in {"sync", "wait"} /\ j.answer = "none"), Start(t, j), UNCHANGED calls
  PROVE  JobsOK' /\ CallsOK'
<1>1. \A u \in Threads : job'[u] = IF u = t THEN j ELSE job[u]
  BY DEF JobsOK, Start
<1>2. job' \in [Threads -> Jobs]
  BY DEF JobsOK, Start
<1>3. \A u \in Threads : Waiting(u)' <=> Waiting(u)
  BY <1>1 DEF Waiting
<1> QED BY <1>1, <1>2, <1>3 DEF JobsOK, CallsOK

\* A thread that waits for nothing makes a call.
LEMMA JobCalls ==
  ASSUME JobsOK, CallsOK, NEW t \in Threads, NEW j \in Jobs, JobOK(j), ~Waiting(t),
         j.step \in {"sync", "wait"}, j.answer = "none", NEW c \in Certs,
         Start(t, j), Send(t, c)
  PROVE  JobsOK' /\ CallsOK' /\ Len(calls') = Len(calls) + 1
         /\ \A i \in 1..Len(calls) : calls'[i] = calls[i]
<1> DEFINE call == [worker |-> t, cert |-> c]
<1>1. \A u \in Threads : job'[u] = IF u = t THEN j ELSE job[u]
  BY DEF JobsOK, Start
<1>2. JobsOK'
  BY <1>1 DEF JobsOK, Start
<1>3. call \in Calls
  BY DEF Calls
<1>4. /\ calls' \in Seq(Calls) /\ Len(calls) \in Nat /\ Len(calls') = Len(calls) + 1
      /\ \A i \in 1..Len(calls) : calls'[i] = calls[i]
      /\ calls'[Len(calls) + 1] = call
  BY <1>3, AppendProperties DEF CallsOK, Send
<1>5. \A i \in 1..Len(calls) : calls[i].worker # t
  BY DEF CallsOK
<1>6. \A i \in 1..Len(calls') : i = Len(calls') \/ i \in 1..Len(calls)
  BY <1>4
<1>7. ASSUME NEW u \in Threads
      PROVE  Waiting(u)' <=> \E i \in 1..Len(calls') : calls'[i].worker = u
  <2>1. CASE u = t
    BY <1>1, <1>4, <2>1 DEF Waiting
  <2>2. CASE u # t
    <3>1. Waiting(u)' <=> Waiting(u)
      BY <1>1, <2>2 DEF Waiting
    <3>2. (\E i \in 1..Len(calls') : calls'[i].worker = u)
             <=> \E i \in 1..Len(calls) : calls[i].worker = u
      BY <1>4, <1>6, <2>2
    <3> QED BY <3>1, <3>2 DEF CallsOK
  <2> QED BY <2>1, <2>2
<1>8. ASSUME NEW i \in 1..Len(calls'), NEW k \in 1..Len(calls'), i # k
      PROVE  calls'[i].worker = NoWorker \/ calls'[i].worker # calls'[k].worker
  BY <1>4, <1>5, <1>6, <1>8 DEF CallsOK
<1> QED BY <1>2, <1>4, <1>7, <1>8 DEF CallsOK

\* A fault counts, up to the profile's bound.
LEMMA FaultType ==
  ASSUME RestOK, NEW kind, Fault(kind), UNCHANGED <<profile, patches>>,
         app' \in {"starting", "up"}, ordered' \in Nat, torn' \in BOOLEAN
  PROVE  RestOK'
<1>1. profile.faults \in Nat
  BY ProfilesAssumption DEF RestOK
<1> QED BY <1>1 DEF RestOK, Fault

LEMMA AskedType ==
  ASSUME CallsOK, calls # <<>>
  PROVE  Asked \in Certs /\ calls[1] \in Calls /\ Len(calls) \in Nat \ {0}
<1>1. Len(calls) \in Nat /\ Len(calls) # 0
  BY EmptySeq DEF CallsOK
<1>2. 1 \in 1..Len(calls)
  BY <1>1
<1>3. calls[1] \in Calls
  BY <1>2, ElementOfSeq DEF CallsOK
<1> QED BY <1>1, <1>3 DEF Asked, Calls

\* The call handled is answered, and its caller goes on.
LEMMA ReplyType ==
  ASSUME Typed, Reply
  PROVE  JobsOK' /\ CallsOK'
<1> DEFINE t == calls[1].worker
<1> USE DEF Typed
<1>1. srv \in {"accepted", "rejected", "error"} /\ calls # <<>> /\ calls' = Tail(calls)
  BY DEF Reply, SurfaceOK
<1>2. calls[1] \in Calls /\ Len(calls) \in Nat \ {0}
  BY <1>1, AskedType
<1>3. t \in Threads \cup {NoWorker} /\ NoWorker \notin Threads
  BY <1>2, NoneAssumption DEF Calls, Threads
<1>4. /\ calls' \in Seq(Calls) /\ Len(calls') = Len(calls) - 1
      /\ \A i \in 1..Len(calls') : calls'[i] = calls[i + 1]
  BY <1>1, <1>2, HeadTailProperties DEF CallsOK
<1>5. \A i \in 1..Len(calls') : i + 1 \in 1..Len(calls) /\ i + 1 # 1
  BY <1>2, <1>4
<1>6. \A i \in 1..Len(calls) : i = 1 \/ (i - 1 \in 1..Len(calls') /\ calls'[i - 1] = calls[i])
  BY <1>2, <1>4
<1>7. 1 \in 1..Len(calls)
  BY <1>2
<1>8. \A u \in Threads :
        job'[u] = IF u = t THEN [job[u] EXCEPT !.answer = srv] ELSE job[u]
  BY <1>3 DEF Reply, JobsOK
<1>9. t \in Threads => Waiting(t)
  BY <1>7 DEF CallsOK
<1>10. JobsOK'
  <2>1. srv \in Answers
    BY <1>1 DEF Answers
  <2>2. \A u \in Threads : [job[u] EXCEPT !.answer = srv] \in Jobs
    BY <2>1 DEF JobsOK, Jobs
  <2>3. job' \in [Threads -> Jobs]
    BY <1>3, <2>2 DEF Reply, JobsOK
  <2>4. \A u \in Threads : JobOK(job'[u])
    <3> SUFFICES ASSUME NEW u \in Threads PROVE JobOK(job'[u])
      OBVIOUS
    <3>1. CASE u = t
      BY <1>8, <1>9, <3>1 DEF JobsOK, Jobs, JobOK, Waiting
    <3>2. CASE u # t
      BY <1>8, <3>2 DEF JobsOK
    <3> QED BY <3>1, <3>2
  <2> QED BY <2>3, <2>4 DEF JobsOK
<1>11. ASSUME NEW u \in Threads
       PROVE  Waiting(u)' <=> \E i \in 1..Len(calls') : calls'[i].worker = u
  <2>1. CASE u = t
    <3>1. ~Waiting(u)'
      <4>1. job'[u].answer = srv
        BY <1>8, <2>1 DEF JobsOK, Jobs
      <4> QED BY <1>1, <4>1 DEF Waiting
    <3>2. \A i \in 1..Len(calls') : calls'[i].worker # u
      BY <1>3, <1>4, <1>5, <1>7, <2>1 DEF CallsOK
    <3> QED BY <3>1, <3>2
  <2>2. CASE u # t
    <3>1. Waiting(u)' <=> Waiting(u)
      BY <1>8, <2>2 DEF Waiting
    <3>2. (\E i \in 1..Len(calls') : calls'[i].worker = u)
             <=> \E i \in 1..Len(calls) : calls[i].worker = u
      BY <1>4, <1>5, <1>6, <2>2
    <3> QED BY <3>1, <3>2 DEF CallsOK
  <2> QED BY <2>1, <2>2
<1>12. ASSUME NEW i \in 1..Len(calls'), NEW k \in 1..Len(calls'), i # k
       PROVE  calls'[i].worker = NoWorker \/ calls'[i].worker # calls'[k].worker
  <2>1. i + 1 # k + 1
    BY <1>2, <1>4, <1>12
  <2> QED BY <1>4, <1>5, <2>1 DEF CallsOK
<1> QED BY <1>4, <1>10, <1>11, <1>12 DEF CallsOK

\* The calls of some threads forget their callers, who wait no longer.
LEMMA Forget ==
  ASSUME JobsOK, CallsOK, NEW S \in SUBSET Threads,
         JobsOK', \A t \in Threads : Waiting(t)' <=> Waiting(t) /\ t \notin S,
         calls' = [i \in DOMAIN calls |->
           IF calls[i].worker \in S THEN [calls[i] EXCEPT !.worker = NoWorker] ELSE calls[i]]
  PROVE  CallsOK' /\ Len(calls') = Len(calls) /\ (calls # <<>> => calls' # <<>>)
         /\ \A i \in 1..Len(calls) : calls'[i].cert = calls[i].cert
<1>1. NoWorker \notin Threads
  BY NoneAssumption DEF Threads
<1>2. Len(calls) \in Nat /\ DOMAIN calls = 1..Len(calls)
  BY DEF CallsOK
<1>3. ASSUME NEW i \in 1..Len(calls)
      PROVE  /\ calls'[i] \in Calls /\ calls'[i].cert = calls[i].cert
             /\ calls'[i].worker = IF calls[i].worker \in S THEN NoWorker ELSE calls[i].worker
  <2>1. calls[i] \in Calls
    BY ElementOfSeq DEF CallsOK
  <2>2. [calls[i] EXCEPT !.worker = NoWorker] \in Calls
    BY <2>1 DEF Calls
  <2> QED BY <1>2, <2>1, <2>2 DEF Calls
<1>4. calls' = [i \in 1..Len(calls) |-> calls'[i]]
  BY <1>2
<1>5. calls' \in Seq(Calls)
  BY <1>2, <1>3, <1>4, IsASeq
<1>6. Len(calls') = Len(calls)
  BY <1>2, <1>4, <1>5, LenProperties
<1>7. \A t \in Threads : Waiting(t)' <=> \E i \in 1..Len(calls') : calls'[i].worker = t
  BY <1>1, <1>3, <1>6 DEF CallsOK
<1>8. \A i, k \in 1..Len(calls') :
        i # k => calls'[i].worker = NoWorker \/ calls'[i].worker # calls'[k].worker
  BY <1>1, <1>3, <1>6 DEF CallsOK
<1>9. calls # <<>> => calls' # <<>>
  BY <1>5, <1>6, EmptySeq DEF CallsOK
<1> QED BY <1>3, <1>5, <1>6, <1>7, <1>8, <1>9 DEF CallsOK

\* The jobs after a stop of the control surface, or of the application.
LEMMA HaltJobs ==
  ASSUME JobsOK,
         job' = [t \in Threads |-> IF Waiting(t) THEN [job[t] EXCEPT !.answer = "error"] ELSE job[t]]
  PROVE  JobsOK' /\ \A t \in Threads : ~Waiting(t)'
<1>1. ASSUME NEW t \in Threads
      PROVE  job'[t] \in Jobs /\ JobOK(job'[t]) /\ ~Waiting(t)'
  <2>1. job[t] \in Jobs /\ JobOK(job[t])
    BY DEF JobsOK
  <2>2. CASE Waiting(t)
    <3>1. job'[t] = [job[t] EXCEPT !.answer = "error"]
      BY <2>2
    <3>2. job'[t] \in Jobs /\ job'[t].answer = "error" /\ job'[t].step = job[t].step
          /\ job'[t].op = job[t].op
      BY <2>1, <3>1 DEF Jobs, Answers
    <3> QED BY <2>1, <2>2, <3>2 DEF Waiting, JobOK
  <2>3. CASE ~Waiting(t)
    BY <2>1, <2>3 DEF Waiting
  <2> QED BY <2>2, <2>3
<1> QED BY <1>1 DEF JobsOK

LEMMA Serving ==
  ASSUME Typed, Serve, profile' = profile
  PROVE  Typed'
<1> USE DEF Typed
<1>1. ASSUME UNCHANGED <<job, calls>> PROVE JobsOK' /\ CallsOK'
  BY <1>1 DEF JobsOK, CallsOK, Waiting
<1>2. ASSUME UNCHANGED <<db, acme>> PROVE DbOK' /\ AcmeOK'
  BY <1>2 DEF db, acme, DbOK, AcmeOK
<1>3. ASSUME UNCHANGED <<app, ordered, profile, patches, torn, faults>> PROVE RestOK'
  BY <1>3 DEF RestOK
<1>4. Certs \subseteq Pairs
  BY DEF Pairs
<1>5. ASSUME Handle PROVE Typed'
  <2>1. Asked \in Certs
    BY <1>5, AskedType DEF Handle
  <2>2. SurfaceOK'
    BY <1>4, <1>5, <2>1 DEF Handle, SurfaceOK
  <2>3. RestOK'
    <3>1. ASSUME Fault("disk") PROVE RestOK'
      BY <1>5, <3>1, FaultType DEF Handle, RestOK
    <3>2. ASSUME UNCHANGED faults PROVE RestOK'
      BY <1>3, <1>5, <3>2 DEF Handle
    <3> QED BY <1>5, <3>1, <3>2 DEF Handle
  <2> QED BY <1>1, <1>2, <1>5, <2>2, <2>3 DEF Handle
<1>6. ASSUME WriteKey PROVE Typed'
  <2>1. Asked \in Certs
    BY <1>6, AskedType DEF WriteKey, SurfaceOK
  <2>2. SurfaceOK'
    BY <1>4, <1>6, <2>1 DEF WriteKey, SurfaceOK
  <2>3. RestOK'
    <3>1. ASSUME Fault("disk"), torn' = TRUE PROVE RestOK'
      BY <1>6, <3>1, FaultType DEF WriteKey, RestOK
    <3>2. ASSUME UNCHANGED <<torn, faults>> PROVE RestOK'
      BY <1>3, <1>6, <3>2 DEF WriteKey
    <3> QED BY <1>6, <3>1, <3>2 DEF WriteKey
  <2> QED BY <1>1, <1>2, <1>6, <2>2, <2>3 DEF WriteKey
<1>7. ASSUME Restart PROVE Typed'
  <2>1. SurfaceOK'
    BY <1>7 DEF Restart, SurfaceOK
  <2>2. RestOK'
    <3>1. ASSUME Fault("start"), UNCHANGED torn PROVE RestOK'
      BY <1>7, <3>1, FaultType DEF Restart, RestOK
    <3>2. ASSUME torn' = FALSE, UNCHANGED faults PROVE RestOK'
      BY <1>7, <3>2 DEF Restart, RestOK
    <3> QED BY <1>7, <3>1, <3>2 DEF Restart
  <2> QED BY <1>1, <1>2, <1>7, <2>1, <2>2 DEF Restart
<1>8. ASSUME Reply PROVE Typed'
  <2>1. SurfaceOK'
    BY <1>8 DEF Reply, SurfaceOK
  <2> QED BY <1>2, <1>3, <1>8, <2>1, ReplyType DEF Reply, bounds
<1> QED BY <1>5, <1>6, <1>7, <1>8 DEF Serve

LEMMA Ticking ==
  ASSUME Typed, Ticks, profile' = profile
  PROVE  Typed'
<1> USE DEF Typed
<1>1. Ticker \in Threads
  BY DEF Threads
<1> DEFINE j == job[Ticker]
<1>2. j \in Jobs /\ JobOK(j)
  BY <1>1 DEF JobsOK
<1>3. ASSUME UNCHANGED <<db, acme>> PROVE DbOK' /\ AcmeOK'
  BY <1>3 DEF db, acme, DbOK, AcmeOK
<1>4. ASSUME UNCHANGED <<live, previous, srv>>, srv # "idle" => calls' # <<>> PROVE SurfaceOK'
  BY <1>4 DEF SurfaceOK
<1>5. ASSUME app' \in {"starting", "up"}, UNCHANGED <<ordered, torn, bounds>> PROVE RestOK'
  BY <1>5 DEF RestOK, bounds
\* The certificate of record goes to the control surface.
<1>6. ASSUME NEW op \in {"startup", "tick"}, At(Ticker, "idle"), Sync(op) PROVE Typed'
  <2>1. ~Waiting(Ticker)
    BY <1>6 DEF At, Waiting
  <2>2. CASE row = NoCert
    <3> DEFINE n == [Idle EXCEPT !.op = op, !.step = "gate"]
    <3>1. Start(Ticker, n) /\ calls' = calls
      BY <1>6, <2>2 DEF Sync
    <3>2. n \in Jobs /\ n.step = "gate" /\ n.answer = "none" /\ JobOK(n)
      BY DEF Idle, Jobs, Ops, Answers, JobOK
    <3>3. JobsOK' /\ CallsOK'
      BY <1>1, <2>1, <3>1, <3>2, JobMoves
    <3> QED BY <1>3, <1>4, <1>5, <1>6, <3>1, <3>3 DEF Sync, SurfaceOK, RestOK
  <2>3. CASE row # NoCert
    <3> DEFINE n == [Idle EXCEPT !.op = op, !.step = "sync", !.cert = row]
    <3>1. Start(Ticker, n) /\ Send(Ticker, row) /\ row \in Certs
      BY <1>6, <2>3 DEF Sync, DbOK
    <3>2. n \in Jobs /\ n.step = "sync" /\ n.answer = "none" /\ JobOK(n)
      BY <3>1 DEF Idle, Jobs, Ops, Answers, JobOK
    <3>3. JobsOK' /\ CallsOK' /\ Len(calls') = Len(calls) + 1
      BY <1>1, <2>1, <3>1, <3>2, JobCalls
    <3>4. calls' # <<>>
      BY <3>3, EmptySeq DEF CallsOK
    <3> QED BY <1>3, <1>4, <1>5, <1>6, <3>3, <3>4 DEF Sync, RestOK
  <2> QED BY <2>2, <2>3
\* The tick goes on without a call.
<1>7. ASSUME NEW n \in Jobs, JobOK(n), n.step \notin {"sync", "wait"}, ~Waiting(Ticker),
             Start(Ticker, n), app' \in {"starting", "up"},
             DbOK', UNCHANGED <<acme, surface, ordered, bounds>>
      PROVE  Typed'
  <2>1. JobsOK' /\ CallsOK'
    BY <1>1, <1>7, JobMoves DEF surface
  <2> QED BY <1>4, <1>5, <1>7, <2>1 DEF surface, SurfaceOK, acme, AcmeOK
<1>8. ASSUME Startup PROVE Typed'
  BY <1>6, <1>8 DEF Startup
<1>9. ASSUME StartupOver PROVE Typed'
  <2>1. ~Waiting(Ticker)
    BY <1>9 DEF StartupOver, At, Waiting
  <2> QED BY <1>3, <1>7, <1>9, <2>1, IdleOK DEF StartupOver
<1>10. ASSUME TickBegin PROVE Typed'
  BY <1>6, <1>10 DEF TickBegin, MayBegin
<1>11. ASSUME SyncAnswered PROVE Typed'
  <2> DEFINE n == [j EXCEPT !.step = "gate", !.cert = NoCert, !.answer = "none"]
  <2>1. n \in Jobs /\ n.step = "gate" /\ n.answer = "none"
    BY <1>2 DEF Jobs, Answers
  <2>2. ~Waiting(Ticker) /\ JobOK(n) /\ Start(Ticker, n)
    BY <1>2, <1>11, <2>1 DEF SyncAnswered, At, Waiting, Jobs, JobOK
  <2> QED BY <1>3, <1>7, <1>11, <2>1, <2>2 DEF SyncAnswered, RestOK
<1>12. ASSUME TickGate PROVE Typed'
  <2>1. ~Waiting(Ticker) /\ j.answer = "none"
    BY <1>2, <1>12 DEF TickGate, At, Waiting, JobOK
  <2>2. DbOK'
    BY <1>12 DEF TickGate, DbOK
  <2>3. AutomaticDomain \in Domains \cup {NoDomain}
    BY DEF AutomaticDomain, DbOK, Settings
  <2> DEFINE n == [j EXCEPT !.step = "order", !.domain = AutomaticDomain]
  <2>4. n \in Jobs /\ n.step = "order" /\ n.answer = "none"
    BY <1>2, <2>1, <2>3 DEF Jobs
  <2>5. CASE Due
    <3>1. JobOK(n)
      BY <1>2, <1>12, <2>4 DEF TickGate, Jobs, JobOK
    <3> QED BY <1>7, <1>12, <2>1, <2>2, <2>4, <2>5, <3>1 DEF TickGate, AfterGate, RestOK
  <2>6. CASE ~Due
    BY <1>7, <1>12, <2>1, <2>2, <2>6, IdleOK DEF TickGate, AfterGate, RestOK
  <2> QED BY <2>5, <2>6
<1> QED BY <1>8, <1>9, <1>10, <1>11, <1>12 DEF Ticks

LEMMA Ordering ==
  ASSUME Typed, NEW t \in Threads, profile' = profile,
         Proceed(t) \/ CommitFails(t) \/ GiveUp(t)
  PROVE  Typed'
<1> USE DEF Typed
<1> DEFINE j == job[t]
<1>1. j \in Jobs /\ JobOK(j)
  BY DEF JobsOK
<1>2. ASSUME UNCHANGED db PROVE DbOK'
  BY <1>2 DEF db, DbOK
<1>3. ASSUME UNCHANGED acme PROVE AcmeOK'
  BY <1>3 DEF acme, AcmeOK
<1>4. ASSUME UNCHANGED <<live, previous, srv>>, srv # "idle" => calls' # <<>> PROVE SurfaceOK'
  BY <1>4 DEF SurfaceOK
<1>5. ordered' = ordered \/ CountOrder(t) => ordered' \in Nat
  BY DEF CountOrder, RestOK
\* A step without a call.
<1>6. ASSUME NEW n \in Jobs, JobOK(n), ~Waiting(t),
             ~(n.step \in {"sync", "wait"} /\ n.answer = "none"),
             Start(t, n), DbOK', RestOK', UNCHANGED <<acme, surface>>
      PROVE  Typed'
  <2>1. JobsOK' /\ CallsOK'
    BY <1>6, JobMoves DEF surface
  <2> QED BY <1>3, <1>4, <1>6, <2>1 DEF surface, SurfaceOK
<1>7. ASSUME Issue(t) PROVE Typed'
  <2>1. PICK c \in Least(Certs \ UsedCerts) :
          /\ age' = [age EXCEPT ![c] = "fresh"]
          /\ Start(t, [j EXCEPT !.step = "wait", !.cert = c])
          /\ Send(t, c)
    BY <1>7 DEF Issue
  <2> DEFINE n == [j EXCEPT !.step = "wait", !.cert = c]
  <2>2. c \in Certs
    BY DEF Least
  <2>3. ~Waiting(t) /\ j.answer = "none"
    BY <1>1, <1>7 DEF Issue, At, Waiting, JobOK
  <2>4. n \in Jobs /\ n.step = "wait" /\ n.answer = "none" /\ JobOK(n)
    BY <1>1, <1>7, <2>2, <2>3 DEF Issue, Jobs, JobOK
  <2>5. JobsOK' /\ CallsOK' /\ Len(calls') = Len(calls) + 1
    BY <2>1, <2>2, <2>3, <2>4, JobCalls
  <2>6. calls' # <<>>
    BY <2>5, EmptySeq DEF CallsOK
  <2>7. AcmeOK'
    <3>1. j.order \in Orders \cup {NoOrder}
      BY <1>1 DEF Jobs
    <3> QED BY <1>7, <2>1, <2>2, <3>1 DEF Issue, AcmeOK, Ages
  <2>8. RestOK'
    BY <1>5, <1>7 DEF Issue, RestOK, bounds
  <2> QED BY <1>2, <1>4, <1>7, <2>5, <2>6, <2>7, <2>8 DEF Issue
<1>8. ASSUME OrderFails(t) PROVE Typed'
  <2> DEFINE n == [j EXCEPT !.step = "commit", !.answer = "error"]
  <2>1. n \in Jobs /\ n.step = "commit"
    BY <1>1 DEF Jobs, Answers
  <2>2. ~Waiting(t) /\ JobOK(n)
    BY <1>1, <1>8, <2>1 DEF OrderFails, At, Waiting, Jobs, JobOK
  <2>3. RestOK'
    <3>1. ASSUME UNCHANGED <<ordered, faults>> PROVE RestOK'
      BY <1>8, <3>1 DEF OrderFails, RestOK, surface
    <3>2. ASSUME Fault("acme"), CountOrder(t) PROVE RestOK'
      BY <1>5, <1>8, <3>2, FaultType DEF OrderFails, surface, RestOK
    <3> QED BY <1>8, <3>1, <3>2 DEF OrderFails
  <2> QED BY <1>2, <1>6, <1>8, <2>1, <2>2, <2>3 DEF OrderFails
<1>9. ASSUME Answered(t) PROVE Typed'
  <2> DEFINE n == [j EXCEPT !.step = "commit"]
  <2>1. n \in Jobs /\ n.step = "commit"
    BY <1>1 DEF Jobs
  <2>2. ~Waiting(t) /\ JobOK(n)
    BY <1>1, <1>9, <2>1 DEF Answered, At, Waiting, Jobs, JobOK
  <2>3. RestOK'
    BY <1>9 DEF Answered, RestOK, surface, bounds
  <2> QED BY <1>2, <1>6, <1>9, <2>1, <2>2, <2>3 DEF Answered
<1>10. ASSUME At(t, "commit"), Start(t, Idle), DbOK', RestOK', UNCHANGED <<acme, surface>>
       PROVE  Typed'
  <2>1. ~Waiting(t)
    BY <1>10 DEF At, Waiting
  <2> QED BY <1>6, <1>10, <2>1, IdleOK
<1>11. ASSUME Commit(t) PROVE Typed'
  <2>1. row' \in Certs \cup {NoCert}
    <3>1. j.cert \in Certs \cup {NoCert}
      BY <1>1 DEF Jobs
    <3> QED BY <1>11, <3>1 DEF Commit, DbOK
  <2>2. failed' \in BOOLEAN
    BY <1>11 DEF Commit, FailedAfter, DbOK
  <2>3. pending' \in [domain : Domains, order : Orders] \cup {NoChallenge}
    <3>1. pending' = PendingAfter(j)
      BY <1>11 DEF Commit
    <3>2. j.op = "start" /\ j.answer = "accepted" => j.domain \in Domains /\ j.order \in Orders
      BY <1>1 DEF JobOK
    <3>3. CASE j.op = "start" /\ j.answer = "accepted"
      BY <3>1, <3>2, <3>3 DEF PendingAfter
    <3>4. CASE ~(j.op = "start" /\ j.answer = "accepted") /\ j.op = "confirm"
      BY <3>1, <3>4 DEF PendingAfter
    <3>5. CASE ~(j.op = "start" /\ j.answer = "accepted") /\ j.op # "confirm"
      BY <3>1, <3>5 DEF PendingAfter, DbOK
    <3> QED BY <3>3, <3>4, <3>5
  <2>4. DbOK'
    BY <1>11, <2>1, <2>2, <2>3 DEF Commit, DbOK
  <2>5. RestOK'
    BY <1>11 DEF Commit, RestOK, surface, bounds
  <2> QED BY <1>10, <1>11, <2>4, <2>5 DEF Commit
<1>12. ASSUME CommitFails(t) PROVE Typed'
  <2>1. RestOK'
    BY <1>12, FaultType DEF CommitFails, RestOK, surface
  <2> QED BY <1>2, <1>10, <1>12, <2>1 DEF CommitFails
<1>13. ASSUME GiveUp(t) PROVE Typed'
  <2>1. Fault("giveup") /\ Waiting(t)
    BY <1>13 DEF GiveUp
  <2>2. RestOK'
    BY <1>13, <2>1, FaultType DEF GiveUp, RestOK
  <2> DEFINE n == [j EXCEPT !.answer = "error"]
  <2>3. n \in Jobs /\ n.answer = "error" /\ n.step = j.step
    BY <1>1 DEF Jobs, Answers
  <2>4. /\ job' \in [Threads -> Jobs]
        /\ \A u \in Threads : job'[u] = IF u = t THEN n ELSE job[u]
    BY <1>13, <2>3 DEF GiveUp, JobsOK
  <2>5. JobsOK'
    <3>1. JobOK(n)
      BY <1>1, <2>1, <2>3 DEF Jobs, JobOK, Waiting
    <3> QED BY <2>4, <3>1 DEF JobsOK
  <2>6. \A u \in Threads : Waiting(u)' <=> Waiting(u) /\ u \notin {t}
    BY <2>3, <2>4 DEF Waiting
  <2>7. calls' = [i \in DOMAIN calls |->
          IF calls[i].worker \in {t} THEN [calls[i] EXCEPT !.worker = NoWorker] ELSE calls[i]]
    BY <1>13 DEF GiveUp
  <2>8. CallsOK' /\ (calls # <<>> => calls' # <<>>)
    BY <2>5, <2>6, <2>7, Forget
  <2> QED BY <1>2, <1>3, <1>4, <1>13, <2>2, <2>5, <2>8 DEF GiveUp, SurfaceOK
<1> QED BY <1>7, <1>8, <1>9, <1>11, <1>12, <1>13 DEF Proceed

LEMMA Requesting ==
  ASSUME Typed, NEW w \in Workers, profile' = profile,
         IssueBegin(w) \/ StartBegin(w) \/ ConfirmBegin(w) \/ StartOrder(w) \/ NotVisible(w)
  PROVE  Typed'
<1> USE DEF Typed
<1> DEFINE j == job[w]
<1>1. w \in Threads
  BY DEF Threads
<1>2. j \in Jobs /\ JobOK(j)
  BY <1>1 DEF JobsOK
<1>3. ASSUME UNCHANGED db PROVE DbOK'
  BY <1>3 DEF db, DbOK
\* Such a step makes no call.
<1>4. ASSUME NEW n \in Jobs, JobOK(n), n.step \notin {"sync", "wait"}, ~Waiting(w),
             Start(w, n), DbOK', AcmeOK', UNCHANGED <<app, surface, ordered, bounds>>
      PROVE  Typed'
  <2>1. JobsOK' /\ CallsOK'
    BY <1>1, <1>4, JobMoves DEF surface
  <2>2. SurfaceOK' /\ RestOK'
    BY <1>4 DEF surface, bounds, SurfaceOK, RestOK
  <2> QED BY <1>4, <2>1, <2>2
<1>5. ASSUME UNCHANGED acme PROVE AcmeOK'
  BY <1>5 DEF acme, AcmeOK
<1>6. At(w, "idle") \/ At(w, "order") => ~Waiting(w)
  BY DEF At, Waiting
<1>7. settings.domain \in Domains \cup {NoDomain} /\ AutomaticDomain \in Domains \cup {NoDomain}
  BY DEF AutomaticDomain, DbOK, Settings
<1>8. ASSUME IssueBegin(w) PROVE Typed'
  <2> DEFINE n == [Idle EXCEPT !.op = "issue", !.step = "order", !.domain = AutomaticDomain]
  <2>1. n \in Jobs /\ n.step = "order" /\ JobOK(n)
    BY <1>7 DEF Idle, Jobs, Ops, Answers, JobOK
  <2> QED BY <1>3, <1>4, <1>5, <1>6, <1>8, <2>1 DEF IssueBegin, MayBegin
<1>9. ASSUME StartBegin(w) PROVE Typed'
  <2> DEFINE n == [Idle EXCEPT !.op = "start", !.step = "order", !.domain = settings.domain]
  <2>1. settings.domain \in Domains
    BY <1>7, <1>9 DEF StartBegin
  <2>2. n \in Jobs /\ n.step = "order" /\ JobOK(n)
    BY <2>1 DEF Idle, Jobs, Ops, Answers, JobOK
  <2> QED BY <1>3, <1>4, <1>5, <1>6, <1>9, <2>2 DEF StartBegin, MayBegin
<1>10. ASSUME ConfirmBegin(w) PROVE Typed'
  <2>1. CASE pending.domain = settings.domain
    <3> DEFINE n == [Idle EXCEPT !.op = "confirm", !.step = "order", !.domain = pending.domain,
                                 !.order = pending.order]
    <3>1. pending.domain \in Domains /\ pending.order \in Orders
      BY <1>10 DEF ConfirmBegin, DbOK
    <3>2. n \in Jobs /\ n.step = "order" /\ JobOK(n)
      BY <3>1 DEF Idle, Jobs, Ops, Answers, JobOK
    <3>3. DbOK'
      BY <1>10, <2>1 DEF ConfirmBegin, DbOK
    <3> QED BY <1>4, <1>5, <1>6, <1>10, <2>1, <3>2, <3>3 DEF ConfirmBegin, MayBegin
  <2>2. CASE pending.domain # settings.domain
    <3>1. DbOK'
      BY <1>10, <2>2 DEF ConfirmBegin, DbOK
    <3>2. JobsOK' /\ CallsOK' /\ SurfaceOK' /\ RestOK'
      BY <1>10, <2>2 DEF ConfirmBegin, JobsOK, CallsOK, Waiting, SurfaceOK, RestOK, surface, bounds
    <3> QED BY <1>5, <1>10, <3>1, <3>2 DEF ConfirmBegin
  <2> QED BY <2>1, <2>2
<1>11. ASSUME StartOrder(w) PROVE Typed'
  <2>1. PICK o \in Least(Orders \ UsedOrders) :
          /\ Start(w, [j EXCEPT !.step = "commit", !.order = o, !.answer = "accepted"])
          /\ spent' = spent \ {o}
    BY <1>11 DEF StartOrder
  <2> DEFINE n == [j EXCEPT !.step = "commit", !.order = o, !.answer = "accepted"]
  <2>2. o \in Orders
    BY DEF Least
  <2>3. n \in Jobs /\ n.step = "commit" /\ JobOK(n)
    BY <1>2, <2>2 DEF Jobs, Answers, JobOK
  <2>4. AcmeOK'
    BY <1>11, <2>1 DEF StartOrder, AcmeOK
  <2> QED BY <1>3, <1>4, <1>6, <1>11, <2>1, <2>3, <2>4 DEF StartOrder
<1>12. ASSUME NotVisible(w) PROVE Typed'
  BY <1>3, <1>4, <1>5, <1>6, <1>12, IdleOK DEF NotVisible
<1> QED BY <1>8, <1>9, <1>10, <1>11, <1>12

LEMMA Stopping ==
  ASSUME Typed, profile' = profile, Patch \/ Halt \/ Quit \/ Day
  PROVE  Typed'
<1> USE DEF Typed
<1>1. ASSUME UNCHANGED <<job, calls>> PROVE JobsOK' /\ CallsOK'
  BY <1>1 DEF JobsOK, CallsOK, Waiting
<1>2. ASSUME UNCHANGED surface PROVE SurfaceOK'
  BY <1>2 DEF surface, SurfaceOK
<1>3. ASSUME UNCHANGED <<db, acme>> PROVE DbOK' /\ AcmeOK'
  BY <1>3 DEF db, acme, DbOK, AcmeOK
<1>4. ASSUME Patch PROVE Typed'
  <2>1. profile.patched \subseteq Settings /\ profile.patches \in Nat
    BY ProfilesAssumption DEF RestOK
  <2>2. DbOK' /\ AcmeOK'
    BY <1>4, <2>1 DEF Patch, DbOK, acme, AcmeOK
  <2>3. RestOK'
    BY <1>4, <2>1 DEF Patch, RestOK, surface
  <2> QED BY <1>1, <1>2, <1>4, <2>2, <2>3 DEF Patch, surface
<1>5. ASSUME Halt PROVE Typed'
  <2>1. JobsOK' /\ \A t \in Threads : ~Waiting(t)'
    BY <1>5, HaltJobs DEF Halt
  <2>2. calls' = <<>> /\ <<>> \in Seq(Calls) /\ Len(<<>>) = 0
    BY <1>5 DEF Halt
  <2>3. CallsOK'
    BY <2>1, <2>2 DEF CallsOK
  <2>4. SurfaceOK'
    BY <1>5 DEF Halt, SurfaceOK, Both, Pairs
  <2>5. RestOK'
    <3>1. ASSUME Fault("halt"), torn' = (torn \/ srv = "key") PROVE RestOK'
      <4>1. torn' \in BOOLEAN
        BY <3>1
      <4> QED BY <1>5, <3>1, <4>1, FaultType DEF Halt, RestOK
    <3>2. ASSUME Fault("volume"), torn' = FALSE PROVE RestOK'
      BY <1>5, <3>2, FaultType DEF Halt, RestOK
    <3> QED BY <1>5, <3>1, <3>2 DEF Halt
  <2> QED BY <1>3, <1>5, <2>1, <2>3, <2>4, <2>5 DEF Halt
<1>6. ASSUME Quit PROVE Typed'
  <2>1. JobsOK' /\ \A t \in Threads : ~Waiting(t)'
    BY <1>6, IdleOK DEF Quit, JobsOK, Waiting
  <2>2. \A i \in 1..Len(calls) : calls[i] \in Calls
    BY ElementOfSeq DEF CallsOK
  <2>3. calls' = [i \in DOMAIN calls |->
          IF calls[i].worker \in Threads THEN [calls[i] EXCEPT !.worker = NoWorker] ELSE calls[i]]
    <3>1. DOMAIN calls = 1..Len(calls)
      BY DEF CallsOK
    <3>2. ASSUME NEW i \in 1..Len(calls), calls[i].worker \notin Threads
          PROVE  [calls[i] EXCEPT !.worker = NoWorker] = calls[i]
      BY <2>2, <3>2 DEF Calls
    <3>3. calls' = [i \in DOMAIN calls |-> [calls[i] EXCEPT !.worker = NoWorker]]
      BY <1>6 DEF Quit
    <3> QED BY <3>1, <3>2, <3>3
  <2>4. CallsOK' /\ (calls # <<>> => calls' # <<>>)
    BY <2>1, <2>3, Forget
  <2>5. RestOK'
    BY <1>6, FaultType DEF Quit, RestOK
  <2>6. SurfaceOK'
    BY <1>6, <2>4 DEF Quit, SurfaceOK
  <2> QED BY <1>3, <1>6, <2>1, <2>4, <2>5, <2>6 DEF Quit
<1>7. ASSUME Day PROVE Typed'
  <2>1. DbOK'
    BY <1>7 DEF Day, DbOK
  <2>2. age' \in [Certs -> Ages]
    <3>1. PICK older \in SUBSET {c \in UsedCerts : age[c] # "expired"} :
            age' = [c \in Certs |-> IF c \in UsedCerts \ older THEN age[c]
                                    ELSE IF c \in older /\ age[c] = "fresh" THEN "due"
                                    ELSE "expired"]
      BY <1>7 DEF Day
    <3> QED BY <3>1 DEF AcmeOK, Ages
  <2>3. RestOK'
    BY <1>7 DEF Day, RestOK, surface, bounds
  <2> QED BY <1>1, <1>2, <1>7, <2>1, <2>2, <2>3 DEF Day, AcmeOK, surface
<1> QED BY <1>4, <1>5, <1>6, <1>7

LEMMA TypeNext == Typed /\ [Next]_vars => Typed'
<1> SUFFICES ASSUME Typed, [Next]_vars PROVE Typed'
  OBVIOUS
<1>1. CASE UNCHANGED vars
  BY <1>1 DEF vars, db, acme, surface, bounds, Typed, DbOK, AcmeOK, JobsOK, CallsOK, Waiting,
     SurfaceOK, RestOK
<1>2. CASE Next
  BY <1>2, Serving, Ticking, Ordering, Requesting, Stopping DEF Next
<1> QED BY <1>1, <1>2

\* Every state is well formed, with any number of requests at a time and any
\* faults: a thread waits for an answer exactly while one call of its own is on
\* the socket of the control surface.
THEOREM TypeCorrect == Spec => []TypeOK
<1>1. Init => Typed
  BY TypeInit
<1>2. Typed /\ [Next]_vars => Typed'
  BY TypeNext
<1>3. Typed => TypeOK
  BY DEF Typed, TypeOK, DbOK, AcmeOK, JobsOK, CallsOK, SurfaceOK, RestOK
<1> QED BY <1>1, <1>2, <1>3, PTL DEF Spec

-----------------------------------------------------------------------------
(***************************************************************************)
(* One order a day.                                                        *)
(***************************************************************************)

\* Ticks are the ticker's.
Roles ==
  /\ job[Ticker].op \in {"none", "startup", "tick"}
  /\ \A w \in Workers : job[w].op # "tick"

\* A tick that has not placed its order yet is the first since the gate was
\* open, and the gate is shut before the order.
Paced ==
  /\ ordered \in {0, 1}
  /\ ~gate => ordered = 0
  /\ job[Ticker].op = "tick" /\ job[Ticker].step \in {"sync", "gate", "order"} => ordered = 0
  /\ job[Ticker].op = "tick" /\ job[Ticker].step = "order" => gate

LEMMA PacedInit == Init => Roles /\ Paced
BY IdleOK DEF Init, Roles, Paced, Threads

LEMMA PacedNext == Typed /\ Roles /\ Paced /\ [Next]_vars => Roles' /\ Paced'
<1> SUFFICES ASSUME Typed, Roles, Paced, [Next]_vars PROVE Roles' /\ Paced'
  OBVIOUS
<1>1. Ticker \in Threads /\ Workers \subseteq Threads /\ Ticker \notin Workers
      /\ \A t \in Threads : job[t] \in Jobs
  BY NoneAssumption DEF Threads, Typed, JobsOK
<1>2. \A t \in Threads : t = Ticker \/ t \in Workers
  BY DEF Threads
<1>3. ASSUME UNCHANGED <<job, gate, ordered>> PROVE Roles' /\ Paced'
  BY <1>3 DEF Roles, Paced
\* A step of a thread that keeps, or starts with, an operation of its kind.
<1>4. ASSUME NEW t \in Threads, NEW n, Start(t, n),
             t \in Workers => n.op # "tick",
             t = Ticker => n.op \in {"none", "startup", "tick"}
      PROVE  Roles' /\ \A u \in Threads : job'[u] = IF u = t THEN n ELSE job[u]
  <2>1. \A u \in Threads : job'[u] = IF u = t THEN n ELSE job[u]
    BY <1>4 DEF Start, Typed, JobsOK
  <2> QED BY <1>1, <1>4, <2>1 DEF Roles
<1>5. ASSUME NEW w \in Workers, NEW n, Start(w, n), n.op # "tick", UNCHANGED <<gate, ordered>>
      PROVE  Roles' /\ Paced'
  BY <1>1, <1>4, <1>5 DEF Paced
<1>6. CASE UNCHANGED vars
  BY <1>3, <1>6 DEF vars, db
<1>7. CASE Serve
  <2>1. CASE Handle \/ WriteKey \/ Restart
    BY <1>3, <2>1 DEF Handle, WriteKey, Restart, db
  <2>2. CASE Reply
    <3>1. \A t \in Threads : job'[t].op = job[t].op /\ job'[t].step = job[t].step
      BY <1>1, <2>2 DEF Reply, Typed, JobsOK, Jobs
    <3> QED BY <1>1, <2>2, <3>1 DEF Reply, Roles, Paced, db
  <2> QED BY <1>7, <2>1, <2>2 DEF Serve
<1>8. CASE Ticks
  <2>1. ASSUME NEW op \in {"startup", "tick"}, Sync(op), op = "tick" => ordered = 0
        PROVE  Roles' /\ Paced'
    <3>1. PICK n : /\ Start(Ticker, n) /\ n.op = op /\ n.step \in {"gate", "sync"}
      <4>1. CASE row = NoCert
        <5> DEFINE n == [Idle EXCEPT !.op = op, !.step = "gate"]
        <5>1. Start(Ticker, n)
          BY <2>1, <4>1 DEF Sync
        <5>2. n.op = op /\ n.step = "gate"
          BY DEF Idle
        <5> QED BY <5>1, <5>2
      <4>2. CASE row # NoCert
        <5> DEFINE n == [Idle EXCEPT !.op = op, !.step = "sync", !.cert = row]
        <5>1. Start(Ticker, n)
          BY <2>1, <4>2 DEF Sync
        <5>2. n.op = op /\ n.step = "sync"
          BY DEF Idle
        <5> QED BY <5>1, <5>2
      <4> QED BY <4>1, <4>2
    <3>2. Roles' /\ job'[Ticker] = n
      BY <1>1, <1>4, <3>1
    <3> QED BY <2>1, <3>1, <3>2 DEF Sync, Paced, db
  <2>2. CASE Startup
    BY <2>1, <2>2 DEF Startup
  <2>3. CASE StartupOver
    BY <1>1, <1>4, <2>3, IdleOK DEF StartupOver, Paced, db
  <2>4. CASE TickBegin
    BY <2>1, <2>4 DEF TickBegin, Paced
  <2>5. CASE SyncAnswered
    <3> DEFINE n == [job[Ticker] EXCEPT !.step = "gate", !.cert = NoCert, !.answer = "none"]
    <3>1. n.op = job[Ticker].op /\ n.step = "gate"
      BY <1>1 DEF Jobs
    <3>2. Start(Ticker, n) /\ job[Ticker].step = "sync" /\ UNCHANGED <<gate, ordered>>
      BY <2>5 DEF SyncAnswered, At, db
    <3>3. Roles' /\ job'[Ticker] = n
      BY <1>1, <1>4, <3>1, <3>2 DEF Roles
    <3> QED BY <3>1, <3>2, <3>3 DEF Paced
  <2>6. CASE TickGate
    <3>1. gate' /\ ordered' = ordered /\ ordered = 0
      BY <2>6 DEF TickGate, At, Paced
    <3> DEFINE n == [job[Ticker] EXCEPT !.step = "order", !.domain = AutomaticDomain]
    <3>2. n.op = job[Ticker].op
      BY <1>1 DEF Jobs
    <3>3. Start(Ticker, n) \/ Start(Ticker, Idle)
      BY <2>6 DEF TickGate, AfterGate
    <3>4. Roles'
      BY <1>1, <1>4, <3>2, <3>3, IdleOK DEF Roles
    <3> QED BY <3>1, <3>4 DEF Paced
  <2> QED BY <1>8, <2>2, <2>3, <2>4, <2>5, <2>6 DEF Ticks
<1>9. CASE Patch
  BY <1>3, <1>9 DEF Patch
<1>10. CASE Halt
  <2>1. \A t \in Threads : job'[t].op = job[t].op /\ job'[t].step = job[t].step
    BY <1>1, <1>10 DEF Halt, Jobs
  <2> QED BY <1>1, <1>10, <2>1 DEF Halt, Roles, Paced, db
<1>11. CASE Quit
  BY <1>1, <1>11, IdleOK DEF Quit, Roles, Paced, db
<1>12. CASE Day
  BY <1>12 DEF Day, Roles, Paced, At
<1>13. ASSUME NEW t \in Threads, Issue(t) \/ OrderFails(t) PROVE Roles' /\ Paced'
  <2>1. PICK n : /\ Start(t, n) /\ n.op = job[t].op /\ n.step \in {"wait", "commit"}
    <3>1. CASE Issue(t)
      <4>1. PICK c : Start(t, [job[t] EXCEPT !.step = "wait", !.cert = c])
        BY <3>1 DEF Issue
      <4> DEFINE n == [job[t] EXCEPT !.step = "wait", !.cert = c]
      <4>2. n.op = job[t].op /\ n.step = "wait"
        BY <1>1 DEF Jobs
      <4> QED BY <4>1, <4>2
    <3>2. CASE OrderFails(t)
      <4> DEFINE n == [job[t] EXCEPT !.step = "commit", !.answer = "error"]
      <4>1. Start(t, n)
        BY <3>2 DEF OrderFails
      <4>2. n.op = job[t].op /\ n.step = "commit"
        BY <1>1 DEF Jobs
      <4> QED BY <4>1, <4>2
    <3> QED BY <1>13, <3>1, <3>2
  <2>2. Roles' /\ \A u \in Threads : job'[u] = IF u = t THEN n ELSE job[u]
    BY <1>1, <1>4, <2>1 DEF Roles
  <2>3. At(t, "order") /\ gate' = gate /\ (ordered' = ordered \/ CountOrder(t))
    BY <1>13 DEF Issue, OrderFails, db
  <2>4. CASE t = Ticker /\ job[t].op = "tick"
    <3>1. ordered = 0 /\ gate /\ job'[Ticker].step \in {"wait", "commit"}
      BY <1>1, <2>1, <2>2, <2>3, <2>4 DEF Paced, At
    <3> QED BY <2>2, <2>3, <3>1 DEF Paced, CountOrder
  <2>5. CASE ~(t = Ticker /\ job[t].op = "tick")
    <3>1. job[t].op # "tick"
      BY <1>2, <2>5 DEF Roles
    <3>2. ordered' = ordered
      BY <2>3, <3>1 DEF CountOrder, Typed, RestOK
    <3> QED BY <1>1, <2>1, <2>2, <2>3, <3>1, <3>2 DEF Paced
  <2> QED BY <2>4, <2>5
<1>14. ASSUME NEW t \in Threads, Answered(t) \/ Commit(t) \/ CommitFails(t) \/ GiveUp(t)
       PROVE  Roles' /\ Paced'
  <2>1. PICK n : /\ Start(t, n) /\ n.op \in {job[t].op, "none"}
                 /\ n.step \in {"commit", "idle", job[t].step}
    <3>2. CASE Answered(t)
      <4> DEFINE n == [job[t] EXCEPT !.step = "commit"]
      <4>1. Start(t, n)
        BY <3>2 DEF Answered
      <4>2. n.op = job[t].op /\ n.step = "commit"
        BY <1>1 DEF Jobs
      <4> QED BY <4>1, <4>2
    <3>3. CASE Commit(t) \/ CommitFails(t)
      BY <3>3, IdleOK DEF Commit, CommitFails
    <3>4. CASE GiveUp(t)
      <4> DEFINE n == [job[t] EXCEPT !.answer = "error"]
      <4>1. Start(t, n)
        BY <1>1, <3>4 DEF GiveUp, Typed, JobsOK, Start
      <4>2. n.op = job[t].op /\ n.step = job[t].step
        BY <1>1 DEF Jobs
      <4> QED BY <4>1, <4>2
    <3> QED BY <1>14, <3>2, <3>3, <3>4
  <2>2. Roles' /\ \A u \in Threads : job'[u] = IF u = t THEN n ELSE job[u]
    BY <1>1, <1>4, <2>1 DEF Roles
  <2>3. UNCHANGED <<gate, ordered>>
    BY <1>14 DEF Answered, Commit, CommitFails, GiveUp, db
  <2> QED BY <1>1, <2>1, <2>2, <2>3 DEF Paced
<1>15. ASSUME NEW w \in Workers,
              \/ IssueBegin(w) \/ StartBegin(w) \/ ConfirmBegin(w) \/ StartOrder(w) \/ NotVisible(w)
       PROVE  Roles' /\ Paced'
  <2>1. CASE IssueBegin(w)
    BY <1>5, <2>1 DEF IssueBegin, Idle, db
  <2>2. CASE StartBegin(w)
    BY <1>5, <2>2 DEF StartBegin, Idle, db
  <2>3. CASE ConfirmBegin(w)
    BY <1>3, <1>5, <2>3 DEF ConfirmBegin, Idle
  <2>4. CASE StartOrder(w)
    <3>1. PICK o : Start(w, [job[w] EXCEPT !.step = "commit", !.order = o, !.answer = "accepted"])
      BY <2>4 DEF StartOrder
    <3>2. [job[w] EXCEPT !.step = "commit", !.order = o, !.answer = "accepted"].op = job[w].op
      BY <1>1 DEF Jobs
    <3> QED BY <1>5, <2>4, <3>1, <3>2 DEF StartOrder, Roles, db
  <2>5. CASE NotVisible(w)
    BY <1>5, <2>5, IdleOK DEF NotVisible, db
  <2> QED BY <1>15, <2>1, <2>2, <2>3, <2>4, <2>5
<1> QED BY <1>6, <1>7, <1>8, <1>9, <1>10, <1>11, <1>12, <1>13, <1>14, <1>15 DEF Next, Proceed

\* Whatever fails, stops or restarts and whoever else orders: between two
\* openings of its gate the tick places one order at most (cert_renewal.py:56).
THEOREM OneOrderEachDay == Spec => []OneOrderADay
<1>1. Init => Typed /\ Roles /\ Paced
  BY TypeInit, PacedInit
<1>2. Typed /\ Roles /\ Paced /\ [Next]_vars => (Typed /\ Roles /\ Paced)'
  BY TypeNext, PacedNext
<1>3. Paced => OneOrderADay
  BY DEF Paced, OneOrderADay
<1> QED BY <1>1, <1>2, <1>3, PTL DEF Spec

-----------------------------------------------------------------------------
(***************************************************************************)
(* The pair on disk.                                                       *)
(***************************************************************************)

\* What an installation has written, and the pair it would put back.
Installing ==
  /\ srv = "key" => live.crt = Asked
  /\ srv = "restart" => live.crt = live.key
  /\ srv \in {"key", "restart"} /\ previous.crt # previous.key => torn

LEMMA PairNext == Typed /\ Installing /\ PairMatches /\ [Next]_vars => Installing' /\ PairMatches'
<1> SUFFICES ASSUME Typed, Installing, PairMatches, [Next]_vars PROVE Installing' /\ PairMatches'
  OBVIOUS
<1>1. srv # "idle" => calls # <<>>
  BY DEF Typed, SurfaceOK
\* The call that is being handled stays the first one.
<1>2. ASSUME UNCHANGED <<live, previous, srv, torn>>, calls # <<>> => Asked' = Asked
      PROVE  Installing' /\ PairMatches'
  BY <1>1, <1>2 DEF Installing, PairMatches
<1>3. ASSUME UNCHANGED surface PROVE Installing' /\ PairMatches'
  BY <1>2, <1>3 DEF surface, Asked
<1>4. ASSUME NEW t, NEW c \in Certs, t \in Threads, Send(t, c), calls # <<>> PROVE Asked' = Asked
  <2>1. [worker |-> t, cert |-> c] \in Calls
    BY <1>4 DEF Calls
  <2>2. Len(calls) \in Nat \ {0} /\ calls \in Seq(Calls)
    BY <1>4, EmptySeq DEF Typed, CallsOK
  <2>3. calls'[1] = calls[1]
    BY <1>4, <2>1, <2>2, AppendProperties DEF Send
  <2> QED BY <2>3 DEF Asked
<1>5. ASSUME calls # <<>>,
             \/ calls' = [i \in DOMAIN calls |-> [calls[i] EXCEPT !.worker = NoWorker]]
             \/ \E t : calls' = [i \in DOMAIN calls |->
                  IF calls[i].worker = t THEN [calls[i] EXCEPT !.worker = NoWorker] ELSE calls[i]]
      PROVE  Asked' = Asked
  <2>1. calls[1] \in Calls /\ Len(calls) \in Nat \ {0}
    BY <1>5, AskedType DEF Typed
  <2>2. 1 \in DOMAIN calls
    BY <2>1 DEF Typed, CallsOK
  <2>3. [calls[1] EXCEPT !.worker = NoWorker].cert = calls[1].cert
    BY <2>1 DEF Calls
  <2>4. calls'[1] = calls[1] \/ calls'[1] = [calls[1] EXCEPT !.worker = NoWorker]
    BY <1>5, <2>2
  <2> QED BY <2>3, <2>4 DEF Asked
<1>6. live \in [crt : Pairs, key : Pairs]
  BY DEF Typed, SurfaceOK
<1>7. CASE UNCHANGED vars
  BY <1>3, <1>7 DEF vars
<1>8. CASE Handle
  BY <1>6, <1>8 DEF Handle, Installing, PairMatches, Asked
<1>9. CASE WriteKey
  BY <1>6, <1>9 DEF WriteKey, Installing, PairMatches, Asked
<1>10. CASE Restart
  BY <1>10 DEF Restart, Installing, PairMatches
<1>11. CASE Reply
  BY <1>11 DEF Reply, Installing, PairMatches
<1>12. CASE Ticks
  <2>1. ASSUME NEW op, Sync(op) PROVE Installing' /\ PairMatches'
    <3>1. row # NoCert => row \in Certs /\ Ticker \in Threads
      BY DEF Typed, DbOK, Threads
    <3>2. calls # <<>> => Asked' = Asked
      BY <1>4, <2>1, <3>1 DEF Sync, Asked
    <3> QED BY <1>2, <2>1, <3>2 DEF Sync
  <2> QED BY <1>3, <1>12, <2>1 DEF Ticks, Startup, StartupOver, TickBegin, SyncAnswered, TickGate
<1>13. CASE Patch
  BY <1>3, <1>13 DEF Patch
<1>14. CASE Halt
  <2>1. /\ srv' = "idle"
        /\ \/ live' = live /\ (torn \/ srv = "key" => torn')
           \/ live' = Both(Placeholder)
    BY <1>14 DEF Halt
  <2> QED BY <2>1 DEF Installing, PairMatches, Both
<1>15. CASE Quit
  BY <1>2, <1>5, <1>15 DEF Quit
<1>16. CASE Day
  BY <1>3, <1>16 DEF Day
<1>17. ASSUME NEW t \in Threads, Proceed(t) \/ CommitFails(t) PROVE Installing' /\ PairMatches'
  <2>1. CASE Issue(t)
    <3>1. PICK c \in Certs : Send(t, c)
      BY <2>1 DEF Issue, Least
    <3>2. calls # <<>> => Asked' = Asked
      BY <1>4, <3>1
    <3> QED BY <1>2, <2>1, <3>2 DEF Issue
  <2> QED BY <1>3, <1>17, <2>1 DEF Proceed, OrderFails, Answered, Commit, CommitFails
<1>18. ASSUME NEW t \in Threads, GiveUp(t) PROVE Installing' /\ PairMatches'
  <2>1. calls # <<>> => Asked' = Asked
    BY <1>5, <1>18 DEF GiveUp
  <2> QED BY <1>2, <1>18, <2>1 DEF GiveUp
<1>19. ASSUME NEW w \in Workers,
              \/ IssueBegin(w) \/ StartBegin(w) \/ ConfirmBegin(w) \/ StartOrder(w) \/ NotVisible(w)
       PROVE  Installing' /\ PairMatches'
  BY <1>3, <1>19 DEF IssueBegin, StartBegin, ConfirmBegin, StartOrder, NotVisible
<1> QED BY <1>7, <1>8, <1>9, <1>10, <1>11, <1>12, <1>13, <1>14, <1>15, <1>16, <1>17, <1>18, <1>19
        DEF Next, Serve

\* For any faults and any number of installations at a time: certificate and key
\* on disk are of one pair, but between the two renames and after an
\* installation that was cut there (_write_tls_files, _install_tls_certificate).
THEOREM PairsMatch == Spec => []PairMatches
<1>1. Init => Typed /\ Installing /\ PairMatches
  BY TypeInit DEF Init, Installing, PairMatches, Both
<1>2. Typed /\ Installing /\ PairMatches /\ [Next]_vars => (Typed /\ Installing /\ PairMatches)'
  BY TypeNext, PairNext
<1> QED BY <1>1, <1>2, PTL DEF Spec
=============================================================================
