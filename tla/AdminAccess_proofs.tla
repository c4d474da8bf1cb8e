-------------------------- MODULE AdminAccess_proofs --------------------------
(***************************************************************************)
(* Proofs about AdminAccess, for any accounts, threads and processes,      *)
(* sources, lifetimes, bounds and groups of operations.                    *)
(***************************************************************************)
EXTENDS AdminAccess, SequenceTheorems, FiniteSetTheorems, TLAPS

ChangeOps == OwnOps \cup CliOps \cup {"deactivate"}

\* What an operation has set by the time it is at a step.
JobOK(j) ==
  /\ j.op \in {"login", "setup"} => j.admin \in Admins /\ j.step = "commit"
  /\ j.op = "login" => j.source \in Sources
  /\ j.op \in ChangeOps \cup StatusOps => j.target \in Admins
  /\ j.op \in OwnOps \cup {"logout"} => j.token \in SessionIds
  /\ j.step = "reauth" => j.op \in OwnOps
  /\ j.step = "status" => j.op \in StatusOps
  /\ j.step = "select" => j.op \in ChangeOps

Typed == TypeOK /\ \A w \in Workers : JobOK(job[w])

\* Jobs name sessions that have been issued.
Named ==
  \A w \in Workers, s \in SessionIds :
    s \in job[w].todo \/ s = job[w].token => sessions[s] \in Session

-----------------------------------------------------------------------------
(***************************************************************************)
(* Type correctness, with the locks.                                       *)
(***************************************************************************)

LEMMA IdleOK == Idle \in Job /\ JobOK(Idle) /\ Idle.op = "none" /\ Idle.step = "idle"
BY BoundAssumption DEF Idle, Job, JobOK, Account, Absent, Secrets, TotpSteps, NoSecret, NoStep,
   OwnOps, CliOps, StatusOps, ChangeOps

LEMMA TypeInit == Init => Typed
<1> SUFFICES ASSUME Init PROVE Typed
  OBVIOUS
<1>1. profile \in Profiles /\ profile.failures \in Nat
  BY BoundAssumption DEF Init
<1>2. <<>> \in Failures /\ Len(<<>>) = 0
  BY DEF Failures
<1>3. failures \in [Admins \cup {NoAdmin} -> Failures]
        /\ \A k \in Admins \cup {NoAdmin} : Len(failures[k]) <= profile.failures
  BY <1>1, <1>2 DEF Init
<1>4. accounts \in [Admins -> Account] /\ epoch \in [Admins -> 0..MaxChanges]
  BY BoundAssumption DEF Init, Account, Absent, Secrets, TotpSteps, NoSecret, NoStep
<1>5. sessions \in [SessionIds -> Session \cup {Unissued}] /\ now \in 1..MaxTime
  BY BoundAssumption DEF Init
<1>6. Idle \in Job /\ JobOK(Idle) /\ Idle.op = "none"
  BY IdleOK
<1>7. \A w \in Workers : job[w] = Idle /\ w # NoWorker
  BY NoneAssumption DEF Init
<1> QED BY <1>1, <1>3, <1>4, <1>5, <1>6, <1>7 DEF Init, Typed, TypeOK, StatusOps

\* What the configured bounds say of the numbers.
LEMMA Bounds ==
  ASSUME TypeOK
  PROVE  /\ now \in Nat \ {0} /\ now - 1 \in TotpSteps /\ now \in TotpSteps /\ now + 1 \in TotpSteps
         /\ profile.emails \subseteq Admins /\ profile.sources \subseteq Sources
         /\ profile.failures \in Nat /\ profile.changes \in 0..MaxChanges
         /\ profile.sessions \in 0..MaxSessions /\ profile.time \in 1..MaxTime
         /\ NoStep \in TotpSteps /\ NoSecret \in Secrets
BY BoundAssumption DEF TypeOK, TotpSteps, NoStep, NoSecret, Secrets

\* A worker that starts or goes on with a job that needs neither lock to be
\* taken or released.
LEMMA StartType ==
  ASSUME Typed, NEW w \in Workers, NEW j \in Job, JobOK(j), Start(w, j),
         \/ /\ j.op = job[w].op /\ job[w].step # "status"
            /\ j.step # "status"
         \/ /\ job[w] = Idle /\ j.op # "login"
            /\ j.op \in StatusOps => j.step = "status",
         UNCHANGED locks
  PROVE  /\ job' \in [Workers -> Job] /\ \A v \in Workers : JobOK(job[v])'
         /\ loginLock' \in Workers \cup {NoWorker} /\ statusLock' \in Workers \cup {NoWorker}
         /\ \A v \in Workers :
              /\ loginLock' = v <=> job'[v].op = "login"
              /\ statusLock' = v <=> job'[v].op \in StatusOps /\ job'[v].step # "status"
<1>1. Idle.op = "none" /\ "none" \notin StatusOps
  BY DEF Idle, StatusOps
<1>2. job' = [job EXCEPT ![w] = j] /\ job \in [Workers -> Job]
  BY DEF Start, Typed, TypeOK
<1>3. \A v \in Workers : job'[v] = IF v = w THEN j ELSE job[v]
  BY <1>2
<1>4. \A v \in Workers : JobOK(job'[v])
  BY <1>3 DEF Typed
<1>5. \A v \in Workers :
         /\ loginLock' = v <=> job'[v].op = "login"
         /\ statusLock' = v <=> job'[v].op \in StatusOps /\ job'[v].step # "status"
  BY <1>1, <1>3 DEF Typed, TypeOK, locks
<1> QED BY <1>2, <1>4, <1>5 DEF Typed, TypeOK, locks, JobOK

\* A worker that is done.
LEMMA FinishType ==
  ASSUME Typed, NEW w \in Workers, Finish(w)
  PROVE  /\ job' \in [Workers -> Job] /\ \A v \in Workers : JobOK(job[v])'
         /\ loginLock' \in Workers \cup {NoWorker} /\ statusLock' \in Workers \cup {NoWorker}
         /\ \A v \in Workers :
              /\ loginLock' = v <=> job'[v].op = "login"
              /\ statusLock' = v <=> job'[v].op \in StatusOps /\ job'[v].step # "status"
<1>1. Idle \in Job /\ JobOK(Idle) /\ Idle.op = "none" /\ "none" \notin StatusOps
  BY IdleOK DEF StatusOps
<1>2. job' = [job EXCEPT ![w] = Idle] /\ job \in [Workers -> Job]
  BY DEF Finish, Start, Typed, TypeOK
<1>3. \A v \in Workers : job'[v] = IF v = w THEN Idle ELSE job[v]
  BY <1>2
<1>4. \A v \in Workers : JobOK(job'[v])
  BY <1>1, <1>3 DEF Typed
<1>5. \A v \in Workers :
         /\ loginLock' = v <=> job'[v].op = "login"
         /\ statusLock' = v <=> job'[v].op \in StatusOps /\ job'[v].step # "status"
  BY <1>1, <1>3, NoneAssumption DEF Typed, TypeOK, Finish
<1> QED BY <1>1, <1>2, <1>4, <1>5 DEF Typed, TypeOK, Finish, JobOK

LEMMA IssueType ==
  ASSUME TypeOK, NEW a \in Admins, NEW seen \in 0..MaxChanges, NEW r \in BOOLEAN,
         Issue(a, seen, r)
  PROVE  sessions' \in [SessionIds -> Session \cup {Unissued}]
<1>1. now + SessionTTL \in Nat
  BY BoundAssumption DEF TypeOK
<1>2. [owner |-> a, revoked |-> FALSE, expires |-> now + SessionTTL,
       epoch |-> seen, raced |-> r] \in Session
  BY <1>1 DEF Session
<1> QED BY <1>2 DEF Issue, TypeOK

LEMMA RecordFailureType ==
  ASSUME TypeOK, NEW k, NEW source \in Sources, RecordFailure(k, source)
  PROVE  /\ failures' \in [Admins \cup {NoAdmin} -> Failures]
         /\ \A l \in Admins \cup {NoAdmin} : Len(failures'[l]) <= profile.failures
<1> DEFINE f == [at |-> now, from |-> source]
<1>1. f \in [at : Nat, from : Sources]
  BY Bounds
<1>2. failures' = [failures EXCEPT ![k] = Append(failures[k], f)]
  BY DEF RecordFailure
<1>3. ASSUME NEW l \in Admins \cup {NoAdmin}
      PROVE  failures'[l] \in Failures /\ Len(failures'[l]) <= profile.failures
  <2>1. failures[l] \in Failures /\ Len(failures[l]) <= profile.failures
    BY DEF TypeOK
  <2>2. CASE l # k
    BY <1>2, <2>1, <2>2 DEF TypeOK
  <2>3. CASE l = k
    <3>1. failures'[l] = Append(failures[l], f)
      BY <1>2, <2>3 DEF TypeOK
    <3>2. /\ Append(failures[l], f) \in Seq([at : Nat, from : Sources])
          /\ Len(Append(failures[l], f)) = Len(failures[l]) + 1
          /\ Len(failures[l]) \in Nat
      BY <1>1, <2>1, AppendProperties, LenProperties DEF Failures
    <3>3. Len(failures[l]) < profile.failures
      BY <2>3 DEF RecordFailure
    <3> HIDE DEF f
    <3> QED BY <3>1, <3>2, <3>3, Bounds DEF Failures
  <2> QED BY <2>2, <2>3
<1> HIDE DEF f
<1>4. failures' \in [Admins \cup {NoAdmin} -> Failures]
  BY <1>2, <1>3 DEF TypeOK
<1> QED BY <1>3, <1>4

-----------------------------------------------------------------------------
\* One step per action: the accounts' life, then requests of a session.
LEMMA TypeLogin ==
  ASSUME Typed, NEW w \in Workers, UNCHANGED profile,
         \/ SetupCheck(w) \/ SetupCommit(w)
         \/ LoginCommit(w) \/ LoginWrong(w) \/ LoginUndecided(w)
         \/ \E a \in profile.emails : LoginRead(w, a) \/ LoginLockedOut(w, a)
  PROVE  Typed'
<1> USE DEF db, history
<1>0. TypeOK /\ JobOK(job[w]) /\ job[w] \in Job
  BY DEF Typed, TypeOK
<1>1. CASE SetupCheck(w)
  <2>1. PICK a \in profile.emails :
          Start(w, [Idle EXCEPT !.op = "setup", !.step = "commit", !.admin = a])
    BY <1>1 DEF SetupCheck
  <2> DEFINE j == [Idle EXCEPT !.op = "setup", !.step = "commit", !.admin = a]
  <2>2. j \in Job /\ JobOK(j) /\ j.op = "setup" /\ "setup" \notin StatusOps
    BY <1>0, Bounds, IdleOK DEF Job, JobOK, JobOps, OwnOps, CliOps, StatusOps, ChangeOps
  <2>3. job[w] = Idle /\ UNCHANGED locks
    BY <1>1 DEF SetupCheck, Free
  <2> HIDE DEF j
  <2> QED BY <1>1, <2>1, <2>2, <2>3, StartType DEF SetupCheck, Typed, TypeOK, j
<1>2. CASE SetupCommit(w)
  <2>1. job[w].admin \in Admins
    BY <1>0, <1>2 DEF SetupCommit, At, JobOK
  <2>2. NewAccount \in Account
    BY <1>0, Bounds DEF NewAccount, Account
  <2>3. accounts' \in [Admins -> Account]
    BY <1>2, <2>1, <2>2 DEF SetupCommit, Typed, TypeOK
  <2>4. sessions' \in [SessionIds -> Session \cup {Unissued}]
    <3>1. 0 \in 0..MaxChanges
      BY BoundAssumption
    <3> QED BY <1>0, <1>2, <2>1, <3>1, IssueType DEF SetupCommit, TypeOK
  <2>5. Finish(w)
    BY <1>2 DEF SetupCommit
  <2> QED BY <1>2, <2>3, <2>4, <2>5, FinishType DEF SetupCommit, Typed, TypeOK
<1>3. CASE LoginCommit(w)
  <2>1. job[w].admin \in Admins
    BY <1>0, <1>3 DEF LoginCommit, At, JobOK
  <2>2. sessions' \in [SessionIds -> Session \cup {Unissued}]
    <3>1. job[w].epoch \in 0..MaxChanges
      BY <1>0 DEF Job
    <3>2. Raced(job[w]) \in BOOLEAN
      BY DEF Raced, Changing
    <3> QED BY <1>0, <1>3, <2>1, <3>1, <3>2, IssueType DEF LoginCommit
  <2>3. /\ accounts' \in [Admins -> Account]
        /\ spent' \subseteq Admins \X Secrets \X TotpSteps
        /\ replayed' \subseteq Admins \X Secrets \X TotpSteps
    <3>1. CASE UNCHANGED <<accounts, spent, replayed>>
      BY <3>1 DEF Typed, TypeOK
    <3>2. ASSUME NEW t \in FreshSteps(job[w].row.last),
                 accounts' = [accounts EXCEPT ![job[w].admin].last = t],
                 replayed' = replayed \cup ({<<job[w].admin, job[w].row.secret, t>>} \cap spent),
                 spent' = {<<job[w].admin, job[w].row.secret, t>>}
                   \cup {c \in spent : c[1] = job[w].admin => c[2] = job[w].row.secret}
          PROVE  /\ accounts' \in [Admins -> Account]
                 /\ spent' \subseteq Admins \X Secrets \X TotpSteps
                 /\ replayed' \subseteq Admins \X Secrets \X TotpSteps
      <4>1. t \in TotpSteps
        BY <1>0, Bounds, BoundAssumption DEF FreshSteps, TotpSteps
      <4>2. job[w].row.secret \in Secrets
        BY <1>0 DEF Job, Account
      <4>3. <<job[w].admin, job[w].row.secret, t>> \in Admins \X Secrets \X TotpSteps
        BY <2>1, <4>1, <4>2
      <4>4. accounts' \in [Admins -> Account]
        BY <2>1, <3>2, <4>1 DEF Typed, TypeOK, Account
      <4> QED BY <1>0, <3>2, <4>3, <4>4 DEF TypeOK
    <3> QED BY <1>3, <3>1, <3>2 DEF LoginCommit
  <2>4. failures' = [failures EXCEPT ![job[w].admin] = <<>>]
    BY <1>3 DEF LoginCommit
  <2>5. /\ failures' \in [Admins \cup {NoAdmin} -> Failures]
        /\ \A k \in Admins \cup {NoAdmin} : Len(failures'[k]) <= profile.failures
    <3>1. <<>> \in Failures /\ Len(<<>>) = 0 /\ 0 <= profile.failures
      BY <1>0, Bounds DEF Failures
    <3>2. \A k \in Admins \cup {NoAdmin} :
            failures'[k] = IF k = job[w].admin THEN <<>> ELSE failures[k]
      BY <1>0, <2>4 DEF TypeOK
    <3>3. \A k \in Admins \cup {NoAdmin} : Len(failures'[k]) <= profile.failures
      BY <1>0, <3>1, <3>2 DEF TypeOK
    <3> QED BY <1>0, <2>4, <3>1, <3>3 DEF TypeOK
  <2>6. Finish(w)
    BY <1>3 DEF LoginCommit
  <2> QED BY <1>3, <2>2, <2>3, <2>5, <2>6, FinishType DEF LoginCommit, Typed, TypeOK
<1>4. CASE LoginWrong(w)
  <2>1. job[w].source \in Sources
    BY <1>0, <1>4 DEF LoginWrong, At, JobOK
  <2>2. /\ failures' \in [Admins \cup {NoAdmin} -> Failures]
        /\ \A k \in Admins \cup {NoAdmin} : Len(failures'[k]) <= profile.failures
    BY <1>0, <1>4, <2>1, RecordFailureType DEF LoginWrong
  <2>3. Finish(w)
    BY <1>4 DEF LoginWrong
  <2> QED BY <1>4, <2>2, <2>3, FinishType DEF LoginWrong, Typed, TypeOK
<1>5. CASE LoginUndecided(w)
  <2>1. Finish(w)
    BY <1>5 DEF LoginUndecided
  <2> QED BY <1>5, <2>1, FinishType DEF LoginUndecided, Typed, TypeOK
<1>6. ASSUME NEW a \in profile.emails, LoginRead(w, a) PROVE Typed'
  <2>1. PICK source \in profile.sources :
          Start(w, [Idle EXCEPT !.op = "login", !.step = "commit", !.admin = a,
                       !.source = source, !.row = accounts[a], !.epoch = epoch[a]])
    BY <1>6 DEF LoginRead
  <2> DEFINE j == [Idle EXCEPT !.op = "login", !.step = "commit", !.admin = a,
                       !.source = source, !.row = accounts[a], !.epoch = epoch[a]]
  <2>2. a \in Admins /\ source \in Sources
    BY <1>0, Bounds
  <2>3. accounts[a] \in Account /\ epoch[a] \in 0..MaxChanges
    BY <1>0, <2>2 DEF TypeOK
  <2>4. j \in Job /\ JobOK(j) /\ j.op = "login" /\ "login" \notin StatusOps
    BY <2>2, <2>3, <1>0, IdleOK DEF Job, JobOK, JobOps, OwnOps, CliOps, StatusOps, ChangeOps
  <2>5. job[w] = Idle /\ Idle.op = "none" /\ "none" \notin StatusOps
    BY <1>6 DEF LoginRead, Free, Idle, StatusOps
  <2> HIDE DEF j
  <2>6. job' = [job EXCEPT ![w] = j] /\ loginLock = NoWorker /\ loginLock' = w
        /\ statusLock' = statusLock
    BY <1>6, <2>1 DEF LoginRead, Start, j
  <2>7. \A v \in Workers : job'[v] = IF v = w THEN j ELSE job[v]
    BY <1>0, <2>6 DEF TypeOK
  <2>8. job' \in [Workers -> Job] /\ \A v \in Workers : JobOK(job'[v])
    BY <2>4, <2>6, <2>7 DEF Typed, TypeOK
  <2>9. \A v \in Workers :
           /\ loginLock' = v <=> job'[v].op = "login"
           /\ statusLock' = v <=> job'[v].op \in StatusOps /\ job'[v].step # "status"
    <3>1. \A v \in Workers : v # NoWorker
      BY NoneAssumption
    <3> QED BY <1>0, <2>4, <2>5, <2>6, <2>7, <3>1 DEF TypeOK
  <2> QED BY <1>6, <2>6, <2>8, <2>9 DEF LoginRead, Typed, TypeOK, JobOK
<1>7. ASSUME NEW a \in profile.emails, LoginLockedOut(w, a) PROVE Typed'
  BY <1>7 DEF LoginLockedOut, Typed, TypeOK, JobOK, locks
<1> QED BY <1>1, <1>2, <1>3, <1>4, <1>5, <1>6, <1>7

\* Requests and commands up to their transaction.
LEMMA TypeUntilCommit ==
  ASSUME Typed, NEW w \in Workers, UNCHANGED profile,
         \/ Reauth(w) \/ TakeStatus(w) \/ SelectSessions(w)
         \/ \E a \in Admins, op \in CliOps : Command(w, op, a)
         \/ \E s \in SessionIds, op \in RequestOps : Authenticate(w, op, s)
  PROVE  Typed'
<1> USE DEF db, history
<1>0. TypeOK /\ JobOK(job[w]) /\ job[w] \in Job /\ job \in [Workers -> Job]
  BY DEF Typed, TypeOK
<1>1. CASE Reauth(w)
  <2>1. job[w].op \in OwnOps /\ job[w].step = "reauth"
    BY <1>0, <1>1 DEF Reauth, JobOK
  <2>2. ASSUME NEW t \in IF job[w].op = "confirm_totp" THEN FreshSteps(NoStep) ELSE {NoStep},
               job' = [job EXCEPT ![w].step = "select", ![w].code = t], UNCHANGED failures
        PROVE  Typed'
    <3> DEFINE j == [job[w] EXCEPT !.step = "select", !.code = t]
    <3>1. t \in TotpSteps
      BY <1>0, <2>2, Bounds, BoundAssumption DEF FreshSteps, TotpSteps
    <3>2. j \in Job /\ JobOK(j) /\ j.op = job[w].op /\ j.step = "select"
      BY <1>0, <2>1, <3>1 DEF Job, JobOK, OwnOps, ChangeOps
    <3>3. Start(w, j)
      BY <2>2, <1>0 DEF Start
    <3> HIDE DEF j
    <3> QED BY <1>1, <2>1, <2>2, <3>2, <3>3, StartType DEF Reauth, Typed, TypeOK
  <2>3. ASSUME NEW source \in profile.sources, RecordFailure(job[w].target, source), Start(w, Idle)
        PROVE  Typed'
    <3>1. source \in Sources
      BY <1>0, Bounds
    <3>2. /\ failures' \in [Admins \cup {NoAdmin} -> Failures]
          /\ \A k \in Admins \cup {NoAdmin} : Len(failures'[k]) <= profile.failures
      BY <1>0, <2>3, <3>1, RecordFailureType
    <3>3. Finish(w)
      BY <1>0, <1>1, <2>1, <2>3 DEF Finish, Reauth, locks, TypeOK, OwnOps, StatusOps
    <3> QED BY <1>1, <3>2, <3>3, FinishType DEF Reauth, Typed, TypeOK
  <2> QED BY <1>1, <2>2, <2>3 DEF Reauth
<1>2. CASE TakeStatus(w)
  <2>1. job[w].op \in StatusOps /\ job[w].step = "status"
    BY <1>0, <1>2 DEF TakeStatus, JobOK
  <2>2. CASE Start(w, Idle) /\ UNCHANGED statusLock
    <3>1. Finish(w)
      BY <1>0, <1>2, <2>1, <2>2 DEF Finish, TakeStatus, TypeOK, StatusOps
    <3> QED BY <1>2, <3>1, FinishType DEF TakeStatus, Typed, TypeOK
  <2>3. ASSUME statusLock' = w,
               job' = [job EXCEPT ![w].step =
                         IF job[w].op = "deactivate" THEN "select" ELSE "commit"]
        PROVE  Typed'
    <3> DEFINE j == [job[w] EXCEPT !.step =
                       IF job[w].op = "deactivate" THEN "select" ELSE "commit"]
    <3>1. j \in Job /\ JobOK(j) /\ j.op \in StatusOps /\ j.op # "login" /\ j.step # "status"
      BY <1>0, <2>1 DEF Job, JobOK, StatusOps, OwnOps, ChangeOps
    <3> HIDE DEF j
    <3>2. \A v \in Workers : job'[v] = IF v = w THEN j ELSE job[v]
      BY <1>0, <2>3 DEF j
    <3>3. job' \in [Workers -> Job] /\ \A v \in Workers : JobOK(job'[v])
      BY <1>0, <2>3, <3>1, <3>2 DEF Typed
    <3>4. statusLock = NoWorker /\ w # NoWorker /\ loginLock' = loginLock
      BY <1>2, NoneAssumption DEF TakeStatus
    <3>5. \A v \in Workers :
             /\ loginLock' = v <=> job'[v].op = "login"
             /\ statusLock' = v <=> job'[v].op \in StatusOps /\ job'[v].step # "status"
      BY <1>0, <2>1, <2>3, <3>1, <3>2, <3>4, NoneAssumption DEF TypeOK, StatusOps
    <3> QED BY <1>2, <2>3, <3>3, <3>5 DEF TakeStatus, Typed, TypeOK, JobOK
  <2> QED BY <1>2, <2>2, <2>3 DEF TakeStatus
<1>3. CASE SelectSessions(w)
  <2> DEFINE j == [job[w] EXCEPT !.step = "commit",
                !.todo = Unrevoked(job[w].target)
                           \ (IF job[w].op \in OwnOps THEN {job[w].token} ELSE {})]
  <2>1. job[w].op \in ChangeOps /\ job[w].step = "select"
    BY <1>0, <1>3 DEF SelectSessions, JobOK
  <2>2. j \in Job /\ JobOK(j) /\ j.op = job[w].op /\ j.step = "commit"
    BY <1>0, <2>1 DEF Job, JobOK, ChangeOps, Unrevoked
  <2>3. Start(w, j)
    BY <1>0, <1>3 DEF SelectSessions, Start
  <2> HIDE DEF j
  <2> QED BY <1>3, <2>1, <2>2, <2>3, StartType DEF SelectSessions, Typed, TypeOK
<1>4. ASSUME NEW a \in Admins, NEW op \in CliOps, Command(w, op, a) PROVE Typed'
  <2> DEFINE j == [Idle EXCEPT !.op = op, !.step = "select", !.target = a]
  <2>1. j \in Job /\ JobOK(j) /\ j.op \in CliOps /\ Start(w, j)
    BY <1>4, IdleOK DEF Command, Job, JobOK, JobOps, OwnOps, CliOps, StatusOps, ChangeOps
  <2>2. j.op # "login" /\ j.op \notin StatusOps
    BY <2>1 DEF CliOps, StatusOps
  <2> HIDE DEF j
  <2> QED BY <1>4, <2>1, <2>2, StartType DEF Command, Free, Typed, TypeOK
<1>5. ASSUME NEW s \in SessionIds, NEW op \in RequestOps, Authenticate(w, op, s) PROVE Typed'
  <2>2. sessions[s].owner \in Admins
    <3>1. ~sessions[s].revoked
      BY <1>5 DEF Authenticate, Authenticated, Valid
    <3>2. Unissued.revoked
      BY DEF Unissued
    <3>3. sessions[s] \in Session
      BY <1>0, <3>1, <3>2 DEF TypeOK
    <3> QED BY <3>3 DEF Session
  <2>1. PICK target \in Admins :
          Start(w, [Idle EXCEPT !.op = op, !.step = FirstStep(op), !.target = target, !.token = s])
    BY <1>5, <2>2 DEF Authenticate
  <2> DEFINE j == [Idle EXCEPT !.op = op, !.step = FirstStep(op), !.target = target, !.token = s]
  <2>3. FirstStep(op) = IF op \in OwnOps THEN "reauth"
                        ELSE IF op \in StatusOps THEN "status" ELSE "commit"
    BY DEF FirstStep, OwnOps, StatusOps
  <2>4. j \in Job /\ JobOK(j) /\ j.op = op /\ j.step = FirstStep(op)
    BY <2>3, IdleOK DEF Job, JobOK, JobOps, RequestOps, OwnOps, CliOps, StatusOps, ChangeOps
  <2>5. op # "login" /\ (op \in StatusOps => j.step = "status")
    BY <2>3, <2>4 DEF RequestOps, OwnOps, StatusOps
  <2> HIDE DEF j
  <2> QED BY <1>5, <2>1, <2>4, <2>5, StartType DEF Authenticate, Free, Typed, TypeOK, j
<1> QED BY <1>1, <1>2, <1>3, <1>4, <1>5

LEMMA ChangedType ==
  ASSUME TypeOK, NEW w \in Workers, job[w].target \in Admins, epoch[job[w].target] < profile.changes
  PROVE  Changed(job[w]) \in Account
<1>1. /\ accounts[job[w].target] \in Account /\ job[w] \in Job
      /\ epoch[job[w].target] + 1 \in Secrets
  BY Bounds, BoundAssumption DEF TypeOK, Secrets
<1>2. job[w].code \in TotpSteps /\ NoStep \in TotpSteps /\ NoSecret \in Secrets
  BY <1>1, Bounds DEF Job
<1> QED BY <1>1, <1>2 DEF Changed, Account

\* Their transactions.
LEMMA TypeCommit ==
  ASSUME Typed, Named, NEW w \in Workers, UNCHANGED profile,
         \/ ChangeCommit(w) \/ Reactivate(w) \/ Logout(w) \/ Fails(w)
         \/ \E a \in profile.emails : CreateAdmin(w, a)
  PROVE  Typed'
<1> USE DEF db, history
<1>0. TypeOK /\ JobOK(job[w]) /\ job[w] \in Job
  BY DEF Typed, TypeOK
<1>1. CASE ChangeCommit(w)
  <2> DEFINE a == job[w].target
  <2>1. a \in Admins /\ epoch[a] < profile.changes
    BY <1>0, <1>1 DEF ChangeCommit, JobOK, ChangeOps
  <2>2. epoch[a] \in Nat /\ epoch[a] + 1 \in 0..MaxChanges /\ epoch[a] + 1 \in Secrets
    <3>1. epoch[a] \in 0..MaxChanges
      BY <1>0, <2>1 DEF TypeOK
    <3>2. profile.changes \in 0..MaxChanges /\ MaxChanges \in Nat
      BY <1>0, Bounds, BoundAssumption
    <3> HIDE DEF a
    <3> QED BY <2>1, <3>1, <3>2 DEF Secrets
  <2>3. accounts' \in [Admins -> Account] /\ epoch' \in [Admins -> 0..MaxChanges]
    BY <1>0, <1>1, <2>1, <2>2, ChangedType DEF ChangeCommit, TypeOK
  <2>4. sessions' \in [SessionIds -> Session \cup {Unissued}]
    <3>1. ASSUME NEW s \in SessionIds PROVE sessions'[s] \in Session \cup {Unissued}
      <4>1. sessions'[s] =
              IF s \in job[w].todo THEN [sessions[s] EXCEPT !.revoked = TRUE]
              ELSE IF s = job[w].token /\ job[w].op \in OwnOps
                   THEN [sessions[s] EXCEPT !.epoch = epoch[a] + 1]
                   ELSE sessions[s]
        BY <1>1 DEF ChangeCommit
      <4>2. s \in job[w].todo \/ s = job[w].token => sessions[s] \in Session
        BY DEF Named
      <4>3. sessions[s] \in Session \cup {Unissued}
        BY <1>0 DEF TypeOK
      <4> HIDE DEF a
      <4> QED BY <2>2, <4>1, <4>2, <4>3 DEF Session
    <3> QED BY <1>1, <3>1 DEF ChangeCommit
  <2>5. spent' \subseteq Admins \X Secrets \X TotpSteps
    <3>1. job[w].code \in TotpSteps
      BY <1>0 DEF Job
    <3> QED BY <1>0, <1>1, <2>1, <2>2, <3>1 DEF ChangeCommit, TypeOK
  <2>6. Finish(w)
    BY <1>1 DEF ChangeCommit
  <2> QED BY <1>1, <2>3, <2>4, <2>5, <2>6, FinishType DEF ChangeCommit, Typed, TypeOK
<1>2. CASE Reactivate(w)
  <2>1. accounts' \in [Admins -> Account]
    BY <1>0, <1>2 DEF Reactivate, TypeOK, Account
  <2>2. Finish(w)
    BY <1>2 DEF Reactivate
  <2> QED BY <1>2, <2>1, <2>2, FinishType DEF Reactivate, Typed, TypeOK
<1>3. CASE Logout(w)
  <2>1. sessions' \in [SessionIds -> Session \cup {Unissued}]
    BY <1>0, <1>3 DEF Logout, TypeOK, Named, Session
  <2>2. Finish(w)
    BY <1>3 DEF Logout
  <2> QED BY <1>3, <2>1, <2>2, FinishType DEF Logout, Typed, TypeOK
<1>4. CASE Fails(w)
  <2>2. Finish(w)
    BY <1>4 DEF Fails
  <2> QED BY <1>4, <2>2, FinishType DEF Fails, Typed, TypeOK
<1>5. ASSUME NEW a \in profile.emails, CreateAdmin(w, a) PROVE Typed'
  <2>1. NewAccount \in Account
    BY <1>0, Bounds DEF NewAccount, Account
  <2>2. accounts' \in [Admins -> Account]
    BY <1>0, <1>5, <2>1 DEF CreateAdmin, TypeOK
  <2>3. Finish(w)
    BY <1>5 DEF CreateAdmin
  <2> QED BY <1>5, <2>2, <2>3, FinishType DEF CreateAdmin, Typed, TypeOK
<1> QED BY <1>1, <1>2, <1>3, <1>4, <1>5

-----------------------------------------------------------------------------
\* A session that has been issued stays one.
LEMMA IssuedStays ==
  ASSUME Typed, Named, Next, NEW s \in SessionIds, sessions[s] \in Session
  PROVE  sessions'[s] \in Session
<1> USE DEF db
<1>0. TypeOK
  BY DEF Typed
<1>1. ASSUME NEW a \in Admins, NEW seen \in 0..MaxChanges, NEW r \in BOOLEAN, Issue(a, seen, r)
      PROVE  sessions'[s] \in Session
  <2>1. now + SessionTTL \in Nat
    BY <1>0, BoundAssumption DEF TypeOK
  <2>2. [owner |-> a, revoked |-> FALSE, expires |-> now + SessionTTL,
         epoch |-> seen, raced |-> r] \in Session
    BY <2>1 DEF Session
  <2> QED BY <1>0, <1>1, <2>2 DEF Issue, TypeOK
<1>2. ASSUME NEW w \in Workers, SetupCommit(w) PROVE sessions'[s] \in Session
  <2>1. job[w].admin \in Admins
    BY <1>2 DEF SetupCommit, At, Typed, JobOK
  <2>2. 0 \in 0..MaxChanges
    BY BoundAssumption
  <2> QED BY <1>1, <1>2, <2>1, <2>2 DEF SetupCommit
<1>3. ASSUME NEW w \in Workers, LoginCommit(w) PROVE sessions'[s] \in Session
  <2>1. job[w].admin \in Admins
    BY <1>3 DEF LoginCommit, At, Typed, JobOK
  <2>2. job[w].epoch \in 0..MaxChanges /\ Raced(job[w]) \in BOOLEAN
    BY <1>0 DEF TypeOK, Job, Raced, Changing
  <2> QED BY <1>1, <1>3, <2>1, <2>2 DEF LoginCommit
<1>4. ASSUME NEW w \in Workers, ChangeCommit(w) PROVE sessions'[s] \in Session
  <2>1. job[w].target \in Admins /\ epoch[job[w].target] < profile.changes
    BY <1>4 DEF ChangeCommit, Typed, JobOK, ChangeOps
  <2>2. epoch[job[w].target] + 1 \in 0..MaxChanges
    <3>1. epoch[job[w].target] \in 0..MaxChanges
      BY <1>0, <2>1 DEF TypeOK
    <3>2. profile.changes \in 0..MaxChanges /\ MaxChanges \in Nat
      BY <1>0, Bounds, BoundAssumption
    <3> QED BY <2>1, <3>1, <3>2
  <2>3. sessions'[s] =
          IF s \in job[w].todo THEN [sessions[s] EXCEPT !.revoked = TRUE]
          ELSE IF s = job[w].token /\ job[w].op \in OwnOps
               THEN [sessions[s] EXCEPT !.epoch = epoch[job[w].target] + 1]
               ELSE sessions[s]
    BY <1>4 DEF ChangeCommit
  <2> QED BY <2>2, <2>3 DEF Session
<1>5. ASSUME NEW w \in Workers, Logout(w) PROVE sessions'[s] \in Session
  BY <1>0, <1>5 DEF Logout, TypeOK, Session
<1>6. CASE UNCHANGED sessions
  BY <1>6
<1> QED BY <1>2, <1>3, <1>4, <1>5, <1>6
    DEF Next, Tick, CommandCreate, SetupCheck, LoginWrong, LoginUndecided, Reauth, TakeStatus,
        SelectSessions, Reactivate, Fails, LoginRead, LoginLockedOut, CreateAdmin, Command,
        Authenticate

\* The jobs that start.
Commanded(op, a) == [Idle EXCEPT !.op = op, !.step = "select", !.target = a]
Asked(op, a, s) ==
  [Idle EXCEPT !.op = op, !.step = FirstStep(op), !.target = a, !.token = s]
SettingUp(a) == [Idle EXCEPT !.op = "setup", !.step = "commit", !.admin = a]
LoggingIn(a, source) ==
  [Idle EXCEPT !.op = "login", !.step = "commit", !.admin = a,
               !.source = source, !.row = accounts[a], !.epoch = epoch[a]]

\* What a step makes of a worker's job.
GoesOn(v) == \E t : Reauth(v) /\ job'[v] = [job[v] EXCEPT !.step = "select", !.code = t]
TakesLock(v) ==
  /\ TakeStatus(v)
  /\ job'[v] = [job[v] EXCEPT !.step = IF job[v].op = "deactivate" THEN "select" ELSE "commit"]
Selects(v) ==
  /\ SelectSessions(v)
  /\ job'[v] = [job[v] EXCEPT !.step = "commit",
       !.todo = Unrevoked(job[v].target) \ (IF job[v].op \in OwnOps THEN {job[v].token} ELSE {})]
StartsCommand(v) ==
  \E op \in CliOps, a \in Admins : Command(v, op, a) /\ job'[v] = Commanded(op, a)
StartsRequest(v) ==
  \E op \in RequestOps, a \in Admins, s \in SessionIds :
    /\ Authenticate(v, op, s) /\ job'[v] = Asked(op, a, s)
    /\ IF op \in StatusOps THEN accounts[a].exists ELSE a = sessions[s].owner
StartsSetup(v) == \E a : SetupCheck(v) /\ job'[v] = SettingUp(a)
StartsLogin(v) ==
  \E a \in profile.emails, source \in profile.sources :
    LoginRead(v, a) /\ ~LockedOut(a, accounts[a], source) /\ job'[v] = LoggingIn(a, source)

JobStep(v) ==
  \/ job'[v] = job[v] \/ job'[v] = Idle
  \/ GoesOn(v) \/ TakesLock(v) \/ Selects(v)
  \/ StartsCommand(v) \/ StartsRequest(v) \/ StartsSetup(v) \/ StartsLogin(v)

LEMMA JobSteps ==
  ASSUME Typed, Next, NEW v \in Workers
  PROVE  JobStep(v)
<1>0. job \in [Workers -> Job]
  BY DEF Typed, TypeOK
<1>1. ASSUME NEW w \in Workers, NEW j, Start(w, j)
      PROVE  (w = v => job'[v] = j) /\ (w # v => job'[v] = job[v])
  BY <1>0, <1>1 DEF Start
<1>2. ASSUME NEW w \in Workers, Start(w, Idle) PROVE JobStep(v)
  BY <1>1, <1>2 DEF JobStep
<1>3. ASSUME NEW w \in Workers, Reauth(w) PROVE JobStep(v)
  <2>1. ASSUME NEW t, job' = [job EXCEPT ![w].step = "select", ![w].code = t]
        PROVE  JobStep(v)
    <3>1. CASE w = v
      <4>1. GoesOn(v)
        BY <1>0, <1>3, <2>1, <3>1 DEF GoesOn
      <4> QED BY <4>1 DEF JobStep
    <3>2. CASE w # v
      BY <1>0, <2>1, <3>2 DEF JobStep
    <3> QED BY <3>1, <3>2
  <2> QED BY <1>2, <1>3, <2>1 DEF Reauth
<1>4. ASSUME NEW w \in Workers, TakeStatus(w) PROVE JobStep(v)
  <2>1. CASE job' = [job EXCEPT ![w].step =
               IF job[w].op = "deactivate" THEN "select" ELSE "commit"]
    <3>1. CASE w = v
      <4>1. TakesLock(v)
        BY <1>0, <1>4, <2>1, <3>1 DEF TakesLock
      <4> QED BY <4>1 DEF JobStep
    <3>2. CASE w # v
      BY <1>0, <2>1, <3>2 DEF JobStep
    <3> QED BY <3>1, <3>2
  <2> QED BY <1>2, <1>4, <2>1 DEF TakeStatus
<1>5. ASSUME NEW w \in Workers, SelectSessions(w) PROVE JobStep(v)
  <2>1. job' = [job EXCEPT ![w].step = "commit",
                           ![w].todo = Unrevoked(job[w].target)
                              \ (IF job[w].op \in OwnOps THEN {job[w].token} ELSE {})]
    BY <1>5 DEF SelectSessions
  <2>2. CASE w = v
    <3>1. Selects(v)
      BY <1>0, <1>5, <2>1, <2>2 DEF Selects
    <3> QED BY <3>1 DEF JobStep
  <2>3. CASE w # v
    BY <1>0, <2>1, <2>3 DEF JobStep
  <2> QED BY <2>2, <2>3
<1>6. ASSUME NEW w \in Workers, NEW op \in CliOps, NEW a \in Admins, Command(w, op, a)
      PROVE  JobStep(v)
  <2>1. Start(w, Commanded(op, a))
    BY <1>6 DEF Command, Commanded
  <2>2. w = v => StartsCommand(v)
    BY <1>1, <1>6, <2>1 DEF StartsCommand
  <2> QED BY <1>1, <2>1, <2>2 DEF JobStep
<1>7. ASSUME NEW w \in Workers, NEW op \in RequestOps, NEW s \in SessionIds, Authenticate(w, op, s)
      PROVE  JobStep(v)
  <2>1. PICK a \in Admins : /\ Start(w, Asked(op, a, s))
                            /\ IF op \in StatusOps THEN accounts[a].exists
                                                   ELSE a = sessions[s].owner
    <3>1. CASE op \in StatusOps
      BY <1>7, <3>1 DEF Authenticate, Asked
    <3>2. CASE op \notin StatusOps
      <4>1. ~sessions[s].revoked /\ Unissued.revoked
        BY <1>7 DEF Authenticate, Authenticated, Valid, Unissued
      <4>2. sessions[s].owner \in Admins
        BY <4>1 DEF Typed, TypeOK, Session
      <4> QED BY <1>7, <3>2, <4>2 DEF Authenticate, Asked
    <3> QED BY <3>1, <3>2
  <2>2. w = v => StartsRequest(v)
    BY <1>1, <1>7, <2>1 DEF StartsRequest
  <2> QED BY <1>1, <2>1, <2>2 DEF JobStep
<1>8. ASSUME NEW w \in Workers, SetupCheck(w) PROVE JobStep(v)
  <2>1. PICK a : Start(w, SettingUp(a))
    BY <1>8 DEF SetupCheck, SettingUp
  <2>2. w = v => StartsSetup(v)
    BY <1>1, <1>8, <2>1 DEF StartsSetup
  <2> QED BY <1>1, <2>1, <2>2 DEF JobStep
<1>9. ASSUME NEW w \in Workers, NEW a \in profile.emails, LoginRead(w, a) PROVE JobStep(v)
  <2>1. PICK source \in profile.sources :
          Start(w, LoggingIn(a, source)) /\ ~LockedOut(a, accounts[a], source)
    BY <1>9 DEF LoginRead, LoggingIn
  <2>2. w = v => StartsLogin(v)
    BY <1>1, <1>9, <2>1 DEF StartsLogin
  <2> QED BY <1>1, <2>1, <2>2 DEF JobStep
<1>10. ASSUME NEW w \in Workers,
              \/ SetupCommit(w) \/ LoginCommit(w) \/ LoginWrong(w) \/ LoginUndecided(w)
              \/ ChangeCommit(w) \/ Reactivate(w) \/ Logout(w) \/ Fails(w)
              \/ \E a \in profile.emails : CreateAdmin(w, a)
       PROVE  JobStep(v)
  <2>1. Start(w, Idle)
    BY <1>10 DEF SetupCommit, LoginCommit, LoginWrong, LoginUndecided, ChangeCommit,
       Reactivate, Logout, Fails, CreateAdmin, Finish
  <2> QED BY <1>2, <2>1
<1>11. CASE \/ Tick \/ \E a \in profile.emails : CommandCreate(a)
            \/ \E w \in Workers, a \in profile.emails : LoginLockedOut(w, a)
  BY <1>11 DEF Tick, CommandCreate, LoginLockedOut, JobStep
<1> QED BY <1>3, <1>4, <1>5, <1>6, <1>7, <1>8, <1>9, <1>10, <1>11 DEF Next

LEMMA NamedStep ==
  ASSUME Typed, Named, Next
  PROVE  Named'
<1> SUFFICES ASSUME NEW v \in Workers, NEW s \in SessionIds,
                    s \in job'[v].todo \/ s = job'[v].token
             PROVE  sessions[s] \in Session
  BY IssuedStays DEF Named
<1>0. job[v] \in Job /\ sessions[s] \in Session \cup {Unissued} /\ Unissued.revoked
  BY DEF Typed, TypeOK, Unissued
<1>1. Idle.todo = {} /\ Idle.token \notin SessionIds
  BY BoundAssumption DEF Idle, NoSession, SessionIds
<1>2. CASE job'[v].todo = job[v].todo /\ job'[v].token = job[v].token
  BY <1>2 DEF Named
<1>3. GoesOn(v) \/ TakesLock(v) => job'[v].todo = job[v].todo /\ job'[v].token = job[v].token
  BY <1>0 DEF GoesOn, TakesLock, Job
<1>4. CASE Selects(v)
  <2>1. CASE s \in Unrevoked(job[v].target)
    BY <1>0, <2>1 DEF Unrevoked
  <2>2. CASE s \notin Unrevoked(job[v].target)
    BY <1>0, <1>4, <2>2 DEF Selects, Named, Job
  <2> QED BY <2>1, <2>2
<1>5. CASE StartsRequest(v)
  <2>1. PICK op \in RequestOps, a \in Admins, r \in SessionIds :
          Authenticate(v, op, r) /\ job'[v] = Asked(op, a, r)
    BY <1>5 DEF StartsRequest
  <2>2. s = r
    BY <1>1, <2>1 DEF Idle, Asked
  <2> QED BY <1>0, <2>1, <2>2 DEF Authenticate, Authenticated, Valid
<1>6. ~(StartsCommand(v) \/ StartsSetup(v) \/ StartsLogin(v))
  BY <1>1 DEF StartsCommand, StartsSetup, StartsLogin, Commanded, SettingUp, LoggingIn, Idle
<1>7. job'[v] # Idle
  BY <1>1
<1> QED BY <1>2, <1>3, <1>4, <1>5, <1>6, <1>7, JobSteps DEF JobStep

LEMMA TypedStep == Typed /\ Named /\ [Next]_vars => Typed' /\ Named'
<1> SUFFICES ASSUME Typed, Named, [Next]_vars PROVE Typed' /\ Named'
  OBVIOUS
<1>1. CASE Tick /\ UNCHANGED profile
  <2>1. now' \in 1..MaxTime
    <3>1. now \in 1..MaxTime /\ profile.time \in 1..MaxTime /\ MaxTime \in Nat
      BY Bounds, BoundAssumption DEF Typed, TypeOK
    <3> QED BY <1>1, <3>1 DEF Tick
  <2>2. Typed'
    BY <1>1, <2>1 DEF Tick, Typed, TypeOK, JobOK, db, locks, history
  <2> QED BY <1>1, <2>2 DEF Tick, Named, db
<1>2. ASSUME NEW a \in profile.emails, CommandCreate(a), UNCHANGED profile PROVE Typed' /\ Named'
  <2>1. NewAccount \in Account
    BY Bounds DEF NewAccount, Account, Typed
  <2>2. accounts' \in [Admins -> Account]
    BY <1>2, <2>1 DEF CommandCreate, Typed, TypeOK
  <2>3. Typed'
    BY <1>2, <2>2 DEF CommandCreate, Typed, TypeOK, JobOK, locks, history
  <2> QED BY <1>2, <2>3 DEF CommandCreate, Named
<1>3. CASE UNCHANGED vars
  <2>1. Typed'
    BY <1>3 DEF vars, Typed, TypeOK, JobOK, db, locks, history
  <2> QED BY <1>3, <2>1 DEF vars, Named, db
<1>4. CASE Next
  <2>1. Named'
    BY <1>4, NamedStep
  <2>2. Typed'
    BY <1>1, <1>2, <1>4, TypeLogin, TypeUntilCommit, TypeCommit DEF Next
  <2> QED BY <2>1, <2>2
<1> QED BY <1>3, <1>4

LEMMA TypedAlways == Spec => [](Typed /\ Named)
<1>1. Init => Named
  BY DEF Init, Named, Idle, NoSession, SessionIds
<1> QED BY <1>1, TypeInit, TypedStep, PTL DEF Spec

\* Every variable keeps its type, and the two locks are held by exactly the
\* jobs that are between their acquisition and their release.
THEOREM TypeCorrect == Spec => []TypeOK
<1>1. Typed => TypeOK
  BY DEF Typed
<1> QED BY <1>1, TypedAlways, PTL

-----------------------------------------------------------------------------
(***************************************************************************)
(* Some account stays active.                                              *)
(***************************************************************************)

\* A deactivation that has passed the count still has somebody to leave behind:
\* the lock keeps every other one out until it is over.
AnotherRemains ==
  \A w \in Workers : job[w].op = "deactivate" /\ job[w].step \in {"select", "commit"}
    => \E a \in Active : a # job[w].target

LEMMA AnotherOne ==
  ASSUME NEW S, NEW a, ~(Cardinality(S) <= 1)
  PROVE  \E b \in S : b # a
<1> SUFFICES ASSUME \A b \in S : b = a PROVE FALSE
  OBVIOUS
<1>1. S = {} \/ S = {a}
  OBVIOUS
<1>2. Cardinality({}) = 0 /\ Cardinality({a}) = 1
  BY FS_EmptySet, FS_Singleton
<1> QED BY <1>1, <1>2

\* What a step makes of an account.
Created(a) == ~accounts[a].exists /\ accounts'[a] = NewAccount
LoggedIn(a) ==
  \E w \in Workers, t \in TotpSteps :
    LoginCommit(w) /\ a = job[w].admin /\ accounts'[a] = [accounts[a] EXCEPT !.last = t]
HasChanged(a) ==
  \E w \in Workers : ChangeCommit(w) /\ a = job[w].target /\ accounts'[a] = Changed(job[w])
Reactivated(a) ==
  \E w \in Workers : Reactivate(w) /\ a = job[w].target
                       /\ accounts'[a] = [accounts[a] EXCEPT !.active = TRUE]

AccountStep(a) ==
  \/ accounts'[a] = accounts[a]
  \/ Created(a) \/ LoggedIn(a) \/ HasChanged(a) \/ Reactivated(a)

LEMMA AccountSteps ==
  ASSUME Typed, Next, NEW a \in Admins
  PROVE  AccountStep(a)
<1>0. accounts \in [Admins -> Account]
  BY DEF Typed, TypeOK
<1>1. ASSUME NEW b, ~accounts[b].exists, accounts' = [accounts EXCEPT ![b] = NewAccount]
      PROVE  AccountStep(a)
  BY <1>0, <1>1 DEF AccountStep, Created
<1>2. CASE UNCHANGED accounts
  BY <1>2 DEF AccountStep
<1>3. ASSUME NEW w \in Workers, SetupCommit(w) PROVE AccountStep(a)
  BY <1>1, <1>2, <1>3 DEF SetupCommit, db
<1>4. ASSUME NEW w \in Workers, LoginCommit(w) PROVE AccountStep(a)
  <2>1. ASSUME NEW t \in FreshSteps(job[w].row.last),
               accounts' = [accounts EXCEPT ![job[w].admin].last = t]
        PROVE  AccountStep(a)
    <3>1. t \in TotpSteps
      BY Bounds, BoundAssumption DEF FreshSteps, TotpSteps, Typed
    <3>2. a = job[w].admin => LoggedIn(a)
      BY <1>0, <1>4, <2>1, <3>1 DEF LoggedIn
    <3>3. a # job[w].admin => accounts'[a] = accounts[a]
      BY <1>0, <2>1
    <3> QED BY <3>2, <3>3 DEF AccountStep
  <2> QED BY <1>2, <1>4, <2>1 DEF LoginCommit
<1>5. ASSUME NEW w \in Workers, ChangeCommit(w) PROVE AccountStep(a)
  <2>1. accounts' = [accounts EXCEPT ![job[w].target] = Changed(job[w])]
    BY <1>5 DEF ChangeCommit
  <2>2. a = job[w].target => HasChanged(a)
    BY <1>0, <1>5, <2>1 DEF HasChanged
  <2> QED BY <1>0, <2>1, <2>2 DEF AccountStep
<1>6. ASSUME NEW w \in Workers, Reactivate(w) PROVE AccountStep(a)
  <2>1. accounts' = [accounts EXCEPT ![job[w].target].active = TRUE]
    BY <1>6 DEF Reactivate
  <2>2. a = job[w].target => Reactivated(a)
    BY <1>0, <1>6, <2>1 DEF Reactivated
  <2> QED BY <1>0, <2>1, <2>2 DEF AccountStep
<1>7. ASSUME NEW w \in Workers, NEW b \in profile.emails, CreateAdmin(w, b) PROVE AccountStep(a)
  BY <1>1, <1>2, <1>7 DEF CreateAdmin
<1>8. ASSUME NEW b \in profile.emails, CommandCreate(b) PROVE AccountStep(a)
  BY <1>1, <1>8 DEF CommandCreate
<1> QED BY <1>2, <1>3, <1>4, <1>5, <1>6, <1>7, <1>8
    DEF Next, Tick, SetupCheck, LoginWrong, LoginUndecided, Reauth, TakeStatus,
        SelectSessions, Logout, Fails, LoginRead, LoginLockedOut, Command, Authenticate, db

\* A change keeps what an account is, but for a deactivation.
LEMMA ChangedKeeps ==
  ASSUME Typed, NEW w \in Workers, job[w].target \in Admins
  PROVE  /\ Changed(job[w]).exists = accounts[job[w].target].exists
         /\ Changed(job[w]).active = (accounts[job[w].target].active /\ job[w].op # "deactivate")
<1>1. accounts[job[w].target] \in Account
  BY DEF Typed, TypeOK
<1> QED BY <1>1 DEF Changed, Account

\* Only a deactivation's transaction makes an account inactive.
LEMMA StaysActive ==
  ASSUME Typed, Next, \A w \in Workers : ~(ChangeCommit(w) /\ job[w].op = "deactivate")
  PROVE  /\ Active \subseteq Active'
         /\ \A a \in Admins : accounts'[a].exists => accounts[a].exists \/ a \in Active'
<1> SUFFICES ASSUME NEW a \in Admins
             PROVE  /\ accounts[a].active => accounts'[a].active
                    /\ accounts'[a].exists => accounts[a].exists \/ accounts'[a].active
  BY DEF Active
<1>1. accounts[a] \in Account
  BY DEF Typed, TypeOK
<1>2. CASE Created(a)
  BY <1>2 DEF Created, NewAccount
<1>3. CASE LoggedIn(a)
  BY <1>1, <1>3 DEF LoggedIn, Account
<1>4. CASE HasChanged(a)
  BY <1>1, <1>4, ChangedKeeps DEF HasChanged
<1>5. CASE Reactivated(a)
  BY <1>1, <1>5 DEF Reactivated, Account
<1> QED BY <1>2, <1>3, <1>4, <1>5, AccountSteps DEF AccountStep

\* How a deactivation gets past the count.
LEMMA PastTheCount ==
  ASSUME Typed, Next, NEW v \in Workers,
         job'[v].op = "deactivate", job'[v].step \in {"select", "commit"}
  PROVE  /\ job'[v].target = job[v].target
         /\ \/ job[v].op = "deactivate" /\ job[v].step \in {"select", "commit"}
            \/ ~(Cardinality(Active) <= 1)
<1>0. job \in [Workers -> Job] /\ job[v] \in Job /\ JobOK(job[v])
  BY DEF Typed, TypeOK
<1>1. job'[v] # Idle
  BY IdleOK
<1>2. ~GoesOn(v)
  BY <1>0 DEF GoesOn, Reauth, Job, JobOK, OwnOps
<1>3. CASE TakesLock(v)
  <2>1. ~Start(v, Idle)
    BY <1>0, <1>1 DEF Start
  <2>2. job'[v].target = job[v].target /\ job[v].op = "deactivate"
    BY <1>0, <1>3 DEF TakesLock, Job
  <2> QED BY <1>3, <2>1, <2>2 DEF TakesLock, TakeStatus
<1>4. CASE Selects(v)
  BY <1>0, <1>4 DEF Selects, SelectSessions, Job
<1>5. ~StartsRequest(v)
  BY DEF StartsRequest, Asked, Idle, FirstStep, OwnOps, StatusOps
<1>6. ~(StartsCommand(v) \/ StartsSetup(v) \/ StartsLogin(v))
  BY DEF StartsCommand, StartsSetup, StartsLogin, Commanded, SettingUp, LoggingIn, Idle, CliOps
<1> QED BY <1>1, <1>2, <1>3, <1>4, <1>5, <1>6, JobSteps DEF JobStep

LEMMA AnotherInit == Init => OneActiveRemains /\ AnotherRemains
BY DEF Init, OneActiveRemains, AnotherRemains, Absent, Idle

LEMMA AnotherStep ==
  Typed /\ OneActiveRemains /\ AnotherRemains /\ [Next]_vars
    => OneActiveRemains' /\ AnotherRemains'
<1> SUFFICES ASSUME Typed, OneActiveRemains, AnotherRemains, [Next]_vars
             PROVE  OneActiveRemains' /\ AnotherRemains'
  OBVIOUS
<1>1. CASE UNCHANGED vars
  BY <1>1 DEF vars, db, OneActiveRemains, AnotherRemains, Active
<1>2. CASE Next /\ \A w \in Workers : ~(ChangeCommit(w) /\ job[w].op = "deactivate")
  <2>1. /\ Active \subseteq Active'
        /\ \A a \in Admins : accounts'[a].exists => accounts[a].exists \/ a \in Active'
    BY <1>2, StaysActive
  <2>2. OneActiveRemains'
    BY <2>1 DEF OneActiveRemains
  <2>3. AnotherRemains'
    <3> SUFFICES ASSUME NEW v \in Workers,
                        job'[v].op = "deactivate", job'[v].step \in {"select", "commit"}
                 PROVE  \E a \in Active : a # job'[v].target
      BY <2>1 DEF AnotherRemains
    <3>1. /\ job'[v].target = job[v].target
          /\ \/ job[v].op = "deactivate" /\ job[v].step \in {"select", "commit"}
             \/ ~(Cardinality(Active) <= 1)
      BY <1>2, PastTheCount
    <3> QED BY <3>1, AnotherOne DEF AnotherRemains
  <2> QED BY <2>2, <2>3
<1>3. ASSUME Next, NEW w \in Workers, ChangeCommit(w), job[w].op = "deactivate"
      PROVE  OneActiveRemains' /\ AnotherRemains'
  <2>1. job[w].step = "commit" /\ job[w].target \in Admins
    BY <1>3 DEF ChangeCommit, Typed, JobOK, ChangeOps
  <2>2. PICK a \in Active : a # job[w].target
    BY <1>3, <2>1 DEF AnotherRemains
  <2>3. a \in Active'
    BY <1>3, <2>2 DEF ChangeCommit, Active, Typed, TypeOK
  <2>4. ASSUME NEW v \in Workers,
               job'[v].op = "deactivate", job'[v].step \in {"select", "commit"}
        PROVE  FALSE
    <3>1. v # w
      BY <1>3, <2>4, IdleOK DEF ChangeCommit, Finish, Start, Typed, TypeOK
    <3>2. statusLock = w
      BY <1>3, <2>1 DEF Typed, TypeOK, StatusOps
    <3>3. job[v].op = "deactivate" /\ job[v].step \in {"select", "commit"}
      BY <1>3, <2>4, <3>1 DEF ChangeCommit, Finish, Start, Typed, TypeOK
    <3>4. statusLock = v
      BY <3>3 DEF Typed, TypeOK, StatusOps
    <3> QED BY <3>1, <3>2, <3>4
  <2>5. OneActiveRemains'
    BY <2>3 DEF OneActiveRemains
  <2> QED BY <2>4, <2>5 DEF AnotherRemains
<1> QED BY <1>1, <1>2, <1>3

\* However many administrators deactivate each other at once, once the first
\* account is there some account stays active (update_admin's lock and count).
THEOREM LastActiveStays == Spec => []OneActiveRemains
BY TypedAlways, AnotherInit, AnotherStep, PTL DEF Spec

-----------------------------------------------------------------------------
(***************************************************************************)
(* Sessions end with the credentials they were opened with.                *)
(***************************************************************************)

\* Sessions are issued one after the other.
Slots == \E n \in 0..MaxSessions : Issued = 1..n

\* What is active or has changed is there, and so is what a job is about; who
\* asks to change credentials asks for its own.
Known ==
  /\ \A a \in Admins : accounts[a].active \/ epoch[a] # 0 => accounts[a].exists
  /\ \A w \in Workers :
       /\ job[w].op \in ChangeOps \cup StatusOps => accounts[job[w].target].exists
       /\ job[w].op \in OwnOps => sessions[job[w].token].owner = job[w].target

\* A change that is about to commit has seen every session of its account but
\* its own and those that know that they were raced.
Seen ==
  \A w \in Workers, s \in SessionIds :
    /\ job[w].op \in ChangeOps /\ job[w].step = "commit"
    /\ sessions[s].owner = job[w].target /\ ~sessions[s].revoked /\ ~sessions[s].raced
    => s \in job[w].todo \/ (job[w].op \in OwnOps /\ s = job[w].token)

LEMMA NextSlot ==
  ASSUME Slots
  PROVE  /\ Cardinality(Issued) \in Nat /\ Cardinality(Issued) + 1 \notin Issued
         /\ Issued = 1..Cardinality(Issued)
<1>1. PICK n \in 0..MaxSessions : Issued = 1..n
  BY DEF Slots
<1>2. Cardinality(1..n) = n
  BY FS_Interval, BoundAssumption
<1> QED BY <1>1, <1>2, BoundAssumption

\* What a step makes of a session.
OpenedFirst(s) ==
  \E w \in Workers : /\ job[w].admin \in Admins /\ ~accounts[job[w].admin].exists
                     /\ sessions[s] = Unissued
                     /\ sessions'[s].owner = job[w].admin /\ sessions'[s].epoch = 0
OpenedByLogin(s) ==
  \E w \in Workers : /\ job[w].admin \in Admins /\ sessions[s] = Unissued
                     /\ sessions'[s].owner = job[w].admin /\ sessions'[s].epoch = job[w].epoch
                     /\ sessions'[s].raced = Raced(job[w])
KeptByChange(s) ==
  \E w \in Workers : /\ ChangeCommit(w) /\ s \notin job[w].todo
                     /\ job[w].op \in OwnOps /\ s = job[w].token
                     /\ sessions'[s] = [sessions[s] EXCEPT !.epoch = epoch[job[w].target] + 1]

SessionStep(s) ==
  \/ sessions'[s] = sessions[s]
  \/ sessions'[s] = [sessions[s] EXCEPT !.revoked = TRUE]
  \/ OpenedFirst(s) \/ OpenedByLogin(s) \/ KeptByChange(s)

LEMMA SessionSteps ==
  ASSUME Typed, Slots, Next, NEW s \in SessionIds
  PROVE  SessionStep(s)
<1>0. sessions \in [SessionIds -> Session \cup {Unissued}]
  BY DEF Typed, TypeOK
<1>1. ASSUME NEW a, NEW seen, NEW r, Issue(a, seen, r)
      PROVE  \/ sessions'[s] = sessions[s]
             \/ /\ sessions[s] = Unissued /\ sessions'[s].owner = a
                /\ sessions'[s].epoch = seen /\ sessions'[s].raced = r
  <2>1. sessions[Cardinality(Issued) + 1] = Unissued \/ Cardinality(Issued) + 1 \notin SessionIds
    BY NextSlot DEF Issued
  <2> QED BY <1>0, <1>1, <2>1 DEF Issue
<1>2. ASSUME NEW w \in Workers, SetupCommit(w) PROVE SessionStep(s)
  <2>1. job[w].admin \in Admins
    BY <1>2 DEF SetupCommit, At, Typed, JobOK
  <2>2. CASE UNCHANGED db
    BY <2>2 DEF db, SessionStep
  <2>3. CASE ~accounts[job[w].admin].exists /\ Issue(job[w].admin, 0, FALSE)
    <3>1. sessions'[s] = sessions[s] \/ OpenedFirst(s)
      BY <1>1, <2>1, <2>3 DEF OpenedFirst
    <3> QED BY <3>1 DEF SessionStep
  <2> QED BY <1>2, <2>2, <2>3 DEF SetupCommit
<1>3. ASSUME NEW w \in Workers, LoginCommit(w) PROVE SessionStep(s)
  <2>1. job[w].admin \in Admins /\ Issue(job[w].admin, job[w].epoch, Raced(job[w]))
    BY <1>3 DEF LoginCommit, At, Typed, JobOK
  <2>2. sessions'[s] = sessions[s] \/ OpenedByLogin(s)
    BY <1>1, <2>1 DEF OpenedByLogin
  <2> QED BY <2>2 DEF SessionStep
<1>4. ASSUME NEW w \in Workers, ChangeCommit(w) PROVE SessionStep(s)
  <2>1. sessions'[s] =
          IF s \in job[w].todo THEN [sessions[s] EXCEPT !.revoked = TRUE]
          ELSE IF s = job[w].token /\ job[w].op \in OwnOps
               THEN [sessions[s] EXCEPT !.epoch = epoch[job[w].target] + 1]
               ELSE sessions[s]
    BY <1>4 DEF ChangeCommit
  <2>2. s \notin job[w].todo /\ s = job[w].token /\ job[w].op \in OwnOps => KeptByChange(s)
    BY <1>4, <2>1 DEF KeptByChange
  <2> QED BY <2>1, <2>2 DEF SessionStep
<1>5. ASSUME NEW w \in Workers, Logout(w) PROVE SessionStep(s)
  <2>1. sessions'[s] = sessions[s] \/ sessions'[s] = [sessions[s] EXCEPT !.revoked = TRUE]
    BY <1>0, <1>5 DEF Logout
  <2> QED BY <2>1 DEF SessionStep
<1>6. CASE UNCHANGED sessions
  BY <1>6 DEF SessionStep
<1> QED BY <1>2, <1>3, <1>4, <1>5, <1>6
    DEF Next, Tick, CommandCreate, SetupCheck, LoginWrong, LoginUndecided, Reauth, TakeStatus,
        SelectSessions, Reactivate, Fails, LoginRead, LoginLockedOut, CreateAdmin, Command,
        Authenticate, db

LEMMA SlotsStep ==
  ASSUME Typed, Named, Slots, Next
  PROVE  Slots'
<1>0. sessions \in [SessionIds -> Session \cup {Unissued}] /\ Unissued \notin Session
        /\ Unissued.revoked
  BY NoneAssumption DEF Typed, TypeOK, Session, Unissued
<1>1. ASSUME NEW a, NEW seen, NEW r, Issue(a, seen, r) PROVE Slots'
  <2> DEFINE n == Cardinality(Issued)
             new == [owner |-> a, revoked |-> FALSE, expires |-> now + SessionTTL,
                     epoch |-> seen, raced |-> r]
  <2>1. n \in Nat /\ Issued = 1..n
    BY NextSlot
  <2>2. n + 1 \in 1..MaxSessions
    <3>1. n < profile.sessions /\ profile.sessions \in 0..MaxSessions
      BY <1>1, Bounds DEF Issue, Typed
    <3> QED BY <2>1, <3>1, BoundAssumption
  <2>3. new # Unissued
    <3>1. new.revoked = FALSE
      OBVIOUS
    <3> QED BY <1>0, <3>1
  <2>4. sessions' = [sessions EXCEPT ![n + 1] = new]
    BY <1>1 DEF Issue
  <2> HIDE DEF n, new
  <2>5. Issued' = {s \in SessionIds : s = n + 1 \/ sessions[s] # Unissued}
    BY <1>0, <2>3, <2>4 DEF Issued
  <2>6. Issued' = Issued \cup {n + 1}
    BY <2>2, <2>5 DEF Issued, SessionIds
  <2>7. Issued' = 1..(n + 1)
    BY <2>1, <2>6
  <2> QED BY <2>2, <2>7, BoundAssumption DEF Slots
<1>2. ASSUME \A s \in SessionIds : sessions[s] = Unissued => sessions'[s] = Unissued
      PROVE  Slots'
  <2>1. Issued' = Issued
    BY <1>0, <1>2, IssuedStays DEF Issued
  <2> QED BY <2>1 DEF Slots
<1>3. ASSUME NEW w \in Workers, ChangeCommit(w) PROVE Slots'
  <2> SUFFICES ASSUME NEW s \in SessionIds, sessions[s] = Unissued
               PROVE  sessions'[s] = Unissued
    BY <1>2
  <2>1. s \notin job[w].todo /\ s # job[w].token
    BY <1>0 DEF Named
  <2> QED BY <1>3, <2>1 DEF ChangeCommit
<1>4. ASSUME NEW w \in Workers, Logout(w) PROVE Slots'
  <2> SUFFICES ASSUME NEW s \in SessionIds, sessions[s] = Unissued
               PROVE  sessions'[s] = Unissued
    BY <1>2
  <2>1. s # job[w].token
    BY <1>0 DEF Named
  <2> QED BY <1>0, <1>4, <2>1 DEF Logout
<1>5. CASE UNCHANGED sessions
  BY <1>2, <1>5
<1> QED BY <1>1, <1>3, <1>4, <1>5
    DEF Next, Tick, CommandCreate, SetupCheck, LoginWrong, LoginUndecided, Reauth, TakeStatus,
        SelectSessions, Reactivate, Fails, LoginRead, LoginLockedOut, CreateAdmin, Command,
        Authenticate, SetupCommit, LoginCommit, db

\* Accounts are never removed.
LEMMA ExistsStays ==
  ASSUME Typed, Next, NEW a \in Admins, accounts[a].exists
  PROVE  accounts'[a].exists
<1>1. accounts[a] \in Account
  BY DEF Typed, TypeOK
<1>2. ~Created(a)
  BY DEF Created
<1>3. CASE LoggedIn(a)
  BY <1>1, <1>3 DEF LoggedIn, Account
<1>4. CASE HasChanged(a)
  BY <1>1, <1>4, ChangedKeeps DEF HasChanged
<1>5. CASE Reactivated(a)
  BY <1>1, <1>5 DEF Reactivated, Account
<1> QED BY <1>2, <1>3, <1>4, <1>5, AccountSteps DEF AccountStep

\* Credentials change in one kind of transaction.
LEMMA EpochStep ==
  ASSUME Typed, Next, NEW a \in Admins
  PROVE  \/ epoch'[a] = epoch[a]
         \/ \E w \in Workers : ChangeCommit(w) /\ a = job[w].target
<1>1. ASSUME NEW w \in Workers, ChangeCommit(w), a # job[w].target
      PROVE  epoch'[a] = epoch[a]
  BY <1>1 DEF ChangeCommit, Typed, TypeOK
<1> QED BY <1>1
    DEF Next, Tick, CommandCreate, SetupCheck, LoginWrong, LoginUndecided, Reauth, TakeStatus,
        SelectSessions, Reactivate, Fails, LoginRead, LoginLockedOut, CreateAdmin, Command,
        Authenticate, SetupCommit, LoginCommit, Logout, history

\* A session keeps its owner.
LEMMA OwnerStays ==
  ASSUME Typed, Slots, Next, NEW s \in SessionIds, sessions[s] \in Session
  PROVE  sessions'[s].owner = sessions[s].owner
<1>1. Unissued \notin Session
  BY NoneAssumption DEF Session, Unissued
<1>2. ~(OpenedFirst(s) \/ OpenedByLogin(s))
  BY <1>1 DEF OpenedFirst, OpenedByLogin
<1>3. CASE KeptByChange(s)
  BY <1>3 DEF KeptByChange, Session
<1>4. CASE sessions'[s] = [sessions[s] EXCEPT !.revoked = TRUE]
  BY <1>4 DEF Session
<1> QED BY <1>2, <1>3, <1>4, SessionSteps DEF SessionStep

LEMMA KnownStep ==
  ASSUME Typed, Named, Slots, Known, Next
  PROVE  Known'
<1>1. ASSUME NEW a \in Admins, accounts'[a].active \/ epoch'[a] # 0
      PROVE  accounts'[a].exists
  <2>0. accounts[a] \in Account
    BY DEF Typed, TypeOK
  <2>1. CASE accounts[a].exists
    BY <2>1, ExistsStays
  <2>2. CASE ~accounts[a].exists
    <3>1. \A w \in Workers : ~(ChangeCommit(w) /\ a = job[w].target)
      BY <2>2 DEF ChangeCommit, Known, ChangeOps
    <3>2. epoch'[a] = 0
      BY <2>2, <3>1, EpochStep DEF Known
    <3>3. ~accounts[a].active
      BY <2>2 DEF Known
    <3>4. CASE Created(a)
      BY <3>4 DEF Created, NewAccount
    <3>5. ~HasChanged(a)
      BY <3>1 DEF HasChanged
    <3>6. ~Reactivated(a)
      BY <2>2 DEF Reactivated, Reactivate, At, Known, StatusOps
    <3>7. LoggedIn(a) => ~accounts'[a].active
      BY <2>0, <3>3 DEF LoggedIn, Account
    <3> QED BY <1>1, <3>2, <3>3, <3>4, <3>5, <3>6, <3>7, AccountSteps DEF AccountStep
  <2> QED BY <2>1, <2>2
<1>2. ASSUME NEW v \in Workers
      PROVE  /\ job'[v].op \in ChangeOps \cup StatusOps => accounts'[job'[v].target].exists
             /\ job'[v].op \in OwnOps => sessions'[job'[v].token].owner = job'[v].target
  <2>0. job[v] \in Job /\ JobOK(job[v])
    BY DEF Typed, TypeOK
  <2>1. CASE job'[v].op = job[v].op /\ job'[v].target = job[v].target
               /\ job'[v].token = job[v].token
    <3>1. ASSUME job[v].op \in ChangeOps \cup StatusOps
          PROVE  accounts'[job[v].target].exists
      <4>1. job[v].target \in Admins /\ accounts[job[v].target].exists
        BY <2>0, <3>1 DEF JobOK, Known
      <4> QED BY <4>1, ExistsStays
    <3>2. ASSUME job[v].op \in OwnOps
          PROVE  sessions'[job[v].token].owner = job[v].target
      <4>1. job[v].token \in SessionIds
        BY <2>0, <3>2 DEF JobOK
      <4>2. sessions[job[v].token] \in Session
        BY <4>1 DEF Named
      <4> QED BY <3>2, <4>1, <4>2, OwnerStays DEF Known
    <3> QED BY <2>1, <3>1, <3>2
  <2>2. GoesOn(v) \/ TakesLock(v) \/ Selects(v)
          => job'[v].op = job[v].op /\ job'[v].target = job[v].target
               /\ job'[v].token = job[v].token
    BY <2>0 DEF GoesOn, TakesLock, Selects, Job
  <2>3. CASE StartsCommand(v)
    <3>1. PICK op \in CliOps, a \in Admins : Command(v, op, a) /\ job'[v] = Commanded(op, a)
      BY <2>3 DEF StartsCommand
    <3>2. accounts'[a].exists
      BY <3>1, ExistsStays DEF Command
    <3> QED BY <3>1, <3>2 DEF Commanded, Idle, CliOps, OwnOps
  <2>4. CASE StartsRequest(v)
    <3>1. PICK op \in RequestOps, a \in Admins, s \in SessionIds :
            /\ Authenticate(v, op, s) /\ job'[v] = Asked(op, a, s)
            /\ IF op \in StatusOps THEN accounts[a].exists ELSE a = sessions[s].owner
      BY <2>4 DEF StartsRequest
    <3>2. job'[v].op = op /\ job'[v].target = a /\ job'[v].token = s
      BY <3>1 DEF Asked, Idle
    <3>3. ~sessions[s].revoked /\ Unissued.revoked /\ accounts[sessions[s].owner].active
      BY <3>1 DEF Authenticate, Authenticated, Valid, Unissued
    <3>4. sessions[s] \in Session
      BY <3>3 DEF Typed, TypeOK
    <3>5. accounts[a].exists
      BY <3>1, <3>3 DEF Known
    <3>6. accounts'[a].exists
      BY <3>5, ExistsStays
    <3>7. UNCHANGED sessions
      BY <3>1 DEF Authenticate, db
    <3>8. op \in OwnOps => a = sessions[s].owner
      BY <3>1 DEF OwnOps, StatusOps
    <3> QED BY <3>2, <3>6, <3>7, <3>8
  <2>5. CASE StartsSetup(v) \/ StartsLogin(v) \/ job'[v] = Idle
    <3>1. StartsSetup(v) => job'[v].op = "setup"
      BY DEF StartsSetup, SettingUp, Idle
    <3>2. StartsLogin(v) => job'[v].op = "login"
      BY DEF StartsLogin, LoggingIn, Idle
    <3>3. job'[v].op \in {"setup", "login", "none"}
      BY <2>5, <3>1, <3>2, IdleOK
    <3> QED BY <3>3 DEF ChangeOps, OwnOps, CliOps, StatusOps
  <2> QED BY <2>1, <2>2, <2>3, <2>4, <2>5, JobSteps DEF JobStep
<1> QED BY <1>1, <1>2 DEF Known

LEMMA SeenStep ==
  ASSUME Typed, Named, Slots, Known, Seen, Next
  PROVE  Seen'
<1> SUFFICES ASSUME NEW v \in Workers, NEW s \in SessionIds,
                    job'[v].op \in ChangeOps, job'[v].step = "commit",
                    sessions'[s].owner = job'[v].target,
                    ~sessions'[s].revoked, ~sessions'[s].raced
             PROVE  s \in job'[v].todo \/ (job'[v].op \in OwnOps /\ s = job'[v].token)
  BY DEF Seen
<1>0. job[v] \in Job /\ JobOK(job[v]) /\ sessions[s] \in Session \cup {Unissued}
  BY DEF Typed, TypeOK
<1>1. CASE job'[v] = job[v]
  <2>1. job[v].target \in Admins /\ accounts[job[v].target].exists
    BY <1>0, <1>1 DEF JobOK, Known
  <2>2. CASE sessions'[s] = sessions[s]
    BY <1>1, <2>2 DEF Seen
  <2>3. sessions'[s] # [sessions[s] EXCEPT !.revoked = TRUE]
    BY <1>0 DEF Session, Unissued
  <2>4. ~OpenedFirst(s)
    BY <1>1, <2>1 DEF OpenedFirst
  <2>5. ~OpenedByLogin(s)
    BY <1>1 DEF OpenedByLogin, Raced, Changing, ChangeOps
  <2>6. CASE KeptByChange(s)
    <3>1. /\ sessions'[s].owner = sessions[s].owner
          /\ sessions'[s].revoked = sessions[s].revoked
          /\ sessions'[s].raced = sessions[s].raced
      BY <1>0, <2>6 DEF KeptByChange, Session, Unissued
    <3> QED BY <1>1, <3>1 DEF Seen
  <2> QED BY <2>2, <2>3, <2>4, <2>5, <2>6, SessionSteps DEF SessionStep
<1>2. CASE Selects(v)
  <2>1. UNCHANGED sessions
    BY <1>2 DEF Selects, SelectSessions, db
  <2>2. /\ job'[v].op = job[v].op /\ job'[v].target = job[v].target
        /\ job'[v].token = job[v].token
        /\ job'[v].todo = Unrevoked(job[v].target)
                            \ (IF job[v].op \in OwnOps THEN {job[v].token} ELSE {})
    BY <1>0, <1>2 DEF Selects, Job
  <2>3. job'[v].target = job[v].target
    BY <2>2
  <2>4. sessions[s].owner = job[v].target /\ ~sessions[s].revoked
    BY <2>1, <2>3
  <2>5. s \in Unrevoked(job[v].target)
    BY <2>4 DEF Unrevoked
  <2> QED BY <2>2, <2>5
<1>3. ~GoesOn(v)
  BY <1>0 DEF GoesOn, Job
<1>4. ~TakesLock(v)
  BY <1>0 DEF TakesLock, TakeStatus, Job, JobOK, StatusOps, ChangeOps, OwnOps, CliOps
<1>5. ~StartsCommand(v)
  BY DEF StartsCommand, Commanded, Idle
<1>6. ~StartsRequest(v)
  BY DEF StartsRequest, Asked, Idle, FirstStep, OwnOps, StatusOps, CliOps, ChangeOps, RequestOps
<1>7. StartsSetup(v) => job'[v].op = "setup"
  BY DEF StartsSetup, SettingUp, Idle
<1>8. StartsLogin(v) => job'[v].op = "login"
  BY DEF StartsLogin, LoggingIn, Idle
<1>9. job'[v].op \notin {"setup", "login", "none"}
  BY DEF ChangeOps, OwnOps, CliOps, StatusOps
<1> QED BY <1>1, <1>2, <1>3, <1>4, <1>5, <1>6, <1>7, <1>8, <1>9, IdleOK, JobSteps DEF JobStep

LEMMA OldSessionsStep ==
  ASSUME Typed, Named, Slots, Known, Seen, OldSessionsEnd, Next
  PROVE  OldSessionsEnd'
<1> SUFFICES ASSUME NEW s \in Issued',
                    ~sessions'[s].revoked, sessions'[s].epoch < epoch'[sessions'[s].owner]
             PROVE  sessions'[s].raced
  BY DEF OldSessionsEnd
<1>0. /\ s \in SessionIds /\ sessions[s] \in Session \cup {Unissued} /\ Unissued.revoked
      /\ sessions[s] \in Session => s \in Issued
      /\ \A a \in Admins : epoch[a] \in Nat
  BY NoneAssumption DEF Issued, Typed, TypeOK, Session, Unissued
<1>1. ASSUME NEW w \in Workers, ChangeCommit(w) PROVE sessions'[s].raced
  <2> DEFINE a == job[w].target
  <2>1. a \in Admins /\ job[w].op \in ChangeOps /\ job[w].step = "commit"
    BY <1>1 DEF ChangeCommit, Typed, JobOK, ChangeOps
  <2>2. /\ sessions'[s] =
             IF s \in job[w].todo THEN [sessions[s] EXCEPT !.revoked = TRUE]
             ELSE IF s = job[w].token /\ job[w].op \in OwnOps
                  THEN [sessions[s] EXCEPT !.epoch = epoch[a] + 1]
                  ELSE sessions[s]
        /\ \A b \in Admins : epoch'[b] = IF b = a THEN epoch[a] + 1 ELSE epoch[b]
    BY <1>0, <1>1, <2>1 DEF ChangeCommit, Typed, TypeOK
  <2> HIDE DEF a
  <2>3. sessions[s] \in Session
    BY <1>0, <2>2 DEF Unissued
  <2>4. s \notin job[w].todo
    BY <2>2, <2>3 DEF Session
  <2>5. ~(s = job[w].token /\ job[w].op \in OwnOps)
    <3>1. ASSUME s = job[w].token, job[w].op \in OwnOps PROVE FALSE
      <4>1. sessions[s].owner = a
        BY <3>1 DEF Known, a
      <4>2. sessions'[s].owner = a /\ sessions'[s].epoch = epoch[a] + 1
        BY <2>2, <2>3, <2>4, <3>1, <4>1 DEF Session
      <4>3. epoch'[a] = epoch[a] + 1 /\ epoch[a] \in Nat
        BY <1>0, <2>1, <2>2
      <4> QED BY <4>2, <4>3
    <3> QED BY <3>1
  <2>6. sessions'[s] = sessions[s]
    BY <2>2, <2>4, <2>5
  <2>7. CASE sessions[s].owner = a
    BY <1>0, <2>1, <2>4, <2>5, <2>6, <2>7 DEF Seen, a
  <2>8. CASE sessions[s].owner # a
    <3>1. epoch'[sessions[s].owner] = epoch[sessions[s].owner]
      BY <2>2, <2>3, <2>8 DEF Session
    <3> QED BY <1>0, <2>3, <2>6, <3>1 DEF OldSessionsEnd
  <2> QED BY <2>7, <2>8
<1>2. CASE \A w \in Workers : ~ChangeCommit(w)
  <2>1. \A a \in Admins : epoch'[a] = epoch[a]
    BY <1>2, EpochStep
  <2>2. CASE sessions'[s] = sessions[s]
    <3>1. sessions[s] \in Session /\ s \in Issued
      BY <1>0, <2>2
    <3>2. epoch'[sessions[s].owner] = epoch[sessions[s].owner]
      BY <2>1, <3>1 DEF Session
    <3> QED BY <2>2, <3>1, <3>2 DEF OldSessionsEnd
  <2>3. sessions'[s] # [sessions[s] EXCEPT !.revoked = TRUE]
    BY <1>0 DEF Session, Unissued
  <2>4. ~OpenedFirst(s)
    <3> SUFFICES ASSUME NEW w \in Workers, job[w].admin \in Admins,
                        ~accounts[job[w].admin].exists,
                        sessions'[s].owner = job[w].admin, sessions'[s].epoch = 0
                 PROVE  FALSE
      BY DEF OpenedFirst
    <3>1. epoch'[job[w].admin] = 0
      BY <2>1 DEF Known
    <3> QED BY <3>1
  <2>5. CASE OpenedByLogin(s)
    <3>1. PICK w \in Workers : /\ job[w].admin \in Admins
                               /\ sessions'[s].owner = job[w].admin
                               /\ sessions'[s].epoch = job[w].epoch
                               /\ sessions'[s].raced = Raced(job[w])
      BY <2>5 DEF OpenedByLogin
    <3>2. epoch'[job[w].admin] = epoch[job[w].admin] /\ job[w].epoch \in Nat
      BY <2>1, <3>1 DEF Typed, TypeOK, Job
    <3>3. epoch[job[w].admin] # job[w].epoch
      BY <1>0, <3>1, <3>2
    <3> QED BY <3>1, <3>3 DEF Raced
  <2>6. ~KeptByChange(s)
    BY <1>2 DEF KeptByChange
  <2> QED BY <1>0, <2>2, <2>3, <2>4, <2>5, <2>6, SessionSteps DEF SessionStep
<1> QED BY <1>1, <1>2

\* Every session that the credentials, the account or the authenticator of its
\* owner have outlived is revoked, however changes, logins, logouts and failures
\* are interleaved, but for a login that overlapped the change.
THEOREM OldSessionsAreEnded == Spec => []OldSessionsEnd
<1> DEFINE Ended == Slots /\ Known /\ Seen /\ OldSessionsEnd
<1>1. Init => Ended
  <2> SUFFICES ASSUME Init PROVE Ended
    OBVIOUS
  <2>1. Issued = {} /\ \A w \in Workers : job[w] = Idle
    BY DEF Init, Issued
  <2>2. Slots
    BY <2>1, BoundAssumption DEF Slots
  <2>3. Known
    BY <2>1, IdleOK DEF Init, Known, Absent, ChangeOps, OwnOps, CliOps, StatusOps
  <2>4. Seen
    BY <2>1, IdleOK DEF Seen
  <2> QED BY <2>1, <2>2, <2>3, <2>4 DEF OldSessionsEnd
<1>2. Typed /\ Named /\ Ended /\ [Next]_vars => Ended'
  <2>1. Typed /\ Named /\ Ended /\ Next => Ended'
    BY SlotsStep, KnownStep, SeenStep, OldSessionsStep
  <2>2. Ended /\ UNCHANGED vars => Ended'
    BY DEF vars, db, history, Slots, Known, Seen, OldSessionsEnd, Issued
  <2> QED BY <2>1, <2>2
<1> HIDE DEF Ended
<1>3. Ended => OldSessionsEnd
  BY DEF Ended
<1> QED BY <1>1, <1>2, <1>3, TypedAlways, PTL DEF Spec

-----------------------------------------------------------------------------
(***************************************************************************)
(* A code logs in once.                                                    *)
(***************************************************************************)

\* Every secret was stored by one of the changes so far.
SecretsOld ==
  /\ \A a \in Admins : accounts[a].secret <= epoch[a]
  /\ \A c \in spent : c[2] # NoSecret /\ c[2] <= epoch[c[1]]

\* The last used step covers what has been spent of the secret it belongs to, in
\* the row and in the copy of it that a login has read.
Covered ==
  /\ \A c \in spent : c[2] = accounts[c[1]].secret => c[3] <= accounts[c[1]].last
  /\ \A w \in Workers : job[w].op = "login" =>
       /\ job[w].row.secret <= epoch[job[w].admin]
       /\ \A c \in spent : c[1] = job[w].admin /\ c[2] = job[w].row.secret
                             => c[3] <= job[w].row.last

Codes == SecretsOld /\ Covered /\ CodeGoodOnce

LEMMA SpentType ==
  ASSUME TypeOK, NEW c \in spent
  PROVE  c[1] \in Admins /\ c[2] \in Nat /\ c[3] \in Nat
BY BoundAssumption DEF TypeOK, Secrets, TotpSteps

LEMMA AccountType ==
  ASSUME TypeOK, NEW a \in Admins
  PROVE  /\ accounts[a] \in Account
         /\ accounts[a].secret \in Nat /\ accounts[a].last \in Nat /\ epoch[a] \in Nat
BY BoundAssumption DEF TypeOK, Account, Secrets, TotpSteps

\* The one login that is under way commits.
LEMMA CodesLogin ==
  ASSUME Typed, Codes, Next, NEW w \in Workers, LoginCommit(w)
  PROVE  Codes'
<1> DEFINE a == job[w].admin  row == job[w].row
<1>0. /\ TypeOK /\ a \in Admins /\ job[w].op = "login" /\ UNCHANGED epoch
      /\ row.secret \in Nat /\ row.last \in Nat /\ accounts[a] \in Account
  <2>1. TypeOK /\ a \in Admins /\ job[w].op = "login" /\ UNCHANGED epoch /\ job[w] \in Job
    BY DEF LoginCommit, At, Typed, TypeOK, JobOK
  <2>2. row \in Account
    BY <2>1 DEF Job
  <2>3. row.secret \in Nat /\ row.last \in Nat
    BY <2>2, BoundAssumption DEF Account, Secrets, TotpSteps
  <2> QED BY <2>1, <2>3, AccountType
<1>1. \A v \in Workers : job'[v].op # "login"
  <2>1. \A v \in Workers : job[v].op = "login" => v = w
    BY <1>0 DEF TypeOK
  <2>2. \A v \in Workers : job'[v] = IF v = w THEN Idle ELSE job[v]
    BY <1>0 DEF LoginCommit, Finish, Start, TypeOK
  <2> QED BY <2>1, <2>2, IdleOK
<1>2. CASE UNCHANGED <<accounts, spent, replayed>>
  <2>1. SecretsOld' /\ CodeGoodOnce'
    BY <1>0, <1>2 DEF Codes, SecretsOld, CodeGoodOnce
  <2>2. Covered'
    BY <1>1, <1>2 DEF Codes, Covered
  <2> QED BY <2>1, <2>2 DEF Codes
<1>3. ASSUME row.secret # NoSecret, NEW t \in FreshSteps(row.last),
             accounts' = [accounts EXCEPT ![a].last = t],
             replayed' = replayed \cup ({<<a, row.secret, t>>} \cap spent),
             spent' = {<<a, row.secret, t>>} \cup {c \in spent : c[1] = a => c[2] = row.secret}
      PROVE  Codes'
  <2> DEFINE code == <<a, row.secret, t>>
  <2>1. t \in Nat /\ row.last < t
    BY <1>0, Bounds, BoundAssumption DEF FreshSteps, TotpSteps
  <2>2. /\ row.secret <= epoch[a]
        /\ \A c \in spent : c[1] = a /\ c[2] = row.secret => c[3] <= row.last
    BY <1>0 DEF Codes, Covered
  <2>3. code[1] = a /\ code[2] = row.secret /\ code[3] = t
    OBVIOUS
  <2> HIDE DEF code, a, row
  <2>4. code \notin spent
    BY <1>0, <2>1, <2>2, <2>3
  <2>5. CodeGoodOnce'
    BY <1>3, <2>4 DEF Codes, CodeGoodOnce, code
  <2>6. /\ \A b \in Admins : accounts'[b].secret = accounts[b].secret
        /\ accounts'[a].last = t
        /\ \A b \in Admins : b # a => accounts'[b] = accounts[b]
    BY <1>0, <1>3 DEF TypeOK, Account
  <2>7. \A c \in spent' : c = code \/ (c \in spent /\ (c[1] = a => c[2] = row.secret))
    BY <1>3 DEF code
  <2>8. SecretsOld'
    BY <1>0, <1>3, <2>2, <2>3, <2>6, <2>7 DEF Codes, SecretsOld
  <2>9. Covered'
    <3> SUFFICES ASSUME NEW c \in spent', c[2] = accounts'[c[1]].secret
                 PROVE  c[3] <= accounts'[c[1]].last
      BY <1>1 DEF Covered
    <3>1. CASE c = code
      BY <2>1, <2>3, <2>6, <3>1
    <3>2. CASE c \in spent /\ c[1] = a
      <4>1. c[2] = row.secret
        BY <2>3, <2>7, <3>2
      <4>2. c[3] <= row.last /\ c[3] \in Nat
        BY <1>0, <2>2, <3>2, <4>1, SpentType
      <4> QED BY <1>0, <2>1, <2>6, <3>2, <4>2
    <3>3. CASE c \in spent /\ c[1] # a
      <4>1. c[1] \in Admins
        BY <1>0, <3>3, SpentType
      <4>2. accounts'[c[1]] = accounts[c[1]]
        BY <2>6, <3>3, <4>1
      <4> QED BY <3>3, <4>2 DEF Codes, Covered
    <3> QED BY <2>7, <3>1, <3>2, <3>3
  <2> QED BY <2>5, <2>8, <2>9 DEF Codes
<1> HIDE DEF a, row
<1> QED BY <1>2, <1>3 DEF LoginCommit, a, row

\* A change stores a secret that was never there, or none.
LEMMA CodesChange ==
  ASSUME Typed, Codes, Next, NEW w \in Workers, ChangeCommit(w)
  PROVE  Codes'
<1> DEFINE a == job[w].target  j == job[w]
<1>0. /\ TypeOK /\ a \in Admins /\ UNCHANGED replayed
      /\ accounts[a] \in Account /\ epoch[a] \in Nat /\ accounts[a].secret \in Nat
      /\ j \in Job
  BY AccountType DEF ChangeCommit, Typed, TypeOK, JobOK, ChangeOps
<1>1. /\ epoch'[a] = epoch[a] + 1 /\ accounts'[a] = Changed(j)
      /\ \A b \in Admins : b # a => accounts'[b] = accounts[b] /\ epoch'[b] = epoch[b]
      /\ spent' = IF j.op = "confirm_totp" THEN spent \cup {<<a, epoch[a] + 1, j.code>>}
                                           ELSE spent
  BY <1>0 DEF ChangeCommit, TypeOK
<1>2. /\ j.op = "confirm_totp" => Changed(j).secret = epoch[a] + 1 /\ Changed(j).last = j.code
      /\ j.op \in {"remove_totp", "disable_totp"} => Changed(j).secret = NoSecret
      /\ j.op \notin {"confirm_totp", "remove_totp", "disable_totp"}
           => /\ Changed(j).secret = accounts[a].secret
              /\ Changed(j).last = accounts[a].last
  BY <1>0 DEF Changed, Account
<1>3. j.code \in Nat /\ NoSecret = 0
  BY <1>0, BoundAssumption DEF Job, TotpSteps, NoSecret
<1>4. \A c \in spent' : \/ c \in spent
                        \/ /\ j.op = "confirm_totp" /\ c[1] = a
                           /\ c[2] = epoch[a] + 1 /\ c[3] = j.code
  BY <1>1
<1>5. \A c \in spent : /\ c[1] \in Admins /\ c[2] \in Nat /\ c[3] \in Nat
                       /\ c[2] # NoSecret /\ c[2] <= epoch[c[1]]
  BY <1>0, SpentType DEF Codes, SecretsOld
<1>6. \A b \in Admins : epoch[b] \in Nat /\ epoch'[b] \in Nat /\ epoch[b] <= epoch'[b]
  <2>1. \A b \in Admins : epoch[b] \in Nat
    BY <1>0, AccountType
  <2> HIDE DEF a, j
  <2>2. ASSUME NEW b \in Admins PROVE epoch'[b] \in Nat /\ epoch[b] <= epoch'[b]
    <3>1. epoch[b] \in Nat /\ (b # a => epoch'[b] = epoch[b])
      BY <1>1, <2>1
    <3> QED BY <1>0, <1>1, <3>1
  <2> QED BY <2>1, <2>2
<1>7. SecretsOld'
  <2>1. ASSUME NEW b \in Admins PROVE accounts'[b].secret <= epoch'[b]
    <3>1. CASE b # a
      BY <1>1, <3>1 DEF Codes, SecretsOld
    <3>2. CASE b = a
      <4>1. accounts[a].secret <= epoch[a]
        BY <1>0 DEF Codes, SecretsOld
      <4>2. Changed(j).secret \in {epoch[a] + 1, 0, accounts[a].secret}
        BY <1>2, <1>3
      <4> HIDE DEF a, j
      <4> QED BY <1>0, <1>1, <3>2, <4>1, <4>2
    <3> QED BY <3>1, <3>2
  <2>2. ASSUME NEW c \in spent' PROVE c[2] # NoSecret /\ c[2] <= epoch'[c[1]]
    <3>1. CASE c \in spent
      <4>1. c[2] <= epoch[c[1]] /\ epoch[c[1]] <= epoch'[c[1]]
              /\ epoch[c[1]] \in Nat /\ epoch'[c[1]] \in Nat /\ c[2] \in Nat /\ c[2] # NoSecret
        BY <1>5, <1>6, <3>1
      <4> QED BY <4>1
    <3>2. CASE c \notin spent
      <4>1. c[1] = a /\ c[2] = epoch[a] + 1
        BY <1>4, <3>2
      <4> HIDE DEF a, j
      <4> QED BY <1>0, <1>1, <1>3, <4>1
    <3> QED BY <3>1, <3>2
  <2> QED BY <2>1, <2>2 DEF SecretsOld
<1>8. Covered'
  <2>1. ASSUME NEW c \in spent', c[2] = accounts'[c[1]].secret
        PROVE  c[3] <= accounts'[c[1]].last
    <3>1. CASE c \in spent /\ c[1] # a
      <4>1. accounts'[c[1]] = accounts[c[1]]
        BY <1>1, <1>5, <3>1
      <4> QED BY <2>1, <3>1, <4>1 DEF Codes, Covered
    <3>2. CASE c \in spent /\ c[1] = a
      <4>1. c[2] <= epoch[a] /\ c[2] # NoSecret /\ c[2] \in Nat
        BY <1>5, <3>2
      <4>2. c[2] # epoch[a] + 1
        BY <1>0, <4>1
      <4>3. j.op \notin {"confirm_totp", "remove_totp", "disable_totp"}
        BY <1>1, <1>2, <2>1, <3>2, <4>1, <4>2
      <4> QED BY <1>1, <1>2, <2>1, <3>2, <4>3 DEF Codes, Covered
    <3>3. CASE c \notin spent
      <4>1. j.op = "confirm_totp" /\ c[1] = a /\ c[3] = j.code
        BY <1>4, <3>3
      <4> QED BY <1>1, <1>2, <1>3, <4>1
    <3> QED BY <3>1, <3>2, <3>3
  <2>2. ASSUME NEW v \in Workers, job'[v].op = "login"
        PROVE  /\ job'[v].row.secret <= epoch'[job'[v].admin]
               /\ \A c \in spent' : c[1] = job'[v].admin /\ c[2] = job'[v].row.secret
                                      => c[3] <= job'[v].row.last
    <3>1. job'[v] = job[v]
      BY <1>0, <2>2, IdleOK DEF ChangeCommit, Finish, Start, TypeOK
    <3>2. job[v] \in Job /\ job[v].op = "login" /\ job[v].admin \in Admins
      BY <1>0, <2>2, <3>1 DEF Typed, TypeOK, JobOK
    <3>3. job[v].row.secret \in Nat /\ job[v].row.secret <= epoch[job[v].admin]
      BY <3>2, BoundAssumption DEF Job, Account, Secrets, Codes, Covered
    <3>4. job[v].row.secret <= epoch'[job[v].admin]
      <4>1. /\ epoch[job[v].admin] \in Nat /\ epoch'[job[v].admin] \in Nat
            /\ epoch[job[v].admin] <= epoch'[job[v].admin]
        BY <1>6, <3>2
      <4> QED BY <3>3, <4>1
    <3>5. ASSUME NEW c \in spent', c[1] = job[v].admin, c[2] = job[v].row.secret
          PROVE  c[3] <= job[v].row.last
      <4>1. c \in spent
        <5>1. ~(c[1] = a /\ c[2] = epoch[a] + 1)
          BY <1>0, <3>3, <3>5
        <5> QED BY <1>4, <5>1
      <4> QED BY <3>2, <3>5, <4>1 DEF Codes, Covered
    <3> QED BY <3>1, <3>4, <3>5
  <2> QED BY <2>1, <2>2 DEF Covered
<1>9. CodeGoodOnce'
  BY <1>0 DEF Codes, CodeGoodOnce
<1> QED BY <1>7, <1>8, <1>9 DEF Codes

LEMMA CodesOther ==
  ASSUME Typed, Codes, Next, \A w \in Workers : ~(LoginCommit(w) \/ ChangeCommit(w))
  PROVE  Codes'
<1>0. TypeOK
  BY DEF Typed
<1>1. UNCHANGED <<epoch, spent, replayed>>
  BY DEF Next, Tick, CommandCreate, SetupCheck, LoginWrong, LoginUndecided, Reauth, TakeStatus,
     SelectSessions, Reactivate, Fails, LoginRead, LoginLockedOut, CreateAdmin, Command,
     Authenticate, SetupCommit, Logout, history
<1>2. ASSUME NEW a \in Admins
      PROVE  \/ /\ accounts'[a].secret = accounts[a].secret
                /\ accounts'[a].last = accounts[a].last
             \/ accounts'[a].secret = NoSecret
  <2>1. accounts[a] \in Account
    BY <1>0, AccountType
  <2>2. Created(a) => accounts'[a].secret = NoSecret
    BY DEF Created, NewAccount
  <2>3. Reactivated(a) => /\ accounts'[a].secret = accounts[a].secret
                          /\ accounts'[a].last = accounts[a].last
    BY <2>1 DEF Reactivated, Account
  <2>4. ~(LoggedIn(a) \/ HasChanged(a))
    BY DEF LoggedIn, HasChanged
  <2> QED BY <2>2, <2>3, <2>4, AccountSteps DEF AccountStep
<1>3. SecretsOld'
  <2>1. ASSUME NEW a \in Admins PROVE accounts'[a].secret <= epoch'[a]
    <3>1. epoch[a] \in Nat /\ accounts[a].secret <= epoch[a] /\ epoch'[a] = epoch[a]
      BY <1>0, <1>1, AccountType DEF Codes, SecretsOld
    <3> QED BY <1>2, <3>1 DEF NoSecret
  <2> QED BY <1>1, <2>1 DEF Codes, SecretsOld
<1>4. Covered'
  <2>1. ASSUME NEW c \in spent, c[2] = accounts'[c[1]].secret
        PROVE  c[3] <= accounts'[c[1]].last
    <3>1. c[1] \in Admins /\ c[2] # NoSecret
      BY <1>0, SpentType DEF Codes, SecretsOld
    <3> QED BY <1>2, <2>1, <3>1 DEF Codes, Covered
  <2>2. ASSUME NEW v \in Workers, job'[v].op = "login"
        PROVE  /\ job'[v].row.secret <= epoch[job'[v].admin]
               /\ \A c \in spent : c[1] = job'[v].admin /\ c[2] = job'[v].row.secret
                                     => c[3] <= job'[v].row.last
    <3>0. job[v] \in Job /\ JobOK(job[v])
      BY DEF Typed, TypeOK
    <3>1. CASE job'[v] = job[v]
      BY <2>2, <3>1 DEF Codes, Covered
    <3>2. CASE StartsLogin(v)
      <4>1. PICK a \in profile.emails : \E source : job'[v] = LoggingIn(a, source)
        BY <3>2 DEF StartsLogin
      <4>2. job'[v].admin = a /\ job'[v].row = accounts[a] /\ a \in Admins
        BY <1>0, <4>1, Bounds DEF LoggingIn, Idle
      <4> QED BY <4>2 DEF Codes, SecretsOld, Covered
    <3>3. ~(GoesOn(v) \/ TakesLock(v) \/ Selects(v))
      <4>1. GoesOn(v) \/ TakesLock(v) \/ Selects(v) => job'[v].op = job[v].op
        BY <3>0 DEF GoesOn, TakesLock, Selects, Job
      <4>2. job[v].op = "login" => job[v].step = "commit"
        BY <3>0 DEF JobOK
      <4> QED BY <2>2, <4>1, <4>2 DEF GoesOn, TakesLock, Selects, Reauth, TakeStatus, SelectSessions
    <3>4. ~(StartsCommand(v) \/ StartsSetup(v))
      BY <2>2 DEF StartsCommand, StartsSetup, Commanded, SettingUp, Idle, CliOps
    <3>5. ~StartsRequest(v)
      BY <2>2 DEF StartsRequest, Asked, Idle, RequestOps, OwnOps, StatusOps
    <3> QED BY <2>2, <3>1, <3>2, <3>3, <3>4, <3>5, IdleOK, JobSteps DEF JobStep
  <2> QED BY <1>1, <2>1, <2>2 DEF Covered
<1> QED BY <1>1, <1>3, <1>4 DEF Codes, CodeGoodOnce

\* A code that has logged in or was used to enrol does not log in again, however
\* logins, enrolments and removals overlap; except where an enrolment overlapped
\* a login, which writes the step of the old secret over that of the new one.
THEOREM CodesAreGoodOnce == Spec => []CodeGoodOnce
<1>1. Init => Codes
  BY IdleOK DEF Init, Codes, SecretsOld, Covered, CodeGoodOnce, Absent, NoSecret
<1>2. Typed /\ Codes /\ [Next]_vars => Codes'
  <2>1. Typed /\ Codes /\ Next => Codes'
    BY CodesLogin, CodesChange, CodesOther
  <2>2. Codes /\ UNCHANGED vars => Codes'
    BY DEF vars, db, history, Codes, SecretsOld, Covered, CodeGoodOnce
  <2> QED BY <2>1, <2>2
<1>3. Codes => CodeGoodOnce
  BY DEF Codes
<1> QED BY <1>1, <1>2, <1>3, TypedAlways, PTL DEF Spec

-----------------------------------------------------------------------------
(***************************************************************************)
(* The login rate limiter.                                                 *)
(***************************************************************************)

\* A finite set of numbers has a greatest one: of the sets of what is not below
\* one of them, one has no smaller one.
LEMMA Greatest ==
  ASSUME NEW S, IsFiniteSet(S), S \subseteq Nat, S # {}
  PROVE  \E m \in S : \A k \in S : k <= m
<1> DEFINE Above(m) == {k \in S : m <= k}
           Family == {Above(m) : m \in S}
           R == StrictSubsetOrdering(S)
<1>1. IsWellFoundedOn(R, SUBSET S)
  BY FS_StrictSubsetOrderingWellFounded, FS_FiniteSubsetsOfFinite
<1>2. Family \subseteq SUBSET S /\ Family # {}
  OBVIOUS
<1> HIDE DEF Family, R
<1>3. \E A \in Family : \A B \in Family : <<B, A>> \notin R
  BY <1>1, <1>2, WFMin
<1>4. PICK m \in S : \A B \in Family : <<B, Above(m)>> \notin R
  BY <1>3 DEF Family
<1>5. SUFFICES ASSUME NEW k \in S, ~(k <= m) PROVE FALSE
  OBVIOUS
<1>6. Above(k) \in Family
  BY DEF Family
<1>7. Above(k) \subseteq Above(m) /\ m \in Above(m) /\ m \notin Above(k)
  <2>1. m \in Nat /\ k \in Nat /\ m <= k /\ m <= m
    BY <1>5
  <2>2. ASSUME NEW l \in S, k <= l PROVE m <= l
    <3>1. l \in Nat
      OBVIOUS
    <3> QED BY <2>1, <2>2, <3>1
  <2> QED BY <1>5, <2>1, <2>2
<1>8. <<Above(k), Above(m)>> \in R
  BY <1>7 DEF R, StrictSubsetOrdering
<1> QED BY <1>4, <1>6, <1>8

\* Longer lockouts come with the later thresholds, as in the defaults of
\* config.py ("the highest threshold met wins").
Ascending ==
  \A i, k \in DOMAIN Thresholds : i <= k => Thresholds[i].lockout <= Thresholds[k].lockout

Met(n, factor) == {i \in DOMAIN Thresholds : n >= Thresholds[i].failures * factor}

LEMMA ThresholdFacts ==
  /\ DOMAIN Thresholds = 1..Len(Thresholds) /\ Len(Thresholds) \in Nat
  /\ \A i \in DOMAIN Thresholds :
       /\ Thresholds[i].failures \in Nat \ {0}
       /\ Thresholds[i].lockout \in Nat
<1>1. Thresholds \in Seq([failures : Nat \ {0}, lockout : Nat])
  BY ThresholdAssumption
<1>2. DOMAIN Thresholds = 1..Len(Thresholds) /\ Len(Thresholds) \in Nat
  BY <1>1, LenProperties
<1>3. \A i \in DOMAIN Thresholds : Thresholds[i] \in [failures : Nat \ {0}, lockout : Nat]
  BY <1>1, <1>2, ElementOfSeq
<1> QED BY <1>2, <1>3

LEMMA LockoutFacts ==
  ASSUME NEW n \in Nat, NEW factor \in Nat \ {0}
  PROVE  /\ Lockout(n, factor) \in Nat
         /\ Met(n, factor) = {} => Lockout(n, factor) = 0
         /\ Met(n, factor) # {} =>
              \E m \in Met(n, factor) : /\ \A k \in Met(n, factor) : k <= m
                                        /\ Lockout(n, factor) = Thresholds[m].lockout
<1> DEFINE M == Met(n, factor)
           top == CHOOSE i \in M : \A k \in M : k <= i
<1>1. Lockout(n, factor) = IF M = {} THEN 0 ELSE Thresholds[top].lockout
  BY DEF Lockout, Met
<1>2. DOMAIN Thresholds = 1..Len(Thresholds) /\ Len(Thresholds) \in Nat
      /\ \A i \in DOMAIN Thresholds : Thresholds[i].lockout \in Nat
  BY ThresholdFacts
<1>3. M \subseteq 1..Len(Thresholds) /\ M \subseteq Nat
  BY <1>2 DEF Met
<1>4. IsFiniteSet(M)
  <2>1. IsFiniteSet(1..Len(Thresholds))
    BY <1>2, FS_Interval
  <2> HIDE DEF M
  <2> QED BY <1>3, <2>1, FS_Subset
<1> HIDE DEF M
<1>5. M # {} => top \in M /\ \A k \in M : k <= top
  BY <1>3, <1>4, Greatest
<1> HIDE DEF top
<1>6. M # {} => Thresholds[top].lockout \in Nat
  BY <1>2, <1>3, <1>5
<1> QED BY <1>1, <1>5, <1>6 DEF M

\* More failures do not earn a shorter lockout.
LEMMA LockoutGrows ==
  ASSUME Ascending, NEW m \in Nat, NEW n \in Nat, m <= n, NEW factor \in Nat \ {0}
  PROVE  Lockout(m, factor) <= Lockout(n, factor)
<1>1. Met(m, factor) \subseteq Met(n, factor)
  <2>1. ASSUME NEW i \in DOMAIN Thresholds, m >= Thresholds[i].failures * factor
        PROVE  n >= Thresholds[i].failures * factor
    <3>1. Thresholds[i].failures \in Nat
      BY ThresholdFacts
    <3>2. Thresholds[i].failures * factor \in Nat
      BY <3>1
    <3> QED BY <2>1, <3>2
  <2> QED BY <2>1 DEF Met
<1>2. CASE Met(m, factor) = {}
  <2>1. Lockout(m, factor) = 0 /\ Lockout(n, factor) \in Nat
    BY <1>2, LockoutFacts
  <2> QED BY <2>1
<1>3. CASE Met(m, factor) # {}
  <2>1. PICK i \in Met(m, factor) : Lockout(m, factor) = Thresholds[i].lockout
    BY <1>3, LockoutFacts
  <2>2. PICK k \in Met(n, factor) : /\ \A l \in Met(n, factor) : l <= k
                                    /\ Lockout(n, factor) = Thresholds[k].lockout
    BY <1>1, <1>3, LockoutFacts
  <2>3. i <= k /\ i \in DOMAIN Thresholds /\ k \in DOMAIN Thresholds
    BY <1>1, <2>1, <2>2 DEF Met
  <2> QED BY <2>1, <2>2, <2>3 DEF Ascending
<1> QED BY <1>2, <1>3

-----------------------------------------------------------------------------
\* What is counted, and what one failure more adds to it.
Attempt == [at : Nat, from : Sources]
Recent(fs, s, t) == InWindow(fs, t) \cap From(fs, s)

LEMMA Counting ==
  ASSUME NEW fs \in Failures, NEW S, S \subseteq DOMAIN fs
  PROVE  /\ IsFiniteSet(S) /\ Cardinality(S) \in Nat
         /\ \A i \in S : fs[i] \in Attempt /\ fs[i].at \in Nat /\ i \in Nat
         /\ S # {} => Cardinality(S) \in Nat \ {0}
<1>1. DOMAIN fs = 1..Len(fs) /\ Len(fs) \in Nat /\ \A i \in 1..Len(fs) : fs[i] \in Attempt
  <2>1. fs \in Seq(Attempt)
    BY DEF Failures, Attempt
  <2> QED BY <2>1, LenProperties, ElementOfSeq
<1>2. IsFiniteSet(S)
  <2>1. IsFiniteSet(1..Len(fs))
    BY <1>1, FS_Interval
  <2> QED BY <1>1, <2>1, FS_Subset
<1>3. Cardinality(S) \in Nat
  BY <1>2, FS_CardinalityType
<1>4. S # {} => Cardinality(S) # 0
  BY <1>2, FS_EmptySet
<1>5. \A i \in S : fs[i] \in Attempt /\ fs[i].at \in Nat /\ i \in Nat
  BY <1>1 DEF Attempt
<1> QED BY <1>2, <1>3, <1>4, <1>5

LEMMA Appended ==
  ASSUME NEW fs \in Failures, NEW f \in Attempt, NEW gs, gs = Append(fs, f)
  PROVE  /\ gs \in Failures /\ Len(fs) \in Nat /\ Len(gs) = Len(fs) + 1
         /\ DOMAIN fs = 1..Len(fs) /\ DOMAIN gs = DOMAIN fs \cup {Len(fs) + 1}
         /\ gs[Len(fs) + 1] = f /\ \A i \in DOMAIN fs : gs[i] = fs[i]
<1>1. fs \in Seq(Attempt)
  BY DEF Failures, Attempt
<1>2. Len(fs) \in Nat /\ DOMAIN fs = 1..Len(fs)
  BY <1>1, LenProperties
<1>3. gs \in Seq(Attempt) /\ Len(gs) = Len(fs) + 1 /\ gs[Len(fs) + 1] = f
      /\ \A i \in 1..Len(fs) : gs[i] = fs[i]
  BY <1>1, AppendProperties
<1>4. DOMAIN gs = 1..(Len(fs) + 1)
  BY <1>3, LenProperties
<1>5. DOMAIN gs = DOMAIN fs \cup {Len(fs) + 1}
  BY <1>2, <1>4
<1> QED BY <1>2, <1>3, <1>5 DEF Failures, Attempt

\* Fewer failures counted, later: nobody is locked out who was not before.
LEMMA LocksLess ==
  ASSUME Ascending, NEW fs \in Failures, NEW A, A \subseteq DOMAIN fs, NEW B, B \subseteq A,
         NEW factor \in Nat \ {0}, NEW t \in Nat, NEW u \in Nat, t <= u,
         LocksOut(fs, B, factor, u)
  PROVE  LocksOut(fs, A, factor, t)
<1>1. PICK i \in B : u < fs[i].at + Lockout(Cardinality(B), factor)
  BY DEF LocksOut
<1>2. IsFiniteSet(A) /\ Cardinality(A) \in Nat /\ Cardinality(B) \in Nat /\ fs[i].at \in Nat
  BY Counting
<1>3. Cardinality(B) <= Cardinality(A)
  BY <1>2, FS_Subset
<1>4. Lockout(Cardinality(B), factor) <= Lockout(Cardinality(A), factor)
  BY <1>2, <1>3, LockoutGrows
<1>5. Lockout(Cardinality(B), factor) \in Nat /\ Lockout(Cardinality(A), factor) \in Nat
  BY <1>2, LockoutFacts
<1>6. t < fs[i].at + Lockout(Cardinality(A), factor)
  BY <1>1, <1>2, <1>4, <1>5
<1> QED BY <1>6 DEF LocksOut

LEMMA LockedLess ==
  ASSUME Ascending, NEW fs \in Failures, NEW s, NEW known \in BOOLEAN,
         NEW t \in Nat, NEW u \in Nat, t <= u, Locked(known, fs, s, u)
  PROVE  Locked(known, fs, s, t)
<1>1. InWindow(fs, u) \subseteq InWindow(fs, t) /\ InWindow(fs, t) \subseteq DOMAIN fs
  <2>1. ASSUME NEW i \in DOMAIN fs, fs[i].at + Window >= u PROVE fs[i].at + Window >= t
    <3>1. fs[i].at \in Nat /\ Window \in Nat
      BY Counting, ThresholdAssumption
    <3> QED BY <2>1, <3>1
  <2> QED BY <2>1 DEF InWindow
<1>2. Recent(fs, s, u) \subseteq Recent(fs, s, t) /\ Recent(fs, s, t) \subseteq DOMAIN fs
  BY <1>1 DEF Recent
<1>3. 1 \in Nat \ {0} /\ AccountWideFactor \in Nat \ {0}
  BY ThresholdAssumption
<1>4. LocksOut(fs, Recent(fs, s, u), 1, u) => LocksOut(fs, Recent(fs, s, t), 1, t)
  BY <1>2, <1>3, LocksLess
<1>5. AccountWide(fs, InWindow(fs, u), u) => AccountWide(fs, InWindow(fs, t), t)
  BY <1>1, <1>3, LocksLess DEF AccountWide
<1> QED BY <1>4, <1>5 DEF Locked, Recent

-----------------------------------------------------------------------------
\* The attempts of one account keep their distance.
Distant(known, fs) ==
  \A i \in 2..Len(fs) : ~Locked(known, SubSeq(fs, 1, i - 1), fs[i].from, fs[i].at)

LEMMA DistantAppend ==
  ASSUME NEW fs \in Failures, NEW f \in Attempt, NEW gs, gs = Append(fs, f), NEW known,
         Distant(known, fs), ~Locked(known, fs, f.from, f.at)
  PROVE  Distant(known, gs)
<1>1. /\ gs \in Failures /\ Len(fs) \in Nat /\ Len(gs) = Len(fs) + 1 /\ DOMAIN fs = 1..Len(fs)
      /\ gs[Len(fs) + 1] = f /\ \A i \in DOMAIN fs : gs[i] = fs[i]
  <2>1. gs \in Failures /\ Len(fs) \in Nat /\ Len(gs) = Len(fs) + 1
    BY Appended
  <2>2. DOMAIN fs = 1..Len(fs) /\ gs[Len(fs) + 1] = f
    BY Appended
  <2>3. \A i \in DOMAIN fs : gs[i] = fs[i]
    BY Appended
  <2> QED BY <2>1, <2>2, <2>3
<1>2. \A i \in 1..Len(fs) : fs[i] \in Attempt /\ gs[i] \in Attempt
  BY <1>1, Counting
<1>3. ASSUME NEW n \in 0..Len(fs)
      PROVE  SubSeq(gs, 1, n) = SubSeq(fs, 1, n)
  <2>1. n \in Int /\ 1 \in Int /\ \A i \in 1..n : i \in 1..Len(fs)
    BY <1>1
  <2>2. /\ SubSeq(fs, 1, n) \in Seq(Attempt) /\ Len(SubSeq(fs, 1, n)) = n
        /\ \A i \in 1..n : SubSeq(fs, 1, n)[i] = fs[i]
    BY <1>2, <2>1, SubSeqProperties
  <2>3. /\ SubSeq(gs, 1, n) \in Seq(Attempt) /\ Len(SubSeq(gs, 1, n)) = n
        /\ \A i \in 1..n : SubSeq(gs, 1, n)[i] = gs[i]
    BY <1>2, <2>1, SubSeqProperties
  <2> QED BY <1>1, <2>1, <2>2, <2>3, SeqEqual
<1>4. SubSeq(gs, 1, Len(fs)) = fs
  <2>1. SubSeq(fs, 1, Len(fs)) = fs
    BY SubSeqFull DEF Failures
  <2> QED BY <1>1, <1>3, <2>1
<1>5. ASSUME NEW i \in 2..Len(gs)
      PROVE  ~Locked(known, SubSeq(gs, 1, i - 1), gs[i].from, gs[i].at)
  <2>1. CASE i = Len(fs) + 1
    <3>1. i - 1 = Len(fs)
      BY <1>1, <2>1
    <3> QED BY <1>1, <1>4, <2>1, <3>1
  <2>2. CASE i # Len(fs) + 1
    <3>1. i \in 2..Len(fs) /\ i \in 1..Len(fs) /\ i - 1 \in 0..Len(fs)
      BY <1>1, <1>5, <2>2
    <3> QED BY <1>1, <1>3, <3>1 DEF Distant
  <2> QED BY <2>1, <2>2
<1> QED BY <1>5 DEF Distant

-----------------------------------------------------------------------------
\* How long n failures of one source take at least, if it lasts longer than the
\* window until there are as many as lock out every source.
Takes(D) ==
  /\ D \in [Nat -> Nat] /\ D[1] = 0
  /\ \A n \in Nat \ {0} : D[n + 1] <= D[n] + Lockout(n, 1)
  /\ \A n \in Nat : Lockout(n, AccountWideFactor) # 0 => D[n] > Window
EscalatesInTime == \E D \in [Nat -> Nat] : Takes(D)

\* The failures of a source since some time have taken that long, from the first
\* of them to the last, if they all fall into one window.
Lasted(D, fs, S) ==
  \E first, last \in S :
    /\ \A i \in S : fs[first].at <= fs[i].at
    /\ fs[first].at + Window >= fs[last].at => D[Cardinality(S)] + fs[first].at <= fs[last].at
Spread(D, fs, s) == \A t \in Nat : Recent(fs, s, t) # {} => Lasted(D, fs, Recent(fs, s, t))

LEMMA SpreadAppend ==
  ASSUME Ascending, NEW D, Takes(D), NEW fs \in Failures, NEW f \in Attempt,
         NEW gs, gs = Append(fs, f), \A i \in DOMAIN fs : fs[i].at <= f.at,
         ~LocksOut(fs, Recent(fs, f.from, f.at), 1, f.at),
         NEW s, Spread(D, fs, s)
  PROVE  Spread(D, gs, s)
<1> DEFINE n == Len(fs) + 1
           now_ == f.at
<1>1. /\ gs \in Failures /\ n \in Nat /\ n \notin DOMAIN fs /\ gs[n] = f
      /\ DOMAIN gs = DOMAIN fs \cup {n} /\ \A i \in DOMAIN fs : gs[i] = fs[i]
  <2>1. gs \in Failures /\ Len(fs) \in Nat /\ gs[Len(fs) + 1] = f
    BY Appended
  <2>2. DOMAIN fs = 1..Len(fs)
    BY Appended
  <2>3. DOMAIN gs = DOMAIN fs \cup {Len(fs) + 1}
    BY Appended
  <2>4. \A i \in DOMAIN fs : gs[i] = fs[i]
    BY Appended
  <2> QED BY <2>1, <2>2, <2>3, <2>4
<1>2. f.at \in Nat /\ Window \in Nat /\ \A i \in DOMAIN fs : fs[i].at \in Nat
  BY Counting, ThresholdAssumption DEF Attempt
<1> HIDE DEF n
<1> SUFFICES ASSUME NEW t \in Nat, Recent(gs, s, t) # {}
             PROVE  Lasted(D, gs, Recent(gs, s, t))
  BY DEF Spread
<1> DEFINE S == Recent(fs, s, t)
<1>3. S \subseteq DOMAIN fs /\ \A i \in S : i \in DOMAIN fs /\ gs[i] = fs[i]
  BY <1>1 DEF Recent, InWindow
<1>4. Recent(gs, s, t) = S \cup (IF f.from = s /\ f.at + Window >= t THEN {n} ELSE {})
  BY <1>1 DEF Recent, InWindow, From
<1>5. /\ IsFiniteSet(S) /\ Cardinality(S) \in Nat /\ n \notin S
      /\ S # {} => Cardinality(S) \in Nat \ {0}
  BY <1>1, <1>3, Counting
<1>6. S # {} => Lasted(D, fs, S)
  BY DEF Spread
<1>7. CASE ~(f.from = s /\ f.at + Window >= t)
  <2>1. Recent(gs, s, t) = S
    BY <1>4, <1>7
  <2> HIDE DEF S
  <2> QED BY <1>3, <1>6, <2>1 DEF Lasted
<1>8. CASE f.from = s /\ f.at + Window >= t
  <2>1. Recent(gs, s, t) = S \cup {n}
    BY <1>4, <1>8
  <2>2. CASE S = {}
    <3>1. Recent(gs, s, t) = {n} /\ Cardinality({n}) = 1 /\ D[1] = 0
      BY <2>1, <2>2, FS_Singleton DEF Takes
    <3> QED BY <1>1, <1>2, <3>1 DEF Lasted
  <2>3. CASE S # {}
    <3> DEFINE c == Cardinality(S)
    <3>1. PICK first \in S, last \in S :
            /\ \A i \in S : fs[first].at <= fs[i].at
            /\ fs[first].at + Window >= fs[last].at => D[c] + fs[first].at <= fs[last].at
      BY <1>6, <2>3 DEF Lasted
    <3>2. /\ fs[first].at \in Nat /\ fs[last].at \in Nat /\ fs[last].at <= f.at
          /\ fs[first].at <= f.at /\ c \in Nat \ {0} /\ c + 1 \in Nat
          /\ D[c] \in Nat /\ D[c + 1] \in Nat /\ D[c + 1] <= D[c] + Lockout(c, 1)
          /\ Lockout(c, 1) \in Nat
      <4>1. first \in DOMAIN fs /\ last \in DOMAIN fs /\ c \in Nat \ {0}
        BY <1>3, <1>5, <2>3
      <4> HIDE DEF c
      <4>2. c \in Nat /\ c + 1 \in Nat /\ 1 \in Nat \ {0}
        BY <4>1
      <4>3. Lockout(c, 1) \in Nat
        BY <4>2, LockoutFacts
      <4>4. D[c] \in Nat /\ D[c + 1] \in Nat /\ D[c + 1] <= D[c] + Lockout(c, 1)
        BY <4>1, <4>2 DEF Takes
      <4> QED BY <1>2, <4>1, <4>2, <4>3, <4>4
    <3>3. Cardinality(S \cup {n}) = c + 1
      BY <1>5, FS_AddElement
    <3> HIDE DEF c, S
    <3>4. ASSUME fs[first].at + Window >= f.at
          PROVE  D[c + 1] + fs[first].at <= f.at
      <4>1. S \subseteq Recent(fs, f.from, f.at)
        <5>1. ASSUME NEW i \in S PROVE fs[i].at + Window >= f.at
          <6>1. fs[first].at <= fs[i].at /\ fs[i].at \in Nat
            BY <1>2, <1>3, <3>1
          <6>2. fs[first].at + Window <= fs[i].at + Window
            BY <1>2, <3>2, <6>1
          <6> QED BY <1>2, <3>2, <3>4, <6>1, <6>2
        <5>2. \A i \in S : fs[i].from = s
          BY DEF S, Recent, From
        <5> QED BY <1>3, <1>8, <5>1, <5>2 DEF Recent, InWindow, From
      <4>2. Recent(fs, f.from, f.at) \subseteq DOMAIN fs /\ 1 \in Nat \ {0} /\ f.at <= f.at
        BY <1>2 DEF Recent, InWindow
      <4>3. ~LocksOut(fs, S, 1, f.at)
        BY <1>2, <4>1, <4>2, LocksLess
      <4>4. ~(f.at < fs[last].at + Lockout(c, 1))
        BY <4>3 DEF LocksOut, c
      <4>5. D[c] + fs[first].at <= fs[last].at
        BY <1>2, <3>1, <3>2, <3>4
      <4> QED BY <1>2, <3>2, <4>4, <4>5
    <3>5. gs[first] = fs[first] /\ gs[n] = f /\ \A i \in S \cup {n} : gs[first].at <= gs[i].at
      BY <1>1, <1>3, <3>1, <3>2
    <3> QED BY <2>1, <3>3, <3>4, <3>5 DEF Lasted
  <2> QED BY <2>2, <2>3
<1> QED BY <1>7, <1>8

\* So few of them are in the window that they do not lock everybody out.
LEMMA SpreadSuffices ==
  ASSUME NEW D, Takes(D), NEW fs \in Failures, NEW t \in Nat, NEW s,
         \A i \in DOMAIN fs : fs[i].at <= t, Spread(D, fs, s)
  PROVE  ~AccountWide(fs, Recent(fs, s, t), t)
<1> DEFINE S == Recent(fs, s, t)
           c == Cardinality(S)
<1>1. SUFFICES ASSUME NEW i \in S, t < fs[i].at + Lockout(c, AccountWideFactor)
               PROVE  FALSE
  BY DEF AccountWide, LocksOut
<1>2. S \subseteq DOMAIN fs /\ \A k \in S : fs[k].at + Window >= t
  BY DEF Recent, InWindow
<1>3. c \in Nat /\ Window \in Nat /\ \A k \in DOMAIN fs : fs[k].at \in Nat
  BY <1>2, Counting, ThresholdAssumption
<1>4. PICK first \in S, last \in S :
        fs[first].at + Window >= fs[last].at => D[c] + fs[first].at <= fs[last].at
  BY <1>1 DEF Spread, Lasted
<1>5. /\ fs[first].at \in Nat /\ fs[last].at \in Nat /\ fs[last].at <= t /\ fs[i].at <= t
      /\ fs[first].at + Window >= t /\ fs[i].at \in Nat
  BY <1>1, <1>2, <1>3, <1>4
<1>6. D[c] \in Nat /\ (Lockout(c, AccountWideFactor) # 0 => D[c] > Window)
      /\ Lockout(c, AccountWideFactor) \in Nat
  BY <1>3, LockoutFacts, ThresholdAssumption DEF Takes
<1> HIDE DEF c, S
<1>7. D[c] <= Window
  BY <1>3, <1>4, <1>5, <1>6
<1> QED BY <1>1, <1>3, <1>5, <1>6, <1>7

-----------------------------------------------------------------------------
\* A login that is under way was not locked out when it began; nothing was
\* recorded since.
Pending ==
  \A w \in Workers : job[w].op = "login" => ~LockedOut(job[w].admin, job[w].row, job[w].source)

Past == \A k \in Admins \cup {NoAdmin} : \A i \in DOMAIN failures[k] : failures[k][i].at <= now

LEMMA CounterFacts ==
  ASSUME NEW a \in Admins, NEW row
  PROVE  Counter(a, row) \in Admins \cup {NoAdmin} /\ (Counter(a, row) # NoAdmin <=> row.exists)
BY NoneAssumption DEF Counter

\* What a step makes of the failures of an account, or of unknown e-mails.
Adds(k) ==
  \E source \in Sources :
    /\ failures'[k] = Append(failures[k], [at |-> now, from |-> source])
    /\ ~Locked(k # NoAdmin, failures[k], source, now)
FailuresStep(k) == failures'[k] = failures[k] \/ failures'[k] = <<>> \/ Adds(k)

LEMMA FailuresSteps ==
  ASSUME Typed, Known, Pending, Next, NEW k \in Admins \cup {NoAdmin}
  PROVE  FailuresStep(k) /\ (failures'[k] # failures[k] => now' = now)
<1>0. failures \in [Admins \cup {NoAdmin} -> Failures]
  BY DEF Typed, TypeOK
<1>1. ASSUME NEW w \in Workers, LoginCommit(w)
      PROVE  FailuresStep(k) /\ now' = now
  <2>1. failures' = [failures EXCEPT ![job[w].admin] = <<>>] /\ now' = now
    BY <1>1 DEF LoginCommit
  <2>2. failures'[k] = failures[k] \/ failures'[k] = <<>>
    BY <1>0, <2>1
  <2> QED BY <2>1, <2>2 DEF FailuresStep
<1>2. ASSUME NEW l, NEW source \in Sources, RecordFailure(l, source),
             ~Locked(l # NoAdmin, failures[l], source, now)
      PROVE  FailuresStep(k)
  <2>1. failures' = [failures EXCEPT ![l] = Append(failures[l], [at |-> now, from |-> source])]
    BY <1>2 DEF RecordFailure
  <2>2. CASE k = l
    <3>1. failures'[k] = Append(failures[k], [at |-> now, from |-> source])
      BY <1>0, <2>1, <2>2
    <3> QED BY <1>2, <2>2, <3>1 DEF FailuresStep, Adds
  <2>3. CASE k # l
    <3>1. failures'[k] = failures[k]
      BY <1>0, <2>1, <2>3
    <3> QED BY <3>1 DEF FailuresStep
  <2> QED BY <2>2, <2>3
<1>3. ASSUME NEW w \in Workers, LoginWrong(w)
      PROVE  FailuresStep(k) /\ now' = now
  <2>1. job[w].op = "login" /\ job[w].admin \in Admins /\ job[w].source \in Sources
    BY <1>3 DEF LoginWrong, At, Typed, JobOK
  <2> DEFINE l == Counter(job[w].admin, job[w].row)
  <2>2. ~Locked(job[w].row.exists, failures[l], job[w].source, now)
    BY <2>1 DEF Pending, LockedOut
  <2>3. ~Locked(l # NoAdmin, failures[l], job[w].source, now)
    BY <2>1, <2>2, CounterFacts DEF Locked
  <2>4. RecordFailure(l, job[w].source) /\ now' = now
    BY <1>3 DEF LoginWrong
  <2> HIDE DEF l
  <2> QED BY <1>2, <2>1, <2>3, <2>4
<1>4. ASSUME NEW w \in Workers, Reauth(w)
      PROVE  FailuresStep(k) /\ now' = now
  <2>1. job[w].op \in OwnOps /\ job[w].target \in Admins
    BY <1>4 DEF Reauth, Typed, JobOK, ChangeOps
  <2>2. accounts[job[w].target].exists /\ job[w].target # NoAdmin
    BY <2>1, NoneAssumption DEF Known, ChangeOps
  <2>3. PICK source \in profile.sources :
          /\ ~LockedOut(job[w].target, accounts[job[w].target], source)
          /\ failures' = failures \/ RecordFailure(job[w].target, source)
    BY <1>4 DEF Reauth
  <2>4. ~Locked(job[w].target # NoAdmin, failures[job[w].target], source, now)
    BY <2>2, <2>3 DEF LockedOut, Counter, Locked
  <2>5. source \in Sources /\ now' = now
    BY <1>4, Bounds DEF Typed, Reauth
  <2> QED BY <1>2, <2>3, <2>4, <2>5 DEF FailuresStep
<1>5. CASE UNCHANGED failures
  BY <1>5 DEF FailuresStep
<1> QED BY <1>1, <1>3, <1>4, <1>5
    DEF Next, Tick, CommandCreate, SetupCheck, SetupCommit, LoginUndecided, TakeStatus,
        SelectSessions, ChangeCommit, Reactivate, Logout, Fails, LoginRead, LoginLockedOut,
        CreateAdmin, Command, Authenticate

\* While a login goes on nothing is recorded (login_lock).
LEMMA WhileHeld ==
  ASSUME Typed, Next, NEW v \in Workers, job[v].op = "login", job'[v] = job[v]
  PROVE  failures' = failures
<1>1. loginLock = v /\ v # NoWorker /\ \A w \in Workers : job[w].op = "login" => w = v
  BY NoneAssumption DEF Typed, TypeOK
<1>2. ASSUME NEW w \in Workers, LoginCommit(w) \/ LoginWrong(w)
      PROVE  FALSE
  <2>1. job[w].op = "login" /\ Start(w, Idle)
    BY <1>2 DEF LoginCommit, LoginWrong, At, Finish
  <2>2. job'[v] = Idle
    BY <1>1, <2>1 DEF Start, Typed, TypeOK
  <2> QED BY <2>2, IdleOK
<1>3. \A w \in Workers : ~Reauth(w)
  BY <1>1 DEF Reauth
<1> QED BY <1>2, <1>3
    DEF Next, Tick, CommandCreate, SetupCheck, SetupCommit, LoginUndecided, TakeStatus,
        SelectSessions, ChangeCommit, Reactivate, Logout, Fails, LoginRead, LoginLockedOut,
        CreateAdmin, Command, Authenticate

LEMMA TimeGoesOn ==
  ASSUME Typed, Next PROVE now \in Nat /\ now' \in Nat /\ now <= now'
<1>1. now \in Nat
  BY Bounds DEF Typed
<1>2. now' = now \/ now' = now + 1
  BY DEF Next, Tick, CommandCreate, SetupCheck, SetupCommit, LoginCommit, LoginWrong,
     LoginUndecided, Reauth, TakeStatus, SelectSessions, ChangeCommit, Reactivate, Logout, Fails,
     LoginRead, LoginLockedOut, CreateAdmin, Command, Authenticate
<1> QED BY <1>1, <1>2

LEMMA PendingStep ==
  ASSUME Ascending, Typed, Pending, Next
  PROVE  Pending'
<1> SUFFICES ASSUME NEW v \in Workers, job'[v].op = "login"
             PROVE  ~LockedOut(job[v].admin, job[v].row, job[v].source)'
  BY DEF Pending
<1>0. job[v] \in Job /\ JobOK(job[v]) /\ failures \in [Admins \cup {NoAdmin} -> Failures]
  BY DEF Typed, TypeOK
<1>1. CASE job'[v] = job[v]
  <2> DEFINE j == job[v]
             k == Counter(j.admin, j.row)
  <2>1. j.op = "login" /\ failures' = failures
    BY <1>1, WhileHeld
  <2>2. k \in Admins \cup {NoAdmin} /\ failures[k] \in Failures /\ j.row.exists \in BOOLEAN
    BY <1>0, <2>1, CounterFacts DEF JobOK, Job, Account
  <2>3. ~Locked(j.row.exists, failures[k], j.source, now)
    BY <2>1 DEF Pending, LockedOut
  <2>4. ~Locked(j.row.exists, failures[k], j.source, now')
    BY <2>2, <2>3, TimeGoesOn, LockedLess
  <2> QED BY <1>1, <2>1, <2>4 DEF LockedOut, Counter
<1>2. CASE StartsLogin(v)
  <2>1. PICK a \in profile.emails, source \in profile.sources :
          LoginRead(v, a) /\ ~LockedOut(a, accounts[a], source) /\ job'[v] = LoggingIn(a, source)
    BY <1>2 DEF StartsLogin
  <2>2. job'[v].admin = a /\ job'[v].row = accounts[a] /\ job'[v].source = source
    BY <2>1 DEF LoggingIn, Idle
  <2>3. failures' = failures /\ now' = now
    BY <2>1 DEF LoginRead
  <2> QED BY <2>1, <2>2, <2>3 DEF LockedOut, Counter
<1>3. CASE job'[v] = Idle \/ GoesOn(v) \/ TakesLock(v) \/ Selects(v)
           \/ StartsCommand(v) \/ StartsRequest(v) \/ StartsSetup(v)
  <2>1. ~(GoesOn(v) \/ TakesLock(v) \/ Selects(v))
    <3>1. job[v].op = "login" => job[v].step = "commit"
      BY <1>0 DEF JobOK
    <3>2. GoesOn(v) \/ TakesLock(v) \/ Selects(v) =>
            job'[v].op = job[v].op /\ job[v].step \in {"reauth", "status", "select"}
      BY <1>0 DEF GoesOn, TakesLock, Selects, Job, Reauth, TakeStatus, SelectSessions
    <3> QED BY <3>1, <3>2
  <2>2. ~(StartsCommand(v) \/ StartsRequest(v) \/ StartsSetup(v) \/ job'[v] = Idle)
    BY IdleOK DEF StartsCommand, StartsRequest, StartsSetup, Commanded, Asked, SettingUp, Idle,
       CliOps, RequestOps, OwnOps, StatusOps
  <2> QED BY <1>3, <2>1, <2>2
<1> QED BY <1>1, <1>2, <1>3, JobSteps DEF JobStep

LEMMA PastStep ==
  ASSUME Typed, Known, Pending, Past, Next
  PROVE  Past'
<1> SUFFICES ASSUME NEW k \in Admins \cup {NoAdmin}, NEW i \in DOMAIN failures'[k]
             PROVE  failures'[k][i].at <= now'
  BY DEF Past
<1>0. failures[k] \in Failures /\ now \in Nat /\ now' \in Nat /\ now <= now'
  BY TimeGoesOn DEF Typed, TypeOK
<1>1. CASE failures'[k] = failures[k]
  <2>1. failures[k][i].at \in Nat /\ failures[k][i].at <= now
    BY <1>0, <1>1, Counting DEF Past
  <2> QED BY <1>0, <1>1, <2>1
<1>2. CASE failures'[k] = <<>>
  BY <1>2
<1>3. CASE Adds(k)
  <2>1. PICK source \in Sources : failures'[k] = Append(failures[k], [at |-> now, from |-> source])
    BY <1>3 DEF Adds
  <2> DEFINE f == [at |-> now, from |-> source]
  <2>2. f \in Attempt /\ f.at = now
    BY <1>0 DEF Attempt
  <2> HIDE DEF f
  <2>3. failures'[k] = Append(failures[k], f)
    BY <2>1 DEF f
  <2>4. DOMAIN failures'[k] = DOMAIN failures[k] \cup {Len(failures[k]) + 1}
    BY <1>0, <2>2, <2>3, Appended
  <2>5. failures'[k][Len(failures[k]) + 1] = f
    BY <1>0, <2>2, <2>3, Appended
  <2>6. \A n \in DOMAIN failures[k] : failures'[k][n] = failures[k][n]
    BY <1>0, <2>2, <2>3, Appended
  <2>7. \A n \in DOMAIN failures[k] : failures[k][n].at \in Nat /\ failures[k][n].at <= now
    BY <1>0, Counting DEF Past
  <2> QED BY <1>0, <2>2, <2>4, <2>5, <2>6, <2>7
<1> QED BY <1>1, <1>2, <1>3, FailuresSteps DEF FailuresStep

\* GuessesSpaced, by account.
LEMMA DistantStep ==
  ASSUME Typed, Known, Pending, Next, NEW k \in Admins \cup {NoAdmin},
         Distant(k # NoAdmin, failures[k])
  PROVE  Distant(k # NoAdmin, failures'[k])
<1>0. failures[k] \in Failures /\ now \in Nat
  BY TimeGoesOn DEF Typed, TypeOK
<1>1. CASE failures'[k] = failures[k]
  BY <1>1
<1>2. CASE failures'[k] = <<>>
  <2>1. Len(failures'[k]) = 0 /\ 2..0 = {}
    BY <1>2
  <2> QED BY <2>1 DEF Distant
<1>3. CASE Adds(k)
  <2>1. PICK source \in Sources :
          /\ failures'[k] = Append(failures[k], [at |-> now, from |-> source])
          /\ ~Locked(k # NoAdmin, failures[k], source, now)
    BY <1>3 DEF Adds
  <2> DEFINE f == [at |-> now, from |-> source]
  <2>2. f \in Attempt /\ f.at = now /\ f.from = source
    BY <1>0 DEF Attempt
  <2>3. failures'[k] = Append(failures[k], f)
    BY <2>1
  <2> HIDE DEF f
  <2> QED BY <1>0, <2>1, <2>2, <2>3, DistantAppend
<1> QED BY <1>1, <1>2, <1>3, FailuresSteps DEF FailuresStep

LEMMA SpreadStep ==
  ASSUME Ascending, NEW D, Takes(D), Typed, Known, Pending, Past, Next,
         NEW k \in Admins, NEW s, Spread(D, failures[k], s)
  PROVE  Spread(D, failures'[k], s)
<1>0. failures[k] \in Failures /\ now \in Nat /\ k # NoAdmin
  BY TimeGoesOn, NoneAssumption DEF Typed, TypeOK
<1>1. CASE failures'[k] = failures[k]
  BY <1>1
<1>2. CASE failures'[k] = <<>>
  <2>1. \A t : Recent(<<>>, s, t) = {}
    BY DEF Recent, InWindow
  <2> QED BY <1>2, <2>1 DEF Spread
<1>3. CASE Adds(k)
  <2>1. PICK source \in Sources :
          /\ failures'[k] = Append(failures[k], [at |-> now, from |-> source])
          /\ ~Locked(k # NoAdmin, failures[k], source, now)
    BY <1>3 DEF Adds
  <2> DEFINE f == [at |-> now, from |-> source]
  <2>2. f \in Attempt /\ f.at = now /\ f.from = source
    BY <1>0 DEF Attempt
  <2>3. failures'[k] = Append(failures[k], f)
    BY <2>1
  <2> HIDE DEF f
  <2>4. ~LocksOut(failures[k], Recent(failures[k], source, now), 1, now)
    BY <2>1 DEF Locked, Recent
  <2>5. \A i \in DOMAIN failures[k] : failures[k][i].at <= f.at
    BY <2>2 DEF Past
  <2> QED BY <1>0, <2>2, <2>3, <2>4, <2>5, SpreadAppend
<1> QED BY <1>1, <1>2, <1>3, FailuresSteps DEF FailuresStep

-----------------------------------------------------------------------------
\* The invariant of both theorems: what GuessesSpaced needs of the locks and of
\* the logins under way, and what OneSourceLocksOnlyItself needs besides.
Limited == Slots /\ Known /\ Pending /\ Past /\ GuessesSpaced

LEMMA ByAccount ==
  GuessesSpaced <=> \A k \in Admins \cup {NoAdmin} : Distant(k # NoAdmin, failures[k])
BY DEF GuessesSpaced, Distant

LEMMA LimitedInit == Init => Limited
<1> SUFFICES ASSUME Init PROVE Limited
  OBVIOUS
<1>1. Issued = {} /\ \A w \in Workers : job[w] = Idle
  BY DEF Init, Issued
<1>2. Slots
  BY <1>1, BoundAssumption DEF Slots
<1>3. Known
  BY <1>1, IdleOK DEF Init, Known, Absent, ChangeOps, OwnOps, CliOps, StatusOps
<1>4. Pending
  BY <1>1, IdleOK DEF Pending
<1>5. \A k \in Admins \cup {NoAdmin} : failures[k] = <<>>
  BY DEF Init
<1>6. DOMAIN <<>> = {} /\ Len(<<>>) = 0 /\ 2..0 = {}
  OBVIOUS
<1>7. Past
  BY <1>5, <1>6 DEF Past
<1>8. GuessesSpaced
  BY <1>5, <1>6 DEF GuessesSpaced
<1> QED BY <1>2, <1>3, <1>4, <1>7, <1>8 DEF Limited

LEMMA LimitedStep ==
  ASSUME Ascending, Typed, Named, Limited, [Next]_vars
  PROVE  Limited'
<1>1. CASE Next
  <2>1. Slots' /\ Known' /\ Pending' /\ Past'
    BY <1>1, SlotsStep, KnownStep, PendingStep, PastStep DEF Limited
  <2>2. \A k \in Admins \cup {NoAdmin} : Distant(k # NoAdmin, failures'[k])
    BY <1>1, ByAccount, DistantStep DEF Limited
  <2>3. GuessesSpaced'
    BY <2>2 DEF GuessesSpaced, Distant
  <2> QED BY <2>1, <2>3 DEF Limited
<1>2. CASE UNCHANGED vars
  <2>1. UNCHANGED <<accounts, sessions, failures, job, epoch, now>>
    BY <1>2 DEF vars, db, history
  <2>2. Slots' /\ Known'
    BY <2>1 DEF Limited, Slots, Known, Issued
  <2>3. Pending'
    BY <2>1 DEF Limited, Pending, LockedOut, Counter
  <2>4. Past' /\ GuessesSpaced'
    BY <2>1 DEF Limited, Past, GuessesSpaced
  <2> QED BY <2>2, <2>3, <2>4 DEF Limited
<1> QED BY <1>1, <1>2

\* However requests are interleaved, an attempt that fails comes after the lockout
\* the failures before it had earned (core/rate_limit.py's login_lock, taken by
\* _login and _require_current_password), where longer lockouts come with the
\* later thresholds.
THEOREM GuessesAreSpaced == ASSUME Ascending PROVE Spec => []GuessesSpaced
<1>1. Typed /\ Named /\ Limited /\ [Next]_vars => Limited'
  BY LimitedStep
<1>2. Limited => GuessesSpaced
  BY DEF Limited
<1> QED BY <1>1, <1>2, LimitedInit, TypedAlways, PTL DEF Spec

\* What one source gets counted against an account never reaches the thresholds
\* that lock out every source (_account_wide_thresholds), where its own lockouts
\* hold it up for longer than the window before it is that many.
THEOREM SourcesLockThemselves ==
  ASSUME Ascending, EscalatesInTime
  PROVE  Spec => []OneSourceLocksOnlyItself
<1>1. PICK D \in [Nat -> Nat] : Takes(D)
  BY DEF EscalatesInTime
<1> DEFINE Apart == \A a \in Admins, s \in Sources : Spread(D, failures[a], s)
<1>2. Init => Apart
  <2>1. \A s, t : Recent(<<>>, s, t) = {}
    BY DEF Recent, InWindow
  <2>2. Init => \A a \in Admins : failures[a] = <<>>
    BY DEF Init
  <2> QED BY <2>1, <2>2 DEF Spread
<1>3. Typed /\ Named /\ Limited /\ Apart /\ [Next]_vars => Apart'
  <2> SUFFICES ASSUME Typed, Named, Limited, Apart, [Next]_vars PROVE Apart'
    OBVIOUS
  <2>1. CASE Next
    <3>1. ASSUME NEW a \in Admins, NEW s \in Sources PROVE Spread(D, failures'[a], s)
      BY <1>1, <2>1, SpreadStep DEF Limited
    <3> QED BY <3>1
  <2>2. CASE UNCHANGED vars
    BY <2>2 DEF vars
  <2> QED BY <2>1, <2>2
<1>4. Typed /\ Limited /\ Apart => OneSourceLocksOnlyItself
  <2> SUFFICES ASSUME Typed, Limited, Apart, NEW a \in Admins, NEW s \in Sources
               PROVE  ~AccountWide(failures[a], Recent(failures[a], s, now), now)
    BY DEF OneSourceLocksOnlyItself, Recent
  <2>1. failures[a] \in Failures /\ now \in Nat
    BY DEF Typed, TypeOK
  <2>2. \A i \in DOMAIN failures[a] : failures[a][i].at <= now
    BY DEF Limited, Past
  <2>3. Spread(D, failures[a], s)
    OBVIOUS
  <2> HIDE DEF Apart
  <2> QED BY <1>1, <2>1, <2>2, <2>3, SpreadSuffices
<1> HIDE DEF Apart
<1>5. Typed /\ Named /\ Limited /\ [Next]_vars => Limited'
  BY LimitedStep
<1> QED BY <1>2, <1>3, <1>4, <1>5, LimitedInit, TypedAlways, PTL DEF Spec

LEMMA LastMet ==
  ASSUME NEW n \in Nat, NEW factor \in Nat \ {0}, Met(n, factor) # {}
  PROVE  \E m \in Met(n, factor) : /\ \A k \in Met(n, factor) : k <= m
                                   /\ Lockout(n, factor) = Thresholds[m].lockout
BY LockoutFacts

\* The defaults of config.py are such thresholds: the fifth, tenth and fifteenth
\* failure lock out for one, five and fifteen minutes, so the twentieth, which
\* would lock out every source, comes later than the hour that counts.
LEMMA DefaultsEscalate ==
  ASSUME Thresholds = <<[failures |-> 5, lockout |-> 60], [failures |-> 10, lockout |-> 300],
                        [failures |-> 15, lockout |-> 900]>>,
         Window = 3600, AccountWideFactor = 4
  PROVE  Ascending /\ EscalatesInTime
<1>1. /\ DOMAIN Thresholds = {1, 2, 3}
      /\ Thresholds[1].failures = 5 /\ Thresholds[1].lockout = 60
      /\ Thresholds[2].failures = 10 /\ Thresholds[2].lockout = 300
      /\ Thresholds[3].failures = 15 /\ Thresholds[3].lockout = 900
  OBVIOUS
<1>2. Ascending
  BY <1>1 DEF Ascending
<1> DEFINE D == [n \in Nat |-> IF n <= 5 THEN 0 ELSE IF n <= 10 THEN (n - 5) * 60
                               ELSE IF n <= 15 THEN 300 + (n - 10) * 300
                               ELSE 1800 + (n - 15) * 900]
<1>3. ASSUME NEW n \in Nat
      PROVE  /\ Lockout(n, 1) = IF n < 5 THEN 0 ELSE IF n < 10 THEN 60
                                ELSE IF n < 15 THEN 300 ELSE 900
             /\ n < 20 => Lockout(n, 4) = 0
  <2> HIDE DEF D
  <2>1. \A i \in {1, 2, 3} :
          /\ i \in Met(n, 1) <=> n >= Thresholds[i].failures
          /\ i \in Met(n, 4) <=> n >= Thresholds[i].failures * 4
    BY <1>1 DEF Met
  <2>2. Met(n, 1) \subseteq {1, 2, 3} /\ Met(n, 4) \subseteq {1, 2, 3}
    BY <1>1 DEF Met
  <2>3. 1 \in Nat \ {0} /\ 4 \in Nat \ {0}
    OBVIOUS
  <2>4. n < 20 => Lockout(n, 4) = 0
    <3>1. n < 20 => Met(n, 4) = {}
      BY <1>1, <2>1, <2>2
    <3> QED BY <2>3, <3>1, LockoutFacts
  <2>5. CASE n < 5
    <3>1. Met(n, 1) = {}
      BY <1>1, <2>1, <2>2, <2>5
    <3> QED BY <2>3, <2>4, <2>5, <3>1, LockoutFacts
  <2>6. CASE n >= 5
    <3>1. 1 \in Met(n, 1) /\ (2 \in Met(n, 1) <=> n >= 10) /\ (3 \in Met(n, 1) <=> n >= 15)
      BY <1>1, <2>1, <2>6
    <3>0. Met(n, 1) # {}
      BY <3>1
    <3>2. PICK m \in Met(n, 1) : /\ \A k \in Met(n, 1) : k <= m
                                 /\ Lockout(n, 1) = Thresholds[m].lockout
      BY <2>3, <3>0, LastMet
    <3>3. m = IF n < 10 THEN 1 ELSE IF n < 15 THEN 2 ELSE 3
      BY <2>2, <3>1, <3>2
    <3> QED BY <1>1, <2>4, <2>6, <3>2, <3>3
  <2> QED BY <2>5, <2>6
<1>4. D \in [Nat -> Nat] /\ D[1] = 0
  OBVIOUS
<1>5. ASSUME NEW n \in Nat \ {0} PROVE D[n + 1] <= D[n] + Lockout(n, 1)
  BY <1>3
<1>6. ASSUME NEW n \in Nat, Lockout(n, AccountWideFactor) # 0 PROVE D[n] > Window
  <2>1. n >= 20
    BY <1>3, <1>6
  <2>2. D[n] = 1800 + (n - 15) * 900
    BY <2>1
  <2> QED BY <2>1, <2>2
<1> HIDE DEF D
<1> QED BY <1>2, <1>4, <1>5, <1>6 DEF EscalatesInTime, Takes
=============================================================================
