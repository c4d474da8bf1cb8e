--------------------------- MODULE LocalUsers_proofs ---------------------------
(***************************************************************************)
(* A revoked user stays revoked when jobs do not overlap, the startup      *)
(* reconciliation leaves only enabled users in sasldb2, and sasldb2 agrees *)
(* with the database where calls are in order, for any users, threads,     *)
(* passwords and faults. For the first two, what a job has taken away is   *)
(* gone from sasldb2 and from its copy, and no call is left that would     *)
(* bring it back. For the third, sasldb2 is ahead of the database by what  *)
(* the one engaged job has replaced, and by nothing else.                  *)
(***************************************************************************)
EXTENDS LocalUsers, SequenceTheorems, TLAPS

JobType == [op : JobOps \cup {"none"}, step : Steps, user : Users \cup {NoUser},
            pw : Passwords \cup {NoPassword}, todo : SUBSET Users, done : SUBSET Users,
            locked : BOOLEAN, missed : BOOLEAN, since : Nat]

\* How far a job can be.
JobOK(j) ==
  /\ j.op \in SetOps => j.pw \in Passwords
  /\ j.op \in RouteOps => j.user \in Users
  /\ j.op \in {"tick", "reconcile"} /\ j.step \in {"call", "flush"} => j.user \in Users
  /\ j.op = "tick" /\ j.step = "wait" => j.user \in Users
  /\ j.step \in {"flush", "commit"} => j.op \in RouteOps \cup {"tick"}
  /\ j.step = "list" => j.op = "reconcile" /\ j.user = NoUser
  /\ j.step = "idle" <=> j.op = "none"
  /\ j.step = "pick" => j.op \in {"tick", "reconcile"}
  /\ j.op # "tick" => j.done = {}
JobsOK == \A w \in Workers : JobOK(job[w]) /\ job[w].since <= faults

\* The reconciliation runs before anything else does.
RolesOK ==
  \A w \in Workers : /\ app = "starting" => job[w].op \in {"none", "reconcile"}
                     /\ job[w].op = "reconcile" => app = "starting"

\* A call whose caller is still there is the one its job waits for.
CallsOK ==
  \A i \in 1..Len(queue) : queue[i].open =>
    LET j == job[queue[i].worker] IN
    /\ j.step = "wait" /\ queue[i].user = j.user
    /\ queue[i].op = "set" <=> j.op \in SetOps
    /\ queue[i].op = "list" <=> j.op = "reconcile" /\ j.user = NoUser

\* What an answer stands for.
ServerOK ==
  /\ srv = "down" => queue = <<>>
  /\ srv \in {"sync", "reply"} => queue # <<>>
  /\ srv = "sync" /\ queue[1].op = "delete" =>
       \A u \in Users : queue[1].user = u => live[u] = NoPassword
  /\ srv = "reply" /\ result.ok /\ queue[1].op = "delete" =>
       \A u \in Users : queue[1].user = u => live[u] = NoPassword /\ volume[u] = NoPassword
  /\ srv = "reply" /\ result.ok /\ queue[1].op = "list" =>
       \A u \in Users : live[u] # NoPassword => u \in result.users
  /\ srv = "sync" => queue[1].op # "list"

\* A user's credential is nowhere, and no call will store one.
Gone(u) ==
  /\ live[u] = NoPassword /\ volume[u] = NoPassword
  /\ \A i \in 1..Len(queue) : queue[i].op = "set" => queue[i].user # u

\* Whom a job has revoked, with a call that was answered.
Taken(j) ==
  j.done \cup
    IF \/ j.op = "disable" /\ j.step = "commit"
       \/ j.op = "delete" /\ j.step \in {"flush", "commit"}
       \/ j.op = "tick" /\ j.step = "flush"
    THEN {j.user} ELSE {}

\* One job at a time: its call, if it waits for one, is the last.
Single == ~profile.overlap \/ app = "starting"
InTurn ==
  Single => /\ \A w, x \in Workers : ~At(w, "idle") /\ ~At(x, "idle") => w = x
            /\ \A i \in 1..Len(queue) : queue[i].open => i = Len(queue)
StayGone ==
  ~profile.overlap => /\ \A u \in revoked : Gone(u)
                      /\ \A w \in Workers : \A u \in Taken(job[w]) : Gone(u)

\* A reconciliation that has its list and missed nobody knows who is left.
Left(j) == j.todo \cup IF j.step \in {"call", "wait"} THEN {j.user} ELSE {}
Listing(j) == j.step = "list" \/ (j.step = "wait" /\ j.user = NoUser)
Swept ==
  \A w \in Workers :
    LET j == job[w] IN
    j.op = "reconcile" /\ ~j.missed /\ j.since = faults /\ ~Listing(j) =>
      /\ srv # "down"
      /\ queue # <<>> => /\ j.step = "wait" /\ Len(queue) = 1
                         /\ queue[1].op = "delete" /\ queue[1].open
      /\ \A u \in Users : live[u] # NoPassword => u \in Enabled \cup Left(j)

Core == TypeOK /\ JobsOK /\ RolesOK /\ CallsOK /\ ServerOK /\ InTurn /\ StayGone
Inv == Core /\ Swept

-----------------------------------------------------------------------------
LEMMA Types ==
  ASSUME TypeOK
  PROVE  /\ job \in [Workers -> JobType] /\ \A w \in Workers : job[w] \in JobType
         /\ queue \in Seq(Call) /\ Len(queue) \in Nat
         /\ \A i \in 1..Len(queue) : /\ queue[i] \in Call /\ queue[i].worker \in Workers
                                     /\ queue[i].user \in Users \cup {NoUser}
         /\ faults \in Nat /\ profile.faults \in Nat /\ fresh \in Nat /\ MaxPasswords \in Nat
         /\ NoPassword \notin Passwords
         /\ profile.passwords \in Nat /\ profile.passwords <= MaxPasswords
         /\ profile.overlap \in BOOLEAN
<1>1. job \in [Workers -> JobType] /\ \A w \in Workers : job[w] \in JobType
  BY DEF TypeOK, JobType
<1>2. /\ queue \in Seq(Call) /\ profile \in Profiles
      /\ fresh \in 0..MaxPasswords /\ faults \in 0..profile.faults
  BY DEF TypeOK
<1>3. Len(queue) \in Nat /\ \A i \in 1..Len(queue) : queue[i] \in Call
  BY <1>2, ElementOfSeq, LenProperties
<1>4. /\ MaxPasswords \in Nat /\ profile.faults \in Nat /\ profile.overlap \in BOOLEAN
      /\ profile.passwords \in 0..MaxPasswords
  BY <1>2, BoundAssumption
<1>5. NoPassword \notin Passwords
  BY <1>4 DEF NoPassword, Passwords
<1> QED BY <1>1, <1>2, <1>3, <1>4, <1>5 DEF Call

LEMMA IdleType ==
  /\ Idle \in JobType /\ JobOK(Idle) /\ Idle.step = "idle" /\ Idle.op = "none"
  /\ Idle.done = {} /\ Idle.locked = FALSE /\ Taken(Idle) = {} /\ Idle.since = 0
BY DEF Idle, JobType, JobOK, Taken, Steps, JobOps, RouteOps, FlushFirst, SetOps,
       RegenerateDisabled, NoPassword

LEMMA OpNames ==
  /\ "tick" \notin RouteOps /\ "reconcile" \notin RouteOps /\ "none" \notin RouteOps
  /\ SetOps \subseteq RouteOps /\ FlushFirst \subseteq RouteOps
  /\ "delete" \notin FlushFirst /\ "disable" \notin SetOps /\ "delete" \in RouteOps
  /\ "disable" \in FlushFirst /\ SetOps \subseteq FlushFirst
  /\ JobOps = RouteOps \cup {"tick", "reconcile"}
BY DEF JobOps, RouteOps, FlushFirst, SetOps, RegenerateDisabled

\* After an error a job has taken no more than before, and knows that it missed
\* a user.
LEMMA ErrorType ==
  ASSUME NEW j \in JobType, JobOK(j), j.step \in {"wait", "call", "list"}
  PROVE  /\ AfterError(j) \in JobType /\ JobOK(AfterError(j))
         /\ AfterError(j).step \in {"idle", "pick"} /\ Taken(AfterError(j)) \subseteq Taken(j)
         /\ AfterError(j).locked => j.locked
         /\ AfterError(j).op \in {j.op, "none"}
         /\ AfterError(j).op = "reconcile" => AfterError(j).missed
         /\ AfterError(j).since \in {j.since, 0}
<1> DEFINE e == AfterError(j)
<1>1. CASE j.op \in RouteOps
  <2>1. j.op # "tick"
    BY <1>1, OpNames
  <2>2. e = Idle
    BY <1>1, <2>1, Zenon DEF AfterError
  <2> QED BY <2>2, IdleType
<1>2. CASE j.op = "tick"
  <2>1. e = [j EXCEPT !.step = "pick"]
    BY <1>2, OpNames, Zenon DEF AfterError
  <2>2. e \in JobType /\ e.step = "pick" /\ e.op = j.op /\ e.user = j.user /\ e.done = j.done
        /\ e.locked = j.locked /\ e.since = j.since
    BY <2>1 DEF JobType, Steps
  <2> HIDE DEF e
  <2>3. JobOK(e) /\ Taken(e) \subseteq Taken(j)
    BY <1>2, <2>2, OpNames DEF JobOK, Taken
  <2> QED BY <1>2, <2>2, <2>3 DEF e
<1>3. CASE j.op \notin RouteOps /\ j.op # "tick"
  <2>1. e = [j EXCEPT !.step = "pick", !.missed = TRUE]
    BY <1>3, Zenon DEF AfterError
  <2>2. e \in JobType /\ e.step = "pick" /\ e.op = j.op /\ e.user = j.user /\ e.done = j.done
        /\ e.locked = j.locked /\ e.missed /\ e.since = j.since
    BY <2>1 DEF JobType, Steps
  <2>3. j.op = "reconcile"
    BY <1>3, OpNames DEF JobType, JobOK
  <2> HIDE DEF e
  <2>4. JobOK(e) /\ Taken(e) \subseteq Taken(j)
    BY <1>3, <2>2, <2>3, OpNames DEF JobOK, Taken
  <2> QED BY <1>3, <2>2, <2>3, <2>4 DEF e
<1> QED BY <1>1, <1>2, <1>3

-----------------------------------------------------------------------------
(***************************************************************************)
(* What several actions have in common.                                    *)
(***************************************************************************)

\* A reconciliation runs alone.
LEMMA Alone ==
  ASSUME Core, NEW w \in Workers, job[w].op = "reconcile"
  PROVE  /\ app = "starting" /\ Single
         /\ \A x \in Workers : x # w => job[x].step = "idle" /\ job[x].op = "none"
<1>1. app = "starting" /\ Single
  BY DEF Core, RolesOK, Single
<1>2. ~At(w, "idle") /\ \A x \in Workers : At(x, "idle") => job[x].op = "none"
  BY DEF Core, JobsOK, JobOK, At
<1> QED BY <1>1, <1>2 DEF Core, InTurn, At

\* Moving a worker's job on, from one step outside its call to another.
Moved(w, j) ==
  /\ job' = [job EXCEPT ![w] = j]
  /\ UNCHANGED <<srvVars, queue, profile>>
  /\ faults' \in {faults, faults + 1} /\ faults' \in 0..profile.faults
  /\ fresh' \in 0..MaxPasswords /\ barred' \subseteq Users /\ revoked' \subseteq Users
  /\ rows' \in [Users -> Row \cup {Absent}]
  /\ app' = app \/ (app' = "up" /\ job[w].op = "reconcile" /\ j.op = "none")
  /\ ~profile.overlap => revoked' \subseteq revoked \cup Taken(job[w])

LEMMA MoveKeeps ==
  ASSUME Core, NEW w \in Workers, NEW j \in JobType, JobOK(j), j.since <= faults,
         job[w].step # "wait", j.step # "wait", Moved(w, j),
         j.locked => job[w].locked \/ LockFree(w),
         At(w, "idle") => (profile.overlap /\ app = "up") \/ AllIdle,
         Taken(j) \subseteq Taken(job[w]),
         app = "starting" => j.op \in {"none", "reconcile"},
         j.op = "reconcile" => app = "starting"
  PROVE  Core'
<1>0. TypeOK
  BY DEF Core
<1>1. /\ job' \in [Workers -> JobType] /\ job'[w] = j
      /\ \A x \in Workers : x # w => job'[x] = job[x]
  BY <1>0, Types DEF Moved
<1>2. TypeOK'
  <2>1. \A x, y \in Workers : job'[x].locked /\ job'[y].locked => x = y
    BY <1>0, <1>1 DEF TypeOK, LockFree
  <2>2. job' \in [Workers -> [op : JobOps \cup {"none"}, step : Steps,
                          user : Users \cup {NoUser}, pw : Passwords \cup {NoPassword},
                          todo : SUBSET Users, done : SUBSET Users, locked : BOOLEAN,
                          missed : BOOLEAN, since : Nat]]
    BY <1>1 DEF JobType
  <2> QED BY <1>0, <2>1, <2>2 DEF TypeOK, Moved, srvVars, sasldb
<1>3. JobsOK'
  BY <1>0, <1>1, Types DEF Core, JobsOK, Moved, JobType
<1>4. RolesOK'
  <2>1. \A x \in Workers : app' = "starting" => job'[x].op \in {"none", "reconcile"}
    BY <1>1 DEF Core, RolesOK, Moved
  <2>2. \A x \in Workers : job'[x].op = "reconcile" => app' = "starting"
    <3> SUFFICES ASSUME NEW x \in Workers, job'[x].op = "reconcile" PROVE app' = "starting"
      OBVIOUS
    <3>1. CASE app' = app
      BY <1>1, <3>1 DEF Core, RolesOK
    <3>2. CASE job[w].op = "reconcile" /\ j.op = "none"
      <4>1. x # w /\ job[x].op = "reconcile"
        BY <1>1, <3>2
      <4> QED BY <3>2, <4>1, Alone
    <3> QED BY <3>1, <3>2 DEF Moved
  <2> QED BY <2>1, <2>2 DEF RolesOK
<1>5. CallsOK'
  BY <1>0, <1>1, Types DEF Core, CallsOK, Moved
<1>6. ServerOK'
  BY DEF Core, ServerOK, Moved, srvVars, sasldb
<1>7. InTurn'
  <2>1. Single' => Single
    BY DEF Single, Moved
  <2>2. Single => \A i \in 1..Len(queue') : queue'[i].open => i = Len(queue')
    BY DEF Core, InTurn, Moved
  <2>3. ASSUME Single, NEW x \in Workers, NEW y \in Workers,
               job'[x].step # "idle", job'[y].step # "idle"
        PROVE  x = y
    <3>1. CASE AllIdle
      BY <1>1, <2>3, <3>1 DEF AllIdle, At
    <3>2. CASE ~At(w, "idle")
      BY <1>1, <2>3, <3>2 DEF Core, InTurn, At
    <3> QED BY <2>3, <3>1, <3>2 DEF Single, Moved
  <2> QED BY <2>1, <2>2, <2>3 DEF InTurn, At
<1>8. StayGone'
  <2> SUFFICES ASSUME ~profile.overlap
               PROVE  /\ \A u \in revoked' : Gone(u)'
                      /\ \A x \in Workers : \A u \in Taken(job'[x]) : Gone(u)'
    BY <1>0, Types DEF StayGone, Moved
  <2>1. \A u : Gone(u) => Gone(u)'
    BY DEF Gone, Moved, srvVars, sasldb
  <2>2. \A u \in revoked \cup Taken(job[w]) : Gone(u)
    BY DEF Core, StayGone
  <2>3. \A x \in Workers : \A u \in Taken(job'[x]) : Gone(u)
    BY <1>1, <2>2 DEF Core, StayGone
  <2> QED BY <2>1, <2>2, <2>3 DEF Moved
<1> QED BY <1>2, <1>3, <1>4, <1>5, <1>6, <1>7, <1>8 DEF Core

\* Nothing is claimed of a sweep during which something failed.
LEMMA FaultSweeps ==
  ASSUME Core, Core', faults' = faults + 1,
         \A w \in Workers : job'[w].since \in {job[w].since, 0}
  PROVE  Swept'
<1>1. faults \in Nat /\ \A w \in Workers : job[w].since \in Nat /\ job[w].since <= faults
  BY Types DEF Core, JobsOK, JobType
<1>2. \A w \in Workers : job'[w].since # faults'
  BY <1>1
<1> QED BY <1>2 DEF Swept

LEMMA NobodySweeps ==
  ASSUME \A w \in Workers : job'[w].op # "reconcile"
  PROVE  Swept'
BY DEF Swept

\* A step of another job: no reconciliation is under way.
LEMMA OthersSweep ==
  ASSUME Core, NEW w \in Workers, NEW j, job' = [job EXCEPT ![w] = j],
         job[w].op # "reconcile", ~At(w, "idle") \/ app = "up", j.op # "reconcile"
  PROVE  Swept'
<1>1. TypeOK
  BY DEF Core
<1>2. job \in [Workers -> JobType]
  BY <1>1, Types
<1>3. ASSUME NEW x \in Workers, job'[x].op = "reconcile" PROVE FALSE
  <2>1. x # w /\ job[x].op = "reconcile"
    BY <1>2, <1>3
  <2> QED BY <2>1, Alone DEF At
<1> QED BY <1>3, NobodySweeps

-----------------------------------------------------------------------------
(***************************************************************************)
(* The application's steps outside its calls.                              *)
(***************************************************************************)

LEMMA LoadKeeps ==
  ASSUME Inv, NEW w \in Workers, NEW op \in RouteOps, NEW u \in Users, Load(w, op, u),
         UNCHANGED profile
  PROVE  Inv'
<1> DEFINE pw == IF op \in SetOps THEN fresh + 1 ELSE NoPassword
           j == [Idle EXCEPT !.op = op, !.user = u, !.pw = pw,
                             !.step = IF op \in FlushFirst THEN "flush" ELSE "call"]
<1>0. Core /\ TypeOK
  BY DEF Inv, Core
<1>1. op \in SetOps => pw \in Passwords
  BY <1>0, Types DEF Load, Passwords
<1>2. /\ job' = [job EXCEPT ![w] = j] /\ fresh' \in 0..MaxPasswords
      /\ At(w, "idle") /\ app = "up" /\ (profile.overlap \/ AllIdle)
  <2>1. job' = [job EXCEPT ![w] = j] /\ At(w, "idle") /\ app = "up" /\ (profile.overlap \/ AllIdle)
    BY DEF Load, Start
  <2>2. fresh' \in 0..MaxPasswords
    BY <1>0, Types DEF Load, TypeOK
  <2> QED BY <2>1, <2>2
<1>3. /\ j \in JobType /\ j.op = op /\ j.user = u /\ j.pw = pw /\ j.done = {} /\ ~j.locked
      /\ j.step = IF op \in FlushFirst THEN "flush" ELSE "call"
      /\ j.since = 0
  <2>1. pw \in Passwords \cup {NoPassword}
    BY <1>1
  <2> HIDE DEF pw
  <2> QED BY <2>1, IdleType, OpNames DEF JobType, Idle, Steps
<1> HIDE DEF j, pw
<1>4. JobOK(j) /\ Taken(j) = {}
  <2>1. JobOK(j)
    BY <1>1, <1>3, OpNames DEF JobOK
  <2>2. op = "delete" => op \notin FlushFirst
    BY OpNames
  <2>3. op # "tick"
    BY OpNames
  <2> QED BY <1>3, <2>1, <2>2, <2>3 DEF Taken
<1>5. Moved(w, j)
  BY <1>0, <1>2, Types DEF Load, Moved, TypeOK
<1>6. Core'
  BY <1>0, <1>2, <1>3, <1>4, <1>5, Types, OpNames, MoveKeeps DEF At
<1>7. job[w].op = "none"
  BY <1>2 DEF Inv, Core, JobsOK, JobOK, At
<1>8. Swept'
  BY <1>0, <1>2, <1>3, <1>7, OpNames, OthersSweep
<1> QED BY <1>6, <1>8 DEF Inv

LEMMA BeginTickKeeps ==
  ASSUME Inv, NEW w \in Workers, BeginTick(w), UNCHANGED profile
  PROVE  Inv'
<1>0. Core /\ TypeOK
  BY DEF Inv, Core
<1>1. PICK c \in SUBSET Enabled \ {{}} :
        Start(w, [Idle EXCEPT !.op = "tick", !.step = "pick", !.todo = c])
  BY DEF BeginTick
<1> DEFINE j == [Idle EXCEPT !.op = "tick", !.step = "pick", !.todo = c]
<1>2. /\ job' = [job EXCEPT ![w] = j] /\ At(w, "idle") /\ app = "up"
      /\ (profile.overlap \/ AllIdle)
  BY <1>1 DEF BeginTick, Start
<1>3. /\ j \in JobType /\ j.op = "tick" /\ j.step = "pick" /\ j.done = {} /\ ~j.locked
      /\ j.since = 0
  BY <1>1, IdleType, OpNames DEF JobType, Idle, Steps, Enabled
<1> HIDE DEF j
<1>4. JobOK(j) /\ Taken(j) = {}
  BY <1>3, OpNames DEF JobOK, Taken
<1>5. Moved(w, j)
  BY <1>0, <1>2, Types DEF BeginTick, Moved, TypeOK, appVars
<1>6. Core'
  BY <1>0, <1>2, <1>3, <1>4, <1>5, Types, MoveKeeps DEF At
<1>7. job[w].op = "none"
  BY <1>2 DEF Inv, Core, JobsOK, JobOK, At
<1>8. Swept'
  BY <1>0, <1>2, <1>3, <1>7, OthersSweep
<1> QED BY <1>6, <1>8 DEF Inv

LEMMA BeginReconcileKeeps ==
  ASSUME Inv, NEW w \in Workers, BeginReconcile(w), UNCHANGED profile
  PROVE  Inv'
<1> DEFINE j == [Idle EXCEPT !.op = "reconcile", !.step = "list", !.since = faults]
<1>0. Core /\ TypeOK
  BY DEF Inv, Core
<1>2. job' = [job EXCEPT ![w] = j] /\ At(w, "idle") /\ app = "starting" /\ AllIdle
  BY DEF BeginReconcile, Start, AllIdle
<1>3. /\ j \in JobType /\ j.op = "reconcile" /\ j.step = "list" /\ j.done = {} /\ ~j.locked
      /\ j.user = NoUser /\ j.since = faults
  BY <1>0, IdleType, OpNames, Types DEF JobType, Idle, Steps
<1> HIDE DEF j
<1>4. JobOK(j) /\ Taken(j) = {}
  BY <1>3, OpNames DEF JobOK, Taken
<1>5. Moved(w, j)
  BY <1>0, <1>2, Types DEF BeginReconcile, Moved, TypeOK, appVars
<1>6. Core'
  BY <1>0, <1>2, <1>3, <1>4, <1>5, Types, MoveKeeps DEF At
<1>8. Swept'
  <2>1. \A x \in Workers : job'[x].op = "reconcile" => Listing(job'[x])
    <3>1. \A x \in Workers : x # w => job'[x].op = "none"
      BY <1>2, <1>0 DEF Core, JobsOK, JobOK, AllIdle, At, TypeOK
    <3>2. job'[w] = j
      BY <1>0, <1>2, Types
    <3> QED BY <1>3, <3>1, <3>2 DEF Listing
  <2> QED BY <2>1 DEF Swept
<1> QED BY <1>6, <1>8 DEF Inv

LEMMA FlushKeeps ==
  ASSUME Inv, NEW w \in Workers, Flush(w), UNCHANGED profile
  PROVE  Inv'
<1> DEFINE j == job[w]
           raises == CASE j.op = "create" -> Exists(j.user)
                       [] j.op = "delete" -> FALSE
                       [] OTHER -> ~Exists(j.user)
           to == CASE j.op = "delete" -> "commit" [] j.op = "tick" -> "pick" [] OTHER -> "call"
           on == [j EXCEPT !.step = to, !.locked = TRUE,
                           !.done = IF j.op = "tick" THEN @ \cup {j.user} ELSE @]
           next == IF raises THEN Idle ELSE on
<1>0. Core /\ TypeOK /\ j \in JobType /\ JobOK(j) /\ j.since <= faults /\ j.since \in Nat
  BY Types DEF Inv, Core, JobsOK, JobType
<1>1. j.step = "flush" /\ LockFree(w) /\ job' = [job EXCEPT ![w] = next]
  BY DEF Flush, Start, At
<1>2. j.op \in RouteOps \cup {"tick"} /\ j.user \in Users
  BY <1>0, <1>1 DEF JobOK
<1>3. /\ j.op = "delete" => to = "commit"
      /\ j.op = "tick" => to = "pick"
      /\ j.op \notin {"delete", "tick"} => to = "call"
  OBVIOUS
<1> HIDE DEF to, raises
<1>4. /\ on \in JobType /\ on.op = j.op /\ on.user = j.user /\ on.pw = j.pw /\ on.step = to
      /\ on.since = j.since
      /\ on.done = IF j.op = "tick" THEN j.done \cup {j.user} ELSE j.done
  <2>1. to \in Steps
    BY <1>3 DEF Steps
  <2> QED BY <1>0, <1>2, <2>1 DEF JobType
<1> HIDE DEF on
<1>5. JobOK(on) /\ Taken(on) \subseteq Taken(j)
  <2>1. JobOK(on)
    BY <1>0, <1>1, <1>2, <1>3, <1>4, OpNames DEF JobOK
  <2> HIDE DEF j
  <2>2. CASE j.op = "tick"
    <3>1. Taken(j) = j.done \cup {j.user}
      BY <1>1, <2>2 DEF Taken
    <3>2. Taken(on) = j.done \cup {j.user}
      BY <1>3, <1>4, <2>2 DEF Taken
    <3> QED BY <2>1, <3>1, <3>2
  <2>3. CASE j.op = "delete"
    <3>1. Taken(j) = j.done \cup {j.user}
      BY <1>1, <2>3 DEF Taken
    <3>2. Taken(on) = j.done \cup {j.user}
      BY <1>3, <1>4, <2>3 DEF Taken
    <3> QED BY <2>1, <3>1, <3>2
  <2>4. CASE j.op \notin {"tick", "delete"}
    <3>1. Taken(on) = j.done
      BY <1>3, <1>4, <2>4 DEF Taken
    <3> QED BY <2>1, <3>1 DEF Taken
  <2> QED BY <2>1, <2>2, <2>3, <2>4
<1>6. /\ next \in JobType /\ JobOK(next) /\ Taken(next) \subseteq Taken(j) /\ next.step # "wait"
      /\ next.op \in {j.op, "none"} /\ next.since <= faults
  BY <1>0, <1>3, <1>4, <1>5, IdleType, Types
<1> HIDE DEF next
<1>7. Moved(w, next)
  BY <1>0, <1>1, Types DEF Flush, Moved, TypeOK, appVars
<1>8. ~At(w, "idle") /\ j.op # "reconcile" /\ (app = "starting" => j.op = "none")
  BY <1>0, <1>1, <1>2, OpNames DEF At, Core, RolesOK
<1>9. Core'
  BY <1>0, <1>1, <1>2, <1>6, <1>7, <1>8, OpNames, MoveKeeps DEF At
<1>10. Swept'
  BY <1>0, <1>1, <1>6, <1>8, OthersSweep
<1> QED BY <1>9, <1>10 DEF Inv

\* A job that ends without having changed a row.
LEMMA EndKeeps ==
  ASSUME Inv, NEW w \in Workers, job[w].step \in {"flush", "commit"},
         Start(w, Idle), faults' \in {faults, faults + 1}, faults' \in 0..profile.faults,
         UNCHANGED <<appVars, app, srvVars, queue, profile>>
  PROVE  Inv'
<1>0. Core /\ TypeOK /\ JobOK(job[w])
  BY DEF Inv, Core, JobsOK
<1>1. job' = [job EXCEPT ![w] = Idle] /\ ~At(w, "idle")
  BY DEF Start, At
<1>2. Moved(w, Idle)
  BY <1>0, <1>1, Types DEF Moved, TypeOK, appVars
<1>3. Core'
  BY <1>0, <1>1, <1>2, IdleType, Types, MoveKeeps
<1>4. job[w].op # "reconcile"
  BY <1>0, OpNames DEF JobOK
<1>5. Swept'
  BY <1>0, <1>1, <1>4, IdleType, OthersSweep
<1> QED BY <1>3, <1>5 DEF Inv

LEMMA FlushBusyKeeps ==
  ASSUME Inv, NEW w \in Workers, FlushBusy(w), UNCHANGED profile
  PROVE  Inv'
<1>1. faults' = faults + 1 /\ faults' \in 0..profile.faults
  BY Types DEF FlushBusy, Fault, Inv, Core, TypeOK
<1> QED BY <1>1, EndKeeps DEF FlushBusy, At

LEMMA CommitFailsKeeps ==
  ASSUME Inv, NEW w \in Workers, CommitFails(w), UNCHANGED profile
  PROVE  Inv'
<1>1. faults' = faults + 1 /\ faults' \in 0..profile.faults
  BY Types DEF CommitFails, Fault, Inv, Core, TypeOK
<1> QED BY <1>1, EndKeeps DEF CommitFails, At

\* In a sweep nobody else is at work.
LEMMA SweepMoves ==
  ASSUME Core, NEW w \in Workers, NEW k, job[w].op = "reconcile",
         job' = [job EXCEPT ![w] = k],
         k.op = "reconcile" /\ ~k.missed /\ k.since = faults' /\ ~Listing(k) =>
           /\ srv' # "down"
           /\ queue' # <<>> => /\ k.step = "wait" /\ Len(queue') = 1
                               /\ queue'[1].op = "delete" /\ queue'[1].open
           /\ \A u \in Users : live'[u] # NoPassword => u \in Enabled' \cup Left(k)
  PROVE  Swept'
<1>1. TypeOK
  BY DEF Core
<1>2. job'[w] = k /\ \A x \in Workers : x # w => job'[x].op = "none"
  BY <1>1, Types, Alone
<1> QED BY <1>2 DEF Swept

LEMMA PickKeeps ==
  ASSUME Inv, NEW w \in Workers, Pick(w), UNCHANGED profile
  PROVE  Inv'
<1> DEFINE j == job[w]
<1>0. Core /\ TypeOK /\ j \in JobType /\ JobOK(j) /\ j.since <= faults /\ j.since \in Nat
  BY Types DEF Inv, Core, JobsOK, JobType
<1>1. /\ j.step = "pick" /\ j.op \in {"tick", "reconcile"} /\ ~At(w, "idle")
      /\ UNCHANGED <<appVars, srvVars, queue, faults>>
  BY <1>0 DEF Pick, At, JobOK
<1>2. app = "starting" => j.op \in {"none", "reconcile"}
  BY <1>0 DEF Core, RolesOK
<1>3. j.op = "reconcile" => app = "starting"
  BY <1>0 DEF Core, RolesOK
<1>4. ASSUME NEW u \in j.todo,
             Start(w, [j EXCEPT !.step = "call", !.user = u, !.todo = @ \ {u}]), UNCHANGED app
      PROVE  Inv'
  <2> DEFINE k == [j EXCEPT !.step = "call", !.user = u, !.todo = @ \ {u}]
  <2>1. job' = [job EXCEPT ![w] = k]
    BY <1>4 DEF Start
  <2>2. u \in Users
    BY <1>0, <1>4 DEF JobType
  <2>3. /\ k \in JobType /\ k.op = j.op /\ k.user = u /\ k.step = "call" /\ k.todo = j.todo \ {u}
        /\ k.done = j.done /\ k.locked = j.locked /\ k.missed = j.missed /\ k.since = j.since
    BY <1>0, <2>2 DEF JobType, Steps
  <2> HIDE DEF k
  <2>4. JobOK(k)
    BY <1>0, <1>1, <2>2, <2>3, OpNames DEF JobOK
  <2>5. Taken(k) \subseteq Taken(j)
    BY <2>3 DEF Taken
  <2>6. Moved(w, k)
    BY <1>0, <1>1, <1>4, <2>1, Types DEF Moved, TypeOK, appVars
  <2>7. Core'
    BY <1>0, <1>1, <1>2, <1>3, <2>3, <2>4, <2>5, <2>6, MoveKeeps
  <2>8. CASE j.op = "reconcile"
    <3>1. ~Listing(j) /\ Left(k) = j.todo \cup {u} /\ j.todo \subseteq Left(j)
      BY <1>1, <1>4, <2>3 DEF Listing, Left
    <3>2. j.missed = k.missed /\ faults' = faults /\ queue' = queue /\ srv' = srv /\ live' = live
          /\ rows' = rows /\ k.since = j.since
      BY <1>1, <2>3 DEF srvVars, sasldb, appVars
    <3>3. Left(j) = j.todo /\ Enabled' = Enabled
      BY <1>1, <3>2 DEF Left, Enabled
    <3>4. ~j.missed /\ j.since = faults =>
            /\ srv # "down" /\ queue = <<>>
            /\ \A v \in Users : live[v] # NoPassword => v \in Enabled \cup Left(j)
      BY <1>1, <2>8, <3>1 DEF Inv, Swept
    <3> QED BY <1>0, <2>1, <2>7, <2>8, <3>1, <3>2, <3>3, <3>4, SweepMoves DEF Inv
  <2>9. CASE j.op # "reconcile"
    BY <1>0, <1>1, <2>1, <2>3, <2>7, <2>9, OthersSweep DEF Inv
  <2> QED BY <2>8, <2>9
<1>5. ASSUME j.op = "tick", Start(w, [j EXCEPT !.step = "commit"]), UNCHANGED app
      PROVE  Inv'
  <2> DEFINE k == [j EXCEPT !.step = "commit"]
  <2>1. job' = [job EXCEPT ![w] = k]
    BY <1>5 DEF Start
  <2>2. /\ k \in JobType /\ k.op = "tick" /\ k.user = j.user /\ k.step = "commit"
        /\ k.done = j.done /\ k.locked = j.locked /\ k.since = j.since
    BY <1>0, <1>5 DEF JobType, Steps
  <2> HIDE DEF k
  <2>3. JobOK(k)
    BY <1>0, <1>1, <2>2, OpNames DEF JobOK
  <2>4. Taken(k) \subseteq Taken(j)
    BY <2>2 DEF Taken
  <2>5. Moved(w, k)
    BY <1>0, <1>1, <1>5, <2>1, Types DEF Moved, TypeOK, appVars
  <2>6. Core'
    BY <1>0, <1>1, <1>2, <1>5, <2>2, <2>3, <2>4, <2>5, MoveKeeps
  <2> QED BY <1>0, <1>1, <1>5, <2>1, <2>2, <2>6, OthersSweep DEF Inv
<1>6. ASSUME j.op = "reconcile", Start(w, Idle), app' = "up"
      PROVE  Inv'
  <2>1. job' = [job EXCEPT ![w] = Idle]
    BY <1>6 DEF Start
  <2>2. Moved(w, Idle)
    BY <1>0, <1>1, <1>6, <2>1, IdleType, Types DEF Moved, TypeOK, appVars
  <2>3. Core'
    BY <1>0, <1>1, <2>2, IdleType, Types, MoveKeeps
  <2> QED BY <1>0, <1>6, <2>1, <2>3, IdleType, SweepMoves DEF Inv
<1> QED BY <1>1, <1>4, <1>5, <1>6 DEF Pick

LEMMA SameField ==
  ASSUME NEW S, NEW P, NEW r \in [enabled : S, hash : P], NEW e, r.enabled = e
  PROVE  [r EXCEPT !.enabled = e] = r
OBVIOUS

LEMMA CommittedType ==
  ASSUME Inv, NEW w \in Workers, At(w, "commit")
  PROVE  Committed(job[w]) \in [Users -> Row \cup {Absent}]
<1> DEFINE j == job[w]
<1>0. TypeOK /\ j \in JobType /\ JobOK(j) /\ NoPassword \notin Passwords
  BY Types DEF Inv, Core, JobsOK
<1>1. rows \in [Users -> Row \cup {Absent}]
  BY <1>0 DEF TypeOK
<1>2. j.op \in RouteOps \cup {"tick"} /\ (j.op \in RouteOps => j.user \in Users)
  BY <1>0 DEF At, JobOK
<1>3. \A u \in Users : /\ [rows[u] EXCEPT !.enabled = FALSE] \in Row \cup {Absent}
                       /\ \A p \in Passwords : [rows[u] EXCEPT !.hash = p] \in Row
  <2> SUFFICES ASSUME NEW r \in Row \cup {Absent}
               PROVE  /\ [r EXCEPT !.enabled = FALSE] \in Row \cup {Absent}
                      /\ \A p \in Passwords : [r EXCEPT !.hash = p] \in Row
    BY <1>1
  <2>1. CASE r \in Row
    BY <2>1 DEF Row
  <2>2. CASE r = Absent
    <3>0. Absent \in [enabled : BOOLEAN, hash : {NoPassword}] /\ Absent.enabled = FALSE
      BY DEF Absent
    <3>1. [Absent EXCEPT !.enabled = FALSE] = Absent
      BY <3>0, SameField
    <3> QED BY <2>2, <3>1 DEF Row, Absent
  <2> QED BY <2>1, <2>2
<1>4. CASE j.op \in {"create", "enable"}
  <2>1. j.pw \in Passwords /\ j.user \in Users
    BY <1>0, <1>2, <1>4 DEF JobOK, SetOps, RouteOps, FlushFirst
  <2>2. Committed(j) = [rows EXCEPT ![j.user] = [enabled |-> TRUE, hash |-> j.pw]]
    BY <1>4, Zenon DEF Committed, RegenerateDisabled
  <2> QED BY <1>1, <2>1, <2>2 DEF Row
<1>5. CASE j.op \in {"regenerate", RegenerateDisabled}
  <2>1. j.pw \in Passwords /\ j.user \in Users
    BY <1>0, <1>2, <1>5 DEF JobOK, SetOps, RouteOps, FlushFirst
  <2>2. Committed(j) = [rows EXCEPT ![j.user].hash = j.pw]
    BY <1>5, Zenon DEF Committed, RegenerateDisabled
  <2>3. [rows[j.user] EXCEPT !.hash = j.pw] \in Row
    BY <1>3, <2>1
  <2> QED BY <1>1, <2>1, <2>2, <2>3
<1>6. CASE j.op = "disable"
  <2>1. Committed(j) = [rows EXCEPT ![j.user].enabled = FALSE]
    BY <1>6, Zenon DEF Committed, RegenerateDisabled
  <2> QED BY <1>1, <1>3, <2>1
<1>7. CASE j.op = "delete"
  <2>1. Committed(j) = [rows EXCEPT ![j.user] = Absent]
    BY <1>7, Zenon DEF Committed, RegenerateDisabled
  <2> QED BY <1>1, <2>1
<1>8. CASE j.op = "tick"
  <2>1. Committed(j) = [u \in Users |-> IF u \in j.done THEN [rows[u] EXCEPT !.enabled = FALSE]
                                                       ELSE rows[u]]
    BY <1>8, Zenon DEF Committed, RegenerateDisabled
  <2> QED BY <1>1, <1>3, <2>1
<1> QED BY <1>2, <1>4, <1>5, <1>6, <1>7, <1>8 DEF RouteOps, FlushFirst, SetOps

LEMMA CommitKeeps ==
  ASSUME Inv, NEW w \in Workers, Commit(w), UNCHANGED profile
  PROVE  Inv'
<1> DEFINE j == job[w]
<1>0. Core /\ TypeOK /\ j \in JobType /\ JobOK(j)
  BY Types DEF Inv, Core, JobsOK
<1>1. /\ j.step = "commit" /\ ~At(w, "idle") /\ job' = [job EXCEPT ![w] = Idle]
      /\ UNCHANGED <<fresh, app, srvVars, queue, faults>>
  BY DEF Commit, Start, At
<1>2. j.op \in RouteOps \cup {"tick"} /\ (j.op \in RouteOps => j.user \in Users)
      /\ j.done \subseteq Users
  BY <1>0, <1>1 DEF JobOK, JobType
<1>3. rows' \in [Users -> Row \cup {Absent}]
  BY CommittedType DEF Commit
<1>4. /\ barred' = IF j.op = "delete" THEN barred \cup {j.user} ELSE barred
      /\ revoked' = revoked \cup j.done \cup IF j.op \in {"disable", "delete"} THEN {j.user} ELSE {}
  BY DEF Commit
<1>5. barred' \subseteq Users /\ revoked' \subseteq Users
  <2>1. j.op \in {"disable", "delete"} => j.user \in Users
    BY <1>2, OpNames
  <2> QED BY <1>0, <1>2, <1>4, <2>1 DEF TypeOK
<1>6. revoked' \subseteq revoked \cup Taken(j)
  <2>1. j.op \in {"disable", "delete"} => Taken(j) = j.done \cup {j.user}
    BY <1>1 DEF Taken
  <2>2. j.done \subseteq Taken(j)
    BY DEF Taken
  <2> QED BY <1>4, <2>1, <2>2
<1>7. Moved(w, Idle)
  BY <1>0, <1>1, <1>3, <1>5, <1>6, Types DEF Moved, TypeOK
<1>8. Core'
  BY <1>0, <1>1, <1>7, IdleType, Types, MoveKeeps
<1>9. j.op # "reconcile"
  BY <1>2, OpNames
<1> QED BY <1>0, <1>1, <1>8, <1>9, IdleType, OthersSweep DEF Inv

LEMMA AppliedKeeps ==
  ASSUME Inv, Applied, UNCHANGED profile
  PROVE  Inv'
<1>1. TypeOK'
  BY DEF Applied, Inv, Core, TypeOK, srvVars, sasldb
<1>2. /\ JobsOK' /\ RolesOK' /\ CallsOK' /\ ServerOK' /\ InTurn' /\ StayGone'
  BY DEF Applied, Inv, Core, JobsOK, RolesOK, CallsOK, ServerOK, InTurn, StayGone, Gone, Single,
         At, srvVars, sasldb
<1>3. Swept'
  BY DEF Applied, Inv, Swept, Enabled, srvVars, sasldb
<1> QED BY <1>1, <1>2, <1>3 DEF Inv, Core

-----------------------------------------------------------------------------
(***************************************************************************)
(* Calls, from the side of the application.                                *)
(***************************************************************************)

LEMMA RpcOps ==
  ASSUME NEW j \in JobType, JobOK(j), j.step \in {"call", "list"}
  PROVE  /\ RpcOp(j) \in {"set", "delete", "list"}
         /\ RpcOp(j) = "list" <=> j.step = "list"
         /\ RpcOp(j) = "set" <=> j.op \in SetOps
<1>1. CASE j.step = "list"
  <2>1. j.op \notin SetOps
    BY <1>1, OpNames DEF JobOK
  <2>2. RpcOp(j) = "list"
    BY <1>1, <2>1, Zenon DEF RpcOp
  <2> QED BY <1>1, <2>1, <2>2
<1>2. CASE j.step # "list" /\ j.op \in SetOps
  <2>1. RpcOp(j) = "set"
    BY <1>2, Zenon DEF RpcOp
  <2> QED BY <1>2, <2>1
<1>3. CASE j.step # "list" /\ j.op \notin SetOps
  <2>1. RpcOp(j) = "delete"
    BY <1>3, Zenon DEF RpcOp
  <2> QED BY <1>3, <2>1
<1> QED BY <1>1, <1>2, <1>3

\* The call is on the socket.
LEMMA CallKeeps ==
  ASSUME Inv, NEW w \in Workers, Connect(w), srv # "down", UNCHANGED profile
  PROVE  Inv'
<1> DEFINE j == job[w]
           op == RpcOp(j)
           k == [j EXCEPT !.step = "wait"]
           c == [worker |-> w, op |-> op, user |-> j.user, pw |-> j.pw, open |-> TRUE]
           n == Len(queue)
<1>0. Core /\ TypeOK /\ j \in JobType /\ JobOK(j)
  BY Types DEF Inv, Core, JobsOK
<1>a. /\ j.step \in {"call", "list"} /\ queue' = Append(queue, c)
      /\ job' = [job EXCEPT ![w] = k]
      /\ revoked' = IF op = "set" THEN revoked \ {j.user} ELSE revoked
      /\ UNCHANGED <<rows, barred, fresh, app, srvVars, faults>>
  BY DEF Connect, At, Start
<1>1. /\ op \in {"set", "delete", "list"} /\ (op = "list" <=> j.step = "list")
      /\ op = "set" <=> j.op \in SetOps
  BY <1>0, <1>a, RpcOps
<1> HIDE DEF op
<1>2. /\ k \in JobType /\ k.op = j.op /\ k.user = j.user /\ k.step = "wait" /\ k.todo = j.todo
      /\ k.done = j.done /\ k.locked = j.locked /\ k.missed = j.missed /\ k.since = j.since
      /\ k.pw = j.pw
  BY <1>0 DEF JobType, Steps
<1>3. /\ job' = [job EXCEPT ![w] = k] /\ job'[w] = k
      /\ \A x \in Workers : x # w => job'[x] = job[x]
  BY <1>0, <1>a, Types
<1>4. c \in Call /\ c.worker = w /\ c.op = op /\ c.user = j.user /\ c.open
  BY <1>0, <1>1 DEF Call, JobType
<1> HIDE DEF k, c
<1>5. /\ n \in Nat /\ queue' \in Seq(Call) /\ Len(queue') = n + 1 /\ queue'[n + 1] = c
      /\ \A i \in 1..n : queue'[i] = queue[i]
      /\ \A i \in 1..Len(queue') : i = n + 1 \/ i \in 1..n
  <2>1. queue \in Seq(Call) /\ n \in Nat
    BY <1>0, Types
  <2>2. queue' = Append(queue, c)
    BY <1>a
  <2> QED BY <1>4, <2>1, <2>2, AppendProperties
<1>6. \A i \in 1..n : queue[i].open =>
        /\ queue[i].worker \in Workers /\ job[queue[i].worker].step = "wait"
        /\ queue[i].worker # w
  BY <1>0, <1>a, Types DEF Core, CallsOK
<1>7. TypeOK'
  <2>1. job' \in [Workers -> JobType]
    BY <1>0, <1>a, <1>2, <1>3, Types
  <2>2. \A x, y \in Workers : job'[x].locked /\ job'[y].locked => x = y
    BY <1>0, <1>a, <1>2, <1>3 DEF TypeOK
  <2>3. \A a, b \in 1..Len(queue') :
          queue'[a].open /\ queue'[b].open /\ queue'[a].worker = queue'[b].worker => a = b
    BY <1>0, <1>a, <1>4, <1>5, <1>6 DEF TypeOK
  <2>4. revoked' \subseteq Users
    BY <1>0, <1>a DEF TypeOK
  <2> QED BY <1>0, <1>a, <1>5, <2>1, <2>2, <2>3, <2>4 DEF TypeOK, JobType, srvVars, sasldb
<1>8. JobsOK'
  <2>1. JobOK(k)
    BY <1>0, <1>a, <1>1, <1>2, OpNames DEF JobOK
  <2> QED BY <1>0, <1>a, <1>2, <1>3, <2>1 DEF Core, JobsOK
<1>9. RolesOK'
  BY <1>0, <1>a, <1>2, <1>3 DEF Core, RolesOK
<1>10. CallsOK'
  <2> SUFFICES ASSUME NEW i \in 1..Len(queue'), queue'[i].open
               PROVE  LET q == job'[queue'[i].worker] IN
                      /\ q.step = "wait" /\ queue'[i].user = q.user
                      /\ queue'[i].op = "set" <=> q.op \in SetOps
                      /\ queue'[i].op = "list" <=> q.op = "reconcile" /\ q.user = NoUser
    BY DEF CallsOK
  <2>1. CASE i = n + 1
    <3>1. op = "list" <=> j.op = "reconcile" /\ j.user = NoUser
      BY <1>0, <1>a, <1>1, UsersAssumption DEF JobOK
    <3> QED BY <1>1, <1>2, <1>3, <1>4, <1>5, <2>1, <3>1
  <2>2. CASE i \in 1..n
    BY <1>0, <1>a, <1>3, <1>5, <1>6, <2>2 DEF Core, CallsOK
  <2> QED BY <1>5, <2>1, <2>2
<1>11. ServerOK'
  <2>1. queue # <<>> => queue'[1] = queue[1]
    <3>1. queue # <<>> => n # 0
      BY <1>0, <1>a, Types, EmptySeq
    <3> QED BY <1>5, <3>1
  <2>2. queue' # <<>>
    <3>1. Len(<<>>) = 0
      OBVIOUS
    <3> QED BY <1>5, <3>1
  <2> QED BY <1>0, <1>a, <2>1, <2>2 DEF Core, ServerOK, srvVars, sasldb
<1>12. Single => \A x \in Workers : x # w => job[x].step = "idle"
  BY <1>0, <1>a DEF Core, InTurn, At
<1>13. InTurn'
  <2>1. Single' => Single
    BY <1>a DEF Single
  <2>2. ASSUME Single, NEW i \in 1..Len(queue'), queue'[i].open PROVE i = Len(queue')
    BY <1>5, <1>6, <1>12, <2>2
  <2>3. ASSUME Single, NEW x \in Workers, job'[x].step # "idle" PROVE x = w
    BY <1>3, <1>12, <2>3
  <2> QED BY <2>1, <2>2, <2>3 DEF InTurn, At
<1>14. StayGone'
  <2> SUFFICES ASSUME ~profile.overlap
               PROVE  /\ \A u \in revoked' : Gone(u)'
                      /\ \A x \in Workers : \A u \in Taken(job'[x]) : Gone(u)'
    BY <1>0, <1>a, Types DEF StayGone
  <2>1. ASSUME NEW u, Gone(u), op = "set" => u # j.user PROVE Gone(u)'
    BY <1>a, <1>4, <1>5, <2>1 DEF Gone, srvVars, sasldb
  <2>2. \A u \in revoked' : Gone(u)'
    BY <1>0, <1>a, <2>1 DEF Core, StayGone
  <2>3. ASSUME NEW x \in Workers, NEW u \in Taken(job'[x]) PROVE Gone(u)'
    <3>1. CASE x = w
      <4>1. Taken(k) = j.done /\ j.done \subseteq Taken(j)
        BY <1>2 DEF Taken
      <4>2. op = "set" => j.done = {}
        BY <1>0, <1>a, <1>1, OpNames DEF JobOK
      <4>3. Gone(u) /\ op # "set"
        BY <1>0, <1>a, <1>3, <2>3, <3>1, <4>1, <4>2, <1>1 DEF Core, StayGone
      <4> QED BY <2>1, <4>3
    <3>2. CASE x # w
      <4>1. job'[x].step = "idle" /\ job'[x].op = "none" /\ job'[x].done = {}
        BY <1>0, <1>a, <1>3, <1>12, <3>2 DEF Single, Core, JobsOK, JobOK
      <4> QED BY <2>3, <4>1 DEF Taken
    <3> QED BY <3>1, <3>2
  <2> QED BY <2>2, <2>3
<1>15. Core'
  BY <1>7, <1>8, <1>9, <1>10, <1>11, <1>13, <1>14 DEF Core
<1>16. CASE j.op # "reconcile"
  BY <1>0, <1>a, <1>2, <1>3, <1>15, <1>16, OthersSweep DEF Inv, At
<1>17. CASE j.op = "reconcile"
  <2>1. ASSUME ~k.missed, k.since = faults', ~Listing(k)
        PROVE  /\ srv' # "down"
               /\ queue' # <<>> => /\ k.step = "wait" /\ Len(queue') = 1
                                   /\ queue'[1].op = "delete" /\ queue'[1].open
               /\ \A u \in Users : live'[u] # NoPassword => u \in Enabled' \cup Left(k)
    <3>1. j.step = "call"
      BY <1>0, <1>a, <1>2, <2>1 DEF Listing, JobOK
    <3>2. ~Listing(j) /\ Left(k) = Left(j)
      BY <1>2, <3>1 DEF Listing, Left
    <3>3. queue = <<>> /\ \A u \in Users : live[u] # NoPassword => u \in Enabled \cup Left(j)
      BY <1>a, <1>2, <1>17, <2>1, <3>1, <3>2 DEF Inv, Swept
    <3>4. Len(queue') = 1 /\ queue'[1] = c
      <4>1. n = 0
        BY <3>3
      <4> QED BY <1>5, <4>1
    <3>5. op = "delete"
      BY <1>1, <1>17, <3>1, OpNames
    <3>6. Enabled' = Enabled /\ live' = live /\ srv' = srv
      BY <1>a DEF Enabled, srvVars, sasldb
    <3> QED BY <1>2, <1>4, <3>2, <3>3, <3>4, <3>5, <3>6
  <2> QED BY <1>0, <1>a, <1>3, <1>15, <1>17, <2>1, SweepMoves DEF Inv
<1> QED BY <1>16, <1>17

\* A job whose call fails before it waits: AfterError.
LEMMA ConnectKeeps ==
  ASSUME Inv, NEW w \in Workers, Connect(w), UNCHANGED profile
  PROVE  Inv'
<1> DEFINE j == job[w]
           op == RpcOp(j)
           k == AfterError(j)
<1>0. Core /\ TypeOK /\ j \in JobType /\ JobOK(j) /\ j.since <= faults
      /\ j.since \in Nat /\ faults \in Nat
  BY Types DEF Inv, Core, JobsOK, JobType
<1>1. /\ j.step \in {"call", "list"}
      /\ revoked' = IF op = "set" THEN revoked \ {j.user} ELSE revoked
      /\ UNCHANGED <<rows, barred, fresh, app, srvVars, faults>>
  BY DEF Connect, At
<1>2. CASE srv # "down"
  BY <1>2, CallKeeps
<1>3. CASE srv = "down"
  <2>1. job' = [job EXCEPT ![w] = k] /\ UNCHANGED queue
    BY <1>3 DEF Connect, Start
  <2>2. /\ k \in JobType /\ JobOK(k) /\ k.step \in {"idle", "pick"} /\ Taken(k) \subseteq Taken(j)
        /\ k.locked => j.locked
        /\ k.op \in {j.op, "none"} /\ (k.op = "reconcile" => k.missed)
        /\ k.since \in {j.since, 0}
    BY <1>0, <1>1, ErrorType
  <2> HIDE DEF k
  <2>3. revoked' \subseteq revoked
    BY <1>1
  <2>4. Moved(w, k)
    BY <1>0, <1>1, <2>1, <2>3, Types DEF Moved, TypeOK
  <2>5. ~At(w, "idle") /\ k.since <= faults /\ k.step # "wait" /\ j.step # "wait"
    BY <1>0, <1>1, <2>2 DEF At
  <2>6. (app = "starting" => k.op \in {"none", "reconcile"})
        /\ (k.op = "reconcile" => app = "starting")
    BY <1>0, <2>2 DEF Core, RolesOK
  <2>7. Core'
    BY <1>0, <2>2, <2>4, <2>5, <2>6, MoveKeeps
  <2>8. CASE j.op = "reconcile"
    BY <1>0, <2>1, <2>2, <2>7, <2>8, SweepMoves DEF Inv
  <2>9. CASE j.op # "reconcile"
    BY <1>0, <2>1, <2>2, <2>5, <2>7, <2>9, OthersSweep DEF Inv
  <2> QED BY <2>8, <2>9
<1> QED BY <1>2, <1>3

\* What callers do about calls that have no answer: some jobs end or go on after
\* an error, and the calls they waited for are closed or gone.
LEMMA DroppedKeeps ==
  ASSUME Core, job' \in [Workers -> JobType], app' \in {app, "starting"},
         \A w \in Workers :
           \/ job'[w] = job[w]
           \/ job'[w] = Idle
           \/ job[w].step = "wait" /\ job'[w] = AfterError(job[w]),
         app' # app => \A w \in Workers : job'[w] = Idle,
         \/ queue' = <<>>
         \/ /\ Len(queue') = Len(queue) /\ queue' \in Seq(Call)
            /\ \A i \in 1..Len(queue) :
                 /\ queue'[i].op = queue[i].op /\ queue'[i].user = queue[i].user
                 /\ queue'[i].worker = queue[i].worker
                 /\ queue'[i].open => queue[i].open,
         \A i \in 1..Len(queue') : queue'[i].open => job'[queue'[i].worker] = job[queue'[i].worker],
         srv' = "down" => queue' = <<>>,
         srv' # "down" => srv' = srv /\ result' = result,
         queue' = <<>> => queue = <<>> \/ srv' = "down",
         srv' \in {"idle", "sync", "reply", "down"}, result' \in [ok : BOOLEAN, users : SUBSET Users],
         faults' \in {faults, faults + 1}, faults' \in 0..profile.faults,
         UNCHANGED <<appVars, sasldb, profile>>
  PROVE  Core'
<1>0. TypeOK
  BY DEF Core
<1>1. ASSUME NEW w \in Workers
      PROVE  /\ JobOK(job'[w]) /\ job'[w].since <= faults' /\ Taken(job'[w]) \subseteq Taken(job[w])
             /\ job'[w].locked => job[w].locked
             /\ job'[w].op \in {job[w].op, "none"}
             /\ job'[w].step # "idle" => job[w].step # "idle"
  <2>1. /\ job[w] \in JobType /\ JobOK(job[w]) /\ job[w].since <= faults
        /\ faults \in Nat /\ job[w].since \in Nat
    BY <1>0, Types DEF Core, JobsOK, JobType
  <2>2. CASE job'[w] = job[w]
    BY <2>1, <2>2
  <2>3. CASE job'[w] = Idle
    BY <2>1, <2>3, IdleType
  <2>4. CASE job[w].step = "wait" /\ job'[w] = AfterError(job[w])
    <3>1. /\ JobOK(job'[w]) /\ Taken(job'[w]) \subseteq Taken(job[w])
          /\ job'[w].locked => job[w].locked
          /\ job'[w].op \in {job[w].op, "none"} /\ job'[w].since \in {job[w].since, 0}
      BY <2>1, <2>4, ErrorType
    <3> QED BY <2>1, <2>4, <3>1
  <2> QED BY <2>2, <2>3, <2>4
<1>2. /\ Len(queue') \in Nat /\ queue' \in Seq(Call)
      /\ queue' # <<>> => Len(queue') = Len(queue)
      /\ \A i \in 1..Len(queue') :
           /\ i \in 1..Len(queue)
           /\ queue'[i].op = queue[i].op /\ queue'[i].user = queue[i].user
           /\ queue'[i].worker = queue[i].worker
           /\ queue'[i].open => queue[i].open
  <2>1. CASE queue' = <<>>
    <3>1. Len(queue') = 0
      BY <2>1
    <3> QED BY <2>1, <3>1
  <2>2. CASE queue' # <<>>
    BY <1>0, <2>2, Types
  <2> QED BY <2>1, <2>2
<1>3. TypeOK'
  <2>1. \A x, y \in Workers : job'[x].locked /\ job'[y].locked => x = y
    BY <1>0, <1>1 DEF TypeOK
  <2>2. \A a, b \in 1..Len(queue') :
          queue'[a].open /\ queue'[b].open /\ queue'[a].worker = queue'[b].worker => a = b
    BY <1>0, <1>2 DEF TypeOK
  <2> QED BY <1>0, <1>2, <2>1, <2>2 DEF TypeOK, JobType, appVars, sasldb
<1>4. JobsOK'
  BY <1>1 DEF JobsOK
<1>5. RolesOK'
  <2>1. CASE app' = app
    BY <1>1, <2>1 DEF Core, RolesOK
  <2>2. CASE app' # app
    BY <2>2, IdleType DEF RolesOK
  <2> QED BY <2>1, <2>2
<1>6. CallsOK'
  BY <1>2 DEF Core, CallsOK
<1>7. ServerOK'
  <2>1. CASE srv' = "down"
    BY <2>1 DEF ServerOK
  <2>2. CASE srv' # "down"
    <3>1. queue' = <<>> => queue = <<>>
      BY <2>2
    <3>2. queue' # <<>> => 1 \in 1..Len(queue')
      BY <1>2, EmptySeq
    <3>3. queue' # <<>> => queue'[1].op = queue[1].op /\ queue'[1].user = queue[1].user
      BY <1>2, <3>2
    <3>4. UNCHANGED <<live, volume>>
      BY DEF sasldb
    <3> QED BY <2>2, <3>1, <3>3, <3>4 DEF Core, ServerOK
  <2> QED BY <2>1, <2>2
<1>8. InTurn'
  <2>1. CASE Single
    <3>1. \A x, y \in Workers : job'[x].step # "idle" /\ job'[y].step # "idle" => x = y
      BY <1>1, <2>1 DEF Core, InTurn, At
    <3>2. \A i \in 1..Len(queue') : queue'[i].open => i = Len(queue')
      <4> SUFFICES ASSUME NEW i \in 1..Len(queue'), queue'[i].open PROVE i = Len(queue')
        OBVIOUS
      <4>1. i \in 1..Len(queue) /\ queue[i].open
        BY <1>2
      <4>2. queue' # <<>>
        <5>1. Len(<<>>) = 0
          OBVIOUS
        <5> QED BY <1>2, <5>1
      <4> QED BY <1>2, <2>1, <4>1, <4>2 DEF Core, InTurn
    <3> QED BY <3>1, <3>2 DEF InTurn, At
  <2>2. CASE ~Single /\ Single'
    <3>1. \A w \in Workers : job'[w].step = "idle"
      BY <2>2, IdleType DEF Single
    <3>2. \A i \in 1..Len(queue') : ~queue'[i].open
      <4> SUFFICES ASSUME NEW i \in 1..Len(queue'), queue'[i].open PROVE FALSE
        OBVIOUS
      <4>1. queue'[i].worker \in Workers /\ job'[queue'[i].worker].step = "wait"
        BY <1>0, <1>2, Types DEF Core, CallsOK
      <4> QED BY <3>1, <4>1
    <3> QED BY <3>1, <3>2 DEF InTurn, At
  <2> QED BY <2>1, <2>2 DEF InTurn
<1>9. StayGone'
  <2>1. ASSUME NEW u, Gone(u) PROVE Gone(u)'
    BY <1>2, <2>1 DEF Gone, sasldb
  <2> QED BY <1>1, <2>1 DEF Core, StayGone, appVars
<1> QED BY <1>3, <1>4, <1>5, <1>6, <1>7, <1>8, <1>9 DEF Core

LEMMA GiveUpKeeps ==
  ASSUME Inv, NEW w \in Workers, GiveUp(w), UNCHANGED profile
  PROVE  Inv'
<1>0. Core /\ TypeOK /\ job \in [Workers -> JobType]
  BY Types DEF Inv, Core
<1>1. /\ job[w].step = "wait" /\ job' = [job EXCEPT ![w] = AfterError(job[w])]
      /\ queue' = [i \in 1..Len(queue) |->
                     IF queue[i].worker = w THEN [queue[i] EXCEPT !.open = FALSE] ELSE queue[i]]
      /\ UNCHANGED <<appVars, app, srvVars>>
      /\ faults' = faults + 1 /\ faults' \in 0..profile.faults
  BY <1>0, Types DEF GiveUp, Start, At, Fault, TypeOK
<1>2. /\ AfterError(job[w]) \in JobType
      /\ AfterError(job[w]).since \in {job[w].since, 0}
  BY <1>0, <1>1, ErrorType DEF Core, JobsOK
<1>3. \A i \in 1..Len(queue) :
        /\ queue'[i] \in Call /\ queue'[i].op = queue[i].op /\ queue'[i].user = queue[i].user
        /\ queue'[i].worker = queue[i].worker
        /\ queue'[i].open => queue[i].open /\ queue[i].worker # w
  BY <1>0, <1>1, Types DEF Call
<1>4. Len(queue') = Len(queue) /\ queue' \in Seq(Call)
  <2>1. queue' \in [1..Len(queue) -> Call] /\ Len(queue) \in Nat
    BY <1>0, <1>1, <1>3, Types
  <2>2. queue' \in Seq(Call)
    BY <2>1, SeqDef
  <2> QED BY <2>1, <2>2
<1>5. queue' = <<>> => queue = <<>>
  BY <1>0, <1>4, Types, EmptySeq
<1>6. Core'
  <2>1. job' \in [Workers -> JobType]
    BY <1>0, <1>1, <1>2
  <2>2. \A x \in Workers : \/ job'[x] = job[x]
                           \/ job[x].step = "wait" /\ job'[x] = AfterError(job[x])
    BY <1>0, <1>1
  <2>3. \A i \in 1..Len(queue') : queue'[i].open => job'[queue'[i].worker] = job[queue'[i].worker]
    BY <1>0, <1>1, <1>3, <1>4, Types
  <2>4. srv' = srv /\ result' = result /\ app' = app /\ UNCHANGED <<appVars, sasldb>>
    BY <1>1 DEF srvVars
  <2>5. srv = "down" => queue' = <<>>
    <3>1. srv = "down" => Len(queue') = 0
      BY <1>0, <1>4 DEF Core, ServerOK
    <3> QED BY <1>4, <3>1, EmptySeq
  <2>6. srv' \in {"idle", "sync", "reply", "down"} /\ result' \in [ok : BOOLEAN, users : SUBSET Users]
    BY <1>0, <2>4 DEF TypeOK
  <2> QED BY <1>0, <1>1, <1>3, <1>4, <1>5, <2>1, <2>2, <2>3, <2>4, <2>5, <2>6, DroppedKeeps
<1>7. \A x \in Workers : job'[x].since \in {job[x].since, 0}
  BY <1>0, <1>1, <1>2
<1> QED BY <1>0, <1>1, <1>6, <1>7, FaultSweeps DEF Inv

LEMMA AppQuitsKeeps ==
  ASSUME Inv, AppQuits, UNCHANGED profile
  PROVE  Inv'
<1>0. Core /\ TypeOK
  BY DEF Inv, Core
<1>1. /\ job' = [w \in Workers |-> Idle] /\ app' = "starting"
      /\ queue' = [i \in 1..Len(queue) |-> [queue[i] EXCEPT !.open = FALSE]]
      /\ UNCHANGED <<appVars, srvVars>>
      /\ faults' = faults + 1 /\ faults' \in 0..profile.faults
  BY <1>0, Types DEF AppQuits, Fault, TypeOK
<1>3. \A i \in 1..Len(queue) :
        /\ queue'[i] \in Call /\ queue'[i].op = queue[i].op /\ queue'[i].user = queue[i].user
        /\ queue'[i].worker = queue[i].worker
        /\ ~queue'[i].open
  BY <1>0, <1>1, Types DEF Call
<1>4. Len(queue') = Len(queue) /\ queue' \in Seq(Call)
  <2>1. queue' \in [1..Len(queue) -> Call] /\ Len(queue) \in Nat
    BY <1>0, <1>1, <1>3, Types
  <2>2. queue' \in Seq(Call)
    BY <2>1, SeqDef
  <2> QED BY <2>1, <2>2
<1>5. queue' = <<>> => queue = <<>>
  BY <1>0, <1>4, Types, EmptySeq
<1>6. Core'
  <2>1. job' \in [Workers -> JobType] /\ \A x \in Workers : job'[x] = Idle
    BY <1>1, IdleType
  <2>4. srv' = srv /\ result' = result /\ UNCHANGED <<appVars, sasldb>>
    BY <1>1 DEF srvVars
  <2>5. srv = "down" => queue' = <<>>
    <3>1. srv = "down" => Len(queue') = 0
      BY <1>0, <1>4 DEF Core, ServerOK
    <3> QED BY <1>4, <3>1, EmptySeq
  <2>6. srv' \in {"idle", "sync", "reply", "down"} /\ result' \in [ok : BOOLEAN, users : SUBSET Users]
    BY <1>0, <2>4 DEF TypeOK
  <2> QED BY <1>0, <1>1, <1>3, <1>4, <1>5, <2>1, <2>4, <2>5, <2>6, DroppedKeeps
<1>7. Swept'
  BY <1>1, IdleType, NobodySweeps
<1> QED BY <1>6, <1>7 DEF Inv

\* The server and its container go down.
LEMMA ServerGoneKeeps ==
  ASSUME Inv, ServerGone, faults' \in {faults, faults + 1}, faults' \in 0..profile.faults,
         UNCHANGED <<appVars, app, sasldb, profile>>
  PROVE  Core'
<1>0. Core /\ TypeOK /\ job \in [Workers -> JobType]
  BY Types DEF Inv, Core
<1>1. /\ srv' = "down" /\ result' = NoResult /\ queue' = <<>>
      /\ job' = [w \in Workers |-> IF At(w, "wait") THEN AfterError(job[w]) ELSE job[w]]
  BY DEF ServerGone
<1>2. \A w \in Workers : At(w, "wait") => AfterError(job[w]) \in JobType
  BY <1>0, ErrorType DEF Core, JobsOK, At
<1>3. job' \in [Workers -> JobType]
  BY <1>0, <1>1, <1>2
<1>4. \A w \in Workers : \/ job'[w] = job[w]
                         \/ job[w].step = "wait" /\ job'[w] = AfterError(job[w])
  BY <1>1 DEF At
<1>5. NoResult \in [ok : BOOLEAN, users : SUBSET Users]
  BY DEF NoResult
<1>6. Len(queue') = 0
  BY <1>1
<1> QED BY <1>0, <1>1, <1>3, <1>4, <1>5, <1>6, DroppedKeeps

LEMMA ContainerStopsKeeps ==
  ASSUME Inv, ContainerStops, UNCHANGED profile
  PROVE  Inv'
<1>0. Core /\ TypeOK /\ job \in [Workers -> JobType]
  BY Types DEF Inv, Core
<1>1. ServerGone /\ faults' = faults + 1 /\ faults' \in 0..profile.faults
      /\ UNCHANGED <<appVars, app, sasldb>>
  BY <1>0, Types DEF ContainerStops, Fault, TypeOK
<1>2. Core'
  BY <1>1, ServerGoneKeeps
<1>3. \A w \in Workers : job'[w].since \in {job[w].since, 0}
  <2> SUFFICES ASSUME NEW w \in Workers PROVE job'[w].since \in {job[w].since, 0}
    OBVIOUS
  <2>1. At(w, "wait") => AfterError(job[w]).since \in {job[w].since, 0}
    BY <1>0, ErrorType DEF Core, JobsOK, At
  <2> QED BY <1>1, <2>1 DEF ServerGone
<1> QED BY <1>0, <1>1, <1>2, <1>3, FaultSweeps DEF Inv

-----------------------------------------------------------------------------
(***************************************************************************)
(* The control surface.                                                    *)
(***************************************************************************)

LEMMA TakenUsers ==
  ASSUME NEW j \in JobType, JobOK(j)
  PROVE  Taken(j) \subseteq Users
BY OpNames DEF Taken, JobOK, JobType

\* A step of the handler, up to its answer.
LEMMA ServedKeeps ==
  ASSUME Core, UNCHANGED <<appVars, job, app, queue, profile>>,
         faults' \in {faults, faults + 1}, faults' \in 0..profile.faults,
         live' \in [Users -> Passwords \cup {NoPassword}],
         volume' \in [Users -> Passwords \cup {NoPassword}],
         srv' \in {"idle", "sync", "reply"}, result' \in [ok : BOOLEAN, users : SUBSET Users],
         ServerOK',
         \A u \in Users : Gone(u) => live'[u] = NoPassword /\ volume'[u] = NoPassword
  PROVE  Core'
<1>0. TypeOK
  BY DEF Core
<1>1. TypeOK'
  BY <1>0 DEF TypeOK, appVars
<1>2. JobsOK'
  BY <1>0, Types DEF Core, JobsOK, JobType
<1>3. RolesOK' /\ CallsOK' /\ InTurn'
  BY DEF Core, RolesOK, CallsOK, InTurn, Single, At
<1>4. StayGone'
  <2>1. revoked \subseteq Users /\ \A w \in Workers : Taken(job[w]) \subseteq Users
    BY <1>0, Types, TakenUsers DEF TypeOK, Core, JobsOK
  <2>2. ASSUME NEW u \in Users, Gone(u) PROVE Gone(u)'
    BY <2>2 DEF Gone
  <2> QED BY <2>1, <2>2 DEF Core, StayGone, appVars
<1> QED BY <1>1, <1>2, <1>3, <1>4 DEF Core

LEMMA WrittenIs ==
  ASSUME TypeOK, NEW c \in Call
  PROVE  /\ Written(c) \in [Users -> Passwords \cup {NoPassword}]
         /\ \A u \in Users : c.user # u => Written(c)[u] = live[u]
         /\ \A u \in Users : c.op # "set" => Written(c)[u] \in {live[u], NoPassword}
         /\ \A u \in Users : c.op # "set" /\ c.user = u => Written(c)[u] = NoPassword
BY DEF TypeOK, Written, Call

LEMMA RunCommandKeeps ==
  ASSUME Inv, RunCommand, UNCHANGED profile
  PROVE  Inv'
<1> DEFINE call == queue[1]
<1>0. Core /\ TypeOK /\ 1 \in 1..Len(queue) /\ Head(queue) = call /\ call \in Call
  <2>1. Core /\ TypeOK /\ queue # <<>> /\ queue \in Seq(Call)
    BY Types DEF Inv, Core, RunCommand
  <2> QED BY <2>1, EmptySeq, Types
<1>1. /\ srv = "idle" /\ UNCHANGED <<appVars, job, app, volume, queue>>
      /\ live \in [Users -> Passwords \cup {NoPassword}]
      /\ volume \in [Users -> Passwords \cup {NoPassword}]
      /\ faults \in 0..profile.faults
  BY <1>0 DEF RunCommand, TypeOK
<1>2. \A u \in Users : Gone(u) =>
        /\ live[u] = NoPassword /\ volume[u] = NoPassword
        /\ Written(call)[u] = NoPassword
  <2> SUFFICES ASSUME NEW u \in Users, Gone(u) PROVE Written(call)[u] = NoPassword
    BY DEF Gone
  <2>1. live[u] = NoPassword /\ (call.op = "set" => call.user # u)
    BY <1>0 DEF Gone
  <2> QED BY <1>0, <2>1, WrittenIs
<1>3. ASSUME call.op = "list", Answer(TRUE, {u \in Users : live[u] # NoPassword}),
             UNCHANGED <<live, faults>>
      PROVE  Inv'
  <2>1. srv' = "reply" /\ result' = [ok |-> TRUE, users |-> {u \in Users : live[u] # NoPassword}]
    BY <1>3 DEF Answer
  <2>2. ServerOK'
    BY <1>0, <1>1, <1>3, <2>1, EmptySeq DEF ServerOK
  <2>3. Core'
    BY <1>0, <1>1, <1>2, <1>3, <2>1, <2>2, ServedKeeps
  <2>4. Swept'
    BY <1>0, <1>1, <1>3, <2>1 DEF Inv, Swept, Listing, Left, RunCommand
  <2> QED BY <2>3, <2>4 DEF Inv
<1>4. ASSUME call.op # "list", live' = Written(call), ToSync(call), UNCHANGED faults
      PROVE  Inv'
  <2>1. srv' = "sync" /\ result' = result
    BY <1>4 DEF ToSync
  <2>2. ServerOK'
    BY <1>0, <1>1, <1>4, <2>1, WrittenIs, EmptySeq DEF ServerOK, RunCommand
  <2>3. /\ live' \in [Users -> Passwords \cup {NoPassword}]
        /\ result \in [ok : BOOLEAN, users : SUBSET Users]
    BY <1>0, <1>4, WrittenIs DEF TypeOK
  <2>4. Core'
    BY <1>0, <1>1, <1>2, <1>4, <2>1, <2>2, <2>3, ServedKeeps
  <2>5. Swept'
    <3> SUFFICES ASSUME NEW w \in Workers, job'[w].op = "reconcile", ~job'[w].missed,
                        job'[w].since = faults', ~Listing(job'[w])
                 PROVE  /\ srv' # "down"
                        /\ queue' # <<>> => /\ job'[w].step = "wait" /\ Len(queue') = 1
                                            /\ queue'[1].op = "delete" /\ queue'[1].open
                        /\ \A u \in Users : live'[u] # NoPassword
                                              => u \in Enabled' \cup Left(job'[w])
      BY DEF Swept
    <3>1. /\ queue # <<>> => /\ job[w].step = "wait" /\ Len(queue) = 1
                             /\ queue[1].op = "delete" /\ queue[1].open
          /\ \A u \in Users : live[u] # NoPassword => u \in Enabled \cup Left(job[w])
      BY <1>1, <1>4 DEF Inv, Swept
    <3>2. \A u \in Users : live'[u] # NoPassword => live[u] # NoPassword
      BY <1>0, <1>4, <3>1, WrittenIs DEF RunCommand
    <3>3. Enabled' = Enabled /\ job' = job
      BY <1>1 DEF Enabled, appVars
    <3> QED BY <1>1, <2>1, <3>1, <3>2, <3>3
  <2> QED BY <2>4, <2>5 DEF Inv
<1>5. ASSUME faults' = faults + 1, faults < profile.faults, Answer(FALSE, {}),
             live' \in {live, Written(call)}
      PROVE  Inv'
  <2>1. srv' = "reply" /\ result' = [ok |-> FALSE, users |-> {}]
    BY <1>5 DEF Answer
  <2>2. ServerOK'
    BY <1>0, <1>1, <2>1, EmptySeq DEF ServerOK
  <2>3. /\ live' \in [Users -> Passwords \cup {NoPassword}]
        /\ result' \in [ok : BOOLEAN, users : SUBSET Users]
        /\ faults' \in 0..profile.faults
    BY <1>0, <1>1, <1>5, <2>1, WrittenIs, Types
  <2>4. Core'
    BY <1>0, <1>1, <1>2, <1>5, <2>1, <2>2, <2>3, ServedKeeps
  <2>5. Swept'
    BY <1>0, <1>1, <1>5, <2>4, FaultSweeps
  <2> QED BY <2>4, <2>5 DEF Inv
<1>6. \/ /\ call.op = "list" /\ Answer(TRUE, {u \in Users : live[u] # NoPassword})
         /\ UNCHANGED <<live, faults>>
      \/ call.op # "list" /\ live' = Written(call) /\ ToSync(call) /\ UNCHANGED faults
      \/ /\ faults' = faults + 1 /\ faults < profile.faults /\ Answer(FALSE, {})
         /\ live' \in {live, Written(call)}
  BY <1>0 DEF RunCommand, Fault
<1> QED BY <1>3, <1>4, <1>5, <1>6

LEMMA SyncVolumeKeeps ==
  ASSUME Inv, SyncVolume, UNCHANGED profile
  PROVE  Inv'
<1>0. Core /\ TypeOK /\ faults \in 0..profile.faults /\ profile.faults \in Nat
      /\ live \in [Users -> Passwords \cup {NoPassword}]
      /\ volume \in [Users -> Passwords \cup {NoPassword}]
  BY Types DEF Inv, Core, TypeOK
<1>1. srv = "sync" /\ UNCHANGED <<appVars, job, app, live, queue>> /\ queue # <<>>
  BY <1>0 DEF SyncVolume, Core, ServerOK
<1>2. /\ srv' = "reply" /\ result' \in [ok : BOOLEAN, users : SUBSET Users]
      /\ volume' \in {live, volume} /\ faults' \in {faults, faults + 1}
      /\ faults' \in 0..profile.faults /\ (result'.ok => volume' = live)
  <2>1. CASE volume' = live /\ Answer(TRUE, {}) /\ UNCHANGED faults
    <3>1. srv' = "reply" /\ result' = [ok |-> TRUE, users |-> {}]
      BY <2>1 DEF Answer
    <3> QED BY <1>0, <2>1, <3>1
  <2>2. CASE UNCHANGED volume /\ Answer(FALSE, {}) /\ Fault("sync")
    <3>1. srv' = "reply" /\ result' = [ok |-> FALSE, users |-> {}]
      BY <2>2 DEF Answer
    <3>2. faults' \in {faults, faults + 1} /\ faults' \in 0..profile.faults
      BY <1>0, <2>2 DEF Fault
    <3> QED BY <2>2, <3>1, <3>2
  <2> QED BY <2>1, <2>2 DEF SyncVolume
<1>3. ServerOK'
  BY <1>0, <1>1, <1>2 DEF Core, ServerOK
<1>4. Core'
  BY <1>0, <1>1, <1>2, <1>3, ServedKeeps DEF Gone
<1>6. CASE faults' = faults + 1
  <2>1. Swept'
    BY <1>0, <1>1, <1>4, <1>6, FaultSweeps
  <2> QED BY <1>4, <2>1 DEF Inv
<1>7. CASE faults' = faults
  BY <1>1, <1>2, <1>4, <1>7 DEF Inv, Swept, Enabled, appVars
<1> QED BY <1>2, <1>6, <1>7

LEMMA BootKeeps ==
  ASSUME Inv, Boot, UNCHANGED profile
  PROVE  Inv'
<1>0. Core /\ TypeOK /\ srv = "down" /\ queue = <<>>
      /\ volume \in [Users -> Passwords \cup {NoPassword}]
      /\ result \in [ok : BOOLEAN, users : SUBSET Users]
      /\ faults \in 0..profile.faults
  BY DEF Inv, Core, TypeOK, Boot, ServerOK
<1>1. srv' = "idle" /\ live' = volume /\ UNCHANGED <<appVars, job, app, volume, result, queue, faults>>
  BY DEF Boot
<1>2. ServerOK'
  BY <1>1 DEF ServerOK
<1>3. Core'
  BY <1>0, <1>1, <1>2, ServedKeeps DEF Gone
<1>4. Swept'
  BY <1>0, <1>1 DEF Inv, Swept
<1> QED BY <1>3, <1>4 DEF Inv

\* How a job goes on after an answer.
LEMMA AnswerType ==
  ASSUME NEW j \in JobType, JobOK(j), j.step = "wait", TypeOK,
         NEW res \in [ok : BOOLEAN, users : SUBSET Users]
  PROVE  LET k == AfterAnswer(j, res) IN
         /\ k \in JobType /\ JobOK(k) /\ k.step # "wait"
         /\ k.locked => j.locked
         /\ k.op \in {j.op, "none"} /\ k.since \in {j.since, 0}
         /\ Taken(k) \subseteq Taken(j)
              \cup IF res.ok /\ j.op \in {"disable", "delete", "tick"} THEN {j.user} ELSE {}
         /\ k.op = "reconcile" /\ ~k.missed =>
              /\ res.ok /\ k.todo = j.todo \cup Stale(res.users) /\ k.step = "pick"
              /\ k.since = j.since /\ ~j.missed
<1> DEFINE k == AfterAnswer(j, res)
<1>0. j.op \in FlushFirst \cup {"delete", "tick", "reconcile"}
  BY DEF JobOK, JobType, JobOps, RouteOps
<1>1. CASE ~res.ok
  <2>1. k = AfterError(j)
    BY <1>1 DEF AfterAnswer
  <2>2. /\ k \in JobType /\ JobOK(k) /\ k.step # "wait"
        /\ k.locked => j.locked
        /\ k.op \in {j.op, "none"} /\ k.since \in {j.since, 0}
        /\ Taken(k) \subseteq Taken(j) /\ (k.op = "reconcile" => k.missed)
    BY <2>1, ErrorType
  <2> HIDE DEF k
  <2> QED BY <1>1, <2>2 DEF k
<1>2. CASE res.ok /\ j.op \in FlushFirst
  <2>1. j.op \notin {"delete", "tick", "reconcile"}
    BY <1>2, OpNames
  <2>2. k = [j EXCEPT !.step = "commit"]
    BY <1>2, <2>1, Zenon DEF AfterAnswer
  <2>3. /\ k \in JobType /\ k.op = j.op /\ k.step = "commit" /\ k.user = j.user /\ k.done = j.done
        /\ k.locked = j.locked /\ k.since = j.since /\ k.pw = j.pw
    BY <2>2 DEF JobType, Steps
  <2> HIDE DEF k
  <2>4. JobOK(k)
    BY <1>2, <2>1, <2>3, OpNames DEF JobOK
  <2>5. Taken(k) \subseteq Taken(j) \cup IF j.op = "disable" THEN {j.user} ELSE {}
    BY <2>1, <2>3 DEF Taken
  <2> QED BY <1>2, <2>1, <2>3, <2>4, <2>5 DEF k
<1>3. CASE res.ok /\ j.op \in {"delete", "tick"}
  <2>1. j.op \notin FlushFirst
    BY <1>3, OpNames
  <2>2. k = [j EXCEPT !.step = "flush"]
    BY <1>3, <2>1, Zenon DEF AfterAnswer
  <2>3. /\ k \in JobType /\ k.op = j.op /\ k.step = "flush" /\ k.user = j.user /\ k.done = j.done
        /\ k.locked = j.locked /\ k.since = j.since /\ k.pw = j.pw
    BY <2>2 DEF JobType, Steps
  <2> HIDE DEF k
  <2>4. JobOK(k)
    BY <1>3, <2>1, <2>3, OpNames DEF JobOK
  <2>5. Taken(k) \subseteq Taken(j) \cup {j.user}
    BY <2>3 DEF Taken
  <2> QED BY <1>3, <2>3, <2>4, <2>5 DEF k
<1>4. CASE res.ok /\ j.op = "reconcile"
  <2>1. j.op \notin FlushFirst
    BY <1>4, OpNames
  <2>2. k = [j EXCEPT !.step = "pick", !.todo = @ \cup Stale(res.users)]
    BY <1>4, <2>1, Zenon DEF AfterAnswer
  <2>3. Stale(res.users) \subseteq Users
    BY DEF Stale
  <2>4. /\ k \in JobType /\ k.op = j.op /\ k.step = "pick" /\ k.user = j.user /\ k.done = j.done
        /\ k.locked = j.locked /\ k.since = j.since /\ k.missed = j.missed
        /\ k.todo = j.todo \cup Stale(res.users)
    BY <2>2, <2>3 DEF JobType, Steps
  <2> HIDE DEF k
  <2>5. JobOK(k)
    BY <1>4, <2>4, OpNames DEF JobOK
  <2>6. Taken(k) \subseteq Taken(j)
    BY <1>4, <2>4 DEF Taken
  <2> QED BY <1>4, <2>4, <2>5, <2>6 DEF k
<1> QED BY <1>0, <1>1, <1>2, <1>3, <1>4

LEMMA ReplyKeeps ==
  ASSUME Inv, Reply, UNCHANGED profile
  PROVE  Inv'
<1> DEFINE c == queue[1]
           w == c.worker
           j == job[w]
           k == AfterAnswer(j, result)
           n == Len(queue)
<1>0. Core /\ TypeOK /\ srv = "reply" /\ queue \in Seq(Call) /\ queue # <<>> /\ n \in Nat
      /\ job \in [Workers -> JobType] /\ faults \in Nat
  BY Types DEF Inv, Core, ServerOK, Reply
<1>1. /\ Head(queue) = c /\ c \in Call /\ w \in Workers /\ n >= 1 /\ 1 \in 1..n
      /\ Tail(queue) \in Seq(Call) /\ Len(Tail(queue)) = n - 1
      /\ \A i \in 1..n - 1 : Tail(queue)[i] = queue[i + 1]
  <2>1. n >= 1 /\ 1 \in 1..n
    BY <1>0, EmptySeq
  <2>2. c \in Call /\ w \in Workers
    BY <1>0, <2>1, Types
  <2> QED BY <1>0, <2>1, <2>2, HeadTailProperties
<1>2. CASE ~c.open
  <2>1. ServerGone /\ UNCHANGED <<appVars, app, sasldb, faults>> /\ faults \in 0..profile.faults
    BY <1>0, <1>1, <1>2 DEF Reply, TypeOK
  <2>2. Core'
    BY <2>1, ServerGoneKeeps
  <2>3. ASSUME NEW x \in Workers, job'[x].op = "reconcile", ~job'[x].missed,
               job'[x].since = faults', ~Listing(job'[x])
        PROVE  FALSE
    <3>1. job'[x] = IF At(x, "wait") THEN AfterError(job[x]) ELSE job[x]
      BY <2>1 DEF ServerGone
    <3>2. At(x, "wait") => (AfterError(job[x]).op = "reconcile" => AfterError(job[x]).missed)
      BY <1>0, ErrorType DEF Core, JobsOK, At
    <3>3. ~At(x, "wait") /\ job'[x] = job[x]
      BY <2>3, <3>1, <3>2
    <3> QED BY <1>0, <1>2, <2>1, <2>3, <3>3 DEF Inv, Swept
  <2>4. Swept'
    BY <2>3 DEF Swept
  <2> QED BY <2>2, <2>4 DEF Inv
<1>3. CASE c.open
  <2>1. /\ srv' = "idle" /\ result' = NoResult /\ queue' = Tail(queue)
        /\ job' = [job EXCEPT ![w] = k] /\ UNCHANGED <<appVars, app, sasldb, faults>>
    BY <1>0, <1>1, <1>3 DEF Reply, Start
  <2>2. /\ j \in JobType /\ JobOK(j) /\ j.step = "wait" /\ c.user = j.user
        /\ c.op = "set" <=> j.op \in SetOps
        /\ c.op = "list" <=> j.op = "reconcile" /\ j.user = NoUser
        /\ result \in [ok : BOOLEAN, users : SUBSET Users]
        /\ j.since \in Nat /\ j.since <= faults /\ c.op \in {"set", "delete", "list"}
    BY <1>0, <1>1, <1>3 DEF Core, CallsOK, JobsOK, TypeOK, Call, JobType
  <2>3. /\ k \in JobType /\ JobOK(k) /\ k.step # "wait"
        /\ k.locked => j.locked
        /\ k.op \in {j.op, "none"} /\ k.since \in {j.since, 0}
        /\ Taken(k) \subseteq Taken(j)
             \cup IF result.ok /\ j.op \in {"disable", "delete", "tick"} THEN {j.user} ELSE {}
        /\ k.op = "reconcile" /\ ~k.missed =>
             /\ result.ok /\ k.todo = j.todo \cup Stale(result.users) /\ k.step = "pick"
             /\ k.since = j.since /\ ~j.missed
    BY <1>0, <2>2, AnswerType
  <2> HIDE DEF k
  <2>4. job'[w] = k /\ \A x \in Workers : x # w => job'[x] = job[x]
    BY <1>0, <1>1, <2>1
  <2>5. /\ queue' \in Seq(Call) /\ Len(queue') = n - 1 /\ n - 1 \in Nat
        /\ \A i \in 1..n - 1 : i + 1 \in 1..n /\ queue'[i] = queue[i + 1]
                               /\ (queue[i + 1].open => queue[i + 1].worker # w)
    BY <1>0, <1>1, <1>3, <2>1 DEF TypeOK
  <2>6. TypeOK'
    <3>1. \A x, y \in Workers : job'[x].locked /\ job'[y].locked => x = y
      BY <1>0, <1>1, <2>3, <2>4 DEF TypeOK
    <3>2. job' \in [Workers -> JobType]
      BY <1>0, <2>1, <2>3
    <3>3. \A a, b \in 1..Len(queue') :
            queue'[a].open /\ queue'[b].open /\ queue'[a].worker = queue'[b].worker => a = b
      <4> SUFFICES ASSUME NEW a \in 1..n - 1, NEW b \in 1..n - 1,
                          queue[a + 1].open, queue[b + 1].open,
                          queue[a + 1].worker = queue[b + 1].worker
                   PROVE  a = b
        BY <2>5
      <4>1. a + 1 \in 1..n /\ b + 1 \in 1..n
        BY <2>5
      <4>2. a + 1 = b + 1
        BY <1>0, <4>1 DEF TypeOK
      <4> QED BY <4>2
    <3>4. NoResult \in [ok : BOOLEAN, users : SUBSET Users]
      BY DEF NoResult
    <3> QED BY <1>0, <2>1, <2>5, <3>1, <3>2, <3>3, <3>4 DEF TypeOK, JobType, appVars, sasldb
  <2>7. JobsOK'
    BY <1>0, <1>1, <2>1, <2>2, <2>3, <2>4 DEF Core, JobsOK
  <2>8. RolesOK'
    BY <1>0, <1>1, <2>1, <2>3, <2>4 DEF Core, RolesOK
  <2>9. CallsOK'
    <3> SUFFICES ASSUME NEW i \in 1..n - 1, queue[i + 1].open
                 PROVE  LET q == job'[queue[i + 1].worker] IN
                        /\ q.step = "wait" /\ queue[i + 1].user = q.user
                        /\ queue[i + 1].op = "set" <=> q.op \in SetOps
                        /\ queue[i + 1].op = "list" <=> q.op = "reconcile" /\ q.user = NoUser
      BY <2>5 DEF CallsOK
    <3>1. i + 1 \in 1..n /\ queue[i + 1].worker # w
      BY <2>5
    <3>2. job'[queue[i + 1].worker] = job[queue[i + 1].worker]
      BY <1>0, <2>4, <3>1, Types
    <3> QED BY <1>0, <3>1, <3>2 DEF Core, CallsOK
  <2>10. ServerOK'
    BY <2>1 DEF ServerOK
  <2>11. Single => n = 1 /\ queue' = <<>>
    <3>1. ASSUME Single PROVE n = 1
      <4>1. \A i \in 1..Len(queue) : queue[i].open => i = Len(queue)
        BY <1>0, <3>1 DEF Core, InTurn
      <4>2. queue[1].open => 1 = Len(queue)
        BY <1>1, <4>1, Zenon
      <4> QED BY <1>3, <4>2, Zenon
    <3>2. n = 1 => Len(queue') = 0
      BY <2>5
    <3>3. Len(queue') = 0 => queue' = <<>>
      BY <2>5, EmptySeq
    <3> QED BY <3>1, <3>2, <3>3
  <2>12. InTurn'
    <3>1. Single' <=> Single
      BY <2>1 DEF Single
    <3>2. ASSUME Single, NEW i \in 1..Len(queue') PROVE FALSE
      <4>1. Len(queue') = 0
        BY <2>5, <2>11, <3>2
      <4> QED BY <3>2, <4>1
    <3>3. Single => \A x, y \in Workers : job'[x].step # "idle" /\ job'[y].step # "idle" => x = y
      <4>1. ASSUME Single, NEW x \in Workers, x # w PROVE job[x].step = "idle"
        <5>1. \A y, z \in Workers : ~At(y, "idle") /\ ~At(z, "idle") => y = z
          BY <1>0, <4>1 DEF Core, InTurn
        <5>2. ~At(w, "idle")
          BY <2>2 DEF At
        <5> QED BY <1>1, <4>1, <5>1, <5>2 DEF At
      <4> QED BY <2>4, <4>1
    <3> QED BY <3>1, <3>2, <3>3 DEF InTurn, At
  <2>13. StayGone'
    <3> SUFFICES ASSUME ~profile.overlap
                 PROVE  /\ \A u \in revoked : Gone(u)'
                        /\ \A x \in Workers : \A u \in Taken(job'[x]) : Gone(u)'
      BY <2>1 DEF StayGone, appVars
    <3>1. queue' = <<>> /\ Len(queue') = 0
      BY <2>5, <2>11 DEF Single
    <3>2. \A u : live[u] = NoPassword /\ volume[u] = NoPassword => Gone(u)'
      BY <2>1, <3>1 DEF Gone, sasldb
    <3>3. ASSUME result.ok, j.op \in {"disable", "delete", "tick"}, NEW u, u = j.user
          PROVE  Gone(u)'
      <4>1. c.op = "delete" /\ u \in Users /\ c.user = u
        BY <2>2, <3>3, OpNames DEF JobOK
      <4>2. srv = "reply" /\ result.ok /\ c.op = "delete" =>
              \A x \in Users : c.user = x => live[x] = NoPassword /\ volume[x] = NoPassword
        BY <1>0 DEF Core, ServerOK
      <4>3. live[u] = NoPassword /\ volume[u] = NoPassword
        BY <1>0, <3>3, <4>1, <4>2
      <4> QED BY <3>2, <4>3
    <3>4. \A u \in Taken(j) : Gone(u)
      BY <1>0, <1>1 DEF Core, StayGone
    <3>5. ASSUME NEW u \in Taken(k) PROVE Gone(u)'
      <4>1. u \in Taken(j) => Gone(u)'
        BY <3>2, <3>4 DEF Gone
      <4>2. u \notin Taken(j) => u = j.user /\ result.ok /\ j.op \in {"disable", "delete", "tick"}
        <5>1. u \in Taken(j) \/ u \in IF result.ok /\ j.op \in {"disable", "delete", "tick"}
                                      THEN {j.user} ELSE {}
          BY <2>3, <3>5, Zenon
        <5> QED BY <5>1, Zenon
      <4> QED BY <3>3, <4>1, <4>2, Zenon
    <3>6. \A u \in revoked : Gone(u)'
      BY <1>0, <3>2 DEF Core, StayGone, Gone
    <3>7. ASSUME NEW x \in Workers, NEW u \in Taken(job'[x]) PROVE Gone(u)'
      BY <1>0, <2>4, <3>2, <3>5, <3>7 DEF Core, StayGone, Gone
    <3> QED BY <3>6, <3>7
  <2>14. Core'
    BY <2>6, <2>7, <2>8, <2>9, <2>10, <2>12, <2>13 DEF Core
  <2>15. CASE j.op # "reconcile"
    <3>1. ~At(w, "idle") /\ k.op # "reconcile"
      BY <2>2, <2>3, <2>15 DEF At
    <3> QED BY <1>0, <1>1, <2>1, <2>14, <2>15, <3>1, OthersSweep DEF Inv
  <2>16. CASE j.op = "reconcile"
    <3>1. ASSUME k.op = "reconcile", ~k.missed, k.since = faults'
          PROVE  \A u \in Users : live[u] # NoPassword => u \in Enabled \cup k.todo
      <4>1. CASE j.user = NoUser
        <5>1. \A u \in Users : live[u] # NoPassword => u \in result.users
          BY <1>0, <2>2, <2>3, <2>16, <3>1, <4>1 DEF Core, ServerOK
        <5> QED BY <2>3, <3>1, <5>1 DEF Stale
      <4>2. CASE j.user # NoUser
        <5>1. \A u \in Users : live[u] # NoPassword => u \in Enabled \cup j.todo \cup {j.user}
          BY <1>1, <2>1, <2>2, <2>3, <2>16, <3>1, <4>2 DEF Inv, Swept, Listing, Left
        <5>2. c.op = "delete"
          BY <2>2, <2>16, <4>2, OpNames
        <5>3. \A u \in Users : u = j.user => live[u] = NoPassword
          BY <1>0, <2>2, <2>3, <3>1, <5>2 DEF Core, ServerOK
        <5> QED BY <2>3, <3>1, <5>1, <5>3
      <4> QED BY <4>1, <4>2
    <3>2. queue' = <<>>
      BY <1>0, <1>1, <2>11, <2>16, Alone
    <3>3. srv' # "down" /\ live' = live /\ Enabled' = Enabled /\ k.todo \subseteq Left(k)
      BY <2>1 DEF Enabled, appVars, sasldb, Left
    <3> QED BY <1>0, <1>1, <2>1, <2>14, <2>16, <3>1, <3>2, <3>3, SweepMoves DEF Inv
  <2> QED BY <2>15, <2>16
<1> QED BY <1>2, <1>3

-----------------------------------------------------------------------------
LEMMA InvInit ==
  ASSUME Init PROVE Inv
<1>1. /\ job = [w \in Workers |-> Idle] /\ faults = 0 /\ queue = <<>> /\ srv = "idle"
      /\ result = NoResult /\ revoked = {} /\ barred = {} /\ fresh = 0
      /\ profile \in Profiles /\ app = "starting"
      /\ rows = [u \in Users |-> Absent]
      /\ live = [u \in Users |-> NoPassword] /\ volume = [u \in Users |-> NoPassword]
  BY DEF Init
<1>2. \A w \in Workers : job[w] = Idle
  BY <1>1
<1>3. queue \in Seq(Call) /\ Len(queue) = 0
  BY <1>1, EmptySeq
<1>4. profile.faults \in Nat /\ MaxPasswords \in Nat
  BY <1>1, BoundAssumption
<1>5. TypeOK
  <2>1. job \in [Workers -> JobType] /\ \A w, x \in Workers : job[w].locked /\ job[x].locked => w = x
    BY <1>1, <1>2, IdleType
  <2>2. \A i, j \in 1..Len(queue) :
          queue[i].open /\ queue[j].open /\ queue[i].worker = queue[j].worker => i = j
    BY <1>3
  <2>3. result \in [ok : BOOLEAN, users : SUBSET Users] /\ fresh \in 0..MaxPasswords
        /\ faults \in 0..profile.faults
    BY <1>1, <1>4 DEF NoResult
  <2>4. live \in [Users -> Passwords \cup {NoPassword}]
        /\ volume \in [Users -> Passwords \cup {NoPassword}]
    BY <1>1
  <2>5. rows \in [Users -> Row \cup {Absent}]
    BY <1>1
  <2> QED BY <1>1, <1>3, <2>1, <2>2, <2>3, <2>4, <2>5 DEF TypeOK, JobType
<1>6. JobsOK /\ RolesOK
  BY <1>1, <1>2, IdleType DEF JobsOK, RolesOK
<1>7. CallsOK /\ ServerOK
  BY <1>1, <1>3 DEF CallsOK, ServerOK
<1>8. InTurn /\ StayGone
  BY <1>1, <1>2, <1>3, IdleType DEF InTurn, StayGone, At
<1>9. Swept
  BY <1>2, IdleType DEF Swept
<1> QED BY <1>5, <1>6, <1>7, <1>8, <1>9 DEF Inv, Core

LEMMA InvNext ==
  ASSUME Inv, [Next]_vars PROVE Inv'
<1>1. CASE UNCHANGED vars
  <2>1. /\ job' = job /\ queue' = queue /\ srv' = srv /\ result' = result /\ rows' = rows
        /\ live' = live /\ volume' = volume /\ app' = app /\ faults' = faults
        /\ profile' = profile /\ revoked' = revoked /\ barred' = barred /\ fresh' = fresh
    BY <1>1 DEF vars, appVars, srvVars, sasldb
  <2>2. TypeOK' /\ JobsOK' /\ RolesOK' /\ CallsOK'
    BY <2>1 DEF Inv, Core, TypeOK, JobsOK, RolesOK, CallsOK
  <2>3. ServerOK' /\ InTurn'
    BY <2>1 DEF Inv, Core, ServerOK, InTurn, Single, At
  <2>4. \A u : Gone(u)' <=> Gone(u)
    BY <2>1 DEF Gone
  <2>5. StayGone'
    BY <2>1, <2>4 DEF Inv, Core, StayGone
  <2>6. Swept'
    BY <2>1 DEF Inv, Swept, Enabled
  <2> QED BY <2>2, <2>3, <2>5, <2>6 DEF Inv, Core
<1>2. CASE Next
  <2>1. UNCHANGED profile
    BY <1>2 DEF Next
  <2>2. CASE RunCommand
    BY <2>1, <2>2, RunCommandKeeps
  <2>3. CASE SyncVolume
    BY <2>1, <2>3, SyncVolumeKeeps
  <2>4. CASE Reply
    BY <2>1, <2>4, ReplyKeeps
  <2>5. CASE Boot
    BY <2>1, <2>5, BootKeeps
  <2>6. CASE ContainerStops
    BY <2>1, <2>6, ContainerStopsKeeps
  <2>7. CASE AppQuits
    BY <2>1, <2>7, AppQuitsKeeps
  <2>8. CASE Applied
    BY <2>1, <2>8, AppliedKeeps
  <2>9. ASSUME NEW w \in Workers, Work(w) PROVE Inv'
    BY <2>1, <2>9, FlushKeeps, PickKeeps, ConnectKeeps, CommitKeeps, BeginReconcileKeeps DEF Work
  <2>10. ASSUME NEW w \in Workers, BeginTick(w) \/ FlushBusy(w) \/ GiveUp(w) \/ CommitFails(w)
         PROVE  Inv'
    BY <2>1, <2>10, BeginTickKeeps, FlushBusyKeeps, GiveUpKeeps, CommitFailsKeeps
  <2>11. ASSUME NEW w \in Workers, NEW op \in RouteOps, NEW u \in Users, Load(w, op, u)
         PROVE  Inv'
    BY <2>1, <2>11, LoadKeeps
  <2> QED BY <1>2, <2>2, <2>3, <2>4, <2>5, <2>6, <2>7, <2>8, <2>9, <2>10, <2>11 DEF Next, Server
<1> QED BY <1>1, <1>2

-----------------------------------------------------------------------------
\* Every variable keeps its type, one thread at most holds the write lock, and
\* no thread has two calls waiting on the control socket.
THEOREM TypeCorrect == Spec => []TypeOK
<1>1. Inv => TypeOK
  BY DEF Inv, Core
<1> QED BY <1>1, InvInit, InvNext, PTL DEF Spec

\* After a committed disable or delete the user's credential is in neither
\* sasldb2 nor its copy until a new one is asked for (the routes of
\* local_users.py, the tick, _sasl_delete_user), with any failure, timeout or
\* restart in between, as long as jobs do not overlap.
THEOREM RevokedStayRevoked == Spec => []RevokedForGood
<1>1. Inv => RevokedForGood
  BY DEF Inv, Core, StayGone, Gone, RevokedForGood
<1> QED BY <1>1, InvInit, InvNext, PTL DEF Spec

\* A startup reconciliation none of whose calls failed, with nothing failing
\* meanwhile, ends with only enabled users in sasldb2 (reconcile_sasldb).
THEOREM ReconciliationCleans == Spec => []ReconcileCleans
<1>1. ASSUME Inv PROVE ReconcileCleans
  <2> SUFFICES ASSUME NEW w \in Workers, job[w].op = "reconcile", At(w, "pick"),
                      job[w].todo = {}, ~job[w].missed, job[w].since = faults
               PROVE  \A u \in Users : live[u] # NoPassword => u \in Enabled
    BY DEF ReconcileCleans
  <2>1. ~Listing(job[w]) /\ Left(job[w]) = {}
    BY DEF At, Listing, Left
  <2> QED BY <1>1, <2>1 DEF Inv, Swept
<1> QED BY <1>1, InvInit, InvNext, PTL DEF Spec

-----------------------------------------------------------------------------
(***************************************************************************)
(* The credential store agrees with the database.                          *)
(***************************************************************************)

\* What the two parts of AgreesWhenOrderly have in common.
Guarded == Orderly \/ LockedOnly

\* A job finds the rows as it needs them; where requests overlap, whoever calls
\* holds the write lock.
Fit(j) ==
  /\ j.op # RegenerateDisabled
  /\ j.locked => j.step # "idle"
  /\ j.op = "regenerate" => rows[j.user].enabled
  /\ j.op = "tick" => /\ j.todo \cup j.done \subseteq Enabled
                      /\ j.step \in {"call", "wait", "flush"} => j.user \in Enabled
  /\ j.op = "reconcile" => j.todo \cap Enabled = {} /\ j.user \notin Enabled
  /\ LockedOnly => /\ j.op \in {"none", "reconcile", "create", "disable", "enable"}
                   /\ j.step \in {"call", "wait", "commit"} /\ j.op # "reconcile" => j.locked

\* Nobody hangs up, and a call stores the password its job has generated.
Attended ==
  \A i \in 1..Len(queue) : queue[i].open /\ queue[i].pw = job[queue[i].worker].pw

\* The credentials a job has replaced before it commits, with what.
Replaced(j) == Taken(j) \cup IF j.step = "commit" /\ j.op \in SetOps THEN {j.user} ELSE {}
Given(j) == IF j.op \in SetOps THEN j.pw ELSE NoPassword

\* The first call has changed sasldb2, and its caller has not heard of it.
Wrote(u) ==
  /\ srv = "sync" \/ (srv = "reply" /\ result.ok /\ queue[1].op # "list")
  /\ queue[1].user = u
Value(call) == IF call.op = "set" THEN call.pw ELSE NoPassword

\* sasldb2 and its copy are the database's, but for what is being replaced.
Stored ==
  /\ \A w \in Workers : \A u \in Users : u \in Replaced(job[w]) => live[u] = Given(job[w])
  /\ \A u \in Users : Wrote(u) => live[u] = Value(queue[1])
  /\ \A u \in Users : ~Wrote(u) /\ (\A w \in Workers : u \notin Replaced(job[w])) =>
                         live[u] = Expected(u)
  /\ \A u \in Users : ~(srv = "sync" /\ queue[1].user = u) => volume[u] = live[u]

Agrees == Guarded => (\A w \in Workers : Fit(job[w])) /\ Attended /\ Stored

\* Before its call or waiting for it, after it, or going from user to user.
Engaged(j) == j.step # "idle" /\ (j.step = "flush" => j.op \in {"delete", "tick"})

LEMMA Harmless ==
  ASSUME Guarded
  PROVE  /\ profile.kinds \subseteq {"refuse", "restart", "busy"}
         /\ RegenerateDisabled \notin profile.ops
         /\ ~profile.overlap \/ LockedOnly
BY DEF Guarded, Orderly, LockedOnly, RegenerateDisabled

LEMMA OneEngaged ==
  ASSUME Core, Guarded, Agrees, NEW w \in Workers, NEW x \in Workers,
         Engaged(job[w]), Engaged(job[x])
  PROVE  w = x
<1>1. JobOK(job[w]) /\ JobOK(job[x]) /\ job[w] \in JobType /\ job[x] \in JobType
      /\ Fit(job[w]) /\ Fit(job[x])
  BY Types DEF Core, JobsOK, Agrees
<1>2. CASE ~profile.overlap
  BY <1>2 DEF Core, InTurn, Single, Engaged, At
<1>3. CASE job[w].op = "reconcile" \/ job[x].op = "reconcile"
  BY <1>3, Alone DEF Engaged
<1>4. CASE LockedOnly /\ job[w].op # "reconcile" /\ job[x].op # "reconcile"
  <2>1. ASSUME NEW j \in JobType, JobOK(j), Fit(j), Engaged(j), j.op # "reconcile"
        PROVE  j.locked
    <3>1. j.op \in {"create", "disable", "enable"}
      BY <1>4, <2>1 DEF Fit, JobOK, Engaged
    <3>2. j.step \notin {"flush", "pick", "list", "idle"}
      BY <2>1, <3>1 DEF JobOK, Engaged
    <3>3. j.step \in {"call", "wait", "commit"}
      BY <3>2 DEF JobType, Steps
    <3> QED BY <1>4, <2>1, <3>3 DEF Fit
  <2>2. job[w].locked /\ job[x].locked
    BY <1>1, <1>4, <2>1
  <2> QED BY <2>2 DEF Core, TypeOK
<1> QED BY <1>2, <1>3, <1>4, Harmless

\* Whose credential a job has replaced.
LEMMA ReplacedFacts ==
  ASSUME NEW j \in JobType, JobOK(j)
  PROVE  /\ Replaced(j) # {} => Engaged(j) /\ j.op # "reconcile"
         /\ j.step \in {"idle", "call", "list", "wait", "pick"} => Replaced(j) = j.done
         /\ j.step = "flush" /\ j.op \in FlushFirst => Replaced(j) = {}
         /\ j.step = "flush" /\ j.op \in {"delete", "tick"} => Replaced(j) = j.done \cup {j.user}
         /\ j.step = "commit" /\ j.op = "tick" => Replaced(j) = j.done
         /\ j.step = "commit" /\ j.op # "tick" => Replaced(j) = {j.user}
         /\ j.op # "tick" => j.done = {}
         /\ Replaced(j) \subseteq j.done \cup {j.user}
<1>1. j.op # "tick" => j.done = {}
  BY DEF JobOK
<1>2. j.step \in {"idle", "call", "list", "wait", "pick"} => Replaced(j) = j.done
  BY DEF Replaced, Taken
<1>3. j.step = "flush" /\ j.op \in FlushFirst => Replaced(j) = {}
  BY <1>1, OpNames DEF Replaced, Taken
<1>4. j.step = "flush" /\ j.op \in {"delete", "tick"} => Replaced(j) = j.done \cup {j.user}
  BY DEF Replaced, Taken
<1>5. j.step = "commit" /\ j.op = "tick" => Replaced(j) = j.done
  BY OpNames DEF Replaced, Taken
<1>6. j.step = "commit" /\ j.op # "tick" => Replaced(j) = {j.user}
  <2> SUFFICES ASSUME j.step = "commit", j.op # "tick" PROVE Replaced(j) = {j.user}
    OBVIOUS
  <2>1. j.done = {} /\ j.op \in SetOps \cup {"disable", "delete"}
    BY <1>1 DEF JobOK, RouteOps, FlushFirst
  <2>2. CASE j.op \in SetOps
    BY <2>1, <2>2, OpNames DEF Replaced, Taken
  <2>3. CASE j.op \in {"disable", "delete"}
    <3>1. Taken(j) = {j.user}
      BY <2>1, <2>3 DEF Taken
    <3>2. j.op \notin SetOps
      BY <2>3, OpNames
    <3> QED BY <3>1, <3>2 DEF Replaced
  <2> QED BY <2>1, <2>2, <2>3
<1>7. Replaced(j) \subseteq j.done \cup {j.user}
  BY DEF Replaced, Taken
<1>8. Replaced(j) # {} => Engaged(j) /\ j.op # "reconcile"
  <2>1. j.step \in Steps
    BY DEF JobType
  <2>2. j.done # {} => j.op = "tick" /\ j.step # "idle"
    BY <1>1 DEF JobOK
  <2>3. j.step = "flush" => j.op \in FlushFirst \cup {"delete", "tick"}
    BY DEF JobOK, RouteOps
  <2>4. j.op = "reconcile" => j.step \notin {"flush", "commit"}
    BY OpNames DEF JobOK
  <2> QED BY <1>2, <1>3, <2>1, <2>2, <2>3, <2>4 DEF Engaged, Steps
<1> QED BY <1>1, <1>2, <1>3, <1>4, <1>5, <1>6, <1>7, <1>8

\* There is one call at most, and who is waiting for it is known.
LEMMA TheCall ==
  ASSUME Core, Guarded, Agrees, queue # <<>>
  PROVE  LET c == queue[1] j == job[c.worker] IN
         /\ Len(queue) = 1 /\ c \in Call /\ c.worker \in Workers /\ c.open
         /\ j.step = "wait" /\ j \in JobType /\ JobOK(j) /\ Fit(j)
         /\ c.user = j.user /\ c.pw = j.pw
         /\ c.op = "set" <=> j.op \in SetOps
         /\ c.op = "list" <=> j.op = "reconcile" /\ j.user = NoUser
         /\ \A w \in Workers : Engaged(job[w]) => w = c.worker
         /\ Replaced(j) = j.done
<1>0. TypeOK
  BY DEF Core
<1>1. queue \in Seq(Call) /\ Len(queue) \in Nat /\ Len(queue) # 0
  BY <1>0, Types, EmptySeq
<1>2. \A i \in 1..Len(queue) :
        /\ queue[i] \in Call /\ queue[i].worker \in Workers
        /\ queue[i].open /\ queue[i].pw = job[queue[i].worker].pw
  BY <1>0, Types DEF Agrees, Attended
<1>3. \A i \in 1..Len(queue) : LET j == job[queue[i].worker] IN
        /\ j.step = "wait" /\ queue[i].user = j.user
        /\ queue[i].op = "set" <=> j.op \in SetOps
        /\ queue[i].op = "list" <=> j.op = "reconcile" /\ j.user = NoUser
  BY <1>2 DEF Core, CallsOK
<1>4. \A i \in 1..Len(queue) : Engaged(job[queue[i].worker])
  BY <1>3 DEF Engaged
<1>5. \A i, k \in 1..Len(queue) : i = k
  BY <1>0, <1>2, <1>4, OneEngaged DEF TypeOK
<1>6. Len(queue) = 1
  <2>1. 1 \in 1..Len(queue) /\ Len(queue) \in 1..Len(queue)
    BY <1>1
  <2> QED BY <1>5, <2>1
<1> DEFINE v == queue[1].worker
<1>7. 1 \in 1..Len(queue)
  BY <1>6
<1>8. v \in Workers /\ job[v].step = "wait" /\ job[v] \in JobType /\ JobOK(job[v]) /\ Fit(job[v])
  BY <1>0, <1>2, <1>3, <1>7, Types DEF Core, JobsOK, Agrees
<1>9. \A w \in Workers : Engaged(job[w]) => w = v
  BY <1>4, <1>7, <1>8, OneEngaged
<1>10. Replaced(job[v]) = job[v].done
  BY <1>8, ReplacedFacts
<1> QED BY <1>2, <1>3, <1>6, <1>7, <1>8, <1>9, <1>10

\* While somebody else is engaged there is no call.
LEMMA NoCall ==
  ASSUME Core, Guarded, Agrees, NEW w \in Workers, Engaged(job[w]), job[w].step # "wait"
  PROVE  queue = <<>>
<1>1. ASSUME queue # <<>> PROVE FALSE
  <2>1. w = queue[1].worker /\ job[queue[1].worker].step = "wait"
    BY <1>1, TheCall
  <2> QED BY <2>1
<1> QED BY <1>1

LEMMA NobodyWrote ==
  ASSUME Core, queue = <<>>
  PROVE  srv \notin {"sync", "reply"} /\ \A u : ~Wrote(u)
BY DEF Core, ServerOK, Wrote

-----------------------------------------------------------------------------
\* A step that changes neither the store nor the rows.
LEMMA StoredStays ==
  ASSUME Stored, UNCHANGED <<rows, sasldb>>,
         \/ UNCHANGED <<srv, result, queue>>
         \/ srv # "sync" /\ srv' # "sync" /\ \A u \in Users : ~Wrote(u) /\ ~Wrote(u)',
         \A w \in Workers : /\ Replaced(job'[w]) = Replaced(job[w])
                            /\ Replaced(job[w]) # {} => Given(job'[w]) = Given(job[w])
  PROVE  Stored'
<1>1. UNCHANGED <<rows, live, volume>> /\ \A u : Expected(u)' = Expected(u)
  BY DEF sasldb, Expected
<1>2. \A w \in Workers : \A u \in Users : u \in Replaced(job'[w]) => live'[u] = Given(job'[w])
  BY <1>1 DEF Stored
<1>3. \A u \in Users : Wrote(u)' => live'[u] = Value(queue'[1])
  BY <1>1 DEF Stored, Wrote
<1>4. \A u \in Users : ~Wrote(u)' /\ (\A w \in Workers : u \notin Replaced(job'[w])) =>
                         live'[u] = Expected(u)'
  BY <1>1 DEF Stored, Wrote
<1>5. \A u \in Users : ~(srv' = "sync" /\ queue'[1].user = u) => volume'[u] = live'[u]
  BY <1>1 DEF Stored
<1> QED BY <1>2, <1>3, <1>4, <1>5 DEF Stored

LEMMA FitStays ==
  ASSUME NEW j, Fit(j), UNCHANGED <<rows, profile>>
  PROVE  Fit(j)'
BY DEF Fit, Enabled, LockedOnly

LEMMA GuardStays ==
  ASSUME UNCHANGED profile PROVE Guarded' <=> Guarded
BY DEF Guarded, Orderly, LockedOnly

\* ... and moves one job on, that is not waiting for an answer.
LEMMA OneMoves ==
  ASSUME Core, Guarded, Agrees, NEW w \in Workers, NEW k, Start(w, k), job[w].step # "wait",
         UNCHANGED <<rows, sasldb, srv, result, queue, profile>>,
         Replaced(k) = Replaced(job[w]), Replaced(k) # {} => Given(k) = Given(job[w]), Fit(k)
  PROVE  Agrees'
<1>1. job'[w] = k /\ \A x \in Workers : x # w => job'[x] = job[x]
  BY DEF Start, Core, TypeOK
<1>2. ASSUME NEW x \in Workers PROVE Fit(job[x])'
  <2>1. CASE x = w
    BY <1>1, <2>1 DEF Fit, Enabled, LockedOnly
  <2>2. CASE x # w
    <3>1. Fit(job[x]) /\ job'[x] = job[x]
      BY <1>1, <2>2 DEF Agrees
    <3> QED BY <3>1 DEF Fit, Enabled, LockedOnly
  <2> QED BY <2>1, <2>2
<1>3. Attended'
  <2>1. \A i \in 1..Len(queue) : queue[i].worker \in Workers /\ queue[i].open
                                 /\ job[queue[i].worker].step = "wait"
    BY Types DEF Core, CallsOK, Agrees, Attended
  <2> QED BY <1>1, <2>1 DEF Agrees, Attended
<1>4. Stored'
  BY <1>1, StoredStays DEF Agrees
<1> QED BY <1>2, <1>3, <1>4 DEF Agrees

-----------------------------------------------------------------------------
LEMMA IdleFits == Fit(Idle) /\ Replaced(Idle) = {}
<1>1. Replaced(Idle) = {}
  BY IdleType, ReplacedFacts
<1>2. Idle.todo = {} /\ RegenerateDisabled # "none"
  BY DEF Idle, RegenerateDisabled
<1> QED BY <1>1, <1>2, IdleType DEF Fit

LEMMA IdleReplaced ==
  ASSUME Core, NEW w \in Workers, At(w, "idle")
  PROVE  Replaced(job[w]) = {}
<1>1. job[w] \in JobType /\ JobOK(job[w])
  BY Types DEF Core, JobsOK
<1> QED BY <1>1, ReplacedFacts DEF At, Engaged

LEMMA LoadAgrees ==
  ASSUME Inv, Guarded, Agrees, NEW w \in Workers, NEW op \in RouteOps, NEW u \in Users,
         Load(w, op, u), UNCHANGED profile
  PROVE  Agrees'
<1> DEFINE pw == IF op \in SetOps THEN fresh + 1 ELSE NoPassword
           j == [Idle EXCEPT !.op = op, !.user = u, !.pw = pw,
                             !.step = IF op \in FlushFirst THEN "flush" ELSE "call"]
<1>0. Core
  BY DEF Inv
<1>1. /\ Start(w, j) /\ At(w, "idle") /\ op \in profile.ops /\ Loadable(op, u)
      /\ UNCHANGED <<rows, srvVars, queue>>
  BY DEF Load
<1>2. /\ j.op = op /\ j.user = u /\ j.done = {} /\ ~j.locked
      /\ j.step = IF op \in FlushFirst THEN "flush" ELSE "call"
  BY DEF Idle
<1> HIDE DEF j
<1>3. op = "regenerate" => rows[u].enabled
  BY <1>1 DEF Loadable, RegenerateDisabled
<1>4. Fit(j)
  <2>1. op # RegenerateDisabled
    BY <1>1, Harmless
  <2>2. LockedOnly => op \in {"create", "disable", "enable"} /\ op \in FlushFirst
    BY <1>1 DEF LockedOnly, FlushFirst, SetOps
  <2> QED BY <1>2, <1>3, <2>1, <2>2, OpNames DEF Fit
<1>5. Replaced(j) = {}
  <2>1. j.step # "commit" /\ (j.step = "flush" => op \notin {"delete", "tick"})
    BY <1>2, OpNames
  <2> QED BY <1>2, <2>1 DEF Replaced, Taken
<1> QED BY <1>0, <1>1, <1>4, <1>5, IdleReplaced, OneMoves DEF At, srvVars

LEMMA BeginTickAgrees ==
  ASSUME Inv, Guarded, Agrees, NEW w \in Workers, BeginTick(w), UNCHANGED profile
  PROVE  Agrees'
<1>0. Core
  BY DEF Inv
<1>1. PICK c \in SUBSET Enabled \ {{}} :
        Start(w, [Idle EXCEPT !.op = "tick", !.step = "pick", !.todo = c])
  BY DEF BeginTick
<1> DEFINE j == [Idle EXCEPT !.op = "tick", !.step = "pick", !.todo = c]
<1>2. /\ Start(w, j) /\ At(w, "idle") /\ "tick" \in profile.ops
      /\ UNCHANGED <<rows, srvVars, queue>>
  BY <1>1 DEF BeginTick, appVars
<1>3. j.op = "tick" /\ j.step = "pick" /\ j.done = {} /\ ~j.locked /\ j.todo = c
  BY DEF Idle
<1> HIDE DEF j
<1>4. Fit(j)
  <2>1. ~LockedOnly
    BY <1>2 DEF LockedOnly
  <2> QED BY <1>1, <1>3, <2>1 DEF Fit, RegenerateDisabled
<1>5. Replaced(j) = {}
  BY <1>3 DEF Replaced, Taken
<1> QED BY <1>0, <1>2, <1>4, <1>5, IdleReplaced, OneMoves DEF At, srvVars

LEMMA BeginReconcileAgrees ==
  ASSUME Inv, Guarded, Agrees, NEW w \in Workers, BeginReconcile(w), UNCHANGED profile
  PROVE  Agrees'
<1> DEFINE j == [Idle EXCEPT !.op = "reconcile", !.step = "list", !.since = faults]
<1>0. Core
  BY DEF Inv
<1>1. Start(w, j) /\ At(w, "idle") /\ UNCHANGED <<rows, srvVars, queue>>
  BY DEF BeginReconcile, AllIdle, appVars
<1>2. /\ j.op = "reconcile" /\ j.step = "list" /\ j.done = {} /\ ~j.locked /\ j.todo = {}
      /\ j.user = NoUser
  BY DEF Idle
<1> HIDE DEF j
<1>3. Fit(j)
  BY <1>2, UsersAssumption DEF Fit, Enabled, RegenerateDisabled
<1>4. Replaced(j) = {}
  BY <1>2 DEF Replaced, Taken
<1> QED BY <1>0, <1>1, <1>3, <1>4, IdleReplaced, OneMoves DEF At, srvVars

LEMMA FlushAgrees ==
  ASSUME Inv, Guarded, Agrees, NEW w \in Workers, Flush(w), UNCHANGED profile
  PROVE  Agrees'
<1> DEFINE j == job[w]
           raises == CASE j.op = "create" -> Exists(j.user)
                       [] j.op = "delete" -> FALSE
                       [] OTHER -> ~Exists(j.user)
           to == CASE j.op = "delete" -> "commit" [] j.op = "tick" -> "pick" [] OTHER -> "call"
           on == [j EXCEPT !.step = to, !.locked = TRUE,
                           !.done = IF j.op = "tick" THEN @ \cup {j.user} ELSE @]
<1>0. Core /\ j \in JobType /\ JobOK(j) /\ Fit(j)
  BY Types DEF Inv, Core, JobsOK, Agrees
<1>a. j.step = "flush" /\ UNCHANGED <<rows, srvVars, queue>>
      /\ Start(w, IF raises THEN Idle ELSE on)
  BY DEF Flush, At, appVars
<1>1. j.step = "flush" /\ UNCHANGED <<rows, srvVars, queue>>
      /\ (raises => Start(w, Idle)) /\ (~raises => Start(w, on))
  <2> HIDE DEF raises, on
  <2> QED BY <1>a
<1>2. j.op \in FlushFirst \cup {"delete", "tick"}
  BY <1>0, <1>1 DEF JobOK, RouteOps
<1>3. /\ j.op = "delete" => to = "commit" /\ ~raises
      /\ j.op = "tick" => to = "pick" /\ (raises <=> ~Exists(j.user))
      /\ j.op \notin {"delete", "tick"} => to = "call"
  OBVIOUS
<1> HIDE DEF to, raises
<1>4. /\ on.op = j.op /\ on.user = j.user /\ on.pw = j.pw /\ on.step = to /\ on.locked
      /\ on.todo = j.todo
      /\ on.done = IF j.op = "tick" THEN j.done \cup {j.user} ELSE j.done
  BY <1>0 DEF JobType
<1> HIDE DEF on
<1>5. CASE raises
  <2>1. j.op # "tick"
    <3>1. ASSUME j.op = "tick" PROVE FALSE
      <4>1. rows[j.user] = Absent
        BY <1>3, <1>5, <3>1 DEF Exists
      <4>2. rows[j.user].enabled
        BY <1>0, <1>1, <3>1 DEF Fit, Enabled
      <4> QED BY <4>1, <4>2 DEF Absent
    <3> QED BY <3>1
  <2>2. Replaced(j) = {}
    BY <1>0, <1>1, <1>2, <1>3, <1>5, <2>1, ReplacedFacts
  <2>3. Start(w, Idle)
    BY <1>1, <1>5
  <2> QED BY <1>0, <1>1, <2>2, <2>3, IdleFits, OneMoves DEF srvVars
<1>6. CASE ~raises
  <2>1. Fit(on)
    <3>1. j.op = "reconcile" => FALSE
      BY <1>2, OpNames
    <3> QED BY <1>0, <1>1, <1>3, <1>4, <3>1 DEF Fit
  <2>2. Replaced(on) = Replaced(j)
    <3>1. CASE j.op = "tick"
      <4>1. Replaced(j) = j.done \cup {j.user}
        BY <1>0, <1>1, <3>1, ReplacedFacts
      <4>2. Replaced(on) = j.done \cup {j.user}
        BY <1>3, <1>4, <3>1, OpNames DEF Replaced, Taken
      <4> QED BY <4>1, <4>2
    <3>2. CASE j.op = "delete"
      <4>1. Replaced(j) = j.done \cup {j.user}
        BY <1>0, <1>1, <3>2, ReplacedFacts
      <4>2. Replaced(on) = j.done \cup {j.user}
        BY <1>3, <1>4, <3>2, OpNames DEF Replaced, Taken
      <4> QED BY <4>1, <4>2
    <3>3. CASE j.op \notin {"tick", "delete"}
      <4>1. Replaced(j) = {} /\ j.done = {}
        BY <1>0, <1>1, <1>2, <3>3, ReplacedFacts
      <4>2. Replaced(on) = j.done
        BY <1>3, <1>4, <3>3 DEF Replaced, Taken
      <4> QED BY <4>1, <4>2
    <3> QED BY <3>1, <3>2, <3>3
  <2>3. Given(on) = Given(j)
    BY <1>4 DEF Given
  <2>4. Start(w, on)
    BY <1>1, <1>6
  <2> QED BY <1>0, <1>1, <2>1, <2>2, <2>3, <2>4, OneMoves DEF srvVars
<1> QED BY <1>5, <1>6

\* The write lock is busy only for who has changed nothing yet.
LEMMA FlushBusyAgrees ==
  ASSUME Inv, Guarded, Agrees, NEW w \in Workers, FlushBusy(w), UNCHANGED profile
  PROVE  Agrees'
<1> DEFINE j == job[w]
<1>0. Core /\ j \in JobType /\ JobOK(j) /\ Fit(j)
  BY Types DEF Inv, Core, JobsOK, Agrees
<1>1. /\ j.step = "flush" /\ Start(w, Idle) /\ UNCHANGED <<rows, srvVars, queue>>
      /\ ~LockFree(w)
  BY DEF FlushBusy, At, appVars
<1>2. j.op \in FlushFirst
  <2>1. SUFFICES ASSUME j.op \in {"delete", "tick"} PROVE FALSE
    BY <1>0, <1>1 DEF JobOK, RouteOps
  <2>2. ~LockedOnly
    BY <1>0, <2>1 DEF Fit
  <2>3. PICK x \in Workers : x # w /\ job[x].locked
    BY <1>1 DEF LockFree
  <2>4. job[x].step # "idle"
    BY <2>3 DEF Agrees, Fit
  <2>5. ~profile.overlap
    BY <2>2, Harmless
  <2> QED BY <1>0, <1>1, <2>3, <2>4, <2>5 DEF Core, InTurn, Single, At
<1>3. Replaced(j) = {}
  BY <1>0, <1>1, <1>2, ReplacedFacts
<1> QED BY <1>0, <1>1, <1>3, IdleFits, OneMoves DEF srvVars

LEMMA PickAgrees ==
  ASSUME Inv, Guarded, Agrees, NEW w \in Workers, Pick(w), UNCHANGED profile
  PROVE  Agrees'
<1> DEFINE j == job[w]
<1>0. Core /\ j \in JobType /\ JobOK(j) /\ Fit(j)
  BY Types DEF Inv, Core, JobsOK, Agrees
<1>1. j.step = "pick" /\ j.op \in {"tick", "reconcile"} /\ UNCHANGED <<rows, srvVars, queue>>
  BY <1>0 DEF Pick, At, JobOK, appVars
<1>2. Replaced(j) = j.done /\ (j.op = "reconcile" => j.done = {})
  BY <1>0, <1>1, ReplacedFacts
<1>3. LockedOnly => j.op = "reconcile"
  BY <1>0, <1>1 DEF Fit
<1>4. ASSUME NEW u \in j.todo,
             Start(w, [j EXCEPT !.step = "call", !.user = u, !.todo = @ \ {u}])
      PROVE  Agrees'
  <2> DEFINE k == [j EXCEPT !.step = "call", !.user = u, !.todo = @ \ {u}]
  <2>1. /\ k.op = j.op /\ k.pw = j.pw /\ k.user = u /\ k.step = "call" /\ k.todo = j.todo \ {u}
        /\ k.done = j.done /\ k.locked = j.locked
    BY <1>0 DEF JobType
  <2>2. Start(w, k)
    BY <1>4
  <2> HIDE DEF k
  <2>3. Fit(k)
    BY <1>0, <1>1, <1>3, <1>4, <2>1 DEF Fit
  <2>4. Replaced(k) = j.done /\ Given(k) = Given(j)
    BY <2>1 DEF Replaced, Taken, Given
  <2> QED BY <1>0, <1>1, <1>2, <2>2, <2>3, <2>4, OneMoves DEF srvVars
<1>5. ASSUME j.op = "tick", Start(w, [j EXCEPT !.step = "commit"]) PROVE Agrees'
  <2> DEFINE k == [j EXCEPT !.step = "commit"]
  <2>1. /\ k.op = "tick" /\ k.pw = j.pw /\ k.user = j.user /\ k.step = "commit"
        /\ k.done = j.done /\ k.locked = j.locked /\ k.todo = j.todo
    BY <1>0, <1>5 DEF JobType
  <2>2. Start(w, k)
    BY <1>5
  <2> HIDE DEF k
  <2>3. Fit(k)
    BY <1>0, <1>1, <1>3, <1>5, <2>1 DEF Fit
  <2>4. Replaced(k) = j.done
    BY <2>1, OpNames DEF Replaced, Taken
  <2>5. Given(k) = Given(j)
    BY <1>5, <2>1 DEF Given
  <2> QED BY <1>0, <1>1, <1>2, <2>2, <2>3, <2>4, <2>5, OneMoves DEF srvVars
<1>6. ASSUME j.op = "reconcile", Start(w, Idle) PROVE Agrees'
  BY <1>0, <1>1, <1>2, <1>6, IdleFits, OneMoves DEF srvVars
<1> QED BY <1>1, <1>4, <1>5, <1>6 DEF Pick

LEMMA ErrorFits ==
  ASSUME NEW j \in JobType, JobOK(j), Fit(j), j.step \in {"call", "list", "wait"}
  PROVE  /\ Fit(AfterError(j)) /\ Replaced(AfterError(j)) = Replaced(j)
         /\ Replaced(j) # {} => Given(AfterError(j)) = Given(j)
<1> DEFINE e == AfterError(j)
<1>1. Replaced(j) = j.done /\ (j.op # "tick" => j.done = {})
  BY ReplacedFacts
<1>2. CASE j.op \in RouteOps
  <2>1. e = Idle
    BY <1>2, OpNames, Zenon DEF AfterError
  <2>2. Replaced(j) = {}
    BY <1>1, <1>2, OpNames
  <2> QED BY <2>1, <2>2, IdleFits
<1>3. CASE j.op = "tick"
  <2>1. e = [j EXCEPT !.step = "pick"]
    BY <1>3, OpNames, Zenon DEF AfterError
  <2>2. /\ e.op = j.op /\ e.step = "pick" /\ e.user = j.user /\ e.todo = j.todo
        /\ e.done = j.done /\ e.locked = j.locked /\ e.pw = j.pw
    BY <2>1 DEF JobType
  <2> HIDE DEF e
  <2>3. Fit(e)
    BY <1>3, <2>2 DEF Fit
  <2>4. Replaced(e) = j.done /\ Given(e) = Given(j)
    BY <2>2 DEF Replaced, Taken, Given
  <2> QED BY <1>1, <2>3, <2>4 DEF e
<1>4. CASE j.op \notin RouteOps /\ j.op # "tick"
  <2>1. e = [j EXCEPT !.step = "pick", !.missed = TRUE]
    BY <1>4, Zenon DEF AfterError
  <2>2. /\ e.op = j.op /\ e.step = "pick" /\ e.user = j.user /\ e.todo = j.todo
        /\ e.done = j.done /\ e.locked = j.locked /\ e.pw = j.pw
    BY <2>1 DEF JobType
  <2> HIDE DEF e
  <2>3. Fit(e)
    BY <1>4, <2>2 DEF Fit
  <2>4. Replaced(e) = j.done /\ Given(e) = Given(j)
    BY <2>2 DEF Replaced, Taken, Given
  <2> QED BY <1>1, <2>3, <2>4 DEF e
<1> QED BY <1>2, <1>3, <1>4

LEMMA ConnectAgrees ==
  ASSUME Inv, Guarded, Agrees, NEW w \in Workers, Connect(w), UNCHANGED profile
  PROVE  Agrees'
<1> DEFINE j == job[w]
           c == [worker |-> w, op |-> RpcOp(j), user |-> j.user, pw |-> j.pw, open |-> TRUE]
           k == [j EXCEPT !.step = "wait"]
<1>0. Core /\ TypeOK /\ j \in JobType /\ JobOK(j) /\ Fit(j)
  BY Types DEF Inv, Core, JobsOK, Agrees
<1>1. j.step \in {"call", "list"} /\ UNCHANGED <<rows, srvVars>>
  BY DEF Connect, At
<1>2. CASE srv = "down"
  <2>1. Start(w, AfterError(j)) /\ UNCHANGED queue
    BY <1>2 DEF Connect
  <2> QED BY <1>0, <1>1, <2>1, ErrorFits, OneMoves DEF srvVars
<1>3. CASE srv # "down"
  <2>1. queue = <<>>
    BY <1>0, <1>1, NoCall DEF Engaged
  <2>2. queue' = Append(queue, c) /\ Start(w, k)
    BY <1>3 DEF Connect
  <2>3. Len(queue') = 1 /\ queue'[1] = c
    BY <2>1, <2>2
  <2>4. c.worker = w /\ c.open /\ c.pw = j.pw
    OBVIOUS
  <2>5. /\ k.op = j.op /\ k.step = "wait" /\ k.user = j.user /\ k.todo = j.todo
        /\ k.done = j.done /\ k.locked = j.locked /\ k.pw = j.pw
    BY <1>0 DEF JobType
  <2> HIDE DEF c, k
  <2>6. job'[w] = k /\ \A x \in Workers : x # w => job'[x] = job[x]
    BY <1>0, <2>2 DEF Start, TypeOK
  <2>7. Replaced(k) = j.done /\ Replaced(j) = j.done /\ Given(k) = Given(j)
    BY <1>0, <1>1, <2>5, ReplacedFacts DEF Replaced, Taken, Given
  <2>8. srv \notin {"sync", "reply"} /\ \A u : ~Wrote(u)
    BY <1>0, <2>1, NobodyWrote
  <2>9. Stored'
    <3>1. srv' # "sync" /\ \A u : ~Wrote(u)'
      BY <1>1, <2>8 DEF Wrote, srvVars
    <3>2. \A x \in Workers : /\ Replaced(job'[x]) = Replaced(job[x])
                             /\ Replaced(job[x]) # {} => Given(job'[x]) = Given(job[x])
      BY <2>6, <2>7
    <3> QED BY <1>1, <2>8, <3>1, <3>2, StoredStays DEF Agrees, srvVars
  <2>10. ASSUME NEW x \in Workers PROVE Fit(job[x])'
    <3>1. CASE x = w
      <4>1. /\ j.op = "reconcile" => j.user \notin Enabled
            /\ j.op = "tick" => j.user \in Enabled
            /\ LockedOnly /\ j.op # "reconcile" => j.locked
        BY <1>0, <1>1 DEF Fit, JobOK
      <4>2. Fit(k)
        BY <1>0, <1>1, <2>5, <4>1 DEF Fit
      <4> QED BY <1>1, <2>6, <3>1, <4>2 DEF Fit, Enabled, LockedOnly
    <3>2. CASE x # w
      <4>1. Fit(job[x]) /\ job'[x] = job[x]
        BY <2>6, <3>2 DEF Agrees
      <4> QED BY <1>1, <4>1 DEF Fit, Enabled, LockedOnly
    <3> QED BY <3>1, <3>2
  <2>11. Attended'
    BY <2>3, <2>4, <2>5, <2>6 DEF Attended
  <2> QED BY <2>9, <2>10, <2>11 DEF Agrees
<1> QED BY <1>2, <1>3

\* A commit makes the rows say what the job has put into sasldb2.
LEMMA CommittedIs ==
  ASSUME Inv, NEW w \in Workers, At(w, "commit"), Fit(job[w]), NEW u \in Users
  PROVE  LET row == Committed(job[w])[u] IN
         /\ u \notin Replaced(job[w]) => row = rows[u]
         /\ u \in Replaced(job[w]) =>
              (IF row.enabled THEN row.hash ELSE NoPassword) = Given(job[w])
<1> DEFINE j == job[w]
<1>0. /\ j \in JobType /\ JobOK(j) /\ rows \in [Users -> Row \cup {Absent}]
      /\ j.step = "commit" /\ j.op # RegenerateDisabled
      /\ (j.op = "regenerate" => rows[j.user].enabled)
  BY Types DEF Inv, Core, JobsOK, TypeOK, At, Fit
<1>1. /\ j.op = "tick" => Replaced(j) = j.done
      /\ j.op # "tick" => Replaced(j) = {j.user}
  BY <1>0, ReplacedFacts
<1>2. \A r \in Row \cup {Absent} :
        /\ [r EXCEPT !.enabled = FALSE].enabled = FALSE
        /\ \A p : [r EXCEPT !.hash = p].enabled = r.enabled /\ [r EXCEPT !.hash = p].hash = p
  BY DEF Row, Absent
<1> HIDE DEF j
<1>3. CASE j.op \in {"create", "enable"}
  <2>1. Committed(j) = [rows EXCEPT ![j.user] = [enabled |-> TRUE, hash |-> j.pw]]
    BY <1>3, Zenon DEF Committed, RegenerateDisabled
  <2>2. Given(j) = j.pw
    BY <1>3 DEF Given, SetOps
  <2> QED BY <1>0, <1>1, <1>3, <2>1, <2>2 DEF j
<1>4. CASE j.op = "regenerate"
  <2>1. Committed(j) = [rows EXCEPT ![j.user].hash = j.pw]
    BY <1>4, Zenon DEF Committed, RegenerateDisabled
  <2>2. Given(j) = j.pw
    BY <1>4 DEF Given, SetOps
  <2>3. u # j.user => Committed(j)[u] = rows[u]
    BY <1>0, <2>1
  <2>4. u = j.user => Committed(j)[u] = [rows[u] EXCEPT !.hash = j.pw] /\ rows[u].enabled
    BY <1>0, <1>4, <2>1 DEF j
  <2>5. u = j.user => Committed(j)[u].enabled = rows[u].enabled /\ Committed(j)[u].hash = j.pw
    <3>1. rows[u] \in Row \cup {Absent}
      BY <1>0
    <3>2. /\ [rows[u] EXCEPT !.hash = j.pw].enabled = rows[u].enabled
          /\ [rows[u] EXCEPT !.hash = j.pw].hash = j.pw
      BY <1>2, <3>1, Zenon
    <3> QED BY <2>4, <3>2, Zenon
  <2>6. u = j.user => Committed(j)[u].enabled
    BY <2>4, <2>5, Zenon
  <2> QED BY <1>1, <1>4, <2>2, <2>3, <2>5, <2>6 DEF j
<1>5. CASE j.op = "disable"
  <2>1. Committed(j) = [rows EXCEPT ![j.user].enabled = FALSE]
    BY <1>5, Zenon DEF Committed, RegenerateDisabled
  <2>2. Given(j) = NoPassword
    BY <1>5, OpNames DEF Given
  <2>3. u # j.user => Committed(j)[u] = rows[u]
    BY <1>0, <2>1
  <2>4. u = j.user => Committed(j)[u] = [rows[u] EXCEPT !.enabled = FALSE]
    BY <1>0, <2>1
  <2> QED BY <1>0, <1>1, <1>2, <1>5, <2>2, <2>3, <2>4 DEF j
<1>6. CASE j.op = "delete"
  <2>1. Committed(j) = [rows EXCEPT ![j.user] = Absent]
    BY <1>6, Zenon DEF Committed, RegenerateDisabled
  <2>2. Given(j) = NoPassword
    BY <1>6, OpNames DEF Given
  <2> QED BY <1>0, <1>1, <1>6, <2>1, <2>2 DEF j, Absent
<1>7. CASE j.op = "tick"
  <2>1. Committed(j) = [v \in Users |-> IF v \in j.done THEN [rows[v] EXCEPT !.enabled = FALSE]
                                                       ELSE rows[v]]
    BY <1>7, Zenon DEF Committed, RegenerateDisabled
  <2>2. Given(j) = NoPassword
    BY <1>7, OpNames DEF Given
  <2> QED BY <1>0, <1>1, <1>2, <1>7, <2>1, <2>2 DEF j
<1> QED BY <1>0, <1>3, <1>4, <1>5, <1>6, <1>7 DEF JobOK, RouteOps, FlushFirst, SetOps, j

LEMMA CommitAgrees ==
  ASSUME Inv, Guarded, Agrees, NEW w \in Workers, Commit(w), UNCHANGED profile
  PROVE  Agrees'
<1> DEFINE j == job[w]
<1>0. Core /\ TypeOK /\ j \in JobType /\ JobOK(j) /\ Fit(j)
  BY Types DEF Inv, Core, JobsOK, Agrees
<1>1. /\ j.step = "commit" /\ At(w, "commit") /\ rows' = Committed(j)
      /\ job' = [job EXCEPT ![w] = Idle] /\ UNCHANGED <<srvVars, queue>>
  BY DEF Commit, Start, At
<1>2. job'[w] = Idle /\ \A x \in Workers : x # w => job'[x] = job[x]
  BY <1>0, <1>1 DEF TypeOK
<1>3. Engaged(j) /\ \A x \in Workers : Engaged(job[x]) => x = w
  BY <1>0, <1>1, OneEngaged DEF Engaged
<1>4. queue = <<>> /\ Len(queue) = 0
  BY <1>0, <1>1, <1>3, NoCall
<1>5. srv \notin {"sync", "reply"}
  BY <1>0, <1>4, NobodyWrote
<1>6. ASSUME NEW x \in Workers PROVE Fit(job[x])' /\ Replaced(job'[x]) = {}
  <2>1. CASE x = w
    <3>1. Fit(Idle) /\ Idle.op = "none" /\ ~Idle.locked
      BY IdleFits, IdleType
    <3>2. Fit(job[x])'
      BY <1>2, <2>1, <3>1 DEF Fit, Enabled, LockedOnly, RegenerateDisabled
    <3> QED BY <1>2, <2>1, <3>2, IdleFits
  <2>2. CASE x # w
    <3>1. job[x] \in JobType /\ JobOK(job[x]) /\ Fit(job[x]) /\ job'[x] = job[x]
          /\ ~Engaged(job[x])
      BY <1>0, <1>2, <1>3, <2>2, Types DEF Core, JobsOK, Agrees
    <3>2. job[x].op \notin {"tick", "reconcile"}
      BY <3>1, OpNames DEF Engaged, JobOK
    <3>3. job[x].op # "regenerate"
      <4>1. ASSUME job[x].op = "regenerate" PROVE FALSE
        <5>1. ~LockedOnly
          BY <3>1, <4>1 DEF Fit
        <5>2. ~At(x, "idle") /\ ~At(w, "idle")
          BY <1>1, <3>1, <4>1 DEF JobOK, At
        <5> QED BY <1>0, <2>2, <5>1, <5>2, Harmless DEF Core, InTurn, Single
      <4> QED BY <4>1
    <3>4. Fit(job[x])'
      BY <3>1, <3>2, <3>3 DEF Fit, LockedOnly
    <3> QED BY <3>1, <3>4, ReplacedFacts
  <2> QED BY <2>1, <2>2
<1>7. Stored'
  <2>1. ASSUME NEW u \in Users PROVE live[u] = Expected(u)'
    <3>1. \A x \in Workers : x # w => Replaced(job[x]) = {}
      <4>1. \A x \in Workers : job[x] \in JobType /\ JobOK(job[x])
        BY <1>0, Types DEF Core, JobsOK
      <4> QED BY <1>3, <4>1, ReplacedFacts
    <3>2. ~Wrote(u)
      BY <1>0, <1>4, NobodyWrote
    <3>3. CASE u \in Replaced(j)
      <4>1. live[u] = Given(j)
        BY <3>3 DEF Agrees, Stored
      <4> QED BY <1>0, <1>1, <3>3, <4>1, CommittedIs DEF Expected
    <3>4. CASE u \notin Replaced(j)
      <4>1. live[u] = Expected(u)
        BY <3>1, <3>2, <3>4 DEF Agrees, Stored
      <4>2. Committed(j)[u] = rows[u]
        BY <1>0, <1>1, <3>4, CommittedIs
      <4> QED BY <1>1, <4>1, <4>2 DEF Expected
    <3> QED BY <3>3, <3>4
  <2>2. \A u \in Users : live'[u] = Expected(u)' /\ ~Wrote(u)' /\ volume'[u] = live'[u]
    <3>1. \A u \in Users : live'[u] = Expected(u)'
      BY <1>1, <2>1 DEF srvVars, sasldb
    <3> QED BY <1>1, <1>5, <3>1 DEF Agrees, Stored, Wrote, srvVars, sasldb
  <2> QED BY <1>6, <2>2 DEF Stored
<1>8. Attended'
  BY <1>1, <1>4 DEF Attended
<1> QED BY <1>6, <1>7, <1>8 DEF Agrees

-----------------------------------------------------------------------------
\* A step of the control surface that no job hears of.
LEMMA Unheard ==
  ASSUME Guarded, Agrees, UNCHANGED <<job, queue, rows, profile>>, Stored'
  PROVE  Agrees'
<1>1. ASSUME NEW w \in Workers PROVE Fit(job[w])'
  BY DEF Agrees, Fit, Enabled, LockedOnly
<1>2. Attended'
  BY DEF Agrees, Attended
<1> QED BY <1>1, <1>2 DEF Agrees

LEMMA RunCommandAgrees ==
  ASSUME Inv, Guarded, Agrees, RunCommand, UNCHANGED profile
  PROVE  Agrees'
<1> DEFINE c == queue[1]
           j == job[c.worker]
<1>0. Core /\ TypeOK /\ live \in [Users -> Passwords \cup {NoPassword}]
  BY DEF Inv, Core, TypeOK
<1>1. /\ srv = "idle" /\ queue # <<>> /\ Head(queue) = c
      /\ UNCHANGED <<job, queue, rows, volume>> /\ \A u : ~Wrote(u)
  BY DEF RunCommand, appVars, Wrote
<1>2. /\ c \in Call /\ j \in JobType /\ JobOK(j) /\ (c.op = "set" <=> j.op \in SetOps)
      /\ c.op # "list" => c.op \in {"set", "delete"}
      /\ \A w \in Workers : Engaged(job[w]) => job[w] = j
  BY <1>0, <1>1, TheCall DEF Call
<1>3. ASSUME live' = live, srv' = "reply", c.op = "list" \/ ~result'.ok
      PROVE  Agrees'
  <2>1. \A u : ~Wrote(u)'
    BY <1>1, <1>3 DEF Wrote
  <2>2. Stored'
    BY <1>1, <1>3, <2>1, StoredStays DEF Agrees, sasldb
  <2> QED BY <1>1, <2>2, Unheard
<1>4. ASSUME c.op # "list", live' = Written(c), srv' = "sync"
      PROVE  Agrees'
  <2>1. /\ \A u \in Users : u # c.user => live'[u] = live[u]
        /\ \A u \in Users : u = c.user => live'[u] = Value(c)
    BY <1>0, <1>4 DEF Written, Value
  <2>2. \A u : Wrote(u)' <=> c.user = u
    BY <1>1, <1>4 DEF Wrote
  <2>3. ASSUME NEW w \in Workers, NEW u \in Users, u \in Replaced(job'[w])
        PROVE  live'[u] = Given(job'[w])
    <3>1. job[w] \in JobType /\ JobOK(job[w]) /\ job'[w] = job[w]
      BY <1>0, <1>1, Types DEF Core, JobsOK
    <3>2. job[w] = j /\ u \in Replaced(j) /\ Replaced(j) = j.done
      BY <1>0, <1>1, <1>2, <2>3, <3>1, ReplacedFacts, TheCall
    <3>3. live[u] = Given(j)
      BY <2>3, <3>1, <3>2 DEF Agrees, Stored
    <3>4. j.op = "tick" /\ j.op \notin SetOps
      BY <1>2, <3>2, OpNames DEF JobOK
    <3>5. Given(j) = NoPassword /\ Value(c) = NoPassword
      BY <1>2, <3>4 DEF Given, Value
    <3> QED BY <2>1, <3>1, <3>2, <3>3, <3>5
  <2>4. \A u \in Users : Wrote(u)' => live'[u] = Value(queue'[1])
    BY <1>1, <2>1, <2>2
  <2>5. ASSUME NEW u \in Users, ~Wrote(u)', \A w \in Workers : u \notin Replaced(job'[w])
        PROVE  live'[u] = Expected(u)'
    <3>1. live[u] = Expected(u)
      BY <1>1, <2>5 DEF Agrees, Stored
    <3> QED BY <1>1, <2>1, <2>2, <2>5, <3>1 DEF Expected
  <2>6. \A u \in Users : ~(srv' = "sync" /\ queue'[1].user = u) => volume'[u] = live'[u]
    BY <1>1, <1>4, <2>1 DEF Agrees, Stored
  <2>7. Stored'
    BY <2>3, <2>4, <2>5, <2>6 DEF Stored
  <2> QED BY <1>1, <2>7, Unheard
<1>5. ~Fault("slow")
  BY Harmless DEF Fault
<1> QED BY <1>1, <1>3, <1>4, <1>5 DEF RunCommand, Answer, ToSync

LEMMA SyncVolumeAgrees ==
  ASSUME Inv, Guarded, Agrees, SyncVolume, UNCHANGED profile
  PROVE  Agrees'
<1>1. ~Fault("sync")
  BY Harmless DEF Fault
<1>2. /\ volume' = live /\ srv = "sync" /\ srv' = "reply" /\ result'.ok
      /\ UNCHANGED <<job, queue, rows, live>>
  BY <1>1 DEF SyncVolume, Answer, appVars
<1>3. queue[1].op # "list"
  BY <1>2 DEF Inv, Core, ServerOK
<1>4. \A u : Wrote(u)' <=> Wrote(u)
  BY <1>2, <1>3 DEF Wrote
<1>5. \A u : Expected(u)' = Expected(u)
  BY <1>2 DEF Expected
<1>6. Stored'
  BY <1>2, <1>4, <1>5 DEF Agrees, Stored
<1> QED BY <1>2, <1>6, Unheard

LEMMA BootAgrees ==
  ASSUME Inv, Guarded, Agrees, Boot, UNCHANGED profile
  PROVE  Agrees'
<1>1. /\ live' = volume /\ volume' = volume /\ srv = "down" /\ srv' = "idle"
      /\ UNCHANGED <<job, queue, rows>>
  BY DEF Boot, appVars
<1>2. live' = live
  <2>1. \A u \in Users : volume[u] = live[u]
    BY <1>1 DEF Agrees, Stored
  <2>2. live \in [Users -> Passwords \cup {NoPassword}]
        /\ volume \in [Users -> Passwords \cup {NoPassword}]
    BY DEF Inv, Core, TypeOK
  <2> QED BY <1>1, <2>1, <2>2
<1>3. \A u : ~Wrote(u) /\ ~Wrote(u)'
  BY <1>1 DEF Wrote
<1>4. Stored'
  BY <1>1, <1>2, <1>3, StoredStays DEF Agrees, sasldb
<1> QED BY <1>1, <1>4, Unheard

LEMMA AppliedAgrees ==
  ASSUME Inv, Guarded, Agrees, Applied, UNCHANGED profile
  PROVE  Agrees'
<1>1. UNCHANGED <<job, queue, rows, sasldb, srv, result>>
  BY DEF Applied, srvVars
<1>2. Stored'
  BY <1>1, StoredStays DEF Agrees
<1> QED BY <1>1, <1>2, Unheard

LEMMA ContainerStopsAgrees ==
  ASSUME Inv, Guarded, Agrees, ContainerStops, UNCHANGED profile
  PROVE  Agrees'
<1>0. Core /\ TypeOK /\ job \in [Workers -> JobType] /\ \A w \in Workers : JobOK(job[w])
  BY Types DEF Inv, Core, JobsOK
<1>1. ~Fault("halt")
  BY Harmless DEF Fault
<1>2. queue = <<>> /\ srv' = "down" /\ queue' = <<>> /\ UNCHANGED <<rows, sasldb>>
      /\ job' = [w \in Workers |-> IF At(w, "wait") THEN AfterError(job[w]) ELSE job[w]]
  BY <1>1 DEF ContainerStops, ServerGone, appVars
<1>3. ASSUME NEW w \in Workers
      PROVE  /\ Fit(job[w])'
             /\ Replaced(job'[w]) = Replaced(job[w])
             /\ Replaced(job[w]) # {} => Given(job'[w]) = Given(job[w])
  <2>0. Fit(job[w])
    BY DEF Agrees
  <2>1. CASE At(w, "wait")
    <3>1. job'[w] = AfterError(job[w])
      BY <1>2, <2>1
    <3>2. /\ Fit(AfterError(job[w])) /\ Replaced(AfterError(job[w])) = Replaced(job[w])
          /\ Replaced(job[w]) # {} => Given(AfterError(job[w])) = Given(job[w])
      BY <1>0, <2>0, <2>1, ErrorFits DEF At
    <3>3. Fit(job[w])'
      BY <1>2, <3>1, <3>2 DEF Fit, Enabled, LockedOnly
    <3> QED BY <3>1, <3>2, <3>3
  <2>2. CASE ~At(w, "wait")
    <3>1. job'[w] = job[w]
      BY <1>2, <2>2
    <3>2. Fit(job[w])'
      BY <1>2, <2>0, <3>1 DEF Fit, Enabled, LockedOnly
    <3> QED BY <3>1, <3>2
  <2> QED BY <2>1, <2>2
<1>4. srv \notin {"sync", "reply"} /\ \A u : ~Wrote(u) /\ ~Wrote(u)'
  <2>1. \A u : ~Wrote(u)'
    BY <1>2 DEF Wrote
  <2> QED BY <1>0, <1>2, <2>1, NobodyWrote
<1>5. Stored'
  BY <1>2, <1>3, <1>4, StoredStays DEF Agrees
<1>6. Attended'
  <2>1. Len(queue') = 0
    BY <1>2
  <2> QED BY <2>1 DEF Attended
<1> QED BY <1>3, <1>5, <1>6 DEF Agrees

\* Who is answered well has replaced the credential of the call.
LEMMA AnswerFits ==
  ASSUME TypeOK, NEW j \in JobType, JobOK(j), Fit(j), j.step = "wait",
         NEW res \in [ok : BOOLEAN, users : SUBSET Users], res.ok
  PROVE  LET k == AfterAnswer(j, res) IN
         /\ Fit(k) /\ k.op = j.op /\ k.pw = j.pw
         /\ Replaced(k) = j.done \cup IF j.op = "reconcile" THEN {} ELSE {j.user}
<1> DEFINE k == AfterAnswer(j, res)
<1>0. k \in JobType /\ JobOK(k)
  BY AnswerType
<1>1. CASE j.op \in FlushFirst
  <2>1. k = [j EXCEPT !.step = "commit"]
    BY <1>1, OpNames, Zenon DEF AfterAnswer
  <2>2. /\ k.op = j.op /\ k.pw = j.pw /\ k.user = j.user /\ k.step = "commit"
        /\ k.done = j.done /\ k.locked = j.locked /\ k.todo = j.todo
    BY <2>1 DEF JobType
  <2> HIDE DEF k
  <2>3. j.op \notin {"tick", "reconcile"}
    BY <1>1, OpNames
  <2>4. Fit(k)
    BY <2>2, <2>3 DEF Fit
  <2>5. Replaced(k) = {j.user} /\ j.done = {}
    BY <1>0, <2>2, <2>3, ReplacedFacts
  <2> QED BY <2>2, <2>3, <2>4, <2>5 DEF k
<1>2. CASE j.op \in {"delete", "tick"}
  <2>1. k = [j EXCEPT !.step = "flush"]
    BY <1>2, OpNames, Zenon DEF AfterAnswer
  <2>2. /\ k.op = j.op /\ k.pw = j.pw /\ k.user = j.user /\ k.step = "flush"
        /\ k.done = j.done /\ k.locked = j.locked /\ k.todo = j.todo
    BY <2>1 DEF JobType
  <2> HIDE DEF k
  <2>3. Fit(k)
    BY <1>2, <2>2 DEF Fit
  <2>4. Replaced(k) = j.done \cup {j.user}
    BY <1>0, <1>2, <2>2, ReplacedFacts
  <2> QED BY <1>2, <2>2, <2>3, <2>4 DEF k
<1>3. CASE j.op \notin FlushFirst /\ j.op \notin {"delete", "tick"}
  <2>1. k = [j EXCEPT !.step = "pick", !.todo = @ \cup Stale(res.users)]
    BY <1>3, Zenon DEF AfterAnswer
  <2>2. /\ k.op = j.op /\ k.pw = j.pw /\ k.user = j.user /\ k.step = "pick"
        /\ k.done = j.done /\ k.locked = j.locked /\ k.todo = j.todo \cup Stale(res.users)
    BY <2>1 DEF JobType
  <2> HIDE DEF k
  <2>3. j.op = "reconcile"
    BY <1>3 DEF JobOK, JobType, JobOps, RouteOps
  <2>4. Fit(k)
    BY <2>2, <2>3 DEF Fit, Stale
  <2>5. Replaced(k) = j.done
    BY <1>0, <2>2, ReplacedFacts
  <2> QED BY <2>2, <2>3, <2>4, <2>5 DEF k
<1> QED BY <1>1, <1>2, <1>3

LEMMA ReplyAgrees ==
  ASSUME Inv, Guarded, Agrees, Reply, UNCHANGED profile
  PROVE  Agrees'
<1> DEFINE c == queue[1]
           w == c.worker
           j == job[w]
           k == AfterAnswer(j, result)
<1>0. Core /\ TypeOK /\ result \in [ok : BOOLEAN, users : SUBSET Users]
  BY DEF Inv, Core, TypeOK
<1>1. srv = "reply" /\ queue # <<>>
  BY <1>0 DEF Reply, Core, ServerOK
<1>2. /\ Len(queue) = 1 /\ c \in Call /\ w \in Workers /\ c.open
      /\ j.step = "wait" /\ j \in JobType /\ JobOK(j) /\ Fit(j)
      /\ c.user = j.user /\ c.pw = j.pw
      /\ c.op = "set" <=> j.op \in SetOps
      /\ c.op = "list" <=> j.op = "reconcile" /\ j.user = NoUser
      /\ \A x \in Workers : Engaged(job[x]) => x = w
      /\ Replaced(j) = j.done
  BY <1>0, <1>1, TheCall
<1>3. /\ srv' = "idle" /\ queue' = Tail(queue) /\ Start(w, k)
      /\ UNCHANGED <<rows, sasldb>>
  <2>1. Head(queue) = c
    BY <1>1
  <2> QED BY <1>2, <2>1 DEF Reply, appVars
<1>4. Len(queue') = 0
  BY <1>0, <1>1, <1>2, <1>3 DEF TypeOK
<1>5. job'[w] = k /\ \A x \in Workers : x # w => job'[x] = job[x]
  BY <1>0, <1>2, <1>3 DEF Start, TypeOK
<1>6. \A u : ~Wrote(u)'
  BY <1>3 DEF Wrote
<1>7. \A x \in Workers : x # w => Replaced(job[x]) = {}
  <2>1. \A x \in Workers : job[x] \in JobType /\ JobOK(job[x])
    BY <1>0, Types DEF Core, JobsOK
  <2> QED BY <1>2, <2>1, ReplacedFacts
<1>8. Fit(k)
  <2>1. CASE result.ok
    BY <1>0, <1>2, <2>1, AnswerFits
  <2>2. CASE ~result.ok
    BY <1>2, <2>2, ErrorFits DEF AfterAnswer
  <2> QED BY <2>1, <2>2
<1>9. ASSUME ~result.ok PROVE Stored'
  <2>1. k = AfterError(j)
    BY <1>9 DEF AfterAnswer
  <2>2. \A u : ~Wrote(u)
    BY <1>1, <1>9 DEF Wrote
  <2> HIDE DEF k
  <2>3. Replaced(k) = Replaced(j) /\ (Replaced(j) # {} => Given(k) = Given(j))
    BY <1>2, <2>1, ErrorFits
  <2>4. \A x \in Workers : /\ Replaced(job'[x]) = Replaced(job[x])
                           /\ Replaced(job[x]) # {} => Given(job'[x]) = Given(job[x])
    BY <1>5, <2>3
  <2>5. Stored'
    BY <1>1, <1>3, <1>6, <2>2, <2>4, StoredStays DEF Agrees
  <2> QED BY <2>5
<1>10. ASSUME result.ok PROVE Stored'
  <2>1. /\ k.op = j.op /\ k.pw = j.pw
        /\ Replaced(k) = j.done \cup IF j.op = "reconcile" THEN {} ELSE {j.user}
    BY <1>0, <1>2, <1>10, AnswerFits
  <2> HIDE DEF k, j
  <2>2. Given(k) = Given(j) /\ Value(c) = Given(j)
    BY <1>2, <2>1 DEF Given, Value
  <2>3. \A u : Wrote(u) <=> c.op # "list" /\ c.user = u
    BY <1>1, <1>10 DEF Wrote
  <2>4. ASSUME NEW x \in Workers, NEW u \in Users, u \in Replaced(job'[x])
        PROVE  live'[u] = Given(job'[x])
    <3>1. x = w /\ job'[x] = k /\ u \in Replaced(k)
      BY <1>5, <1>7, <2>4
    <3>2. CASE u \in j.done
      <4>1. live[u] = Given(j)
        BY <1>2, <3>2 DEF Agrees, Stored, j
      <4> QED BY <1>3, <2>2, <3>1, <4>1 DEF sasldb
    <3>3. CASE u = j.user /\ j.op # "reconcile"
      <4>1. live[u] = Value(c)
        BY <1>2, <2>3, <3>3 DEF Agrees, Stored
      <4> QED BY <1>3, <2>2, <3>1, <4>1 DEF sasldb
    <3> QED BY <2>1, <3>1, <3>2, <3>3
  <2>5. ASSUME NEW u \in Users, \A x \in Workers : u \notin Replaced(job'[x])
        PROVE  live'[u] = Expected(u)'
    <3>1. u \notin Replaced(k)
      BY <1>2, <1>5, <2>5
    <3>2. \A x \in Workers : u \notin Replaced(job[x])
      BY <1>2, <1>7, <2>1, <3>1 DEF j
    <3>3. CASE ~Wrote(u)
      <4>1. live[u] = Expected(u)
        BY <3>2, <3>3 DEF Agrees, Stored
      <4> QED BY <1>3, <4>1 DEF Expected, sasldb
    <3>4. CASE Wrote(u)
      <4>1. u = j.user /\ live[u] = Value(c)
        BY <1>2, <2>3, <3>4 DEF Agrees, Stored
      <4>2. j.op = "reconcile"
        BY <2>1, <3>1, <4>1
      <4>3. u \notin Enabled /\ Given(j) = NoPassword
        BY <1>2, <4>1, <4>2, OpNames DEF Fit, Given
      <4>4. Expected(u) = NoPassword
        BY <4>3 DEF Expected, Enabled
      <4> QED BY <1>3, <2>2, <4>1, <4>3, <4>4 DEF Expected, sasldb
    <3> QED BY <3>3, <3>4
  <2>6. \A u \in Users : volume'[u] = live'[u]
    BY <1>1, <1>3 DEF Agrees, Stored, sasldb
  <2>7. Stored'
    BY <1>6, <2>4, <2>5, <2>6 DEF Stored
  <2> QED BY <2>7
<1> HIDE DEF k
<1>11. ASSUME NEW x \in Workers PROVE Fit(job[x])'
  <2>1. CASE x = w
    BY <1>3, <1>5, <1>8, <2>1 DEF Fit, Enabled, LockedOnly
  <2>2. CASE x # w
    <3>1. Fit(job[x]) /\ job'[x] = job[x]
      BY <1>5, <2>2 DEF Agrees
    <3> QED BY <1>3, <3>1 DEF Fit, Enabled, LockedOnly
  <2> QED BY <2>1, <2>2
<1>12. Attended'
  BY <1>4 DEF Attended
<1> QED BY <1>9, <1>10, <1>11, <1>12 DEF Agrees

-----------------------------------------------------------------------------
LEMMA AgreesInit ==
  ASSUME Init PROVE Agrees
<1>1. /\ \A w \in Workers : job[w] = Idle
      /\ srv = "idle" /\ Len(queue) = 0
      /\ \A u \in Users : /\ rows[u] = Absent /\ live[u] = NoPassword /\ volume[u] = NoPassword
  BY DEF Init
<1>2. Attended
  BY <1>1 DEF Attended
<1>3. Stored
  BY <1>1, IdleFits DEF Stored, Wrote, Expected, Absent
<1> QED BY <1>1, <1>2, <1>3, IdleFits DEF Agrees

LEMMA AgreesNext ==
  ASSUME Inv, Agrees, [Next]_vars PROVE Agrees'
<1>0. SUFFICES ASSUME Guarded PROVE Agrees'
  <2>1. UNCHANGED profile
    BY DEF Next, vars
  <2> QED BY <2>1, GuardStays DEF Agrees
<1>1. CASE UNCHANGED vars
  <2>1. UNCHANGED <<job, queue, rows, profile, sasldb, srv, result>>
    BY <1>1 DEF vars, appVars, srvVars
  <2>2. Stored'
    BY <1>0, <2>1, StoredStays DEF Agrees
  <2> QED BY <1>0, <2>1, <2>2, Unheard
<1>2. CASE Next
  <2>1. UNCHANGED profile
    BY <1>2 DEF Next
  <2>2. CASE RunCommand \/ SyncVolume \/ Reply \/ Boot \/ ContainerStops \/ Applied
    BY <1>0, <2>1, <2>2, RunCommandAgrees, SyncVolumeAgrees, ReplyAgrees, BootAgrees,
       ContainerStopsAgrees, AppliedAgrees
  <2>3. ASSUME NEW w \in Workers,
               \/ Flush(w) \/ Pick(w) \/ Connect(w) \/ Commit(w) \/ BeginReconcile(w)
               \/ BeginTick(w) \/ FlushBusy(w)
        PROVE  Agrees'
    BY <1>0, <2>1, <2>3, FlushAgrees, PickAgrees, ConnectAgrees, CommitAgrees,
       BeginReconcileAgrees, BeginTickAgrees, FlushBusyAgrees
  <2>4. ASSUME NEW w \in Workers, NEW op \in RouteOps, NEW u \in Users, Load(w, op, u)
        PROVE  Agrees'
    BY <1>0, <2>1, <2>4, LoadAgrees
  <2>5. ~AppQuits /\ \A w \in Workers : ~GiveUp(w) /\ ~CommitFails(w)
    <3>1. ~Fault("quit") /\ ~Fault("giveup") /\ ~Fault("commit")
      BY <1>0, Harmless DEF Fault
    <3> QED BY <3>1 DEF AppQuits, GiveUp, CommitFails
  <2> QED BY <1>2, <2>2, <2>3, <2>4, <2>5 DEF Next, Server, Work
<1> QED BY <1>1, <1>2

\* What AgreesWhenOrderly says when nothing is under way, and while nobody holds
\* the write lock.
LEMMA AgreesSuffices ==
  ASSUME Inv, Agrees PROVE AgreesWhenOrderly
<1>0. Core /\ \A w \in Workers : job[w] \in JobType /\ JobOK(job[w])
  BY Types DEF Inv, Core, JobsOK
<1>1. ASSUME Orderly, Settled, NEW u \in Users
      PROVE  live[u] = Expected(u) /\ volume[u] = Expected(u)
  <2>1. Guarded /\ Stored
    BY <1>1 DEF Guarded, Agrees
  <2>2. \A w \in Workers : Replaced(job[w]) = {}
    BY <1>0, <1>1, IdleReplaced DEF Settled, AllIdle
  <2>3. ~Wrote(u) /\ srv # "sync"
    BY <1>1 DEF Settled, Wrote
  <2> QED BY <2>1, <2>2, <2>3 DEF Stored
<1>2. ASSUME LockedOnly, \A w \in Workers : ~job[w].locked, NEW u \in Users
      PROVE  live[u] = Expected(u)
  <2>1. Guarded /\ Stored /\ \A w \in Workers : Fit(job[w])
    BY <1>2 DEF Guarded, Agrees
  <2>2. ASSUME NEW w \in Workers, Engaged(job[w]) PROVE job[w].op = "reconcile"
    <3>1. SUFFICES ASSUME job[w].op # "reconcile" PROVE FALSE
      OBVIOUS
    <3>2. job[w].op \in {"create", "disable", "enable"}
      BY <1>0, <1>2, <2>1, <2>2, <3>1 DEF Fit, Engaged, JobOK
    <3>3. job[w].step \notin {"idle", "flush", "list", "pick"}
      BY <1>0, <2>2, <3>2 DEF Engaged, JobOK
    <3>4. job[w].step \in {"call", "wait", "commit"}
      BY <1>0, <3>3 DEF JobType, Steps
    <3> QED BY <1>2, <2>1, <3>1, <3>4 DEF Fit
  <2>3. \A w \in Workers : Replaced(job[w]) = {}
    BY <1>0, <2>2, ReplacedFacts
  <2>4. CASE ~Wrote(u)
    BY <2>1, <2>3, <2>4 DEF Stored
  <2>5. CASE Wrote(u)
    <3> DEFINE c == queue[1]
               j == job[c.worker]
    <3>1. queue # <<>> /\ c.user = u /\ live[u] = Value(c)
      BY <1>0, <2>1, <2>5 DEF Core, ServerOK, Wrote, Stored
    <3>2. /\ c.worker \in Workers /\ j.step = "wait" /\ Fit(j) /\ c.user = j.user
          /\ c.op = "set" <=> j.op \in SetOps
      BY <1>0, <2>1, <3>1, TheCall
    <3>3. j.op = "reconcile"
      BY <2>2, <3>2 DEF Engaged
    <3>4. u \notin Enabled /\ Value(c) = NoPassword
      BY <3>1, <3>2, <3>3, OpNames DEF Fit, Value
    <3>5. Expected(u) = NoPassword
      BY <3>4 DEF Expected, Enabled
    <3> QED BY <3>1, <3>4, <3>5
  <2> QED BY <2>4, <2>5
<1> QED BY <1>1, <1>2 DEF AgreesWhenOrderly

\* sasldb2 and its copy are what local_smtp_users says, with one job at a time and
\* failures that change nothing, whenever nothing is under way; and while nobody
\* holds the write lock, with any number of creates, disables and enables at once,
\* which flush before they call (create_user, update_user).
THEOREM StoreAgrees == Spec => []AgreesWhenOrderly
<1>1. Init => Inv /\ Agrees
  BY InvInit, AgreesInit
<1>2. Inv /\ Agrees /\ [Next]_vars => (Inv /\ Agrees)'
  BY InvNext, AgreesNext
<1>3. Inv /\ Agrees => AgreesWhenOrderly
  BY AgreesSuffices
<1> QED BY <1>1, <1>2, <1>3, PTL DEF Spec
=============================================================================
