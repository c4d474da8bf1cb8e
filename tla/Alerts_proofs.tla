---------------------------- MODULE Alerts_proofs ----------------------------
(***************************************************************************)
(* Proofs about Alerts, for any kinds of alert, accounts, versions, bounds *)
(* on faults and profiles: every kind on record was mailed, and each state *)
(* of a kind is mailed once, however the tick, the jobs and the requests   *)
(* interleave and wherever the tick is cut off.                            *)
(***************************************************************************)
EXTENDS Alerts, SequenceTheorems, TLAPS

Ticks == [step : {"idle", "kind", "sending", "logging"}, kind : 1..Len(Kinds) + 1,
          seen : Readings, row : Readings, toggles : SUBSET AllKinds, known : Readings,
          fresh : BOOLEAN, sent : SUBSET AllKinds, record : States]

\* The kinds that the tick has not finished with.
Ahead == {Kinds[i] : i \in tick.kind..Len(Kinds)}
InLog(k) == tick.step = "logging" /\ k = Kind

\* An e-mail under way is about a state that is not on record yet.
Mailing == tick.step \in {"sending", "logging"} =>
  /\ tick.kind <= Len(Kinds)
  /\ tick.seen[Kind] # 0
  /\ tick.record > known[Kind]
  /\ Kind \in OfState => tick.record = tick.seen[Kind]
  /\ Kind \in OfVersion => tick.record <= latest[Kind]

\* The session has changed nothing about the kinds ahead, and it shows no
\* version of theirs older than the one on record.
Untouched == tick.step # "idle" => \A k \in Ahead :
  /\ tick.known[k] = known[k]
  /\ k \in tick.sent => InLog(k)
  /\ k \in OfVersion /\ tick.fresh => tick.row[k] >= known[k]

\* What the session has changed and not committed: flags that it cleared, and
\* the kinds whose e-mail went out.
Uncommitted == tick.step # "idle" => \A k \in AllKinds :
  /\ k \notin tick.sent => tick.known[k] = known[k] \/ (k \in OfState /\ tick.known[k] = 0)
  /\ k \in tick.sent => tick.known[k] # 0 \/ InLog(k)
  /\ InLog(k) => k \in tick.sent

\* Versions only grow, so what is on record is never ahead of the last check.
VersionsGrow == \A k \in OfVersion :
  known[k] <= latest[k] /\ tick.known[k] <= latest[k] /\ tick.row[k] <= latest[k]

\* NotifiedWasMailed, of what the session is about to write down as well.
Backed(k, v) == v # 0 => told[k][v] > 0 \/ k \in mixed
AllBacked ==
  /\ \A k \in AllKinds : Backed(k, known[k])
  /\ tick.step # "idle" => \A k \in AllKinds : Backed(k, tick.known[k])
  /\ tick.step = "logging" => Backed(Kind, tick.record)

\* The newest state whose e-mail is accounted for, on record or about to be.
Reach(k) == IF k \notin tick.sent THEN known[k]
            ELSE IF InLog(k) THEN tick.record ELSE tick.known[k]
Counted == \A k \in AllKinds, v \in Versions :
  k \in mixed \/ told[k][v] <= lost[k] + (IF v <= Reach(k) THEN 1 ELSE 0)

LossesAreFaults == \A k \in AllKinds : lost[k] <= faults

Inv == TypeOK /\ Mailing /\ Untouched /\ Uncommitted /\ VersionsGrow
       /\ AllBacked /\ Counted /\ LossesAreFaults

-----------------------------------------------------------------------------
(***************************************************************************)
(* Kinds, readings and the session of a tick.                              *)
(***************************************************************************)

\* Every kind is of a condition or of an update, and occurs once.
LEMMA KindFacts ==
  /\ Len(Kinds) \in Nat
  /\ DOMAIN Kinds = 1..Len(Kinds)
  /\ AllKinds = OfState \cup OfVersion
  /\ OfState \cap OfVersion = {}
  /\ \A i, j \in 1..Len(Kinds) : Kinds[i] = Kinds[j] => i = j
  /\ \A i \in 1..Len(Kinds) : Kinds[i] \in AllKinds
<1>1. StateKinds \in Seq(STRING) /\ VersionKinds \in Seq(STRING)
  BY KindAssumption
<1>2. /\ Len(StateKinds) \in Nat /\ Len(VersionKinds) \in Nat
      /\ DOMAIN StateKinds = 1..Len(StateKinds)
      /\ DOMAIN VersionKinds = 1..Len(VersionKinds)
  BY <1>1, LenProperties
<1>3. /\ Kinds \in Seq(STRING)
      /\ Len(Kinds) = Len(StateKinds) + Len(VersionKinds)
      /\ \A i \in 1..Len(StateKinds) + Len(VersionKinds) :
           Kinds[i] = IF i <= Len(StateKinds) THEN StateKinds[i]
                      ELSE VersionKinds[i - Len(StateKinds)]
  BY <1>1, ConcatProperties DEF Kinds
<1>4. Len(Kinds) \in Nat /\ DOMAIN Kinds = 1..Len(Kinds)
  BY <1>3, LenProperties
<1>5. AllKinds \subseteq OfState \cup OfVersion
  <2> SUFFICES ASSUME NEW i \in 1..Len(Kinds) PROVE Kinds[i] \in OfState \cup OfVersion
    BY <1>4 DEF AllKinds, SeqRange
  <2>1. CASE i <= Len(StateKinds)
    <3>1. i \in DOMAIN StateKinds /\ Kinds[i] = StateKinds[i]
      BY <1>2, <1>3, <2>1
    <3> QED BY <3>1 DEF OfState, SeqRange
  <2>2. CASE ~(i <= Len(StateKinds))
    <3>1. i - Len(StateKinds) \in DOMAIN VersionKinds
          /\ Kinds[i] = VersionKinds[i - Len(StateKinds)]
      BY <1>2, <1>3, <2>2
    <3> QED BY <3>1 DEF OfVersion, SeqRange
  <2> QED BY <2>1, <2>2
<1>6. OfState \subseteq AllKinds
  <2> SUFFICES ASSUME NEW i \in 1..Len(StateKinds) PROVE StateKinds[i] \in AllKinds
    BY <1>2 DEF OfState, SeqRange
  <2>1. i \in DOMAIN Kinds /\ Kinds[i] = StateKinds[i]
    BY <1>2, <1>3, <1>4
  <2> QED BY <2>1 DEF AllKinds, SeqRange
<1>7. OfVersion \subseteq AllKinds
  <2> SUFFICES ASSUME NEW i \in 1..Len(VersionKinds) PROVE VersionKinds[i] \in AllKinds
    BY <1>2 DEF OfVersion, SeqRange
  <2>1. /\ Len(StateKinds) + i \in DOMAIN Kinds
        /\ ~(Len(StateKinds) + i <= Len(StateKinds))
        /\ (Len(StateKinds) + i) - Len(StateKinds) = i
    BY <1>2, <1>3, <1>4
  <2>2. Kinds[Len(StateKinds) + i] = VersionKinds[i]
    BY <1>3, <1>4, <2>1
  <2> QED BY <2>1, <2>2 DEF AllKinds, SeqRange
<1>8. \A i \in 1..Len(Kinds) : Kinds[i] \in AllKinds
  BY <1>4 DEF AllKinds, SeqRange
<1>9. \A i, j \in 1..Len(Kinds) : Kinds[i] = Kinds[j] => i = j
  BY <1>4, KindAssumption
<1> QED BY <1>4, <1>5, <1>6, <1>7, <1>8, <1>9, KindAssumption

LEMMA StateFacts ==
  /\ States \subseteq Nat /\ 0 \in States /\ 1 \in States /\ Versions \subseteq States
  /\ \A r \in Readings, k \in AllKinds : r[k] \in States /\ r[k] \in Nat
  /\ \A r \in Readings, k \in OfState : r[k] \in {0, 1}
  /\ [k \in AllKinds |-> 0] \in Readings
<1>1. States \subseteq Nat /\ 0 \in States /\ 1 \in States /\ Versions \subseteq States
  BY BoundAssumption DEF States
<1> QED BY <1>1, KindFacts DEF Readings

LEMMA ReadingType ==
  ASSUME latest \in [OfVersion -> States]
  PROVE  Reading \in Readings /\ \A k \in OfVersion : Reading[k] = latest[k]
<1>1. \A k \in AllKinds : k \in OfVersion => Reading[k] = latest[k]
  <2>1. \A k \in OfVersion : k # TestKind
    BY KindAssumption
  <2> QED BY <2>1 DEF Reading
<1>2. \A k \in AllKinds : k \notin OfVersion => Reading[k] \in {0, 1}
  <2> SUFFICES ASSUME NEW k \in AllKinds, k \notin OfVersion PROVE Reading[k] \in {0, 1}
    OBVIOUS
  <2>1. CASE k = TestKind
    BY <2>1 DEF Reading
  <2>2. CASE k # TestKind
    BY <2>2 DEF Reading
  <2> QED BY <2>1, <2>2
<1>3. DOMAIN Reading = AllKinds /\ Reading = [k \in AllKinds |-> Reading[k]]
  BY DEF Reading
<1>4. \A k \in AllKinds : Reading[k] \in States
  BY <1>1, <1>2, StateFacts
<1> QED BY <1>1, <1>2, <1>3, <1>4, KindFacts DEF Readings

\* A reading with one entry replaced.
LEMMA WithEntry ==
  ASSUME NEW r \in Readings, NEW k \in AllKinds, NEW v \in States,
         k \in OfState => v \in {0, 1}
  PROVE  [r EXCEPT ![k] = v] \in Readings
<1> DEFINE n == [r EXCEPT ![k] = v]
<1>1. r \in [AllKinds -> States] /\ \A j \in OfState : r[j] \in {0, 1}
  BY DEF Readings
<1>2. n \in [AllKinds -> States] /\ \A j \in AllKinds : n[j] = IF j = k THEN v ELSE r[j]
  BY <1>1
<1> HIDE DEF n
<1>3. \A j \in OfState : n[j] \in {0, 1}
  BY <1>1, <1>2, KindFacts
<1>4. n \in Readings
  BY <1>2, <1>3 DEF Readings
<1> QED BY <1>4 DEF n

LEMMA TypeTick == TypeOK => tick \in Ticks
BY DEF TypeOK, Ticks

LEMMA NoTickType == NoTick \in Ticks
<1>1. 1 \in 1..Len(Kinds) + 1
  BY KindFacts
<1>2. [k \in AllKinds |-> 0] \in Readings /\ 0 \in States
  BY StateFacts
<1> QED BY <1>1, <1>2, Zenon DEF NoTick, Ticks

\* The kind the tick is at.
LEMMA AtKind ==
  ASSUME tick \in Ticks
  PROVE  /\ tick.kind \in Nat /\ tick.kind \in 1..Len(Kinds) + 1
         /\ Ahead \subseteq AllKinds
         /\ tick.kind <= Len(Kinds) => Kind \in AllKinds /\ Kind \in Ahead
         /\ {Kinds[i] : i \in (tick.kind + 1)..Len(Kinds)} \subseteq Ahead
         /\ tick.kind <= Len(Kinds) =>
              Kind \notin {Kinds[i] : i \in (tick.kind + 1)..Len(Kinds)}
<1>1. tick.kind \in Nat /\ tick.kind \in 1..Len(Kinds) + 1 /\ Len(Kinds) \in Nat
  BY KindFacts DEF Ticks
<1>2. \A i \in tick.kind..Len(Kinds) : i \in 1..Len(Kinds)
  BY <1>1
<1>3. \A i \in (tick.kind + 1)..Len(Kinds) : i \in tick.kind..Len(Kinds) /\ i # tick.kind
  BY <1>1
<1>4. tick.kind <= Len(Kinds) => tick.kind \in tick.kind..Len(Kinds)
  BY <1>1
<1>5. Ahead \subseteq AllKinds
  BY <1>2, KindFacts DEF Ahead
<1>6. tick.kind <= Len(Kinds) => Kind \in Ahead
  BY <1>4 DEF Ahead, Kind
<1>7. {Kinds[i] : i \in (tick.kind + 1)..Len(Kinds)} \subseteq Ahead
  BY <1>3 DEF Ahead
<1>8. tick.kind <= Len(Kinds) =>
        Kind \notin {Kinds[i] : i \in (tick.kind + 1)..Len(Kinds)}
  BY <1>2, <1>3, <1>4, KindFacts DEF Kind
<1> QED BY <1>1, <1>5, <1>6, <1>7, <1>8

-----------------------------------------------------------------------------
(***************************************************************************)
(* What a step makes of the session, field by field.                       *)
(***************************************************************************)

LEMMA MovedOn ==
  ASSUME NEW t \in Ticks, t.kind <= Len(Kinds)
  PROVE  /\ NextKind(t) \in Ticks
         /\ NextKind(t).step = "kind" /\ NextKind(t).kind = t.kind + 1
         /\ NextKind(t).record = 0
         /\ NextKind(t).known = t.known /\ NextKind(t).row = t.row
         /\ NextKind(t).sent = t.sent /\ NextKind(t).fresh = t.fresh
<1>1. t.kind + 1 \in 1..Len(Kinds) + 1 /\ 0 \in States
  BY KindFacts, StateFacts DEF Ticks
<1>2. NextKind(t) = [t EXCEPT !.step = "kind", !.kind = t.kind + 1, !.record = 0]
  BY DEF NextKind
<1>3. NextKind(t) \in Ticks
  BY <1>1, <1>2, Zenon DEF Ticks
<1> QED BY <1>2, <1>3 DEF Ticks

\* The kind's flag or version is changed, and the step of the session is over.
LEMMA Noted ==
  ASSUME NEW t \in Ticks, NEW k \in AllKinds, NEW v \in States,
         k \in OfState => v \in {0, 1}
  PROVE  /\ [t EXCEPT !.known[k] = v] \in Ticks
         /\ [t EXCEPT !.known[k] = v].known = [t.known EXCEPT ![k] = v]
         /\ \A f \in AllKinds : [t EXCEPT !.known[k] = v].known[f] = IF f = k THEN v ELSE t.known[f]
         /\ [t EXCEPT !.known[k] = v].kind = t.kind
         /\ [t EXCEPT !.known[k] = v].row = t.row
         /\ [t EXCEPT !.known[k] = v].sent = t.sent
         /\ [t EXCEPT !.known[k] = v].fresh = t.fresh
<1>1. t.known \in Readings
  BY DEF Ticks
<1>2. [t EXCEPT !.known[k] = v] = [t EXCEPT !.known = [t.known EXCEPT ![k] = v]]
  BY DEF Ticks
<1>3. [t.known EXCEPT ![k] = v] \in Readings
  BY <1>1, WithEntry
<1>4. [t EXCEPT !.known[k] = v] \in Ticks
  BY <1>2, <1>3, Zenon DEF Ticks
<1>5. \A f \in AllKinds : [t.known EXCEPT ![k] = v][f] = IF f = k THEN v ELSE t.known[f]
  BY <1>1 DEF Readings
<1> QED BY <1>2, <1>4, <1>5 DEF Ticks

LEMMA RefreshedFacts ==
  ASSUME TypeOK
  PROVE  /\ Refreshed \in Ticks
         /\ Refreshed.kind = tick.kind /\ Refreshed.known = tick.known
         /\ Refreshed.sent = tick.sent /\ Refreshed.seen = tick.seen
         /\ tick.fresh => Refreshed.row = tick.row
         /\ ~tick.fresh => Refreshed.row = Reading
<1>1. tick \in Ticks /\ toggles \in SUBSET AllKinds /\ Reading \in Readings
  BY TypeTick, ReadingType DEF TypeOK
<1>2. CASE tick.fresh
  <2>1. Refreshed = tick
    BY <1>2 DEF Refreshed
  <2> QED BY <1>1, <1>2, <2>1
<1>3. CASE ~tick.fresh
  <2>1. Refreshed = [tick EXCEPT !.row = Reading, !.toggles = toggles, !.fresh = TRUE]
    BY <1>3 DEF Refreshed
  <2>2. Refreshed \in Ticks
    BY <1>1, <2>1, Zenon DEF Ticks
  <2> QED BY <1>1, <1>3, <2>1, <2>2 DEF Ticks
<1> QED BY <1>2, <1>3

\* The three things a kind can come to.
LEMMA ConsiderCases ==
  ASSUME TypeOK, Consider
  PROVE  LET t == Refreshed IN
         /\ tick.step = "kind" /\ tick.kind <= Len(Kinds) /\ Kind \in AllKinds
         /\ \/ /\ ToSend(t, Kind)
               /\ tick' = [t EXCEPT !.step = "sending", !.record = Recorded(t, Kind)]
            \/ /\ ToClear(t, Kind)
               /\ tick' = NextKind([t EXCEPT !.known[Kind] = 0])
            \/ tick' = NextKind(t)
<1>1. tick.step = "kind" /\ tick.kind <= Len(Kinds) /\ Kind \in AllKinds
  BY TypeTick, AtKind, KindFacts DEF Consider, Done
<1> DEFINE t == Refreshed
<1>2. tick' = CASE ToSend(t, Kind)  -> [t EXCEPT !.step = "sending",
                                                 !.record = Recorded(t, Kind)]
                [] ToClear(t, Kind) -> NextKind([t EXCEPT !.known[Kind] = 0])
                [] OTHER            -> NextKind(t)
  BY DEF Consider
<1> HIDE DEF t
<1>3. ~(ToSend(t, Kind) /\ ToClear(t, Kind))
  BY DEF ToSend, ToClear
<1>4. CASE ToSend(t, Kind)
  <2>1. tick' = [t EXCEPT !.step = "sending", !.record = Recorded(t, Kind)]
    BY <1>2, <1>3, <1>4
  <2> QED BY <1>1, <1>4, <2>1 DEF t
<1>5. CASE ToClear(t, Kind)
  <2>1. tick' = NextKind([t EXCEPT !.known[Kind] = 0])
    BY <1>2, <1>3, <1>5
  <2> QED BY <1>1, <1>5, <2>1 DEF t
<1>6. CASE ~ToSend(t, Kind) /\ ~ToClear(t, Kind)
  <2>1. tick' = NextKind(t)
    BY <1>2, <1>6
  <2> QED BY <1>1, <2>1 DEF t
<1> QED BY <1>4, <1>5, <1>6

-----------------------------------------------------------------------------
(***************************************************************************)
(* Type correctness of the steps.                                          *)
(***************************************************************************)

LEMMA FaultType ==
  ASSUME TypeOK, Fault
  PROVE  /\ faults \in Nat /\ faults' = faults + 1
         /\ faults' \in 0..profile.faults /\ faults' <= MaxFaults
<1>1. profile.faults \in Nat /\ profile.faults <= MaxFaults /\ MaxFaults \in Nat
  BY BoundAssumption DEF TypeOK
<1> QED BY <1>1 DEF TypeOK, Fault

\* The counts of e-mails and of losses, whatever a commit resets.
LEMMA CommitType ==
  ASSUME TypeOK, NEW mails \in [AllKinds -> [Versions -> Nat]],
         NEW misses \in [AllKinds -> Nat], \A k \in AllKinds : misses[k] <= MaxFaults,
         Commit(mails, misses)
  PROVE  /\ known' = tick.known /\ known' \in Readings
         /\ told' \in [AllKinds -> [Versions -> Nat]]
         /\ lost' \in [AllKinds -> 0..MaxFaults]
         /\ \A k \in AllKinds : lost'[k] = IF Ended(k) THEN 0 ELSE misses[k]
         /\ \A k \in AllKinds, v \in Versions : told'[k][v] = IF Ended(k) THEN 0 ELSE mails[k][v]
<1>1. MaxFaults \in Nat /\ tick.known \in Readings
  BY BoundAssumption, TypeTick DEF Ticks
<1>2. \A k \in AllKinds : (IF Ended(k) THEN 0 ELSE misses[k]) \in 0..MaxFaults
  BY <1>1
<1>3. \A k \in AllKinds :
        (IF Ended(k) THEN [v \in Versions |-> 0] ELSE mails[k]) \in [Versions -> Nat]
  OBVIOUS
<1>4. lost' \in [AllKinds -> 0..MaxFaults] /\ told' \in [AllKinds -> [Versions -> Nat]]
  BY <1>2, <1>3 DEF Commit
<1>5. \A k \in AllKinds : lost'[k] = IF Ended(k) THEN 0 ELSE misses[k]
  BY DEF Commit
<1>6. \A k \in AllKinds, v \in Versions : told'[k][v] = IF Ended(k) THEN 0 ELSE mails[k][v]
  BY DEF Commit
<1> QED BY <1>1, <1>4, <1>5, <1>6 DEF Commit

\* told and lost as they are, for a commit that resets nothing else.
LEMMA CountsType ==
  ASSUME TypeOK
  PROVE  /\ told \in [AllKinds -> [Versions -> Nat]]
         /\ lost \in [AllKinds -> Nat] /\ \A k \in AllKinds : lost[k] <= MaxFaults
BY BoundAssumption DEF TypeOK

\* One more e-mail about the kind the tick is at.
LEMMA OneMore ==
  ASSUME TypeOK, NEW k \in AllKinds, NEW out \in {0, 1}, tick.seen[k] # 0
  PROVE  LET more == [told EXCEPT ![k][tick.seen[k]] = @ + out] IN
         /\ tick.seen[k] \in Versions
         /\ more \in [AllKinds -> [Versions -> Nat]]
         /\ \A j \in AllKinds, v \in Versions :
              more[j][v] = IF j = k /\ v = tick.seen[k] THEN told[j][v] + out ELSE told[j][v]
<1>1. tick.seen[k] \in Versions
  BY TypeTick, StateFacts DEF Ticks, States
<1> QED BY <1>1 DEF TypeOK

LEMMA WorldType ==
  ASSUME TypeOK, UNCHANGED <<mail, profile>>,
         \/ \E k \in OfState : ConditionChanges(k)
         \/ BatchStart \/ BatchCommit
         \/ \E a \in Accounts : BatchTest(a) \/ TestAccount(a)
         \/ UpdateCheck \/ SettingsChange
  PROVE  TypeOK' /\ (\A k \in OfVersion : latest'[k] >= latest[k])
<1> USE DEF world, config, mail
<1>0. \A k \in OfVersion : latest[k] \in Nat /\ latest[k] >= latest[k]
  <2>1. \A k \in OfVersion : latest[k] \in States
    BY DEF TypeOK
  <2> TAKE k \in OfVersion
  <2>2. latest[k] \in Nat
    BY <2>1, StateFacts
  <2> QED BY <2>2
<1>1. ASSUME NEW k \in OfState, ConditionChanges(k) PROVE TypeOK'
  BY <1>1 DEF ConditionChanges, TypeOK
<1>2. CASE BatchStart
  <2>1. batch' = [running |-> TRUE, done |-> {}, failed |-> {}]
    BY <1>2 DEF BatchStart, NoBatch
  <2>2. batch' \in [running : BOOLEAN, done : SUBSET Accounts, failed : SUBSET Accounts]
    BY <2>1, Zenon
  <2>3. batch'.failed \subseteq batch'.done
    BY <2>1
  <2> QED BY <1>0, <1>2, <2>2, <2>3 DEF BatchStart, TypeOK
<1>3. CASE BatchCommit
  <2>1. batch' = [running |-> FALSE, done |-> {}, failed |-> {}]
    BY <1>3 DEF BatchCommit, NoBatch
  <2>2. failing' \subseteq Accounts
    BY <1>3 DEF BatchCommit, TypeOK
  <2> QED BY <1>0, <1>3, <2>1, <2>2 DEF BatchCommit, TypeOK
<1>4. ASSUME NEW a \in Accounts, BatchTest(a) PROVE TypeOK'
  <2> PICK failed \in SUBSET {a} :
        batch' = [batch EXCEPT !.done = @ \cup {a}, !.failed = @ \cup failed]
    BY <1>4 DEF BatchTest
  <2>1. /\ batch.done \cup {a} \in SUBSET Accounts
        /\ batch.failed \cup failed \in SUBSET Accounts
        /\ batch.failed \cup failed \subseteq batch.done \cup {a}
    BY DEF TypeOK
  <2>2. /\ batch' = [running |-> batch.running, done |-> batch.done \cup {a},
                     failed |-> batch.failed \cup failed]
        /\ batch.running \in BOOLEAN
    BY DEF TypeOK
  <2>3. batch' \in [running : BOOLEAN, done : SUBSET Accounts, failed : SUBSET Accounts]
    BY <2>1, <2>2, Zenon
  <2>4. batch'.failed \subseteq batch'.done
    BY <2>1, <2>2
  <2> QED BY <1>4, <2>3, <2>4 DEF BatchTest, TypeOK
<1>5. ASSUME NEW a \in Accounts, TestAccount(a) PROVE TypeOK'
  BY <1>5 DEF TestAccount, TypeOK
<1>6. CASE UpdateCheck
  BY <1>6 DEF UpdateCheck, TypeOK
<1>7. CASE SettingsChange
  <2>1. usable' \in BOOLEAN
    BY <1>7 DEF SettingsChange, TypeOK
  <2>2. toggles' \subseteq AllKinds
    BY <1>7 DEF SettingsChange, TypeOK
  <2> QED BY <1>0, <1>7, <2>1, <2>2 DEF SettingsChange, TypeOK
<1>8. latest' = latest \/ \A k \in OfVersion : latest'[k] >= latest[k]
  BY <1>1 DEF ConditionChanges, BatchStart, BatchCommit, BatchTest, TestAccount,
     UpdateCheck, SettingsChange
<1>9. \A k \in OfVersion : latest'[k] >= latest[k]
  BY <1>0, <1>8
<1> QED BY <1>1, <1>2, <1>3, <1>4, <1>5, <1>6, <1>7, <1>9

-----------------------------------------------------------------------------
(***************************************************************************)
(* The invariant.                                                          *)
(***************************************************************************)

\* What the invariant says of numbers, for the arithmetic of the steps.
LEMMA NumbersOf ==
  ASSUME TypeOK
  PROVE  /\ \A k \in AllKinds : known[k] \in States /\ known[k] \in Nat
         /\ \A k \in AllKinds : tick.known[k] \in States /\ tick.known[k] \in Nat
         /\ \A k \in AllKinds : tick.row[k] \in States /\ tick.row[k] \in Nat
         /\ \A k \in AllKinds : tick.seen[k] \in States /\ tick.seen[k] \in Nat
         /\ tick.record \in States /\ tick.record \in Nat
         /\ \A k \in OfVersion : latest[k] \in States /\ latest[k] \in Nat
         /\ \A k \in AllKinds : lost[k] \in Nat
         /\ \A k \in AllKinds, v \in Versions : told[k][v] \in Nat
         /\ \A v \in Versions : v \in Nat
         /\ faults \in Nat
<1>1. known \in Readings /\ tick.known \in Readings /\ tick.row \in Readings
      /\ tick.seen \in Readings /\ tick.record \in States
  BY TypeTick DEF TypeOK, Ticks
<1>2. \A k \in OfVersion : latest[k] \in States
  BY DEF TypeOK
<1>3. /\ \A k \in AllKinds : lost[k] \in Nat
      /\ \A k \in AllKinds, v \in Versions : told[k][v] \in Nat
      /\ faults \in Nat
  BY DEF TypeOK
<1>4. \A v \in States : v \in Nat
  BY StateFacts
<1> QED BY <1>1, <1>2, <1>3, <1>4, StateFacts

LEMMA InvInit == Init => Inv
<1> SUFFICES ASSUME Init PROVE Inv
  OBVIOUS
<1>1. tick = NoTick /\ tick.step = "idle" /\ tick.sent = {} /\ tick \in Ticks
  BY NoTickType DEF Init, NoTick
<1>2. \A k \in AllKinds : tick.known[k] = 0 /\ tick.row[k] = 0
  BY <1>1 DEF NoTick
<1>3. OfVersion \subseteq AllKinds /\ [k \in AllKinds |-> 0] \in Readings /\ 0 \in States
  BY KindFacts, StateFacts
<1>4. TypeOK
  <2>1. /\ degraded \subseteq OfState \ {TestKind} /\ failing \subseteq Accounts
        /\ latest \in [OfVersion -> States] /\ usable \in BOOLEAN /\ toggles \subseteq AllKinds
        /\ known \in Readings /\ lastFailed \in BOOLEAN /\ mixed \subseteq OfVersion
        /\ told \in [AllKinds -> [Versions -> Nat]] /\ profile \in Profiles
    BY <1>3 DEF Init
  <2>2. batch \in [running : BOOLEAN, done : SUBSET Accounts, failed : SUBSET Accounts]
        /\ batch.failed \subseteq batch.done
    BY Zenon DEF Init, NoBatch
  <2>3. 0 \in 0..MaxFaults /\ 0 \in 0..profile.faults
    BY <2>1, BoundAssumption
  <2>4. lost \in [AllKinds -> 0..MaxFaults] /\ faults \in 0..profile.faults
    BY <2>3 DEF Init
  <2> QED BY <1>1, <2>1, <2>2, <2>4 DEF TypeOK, Ticks
<1>5. Mailing /\ Untouched /\ Uncommitted
  BY <1>1 DEF Mailing, Untouched, Uncommitted
<1>6. VersionsGrow
  BY <1>2, <1>3 DEF VersionsGrow, Init
<1>7. AllBacked /\ Counted /\ LossesAreFaults
  <2>1. AllBacked
    BY <1>1 DEF AllBacked, Backed, Init
  <2>2. \A k \in AllKinds, v \in Versions : Reach(k) = 0 /\ told[k][v] = 0 /\ lost[k] = 0 /\ v \in Nat
    BY <1>1, <1>4, NumbersOf DEF Reach, Init
  <2>3. Counted
    BY <2>2 DEF Counted
  <2>4. LossesAreFaults
    BY DEF LossesAreFaults, Init
  <2> QED BY <2>1, <2>3, <2>4
<1> QED BY <1>4, <1>5, <1>6, <1>7 DEF Inv

\* The world and the settings change: the tick and its books do not.
LEMMA WorldKeeps ==
  ASSUME Inv, TypeOK', UNCHANGED <<known, tick, told, lost, mixed, faults>>,
         \A k \in OfVersion : latest'[k] >= latest[k]
  PROVE  Inv'
<1>1. TypeOK
  BY DEF Inv
<1>2. Kind' = Kind /\ Ahead' = Ahead /\ \A k : InLog(k)' = InLog(k)
  BY DEF Kind, Ahead, InLog
<1>3. \A k \in OfVersion : /\ latest[k] \in Nat /\ latest'[k] \in Nat
                           /\ known[k] \in Nat /\ tick.known[k] \in Nat /\ tick.row[k] \in Nat
  <2>1. \A k \in OfVersion : latest'[k] \in States
    BY DEF TypeOK
  <2> QED BY <1>1, <2>1, NumbersOf, KindFacts, StateFacts
<1>4. VersionsGrow'
  BY <1>3 DEF Inv, VersionsGrow
<1>5. Mailing'
  <2> SUFFICES ASSUME tick.step \in {"sending", "logging"} PROVE Mailing'
    BY DEF Mailing
  <2>1. tick.record \in Nat /\ Kind \in OfVersion => latest[Kind] \in Nat /\ latest'[Kind] \in Nat
    BY <1>1, <1>3, NumbersOf
  <2> QED BY <1>2, <1>3, <1>1, NumbersOf DEF Inv, Mailing
<1>6. Untouched' /\ Uncommitted'
  BY <1>2 DEF Inv, Untouched, Uncommitted
<1>7. AllBacked' /\ LossesAreFaults'
  BY <1>2 DEF Inv, AllBacked, Backed, LossesAreFaults
<1>8. Counted'
  <2>1. \A k : Reach(k)' = Reach(k)
    BY <1>2 DEF Reach
  <2> QED BY <2>1 DEF Inv, Counted
<1> QED BY <1>4, <1>5, <1>6, <1>7, <1>8 DEF Inv

LEMMA StartKeeps == ASSUME Inv, TickStart, UNCHANGED profile PROVE Inv'
<1> USE DEF world, config
<1>1. TypeOK /\ Reading \in Readings /\ known \in Readings /\ toggles \in SUBSET AllKinds
      /\ \A k \in OfVersion : Reading[k] = latest[k]
  BY ReadingType DEF Inv, TypeOK
<1>2. tick' = [step |-> "kind", kind |-> 1, seen |-> Reading, row |-> Reading,
               toggles |-> toggles, known |-> known, fresh |-> TRUE, sent |-> {}, record |-> 0]
  BY DEF TickStart, NoTick
<1>3. tick' \in Ticks
  <2>1. 1 \in 1..Len(Kinds) + 1 /\ 0 \in States
    BY KindFacts, StateFacts
  <2> QED BY <1>1, <1>2, <2>1, Zenon DEF Ticks
<1>4. TypeOK'
  BY <1>1, <1>2, <1>3 DEF TickStart, TypeOK, Ticks
<1>5. tick'.sent = {} /\ tick'.step = "kind" /\ tick'.known = known /\ tick'.row = Reading
  BY <1>2
<1>6. Mailing' /\ Uncommitted' /\ Untouched'
  <2>1. Mailing' /\ Uncommitted'
    BY <1>5 DEF Mailing, Uncommitted, InLog, TickStart
  <2>2. \A k \in OfVersion : Reading[k] \in Nat /\ Reading[k] >= known[k] /\ known[k] \in Nat
    BY <1>1, NumbersOf, KindFacts DEF Inv, VersionsGrow
  <2>3. Untouched'
    BY <1>5, <2>2 DEF Untouched, TickStart
  <2> QED BY <2>1, <2>3
<1>7. VersionsGrow'
  <2>1. \A k \in OfVersion : latest[k] \in Nat
    BY <1>1, NumbersOf
  <2> QED BY <1>1, <1>5, <2>1 DEF TickStart, Inv, VersionsGrow
<1>8. AllBacked' /\ LossesAreFaults'
  BY <1>5 DEF TickStart, Inv, AllBacked, Backed, LossesAreFaults
<1>9. Counted'
  <2>1. tick.step = "idle"
    BY DEF TickStart
  <2>2. tick.sent = {}
    BY <1>1, <2>1 DEF TypeOK, NoTick
  <2>3. \A k : Reach(k)' = Reach(k)
    BY <1>5, <2>2 DEF Reach, TickStart
  <2> QED BY <2>3 DEF Inv, Counted, TickStart
<1> QED BY <1>4, <1>6, <1>7, <1>8, <1>9 DEF Inv

\* The tick goes on to the next kind without a commit: it may have cleared the
\* flag of this one, or have lost an e-mail about it.
LEMMA MoveKeeps ==
  ASSUME Inv, TypeOK', UNCHANGED <<known, latest, mixed>>,
         tick.step \in {"kind", "sending"}, tick.kind <= Len(Kinds),
         NEW t \in Ticks, tick' = NextKind(t), t.kind = tick.kind, t.sent = tick.sent,
         \A k \in AllKinds : t.known[k] = tick.known[k]
                             \/ (k = Kind /\ k \in OfState /\ t.known[k] = 0),
         \A k \in OfVersion : t.row[k] <= latest[k],
         t.fresh => \A k \in OfVersion : k \in Ahead => t.row[k] >= known[k],
         \A k \in AllKinds, v \in Versions :
           /\ told'[k][v] >= told[k][v]
           /\ told'[k][v] + lost[k] <= told[k][v] + lost'[k],
         \A k \in AllKinds : lost'[k] <= faults'
  PROVE  Inv'
<1>1. TypeOK /\ tick \in Ticks /\ Kind \in AllKinds /\ Kind \in Ahead
  BY TypeTick, AtKind DEF Inv
<1>2. /\ tick'.step = "kind" /\ tick'.kind = tick.kind + 1
      /\ tick'.known = t.known /\ tick'.row = t.row
      /\ tick'.sent = tick.sent /\ tick'.fresh = t.fresh
  BY MovedOn
<1>3. Ahead' \subseteq Ahead /\ Kind \notin Ahead' /\ Ahead \subseteq AllKinds
  BY <1>1, <1>2, AtKind DEF Ahead
<1>4. \A k : ~InLog(k) /\ ~InLog(k)'
  BY <1>2 DEF InLog
<1>5. Mailing'
  BY <1>2 DEF Mailing
<1>6. Untouched'
  <2> SUFFICES ASSUME NEW k \in Ahead'
               PROVE  /\ t.known[k] = known[k] /\ k \notin tick.sent
                      /\ k \in OfVersion /\ t.fresh => t.row[k] >= known[k]
    BY <1>2 DEF Untouched
  <2>1. k \in Ahead /\ k # Kind /\ k \in AllKinds
    BY <1>3
  <2> QED BY <1>4, <2>1 DEF Inv, Untouched
<1>7. Uncommitted'
  <2> SUFFICES ASSUME NEW k \in AllKinds
               PROVE  /\ k \notin tick.sent =>
                           t.known[k] = known[k] \/ (k \in OfState /\ t.known[k] = 0)
                      /\ k \in tick.sent => t.known[k] # 0
    BY <1>2, <1>4 DEF Uncommitted
  <2>1. Kind \notin tick.sent /\ tick.known[Kind] = known[Kind]
    BY <1>1, <1>4 DEF Inv, Untouched
  <2> QED BY <1>4, <2>1 DEF Inv, Uncommitted
<1>8. VersionsGrow'
  <2> SUFFICES ASSUME NEW k \in OfVersion
               PROVE  known[k] <= latest[k] /\ t.known[k] <= latest[k] /\ t.row[k] <= latest[k]
    BY <1>2 DEF VersionsGrow
  <2>1. k \in AllKinds /\ k \notin OfState
    BY KindFacts
  <2> QED BY <2>1 DEF Inv, VersionsGrow
<1>9. AllBacked'
  <2> SUFFICES ASSUME NEW k \in AllKinds
               PROVE  Backed(k, known[k])' /\ (t.known[k] # 0 => told'[k][t.known[k]] > 0 \/ k \in mixed)
    BY <1>2 DEF AllBacked, Backed
  <2>1. \A v \in Versions : told[k][v] \in Nat /\ told'[k][v] \in Nat /\ told'[k][v] >= told[k][v]
    BY <1>1 DEF TypeOK
  <2>2. Backed(k, known[k]) /\ Backed(k, tick.known[k])
    BY DEF Inv, AllBacked
  <2>3. \A v \in States : v # 0 => v \in Versions
    BY DEF States
  <2>4. known[k] \in States /\ tick.known[k] \in States
    BY <1>1, NumbersOf
  <2>5. Backed(k, known[k])'
    BY <2>1, <2>2, <2>3, <2>4 DEF Backed
  <2>6. t.known[k] # 0 => told'[k][t.known[k]] > 0 \/ k \in mixed
    BY <2>1, <2>2, <2>3, <2>4 DEF Backed
  <2> QED BY <2>5, <2>6
<1>10. Counted'
  <2> SUFFICES ASSUME NEW k \in AllKinds, NEW v \in Versions, k \notin mixed
               PROVE  told'[k][v] <= lost'[k] + (IF v <= Reach(k)' THEN 1 ELSE 0)
    BY DEF Counted
  <2>1. Reach(k)' = Reach(k)
    <3>1. Kind \notin tick.sent
      BY <1>1, <1>4 DEF Inv, Untouched
    <3> QED BY <1>2, <1>4, <3>1 DEF Reach
  <2>2. told[k][v] \in Nat /\ told'[k][v] \in Nat /\ lost[k] \in Nat /\ lost'[k] \in Nat
    BY <1>1 DEF TypeOK
  <2>3. told[k][v] <= lost[k] + (IF v <= Reach(k) THEN 1 ELSE 0)
    BY DEF Inv, Counted
  <2> QED BY <2>1, <2>2, <2>3
<1>11. LossesAreFaults'
  BY DEF LossesAreFaults
<1> QED BY <1>5, <1>6, <1>7, <1>8, <1>9, <1>10, <1>11 DEF Inv

LEMMA ConsiderKeeps == ASSUME Inv, Consider, UNCHANGED profile PROVE Inv'
<1> USE DEF world, config
<1> DEFINE t == Refreshed
<1>1. TypeOK /\ tick \in Ticks /\ t \in Ticks
  BY TypeTick, RefreshedFacts DEF Inv
<1>2. /\ t.kind = tick.kind /\ t.known = tick.known /\ t.sent = tick.sent /\ t.seen = tick.seen
      /\ tick.fresh => t.row = tick.row
      /\ ~tick.fresh => t.row = Reading
  BY <1>1, RefreshedFacts
<1>3. tick.step = "kind" /\ tick.kind <= Len(Kinds) /\ Kind \in AllKinds /\ Kind \in Ahead
  BY <1>1, ConsiderCases, AtKind
<1>4. UNCHANGED <<world, config, known, lastFailed, told, lost, mixed, faults>>
  BY DEF Consider
<1>5. \A k \in OfVersion : t.row[k] <= latest[k] /\ (k \in Ahead => t.row[k] >= known[k])
  <2> TAKE k \in OfVersion
  <2>1. k \in AllKinds /\ latest[k] \in Nat /\ known[k] \in Nat
    BY <1>1, KindFacts, NumbersOf
  <2>2. Reading[k] = latest[k]
    BY <1>1, ReadingType DEF TypeOK
  <2>3. tick.row[k] <= latest[k] /\ known[k] <= latest[k]
        /\ (k \in Ahead /\ tick.fresh => tick.row[k] >= known[k])
    BY <1>3 DEF Inv, VersionsGrow, Untouched
  <2> QED BY <1>2, <2>1, <2>2, <2>3
<1>6. /\ \A k \in AllKinds, v \in Versions :
           told'[k][v] >= told[k][v] /\ told'[k][v] + lost[k] <= told[k][v] + lost'[k]
      /\ \A k \in AllKinds : lost'[k] <= faults'
  BY <1>1, <1>4, NumbersOf DEF Inv, LossesAreFaults
<1>7. ASSUME tick' \in Ticks, tick'.step # "idle" PROVE TypeOK'
  BY <1>1, <1>4, <1>7 DEF TypeOK, Ticks
<1> HIDE DEF t
<1>8. CASE tick' = NextKind(t)
  <2>1. TypeOK'
    BY <1>1, <1>2, <1>3, <1>7, <1>8, MovedOn
  <2>2. \A k \in AllKinds : t.known[k] = tick.known[k]
                             \/ (k = Kind /\ k \in OfState /\ t.known[k] = 0)
    BY <1>2
  <2> QED BY <1>1, <1>2, <1>3, <1>4, <1>5, <1>6, <1>8, <2>1, <2>2, MoveKeeps
<1>9. CASE ToClear(t, Kind) /\ tick' = NextKind([t EXCEPT !.known[Kind] = 0])
  <2> DEFINE u == [t EXCEPT !.known[Kind] = 0]
  <2>1. /\ u \in Ticks /\ u.kind = tick.kind /\ u.sent = tick.sent /\ u.row = t.row
        /\ u.fresh = t.fresh
        /\ \A k \in AllKinds : u.known[k] = IF k = Kind THEN 0 ELSE t.known[k]
    BY <1>1, <1>2, <1>3, Noted, StateFacts
  <2>2. Kind \in OfState
    BY <1>9 DEF ToClear
  <2>3. tick' = NextKind(u)
    BY <1>9
  <2> HIDE DEF u
  <2>4. TypeOK'
    BY <1>3, <1>7, <2>1, <2>3, MovedOn
  <2>5. \A k \in AllKinds : u.known[k] = tick.known[k]
                             \/ (k = Kind /\ k \in OfState /\ u.known[k] = 0)
    BY <1>2, <2>1, <2>2
  <2>6. \A k \in OfVersion : u.row[k] <= latest[k] /\ (k \in Ahead => u.row[k] >= known[k])
    BY <1>5, <2>1
  <2> QED BY <1>3, <1>4, <1>6, <2>1, <2>3, <2>4, <2>5, <2>6, MoveKeeps
<1>10. CASE /\ ToSend(t, Kind)
            /\ tick' = [t EXCEPT !.step = "sending", !.record = Recorded(t, Kind)]
  <2> DEFINE r == Recorded(t, Kind)
  <2>1. /\ t.seen[Kind] # 0 /\ r # t.known[Kind] /\ r \in States
        /\ Kind \in OfState => r = t.seen[Kind]
        /\ Kind \notin OfState => r = t.row[Kind]
    <3>1. t.seen \in Readings /\ t.row \in Readings
      BY <1>1 DEF Ticks
    <3> QED BY <1>3, <1>10, <3>1, StateFacts DEF Recorded, ToSend
  <2> HIDE DEF r
  <2>2. tick' = [t EXCEPT !.step = "sending", !.record = r]
    BY <1>10 DEF r
  <2>3. tick' \in Ticks
    BY <1>1, <2>1, <2>2, Zenon DEF Ticks
  <2>4. /\ tick'.step = "sending" /\ tick'.record = r /\ tick'.kind = tick.kind
        /\ tick'.known = tick.known /\ tick'.row = t.row /\ tick'.sent = tick.sent
        /\ tick'.seen = tick.seen
    BY <1>1, <1>2, <2>2 DEF Ticks
  <2>5. TypeOK'
    BY <1>7, <2>3, <2>4
  <2>6. Kind' = Kind /\ Ahead' = Ahead /\ \A k : ~InLog(k) /\ ~InLog(k)'
    BY <1>3, <2>4 DEF Kind, Ahead, InLog
  <2>7. known[Kind] = tick.known[Kind] /\ Kind \notin tick.sent
    BY <1>3, <2>6 DEF Inv, Untouched
  <2>8. r > known[Kind] /\ (Kind \in OfVersion => r <= latest[Kind])
    <3>1. r \in Nat /\ known[Kind] \in Nat /\ r # known[Kind]
      BY <1>1, <1>2, <1>3, <2>1, <2>7, NumbersOf, StateFacts
    <3>2. CASE Kind \in OfState
      <4>1. known[Kind] \in {0, 1} /\ tick.seen[Kind] \in {0, 1} /\ Kind \notin OfVersion
        BY <1>1, <3>2, KindFacts, StateFacts DEF TypeOK, Ticks
      <4> QED BY <1>2, <2>1, <3>1, <3>2, <4>1
    <3>3. CASE Kind \in OfVersion
      <4>1. Kind \notin OfState
        BY <3>3, KindFacts
      <4> QED BY <1>3, <1>5, <2>1, <3>1, <3>3, <4>1
    <3> QED BY <1>3, <3>2, <3>3, KindFacts
  <2>9. Mailing'
    BY <1>2, <1>3, <1>4, <2>1, <2>4, <2>6, <2>8 DEF Mailing
  <2>10. Untouched'
    BY <1>3, <1>4, <1>5, <2>4, <2>6 DEF Inv, Untouched
  <2>11. Uncommitted'
    BY <1>3, <1>4, <2>4, <2>6 DEF Inv, Uncommitted
  <2>12. VersionsGrow'
    BY <1>4, <1>5, <2>4 DEF Inv, VersionsGrow
  <2>13. AllBacked' /\ LossesAreFaults'
    BY <1>3, <1>4, <2>4 DEF Inv, AllBacked, Backed, LossesAreFaults
  <2>14. Counted'
    <3>1. \A k : Reach(k)' = Reach(k)
      BY <1>4, <2>4, <2>6 DEF Reach
    <3> QED BY <1>4, <3>1 DEF Inv, Counted
  <2> QED BY <2>5, <2>9, <2>10, <2>11, <2>12, <2>13, <2>14 DEF Inv
<1> QED BY <1>1, <1>8, <1>9, <1>10, ConsiderCases DEF t

LEMMA SendKeeps == ASSUME Inv, Send, UNCHANGED profile PROVE Inv'
<1> USE DEF world, config
<1>1. TypeOK /\ tick \in Ticks /\ tick.step = "sending" /\ tick.kind <= Len(Kinds)
      /\ Kind \in AllKinds /\ Kind \in Ahead /\ tick.seen[Kind] # 0
  BY TypeTick, AtKind DEF Inv, Mailing, Send
<1>2. tick' = [tick EXCEPT !.step = "logging", !.sent = tick.sent \cup {Kind}]
  BY DEF Send
<1>3. tick' \in Ticks
  <2>1. tick.sent \cup {Kind} \in SUBSET AllKinds
    BY <1>1 DEF Ticks
  <2> QED BY <1>1, <1>2, <2>1, Zenon DEF Ticks
<1>4. /\ tick'.step = "logging" /\ tick'.kind = tick.kind /\ tick'.seen = tick.seen
      /\ tick'.known = tick.known /\ tick'.row = tick.row /\ tick'.fresh = tick.fresh
      /\ tick'.record = tick.record /\ tick'.sent = tick.sent \cup {Kind}
  BY <1>1, <1>2 DEF Ticks
<1>5. Kind' = Kind /\ Ahead' = Ahead /\ \A k : ~InLog(k) /\ (InLog(k)' <=> k = Kind)
  BY <1>1, <1>4 DEF Kind, Ahead, InLog
<1>6. /\ UNCHANGED <<world, config, known, lastFailed, lost, faults>>
      /\ mixed' = IF tick.record = tick.seen[Kind] THEN mixed ELSE mixed \cup {Kind}
  BY DEF Send
<1>7. /\ tick.seen[Kind] \in Versions
      /\ told' \in [AllKinds -> [Versions -> Nat]]
      /\ \A j \in AllKinds, v \in Versions :
           told'[j][v] = IF j = Kind /\ v = tick.seen[Kind] THEN told[j][v] + 1 ELSE told[j][v]
  <2>1. told' = [told EXCEPT ![Kind][tick.seen[Kind]] = @ + 1] /\ 1 \in {0, 1}
    BY DEF Send, Mailed
  <2> QED BY <1>1, <2>1, OneMore
<1>8. \A j \in AllKinds, v \in Versions : told[j][v] \in Nat /\ told'[j][v] \in Nat /\ told'[j][v] >= told[j][v]
  BY <1>1, <1>7, NumbersOf
<1>9. Kind \notin tick.sent /\ tick.known[Kind] = known[Kind]
  BY <1>1, <1>5 DEF Inv, Untouched
<1>10. mixed \subseteq mixed' /\ (tick.record # tick.seen[Kind] => Kind \in mixed')
  BY <1>6
<1>11. TypeOK'
  <2>1. mixed' \subseteq OfVersion
    <3>1. Kind \in OfState => tick.record = tick.seen[Kind]
      BY <1>1 DEF Inv, Mailing
    <3> QED BY <1>1, <1>6, <3>1, KindFacts DEF TypeOK
  <2> QED BY <1>1, <1>3, <1>4, <1>6, <1>7, <2>1 DEF TypeOK, Ticks
<1>12. Mailing' /\ Untouched' /\ VersionsGrow' /\ LossesAreFaults'
  <2>1. Mailing'
    BY <1>1, <1>4, <1>5, <1>6 DEF Inv, Mailing
  <2>2. Untouched'
    BY <1>1, <1>4, <1>5, <1>6 DEF Inv, Untouched
  <2>3. VersionsGrow' /\ LossesAreFaults'
    BY <1>4, <1>6 DEF Inv, VersionsGrow, LossesAreFaults
  <2> QED BY <2>1, <2>2, <2>3
<1>13. Uncommitted'
  BY <1>1, <1>4, <1>5, <1>6 DEF Inv, Uncommitted
<1>14. AllBacked'
  <2>1. ASSUME NEW k \in AllKinds, NEW v \in States, Backed(k, v) PROVE (v # 0 => told'[k][v] > 0 \/ k \in mixed')
    <3> SUFFICES ASSUME v # 0, k \notin mixed' PROVE told'[k][v] > 0
      OBVIOUS
    <3>1. v \in Versions /\ told[k][v] > 0
      BY <1>10, <2>1 DEF Backed, States
    <3> QED BY <1>8, <3>1
  <2>2. tick.record # 0 => told'[Kind][tick.record] > 0 \/ Kind \in mixed'
    <3> SUFFICES ASSUME tick.record = tick.seen[Kind] PROVE told'[Kind][tick.record] > 0
      BY <1>10
    <3>1. told'[Kind][tick.seen[Kind]] = told[Kind][tick.seen[Kind]] + 1
      BY <1>1, <1>7
    <3> QED BY <1>1, <1>7, <1>8, <3>1
  <2>3. \A k \in AllKinds : known[k] \in States /\ tick.known[k] \in States
    BY <1>1, NumbersOf
  <2>4. \A k \in AllKinds : Backed(k, known[k]) /\ Backed(k, tick.known[k])
    BY <1>1 DEF Inv, AllBacked
  <2>5. \A k \in AllKinds : /\ known[k] # 0 => told'[k][known[k]] > 0 \/ k \in mixed'
                            /\ tick.known[k] # 0 => told'[k][tick.known[k]] > 0 \/ k \in mixed'
    BY <2>1, <2>3, <2>4
  <2> QED BY <1>4, <1>5, <1>6, <2>2, <2>5 DEF AllBacked, Backed
<1>15. Counted'
  <2> SUFFICES ASSUME NEW k \in AllKinds, NEW v \in Versions, k \notin mixed'
               PROVE  told'[k][v] <= lost[k] + (IF v <= Reach(k)' THEN 1 ELSE 0)
    BY <1>6 DEF Counted
  <2>1. told[k][v] <= lost[k] + (IF v <= Reach(k) THEN 1 ELSE 0)
    BY <1>10 DEF Inv, Counted
  <2>2. lost[k] \in Nat /\ v \in Nat
    BY <1>1, NumbersOf
  <2>3. CASE k # Kind
    <3>1. Reach(k)' = Reach(k) /\ told'[k][v] = told[k][v]
      BY <1>4, <1>5, <1>6, <1>7, <2>3 DEF Reach
    <3> QED BY <2>1, <3>1
  <2>4. CASE k = Kind
    <3>1. Reach(k) = known[k] /\ Reach(k)' = tick.record
      BY <1>4, <1>5, <1>9, <2>4 DEF Reach
    <3>2. tick.record = tick.seen[k] /\ tick.record > known[k]
          /\ tick.record \in Nat /\ known[k] \in Nat
      BY <1>1, <1>10, <2>4, NumbersOf DEF Inv, Mailing
    <3>3. told'[k][v] = IF v = tick.record THEN told[k][v] + 1 ELSE told[k][v]
      BY <1>7, <2>4, <3>2
    <3>4. CASE v = tick.record
      <4>1. ~(v <= known[k])
        BY <2>2, <3>2, <3>4
      <4> QED BY <1>8, <2>1, <2>2, <3>1, <3>3, <3>4, <4>1
    <3>5. CASE v # tick.record
      <4>1. v <= known[k] => v <= tick.record
        BY <2>2, <3>2
      <4> QED BY <1>8, <2>1, <2>2, <3>1, <3>3, <3>5, <4>1
    <3> QED BY <3>4, <3>5
  <2> QED BY <2>3, <2>4
<1> QED BY <1>11, <1>12, <1>13, <1>14, <1>15 DEF Inv

\* What a commit leaves on record. Only flags the session has cleared start
\* their books again; no e-mail that is out goes uncounted.
LEMMA CommitFacts ==
  ASSUME Inv, tick.step # "idle", UNCHANGED mixed,
         NEW mails \in [AllKinds -> [Versions -> Nat]],
         NEW misses \in [AllKinds -> Nat],
         \A k \in AllKinds : misses[k] <= MaxFaults /\ misses[k] <= faults',
         Commit(mails, misses), faults' \in Nat,
         \A k \in AllKinds, v \in Versions :
           mails[k][v] >= told[k][v] /\ mails[k][v] + lost[k] <= told[k][v] + misses[k]
  PROVE  /\ known' = tick.known
         /\ known' \in Readings
         /\ told' \in [AllKinds -> [Versions -> Nat]]
         /\ lost' \in [AllKinds -> 0..MaxFaults]
         /\ \A k \in AllKinds : known'[k] # 0 => told'[k][known'[k]] > 0 \/ k \in mixed
         /\ tick.step = "logging" =>
              (tick.record # 0 => told'[Kind][tick.record] > 0 \/ Kind \in mixed)
         /\ \A k \in AllKinds, v \in Versions :
              k \in mixed \/ told'[k][v] <= lost'[k]
                             + (IF v <= (IF InLog(k) THEN tick.record ELSE tick.known[k])
                                THEN 1 ELSE 0)
         /\ LossesAreFaults'
<1>1. TypeOK
  BY DEF Inv
<1>2. /\ known' = tick.known /\ known' \in Readings
      /\ told' \in [AllKinds -> [Versions -> Nat]]
      /\ lost' \in [AllKinds -> 0..MaxFaults]
      /\ \A k \in AllKinds : lost'[k] = IF Ended(k) THEN 0 ELSE misses[k]
      /\ \A k \in AllKinds, v \in Versions : told'[k][v] = IF Ended(k) THEN 0 ELSE mails[k][v]
  BY <1>1, CommitType
<1>3. \A k \in AllKinds : tick.known[k] # 0 => ~Ended(k)
  BY DEF Ended
<1>4. tick.step = "logging" =>
        /\ Kind \in AllKinds /\ ~Ended(Kind) /\ tick.known[Kind] = known[Kind]
        /\ Kind \in tick.sent
  <2> SUFFICES ASSUME tick.step = "logging"
               PROVE  /\ Kind \in AllKinds /\ ~Ended(Kind) /\ tick.known[Kind] = known[Kind]
                      /\ Kind \in tick.sent
    OBVIOUS
  <2>1. tick \in Ticks /\ tick.kind <= Len(Kinds)
    BY <1>1, TypeTick DEF Inv, Mailing
  <2>2. Kind \in AllKinds /\ Kind \in Ahead
    BY <2>1, AtKind
  <2>3. tick.known[Kind] = known[Kind]
    BY <2>2 DEF Inv, Untouched
  <2>4. Kind \in tick.sent
    BY <2>2 DEF Inv, Uncommitted, InLog
  <2> QED BY <2>2, <2>3, <2>4 DEF Ended
<1>5. ASSUME NEW k \in AllKinds, NEW v \in States, v # 0, ~Ended(k), Backed(k, v)
      PROVE  told'[k][v] > 0 \/ k \in mixed
  <2>1. v \in Versions
    BY <1>5 DEF States
  <2>2. told'[k][v] = mails[k][v] /\ mails[k][v] >= told[k][v] /\ told[k][v] \in Nat /\ mails[k][v] \in Nat
    BY <1>1, <1>2, <1>5, <2>1, NumbersOf
  <2> QED BY <1>5, <2>2 DEF Backed
<1>6. \A k \in AllKinds : known'[k] # 0 => told'[k][known'[k]] > 0 \/ k \in mixed
  <2> SUFFICES ASSUME NEW k \in AllKinds, tick.known[k] # 0
               PROVE  told'[k][tick.known[k]] > 0 \/ k \in mixed
    BY <1>2
  <2>1. Backed(k, tick.known[k]) /\ tick.known[k] \in States
    BY <1>1, NumbersOf DEF Inv, AllBacked
  <2> QED BY <1>3, <1>5, <2>1
<1>7. tick.step = "logging" =>
        (tick.record # 0 => told'[Kind][tick.record] > 0 \/ Kind \in mixed)
  <2>1. tick.step = "logging" => Backed(Kind, tick.record) /\ tick.record \in States
    BY <1>1, NumbersOf DEF Inv, AllBacked
  <2> QED BY <1>4, <1>5, <2>1
<1>8. ASSUME NEW k \in AllKinds, NEW v \in Versions, k \notin mixed
      PROVE  told'[k][v] <= lost'[k] + (IF v <= (IF InLog(k) THEN tick.record ELSE tick.known[k])
                                        THEN 1 ELSE 0)
  <2>1. CASE Ended(k)
    BY <1>2, <2>1
  <2>2. CASE ~Ended(k)
    <3>1. Reach(k) = IF InLog(k) THEN tick.record ELSE tick.known[k]
      <4>1. CASE k \in tick.sent
        BY <4>1 DEF Reach
      <4>2. CASE k \notin tick.sent
        <5>1. ~InLog(k) /\ Reach(k) = known[k]
          BY <1>4, <4>2 DEF InLog, Reach
        <5>2. tick.known[k] = known[k] \/ (k \in OfState /\ tick.known[k] = 0)
          BY <4>2 DEF Inv, Uncommitted
        <5>3. tick.known[k] = known[k]
          BY <2>2, <5>2 DEF Ended
        <5> QED BY <5>1, <5>3
      <4> QED BY <4>1, <4>2
    <3> DEFINE extra == IF v <= Reach(k) THEN 1 ELSE 0
    <3>2. told[k][v] <= lost[k] + extra /\ extra \in Nat
      BY <1>8 DEF Inv, Counted
    <3>3. /\ told[k][v] \in Nat /\ lost[k] \in Nat /\ mails[k][v] \in Nat /\ misses[k] \in Nat
          /\ told'[k][v] = mails[k][v] /\ lost'[k] = misses[k]
          /\ mails[k][v] + lost[k] <= told[k][v] + misses[k]
      BY <1>1, <1>2, <2>2, NumbersOf
    <3> HIDE DEF extra
    <3>4. told'[k][v] <= lost'[k] + extra
      BY <3>2, <3>3
    <3> QED BY <3>1, <3>4 DEF extra
  <2> QED BY <2>1, <2>2
<1>9. LossesAreFaults'
  BY <1>2 DEF LossesAreFaults
<1> QED BY <1>2, <1>6, <1>7, <1>8, <1>9

\* After a commit the session shows nothing the books do not.
LEMMA FreshKeeps ==
  ASSUME Inv, TypeOK', tick.step # "idle", tick.kind <= Len(Kinds), UNCHANGED <<latest, mixed>>,
         known' = tick.known, LossesAreFaults',
         \A k \in AllKinds : known'[k] # 0 => told'[k][known'[k]] > 0 \/ k \in mixed,
         \A k \in AllKinds, v \in Versions :
           k \in mixed \/ told'[k][v] <= lost'[k]
                          + (IF v <= (IF InLog(k) THEN tick.record ELSE tick.known[k])
                             THEN 1 ELSE 0),
         tick'.step = "kind", tick'.kind = tick.kind + 1, tick'.fresh = FALSE,
         tick'.row = tick.row,
         tick'.sent = {k \in AllKinds : InLog(k)},
         \A k \in AllKinds : tick'.known[k] = IF InLog(k) THEN tick.record ELSE tick.known[k],
         tick.step = "logging" =>
           (tick.record # 0 => told'[Kind][tick.record] > 0 \/ Kind \in mixed)
  PROVE  Inv'
<1>1. TypeOK /\ tick \in Ticks
  BY TypeTick DEF Inv
<1>2. Ahead' \subseteq Ahead /\ Kind \notin Ahead' /\ Ahead \subseteq AllKinds /\ Kind \in AllKinds
  BY <1>1, AtKind DEF Ahead
<1>3. Mailing' /\ \A k : ~InLog(k)'
  BY DEF Mailing, InLog
<1>4. \A k : InLog(k) => /\ k = Kind /\ tick.step = "logging" /\ tick.record # 0
                         /\ (k \in OfVersion => tick.record <= latest[k])
  <2>1. tick.record \in Nat /\ known[Kind] \in Nat
    BY <1>1, <1>2, NumbersOf
  <2> QED BY <2>1 DEF InLog, Inv, Mailing
<1>5. Untouched'
  BY <1>2, <1>4 DEF Untouched
<1>6. Uncommitted'
  BY <1>3, <1>4 DEF Uncommitted
<1>7. VersionsGrow'
  <2>1. \A k \in OfVersion : k \in AllKinds
    BY KindFacts
  <2> QED BY <1>4, <2>1 DEF Inv, VersionsGrow
<1>8. AllBacked'
  <2>1. \A k \in AllKinds : Backed(k, known[k])'
    BY DEF Backed
  <2>2. \A k \in AllKinds : tick'.known[k] # 0 => told'[k][tick'.known[k]] > 0 \/ k \in mixed
    BY <1>4
  <2> QED BY <2>1, <2>2 DEF AllBacked, Backed
<1>9. Counted'
  <2>1. \A k \in AllKinds : Reach(k)' = IF InLog(k) THEN tick.record ELSE tick.known[k]
    <3> TAKE k \in AllKinds
    <3>1. CASE InLog(k)
      BY <1>3, <3>1 DEF Reach
    <3>2. CASE ~InLog(k)
      BY <1>3, <3>2 DEF Reach
    <3> QED BY <3>1, <3>2
  <2> QED BY <2>1 DEF Counted
<1> QED BY <1>3, <1>5, <1>6, <1>7, <1>8, <1>9 DEF Inv

LEMMA LogKeeps == ASSUME Inv, LogMail, UNCHANGED profile PROVE Inv'
<1> USE DEF world, config
<1>1. TypeOK /\ tick \in Ticks /\ tick.step = "logging" /\ tick.kind <= Len(Kinds)
      /\ Kind \in AllKinds /\ tick.record \in States
      /\ (Kind \in OfState => tick.record \in {0, 1})
  <2>1. TypeOK /\ tick \in Ticks /\ tick.step = "logging" /\ tick.kind <= Len(Kinds)
        /\ Kind \in AllKinds /\ tick.record \in States
        /\ (Kind \in OfState => tick.record = tick.seen[Kind])
    BY TypeTick, AtKind DEF Inv, Mailing, LogMail, Ticks
  <2>2. tick.seen \in Readings
    BY <2>1 DEF Ticks
  <2> QED BY <2>1, <2>2, StateFacts
<1>2. UNCHANGED <<world, config, mixed, faults>> /\ lastFailed' = FALSE /\ Commit(told, lost)
  BY DEF LogMail
<1>3. /\ told \in [AllKinds -> [Versions -> Nat]] /\ lost \in [AllKinds -> Nat]
      /\ faults' \in Nat
      /\ \A k \in AllKinds : lost[k] <= MaxFaults /\ lost[k] <= faults'
      /\ \A k \in AllKinds, v \in Versions :
           told[k][v] >= told[k][v] /\ told[k][v] + lost[k] <= told[k][v] + lost[k]
  BY <1>1, <1>2, CountsType, NumbersOf DEF Inv, LossesAreFaults
<1>4. /\ known' = tick.known
      /\ known' \in Readings
      /\ told' \in [AllKinds -> [Versions -> Nat]]
      /\ lost' \in [AllKinds -> 0..MaxFaults]
      /\ \A k \in AllKinds : known'[k] # 0 => told'[k][known'[k]] > 0 \/ k \in mixed
      /\ tick.step = "logging" =>
           (tick.record # 0 => told'[Kind][tick.record] > 0 \/ Kind \in mixed)
      /\ \A k \in AllKinds, v \in Versions :
           k \in mixed \/ told'[k][v] <= lost'[k]
                          + (IF v <= (IF InLog(k) THEN tick.record ELSE tick.known[k])
                             THEN 1 ELSE 0)
      /\ LossesAreFaults'
  BY <1>1, <1>2, <1>3, CommitFacts
<1> DEFINE n == NextKind(tick)
           m == [n EXCEPT !.known[Kind] = tick.record]
<1>5. /\ n \in Ticks /\ n.step = "kind" /\ n.kind = tick.kind + 1 /\ n.known = tick.known
      /\ n.row = tick.row
  BY <1>1, MovedOn
<1>6. m \in Ticks /\ m.known = [n.known EXCEPT ![Kind] = tick.record]
      /\ (\A k \in AllKinds : m.known[k] = IF k = Kind THEN tick.record ELSE tick.known[k])
      /\ m.kind = tick.kind + 1 /\ m.row = tick.row
  <2> HIDE DEF n
  <2> QED BY <1>1, <1>5, Noted
<1>7. tick' = [m EXCEPT !.fresh = FALSE, !.sent = {Kind}]
  BY <1>5 DEF LogMail, Ticks
<1>8. m.step = "kind"
  <2> HIDE DEF n
  <2> QED BY <1>5 DEF Ticks
<1> HIDE DEF m, n
<1>9. tick' \in Ticks
  <2>1. {Kind} \in SUBSET AllKinds /\ FALSE \in BOOLEAN
    BY <1>1
  <2> QED BY <1>6, <1>7, <2>1, Zenon DEF Ticks
<1>10. /\ tick'.step = "kind" /\ tick'.kind = tick.kind + 1 /\ tick'.fresh = FALSE
       /\ tick'.row = tick.row /\ tick'.sent = {Kind}
       /\ \A k \in AllKinds : tick'.known[k] = IF k = Kind THEN tick.record ELSE tick.known[k]
  BY <1>6, <1>7, <1>8 DEF Ticks
<1>11. TypeOK'
  BY <1>1, <1>2, <1>4, <1>9, <1>10 DEF TypeOK, Ticks
<1>12. \A k \in AllKinds : InLog(k) <=> k = Kind
  BY <1>1 DEF InLog
<1>13. tick'.sent = {k \in AllKinds : InLog(k)}
       /\ \A k \in AllKinds : tick'.known[k] = IF InLog(k) THEN tick.record ELSE tick.known[k]
  BY <1>1, <1>10, <1>12
<1>14. tick.step # "idle" /\ UNCHANGED <<latest, mixed>>
  BY <1>1, <1>2
<1> QED BY <1>1, <1>4, <1>10, <1>11, <1>13, <1>14, FreshKeeps

LEMMA SendFailsKeeps == ASSUME Inv, SendFails, UNCHANGED profile PROVE Inv'
<1> USE DEF world, config
<1>1. TypeOK /\ tick \in Ticks /\ tick.step = "sending" /\ tick.kind <= Len(Kinds)
      /\ Kind \in AllKinds /\ Kind \in Ahead /\ tick.seen[Kind] # 0
  BY TypeTick, AtKind DEF Inv, Mailing, SendFails
<1>2. UNCHANGED <<world, config, mixed>> /\ faults \in Nat /\ faults' = faults + 1
      /\ faults' \in 0..profile.faults /\ faults' <= MaxFaults
  BY <1>1, FaultType DEF SendFails
<1> PICK out \in {0, 1} :
       LET mails == [told EXCEPT ![Kind][tick.seen[Kind]] = @ + out]
           misses == [lost EXCEPT ![Kind] = @ + out]
       IN  \/ /\ lastFailed /\ told' = mails /\ lost' = misses
              /\ tick' = NextKind(tick)
              /\ UNCHANGED <<known, lastFailed>>
           \/ /\ lastFailed' = TRUE /\ Commit(mails, misses)
              /\ tick' = [NextKind(tick) EXCEPT !.fresh = FALSE, !.sent = {}]
  BY DEF SendFails
<1> DEFINE mails == [told EXCEPT ![Kind][tick.seen[Kind]] = @ + out]
           misses == [lost EXCEPT ![Kind] = @ + out]
<1>3. /\ tick.seen[Kind] \in Versions
      /\ mails \in [AllKinds -> [Versions -> Nat]]
      /\ \A j \in AllKinds, v \in Versions :
           mails[j][v] = IF j = Kind /\ v = tick.seen[Kind] THEN told[j][v] + out ELSE told[j][v]
  BY <1>1, OneMore
<1>4. \A k \in AllKinds : lost[k] \in Nat /\ lost[k] <= faults
  BY <1>1, NumbersOf DEF Inv, LossesAreFaults
<1>5. /\ misses \in [AllKinds -> Nat]
      /\ \A k \in AllKinds : misses[k] = IF k = Kind THEN lost[k] + out ELSE lost[k]
  BY <1>1, <1>4 DEF TypeOK
<1> DEFINE step == \/ /\ lastFailed /\ told' = mails /\ lost' = misses
                      /\ tick' = NextKind(tick)
                      /\ UNCHANGED <<known, lastFailed>>
                   \/ /\ lastFailed' = TRUE /\ Commit(mails, misses)
                      /\ tick' = [NextKind(tick) EXCEPT !.fresh = FALSE, !.sent = {}]
<1>6. step
  OBVIOUS
<1> HIDE DEF mails, misses
<1>7. \A k \in AllKinds : misses[k] \in Nat /\ misses[k] <= faults' /\ misses[k] <= MaxFaults
  <2>1. MaxFaults \in Nat /\ faults' \in Nat
    BY <1>2, BoundAssumption
  <2> QED BY <1>2, <1>4, <1>5, <2>1
<1>8. \A k \in AllKinds, v \in Versions :
        /\ told[k][v] \in Nat /\ mails[k][v] >= told[k][v]
        /\ mails[k][v] + lost[k] <= told[k][v] + misses[k]
  <2> TAKE k \in AllKinds, v \in Versions
  <2>1. told[k][v] \in Nat /\ lost[k] \in Nat
    BY <1>1, NumbersOf
  <2> QED BY <1>3, <1>5, <2>1
<1>9. \A k : ~InLog(k)
  BY <1>1 DEF InLog
<1>10. /\ NextKind(tick) \in Ticks
       /\ NextKind(tick).step = "kind" /\ NextKind(tick).kind = tick.kind + 1
       /\ NextKind(tick).known = tick.known /\ NextKind(tick).row = tick.row
  BY <1>1, MovedOn
<1>11. CASE /\ lastFailed /\ told' = mails /\ lost' = misses
            /\ tick' = NextKind(tick) /\ UNCHANGED <<known, lastFailed>>
  <2>1. \A k \in AllKinds : misses[k] \in 0..MaxFaults
    BY <1>7, BoundAssumption
  <2>2. lost' \in [AllKinds -> 0..MaxFaults]
    <3>1. misses \in [AllKinds -> Nat]
      BY <1>5
    <3> QED BY <1>11, <2>1, <3>1
  <2>3. TypeOK'
    BY <1>1, <1>2, <1>3, <1>10, <1>11, <2>2 DEF TypeOK, Ticks
  <2>4. \A k \in OfVersion : tick.row[k] <= latest[k]
    BY DEF Inv, VersionsGrow
  <2>5. tick.fresh => \A k \in OfVersion : k \in Ahead => tick.row[k] >= known[k]
    BY <1>1 DEF Inv, Untouched
  <2>6. UNCHANGED <<known, latest, mixed>>
    BY <1>2, <1>11
  <2>7. /\ \A k \in AllKinds, v \in Versions :
             told'[k][v] >= told[k][v] /\ told'[k][v] + lost[k] <= told[k][v] + lost'[k]
        /\ \A k \in AllKinds : lost'[k] <= faults'
    BY <1>7, <1>8, <1>11
  <2> QED BY <1>1, <1>11, <2>3, <2>4, <2>5, <2>6, <2>7, MoveKeeps
<1>12. CASE /\ lastFailed' = TRUE /\ Commit(mails, misses)
            /\ tick' = [NextKind(tick) EXCEPT !.fresh = FALSE, !.sent = {}]
  <2>1. faults' \in Nat /\ tick.step # "idle" /\ mixed' = mixed
    BY <1>1, <1>2
  <2>2. /\ known' = tick.known
        /\ known' \in Readings
        /\ told' \in [AllKinds -> [Versions -> Nat]]
        /\ lost' \in [AllKinds -> 0..MaxFaults]
        /\ \A k \in AllKinds : known'[k] # 0 => told'[k][known'[k]] > 0 \/ k \in mixed
        /\ \A k \in AllKinds, v \in Versions :
             k \in mixed \/ told'[k][v] <= lost'[k]
                            + (IF v <= (IF InLog(k) THEN tick.record ELSE tick.known[k])
                               THEN 1 ELSE 0)
        /\ LossesAreFaults'
    BY <1>3, <1>5, <1>7, <1>8, <1>12, <2>1, CommitFacts
  <2>3. tick' \in Ticks
    <3>1. {} \in SUBSET AllKinds /\ FALSE \in BOOLEAN
      OBVIOUS
    <3> QED BY <1>10, <1>12, <3>1, Zenon DEF Ticks
  <2>4. /\ tick'.step = "kind" /\ tick'.kind = tick.kind + 1 /\ tick'.fresh = FALSE
        /\ tick'.row = tick.row /\ tick'.sent = {} /\ tick'.known = tick.known
    BY <1>10, <1>12 DEF Ticks
  <2>5. TypeOK'
    BY <1>1, <1>2, <1>12, <2>2, <2>3, <2>4 DEF TypeOK, Ticks
  <2>6. tick'.sent = {k \in AllKinds : InLog(k)}
        /\ \A k \in AllKinds : tick'.known[k] = IF InLog(k) THEN tick.record ELSE tick.known[k]
    BY <1>9, <2>4
  <2>7. UNCHANGED <<latest, mixed>>
    BY <1>2
  <2>8. tick.step # "logging"
    BY <1>1
  <2> QED BY <1>1, <2>1, <2>2, <2>4, <2>5, <2>6, <2>7, <2>8, FreshKeeps
<1> QED BY <1>6, <1>11, <1>12

\* With the session closed, only the books are left.
LEMMA ClosedKeeps ==
  ASSUME TypeOK', tick' = NoTick,
         \A k \in OfVersion : known'[k] <= latest'[k],
         \A k \in AllKinds : Backed(k, known[k])',
         \A k \in AllKinds, v \in Versions :
           k \in mixed' \/ told'[k][v] <= lost'[k] + (IF v <= known'[k] THEN 1 ELSE 0),
         LossesAreFaults'
  PROVE  Inv'
<1>1. tick'.step = "idle" /\ tick'.sent = {}
      /\ \A k \in AllKinds : tick'.known[k] = 0 /\ tick'.row[k] = 0
  BY DEF NoTick
<1>2. Mailing' /\ Untouched' /\ Uncommitted'
  BY <1>1 DEF Mailing, Untouched, Uncommitted
<1>3. VersionsGrow'
  <2> SUFFICES ASSUME NEW k \in OfVersion
               PROVE  known'[k] <= latest'[k] /\ tick'.known[k] <= latest'[k] /\ tick'.row[k] <= latest'[k]
    BY DEF VersionsGrow
  <2>1. k \in AllKinds /\ latest'[k] \in States
    BY KindFacts DEF TypeOK
  <2>2. latest'[k] \in Nat
    BY <2>1, StateFacts
  <2> QED BY <1>1, <2>1, <2>2
<1>4. AllBacked'
  BY <1>1 DEF AllBacked
<1>5. Counted'
  <2>1. \A k : Reach(k)' = known'[k]
    BY <1>1 DEF Reach
  <2> QED BY <2>1 DEF Counted
<1> QED BY <1>2, <1>3, <1>4, <1>5 DEF Inv

LEMMA EndKeeps == ASSUME Inv, TickEnd, UNCHANGED profile PROVE Inv'
<1> USE DEF world, config
<1>1. TypeOK /\ tick.step = "kind" /\ Commit(told, lost) /\ tick' = NoTick
      /\ UNCHANGED <<world, config, lastFailed, mixed, faults>>
  BY DEF Inv, TickEnd
<1>2. /\ told \in [AllKinds -> [Versions -> Nat]] /\ lost \in [AllKinds -> Nat]
      /\ faults' \in Nat
      /\ \A k \in AllKinds : lost[k] <= MaxFaults /\ lost[k] <= faults'
      /\ \A k \in AllKinds, v \in Versions :
           told[k][v] >= told[k][v] /\ told[k][v] + lost[k] <= told[k][v] + lost[k]
  BY <1>1, CountsType, NumbersOf DEF Inv, LossesAreFaults
<1>3. /\ known' = tick.known
      /\ known' \in Readings
      /\ told' \in [AllKinds -> [Versions -> Nat]]
      /\ lost' \in [AllKinds -> 0..MaxFaults]
      /\ \A k \in AllKinds : known'[k] # 0 => told'[k][known'[k]] > 0 \/ k \in mixed
      /\ \A k \in AllKinds, v \in Versions :
           k \in mixed \/ told'[k][v] <= lost'[k]
                          + (IF v <= (IF InLog(k) THEN tick.record ELSE tick.known[k])
                             THEN 1 ELSE 0)
      /\ LossesAreFaults'
  BY <1>1, <1>2, CommitFacts
<1>4. \A k : ~InLog(k)
  BY <1>1 DEF InLog
<1>5. TypeOK'
  BY <1>1, <1>3, NoTickType DEF TypeOK, Ticks
<1>6. \A k \in OfVersion : known'[k] <= latest'[k]
  BY <1>1, <1>3 DEF Inv, VersionsGrow
<1>7. \A k \in AllKinds : Backed(k, known[k])'
  BY <1>1, <1>3 DEF Backed
<1>8. \A k \in AllKinds, v \in Versions :
        k \in mixed' \/ told'[k][v] <= lost'[k] + (IF v <= known'[k] THEN 1 ELSE 0)
  BY <1>1, <1>3, <1>4
<1> QED BY <1>1, <1>3, <1>5, <1>6, <1>7, <1>8, ClosedKeeps

\* An e-mail that is lost with the session may go out again: it is counted.
LEMMA LostKeeps == ASSUME Inv, TickLost, UNCHANGED profile PROVE Inv'
<1> USE DEF world, config
<1>1. TypeOK /\ tick' = NoTick /\ tick \in Ticks /\ tick.step # "idle"
      /\ UNCHANGED <<world, config, known, lastFailed, told, mixed>>
  BY TypeTick DEF Inv, TickLost
<1>2. faults \in Nat /\ faults' = faults + 1 /\ faults' \in 0..profile.faults /\ faults' <= MaxFaults
  BY <1>1, FaultType DEF TickLost
<1>3. \A k \in AllKinds :
        /\ lost[k] \in Nat /\ lost[k] <= faults
        /\ lost'[k] = IF k \in tick.sent THEN lost[k] + 1 ELSE lost[k]
  BY <1>1, NumbersOf DEF Inv, LossesAreFaults, TickLost
<1>4. \A k \in AllKinds : lost'[k] \in 0..MaxFaults /\ lost'[k] <= faults'
  BY <1>2, <1>3, BoundAssumption
<1>5. TypeOK'
  <2>1. lost' \in [AllKinds -> 0..MaxFaults]
    <3>1. lost' = [k \in AllKinds |-> lost'[k]]
      BY DEF TickLost
    <3> QED BY <1>4, <3>1
  <2> QED BY <1>1, <1>2, <2>1, NoTickType DEF TypeOK, Ticks
<1>6. \A k \in OfVersion : known'[k] <= latest'[k]
  BY <1>1 DEF Inv, VersionsGrow
<1>7. \A k \in AllKinds : Backed(k, known[k])'
  BY <1>1 DEF Inv, AllBacked, Backed
<1>8. ASSUME NEW k \in AllKinds, NEW v \in Versions, k \notin mixed
      PROVE  told[k][v] <= lost'[k] + (IF v <= known[k] THEN 1 ELSE 0)
  <2>1. told[k][v] <= lost[k] + (IF v <= Reach(k) THEN 1 ELSE 0) /\ told[k][v] \in Nat
    BY <1>1, <1>8, NumbersOf DEF Inv, Counted
  <2>2. CASE k \in tick.sent
    <3>1. lost'[k] = lost[k] + 1 /\ lost[k] \in Nat
      BY <1>3, <2>2
    <3> QED BY <2>1, <3>1
  <2>3. CASE k \notin tick.sent
    BY <1>3, <2>1, <2>3 DEF Reach
  <2> QED BY <2>2, <2>3
<1>9. LossesAreFaults'
  BY <1>4 DEF LossesAreFaults
<1>10. \A k \in AllKinds, v \in Versions :
        k \in mixed' \/ told'[k][v] <= lost'[k] + (IF v <= known'[k] THEN 1 ELSE 0)
  BY <1>1, <1>8
<1> QED BY <1>1, <1>5, <1>6, <1>7, <1>9, <1>10, ClosedKeeps

LEMMA InvStep == Inv /\ [Next]_vars => Inv'
<1> SUFFICES ASSUME Inv, [Next]_vars PROVE Inv'
  OBVIOUS
<1>1. TypeOK
  BY DEF Inv
<1>2. ASSUME UNCHANGED <<mail, profile>>,
             \/ \E k \in OfState : ConditionChanges(k)
             \/ BatchStart \/ BatchCommit
             \/ \E a \in Accounts : BatchTest(a) \/ TestAccount(a)
             \/ UpdateCheck \/ SettingsChange
      PROVE  Inv'
  <2>1. TypeOK' /\ \A k \in OfVersion : latest'[k] >= latest[k]
    BY <1>1, <1>2, WorldType
  <2>2. UNCHANGED <<known, tick, told, lost, mixed, faults>>
    BY <1>2 DEF mail
  <2> QED BY <2>1, <2>2, WorldKeeps
<1>3. CASE TestAlert /\ UNCHANGED profile
  <2>1. TypeOK' /\ \A k \in OfVersion : latest'[k] = latest[k] /\ latest[k] \in Nat
    BY <1>1, <1>3, NumbersOf DEF TestAlert, TypeOK, world, config
  <2>2. UNCHANGED <<known, tick, told, lost, mixed, faults>>
    BY <1>3 DEF TestAlert
  <2>3. \A k \in OfVersion : latest'[k] >= latest[k]
    BY <2>1
  <2> QED BY <2>1, <2>2, <2>3, WorldKeeps
<1>4. CASE UNCHANGED vars
  <2>1. TypeOK' /\ \A k \in OfVersion : latest'[k] = latest[k] /\ latest[k] \in Nat
    BY <1>1, <1>4, NumbersOf DEF vars, TypeOK, world, config, mail
  <2>2. UNCHANGED <<known, tick, told, lost, mixed, faults>>
    BY <1>4 DEF vars, mail
  <2>3. \A k \in OfVersion : latest'[k] >= latest[k]
    BY <2>1
  <2> QED BY <2>1, <2>2, <2>3, WorldKeeps
<1>5. CASE TickStart /\ UNCHANGED profile
  BY <1>5, StartKeeps
<1>6. CASE Consider /\ UNCHANGED profile
  BY <1>6, ConsiderKeeps
<1>7. CASE Send /\ UNCHANGED profile
  BY <1>7, SendKeeps
<1>8. CASE SendFails /\ UNCHANGED profile
  BY <1>8, SendFailsKeeps
<1>9. CASE LogMail /\ UNCHANGED profile
  BY <1>9, LogKeeps
<1>10. CASE TickEnd /\ UNCHANGED profile
  BY <1>10, EndKeeps
<1>11. CASE TickLost /\ UNCHANGED profile
  BY <1>11, LostKeeps
<1>12. ASSUME NEW k \in OfState, ConditionChanges(k), UNCHANGED profile PROVE Inv'
  BY <1>2, <1>12 DEF ConditionChanges
<1>13. CASE (BatchStart \/ BatchCommit) /\ UNCHANGED profile
  BY <1>2, <1>13 DEF BatchStart, BatchCommit
<1>14. ASSUME NEW a \in Accounts, BatchTest(a) \/ TestAccount(a), UNCHANGED profile PROVE Inv'
  BY <1>2, <1>14 DEF BatchTest, TestAccount
<1>15. CASE (UpdateCheck \/ SettingsChange) /\ UNCHANGED profile
  BY <1>2, <1>15 DEF UpdateCheck, SettingsChange
<1> QED BY <1>3, <1>4, <1>5, <1>6, <1>7, <1>8, <1>9, <1>10, <1>11, <1>12, <1>13, <1>14, <1>15
        DEF Next

LEMMA Invariant == Spec => []Inv
BY InvInit, InvStep, PTL DEF Spec

-----------------------------------------------------------------------------
(***************************************************************************)
(* Theorems                                                                *)
(***************************************************************************)

\* The tick's session, the books and the settings keep their types: above all,
\* what a tick records about a condition is a flag and never a version.
THEOREM TypeCorrect == Spec => []TypeOK
<1>1. Inv => TypeOK
  BY DEF Inv
<1> QED BY <1>1, Invariant, PTL

\* No kind is ever on record as notified without an e-mail about that very
\* state having gone out (_alert_email_tick_sync's two loops and its commits).
THEOREM NoneNotifiedUnmailed == Spec => []NotifiedWasMailed
<1>1. Inv => NotifiedWasMailed
  BY DEF Inv, AllBacked, Backed, NotifiedWasMailed
<1> QED BY <1>1, Invariant, PTL

\* Each state of a kind is mailed once, plus once for each time that the note of
\* an e-mail was lost, however often ticks run, fail and are cut off.
THEOREM NoneMailedTwice == Spec => []MailedOnce
<1>1. Inv => MailedOnce
  <2> SUFFICES ASSUME Inv, NEW k \in AllKinds, NEW v \in Versions, k \notin mixed
               PROVE  told[k][v] <= 1 + lost[k]
    BY DEF MailedOnce
  <2>1. told[k][v] \in Nat /\ lost[k] \in Nat
    BY NumbersOf DEF Inv
  <2>2. told[k][v] <= lost[k] + (IF v <= Reach(k) THEN 1 ELSE 0)
    BY DEF Inv, Counted
  <2> QED BY <2>1, <2>2
<1> QED BY <1>1, Invariant, PTL

=============================================================================
