--------------------------- MODULE RateLimit_proofs ---------------------------
(***************************************************************************)
(* For any limits, connections, times and failures: no clock hour is       *)
(* permitted more messages than the limit each of them was evaluated with, *)
(* no stretch of time more than the bucket holds, a streak is unbroken, and *)
(* one that the alerts act on has let nothing through. The counter of a    *)
(* window that still runs is the number of its permitted messages, and the *)
(* one evaluation that is under way has read just that.                    *)
(***************************************************************************)
EXTENDS RateLimit, FiniteSetTheorems, SequenceTheorems, TLAPS

Evaluation == [busy : BOOLEAN, at : Times, limit : Limit, count : 0..MaxMessages,
               bucket : Bucket \cup {NoBucket}, streak : Streak]
Message == [at : Times, limit : Limit, outcome : Outcomes]

\* No counter is above the number of messages, and there is room for the one
\* under way.
Sizes ==
  /\ Len(log) <= MaxMessages
  /\ \A w \in Windows : counter[w] <= Len(log)
  /\ \A c \in Connections : eval[c].busy =>
       /\ Len(log) < MaxMessages /\ eval[c].count <= Len(log)
       /\ eval[c].at <= now /\ eval[c].limit \in profile.limits /\ eval[c].limit.hour # 0
       /\ eval[c].bucket # NoBucket => eval[c].bucket.at <= eval[c].at

\* What a counter counts, until its window is over.
SentIn(w) == {j \in Sent : WindowOf(log[j].at) = w}
Running(w) == now <= w * Hour + Hour
Counted == \A w \in Windows : Running(w) => counter[w] = Cardinality(SentIn(w))

\* What an evaluation has read is still so when it commits, but for a streak
\* that is cleared meanwhile.
EvalOK ==
  \A c \in Connections : eval[c].busy =>
    /\ now <= eval[c].at + 1
    /\ eval[c].count = counter[WindowOf(eval[c].at)]
    /\ \A i \in Messages : log[i].at <= eval[c].at
    /\ \A f \in {"start", "last"} : streak[f] \in {eval[c].streak[f], NoTime}

LogOK ==
  \A i \in Messages : log[i].at <= now /\ (AlwaysLimited => log[i].outcome # "free")
Quiet ==
  AlwaysLimited => \A i \in Messages :
    streak.start # NoTime /\ log[i].at > streak.start => log[i].outcome = "defer"

UpTo(i) == {j \in Sent : j <= i /\ WindowOf(log[j].at) = WindowOf(log[i].at)}

Inv == TypeOK /\ Sizes /\ Counted /\ EvalOK /\ LogOK /\ Quiet /\ HourlyCeiling

-----------------------------------------------------------------------------
LEMMA TimeFacts ==
  /\ Hour \in Nat /\ Hour > 0 /\ Gap \in Nat /\ Retain \in Nat /\ Hour <= Retain
  /\ MaxTime \in Nat /\ MaxMessages \in Nat /\ Times \subseteq Nat /\ NoTime \notin Nat
BY RateAssumption DEF Times

LEMMA Quotient ==
  ASSUME NEW a \in Nat, NEW h \in Nat, h > 0
  PROVE  a \div h \in Nat /\ h * (a \div h) <= a /\ a < h * (a \div h) + h
<1>1. a \div h \in Nat
  OBVIOUS
<1>2. h * (a \div h) <= a
  OBVIOUS
<1>3. a < h * (a \div h) + h
  OBVIOUS
<1> QED BY <1>1, <1>2, <1>3

\* A time lies in its window, and the bounds on time are one on windows.
LEMMA WindowFacts ==
  ASSUME NEW t \in Times
  PROVE  /\ WindowOf(t) \in Windows /\ WindowOf(t) \in Nat
         /\ WindowOf(t) * Hour <= t /\ t < WindowOf(t) * Hour + Hour
<1>1. ASSUME NEW a \in Nat
      PROVE  a \div Hour \in Nat /\ Hour * (a \div Hour) <= a /\ a < Hour * (a \div Hour) + Hour
  BY TimeFacts, Quotient
<1>2. t \in Nat /\ t <= MaxTime /\ MaxTime \in Nat
  BY TimeFacts DEF Times
<1> DEFINE p == t \div Hour
           q == MaxTime \div Hour
<1>3. p \in Nat /\ q \in Nat /\ Hour * p <= t /\ t < Hour * p + Hour
      /\ MaxTime < Hour * q + Hour
  BY <1>1, <1>2, TimeFacts
<1> HIDE DEF p, q
<1>4. Hour * p < Hour * (q + 1)
  BY <1>2, <1>3, TimeFacts
<1>5. p < q + 1
  BY <1>3, <1>4, TimeFacts
<1>6. p * Hour = Hour * p
  BY <1>3, TimeFacts
<1> QED BY <1>2, <1>3, <1>5, <1>6 DEF WindowOf, Windows, p, q

LEMMA Types ==
  ASSUME TypeOK
  PROVE  /\ eval \in [Connections -> Evaluation] /\ \A c \in Connections : eval[c] \in Evaluation
         /\ log \in Seq(Message) /\ Len(log) \in Nat
         /\ \A i \in Messages : log[i] \in Message /\ log[i].at \in Nat
         /\ now \in Nat /\ now \in Times
         /\ profile.limits \subseteq Limit /\ profile \in Profiles
         /\ limit \in Limit /\ limit \in profile.limits
         /\ profile.edits \in Nat /\ profile.fails \in Nat
         /\ \A w \in Windows : counter[w] \in Nat
<1>1. log \in Seq(Message) /\ profile \in Profiles /\ eval \in [Connections -> Evaluation]
  BY DEF TypeOK, Message, Evaluation
<1>2. Len(log) \in Nat /\ \A i \in Messages : log[i] \in Message
  BY <1>1, LenProperties, ElementOfSeq DEF Messages
<1>3. \A i \in Messages : log[i].at \in Nat
  BY <1>2, TimeFacts DEF Message
<1>4. profile.limits \subseteq Limit /\ profile.edits \in Nat /\ profile.fails \in Nat
  BY <1>1, RateAssumption
<1>5. now \in Times /\ limit \in profile.limits /\ \A w \in Windows : counter[w] \in Nat
  BY TimeFacts DEF TypeOK
<1> QED BY <1>1, <1>2, <1>3, <1>4, <1>5, TimeFacts

LEMMA TokensType ==
  ASSUME NEW b \in Bucket \cup {NoBucket}, NEW l \in Limit, NEW t \in Times,
         b # NoBucket => b.at <= t
  PROVE  Tokens(b, l, t) \in Nat
<1>1. l.hour \in Nat /\ l.burst \in Nat /\ t \in Nat /\ Hour \in Nat
  BY TimeFacts DEF Limit
<1>2. l.burst * Hour \in Nat
  BY <1>1
<1>3. CASE b = NoBucket
  BY <1>2, <1>3 DEF Tokens
<1>4. CASE b # NoBucket
  <2>1. b.tokens \in Nat /\ b.at \in Nat /\ b.at <= t
    BY <1>4, TimeFacts DEF Bucket
  <2>2. t - b.at \in Nat
    BY <1>1, <2>1
  <2>3. (t - b.at) * l.hour \in Nat
    BY <1>1, <2>2
  <2>4. b.tokens + (t - b.at) * l.hour \in Nat
    BY <2>1, <2>3
  <2> QED BY <1>2, <1>4, <2>4, Zenon DEF Tokens, Refill, Least
<1> QED BY <1>3, <1>4

LEMMA SentFinite ==
  ASSUME TypeOK
  PROVE  \A w : IsFiniteSet(SentIn(w)) /\ Cardinality(SentIn(w)) \in Nat
                /\ Len(log) + 1 \notin SentIn(w)
<1> SUFFICES ASSUME NEW w
             PROVE  IsFiniteSet(SentIn(w)) /\ Cardinality(SentIn(w)) \in Nat
                    /\ Len(log) + 1 \notin SentIn(w)
  OBVIOUS
<1>1. Len(log) \in Nat
  BY Types
<1>2. IsFiniteSet(Messages)
  BY <1>1, FS_Interval DEF Messages
<1>3. SentIn(w) \in SUBSET Messages
  BY DEF SentIn, Sent
<1>4. IsFiniteSet(SentIn(w))
  BY <1>2, <1>3, FS_Subset
<1>5. Len(log) + 1 \notin Messages
  BY <1>1 DEF Messages
<1> QED BY <1>3, <1>4, <1>5, FS_CardinalityType

\* One message more.
LEMMA OneMore ==
  ASSUME TypeOK, NEW m \in Message, log' = Append(log, m)
  PROVE  /\ log' \in Seq(Message) /\ Len(log') = Len(log) + 1 /\ log'[Len(log) + 1] = m
         /\ Messages' = Messages \cup {Len(log) + 1}
         /\ Len(log) + 1 \notin Messages
         /\ \A i \in Messages : log'[i] = log[i]
         /\ Sent' = IF m.outcome = "permit" THEN Sent \cup {Len(log) + 1} ELSE Sent
<1>1. log \in Seq(Message) /\ Len(log) \in Nat
  BY Types
<1>2. /\ log' \in Seq(Message) /\ Len(log') = Len(log) + 1 /\ log'[Len(log) + 1] = m
      /\ \A i \in Messages : log'[i] = log[i]
  BY <1>1, AppendProperties DEF Messages
<1>3. Messages' = Messages \cup {Len(log) + 1} /\ Len(log) + 1 \notin Messages
  BY <1>1, <1>2 DEF Messages
<1>4. Sent' = {i \in Messages \cup {Len(log) + 1} : log'[i].outcome = "permit"}
  BY <1>3 DEF Sent
<1>5. Sent' = Sent \cup {i \in {Len(log) + 1} : m.outcome = "permit"}
  BY <1>2, <1>4 DEF Sent
<1> QED BY <1>2, <1>3, <1>5

-----------------------------------------------------------------------------
LEMMA IdleType == Idle \in Evaluation /\ ~Idle.busy
<1>1. 0 \in Times /\ 0 \in 0..MaxMessages
  BY TimeFacts DEF Times
<1>2. [hour |-> 0, burst |-> 0] \in Limit
  BY DEF Limit
<1>3. NoStreak \in Streak
  BY DEF NoStreak, Streak
<1> QED BY <1>1, <1>2, <1>3 DEF Idle, Evaluation

\* After its commit or failure nothing is under way.
LEMMA EvalEnds ==
  ASSUME TypeOK, NEW c \in Connections, eval[c].busy, eval' = [eval EXCEPT ![c] = Idle]
  PROVE  eval' \in [Connections -> Evaluation] /\ \A d \in Connections : ~eval'[d].busy
<1>1. eval \in [Connections -> Evaluation]
  BY Types
<1>2. \A d \in Connections : d # c => ~eval[d].busy
  BY DEF TypeOK
<1>3. eval'[c] = Idle /\ \A d \in Connections : d # c => eval'[d] = eval[d]
  BY <1>1
<1>4. eval' \in [Connections -> Evaluation]
  BY <1>1, IdleType
<1>5. ASSUME NEW d \in Connections PROVE ~eval'[d].busy
  <2>1. CASE d = c
    BY <1>3, <2>1, IdleType
  <2>2. CASE d # c
    BY <1>2, <1>3, <2>2
  <2> QED BY <2>1, <2>2
<1> QED BY <1>4, <1>5

LEMMA StreakWritten ==
  ASSUME TypeOK, NEW old \in Streak, NEW new \in Streak, WriteStreak(old, new)
  PROVE  /\ streak' \in Streak
         /\ streak'.start = Column(old.start, new.start, streak.start)
         /\ streak'.last = Column(old.last, new.last, streak.last)
<1> DEFINE a == Column(old.start, new.start, streak.start)
           b == Column(old.last, new.last, streak.last)
<1>1. streak \in Streak
  BY DEF TypeOK
<1>2. a \in Times \cup {NoTime} /\ b \in Times \cup {NoTime}
  BY <1>1 DEF Column, Streak
<1>3. streak' = [start |-> a, last |-> b]
  BY DEF WriteStreak
<1> HIDE DEF a, b
<1>4. streak' \in Streak /\ streak'.start = a /\ streak'.last = b
  BY <1>2, <1>3 DEF Streak
<1> QED BY <1>4 DEF a, b

LEMMA CeilingStays ==
  ASSUME UNCHANGED log
  PROVE  /\ Messages' = Messages /\ Sent' = Sent /\ \A w : SentIn(w)' = SentIn(w)
         /\ HourlyCeiling => HourlyCeiling'
<1>1. Messages' = Messages /\ Sent' = Sent /\ log' = log
  BY DEF Messages, Sent
<1> QED BY <1>1 DEF SentIn, HourlyCeiling

\* A message that was not permitted.
LEMMA NotSent ==
  ASSUME TypeOK, HourlyCeiling, Counted, UNCHANGED <<now, counter>>,
         NEW m \in Message, log' = Append(log, m), m.outcome # "permit"
  PROVE  HourlyCeiling' /\ Counted'
<1>1. Sent' = Sent /\ \A i \in Messages : log'[i] = log[i]
  BY OneMore
<1>2. \A i \in Sent : i \in Messages
  BY DEF Sent
<1>3. \A w : SentIn(w)' = SentIn(w)
  BY <1>1, <1>2 DEF SentIn
<1>4. \A i \in Sent : {j \in Sent' : j <= i /\ WindowOf(log'[j].at) = WindowOf(log'[i].at)}
                    = {j \in Sent : j <= i /\ WindowOf(log[j].at) = WindowOf(log[i].at)}
  BY <1>1, <1>2
<1>5. HourlyCeiling'
  BY <1>1, <1>2, <1>4 DEF HourlyCeiling
<1> QED BY <1>3, <1>5 DEF Counted, Running

\* One that was.
LEMMA OneSent ==
  ASSUME TypeOK, HourlyCeiling, NEW m \in Message, log' = Append(log, m),
         m.outcome = "permit",
         Cardinality(SentIn(WindowOf(m.at))) < m.limit.hour
  PROVE  /\ HourlyCeiling'
         /\ \A w : w # WindowOf(m.at) => SentIn(w)' = SentIn(w)
         /\ \A w : w = WindowOf(m.at) =>
              Cardinality(SentIn(w)') = Cardinality(SentIn(w)) + 1
<1> DEFINE n == Len(log) + 1
           v == WindowOf(m.at)
<1>1. /\ Sent' = Sent \cup {n} /\ n \notin Sent /\ log'[n] = m /\ Len(log) \in Nat /\ n \in Nat
      /\ \A i \in Sent : i \in Messages /\ log'[i] = log[i] /\ i <= n /\ i \in Nat
  BY OneMore, Types DEF Sent, Messages
<1>2. \A w : w # v => SentIn(w)' = SentIn(w)
  BY <1>1 DEF SentIn
<1>3. ASSUME NEW w, w = v PROVE SentIn(w)' = SentIn(w) \cup {n}
  BY <1>1, <1>3 DEF SentIn
<1>4. \A w : IsFiniteSet(SentIn(w)) /\ Cardinality(SentIn(w)) \in Nat /\ n \notin SentIn(w)
  BY SentFinite
<1>5. ASSUME NEW w, w = v PROVE Cardinality(SentIn(w)') = Cardinality(SentIn(w)) + 1
  BY <1>3, <1>4, <1>5, FS_AddElement
<1>6. m.limit.hour \in Nat
  BY DEF Message, Limit
<1>7. ASSUME NEW i \in Sent'
      PROVE  Cardinality({j \in Sent' : j <= i /\ WindowOf(log'[j].at) = WindowOf(log'[i].at)})
               <= log'[i].limit.hour
  <2>1. CASE i = n
    <3>1. n <= n /\ \A j \in Sent' : j <= n
      BY <1>1
    <3>2. ASSUME NEW w, w = v
          PROVE  {j \in Sent' : j <= i /\ WindowOf(log'[j].at) = WindowOf(log'[i].at)} = SentIn(w)'
      BY <1>1, <2>1, <3>1, <3>2 DEF SentIn
    <3>3. ASSUME NEW w, w = v PROVE Cardinality(SentIn(w)') <= m.limit.hour
      BY <1>4, <1>5, <1>6, <3>3
    <3> QED BY <1>1, <2>1, <3>2, <3>3
  <2>2. CASE i # n
    <3>1. i \in Sent /\ ~(n <= i)
      BY <1>1, <1>7, <2>2, Types DEF Sent, Messages
    <3>2. {j \in Sent' : j <= i /\ WindowOf(log'[j].at) = WindowOf(log'[i].at)}
            = {j \in Sent : j <= i /\ WindowOf(log[j].at) = WindowOf(log[i].at)}
      BY <1>1, <3>1
    <3> QED BY <1>1, <3>1, <3>2 DEF HourlyCeiling
  <2> QED BY <2>1, <2>2
<1> QED BY <1>2, <1>5, <1>7 DEF HourlyCeiling

-----------------------------------------------------------------------------
LEMMA SameRows ==
  ASSUME Inv, TypeOK', UNCHANGED <<now, counter, streak, eval, log, profile>>
  PROVE  Inv'
<1>1. Messages' = Messages /\ (AlwaysLimited' <=> AlwaysLimited)
  BY DEF Messages, AlwaysLimited
<1>2. Sizes'
  BY DEF Inv, Sizes
<1>3. Counted' /\ HourlyCeiling'
  BY CeilingStays DEF Inv, Counted, Running
<1>4. EvalOK' /\ LogOK' /\ Quiet'
  BY <1>1 DEF Inv, EvalOK, LogOK, Quiet
<1> QED BY <1>2, <1>3, <1>4 DEF Inv

LEMMA SetLimitKeeps ==
  ASSUME Inv, NEW l \in profile.limits, SetLimit(l)
  PROVE  Inv'
<1>1. TypeOK'
  BY Types DEF Inv, TypeOK, SetLimit, policyRows
<1> QED BY <1>1, SameRows DEF SetLimit, policyRows

LEMMA TickKeeps ==
  ASSUME Inv, ChooseAbuser \/ DisableAbuser
  PROVE  Inv'
<1>1. TypeOK'
  BY DEF Inv, TypeOK, ChooseAbuser, DisableAbuser, policyRows, userRow
<1> QED BY <1>1, SameRows DEF ChooseAbuser, DisableAbuser, policyRows, userRow

LEMMA DisableKeeps ==
  ASSUME Inv, Disable
  PROVE  Inv'
<1>1. /\ enabled' = FALSE /\ edits < profile.edits /\ edits' = edits + 1
      /\ UNCHANGED <<now, limit, counter, bucket, streak, eval, tick, log, fails, profile>>
  BY DEF Disable, policyRows
<1>2. edits' \in 0..profile.edits
  BY <1>1, Types DEF Inv, TypeOK
<1>3. TypeOK'
  BY <1>1, <1>2, Zenon DEF Inv, TypeOK
<1> QED BY <1>1, <1>3, SameRows

LEMMA TimePassesKeeps ==
  ASSUME Inv, TimePasses
  PROVE  Inv'
<1>1. /\ now' = now + 1 /\ now \in Nat /\ now < MaxTime
      /\ \A c \in Connections : eval[c].busy => eval[c].at = now
      /\ counter' = counter /\ bucket' = bucket /\ streak' = streak /\ eval' = eval
      /\ log' = log /\ profile' = profile /\ limit' = limit /\ enabled' = enabled
      /\ tick' = tick /\ edits' = edits /\ fails' = fails
  BY Types DEF Inv, TimePasses, userRow, policyRows
<1>2. Messages' = Messages /\ (AlwaysLimited' <=> AlwaysLimited)
  BY <1>1 DEF Messages, AlwaysLimited
<1>3. now' \in Times /\ \A t \in Times : t <= now => t <= now'
  BY <1>1, TimeFacts DEF Times
<1>4. TypeOK'
  <2>1. bucket' # NoBucket => bucket'.at <= now'
    BY <1>1, <1>3, TimeFacts DEF Inv, TypeOK, Bucket
  <2> QED BY <1>1, <1>3, <2>1 DEF Inv, TypeOK
<1>5. Sizes'
  <2>1. ASSUME NEW c \in Connections, eval[c].busy PROVE eval[c].at <= now'
    BY <1>1, <2>1
  <2> QED BY <1>1, <2>1 DEF Inv, Sizes
<1>6. Counted' /\ HourlyCeiling'
  <2>1. ASSUME NEW w \in Windows, Running(w)' PROVE Running(w)
    <3>1. w \in Nat /\ Hour \in Nat
      BY TimeFacts DEF Windows
    <3>2. w * Hour + Hour \in Nat
      BY <3>1
    <3> QED BY <1>1, <2>1, <3>2 DEF Running
  <2> QED BY <1>1, <2>1, CeilingStays DEF Inv, Counted
<1>7. EvalOK'
  <2>1. ASSUME NEW c \in Connections, eval[c].busy PROVE now' <= eval[c].at + 1
    BY <1>1, <2>1
  <2> QED BY <1>1, <1>2, <2>1 DEF Inv, EvalOK
<1>8. LogOK'
  <2>1. \A i \in Messages : log[i].at \in Times
    BY Types DEF Inv, Message
  <2> QED BY <1>1, <1>2, <1>3, <2>1 DEF Inv, LogOK
<1>9. Quiet'
  BY <1>1, <1>2 DEF Inv, Quiet
<1> QED BY <1>4, <1>5, <1>6, <1>7, <1>8, <1>9 DEF Inv

LEMMA EnableKeeps ==
  ASSUME Inv, Enable
  PROVE  Inv'
<1>1. /\ enabled' = TRUE /\ streak' = NoStreak
      /\ UNCHANGED <<now, limit, counter, bucket, eval, tick, log, edits, fails, profile>>
  BY DEF Enable
<1>2. Messages' = Messages /\ (AlwaysLimited' <=> AlwaysLimited)
  BY <1>1 DEF Messages, AlwaysLimited
<1>3. NoStreak \in Streak /\ NoStreak.start = NoTime /\ NoStreak.last = NoTime
  BY DEF NoStreak, Streak
<1>4. TypeOK'
  BY <1>1, <1>3 DEF Inv, TypeOK
<1>5. Sizes'
  BY <1>1 DEF Inv, Sizes
<1>6. Counted' /\ HourlyCeiling'
  BY <1>1, CeilingStays DEF Inv, Counted, Running
<1>7. EvalOK'
  <2>1. \A f \in {"start", "last"} : streak'[f] = NoTime
    BY <1>1 DEF NoStreak
  <2> QED BY <1>1, <1>2, <2>1 DEF Inv, EvalOK
<1>8. LogOK' /\ Quiet'
  BY <1>1, <1>2, <1>3 DEF Inv, LogOK, Quiet
<1> QED BY <1>4, <1>5, <1>6, <1>7, <1>8 DEF Inv

\* What is deleted has ended, also for an evaluation that is under way.
LEMMA CleanupKeeps ==
  ASSUME Inv, Cleanup
  PROVE  Inv'
<1>1. /\ counter' = [w \in Windows |-> IF Expired(w) THEN 0 ELSE counter[w]]
      /\ UNCHANGED <<now, limit, enabled, bucket, streak, eval, tick, log, edits, fails, profile>>
  BY DEF Cleanup, userRow
<1>2. Messages' = Messages /\ (AlwaysLimited' <=> AlwaysLimited)
  BY <1>1 DEF Messages, AlwaysLimited
<1>3. ASSUME NEW w \in Windows, Expired(w) PROVE ~Running(w)
  <2>1. w \in Nat /\ Hour \in Nat /\ Retain \in Nat /\ Hour <= Retain /\ now \in Nat
    BY TimeFacts, Types DEF Windows, Inv
  <2>2. w * Hour \in Nat
    BY <2>1
  <2> QED BY <1>3, <2>1, <2>2 DEF Expired, Running
<1>4. \A w \in Windows : counter'[w] = IF Expired(w) THEN 0 ELSE counter[w]
  BY <1>1
<1>5. TypeOK'
  <2>1. counter' \in [Windows -> 0..MaxMessages]
    BY <1>1, TimeFacts DEF Inv, TypeOK
  <2> QED BY <1>1, <2>1 DEF Inv, TypeOK
<1>6. Sizes'
  <2>1. \A w \in Windows : counter'[w] <= Len(log)
    BY <1>4, Types DEF Inv, Sizes
  <2> QED BY <1>1, <2>1 DEF Inv, Sizes
<1>7. Counted' /\ HourlyCeiling'
  <2>1. \A w \in Windows : Running(w)' => Running(w) /\ counter'[w] = counter[w]
    BY <1>1, <1>3, <1>4 DEF Running
  <2> QED BY <1>1, <2>1, CeilingStays DEF Inv, Counted
<1>8. EvalOK'
  <2>1. ASSUME NEW c \in Connections, eval[c].busy
        PROVE  counter'[WindowOf(eval[c].at)] = counter[WindowOf(eval[c].at)]
    <3> DEFINE t == eval[c].at
    <3>1. t \in Times /\ t \in Nat /\ now \in Nat /\ now <= t + 1
      BY <2>1, Types, TimeFacts DEF Inv, EvalOK, Evaluation
    <3> HIDE DEF t
    <3>2. WindowOf(t) \in Windows /\ WindowOf(t) \in Nat /\ t < WindowOf(t) * Hour + Hour
      BY <3>1, WindowFacts
    <3>3. WindowOf(t) * Hour + Hour \in Nat
      BY <3>2, TimeFacts
    <3>4. Running(WindowOf(t))
      BY <3>1, <3>2, <3>3 DEF Running
    <3> QED BY <1>3, <1>4, <3>2, <3>4 DEF t
  <2> QED BY <1>1, <1>2, <2>1 DEF Inv, EvalOK
<1>9. LogOK' /\ Quiet'
  BY <1>1, <1>2 DEF Inv, LogOK, Quiet
<1> QED BY <1>5, <1>6, <1>7, <1>8, <1>9 DEF Inv

LEMMA ReadKeeps ==
  ASSUME Inv, NEW c \in Connections, Read(c)
  PROVE  Inv'
<1> DEFINE r == Reading
<1>1. /\ \A d \in Connections : ~eval[d].busy
      /\ Len(log) < MaxMessages /\ limit.hour # 0
      /\ eval' = [eval EXCEPT ![c] = r]
      /\ now' = now /\ counter' = counter /\ bucket' = bucket /\ streak' = streak
      /\ log' = log /\ profile' = profile /\ limit' = limit /\ enabled' = enabled
      /\ tick' = tick /\ edits' = edits /\ fails' = fails
  BY DEF Read, userRow, policyRows
<1>2. /\ TypeOK /\ now \in Times /\ limit \in Limit /\ limit \in profile.limits
      /\ eval \in [Connections -> Evaluation] /\ WindowOf(now) \in Windows
  BY Types, WindowFacts DEF Inv
<1>3. Messages' = Messages /\ (AlwaysLimited' <=> AlwaysLimited)
  BY <1>1 DEF Messages, AlwaysLimited
<1>4. /\ r \in Evaluation /\ r.busy /\ r.at = now /\ r.limit = limit /\ r.bucket = bucket
      /\ r.count = counter[WindowOf(now)] /\ r.streak = streak
  BY <1>2 DEF TypeOK, Reading, Evaluation
<1> HIDE DEF r
<1>5. eval'[c] = r /\ eval' \in [Connections -> Evaluation]
      /\ \A d \in Connections : d # c => ~eval'[d].busy
  <2>1. \A d \in Connections : d # c => eval'[d] = eval[d]
    BY <1>1, <1>2
  <2> QED BY <1>1, <1>2, <1>4, <2>1
<1>6. TypeOK'
  <2>1. \A d, e \in Connections : eval'[d].busy /\ eval'[e].busy => d = e
    BY <1>5
  <2> QED BY <1>1, <1>2, <1>5, <2>1 DEF TypeOK, Evaluation
<1>7. Sizes'
  <2>1. now <= now /\ (bucket # NoBucket => bucket.at <= now) /\ counter[WindowOf(now)] <= Len(log)
    BY <1>2, Types DEF Inv, TypeOK, Sizes
  <2>2. ASSUME NEW d \in Connections, eval'[d].busy
        PROVE  /\ Len(log) < MaxMessages /\ eval'[d].count <= Len(log)
               /\ eval'[d].at <= now /\ eval'[d].limit \in profile.limits
               /\ eval'[d].limit.hour # 0
               /\ eval'[d].bucket # NoBucket => eval'[d].bucket.at <= eval'[d].at
    <3>1. d = c
      BY <1>5, <2>2
    <3> QED BY <1>1, <1>2, <1>4, <1>5, <2>1, <3>1
  <2> QED BY <1>1, <2>2 DEF Inv, Sizes
<1>8. Counted' /\ HourlyCeiling'
  BY <1>1, CeilingStays DEF Inv, Counted, Running
<1>9. EvalOK'
  <2>1. ASSUME NEW d \in Connections, eval'[d].busy
        PROVE  /\ now <= eval'[d].at + 1
               /\ eval'[d].count = counter[WindowOf(eval'[d].at)]
               /\ \A i \in Messages : log[i].at <= eval'[d].at
               /\ \A f \in {"start", "last"} : streak[f] \in {eval'[d].streak[f], NoTime}
    <3>1. d = c
      BY <1>5, <2>1
    <3>2. now <= now + 1
      BY Types DEF Inv
    <3> QED BY <1>4, <1>5, <3>1, <3>2 DEF Inv, LogOK
  <2> QED BY <1>1, <1>3, <2>1 DEF EvalOK
<1>10. LogOK' /\ Quiet'
  BY <1>1, <1>3 DEF Inv, LogOK, Quiet
<1> QED BY <1>6, <1>7, <1>8, <1>9, <1>10 DEF Inv

-----------------------------------------------------------------------------
\* What is left to show of a step that ends an evaluation.
LEMMA AfterMessage ==
  ASSUME Inv, NEW m \in Message, log' = Append(log, m), UNCHANGED <<now, profile>>,
         TypeOK', Counted', HourlyCeiling', Len(log) < MaxMessages, m.at <= now,
         \A d \in Connections : ~eval'[d].busy,
         \A w \in Windows : counter'[w] <= Len(log) + 1,
         AlwaysLimited =>
           /\ m.outcome # "free"
           /\ streak'.start # NoTime =>
                /\ m.outcome = "defer"
                /\ \A i \in Messages : log[i].at > streak'.start => log[i].outcome = "defer"
  PROVE  Inv'
<1>1. /\ Messages' = Messages \cup {Len(log) + 1} /\ Len(log') = Len(log) + 1
      /\ log'[Len(log) + 1] = m /\ Len(log) + 1 \notin Messages
      /\ \A i \in Messages : log'[i] = log[i]
  BY OneMore DEF Inv
<1>2. Len(log) \in Nat /\ MaxMessages \in Nat
  BY Types, TimeFacts DEF Inv
<1>3. AlwaysLimited' <=> AlwaysLimited
  BY DEF AlwaysLimited
<1>4. Sizes'
  BY <1>1, <1>2 DEF Sizes
<1>5. EvalOK'
  BY DEF EvalOK
<1>6. LogOK'
  BY <1>1, <1>3 DEF Inv, LogOK
<1>7. Quiet'
  BY <1>1, <1>3 DEF Quiet
<1> QED BY <1>4, <1>5, <1>6, <1>7 DEF Inv

LEMMA UnlimitedKeeps ==
  ASSUME Inv, NEW c \in Connections, Unlimited(c)
  PROVE  Inv'
<1> DEFINE m == [at |-> now, limit |-> [hour |-> 0, burst |-> 0], outcome |-> "free"]
<1>1. /\ \A d \in Connections : ~eval[d].busy
      /\ Len(log) < MaxMessages /\ limit.hour = 0
      /\ now' = now /\ counter' = counter /\ bucket' = bucket /\ streak' = streak
      /\ eval' = eval /\ profile' = profile /\ limit' = limit /\ enabled' = enabled
      /\ tick' = tick /\ edits' = edits /\ fails' = fails
  BY DEF Unlimited, userRow, policyRows
<1>2. log' = Append(log, m)
  BY DEF Unlimited, Logged, Idle
<1>3. m \in Message /\ m.at = now /\ m.outcome = "free"
  BY Types DEF Inv, Message, Limit, Outcomes
<1> HIDE DEF m
<1>4. TypeOK /\ HourlyCeiling /\ Counted /\ Sizes
  BY DEF Inv
<1>5. TypeOK'
  BY <1>1, <1>2, <1>3, <1>4, OneMore DEF TypeOK, Message
<1>6. HourlyCeiling' /\ Counted'
  BY <1>1, <1>2, <1>3, <1>4, NotSent
<1>7. ~AlwaysLimited
  BY <1>1, Types DEF Inv, AlwaysLimited
<1>8. m.at <= now /\ \A w \in Windows : counter'[w] <= Len(log) + 1
  BY <1>1, <1>3, <1>4, Types DEF Sizes
<1> QED BY <1>1, <1>2, <1>3, <1>5, <1>6, <1>7, <1>8, AfterMessage

\* What the evaluation under way has read.
LEMMA Underway ==
  ASSUME Inv, NEW c \in Connections, eval[c].busy, NEW e, e = eval[c]
  PROVE  /\ e.at \in Times /\ e.at \in Nat /\ e.at <= now /\ e.limit \in Limit
         /\ e.limit.hour \in Nat /\ e.limit \in profile.limits
         /\ e.bucket \in Bucket \cup {NoBucket} /\ e.streak \in Streak
         /\ Tokens(e.bucket, e.limit, e.at) \in Nat
         /\ e.count \in Nat /\ e.count <= Len(log) /\ Len(log) < MaxMessages
         /\ WindowOf(e.at) \in Windows
         /\ e.count = counter[WindowOf(e.at)]
         /\ e.count = Cardinality(SentIn(WindowOf(e.at)))
         /\ \A i \in Messages : log[i].at <= e.at
         /\ streak.start \in {e.streak.start, NoTime}
<1>1. e \in Evaluation
  BY Types DEF Inv
<1>2. /\ e.at \in Times /\ e.at \in Nat /\ e.limit \in Limit /\ e.limit.hour \in Nat
      /\ e.bucket \in Bucket \cup {NoBucket} /\ e.streak \in Streak /\ e.count \in Nat
  BY <1>1, TimeFacts DEF Evaluation, Limit
<1>3. /\ Len(log) < MaxMessages /\ e.count <= Len(log)
      /\ e.at <= now /\ e.limit \in profile.limits
      /\ e.bucket # NoBucket => e.bucket.at <= e.at
  BY DEF Inv, Sizes
<1>4. /\ now <= e.at + 1 /\ e.count = counter[WindowOf(e.at)]
      /\ \A i \in Messages : log[i].at <= e.at
      /\ \A f \in {"start", "last"} : streak[f] \in {e.streak[f], NoTime}
  BY DEF Inv, EvalOK
<1>5. Tokens(e.bucket, e.limit, e.at) \in Nat
  BY <1>2, <1>3, TokensType
<1>6. WindowOf(e.at) \in Windows /\ WindowOf(e.at) \in Nat
      /\ e.at < WindowOf(e.at) * Hour + Hour
  BY <1>2, WindowFacts
<1>7. Running(WindowOf(e.at))
  <2>1. WindowOf(e.at) * Hour + Hour \in Nat /\ now \in Nat
    BY <1>6, TimeFacts, Types DEF Inv
  <2> QED BY <1>2, <1>4, <1>6, <2>1 DEF Running
<1>8. e.count = Cardinality(SentIn(WindowOf(e.at)))
  BY <1>4, <1>6, <1>7 DEF Inv, Counted
<1>9. streak.start \in {e.streak.start, NoTime}
  BY <1>4
<1> QED BY <1>2, <1>3, <1>4, <1>5, <1>6, <1>8, <1>9

LEMMA FailOpenKeeps ==
  ASSUME Inv, NEW c \in Connections, FailOpen(c)
  PROVE  Inv'
<1> DEFINE e == eval[c]
           m == [at |-> e.at, limit |-> e.limit, outcome |-> "free"]
<1>1. /\ eval[c].busy /\ fails < profile.fails /\ fails' = fails + 1
      /\ eval' = [eval EXCEPT ![c] = Idle]
      /\ now' = now /\ counter' = counter /\ bucket' = bucket /\ streak' = streak
      /\ profile' = profile /\ limit' = limit /\ enabled' = enabled
      /\ tick' = tick /\ edits' = edits
  BY DEF FailOpen, userRow, policyRows
<1>2. log' = Append(log, m)
  BY DEF FailOpen, Logged
<1>3. /\ e.at \in Times /\ e.at <= now /\ e.limit \in Limit
      /\ Len(log) < MaxMessages
  BY <1>1, Underway
<1>4. m \in Message /\ m.at = e.at /\ m.outcome = "free"
  BY <1>3 DEF Message, Outcomes
<1> HIDE DEF m
<1>5. TypeOK /\ HourlyCeiling /\ Counted /\ Sizes
  BY DEF Inv
<1>6. eval' \in [Connections -> Evaluation] /\ \A d \in Connections : ~eval'[d].busy
  BY <1>1, <1>5, EvalEnds
<1>7. TypeOK'
  <2>1. fails' \in 0..profile'.fails
    BY <1>1, <1>5, Types DEF TypeOK
  <2>2. log' \in Seq(Message)
    BY <1>2, <1>4, <1>5, OneMore
  <2> QED BY <1>1, <1>5, <1>6, <2>1, <2>2 DEF TypeOK, Message, Evaluation
<1>8. HourlyCeiling' /\ Counted'
  BY <1>1, <1>2, <1>4, <1>5, NotSent
<1>9. ~AlwaysLimited
  BY <1>1, <1>5 DEF TypeOK, AlwaysLimited
<1>10. m.at <= now /\ \A w \in Windows : counter'[w] <= Len(log) + 1
  BY <1>1, <1>3, <1>4, <1>5, Types DEF Sizes
<1> QED BY <1>1, <1>2, <1>3, <1>4, <1>6, <1>7, <1>8, <1>9, <1>10, AfterMessage

LEMMA DeferKeeps ==
  ASSUME Inv, NEW c \in Connections, Defer(c)
  PROVE  Inv'
<1> DEFINE e == eval[c]
           m == [at |-> e.at, limit |-> e.limit, outcome |-> "defer"]
           b == Deferred(e)
           s == [start |-> IF Broken(e.streak, e.at) THEN e.at ELSE e.streak.start,
                 last |-> e.at]
<1>1. /\ eval[c].busy
      /\ bucket' = IF e.limit.burst = 0 THEN bucket ELSE b
      /\ WriteStreak(e.streak, s)
      /\ eval' = [eval EXCEPT ![c] = Idle]
      /\ now' = now /\ counter' = counter /\ fails' = fails
      /\ profile' = profile /\ limit' = limit /\ enabled' = enabled
      /\ tick' = tick /\ edits' = edits
  BY DEF Defer, userRow
<1>2. log' = Append(log, m)
  BY DEF Defer, Logged
<1>3. /\ e.at \in Times /\ e.at \in Nat /\ e.at <= now /\ e.limit \in Limit
      /\ Len(log) < MaxMessages /\ e.streak \in Streak
      /\ Tokens(e.bucket, e.limit, e.at) \in Nat
      /\ \A i \in Messages : log[i].at <= e.at
      /\ streak.start \in {e.streak.start, NoTime}
  BY <1>1, Underway
<1>4. m \in Message /\ m.at = e.at /\ m.outcome = "defer"
  BY <1>3 DEF Message, Outcomes
<1>5. b \in Bucket /\ b.at = e.at
  BY <1>3 DEF Deferred, Bucket
<1>6. s \in Streak /\ s.start \in {e.at, e.streak.start}
  BY <1>3 DEF Streak
<1> HIDE DEF m, b, s
<1>7. TypeOK /\ HourlyCeiling /\ Counted /\ Sizes
  BY DEF Inv
<1>8. eval' \in [Connections -> Evaluation] /\ \A d \in Connections : ~eval'[d].busy
  BY <1>1, <1>7, EvalEnds
<1>9. streak' \in Streak /\ streak'.start = Column(e.streak.start, s.start, streak.start)
  BY <1>1, <1>3, <1>6, <1>7, StreakWritten
<1>10. TypeOK'
  <2>1. bucket' \in Bucket \cup {NoBucket} /\ (bucket' # NoBucket => bucket'.at <= now)
    BY <1>1, <1>3, <1>5, <1>7 DEF TypeOK
  <2>2. log' \in Seq(Message)
    BY <1>2, <1>4, <1>7, OneMore
  <2> QED BY <1>1, <1>7, <1>8, <1>9, <2>1, <2>2 DEF TypeOK, Message, Evaluation
<1>11. HourlyCeiling' /\ Counted'
  BY <1>1, <1>2, <1>4, <1>7, NotSent
<1>12. streak'.start \in {streak.start, e.at}
  BY <1>6, <1>9 DEF Column
<1>13. ASSUME AlwaysLimited, streak'.start # NoTime, NEW i \in Messages,
              log[i].at > streak'.start
       PROVE  log[i].outcome = "defer"
  <2>1. CASE streak'.start = streak.start
    BY <1>13, <2>1 DEF Inv, Quiet
  <2>2. CASE streak'.start = e.at
    BY <1>3, <1>13, <2>2, Types DEF Inv
  <2> QED BY <1>12, <2>1, <2>2
<1>14. m.at <= now /\ \A w \in Windows : counter'[w] <= Len(log) + 1
  BY <1>1, <1>3, <1>4, <1>7, Types DEF Sizes
<1> QED BY <1>1, <1>2, <1>3, <1>4, <1>8, <1>10, <1>11, <1>13, <1>14, AfterMessage

LEMMA PermitKeeps ==
  ASSUME Inv, NEW c \in Connections, Permit(c)
  PROVE  Inv'
<1> DEFINE e == eval[c]
           v == WindowOf(e.at)
           m == [at |-> e.at, limit |-> e.limit, outcome |-> "permit"]
           b == [tokens |-> Tokens(e.bucket, e.limit, e.at) - Hour, at |-> e.at]
<1>1. /\ eval[c].busy /\ Permitted(e)
      /\ counter' = [counter EXCEPT ![v] = e.count + 1]
      /\ bucket' = IF e.limit.burst = 0 THEN bucket ELSE b
      /\ WriteStreak(e.streak, NoStreak)
      /\ eval' = [eval EXCEPT ![c] = Idle]
      /\ now' = now /\ fails' = fails
      /\ profile' = profile /\ limit' = limit /\ enabled' = enabled
      /\ tick' = tick /\ edits' = edits
  BY DEF Permit, userRow
<1>2. log' = Append(log, m)
  BY DEF Permit, Logged
<1>3. /\ e.at \in Times /\ e.at \in Nat /\ e.at <= now /\ e.limit \in Limit
      /\ Len(log) < MaxMessages /\ e.streak \in Streak /\ e.limit.hour \in Nat
      /\ Tokens(e.bucket, e.limit, e.at) \in Nat
      /\ e.count \in Nat /\ e.count <= Len(log)
      /\ v \in Windows /\ e.count = counter[v] /\ e.count = Cardinality(SentIn(v))
      /\ streak.start \in {e.streak.start, NoTime}
  BY <1>1, Underway
<1>4. m \in Message /\ m.at = e.at /\ m.outcome = "permit" /\ m.limit = e.limit
  BY <1>3 DEF Message, Outcomes
<1>5. e.limit.burst # 0 => b \in Bucket /\ b.at = e.at
  <2>1. e.limit.burst # 0 => Tokens(e.bucket, e.limit, e.at) >= Hour
    BY <1>1 DEF Permitted
  <2>2. e.limit.burst # 0 => Tokens(e.bucket, e.limit, e.at) - Hour \in Nat
    BY <1>3, <2>1, TimeFacts
  <2> QED BY <1>3, <2>2 DEF Bucket
<1>6. NoStreak \in Streak /\ NoStreak.start = NoTime
  BY DEF NoStreak, Streak
<1> HIDE DEF m, b
<1>7. TypeOK /\ HourlyCeiling /\ Counted /\ Sizes
  BY DEF Inv
<1>8. eval' \in [Connections -> Evaluation] /\ \A d \in Connections : ~eval'[d].busy
  BY <1>1, <1>7, EvalEnds
<1>9. streak' \in Streak /\ streak'.start = NoTime
  <2>1. streak' \in Streak /\ streak'.start = Column(e.streak.start, NoTime, streak.start)
    BY <1>1, <1>3, <1>6, <1>7, StreakWritten
  <2> QED BY <1>3, <2>1 DEF Column
<1>10. Len(log) \in Nat /\ MaxMessages \in Nat /\ e.count + 1 \in 0..MaxMessages
  BY <1>3, <1>7, Types, TimeFacts
<1>11. /\ counter' \in [Windows -> 0..MaxMessages]
       /\ counter'[v] = e.count + 1 /\ \A w \in Windows : w # v => counter'[w] = counter[w]
  BY <1>1, <1>3, <1>7, <1>10 DEF TypeOK
<1>12. TypeOK'
  <2>1. bucket' \in Bucket \cup {NoBucket} /\ (bucket' # NoBucket => bucket'.at <= now)
    BY <1>1, <1>3, <1>5, <1>7 DEF TypeOK
  <2>2. log' \in Seq(Message)
    BY <1>2, <1>4, <1>7, OneMore
  <2> QED BY <1>1, <1>7, <1>8, <1>9, <1>11, <2>1, <2>2 DEF TypeOK, Message, Evaluation
<1>13. Cardinality(SentIn(v)) < m.limit.hour
  BY <1>1, <1>3, <1>4 DEF Permitted
<1>14. /\ HourlyCeiling' /\ \A w : w # v => SentIn(w)' = SentIn(w)
       /\ \A w : w = v => Cardinality(SentIn(w)') = Cardinality(SentIn(w)) + 1
  BY <1>2, <1>4, <1>7, <1>13, OneSent
<1>15. Counted'
  <2>1. ASSUME NEW w \in Windows, Running(w)' PROVE counter'[w] = Cardinality(SentIn(w)')
    <3>1. CASE w = v
      BY <1>3, <1>11, <1>14, <3>1
    <3>2. CASE w # v
      BY <1>1, <1>7, <1>11, <1>14, <2>1, <3>2 DEF Counted, Running
    <3> QED BY <3>1, <3>2
  <2> QED BY <2>1 DEF Counted
<1>16. m.at <= now /\ \A w \in Windows : counter'[w] <= Len(log) + 1
  BY <1>3, <1>4, <1>7, <1>10, <1>11, Types DEF Sizes
<1> QED BY <1>1, <1>2, <1>3, <1>4, <1>8, <1>9, <1>12, <1>14, <1>15, <1>16, AfterMessage

-----------------------------------------------------------------------------
LEMMA InvInit ==
  ASSUME Init PROVE Inv
<1>1. /\ now = 0 /\ profile \in Profiles /\ limit \in profile.limits /\ enabled = TRUE
      /\ counter = [w \in Windows |-> 0] /\ bucket = NoBucket /\ streak = NoStreak
      /\ eval = [c \in Connections |-> Idle] /\ tick = FALSE /\ log = <<>>
      /\ edits = 0 /\ fails = 0
  BY DEF Init
<1>2. /\ now \in Times /\ 0 \in 0..MaxMessages /\ MaxMessages \in Nat
      /\ profile.edits \in Nat /\ profile.fails \in Nat
  BY <1>1, TimeFacts, RateAssumption DEF Times
<1>3. log \in Seq(Message) /\ Len(log) = 0 /\ Messages = {} /\ Sent = {}
  <2>1. log \in Seq(Message) /\ Len(log) = 0
    BY <1>1, EmptySeq
  <2>2. Messages = {}
    BY <2>1 DEF Messages
  <2> QED BY <2>1, <2>2 DEF Sent
<1>4. NoStreak \in Streak /\ NoStreak.start = NoTime
  BY DEF NoStreak, Streak
<1>5. \A c \in Connections : ~eval[c].busy
  BY <1>1, IdleType
<1>6. TypeOK
  <2>1. eval \in [Connections -> Evaluation]
    BY <1>1, IdleType
  <2>2. counter \in [Windows -> 0..MaxMessages]
    BY <1>1, <1>2
  <2>3. /\ edits \in 0..profile.edits /\ fails \in 0..profile.fails
    BY <1>1, <1>2
  <2>4. /\ streak \in Streak /\ enabled \in BOOLEAN /\ tick \in BOOLEAN
        /\ bucket \in Bucket \cup {NoBucket}
    BY <1>1, <1>4, Zenon
  <2> QED BY <1>1, <1>2, <1>3, <1>5, <2>1, <2>2, <2>3, <2>4 DEF TypeOK, Evaluation, Message
<1>7. Sizes
  BY <1>1, <1>2, <1>3, <1>5 DEF Sizes
<1>8. Counted
  <2>1. \A w : SentIn(w) = {}
    BY <1>3 DEF SentIn
  <2> QED BY <1>1, <2>1, FS_EmptySet DEF Counted
<1>9. EvalOK /\ LogOK /\ Quiet /\ HourlyCeiling
  BY <1>3, <1>5 DEF EvalOK, LogOK, Quiet, HourlyCeiling
<1> QED BY <1>6, <1>7, <1>8, <1>9 DEF Inv

LEMMA InvNext ==
  ASSUME Inv, [Next]_vars PROVE Inv'
<1>1. CASE UNCHANGED vars
  <2>1. TypeOK'
    BY <1>1 DEF Inv, TypeOK, vars, userRow, policyRows
  <2> QED BY <1>1, <2>1, SameRows DEF vars, policyRows
<1>2. CASE TimePasses \/ Disable \/ Enable \/ ChooseAbuser \/ DisableAbuser \/ Cleanup
  BY <1>2, TimePassesKeeps, DisableKeeps, EnableKeeps, TickKeeps, CleanupKeeps
<1>3. ASSUME NEW c \in Connections, Evaluate(c) PROVE Inv'
  BY <1>3, UnlimitedKeeps, ReadKeeps, PermitKeeps, DeferKeeps, FailOpenKeeps DEF Evaluate
<1>4. ASSUME NEW l \in profile.limits, SetLimit(l) PROVE Inv'
  BY <1>4, SetLimitKeeps
<1> QED BY <1>1, <1>2, <1>3, <1>4 DEF Next

-----------------------------------------------------------------------------
\* Every variable keeps its type, and one evaluation at most is between its
\* reads and its commit (_evaluate_lock).
THEOREM TypeCorrect == Spec => []TypeOK
<1>1. Inv => TypeOK
  BY DEF Inv
<1> QED BY <1>1, InvInit, InvNext, PTL DEF Spec

\* The hourly limit (evaluate in core/rate_limit_policy.py): of the messages of
\* a clock hour none is permitted above the limit that it was evaluated with,
\* over changed limits, failed evaluations and deleted counters.
THEOREM CeilingHolds == Spec => []HourlyCeiling
<1>1. Inv => HourlyCeiling
  BY DEF Inv
<1> QED BY <1>1, InvInit, InvNext, PTL DEF Spec

\* A user who keeps a limit, and whose evaluations do not fail, has had nothing
\* let through since the start of the streak that the alerts and the
\* auto-disable tick act on, whoever clears it meanwhile.
THEOREM StreaksLetNothingThrough == Spec => []NoneGoneThroughWhenLimited
<1>1. Inv => NoneGoneThroughWhenLimited
  BY DEF Inv, Quiet, NoneGoneThroughWhenLimited, NoneGoneThrough, Throttled
<1> QED BY <1>1, InvInit, InvNext, PTL DEF Spec

-----------------------------------------------------------------------------
(***************************************************************************)
(* The token bucket.                                                       *)
(***************************************************************************)

\* From message i on the limit, with a burst, has been the same.
Steady(i) ==
  log[i].limit.burst # 0 /\ \A k \in i..Len(log) : log[k].limit = log[i].limit
SentSince(i) == {k \in Sent : i <= k}

\* What has been permitted since, with what is left, is no more than the burst
\* and what was refilled.
Spent ==
  \A i \in Sent : Steady(i) =>
    /\ bucket # NoBucket
    /\ Cardinality(SentSince(i)) * Hour + bucket.tokens
         <= log[i].limit.burst * Hour + (bucket.at - log[i].at) * log[i].limit.hour
BucketRead == \A c \in Connections : eval[c].busy => bucket = eval[c].bucket

BurstInv == Inv /\ Spent /\ BucketRead /\ BurstBound

LEMMA TokensBound ==
  ASSUME NEW b \in Bucket \cup {NoBucket}, NEW l \in Limit, NEW t \in Times,
         b # NoBucket => b.at <= t
  PROVE  /\ Tokens(b, l, t) <= l.burst * Hour
         /\ b # NoBucket => Tokens(b, l, t) <= b.tokens + (t - b.at) * l.hour
<1>1. l.hour \in Nat /\ l.burst \in Nat /\ t \in Nat /\ Hour \in Nat
  BY TimeFacts DEF Limit
<1>2. l.burst * Hour \in Nat
  BY <1>1
<1>3. CASE b = NoBucket
  BY <1>2, <1>3 DEF Tokens
<1>4. CASE b # NoBucket
  <2>1. b.tokens \in Nat /\ b.at \in Nat /\ b.at <= t
    BY <1>4, TimeFacts DEF Bucket
  <2>2. t - b.at \in Nat
    BY <1>1, <2>1
  <2>3. (t - b.at) * l.hour \in Nat
    BY <1>1, <2>2
  <2> DEFINE x == l.burst * Hour
             y == b.tokens + (t - b.at) * l.hour
  <2>4. x \in Nat /\ y \in Nat
    BY <1>2, <2>1, <2>3
  <2>5. Tokens(b, l, t) = IF x < y THEN x ELSE y
    BY <1>4, Zenon DEF Tokens, Refill, Least
  <2> HIDE DEF x, y
  <2>6. Tokens(b, l, t) <= x /\ Tokens(b, l, t) <= y
    BY <2>4, <2>5
  <2> QED BY <2>6 DEF x, y
<1> QED BY <1>3, <1>4

\* Time refills no more than the bound grows.
LEMMA BoundGrows ==
  ASSUME NEW s \in Nat, NEW left \in Nat, NEW t \in Nat, NEW u \in Nat, NEW x \in Nat,
         NEW hour \in Nat, NEW full \in Nat, NEW tokens \in Nat,
         s + left <= full + (u - x) * hour, u <= t,
         tokens <= left + (t - u) * hour
  PROVE  s + tokens <= full + (t - x) * hour
<1>1. (t - x) * hour = (t - u) * hour + (u - x) * hour
  OBVIOUS
<1>2. (t - x) * hour \in Int /\ (t - u) * hour \in Int /\ (u - x) * hour \in Int
  OBVIOUS
<1> DEFINE a == (t - x) * hour
           b == (t - u) * hour
           d == (u - x) * hour
<1>3. a \in Int /\ b \in Int /\ d \in Int /\ a = b + d /\ s + left <= full + d
      /\ tokens <= left + b
  BY <1>1, <1>2
<1> HIDE DEF a, b, d
<1>4. s + tokens <= full + a
  BY <1>3
<1> QED BY <1>4 DEF a

LEMMA SinceFacts ==
  ASSUME TypeOK
  PROVE  \A i : IsFiniteSet(SentSince(i)) /\ Cardinality(SentSince(i)) \in Nat
                /\ Len(log) + 1 \notin SentSince(i)
<1> SUFFICES ASSUME NEW i
             PROVE  IsFiniteSet(SentSince(i)) /\ Cardinality(SentSince(i)) \in Nat
                    /\ Len(log) + 1 \notin SentSince(i)
  OBVIOUS
<1>1. Len(log) \in Nat
  BY Types
<1>2. IsFiniteSet(Messages)
  BY <1>1, FS_Interval DEF Messages
<1>3. SentSince(i) \in SUBSET Messages
  BY DEF SentSince, Sent
<1>4. IsFiniteSet(SentSince(i))
  BY <1>2, <1>3, FS_Subset
<1>5. Len(log) + 1 \notin Messages
  BY <1>1 DEF Messages
<1> QED BY <1>3, <1>4, <1>5, FS_CardinalityType

LEMMA BurstStays ==
  ASSUME UNCHANGED log
  PROVE  /\ BurstBound => BurstBound'
         /\ UNCHANGED bucket /\ Spent => Spent'
<1>1. Messages' = Messages /\ Sent' = Sent /\ log' = log
  BY DEF Messages, Sent
<1>2. BurstBound => BurstBound'
  BY <1>1 DEF BurstBound
<1>3. \A i : (Steady(i)' <=> Steady(i)) /\ SentSince(i)' = SentSince(i)
  BY <1>1 DEF Steady, SentSince
<1> QED BY <1>1, <1>2, <1>3 DEF Spent

\* After a message nothing is said of a limit that has changed.
LEMMA SteadyBefore ==
  ASSUME TypeOK, NEW m \in Message, log' = Append(log, m)
  PROVE  /\ \A i \in Sent' : Steady(i)' => m.limit.burst # 0
         /\ \A i \in Sent : Steady(i)' => Steady(i) /\ log[i].limit = m.limit
<1> DEFINE n == Len(log) + 1
<1>1. /\ Messages' = Messages \cup {n} /\ Len(log') = n /\ log'[n] = m /\ Len(log) \in Nat
      /\ \A i \in Messages : log'[i] = log[i] /\ i \in Nat /\ i <= Len(log)
      /\ Sent \subseteq Messages /\ Sent' \subseteq Messages'
  BY OneMore, Types DEF Sent, Messages
<1>2. ASSUME NEW i \in Messages', Steady(i)' PROVE m.limit = log'[i].limit /\ m.limit.burst # 0
  <2>1. n \in i..Len(log')
    BY <1>1
  <2> QED BY <1>1, <1>2, <2>1 DEF Steady
<1>3. ASSUME NEW i \in Messages, Steady(i)' PROVE Steady(i) /\ log[i].limit = m.limit
  <2>1. \A k \in i..Len(log) : k \in Messages /\ k \in i..Len(log')
    BY <1>1 DEF Messages
  <2> QED BY <1>1, <1>2, <1>3, <2>1 DEF Steady
<1> QED BY <1>1, <1>2, <1>3

LEMMA BoundIsInt ==
  ASSUME NEW burst \in Nat, NEW h \in Nat, NEW t \in Nat, NEW u \in Nat, NEW hour \in Nat
  PROVE  burst * h + (t - u) * hour \in Int
<1>1. burst * h \in Int /\ t - u \in Int
  OBVIOUS
<1>2. (t - u) * hour \in Int
  BY <1>1
<1> QED BY <1>1, <1>2

\* The bucket that was written with a message says all.
LEMMA BurstFollows ==
  ASSUME TypeOK, BurstBound, NEW m \in Message, log' = Append(log, m), Spent',
         m.outcome = "permit" /\ m.limit.burst # 0 => bucket' \in Bucket /\ bucket'.at = m.at
  PROVE  BurstBound'
<1> DEFINE n == Len(log) + 1
<1>1. /\ Messages' = Messages \cup {n} /\ Len(log') = n /\ log'[n] = m /\ Len(log) \in Nat
      /\ n \in Nat
      /\ \A i \in Messages : log'[i] = log[i] /\ i \in Nat /\ i <= Len(log)
      /\ Sent \subseteq Messages
      /\ Sent' = IF m.outcome = "permit" THEN Sent \cup {n} ELSE Sent
  BY OneMore, Types DEF Sent, Messages
<1>2. log' \in Seq(Message) /\ \A i \in Sent' : i \in Nat /\ log'[i] \in Message
  BY <1>1, Types, OneMore
<1> SUFFICES ASSUME NEW i \in Sent', NEW j \in Sent', i <= j, log'[i].limit.burst # 0,
                    \A k \in i..j : log'[k].limit = log'[i].limit
             PROVE  Cardinality({k \in Sent' : i <= k /\ k <= j}) * Hour
                      <= log'[i].limit.burst * Hour
                           + (log'[j].at - log'[i].at) * log'[i].limit.hour
  BY DEF BurstBound
<1>3. CASE j \in Sent
  <2>1. i \in Sent
    BY <1>1, <1>3
  <2>2. {k \in Sent' : i <= k /\ k <= j} = {k \in Sent : i <= k /\ k <= j}
    BY <1>1, <1>3
  <2>3. \A k \in i..j : k \in Messages
    BY <1>1, <1>3, <2>1 DEF Messages
  <2>4. \A k \in i..j : log[k].limit = log[i].limit
    BY <1>1, <1>3, <2>1, <2>3
  <2>5. log'[i] = log[i] /\ log'[j] = log[j]
    BY <1>1, <1>3, <2>1
  <2>6. Cardinality({k \in Sent : i <= k /\ k <= j}) * Hour
          <= log[i].limit.burst * Hour + (log[j].at - log[i].at) * log[i].limit.hour
    BY <1>3, <2>1, <2>4, <2>5 DEF BurstBound
  <2> QED BY <2>2, <2>5, <2>6
<1>4. CASE j \notin Sent
  <2>1. j = n /\ m.outcome = "permit" /\ log'[j] = m
    BY <1>1, <1>4
  <2>2. Steady(i)'
    BY <1>1, <2>1 DEF Steady
  <2>3. log'[i].limit = m.limit
    <3>1. j \in i..j
      BY <1>2
    <3> QED BY <2>1, <3>1
  <2>4. bucket' \in Bucket /\ bucket'.at = m.at
    BY <2>1, <2>3
  <2>5. {k \in Sent' : i <= k /\ k <= j} = SentSince(i)'
    <3>1. \A k \in Sent' : k <= j
      BY <1>1, <2>1
    <3> QED BY <3>1 DEF SentSince
  <2>6. Cardinality(SentSince(i)') \in Nat
    <3>1. IsFiniteSet(Messages')
      BY <1>1, FS_Interval DEF Messages
    <3>2. SentSince(i)' \in SUBSET Messages'
      BY DEF SentSince, Sent
    <3> QED BY <3>1, <3>2, FS_Subset, FS_CardinalityType
  <2> DEFINE x == Cardinality(SentSince(i)') * Hour
             y == log'[i].limit.burst * Hour + (m.at - log'[i].at) * log'[i].limit.hour
  <2>7. x + bucket'.tokens <= y
    BY <2>2, <2>4 DEF Spent
  <2>8. bucket'.tokens \in Nat /\ x \in Nat /\ y \in Int
    <3>1. /\ log'[i].limit.burst \in Nat /\ log'[i].limit.hour \in Nat
          /\ m.at \in Nat /\ log'[i].at \in Nat /\ Hour \in Nat
      BY <1>2, TimeFacts DEF Message, Limit
    <3>2. bucket'.tokens \in Nat
      BY <2>4 DEF Bucket
    <3>3. x \in Nat
      BY <2>6, <3>1
    <3>4. y \in Int
      BY <3>1, BoundIsInt
    <3> QED BY <3>2, <3>3, <3>4
  <2> HIDE DEF x, y
  <2>9. x <= y
    BY <2>7, <2>8
  <2> QED BY <2>1, <2>5, <2>9 DEF x, y
<1> QED BY <1>3, <1>4

LEMMA Charged ==
  ASSUME TypeOK, Spent, NEW m \in Message, log' = Append(log, m),
         bucket # NoBucket => bucket.at <= m.at,
         NEW full \in Nat, full = Tokens(bucket, m.limit, m.at),
         NEW cost \in Nat, cost = IF m.outcome = "permit" THEN Hour ELSE 0, cost <= full,
         bucket' = [tokens |-> full - cost, at |-> m.at]
  PROVE  Spent' /\ bucket' \in Bucket /\ bucket'.at = m.at
<1> DEFINE n == Len(log) + 1
<1>1. /\ log'[n] = m /\ n \in Nat /\ Len(log) \in Nat
      /\ Messages' = Messages \cup {n} /\ n \notin Messages
      /\ \A i \in Messages : log'[i] = log[i] /\ i \in Nat /\ i <= Len(log)
      /\ Sent \subseteq Messages
      /\ Sent' = IF m.outcome = "permit" THEN Sent \cup {n} ELSE Sent
  BY OneMore, Types DEF Sent, Messages
<1>2. /\ m.at \in Times /\ m.at \in Nat /\ m.limit \in Limit /\ Hour \in Nat
      /\ m.limit.burst \in Nat /\ m.limit.hour \in Nat /\ m.limit.burst * Hour \in Nat
  <2>1. /\ m.at \in Times /\ m.at \in Nat /\ m.limit \in Limit /\ Hour \in Nat
        /\ m.limit.burst \in Nat /\ m.limit.hour \in Nat
    BY TimeFacts DEF Message, Limit
  <2>2. m.limit.burst * Hour \in Nat
    BY <2>1
  <2> QED BY <2>1, <2>2
<1>3. bucket' \in Bucket /\ bucket'.at = m.at /\ bucket'.tokens = full - cost
      /\ full - cost \in Nat
  BY <1>2 DEF Bucket
<1>4. bucket' # NoBucket
  BY <1>3, RateAssumption, TimeFacts DEF Bucket
<1>5. bucket \in Bucket \cup {NoBucket}
  BY DEF TypeOK
<1>6. /\ full <= m.limit.burst * Hour
      /\ bucket # NoBucket => full <= bucket.tokens + (m.at - bucket.at) * m.limit.hour
  BY <1>2, <1>5, TokensBound
<1>7. ASSUME NEW i \in Sent', Steady(i)'
      PROVE  Cardinality(SentSince(i)') * Hour + (full - cost)
               <= log'[i].limit.burst * Hour + (m.at - log'[i].at) * log'[i].limit.hour
  <2>1. CASE i \in Sent
    <3> DEFINE c == Cardinality(SentSince(i))
               d == Cardinality(SentSince(i)')
               x == log[i].at
    <3>1. /\ Steady(i) /\ log[i].limit = m.limit /\ log'[i] = log[i] /\ i \in Messages
          /\ x \in Nat
      BY <1>1, <1>7, <2>1, SteadyBefore, Types
    <3>2. /\ bucket # NoBucket
          /\ c * Hour + bucket.tokens <= m.limit.burst * Hour + (bucket.at - x) * m.limit.hour
      BY <2>1, <3>1 DEF Spent
    <3>3. IsFiniteSet(SentSince(i)) /\ c \in Nat /\ n \notin SentSince(i)
      BY SinceFacts
    <3>4. ASSUME m.outcome = "permit" PROVE d * Hour = c * Hour + Hour
      <4>1. SentSince(i)' = SentSince(i) \cup {n}
        BY <1>1, <3>1, <3>4 DEF SentSince
      <4>2. d = c + 1
        BY <3>3, <4>1, FS_AddElement
      <4> QED BY <1>2, <3>3, <4>2
    <3>5. ASSUME m.outcome # "permit" PROVE d = c
      BY <1>1, <3>5 DEF SentSince
    <3>6. d * Hour = c * Hour + cost /\ c * Hour \in Nat
      BY <1>2, <3>3, <3>4, <3>5
    <3>7. bucket.tokens \in Nat /\ bucket.at \in Nat /\ bucket.at <= m.at
      BY <1>5, <3>2, TimeFacts DEF Bucket
    <3>8. c * Hour + full <= m.limit.burst * Hour + (m.at - x) * m.limit.hour
      BY <1>2, <1>6, <3>1, <3>2, <3>6, <3>7, BoundGrows
    <3>9. d * Hour + (full - cost) = c * Hour + full
      BY <3>6
    <3> QED BY <3>1, <3>8, <3>9
  <2>2. CASE i \notin Sent
    <3>1. i = n /\ m.outcome = "permit" /\ log'[i] = m /\ cost = Hour
      BY <1>1, <1>7, <2>2
    <3>2. SentSince(i)' = {n}
      <4>1. n <= n /\ \A k \in Sent : ~(n <= k)
        BY <1>1
      <4> QED BY <1>1, <3>1, <4>1 DEF SentSince
    <3>3. Cardinality(SentSince(i)') = 1
      BY <3>2, FS_Singleton
    <3>4. (m.at - m.at) * m.limit.hour = 0
      BY <1>2
    <3> QED BY <1>2, <1>6, <3>1, <3>3, <3>4
  <2> QED BY <2>1, <2>2
<1> QED BY <1>3, <1>4, <1>7 DEF Spent

LEMMA NotCharged ==
  ASSUME TypeOK, Spent, NEW m \in Message, log' = Append(log, m),
         m.outcome # "permit", UNCHANGED bucket
  PROVE  Spent'
<1>1. Sent' = Sent /\ \A i \in Messages : log'[i] = log[i]
  BY OneMore
<1>2. Sent \subseteq Messages
  BY DEF Sent
<1>3. \A i : SentSince(i)' = SentSince(i)
  BY <1>1 DEF SentSince
<1>4. \A i \in Sent : Steady(i)' => Steady(i)
  BY SteadyBefore
<1> QED BY <1>1, <1>2, <1>3, <1>4 DEF Spent

\* A limit that has no burst.
LEMMA NoBurst ==
  ASSUME TypeOK, NEW m \in Message, log' = Append(log, m), m.limit.burst = 0
  PROVE  Spent'
BY SteadyBefore DEF Spent

LEMMA BurstInit ==
  ASSUME Init PROVE BurstInv
<1>1. Sent = {} /\ \A c \in Connections : ~eval[c].busy
  <2>1. Messages = {} /\ eval = [c \in Connections |-> Idle]
    BY EmptySeq DEF Init, Messages
  <2> QED BY <2>1, IdleType DEF Sent
<1> QED BY <1>1, InvInit DEF BurstInv, Spent, BucketRead, BurstBound

LEMMA ReadBucket ==
  ASSUME BurstInv, NEW c \in Connections, Read(c)
  PROVE  Spent' /\ BucketRead' /\ BurstBound'
<1>1. /\ \A d \in Connections : ~eval[d].busy
      /\ eval' = [eval EXCEPT ![c] = Reading] /\ bucket' = bucket /\ log' = log
  BY DEF Read, policyRows
<1>2. eval \in [Connections -> Evaluation]
  BY Types DEF BurstInv, Inv
<1>3. Reading.bucket = bucket
  BY DEF Reading
<1>4. eval'[c] = Reading /\ \A d \in Connections : d # c => eval'[d] = eval[d]
  BY <1>1, <1>2
<1>5. ASSUME NEW d \in Connections, eval'[d].busy PROVE bucket' = eval'[d].bucket
  <2>1. d = c
    BY <1>1, <1>4, <1>5
  <2> QED BY <1>1, <1>3, <1>4, <2>1
<1> QED BY <1>1, <1>5, BurstStays DEF BurstInv, BucketRead

LEMMA UnlimitedBucket ==
  ASSUME BurstInv, NEW c \in Connections, Unlimited(c)
  PROVE  Spent' /\ BucketRead' /\ BurstBound'
<1> DEFINE m == [at |-> now, limit |-> [hour |-> 0, burst |-> 0], outcome |-> "free"]
<1>1. log' = Append(log, m) /\ bucket' = bucket /\ \A d \in Connections : ~eval[d].busy
      /\ eval' = eval
  BY DEF Unlimited, Logged, Idle, policyRows
<1>2. m \in Message /\ m.outcome # "permit" /\ TypeOK
  BY Types DEF BurstInv, Inv, Message, Limit, Outcomes
<1> HIDE DEF m
<1>3. Spent'
  BY <1>1, <1>2, NotCharged DEF BurstInv
<1>4. BurstBound'
  BY <1>1, <1>2, <1>3, BurstFollows DEF BurstInv
<1> QED BY <1>1, <1>3, <1>4 DEF BucketRead

LEMMA FailOpenBucket ==
  ASSUME BurstInv, NEW c \in Connections, FailOpen(c)
  PROVE  Spent' /\ BucketRead' /\ BurstBound'
<1> DEFINE e == eval[c]
           m == [at |-> e.at, limit |-> e.limit, outcome |-> "free"]
<1>1. /\ log' = Append(log, m) /\ bucket' = bucket /\ eval[c].busy
      /\ eval' = [eval EXCEPT ![c] = Idle] /\ Inv /\ TypeOK
  BY DEF FailOpen, Logged, policyRows, BurstInv, Inv
<1>2. m \in Message /\ m.outcome # "permit"
  BY <1>1, Underway DEF Message, Outcomes
<1> HIDE DEF m
<1>3. Spent'
  BY <1>1, <1>2, NotCharged DEF BurstInv
<1>4. BurstBound'
  BY <1>1, <1>2, <1>3, BurstFollows DEF BurstInv
<1>5. BucketRead'
  BY <1>1, EvalEnds DEF BucketRead
<1> QED BY <1>3, <1>4, <1>5

LEMMA DeferBucket ==
  ASSUME BurstInv, NEW c \in Connections, Defer(c)
  PROVE  Spent' /\ BucketRead' /\ BurstBound'
<1> DEFINE e == eval[c]
           full == Tokens(e.bucket, e.limit, e.at)
           m == [at |-> e.at, limit |-> e.limit, outcome |-> "defer"]
<1>1. /\ log' = Append(log, m) /\ eval[c].busy
      /\ eval' = [eval EXCEPT ![c] = Idle] /\ Inv /\ TypeOK
      /\ bucket' = IF e.limit.burst = 0 THEN bucket ELSE [tokens |-> full, at |-> e.at]
  BY DEF Defer, Deferred, Logged, BurstInv, Inv
<1>2. /\ full \in Nat /\ e.bucket = bucket /\ (bucket # NoBucket => bucket.at <= e.at)
      /\ e.limit \in Limit /\ e.limit.burst \in Nat /\ e.at \in Times
  BY <1>1, Underway DEF BurstInv, BucketRead, Inv, Sizes, Limit
<1>3. m \in Message /\ m.outcome # "permit" /\ m.at = e.at /\ m.limit = e.limit
  BY <1>2 DEF Message, Outcomes
<1>4. full = Tokens(bucket, m.limit, m.at)
  BY <1>2, <1>3
<1> HIDE DEF m, full
<1>5. Spent'
  <2>1. CASE e.limit.burst = 0
    BY <1>1, <1>3, <2>1, NoBurst
  <2>2. CASE e.limit.burst # 0
    <3>1. 0 \in Nat /\ 0 <= full /\ full - 0 = full
      BY <1>2
    <3>2. bucket' = [tokens |-> full - 0, at |-> m.at]
      BY <1>1, <1>3, <2>2, <3>1
    <3> QED BY <1>1, <1>2, <1>3, <1>4, <3>1, <3>2, Charged DEF BurstInv
  <2> QED BY <2>1, <2>2
<1>6. BurstBound'
  BY <1>1, <1>3, <1>5, BurstFollows DEF BurstInv
<1>7. BucketRead'
  BY <1>1, EvalEnds DEF BucketRead
<1> QED BY <1>5, <1>6, <1>7

LEMMA PermitBucket ==
  ASSUME BurstInv, NEW c \in Connections, Permit(c)
  PROVE  Spent' /\ BucketRead' /\ BurstBound'
<1> DEFINE e == eval[c]
           full == Tokens(e.bucket, e.limit, e.at)
           m == [at |-> e.at, limit |-> e.limit, outcome |-> "permit"]
<1>1. /\ log' = Append(log, m) /\ eval[c].busy
      /\ eval' = [eval EXCEPT ![c] = Idle] /\ Inv /\ TypeOK
      /\ bucket' = IF e.limit.burst = 0 THEN bucket
                   ELSE [tokens |-> full - Hour, at |-> e.at]
      /\ e.limit.burst # 0 => full >= Hour
  BY DEF Permit, Permitted, Logged, BurstInv, Inv
<1>2. /\ full \in Nat /\ e.bucket = bucket /\ (bucket # NoBucket => bucket.at <= e.at)
      /\ e.limit \in Limit /\ e.limit.burst \in Nat /\ e.at \in Times
  BY <1>1, Underway DEF BurstInv, BucketRead, Inv, Sizes, Limit
<1>3. m \in Message /\ m.outcome = "permit" /\ m.at = e.at /\ m.limit = e.limit
  BY <1>2 DEF Message, Outcomes
<1>4. full = Tokens(bucket, m.limit, m.at)
  BY <1>2, <1>3
<1> HIDE DEF m, full
<1>5. Spent' /\ (e.limit.burst # 0 => bucket' \in Bucket /\ bucket'.at = m.at)
  <2>1. CASE e.limit.burst = 0
    BY <1>1, <1>3, <2>1, NoBurst
  <2>2. CASE e.limit.burst # 0
    <3>1. Hour \in Nat /\ Hour <= full
      BY <1>1, <1>2, <2>2, TimeFacts
    <3>2. bucket' = [tokens |-> full - Hour, at |-> m.at]
      BY <1>1, <1>3, <2>2
    <3> QED BY <1>1, <1>2, <1>3, <1>4, <3>1, <3>2, Charged DEF BurstInv
  <2> QED BY <2>1, <2>2
<1>6. BurstBound'
  BY <1>1, <1>3, <1>5, BurstFollows DEF BurstInv
<1>7. BucketRead'
  BY <1>1, EvalEnds DEF BucketRead
<1> QED BY <1>5, <1>6, <1>7

LEMMA BurstNext ==
  ASSUME BurstInv, [Next]_vars PROVE BurstInv'
<1>1. Inv'
  BY InvNext DEF BurstInv
<1>2. ASSUME UNCHANGED <<eval, bucket, log>> PROVE Spent' /\ BucketRead' /\ BurstBound'
  BY <1>2, BurstStays DEF BurstInv, BucketRead
<1>3. CASE UNCHANGED vars \/ TimePasses \/ Disable \/ Enable \/ ChooseAbuser \/ DisableAbuser
           \/ Cleanup \/ \E l \in profile.limits : SetLimit(l)
  <2>1. UNCHANGED <<eval, bucket, log>>
    BY <1>3 DEF vars, policyRows, TimePasses, Disable, Enable, ChooseAbuser, DisableAbuser,
                 Cleanup, SetLimit
  <2> QED BY <1>1, <1>2, <2>1 DEF BurstInv
<1>4. ASSUME NEW c \in Connections, Evaluate(c) PROVE Spent' /\ BucketRead' /\ BurstBound'
  BY <1>4, ReadBucket, UnlimitedBucket, FailOpenBucket, DeferBucket, PermitBucket DEF Evaluate
<1> QED BY <1>1, <1>3, <1>4 DEF Next, BurstInv

\* The token bucket (_refill_burst_tokens, evaluate): in any stretch of time in
\* which the limit stays the same, also over the end of an hour, no more is
\* permitted than the burst and what is refilled in between.
THEOREM BurstHolds == Spec => []BurstBound
<1>1. BurstInv => BurstBound
  BY DEF BurstInv
<1> QED BY <1>1, BurstInit, BurstNext, PTL DEF Spec

-----------------------------------------------------------------------------
(***************************************************************************)
(* The streak. What the row says, and what the evaluation under way has    *)
(* read, is unbroken; the row can only have been cleared since it was read.*)
(***************************************************************************)
EvaluatedIn(lg) == {i \in 1..Len(lg) : lg[i].outcome # "free"}
FollowsIn(lg, i, j) == i < j /\ \A k \in EvaluatedIn(lg) : k <= i \/ j <= k
Spans(lg, s, first, last) ==
  /\ lg[first].at = s.start /\ lg[last].at = s.last
  /\ first <= last /\ \A i \in EvaluatedIn(lg) : i <= last
  /\ \A i \in EvaluatedIn(lg) : first <= i => lg[i].outcome = "defer"
  /\ \A i, j \in EvaluatedIn(lg) :
       first <= i /\ FollowsIn(lg, i, j) => lg[j].at - lg[i].at <= Gap
UnbrokenIn(lg, s) ==
  s.start # NoTime /\ s.last # NoTime =>
    \E first, last \in EvaluatedIn(lg) : Spans(lg, s, first, last)

StreakInv ==
  /\ Inv
  /\ UnbrokenIn(log, streak)
  /\ \A c \in Connections : eval[c].busy =>
       UnbrokenIn(log, eval[c].streak) /\ streak \in {eval[c].streak, NoStreak}

LEMMA UnbrokenNow == StreakUnbroken <=> UnbrokenIn(log, streak)
BY DEF StreakUnbroken, Unbroken, UnbrokenIn, Spans, EvaluatedIn, FollowsIn, Evaluated,
       Messages, Follows

LEMMA NoneUnbroken ==
  ASSUME NEW lg, NEW s, s.start = NoTime \/ s.last = NoTime
  PROVE  UnbrokenIn(lg, s)
BY DEF UnbrokenIn

LEMMA OneMoreIn ==
  ASSUME NEW lg \in Seq(Message), NEW m \in Message, NEW lg2, lg2 = Append(lg, m)
  PROVE  /\ Len(lg) \in Nat /\ lg2[Len(lg) + 1] = m
         /\ \A i \in EvaluatedIn(lg) : i \in 1..Len(lg) /\ lg2[i] = lg[i]
         /\ m.outcome = "free" => EvaluatedIn(lg2) = EvaluatedIn(lg)
         /\ m.outcome # "free" => EvaluatedIn(lg2) = EvaluatedIn(lg) \cup {Len(lg) + 1}
<1>1. /\ Len(lg) \in Nat /\ Len(lg2) = Len(lg) + 1 /\ lg2[Len(lg) + 1] = m
      /\ \A i \in 1..Len(lg) : lg2[i] = lg[i]
  BY LenProperties, AppendProperties
<1>2. 1..Len(lg2) = (1..Len(lg)) \cup {Len(lg) + 1}
  BY <1>1
<1>3. EvaluatedIn(lg2) = {i \in (1..Len(lg)) \cup {Len(lg) + 1} : lg2[i].outcome # "free"}
  BY <1>2 DEF EvaluatedIn
<1>4. EvaluatedIn(lg2) = EvaluatedIn(lg) \cup {i \in {Len(lg) + 1} : m.outcome # "free"}
  BY <1>1, <1>3 DEF EvaluatedIn
<1> QED BY <1>1, <1>4 DEF EvaluatedIn

\* A message that is let through unlooked at says nothing.
LEMMA FreeSaysNothing ==
  ASSUME NEW lg \in Seq(Message), NEW m \in Message, m.outcome = "free",
         NEW lg2, lg2 = Append(lg, m), NEW s, UnbrokenIn(lg, s)
  PROVE  UnbrokenIn(lg2, s)
<1>1. EvaluatedIn(lg2) = EvaluatedIn(lg)
  BY OneMoreIn
<1>2. \A i \in EvaluatedIn(lg) : lg2[i] = lg[i]
  BY OneMoreIn
<1>3. ASSUME NEW first \in EvaluatedIn(lg), NEW last \in EvaluatedIn(lg),
             Spans(lg, s, first, last)
      PROVE  Spans(lg2, s, first, last)
  BY <1>1, <1>2, <1>3 DEF Spans, FollowsIn
<1> QED BY <1>1, <1>3 DEF UnbrokenIn

\* A deferral continues the streak or begins a new one.
LEMMA DeferralExtends ==
  ASSUME NEW lg \in Seq(Message), NEW m \in Message, m.outcome = "defer",
         NEW lg2, lg2 = Append(lg, m), NEW s \in Streak, UnbrokenIn(lg, s),
         NEW new, new.last = m.at,
         new.start = IF Broken(s, m.at) THEN m.at ELSE s.start
  PROVE  UnbrokenIn(lg2, new)
<1> DEFINE n == Len(lg) + 1
<1>1. /\ Len(lg) \in Nat /\ n \in Nat /\ lg2[n] = m
      /\ EvaluatedIn(lg2) = EvaluatedIn(lg) \cup {n}
      /\ \A i \in EvaluatedIn(lg) : i \in Nat /\ i < n /\ lg2[i] = lg[i]
  <2>1. Len(lg) \in Nat /\ lg2[Len(lg) + 1] = m
    BY OneMoreIn
  <2>2. EvaluatedIn(lg2) = EvaluatedIn(lg) \cup {Len(lg) + 1}
    BY OneMoreIn
  <2>3. \A i \in EvaluatedIn(lg) : i \in 1..Len(lg) /\ lg2[i] = lg[i]
    BY OneMoreIn
  <2> QED BY <2>1, <2>2, <2>3
<1> HIDE DEF n
<1>2. CASE Broken(s, m.at)
  <2>1. new.start = m.at /\ new.last = m.at
    BY <1>2
  <2>2. \A i \in EvaluatedIn(lg2) : i \in Nat /\ i <= n /\ (n <= i => i = n)
    BY <1>1
  <2>3. \A i, j \in EvaluatedIn(lg2) : ~(n <= i /\ FollowsIn(lg2, i, j))
    BY <1>1, <2>2 DEF FollowsIn
  <2>4. Spans(lg2, new, n, n)
    BY <1>1, <2>1, <2>2, <2>3 DEF Spans
  <2> QED BY <1>1, <2>4 DEF UnbrokenIn
<1>3. CASE ~Broken(s, m.at)
  <2>1. /\ s.start # NoTime /\ s.last # NoTime /\ ~(m.at - s.last > Gap)
        /\ new.start = s.start /\ new.last = m.at
    BY <1>3 DEF Broken
  <2>2. m.at \in Nat /\ s.last \in Nat /\ Gap \in Nat
    BY <2>1, TimeFacts DEF Message, Streak
  <2>3. m.at - s.last <= Gap
    BY <2>1, <2>2
  <2>4. PICK first \in EvaluatedIn(lg), last \in EvaluatedIn(lg) : Spans(lg, s, first, last)
    BY <2>1 DEF UnbrokenIn
  <2>5. /\ lg[first].at = s.start /\ lg[last].at = s.last /\ first <= last
        /\ \A i \in EvaluatedIn(lg) : i <= last
        /\ \A i \in EvaluatedIn(lg) : first <= i => lg[i].outcome = "defer"
        /\ \A i, j \in EvaluatedIn(lg) :
             first <= i /\ FollowsIn(lg, i, j) => lg[j].at - lg[i].at <= Gap
    BY <2>4 DEF Spans
  <2>6. ASSUME NEW i \in EvaluatedIn(lg2), NEW j \in EvaluatedIn(lg2),
               first <= i, FollowsIn(lg2, i, j)
        PROVE  lg2[j].at - lg2[i].at <= Gap
    <3>1. i < j /\ \A k \in EvaluatedIn(lg2) : k <= i \/ j <= k
      BY <2>6 DEF FollowsIn
    <3>2. i \in EvaluatedIn(lg) /\ i \in Nat /\ j \in Nat
      BY <1>1, <3>1
    <3>3. CASE j \in EvaluatedIn(lg)
      <4>1. FollowsIn(lg, i, j)
        BY <1>1, <3>1 DEF FollowsIn
      <4> QED BY <1>1, <2>5, <2>6, <3>2, <3>3, <4>1
    <3>4. CASE j = n
      <4>1. last <= i
        <5>1. last \in Nat /\ last < n /\ n \in Nat /\ (last <= i \/ n <= last)
          BY <1>1, <2>4, <3>1, <3>4
        <5> QED BY <5>1
      <4>2. i = last
        BY <1>1, <2>4, <2>5, <3>2, <4>1
      <4> QED BY <1>1, <2>3, <2>5, <3>2, <3>4, <4>2
    <3> QED BY <1>1, <3>3, <3>4
  <2>7. /\ lg2[first].at = new.start /\ lg2[n].at = new.last /\ first <= n
        /\ \A i \in EvaluatedIn(lg2) : i <= n
        /\ \A i \in EvaluatedIn(lg2) : first <= i => lg2[i].outcome = "defer"
    <3>1. first \in Nat /\ first < n /\ last \in Nat /\ last < n
          /\ lg2[first] = lg[first] /\ lg2[n] = m
      BY <1>1, <2>4
    <3>2. \A i \in EvaluatedIn(lg2) : i \in EvaluatedIn(lg) \/ i = n
      BY <1>1
    <3>3. n <= n /\ \A i \in EvaluatedIn(lg) : i <= n
      BY <1>1
    <3> QED BY <1>1, <2>1, <2>5, <3>1, <3>2, <3>3
  <2>8. Spans(lg2, new, first, n)
    BY <2>6, <2>7 DEF Spans
  <2> QED BY <1>1, <2>4, <2>8 DEF UnbrokenIn
<1> QED BY <1>2, <1>3

-----------------------------------------------------------------------------
LEMMA StreakInit ==
  ASSUME Init PROVE StreakInv
<1>1. streak.start = NoTime /\ \A c \in Connections : ~eval[c].busy
  BY IdleType DEF Init, NoStreak
<1> QED BY <1>1, InvInit, NoneUnbroken DEF StreakInv

\* What the steps that evaluate nothing leave alone.
LEMMA StreakStays ==
  ASSUME StreakInv, Inv', UNCHANGED <<eval, streak, log>>
  PROVE  StreakInv'
BY DEF StreakInv

LEMMA EnableStreak ==
  ASSUME StreakInv, Inv', Enable
  PROVE  StreakInv'
<1>1. streak' = NoStreak /\ eval' = eval /\ log' = log
  BY DEF Enable
<1>2. UnbrokenIn(log, NoStreak)
  BY NoneUnbroken DEF NoStreak
<1> QED BY <1>1, <1>2 DEF StreakInv

LEMMA ReadStreak ==
  ASSUME StreakInv, Inv', NEW c \in Connections, Read(c)
  PROVE  StreakInv'
<1>1. /\ streak' = streak /\ log' = log /\ eval' = [eval EXCEPT ![c] = Reading]
      /\ \A d \in Connections : ~eval[d].busy
  BY DEF Read, policyRows
<1>2. eval \in [Connections -> Evaluation]
  BY Types DEF StreakInv, Inv
<1>3. eval'[c] = Reading /\ \A d \in Connections : d # c => eval'[d] = eval[d]
  BY <1>1, <1>2
<1>4. Reading.streak = streak
  BY DEF Reading
<1>5. ASSUME NEW d \in Connections, eval'[d].busy
      PROVE  UnbrokenIn(log, eval'[d].streak) /\ streak \in {eval'[d].streak, NoStreak}
  BY <1>1, <1>3, <1>4, <1>5 DEF StreakInv
<1> QED BY <1>1, <1>5 DEF StreakInv

LEMMA UnlimitedStreak ==
  ASSUME StreakInv, Inv', NEW c \in Connections, Unlimited(c)
  PROVE  StreakInv'
<1> DEFINE m == [at |-> now, limit |-> [hour |-> 0, burst |-> 0], outcome |-> "free"]
<1>1. /\ log' = Append(log, m) /\ streak' = streak /\ \A d \in Connections : ~eval[d].busy
      /\ eval' = eval
  BY DEF Unlimited, Logged, Idle, policyRows
<1>2. m \in Message /\ m.outcome = "free" /\ log \in Seq(Message)
  BY Types DEF StreakInv, Inv, Message, Limit, Outcomes
<1> HIDE DEF m
<1>3. UnbrokenIn(log', streak')
  BY <1>1, <1>2, FreeSaysNothing DEF StreakInv
<1> QED BY <1>1, <1>3 DEF StreakInv

LEMMA FailOpenStreak ==
  ASSUME StreakInv, Inv', NEW c \in Connections, FailOpen(c)
  PROVE  StreakInv'
<1> DEFINE e == eval[c]
           m == [at |-> e.at, limit |-> e.limit, outcome |-> "free"]
<1>1. /\ log' = Append(log, m) /\ streak' = streak /\ eval[c].busy
      /\ eval' = [eval EXCEPT ![c] = Idle] /\ Inv /\ TypeOK
  BY DEF FailOpen, Logged, policyRows, StreakInv, Inv
<1>2. m \in Message /\ m.outcome = "free" /\ log \in Seq(Message)
  BY <1>1, Underway, Types DEF Message, Outcomes
<1> HIDE DEF m
<1>3. UnbrokenIn(log', streak')
  BY <1>1, <1>2, FreeSaysNothing DEF StreakInv
<1>4. \A d \in Connections : ~eval'[d].busy
  BY <1>1, EvalEnds
<1> QED BY <1>3, <1>4 DEF StreakInv

\* What a commit writes is what it means to write, but for a column that was
\* cleared meanwhile and that it leaves alone.
LEMMA StreakCommitted ==
  ASSUME TypeOK, NEW old \in Streak, NEW new \in Streak, WriteStreak(old, new),
         streak \in {old, NoStreak}
  PROVE  \/ streak'.start = NoTime \/ streak'.last = NoTime
         \/ streak'.start = new.start /\ streak'.last = new.last
<1>1. /\ streak'.start = Column(old.start, new.start, streak.start)
      /\ streak'.last = Column(old.last, new.last, streak.last)
  BY StreakWritten
<1>2. streak.start \in {old.start, NoTime} /\ streak.last \in {old.last, NoTime}
  BY DEF NoStreak
<1> QED BY <1>1, <1>2 DEF Column

LEMMA PermitStreak ==
  ASSUME StreakInv, Inv', NEW c \in Connections, Permit(c)
  PROVE  StreakInv'
<1> DEFINE e == eval[c]
<1>1. /\ eval[c].busy /\ eval' = [eval EXCEPT ![c] = Idle] /\ Inv /\ TypeOK
      /\ WriteStreak(e.streak, NoStreak) /\ streak \in {e.streak, NoStreak}
  BY DEF Permit, StreakInv, Inv
<1>2. e.streak \in Streak /\ NoStreak \in Streak /\ NoStreak.start = NoTime
  BY <1>1, Underway DEF NoStreak, Streak
<1>3. streak'.start = NoTime \/ streak'.last = NoTime
  BY <1>1, <1>2, StreakCommitted
<1>4. UnbrokenIn(log', streak')
  BY <1>3, NoneUnbroken
<1>5. \A d \in Connections : ~eval'[d].busy
  BY <1>1, EvalEnds
<1> QED BY <1>4, <1>5 DEF StreakInv

LEMMA DeferStreak ==
  ASSUME StreakInv, Inv', NEW c \in Connections, Defer(c)
  PROVE  StreakInv'
<1> DEFINE e == eval[c]
           m == [at |-> e.at, limit |-> e.limit, outcome |-> "defer"]
           new == [start |-> IF Broken(e.streak, m.at) THEN m.at ELSE e.streak.start,
                   last |-> m.at]
<1>1. /\ eval[c].busy /\ eval' = [eval EXCEPT ![c] = Idle] /\ Inv /\ TypeOK
      /\ log' = Append(log, m) /\ WriteStreak(e.streak, new)
      /\ streak \in {e.streak, NoStreak} /\ UnbrokenIn(log, e.streak)
  BY DEF Defer, Logged, StreakInv, Inv
<1>2. /\ e.streak \in Streak /\ m \in Message /\ m.outcome = "defer" /\ m.at \in Times
      /\ log \in Seq(Message)
  BY <1>1, Underway, Types DEF Message, Outcomes
<1> HIDE DEF m
<1>3. new \in Streak
  BY <1>2 DEF Streak
<1>4. UnbrokenIn(log', new)
  <2>1. /\ log \in Seq(Message) /\ m \in Message /\ m.outcome = "defer"
        /\ log' = Append(log, m) /\ e.streak \in Streak /\ UnbrokenIn(log, e.streak)
    BY <1>1, <1>2
  <2>2. /\ new.start = IF Broken(e.streak, m.at) THEN m.at ELSE e.streak.start
        /\ new.last = m.at
    OBVIOUS
  <2> HIDE DEF new, e
  <2> QED BY <2>1, <2>2, DeferralExtends
<1> HIDE DEF new
<1>5. \/ streak'.start = NoTime \/ streak'.last = NoTime
      \/ streak'.start = new.start /\ streak'.last = new.last
  BY <1>1, <1>2, <1>3, StreakCommitted
<1>6. UnbrokenIn(log', streak')
  BY <1>4, <1>5 DEF UnbrokenIn, Spans
<1>7. \A d \in Connections : ~eval'[d].busy
  BY <1>1, EvalEnds
<1> QED BY <1>6, <1>7 DEF StreakInv

LEMMA StreakNext ==
  ASSUME StreakInv, [Next]_vars PROVE StreakInv'
<1>1. Inv'
  BY InvNext DEF StreakInv
<1>2. CASE UNCHANGED vars \/ TimePasses \/ Disable \/ ChooseAbuser \/ DisableAbuser \/ Cleanup
           \/ \E l \in profile.limits : SetLimit(l)
  <2>1. UNCHANGED <<eval, streak, log>>
    BY <1>2 DEF vars, policyRows, TimePasses, Disable, ChooseAbuser, DisableAbuser, Cleanup,
                SetLimit
  <2> QED BY <1>1, <2>1, StreakStays
<1>3. CASE Enable
  BY <1>1, <1>3, EnableStreak
<1>4. ASSUME NEW c \in Connections, Evaluate(c) PROVE StreakInv'
  BY <1>1, <1>4, ReadStreak, UnlimitedStreak, FailOpenStreak, DeferStreak, PermitStreak
     DEF Evaluate
<1> QED BY <1>2, <1>3, <1>4 DEF Next

\* rate_limit_defer_streak_started_at and _last_at (evaluate, _streak_broken):
\* from the first to the last message of a streak all that were evaluated were
\* deferred, none more than DEFER_STREAK_GAP after the one before it, whatever
\* clears the columns between an evaluation's reads and its commit.
THEOREM StreaksAreUnbroken == Spec => []StreakUnbroken
<1>1. StreakInv => StreakUnbroken
  BY UnbrokenNow DEF StreakInv
<1> QED BY <1>1, StreakInit, StreakNext, PTL DEF Spec
=============================================================================
