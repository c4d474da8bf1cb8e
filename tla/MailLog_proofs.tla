---------------------------- MODULE MailLog_proofs ----------------------------
(***************************************************************************)
(* The protocol of offsets, files, calls and commits keeps LogDelivery's   *)
(* promise, for any threads, inodes, sizes, lines and faults: a proof of   *)
(* the safety half of the refinement that the run checks.                  *)
(***************************************************************************)
EXTENDS MailLog, SequenceTheorems, TLAPS

\* What every implementation of LogDelivery keeps.
LDTypeOK ==
  /\ written \in Nat
  /\ rows \in Seq(Nat \ {0})
  /\ \A i \in 1..Len(rows) : rows[i] <= written
  /\ atRisk \subseteq 1..written

LDInv == LDTypeOK /\ Log!InOrder /\ Log!NonePassedOver

\* The position, or a call's, is one in the file that is there.
Here(p) == file.inode # NoInode /\ p.inode = file.inode

\* Where a reader begins that has no position in the file.
Edge == IF file.inode = NoInode THEN written ELSE file.base

\* Up to line n nothing is left to apply.
Passed(n) == Log!LastApplied <= n /\ Interval(Log!LastApplied, n) \subseteq atRisk

FileOK ==
  /\ file.base <= written
  /\ half => file.inode # NoInode /\ written < MaxLines

\* The position leaves nothing behind. One that is not in the file is in a copy
\* that is kept, so that no new file has its inode.
PosOK ==
  /\ pos.inode = NoInode => pos.offset = 0
  /\ pos.inode \in kept \cup {NoInode, file.inode}
  /\ Here(pos) => file.base + pos.offset <= written /\ Passed(file.base + pos.offset)
  /\ ~Here(pos) => Passed(Edge)

\* Calls ask for positions that were committed, the later ones not for earlier
\* ones; a caller that is still there is the last, and asks for the present one.
QueueOK ==
  \A i \in 1..Len(queue) :
    LET s == queue[i].since IN
    /\ s.inode = NoInode => s.offset = 0
    /\ s.inode \in kept \cup {NoInode, file.inode}
    /\ Here(s) => /\ Here(pos) /\ s.offset <= pos.offset
                  /\ \A j \in i..Len(queue) : Here(queue[j].since)
    /\ queue[i].open => i = Len(queue) /\ job[queue[i].worker].step = "wait" /\ s = pos

\* An answer that may be committed as the database is.
Commitable(a) ==
  /\ a.from <= a.upto /\ a.upto <= written
  /\ \/ a.pos = Start /\ a.from = a.upto /\ ~Here(pos)
     \/ /\ Passed(a.from)
        /\ a.pos.inode \in kept \cup {file.inode} /\ a.pos.inode # NoInode
        /\ Here(a.pos) => a.upto = file.base + a.pos.offset
        /\ ~Here(a.pos) => a.upto <= Edge /\ Interval(a.upto, Edge) \subseteq atRisk

JobsOK ==
  \A w \in Workers :
    /\ At(w, "call") => job[w].since = pos
    /\ At(w, "commit") => /\ queue = <<>> /\ srv \in {"idle", "down"}
                          /\ Commitable(job[w].answer)

\* What the handler knows of the file and of the call.
Looking ==
  /\ Here(tail) /\ file.base <= tail.seen /\ tail.seen <= written
  /\ tail.size \in {2 * (tail.seen - file.base), 2 * (tail.seen - file.base) + 1}
  /\ tail.start = IF Here(queue[1].since) THEN queue[1].since.offset ELSE 0
Handing ==
  /\ Here(queue[1].since)
  /\ answer.from = file.base + tail.start /\ answer.upto = file.base + answer.pos.offset
  /\ answer.pos.inode = file.inode
  /\ answer.from <= answer.upto /\ answer.upto <= written /\ tail.seen <= answer.upto

ServerOK ==
  /\ srv \in {"read", "rotate", "reply"} => queue # <<>>
  /\ srv \in {"read", "rotate"} => Looking
  /\ srv = "rotate" => Handing
  /\ srv = "reply" /\ answer.ok /\ queue[1].open => Commitable(answer)

Protocol == FileOK /\ PosOK /\ QueueOK /\ JobsOK /\ ServerOK
Inv == TypeOK /\ LDInv /\ Protocol

\* What is shown of every step.
StepOK == TypeOK' /\ Protocol' /\ [Log!Next]_(Log!delivery)

-----------------------------------------------------------------------------
(***************************************************************************)
(* LogDelivery: whatever is lost and however the lines are handed over.    *)
(***************************************************************************)

\* What follows a block of lines.
LEMMA Appended ==
  ASSUME NEW r \in Seq(Nat \ {0}), NEW from \in Nat, NEW upto \in Nat, from < upto
  PROVE  /\ r \o Log!Block(from, upto) \in Seq(Nat \ {0})
         /\ Len(r \o Log!Block(from, upto)) = Len(r) + (upto - from)
         /\ \A i \in 1..Len(r) : (r \o Log!Block(from, upto))[i] = r[i]
         /\ \A i \in Len(r) + 1 .. Len(r) + (upto - from) :
              (r \o Log!Block(from, upto))[i] = from + (i - Len(r))
<1> DEFINE b == Log!Block(from, upto)
<1>1. upto - from \in Nat
  OBVIOUS
<1>2. b \in [1..(upto - from) -> Nat \ {0}]
  BY DEF Log!Block
<1>3. b \in Seq(Nat \ {0}) /\ Len(b) = upto - from
  BY <1>1, <1>2
<1>4. \A j \in 1..(upto - from) : b[j] = from + j
  BY DEF Log!Block
<1>5. /\ r \o b \in Seq(Nat \ {0})
      /\ Len(r \o b) = Len(r) + Len(b)
      /\ \A i \in 1..Len(r) + Len(b) :
           (r \o b)[i] = IF i <= Len(r) THEN r[i] ELSE b[i - Len(r)]
  BY <1>3, ConcatProperties
<1>6. Len(r) \in Nat
  BY LenProperties
<1> HIDE DEF b
<1>7. \A i \in Len(r) + 1 .. Len(r) + (upto - from) :
        (r \o b)[i] = from + (i - Len(r))
  <2> TAKE i \in Len(r) + 1 .. Len(r) + (upto - from)
  <2>1. i - Len(r) \in 1..(upto - from) /\ ~(i <= Len(r)) /\ i \in 1..Len(r) + Len(b)
    BY <1>1, <1>3, <1>6
  <2> QED BY <2>1, <1>4, <1>5
<1> QED BY <1>3, <1>5, <1>6, <1>7 DEF b

\* The line applied last is the highest.
LEMMA LastIsHighest ==
  ASSUME LDTypeOK, Log!InOrder
  PROVE  /\ Log!LastApplied \in 0..written
         /\ \A i \in 1..Len(rows) : rows[i] <= Log!LastApplied
<1>1. Len(rows) \in Nat /\ \A i \in 1..Len(rows) : rows[i] \in Nat \ {0}
  BY LenProperties, ElementOfSeq DEF LDTypeOK
<1>2. CASE rows = <<>>
  BY <1>2 DEF Log!LastApplied, LDTypeOK
<1>3. CASE rows # <<>>
  <2>1. Len(rows) \in 1..Len(rows)
    BY <1>1, <1>3, EmptySeq DEF LDTypeOK
  <2>2. Log!LastApplied = rows[Len(rows)]
    BY <1>3 DEF Log!LastApplied
  <2>3. \A i \in 1..Len(rows) : i = Len(rows) \/ i < Len(rows)
    BY <1>1
  <2> QED BY <1>1, <2>1, <2>2, <2>3 DEF Log!InOrder, LDTypeOK
<1> QED BY <1>2, <1>3

LEMMA LDInit == Log!Init => LDInv
<1> SUFFICES ASSUME Log!Init PROVE LDInv
  OBVIOUS
<1>1. rows = <<>> /\ Len(rows) = 0
  BY DEF Log!Init
<1>2. LDTypeOK
  BY <1>1 DEF Log!Init, LDTypeOK
<1> QED BY <1>1, <1>2 DEF LDInv, Log!InOrder, Log!NonePassedOver, Log!LastApplied

LEMMA LDWriteKeeps == LDInv /\ Log!Write => LDInv'
<1> SUFFICES ASSUME LDInv, Log!Write PROVE LDInv'
  OBVIOUS
<1>1. rows \in Seq(Nat \ {0}) /\ \A i \in 1..Len(rows) : rows[i] \in Nat
  BY ElementOfSeq DEF LDInv, LDTypeOK
<1>2. LDTypeOK'
  BY <1>1 DEF LDInv, LDTypeOK, Log!Write
<1> QED BY <1>2 DEF LDInv, Log!Write, Log!InOrder, Log!NonePassedOver, Log!LastApplied

LEMMA LDLoseKeeps == LDInv /\ Log!Lose => LDInv'
<1> SUFFICES ASSUME LDInv, Log!Lose PROVE LDInv'
  OBVIOUS
<1>1. rows \in Seq(Nat \ {0}) /\ \A i \in 1..Len(rows) : rows[i] \in Nat
  BY ElementOfSeq DEF LDInv, LDTypeOK
<1>2. LDTypeOK'
  BY <1>1 DEF LDInv, LDTypeOK, Log!Lose
<1> QED BY <1>2 DEF LDInv, Log!Lose, Log!InOrder, Log!NonePassedOver, Log!LastApplied

LEMMA LDDeliverKeeps == LDInv /\ Log!Deliver => LDInv'
<1> SUFFICES ASSUME LDInv,
                    NEW from \in 0..written, NEW upto \in 0..written,
                    Log!LastApplied <= from, from < upto, upto <= written,
                    (Log!LastApplied + 1)..from \subseteq atRisk,
                    rows' = rows \o Log!Block(from, upto),
                    UNCHANGED <<written, atRisk>>
             PROVE  LDInv'
  BY DEF Log!Deliver
<1> DEFINE n == Len(rows)  m == n + (upto - from)
<1>1. /\ from \in Nat /\ upto \in Nat /\ n \in Nat /\ m \in Nat /\ n < m
      /\ rows \in Seq(Nat \ {0}) /\ written \in Nat
      /\ \A i \in 1..n : rows[i] \in Nat \ {0}
  BY LenProperties, ElementOfSeq DEF LDInv, LDTypeOK
<1>2. /\ Log!LastApplied \in Nat
      /\ \A i \in 1..n : rows[i] <= Log!LastApplied
  BY <1>1, LastIsHighest DEF LDInv
<1>3. /\ rows' \in Seq(Nat \ {0}) /\ Len(rows') = m
      /\ \A i \in 1..n : rows'[i] = rows[i]
      /\ \A i \in n + 1 .. m : rows'[i] = from + (i - n)
  <2>1. /\ rows \o Log!Block(from, upto) \in Seq(Nat \ {0})
        /\ Len(rows \o Log!Block(from, upto)) = Len(rows) + (upto - from)
        /\ \A i \in 1..Len(rows) : (rows \o Log!Block(from, upto))[i] = rows[i]
        /\ \A i \in Len(rows) + 1 .. Len(rows) + (upto - from) :
             (rows \o Log!Block(from, upto))[i] = from + (i - Len(rows))
    BY <1>1, Appended
  <2> QED BY <2>1
<1>4. \A i \in 1..m : i \in 1..n \/ i \in n + 1 .. m
  BY <1>1
<1> HIDE DEF n, m
<1>5. LDTypeOK'
  <2>1. \A i \in n + 1 .. m : rows'[i] <= upto
    BY <1>1, <1>3 DEF m
  <2>2. \A i \in 1..m : rows'[i] <= written
    BY <1>1, <1>2, <1>3, <1>4, <2>1 DEF LDInv, LDTypeOK, n
  <2> QED BY <1>3, <2>2 DEF LDInv, LDTypeOK
<1>6. Log!InOrder'
  <2> SUFFICES ASSUME NEW i \in 1..m, NEW j \in 1..m, i < j
               PROVE  rows'[i] < rows'[j]
    BY <1>3 DEF Log!InOrder
  <2>1. CASE j \in 1..n
    <3>1. i \in 1..n
      BY <1>1, <2>1
    <3> QED BY <1>3, <2>1, <3>1 DEF LDInv, Log!InOrder, n
  <2>2. CASE i \in 1..n /\ j \in n + 1 .. m
    <3>1. rows'[i] = rows[i] /\ rows[i] \in Nat /\ rows[i] <= Log!LastApplied
      BY <1>1, <1>2, <1>3, <2>2
    <3>2. rows'[j] = from + (j - n) /\ j \in Nat /\ n < j
      BY <1>1, <1>3, <2>2
    <3> QED BY <1>1, <1>2, <3>1, <3>2
  <2>3. CASE i \in n + 1 .. m /\ j \in n + 1 .. m
    <3>1. rows'[i] = from + (i - n) /\ rows'[j] = from + (j - n)
      BY <1>3, <2>3
    <3> QED BY <1>1, <2>3, <3>1
  <2>4. CASE i \in n + 1 .. m /\ j \in 1..n
    BY <1>1, <2>4
  <2> QED BY <1>4, <2>1, <2>2, <2>3, <2>4
<1>7. Log!NonePassedOver'
  <2>1. Log!LastApplied' = upto
    <3>1. m \in n + 1 .. m /\ from + (m - n) = upto
      BY <1>1 DEF m
    <3>2. rows' # <<>>
      BY <1>1, <1>3
    <3> QED BY <1>3, <3>1, <3>2 DEF Log!LastApplied
  <2> SUFFICES ASSUME NEW k \in 1..upto
               PROVE  k \in atRisk \/ \E i \in 1..m : rows'[i] = k
    BY <1>3, <2>1 DEF Log!NonePassedOver
  <2>2. CASE k <= Log!LastApplied
    <3>1. k \in atRisk \/ \E i \in 1..n : rows[i] = k
      BY <1>2, <2>2 DEF LDInv, Log!NonePassedOver, n
    <3>2. 1..n \subseteq 1..m
      BY <1>1
    <3> QED BY <1>3, <3>1, <3>2
  <2>3. CASE Log!LastApplied < k /\ k <= from
    <3>1. k \in (Log!LastApplied + 1)..from
      BY <1>1, <1>2, <2>3
    <3> QED BY <3>1
  <2>4. CASE from < k
    <3>1. n + (k - from) \in n + 1 .. m /\ from + ((n + (k - from)) - n) = k
      BY <1>1, <2>4 DEF m
    <3>2. n + 1 .. m \subseteq 1..m
      BY <1>1
    <3> QED BY <1>3, <3>1, <3>2
  <2>5. k <= Log!LastApplied \/ (Log!LastApplied < k /\ k <= from) \/ from < k
    BY <1>1, <1>2
  <2> QED BY <2>2, <2>3, <2>4, <2>5
<1> QED BY <1>5, <1>6, <1>7 DEF LDInv

LEMMA LDStep == LDInv /\ [Log!Next]_(Log!delivery) => LDInv'
<1> SUFFICES ASSUME LDInv, [Log!Next]_(Log!delivery) PROVE LDInv'
  OBVIOUS
<1>1. CASE Log!Write
  BY <1>1, LDWriteKeeps
<1>2. CASE Log!Lose
  BY <1>2, LDLoseKeeps
<1>3. CASE Log!Deliver
  BY <1>3, LDDeliverKeeps
<1>4. CASE UNCHANGED Log!delivery
  BY <1>4 DEF Log!delivery, LDInv, LDTypeOK, Log!InOrder, Log!NonePassedOver, Log!LastApplied
<1> QED BY <1>1, <1>2, <1>3, <1>4 DEF Log!Next

\* Of anything that takes LogDelivery's steps: lines are applied at most once
\* each, in the order Postfix wrote them, whatever is lost on the way.
THEOREM AppliedInOrder == Log!Init /\ [][Log!Next]_(Log!delivery) => []Log!InOrder
<1>1. LDInv => Log!InOrder
  BY DEF LDInv
<1> QED BY <1>1, LDInit, LDStep, PTL

\* Of the same: every line up to the one applied last has been applied or is
\* gone.
THEOREM NothingPassedOver ==
  Log!Init /\ [][Log!Next]_(Log!delivery) => []Log!NonePassedOver
<1>1. LDInv => Log!NonePassedOver
  BY DEF LDInv
<1> QED BY <1>1, LDInit, LDStep, PTL

-----------------------------------------------------------------------------
(***************************************************************************)
(* The protocol.                                                           *)
(***************************************************************************)

\* What the abstract specification's invariant says of the rows.
LEMMA Highest ==
  ASSUME LDInv
  PROVE  /\ Log!LastApplied \in 0..written /\ written \in Nat
         /\ atRisk \subseteq 1..written
         /\ rows \in Seq(Nat \ {0})
<1>1. LDTypeOK /\ Log!InOrder
  BY DEF LDInv
<1>2. Log!LastApplied \in 0..written
  BY <1>1, LastIsHighest
<1> QED BY <1>1, <1>2 DEF LDTypeOK, Log!LastApplied

LEMMA Types ==
  ASSUME Inv
  PROVE  /\ NoInode \notin Inodes /\ kept \subseteq Inodes
         /\ file.inode \in Inodes \cup {NoInode} /\ file.inode \notin kept
         /\ file.base \in Nat /\ written \in Nat /\ MaxLines \in Nat /\ written <= MaxLines
         /\ pos.offset \in Nat /\ pos.inode \in Inodes \cup {NoInode}
         /\ queue \in Seq(Call) /\ Len(queue) \in Nat
         /\ \A i \in 1..Len(queue) : queue[i] \in Call
         /\ Log!LastApplied \in Nat /\ Log!LastApplied <= written
<1>1. /\ file \in [inode : Inodes \cup {NoInode}, base : 0..MaxLines] /\ pos \in Position
      /\ written \in 0..MaxLines /\ queue \in Seq(Call)
      /\ kept \subseteq Inodes /\ file.inode \notin kept
  BY DEF Inv, TypeOK
<1>2. Len(queue) \in Nat /\ \A i \in 1..Len(queue) : queue[i] \in Call
  BY <1>1, ElementOfSeq, LenProperties
<1>3. MaxLines \in Nat /\ NoInode \notin Inodes
  BY LogAssumption
<1>4. Log!LastApplied \in 0..written
  BY Highest DEF Inv
<1> QED BY <1>1, <1>2, <1>3, <1>4 DEF Position

\* The file may grow, or a new one be opened, without any harm to positions.
LEMMA Lasting ==
  ASSUME Inv, UNCHANGED <<pos, rows, kept, atRisk>>,
         \/ file' = file
         \/ file.inode = NoInode /\ file'.inode \in Inodes \ kept /\ file'.base = written,
         written' \in {written, written + 1}, written' = written \/ file'.inode # NoInode
  PROVE  /\ PosOK'
         /\ \A p : p.inode \in kept \cup {NoInode, file.inode} =>
              (Here(p)' <=> Here(p)) /\ p.inode \in kept' \cup {NoInode, file'.inode}
         /\ \A a \in AnswerType : Commitable(a) => Commitable(a)'
<1>1. /\ NoInode \notin Inodes /\ kept \subseteq Inodes
      /\ file.inode \in Inodes \cup {NoInode} /\ file.inode \notin kept
      /\ file.base \in Nat /\ written \in Nat /\ pos.offset \in Nat
  BY Types
<1>2. \A p : p.inode \in kept \cup {NoInode, file.inode} =>
        (Here(p)' <=> Here(p)) /\ p.inode \in kept' \cup {NoInode, file'.inode}
  BY <1>1 DEF Here
<1>3. Log!LastApplied' = Log!LastApplied
  BY DEF Log!LastApplied
<1>4. Edge' = Edge
  BY <1>1 DEF Edge
<1>5. file.inode # NoInode => file' = file
  OBVIOUS
<1>6. /\ pos.inode = NoInode => pos.offset = 0
      /\ pos.inode \in kept \cup {NoInode, file.inode}
      /\ Here(pos) => file.base + pos.offset <= written /\ Passed(file.base + pos.offset)
      /\ ~Here(pos) => Passed(Edge)
  BY DEF Inv, Protocol, PosOK
<1>7. Here(pos)' <=> Here(pos)
  BY <1>1, <1>6 DEF Here
<1>8. PosOK'
  <2>1. CASE Here(pos)
    <3>1. file' = file /\ Here(pos)'
      BY <1>5, <1>7, <2>1 DEF Here
    <3>2. file'.base + pos'.offset <= written'
      BY <1>1, <1>6, <2>1, <3>1
    <3>3. Passed(file.base + pos.offset)'
      BY <1>3, <1>6, <2>1, <3>1 DEF Passed
    <3> QED BY <1>6, <3>1, <3>2, <3>3 DEF PosOK
  <2>2. CASE ~Here(pos)
    <3>1. Passed(Edge)'
      BY <1>3, <1>4, <1>6, <2>2 DEF Passed
    <3>2. pos'.inode \in kept' \cup {NoInode, file'.inode}
      BY <1>1, <1>6
    <3> QED BY <1>6, <1>7, <2>2, <3>1, <3>2 DEF PosOK
  <2> QED BY <2>1, <2>2
<1>9. ASSUME NEW a \in AnswerType, Commitable(a) PROVE Commitable(a)'
  <2>1. a.from <= a.upto /\ a.upto <= written'
    <3>1. a.upto \in Nat
      BY LogAssumption DEF AnswerType
    <3> QED BY <1>1, <1>9, <3>1 DEF Commitable
  <2>2. CASE a.pos = Start /\ a.from = a.upto /\ ~Here(pos)
    BY <1>7, <2>1, <2>2 DEF Commitable
  <2>3. CASE /\ Passed(a.from)
             /\ a.pos.inode \in kept \cup {file.inode} /\ a.pos.inode # NoInode
             /\ Here(a.pos) => a.upto = file.base + a.pos.offset
             /\ ~Here(a.pos) => a.upto <= Edge /\ Interval(a.upto, Edge) \subseteq atRisk
    <3>1. Here(a.pos)' <=> Here(a.pos)
      BY <1>1, <2>3 DEF Here
    <3>2. Here(a.pos) => file' = file
      BY <1>5 DEF Here
    <3>3. a.pos.inode \in kept' \cup {file'.inode}
      BY <1>1, <2>3
    <3>4. Passed(a.from)'
      BY <1>3, <2>3 DEF Passed
    <3> QED BY <1>4, <2>1, <2>3, <3>1, <3>2, <3>3, <3>4 DEF Commitable
  <2> QED BY <1>9, <2>2, <2>3 DEF Commitable
<1> QED BY <1>2, <1>8, <1>9

\* A job or the server moves, and neither the disk nor the database does.
LEMMA Still ==
  ASSUME Inv, UNCHANGED <<disk, db>>
  PROVE  /\ FileOK' /\ PosOK'
         /\ \A p : Here(p)' <=> Here(p)
         /\ \A a \in AnswerType : Commitable(a) => Commitable(a)'
<1>1. /\ file' = file /\ written' = written /\ half' = half /\ kept' = kept
      /\ atRisk' = atRisk /\ pos' = pos /\ rows' = rows
  BY DEF disk, db
<1>2. PosOK' /\ \A a \in AnswerType : Commitable(a) => Commitable(a)'
  BY <1>1, Lasting
<1> QED BY <1>1, <1>2 DEF Inv, Protocol, FileOK, Here

\* Every variable of the calls and jobs that a step leaves alone.
LEMMA CallsStay ==
  ASSUME Inv, UNCHANGED <<queue, handler, job, pos>>,
         \A p : p.inode \in kept \cup {NoInode, file.inode} =>
           (Here(p)' <=> Here(p)) /\ p.inode \in kept' \cup {NoInode, file'.inode},
         \A a \in AnswerType : Commitable(a) => Commitable(a)',
         file.inode # NoInode => file' = file,
         written' \in Nat, written <= written'
  PROVE  QueueOK' /\ JobsOK' /\ ServerOK'
<1>1. /\ queue' = queue /\ srv' = srv /\ tail' = tail /\ answer' = answer
      /\ job' = job /\ pos' = pos
  BY DEF handler
<1>2. answer \in AnswerType /\ \A w \in Workers : job[w].answer \in AnswerType
  BY DEF Inv, TypeOK
<1>3. Here(pos)' <=> Here(pos)
  BY <1>1 DEF Inv, Protocol, PosOK
<1>4. \A i \in 1..Len(queue) :
        /\ Here(queue[i].since)' <=> Here(queue[i].since)
        /\ queue[i].since.inode \in kept' \cup {NoInode, file'.inode}
  BY <1>1 DEF Inv, Protocol, QueueOK
<1>5. QueueOK'
  <2> SUFFICES ASSUME NEW i \in 1..Len(queue)
               PROVE  LET s == queue[i].since IN
                      /\ s.inode = NoInode => s.offset = 0
                      /\ s.inode \in kept' \cup {NoInode, file'.inode}
                      /\ Here(s)' => /\ Here(pos)' /\ s.offset <= pos.offset
                                     /\ \A j \in i..Len(queue) : Here(queue[j].since)'
                      /\ queue[i].open => i = Len(queue) /\ job[queue[i].worker].step = "wait"
                                          /\ s = pos
    BY <1>1 DEF QueueOK
  <2>1. \A j \in i..Len(queue) : j \in 1..Len(queue)
    BY Types
  <2> QED BY <1>3, <1>4, <2>1 DEF Inv, Protocol, QueueOK
<1>6. JobsOK'
  BY <1>1, <1>2 DEF Inv, Protocol, JobsOK, At
<1>7. ServerOK'
  <2>1. srv \in {"read", "rotate", "reply"} => queue # <<>> /\ 1 \in 1..Len(queue)
    BY Types, EmptySeq DEF Inv, Protocol, ServerOK
  <2>2. srv \in {"read", "rotate"} => Looking'
    <3> HAVE srv \in {"read", "rotate"}
    <3>1. Looking /\ file.inode # NoInode /\ file' = file
      BY DEF Inv, Protocol, ServerOK, Looking, Here
    <3>2. tail.seen \in Nat
      BY LogAssumption DEF Inv, TypeOK
    <3> QED BY <1>1, <1>4, <2>1, <3>1, <3>2, Types DEF Looking, Here
  <2>3. srv = "rotate" => Handing'
    <3> HAVE srv = "rotate"
    <3>1. Handing /\ file' = file
      BY DEF Inv, Protocol, ServerOK, Handing, Here
    <3>2. answer.upto \in Nat
      BY LogAssumption DEF Inv, TypeOK, AnswerType
    <3> QED BY <1>1, <1>4, <2>1, <3>1, <3>2, Types DEF Handing, Here
  <2>4. srv = "reply" /\ answer.ok /\ queue[1].open => Commitable(answer)'
    BY <1>1, <1>2 DEF Inv, Protocol, ServerOK
  <2> QED BY <1>1, <2>1, <2>2, <2>3, <2>4 DEF ServerOK
<1> QED BY <1>5, <1>6, <1>7

-----------------------------------------------------------------------------
\* One lemma for each action.

LEMMA Opens ==
  ASSUME Inv, Opened
  PROVE  /\ \/ file' = file
            \/ file.inode = NoInode /\ file'.inode \in Inodes \ kept /\ file'.base = written
         /\ file' \in [inode : Inodes \cup {NoInode}, base : 0..MaxLines]
         /\ file'.inode # NoInode /\ file'.inode \notin kept /\ file'.base <= written
<1>1. CASE file.inode # NoInode
  BY <1>1 DEF Opened, Inv, TypeOK, Protocol, FileOK
<1>2. CASE file.inode = NoInode
  <2>1. PICK i \in Inodes \ kept : file' = [inode |-> i, base |-> written]
    BY <1>2, Types DEF Opened
  <2>2. written \in 0..MaxLines /\ NoInode \notin Inodes
    BY LogAssumption DEF Inv, TypeOK
  <2> QED BY <1>2, <2>1, <2>2
<1> QED BY <1>1, <1>2

LEMMA WriteLineKeeps ==
  ASSUME Inv, NEW complete \in BOOLEAN, WriteLine(complete)
  PROVE  StepOK
<1>1. /\ ~half /\ written < MaxLines /\ Opened /\ half' = ~complete
      /\ written' = IF complete THEN written + 1 ELSE written
      /\ UNCHANGED <<kept, atRisk, queue, handler, job, pos, rows, faults>>
  BY DEF WriteLine, db
<1>2. /\ \/ file' = file
         \/ file.inode = NoInode /\ file'.inode \in Inodes \ kept /\ file'.base = written
      /\ file' \in [inode : Inodes \cup {NoInode}, base : 0..MaxLines]
      /\ file'.inode # NoInode /\ file'.inode \notin kept /\ file'.base <= written
  BY <1>1, Opens
<1>3. written \in Nat /\ MaxLines \in Nat /\ written' \in 0..MaxLines
  BY <1>1, Types
<1>4. TypeOK'
  BY <1>1, <1>2, <1>3 DEF Inv, TypeOK, handler, At
<1>5. FileOK'
  <2>1. half' => written' = written
    BY <1>1
  <2>2. file'.base <= written'
    BY <1>1, <1>2, <1>3
  <2> QED BY <1>1, <1>2, <2>1, <2>2 DEF FileOK
<1>6. /\ PosOK'
      /\ \A p : p.inode \in kept \cup {NoInode, file.inode} =>
           (Here(p)' <=> Here(p)) /\ p.inode \in kept' \cup {NoInode, file'.inode}
      /\ \A a \in AnswerType : Commitable(a) => Commitable(a)'
  BY <1>1, <1>2, <1>3, Lasting
<1>7. QueueOK' /\ JobsOK' /\ ServerOK'
  BY <1>1, <1>2, <1>3, <1>6, CallsStay
<1>8. [Log!Next]_(Log!delivery)
  BY <1>1 DEF Log!Next, Log!Write, Log!delivery
<1> QED BY <1>4, <1>5, <1>6, <1>7, <1>8 DEF Protocol, StepOK

LEMMA FinishKeeps ==
  ASSUME Inv, Finish
  PROVE  StepOK
<1>1. /\ half /\ ~half' /\ written' = written + 1
      /\ UNCHANGED <<file, kept, atRisk, queue, handler, job, pos, rows, faults>>
  BY DEF Finish, db
<1>2. file.inode # NoInode /\ written < MaxLines /\ file.base <= written
  BY <1>1 DEF Inv, Protocol, FileOK
<1>3. written \in Nat /\ MaxLines \in Nat /\ written' \in 0..MaxLines /\ file.base \in Nat
  BY <1>1, <1>2, Types
<1>4. TypeOK'
  BY <1>1, <1>3 DEF Inv, TypeOK, handler, At, Finish
<1>5. FileOK'
  BY <1>1, <1>2, <1>3 DEF FileOK
<1>6. /\ PosOK'
      /\ \A p : p.inode \in kept \cup {NoInode, file.inode} =>
           (Here(p)' <=> Here(p)) /\ p.inode \in kept' \cup {NoInode, file'.inode}
      /\ \A a \in AnswerType : Commitable(a) => Commitable(a)'
  BY <1>1, <1>2, <1>3, Lasting
<1>7. QueueOK' /\ JobsOK' /\ ServerOK'
  BY <1>1, <1>2, <1>3, <1>6, CallsStay
<1>8. [Log!Next]_(Log!delivery)
  BY <1>1 DEF Log!Next, Log!Write, Log!delivery
<1> QED BY <1>4, <1>5, <1>6, <1>7, <1>8 DEF Protocol, StepOK

LEMMA BootKeeps ==
  ASSUME Inv, Boot
  PROVE  StepOK
<1>1. /\ srv = "down" /\ srv' = "idle" /\ Opened
      /\ UNCHANGED <<written, half, kept, atRisk, queue, tail, answer, job, pos, rows, faults>>
  BY DEF Boot, db
<1>2. /\ \/ file' = file
         \/ file.inode = NoInode /\ file'.inode \in Inodes \ kept /\ file'.base = written
      /\ file' \in [inode : Inodes \cup {NoInode}, base : 0..MaxLines]
      /\ file'.inode # NoInode /\ file'.inode \notin kept /\ file'.base <= written
  BY <1>1, Opens
<1>3. TypeOK'
  BY <1>1, <1>2 DEF Inv, TypeOK, At
<1>4. FileOK'
  BY <1>1, <1>2, Types DEF Inv, Protocol, FileOK
<1>5. /\ PosOK'
      /\ \A p : p.inode \in kept \cup {NoInode, file.inode} =>
           (Here(p)' <=> Here(p)) /\ p.inode \in kept' \cup {NoInode, file'.inode}
      /\ \A a \in AnswerType : Commitable(a) => Commitable(a)'
  BY <1>1, <1>2, Lasting
<1>6. JobsOK'
  <2>1. \A w \in Workers : job[w].answer \in AnswerType
    BY DEF Inv, TypeOK
  <2> QED BY <1>1, <1>5, <2>1 DEF Inv, Protocol, JobsOK, At
<1>7. QueueOK'
  <2>1. \A i \in 1..Len(queue) :
          /\ Here(queue[i].since)' <=> Here(queue[i].since)
          /\ queue[i].since.inode \in kept' \cup {NoInode, file'.inode}
    BY <1>1, <1>5 DEF Inv, Protocol, QueueOK
  <2>2. Here(pos)' <=> Here(pos)
    BY <1>1, <1>5 DEF Inv, Protocol, PosOK
  <2>3. \A i \in 1..Len(queue) : \A j \in i..Len(queue) : j \in 1..Len(queue)
    BY Types
  <2> QED BY <1>1, <2>1, <2>2, <2>3 DEF Inv, Protocol, QueueOK
<1>8. ServerOK'
  BY <1>1 DEF ServerOK
<1>9. [Log!Next]_(Log!delivery)
  BY <1>1 DEF Log!delivery
<1> QED BY <1>3, <1>4, <1>5, <1>6, <1>7, <1>8, <1>9 DEF Protocol, StepOK

\* While a job is elsewhere than at "idle", every other one is idle.
LEMMA Alone ==
  ASSUME Inv, NEW w \in Workers, ~At(w, "idle")
  PROVE  \A x \in Workers : x # w => At(x, "idle")
BY DEF Inv, TypeOK, At

JobType == [step : {"idle", "call", "wait", "commit"}, since : Position, answer : AnswerType]

LEMMA IdleType == NoAnswer \in AnswerType /\ Idle \in JobType /\ Idle.step = "idle"
BY LogAssumption DEF Idle, JobType, NoAnswer, AnswerType, Start, Position

LEMMA NoTailType ==
  NoTail \in [inode : Inodes \cup {NoInode}, size : 0..2*MaxLines,
              seen : 0..MaxLines, start : 0..MaxLines]
BY LogAssumption DEF NoTail

LEMMA BeginKeeps ==
  ASSUME Inv, NEW w \in Workers, Begin(w)
  PROVE  StepOK
<1>1. /\ \A x \in Workers : At(x, "idle")
      /\ job' = [job EXCEPT ![w] = [Idle EXCEPT !.step = "call", !.since = pos]]
      /\ UNCHANGED <<disk, queue, handler, db, faults>>
  BY DEF Begin, SetJob
<1>2. /\ file' = file /\ written' = written /\ half' = half /\ kept' = kept
      /\ atRisk' = atRisk /\ pos' = pos /\ rows' = rows /\ queue' = queue
      /\ srv' = srv /\ tail' = tail /\ answer' = answer /\ faults' = faults
  BY <1>1 DEF disk, db, handler
<1> DEFINE j == [Idle EXCEPT !.step = "call", !.since = pos]
<1>3. j \in JobType /\ j.step = "call" /\ j.since = pos
  BY IdleType DEF Inv, TypeOK, JobType
<1>4. job \in [Workers -> JobType]
  BY DEF Inv, TypeOK, JobType
<1> HIDE DEF j
<1>5. /\ job' \in [Workers -> JobType]
      /\ At(w, "call")' /\ job'[w].since = pos
      /\ \A x \in Workers : x # w => job'[x].step = "idle"
  BY <1>1, <1>3, <1>4 DEF At, j
<1>6. TypeOK'
  BY <1>2, <1>5 DEF Inv, TypeOK, JobType
<1>7. FileOK' /\ PosOK' /\ \A p : Here(p)' <=> Here(p)
  BY <1>1, Still
<1>8. JobsOK'
  BY <1>2, <1>5 DEF JobsOK, At
<1>9. QueueOK'
  <2>1. \A i \in 1..Len(queue) : ~queue[i].open
    BY <1>1, Types DEF Inv, Protocol, QueueOK, At, Call
  <2>2. \A i \in 1..Len(queue) : \A k \in i..Len(queue) : k \in 1..Len(queue)
    BY Types
  <2> QED BY <1>2, <1>7, <2>1, <2>2 DEF Inv, Protocol, QueueOK
<1>10. ServerOK'
  BY <1>2, <1>7 DEF Inv, Protocol, ServerOK, Looking, Handing, Commitable, Here, Passed, Edge,
     Log!LastApplied
<1>11. [Log!Next]_(Log!delivery)
  BY <1>2 DEF Log!delivery
<1> QED BY <1>6, <1>7, <1>8, <1>9, <1>10, <1>11 DEF Protocol, StepOK

\* Callers hang up, and jobs end; nothing else happens.
LEMMA ClosingKeeps ==
  ASSUME Inv, UNCHANGED <<disk, handler, db>>, faults' \in 0..MaxFaults,
         queue' \in Seq(Call), Len(queue') = Len(queue),
         job' \in [Workers -> JobType],
         \A w \in Workers : job'[w] = job[w] \/ job'[w] = Idle,
         \A i \in 1..Len(queue) :
           /\ queue'[i].since = queue[i].since
           /\ queue'[i].open => /\ queue[i].open /\ queue'[i].worker = queue[i].worker
                                /\ job'[queue[i].worker] = job[queue[i].worker]
  PROVE  StepOK
<1>1. /\ file' = file /\ written' = written /\ half' = half /\ kept' = kept
      /\ atRisk' = atRisk /\ pos' = pos /\ rows' = rows
      /\ srv' = srv /\ tail' = tail /\ answer' = answer
  BY DEF disk, db, handler
<1>2. \A w \in Workers : job'[w] = job[w] \/ job'[w].step = "idle"
  BY IdleType
<1>3. Len(queue) \in Nat /\ (queue # <<>> <=> queue' # <<>>)
  BY Types, EmptySeq
<1>4. TypeOK'
  BY <1>1, <1>2 DEF Inv, TypeOK, JobType
<1>5. FileOK' /\ PosOK' /\ \A p : Here(p)' <=> Here(p)
  BY Still
<1>6. JobsOK'
  <2> SUFFICES ASSUME NEW w \in Workers, job'[w].step # "idle"
               PROVE  /\ At(w, "call")' => job'[w].since = pos
                      /\ At(w, "commit")' => /\ queue' = <<>> /\ srv' \in {"idle", "down"}
                                             /\ Commitable(job[w].answer)'
    BY <1>1 DEF JobsOK, At
  <2>1. job'[w] = job[w]
    BY <1>2
  <2>2. job[w].answer \in AnswerType
    BY DEF Inv, TypeOK
  <2>3. Commitable(job[w].answer) => Commitable(job[w].answer)'
    BY <2>1, <2>2, Still
  <2> QED BY <1>1, <1>3, <2>1, <2>3 DEF Inv, Protocol, JobsOK, At
<1>7. QueueOK'
  <2>1. \A i \in 1..Len(queue) : \A k \in i..Len(queue) : k \in 1..Len(queue)
    BY Types
  <2> QED BY <1>1, <1>5, <2>1 DEF Inv, Protocol, QueueOK
<1>8. ServerOK'
  <2>1. queue # <<>> => /\ queue'[1].since = queue[1].since
                        /\ queue'[1].open => queue[1].open
    BY <1>3, EmptySeq, Types
  <2>2. answer \in AnswerType
    BY DEF Inv, TypeOK
  <2>3. Commitable(answer) => Commitable(answer)'
    BY <1>1, <2>2, Still
  <2>4. srv \in {"read", "rotate", "reply"} => queue # <<>>
    BY DEF Inv, Protocol, ServerOK
  <2>5. srv \in {"read", "rotate"} => Looking'
    BY <1>1, <1>5, <2>1, <2>4 DEF Inv, Protocol, ServerOK, Looking
  <2>6. srv = "rotate" => Handing'
    BY <1>1, <1>5, <2>1, <2>4 DEF Inv, Protocol, ServerOK, Handing
  <2> QED BY <1>1, <1>3, <2>1, <2>3, <2>4, <2>5, <2>6 DEF Inv, Protocol, ServerOK
<1>9. [Log!Next]_(Log!delivery)
  BY <1>1 DEF Log!delivery
<1> QED BY <1>4, <1>5, <1>6, <1>7, <1>8, <1>9 DEF Protocol, StepOK

LEMMA FaultCounted ==
  ASSUME Inv, NEW kind, Fault(kind)
  PROVE  faults' \in 0..MaxFaults
BY LogAssumption DEF Inv, TypeOK, Fault

LEMMA GiveUpKeeps ==
  ASSUME Inv, NEW w \in Workers, GiveUp(w)
  PROVE  StepOK
<1>1. /\ faults' \in 0..MaxFaults /\ UNCHANGED <<disk, handler, db>>
      /\ queue' = [i \in 1..Len(queue) |->
                     [queue[i] EXCEPT !.open = @ /\ queue[i].worker # w]]
      /\ job' = [job EXCEPT ![w] = Idle]
  BY FaultCounted DEF GiveUp, SetJob
<1>2. job \in [Workers -> JobType]
  BY DEF Inv, TypeOK, JobType
<1>3. /\ job' \in [Workers -> JobType] /\ job'[w] = Idle
      /\ \A x \in Workers : x # w => job'[x] = job[x]
  BY <1>1, <1>2, IdleType
<1>4. \A i \in 1..Len(queue) :
        /\ queue'[i] \in Call /\ queue'[i].since = queue[i].since
        /\ queue'[i].worker = queue[i].worker /\ queue[i].worker \in Workers
        /\ queue'[i].open => queue[i].open /\ queue[i].worker # w
  BY <1>1, Types DEF Call
<1>5. queue' \in Seq(Call) /\ Len(queue') = Len(queue)
  <2>1. queue' \in [1..Len(queue) -> Call]
    BY <1>1, <1>4
  <2> QED BY <2>1, Types
<1> QED BY <1>1, <1>3, <1>4, <1>5, ClosingKeeps

LEMMA AppQuitsKeeps ==
  ASSUME Inv, AppQuits
  PROVE  StepOK
<1>1. /\ faults' \in 0..MaxFaults /\ UNCHANGED <<disk, handler, db>>
      /\ queue' = [i \in 1..Len(queue) |-> [queue[i] EXCEPT !.open = FALSE]]
      /\ job' = [w \in Workers |-> Idle]
  BY FaultCounted DEF AppQuits
<1>2. job' \in [Workers -> JobType] /\ \A w \in Workers : job'[w] = Idle
  BY <1>1, IdleType
<1>3. \A i \in 1..Len(queue) :
        /\ queue'[i] \in Call /\ queue'[i].since = queue[i].since /\ ~queue'[i].open
  BY <1>1, Types DEF Call
<1>4. queue' \in Seq(Call) /\ Len(queue') = Len(queue)
  <2>1. queue' \in [1..Len(queue) -> Call]
    BY <1>1, <1>3
  <2> QED BY <2>1, Types
<1> QED BY <1>1, <1>2, <1>3, <1>4, ClosingKeeps

LEMMA CommitFailsKeeps ==
  ASSUME Inv, NEW w \in Workers, CommitFails(w)
  PROVE  StepOK
<1>1. /\ faults' \in 0..MaxFaults /\ UNCHANGED <<disk, handler, db>>
      /\ queue' = queue /\ queue = <<>>
      /\ job' = [job EXCEPT ![w] = Idle]
  BY FaultCounted DEF CommitFails, SetJob, Inv, Protocol, JobsOK
<1>2. job \in [Workers -> JobType]
  BY DEF Inv, TypeOK, JobType
<1>3. /\ job' \in [Workers -> JobType]
      /\ \A x \in Workers : job'[x] = job[x] \/ job'[x] = Idle
  BY <1>1, <1>2, IdleType
<1>4. queue \in Seq(Call) /\ Len(queue) = 0
  BY <1>1, Types
<1> QED BY <1>1, <1>3, <1>4, ClosingKeeps

LEMMA ConnectKeeps ==
  ASSUME Inv, NEW w \in Workers, Connect(w)
  PROVE  StepOK
<1>1. job \in [Workers -> JobType]
  BY DEF Inv, TypeOK, JobType
<1>2. CASE srv = "down"
  <2>1. /\ UNCHANGED <<disk, handler, db>> /\ queue' = queue /\ faults' = faults
        /\ job' = [job EXCEPT ![w] = Idle]
    BY <1>2 DEF Connect, SetJob
  <2>2. /\ job' \in [Workers -> JobType] /\ job'[w] = Idle
        /\ \A x \in Workers : x # w => job'[x] = job[x]
    BY <1>1, <2>1, IdleType
  <2>3. \A i \in 1..Len(queue) : queue[i].open => queue[i].worker # w
    BY DEF Connect, At, Inv, Protocol, QueueOK
  <2>4. faults \in 0..MaxFaults /\ queue \in Seq(Call)
    BY DEF Inv, TypeOK
  <2>5. \A i \in 1..Len(queue) : queue[i].worker \in Workers
    BY Types DEF Call
  <2> QED BY <2>1, <2>2, <2>3, <2>4, <2>5, ClosingKeeps
<1>3. CASE srv # "down"
  <2> DEFINE c == [worker |-> w, since |-> job[w].since, open |-> TRUE]
  <2>1. /\ UNCHANGED <<disk, handler, db>> /\ faults' = faults
        /\ queue' = Append(queue, c)
        /\ job' = [job EXCEPT ![w] = [job[w] EXCEPT !.step = "wait"]]
        /\ job[w].step = "call"
    BY <1>3 DEF Connect, SetJob, At
  <2>2. /\ file' = file /\ written' = written /\ half' = half /\ kept' = kept
        /\ atRisk' = atRisk /\ pos' = pos /\ rows' = rows
        /\ srv' = srv /\ tail' = tail /\ answer' = answer
    BY <2>1 DEF disk, db, handler
  <2>3. job[w].since = pos
    BY <2>1 DEF Inv, Protocol, JobsOK, At
  <2>4. c \in Call /\ c.since = pos /\ c.worker = w
    BY <1>1, <2>3 DEF Call, JobType
  <2>5. /\ job' \in [Workers -> JobType] /\ job'[w].step = "wait"
        /\ \A x \in Workers : x # w => job'[x] = job[x] /\ job[x].step = "idle"
    BY <1>1, <2>1, Alone DEF JobType, At
  <2> HIDE DEF c
  <2>6. /\ queue' \in Seq(Call) /\ Len(queue') = Len(queue) + 1
        /\ \A i \in 1..Len(queue) : queue'[i] = queue[i]
        /\ queue'[Len(queue) + 1] = c
    BY <2>1, <2>4, Types, AppendProperties
  <2>7. Len(queue) \in Nat /\ \A i \in 1..Len(queue) : ~queue[i].open
    <3>1. \A i \in 1..Len(queue) : queue[i].open => queue[i].worker \in Workers
                                                      /\ job[queue[i].worker].step = "wait"
      BY Types DEF Call, Inv, Protocol, QueueOK
    <3> QED BY <2>1, <2>5, <3>1, Types
  <2>8. TypeOK'
    <3>1. \A x, y \in Workers : job'[x].step # "idle" /\ job'[y].step # "idle" => x = y
      BY <2>5
    <3> QED BY <2>1, <2>2, <2>5, <2>6, <3>1 DEF Inv, TypeOK, JobType
  <2>9. FileOK' /\ PosOK' /\ \A p : Here(p)' <=> Here(p)
    BY <2>1, Still
  <2>10. JobsOK'
    BY <2>5 DEF JobsOK, At
  <2>11. QueueOK'
    <3> SUFFICES ASSUME NEW i \in 1..Len(queue) + 1
                 PROVE  LET s == queue'[i].since IN
                        /\ s.inode = NoInode => s.offset = 0
                        /\ s.inode \in kept \cup {NoInode, file.inode}
                        /\ Here(s) => /\ Here(pos) /\ s.offset <= pos.offset
                                      /\ \A k \in i..Len(queue) + 1 : Here(queue'[k].since)
                        /\ queue'[i].open => /\ i = Len(queue) + 1 /\ s = pos
                                             /\ job'[queue'[i].worker].step = "wait"
      BY <2>2, <2>6, <2>9 DEF QueueOK, Here
    <3>1. CASE i = Len(queue) + 1
      <4>1. queue'[i] = c
        BY <2>6, <3>1
      <4>2. \A k \in i..Len(queue) + 1 : k = i
        BY <2>7, <3>1
      <4>3. pos.offset \in Nat
        BY Types
      <4> QED BY <2>4, <2>5, <3>1, <4>1, <4>2, <4>3 DEF Inv, Protocol, PosOK
    <3>2. CASE i \in 1..Len(queue)
      <4>1. queue'[i] = queue[i] /\ ~queue[i].open
        BY <2>6, <2>7, <3>2
      <4>2. ASSUME NEW k \in i..Len(queue) + 1, k # Len(queue) + 1
            PROVE  k \in i..Len(queue)
        BY <2>7, <3>2, <4>2
      <4>3. Here(queue[i].since) => \A k \in i..Len(queue) : Here(queue[k].since)
        BY <3>2 DEF Inv, Protocol, QueueOK
      <4>4. Here(queue[i].since) => Here(pos) /\ queue[i].since.offset <= pos.offset
        BY <3>2 DEF Inv, Protocol, QueueOK
      <4>5. Here(queue[i].since) => \A k \in i..Len(queue) + 1 : Here(queue'[k].since)
        BY <2>4, <2>6, <4>2, <4>3, <4>4
      <4> QED BY <3>2, <4>1, <4>4, <4>5 DEF Inv, Protocol, QueueOK
    <3> QED BY <2>7, <3>1, <3>2
  <2>12. ServerOK'
    <3>1. srv \in {"read", "rotate", "reply"} => queue # <<>>
      BY DEF Inv, Protocol, ServerOK
    <3>2. queue # <<>> => queue'[1] = queue[1] /\ queue' # <<>> /\ 1 \in 1..Len(queue)
      BY <2>6, <2>7, EmptySeq, Types
    <3>3. srv \in {"read", "rotate"} => Looking'
      BY <2>2, <2>9, <3>1, <3>2 DEF Inv, Protocol, ServerOK, Looking
    <3>4. srv = "rotate" => Handing'
      BY <2>2, <2>9, <3>1, <3>2 DEF Inv, Protocol, ServerOK, Handing
    <3>5. srv = "reply" => ~queue'[1].open
      BY <2>7, <3>1, <3>2
    <3> QED BY <2>2, <3>1, <3>2, <3>3, <3>4, <3>5 DEF ServerOK
  <2>13. [Log!Next]_(Log!delivery)
    BY <2>2 DEF Log!delivery
  <2> QED BY <2>8, <2>9, <2>10, <2>11, <2>12, <2>13 DEF Protocol, StepOK
<1> QED BY <1>2, <1>3

-----------------------------------------------------------------------------
LEMMA Spans ==
  ASSUME NEW x \in Nat, NEW y \in Nat, NEW z \in Nat
  PROVE  Interval(x, z) \subseteq Interval(x, y) \cup Interval(y, z)
BY DEF Interval

\* The rows of an answer that may be committed.
LEMMA Applied ==
  ASSUME Inv, NEW a \in AnswerType, Commitable(a), rows' = rows \o NumbersOf(a)
  PROVE  /\ a.from = a.upto => rows' = rows
         /\ a.from < a.upto => /\ Log!LastApplied' = a.upto
                               /\ rows' = rows \o Log!Block(a.from, a.upto)
<1>1. /\ a.from \in Nat /\ a.upto \in Nat /\ a.from <= a.upto
      /\ rows \in Seq(Nat \ {0})
  BY LogAssumption, Highest DEF AnswerType, Commitable, Inv
<1>2. NumbersOf(a) = Log!Block(a.from, a.upto)
  BY DEF NumbersOf, Log!Block
<1>3. ASSUME a.from = a.upto PROVE rows' = rows
  <2>1. a.upto - a.from = 0
    BY <1>1, <1>3
  <2>2. NumbersOf(a) = <<>>
    BY <2>1 DEF NumbersOf
  <2> QED BY <1>1, <2>2, ConcatEmptySeq
<1>4. ASSUME a.from < a.upto PROVE Log!LastApplied' = a.upto
  <2> DEFINE n == Len(rows)  m == n + (a.upto - a.from)
  <2>1. /\ rows' \in Seq(Nat \ {0}) /\ Len(rows') = m
        /\ \A i \in n + 1 .. m : rows'[i] = a.from + (i - n)
    <3>1. LET b == rows \o Log!Block(a.from, a.upto) IN
          /\ b \in Seq(Nat \ {0})
          /\ Len(b) = Len(rows) + (a.upto - a.from)
          /\ \A i \in Len(rows) + 1 .. Len(rows) + (a.upto - a.from) :
               b[i] = a.from + (i - Len(rows))
      BY <1>1, <1>4, Appended
    <3> QED BY <1>2, <3>1
  <2>2. n \in Nat
    BY <1>1, LenProperties
  <2>3. m \in n + 1 .. m /\ a.from + (m - n) = a.upto /\ m # 0
    BY <1>1, <1>4, <2>2
  <2>4. rows'[m] = a.upto
    BY <2>1, <2>3
  <2>5. rows' # <<>>
    BY <2>1, <2>3
  <2> QED BY <2>1, <2>4, <2>5 DEF Log!LastApplied
<1> QED BY <1>2, <1>3, <1>4

LEMMA CommitKeeps ==
  ASSUME Inv, NEW w \in Workers, Commit(w)
  PROVE  StepOK
<1> DEFINE a == job[w].answer
<1>1. /\ rows' = rows \o NumbersOf(a) /\ pos' = a.pos
      /\ job' = [job EXCEPT ![w] = Idle] /\ job[w].step = "commit"
      /\ UNCHANGED <<disk, queue, handler, faults>>
  BY DEF Commit, SetJob, At
<1>2. /\ file' = file /\ written' = written /\ half' = half /\ kept' = kept
      /\ atRisk' = atRisk /\ queue' = queue
      /\ srv' = srv /\ tail' = tail /\ answer' = answer /\ faults' = faults
  BY <1>1 DEF disk, handler
<1>3. job \in [Workers -> JobType] /\ a \in AnswerType
  BY DEF Inv, TypeOK, JobType
<1>4. /\ job' \in [Workers -> JobType]
      /\ \A x \in Workers : job'[x].step = "idle"
  BY <1>1, <1>3, IdleType, Alone DEF At
<1>5. queue = <<>> /\ srv \in {"idle", "down"} /\ Commitable(a)
  BY <1>1 DEF Inv, Protocol, JobsOK, At
<1> HIDE DEF a
<1>6. /\ a.from = a.upto => rows' = rows
      /\ a.from < a.upto => /\ Log!LastApplied' = a.upto
                            /\ rows' = rows \o Log!Block(a.from, a.upto)
  BY <1>1, <1>3, <1>5, Applied
<1>7. /\ a.from \in 0..MaxLines /\ a.upto \in 0..MaxLines /\ a.pos \in Position
      /\ a.from <= a.upto /\ a.upto <= written /\ MaxLines \in Nat
  BY <1>3, <1>5, LogAssumption DEF AnswerType, Commitable
<1>8. TypeOK'
  <2>1. rows \in Seq(Lines)
    BY DEF Inv, TypeOK
  <2>2. NumbersOf(a) \in [1..(a.upto - a.from) -> Lines]
    BY <1>7 DEF NumbersOf, Lines
  <2>3. NumbersOf(a) \in Seq(Lines)
    BY <1>7, <2>2
  <2>4. rows' \in Seq(Lines)
    BY <1>1, <2>1, <2>3, ConcatProperties
  <2> QED BY <1>1, <1>2, <1>4, <1>7, <2>4 DEF Inv, TypeOK, JobType
<1>9. FileOK'
  BY <1>2 DEF Inv, Protocol, FileOK
<1>10. PosOK'
  <2>1. Log!LastApplied \in Nat /\ file.base \in Nat /\ written \in Nat /\ NoInode \notin Inodes
    BY Types
  <2>2. CASE a.pos = Start /\ a.from = a.upto /\ ~Here(pos)
    <3>1. Passed(Edge) /\ Log!LastApplied' = Log!LastApplied /\ Edge' = Edge
      BY <1>2, <1>6, <2>2 DEF Inv, Protocol, PosOK, Log!LastApplied, Edge
    <3>2. Passed(Edge)'
      BY <1>2, <3>1 DEF Passed
    <3>3. pos'.inode = NoInode /\ pos'.offset = 0 /\ ~Here(pos)'
      BY <1>1, <1>2, <2>2 DEF Start, Here
    <3> QED BY <3>2, <3>3 DEF PosOK
  <2>3. CASE /\ Passed(a.from)
             /\ a.pos.inode \in kept \cup {file.inode} /\ a.pos.inode # NoInode
             /\ Here(a.pos) => a.upto = file.base + a.pos.offset
             /\ ~Here(a.pos) => a.upto <= Edge /\ Interval(a.upto, Edge) \subseteq atRisk
    <3>1. (Here(pos)' <=> Here(a.pos)) /\ Edge' = Edge
      BY <1>1, <1>2 DEF Here, Edge
    <3>2. /\ Log!LastApplied' \in Nat /\ Log!LastApplied' <= a.upto
          /\ Interval(Log!LastApplied', a.upto) \subseteq atRisk
      <4>1. CASE a.from < a.upto
        BY <1>6, <1>7, <4>1 DEF Interval
      <4>2. CASE a.from = a.upto
        <5>1. Log!LastApplied' = Log!LastApplied
          BY <1>6, <4>2 DEF Log!LastApplied
        <5> QED BY <2>1, <2>3, <4>2, <5>1 DEF Passed
      <4> QED BY <1>7, <4>1, <4>2
    <3>3. CASE Here(a.pos)
      <4>1. Passed(file.base + pos.offset)'
        BY <1>1, <1>2, <2>3, <3>2, <3>3 DEF Passed
      <4>2. file'.base + pos'.offset <= written'
        BY <1>1, <1>2, <1>7, <2>3, <3>3
      <4> QED BY <1>1, <1>2, <2>3, <3>1, <3>3, <4>1, <4>2 DEF PosOK
    <3>4. CASE ~Here(a.pos)
      <4>1. Edge \in Nat
        BY <2>1 DEF Edge
      <4>2. Interval(Log!LastApplied', Edge) \subseteq Interval(Log!LastApplied', a.upto)
                                                 \cup Interval(a.upto, Edge)
        BY <1>7, <3>2, <4>1, Spans
      <4>3. Passed(Edge)'
        BY <1>2, <1>7, <2>3, <3>1, <3>2, <3>4, <4>1, <4>2 DEF Passed
      <4> QED BY <1>1, <1>2, <2>3, <3>1, <3>4, <4>3 DEF PosOK
    <3> QED BY <3>3, <3>4
  <2> QED BY <1>5, <2>2, <2>3 DEF Commitable
<1>11. QueueOK' /\ JobsOK' /\ ServerOK'
  <2>1. Len(queue') = 0 /\ srv' \in {"idle", "down"}
    BY <1>2, <1>5
  <2> QED BY <1>4, <2>1 DEF QueueOK, JobsOK, ServerOK, At
<1>12. [Log!Next]_(Log!delivery)
  <2>1. CASE a.from = a.upto
    BY <1>2, <1>6, <2>1 DEF Log!delivery
  <2>2. CASE a.from < a.upto
    <3>1. Passed(a.from)
      BY <1>5, <1>7, <2>2 DEF Commitable
    <3>2. a.from \in 0..written /\ a.upto \in 0..written
      BY <1>7, Types
    <3> QED BY <1>2, <1>6, <2>2, <3>1, <3>2 DEF Passed, Interval, Log!Next, Log!Deliver
  <2> QED BY <1>7, <2>1, <2>2
<1> QED BY <1>8, <1>9, <1>10, <1>11, <1>12 DEF Protocol, StepOK

-----------------------------------------------------------------------------
\* While a call is handled its caller waits, and nobody is about to commit.
LEMMA NoneCommits ==
  ASSUME Inv, queue # <<>>
  PROVE  \A w \in Workers : ~At(w, "commit")
BY DEF Inv, Protocol, JobsOK

\* The server goes on with a call; nobody else notices.
LEMMA HandlingKeeps ==
  ASSUME Inv, queue # <<>>, UNCHANGED <<disk, db, queue, job>>, faults' \in 0..MaxFaults,
         srv' \in {"read", "rotate", "reply"},
         tail' \in [inode : Inodes \cup {NoInode}, size : 0..2*MaxLines,
                    seen : 0..MaxLines, start : 0..MaxLines],
         answer' \in AnswerType, ServerOK'
  PROVE  StepOK
<1>1. /\ file' = file /\ written' = written /\ half' = half /\ kept' = kept
      /\ atRisk' = atRisk /\ pos' = pos /\ rows' = rows /\ queue' = queue
      /\ job' = job
  BY DEF disk, db
<1>2. TypeOK'
  BY <1>1 DEF Inv, TypeOK
<1>3. FileOK' /\ PosOK' /\ \A p : Here(p)' <=> Here(p)
  BY Still
<1>4. JobsOK'
  BY <1>1, NoneCommits DEF Inv, Protocol, JobsOK, At
<1>5. QueueOK'
  <2>1. \A i \in 1..Len(queue) : \A k \in i..Len(queue) : k \in 1..Len(queue)
    BY Types
  <2> QED BY <1>1, <1>3, <2>1 DEF Inv, Protocol, QueueOK
<1>6. [Log!Next]_(Log!delivery)
  BY <1>1 DEF Log!delivery
<1> QED BY <1>2, <1>3, <1>4, <1>5, <1>6 DEF Protocol, StepOK

\* What the first call asks for.
LEMMA First ==
  ASSUME Inv, queue # <<>>
  PROVE  /\ Head(queue) = queue[1] /\ queue[1] \in Call /\ 1 \in 1..Len(queue)
         /\ queue[1].since \in Position /\ queue[1].worker \in Workers
         /\ queue[1].since.inode = NoInode => queue[1].since.offset = 0
         /\ Here(queue[1].since) =>
              /\ Here(pos) /\ queue[1].since.offset <= pos.offset
              /\ file.base + pos.offset <= written /\ Passed(file.base + pos.offset)
              /\ \A j \in 1..Len(queue) : Here(queue[j].since)
         /\ queue[1].open => /\ Len(queue) = 1 /\ job[queue[1].worker].step = "wait"
                             /\ queue[1].since = pos
<1>1. 1 \in 1..Len(queue) /\ Head(queue) = queue[1]
  BY Types, EmptySeq, HeadTailProperties
<1>2. queue[1] \in Call
  BY <1>1, Types
<1> QED BY <1>1, <1>2 DEF Call, Inv, Protocol, QueueOK, PosOK

LEMMA StatKeeps ==
  ASSUME Inv, Stat
  PROVE  StepOK
<1> DEFINE s == queue[1].since
<1>1. queue # <<>> /\ UNCHANGED <<disk, db, queue, job>> /\ faults' \in 0..MaxFaults
  BY DEF Stat, disk, db, Inv, TypeOK
<1>2. /\ file' = file /\ written' = written /\ half' = half /\ kept' = kept
      /\ atRisk' = atRisk /\ pos' = pos /\ rows' = rows /\ queue' = queue
  BY <1>1 DEF disk, db
<1>3. /\ Head(queue).since = s /\ s \in Position
      /\ s.inode = NoInode => s.offset = 0
  BY <1>1, First
<1>4. /\ file.base \in 0..MaxLines /\ written \in 0..MaxLines
      /\ file.inode \in Inodes \cup {NoInode} /\ MaxLines \in Nat /\ NoInode \notin Inodes
      /\ file.base <= written
      /\ half => written < MaxLines
  BY LogAssumption DEF Inv, TypeOK, Protocol, FileOK
<1>5. CASE file.inode = NoInode
  <2>1. srv' = "reply" /\ answer' = [NoAnswer EXCEPT !.ok = TRUE] /\ tail' = tail
    BY <1>5 DEF Stat, Answered
  <2>2. answer' \in AnswerType /\ answer'.pos = Start /\ answer'.from = 0 /\ answer'.upto = 0
    BY <2>1, IdleType DEF AnswerType, NoAnswer
  <2>3. tail' \in [inode : Inodes \cup {NoInode}, size : 0..2*MaxLines,
                   seen : 0..MaxLines, start : 0..MaxLines]
    BY <2>1 DEF Inv, TypeOK
  <2>4. ServerOK'
    <3>1. ~Here(pos)'
      BY <1>2, <1>5 DEF Here
    <3>2. Commitable(answer)'
      BY <1>2, <1>4, <2>2, <3>1 DEF Commitable
    <3> QED BY <1>1, <1>2, <2>1, <3>2 DEF ServerOK
  <2> QED BY <1>1, <2>1, <2>2, <2>3, <2>4, HandlingKeeps
<1>6. CASE file.inode # NoInode
  <2>1. /\ tail' = [inode |-> file.inode, size |-> Size, seen |-> written,
                    start |-> IF Truncated(s) THEN 0 ELSE s.offset]
        /\ srv' = "read" /\ answer' = answer
    BY <1>3, <1>6 DEF Stat
  <2>2. /\ Size \in 0..2*MaxLines
        /\ Size \in {2 * (written - file.base), 2 * (written - file.base) + 1}
    <3> DEFINE d == written - file.base
    <3>1. d \in Nat /\ d <= MaxLines
      BY <1>4
    <3>2. half => d < MaxLines
      BY <1>4, <3>1
    <3>3. Size \in {2 * d, 2 * d + 1} /\ (~half => Size = 2 * d)
      BY <3>1 DEF Size
    <3> HIDE DEF d
    <3>4. Size \in 0..2*MaxLines
      <4>1. CASE half
        BY <1>4, <3>1, <3>2, <3>3, <4>1
      <4>2. CASE ~half
        BY <1>4, <3>1, <3>3, <4>2
      <4> QED BY <4>1, <4>2
    <3> QED BY <3>3, <3>4 DEF d
  <2>3. (IF Truncated(s) THEN 0 ELSE s.offset) = (IF Here(s) THEN s.offset ELSE 0)
    <3>1. CASE s.inode = NoInode
      BY <1>3, <3>1
    <3>2. CASE s.inode # NoInode
      BY <1>6, <3>2 DEF Truncated, Here
    <3> QED BY <3>1, <3>2
  <2>4. s.offset \in 0..MaxLines /\ 0 \in 0..MaxLines
    BY <1>3, <1>4 DEF Position
  <2>5. tail' \in [inode : Inodes \cup {NoInode}, size : 0..2*MaxLines,
                   seen : 0..MaxLines, start : 0..MaxLines]
    BY <1>4, <2>1, <2>2, <2>4
  <2>6. answer' \in AnswerType
    BY <2>1 DEF Inv, TypeOK
  <2>7. /\ tail'.inode = file.inode /\ tail'.seen = written /\ tail'.size = Size
        /\ tail'.start = IF Here(s) THEN s.offset ELSE 0
    BY <2>1, <2>3
  <2>8. Looking'
    <3>1. Here(queue[1].since)' <=> Here(s)
      BY <1>2 DEF Here
    <3>2. Here(tail)'
      BY <1>2, <1>6, <2>7 DEF Here
    <3> QED BY <1>2, <1>4, <2>2, <2>7, <3>1, <3>2 DEF Looking
  <2>9. ServerOK'
    BY <1>1, <1>2, <2>1, <2>8 DEF ServerOK
  <2> QED BY <1>1, <2>1, <2>5, <2>6, <2>9, HandlingKeeps
<1> QED BY <1>5, <1>6

\* An answer just read may be committed, if its caller is still there.
LEMMA Fresh ==
  ASSUME Inv, queue # <<>>, queue[1].open, Here(tail), NEW a, a.from \in Nat, a.upto \in Nat,
         tail.start = IF Here(queue[1].since) THEN queue[1].since.offset ELSE 0,
         a.from = file.base + tail.start, a.upto = file.base + a.pos.offset,
         a.pos.inode = file.inode, a.from <= a.upto, a.upto <= written
  PROVE  Commitable(a) /\ Passed(a.from)
<1>1. queue[1].since = pos
  BY First
<1>2. Passed(a.from)
  <2>1. CASE Here(pos)
    BY <1>1, <2>1 DEF Inv, Protocol, PosOK
  <2>2. CASE ~Here(pos)
    <3>1. a.from = Edge
      BY <1>1, <2>2, Types DEF Edge, Here
    <3> QED BY <2>2, <3>1 DEF Inv, Protocol, PosOK
  <2> QED BY <2>1, <2>2
<1>3. Here(a.pos) /\ a.pos.inode # NoInode
  BY DEF Here
<1> QED BY <1>2, <1>3 DEF Commitable

LEMMA ReadKeeps ==
  ASSUME Inv, Read
  PROVE  StepOK
<1> DEFINE n == Available  from == file.base + tail.start
           offset == Consumed(n)  s == queue[1].since
<1>1. /\ srv = "read" /\ UNCHANGED <<disk, db, queue, job>> /\ tail' = tail
      /\ answer' = Handed(from, from + n, offset)
      /\ srv' = (IF MayRotate(offset) THEN "rotate" ELSE "reply")
      /\ faults' \in 0..MaxFaults
  BY DEF Read, disk, db, Inv, TypeOK
<1>2. /\ file' = file /\ written' = written /\ half' = half /\ kept' = kept
      /\ atRisk' = atRisk /\ pos' = pos /\ rows' = rows /\ queue' = queue
  BY <1>1 DEF disk, db
<1>3. queue # <<>> /\ Looking
  BY <1>1 DEF Inv, Protocol, ServerOK
<1>4. /\ file.base \in Nat /\ written \in Nat /\ written <= MaxLines /\ MaxLines \in Nat
      /\ tail.seen \in Nat /\ tail.size \in Nat /\ tail.start \in Nat
      /\ tail.inode \in Inodes \cup {NoInode}
      /\ Chunk \in Nat \ {0} /\ RotateLines \in Nat /\ Chunk < RotateLines
      /\ file.base <= written
  BY LogAssumption, Types DEF Inv, TypeOK, Protocol, FileOK
<1>5. s.offset \in Nat /\ pos.offset \in Nat
  BY <1>3, First, Types, LogAssumption DEF Position
<1>6. tail.start = (IF Here(s) THEN s.offset ELSE 0) /\ file.base + tail.start <= written
  <2>1. CASE Here(s)
    BY <1>3, <1>4, <1>5, <2>1, First DEF Looking
  <2>2. CASE ~Here(s)
    BY <1>3, <1>4, <2>2 DEF Looking
  <2> QED BY <2>1, <2>2
<1>7. n \in Nat /\ n <= Chunk /\ from + n <= written
  BY <1>4, <1>6 DEF Available
<1> HIDE DEF n
<1>8. offset = tail.start + n /\ offset \in Nat
  BY <1>4, <1>7 DEF Consumed
<1> HIDE DEF offset
<1>9. /\ answer'.from = from /\ answer'.upto = from + n /\ answer'.ok
      /\ answer'.pos.offset = offset /\ answer'.pos.inode = file.inode
      /\ answer'.upto = file.base + answer'.pos.offset
      /\ answer'.from <= answer'.upto /\ answer'.upto <= written
      /\ answer'.from \in Nat /\ answer'.upto \in Nat
  <2>1. /\ answer'.from = from /\ answer'.upto = from + n /\ answer'.ok
        /\ answer'.pos.offset = offset /\ answer'.pos.inode = tail.inode
    BY <1>1 DEF Handed
  <2>2. tail.inode = file.inode
    BY <1>3 DEF Looking, Here
  <2> QED BY <1>4, <1>7, <1>8, <2>1, <2>2
<1>10. answer' \in AnswerType
  <2>1. from \in 0..MaxLines /\ from + n \in 0..MaxLines /\ offset \in 0..MaxLines
    BY <1>4, <1>6, <1>7, <1>8
  <2> QED BY <1>1, <1>4, <2>1 DEF Handed, AnswerType, Position
<1>11. tail' \in [inode : Inodes \cup {NoInode}, size : 0..2*MaxLines,
                  seen : 0..MaxLines, start : 0..MaxLines]
  BY <1>1 DEF Inv, TypeOK
<1>12. Looking' /\ (Here(s)' <=> Here(s))
  BY <1>1, <1>2, <1>3 DEF Looking, Here
<1>13. srv' = "rotate" => Handing'
  <2> SUFFICES ASSUME srv' = "rotate" PROVE Handing'
    OBVIOUS
  <2>1. 2 * offset >= tail.size /\ tail.size >= 2 * RotateLines
    BY <1>1 DEF MayRotate
  <2>2. Here(s)
    <3> SUFFICES ASSUME ~Here(s) PROVE FALSE
      OBVIOUS
    <3>1. offset <= Chunk
      BY <1>6, <1>7, <1>8, <1>4
    <3> QED BY <1>4, <1>8, <2>1, <3>1
  <2>3. tail.seen <= from + n
    <3>1. tail.size >= 2 * (tail.seen - file.base)
      BY <1>3, <1>4 DEF Looking
    <3> QED BY <1>4, <1>7, <1>8, <2>1, <3>1
  <2> QED BY <1>1, <1>2, <1>9, <1>12, <2>2, <2>3 DEF Handing
<1>14. srv' = "reply" /\ queue[1].open => Commitable(answer)'
  <2> SUFFICES ASSUME queue[1].open PROVE Commitable(answer)'
    OBVIOUS
  <2>1. Here(tail)
    BY <1>3 DEF Looking
  <2>2. Passed(answer'.from) /\ Here(answer'.pos)
    BY <1>3, <1>6, <1>9, <2>1, Fresh DEF Here
  <2> QED BY <1>2, <1>9, <2>1, <2>2 DEF Commitable, Passed, Here, Log!LastApplied
<1>15. ServerOK'
  BY <1>1, <1>2, <1>3, <1>12, <1>13, <1>14 DEF ServerOK
<1> QED BY <1>1, <1>3, <1>10, <1>11, <1>15, HandlingKeeps

-----------------------------------------------------------------------------
\* The file is renamed with all that the call has handed out: what it leaves
\* behind is at risk.
LEMMA RenamedKeeps ==
  ASSUME Inv, srv = "rotate", Renamed, {file.inode} \subseteq kept', kept' \subseteq Inodes,
         UNCHANGED <<queue, tail, job, db>>, faults' \in 0..MaxFaults,
         srv' = "reply", answer' \in {answer, NoAnswer}
  PROVE  StepOK
<1>1. /\ file' = [inode |-> NoInode, base |-> file.base]
      /\ written' = (IF half THEN written + 1 ELSE written)
      /\ half' = FALSE
      /\ atRisk' = atRisk \cup Interval(answer.from, answer.upto)
                          \cup Interval(tail.seen, written')
      /\ queue' = queue /\ tail' = tail /\ job' = job /\ pos' = pos /\ rows' = rows
  BY DEF Renamed, db
<1>2. /\ queue # <<>> /\ Looking /\ Handing
  BY DEF Inv, Protocol, ServerOK
<1>3. /\ file.base \in Nat /\ written \in Nat /\ MaxLines \in Nat /\ pos.offset \in Nat
      /\ Log!LastApplied \in Nat /\ Log!LastApplied <= written
      /\ NoInode \notin Inodes /\ written <= MaxLines /\ file.base <= written
      /\ file.base \in 0..MaxLines
  BY Types DEF Inv, TypeOK, Protocol, FileOK
<1>4. /\ answer.from \in Nat /\ answer.upto \in Nat /\ tail.seen \in Nat /\ tail.start \in Nat
      /\ answer \in AnswerType /\ answer' \in AnswerType /\ atRisk \subseteq 1..written
      /\ faults' \in 0..MaxFaults
  BY LogAssumption, Highest, IdleType DEF Inv, TypeOK, AnswerType
<1>5. written' \in 0..MaxLines /\ written' \in {written, written + 1} /\ written <= written'
  <2>1. half => written < MaxLines
    BY DEF Inv, Protocol, FileOK
  <2>2. CASE half
    BY <1>1, <1>3, <2>1, <2>2
  <2>3. CASE ~half
    BY <1>1, <1>3, <2>3
  <2> QED BY <2>2, <2>3
<1>6. /\ tail.start = queue[1].since.offset /\ queue[1].since.offset \in Nat
      /\ Here(pos) /\ tail.start <= pos.offset
      /\ file.base + pos.offset <= written /\ Passed(file.base + pos.offset)
      /\ \A i \in 1..Len(queue) : Here(queue[i].since)
      /\ queue[1].open => queue[1].since = pos
      /\ answer.from = file.base + tail.start /\ answer.from <= answer.upto
      /\ answer.upto <= written /\ tail.seen <= answer.upto
      /\ answer.pos.inode = file.inode /\ file.inode \in Inodes
  BY <1>2, <1>4, First, Types DEF Looking, Handing, Here
<1>7. /\ \A p : ~Here(p)'
      /\ Edge' = written' /\ Log!LastApplied' = Log!LastApplied
      /\ atRisk \subseteq atRisk'
  BY <1>1 DEF Here, Edge, Log!LastApplied
<1>8. Interval(answer.from, written') \subseteq atRisk'
  BY <1>1, <1>3, <1>4, <1>5, <1>6 DEF Interval
<1>9. Interval(Log!LastApplied, written') \subseteq atRisk'
  <2>1. Interval(Log!LastApplied, written') \subseteq
          Interval(Log!LastApplied, file.base + pos.offset)
            \cup Interval(file.base + pos.offset, written')
    BY <1>3, <1>5, Spans
  <2>2. Interval(file.base + pos.offset, written') \subseteq Interval(answer.from, written')
    BY <1>3, <1>4, <1>5, <1>6 DEF Interval
  <2> QED BY <1>6, <1>7, <1>8, <2>1, <2>2 DEF Passed
<1>10. atRisk' \subseteq 1..written'
  <2>1. 1..written \subseteq 1..written'
    BY <1>3, <1>5
  <2>2. Interval(answer.from, answer.upto) \subseteq 1..written'
    BY <1>3, <1>4, <1>5, <1>6 DEF Interval
  <2>3. Interval(tail.seen, written') \subseteq 1..written'
    BY <1>3, <1>4, <1>5 DEF Interval
  <2> QED BY <1>1, <1>4, <2>1, <2>2, <2>3
<1>11. TypeOK'
  <2>1. atRisk' \subseteq Lines
    BY <1>5, <1>10, <1>3 DEF Lines
  <2> QED BY <1>1, <1>3, <1>4, <1>5, <2>1 DEF Inv, TypeOK
<1>12. FileOK'
  BY <1>1, <1>3, <1>5 DEF FileOK
<1>13. PosOK'
  <2>1. Passed(Edge)'
    BY <1>3, <1>5, <1>7, <1>9 DEF Passed
  <2>2. /\ pos'.inode \in kept' \cup {NoInode, file'.inode}
        /\ pos'.inode = NoInode => pos'.offset = 0
    BY <1>1, <1>6 DEF Here, Inv, Protocol, PosOK
  <2> QED BY <1>7, <2>1, <2>2 DEF PosOK
<1>14. QueueOK'
  <2>1. \A i \in 1..Len(queue) : queue[i].since.inode \in kept'
    BY <1>6 DEF Here
  <2> QED BY <1>1, <1>7, <2>1 DEF Inv, Protocol, QueueOK
<1>15. JobsOK'
  BY <1>1, <1>2, NoneCommits DEF Inv, Protocol, JobsOK, At
<1>16. ServerOK'
  <2>1. CASE answer' = NoAnswer
    BY <1>1, <1>2, <2>1 DEF ServerOK, NoAnswer
  <2>2. CASE answer' = answer /\ queue[1].open
    <3>1. Passed(answer.from)'
      BY <1>6, <1>7, <2>2 DEF Passed
    <3>2. Interval(answer.upto, written') \subseteq atRisk'
      BY <1>1, <1>4, <1>5, <1>6 DEF Interval
    <3>3. answer.upto <= written'
      BY <1>3, <1>4, <1>5, <1>6
    <3>4. Commitable(answer)'
      <4>1. answer'.pos.inode \in kept' \cup {file'.inode} /\ answer'.pos.inode # NoInode
        BY <1>3, <1>6, <2>2
      <4> QED BY <1>6, <1>7, <2>2, <3>1, <3>2, <3>3, <4>1 DEF Commitable, Passed
    <3> QED BY <1>1, <1>2, <3>4 DEF ServerOK
  <2>3. CASE ~queue[1].open
    BY <1>1, <1>2, <2>3 DEF ServerOK
  <2> QED BY <2>1, <2>2, <2>3
<1>17. [Log!Next]_(Log!delivery)
  BY <1>1, <1>5, <1>7, <1>10 DEF Log!Next, Log!Lose
<1> QED BY <1>11, <1>12, <1>13, <1>14, <1>15, <1>16, <1>17 DEF Protocol, StepOK

LEMMA RotateKeeps ==
  ASSUME Inv, Rotate
  PROVE  StepOK
<1>1. /\ srv = "rotate" /\ srv' = "reply" /\ UNCHANGED <<queue, tail, job, db>>
      /\ answer' \in {answer, NoAnswer}
  BY DEF Rotate, Answered
<1>2. faults' \in 0..MaxFaults
  <2>1. faults \in 0..MaxFaults
    BY DEF Inv, TypeOK
  <2> QED BY <2>1, FaultCounted DEF Rotate
<1>3. queue # <<>> /\ Looking /\ Handing
  BY <1>1 DEF Inv, Protocol, ServerOK
<1>4. file.inode \in Inodes /\ kept \subseteq Inodes
  BY <1>3, Types DEF Looking, Here
<1>5. CASE Renamed /\ kept' \in {{file.inode}, kept \cup {file.inode}}
  BY <1>1, <1>2, <1>4, <1>5, RenamedKeeps
<1>6. CASE UNCHANGED disk
  <2>1. /\ file' = file /\ written' = written /\ atRisk' = atRisk /\ pos' = pos
        /\ rows' = rows /\ queue' = queue /\ tail' = tail /\ job' = job /\ kept' = kept
        /\ half' = half
    BY <1>1, <1>6 DEF disk, db
  <2>2. answer \in AnswerType /\ NoAnswer \in AnswerType
    BY IdleType DEF Inv, TypeOK
  <2>3. tail' \in [inode : Inodes \cup {NoInode}, size : 0..2*MaxLines,
                   seen : 0..MaxLines, start : 0..MaxLines]
    BY <2>1 DEF Inv, TypeOK
  <2>4. queue[1].open => Commitable(answer)
    <3>1. answer.from \in Nat /\ answer.upto \in Nat
      BY <2>2, LogAssumption DEF AnswerType
    <3> QED BY <1>3, <3>1, Fresh DEF Looking, Handing
  <2>5. ServerOK'
    <3>1. CASE answer' = NoAnswer
      BY <1>1, <1>3, <2>1, <3>1 DEF ServerOK, NoAnswer
    <3>2. CASE answer' = answer /\ queue[1].open
      <4>1. Commitable(answer)'
        BY <2>1, <2>4, <3>2 DEF Commitable, Passed, Here, Edge, Log!LastApplied
      <4> QED BY <1>1, <1>3, <2>1, <4>1 DEF ServerOK
    <3>3. CASE ~queue[1].open
      BY <1>1, <1>3, <2>1, <3>3 DEF ServerOK
    <3> QED BY <1>1, <3>1, <3>2, <3>3
  <2> QED BY <1>1, <1>2, <1>3, <1>6, <2>2, <2>3, <2>5, HandlingKeeps
<1>7. (Renamed /\ kept' \in {{file.inode}, kept \cup {file.inode}}) \/ UNCHANGED disk
  BY DEF Rotate
<1> QED BY <1>5, <1>6, <1>7

-----------------------------------------------------------------------------
\* The calls are gone, and whoever waits for one.
LEMMA DroppingKeeps ==
  ASSUME Inv, UNCHANGED <<disk, db>>, ServerGone, faults' \in 0..MaxFaults
  PROVE  StepOK
<1>1. /\ file' = file /\ written' = written /\ half' = half /\ kept' = kept
      /\ atRisk' = atRisk /\ pos' = pos /\ rows' = rows
      /\ srv' = "down" /\ tail' = NoTail /\ answer' = NoAnswer /\ queue' = <<>>
      /\ job' = [w \in Workers |-> IF At(w, "wait") THEN Idle ELSE job[w]]
  BY DEF disk, db, ServerGone
<1>2. job \in [Workers -> JobType]
  BY DEF Inv, TypeOK, JobType
<1>3. /\ job' \in [Workers -> JobType]
      /\ \A w \in Workers : job'[w] = job[w] \/ job'[w].step = "idle"
  BY <1>1, <1>2, IdleType
<1>4. TypeOK'
  <2>1. Len(queue') = 0 /\ queue' \in Seq(Call)
    BY <1>1
  <2> QED BY <1>1, <1>3, <2>1, NoTailType, IdleType DEF Inv, TypeOK, JobType
<1>5. FileOK' /\ PosOK'
  BY Still
<1>6. JobsOK'
  <2> SUFFICES ASSUME NEW w \in Workers, job'[w].step # "idle"
               PROVE  /\ At(w, "call")' => job'[w].since = pos
                      /\ At(w, "commit")' => Commitable(job[w].answer)'
    BY <1>1 DEF JobsOK, At
  <2>1. job'[w] = job[w] /\ job[w].answer \in AnswerType
    BY <1>2, <1>3 DEF JobType
  <2>2. Commitable(job[w].answer) => Commitable(job[w].answer)'
    BY <2>1, Still
  <2> QED BY <2>1, <2>2 DEF Inv, Protocol, JobsOK, At
<1>7. QueueOK' /\ ServerOK'
  <2>1. Len(queue') = 0
    BY <1>1
  <2> QED BY <1>1, <2>1 DEF QueueOK, ServerOK
<1>8. [Log!Next]_(Log!delivery)
  BY <1>1 DEF Log!delivery
<1> QED BY <1>4, <1>5, <1>6, <1>7, <1>8 DEF Protocol, StepOK

LEMMA ContainerStopsKeeps ==
  ASSUME Inv, ContainerStops
  PROVE  StepOK
BY FaultCounted, DroppingKeeps DEF ContainerStops

LEMMA ReplyKeeps ==
  ASSUME Inv, Reply
  PROVE  StepOK
<1> DEFINE c == queue[1]  w == c.worker
           j == IF answer.ok THEN [job[w] EXCEPT !.step = "commit", !.answer = answer] ELSE Idle
<1>1. srv = "reply" /\ queue # <<>> /\ Head(queue) = c /\ UNCHANGED <<disk, db, faults>>
  <2>1. srv = "reply" /\ UNCHANGED <<disk, db, faults>>
    BY DEF Reply
  <2> QED BY <2>1, First DEF Inv, Protocol, ServerOK
<1>2. faults' \in 0..MaxFaults
  BY <1>1 DEF Inv, TypeOK
<1>3. CASE ServerGone
  BY <1>1, <1>2, <1>3, DroppingKeeps
<1>4. CASE ~ServerGone
  <2>1. /\ c.open /\ srv' = "idle" /\ tail' = NoTail /\ answer' = NoAnswer
        /\ queue' = Tail(queue) /\ job' = [job EXCEPT ![w] = j]
    BY <1>1, <1>4 DEF Reply, Rest, SetJob
  <2>2. /\ file' = file /\ written' = written /\ half' = half /\ kept' = kept
        /\ atRisk' = atRisk /\ pos' = pos /\ rows' = rows
    BY <1>1 DEF disk, db
  <2>3. /\ job \in [Workers -> JobType] /\ answer \in AnswerType
    BY DEF Inv, TypeOK, JobType
  <2>4. Len(queue) = 1 /\ job[w].step = "wait" /\ w \in Workers
    BY <1>1, <2>1, First
  <2>5. queue' = <<>>
    BY <1>1, <2>1, <2>4, Types, HeadTailProperties, EmptySeq
  <2>6. /\ j \in JobType
        /\ j.step # "idle" => j.step = "commit" /\ j.answer = answer /\ answer.ok
    BY <2>3, <2>4, IdleType DEF JobType
  <2> HIDE DEF j
  <2>7. /\ job' \in [Workers -> JobType] /\ job'[w] = j
        /\ \A x \in Workers : x # w => job'[x].step = "idle"
    BY <2>1, <2>3, <2>4, <2>6, Alone DEF At
  <2>8. TypeOK'
    <3>1. Len(queue') = 0 /\ queue' \in Seq(Call)
      BY <2>5
    <3> QED BY <1>2, <2>1, <2>2, <2>7, <3>1, NoTailType, IdleType DEF Inv, TypeOK, JobType
  <2>9. FileOK' /\ PosOK'
    BY <1>1, Still
  <2>10. JobsOK'
    <3> SUFFICES ASSUME NEW x \in Workers, job'[x].step # "idle"
                 PROVE  At(x, "commit")' /\ Commitable(job[x].answer)'
      BY <2>1, <2>5 DEF JobsOK, At
    <3>1. job'[x] = j /\ j.step = "commit" /\ j.answer = answer /\ answer.ok
      BY <2>6, <2>7
    <3>2. Commitable(answer)
      BY <1>1, <2>1, <3>1 DEF Inv, Protocol, ServerOK
    <3>3. ASSUME NEW a \in AnswerType, a = answer
          PROVE  Commitable(job[x].answer)'
      <4>1. Commitable(a)'
        BY <1>1, <3>2, <3>3, Still
      <4> QED BY <3>1, <3>3, <4>1
    <3> QED BY <2>3, <3>1, <3>3 DEF At
  <2>11. QueueOK' /\ ServerOK'
    <3>1. Len(queue') = 0
      BY <2>5
    <3> QED BY <2>1, <3>1 DEF QueueOK, ServerOK
  <2>12. [Log!Next]_(Log!delivery)
    BY <2>2 DEF Log!delivery
  <2> QED BY <2>8, <2>9, <2>10, <2>11, <2>12 DEF Protocol, StepOK
<1> QED BY <1>3, <1>4

-----------------------------------------------------------------------------
LEMMA InvInit == Init => Inv
<1> SUFFICES ASSUME Init PROVE Inv
  OBVIOUS
<1>1. /\ file.inode \in Inodes /\ file.base = 0 /\ written = 0 /\ half = FALSE /\ kept = {}
      /\ queue = <<>> /\ srv = "idle" /\ pos = Start /\ rows = <<>> /\ atRisk = {}
      /\ MaxLines \in Nat /\ MaxFaults \in Nat /\ NoInode \notin Inodes
      /\ Start.inode = NoInode /\ Start.offset = 0
  BY LogAssumption DEF Init, Start
<1>2. TypeOK
  <2>1. file \in [inode : Inodes \cup {NoInode}, base : 0..MaxLines]
    <3>1. file \in [inode : Inodes, base : {0}] /\ 0 \in 0..MaxLines
      BY <1>1 DEF Init
    <3> QED BY <3>1
  <2>4. half \in BOOLEAN
    BY DEF Init
  <2>5. tail \in [inode : Inodes \cup {NoInode}, size : 0..2*MaxLines,
                  seen : 0..MaxLines, start : 0..MaxLines]
    BY NoTailType DEF Init
  <2>3. pos \in Position
    BY <1>1 DEF Start, Position
  <2>2. /\ job \in [Workers -> JobType] /\ \A w \in Workers : job[w].step = "idle"
        /\ answer \in AnswerType
    BY IdleType DEF Init
  <2> QED BY <1>1, <2>1, <2>2, <2>3, <2>4, <2>5 DEF Init, TypeOK, JobType
<1>3. Log!LastApplied = 0 /\ ~Here(pos)
  BY <1>1 DEF Log!LastApplied, Here
<1>4. Passed(0) /\ Edge = 0
  BY <1>1, <1>3 DEF Passed, Edge, Interval
<1>5. FileOK /\ PosOK
  BY <1>1, <1>3, <1>4 DEF FileOK, PosOK
<1>6. JobsOK
  BY IdleType DEF Init, JobsOK, At
<1>7. QueueOK /\ ServerOK
  <2>1. Len(queue) = 0
    BY <1>1
  <2> QED BY <1>1, <2>1 DEF QueueOK, ServerOK
<1>8. LDInv
  BY LDInit DEF Init, Log!Init
<1> QED BY <1>2, <1>5, <1>6, <1>7, <1>8 DEF Inv, Protocol

LEMMA StutterKeeps ==
  ASSUME Inv, UNCHANGED vars
  PROVE  StepOK
<1>1. /\ UNCHANGED <<disk, handler, db>> /\ queue' = queue /\ job' = job /\ faults' = faults
  BY DEF vars
<1>2. /\ faults \in 0..MaxFaults /\ queue \in Seq(Call) /\ job \in [Workers -> JobType]
  BY DEF Inv, TypeOK, JobType
<1> QED BY <1>1, <1>2, ClosingKeeps

\* Every step keeps the invariant, and is one of LogDelivery's or none.
LEMMA InvNext == Inv /\ [Next]_vars => Inv' /\ [Log!Next]_(Log!delivery)
<1> SUFFICES ASSUME Inv, [Next]_vars PROVE Inv' /\ [Log!Next]_(Log!delivery)
  OBVIOUS
<1>1. ASSUME Finish \/ Boot \/ ContainerStops \/ AppQuits PROVE StepOK
  BY <1>1, FinishKeeps, BootKeeps, ContainerStopsKeeps, AppQuitsKeeps
<1>2. ASSUME Stat \/ Read \/ Rotate \/ Reply PROVE StepOK
  BY <1>2, StatKeeps, ReadKeeps, RotateKeeps, ReplyKeeps
<1>3. ASSUME \E complete \in BOOLEAN : WriteLine(complete) PROVE StepOK
  BY <1>3, WriteLineKeeps
<1>4. ASSUME \E w \in Workers : Begin(w) \/ Work(w) \/ GiveUp(w) \/ CommitFails(w) PROVE StepOK
  BY <1>4, BeginKeeps, ConnectKeeps, CommitKeeps, GiveUpKeeps, CommitFailsKeeps DEF Work
<1>5. ASSUME UNCHANGED vars PROVE StepOK
  BY <1>5, StutterKeeps
<1>6. StepOK
  BY <1>1, <1>2, <1>3, <1>4, <1>5 DEF Next, Server
<1>7. LDInv'
  BY <1>6, LDStep DEF Inv, StepOK
<1> QED BY <1>6, <1>7 DEF Inv, StepOK

-----------------------------------------------------------------------------
\* Files, positions, calls, answers and jobs are well formed, and one thread at
\* most ingests (mail_log_ingest.py, _ingest_lock).
THEOREM TypeCorrect == Spec => []TypeOK
<1>1. Inv => TypeOK
  BY DEF Inv
<1> QED BY <1>1, InvInit, InvNext, PTL DEF Spec

\* Whatever is rotated, refused, slow, given up, rolled back or restarted, each
\* step of the files and calls is a step of LogDelivery: the application sees
\* lines in order, each once, and misses none that is not at risk.
THEOREM KeepsPromise == Spec => Log!Init /\ [][Log!Next]_(Log!delivery)
<1>1. Init => Log!Init
  BY DEF Init, Log!Init
<1> QED BY <1>1, InvInit, InvNext, PTL DEF Spec

\* So mail_log's rows are Postfix's lines in order, each once, and what an
\* applied line passed over was renamed away while its call ran: offset,
\* truncation, rotation and commit lose and repeat nothing else.
THEOREM RowsAreLines == Spec => [](Log!InOrder /\ Log!NonePassedOver)
BY KeepsPromise, AppliedInOrder, NothingPassedOver, PTL

\* A line has been applied, or can be read from the committed position, or was
\* renamed away while its call ran (_tail_maillog, _rotate_maillog).
THEOREM NothingSkipped == Spec => []NoneSkipped
<1>1. Inv => NoneSkipped
  <2> SUFFICES ASSUME Inv, NEW n \in 1..written
               PROVE  n \in Ingested \cup Reachable \cup atRisk
    BY DEF NoneSkipped
  <2>1. /\ file.base \in Nat /\ written \in Nat /\ pos.offset \in Nat /\ NoInode \notin Inodes
        /\ Log!LastApplied \in Nat /\ Log!LastApplied <= written
    BY Types
  <2>2. CASE n <= Log!LastApplied
    <3>1. Log!NonePassedOver
      BY DEF Inv, LDInv
    <3>2. n \in atRisk \/ \E i \in 1..Len(rows) : rows[i] = n
      BY <2>1, <2>2, <3>1 DEF Log!NonePassedOver
    <3> QED BY <3>2 DEF Ingested
  <2>3. CASE Log!LastApplied < n /\ Here(pos)
    <3>1. Reachable = Interval(file.base + pos.offset, written)
      BY <2>3 DEF Reachable, Truncated, Here
    <3>2. Interval(Log!LastApplied, file.base + pos.offset) \subseteq atRisk
      BY <2>3 DEF Inv, Protocol, PosOK, Passed
    <3>3. n \in Interval(Log!LastApplied, written)
      BY <2>1, <2>3 DEF Interval
    <3> QED BY <2>1, <3>1, <3>2, <3>3, Spans
  <2>4. CASE Log!LastApplied < n /\ ~Here(pos)
    <3>1. Interval(Log!LastApplied, Edge) \subseteq atRisk
      BY <2>4 DEF Inv, Protocol, PosOK, Passed
    <3>2. n \in Interval(Log!LastApplied, written)
      BY <2>1, <2>4 DEF Interval
    <3>3. CASE file.inode = NoInode
      BY <3>1, <3>2, <3>3 DEF Edge
    <3>4. CASE file.inode # NoInode
      <4>1. (IF Truncated(pos) THEN 0 ELSE pos.offset) = 0
        BY <2>4, <3>4 DEF Truncated, Here, Inv, Protocol, PosOK
      <4>2. Reachable = Interval(file.base, written) /\ Edge = file.base
        BY <2>1, <3>4, <4>1 DEF Reachable, Edge
      <4> QED BY <2>1, <3>1, <3>2, <4>2, Spans
    <3> QED BY <3>3, <3>4
  <2> QED BY <2>1, <2>2, <2>3, <2>4
<1> QED BY <1>1, InvInit, InvNext, PTL DEF Spec
=============================================================================
