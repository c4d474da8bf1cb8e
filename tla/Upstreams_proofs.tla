--------------------------- MODULE Upstreams_proofs ---------------------------
(***************************************************************************)
(* Proofs about Upstreams, for any accounts, columns, keys, addresses,     *)
(* workers, bounds and profiles.                                           *)
(***************************************************************************)
EXTENDS Upstreams, SequenceTheorems, TLAPS

\* What the rotation has set by the time it is at a step.
RotationOK ==
  /\ rotation.step = "idle" => rotation = NoRotation
  /\ rotation.step \in {"select", "update"} => rotation.column \in 1..Len(Columns)
  /\ rotation.step = "pending" => rotation.key \in Keys

Typed == TypeOK /\ RotationOK

-----------------------------------------------------------------------------
(***************************************************************************)
(* Type correctness.                                                       *)
(***************************************************************************)

\* The components of a job.
LEMMA JobShape ==
  ASSUME TypeOK, NEW w \in Workers
  PROVE  LET j == job[w] IN
         /\ j.op = "create" => j.cell \in Accounts /\ j.dest \in Dests /\ j.key \in Keys
         /\ j.op = "update" => /\ j.cell \in Accounts /\ j.seen \in Dests /\ j.dest \in Dests
                               /\ j.pw \in BOOLEAN /\ j.key \in Keys
         /\ j.op = "store" => j.cell \in Others /\ j.key \in Keys
         /\ j.op = "sender" => /\ j.id \in SenderIds /\ j.address \in Addresses
                               /\ j.account \in Accounts /\ j.seen \subseteq Addresses
BY DEF TypeOK, Jobs, Edits, Idle

LEMMA ADest == (CHOOSE d \in Dests : TRUE) \in Dests
<1>1. PICK v \in Values : TRUE
  BY CellsAssumption
<1>2. [f \in Fields |-> v] \in Dests
  BY DEF Dests
<1> QED BY <1>2

LEMMA StartType ==
  ASSUME TypeOK, NEW w \in Workers, NEW j \in Jobs, Start(w, j)
  PROVE  job' \in [Workers -> Jobs]
BY DEF TypeOK, Start

LEMMA ProfileBounds ==
  ASSUME TypeOK
  PROVE  /\ profile.entries \in 0..MaxEntries /\ profile.rotations \in Nat
         /\ profile.dests \subseteq Dests /\ MaxEntries \in Nat
BY BoundAssumption DEF TypeOK

\* A new entry is a secret, and takes no other away.
LEMMA StoreType ==
  ASSUME TypeOK, NEW c \in Cells, NEW key \in Keys, NEW d \in Dests, NEW o \in BOOLEAN,
         Store(c, key, d, o)
  PROVE  /\ secret' \in [Cells -> Secrets \cup {NoSecret}]
         /\ \A b \in Cells : Exists(b) => Exists(b)'
         /\ entered' \in Seq([dest : Dests, overtaken : BOOLEAN])
         /\ Len(entered') <= profile.entries
         /\ overlapped' \in BOOLEAN
<1> DEFINE e == [dest |-> d, overtaken |-> o]
           new == [entry |-> Len(entered) + 1, key |-> key]
<1>1. Len(entered) \in Nat /\ Len(entered) < profile.entries
  BY DEF TypeOK, Store
<1>2. new \in Secrets
  BY <1>1, ProfileBounds DEF Secrets, Entries
<1>3. e \in [dest : Dests, overtaken : BOOLEAN]
  OBVIOUS
<1>4. /\ entered' \in Seq([dest : Dests, overtaken : BOOLEAN])
      /\ Len(entered') = Len(entered) + 1
  BY <1>3, AppendProperties DEF TypeOK, Store
<1>5. \A b \in Cells : secret'[b] = IF b = c THEN new ELSE secret[b]
  BY DEF TypeOK, Store
<1> QED BY <1>1, <1>2, <1>4, <1>5, NoneAssumption, ProfileBounds DEF TypeOK, Store, Exists

LEMMA TypeInit == Init => Typed
<1> SUFFICES ASSUME Init PROVE Typed
  OBVIOUS
<1>1. profile.entries \in Nat /\ profile.rotations \in Nat
  BY BoundAssumption DEF Init
<1>2. NoRotation \in [step : {"idle", "select", "update", "pending"}, column : 0..Len(Columns) + 1,
                      rows : SUBSET (Cells \X Secrets), key : Keys \cup {NoKey}]
  <2>1. Len(Columns) \in Nat
    BY CellsAssumption
  <2> QED BY <2>1 DEF NoRotation
<1>3. Len(<<>>) = 0 /\ <<>> \in Seq([dest : Dests, overtaken : BOOLEAN])
  OBVIOUS
<1>4. dest \in [Accounts -> Dests]
  BY ADest DEF Init
<1>5. job \in [Workers -> Jobs]
  BY DEF Init, Jobs
<1>6. RotationOK
  BY DEF Init, RotationOK, NoRotation
<1>7. /\ secret \in [Cells -> Secrets \cup {NoSecret}]
      /\ senders \in [SenderIds -> Senders \cup {NoSender}]
      /\ \A s \in SenderIds : senders[s] = NoSender
  BY DEF Init
<1>8. /\ entered \in Seq([dest : Dests, overtaken : BOOLEAN]) /\ Len(entered) <= profile.entries
      /\ rotations \in 0..profile.rotations
  BY <1>1, <1>3 DEF Init
<1> QED BY <1>2, <1>4, <1>5, <1>6, <1>7, <1>8 DEF Init, Typed, TypeOK

\* What the two last steps of a rotation select is made of cells and secrets.
LEMMA StoredType ==
  ASSUME TypeOK, NEW i \in 1..Len(Columns)
  PROVE  Stored(i) \subseteq Cells \X Secrets
<1>1. Columns[i] \subseteq Cells
  BY CellsAssumption
<1> QED BY <1>1 DEF Stored, Exists, TypeOK

LEMMA ToRotateType ==
  ASSUME TypeOK
  PROVE  ToRotate \subseteq Cells \X Secrets
<1>1. Len(Columns) \in Nat
  BY CellsAssumption
<1>2. \A i \in rotation.column + 1..Len(Columns) : i \in 1..Len(Columns)
  BY <1>1 DEF TypeOK
<1>3. rotation.rows \subseteq Cells \X Secrets
  BY DEF TypeOK
<1>4. \A i \in rotation.column + 1..Len(Columns) : Stored(i) \subseteq Cells \X Secrets
  BY <1>2, StoredType
<1> QED BY <1>3, <1>4 DEF ToRotate

\* Every cell that is rotated keeps a secret, and no other changes.
LEMMA RotatedType ==
  ASSUME TypeOK, RotateCommit
  PROVE  /\ secret' \in [Cells -> Secrets \cup {NoSecret}]
         /\ \A c \in Cells : Exists(c)' <=> Exists(c)
         /\ rotation' = [NoRotation EXCEPT !.step = "pending", !.key = rotation'.key]
         /\ rotation'.key \in Keys
<1>1. PICK new \in Keys \ {appKey} :
        /\ secret' = [c \in Cells |->
             IF Exists(c) /\ \E r \in ToRotate : r[1] = c
             THEN [entry |-> (CHOOSE r \in ToRotate : r[1] = c)[2].entry, key |-> new]
             ELSE secret[c]]
        /\ rotation' = [NoRotation EXCEPT !.step = "pending", !.key = new]
  BY DEF RotateCommit
<1>2. ASSUME NEW c \in Cells, Exists(c), \E r \in ToRotate : r[1] = c
      PROVE  secret'[c] \in Secrets
  <2> DEFINE r == CHOOSE q \in ToRotate : q[1] = c
  <2>1. r \in Cells \X Secrets
    BY <1>2, ToRotateType
  <2>2. r[2].entry \in Entries
    BY <2>1 DEF Secrets
  <2>3. secret'[c] = [entry |-> r[2].entry, key |-> new]
    BY <1>1, <1>2
  <2> QED BY <2>2, <2>3 DEF Secrets
<1>3. ASSUME NEW c \in Cells, ~(Exists(c) /\ \E r \in ToRotate : r[1] = c)
      PROVE  secret'[c] = secret[c]
  BY <1>1, <1>3
<1>4. secret' = [c \in Cells |-> secret'[c]]
  BY <1>1
<1>5. \A c \in Cells : secret'[c] \in Secrets \cup {NoSecret} /\ (Exists(c)' <=> Exists(c))
  BY <1>2, <1>3, NoneAssumption DEF TypeOK, Exists
<1>6. rotation'.key = new
  BY <1>1 DEF NoRotation
<1> QED BY <1>1, <1>4, <1>5, <1>6

LEMMA TypeNext == Typed /\ [Next]_vars => Typed'
<1> SUFFICES ASSUME Typed, [Next]_vars PROVE Typed'
  OBVIOUS
<1> USE DEF Typed
<1>1. CASE UNCHANGED vars
  BY <1>1 DEF vars, rows, history, TypeOK, RotationOK
<1> SUFFICES ASSUME Next PROVE Typed'
  BY <1>1
<1>2. profile' = profile
  BY DEF Next
<1>3. \A c \in Accounts \cup Others : c \in Cells
  BY DEF Cells
\* A step that only moves a job.
<1>4. ASSUME job' \in [Workers -> Jobs], UNCHANGED <<rows, appKey, rotation, history, rotations>>
      PROVE  Typed'
  BY <1>2, <1>4 DEF rows, history, TypeOK, RotationOK
<1>5. Idle \in Jobs
  BY DEF Jobs
\* A step that stores a secret.
<1>6. ASSUME NEW w \in Workers, NEW c \in Cells, NEW key \in Keys, NEW d \in Dests,
             NEW o \in BOOLEAN, Store(c, key, d, o), Start(w, Idle),
             dest' \in [Accounts -> Dests], UNCHANGED <<senders, appKey, rotation, raced, rotations>>
      PROVE  Typed'
  <2>1. /\ secret' \in [Cells -> Secrets \cup {NoSecret}]
        /\ \A b \in Cells : Exists(b) => Exists(b)'
        /\ entered' \in Seq([dest : Dests, overtaken : BOOLEAN])
        /\ Len(entered') <= profile.entries /\ overlapped' \in BOOLEAN
    BY <1>6, StoreType
  <2>2. job' \in [Workers -> Jobs]
    BY <1>5, <1>6, StartType
  <2>3. \A s \in SenderIds : senders[s] # NoSender => senders[s].account \in Cells
    BY <1>3 DEF TypeOK, Senders
  <2> QED BY <1>2, <1>6, <2>1, <2>2, <2>3 DEF TypeOK, RotationOK, Exists
\* A step of the rotation.
<1>7. ASSUME UNCHANGED <<dest, senders, job, history>>, appKey' \in Keys,
             secret' \in [Cells -> Secrets \cup {NoSecret}], \A c \in Cells : Exists(c) => Exists(c)',
             rotations' \in 0..profile.rotations, RotationOK',
             rotation' \in [step : {"idle", "select", "update", "pending"},
                            column : 0..Len(Columns) + 1,
                            rows : SUBSET (Cells \X Secrets), key : Keys \cup {NoKey}]
      PROVE  Typed'
  <2>1. \A s \in SenderIds : senders[s] # NoSender => senders[s].account \in Cells
    BY <1>3 DEF TypeOK, Senders
  <2> QED BY <1>2, <1>7, <2>1 DEF history, TypeOK, Exists
\* A step that takes a secret away.
<1>8. ASSUME NEW c \in Cells, secret' = [secret EXCEPT ![c] = NoSecret],
             \A s \in SenderIds : senders[s] # NoSender => senders[s].account # c,
             UNCHANGED <<dest, senders, appKey, job, rotation, history, rotations>>
      PROVE  Typed'
  <2>1. \A s \in SenderIds : senders[s] # NoSender => senders[s].account \in Cells
    BY <1>3 DEF TypeOK, Senders
  <2> QED BY <1>2, <1>8, <2>1 DEF history, TypeOK, RotationOK
<1>9. \A f \in 0..Len(Columns) + 1, r \in SUBSET (Cells \X Secrets), k \in Keys \cup {NoKey},
         s \in {"idle", "select", "update", "pending"} :
           [step |-> s, column |-> f, rows |-> r, key |-> k]
             \in [step : {"idle", "select", "update", "pending"}, column : 0..Len(Columns) + 1,
                  rows : SUBSET (Cells \X Secrets), key : Keys \cup {NoKey}]
  OBVIOUS
<1>10. Len(Columns) \in Nat /\ 0 \in 0..Len(Columns) + 1
  BY CellsAssumption
<1>11. ASSUME NEW w \in Workers, CreateAccount(w) PROVE Typed'
  <2>1. PICK a \in Accounts, d \in profile.dests :
          Start(w, [op |-> "create", cell |-> a, dest |-> d, key |-> appKey])
    BY <1>11 DEF CreateAccount
  <2>2. [op |-> "create", cell |-> a, dest |-> d, key |-> appKey] \in Jobs
    BY ProfileBounds DEF Jobs, TypeOK
  <2> QED BY <1>4, <1>11, <2>1, <2>2, StartType DEF CreateAccount
<1>12. ASSUME NEW w \in Workers, CreateAccountCommit(w) PROVE Typed'
  <2> DEFINE j == job[w]
  <2>1. j.cell \in Accounts /\ j.dest \in Dests /\ j.key \in Keys
    BY <1>12, JobShape DEF CreateAccountCommit
  <2>2. dest' \in [Accounts -> Dests]
    BY <1>12, <2>1 DEF CreateAccountCommit, TypeOK
  <2> QED BY <1>3, <1>6, <1>12, <2>1, <2>2 DEF CreateAccountCommit
<1>13. ASSUME NEW w \in Workers, UpdateAccount(w) PROVE Typed'
  <2>1. PICK a \in Accounts, d \in profile.dests, pw \in BOOLEAN :
          Start(w, [op |-> "update", cell |-> a, seen |-> dest[a], dest |-> d, pw |-> pw,
                    key |-> appKey])
    BY <1>13 DEF UpdateAccount
  <2>2. [op |-> "update", cell |-> a, seen |-> dest[a], dest |-> d, pw |-> pw, key |-> appKey]
          \in Jobs
    BY ProfileBounds DEF Jobs, Edits, TypeOK
  <2> QED BY <1>4, <1>13, <2>1, <2>2, StartType DEF UpdateAccount
<1>14. ASSUME NEW w \in Workers, UpdateAccountCommit(w) PROVE Typed'
  <2> DEFINE j == job[w]
             d == dest[j.cell]
  <2>1. /\ j.cell \in Accounts /\ j.seen \in Dests /\ j.dest \in Dests
        /\ j.pw \in BOOLEAN /\ j.key \in Keys
    BY <1>14, JobShape DEF UpdateAccountCommit
  <2>2. Merged(j, d) \in Dests
    BY <2>1 DEF Merged, Dests, TypeOK
  <2>3. dest' \in [Accounts -> Dests]
    BY <1>14, <2>1, <2>2 DEF UpdateAccountCommit, TypeOK
  <2>4. CASE j.pw
    <3>1. Store(j.cell, j.key, j.dest, d # j.seen)
      BY <1>14, <2>4 DEF UpdateAccountCommit
    <3>2. (d # j.seen) \in BOOLEAN
      OBVIOUS
    <3> QED BY <1>3, <1>6, <1>14, <2>1, <2>3, <3>1, <3>2 DEF UpdateAccountCommit
  <2>5. CASE ~j.pw
    <3>1. job' \in [Workers -> Jobs]
      BY <1>5, <1>14, StartType DEF UpdateAccountCommit
    <3> QED BY <1>2, <1>14, <2>3, <2>5, <3>1 DEF UpdateAccountCommit, TypeOK, RotationOK
  <2> QED BY <2>4, <2>5
<1>15. ASSUME NEW w \in Workers, StoreSecret(w) PROVE Typed'
  <2>1. PICK c \in Others : Start(w, [op |-> "store", cell |-> c, key |-> appKey])
    BY <1>15 DEF StoreSecret
  <2>2. [op |-> "store", cell |-> c, key |-> appKey] \in Jobs
    BY DEF Jobs, TypeOK
  <2> QED BY <1>4, <1>15, <2>1, <2>2, StartType DEF StoreSecret
<1>16. ASSUME NEW w \in Workers, StoreSecretCommit(w) PROVE Typed'
  <2>1. job[w].cell \in Others /\ job[w].key \in Keys
    BY <1>16, JobShape DEF StoreSecretCommit
  <2>2. dest' \in [Accounts -> Dests]
    BY <1>16 DEF StoreSecretCommit, TypeOK
  <2> QED BY <1>3, <1>6, <1>16, <2>1, <2>2, ADest DEF StoreSecretCommit
<1>17. ASSUME NEW w \in Workers, CheckSender(w) PROVE Typed'
  <2>1. PICK s \in SenderIds, address \in Addresses, a \in Accounts :
          Start(w, [op |-> "sender", id |-> s, address |-> address, account |-> a,
                    seen |-> AddressesBut(s)])
    BY <1>17 DEF CheckSender
  <2>2. AddressesBut(s) \subseteq Addresses
    BY DEF AddressesBut, TypeOK, Senders
  <2>3. [op |-> "sender", id |-> s, address |-> address, account |-> a, seen |-> AddressesBut(s)]
          \in Jobs
    BY <2>2 DEF Jobs
  <2> QED BY <1>4, <1>17, <2>1, <2>3, StartType DEF CheckSender
<1>18. ASSUME NEW w \in Workers, CommitSender(w) PROVE Typed'
  <2> DEFINE j == job[w]
             new == [address |-> j.address, account |-> j.account]
  <2>1. j.id \in SenderIds /\ j.address \in Addresses /\ j.account \in Accounts
    BY <1>18, JobShape DEF CommitSender
  <2>2. new \in Senders
    BY <2>1 DEF Senders
  <2>3. senders' = [senders EXCEPT ![j.id] = new] /\ Exists(j.account)
    BY <1>18 DEF CommitSender
  <2>4. /\ senders' \in [SenderIds -> Senders \cup {NoSender}]
        /\ \A s \in SenderIds : senders'[s] = IF s = j.id THEN new ELSE senders[s]
    BY <2>1, <2>2, <2>3 DEF TypeOK
  <2>5. \A s \in SenderIds : senders'[s] # NoSender => secret[senders'[s].account] # NoSecret
    BY <2>3, <2>4 DEF TypeOK, Exists
  <2>6. raced' \subseteq SenderIds
    BY <1>18, <2>1 DEF CommitSender, TypeOK
  <2>7. job' \in [Workers -> Jobs]
    BY <1>5, <1>18, StartType DEF CommitSender
  <2> QED BY <1>2, <1>18, <2>4, <2>5, <2>6, <2>7 DEF CommitSender, TypeOK, RotationOK
<1>19. ASSUME NEW w \in Workers, Refused(w) PROVE Typed'
  BY <1>4, <1>5, <1>19, StartType DEF Refused
<1>20. ASSUME NEW a \in Accounts, DeleteAccount(a) PROVE Typed'
  BY <1>3, <1>8, <1>20 DEF DeleteAccount
<1>21. ASSUME NEW c \in Others, ClearSecret(c) PROVE Typed'
  <2>1. \A s \in SenderIds : senders[s] # NoSender => senders[s].account # c
    BY CellsAssumption DEF TypeOK, Senders
  <2> QED BY <1>3, <1>8, <1>21, <2>1 DEF ClearSecret
<1>22. ASSUME NEW s \in SenderIds, DeleteSender(s) PROVE Typed'
  BY <1>2, <1>22 DEF DeleteSender, TypeOK, RotationOK
<1>23. CASE RotateSelect
  <2> DEFINE i == rotation.column + 1
  <2>1. rotations' \in 0..profile.rotations
    <3>1. \/ rotations < profile.rotations /\ rotations' = rotations + 1
          \/ rotations' = rotations
      BY <1>23 DEF RotateSelect
    <3>2. rotations \in 0..profile.rotations /\ profile.rotations \in Nat
      BY ProfileBounds DEF TypeOK
    <3> QED BY <1>2, <3>1, <3>2
  <2>2. CASE i > Len(Columns)
    <3>1. PICK new \in Keys : rotation' = [NoRotation EXCEPT !.step = "pending", !.key = new]
      BY <1>23, <2>2 DEF RotateSelect
    <3>2. rotation' = [step |-> "pending", column |-> 0, rows |-> {}, key |-> new]
      BY <3>1 DEF NoRotation
    <3>3. RotationOK'
      BY <3>2 DEF RotationOK
    <3> QED BY <1>7, <1>9, <1>10, <1>23, <2>1, <3>2, <3>3 DEF RotateSelect, rows, TypeOK, Exists
  <2>3. CASE ~(i > Len(Columns))
    <3>1. i \in 1..Len(Columns) /\ i \in 0..Len(Columns) + 1
      BY <1>10, <2>3 DEF TypeOK
    <3>2. rotation' = [step |-> IF Stored(i) = {} THEN "select" ELSE "update",
                       column |-> i, rows |-> Stored(i), key |-> NoKey]
      BY <1>23, <2>3 DEF RotateSelect
    <3>3. Stored(i) \subseteq Cells \X Secrets
      BY <3>1, StoredType
    <3>4. RotationOK'
      BY <3>1, <3>2 DEF RotationOK
    <3>5. rotation' \in [step : {"idle", "select", "update", "pending"},
                         column : 0..Len(Columns) + 1,
                         rows : SUBSET (Cells \X Secrets), key : Keys \cup {NoKey}]
      BY <3>1, <3>2, <3>3
    <3> QED BY <1>7, <1>23, <2>1, <3>4, <3>5 DEF RotateSelect, rows, TypeOK, Exists
  <2> QED BY <2>2, <2>3
<1>24. CASE RotateCommit
  <2>1. /\ secret' \in [Cells -> Secrets \cup {NoSecret}]
        /\ \A c \in Cells : Exists(c)' <=> Exists(c)
        /\ rotation' = [NoRotation EXCEPT !.step = "pending", !.key = rotation'.key]
        /\ rotation'.key \in Keys
    BY <1>24, RotatedType
  <2>2. rotation' = [step |-> "pending", column |-> 0, rows |-> {}, key |-> rotation'.key]
    BY <2>1 DEF NoRotation
  <2>3. RotationOK'
    BY <2>1, <2>2 DEF RotationOK
  <2>4. rotation' \in [step : {"idle", "select", "update", "pending"},
                       column : 0..Len(Columns) + 1,
                       rows : SUBSET (Cells \X Secrets), key : Keys \cup {NoKey}]
    BY <1>9, <1>10, <2>1, <2>2
  <2> QED BY <1>7, <1>24, <2>1, <2>3, <2>4 DEF RotateCommit, TypeOK
<1>25. NoRotation \in [step : {"idle", "select", "update", "pending"}, column : 0..Len(Columns) + 1,
                       rows : SUBSET (Cells \X Secrets), key : Keys \cup {NoKey}]
       /\ NoRotation.step = "idle"
  BY <1>9, <1>10 DEF NoRotation
<1>26. CASE RotateAbort
  <2>1. RotationOK'
    BY <1>25, <1>26 DEF RotateAbort, RotationOK
  <2> QED BY <1>7, <1>25, <1>26, <2>1 DEF RotateAbort, rows, TypeOK, Exists
<1>27. CASE SwitchKey
  <2>1. RotationOK' /\ appKey' \in Keys
    BY <1>25, <1>27 DEF SwitchKey, RotationOK
  <2> QED BY <1>7, <1>25, <1>27, <2>1 DEF SwitchKey, rows, TypeOK, Exists
<1> QED BY <1>11, <1>12, <1>13, <1>14, <1>15, <1>16, <1>17, <1>18, <1>19, <1>20, <1>21, <1>22,
           <1>23, <1>24, <1>26, <1>27 DEF Next

\* Every state is well formed: a sender has an account that exists (the foreign
\* key), and jobs and the rotation hold what such requests can have read.
THEOREM TypeCorrect == Spec => []TypeOK
<1>1. Init => Typed
  BY TypeInit
<1>2. Typed /\ [Next]_vars => Typed'
  BY TypeNext
<1>3. Typed => TypeOK
  BY DEF Typed
<1> QED BY <1>1, <1>2, <1>3, PTL DEF Spec

-----------------------------------------------------------------------------
(***************************************************************************)
(* One entry of Postfix's maps for each sender.                            *)
(***************************************************************************)

\* A sender that is about to be committed was free when it was checked.
Checked ==
  \A w \in Workers : job[w].op = "sender" => ~Taken(job[w].address, job[w].seen)

LEMMA EntriesNext ==
  TypeOK /\ Checked /\ OneEntryEach /\ [Next]_vars => Checked' /\ OneEntryEach'
<1> SUFFICES ASSUME TypeOK, Checked, OneEntryEach, [Next]_vars PROVE Checked' /\ OneEntryEach'
  OBVIOUS
<1>1. ASSUME UNCHANGED <<senders, raced>> PROVE OneEntryEach'
  BY <1>1 DEF OneEntryEach
<1>2. ASSUME UNCHANGED job PROVE Checked'
  BY <1>2 DEF Checked, Taken
<1>3. ASSUME NEW w \in Workers, NEW j, Start(w, j),
             j.op = "sender" => ~Taken(j.address, j.seen)
      PROVE  Checked'
  <2>1. \A v \in Workers : job'[v] = IF v = w THEN j ELSE job[v]
    BY <1>3 DEF Start, TypeOK
  <2> QED BY <1>3, <2>1 DEF Checked, Taken
<1>4. Idle.op = "none"
  BY DEF Idle
<1>5. CASE UNCHANGED vars
  BY <1>1, <1>2, <1>5 DEF vars, rows, history
<1>6. ASSUME NEW w \in Workers, CreateAccount(w) PROVE Checked' /\ OneEntryEach'
  BY <1>1, <1>3, <1>6 DEF CreateAccount, rows, history
<1>7. ASSUME NEW w \in Workers, CreateAccountCommit(w) PROVE Checked' /\ OneEntryEach'
  BY <1>1, <1>3, <1>4, <1>7 DEF CreateAccountCommit
<1>8. ASSUME NEW w \in Workers, UpdateAccount(w) PROVE Checked' /\ OneEntryEach'
  BY <1>1, <1>3, <1>8 DEF UpdateAccount, rows, history
<1>9. ASSUME NEW w \in Workers, UpdateAccountCommit(w) PROVE Checked' /\ OneEntryEach'
  BY <1>1, <1>3, <1>4, <1>9 DEF UpdateAccountCommit
<1>10. ASSUME NEW w \in Workers, StoreSecret(w) PROVE Checked' /\ OneEntryEach'
  BY <1>1, <1>3, <1>10 DEF StoreSecret, rows, history
<1>11. ASSUME NEW w \in Workers, StoreSecretCommit(w) PROVE Checked' /\ OneEntryEach'
  BY <1>1, <1>3, <1>4, <1>11 DEF StoreSecretCommit
<1>12. ASSUME NEW w \in Workers, CheckSender(w) PROVE Checked' /\ OneEntryEach'
  <2>1. PICK s \in SenderIds, address \in Addresses, a \in Accounts :
          /\ ~Taken(address, AddressesBut(s))
          /\ Start(w, [op |-> "sender", id |-> s, address |-> address, account |-> a,
                       seen |-> AddressesBut(s)])
    BY <1>12 DEF CheckSender
  <2>2. Checked'
    BY <1>3, <2>1
  <2> QED BY <1>1, <1>12, <2>2 DEF CheckSender, rows, history
<1>13. ASSUME NEW w \in Workers, CommitSender(w) PROVE Checked' /\ OneEntryEach'
  <2> DEFINE j == job[w]
             new == [address |-> j.address, account |-> j.account]
  <2>1. Checked'
    BY <1>3, <1>4, <1>13 DEF CommitSender
  <2>2. j.id \in SenderIds /\ j.op = "sender"
    BY <1>13, JobShape DEF CommitSender
  <2>3. /\ \A s \in SenderIds : senders'[s] = IF s = j.id THEN new ELSE senders[s]
        /\ raced' = IF AddressesBut(j.id) = j.seen THEN raced \ {j.id} ELSE raced \cup {j.id}
    BY <1>13 DEF CommitSender, TypeOK
  <2>4. ASSUME NEW t \in SenderIds \ {j.id}, senders[t] # NoSender, j.id \notin raced'
        PROVE  senders[t].address[1] # j.address[1]
    <3>1. AddressesBut(j.id) = j.seen
      BY <2>3, <2>4
    <3>2. senders[t].address \in j.seen
      BY <2>4, <3>1 DEF AddressesBut
    <3>3. ~Taken(j.address, j.seen)
      BY <2>2 DEF Checked
    <3> QED BY <3>2, <3>3 DEF Taken
  <2>5. ASSUME NEW s \in SenderIds, NEW t \in SenderIds, s # t,
               senders'[s] # NoSender, senders'[t] # NoSender, {s, t} \cap raced' = {}
        PROVE  senders'[s].address[1] # senders'[t].address[1]
    <3>1. CASE s = j.id
      BY <2>3, <2>4, <2>5, <3>1
    <3>2. CASE t = j.id
      BY <2>3, <2>4, <2>5, <3>2
    <3>3. CASE s # j.id /\ t # j.id
      <4>1. {s, t} \cap raced = {}
        BY <2>3, <2>5, <3>3
      <4> QED BY <2>3, <2>5, <3>3, <4>1 DEF OneEntryEach
    <3> QED BY <3>1, <3>2, <3>3
  <2> QED BY <2>1, <2>5 DEF OneEntryEach
<1>14. ASSUME NEW w \in Workers, Refused(w) PROVE Checked' /\ OneEntryEach'
  BY <1>1, <1>3, <1>4, <1>14 DEF Refused, rows, history
<1>15. ASSUME NEW a \in Accounts, DeleteAccount(a) PROVE Checked' /\ OneEntryEach'
  BY <1>1, <1>2, <1>15 DEF DeleteAccount, history
<1>16. ASSUME NEW c \in Others, ClearSecret(c) PROVE Checked' /\ OneEntryEach'
  BY <1>1, <1>2, <1>16 DEF ClearSecret, history
<1>17. ASSUME NEW s \in SenderIds, DeleteSender(s) PROVE Checked' /\ OneEntryEach'
  <2>1. Checked'
    BY <1>2, <1>17 DEF DeleteSender
  <2>2. \A t \in SenderIds : senders'[t] = IF t = s THEN NoSender ELSE senders[t]
    BY <1>17 DEF DeleteSender, TypeOK
  <2>3. raced' = raced \ {s}
    BY <1>17 DEF DeleteSender
  <2> QED BY <2>1, <2>2, <2>3 DEF OneEntryEach
<1>18. CASE RotateSelect \/ RotateCommit \/ RotateAbort \/ SwitchKey
  BY <1>1, <1>2, <1>18 DEF RotateSelect, RotateCommit, RotateAbort, SwitchKey, rows, history
<1> QED BY <1>5, <1>6, <1>7, <1>8, <1>9, <1>10, <1>11, <1>12, <1>13, <1>14, <1>15, <1>16, <1>17,
           <1>18 DEF Next

\* For any number of senders, spellings and requests at a time: the check that
\* ignores the case keeps one entry of Postfix's maps for each sender, but for
\* those committed after others had come or gone since their check.
THEOREM OneEntryForEach == Spec => []OneEntryEach
<1>1. Init => Typed /\ Checked /\ OneEntryEach
  <2>1. Idle.op = "none"
    BY DEF Idle
  <2> QED BY <2>1, TypeInit DEF Init, Checked, OneEntryEach
<1>2. Typed /\ Checked /\ OneEntryEach /\ [Next]_vars => (Typed /\ Checked /\ OneEntryEach)'
  BY TypeNext, EntriesNext DEF Typed
<1> QED BY <1>1, <1>2, PTL DEF Spec

-----------------------------------------------------------------------------
(***************************************************************************)
(* The rotation of the key.                                                *)
(***************************************************************************)

\* As long as no secret is stored meanwhile: every secret is of the key the
\* application has, or is about to be given; the columns a rotation has passed
\* are empty; and the rows it has selected are what the cells still hold.
Kept ==
  ~overlapped =>
    /\ \A c \in Cells : Exists(c) =>
         secret[c].key = IF rotation.step = "pending" THEN rotation.key ELSE appKey
    /\ rotation.step = "select" =>
         \A i \in 1..rotation.column : \A c \in Columns[i] : ~Exists(c)
    /\ rotation.step = "update" =>
         /\ \A i \in 1..rotation.column - 1 : \A c \in Columns[i] : ~Exists(c)
         /\ \A c \in Columns[rotation.column] : Exists(c) => <<c, secret[c]>> \in rotation.rows
         /\ \A r \in rotation.rows : Exists(r[1]) => secret[r[1]] = r[2]

LEMMA CellHasColumn ==
  ASSUME NEW c \in Cells
  PROVE  \E i \in 1..Len(Columns) : c \in Columns[i]
<1>1. DOMAIN Columns = 1..Len(Columns)
  BY CellsAssumption
<1>2. c \in UNION {Columns[i] : i \in DOMAIN Columns}
  BY CellsAssumption
<1>3. \E i \in DOMAIN Columns : c \in Columns[i]
  BY <1>2
<1> QED BY <1>1, <1>3

\* A rotation nothing interferes with re-encrypts every cell, as it is.
LEMMA RotatesAll ==
  ASSUME Typed, Kept, ~overlapped, RotateCommit, NEW c \in Cells, Exists(c)
  PROVE  secret'[c] = [entry |-> secret[c].entry, key |-> rotation'.key]
<1>1. PICK new \in Keys \ {appKey} :
        /\ secret' = [b \in Cells |->
             IF Exists(b) /\ \E r \in ToRotate : r[1] = b
             THEN [entry |-> (CHOOSE r \in ToRotate : r[1] = b)[2].entry, key |-> new]
             ELSE secret[b]]
        /\ rotation' = [NoRotation EXCEPT !.step = "pending", !.key = new]
  BY DEF RotateCommit
<1>2. rotation'.key = new
  BY <1>1 DEF NoRotation
<1>3. rotation.step = "update" /\ rotation.column \in 1..Len(Columns) /\ Len(Columns) \in Nat
  BY CellsAssumption DEF RotateCommit, Typed, RotationOK
<1>4. PICK i \in 1..Len(Columns) : c \in Columns[i]
  BY CellHasColumn
<1>5. <<c, secret[c]>> \in ToRotate
  <2>1. CASE i < rotation.column
    <3>1. i \in 1..rotation.column - 1
      BY <1>3, <2>1
    <3> QED BY <1>3, <1>4, <3>1 DEF Kept
  <2>2. CASE i = rotation.column
    BY <1>3, <1>4, <2>2 DEF Kept, ToRotate
  <2>3. CASE i > rotation.column
    <3>1. i \in rotation.column + 1..Len(Columns)
      BY <1>3, <2>3
    <3>2. <<c, secret[c]>> \in Stored(i)
      BY <1>4 DEF Stored
    <3> QED BY <3>1, <3>2 DEF ToRotate
  <2> QED BY <1>3, <2>1, <2>2, <2>3
<1>6. ASSUME NEW r \in ToRotate, r[1] = c PROVE r[2] = secret[c]
  <2>1. CASE r \in rotation.rows
    BY <1>3, <1>6, <2>1 DEF Kept
  <2>2. ASSUME NEW k \in rotation.column + 1..Len(Columns), r \in Stored(k)
        PROVE  r[2] = secret[c]
    BY <1>6, <2>2 DEF Stored
  <2> QED BY <2>1, <2>2 DEF ToRotate
<1> DEFINE r == CHOOSE q \in ToRotate : q[1] = c
<1>7. \E q \in ToRotate : q[1] = c
  BY <1>5
<1>8. r \in ToRotate /\ r[1] = c
  BY <1>7
<1>9. r[2] = secret[c]
  BY <1>6, <1>8
<1>10. secret'[c] = [entry |-> r[2].entry, key |-> new]
  BY <1>1, <1>7
<1> QED BY <1>2, <1>9, <1>10

LEMMA KeptNext == Typed /\ Kept /\ [Next]_vars => Kept'
<1> SUFFICES ASSUME Typed, Kept, [Next]_vars PROVE Kept'
  OBVIOUS
<1>1. ASSUME UNCHANGED <<secret, appKey, rotation, overlapped>> PROVE Kept'
  BY <1>1 DEF Kept, Exists
\* Storing outside a rotation, under the application's key.
<1>2. ASSUME NEW c \in Cells, NEW key \in Keys, NEW d, NEW o, Store(c, key, d, o),
             UNCHANGED <<appKey, rotation>>
      PROVE  Kept'
  <2> SUFFICES ASSUME ~overlapped' PROVE Kept'
    BY DEF Kept
  <2>1. ~overlapped /\ rotation.step = "idle" /\ key = appKey
    BY <1>2 DEF Store, Typed, TypeOK
  <2>2. \A b \in Cells : secret'[b] = IF b = c THEN [entry |-> Len(entered) + 1, key |-> key]
                                      ELSE secret[b]
    BY <1>2 DEF Store, Typed, TypeOK
  <2>3. \A b \in Cells : Exists(b)' => secret'[b].key = appKey
    BY <2>1, <2>2 DEF Kept, Exists
  <2> QED BY <1>2, <2>1, <2>3 DEF Kept
<1>3. ASSUME NEW c \in Cells, secret' = [secret EXCEPT ![c] = NoSecret],
             UNCHANGED <<appKey, rotation, overlapped>>
      PROVE  Kept'
  <2> SUFFICES ASSUME ~overlapped' PROVE Kept'
    BY DEF Kept
  <2>1. \A b \in Cells : Exists(b)' => Exists(b) /\ secret'[b] = secret[b]
    BY <1>3 DEF Exists, Typed, TypeOK
  <2>2. \A i \in 1..Len(Columns) : Columns[i] \subseteq Cells
    BY CellsAssumption
  <2>3. /\ rotation.step \in {"select", "update"} => rotation.column \in 1..Len(Columns)
        /\ Len(Columns) \in Nat
        /\ \A r \in rotation.rows : r[1] \in Cells
    BY CellsAssumption DEF Typed, TypeOK, RotationOK
  <2>4. \A b \in Cells : Exists(b)' =>
          secret'[b].key = IF rotation'.step = "pending" THEN rotation'.key ELSE appKey'
    BY <1>3, <2>1 DEF Kept
  <2>5. rotation.step = "select" =>
          \A i \in 1..rotation.column : \A b \in Columns[i] : b \in Cells /\ ~Exists(b)'
    BY <1>3, <2>1, <2>2, <2>3 DEF Kept
  <2>6. rotation.step = "update" =>
          /\ \A i \in 1..rotation.column - 1 : \A b \in Columns[i] : ~Exists(b)'
          /\ \A b \in Columns[rotation.column] : Exists(b)' => <<b, secret'[b]>> \in rotation.rows
          /\ \A r \in rotation.rows : Exists(r[1])' => secret'[r[1]] = r[2]
    BY <1>3, <2>1, <2>2, <2>3 DEF Kept
  <2> QED BY <1>3, <2>4, <2>5, <2>6 DEF Kept, Exists
<1>4. Accounts \subseteq Cells /\ Others \subseteq Cells
  BY DEF Cells
<1>5. CASE UNCHANGED vars
  BY <1>1, <1>5 DEF vars, rows, history
<1>6. ASSUME NEW w \in Workers,
             \/ CreateAccount(w) \/ UpdateAccount(w) \/ StoreSecret(w) \/ CheckSender(w)
             \/ CommitSender(w) \/ Refused(w)
      PROVE  Kept'
  BY <1>1, <1>6 DEF CreateAccount, UpdateAccount, StoreSecret, CheckSender, CommitSender, Refused,
     rows, history
<1>7. ASSUME NEW w \in Workers, CreateAccountCommit(w) PROVE Kept'
  <2>1. job[w].cell \in Cells /\ job[w].key \in Keys
    BY <1>4, <1>7, JobShape DEF CreateAccountCommit, Typed
  <2> QED BY <1>2, <1>7, <2>1 DEF CreateAccountCommit
<1>8. ASSUME NEW w \in Workers, UpdateAccountCommit(w) PROVE Kept'
  <2>1. job[w].cell \in Cells /\ job[w].key \in Keys
    BY <1>4, <1>8, JobShape DEF UpdateAccountCommit, Typed
  <2> QED BY <1>1, <1>2, <1>8, <2>1 DEF UpdateAccountCommit
<1>9. ASSUME NEW w \in Workers, StoreSecretCommit(w) PROVE Kept'
  <2>1. job[w].cell \in Cells /\ job[w].key \in Keys
    BY <1>4, <1>9, JobShape DEF StoreSecretCommit, Typed
  <2> QED BY <1>2, <1>9, <2>1 DEF StoreSecretCommit
<1>10. ASSUME NEW a \in Accounts, DeleteAccount(a) PROVE Kept'
  BY <1>3, <1>4, <1>10 DEF DeleteAccount, history
<1>11. ASSUME NEW c \in Others, ClearSecret(c) PROVE Kept'
  BY <1>3, <1>4, <1>11 DEF ClearSecret, history
<1>12. ASSUME NEW s \in SenderIds, DeleteSender(s) PROVE Kept'
  BY <1>1, <1>12 DEF DeleteSender
<1>13. CASE RotateSelect
  <2> DEFINE i == rotation.column + 1
  <2> SUFFICES ASSUME ~overlapped' PROVE Kept'
    BY DEF Kept
  <2>1. UNCHANGED <<secret, appKey, overlapped>> /\ rotation.step \in {"idle", "select"}
    BY <1>13 DEF RotateSelect, rows, history
  <2>2. rotation.column \in Nat /\ Len(Columns) \in Nat
        /\ (rotation.step = "idle" => rotation.column = 0)
    BY CellsAssumption DEF Typed, TypeOK, RotationOK, NoRotation
  \* The columns before this one are empty.
  <2>3. \A k \in 1..i - 1 : \A c \in Columns[k] : ~Exists(c)
    BY <2>1, <2>2 DEF Kept
  <2>4. \A c \in Cells : Exists(c) => secret[c].key = appKey
    BY <2>1 DEF Kept
  <2>5. CASE i > Len(Columns)
    <3>1. \A c \in Cells : ~Exists(c)
      <4> SUFFICES ASSUME NEW c \in Cells PROVE ~Exists(c)
        OBVIOUS
      <4>1. PICK k \in 1..Len(Columns) : c \in Columns[k]
        BY CellHasColumn
      <4>2. k \in 1..i - 1
        BY <2>2, <2>5
      <4> QED BY <2>3, <4>1, <4>2
    <3>2. rotation'.step = "pending"
      BY <1>13, <2>5 DEF RotateSelect, NoRotation
    <3> QED BY <2>1, <3>1, <3>2 DEF Kept, Exists
  <2>6. CASE ~(i > Len(Columns))
    <3>1. rotation' = [step |-> IF Stored(i) = {} THEN "select" ELSE "update",
                       column |-> i, rows |-> Stored(i), key |-> NoKey]
      BY <1>13, <2>6 DEF RotateSelect
    <3>2. \A c \in Columns[i] : Exists(c) => <<c, secret[c]>> \in Stored(i)
      BY DEF Stored
    <3>3. \A r \in Stored(i) : secret[r[1]] = r[2]
      BY DEF Stored
    <3>4. CASE Stored(i) = {}
      <4>1. \A c \in Columns[i] : ~Exists(c)
        BY <3>2, <3>4
      <4>2. \A k \in 1..i : k = i \/ k \in 1..i - 1
        BY <2>2
      <4>3. \A k \in 1..i : \A c \in Columns[k] : ~Exists(c)
        BY <2>3, <4>1, <4>2
      <4>4. rotation'.step = "select" /\ rotation'.column = i
        BY <3>1, <3>4
      <4> QED BY <2>1, <2>4, <4>3, <4>4 DEF Kept, Exists
    <3>5. CASE Stored(i) # {}
      <4>1. rotation'.step = "update" /\ rotation'.column = i /\ rotation'.rows = Stored(i)
        BY <3>1, <3>5
      <4> QED BY <2>1, <2>3, <2>4, <3>2, <3>3, <4>1 DEF Kept, Exists
    <3> QED BY <3>4, <3>5
  <2> QED BY <2>5, <2>6
<1>14. CASE RotateCommit
  <2> SUFFICES ASSUME ~overlapped' PROVE Kept'
    BY DEF Kept
  <2>1. ~overlapped
    BY <1>14 DEF RotateCommit, history
  <2>2. \A c \in Cells : Exists(c)' <=> Exists(c)
    BY <1>14, RotatedType DEF Typed
  <2>3. rotation'.step = "pending"
    BY <1>14 DEF RotateCommit, NoRotation
  <2>4. ASSUME NEW c \in Cells, Exists(c)
        PROVE  secret'[c].key = rotation'.key
    <3>1. secret'[c] = [entry |-> secret[c].entry, key |-> rotation'.key]
      BY <1>14, <2>1, <2>4, RotatesAll
    <3> QED BY <3>1
  <2>5. \A c \in Cells : Exists(c)' => secret'[c].key = rotation'.key
    BY <2>2, <2>4
  <2> QED BY <2>3, <2>5 DEF Kept
<1>15. CASE RotateAbort
  BY <1>15 DEF RotateAbort, Kept, NoRotation, rows, history, Exists
<1>16. CASE SwitchKey
  BY <1>16 DEF SwitchKey, Kept, NoRotation, rows, history, Exists
<1> QED BY <1>5, <1>6, <1>7, <1>8, <1>9, <1>10, <1>11, <1>12, <1>13, <1>14, <1>15, <1>16 DEF Next

LEMMA KeptInit == Init => Kept
BY DEF Init, Kept, NoRotation, Exists

\* For any columns, rows and keys: after a rotation, and after one that failed,
\* every secret is of the key the application is given, unless one was stored
\* meanwhile (rotate_encryption_key).
THEOREM AllStayReadable == Spec => []AllReadable
<1>1. Init => Typed /\ Kept
  BY TypeInit, KeptInit
<1>2. Typed /\ Kept /\ [Next]_vars => (Typed /\ Kept)'
  BY TypeNext, KeptNext
<1>3. Typed /\ Kept => AllReadable
  BY DEF Kept, AllReadable
<1> QED BY <1>1, <1>2, <1>3, PTL DEF Spec

-----------------------------------------------------------------------------
(***************************************************************************)
(* Where a password is sent.                                               *)
(***************************************************************************)

\* A request that does not enter a password leaves the destination it has read.
Directed ==
  \A w \in Workers : job[w].op = "update" /\ ~job[w].pw => job[w].dest = job[w].seen

\* The secrets of accounts have been entered, for the account's destination.
Placed ==
  ~overlapped => \A a \in Accounts : Exists(a) =>
    LET n == secret[a].entry IN
    n \in 1..Len(entered) /\ (entered[n].dest = dest[a] \/ entered[n].overtaken)

LEMMA MergedAlone ==
  ASSUME NEW j, j.dest \in Dests, j.seen \in Dests
  PROVE  Merged(j, j.seen) = j.dest
<1>1. \A f \in Fields : Merged(j, j.seen)[f] = j.dest[f]
  BY DEF Merged
<1>2. Merged(j, j.seen) = [f \in Fields |-> Merged(j, j.seen)[f]]
  BY DEF Merged
<1>3. j.dest = [f \in Fields |-> j.dest[f]]
  BY DEF Dests
<1> QED BY <1>1, <1>2, <1>3

LEMMA MergedSame ==
  ASSUME NEW j, NEW d \in Dests, j.dest = j.seen
  PROVE  Merged(j, d) = d
<1>1. \A f \in Fields : Merged(j, d)[f] = d[f]
  BY DEF Merged
<1>2. Merged(j, d) = [f \in Fields |-> Merged(j, d)[f]]
  BY DEF Merged
<1>3. d = [f \in Fields |-> d[f]]
  BY DEF Dests
<1> QED BY <1>1, <1>2, <1>3

LEMMA DirectedNext == TypeOK /\ Directed /\ [Next]_vars => Directed'
<1> SUFFICES ASSUME TypeOK, Directed, [Next]_vars PROVE Directed'
  OBVIOUS
<1>1. ASSUME UNCHANGED job PROVE Directed'
  BY <1>1 DEF Directed
<1>2. ASSUME NEW w \in Workers, NEW j, Start(w, j), j.op = "update" /\ ~j.pw => j.dest = j.seen
      PROVE  Directed'
  <2>1. \A v \in Workers : job'[v] = IF v = w THEN j ELSE job[v]
    BY <1>2 DEF Start, TypeOK
  <2> QED BY <1>2, <2>1 DEF Directed
<1>3. Idle.op = "none"
  BY DEF Idle
<1>4. ASSUME NEW w \in Workers, UpdateAccount(w) PROVE Directed'
  <2>1. PICK a \in Accounts, d \in profile.dests, pw \in BOOLEAN :
          /\ Redirects(dest[a], d) # {} => pw
          /\ Start(w, [op |-> "update", cell |-> a, seen |-> dest[a], dest |-> d, pw |-> pw,
                       key |-> appKey])
    BY <1>4 DEF UpdateAccount
  <2>2. d \in Dests /\ dest[a] \in Dests
    BY ProfileBounds DEF TypeOK
  <2>3. ~pw => d = dest[a]
    <3>1. SUFFICES ASSUME ~pw PROVE d = dest[a]
      OBVIOUS
    <3>2. \A f \in Fields : d[f] = dest[a][f]
      BY <2>1, <3>1 DEF Redirects
    <3> QED BY <2>2, <3>2 DEF Dests
  <2> QED BY <1>2, <2>1, <2>3
<1>5. ASSUME NEW w \in Workers,
             \/ CreateAccount(w) \/ CreateAccountCommit(w) \/ UpdateAccountCommit(w)
             \/ StoreSecret(w) \/ StoreSecretCommit(w) \/ CheckSender(w) \/ CommitSender(w)
             \/ Refused(w)
      PROVE  Directed'
  <2>1. ASSUME CreateAccount(w) PROVE Directed'
    BY <1>2, <2>1 DEF CreateAccount
  <2>2. ASSUME StoreSecret(w) PROVE Directed'
    BY <1>2, <2>2 DEF StoreSecret
  <2>3. ASSUME CheckSender(w) PROVE Directed'
    BY <1>2, <2>3 DEF CheckSender
  <2>4. ASSUME \/ CreateAccountCommit(w) \/ UpdateAccountCommit(w) \/ StoreSecretCommit(w)
               \/ CommitSender(w) \/ Refused(w)
        PROVE  Start(w, Idle)
    BY <2>4 DEF CreateAccountCommit, UpdateAccountCommit, StoreSecretCommit, CommitSender, Refused
  <2> QED BY <1>2, <1>3, <1>5, <2>1, <2>2, <2>3, <2>4
<1>6. CASE UNCHANGED vars \/ \E a \in Accounts : DeleteAccount(a)
  BY <1>1, <1>6 DEF vars, DeleteAccount
<1>7. CASE (\E c \in Others : ClearSecret(c)) \/ \E s \in SenderIds : DeleteSender(s)
  BY <1>1, <1>7 DEF ClearSecret, DeleteSender
<1>8. CASE RotateSelect \/ RotateCommit \/ RotateAbort \/ SwitchKey
  BY <1>1, <1>8 DEF RotateSelect, RotateCommit, RotateAbort, SwitchKey
<1> QED BY <1>4, <1>5, <1>6, <1>7, <1>8 DEF Next

LEMMA PlacedNext == Typed /\ Kept /\ Directed /\ Placed /\ [Next]_vars => Placed'
<1> SUFFICES ASSUME Typed, Kept, Directed, Placed, [Next]_vars PROVE Placed'
  OBVIOUS
<1> DEFINE Right(a) ==
             LET n == secret[a].entry IN
             n \in 1..Len(entered) /\ (entered[n].dest = dest[a] \/ entered[n].overtaken)
<1>1. ASSUME UNCHANGED <<dest, secret, entered, overlapped>> PROVE Placed'
  BY <1>1 DEF Placed, Exists
\* A new entry leaves those before it, and is the only one of its cell.
<1>2. ASSUME NEW c \in Cells, NEW key \in Keys, NEW d \in Dests, NEW o \in BOOLEAN,
             Store(c, key, d, o),
             \A a \in Accounts : dest'[a] = dest[a] \/ a = c,
             c \in Accounts => dest'[c] = d \/ o
      PROVE  Placed'
  <2> DEFINE n == Len(entered) + 1
             e == [dest |-> d, overtaken |-> o]
  <2> SUFFICES ASSUME ~overlapped', NEW a \in Accounts, Exists(a)' PROVE Right(a)'
    BY DEF Placed
  <2>1. a \in Cells
    BY DEF Cells
  <2>2. secret' = [secret EXCEPT ![c] = [entry |-> n, key |-> key]] /\ ~overlapped
    BY <1>2 DEF Store, Typed, TypeOK
  <2>3. entered \in Seq([dest : Dests, overtaken : BOOLEAN]) /\ e \in [dest : Dests, overtaken : BOOLEAN]
    BY DEF Typed, TypeOK
  <2>4. /\ Len(entered) \in Nat /\ Len(entered') = n
        /\ \A i \in 1..Len(entered) : entered'[i] = entered[i]
        /\ entered'[n] = e
    BY <1>2, <2>3, AppendProperties DEF Store
  <2>5. CASE a = c
    <3>1. secret'[a].entry = n
      BY <2>1, <2>2, <2>5 DEF Typed, TypeOK
    <3>2. entered'[n].dest = d /\ entered'[n].overtaken = o
      BY <2>4
    <3> QED BY <1>2, <2>4, <2>5, <3>1, <3>2
  <2>6. CASE a # c
    <3>1. secret'[a] = secret[a] /\ Exists(a)
      BY <2>1, <2>2, <2>6 DEF Exists, Typed, TypeOK
    <3>2. Right(a)
      BY <2>2, <3>1 DEF Placed
    <3>3. dest'[a] = dest[a] /\ secret[a].entry \in 1..n
      BY <1>2, <2>4, <2>6, <3>2
    <3> QED BY <2>4, <3>1, <3>2, <3>3
  <2> QED BY <2>5, <2>6
\* Nothing is entered, and no destination changes.
<1>3. ASSUME UNCHANGED <<dest, entered, overlapped>>,
             ~overlapped => \A a \in Accounts :
               Exists(a)' => Exists(a) /\ secret'[a].entry = secret[a].entry
      PROVE  Placed'
  <2> SUFFICES ASSUME ~overlapped', NEW a \in Accounts, Exists(a)' PROVE Right(a)'
    BY DEF Placed
  <2>1. Exists(a) /\ secret'[a].entry = secret[a].entry /\ Right(a)
    BY <1>3 DEF Placed
  <2> QED BY <1>3, <2>1
<1>4. Accounts \subseteq Cells /\ Others \subseteq Cells /\ Accounts \cap Others = {}
  BY CellsAssumption DEF Cells
<1>5. CASE UNCHANGED vars
  BY <1>1, <1>5 DEF vars, rows, history
<1>6. ASSUME NEW w \in Workers,
             \/ CreateAccount(w) \/ UpdateAccount(w) \/ StoreSecret(w) \/ CheckSender(w)
             \/ CommitSender(w) \/ Refused(w)
      PROVE  Placed'
  BY <1>1, <1>6 DEF CreateAccount, UpdateAccount, StoreSecret, CheckSender, CommitSender, Refused,
     rows, history
<1>7. ASSUME NEW w \in Workers, CreateAccountCommit(w) PROVE Placed'
  <2> DEFINE j == job[w]
  <2>1. j.cell \in Accounts /\ j.dest \in Dests /\ j.key \in Keys
    BY <1>7, JobShape DEF CreateAccountCommit, Typed
  <2>2. dest' = [dest EXCEPT ![j.cell] = j.dest] /\ Store(j.cell, j.key, j.dest, FALSE)
    BY <1>7 DEF CreateAccountCommit
  <2>3. \A a \in Accounts : dest'[a] = IF a = j.cell THEN j.dest ELSE dest[a]
    BY <2>1, <2>2 DEF Typed, TypeOK
  <2> QED BY <1>2, <1>4, <2>1, <2>2, <2>3
<1>8. ASSUME NEW w \in Workers, UpdateAccountCommit(w) PROVE Placed'
  <2> DEFINE j == job[w]
             a == j.cell
             d == dest[a]
  <2>1. /\ a \in Accounts /\ j.seen \in Dests /\ j.dest \in Dests /\ j.key \in Keys
        /\ j.op = "update" /\ d \in Dests
    BY <1>8, JobShape DEF UpdateAccountCommit, Typed, TypeOK
  <2>2. dest' = [dest EXCEPT ![a] = Merged(j, d)]
    BY <1>8 DEF UpdateAccountCommit
  <2>3. \A b \in Accounts : dest'[b] = IF b = a THEN Merged(j, d) ELSE dest[b]
    BY <2>1, <2>2 DEF Typed, TypeOK
  <2>4. CASE j.pw
    <3>1. Store(a, j.key, j.dest, d # j.seen) /\ (d # j.seen) \in BOOLEAN
      BY <1>8, <2>4 DEF UpdateAccountCommit
    <3>2. dest'[a] = j.dest \/ d # j.seen
      BY <2>1, <2>3, MergedAlone
    <3> QED BY <1>2, <1>4, <2>1, <2>3, <3>1, <3>2
  <2>5. CASE ~j.pw
    <3>1. UNCHANGED <<secret, entered, overlapped>>
      BY <1>8, <2>5 DEF UpdateAccountCommit
    <3>2. Merged(j, d) = d
      BY <2>1, <2>5, MergedSame DEF Directed
    <3>3. dest' = dest
      BY <2>2, <3>2 DEF Typed, TypeOK
    <3> QED BY <1>1, <3>1, <3>3
  <2> QED BY <2>4, <2>5
<1>9. ASSUME NEW w \in Workers, StoreSecretCommit(w) PROVE Placed'
  <2>1. job[w].cell \in Others /\ job[w].key \in Keys
    BY <1>9, JobShape DEF StoreSecretCommit, Typed
  <2>2. /\ Store(job[w].cell, job[w].key, CHOOSE d \in Dests : TRUE, FALSE)
        /\ dest' = dest
    BY <1>9 DEF StoreSecretCommit
  <2>3. job[w].cell \notin Accounts /\ job[w].cell \in Cells
    BY <1>4, <2>1
  <2> QED BY <1>2, <2>1, <2>2, <2>3, ADest
<1>10. ASSUME NEW c \in Cells, secret' = [secret EXCEPT ![c] = NoSecret],
              UNCHANGED <<dest, history>>
       PROVE  Placed'
  <2>1. \A b \in Cells : secret'[b] = IF b = c THEN NoSecret ELSE secret[b]
    BY <1>10 DEF Typed, TypeOK
  <2>2. \A a \in Accounts : Exists(a)' => Exists(a) /\ secret'[a].entry = secret[a].entry
    BY <1>4, <2>1 DEF Exists
  <2> QED BY <1>3, <1>10, <2>2 DEF history
<1>11. ASSUME NEW a \in Accounts, DeleteAccount(a) PROVE Placed'
  BY <1>4, <1>10, <1>11 DEF DeleteAccount
<1>12. ASSUME NEW c \in Others, ClearSecret(c) PROVE Placed'
  BY <1>4, <1>10, <1>12 DEF ClearSecret
<1>13. ASSUME NEW s \in SenderIds, DeleteSender(s) PROVE Placed'
  BY <1>1, <1>13 DEF DeleteSender
<1>14. CASE RotateCommit
  <2>1. UNCHANGED <<dest, entered, overlapped>>
    BY <1>14 DEF RotateCommit, history
  <2>2. ASSUME ~overlapped, NEW a \in Accounts, Exists(a)'
        PROVE  Exists(a) /\ secret'[a].entry = secret[a].entry
    <3>1. a \in Cells
      BY <1>4
    <3>2. Exists(a)
      BY <1>14, <2>2, <3>1, RotatedType DEF Typed
    <3>3. secret'[a] = [entry |-> secret[a].entry, key |-> rotation'.key]
      BY <1>14, <2>2, <3>1, <3>2, RotatesAll
    <3> QED BY <3>2, <3>3
  <2> QED BY <1>3, <2>1, <2>2
<1>15. CASE RotateSelect \/ RotateAbort \/ SwitchKey
  BY <1>1, <1>15 DEF RotateSelect, RotateAbort, SwitchKey, rows, history
<1> QED BY <1>5, <1>6, <1>7, <1>8, <1>9, <1>11, <1>12, <1>13, <1>14, <1>15 DEF Next

\* For any number of accounts, fields of a destination and requests at a time:
\* no edit, and no rotation nothing interfered with, leaves a password with a
\* destination it was not entered for, but for an edit that overtook another
\* (update_account, #165).
THEOREM PasswordsStayPut == Spec => []PasswordStaysPut
<1>1. Init => Typed /\ Kept /\ Directed /\ Placed
  <2>1. Idle.op = "none"
    BY DEF Idle
  <2>2. ASSUME Init PROVE Directed
    BY <2>1, <2>2 DEF Init, Directed
  <2>3. ASSUME Init PROVE Placed
    BY <2>3 DEF Init, Placed, Exists, Cells
  <2> QED BY <2>2, <2>3, TypeInit, KeptInit
<1>2. Typed /\ Kept /\ Directed /\ Placed /\ [Next]_vars => (Typed /\ Kept /\ Directed /\ Placed)'
  BY TypeNext, KeptNext, DirectedNext, PlacedNext DEF Typed
<1>3. Placed => PasswordStaysPut
  BY DEF Placed, PasswordStaysPut
<1> QED BY <1>1, <1>2, <1>3, PTL DEF Spec
=============================================================================
