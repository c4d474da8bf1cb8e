------------------------------- MODULE Upstreams -------------------------------
(***************************************************************************)
(* Upstream accounts, senders and the secrets of the database:             *)
(* api/routes/upstream_accounts.py, api/routes/senders.py,                 *)
(* core/encryption.py and `relay rotate-encryption-key` (cli.py).          *)
(*                                                                         *)
(* A request is cut where it reads (and encrypts what it was given) and    *)
(* where it commits: SQLAlchemy reads without a lock and writes only the   *)
(* columns that changed. The rotation is a process of its own: it selects  *)
(* one encrypted column after the other, and from its first UPDATE to its  *)
(* COMMIT nobody else can write, which makes that one step.                *)
(*                                                                         *)
(* What is abstracted: a password is the number of its entry; an address   *)
(* is what Postfix folds it to and a spelling; grants, descriptions, names,*)
(* limits and the enabled flags are left to ConfigPipeline.                *)
(***************************************************************************)
EXTENDS Naturals, Sequences

CONSTANTS
  Accounts,     \* ids of upstream accounts
  Others,       \* cells of other encrypted columns: TOTP secrets, tokens, keys
  Columns,      \* the encrypted columns in the order of sorted_tables
  Fields,       \* what decides where a password is sent: host, port, ...
  Values,       \* of a field
  SenderIds,
  Folded, Spellings,  \* an address is a pair of the two
  Keys,         \* encryption keys
  Workers, NoSecret, NoSender, NoKey,
  MaxEntries,
  Profiles      \* what may happen: [ops, dests, entries (secrets entered), rotations]

Cells == Accounts \cup Others
Dests == [Fields -> Values]
Addresses == Folded \X Spellings
Ops == {"create", "update", "delete", "store", "clear", "sender", "delete_sender", "rotate"}

ASSUME CellsAssumption ==
  /\ Accounts \cap Others = {}
  /\ Columns \in Seq(SUBSET Cells) /\ UNION {Columns[i] : i \in DOMAIN Columns} = Cells
  /\ Values # {}
ASSUME BoundAssumption ==
  MaxEntries \in Nat
  /\ Profiles \subseteq [ops : SUBSET Ops, dests : SUBSET Dests, entries : 0..MaxEntries, rotations : Nat]

VARIABLES
  dest,       \* where each account sends its password
  secret,     \* each encrypted cell
  senders,    \* sender rows: address and account
  appKey,     \* RELAY_ENCRYPTION_KEY of the application
  job,        \* what each worker is doing
  rotation,   \* where `relay rotate-encryption-key` is
  entered,    \* history: the destination each secret was entered for, and
              \* whether that was overtaken by another edit
  overlapped, \* history: a secret was written while keys were being rotated
  raced,      \* history: senders committed after others had come or gone since
              \* their check
  rotations,  \* so far
  profile     \* what may happen in this behaviour; never changes

rows == <<dest, secret, senders>>
history == <<entered, overlapped, raced>>
vars == <<rows, appKey, job, rotation, history, rotations, profile>>

Entries == 1..MaxEntries
Secrets == [entry : Entries, key : Keys]
Senders == [address : Addresses, account : Accounts]
ASSUME NoneAssumption == NoSecret \notin Secrets /\ NoSender \notin Senders

Idle == [op |-> "none"]
Edits == [op : {"update"}, cell : Accounts, seen : Dests, dest : Dests, pw : BOOLEAN, key : Keys]
Jobs == {Idle} \cup Edits
          \cup [op : {"create"}, cell : Accounts, dest : Dests, key : Keys]
          \cup [op : {"store"}, cell : Others, key : Keys]
          \cup [op : {"sender"}, id : SenderIds, address : Addresses, account : Accounts,
                seen : SUBSET Addresses]
\* `key` is the new key once it is in the database.
NoRotation == [step |-> "idle", column |-> 0, rows |-> {}, key |-> NoKey]

TypeOK ==
  /\ dest \in [Accounts -> Dests]
  /\ secret \in [Cells -> Secrets \cup {NoSecret}]
  /\ senders \in [SenderIds -> Senders \cup {NoSender}]
  /\ \A s \in SenderIds : senders[s] # NoSender => secret[senders[s].account] # NoSecret
  /\ appKey \in Keys
  /\ job \in [Workers -> Jobs]
  /\ rotation \in [step : {"idle", "select", "update", "pending"}, column : 0..Len(Columns) + 1,
                   rows : SUBSET (Cells \X Secrets), key : Keys \cup {NoKey}]
  /\ entered \in Seq([dest : Dests, overtaken : BOOLEAN]) /\ Len(entered) <= profile.entries
  /\ overlapped \in BOOLEAN /\ raced \subseteq SenderIds
  /\ rotations \in 0..profile.rotations
  /\ profile \in Profiles

Init ==
  /\ dest \in [Accounts -> {CHOOSE d \in Dests : TRUE}]
  /\ secret = [c \in Cells |-> NoSecret]
  /\ senders = [s \in SenderIds |-> NoSender]
  /\ appKey \in Keys
  /\ job = [w \in Workers |-> Idle]
  /\ rotation = NoRotation
  /\ entered = <<>> /\ overlapped = FALSE /\ raced = {}
  /\ rotations = 0
  /\ profile \in Profiles

-----------------------------------------------------------------------------
Free(w, op) == job[w] = Idle /\ op \in profile.ops
Start(w, j) == job' = [job EXCEPT ![w] = j]
Exists(c) == secret[c] # NoSecret

\* encrypt_secret under the key the request loaded, as its commit stores it: the
\* next entry, for destination d.
Store(c, key, d, overtaken) ==
  /\ Len(entered) < profile.entries
  /\ entered' = Append(entered, [dest |-> d, overtaken |-> overtaken])
  /\ secret' = [secret EXCEPT ![c] = [entry |-> Len(entered) + 1, key |-> key]]
  /\ overlapped' = (overlapped \/ rotation.step # "idle" \/ key # appKey)

\* A request that ends without a commit: a refusal, a lock that is not free in
\* time, a process that ends.
Refused(w) ==
  /\ job[w] # Idle
  /\ Start(w, Idle)
  /\ UNCHANGED <<rows, appKey, rotation, history, rotations>>

-----------------------------------------------------------------------------
\* Upstream accounts.

CreateAccount(w) ==
  /\ Free(w, "create")
  /\ \E a \in Accounts, d \in profile.dests :
       /\ ~Exists(a)
       /\ Start(w, [op |-> "create", cell |-> a, dest |-> d, key |-> appKey])
  /\ UNCHANGED <<rows, appKey, rotation, history, rotations>>

CreateAccountCommit(w) ==
  /\ job[w].op = "create" /\ ~Exists(job[w].cell)
  /\ LET j == job[w] IN
     /\ dest' = [dest EXCEPT ![j.cell] = j.dest]
     /\ Store(j.cell, j.key, j.dest, FALSE)
  /\ Start(w, Idle)
  /\ UNCHANGED <<senders, appKey, rotation, raced, rotations>>

\* The fields a request would redirect the stored password with.
\* Variant: only the host counts.
RedirectsFirst(seen, d) ==
  LET first == CHOOSE f \in Fields : TRUE IN {f \in {first} : d[f] # seen[f]}
Redirects(seen, d) == {f \in Fields : d[f] # seen[f]}

\* update_account up to its refusal: a redirect needs the password.
UpdateAccount(w) ==
  /\ Free(w, "update")
  /\ \E a \in Accounts, d \in profile.dests, pw \in BOOLEAN :
       /\ Exists(a)
       /\ d # dest[a] \/ pw
       /\ Redirects(dest[a], d) # {} => pw
       /\ Start(w, [op |-> "update", cell |-> a, seen |-> dest[a], dest |-> d, pw |-> pw,
                    key |-> appKey])
  /\ UNCHANGED <<rows, appKey, rotation, history, rotations>>

\* Only the fields that changed are written; what others wrote since stays.
Merged(j, d) == [f \in Fields |-> IF j.dest[f] # j.seen[f] THEN j.dest[f] ELSE d[f]]

UpdateAccountCommit(w) ==
  /\ job[w].op = "update" /\ Exists(job[w].cell)
  /\ LET j == job[w] a == j.cell d == dest[j.cell] IN
     /\ dest' = [dest EXCEPT ![a] = Merged(j, d)]
     /\ IF j.pw THEN Store(a, j.key, j.dest, d # j.seen)
        ELSE UNCHANGED <<secret, entered, overlapped>>
  /\ Start(w, Idle)
  /\ UNCHANGED <<senders, appKey, rotation, raced, rotations>>

\* delete_account: the foreign key keeps an account that a sender refers to.
\* Variant: no foreign key.
DeleteAccountAnyway(a) ==
  /\ "delete" \in profile.ops /\ Exists(a)
  /\ secret' = [secret EXCEPT ![a] = NoSecret]
  /\ UNCHANGED <<dest, senders, appKey, job, rotation, history, rotations>>
DeleteAccount(a) ==
  /\ "delete" \in profile.ops /\ Exists(a)
  /\ \A s \in SenderIds : senders[s] # NoSender => senders[s].account # a
  /\ secret' = [secret EXCEPT ![a] = NoSecret]
  /\ UNCHANGED <<dest, senders, appKey, job, rotation, history, rotations>>

-----------------------------------------------------------------------------
\* Other secrets: a TOTP enrolment, the Cloudflare token, a certificate's key.

StoreSecret(w) ==
  /\ Free(w, "store")
  /\ \E c \in Others : Start(w, [op |-> "store", cell |-> c, key |-> appKey])
  /\ UNCHANGED <<rows, appKey, rotation, history, rotations>>

StoreSecretCommit(w) ==
  /\ job[w].op = "store"
  /\ Store(job[w].cell, job[w].key, CHOOSE d \in Dests : TRUE, FALSE)
  /\ Start(w, Idle)
  /\ UNCHANGED <<dest, senders, appKey, rotation, raced, rotations>>

ClearSecret(c) ==
  /\ "clear" \in profile.ops /\ Exists(c)
  /\ secret' = [secret EXCEPT ![c] = NoSecret]
  /\ UNCHANGED <<dest, senders, appKey, job, rotation, history, rotations>>

-----------------------------------------------------------------------------
\* Senders.

AddressesBut(s) == {senders[t].address : t \in {u \in SenderIds \ {s} : senders[u] # NoSender}}

\* _require_unique_address ignores the case, as Postfix does.
\* Variant: addresses are compared as they are spelt.
TakenAsSpelt(address, taken) == address \in taken
Taken(address, taken) == \E other \in taken : other[1] = address[1]

\* create_sender and update_sender up to their checks.
CheckSender(w) ==
  /\ Free(w, "sender")
  /\ \E s \in SenderIds, address \in Addresses, a \in Accounts :
       /\ Exists(a) /\ ~Taken(address, AddressesBut(s))
       /\ senders[s] # [address |-> address, account |-> a]
       /\ Start(w, [op |-> "sender", id |-> s, address |-> address, account |-> a,
                    seen |-> AddressesBut(s)])
  /\ UNCHANGED <<rows, appKey, rotation, history, rotations>>

\* The database's own constraints: a unique address, as it is spelt, and an
\* account that exists.
CommitSender(w) ==
  /\ job[w].op = "sender"
  /\ LET j == job[w] IN
     /\ Exists(j.account) /\ j.address \notin AddressesBut(j.id)
     /\ senders' = [senders EXCEPT ![j.id] = [address |-> j.address, account |-> j.account]]
     /\ raced' = IF AddressesBut(j.id) = j.seen THEN raced \ {j.id} ELSE raced \cup {j.id}
  /\ Start(w, Idle)
  /\ UNCHANGED <<dest, secret, appKey, rotation, entered, overlapped, rotations>>

DeleteSender(s) ==
  /\ "delete_sender" \in profile.ops /\ senders[s] # NoSender
  /\ senders' = [senders EXCEPT ![s] = NoSender]
  /\ raced' = raced \ {s}
  /\ UNCHANGED <<dest, secret, appKey, job, rotation, entered, overlapped, rotations>>

-----------------------------------------------------------------------------
\* relay rotate-encryption-key, from the application's key to another one.

Stored(i) == {<<c, secret[c]>> : c \in {d \in Columns[i] : Exists(d)}}

\* The first column that is not empty is selected before anything is locked.
RotateSelect ==
  /\ \/ rotation.step = "idle" /\ "rotate" \in profile.ops
        /\ rotations < profile.rotations /\ rotations' = rotations + 1
     \/ rotation.step = "select" /\ UNCHANGED rotations
  /\ LET i == rotation.column + 1 IN
     IF i > Len(Columns)
     THEN \E new \in Keys \ {appKey} : rotation' = [NoRotation EXCEPT !.step = "pending", !.key = new]
     ELSE rotation' = [step |-> IF Stored(i) = {} THEN "select" ELSE "update",
                       column |-> i, rows |-> Stored(i), key |-> NoKey]
  /\ UNCHANGED <<rows, appKey, job, history>>

\* The rows to re-encrypt: those it has selected, and the columns after them as
\* they are under its lock.
\* Variant: the columns after the first one that is not empty are forgotten.
ToRotateFirst == rotation.rows
ToRotate == rotation.rows \cup UNION {Stored(i) : i \in rotation.column + 1..Len(Columns)}

\* Every row of the old key, every cell that is still there, one COMMIT.
RotateCommit ==
  /\ rotation.step = "update"
  /\ \A r \in ToRotate : r[2].key = appKey
  /\ \E new \in Keys \ {appKey} :
       /\ secret' = [c \in Cells |->
            IF Exists(c) /\ \E r \in ToRotate : r[1] = c
            THEN [entry |-> (CHOOSE r \in ToRotate : r[1] = c)[2].entry, key |-> new]
            ELSE secret[c]]
       /\ rotation' = [NoRotation EXCEPT !.step = "pending", !.key = new]
  /\ UNCHANGED <<dest, senders, appKey, job, history, rotations>>

\* A row that does not decrypt, a lock that is not free, a command that is
\* interrupted: the transaction is rolled back.
RotateAbort ==
  /\ rotation.step \in {"select", "update"}
  /\ rotation' = NoRotation
  /\ UNCHANGED <<rows, appKey, job, history, rotations>>

\* The operator gives the application the new key.
SwitchKey ==
  /\ rotation.step = "pending"
  /\ appKey' = rotation.key /\ rotation' = NoRotation
  /\ UNCHANGED <<rows, job, history, rotations>>

Next ==
  /\ \/ \E w \in Workers :
          \/ CreateAccount(w) \/ CreateAccountCommit(w)
          \/ UpdateAccount(w) \/ UpdateAccountCommit(w)
          \/ StoreSecret(w) \/ StoreSecretCommit(w)
          \/ CheckSender(w) \/ CommitSender(w) \/ Refused(w)
     \/ \E a \in Accounts : DeleteAccount(a)
     \/ \E c \in Others : ClearSecret(c)
     \/ \E s \in SenderIds : DeleteSender(s)
     \/ RotateSelect \/ RotateCommit \/ RotateAbort \/ SwitchKey
  /\ UNCHANGED profile

Spec == Init /\ [][Next]_vars

-----------------------------------------------------------------------------
\* The password on record was entered for where it is sent now, unless another
\* edit of the account was committed while it was being entered, or a rotation
\* wrote back the password it had selected before the edit: no edit by itself
\* turns a stored password to another server (update_account, #165).
PasswordStaysPut ==
  \A a \in Accounts : Exists(a) =>
    LET e == entered[secret[a].entry] IN e.dest = dest[a] \/ e.overtaken \/ overlapped

\* After a rotation and the change of key every secret can be decrypted, and
\* after one that failed too, unless something stored a secret meanwhile
\* (rotate_encryption_key; security-model.md section 2 promises it without the
\* exception).
AllReadable ==
  overlapped \/ rotation.step = "pending" \/ \A c \in Cells : Exists(c) => secret[c].key = appKey

\* No two senders are one entry of Postfix's maps, unless the one was committed
\* between the other's check and commit (_require_unique_address, #199).
OneEntryEach ==
  \A s, t \in SenderIds :
    s # t /\ senders[s] # NoSender /\ senders[t] # NoSender
      => senders[s].address[1] # senders[t].address[1] \/ {s, t} \cap raced # {}
=============================================================================
