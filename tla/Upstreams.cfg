\* Edits of two accounts, senders with two spellings of an address, and two
\* rotations of the key, each with two requests at a time.
SPECIFICATION Spec
CONSTANTS
  a1 = a1
  a2 = a2
  totp = totp
  Accounts = {a1, a2}
  Others = {totp}
  Columns <- MCColumns
  Fields = {"host", "port"}
  Values = {1, 2}
  SenderIds = {s1, s2}
  Folded = {"ceo", "cfo"}
  Spellings = {"lower", "upper"}
  Keys = {"k1", "k2"}
  Workers = {w1, w2}
  NoSecret = NoSecret
  NoSender = NoSender
  NoKey = NoKey
  MaxEntries = 3
  Profiles <- MCProfiles
SYMMETRY WorkerSymmetry
INVARIANTS
  TypeOK
  PasswordStaysPut
  AllReadable
  OneEntryEach
CHECK_DEADLOCK FALSE
