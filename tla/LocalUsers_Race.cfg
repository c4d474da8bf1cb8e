\* Two requests at a time, a delete and a regenerate; nothing fails.
SPECIFICATION Spec
CONSTANTS
  Users = {u1}
  Workers = {w1, w2}
  NoUser = NoUser
  MaxPasswords = 3
  Profiles <- RegenerateWhileDeleting
INVARIANT OnlyEnabledAuthenticate
CHECK_DEADLOCK FALSE
