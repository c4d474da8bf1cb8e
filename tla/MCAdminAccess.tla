----------------------------- MODULE MCAdminAccess -----------------------------
(***************************************************************************)
(* AdminAccess for TLC: one profile for each group of operations that meet *)
(* in the same rows, each with the smallest bounds in which they do.       *)
(***************************************************************************)
EXTENDS AdminAccess, TLC

CONSTANTS alice, bob, home, cafe

\* Accounts that deactivate, reactivate and create each other.
Status == [ops |-> {"setup", "login", "deactivate", "reactivate", "create_admin"},
           emails |-> {alice, bob}, sources |-> {home}, time |-> 1, sessions |-> 2,
           changes |-> 2, failures |-> 0]
\* One account, its password changed from a session and from the command line.
Password == [ops |-> {"setup", "login", "change_own_password", "reset_admin_password",
                      "logout"},
             emails |-> {alice}, sources |-> {home}, time |-> 1, sessions |-> 3, changes |-> 2,
             failures |-> 0]
\* One account's authenticator, over two steps of its clock.
Totp == [ops |-> {"setup", "login", "confirm_totp", "remove_totp", "disable_totp"},
         emails |-> {alice}, sources |-> {home}, time |-> 2, sessions |-> 3, changes |-> 2,
         failures |-> 0]

\* Passwords guessed at from two sources, and from a session.
Guess == [ops |-> {"setup", "login", "change_own_password"},
          emails |-> {alice}, sources |-> {home, cafe}, time |-> 5, sessions |-> 1,
          changes |-> 1, failures |-> 4]

MCThresholds == <<[failures |-> 1, lockout |-> 1], [failures |-> 2, lockout |-> 3]>>

MCProfiles == {Status, Password, Totp, Guess}
Symmetry == {p @@ q : p \in Permutations(Workers), q \in Permutations(Sources)}
=============================================================================
