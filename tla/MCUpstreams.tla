------------------------------ MODULE MCUpstreams ------------------------------
(***************************************************************************)
(* A small instance of Upstreams for TLC: a column of TOTP secrets before  *)
(* the one of the accounts' passwords, and two spellings of an address.    *)
(***************************************************************************)
EXTENDS Upstreams, TLC

CONSTANTS a1, a2, totp

MCColumns == <<{totp}, {a1, a2}>>

OneDest == {CHOOSE d \in Dests : TRUE}
AccountsProfile == [ops |-> {"create", "update", "delete"}, dests |-> Dests, entries |-> 3,
                    rotations |-> 0]
SendersProfile == [ops |-> {"create", "delete", "sender", "delete_sender"}, dests |-> OneDest,
                   entries |-> 2, rotations |-> 0]
RotationProfile == [ops |-> {"create", "update", "store", "clear", "rotate"},
                    dests |-> {d \in Dests : d["host"] = d["port"]}, entries |-> 3, rotations |-> 2]
MCProfiles == {AccountsProfile, SendersProfile, RotationProfile}

WorkerSymmetry == Permutations(Workers)
=============================================================================
