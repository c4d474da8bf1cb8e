--------------------------- MODULE MCConfigPipeline ---------------------------
(***************************************************************************)
(* Small instances of ConfigPipeline for TLC. main.cf is "v1"; master.cf is *)
(* rendered to one of two texts, and the image ships a third.              *)
(***************************************************************************)
EXTENDS ConfigPipeline

MCRoutingMaps == <<"sender_transport">>
\* The Debian package ships a master.cf of its own and no main.cf.
MCStockConf == [f \in Files |-> IF f = "main.cf" THEN NoFile ELSE "stock"]

Profile(kinds, n, e, o) == [kinds |-> kinds, faults |-> n, edits |-> e, overlap |-> o]
BenignKinds == {"reject", "postmap", "stop", "start", "restart", "recreate"}

\* One generation at a time with two benign faults and two edits; two at a time
\* with any one fault and one edit.
MCProfiles ==
  { Profile(BenignKinds \ {"start"}, 2, 2, FALSE),
    Profile(BenignKinds \ {"recreate"}, 2, 2, FALSE),
    Profile(FaultKinds, 1, 1, TRUE) }
\* A replaced container, and a start that fails in it.
ReplacedOnly == {Profile({"start", "recreate"}, 2, 0, FALSE)}
\* Two generations at a time and nothing that fails.
OverlapOnly == {Profile({}, 0, 2, TRUE)}
=============================================================================
