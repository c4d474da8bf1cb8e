--------------------------- MODULE MCControlSurface ---------------------------
(***************************************************************************)
(* Small instances of ControlSurface for TLC: two clients, one or two      *)
(* senders, two generations of main.cf/master.cf.                          *)
(***************************************************************************)
EXTENDS ControlSurface

MCRoutingMaps == <<"sender_relayhost", "sender_transport">>
\* The Debian package ships a master.cf of its own and no main.cf.
MCStockConf == [f \in Files |-> IF f = "main.cf" THEN NoFile ELSE "stock"]

Generation(t) == [f \in Files |-> t]
Apply(t, login, route, reload) ==
  [op |-> "apply_config", conf |-> Generation(t), login |-> login,
   route |-> route, reload |-> reload]

\* A full configuration that restarts Postfix, one that grants a sender
\* without a restart, and one that takes every sender away.
MCRequests ==
  { Apply("v1", Senders, Senders, TRUE),
    Apply("v1", {}, Senders, FALSE),
    Apply("v2", {}, {}, TRUE) }

Profile(kinds, n) == [kinds |-> kinds, faults |-> n, edits |-> 0, overlap |-> TRUE]
MCProfiles == {Profile(FaultKinds, 2)}
SlowCommands == {Profile({"slow"}, 1)}
ImpatientClients == {Profile({"giveup"}, 1)}
=============================================================================
