-------------------------------- MODULE MCAlerts --------------------------------
(***************************************************************************)
(* Alerts for TLC: the connection tests of one account, one condition of   *)
(* the relay, and one kind of update.                                      *)
(***************************************************************************)
EXTENDS Alerts

MCProfiles == {[changes |-> {"condition", "test"}, faults |-> 2],
               [changes |-> {"condition", "update"}, faults |-> 1],
               [changes |-> {"update", "settings", "condition"}, faults |-> 1],
               [changes |-> {"condition", "settings"}, faults |-> 1],
               [changes |-> {"condition", "test_alert"}, faults |-> 2]}

MCStateKinds == <<"health_degraded", "upstream_test_failure">>
MCVersionKinds == <<"app_update_available">>
=============================================================================
