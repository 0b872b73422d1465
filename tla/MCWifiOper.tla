------------------------------ MODULE MCWifiOper -----------------------------
(* One network of the user's, two calls of connect_wifi, two sessions, one   *)
(* daemon restart.                                                           *)
EXTENDS WifiOper
MCNetIds == 0 .. 2
MCUserNets == {0}
MCFlags == {0, 1, 2}
==============================================================================
