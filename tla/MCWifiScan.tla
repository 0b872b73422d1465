------------------------------ MODULE MCWifiScan -----------------------------
(* An access point and one that hides its SSID, and a reply with room for    *)
(* one line, so that either may be cut off.  No P2P device that only listens *)
(* is seen.                                                                  *)
EXTENDS WifiScan
CONSTANTS ap, hidden
MCBSSs == {ap, hidden}
MCNameless == {hidden}
MCUnlisted == {}
==============================================================================
