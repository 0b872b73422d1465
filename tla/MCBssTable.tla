------------------------------ MODULE MCBssTable -----------------------------
(* Two access points of one configured network, one of which is also seen    *)
(* without its SSID, which matches no configured network.                    *)
EXTENDS BssTable
MCAps == {"a1", "a2", "h1"}
MCBssid == [a \in MCAps |-> IF a = "a2" THEN "b2" ELSE "b1"]
MCSsid == [a \in MCAps |-> IF a = "h1" THEN "" ELSE "home"]
MCKnown == {"home"}
MCSymmetry == Permutations(Addr)
==============================================================================
