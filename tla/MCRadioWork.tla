----------------------------- MODULE MCRadioWork -----------------------------
(* Two interfaces on one radio; a scan of all bands, a connection on one   *)
(* band, a query and an external work on the other.                          *)
EXTENDS RadioWork
MCKinds == {[type |-> "scan", bands |-> 3], [type |-> "sme-connect", bands |-> 1],
            [type |-> "gas-query", bands |-> 2], [type |-> "ext", bands |-> 2]}
==============================================================================
