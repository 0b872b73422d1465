------------------------------ MODULE MCPqueue -------------------------------
(* Six items, two pairs of them with the same key: the fewest with which an item   *)
(* can be removed while the last one is in another subtree.                  *)
EXTENDS Pqueue
MCItems == 1 .. 6
MCKey == <<1, 2, 2, 3, 4, 4>>
==============================================================================
