------------------------------ MODULE MCOrders ------------------------------
(***************************************************************************)
(* Two orders, one that needs a prescription and one that needs a licence, *)
(* in a client that remembers one policy; one webhook endpoint, registered *)
(* at run time.                                                            *)
(***************************************************************************)
EXTENDS Orders

MCOrders == {"o1", "o2"}
MCGates == {"rx", "licence"}
MCPolicy == [o1 |-> {"rx"}, o2 |-> {"licence"}]
MCApplies == [g \in MCGates |-> MCOrders]
=============================================================================
