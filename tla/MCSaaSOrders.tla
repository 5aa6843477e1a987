---------------------------- MODULE MCSaaSOrders ----------------------------
(* Instances of SaaSOrders for TLC.                                         *)
EXTENDS SaaSOrders

\* A billing cycle of two units of time; an order lives one, three years are
\* four.
MCLength == [c \in Cycles |-> 2]
=============================================================================
