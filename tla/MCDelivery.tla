----------------------------- MODULE MCDelivery -----------------------------
(* An instance of Delivery small enough for TLC. *)
EXTENDS Delivery, TLC

CONSTANTS t1, w1, w2, p1, o1
===============================================================================
