--------------------------- MODULE MCDeliveryQueue ---------------------------
(* An instance of DeliveryQueue: two briefings and a trading alert that is  *)
(* inserted last and claimed first, so that a claim of two leaves one out.  *)
EXTENDS DeliveryQueue

ThreeRows  == 1 .. 3
UrgentLast == [d \in Delivery |-> IF d = 3 THEN 90 ELSE 50]
=============================================================================
