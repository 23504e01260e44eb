---------------------------- MODULE MCJobScheduler ----------------------------
(* Instances of JobScheduler: a slot of five units in which the proportions *)
(* of the code hold (a trader may run almost a slot, a review may start in  *)
(* the first part of one, a recovery until shortly before the next).        *)
EXTENDS JobScheduler

NoReviews == {}
OneReview == {SlotLength}
=============================================================================
