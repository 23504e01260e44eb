------------------------ MODULE EntryOrderRefinement ------------------------
(* EntryOrder keeps EntryPromise: the refinement mapping.                  *)
EXTENDS EntryOrder

Sent(d) == {c \in Client : decisionOf[c] = d /\ order[c] # "none"}

(* The contracts bought for a decision, each by the order that bought it.  *)
Contracts(d) == {p \in Sent(d) \X (1 .. Size) : p[2] <= fill[p[1]]}

PhaseOf(d) ==
  IF Sent(d) = {} THEN "unused"
  ELSE IF \E c \in Sent(d) : Outstanding(c) THEN "open" ELSE "closed"

phaseBar  == [d \in Decision |-> PhaseOf(d)]
boughtBar == [d \in Decision |-> Cardinality(Contracts(d))]
sendsBar  == [d \in Decision |-> Cardinality(Sent(d))]

Promise == INSTANCE EntryPromise
             WITH phase <- phaseBar, bought <- boughtBar, sends <- sendsBar

(* The whole entry path, its Maker wait, fallback, crashes and later       *)
(* reconciliation included, implements the promise made for a decision.    *)
ImplementsPromise == Promise!Spec
=============================================================================
