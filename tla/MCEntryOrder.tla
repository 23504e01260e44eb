---------------------------- MODULE MCEntryOrder ----------------------------
(* Small instances of EntryOrder for TLC.                                  *)
EXTENDS EntryOrderRefinement, TLC

CONSTANTS d1, d2, i1, i2

MCDecision == {d1, d2}
OneDecision == {d1}
OneInstrument == {i1}
TwoInstruments == {i1, i2}
SameInstrumentOf == [d \in MCDecision |-> i1]
OnlyInstrumentOf == [d \in OneDecision |-> i1]
EachItsInstrument == [d \in MCDecision |-> IF d = d1 THEN i1 ELSE i2]

(* With one instrument the decisions are interchangeable.                  *)
DecisionSymmetry == Permutations(MCDecision)
=============================================================================
