------------------------------ MODULE MCLedger ------------------------------
(* Small instances of LedgerCycle: a position of each of two accounts.        *)
EXTENDS LedgerCycle

CONSTANTS mine, theirs, myAccount, otherAccount

MCOwner == [l \in Lifecycle |-> IF l = mine THEN myAccount ELSE otherAccount]
=============================================================================
