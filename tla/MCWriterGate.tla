----------------------------- MODULE MCWriterGate -----------------------------
(* A trader in a process of its own, and the control plane, which serves a  *)
(* confirmed close and an account change from two threads of one process:   *)
(* both kinds of contention, for the thread lock and for the file lock.     *)
EXTENDS WriterGateRefinement

CONSTANTS trader, closer, manager, traderProcess, backend

MCThread    == {trader, closer, manager}
MCProcess   == {traderProcess, backend}
MCTraders   == {trader}
MCGuards    == {closer}
MCManagers  == {manager}
MCProcessOf == [t \in MCThread |-> IF t = trader THEN traderProcess ELSE backend]
=============================================================================
