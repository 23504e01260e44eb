------------------------- MODULE WriterGateRefinement -------------------------
(* WriterGate keeps AccountPromise: the refinement mapping.  The file lock is  *)
(* the lock, and a cycle runs once it has frozen its account.                *)
EXTENDS WriterGate

Running == {t \in Traders : pc[t] \notin {"idle", "locked"}}
Sending == {t \in Thread : pc[t] = "sending"}

runningBar  == {[by |-> t, on |-> env[t]] : t \in Running}
requestsBar == {[by |-> t, to |-> env[t]] : t \in Sending}

Account == INSTANCE AccountPromise
             WITH Nobody <- NoThread, writer <- flock, running <- runningBar,
                  requests <- requestsBar, bound <- binding

(* The locks of threads and processes, the window of the model, the change of  *)
(* an account and the death of a process implement that promise.             *)
ImplementsAccountPromise == Account!Spec
=============================================================================
