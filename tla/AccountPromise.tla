---------------------------- MODULE AccountPromise ----------------------------
(***************************************************************************)
(* What the locks of the account promise, whoever waits for them, nests    *)
(* them, lets them go or dies with them: one thread at a time may write;   *)
(* a request is its, and goes to the account that is bound; the account    *)
(* is changed by the writer, and not while a cycle runs on it.             *)
(***************************************************************************)
EXTENDS Naturals

CONSTANTS Thread, Traders, Nobody

VARIABLES
  writer,    \* who may write
  running,   \* the cycle that runs, and the account it runs on
  requests,  \* the request under way, and the account it goes to
  bound      \* the bound account, by version

accountVars == <<writer, running, requests, bound>>

Init == writer = Nobody /\ running = {} /\ requests = {} /\ bound = 0

Acquire(t) ==
  /\ writer = Nobody
  /\ writer' = t
  /\ UNCHANGED <<running, requests, bound>>

Release(t) ==
  /\ writer = t /\ requests = {}
  /\ writer' = Nobody
  /\ UNCHANGED <<running, requests, bound>>

(* A cycle begins and ends outside of the lock. *)
Begin(t) ==
  /\ t \in Traders /\ writer # t /\ running = {}
  /\ running' = {[by |-> t, on |-> bound]}
  /\ UNCHANGED <<writer, requests, bound>>

End(t) ==
  /\ writer # t /\ \E r \in running : r.by = t
  /\ running' = {}
  /\ UNCHANGED <<writer, requests, bound>>

(* A trader sends for its cycle only. *)
Send(t) ==
  /\ writer = t /\ requests = {}
  /\ t \in Traders => running = {[by |-> t, on |-> bound]}
  /\ requests' = {[by |-> t, to |-> bound]}
  /\ UNCHANGED <<writer, running, bound>>

Answered(t) ==
  /\ writer = t /\ requests # {}
  /\ requests' = {}
  /\ UNCHANGED <<writer, running, bound>>

Change(t) ==
  /\ writer = t /\ t \notin Traders /\ running = {} /\ requests = {}
  /\ bound' = bound + 1
  /\ UNCHANGED <<writer, running, requests>>

Lose(dead) ==
  /\ writer' = IF writer \in dead THEN Nobody ELSE writer
  /\ running' = {r \in running : r.by \notin dead}
  /\ requests' = {r \in requests : r.by \notin dead}
  /\ UNCHANGED bound

Next ==
  \/ \E t \in Thread : \/ Acquire(t) \/ Release(t) \/ Begin(t) \/ End(t)
                       \/ Send(t) \/ Answered(t) \/ Change(t)
  \/ \E dead \in SUBSET Thread : Lose(dead)

Spec == Init /\ [][Next]_accountVars
=============================================================================
