---------------------------- MODULE DeliveryQueue ----------------------------
(***************************************************************************)
(* The notification queue of the gateway (okxquant_gateway/store.py, table *)
(* deliveries) and the worker that empties it (worker.py).  Rows are       *)
(* claimed in batches, each is sent to its channel and the outcome is      *)
(* stored by a transaction of its own, so a worker that dies between two   *)
(* of these steps leaves rows in processing that no claim looks at: only   *)
(* the next worker, once it holds the file lock, hands them out again.     *)
(*                                                                         *)
(* Every worker has its own memory (the batch with the attempts column as  *)
(* claim_due read it); rows and the channel survive it.  The channel may   *)
(* take a message and still fail to say so.                                *)
(***************************************************************************)
EXTENDS Naturals, FiniteSets

CONSTANTS
  Delivery,     \* row ids: numbers, in the order of insertion
  Priority,     \* priority of the row's event
  Worker,       \* worker processes
  NoWorker,
  Batch,        \* rows of one claim (20 in the code)
  MaxAttempts,  \* failures after which a row is dead (6 in the code)
  MaxFaults,    \* bound: crashes, failed transactions, answers lost
  MaxRequests   \* bound: replays and terminations operators ask for

ASSUME QueueAssumption ==
  /\ Delivery \subseteq Nat
  /\ Priority \in [Delivery -> Nat]
  /\ NoWorker \notin Worker
  /\ Batch \in Nat \ {0}
  /\ MaxAttempts \in Nat \ {0}
  /\ MaxFaults \in Nat
  /\ MaxRequests \in Nat

VARIABLES
  status, attempts,  \* columns of the deliveries table
  due,               \* rows whose next_attempt_at has passed
  got,               \* times the recipient got the message
  holder,            \* worker that holds the file lock
  phase, batch,      \* of each worker: where it is, rows still to send
  stopping,          \* workers that were asked to terminate
  faults, requests

rows    == <<status, attempts, due>>
process == <<holder, phase, batch, stopping>>
queueVars    == <<rows, got, process, faults, requests>>

Status == {"none", "pending", "retry", "processing", "delivered", "dead"}
Phase  == {"off", "recovering", "polling", "sending", "completing",
           "failing", "excepting", "closing"}
InBatch  == {"sending", "completing", "failing", "excepting"}
NoBatch  == [d \in {} |-> 0]

QueueInit ==
  /\ status = [d \in Delivery |-> "none"]
  /\ attempts = [d \in Delivery |-> 0]
  /\ due = {}
  /\ got = [d \in Delivery |-> 0]
  /\ holder = NoWorker
  /\ phase = [w \in Worker |-> "off"]
  /\ batch = [w \in Worker |-> NoBatch]
  /\ stopping = {}
  /\ faults = 0
  /\ requests = 0

-----------------------------------------------------------------------------
(* ORDER BY priority DESC, id ASC *)
Before(d, e) == \/ Priority[d] > Priority[e]
                \/ Priority[d] = Priority[e] /\ d < e
(* Seeded fault: rows in retry are forgotten by the claim. *)
ClaimablePendingOnly == {d \in due : status[d] = "pending"}
Claimable == {d \in due : status[d] \in {"pending", "retry"}}
Claimed   == {d \in Claimable : Cardinality({e \in Claimable : Before(e, d)}) < Batch}
(* the row the batch loop is at *)
Current(w, d) == d \in DOMAIN batch[w] /\ \A e \in DOMAIN batch[w] : e = d \/ Before(d, e)
Without(w, d) == [batch EXCEPT ![w] = [e \in DOMAIN batch[w] \ {d} |-> batch[w][e]]]
(* the loop takes the next row, or polls again *)
Proceed(w, d) == /\ batch' = Without(w, d)
                 /\ phase' = [phase EXCEPT ![w] =
                      IF DOMAIN batch[w] = {d} THEN "polling" ELSE "sending"]
Fault == faults < MaxFaults /\ faults' = faults + 1

(* the rows and the clock *)
Publish(d) ==
  /\ status[d] = "none"
  /\ status' = [status EXCEPT ![d] = "pending"]
  /\ due' = due \cup {d}
  /\ UNCHANGED <<attempts, got, process, faults, requests>>

Elapse(d) ==
  /\ status[d] = "retry" /\ d \notin due
  /\ due' = due \cup {d}
  /\ UNCHANGED <<status, attempts, got, process, faults, requests>>

Replay(d) ==
  /\ status[d] = "dead" /\ requests < MaxRequests
  /\ status' = [status EXCEPT ![d] = "pending"]
  /\ attempts' = [attempts EXCEPT ![d] = 0]
  /\ due' = due \cup {d}
  /\ requests' = requests + 1
  /\ UNCHANGED <<got, process, faults>>

(* Seeded fault: a second worker goes on without the lock. *)
StartUnlocked(w) ==
  /\ phase[w] = "off"
  /\ holder' = w
  /\ phase' = [phase EXCEPT ![w] = "recovering"]
  /\ UNCHANGED <<rows, got, batch, stopping, faults, requests>>

(* a worker that finds the lock taken exits and changes nothing *)
Start(w) ==
  /\ phase[w] = "off" /\ holder = NoWorker
  /\ holder' = w
  /\ phase' = [phase EXCEPT ![w] = "recovering"]
  /\ UNCHANGED <<rows, got, batch, stopping, faults, requests>>

(* Seeded faults: the new worker hands out nothing, or dead rows too. *)
RecoverNothing(w) ==
  /\ phase[w] = "recovering"
  /\ phase' = [phase EXCEPT ![w] = "polling"]
  /\ UNCHANGED <<rows, got, holder, batch, stopping, faults, requests>>

RecoverDead(w) ==
  /\ phase[w] = "recovering"
  /\ status' = [d \in Delivery |->
       IF status[d] \in {"processing", "dead"} THEN "retry" ELSE status[d]]
  /\ phase' = [phase EXCEPT ![w] = "polling"]
  /\ UNCHANGED <<attempts, due, got, holder, batch, stopping, faults, requests>>

Recover(w) ==
  /\ phase[w] = "recovering"
  /\ status' = [d \in Delivery |-> IF status[d] = "processing" THEN "retry" ELSE status[d]]
  /\ phase' = [phase EXCEPT ![w] = "polling"]
  /\ UNCHANGED <<attempts, due, got, holder, batch, stopping, faults, requests>>

Claim(w) ==
  /\ phase[w] = "polling" /\ w \notin stopping
  /\ Claimed # {}
  /\ status' = [d \in Delivery |-> IF d \in Claimed THEN "processing" ELSE status[d]]
  /\ batch' = [batch EXCEPT ![w] = [d \in Claimed |-> attempts[d]]]
  /\ phase' = [phase EXCEPT ![w] = "sending"]
  /\ UNCHANGED <<attempts, due, got, holder, stopping, faults, requests>>

(* result.success *)
SendTaken(w, d) ==
  /\ phase[w] = "sending" /\ Current(w, d)
  /\ got' = [got EXCEPT ![d] = @ + 1]
  /\ phase' = [phase EXCEPT ![w] = "completing"]
  /\ UNCHANGED <<rows, holder, batch, stopping, faults, requests>>

(* the channel refuses the message, or send raises *)
SendRefused(w, d) ==
  /\ phase[w] = "sending" /\ Current(w, d)
  /\ \E p \in {"failing", "excepting"} : phase' = [phase EXCEPT ![w] = p]
  /\ UNCHANGED <<rows, got, holder, batch, stopping, faults, requests>>

(* the message arrives, the answer does not *)
SendMisreported(w, d) ==
  /\ phase[w] = "sending" /\ Current(w, d)
  /\ Fault
  /\ got' = [got EXCEPT ![d] = @ + 1]
  /\ \E p \in {"failing", "excepting"} : phase' = [phase EXCEPT ![w] = p]
  /\ UNCHANGED <<rows, holder, batch, stopping, requests>>

Complete(w, d) ==
  /\ phase[w] = "completing" /\ Current(w, d)
  /\ status' = [status EXCEPT ![d] = "delivered"]
  /\ Proceed(w, d)
  /\ UNCHANGED <<attempts, due, got, holder, stopping, faults, requests>>

(* Seeded fault: one attempt too many. *)
FailOffByOne(w, d) ==
  /\ phase[w] \in {"failing", "excepting"} /\ Current(w, d)
  /\ LET n == batch[w][d] + 1 IN
       /\ attempts' = [attempts EXCEPT ![d] = n]
       /\ status' = [status EXCEPT ![d] = IF n > MaxAttempts THEN "dead" ELSE "retry"]
  /\ due' = due \ {d}
  /\ Proceed(w, d)
  /\ UNCHANGED <<got, holder, stopping, faults, requests>>

(* store.fail counts on from the attempts that claim_due read *)
Fail(w, d) ==
  /\ phase[w] \in {"failing", "excepting"} /\ Current(w, d)
  /\ LET n == batch[w][d] + 1 IN
       /\ attempts' = [attempts EXCEPT ![d] = n]
       /\ status' = [status EXCEPT ![d] = IF n >= MaxAttempts THEN "dead" ELSE "retry"]
  /\ due' = due \ {d}
  /\ Proceed(w, d)
  /\ UNCHANGED <<got, holder, stopping, faults, requests>>

(* a transaction raises: inside the try the row is failed instead, outside *)
(* it the worker leaves its loop with the rest of the batch in processing  *)
StoreRaises(w) ==
  /\ Fault
  /\ \/ /\ phase[w] \in {"completing", "failing"}
        /\ phase' = [phase EXCEPT ![w] = "excepting"]
     \/ /\ phase[w] \in {"polling", "excepting"}
        /\ phase' = [phase EXCEPT ![w] = "closing"]
  /\ UNCHANGED <<rows, got, holder, batch, stopping, requests>>

(* SIGTERM only clears RUNNING: the batch in hand is sent to its end *)
Terminate(w) ==
  /\ phase[w] \notin {"off", "closing"} /\ w \notin stopping
  /\ requests < MaxRequests
  /\ stopping' = stopping \cup {w}
  /\ requests' = requests + 1
  /\ UNCHANGED <<rows, got, holder, phase, batch, faults>>

LeaveLoop(w) ==
  /\ phase[w] = "polling" /\ w \in stopping
  /\ phase' = [phase EXCEPT ![w] = "closing"]
  /\ UNCHANGED <<rows, got, holder, batch, stopping, faults, requests>>

Exit(w) ==
  /\ phase' = [phase EXCEPT ![w] = "off"]
  /\ batch' = [batch EXCEPT ![w] = NoBatch]
  /\ stopping' = stopping \ {w}
  /\ holder' = NoWorker

Close(w) ==
  /\ phase[w] = "closing"
  /\ Exit(w)
  /\ UNCHANGED <<rows, got, faults, requests>>

(* the process dies, or raises before its loop; the kernel drops the lock *)
Crash(w) ==
  /\ phase[w] # "off"
  /\ Fault
  /\ Exit(w)
  /\ UNCHANGED <<rows, got, requests>>

Handle(w, d) == \/ SendTaken(w, d) \/ SendRefused(w, d) \/ SendMisreported(w, d)
                \/ Complete(w, d) \/ Fail(w, d)

QueueNext ==
  \/ \E d \in Delivery : Publish(d) \/ Elapse(d) \/ Replay(d)
  \/ \E w \in Worker :
       \/ Start(w) \/ Recover(w) \/ Claim(w) \/ StoreRaises(w)
       \/ Terminate(w) \/ LeaveLoop(w) \/ Close(w) \/ Crash(w)
       \/ \E d \in Delivery : Handle(w, d)

QueueSpec == QueueInit /\ [][QueueNext]_queueVars

(* The supervisor starts a worker again within ten seconds, channels answer *)
(* within their timeouts, and a retry falls due after an hour at most.      *)
QueueFairness ==
  /\ \A d \in Delivery : WF_queueVars(Elapse(d))
  /\ WF_queueVars(\E w \in Worker : Start(w))
  /\ \A w \in Worker :
       /\ WF_queueVars(Recover(w)) /\ WF_queueVars(Claim(w))
       /\ WF_queueVars(LeaveLoop(w)) /\ WF_queueVars(Close(w))
       /\ WF_queueVars(\E d \in Delivery : Handle(w, d))
QueueFairSpec == QueueSpec /\ QueueFairness

-----------------------------------------------------------------------------
Batches == UNION {[D -> 0 .. MaxAttempts] : D \in SUBSET Delivery}

(* Every variable keeps its type; in particular a row is never failed more  *)
(* often than fail() allows, whatever attempts a replay leaves behind.      *)
QueueTypeOK ==
  /\ status \in [Delivery -> Status]
  /\ attempts \in [Delivery -> 0 .. MaxAttempts]
  /\ due \in SUBSET Delivery
  /\ got \in [Delivery -> Nat]
  /\ holder \in Worker \cup {NoWorker}
  /\ phase \in [Worker -> Phase]
  /\ batch \in [Worker -> Batches]
  /\ stopping \in SUBSET Worker
  /\ faults \in 0 .. MaxFaults
  /\ requests \in 0 .. MaxRequests

(* While a worker runs its loop, a row in processing is a row of its batch, *)
(* so nothing waits for a restart that may be weeks away (claim_due skips   *)
(* processing rows), and its copy of attempts is what the row says, so no   *)
(* failure is forgotten by fail() (store.py, fail takes the claimed value). *)
InHand ==
  /\ \A d \in Delivery : status[d] = "processing" =>
       \/ holder = NoWorker
       \/ phase[holder] \in {"recovering", "closing"}
       \/ d \in DOMAIN batch[holder]
  /\ \A w \in Worker : \A d \in DOMAIN batch[w] :
       status[d] = "processing" /\ attempts[d] = batch[w][d]

(* The recipient is told twice only after a crash, a failed transaction or  *)
(* an answer that was lost: two workers never send the same row, and a      *)
(* restart never hands out a row whose outcome was stored.                  *)
DuplicatesNeedFaults == \A d \in Delivery : got[d] <= 1 + faults

(* Nobody is told of a row that is not in processing, and a row leaves      *)
(* delivered never, dead only by a replay: neither the recovery at start    *)
(* nor a late fail() opens a settled row again.                             *)
SettledRowsRest ==
  [][\A d \in Delivery :
       /\ got'[d] # got[d] => status[d] = "processing"
       /\ status[d] = "delivered" => status'[d] = "delivered"
       /\ status[d] = "dead" /\ status'[d] # "dead" => requests' = requests + 1]_queueVars

(* A row is dead after MaxAttempts failures and not one earlier, and is     *)
(* tried no more than that; a delivered one reached its recipient.          *)
OutcomesEarned == \A d \in Delivery :
  /\ (status[d] = "dead") <=> (attempts[d] = MaxAttempts)
  /\ status[d] = "delivered" => got[d] > 0

Settled(d) == status[d] \in {"none", "delivered", "dead"}

(* Every published row is delivered or given up, whatever crashes, low      *)
(* priority rows included (claim_due serves high priorities first).         *)
EveryRowSettles == \A d \in Delivery : []<>Settled(d)

(* What the queue promises of each row: it is in one worker's hands at a time, *)
(* sent again only after a fault, and given up or delivered for good reason.  *)
QueueSafe == QueueTypeOK /\ InHand /\ DuplicatesNeedFaults /\ OutcomesEarned
=============================================================================
