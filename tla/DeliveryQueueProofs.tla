-------------------------- MODULE DeliveryQueueProofs -------------------------
(***************************************************************************)
(* Theorems about DeliveryQueue for every set of rows and workers, every   *)
(* batch size and number of attempts.                                      *)
(*                                                                         *)
(* The invariants of the runs are not inductive: that a row of a batch     *)
(* stays in processing rests on the file lock (LockInv), and that a        *)
(* recipient hears twice only after a fault rests on what the worker       *)
(* between send and complete owes the row (OwedInv).                       *)
(***************************************************************************)
EXTENDS DeliveryQueue, TLAPS

(* Whoever is not off holds the lock, and before its claim has no batch. *)
LockInv ==
  /\ \A w \in Worker : phase[w] # "off" => holder = w
  /\ holder # NoWorker => phase[holder] # "off"
  /\ \A w \in Worker : phase[w] \in {"off", "recovering", "polling"} => DOMAIN batch[w] = {}

(* The message of d was taken and the row says so, or will. *)
Telling(d) == \E w \in Worker : phase[w] = "completing" /\ Current(w, d)
Owed(d)    == status[d] = "delivered" \/ Telling(d)
OwedInv == \A d \in Delivery :
  /\ Owed(d) => got[d] > 0 /\ got[d] <= 1 + faults
  /\ ~Owed(d) => got[d] <= faults

IInv == QueueTypeOK /\ LockInv /\ InHand /\ OutcomesEarned /\ OwedInv

-----------------------------------------------------------------------------
(* The loop is at one row at a time. *)
LEMMA CurrentUnique ==
  ASSUME QueueTypeOK, NEW w \in Worker, NEW d \in Delivery, NEW e \in Delivery,
         Current(w, d), Current(w, e)
  PROVE  d = e
  BY QueueAssumption DEF Current, Before

(* What a batch is. *)
LEMMA BatchType ==
  ASSUME QueueTypeOK, NEW w \in Worker
  PROVE  /\ DOMAIN batch[w] \subseteq Delivery
         /\ \A d \in DOMAIN batch[w] : batch[w][d] \in 0 .. MaxAttempts
  <1>1. PICK D \in SUBSET Delivery : batch[w] \in [D -> 0 .. MaxAttempts]
    BY DEF QueueTypeOK, Batches
  <1> QED BY <1>1

(* Removing a row from a batch leaves a batch. *)
LEMMA WithoutType ==
  ASSUME QueueTypeOK, NEW w \in Worker, NEW d \in Delivery
  PROVE  Without(w, d) \in [Worker -> Batches]
  <1> DEFINE rest == [e \in DOMAIN batch[w] \ {d} |-> batch[w][e]]
  <1>1. /\ DOMAIN batch[w] \ {d} \in SUBSET Delivery
        /\ rest \in [DOMAIN batch[w] \ {d} -> 0 .. MaxAttempts]
    BY BatchType
  <1>2. rest \in Batches
    BY <1>1 DEF Batches
  <1> QED BY <1>2 DEF QueueTypeOK, Without

(* The next-state relation, action by action. *)
LEMMA StepCases ==
  ASSUME NEW P,
         \A d \in Delivery : Publish(d) \/ Elapse(d) \/ Replay(d) => P,
         \A w \in Worker : Start(w) => P,
         \A w \in Worker : Recover(w) => P,
         \A w \in Worker : Claim(w) => P,
         \A w \in Worker : StoreRaises(w) => P,
         \A w \in Worker : Terminate(w) \/ LeaveLoop(w) => P,
         \A w \in Worker : Close(w) \/ Crash(w) => P,
         \A w \in Worker, d \in Delivery : SendTaken(w, d) => P,
         \A w \in Worker, d \in Delivery : SendRefused(w, d) => P,
         \A w \in Worker, d \in Delivery : SendMisreported(w, d) => P,
         \A w \in Worker, d \in Delivery : Complete(w, d) => P,
         \A w \in Worker, d \in Delivery : Fail(w, d) => P,
         UNCHANGED queueVars => P,
         [QueueNext]_queueVars
  PROVE  P
  BY DEF QueueNext, Handle

-----------------------------------------------------------------------------
(* Every step keeps the types. *)
LEMMA TypeStep ==
  ASSUME QueueTypeOK, InHand, OutcomesEarned, [QueueNext]_queueVars
  PROVE  QueueTypeOK'
  <1> USE QueueAssumption
  <1>1. \A d \in Delivery : Publish(d) \/ Elapse(d) \/ Replay(d) => QueueTypeOK'
    <2>1. \A d \in Delivery : Publish(d) => QueueTypeOK'
      BY DEF QueueTypeOK, Publish, Status, process
    <2>2. \A d \in Delivery : Elapse(d) => QueueTypeOK'
      BY DEF QueueTypeOK, Elapse, process
    <2>3. \A d \in Delivery : Replay(d) => QueueTypeOK'
      BY DEF QueueTypeOK, Replay, Status, process
    <2> QED BY <2>1, <2>2, <2>3
  <1>2. \A w \in Worker : Start(w) => QueueTypeOK'
    BY DEF QueueTypeOK, Start, Phase, rows
  <1>3. \A w \in Worker : Recover(w) => QueueTypeOK'
    BY DEF QueueTypeOK, Recover, Phase, Status
  <1>4. \A w \in Worker : Claim(w) => QueueTypeOK'
    <2> SUFFICES ASSUME NEW w \in Worker, Claim(w) PROVE QueueTypeOK'
      OBVIOUS
    <2> DEFINE new == [d \in Claimed |-> attempts[d]]
    <2>1. Claimed \in SUBSET Delivery
      BY DEF Claimed, Claimable, QueueTypeOK
    <2>2. new \in [Claimed -> 0 .. MaxAttempts]
      BY <2>1 DEF QueueTypeOK
    <2>3. new \in Batches
      BY <2>1, <2>2 DEF Batches
    <2>4. batch' \in [Worker -> Batches]
      BY <2>3 DEF QueueTypeOK, Claim
    <2> HIDE DEF new
    <2>5. status' \in [Delivery -> Status]
      BY DEF QueueTypeOK, Claim, Status
    <2> QED BY <2>4, <2>5 DEF QueueTypeOK, Claim, Phase
  <1>5. \A w \in Worker : StoreRaises(w) => QueueTypeOK'
    BY DEF QueueTypeOK, StoreRaises, Fault, Phase, rows
  <1>6. \A w \in Worker : Terminate(w) \/ LeaveLoop(w) => QueueTypeOK'
    <2>1. \A w \in Worker : Terminate(w) => QueueTypeOK'
      BY DEF QueueTypeOK, Terminate, rows
    <2>2. \A w \in Worker : LeaveLoop(w) => QueueTypeOK'
      BY DEF QueueTypeOK, LeaveLoop, Phase, rows
    <2> QED BY <2>1, <2>2
  <1>7. \A w \in Worker : Close(w) \/ Crash(w) => QueueTypeOK'
    <2> SUFFICES ASSUME NEW w \in Worker, Close(w) \/ Crash(w) PROVE QueueTypeOK'
      OBVIOUS
    <2>1. NoBatch \in [{} -> 0 .. MaxAttempts]
      BY DEF NoBatch
    <2>2. NoBatch \in Batches
      BY <2>1 DEF Batches
    <2>3. batch' \in [Worker -> Batches]
      BY <2>2 DEF QueueTypeOK, Close, Crash, Exit
    <2>4. /\ phase' \in [Worker -> Phase] /\ stopping' \in SUBSET Worker
          /\ holder' \in Worker \cup {NoWorker}
      BY DEF QueueTypeOK, Close, Crash, Exit, Phase
    <2>5. faults' \in 0 .. MaxFaults
      BY DEF QueueTypeOK, Close, Crash, Fault
    <2> QED BY <2>3, <2>4, <2>5 DEF QueueTypeOK, Close, Crash, rows
  <1>8. \A w \in Worker, d \in Delivery : SendTaken(w, d) => QueueTypeOK'
    BY DEF QueueTypeOK, SendTaken, Phase, rows
  <1>9. \A w \in Worker, d \in Delivery : SendRefused(w, d) => QueueTypeOK'
    BY DEF QueueTypeOK, SendRefused, Phase, rows
  <1>10. \A w \in Worker, d \in Delivery : SendMisreported(w, d) => QueueTypeOK'
    BY DEF QueueTypeOK, SendMisreported, Fault, Phase, rows
  <1>11. \A w \in Worker, d \in Delivery : Complete(w, d) => QueueTypeOK'
    BY WithoutType DEF QueueTypeOK, Complete, Proceed, Phase, Status
  <1>12. \A w \in Worker, d \in Delivery : Fail(w, d) => QueueTypeOK'
    <2> SUFFICES ASSUME NEW w \in Worker, NEW d \in Delivery, Fail(w, d) PROVE QueueTypeOK'
      OBVIOUS
    <2>1. batch[w][d] = attempts[d] /\ attempts[d] \in 0 .. MaxAttempts /\ attempts[d] # MaxAttempts
      BY DEF Fail, Current, InHand, OutcomesEarned, QueueTypeOK
    <2>2. batch[w][d] + 1 \in 0 .. MaxAttempts
      BY <2>1
    <2>3. /\ attempts' \in [Delivery -> 0 .. MaxAttempts]
          /\ status' \in [Delivery -> Status]
      BY <2>2 DEF QueueTypeOK, Fail, Status
    <2> QED BY <2>3, WithoutType DEF QueueTypeOK, Fail, Proceed, Phase
  <1>13. UNCHANGED queueVars => QueueTypeOK'
    BY DEF QueueTypeOK, queueVars, rows, process
  <1> QED BY <1>1, <1>2, <1>3, <1>4, <1>5, <1>6, <1>7, <1>8, <1>9, <1>10,
             <1>11, <1>12, <1>13, StepCases

-----------------------------------------------------------------------------
(* Every step leaves the lock with at most one worker. *)
LEMMA LockStep ==
  ASSUME QueueTypeOK, LockInv, [QueueNext]_queueVars
  PROVE  LockInv'
  <1> USE QueueAssumption
  <1>1. \A d \in Delivery : Publish(d) \/ Elapse(d) \/ Replay(d) => LockInv'
    BY DEF LockInv, Publish, Elapse, Replay, process
  <1>2. \A w \in Worker : Start(w) => LockInv'
    BY DEF QueueTypeOK, LockInv, Start
  <1>3. \A w \in Worker : Recover(w) => LockInv'
    BY DEF QueueTypeOK, LockInv, Recover
  <1>4. \A w \in Worker : Claim(w) => LockInv'
    BY DEF QueueTypeOK, LockInv, Claim
  <1>5. \A w \in Worker : StoreRaises(w) => LockInv'
    BY DEF QueueTypeOK, LockInv, StoreRaises
  <1>6. \A w \in Worker : Terminate(w) \/ LeaveLoop(w) => LockInv'
    BY DEF QueueTypeOK, LockInv, Terminate, LeaveLoop
  <1>7. \A w \in Worker : Close(w) \/ Crash(w) => LockInv'
    BY DEF QueueTypeOK, LockInv, Close, Crash, Exit, NoBatch
  <1>8. \A w \in Worker, d \in Delivery : SendTaken(w, d) => LockInv'
    BY DEF QueueTypeOK, LockInv, SendTaken
  <1>9. \A w \in Worker, d \in Delivery : SendRefused(w, d) => LockInv'
    BY DEF QueueTypeOK, LockInv, SendRefused
  <1>10. \A w \in Worker, d \in Delivery : SendMisreported(w, d) => LockInv'
    BY DEF QueueTypeOK, LockInv, SendMisreported
  <1>11. \A w \in Worker, d \in Delivery : Complete(w, d) => LockInv'
    BY DEF QueueTypeOK, LockInv, Complete, Proceed, Without
  <1>12. \A w \in Worker, d \in Delivery : Fail(w, d) => LockInv'
    BY DEF QueueTypeOK, LockInv, Fail, Proceed, Without
  <1>13. UNCHANGED queueVars => LockInv'
    BY DEF LockInv, queueVars, process
  <1> QED BY <1>1, <1>2, <1>3, <1>4, <1>5, <1>6, <1>7, <1>8, <1>9, <1>10,
             <1>11, <1>12, <1>13, StepCases

(* Every step keeps claimed rows with the worker that claimed them. *)
LEMMA InHandStep ==
  ASSUME QueueTypeOK, LockInv, InHand, [QueueNext]_queueVars
  PROVE  InHand'
  <1> USE QueueAssumption
  <1>1. \A d \in Delivery : Publish(d) \/ Elapse(d) \/ Replay(d) => InHand'
    <2>1. \A d \in Delivery : Publish(d) => InHand'
      BY BatchType DEF QueueTypeOK, InHand, Publish, process
    <2>2. \A d \in Delivery : Elapse(d) => InHand'
      BY DEF InHand, Elapse, process
    <2>3. \A d \in Delivery : Replay(d) => InHand'
      BY BatchType DEF QueueTypeOK, InHand, Replay, process
    <2> QED BY <2>1, <2>2, <2>3
  <1>2. \A w \in Worker : Start(w) => InHand'
    BY DEF QueueTypeOK, InHand, Start, rows
  <1>3. \A w \in Worker : Recover(w) => InHand'
    BY DEF QueueTypeOK, LockInv, InHand, Recover
  <1>4. \A w \in Worker : Claim(w) => InHand'
    <2> SUFFICES ASSUME NEW w \in Worker, Claim(w) PROVE InHand'
      OBVIOUS
    <2>1. holder = w /\ \A v \in Worker : DOMAIN batch[v] = {}
      BY DEF LockInv, Claim
    <2>2. Claimed \subseteq Delivery
      BY DEF Claimed, Claimable, QueueTypeOK
    <2>3. \A d \in Delivery : status[d] # "processing"
      BY <2>1 DEF InHand, Claim
    <2>4. batch'[w] = [d \in Claimed |-> attempts[d]] /\ \A v \in Worker \ {w} : batch'[v] = batch[v]
      BY DEF Claim, QueueTypeOK
    <2>5. \A d \in Delivery : status'[d] = IF d \in Claimed THEN "processing" ELSE status[d]
      BY DEF Claim
    <2>6. \A d \in Delivery : status'[d] = "processing" => d \in DOMAIN batch'[w]
      BY <2>3, <2>4, <2>5
    <2>7. \A v \in Worker : \A d \in DOMAIN batch'[v] :
            status'[d] = "processing" /\ attempts'[d] = batch'[v][d]
      <3> SUFFICES ASSUME NEW v \in Worker, NEW d \in DOMAIN batch'[v]
                   PROVE  status'[d] = "processing" /\ attempts'[d] = batch'[v][d]
        OBVIOUS
      <3>1. v = w
        BY <2>1, <2>4
      <3> QED BY <3>1, <2>2, <2>4, <2>5 DEF Claim
    <2> QED BY <2>1, <2>6, <2>7 DEF InHand, Claim
  <1>5. \A w \in Worker : StoreRaises(w) => InHand'
    BY DEF QueueTypeOK, LockInv, InHand, StoreRaises, rows
  <1>6. \A w \in Worker : Terminate(w) \/ LeaveLoop(w) => InHand'
    BY DEF QueueTypeOK, LockInv, InHand, Terminate, LeaveLoop, rows
  <1>7. \A w \in Worker : Close(w) \/ Crash(w) => InHand'
    BY DEF QueueTypeOK, LockInv, InHand, Close, Crash, Exit, NoBatch, rows
  <1>8. \A w \in Worker, d \in Delivery : SendTaken(w, d) => InHand'
    BY DEF QueueTypeOK, LockInv, InHand, SendTaken, rows
  <1>9. \A w \in Worker, d \in Delivery : SendRefused(w, d) => InHand'
    BY DEF QueueTypeOK, LockInv, InHand, SendRefused, rows
  <1>10. \A w \in Worker, d \in Delivery : SendMisreported(w, d) => InHand'
    BY DEF QueueTypeOK, LockInv, InHand, SendMisreported, rows
  <1>11. \A w \in Worker, d \in Delivery : Complete(w, d) \/ Fail(w, d) => InHand'
    <2> SUFFICES ASSUME NEW w \in Worker, NEW d \in Delivery, Complete(w, d) \/ Fail(w, d)
                 PROVE  InHand'
      OBVIOUS
    <2>1. holder = w /\ holder' = w
      BY DEF LockInv, Complete, Fail
    <2>2. /\ batch'[w] = [e \in DOMAIN batch[w] \ {d} |-> batch[w][e]]
          /\ \A v \in Worker \ {w} : batch'[v] = batch[v] /\ DOMAIN batch[v] = {}
      BY <2>1 DEF Complete, Fail, Proceed, Without, QueueTypeOK, LockInv
    <2>3. \A e \in Delivery \ {d} : status'[e] = status[e] /\ attempts'[e] = attempts[e]
      BY DEF Complete, Fail, QueueTypeOK
    <2>4. status'[d] # "processing"
      BY DEF Complete, Fail, QueueTypeOK
    <2>5. DOMAIN batch[w] \subseteq Delivery
      BY BatchType
    <2>6. phase[w] \in InBatch /\ phase'[w] \in {"polling", "sending"}
      BY DEF Complete, Fail, Proceed, QueueTypeOK, InBatch
    <2>7. \A e \in Delivery : status'[e] = "processing" => e \in DOMAIN batch'[w]
      <3> SUFFICES ASSUME NEW e \in Delivery, status'[e] = "processing" PROVE e \in DOMAIN batch'[w]
        OBVIOUS
      <3>1. e # d /\ status[e] = "processing"
        BY <2>3, <2>4
      <3>2. e \in DOMAIN batch[w]
        BY <3>1, <2>1, <2>6 DEF InHand, InBatch
      <3> QED BY <3>1, <3>2, <2>2
    <2>8. \A v \in Worker : \A e \in DOMAIN batch'[v] :
            status'[e] = "processing" /\ attempts'[e] = batch'[v][e]
      <3> SUFFICES ASSUME NEW v \in Worker, NEW e \in DOMAIN batch'[v]
                   PROVE  status'[e] = "processing" /\ attempts'[e] = batch'[v][e]
        OBVIOUS
      <3>1. v = w /\ e \in DOMAIN batch[w] /\ e # d /\ batch'[v][e] = batch[w][e]
        BY <2>2
      <3> QED BY <3>1, <2>3, <2>5 DEF InHand
    <2> QED BY <2>1, <2>7, <2>8 DEF InHand
  <1>12. UNCHANGED queueVars => InHand'
    BY DEF InHand, queueVars, rows, process
  <1> QED BY <1>1, <1>2, <1>3, <1>4, <1>5, <1>6, <1>7, <1>8, <1>9, <1>10,
             <1>11, <1>12, StepCases

(* What the worker owes the row it is sending. *)
LEMMA EarnedStep ==
  ASSUME QueueTypeOK, LockInv, InHand, OutcomesEarned, OwedInv, [QueueNext]_queueVars
  PROVE  OutcomesEarned'
  <1> USE QueueAssumption
  <1>1. \A d \in Delivery : Publish(d) \/ Elapse(d) \/ Replay(d) => OutcomesEarned'
    <2>1. \A d \in Delivery : Publish(d) => OutcomesEarned'
      BY DEF QueueTypeOK, OutcomesEarned, Publish
    <2>2. \A d \in Delivery : Elapse(d) => OutcomesEarned'
      BY DEF OutcomesEarned, Elapse
    <2>3. \A d \in Delivery : Replay(d) => OutcomesEarned'
      BY DEF QueueTypeOK, OutcomesEarned, Replay
    <2> QED BY <2>1, <2>2, <2>3
  <1>2. \A w \in Worker : Start(w) => OutcomesEarned'
    BY DEF OutcomesEarned, Start, rows
  <1>3. \A w \in Worker : Recover(w) => OutcomesEarned'
    BY DEF QueueTypeOK, OutcomesEarned, Recover
  <1>4. \A w \in Worker : Claim(w) => OutcomesEarned'
    BY DEF QueueTypeOK, OutcomesEarned, Claim, Claimed, Claimable
  <1>5. \A w \in Worker : StoreRaises(w) => OutcomesEarned'
    BY DEF OutcomesEarned, StoreRaises, rows
  <1>6. \A w \in Worker : Terminate(w) \/ LeaveLoop(w) => OutcomesEarned'
    BY DEF OutcomesEarned, Terminate, LeaveLoop, rows
  <1>7. \A w \in Worker : Close(w) \/ Crash(w) => OutcomesEarned'
    BY DEF OutcomesEarned, Close, Crash, rows
  <1>8. \A w \in Worker, d \in Delivery : SendTaken(w, d) => OutcomesEarned'
    BY DEF QueueTypeOK, OutcomesEarned, SendTaken, rows
  <1>9. \A w \in Worker, d \in Delivery : SendRefused(w, d) => OutcomesEarned'
    BY DEF OutcomesEarned, SendRefused, rows
  <1>10. \A w \in Worker, d \in Delivery : SendMisreported(w, d) => OutcomesEarned'
    BY DEF QueueTypeOK, OutcomesEarned, SendMisreported, rows
  <1>11. \A w \in Worker, d \in Delivery : Complete(w, d) => OutcomesEarned'
    <2> SUFFICES ASSUME NEW w \in Worker, NEW d \in Delivery, Complete(w, d)
                 PROVE  OutcomesEarned'
      OBVIOUS
    <2>1. Owed(d)
      BY DEF Owed, Telling, Complete
    <2>2. got[d] > 0
      BY <2>1 DEF OwedInv
    <2>3. status[d] = "processing"
      BY DEF Complete, Current, InHand
    <2> QED BY <2>2, <2>3 DEF QueueTypeOK, OutcomesEarned, Complete
  <1>12. \A w \in Worker, d \in Delivery : Fail(w, d) => OutcomesEarned'
    <2> SUFFICES ASSUME NEW w \in Worker, NEW d \in Delivery, Fail(w, d)
                 PROVE  OutcomesEarned'
      OBVIOUS
    <2>1. batch[w][d] = attempts[d] /\ status[d] = "processing"
      BY DEF Fail, Current, InHand
    <2>2. attempts[d] \in 0 .. MaxAttempts /\ attempts[d] # MaxAttempts
      BY <2>1 DEF QueueTypeOK, OutcomesEarned
    <2>3. /\ attempts'[d] = attempts[d] + 1
          /\ status'[d] = IF attempts[d] + 1 >= MaxAttempts THEN "dead" ELSE "retry"
      BY <2>1 DEF Fail, QueueTypeOK
    <2>4. \A e \in Delivery \ {d} : attempts'[e] = attempts[e] /\ status'[e] = status[e]
      BY DEF Fail, QueueTypeOK
    <2> QED BY <2>2, <2>3, <2>4 DEF OutcomesEarned, Fail
  <1>13. UNCHANGED queueVars => OutcomesEarned'
    BY DEF OutcomesEarned, queueVars, rows
  <1> QED BY <1>1, <1>2, <1>3, <1>4, <1>5, <1>6, <1>7, <1>8, <1>9, <1>10,
             <1>11, <1>12, <1>13, StepCases

-----------------------------------------------------------------------------
(* OwedInv survives a step that owes no row more, unless a fault pays for   *)
(* the difference, and sends nothing.                                       *)
LEMMA OwedKept ==
  ASSUME QueueTypeOK, QueueTypeOK', OwedInv, got' = got,
         \/ faults' = faults /\ \A d \in Delivery : Owed(d)' <=> Owed(d)
         \/ faults' = faults + 1 /\ \A d \in Delivery : Owed(d)' => Owed(d)
  PROVE  OwedInv'
  <1>1. faults \in Nat /\ \A d \in Delivery : got[d] \in Nat
    BY QueueAssumption DEF QueueTypeOK
  <1> QED BY <1>1 DEF OwedInv

(* Every step keeps the account of what a recipient was told. *)
LEMMA OwedStep ==
  ASSUME QueueTypeOK, LockInv, InHand, OwedInv, QueueTypeOK', InHand', LockInv', [QueueNext]_queueVars
  PROVE  OwedInv'
  <1> USE QueueAssumption
  <1>1. \A d \in Delivery : Publish(d) \/ Elapse(d) \/ Replay(d) => OwedInv'
    <2> SUFFICES ASSUME NEW d \in Delivery, Publish(d) \/ Elapse(d) \/ Replay(d)
                 PROVE  OwedInv'
      OBVIOUS
    <2>1. \A e \in Delivery : status'[e] = "delivered" <=> status[e] = "delivered"
      BY DEF Publish, Elapse, Replay, QueueTypeOK
    <2>2. \A e \in Delivery : Telling(e)' <=> Telling(e)
      BY DEF Telling, Current, Publish, Elapse, Replay, process
    <2> QED BY <2>1, <2>2, OwedKept DEF Owed, Publish, Elapse, Replay
  <1>2. \A w \in Worker : Start(w) \/ Recover(w) \/ Claim(w) => OwedInv'
    <2> SUFFICES ASSUME NEW w \in Worker, Start(w) \/ Recover(w) \/ Claim(w)
                 PROVE  OwedInv'
      OBVIOUS
    <2>1. \A e \in Delivery : status'[e] = "delivered" <=> status[e] = "delivered"
      BY DEF Start, Recover, Claim, Claimed, Claimable, QueueTypeOK, rows
    <2>2. \A v \in Worker : phase[v] # "completing"
      BY DEF LockInv, Start, Recover, Claim, QueueTypeOK
    <2>3. \A v \in Worker : phase'[v] # "completing"
      BY <2>2 DEF Start, Recover, Claim, QueueTypeOK
    <2> QED BY <2>1, <2>2, <2>3, OwedKept DEF Owed, Telling, Start, Recover, Claim
  <1>3. \A w \in Worker : StoreRaises(w) \/ Crash(w) => OwedInv'
    <2> SUFFICES ASSUME NEW w \in Worker, StoreRaises(w) \/ Crash(w)
                 PROVE  OwedInv'
      OBVIOUS
    <2>1. \A e \in Delivery : status'[e] = status[e]
      BY DEF StoreRaises, Crash, rows
    <2>2. \A v \in Worker : phase'[v] = "completing" => phase[v] = "completing" /\ batch'[v] = batch[v]
      BY DEF StoreRaises, Crash, Exit, QueueTypeOK
    <2>3. \A e \in Delivery : Telling(e)' => Telling(e)
      BY <2>2 DEF Telling, Current
    <2> QED BY <2>1, <2>3, OwedKept DEF Owed, StoreRaises, Crash, Fault
  <1>4. \A w \in Worker : Terminate(w) \/ LeaveLoop(w) \/ Close(w) => OwedInv'
    <2> SUFFICES ASSUME NEW w \in Worker, Terminate(w) \/ LeaveLoop(w) \/ Close(w)
                 PROVE  OwedInv'
      OBVIOUS
    <2>1. \A e \in Delivery : status'[e] = status[e]
      BY DEF Terminate, LeaveLoop, Close, rows
    <2>2. \A v \in Worker : /\ (phase'[v] = "completing") <=> (phase[v] = "completing")
                            /\ phase[v] = "completing" => batch'[v] = batch[v]
      BY DEF Terminate, LeaveLoop, Close, Exit, QueueTypeOK
    <2>3. \A v \in Worker, e \in Delivery :
            (phase[v] = "completing" /\ Current(v, e))' <=> (phase[v] = "completing" /\ Current(v, e))
      BY <2>2 DEF Current
    <2>4. \A e \in Delivery : Telling(e)' <=> Telling(e)
      BY <2>3 DEF Telling
    <2> QED BY <2>1, <2>4, OwedKept DEF Owed, Terminate, LeaveLoop, Close
  <1>5. \A w \in Worker, d \in Delivery : SendTaken(w, d) => OwedInv'
    <2> SUFFICES ASSUME NEW w \in Worker, NEW d \in Delivery, SendTaken(w, d)
                 PROVE  OwedInv'
      OBVIOUS
    <2>1. \A v \in Worker : phase[v] # "completing"
      BY DEF LockInv, SendTaken, QueueTypeOK
    <2>2. status[d] = "processing"
      BY DEF SendTaken, Current, InHand
    <2>3. ~Owed(d) /\ got[d] <= faults
      BY <2>1, <2>2 DEF Owed, Telling, OwedInv
    <2>4. got'[d] = got[d] + 1 /\ got[d] \in Nat
      BY DEF SendTaken, QueueTypeOK
    <2>7. faults' = faults /\ faults \in Nat
      BY DEF SendTaken, QueueTypeOK
    <2>5. Owed(d)'
      BY DEF Owed, Telling, SendTaken, Current, QueueTypeOK
    <2>6. ASSUME NEW e \in Delivery, e # d
          PROVE  got'[e] = got[e] /\ (Owed(e)' <=> Owed(e))
      <3>1. got'[e] = got[e] /\ status'[e] = status[e]
        BY <2>6 DEF SendTaken, QueueTypeOK, rows
      <3>2. \A v \in Worker : phase'[v] = "completing" => v = w
        BY <2>1 DEF SendTaken, QueueTypeOK
      <3>3. ~Current(w, e)' /\ ~Telling(e)
        BY <2>6, <2>1, CurrentUnique DEF SendTaken, Current, Telling
      <3> QED BY <3>1, <3>2, <3>3 DEF Owed, Telling
    <2> QED BY <2>3, <2>4, <2>7, <2>5, <2>6 DEF OwedInv
  <1>6. \A w \in Worker, d \in Delivery : SendRefused(w, d) => OwedInv'
    <2> SUFFICES ASSUME NEW w \in Worker, NEW d \in Delivery, SendRefused(w, d)
                 PROVE  OwedInv'
      OBVIOUS
    <2>1. \A v \in Worker : phase[v] # "completing" /\ phase'[v] # "completing"
      BY DEF LockInv, SendRefused, QueueTypeOK
    <2> QED BY <2>1, OwedKept DEF Owed, Telling, SendRefused, rows
  <1>7. \A w \in Worker, d \in Delivery : SendMisreported(w, d) => OwedInv'
    <2> SUFFICES ASSUME NEW w \in Worker, NEW d \in Delivery, SendMisreported(w, d)
                 PROVE  OwedInv'
      OBVIOUS
    <2>1. \A v \in Worker : phase[v] # "completing" /\ phase'[v] # "completing"
      BY DEF LockInv, SendMisreported, QueueTypeOK
    <2>2. \A e \in Delivery : Owed(e) <=> status[e] = "delivered"
      BY <2>1 DEF Owed, Telling
    <2>3. \A e \in Delivery : Owed(e)' <=> status[e] = "delivered"
      BY <2>1 DEF Owed, Telling, SendMisreported, rows
    <2>4. status[d] = "processing"
      BY DEF SendMisreported, Current, InHand
    <2>5. faults' = faults + 1 /\ faults \in Nat /\ \A e \in Delivery : got[e] \in Nat
      BY DEF SendMisreported, Fault, QueueTypeOK
    <2>6. got'[d] = got[d] + 1 /\ \A e \in Delivery \ {d} : got'[e] = got[e]
      BY DEF SendMisreported, QueueTypeOK
    <2> QED BY <2>2, <2>3, <2>4, <2>5, <2>6 DEF OwedInv
  <1>8. \A w \in Worker, d \in Delivery : Complete(w, d) => OwedInv'
    <2> SUFFICES ASSUME NEW w \in Worker, NEW d \in Delivery, Complete(w, d)
                 PROVE  OwedInv'
      OBVIOUS
    <2>1. \A v \in Worker : phase[v] = "completing" => v = w
      BY DEF LockInv, Complete, QueueTypeOK
    <2>2. \A v \in Worker : phase'[v] # "completing"
      BY <2>1 DEF Complete, Proceed, QueueTypeOK
    <2>3. \A e \in Delivery : Telling(e) <=> e = d
      BY <2>1, CurrentUnique DEF Telling, Complete
    <2>4. \A e \in Delivery : status'[e] = "delivered" <=> (e = d \/ status[e] = "delivered")
      BY DEF Complete, QueueTypeOK
    <2>5. \A e \in Delivery : Owed(e)' <=> Owed(e)
      BY <2>2, <2>3, <2>4 DEF Owed, Telling
    <2> QED BY <2>5, OwedKept DEF Complete
  <1>9. \A w \in Worker, d \in Delivery : Fail(w, d) => OwedInv'
    <2> SUFFICES ASSUME NEW w \in Worker, NEW d \in Delivery, Fail(w, d)
                 PROVE  OwedInv'
      OBVIOUS
    <2>1. \A v \in Worker : phase[v] # "completing" /\ phase'[v] # "completing"
      BY DEF LockInv, Fail, Proceed, QueueTypeOK
    <2>2. status[d] = "processing" /\ status'[d] # "delivered"
      BY DEF Fail, Current, InHand, QueueTypeOK
    <2>3. \A e \in Delivery \ {d} : status'[e] = status[e]
      BY DEF Fail, QueueTypeOK
    <2>4. \A e \in Delivery : Owed(e)' <=> Owed(e)
      BY <2>1, <2>2, <2>3 DEF Owed, Telling
    <2> QED BY <2>4, OwedKept DEF Fail
  <1>10. UNCHANGED queueVars => OwedInv'
    BY DEF OwedInv, Owed, Telling, Current, queueVars, rows, process
  <1> QED BY <1>1, <1>2, <1>3, <1>4, <1>5, <1>6, <1>7, <1>8, <1>9, <1>10, StepCases

-----------------------------------------------------------------------------
(* At first no row is claimed and nobody was told. *)
LEMMA InitIInv == QueueInit => IInv
  <1> SUFFICES ASSUME QueueInit PROVE IInv
    OBVIOUS
  <1> USE QueueAssumption
  <1>1. NoBatch \in Batches
    <2>1. NoBatch \in [{} -> 0 .. MaxAttempts]
      BY DEF NoBatch
    <2> QED BY <2>1 DEF Batches
  <1>2. QueueTypeOK
    BY <1>1 DEF QueueInit, QueueTypeOK, Status, Phase
  <1>3. LockInv /\ InHand /\ OutcomesEarned
    BY DEF QueueInit, LockInv, InHand, OutcomesEarned, NoBatch
  <1>4. OwedInv
    BY DEF QueueInit, OwedInv, Owed, Telling
  <1> QED BY <1>2, <1>3, <1>4 DEF IInv

(* Together the four are inductive. *)
LEMMA IInvStep == IInv /\ [QueueNext]_queueVars => IInv'
  <1> SUFFICES ASSUME IInv, [QueueNext]_queueVars PROVE IInv'
    OBVIOUS
  <1>1. QueueTypeOK'
    BY TypeStep DEF IInv
  <1>2. LockInv' /\ InHand'
    BY LockStep, InHandStep DEF IInv
  <1>3. OutcomesEarned'
    BY EarnedStep DEF IInv
  <1>4. OwedInv'
    BY <1>1, <1>2, OwedStep DEF IInv
  <1> QED BY <1>1, <1>2, <1>3, <1>4 DEF IInv

(* The inductive invariant holds of every queue. *)
THEOREM Invariance == QueueSpec => []IInv
  BY InitIInv, IInvStep, PTL DEF QueueSpec

(* Every variable keeps its type; no row is failed more than MaxAttempts    *)
(* times (GatewayStore.fail, replay_dead).                                  *)
THEOREM TypeCorrect == QueueSpec => []QueueTypeOK
  <1>1. IInv => QueueTypeOK
    BY DEF IInv
  <1> QED BY <1>1, Invariance, PTL

(* No row is stranded in processing while a worker runs its loop, and no    *)
(* batch is out of date (worker.run, claim_due, recover_processing).        *)
THEOREM InHandTheorem == QueueSpec => []InHand
  <1>1. IInv => InHand
    BY DEF IInv
  <1> QED BY <1>1, Invariance, PTL

(* A row is dead after exactly MaxAttempts failures, and one that is        *)
(* delivered reached its recipient.                                         *)
THEOREM OutcomesEarnedTheorem == QueueSpec => []OutcomesEarned
  <1>1. IInv => OutcomesEarned
    BY DEF IInv
  <1> QED BY <1>1, Invariance, PTL

(* The recipient hears of an event once, and once more for every crash,     *)
(* failed transaction or lost answer.                                       *)
THEOREM DuplicatesNeedFaultsTheorem == QueueSpec => []DuplicatesNeedFaults
  <1>1. IInv => DuplicatesNeedFaults
    <2> SUFFICES ASSUME IInv, NEW d \in Delivery PROVE got[d] <= 1 + faults
      BY DEF DuplicatesNeedFaults
    <2>1. got[d] \in Nat /\ faults \in Nat
      BY QueueAssumption DEF IInv, QueueTypeOK
    <2> QED BY <2>1 DEF IInv, OwedInv
  <1> QED BY <1>1, Invariance, PTL

(* A settled row is neither sent nor opened again, but by a replay. *)
THEOREM SettledRowsRestTheorem == QueueSpec => SettledRowsRest
  <1> DEFINE Rests == \A d \in Delivery :
               /\ got'[d] # got[d] => status[d] = "processing"
               /\ status[d] = "delivered" => status'[d] = "delivered"
               /\ status[d] = "dead" /\ status'[d] # "dead" => requests' = requests + 1
  <1>1. IInv /\ [QueueNext]_queueVars => Rests
    <2> SUFFICES ASSUME IInv, [QueueNext]_queueVars PROVE Rests
      OBVIOUS
    <2> USE DEF IInv
    <2>1. \A d \in Delivery : Publish(d) \/ Elapse(d) \/ Replay(d) => Rests
      BY DEF QueueTypeOK, Publish, Elapse, Replay
    <2>2. \A w \in Worker : Start(w) => Rests
      BY DEF Start, rows
    <2>3. \A w \in Worker : Recover(w) => Rests
      BY DEF QueueTypeOK, Recover
    <2>4. \A w \in Worker : Claim(w) => Rests
      BY DEF QueueTypeOK, Claim, Claimed, Claimable
    <2>5. \A w \in Worker : StoreRaises(w) => Rests
      BY DEF StoreRaises, rows
    <2>6. \A w \in Worker : Terminate(w) \/ LeaveLoop(w) => Rests
      BY DEF Terminate, LeaveLoop, rows
    <2>7. \A w \in Worker : Close(w) \/ Crash(w) => Rests
      BY DEF Close, Crash, rows
    <2>8. \A w \in Worker, d \in Delivery : SendTaken(w, d) => Rests
      BY DEF QueueTypeOK, InHand, SendTaken, Current, rows
    <2>9. \A w \in Worker, d \in Delivery : SendRefused(w, d) => Rests
      BY DEF SendRefused, rows
    <2>10. \A w \in Worker, d \in Delivery : SendMisreported(w, d) => Rests
      BY DEF QueueTypeOK, InHand, SendMisreported, Current, rows
    <2>11. \A w \in Worker, d \in Delivery : Complete(w, d) => Rests
      BY DEF QueueTypeOK, InHand, Complete, Current
    <2>12. \A w \in Worker, d \in Delivery : Fail(w, d) => Rests
      BY DEF QueueTypeOK, InHand, Fail, Current
    <2>13. UNCHANGED queueVars => Rests
      BY DEF queueVars, rows
    <2> HIDE DEF Rests
    <2> QED BY <2>1, <2>2, <2>3, <2>4, <2>5, <2>6, <2>7, <2>8, <2>9, <2>10,
               <2>11, <2>12, <2>13, StepCases
  <1> QED BY <1>1, Invariance, PTL DEF QueueSpec, SettledRowsRest

(* What a run checks of the queue as one (QueueSafe): hands, duplicates and   *)
(* outcomes of the delivery rows (store.py, worker.py).                      *)
THEOREM QueueSafeTheorem == QueueSpec => []QueueSafe
<1>1. QueueTypeOK /\ InHand /\ DuplicatesNeedFaults /\ OutcomesEarned => QueueSafe
  BY DEF QueueSafe
<1> QED BY <1>1, TypeCorrect, InHandTheorem, DuplicatesNeedFaultsTheorem, OutcomesEarnedTheorem, PTL
=============================================================================
