-------------------------- MODULE WorkerSupervision --------------------------
(* Who runs the gateway worker: each backend has a thread that starts one     *)
(* when it finds none (okxquant_gateway.supervisor), the worker that gets the *)
(* file lock goes on (worker.run), and a restore of a backup needs that lock  *)
(* with no worker about (app.restore_backup_archive).  Between a look at the   *)
(* PID file and what is done about it, everything else may move.              *)
EXTENDS FiniteSets, Naturals

CONSTANTS
  Backend, WorkerProcess,
  NoProcess,                  \* no process, no PID, or a lock that is free
  MaxLosses                \* processes that are killed
ASSUME SupervisionAssumption ==
  /\ WorkerProcess # {} /\ Backend \cap WorkerProcess = {}
  /\ NoProcess \notin Backend \cup WorkerProcess /\ MaxLosses \in Nat

VARIABLES
  doing,                 \* of each worker
  pidFile,
  workerLock, watchLock,   \* .okxquant_gateway.lock, .gateway-supervisor.lock
  guardian,                \* what each backend does
  judged, owned,           \* the PID it has read and found dead, the worker it started last
  losses
supervisionVars == <<doing, pidFile, workerLock, watchLock, guardian, judged, owned, losses>>

Alive == {w \in WorkerProcess : doing[w] # "gone"}

SupervisionInit ==
  /\ doing = [w \in WorkerProcess |-> "gone"]
  /\ pidFile \in {NoProcess, CHOOSE w \in WorkerProcess : TRUE}   \* perhaps of an earlier time
  /\ workerLock = NoProcess /\ watchLock = NoProcess
  /\ guardian = [b \in Backend |-> "off"]
  /\ judged = [b \in Backend |-> NoProcess] /\ owned = [b \in Backend |-> NoProcess]
  /\ losses = 0

-----------------------------------------------------------------------------
(* worker.run.                                                               *)
Becomes(w, what) == doing' = [doing EXCEPT ![w] = what]
UnchangedByWorker == UNCHANGED <<watchLock, guardian, judged, owned>>

(* Seeded fault: the worker goes on without the lock.                         *)
WorkerLocksNot(w) ==
  /\ doing[w] = "starting" /\ Becomes(w, "locked")
  /\ workerLock' = IF workerLock = NoProcess THEN w ELSE workerLock
  /\ UNCHANGED <<pidFile, losses>> /\ UnchangedByWorker

(* One that does not get the lock at once exits; it may be a probe that has it.*)
WorkerLocks(w) ==
  /\ doing[w] = "starting"
  /\ IF workerLock = NoProcess THEN Becomes(w, "locked") /\ workerLock' = w
     ELSE Becomes(w, "gone") /\ UNCHANGED workerLock
  /\ UNCHANGED <<pidFile, losses>> /\ UnchangedByWorker

WorkerPublishes(w) ==
  /\ doing[w] = "locked" /\ Becomes(w, "running") /\ pidFile' = w
  /\ UNCHANGED <<workerLock, losses>> /\ UnchangedByWorker

(* After SIGTERM: its jobs end, the PID file is removed if it is its own, the  *)
(* lock is given back.                                                       *)
WorkerUnlinks(w) ==
  /\ doing[w] = "stopping" /\ Becomes(w, "closing")
  /\ pidFile' = IF pidFile = w THEN NoProcess ELSE pidFile
  /\ UNCHANGED <<workerLock, losses>> /\ UnchangedByWorker

WorkerEnds(w) ==
  /\ doing[w] = "closing" /\ Becomes(w, "gone") /\ workerLock' = NoProcess
  /\ UNCHANGED <<pidFile, losses>> /\ UnchangedByWorker

WorkerKilled(w) ==
  /\ w \in Alive /\ losses < MaxLosses /\ losses' = losses + 1
  /\ Becomes(w, "gone") /\ workerLock' = IF workerLock = w THEN NoProcess ELSE workerLock
  /\ UNCHANGED pidFile /\ UnchangedByWorker

-----------------------------------------------------------------------------
(* ensure_worker, under the supervisors' own lock.                            *)
Goes(b, where) == guardian' = [guardian EXCEPT ![b] = where]
(* Seeded fault: the supervisors' lock is kept.                               *)
RestsHolding(b) == Goes(b, "rest") /\ UNCHANGED watchLock
Rests(b) == Goes(b, "rest") /\ watchLock' = NoProcess

StartSupervisor(b) ==
  /\ guardian[b] = "off" /\ Goes(b, "rest")
  /\ UNCHANGED <<doing, pidFile, workerLock, watchLock, judged, owned, losses>>

Ensure(b) ==
  /\ guardian[b] = "rest" /\ watchLock = NoProcess /\ watchLock' = b /\ Goes(b, "look")
  /\ UNCHANGED <<doing, pidFile, workerLock, judged, owned, losses>>

(* current_pid: a PID that is not of a live worker is found dead; to remove    *)
(* the file is another step.                                                 *)
ReadPid(b) ==
  /\ guardian[b] = "look"
  /\ \/ pidFile \in Alive /\ Rests(b) /\ UNCHANGED judged
     \/ pidFile = NoProcess /\ Goes(b, "probe") /\ UNCHANGED <<watchLock, judged>>
     \/ /\ pidFile \in WorkerProcess \ Alive
        /\ judged' = [judged EXCEPT ![b] = pidFile] /\ Goes(b, "unlink") /\ UNCHANGED watchLock
  /\ UNCHANGED <<doing, pidFile, workerLock, owned, losses>>

(* Whatever the file says now.                                               *)
UnlinkPid(b) ==
  /\ guardian[b] \in {"unlink", "clear"} /\ pidFile' = NoProcess
  /\ judged' = [judged EXCEPT ![b] = NoProcess]
  /\ Goes(b, IF guardian[b] = "unlink" THEN "probe" ELSE "await")
  /\ UNCHANGED <<doing, workerLock, watchLock, owned, losses>>

(* _worker_lock_held takes the lock to see whether it is free.                *)
Probe(b) ==
  /\ guardian[b] = "probe"
  /\ IF workerLock = NoProcess THEN workerLock' = b /\ Goes(b, "probing") /\ UNCHANGED watchLock
     ELSE Rests(b) /\ UNCHANGED workerLock
  /\ UNCHANGED <<doing, pidFile, judged, owned, losses>>

(* Seeded fault: the probe keeps the lock.                                    *)
EndProbeHolding(b) ==
  /\ guardian[b] = "probing" /\ Goes(b, "spawn")
  /\ UNCHANGED <<doing, pidFile, workerLock, watchLock, judged, owned, losses>>
EndProbe(b) ==
  /\ guardian[b] = "probing" /\ workerLock' = NoProcess /\ Goes(b, "spawn")
  /\ UNCHANGED <<doing, pidFile, watchLock, judged, owned, losses>>

(* A new process, with a PID that no file and nobody remembers (whichever:      *)
(* they are interchangeable); for two seconds it is waited for.                *)
Fresh == {w \in WorkerProcess \ Alive : pidFile # w /\ \A c \in Backend : w \notin {judged[c], owned[c]}}
Spawn(b) ==
  /\ guardian[b] = "spawn" /\ Fresh # {}
  /\ LET w == CHOOSE w \in Fresh : TRUE IN Becomes(w, "starting") /\ owned' = [owned EXCEPT ![b] = w]
  /\ Goes(b, "await")
  /\ UNCHANGED <<pidFile, workerLock, watchLock, judged, losses>>

(* Until a PID is seen, the process has ended or the time is over; a dead PID   *)
(* is removed as before.                                                     *)
Await(b) ==
  /\ guardian[b] = "await"
  /\ \/ Rests(b) /\ UNCHANGED judged
     \/ /\ pidFile \in WorkerProcess \ Alive
        /\ judged' = [judged EXCEPT ![b] = pidFile] /\ Goes(b, "clear") /\ UNCHANGED watchLock
  /\ UNCHANGED <<doing, pidFile, workerLock, owned, losses>>

(* stop_supervisor: SIGTERM for the worker this backend started, if it lives;  *)
(* until its handler is installed the signal ends it.                         *)
StopSupervisor(b) ==
  /\ guardian[b] = "rest" /\ Goes(b, "stop")
  /\ LET w == owned[b] IN
     IF w \in Alive
     THEN /\ Becomes(w, IF doing[w] = "running" THEN "stopping"
                        ELSE IF doing[w] \in {"stopping", "closing"} THEN doing[w] ELSE "gone")
          /\ workerLock' = IF workerLock = w /\ doing[w] = "locked" THEN NoProcess ELSE workerLock
     ELSE UNCHANGED <<doing, workerLock>>
  /\ UNCHANGED <<pidFile, watchLock, judged, owned, losses>>

(* The worker is gone, or does not end in eight seconds.                      *)
Stopped(b) ==
  /\ guardian[b] = "stop" /\ Goes(b, "off") /\ owned' = [owned EXCEPT ![b] = NoProcess]
  /\ pidFile' = IF pidFile = owned[b] /\ owned[b] \notin Alive THEN NoProcess ELSE pidFile
  /\ UNCHANGED <<doing, workerLock, watchLock, judged, losses>>

(* A backend is killed; its worker goes on.                                   *)
BackendKilled(b) ==
  /\ guardian[b] # "off" /\ losses < MaxLosses /\ losses' = losses + 1 /\ Goes(b, "off")
  /\ workerLock' = IF workerLock = b THEN NoProcess ELSE workerLock
  /\ watchLock' = IF watchLock = b THEN NoProcess ELSE watchLock
  /\ judged' = [judged EXCEPT ![b] = NoProcess] /\ owned' = [owned EXCEPT ![b] = NoProcess]
  /\ UNCHANGED <<doing, pidFile>>

-----------------------------------------------------------------------------
(* restore_backup_archive: refused while this backend supervises, a lock is    *)
(* taken, or any worker process is seen once the locks are held.               *)
(* Seeded fault: seeing no process is enough.                                 *)
LockForRestoreNot(b) ==
  /\ guardian[b] = "off" /\ Goes(b, "inspect")
  /\ UNCHANGED <<doing, pidFile, workerLock, watchLock, judged, owned, losses>>
LockForRestore(b) ==
  /\ guardian[b] = "off" /\ workerLock = NoProcess /\ workerLock' = b /\ Goes(b, "inspect")
  /\ UNCHANGED <<doing, pidFile, watchLock, judged, owned, losses>>

Inspect(b) ==
  /\ guardian[b] = "inspect"
  /\ IF Alive = {} THEN Goes(b, "restore") /\ UNCHANGED workerLock
     ELSE Goes(b, "off") /\ workerLock' = NoProcess
  /\ UNCHANGED <<doing, pidFile, watchLock, judged, owned, losses>>

Restored(b) ==
  /\ guardian[b] = "restore" /\ Goes(b, "off") /\ workerLock' = NoProcess
  /\ UNCHANGED <<doing, pidFile, watchLock, judged, owned, losses>>

ProcessStep(w) == WorkerLocks(w) \/ WorkerPublishes(w) \/ WorkerUnlinks(w) \/ WorkerEnds(w)
EnsureStep(b) ==
  \/ ReadPid(b) \/ UnlinkPid(b) \/ Probe(b) \/ EndProbe(b)
  \/ Spawn(b) \/ Await(b)

SupervisionNext ==
  \/ \E w \in WorkerProcess : ProcessStep(w) \/ WorkerKilled(w)
  \/ \E b \in Backend :
       \/ StartSupervisor(b) \/ Ensure(b) \/ EnsureStep(b)
       \/ StopSupervisor(b) \/ Stopped(b) \/ BackendKilled(b)
       \/ LockForRestore(b) \/ Inspect(b) \/ Restored(b)
SupervisionSpec == SupervisionInit /\ [][SupervisionNext]_supervisionVars

(* Some process goes on, some thread comes round and gets the lock some time;  *)
(* workers that start are not for ever too slow for the probe that follows.    *)
SupervisionFairness ==
  /\ WF_supervisionVars(\E w \in WorkerProcess : ProcessStep(w))
  /\ SF_supervisionVars(\E w \in WorkerProcess : workerLock = NoProcess /\ WorkerLocks(w))
  /\ SF_supervisionVars(\E b \in Backend : Ensure(b))
  /\ WF_supervisionVars(\E b \in Backend : EnsureStep(b))
  /\ WF_supervisionVars(\E b \in Backend : Stopped(b) \/ Inspect(b) \/ Restored(b))

-----------------------------------------------------------------------------
SupervisionTypeOK ==
  /\ doing \in [WorkerProcess -> {"gone", "starting", "locked", "running", "stopping", "closing"}]
  /\ pidFile \in WorkerProcess \cup {NoProcess}
  /\ workerLock \in {NoProcess} \cup WorkerProcess \cup Backend /\ watchLock \in {NoProcess} \cup Backend
  /\ guardian \in [Backend -> {"off", "rest", "look", "unlink", "probe", "probing", "spawn", "await", "clear",
                               "stop", "inspect", "restore"}]
  /\ judged \in [Backend -> {NoProcess} \cup WorkerProcess] /\ owned \in [Backend -> {NoProcess} \cup WorkerProcess]
  /\ losses \in 0 .. MaxLosses
  /\ \A b \in Backend : watchLock = b <=>
       guardian[b] \in {"look", "unlink", "probe", "probing", "spawn", "await", "clear"}

(* "Only the flock winner publishes its PID" (worker.run): a live worker that  *)
(* the PID file names has the lock, however many are started, although a       *)
(* supervisor may remove the file after another PID was written.               *)
PidOfTheWinner ==
  pidFile \in Alive => workerLock = pidFile

(* A restore replaces files only while no worker has begun to work, whatever   *)
(* the supervisor of another backend starts meanwhile.                         *)
RestoreAlone ==
  (\E b \in Backend : guardian[b] = "restore") =>
    \A w \in WorkerProcess : doing[w] \in {"gone", "starting"}

(* While some backend supervises, a worker runs some day, though probes may     *)
(* turn away a worker that starts, PIDs may be stale and processes killed,      *)
(* unless restores or backends that end come in between.                       *)
Supervised == \E b \in Backend : guardian[b] \notin {"off", "stop", "inspect", "restore"}
Disturbed == \E b \in Backend : guardian[b] \in {"stop", "inspect", "restore"}
WorkerComesBack ==
  Supervised ~> (\E w \in WorkerProcess : doing[w] = "running") \/ ~Supervised \/ Disturbed

(* One worker is known, and a restore has the data for itself.                *)
SupervisionSafe == SupervisionTypeOK /\ PidOfTheWinner /\ RestoreAlone
=============================================================================
