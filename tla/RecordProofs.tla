----------------------------- MODULE RecordProofs -----------------------------
(* The worker under its supervisors: why the PID file never names a live process *)
(* that has not the lock, and why a restore has the data for itself.            *)
EXTENDS WorkerSupervision, LedgerCycle, AlgoReader, TLAPS

Owning == {"locked", "running", "stopping", "closing"}
Holding == {"probing", "inspect", "restore"}

(* Whoever is past the worker's file lock has it: a worker from then to its end, *)
(* a backend while it probes or restores.                                     *)
LockInv ==
  /\ \A w \in WorkerProcess : doing[w] \in Owning => workerLock = w
  /\ \A b \in Backend : guardian[b] \in Holding => workerLock = b

(* A live worker the PID file names has written it and not yet removed it.      *)
PidInv == pidFile \in Alive => doing[pidFile] \in {"running", "stopping"}

SupervisionInv == SupervisionTypeOK /\ LockInv /\ PidInv

(* At first nobody has a lock and no PID is written. *)
LEMMA SupervisionStart == SupervisionInit => SupervisionInv
<1> SUFFICES ASSUME SupervisionInit PROVE SupervisionInv
  OBVIOUS
<1> USE SupervisionAssumption DEF SupervisionAssumption, SupervisionInit
<1>1. pidFile \in WorkerProcess \cup {NoProcess}
  OBVIOUS
<1>2. SupervisionTypeOK
  BY <1>1 DEF SupervisionTypeOK
<1>3. LockInv /\ PidInv
  BY DEF LockInv, PidInv, Alive, Owning, Holding
<1> QED
  BY <1>2, <1>3 DEF SupervisionInv

(* The steps of one worker process.                                           *)
LEMMA WorkerKeepsInv ==
  ASSUME SupervisionInv, NEW w \in WorkerProcess, ProcessStep(w) \/ WorkerKilled(w)
  PROVE  SupervisionInv'
<1> USE SupervisionAssumption DEF SupervisionAssumption, SupervisionInv, SupervisionTypeOK, LockInv, PidInv,
        Alive, Owning, Holding, Becomes, UnchangedByWorker
<1>1. CASE WorkerLocks(w)
  BY <1>1 DEF WorkerLocks
<1>2. CASE WorkerPublishes(w)
  BY <1>2 DEF WorkerPublishes
<1>3. CASE WorkerUnlinks(w)
  BY <1>3 DEF WorkerUnlinks
<1>4. CASE WorkerEnds(w)
  BY <1>4 DEF WorkerEnds
<1>5. CASE WorkerKilled(w)
  BY <1>5 DEF WorkerKilled
<1> QED
  BY <1>1, <1>2, <1>3, <1>4, <1>5 DEF ProcessStep

(* The steps of one backend: supervising, ending, restoring.                    *)
LEMMA BackendKeepsInv ==
  ASSUME SupervisionInv, NEW b \in Backend,
         \/ StartSupervisor(b) \/ Ensure(b) \/ EnsureStep(b)
         \/ StopSupervisor(b) \/ Stopped(b) \/ BackendKilled(b)
         \/ LockForRestore(b) \/ Inspect(b) \/ Restored(b)
  PROVE  SupervisionInv'
<1> USE SupervisionAssumption DEF SupervisionAssumption, SupervisionInv, SupervisionTypeOK, LockInv, PidInv,
        Alive, Owning, Holding, Goes, Rests
<1>1. CASE StartSupervisor(b) \/ Ensure(b)
  BY <1>1 DEF StartSupervisor, Ensure
<1>2. CASE ReadPid(b)
  BY <1>2 DEF ReadPid
<1>3. CASE UnlinkPid(b)
  BY <1>3 DEF UnlinkPid
<1>4. CASE Probe(b)
  BY <1>4 DEF Probe
<1>5. CASE EndProbe(b)
  BY <1>5 DEF EndProbe
<1>6. CASE Spawn(b)
  <2>1. PICK w \in Fresh : doing' = [doing EXCEPT ![w] = "starting"] /\ owned' = [owned EXCEPT ![b] = w]
    BY <1>6 DEF Spawn, Becomes
  <2>2. w \in WorkerProcess /\ doing[w] = "gone" /\ pidFile # w
    BY <2>1 DEF Fresh
  <2>3. /\ guardian[b] = "spawn" /\ guardian' = [guardian EXCEPT ![b] = "await"]
        /\ UNCHANGED <<pidFile, workerLock, watchLock, judged, losses>>
    BY <1>6 DEF Spawn
  <2>4. SupervisionTypeOK'
    BY <2>1, <2>2, <2>3
  <2>5. LockInv' /\ PidInv'
    BY <2>1, <2>2, <2>3
  <2> QED
    BY <2>4, <2>5
<1>7. CASE Await(b)
  BY <1>7 DEF Await
<1>8. CASE StopSupervisor(b)
  BY <1>8 DEF StopSupervisor, Becomes
<1>9. CASE Stopped(b)
  BY <1>9 DEF Stopped
<1>10. CASE BackendKilled(b)
  BY <1>10 DEF BackendKilled
<1>11. CASE LockForRestore(b)
  BY <1>11 DEF LockForRestore
<1>12. CASE Inspect(b)
  BY <1>12 DEF Inspect
<1>13. CASE Restored(b)
  BY <1>13 DEF Restored
<1> QED
  BY <1>1, <1>2, <1>3, <1>4, <1>5, <1>6, <1>7, <1>8, <1>9, <1>10, <1>11, <1>12, <1>13 DEF EnsureStep

(* Locks and PID file agree with the processes in every reachable state. *)
THEOREM SupervisionInvariant == SupervisionSpec => []SupervisionInv
<1>1. SupervisionInit => SupervisionInv
  BY SupervisionStart
<1>2. SupervisionInv /\ [SupervisionNext]_supervisionVars => SupervisionInv'
  <2> SUFFICES ASSUME SupervisionInv, [SupervisionNext]_supervisionVars PROVE SupervisionInv'
    OBVIOUS
  <2>1. CASE SupervisionNext
    BY <2>1, WorkerKeepsInv, BackendKeepsInv DEF SupervisionNext
  <2>2. CASE UNCHANGED supervisionVars
    BY <2>2 DEF supervisionVars, SupervisionInv, SupervisionTypeOK, LockInv, PidInv, Alive
  <2> QED
    BY <2>1, <2>2
<1> QED
  BY <1>1, <1>2, PTL DEF SupervisionSpec

(* For any number of backends, processes and kills: a live worker that the PID    *)
(* file names has the worker's lock (worker.run), and while the files of a        *)
(* backup are put back no worker is past that lock (restore_backup_archive).      *)
THEOREM SupervisionSafeTheorem == SupervisionSpec => []SupervisionSafe
<1>1. SupervisionInv => SupervisionSafe
  BY SupervisionAssumption DEF SupervisionAssumption, SupervisionInv, SupervisionSafe, SupervisionTypeOK,
     LockInv, PidInv, PidOfTheWinner, RestoreAlone, Alive, Owning, Holding
<1> QED
  BY <1>1, SupervisionInvariant, PTL
-----------------------------------------------------------------------------
(* The ledger.  Positions and requests: a close that was confirmed happened, and  *)
(* a request is no newer than the last.                                        *)
VenueInv ==
  /\ \A l \in Lifecycle : published[l] > 0 => stage[l] # "none"
  /\ \A l \in confirmed : stage[l] = "closed"
  /\ handled <= requested /\ watched <= requested
  /\ \A l \in Lifecycle : noted[l] > 0 => l \in confirmed /\ AccountOf[l] = inUse /\ noted[l] <= requested

(* What a build has read: of its account only, and the positions later than the   *)
(* history, so that a receipt or a row without an open position is of a close.    *)
ReadInv ==
  /\ builder = "nobody" <=> building = "no"
  /\ building = "telling" => builder = "task"
  /\ telling # Unset => building = "telling" /\ RowStatus(telling) = "closed" /\ ledger[telling].told = "pending"
  /\ \A l \in Lifecycle : page[l] > 0 =>
       building \in {"history", "positions"} /\ AccountOf[l] = scopeOf /\ stage[l] # "none"
  /\ \A l \in seenOpen :
       building = "positions" /\ AccountOf[l] = scopeOf /\ stage[l] # "none" /\ RowStatus(l) # "closed"
  /\ building = "positions" =>
       \A l \in Lifecycle \ seenOpen :
         AccountOf[l] = scopeOf /\ (page[l] > 0 \/ ledger[l] # NoRow) => stage[l] = "closed"

(* A row is of a position that was opened.                                      *)
RowInv == \A l \in Lifecycle : ledger[l] # NoRow => stage[l] # "none"

(* The request the monitor has read is that of the account it builds for, and     *)
(* shown once it has built.                                                    *)
WatchInv ==
  \A l \in Lifecycle : noted[l] \in 1 .. watched =>
    /\ watcher = "building" => AccountOf[l] = scopeOf
    /\ watcher = "built" => RowStatus(l) # "holding"

Sent(l) == RowStatus(l) = "closed" /\ ledger[l].told = "sent"

(* An announcement that is not recorded cost a task its life, or is being made.    *)
TellInv ==
  \A l \in Lifecycle : announced[l] <= deaths + (IF Sent(l) \/ telling = l THEN 1 ELSE 0)

LedgerInv ==
  /\ LedgerTypeOK /\ VenueInv /\ ReadInv /\ RowInv /\ ClosedWhenGone
  /\ WatchInv /\ HandledMeansShown /\ TellInv

(* At first nothing is built, asked for or announced. *)
LEMMA LedgerStart == LedgerInit => LedgerInv
<1> SUFFICES ASSUME LedgerInit PROVE LedgerInv
  OBVIOUS
<1> USE LedgerAssumption DEF LedgerAssumption, LedgerInit, NoPage, RowStatus
<1>1. LedgerTypeOK
  BY DEF LedgerTypeOK, HistoryPages, Settlement, Row
<1>2. VenueInv /\ ReadInv /\ RowInv /\ ClosedWhenGone
  BY DEF VenueInv, ReadInv, RowInv, ClosedWhenGone
<1>3. WatchInv /\ HandledMeansShown /\ TellInv
  BY DEF WatchInv, HandledMeansShown, TellInv, Sent
<1> QED
  BY <1>1, <1>2, <1>3 DEF LedgerInv

(* What a build makes of the row of a position.                                 *)
LEMMA BuiltRow ==
  ASSUME LedgerInv, building = "positions", NEW l \in Lifecycle
  PROVE  /\ Projected(l) \in {NoRow} \cup Row
         /\ Projected(l) # NoRow =>
              /\ stage[l] # "none"
              /\ Projected(l).status = "closed" <=> Projected(l).receipt > 0
              /\ Projected(l).status # "holding" => stage[l] = "closed"
              /\ l \in confirmed /\ AccountOf[l] = scopeOf => Projected(l).status # "holding"
              /\ Projected(l).status = "closed" /\ RowStatus(l) # "closed" => Projected(l).told = "pending"
         /\ RowStatus(l) = "closed" =>
              /\ Projected(l) # NoRow /\ Projected(l).status = "closed"
              /\ Projected(l).receipt >= ledger[l].receipt /\ Projected(l).told = ledger[l].told
         /\ AccountOf[l] # scopeOf => Projected(l) = ledger[l]
<1> USE LedgerAssumption DEF LedgerAssumption, LedgerInv, LedgerTypeOK, HistoryPages, Row, Settlement, RowStatus
<1>1. CASE l \in seenOpen
  <2>1. Merged(l) = [status |-> "holding", receipt |-> 0, told |-> "pending"]
    BY <1>1 DEF Merged
  <2>2. Projected(l) = IF l \in confirmed THEN [status |-> "closed_pending", receipt |-> 0, told |-> "pending"]
                       ELSE Merged(l)
    BY <1>1, <2>1 DEF Projected, Gone, ReadInv
  <2> QED
    BY <1>1, <2>1, <2>2 DEF ReadInv, VenueInv
<1>2. CASE l \notin seenOpen /\ page[l] > 0
  <2>1. Projected(l) = ClosedRow(l)
    BY <1>2 DEF Merged, Projected, ClosedRow
  <2>2. AccountOf[l] = scopeOf /\ stage[l] = "closed"
    BY <1>2 DEF ReadInv
  <2> QED
    BY <1>2, <2>1, <2>2 DEF ClosedRow
<1>3. CASE l \notin seenOpen /\ ~(page[l] > 0)
  <2>1. Merged(l) = ledger[l]
    BY <1>3 DEF Merged
  <2>2. CASE ledger[l] = NoRow \/ AccountOf[l] # scopeOf \/ ledger[l].status = "closed"
    <3>1. Projected(l) = ledger[l]
      BY <2>1, <2>2 DEF Projected, Gone
    <3> QED
      BY <1>3, <2>2, <3>1 DEF ReadInv, RowInv, ClosedWhenGone
  <2>3. CASE ledger[l] # NoRow /\ AccountOf[l] = scopeOf /\ ledger[l].status # "closed"
    <3>1. Projected(l) = [ledger[l] EXCEPT !.status = "closed_pending"]
      BY <1>3, <2>1, <2>3 DEF Projected, Gone
    <3> QED
      BY <1>3, <2>3, <3>1 DEF ReadInv, RowInv
  <2> QED
    BY <2>2, <2>3
<1> QED
  BY <1>1, <1>2, <1>3

(* The exchange, the operator and the closes of the strategies.                  *)
LEMMA OutsideKeepsInv ==
  ASSUME LedgerInv,
         \/ \E l \in Lifecycle :
              OpenPosition(l) \/ ClosePart(l) \/ EndPosition(l) \/ PublishReceipt(l) \/ NoteClose(l)
         \/ RequestRefresh \/ \E a \in Account : SwitchAccount(a)
  PROVE  LedgerInv'
<1> USE LedgerAssumption DEF LedgerAssumption, LedgerInv, LedgerTypeOK, HistoryPages, Settlement, RowStatus,
        VenueInv, ReadInv, RowInv, ClosedWhenGone, WatchInv, HandledMeansShown, TellInv, Sent,
        UnchangedOutside, venue, build, bounds
<1>1. ASSUME NEW l \in Lifecycle, OpenPosition(l) \/ EndPosition(l) PROVE LedgerInv'
  BY <1>1 DEF OpenPosition, EndPosition
<1>2. ASSUME NEW l \in Lifecycle, ClosePart(l) PROVE LedgerInv'
  BY <1>2 DEF ClosePart, PartialClose
<1>3. ASSUME NEW l \in Lifecycle, PublishReceipt(l) PROVE LedgerInv'
  BY <1>3 DEF PublishReceipt, FullClose
<1>4. ASSUME NEW l \in Lifecycle, NoteClose(l) PROVE LedgerInv'
  BY <1>4 DEF NoteClose
<1>5. CASE RequestRefresh
  BY <1>5 DEF RequestRefresh
<1>6. ASSUME NEW a \in Account, SwitchAccount(a) PROVE LedgerInv'
  BY <1>6 DEF SwitchAccount, NoPage
<1> QED
  BY <1>1, <1>2, <1>3, <1>4, <1>5, <1>6

(* A build from its lock to its end.                                           *)
LEMMA BuildKeepsInv ==
  ASSUME LedgerInv, BuildStep \/ BuildFails \/ BuilderDies
  PROVE  LedgerInv'
<1> USE LedgerAssumption DEF LedgerAssumption, LedgerInv, LedgerTypeOK, HistoryPages, Settlement, RowStatus,
        VenueInv, ReadInv, RowInv, ClosedWhenGone, WatchInv, HandledMeansShown, TellInv, Sent,
        UnchangedByBuild, venue, build, bounds
<1>1. CASE Watch
  BY <1>1 DEF Watch
<1>2. CASE WriteStatus
  BY <1>2 DEF WriteStatus
<1>3. ASSUME NEW who \in {"monitor", "task"}, TakeLock(who) PROVE LedgerInv'
  BY <1>3 DEF TakeLock
<1>4. ASSUME NEW p \in HistoryPages, ReadHistory(p) PROVE LedgerInv'
  BY <1>4 DEF ReadHistory
<1>5. CASE ReadOpen
  BY <1>5 DEF ReadOpen
<1>6. CASE WriteLedger
  <2>1. /\ building = "positions" /\ ledger' = [l \in Lifecycle |-> Projected(l)]
        /\ page' = NoPage /\ seenOpen' = {} /\ scopeOf' = Unset
        /\ UNCHANGED <<watched, handled, telling, announced, venue, inUse, confirmed, requested, noted, bounds>>
    BY <1>6 DEF WriteLedger
  <2>2. \/ builder = "task" /\ building' = "telling" /\ UNCHANGED <<builder, watcher>>
        \/ builder = "monitor" /\ building' = "no" /\ builder' = "nobody" /\ watcher' = "built"
    BY <1>6 DEF WriteLedger
  <2>3. telling = Unset
    BY <2>1
  <2>4. LedgerTypeOK'
    BY <2>1, <2>2, BuiltRow DEF NoPage
  <2>5. VenueInv' /\ ReadInv' /\ RowInv' /\ ClosedWhenGone'
    BY <2>1, <2>2, <2>3, BuiltRow DEF NoPage
  <2>6. ASSUME NEW l \in Lifecycle, noted[l] > 0, RowStatus(l) # "holding" \/ AccountOf[l] = scopeOf
        PROVE  RowStatus(l)' # "holding"
    BY <2>1, <2>6, BuiltRow
  <2>7. WatchInv' /\ HandledMeansShown'
    BY <2>1, <2>2, <2>6
  <2>8. ASSUME NEW l \in Lifecycle PROVE Sent(l)' <=> Sent(l)
    BY <2>1, BuiltRow
  <2>9. TellInv'
    BY <2>1, <2>8
  <2> QED
    BY <2>4, <2>5, <2>7, <2>9
<1>7. CASE SaveAnnounced
  BY <1>7 DEF SaveAnnounced, Row
<1>8. CASE FinishBuild \/ BuildFails
  BY <1>8 DEF FinishBuild, BuildFails, Freed, NoPage
<1>9. CASE BuilderDies
  BY <1>9 DEF BuilderDies, Freed, NoPage
<1>10. ASSUME NEW l \in Lifecycle, Announce(l) PROVE LedgerInv'
  BY <1>10 DEF Announce
<1> QED
  BY <1>1, <1>2, <1>3, <1>4, <1>5, <1>6, <1>7, <1>8, <1>9, <1>10 DEF BuildStep

(* What a build has read so far bounds what it may write, in every reachable state. *)
THEOREM LedgerInvariant == LedgerSpec => []LedgerInv
<1>1. LedgerInit => LedgerInv
  BY LedgerStart
<1>2. LedgerInv /\ [LedgerNext]_ledgerVars => LedgerInv'
  <2> SUFFICES ASSUME LedgerInv, [LedgerNext]_ledgerVars PROVE LedgerInv'
    OBVIOUS
  <2>1. CASE LedgerNext
    BY <2>1, OutsideKeepsInv, BuildKeepsInv DEF LedgerNext
  <2>2. CASE UNCHANGED ledgerVars
    BY <2>2 DEF ledgerVars, venue, build, bounds, LedgerInv, LedgerTypeOK, RowStatus, VenueInv, ReadInv, RowInv,
       ClosedWhenGone, WatchInv, HandledMeansShown, TellInv, Sent
  <2> QED
    BY <2>1, <2>2
<1> QED
  BY <1>1, <1>2, PTL DEF LedgerSpec

(* For any number of positions and accounts: a row is closed only when its        *)
(* position is (build_lifecycle_ledger), a handled request is shown               *)
(* (ledger_monitor.sync_once), and a trade is announced once, however builds      *)
(* overlap with closes, requests, changes of the account and deaths.              *)
THEOREM LedgerSafeTheorem == LedgerSpec => []LedgerSafe
<1>1. LedgerInv => LedgerSafe
  <2> SUFFICES ASSUME LedgerInv PROVE LedgerSafe
    OBVIOUS
  <2>1. AnnouncedOnce
    BY LedgerAssumption DEF LedgerAssumption, LedgerInv, TellInv, AnnouncedOnce, LedgerTypeOK
  <2> QED
    BY <2>1 DEF LedgerInv, LedgerSafe
<1> QED
  BY <1>1, LedgerInvariant, PTL

(* A delayed or overlapping page never takes a settlement back, in a build of     *)
(* whatever account.                                                           *)
THEOREM SettlementTheorem == LedgerSpec => SettlementNeverRollsBack
<1>1. LedgerInv /\ [LedgerNext]_ledgerVars =>
        [\A l \in Lifecycle : RowStatus(l) = "closed" =>
           ledger'[l] # NoRow /\ ledger'[l].status = "closed" /\ ledger'[l].receipt >= ledger[l].receipt]_ledgerVars
  <2> SUFFICES ASSUME LedgerInv, LedgerNext, NEW l \in Lifecycle, RowStatus(l) = "closed"
               PROVE  /\ ledger'[l] # NoRow /\ ledger'[l].status = "closed"
                      /\ ledger'[l].receipt >= ledger[l].receipt
    OBVIOUS
  <2> USE LedgerAssumption DEF LedgerAssumption, LedgerInv, LedgerTypeOK, RowStatus, Row, Settlement
  <2>1. CASE WriteLedger
    BY <2>1, BuiltRow DEF WriteLedger
  <2>2. CASE SaveAnnounced
    BY <2>2 DEF SaveAnnounced, ReadInv
  <2>3. CASE UNCHANGED ledger
    BY <2>3
  <2>4. WriteLedger \/ SaveAnnounced \/ UNCHANGED ledger
    BY DEF LedgerNext, OpenPosition, ClosePart, EndPosition, PublishReceipt, NoteClose, RequestRefresh,
       SwitchAccount, UnchangedOutside, BuildStep, Watch, WriteStatus, TakeLock, ReadHistory, ReadOpen,
       FinishBuild, Announce, BuildFails, BuilderDies
  <2> QED
    BY <2>1, <2>2, <2>3, <2>4
<1> QED
  BY <1>1, LedgerInvariant, PTL DEF LedgerSpec, SettlementNeverRollsBack
-----------------------------------------------------------------------------
(* The reads of protective orders.  Whoever has the gate is the one that reads; a  *)
(* snapshot is of all its pages.                                               *)
GateInv ==
  /\ \A r \in Reader : call[r].at \in Reading <=> gate = r
  /\ \A r \in Reader : call[r].at \in {"settle", "note"} => try.pages = 0
  /\ \A r \in Reader : call[r].at \in {"reserve", "wire"} => try.pages < Pages
  /\ \A r \in Reader : call[r].at \in {"compare", "accept"} => try.pages = Pages

(* Two invalidations belong to a write, and one that does not come to its write    *)
(* cost its writer's life.                                                     *)
Accounted == landed + afloat + snags
EpochInv ==
  /\ writing \in {"marked", "announced"} => landed + afloat < MaxWrites
  /\ writing \in {"idle", "marked", "invalidated"} => epoch <= Accounted + Accounted
  /\ writing = "announced" => epoch <= Accounted + Accounted + 1
  /\ writing = "sent" => epoch + 1 <= Accounted + Accounted

(* What a call is owed was carried out; a snapshot of the present epoch, kept or   *)
(* being read, has all that was told.                                          *)
FreshInv ==
  /\ told <= landed /\ \A r \in Reader : call[r].owed <= told
  /\ snapshot # NoSnapshot =>
       /\ snapshot.epoch <= epoch
       /\ snapshot.epoch = epoch => snapshot.first >= told
  /\ try.epoch <= epoch
  /\ try.pages > 0 => /\ try.epoch = epoch => try.first >= told
                      /\ \A r \in Reader : gate = r => try.first >= call[r].owed

(* What is left to wait makes up for the pause there was.                         *)
SpacingInv == nextAt + quiet >= Gap

ReaderTypes ==
  /\ landed \in 0 .. MaxWrites /\ afloat \in 0 .. MaxWrites /\ told \in 0 .. MaxWrites
  /\ landed + afloat <= MaxWrites
  /\ writing \in {"idle", "marked", "announced", "sent", "invalidated"} /\ marked \in BOOLEAN
  /\ epoch \in Nat
  /\ snapshot \in {NoSnapshot} \cup [first : 0 .. MaxWrites, epoch : Nat]
  /\ call \in [Reader -> [at : {"idle", "look", "queue"} \cup Reading, late : BOOLEAN, owed : 0 .. MaxWrites]]
  /\ gate \in Reader \cup {NoReader}
  /\ try \in [number : 0 .. MaxTries, epoch : Nat, pages : 0 .. Pages, first : 0 .. MaxWrites]
  /\ nextAt \in 0 .. Gap + 1 /\ quiet \in 0 .. Gap /\ stale \in BOOLEAN /\ snags \in 0 .. MaxSnags

ReaderInv ==
  ReaderTypes /\ GateInv /\ EpochInv /\ FreshInv /\ SpacingInv /\ NoStaleSnapshot /\ RequestsSpaced

(* The later of two times is one of them, and no earlier than either. *)
LEMMA MaxOfTwo ==
  ASSUME NEW a \in Nat, NEW b \in Nat
  PROVE  Max({a, b}) = IF a >= b THEN a ELSE b
<1> DEFINE m == IF a >= b THEN a ELSE b
<1>1. m \in {a, b} /\ \A y \in {a, b} : m >= y
  OBVIOUS
<1>2. \A x \in {a, b} : (\A y \in {a, b} : x >= y) => x = m
  OBVIOUS
<1> QED
  BY <1>1, <1>2 DEF Max

(* The earlier of two times is one of them, and no later than either. *)
LEMMA MinOfTwo ==
  ASSUME NEW a \in Nat, NEW b \in Nat
  PROVE  Min({a, b}) = IF a <= b THEN a ELSE b
<1> DEFINE m == IF a <= b THEN a ELSE b
<1>1. m \in {a, b} /\ \A y \in {a, b} : m <= y
  OBVIOUS
<1>2. \A x \in {a, b} : (\A y \in {a, b} : x <= y) => x = m
  OBVIOUS
<1> QED
  BY <1>1, <1>2 DEF Min

(* The bounds of the readers are numbers. *)
LEMMA ReaderConstants ==
  /\ RiskReader \subseteq Reader /\ NoReader \notin Reader
  /\ Pages \in Nat /\ Pages > 0 /\ MaxTries \in Nat /\ MaxTries > 0 /\ Gap \in Nat /\ Gap > 0
  /\ MaxWrites \in Nat /\ MaxSnags \in Nat
BY ReaderAssumption DEF ReaderAssumption

(* At first nothing is cached, read or owed. *)
LEMMA ReaderStart == ReaderInit => ReaderInv
<1> SUFFICES ASSUME ReaderInit PROVE ReaderInv
  OBVIOUS
<1> USE ReaderConstants DEF ReaderInit
<1>1. ReaderTypes
  <2>1. call \in [Reader -> [at : {"idle", "look", "queue"} \cup Reading, late : BOOLEAN, owed : 0 .. MaxWrites]]
    BY DEF IdleCall
  <2>2. try \in [number : 0 .. MaxTries, epoch : Nat, pages : 0 .. Pages, first : 0 .. MaxWrites]
    BY DEF NoTry
  <2>3. nextAt \in 0 .. Gap + 1
    OBVIOUS
  <2>4. quiet \in 0 .. Gap
    OBVIOUS
  <2>5. landed \in 0 .. MaxWrites /\ afloat \in 0 .. MaxWrites /\ told \in 0 .. MaxWrites /\ landed + afloat <= MaxWrites
    OBVIOUS
  <2>6. snags \in 0 .. MaxSnags /\ epoch \in Nat
    OBVIOUS
  <2>8. marked \in BOOLEAN /\ stale \in BOOLEAN
    OBVIOUS
  <2>7. writing \in {"idle", "marked", "announced", "sent", "invalidated"} /\ gate \in Reader \cup {NoReader}
        /\ snapshot \in {NoSnapshot} \cup [first : 0 .. MaxWrites, epoch : Nat]
    OBVIOUS
  <2> QED
    BY <2>1, <2>2, <2>3, <2>4, <2>5, <2>6, <2>7, <2>8 DEF ReaderTypes
<1>2. GateInv /\ EpochInv
  BY DEF GateInv, EpochInv, Accounted, IdleCall, NoTry, Reading
<1>3. FreshInv /\ SpacingInv /\ NoStaleSnapshot /\ RequestsSpaced
  BY DEF FreshInv, SpacingInv, NoStaleSnapshot, RequestsSpaced, IdleCall, NoTry
<1> QED
  BY <1>1, <1>2, <1>3 DEF ReaderInv

(* The writer's steps leave the readers alone.                                    *)
LEMMA WriterKeepsInv ==
  ASSUME ReaderInv,
         Mark \/ InvalidateBefore \/ SendWrite \/ Land \/ InvalidateAfter \/ Unmark \/ WriterDies
  PROVE  ReaderInv'
<1> USE ReaderConstants DEF ReaderInv, Mark, InvalidateBefore, SendWrite, Land, InvalidateAfter, Unmark, WriterDies,
        Snag, writes, Invalidate
<1>1. ReaderTypes'
  <2>1. landed' \in 0 .. MaxWrites /\ afloat' \in 0 .. MaxWrites /\ told' \in 0 .. MaxWrites
        /\ landed' + afloat' <= MaxWrites
    BY DEF EpochInv, ReaderTypes
  <2>2. writing' \in {"idle", "marked", "announced", "sent", "invalidated"}
    BY DEF ReaderTypes
  <2>3. marked' \in BOOLEAN
    BY DEF ReaderTypes
  <2>4. epoch' \in Nat
    BY DEF ReaderTypes
  <2>5. snags' \in 0 .. MaxSnags
    BY DEF ReaderTypes
  <2>6. snapshot' \in {NoSnapshot} \cup [first : 0 .. MaxWrites, epoch : Nat]
    BY DEF ReaderTypes
  <2>7. UNCHANGED <<call, gate, try, nextAt, quiet, stale>>
    OBVIOUS
  <2> QED
    BY <2>1, <2>2, <2>3, <2>4, <2>5, <2>6, <2>7 DEF ReaderTypes
<1>2. GateInv' /\ SpacingInv' /\ NoStaleSnapshot' /\ RequestsSpaced'
  BY DEF GateInv, SpacingInv, NoStaleSnapshot, RequestsSpaced
<1>3. EpochInv'
  BY DEF EpochInv, Accounted, ReaderTypes
<1>4. FreshInv'
  BY DEF FreshInv, ReaderTypes
<1> QED
  BY <1>1, <1>2, <1>3, <1>4

(* One more snag only widens what the epoch may lack. *)
LEMMA SnagsKeepEpochInv ==
  ASSUME ReaderTypes, EpochInv, UNCHANGED <<landed, afloat, writing, epoch>>, UNCHANGED snags \/ Snag
  PROVE  EpochInv'
BY ReaderConstants DEF ReaderTypes, EpochInv, Accounted, Snag

(* A call ends with nothing, or with a snapshot that is as new as it is owed.      *)
LEMMA ReturnKeepsInv ==
  ASSUME ReaderInv, NEW r \in Reader, NEW got, Returns(r, got),
         got = NoSnapshot \/ (got \in Nat /\ got >= call[r].owed),
         UNCHANGED <<writes, writing, marked, epoch>>, UNCHANGED snags \/ Snag,
         \/ UNCHANGED <<nextAt, quiet>>
         \/ gate = r /\ call[r].at = "wire" /\ nextAt' \in Gap .. Gap + 1 /\ quiet' = 0,
         \/ UNCHANGED snapshot
         \/ /\ snapshot' \in [first : 0 .. MaxWrites, epoch : Nat]
            /\ snapshot'.epoch <= epoch /\ (snapshot'.epoch = epoch => snapshot'.first >= told)
  PROVE  ReaderInv'
<1>e. EpochInv'
  <2>1. UNCHANGED <<landed, afloat, writing, epoch>>
    BY DEF writes
  <2> QED
    BY <2>1, SnagsKeepEpochInv DEF ReaderInv
<1> USE ReaderConstants DEF ReaderInv, ReaderTypes, Returns, Release, IdleCall, NoTry, writes, Snag
<1>1. ReaderTypes'
  BY DEF FreshInv
<1>2. GateInv'
  BY DEF GateInv, Reading
<1>3. FreshInv'
  BY DEF FreshInv
<1>4. SpacingInv' /\ RequestsSpaced'
  BY DEF SpacingInv, RequestsSpaced, GateInv, Reading
<1>5. NoStaleSnapshot'
  BY DEF NoStaleSnapshot
<1> QED
  BY <1>e, <1>1, <1>2, <1>3, <1>4, <1>5

(* What the cache serves is of the present epoch.                                *)
LEMMA CachedIsFresh ==
  ASSUME ReaderInv, NEW r \in Reader, CacheServes(r)
  PROVE  snapshot.first \in Nat /\ snapshot.first >= call[r].owed
BY ReaderConstants DEF ReaderInv, ReaderTypes, FreshInv, CacheServes

(* After a request nobody sends one for a gap at least.                           *)
LEMMA PauseIsLong ==
  ASSUME NEW pause \in {0, Gap + 1}, ReadFinished(pause)
  PROVE  nextAt' \in Gap .. Gap + 1 /\ quiet' = 0
BY ReaderConstants, MaxOfTwo DEF ReadFinished

(* A new attempt of the reader that has the gate.                                *)
LEMMA AnotherTryKeepsInv ==
  ASSUME ReaderInv, NEW r \in Reader, gate = r, TryAgain(r),
         UNCHANGED <<writes, writing, marked, epoch, snags, snapshot>>,
         \/ UNCHANGED <<nextAt, quiet>>
         \/ call[r].at = "wire" /\ nextAt' \in Gap .. Gap + 1 /\ quiet' = 0
  PROVE  ReaderInv'
<1> USE ReaderConstants DEF ReaderInv, ReaderTypes, TryAgain, Moves, NoTry, writes, Reading
<1>1. ReaderTypes' /\ GateInv' /\ EpochInv'
  BY DEF GateInv, EpochInv, Accounted
<1>2. FreshInv' /\ SpacingInv' /\ RequestsSpaced' /\ NoStaleSnapshot'
  BY DEF FreshInv, SpacingInv, RequestsSpaced, GateInv, NoStaleSnapshot
<1> QED
  BY <1>1, <1>2

(* The steps of one call.                                                       *)
LEMMA CallKeepsInv ==
  ASSUME ReaderInv, NEW r \in Reader, BeginRead(r) \/ ReadStep(r) \/ ReaderDies(r) \/ DeadlinePasses(r)
  PROVE  ReaderInv'
<1> USE ReaderConstants DEF Moves, writes, UnchangedByRead, UnchangedWire
<1>p. ASSUME Raises(r), UNCHANGED <<writes, writing, marked, epoch, snapshot>>,
             UNCHANGED snags \/ Snag,
             \/ UNCHANGED <<nextAt, quiet>>
             \/ gate = r /\ call[r].at = "wire" /\ nextAt' \in Gap .. Gap + 1 /\ quiet' = 0
      PROVE  ReaderInv'
  BY <1>p, ReturnKeepsInv DEF Raises
<1>s. ASSUME CacheServes(r), Returns(r, snapshot.first),
             UNCHANGED <<writes, writing, marked, epoch, snags, snapshot, nextAt, quiet>>
      PROVE  ReaderInv'
  BY <1>s, CachedIsFresh, ReturnKeepsInv
<1>i. ASSUME call[r].at \in Reading PROVE gate = r
  BY <1>i DEF ReaderInv, GateInv
<1>1. CASE BeginRead(r)
  <2>1. ReaderTypes'
    BY <1>1 DEF BeginRead, IdleCall, ReaderInv, ReaderTypes
  <2>2. GateInv' /\ EpochInv'
    BY <1>1 DEF BeginRead, IdleCall, ReaderInv, ReaderTypes, GateInv, EpochInv, Accounted, Reading
  <2>3. FreshInv'
    BY <1>1 DEF BeginRead, IdleCall, ReaderInv, ReaderTypes, FreshInv, GateInv, Reading
  <2>4. SpacingInv' /\ NoStaleSnapshot' /\ RequestsSpaced'
    BY <1>1 DEF BeginRead, IdleCall, ReaderInv, ReaderTypes, SpacingInv, NoStaleSnapshot, RequestsSpaced
  <2> QED
    BY <2>1, <2>2, <2>3, <2>4 DEF ReaderInv
<1>2. CASE Look(r)
  <2>1. CASE CacheServes(r)
    BY <1>2, <2>1, <1>s DEF Look
  <2>2. CASE ~CacheServes(r)
    BY <1>2, <2>2 DEF Look, ReaderInv, ReaderTypes, GateInv, EpochInv, Accounted, FreshInv, SpacingInv, NoStaleSnapshot,
       RequestsSpaced, Reading
  <2> QED
    BY <2>1, <2>2
<1>3. CASE TakeGate(r)
  <2>1. CASE CacheServes(r)
    BY <1>3, <2>1, <1>s DEF TakeGate
  <2>2. CASE ~CacheServes(r)
    BY <1>3, <2>2 DEF TakeGate, NoTry, ReaderInv, ReaderTypes, GateInv, EpochInv, Accounted, FreshInv, SpacingInv,
       NoStaleSnapshot, RequestsSpaced, Reading
  <2> QED
    BY <2>1, <2>2
<1>4. CASE GiveUp(r)
  BY <1>4, <1>p DEF GiveUp
<1>5. CASE AwaitWriters(r)
  BY <1>5 DEF AwaitWriters, ReaderInv, ReaderTypes, GateInv, EpochInv, Accounted, FreshInv, SpacingInv, NoStaleSnapshot,
     RequestsSpaced, Reading
<1>6. CASE NoteEpoch(r)
  <2>1. try.pages = 0
    BY <1>6 DEF NoteEpoch, ReaderInv, GateInv
  <2> QED
    BY <1>6, <2>1 DEF NoteEpoch, ReaderInv, ReaderTypes, GateInv, EpochInv, Accounted, FreshInv, SpacingInv, NoStaleSnapshot,
       RequestsSpaced, Reading
<1>7. CASE Reserve(r)
  <2>1. quiet = Gap
    BY <1>7 DEF Reserve, ReaderInv, ReaderTypes, SpacingInv
  <2> QED
    BY <1>7, <2>1 DEF Reserve, ReaderInv, ReaderTypes, GateInv, EpochInv, Accounted, FreshInv, SpacingInv, NoStaleSnapshot,
       RequestsSpaced, Reading
<1>8. CASE Page(r)
  <2>1. gate = r /\ nextAt' \in Gap .. Gap + 1 /\ quiet' = 0
    BY <1>8, <1>i, PauseIsLong DEF Page, Reading
  <2>2. /\ call' = [call EXCEPT ![r].at = IF try.pages + 1 = Pages THEN "compare" ELSE "reserve"]
        /\ try' = [try EXCEPT !.pages = @ + 1, !.first = IF try.pages = 0 THEN landed ELSE @]
        /\ UNCHANGED <<writes, writing, marked, epoch, snags, snapshot, gate, stale>>
        /\ call[r].at = "wire"
    BY <1>8 DEF Page
  <2>3. ReaderTypes'
    <3>1. try' = [number |-> try.number, epoch |-> try.epoch, pages |-> try.pages + 1,
                  first |-> IF try.pages = 0 THEN landed ELSE try.first]
      BY <2>2 DEF ReaderInv, ReaderTypes
    <3>2. try.pages < Pages
      BY <2>2 DEF ReaderInv, GateInv
    <3>3. try' \in [number : 0 .. MaxTries, epoch : Nat, pages : 0 .. Pages, first : 0 .. MaxWrites]
      BY <3>1, <3>2 DEF ReaderInv, ReaderTypes
    <3>4. call' \in [Reader -> [at : {"idle", "look", "queue"} \cup Reading, late : BOOLEAN, owed : 0 .. MaxWrites]]
      BY <2>2 DEF ReaderInv, ReaderTypes, Reading
    <3>5. nextAt' \in 0 .. Gap + 1
      BY <2>1
    <3>6. quiet' \in 0 .. Gap
      BY <2>1
    <3> QED
      BY <2>2, <3>3, <3>4, <3>5, <3>6 DEF ReaderInv, ReaderTypes
  <2>4. GateInv' /\ EpochInv' /\ SpacingInv' /\ NoStaleSnapshot' /\ RequestsSpaced'
    BY <2>1, <2>2 DEF ReaderInv, ReaderTypes, GateInv, EpochInv, Accounted, SpacingInv, NoStaleSnapshot, RequestsSpaced, Reading
  <2>5. FreshInv'
    BY <2>1, <2>2 DEF ReaderInv, ReaderTypes, GateInv, FreshInv
  <2> QED
    BY <2>3, <2>4, <2>5 DEF ReaderInv
<1>9. CASE Fails(r)
  <2>1. gate = r /\ nextAt' \in Gap .. Gap + 1 /\ quiet' = 0 /\ call[r].at = "wire"
    BY <1>9, <1>i, PauseIsLong DEF Fails, Reading
  <2> QED
    BY <1>9, <2>1, <1>p, AnotherTryKeepsInv DEF Fails
<1>10. CASE Compare(r)
  BY <1>10 DEF Compare, ReaderInv, ReaderTypes, GateInv, EpochInv, Accounted, FreshInv, SpacingInv, NoStaleSnapshot,
     RequestsSpaced, Reading
<1>11. CASE Refuse(r)
  <2>1. gate = r
    BY <1>11, <1>i DEF Refuse, Reading
  <2> QED
    BY <1>11, <2>1, <1>p, AnotherTryKeepsInv DEF Refuse
<1>12. CASE Accept(r)
  <2>1. gate = r /\ try.pages > 0
    BY <1>12, <1>i DEF Accept, Reading, ReaderInv, GateInv
  <2>2. try.first \in 0 .. MaxWrites /\ try.first >= call[r].owed
    BY <2>1 DEF ReaderInv, ReaderTypes, FreshInv
  <2>3. /\ snapshot' \in [first : 0 .. MaxWrites, epoch : Nat]
        /\ snapshot'.epoch <= epoch /\ (snapshot'.epoch = epoch => snapshot'.first >= told)
    BY <1>12, <2>1 DEF Accept, SnapshotKept, ReaderInv, ReaderTypes, FreshInv
  <2> QED
    BY <1>12, <2>2, <2>3, ReturnKeepsInv DEF Accept
<1>13. CASE ReaderDies(r)
  BY <1>13, <1>p DEF ReaderDies
<1>14. CASE DeadlinePasses(r)
  <2>1. ReaderTypes'
    BY <1>14 DEF DeadlinePasses, ReaderInv, ReaderTypes
  <2>2. GateInv' /\ EpochInv'
    BY <1>14 DEF DeadlinePasses, ReaderInv, ReaderTypes, GateInv, EpochInv, Accounted
  <2>3. FreshInv'
    BY <1>14 DEF DeadlinePasses, ReaderInv, ReaderTypes, FreshInv
  <2>4. SpacingInv' /\ NoStaleSnapshot' /\ RequestsSpaced'
    BY <1>14 DEF DeadlinePasses, ReaderInv, ReaderTypes, SpacingInv, NoStaleSnapshot, RequestsSpaced
  <2> QED
    BY <2>1, <2>2, <2>3, <2>4 DEF ReaderInv
<1> QED
  BY <1>1, <1>2, <1>3, <1>4, <1>5, <1>6, <1>7, <1>8, <1>9, <1>10, <1>11, <1>12, <1>13, <1>14 DEF ReadStep

(* Time, and the end of the cached snapshot's life.                              *)
LEMMA TimeKeepsInv == ASSUME ReaderInv, Tick \/ Expire PROVE ReaderInv'
<1> USE ReaderConstants DEF ReaderInv, ReaderTypes, GateInv, EpochInv, Accounted, FreshInv, SpacingInv,
        NoStaleSnapshot, RequestsSpaced, UnchangedByRead, UnchangedWire, writes
<1>1. CASE Tick
  <2>1. quiet' = IF quiet < Gap THEN quiet + 1 ELSE Gap
    BY <1>1, MinOfTwo DEF Tick
  <2> QED
    BY <1>1, <2>1 DEF Tick
<1>2. CASE Expire
  BY <1>2 DEF Expire
<1> QED
  BY <1>1, <1>2

(* Epochs, times and the turn at the exchange agree in every reachable state. *)
THEOREM ReaderInvariant == ReaderSpec => []ReaderInv
<1>1. ReaderInit => ReaderInv
  BY ReaderStart
<1>2. ReaderInv /\ [ReaderNext]_readerVars => ReaderInv'
  <2> SUFFICES ASSUME ReaderInv, [ReaderNext]_readerVars PROVE ReaderInv'
    OBVIOUS
  <2>1. CASE ReaderNext
    BY <2>1, WriterKeepsInv, CallKeepsInv, TimeKeepsInv DEF ReaderNext
  <2>2. CASE UNCHANGED readerVars
    BY <2>2 DEF readerVars, writes, ReaderInv, ReaderTypes, GateInv, EpochInv, Accounted, FreshInv, SpacingInv,
       NoStaleSnapshot, RequestsSpaced
  <2> QED
    BY <2>1, <2>2
<1> QED
  BY <1>1, <1>2, PTL DEF ReaderSpec

(* For any number of readers, pages and writes: no call returns a snapshot older  *)
(* than what it is owed, whoever writes, dies or waits meanwhile, and requests     *)
(* keep their distance (algo_reader).                                          *)
THEOREM ReaderSafeTheorem == ReaderSpec => []ReaderSafe
<1>1. ReaderInv => ReaderSafe
  <2> SUFFICES ASSUME ReaderInv PROVE ReaderSafe
    OBVIOUS
  <2> USE ReaderConstants DEF ReaderInv, ReaderTypes
  <2>1. epoch \in Epochs
    BY DEF EpochInv, Accounted, Epochs
  <2>2. snapshot \in {NoSnapshot} \cup [first : 0 .. MaxWrites, epoch : Epochs]
    BY <2>1 DEF FreshInv, Epochs
  <2>3. try \in [number : 0 .. MaxTries, epoch : Epochs, pages : 0 .. Pages, first : 0 .. MaxWrites]
    BY <2>1 DEF FreshInv, Epochs
  <2>4. Busy = IF gate = NoReader THEN {} ELSE {gate}
    BY DEF Busy, GateInv
  <2> QED
    BY <2>1, <2>2, <2>3, <2>4 DEF ReaderSafe, ReaderTypeOK
<1> QED
  BY <1>1, ReaderInvariant, PTL
=============================================================================
