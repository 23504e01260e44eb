----------------------------- MODULE JobScheduler -----------------------------
(***************************************************************************)
(* The job scheduler inside the gateway worker                             *)
(* (okxquant_gateway/scheduler.py): the trader of each fifteen-minute      *)
(* slot, the delayed recovery of a slot whose model call was refused, and  *)
(* the review that must stay clear of the trader.  Every job is a child    *)
(* process: it survives the worker, and the account's cycle lock           *)
(* (single_trader_cycle) is all that keeps an orphan and the next slot's   *)
(* trader apart.                                                           *)
(*                                                                         *)
(* One time unit is the window in which a natural slot may start.  Ticks   *)
(* come every second and the trader has an executor of its own, so time    *)
(* does not pass while a tick or a trader task waits to run; the review    *)
(* shares three threads with seven other jobs and may wait (PoolBusy).  A  *)
(* trader process tries the cycle lock in the unit in which it starts.     *)
(***************************************************************************)
EXTENDS Naturals, FiniteSets

CONSTANTS
  SlotLength,     \* 15 minutes
  TraderTimeout,  \* 14 minutes
  ReviewTimeout,  \* 8 minutes
  Cleanup,        \* the minute kept after a review
  Margin,         \* MIN_NEXT_SLOT_MARGIN_SECONDS
  ReviewTimes,    \* when a scheduled review falls due
  PoolBusy,       \* other jobs may occupy the shared executor
  MaxTime, MaxRuns, MaxCrashes, MaxOrders  \* bounds

ASSUME SchedulerAssumption ==
  /\ SlotLength \in Nat \ {0}
  /\ TraderTimeout \in 1 .. SlotLength - 1
  /\ ReviewTimeout \in Nat \ {0} /\ Cleanup \in Nat
  /\ Margin \in 1 .. SlotLength - 1
  /\ ReviewTimes \subseteq Nat
  /\ PoolBusy \in BOOLEAN
  /\ MaxTime \in Nat /\ MaxTime >= SlotLength - 1
  /\ MaxRuns \in Nat /\ MaxCrashes \in Nat /\ MaxOrders \in Nat

Lane == {"trader", "review"}
Run  == 1 .. MaxRuns
NoRun == 0
SlotOf(t) == t \div SlotLength
Offset(t) == t % SlotLength
Slots     == 0 .. SlotOf(MaxTime)
Expires(s) == (s + 1) * SlotLength - Margin

VARIABLES
  now, worker, enabled, crashes, orders,
  paused,    \* history: trading has been paused at some time
  (* gateway database *)
  last,      \* job.last.<name>
  job, status,                 \* job_runs rows
  request,   \* the manual review request that is not finished
  rec, recAt,                  \* ai_recovery_jobs of a slot: status, scheduled_at
  (* the scheduler's memory *)
  tick, ticked, hold,          \* phase of tick(), ticked in this unit, retry_after
  task,      \* future of each key of running
  completions,                 \* pending_completions
  (* child processes, by run *)
  proc, began, forSlot, called, answered, decided

clock    == <<now, enabled, paused, crashes, orders>>
database == <<last, job, status, request, rec, recAt>>
memory   == <<tick, ticked, hold, task, completions>>
children == <<proc, began, forSlot, called, answered, decided>>
vars     == <<clock, worker, database, memory, children>>

NoTask == [state |-> "none", kind |-> "none", slot |-> 0, run |-> NoRun, previous |-> 0]
Done   == {"none", "done", "raised"}
Finished == {"ok", "bad", "killed"}
Cycling == {r \in Run : proc[r] = "cycling"}
Alive(r) == proc[r] \in {"live", "cycling"}
Reviews == {"review", "manual"}    \* as scheduled, and as requested
Timeout(r) == IF job[r] \in Reviews THEN ReviewTimeout ELSE TraderTimeout

Init ==
  /\ now = SlotLength - 1 /\ worker = "up" /\ enabled = TRUE /\ paused = FALSE
  /\ crashes = 0 /\ orders = 0
  /\ last = [l \in Lane |-> SlotLength - 1]
  /\ job = [r \in Run |-> "none"] /\ status = [r \in Run |-> "none"]
  /\ request = "none"
  /\ rec = [s \in Slots |-> "none"] /\ recAt = [s \in Slots |-> 0]
  /\ tick = "idle" /\ ticked = FALSE
  /\ hold = [l \in Lane |-> 0]
  /\ task = [l \in Lane |-> NoTask]
  /\ completions = {}
  /\ proc = [r \in Run |-> "none"] /\ began = [r \in Run |-> 0]
  /\ forSlot = [r \in Run |-> 0]
  /\ called = {} /\ answered = {} /\ decided = {}

-----------------------------------------------------------------------------
(* time and the operator *)
Quiet(l) ==
  \/ task[l].state \in Done
  \/ task[l].state = "running" /\ Alive(task[l].run)
       /\ now < began[task[l].run] + Timeout(task[l].run)
  \/ l = "review" /\ PoolBusy /\ task[l].state = "queued"

Advance ==
  /\ now < MaxTime
  /\ worker = "up" => tick = "idle" /\ ticked
  /\ \A l \in Lane : Quiet(l)
  /\ \A r \in Run : proc[r] = "live" => job[r] \in Reviews
  /\ now' = now + 1
  /\ ticked' = FALSE
  /\ UNCHANGED <<worker, enabled, paused, crashes, orders, database, tick, hold, task,
                 completions, children>>

Toggle ==
  /\ orders < MaxOrders
  /\ enabled' = ~enabled /\ paused' = TRUE
  /\ orders' = orders + 1
  /\ UNCHANGED <<now, crashes, worker, database, memory, children>>

RequestReview ==
  /\ request = "none" /\ orders < MaxOrders
  /\ request' = "pending"
  /\ orders' = orders + 1
  /\ UNCHANGED <<now, enabled, paused, crashes, worker, last, job, status, rec, recAt, memory, children>>

-----------------------------------------------------------------------------
(* tick(): flush and reap, the scheduled jobs, the recovery and the request *)
TraderDue == SlotOf(now) > SlotOf(last["trader"]) /\ Offset(now) = 0
ReviewDue == \E t \in ReviewTimes : t <= now /\ last["review"] < t
Outcome(r) == IF proc[r] = "ok" THEN "success" ELSE "failed"
Free(l) == task[l] = NoTask
Queued(kind) == [NoTask EXCEPT !.state = "queued", !.kind = kind, !.slot = SlotOf(now)]

(* Seeded fault: only the trader's future is looked at, not the time left. *)
ReviewWindowUntimed == ~enabled \/ task["trader"].state \in Done

ReviewWindowOpen ==
  \/ ~enabled
  \/ /\ task["trader"].state \in Done
     /\ SlotLength - Offset(now) > ReviewTimeout + Cleanup

TickReap ==
  /\ worker = "up" /\ tick = "idle"
  /\ \E flushed \in SUBSET completions :
       /\ status' = [r \in Run |-> IF r \in flushed THEN Outcome(r) ELSE status[r]]
       /\ request' = IF request = "running" /\ \E r \in flushed : job[r] = "manual"
                     THEN "none" ELSE request
       /\ completions' = completions \ flushed
  /\ task' = [l \in Lane |-> IF task[l].state \in Done THEN NoTask ELSE task[l]]
  /\ hold' = [l \in Lane |-> IF task[l].state = "raised" THEN now ELSE hold[l]]
  /\ tick' = "jobs"
  /\ UNCHANGED <<clock, worker, last, job, rec, recAt, ticked, children>>

(* the trader comes first in JOBS, and the review looks at its future *)
TickJobs ==
  /\ worker = "up" /\ tick = "jobs"
  /\ LET trader == enabled /\ Free("trader") /\ hold["trader"] # now /\ TraderDue
         review == Free("review") /\ hold["review"] # now /\ ReviewDue
                     /\ ReviewWindowOpen /\ ~trader
     IN task' = [l \in Lane |-> IF (l = "trader" /\ trader) \/ (l = "review" /\ review)
                               THEN Queued("natural") ELSE task[l]]
  /\ tick' = "others"
  /\ UNCHANGED <<clock, worker, database, ticked, hold, completions, children>>

(* _launch_due_recovery, then the manual requests *)
DueRecoveries == {s \in Slots : rec[s] = "pending" /\ recAt[s] <= now}
(* Seeded faults: a decision of the slot is not looked for, or the expiry. *)
LaunchableTwice(s) == enabled /\ now < Expires(s) /\ SlotOf(now) = s
LaunchableLate(s) == enabled /\ SlotOf(now) = s /\ s \notin decided
Launchable(s) == enabled /\ now < Expires(s) /\ SlotOf(now) = s /\ s \notin decided
TickOthers ==
  /\ worker = "up" /\ tick = "others"
  /\ rec' = [s \in Slots |-> IF s \in DueRecoveries /\ ~Launchable(s) THEN "cancelled" ELSE rec[s]]
  /\ LET recovery == Free("trader") /\ \E s \in DueRecoveries : Launchable(s)
         manual == request = "pending" /\ Free("review") /\ ReviewWindowOpen /\ ~recovery
     IN task' = [l \in Lane |->
                   IF l = "trader" /\ recovery THEN Queued("recovery")
                   ELSE IF l = "review" /\ manual THEN Queued("manual") ELSE task[l]]
  /\ tick' = "idle" /\ ticked' = TRUE
  /\ UNCHANGED <<clock, worker, last, job, status, request, recAt, hold, completions, children>>

-----------------------------------------------------------------------------
(* the executor threads *)
Is(l, state, kinds) == worker # "down" /\ task[l].state = state /\ task[l].kind \in kinds
End(l, how) == task' = [task EXCEPT ![l].state = how]
IsNext(r) == job[r] = "none" /\ \A q \in Run : job[q] = "none" => r <= q
BeginRun(l, name, state) == \E r \in Run :
  /\ IsNext(r)
  /\ job' = [job EXCEPT ![r] = name]
  /\ status' = [status EXCEPT ![r] = "running"]
  /\ forSlot' = [forSlot EXCEPT ![r] = task[l].slot]
  /\ task' = [task EXCEPT ![l].run = r, ![l].state = state, ![l].previous = last[l]]
NoRunBegun == UNCHANGED <<job, status, forSlot>>

(* _execute looks again before it begins, the trader at the present time *)
ExecuteNatural(l) ==
  /\ Is(l, "queued", {"natural"})
  /\ IF IF l = "trader" THEN enabled /\ TraderDue ELSE ReviewDue
     THEN BeginRun(l, l, "begun")
     ELSE End(l, "done") /\ NoRunBegun
  /\ UNCHANGED <<clock, worker, last, request, rec, recAt, tick, ticked, hold, completions,
                 proc, began, called, answered, decided>>

(* Seeded faults: the mark is for the next tick, or not written. *)
MarkLastAhead(l) ==
  /\ Is(l, "begun", {"natural"})
  /\ last' = [last EXCEPT ![l] = now + 1]
  /\ End(l, "marked")
  /\ UNCHANGED <<clock, worker, job, status, request, rec, recAt, tick, ticked, hold,
                 completions, children>>
MarkLastNever(l) ==
  /\ Is(l, "begun", {"natural"})
  /\ End(l, "marked")
  /\ UNCHANGED <<clock, worker, last, job, status, request, rec, recAt, tick, ticked, hold,
                 completions, children>>

MarkLast(l) ==
  /\ Is(l, "begun", {"natural"})
  /\ last' = [last EXCEPT ![l] = now]
  /\ End(l, "marked")
  /\ UNCHANGED <<clock, worker, job, status, request, rec, recAt, tick, ticked, hold,
                 completions, children>>

(* claim_job_request and claim_ai_recovery begin the run in their transaction *)
ExecuteManual ==
  /\ Is("review", "queued", {"manual"})
  /\ request' = "running"
  /\ BeginRun("review", "manual", "marked")
  /\ UNCHANGED <<clock, worker, last, rec, recAt, tick, ticked, hold, completions,
                 proc, began, called, answered, decided>>

ExecuteRecovery ==
  /\ Is("trader", "queued", {"recovery"})
  /\ LET s == task["trader"].slot IN
       IF rec[s] = "pending"
       THEN /\ rec' = [rec EXCEPT ![s] = "running"]
            /\ BeginRun("trader", "recovery", "begun")
       ELSE End("trader", "done") /\ NoRunBegun /\ UNCHANGED rec
  /\ UNCHANGED <<clock, worker, last, request, recAt, tick, ticked, hold, completions,
                 proc, began, called, answered, decided>>

(* Seeded fault: a completion that cannot be written is dropped. *)
FinishJobDropped(r) ==
  \/ /\ status' = [status EXCEPT ![r] = Outcome(r)]
     /\ request' = IF request = "running" /\ job[r] = "manual" THEN "none" ELSE request
     /\ UNCHANGED completions
  \/ UNCHANGED <<status, request, completions>>

(* _finish_job: what cannot be written at once is kept for the next tick *)
FinishJob(r) ==
  \/ /\ status' = [status EXCEPT ![r] = Outcome(r)]
     /\ request' = IF request = "running" /\ job[r] = "manual" THEN "none" ELSE request
     /\ completions' = completions \ {r}
  \/ /\ completions' = completions \cup {r}
     /\ UNCHANGED <<status, request>>
FinishRecovery(r, outcome) ==
  /\ rec' = [rec EXCEPT ![forSlot[r]] = IF @ = "running" THEN outcome ELSE @]
  /\ status' = [status EXCEPT ![r] = IF rec[forSlot[r]] = "running" THEN outcome ELSE @]

(* the trader may have been paused before the claim *)
CheckRecovery ==
  /\ Is("trader", "begun", {"recovery"})
  /\ IF enabled
     THEN End("trader", "marked") /\ UNCHANGED <<rec, status>>
     ELSE End("trader", "done") /\ FinishRecovery(task["trader"].run, "failed")
  /\ UNCHANGED <<clock, worker, last, job, request, recAt, tick, ticked, hold, completions,
                 children>>

(* a transaction raises outside every handler: the future fails, and what it *)
(* began stays running                                                       *)
Raise(l) ==
  /\ worker # "down"
  /\ \/ task[l].state \in {"queued", "begun"}
     \/ task[l].state = "marked" /\ task[l].kind # "manual"
     \/ Is(l, "running", {"recovery"}) /\ proc[task[l].run] \in Finished
  /\ End(l, "raised")
  /\ UNCHANGED <<clock, worker, database, tick, ticked, hold, completions, children>>

Spawn(l) ==
  /\ Is(l, "marked", {"natural", "manual", "recovery"})
  /\ proc' = [proc EXCEPT ![task[l].run] = "live"]
  /\ began' = [began EXCEPT ![task[l].run] = now]
  /\ End(l, "running")
  /\ UNCHANGED <<clock, worker, database, tick, ticked, hold, completions, forSlot, called,
                 answered, decided>>

(* Popen fails: nothing ran, so a scheduled job gets its slot back *)
LaunchFails(l) ==
  /\ Is(l, "marked", {"natural", "manual", "recovery"})
  /\ End(l, "done")
  /\ LET r == task[l].run IN
       IF task[l].kind = "recovery"
       THEN FinishRecovery(r, "failed") /\ UNCHANGED <<last, hold, request, completions>>
       ELSE /\ FinishJob(r)
            /\ IF task[l].kind = "natural"
               THEN /\ last' = [last EXCEPT ![l] = task[l].previous]
                    /\ hold' = [hold EXCEPT ![l] = now]
               ELSE UNCHANGED <<last, hold>>
            /\ UNCHANGED rec
  /\ UNCHANGED <<clock, worker, job, recAt, tick, ticked, children>>

Expire(l) ==
  /\ Is(l, "running", {"natural", "manual", "recovery"})
  /\ Alive(task[l].run) /\ now >= began[task[l].run] + Timeout(task[l].run)
  /\ proc' = [proc EXCEPT ![task[l].run] = "killed"]
  /\ UNCHANGED <<clock, worker, database, memory, began, forSlot, called, answered, decided>>

Finish(l) ==
  /\ Is(l, "running", {"natural", "manual"}) /\ proc[task[l].run] \in Finished
  /\ FinishJob(task[l].run)
  /\ End(l, "done")
  /\ UNCHANGED <<clock, worker, last, job, rec, recAt, tick, ticked, hold, children>>

(* a success that cannot be written may still be written as a failure *)
FinishRecovered ==
  /\ Is("trader", "running", {"recovery"})
  /\ LET r == task["trader"].run IN
       /\ proc[r] \in Finished
       /\ \/ proc[r] = "ok" /\ r \in answered /\ FinishRecovery(r, "success")
          \/ FinishRecovery(r, "failed")
  /\ End("trader", "done")
  /\ UNCHANGED <<clock, worker, last, job, request, recAt, tick, ticked, hold, completions,
                 children>>

-----------------------------------------------------------------------------
(* the life of the worker *)
Forget == /\ tick' = "idle" /\ ticked' = FALSE
          /\ hold' = [l \in Lane |-> 0]
          /\ task' = [l \in Lane |-> NoTask]
          /\ completions' = {}

(* shutdown cancels what is queued and waits for what runs *)
Shutdown ==
  /\ worker = "up" /\ tick = "idle" /\ crashes < MaxCrashes
  /\ worker' = "draining" /\ crashes' = crashes + 1
  /\ task' = [l \in Lane |-> IF task[l].state = "queued" THEN NoTask ELSE task[l]]
  /\ UNCHANGED <<now, enabled, paused, orders, database, tick, ticked, hold, completions, children>>

Leave ==
  /\ worker = "draining" /\ \A l \in Lane : task[l].state \in Done
  /\ worker' = "down"
  /\ Forget
  /\ UNCHANGED <<clock, database, children>>

Crash ==
  /\ worker # "down" /\ crashes < MaxCrashes
  /\ worker' = "down" /\ crashes' = crashes + 1
  /\ Forget
  /\ UNCHANGED <<now, enabled, paused, orders, database, children>>

(* Seeded fault: what was running is done again. *)
RestartAgain ==
  /\ worker = "down"
  /\ worker' = "up"
  /\ status' = [r \in Run |-> IF status[r] = "running" THEN "failed" ELSE status[r]]
  /\ request' = IF request = "running" THEN "pending" ELSE request
  /\ rec' = [s \in Slots |-> IF rec[s] = "running" THEN "pending" ELSE rec[s]]
  /\ UNCHANGED <<clock, last, job, recAt, memory, children>>

(* recover_processing: outcomes unknown, nothing is run again *)
Restart ==
  /\ worker = "down"
  /\ worker' = "up"
  /\ status' = [r \in Run |-> IF status[r] = "running" THEN "failed" ELSE status[r]]
  /\ request' = IF request = "running" THEN "none" ELSE request
  /\ rec' = [s \in Slots |-> IF rec[s] = "running" THEN "failed" ELSE rec[s]]
  /\ UNCHANGED <<clock, last, job, recAt, memory, children>>

-----------------------------------------------------------------------------
(* the child processes *)
ChildExits(r, code) == proc' = [proc EXCEPT ![r] = code]

(* single_trader_cycle: the lock, and for a recovery its row and its slot *)
Authorized(r) == job[r] = "recovery" => rec[forSlot[r]] = "running" /\ forSlot[r] = SlotOf(now)
EnterCycle(r) ==
  /\ proc[r] = "live" /\ job[r] \in {"trader", "recovery"}
  /\ ChildExits(r, IF Cycling = {} /\ Authorized(r) THEN "cycling" ELSE "ok")
  /\ UNCHANGED <<clock, worker, database, memory, began, forSlot, called, answered, decided>>

ModelAnswers(r) ==
  /\ proc[r] = "cycling" /\ r \notin called
  /\ called' = called \cup {r}
  /\ answered' = answered \cup {r}
  /\ decided' = decided \cup {SlotOf(now)}
  /\ UNCHANGED <<clock, worker, database, memory, proc, began, forSlot>>

(* ai_recovery.schedule, for a call of the natural trader that was refused *)
ModelRefuses(r) ==
  /\ proc[r] = "cycling" /\ r \notin called
  /\ called' = called \cup {r}
  /\ LET s == SlotOf(now) IN
       IF job[r] = "trader" /\ now + 1 < Expires(s) /\ rec[s] = "none"
       THEN /\ rec' = [rec EXCEPT ![s] = "pending"]
            /\ recAt' = [recAt EXCEPT ![s] = now + 1]
       ELSE UNCHANGED <<rec, recAt>>
  /\ UNCHANGED <<clock, worker, last, job, status, request, memory, proc, began, forSlot,
                 answered, decided>>

ChildEnds(r) ==
  /\ proc[r] = "cycling" \/ (proc[r] = "live" /\ job[r] \in Reviews)
  /\ \E code \in {"ok", "bad"} : ChildExits(r, code)
  /\ UNCHANGED <<clock, worker, database, memory, began, forSlot, called, answered, decided>>

Next ==
  \/ Advance \/ Toggle \/ RequestReview
  \/ TickReap \/ TickJobs \/ TickOthers
  \/ \E l \in Lane : \/ ExecuteNatural(l) \/ MarkLast(l) \/ Raise(l) \/ Spawn(l)
                     \/ LaunchFails(l) \/ Expire(l) \/ Finish(l)
  \/ ExecuteManual \/ ExecuteRecovery \/ CheckRecovery \/ FinishRecovered
  \/ Shutdown \/ Leave \/ Crash \/ Restart
  \/ \E r \in Run : EnterCycle(r) \/ ModelAnswers(r) \/ ModelRefuses(r) \/ ChildEnds(r)

Spec == Init /\ [][Next]_vars

-----------------------------------------------------------------------------
(* The tasks of the lanes that a time of at most t can have seen.           *)
Task(t) == [state : Done \cup {"queued", "begun", "marked", "running"},
            kind : {"none", "natural", "manual", "recovery"},
            slot : Slots, run : Run \cup {NoRun}, previous : 0 .. t]

RowsOK ==
  /\ now \in 0 .. MaxTime /\ worker \in {"up", "draining", "down"} /\ enabled \in BOOLEAN
  /\ paused \in BOOLEAN /\ crashes \in 0 .. MaxCrashes /\ orders \in 0 .. MaxOrders
  /\ last \in [Lane -> 0 .. now]
  /\ job \in [Run -> {"none", "trader", "recovery"} \cup Reviews]
  /\ status \in [Run -> {"none", "running", "success", "failed"}]
  /\ request \in {"none", "pending", "running"}
  /\ rec \in [Slots -> {"none", "pending", "running", "success", "failed", "cancelled"}]
  /\ recAt \in [Slots -> 0 .. MaxTime + 1]
  /\ tick \in {"idle", "jobs", "others"}
  /\ ticked \in BOOLEAN /\ hold \in [Lane -> 0 .. now]
  /\ completions \subseteq Run
  /\ proc \in [Run -> {"none", "live", "cycling"} \cup Finished]
  /\ began \in [Run -> 0 .. now] /\ forSlot \in [Run -> Slots]
  /\ called \subseteq Run /\ answered \subseteq called /\ decided \subseteq Slots

(* Every variable keeps its type: rows only have the statuses of store.py,  *)
(* and no mark or start lies in the future.                                 *)
TypeOK == RowsOK /\ task \in [Lane -> Task(now)]

(* The trader of a slot is started at most once, whatever crashes between   *)
(* the durable mark and the process (_execute, recover_processing).         *)
OneNaturalPerSlot == \A q, r \in Run :
  /\ job[q] = "trader" /\ proc[q] # "none"
  /\ job[r] = "trader" /\ proc[r] # "none"
  /\ SlotOf(began[q]) = SlotOf(began[r])
  => q = r

(* A slot is recovered at most once: an unknown outcome is not run again    *)
(* (claim_ai_recovery, recover_processing).                                 *)
OneRecoveryPerSlot == \A q, r \in Run :
  job[q] = "recovery" /\ job[r] = "recovery" /\ forSlot[q] = forSlot[r] => q = r

(* A recovery never decides again in a slot that has its decision           *)
(* (_launch_due_recovery looks before the launch, the call comes later),    *)
(* while at most one worker has died: two deaths may leave two traders to   *)
(* themselves, the earlier one refused in this slot and the later one       *)
(* deciding in it after the recovery was launched.                          *)
RecoveryAddsNoSecondDecision ==
  [][\A r \in Run : crashes <= 1 /\ job[r] = "recovery" /\ r \in answered' \ answered
                     => SlotOf(now) \notin decided]_vars

(* Once the tick of a unit is over, a recovery that is still pending and    *)
(* due has time left in its slot: an expired one is cancelled even while    *)
(* the trader's lane is taken (_launch_due_recovery).                       *)
NoStaleRecovery ==
  worker = "up" /\ tick = "idle" /\ ticked =>
    \A s \in Slots : rec[s] = "pending" /\ recAt[s] <= now => now < Expires(s)

(* A slot is traded once, and recovered once and in time.                      *)
SlotsSafe == TypeOK /\ OneNaturalPerSlot /\ OneRecoveryPerSlot /\ NoStaleRecovery

Held(r) == r \in completions \/ \E l \in Lane : task[l].run = r /\ task[l].state \notin Done

(* A row that says success had a process that ended well; a run that ended  *)
(* is told, or will be at a tick, while the worker lives; and no manual     *)
(* request waits for a run that nobody will finish.                         *)
RunsAreTold ==
  /\ \A r \in Run : status[r] = "success" => proc[r] = "ok"
  /\ worker = "up" =>
       /\ \A r \in Run : job[r] # "recovery" /\ proc[r] \in Finished /\ status[r] = "running"
                         => Held(r)
       /\ request = "running" => \E r \in Run : job[r] = "manual" /\ Held(r)

(* "A natural 15-minute trader slot always has precedence over delayed      *)
(* recovery" (scheduler.py, tick): when the window of a slot closes, the    *)
(* trader's lane is not kept from it by the recovery of an earlier slot.    *)
NaturalHasPrecedence ==
  [][now' # now /\ Offset(now) = 0 /\ worker = "up" /\ task["trader"].kind = "recovery"
       => task["trader"].state \in Done]_vars

(* The time given to a recovery of the slot before reaches into slot s.     *)
Overran(s) == \E q \in Run :
  /\ job[q] = "recovery" /\ proc[q] # "none" /\ forSlot[q] + 1 = s
  /\ began[q] + TraderTimeout >= s * SlotLength

(* "Run costly review inference only between protected trader slots"        *)
(* (_self_improvement_window_open): while trading was never paused, a       *)
(* review ends in the slot in which it began and not beside that slot's     *)
(* trader, but for a slot into which a recovery has run: it may end between *)
(* the tick that gives the lane back and the look at its future, and then   *)
(* the review goes first and the trader starts beside it a second later.    *)
ReviewBetweenSlots ==
  LET Running(l, kinds) == task[l].state = "running" /\ task[l].kind \in kinds IN
  ~paused /\ Running("review", {"natural", "manual"}) =>
    /\ SlotOf(now) = SlotOf(began[task["review"].run])
    /\ Running("trader", {"natural"}) => Overran(SlotOf(now))
=============================================================================
