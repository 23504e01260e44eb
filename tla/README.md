# A formal model of OKXQuant

OKXQuant trades OKX USDT perpetual swaps on the advice of a language model. The
model is never the order executor: deterministic Python decides whether, how
large and how an entry is sent, keeps every position protected on the exchange,
and keeps a durable account of what it did. This directory holds TLA+ modules
for the parts of it that are hard to get right - what a crash, a lost reply, a
race with the exchange or a second process may do to them -, TLC configurations
that model-check small instances, and theorems checked by TLAPS.

Paths below are relative to the repository root.

## 1. The system

| Part | Code | State it keeps | What it does |
|---|---|---|---|
| Entry path | `scripts/entry_gateway.py`, `entry_reconciliation.py`, `maker_fallback.py`, `strategy_evidence.py`, `decision_authorization.py`, `submit_protected_limit_order` in `ai_factor_trader.py` | `events` and `intents` tables (SQLite, synchronous=FULL); orders at OKX | preflight, durable reservation, dispatch, bounded Maker wait and its single fallback, read-only reconciliation |
| Account writer lock | `scripts/trade_lock.py`, `config_lock.py` | a lock file per account, a thread lock per process | one writer per account across processes and threads |
| Trader cycle | `single_trader_cycle`, `execute_portfolio`, `execute_ai_position_management` in `ai_factor_trader.py` | trackers, cooldown and horizon files; per-cycle quotas and claims | a 15-minute cycle: manage positions, rank candidates, submit entries |
| Closing and protection | `scripts/close_execution.py`, `profit_exit_execution.py`, `initial_protection.py`, `position_guard.py`, `position_lifecycle.py`, `protection_policy.py`, `algo_reader.py` | close evidence, trailing state, shared snapshots; OCO/stop orders at OKX | closes confirmed by reading back, stops amended and verified, unprotected positions closed |
| Risk and capital | `scripts/risk_policy.py`, `capital_pool.py`, `horizon_allocation.py`, `equity_guard` | `equity_state`, `capital_pool_state` rows, JSON configuration | exposure, daily drawdown fuse, cumulative pool loss fuse, horizon budgets |
| Gateway store | `okxquant_gateway/store.py` | `events`, `deliveries`, `job_runs`, `manual_job_requests`, `ai_recovery_jobs`, `runtime_state` | durable delivery queue, job runs, manual requests, AI recovery queue |
| Gateway worker | `okxquant_gateway/worker.py`, `supervisor.py` | flock, PID file | one worker process: delivers notifications, owns the scheduler thread |
| Job scheduler | `okxquant_gateway/scheduler.py`, `ai_recovery.py`, `telemetry.py` | last slot per job, running set, completions waiting to be persisted | launches the jobs of each slot once, manual reviews, one AI recovery per slot |
| Decisions of the model | `scripts/ai_brain_trader.py`, `wait_audit.py`, `wait_repair.py` | decision cache, position instructions, wait audits | a frame is frozen, the model asked, its decisions and instructions published for the trader |
| Model calls | `okxquant_backend/llm_*.py` | provider profiles and keys, transport health | inference with bounded retries and fallbacks, streamed answers |
| Scenario research | `scripts/scenario_shadow.py`, `scenario_entry.py` | claims of frames, research state, events | follows scenarios frame by frame without trading |
| Trading memory | `scripts/memory_registry.py`, `self_improvement_engine.py` | versions, candidates and reports of each account | reviews propose, an administrator publishes, cycles use |
| Control plane | `okxquant_backend/` (FastAPI): accounts, admin sessions, providers, settings, backups | JSON/SQLite settings, sessions, account bindings | operators connect accounts, change policies, read monitoring |
| Accounts | `okxquant_backend/account_connections.py`, `okx_trade_service.py` | connection records, active binding, close confirmation tokens | switching the traded account, manual closes |
| Ledger | `scripts/ledger_monitor.py`, `sync_full_ledger.py`, `fill_accounting.py` | trade ledger files, cadence state | rebuilds the closed trades from the exchange and announces them |
| Backups | `scripts/backup_runtime.py`, `backup_restore.py`, `okxquant_backend/backup_store.py` | archives | a restore stops the worker and has the data for itself |
| Monitor | `dashboard/app.py` | a cached snapshot, its time, its file | answers from the snapshot, refreshes it beside |
| Strategy mathematics | candidates, factors, rankings, replays under `scripts/` | none durable | pure computations on market data |
| Consoles | `okxquant_frontend/` | browser state | Vue views |

The parts meet in few places. The scheduler starts the trader as a child
process; the trader holds the writer lock of its account while it reads the
exchange, reserves an intent and sends it; the position guard is another process
that takes the same lock. They talk to one exchange, which answers late, twice
or not at all. Every process publishes events to the gateway store, which one
worker delivers. The control plane changes the configuration files that the
trader reads, so a decision may be out of date when it is executed.

### What is hard

* A reply that never arrives: an order may be at the exchange although the
  command failed, so it must never be sent again, yet must not block for ever.
* A cancel that races a fill: a cancellation acknowledged is not an order that
  bought nothing.
* Snapshots: positions, pending orders, histories and balances are read several
  requests apart, and the account may be switched between two of them.
* Death between two durable writes, in the trader, the guard, the worker, the
  scheduler, the backend or a build of the ledger.
* Bounded work: 20 intents per sweep, 20 deliveries per claim, 6 attempts.
* Two processes: supervisors that restart a worker that is still shutting down,
  two monitors of scenarios, guard and trader with one tracker file.
* Slots: a job belongs to a quarter of an hour and a worker restart, a busy
  database or a late child may carry it into the next one.
* Released locks: the trader lets the writer go while the model runs, and must
  come back to an account that nobody changed and to the trackers of the file.
* Files without a lock that are read, changed and written whole.

### What makes each part correct

| Part | Properties | Where |
|---|---|---|
| Entry path | a decision buys once; one intent of unknown outcome at most; a settled row is true and stays; an instrument has one entry at a time; a working entry has its part in the risk of the next; an attempt ends; a lost request does not block for ever | `EntryOrder` |
| Gateway store, worker | a row in processing is in the hands of the worker that runs; two workers never send one row; settled rows rest; dead after six failures exactly; every row settles | `DeliveryQueue` |
| Supervisor | one worker past the lock, and the PID file names no other; a lost worker comes back | `WorkerSupervision` |
| Job scheduler | a slot is traded once and recovered once; no recovery after its window or beside a decision; every run is told; a review stays between slots; a natural trader has precedence | `JobScheduler` |
| Writer lock | one writer; a cycle keeps its account; no request to an account no longer bound; the model window ends | `WriterGate` |
| Trader cycle | quotas hold across pending entries; a filled scale-in is counted once; one correlated direction per cycle | `TraderCycle` |
| Closing | a close takes its own position only, never beside its passive exit, and says success when that position is gone | `CloseExecution` |
| Protection | an amendment is remembered by whoever dies; a stop never loosens; a filled position is protected or closed; no reader gets a snapshot older than what it is owed | `PositionCare`, `AlgoReader` |
| Risk and capital | an allocation begins once and goes on from where it was; only profit ends a block of the day | `EquityGuard` |
| Accounts | nothing at risk in an account taken out of use; files never of another account; evidence keeps its name | `AccountBinding` |
| Ledger | rows follow the exchange; a claim is of the account built; every close is announced once; the ledger settles | `LedgerCycle` |
| Model calls | what the provider was asked is told; no process is left behind; a cut answer is not used; keys stay with their provider | `InferenceCall`, `AnswerStream`, `ModelRegistry` |
| Decisions | a failed cycle leaves nothing half done; the trader carries out what its own cycle said; no wait goes on silently | `BrainCycle`, `WaitAudit` |
| Research, memory | a scenario triggers only across frames all seen; published memory is what an administrator saw | `ScenarioShadow`, `TradingMemory` |
| Monitor | an answer is of one account, and never called live when it is not | `Dashboard` |

## 2. The modules

| Module | Models | State and actions |
|---|---|---|
| `EntryOrder` | the entry path for one account | rows (`intent`, `decisionOf`, `mode`, `parent`), orders (`order`, `fill`, `retained`, `position`), the trader's program counter and snapshots; one action per step of `_prepare`, `reconcile_intents`/`locate`, `dispatch_attempt`, the Maker wait and `create_decision`, one per thing the exchange does |
| `EntryPromise` | what the entry path promises for a decision | `Open`, `Buy`, `Close` |
| `EntryOrderRefinement` | the refinement mapping from `EntryOrder` to `EntryPromise` | |
| `DeliveryQueue` | the `deliveries` table and the notification worker | columns `status`, `attempts`, `due`; each worker's `phase` and `batch`; `holder` of the file lock; one action per transaction of the store, one per outcome of a send, and the life of a worker |
| `WorkerSupervision` | backends that start, watch and stop the worker | `doing`, `pidFile`, both locks, `guardian`; the look at the PID file (`Ensure`) and what follows (`EnsureStep`) apart |
| `JobScheduler` | the tick, the executors, the run rows and the children of the trader, recovery and review jobs | `last`, `job`, `status`, `request`, `rec` in the database; `task`, `hold`, `completions` in the scheduler; `proc`, `began`, `decided` of the children |
| `WriterGate` | `trade_lock`, the cycle lock, `mutation_guard`, `assert_current` | `rlock`/`holds` (thread locks), `flock`, `cycle` (file locks), `depth`, `window`, `binding`, and `env`, the account each thread froze |
| `AccountPromise` | what the locks promise for the account | `Acquire`, `Release`, `Begin`, `End`, `Send`, `Answered`, `Change`, `Lose` |
| `WriterGateRefinement` | the refinement mapping from `WriterGate` to `AccountPromise` | |
| `TraderCycle` | the sweep, reads, slots, window, entries and scale-ins of a cycle, with guard and minute engine beside it | `orders`, `held` at the exchange, `bookFile` (trackers), the cycle's reads and copies; `MinuteEntry`, `GuardRound`, `Sweep`, `Query...`, `EnterAccepted`, `ScaleAccepted`, `ReserveScale` |
| `PositionCare` | one position, its OCO segments, guard and trader | `stopAt`, `mark`, amendments `inFlight`, `trackerFile`, the holder's working copy, `away` while the model answers; `CareStep` is the code's next step of whoever holds the writer |
| `AlgoReader` | the shared snapshot of protective orders | writes, `marked`/`epoch`, `snapshot`, each `call`, the `gate` and `nextAt`; seven steps of a write, `ReadStep` of a reader |
| `CloseExecution` | `close` with its passive exit and read-backs | the position by its life, pending orders, `shutAt`, `journal`, `returned` |
| `EquityGuard` | the daily guard, the pool and the small preset | `account` and `allocated` rows, the observation under way; the account's history as running totals |
| `AccountBinding` | the account center | connections, `managed`/`active`/`binding`, the `change` under way and its reads, whose the files are |
| `LedgerCycle` | builds of the ledger by monitor and tasks | receipts and positions, `confirmed`, `requested`, `ledger`, the build's two reads, `announced` |
| `InferenceCall` | one call of a model, in a process of its own or in a loop | `caller`, `worker`, `pipe`, `timer`, `asked`, `result` |
| `AnswerStream` | a streamed answer in three protocols | the `assembler`, the decoder's rest, the `answer` |
| `ModelRegistry` | the file of providers and its secrets | `registry`, `env`, `settings` and each handler's working copy: read, write back, change, write again |
| `BrainCycle` | a cycle of the model and the two files it publishes | `decisions`, `management`, the `brain` and its lock, the `trader` that asks and carries out |
| `WaitAudit` | what is remembered of a wait | `stored` audit, the `frame` of the cycle, `baseline`, facts |
| `ScenarioShadow` | the shadow monitor | `attempts`, `research`, `evidence`, each `monitor` |
| `TradingMemory` | versions, candidates, reviews, publication | `meta`, `versions`, `proposed`, `page`, `cycle`, `review` |
| `Dashboard` | the monitor's snapshot | `cache`, `cacheTime`, `file`, `producer`, `reader` |
| `EntryOrderProofs`, `DeliveryQueueProofs`, `WriterGateProofs`, `SchedulerProofs` | inductive invariants and theorems of one module each | |
| `RecordProofs` | those of `WorkerSupervision`, `LedgerCycle`, `AlgoReader` | |
| `ServiceProofs` | those of `InferenceCall`, `CloseExecution`, `Dashboard`, `ModelRegistry` | |
| `DecisionProofs` | those of `WaitAudit`, `BrainCycle`, `TradingMemory` | |
| `PositionProofs` | those of `ScenarioShadow`, `AccountBinding`, `PositionCare`, `TraderCycle`, `EquityGuard` | |
| `MCEntryOrder`, `MCDeliveryQueue`, `MCJobScheduler`, `MCWriterGate`, `MCLedger` | values for the constants of one module | |
| `MCServices`, `MCPositions`, `MCRecords`, `MCDecisions`, `MCReviews` | several modules side by side | each behaviour is of one part (a variable names it), the others rest |

The modules meet at named seams. `EntryOrder` has one trader because
`WriterGate` shows that there is one writer, and `DeliveryQueue` one running
worker because `WorkerSupervision` shows that one is past the lock.
`JobScheduler` may start an orphan's successor because the cycle lock of
`WriterGate` keeps the two apart; it takes that lock in one step (`EnterCycle`).
Reconciliation of `EntryOrder` never reads another account's rows because
`WriterGate` shows that a cycle keeps its account; `AccountBinding` has what a
change of the account does under that lock. The preflight of an entry is one step
in `TraderCycle` and many in `EntryOrder`. What `InferenceCall` reports of a
provider that was asked is what `JobScheduler` recovers a slot on.

Definitions headed *Seeded fault* are not part of any specification. Each is a
plausible bug in the definition it stands next to and serves to show that a
property notices it.

### EntryOrder

A behaviour is a sequence of entry attempts of one account. The trader is at one
program counter `pc`; between any two of its steps the exchange may accept,
reject or lose a request, fill, cancel or forget an order, and the position may
be closed.

| Code | Actions |
|---|---|
| `submit_protected_limit_order` up to the gateway | `StartEntry` |
| `entry_gateway._prepare`: first position and order reads | `ReadPositions`, `ReadPending` |
| `reconcile_intents` (batch of 20, oldest first) and `entry_reconciliation.locate` | `LocateInSnapshot`, `LocateById`, `MissById`, `ScanFinds`, `ScanProvesAbsent`, `LocateFails` |
| the rest of `_prepare`, second reads | `Admit`, `RecheckPositions`, `RecheckPending` |
| `begin_intent` | `BeginIntent` |
| `dispatch_attempt` under `entry_dispatch_guard` | `DispatchBlocked`, `SendOrder`, `ReplyAccepted`, `ReplyRejected` |
| Maker wait (`maker_fallback`) | `MakerStatus`, `CancelMaker`, `RereadMaker`, `SettleMaker`, `CreateFallback` |
| any exception, timeout, kill or refused check | `Abandon`: the locals are gone, rows and orders stay |

`Abandon` is possible at every `pc`, so every property holds for crashes at every
line. Whether prices, margin or liquidity refuse a candidate is data; that it may
be refused is `Abandon`.

`EntryPromise` is what an operator would be told: for each decision there is a
market side that may open, buy once, close. `EntryOrderRefinement` maps what was
bought for a decision to the set of contracts its orders have filled.

`OneEntryPerInstrument` needs the capital pool: without the second read of the
pending orders an order in transit at the snapshot may become live during the
sweep unseen.

### DeliveryQueue

A row goes `pending -> processing -> delivered | retry | dead`. `Claim` is
`claim_due` (priority descending, id ascending, at most `Batch`, and the worker
remembers `attempts` as it read it). `SendTaken`, `SendRefused`,
`SendMisreported` are the three outcomes of a send; `Complete` and `Fail` are the
transactions that follow. `StoreRaises` is a transaction that fails: inside the
handler it leads from `complete` to `fail` (worker.py:103), outside it ends the
loop. `Crash` may strike in every phase. Only `Recover`, run once by the worker
that holds the lock, hands out rows left in processing.

### WorkerSupervision

Two backends may each find no worker and start one; the worker that gets the file
lock goes on and the others exit. A look at the PID file and what is done about it
are apart, so a stale file may be deleted when a new worker has just written it:
`current_pid()` is then 0 while a worker runs, and the probe of the lock (never a
second worker) is what keeps it single. A momentary probe may make a starting
worker exit; the next look, ten seconds later, starts another.

### JobScheduler

The time unit is the ten seconds in which a natural trader may start; a slot has
five units (four in the review run) instead of ninety; the timeouts keep the order they
have in the code: review plus cleanup < trader timeout < slot. `tick` runs in three steps
(`TickReap`, `TickJobs`, `TickOthers`), and executor threads move in between: look
again and begin the row (`ExecuteNatural`, `ExecuteManual`, `ExecuteRecovery`),
mark the slot (`MarkLast`), start the child (`Spawn`, `LaunchFails`), wait for it
(`Expire`, `Finish`, `FinishRecovered`). `Raise` is a transaction that fails where
nothing catches it: the run row stays running until the worker is restarted. A
child survives its worker: after `Crash` it may still hold the cycle lock, decide,
or schedule a recovery. `recover_processing` at `Restart` fails what was running.

Three things limit `ReviewBetweenSlots`, and the property says so. A review queued
in the shared executor of three threads may start late, because the window is
looked at when it is queued (scheduler.py:399) and not when a thread takes it up;
the property is about reviews that get a thread at once (`PoolBusy` false). A
recovery of the previous slot that runs into the next may end between the look at
its future and the look at the window (scheduler.py 262-281, 385-390), so a review
starts first and the natural trader beside it, contrary to the docstring at 263
(`Overran`). Pausing the trader opens the window while it still runs.
`RecoveryAddsNoSecondDecision` is about one worker death: with two in one slot a
recovery may add a second decision.

### WriterGate

A thread's way is `frozen -> waiting -> writing <-> sending`, with nested
`writer()` sections (`Nest`, `Unnest`), and for a trader out into the model and
back (`OpenWindow`, `Return`, `CloseWindow`). The lock is two locks: the thread
lock of the process, reentrant, and the file lock, and each may time out on its
own. A manager takes the writer, tries the cycle lock without waiting, and
changes the binding. `Freeze` of a manager or a guard only marks that its request
has begun: what it knows of the account is what was bound then.

`AccountPromise` is what is left of this when nobody waits, nests or times out:
one writer, whose request goes to the bound account; a trader that sends for the
account of its cycle only; a change by the writer, when no cycle and no request is
under way. `WriterGateRefinement` maps the file lock to that lock, and a trader
past `Freeze` to a running cycle; so the cycle lock must say what the promise says
of cycles.

### TraderCycle and PositionCare

`TraderCycle` numbers every order ever taken; a position is the set of orders that
filled into it, and its identity (posId, cTime) is the first of them. What the
cycle knows is what it read: positions and pending orders before the window,
trackers and positions again after it. An order may fill, a position end, the
guard save trackers and the minute engine enter between any two of these reads.
`CycleSafe` says that a cycle never fills more slots than it may, and that every
filled scale-in is counted once, still reserved, or one whose reservation the
cycle lost (`unreserved`: a crash before `ReserveScale`).

`PositionCare` has the two programs that look after one position: prices are
levels, and a stop of level 0 is a segment that is not live. An amendment is
journaled in the trackers, sent, and may be taken much later, in any order, or
never. `CareSafe` says that what is open at the exchange is known to the trackers
of its position, and `StopNeverLoosens` that no live stop of a position moves
down. Both except amendments that no record names (`orphaned`), which the code
makes in two ways: the trader's own path does not save `pendingStopAmendment`
before it sends, so its death leaves an orphan; and the guard reads its orders
(position_guard.py:86) after its positions (64), so they may be of a later
position than the one its journal names.

### AlgoReader

Readers share a snapshot of the protective orders and one admission gate; a writer
puts down a marker and a new epoch before and after its write. `ReaderSafe` says
that no call gets a snapshot older than it is owed (a write that is told of before
the call began), and that requests keep their distance. A snapshot of mixed pages
can be returned, never served again from the cache. A snapshot may be served until
its end of life if the last invalidation of a write failed; the property is about
writes that were told of. After a reader dies on the wire the gap counts from its
reservation.

### CloseExecution

Between any two steps of `close` the exchange fills what is pending, stops the
position out or opens a later one. `CloseHonest` allows no market order beside a
passive exit that may still fill, none for a later position, and no success while
the position is there. The model shows two things it does not forbid: `close`
journals `confirmed` after an explicitly refused passive exit if the account is
flat, and an accepted market order may fill only in part.

### EquityGuard

The account's history is kept as running totals: what it has won and been given
after each event. One observation is under way at a time: balance, account row,
pool, preset, admission, each a transaction of its own. `LossesSurvive` and
`OnlyProfitUnblocks` relate what an allocation was to what it becomes, whatever is
skipped, transferred, rotated or dies between two saves. A bill of an unknown type,
or more than a thousand, blocks entries until a person intervenes
(entry_gateway.py:132, 147-148). The daily drawdown of the *account* is diluted by
deposits, that of an allocation is not; the property is about allocations.

### AccountBinding

`Bind`, `Unbind` and `Activate` start a change that reads the account twice
(`FlatReads`), archives the files and saves the binding, each a step of its own;
`Break` is the death of the backend. `BindingSafe` says that nothing is at risk in
an account taken out of use and that the files are never another account's;
`ScopeContinues` that an account in use keeps the name of its evidence, a rotated
key included. Unbinding a legacy account and binding it again changes that name;
it is not in use between.

### LedgerCycle

A build reads the history (sync_full_ledger.py:116) and then the positions (119)
and merges the two with what it has. `LedgerSafe` says that rows follow the
exchange, that confirmed closes are of the account that is built, and that a close
is announced once; a task killed between an announcement and its save makes it
twice, and the property counts those deaths. A request answered while another
account is selected is not a claim.

### InferenceCall and AnswerStream

The worker process may stall anywhere: only the kill at the deadline is sure to
end it. `CallSafe` says that a call that is over tells of every request that may
have reached the provider, returns only an answer read to its end in time, and
leaves no process. `AnswerStream` has the assembler of three protocols over the
kinds of events; a whole answer is defined for all of its events at once.
`AnswerIsWhole` says that the assembler, which sees one event at a time, calls
complete exactly the whole answers, and that a returned text is all the text of
one. `RefusedForGood` says that it is not stricter than that: what it refuses could
not have become whole, two events ahead in the run (`MaxAhead`), any number in the
theorem.

### ModelRegistry

Nothing locks the file of providers. Every handler, and every reader, reads it,
writes back what it made of it and, if it changes something, writes it whole
again. Changes can be lost; `RegistrySafe` says what cannot go wrong all the same:
a key stays with the provider it was given for, a rotated key is in force, and the
selection is one that was saved and is there. Two exceptions are the code's: after
a rotation of the key of the custom provider in use, or between `save_secrets` and
`update_env` of an activation, `environment_owner` (llm_manager.py:193-202) finds no
owner and an OpenAI entry without a key takes that provider's key over, so
`KeysStayHome` leaves the built-in OpenAI entry out; and a selection of the
settings form may name a model that is not listed.

### BrainCycle and WaitAudit

A cycle freezes a frame, empties both files, asks the model, and publishes
decisions and position instructions; it may fail, be killed, or be run by hand
beside the trader (with the lock of the brain only). `BrainSafe` says that a cycle
that failed leaves nothing half done, that the trader carries out what its own
cycle said, and that only entries the model saw are cancelled.

`NoSilentWait` says that a wait whose conditions are met, whose facts changed or
whose hours are over does not go on without a review that cites a change. The
first audit of an account with a baseline is saved without its cycle
(wait_audit.py:191 returns before 195-203), so the next frame does not know it; the
property excepts it.

### ScenarioShadow and TradingMemory

`ShadowSafe` says that a candidate triggers only across frames that were all seen
and ends once. A frame is claimed before its markets are read, so a monitor that
fails leaves a gap for the other.

`MemorySafe` says that the text in force does not change under a cycle, that what
is published is what the administrator saw, that a candidate is settled once, and
that accounts are apart. An operation of the administrator is one step because it
holds the account writer. A review whose transaction was open while the account
was switched may take the old global file for its account
(`memory_registry._bootstrap`); the entry preflight refuses decisions on the old
text (entry_gateway.py:217-222).

### Dashboard

A producer reads and replaces the snapshot in steps, requests are answered from
it, and account, clock and process may change between any two. `DashboardSafe`
says that an answer has one account's numbers and records, that what is called
live is fresh, and that a snapshot without numbers is never written to the file.
It excepts two cases the code has: a refresh reads the local records of the
account selected *now* (app.py:498-604, 1049) under the label of the account it
froze, and such a snapshot may be served after switching back (`crossed`); and the
snapshot is taken before its time, so an old one may be given a new age (`tooOld`).

## 3. Runs

Seven runs pass; five more check one statement of the repository each and show it
violated (the findings below).

| Run | Question | Instance and why it is enough |
|---|---|---|
| `entry_same` | is a decision bought once, is the ledger true and stable, and is the promise kept? | two decisions of one instrument, two orders (an original and its fallback or the other decision's), size 2 so that partial fills exist, a reconciliation batch of 1 so that the backlog overflows, capital pool on |
| `entry_two` | are working entries reserved, and does every attempt end? | two instruments: the case needs an order on another instrument than the candidate's; both Maker and limit legs |
| `services` | writer lock, delivery queue, care of a position, a close, a model call: safe, and does what must end end? | gate: a trader in its process, a confirmed close and an account change in two threads of another, two nested sections, two changes (the guard differs from the close only in having a process to itself); queue: three rows, a claim of two (one row is left out by priority), two workers, two attempts, one fault, one operator request; care: two segments, three levels, two positions, two amendments in flight, one crash; close: three contracts, three positions; call: three attempts |
| `positions` | what the account holds over time | cycle: three correlated coins, two slots, one per direction, three orders; equity: two events, two days, budget 2 of an equity of 3, so that a loss of one blocks; accounts: three accounts, four connections, both modes; readers: two, two pages, two tries, one write, one snag; research: two monitors, a candidate key, four frames of an hour of two; care: one segment, four levels, three positions, no crash - a loosening needs an amendment of a position that arrives in the next, and four levels to be seen |
| `records` | do records become true? | entry: one decision, two orders, the lost one and its successor; reader: one page, two tries; ledger: one lifecycle, two accounts, one request, one switch, one death; supervision: two backends, four workers, one loss |
| `decisions` | what becomes of a decision | scheduler: two slots and the start of a third, three runs, one crash, no review; brain: two cycles, one by hand, one fault, one rebinding; wait: facts of three values or missing, four hours, a reset; stream: six events |
| `reviews` | what is kept beside the trading | scheduler: slots of four units, one scheduled review and one request, one crash, two runs; memory: two accounts, one lesson, three versions, one proposal; registry: two custom providers and OpenAI, one model, three keys, three requests, two handlers and a reader; monitor: two accounts, a switch, a restart |
| `entry_live`, `sched_precedence`, `scale`, `partial`, `claims` (violations) | see the findings | the counterexamples are short |

Which property is checked where:

| Run | Properties |
|---|---|
| `entry_same` | `TypeOK`, `BoughtOnce`, `AtMostOneUncertain`, `LedgerTellsTruth`, `OneEntryPerInstrument`, `EvidenceNeverErased`, `ImplementsPromise` |
| `entry_two` | `WorkingEntriesReserved`, `TraderReturns` |
| `services` | `GateSafe`, `ImplementsAccountPromise`, `QueueSafe`, `SettledRowsRest`, `CareSafe`, `CallSafe`, `CloseHonest`, `ServicesLive` |
| `positions` | `CycleSafe`, `BindingSafe`, `ScopeContinues`, `ReaderSafe`, `ShadowSafe`, `StopNeverLoosens`, `FuseHolds` |
| `records` | `LedgerSafe`, `SettlementNeverRollsBack`, `SupervisionSafe`, `RecordsLive` |
| `decisions` | `SlotsSafe`, `RecoveryAddsNoSecondDecision`, `BrainSafe`, `NoSilentWait`, `AnswerIsWhole`, `RefusedForGood` |
| `reviews` | `ReviewBetweenSlots`, `RunsAreTold`, `MemorySafe`, `RegistrySafe`, `DashboardSafe` |

A property named `...Safe` or `...Holds` gathers the named parts of its module,
the type invariant among them. `ServicesLive` and `RecordsLive` gather liveness
properties, each under the fairness of its part: `WindowEnds`, `EveryRowSettles`,
`EventuallyProtected`, `CloseGoesThrough`, `CallEnds`; `LostIntentRetired`,
`ReadsEnd`, `LedgerSettles`, `WorkerComesBack`.

Every unbounded thing is bounded by a constant named `Max...` (orders, runs,
crashes, events, frames, versions, requests, time and so on). Attempts are bounded by
the code (`MaxAttempts`, six there and two here). The runs of several parts and of
the scheduler do not check deadlock: all rows may be settled, and bounded time
ends. Those of `EntryOrder` and `positions` check it. Symmetry (decisions, coins)
is used where no liveness is checked.

### Fairness

* `TraderReturns`: weak fairness of the handler as a whole. Each step is bounded
  by a command timeout (8 or 20 s) or by the 10 s of the configuration lock. That
  candidates come is not assumed.
* `LostIntentRetired`: besides, preflights recur (the strategies run every 15
  minutes), reads that fail do not fail every time (strong fairness of the
  location steps), the grace passes, and positions are closed some day. The
  property is false without the first two, and the code asks for an operator then.
* `EveryRowSettles`: a worker is started again (the supervisor looks every ten
  seconds), a step of a running worker is taken, a retry falls due. The adversary
  is bounded: one crash or failed transaction.
* `WindowEnds`: what was begun under the writer ends, waits with a timeout end
  (weak). `Release`, `Return`, `CloseWindow` are strongly fair: the trader waits in
  the kernel while the others poll every 50 ms, and the guard comes once a minute,
  so a lock that is free again and again is not missed for ever. That a writer is
  requested at all is not assumed.
* `EventuallyProtected`: whoever has the writer goes on; the guard comes every
  minute, and a close of what is unprotected does not fail for ever (strong).
* `CloseGoesThrough`: a close is asked for again, and its reads, cancellations and
  market order do not fail every time (strong).
* `CallEnds`: time passes, the timer and a caller that is not blocked go on, a
  socket times out. The worker owes nothing.
* `ReadsEnd`, `LedgerSettles`, `WorkerComesBack`: steps of a running program are
  taken; locks that are free again and again are got, and reads that are tried
  again and again succeed (strong). `WorkerComesBack` excuses backends that stop,
  restore or are all gone.
* `JobScheduler` has no liveness property; time cannot pass while a tick or a
  trader task is due, which is how the model says that ticks come every second.

### Findings

1. `entry_live`: "all unfilled entry orders take part in the risk reservation"
   (docs/STRATEGY_ENGINE_V2.md:26) does not hold with the capital pool, the
   minute engine and the horizon budget off. The pending orders are read before
   reconciliation, and an order that reconciliation finds working is not in them.
2. `sched_precedence`: "a natural 15-minute trader slot always has precedence over
   delayed recovery" (scheduler.py:411) does not hold when a recovery launched in
   time runs into the next slot; the trader of that slot misses its ten seconds.
3. `scale`: a reservation whose order cannot be read should "block another scale
   attempt" (ai_factor_trader.py:567-568); the gate of a scale-in (2579) looks at the
   count only, which is raised when the history can be read.
4. `partial`: the receipt of a partial close should stay out of the closed trades
   (sync_full_ledger.py:244-245); when the rest is closed between the reads of 116
   and 119, it becomes a closed trade and may be announced.
5. `claims`: "the first accepted candidate claims the group"
   (ai_factor_trader.py:2386-2388) holds for longs (2640); an accepted short (2741)
   claims nothing.

## 4. Proofs

Forty-four theorems, for every value of the constants that the named ASSUMEs allow:
naturals that are positive where the code has positive literals, sets of any
size, roles that are disjoint, and markers (`NoRow`, `Unset`, ...) that are not
values. Nothing else is assumed but what a theorem states: `PoolEnabled` for
`PoolReservesEveryEntry` and `OneEntryPerInstrument` (run `entry_live` shows why),
and `~PoolBusy` for `ReviewBetweenSlots`.

All are safety: an inductive invariant is true at first (`Init`), preserved by
every action, and implies the property; an action property follows from the
invariant and the step. None of the properties is inductive by itself. What each
invariant adds, and why the argument goes through:

* **`EntryOrderProofs`** (`TypeOK`, `BoughtOnce`, `AtMostOneUncertain`,
  `LedgerTellsTruth`, `OneEntryPerInstrument`, `WorkingEntriesReserved`,
  `EvidenceNeverErased`, `ImplementsPromise`). Which states a row and its order may
  be in together (a settled row tells the truth, a request in transit has a young
  row of unknown outcome), what the trader knows at each `pc` (at `fallback` its
  Maker is dead and bought nothing; after the sweep no row is of unknown outcome),
  and that a parent link names a finished Maker row. For the refinement: of two rows of
  a decision one is the fallback and the other its parent, unfilled
  (`ParentOfTwo`), so the one order that works is alone (`OthersAreOver`); a send
  is then `Open`, a fill `Buy`, an end `Close`, and everything else stutters. What
  was bought is a set of contracts, so its size needs no sum.
* **`DeliveryQueueProofs`** (`QueueSafe`, `SettledRowsRest`). The phase of the
  holder is tied to its batch, only the holder is in a phase other than `off`, and
  nobody was told of a row more often than faults explain.
* **`WriterGateProofs`** (`GateSafe`, that no request goes to an account not
  bound, `ImplementsAccountPromise`). For each place what a thread holds: the owner of the file lock is the one
  thread with `depth > 0`; the thread lock of a process is held as often as its
  owner is nested, also while it waits or returns; the cycle lock is with a trader
  from `locked` to `leaving`, window included. For the refinement: at most one cycle
  runs, none while an account is `changing`, and who sends has the file lock
  (`OneRuns`); taking and leaving the file lock are then `Acquire` and `Release`,
  also around the window, `Freeze` of a trader is `Begin`, and a death is `Lose` of
  all threads of its process.
* **`SchedulerProofs`** (`SlotsSafe`, `RunsAreTold`, `ReviewBetweenSlots`,
  `RecoveryAddsNoSecondDecision`). Who has
  a lane and what its task, row and child say (`LaneInv`, `Told`); a slot that was
  marked is not begun again (`NaturalInv`), a recovery is of the slot it was written
  for and before its window's end (`RecoveryInv`), nothing that is running has
  passed its timeout (`OnTime`), and a review fits in what is left of its slot
  (`ReviewInv`). A child that outlived its worker began no later than the lane's own
  and there is one for a death (`OrphanInv`), so while the worker has died once at
  most, a recovery that is due finds every such child past its call of the model, and
  its slot without a decision (`AnswerInv`).
* **`RecordProofs`**.
  * `SupervisionSafe`: whoever is past the file lock has it; a live worker named by
    the PID file is running or stopping.
  * `LedgerSafe`, `SettlementNeverRollsBack`: positions are read after the history,
    so a receipt or row without an open position is that of a close; an
    announcement not saved costs a death.
  * `ReaderSafe`: two invalidations for a write, or a snag (the writes carried out,
    afloat and failed are accounted for by the epochs); a snapshot's epoch is that
    of its first page; the gap is kept by `nextAt` and `quiet` together.
* **`ServiceProofs`**.
  * `CallSafe`: what the caller counts is what was asked, by route; the pipe says no
    more than the worker did.
  * `CloseHonest`: while a close waits for its market order nothing of its own stands.
  * `DashboardSafe`: what each snapshot, the file, the producer and a request are made
    of, and the bounds of their times.
  * `RegistrySafe`: whatever a handler works on is sound *by itself* - typed, every
    key given for its provider, the selection saved -, so it may be written whole at
    any time; and it is not older than the last rotation.
* **`DecisionProofs`**.
  * `NoSilentWait`: the conditions in force are those of the audit the next frame
    will load, and a frame under way has seen them.
  * `BrainSafe`: the trader waits for the brain exactly while the lock of the brain
    is its own; bindings only grow, so an instruction of another binding is never taken
    for one's own.
  * `MemorySafe`: staging raises the revision, so a page that was read is stale as
    soon as anything was added; a cycle's text is that of its first read.
  * `AnswerIsWhole`, `RefusedForGood`: what an assembler that is still open remembers of
    its events (`ChatOpen`, `ResponseOpen`, `ClaudeOpen`: an answer but for its end), in
    Claude's case that every block has ended but the one it has open; a refused
    prefix is `Hopeless`, whatever follows. The text is said to be in order and to
    be these pieces, not the result of a selection, so no induction is needed.
* **`PositionProofs`**.
  * `ShadowSafe`: a frame is applied by who claimed it; frames further apart than an
    hour have anchors of their own, so a window of memory at least that long
    knows every anchor that may come again.
  * `BindingSafe`, `ScopeContinues`: no request is sent during a change; the reads of
    the account taken out of use are ordered, so what one found gone cannot come
    back by the next; the files change hands before the binding is saved.
  * `CareSafe`, `StopNeverLoosens`: an amendment in flight is named by the trackers,
    by the copy of whoever works, or by the copy of the trader in its window; the
    weakest stop of a journal bounds what may be in force.
  * `CycleSafe`: the scale-ins a tracker has counted are a set of filled orders of the
    position it is of; nothing of a position is known to a tracker of another; the
    trackers do not change between the reads and the window; the order whose
    reservation is due is the last.
  * `FuseHolds`: the flows of the account's row are those since its origin; the worth
    of an allocation is what it began with and what was won since, deposits cancelled
    out; it is blocked exactly if its loss against its anchor says so or it is used up,
    and then on a day that has begun for it. A greater loss blocks where a smaller did,
    so only a profit unblocks.

Model-checked only:

* liveness (`TraderReturns`, `ServicesLive`, `RecordsLive`), which needs fairness
  and ENABLED, out of the prover's reach;
* the five findings, which are counterexamples.

## 5. What is not modelled

* Data: prices, sizes, leverage, margin, the strategy mathematics, prompts and
  answers. Where a check on data may refuse, the model may refuse.
* `EntryOrder`: one account at a time. Two orders of a decision are told apart by
  their mode. Order history is forgotten for canceled orders only (filled ones
  leave fills behind that the scan finds).
* `DeliveryQueue`: leases do not exist in the code. A message that kills the worker
  each time would be sent at each start, without end; crashes are bounded here and
  the repository makes no statement about it.
* `JobScheduler`: jobs that are neither trader nor review (same lanes, other
  cadence); the 120-second duplicate check on the slot file (a second guard behind
  the cycle lock); several accounts (one recovery row per account and slot). A
  trader child tries the cycle lock in the unit it is started in.
* `WriterGate`: the ledger and registry locks inside `mutation_guard` (always
  taken after the writer). Giving back the file and thread locks is one step: the
  thread lock outlives the file lock by a moment, which only delays.
* `PositionCare`: take profits; short positions, which mirror the long one.
* `CloseExecution`: `fast_close` of the backend, which does not read the position
  again after cancelling, and the close tokens.
* `EquityGuard`: the migration from USD to USDT, peaks, margin reservation, budgets
  of horizons. A flat account is read as one step (positions, then pending orders).
* `AccountBinding`: OAuth connections, the binding of news, the account's baseline.
* `LedgerCycle`: baseline resets, the page limit of 100 rows, rows without a result,
  the mirror in SQLite and other writers of the file; when a build is due is chosen.
* `ModelRegistry`: addresses, names, efforts, enabled flags, legacy identities, the
  provider made of the environment. A key of the settings form counts for the
  provider found in use when it is written.
* `AlgoReader`: callers of the risk preflight always force a read, so the rule of
  the cache for them is left out.
* `BrainCycle`: instructions other than a close, the council (one request here),
  changes of the strategy or profile while the model answers.
* `WaitAudit`: streak counters and a file that cannot be read.
* `AnswerStream`: bytes and JSON contents; limits of size and broken UTF-8 are
  `ReadBreaks`.
* `ScenarioShadow`: what candles show is chosen; time is counted in frames.
* `TradingMemory`: contents of reports, blocked and revised candidates, reviews
  skipped for lack of evidence.
* The components listed as `not_modelled` in PROJECT.json, with the reason there.

## 6. What is next

Two accounts in `JobScheduler`, and the other jobs of the shared executor.
