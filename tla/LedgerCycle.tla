----------------------------- MODULE LedgerCycle -----------------------------
(* trading_ledger.json: rebuilt from the exchange under one file lock         *)
(* (sync_full_ledger.build_lifecycle_ledger) by the worker's monitor          *)
(* (ledger_monitor.sync_once), which announces nothing, and by the tasks that *)
(* end a trader cycle or precede a backup or a briefing, which announce closed *)
(* trades.  Positions close, and receipts appear, between any two reads.       *)
EXTENDS Naturals

CONSTANTS
  Lifecycle, Account, AccountOf,    \* a position from its opening to its close
  NoRow, Unset,
  MaxRefreshes, MaxSwitches, MaxDeaths

(* The receipt of a position in the exchange's history, by its uTime: of a    *)
(* partial close, of the close, and of the close with its last settlement.    *)
PartialClose == 1
FullClose == 2
Settlement == 3

Row == [status : {"holding", "closed_pending", "closed"}, receipt : 0 .. Settlement, told : {"pending", "sent"}]

ASSUME LedgerAssumption ==
  /\ AccountOf \in [Lifecycle -> Account]
  /\ NoRow \notin Row /\ Unset \notin Lifecycle \cup Account
  /\ {MaxRefreshes, MaxSwitches, MaxDeaths} \subseteq Nat

VARIABLES
  stage, published,         \* the exchange: "none", "open", "closed"; the newest receipt, or 0
  inUse,                   \* the selected account
  confirmed, requested,    \* confirmed_closes.json, and the last ledger_refresh_request.json
  ledger,                  \* the row of each lifecycle
  watcher, watched,        \* the monitor, and the request it has read
  handled,                 \* handled_request of ledger_sync_status.json
  builder, building,       \* who has the lock, and the last step of its build
  scopeOf, page, seenOpen, \* its account, and its reads of the history and of the positions
  telling,                 \* the close it has announced and not yet saved as announced
  announced,               \* history: how often
  noted,                   \* history: the request that followed a confirmed close in this account
  switches, deaths
venue == <<stage, published>>
build == <<builder, building, scopeOf, page, seenOpen, telling>>
bounds == <<switches, deaths>>
ledgerVars == <<venue, inUse, confirmed, requested, ledger, watcher, watched, handled, build,
                announced, noted, bounds>>

NoPage == [l \in Lifecycle |-> 0]

LedgerInit ==
  /\ stage = [l \in Lifecycle |-> "none"] /\ published = NoPage
  /\ inUse \in Account
  /\ confirmed = {} /\ requested = 0
  /\ ledger = [l \in Lifecycle |-> NoRow]
  /\ watcher = "idle" /\ watched = 0 /\ handled = 0
  /\ builder = "nobody" /\ building = "no" /\ scopeOf = Unset /\ page = NoPage /\ seenOpen = {}
  /\ telling = Unset
  /\ announced = NoPage /\ noted = NoPage
  /\ switches = 0 /\ deaths = 0

-----------------------------------------------------------------------------
(* The exchange, the operator and the strategies' closes.                     *)
UnchangedOutside == UNCHANGED <<ledger, watcher, watched, handled, build, announced>>

OpenPosition(l) ==
  /\ stage[l] = "none" /\ stage' = [stage EXCEPT ![l] = "open"]
  /\ UNCHANGED <<published, inUse, confirmed, requested, noted, bounds>> /\ UnchangedOutside

ClosePart(l) ==
  /\ stage[l] = "open" /\ published[l] = 0 /\ published' = [published EXCEPT ![l] = PartialClose]
  /\ UNCHANGED <<stage, inUse, confirmed, requested, noted, bounds>> /\ UnchangedOutside

EndPosition(l) ==
  /\ stage[l] = "open" /\ stage' = [stage EXCEPT ![l] = "closed"]
  /\ UNCHANGED <<published, inUse, confirmed, requested, noted, bounds>> /\ UnchangedOutside

PublishReceipt(l) ==
  /\ stage[l] = "closed" /\ published[l] < Settlement
  /\ published' = [published EXCEPT ![l] = IF @ < FullClose THEN FullClose ELSE Settlement]
  /\ UNCHANGED <<stage, inUse, confirmed, requested, noted, bounds>> /\ UnchangedOutside

(* note_confirmed_close: the event is saved, then a request.  The strategies' *)
(* closes and the operator ask without an event, too.                         *)
NoteClose(l) ==
  /\ stage[l] = "closed" /\ AccountOf[l] = inUse /\ l \notin confirmed
  /\ confirmed' = confirmed \cup {l}
  /\ UNCHANGED <<venue, inUse, requested, noted, bounds>> /\ UnchangedOutside

RequestRefresh ==
  /\ requested < MaxRefreshes /\ requested' = requested + 1
  /\ noted' = [l \in Lifecycle |->
       IF l \in confirmed /\ noted[l] = 0 /\ AccountOf[l] = inUse THEN requested' ELSE noted[l]]
  /\ UNCHANGED <<venue, inUse, confirmed, bounds>> /\ UnchangedOutside

(* Nothing is claimed of a request answered while another account is in use.  *)
SwitchAccount(a) ==
  /\ switches < MaxSwitches /\ switches' = switches + 1
  /\ a # inUse /\ inUse' = a /\ noted' = NoPage
  /\ UNCHANGED <<venue, confirmed, requested, deaths>> /\ UnchangedOutside

-----------------------------------------------------------------------------
(* The build.                                                                *)
UnchangedByBuild == UNCHANGED <<venue, inUse, confirmed, requested, noted, bounds>>

(* sync_once reads the request before it waits for the lock.                  *)
Watch ==
  /\ watcher = "idle" /\ watcher' = "waiting" /\ watched' = requested
  /\ UNCHANGED <<ledger, handled, build, announced>> /\ UnchangedByBuild

TakeLock(who) ==
  /\ builder = "nobody" /\ builder' = who /\ building' = "begun" /\ scopeOf' = inUse
  /\ IF who = "monitor" THEN watcher = "waiting" /\ watcher' = "building" ELSE UNCHANGED watcher
  /\ UNCHANGED <<ledger, watched, handled, page, seenOpen, telling, announced>> /\ UnchangedByBuild

(* A page of the history may be delayed.                                      *)
ReadHistory(p) ==
  /\ building = "begun" /\ building' = "history"
  /\ \A l \in Lifecycle : p[l] <= IF AccountOf[l] = scopeOf THEN published[l] ELSE 0
  /\ page' = p
  /\ UNCHANGED <<ledger, watcher, watched, handled, builder, scopeOf, seenOpen, telling, announced>>
  /\ UnchangedByBuild

ReadOpen ==
  /\ building = "history" /\ building' = "positions"
  /\ seenOpen' = {l \in Lifecycle : AccountOf[l] = scopeOf /\ stage[l] = "open"}
  /\ UNCHANGED <<ledger, watcher, watched, handled, builder, scopeOf, page, telling, announced>>
  /\ UnchangedByBuild

RowStatus(l) == IF ledger[l] = NoRow THEN "none" ELSE ledger[l].status

(* A receipt makes a closed row, unless the row has a newer one already.      *)
(* Seeded faults: a delayed page takes its place; a rebuilt row is new; a row    *)
(* keeps its first receipt.                                                  *)
ClosedRowFirst(l) ==
  IF RowStatus(l) = "closed" THEN ledger[l]
  ELSE [status |-> "closed", receipt |-> page[l], told |-> "pending"]
ClosedRowFromPage(l) ==
  [status |-> "closed", receipt |-> page[l],
   told |-> IF RowStatus(l) = "closed" THEN ledger[l].told ELSE "pending"]
ClosedRowAfresh(l) ==
  IF RowStatus(l) = "closed" /\ ledger[l].receipt >= page[l] THEN ledger[l]
  ELSE [status |-> "closed", receipt |-> page[l], told |-> "pending"]
ClosedRow(l) ==
  IF RowStatus(l) = "closed" /\ ledger[l].receipt > page[l] THEN ledger[l]
  ELSE [status |-> "closed", receipt |-> page[l],
        told |-> IF RowStatus(l) = "closed" THEN ledger[l].told ELSE "pending"]

Merged(l) ==
  IF l \in seenOpen THEN [status |-> "holding", receipt |-> 0, told |-> "pending"]
  ELSE IF page[l] > 0 THEN ClosedRow(l) ELSE ledger[l]

(* project_rows: closed, but not settled.                                     *)
(* Seeded fault: rows of every account are compared with these positions.     *)
GoneAnywhere(l) == l \in confirmed \/ l \notin seenOpen
Gone(l) == AccountOf[l] = scopeOf /\ (l \in confirmed \/ l \notin seenOpen)

Projected(l) ==
  LET row == Merged(l) IN
  IF row # NoRow /\ row.status # "closed" /\ Gone(l) THEN [row EXCEPT !.status = "closed_pending"] ELSE row

(* Written at once; a build without announcements ends here.                  *)
WriteLedger ==
  /\ building = "positions" /\ ledger' = [l \in Lifecycle |-> Projected(l)]
  /\ IF builder = "task" THEN building' = "telling" /\ UNCHANGED <<builder, watcher>>
     ELSE building' = "no" /\ builder' = "nobody" /\ watcher' = "built"
  /\ page' = NoPage /\ seenOpen' = {} /\ scopeOf' = Unset
  /\ UNCHANGED <<watched, handled, telling, announced>> /\ UnchangedByBuild

(* Seeded fault: the request is read when the build is over.                  *)
WriteStatusLate ==
  /\ watcher = "built" /\ watcher' = "idle" /\ handled' = requested /\ watched' = 0
  /\ UNCHANGED <<ledger, build, announced>> /\ UnchangedByBuild
WriteStatus ==
  /\ watcher = "built" /\ watcher' = "idle" /\ handled' = watched /\ watched' = 0
  /\ UNCHANGED <<ledger, build, announced>> /\ UnchangedByBuild

Announce(l) ==
  /\ building = "telling" /\ telling = Unset
  /\ RowStatus(l) = "closed" /\ ledger[l].told = "pending"
  /\ telling' = l /\ announced' = [announced EXCEPT ![l] = @ + 1]
  /\ UNCHANGED <<ledger, watcher, watched, handled, builder, building, scopeOf, page, seenOpen>>
  /\ UnchangedByBuild

SaveAnnounced ==
  /\ telling # Unset /\ telling' = Unset
  /\ ledger' = [ledger EXCEPT ![telling].told = "sent"]
  /\ UNCHANGED <<watcher, watched, handled, builder, building, scopeOf, page, seenOpen, announced>>
  /\ UnchangedByBuild

(* Seeded fault: the monitor does not come back.                             *)
FreedForEver ==
  /\ builder' = "nobody" /\ building' = "no" /\ page' = NoPage /\ seenOpen' = {} /\ telling' = Unset
  /\ scopeOf' = Unset /\ UNCHANGED <<watcher, watched>>
Freed ==
  /\ builder' = "nobody" /\ building' = "no" /\ page' = NoPage /\ seenOpen' = {} /\ telling' = Unset
  /\ scopeOf' = Unset
  /\ watcher' = IF builder = "monitor" THEN "idle" ELSE watcher
  /\ watched' = IF builder = "monitor" THEN 0 ELSE watched

FinishBuild ==
  /\ building = "telling" /\ telling = Unset
  /\ \A l \in Lifecycle : RowStatus(l) = "closed" => ledger[l].told = "sent"
  /\ Freed /\ UNCHANGED <<ledger, handled, announced>> /\ UnchangedByBuild

(* A read or an announcement fails: the ledger stays as it is, and so does    *)
(* the request.                                                              *)
BuildFails ==
  /\ building \in {"begun", "history", "telling"} /\ telling = Unset /\ Freed
  /\ UNCHANGED <<ledger, handled, announced>> /\ UnchangedByBuild

BuilderDies ==
  /\ builder # "nobody" /\ deaths < MaxDeaths /\ deaths' = deaths + 1 /\ Freed
  /\ UNCHANGED <<venue, inUse, confirmed, requested, noted, switches, ledger, handled, announced>>

HistoryPages == [Lifecycle -> 0 .. Settlement]
BuildStep ==
  \/ Watch \/ WriteStatus
  \/ \E who \in {"monitor", "task"} : TakeLock(who)
  \/ \E p \in HistoryPages : ReadHistory(p)
  \/ ReadOpen \/ WriteLedger \/ SaveAnnounced \/ FinishBuild
  \/ \E l \in Lifecycle : Announce(l)

LedgerNext ==
  \/ \E l \in Lifecycle :
       OpenPosition(l) \/ ClosePart(l) \/ EndPosition(l) \/ PublishReceipt(l) \/ NoteClose(l)
  \/ RequestRefresh \/ \E a \in Account : SwitchAccount(a)
  \/ BuildStep \/ BuildFails \/ BuilderDies
LedgerSpec == LedgerInit /\ [][LedgerNext]_ledgerVars

(* Tasks and monitor come back in time, and their reads and announcements     *)
(* succeed, with a page that is not delayed, if tried often enough.            *)
CurrentPage == [l \in Lifecycle |-> IF AccountOf[l] = scopeOf THEN published[l] ELSE 0]
LedgerFairness ==
  /\ WF_ledgerVars(BuildStep)
  /\ SF_ledgerVars(TakeLock("task"))
  /\ SF_ledgerVars(builder = "task" /\ ReadHistory(CurrentPage))
  /\ SF_ledgerVars(builder = "task" /\ page = CurrentPage /\ ReadOpen)
  /\ \A l \in Lifecycle : SF_ledgerVars(Announce(l))

-----------------------------------------------------------------------------
LedgerTypeOK ==
  /\ stage \in [Lifecycle -> {"none", "open", "closed"}] /\ published \in HistoryPages
  /\ inUse \in Account /\ scopeOf \in Account \cup {Unset}
  /\ confirmed \subseteq Lifecycle /\ {requested, watched, handled} \subseteq 0 .. MaxRefreshes
  /\ ledger \in [Lifecycle -> {NoRow} \cup Row]
  /\ \A l \in Lifecycle : RowStatus(l) = "closed" <=> (ledger[l] # NoRow /\ ledger[l].receipt > 0)
  /\ watcher \in {"idle", "waiting", "building", "built"} /\ (watcher = "building" <=> builder = "monitor")
  /\ builder \in {"nobody", "monitor", "task"}
  /\ building \in {"no", "begun", "history", "positions", "telling"}
  /\ page \in HistoryPages /\ seenOpen \subseteq Lifecycle /\ telling \in Lifecycle \cup {Unset}
  /\ announced \in [Lifecycle -> Nat] /\ noted \in [Lifecycle -> 0 .. MaxRefreshes]
  /\ switches \in 0 .. MaxSwitches /\ deaths \in 0 .. MaxDeaths

(* A row is taken for closed, or closed and unsettled, only when its position *)
(* is, whatever account was selected and whatever closed between the reads.    *)
ClosedWhenGone ==
  \A l \in Lifecycle : RowStatus(l) \in {"closed_pending", "closed"} => stage[l] = "closed"

(* "A delayed/overlapping API page must not roll settlement backward": closed  *)
(* rows are never lost, nor older than they were, in a build of any account.   *)
SettlementNeverRollsBack ==
  [][\A l \in Lifecycle : RowStatus(l) = "closed" =>
       ledger'[l] # NoRow /\ ledger'[l].status = "closed" /\ ledger'[l].receipt >= ledger[l].receipt]_ledgerVars

(* A request that followed a confirmed close is handled by a build that shows  *)
(* it, although requests overwrite each other and builds wait for one another. *)
HandledMeansShown ==
  \A l \in Lifecycle : noted[l] \in 1 .. handled => RowStatus(l) # "holding"

(* A closed trade is announced once, by whichever task comes to it, and again  *)
(* only if one died between the announcement and its record.                  *)
AnnouncedOnce == \A l \in Lifecycle : announced[l] <= 1 + deaths

(* "Keep that receipt on the holding row, not in completed-trade statistics": *)
(* the receipt of a partial close is not taken for that of the close.         *)
PartialIsNoTrade ==
  \A l \in Lifecycle : RowStatus(l) = "closed" => ledger[l].receipt # PartialClose

(* What was settled is in the ledger, with its last receipt, and announced,    *)
(* unless the account changes.                                                *)
SettledInLedger(l) == RowStatus(l) = "closed" /\ ledger[l].receipt = Settlement /\ announced[l] > 0
LedgerSettles ==
  \A l \in Lifecycle : published[l] = Settlement /\ inUse = AccountOf[l]
                         ~> SettledInLedger(l) \/ inUse # AccountOf[l]

(* What the ledger says of closed trades is true, complete when it says that a *)
(* request is handled, and announced once.                                    *)
LedgerSafe == LedgerTypeOK /\ ClosedWhenGone /\ HandledMeansShown /\ AnnouncedOnce
=============================================================================
