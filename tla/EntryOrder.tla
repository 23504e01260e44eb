------------------------------ MODULE EntryOrder ------------------------------
(***************************************************************************)
(* The life of one protected entry order: the durable intent row, the      *)
(* request sent to the exchange, the bounded Maker wait with its one       *)
(* fallback, and the read-only reconciliation that every later preflight   *)
(* runs before it may reserve another order.                               *)
(*                                                                         *)
(* The trader holds the account's writer lock from the first preflight     *)
(* read to the last reply (scripts/trade_lock.py), so there is one trader; *)
(* what it races with is the exchange, which accepts, fills, cancels and   *)
(* forgets orders at any moment, and its own death: Abandon models a crash *)
(* and every exception that leaves the handler without a durable write.    *)
(*                                                                         *)
(* Prices, sizes, margin and liquidity are data no property here tells     *)
(* apart: a check of them that rejects the candidate is an Abandon.        *)
(***************************************************************************)
EXTENDS Naturals, FiniteSets

CONSTANTS
  Decision,      \* recorded model decisions, each authorising one entry
  Instrument,
  InstrumentOf,  \* the instrument a decision authorises
  NoDecision,
  MaxClients,    \* bound: client order ids issued in a behaviour
  BatchLimit,    \* intents one reconciliation pass reads (20 in the code)
  Size,          \* contracts of a full-size order
  PoolEnabled    \* capital pool, minute engine or horizon budget enabled

ASSUME EntryAssumption ==
  /\ InstrumentOf \in [Decision -> Instrument]
  /\ NoDecision \notin Decision
  /\ MaxClients \in Nat \ {0}
  /\ BatchLimit \in Nat \ {0}
  /\ Size \in Nat \ {0}
  /\ PoolEnabled \in BOOLEAN

Client   == 1 .. MaxClients
NoClient == 0
Mode     == {"maker_first", "limit", "bounded_fallback"}
NoLink   == [client |-> NoClient, state |-> "none"]

VARIABLES
  (* strategy_evidence.sqlite3: survives a crash *)
  intent,         \* state column of the intents table, "none" for no row
  decisionOf,     \* decision_id of the row (its leg is told by the mode)
  mode,           \* entry_execution_mode in the row's payload
  parent,         \* fallback_parent link of the child decision event
  (* the exchange *)
  order,          \* what became of the request carrying the client id
  fill,           \* accFillSz
  retained,       \* whether order lookups still return a finished order
  position,       \* open contracts per instrument
  settled,        \* the intent is older than GRACE_SECONDS
  (* the trader's locals *)
  pc, cur, curMode, curClient,
  seenPositions, seenPending, todo, blocked

durable  == <<intent, decisionOf, mode, parent>>
exchange == <<order, fill, retained, position>>
scan     == <<seenPositions, seenPending, todo, blocked>>
local    == <<pc, cur, curMode, curClient, scan>>
vars     == <<durable, exchange, settled, local>>

IntentState == {"none", "unknown", "acknowledged", "pending", "filled",
                "canceled", "not_submitted", "not_found"}
OrderState  == {"none", "transit", "lost", "rejected", "live",
                "partially_filled", "filled", "canceled"}
PC == {"idle", "read_positions", "read_pending", "sweep", "absence_scan",
       "recheck_positions", "recheck_pending", "reserve", "dispatch", "sent",
       "wait", "cancel", "reread", "settle", "fallback"}

Resolved == {"filled", "canceled", "not_submitted", "not_found"}
Working(c)     == order[c] \in {"live", "partially_filled"}
Accepted(c)    == order[c] \in {"live", "partially_filled", "filled", "canceled"}
Visible(c)     == Accepted(c) /\ retained[c]
Recoverable    == {c \in Client : intent[c] \in {"unknown", "acknowledged", "pending"}}
InstrumentAt(c) == InstrumentOf[decisionOf[c]]

-----------------------------------------------------------------------------
ClearScan == /\ seenPositions' = [i \in Instrument |-> 0]
             /\ seenPending' = {} /\ todo' = {} /\ blocked' = FALSE

(* Leaving the handler: the locals are gone, the rows and orders stay.     *)
ResetLocals ==
  /\ pc' = "idle" /\ cur' = NoDecision /\ curMode' = "limit" /\ curClient' = NoClient
  /\ ClearScan

GoTo(label) == pc' = label

Init ==
  /\ intent = [c \in Client |-> "none"]
  /\ decisionOf = [c \in Client |-> NoDecision]
  /\ mode = [c \in Client |-> "limit"]
  /\ parent = [d \in Decision |-> NoLink]
  /\ order = [c \in Client |-> "none"]
  /\ fill = [c \in Client |-> 0]
  /\ retained = [c \in Client |-> TRUE]
  /\ position = [i \in Instrument |-> 0]
  /\ settled = [c \in Client |-> FALSE]
  /\ pc = "idle" /\ cur = NoDecision /\ curMode = "limit" /\ curClient = NoClient
  /\ seenPositions = [i \in Instrument |-> 0]
  /\ seenPending = {} /\ todo = {} /\ blocked = FALSE

-----------------------------------------------------------------------------
(* Preflight: entry_gateway._prepare                                       *)

StartEntry(d, m) ==
  /\ pc = "idle"
  /\ GoTo("read_positions")
  /\ cur' = d /\ curMode' = m
  /\ UNCHANGED <<curClient, scan, durable, exchange, settled>>

(* The durable link is read again before the fallback may go on.           *)
ParentValid(d) ==
  /\ parent[d].client # NoClient
  /\ mode[parent[d].client] = "maker_first"
  /\ intent[parent[d].client] = parent[d].state

ReadPositions ==
  /\ pc = "read_positions"
  /\ curMode = "bounded_fallback" => ParentValid(cur)
  /\ seenPositions' = position
  /\ GoTo("read_pending")
  /\ UNCHANGED <<cur, curMode, curClient, seenPending, todo, blocked, durable, exchange, settled>>

PendingNow == {<<c, fill[c]>> : c \in {b \in Client : Working(b)}}
SeenPendingClients == {p[1] : p \in seenPending}

(* The oldest BatchLimit recoverable intents; more than that is an         *)
(* overflow, which rejects the candidate once the sweep is over.           *)
Batch == {c \in Recoverable : Cardinality({b \in Recoverable : b <= c}) <= BatchLimit}

ReadPending ==
  /\ pc = "read_pending"
  /\ seenPending' = PendingNow
  /\ todo' = Batch
  /\ blocked' = (Batch # Recoverable)
  /\ GoTo("sweep")
  /\ UNCHANGED <<cur, curMode, curClient, seenPositions, durable, exchange, settled>>

-----------------------------------------------------------------------------
(* Reconciliation: entry_gateway.reconcile_intents calling locate          *)

Next1(c) == c \in todo /\ \A b \in todo : c <= b

(* Seeded fault: the working states are not folded into "pending".         *)
ObservedRaw(c) == order[c]

Observed(c) == IF Working(c) THEN "pending" ELSE order[c]

FinishLocated(c, state) ==
  /\ intent' = [intent EXCEPT ![c] = state]
  /\ todo' = todo \ {c}
  /\ GoTo("sweep")
  /\ UNCHANGED <<cur, curMode, curClient, seenPositions, seenPending, blocked,
                 decisionOf, mode, parent, exchange, settled>>

(* A row already known to be live is taken from the preflight's snapshot.  *)
LocateInSnapshot(c) ==
  /\ pc = "sweep" /\ Next1(c)
  /\ intent[c] = "pending" /\ c \in SeenPendingClients
  /\ FinishLocated(c, "pending")

LocateById(c) ==
  /\ pc = "sweep" /\ Next1(c)
  /\ ~(intent[c] = "pending" /\ c \in SeenPendingClients)
  /\ Visible(c)
  /\ FinishLocated(c, Observed(c))

(* A definite miss goes on to the full scan only past the grace period (an *)
(* intent past the history window too is one of the cases of LocateFails); *)
(* the exchange's lookup by id may miss what its lists still show.         *)
(* Seeded fault: the grace period is not waited for.                       *)
MissByIdAtOnce(c) ==
  /\ pc = "sweep" /\ Next1(c)
  /\ GoTo("absence_scan")
  /\ UNCHANGED <<cur, curMode, curClient, scan, durable, exchange, settled>>

MissById(c) ==
  /\ pc = "sweep" /\ Next1(c)
  /\ ~(intent[c] = "pending" /\ c \in SeenPendingClients)
  /\ settled[c]
  /\ GoTo("absence_scan")
  /\ UNCHANGED <<cur, curMode, curClient, scan, durable, exchange, settled>>

ScanFinds(c) ==
  /\ pc = "absence_scan" /\ Next1(c)
  /\ Visible(c)
  /\ FinishLocated(c, Observed(c))

(* Seeded fault: the proven absence is not written to the row.             *)
ScanProvesAbsentUnsaved(c) ==
  /\ pc = "absence_scan" /\ Next1(c) /\ ~Visible(c)
  /\ fill[c] = 0 /\ position[InstrumentAt(c)] = 0 /\ intent[c] = "unknown"
  /\ FinishLocated(c, "unknown")

(* Complete lists, no execution of this client id, a flat instrument, and  *)
(* no earlier positive evidence that the exchange had accepted it.         *)
(* Seeded fault: earlier evidence of acceptance is not looked at.          *)
ScanProvesAbsentAnyway(c) ==
  /\ pc = "absence_scan" /\ Next1(c) /\ ~Visible(c)
  /\ fill[c] = 0 /\ position[InstrumentAt(c)] = 0
  /\ FinishLocated(c, "not_found")

ScanProvesAbsent(c) ==
  /\ pc = "absence_scan" /\ Next1(c)
  /\ ~Visible(c)
  /\ fill[c] = 0
  /\ position[InstrumentAt(c)] = 0
  /\ intent[c] = "unknown"
  /\ FinishLocated(c, "not_found")

(* Seeded fault: a row that cannot be located does not block the sweep.    *)
LocateFailsUnblocked(c) ==
  /\ pc \in {"sweep", "absence_scan"} /\ Next1(c)
  /\ todo' = todo \ {c} /\ GoTo("sweep")
  /\ UNCHANGED <<cur, curMode, curClient, seenPositions, seenPending, blocked,
                 durable, exchange, settled>>

(* Any other outcome keeps the row, and the sweep still reads the others.  *)
(* Seeded fault: an intent that cannot be located is tried again at once.  *)
LocateFailsAgain(c) ==
  /\ pc \in {"sweep", "absence_scan"} /\ Next1(c)
  /\ blocked' = TRUE /\ GoTo("sweep")
  /\ UNCHANGED <<cur, curMode, curClient, seenPositions, seenPending, todo,
                 durable, exchange, settled>>

LocateFails(c) ==
  /\ pc \in {"sweep", "absence_scan"} /\ Next1(c)
  /\ todo' = todo \ {c}
  /\ blocked' = TRUE
  /\ GoTo("sweep")
  /\ UNCHANGED <<cur, curMode, curClient, seenPositions, seenPending, durable, exchange, settled>>

-----------------------------------------------------------------------------
(* Admission and the durable reservation                                   *)

(* Seeded fault: pending entries of the candidate's instrument pass.       *)
AdmitAnyInstrument ==
  /\ pc = "sweep" /\ todo = {} /\ ~blocked
  /\ GoTo("recheck_positions")
  /\ UNCHANGED <<cur, curMode, curClient, scan, durable, exchange, settled>>

Admit ==
  /\ pc = "sweep" /\ todo = {} /\ ~blocked
  /\ \A c \in SeenPendingClients : InstrumentAt(c) # InstrumentOf[cur]
  /\ GoTo("recheck_positions")
  /\ UNCHANGED <<cur, curMode, curClient, scan, durable, exchange, settled>>

RecheckPositions ==
  /\ pc = "recheck_positions"
  /\ position = seenPositions
  /\ seenPositions' = [i \in Instrument |-> 0]     \* not read again
  /\ GoTo("recheck_pending")
  /\ UNCHANGED <<cur, curMode, curClient, seenPending, todo, blocked, durable, exchange, settled>>

(* Seeded fault: the pending list is not compared again.                   *)
RecheckPendingSkipped ==
  /\ pc = "recheck_pending" /\ GoTo("reserve")
  /\ UNCHANGED <<cur, curMode, curClient, scan, durable, exchange, settled>>

RecheckPending ==
  /\ pc = "recheck_pending"
  /\ PoolEnabled => PendingNow = seenPending
  /\ GoTo("reserve")
  /\ UNCHANGED <<cur, curMode, curClient, scan, durable, exchange, settled>>

IsFallback(m) == m = "bounded_fallback"

(* UNIQUE(scope, decision_id, inst_id) of the intents table.               *)
(* Seeded fault: the intents table lost its unique key.                    *)
DuplicateNever(d, m) == FALSE

Duplicate(d, m) ==
  \E c \in Client : /\ intent[c] # "none"
                    /\ decisionOf[c] = d
                    /\ IsFallback(mode[c]) = IsFallback(m)

FreshClient(c) == intent[c] = "none" /\ \A b \in Client : b < c => intent[b] # "none"

BeginIntent(c) ==
  /\ pc = "reserve"
  /\ FreshClient(c)
  /\ ~Duplicate(cur, curMode)
  /\ intent' = [intent EXCEPT ![c] = "unknown"]
  /\ decisionOf' = [decisionOf EXCEPT ![c] = cur]
  /\ mode' = [mode EXCEPT ![c] = curMode]
  /\ curClient' = c
  /\ ClearScan
  /\ GoTo("dispatch")
  /\ UNCHANGED <<parent, cur, curMode, exchange, settled>>

-----------------------------------------------------------------------------
(* Dispatch: submit_protected_limit_order.dispatch_attempt                 *)

(* The guard refuses before anything was sent.                             *)
DispatchBlocked ==
  /\ pc = "dispatch"
  /\ intent' = [intent EXCEPT ![curClient] = "not_submitted"]
  /\ ResetLocals
  /\ UNCHANGED <<decisionOf, mode, parent, exchange, settled>>

SendOrder ==
  /\ pc = "dispatch"
  /\ order' = [order EXCEPT ![curClient] = "transit"]
  /\ GoTo("sent")
  /\ UNCHANGED <<cur, curMode, curClient, scan, durable, fill, retained, position, settled>>

(* A verified receipt; a limit order is left to later reconciliation.      *)
ReplyAccepted ==
  /\ pc = "sent" /\ Accepted(curClient)
  /\ intent' = [intent EXCEPT ![curClient] = "acknowledged"]
  /\ IF mode[curClient] = "maker_first"
       THEN GoTo("wait") /\ UNCHANGED <<cur, curMode, curClient, scan>>
       ELSE ResetLocals
  /\ UNCHANGED <<decisionOf, mode, parent, exchange, settled>>

(* Only a Maker's complete business rejection is acted upon; a limit       *)
(* order's rejection stays unknown until it is reconciled.                 *)
ReplyRejected ==
  /\ pc = "sent" /\ order[curClient] = "rejected" /\ mode[curClient] = "maker_first"
  /\ intent' = [intent EXCEPT ![curClient] = "not_submitted"]
  /\ GoTo("fallback")
  /\ UNCHANGED <<cur, curMode, curClient, scan, decisionOf, mode, parent, exchange, settled>>

-----------------------------------------------------------------------------
(* The bounded Maker wait                                                  *)

(* Seeded fault: the cancel acknowledgement is taken as proof of no fill.  *)
ProvenByCancelAck(c) == order[c] = "canceled"

ProvenUnfilled(c) == order[c] = "canceled" /\ retained[c] /\ fill[c] = 0

MakerStatus ==
  /\ pc = "wait"
  /\ \/ order[curClient] = "live" /\ GoTo("cancel")
     \/ ProvenUnfilled(curClient) /\ GoTo("settle")
  /\ UNCHANGED <<cur, curMode, curClient, scan, durable, exchange, settled>>

(* The cancel request may lose its race with a fill, or be lost itself.    *)
CancelMaker ==
  /\ pc = "cancel"
  /\ order' \in {order, [order EXCEPT ![curClient] = IF Working(curClient) THEN "canceled" ELSE @]}
  /\ GoTo("reread")
  /\ UNCHANGED <<cur, curMode, curClient, scan, durable, fill, retained, position, settled>>

RereadMaker ==
  /\ pc = "reread" /\ ProvenUnfilled(curClient)
  /\ GoTo("settle")
  /\ UNCHANGED <<cur, curMode, curClient, scan, durable, exchange, settled>>

SettleMaker ==
  /\ pc = "settle"
  /\ intent' = [intent EXCEPT ![curClient] = "canceled"]
  /\ GoTo("fallback")
  /\ UNCHANGED <<cur, curMode, curClient, scan, decisionOf, mode, parent, exchange, settled>>

(* maker_fallback.create_decision: one child decision, then a new preflight *)
CreateFallback ==
  /\ pc = "fallback"
  /\ mode[curClient] = "maker_first" /\ decisionOf[curClient] = cur
  /\ intent[curClient] \in {"canceled", "not_submitted"}
  /\ parent' = [parent EXCEPT ![cur] = [client |-> curClient, state |-> intent[curClient]]]
  /\ curMode' = "bounded_fallback" /\ curClient' = NoClient
  /\ GoTo("read_positions")
  /\ UNCHANGED <<cur, scan, intent, decisionOf, mode, exchange, settled>>

(* A crash, a timeout, a rejected candidate or an exception: no retry.     *)
Abandon ==
  /\ pc # "idle"
  /\ ResetLocals
  /\ UNCHANGED <<durable, exchange, settled>>

-----------------------------------------------------------------------------
(* The exchange and the passage of time                                    *)

Decide(c, state) ==
  /\ order[c] = "transit"
  /\ order' = [order EXCEPT ![c] = state]
  /\ UNCHANGED <<fill, retained, position, durable, settled, local>>

FillOne(c) ==
  /\ Working(c)
  /\ fill' = [fill EXCEPT ![c] = @ + 1]
  /\ order' = [order EXCEPT ![c] = IF fill[c] + 1 = Size THEN "filled" ELSE "partially_filled"]
  /\ position' = [position EXCEPT ![InstrumentAt(c)] = @ + 1]
  /\ UNCHANGED <<retained, durable, settled, local>>

(* Entry TTL cleanup, the user, a post-only refusal, the venue.            *)
CancelOther(c) ==
  /\ Working(c)
  /\ order' = [order EXCEPT ![c] = "canceled"]
  /\ UNCHANGED <<fill, retained, position, durable, settled, local>>

(* Canceled orders leave the order lists before their fills do. (Lookups   *)
(* of a resolved row's order no longer happen, nor is its age read again.) *)
Forget(c) ==
  /\ order[c] = "canceled" /\ retained[c] /\ c \in Recoverable
  /\ retained' = [retained EXCEPT ![c] = FALSE]
  /\ UNCHANGED <<order, fill, position, durable, settled, local>>

ClosePosition(i) ==
  /\ position[i] # 0
  /\ position' = [position EXCEPT ![i] = 0]
  /\ UNCHANGED <<order, fill, retained, durable, settled, local>>

(* GRACE_SECONDS is 120; dispatch takes at most two configuration locks of *)
(* 10 s and a command of 20 s, so by then the exchange has decided.        *)
Settle(c) ==
  /\ c \in Recoverable /\ ~settled[c]
  /\ order[c] # "transit" /\ ~(pc = "dispatch" /\ curClient = c)
  /\ settled' = [settled EXCEPT ![c] = TRUE]
  /\ UNCHANGED <<durable, exchange, local>>

-----------------------------------------------------------------------------
Locate(c) == \/ LocateInSnapshot(c) \/ LocateById(c) \/ MissById(c)
             \/ ScanFinds(c) \/ ScanProvesAbsent(c) \/ LocateFails(c)

Trader ==
  \/ \E d \in Decision, m \in {"maker_first", "limit"} : StartEntry(d, m)
  \/ ReadPositions \/ ReadPending
  \/ \E c \in Client : Locate(c)
  \/ Admit \/ RecheckPositions \/ RecheckPending
  \/ \E c \in Client : BeginIntent(c)
  \/ DispatchBlocked \/ SendOrder \/ ReplyAccepted \/ ReplyRejected
  \/ MakerStatus \/ CancelMaker \/ RereadMaker \/ SettleMaker \/ CreateFallback
  \/ Abandon

Environment ==
  \/ \E c \in Client, s \in {"live", "rejected", "lost"} : Decide(c, s)
  \/ \E c \in Client : FillOne(c) \/ CancelOther(c) \/ Forget(c) \/ Settle(c)
  \/ \E i \in Instrument : ClosePosition(i)

Next == Trader \/ Environment

Spec == Init /\ [][Next]_vars

(* The trader's own progress: every step of a handler is bounded by a      *)
(* command timeout (8 s, 20 s) or by the configuration lock's 10 s. That a *)
(* candidate is evaluated at all is not assumed, nor is a crash.           *)
Handler ==
  \/ ReadPositions \/ ReadPending
  \/ \E c \in Client : Locate(c)
  \/ Admit \/ RecheckPositions \/ RecheckPending
  \/ \E c \in Client : BeginIntent(c)
  \/ SendOrder \/ ReplyAccepted \/ ReplyRejected
  \/ MakerStatus \/ CancelMaker \/ RereadMaker \/ SettleMaker \/ CreateFallback

FairSpec == Spec /\ WF_vars(Handler \/ Abandon)

(* What recovery needs besides: preflights go on (the strategies run every *)
(* 15 minutes), the exchange's reads do not fail for ever, and positions   *)
(* are closed by their stops or targets some day.                          *)
RecoveryFairness ==
  /\ WF_vars(Handler \/ Abandon)
  /\ WF_vars(\E d \in Decision : StartEntry(d, "limit"))
  /\ SF_vars(ReadPositions) /\ SF_vars(ReadPending)
  /\ \A c \in Client :
       /\ SF_vars(pc = "sweep" /\ Locate(c)) /\ SF_vars(pc = "absence_scan" /\ Locate(c))
       /\ SF_vars(MissById(c)) /\ SF_vars(ScanProvesAbsent(c))
       /\ WF_vars(Settle(c))
  /\ \A i \in Instrument : WF_vars(ClosePosition(i))

-----------------------------------------------------------------------------
(* Properties                                                              *)

(* Every variable keeps its type: rows only have the states of             *)
(* strategy_evidence.py, and no order is filled beyond its size.           *)
TypeOK ==
  /\ intent \in [Client -> IntentState]
  /\ decisionOf \in [Client -> Decision \cup {NoDecision}]
  /\ mode \in [Client -> Mode]
  /\ parent \in [Decision -> [client : Client \cup {NoClient}, state : IntentState]]
  /\ order \in [Client -> OrderState]
  /\ fill \in [Client -> 0 .. Size]
  /\ retained \in [Client -> BOOLEAN]
  /\ position \in [Instrument -> Nat]
  /\ settled \in [Client -> BOOLEAN]
  /\ pc \in PC
  /\ cur \in Decision \cup {NoDecision}
  /\ curMode \in Mode
  /\ curClient \in Client \cup {NoClient}
  /\ seenPositions \in [Instrument -> Nat]
  /\ seenPending \subseteq (Client \X (0 .. Size))
  /\ todo \subseteq Client
  /\ blocked \in BOOLEAN

SameDecision(b, c) == /\ intent[b] # "none" /\ intent[c] # "none"
                      /\ decisionOf[b] = decisionOf[c]
Outstanding(c) == order[c] = "transit" \/ Working(c)

(* One decision buys at most one order's worth: however the Maker's cancel *)
(* races its fills and whatever is crashed or retried, of the orders sent  *)
(* for a decision (original and fallback) at most one is ever filled, and  *)
(* two of them never work at the exchange together.                        *)
BoughtOnce ==
  \A b, c \in Client : b # c /\ SameDecision(b, c) =>
    /\ fill[b] = 0 \/ fill[c] = 0
    /\ ~(Outstanding(b) /\ Outstanding(c))

(* The account never has two entries of unknown outcome: a preflight that  *)
(* reserves a new one has first located every earlier intent, batches and  *)
(* read failures included.                                                 *)
AtMostOneUncertain ==
  \A b, c \in Client :
    intent[b] \in {"unknown", "acknowledged"} /\ intent[c] \in {"unknown", "acknowledged"} => b = c

(* A resolved row tells the truth about the exchange, for ever after: in   *)
(* particular nothing retired as absent or not submitted can still be on   *)
(* its way, be working or have been filled.                                *)
LedgerTellsTruth ==
  \A c \in Client :
    /\ intent[c] \in {"filled", "canceled"} => order[c] = intent[c]
    /\ intent[c] \in {"pending", "acknowledged"} => Accepted(c)
    /\ intent[c] \in {"not_submitted", "not_found"} => fill[c] = 0 /\ ~Outstanding(c)

(* finish_intent updates a row whatever its state is; all the same no      *)
(* resolved row is ever reopened or rewritten, and positive evidence of    *)
(* acceptance is never erased by a failure to find the order.              *)
EvidenceNeverErased ==
  [][\A c \in Client :
       /\ intent[c] \in Resolved => intent'[c] = intent[c]
       /\ intent[c] = "pending" => intent'[c] \in {"pending", "filled", "canceled"}
       /\ intent[c] = "acknowledged" => intent'[c] \notin {"unknown", "not_found", "not_submitted"}]_vars

(* An entry is reserved only on an instrument that has no other entry      *)
(* outstanding; the snapshot that says so was read before reconciliation.  *)
OneEntryPerInstrument ==
  \A b, c \in Client :
    b # c /\ Outstanding(b) /\ Outstanding(c) => InstrumentAt(b) # InstrumentAt(c)

(* Every entry that the ledger knows to be working has a part in the risk  *)
(* computed for the order about to be reserved.                            *)
WorkingEntriesReserved ==
  pc = "reserve" =>
    \A c \in Client : intent[c] = "pending" /\ Working(c) => c \in SeenPendingClients

(* However the reads fail, an entry attempt ends and gives the account's   *)
(* lock back: the sweep, the Maker wait and the fallback are all bounded.  *)
TraderReturns == pc # "idle" ~> pc = "idle"

(* A request the exchange never took does not block entries for ever: if   *)
(* its row is not settled at once, some later preflight retires it.        *)
LostIntentRetired ==
  \A c \in Client :
    intent[c] = "unknown" /\ order[c] \in {"lost", "rejected"}
      ~> intent[c] \in {"not_found", "not_submitted"}

=============================================================================
