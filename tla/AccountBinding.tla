--------------------------- MODULE AccountBinding ----------------------------
(* The account center (account_connections): candidate connections, and the   *)
(* change of the account the system trades on.  A change holds the writer, the *)
(* cycle lock and the registry for its whole length (mutation_guard), but the  *)
(* exchange goes on while it reads, and the process may die at any point.     *)
(* Connections are API keys.                                                  *)
EXTENDS Sequences

CONSTANTS
  NoOne,           \* no connection, no account, or no change
  Connection, Account,
  AccountOf,       \* the account a key belongs to
  Mode, ModeOf,    \* "demo" or "live", of an account
  LegacyMode,      \* what the old configuration trades
  Legacy,          \* and the account its key has in each mode
  Copy             \* the connection that will preserve it in the other mode

(* A change of the account, with the reads it still has to do.                 *)
Looked == Account \X {"positions", "orders", "stops"}
Change == [kind : {"bind", "unbind", "activate"}, mode : Mode, conn : Connection \cup {NoOne},
           stage : {"reading", "archived"}, todo : Seq(Looked)]

ASSUME BindingAssumption ==
  /\ NoOne \notin Connection \cup Account \cup Change
  /\ ModeOf \in [Account -> Mode]
  /\ AccountOf \in [Connection -> Account] /\ ModeOf \in [Account -> Mode]
  /\ LegacyMode \in Mode /\ Legacy \in [Mode -> Account]
  /\ \A m \in Mode : ModeOf[Legacy[m]] = m
  /\ Copy \in [Mode -> Connection \cup {NoOne}]
  /\ \A m \in Mode : Copy[m] # NoOne => AccountOf[Copy[m]] = Legacy[m]

VARIABLES
  status,                   \* of each connection; "ready": probed, and not long ago
  scope,                    \* the name under which its account's evidence is kept
  managed, active, binding, \* the saved bindings
  change,                   \* the change under way, and the reads it still has to do
  trackers, ledger,         \* whose state the runtime files hold
  holding, flight, unresolved  \* at the exchange, on the way there, and in the intents
registry == <<status, scope, managed, active, binding>>
files == <<trackers, ledger>>
exchange == <<holding, flight, unresolved>>
bindingVars == <<registry, change, files, exchange>>

Idle == NoOne
BindingInit ==
  /\ status = [c \in Connection |-> "absent"] /\ scope = [c \in Connection |-> "none"]
  /\ managed = FALSE /\ active = LegacyMode /\ binding = [m \in Mode |-> NoOne]
  /\ change = Idle /\ trackers = NoOne /\ ledger = NoOne
  /\ holding = [a \in Account |-> "flat"]
  /\ flight = [a \in Account |-> FALSE] /\ unresolved = {}

(* _current and resolve_environment: who is traded in a mode.                 *)
Current(m) == IF binding[m] # NoOne THEN AccountOf[binding[m]]
              ELSE IF managed THEN NoOne ELSE Legacy[m]
InUse == Current(active)
ScopeInUse == IF managed THEN scope[binding[active]] ELSE "legacy"

-----------------------------------------------------------------------------
(* What the trader does on the account in use, between changes.               *)
RunCycle ==
  /\ change = Idle /\ InUse # NoOne
  /\ trackers' = InUse /\ ledger' = InUse
  /\ UNCHANGED <<registry, change, exchange>>

SendEntry ==
  /\ change = Idle /\ InUse # NoOne
  /\ holding[InUse] = "flat" /\ InUse \notin unresolved
  /\ unresolved' = unresolved \cup {InUse} /\ flight' = [flight EXCEPT ![InUse] = TRUE]
  /\ UNCHANGED <<registry, change, files, holding>>

(* An intent is resolved once the request has ended at the exchange (module   *)
(* EntryOrder); working orders no longer count as unresolved here.            *)
ReconcileIntents ==
  /\ change = Idle /\ InUse \in unresolved /\ ~flight[InUse]
  /\ unresolved' = unresolved \ {InUse}
  /\ UNCHANGED <<registry, change, files, holding, flight>>

(* The exchange takes a request or loses it, fills an order, which turns its  *)
(* attached stop into a protection order, and ends positions.                 *)
Arrive(a, taken) ==
  /\ flight[a] /\ flight' = [flight EXCEPT ![a] = FALSE]
  /\ holding' = [holding EXCEPT ![a] = IF taken THEN "working" ELSE @]
  /\ UNCHANGED <<registry, change, files, unresolved>>

Move(a) ==
  /\ \/ holding[a] = "working" /\ holding' = [holding EXCEPT ![a] = "held"]
     \/ holding[a] # "flat" /\ holding' = [holding EXCEPT ![a] = "flat"]
  /\ UNCHANGED <<registry, change, files, flight, unresolved>>

-----------------------------------------------------------------------------
Create(c) ==
  /\ change = Idle /\ status[c] = "absent" /\ \A m \in Mode : Copy[m] # c
  /\ status' = [status EXCEPT ![c] = "known"]
  /\ UNCHANGED <<scope, managed, active, binding, change, files, exchange>>

(* probe: the scope once given to an account's key is kept.                   *)
(* Seeded fault: it is named after the account each time.                     *)
ProbedScopeAfresh(c) == "uid"
ProbedScope(c) == IF scope[c] # "none" THEN scope[c] ELSE "uid"

Probe(c, ok) ==
  /\ change = Idle /\ status[c] # "absent"
  /\ status' = [status EXCEPT ![c] = IF ok THEN "ready" ELSE "known"]
  /\ scope' = [scope EXCEPT ![c] = IF ok THEN ProbedScope(c) ELSE @]
  /\ UNCHANGED <<managed, active, binding, change, files, exchange>>

(* Five minutes later.                                                        *)
GrowOld(c) ==
  /\ status[c] = "ready" /\ status' = [status EXCEPT ![c] = "known"]
  /\ UNCHANGED <<scope, managed, active, binding, change, files, exchange>>

(* Seeded fault: a connection in use may be deleted.                          *)
UnboundAnyway(c) == TRUE
Unbound(c) == \A m \in Mode : binding[m] # c

Delete(c) ==
  /\ change = Idle /\ status[c] # "absent" /\ Unbound(c)
  /\ status' = [status EXCEPT ![c] = "absent"] /\ scope' = [scope EXCEPT ![c] = "none"]
  /\ UNCHANGED <<managed, active, binding, change, files, exchange>>

-----------------------------------------------------------------------------
(* _flat: positions, then working orders, then protection orders.             *)
(* Seeded fault: protection orders are not looked at.                         *)
FlatReadsShort(a) == IF a = NoOne THEN <<>> ELSE <<<<a, "positions">>, <<a, "orders">>>>
FlatReads(a) == IF a = NoOne THEN <<>> ELSE <<<<a, "positions">>, <<a, "orders">>, <<a, "stops">>>>

Shows(read) == CASE read[2] = "positions" -> holding[read[1]] = "held"
                 [] read[2] = "orders" -> holding[read[1]] = "working"
                 [] read[2] = "stops" -> holding[read[1]] = "held"

(* Seeded fault: intents are not looked at.                                   *)
NoIntentPendingAnyway == TRUE
NoIntentPending == unresolved = {}

(* _unresolved, then the reads of every account the change is about.          *)
StartChange(kind, m, c, reads) ==
  /\ change = Idle /\ NoIntentPending
  /\ change' = [kind |-> kind, mode |-> m, conn |-> c, stage |-> "reading", todo |-> reads]
  /\ UNCHANGED <<registry, files, exchange>>

Bind(m, c) ==
  /\ binding[m] # c /\ status[c] = "ready" /\ ModeOf[AccountOf[c]] = m
  /\ StartChange("bind", m, c, FlatReads(Current(m)) \o FlatReads(AccountOf[c])
                                \o FlatReads(IF ~managed /\ m # active THEN InUse ELSE NoOne))

Unbind(m) ==
  /\ binding[m] # NoOne
  /\ StartChange("unbind", m, NoOne, FlatReads(AccountOf[binding[m]]))

Activate(m) ==
  /\ managed /\ binding[m] # NoOne /\ active # m /\ status[binding[m]] = "ready"
  /\ StartChange("activate", m, NoOne, FlatReads(InUse) \o FlatReads(AccountOf[binding[m]]))

Read ==
  /\ change # Idle /\ change.todo # <<>>
  /\ ~Shows(Head(change.todo))
  /\ change' = [change EXCEPT !.todo = Tail(@)]
  /\ UNCHANGED <<registry, files, exchange>>

(* An account that is not flat, a read that fails, or the death of the process.*)
Break ==
  /\ change # Idle /\ change' = Idle
  /\ UNCHANGED <<registry, files, exchange>>

SameAccount == Current(change.mode) = AccountOf[change.conn]

(* _archive_runtime, before anything is saved: which files are put away.      *)
Archives ==
  \/ change.kind = "activate"
  \/ change.mode = active
  \/ change.kind = "bind" /\ ~managed
KeepsLedger == change.kind = "bind" /\ (SameAccount \/ change.mode # active)

Archive ==
  /\ change # Idle /\ change.todo = <<>> /\ change.stage = "reading"
  /\ change' = [change EXCEPT !.stage = "archived"]
  /\ trackers' = IF Archives THEN NoOne ELSE trackers
  /\ ledger' = IF Archives /\ ~KeepsLedger THEN NoOne ELSE ledger
  /\ UNCHANGED <<registry, exchange>>

(* _canonicalize: a new key of the same account goes on under the old scope.  *)
Canonical == IF ~SameAccount THEN "uid"
             ELSE IF binding[change.mode] = NoOne THEN "legacy"
             ELSE scope[binding[change.mode]]

(* Seeded fault: the files are put away after the bindings are saved.         *)
ReadyToSaveEarly == change.todo = <<>>
ReadyToSave == change.stage = "archived"

(* The first change takes over the old configuration: its other key is        *)
(* preserved as a binding of its own.                                         *)
SaveBinding ==
  /\ change # Idle /\ change.kind # "activate" /\ ReadyToSave
  /\ LET other == {m \in Mode \ {change.mode} : ~managed /\ Copy[m] # NoOne} IN
     /\ binding' = [m \in Mode |-> IF m = change.mode THEN change.conn
                                   ELSE IF m \in other THEN Copy[m] ELSE binding[m]]
     /\ status' = [c \in Connection |->
                     IF \E m \in other : Copy[m] = c THEN "known" ELSE status[c]]
     /\ scope' = [c \in Connection |-> IF c = change.conn THEN Canonical
                     ELSE IF \E m \in other : Copy[m] = c THEN "legacy" ELSE scope[c]]
  /\ managed' = TRUE
  /\ change' = Idle
  /\ UNCHANGED <<active, files, exchange>>

SaveActive ==
  /\ change # Idle /\ change.kind = "activate" /\ ReadyToSave
  /\ active' = change.mode
  /\ change' = Idle
  /\ UNCHANGED <<status, scope, managed, binding, files, exchange>>

BindingNext ==
  \/ RunCycle \/ SendEntry \/ ReconcileIntents
  \/ \E a \in Account, b \in BOOLEAN : Arrive(a, b)
  \/ \E a \in Account : Move(a)
  \/ \E c \in Connection : Create(c) \/ GrowOld(c) \/ Delete(c)
  \/ \E c \in Connection, b \in BOOLEAN : Probe(c, b)
  \/ \E m \in Mode, c \in Connection : Bind(m, c)
  \/ \E m \in Mode : Unbind(m) \/ Activate(m)
  \/ Read \/ Break \/ Archive \/ SaveBinding \/ SaveActive

BindingSpec == BindingInit /\ [][BindingNext]_bindingVars

-----------------------------------------------------------------------------
BindingTypeOK ==
  /\ status \in [Connection -> {"absent", "known", "ready"}]
  /\ scope \in [Connection -> {"none", "uid", "legacy"}]
  /\ managed \in BOOLEAN /\ active \in Mode
  /\ binding \in [Mode -> Connection \cup {NoOne}]
  /\ \A m \in Mode : binding[m] # NoOne =>
       managed /\ status[binding[m]] # "absent" /\ ModeOf[AccountOf[binding[m]]] = m
  /\ trackers \in Account \cup {NoOne} /\ ledger \in Account \cup {NoOne}
  /\ holding \in [Account -> {"flat", "working", "held"}]
  /\ flight \in [Account -> BOOLEAN] /\ unresolved \subseteq Account

(* "No account change without reliable evidence of no position and no order"  *)
(* (docs/ACCOUNT_CENTER_AND_NEWS.md:43): an account that is not in use has no  *)
(* position, no order and no request still on its way, although the reads are  *)
(* not one snapshot and an order may fill between two of them.                *)
NothingLeftBehind == \A a \in Account : a # InUse => holding[a] = "flat" /\ ~flight[a]

(* Trackers and ledger are never taken for those of another account, wherever *)
(* a change is cut off (_archive_runtime).                                    *)
NoForeignFiles == InUse # NoOne => {trackers, ledger} \subseteq {NoOne, InUse}

(* "A new key of the same account keeps the known scope of risk and ledger"    *)
(* (docs/ACCOUNT_CENTER_AND_NEWS.md:52): as long as an account stays in use    *)
(* its evidence keeps its name, through probes, keys and the take-over of the  *)
(* old configuration.                                                         *)
ScopeContinues ==
  [][InUse # NoOne /\ InUse' = InUse => ScopeInUse' = ScopeInUse]_bindingVars

(* What a change of the account leaves: nothing at risk in the old account,    *)
(* and none of its files for the new one.                                     *)
BindingSafe == BindingTypeOK /\ NothingLeftBehind /\ NoForeignFiles
=============================================================================
