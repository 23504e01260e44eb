----------------------------- MODULE EquityGuard -----------------------------
(* Losses, deposits and days: what the guard and the entry preflight learn    *)
(* of the account's equity (entry_gateway.equity_guard, risk_policy) and the  *)
(* virtual allocations that live on it (capital_pool, and the small300 preset *)
(* of execution_profiles).  Both programs hold the writer meanwhile, so one   *)
(* observation is under way at a time; each of its saves is a transaction of  *)
(* its own, and the process may die between two of them.                      *)
EXTENDS Integers, Sequences, FiniteSetsExt

CONSTANTS
  NoRow,
  Start, Budget,   \* equity at first, and the cap of an allocation
  LimitPart,       \* a loss of 1/LimitPart of the day's anchor blocks
  MaxEvents, MaxDay

Drawdown == [day : 0 .. MaxDay, anchor : Nat, blocked : BOOLEAN]
AccountRow == [at : 0 .. MaxEvents, drawdown : Drawdown, flows : Int, origin : 0 .. MaxEvents]
AllocationRow ==
  [at : 0 .. MaxEvents, origin : 0 .. MaxEvents, since : 0 .. MaxEvents, initial : 1 .. Budget,
   baseline : Int, nav : Int, risk : 0 .. Budget, drawdown : Drawdown]

ASSUME EquityAssumption ==
  /\ Start \in Nat \ {0} /\ Budget \in Nat \ {0} /\ LimitPart \in Nat \ {0}
  /\ MaxEvents \in Nat /\ MaxDay \in Nat
  /\ NoRow \notin AccountRow \cup AllocationRow \cup Drawdown

Allocation == {"pool", "small300"}

VARIABLES
  events, today,     \* what the account had come to after each event, and the day it is now
  account,           \* equity_state of the identity in use, a fingerprint of its key
  allocated,         \* capital_pool_state of that identity, for each allocation
  former,            \* the allocations of identities that are no longer in use
  looking, sawAt,    \* the last step of the observation under way, and its balance
  passed             \* nothing has blocked it yet
world == <<events, today>>
equityVars == <<world, account, allocated, former, looking, sawAt, passed>>

(* What the account has won and been given after its first t events.          *)
After(t) == IF t = 0 THEN [trade |-> 0, transfer |-> 0, day |-> 0] ELSE events[t]
Profit(from, to) == After(to).trade - After(from).trade
Flow(from, to) == After(to).transfer - After(from).transfer
EquityAt(t) == Start + After(t).trade + After(t).transfer
DayOf(t) == After(t).day

EquityInit ==
  /\ events = <<>> /\ today = 0 /\ former = {}
  /\ account = NoRow
  /\ allocated = [a \in Allocation |-> NoRow]
  /\ looking = "idle" /\ sawAt = 0 /\ passed = FALSE

Happen(trade, transfer) ==
  /\ Len(events) < MaxEvents /\ EquityAt(Len(events)) + trade + transfer > 0
  /\ LET total == After(Len(events))
     IN events' = Append(events, [trade |-> total.trade + trade, transfer |-> total.transfer + transfer,
                                  day |-> today])
  /\ UNCHANGED <<today, account, allocated, former, looking, sawAt, passed>>

NewDay ==
  /\ today < MaxDay /\ today' = today + 1
  /\ UNCHANGED <<events, account, allocated, former, looking, sawAt, passed>>

(* A key is replaced: the rows of the old identity stay, and are not read     *)
(* again.                                                                    *)
Rotate ==
  /\ looking = "idle"
  /\ former' = former \cup {a \in Allocation : allocated[a] # NoRow}
  /\ account' = NoRow /\ allocated' = [a \in Allocation |-> NoRow]
  /\ UNCHANGED <<world, looking, sawAt, passed>>

-----------------------------------------------------------------------------
(* A balance, perhaps a little old.                                          *)
ReadBalance(at) ==
  /\ looking = "idle" /\ looking' = "read"
  /\ at \in {Len(events) - 1, Len(events)} /\ sawAt' = at
  /\ UNCHANGED <<world, account, allocated, former, passed>>

Loss(anchor, equity) == anchor - equity
Blocks(anchor, equity) == Loss(anchor, equity) * LimitPart >= anchor

(* update_equity_state: a transfer moves the anchor of the day with it.       *)
Update(old, equity, flow, day) ==
  LET anchor == IF old # NoRow /\ old.day = day THEN old.anchor + flow ELSE equity IN
  [day |-> day, anchor |-> anchor, blocked |-> Blocks(anchor, equity)]

(* refresh_equity_state: the same balance on what is now perhaps another day. *)
Refresh(old, equity) ==
  LET anchor == IF old.day = today THEN old.anchor ELSE equity IN
  [day |-> today, anchor |-> anchor, blocked |-> Blocks(anchor, equity)]

(* The flows of all days, and since when they are counted.                    *)
(* Seeded fault: only the flows since the last balance are counted.           *)
FlowTotalRecent(old, flow) == flow
FlowTotal(old, flow) == IF old = NoRow THEN 0 ELSE old.flows + flow

(* equity_guard.  The bills between the two balances must be complete and of  *)
(* known types; whatever is wrong, nothing is saved.                          *)
GuardEquity(complete) ==
  /\ looking = "read" /\ looking' = "accounted"
  /\ LET old == account
         known == old # NoRow
         equity == EquityAt(sawAt)
         flow == IF known THEN Flow(old.at, sawAt) ELSE 0
         drawdown == IF ~known THEN Update(NoRow, equity, 0, DayOf(sawAt))
                     ELSE IF sawAt = old.at THEN Refresh(old.drawdown, equity)
                     ELSE Update(old.drawdown, equity, flow, DayOf(sawAt)) IN
     IF known /\ (sawAt < old.at \/ (sawAt > old.at /\ ~complete) \/ drawdown.anchor <= 0)
     THEN passed' = FALSE /\ UNCHANGED account
     ELSE /\ account' =
               [at |-> sawAt, drawdown |-> drawdown, flows |-> FlowTotal(old, flow),
                origin |-> IF known THEN old.origin ELSE sawAt]
          /\ passed' = ~drawdown.blocked
  /\ UNCHANGED <<world, allocated, former, sawAt>>

-----------------------------------------------------------------------------
(* capital_pool.advance; `since` is a history of when the allocation began.   *)
AdvanceRejects(old, row, flat) ==
  IF old = NoRow THEN ~flat ELSE old.origin # row.origin \/ row.at < old.at

Depleted(old) == IF old = NoRow THEN [day |-> today, anchor |-> Budget, blocked |-> TRUE]
                 ELSE [old.drawdown EXCEPT !.blocked = TRUE]

(* Seeded fault: what was won is put at risk too.                             *)
RiskEquityUncapped(nav, equity) == Max({0, Min({nav, equity})})
RiskEquity(nav, equity) == Max({0, Min({Budget, nav, equity})})

Advance(old, row) ==
  LET adjusted == EquityAt(row.at) - row.flows
      initial == IF old = NoRow THEN Min({Budget, EquityAt(row.at)}) ELSE old.initial
      baseline == IF old = NoRow THEN adjusted ELSE old.baseline
      nav == initial + adjusted - baseline IN
  [at |-> row.at, origin |-> row.origin, since |-> IF old = NoRow THEN row.at ELSE old.since,
   initial |-> initial, baseline |-> baseline, nav |-> nav,
   risk |-> RiskEquity(nav, EquityAt(row.at)),
   drawdown |-> IF nav <= 0 THEN Depleted(old)
                ELSE IF old # NoRow /\ old.at = row.at THEN Refresh(old.drawdown, nav)
                ELSE Update(IF old = NoRow THEN NoRow ELSE old.drawdown, nav, 0, DayOf(row.at))]

Saved(a, state) == allocated' = [allocated EXCEPT ![a] = state]

(* assert_new_scope: credentials are not a stable identity of the account.    *)
(* Seeded fault: they are taken for one.                                      *)
NewScopeAlways(a) == TRUE
NewScope(a) == a \notin former

(* observe_existing of either allocation: what exists is brought up to date   *)
(* with the row equity_guard has saved, blocked or not; for the preset only   *)
(* if that row is of this very balance.                                       *)
Observe(a) ==
  LET old == allocated[a]
      row == account IN
  IF old # NoRow /\ row # NoRow /\ row.at = sawAt /\ ~AdvanceRejects(old, row, FALSE)
  THEN Saved(a, Advance(old, row)) ELSE UNCHANGED allocated

ObservePool ==
  /\ looking = "accounted" /\ looking' = "pooled"
  /\ Observe("pool")
  /\ LET row == allocated'["pool"] IN
     passed' = (passed /\ (row # NoRow => row.at = sawAt /\ ~row.drawdown.blocked))
  /\ UNCHANGED <<world, account, former, sawAt>>

(* The guard looks after an existing preset too, whatever came before.        *)
ObserveSmall300 ==
  /\ looking = "pooled" /\ looking' = "observed"
  /\ Observe("small300")
  /\ UNCHANGED <<world, account, former, sawAt, passed>>

(* The guard begins a pool (initialize_flat); an entry is admitted by the pool *)
(* (admit), then by the preset (cap_allocation).  An allocation begins only   *)
(* with a flat account.                                                      *)
Admit(a, flat) ==
  /\ passed
  /\ \/ looking = "observed" /\ a = "pool" /\ flat /\ allocated[a] = NoRow
     \/ looking = "pooled" /\ a = "pool"
     \/ looking = "admitted" /\ a = "small300"
  /\ looking' = IF looking = "pooled" THEN "admitted" ELSE "done"
  /\ LET old == allocated[a]
         row == account IN
     IF (old = NoRow => NewScope(a)) /\ ~AdvanceRejects(old, row, flat)
     THEN /\ Saved(a, Advance(old, row))
          /\ passed' = ~allocated'[a].drawdown.blocked
     ELSE passed' = FALSE /\ UNCHANGED allocated
  /\ UNCHANGED <<world, account, former, sawAt>>

(* The observation is over; or the process dies at any moment.                *)
EndObservation ==
  /\ looking # "idle" /\ looking' = "idle" /\ sawAt' = 0 /\ passed' = FALSE
  /\ UNCHANGED <<world, account, allocated, former>>

EquityNext ==
  \/ \E d \in {-1, 1} : Happen(d, 0) \/ Happen(0, d)
  \/ NewDay \/ Rotate
  \/ \E n \in 0 .. MaxEvents : ReadBalance(n)
  \/ \E b \in BOOLEAN : GuardEquity(b)
  \/ ObservePool \/ ObserveSmall300
  \/ \E a \in Allocation, b \in BOOLEAN : Admit(a, b)
  \/ EndObservation

EquitySpec == EquityInit /\ [][EquityNext]_equityVars

-----------------------------------------------------------------------------
EquityTypeOK ==
  /\ events \in Seq([trade : Int, transfer : Int, day : 0 .. MaxDay])
  /\ today \in 0 .. MaxDay /\ former \subseteq Allocation
  /\ account \in {NoRow} \cup AccountRow
  /\ allocated \in [Allocation -> {NoRow} \cup AllocationRow]
  /\ looking \in {"idle", "read", "accounted", "pooled", "observed", "admitted", "done"}
  /\ sawAt \in 0 .. MaxEvents /\ passed \in BOOLEAN

Held == {a \in Allocation : allocated[a] # NoRow}

(* "Losses survive restarts" (capital_pool), and "a key rotation must not     *)
(* silently create a fresh budget" (assert_new_scope): whatever is skipped or  *)
(* dies between two saves, an allocation is begun once, goes on from where it  *)
(* was and never back to an earlier balance, and is not begun again under      *)
(* another identity.                                                          *)
LossesSurvive ==
  [][\A a \in Allocation :
       LET old == allocated[a]
           new == allocated'[a] IN
       /\ a \in former' => new = NoRow
       /\ old # NoRow /\ a \notin former' =>
            new # NoRow /\ new.since = old.since /\ new.initial = old.initial /\ new.at >= old.at]_equityVars

(* "and deposits cannot reset them": on one day only a profit ends the block  *)
(* of an allocation, whatever is transferred.                                 *)
OnlyProfitUnblocks ==
  [][\A a \in Held : LET old == allocated[a]
                        new == allocated'[a] IN
       new # NoRow /\ old.drawdown.blocked /\ ~new.drawdown.blocked /\ old.drawdown.day = today
         => Profit(old.at, new.at) > 0]_equityVars

(* A fuse is neither reset nor released by anything but profit.               *)
FuseHolds == []EquityTypeOK /\ LossesSurvive /\ OnlyProfitUnblocks
=============================================================================
