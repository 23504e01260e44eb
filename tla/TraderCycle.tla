----------------------------- MODULE TraderCycle -----------------------------
(* One cycle of the fifteen-minute trader (execute_portfolio) over several   *)
(* correlated instruments: the reads it plans with, the trackers, the        *)
(* inference window in which the guard and the minute engine may work, and   *)
(* the gates of entries and scale-ins.  An order is its number, a position   *)
(* the set of the orders that filled into it, and its identity (posId and    *)
(* cTime) the first of them.  The gateway's preflight is one step here;      *)
(* module EntryOrder has it in detail.                                       *)
EXTENDS Integers, Sequences, FiniteSets

CONSTANTS Coin, MaxPositions, MaxSameDirection, MaxOrders
ASSUME CycleAssumption ==
  /\ IsFiniteSet(Coin)
  /\ MaxPositions \in Nat \ {0} /\ MaxSameDirection \in Nat \ {0} /\ MaxOrders \in Nat

MaxScaleIn == 1                         \* MAX_SCALE_IN_COUNT
Side == {"long", "short"}
OrderId == 1 .. MaxOrders
Order == [coin : Coin, side : Side, scale : BOOLEAN, state : {"live", "filled", "canceled"}]
NoBook == [of |-> 0, count |-> 0, orders |-> {}]
Book == [of : 0 .. MaxOrders, count : 0 .. MaxOrders, orders : SUBSET OrderId]

VARIABLES
  orders, held,                 \* the exchange: every order ever taken, the position of each coin
  bookFile,                     \* scale_count and pending_scale_orders in position_trackers.json
  cycleAt,                      \* the last step the cycle completed
  seenHeld, seenPending,        \* its reads of positions and pending orders, with what it has added since
  book, nowHeld,                \* its copy of the trackers, and the positions it read after the window
  decided,                      \* the candidates this cycle has dealt with
  claims,                       \* related_cycle_claims
  accepted,                     \* history: the entries accepted in this cycle, not scale-ins
  unreserved                    \* history: scale orders sent whose reservation is not in the file
cycleVars == <<orders, held, bookFile, cycleAt, seenHeld, seenPending, book, nowHeld, decided, claims, accepted, unreserved>>

Flat == [c \in Coin |-> {}]
NonePending == [c \in Coin |-> "none"]
NoBooks == [c \in Coin |-> NoBook]
Identity(position) == CHOOSE i \in position : \A j \in position : i <= j
SideOf(position) == orders[Identity(position)].side
LiveOn(c) == {i \in DOMAIN orders : orders[i].coin = c /\ orders[i].state = "live"}
PendingNow == [c \in Coin |-> IF LiveOn(c) = {} THEN "none" ELSE orders[Identity(LiveOn(c))].side]
Occupied == {c \in Coin : held[c] # {} \/ LiveOn(c) # {}}

Forget == seenHeld' = Flat /\ seenPending' = NonePending /\ book' = NoBooks /\ nowHeld' = Flat
          /\ decided' = {} /\ claims' = {} /\ accepted' = {}

CycleInit ==
  /\ orders = <<>> /\ held = Flat /\ bookFile = NoBooks
  /\ cycleAt = "idle" /\ seenHeld = Flat /\ seenPending = NonePending
  /\ book = NoBooks /\ nowHeld = Flat /\ decided = {} /\ claims = {} /\ accepted = {} /\ unreserved = {}

-----------------------------------------------------------------------------
(* The exchange, at any moment.                                              *)

Fill(i) ==
  /\ i \in DOMAIN orders /\ orders[i].state = "live"
  /\ orders' = [orders EXCEPT ![i].state = "filled"]
  /\ held' = [held EXCEPT ![orders[i].coin] = @ \cup {i}]
  /\ UNCHANGED <<bookFile, cycleAt, seenHeld, seenPending, book, nowHeld, decided, claims, accepted, unreserved>>

(* A stop, a target, the guard or the trader itself ends a position.          *)
Exit(c) ==
  /\ held[c] # {}
  /\ held' = [held EXCEPT ![c] = {}]
  /\ UNCHANGED <<orders, bookFile, cycleAt, seenHeld, seenPending, book, nowHeld, decided, claims, accepted, unreserved>>

(* Seeded fault: the preflight does not count.                               *)
GatewayAdmitsUncounted(c, basis) ==
  Len(orders) < MaxOrders /\ LiveOn(c) = {} /\ held[c] = basis

(* The final preflight: nothing pending on the instrument, the position the   *)
(* decision was made on, and not one instrument too many, all read afresh.    *)
GatewayAdmits(c, basis) ==
  /\ Len(orders) < MaxOrders
  /\ LiveOn(c) = {}
  /\ held[c] = basis
  /\ Cardinality(Occupied \cup {c}) <= MaxPositions

Place(c, side, scale) ==
  orders' = Append(orders, [coin |-> c, side |-> side, scale |-> scale, state |-> "live"])

(* demo_scalp.run takes the writer between cycles and in their windows.       *)
MinuteEntry(c, side) ==
  /\ cycleAt \in {"idle", "window"}
  /\ c \notin Occupied /\ Cardinality(Occupied) < MaxPositions
  /\ GatewayAdmits(c, {})
  /\ Place(c, side, FALSE)
  /\ UNCHANGED <<held, bookFile, cycleAt, seenHeld, seenPending, book, nowHeld, decided, claims, accepted, unreserved>>

(* reconcile of position_lifecycle: an earlier position's tracker is retired. *)
Managed(b, position, adopts) ==
  IF position = {} THEN b
  ELSE IF b.of = Identity(position) THEN b
  ELSE IF adopts THEN [NoBook EXCEPT !.of = Identity(position)] ELSE NoBook

(* A round of the guard, which holds the writer throughout.                   *)
GuardRound(adopting) ==
  /\ cycleAt \in {"idle", "window"}
  /\ bookFile' = [c \in Coin |-> IF held[c] = {} THEN NoBook ELSE Managed(bookFile[c], held[c], c \in adopting)]
  /\ UNCHANGED <<orders, held, cycleAt, seenHeld, seenPending, book, nowHeld, decided, claims, accepted, unreserved>>

-----------------------------------------------------------------------------
(* The cycle up to the window.                                               *)

(* clean_stale_open_orders: what cannot be verified or canceled ends it.      *)
Sweep(stale, ok) ==
  /\ cycleAt = "idle"
  /\ \A i \in stale : orders[i].state = "live"
  /\ orders' = [i \in DOMAIN orders |-> IF i \in stale THEN [orders[i] EXCEPT !.state = "canceled"] ELSE orders[i]]
  /\ cycleAt' = IF ok THEN "swept" ELSE "idle"
  /\ UNCHANGED <<held, bookFile, seenHeld, seenPending, book, nowHeld, decided, claims, accepted, unreserved>>

QueryPositions ==
  /\ cycleAt = "swept" /\ cycleAt' = "positions"
  /\ seenHeld' = held
  /\ UNCHANGED <<orders, held, bookFile, seenPending, book, nowHeld, decided, claims, accepted, unreserved>>

QueryPending ==
  /\ cycleAt = "positions" /\ cycleAt' = "pending"
  /\ seenPending' = PendingNow
  /\ UNCHANGED <<orders, held, bookFile, seenHeld, book, nowHeld, decided, claims, accepted, unreserved>>

(* A read that fails aborts the cycle.                                        *)
Abort ==
  /\ cycleAt \in {"swept", "positions"} /\ cycleAt' = "idle" /\ Forget
  /\ UNCHANGED <<orders, held, bookFile, unreserved>>

(* Seeded fault: what was counted stays reserved.                            *)
ScaleReconciledKeeping(b) ==
  [b EXCEPT !.count = @ + Cardinality({i \in b.orders : orders[i].state = "filled"})]

(* reconcile_scale_trackers: a reserved order that filled is counted once and *)
(* leaves the reservations, one that was canceled just leaves them.           *)
ScaleReconciled(b) ==
  LET filled == {i \in b.orders : orders[i].state = "filled"}
      open == {i \in b.orders : orders[i].state = "live"} IN
  [b EXCEPT !.count = @ + Cardinality(filled), !.orders = open]

(* load_trackers, prune_trackers, reconcile_scale_trackers; `readable` is the *)
(* history read, without which nothing is reconciled.                         *)
LoadTrackers(readable) ==
  /\ cycleAt = "pending" /\ cycleAt' = "loaded"
  /\ book' = [c \in Coin |->
       IF seenHeld[c] = {} THEN NoBook
       ELSE IF /\ readable /\ bookFile[c].of # 0
               /\ orders[bookFile[c].of].side = SideOf(seenHeld[c])
            THEN ScaleReconciled(bookFile[c]) ELSE bookFile[c]]
  /\ UNCHANGED <<orders, held, bookFile, seenHeld, seenPending, nowHeld, decided, claims, accepted, unreserved>>

(* Each position is managed, the trackers are saved, the writer given back.   *)
OpenWindow(adopting) ==
  /\ cycleAt = "loaded" /\ cycleAt' = "window"
  /\ book' = [c \in Coin |-> Managed(book[c], seenHeld[c], c \in adopting)]
  /\ bookFile' = book'
  /\ UNCHANGED <<orders, held, seenHeld, seenPending, nowHeld, decided, claims, accepted, unreserved>>

-----------------------------------------------------------------------------
(* After the answer: trackers and positions are read again, the counts and    *)
(* the pending orders are not.                                               *)
Answer(positionsOk) ==
  /\ cycleAt = "window" /\ cycleAt' = "deciding"
  /\ book' = bookFile
  /\ nowHeld' = IF positionsOk THEN held ELSE seenHeld
  /\ UNCHANGED <<orders, held, bookFile, seenHeld, seenPending, decided, claims, accepted, unreserved>>

Slots == Cardinality({c \in Coin : seenHeld[c] # {}}) + Cardinality({c \in Coin : seenPending[c] # "none"})
SideSlots(side) == Cardinality({c \in Coin : seenHeld[c] # {} /\ SideOf(seenHeld[c]) = side})
                   + Cardinality({c \in Coin : seenPending[c] = side})

EntryAllowed(c, side) ==
  /\ c \notin decided
  /\ nowHeld[c] = {} /\ seenPending[c] = "none"
  /\ side \notin claims
  /\ Slots < MaxPositions /\ SideSlots(side) < MaxSameDirection

ScaleAllowed(c, side) ==
  /\ c \notin decided
  /\ nowHeld[c] # {} /\ seenPending[c] = "none"
  /\ SideOf(nowHeld[c]) = side
  /\ book[c].count < MaxScaleIn

(* related_cycle_claims.add is in the branch of the long side only.           *)
Claimed(side) == claims \cup ({side} \cap {"long"})

EnterAccepted(c, side) ==
  /\ cycleAt = "deciding"
  /\ EntryAllowed(c, side) /\ GatewayAdmits(c, seenHeld[c])
  /\ decided' = decided \cup {c}
  /\ Place(c, side, FALSE)
  /\ seenPending' = [seenPending EXCEPT ![c] = side]
  /\ claims' = Claimed(side)
  /\ accepted' = accepted \cup {<<c, side>>}
  /\ UNCHANGED <<held, bookFile, cycleAt, seenHeld, book, nowHeld, unreserved>>

ScaleAccepted(c, side) ==
  /\ cycleAt = "deciding"
  /\ ScaleAllowed(c, side) /\ GatewayAdmits(c, seenHeld[c])
  /\ decided' = decided \cup {c}
  /\ Place(c, side, TRUE)
  /\ unreserved' = unreserved \cup {Len(orders')}
  /\ cycleAt' = "reserving"
  /\ UNCHANGED <<held, bookFile, seenHeld, seenPending, book, nowHeld, claims, accepted>>

(* The reservation is written after the order was sent, into the tracker of   *)
(* the position if it has one.                                               *)
ReserveScale ==
  /\ cycleAt = "reserving" /\ cycleAt' = "deciding"
  /\ LET i == Len(orders)
         c == orders[i].coin IN
     IF book[c].of = 0 THEN book' = book /\ unreserved' = unreserved
     ELSE /\ book' = [book EXCEPT ![c].orders = @ \cup {i}]
          /\ unreserved' = unreserved \ {i}
  /\ bookFile' = book'
  /\ UNCHANGED <<orders, held, seenHeld, seenPending, nowHeld, decided, claims, accepted>>

(* The order is taken, its reply is lost: the cycle records nothing of it.    *)
ReplyLost(c, side) ==
  /\ cycleAt = "deciding"
  /\ EntryAllowed(c, side) \/ ScaleAllowed(c, side)
  /\ GatewayAdmits(c, seenHeld[c])
  /\ decided' = decided \cup {c}
  /\ Place(c, side, nowHeld[c] # {})
  /\ unreserved' = IF nowHeld[c] # {} THEN unreserved \cup {Len(orders')} ELSE unreserved
  /\ UNCHANGED <<held, bookFile, cycleAt, seenHeld, seenPending, book, nowHeld, claims, accepted>>

(* The end of the cycle, a model call without an answer, or a crash: after    *)
(* the window nothing is saved but what was saved already.                    *)
CycleEnds ==
  /\ cycleAt \in {"pending", "loaded", "window", "deciding", "reserving"} /\ cycleAt' = "idle" /\ Forget
  /\ UNCHANGED <<orders, held, bookFile, unreserved>>

CycleNext ==
  \/ \E i \in OrderId : Fill(i)
  \/ \E c \in Coin : Exit(c)
  \/ \E c \in Coin, s \in Side :
       MinuteEntry(c, s) \/ EnterAccepted(c, s) \/ ScaleAccepted(c, s) \/ ReplyLost(c, s)
  \/ \E a \in SUBSET Coin : GuardRound(a) \/ OpenWindow(a)
  \/ \E stale \in SUBSET DOMAIN orders, ok \in BOOLEAN : Sweep(stale, ok)
  \/ QueryPositions \/ QueryPending \/ Abort
  \/ \E b \in BOOLEAN : LoadTrackers(b) \/ Answer(b)
  \/ ReserveScale \/ CycleEnds

CycleSpec == CycleInit /\ [][CycleNext]_cycleVars

-----------------------------------------------------------------------------
CycleTypeOK ==
  /\ orders \in Seq(Order) /\ Len(orders) <= MaxOrders
  /\ held \in [Coin -> SUBSET OrderId] /\ seenHeld \in [Coin -> SUBSET OrderId]
  /\ nowHeld \in [Coin -> SUBSET OrderId]
  /\ bookFile \in [Coin -> Book] /\ book \in [Coin -> Book]
  /\ cycleAt \in {"idle", "swept", "positions", "pending", "loaded", "window", "deciding", "reserving"}
  /\ seenPending \in [Coin -> Side \cup {"none"}]
  /\ decided \subseteq Coin /\ claims \subseteq Side /\ accepted \subseteq Coin \X Side /\ unreserved \subseteq OrderId

(* Positions and pending entries never take more instruments than the preset  *)
(* allows (execution_profiles.cap_allocation), although the trader counts     *)
(* before its window, in two reads between which an order may fill, and the   *)
(* minute engine enters while the model answers.                              *)
WithinQuota == Cardinality(Occupied) <= MaxPositions

(* Every scale order that filled into a position is counted once in its        *)
(* tracker, or is still reserved there, or is one whose reservation was never  *)
(* written: no crash, guard round or repeated history read counts a fill       *)
(* twice or loses it (reconcile_scale_trackers, "once per fill delta").        *)
EveryScaleFillOnce ==
  \A c \in Coin :
    held[c] # {} /\ bookFile[c].of = Identity(held[c]) =>
      LET scales == held[c] \ {Identity(held[c])} IN
      bookFile[c].count + Cardinality(bookFile[c].orders \cap scales)
        + Cardinality(unreserved \cap scales) = Cardinality(scales)

(* "unresolved reads leave the reservation in place and block another scale  *)
(* attempt" (reconcile_scale_trackers), with "Maximum 1 scale-in per          *)
(* position" (execute_portfolio): counted and reserved scale-ins together     *)
(* never exceed the maximum.                                                  *)
ReservationBlocksScaleIn ==
  \A c \in Coin : bookFile[c].count + Cardinality(bookFile[c].orders) <= MaxScaleIn

(* "the first accepted candidate claims the group; later same-direction       *)
(* candidates are rejected" (execute_portfolio): one accepted entry per        *)
(* direction and cycle.                                                       *)
FirstClaimsTheGroup == \A a, b \in accepted : a[2] = b[2] => a = b

(* What a cycle may never lose count of: its slots and its scale-ins.          *)
CycleSafe == CycleTypeOK /\ WithinQuota /\ EveryScaleFillOnce
=============================================================================
