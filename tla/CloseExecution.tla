---------------------------- MODULE CloseExecution ----------------------------
(* close_execution.close and profit_exit_execution.attempt: a reduce-only     *)
(* close of one position, for the trader and for the guard, under the writer *)
(* lock.  Meanwhile the exchange fills what is pending, stops the position    *)
(* out, and may lose a reply of a request it has taken.  A later fill of an   *)
(* entry opens a position of another life (posId, cTime).                     *)
EXTENDS Integers

CONSTANTS MaxQty, MaxLife
ASSUME CloseAssumption == MaxQty \in Nat \ {0} /\ MaxLife \in Nat \ {0}

VARIABLES
  qty, lifeNow,                 \* the exchange: contracts held, and of which position
  entryQty, passiveQty,         \* pending: the rest of an entry, the passive exit order
  shutAt,                       \* the last step close() completed
  shutLife, shutQty,            \* the position it was called for, and the size it last read
  profitable, known,            \* a normal profit exit is allowed; the market order's identity is known
  journal,                      \* the last status journalled by this call
  returned                      \* what the last call returned
closeVars == <<qty, lifeNow, entryQty, passiveQty, shutAt, shutLife, shutQty, profitable, known, journal, returned>>
pending == <<entryQty, passiveQty>>
call == <<shutLife, shutQty, profitable, known>>

CloseInit ==
  /\ qty = 0 /\ lifeNow = 0 /\ entryQty = 0 /\ passiveQty = 0
  /\ shutAt = "idle" /\ shutLife = 0 /\ shutQty = 0 /\ profitable = FALSE /\ known = FALSE
  /\ journal = "none" /\ returned = FALSE

-----------------------------------------------------------------------------
(* The exchange.                                                             *)

(* The writer excludes new entries while a close is under way.                *)
PlaceEntry(n) ==
  /\ shutAt = "idle" /\ qty = 0 /\ entryQty = 0 /\ lifeNow < MaxLife
  /\ entryQty' = n
  /\ UNCHANGED <<qty, lifeNow, passiveQty, shutAt, call, journal, returned>>

FillEntry ==
  /\ entryQty > 0 /\ (qty = 0 => lifeNow < MaxLife)
  /\ entryQty' = entryQty - 1 /\ qty' = qty + 1
  /\ lifeNow' = IF qty = 0 THEN lifeNow + 1 ELSE lifeNow
  /\ UNCHANGED <<passiveQty, shutAt, call, journal, returned>>

(* Reduce-only orders end with their position.                                *)
Reduce(n) == /\ qty' = qty - n
             /\ passiveQty' = IF n = qty THEN 0 ELSE IF passiveQty > qty - n THEN qty - n ELSE passiveQty

FillPassive ==
  /\ passiveQty > 0
  /\ qty' = qty - 1 /\ passiveQty' = passiveQty - 1
  /\ UNCHANGED <<lifeNow, entryQty, shutAt, call, journal, returned>>

(* A stop or target of the exchange closes part or all.                       *)
StopOut(n) ==
  /\ n \in 1 .. qty /\ Reduce(n)
  /\ UNCHANGED <<lifeNow, entryQty, shutAt, call, journal, returned>>

-----------------------------------------------------------------------------
(* The call.                                                                 *)

(* Seeded fault: the identity of a call's order outlives the call.            *)
ReturnCallKeeping(value, status) ==
  /\ shutAt' = "idle" /\ returned' = value /\ journal' = status
  /\ shutQty' = 0 /\ profitable' = FALSE /\ known' = known /\ shutLife' = shutLife

ReturnCall(value, status) ==
  /\ shutAt' = "idle" /\ returned' = value /\ journal' = status
  /\ shutQty' = 0 /\ profitable' = FALSE /\ known' = FALSE /\ shutLife' = shutLife

GoOn(at) == shutAt' = at /\ UNCHANGED <<call, journal, returned>>

(* The caller's snapshot may be of the position before this one.              *)
StartClose(l, profit) ==
  /\ shutAt = "idle" /\ l > 0 /\ l \in {lifeNow - 1, lifeNow}
  /\ shutAt' = "called" /\ shutLife' = l /\ profitable' = profit
  /\ shutQty' = 0 /\ known' = FALSE /\ journal' = "none" /\ returned' = FALSE
  /\ UNCHANGED <<qty, lifeNow, pending>>

(* Seeded fault: only entries are canceled.                                  *)
CancelEntries(entryGone, passiveGone, ok) ==
  /\ shutAt = "called" /\ passiveGone \in BOOLEAN
  /\ entryQty' = IF entryGone THEN 0 ELSE entryQty
  /\ IF ok THEN GoOn("canceled") ELSE ReturnCall(FALSE, journal)
  /\ UNCHANGED <<qty, lifeNow, passiveQty>>

(* Every pending order of the instrument is canceled; a cancellation that was *)
(* acknowledged need not be effective yet.  Any failure ends the call.        *)
CancelPending(entryGone, passiveGone, ok) ==
  /\ shutAt = "called"
  /\ entryQty' = IF entryGone THEN 0 ELSE entryQty
  /\ passiveQty' = IF passiveGone THEN 0 ELSE passiveQty
  /\ IF ok THEN GoOn("canceled") ELSE ReturnCall(FALSE, journal)
  /\ UNCHANGED <<qty, lifeNow>>

(* Seeded fault: only exits are looked for again.                            *)
StillPendingExit == passiveQty > 0
StillPending == entryQty > 0 \/ passiveQty > 0

ReadPendingAgain(ok) ==
  /\ shutAt = "canceled"
  /\ IF ok /\ ~StillPending THEN GoOn("clear") ELSE ReturnCall(FALSE, journal)
  /\ UNCHANGED <<qty, lifeNow, pending>>

ReadPosition(ok) ==
  /\ shutAt = "clear"
  /\ IF ~ok THEN ReturnCall(FALSE, journal)
     ELSE IF qty = 0 THEN ReturnCall(TRUE, "flat_observed")
     ELSE IF lifeNow # shutLife THEN ReturnCall(FALSE, journal)
     ELSE /\ shutAt' = IF profitable THEN "passive" ELSE "market"
          /\ shutQty' = qty /\ journal' = "submitted"
          /\ UNCHANGED <<shutLife, profitable, known, returned>>
  /\ UNCHANGED <<qty, lifeNow, pending>>

(* profit_exit_execution.attempt: not eligible, explicitly rejected, taken    *)
(* with its reply or without, or never taken and unanswered.                  *)
PlacePassive(outcome) ==
  /\ shutAt = "passive"
  /\ outcome \in {"ineligible", "rejected", "taken", "takenUnanswered", "unanswered"}
  /\ outcome \in {"taken", "takenUnanswered"} => qty > 0
  /\ passiveQty' = IF outcome \notin {"taken", "takenUnanswered"} THEN 0
                   ELSE IF shutQty > qty THEN qty ELSE shutQty
  /\ CASE outcome = "ineligible" -> GoOn("market")
       [] outcome = "rejected" -> GoOn("residual")
       [] outcome = "taken" -> GoOn("waiting")
       [] OTHER -> ReturnCall(FALSE, "unconfirmed")
  /\ UNCHANGED <<qty, lifeNow, entryQty>>

(* Seeded fault: an acknowledged cancellation is taken for the end.           *)
PassiveAssumed == TRUE

(* After two seconds its receipt is read; if it still works it is canceled    *)
(* and read once more.  What is not terminal then is unknown.                 *)
PassiveTerminal == passiveQty = 0

SettlePassive(canceled, ok) ==
  /\ shutAt = "waiting"
  /\ passiveQty' = IF canceled THEN 0 ELSE passiveQty
  /\ IF ok THEN GoOn("settled") ELSE ReturnCall(FALSE, "unconfirmed")
  /\ UNCHANGED <<qty, lifeNow, entryQty>>

PassiveOutcome(ok) ==
  /\ shutAt \in {"waiting", "settled"}
  /\ IF ok /\ PassiveTerminal THEN GoOn("residual")
     ELSE (shutAt = "settled" \/ ~ok) /\ ReturnCall(FALSE, "unconfirmed")
  /\ UNCHANGED <<qty, lifeNow, pending>>

ReadResidual(ok) ==
  /\ shutAt = "residual"
  /\ IF ~ok THEN ReturnCall(FALSE, "unconfirmed")
     ELSE IF qty = 0 THEN ReturnCall(TRUE, "confirmed")
     ELSE IF lifeNow # shutLife \/ qty > shutQty THEN ReturnCall(FALSE, "unconfirmed")
     ELSE /\ shutAt' = "market" /\ shutQty' = qty /\ journal' = "submitted"
          /\ UNCHANGED <<shutLife, profitable, known, returned>>
  /\ UNCHANGED <<qty, lifeNow, pending>>

(* One market order, reduce-only for the size read last, never sent again; the *)
(* exchange may accept it and fill only a part.                               *)
SendMarket(taken, answered, whole) ==
  /\ shutAt = "market"
  /\ answered => taken
  /\ IF taken /\ qty > 0
     THEN \E n \in 1 .. qty : n <= shutQty /\ (whole => n = qty \/ n = shutQty) /\ Reduce(n)
     ELSE UNCHANGED <<qty, passiveQty>>
  /\ known' = answered
  /\ journal' = IF answered THEN "accepted" ELSE "unconfirmed"
  /\ shutAt' = IF taken THEN "sent" ELSE "notTaken"
  /\ UNCHANGED <<lifeNow, entryQty, shutLife, shutQty, profitable, returned>>

(* Seeded fault: an accepted order is taken for a closed position.            *)
LookAccepted(ok, found) ==
  /\ shutAt = "sent" /\ ok /\ (known \/ found)
  /\ ReturnCall(TRUE, "confirmed")
  /\ UNCHANGED <<qty, lifeNow, pending>>

(* Reads only: the order by its client id while it is not known, then the     *)
(* position, a few times until the deadline.                                  *)
Look(ok, found) ==
  /\ shutAt \in {"sent", "notTaken"}
  /\ found => shutAt = "sent"
  /\ LET identified == known \/ (ok /\ found) IN
     IF ok /\ qty = 0 THEN ReturnCall(TRUE, IF identified THEN "confirmed" ELSE "flat_observed")
     ELSE IF ok /\ lifeNow # shutLife THEN ReturnCall(FALSE, "unconfirmed")
     ELSE /\ known' = identified
          /\ journal' = IF identified /\ ~known THEN "accepted" ELSE journal
          /\ UNCHANGED <<shutAt, shutLife, shutQty, profitable, returned>>
  /\ UNCHANGED <<qty, lifeNow, pending>>

GiveUp ==
  /\ shutAt \in {"sent", "notTaken"}
  /\ ReturnCall(FALSE, "unconfirmed")
  /\ UNCHANGED <<qty, lifeNow, pending>>

(* The process dies: the order it sent stays at the exchange.                 *)
CloserDies ==
  /\ shutAt # "idle" /\ ReturnCall(FALSE, journal)
  /\ UNCHANGED <<qty, lifeNow, pending>>

CloseStep ==
  \/ \E a, b, c \in BOOLEAN : CancelPending(a, b, c)
  \/ \E b \in BOOLEAN : ReadPendingAgain(b) \/ ReadPosition(b) \/ PassiveOutcome(b) \/ ReadResidual(b)
  \/ \E o \in {"ineligible", "rejected", "taken", "takenUnanswered", "unanswered"} : PlacePassive(o)
  \/ \E a, b \in BOOLEAN : SettlePassive(a, b) \/ SendMarket(a, b, FALSE) \/ Look(a, b)
  \/ GiveUp

CloseNext ==
  \/ CloseStep
  \/ \E n \in 1 .. MaxQty : PlaceEntry(n) \/ StopOut(n)
  \/ FillEntry \/ FillPassive
  \/ \E l \in 1 .. MaxLife, p \in BOOLEAN : StartClose(l, p)
  \/ CloserDies

CloseSpec == CloseInit /\ [][CloseNext]_closeVars
(* The guard calls again every round; a protective call meets answers and      *)
(* effective cancellations, and its market order is taken, if tried often      *)
(* enough.                                                                     *)
Protective == ~profitable /\ shutLife = lifeNow
CloseFairness ==
  /\ WF_closeVars(CloseStep)
  /\ \A l \in 1 .. MaxLife : SF_closeVars(l = lifeNow /\ StartClose(l, FALSE))
  /\ SF_closeVars(Protective /\ CancelPending(TRUE, TRUE, TRUE))
  /\ SF_closeVars(Protective /\ ~StillPending /\ ReadPendingAgain(TRUE))
  /\ SF_closeVars(Protective /\ ReadPosition(TRUE))
  /\ SF_closeVars(Protective /\ \E b \in BOOLEAN : SendMarket(TRUE, b, TRUE))
CloseFairSpec == CloseSpec /\ CloseFairness

-----------------------------------------------------------------------------
CloseTypeOK ==
  /\ qty \in 0 .. MaxQty /\ lifeNow \in 0 .. MaxLife
  /\ entryQty \in 0 .. MaxQty /\ passiveQty \in 0 .. qty
  /\ shutAt \in {"idle", "called", "canceled", "clear", "passive", "waiting", "settled", "residual",
                 "market", "sent", "notTaken"}
  /\ shutLife \in 0 .. MaxLife /\ shutQty \in 0 .. MaxQty
  /\ profitable \in BOOLEAN /\ known \in BOOLEAN /\ returned \in BOOLEAN
  /\ journal \in {"none", "submitted", "accepted", "unconfirmed", "confirmed", "flat_observed"}
  /\ (known => shutAt = "sent") /\ (shutAt # "idle" => shutLife > 0)

(* The market order of a call never touches a later position than the one it  *)
(* was called for, although an entry may fill after a cancellation that was   *)
(* acknowledged and a stop may end the position at any moment                 *)
(* (same_lifecycle, and the second read of the pending orders).               *)
OnlyItsOwnPosition == [][shutAt = "market" /\ qty' < qty => lifeNow = shutLife]_closeVars

(* The market order is not sent beside a passive exit that may still fill     *)
(* ("Passive close unresolved; no fallback write"), in this call or left over *)
(* from one whose reply was lost or whose process died.                       *)
NoMarketBesidePassive == shutAt = "market" => passiveQty = 0

(* Success means that the position of the call is gone, whatever became of    *)
(* replies and partial fills; a lost reply is not success.                    *)
SuccessMeansGone ==
  [][shutAt # "idle" /\ shutAt' = "idle" /\ returned' => qty = 0 \/ lifeNow # shutLife]_closeVars

(* A passive exit left working by a lost reply, or a half-finished call, does *)
(* not keep a position from being closed by a later call.                     *)
CloseGoesThrough == qty > 0 ~> qty = 0

(* A close takes its own position and no other, and tells only of that.        *)
CloseHonest == [](CloseTypeOK /\ NoMarketBesidePassive) /\ OnlyItsOwnPosition /\ SuccessMeansGone
=============================================================================
