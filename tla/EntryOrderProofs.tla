--------------------------- MODULE EntryOrderProofs ---------------------------
(***************************************************************************)
(* The inductive invariant of EntryOrder and the theorems that rest on it. *)
(***************************************************************************)
EXTENDS EntryOrderRefinement, FiniteSetTheorems, TLAPS

Uncertain == {c \in Client : intent[c] \in {"unknown", "acknowledged"}}
Preflight == {"read_positions", "read_pending", "sweep", "absence_scan",
              "recheck_positions", "recheck_pending", "reserve"}

(* A client id without a row has never been used.                          *)
RowsInv ==
  \A c \in Client :
    /\ intent[c] = "none" => decisionOf[c] = NoDecision /\ order[c] = "none" /\ ~settled[c]
    /\ intent[c] # "none" => decisionOf[c] \in Decision

(* What an order's state says of its fill.                                 *)
FillInv ==
  \A c \in Client :
    /\ order[c] \in {"none", "transit", "lost", "rejected", "live"} => fill[c] = 0
    /\ order[c] = "partially_filled" => 0 < fill[c] /\ fill[c] < Size

(* LedgerTellsTruth, strengthened: what has no verdict yet is young.       *)
LedgerInv ==
  \A c \in Client :
    /\ order[c] = "transit" => ~settled[c] /\ intent[c] = "unknown"
    /\ intent[c] \in {"filled", "canceled"} => order[c] = intent[c]
    /\ intent[c] \in {"pending", "acknowledged"} => Accepted(c)
    /\ intent[c] \in {"not_submitted", "not_found"} =>
         order[c] \in {"none", "lost", "rejected"} \/ (order[c] = "canceled" /\ fill[c] = 0)
    /\ ~retained[c] => order[c] = "canceled"

(* The unique key: a decision has at most one row per leg.                 *)
UniqueInv ==
  \A b, c \in Client : SameDecision(b, c) /\ IsFallback(mode[b]) = IsFallback(mode[c]) => b = c

(* A fallback's parent is its decision's Maker, which bought nothing.      *)
ParentInv ==
  \A d \in Decision : parent[d].client # NoClient =>
    /\ decisionOf[parent[d].client] = d
    /\ mode[parent[d].client] = "maker_first"
    /\ intent[parent[d].client] \in {"canceled", "not_submitted"}
    /\ order[parent[d].client] \in {"canceled", "rejected"}
    /\ fill[parent[d].client] = 0

FallbackInv ==
  /\ \A c \in Client : intent[c] # "none" /\ IsFallback(mode[c]) =>
                         parent[decisionOf[c]].client # NoClient
  /\ pc \in Preflight => /\ cur \in Decision
                         /\ IsFallback(curMode) => parent[cur].client # NoClient

(* Where the trader is tells what its current row and order can be.        *)
DispatchInv ==
  /\ pc \in {"dispatch", "sent", "wait", "cancel", "reread", "settle", "fallback"} =>
       curClient \in Client /\ cur \in Decision /\ decisionOf[curClient] = cur
  /\ pc = "dispatch" =>
       intent[curClient] = "unknown" /\ order[curClient] = "none" /\ ~settled[curClient]
  /\ pc = "sent" => intent[curClient] = "unknown" /\ order[curClient] # "none"
  /\ pc \in {"wait", "cancel", "reread", "settle"} =>
       intent[curClient] = "acknowledged" /\ mode[curClient] = "maker_first"
  /\ pc = "settle" => order[curClient] = "canceled" /\ fill[curClient] = 0
  /\ pc = "fallback" =>
       /\ mode[curClient] = "maker_first" /\ fill[curClient] = 0
       /\ \/ intent[curClient] = "canceled" /\ order[curClient] = "canceled"
          \/ intent[curClient] = "not_submitted" /\ order[curClient] = "rejected"

(* The sweep owns rows of unknown outcome until it has located them all.   *)
SweepInv ==
  /\ todo \subseteq Recoverable
  /\ pc \notin {"sweep", "absence_scan"} => todo = {}
  /\ pc = "absence_scan" => \A c \in Client : Next1(c) => settled[c]
  /\ pc \in {"sweep", "absence_scan"} /\ ~blocked => Uncertain \subseteq todo
  /\ pc \in {"recheck_positions", "recheck_pending", "reserve"} => Uncertain = {}

IInv ==
  /\ TypeOK /\ RowsInv /\ FillInv /\ LedgerInv /\ UniqueInv /\ ParentInv
  /\ FallbackInv /\ DispatchInv /\ SweepInv /\ AtMostOneUncertain

-----------------------------------------------------------------------------
(* Every conjunct holds of the empty ledger and the idle trader.           *)
LEMMA InitIInv == Init => IInv
<1> SUFFICES ASSUME Init PROVE IInv
  OBVIOUS
<1> USE EntryAssumption DEF EntryAssumption, Init
<1>1. TypeOK
  <2>1. parent \in [Decision -> [client : Client \cup {NoClient}, state : IntentState]]
    BY DEF NoLink, IntentState
  <2>2. intent \in [Client -> IntentState] /\ order \in [Client -> OrderState] /\ mode \in [Client -> Mode]
    BY DEF IntentState, OrderState, Mode
  <2>3. fill \in [Client -> 0 .. Size] /\ position \in [Instrument -> Nat]
    OBVIOUS
  <2>4. pc \in PC /\ curMode \in Mode
    BY DEF PC, Mode
  <2>5. /\ decisionOf \in [Client -> Decision \cup {NoDecision}] /\ cur \in Decision \cup {NoDecision}
        /\ retained \in [Client -> BOOLEAN] /\ settled \in [Client -> BOOLEAN]
        /\ curClient \in Client \cup {NoClient} /\ seenPositions \in [Instrument -> Nat]
        /\ seenPending \subseteq (Client \X (0 .. Size)) /\ todo \subseteq Client
        /\ blocked \in BOOLEAN
    OBVIOUS
  <2> QED
    BY <2>1, <2>2, <2>3, <2>4, <2>5 DEF TypeOK
<1>2. RowsInv /\ FillInv /\ LedgerInv
  BY DEF RowsInv, FillInv, LedgerInv
<1>3. UniqueInv /\ ParentInv /\ FallbackInv
  BY DEF UniqueInv, ParentInv, FallbackInv, SameDecision, NoLink, Preflight
<1>4. DispatchInv /\ SweepInv /\ AtMostOneUncertain
  BY DEF DispatchInv, SweepInv, AtMostOneUncertain
<1> QED
  BY <1>1, <1>2, <1>3, <1>4 DEF IInv

(* What the trader may write into a row, and that it is a state.           *)
LEMMA ObservedState ==
  ASSUME TypeOK, NEW c \in Client, Visible(c)
  PROVE  /\ Observed(c) \in {"pending", "filled", "canceled"}
         /\ Observed(c) = "pending" => Working(c)
         /\ Observed(c) # "pending" => order[c] = Observed(c)
BY DEF Visible, Accepted, Observed, Working

(* Types are kept; a fill stays within the order because it works.         *)
LEMMA TypeStep == TypeOK /\ FillInv /\ DispatchInv /\ [Next]_vars => TypeOK'
<1> SUFFICES ASSUME TypeOK, FillInv, DispatchInv, [Next]_vars PROVE TypeOK'
  OBVIOUS
<1> USE EntryAssumption DEF EntryAssumption, TypeOK, durable, exchange, scan, local,
        ClearScan, ResetLocals, GoTo
<1>1. ASSUME NEW d \in Decision, NEW m \in {"maker_first", "limit"}, StartEntry(d, m) PROVE TypeOK'
  BY <1>1 DEF StartEntry, Mode, PC
<1>2. CASE ReadPositions
  BY <1>2 DEF ReadPositions, PC
<1>3. CASE ReadPending
  <2>1. Batch \subseteq Client
    BY DEF Batch, Recoverable
  <2>2. PendingNow \subseteq Client \X (0 .. Size)
    BY DEF PendingNow
  <2> QED
    BY <1>3, <2>1, <2>2 DEF ReadPending, PC
<1>4. ASSUME NEW c \in Client, Locate(c) PROVE TypeOK'
  <2>1. ASSUME NEW s \in {"pending", "filled", "canceled", "not_found"}, FinishLocated(c, s) PROVE TypeOK'
    BY <2>1 DEF FinishLocated, IntentState, PC
  <2>2. CASE LocateInSnapshot(c)
    BY <2>1, <2>2 DEF LocateInSnapshot
  <2>3. CASE LocateById(c)
    BY <2>1, <2>3, ObservedState DEF LocateById
  <2>4. CASE MissById(c)
    BY <2>4 DEF MissById, PC
  <2>5. CASE ScanFinds(c)
    BY <2>1, <2>5, ObservedState DEF ScanFinds
  <2>6. CASE ScanProvesAbsent(c)
    BY <2>1, <2>6 DEF ScanProvesAbsent
  <2>7. CASE LocateFails(c)
    BY <2>7 DEF LocateFails, PC
  <2> QED
    BY <1>4, <2>2, <2>3, <2>4, <2>5, <2>6, <2>7 DEF Locate
<1>5. CASE Admit \/ RecheckPositions \/ RecheckPending
  BY <1>5 DEF Admit, RecheckPositions, RecheckPending, PC
<1>6. ASSUME NEW c \in Client, BeginIntent(c) PROVE TypeOK'
  BY <1>6 DEF BeginIntent, PC, IntentState
<1>7. CASE DispatchBlocked
  BY <1>7 DEF DispatchBlocked, PC, IntentState, Mode
<1>8. CASE SendOrder
  BY <1>8 DEF SendOrder, PC, OrderState
<1>9. CASE ReplyAccepted
  <2>1. intent' \in [Client -> IntentState]
    BY <1>9 DEF ReplyAccepted, IntentState
  <2>2. CASE mode[curClient] = "maker_first"
    BY <1>9, <2>1, <2>2 DEF ReplyAccepted, PC
  <2>3. CASE mode[curClient] # "maker_first"
    <3>1. ResetLocals
      BY <1>9, <2>3 DEF ReplyAccepted
    <3> QED
      BY <1>9, <2>1, <3>1 DEF ReplyAccepted, PC, Mode
  <2> QED
    BY <2>2, <2>3
<1>10. CASE ReplyRejected \/ SettleMaker
  BY <1>10 DEF ReplyRejected, SettleMaker, PC, IntentState
<1>11. CASE MakerStatus \/ RereadMaker
  BY <1>11 DEF MakerStatus, RereadMaker, PC
<1>12. CASE CancelMaker
  BY <1>12 DEF CancelMaker, PC, OrderState
<1>13. CASE CreateFallback
  <2>1. curClient \in Client
    BY <1>13 DEF CreateFallback, DispatchInv
  <2> QED
    BY <1>13, <2>1 DEF CreateFallback, PC, Mode
<1>14. CASE Abandon
  BY <1>14 DEF Abandon, PC, Mode
<1>15. ASSUME NEW c \in Client, NEW s \in {"live", "rejected", "lost"}, Decide(c, s) PROVE TypeOK'
  BY <1>15 DEF Decide, OrderState
<1>16. ASSUME NEW c \in Client, FillOne(c) PROVE TypeOK'
  <2>1. fill[c] + 1 \in 0 .. Size
    BY <1>16 DEF FillOne, Working, FillInv
  <2>2. position' = [position EXCEPT ![InstrumentAt(c)] = position[InstrumentAt(c)] + 1]
    BY <1>16 DEF FillOne
  <2>3. position' \in [Instrument -> Nat]
    <3>1. CASE InstrumentAt(c) \in Instrument
      BY <2>2, <3>1
    <3>2. CASE InstrumentAt(c) \notin Instrument
      BY <2>2, <3>2
    <3> QED
      BY <3>1, <3>2
  <2> QED
    BY <1>16, <2>1, <2>3 DEF FillOne, OrderState
<1>17. ASSUME NEW c \in Client, CancelOther(c) \/ Forget(c) \/ Settle(c) PROVE TypeOK'
  BY <1>17 DEF CancelOther, Forget, Settle, OrderState
<1>18. ASSUME NEW i \in Instrument, ClosePosition(i) PROVE TypeOK'
  BY <1>18 DEF ClosePosition
<1>19. CASE UNCHANGED vars
  BY <1>19 DEF vars
<1> QED
  BY <1>1, <1>2, <1>3, <1>4, <1>5, <1>6, <1>7, <1>8, <1>9, <1>10, <1>11, <1>12, <1>13,
     <1>14, <1>15, <1>16, <1>17, <1>18, <1>19 DEF Next, Trader, Environment
-----------------------------------------------------------------------------
(* Most steps touch neither rows nor orders; the others are few.           *)
Quiet == UNCHANGED <<durable, order, fill, retained, settled>>

Verdict(c, s) ==
  /\ c \in todo /\ s \in {"pending", "filled", "canceled", "not_found"}
  /\ s = "pending" => Accepted(c)
  /\ s \in {"filled", "canceled"} => order[c] = s
  /\ s = "not_found" => intent[c] = "unknown" /\ ~Visible(c) /\ settled[c] /\ fill[c] = 0

(* A row the sweep reads is left alone, or gets a verdict that is true.    *)
LEMMA LocateResult ==
  ASSUME TypeOK, LedgerInv, SweepInv, NEW c \in Client, Locate(c)
  PROVE  \/ MissById(c) \/ LocateFails(c)
         \/ \E s \in IntentState : Verdict(c, s) /\ FinishLocated(c, s)
<1> USE DEF IntentState
<1>1. CASE LocateInSnapshot(c)
  BY <1>1 DEF LocateInSnapshot, LedgerInv, Verdict, Next1
<1>2. CASE LocateById(c) \/ ScanFinds(c)
  <2>1. Visible(c) /\ c \in todo /\ FinishLocated(c, Observed(c))
    BY <1>2 DEF LocateById, ScanFinds, Next1
  <2>2. Verdict(c, Observed(c))
    BY <2>1, ObservedState DEF Verdict, Working, Accepted
  <2> QED
    BY <2>1, <2>2, ObservedState
<1>3. CASE ScanProvesAbsent(c)
  BY <1>3 DEF ScanProvesAbsent, SweepInv, Verdict, Next1
<1> QED
  BY <1>1, <1>2, <1>3 DEF Locate

(* The steps that touch rows or orders, by name; the rest are Quiet.       *)
LEMMA StepCases ==
  ASSUME TypeOK, LedgerInv, SweepInv, [Next]_vars
  PROVE  \/ Quiet
         \/ \E c \in Client, s \in IntentState : Verdict(c, s) /\ FinishLocated(c, s)
         \/ \E c \in Client : BeginIntent(c)
         \/ DispatchBlocked \/ SendOrder \/ ReplyAccepted \/ ReplyRejected
         \/ CancelMaker \/ SettleMaker \/ CreateFallback
         \/ \E c \in Client, s \in {"live", "rejected", "lost"} : Decide(c, s)
         \/ \E c \in Client : FillOne(c) \/ CancelOther(c) \/ Forget(c) \/ Settle(c)
<1>1. CASE \E d \in Decision, m \in {"maker_first", "limit"} : StartEntry(d, m)
  BY <1>1 DEF StartEntry, Quiet, exchange
<1>2. CASE ReadPositions \/ ReadPending \/ Admit \/ RecheckPositions \/ RecheckPending
  BY <1>2 DEF ReadPositions, ReadPending, Admit, RecheckPositions, RecheckPending, Quiet, exchange
<1>3. CASE \E c \in Client : Locate(c)
  <2>1. ASSUME NEW c \in Client, MissById(c) \/ LocateFails(c) PROVE Quiet
    BY <2>1 DEF MissById, LocateFails, Quiet, exchange
  <2> QED
    BY <1>3, <2>1, LocateResult
<1>4. CASE MakerStatus \/ RereadMaker \/ Abandon
  BY <1>4 DEF MakerStatus, RereadMaker, Abandon, Quiet, exchange
<1>5. CASE \E i \in Instrument : ClosePosition(i)
  BY <1>5 DEF ClosePosition, Quiet
<1>6. CASE UNCHANGED vars
  BY <1>6 DEF vars, Quiet, exchange
<1> QED
  BY <1>1, <1>2, <1>3, <1>4, <1>5, <1>6 DEF Next, Trader, Environment

(* A row names a decision, and no step un-writes a row.                    *)
LEMMA RowsStep == IInv /\ [Next]_vars => RowsInv'
<1> SUFFICES ASSUME IInv, [Next]_vars PROVE RowsInv'
  OBVIOUS
<1>0. TypeOK /\ LedgerInv /\ SweepInv
  BY DEF IInv
<1> USE DEF TypeOK, RowsInv, durable, exchange
<1>1. CASE Quiet
  BY <1>1 DEF Quiet, IInv
<1>2. ASSUME NEW c \in Client, NEW s \in IntentState, Verdict(c, s), FinishLocated(c, s) PROVE RowsInv'
  BY <1>2 DEF Verdict, FinishLocated, SweepInv, Recoverable, IInv
<1>3. ASSUME NEW c \in Client, BeginIntent(c) PROVE RowsInv'
  BY <1>3 DEF BeginIntent, FallbackInv, Preflight, IInv
<1>4. CASE DispatchBlocked
  BY <1>4 DEF DispatchBlocked, IInv, DispatchInv
<1>5. CASE SendOrder
  BY <1>5 DEF SendOrder, IInv, DispatchInv
<1>6. CASE ReplyAccepted
  BY <1>6 DEF ReplyAccepted, IInv, DispatchInv
<1>7. CASE ReplyRejected
  BY <1>7 DEF ReplyRejected, IInv
<1>8. CASE CancelMaker
  BY <1>8 DEF CancelMaker, IInv, Working
<1>9. CASE SettleMaker
  BY <1>9 DEF SettleMaker, IInv, DispatchInv
<1>10. CASE CreateFallback
  BY <1>10 DEF CreateFallback, IInv
<1>11. ASSUME NEW c \in Client, NEW s \in {"live", "rejected", "lost"}, Decide(c, s) PROVE RowsInv'
  BY <1>11 DEF Decide, IInv
<1>12. ASSUME NEW c \in Client, FillOne(c) PROVE RowsInv'
  BY <1>12 DEF FillOne, IInv, Working
<1>13. ASSUME NEW c \in Client, CancelOther(c) \/ Forget(c) \/ Settle(c) PROVE RowsInv'
  BY <1>13 DEF CancelOther, Forget, Settle, Recoverable, IInv, Working
<1> QED
  BY <1>0, <1>1, <1>2, <1>3, <1>4, <1>5, <1>6, <1>7, <1>8, <1>9, <1>10, <1>11,
     <1>12, <1>13, StepCases

(* A fill and the state that reports it change together.                   *)
LEMMA FillStep == IInv /\ [Next]_vars => FillInv'
<1> SUFFICES ASSUME IInv, [Next]_vars PROVE FillInv'
  OBVIOUS
<1>0. TypeOK /\ LedgerInv /\ SweepInv
  BY DEF IInv
<1> USE DEF TypeOK, FillInv, durable, exchange
<1>1. CASE Quiet
  BY <1>1 DEF Quiet, IInv
<1>2. ASSUME NEW c \in Client, NEW s \in IntentState, Verdict(c, s), FinishLocated(c, s) PROVE FillInv'
  BY <1>2 DEF Verdict, FinishLocated, IInv
<1>3. ASSUME NEW c \in Client, BeginIntent(c) PROVE FillInv'
  BY <1>3 DEF BeginIntent, IInv
<1>4. CASE DispatchBlocked
  BY <1>4 DEF DispatchBlocked, IInv
<1>5. CASE SendOrder
  BY <1>5 DEF SendOrder, IInv, DispatchInv
<1>6. CASE ReplyAccepted
  BY <1>6 DEF ReplyAccepted, IInv
<1>7. CASE ReplyRejected
  BY <1>7 DEF ReplyRejected, IInv
<1>8. CASE CancelMaker
  BY <1>8 DEF CancelMaker, IInv
<1>9. CASE SettleMaker
  BY <1>9 DEF SettleMaker, IInv
<1>10. CASE CreateFallback
  BY <1>10 DEF CreateFallback, IInv
<1>11. ASSUME NEW c \in Client, NEW s \in {"live", "rejected", "lost"}, Decide(c, s) PROVE FillInv'
  BY <1>11 DEF Decide, IInv
<1>12. ASSUME NEW c \in Client, FillOne(c) PROVE FillInv'
  <2>1. fill[c] \in Nat /\ Size \in Nat /\ fill[c] < Size
    BY <1>12, EntryAssumption DEF IInv, FillOne, Working, EntryAssumption
  <2>2. /\ fill' = [fill EXCEPT ![c] = fill[c] + 1]
        /\ order' = [order EXCEPT ![c] = IF fill[c] + 1 = Size THEN "filled" ELSE "partially_filled"]
    BY <1>12 DEF FillOne
  <2>3. order'[c] = "partially_filled" => 0 < fill'[c] /\ fill'[c] < Size
    <3>1. fill'[c] = fill[c] + 1 /\ order'[c] = IF fill[c] + 1 = Size THEN "filled" ELSE "partially_filled"
      BY <1>0, <2>2
    <3> HIDE DEF TypeOK, FillInv
    <3> QED
      BY <2>1, <3>1
  <2> QED
    BY <2>2, <2>3 DEF IInv
<1>13. ASSUME NEW c \in Client, CancelOther(c) \/ Forget(c) \/ Settle(c) PROVE FillInv'
  BY <1>13 DEF CancelOther, Forget, Settle, IInv
<1> QED
  BY <1>0, <1>1, <1>2, <1>3, <1>4, <1>5, <1>6, <1>7, <1>8, <1>9, <1>10, <1>11,
     <1>12, <1>13, StepCases

(* A verdict is true when written, and finished orders stay finished.      *)
LEMMA LedgerStep == IInv /\ [Next]_vars => LedgerInv'
<1> SUFFICES ASSUME IInv, [Next]_vars PROVE LedgerInv'
  OBVIOUS
<1>0. TypeOK /\ LedgerInv /\ SweepInv
  BY DEF IInv
<1> USE DEF TypeOK, LedgerInv, durable, exchange
<1>1. CASE Quiet
  BY <1>1 DEF Quiet, IInv, Accepted
<1>2. ASSUME NEW c \in Client, NEW s \in IntentState, Verdict(c, s), FinishLocated(c, s) PROVE LedgerInv'
  <2>3. (order[c] = "transit" => ~settled[c]) /\ (~retained[c] => order[c] = "canceled")
    BY <1>0
  <2>1. s = "not_found" =>
          order[c] \in {"none", "lost", "rejected"} \/ (order[c] = "canceled" /\ fill[c] = 0)
    BY <1>0, <1>2, <2>3 DEF Verdict, Visible, Accepted, OrderState
  <2>2. order[c] # "transit" \/ s = "not_found"
    BY <1>2 DEF Verdict, Accepted
  <2> QED
    BY <1>0, <1>2, <2>1, <2>2 DEF Verdict, FinishLocated, Accepted
<1>3. ASSUME NEW c \in Client, BeginIntent(c) PROVE LedgerInv'
  BY <1>3 DEF BeginIntent, IInv, Accepted
<1>4. CASE DispatchBlocked
  BY <1>4 DEF DispatchBlocked, IInv, DispatchInv, Accepted
<1>5. CASE SendOrder
  BY <1>5 DEF SendOrder, IInv, DispatchInv, Accepted
<1>6. CASE ReplyAccepted
  BY <1>6 DEF ReplyAccepted, IInv, Accepted
<1>7. CASE ReplyRejected
  BY <1>7 DEF ReplyRejected, IInv, Accepted
<1>8. CASE CancelMaker
  BY <1>8 DEF CancelMaker, IInv, Working, Accepted
<1>9. CASE SettleMaker
  BY <1>9 DEF SettleMaker, IInv, DispatchInv, Accepted
<1>10. CASE CreateFallback
  BY <1>10 DEF CreateFallback, IInv, Accepted
<1>11. ASSUME NEW c \in Client, NEW s \in {"live", "rejected", "lost"}, Decide(c, s) PROVE LedgerInv'
  BY <1>11 DEF Decide, IInv, Accepted
<1>12. ASSUME NEW c \in Client, FillOne(c) PROVE LedgerInv'
  BY <1>12 DEF FillOne, IInv, Working, Accepted
<1>13. ASSUME NEW c \in Client, CancelOther(c) \/ Forget(c) \/ Settle(c) PROVE LedgerInv'
  BY <1>13 DEF CancelOther, Forget, Settle, IInv, Working, Accepted
<1> QED
  BY <1>0, <1>1, <1>2, <1>3, <1>4, <1>5, <1>6, <1>7, <1>8, <1>9, <1>10, <1>11,
     <1>12, <1>13, StepCases

(* Only BeginIntent adds a row, and the unique key refuses a second one.   *)
LEMMA UniqueStep == IInv /\ [Next]_vars => UniqueInv'
<1> SUFFICES ASSUME IInv, [Next]_vars PROVE UniqueInv'
  OBVIOUS
<1>0. TypeOK /\ LedgerInv /\ SweepInv
  BY DEF IInv
<1> USE DEF TypeOK, UniqueInv, SameDecision, durable, exchange
<1>1. CASE Quiet
  BY <1>1 DEF Quiet, IInv
<1>2. ASSUME NEW c \in Client, NEW s \in IntentState, Verdict(c, s), FinishLocated(c, s) PROVE UniqueInv'
  BY <1>2 DEF Verdict, FinishLocated, SweepInv, Recoverable, IInv
<1>3. ASSUME NEW c \in Client, BeginIntent(c) PROVE UniqueInv'
  BY <1>3 DEF BeginIntent, Duplicate, IInv
<1>4. CASE DispatchBlocked
  BY <1>4 DEF DispatchBlocked, IInv, DispatchInv
<1>5. CASE SendOrder
  BY <1>5 DEF SendOrder, IInv
<1>6. CASE ReplyAccepted
  BY <1>6 DEF ReplyAccepted, IInv, DispatchInv
<1>7. CASE ReplyRejected
  BY <1>7 DEF ReplyRejected, IInv, DispatchInv
<1>8. CASE CancelMaker
  BY <1>8 DEF CancelMaker, IInv
<1>9. CASE SettleMaker
  BY <1>9 DEF SettleMaker, IInv, DispatchInv
<1>10. CASE CreateFallback
  BY <1>10 DEF CreateFallback, IInv
<1>11. ASSUME NEW c \in Client, NEW s \in {"live", "rejected", "lost"}, Decide(c, s) PROVE UniqueInv'
  BY <1>11 DEF Decide, IInv
<1>12. ASSUME NEW c \in Client, FillOne(c) PROVE UniqueInv'
  BY <1>12 DEF FillOne, IInv
<1>13. ASSUME NEW c \in Client, CancelOther(c) \/ Forget(c) \/ Settle(c) PROVE UniqueInv'
  BY <1>13 DEF CancelOther, Forget, Settle, IInv
<1> QED
  BY <1>0, <1>1, <1>2, <1>3, <1>4, <1>5, <1>6, <1>7, <1>8, <1>9, <1>10, <1>11,
     <1>12, <1>13, StepCases

(* A fallback is linked to a Maker that is finished and bought nothing.    *)
LEMMA ParentStep == IInv /\ [Next]_vars => ParentInv'
<1> SUFFICES ASSUME IInv, [Next]_vars PROVE ParentInv'
  OBVIOUS
<1>0. TypeOK /\ LedgerInv /\ SweepInv
  BY DEF IInv
<1> USE DEF TypeOK, ParentInv, durable, exchange
<1>1. CASE Quiet
  BY <1>1 DEF Quiet, IInv
<1>2. ASSUME NEW c \in Client, NEW s \in IntentState, Verdict(c, s), FinishLocated(c, s) PROVE ParentInv'
  BY <1>2 DEF Verdict, FinishLocated, SweepInv, Recoverable, IInv
<1>3. ASSUME NEW c \in Client, BeginIntent(c) PROVE ParentInv'
  BY <1>3 DEF BeginIntent, FreshClient, IInv
<1>4. CASE DispatchBlocked
  BY <1>4 DEF DispatchBlocked, IInv
<1>5. CASE SendOrder
  BY <1>5 DEF SendOrder, IInv, DispatchInv
<1>6. CASE ReplyAccepted
  BY <1>6 DEF ReplyAccepted, IInv, DispatchInv
<1>7. CASE ReplyRejected
  BY <1>7 DEF ReplyRejected, IInv
<1>8. CASE CancelMaker
  BY <1>8 DEF CancelMaker, IInv
<1>9. CASE SettleMaker
  BY <1>9 DEF SettleMaker, IInv
<1>10. CASE CreateFallback
  BY <1>10 DEF CreateFallback, IsFallback, IInv, DispatchInv
<1>11. ASSUME NEW c \in Client, NEW s \in {"live", "rejected", "lost"}, Decide(c, s) PROVE ParentInv'
  BY <1>11 DEF Decide, IInv
<1>12. ASSUME NEW c \in Client, FillOne(c) PROVE ParentInv'
  BY <1>12 DEF FillOne, IInv, Working
<1>13. ASSUME NEW c \in Client, CancelOther(c) \/ Forget(c) \/ Settle(c) PROVE ParentInv'
  BY <1>13 DEF CancelOther, Forget, Settle, IInv
<1> QED
  BY <1>0, <1>1, <1>2, <1>3, <1>4, <1>5, <1>6, <1>7, <1>8, <1>9, <1>10, <1>11,
     <1>12, <1>13, StepCases

(* Only CreateFallback lets a preflight run for a fallback.                *)
LEMMA FallbackStep == IInv /\ [Next]_vars => FallbackInv'
<1> SUFFICES ASSUME IInv, [Next]_vars PROVE FallbackInv'
  OBVIOUS
<1>0. TypeOK /\ LedgerInv /\ SweepInv
  BY DEF IInv
<1> USE DEF TypeOK, FallbackInv, Preflight, durable, exchange, local, scan, GoTo, ResetLocals, ClearScan, IsFallback
<1>1. ASSUME NEW d \in Decision, NEW m \in {"maker_first", "limit"}, StartEntry(d, m) PROVE FallbackInv'
  BY <1>0, <1>1 DEF StartEntry, IInv
<1>2. CASE ReadPositions \/ ReadPending
  BY <1>0, <1>2 DEF ReadPositions, ReadPending, IInv
<1>3. ASSUME NEW c \in Client, Locate(c) PROVE FallbackInv'
  <2>1. ASSUME NEW s \in IntentState, Verdict(c, s), FinishLocated(c, s) PROVE FallbackInv'
    BY <1>0, <2>1 DEF IInv, Verdict, FinishLocated, SweepInv, Recoverable
  <2>2. CASE MissById(c) \/ LocateFails(c)
    BY <1>0, <2>2 DEF IInv, MissById, LocateFails
  <2> QED
    BY <1>3, <2>1, <2>2, LocateResult, <1>0
<1>4. CASE Admit \/ RecheckPositions \/ RecheckPending
  BY <1>0, <1>4 DEF Admit, RecheckPositions, RecheckPending, IInv
<1>5. ASSUME NEW c \in Client, BeginIntent(c) PROVE FallbackInv'
  BY <1>0, <1>5 DEF BeginIntent, IInv
<1>6. CASE DispatchBlocked
  BY <1>0, <1>6 DEF DispatchBlocked, DispatchInv, IInv
<1>7. CASE SendOrder
  BY <1>0, <1>7 DEF SendOrder, IInv
<1>8. CASE ReplyAccepted
  BY <1>0, <1>8 DEF ReplyAccepted, DispatchInv, IInv
<1>9. CASE ReplyRejected
  BY <1>0, <1>9 DEF ReplyRejected, IInv
<1>10. CASE MakerStatus \/ RereadMaker
  BY <1>0, <1>10 DEF MakerStatus, RereadMaker, IInv
<1>11. CASE CancelMaker
  BY <1>0, <1>11 DEF CancelMaker, IInv
<1>12. CASE SettleMaker
  BY <1>0, <1>12 DEF SettleMaker, DispatchInv, IInv
<1>13. CASE CreateFallback
  BY <1>0, <1>13 DEF CreateFallback, DispatchInv, NoClient, Client, IInv
<1>14. CASE Abandon
  BY <1>0, <1>14 DEF Abandon, IInv
<1>15. ASSUME NEW c \in Client, NEW s \in {"live", "rejected", "lost"}, Decide(c, s) PROVE FallbackInv'
  BY <1>0, <1>15 DEF Decide, IInv
<1>16. ASSUME NEW c \in Client, FillOne(c) PROVE FallbackInv'
  BY <1>0, <1>16 DEF FillOne, IInv
<1>17. ASSUME NEW c \in Client, CancelOther(c) \/ Forget(c) \/ Settle(c) PROVE FallbackInv'
  BY <1>0, <1>17 DEF CancelOther, Forget, Settle, IInv
<1>18. ASSUME NEW i \in Instrument, ClosePosition(i) PROVE FallbackInv'
  BY <1>0, <1>18 DEF ClosePosition, IInv
<1>19. CASE UNCHANGED vars
  BY <1>0, <1>19 DEF vars, IInv
<1> QED
  BY <1>0, <1>1, <1>2, <1>3, <1>4, <1>5, <1>6, <1>7, <1>8, <1>9, <1>10, <1>11,
     <1>12, <1>13, <1>14, <1>15, <1>16, <1>17, <1>18, <1>19 DEF Next, Trader, Environment

(* Between its steps nobody else touches the row the trader works on.      *)
LEMMA DispatchStep == IInv /\ [Next]_vars => DispatchInv'
<1> SUFFICES ASSUME IInv, [Next]_vars PROVE DispatchInv'
  OBVIOUS
<1>0. TypeOK /\ LedgerInv /\ SweepInv
  BY DEF IInv
<1> USE DEF TypeOK, DispatchInv, durable, exchange, local, scan, GoTo, ResetLocals, ClearScan
<1>1. ASSUME NEW d \in Decision, NEW m \in {"maker_first", "limit"}, StartEntry(d, m) PROVE DispatchInv'
  BY <1>0, <1>1 DEF StartEntry
<1>2. CASE ReadPositions \/ ReadPending
  BY <1>0, <1>2 DEF ReadPositions, ReadPending
<1>3. ASSUME NEW c \in Client, Locate(c) PROVE DispatchInv'
  <2>1. ASSUME NEW s \in IntentState, Verdict(c, s), FinishLocated(c, s) PROVE DispatchInv'
    BY <1>0, <2>1 DEF Verdict, FinishLocated
  <2>2. CASE MissById(c) \/ LocateFails(c)
    BY <1>0, <2>2 DEF MissById, LocateFails
  <2> QED
    BY <1>3, <2>1, <2>2, LocateResult, <1>0
<1>4. CASE Admit \/ RecheckPositions \/ RecheckPending
  BY <1>0, <1>4 DEF Admit, RecheckPositions, RecheckPending
<1>5. ASSUME NEW c \in Client, BeginIntent(c) PROVE DispatchInv'
  BY <1>0, <1>5 DEF BeginIntent, FreshClient, FallbackInv, Preflight, RowsInv, IInv
<1>6. CASE DispatchBlocked
  BY <1>0, <1>6 DEF DispatchBlocked
<1>7. CASE SendOrder
  BY <1>0, <1>7 DEF SendOrder, IInv
<1>8. CASE ReplyAccepted
  BY <1>0, <1>8 DEF ReplyAccepted, IInv
<1>9. CASE ReplyRejected
  BY <1>0, <1>9 DEF ReplyRejected, FillInv, IInv
<1>10. CASE MakerStatus \/ RereadMaker
  BY <1>0, <1>10 DEF MakerStatus, RereadMaker, ProvenUnfilled, IInv
<1>11. CASE CancelMaker
  BY <1>0, <1>11 DEF CancelMaker, IInv
<1>12. CASE SettleMaker
  BY <1>0, <1>12 DEF SettleMaker, IInv
<1>13. CASE CreateFallback
  BY <1>0, <1>13 DEF CreateFallback
<1>14. CASE Abandon
  BY <1>0, <1>14 DEF Abandon
<1>15. ASSUME NEW c \in Client, NEW s \in {"live", "rejected", "lost"}, Decide(c, s) PROVE DispatchInv'
  BY <1>0, <1>15 DEF Decide, IInv
<1>16. ASSUME NEW c \in Client, FillOne(c) PROVE DispatchInv'
  BY <1>0, <1>16 DEF FillOne, Working, IInv
<1>17. ASSUME NEW c \in Client, CancelOther(c) \/ Forget(c) \/ Settle(c) PROVE DispatchInv'
  BY <1>0, <1>17 DEF CancelOther, Forget, Settle, Working, IInv
<1>18. ASSUME NEW i \in Instrument, ClosePosition(i) PROVE DispatchInv'
  BY <1>0, <1>18 DEF ClosePosition, IInv
<1>19. CASE UNCHANGED vars
  BY <1>0, <1>19 DEF vars, IInv
<1> QED
  BY <1>0, <1>1, <1>2, <1>3, <1>4, <1>5, <1>6, <1>7, <1>8, <1>9, <1>10, <1>11,
     <1>12, <1>13, <1>14, <1>15, <1>16, <1>17, <1>18, <1>19 DEF Next, Trader, Environment

(* An unblocked sweep has dealt with every uncertain row when it ends.     *)
LEMMA SweepStep == IInv /\ [Next]_vars => SweepInv'
<1> SUFFICES ASSUME IInv, [Next]_vars PROVE SweepInv'
  OBVIOUS
<1>0. TypeOK /\ LedgerInv /\ SweepInv
  BY DEF IInv
<1> USE DEF TypeOK, SweepInv, durable, exchange, local, scan, GoTo, ResetLocals, ClearScan, Recoverable, Uncertain, Next1
<1>1. ASSUME NEW d \in Decision, NEW m \in {"maker_first", "limit"}, StartEntry(d, m) PROVE SweepInv'
  BY <1>0, <1>1 DEF StartEntry
<1>2. CASE ReadPositions \/ ReadPending
  <2>1. CASE ReadPositions
    BY <1>0, <2>1 DEF ReadPositions
  <2>2. CASE ReadPending
    <3>1. Batch \subseteq Recoverable
      BY DEF Batch
    <3>2. Uncertain \subseteq Recoverable
      OBVIOUS
    <3>3. Recoverable' = Recoverable /\ Uncertain' = Uncertain
      BY <2>2 DEF ReadPending
    <3> HIDE DEF Recoverable, Uncertain
    <3> QED
      BY <1>0, <2>2, <3>1, <3>2, <3>3 DEF ReadPending
  <2> QED
    BY <1>2, <2>1, <2>2
<1>3. ASSUME NEW c \in Client, Locate(c) PROVE SweepInv'
  <2>1. ASSUME NEW s \in IntentState, Verdict(c, s), FinishLocated(c, s) PROVE SweepInv'
    BY <1>0, <2>1 DEF Verdict, FinishLocated
  <2>2. CASE MissById(c)
    <3>1. \A b \in Client : Next1(b) => b = c
      BY <2>2, EntryAssumption DEF MissById, Client, EntryAssumption
    <3> QED
      BY <1>0, <2>2, <3>1 DEF MissById
  <2>3. CASE LocateFails(c)
    BY <1>0, <2>3 DEF LocateFails
  <2> QED
    BY <1>3, <2>1, <2>2, <2>3, LocateResult, <1>0
<1>4. CASE Admit \/ RecheckPositions \/ RecheckPending
  BY <1>0, <1>4 DEF Admit, RecheckPositions, RecheckPending
<1>5. ASSUME NEW c \in Client, BeginIntent(c) PROVE SweepInv'
  BY <1>0, <1>5 DEF BeginIntent
<1>6. CASE DispatchBlocked
  BY <1>0, <1>6 DEF DispatchBlocked
<1>7. CASE SendOrder
  BY <1>0, <1>7 DEF SendOrder
<1>8. CASE ReplyAccepted
  BY <1>0, <1>8 DEF ReplyAccepted
<1>9. CASE ReplyRejected
  BY <1>0, <1>9 DEF ReplyRejected
<1>10. CASE MakerStatus \/ RereadMaker
  BY <1>0, <1>10 DEF MakerStatus, RereadMaker
<1>11. CASE CancelMaker
  BY <1>0, <1>11 DEF CancelMaker
<1>12. CASE SettleMaker
  BY <1>0, <1>12 DEF SettleMaker
<1>13. CASE CreateFallback
  BY <1>0, <1>13 DEF CreateFallback
<1>14. CASE Abandon
  BY <1>0, <1>14 DEF Abandon
<1>15. ASSUME NEW c \in Client, NEW s \in {"live", "rejected", "lost"}, Decide(c, s) PROVE SweepInv'
  BY <1>0, <1>15 DEF Decide
<1>16. ASSUME NEW c \in Client, FillOne(c) PROVE SweepInv'
  BY <1>0, <1>16 DEF FillOne
<1>17. ASSUME NEW c \in Client, CancelOther(c) \/ Forget(c) \/ Settle(c) PROVE SweepInv'
  BY <1>0, <1>17 DEF CancelOther, Forget, Settle
<1>18. ASSUME NEW i \in Instrument, ClosePosition(i) PROVE SweepInv'
  BY <1>0, <1>18 DEF ClosePosition
<1>19. CASE UNCHANGED vars
  BY <1>0, <1>19 DEF vars
<1> QED
  BY <1>0, <1>1, <1>2, <1>3, <1>4, <1>5, <1>6, <1>7, <1>8, <1>9, <1>10, <1>11,
     <1>12, <1>13, <1>14, <1>15, <1>16, <1>17, <1>18, <1>19 DEF Next, Trader, Environment

(* BeginIntent comes after such a sweep; nothing else adds uncertainty.    *)
LEMMA UncertainStep == IInv /\ [Next]_vars => AtMostOneUncertain'
<1> SUFFICES ASSUME IInv, [Next]_vars PROVE AtMostOneUncertain'
  OBVIOUS
<1>0. TypeOK /\ LedgerInv /\ SweepInv
  BY DEF IInv
<1> USE DEF TypeOK, AtMostOneUncertain, durable, exchange
<1>1. CASE Quiet
  BY <1>1 DEF Quiet, IInv
<1>2. ASSUME NEW c \in Client, NEW s \in IntentState, Verdict(c, s), FinishLocated(c, s) PROVE AtMostOneUncertain'
  BY <1>2 DEF Verdict, FinishLocated, IInv
<1>3. ASSUME NEW c \in Client, BeginIntent(c) PROVE AtMostOneUncertain'
  BY <1>3 DEF BeginIntent, SweepInv, Uncertain, IInv
<1>4. CASE DispatchBlocked
  BY <1>4 DEF DispatchBlocked, IInv
<1>5. CASE SendOrder
  BY <1>5 DEF SendOrder, IInv
<1>6. CASE ReplyAccepted
  BY <1>6 DEF ReplyAccepted, IInv, DispatchInv
<1>7. CASE ReplyRejected
  BY <1>7 DEF ReplyRejected, IInv
<1>8. CASE CancelMaker
  BY <1>8 DEF CancelMaker, IInv
<1>9. CASE SettleMaker
  BY <1>9 DEF SettleMaker, IInv
<1>10. CASE CreateFallback
  BY <1>10 DEF CreateFallback, IInv
<1>11. ASSUME NEW c \in Client, NEW s \in {"live", "rejected", "lost"}, Decide(c, s) PROVE AtMostOneUncertain'
  BY <1>11 DEF Decide, IInv
<1>12. ASSUME NEW c \in Client, FillOne(c) PROVE AtMostOneUncertain'
  BY <1>12 DEF FillOne, IInv
<1>13. ASSUME NEW c \in Client, CancelOther(c) \/ Forget(c) \/ Settle(c) PROVE AtMostOneUncertain'
  BY <1>13 DEF CancelOther, Forget, Settle, IInv
<1> QED
  BY <1>0, <1>1, <1>2, <1>3, <1>4, <1>5, <1>6, <1>7, <1>8, <1>9, <1>10, <1>11,
     <1>12, <1>13, StepCases

(* The invariant is inductive.                                             *)
LEMMA IInvStep == IInv /\ [Next]_vars => IInv'
BY TypeStep, RowsStep, FillStep, LedgerStep, UniqueStep, ParentStep, FallbackStep, DispatchStep,
   SweepStep, UncertainStep DEF IInv

(* The inductive invariant holds in every reachable state.                 *)
THEOREM Invariance == Spec => []IInv
BY InitIInv, IInvStep, PTL DEF Spec

(* Every variable has its type: in particular no fill exceeds the order.   *)
THEOREM TypeCorrect == Spec => []TypeOK
<1>1. IInv => TypeOK
  BY DEF IInv
<1> QED
  BY <1>1, Invariance, PTL

(* No preflight reserves an entry while an earlier one's outcome is not    *)
(* known: the account never has two rows unknown or merely acknowledged.   *)
THEOREM AtMostOneUncertainTheorem == Spec => []AtMostOneUncertain
<1>1. IInv => AtMostOneUncertain
  BY DEF IInv
<1> QED
  BY <1>1, Invariance, PTL

(* What a resolved row says of its order is so, whatever the exchange has  *)
(* done since and whatever was lost on the way.                            *)
THEOREM LedgerTellsTruthTheorem == Spec => []LedgerTellsTruth
<1>1. IInv => LedgerTellsTruth
  BY DEF IInv, TypeOK, LedgerInv, FillInv, LedgerTellsTruth, Outstanding, Working
<1> QED
  BY <1>1, Invariance, PTL

(* Of a decision's two rows one is the fallback and the other its parent,  *)
(* which is a Maker proven unfilled.                                       *)
LEMMA ParentOfTwo ==
  ASSUME IInv, NEW b \in Client, NEW c \in Client, b # c, SameDecision(b, c)
  PROVE  \E p \in {b, c} : fill[p] = 0 /\ order[p] \in {"canceled", "rejected"} /\ intent[p] \in {"canceled", "not_submitted"}
<1> DEFINE d == decisionOf[b]
           p == parent[d].client
<1>1. d \in Decision /\ decisionOf[c] = d
  BY DEF IInv, RowsInv, SameDecision
<1>2. PICK f \in {b, c}, o \in {b, c} : o # f /\ IsFallback(mode[f]) /\ ~IsFallback(mode[o])
  BY DEF IInv, UniqueInv, IsFallback
<1>3. p # NoClient
  BY <1>1, <1>2 DEF IInv, FallbackInv, SameDecision
<1>4. /\ p \in Client /\ decisionOf[p] = d /\ mode[p] = "maker_first"
      /\ intent[p] \in {"canceled", "not_submitted"}
      /\ order[p] \in {"canceled", "rejected"} /\ fill[p] = 0
  BY <1>1, <1>3 DEF IInv, ParentInv, TypeOK
<1>5. p = o
  BY <1>1, <1>2, <1>4 DEF IInv, UniqueInv, SameDecision, IsFallback
<1> QED
  BY <1>2, <1>4, <1>5

(* One decision buys at most one order's worth.                            *)
THEOREM BoughtOnceTheorem == Spec => []BoughtOnce
<1>1. IInv => BoughtOnce
  BY ParentOfTwo DEF BoughtOnce, Outstanding, Working
<1> QED
  BY <1>1, Invariance, PTL

(* No resolved row is rewritten and no evidence of acceptance is erased.   *)
THEOREM EvidenceNeverErasedTheorem == Spec => EvidenceNeverErased
<1>1. ASSUME IInv, [Next]_vars, NEW c \in Client
      PROVE  /\ intent[c] \in Resolved => intent'[c] = intent[c]
             /\ intent[c] = "pending" => intent'[c] \in {"pending", "filled", "canceled"}
             /\ intent[c] = "acknowledged" => intent'[c] \notin {"unknown", "not_found", "not_submitted"}
  <2> USE <1>1 DEF IInv, TypeOK, Resolved, durable
  <2>1. CASE intent' = intent
    BY <2>1
  <2>2. ASSUME NEW b \in Client, NEW s \in IntentState, Verdict(b, s), FinishLocated(b, s)
        PROVE  /\ intent[c] \in Resolved => intent'[c] = intent[c]
               /\ intent[c] = "pending" => intent'[c] \in {"pending", "filled", "canceled"}
               /\ intent[c] = "acknowledged" => intent'[c] \notin {"unknown", "not_found", "not_submitted"}
    BY <2>2 DEF Verdict, FinishLocated, SweepInv, Recoverable
  <2>3. CASE \E b \in Client : BeginIntent(b)
    BY <2>3 DEF BeginIntent, FreshClient
  <2>4. CASE DispatchBlocked \/ ReplyAccepted \/ ReplyRejected \/ SettleMaker
    BY <2>4 DEF DispatchBlocked, ReplyAccepted, ReplyRejected, SettleMaker, DispatchInv
  <2>5. CASE Quiet \/ SendOrder \/ CancelMaker \/ CreateFallback
    BY <2>1, <2>5 DEF Quiet, SendOrder, CancelMaker, CreateFallback
  <2>6. ASSUME NEW b \in Client, NEW s \in {"live", "rejected", "lost"},
               Decide(b, s) \/ FillOne(b) \/ CancelOther(b) \/ Forget(b) \/ Settle(b)
        PROVE  intent' = intent
    BY <2>6 DEF Decide, FillOne, CancelOther, Forget, Settle
  <2> QED
    BY <2>1, <2>2, <2>3, <2>4, <2>5, <2>6, StepCases
<1>2. IInv /\ [Next]_vars => [\A c \in Client :
         /\ intent[c] \in Resolved => intent'[c] = intent[c]
         /\ intent[c] = "pending" => intent'[c] \in {"pending", "filled", "canceled"}
         /\ intent[c] = "acknowledged" => intent'[c] \notin {"unknown", "not_found", "not_submitted"}]_vars
  BY <1>1
<1> QED
  BY <1>2, Invariance, PTL DEF Spec, EvidenceNeverErased

-----------------------------------------------------------------------------
(* The refinement: what a decision's orders are to the promise.            *)
(* An order that is being sent, or may still buy, is the only one of its   *)
(* decision that ever buys, and at most one went before it.                *)
LEMMA OthersAreOver ==
  ASSUME IInv, NEW c \in Client, intent[c] # "none", NEW d \in Decision, decisionOf[c] = d,
         Outstanding(c) \/ intent[c] = "unknown"
  PROVE  /\ \A b \in Sent(d) : b # c => fill[b] = 0 /\ ~Outstanding(b)
         /\ \A a, b \in Sent(d) : a # c /\ b # c => a = b
<1>1. \A b \in Sent(d) : b \in Client /\ intent[b] # "none" /\ decisionOf[b] = d
  BY DEF Sent, IInv, RowsInv
<1>2. ASSUME NEW b \in Sent(d), b # c PROVE fill[b] = 0 /\ ~Outstanding(b)
  <2>1. SameDecision(b, c)
    BY <1>1, <1>2 DEF SameDecision
  <2> QED
    BY <1>1, <1>2, <2>1, ParentOfTwo DEF Outstanding, Working
<1>3. ASSUME NEW a \in Sent(d), NEW b \in Sent(d), a # c, b # c PROVE a = b
  <2>1. SameDecision(a, c) /\ SameDecision(b, c) /\ SameDecision(a, b)
    BY <1>1 DEF SameDecision
  <2> QED
    BY <1>1, <1>3, <2>1 DEF IInv, UniqueInv, IsFallback
<1> QED
  BY <1>2, <1>3

(* Only finitely many orders have been sent. *)
LEMMA SentIsFinite ==
  ASSUME TypeOK, NEW d \in Decision
  PROVE  /\ IsFiniteSet(Sent(d)) /\ Cardinality(Sent(d)) \in Nat
         /\ IsFiniteSet(Contracts(d)) /\ Cardinality(Contracts(d)) \in Nat
<1> USE EntryAssumption DEF EntryAssumption
<1>1. IsFiniteSet(Client) /\ IsFiniteSet(1 .. Size)
  BY FS_Interval DEF Client
<1>2. Sent(d) \in SUBSET Client
  BY DEF Sent
<1>3. IsFiniteSet(Sent(d))
  BY <1>1, <1>2, FS_Subset
<1>4. IsFiniteSet(Sent(d) \X (1 .. Size))
  BY <1>1, <1>3, FS_Product
<1>5. Contracts(d) \in SUBSET (Sent(d) \X (1 .. Size))
  BY DEF Contracts
<1>6. IsFiniteSet(Contracts(d))
  BY <1>4, <1>5, FS_Subset
<1> QED
  BY <1>3, <1>6, FS_CardinalityType

(* The contracts of an order are counted one by one. *)
LEMMA CountOfPairs ==
  ASSUME NEW c, NEW n \in Nat
  PROVE  Cardinality({c} \X (1 .. n)) = n
<1>1. IsFiniteSet({c}) /\ Cardinality({c}) = 1
  BY FS_Singleton
<1>2. IsFiniteSet(1 .. n) /\ Cardinality(1 .. n) = IF 1 > n THEN 0 ELSE n - 1 + 1
  BY FS_Interval
<1>3. Cardinality(1 .. n) = n
  BY <1>2
<1>4. Cardinality({c} \X (1 .. n)) = 1 * n
  BY <1>1, <1>2, <1>3, FS_Product
<1> QED
  BY <1>4

(* A decision with an order that is sent alone has that order's fill.      *)
LEMMA BoughtByOne ==
  ASSUME TypeOK, NEW d \in Decision, NEW c \in Sent(d), \A b \in Sent(d) : b # c => fill[b] = 0
  PROVE  Cardinality(Contracts(d)) = fill[c]
<1> USE EntryAssumption DEF EntryAssumption
<1>1. c \in Client /\ fill[c] \in 0 .. Size
  BY DEF Sent, TypeOK
<1>2. Contracts(d) = {c} \X (1 .. fill[c])
  <2>1. ASSUME NEW p \in Contracts(d) PROVE p \in {c} \X (1 .. fill[c])
    BY <1>1, <2>1 DEF Contracts
  <2>2. ASSUME NEW p \in {c} \X (1 .. fill[c]) PROVE p \in Contracts(d)
    BY <1>1, <2>2 DEF Contracts
  <2> QED
    BY <2>1, <2>2
<1>3. Cardinality({c} \X (1 .. fill[c])) = fill[c]
  <2>1. fill[c] \in Nat
    BY <1>1
  <2> QED
    BY <2>1, CountOfPairs
<1> QED
  BY <1>2, <1>3

(* No order bought anything.                                               *)
LEMMA BoughtByNone ==
  ASSUME TypeOK, NEW d \in Decision, \A b \in Sent(d) : fill[b] = 0
  PROVE  Cardinality(Contracts(d)) = 0
<1>1. ASSUME NEW p \in Contracts(d) PROVE FALSE
  BY <1>1, EntryAssumption DEF EntryAssumption, Contracts
<1>2. Cardinality({}) = 0
  BY FS_EmptySet
<1> QED
  BY <1>1, <1>2

(* A step that leaves the orders sent alone is none of the promise.        *)
LEMMA StutterOfPromise ==
  ASSUME UNCHANGED <<order, fill>>, \A c \in Client : order[c] # "none" => decisionOf'[c] = decisionOf[c]
  PROVE  UNCHANGED Promise!promiseVars
<1>1. ASSUME NEW d \in Decision PROVE Sent(d)' = Sent(d)
  BY DEF Sent
<1>2. ASSUME NEW d \in Decision PROVE Contracts(d)' = Contracts(d)
  BY <1>1 DEF Contracts
<1>3. ASSUME NEW d \in Decision PROVE PhaseOf(d)' = PhaseOf(d)
  BY <1>1 DEF PhaseOf, Outstanding, Working
<1> QED
  BY <1>1, <1>2, <1>3 DEF Promise!promiseVars, phaseBar, boughtBar, sendsBar

(* What a step of one decision's orders leaves of the others.              *)
LEMMA OthersStay ==
  ASSUME TypeOK, UNCHANGED decisionOf, NEW c \in Client, NEW d, decisionOf[c] = d,
         \A b \in Client : b # c => order'[b] = order[b] /\ fill'[b] = fill[b]
  PROVE  /\ phaseBar' = [phaseBar EXCEPT ![d] = PhaseOf(d)']
         /\ boughtBar' = [boughtBar EXCEPT ![d] = Cardinality(Contracts(d))']
         /\ sendsBar' = [sendsBar EXCEPT ![d] = Cardinality(Sent(d))']
<1>1. ASSUME NEW e \in Decision, e # d PROVE Sent(e)' = Sent(e) /\ c \notin Sent(e)
  BY <1>1 DEF Sent
<1>2. ASSUME NEW e \in Decision, e # d PROVE Contracts(e)' = Contracts(e)
  <2>1. \A b \in Sent(e) : fill'[b] = fill[b]
    BY <1>1, <1>2 DEF Sent
  <2> QED
    BY <1>1, <1>2, <2>1 DEF Contracts
<1>3. ASSUME NEW e \in Decision, e # d PROVE PhaseOf(e)' = PhaseOf(e)
  <2>1. \A b \in Sent(e) : Outstanding(b)' = Outstanding(b)
    BY <1>1, <1>3 DEF Sent, Outstanding, Working
  <2> QED
    BY <1>1, <1>3, <2>1 DEF PhaseOf
<1> QED
  BY <1>1, <1>2, <1>3 DEF phaseBar, boughtBar, sendsBar

(* An order that can buy no more closes its decision.                      *)
LEMMA ClosesPromise ==
  ASSUME IInv, NEW c \in Client, NEW d, d = decisionOf[c], Outstanding(c), UNCHANGED <<decisionOf, fill>>,
         NEW s \in {"rejected", "lost", "canceled"}, order' = [order EXCEPT ![c] = s]
  PROVE  Promise!Next
<1>1. d \in Decision /\ intent[c] # "none" /\ order[c] # "none" /\ TypeOK
  BY DEF IInv, RowsInv, Outstanding, Working
<1>2. order'[c] = s /\ \A b \in Client : b # c => order'[b] = order[b]
  BY <1>1 DEF TypeOK
<1>3. Sent(d)' = Sent(d) /\ c \in Sent(d)
  BY <1>1, <1>2 DEF Sent
<1>4. Contracts(d)' = Contracts(d)
  BY <1>3 DEF Contracts
<1>5. PhaseOf(d) = "open"
  BY <1>3 DEF PhaseOf
<1>6. \A b \in Sent(d) : b # c => ~Outstanding(b)
  BY <1>1, OthersAreOver
<1>7. \A b \in Sent(d) : ~Outstanding(b)'
  BY <1>2, <1>6 DEF Outstanding, Working, Sent
<1>8. PhaseOf(d)' = "closed"
  BY <1>3, <1>7 DEF PhaseOf
<1>9. UNCHANGED <<boughtBar, sendsBar>> /\ phaseBar' = [phaseBar EXCEPT ![d] = "closed"]
  <2>1. /\ phaseBar' = [phaseBar EXCEPT ![d] = PhaseOf(d)']
        /\ boughtBar' = [boughtBar EXCEPT ![d] = Cardinality(Contracts(d))']
        /\ sendsBar' = [sendsBar EXCEPT ![d] = Cardinality(Sent(d))']
    BY <1>1, <1>2, OthersStay
  <2> QED
    BY <1>1, <1>3, <1>4, <1>8, <2>1 DEF boughtBar, sendsBar
<1>10. Promise!Close(d)
  BY <1>1, <1>5, <1>9 DEF Promise!Close, phaseBar
<1> QED
  BY <1>1, <1>10 DEF Promise!Next

(* An order that is sent opens it.                                         *)
LEMMA OpensPromise ==
  ASSUME IInv, NEW c, c = curClient, NEW d, d = decisionOf[c], SendOrder
  PROVE  Promise!Next
<1>1. c \in Client /\ intent[c] = "unknown" /\ order[c] = "none" /\ fill[c] = 0 /\ TypeOK
  BY DEF IInv, SendOrder, DispatchInv, FillInv
<1>2. d \in Decision
  BY <1>1 DEF IInv, RowsInv
<1>3. /\ UNCHANGED <<decisionOf, fill>> /\ order'[c] = "transit"
      /\ \A b \in Client : b # c => order'[b] = order[b]
  BY <1>1 DEF SendOrder, TypeOK, durable
<1>4. c \notin Sent(d) /\ Sent(d)' = Sent(d) \cup {c}
  BY <1>1, <1>3 DEF Sent
<1>5. /\ \A b \in Sent(d) : fill[b] = 0 /\ ~Outstanding(b)
      /\ \A a, b \in Sent(d) : a = b
  BY <1>1, <1>2, <1>4, OthersAreOver
<1>6. PhaseOf(d) # "open" /\ PhaseOf(d)' = "open"
  BY <1>3, <1>4, <1>5 DEF PhaseOf, Outstanding
<1>7. Cardinality(Contracts(d)) = 0
  BY <1>1, <1>2, <1>5, BoughtByNone
<1>8. Contracts(d)' = Contracts(d)
  <2>1. \A b \in Sent(d)' : fill[b] = 0
    BY <1>1, <1>4, <1>5
  <2> QED
    BY <1>3, <1>5, <2>1, EntryAssumption DEF Contracts, EntryAssumption
<1>9. IsFiniteSet(Sent(d)) /\ Cardinality(Sent(d)) \in Nat
  BY <1>1, <1>2, SentIsFinite
<1>10. Cardinality(Sent(d)) < 2
  <2>1. CASE Sent(d) = {}
    BY <2>1, FS_EmptySet
  <2>2. ASSUME NEW b \in Sent(d) PROVE Cardinality(Sent(d)) < 2
    <3>1. Sent(d) = {b}
      BY <1>5
    <3>2. Cardinality({b}) = 1
      BY FS_Singleton
    <3> QED
      BY <3>1, <3>2
  <2> QED
    BY <2>1, <2>2
<1>11. Cardinality(Sent(d)') = Cardinality(Sent(d)) + 1
  <2>1. Cardinality(Sent(d) \cup {c}) = IF c \in Sent(d) THEN Cardinality(Sent(d)) ELSE Cardinality(Sent(d)) + 1
    BY <1>9, FS_AddElement
  <2> QED
    BY <1>4, <2>1
<1>12. /\ phaseBar' = [phaseBar EXCEPT ![d] = "open"]
       /\ sendsBar' = [sendsBar EXCEPT ![d] = @ + 1]
       /\ UNCHANGED boughtBar
  <2>1. /\ phaseBar' = [phaseBar EXCEPT ![d] = PhaseOf(d)']
        /\ boughtBar' = [boughtBar EXCEPT ![d] = Cardinality(Contracts(d))']
        /\ sendsBar' = [sendsBar EXCEPT ![d] = Cardinality(Sent(d))']
    BY <1>1, <1>3, OthersStay
  <2> QED
    BY <1>2, <1>6, <1>8, <1>11, <2>1 DEF boughtBar, sendsBar
<1>13. Promise!Open(d)
  BY <1>2, <1>6, <1>7, <1>10, <1>12 DEF Promise!Open, phaseBar, boughtBar, sendsBar
<1> QED
  BY <1>2, <1>13 DEF Promise!Next

(* A fill buys for its decision, and the last one closes it.               *)
LEMMA BuysForPromise ==
  ASSUME IInv, NEW c \in Client, NEW d, d = decisionOf[c], FillOne(c)
  PROVE  Promise!Next
<1> USE EntryAssumption DEF EntryAssumption
<1> DEFINE s == IF fill[c] + 1 = Size THEN "filled" ELSE "partially_filled"
<1>1. Working(c) /\ Outstanding(c) /\ intent[c] # "none" /\ order[c] # "none" /\ d \in Decision /\ TypeOK
  BY DEF IInv, RowsInv, FillOne, Outstanding, Working
<1>2. fill[c] \in Nat /\ fill[c] < Size
  BY <1>1 DEF IInv, FillInv, Working, TypeOK
<1>3. /\ UNCHANGED decisionOf /\ order'[c] = s /\ fill'[c] = fill[c] + 1
      /\ \A b \in Client : b # c => order'[b] = order[b] /\ fill'[b] = fill[b]
  BY <1>1 DEF FillOne, TypeOK, durable
<1>4. Sent(d)' = Sent(d) /\ c \in Sent(d)
  BY <1>1, <1>3 DEF Sent
<1>5. \A b \in Sent(d) : b # c => fill[b] = 0 /\ ~Outstanding(b)
  BY <1>1, OthersAreOver
<1>6. Cardinality(Contracts(d)) = fill[c]
  BY <1>1, <1>4, <1>5, BoughtByOne
<1>7. Contracts(d)' = {c} \X (1 .. fill[c] + 1)
  <2>1. \A b \in Sent(d) : b \in Client
    BY DEF Sent
  <2>2. Contracts(d)' = {p \in Sent(d) \X (1 .. Size) : p[2] <= fill'[p[1]]}
    BY <1>4 DEF Contracts
  <2>3. ASSUME NEW p \in Contracts(d)' PROVE p \in {c} \X (1 .. fill[c] + 1)
    BY <1>2, <1>3, <1>5, <2>1, <2>2, <2>3
  <2>4. ASSUME NEW p \in {c} \X (1 .. fill[c] + 1) PROVE p \in Contracts(d)'
    BY <1>2, <1>3, <1>4, <2>2, <2>4
  <2> QED
    BY <2>3, <2>4
<1>8. Cardinality(Contracts(d)') = fill[c] + 1
  <2>1. fill[c] + 1 \in Nat
    BY <1>2
  <2>2. Cardinality({c} \X (1 .. fill[c] + 1)) = fill[c] + 1
    BY <2>1, CountOfPairs
  <2> QED
    BY <1>7, <2>2
<1>9. PhaseOf(d) = "open"
  BY <1>1, <1>4 DEF PhaseOf
<1>10. PhaseOf(d)' = IF fill[c] + 1 = Size THEN "closed" ELSE "open"
  <2>1. \A b \in Sent(d) : b # c => ~Outstanding(b)'
    BY <1>3, <1>5 DEF Outstanding, Working, Sent
  <2>2. Outstanding(c)' <=> fill[c] + 1 # Size
    BY <1>3 DEF Outstanding, Working
  <2> QED
    BY <1>4, <2>1, <2>2 DEF PhaseOf
<1>11. /\ boughtBar' = [boughtBar EXCEPT ![d] = @ + 1]
       /\ phaseBar' = [phaseBar EXCEPT ![d] = IF boughtBar'[d] = Size THEN "closed" ELSE @]
       /\ UNCHANGED sendsBar
  <2>1. /\ phaseBar' = [phaseBar EXCEPT ![d] = PhaseOf(d)']
        /\ boughtBar' = [boughtBar EXCEPT ![d] = Cardinality(Contracts(d))']
        /\ sendsBar' = [sendsBar EXCEPT ![d] = Cardinality(Sent(d))']
    BY <1>1, <1>3, OthersStay
  <2>2. boughtBar[d] = fill[c] /\ boughtBar'[d] = fill[c] + 1 /\ phaseBar[d] = "open"
    BY <1>1, <1>6, <1>8, <1>9, <2>1 DEF boughtBar, phaseBar
  <2> QED
    BY <1>1, <1>4, <1>8, <1>10, <2>1, <2>2 DEF sendsBar
<1>12. Promise!Buy(d)
  BY <1>1, <1>2, <1>6, <1>9, <1>11 DEF Promise!Buy, phaseBar, boughtBar
<1> QED
  BY <1>1, <1>12 DEF Promise!Next

(* Everything else that a handler or the exchange does leaves it as it is. *)
LEMMA PromiseStep == IInv /\ [Next]_vars => [Promise!Next]_(Promise!promiseVars)
<1> SUFFICES ASSUME IInv, [Next]_vars PROVE Promise!Next \/ UNCHANGED Promise!promiseVars
  OBVIOUS
<1>0. TypeOK /\ LedgerInv /\ SweepInv
  BY DEF IInv
<1>1. ASSUME UNCHANGED <<order, fill, decisionOf>> PROVE UNCHANGED Promise!promiseVars
  BY <1>1, StutterOfPromise
<1>2. CASE Quiet
  BY <1>1, <1>2 DEF Quiet, durable
<1>3. ASSUME NEW c \in Client, NEW s \in IntentState, FinishLocated(c, s) PROVE UNCHANGED Promise!promiseVars
  BY <1>1, <1>3 DEF FinishLocated, exchange
<1>4. ASSUME NEW c \in Client, BeginIntent(c) PROVE UNCHANGED Promise!promiseVars
  <2>1. order[c] = "none" /\ UNCHANGED <<order, fill>> /\ decisionOf' = [decisionOf EXCEPT ![c] = cur]
    BY <1>4 DEF BeginIntent, FreshClient, IInv, RowsInv, exchange
  <2>2. \A b \in Client : order[b] # "none" => decisionOf'[b] = decisionOf[b]
    BY <1>0, <2>1 DEF TypeOK
  <2> QED
    BY <2>1, <2>2, StutterOfPromise
<1>5. CASE DispatchBlocked \/ ReplyAccepted \/ ReplyRejected \/ SettleMaker \/ CreateFallback
  BY <1>1, <1>5 DEF DispatchBlocked, ReplyAccepted, ReplyRejected, SettleMaker, CreateFallback, exchange
<1>6. CASE SendOrder
  BY <1>6, OpensPromise
<1>7. CASE CancelMaker
  <2>1. CASE order' = order
    BY <1>1, <1>7, <2>1 DEF CancelMaker, durable
  <2>2. CASE order' # order
    <3>1. Working(curClient) /\ order' = [order EXCEPT ![curClient] = "canceled"]
      BY <1>0, <1>7, <2>2 DEF CancelMaker, TypeOK
    <3>2. curClient \in Client
      BY <1>7 DEF CancelMaker, IInv, DispatchInv
    <3> QED
      BY <1>7, <3>1, <3>2, ClosesPromise DEF CancelMaker, durable, Outstanding
  <2> QED
    BY <2>1, <2>2
<1>8. ASSUME NEW c \in Client, NEW s \in {"live", "rejected", "lost"}, Decide(c, s)
      PROVE  Promise!Next \/ UNCHANGED Promise!promiseVars
  <2>1. Outstanding(c) /\ order' = [order EXCEPT ![c] = s] /\ UNCHANGED <<decisionOf, fill>>
    BY <1>8 DEF Decide, Outstanding, durable
  <2>2. CASE s = "live"
    <3>1. ASSUME NEW d \in Decision PROVE Sent(d)' = Sent(d) /\ PhaseOf(d)' = PhaseOf(d)
      BY <1>0, <1>8, <2>1, <2>2 DEF Sent, PhaseOf, Outstanding, Working, TypeOK, Decide
    <3>2. ASSUME NEW d \in Decision PROVE Contracts(d)' = Contracts(d)
      BY <2>1, <3>1 DEF Contracts
    <3> QED
      BY <3>1, <3>2 DEF Promise!promiseVars, phaseBar, boughtBar, sendsBar
  <2>3. CASE s # "live"
    BY <2>1, <2>3, ClosesPromise
  <2> QED
    BY <2>2, <2>3
<1>9. ASSUME NEW c \in Client, FillOne(c) PROVE Promise!Next
  BY <1>9, BuysForPromise
<1>10. ASSUME NEW c \in Client, CancelOther(c) PROVE Promise!Next
  BY <1>10, ClosesPromise DEF CancelOther, Outstanding, durable
<1>11. ASSUME NEW c \in Client, Forget(c) \/ Settle(c) PROVE UNCHANGED Promise!promiseVars
  BY <1>1, <1>11 DEF Forget, Settle, durable, exchange
<1> QED
  BY <1>0, <1>2, <1>3, <1>4, <1>5, <1>6, <1>7, <1>8, <1>9, <1>10, <1>11, StepCases

(* The whole entry path implements the promise made for a decision, for    *)
(* every number of decisions, order ids and contracts.                     *)
THEOREM ImplementsPromiseTheorem == Spec => ImplementsPromise
<1>1. Init => Promise!Init
  <2> SUFFICES ASSUME Init PROVE Promise!Init
    OBVIOUS
  <2>1. ASSUME NEW d \in Decision
        PROVE  PhaseOf(d) = "unused" /\ Cardinality(Contracts(d)) = 0 /\ Cardinality(Sent(d)) = 0
    <3>1. Sent(d) = {}
      BY DEF Init, Sent
    <3>2. Contracts(d) = {}
      BY <3>1 DEF Contracts
    <3>3. Cardinality({}) = 0
      BY FS_EmptySet
    <3> QED
      BY <3>1, <3>2, <3>3 DEF PhaseOf
  <2> QED
    BY <2>1 DEF Promise!Init, phaseBar, boughtBar, sendsBar
<1> QED
  BY <1>1, PromiseStep, Invariance, PTL DEF Spec, ImplementsPromise, Promise!Spec

-----------------------------------------------------------------------------
(* With the fresh pending read of RecheckPending (PoolEnabled) nothing     *)
(* works at the exchange that the preflight did not see.                   *)
Admitted == {"recheck_positions", "recheck_pending", "reserve"}

PoolInv ==
  /\ pc \in Admitted => \A c \in SeenPendingClients : InstrumentAt(c) # InstrumentOf[cur]
  /\ pc = "reserve" => \A c \in Client : Working(c) => c \in SeenPendingClients
  /\ pc = "dispatch" => \A c \in Client : Outstanding(c) => InstrumentAt(c) # InstrumentAt(curClient)
  /\ OneEntryPerInstrument

(* The reservation made after a preflight is alone on its instrument.      *)
LEMMA BeginIntentPool ==
  ASSUME IInv, PoolInv, NEW c \in Client, BeginIntent(c)
  PROVE  PoolInv'
<1>1. /\ pc' = "dispatch" /\ curClient' = c /\ UNCHANGED <<order, cur>>
      /\ pc = "reserve" /\ order[c] = "none"
      /\ decisionOf' = [decisionOf EXCEPT ![c] = cur]
  BY DEF BeginIntent, GoTo, exchange, FreshClient, IInv, RowsInv
<1>2. \A b \in Client : Outstanding(b) => Working(b)
  BY <1>1 DEF IInv, SweepInv, Uncertain, LedgerInv, Outstanding
<1>3. \A b \in Client : Outstanding(b)' => Outstanding(b) /\ b # c
  BY <1>1 DEF Outstanding, Working
<1>4. \A b \in Client : b # c => InstrumentAt(b)' = InstrumentAt(b)
  BY <1>1 DEF InstrumentAt, IInv, TypeOK
<1>5. InstrumentAt(c)' = InstrumentOf[cur]
  BY <1>1 DEF InstrumentAt, IInv, TypeOK
<1>6. \A b \in Client : Outstanding(b)' => InstrumentAt(b)' # InstrumentAt(c)'
  BY <1>1, <1>2, <1>3, <1>4, <1>5 DEF PoolInv, Admitted
<1>7. OneEntryPerInstrument'
  BY <1>3, <1>4 DEF PoolInv, OneEntryPerInstrument
<1> QED
  BY <1>1, <1>6, <1>7 DEF PoolInv, Admitted

(* Everything else that happens to orders or to the snapshot keeps it.     *)
LEMMA PoolStep ==
  ASSUME PoolEnabled, IInv, PoolInv, [Next]_vars
  PROVE  PoolInv'
<1> USE DEF PoolInv, OneEntryPerInstrument, Admitted, IInv, TypeOK, durable, exchange, local, scan, GoTo
<1> DEFINE Frame == /\ UNCHANGED decisionOf
                    /\ \A c \in Client : /\ Working(c)' => Working(c)
                                         /\ Outstanding(c)' => Outstanding(c)
<1>0. UNCHANGED decisionOf => \A c \in Client : InstrumentAt(c)' = InstrumentAt(c)
  BY DEF InstrumentAt
<1>1. ASSUME Frame, UNCHANGED <<pc, cur, curClient, seenPending>> PROVE PoolInv'
  <2>1. SeenPendingClients' = SeenPendingClients
    BY <1>1 DEF SeenPendingClients
  <2>2. pc = "dispatch" => InstrumentAt(curClient)' = InstrumentAt(curClient)
    BY <1>1 DEF InstrumentAt
  <2>3. \A c \in SeenPendingClients : InstrumentAt(c)' = InstrumentAt(c)
    BY <1>1 DEF InstrumentAt
  <2> QED
    BY <1>1, <1>0, <2>1, <2>2, <2>3
<1>2. ASSUME Frame, pc' \notin Admitted \cup {"dispatch"} PROVE PoolInv'
  BY <1>2, <1>0
<1>3. CASE Admit
  BY <1>3, <1>0 DEF Admit, SeenPendingClients, Outstanding, Working
<1>4. CASE RecheckPositions
  BY <1>4, <1>0 DEF RecheckPositions, SeenPendingClients, Outstanding, Working
<1>5. CASE RecheckPending
  <2>1. \A c \in Client : Working(c) => c \in SeenPendingClients
    <3>1. PendingNow = seenPending
      BY <1>5 DEF RecheckPending
    <3> SUFFICES ASSUME NEW c \in Client, Working(c) PROVE \E p \in seenPending : p[1] = c
      BY DEF SeenPendingClients
    <3>2. <<c, fill[c]>> \in seenPending
      BY <3>1 DEF PendingNow
    <3> QED
      BY <3>2
  <2> QED
    BY <1>5, <2>1, <1>0 DEF RecheckPending, SeenPendingClients, Outstanding, Working
<1>6. ASSUME NEW c \in Client, BeginIntent(c) PROVE PoolInv'
  BY <1>6, BeginIntentPool
<1>7. CASE SendOrder
  BY <1>7, <1>0 DEF SendOrder, DispatchInv, Outstanding, Working
<1>8. ASSUME NEW c \in Client, Locate(c) PROVE PoolInv'
  <2>1. Frame /\ pc' \notin Admitted \cup {"dispatch"}
    BY <1>8, LocateResult DEF MissById, LocateFails, FinishLocated, Outstanding, Working
  <2> QED
    BY <2>1, <1>2
<1>9. CASE \E d \in Decision, m \in {"maker_first", "limit"} : StartEntry(d, m)
  BY <1>9, <1>2 DEF StartEntry, Outstanding, Working
<1>10. CASE ReadPositions \/ ReadPending \/ MakerStatus \/ RereadMaker \/ CreateFallback
  BY <1>10, <1>2 DEF ReadPositions, ReadPending, MakerStatus, RereadMaker, CreateFallback, Outstanding, Working
<1>11. CASE DispatchBlocked \/ ReplyAccepted \/ ReplyRejected \/ SettleMaker \/ Abandon
  BY <1>11, <1>2 DEF DispatchBlocked, ReplyAccepted, ReplyRejected, SettleMaker, Abandon, ResetLocals, Outstanding, Working
<1>12. CASE CancelMaker
  BY <1>12, <1>2 DEF CancelMaker, Outstanding, Working
<1>13. ASSUME NEW c \in Client, NEW s \in {"live", "rejected", "lost"}, Decide(c, s) PROVE PoolInv'
  <2>1. pc = "reserve" => order[c] # "transit"
    BY DEF SweepInv, Uncertain, LedgerInv
  <2>2. order' = [order EXCEPT ![c] = s] /\ order[c] = "transit"
        /\ UNCHANGED <<decisionOf, pc, cur, curClient, seenPending>>
    BY <1>13 DEF Decide
  <2>3. \A b \in Client : Outstanding(b)' => Outstanding(b)
    BY <2>2 DEF Outstanding, Working
  <2>4. CASE pc = "reserve"
    BY <2>1, <2>2, <2>4
  <2>5. CASE pc # "reserve"
    <3>1. SeenPendingClients' = SeenPendingClients
      BY <2>2 DEF SeenPendingClients
    <3>2. \A x : InstrumentAt(x)' = InstrumentAt(x)
      BY <2>2 DEF InstrumentAt
    <3> QED
      BY <2>2, <2>3, <2>5, <3>1, <3>2
  <2> QED
    BY <2>4, <2>5
<1>14. ASSUME NEW c \in Client, FillOne(c) \/ CancelOther(c) \/ Forget(c) \/ Settle(c) PROVE PoolInv'
  BY <1>14, <1>1 DEF FillOne, CancelOther, Forget, Settle, Outstanding, Working
<1>15. CASE \E i \in Instrument : ClosePosition(i)
  BY <1>15, <1>1 DEF ClosePosition, Outstanding, Working
<1>16. CASE UNCHANGED vars
  BY <1>16, <1>1 DEF vars, Outstanding, Working
<1> QED
  BY <1>3, <1>4, <1>5, <1>6, <1>7, <1>8, <1>9, <1>10, <1>11, <1>12, <1>13, <1>14,
     <1>15, <1>16 DEF Next, Trader, Environment

(* With the capital pool its invariant holds in every reachable state. *)
LEMMA PoolInvariance == ASSUME PoolEnabled PROVE Spec => []PoolInv
<1>1. Init => PoolInv
  BY DEF Init, PoolInv, OneEntryPerInstrument, Outstanding, Working, Admitted
<1>2. IInv /\ PoolInv /\ [Next]_vars => PoolInv'
  BY PoolStep
<1> QED
  BY <1>1, <1>2, Invariance, PTL DEF Spec

(* With the capital pool no two entries are outstanding on an instrument.  *)
THEOREM OneEntryPerInstrumentTheorem == ASSUME PoolEnabled PROVE Spec => []OneEntryPerInstrument
<1>1. PoolInv => OneEntryPerInstrument
  BY DEF PoolInv
<1> QED
  BY <1>1, PoolInvariance, PTL

(* With the pool no entry the ledger knows to work is missing from the     *)
(* risk of a new one.                                                      *)
THEOREM PoolReservesEveryEntry == ASSUME PoolEnabled PROVE Spec => []WorkingEntriesReserved
<1>1. PoolInv => WorkingEntriesReserved
  BY DEF PoolInv, WorkingEntriesReserved
<1> QED
  BY <1>1, PoolInvariance, PTL
=============================================================================
