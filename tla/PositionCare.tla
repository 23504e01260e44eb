---------------------------- MODULE PositionCare ----------------------------
(* One long position of one instrument, the OCO orders that protect it at   *)
(* the exchange, and the two programs that look after it: the guard          *)
(* (position_guard.py) and the trader's cycle (ai_factor_trader.py), which   *)
(* share one tracker file and one writer lock.  Prices are levels; a stop of *)
(* level 0 is a segment that is not live.  The writer lock admits one of the *)
(* two at a time, so one set of working variables serves both; `away` is the *)
(* trader's cycle while the model answers and the lock is given back.        *)
EXTENDS Integers, FiniteSets

CONSTANTS Segment, NoSegment, MaxLevel, MaxLives, MaxInFlight, MaxCrashes
ASSUME CareAssumption ==
  /\ IsFiniteSet(Segment) /\ NoSegment \notin Segment
  /\ MaxLevel \in Nat \ {0, 1} /\ MaxLives \in Nat \ {0} /\ MaxInFlight \in Nat /\ MaxCrashes \in Nat

Level == 1 .. MaxLevel
Size == 0 .. Cardinality(Segment)
NoTracker == [life |-> 0, stop |-> 0, pending |-> NoSegment]
Tracker == [life : 0 .. MaxLives, stop : 0 .. MaxLevel, pending : Segment \cup {NoSegment}]
Amendment == [segment : Segment, stop : Level]

VARIABLES
  size, life, mark, stopAt,     \* the exchange: open quantity, which position it is, price, OCO stops
  filling,                      \* part of the entry is still to be filled
  inFlight,                     \* amendments the exchange has not yet taken, refused or lost
  trackerFile,                  \* position_trackers.json
  keeper, careAt,               \* who has the writer lock, and the last step it completed
  tracker, seen, goal, todo,    \* its copy of the tracker, its snapshot, the stop it wants, segments left
  same,                         \* segments whose OCO of that snapshot, by its algoId, is still there
  away,                         \* the trader's copy of the tracker while it is inside the inference window
  orphaned,                     \* history: an amendment was sent that no record of its position names
  crashes
exchangeVars == <<size, life, mark, stopAt, filling>>
workVars == <<tracker, seen, goal, todo, same>>
careVars == <<exchangeVars, inFlight, trackerFile, keeper, careAt, workVars, away, orphaned, crashes>>

Nobody == "nobody"
Holder == {Nobody, "guard", "trader", "deciding"}   \* the trader before and after the model's answer
NotAway == [out |-> FALSE, tracker |-> NoTracker]
Nothing == [life |-> 0, size |-> 0, mark |-> 1, stopAt |-> [s \in Segment |-> 0]]

Live(stops) == {s \in Segment : stops[s] > 0}
(* oco_coverage: only rows that are proven live count, and all are needed.   *)
Covered(stops, n) == Cardinality(Live(stops)) >= n
Weakest(stops) == CHOOSE l \in {stops[s] : s \in Live(stops)} : \A s \in Live(stops) : l <= stops[s]
(* monotonic_stop and rounded_stop for a long position.                      *)
Tightens(old, new, price) == old < new /\ new < price

Here == [life |-> life, size |-> size, mark |-> mark, stopAt |-> stopAt]
SamePosition == life = seen.life /\ size = seen.size

(* Flat, with what an earlier position may have left in the tracker file.     *)
CareInit ==
  /\ size = 0 /\ life = 1 /\ mark = 2 /\ stopAt = [s \in Segment |-> 0] /\ filling = FALSE
  /\ inFlight = {}
  /\ trackerFile \in {NoTracker} \cup [life : {1}, stop : {MaxLevel}, pending : Segment \cup {NoSegment}]
  /\ keeper = Nobody /\ careAt = "idle"
  /\ tracker = NoTracker /\ seen = Nothing /\ goal = 0 /\ todo = {} /\ same = {}
  /\ away = NotAway /\ orphaned = FALSE /\ crashes = 0

-----------------------------------------------------------------------------
(* The exchange and the market.                                              *)

(* With the position go its OCO orders, and what was still to amend them.    *)
Flatten == /\ size' = 0 /\ filling' = FALSE
           /\ stopAt' = [s \in Segment |-> 0]
           /\ inFlight' = {}

(* An entry fills in part or in whole; its attached OCO is live with it, in  *)
(* part, or not at all.                                                      *)
Open(n, protectedSegments) ==
  /\ size = 0 /\ life < MaxLives /\ n > 0
  /\ Cardinality(protectedSegments) <= n
  /\ life' = life + 1 /\ size' = n /\ filling' = (n < Cardinality(Segment))
  /\ stopAt' = [s \in Segment |-> IF s \in protectedSegments THEN 1 ELSE 0]
  /\ mark' = 2
  /\ UNCHANGED <<inFlight, trackerFile, keeper, careAt, workVars, away, orphaned, crashes>>

(* The rest of the entry fills.                                              *)
Grow ==
  /\ filling
  /\ size' = size + 1 /\ filling' = (size + 1 < Cardinality(Segment))
  /\ UNCHANGED <<life, mark, stopAt, inFlight, trackerFile, keeper, careAt, workVars, away, orphaned, crashes>>

(* The price moves; stops it reaches are triggered, each for its part.  An   *)
(* OCO placed later has another algoId, so what was still to amend the       *)
(* triggered one finds nothing.                                              *)
MarkMoves(price) ==
  LET hit == {s \in Live(stopAt) : price <= stopAt[s]}
      left == size - Cardinality(hit) IN
  /\ size > 0 /\ price # mark
  /\ mark' = price
  /\ IF left <= 0 THEN Flatten
     ELSE /\ size' = left /\ filling' = (filling /\ hit = {})
          /\ inFlight' = {r \in inFlight : r.segment \notin hit}
          /\ stopAt' = [s \in Segment |-> IF s \in hit THEN 0 ELSE stopAt[s]]
  /\ same' = IF left <= 0 THEN {} ELSE same \ hit
  /\ UNCHANGED <<life, trackerFile, keeper, careAt, tracker, seen, goal, todo, away, orphaned, crashes>>

(* The exchange takes an amendment.  It refuses a stop beyond the price and  *)
(* knows nothing of a stop's history: an amendment may also loosen.          *)
TakeAmendment(r) ==
  /\ r \in inFlight /\ inFlight' = inFlight \ {r}
  /\ stopAt' = IF stopAt[r.segment] = 0 \/ r.stop >= mark THEN stopAt
               ELSE [stopAt EXCEPT ![r.segment] = r.stop]
  /\ UNCHANGED <<size, life, mark, filling, trackerFile, keeper, careAt, workVars, away, orphaned, crashes>>

Lose(r) ==
  /\ r \in inFlight /\ inFlight' = inFlight \ {r}
  /\ UNCHANGED <<exchangeVars, trackerFile, keeper, careAt, workVars, away, orphaned, crashes>>

-----------------------------------------------------------------------------
(* Steps that guard and trader share.                                        *)

(* An amendment names the OCO of the snapshot; if that is gone, it amends      *)
(* nothing.                                                                  *)
Send(r) == /\ Cardinality(inFlight) < MaxInFlight
           /\ inFlight' = IF r.segment \in same THEN inFlight \cup {r} ELSE inFlight

(* To the next step; a run that closes or ends needs its snapshot no more, and  *)
(* a new snapshot has the OCO orders that are there now.                       *)
Kept(at, snapshot) ==
  CASE at = "end" -> Nothing
    [] at = "closing" -> [Nothing EXCEPT !.life = snapshot.life]
    [] OTHER -> snapshot
ToWith(at, snapshot, wanted, left) ==
  /\ careAt' = at /\ seen' = Kept(at, snapshot)
  /\ goal' = IF at \in {"end", "closing"} THEN 0 ELSE wanted
  /\ todo' = IF at \in {"end", "closing"} THEN {} ELSE left
  /\ same' = IF at \in {"end", "closing"} THEN {}
             ELSE IF snapshot.stopAt = seen.stopAt THEN same ELSE Live(snapshot.stopAt)
To(at) == ToWith(at, seen, goal, todo)

(* Seeded fault: the writer is given back in the middle of a step.            *)
LetWriterGoEarly == keeper' = Nobody /\ UNCHANGED <<careAt, workVars>>

LetWriterGo == keeper' = Nobody /\ careAt' = "idle" /\ tracker' = NoTracker
           /\ seen' = Nothing /\ goal' = 0 /\ todo' = {} /\ same' = {}

(* load_trackers and the retirement of trackers whose position is gone       *)
(* (prune_trackers, run_guard); a tracker that cannot be archived stays.      *)
LoadTracker(archived) ==
  IF size = 0 /\ archived THEN NoTracker ELSE trackerFile

Begin(who, archived) ==
  /\ keeper = Nobody
  /\ who = "trader" => ~away.out
  /\ keeper' = who
  /\ tracker' = LoadTracker(archived)
  /\ ToWith(IF size = 0 THEN "end" ELSE IF who = "guard" THEN "positions" ELSE "lifecycle",
            [Here EXCEPT !.stopAt = Nothing.stopAt], 0, {})
  /\ UNCHANGED <<exchangeVars, inFlight, trackerFile, away, orphaned, crashes>>

(* The guard reads the algo orders; if it cannot, or they do not cover the   *)
(* position and there is no market data to go on, it closes.                 *)
GuardReads(ok, data) ==
  /\ keeper = "guard" /\ careAt = "positions"
  /\ IF ok /\ (data \/ Covered(stopAt, seen.size))
     THEN ToWith("lifecycle", [seen EXCEPT !.stopAt = stopAt], 0, {}) ELSE To("closing")
  /\ UNCHANGED <<exchangeVars, inFlight, trackerFile, keeper, tracker, away, orphaned, crashes>>

(* Seeded fault: any tracker is taken for the tracker of the position.        *)
ReconcileByPresence(archived) ==
  /\ careAt = "lifecycle"
  /\ To(IF tracker = NoTracker THEN "verify" ELSE "manage")
  /\ UNCHANGED <<exchangeVars, inFlight, trackerFile, keeper, tracker, away, orphaned, crashes>>

(* position_lifecycle.reconcile: a tracker of an earlier position is retired *)
(* before anything is derived from it.  The guard adopts the coverage it     *)
(* has seen; the trader verifies first, and so does the guard without it.    *)
Reconcile(archived) ==
  /\ careAt = "lifecycle"
  /\ LET old == tracker.life # 0 /\ tracker.life # seen.life
         known == IF old THEN NoTracker ELSE tracker
         guardCovered == keeper = "guard" /\ Covered(seen.stopAt, seen.size) IN
     \/ /\ old /\ ~archived
        /\ To(IF guardCovered THEN "end" ELSE IF keeper = "guard" THEN "closing" ELSE "recheck")
        /\ tracker' = tracker
     \/ /\ archived
        /\ tracker' = IF known = NoTracker /\ guardCovered
                      THEN [life |-> seen.life, stop |-> Weakest(seen.stopAt), pending |-> NoSegment]
                      ELSE known
        /\ To(IF tracker' = NoTracker THEN "verify" ELSE "manage")
  /\ UNCHANGED <<exchangeVars, inFlight, trackerFile, keeper, away, orphaned, crashes>>

(* initial_protection.verify for a position nobody knows yet: bounded reads, *)
(* no writes.  `ok` is a read that succeeds and is not ambiguous.            *)
Verify(ok) ==
  /\ careAt = "verify"
  /\ IF ok /\ ~SamePosition
     THEN To("end") /\ tracker' = tracker
     ELSE IF ok /\ Covered(stopAt, size)
     THEN /\ To("manage")
          /\ tracker' = [life |-> life, stop |-> Weakest(stopAt), pending |-> NoSegment]
     ELSE To("closing") /\ tracker' = tracker
  /\ UNCHANGED <<exchangeVars, inFlight, trackerFile, keeper, away, orphaned, crashes>>

(* manage_position_tp_and_trailing: the local stop only rises; once the      *)
(* price is at or below it the position is closed, and the strategy may want *)
(* to close it before or after the protection is looked at.                  *)
Manage(newStop, exit) ==
  /\ careAt = "manage"
  /\ newStop >= tracker.stop
  /\ tracker' = [tracker EXCEPT !.stop = newStop]
  /\ To(IF seen.mark <= newStop \/ exit THEN "closing" ELSE "protect")
  /\ UNCHANGED <<exchangeVars, inFlight, trackerFile, keeper, away, orphaned, crashes>>

(* Without market data the trailing is skipped and the cloud order left.     *)
ManageSkipped ==
  /\ careAt = "manage" /\ (keeper = "guard" => Covered(seen.stopAt, seen.size))
  /\ To("managed")
  /\ UNCHANGED <<exchangeVars, inFlight, trackerFile, keeper, tracker, away, orphaned, crashes>>

(* ensure_cloud_position_protection: one placement for what is missing, and  *)
(* only on a snapshot that is neither stale nor ambiguous.                   *)
Protect(ok, taken) ==
  /\ careAt = "protect"
  /\ LET missing == Segment \ Live(stopAt)
         known == ok /\ SamePosition
         repair == known /\ ~Covered(stopAt, size) /\ tracker.stop < mark IN
     /\ To(IF known /\ Covered(stopAt, size) THEN "kept" ELSE IF repair THEN "placed" ELSE "recheck")
     /\ stopAt' = IF repair /\ taken
                  THEN [s \in Segment |-> IF s \in missing THEN tracker.stop ELSE stopAt[s]]
                  ELSE stopAt
  /\ UNCHANGED <<size, life, mark, filling, inFlight, trackerFile, keeper, tracker, away, orphaned, crashes>>

(* Seeded fault: a placement is believed without being read back.             *)
ReadPlacementNot(ok) ==
  /\ careAt = "placed" /\ ok \in BOOLEAN
  /\ To("kept")
  /\ UNCHANGED <<exchangeVars, inFlight, trackerFile, keeper, tracker, away, orphaned, crashes>>

(* Whatever the reply was, the placement is not repeated but read back.      *)
ReadPlacement(ok) ==
  /\ careAt = "placed"
  /\ To(IF ~ok \/ ~SamePosition THEN "recheck"
        ELSE IF Covered(stopAt, size) THEN "kept" ELSE "closing")
  /\ UNCHANGED <<exchangeVars, inFlight, trackerFile, keeper, tracker, away, orphaned, crashes>>

(* An unknown protection is verified again before the position is closed.    *)
Recheck(ok) ==
  /\ careAt = "recheck"
  /\ To(IF ok /\ ~SamePosition THEN "end"
        ELSE IF ok /\ Covered(stopAt, size)
        THEN (IF tracker.life = life THEN "kept" ELSE "end")
        ELSE "closing")
  /\ UNCHANGED <<exchangeVars, inFlight, trackerFile, keeper, tracker, away, orphaned, crashes>>

(* With the protection verified the time and trailing exits are considered.  *)
Keep(exit) ==
  /\ careAt = "kept"
  /\ To(IF exit THEN "closing" ELSE "managed")
  /\ UNCHANGED <<exchangeVars, inFlight, trackerFile, keeper, tracker, away, orphaned, crashes>>

(* close_position_confirmed: refused for another position than the one seen; *)
(* the tracker is retired when the position was read flat afterwards.        *)
CloseOut(executed, observed, archived) ==
  /\ careAt = "closing"
  /\ executed => life = seen.life /\ size > 0
  /\ observed => executed \/ size = 0
  /\ IF executed THEN Flatten ELSE UNCHANGED <<size, stopAt, filling, inFlight>>
  /\ tracker' = IF observed /\ archived THEN NoTracker ELSE tracker
  /\ To("end")
  /\ UNCHANGED <<life, mark, trackerFile, keeper, away, orphaned, crashes>>

(* save_trackers at the end of a run.  A trader whose circuit breaker is      *)
(* active ends without asking the model.                                     *)
Finish ==
  /\ careAt = "end" \/ (keeper = "trader" /\ careAt = "managed")
  /\ trackerFile' = tracker
  /\ LetWriterGo
  /\ UNCHANGED <<exchangeVars, inFlight, away, orphaned, crashes>>

-----------------------------------------------------------------------------
(* The guard moves the stops of the segments it saw up to the local stop.    *)

(* Seeded fault: an amendment whose outcome is open is not waited for.        *)
GuardStopsAnyway ==
  /\ keeper = "guard" /\ careAt = "managed"
  /\ ToWith("amend", seen, tracker.stop, Live(seen.stopAt))
  /\ UNCHANGED <<exchangeVars, inFlight, trackerFile, keeper, tracker, away, orphaned, crashes>>

GuardStops ==
  /\ keeper = "guard" /\ careAt = "managed"
  /\ IF tracker.pending # NoSegment
     THEN To("end")
     ELSE ToWith("amend", seen, tracker.stop, Live(seen.stopAt))
  /\ UNCHANGED <<exchangeVars, inFlight, trackerFile, keeper, tracker, away, orphaned, crashes>>

(* Each segment is read again; the amendment is journalled before it is sent.*)
GuardJournal(s, ok) ==
  /\ keeper = "guard" /\ careAt = "amend" /\ s \in todo
  /\ LET wanted == Tightens(seen.stopAt[s], goal, seen.mark)
         needed == ok /\ s \in same /\ Tightens(stopAt[s], goal, seen.mark) IN
     \/ /\ ~wanted \/ (ok /\ ~needed)
        /\ ToWith("amend", seen, goal, todo \ {s}) /\ UNCHANGED <<tracker, trackerFile>>
     \/ /\ wanted /\ ~ok
        /\ To("end") /\ UNCHANGED <<tracker, trackerFile>>
     \/ /\ wanted /\ needed
        /\ tracker' = [tracker EXCEPT !.pending = s]
        /\ trackerFile' = tracker'
        /\ ToWith("journalled", seen, goal, todo \ {s})
  /\ UNCHANGED <<exchangeVars, inFlight, keeper, away, orphaned, crashes>>

(* The orders were read after the positions: they may be those of a position    *)
(* that came between, under which the journal does not name the amendment.      *)
GuardAmends ==
  /\ keeper = "guard" /\ careAt = "journalled"
  /\ Send([segment |-> tracker.pending, stop |-> goal])
  /\ orphaned' = (orphaned \/ (tracker.pending \in same /\ tracker.life # life))
  /\ To("amended")
  /\ UNCHANGED <<exchangeVars, trackerFile, keeper, tracker, away, crashes>>

(* Verified means read back at or above the request and below the price that *)
(* was seen; otherwise the journal entry stays and the round ends.           *)
GuardReadsBack(ok) ==
  /\ keeper = "guard" /\ careAt = "amended"
  /\ LET s == tracker.pending
         verified == ok /\ s \in same /\ goal <= stopAt[s] /\ stopAt[s] < seen.mark IN
     IF verified THEN tracker' = [tracker EXCEPT !.pending = NoSegment] /\ To("amend")
                 ELSE tracker' = tracker /\ To("end")
  /\ UNCHANGED <<exchangeVars, inFlight, trackerFile, keeper, away, orphaned, crashes>>

GuardDone ==
  /\ keeper = "guard" /\ careAt = "amend" /\ todo = {}
  /\ To("end")
  /\ UNCHANGED <<exchangeVars, inFlight, trackerFile, keeper, tracker, away, orphaned, crashes>>

-----------------------------------------------------------------------------
(* The trader saves, gives the writer back while the model answers, and      *)
(* reads the trackers again because the guard may have changed them.         *)

OpenInference ==
  /\ keeper = "trader" /\ careAt \in {"managed", "end"}
  /\ trackerFile' = tracker
  /\ away' = [out |-> TRUE, tracker |-> tracker]
  /\ LetWriterGo
  /\ UNCHANGED <<exchangeVars, inFlight, orphaned, crashes>>

(* Seeded fault: the trader goes on with the trackers it saved before.        *)
ReloadedNot == away.tracker
Reloaded == trackerFile

(* When the call raised there are no decisions and nothing is saved.         *)
CloseInference(answered, posOk) ==
  /\ keeper = Nobody /\ away.out
  /\ away' = NotAway
  /\ IF answered
     THEN /\ keeper' = "deciding" /\ tracker' = Reloaded
          /\ ToWith(IF posOk /\ size > 0 THEN "instructed" ELSE "end",
                    [Here EXCEPT !.stopAt = Nothing.stopAt], 0, {})
     ELSE UNCHANGED <<keeper, careAt, workVars>>
  /\ UNCHANGED <<exchangeVars, inFlight, trackerFile, orphaned, crashes>>

(* execute_ai_position_management: close, or move every segment up.          *)
Instruct(action, newStop, ok) ==
  /\ keeper = "deciding" /\ careAt = "instructed"
  /\ LET planned == {s \in Live(stopAt) : Tightens(stopAt[s], newStop, seen.mark)}
         allowed == /\ ok /\ tracker.life = seen.life /\ Covered(stopAt, seen.size)
                    /\ tracker.pending = NoSegment IN
     CASE action = "HOLD" -> To("end")
       [] action = "CLOSE_MARKET" -> To("closing")
       [] action = "UPDATE_SL" ->
            IF allowed /\ planned # {}
            THEN ToWith("planned", [seen EXCEPT !.stopAt = stopAt], newStop, planned)
            ELSE To("end")
  /\ UNCHANGED <<exchangeVars, inFlight, trackerFile, keeper, tracker, away, orphaned, crashes>>

(* The position and price are read again before each write; the snapshot of  *)
(* the stops is not.  That the write is pending is noted in memory only.     *)
TraderAmends(s, ok) ==
  /\ keeper = "deciding" /\ careAt = "planned" /\ s \in todo
  /\ IF ~ok \/ ~SamePosition \/ goal >= mark
     THEN To("end") /\ UNCHANGED <<tracker, inFlight>>
     ELSE /\ Send([segment |-> s, stop |-> goal])
          /\ tracker' = [tracker EXCEPT !.pending = s]
          /\ ToWith("planSent", seen, goal, todo \ {s})
  /\ UNCHANGED <<exchangeVars, trackerFile, keeper, away, orphaned, crashes>>

(* Verified: the same position, the same segments, this one where it should  *)
(* be and no other looser than it was.                                       *)
TraderReadsBack(ok) ==
  /\ keeper = "deciding" /\ careAt = "planSent"
  /\ LET s == tracker.pending
         verified == /\ ok /\ SamePosition /\ Covered(stopAt, size)
                     /\ Live(stopAt) = Live(seen.stopAt) /\ Live(stopAt) \subseteq same
                     /\ goal <= stopAt[s] /\ stopAt[s] < mark
                     /\ \A o \in Live(seen.stopAt) : stopAt[o] >= seen.stopAt[o] IN
     IF verified
     THEN /\ ToWith(IF todo = {} THEN "end" ELSE "planned", [seen EXCEPT !.stopAt = stopAt], goal, todo)
          /\ tracker' = [tracker EXCEPT !.pending = NoSegment,
                           !.stop = IF todo = {} THEN Weakest(stopAt) ELSE tracker.stop]
     ELSE To("end") /\ UNCHANGED tracker
  /\ UNCHANGED <<exchangeVars, inFlight, trackerFile, keeper, away, orphaned, crashes>>

-----------------------------------------------------------------------------
(* A process dies: the system frees its lock, the file keeps what was saved. *)
CrashHolder ==
  /\ keeper # Nobody /\ crashes < MaxCrashes
  /\ crashes' = crashes + 1
  /\ orphaned' = (orphaned \/ (tracker.pending # NoSegment /\ tracker.pending # trackerFile.pending))
  /\ LetWriterGo
  /\ UNCHANGED <<exchangeVars, inFlight, trackerFile, away>>

CrashAway ==
  /\ away.out /\ crashes < MaxCrashes
  /\ crashes' = crashes + 1 /\ away' = NotAway
  /\ UNCHANGED <<exchangeVars, inFlight, trackerFile, keeper, careAt, workVars, orphaned>>

(* A program that holds the writer goes on by itself.                        *)
CareStep ==
  \/ \E b \in BOOLEAN : Reconcile(b) \/ Verify(b) \/ ReadPlacement(b) \/ Recheck(b) \/ Keep(b)
  \/ \E b, c \in BOOLEAN : GuardReads(b, c) \/ Protect(b, c)
  \/ \E l \in Level, b \in BOOLEAN : Manage(l, b)
  \/ ManageSkipped
  \/ \E e, o, a \in BOOLEAN : CloseOut(e, o, a)
  \/ Finish
  \/ GuardStops \/ GuardAmends \/ GuardDone
  \/ \E s \in Segment, b \in BOOLEAN : GuardJournal(s, b) \/ TraderAmends(s, b)
  \/ \E b \in BOOLEAN : GuardReadsBack(b) \/ TraderReadsBack(b)
  \/ OpenInference
  \/ \E a \in {"HOLD", "CLOSE_MARKET", "UPDATE_SL"}, l \in Level, b \in BOOLEAN : Instruct(a, l, b)

CareNext ==
  \/ CareStep
  \/ \E n \in Size, p \in SUBSET Segment : Open(n, p)
  \/ Grow
  \/ \E l \in Level : MarkMoves(l)
  \/ \E r \in inFlight : TakeAmendment(r) \/ Lose(r)
  \/ \E who \in {"guard", "trader"}, b \in BOOLEAN : Begin(who, b)
  \/ \E a, p \in BOOLEAN : CloseInference(a, p)
  \/ CrashHolder \/ CrashAway

CareSpec == CareInit /\ [][CareNext]_careVars
CareFairness ==
  /\ WF_careVars(CareStep)
  /\ SF_careVars(\E b \in BOOLEAN : Begin("guard", b))
  /\ SF_careVars(\E a \in BOOLEAN : CloseOut(TRUE, TRUE, a))
CareFairSpec == CareSpec /\ CareFairness

-----------------------------------------------------------------------------
CareTypeOK ==
  /\ size \in Size /\ life \in 0 .. MaxLives /\ mark \in Level
  /\ stopAt \in [Segment -> 0 .. MaxLevel] /\ filling \in BOOLEAN
  /\ inFlight \subseteq Amendment
  /\ trackerFile \in Tracker /\ tracker \in Tracker
  /\ keeper \in Holder
  /\ careAt \in {"idle", "positions", "lifecycle", "verify", "manage", "protect", "placed", "recheck",
                 "kept", "managed", "closing", "end", "amend", "journalled", "amended",
                 "instructed", "planned", "planSent"}
  /\ seen \in [life : 0 .. MaxLives, size : Size, mark : Level, stopAt : [Segment -> 0 .. MaxLevel]]
  /\ goal \in 0 .. MaxLevel /\ todo \subseteq Segment /\ same \subseteq Segment
  /\ away \in [out : BOOLEAN, tracker : Tracker]
  /\ orphaned \in BOOLEAN /\ crashes \in 0 .. MaxCrashes
  /\ (keeper = Nobody) = (careAt = "idle")

(* An amendment whose outcome is open is remembered: in the file, or by the  *)
(* trader that has just sent it.  So the guard's journal is not overwritten  *)
(* with what a trader read before its inference window, there is never a     *)
(* second amendment beside an open one, and only a trader that dies before   *)
(* its save, or a guard that read the orders of a later position than the     *)
(* one it read, leaves one that nobody knows of.                             *)
OpenAmendmentRemembered ==
  ~orphaned => \A r \in inFlight :
    \/ trackerFile.pending = r.segment /\ trackerFile.life = life
    \/ keeper = "deciding" /\ tracker.pending = r.segment

(* The exchange takes any stop below the price and writes may be taken late; *)
(* all the same no live stop of a position ever moves down ("an already      *)
(* tighter segment must never be loosened", execute_ai_position_management). *)
StopNeverLoosens ==
  [][~orphaned /\ life' = life =>
       \A s \in Segment : stopAt[s] > 0 /\ stopAt'[s] > 0 => stopAt'[s] >= stopAt[s]]_careVars

(* No stop, target or peak of an earlier position is used for a new one that *)
(* was opened while nobody looked (position_lifecycle.reconcile).            *)
NoOldStop ==
  careAt \in {"manage", "protect", "placed", "kept", "amend", "journalled", "amended", "planned", "planSent"}
    => tracker.life = seen.life

(* A position without full protection is covered or closed in the end,       *)
(* through lost placements, failed reads, a crash and the trader's turns.    *)
EventuallyProtected ==
  size > 0 /\ ~Covered(stopAt, size) ~> size = 0 \/ Covered(stopAt, size)

(* What guard and trader remember is true of the position they work on: no     *)
(* open amendment is forgotten, and nothing of an earlier position is used.   *)
CareSafe == CareTypeOK /\ OpenAmendmentRemembered /\ NoOldStop
=============================================================================
