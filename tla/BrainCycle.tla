------------------------------ MODULE BrainCycle ------------------------------
(* A cycle of the model (ai_brain_trader.execute_batch_ai_brain_cycle), the two *)
(* files it publishes, and the trader's cycle that asks for it and carries out   *)
(* what it says of positions (ai_factor_trader.execute_ai_position_management).   *)
(* A cycle may also be started by hand, beside the trader: it has the brain's    *)
(* lock only.  Of two accounts one is selected; each binding of it has a number. *)
(* A position has a number of its own (posId, cTime, size), 0 is none; each       *)
(* account has one pending entry.  The strategy in force is taken as constant.    *)
EXTENDS Naturals

CONSTANTS
  MaxAge,               \* DECISION_MAX_AGE_SECONDS
  NoFrame, NoRequest,
  MaxTicks, MaxBindings, MaxLives, MaxFaults, MaxCycles, MaxByHand    \* bounds

ASSUME BrainAssumption ==
  /\ {MaxAge, MaxTicks, MaxBindings, MaxFaults, MaxCycles, MaxByHand} \subseteq Nat
  /\ MaxLives \in Nat \ {0}

VARIABLES
  time,
  binding,              \* the binding of the selected account
  position,             \* the open position of each account
  pending,              \* the accounts whose pending entry works
  trader,               \* its cycle: it has .ai_factor_trader.lock unless idle
  brain,                \* who has .ai_brain_cycle.lock, and where it is
  decisions,            \* the frame of ai_decision_cache.json
  management,           \* the frame and the instruction of ai_position_management.json
  faults,
  byHand,               \* cycles started by hand
  vouched,              \* history: the cycle that emptied the files returned its decisions
  loose,                \* history: since then the disk or a kill left something behind
  sent                  \* history: the last request a model's answer caused

brainVars == <<time, binding, position, pending, trader, brain, decisions, management,
               faults, byHand, vouched, loose, sent>>
worldVars == <<time, binding, position, pending>>
fileVars == <<decisions, management, faults, byHand>>
pastVars == <<vouched, loose, sent>>

Owner == {0, 1}                            \* the accounts
Selected == binding % 2
Nothing == [frame |-> NoFrame, close |-> FALSE]
Idle == [at |-> "idle"]

BrainInit ==
  /\ time = 0 /\ binding = 0
  /\ position = [a \in Owner |-> 1 - a] /\ pending = Owner
  /\ trader = [at |-> "idle", cycle |-> 0] /\ brain = Idle
  /\ decisions = NoFrame /\ management = Nothing /\ faults = 0
  /\ byHand = 0 /\ vouched = FALSE /\ loose = FALSE /\ sent = NoRequest

-----------------------------------------------------------------------------
(* A file is written as a whole, or the disk refuses (ok).                    *)
Writes(ok) == ok \/ faults < MaxFaults
Faulted(ok) == faults' = IF ok THEN faults ELSE faults + 1

(* Seeded fault: the account is not compared again.                           *)
CurrentByAge(frame) == time - frame.taken <= MaxAge

(* assert_cycle_current                                                       *)
Current(frame) == frame.binding = binding /\ time - frame.taken <= MaxAge

(* The trader has the account writer in its cycle, but not while it infers.    *)
WriterFreeFor(who) == who = "trader" \/ trader.at \in {"idle", "inferring"}

(* single_brain_cycle: who does not get the lock has no decisions.            *)
OpenBrain(who, seen) ==
  brain' = [at |-> "opened", by |-> who, cycle |-> trader.cycle, seen |-> seen]

StartByHand ==
  /\ brain.at = "idle" /\ byHand < MaxByHand
  /\ OpenBrain("hand", 0) /\ byHand' = byHand + 1
  /\ UNCHANGED <<worldVars, trader, decisions, management, faults, pastVars>>

(* What the wrapper returns to the trader: decisions, or none.                *)
Answered(with) == trader' = IF brain.by = "trader" THEN [trader EXCEPT !.at = "answered", !.decided = with] ELSE trader

(* The wrapper empties both files; if it cannot, nothing is asked.            *)
EmptyDecisions(ok) ==
  /\ brain.at = "opened" /\ Writes(ok) /\ Faulted(ok)
  /\ IF ok THEN /\ decisions' = NoFrame /\ brain' = [brain EXCEPT !.at = "emptied"] /\ UNCHANGED trader
           ELSE brain' = Idle /\ Answered(FALSE) /\ UNCHANGED decisions
  /\ UNCHANGED <<worldVars, management, byHand, pastVars>>

EmptyManagement(ok) ==
  /\ brain.at = "emptied" /\ Writes(ok) /\ Faulted(ok)
  /\ IF ok THEN /\ management' = Nothing /\ brain' = [brain EXCEPT !.at = "clear"] /\ UNCHANGED trader
           ELSE brain' = Idle /\ Answered(FALSE) /\ UNCHANGED management
  /\ vouched' = (vouched /\ ~ok) /\ loose' = ~ok
  /\ UNCHANGED <<worldVars, decisions, byHand, sent>>

(* The frame: account and time first, pending orders of what is selected by    *)
(* then, and positions as the caller gave them.                               *)
FreezeFrame ==
  /\ brain.at = "clear"
  /\ brain' = [at |-> "frozen", by |-> brain.by,
               frame |-> [by |-> brain.by, cycle |-> brain.cycle, binding |-> binding, taken |-> time,
                          position |-> brain.seen, pending |-> {}]]
  /\ UNCHANGED <<worldVars, trader, fileVars, pastVars>>

ReadPending ==
  /\ brain.at = "frozen"
  /\ \E listed \in {{}, pending \cap {Selected}} :
       brain' = [brain EXCEPT !.at = "asking", !.frame.pending = listed]
  /\ UNCHANGED <<worldVars, trader, fileVars, pastVars>>

(* No key, no instrument, a prompt that cannot be composed or that may not     *)
(* open: the model is not asked, and the files stay empty.                    *)
ReturnEarly ==
  /\ brain.at \in {"clear", "asking"}
  /\ brain' = Idle /\ Answered(FALSE)
  /\ UNCHANGED <<worldVars, fileVars, pastVars>>

FailBrain == brain' = [at |-> "failed", by |-> brain.by, frame |-> brain.frame]

(* One request.  validate_response leaves what is known of positions and        *)
(* orders; what is missing or not understood becomes HOLD and KEEP.           *)
BrainAnswers(close, cancels) ==
  /\ brain.at = "asking"
  /\ close => brain.frame.position # 0
  /\ cancels \subseteq brain.frame.pending
  /\ IF Current(brain.frame)
       THEN brain' = [at |-> "answered", by |-> brain.by, frame |-> brain.frame,
                      close |-> close, cancels |-> cancels]
       ELSE FailBrain
  /\ UNCHANGED <<worldVars, trader, fileVars, pastVars>>

(* Anything may fail on the way: the request, the contract, a write.          *)
BrainFails ==
  /\ brain.at \in {"asking", "answered", "accepted", "halfway", "published"} /\ FailBrain
  /\ UNCHANGED <<worldVars, trader, fileVars, pastVars>>

(* A cancel is sent under the account writer.                                *)
CancelPending(a) ==
  /\ brain.at = "answered" /\ a \in brain.cancels /\ WriterFreeFor(brain.by)
  /\ IF Current(brain.frame)
       THEN /\ pending' = IF a = Selected THEN pending \ {a} ELSE pending
            /\ sent' = [what |-> "cancel", of |-> a, account |-> Selected, at |-> time, frame |-> brain.frame]
            /\ brain' = [brain EXCEPT !.cancels = @ \ {a}]
       ELSE FailBrain /\ UNCHANGED <<pending, sent>>
  /\ UNCHANGED <<time, binding, position, trader, fileVars, vouched, loose>>

(* Evidence and audit are recorded between two comparisons of the frame.       *)
AcceptDecisions ==
  /\ brain.at = "answered" /\ brain.cancels = {}
  /\ IF Current(brain.frame) THEN brain' = [brain EXCEPT !.at = "accepted"] ELSE FailBrain
  /\ UNCHANGED <<worldVars, trader, fileVars, pastVars>>

PublishDecisions ==
  /\ brain.at = "accepted"
  /\ decisions' = brain.frame /\ brain' = [brain EXCEPT !.at = "halfway"]
  /\ UNCHANGED <<worldVars, trader, management, faults, byHand, pastVars>>

PublishManagement ==
  /\ brain.at = "halfway"
  /\ management' = [frame |-> brain.frame, close |-> brain.close]
  /\ brain' = [brain EXCEPT !.at = "published"]
  /\ UNCHANGED <<worldVars, trader, decisions, faults, byHand, pastVars>>

(* The history is written, and the decisions are returned.                    *)
ReturnDecisions ==
  /\ brain.at = "published"
  /\ vouched' = TRUE
  /\ brain' = Idle /\ Answered(TRUE)
  /\ UNCHANGED <<worldVars, fileVars, loose, sent>>

(* Seeded fault: only the decisions are taken back.                          *)
TakeBackDecisions(okDecisions, okManagement) ==
  /\ brain.at = "failed" /\ Writes(okDecisions) /\ Faulted(okDecisions)
  /\ decisions' = IF okDecisions THEN NoFrame ELSE decisions
  /\ loose' = (loose \/ ~okDecisions)
  /\ brain' = Idle /\ Answered(FALSE)
  /\ UNCHANGED <<worldVars, management, byHand, vouched, sent>>

(* A failed cycle empties each file as far as it can.                         *)
TakeBack(okDecisions, okManagement) ==
  /\ brain.at = "failed"
  /\ Writes(okDecisions /\ okManagement) /\ Faulted(okDecisions /\ okManagement)
  /\ decisions' = IF okDecisions THEN NoFrame ELSE decisions
  /\ management' = IF okManagement THEN Nothing ELSE management
  /\ loose' = (loose \/ ~okDecisions \/ ~okManagement)
  /\ brain' = Idle /\ Answered(FALSE)
  /\ UNCHANGED <<worldVars, byHand, vouched, sent>>

-----------------------------------------------------------------------------
(* The trader.                                                               *)

(* Positions are read at the start of the cycle, under the writer.            *)
BeginTrader ==
  /\ trader.at = "idle" /\ trader.cycle < MaxCycles
  /\ trader' = [at |-> "begun", cycle |-> trader.cycle + 1, seen |-> position[Selected], decided |-> FALSE]
  /\ UNCHANGED <<worldVars, brain, fileVars, pastVars>>

AskBrain ==
  /\ trader.at = "begun"
  /\ IF brain.at = "idle"
       THEN trader' = [trader EXCEPT !.at = "inferring"] /\ OpenBrain("trader", trader.seen)
       ELSE trader' = [trader EXCEPT !.at = "answered"] /\ UNCHANGED brain
  /\ UNCHANGED <<worldVars, fileVars, pastVars>>

EndTrader ==
  /\ trader.at \notin {"idle", "inferring"}
  /\ trader' = [at |-> "idle", cycle |-> trader.cycle]
  /\ UNCHANGED <<worldVars, brain, fileVars, pastVars>>

(* Positions are read again, because the model took its time.                 *)
RefreshPositions ==
  /\ trader.at = "answered" /\ trader.decided
  /\ trader' = [trader EXCEPT !.at = "refreshed", !.seen = position[Selected]]
  /\ UNCHANGED <<worldVars, brain, fileVars, pastVars>>

(* execute_ai_position_management, validate_management                       *)
ReadManagement ==
  /\ trader.at = "refreshed"
  /\ management.frame # NoFrame /\ Current(management.frame)
  /\ trader' = [at |-> "managing", cycle |-> trader.cycle, seen |-> trader.seen, payload |-> management]
  /\ UNCHANGED <<worldVars, brain, fileVars, pastVars>>

ClosePosition ==
  /\ trader.at = "managing" /\ trader.payload.close
  /\ Current(trader.payload.frame)
  /\ trader.payload.frame.position = trader.seen /\ trader.seen # 0
  /\ sent' = [what |-> "close", of |-> trader.seen, account |-> Selected, at |-> time,
              frame |-> trader.payload.frame, cycle |-> trader.cycle]
  /\ trader' = [at |-> "idle", cycle |-> trader.cycle]
  /\ UNCHANGED <<worldVars, brain, fileVars, vouched, loose>>

-----------------------------------------------------------------------------
(* A process is killed: its locks are free, its files stay.                   *)
LeftBehind == loose' = (loose \/ brain.at \in {"emptied", "halfway", "published", "failed"})

KillTrader ==
  /\ trader.at # "idle" /\ faults < MaxFaults /\ faults' = faults + 1
  /\ trader' = [at |-> "idle", cycle |-> trader.cycle]
  /\ IF trader.at = "inferring" THEN brain' = Idle /\ LeftBehind ELSE UNCHANGED <<brain, loose>>
  /\ UNCHANGED <<worldVars, decisions, management, byHand, vouched, sent>>

KillByHand ==
  /\ brain.at # "idle" /\ brain.by = "hand" /\ faults < MaxFaults
  /\ brain' = Idle /\ LeftBehind /\ faults' = faults + 1
  /\ UNCHANGED <<worldVars, trader, decisions, management, byHand, vouched, sent>>

(* mutation_guard asks for the writer and the trader's lock, not the brain's.  *)
SelectOther ==
  /\ trader.at = "idle" /\ binding < MaxBindings
  /\ binding' = binding + 1
  /\ UNCHANGED <<time, position, pending, trader, brain, fileVars, pastVars>>

(* The market, the guard or a person closes a position or opens another one.   *)
PositionChanges(life) ==
  /\ life = 0 \/ \A a \in Owner : life > position[a]
  /\ life # position[Selected]
  /\ position' = [position EXCEPT ![Selected] = life]
  /\ UNCHANGED <<time, binding, pending, trader, brain, fileVars, pastVars>>

Tick ==
  /\ time < MaxTicks /\ time' = time + 1
  /\ UNCHANGED <<binding, position, pending, trader, brain, fileVars, pastVars>>

BrainNext ==
  \/ StartByHand \/ FreezeFrame \/ ReadPending \/ ReturnEarly
  \/ \E ok \in BOOLEAN : EmptyDecisions(ok) \/ EmptyManagement(ok)
  \/ \E close \in BOOLEAN, cancels \in SUBSET Owner : BrainAnswers(close, cancels)
  \/ BrainFails \/ \E a \in Owner : CancelPending(a)
  \/ AcceptDecisions \/ PublishDecisions \/ PublishManagement \/ ReturnDecisions
  \/ \E d, m \in BOOLEAN : TakeBack(d, m)
  \/ BeginTrader \/ AskBrain \/ EndTrader \/ RefreshPositions \/ ReadManagement \/ ClosePosition
  \/ KillTrader \/ KillByHand \/ SelectOther \/ Tick
  \/ \E life \in 0 .. MaxLives : PositionChanges(life)

BrainSpec == BrainInit /\ [][BrainNext]_brainVars

-----------------------------------------------------------------------------
Frame == [by : {"trader", "hand"}, cycle : 0 .. MaxCycles, binding : 0 .. MaxBindings,
          taken : 0 .. MaxTicks, position : 0 .. MaxLives, pending : SUBSET Owner]
Management == [frame : Frame \cup {NoFrame}, close : BOOLEAN]

TraderBusy == [at : {"begun", "inferring", "answered", "refreshed"}, cycle : 0 .. MaxCycles,
               seen : 0 .. MaxLives, decided : BOOLEAN]
TraderManages == [at : {"managing"}, cycle : 0 .. MaxCycles, seen : 0 .. MaxLives, payload : Management]
BrainEarly == [at : {"opened", "emptied", "clear"}, by : {"trader", "hand"}, cycle : 0 .. MaxCycles,
               seen : 0 .. MaxLives]
BrainFramed == [at : {"frozen", "asking", "failed"}, by : {"trader", "hand"}, frame : Frame]
BrainDecided == [at : {"answered", "accepted", "halfway", "published"}, by : {"trader", "hand"},
                 frame : Frame, close : BOOLEAN, cancels : SUBSET Owner]

BrainTypeOK ==
  /\ time \in 0 .. MaxTicks /\ binding \in 0 .. MaxBindings
  /\ position \in [Owner -> 0 .. MaxLives] /\ pending \subseteq Owner
  /\ trader \in [at : {"idle"}, cycle : 0 .. MaxCycles] \cup TraderBusy \cup TraderManages
  /\ brain \in {Idle} \cup BrainEarly \cup BrainFramed \cup BrainDecided
  /\ decisions \in Frame \cup {NoFrame} /\ management \in Management

(* "A failed cycle must not leave partially published instructions available to *)
(* consumers": when no cycle runs, both files are empty or of one frame whose    *)
(* cycle succeeded, but for what the disk or a killed process left behind.       *)
NothingHalfDone ==
  brain.at = "idle" /\ ~loose =>
    /\ decisions = management.frame
    /\ decisions # NoFrame => vouched

(* The old instructions are never used again: the trader carries out only what  *)
(* the cycle it asked for said, of the account and the position that cycle saw,   *)
(* although another cycle may have written the files since.                    *)
ActsOnItsOwnCycle ==
  sent # NoRequest /\ sent.what = "close" =>
    /\ sent.frame.by = "trader" /\ sent.frame.cycle = sent.cycle
    /\ sent.frame.binding % 2 = sent.account /\ sent.frame.position = sent.of
    /\ sent.at - sent.frame.taken <= MaxAge

(* A cancel goes to the account whose pending orders the model saw, in time.     *)
CancelsWhatItSaw ==
  sent # NoRequest /\ sent.what = "cancel" =>
    /\ sent.of = sent.account /\ sent.frame.binding % 2 = sent.account
    /\ sent.at - sent.frame.taken <= MaxAge

BrainSafe == BrainTypeOK /\ NothingHalfDone /\ ActsOnItsOwnCycle /\ CancelsWhatItSaw
=============================================================================
