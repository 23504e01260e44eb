--------------------------- MODULE DecisionProofs ----------------------------
(***************************************************************************)
(* Proofs about a decision: the waits it has to answer for, the files it is    *)
(* published in, the text of the trading memory it was taken on, and the      *)
(* answer of the model it was read from.                                      *)
(***************************************************************************)
EXTENDS WaitAudit, BrainCycle, TradingMemory, AnswerStream, FiniteSetTheorems, TLAPS

-----------------------------------------------------------------------------
(* The waits of an account.  The conditions in force are those of the audit    *)
(* that the next frame will load, and a frame that is under way has seen them.  *)
FrameOK ==
  /\ frame.at \in {"asking", "decided"} => frame.taken \in 0 .. MaxClock /\ frame.fact \in Fact
  /\ frame.at = "asking" => frame.prior \in Prior \cup {NoPrior}
  /\ frame.at = "decided" => /\ frame.outcome \in {"audited_wait", "entry_candidate", "execution_rejected", "incomplete"}
                             /\ frame.condition \in Condition /\ frame.reviewed \in BOOLEAN

Carried ==
  stored # NoFile /\ (baseline # 0 => stored.cycle = baseline) /\ stored.verified # NoWait

StandingInv ==
  /\ stored # NoFile => stored.cycle <= baseline
  /\ standing = IF Carried THEN [condition |-> stored.verified.condition, since |-> stored.verified.anchor]
                ELSE NoWait

Due(condition, since) ==
  Check(condition, frame.fact) # "not_met" \/ frame.taken - since >= Hour

AskedInv == standing # NoWait =>
  /\ frame.at = "asking" => /\ frame.prior # NoPrior
                            /\ frame.prior.condition = standing.condition
                            /\ (frame.prior.required <=> Due(standing.condition, standing.since))
  /\ frame.at = "decided" /\ frame.outcome = "audited_wait" /\ ~frame.reviewed =>
       /\ frame.condition = standing.condition
       /\ ~Due(standing.condition, standing.since)

WaitInv == WaitTypeOK /\ FrameOK /\ StandingInv /\ AskedInv /\ ~silent

(* What an account loads is an audit, with the wait it carries. *)
LEMMA LoadedFile ==
  ASSUME WaitTypeOK, StandingInv
  PROVE /\ Loaded \in AuditFile /\ Loaded.verified \in Wait \cup {NoWait}
        /\ stored # NoFile /\ baseline # 0 => Loaded.cycle = baseline
        /\ Loaded.cycle <= baseline
        /\ Carried => Loaded = stored
        /\ (Loaded.verified # NoWait) <=> Carried
        /\ (standing # NoWait) <=> Carried
<1> USE WaitAssumption DEF WaitTypeOK
<1>1. Loaded \in AuditFile /\ Loaded.verified \in Wait \cup {NoWait} BY DEF Loaded, AuditFile
<1>2. Carried => Loaded = stored BY DEF Loaded, Carried
<1>3. Loaded.verified # NoWait => Carried BY DEF Loaded, Carried
<1>4. Loaded.cycle <= baseline /\ (stored # NoFile /\ baseline # 0 => Loaded.cycle = baseline)
  BY DEF Loaded, StandingInv
<1>5. ASSUME Carried PROVE standing # NoWait
  <2>1. stored \in AuditFile /\ stored.verified \in Wait BY <1>5 DEF Carried, AuditFile
  <2>2. standing \in [condition : Condition, since : 0 .. MaxClock] BY <1>5, <2>1 DEF StandingInv, Wait
  <2> QED BY <2>2
<1>6. standing # NoWait => Carried BY DEF StandingInv
<1> QED BY <1>1, <1>2, <1>3, <1>4, <1>5, <1>6 DEF Carried

(* Nothing stands at first. *)
LEMMA WaitAtFirst == WaitInit => WaitInv
BY WaitAssumption DEF WaitInit, WaitInv, WaitTypeOK, FrameOK, StandingInv, Carried, AskedInv

(* Whatever a frame leaves aside: a loaded file may be written back. *)
LEMMA LoadedRests ==
  ASSUME WaitTypeOK, StandingInv, stored' \in {stored, Loaded}, UNCHANGED <<baseline, standing>>
  PROVE stored' \in AuditFile \cup {NoFile} /\ StandingInv'
<1> USE WaitAssumption
<1>1. CASE stored' = stored BY <1>1 DEF WaitTypeOK, StandingInv, Carried
<1>2. CASE stored' = Loaded
  <2>1. stored' \in AuditFile /\ stored' # NoFile BY <1>2, LoadedFile
  <2>2. Carried => stored' = stored BY <1>2, LoadedFile
  <2>3. Carried' <=> Carried BY <1>2, <2>1, <2>2, LoadedFile DEF Carried
  <2>4. stored'.cycle <= baseline' BY <1>2, LoadedFile
  <2> QED BY <2>1, <2>2, <2>3, <2>4 DEF StandingInv
<1> QED BY <1>1, <1>2

(* The prior wait a frame starts with is the one in force. *)
LEMMA FrameFrozen == ASSUME WaitInv, FreezeFacts PROVE WaitInv'
<1> USE WaitAssumption DEF WaitInv, FreezeFacts
<1> DEFINE v == Loaded.verified
<1>1. Loaded \in AuditFile /\ v \in Wait \cup {NoWait} BY LoadedFile DEF AuditFile
<1>2. PriorOf(v, fact) \in Prior \cup {NoPrior} /\ (v # NoWait => PriorOf(v, fact) \in Prior)
  <2>1. CASE v = NoWait BY <2>1 DEF PriorOf
  <2>2. CASE v # NoWait
    <3>1. v.condition \in Condition BY <1>1, <2>2 DEF Wait
    <3>2. PriorOf(v, fact) = [condition |-> v.condition, required |-> PriorOf(v, fact).required,
                              changed |-> PriorOf(v, fact).changed]
      BY <2>2 DEF PriorOf
    <3>3. PriorOf(v, fact).required \in BOOLEAN /\ PriorOf(v, fact).changed \in BOOLEAN
      BY <2>2 DEF PriorOf
    <3> QED BY <3>1, <3>2, <3>3 DEF Prior
  <2> QED BY <2>1, <2>2
<1>3. WaitTypeOK' /\ FrameOK' BY <1>2 DEF WaitTypeOK, FrameOK
<1>4. StandingInv' BY LoadedRests
<1>5. AskedInv'
  <2> SUFFICES ASSUME standing # NoWait
               PROVE /\ frame'.prior # NoPrior /\ frame'.prior.condition = standing.condition
                     /\ (frame'.prior.required <=> Due(standing.condition, standing.since)')
    BY DEF AskedInv
  <2>1. Loaded = stored /\ Carried BY LoadedFile
  <2>2. v # NoWait /\ standing.condition = v.condition /\ standing.since = v.anchor
    BY <2>1, LoadedFile DEF StandingInv
  <2>3. PriorOf(v, fact).condition = v.condition /\ PriorOf(v, fact) # NoPrior BY <2>2, <1>2 DEF PriorOf
  <2>4. PriorOf(v, fact).required <=> (Check(v.condition, fact) # "not_met" \/ elapsed - v.anchor >= Hour)
    BY <2>2 DEF PriorOf
  <2>5. frame'.prior = PriorOf(v, fact) /\ frame'.fact = fact /\ frame'.taken = elapsed OBVIOUS
  <2>6. Due(standing.condition, standing.since)' <=>
          (Check(v.condition, fact) # "not_met" \/ elapsed - v.anchor >= Hour)
    BY <2>2, <2>5 DEF Due
  <2> QED BY <2>2, <2>3, <2>4, <2>5, <2>6
<1> QED BY <1>3, <1>4, <1>5 DEF WaitTypeOK

(* A wait that was not reviewed had not to be: it is the one before, and it is   *)
(* not due.                                                                  *)
LEMMA ModelAnswers ==
  ASSUME WaitInv, NEW c \in Condition, NEW r \in {"none", "exact", "other"}, NEW busy \in BOOLEAN, ModelWaits(c, r, busy)
  PROVE WaitInv'
<1> USE WaitAssumption DEF WaitInv, ModelWaits
<1>1. PICK s \in {"none", "exact", "other"}, o \in {"audited_wait", "incomplete"} :
        /\ Decide(o, c, s)
        /\ o = "audited_wait" => AuditedWait(frame.prior, frame.fact, c, s)
  BY DEF Repaired
<1>2. WaitTypeOK' /\ FrameOK' BY <1>1 DEF WaitTypeOK, FrameOK, Decide
<1>3. StandingInv' BY LoadedRests
<1>4. AskedInv'
  <2> SUFFICES ASSUME standing # NoWait, o = "audited_wait", s # "exact"
               PROVE c = standing.condition /\ ~Due(standing.condition, standing.since)'
    BY <1>1 DEF AskedInv, Decide
  <2>1. ~ReviewOwed(frame.prior, c, s) BY <1>1 DEF AuditedWait
  <2>2. c = standing.condition /\ ~Due(standing.condition, standing.since)
    BY <2>1 DEF ReviewOwed, AskedInv
  <2> QED BY <1>1, <2>2 DEF Due, Decide
<1> QED BY <1>2, <1>3, <1>4

(* What is committed stands, with the age it had. *)
LEMMA AuditCommitted == ASSUME WaitInv, CommitAudit PROVE WaitInv'
<1> USE WaitAssumption DEF WaitInv, CommitAudit
<1> DEFINE v == Loaded.verified
<1>1. Loaded \in AuditFile /\ v \in Wait \cup {NoWait} BY LoadedFile DEF AuditFile
<1>2. VerifiedAfter(v) \in Wait \cup {NoWait} /\ (frame.outcome = "audited_wait" => VerifiedAfter(v) \in Wait)
  <2>1. CASE frame.outcome = "audited_wait"
    <3>1. Anchor(v) \in 0 .. MaxClock BY <1>1 DEF Anchor, Wait, WaitTypeOK
    <3> QED BY <2>1, <3>1 DEF VerifiedAfter, Wait, FrameOK, WaitTypeOK
  <2> QED BY <2>1, <1>1 DEF VerifiedAfter
<1>3. /\ stored' \in AuditFile /\ stored'.cycle = Loaded.cycle /\ stored'.verified = VerifiedAfter(v)
      /\ stored' # NoFile /\ stored'.cycle <= baseline'
  BY <1>1, <1>2, LoadedFile DEF AuditFile
<1>4. WaitTypeOK' /\ FrameOK' /\ AskedInv' BY <1>3 DEF WaitTypeOK, FrameOK, AskedInv
<1>5. CASE frame.outcome = "audited_wait"
  <2>1. ~silent' BY <1>5 DEF Stand, AskedInv, Due
  <2>2. stored'.verified = [at |-> elapsed, anchor |-> Anchor(v), condition |-> frame.condition, value |-> frame.fact]
    BY <1>3, <1>5 DEF VerifiedAfter
  <2>3. stored'.verified # NoWait BY <1>3, <1>5, <1>2
  <2>4. CASE stored = NoFile /\ baseline # 0
    <3>1. standing' = NoWait BY <1>5, <2>4 DEF Stand
    <3>2. ~Carried' BY <2>4, <1>3 DEF Carried, Loaded
    <3> QED BY <2>1, <3>1, <3>2, <1>4, <1>3 DEF StandingInv
  <2>5. CASE ~(stored = NoFile /\ baseline # 0)
    <3>1. Carried' BY <1>3, <2>3, <2>5, LoadedFile DEF Carried
    <3>2. CASE standing # NoWait /\ standing.condition = frame.condition /\ ~frame.reviewed
      <4>1. Loaded = stored /\ Carried BY <3>2, LoadedFile
      <4>2. v # NoWait /\ standing = [condition |-> v.condition, since |-> v.anchor]
        BY <4>1, LoadedFile DEF StandingInv
      <4>3. Anchor(v) = v.anchor BY <4>2, <3>2 DEF Anchor
      <4>4. standing' = standing BY <3>2, <2>5, <1>5 DEF Stand
      <4> QED BY <4>2, <4>3, <4>4, <3>1, <3>2, <2>2, <2>1, <1>4, <1>3 DEF StandingInv
    <3>3. CASE ~(standing # NoWait /\ standing.condition = frame.condition /\ ~frame.reviewed)
      <4>1. standing' = [condition |-> frame.condition, since |-> elapsed] BY <3>3, <2>5, <1>5 DEF Stand
      <4>2. v # NoWait => standing # NoWait /\ standing.condition = v.condition
        BY LoadedFile DEF StandingInv
      <4>3. Anchor(v) = elapsed BY <3>3, <4>2 DEF Anchor
      <4> QED BY <4>1, <4>3, <3>1, <2>2, <2>1, <1>4, <1>3 DEF StandingInv
    <3> QED BY <3>2, <3>3
  <2> QED BY <2>4, <2>5
<1>6. CASE frame.outcome # "audited_wait"
  <2>1. ~silent' BY <1>6 DEF Stand
  <2>2. CASE frame.outcome = "entry_candidate"
    <3>1. standing' = NoWait /\ stored'.verified = NoWait BY <2>2, <1>3 DEF Stand, VerifiedAfter
    <3> QED BY <3>1, <2>1, <1>4, <1>3 DEF StandingInv, Carried
  <2>3. CASE frame.outcome # "entry_candidate"
    <3>1. standing' = standing /\ stored'.verified = v BY <1>6, <2>3, <1>3 DEF Stand, VerifiedAfter
    <3>2. stored' = Loaded BY <3>1, <1>1 DEF AuditFile
    <3> QED BY <3>1, <3>2, <2>1, <1>4, LoadedRests
  <2> QED BY <2>2, <2>3
<1> QED BY <1>5, <1>6

(* Time, the market and the account between. *)
LEMMA WaitElsewhere ==
  ASSUME WaitInv,
         \/ \E o \in {"entry_candidate", "execution_rejected", "incomplete"} : ModelEnters(o)
         \/ CommitFails \/ EndFrame \/ FrameFails \/ FrameDies
         \/ TimePasses \/ \E value \in Fact : FactChanges(value)
  PROVE WaitInv'
<1> USE WaitAssumption DEF WaitInv
<1>1. stored' \in {stored, Loaded} /\ UNCHANGED <<baseline, standing, silent>>
  BY DEF ModelEnters, CommitFails, EndFrame, FrameFails, FrameDies, TimePasses, FactChanges
<1>2. StandingInv' /\ stored' \in AuditFile \cup {NoFile} BY <1>1, LoadedRests
<1>3. elapsed' \in 0 .. MaxClock /\ fact' \in Fact /\ UNCHANGED baseline
  BY <1>1 DEF ModelEnters, CommitFails, EndFrame, FrameFails, FrameDies, TimePasses, FactChanges, WaitTypeOK
<1>a. FrameOK' /\ frame'.at \in {"idle", "asking", "decided", "committed"}
  <2>1. ASSUME NEW o \in {"entry_candidate", "execution_rejected", "incomplete"}, ModelEnters(o)
        PROVE FrameOK' /\ frame'.at = "decided"
    BY <2>1 DEF ModelEnters, Decide, FrameOK, Condition
  <2>2. ASSUME CommitFails \/ EndFrame \/ FrameFails \/ FrameDies
        PROVE FrameOK' /\ frame'.at \in {"idle", "committed"}
    BY <2>2 DEF CommitFails, EndFrame, FrameFails, FrameDies, FrameOK
  <2>3. ASSUME UNCHANGED frame PROVE FrameOK' /\ frame'.at = frame.at
    BY <2>3 DEF FrameOK
  <2> QED BY <2>1, <2>2, <2>3 DEF TimePasses, FactChanges, WaitTypeOK
<1>4. \/ frame' = frame
      \/ frame'.at \in {"idle", "committed"}
      \/ frame'.at = "decided" /\ frame'.outcome # "audited_wait"
  BY DEF ModelEnters, Decide, CommitFails, EndFrame, FrameFails, FrameDies, TimePasses, FactChanges
<1>5. AskedInv' BY <1>1, <1>4 DEF AskedInv, Due
<1> QED BY <1>1, <1>2, <1>3, <1>a, <1>5 DEF WaitTypeOK

(* A baseline that is set anew starts the account's waits anew. *)
LEMMA BaselineReset == ASSUME WaitInv, ResetBaseline PROVE WaitInv'
<1> USE WaitAssumption DEF WaitInv, ResetBaseline
<1>1. WaitTypeOK' /\ FrameOK' BY DEF WaitTypeOK, FrameOK
<1>2. ~Carried' BY DEF Carried, StandingInv, WaitTypeOK, AuditFile
<1> QED BY <1>1, <1>2 DEF StandingInv, AskedInv, WaitTypeOK, AuditFile

(* "The original threshold may not be moved silently": whatever fails, dies or   *)
(* is repaired between, no account goes on waiting although its conditions      *)
(* fired, were replaced or stood an hour, without a review that cites a change.  *)
THEOREM NoSilentWaitTheorem == WaitSpec => []NoSilentWait
<1>1. WaitInit => WaitInv BY WaitAtFirst
<1>2. WaitInv /\ [WaitNext]_waitVars => WaitInv'
  <2> SUFFICES ASSUME WaitInv, [WaitNext]_waitVars PROVE WaitInv'
    OBVIOUS
  <2>1. CASE UNCHANGED waitVars
    BY <2>1 DEF waitVars, WaitInv, WaitTypeOK, FrameOK, StandingInv, Carried, AskedInv, Due
  <2>2. CASE WaitNext
    BY <2>2, FrameFrozen, ModelAnswers, AuditCommitted, WaitElsewhere, BaselineReset DEF WaitNext
  <2> QED BY <2>1, <2>2
<1>3. WaitInv => NoSilentWait BY DEF WaitInv, NoSilentWait
<1> QED BY <1>1, <1>2, <1>3, PTL DEF WaitSpec

-----------------------------------------------------------------------------
(* The model's cycle.  The brain's lock is the trader's while it infers; what a *)
(* cycle saw is its own: the positions its trader read, or none if it was        *)
(* started by hand.                                                          *)
Early == {"opened", "emptied", "clear"}
Framed == {"frozen", "asking", "answered", "accepted", "halfway", "published", "failed"}

BrainOK ==
  /\ trader.at = "inferring" <=> (brain.at # "idle" /\ brain.by = "trader")
  /\ brain.at \in Early => /\ brain.by = "trader" => brain.cycle = trader.cycle
                           /\ brain.by = "hand" => brain.seen = 0
  /\ brain.at \in Framed => /\ brain.frame.by = brain.by
                            /\ brain.by = "trader" => brain.frame.cycle = trader.cycle
                            /\ brain.by = "hand" => brain.frame.position = 0

(* The frame's account, and the pending orders it saw of it. *)
PendingOK ==
  /\ brain.at \in Framed => brain.frame.binding <= binding
  /\ brain.at \in Framed => (brain.frame.binding = binding => brain.frame.pending \subseteq {Selected})
  /\ brain.at = "answered" => brain.cancels \subseteq brain.frame.pending

(* What the files hold on the way. *)
FilesOK ==
  /\ brain.at \in {"idle", "opened"} /\ ~loose =>
       /\ decisions = management.frame
       /\ decisions # NoFrame => vouched
  /\ brain.at = "emptied" => decisions = NoFrame
  /\ brain.at \in {"clear", "frozen", "asking", "answered", "accepted"} =>
       decisions = NoFrame /\ management.frame = NoFrame
  /\ brain.at = "halfway" => decisions = brain.frame /\ management.frame = NoFrame
  /\ brain.at = "published" => decisions = brain.frame /\ management.frame = brain.frame

(* An instruction the trader may find is its own cycle's, or one by hand that    *)
(* saw no position.                                                          *)
Own(saw, now) ==
  \/ saw.by = "trader" /\ saw.cycle = now
  \/ saw.by = "hand" /\ saw.position = 0

InstructionOK ==
  /\ trader.at \in {"begun", "inferring"} => ~trader.decided
  /\ (trader.at = "answered" /\ trader.decided) \/ trader.at = "refreshed" =>
       management.frame = NoFrame \/ Own(management.frame, trader.cycle)
  /\ trader.at = "managing" => Own(trader.payload.frame, trader.cycle)

BrainInv ==
  /\ BrainTypeOK /\ BrainOK /\ PendingOK /\ FilesOK /\ InstructionOK
  /\ ActsOnItsOwnCycle /\ CancelsWhatItSaw

(* What the model's cycle and the trader's are, by where they are. *)
LEMMA BrainKinds ==
  ASSUME BrainTypeOK
  PROVE /\ brain.at \in Early => brain \in BrainEarly
        /\ brain.at \in {"frozen", "asking", "failed"} => brain \in BrainFramed
        /\ brain.at \in {"answered", "accepted", "halfway", "published"} => brain \in BrainDecided
        /\ brain.at \in {"idle"} \cup Early \cup Framed
        /\ trader.at \in {"begun", "inferring", "answered", "refreshed"} => trader \in TraderBusy
        /\ trader.cycle \in 0 .. MaxCycles
        /\ trader.at \in {"idle", "begun", "inferring", "answered", "refreshed", "managing"}
BY DEF BrainTypeOK, BrainEarly, BrainFramed, BrainDecided, TraderBusy, TraderManages, Early, Framed, Idle

(* Nothing is published at first. *)
LEMMA BrainAtFirst == BrainInit => BrainInv
<1> SUFFICES ASSUME BrainInit PROVE BrainInv
  OBVIOUS
<1> USE BrainAssumption DEF BrainInit, Idle, Nothing
<1>1. 0 \in 0 .. MaxTicks /\ 0 \in 0 .. MaxBindings /\ 0 \in 0 .. MaxCycles /\ FALSE \in BOOLEAN OBVIOUS
<1>2. position \in [Owner -> 0 .. MaxLives] /\ pending \subseteq Owner BY DEF Owner
<1>3. BrainTypeOK BY <1>1, <1>2 DEF BrainTypeOK, Management
<1>4. BrainOK /\ PendingOK BY DEF BrainOK, PendingOK, Early, Framed
<1>5. FilesOK /\ InstructionOK BY DEF FilesOK, InstructionOK
<1>6. ActsOnItsOwnCycle /\ CancelsWhatItSaw BY DEF ActsOnItsOwnCycle, CancelsWhatItSaw
<1> QED BY <1>3, <1>4, <1>5, <1>6 DEF BrainInv

(* The steps of the model's cycle up to *)
(* What the wrapper returns is the trader's answer, if it asked. *)
LEMMA AnsweredTrader ==
  ASSUME BrainTypeOK, BrainOK, brain.at # "idle", NEW with \in BOOLEAN, Answered(with)
  PROVE /\ trader' \in [at : {"idle"}, cycle : 0 .. MaxCycles] \cup TraderBusy \cup TraderManages
        /\ trader'.cycle = trader.cycle /\ trader'.at # "inferring"
        /\ brain.by = "trader" => trader'.at = "answered" /\ trader'.decided = with
        /\ brain.by # "trader" => trader' = trader
<1>1. CASE brain.by = "trader"
  <2>1. trader \in TraderBusy BY <1>1, BrainKinds DEF BrainOK
  <2> QED BY <1>1, <2>1 DEF Answered, TraderBusy
<1>2. CASE brain.by # "trader" BY <1>2 DEF Answered, BrainTypeOK, BrainOK
<1> QED BY <1>1, <1>2

(* The pending orders are those of the account selected by then. *)
LEMMA StepReadPending ==
  ASSUME BrainInv, ReadPending
  PROVE BrainInv'
<1> USE BrainAssumption, BrainKinds DEF BrainInv, worldVars, fileVars, pastVars, ReadPending
<1>1. BrainTypeOK' 
  <2>1. brain \in BrainFramed /\ brain.by \in {"trader", "hand"} /\ brain.frame \in Frame BY DEF BrainFramed
  <2>2. PICK listed \in {{}, pending \cap {Selected}} :
          brain' = [brain EXCEPT !.at = "asking", !.frame.pending = listed]
    OBVIOUS
  <2>3. listed \in SUBSET Owner BY <2>2 DEF BrainTypeOK
  <2>4. [brain.frame EXCEPT !.pending = listed] \in Frame BY <2>1, <2>3 DEF Frame
  <2>5. brain' = [at |-> "asking", by |-> brain.by, frame |-> [brain.frame EXCEPT !.pending = listed]]
    BY <2>1, <2>2 DEF BrainFramed
  <2>6. brain' \in BrainFramed BY <2>1, <2>4, <2>5 DEF BrainFramed
  <2> QED BY <2>6 DEF BrainTypeOK
<1>2. BrainOK' BY DEF BrainOK, BrainEarly, BrainFramed, BrainDecided, TraderBusy, Early, Framed, Frame, Idle
<1>3. PendingOK' BY DEF PendingOK, Selected, BrainTypeOK, BrainEarly, BrainFramed, BrainDecided, Early, Framed, Frame, Idle
<1>4. FilesOK' BY DEF FilesOK, BrainEarly, BrainFramed, BrainDecided, Early, Framed, Idle, Nothing
<1>5. InstructionOK' BY DEF InstructionOK, BrainOK, FilesOK, BrainTypeOK, TraderBusy, BrainEarly, BrainFramed, BrainDecided, Early, Framed, Idle, Nothing, Own
<1>6. ActsOnItsOwnCycle' /\ CancelsWhatItSaw' BY DEF ActsOnItsOwnCycle, CancelsWhatItSaw, PendingOK, Framed, InstructionOK, Own
<1> QED BY <1>1, <1>2, <1>3, <1>4, <1>5, <1>6

(* Nothing was asked. *)
LEMMA StepReturnEarly ==
  ASSUME BrainInv, ReturnEarly
  PROVE BrainInv'
<1> USE BrainAssumption, BrainKinds DEF BrainInv, worldVars, fileVars, pastVars, ReturnEarly
<1>1. BrainTypeOK' BY AnsweredTrader DEF BrainTypeOK, Idle
<1>2. BrainOK' BY AnsweredTrader DEF BrainOK, Idle, Early, Framed
<1>3. PendingOK' BY DEF PendingOK, Selected, BrainTypeOK, BrainEarly, BrainFramed, BrainDecided, Early, Framed, Frame, Idle
<1>4. FilesOK' BY DEF FilesOK, BrainEarly, BrainFramed, BrainDecided, Early, Framed, Idle, Nothing
<1>5. InstructionOK' BY AnsweredTrader DEF InstructionOK, FilesOK, Idle
<1>6. ActsOnItsOwnCycle' /\ CancelsWhatItSaw' BY DEF ActsOnItsOwnCycle, CancelsWhatItSaw, PendingOK, Framed, InstructionOK, Own
<1> QED BY <1>1, <1>2, <1>3, <1>4, <1>5, <1>6

(* What the model says is of what it saw. *)
LEMMA StepBrainAnswers ==
  ASSUME BrainInv, NEW close \in BOOLEAN, NEW cancels \in SUBSET Owner, BrainAnswers(close,cancels)
  PROVE BrainInv'
<1> USE BrainAssumption, BrainKinds DEF BrainInv, worldVars, fileVars, pastVars, BrainAnswers, Current, FailBrain
<1>1. BrainTypeOK' 
  <2>1. brain.by \in {"trader", "hand"} /\ brain.frame \in Frame BY DEF BrainFramed
  <2>2. brain' \in BrainDecided \cup BrainFramed BY <2>1 DEF BrainDecided, BrainFramed
  <2> QED BY <2>2 DEF BrainTypeOK
<1>2. BrainOK' BY DEF BrainOK, BrainEarly, BrainFramed, BrainDecided, TraderBusy, Early, Framed, Frame, Idle
<1>3. PendingOK' BY DEF PendingOK, Selected, BrainTypeOK, BrainEarly, BrainFramed, BrainDecided, Early, Framed, Frame, Idle
<1>4. FilesOK' BY DEF FilesOK, BrainEarly, BrainFramed, BrainDecided, Early, Framed, Idle, Nothing
<1>5. InstructionOK' BY DEF InstructionOK, BrainOK, FilesOK, BrainTypeOK, TraderBusy, BrainEarly, BrainFramed, BrainDecided, Early, Framed, Idle, Nothing, Own
<1>6. ActsOnItsOwnCycle' /\ CancelsWhatItSaw' BY DEF ActsOnItsOwnCycle, CancelsWhatItSaw, PendingOK, Framed, InstructionOK, Own
<1> QED BY <1>1, <1>2, <1>3, <1>4, <1>5, <1>6

(* A cancel: the account that is selected is still the one of the frame. *)
LEMMA StepCancelPending ==
  ASSUME BrainInv, NEW a \in Owner, CancelPending(a)
  PROVE BrainInv'
<1> USE BrainAssumption, BrainKinds DEF BrainInv, worldVars, fileVars, pastVars, CancelPending, Current, FailBrain
<1>1. BrainTypeOK' BY DEF BrainTypeOK, BrainEarly, BrainFramed, BrainDecided, TraderBusy, TraderManages, Early, Framed, Frame, Management, Idle, Nothing, Owner
<1>2. BrainOK' BY DEF BrainOK, BrainEarly, BrainFramed, BrainDecided, TraderBusy, Early, Framed, Frame, Idle
<1>3. PendingOK' BY DEF PendingOK, Selected, BrainTypeOK, BrainEarly, BrainFramed, BrainDecided, Early, Framed, Frame, Idle
<1>4. FilesOK' BY DEF FilesOK, BrainEarly, BrainFramed, BrainDecided, Early, Framed, Idle, Nothing
<1>5. InstructionOK' BY DEF InstructionOK, BrainOK, FilesOK, BrainTypeOK, TraderBusy, BrainEarly, BrainFramed, BrainDecided, Early, Framed, Idle, Nothing, Own
<1>6. ActsOnItsOwnCycle' /\ CancelsWhatItSaw' 
  <2>1. ActsOnItsOwnCycle' BY DEF ActsOnItsOwnCycle
  <2>2. CASE Current(brain.frame)
    <3>1. a = Selected /\ brain.frame.binding = binding BY <2>2 DEF PendingOK, Framed
    <3>2. sent' = [what |-> "cancel", of |-> a, account |-> Selected, at |-> time, frame |-> brain.frame] BY <2>2
    <3> QED BY <2>1, <2>2, <3>1, <3>2 DEF CancelsWhatItSaw, Selected
  <2>3. CASE ~Current(brain.frame) BY <2>1, <2>3 DEF CancelsWhatItSaw
  <2> QED BY <2>2, <2>3
<1> QED BY <1>1, <1>2, <1>3, <1>4, <1>5, <1>6

(* The second file is of the same frame as the first. *)
LEMMA StepPublishManagement ==
  ASSUME BrainInv, PublishManagement
  PROVE BrainInv'
<1> USE BrainAssumption, BrainKinds DEF BrainInv, worldVars, fileVars, pastVars, PublishManagement
<1>1. BrainTypeOK' BY DEF BrainTypeOK, BrainEarly, BrainFramed, BrainDecided, TraderBusy, TraderManages, Early, Framed, Frame, Management, Idle, Nothing, Owner
<1>2. BrainOK' BY DEF BrainOK, BrainEarly, BrainFramed, BrainDecided, TraderBusy, Early, Framed, Frame, Idle
<1>3. PendingOK' BY DEF PendingOK, Selected, BrainTypeOK, BrainEarly, BrainFramed, BrainDecided, Early, Framed, Frame, Idle
<1>4. FilesOK' 
  <2>1. brain \in BrainDecided /\ decisions = brain.frame BY DEF FilesOK
  <2>2. brain'.at = "published" /\ brain'.frame = brain.frame BY <2>1 DEF BrainDecided
  <2> QED BY <2>1, <2>2 DEF FilesOK
<1>5. InstructionOK' BY DEF InstructionOK, BrainOK, FilesOK, BrainTypeOK, TraderBusy, BrainEarly, BrainFramed, BrainDecided, Early, Framed, Idle, Nothing, Own
<1>6. ActsOnItsOwnCycle' /\ CancelsWhatItSaw' BY DEF ActsOnItsOwnCycle, CancelsWhatItSaw, PendingOK, Framed, InstructionOK, Own
<1> QED BY <1>1, <1>2, <1>3, <1>4, <1>5, <1>6

(* What the trader is told has been published. *)
LEMMA StepReturnDecisions ==
  ASSUME BrainInv, ReturnDecisions
  PROVE BrainInv'
<1> USE BrainAssumption, BrainKinds DEF BrainInv, worldVars, fileVars, pastVars, ReturnDecisions
<1>1. BrainTypeOK' BY AnsweredTrader DEF BrainTypeOK, Idle
<1>2. BrainOK' BY AnsweredTrader DEF BrainOK, Idle, Early, Framed
<1>3. PendingOK' BY DEF PendingOK, Selected, BrainTypeOK, BrainEarly, BrainFramed, BrainDecided, Early, Framed, Frame, Idle
<1>4. FilesOK' BY DEF FilesOK, BrainEarly, BrainFramed, BrainDecided, Early, Framed, Idle, Nothing
<1>5. InstructionOK' 
  <2>1. management.frame = brain.frame BY DEF FilesOK
  <2>2. brain.by = "trader" => Own(management.frame, trader'.cycle) 
    <3>1. brain.by = "trader" => brain.frame.by = "trader" /\ brain.frame.cycle = trader.cycle BY DEF BrainOK, Framed
    <3>2. trader'.cycle = trader.cycle BY AnsweredTrader
    <3> QED BY <2>1, <3>1, <3>2 DEF Own
  <2> QED BY <2>2, AnsweredTrader DEF InstructionOK
<1>6. ActsOnItsOwnCycle' /\ CancelsWhatItSaw' BY DEF ActsOnItsOwnCycle, CancelsWhatItSaw, PendingOK, Framed, InstructionOK, Own
<1> QED BY <1>1, <1>2, <1>3, <1>4, <1>5, <1>6

(* What was published is taken back. *)
LEMMA StepTakeBack ==
  ASSUME BrainInv, NEW d \in BOOLEAN, NEW m \in BOOLEAN, TakeBack(d,m)
  PROVE BrainInv'
<1> USE BrainAssumption, BrainKinds DEF BrainInv, worldVars, fileVars, pastVars, TakeBack, Faulted
<1>1. BrainTypeOK' BY AnsweredTrader DEF BrainTypeOK, Idle, Nothing, Management
<1>2. BrainOK' BY AnsweredTrader DEF BrainOK, Idle, Early, Framed
<1>3. PendingOK' BY DEF PendingOK, Selected, BrainTypeOK, BrainEarly, BrainFramed, BrainDecided, Early, Framed, Frame, Idle
<1>4. FilesOK' BY DEF FilesOK, BrainEarly, BrainFramed, BrainDecided, Early, Framed, Idle, Nothing
<1>5. InstructionOK' BY AnsweredTrader DEF InstructionOK, Own, Nothing
<1>6. ActsOnItsOwnCycle' /\ CancelsWhatItSaw' BY DEF ActsOnItsOwnCycle, CancelsWhatItSaw, PendingOK, Framed, InstructionOK, Own
<1> QED BY <1>1, <1>2, <1>3, <1>4, <1>5, <1>6

(* The trader sees the positions of the selected account. *)
LEMMA StepBeginTrader ==
  ASSUME BrainInv, BeginTrader
  PROVE BrainInv'
<1> USE BrainAssumption, BrainKinds DEF BrainInv, worldVars, fileVars, pastVars, BeginTrader
<1>1. BrainTypeOK' 
  <2>1. position[Selected] \in 0 .. MaxLives BY DEF BrainTypeOK, Selected, Owner
  <2>2. trader.cycle + 1 \in 0 .. MaxCycles OBVIOUS
  <2>3. trader' \in TraderBusy BY <2>1, <2>2 DEF TraderBusy
  <2> QED BY <2>3 DEF BrainTypeOK
<1>2. BrainOK' BY DEF BrainOK, BrainEarly, BrainFramed, BrainDecided, TraderBusy, Early, Framed, Frame, Idle
<1>3. PendingOK' BY DEF PendingOK, Selected, BrainTypeOK, BrainEarly, BrainFramed, BrainDecided, Early, Framed, Frame, Idle
<1>4. FilesOK' BY DEF FilesOK, BrainEarly, BrainFramed, BrainDecided, Early, Framed, Idle, Nothing
<1>5. InstructionOK' BY DEF InstructionOK, BrainOK, FilesOK, BrainTypeOK, TraderBusy, BrainEarly, BrainFramed, BrainDecided, Early, Framed, Idle, Nothing, Own
<1>6. ActsOnItsOwnCycle' /\ CancelsWhatItSaw' BY DEF ActsOnItsOwnCycle, CancelsWhatItSaw, PendingOK, Framed, InstructionOK, Own
<1> QED BY <1>1, <1>2, <1>3, <1>4, <1>5, <1>6

(* It sees them again. *)
LEMMA StepRefreshPositions ==
  ASSUME BrainInv, RefreshPositions
  PROVE BrainInv'
<1> USE BrainAssumption, BrainKinds DEF BrainInv, worldVars, fileVars, pastVars, RefreshPositions
<1>1. BrainTypeOK' 
  <2>1. position[Selected] \in 0 .. MaxLives BY DEF BrainTypeOK, Selected, Owner
  <2>2. trader \in TraderBusy OBVIOUS
  <2>3. trader' \in TraderBusy BY <2>1, <2>2 DEF TraderBusy
  <2> QED BY <2>3 DEF BrainTypeOK
<1>2. BrainOK' BY DEF BrainOK, BrainEarly, BrainFramed, BrainDecided, TraderBusy, Early, Framed, Frame, Idle
<1>3. PendingOK' BY DEF PendingOK, Selected, BrainTypeOK, BrainEarly, BrainFramed, BrainDecided, Early, Framed, Frame, Idle
<1>4. FilesOK' BY DEF FilesOK, BrainEarly, BrainFramed, BrainDecided, Early, Framed, Idle, Nothing
<1>5. InstructionOK' BY DEF InstructionOK, BrainOK, FilesOK, BrainTypeOK, TraderBusy, BrainEarly, BrainFramed, BrainDecided, Early, Framed, Idle, Nothing, Own
<1>6. ActsOnItsOwnCycle' /\ CancelsWhatItSaw' BY DEF ActsOnItsOwnCycle, CancelsWhatItSaw, PendingOK, Framed, InstructionOK, Own
<1> QED BY <1>1, <1>2, <1>3, <1>4, <1>5, <1>6

(* A trader is killed, and with it the cycle of the model it waits for. *)
LEMMA StepKillTrader ==
  ASSUME BrainInv, KillTrader
  PROVE BrainInv'
<1> USE BrainAssumption, BrainKinds DEF BrainInv, worldVars, fileVars, pastVars, KillTrader, LeftBehind
<1>1. BrainTypeOK' BY DEF BrainTypeOK, BrainEarly, BrainFramed, BrainDecided, TraderBusy, TraderManages, Early, Framed, Frame, Management, Idle, Nothing, Owner
<1>2. BrainOK' BY DEF BrainOK, BrainEarly, BrainFramed, BrainDecided, TraderBusy, Early, Framed, Frame, Idle
<1>3. PendingOK' BY DEF PendingOK, Selected, BrainTypeOK, BrainEarly, BrainFramed, BrainDecided, Early, Framed, Frame, Idle
<1>4. FilesOK' 
  <2>1. CASE brain' = brain /\ loose' = loose BY <2>1 DEF FilesOK
  <2>2. CASE brain' = Idle /\ LeftBehind BY <2>2 DEF FilesOK, Idle, Early, Framed
  <2> QED BY <2>1, <2>2
<1>5. InstructionOK' BY DEF InstructionOK, BrainOK, FilesOK, BrainTypeOK, TraderBusy, BrainEarly, BrainFramed, BrainDecided, Early, Framed, Idle, Nothing, Own
<1>6. ActsOnItsOwnCycle' /\ CancelsWhatItSaw' BY DEF ActsOnItsOwnCycle, CancelsWhatItSaw, PendingOK, Framed, InstructionOK, Own
<1> QED BY <1>1, <1>2, <1>3, <1>4, <1>5, <1>6

(* Positions change. *)
LEMMA StepPositionChanges ==
  ASSUME BrainInv, NEW life \in 0 .. MaxLives, PositionChanges(life)
  PROVE BrainInv'
<1> USE BrainAssumption, BrainKinds DEF BrainInv, worldVars, fileVars, pastVars, PositionChanges
<1>1. BrainTypeOK' 
  <2>1. position' \in [Owner -> 0 .. MaxLives] BY DEF BrainTypeOK
  <2> QED BY <2>1 DEF BrainTypeOK
<1>2. BrainOK' BY DEF BrainOK, BrainEarly, BrainFramed, BrainDecided, TraderBusy, Early, Framed, Frame, Idle
<1>3. PendingOK' BY DEF PendingOK, Selected, BrainTypeOK, BrainEarly, BrainFramed, BrainDecided, Early, Framed, Frame, Idle
<1>4. FilesOK' BY DEF FilesOK, BrainEarly, BrainFramed, BrainDecided, Early, Framed, Idle, Nothing
<1>5. InstructionOK' BY DEF InstructionOK, BrainOK, FilesOK, BrainTypeOK, TraderBusy, BrainEarly, BrainFramed, BrainDecided, Early, Framed, Idle, Nothing, Own
<1>6. ActsOnItsOwnCycle' /\ CancelsWhatItSaw' BY DEF ActsOnItsOwnCycle, CancelsWhatItSaw, PendingOK, Framed, InstructionOK, Own
<1> QED BY <1>1, <1>2, <1>3, <1>4, <1>5, <1>6

(* The first file is emptied. *)
LEMMA StepEmptyDecisions == ASSUME BrainInv, NEW ok \in BOOLEAN, EmptyDecisions(ok) PROVE BrainInv'
<1> USE BrainAssumption, BrainKinds DEF BrainInv, worldVars, fileVars, pastVars, EmptyDecisions
<1>1. brain \in BrainEarly BY DEF Early
<1>2. CASE ok
  <2>1. brain' \in BrainEarly /\ brain'.by = brain.by /\ brain'.cycle = brain.cycle /\ brain'.seen = brain.seen
        /\ brain'.at = "emptied"
    BY <1>1, <1>2 DEF BrainEarly
  <2>a. FALSE \in BOOLEAN OBVIOUS
  <2>b. Nothing \in Management BY <2>a DEF Nothing, Management
  <2>2. BrainTypeOK' BY <1>2, <2>1, <2>b DEF BrainTypeOK
  <2>3. BrainOK' /\ PendingOK' BY <1>2, <2>1 DEF BrainOK, PendingOK, Early, Framed
  <2>4. FilesOK' BY <1>2, <2>1 DEF FilesOK, Nothing
  <2>5. InstructionOK' BY <1>2 DEF InstructionOK, Nothing, Own
  <2>6. ActsOnItsOwnCycle' /\ CancelsWhatItSaw' BY DEF ActsOnItsOwnCycle, CancelsWhatItSaw
  <2> QED BY <2>2, <2>3, <2>4, <2>5, <2>6
<1>3. CASE ~ok
  <2>1. brain' = Idle /\ Answered(FALSE) BY <1>3
  <2>2. BrainTypeOK' BY <1>3, <2>1, AnsweredTrader DEF BrainTypeOK
  <2>3. BrainOK' /\ PendingOK' BY <2>1, AnsweredTrader DEF BrainOK, PendingOK, Idle, Early, Framed
  <2>4. FilesOK' BY <1>3, <2>1 DEF FilesOK, Idle
  <2>5. InstructionOK' BY <1>3, <2>1, AnsweredTrader DEF InstructionOK, Own
  <2>6. ActsOnItsOwnCycle' /\ CancelsWhatItSaw' BY DEF ActsOnItsOwnCycle, CancelsWhatItSaw
  <2> QED BY <2>2, <2>3, <2>4, <2>5, <2>6
<1> QED BY <1>2, <1>3

(* The second one is. *)
LEMMA StepEmptyManagement == ASSUME BrainInv, NEW ok \in BOOLEAN, EmptyManagement(ok) PROVE BrainInv'
<1> USE BrainAssumption, BrainKinds DEF BrainInv, worldVars, fileVars, pastVars, EmptyManagement
<1>1. brain \in BrainEarly BY DEF Early
<1>2. CASE ok
  <2>1. brain' \in BrainEarly /\ brain'.by = brain.by /\ brain'.cycle = brain.cycle /\ brain'.seen = brain.seen
        /\ brain'.at = "clear"
    BY <1>1, <1>2 DEF BrainEarly
  <2>a. FALSE \in BOOLEAN OBVIOUS
  <2>b. Nothing \in Management BY <2>a DEF Nothing, Management
  <2>2. BrainTypeOK' BY <1>2, <2>1, <2>b DEF BrainTypeOK
  <2>3. BrainOK' /\ PendingOK' BY <1>2, <2>1 DEF BrainOK, PendingOK, Early, Framed
  <2>4. FilesOK' BY <1>2, <2>1 DEF FilesOK, Nothing
  <2>5. InstructionOK' BY <1>2 DEF InstructionOK, Nothing, Own
  <2>6. ActsOnItsOwnCycle' /\ CancelsWhatItSaw' BY DEF ActsOnItsOwnCycle, CancelsWhatItSaw
  <2> QED BY <2>2, <2>3, <2>4, <2>5, <2>6
<1>3. CASE ~ok
  <2>1. brain' = Idle /\ Answered(FALSE) BY <1>3
  <2>2. BrainTypeOK' BY <1>3, <2>1, AnsweredTrader DEF BrainTypeOK
  <2>3. BrainOK' /\ PendingOK' BY <2>1, AnsweredTrader DEF BrainOK, PendingOK, Idle, Early, Framed
  <2>4. FilesOK' BY <1>3, <2>1 DEF FilesOK, Idle
  <2>5. InstructionOK' BY <1>3, <2>1, AnsweredTrader DEF InstructionOK, Own
  <2>6. ActsOnItsOwnCycle' /\ CancelsWhatItSaw' BY DEF ActsOnItsOwnCycle, CancelsWhatItSaw
  <2> QED BY <2>2, <2>3, <2>4, <2>5, <2>6
<1> QED BY <1>2, <1>3

(* The steps that disturb no more than one of the parts. *)
LEMMA PlainSteps ==
  ASSUME BrainInv,
         \/ StartByHand \/ FreezeFrame \/ BrainFails \/ AcceptDecisions \/ PublishDecisions \/ AskBrain
         \/ EndTrader \/ ReadManagement \/ ClosePosition \/ SelectOther \/ Tick
  PROVE BrainInv'
<1> USE BrainAssumption, BrainKinds
    DEF BrainInv, BrainTypeOK, BrainOK, PendingOK, FilesOK, InstructionOK, ActsOnItsOwnCycle, CancelsWhatItSaw,
        worldVars, fileVars, pastVars, Selected, BrainEarly, BrainFramed, BrainDecided, TraderBusy, TraderManages,
        Early, Framed, Frame, Management, Idle, Nothing, Own, Current, FailBrain, OpenBrain
<1>1. CASE StartByHand BY <1>1, SMTT(60) DEF StartByHand
<1>2. CASE FreezeFrame BY <1>2, SMTT(60) DEF FreezeFrame
<1>3. CASE BrainFails BY <1>3, SMTT(60) DEF BrainFails
<1>4. CASE AcceptDecisions BY <1>4, SMTT(60) DEF AcceptDecisions
<1>5. CASE PublishDecisions BY <1>5, SMTT(60) DEF PublishDecisions
<1>6. CASE AskBrain BY <1>6, SMTT(60) DEF AskBrain
<1>7. CASE EndTrader BY <1>7, SMTT(60) DEF EndTrader
<1>8. CASE ReadManagement BY <1>8, SMTT(60) DEF ReadManagement
<1>9. CASE ClosePosition BY <1>9, SMTT(60) DEF ClosePosition
<1>10. CASE SelectOther BY <1>10, SMTT(60) DEF SelectOther
<1>11. CASE Tick BY <1>11, SMTT(60) DEF Tick
<1> QED BY <1>1, <1>2, <1>3, <1>4, <1>5, <1>6, <1>7, <1>8, <1>9, <1>10, <1>11

(* A cycle started by hand is killed. *)
LEMMA StepKillByHand == ASSUME BrainInv, KillByHand PROVE BrainInv'
<1> USE BrainAssumption DEF BrainInv, worldVars, pastVars, KillByHand
<1>1. BrainTypeOK' BY DEF BrainTypeOK
<1>2. BrainOK' /\ PendingOK' BY DEF BrainOK, PendingOK, Idle, Early, Framed
<1>3. FilesOK' BY BrainKinds DEF FilesOK, LeftBehind, Idle, Early, Framed
<1>4. InstructionOK' BY DEF InstructionOK, Own
<1>5. ActsOnItsOwnCycle' /\ CancelsWhatItSaw' BY DEF ActsOnItsOwnCycle, CancelsWhatItSaw
<1> QED BY <1>1, <1>2, <1>3, <1>4, <1>5

(* "A failed cycle must not leave partially published instructions available",   *)
(* and the trader carries out only what its own cycle said, of the account and    *)
(* the position that cycle saw: for any number of cycles, rebindings and kills.  *)
THEOREM BrainSafeTheorem == BrainSpec => []BrainSafe
<1>1. BrainInit => BrainInv BY BrainAtFirst
<1>2. BrainInv /\ [BrainNext]_brainVars => BrainInv'
  <2> SUFFICES ASSUME BrainInv, [BrainNext]_brainVars PROVE BrainInv'
    OBVIOUS
  <2>1. CASE UNCHANGED brainVars
    BY <2>1 DEF brainVars, BrainInv, BrainTypeOK, BrainOK, PendingOK, FilesOK, InstructionOK,
       ActsOnItsOwnCycle, CancelsWhatItSaw, Selected
  <2>2. CASE BrainNext
    BY <2>2, PlainSteps, StepReadPending, StepReturnEarly, StepBrainAnswers, StepCancelPending,
       StepPublishManagement, StepReturnDecisions, StepTakeBack, StepBeginTrader, StepRefreshPositions,
       StepKillTrader, StepKillByHand, StepPositionChanges, StepEmptyDecisions, StepEmptyManagement
       DEF BrainNext
  <2> QED BY <2>1, <2>2
<1>3. BrainInv => BrainSafe BY DEF BrainInv, BrainSafe, FilesOK, NothingHalfDone
<1> QED BY <1>1, <1>2, <1>3, PTL DEF BrainSpec

-----------------------------------------------------------------------------
(* The memory of the accounts.                                               *)

(* The first account that is written to has the first version, and it is the     *)
(* only one that the old file was taken over for.                             *)
FirstInv == Unmanaged => versions = <<>>

CycleInv == cycle.at # "idle" => cycle.scope = bound

(* As long as the revision on the page is the one in force, what the page shows  *)
(* is what there is.                                                         *)
PageInv == page # NoPage =>
  LET s == page.scope IN
  meta[s] # NoMemory =>
    /\ page.revision <= meta[s].revision
    /\ page.revision = meta[s].revision =>
         page.text = TextOf(s) /\ {p \in Proposal : proposed[s][p] = "pending"} \subseteq page.pending

Unread == page # NoPage /\ meta[page.scope] = NoMemory => page.revision = 0

Publications(s, p) == {v \in DOMAIN versions : versions[v].scope = s /\ versions[v].of = p}
SettleInv == \A s \in Scope, p \in Proposal :
  IF proposed[s][p] = "published" THEN \E v \in DOMAIN versions : Publications(s, p) = {v}
  ELSE Publications(s, p) = {}

MemoryInv ==
  /\ MemoryTypeOK /\ FirstInv /\ CycleInv /\ PageInv /\ Unread /\ SettleInv
  /\ MemoryHoldsStill /\ PublishedAsSeen /\ ScopesApart

(* What a scope's memory says is a text, whichever way it is looked up. *)
LEMMA TextType == ASSUME MemoryTypeOK, NEW s \in Scope PROVE TextOf(s) \in Text
<1>1. TRUE \in BOOLEAN /\ FALSE \in BOOLEAN /\ {} \in SUBSET Lesson OBVIOUS
<1>2. LegacyText \in Text /\ EmptyText \in Text BY <1>1 DEF LegacyText, EmptyText, Text
<1>3. meta[s] # NoMemory => versions[meta[s].active] \in Version BY DEF MemoryTypeOK
<1>4. meta[s] # NoMemory => versions[meta[s].active].text \in Text BY <1>3 DEF Version
<1> QED BY <1>2, <1>4 DEF TextOf

(* What a write that stages candidates does: the account is taken over if it is   *)
(* new, its text stays, and its revision tells whether anything was staged.      *)
LEMMA Staged ==
  ASSUME MemoryTypeOK, NEW s \in Scope, NEW added \in SUBSET Proposal, Stage(s, added)
  PROVE /\ meta' \in [Scope -> Meta \cup {NoMemory}]
        /\ meta'[s] # NoMemory /\ \A t \in Scope \ {s} : meta'[t] = meta[t]
        /\ proposed' \in [Scope -> [Proposal -> Status]]
        /\ \A t \in Scope \ {s} : proposed'[t] = proposed[t]
        /\ \A p \in Proposal : \/ proposed'[s][p] = proposed[s][p]
                               \/ proposed[s][p] = "none" /\ proposed'[s][p] = "pending"
        /\ \A p \in added : proposed'[s][p] # "none"
        /\ meta[s] # NoMemory =>
             /\ versions' = versions /\ meta'[s].active = meta[s].active
             /\ meta'[s].revision >= meta[s].revision
             /\ meta'[s].revision = meta[s].revision => proposed' = proposed
        /\ meta[s] = NoMemory =>
             /\ versions' = Append(versions, [scope |-> s, text |-> TextOf(s), of |-> NoMemory])
             /\ meta'[s].active = Len(versions) + 1 /\ meta'[s].revision >= 1
<1> USE MemoryAssumption DEF MemoryTypeOK
<1> DEFINE fresh == {p \in added : proposed[s][p] = "none"}
           n == Cardinality(fresh)
<1>1. IsFiniteSet(fresh) BY FS_Subset
<1>2. n \in Nat /\ (n = 0 <=> fresh = {}) BY <1>1, FS_CardinalityType, FS_EmptySet
<1>3. proposed' = [proposed EXCEPT ![s] = [p \in Proposal |-> IF p \in fresh THEN "pending" ELSE @[p]]]
  BY DEF Stage
<1>4. proposed' \in [Scope -> [Proposal -> Status]] BY <1>3 DEF Status
<1>5. \A t \in Scope \ {s} : proposed'[t] = proposed[t] BY <1>3
<1>6. \A p \in Proposal : proposed'[s][p] = IF p \in fresh THEN "pending" ELSE proposed[s][p] BY <1>3
<1>7. fresh = {} => proposed' = proposed BY <1>4, <1>5, <1>6
<1>a. \A p \in Proposal : \/ proposed'[s][p] = proposed[s][p]
                          \/ proposed[s][p] = "none" /\ proposed'[s][p] = "pending"
  BY <1>6
<1>b. \A p \in added : proposed'[s][p] # "none" BY <1>6
<1> HIDE DEF n, fresh
<1>8. meta' = [Bootstrapped(s).meta EXCEPT ![s].revision = @ + n] /\ versions' = Bootstrapped(s).versions
  BY DEF Stage, n, fresh
<1>9. CASE meta[s] # NoMemory
  <2>1. Bootstrapped(s) = [meta |-> meta, versions |-> versions] BY <1>9 DEF Bootstrapped
  <2>2. meta' = [meta EXCEPT ![s].revision = @ + n] /\ versions' = versions BY <1>8, <2>1
  <2>3. meta[s] \in Meta /\ meta'[s] = [meta[s] EXCEPT !.revision = @ + n] BY <1>9, <2>2
  <2>4. meta'[s] \in Meta /\ meta'[s].active = meta[s].active /\ meta'[s].revision = meta[s].revision + n
    BY <2>3, <1>2 DEF Meta
  <2>5. meta[s].revision \in Nat BY <2>3 DEF Meta
  <2>6. meta' \in [Scope -> Meta \cup {NoMemory}] BY <2>2, <2>4
  <2>a. meta'[s] # NoMemory /\ \A t \in Scope \ {s} : meta'[t] = meta[t] BY <2>2, <2>4
  <2>b. meta'[s].revision >= meta[s].revision /\ (meta'[s].revision = meta[s].revision => proposed' = proposed)
    BY <1>2, <1>7, <2>4, <2>5
  <2> QED BY <1>4, <1>5, <2>b, <1>a, <1>b, <1>9, <2>2, <2>4, <2>5, <2>6, <2>a
<1>10. CASE meta[s] = NoMemory
  <2> DEFINE fst == [revision |-> 1, active |-> Len(versions) + 1]
  <2>1. Bootstrapped(s).meta = [meta EXCEPT ![s] = fst]
        /\ Bootstrapped(s).versions = Append(versions, [scope |-> s, text |-> TextOf(s), of |-> NoMemory])
    BY <1>10 DEF Bootstrapped
  <2>2. meta' = [meta EXCEPT ![s] = [fst EXCEPT !.revision = @ + n]] BY <1>8, <2>1
  <2>3. fst \in Meta BY DEF Meta
  <2>4. meta'[s] \in Meta /\ meta'[s].active = Len(versions) + 1 /\ meta'[s].revision = 1 + n
    BY <2>2, <2>3, <1>2 DEF Meta
  <2>5. meta' \in [Scope -> Meta \cup {NoMemory}] BY <2>2, <2>4
  <2>a. meta'[s] # NoMemory /\ \A t \in Scope \ {s} : meta'[t] = meta[t] BY <2>2, <2>4
  <2>b. meta'[s].revision >= 1 BY <1>2, <2>4
  <2> QED BY <1>4, <1>5, <2>b, <1>a, <1>b, <1>8, <1>10, <2>1, <2>4, <2>5, <2>a
<1> QED BY <1>9, <1>10

(* A version that is appended changes nothing of those before. *)
LEMMA Appended ==
  ASSUME versions \in Seq(Version), NEW r \in Version, versions' = Append(versions, r)
  PROVE /\ versions' \in Seq(Version) /\ DOMAIN versions' = DOMAIN versions \cup {Len(versions) + 1}
        /\ Len(versions) + 1 \notin DOMAIN versions
        /\ \A v \in DOMAIN versions : versions'[v] = versions[v]
        /\ versions'[Len(versions) + 1] = r
        /\ \A s, p : Publications(s, p)' = Publications(s, p) \cup
             (IF r.scope = s /\ r.of = p THEN {Len(versions) + 1} ELSE {})
<1>1. versions' \in Seq(Version) /\ DOMAIN versions' = 1 .. Len(versions) + 1 /\ DOMAIN versions = 1 .. Len(versions)
  OBVIOUS
<1>2. \A v \in DOMAIN versions : versions'[v] = versions[v] OBVIOUS
<1>3. versions'[Len(versions) + 1] = r OBVIOUS
<1>4. DOMAIN versions' = DOMAIN versions \cup {Len(versions) + 1} /\ Len(versions) + 1 \notin DOMAIN versions
  BY <1>1
<1>5. ASSUME NEW s, NEW p
      PROVE Publications(s, p)' = Publications(s, p) \cup
              (IF r.scope = s /\ r.of = p THEN {Len(versions) + 1} ELSE {})
  BY <1>2, <1>3, <1>4 DEF Publications
<1> QED BY <1>1, <1>2, <1>3, <1>4, <1>5

(* What becomes of the memory of an account when another one is written to. *)
LEMMA OthersKeep ==
  ASSUME MemoryTypeOK, NEW s \in Scope, meta'[s] # NoMemory,
         NEW t \in Scope, meta'[t] = meta[t],
         \A v \in DOMAIN versions : v \in DOMAIN versions' /\ versions'[v] = versions[v]
  PROVE /\ meta[t] # NoMemory => TextOf(t)' = TextOf(t)
        /\ meta[t] = NoMemory => /\ TextOf(t)' = EmptyText
                                 /\ TextOf(t) = IF Unmanaged THEN LegacyText ELSE EmptyText
<1>1. ~Unmanaged' BY DEF Unmanaged
<1> QED BY <1>1 DEF TextOf, MemoryTypeOK

(* Candidates are staged. *)
LEMMA StageKeeps ==
  ASSUME MemoryInv, NEW s \in Scope, NEW added \in SUBSET Proposal, Stage(s, added),
         UNCHANGED <<bound, page, cycle, unseen>>
  PROVE /\ meta' \in [Scope -> Meta \cup {NoMemory}] /\ versions' \in Seq(Version)
        /\ proposed' \in [Scope -> [Proposal -> Status]]
        /\ \A t \in Scope : meta'[t] # NoMemory =>
             meta'[t].active \in DOMAIN versions' /\ versions'[meta'[t].active].scope = t
        /\ FirstInv' /\ CycleInv' /\ PageInv' /\ Unread' /\ SettleInv' /\ MemoryHoldsStill' /\ PublishedAsSeen'
        /\ \A v, w \in DOMAIN versions' : versions'[v].text.legacy /\ versions'[w].text.legacy
                                           => versions'[v].scope = versions'[w].scope
        /\ \A t \in Scope, p \in Proposal : proposed[t][p] # "none" => proposed'[t][p] # "none"
        /\ \A p \in added : proposed'[s][p] # "none"
<1> USE MemoryAssumption DEF MemoryInv
<1> DEFINE r == [scope |-> s, text |-> TextOf(s), of |-> NoMemory]
<1>1. MemoryTypeOK /\ versions \in Seq(Version) /\ page' = page /\ cycle' = cycle /\ bound' = bound BY DEF MemoryTypeOK
<1>2. r \in Version BY <1>1, TextType DEF Version
<1>3. \/ meta[s] # NoMemory /\ versions' = versions
      \/ meta[s] = NoMemory /\ versions' = Append(versions, r)
  BY <1>1, Staged
<1>4. meta' \in [Scope -> Meta \cup {NoMemory}] /\ proposed' \in [Scope -> [Proposal -> Status]]
      /\ meta'[s] # NoMemory /\ \A t \in Scope \ {s} : meta'[t] = meta[t] /\ proposed'[t] = proposed[t]
  BY <1>1, Staged
<1>5. versions' \in Seq(Version) /\ \A v \in DOMAIN versions : v \in DOMAIN versions' /\ versions'[v] = versions[v]
  BY <1>1, <1>2, <1>3, Appended
<1>6. ASSUME NEW t \in Scope, meta'[t] # NoMemory
      PROVE meta'[t].active \in DOMAIN versions' /\ versions'[meta'[t].active].scope = t
  <2>1. CASE meta[t] # NoMemory
    <3>1. meta'[t].active = meta[t].active BY <1>1, <1>4, <2>1, Staged
    <3> QED BY <3>1, <2>1, <1>5 DEF MemoryTypeOK
  <2>2. CASE meta[t] = NoMemory
    <3>1. t = s BY <1>4, <1>6, <2>2
    <3>2. meta'[s].active = Len(versions) + 1 /\ versions' = Append(versions, r) BY <2>2, <3>1, <1>1, <1>3, Staged
    <3>3. Len(versions) + 1 \in DOMAIN versions' /\ versions'[Len(versions) + 1] = r BY <3>2, <1>1, <1>2, Appended
    <3> QED BY <3>1, <3>2, <3>3
  <2> QED BY <2>1, <2>2
<1>7. TextOf(s)' = TextOf(s)
  <2>1. CASE meta[s] # NoMemory
    <3>1. meta'[s].active = meta[s].active BY <1>1, <2>1, Staged
    <3> QED BY <3>1, <2>1, <1>4, <1>5 DEF TextOf, MemoryTypeOK
  <2>2. CASE meta[s] = NoMemory
    <3>1. meta'[s].active = Len(versions) + 1 /\ versions' = Append(versions, r) BY <2>2, <1>1, <1>3, Staged
    <3>2. versions'[Len(versions) + 1] = r BY <3>1, <1>1, <1>2, Appended
    <3> QED BY <3>1, <3>2, <1>4 DEF TextOf
  <2> QED BY <2>1, <2>2
<1>8. \A t \in Scope \ {s} :
        /\ meta[t] # NoMemory => TextOf(t)' = TextOf(t)
        /\ meta[t] = NoMemory => /\ TextOf(t)' = EmptyText
                                 /\ TextOf(t) = IF Unmanaged THEN LegacyText ELSE EmptyText
  BY <1>1, <1>4, <1>5, OthersKeep
<1>9. FirstInv' BY <1>4 DEF FirstInv, Unmanaged
<1>10. CycleInv' /\ PublishedAsSeen' BY DEF CycleInv, PublishedAsSeen
<1>11. PageInv' /\ Unread'
  <2> SUFFICES ASSUME page # NoPage PROVE PageInv' /\ Unread'
    BY <1>1 DEF PageInv, Unread
  <2> DEFINE t == page.scope
  <2>1. t \in Scope /\ page.revision \in Nat BY DEF MemoryTypeOK
  <2>2. CASE t # s
    <3>1. meta'[t] = meta[t] /\ proposed'[t] = proposed[t] BY <2>1, <2>2, <1>4
    <3>2. meta[t] # NoMemory => TextOf(t)' = TextOf(t) BY <2>1, <2>2, <1>8
    <3> QED BY <3>1, <3>2, <1>1 DEF PageInv, Unread
  <2>3. CASE t = s /\ meta[s] # NoMemory
    <3>1. /\ meta'[s].revision >= meta[s].revision
          /\ meta'[s].revision = meta[s].revision => proposed' = proposed
      BY <2>3, <1>1, Staged
    <3>2. meta[s].revision \in Nat /\ meta'[s].revision \in Nat BY <2>3, <1>4 DEF Meta, MemoryTypeOK
    <3>3. page.revision <= meta[s].revision BY <2>3 DEF PageInv
    <3>4. page.revision <= meta'[s].revision BY <3>1, <3>2, <3>3, <2>1
    <3>5. page.revision = meta'[s].revision => page.revision = meta[s].revision /\ meta'[s].revision = meta[s].revision
      BY <3>1, <3>2, <3>3, <2>1
    <3>6. page.revision = meta'[s].revision =>
            page.text = TextOf(s)' /\ {p \in Proposal : proposed'[s][p] = "pending"} \subseteq page.pending
      BY <3>5, <3>1, <2>3, <1>7 DEF PageInv
    <3> QED BY <3>4, <3>6, <2>3, <1>1, <1>4 DEF PageInv, Unread
  <2>4. CASE t = s /\ meta[s] = NoMemory
    <3>1. page.revision = 0 BY <2>4 DEF Unread
    <3>2. meta'[s].revision >= 1 BY <2>4, <1>1, Staged
    <3>3. meta'[s].revision \in Nat BY <1>4 DEF Meta
    <3> QED BY <3>1, <3>2, <3>3, <2>4, <1>1, <1>4 DEF PageInv, Unread
  <2> QED BY <2>2, <2>3, <2>4
<1>12. SettleInv'
  <2> SUFFICES ASSUME NEW t \in Scope, NEW p \in Proposal
               PROVE IF proposed'[t][p] = "published" THEN \E v \in DOMAIN versions' : Publications(t, p)' = {v}
                     ELSE Publications(t, p)' = {}
    BY DEF SettleInv
  <2>1. Publications(t, p)' = Publications(t, p)
    <3>1. CASE versions' = versions BY <3>1 DEF Publications
    <3>2. CASE versions' = Append(versions, r)
      <4>1. r.of # p OBVIOUS
      <4>2. Publications(t, p)' = Publications(t, p) \cup
              (IF r.scope = t /\ r.of = p THEN {Len(versions) + 1} ELSE {})
        BY <3>2, <1>1, <1>2, Appended
      <4> QED BY <4>1, <4>2
    <3> QED BY <3>1, <3>2, <1>3
  <2>2. proposed'[t][p] = "published" <=> proposed[t][p] = "published" BY <1>1, <1>4, Staged
  <2> QED BY <2>1, <2>2, <1>5 DEF SettleInv
<1>13. MemoryHoldsStill'
  <2> SUFFICES ASSUME cycle.at \in {"deciding", "entering"}
               PROVE (cycle.text = TextOf(cycle.scope) \/ (cycle.text = LegacyText /\ LostOldFile(cycle.scope)))'
    BY <1>1 DEF MemoryHoldsStill
  <2>1. cycle.scope \in Scope BY DEF MemoryTypeOK
  <2>2. cycle.text = TextOf(cycle.scope) \/ (cycle.text = LegacyText /\ LostOldFile(cycle.scope))
    BY DEF MemoryHoldsStill
  <2>3. versions # <<>> => versions' # <<>> /\ versions'[1] = versions[1] BY <1>1, <1>5
  <2>4. CASE cycle.scope = s BY <2>2, <2>3, <2>4, <1>7, <1>1 DEF LostOldFile, LegacyText, EmptyText
  <2>5. CASE cycle.scope # s
    <3>1. CASE ~Unmanaged \/ meta[cycle.scope] # NoMemory
      <4>1. TextOf(cycle.scope)' = TextOf(cycle.scope) BY <2>1, <2>5, <3>1, <1>8
      <4> QED BY <4>1, <2>2, <2>3, <1>1 DEF LostOldFile
    <3>2. CASE Unmanaged /\ meta[cycle.scope] = NoMemory
      <4>1. versions = <<>> /\ meta[s] = NoMemory BY <3>2 DEF FirstInv, Unmanaged
      <4>2. cycle.text = LegacyText BY <4>1, <2>1, <2>2, <2>5, <3>2, <1>8 DEF LostOldFile
      <4>3. versions' = Append(versions, r) BY <4>1, <1>3
      <4>4. versions' # <<>> /\ versions'[1].scope = s BY <4>1, <4>3
      <4>5. TextOf(cycle.scope)' = EmptyText BY <2>1, <2>5, <3>2, <1>8
      <4> QED BY <4>2, <4>4, <4>5, <2>5, <1>1 DEF LostOldFile
    <3> QED BY <3>1, <3>2
  <2> QED BY <2>4, <2>5
<1>14. \A v, w \in DOMAIN versions' : versions'[v].text.legacy /\ versions'[w].text.legacy
                                       => versions'[v].scope = versions'[w].scope
  <2>1. CASE versions' = versions BY <2>1 DEF ScopesApart
  <2>2. CASE meta[s] = NoMemory /\ versions' = Append(versions, r)
    <3>1. CASE Unmanaged
      <4>1. versions = <<>> BY <3>1 DEF FirstInv
      <4>2. DOMAIN versions' = {1} BY <4>1, <2>2
      <4> QED BY <4>2
    <3>2. CASE ~Unmanaged
      <4>1. ~r.text.legacy BY <2>2, <3>2 DEF TextOf, EmptyText
      <4>2. \A v \in DOMAIN versions' : versions'[v].text.legacy => v \in DOMAIN versions /\ versions'[v] = versions[v]
        BY <4>1, <2>2, <1>1, <1>2, Appended
      <4> QED BY <4>2 DEF ScopesApart
    <3> QED BY <3>1, <3>2
  <2> QED BY <2>1, <2>2, <1>3
<1>15. /\ \A t \in Scope, p \in Proposal : proposed[t][p] # "none" => proposed'[t][p] # "none"
       /\ \A p \in added : proposed'[s][p] # "none"
  BY <1>1, <1>4, Staged
<1> QED BY <1>4, <1>5, <1>6, <1>9, <1>10, <1>11, <1>12, <1>13, <1>14, <1>15

(* A version is added to what the administrator saw. *)
LEMMA VersionKeeps ==
  ASSUME MemoryInv, NEW s \in Scope, NEW text \in Text, NEW of \in Proposal \cup {NoMemory}, NEW asSeen \in BOOLEAN,
         page # NoPage, page.scope = s, Unchanged(s), NewVersion(s, text, of, asSeen),
         cycle.at = "idle", review.at = "idle", UNCHANGED <<bound, page, cycle, review>>,
         text.legacy => \E v \in DOMAIN versions : versions[v].scope = s /\ versions[v].text.legacy,
         IF of = NoMemory THEN asSeen /\ proposed' = proposed
         ELSE /\ proposed[s][of] = "pending" /\ asSeen = (of \in page.pending)
              /\ proposed' = [proposed EXCEPT ![s][of] = "published"]
  PROVE MemoryInv'
<1> USE MemoryAssumption DEF MemoryInv
<1> DEFINE r == [scope |-> s, text |-> text, of |-> of]
           n == Len(versions) + 1
<1>1. MemoryTypeOK /\ versions \in Seq(Version) /\ page' = page /\ cycle' = cycle /\ bound' = bound BY DEF MemoryTypeOK
<1>2. r \in Version BY DEF Version
<1>3. versions' = Append(versions, r) BY DEF NewVersion
<1>4. /\ versions' \in Seq(Version) /\ DOMAIN versions' = DOMAIN versions \cup {n} /\ n \notin DOMAIN versions
      /\ \A v \in DOMAIN versions : versions'[v] = versions[v]
      /\ versions'[n] = r
      /\ \A t, p : Publications(t, p)' = Publications(t, p) \cup
           (IF r.scope = t /\ r.of = p THEN {n} ELSE {})
  BY <1>1, <1>2, <1>3, Appended
<1>5. meta[s] \in Meta /\ meta[s] # NoMemory /\ meta[s].revision = page.revision /\ meta[s].revision >= 1
  BY DEF Unchanged, MemoryTypeOK, PageInv, Meta
<1>6. meta' = [meta EXCEPT ![s] = [revision |-> @.revision + 1, active |-> n]] BY DEF NewVersion
<1>7. meta'[s] = [revision |-> meta[s].revision + 1, active |-> n] /\ \A t \in Scope \ {s} : meta'[t] = meta[t]
  BY <1>6 DEF MemoryTypeOK
<1>8. meta'[s] \in Meta /\ meta'[s] # NoMemory
  <2>1. n \in Nat /\ meta[s].revision + 1 \in Nat \ {0} BY <1>1, <1>5 DEF Meta
  <2> QED BY <2>1, <1>7 DEF Meta
<1>9. meta' \in [Scope -> Meta \cup {NoMemory}] BY <1>6, <1>7, <1>8 DEF MemoryTypeOK
<1>10. proposed' \in [Scope -> [Proposal -> Status]]
  <2>1. CASE of = NoMemory BY <2>1 DEF MemoryTypeOK
  <2>2. CASE of # NoMemory
    <3>1. of \in Proposal /\ "published" \in Status BY <2>2 DEF Status
    <3>2. proposed' = [proposed EXCEPT ![s][of] = "published"] BY <2>2
    <3> QED BY <3>1, <3>2 DEF MemoryTypeOK
  <2> QED BY <2>1, <2>2
<1>11. MemoryTypeOK'
  <2>1. ASSUME NEW t \in Scope, meta'[t] # NoMemory
        PROVE meta'[t].active \in DOMAIN versions' /\ versions'[meta'[t].active].scope = t
    <3>1. CASE t = s BY <3>1, <1>4, <1>7
    <3>2. CASE t # s BY <3>2, <2>1, <1>4, <1>7 DEF MemoryTypeOK
    <3> QED BY <3>1, <3>2
  <2> QED BY <2>1, <1>4, <1>9, <1>10 DEF MemoryTypeOK
<1>12. FirstInv' BY <1>8 DEF FirstInv, Unmanaged
<1>13. CycleInv' /\ MemoryHoldsStill' BY DEF CycleInv, MemoryHoldsStill
<1>14. PageInv' /\ Unread'
  <2>1. page.revision \in Nat /\ meta'[s].revision = page.revision + 1 BY <1>5, <1>7 DEF Meta
  <2> QED BY <2>1, <1>1, <1>5, <1>8 DEF PageInv, Unread
<1>15. SettleInv'
  <2> SUFFICES ASSUME NEW t \in Scope, NEW p \in Proposal
               PROVE IF proposed'[t][p] = "published" THEN \E v \in DOMAIN versions' : Publications(t, p)' = {v}
                     ELSE Publications(t, p)' = {}
    BY DEF SettleInv
  <2>1. Publications(t, p)' = Publications(t, p) \cup (IF r.scope = t /\ r.of = p THEN {n} ELSE {}) BY <1>4
  <2>2. CASE t = s /\ p = of
    <3>1. proposed[s][of] = "pending" /\ proposed'[s][of] = "published" BY <2>2 DEF MemoryTypeOK
    <3>2. Publications(t, p) = {} BY <2>2, <3>1 DEF SettleInv
    <3> QED BY <2>1, <2>2, <3>1, <3>2, <1>4
  <2>3. CASE ~(t = s /\ p = of)
    <3>1. Publications(t, p)' = Publications(t, p) BY <2>1, <2>3
    <3>2. proposed'[t][p] = proposed[t][p]
      <4>1. CASE of = NoMemory BY <4>1
      <4>2. CASE of # NoMemory BY <4>2, <2>3 DEF MemoryTypeOK
      <4> QED BY <4>1, <4>2
    <3> QED BY <3>1, <3>2, <1>4 DEF SettleInv
  <2> QED BY <2>2, <2>3
<1>16. PublishedAsSeen'
  <2>1. page.text = TextOf(s) /\ {p \in Proposal : proposed[s][p] = "pending"} \subseteq page.pending
    BY <1>5 DEF PageInv
  <2>2. asSeen
    <3>1. CASE of = NoMemory BY <3>1
    <3>2. CASE of # NoMemory BY <3>2, <2>1
    <3> QED BY <3>1, <3>2
  <2> QED BY <2>1, <2>2 DEF NewVersion, PublishedAsSeen
<1>17. ScopesApart'
  <2>1. ASSUME NEW v \in DOMAIN versions', versions'[v].text.legacy
        PROVE \E w \in DOMAIN versions : versions[w].text.legacy /\ versions[w].scope = versions'[v].scope
    <3>1. CASE v \in DOMAIN versions BY <3>1, <2>1, <1>4
    <3>2. CASE v = n BY <3>2, <2>1, <1>4
    <3> QED BY <3>1, <3>2, <1>4
  <2>2. \A v, w \in DOMAIN versions' : versions'[v].text.legacy /\ versions'[w].text.legacy
                                       => versions'[v].scope = versions'[w].scope
    BY <2>1 DEF ScopesApart
  <2> QED BY <2>2 DEF ScopesApart
<1> QED BY <1>11, <1>12, <1>13, <1>14, <1>15, <1>16, <1>17

(* The administrator publishes, rejects or rolls back. *)
LEMMA AdministratorDecides ==
  ASSUME MemoryInv,
         \/ \E p \in Proposal : Publish(p) \/ Reject(p)
         \/ \E v \in 1 .. MaxVersions : Rollback(v)
  PROVE MemoryInv'
<1> USE MemoryAssumption DEF MemoryInv
<1>0. bound \in Scope /\ MemoryTypeOK BY DEF MemoryTypeOK
<1>a. meta[bound] # NoMemory =>
        /\ TextOf(bound) \in Text
        /\ TextOf(bound).legacy => \E v \in DOMAIN versions : versions[v].scope = bound /\ versions[v].text.legacy
  BY <1>0, TextType DEF TextOf, MemoryTypeOK
<1>1. ASSUME NEW p \in Proposal, Publish(p) PROVE MemoryInv'
  <2> USE <1>1 DEF Publish, Acting, GateOpen
  <2>1. meta[bound] # NoMemory BY DEF Unchanged
  <2>2. Applied(TextOf(bound), p) \in Text
    <3>1. p.lesson \in Lesson OBVIOUS
    <3>2. TextOf(bound) \in Text BY <2>1, <1>a
    <3>3. TextOf(bound).legacy \in BOOLEAN /\ TextOf(bound).rules \in SUBSET Lesson BY <3>2 DEF Text
    <3>4. Applied(TextOf(bound), p).rules \in SUBSET Lesson BY <3>1, <3>3 DEF Applied
    <3>5. Applied(TextOf(bound), p).legacy \in BOOLEAN BY <3>3 DEF Applied
    <3> QED BY <3>4, <3>5 DEF Applied, Text
  <2>3. Applied(TextOf(bound), p).legacy => TextOf(bound).legacy BY DEF Applied
  <2>4. p # NoMemory OBVIOUS
  <2>5. (p \in page.pending) \in BOOLEAN OBVIOUS
  <2> QED BY <1>0, <1>a, <2>1, <2>2, <2>3, <2>4, <2>5, VersionKeeps
<1>2. ASSUME NEW v \in 1 .. MaxVersions, Rollback(v) PROVE MemoryInv'
  <2> USE <1>2 DEF Rollback, Acting, GateOpen
  <2>1. versions[v] \in Version BY DEF MemoryTypeOK
  <2>2. versions[v].text \in Text /\ TRUE \in BOOLEAN BY <2>1 DEF Version
  <2> QED BY <1>0, <2>2, VersionKeeps
<1>3. ASSUME NEW p \in Proposal, Reject(p) PROVE MemoryInv'
  <2> USE <1>3 DEF Reject, Acting
  <2>1. meta[bound] \in Meta /\ meta[bound] # NoMemory /\ page.revision = meta[bound].revision
        /\ meta[bound].revision >= 1
    BY <1>0 DEF Unchanged, MemoryTypeOK, PageInv, Meta
  <2>2. meta' = [meta EXCEPT ![bound].revision = @ + 1] OBVIOUS
  <2>3. meta'[bound] \in Meta /\ meta'[bound].revision = meta[bound].revision + 1
        /\ meta'[bound].active = meta[bound].active /\ \A t \in Scope \ {bound} : meta'[t] = meta[t]
    BY <1>0, <2>1, <2>2 DEF Meta, MemoryTypeOK
  <2>4. meta' \in [Scope -> Meta \cup {NoMemory}] /\ meta'[bound] # NoMemory BY <2>2, <2>3 DEF MemoryTypeOK
  <2>5. \A t \in Scope : (meta'[t] = NoMemory <=> meta[t] = NoMemory) /\ (meta[t] # NoMemory => meta'[t].active = meta[t].active)
    BY <2>1, <2>3, <2>4
  <2>6. Unmanaged' <=> Unmanaged BY <2>5 DEF Unmanaged
  <2>7. \A t \in Scope : TextOf(t)' = TextOf(t) BY <2>5, <2>6 DEF TextOf
  <2>8. proposed' \in [Scope -> [Proposal -> Status]] BY DEF MemoryTypeOK, Status
  <2>9. MemoryTypeOK' BY <2>4, <2>5, <2>8 DEF MemoryTypeOK
  <2>10. FirstInv' /\ CycleInv' /\ PublishedAsSeen' BY <2>6 DEF FirstInv, CycleInv, PublishedAsSeen
  <2>11. PageInv' /\ Unread'
    <3>1. page.revision \in Nat /\ meta'[bound].revision = page.revision + 1 BY <2>1, <2>3 DEF Meta
    <3> QED BY <3>1, <2>1, <2>4 DEF PageInv, Unread
  <2>12. SettleInv'
    <3>1. \A t \in Scope, q \in Proposal : Publications(t, q)' = Publications(t, q) BY DEF Publications
    <3>2. \A t \in Scope, q \in Proposal : proposed'[t][q] = "published" <=> proposed[t][q] = "published"
      BY <1>0 DEF MemoryTypeOK
    <3> QED BY <3>1, <3>2 DEF SettleInv
  <2>13. MemoryHoldsStill' BY <1>0, <2>7 DEF MemoryHoldsStill, LostOldFile, MemoryTypeOK
  <2>14. ScopesApart'
    <3>1. \A t \in Scope, q \in Proposal : proposed[t][q] # "none" => proposed'[t][q] # "none"
      BY <1>0 DEF MemoryTypeOK
    <3> QED BY <3>1 DEF ScopesApart, MemoryTypeOK
  <2> QED BY <2>9, <2>10, <2>11, <2>12, <2>13, <2>14
<1> QED BY <1>1, <1>2, <1>3

(* Candidates are staged by the administrator, or by a review that has its       *)
(* transaction.                                                              *)
LEMMA CandidatesStaged ==
  ASSUME MemoryInv, CommitCandidates \/ Initialize \/ \E p \in Proposal : Propose(p)
  PROVE MemoryInv'
<1> USE MemoryAssumption DEF MemoryInv
<1>1. PICK s \in Scope, added \in SUBSET Proposal :
        /\ Stage(s, added)
        /\ UNCHANGED <<bound, page, cycle, unseen>>
        /\ \/ UNCHANGED review
           \/ /\ review.at = "transaction" /\ review.scope = s /\ review.proposals = added
              /\ review' = [review EXCEPT !.at = "staged"]
  <2>1. CASE CommitCandidates
    <3>1. review.scope \in Scope /\ review.proposals \in SUBSET Proposal BY <2>1 DEF CommitCandidates, MemoryTypeOK
    <3> QED BY <2>1, <3>1 DEF CommitCandidates
  <2>2. CASE Initialize
    <3>1. bound \in Scope /\ {} \in SUBSET Proposal BY DEF MemoryTypeOK
    <3> QED BY <2>2, <3>1 DEF Initialize
  <2>3. ASSUME NEW p \in Proposal, Propose(p)
        PROVE \E s \in Scope, added \in SUBSET Proposal :
                Stage(s, added) /\ UNCHANGED <<bound, page, cycle, unseen>> /\ UNCHANGED review
    <3>1. bound \in Scope /\ {p} \in SUBSET Proposal BY DEF MemoryTypeOK
    <3> QED BY <2>3, <3>1 DEF Propose
  <2> QED BY <2>1, <2>2, <2>3
<1>2. /\ meta' \in [Scope -> Meta \cup {NoMemory}] /\ versions' \in Seq(Version)
      /\ proposed' \in [Scope -> [Proposal -> Status]]
      /\ \A t \in Scope : meta'[t] # NoMemory =>
           meta'[t].active \in DOMAIN versions' /\ versions'[meta'[t].active].scope = t
      /\ FirstInv' /\ CycleInv' /\ PageInv' /\ Unread' /\ SettleInv' /\ MemoryHoldsStill' /\ PublishedAsSeen'
      /\ \A v, w \in DOMAIN versions' : versions'[v].text.legacy /\ versions'[w].text.legacy
                                         => versions'[v].scope = versions'[w].scope
      /\ \A t \in Scope, p \in Proposal : proposed[t][p] # "none" => proposed'[t][p] # "none"
      /\ \A p \in added : proposed'[s][p] # "none"
  BY <1>1, StageKeeps
<1> DEFINE Busy == [at : {"asking", "staging", "transaction", "staged"}, scope : Scope, proposals : SUBSET Proposal]
<1>3. review' \in [at : {"idle"}] \cup Busy
  <2>1. CASE UNCHANGED review BY <2>1 DEF MemoryTypeOK
  <2>2. CASE review.at = "transaction" /\ review' = [review EXCEPT !.at = "staged"]
    <3>1. review \in Busy BY <2>2 DEF MemoryTypeOK
    <3>2. review' \in Busy BY <2>2, <3>1
    <3> QED BY <3>2
  <2> QED BY <2>1, <2>2, <1>1
<1>4. MemoryTypeOK' BY <1>1, <1>2, <1>3 DEF MemoryTypeOK
<1>5. review'.at = "staged" => \A p \in review'.proposals : proposed'[review'.scope][p] # "none"
  <2>1. CASE UNCHANGED review
    <3>1. review.at = "staged" => review.scope \in Scope /\ review.proposals \in SUBSET Proposal BY DEF MemoryTypeOK
    <3> QED BY <2>1, <3>1, <1>2 DEF ScopesApart
  <2>2. CASE /\ review.at = "transaction" /\ review.scope = s /\ review.proposals = added
             /\ review' = [review EXCEPT !.at = "staged"]
    <3>1. review \in Busy BY <2>2 DEF MemoryTypeOK
    <3>2. review'.scope = s /\ review'.proposals = added BY <2>2, <3>1
    <3> QED BY <3>2, <1>2
  <2> QED BY <2>1, <2>2, <1>1
<1>6. ScopesApart' BY <1>2, <1>5 DEF ScopesApart
<1> QED BY <1>2, <1>4, <1>6

(* The registry rests: the trader's cycle, the review but for its transaction,    *)
(* the account and the page.                                                 *)
LEMMA RegistryRests ==
  ASSUME MemoryInv, UNCHANGED <<meta, versions, proposed, unseen>>,
         MemoryTypeOK', CycleInv', PageInv', Unread', MemoryHoldsStill',
         review' = review \/ review'.at # "staged" \/ (review'.at = "staged" /\ review'.proposals = {})
  PROVE MemoryInv'
<1> USE DEF MemoryInv
<1>1. FirstInv' /\ PublishedAsSeen' BY DEF FirstInv, PublishedAsSeen, Unmanaged
<1>2. SettleInv' BY DEF SettleInv, Publications
<1>3. ScopesApart' BY DEF ScopesApart
<1> QED BY <1>1, <1>2, <1>3

(* A step that touches neither registry nor versions changes no text. *)
LEMMA TextRests == UNCHANGED <<meta, versions>> => \A s : TextOf(s)' = TextOf(s) /\ LostOldFile(s)' = LostOldFile(s)
BY DEF TextOf, LostOldFile, Unmanaged

(* The trader's cycle, and what waits for it. *)
LEMMA CycleSteps ==
  ASSUME MemoryInv,
         BeginCycle \/ ReadMemory \/ EnterWithMemory \/ EntrySent \/ EndCycle \/ \E s \in Scope : SwitchAccount(s)
  PROVE MemoryInv'
<1> USE DEF MemoryInv
<1> DEFINE Begun == [at : {"begun"}, scope : Scope]
           Deciding == [at : {"deciding", "entering"}, scope : Scope, text : Text]
<1>1. UNCHANGED <<meta, versions, proposed, page, review, unseen>>
  BY DEF BeginCycle, ReadMemory, EnterWithMemory, EntrySent, EndCycle, SwitchAccount
<1>2. \A s : TextOf(s)' = TextOf(s) /\ LostOldFile(s)' = LostOldFile(s) BY <1>1, TextRests
<1>3. PageInv' /\ Unread' BY <1>1, <1>2 DEF PageInv, Unread
<1>4. bound \in Scope BY DEF MemoryTypeOK
<1>5. MemoryTypeOK' /\ CycleInv' /\ MemoryHoldsStill'
  <2>1. CASE BeginCycle
    <3>1. cycle' \in Begun /\ bound' = bound BY <2>1, <1>4 DEF BeginCycle
    <3> QED BY <2>1, <3>1, <1>1 DEF BeginCycle, MemoryTypeOK, CycleInv, MemoryHoldsStill
  <2>2. CASE ReadMemory
    <3>1. cycle \in Begun /\ cycle.scope \in Scope BY <2>2 DEF ReadMemory, MemoryTypeOK
    <3>2. TextOf(cycle.scope) \in Text BY <3>1, TextType
    <3>3. cycle' \in Deciding /\ cycle'.scope = cycle.scope /\ cycle'.text = TextOf(cycle.scope) /\ bound' = bound
      BY <2>2, <3>1, <3>2 DEF ReadMemory
    <3>4. MemoryTypeOK' BY <3>3, <1>1 DEF MemoryTypeOK
    <3>5. CycleInv' /\ MemoryHoldsStill' BY <2>2, <3>3, <1>2 DEF ReadMemory, CycleInv, MemoryHoldsStill
    <3> QED BY <3>4, <3>5
  <2>3. CASE EnterWithMemory \/ EntrySent
    <3>1. cycle \in Deciding BY <2>3 DEF EnterWithMemory, EntrySent, MemoryTypeOK
    <3>2. cycle' \in Deciding /\ cycle'.scope = cycle.scope /\ cycle'.text = cycle.text /\ bound' = bound
      BY <2>3, <3>1 DEF EnterWithMemory, EntrySent
    <3>3. MemoryTypeOK' BY <3>2, <1>1 DEF MemoryTypeOK
    <3>4. CycleInv' /\ MemoryHoldsStill' BY <3>1, <3>2, <1>2 DEF CycleInv, MemoryHoldsStill
    <3> QED BY <3>3, <3>4
  <2>4. CASE EndCycle BY <2>4, <1>1 DEF EndCycle, MemoryTypeOK, CycleInv, MemoryHoldsStill
  <2>5. ASSUME NEW s \in Scope, SwitchAccount(s) PROVE MemoryTypeOK' /\ CycleInv' /\ MemoryHoldsStill'
    BY <2>5 DEF SwitchAccount, MemoryTypeOK, CycleInv, MemoryHoldsStill
  <2> QED BY <2>1, <2>2, <2>3, <2>4, <2>5
<1> QED BY <1>1, <1>3, <1>5, RegistryRests

(* The review outside its transaction, and what the administrator looks at. *)
LEMMA ReviewSteps ==
  ASSUME MemoryInv,
         \/ LoadSources \/ OpenRegistry \/ WriteReport \/ ReviewFails \/ LookAtMemory \/ TradeCloses
         \/ \E added \in SUBSET Automatic : ModelReviews(added)
  PROVE MemoryInv'
<1> USE DEF MemoryInv
<1> DEFINE Busy == [at : {"asking", "staging", "transaction", "staged"}, scope : Scope, proposals : SUBSET Proposal]
           Page == [scope : Scope, revision : Nat, text : Text, complete : BOOLEAN, pending : SUBSET Proposal]
<1>1. UNCHANGED <<bound, meta, versions, proposed, cycle, unseen>>
  BY DEF LoadSources, OpenRegistry, WriteReport, ReviewFails, LookAtMemory, TradeCloses, ModelReviews
<1>2. \A s : TextOf(s)' = TextOf(s) /\ LostOldFile(s)' = LostOldFile(s) BY <1>1, TextRests
<1>3. bound \in Scope BY DEF MemoryTypeOK
<1> DEFINE Fits == \/ review' = review \/ review' = [at |-> "idle"]
                   \/ review' \in Busy /\ (review'.at = "staged" => review'.proposals = {})
<1>4. Fits
  <2>1. CASE LoadSources
    <3>1. {} \in SUBSET Proposal OBVIOUS
    <3> QED BY <2>1, <3>1, <1>3 DEF LoadSources
  <2>2. ASSUME NEW added \in SUBSET Automatic, ModelReviews(added)
        PROVE Fits
    <3>1. review \in Busy BY <2>2 DEF ModelReviews, MemoryTypeOK
    <3>2. added \in SUBSET Proposal BY DEF Automatic
    <3>3. CASE review' = [review EXCEPT !.at = IF added = {} THEN "staged" ELSE "staging", !.proposals = added]
      <4>1. review' \in Busy /\ review'.proposals = added /\ (review'.at = "staged" => added = {})
        BY <3>1, <3>2, <3>3
      <4> QED BY <4>1
    <3>4. CASE ReviewEnds BY <3>4 DEF ReviewEnds
    <3> QED BY <2>2, <3>3, <3>4 DEF ModelReviews
  <2>3. CASE OpenRegistry
    <3>1. review \in Busy BY <2>3 DEF OpenRegistry, MemoryTypeOK
    <3>2. CASE review' = [review EXCEPT !.at = "transaction"] BY <3>1, <3>2
    <3>3. CASE ReviewEnds BY <3>3 DEF ReviewEnds
    <3> QED BY <2>3, <3>2, <3>3 DEF OpenRegistry
  <2>4. CASE WriteReport \/ ReviewFails BY <2>4 DEF WriteReport, ReviewFails, ReviewEnds
  <2>5. LookAtMemory \/ TradeCloses => Fits BY DEF LookAtMemory, TradeCloses
  <2> HIDE DEF Fits
  <2> QED BY <2>1, <2>2, <2>3, <2>4, <2>5
<1>5. page' \in Page \cup {NoPage} /\ PageInv' /\ Unread'
  <2>1. CASE UNCHANGED page BY <2>1, <1>1, <1>2 DEF MemoryTypeOK, PageInv, Unread
  <2>2. CASE LookAtMemory
    <3> DEFINE rev == IF meta[bound] = NoMemory THEN 0 ELSE meta[bound].revision
               open == {p \in Proposal : proposed[bound][p] = "pending"}
    <3>1. page' = [scope |-> bound, revision |-> rev, text |-> TextOf(bound), complete |-> TRUE, pending |-> open]
      BY <2>2 DEF LookAtMemory
    <3>2. rev \in Nat /\ open \in SUBSET Proposal /\ TextOf(bound) \in Text /\ TRUE \in BOOLEAN
      BY <1>3, TextType DEF MemoryTypeOK, Meta
    <3>3. page' \in Page BY <3>1, <3>2, <1>3
    <3>4. meta[bound] # NoMemory => rev >= 1 BY <1>3 DEF MemoryTypeOK, Meta
    <3> QED BY <3>1, <3>2, <3>3, <3>4, <1>1, <1>2, <1>3 DEF PageInv, Unread
  <2>3. CASE TradeCloses
    <3>1. page \in Page BY <2>3 DEF TradeCloses, MemoryTypeOK
    <3>2. page' \in Page /\ page'.scope = page.scope /\ page'.revision = page.revision /\ page'.text = page.text
          /\ page'.pending = page.pending
      BY <2>3, <3>1 DEF TradeCloses
    <3>3. page # NoPage BY <2>3 DEF TradeCloses
    <3> QED BY <3>2, <3>3, <1>1, <1>2 DEF PageInv, Unread
  <2> QED BY <2>1, <2>2, <2>3 DEF LoadSources, OpenRegistry, WriteReport, ReviewFails, ModelReviews
<1>6. MemoryTypeOK' BY <1>1, <1>4, <1>5 DEF MemoryTypeOK
<1>7. CycleInv' /\ MemoryHoldsStill' BY <1>1, <1>2 DEF CycleInv, MemoryHoldsStill
<1> QED BY <1>1, <1>4, <1>5, <1>6, <1>7, RegistryRests

(* At first nothing is managed, published or under way. *)
LEMMA MemoryAtFirst == MemoryInit => MemoryInv
<1> SUFFICES ASSUME MemoryInit PROVE MemoryInv
  OBVIOUS
<1> USE DEF MemoryInit
<1>1. versions \in Seq(Version) /\ DOMAIN versions = {} OBVIOUS
<1>2. proposed \in [Scope -> [Proposal -> Status]] BY DEF Status
<1>3. MemoryTypeOK BY <1>1, <1>2 DEF MemoryTypeOK
<1>4. FirstInv /\ CycleInv /\ PageInv /\ Unread BY DEF FirstInv, CycleInv, PageInv, Unread
<1>5. SettleInv BY <1>1 DEF SettleInv, Publications
<1>6. MemoryHoldsStill /\ PublishedAsSeen /\ ScopesApart BY <1>1 DEF MemoryHoldsStill, PublishedAsSeen, ScopesApart
<1> QED BY <1>3, <1>4, <1>5, <1>6 DEF MemoryInv

(* A candidate is published by one version, or by none. *)
LEMMA SettledOnce == MemoryInv => CandidatesSettleOnce
<1> SUFFICES ASSUME MemoryInv, NEW s \in Scope, NEW p \in Proposal
             PROVE Cardinality(Publications(s, p)) = (IF proposed[s][p] = "published" THEN 1 ELSE 0)
  BY DEF CandidatesSettleOnce, Publications
<1>1. CASE proposed[s][p] = "published"
  <2>1. PICK v \in DOMAIN versions : Publications(s, p) = {v} BY <1>1 DEF MemoryInv, SettleInv
  <2>2. Cardinality({v}) = 1 BY FS_Singleton
  <2> QED BY <1>1, <2>1, <2>2
<1>2. CASE proposed[s][p] # "published"
  <2>1. Publications(s, p) = {} BY <1>2 DEF MemoryInv, SettleInv
  <2> QED BY <1>2, <2>1, FS_EmptySet
<1> QED BY <1>1, <1>2

(* The text a cycle decides with stays in force, what is in force is what an     *)
(* administrator saw and decided, a candidate settles once, and accounts stay      *)
(* apart: for any number of accounts, versions and reviews.                    *)
THEOREM MemorySafeTheorem == MemorySpec => []MemorySafe
<1>1. MemoryInit => MemoryInv BY MemoryAtFirst
<1>2. MemoryInv /\ [MemoryNext]_memoryVars => MemoryInv'
  <2> SUFFICES ASSUME MemoryInv, [MemoryNext]_memoryVars PROVE MemoryInv'
    OBVIOUS
  <2>1. CASE UNCHANGED memoryVars
    <3>1. UNCHANGED <<bound, meta, versions, proposed, page, cycle, review, unseen>> BY <2>1 DEF memoryVars
    <3>2. MemoryTypeOK' /\ CycleInv' BY <3>1 DEF MemoryInv, MemoryTypeOK, CycleInv
    <3>3. PageInv' /\ Unread' /\ MemoryHoldsStill'
      BY <3>1, TextRests DEF MemoryInv, PageInv, Unread, MemoryHoldsStill
    <3> QED BY <3>1, <3>2, <3>3, RegistryRests
  <2>2. CASE MemoryNext
    BY <2>2, CycleSteps, ReviewSteps, CandidatesStaged, AdministratorDecides DEF MemoryNext
  <2> QED BY <2>1, <2>2
<1>3. MemoryInv => MemorySafe BY SettledOnce DEF MemoryInv, MemorySafe
<1> QED BY <1>1, <1>2, <1>3, PTL DEF MemorySpec

-----------------------------------------------------------------------------
(* The answer of a model.  Of an answer that is not yet whole the assembler     *)
(* remembers enough: what was fed so far is an answer but for its end.          *)
ChatOpen(s, a) ==
  /\ \A i \in DOMAIN s : s[i].k \in {"delta", "usage", "other"}
  /\ \A i \in At(s, {"delta"}) : s[i].id = a.ident
  /\ a.ident # 0 => At(s, {"delta"}) # {}
  /\ ~a.finish => \A i \in At(s, {"delta"}) : s[i].finish = "none"
  /\ a.finish => \E stop \in At(s, {"delta"}) :
       /\ s[stop].finish = "stop" /\ \A i \in stop + 1 .. Len(s) : s[i].k = "usage"
       /\ \A i \in At(s, {"delta"}) : i # stop => s[i].finish = "none"

ResponseOpen(s, a) ==
  /\ \A i \in DOMAIN s : s[i].k \in {"text", "reason", "other"}
  /\ a.text = <<>> <=> At(s, {"text"}) = {}
  /\ a.reason = <<>> <=> At(s, {"reason"}) = {}

Within(s, i, j) == \A l \in i + 1 .. j - 1 : s[l].k \in {"delta", "other", "ping"}

(* Each delta and each close is in its block, each block is closed but for the  *)
(* one that is open.                                                        *)
Blocks(s, open) ==
  /\ \A i \in At(s, {"delta"}) : \E b \in At(s, {"block"}) : b < i /\ s[b].of = s[i].of /\ Within(s, b, i)
  /\ \A c \in At(s, {"close"}) : \E b \in At(s, {"block"}) : b < c /\ Within(s, b, c)
  /\ \A b \in At(s, {"block"}) :
       \/ \E c \in At(s, {"close"}) : b < c /\ Within(s, b, c)
       \/ s[b].of = open /\ Within(s, b, Len(s) + 1)
  /\ open # "none" => \E b \in At(s, {"block"}) : s[b].of = open /\ Within(s, b, Len(s) + 1)

ClaudeOpen(s, a) ==
  /\ At(s, {"end", "bad"}) = {}
  /\ a.started \/ \A i \in DOMAIN s : s[i].k = "ping"
  /\ a.started => \E start \in DOMAIN s :
       At(s, {"start"}) = {start} /\ \A i \in 1 .. start - 1 : s[i].k = "ping"
  /\ ~a.finish => At(s, {"finish"}) = {}
  /\ a.finish => a.started /\ a.block = "none" /\ \E stop \in DOMAIN s :
       /\ At(s, {"finish"}) = {stop} /\ s[stop].ok
       /\ \A i \in At(s, {"start"}) : i < stop
       /\ \A i \in stop + 1 .. Len(s) : s[i].k = "ping"
  /\ Blocks(s, a.block)

OpenSoFar(s, a) ==
  CASE protocol = "openai_chat" -> ChatOpen(s, a)
    [] protocol = "openai_responses" -> ResponseOpen(s, a)
    [] protocol = "claude_messages" -> ClaudeOpen(s, a)

Assembler ==
  [state : {"open", "complete", "failed"}, text : Seq(Nat), reason : Seq(Nat), ident : 0 .. 2,
   finish : BOOLEAN, started : BOOLEAN, block : {"none", "text", "thinking"}]

(* What was fed can become no whole answer any more, whatever follows.         *)
Extends(w, s) == Len(s) <= Len(w) /\ \A i \in 1 .. Len(s) : w[i] = s[i]
Hopeless(s) == \A w \in Seq(Events) : Extends(w, s) => ~Whole(w)

TextSoFar(s) == {i \in DOMAIN s : IsText(s[i])}

(* What the assembler says of the events is true of them. *)
StateOK(s, a) ==
  /\ s \in Seq(Events) /\ a \in Assembler
  /\ a.state = "open" => OpenSoFar(s, a) /\ Holds(a.text, TextSoFar(s))
  /\ a.state = "complete" => Whole(s) /\ Holds(a.text, PiecesOf(s))
  /\ a.state = "failed" => Hopeless(s)

StreamInv ==
  /\ StreamTypeOK /\ StateOK(fed, assembler)
  /\ assembler.state = "failed" => reading = "failed"
  /\ reading = "between" => assembler.state = "open"
  /\ reading = "accepted" => assembler.state = "complete" /\ answer = assembler.text

(* One event more. *)
LEMMA OneMore == ASSUME NEW S, NEW s \in Seq(S), NEW e \in S
  PROVE /\ Append(s, e) \in Seq(S) /\ Len(s) \in Nat /\ Len(Append(s, e)) = Len(s) + 1
        /\ DOMAIN s = 1 .. Len(s) /\ DOMAIN Append(s, e) = 1 .. Len(s) + 1
        /\ \A i \in 1 .. Len(s) : s[i] \in S /\ Append(s, e)[i] = s[i]
        /\ Append(s, e)[Len(s) + 1] = e
OBVIOUS

Longer(t, s, e) ==
  /\ Len(s) \in Nat /\ Len(t) = Len(s) + 1 /\ DOMAIN s = 1 .. Len(s) /\ DOMAIN t = 1 .. Len(s) + 1
  /\ \A i \in 1 .. Len(s) : t[i] = s[i]
  /\ t[Len(s) + 1] = e

(* An open chat that takes an event is open, and one with its [DONE] is whole. *)
LEMMA ChatStays ==
  ASSUME NEW s \in Seq(ChatEvents), NEW t, NEW e \in ChatEvents, Longer(t, s, e),
         assembler \in Assembler, assembler.state = "open", ChatOpen(s, assembler)
  PROVE /\ ChatFeed(e).state = "open" => ChatOpen(t, ChatFeed(e))
        /\ ChatFeed(e).state = "complete" => e.k = "done" /\ WholeChat(t)
<1> DEFINE a == assembler
           n == Len(s)
<1>1. n \in Nat /\ DOMAIN s = 1 .. n /\ DOMAIN t = 1 .. n + 1 /\ Len(t) = n + 1 /\ (\A i \in 1 .. n : t[i] = s[i]) /\ t[n + 1] = e
  BY DEF Longer
<1>2. \A i \in 1 .. n : s[i] \in ChatEvents
  BY <1>1
<1>a. ~(Refused.state = "open") /\ Refused.state # "complete" /\ Ended.state = "complete"
  BY DEF Refused, Ended, Assembler
<1>3. CASE e.k = "done"
  <2>1. ChatFeed(e) = IF a.finish THEN Ended ELSE Refused BY <1>3 DEF ChatFeed, ChatDone
  <2>2. ASSUME a.finish PROVE WholeChat(t)
    <3>1. PICK stop \in At(s, {"delta"}) :
       /\ s[stop].finish = "stop" /\ \A i \in stop + 1 .. n : s[i].k = "usage"
       /\ \A i \in At(s, {"delta"}) : i # stop => s[i].finish = "none"
      BY <2>2 DEF ChatOpen
    <3>2. At(t, {"delta"}) = At(s, {"delta"}) BY <1>1, <1>3 DEF At
    <3>3. stop \in 1 .. n BY <1>1 DEF At
    <3>4. \A i \in At(s, {"delta"}) : i \in 1 .. n /\ s[i].id = a.ident BY <1>1 DEF At, ChatOpen
    <3>5. \A i \in 1 .. n : s[i].k \in {"delta", "usage", "other"} BY <1>1 DEF ChatOpen
    <3> QED BY <1>1, <1>3, <3>1, <3>2, <3>3, <3>4, <3>5 DEF WholeChat
  <2> QED BY <1>a, <1>3, <2>1, <2>2
<1>4. CASE e.k = "delta"
  <2>1. SUFFICES ASSUME a.ident \in {0, e.id}, ~a.finish, e.finish # "length"
        PROVE ChatOpen(t, ChatFeed(e)) /\ ChatFeed(e).state = "open"
    BY <1>a, <1>4 DEF ChatFeed, ChatDelta
  <2>2. /\ ChatFeed(e).ident = e.id /\ ChatFeed(e).finish = (e.finish = "stop") /\ ChatFeed(e).state = "open"
    BY <1>4, <2>1 DEF ChatFeed, ChatDelta, Assembler
  <2>3. At(t, {"delta"}) = At(s, {"delta"}) \cup {n + 1} BY <1>1, <1>4 DEF At
  <2>4. \A i \in At(s, {"delta"}) : i \in 1 .. n /\ s[i].id = a.ident /\ s[i].finish = "none" BY <1>1, <2>1 DEF At, ChatOpen
  <2>5. e.id \in {1, 2} /\ e.finish \in {"none", "stop"} BY <1>4, <2>1 DEF ChatEvents, Plain
  <2>6. \A i \in At(s, {"delta"}) : s[i].id = e.id
    <3>1. CASE a.ident = 0
      <4>1. \A i \in At(s, {"delta"}) : s[i].id \in {1, 2}
        BY <1>1, <1>2 DEF At, ChatEvents, Plain
      <4> QED BY <2>4, <3>1, <4>1
    <3> QED BY <2>1, <2>4, <3>1
  <2> HIDE DEF a
  <2>7. \A i \in 1 .. n : s[i].k \in {"delta", "usage", "other"} BY <1>1 DEF ChatOpen, a
  <2>8. \A i \in At(t, {"delta"}) : t[i].id = e.id /\ (i # n + 1 => t[i].finish = "none")
    BY <1>1, <2>3, <2>4, <2>6
  <2>9. \A i \in DOMAIN t : t[i].k \in {"delta", "usage", "other"} BY <1>1, <1>4, <2>7
  <2>10. n + 1 \in At(t, {"delta"}) /\ t[n + 1].finish = e.finish BY <1>1, <2>3
  <2>11. n + 1 + 1 .. Len(t) = {} BY <1>1
  <2>12. CASE e.finish = "stop"
    BY <1>1, <2>2, <2>8, <2>9, <2>10, <2>11, <2>12 DEF ChatOpen
  <2>13. CASE e.finish = "none"
    BY <1>1, <2>2, <2>8, <2>9, <2>10, <2>13 DEF ChatOpen
  <2> QED BY <2>2, <2>5, <2>12, <2>13
<1>5. CASE e.k \in {"usage", "other"}
  <2>1. CASE ChatFeed(e) = Refused BY <1>a, <2>1
  <2>2. CASE ChatFeed(e) = a /\ (e.k = "other" => ~a.finish)
    <3>1. At(t, {"delta"}) = At(s, {"delta"}) BY <1>1, <1>5 DEF At
    <3>2. \A i \in At(s, {"delta"}) : i \in 1 .. n /\ t[i] = s[i] BY <1>1 DEF At
    <3>3. \A i \in DOMAIN t : t[i].k \in {"delta", "usage", "other"} BY <1>1, <1>5 DEF ChatOpen
    <3>4. CASE ~a.finish BY <3>1, <3>2, <3>3, <3>4, <2>2 DEF ChatOpen
    <3>5. CASE a.finish
      <4>1. PICK stop \in At(s, {"delta"}) :
         /\ s[stop].finish = "stop" /\ \A i \in stop + 1 .. n : s[i].k = "usage"
         /\ \A i \in At(s, {"delta"}) : i # stop => s[i].finish = "none"
        BY <3>5 DEF ChatOpen
      <4>2. \A i \in stop + 1 .. n + 1 : t[i].k = "usage"
        BY <1>1, <1>5, <2>2, <3>2, <3>5, <4>1
      <4> QED BY <1>1, <2>2, <3>1, <3>2, <3>3, <3>5, <4>1, <4>2 DEF ChatOpen
    <3> QED BY <2>2, <3>4, <3>5
  <2> QED BY <1>5, <2>1, <2>2 DEF ChatFeed
<1>6. CASE e.k = "bad" BY <1>6, <1>a DEF ChatFeed
<1> QED BY <1>3, <1>4, <1>5, <1>6 DEF ChatEvents, Plain

(* What an open chat refuses makes no whole answer, whatever follows. *)
LEMMA ChatRefuses ==
  ASSUME NEW s \in Seq(ChatEvents), NEW t, NEW e \in ChatEvents, Longer(t, s, e),
         assembler \in Assembler, assembler.state = "open", ChatOpen(s, assembler),
         ChatFeed(e).state = "failed",
         NEW w \in Seq(ChatEvents), Extends(w, t)
  PROVE ~WholeChat(w)
<1> DEFINE a == assembler
           n == Len(s)
<1>1. n \in Nat /\ DOMAIN s = 1 .. n /\ DOMAIN t = 1 .. n + 1 /\ Len(t) = n + 1 /\ (\A i \in 1 .. n : t[i] = s[i]) /\ t[n + 1] = e
  BY DEF Longer
<1>2. Len(w) \in Nat /\ DOMAIN w = 1 .. Len(w) /\ n + 1 <= Len(w) /\ (\A i \in 1 .. n : w[i] = s[i]) /\ w[n + 1] = e
  BY <1>1 DEF Extends
<1>3. SUFFICES ASSUME WholeChat(w) PROVE FALSE OBVIOUS
<1>4. PICK stop \in At(w, {"delta"}) :
    /\ w[stop].finish = "stop"
    /\ stop < Len(w) /\ w[Len(w)].k = "done"
    /\ \A i \in 1 .. stop : w[i].k \in {"delta", "usage", "other"}
    /\ \A i \in stop + 1 .. Len(w) - 1 : w[i].k = "usage"
    /\ \A i \in At(w, {"delta"}) : w[i].id = w[stop].id /\ (i # stop => w[i].finish = "none")
  BY <1>3 DEF WholeChat
<1>5. stop \in 1 .. Len(w) /\ w[stop].k = "delta" BY <1>2 DEF At
<1>6. \A i \in 1 .. n : s[i].k \in {"delta", "usage", "other"} BY <1>1 DEF ChatOpen
<1>7. At(s, {"delta"}) = {i \in 1 .. n : s[i].k = "delta"} BY <1>1 DEF At
<1>8. At(w, {"delta"}) = {i \in 1 .. Len(w) : w[i].k = "delta"} BY <1>2 DEF At
<1>a. a.state # "failed" /\ Ended.state # "failed"
  BY DEF Ended, Assembler
<1>9. CASE a.finish
  <2>1. PICK l \in 1 .. n : s[l].k = "delta" /\ s[l].finish = "stop" /\ \A i \in l + 1 .. n : s[i].k = "usage"
    BY <1>7, <1>9 DEF ChatOpen
  <2>2. l = stop BY <1>2, <1>4, <1>8, <2>1
  <2>3. e.k \in {"usage", "done"} BY <1>1, <1>2, <1>4, <2>1, <2>2
  <2> QED BY <1>a, <1>9, <2>3 DEF ChatFeed, ChatDone
<1>10. CASE ~a.finish
  <2>1. \A i \in 1 .. n : s[i].k = "delta" => s[i].finish = "none" /\ s[i].id = a.ident
    BY <1>7, <1>10 DEF ChatOpen
  <2>2. stop \notin 1 .. n BY <1>2, <1>5, <1>4, <2>1
  <2>3. n + 1 <= stop BY <1>1, <1>2, <1>5, <2>2
  <2>4. e.k \in {"delta", "usage", "other"} BY <1>1, <1>2, <1>4, <1>5, <2>3
  <2>5. CASE e.k = "delta"
    <3>1. a.ident \notin {0, e.id} \/ e.finish = "length"
      <4> SUFFICES ASSUME a.ident \in {0, e.id}, e.finish # "length" PROVE FALSE OBVIOUS
      <4>1. ChatFeed(e).state = "open" BY <1>10, <2>5 DEF ChatFeed, ChatDelta, Assembler
      <4> QED BY <4>1
    <3>2. n + 1 \in At(w, {"delta"}) BY <1>1, <1>2, <1>8, <2>5
    <3>3. CASE e.finish = "length" BY <1>2, <1>4, <3>2, <3>3
    <3>4. CASE a.ident \notin {0, e.id}
      <4>1. PICK l \in 1 .. n : s[l].k = "delta" BY <1>7, <3>4 DEF ChatOpen
      <4>2. w[l].id = e.id BY <1>1, <1>2, <1>4, <1>8, <3>2, <4>1
      <4> QED BY <1>2, <2>1, <3>4, <4>1, <4>2
    <3> QED BY <3>1, <3>3, <3>4
  <2>6. CASE e.k \in {"usage", "other"} BY <1>a, <1>10, <2>6 DEF ChatFeed
  <2> QED BY <2>4, <2>5, <2>6
<1> QED BY <1>9, <1>10

(* The same of the events of a response. *)
LEMMA ResponseStays ==
  ASSUME NEW s \in Seq(ResponseEvents), NEW t, NEW e \in ResponseEvents, Longer(t, s, e),
         assembler \in Assembler, assembler.state = "open", ResponseOpen(s, assembler)
  PROVE /\ ResponseFeed(e).state = "open" => ResponseOpen(t, ResponseFeed(e))
        /\ ResponseFeed(e).state = "complete" => e.k = "completed" /\ WholeResponse(t)
<1> DEFINE a == assembler
           n == Len(s)
<1>1. n \in Nat /\ DOMAIN s = 1 .. n /\ DOMAIN t = 1 .. n + 1 /\ Len(t) = n + 1 /\ (\A i \in 1 .. n : t[i] = s[i]) /\ t[n + 1] = e
  BY DEF Longer
<1>2. \A i \in 1 .. n : s[i].k \in {"text", "reason", "other"} BY <1>1 DEF ResponseOpen
<1>3. /\ a.text = <<>> <=> At(s, {"text"}) = {}
      /\ a.reason = <<>> <=> At(s, {"reason"}) = {}
      /\ a.text \in Seq(Nat) /\ a.reason \in Seq(Nat)
  BY DEF ResponseOpen, Assembler
<1>a. Refused.state = "failed" /\ Ended.state = "complete"
  BY DEF Refused, Ended, Assembler
<1>4. CASE e.k \in {"text", "reason", "other"}
  <2>1. \A i \in 1 .. n + 1 : t[i].k \in {"text", "reason", "other"} BY <1>1, <1>2, <1>4
  <2>2. n + 1 \in Nat /\ (\A x \in Seq(Nat) : Append(x, Piece) # <<>>) OBVIOUS
  <2>3. At(t, {"text"}) = At(s, {"text"}) \cup (IF e.k = "text" THEN {n + 1} ELSE {}) BY <1>1 DEF At
  <2>4. At(t, {"reason"}) = At(s, {"reason"}) \cup (IF e.k = "reason" THEN {n + 1} ELSE {}) BY <1>1 DEF At
  <2>5. /\ ResponseFeed(e).text = IF e.k = "text" THEN Append(a.text, Piece) ELSE a.text
        /\ ResponseFeed(e).reason = IF e.k = "reason" THEN Append(a.reason, Piece) ELSE a.reason
        /\ ResponseFeed(e).state = "open"
    BY <1>4 DEF ResponseFeed, Assembler
  <2> HIDE DEF a, n
  <2>6. ResponseFeed(e).text = <<>> <=> At(t, {"text"}) = {} BY <1>3, <2>2, <2>3, <2>5
  <2>7. ResponseFeed(e).reason = <<>> <=> At(t, {"reason"}) = {} BY <1>3, <2>2, <2>4, <2>5
  <2> QED BY <1>1, <2>1, <2>5, <2>6, <2>7 DEF ResponseOpen
<1>5. CASE e.k = "completed"
  <2>1. ResponseFeed(e) = ResponseCompleted(e) BY <1>5 DEF ResponseFeed
  <2>2. CASE e.text = "none" \/ (e.text = "else" /\ a.text # <<>>) \/ (e.reason = "else" /\ a.reason # <<>>)
    BY <1>a, <2>1, <2>2 DEF ResponseCompleted
  <2>3. CASE ~(e.text = "none" \/ (e.text = "else" /\ a.text # <<>>) \/ (e.reason = "else" /\ a.reason # <<>>))
    <3>1. ResponseFeed(e).state = "complete" BY <2>1, <2>3 DEF ResponseCompleted, Ended, Assembler
    <3>2. At(t, {"text"}) = At(s, {"text"}) /\ At(t, {"reason"}) = At(s, {"reason"}) BY <1>1, <1>5 DEF At
    <3>3. At(t, {"completed"}) = {n + 1} /\ At(t, {"bad"}) = {} BY <1>1, <1>2, <1>5 DEF At
    <3>4. t # <<>> BY <1>1
    <3> QED BY <1>1, <1>3, <1>5, <2>3, <3>1, <3>2, <3>3, <3>4 DEF WholeResponse
  <2> QED BY <2>2, <2>3
<1>6. CASE e.k = "bad" BY <1>6, <1>a DEF ResponseFeed
<1> QED BY <1>4, <1>5, <1>6 DEF ResponseEvents, Plain

(* What an open response refuses makes no whole answer either. *)
LEMMA ResponseRefuses ==
  ASSUME NEW s \in Seq(ResponseEvents), NEW t, NEW e \in ResponseEvents, Longer(t, s, e),
         assembler \in Assembler, assembler.state = "open", ResponseOpen(s, assembler),
         ResponseFeed(e).state = "failed",
         NEW w \in Seq(ResponseEvents), Extends(w, t)
  PROVE ~WholeResponse(w)
<1> DEFINE a == assembler
           n == Len(s)
<1>1. n \in Nat /\ DOMAIN s = 1 .. n /\ DOMAIN t = 1 .. n + 1 /\ Len(t) = n + 1 /\ (\A i \in 1 .. n : t[i] = s[i]) /\ t[n + 1] = e
  BY DEF Longer
<1>2. Len(w) \in Nat /\ DOMAIN w = 1 .. Len(w) /\ n + 1 <= Len(w) /\ (\A i \in 1 .. n : w[i] = s[i]) /\ w[n + 1] = e
  BY <1>1 DEF Extends
<1>3. SUFFICES ASSUME WholeResponse(w) PROVE FALSE OBVIOUS
<1>4. e.k # "bad" BY <1>1, <1>2, <1>3 DEF WholeResponse, At
<1>5. CASE e.k \in {"text", "reason", "other"}
  BY <1>5 DEF ResponseFeed, Assembler
<1>6. CASE e.k = "completed"
  <2>1. n + 1 = Len(w)
    <3>1. n + 1 \in At(w, {"completed"}) BY <1>1, <1>2, <1>6 DEF At
    <3> QED BY <1>3, <3>1 DEF WholeResponse
  <2>2. e.text # "none" /\ (e.text = "else" => At(w, {"text"}) = {}) /\ (e.reason = "else" => At(w, {"reason"}) = {})
    BY <1>2, <1>3, <2>1 DEF WholeResponse
  <2>3. At(s, {"text"}) \subseteq At(w, {"text"}) /\ At(s, {"reason"}) \subseteq At(w, {"reason"})
    BY <1>1, <1>2 DEF At
  <2>4. ~(e.text = "else" /\ a.text # <<>>) /\ ~(e.reason = "else" /\ a.reason # <<>>)
    BY <2>2, <2>3 DEF ResponseOpen
  <2> QED BY <1>6, <2>2, <2>4 DEF ResponseFeed, ResponseCompleted, Ended, Assembler
<1> QED BY <1>4, <1>5, <1>6 DEF ResponseEvents, Plain

(* The blocks of an answer of Claude go on with what may be in a block, with    *)
(* what is outside of all blocks, with a block that opens or one that closes.   *)
LEMMA BlocksGoOn ==
  ASSUME NEW s \in Seq(ClaudeEvents), NEW t, NEW e \in ClaudeEvents, Longer(t, s, e),
         NEW open \in {"none", "text", "thinking"}, Blocks(s, open)
  PROVE /\ e.k \in {"other", "ping"} \/ (e.k = "delta" /\ open = e.of) => Blocks(t, open)
        /\ open = "none" /\ e.k \notin {"delta", "block", "close"} => Blocks(t, "none")
        /\ open = "none" /\ e.k = "block" => Blocks(t, e.of)
        /\ open # "none" /\ e.k = "close" => Blocks(t, "none")
<1> DEFINE n == Len(s)
           In(l) == s[l].k \in {"delta", "other", "ping"}
<1>1. n \in Nat /\ DOMAIN s = 1 .. n /\ DOMAIN t = 1 .. n + 1 /\ Len(t) = n + 1 /\ (\A i \in 1 .. n : t[i] = s[i]) /\ t[n + 1] = e
  BY DEF Longer
<1>2. \A K : At(s, K) = {i \in 1 .. n : s[i].k \in K}
  BY <1>1 DEF At
<1>3. \A K : At(t, K) = IF e.k \in K THEN At(s, K) \cup {n + 1} ELSE At(s, K)
  BY <1>1 DEF At
<1>4. \A i \in 1 .. n, j \in 1 .. n + 1 : Within(t, i, j) = Within(s, i, j)
  BY <1>1 DEF Within
<1>5. e.k \in {"delta", "other", "ping"} => \A i \in 1 .. n : Within(s, i, n + 1) => Within(t, i, n + 2)
  BY <1>1 DEF Within
<1>6. /\ \A i \in At(s, {"delta"}) : \E b \in At(s, {"block"}) : b < i /\ s[b].of = s[i].of /\ Within(s, b, i)
      /\ \A c \in At(s, {"close"}) : \E b \in At(s, {"block"}) : b < c /\ Within(s, b, c)
      /\ \A b \in At(s, {"block"}) :
           \/ \E c \in At(s, {"close"}) : b < c /\ Within(s, b, c)
           \/ s[b].of = open /\ Within(s, b, n + 1)
      /\ open # "none" => \E b \in At(s, {"block"}) : s[b].of = open /\ Within(s, b, n + 1)
  BY DEF Blocks
<1>7. \A b \in At(s, {"block"}) : s[b].of \in {"text", "thinking"}
  BY <1>2 DEF ClaudeEvents, Plain
<1>8. \A i \in At(s, {"delta"}) \cup At(s, {"block"}) \cup At(s, {"close"}) : i \in 1 .. n /\ t[i] = s[i]
  BY <1>1, <1>2
<1>9. At(s, {"block"}) \subseteq At(t, {"block"}) /\ At(s, {"close"}) \subseteq At(t, {"close"})
  BY <1>3
<1>10. n + 1 \in 1 .. n + 1 /\ (\A i \in 1 .. n : i \in 1 .. n + 1 /\ i < n + 1) /\ n + 1 + 1 = n + 2 /\ Len(t) + 1 = n + 2
  BY <1>1
<1> HIDE DEF n
<1>11. \A i \in At(s, {"delta"}) : \E b \in At(t, {"block"}) : b < i /\ t[b].of = t[i].of /\ Within(t, b, i)
  <2> TAKE i \in At(s, {"delta"})
  <2>1. PICK b \in At(s, {"block"}) : b < i /\ s[b].of = s[i].of /\ Within(s, b, i) BY <1>6
  <2>2. Within(t, b, i) BY <1>4, <1>8, <1>10, <2>1
  <2> QED BY <1>8, <1>9, <2>1, <2>2
<1>12. \A c \in At(s, {"close"}) : \E b \in At(t, {"block"}) : b < c /\ Within(t, b, c)
  <2> TAKE c \in At(s, {"close"})
  <2>1. PICK b \in At(s, {"block"}) : b < c /\ Within(s, b, c) BY <1>6
  <2>2. Within(t, b, c) BY <1>4, <1>8, <1>10, <2>1
  <2> QED BY <1>9, <2>1, <2>2
<1>13. \A b \in At(s, {"block"}) :
          \/ \E c \in At(t, {"close"}) : b < c /\ Within(t, b, c)
          \/ t[b].of = open /\ Within(t, b, n + 1)
  <2> TAKE b \in At(s, {"block"})
  <2>1. CASE \E c \in At(s, {"close"}) : b < c /\ Within(s, b, c)
    <3>1. PICK c \in At(s, {"close"}) : b < c /\ Within(s, b, c) BY <2>1
    <3>2. Within(t, b, c) BY <1>4, <1>8, <1>10, <3>1
    <3> QED BY <1>9, <3>1, <3>2
  <2>2. CASE s[b].of = open /\ Within(s, b, n + 1)
    BY <1>4, <1>8, <1>10, <2>2
  <2> QED BY <1>6, <2>1, <2>2
<1>14. open # "none" => \E b \in At(s, {"block"}) : t[b].of = open /\ Within(t, b, n + 1)
  BY <1>4, <1>6, <1>8, <1>10
<1>19. ASSUME At(t, {"delta"}) = At(s, {"delta"}), NEW o,
              \A c \in At(t, {"close"}) : \E b \in At(t, {"block"}) : b < c /\ Within(t, b, c),
              \A b \in At(t, {"block"}) :
                 \/ \E c \in At(t, {"close"}) : b < c /\ Within(t, b, c)
                 \/ t[b].of = o /\ Within(t, b, n + 2),
              o # "none" => \E b \in At(t, {"block"}) : t[b].of = o /\ Within(t, b, n + 2)
       PROVE Blocks(t, o)
  BY <1>10, <1>11, <1>19 DEF Blocks
<1>15. CASE e.k \in {"other", "ping"} \/ (e.k = "delta" /\ open = e.of)
  <2>1. At(t, {"block"}) = At(s, {"block"}) /\ At(t, {"close"}) = At(s, {"close"})
    BY <1>3, <1>15
  <2>2. \A b \in At(s, {"block"}) : Within(t, b, n + 1) => Within(t, b, n + 2)
    BY <1>4, <1>5, <1>8, <1>10, <1>15
  <2>3. \A i \in At(t, {"delta"}) : \E b \in At(t, {"block"}) : b < i /\ t[b].of = t[i].of /\ Within(t, b, i)
    <3>1. CASE e.k = "delta" /\ open = e.of
      <4>1. At(t, {"delta"}) = At(s, {"delta"}) \cup {n + 1} BY <1>3, <3>1
      <4>2. e.of \in {"text", "thinking"} BY <3>1 DEF ClaudeEvents, Plain
      <4>3. PICK b \in At(s, {"block"}) : t[b].of = open /\ Within(t, b, n + 1) BY <1>14, <3>1, <4>2
      <4>4. b < n + 1 /\ t[n + 1] = e BY <1>1, <1>8, <1>10 DEF n
      <4> QED BY <1>11, <2>1, <3>1, <4>1, <4>3, <4>4
    <3>2. CASE e.k # "delta" BY <1>3, <1>11, <3>2
    <3> QED BY <1>15, <3>1, <3>2
  <2> QED BY <1>10, <1>12, <1>13, <1>14, <1>15, <2>1, <2>2, <2>3 DEF Blocks
<1>16. CASE open = "none" /\ e.k \notin {"delta", "block", "close"}
  <2>1. At(t, {"block"}) = At(s, {"block"}) /\ At(t, {"close"}) = At(s, {"close"}) /\ At(t, {"delta"}) = At(s, {"delta"})
    BY <1>3, <1>16
  <2>2. \A b \in At(s, {"block"}) : \E c \in At(t, {"close"}) : b < c /\ Within(t, b, c)
    BY <1>7, <1>8, <1>13, <1>16
  <2>3. \A b \in At(t, {"block"}) : \E c \in At(t, {"close"}) : b < c /\ Within(t, b, c)
    BY <2>1, <2>2
  <2>4. Blocks(t, "none") BY <1>12, <1>19, <2>1, <2>3
  <2> QED BY <1>16, <2>4
<1>17. CASE open = "none" /\ e.k = "block"
  <2>1. At(t, {"block"}) = At(s, {"block"}) \cup {n + 1} /\ At(t, {"close"}) = At(s, {"close"}) /\ At(t, {"delta"}) = At(s, {"delta"})
    BY <1>3, <1>17
  <2>2. \A b \in At(s, {"block"}) : \E c \in At(t, {"close"}) : b < c /\ Within(t, b, c)
    BY <1>7, <1>8, <1>13, <1>17
  <2>3. t[n + 1] = e /\ Within(t, n + 1, n + 2) BY <1>1 DEF Within, n
  <2>4. \A b \in At(t, {"block"}) :
          \/ \E c \in At(t, {"close"}) : b < c /\ Within(t, b, c)
          \/ t[b].of = e.of /\ Within(t, b, n + 2)
    BY <2>1, <2>2, <2>3
  <2>5. \E b \in At(t, {"block"}) : t[b].of = e.of /\ Within(t, b, n + 2)
    BY <2>1, <2>3
  <2>6. Blocks(t, e.of)
    BY <1>12, <1>19, <2>1, <2>4, <2>5
  <2> QED BY <1>17, <2>6
<1>18. CASE open # "none" /\ e.k = "close"
  <2>1. At(t, {"block"}) = At(s, {"block"}) /\ At(t, {"close"}) = At(s, {"close"}) \cup {n + 1} /\ At(t, {"delta"}) = At(s, {"delta"})
    BY <1>3, <1>18
  <2>2. \A b \in At(s, {"block"}) : b < n + 1 BY <1>8, <1>10
  <2>3. \A b \in At(t, {"block"}) : \E c \in At(t, {"close"}) : b < c /\ Within(t, b, c)
    BY <1>13, <2>1, <2>2
  <2>4. \A c \in At(t, {"close"}) : \E b \in At(t, {"block"}) : b < c /\ Within(t, b, c)
    BY <1>12, <1>14, <1>18, <2>1, <2>2
  <2>5. Blocks(t, "none") BY <1>19, <2>1, <2>3, <2>4
  <2> QED BY <1>18, <2>5
<1> QED BY <1>15, <1>16, <1>17, <1>18

(* The same of the events of Claude. *)
LEMMA ClaudeStays ==
  ASSUME NEW s \in Seq(ClaudeEvents), NEW t, NEW e \in ClaudeEvents, Longer(t, s, e),
         assembler \in Assembler, assembler.state = "open", ClaudeOpen(s, assembler)
  PROVE /\ ClaudeFeed(e).state = "open" => ClaudeOpen(t, ClaudeFeed(e))
        /\ ClaudeFeed(e).state = "complete" => e.k = "end" /\ WholeClaude(t)
<1> DEFINE a == assembler
           n == Len(s)
<1>1. n \in Nat /\ DOMAIN s = 1 .. n /\ DOMAIN t = 1 .. n + 1 /\ Len(t) = n + 1 /\ (\A i \in 1 .. n : t[i] = s[i]) /\ t[n + 1] = e
  BY DEF Longer
<1>2. \A K : At(s, K) = {i \in 1 .. n : s[i].k \in K}
  BY <1>1 DEF At
<1>3. \A K : At(t, K) = IF e.k \in K THEN At(s, K) \cup {n + 1} ELSE At(s, K)
  BY <1>1 DEF At
<1>4. /\ e.k \in {"other", "ping"} \/ (e.k = "delta" /\ a.block = e.of) => Blocks(t, a.block)
      /\ a.block = "none" /\ e.k \notin {"delta", "block", "close"} => Blocks(t, "none")
      /\ a.block = "none" /\ e.k = "block" => Blocks(t, e.of)
      /\ a.block # "none" /\ e.k = "close" => Blocks(t, "none")
  <2>1. a.block \in {"none", "text", "thinking"} /\ Blocks(s, a.block) BY DEF Assembler, ClaudeOpen
  <2> HIDE DEF a
  <2> QED BY <2>1, BlocksGoOn
<1>a. Refused.state = "failed" /\ Ended.state = "complete"
  BY DEF Refused, Ended, Assembler
<1>5. /\ At(s, {"end", "bad"}) = {}
      /\ a.started \/ \A i \in 1 .. n : s[i].k = "ping"
      /\ a.started => \E start \in 1 .. n :
           At(s, {"start"}) = {start} /\ \A i \in 1 .. start - 1 : s[i].k = "ping"
      /\ ~a.finish => At(s, {"finish"}) = {}
      /\ a.finish => a.started /\ a.block = "none" /\ \E stop \in 1 .. n :
           /\ At(s, {"finish"}) = {stop} /\ s[stop].ok
           /\ \A i \in At(s, {"start"}) : i < stop
           /\ \A i \in stop + 1 .. n : s[i].k = "ping"
  BY <1>1 DEF ClaudeOpen
<1>6. n + 1 \in 1 .. n + 1 /\ \A i \in 1 .. n : i \in 1 .. n + 1 /\ i < n + 1 BY <1>1
<1>7. ASSUME NEW start \in 1 .. n, At(s, {"start"}) = {start}, \A i \in 1 .. start - 1 : s[i].k = "ping", e.k # "start"
      PROVE /\ start \in DOMAIN t /\ At(t, {"start"}) = {start}
            /\ \A i \in 1 .. start - 1 : t[i].k = "ping"
  BY <1>1, <1>3, <1>7
<1>8. CASE e.k = "ping"
  <2>1. ClaudeFeed(e) = a BY <1>8 DEF ClaudeFeed
  <2>2. At(t, {"end", "bad"}) = {} /\ At(t, {"start"}) = At(s, {"start"}) /\ At(t, {"finish"}) = At(s, {"finish"})
    BY <1>3, <1>5, <1>8
  <2>3. a.started \/ \A i \in DOMAIN t : t[i].k = "ping" BY <1>1, <1>5, <1>8
  <2>4. a.started => \E start \in DOMAIN t :
           At(t, {"start"}) = {start} /\ \A i \in 1 .. start - 1 : t[i].k = "ping"
    BY <1>5, <1>7, <1>8
  <2>5. ASSUME a.finish PROVE \E stop \in DOMAIN t :
           /\ At(t, {"finish"}) = {stop} /\ t[stop].ok
           /\ \A i \in At(t, {"start"}) : i < stop
           /\ \A i \in stop + 1 .. Len(t) : t[i].k = "ping"
    <3>1. PICK stop \in 1 .. n :
           /\ At(s, {"finish"}) = {stop} /\ s[stop].ok
           /\ \A i \in At(s, {"start"}) : i < stop
           /\ \A i \in stop + 1 .. n : s[i].k = "ping"
      BY <1>5, <2>5
    <3>2. \A i \in stop + 1 .. Len(t) : t[i].k = "ping" BY <1>1, <1>8, <3>1
    <3> QED BY <1>1, <1>6, <2>2, <3>1, <3>2
  <2>6. Blocks(t, a.block) BY <1>4, <1>8
  <2>7. a.finish => a.started /\ a.block = "none" BY <1>5
  <2>8. ~a.finish => At(t, {"finish"}) = {} BY <1>5, <2>2
  <2>9. a.state = "open" OBVIOUS
  <2> HIDE DEF a
  <2> QED BY <2>1, <2>2, <2>3, <2>4, <2>5, <2>6, <2>7, <2>8, <2>9 DEF ClaudeOpen
<1>9. CASE e.k = "start"
  <2>1. CASE a.started BY <1>9, <2>1, <1>a DEF ClaudeFeed
  <2>2. CASE ~a.started
    <3>1. /\ ClaudeFeed(e).started /\ ClaudeFeed(e).finish = a.finish /\ ClaudeFeed(e).block = a.block
          /\ ClaudeFeed(e).state = "open"
      BY <1>9, <2>2 DEF ClaudeFeed, Assembler
    <3>2. \A i \in 1 .. n : s[i].k = "ping" BY <1>5, <2>2
    <3>3. At(s, {"block"}) = {} /\ At(s, {"start"}) = {} BY <1>2, <3>2
    <3>4. a.block = "none" BY <3>3 DEF ClaudeOpen, Blocks
    <3>5. Blocks(t, "none") BY <1>4, <1>9, <3>4
    <3>6. At(t, {"start"}) = {n + 1} /\ At(t, {"end", "bad"}) = {} /\ At(t, {"finish"}) = At(s, {"finish"})
      BY <1>3, <1>5, <1>9, <3>3
    <3>7. \A i \in 1 .. n + 1 - 1 : t[i].k = "ping" BY <1>1, <3>2
    <3>8. ~a.finish BY <1>5, <2>2
    <3> HIDE DEF a
    <3> QED BY <1>1, <1>5, <1>6, <3>1, <3>4, <3>5, <3>6, <3>7, <3>8 DEF ClaudeOpen
  <2> QED BY <2>1, <2>2
<1>10. CASE e.k = "end"
  <2>1. CASE ~a.finish BY <1>10, <2>1, <1>a DEF ClaudeFeed
  <2>2. CASE a.finish
    <3>1. ClaudeFeed(e).state = "complete" BY <1>10, <2>2, <1>a DEF ClaudeFeed
    <3>2. PICK start \in 1 .. n :
           At(s, {"start"}) = {start} /\ \A i \in 1 .. start - 1 : s[i].k = "ping"
      BY <1>5, <2>2
    <3>3. PICK stop \in 1 .. n :
           /\ At(s, {"finish"}) = {stop} /\ s[stop].ok
           /\ \A i \in At(s, {"start"}) : i < stop
           /\ \A i \in stop + 1 .. n : s[i].k = "ping"
      BY <1>5, <2>2
    <3>4. /\ start < stop /\ start \in DOMAIN t /\ stop \in DOMAIN t /\ t[stop].ok
          /\ At(t, {"start"}) = {start} /\ At(t, {"finish"}) = {stop}
      BY <1>1, <1>3, <1>6, <1>10, <3>2, <3>3
    <3>5. At(t, {"end"}) = {Len(t)} /\ At(t, {"bad"}) = {}
      <4>1. At(s, {"end"}) = {} /\ At(s, {"bad"}) = {} BY <1>2, <1>5
      <4> QED BY <1>1, <1>3, <1>10, <4>1
    <3>6. \A i \in 1 .. start - 1 \cup stop + 1 .. Len(t) - 1 : t[i].k = "ping" BY <1>1, <3>2, <3>3
    <3>7. Blocks(t, "none") BY <1>4, <1>5, <1>10, <2>2
    <3>8. \A b \in At(t, {"block"}) : t[b].of # "none"
      BY <1>1, <1>2, <1>3, <1>10 DEF ClaudeEvents, Plain
    <3>9. /\ \A i \in At(t, {"delta"}) : \E b \in At(t, {"block"}) : b < i /\ t[b].of = t[i].of /\ Within(t, b, i)
          /\ \A c \in At(t, {"close"}) : \E b \in At(t, {"block"}) : b < c /\ Within(t, b, c)
          /\ \A b \in At(t, {"block"}) : \E c \in At(t, {"close"}) : b < c /\ Within(t, b, c)
      BY <3>7, <3>8 DEF Blocks
    <3>10. WholeClaude(t) BY <3>4, <3>5, <3>6, <3>9 DEF WholeClaude, Within
    <3> QED BY <1>10, <3>1, <3>10
  <2> QED BY <2>1, <2>2
<1>11. CASE e.k \notin {"ping", "start", "end"}
  <2>1. CASE ~(a.started /\ ~a.finish) BY <1>11, <2>1, <1>a DEF ClaudeFeed
  <2>2. CASE a.started /\ ~a.finish
    <3>1. ClaudeFeed(e) = ClaudeStep(e) BY <1>11, <2>2 DEF ClaudeFeed
    <3>2. \E start \in DOMAIN t : At(t, {"start"}) = {start} /\ \A i \in 1 .. start - 1 : t[i].k = "ping"
      BY <1>5, <1>7, <1>11, <2>2
    <3>3. At(t, {"start"}) = At(s, {"start"}) /\ (\A i \in At(s, {"start"}) : i < n + 1) BY <1>2, <1>3, <1>6, <1>11
    <3>4. e.k # "bad" => At(t, {"end", "bad"}) = {} BY <1>3, <1>5, <1>11
    <3>5. At(t, {"finish"}) = IF e.k = "finish" THEN {n + 1} ELSE {} BY <1>3, <1>5, <2>2
    <3>6. ASSUME NEW r, r.started, ~r.finish, e.k \notin {"finish", "bad"}, Blocks(t, r.block)
          PROVE ClaudeOpen(t, r)
      BY <3>2, <3>4, <3>5, <3>6 DEF ClaudeOpen
    <3>7. CASE e.k = "block" /\ a.block = "none"
      <4>1. ClaudeStep(e) = [a EXCEPT !.block = e.of] BY <3>7 DEF ClaudeStep
      <4>2. e.of \in {"text", "thinking"} BY <3>7 DEF ClaudeEvents, Plain
      <4>3. /\ ClaudeStep(e).started /\ ~ClaudeStep(e).finish
            /\ ClaudeStep(e).block = e.of /\ ClaudeStep(e).state = "open"
        BY <4>1, <4>2, <2>2 DEF Assembler
      <4> QED BY <1>4, <3>1, <3>6, <3>7, <4>3
    <3>8. CASE e.k = "delta" /\ a.block = e.of
      <4>1. ClaudeStep(e) = [a EXCEPT !.text = IF e.of = "text" THEN Append(@, Piece) ELSE @] BY <3>8 DEF ClaudeStep
      <4>2. /\ ClaudeStep(e).started /\ ~ClaudeStep(e).finish
            /\ ClaudeStep(e).block = a.block /\ ClaudeStep(e).state = "open"
        BY <4>1, <2>2 DEF Assembler
      <4>3. Blocks(t, a.block) BY <1>4, <3>8
      <4> QED BY <3>1, <3>6, <3>8, <4>2, <4>3
    <3>9. CASE e.k = "close" /\ a.block # "none"
      <4>1. ClaudeStep(e) = [a EXCEPT !.block = "none"] BY <3>9 DEF ClaudeStep
      <4>2. /\ ClaudeStep(e).started /\ ~ClaudeStep(e).finish
            /\ ClaudeStep(e).block = "none" /\ ClaudeStep(e).state = "open"
        BY <4>1, <2>2 DEF Assembler
      <4> QED BY <1>4, <3>1, <3>6, <3>9, <4>2
    <3>10. CASE e.k = "finish" /\ a.block = "none" /\ e.ok
      <4>1. ClaudeStep(e) = [a EXCEPT !.finish = TRUE] BY <3>10 DEF ClaudeStep
      <4>2. /\ ClaudeStep(e).started /\ ClaudeStep(e).finish
            /\ ClaudeStep(e).block = "none" /\ ClaudeStep(e).state = "open"
        BY <4>1, <2>2, <3>10 DEF Assembler
      <4>3. n + 1 + 1 .. Len(t) = {} /\ n + 1 \in DOMAIN t BY <1>1
      <4>4. Blocks(t, "none") BY <1>4, <3>10
      <4>5. t[n + 1].ok BY <1>1, <3>10
      <4>6. ClaudeOpen(t, ClaudeStep(e))
        BY <3>2, <3>3, <3>4, <3>5, <3>10, <4>2, <4>3, <4>4, <4>5 DEF ClaudeOpen
      <4> QED BY <3>1, <4>2, <4>6
    <3>11. CASE e.k = "other"
      <4>1. ClaudeStep(e) = a BY <3>11 DEF ClaudeStep
      <4>2. a.state = "open" OBVIOUS
      <4> QED BY <1>4, <2>2, <3>1, <3>6, <3>11, <4>1, <4>2
    <3>12. CASE ClaudeStep(e) = Refused BY <1>a, <3>1, <3>12
    <3> QED BY <3>7, <3>8, <3>9, <3>10, <3>11, <3>12 DEF ClaudeStep
  <2> QED BY <2>1, <2>2
<1> QED BY <1>8, <1>9, <1>10, <1>11

(* Nor does what Claude's open answer refuses: a block has one end, the answer   *)
(* one start and one finish.                                                 *)
LEMMA ClaudeRefuses ==
  ASSUME NEW s \in Seq(ClaudeEvents), NEW t, NEW e \in ClaudeEvents, Longer(t, s, e),
         assembler \in Assembler, assembler.state = "open", ClaudeOpen(s, assembler),
         ClaudeFeed(e).state = "failed",
         NEW w \in Seq(ClaudeEvents), Extends(w, t)
  PROVE ~WholeClaude(w)
<1> DEFINE a == assembler
           n == Len(s)
<1>1. n \in Nat /\ DOMAIN s = 1 .. n /\ DOMAIN t = 1 .. n + 1 /\ Len(t) = n + 1 /\ (\A i \in 1 .. n : t[i] = s[i]) /\ t[n + 1] = e
  BY DEF Longer
<1>2. Len(w) \in Nat /\ DOMAIN w = 1 .. Len(w) /\ n + 1 <= Len(w) /\ (\A i \in 1 .. n : w[i] = s[i]) /\ w[n + 1] = e
  BY <1>1 DEF Extends
<1>3. SUFFICES ASSUME WholeClaude(w) PROVE FALSE OBVIOUS
<1>4. PICK start, stop \in DOMAIN w :
     /\ start < stop /\ At(w, {"start"}) = {start} /\ At(w, {"finish"}) = {stop} /\ w[stop].ok
     /\ At(w, {"end"}) = {Len(w)} /\ At(w, {"bad"}) = {}
     /\ \A i \in 1 .. start - 1 \cup stop + 1 .. Len(w) - 1 : w[i].k = "ping"
     /\ \A i \in At(w, {"delta"}) : \E b \in At(w, {"block"}) : b < i /\ w[b].of = w[i].of /\ Within(w, b, i)
     /\ \A b \in At(w, {"block"}) : \E c \in At(w, {"close"}) : b < c /\ Within(w, b, c)
     /\ \A c \in At(w, {"close"}) : \E b \in At(w, {"block"}) : b < c /\ Within(w, b, c)
  BY <1>3 DEF WholeClaude, Within
<1>5. \A K : At(s, K) = {i \in 1 .. n : s[i].k \in K} BY <1>1 DEF At
<1>6. \A K : At(w, K) = {i \in 1 .. Len(w) : w[i].k \in K} BY <1>2 DEF At
<1>7. \A K : At(s, K) \subseteq At(w, K) BY <1>2, <1>5, <1>6
<1>8. start \in 1 .. Len(w) /\ stop \in 1 .. Len(w) /\ n + 1 \in 1 .. Len(w) BY <1>1, <1>2
<1>b. w[start].k = "start" /\ w[stop].k = "finish" /\ w[Len(w)].k = "end"
  <2>1. start \in At(w, {"start"}) /\ stop \in At(w, {"finish"}) /\ Len(w) \in At(w, {"end"}) BY <1>4
  <2> QED BY <2>1 DEF At
<1>9. e.k # "bad" BY <1>2, <1>4, <1>6, <1>8
<1>10. e.k # "ping" BY DEF ClaudeFeed, Assembler
<1>11. e.k # "start"
  <2> SUFFICES ASSUME e.k = "start" PROVE FALSE OBVIOUS
  <2>1. a.started BY DEF ClaudeFeed, Assembler
  <2>2. PICK i \in 1 .. n : i \in At(s, {"start"}) BY <1>1, <2>1 DEF ClaudeOpen
  <2>3. n + 1 \in At(w, {"start"}) /\ i \in At(w, {"start"}) BY <1>2, <1>6, <1>7, <1>8, <2>2
  <2> QED BY <1>1, <1>4, <2>2, <2>3
<1>12. e.k # "end"
  <2> SUFFICES ASSUME e.k = "end" PROVE FALSE OBVIOUS
  <2>1. ~a.finish BY DEF ClaudeFeed, Ended, Assembler
  <2>2. n + 1 = Len(w) BY <1>2, <1>4, <1>6, <1>8
  <2>3. stop # n + 1 BY <1>2, <1>4, <1>6, <1>8
  <2>4. stop \in 1 .. n /\ w[stop].k = "finish" BY <1>1, <1>8, <1>b, <2>2, <2>3
  <2>5. stop \in At(s, {"finish"}) BY <1>2, <1>5, <2>4
  <2> QED BY <2>1, <2>5 DEF ClaudeOpen
<1>13. n + 1 # Len(w) BY <1>2, <1>b, <1>12
<1>14. a.started
  <2> SUFFICES ASSUME ~a.started PROVE FALSE OBVIOUS
  <2>1. \A i \in 1 .. n : s[i].k = "ping" BY <1>1 DEF ClaudeOpen
  <2>3. start \notin 1 .. n + 1 BY <1>1, <1>2, <1>b, <1>11, <2>1
  <2> QED BY <1>1, <1>2, <1>4, <1>8, <1>10, <2>3
<1>15. ~a.finish
  <2> SUFFICES ASSUME a.finish PROVE FALSE OBVIOUS
  <2>1. PICK i \in 1 .. n : i \in At(s, {"finish"}) BY <1>1 DEF ClaudeOpen
  <2>2. i \in At(w, {"finish"}) BY <1>7, <2>1
  <2>3. i = stop BY <1>4, <2>2
  <2>4. n + 1 \in stop + 1 .. Len(w) - 1
    <3>1. stop \in 1 .. n BY <2>1, <2>3
    <3>2. n \in Nat /\ Len(w) \in Nat /\ n + 1 <= Len(w) /\ n + 1 # Len(w) BY <1>1, <1>2, <1>13
    <3> HIDE DEF n
    <3> QED BY <3>1, <3>2
  <2>5. w[n + 1].k = "ping" BY <1>4, <2>4
  <2> QED BY <1>2, <1>10, <2>5
<1>16. ClaudeFeed(e) = ClaudeStep(e) BY <1>10, <1>11, <1>12, <1>14, <1>15 DEF ClaudeFeed
<1>17. Blocks(s, a.block) /\ a.block \in {"none", "text", "thinking"} BY DEF ClaudeOpen, Assembler
(* A block of what was fed that goes on to the event, and no other, is open. *)
<1>18. ASSUME NEW b \in At(s, {"block"}), Within(w, b, n + 1)
       PROVE s[b].of = a.block
  <2>1. b \in 1 .. n BY <1>5
  <2>2. ASSUME NEW c \in At(s, {"close"}), b < c PROVE FALSE
    <3>1. c \in 1 .. n /\ w[c].k = "close" BY <1>2, <1>5, <2>2
    <3> QED BY <1>1, <1>18, <2>1, <2>2, <3>1 DEF Within
  <2> QED BY <1>17, <2>2 DEF Blocks
<1>19. ASSUME a.block # "none", e.k \notin {"delta", "close", "other", "ping"} PROVE FALSE
  <2>1. PICK b \in At(s, {"block"}) : Within(s, b, n + 1) BY <1>17, <1>19 DEF Blocks
  <2>2. b \in 1 .. n /\ b \in At(w, {"block"}) BY <1>5, <1>7
  <2>3. PICK c \in At(w, {"close"}) : b < c /\ Within(w, b, c) BY <1>4, <2>2
  <2>4. c \in 1 .. Len(w) /\ w[c].k = "close" BY <1>6
  <2>5. CASE c <= n
    BY <1>1, <1>2, <2>1, <2>2, <2>3, <2>4, <2>5 DEF Within
  <2>6. CASE c = n + 1 BY <1>2, <1>19, <2>4, <2>6
  <2>7. CASE c > n + 1
    <3>1. n + 1 \in b + 1 .. c - 1 BY <1>1, <2>2, <2>4, <2>7
    <3> QED BY <1>2, <1>19, <2>3, <3>1 DEF Within
  <2> QED BY <1>1, <2>4, <2>5, <2>6, <2>7
<1>20. CASE e.k = "block" BY <1>16, <1>17, <1>19, <1>20 DEF ClaudeStep, Assembler
<1>21. CASE e.k = "finish"
  <2>1. n + 1 = stop BY <1>2, <1>4, <1>6, <1>8, <1>21
  <2>2. e.ok BY <1>2, <1>4, <2>1
  <2> QED BY <1>16, <1>17, <1>19, <1>21, <2>2 DEF ClaudeStep, Assembler
<1>22. CASE e.k = "delta"
  <2>1. n + 1 \in At(w, {"delta"}) BY <1>2, <1>6, <1>8, <1>22
  <2>2. PICK b \in At(w, {"block"}) : b < n + 1 /\ w[b].of = e.of /\ Within(w, b, n + 1) BY <1>2, <1>4, <2>1
  <2>3. b \in At(s, {"block"}) /\ s[b].of = e.of BY <1>1, <1>2, <1>5, <1>6, <2>2
  <2>4. e.of = a.block BY <1>18, <2>2, <2>3
  <2> QED BY <1>16, <1>22, <2>4 DEF ClaudeStep, Assembler
<1>23. CASE e.k = "close"
  <2>1. n + 1 \in At(w, {"close"}) BY <1>2, <1>6, <1>8, <1>23
  <2>2. PICK b \in At(w, {"block"}) : b < n + 1 /\ Within(w, b, n + 1) BY <1>4, <2>1
  <2>3. b \in At(s, {"block"}) /\ s[b].of \in {"text", "thinking"}
    BY <1>1, <1>2, <1>5, <1>6, <2>2 DEF ClaudeEvents, Plain
  <2>4. a.block # "none" BY <1>18, <2>2, <2>3
  <2> QED BY <1>16, <1>23, <2>4 DEF ClaudeStep, Assembler
<1>24. CASE e.k = "other" BY <1>16, <1>24 DEF ClaudeStep, Assembler
<1> QED BY <1>9, <1>10, <1>11, <1>12, <1>20, <1>21, <1>22, <1>23, <1>24 DEF ClaudeEvents, Plain

-----------------------------------------------------------------------------
(* The pieces of a text, and one more at its end. *)
LEMMA HoldsMore ==
  ASSUME NEW x \in Seq(Nat), NEW P, NEW p \in Nat, Holds(x, P), \A q \in P : q < p
  PROVE Holds(Append(x, p), P \cup {p})
<1> DEFINE y == Append(x, p)
           n == Len(x)
<1>1. n \in Nat /\ DOMAIN x = 1 .. n /\ DOMAIN y = 1 .. n + 1 /\ (\A i \in 1 .. n : y[i] = x[i] /\ x[i] \in Nat) /\ y[n + 1] = p
  OBVIOUS
<1>2. (\A i, j \in 1 .. n : i < j => x[i] < x[j]) /\ {x[i] : i \in 1 .. n} = P
  BY <1>1 DEF Holds
<1>3. \A i \in 1 .. n : x[i] < p BY <1>2
<1> HIDE DEF n, y
<1>4. \A i, j \in 1 .. n + 1 : i < j => y[i] < y[j]
  <2> TAKE i, j \in 1 .. n + 1
  <2> HAVE i < j
  <2>1. i \in 1 .. n BY <1>1
  <2>2. j \in 1 .. n \/ j = n + 1 BY <1>1
  <2> QED BY <1>1, <1>2, <1>3, <2>1, <2>2
<1>5. {y[i] : i \in 1 .. n + 1} = P \cup {p}
  <2>1. 1 .. n + 1 = 1 .. n \cup {n + 1} BY <1>1
  <2> QED BY <1>1, <1>2, <2>1
<1> QED BY <1>1, <1>4, <1>5 DEF Holds, y

(* No text holds nothing, and a text that holds nothing is none. *)
LEMMA HoldsNothing == Holds(<<>>, {}) /\ \A x \in Seq(Nat) : Holds(x, {}) <=> x = <<>>
<1>1. Holds(<<>>, {}) BY DEF Holds
<1>2. ASSUME NEW x \in Seq(Nat), Holds(x, {}) PROVE x = <<>>
  <2>1. {x[i] : i \in DOMAIN x} = {} BY <1>2 DEF Holds
  <2>2. DOMAIN x = 1 .. Len(x) /\ Len(x) \in Nat OBVIOUS
  <2>3. Len(x) = 0
    <3> SUFFICES ASSUME Len(x) # 0 PROVE FALSE OBVIOUS
    <3>1. 1 \in DOMAIN x BY <2>2
    <3> QED BY <2>1, <3>1
  <2> QED BY <2>3
<1> QED BY <1>1, <1>2

(* Whatever an open assembler is fed, it says what is true of the events then. *)
LEMMA OpenIsFed ==
  ASSUME protocol \in Protocols, StateOK(fed, assembler), assembler.state = "open", NEW e \in Events
  PROVE StateOK(Append(fed, e), Feed(e))
<1> DEFINE s == fed
           t == Append(fed, e)
           n == Len(fed)
           r == Feed(e)
           a == assembler
<1>1. t \in Seq(Events) /\ Longer(t, s, e) /\ s \in Seq(Events) BY OneMore DEF StateOK, Longer
<1>2. a \in Assembler /\ OpenSoFar(s, a) /\ Holds(a.text, TextSoFar(s)) BY DEF StateOK
<1>3. n \in Nat /\ Piece = n + 1 /\ Piece \in Nat /\ DOMAIN s = 1 .. n /\ DOMAIN t = 1 .. n + 1 /\ Len(t) = n + 1
      /\ (\A i \in 1 .. n : t[i] = s[i]) /\ t[n + 1] = e
  BY <1>1 DEF Longer, Piece
<1>4. a.text \in Seq(Nat) /\ a.reason \in Seq(Nat) BY <1>2 DEF Assembler
<1>5. Append(a.text, Piece) \in Seq(Nat) /\ Append(a.reason, Piece) \in Seq(Nat) /\ <<Piece>> \in Seq(Nat)
  BY <1>3, <1>4
<1>6. TextSoFar(t) = IF IsText(e) THEN TextSoFar(s) \cup {Piece} ELSE TextSoFar(s)
  BY <1>3 DEF TextSoFar
<1>7. \A q \in TextSoFar(s) : q < Piece
  BY <1>3 DEF TextSoFar
<1>8. Holds(Append(a.text, Piece), TextSoFar(s) \cup {Piece})
  BY <1>2, <1>3, <1>4, <1>7, HoldsMore
<1>9. SUFFICES
        /\ r \in Assembler
        /\ r.state = "open" => OpenSoFar(t, r) /\ r.text = IF IsText(e) THEN Append(a.text, Piece) ELSE a.text
        /\ r.state = "complete" => Whole(t) /\ Holds(r.text, PiecesOf(t))
        /\ r.state = "failed" => Hopeless(t)
  <2>1. r.state = "open" => Holds(r.text, TextSoFar(t)) BY <1>2, <1>6, <1>8, <1>9
  <2> QED BY <1>1, <1>9, <2>1 DEF StateOK
<1>10. PiecesOf(t) = IF TextSoFar(t) = {} /\ protocol = "openai_responses" THEN {Piece} ELSE TextSoFar(t)
  BY <1>3 DEF PiecesOf, TextSoFar
<1>11. CASE protocol = "openai_chat"
  <2>1. Events = ChatEvents /\ r = ChatFeed(e) /\ ChatOpen(s, a) BY <1>2, <1>11 DEF Events, Feed, OpenSoFar
  <2>2. r \in Assembler
    <3>1. a \in Assembler /\ Refused \in Assembler /\ Ended \in Assembler BY <1>2 DEF Refused, Ended, Assembler
    <3>2. CASE e.k = "delta"
      <4>1. e.id \in 0 .. 2 /\ (e.finish = "stop") \in BOOLEAN /\ e.text \in BOOLEAN BY <2>1, <3>2 DEF ChatEvents, Plain
      <4>2. (IF e.text THEN Append(a.text, Piece) ELSE a.text) \in Seq(Nat) BY <1>4, <1>5
      <4>3. [a EXCEPT !.ident = e.id, !.finish = e.finish = "stop",
                      !.text = IF e.text THEN Append(@, Piece) ELSE @] \in Assembler
        BY <1>2, <4>1, <4>2 DEF Assembler
      <4> QED BY <2>1, <3>1, <3>2, <4>3 DEF ChatFeed, ChatDelta
    <3>3. CASE e.k # "delta"
      BY <2>1, <3>1, <3>3 DEF ChatFeed, ChatDone, ChatEvents, Plain
    <3> QED BY <3>2, <3>3
  <2>3. IsText(e) = (e.k = "delta" /\ e.text) BY <1>11 DEF IsText
  <2>4. /\ r.state = "open" => ChatOpen(t, r)
        /\ r.state = "complete" => e.k = "done" /\ WholeChat(t)
    BY <1>1, <1>2, <2>1, ChatStays
  <2>5. r.state = "open" => r.text = IF IsText(e) THEN Append(a.text, Piece) ELSE a.text
    BY <1>2, <2>1, <2>3 DEF ChatFeed, ChatDone, ChatDelta, Refused, Ended, Assembler, ChatEvents, Plain
  <2>6. ASSUME r.state = "complete" PROVE Holds(r.text, PiecesOf(t))
    <3>1. e.k = "done" /\ r.text = a.text BY <1>2, <2>1, <2>4, <2>6 DEF ChatFeed, ChatDone, Refused, Ended, Assembler
    <3>2. PiecesOf(t) = TextSoFar(s) BY <1>6, <1>10, <1>11, <2>3, <3>1
    <3> QED BY <1>2, <3>1, <3>2
  <2>7. ASSUME r.state = "failed" PROVE Hopeless(t)
    BY <1>1, <1>2, <1>11, <2>1, <2>7, ChatRefuses DEF Hopeless, Whole
  <2> QED BY <1>11, <2>2, <2>4, <2>5, <2>6, <2>7 DEF OpenSoFar, Whole
<1>12. CASE protocol = "openai_responses"
  <2>1. Events = ResponseEvents /\ r = ResponseFeed(e) /\ ResponseOpen(s, a) BY <1>2, <1>12 DEF Events, Feed, OpenSoFar
  <2>2. r \in Assembler
    BY <1>2, <1>4, <1>5, <2>1 DEF ResponseFeed, ResponseCompleted, Refused, Ended, Assembler, ResponseEvents, Plain
  <2>3. IsText(e) = (e.k = "text") BY <1>12 DEF IsText
  <2>4. /\ r.state = "open" => ResponseOpen(t, r)
        /\ r.state = "complete" => e.k = "completed" /\ WholeResponse(t)
    BY <1>1, <1>2, <2>1, ResponseStays
  <2>5. r.state = "open" => r.text = IF IsText(e) THEN Append(a.text, Piece) ELSE a.text
    BY <1>2, <2>1, <2>3 DEF ResponseFeed, ResponseCompleted, Refused, Ended, Assembler, ResponseEvents, Plain
  <2>6. ASSUME r.state = "complete" PROVE Holds(r.text, PiecesOf(t))
    <3>1. e.k = "completed" BY <2>4, <2>6
    <3>2. /\ ~(e.text = "else" /\ a.text # <<>>)
          /\ e.text # "none"
          /\ r.text = IF e.text = "same" /\ a.text # <<>> THEN a.text ELSE <<Piece>>
      BY <1>2, <2>1, <2>6, <3>1 DEF ResponseFeed, ResponseCompleted, Refused, Ended, Assembler
    <3>3. e.text \in {"same", "else", "none"} BY <2>1, <3>1 DEF ResponseEvents, Plain
    <3>4. TextSoFar(t) = TextSoFar(s) BY <1>6, <2>3, <3>1
    <3>5. a.text = <<>> <=> TextSoFar(s) = {}
      <4>1. TextSoFar(s) = At(s, {"text"}) BY <1>12 DEF TextSoFar, IsText, At
      <4> QED BY <2>1, <4>1 DEF ResponseOpen
    <3>6. Holds(<<Piece>>, {Piece}) BY <1>3 DEF Holds
    <3>7. CASE a.text = <<>> BY <1>10, <1>12, <3>2, <3>4, <3>5, <3>6, <3>7
    <3>8. CASE a.text # <<>> BY <1>2, <1>10, <3>2, <3>3, <3>4, <3>5, <3>8
    <3> QED BY <3>7, <3>8
  <2>7. ASSUME r.state = "failed" PROVE Hopeless(t)
    BY <1>1, <1>2, <1>12, <2>1, <2>7, ResponseRefuses DEF Hopeless, Whole
  <2> QED BY <1>12, <2>2, <2>4, <2>5, <2>6, <2>7 DEF OpenSoFar, Whole
<1>13. CASE protocol = "claude_messages"
  <2>1. Events = ClaudeEvents /\ r = ClaudeFeed(e) /\ ClaudeOpen(s, a) BY <1>2, <1>13 DEF Events, Feed, OpenSoFar
  <2>2. r \in Assembler
    BY <1>2, <1>4, <1>5, <2>1 DEF ClaudeFeed, ClaudeStep, Refused, Ended, Assembler, ClaudeEvents, Plain
  <2>3. IsText(e) = (e.k = "delta" /\ e.of = "text") BY <1>13 DEF IsText
  <2>4. /\ r.state = "open" => ClaudeOpen(t, r)
        /\ r.state = "complete" => e.k = "end" /\ WholeClaude(t)
    BY <1>1, <1>2, <2>1, ClaudeStays
  <2>5. r.state = "open" => r.text = IF IsText(e) THEN Append(a.text, Piece) ELSE a.text
    BY <1>2, <2>1, <2>3 DEF ClaudeFeed, ClaudeStep, Refused, Ended, Assembler, ClaudeEvents, Plain
  <2>6. ASSUME r.state = "complete" PROVE Holds(r.text, PiecesOf(t))
    <3>1. e.k = "end" /\ r.text = a.text BY <1>2, <2>1, <2>4, <2>6 DEF ClaudeFeed, Refused, Ended, Assembler
    <3>2. PiecesOf(t) = TextSoFar(s) BY <1>6, <1>10, <1>13, <2>3, <3>1
    <3> QED BY <1>2, <3>1, <3>2
  <2>7. ASSUME r.state = "failed" PROVE Hopeless(t)
    BY <1>1, <1>2, <1>13, <2>1, <2>7, ClaudeRefuses DEF Hopeless, Whole
  <2> QED BY <1>13, <2>2, <2>4, <2>5, <2>6, <2>7 DEF OpenSoFar, Whole
<1> QED BY <1>11, <1>12, <1>13 DEF Protocols

(* After a whole answer nothing may follow. *)
LEMMA WholeIsLast ==
  ASSUME protocol \in Protocols, NEW s \in Seq(Events), Whole(s),
         NEW w \in Seq(Events), Extends(w, s), Len(w) > Len(s)
  PROVE ~Whole(w)
<1>1. /\ Len(s) \in Nat /\ Len(w) \in Nat /\ DOMAIN s = 1 .. Len(s) /\ DOMAIN w = 1 .. Len(w)
      /\ \A i \in 1 .. Len(s) : w[i] = s[i]
  BY DEF Extends
<1>2. SUFFICES ASSUME Whole(w) PROVE FALSE OBVIOUS
<1>3. CASE protocol = "openai_chat"
  <2>1. WholeChat(s) /\ WholeChat(w) BY <1>2, <1>3 DEF Whole
  <2>2. Len(s) \in 1 .. Len(s) /\ s[Len(s)].k = "done" BY <1>1, <2>1 DEF WholeChat, At
  <2>3. w[Len(s)].k = "done" /\ Len(s) \in 1 .. Len(w) - 1 BY <1>1, <2>2
  <2>4. w[Len(s)].k \in {"delta", "usage", "other"}
    <3>1. PICK stop \in At(w, {"delta"}) :
             /\ stop < Len(w)
             /\ \A i \in 1 .. stop : w[i].k \in {"delta", "usage", "other"}
             /\ \A i \in stop + 1 .. Len(w) - 1 : w[i].k = "usage"
      BY <2>1 DEF WholeChat
    <3>2. stop \in 1 .. Len(w) BY <1>1 DEF At
    <3> QED BY <1>1, <2>3, <3>1, <3>2
  <2> QED BY <2>3, <2>4
<1>4. CASE protocol = "openai_responses"
  <2>1. WholeResponse(s) /\ WholeResponse(w) BY <1>2, <1>4 DEF Whole
  <2>2. Len(s) \in At(s, {"completed"}) /\ At(w, {"completed"}) = {Len(w)} BY <2>1 DEF WholeResponse
  <2>3. Len(s) \in At(w, {"completed"}) BY <1>1, <2>2 DEF At
  <2> QED BY <1>1, <2>2, <2>3
<1>5. CASE protocol = "claude_messages"
  <2>1. WholeClaude(s) /\ WholeClaude(w) BY <1>2, <1>5 DEF Whole
  <2>2. Len(s) \in At(s, {"end"}) /\ At(w, {"end"}) = {Len(w)} BY <2>1 DEF WholeClaude
  <2>3. Len(s) \in At(w, {"end"}) BY <1>1, <2>2 DEF At
  <2> QED BY <1>1, <2>2, <2>3
<1> QED BY <1>3, <1>4, <1>5 DEF Protocols

(* So a complete assembler refuses rightly whatever it is fed. *)
LEMMA CompleteIsFed ==
  ASSUME protocol \in Protocols, StateOK(fed, assembler), assembler.state = "complete", NEW e \in Events
  PROVE StateOK(Append(fed, e), Feed(e))
<1>1. Append(fed, e) \in Seq(Events) /\ Longer(Append(fed, e), fed, e) /\ fed \in Seq(Events) /\ Whole(fed)
  BY OneMore DEF StateOK, Longer
<1>2. Feed(e) \in Assembler /\ Feed(e).state = "failed" BY DEF Feed, Refused, Assembler, StateOK
<1>3. Hopeless(Append(fed, e))
  <2> SUFFICES ASSUME NEW w \in Seq(Events), Extends(w, Append(fed, e)) PROVE ~Whole(w) BY DEF Hopeless
  <2>1. Extends(w, fed) /\ Len(w) > Len(fed) BY <1>1 DEF Extends, Longer
  <2> QED BY <1>1, <2>1, WholeIsLast
<1> QED BY <1>1, <1>2, <1>3 DEF StateOK

(* What is said of the events is said of them by the protocol alone. *)
LEMMA StateRests == ASSUME protocol' = protocol, StateOK(fed', assembler') PROVE StateOK(fed, assembler)'
BY DEF StateOK, Events, OpenSoFar, TextSoFar, IsText, Whole, PiecesOf, Hopeless

(* Nothing was fed at first. *)
LEMMA StreamAtFirst == StreamInit => StreamInv
<1> SUFFICES ASSUME StreamInit PROVE StreamInv OBVIOUS
<1> USE DEF StreamInit
<1>1. /\ <<>> \in Seq(Events) /\ <<>> \in Seq(Nat) /\ Len(<<>>) = 0 /\ DOMAIN <<>> = {}
  OBVIOUS
<1>2. StreamTypeOK BY <1>1, StreamAssumption DEF StreamTypeOK, Holding, NewAssembler
<1>3. NewAssembler \in Assembler BY <1>1 DEF NewAssembler, Assembler
<1>4. TextSoFar(<<>>) = {} BY <1>1 DEF TextSoFar
<1>5. \A K : At(<<>>, K) = {} BY <1>1 DEF At
<1>6. OpenSoFar(<<>>, NewAssembler)
  <2>1. /\ NewAssembler.text = <<>> /\ NewAssembler.reason = <<>> /\ NewAssembler.ident = 0 /\ ~NewAssembler.finish
        /\ ~NewAssembler.started /\ NewAssembler.block = "none"
    BY DEF NewAssembler
  <2>2. ChatOpen(<<>>, NewAssembler) BY <1>1, <1>5, <2>1 DEF ChatOpen
  <2>3. ResponseOpen(<<>>, NewAssembler) BY <1>1, <1>5, <2>1 DEF ResponseOpen
  <2>4. ClaudeOpen(<<>>, NewAssembler) BY <1>1, <1>5, <2>1 DEF ClaudeOpen, Blocks
  <2> QED BY <2>2, <2>3, <2>4 DEF OpenSoFar, Protocols
<1>7. Holds(NewAssembler.text, {}) BY HoldsNothing DEF NewAssembler
<1>8. StateOK(fed, assembler) BY <1>1, <1>3, <1>4, <1>6, <1>7 DEF StateOK, NewAssembler
<1> QED BY <1>2, <1>8 DEF StreamInv, NewAssembler

(* An event at a time, and wherever a chunk or the body ends. *)
LEMMA StreamGoesOn == StreamInv /\ [StreamNext]_streamVars => StreamInv'
<1> SUFFICES ASSUME StreamInv, [StreamNext]_streamVars PROVE StreamInv' OBVIOUS
<1>1. /\ StreamTypeOK /\ StateOK(fed, assembler) /\ protocol \in Protocols /\ MaxEvents \in Nat
      /\ assembler \in Assembler /\ fed \in Seq(Events) /\ Len(fed) \in Nat
  BY StreamAssumption DEF StreamInv, StreamTypeOK, StateOK
<1>2. ASSUME NEW e \in Events, assembler.state # "failed", Len(fed) < MaxEvents,
             protocol' = protocol, fed' = Append(fed, e), assembler' = Feed(e)
      PROVE /\ StateOK(fed, assembler)' /\ Len(fed') <= MaxEvents
            /\ assembler'.state \in {"open", "complete", "failed"}
            /\ assembler.state = "complete" => assembler'.state = "failed"
  <2>1. StateOK(fed', assembler')
    BY <1>1, <1>2, OpenIsFed, CompleteIsFed DEF Assembler
  <2>2. assembler' \in Assembler BY <2>1 DEF StateOK
  <2>3. Len(fed') = Len(fed) + 1 BY <1>1, <1>2, OneMore
  <2>4. assembler.state = "complete" => assembler'.state = "failed" BY <1>1, <1>2 DEF Feed, Refused, Assembler
  <2> QED BY <1>1, <1>2, <2>1, <2>2, <2>3, <2>4, StateRests DEF Assembler
<1>3. ASSUME protocol' = protocol, fed' = fed, assembler' = assembler
      PROVE /\ StateOK(fed, assembler)' /\ Len(fed') <= MaxEvents
            /\ assembler'.state \in {"open", "complete", "failed"}
  BY <1>1, <1>3, StateRests DEF StreamTypeOK
<1>4. ASSUME NEW e \in Events, ConsumeEvent(e) PROVE StreamInv'
  <2>1. /\ protocol' = protocol /\ fed' = Append(fed, e) /\ assembler' = Feed(e) /\ Len(fed) < MaxEvents
        /\ coming' = "nothing" /\ assembler.state # "failed"
        /\ reading' = IF assembler'.state = "failed" THEN "failed" ELSE "chunk"
    BY <1>4 DEF ConsumeEvent, Fails, StreamInv
  <2> QED BY <1>1, <1>2, <2>1 DEF StreamInv, StreamTypeOK, Holding
<1>5. ASSUME NEW e \in Events, EndOfBody(e) PROVE StreamInv'
  <2>1. /\ protocol' = protocol /\ coming' = "nothing" /\ assembler.state = "open"
        /\ \/ Len(fed) < MaxEvents /\ fed' = Append(fed, e) /\ assembler' = Feed(e)
           \/ fed' = fed /\ assembler' = assembler
        /\ IF assembler'.state = "complete" THEN reading' = "accepted" /\ answer' = assembler'.text
                                            ELSE reading' = "failed"
    BY <1>5 DEF EndOfBody, Fails, StreamInv
  <2>2. /\ StateOK(fed, assembler)' /\ Len(fed') <= MaxEvents
        /\ assembler'.state \in {"open", "complete", "failed"}
    BY <1>2, <1>3, <2>1
  <2> QED BY <1>1, <2>1, <2>2 DEF StreamInv, StreamTypeOK, Holding
<1>6. ASSUME NEW held \in Holding, EndChunk(held) PROVE StreamInv'
  <2>1. /\ UNCHANGED <<protocol, fed, assembler>> /\ coming' = held /\ assembler.state # "failed"
        /\ \/ assembler.state = "open" /\ reading' = "between"
           \/ assembler.state = "complete" /\ reading' = "accepted" /\ answer' = assembler.text
           \/ reading' = "failed"
    BY <1>6 DEF EndChunk, Fails, StreamInv
  <2> QED BY <1>1, <1>3, <2>1 DEF StreamInv, StreamTypeOK
<1>7. CASE DropComment \/ ReadBreaks \/ UNCHANGED streamVars
  <2>1. /\ UNCHANGED <<protocol, fed, assembler, answer>> /\ coming' \in Holding
        /\ reading' = reading \/ reading' = "failed"
    BY <1>1, <1>7 DEF DropComment, ReadBreaks, Fails, streamVars, StreamTypeOK, Holding
  <2> QED BY <1>1, <1>3, <2>1 DEF StreamInv, StreamTypeOK
<1> QED BY <1>4, <1>5, <1>6, <1>7 DEF StreamNext

(* In each of the three protocols, for streams of any length that end, break or    *)
(* contradict themselves anywhere: the assembler calls complete exactly the whole *)
(* answers, and the text that is returned is all of the text of one, in order    *)
(* (llm_stream.py: StreamAssembler, consume).                                *)
THEOREM AnswerIsWholeTheorem == StreamSpec => []AnswerIsWhole
<1>1. StreamInv => AnswerIsWhole
  <2> SUFFICES ASSUME StreamInv PROVE AnswerIsWhole OBVIOUS
  <2>1. /\ StreamTypeOK /\ protocol \in Protocols /\ fed \in Seq(Events) /\ assembler \in Assembler
        /\ StateOK(fed, assembler)
    BY DEF StreamInv, StreamTypeOK, StateOK
  <2>2. ASSUME assembler.state = "open", Whole(fed) PROVE FALSE
    <3>1. DOMAIN fed = 1 .. Len(fed) /\ OpenSoFar(fed, assembler) BY <2>1, <2>2 DEF StateOK
    <3>2. CASE protocol = "openai_chat"
      <4>1. WholeChat(fed) /\ ChatOpen(fed, assembler) BY <2>2, <3>1, <3>2 DEF Whole, OpenSoFar
      <4>2. Len(fed) \in DOMAIN fed /\ fed[Len(fed)].k = "done" BY <2>1, <3>1, <4>1 DEF WholeChat, At
      <4> QED BY <4>1, <4>2 DEF ChatOpen
    <3>3. CASE protocol = "openai_responses"
      <4>1. WholeResponse(fed) /\ ResponseOpen(fed, assembler) BY <2>2, <3>1, <3>3 DEF Whole, OpenSoFar
      <4>2. Len(fed) \in At(fed, {"completed"}) BY <4>1 DEF WholeResponse
      <4> QED BY <4>1, <4>2 DEF ResponseOpen, At
    <3>4. CASE protocol = "claude_messages"
      <4>1. WholeClaude(fed) /\ ClaudeOpen(fed, assembler) BY <2>2, <3>1, <3>4 DEF Whole, OpenSoFar
      <4>2. Len(fed) \in At(fed, {"end"}) BY <4>1 DEF WholeClaude
      <4>3. At(fed, {"end"}) \subseteq At(fed, {"end", "bad"}) BY DEF At
      <4> QED BY <4>1, <4>2, <4>3 DEF ClaudeOpen
    <3> QED BY <2>1, <3>2, <3>3, <3>4 DEF Protocols
  <2>3. ASSUME assembler.state = "failed", Whole(fed) PROVE FALSE
    <3>1. Extends(fed, fed) /\ Hopeless(fed) BY <2>1, <2>3 DEF Extends, StateOK
    <3> QED BY <2>1, <2>3, <3>1 DEF Hopeless
  <2>4. Whole(fed) <=> assembler.state = "complete" BY <2>1, <2>2, <2>3 DEF StateOK, Assembler
  <2>5. reading = "accepted" => Whole(fed) /\ Holds(answer, PiecesOf(fed))
    BY <2>1 DEF StreamInv, StateOK
  <2> QED BY <2>1, <2>4, <2>5 DEF AnswerIsWhole
<1> QED BY <1>1, StreamAtFirst, StreamGoesOn, PTL DEF StreamSpec

(* In each of the three protocols, whatever was fed before: an event is refused     *)
(* only if no events that could follow make an answer of it (StreamAssembler).   *)
THEOREM RefusedForGoodTheorem == StreamSpec => []RefusedForGood
<1>1. StreamInv => RefusedForGood
  <2> SUFFICES ASSUME StreamInv, assembler.state = "failed", NEW n \in 0 .. MaxAhead, NEW more \in [1 .. n -> Events]
               PROVE ~Whole(fed \o more)
    BY DEF RefusedForGood
  <2>1. Hopeless(fed) /\ fed \in Seq(Events) BY DEF StreamInv, StateOK
  <2>2. n \in Nat BY StreamAssumption
  <2>3. more \in Seq(Events) BY <2>2
  <2>4. fed \o more \in Seq(Events) /\ Extends(fed \o more, fed) BY <2>1, <2>3 DEF Extends
  <2> QED BY <2>1, <2>4 DEF Hopeless
<1> QED BY <1>1, StreamAtFirst, StreamGoesOn, PTL DEF StreamSpec
=============================================================================
