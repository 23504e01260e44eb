------------------------------ MODULE WaitAudit -------------------------------
(* What an account remembers of the model's decision to wait                   *)
(* (scripts/wait_audit.py), from one cycle of the model to the next, and the      *)
(* local repair of a wait that lacks a review (wait_repair.py).  A wait names     *)
(* what would make the model look again: a fact above a threshold, or a fact     *)
(* that is missing now.  One instrument, one direction and one fact stand for     *)
(* all of them; the account's baseline may be reset.  A cycle's frame has a        *)
(* name of its own.                                                          *)
EXTENDS Naturals

CONSTANTS
  MaxFact,              \* the fact takes the values 0 .. MaxFact, or is missing
  Missing,
  Available,            \* the condition that a missing fact is there
  Hour,                 \* REVIEW_MAX_AGE
  NoWait, NoPrior, NoFile,
  MaxClock, MaxResets   \* bounds

Condition == (0 .. MaxFact) \cup {Available}
Fact == (0 .. MaxFact) \cup {Missing}
Wait == [at : 0 .. MaxClock, anchor : 0 .. MaxClock, condition : Condition, value : Fact]
AuditFile == [cycle : 0 .. MaxResets, verified : Wait \cup {NoWait}]
Prior == [condition : Condition, required : BOOLEAN, changed : BOOLEAN]

ASSUME WaitAssumption ==
  /\ {MaxFact, Hour, MaxClock} \subseteq Nat /\ MaxResets \in Nat \ {0}
  /\ NoWait \notin Wait \cup [condition : Condition, since : 0 .. MaxClock] /\ NoFile \notin AuditFile /\ NoPrior \notin Prior

VARIABLES
  elapsed,
  fact,                 \* what the market shows
  baseline,             \* the account's cycle: 0 if no baseline is configured
  stored,               \* wait_audit_<scope>.json
  frame,                \* the model's cycle
  standing,             \* history: the conditions in force, and since when nobody reviewed them
  silent                \* history: a wait passed although it had to be reviewed

waitVars == <<elapsed, fact, baseline, stored, frame, standing, silent>>

(* evaluate                                                                  *)
Check(condition, value) ==
  IF condition = Available THEN IF value # Missing THEN "met" ELSE "not_met"
  ELSE IF value = Missing THEN "unknown"
  ELSE IF value > condition THEN "met" ELSE "not_met"

(* _load: of another cycle of the account nothing is taken over.  A new file   *)
(* is not marked with the cycle.                                            *)
Loaded ==
  IF stored = NoFile THEN [cycle |-> 0, verified |-> NoWait]
  ELSE IF baseline # 0 /\ stored.cycle # baseline THEN [cycle |-> baseline, verified |-> NoWait]
  ELSE stored

WaitInit ==
  /\ elapsed = 0 /\ fact \in Fact
  /\ baseline \in {0, 1} /\ stored = NoFile
  /\ frame = [at |-> "idle"]
  /\ standing = NoWait /\ silent = FALSE

-----------------------------------------------------------------------------
(* prepare: the last verified wait is compared with the facts of the frame.    *)
PriorOf(verified, value) ==
  IF verified = NoWait THEN NoPrior
  ELSE [condition |-> verified.condition,
        required |-> Check(verified.condition, value) # "not_met" \/ elapsed - verified.anchor >= Hour,
        changed |-> value # Missing /\ value # verified.value]

FreezeFacts ==
  /\ frame.at = "idle"
  /\ frame' = [at |-> "asking", taken |-> elapsed, fact |-> fact, prior |-> PriorOf(Loaded.verified, fact)]
  /\ UNCHANGED <<elapsed, fact, baseline, stored, standing, silent>>

(* Seeded fault: new conditions need no review.                               *)
ReviewOwedWhenFired(prior, condition, review) ==
  review # "none" \/ (prior # NoPrior /\ prior.required)

(* What fired, stood for an hour or is set anew has to be reviewed.            *)
ReviewOwed(prior, condition, review) ==
  \/ review # "none"
  \/ prior # NoPrior /\ (prior.required \/ condition # prior.condition)

(* validate: the new conditions do not hold yet, and a review that is due       *)
(* names the previous wait and cites a fact that changed since.               *)
AuditedWait(prior, value, condition, review) ==
  /\ Check(condition, value) = "not_met"
  /\ ReviewOwed(prior, condition, review) =>
       prior # NoPrior /\ review = "exact" /\ prior.changed

(* _deterministic_previous_review: a review that is missing or names another    *)
(* wait is made of the facts that changed, and all is validated again.         *)
Repaired(prior, condition, review) ==
  IF prior # NoPrior /\ ReviewOwed(prior, condition, review) /\ review # "exact" /\ prior.changed
  THEN "exact" ELSE review

Decide(outcome, condition, review) ==
  frame' = [at |-> "decided", taken |-> frame.taken, fact |-> frame.fact, outcome |-> outcome,
            condition |-> condition, reviewed |-> review = "exact"]

(* The model waits.  A wait that is incomplete is repaired, unless something     *)
(* else in the answer is to be acted on (busy).                               *)
ModelWaits(condition, review, busy) ==
  /\ frame.at = "asking"
  /\ LET repaired == IF busy \/ AuditedWait(frame.prior, frame.fact, condition, review)
                     THEN review ELSE Repaired(frame.prior, condition, review)
     IN IF AuditedWait(frame.prior, frame.fact, condition, repaired)
        THEN Decide("audited_wait", condition, repaired)
        ELSE Decide("incomplete", condition, repaired)
  /\ UNCHANGED <<elapsed, fact, baseline, stored, standing, silent>>

(* The model enters, or nothing of its row can be used: an entry the checks of   *)
(* the executor refuse is shown as a wait without an audit.                    *)
ModelEnters(outcome) ==
  /\ frame.at = "asking"
  /\ outcome \in {"entry_candidate", "execution_rejected", "incomplete"}
  /\ Decide(outcome, Available, "none")
  /\ UNCHANGED <<elapsed, fact, baseline, stored, standing, silent>>

-----------------------------------------------------------------------------
(* Seeded fault: each verified wait is a review of the one before.            *)
AnchorAtLast(previous) == elapsed

(* An unchanged wait that nobody reviewed keeps its age.                      *)
Anchor(previous) ==
  IF previous # NoWait /\ previous.condition = frame.condition /\ ~frame.reviewed
  THEN previous.anchor ELSE elapsed

(* What commit leaves of the verified wait: only an entry ends it.             *)
VerifiedAfter(previous) ==
  CASE frame.outcome = "audited_wait" ->
         [at |-> elapsed, anchor |-> Anchor(previous), condition |-> frame.condition, value |-> frame.fact]
    [] frame.outcome = "entry_candidate" -> NoWait
    [] OTHER -> previous

(* History: conditions stand since they were set or reviewed.                 *)
Stand ==
  LET again == standing # NoWait /\ standing.condition = frame.condition /\ ~frame.reviewed
      silently == /\ standing # NoWait /\ ~frame.reviewed
                  /\ \/ standing.condition # frame.condition
                     \/ Check(standing.condition, frame.fact) # "not_met"
                     \/ frame.taken - standing.since >= Hour
  IN CASE frame.outcome = "audited_wait" ->
            /\ standing' = IF stored = NoFile /\ baseline # 0 THEN NoWait
                           ELSE IF again THEN standing
                           ELSE [condition |-> frame.condition, since |-> elapsed]
            /\ silent' = (silent \/ silently)
       [] frame.outcome = "entry_candidate" -> standing' = NoWait /\ UNCHANGED silent
       [] OTHER -> UNCHANGED <<standing, silent>>

CommitAudit ==
  /\ frame.at = "decided"
  /\ stored' = [Loaded EXCEPT !.verified = VerifiedAfter(@)]
  /\ frame' = [at |-> "committed"]
  /\ Stand
  /\ UNCHANGED <<elapsed, fact, baseline>>

(* The audit cannot be written: the waits of this cycle are not valid.         *)
CommitFails ==
  /\ frame.at = "decided" /\ frame' = [at |-> "committed"]
  /\ UNCHANGED <<elapsed, fact, baseline, stored, standing, silent>>

EndFrame ==
  /\ frame.at = "committed" /\ frame' = [at |-> "idle"]
  /\ UNCHANGED <<elapsed, fact, baseline, stored, standing, silent>>

(* record_failure, at any point of the cycle: what was verified stays.          *)
FrameFails ==
  /\ frame.at # "idle" /\ frame' = [at |-> "idle"]
  /\ stored' = Loaded
  /\ UNCHANGED <<elapsed, fact, baseline, standing, silent>>

(* The process dies, or the failure cannot be recorded.                       *)
FrameDies ==
  /\ frame.at \in {"asking", "decided"} /\ frame' = [at |-> "idle"]
  /\ UNCHANGED <<elapsed, fact, baseline, stored, standing, silent>>

-----------------------------------------------------------------------------
(* The baseline of the account is set or reset, and with it the history.       *)
ResetBaseline ==
  /\ baseline < MaxResets /\ baseline' = baseline + 1
  /\ standing' = NoWait
  /\ UNCHANGED <<elapsed, fact, stored, frame, silent>>

FactChanges(value) ==
  /\ value # fact /\ fact' = value
  /\ UNCHANGED <<elapsed, baseline, stored, frame, standing, silent>>

TimePasses ==
  /\ elapsed < MaxClock /\ elapsed' = elapsed + 1
  /\ UNCHANGED <<fact, baseline, stored, frame, standing, silent>>

WaitNext ==
  \/ FreezeFacts
  \/ \E c \in Condition, r \in {"none", "exact", "other"}, busy \in BOOLEAN : ModelWaits(c, r, busy)
  \/ \E o \in {"entry_candidate", "execution_rejected", "incomplete"} : ModelEnters(o)
  \/ CommitAudit \/ CommitFails \/ EndFrame \/ FrameFails \/ FrameDies
  \/ ResetBaseline \/ TimePasses \/ \E value \in Fact : FactChanges(value)

WaitSpec == WaitInit /\ [][WaitNext]_waitVars

-----------------------------------------------------------------------------
WaitTypeOK ==
  /\ elapsed \in 0 .. MaxClock /\ fact \in Fact /\ baseline \in 0 .. MaxResets
  /\ stored \in AuditFile \cup {NoFile}
  /\ frame.at \in {"idle", "asking", "decided", "committed"}

(* "The original threshold may not be moved silently" (INSTRUCTIONS): whatever   *)
(* fails, is incomplete, dies or is repaired between, an account does not go on   *)
(* waiting when its conditions were met or cannot be told, were replaced, or      *)
(* stood unreviewed for an hour, without a review that cites what changed.        *)
(* Excepted is the first wait of an account whose baseline was configured: its     *)
(* file does not carry the cycle yet, and the next frame forgets it.            *)
NoSilentWait == WaitTypeOK /\ ~silent
=============================================================================
