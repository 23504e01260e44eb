---------------------------- MODULE ScenarioShadow ----------------------------
(* The shadow monitor of research scenarios (scripts/scenario_shadow.py and    *)
(* scenario_entry.py): once per closed five-minute candle a process claims the *)
(* frame, collects it and advances the candidates of its scope, together with  *)
(* their events, in one transaction.  Time is counted in frames; what the      *)
(* candles say of a candidate is chosen.                                      *)
EXTENDS Naturals, FiniteSets

CONSTANTS
  Key,          \* scenarios of one instrument and direction
  Monitor,      \* processes of the minute scheduler, which may overlap
  Hour,         \* frames that share an hour anchor
  Life,         \* frames after which a candidate expires
  Remember,         \* frames for which a consumed token is remembered
  MaxFrames, MaxResets,
  NoCandidate

Frames == 0 .. MaxFrames
Ended == {"triggered", "invalidated", "expired", "rejected"}
Candidate == [born : Frames, status : {"armed"} \cup Ended]

ASSUME ShadowAssumption ==
  /\ {Hour, Life, Remember} \subseteq Nat \ {0} /\ Hour <= Remember
  /\ MaxFrames \in Nat \ {0} /\ MaxResets \in Nat
  /\ NoCandidate \notin Candidate

VARIABLES
  frameNow,     \* the last closed frame
  attempts,     \* frames that were claimed
  period,       \* the statistics epoch of the scope, 0 while there is none
  research,     \* the stored state of the scope
  evidence,     \* the events of the scope
  monitor,      \* what each process is at, and for which frame
  watched       \* valid frames that were applied since the epoch began (history)

shadowVars == <<frameNow, attempts, period, research, evidence, monitor, watched>>

Anchor(at) == at \div Hour

(* What a process may have collected: an instrument that is not supported has *)
(* no candles; a valid frame shows what became of each armed candidate and     *)
(* which scenarios could begin, with a sufficient ratio or not.               *)
Bars == [Key -> {"quiet", "broken", "chased", "crossed"}]
Frame == [is : {"unsupported", "unavailable"}]
         \cup [is : {"valid"}, bars : Bars, plans : SUBSET Key, poor : BOOLEAN]

NewResearch(e) == [period |-> e, last |-> 0, valid |-> 0,
             candidates |-> [k \in Key |-> NoCandidate], consumed |-> {}]

ScenarioEvent(kind, k, c, at) == [kind |-> kind, key |-> k, born |-> c.born, at |-> at, period |-> period]

(* Seeded fault: an unreadable frame counts as observed.                     *)
MissedOfAttempts(s, at) == s.last # 0 /\ at # s.last + 1

(* No retroactive trigger: the last valid frame is not the one before this.   *)
Missed(s, at) == s.valid # 0 /\ at # s.valid + 1

(* What a frame makes of an armed candidate.                                 *)
Verdict(s, at, f, k, c) ==
  CASE at >= c.born + Life -> "expired"
    [] at < c.born + Life /\ Missed(s, at) -> "invalidated"
    [] at < c.born + Life /\ ~Missed(s, at) /\ f.is = "unsupported" -> "rejected"
    [] at < c.born + Life /\ ~Missed(s, at) /\ f.is = "unavailable" -> "armed"
    [] OTHER -> CASE f.bars[k] = "broken" -> "invalidated"
                  [] f.bars[k] = "chased" -> "rejected"
                  [] f.bars[k] = "crossed" -> "triggered"
                  [] OTHER -> "armed"

Judged(s, at, f) == [k \in Key |->
  LET c == s.candidates[k] IN
  IF c = NoCandidate \/ c.status # "armed" THEN c
  ELSE [c EXCEPT !.status = Verdict(s, at, f, k, c)]]

(* The scenarios that begin: a frozen armed candidate is not replaced, and     *)
(* each scenario has one hypothesis per hour anchor.                         *)
Begun(s, at, f) ==
  IF f.is # "valid" \/ Missed(s, at) THEN {}
  ELSE {k \in f.plans :
          /\ Judged(s, at, f)[k] = NoCandidate \/ Judged(s, at, f)[k].status # "armed"
          /\ \A t \in s.consumed : t.key = k => t.anchor # Anchor(at)}

Born(at, f) == [born |-> at, status |-> IF f.poor THEN "rejected" ELSE "armed"]

(* advance, for a frame that is later than the last one.                     *)
Advanced(s, at, f) ==
  LET new == Begun(s, at, f)
      tokens == s.consumed \cup {[key |-> k, anchor |-> Anchor(at), at |-> at] : k \in new}
  IN [s EXCEPT !.last = at,
               !.valid = IF f.is = "valid" THEN at ELSE @,
               !.candidates = [k \in Key |-> IF k \in new THEN Born(at, f) ELSE Judged(s, at, f)[k]],
               !.consumed = {t \in tokens : t.at + Remember >= at}]

EventsOf(s, at, f) ==
  {ScenarioEvent(Judged(s, at, f)[k].status, k, s.candidates[k], at) :
     k \in {j \in Key : Judged(s, at, f)[j] # s.candidates[j]}}
  \cup {ScenarioEvent(IF f.poor THEN "rejected" ELSE "created", k, [born |-> at], at) :
          k \in Begun(s, at, f)}

(* An epoch that began meanwhile starts the research afresh.                 *)
ResearchNow == IF period # 0 /\ research.period # period THEN NewResearch(period) ELSE research

ShadowInit ==
  /\ frameNow = 1 /\ attempts = {} /\ period = 0 /\ research = NewResearch(0) /\ evidence = {}
  /\ monitor = [m \in Monitor |-> [at |-> "idle", frame |-> 0]]
  /\ watched = {}

(* A five-minute candle closes.                                              *)
CandleCloses ==
  /\ frameNow < MaxFrames /\ frameNow' = frameNow + 1
  /\ UNCHANGED <<attempts, period, research, evidence, monitor, watched>>

(* run_once computes the frame from the clock ...                             *)
ComputeFrame(m) ==
  /\ monitor[m].at = "idle"
  /\ monitor' = [monitor EXCEPT ![m] = [at |-> "begun", frame |-> frameNow]]
  /\ UNCHANGED <<frameNow, attempts, period, research, evidence, watched>>

(* Seeded fault: the claim is not looked at.                                 *)
ClaimFrameNot(m) ==
  /\ monitor[m].at = "begun"
  /\ attempts' = attempts \cup {monitor[m].frame}
  /\ monitor' = [monitor EXCEPT ![m].at = "collecting"]
  /\ UNCHANGED <<frameNow, period, research, evidence, watched>>

(* ... and claims it, before anything is collected.                          *)
ClaimFrame(m) ==
  /\ monitor[m].at = "begun"
  /\ attempts' = attempts \cup {monitor[m].frame}
  /\ monitor' = [monitor EXCEPT ![m].at = IF monitor[m].frame \in attempts THEN "idle" ELSE "collecting"]
  /\ UNCHANGED <<frameNow, period, research, evidence, watched>>

(* apply_frames: state and events in one transaction; a frame that is earlier *)
(* than the last one raises, and a second delivery of it changes nothing.     *)
ApplyFrame(m, f) ==
  LET at == monitor[m].frame IN
  /\ monitor[m].at = "collecting"
  /\ monitor' = [monitor EXCEPT ![m] = [at |-> "idle", frame |-> 0]]
  /\ IF at <= ResearchNow.last
       THEN /\ research' = IF at = ResearchNow.last THEN ResearchNow ELSE research
            /\ UNCHANGED <<evidence, watched>>
       ELSE /\ research' = Advanced(ResearchNow, at, f)
            /\ evidence' = evidence \cup EventsOf(ResearchNow, at, f)
            /\ watched' = (IF ResearchNow = research THEN watched ELSE {})
                          \cup (IF f.is = "valid" THEN {at} ELSE {})
  /\ UNCHANGED <<frameNow, attempts, period>>

(* The process is killed, or its collection budget ends in an exception.      *)
MonitorDies(m) ==
  /\ monitor[m].at # "idle"
  /\ monitor' = [monitor EXCEPT ![m] = [at |-> "idle", frame |-> 0]]
  /\ UNCHANGED <<frameNow, attempts, period, research, evidence, watched>>

(* The operator resets the statistics.                                       *)
ResetEpoch ==
  /\ period < MaxResets /\ period' = period + 1
  /\ UNCHANGED <<frameNow, attempts, research, evidence, monitor, watched>>

ShadowNext ==
  \/ CandleCloses \/ ResetEpoch
  \/ \E m \in Monitor : \/ ComputeFrame(m) \/ ClaimFrame(m) \/ MonitorDies(m)
                        \/ \E f \in Frame : ApplyFrame(m, f)

ShadowSpec == ShadowInit /\ [][ShadowNext]_shadowVars

ShadowTypeOK ==
  /\ frameNow \in Frames /\ attempts \subseteq Frames /\ period \in 0 .. MaxResets
  /\ research \in [period : 0 .. period, last : Frames, valid : Frames,
                   candidates : [Key -> {NoCandidate} \cup Candidate],
                   consumed : SUBSET [key : Key, anchor : Frames, at : Frames]]
  /\ evidence \subseteq [kind : {"created"} \cup Ended, key : Key, born : Frames, at : Frames,
                     period : 0 .. period]
  /\ monitor \in [Monitor -> [at : {"idle", "begun", "collecting"}, frame : Frames]]
  /\ watched \subseteq Frames

(* "monitoring_gap_no_retroactive_trigger": a candidate triggers before it      *)
(* expires, and only if every frame since it was created was seen; a process   *)
(* that died with its claim, or an unreadable frame, leaves a gap.            *)
WatchedThroughout ==
  \A e \in evidence : e.kind = "triggered" =>
    /\ e.at < e.born + Life
    /\ e.period = research.period => e.born .. e.at \subseteq watched

(* "At most one hypothesis per scenario/direction/hour anchor", in an epoch.  *)
Hypotheses == {<<e.key, e.born, e.period>> : e \in {d \in evidence : d.kind = "created" \/ d.at = d.born}}
OneHypothesis ==
  \A g, h \in Hypotheses : g[1] = h[1] /\ g[3] = h[3] /\ Anchor(g[2]) = Anchor(h[2]) => g = h

(* "a restart cannot duplicate a trigger" (apply_frames): a candidate ends      *)
(* once, and state and events tell the same of it.                            *)
EvidenceAgrees ==
  /\ \A d, e \in evidence : d.key = e.key /\ d.born = e.born /\ {d.kind, e.kind} \subseteq Ended => d = e
  /\ \A k \in Key : LET c == research.candidates[k] IN
       c # NoCandidate =>
         IF c.status = "armed"
           THEN \A e \in evidence : e.key = k /\ e.born = c.born => e.kind = "created"
           ELSE \E e \in evidence : e.key = k /\ e.born = c.born /\ e.kind = c.status

(* What a reader of the research may take from its records.                   *)
ShadowSafe == ShadowTypeOK /\ WatchedThroughout /\ OneHypothesis /\ EvidenceAgrees
=============================================================================
