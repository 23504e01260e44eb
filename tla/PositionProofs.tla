--------------------------- MODULE PositionProofs ----------------------------
(***************************************************************************)
(* Proofs about the parts of MCPositions: the research of scenarios, whose   *)
(* events must agree with its records, the change of the account, which must  *)
(* leave nothing behind, the care of a position by two programs, neither of   *)
(* which may forget an amendment or loosen a stop, the trader's cycle, which   *)
(* may not lose count of its slots and scale-ins, and the fuse of the equity,  *)
(* which nothing but profit may release.                                     *)
(***************************************************************************)
EXTENDS ScenarioShadow, AccountBinding, PositionCare, TraderCycle, EquityGuard, FiniteSetTheorems, WellFoundedInduction, TLAPS

-----------------------------------------------------------------------------
(* The shadow monitor. *)

(* Frames further apart than an hour have anchors of their own. *)
LEMMA AnchorsApart ==
  ASSUME NEW a \in Nat, NEW b \in Nat
  PROVE /\ Anchor(a) \in 0 .. a
        /\ a + Hour <= b => Anchor(a) # Anchor(b)
<1> USE ShadowAssumption DEF Anchor
<1>1. a \div Hour \in Nat /\ b \div Hour \in Nat OBVIOUS
<1>2. Hour * (a \div Hour) <= a /\ a < Hour * (a \div Hour) + Hour OBVIOUS
<1>3. Hour * (b \div Hour) <= b /\ b < Hour * (b \div Hour) + Hour OBVIOUS
<1>4. a \div Hour <= a OBVIOUS
<1> QED BY <1>1, <1>2, <1>3, <1>4

(* A frame is applied once: whoever collects it has claimed it, alone. *)
ClaimInv ==
  /\ \A m \in Monitor : monitor[m].at # "idle" => monitor[m].frame >= 1
  /\ \A m \in Monitor : monitor[m].at = "collecting" =>
       /\ monitor[m].frame \in attempts
       /\ \A e \in evidence : e.born # monitor[m].frame
       /\ \A n \in Monitor \ {m} : monitor[n].at = "collecting" => monitor[n].frame # monitor[m].frame
  /\ \A e \in evidence : e.born \in attempts /\ e.born <= e.at /\ e.period <= research.period

(* What the research knows of a candidate: an armed one was watched since it     *)
(* began, and the events tell of each what its record tells.                   *)
Told(k, c) == \E e \in evidence :
  e.key = k /\ e.born = c.born /\ (c.status # "armed" => e.kind = c.status)

CandidatesOK(s, w) == \A k \in Key : LET c == s.candidates[k] IN c # NoCandidate =>
  /\ c.born <= s.last /\ Told(k, c)
  /\ c.status = "armed" =>
       /\ c.born <= s.valid /\ s.valid >= 1 /\ c.born .. s.valid \subseteq w
       /\ \A e \in evidence : e.key = k /\ e.born = c.born => e.kind = "created"

(* A hypothesis is remembered for as long as its hour anchor may come again.      *)
Begins(e) == e.kind = "created" \/ e.at = e.born
TokensOK(s) == \A e \in evidence : e.period = s.period /\ Begins(e) =>
  \/ [key |-> e.key, anchor |-> Anchor(e.born), at |-> e.born] \in s.consumed
  \/ e.born + Remember < s.last

ShadowInv ==
  /\ ShadowTypeOK /\ ClaimInv
  /\ research.valid <= research.last /\ frameNow >= 1
  /\ CandidatesOK(research, watched) /\ TokensOK(research)
  /\ WatchedThroughout /\ OneHypothesis /\ EvidenceAgrees

Research == [period : Nat, last : Frames, valid : Frames, candidates : [Key -> {NoCandidate} \cup Candidate],
             consumed : SUBSET [key : Key, anchor : Frames, at : Frames]]
WatchedNow == IF ResearchNow = research THEN watched ELSE {}

(* An epoch that began meanwhile starts with nothing, and all that is known of    *)
(* the one before stays true of it.                                          *)
LEMMA ResearchGoesOn ==
  ASSUME ShadowInv
  PROVE /\ ResearchNow \in Research /\ ResearchNow.period = period /\ ResearchNow.valid <= ResearchNow.last
        /\ ResearchNow = research \/ (ResearchNow.last = 0 /\ research.period < period)
        /\ CandidatesOK(ResearchNow, WatchedNow) /\ TokensOK(ResearchNow) /\ WatchedNow \subseteq Frames
<1> USE ShadowAssumption DEF ShadowInv, ShadowTypeOK
<1>1. research \in Research /\ research.period <= period BY DEF Research
<1>2. CASE period # 0 /\ research.period # period
  <2> DEFINE s == NewResearch(period)
  <2>1. ResearchNow = s BY <1>2 DEF ResearchNow
  <2>2. 0 \in Frames /\ period \in Nat BY DEF Frames
  <2>a. {} \in SUBSET [key : Key, anchor : Frames, at : Frames] OBVIOUS
  <2>b. [k \in Key |-> NoCandidate] \in [Key -> {NoCandidate} \cup Candidate] OBVIOUS
  <2>3. s \in Research BY <2>2, <2>a, <2>b DEF NewResearch, Research
  <2>4. s.period = period /\ s.last = 0 /\ s.valid = 0 /\ \A k \in Key : s.candidates[k] = NoCandidate
    BY DEF NewResearch
  <2>5. research.period < period /\ s # research BY <1>1, <1>2, <2>4 DEF Research
  <2>6. CandidatesOK(s, WatchedNow) BY <2>4 DEF CandidatesOK
  <2>7. TokensOK(s) BY <2>4, <2>5, <1>1, <2>2 DEF TokensOK, ClaimInv, Research
  <2> QED BY <2>1, <2>3, <2>4, <2>5, <2>6, <2>7 DEF WatchedNow
<1>3. CASE ~(period # 0 /\ research.period # period)
  <2>1. ResearchNow = research BY <1>3 DEF ResearchNow
  <2>2. research.period = period BY <1>1, <1>3 DEF Research
  <2> QED BY <1>1, <2>1, <2>2 DEF WatchedNow
<1> QED BY <1>2, <1>3

(* What a frame makes of the candidates that are armed ... *)
LEMMA JudgedSo ==
  ASSUME NEW s \in Research, NEW at \in Frames, NEW f \in Frame, NEW k \in Key
  PROVE LET c == s.candidates[k]
            j == Judged(s, at, f)[k] IN
        /\ j \in {NoCandidate} \cup Candidate
        /\ c = NoCandidate \/ c.status # "armed" => j = c
        /\ c # NoCandidate /\ c.status = "armed" =>
             /\ j \in Candidate /\ j # NoCandidate /\ j.born = c.born
             /\ j.status \in {"armed"} \cup Ended
             /\ j.status = "armed" => j = c /\ ~Missed(s, at)
             /\ j.status # "armed" => j # c
             /\ j.status = "triggered" => at < c.born + Life /\ ~Missed(s, at) /\ f.is = "valid"
<1> USE ShadowAssumption
<1> DEFINE c == s.candidates[k]
           j == Judged(s, at, f)[k]
           v == Verdict(s, at, f, k, c)
<1>1. c \in {NoCandidate} \cup Candidate BY DEF Research
<1>2. j = IF c = NoCandidate \/ c.status # "armed" THEN c ELSE [c EXCEPT !.status = v] BY DEF Judged
<1>3. CASE c = NoCandidate \/ c.status # "armed" BY <1>1, <1>2, <1>3
<1>4. CASE c # NoCandidate /\ c.status = "armed"
  <2>1. c \in Candidate /\ j = [c EXCEPT !.status = v] BY <1>1, <1>2, <1>4
  <2>2. c.born \in Frames BY <2>1 DEF Candidate
  <2>3. at \in Nat /\ c.born + Life \in Nat BY <2>2 DEF Frames
  <2>4. v \in {"armed"} \cup Ended BY DEF Verdict, Ended
  <2>5. v = "armed" => ~Missed(s, at) BY <2>3 DEF Verdict
  <2>6. v = "triggered" => at < c.born + Life /\ ~Missed(s, at) /\ f.is = "valid"
    BY <2>3 DEF Verdict, Frame
  <2>7. j \in Candidate /\ j.born = c.born /\ j.status = v BY <2>1, <2>4 DEF Candidate
  <2>8. v = "armed" => j = c BY <2>1, <1>4 DEF Candidate
  <2> QED BY <1>4, <2>1, <2>4, <2>5, <2>6, <2>7, <2>8
<1> QED BY <1>3, <1>4

(* ... and of the scenarios that begin. *)
LEMMA BegunSo ==
  ASSUME NEW s \in Research, NEW at \in Frames, NEW f \in Frame
  PROVE /\ Begun(s, at, f) \subseteq Key
        /\ Begun(s, at, f) # {} => f.is = "valid"
        /\ \A k \in Begun(s, at, f) :
             /\ Judged(s, at, f)[k] = NoCandidate \/ Judged(s, at, f)[k].status # "armed"
             /\ \A t \in s.consumed : t.key = k => t.anchor # Anchor(at)
        /\ Born(at, f) \in Candidate /\ Born(at, f).born = at
        /\ Born(at, f).status = (IF f.poor THEN "rejected" ELSE "armed")
BY DEF Begun, Frame, Born, Candidate, Ended

(* The research after a frame. *)
LEMMA AdvancedSo ==
  ASSUME NEW s \in Research, NEW at \in Frames, NEW f \in Frame
  PROVE LET a == Advanced(s, at, f) IN
        /\ a \in Research /\ a.period = s.period /\ a.last = at
        /\ a.valid = IF f.is = "valid" THEN at ELSE s.valid
        /\ \A k \in Key : a.candidates[k] =
             IF k \in Begun(s, at, f) THEN Born(at, f) ELSE Judged(s, at, f)[k]
        /\ \A k \in Begun(s, at, f) : [key |-> k, anchor |-> Anchor(at), at |-> at] \in a.consumed
        /\ \A t \in s.consumed : t.at + Remember >= at => t \in a.consumed
<1> USE ShadowAssumption
<1> DEFINE a == Advanced(s, at, f)
           new == Begun(s, at, f)
           began == {[key |-> k, anchor |-> Anchor(at), at |-> at] : k \in new}
           tokens == s.consumed \cup began
           candidates == [k \in Key |-> IF k \in new THEN Born(at, f) ELSE Judged(s, at, f)[k]]
           valid == IF f.is = "valid" THEN at ELSE s.valid
           Token == [key : Key, anchor : Frames, at : Frames]
<1>1. a = [s EXCEPT !.last = at, !.valid = valid, !.candidates = candidates,
                    !.consumed = {t \in tokens : t.at + Remember >= at}]
  BY DEF Advanced
<1>2. candidates \in [Key -> {NoCandidate} \cup Candidate] BY BegunSo, JudgedSo
<1>3. valid \in Frames BY DEF Research
<1>4. Anchor(at) \in Frames BY AnchorsApart DEF Frames
<1>5. began \in SUBSET Token BY <1>4, BegunSo
<1>6. tokens \in SUBSET Token BY <1>5 DEF Research
<1> HIDE DEF candidates, valid, began
<1>7. {t \in tokens : t.at + Remember >= at} \in SUBSET Token BY <1>6
<1>8. /\ a \in Research /\ a.period = s.period /\ a.last = at /\ a.valid = valid /\ a.candidates = candidates
      /\ a.consumed = {t \in tokens : t.at + Remember >= at}
  BY <1>1, <1>2, <1>3, <1>7 DEF Research
<1>9. at + Remember >= at BY DEF Frames
<1>10. \A k \in new : [key |-> k, anchor |-> Anchor(at), at |-> at] \in a.consumed BY <1>8, <1>9 DEF began
<1>11. \A t \in s.consumed : t.at + Remember >= at => t \in a.consumed BY <1>8
<1> QED BY <1>8, <1>10, <1>11 DEF candidates, valid

(* A frame that comes after the last one. *)
LEMMA FrameAdvances ==
  ASSUME ShadowInv, NEW m \in Monitor, NEW f \in Frame, ApplyFrame(m, f), monitor[m].frame > ResearchNow.last
  PROVE ShadowInv'
<1> USE ShadowAssumption
<1> DEFINE s == ResearchNow
           at == monitor[m].frame
           w == WatchedNow
           B == Begun(s, at, f)
           J(k) == Judged(s, at, f)[k]
           c(k) == s.candidates[k]
           Armed(k) == c(k) # NoCandidate /\ c(k).status = "armed"
           ended(k) == ScenarioEvent(J(k).status, k, c(k), at)
           began(k) == ScenarioEvent(IF f.poor THEN "rejected" ELSE "created", k, [born |-> at], at)
<1>1. /\ s \in Research /\ s.period = period /\ s.valid <= s.last
      /\ s = research \/ (s.last = 0 /\ research.period < period)
      /\ CandidatesOK(s, w) /\ TokensOK(s) /\ w \subseteq Frames
  BY ResearchGoesOn
<1>2. /\ at \in Frames /\ at \in Nat /\ at >= 1 /\ at \in attempts /\ s.last < at /\ s.valid < at
      /\ s.last \in Nat /\ s.valid \in Nat /\ period \in Nat
      /\ \A e \in evidence : e.born # at
  BY <1>1 DEF ShadowInv, ClaimInv, ShadowTypeOK, ApplyFrame, Research, Frames
<1>3. /\ research' = Advanced(s, at, f) /\ evidence' = evidence \cup EventsOf(s, at, f)
      /\ watched' = w \cup (IF f.is = "valid" THEN {at} ELSE {})
      /\ monitor' = [monitor EXCEPT ![m] = [at |-> "idle", frame |-> 0]]
      /\ UNCHANGED <<frameNow, attempts, period>>
  BY <1>2 DEF ApplyFrame, WatchedNow
<1>4. \A k \in Key :
        /\ J(k) \in {NoCandidate} \cup Candidate
        /\ ~Armed(k) => J(k) = c(k)
        /\ Armed(k) => /\ J(k) \in Candidate /\ J(k) # NoCandidate /\ J(k).born = c(k).born
                       /\ J(k).status \in {"armed"} \cup Ended
                       /\ J(k).status = "armed" => J(k) = c(k) /\ ~Missed(s, at)
                       /\ J(k).status # "armed" => J(k) # c(k)
                       /\ J(k).status = "triggered" => at < c(k).born + Life /\ ~Missed(s, at) /\ f.is = "valid"
  BY <1>1, <1>2, JudgedSo
<1>5. /\ B \subseteq Key /\ (B # {} => f.is = "valid")
      /\ \A k \in B : /\ J(k) = NoCandidate \/ J(k).status # "armed"
                      /\ \A t \in s.consumed : t.key = k => t.anchor # Anchor(at)
      /\ Born(at, f) \in Candidate /\ Born(at, f).born = at
      /\ Born(at, f).status = (IF f.poor THEN "rejected" ELSE "armed")
  BY <1>1, <1>2, BegunSo
<1>6. /\ research' \in Research /\ research'.period = period /\ research'.last = at
      /\ research'.valid = (IF f.is = "valid" THEN at ELSE s.valid)
      /\ \A k \in Key : research'.candidates[k] = IF k \in B THEN Born(at, f) ELSE J(k)
      /\ \A k \in B : [key |-> k, anchor |-> Anchor(at), at |-> at] \in research'.consumed
      /\ \A t \in s.consumed : t.at + Remember >= at => t \in research'.consumed
  BY <1>1, <1>2, <1>3, AdvancedSo
<1>7. \A k \in Key : c(k) \in {NoCandidate} \cup Candidate /\ (c(k) # NoCandidate => c(k).born \in Nat /\ c(k).born <= s.last)
  BY <1>1 DEF CandidatesOK, Research, Candidate, Frames
<1>c. \A k \in Key : c(k) # NoCandidate =>
        /\ \E e \in evidence : e.key = k /\ e.born = c(k).born /\ (c(k).status # "armed" => e.kind = c(k).status)
        /\ Armed(k) => /\ c(k).born <= s.valid /\ s.valid >= 1 /\ c(k).born .. s.valid \subseteq w
                       /\ \A e \in evidence : e.key = k /\ e.born = c(k).born => e.kind = "created"
  BY <1>1 DEF CandidatesOK, Told
<1>a. \A k \in Key : Armed(k) <=> c(k) # NoCandidate /\ c(k).status = "armed" OBVIOUS
<1>m. ~Missed(s, at) /\ s.valid >= 1 => at = s.valid + 1 BY <1>2 DEF Missed
<1>8. EventsOf(s, at, f) = {ended(k) : k \in {j \in Key : Armed(j) /\ J(j).status # "armed"}} \cup {began(k) : k \in B}
  BY <1>4 DEF EventsOf
<1> HIDE DEF s, w, B, J, c, at
<1>9. /\ \A k \in Key : /\ ended(k).kind = J(k).status /\ ended(k).key = k /\ ended(k).born = c(k).born
                        /\ ended(k).at = at /\ ended(k).period = period
      /\ \A k \in Key : /\ began(k).kind = (IF f.poor THEN "rejected" ELSE "created") /\ began(k).key = k
                        /\ began(k).born = at /\ began(k).at = at /\ began(k).period = period
  BY DEF ScenarioEvent
<1> HIDE DEF ended, began, Armed
<1>10. \A e \in evidence' : \/ e \in evidence
                            \/ \E k \in Key : Armed(k) /\ J(k).status # "armed" /\ e = ended(k)
                            \/ \E k \in B : e = began(k)
  BY <1>3, <1>8
<1>11. /\ evidence \subseteq evidence'
       /\ \A k \in Key : Armed(k) /\ J(k).status # "armed" => ended(k) \in evidence'
       /\ \A k \in B : began(k) \in evidence'
  BY <1>3, <1>8
<1>e. \A e \in evidence' : e.born \in attempts /\ e.born <= e.at /\ e.period <= period
  <2>1. \A e \in evidence : e.born \in attempts /\ e.born <= e.at /\ e.period <= period
    BY <1>1, <1>2 DEF ShadowInv, ClaimInv, ShadowTypeOK
  <2>2. \A k \in Key : Armed(k) => c(k).born \in attempts /\ c(k).born \in Nat /\ c(k).born <= at
    <3> SUFFICES ASSUME NEW k \in Key, Armed(k) PROVE c(k).born \in attempts /\ c(k).born \in Nat /\ c(k).born <= at OBVIOUS
    <3>1. c(k).born \in Nat /\ c(k).born <= s.last BY <1>a, <1>7
    <3>2. PICK e \in evidence : e.born = c(k).born BY <1>a, <1>c
    <3> QED BY <3>1, <3>2, <2>1, <1>2
  <2> QED BY <2>1, <2>2, <1>9, <1>10, <1>2, <1>5
<1>12. ClaimInv'
  <2>1. \A n \in Monitor : monitor'[n].at # "idle" => n # m /\ monitor'[n] = monitor[n]
    BY <1>3 DEF ShadowInv, ShadowTypeOK
  <2>2. \A n \in Monitor : monitor[n].at = "collecting" /\ n # m => monitor[n].frame # at
    BY DEF ShadowInv, ClaimInv, ApplyFrame, at
  <2>3. \A n \in Monitor : monitor[n].at # "idle" => monitor[n].frame >= 1 BY DEF ShadowInv, ClaimInv
  <2>4. \A n \in Monitor : monitor[n].at = "collecting" => 
          /\ monitor[n].frame \in attempts /\ \A e \in evidence : e.born # monitor[n].frame
          /\ \A o \in Monitor \ {n} : monitor[o].at = "collecting" => monitor[o].frame # monitor[n].frame
    BY DEF ShadowInv, ClaimInv
  <2>5. \A n \in Monitor : monitor[n].at = "collecting" /\ n # m => \A e \in evidence' : e.born # monitor[n].frame
    <3> SUFFICES ASSUME NEW n \in Monitor, monitor[n].at = "collecting", n # m, NEW e \in evidence'
                 PROVE e.born # monitor[n].frame OBVIOUS
    <3>1. CASE e \in evidence BY <3>1, <2>4
    <3>2. ASSUME NEW k \in Key, Armed(k), e = ended(k) PROVE e.born # monitor[n].frame
      <4>2. PICK d \in evidence : d.born = c(k).born BY <3>2, <1>a, <1>c
      <4> QED BY <4>2, <3>2, <2>4, <1>9
    <3>3. ASSUME NEW k \in B, e = began(k) PROVE e.born # monitor[n].frame BY <3>3, <2>2, <1>9, <1>5
    <3> QED BY <3>1, <3>2, <3>3, <1>10
  <2>6. attempts' = attempts /\ research'.period = period BY <1>3, <1>6
  <2> QED BY <2>1, <2>2, <2>3, <2>4, <2>5, <2>6, <1>e DEF ClaimInv
<1>13. ShadowTypeOK'
  <2>1. research' \in [period : 0 .. period', last : Frames, valid : Frames, candidates : [Key -> {NoCandidate} \cup Candidate],
                       consumed : SUBSET [key : Key, anchor : Frames, at : Frames]]
    <3>1. period' = period /\ period \in 0 .. period BY <1>2, <1>3
    <3> QED BY <1>6, <3>1 DEF Research
  <2>2. \A e \in evidence' : e \in [kind : {"created"} \cup Ended, key : Key, born : Frames, at : Frames, period : 0 .. period]
    <3>1. \A e \in evidence : e \in [kind : {"created"} \cup Ended, key : Key, born : Frames, at : Frames, period : 0 .. period]
      BY DEF ShadowInv, ShadowTypeOK
    <3>2. period \in 0 .. period BY <1>2
    <3>3. \A k \in Key : Armed(k) /\ J(k).status # "armed" => c(k).born \in Frames /\ J(k).status \in Ended
      BY <1>4, <1>7, <1>a DEF Candidate
    <3>4. \A k \in Key : Armed(k) /\ J(k).status # "armed" =>
            ended(k) \in [kind : {"created"} \cup Ended, key : Key, born : Frames, at : Frames, period : 0 .. period]
      BY <3>2, <3>3, <1>2 DEF ended, ScenarioEvent
    <3>5. \A k \in Key : began(k) \in [kind : {"created"} \cup Ended, key : Key, born : Frames, at : Frames, period : 0 .. period]
      BY <3>2, <1>2 DEF began, ScenarioEvent, Ended
    <3> QED BY <1>10, <1>5, <3>1, <3>4, <3>5
  <2>3. monitor' \in [Monitor -> [at : {"idle", "begun", "collecting"}, frame : Frames]]
    <3>1. [at |-> "idle", frame |-> 0] \in [at : {"idle", "begun", "collecting"}, frame : Frames] BY DEF Frames
    <3> QED BY <1>3, <3>1 DEF ShadowInv, ShadowTypeOK
  <2>4. watched' \subseteq Frames BY <1>1, <1>2, <1>3
  <2> QED BY <2>1, <2>2, <2>3, <2>4, <1>3 DEF ShadowInv, ShadowTypeOK
<1>14. CandidatesOK(research, watched)'
  <2> SUFFICES ASSUME NEW k \in Key, research'.candidates[k] # NoCandidate
               PROVE LET n == research'.candidates[k] IN
                 /\ n.born <= at
                 /\ (\E e \in evidence' : e.key = k /\ e.born = n.born /\ (n.status # "armed" => e.kind = n.status))
                 /\ n.status = "armed" =>
                      /\ n.born <= research'.valid /\ research'.valid >= 1 /\ n.born .. research'.valid \subseteq watched'
                      /\ \A e \in evidence' : e.key = k /\ e.born = n.born => e.kind = "created"
    BY <1>6 DEF CandidatesOK, Told
  <2> DEFINE n == research'.candidates[k]
  <2>1. n = IF k \in B THEN Born(at, f) ELSE J(k) BY <1>6
  <2>2. CASE k \in B
    <3>1. n.born = at /\ n.status = (IF f.poor THEN "rejected" ELSE "armed") /\ f.is = "valid" /\ research'.valid = at
      BY <2>1, <2>2, <1>5, <1>6
    <3>2. (\E e \in evidence' : e.key = k /\ e.born = n.born /\ (n.status # "armed" => e.kind = n.status))
      BY <3>1, <2>2, <1>5, <1>9, <1>11
    <3>3. at .. at = {at} BY <1>2
    <3>4. \A e \in evidence' : ~f.poor /\ e.born = at => e.kind = "created"
      BY <1>10, <1>9, <1>7, <1>2, <1>a, <1>5
    <3>5. at <= at BY <1>2
    <3> QED BY <3>1, <3>2, <3>3, <3>4, <3>5, <1>2, <1>3
  <2>3. CASE k \notin B /\ ~Armed(k)
    <3>1. n = c(k) BY <2>1, <2>3, <1>4
    <3>2. n.born <= at /\ n.status # "armed" BY <3>1, <2>3, <1>a, <1>7, <1>2
    <3>4. (\E e \in evidence' : e.key = k /\ e.born = n.born /\ (n.status # "armed" => e.kind = n.status))
      BY <3>1, <1>c, <1>11
    <3> QED BY <3>2, <3>4
  <2>4. CASE k \notin B /\ Armed(k) /\ J(k).status = "armed"
    <3>1. n = c(k) /\ at = s.valid + 1 /\ c(k).born \in Nat /\ c(k).born <= s.valid /\ c(k).born .. s.valid \subseteq w
      BY <2>1, <2>4, <1>4, <1>a, <1>c, <1>m, <1>7
    <3>2. n.born <= at BY <3>1, <1>2
    <3>4. (\E e \in evidence' : e.key = k /\ e.born = n.born /\ (n.status # "armed" => e.kind = n.status))
      BY <3>1, <1>c, <1>11
    <3>5. n.born <= research'.valid /\ research'.valid >= 1
      <4>1. CASE f.is = "valid" BY <4>1, <3>1, <1>2, <1>6
      <4>2. CASE f.is # "valid" BY <4>2, <3>1, <1>2, <1>6, <1>c, <2>4, <1>a
      <4> QED BY <4>1, <4>2
    <3>6. n.born .. research'.valid \subseteq watched'
      <4>1. CASE f.is = "valid"
        <5>1. research'.valid = at /\ watched' = w \cup {at} BY <4>1, <1>3, <1>6
        <5>2. c(k).born .. at = (c(k).born .. s.valid) \cup {at} BY <3>1, <1>2
        <5> QED BY <5>1, <5>2, <3>1
      <4>2. CASE f.is # "valid" BY <4>2, <3>1, <1>3, <1>6
      <4> QED BY <4>1, <4>2
    <3>7. \A e \in evidence' : e.key = k /\ e.born = n.born => e.kind = "created"
      <4> SUFFICES ASSUME NEW e \in evidence', e.key = k, e.born = n.born PROVE e.kind = "created" OBVIOUS
      <4>1. CASE e \in evidence BY <4>1, <3>1, <2>4, <1>a, <1>c
      <4>2. ASSUME NEW j \in Key, J(j).status # "armed", e = ended(j) PROVE FALSE BY <4>2, <2>4, <1>9
      <4>3. ASSUME NEW j \in B, e = began(j) PROVE FALSE BY <4>3, <3>1, <1>9, <1>5, <1>2
      <4> QED BY <4>1, <4>2, <4>3, <1>10
    <3> QED BY <3>2, <3>4, <3>5, <3>6, <3>7
  <2>5. CASE k \notin B /\ Armed(k) /\ J(k).status # "armed"
    <3>1. n = J(k) /\ n.born = c(k).born /\ n.status # "armed" BY <2>1, <2>5, <1>4
    <3>2. n.born <= at BY <3>1, <2>5, <1>a, <1>7, <1>2
    <3>3. (\E e \in evidence' : e.key = k /\ e.born = n.born /\ (n.status # "armed" => e.kind = n.status))
      BY <3>1, <2>5, <1>9, <1>11
    <3> QED BY <3>1, <3>2, <3>3
  <2> QED BY <2>2, <2>3, <2>4, <2>5
<1>15. TokensOK(research)'
  <2> DEFINE token(e) == [key |-> e.key, anchor |-> Anchor(e.born), at |-> e.born]
  <2> SUFFICES ASSUME NEW e \in evidence', e.period = period, Begins(e)
               PROVE token(e) \in research'.consumed \/ e.born + Remember < at
    BY <1>6 DEF TokensOK, Begins
  <2>1. CASE e \in evidence
    <3>1. token(e) \in s.consumed \/ e.born + Remember < s.last BY <2>1, <1>1 DEF TokensOK
    <3>2. e.born \in Nat BY <2>1 DEF ShadowInv, ShadowTypeOK, Frames
    <3>3. CASE e.born + Remember < s.last BY <3>3, <3>2, <1>2
    <3>4. CASE token(e) \in s.consumed /\ e.born + Remember >= at
      <4>1. token(e).at = e.born OBVIOUS
      <4> QED BY <3>4, <4>1, <1>6
    <3>5. CASE ~(e.born + Remember >= at) BY <3>5, <3>2, <1>2
    <3> QED BY <3>1, <3>3, <3>4, <3>5
  <2>2. ASSUME NEW k \in Key, Armed(k), J(k).status # "armed", e = ended(k) PROVE FALSE
    <3>1. e.born <= s.last /\ e.born \in Nat /\ e.at = at BY <2>2, <1>9, <1>7, <1>a
    <3>2. e.kind \in Ended BY <2>2, <1>9, <1>4
    <3> QED BY <3>1, <3>2, <1>2 DEF Begins, Ended
  <2>3. ASSUME NEW k \in B, e = began(k) PROVE token(e) \in research'.consumed
    <3>1. e.key = k /\ e.born = at BY <2>3, <1>9, <1>5
    <3> QED BY <3>1, <1>6
  <2> QED BY <2>1, <2>2, <2>3, <1>10
<1>16. WatchedThroughout'
  <2> SUFFICES ASSUME NEW e \in evidence', e.kind = "triggered"
               PROVE e.at < e.born + Life /\ (e.period = period => e.born .. e.at \subseteq watched')
    BY <1>6 DEF WatchedThroughout
  <2>1. CASE e \in evidence
    <3>1. e.at < e.born + Life /\ (e.period = research.period => e.born .. e.at \subseteq watched)
      BY <2>1 DEF ShadowInv, WatchedThroughout
    <3>2. CASE s = research
      <4>1. w = watched /\ research.period = period BY <3>2, <1>1 DEF s, w, WatchedNow
      <4> QED BY <4>1, <3>1, <1>3
    <3>3. CASE s.last = 0 /\ research.period < period
      <4>1. e.period <= research.period /\ e.period \in Nat /\ research.period \in Nat
        BY <2>1 DEF ShadowInv, ClaimInv, ShadowTypeOK
      <4> QED BY <4>1, <3>1, <3>3, <1>2
    <3> QED BY <3>2, <3>3, <1>1
  <2>2. ASSUME NEW k \in Key, Armed(k), J(k).status # "armed", e = ended(k)
        PROVE e.at < e.born + Life /\ e.born .. e.at \subseteq watched'
    <3>1. J(k).status = "triggered" /\ e.at = at /\ e.born = c(k).born BY <2>2, <1>9
    <3>2. at < c(k).born + Life /\ f.is = "valid" /\ at = s.valid + 1 /\ c(k).born \in Nat
          /\ c(k).born <= s.valid /\ c(k).born .. s.valid \subseteq w
      BY <3>1, <2>2, <1>4, <1>a, <1>c, <1>m, <1>7
    <3>3. c(k).born .. at = (c(k).born .. s.valid) \cup {at} BY <3>2, <1>2
    <3>4. watched' = w \cup {at} BY <3>2, <1>3
    <3> QED BY <3>1, <3>2, <3>3, <3>4
  <2>3. ASSUME NEW k \in B, e = began(k) PROVE FALSE BY <2>3, <1>9, <1>5
  <2> QED BY <2>1, <2>2, <2>3, <1>10
<1>17. OneHypothesis'
  <2> DEFINE Same(d, e) == d.key = e.key /\ d.period = e.period /\ Anchor(d.born) = Anchor(e.born)
  <2>1. \A e \in evidence' : Begins(e) => (e \in evidence \/ \E k \in B : e = began(k))
    <3> SUFFICES ASSUME NEW e \in evidence', Begins(e), NEW k \in Key, Armed(k), J(k).status # "armed", e = ended(k) PROVE FALSE
      BY <1>10
    <3>1. e.born <= s.last /\ e.born \in Nat /\ e.at = at BY <1>9, <1>7, <1>a
    <3>2. e.kind \in Ended BY <1>9, <1>4
    <3> QED BY <3>1, <3>2, <1>2 DEF Begins, Ended
  <2>2. ASSUME NEW d \in evidence, Begins(d), NEW k \in B, d.key = k, d.period = period, Anchor(d.born) = Anchor(at) PROVE FALSE
    <3>1. [key |-> k, anchor |-> Anchor(d.born), at |-> d.born] \in s.consumed \/ d.born + Remember < s.last
      BY <2>2, <1>1 DEF TokensOK
    <3>2. d.born \in Nat BY DEF ShadowInv, ShadowTypeOK, Frames
    <3>3. CASE [key |-> k, anchor |-> Anchor(d.born), at |-> d.born] \in s.consumed BY <3>3, <2>2, <1>5
    <3>4. CASE d.born + Remember < s.last
      <4>1. d.born + Hour <= at BY <3>4, <3>2, <1>2
      <4> QED BY <4>1, <2>2, <3>2, <1>2, AnchorsApart
    <3> QED BY <3>1, <3>3, <3>4
  <2>3. \A d, e \in evidence : Begins(d) /\ Begins(e) /\ Same(d, e) => d.born = e.born
    <3> SUFFICES ASSUME NEW d \in evidence, NEW e \in evidence, Begins(d), Begins(e), Same(d, e) PROVE d.born = e.born OBVIOUS
    <3>1. <<d.key, d.born, d.period>> \in Hypotheses /\ <<e.key, e.born, e.period>> \in Hypotheses
      BY DEF Hypotheses, Begins
    <3> QED BY <3>1 DEF ShadowInv, OneHypothesis
  <2>4. \A d, e \in evidence' : Begins(d) /\ Begins(e) /\ Same(d, e) => d.born = e.born
    <3> SUFFICES ASSUME NEW d \in evidence', NEW e \in evidence', Begins(d), Begins(e), Same(d, e) PROVE d.born = e.born OBVIOUS
    <3>1. CASE d \in evidence /\ e \in evidence BY <3>1, <2>3
    <3>2. ASSUME d \in evidence, NEW k \in B, e = began(k) PROVE FALSE
      <4>1. e.key = k /\ e.born = at /\ e.period = period BY <3>2, <1>9, <1>5
      <4>2. d.key = k /\ d.period = period /\ Anchor(d.born) = Anchor(at) BY <4>1
      <4> QED BY <4>2, <3>2, <2>2
    <3>3. ASSUME e \in evidence, NEW k \in B, d = began(k) PROVE FALSE
      <4>1. d.key = k /\ d.born = at /\ d.period = period BY <3>3, <1>9, <1>5
      <4>2. e.key = k /\ e.period = period /\ Anchor(e.born) = Anchor(at) BY <4>1
      <4> QED BY <4>2, <3>3, <2>2
    <3>4. ASSUME NEW k \in B, d = began(k), NEW l \in B, e = began(l) PROVE d.born = e.born BY <3>4, <1>9, <1>5
    <3> QED BY <2>1, <3>1, <3>2, <3>3, <3>4
  <2> QED BY <2>4 DEF OneHypothesis, Hypotheses, Begins
<1>18. EvidenceAgrees'
  <2> DEFINE Over(e) == e.kind \in Ended
  <2>1. \A d, e \in evidence' : d.key = e.key /\ d.born = e.born /\ Over(d) /\ Over(e) => d = e
    <3>1. \A d, e \in evidence : d.key = e.key /\ d.born = e.born /\ Over(d) /\ Over(e) => d = e
      BY DEF ShadowInv, EvidenceAgrees
    <3>2. \A d \in evidence, k \in Key : Armed(k) /\ d.key = k /\ d.born = c(k).born => ~Over(d)
      BY <1>a, <1>c DEF Ended
    <3>3. \A k \in Key : Armed(k) => c(k).born # at BY <1>a, <1>7, <1>2
    <3> QED BY <3>1, <3>2, <3>3, <1>2, <1>5, <1>9, <1>10
  <2>2. ASSUME NEW k \in Key, research'.candidates[k] # NoCandidate
        PROVE IF research'.candidates[k].status = "armed"
                THEN \A e \in evidence' : e.key = k /\ e.born = research'.candidates[k].born => e.kind = "created"
                ELSE \E e \in evidence' : e.key = k /\ e.born = research'.candidates[k].born
                                          /\ e.kind = research'.candidates[k].status
    BY <1>14, <2>2 DEF CandidatesOK, Told
  <2> QED BY <2>1, <2>2 DEF EvidenceAgrees
<1>19. frameNow' >= 1 BY <1>3 DEF ShadowInv
<1> QED BY <1>6, <1>2, <1>19, <1>12, <1>13, <1>14, <1>15, <1>16, <1>17, <1>18 DEF ShadowInv

(* Whatever leaves the records alone keeps what they tell. *)
LEMMA RecordsRest ==
  ASSUME ShadowInv, UNCHANGED <<research, evidence, watched>>, ShadowTypeOK', ClaimInv', frameNow' >= 1
  PROVE ShadowInv'
<1>1. CandidatesOK(research, watched)'
  <2>1. CandidatesOK(research, watched) BY DEF ShadowInv
  <2> QED BY <2>1 DEF CandidatesOK, Told
<1>2. TokensOK(research)'
  <2>1. TokensOK(research) BY DEF ShadowInv
  <2> QED BY <2>1 DEF TokensOK
<1>3. WatchedThroughout' BY DEF ShadowInv, WatchedThroughout
<1>4. OneHypothesis' BY DEF ShadowInv, OneHypothesis, Hypotheses
<1>5. EvidenceAgrees' BY DEF ShadowInv, EvidenceAgrees
<1> QED BY <1>1, <1>2, <1>3, <1>4, <1>5 DEF ShadowInv

(* Every step of the monitors, of the clock and of the operator. *)
LEMMA ShadowStep == ShadowInv /\ [ShadowNext]_shadowVars => ShadowInv'
<1> SUFFICES ASSUME ShadowInv, [ShadowNext]_shadowVars PROVE ShadowInv' OBVIOUS
<1> USE ShadowAssumption
<1> DEFINE At == {"idle", "begun", "collecting"}
<1>0. /\ monitor \in [Monitor -> [at : At, frame : Frames]] /\ frameNow \in Frames /\ attempts \subseteq Frames
      /\ ShadowTypeOK /\ ClaimInv /\ frameNow >= 1
  BY DEF ShadowInv, ShadowTypeOK
<1>1. CASE CandleCloses
  <2>1. frameNow' \in Frames BY <1>0, <1>1 DEF CandleCloses, Frames
  <2>2. ShadowTypeOK' BY <1>0, <1>1, <2>1 DEF CandleCloses, ShadowTypeOK
  <2>3. ClaimInv' BY <1>0, <1>1 DEF CandleCloses, ClaimInv
  <2>4. frameNow' >= 1 BY <1>0, <1>1 DEF CandleCloses, Frames
  <2> QED BY <1>1, <2>2, <2>3, <2>4, RecordsRest DEF CandleCloses
<1>2. CASE ResetEpoch
  <2>1. period' \in 0 .. MaxResets /\ period \in Nat /\ period' = period + 1 BY <1>0, <1>2 DEF ResetEpoch, ShadowTypeOK
  <2>2. 0 .. period \subseteq 0 .. period' BY <2>1
  <2>3. research' \in [period : 0 .. period', last : Frames, valid : Frames,
                   candidates : [Key -> {NoCandidate} \cup Candidate],
                   consumed : SUBSET [key : Key, anchor : Frames, at : Frames]]
    BY <1>0, <1>2, <2>2 DEF ResetEpoch, ShadowTypeOK
  <2>4. evidence' \subseteq [kind : {"created"} \cup Ended, key : Key, born : Frames, at : Frames, period : 0 .. period']
    BY <1>0, <1>2, <2>2 DEF ResetEpoch, ShadowTypeOK
  <2>5. ShadowTypeOK' BY <1>0, <1>2, <2>1, <2>3, <2>4 DEF ResetEpoch, ShadowTypeOK
  <2>6. ClaimInv' BY <1>0, <1>2 DEF ResetEpoch, ClaimInv
  <2> QED BY <1>0, <1>2, <2>5, <2>6, RecordsRest DEF ResetEpoch
<1>3. ASSUME NEW m \in Monitor, ComputeFrame(m) PROVE ShadowInv'
  <2> DEFINE r == [at |-> "begun", frame |-> frameNow]
  <2>1. monitor' = [monitor EXCEPT ![m] = r] /\ r \in [at : At, frame : Frames] BY <1>0, <1>3 DEF ComputeFrame
  <2>2. ShadowTypeOK' BY <1>0, <1>3, <2>1 DEF ComputeFrame, ShadowTypeOK
  <2>3. \A n \in Monitor : monitor'[n] = IF n = m THEN r ELSE monitor[n] BY <1>0, <2>1
  <2>4. frameNow >= 1 BY <1>0, <1>3
  <2>5. ClaimInv' BY <1>0, <1>3, <2>3, <2>4 DEF ComputeFrame, ClaimInv
  <2> QED BY <1>0, <1>3, <2>2, <2>5, RecordsRest DEF ComputeFrame
<1>4. ASSUME NEW m \in Monitor, ClaimFrame(m) PROVE ShadowInv'
  <2> DEFINE go == IF monitor[m].frame \in attempts THEN "idle" ELSE "collecting"
             r == [monitor[m] EXCEPT !.at = go]
  <2>1. r \in [at : At, frame : Frames] /\ r.at = go /\ r.frame = monitor[m].frame BY <1>0
  <2>2. monitor' = [monitor EXCEPT ![m] = r] BY <1>4 DEF ClaimFrame
  <2>3. \A n \in Monitor : monitor'[n] = IF n = m THEN r ELSE monitor[n] BY <1>0, <2>2
  <2>4. attempts' = attempts \cup {monitor[m].frame} /\ monitor[m].frame \in Frames BY <1>0, <1>4 DEF ClaimFrame
  <2>5. ShadowTypeOK' BY <1>0, <1>4, <2>1, <2>2, <2>4 DEF ClaimFrame, ShadowTypeOK
  <2> HIDE DEF r
  <2>6. \A e \in evidence : e.born \in attempts BY <1>0 DEF ClaimInv
  <2>7. ClaimInv' BY <1>0, <1>4, <2>1, <2>3, <2>4, <2>6 DEF ClaimFrame, ClaimInv
  <2> QED BY <1>0, <1>4, <2>5, <2>7, RecordsRest DEF ClaimFrame
<1>5. ASSUME NEW m \in Monitor, monitor' = [monitor EXCEPT ![m] = [at |-> "idle", frame |-> 0]],
             UNCHANGED <<frameNow, attempts, period, research, evidence, watched>>
      PROVE ShadowInv'
  <2>1. 0 \in Frames BY DEF Frames
  <2>2. [at |-> "idle", frame |-> 0] \in [at : At, frame : Frames] BY <2>1
  <2>3. ShadowTypeOK' BY <1>0, <1>5, <2>2 DEF ShadowTypeOK
  <2>4. \A n \in Monitor : monitor'[n].at # "idle" => n # m /\ monitor'[n] = monitor[n] BY <1>0, <1>5
  <2>5. ClaimInv' BY <1>0, <1>5, <2>4 DEF ClaimInv
  <2> QED BY <1>0, <1>5, <2>3, <2>5, RecordsRest
<1>6. ASSUME NEW m \in Monitor, MonitorDies(m) PROVE ShadowInv' BY <1>5, <1>6 DEF MonitorDies
<1>7. ASSUME NEW m \in Monitor, NEW f \in Frame, ApplyFrame(m, f) PROVE ShadowInv'
  <2>1. /\ ResearchNow \in Research
        /\ ResearchNow = research \/ (ResearchNow.last = 0 /\ research.period < period)
    BY ResearchGoesOn
  <2>2. monitor[m].frame \in Nat /\ monitor[m].frame >= 1 /\ ResearchNow.last \in Nat
    BY <1>0, <1>7, <2>1 DEF ApplyFrame, ClaimInv, Frames, Research
  <2>3. CASE monitor[m].frame > ResearchNow.last BY <1>7, <2>3, FrameAdvances
  <2>4. CASE monitor[m].frame <= ResearchNow.last
    <3>1. ResearchNow = research BY <2>1, <2>2, <2>4
    <3> QED BY <1>5, <1>7, <2>4, <3>1 DEF ApplyFrame
  <2> QED BY <2>2, <2>3, <2>4
<1>8. CASE UNCHANGED shadowVars
  <2>1. ShadowTypeOK' BY <1>0, <1>8 DEF shadowVars, ShadowTypeOK
  <2>2. ClaimInv' BY <1>0, <1>8 DEF shadowVars, ClaimInv
  <2> QED BY <1>0, <1>8, <2>1, <2>2, RecordsRest DEF shadowVars
<1> QED BY <1>1, <1>2, <1>3, <1>4, <1>6, <1>7, <1>8 DEF ShadowNext

(* Nothing is armed, told or claimed at first. *)
LEMMA ShadowAtFirst == ShadowInit => ShadowInv
<1> SUFFICES ASSUME ShadowInit PROVE ShadowInv OBVIOUS
<1> USE ShadowAssumption DEF ShadowInit
<1>1. 0 \in Frames /\ 1 \in Frames /\ 0 \in 0 .. 0 /\ 0 \in 0 .. MaxResets BY DEF Frames
<1>2. [k \in Key |-> NoCandidate] \in [Key -> {NoCandidate} \cup Candidate] OBVIOUS
<1>3. {} \in SUBSET [key : Key, anchor : Frames, at : Frames] OBVIOUS
<1>4. research \in [period : 0 .. period, last : Frames, valid : Frames,
                   candidates : [Key -> {NoCandidate} \cup Candidate],
                   consumed : SUBSET [key : Key, anchor : Frames, at : Frames]]
  BY <1>1, <1>2, <1>3 DEF NewResearch
<1>5. ShadowTypeOK BY <1>1, <1>4 DEF ShadowTypeOK
<1>6. ClaimInv BY DEF ClaimInv
<1>7. research.last = 0 /\ research.valid = 0 /\ \A k \in Key : research.candidates[k] = NoCandidate BY DEF NewResearch
<1>8. CandidatesOK(research, watched) BY <1>7 DEF CandidatesOK
<1>9. TokensOK(research) BY DEF TokensOK
<1>10. WatchedThroughout /\ OneHypothesis BY DEF WatchedThroughout, OneHypothesis, Hypotheses
<1>11. EvidenceAgrees BY <1>7 DEF EvidenceAgrees
<1> QED BY <1>5, <1>6, <1>7, <1>8, <1>9, <1>10, <1>11 DEF ShadowInv

(* ShadowSafe holds for every number of scenarios, frames, overlapping monitor    *)
(* processes and statistics resets: a scenario triggers only if every frame since *)
(* it was created was seen, an hour anchor has one hypothesis of each scenario,   *)
(* and a candidate ends once (scripts/scenario_shadow.py).                      *)
THEOREM ShadowSafeTheorem == ShadowSpec => []ShadowSafe
<1>1. ShadowInv => ShadowSafe BY DEF ShadowInv, ShadowSafe
<1> QED BY <1>1, ShadowAtFirst, ShadowStep, PTL DEF ShadowSpec

-----------------------------------------------------------------------------
(* The change of the account. *)

(* What the reads that are done say of an account: they are not one snapshot, but *)
(* nothing is sent meanwhile, and an order that fills shows as a stop later.      *)
Done(a, ahead) ==
  /\ (\A i \in DOMAIN ahead : ahead[i] # <<a, "orders">>) => holding[a] # "working"
  /\ (\A i \in DOMAIN ahead : ahead[i] # <<a, "stops">>) => holding[a] = "flat"
Ordered(ahead) == \A a \in Account : \A i \in DOMAIN ahead : ahead[i] = <<a, "orders">> =>
  \E j \in DOMAIN ahead : j > i /\ ahead[j] = <<a, "stops">>

(* The change under way, and the account it may take out of use.                 *)
TakesOver == change.kind = "activate" \/ change.mode = active \/ (change.kind = "bind" /\ ~managed)
ChangeInv ==
  /\ change \in Change /\ unresolved = {} /\ Ordered(change.todo)
  /\ TakesOver /\ InUse # NoOne => Done(InUse, change.todo)
  /\ change.stage = "archived" =>
       /\ change.todo = <<>>
       /\ Archives => trackers = NoOne /\ (~KeepsLedger => ledger = NoOne)
  /\ change.kind = "bind" =>
       /\ change.conn \in Connection /\ status[change.conn] # "absent"
       /\ ModeOf[AccountOf[change.conn]] = change.mode
  /\ change.kind = "unbind" => change.conn = NoOne
  /\ change.kind # "bind" => managed

BindingInv ==
  /\ BindingTypeOK /\ NothingLeftBehind /\ NoForeignFiles
  /\ \A a \in Account : flight[a] => a \in unresolved
  /\ \A m \in Mode : binding[m] # NoOne => scope[binding[m]] # "none"
  /\ change # NoOne => ChangeInv

(* The account in use is one of those there are, or none. *)
LEMMA CurrentType ==
  ASSUME BindingTypeOK, NEW m \in Mode
  PROVE /\ Current(m) \in Account \cup {NoOne}
        /\ binding[m] # NoOne => binding[m] \in Connection /\ AccountOf[binding[m]] \in Account
        /\ Current(m) # NoOne => ModeOf[Current(m)] = m
BY BindingAssumption DEF BindingTypeOK, Current

(* The reads of one account, and of one account after another. *)
LEMMA ReadsOrdered ==
  ASSUME NEW a \in Account \cup {NoOne}
  PROVE /\ FlatReads(a) \in Seq(Looked) /\ Ordered(FlatReads(a))
        /\ a # NoOne => /\ \E i \in DOMAIN FlatReads(a) : FlatReads(a)[i] = <<a, "orders">>
                        /\ \E i \in DOMAIN FlatReads(a) : FlatReads(a)[i] = <<a, "stops">>
<1> USE BindingAssumption DEF Looked
<1>1. CASE a = NoOne BY <1>1 DEF FlatReads, Ordered
<1>2. CASE a # NoOne
  <2> DEFINE t == <<<<a, "positions">>, <<a, "orders">>, <<a, "stops">>>>
  <2>1. FlatReads(a) = t BY <1>2 DEF FlatReads
  <2>2. a \in Account BY <1>2
  <2>3. t \in Seq(Looked) BY <2>2
  <2>4. DOMAIN t = 1 .. 3 /\ t[1] = <<a, "positions">> /\ t[2] = <<a, "orders">> /\ t[3] = <<a, "stops">> OBVIOUS
  <2>5. Ordered(t)
    <3> SUFFICES ASSUME NEW b \in Account, NEW i \in DOMAIN t, t[i] = <<b, "orders">>
                 PROVE \E j \in DOMAIN t : j > i /\ t[j] = <<b, "stops">> BY DEF Ordered
    <3> HIDE DEF t
    <3>1. i = 2 /\ a = b BY <2>4
    <3> QED BY <3>1, <2>4
  <2> QED BY <2>1, <2>3, <2>4, <2>5, <1>2
<1> QED BY <1>1, <1>2

(* Of two ordered sequences of reads the one after the other is ordered. *)
LEMMA ReadsFollow ==
  ASSUME NEW s \in Seq(Looked), NEW t \in Seq(Looked), Ordered(s), Ordered(t)
  PROVE /\ s \o t \in Seq(Looked) /\ Ordered(s \o t)
        /\ \A i \in DOMAIN s : i \in DOMAIN (s \o t) /\ (s \o t)[i] = s[i]
        /\ \A i \in DOMAIN t : Len(s) + i \in DOMAIN (s \o t) /\ (s \o t)[Len(s) + i] = t[i]
<1> DEFINE u == s \o t
<1>1. u \in Seq(Looked) /\ Len(u) = Len(s) + Len(t) /\ Len(s) \in Nat /\ Len(t) \in Nat OBVIOUS
<1>2. DOMAIN s = 1 .. Len(s) /\ DOMAIN t = 1 .. Len(t) /\ DOMAIN u = 1 .. Len(u) BY <1>1
<1>3. \A i \in 1 .. Len(u) : u[i] = IF i <= Len(s) THEN s[i] ELSE t[i - Len(s)] OBVIOUS
<1> HIDE DEF u
<1>4. \A i \in DOMAIN s : i \in DOMAIN u /\ u[i] = s[i] BY <1>1, <1>2, <1>3
<1>5. \A i \in DOMAIN t : Len(s) + i \in DOMAIN u /\ u[Len(s) + i] = t[i]
  <2> SUFFICES ASSUME NEW i \in DOMAIN t PROVE Len(s) + i \in DOMAIN u /\ u[Len(s) + i] = t[i] OBVIOUS
  <2>1. i \in 1 .. Len(t) BY <1>2
  <2>2. Len(s) + i \in 1 .. Len(u) /\ ~(Len(s) + i <= Len(s)) /\ (Len(s) + i) - Len(s) = i BY <1>1, <2>1
  <2> QED BY <2>2, <1>2, <1>3
<1>6. Ordered(u)
  <2> SUFFICES ASSUME NEW a \in Account, NEW i \in DOMAIN u, u[i] = <<a, "orders">>
               PROVE \E j \in DOMAIN u : j > i /\ u[j] = <<a, "stops">> BY DEF Ordered
  <2>1. i \in 1 .. Len(u) BY <1>2
  <2>2. CASE i <= Len(s)
    <3>1. i \in DOMAIN s /\ s[i] = <<a, "orders">> BY <1>1, <1>2, <1>3, <2>1, <2>2
    <3>2. PICK j \in DOMAIN s : j > i /\ s[j] = <<a, "stops">> BY <3>1 DEF Ordered
    <3> QED BY <3>2, <1>4
  <2>3. CASE i > Len(s)
    <3>1. i - Len(s) \in DOMAIN t /\ t[i - Len(s)] = <<a, "orders">> BY <1>1, <1>2, <1>3, <2>1, <2>3
    <3>2. PICK j \in DOMAIN t : j > i - Len(s) /\ t[j] = <<a, "stops">> BY <3>1 DEF Ordered
    <3>3. Len(s) + j \in DOMAIN u /\ u[Len(s) + j] = <<a, "stops">> BY <3>2, <1>5
    <3>4. j \in 1 .. Len(t) BY <1>2
    <3>5. Len(s) + j > i BY <3>2, <3>4, <1>1, <2>1
    <3> QED BY <3>3, <3>5
  <2> QED BY <2>2, <2>3, <1>1, <2>1
<1> QED BY <1>1, <1>4, <1>5, <1>6 DEF u

(* A read that is still to come says nothing yet. *)
LEMMA NotYetRead ==
  ASSUME NEW a \in Account, NEW ahead, NEW s \in Seq(Looked), NEW t \in Seq(Looked),
         ahead = s \o FlatReads(a) \o t, Ordered(s), Ordered(t)
  PROVE ahead \in Seq(Looked) /\ Ordered(ahead) /\ Done(a, ahead)
<1> DEFINE r == FlatReads(a)
<1>1. a # NoOne /\ a \in Account \cup {NoOne} BY BindingAssumption
<1>2. r \in Seq(Looked) /\ Ordered(r) /\ (\E i \in DOMAIN r : r[i] = <<a, "orders">>) /\ (\E i \in DOMAIN r : r[i] = <<a, "stops">>)
  BY <1>1, ReadsOrdered
<1> HIDE DEF r
<1>3. s \o r \in Seq(Looked) /\ Ordered(s \o r) /\ \A i \in DOMAIN r : Len(s) + i \in DOMAIN (s \o r) /\ (s \o r)[Len(s) + i] = r[i]
  BY <1>2, ReadsFollow
<1> DEFINE q == s \o r
<1> HIDE DEF q
<1>4. q \in Seq(Looked) /\ Ordered(q) /\ \A i \in DOMAIN r : Len(s) + i \in DOMAIN q /\ q[Len(s) + i] = r[i] BY <1>3 DEF q
<1>5. ahead = q \o t BY DEF q, r
<1>6. ahead \in Seq(Looked) /\ Ordered(ahead) /\ \A i \in DOMAIN q : i \in DOMAIN ahead /\ ahead[i] = q[i]
  BY <1>4, <1>5, ReadsFollow
<1>7. Done(a, ahead) BY <1>2, <1>4, <1>6 DEF Done
<1> QED BY <1>6, <1>7

(* The trader and the exchange, while the bindings stand. *)
LEMMA TradingStep ==
  ASSUME BindingInv, UNCHANGED registry,
         \/ RunCycle \/ SendEntry \/ ReconcileIntents
         \/ \E a \in Account, b \in BOOLEAN : Arrive(a, b)
         \/ \E a \in Account : Move(a)
  PROVE BindingInv'
<1> USE BindingAssumption DEF BindingInv
<1>1. /\ InUse' = InUse /\ InUse \in Account \cup {NoOne} /\ (\A m \in Mode : Current(m)' = Current(m))
      /\ UNCHANGED <<status, scope, managed, active, binding>>
  BY CurrentType DEF registry, InUse, Current, BindingTypeOK
<1>2. (\A m \in Mode : binding[m] # NoOne => scope[binding[m]] # "none")' BY <1>1
<1>3. /\ holding \in [Account -> {"flat", "working", "held"}] /\ flight \in [Account -> BOOLEAN]
      /\ \A a \in Account : a # InUse => holding[a] = "flat" /\ ~flight[a]
  BY DEF BindingTypeOK, NothingLeftBehind
<1>4. CASE RunCycle
  <2>1. BindingTypeOK' BY <1>1, <1>4 DEF RunCycle, BindingTypeOK, exchange
  <2>2. NothingLeftBehind' BY <1>1, <1>4 DEF RunCycle, NothingLeftBehind, exchange
  <2>3. NoForeignFiles' BY <1>1, <1>4 DEF RunCycle, NoForeignFiles
  <2>4. change' = NoOne BY <1>4 DEF RunCycle, Idle
  <2>5. (\A a \in Account : flight[a] => a \in unresolved)' BY <1>4 DEF RunCycle, exchange
  <2> QED BY <1>2, <2>1, <2>2, <2>3, <2>4, <2>5
<1>5. CASE SendEntry
  <2>1. BindingTypeOK' BY <1>1, <1>5 DEF SendEntry, BindingTypeOK, files
  <2>2. NothingLeftBehind' BY <1>1, <1>3, <1>5 DEF SendEntry, NothingLeftBehind
  <2>3. NoForeignFiles' BY <1>1, <1>5 DEF SendEntry, NoForeignFiles, files
  <2>4. change' = NoOne BY <1>5 DEF SendEntry, Idle
  <2>5. (\A a \in Account : flight[a] => a \in unresolved)' BY <1>3, <1>5 DEF SendEntry
  <2> QED BY <1>2, <2>1, <2>2, <2>3, <2>4, <2>5
<1>6. CASE ReconcileIntents
  <2>1. BindingTypeOK' BY <1>1, <1>6 DEF ReconcileIntents, BindingTypeOK, files
  <2>2. NothingLeftBehind' BY <1>1, <1>6 DEF ReconcileIntents, NothingLeftBehind
  <2>3. NoForeignFiles' BY <1>1, <1>6 DEF ReconcileIntents, NoForeignFiles, files
  <2>4. change' = NoOne BY <1>6 DEF ReconcileIntents, Idle
  <2>5. (\A a \in Account : flight[a] => a \in unresolved)' BY <1>3, <1>6 DEF ReconcileIntents
  <2> QED BY <1>2, <2>1, <2>2, <2>3, <2>4, <2>5
<1>7. ASSUME NEW a \in Account, NEW b \in BOOLEAN, Arrive(a, b) PROVE BindingInv'
  <2>1. BindingTypeOK' BY <1>1, <1>7 DEF Arrive, BindingTypeOK, files
  <2>2. NothingLeftBehind' BY <1>1, <1>3, <1>7 DEF Arrive, NothingLeftBehind
  <2>3. NoForeignFiles' BY <1>1, <1>7 DEF Arrive, NoForeignFiles, files
  <2>4. change = NoOne
    <3>1. a \in unresolved BY <1>7 DEF Arrive
    <3> QED BY <3>1 DEF ChangeInv
  <2>5. change' = NoOne BY <1>7, <2>4 DEF Arrive
  <2>6. (\A c \in Account : flight[c] => c \in unresolved)' BY <1>3, <1>7 DEF Arrive
  <2> QED BY <1>2, <2>1, <2>2, <2>3, <2>5, <2>6
<1>8. ASSUME NEW a \in Account, Move(a) PROVE BindingInv'
  <2>1. /\ UNCHANGED <<files, change, flight, unresolved>>
        /\ \A c \in Account : /\ holding[c] # "working" => holding'[c] # "working"
                              /\ holding[c] = "flat" => holding'[c] = "flat"
        /\ holding' \in [Account -> {"flat", "working", "held"}]
    BY <1>3, <1>8 DEF Move
  <2>2. BindingTypeOK' BY <1>1, <2>1 DEF BindingTypeOK, files
  <2>3. NothingLeftBehind'
    <3>1. \A c \in Account : c # InUse => holding'[c] = "flat" BY <1>3, <2>1
    <3>2. \A c \in Account : c # InUse => ~flight'[c] BY <1>3, <2>1
    <3> QED BY <1>1, <3>1, <3>2 DEF NothingLeftBehind
  <2>4. NoForeignFiles' BY <1>1, <2>1 DEF NoForeignFiles, files
  <2>5. (\A c \in Account : flight[c] => c \in unresolved)' BY <2>1
  <2>6. ASSUME change # NoOne PROVE ChangeInv'
    <3>1. ChangeInv BY <2>6
    <3>2. UNCHANGED <<TakesOver, Archives, KeepsLedger>>
      <4>1. change \in Change BY <3>1 DEF ChangeInv
      <4> QED BY <1>1, <2>1, <4>1 DEF TakesOver, Archives, KeepsLedger, SameAccount, Current, Change
    <3>4. Ordered(change.todo)' BY <3>1, <2>1 DEF ChangeInv, Ordered
    <3>5. (TakesOver /\ InUse # NoOne => Done(InUse, change.todo))'
      <4> SUFFICES ASSUME TakesOver, InUse \in Account PROVE Done(InUse, change.todo)' BY <1>1, <3>2
      <4>1. Done(InUse, change.todo) BY <3>1 DEF ChangeInv
      <4>2. change' = change /\ InUse' = InUse BY <1>1, <2>1
      <4>3. /\ holding[InUse] # "working" => holding'[InUse] # "working"
            /\ holding[InUse] = "flat" => holding'[InUse] = "flat"
        BY <2>1
      <4> QED BY <4>1, <4>2, <4>3 DEF Done
    <3> QED BY <3>1, <3>2, <3>4, <3>5, <1>1, <2>1 DEF ChangeInv, files
  <2> QED BY <1>2, <2>1, <2>2, <2>3, <2>4, <2>5, <2>6
<1> QED BY <1>4, <1>5, <1>6, <1>7, <1>8

(* The connections, between and during changes. *)
LEMMA ConnectionStep ==
  ASSUME BindingInv,
         \/ \E c \in Connection : Create(c) \/ GrowOld(c) \/ Delete(c)
         \/ \E c \in Connection, b \in BOOLEAN : Probe(c, b)
         \/ Break \/ UNCHANGED bindingVars
  PROVE BindingInv' /\ (InUse # NoOne /\ InUse' = InUse => ScopeInUse' = ScopeInUse)
<1> USE BindingAssumption DEF BindingInv
<1>1. /\ UNCHANGED <<managed, active, binding, files, exchange>>
      /\ status' \in [Connection -> {"absent", "known", "ready"}] /\ scope' \in [Connection -> {"none", "uid", "legacy"}]
  BY DEF Create, GrowOld, Delete, Probe, ProbedScope, Break, registry, files, exchange, bindingVars, BindingTypeOK
<1>2. \A m \in Mode : binding[m] # NoOne => status'[binding[m]] # "absent" /\ scope'[binding[m]] = scope[binding[m]]
  <2> SUFFICES ASSUME NEW m \in Mode, binding[m] # NoOne
               PROVE status'[binding[m]] # "absent" /\ scope'[binding[m]] = scope[binding[m]] OBVIOUS
  <2>1. binding[m] \in Connection /\ status[binding[m]] # "absent" /\ scope[binding[m]] # "none" BY CurrentType DEF BindingTypeOK
  <2> QED BY <2>1 DEF Create, GrowOld, Delete, Probe, ProbedScope, Break, registry, bindingVars, Unbound, BindingTypeOK
<1>3. InUse' = InUse /\ \A m \in Mode : Current(m)' = Current(m) BY <1>1 DEF InUse, Current, BindingTypeOK
<1>4. BindingTypeOK' BY <1>1, <1>2 DEF BindingTypeOK, files, exchange
<1>5. NothingLeftBehind' BY <1>1, <1>3 DEF NothingLeftBehind, exchange
<1>6. NoForeignFiles' BY <1>1, <1>3 DEF NoForeignFiles, files
<1>7. (\A a \in Account : flight[a] => a \in unresolved)' BY <1>1 DEF exchange
<1>8. (\A m \in Mode : binding[m] # NoOne => scope[binding[m]] # "none")' BY <1>1, <1>2
<1>9. ASSUME change' # NoOne PROVE ChangeInv'
  <2>1. change' = change /\ ChangeInv BY <1>9 DEF Create, GrowOld, Delete, Probe, Break, bindingVars, Idle
  <2>2. \A c \in Connection : status[c] # "absent" => status'[c] # "absent"
    BY <2>1, <1>9 DEF Create, GrowOld, Delete, Probe, Break, bindingVars, Idle, registry, BindingTypeOK
  <2>3. UNCHANGED <<TakesOver, Archives, KeepsLedger>>
    <3>1. change \in Change BY <2>1 DEF ChangeInv
    <3> QED BY <1>1, <1>3, <2>1, <3>1 DEF TakesOver, Archives, KeepsLedger, SameAccount, Change
  <2>4. Ordered(change.todo)' BY <2>1 DEF ChangeInv, Ordered
  <2>5. (TakesOver /\ InUse # NoOne => Done(InUse, change.todo))'
    <3> SUFFICES ASSUME TakesOver, InUse # NoOne PROVE Done(InUse, change.todo)' BY <1>3, <2>3
    <3>1. Done(InUse, change.todo) BY <2>1 DEF ChangeInv
    <3> QED BY <3>1, <1>1, <1>3, <2>1 DEF Done, exchange
  <2> QED BY <2>1, <2>2, <2>3, <2>4, <2>5, <1>1 DEF ChangeInv, files, exchange
<1>10. InUse # NoOne => ScopeInUse' = ScopeInUse
  <2> SUFFICES ASSUME InUse # NoOne PROVE ScopeInUse' = ScopeInUse OBVIOUS
  <2>1. managed => binding[active] # NoOne /\ active \in Mode BY DEF InUse, Current, BindingTypeOK
  <2> QED BY <2>1, <1>1, <1>2 DEF ScopeInUse
<1> QED BY <1>4, <1>5, <1>6, <1>7, <1>8, <1>9, <1>10

(* A change begins with every read of the account it may take out of use still to *)
(* do.                                                                       *)
LEMMA StartStep ==
  ASSUME BindingInv, NEW kind \in {"bind", "unbind", "activate"}, NEW m \in Mode, NEW c \in Connection \cup {NoOne},
         NEW reads, StartChange(kind, m, c, reads), reads \in Seq(Looked), Ordered(reads),
         kind = "bind" => c \in Connection /\ status[c] # "absent" /\ ModeOf[AccountOf[c]] = m,
         kind = "unbind" => c = NoOne,
         kind # "bind" => managed,
         kind = "activate" \/ m = active \/ (kind = "bind" /\ ~managed) => (InUse # NoOne => Done(InUse, reads))
  PROVE BindingInv' /\ ScopeInUse' = ScopeInUse
<1> USE BindingAssumption DEF BindingInv
<1>1. /\ UNCHANGED <<status, scope, managed, active, binding, trackers, ledger, holding, flight, unresolved>>
      /\ unresolved = {}
      /\ change' = [kind |-> kind, mode |-> m, conn |-> c, stage |-> "reading", todo |-> reads]
  BY DEF StartChange, NoIntentPending, registry, files, exchange
<1>2. InUse' = InUse BY <1>1 DEF InUse, Current
<1>3. /\ change' \in Change /\ change'.kind = kind /\ change'.mode = m /\ change'.conn = c
      /\ change'.stage = "reading" /\ change'.todo = reads
  BY <1>1 DEF Change
<1>4. ChangeInv'
  <2>1. Ordered(change.todo)' BY <1>3 DEF Ordered
  <2>2. (TakesOver /\ InUse # NoOne => Done(InUse, change.todo))'
    <3> SUFFICES ASSUME TakesOver', InUse # NoOne PROVE Done(InUse, change.todo)' BY <1>2
    <3>1. Done(InUse, reads) BY <1>1, <1>3 DEF TakesOver
    <3> QED BY <3>1, <1>1, <1>2, <1>3 DEF Done
  <2> QED BY <2>1, <2>2, <1>1, <1>3 DEF ChangeInv
<1>5. BindingTypeOK' BY <1>1 DEF BindingTypeOK
<1>6. NothingLeftBehind' /\ NoForeignFiles' BY <1>1, <1>2 DEF NothingLeftBehind, NoForeignFiles
<1> QED BY <1>1, <1>4, <1>5, <1>6 DEF ScopeInUse

(* A change starts with ordered reads and leaves the scope in use as it is. *)
LEMMA BeginStep ==
  ASSUME BindingInv,
         \/ \E m \in Mode, c \in Connection : Bind(m, c)
         \/ \E m \in Mode : Unbind(m) \/ Activate(m)
  PROVE BindingInv' /\ ScopeInUse' = ScopeInUse
<1> USE BindingAssumption
<1>0. BindingTypeOK /\ active \in Mode /\ <<>> \in Seq(Looked) /\ Ordered(<<>>) BY DEF BindingInv, BindingTypeOK, Ordered
<1>1. InUse \in Account \cup {NoOne} /\ InUse = Current(active) BY <1>0, CurrentType DEF InUse
<1>2. ASSUME NEW m \in Mode, NEW c \in Connection, Bind(m, c) PROVE BindingInv' /\ ScopeInUse' = ScopeInUse
  <2> DEFINE a == FlatReads(Current(m))
             b == FlatReads(AccountOf[c])
             x == IF ~managed /\ m # active THEN InUse ELSE NoOne
             d == FlatReads(x)
             reads == a \o b \o d
  <2>1. Current(m) \in Account \cup {NoOne} /\ AccountOf[c] \in Account /\ x \in Account \cup {NoOne}
    BY <1>0, <1>1, CurrentType
  <2>2. /\ a \in Seq(Looked) /\ Ordered(a) /\ b \in Seq(Looked) /\ Ordered(b) /\ d \in Seq(Looked) /\ Ordered(d)
    BY <2>1, ReadsOrdered
  <2>3. a \o b \in Seq(Looked) /\ Ordered(a \o b) /\ b \o d \in Seq(Looked) /\ Ordered(b \o d)
    BY <2>2, ReadsFollow
  <2>4. reads \in Seq(Looked) /\ Ordered(reads) BY <2>2, <2>3, ReadsFollow
  <2>5. m = active \/ ~managed => (InUse # NoOne => Done(InUse, reads))
    <3> SUFFICES ASSUME InUse \in Account, m = active \/ ~managed PROVE Done(InUse, reads) BY <1>1
    <3>1. CASE m = active
      <4>1. a = FlatReads(InUse) /\ reads = <<>> \o FlatReads(InUse) \o (b \o d)
        <5>1. a = FlatReads(InUse) BY <3>1, <1>1
        <5>2. <<>> \o a = a /\ (a \o b) \o d = a \o (b \o d) BY <2>2
        <5> QED BY <5>1, <5>2
      <4> QED BY <4>1, <1>0, <2>3, NotYetRead
    <3>2. CASE m # active /\ ~managed
      <4>1. d = FlatReads(InUse) BY <3>2
      <4>2. reads = (a \o b) \o FlatReads(InUse) \o <<>>
        <5>1. reads \o <<>> = reads BY <2>4
        <5> QED BY <4>1, <5>1
      <4> HIDE DEF reads
      <4> QED BY <4>2, <1>0, <2>3, NotYetRead
    <3> QED BY <3>1, <3>2
  <2>6. StartChange("bind", m, c, reads) /\ status[c] # "absent" /\ ModeOf[AccountOf[c]] = m BY <1>2 DEF Bind
  <2> HIDE DEF reads
  <2> QED BY <2>4, <2>5, <2>6, StartStep
<1>3. ASSUME NEW m \in Mode, Unbind(m) PROVE BindingInv' /\ ScopeInUse' = ScopeInUse
  <2> DEFINE reads == FlatReads(AccountOf[binding[m]])
  <2>1. binding[m] # NoOne /\ AccountOf[binding[m]] \in Account /\ managed
    BY <1>3, <1>0, CurrentType DEF Unbind, BindingTypeOK
  <2>2. reads \in Seq(Looked) /\ Ordered(reads) BY <2>1, ReadsOrdered
  <2>3. m = active => Done(InUse, reads)
    <3> SUFFICES ASSUME m = active PROVE Done(InUse, reads) OBVIOUS
    <3>1. InUse = AccountOf[binding[m]] BY <2>1, <1>1 DEF Current
    <3>2. reads = <<>> \o FlatReads(InUse) \o <<>> BY <2>2, <3>1
    <3> HIDE DEF reads
    <3> QED BY <3>1, <3>2, <2>1, <1>0, NotYetRead
  <2>4. StartChange("unbind", m, NoOne, reads) BY <1>3 DEF Unbind
  <2> HIDE DEF reads
  <2> QED BY <2>1, <2>2, <2>3, <2>4, StartStep
<1>4. ASSUME NEW m \in Mode, Activate(m) PROVE BindingInv' /\ ScopeInUse' = ScopeInUse
  <2> DEFINE a == FlatReads(InUse)
             b == FlatReads(AccountOf[binding[m]])
             reads == a \o b
  <2>1. binding[m] # NoOne /\ AccountOf[binding[m]] \in Account /\ managed
    BY <1>4, <1>0, CurrentType DEF Activate, BindingTypeOK
  <2>2. a \in Seq(Looked) /\ Ordered(a) /\ b \in Seq(Looked) /\ Ordered(b) BY <2>1, <1>1, ReadsOrdered
  <2>3. reads \in Seq(Looked) /\ Ordered(reads) BY <2>2, ReadsFollow
  <2>4. InUse # NoOne => Done(InUse, reads)
    <3> SUFFICES ASSUME InUse \in Account PROVE Done(InUse, reads) BY <1>1
    <3>1. reads = <<>> \o FlatReads(InUse) \o b BY <2>2
    <3> HIDE DEF reads
    <3> QED BY <3>1, <1>0, <2>2, NotYetRead
  <2>5. StartChange("activate", m, NoOne, reads) BY <1>4 DEF Activate
  <2> HIDE DEF reads
  <2> QED BY <2>1, <2>3, <2>4, <2>5, StartStep
<1> QED BY <1>2, <1>3, <1>4

(* What a read shows. *)
LEMMA ShowsSo ==
  ASSUME NEW a
  PROVE /\ Shows(<<a, "orders">>) <=> holding[a] = "working"
        /\ Shows(<<a, "stops">>) <=> holding[a] = "held"
BY DEF Shows

(* A read that shows nothing is done. *)
LEMMA ReadStep ==
  ASSUME BindingInv, Read
  PROVE BindingInv' /\ ScopeInUse' = ScopeInUse
<1> USE BindingAssumption DEF BindingInv
<1> DEFINE ahead == change.todo
<1>1. /\ ChangeInv /\ change \in Change /\ ahead \in Seq(Looked) /\ ahead # <<>> /\ ~Shows(Head(ahead))
      /\ change' = [change EXCEPT !.todo = Tail(ahead)]
      /\ UNCHANGED <<status, scope, managed, active, binding, trackers, ledger, holding, flight, unresolved>>
  BY DEF Read, ChangeInv, Change, Idle, registry, files, exchange
<1>t. Tail(ahead) \in Seq(Looked) BY <1>1
<1>2. /\ change' \in Change /\ change'.kind = change.kind /\ change'.mode = change.mode /\ change'.conn = change.conn
      /\ change'.stage = change.stage /\ change'.todo = Tail(ahead)
  BY <1>1, <1>t DEF Change
<1>3. InUse' = InUse /\ InUse \in Account \cup {NoOne}
  BY <1>1, CurrentType DEF InUse, Current, BindingTypeOK
<1> HIDE DEF ahead
<1>4. /\ Len(ahead) \in Nat /\ DOMAIN ahead = 1 .. Len(ahead) /\ DOMAIN Tail(ahead) = 1 .. (Len(ahead) - 1) /\ Len(ahead) >= 1
      /\ Head(ahead) = ahead[1] /\ \A i \in 1 .. (Len(ahead) - 1) : Tail(ahead)[i] = ahead[i + 1]
  BY <1>1
<1>5. \A i \in DOMAIN ahead : i = 1 \/ (i - 1 \in DOMAIN Tail(ahead) /\ Tail(ahead)[i - 1] = ahead[i])
  <2> SUFFICES ASSUME NEW i \in 1 .. Len(ahead), i # 1 PROVE i - 1 \in DOMAIN Tail(ahead) /\ Tail(ahead)[i - 1] = ahead[i]
    BY <1>4
  <2>1. i - 1 \in 1 .. (Len(ahead) - 1) /\ (i - 1) + 1 = i BY <1>4
  <2> QED BY <1>4, <2>1
<1>6. Ordered(ahead) BY <1>1 DEF ChangeInv, ahead
<1>7. Ordered(Tail(ahead))
  <2> SUFFICES ASSUME NEW a \in Account, NEW i \in 1 .. (Len(ahead) - 1), Tail(ahead)[i] = <<a, "orders">>
               PROVE \E j \in DOMAIN Tail(ahead) : j > i /\ Tail(ahead)[j] = <<a, "stops">>
    BY <1>4 DEF Ordered
  <2>1. i + 1 \in DOMAIN ahead /\ ahead[i + 1] = <<a, "orders">> BY <1>4
  <2>2. PICK j \in DOMAIN ahead : j > i + 1 /\ ahead[j] = <<a, "stops">> BY <1>6, <2>1 DEF Ordered
  <2>3. j - 1 \in DOMAIN Tail(ahead) /\ Tail(ahead)[j - 1] = <<a, "stops">> /\ j - 1 > i BY <1>4, <1>5, <2>2
  <2> QED BY <2>3
<1>8. ASSUME InUse \in Account, Done(InUse, ahead) PROVE Done(InUse, Tail(ahead))
  <2>1. holding[InUse] \in {"flat", "working", "held"} BY <1>8 DEF BindingTypeOK
  <2>2. ASSUME \A i \in DOMAIN Tail(ahead) : Tail(ahead)[i] # <<InUse, "orders">> PROVE holding[InUse] # "working"
    <3>1. CASE ahead[1] = <<InUse, "orders">>
      <4>1. ~Shows(<<InUse, "orders">>) BY <3>1, <1>1, <1>4
      <4> QED BY <4>1, ShowsSo
    <3>2. CASE ahead[1] # <<InUse, "orders">>
      <4>1. \A i \in DOMAIN ahead : ahead[i] # <<InUse, "orders">> BY <1>5, <2>2, <3>2
      <4> QED BY <4>1, <1>8 DEF Done
    <3> QED BY <3>1, <3>2
  <2>3. ASSUME \A i \in DOMAIN Tail(ahead) : Tail(ahead)[i] # <<InUse, "stops">> PROVE holding[InUse] = "flat"
    <3>1. CASE ahead[1] = <<InUse, "stops">>
      <4>0. ~Shows(<<InUse, "stops">>) BY <3>1, <1>1, <1>4
      <4>1. holding[InUse] # "held" BY <4>0, ShowsSo
      <4>2. \A i \in DOMAIN ahead : ahead[i] # <<InUse, "orders">>
        <5> SUFFICES ASSUME NEW i \in DOMAIN ahead, ahead[i] = <<InUse, "orders">> PROVE FALSE OBVIOUS
        <5>1. PICK j \in DOMAIN ahead : j > i /\ ahead[j] = <<InUse, "stops">> BY <1>6, <1>8 DEF Ordered
        <5>2. j # 1 BY <5>1, <1>4
        <5> QED BY <5>1, <5>2, <1>5, <2>3
      <4>3. holding[InUse] # "working" BY <4>2, <1>8 DEF Done
      <4> QED BY <4>1, <4>3, <2>1
    <3>2. CASE ahead[1] # <<InUse, "stops">>
      <4>1. \A i \in DOMAIN ahead : ahead[i] # <<InUse, "stops">> BY <1>5, <2>3, <3>2
      <4> QED BY <4>1, <1>8 DEF Done
    <3> QED BY <3>1, <3>2
  <2> QED BY <2>2, <2>3 DEF Done
<1>9. UNCHANGED <<TakesOver, Archives, KeepsLedger>>
  BY <1>1, <1>2 DEF TakesOver, Archives, KeepsLedger, SameAccount, Current
<1>10. ChangeInv'
  <2>1. Ordered(change.todo)'
    <3>1. change'.todo = Tail(ahead) BY <1>2
    <3>2. Ordered(change'.todo) BY <1>7, <3>1
    <3> QED BY <3>2 DEF Ordered
  <2>2. (TakesOver /\ InUse # NoOne => Done(InUse, change.todo))'
    <3> SUFFICES ASSUME TakesOver, InUse \in Account PROVE Done(InUse, change.todo)' BY <1>3, <1>9
    <3>1. Done(InUse, Tail(ahead)) BY <1>1, <1>8 DEF ChangeInv, ahead
    <3> QED BY <3>1, <1>1, <1>2, <1>3 DEF Done
  <2>3. change.stage # "archived" BY <1>1 DEF ChangeInv, ahead
  <2> QED BY <2>1, <2>2, <2>3, <1>1, <1>2, <1>9 DEF ChangeInv
<1>11. BindingTypeOK' BY <1>1 DEF BindingTypeOK
<1>12. NothingLeftBehind' /\ NoForeignFiles' BY <1>1, <1>3 DEF NothingLeftBehind, NoForeignFiles
<1> QED BY <1>1, <1>10, <1>11, <1>12 DEF ScopeInUse

(* The files of the account that goes are put away before anything is saved. *)
LEMMA ArchiveStep ==
  ASSUME BindingInv, Archive
  PROVE BindingInv' /\ ScopeInUse' = ScopeInUse
<1> USE BindingAssumption DEF BindingInv
<1>1. /\ ChangeInv /\ change \in Change /\ change.todo = <<>>
      /\ change' = [change EXCEPT !.stage = "archived"]
      /\ trackers' = (IF Archives THEN NoOne ELSE trackers)
      /\ ledger' = (IF Archives /\ ~KeepsLedger THEN NoOne ELSE ledger)
      /\ UNCHANGED <<status, scope, managed, active, binding, holding, flight, unresolved>>
  BY DEF Archive, ChangeInv, Idle, registry, exchange
<1>2. /\ change' \in Change /\ change'.kind = change.kind /\ change'.mode = change.mode /\ change'.conn = change.conn
      /\ change'.stage = "archived" /\ change'.todo = change.todo
  BY <1>1 DEF Change
<1>3. InUse' = InUse BY <1>1 DEF InUse, Current
<1>4. UNCHANGED <<TakesOver, Archives, KeepsLedger>>
  BY <1>1, <1>2 DEF TakesOver, Archives, KeepsLedger, SameAccount, Current
<1>5. ChangeInv'
  <2>1. Ordered(change.todo)' BY <1>1, <1>2 DEF ChangeInv, Ordered
  <2>2. (TakesOver /\ InUse # NoOne => Done(InUse, change.todo))'
    <3> SUFFICES ASSUME TakesOver, InUse # NoOne PROVE Done(InUse, change.todo)' BY <1>3, <1>4
    <3>1. Done(InUse, change.todo) BY <1>1 DEF ChangeInv
    <3> QED BY <3>1, <1>1, <1>2, <1>3 DEF Done
  <2> QED BY <2>1, <2>2, <1>1, <1>2, <1>4 DEF ChangeInv
<1>6. BindingTypeOK' BY <1>1 DEF BindingTypeOK
<1>7. NothingLeftBehind' /\ NoForeignFiles' BY <1>1, <1>3 DEF NothingLeftBehind, NoForeignFiles
<1> QED BY <1>1, <1>5, <1>6, <1>7 DEF ScopeInUse

(* Another mode is traded. *)
LEMMA ActivateStep ==
  ASSUME BindingInv, SaveActive
  PROVE BindingInv' /\ (InUse # NoOne /\ InUse' = InUse => ScopeInUse' = ScopeInUse)
<1> USE BindingAssumption DEF BindingInv
<1>1. /\ ChangeInv /\ change \in Change /\ change.kind = "activate" /\ change.stage = "archived" /\ change.todo = <<>>
      /\ active' = change.mode /\ change' = NoOne
      /\ UNCHANGED <<status, scope, managed, binding, trackers, ledger, holding, flight, unresolved>>
  BY DEF SaveActive, ReadyToSave, ChangeInv, Idle, files, exchange
<1>2. change.mode \in Mode BY <1>1 DEF Change
<1>3. trackers = NoOne /\ ledger = NoOne BY <1>1 DEF ChangeInv, Archives, KeepsLedger
<1>4. InUse \in Account \cup {NoOne} BY CurrentType DEF InUse, BindingTypeOK
<1>5. InUse \in Account => holding[InUse] = "flat" /\ ~flight[InUse]
  <2>1. TakesOver BY <1>1 DEF TakesOver
  <2>2. InUse \in Account => holding[InUse] = "flat" BY <1>1, <2>1 DEF ChangeInv, Done
  <2>3. InUse \in Account => ~flight[InUse] BY <1>1 DEF ChangeInv
  <2> QED BY <2>2, <2>3
<1>6. \A a \in Account : holding[a] = "flat" /\ ~flight[a] BY <1>5 DEF NothingLeftBehind
<1>7. BindingTypeOK' BY <1>1, <1>2 DEF BindingTypeOK
<1>8. NothingLeftBehind' BY <1>1, <1>6 DEF NothingLeftBehind
<1>9. NoForeignFiles' BY <1>1, <1>3 DEF NoForeignFiles
<1>10. InUse # NoOne /\ InUse' = InUse => ScopeInUse' = ScopeInUse
  <2> SUFFICES ASSUME InUse # NoOne, InUse' = InUse PROVE ScopeInUse' = ScopeInUse OBVIOUS
  <2>1. ModeOf[InUse] = active BY CurrentType DEF InUse, BindingTypeOK
  <2>2. InUse' = Current(change.mode) BY <1>1 DEF InUse, Current
  <2>3. ModeOf[Current(change.mode)] = change.mode BY <1>2, <2>2, CurrentType
  <2>4. active' = active BY <1>1, <2>1, <2>2, <2>3
  <2> QED BY <1>1, <2>4 DEF ScopeInUse
<1> QED BY <1>1, <1>7, <1>8, <1>9, <1>10

(* A binding is saved, and with the first one those of the old configuration. *)
LEMMA SaveStep ==
  ASSUME BindingInv, SaveBinding
  PROVE BindingInv' /\ (InUse # NoOne /\ InUse' = InUse => ScopeInUse' = ScopeInUse)
<1> USE BindingAssumption DEF BindingInv
<1> DEFINE other == {m \in Mode \ {change.mode} : ~managed /\ Copy[m] # NoOne}
           c == change.conn
<1>1. /\ ChangeInv /\ change \in Change /\ change.kind # "activate" /\ change.stage = "archived" /\ change.todo = <<>>
      /\ binding' = [m \in Mode |-> IF m = change.mode THEN c ELSE IF m \in other THEN Copy[m] ELSE binding[m]]
      /\ status' = [k \in Connection |-> IF \E m \in other : Copy[m] = k THEN "known" ELSE status[k]]
      /\ scope' = [k \in Connection |-> IF k = c THEN Canonical
                      ELSE IF \E m \in other : Copy[m] = k THEN "legacy" ELSE scope[k]]
      /\ managed' = TRUE /\ change' = NoOne
      /\ UNCHANGED <<active, trackers, ledger, holding, flight, unresolved>>
  BY DEF SaveBinding, ReadyToSave, ChangeInv, Idle, files, exchange
<1>2. change.mode \in Mode /\ active \in Mode /\ change.kind \in {"bind", "unbind"} BY <1>1 DEF Change, BindingTypeOK
<1>3. /\ change.kind = "bind" => c \in Connection /\ status[c] # "absent" /\ ModeOf[AccountOf[c]] = change.mode
      /\ change.kind = "unbind" => c = NoOne /\ managed /\ other = {}
  BY <1>1 DEF ChangeInv
<1>4. \A m \in other : Copy[m] \in Connection /\ AccountOf[Copy[m]] = Legacy[m] /\ ModeOf[AccountOf[Copy[m]]] = m /\ Copy[m] # c
  BY <1>2, <1>3
<1>5. \A m \in Mode : binding[m] # NoOne => /\ binding[m] \in Connection /\ AccountOf[binding[m]] \in Account /\ managed
                                            /\ status[binding[m]] # "absent" /\ ModeOf[AccountOf[binding[m]]] = m
                                            /\ scope[binding[m]] # "none"
  BY CurrentType DEF BindingTypeOK
<1>6. Canonical \in {"uid", "legacy"} BY <1>2, <1>5 DEF Canonical, BindingTypeOK
<1> HIDE DEF other, c
<1>7. status' \in [Connection -> {"absent", "known", "ready"}] /\ scope' \in [Connection -> {"none", "uid", "legacy"}]
  BY <1>1, <1>6 DEF BindingTypeOK
<1>8. \A m \in Mode : binding'[m] # NoOne =>
        /\ binding'[m] \in Connection /\ status'[binding'[m]] # "absent" /\ ModeOf[AccountOf[binding'[m]]] = m
        /\ scope'[binding'[m]] # "none"
  <2> SUFFICES ASSUME NEW m \in Mode, binding'[m] # NoOne
               PROVE /\ binding'[m] \in Connection /\ status'[binding'[m]] # "absent" /\ ModeOf[AccountOf[binding'[m]]] = m
                     /\ scope'[binding'[m]] # "none"
    OBVIOUS
  <2> DEFINE k == binding'[m]
  <2>1. \/ m = change.mode /\ k = c
        \/ m \in other /\ k = Copy[m]
        \/ m # change.mode /\ m \notin other /\ k = binding[m]
    BY <1>1
  <2>2. k \in Connection /\ ModeOf[AccountOf[k]] = m BY <2>1, <1>2, <1>3, <1>4, <1>5
  <2>3. (\E n \in other : Copy[n] = k) \/ status[k] # "absent" BY <2>1, <1>2, <1>3, <1>4, <1>5
  <2>4. (\E n \in other : Copy[n] = k) \/ scope[k] # "none" \/ k = c BY <2>1, <1>4, <1>5
  <2>5. status'[k] # "absent" BY <1>1, <2>2, <2>3
  <2>6. scope'[k] # "none" BY <1>1, <1>6, <2>2, <2>4
  <2> QED BY <2>2, <2>5, <2>6
<1>9. binding' \in [Mode -> Connection \cup {NoOne}]
  <2>1. c \in Connection \cup {NoOne} BY <1>2, <1>3
  <2> QED BY <1>1, <1>4, <2>1 DEF BindingTypeOK
<1>10. BindingTypeOK' BY <1>1, <1>7, <1>8, <1>9 DEF BindingTypeOK
<1>11. InUse' = IF binding'[active] # NoOne THEN AccountOf[binding'[active]] ELSE NoOne
  BY <1>1 DEF InUse, Current
<1>12. InUse \in Account \cup {NoOne} /\ InUse' \in Account \cup {NoOne} BY <1>2, <1>8, <1>11, CurrentType DEF InUse, BindingTypeOK
<1>13. ASSUME TakesOver PROVE NothingLeftBehind' /\ NoForeignFiles'
  <2>1. \A a \in Account : holding[a] = "flat" /\ ~flight[a]
    <3>1. InUse \in Account => holding[InUse] = "flat" BY <1>1, <1>13 DEF ChangeInv, Done
    <3>2. InUse \in Account => ~flight[InUse] BY <1>1 DEF ChangeInv
    <3> QED BY <3>1, <3>2 DEF NothingLeftBehind
  <2>2. NothingLeftBehind' BY <1>1, <2>1 DEF NothingLeftBehind
  <2>3. trackers = NoOne /\ (~KeepsLedger => ledger = NoOne) BY <1>1, <1>2, <1>13 DEF ChangeInv, Archives, TakesOver
  <2>4. KeepsLedger /\ InUse' # NoOne => InUse' = InUse
    <3> SUFFICES ASSUME KeepsLedger, InUse' # NoOne PROVE InUse' = InUse OBVIOUS
    <3>1. CASE change.mode = active
      <4>1. Current(active) = AccountOf[c] BY <3>1 DEF KeepsLedger, SameAccount, c
      <4>2. binding'[active] = c BY <1>1, <1>2, <3>1
      <4> QED BY <4>1, <4>2, <1>11 DEF InUse
    <3>2. CASE change.mode # active
      <4>1. ~managed /\ binding[active] = NoOne BY <3>2, <1>1, <1>2, <1>5, <1>13 DEF TakesOver
      <4>2. binding'[active] = Copy[active] /\ active \in other BY <4>1, <3>2, <1>1, <1>2, <1>11 DEF other
      <4>3. InUse = Legacy[active] BY <4>1 DEF InUse, Current
      <4> QED BY <4>2, <4>3, <1>4, <1>11
    <3> QED BY <3>1, <3>2
  <2>5. NoForeignFiles'
    <3>1. KeepsLedger /\ InUse' # NoOne => ledger \in {NoOne, InUse} BY <2>4 DEF NoForeignFiles
    <3> QED BY <1>1, <2>3, <2>4, <3>1 DEF NoForeignFiles
  <2> QED BY <2>2, <2>5
<1>14. ASSUME ~TakesOver PROVE NothingLeftBehind' /\ NoForeignFiles'
  <2>1. change.mode # active /\ managed BY <1>2, <1>3, <1>14 DEF TakesOver
  <2>2. binding'[active] = binding[active] BY <1>1, <1>2, <2>1 DEF other
  <2>3. InUse' = InUse BY <1>11, <2>1, <2>2 DEF InUse, Current
  <2>4. NothingLeftBehind' /\ NoForeignFiles' BY <1>1, <2>3 DEF NothingLeftBehind, NoForeignFiles
  <2> QED BY <2>4
<1>15. InUse # NoOne /\ InUse' = InUse => ScopeInUse' = ScopeInUse
  <2> SUFFICES ASSUME InUse # NoOne, InUse' = InUse PROVE ScopeInUse' = ScopeInUse OBVIOUS
  <2>1. binding'[active] # NoOne /\ ScopeInUse' = scope'[binding'[active]]
    BY <1>1, <1>11 DEF ScopeInUse
  <2>2. CASE change.mode = active
    <3>1. binding'[active] = c /\ c \in Connection BY <1>1, <1>2, <1>8, <2>1, <2>2
    <3>2. SameAccount BY <3>1, <2>1, <2>2, <1>11 DEF SameAccount, InUse, c
    <3>3. scope'[c] = Canonical BY <1>1, <3>1
    <3>4. Canonical = IF binding[active] = NoOne THEN "legacy" ELSE scope[binding[active]] BY <3>2, <2>2 DEF Canonical
    <3>5. binding[active] = NoOne => ~managed BY DEF InUse, Current
    <3>6. binding[active] # NoOne => managed BY <1>5, <1>2
    <3> QED BY <2>1, <3>1, <3>3, <3>4, <3>5, <3>6 DEF ScopeInUse
  <2>3. CASE change.mode # active /\ managed
    <3>1. binding'[active] = binding[active] /\ other = {} BY <1>1, <1>2, <2>3 DEF other
    <3>2. binding[active] # c BY <1>2, <1>3, <1>5, <2>1, <2>3, <3>1
    <3>3. scope'[binding[active]] = scope[binding[active]] BY <1>1, <1>2, <1>5, <2>1, <3>1, <3>2
    <3> QED BY <2>1, <2>3, <3>1, <3>3 DEF ScopeInUse
  <2>4. CASE change.mode # active /\ ~managed
    <3>1. binding[active] = NoOne BY <1>2, <1>5, <2>4
    <3>2. active \in other /\ binding'[active] = Copy[active] BY <1>1, <1>2, <2>1, <2>4, <3>1 DEF other
    <3>3. scope'[Copy[active]] = "legacy" BY <1>1, <1>4, <3>2
    <3> QED BY <2>1, <2>4, <3>2, <3>3 DEF ScopeInUse
  <2> QED BY <2>2, <2>3, <2>4
<1> QED BY <1>1, <1>8, <1>10, <1>13, <1>14, <1>15

(* At first no change is under way. *)
LEMMA BindingAtFirst == BindingInit => BindingInv
<1> SUFFICES ASSUME BindingInit PROVE BindingInv OBVIOUS
<1> USE BindingAssumption DEF BindingInit
<1>1. BindingTypeOK BY DEF BindingTypeOK
<1>2. NothingLeftBehind /\ NoForeignFiles BY DEF NothingLeftBehind, NoForeignFiles
<1> QED BY <1>1, <1>2 DEF BindingInv, Idle

(* Every step of every part keeps the binding's invariant. *)
LEMMA BindingStep == BindingInv /\ [BindingNext]_bindingVars =>
  BindingInv' /\ (InUse # NoOne /\ InUse' = InUse => ScopeInUse' = ScopeInUse)
<1> SUFFICES ASSUME BindingInv, [BindingNext]_bindingVars
             PROVE BindingInv' /\ (InUse # NoOne /\ InUse' = InUse => ScopeInUse' = ScopeInUse)
  OBVIOUS
<1>1. CASE RunCycle \/ SendEntry \/ ReconcileIntents \/ (\E a \in Account, b \in BOOLEAN : Arrive(a, b))
           \/ (\E a \in Account : Move(a))
  <2>1. UNCHANGED registry BY <1>1 DEF RunCycle, SendEntry, ReconcileIntents, Arrive, Move
  <2> QED BY <1>1, <2>1, TradingStep DEF ScopeInUse, registry
<1>2. CASE (\E c \in Connection : Create(c) \/ GrowOld(c) \/ Delete(c))
           \/ (\E c \in Connection, b \in BOOLEAN : Probe(c, b)) \/ Break \/ UNCHANGED bindingVars
  BY <1>2, ConnectionStep
<1>3. CASE (\E m \in Mode, c \in Connection : Bind(m, c)) \/ (\E m \in Mode : Unbind(m) \/ Activate(m))
  BY <1>3, BeginStep
<1>4. CASE Read BY <1>4, ReadStep
<1>5. CASE Archive BY <1>5, ArchiveStep
<1>6. CASE SaveBinding BY <1>6, SaveStep
<1>7. CASE SaveActive BY <1>7, ActivateStep
<1> QED BY <1>1, <1>2, <1>3, <1>4, <1>5, <1>6, <1>7 DEF BindingNext

(* BindingSafe holds for every set of accounts, connections and modes: whatever is *)
(* cut off, and although the reads are not one snapshot, an account that is not in *)
(* use has nothing at risk, and the files are never another account's             *)
(* (account_connections.bind, unbind, activate).                               *)
THEOREM BindingSafeTheorem == BindingSpec => []BindingSafe
<1>1. BindingInv => BindingSafe BY DEF BindingInv, BindingSafe
<1> QED BY <1>1, BindingAtFirst, BindingStep, PTL DEF BindingSpec

(* ScopeContinues: while an account stays in use its evidence keeps its name,      *)
(* through probes, new keys and the take-over of the old configuration.          *)
THEOREM ScopeContinuesTheorem == BindingSpec => ScopeContinues
<1>1. BindingInv /\ [BindingNext]_bindingVars =>
        BindingInv' /\ [InUse # NoOne /\ InUse' = InUse => ScopeInUse' = ScopeInUse]_bindingVars
  BY BindingStep
<1> QED BY <1>1, BindingAtFirst, PTL DEF BindingSpec, ScopeContinues

-----------------------------------------------------------------------------
(* The care of a position. *)

(* Numbers that there are have a least one among them.                         *)
LEMMA LeastOf ==
  ASSUME NEW T \in SUBSET Nat, T # {}
  PROVE \E m \in T : \A k \in T : m <= k
<1> DEFINE R == {ss \in Nat \X Nat : ss[1] < ss[2]}
<1>1. IsWellFoundedOn(R, Nat) BY NatLessThanWellFounded DEF OpToRel
<1>2. \A a, b \in Nat : a < b => <<a, b>> \in R
  <2> TAKE a, b \in Nat
  <2>1. <<a, b>> \in Nat \X Nat /\ <<a, b>>[1] = a /\ <<a, b>>[2] = b OBVIOUS
  <2> QED BY <2>1
<1> HIDE DEF R
<1>3. PICK x \in T : \A y \in T : ~(<<y, x>> \in R) BY <1>1, WFMin
<1>4. ASSUME NEW y \in T PROVE x <= y
  <2>1. x \in Nat /\ y \in Nat /\ ~(<<y, x>> \in R) BY <1>3
  <2> QED BY <2>1, <1>2
<1> QED BY <1>4

(* Of what is covered there is a weakest stop.                                *)
LEMMA CoveredHasStop ==
  ASSUME NEW stops \in [Segment -> 0 .. MaxLevel], NEW n \in Nat, n > 0, Covered(stops, n)
  PROVE Weakest(stops) \in Level
<1> USE CareAssumption DEF Level
<1>1. Live(stops) # {}
  <2> SUFFICES ASSUME Live(stops) = {} PROVE FALSE OBVIOUS
  <2>1. Cardinality({}) = 0 BY FS_EmptySet
  <2> QED BY <2>1 DEF Covered
<1> DEFINE T == {stops[s] : s \in Live(stops)}
<1>2. T \in SUBSET Level /\ T # {} BY <1>1 DEF Live
<1>3. T \in SUBSET Nat BY <1>2
<1> HIDE DEF T
<1>4. PICK m \in T : \A k \in T : m <= k BY <1>2, <1>3, LeastOf
<1>5. \A s \in Live(stops) : stops[s] \in T BY DEF T
<1>6. \E l \in T : \A s \in Live(stops) : l <= stops[s] BY <1>4, <1>5
<1>7. Weakest(stops) \in T BY <1>6 DEF Weakest, T
<1> QED BY <1>2, <1>7

CareSeen == [life : 0 .. MaxLives, size : Size, mark : Level, stopAt : [Segment -> 0 .. MaxLevel]]
CareSteps == {"idle", "positions", "lifecycle", "verify", "manage", "protect", "placed", "recheck",
                 "kept", "managed", "closing", "end", "amend", "journalled", "amended",
                 "instructed", "planned", "planSent"}

(* A snapshot is made of its parts. *)
LEMMA SeenMade ==
  ASSUME NEW l \in 0 .. MaxLives, NEW n \in Size, NEW m \in Level, NEW f \in [Segment -> 0 .. MaxLevel]
  PROVE [life |-> l, size |-> n, mark |-> m, stopAt |-> f] \in CareSeen
BY DEF CareSeen

(* The snapshot and the tracker of a run that has none are such values too. *)
LEMMA NothingIsSeen == Nothing \in CareSeen /\ NoTracker \in Tracker /\ 1 \in Level
<1> USE CareAssumption
<1>0. Cardinality(Segment) \in Nat BY FS_CardinalityType
<1>1. 0 \in 0 .. MaxLives /\ 0 \in Size /\ 1 \in Level /\ 0 \in 0 .. MaxLevel BY <1>0 DEF Size, Level
<1>2. [s \in Segment |-> 0] \in [Segment -> 0 .. MaxLevel] BY <1>1
<1>3. Nothing \in CareSeen BY <1>1, <1>2, SeenMade DEF Nothing
<1>4. NoTracker \in Tracker BY <1>1 DEF NoTracker, Tracker
<1> QED BY <1>1, <1>3, <1>4

(* The exchange: what is to be amended is live, and without a position nothing is. *)
ExchangeInv ==
  /\ filling => size < Cardinality(Segment)
  /\ size = 0 => inFlight = {} /\ \A s \in Segment : stopAt[s] = 0
  /\ \A r \in inFlight : stopAt[r.segment] > 0
  /\ \A s \in same : stopAt[s] > 0
  /\ life >= 1

(* A run knows which position it works on, with a tracker of that position from    *)
(* its management on.                                                          *)
Managing == {"manage", "protect", "placed", "kept", "managed", "amend", "journalled", "amended", "planned", "planSent"}
RunInv ==
  /\ tracker.life = 0 => tracker = NoTracker
  /\ trackerFile.life = 0 => trackerFile = NoTracker
  /\ careAt = "verify" => tracker = NoTracker
  /\ careAt \notin {"idle", "end"} => seen.life >= 1
  /\ careAt \notin {"idle", "end", "closing"} => seen.size > 0
  /\ careAt \in Managing => tracker.life = seen.life
  /\ careAt \in {"positions", "amend", "journalled", "amended"} => keeper = "guard"
  /\ keeper = "deciding" <=> careAt \in {"instructed", "planned", "planSent"} \/ (keeper = "deciding" /\ careAt \in {"closing", "end"})
  /\ careAt \in {"journalled", "amended", "planned", "planSent"} => goal \in Level

(* One amendment at most is open, it tightens, and whoever may save the tracker     *)
(* keeps its record.                                                          *)
AmendmentInv ==
  /\ \A r, q \in inFlight : r = q
  /\ \A r \in inFlight : stopAt[r.segment] < r.stop
  /\ keeper # "deciding" => \A r \in inFlight : trackerFile.pending = r.segment /\ trackerFile.life = life
  /\ keeper # Nobody => \A r \in inFlight :
       /\ tracker.pending = r.segment /\ tracker.life = life
       /\ trackerFile.pending = r.segment => trackerFile.life = life
       /\ careAt # "end" => seen.life = life
  /\ careAt \in {"amend", "journalled", "planned"} => inFlight = {}
  /\ careAt = "journalled" => /\ tracker.pending \in Segment /\ trackerFile = tracker
                              /\ tracker.pending \in same => stopAt[tracker.pending] < goal
  /\ careAt \in {"amended", "planSent"} =>
       tracker.pending \in Segment /\ \A r \in inFlight : r.segment = tracker.pending /\ r.stop = goal
  /\ careAt = "instructed" => tracker = trackerFile
  /\ careAt \in {"planned", "planSent"} =>
       trackerFile.pending = NoSegment /\ \A s \in todo \cap same : stopAt[s] < goal
  /\ careAt = "planSent" => tracker.pending \notin todo

CareInv == CareTypeOK /\ ExchangeInv /\ RunInv /\ (~orphaned => AmendmentInv)

(* Flat and at rest, with whatever tracker file was left. *)
LEMMA CareAtFirst == CareInit => CareInv
<1> SUFFICES ASSUME CareInit PROVE CareInv OBVIOUS
<1> USE CareAssumption DEF CareInit
<1>0. Cardinality(Segment) \in Nat BY FS_CardinalityType
<1>1. Nothing \in CareSeen /\ NoTracker \in Tracker BY NothingIsSeen
<1>2. FALSE \in BOOLEAN /\ {} \subseteq Amendment /\ 0 \in 0 .. MaxLevel /\ 0 \in 0 .. MaxCrashes OBVIOUS
<1>3. NotAway \in [out : BOOLEAN, tracker : Tracker] BY <1>1, <1>2 DEF NotAway
<1>4. trackerFile \in Tracker BY <1>1 DEF Tracker
<1>5. size \in Size /\ life \in 0 .. MaxLives /\ mark \in Level BY <1>0 DEF Size, Level
<1>6. CareTypeOK
  <2>1. stopAt \in [Segment -> 0 .. MaxLevel] /\ filling \in BOOLEAN /\ inFlight \subseteq Amendment BY <1>2
  <2>2. tracker \in Tracker /\ keeper \in Holder /\ careAt = "idle" BY <1>1 DEF Holder
  <2>3. seen \in [life : 0 .. MaxLives, size : Size, mark : Level, stopAt : [Segment -> 0 .. MaxLevel]]
    BY <1>1 DEF CareSeen
  <2>4. goal \in 0 .. MaxLevel /\ todo \subseteq Segment /\ same \subseteq Segment BY <1>2
  <2>5. away \in [out : BOOLEAN, tracker : Tracker] BY <1>3
  <2>6. orphaned \in BOOLEAN /\ crashes \in 0 .. MaxCrashes BY <1>2
  <2> QED BY <1>4, <1>5, <2>1, <2>2, <2>3, <2>4, <2>5, <2>6 DEF CareTypeOK, Nobody
<1>7. ExchangeInv BY DEF ExchangeInv
<1>8. RunInv BY DEF RunInv, Managing, NoTracker, Nobody
<1>9. AmendmentInv BY DEF AmendmentInv, Nobody
<1> QED BY <1>6, <1>7, <1>8, <1>9 DEF CareInv

(* To another step: what a run keeps of its snapshot is a snapshot.             *)
LEMMA ToWithTyped ==
  ASSUME CareTypeOK, NEW at \in CareSteps, NEW snapshot \in CareSeen, NEW wanted \in 0 .. MaxLevel,
         NEW left \in SUBSET Segment, ToWith(at, snapshot, wanted, left)
  PROVE /\ careAt' = at /\ careAt' \in CareSteps /\ seen' \in CareSeen
        /\ goal' \in 0 .. MaxLevel /\ todo' \subseteq Segment /\ same' \subseteq Segment
<1> USE CareAssumption, NothingIsSeen
<1>1. [Nothing EXCEPT !.life = snapshot.life] \in CareSeen BY DEF CareSeen
<1>2. seen' \in CareSeen BY <1>1 DEF ToWith, Kept
<1>3. 0 \in 0 .. MaxLevel /\ {} \subseteq Segment OBVIOUS
<1>4. goal' \in 0 .. MaxLevel /\ todo' \subseteq Segment BY <1>3 DEF ToWith
<1>5. same' \subseteq Segment BY DEF ToWith, Live, CareTypeOK
<1> QED BY <1>2, <1>4, <1>5 DEF ToWith

(* The same where the snapshot stays.                                        *)
LEMMA ToTyped ==
  ASSUME CareTypeOK, NEW at \in CareSteps, To(at)
  PROVE /\ careAt' = at /\ careAt' \in CareSteps /\ seen' \in CareSeen
        /\ goal' \in 0 .. MaxLevel /\ todo' \subseteq Segment /\ same' \subseteq Segment
<1>1. seen \in CareSeen /\ goal \in 0 .. MaxLevel /\ todo \in SUBSET Segment BY DEF CareTypeOK, CareSeen
<1>2. ToWith(at, seen, goal, todo) BY DEF To
<1> QED BY <1>1, <1>2, ToWithTyped

(* What keeps its types: the parts of the state in groups.                      *)
CareExchangeTypes ==
  /\ size \in Size /\ life \in 0 .. MaxLives /\ mark \in Level
  /\ stopAt \in [Segment -> 0 .. MaxLevel] /\ filling \in BOOLEAN /\ inFlight \subseteq Amendment
CareRunTypes ==
  /\ careAt \in CareSteps /\ seen \in CareSeen /\ goal \in 0 .. MaxLevel
  /\ todo \subseteq Segment /\ same \subseteq Segment
CareRestTypes ==
  /\ trackerFile \in Tracker /\ tracker \in Tracker /\ keeper \in Holder
  /\ away \in [out : BOOLEAN, tracker : Tracker]
  /\ orphaned \in BOOLEAN /\ crashes \in 0 .. MaxCrashes
  /\ (keeper = Nobody) = (careAt = "idle")

(* All of the types are those of the groups. *)
LEMMA TypesInGroups == CareTypeOK <=> CareExchangeTypes /\ CareRunTypes /\ CareRestTypes
BY DEF CareTypeOK, CareExchangeTypes, CareRunTypes, CareRestTypes, CareSteps, CareSeen

(* And after a step. *)
LEMMA TypesInGroupsNext == CareTypeOK' <=> CareExchangeTypes' /\ CareRunTypes' /\ CareRestTypes'
BY DEF CareTypeOK, CareExchangeTypes, CareRunTypes, CareRestTypes, CareSteps, CareSeen

(* Sizes are numbers. *)
LEMMA SizeIsNat == Cardinality(Segment) \in Nat /\ Size \subseteq Nat
<1>1. Cardinality(Segment) \in Nat BY CareAssumption, FS_CardinalityType
<1> QED BY <1>1 DEF Size

(* A new position starts with nothing in flight and nothing that anybody saw alive. *)
LEMMA OpenKeeps == ASSUME CareInv, NEW n \in Size, NEW p \in SUBSET Segment, Open(n, p) PROVE CareInv'
<1> USE CareAssumption, SizeIsNat DEF CareInv, exchangeVars, workVars
<1>1. life + 1 \in 0 .. MaxLives /\ 2 \in Level BY DEF CareTypeOK, Open, Level
<1>2. [s \in Segment |-> IF s \in p THEN 1 ELSE 0] \in [Segment -> 0 .. MaxLevel] OBVIOUS
<1>3. CareExchangeTypes' BY <1>1, <1>2 DEF CareExchangeTypes, CareTypeOK, Open
<1>4. CareRunTypes' /\ CareRestTypes' BY TypesInGroups DEF CareRunTypes, CareRestTypes, Open
<1>5. CareTypeOK' BY <1>3, <1>4, TypesInGroupsNext
<1>6. inFlight = {} /\ same = {}
  <2>1. \A s \in Segment : stopAt[s] = 0 BY DEF Open, ExchangeInv
  <2> QED BY <2>1 DEF Open, ExchangeInv, CareTypeOK
<1>7. ExchangeInv'
  <2>1. n # 0 /\ size' = n /\ life' >= 1 BY DEF Open, ExchangeInv, CareTypeOK
  <2>2. filling' => size' < Cardinality(Segment) BY DEF Open
  <2> QED BY <1>6, <2>1, <2>2 DEF ExchangeInv, Open
<1>8. RunInv' BY DEF RunInv, Open, Nobody
<1>9. ~orphaned' => AmendmentInv'
  <2>1. ~orphaned => AmendmentInv BY DEF CareInv
  <2> QED BY <1>6, <2>1 DEF AmendmentInv, Open, Nobody
<1> QED BY <1>5, <1>7, <1>8, <1>9

(* More of the position fills. *)
LEMMA GrowKeeps == ASSUME CareInv, Grow PROVE CareInv'
<1> USE CareAssumption, SizeIsNat DEF CareInv, exchangeVars, workVars
<1>1. size \in Nat /\ size < Cardinality(Segment) BY DEF Grow, ExchangeInv, CareTypeOK
<1>2. size + 1 \in Size /\ size + 1 # 0 BY <1>1 DEF Size
<1>3. CareExchangeTypes' BY <1>2 DEF CareExchangeTypes, CareTypeOK, Grow
<1>4. CareRunTypes' /\ CareRestTypes' BY TypesInGroups DEF CareRunTypes, CareRestTypes, Grow
<1>5. CareTypeOK' BY <1>3, <1>4, TypesInGroupsNext
<1>6. filling' => size' < Cardinality(Segment) BY DEF Grow
<1>7. ExchangeInv' BY <1>2, <1>6 DEF ExchangeInv, Grow
<1>8. RunInv' BY DEF RunInv, Grow, Nobody
<1>9. ~orphaned' => AmendmentInv' BY DEF AmendmentInv, Grow, Nobody
<1> QED BY <1>5, <1>7, <1>8, <1>9

(* A stop that triggers takes with it what was to amend it, and its algoId. *)
LEMMA MarkMovesKeeps == ASSUME CareInv, NEW price \in Level, MarkMoves(price) PROVE CareInv'
<1> USE CareAssumption, SizeIsNat DEF CareInv, exchangeVars, workVars
<1> DEFINE hit == {s \in Live(stopAt) : price <= stopAt[s]}
           left == size - Cardinality(hit)
<1>1. hit \subseteq Segment /\ IsFiniteSet(hit) /\ Cardinality(hit) \in Nat
  <2>1. hit \subseteq Segment BY DEF Live
  <2>2. IsFiniteSet(hit) BY <2>1, FS_Subset
  <2>3. Cardinality(hit) \in Nat BY <2>2, FS_CardinalityType
  <2> QED BY <2>1, <2>2, <2>3
<1>2. /\ mark' = price /\ UNCHANGED <<life, trackerFile, keeper, careAt, tracker, seen, goal, todo, away, orphaned, crashes>>
      /\ same' = IF left <= 0 THEN {} ELSE same \ hit
  BY DEF MarkMoves
<1>3. \/ left <= 0 /\ Flatten
      \/ /\ ~(left <= 0)
         /\ size' = left /\ filling' = (filling /\ hit = {})
         /\ inFlight' = {r \in inFlight : r.segment \notin hit}
         /\ stopAt' = [s \in Segment |-> IF s \in hit THEN 0 ELSE stopAt[s]]
  BY DEF MarkMoves
<1> HIDE DEF hit
<1>4. size \in Nat /\ size <= Cardinality(Segment) /\ stopAt \in [Segment -> 0 .. MaxLevel] BY DEF CareTypeOK, Size
<1>5. CareRunTypes'
  <2>1. same' \subseteq Segment BY <1>2 DEF CareTypeOK
  <2> QED BY <1>2, <2>1, TypesInGroups DEF CareRunTypes
<1>6. CareRestTypes' BY <1>2, TypesInGroups DEF CareRestTypes
<1>7. RunInv' BY <1>2 DEF RunInv, Nobody
<1>8. CASE left <= 0
  <2>1. size' = 0 /\ filling' = FALSE /\ inFlight' = {} /\ stopAt' = [s \in Segment |-> 0]
    BY <1>3, <1>8 DEF Flatten
  <2>2. 0 \in Size /\ [s \in Segment |-> 0] \in [Segment -> 0 .. MaxLevel] /\ FALSE \in BOOLEAN BY DEF Size
  <2>3. CareExchangeTypes' BY <2>1, <2>2, <1>2 DEF CareExchangeTypes, CareTypeOK
  <2>4. ExchangeInv' BY <2>1, <1>2, <1>8 DEF ExchangeInv
  <2>5. ~orphaned' => AmendmentInv' BY <2>1, <1>2, <1>8 DEF AmendmentInv, Nobody
  <2> QED BY <2>3, <2>4, <2>5, <1>5, <1>6, <1>7, TypesInGroupsNext
<1>9. CASE ~(left <= 0)
  <2>1. /\ size' = left /\ filling' = (filling /\ hit = {})
        /\ inFlight' = {r \in inFlight : r.segment \notin hit}
        /\ stopAt' = [s \in Segment |-> IF s \in hit THEN 0 ELSE stopAt[s]]
        /\ same' = same \ hit
    BY <1>2, <1>3, <1>9
  <2>2. left \in Size /\ left # 0 /\ left <= size BY <1>1, <1>4, <1>9 DEF Size
  <2>3. CareExchangeTypes'
    <3>1. [s \in Segment |-> IF s \in hit THEN 0 ELSE stopAt[s]] \in [Segment -> 0 .. MaxLevel] BY <1>4
    <3>2. (filling /\ hit = {}) \in BOOLEAN OBVIOUS
    <3> QED BY <2>1, <2>2, <3>1, <3>2, <1>2 DEF CareExchangeTypes, CareTypeOK
  <2>4. filling' => size' < Cardinality(Segment)
    <3>1. filling => size < Cardinality(Segment) BY DEF ExchangeInv
    <3>2. size' <= size BY <2>1, <2>2
    <3>3. filling' => filling BY <2>1
    <3> QED BY <3>1, <3>2, <3>3, <1>4, <2>1, <2>2
  <2>5. \A s \in Segment : s \notin hit => stopAt'[s] = stopAt[s] BY <2>1
  <2>6. inFlight \subseteq Amendment /\ same \subseteq Segment BY DEF CareTypeOK
  <2>7. ExchangeInv'
    <3>1. size' # 0 BY <2>1, <2>2
    <3>2. \A r \in inFlight' : stopAt'[r.segment] > 0 BY <2>1, <2>5, <2>6 DEF ExchangeInv, Amendment
    <3>3. \A s \in same' : stopAt'[s] > 0 BY <2>1, <2>5, <2>6 DEF ExchangeInv
    <3>4. life' >= 1 BY <1>2 DEF ExchangeInv
    <3> QED BY <3>1, <3>2, <3>3, <3>4, <2>4 DEF ExchangeInv
  <2>8. ~orphaned' => AmendmentInv'
    <3> SUFFICES ASSUME ~orphaned' PROVE AmendmentInv' OBVIOUS
    <3>1. AmendmentInv BY <1>2
    <3>2. \A r \in inFlight' : r \in inFlight /\ r.segment \in Segment /\ stopAt'[r.segment] = stopAt[r.segment]
      BY <2>1, <2>5, <2>6 DEF Amendment
    <3>3. careAt = "journalled" /\ tracker.pending \in same' => stopAt'[tracker.pending] < goal
      BY <2>1, <2>5, <2>6, <3>1 DEF AmendmentInv
    <3>4. careAt \in {"planned", "planSent"} => \A s \in todo \cap same' : stopAt'[s] < goal
      BY <2>1, <2>5, <2>6, <3>1 DEF AmendmentInv
    <3> QED BY <1>2, <3>1, <3>2, <3>3, <3>4 DEF AmendmentInv, Nobody
  <2> QED BY <2>3, <2>7, <2>8, <1>5, <1>6, <1>7, TypesInGroupsNext
<1> QED BY <1>8, <1>9

(* The one amendment in flight is taken: it was the pending one, which is not among those left. *)
LEMMA TakeKeeps == ASSUME CareInv, NEW r \in inFlight, TakeAmendment(r) PROVE CareInv'
<1> USE CareAssumption, SizeIsNat DEF CareInv, exchangeVars, workVars
<1>1. r.segment \in Segment /\ r.stop \in Level BY DEF CareTypeOK, Amendment
<1>2. /\ inFlight' = inFlight \ {r}
      /\ stopAt' = stopAt \/ stopAt' = [stopAt EXCEPT ![r.segment] = r.stop]
      /\ UNCHANGED <<size, life, mark, filling, trackerFile, keeper, careAt, workVars, away, orphaned, crashes>>
  BY DEF TakeAmendment
<1>3. stopAt \in [Segment -> 0 .. MaxLevel] /\ r.stop \in 0 .. MaxLevel /\ r.stop > 0 BY <1>1 DEF CareTypeOK, Level
<1>4. /\ stopAt' \in [Segment -> 0 .. MaxLevel]
      /\ \A s \in Segment : s # r.segment => stopAt'[s] = stopAt[s]
      /\ \A s \in Segment : stopAt[s] > 0 => stopAt'[s] > 0
  BY <1>1, <1>2, <1>3
<1>5. CareExchangeTypes' BY <1>2, <1>4 DEF CareExchangeTypes, CareTypeOK
<1>6. CareRunTypes' /\ CareRestTypes' BY <1>2, TypesInGroups DEF CareRunTypes, CareRestTypes
<1>7. CareTypeOK' BY <1>5, <1>6, TypesInGroupsNext
<1>8. inFlight \subseteq Amendment /\ same \subseteq Segment BY DEF CareTypeOK
<1>9. ExchangeInv'
  <2>1. size # 0 BY DEF ExchangeInv
  <2>2. \A q \in inFlight' : stopAt'[q.segment] > 0 BY <1>2, <1>4, <1>8 DEF ExchangeInv, Amendment
  <2>3. \A s \in same' : stopAt'[s] > 0 BY <1>2, <1>4, <1>8 DEF ExchangeInv
  <2> QED BY <1>2, <2>1, <2>2, <2>3 DEF ExchangeInv
<1>10. RunInv' BY <1>2 DEF RunInv, Nobody
<1>11. ~orphaned' => AmendmentInv'
  <2> SUFFICES ASSUME ~orphaned' PROVE AmendmentInv' OBVIOUS
  <2>1. AmendmentInv BY <1>2
  <2>2. inFlight' = {} BY <1>2, <2>1 DEF AmendmentInv
  <2>3. careAt \notin {"journalled", "planned"} BY <2>1 DEF AmendmentInv
  <2>4. careAt = "planSent" => r.segment \notin todo BY <2>1 DEF AmendmentInv
  <2>5. careAt = "planSent" => \A s \in todo \cap same : stopAt'[s] < goal
    BY <1>4, <1>8, <2>1, <2>4 DEF AmendmentInv
  <2> QED BY <1>2, <2>1, <2>2, <2>3, <2>5 DEF AmendmentInv, Nobody
<1> QED BY <1>7, <1>9, <1>10, <1>11

(* A run begins with the tracker of the file; if that is retired there is no position, and nothing in flight. *)
LEMMA BeginKeeps == ASSUME CareInv, NEW who \in {"guard", "trader"}, NEW b \in BOOLEAN, Begin(who, b) PROVE CareInv'
<1> USE CareAssumption, NothingIsSeen DEF CareInv
<1> DEFINE at == IF size = 0 THEN "end" ELSE IF who = "guard" THEN "positions" ELSE "lifecycle"
           snap == [life |-> life, size |-> size, mark |-> mark, stopAt |-> Nothing.stopAt]
<1>1. /\ keeper = Nobody /\ keeper' = who /\ tracker' = LoadTracker(b) /\ ToWith(at, snap, 0, {})
      /\ UNCHANGED <<size, life, mark, stopAt, filling, inFlight, trackerFile, away, orphaned, crashes>>
  BY DEF Begin, Here, exchangeVars
<1>2. snap \in CareSeen /\ at \in CareSteps /\ 0 \in 0 .. MaxLevel /\ {} \in SUBSET Segment
  BY DEF CareSeen, CareTypeOK, CareSteps, Nothing
<1>3. Live(Nothing.stopAt) = {} BY DEF Live, Nothing
<1>4. /\ careAt' = at /\ seen' = Kept(at, snap) /\ goal' = 0 /\ todo' = {} /\ (same' = same \/ same' = {})
  BY <1>1, <1>3 DEF ToWith
<1>5. at \in {"end", "positions", "lifecycle"} /\ (at # "end" => size # 0 /\ seen' = snap) BY <1>4 DEF Kept
<1> HIDE DEF at, snap
<1>6. CareTypeOK'
  <2>1. CareRunTypes' BY <1>1, <1>2, ToWithTyped DEF CareRunTypes
  <2>2. CareExchangeTypes' BY <1>1 DEF CareExchangeTypes, CareTypeOK
  <2>3. who \in Holder /\ who # Nobody BY DEF Holder, Nobody
  <2>4. CareRestTypes' BY <1>1, <1>4, <1>5, <2>3 DEF CareRestTypes, CareTypeOK, LoadTracker
  <2> QED BY <2>1, <2>2, <2>4, TypesInGroupsNext
<1>7. ExchangeInv' BY <1>1, <1>4 DEF ExchangeInv
<1>8. RunInv'
  <2>1. tracker' = NoTracker \/ tracker' = trackerFile BY <1>1 DEF LoadTracker
  <2>2. at # "end" => seen'.life = life /\ seen'.size = size BY <1>5 DEF snap
  <2>3. size \in Nat /\ life >= 1 BY SizeIsNat DEF CareTypeOK, ExchangeInv
  <2>4. keeper' = who /\ careAt' = at /\ (at = "positions" => who = "guard") BY <1>1, <1>4 DEF at
  <2> QED BY <2>1, <2>2, <2>3, <2>4, <1>1, <1>5 DEF RunInv, Managing, NoTracker
<1>9. ~orphaned' => AmendmentInv'
  <2> SUFFICES ASSUME ~orphaned' PROVE AmendmentInv' OBVIOUS
  <2>1. AmendmentInv BY <1>1
  <2>2. \A r \in inFlight : trackerFile.pending = r.segment /\ trackerFile.life = life BY <1>1, <2>1 DEF AmendmentInv, Nobody
  <2>3. inFlight # {} => tracker' = trackerFile BY <1>1 DEF LoadTracker, ExchangeInv
  <2>4. at # "end" => seen'.life = life BY <1>5 DEF snap
  <2> QED BY <1>1, <1>4, <1>5, <2>1, <2>2, <2>3, <2>4 DEF AmendmentInv, Nobody
<1> QED BY <1>6, <1>7, <1>8, <1>9


(* A step of the run that has the writer keeps the types if its tracker has one.   *)
LEMMA RunStepTyped ==
  ASSUME CareTypeOK, careAt # "idle", NEW at \in CareSteps \ {"idle"}, NEW snapshot \in CareSeen,
         NEW wanted \in 0 .. MaxLevel, NEW left \in SUBSET Segment, ToWith(at, snapshot, wanted, left),
         (tracker \in Tracker)', (trackerFile \in Tracker)', CareExchangeTypes',
         UNCHANGED <<keeper, away, crashes>>, (orphaned \in BOOLEAN)'
  PROVE CareTypeOK'
<1>1. CareRunTypes' BY ToWithTyped DEF CareRunTypes
<1>2. careAt' = at BY ToWithTyped
<1>3. CareRestTypes' BY <1>2 DEF CareRestTypes, CareTypeOK
<1> QED BY <1>1, <1>3, TypesInGroupsNext

(* The same where the snapshot stays. *)
LEMMA SameStepTyped ==
  ASSUME CareTypeOK, careAt # "idle", NEW at \in CareSteps \ {"idle"}, To(at),
         (tracker \in Tracker)', (trackerFile \in Tracker)', CareExchangeTypes',
         UNCHANGED <<keeper, away, crashes>>, (orphaned \in BOOLEAN)'
  PROVE CareTypeOK'
<1>1. seen \in CareSeen /\ goal \in 0 .. MaxLevel /\ todo \in SUBSET Segment BY DEF CareTypeOK, CareSeen
<1>2. ToWith(at, seen, goal, todo) BY DEF To
<1> QED BY <1>1, <1>2, RunStepTyped

(* A coverage that is adopted has a weakest stop. *)
LEMMA ReconcileTyped == ASSUME CareInv, NEW archived \in BOOLEAN, Reconcile(archived) PROVE CareTypeOK'
<1> USE CareAssumption, NothingIsSeen DEF CareInv
<1> DEFINE guardCovered == keeper = "guard" /\ Covered(seen.stopAt, seen.size)
           adopted == [life |-> seen.life, stop |-> Weakest(seen.stopAt), pending |-> NoSegment]
<1>1. seen.stopAt \in [Segment -> 0 .. MaxLevel] /\ seen.size \in Nat /\ seen.size > 0 /\ seen.life \in 0 .. MaxLives
  BY SizeIsNat DEF CareTypeOK, Reconcile, RunInv
<1>2. guardCovered => adopted \in Tracker
  <2> SUFFICES ASSUME guardCovered PROVE adopted \in Tracker OBVIOUS
  <2>1. Weakest(seen.stopAt) \in Level BY <1>1, CoveredHasStop
  <2>2. Weakest(seen.stopAt) \in 0 .. MaxLevel BY <2>1 DEF Level
  <2> QED BY <1>1, <2>2 DEF Tracker
<1>3. tracker' \in {tracker, NoTracker} \/ (guardCovered /\ tracker' = adopted)
  <2> DEFINE old == tracker.life # 0 /\ tracker.life # seen.life
             known == IF old THEN NoTracker ELSE tracker
  <2>1. CASE old /\ ~archived
    BY <2>1 DEF Reconcile, Covered
  <2>2. CASE archived /\ known = NoTracker /\ guardCovered
    BY <2>2 DEF Reconcile, Covered
  <2>3. CASE archived /\ ~(known = NoTracker /\ guardCovered)
    BY <2>3 DEF Reconcile, Covered
  <2>4. archived \/ (old /\ ~archived) BY DEF Reconcile
  <2> QED BY <2>1, <2>2, <2>3, <2>4
<1>4. (tracker \in Tracker)' BY <1>2, <1>3 DEF CareTypeOK
<1>5. PICK at \in CareSteps \ {"idle"} : To(at) BY DEF Reconcile, CareSteps
<1>6. CareExchangeTypes' BY DEF Reconcile, exchangeVars, CareExchangeTypes, CareTypeOK
<1>7. careAt # "idle" /\ UNCHANGED <<trackerFile, keeper, away, crashes, orphaned>> BY DEF Reconcile
<1>8. (trackerFile \in Tracker)' /\ (orphaned \in BOOLEAN)' BY <1>7 DEF CareTypeOK
<1> QED BY <1>4, <1>5, <1>6, <1>7, <1>8, SameStepTyped

(* Coverage is adopted when no tracker was known: then nothing is in flight. *)
LEMMA VerifyAdopts == ASSUME CareInv, NEW ok \in BOOLEAN, Verify(ok) PROVE CareTypeOK' /\ (~orphaned' => AmendmentInv')
<1> USE CareAssumption, NothingIsSeen DEF CareInv
<1>1. stopAt \in [Segment -> 0 .. MaxLevel] /\ size \in Nat /\ life \in 0 .. MaxLives
  BY SizeIsNat DEF CareTypeOK
<1>2. seen.size > 0 /\ seen.life >= 1 BY DEF Verify, RunInv
<1>3. SamePosition /\ Covered(stopAt, size) => [life |-> life, stop |-> Weakest(stopAt), pending |-> NoSegment] \in Tracker
  <2> SUFFICES ASSUME SamePosition, Covered(stopAt, size)
               PROVE [life |-> life, stop |-> Weakest(stopAt), pending |-> NoSegment] \in Tracker OBVIOUS
  <2>1. Weakest(stopAt) \in Level BY <1>1, <1>2, CoveredHasStop DEF SamePosition
  <2>2. Weakest(stopAt) \in 0 .. MaxLevel BY <2>1 DEF Level
  <2> QED BY <1>1, <2>2 DEF Tracker
<1>4. \/ /\ tracker' = tracker /\ To("end")
      \/ /\ tracker' = tracker /\ To("closing")
      \/ /\ SamePosition /\ Covered(stopAt, size) /\ To("manage")
         /\ tracker' = [life |-> life, stop |-> Weakest(stopAt), pending |-> NoSegment]
  BY DEF Verify
<1>5. (tracker \in Tracker)' BY <1>3, <1>4 DEF CareTypeOK
<1>6. PICK at \in CareSteps \ {"idle"} : To(at) BY <1>4 DEF CareSteps
<1>7. /\ careAt = "verify"
      /\ UNCHANGED <<size, life, mark, stopAt, filling, inFlight, trackerFile, keeper, away, crashes, orphaned>>
  BY DEF Verify, exchangeVars
<1>8. (trackerFile \in Tracker)' /\ (orphaned \in BOOLEAN)' /\ CareExchangeTypes' BY <1>7 DEF CareTypeOK, CareExchangeTypes
<1>9. CareTypeOK' BY <1>5, <1>6, <1>7, <1>8, SameStepTyped
<1>10. ~orphaned' => AmendmentInv'
  <2> SUFFICES ASSUME ~orphaned' PROVE AmendmentInv' OBVIOUS
  <2>1. AmendmentInv BY <1>7
  <2>2. keeper # Nobody BY <1>7 DEF CareTypeOK
  <2>3. inFlight = {}
    <3>1. tracker.pending = NoSegment BY <1>7 DEF RunInv, NoTracker
    <3>2. \A r \in inFlight : r.segment \in Segment BY DEF CareTypeOK, Amendment
    <3> QED BY <2>1, <2>2, <3>1, <3>2 DEF AmendmentInv
  <2>4. careAt' \in {"end", "closing", "manage"} BY <1>4 DEF To, ToWith
  <2> QED BY <1>7, <2>1, <2>3, <2>4 DEF AmendmentInv
<1> QED BY <1>9, <1>10

(* The local stop stays a level. *)
LEMMA ManageTyped == ASSUME CareInv, NEW newStop \in Level, NEW exit \in BOOLEAN, Manage(newStop, exit) PROVE CareTypeOK'
<1> USE CareAssumption DEF CareInv
<1>1. PICK at \in CareSteps \ {"idle"} : To(at)
  <2>1. \E at \in {"closing", "protect"} : To(at) BY DEF Manage
  <2> QED BY <2>1 DEF CareSteps
<1>2. /\ careAt = "manage" /\ tracker' = [tracker EXCEPT !.stop = newStop]
      /\ UNCHANGED <<size, life, mark, stopAt, filling, inFlight, trackerFile, keeper, away, crashes, orphaned>>
  BY DEF Manage, exchangeVars
<1>3. (trackerFile \in Tracker)' /\ (orphaned \in BOOLEAN)' /\ CareExchangeTypes' BY <1>2 DEF CareTypeOK, CareExchangeTypes
<1>4. (tracker \in Tracker)' BY <1>2 DEF CareTypeOK, Tracker, Level
<1> QED BY <1>1, <1>2, <1>3, <1>4, SameStepTyped

(* A position that is closed leaves nothing. *)
LEMMA CloseOutTyped == ASSUME CareInv, NEW e \in BOOLEAN, NEW o \in BOOLEAN, NEW a \in BOOLEAN, CloseOut(e, o, a) PROVE CareTypeOK'
<1> USE CareAssumption, NothingIsSeen, SizeIsNat DEF CareInv
<1>1. /\ careAt = "closing" /\ tracker' \in {tracker, NoTracker} /\ To("end")
      /\ Flatten \/ UNCHANGED <<size, stopAt, filling, inFlight>>
      /\ UNCHANGED <<life, mark, trackerFile, keeper, away, crashes, orphaned>>
  BY DEF CloseOut
<1>2. 0 \in Size /\ [s \in Segment |-> 0] \in [Segment -> 0 .. MaxLevel] /\ FALSE \in BOOLEAN BY DEF Size
<1>3. CareExchangeTypes' BY <1>1, <1>2 DEF CareExchangeTypes, CareTypeOK, Flatten
<1>4. (tracker \in Tracker)' /\ (trackerFile \in Tracker)' /\ (orphaned \in BOOLEAN)' BY <1>1 DEF CareTypeOK
<1>5. "end" \in CareSteps \ {"idle"} BY DEF CareSteps
<1> QED BY <1>1, <1>3, <1>4, <1>5, SameStepTyped

(* What is journalled is of the position the run works on. *)
LEMMA JournalKnows == ASSUME CareInv, NEW s \in Segment, NEW ok \in BOOLEAN, GuardJournal(s, ok) PROVE RunInv'
<1> USE CareAssumption DEF CareInv
<1>1. careAt = "amend" /\ keeper = "guard" /\ UNCHANGED <<keeper>> BY DEF GuardJournal
<1>2. tracker.life = seen.life /\ seen.life >= 1 /\ seen.size > 0 BY <1>1 DEF RunInv, Managing
<1>3. \/ ToWith("amend", seen, goal, todo \ {s}) /\ UNCHANGED <<tracker, trackerFile>>
      \/ To("end") /\ UNCHANGED <<tracker, trackerFile>>
      \/ /\ seen.stopAt[s] < goal
         /\ tracker' = [tracker EXCEPT !.pending = s] /\ trackerFile' = tracker'
         /\ ToWith("journalled", seen, goal, todo \ {s})
  BY DEF GuardJournal, Tightens
<1>4. seen.stopAt[s] \in Nat /\ goal \in 0 .. MaxLevel /\ tracker \in Tracker BY DEF CareTypeOK
<1>5. CASE ToWith("amend", seen, goal, todo \ {s}) /\ UNCHANGED <<tracker, trackerFile>>
  BY <1>1, <1>2, <1>5 DEF RunInv, Managing, ToWith, Kept
<1>6. CASE To("end") /\ UNCHANGED <<tracker, trackerFile>>
  BY <1>1, <1>2, <1>6 DEF RunInv, Managing, ToWith, To, Kept
<1>7. CASE /\ seen.stopAt[s] < goal
           /\ tracker' = [tracker EXCEPT !.pending = s] /\ trackerFile' = tracker'
           /\ ToWith("journalled", seen, goal, todo \ {s})
  <2>1. goal' = goal /\ goal' \in Level BY <1>4, <1>7 DEF Level, ToWith
  <2>2. tracker'.life = tracker.life /\ trackerFile'.life = tracker.life BY <1>4, <1>7 DEF Tracker
  <2>3. seen' = seen /\ careAt' = "journalled" BY <1>7 DEF ToWith, Kept
  <2>4. tracker'.life # 0 /\ trackerFile'.life # 0 /\ tracker'.life = seen'.life BY <1>2, <2>2, <2>3
  <2> QED BY <1>1, <1>2, <2>1, <2>3, <2>4 DEF RunInv, Managing
<1> QED BY <1>3, <1>5, <1>6, <1>7

(* The guard sends what its journal names, for the position of the journal, or it is an orphan. *)
LEMMA GuardSends == ASSUME CareInv, GuardAmends PROVE CareTypeOK' /\ (~orphaned' => AmendmentInv')
<1> USE CareAssumption DEF CareInv
<1> DEFINE r == [segment |-> tracker.pending, stop |-> goal]
<1>1. /\ careAt = "journalled" /\ keeper = "guard" /\ To("amended")
      /\ inFlight' = IF tracker.pending \in same THEN inFlight \cup {r} ELSE inFlight
      /\ orphaned' = (orphaned \/ (tracker.pending \in same /\ tracker.life # life))
      /\ UNCHANGED <<size, life, mark, stopAt, filling, trackerFile, keeper, tracker, away, crashes>>
  BY DEF GuardAmends, Send, exchangeVars
<1>2. goal \in Level BY <1>1 DEF RunInv
<1>3. tracker.pending \in same => r \in Amendment BY <1>2 DEF CareTypeOK, Amendment
<1>4. CareExchangeTypes' BY <1>1, <1>3 DEF CareTypeOK, CareExchangeTypes
<1>5. (orphaned \in BOOLEAN)' BY <1>1 DEF CareTypeOK
<1>6. (tracker \in Tracker)' /\ (trackerFile \in Tracker)' BY <1>1 DEF CareTypeOK
<1>7. "amended" \in CareSteps \ {"idle"} BY DEF CareSteps
<1>8. CareTypeOK' BY <1>1, <1>4, <1>5, <1>6, <1>7, SameStepTyped
<1>9. ~orphaned' => AmendmentInv'
  <2> SUFFICES ASSUME ~orphaned' PROVE AmendmentInv' OBVIOUS
  <2>1. AmendmentInv /\ (tracker.pending \in same => tracker.life = life) BY <1>1
  <2>2. careAt' = "amended" /\ seen' = seen /\ goal' = goal BY <1>1 DEF To, ToWith, Kept
  <2>3. inFlight = {} BY <1>1, <2>1 DEF AmendmentInv
  <2>4. trackerFile = tracker /\ tracker.pending \in Segment /\ (tracker.pending \in same => stopAt[tracker.pending] < goal)
    BY <1>1, <2>1 DEF AmendmentInv
  <2>5. inFlight' = {} \/ (inFlight' = {r} /\ tracker.pending \in same)
    <3> HIDE DEF r
    <3>1. CASE tracker.pending \in same BY <3>1, <1>1, <2>3
    <3>2. CASE tracker.pending \notin same BY <3>2, <1>1, <2>3
    <3> QED BY <3>1, <3>2
  <2>6. tracker.life = seen.life BY <1>1 DEF RunInv, Managing
  <2>7. r.segment = tracker.pending /\ r.stop = goal OBVIOUS
  <2> HIDE DEF r
  <2> QED BY <1>1, <2>1, <2>2, <2>4, <2>5, <2>6, <2>7 DEF AmendmentInv, Nobody
<1> QED BY <1>8, <1>9

(* A trader back from its inference window has no snapshot of the orders yet. *)
LEMMA ReturnKeepsExchange == ASSUME CareInv, NEW a \in BOOLEAN, NEW p \in BOOLEAN, CloseInference(a, p) PROVE ExchangeInv'
<1> USE CareAssumption DEF CareInv
<1>1. Live(Nothing.stopAt) = {} BY DEF Live, Nothing
<1>2. [Here EXCEPT !.stopAt = Nothing.stopAt].stopAt = Nothing.stopAt BY DEF Here
<1>3. same' = same \/ same' = {} BY <1>1, <1>2 DEF CloseInference, ToWith, workVars
<1>4. UNCHANGED <<size, life, stopAt, filling, inFlight>> BY DEF CloseInference, exchangeVars
<1> QED BY <1>3, <1>4 DEF ExchangeInv

(* A holder that dies with an open amendment that the file does not name leaves an orphan. *)
LEMMA DeathRemembered == ASSUME CareInv, CrashHolder PROVE ~orphaned' => AmendmentInv'
<1> USE CareAssumption DEF CareInv
<1> SUFFICES ASSUME ~orphaned' PROVE AmendmentInv' OBVIOUS
<1>1. /\ AmendmentInv /\ keeper # Nobody /\ keeper' = Nobody /\ careAt' = "idle"
      /\ tracker.pending = NoSegment \/ tracker.pending = trackerFile.pending
      /\ UNCHANGED <<stopAt, life, inFlight, trackerFile>>
  BY DEF CrashHolder, LetWriterGo, exchangeVars
<1>2. \A r \in inFlight : r.segment \in Segment BY DEF CareTypeOK, Amendment
<1>3. \A r \in inFlight : trackerFile.pending = r.segment /\ trackerFile.life = life
  BY <1>1, <1>2 DEF AmendmentInv
<1> QED BY <1>1, <1>3 DEF AmendmentInv, Nobody

(* A plan is made only without an open amendment, of segments that it tightens. *)
LEMMA InstructKeeps == ASSUME CareInv, NEW action \in {"HOLD", "CLOSE_MARKET", "UPDATE_SL"}, NEW newStop \in Level, NEW ok \in BOOLEAN,
                       Instruct(action, newStop, ok)
                PROVE CareInv'
<1> USE CareAssumption, NothingIsSeen DEF CareInv
<1> DEFINE planned == {s \in Live(stopAt) : Tightens(stopAt[s], newStop, seen.mark)}
           fresh == [seen EXCEPT !.stopAt = stopAt]
<1>1. /\ careAt = "instructed" /\ keeper = "deciding"
      /\ UNCHANGED <<size, life, mark, stopAt, filling, inFlight, trackerFile, keeper, tracker, away, orphaned, crashes>>
  BY DEF Instruct, exchangeVars
<1>2. \/ To("end")
      \/ To("closing")
      \/ /\ tracker.life = seen.life /\ tracker.pending = NoSegment
         /\ ToWith("planned", fresh, newStop, planned)
  BY DEF Instruct
<1>3. fresh \in CareSeen /\ fresh.life = seen.life /\ fresh.size = seen.size BY DEF CareTypeOK, CareSeen
<1>4. planned \in SUBSET Segment /\ newStop \in 0 .. MaxLevel BY DEF Live, Level
<1> HIDE DEF fresh, planned
<1>5. CareExchangeTypes' /\ (tracker \in Tracker)' /\ (trackerFile \in Tracker)' /\ (orphaned \in BOOLEAN)'
  BY <1>1 DEF CareExchangeTypes, CareTypeOK
<1>6. {"end", "closing", "planned"} \subseteq CareSteps \ {"idle"} BY DEF CareSteps
<1>7. seen.life >= 1 /\ seen.size > 0 /\ life >= 1 BY <1>1 DEF RunInv, ExchangeInv
<1>8. inFlight \subseteq Amendment BY DEF CareTypeOK
<1>9. CASE To("end") \/ To("closing")
  <2>1. PICK at \in {"end", "closing"} : To(at) BY <1>9
  <2>2. careAt' = at /\ seen' = Kept(at, seen) /\ same' = {} BY <2>1 DEF To, ToWith
  <2>3. at = "closing" => seen'.life = seen.life BY <2>2 DEF Kept, Nothing
  <2>4. CareTypeOK' BY <1>1, <1>5, <1>6, <2>1, SameStepTyped
  <2>5. ExchangeInv' BY <1>1, <2>2 DEF ExchangeInv
  <2>6. RunInv' BY <1>1, <1>7, <2>2, <2>3 DEF RunInv, Managing
  <2>7. ~orphaned' => AmendmentInv' BY <1>1, <2>2, <2>3 DEF AmendmentInv, Nobody
  <2> QED BY <2>4, <2>5, <2>6, <2>7
<1>10. CASE tracker.life = seen.life /\ tracker.pending = NoSegment /\ ToWith("planned", fresh, newStop, planned)
  <2>1. careAt' = "planned" /\ seen' = fresh /\ goal' = newStop /\ (same' = same \/ same' = Live(fresh.stopAt))
    BY <1>10 DEF ToWith, Kept
  <2>2. fresh.stopAt = stopAt BY DEF fresh, CareTypeOK
  <2>3. CareTypeOK' BY <1>1, <1>3, <1>4, <1>5, <1>6, <1>10, RunStepTyped
  <2>4. ExchangeInv' BY <1>1, <2>1, <2>2 DEF ExchangeInv, Live
  <2>5. RunInv' BY <1>1, <1>3, <1>7, <1>10, <2>1 DEF RunInv, Managing
  <2>6. ~orphaned' => AmendmentInv'
    <3> SUFFICES ASSUME ~orphaned' PROVE AmendmentInv' OBVIOUS
    <3>1. AmendmentInv /\ keeper # Nobody BY <1>1 DEF Nobody
    <3>2. inFlight = {}
      <4>1. \A r \in inFlight : r.segment \in Segment BY <1>8 DEF Amendment
      <4> QED BY <1>10, <3>1, <4>1 DEF AmendmentInv
    <3>3. trackerFile.pending = NoSegment BY <1>1, <1>10, <3>1 DEF AmendmentInv
    <3>4. todo' = planned BY <1>10 DEF ToWith
    <3>5. \A s \in todo' : stopAt[s] < newStop BY <3>4 DEF planned, Tightens
    <3> QED BY <1>1, <2>1, <3>2, <3>3, <3>5 DEF AmendmentInv, Nobody
  <2> QED BY <2>3, <2>4, <2>5, <2>6
<1> QED BY <1>2, <1>9, <1>10

(* The trader sends for a segment of its plan that has not moved since. *)
LEMMA TraderSends == ASSUME CareInv, NEW s \in Segment, NEW ok \in BOOLEAN, TraderAmends(s, ok)
              PROVE CareTypeOK' /\ (~orphaned' => AmendmentInv')
<1> USE CareAssumption, NothingIsSeen DEF CareInv
<1> DEFINE r == [segment |-> s, stop |-> goal]
           sent == [tracker EXCEPT !.pending = s]
<1>1. /\ careAt = "planned" /\ keeper = "deciding"
      /\ UNCHANGED <<size, life, mark, stopAt, filling, trackerFile, keeper, away, orphaned, crashes>>
  BY DEF TraderAmends, exchangeVars
<1>2. \/ To("end") /\ UNCHANGED <<tracker, inFlight>>
      \/ /\ SamePosition /\ inFlight' = (IF s \in same THEN inFlight \cup {r} ELSE inFlight)
         /\ tracker' = sent /\ ToWith("planSent", seen, goal, todo \ {s})
  BY DEF TraderAmends, Send
<1>3. goal \in Level /\ goal \in 0 .. MaxLevel BY <1>1 DEF RunInv, CareTypeOK
<1>4. r \in Amendment /\ r.segment = s /\ r.stop = goal BY <1>3 DEF Amendment
<1>5. sent \in Tracker /\ sent.pending = s /\ sent.life = tracker.life BY DEF CareTypeOK, Tracker
<1>6. seen \in CareSeen /\ todo \ {s} \in SUBSET Segment BY DEF CareTypeOK, CareSeen
<1>7. {"end", "planSent"} \subseteq CareSteps \ {"idle"} BY DEF CareSteps
<1> HIDE DEF r, sent
<1>8. CASE To("end") /\ UNCHANGED <<tracker, inFlight>>
  <2>1. CareExchangeTypes' /\ (tracker \in Tracker)' /\ (trackerFile \in Tracker)' /\ (orphaned \in BOOLEAN)'
    BY <1>1, <1>8 DEF CareExchangeTypes, CareTypeOK
  <2>2. CareTypeOK' BY <1>1, <1>7, <1>8, <2>1, SameStepTyped
  <2>3. careAt' = "end" BY <1>8 DEF To, ToWith
  <2>4. ~orphaned' => AmendmentInv' BY <1>1, <1>8, <2>3 DEF AmendmentInv, Nobody
  <2> QED BY <2>2, <2>4
<1>9. CASE /\ SamePosition /\ inFlight' = (IF s \in same THEN inFlight \cup {r} ELSE inFlight)
           /\ tracker' = sent /\ ToWith("planSent", seen, goal, todo \ {s})
  <2>1. inFlight' \subseteq Amendment BY <1>4, <1>9 DEF CareTypeOK
  <2>2. CareExchangeTypes' /\ (tracker \in Tracker)' /\ (trackerFile \in Tracker)' /\ (orphaned \in BOOLEAN)'
    BY <1>1, <1>5, <1>9, <2>1 DEF CareExchangeTypes, CareTypeOK
  <2>3. CareTypeOK' BY <1>1, <1>3, <1>6, <1>7, <1>9, <2>2, RunStepTyped
  <2>4. careAt' = "planSent" /\ seen' = seen /\ goal' = goal BY <1>9 DEF ToWith, Kept
  <2>5. ~orphaned' => AmendmentInv'
    <3> SUFFICES ASSUME ~orphaned' PROVE AmendmentInv' OBVIOUS
    <3>1. AmendmentInv BY <1>1
    <3>2. inFlight = {} /\ trackerFile.pending = NoSegment BY <1>1, <3>1 DEF AmendmentInv
    <3>3. inFlight' = {} \/ (inFlight' = {r} /\ s \in same) BY <1>9, <3>2
    <3>4. (s \in same => stopAt[s] < goal) /\ s \in todo
      BY <1>1, <3>1 DEF AmendmentInv, TraderAmends
    <3>5. sent.life = life /\ seen.life = life BY <1>1, <1>5, <1>9 DEF SamePosition, RunInv, Managing
    <3>6. todo' = todo \ {s} /\ same' = same BY <1>9 DEF ToWith
    <3>7. \A q \in todo' \cap same' : stopAt[q] < goal BY <1>1, <3>1, <3>6 DEF AmendmentInv
    <3> QED BY <1>1, <1>4, <1>5, <1>9, <2>4, <3>1, <3>2, <3>3, <3>4, <3>5, <3>6, <3>7 DEF AmendmentInv, Nobody
  <2> QED BY <2>3, <2>5
<1> QED BY <1>2, <1>8, <1>9

(* A plan read back in full has a weakest stop. *)
LEMMA TraderTyped == ASSUME CareInv, NEW ok \in BOOLEAN, TraderReadsBack(ok) PROVE CareTypeOK' /\ RunInv'
<1> USE CareAssumption, NothingIsSeen DEF CareInv
<1> DEFINE fresh == [seen EXCEPT !.stopAt = stopAt]
           done == [tracker EXCEPT !.pending = NoSegment, !.stop = IF todo = {} THEN Weakest(stopAt) ELSE tracker.stop]
           at == IF todo = {} THEN "end" ELSE "planned"
<1>1. /\ careAt = "planSent" /\ keeper = "deciding"
      /\ UNCHANGED <<size, life, mark, stopAt, filling, inFlight, trackerFile, keeper, away, orphaned, crashes>>
  BY DEF TraderReadsBack, exchangeVars
<1>2. \/ To("end") /\ UNCHANGED tracker
      \/ SamePosition /\ Covered(stopAt, size) /\ tracker' = done /\ ToWith(at, fresh, goal, todo)
  BY DEF TraderReadsBack
<1>3. CareExchangeTypes' /\ (trackerFile \in Tracker)' /\ (orphaned \in BOOLEAN)' BY <1>1 DEF CareExchangeTypes, CareTypeOK
<1>4. seen.life >= 1 /\ seen.size > 0 /\ tracker.life = seen.life /\ goal \in Level BY <1>1 DEF RunInv, Managing
<1>5. fresh \in CareSeen /\ fresh.life = seen.life /\ fresh.size = seen.size BY DEF CareTypeOK, CareSeen
<1>6. "end" \in CareSteps \ {"idle"} /\ at \in CareSteps \ {"idle"} /\ at \in {"end", "planned"} BY DEF CareSteps
<1>7. CASE To("end") /\ UNCHANGED tracker
  <2>1. (tracker \in Tracker)' BY <1>7 DEF CareTypeOK
  <2>2. CareTypeOK' BY <1>1, <1>3, <1>6, <1>7, <2>1, SameStepTyped
  <2>3. careAt' = "end" BY <1>7 DEF To, ToWith
  <2>4. RunInv' BY <1>1, <1>7, <2>3 DEF RunInv, Managing
  <2> QED BY <2>2, <2>4
<1>8. CASE SamePosition /\ Covered(stopAt, size) /\ tracker' = done /\ ToWith(at, fresh, goal, todo)
  <2>1. stopAt \in [Segment -> 0 .. MaxLevel] /\ size \in Nat /\ size > 0 BY SizeIsNat, <1>4, <1>8 DEF CareTypeOK, SamePosition
  <2>2. Weakest(stopAt) \in Level BY <1>8, <2>1, CoveredHasStop
  <2>3. Weakest(stopAt) \in 0 .. MaxLevel BY <2>2 DEF Level
  <2>4. done \in Tracker /\ done.life = tracker.life BY <2>3 DEF CareTypeOK, Tracker
  <2> HIDE DEF done, fresh, at
  <2>5. (tracker \in Tracker)' BY <1>8, <2>4
  <2>6. goal \in 0 .. MaxLevel /\ todo \in SUBSET Segment BY DEF CareTypeOK
  <2>7. CareTypeOK' BY <1>1, <1>3, <1>5, <1>6, <1>8, <2>5, <2>6, RunStepTyped
  <2>8. careAt' = at /\ (at = "planned" => seen' = fresh /\ goal' = goal) BY <1>6, <1>8 DEF ToWith, Kept
  <2>9. tracker'.life = seen.life BY <1>4, <1>8, <2>4
  <2>10. tracker'.life # 0 BY <1>4, <2>9
  <2> QED BY <1>1, <1>4, <1>5, <1>6, <2>7, <2>8, <2>9, <2>10 DEF RunInv, Managing
<1> QED BY <1>2, <1>7, <1>8

(* A tracker that is retired was of another position, for which nothing is in flight. *)
LEMMA ReconcileKeeps == ASSUME CareInv, \E b \in BOOLEAN : Reconcile(b) PROVE CareInv'
<1> USE CareAssumption, NothingIsSeen DEF CareInv, ToWith, To, Kept, LetWriterGo, exchangeVars, workVars, Live, Managing, Nobody
<1>1. CareTypeOK' BY ReconcileTyped
<1>2. ExchangeInv'
  BY SMTT(30) DEF Reconcile, ExchangeInv, RunInv, CareTypeOK, Amendment
<1>3. RunInv'
  BY SMTT(30) DEF Reconcile, RunInv, ExchangeInv, CareTypeOK, Tracker, NoTracker, Nothing
<1>4. ~orphaned' => AmendmentInv'
  BY SMTT(30) DEF Reconcile, RunInv, ExchangeInv, AmendmentInv, CareTypeOK, Tracker, NoTracker, Nothing, Amendment
<1> QED BY <1>1, <1>2, <1>3, <1>4

(* The step keeps it all: initial verification. *)
LEMMA VerifyKeeps == ASSUME CareInv, \E b \in BOOLEAN : Verify(b) PROVE CareInv'
<1> USE CareAssumption, NothingIsSeen DEF CareInv, ToWith, To, Kept, LetWriterGo, exchangeVars, workVars, Live, Managing, Nobody
<1>1. CareTypeOK' /\ (~orphaned' => AmendmentInv') BY VerifyAdopts
<1>2. ExchangeInv'
  BY SMTT(30) DEF Verify, SamePosition, ExchangeInv, RunInv, CareTypeOK, Amendment
<1>3. RunInv'
  BY SMTT(30) DEF Verify, SamePosition, RunInv, ExchangeInv, CareTypeOK, Tracker, NoTracker, Nothing
<1> QED BY <1>1, <1>2, <1>3

(* The step keeps it all: the trailing. *)
LEMMA ManageKeeps == ASSUME CareInv, \E l \in Level, b \in BOOLEAN : Manage(l, b) PROVE CareInv'
<1> USE CareAssumption, NothingIsSeen DEF CareInv, ToWith, To, Kept, LetWriterGo, exchangeVars, workVars, Live, Managing, Nobody
<1>1. CareTypeOK' BY ManageTyped
<1>2. ExchangeInv'
  BY SMTT(30) DEF Manage, ExchangeInv, RunInv, CareTypeOK, Amendment
<1>3. RunInv'
  BY SMTT(30) DEF Manage, RunInv, ExchangeInv, CareTypeOK, Tracker, NoTracker, Nothing
<1>4. ~orphaned' => AmendmentInv'
  BY SMTT(30) DEF Manage, RunInv, ExchangeInv, AmendmentInv, CareTypeOK, Tracker, NoTracker, Nothing, Amendment
<1> QED BY <1>1, <1>2, <1>3, <1>4

(* The step keeps it all: a close. *)
LEMMA CloseOutKeeps == ASSUME CareInv, \E e, o, a \in BOOLEAN : CloseOut(e, o, a) PROVE CareInv'
<1> USE CareAssumption, NothingIsSeen DEF CareInv, ToWith, To, Kept, LetWriterGo, exchangeVars, workVars, Live, Managing, Nobody
<1>1. CareTypeOK' BY CloseOutTyped
<1>2. ExchangeInv'
  BY SMTT(30) DEF CloseOut, Flatten, ExchangeInv, RunInv, CareTypeOK, Amendment
<1>3. RunInv'
  BY SMTT(30) DEF CloseOut, Flatten, RunInv, ExchangeInv, CareTypeOK, Tracker, NoTracker, Nothing
<1>4. ~orphaned' => AmendmentInv'
  BY SMTT(30) DEF CloseOut, Flatten, RunInv, ExchangeInv, AmendmentInv, CareTypeOK, Tracker, NoTracker, Nothing, Amendment
<1> QED BY <1>1, <1>2, <1>3, <1>4

(* The step keeps it all: the journal of the guard. *)
LEMMA JournalKeeps == ASSUME CareInv, \E s \in Segment, b \in BOOLEAN : GuardJournal(s, b) PROVE CareInv'
<1> USE CareAssumption, NothingIsSeen DEF CareInv, ToWith, To, Kept, LetWriterGo, exchangeVars, workVars, Live, Managing, Nobody
<1>1. RunInv' BY JournalKnows
<1>2. CareTypeOK'
  BY SMTT(30) DEF GuardJournal, Tightens, CareTypeOK, CareSeen, Tracker, Holder, NotAway, Nothing
<1>3. ExchangeInv'
  BY SMTT(30) DEF GuardJournal, Tightens, ExchangeInv, RunInv, CareTypeOK, Amendment
<1>4. ~orphaned' => AmendmentInv'
  BY SMTT(30) DEF GuardJournal, Tightens, RunInv, ExchangeInv, AmendmentInv, CareTypeOK, Tracker, NoTracker, Nothing, Amendment
<1> QED BY <1>1, <1>2, <1>3, <1>4

(* The step keeps it all: its amendment. *)
LEMMA GuardAmendsKeeps == ASSUME CareInv, GuardAmends PROVE CareInv'
<1> USE CareAssumption, NothingIsSeen DEF CareInv, ToWith, To, Kept, LetWriterGo, exchangeVars, workVars, Live, Managing, Nobody
<1>1. CareTypeOK' /\ (~orphaned' => AmendmentInv') BY GuardSends
<1>2. ExchangeInv'
  BY SMTT(30) DEF GuardAmends, Send, ExchangeInv, RunInv, CareTypeOK, Amendment
<1>3. RunInv'
  BY SMTT(30) DEF GuardAmends, Send, RunInv, ExchangeInv, CareTypeOK, Tracker, NoTracker, Nothing
<1> QED BY <1>1, <1>2, <1>3

(* The step keeps it all: the return from the window. *)
LEMMA CloseInferenceKeeps == ASSUME CareInv, \E a, p \in BOOLEAN : CloseInference(a, p) PROVE CareInv'
<1> USE CareAssumption, NothingIsSeen DEF CareInv, ToWith, To, Kept, LetWriterGo, exchangeVars, workVars, Live, Managing, Nobody
<1>1. ExchangeInv' BY ReturnKeepsExchange
<1>2. CareTypeOK'
  BY SMTT(30) DEF CloseInference, Reloaded, Here, CareTypeOK, CareSeen, Tracker, Holder, NotAway, Nothing
<1>3. RunInv'
  BY SMTT(30) DEF CloseInference, Reloaded, Here, RunInv, ExchangeInv, CareTypeOK, Tracker, NoTracker, Nothing
<1>4. ~orphaned' => AmendmentInv'
  BY SMTT(30) DEF CloseInference, Reloaded, Here, RunInv, ExchangeInv, AmendmentInv, CareTypeOK, Tracker, NoTracker, Nothing, Amendment
<1> QED BY <1>1, <1>2, <1>3, <1>4

(* The step keeps it all: the trader's amendment. *)
LEMMA TraderAmendsKeeps == ASSUME CareInv, \E s \in Segment, b \in BOOLEAN : TraderAmends(s, b) PROVE CareInv'
<1> USE CareAssumption, NothingIsSeen DEF CareInv, ToWith, To, Kept, LetWriterGo, exchangeVars, workVars, Live, Managing, Nobody
<1>1. CareTypeOK' /\ (~orphaned' => AmendmentInv') BY TraderSends
<1>2. ExchangeInv'
  BY SMTT(30) DEF TraderAmends, Send, SamePosition, ExchangeInv, RunInv, CareTypeOK, Amendment
<1>3. RunInv'
  BY SMTT(30) DEF TraderAmends, Send, SamePosition, RunInv, ExchangeInv, CareTypeOK, Tracker, NoTracker, Nothing
<1> QED BY <1>1, <1>2, <1>3

(* The next segment is only amended when this one was read where it should be. *)
LEMMA TraderReadsBackKeeps == ASSUME CareInv, \E b \in BOOLEAN : TraderReadsBack(b) PROVE CareInv'
<1> USE CareAssumption, NothingIsSeen DEF CareInv, ToWith, To, Kept, LetWriterGo, exchangeVars, workVars, Live, Managing, Nobody
<1>1. CareTypeOK' /\ RunInv' BY TraderTyped
<1>2. ExchangeInv'
  BY SMTT(30) DEF TraderReadsBack, SamePosition, ExchangeInv, RunInv, CareTypeOK, Amendment
<1>3. ~orphaned' => AmendmentInv'
  BY SMTT(30) DEF TraderReadsBack, SamePosition, RunInv, ExchangeInv, AmendmentInv, CareTypeOK, Tracker, NoTracker, Nothing, Amendment
<1> QED BY <1>1, <1>2, <1>3

(* The holder dies. *)
LEMMA CrashHolderKeeps == ASSUME CareInv, CrashHolder PROVE CareInv'
<1> USE CareAssumption, NothingIsSeen DEF CareInv, ToWith, To, Kept, LetWriterGo, exchangeVars, workVars, Live, Managing, Nobody
<1>1. (~orphaned' => AmendmentInv') BY DeathRemembered
<1>2. CareTypeOK'
  BY SMTT(30) DEF CrashHolder, CareTypeOK, CareSeen, Tracker, Holder, NotAway, Nothing
<1>3. ExchangeInv'
  BY SMTT(30) DEF CrashHolder, ExchangeInv, RunInv, CareTypeOK, Amendment
<1>4. RunInv'
  BY SMTT(30) DEF CrashHolder, RunInv, ExchangeInv, CareTypeOK, Tracker, NoTracker, Nothing
<1> QED BY <1>1, <1>2, <1>3, <1>4

(* A lost amendment leaves the rest as it was. *)
LEMMA LoseKeeps == ASSUME CareInv, \E r \in inFlight : Lose(r) PROVE CareInv'
<1> USE CareAssumption, NothingIsSeen DEF CareInv, ToWith, To, Kept, LetWriterGo, exchangeVars, workVars, Live, Managing, Nobody
<1>1. CareTypeOK'
  BY SMTT(30) DEF Lose, CareTypeOK, CareSeen, Tracker, Holder, NotAway, Nothing
<1>2. ExchangeInv'
  BY SMTT(30) DEF Lose, ExchangeInv, RunInv, CareTypeOK, Amendment
<1>3. RunInv'
  BY SMTT(30) DEF Lose, RunInv, ExchangeInv, CareTypeOK, Tracker, NoTracker, Nothing
<1>4. ~orphaned' => AmendmentInv'
  BY SMTT(30) DEF Lose, RunInv, ExchangeInv, AmendmentInv, CareTypeOK, Tracker, NoTracker, Nothing, Amendment
<1> QED BY <1>1, <1>2, <1>3, <1>4

(* The guard goes on with the orders it read, or closes. *)
LEMMA GuardReadsKeeps == ASSUME CareInv, \E b, c \in BOOLEAN : GuardReads(b, c) PROVE CareInv'
<1> USE CareAssumption, NothingIsSeen DEF CareInv, ToWith, To, Kept, LetWriterGo, exchangeVars, workVars, Live, Managing, Nobody
<1>1. CareTypeOK'
  BY SMTT(30) DEF GuardReads, CareTypeOK, CareSeen, Tracker, Holder, NotAway, Nothing
<1>2. ExchangeInv'
  BY SMTT(30) DEF GuardReads, ExchangeInv, RunInv, CareTypeOK, Amendment
<1>3. RunInv'
  BY SMTT(30) DEF GuardReads, RunInv, ExchangeInv, CareTypeOK, Tracker, NoTracker, Nothing
<1>4. ~orphaned' => AmendmentInv'
  BY SMTT(30) DEF GuardReads, RunInv, ExchangeInv, AmendmentInv, CareTypeOK, Tracker, NoTracker, Nothing, Amendment
<1> QED BY <1>1, <1>2, <1>3, <1>4

(* The step keeps it all: trailing skipped. *)
LEMMA ManageSkippedKeeps == ASSUME CareInv, ManageSkipped PROVE CareInv'
<1> USE CareAssumption, NothingIsSeen DEF CareInv, ToWith, To, Kept, LetWriterGo, exchangeVars, workVars, Live, Managing, Nobody
<1>1. CareTypeOK'
  BY SMTT(30) DEF ManageSkipped, CareTypeOK, CareSeen, Tracker, Holder, NotAway, Nothing
<1>2. ExchangeInv'
  BY SMTT(30) DEF ManageSkipped, ExchangeInv, RunInv, CareTypeOK, Amendment
<1>3. RunInv'
  BY SMTT(30) DEF ManageSkipped, RunInv, ExchangeInv, CareTypeOK, Tracker, NoTracker, Nothing
<1>4. ~orphaned' => AmendmentInv'
  BY SMTT(30) DEF ManageSkipped, RunInv, ExchangeInv, AmendmentInv, CareTypeOK, Tracker, NoTracker, Nothing, Amendment
<1> QED BY <1>1, <1>2, <1>3, <1>4

(* A placement touches only segments that have no stop. *)
LEMMA ProtectKeeps == ASSUME CareInv, \E b, c \in BOOLEAN : Protect(b, c) PROVE CareInv'
<1> USE CareAssumption, NothingIsSeen DEF CareInv, ToWith, To, Kept, LetWriterGo, exchangeVars, workVars, Live, Managing, Nobody
<1>1. CareTypeOK'
  BY SMTT(30) DEF Protect, SamePosition, Live, CareTypeOK, CareSeen, Tracker, Holder, NotAway, Nothing
<1>2. ExchangeInv'
  BY SMTT(30) DEF Protect, SamePosition, Live, ExchangeInv, RunInv, CareTypeOK, Amendment
<1>3. RunInv'
  BY SMTT(30) DEF Protect, SamePosition, Live, RunInv, ExchangeInv, CareTypeOK, Tracker, NoTracker, Nothing
<1>4. ~orphaned' => AmendmentInv'
  BY SMTT(30) DEF Protect, SamePosition, Live, RunInv, ExchangeInv, AmendmentInv, CareTypeOK, Tracker, NoTracker, Nothing, Amendment
<1> QED BY <1>1, <1>2, <1>3, <1>4

(* The step keeps it all: the placement read back. *)
LEMMA ReadPlacementKeeps == ASSUME CareInv, \E b \in BOOLEAN : ReadPlacement(b) PROVE CareInv'
<1> USE CareAssumption, NothingIsSeen DEF CareInv, ToWith, To, Kept, LetWriterGo, exchangeVars, workVars, Live, Managing, Nobody
<1>1. CareTypeOK'
  BY SMTT(30) DEF ReadPlacement, CareTypeOK, CareSeen, Tracker, Holder, NotAway, Nothing
<1>2. ExchangeInv'
  BY SMTT(30) DEF ReadPlacement, ExchangeInv, RunInv, CareTypeOK, Amendment
<1>3. RunInv'
  BY SMTT(30) DEF ReadPlacement, RunInv, ExchangeInv, CareTypeOK, Tracker, NoTracker, Nothing
<1>4. ~orphaned' => AmendmentInv'
  BY SMTT(30) DEF ReadPlacement, RunInv, ExchangeInv, AmendmentInv, CareTypeOK, Tracker, NoTracker, Nothing, Amendment
<1> QED BY <1>1, <1>2, <1>3, <1>4

(* The step keeps it all: a second verification. *)
LEMMA RecheckKeeps == ASSUME CareInv, \E b \in BOOLEAN : Recheck(b) PROVE CareInv'
<1> USE CareAssumption, NothingIsSeen DEF CareInv, ToWith, To, Kept, LetWriterGo, exchangeVars, workVars, Live, Managing, Nobody
<1>1. CareTypeOK'
  BY SMTT(30) DEF Recheck, SamePosition, CareTypeOK, CareSeen, Tracker, Holder, NotAway, Nothing
<1>2. ExchangeInv'
  BY SMTT(30) DEF Recheck, SamePosition, ExchangeInv, RunInv, CareTypeOK, Amendment
<1>3. RunInv'
  BY SMTT(30) DEF Recheck, SamePosition, RunInv, ExchangeInv, CareTypeOK, Tracker, NoTracker, Nothing
<1>4. ~orphaned' => AmendmentInv'
  BY SMTT(30) DEF Recheck, SamePosition, RunInv, ExchangeInv, AmendmentInv, CareTypeOK, Tracker, NoTracker, Nothing, Amendment
<1> QED BY <1>1, <1>2, <1>3, <1>4

(* The step keeps it all: the exits after it. *)
LEMMA KeepKeeps == ASSUME CareInv, \E b \in BOOLEAN : Keep(b) PROVE CareInv'
<1> USE CareAssumption, NothingIsSeen DEF CareInv, ToWith, To, Kept, LetWriterGo, exchangeVars, workVars, Live, Managing, Nobody
<1>1. CareTypeOK'
  BY SMTT(30) DEF Keep, CareTypeOK, CareSeen, Tracker, Holder, NotAway, Nothing
<1>2. ExchangeInv'
  BY SMTT(30) DEF Keep, ExchangeInv, RunInv, CareTypeOK, Amendment
<1>3. RunInv'
  BY SMTT(30) DEF Keep, RunInv, ExchangeInv, CareTypeOK, Tracker, NoTracker, Nothing
<1>4. ~orphaned' => AmendmentInv'
  BY SMTT(30) DEF Keep, RunInv, ExchangeInv, AmendmentInv, CareTypeOK, Tracker, NoTracker, Nothing, Amendment
<1> QED BY <1>1, <1>2, <1>3, <1>4

(* The run saves the tracker that remembers the open amendment. *)
LEMMA FinishKeeps == ASSUME CareInv, Finish PROVE CareInv'
<1> USE CareAssumption, NothingIsSeen DEF CareInv, ToWith, To, Kept, LetWriterGo, exchangeVars, workVars, Live, Managing, Nobody
<1>1. CareTypeOK'
  BY SMTT(30) DEF Finish, CareTypeOK, CareSeen, Tracker, Holder, NotAway, Nothing
<1>2. ExchangeInv'
  BY SMTT(30) DEF Finish, ExchangeInv, RunInv, CareTypeOK, Amendment
<1>3. RunInv'
  BY SMTT(30) DEF Finish, RunInv, ExchangeInv, CareTypeOK, Tracker, NoTracker, Nothing
<1>4. ~orphaned' => AmendmentInv'
  BY SMTT(30) DEF Finish, RunInv, ExchangeInv, AmendmentInv, CareTypeOK, Tracker, NoTracker, Nothing, Amendment
<1> QED BY <1>1, <1>2, <1>3, <1>4

(* The guard starts to amend only when nothing is open. *)
LEMMA GuardStopsKeeps == ASSUME CareInv, GuardStops PROVE CareInv'
<1> USE CareAssumption, NothingIsSeen DEF CareInv, ToWith, To, Kept, LetWriterGo, exchangeVars, workVars, Live, Managing, Nobody
<1>1. CareTypeOK'
  BY SMTT(30) DEF GuardStops, CareTypeOK, CareSeen, Tracker, Holder, NotAway, Nothing
<1>2. ExchangeInv'
  BY SMTT(30) DEF GuardStops, ExchangeInv, RunInv, CareTypeOK, Amendment
<1>3. RunInv'
  BY SMTT(30) DEF GuardStops, RunInv, ExchangeInv, CareTypeOK, Tracker, NoTracker, Nothing
<1>4. ~orphaned' => AmendmentInv'
  BY SMTT(30) DEF GuardStops, RunInv, ExchangeInv, AmendmentInv, CareTypeOK, Tracker, NoTracker, Nothing, Amendment
<1> QED BY <1>1, <1>2, <1>3, <1>4

(* An amendment that was verified is no longer in flight. *)
LEMMA GuardReadsBackKeeps == ASSUME CareInv, \E b \in BOOLEAN : GuardReadsBack(b) PROVE CareInv'
<1> USE CareAssumption, NothingIsSeen DEF CareInv, ToWith, To, Kept, LetWriterGo, exchangeVars, workVars, Live, Managing, Nobody
<1>1. CareTypeOK'
  BY SMTT(30) DEF GuardReadsBack, CareTypeOK, CareSeen, Tracker, Holder, NotAway, Nothing
<1>2. ExchangeInv'
  BY SMTT(30) DEF GuardReadsBack, ExchangeInv, RunInv, CareTypeOK, Amendment
<1>3. RunInv'
  BY SMTT(30) DEF GuardReadsBack, RunInv, ExchangeInv, CareTypeOK, Tracker, NoTracker, Nothing
<1>4. ~orphaned' => AmendmentInv'
  BY SMTT(30) DEF GuardReadsBack, RunInv, ExchangeInv, AmendmentInv, CareTypeOK, Tracker, NoTracker, Nothing, Amendment
<1> QED BY <1>1, <1>2, <1>3, <1>4

(* The step keeps it all: the end of the round. *)
LEMMA GuardDoneKeeps == ASSUME CareInv, GuardDone PROVE CareInv'
<1> USE CareAssumption, NothingIsSeen DEF CareInv, ToWith, To, Kept, LetWriterGo, exchangeVars, workVars, Live, Managing, Nobody
<1>1. CareTypeOK'
  BY SMTT(30) DEF GuardDone, CareTypeOK, CareSeen, Tracker, Holder, NotAway, Nothing
<1>2. ExchangeInv'
  BY SMTT(30) DEF GuardDone, ExchangeInv, RunInv, CareTypeOK, Amendment
<1>3. RunInv'
  BY SMTT(30) DEF GuardDone, RunInv, ExchangeInv, CareTypeOK, Tracker, NoTracker, Nothing
<1>4. ~orphaned' => AmendmentInv'
  BY SMTT(30) DEF GuardDone, RunInv, ExchangeInv, AmendmentInv, CareTypeOK, Tracker, NoTracker, Nothing, Amendment
<1> QED BY <1>1, <1>2, <1>3, <1>4

(* So does a trader that lets the writer go for the model. *)
LEMMA OpenInferenceKeeps == ASSUME CareInv, OpenInference PROVE CareInv'
<1> USE CareAssumption, NothingIsSeen DEF CareInv, ToWith, To, Kept, LetWriterGo, exchangeVars, workVars, Live, Managing, Nobody
<1>1. CareTypeOK'
  BY SMTT(30) DEF OpenInference, CareTypeOK, CareSeen, Tracker, Holder, NotAway, Nothing
<1>2. ExchangeInv'
  BY SMTT(30) DEF OpenInference, ExchangeInv, RunInv, CareTypeOK, Amendment
<1>3. RunInv'
  BY SMTT(30) DEF OpenInference, RunInv, ExchangeInv, CareTypeOK, Tracker, NoTracker, Nothing
<1>4. ~orphaned' => AmendmentInv'
  BY SMTT(30) DEF OpenInference, RunInv, ExchangeInv, AmendmentInv, CareTypeOK, Tracker, NoTracker, Nothing, Amendment
<1> QED BY <1>1, <1>2, <1>3, <1>4

(* A trader that dies in the window had saved what it knew. *)
LEMMA CrashAwayKeeps == ASSUME CareInv, CrashAway PROVE CareInv'
<1> USE CareAssumption, NothingIsSeen DEF CareInv, ToWith, To, Kept, LetWriterGo, exchangeVars, workVars, Live, Managing, Nobody
<1>1. CareTypeOK'
  BY SMTT(30) DEF CrashAway, CareTypeOK, CareSeen, Tracker, Holder, NotAway, Nothing
<1>2. ExchangeInv'
  BY SMTT(30) DEF CrashAway, ExchangeInv, RunInv, CareTypeOK, Amendment
<1>3. RunInv'
  BY SMTT(30) DEF CrashAway, RunInv, ExchangeInv, CareTypeOK, Tracker, NoTracker, Nothing
<1>4. ~orphaned' => AmendmentInv'
  BY SMTT(30) DEF CrashAway, RunInv, ExchangeInv, AmendmentInv, CareTypeOK, Tracker, NoTracker, Nothing, Amendment
<1> QED BY <1>1, <1>2, <1>3, <1>4

(* Whatever happens next, what guard and trader remember goes on being true.     *)
LEMMA CareGoesOn == CareInv /\ [CareNext]_careVars => CareInv'
<1> SUFFICES ASSUME CareInv, [CareNext]_careVars PROVE CareInv' OBVIOUS
<1>1. CASE CareStep
  BY <1>1, ReconcileKeeps, VerifyKeeps, ReadPlacementKeeps, RecheckKeeps, KeepKeeps, GuardReadsKeeps, ProtectKeeps, ManageKeeps, ManageSkippedKeeps, CloseOutKeeps, FinishKeeps, GuardStopsKeeps, GuardAmendsKeeps,
     GuardDoneKeeps, JournalKeeps, TraderAmendsKeeps, GuardReadsBackKeeps, TraderReadsBackKeeps, OpenInferenceKeeps, InstructKeeps DEF CareStep
<1>2. CASE UNCHANGED careVars
  BY <1>2 DEF careVars, exchangeVars, workVars, CareInv, CareTypeOK, ExchangeInv, RunInv, AmendmentInv, Managing, Nobody
<1>3. CASE CareNext /\ ~CareStep
  BY <1>3, OpenKeeps, GrowKeeps, MarkMovesKeeps, TakeKeeps, LoseKeeps, BeginKeeps, CloseInferenceKeeps, CrashHolderKeeps, CrashAwayKeeps DEF CareNext
<1> QED BY <1>1, <1>2, <1>3

(* So it holds always. *)
LEMMA CareAlways == CareSpec => []CareInv
BY CareAtFirst, CareGoesOn, PTL DEF CareSpec

(* For any number of segments, positions, crashes and amendments in flight an     *)
(* open amendment is remembered where the next one is decided, and nothing of    *)
(* an earlier position is used for this one (position_guard.py,                *)
(* ai_factor_trader.py).                                                       *)
THEOREM CareSafeTheorem == CareSpec => []CareSafe
<1>1. CareInv => CareSafe
  <2> SUFFICES ASSUME CareInv PROVE CareSafe OBVIOUS
  <2>1. NoOldStop BY DEF CareInv, RunInv, Managing, NoOldStop
  <2>2. OpenAmendmentRemembered
    BY CareAssumption DEF CareInv, AmendmentInv, CareTypeOK, Amendment, OpenAmendmentRemembered, Nobody
  <2> QED BY <2>1, <2>2 DEF CareSafe, CareInv
<1> QED BY <1>1, CareAlways, PTL

(* What moves a live stop is an amendment that was taken, and it tightened. *)
LEMMA StopRises == CareInv /\ [CareNext]_careVars
   => [~orphaned /\ life' = life =>
       \A s \in Segment : stopAt[s] > 0 /\ stopAt'[s] > 0 => stopAt'[s] >= stopAt[s]]_careVars
<1> SUFFICES ASSUME CareInv, CareNext, ~orphaned, life' = life, NEW s \in Segment, stopAt[s] > 0, stopAt'[s] > 0
             PROVE stopAt'[s] >= stopAt[s]
  OBVIOUS
<1>1. stopAt \in [Segment -> 0 .. MaxLevel] /\ size \in Nat /\ tracker \in Tracker /\ AmendmentInv
  BY SizeIsNat DEF CareInv, CareTypeOK
<1>2. CASE stopAt' = stopAt BY <1>1, <1>2
<1>3. ASSUME NEW n \in Size, NEW p \in SUBSET Segment, Open(n, p) PROVE FALSE
  BY <1>3, SizeIsNat DEF Open, CareInv, CareTypeOK
<1>4. ASSUME NEW l \in Level, MarkMoves(l) PROVE stopAt'[s] >= stopAt[s]
  BY <1>4, <1>1 DEF MarkMoves, Flatten
<1>5. ASSUME NEW r \in inFlight, TakeAmendment(r) PROVE stopAt'[s] >= stopAt[s]
  <2>1. r.segment \in Segment /\ r.stop \in Level /\ stopAt[r.segment] < r.stop
    BY <1>1 DEF CareInv, CareTypeOK, Amendment, AmendmentInv
  <2>2. stopAt' = stopAt \/ stopAt' = [stopAt EXCEPT ![r.segment] = r.stop] BY <1>5 DEF TakeAmendment
  <2> QED BY <1>1, <2>1, <2>2 DEF Level
<1>6. ASSUME NEW b \in BOOLEAN, NEW c \in BOOLEAN, Protect(b, c) PROVE stopAt'[s] >= stopAt[s]
  <2>1. stopAt'[s] = stopAt[s] BY <1>6, <1>1 DEF Protect, Live
  <2> QED BY <1>1, <2>1
<1>7. ASSUME NEW e \in BOOLEAN, NEW o \in BOOLEAN, NEW a \in BOOLEAN, CloseOut(e, o, a) PROVE stopAt'[s] >= stopAt[s]
  BY <1>7, <1>1 DEF CloseOut, Flatten
<1>8. CASE CareStep
  <2>1. \/ stopAt' = stopAt
        \/ \E b, c \in BOOLEAN : Protect(b, c)
        \/ \E e, o, a \in BOOLEAN : CloseOut(e, o, a)
    BY <1>8 DEF CareStep, exchangeVars, Reconcile, Verify, ReadPlacement, Recheck, Keep, GuardReads, Manage, ManageSkipped,
       Finish, GuardStops, GuardAmends, GuardDone, GuardJournal, TraderAmends, GuardReadsBack, TraderReadsBack,
       OpenInference, Instruct
  <2> QED BY <2>1, <1>2, <1>6, <1>7
<1>9. CASE ~CareStep
  <2>1. \/ stopAt' = stopAt
        \/ \E n \in Size, p \in SUBSET Segment : Open(n, p)
        \/ \E l \in Level : MarkMoves(l)
        \/ \E r \in inFlight : TakeAmendment(r)
    BY <1>9 DEF CareNext, exchangeVars, Grow, Lose, Begin, CloseInference, CrashHolder, CrashAway
  <2> QED BY <2>1, <1>2, <1>3, <1>4, <1>5
<1> QED BY <1>8, <1>9

(* And no live stop of a position ever moves down, however late its amendments   *)
(* are taken, unless a death or a later position left one that nobody knew of.  *)
THEOREM StopNeverLoosensTheorem == CareSpec => StopNeverLoosens
<1>1. CareInv /\ [CareNext]_careVars
      => [~orphaned /\ life' = life => \A s \in Segment : stopAt[s] > 0 /\ stopAt'[s] > 0 => stopAt'[s] >= stopAt[s]]_careVars
  BY StopRises
<1> QED BY <1>1, CareAlways, PTL DEF CareSpec, StopNeverLoosens

-----------------------------------------------------------------------------
(* The trader's cycle. *)

(* The orders of an instrument.                                               *)
OrdersOf(taken, c) == {i \in DOMAIN taken : taken[i].coin = c}
LiveOf(taken, c) == {i \in DOMAIN taken : taken[i].coin = c /\ taken[i].state = "live"}
FilledOf(taken, c) == {i \in DOMAIN taken : taken[i].coin = c /\ taken[i].state = "filled"}
Scales(position) == position \ {Identity(position)}

(* A position is made of orders that filled; the order that is alive is alone and  *)
(* later than all of them.                                                    *)
CoinOK(position, live, filled, mine) ==
  /\ position \subseteq filled /\ filled \subseteq mine /\ live \subseteq mine /\ live \cap filled = {}
  /\ \A i, j \in live : i = j
  /\ \A i \in live : \A j \in position : j < i

(* The scale-ins a tracker has counted are a set.  If it is the tracker of the    *)
(* position that is open, they and the reserved ones are of that position, and    *)
(* what it does not know is unreserved; another position is not known at all.     *)
CountOK(b, counted, position, live, filled, unknown) ==
  /\ b.count = Cardinality(counted) /\ counted \cap (b.orders \cup unknown) = {}
  /\ position # {} /\ b.of = Identity(position) =>
       /\ counted \subseteq Scales(position)
       /\ Scales(position) \cup live \subseteq unknown \cup counted \cup b.orders
       /\ b.orders \cap filled \subseteq Scales(position)
BookOK(b, position, live, filled, mine, unknown) ==
  /\ b.of # 0 => b.of \in filled
  /\ b.of \notin b.orders
  /\ b.orders \subseteq mine /\ b.orders \cap unknown = {}
  /\ position # {} /\ b.of # Identity(position) => Scales(position) \cup live \subseteq unknown
  /\ \E counted \in SUBSET mine : CountOK(b, counted, position, live, filled, unknown)
BookInv(b, c) == BookOK(b, held[c], LiveOf(orders, c), FilledOf(orders, c), OrdersOf(orders, c), unreserved)

(* Nobody but the cycle writes trackers between its reads and its window: a tracker   *)
(* of the open position was of the position it read.                            *)
OfWhatWasRead(b, position, known) ==
  position # {} /\ b.of = Identity(position) => known # {} /\ Identity(known) = b.of

(* A position is made of filled orders, and so is what was read of it; the trackers in *)
(* the file and in memory; what was read of a position that is still the same.      *)
CoinInv(c) == CoinOK(held[c], LiveOf(orders, c), FilledOf(orders, c), OrdersOf(orders, c)) /\ seenHeld[c] \subseteq FilledOf(orders, c)
FileInv(c) == BookInv(bookFile[c], c)
ReadInv(c) == OfWhatWasRead(bookFile[c], held[c], seenHeld[c])
CopyInv(c) == BookInv(book[c], c) /\ OfWhatWasRead(book[c], held[c], seenHeld[c])
SameInv(c) == seenHeld[c] # {} /\ held[c] = seenHeld[c] => bookFile[c].of \in {0, Identity(held[c])}
SeenInv(c) == seenHeld[c] # {} /\ held[c] = seenHeld[c] => nowHeld[c] # {}

(* The order whose reservation is to be written is the last one.                 *)
ReservingInv(n, c) ==
  /\ n \in unreserved /\ n \in OrdersOf(orders, c) /\ LiveOf(orders, c) \subseteq {n} /\ book[c].of # n
  /\ n \in FilledOf(orders, c) /\ held[c] # {} => n \in held[c]
  /\ held[c] # {} /\ Identity(held[c]) # n /\ book[c].of # 0 => Identity(held[c]) = book[c].of

StagesInv ==
  /\ cycleAt \in {"positions", "pending", "loaded"} => \A c \in Coin : ReadInv(c)
  /\ cycleAt = "loaded" => \A c \in Coin : CopyInv(c)
  /\ cycleAt \in {"window", "deciding", "reserving"} => \A c \in Coin : SameInv(c)
  /\ cycleAt \in {"deciding", "reserving"} => book = bookFile /\ \A c \in Coin : SeenInv(c)
  /\ cycleAt = "reserving" => \E c \in Coin : Len(orders) \in DOMAIN orders /\ orders[Len(orders)].coin = c /\ ReservingInv(Len(orders), c)
CountInv ==
  /\ CycleTypeOK /\ WithinQuota /\ unreserved \subseteq DOMAIN orders
  /\ \A c \in Coin : CoinInv(c) /\ FileInv(c)
  /\ StagesInv
(* A position is known by its first order.                                    *)
LEMMA IdentityIs ==
  ASSUME NEW position \in SUBSET Nat, position # {}
  PROVE Identity(position) \in position /\ \A j \in position : Identity(position) <= j
<1>1. PICK m \in position : \A k \in position : m <= k BY LeastOf
<1> QED BY <1>1 DEF Identity

(* Later orders that fill into it do not change that.                          *)
LEMMA IdentityStays ==
  ASSUME NEW position \in SUBSET Nat, position # {}, NEW n \in Nat, \A j \in position : j < n
  PROVE Identity(position \cup {n}) = Identity(position)
<1>1. Identity(position) \in position /\ \A j \in position : Identity(position) <= j BY IdentityIs
<1>2. /\ Identity(position \cup {n}) \in position \cup {n}
      /\ \A j \in position \cup {n} : Identity(position \cup {n}) <= j
  <2>1. position \cup {n} \in SUBSET Nat /\ position \cup {n} # {} OBVIOUS
  <2> QED BY <2>1, IdentityIs
<1> DEFINE old == Identity(position) new == Identity(position \cup {n})
<1>3. old \in Nat /\ new \in Nat /\ old \in position /\ new \in position \cup {n} BY <1>1, <1>2
<1>4. new <= old BY <1>1, <1>2
<1>5. old < n BY <1>1
<1>6. new \in position => old <= new BY <1>1
<1> HIDE DEF old, new
<1>7. new \in position BY <1>3, <1>4, <1>5
<1>8. new = old BY <1>3, <1>4, <1>6, <1>7
<1> QED BY <1>8 DEF old, new

(* A position of one order is known by that order.                            *)
LEMMA FirstIdentity ==
  ASSUME NEW n \in Nat PROVE Identity({n}) = n
<1>1. {n} \in SUBSET Nat /\ {n} # {} OBVIOUS
<1> QED BY <1>1, IdentityIs

(* Books: an order that fills.                                                *)
LEMMA BookFills ==
  ASSUME NEW mine \in SUBSET Nat, NEW filled \in SUBSET mine, NEW position \in SUBSET filled, NEW live \in SUBSET mine,
         NEW unknown \in SUBSET Nat, NEW n \in live, 0 \notin mine, CoinOK(position, live, filled, mine),
         NEW b \in Book, BookOK(b, position, live, filled, mine, unknown)
  PROVE /\ CoinOK(position \cup {n}, live \ {n}, filled \cup {n}, mine)
        /\ BookOK(b, position \cup {n}, live \ {n}, filled \cup {n}, mine, unknown)
        /\ b.of # n
<1>1. CoinOK(position \cup {n}, live \ {n}, filled \cup {n}, mine) BY DEF CoinOK
<1>2. b.of # n BY DEF BookOK, CoinOK, Book
<1>3. n \in Nat /\ n \notin position /\ live = {n} BY DEF CoinOK
<1>4. PICK counted \in SUBSET mine : CountOK(b, counted, position, live, filled, unknown) BY DEF BookOK
<1>5. ASSUME position = {} PROVE Identity(position \cup {n}) = n /\ Scales(position \cup {n}) = {}
  BY <1>3, <1>5, FirstIdentity DEF Scales
<1>6. ASSUME position # {}
      PROVE Identity(position \cup {n}) = Identity(position) /\ Scales(position \cup {n}) = Scales(position) \cup {n}
  <2>1. Identity(position \cup {n}) = Identity(position) BY <1>3, <1>6, IdentityStays DEF CoinOK
  <2>2. Identity(position) # n BY <1>3, <1>6, IdentityIs
  <2> QED BY <2>1, <2>2 DEF Scales
<1>7. CountOK(b, counted, position \cup {n}, live \ {n}, filled \cup {n}, unknown)
  BY <1>2, <1>3, <1>4, <1>5, <1>6 DEF CountOK
<1>8. /\ b.of # 0 => b.of \in filled \cup {n}
      /\ position \cup {n} # {} /\ b.of # Identity(position \cup {n})
           => Scales(position \cup {n}) \cup (live \ {n}) \subseteq unknown
  BY <1>3, <1>5, <1>6 DEF BookOK
<1>9. BookOK(b, position \cup {n}, live \ {n}, filled \cup {n}, mine, unknown) BY <1>7, <1>8 DEF BookOK
<1> QED BY <1>1, <1>2, <1>5, <1>6, <1>9

(* A position that ends.                                                      *)
LEMMA BookExits ==
  ASSUME NEW mine, NEW filled, NEW position, NEW live, NEW unknown, NEW b,
         CoinOK(position, live, filled, mine), BookOK(b, position, live, filled, mine, unknown)
  PROVE CoinOK({}, live, filled, mine) /\ BookOK(b, {}, live, filled, mine, unknown)
BY DEF CoinOK, BookOK, CountOK

(* Orders that are canceled.                                                  *)
LEMMA BookSwept ==
  ASSUME NEW mine, NEW filled, NEW position, NEW live, NEW unknown, NEW b, NEW left \in SUBSET live,
         CoinOK(position, live, filled, mine), BookOK(b, position, live, filled, mine, unknown)
  PROVE CoinOK(position, left, filled, mine) /\ BookOK(b, position, left, filled, mine, unknown)
<1>1. PICK counted \in SUBSET mine : CountOK(b, counted, position, live, filled, unknown) BY DEF BookOK
<1>2. CountOK(b, counted, position, left, filled, unknown) BY <1>1 DEF CountOK
<1> QED BY <1>2 DEF CoinOK, BookOK

(* A new order, of a flat instrument or unreserved.                             *)
LEMMA BookPlaced ==
  ASSUME NEW mine \in SUBSET Nat, NEW filled \in SUBSET mine, NEW position \in SUBSET filled,
         NEW unknown \in SUBSET Nat, NEW b, NEW n \in Nat, \A j \in mine \cup unknown : j < n,
         CoinOK(position, {}, filled, mine), BookOK(b, position, {}, filled, mine, unknown),
         NEW also \in SUBSET {n}, position # {} => also = {n}
  PROVE /\ CoinOK(position, {n}, filled, mine \cup {n})
        /\ BookOK(b, position, {n}, filled, mine \cup {n}, unknown \cup also)
<1>1. PICK counted \in SUBSET mine : CountOK(b, counted, position, {}, filled, unknown) BY DEF BookOK
<1>2. n \notin mine /\ n \notin unknown BY DEF BookOK
<1>3. CountOK(b, counted, position, {n}, filled, unknown \cup also) BY <1>1, <1>2 DEF CountOK, BookOK
<1> QED BY <1>2, <1>3 DEF CoinOK, BookOK

(* What is reserved or unreserved of another instrument.                         *)
LEMMA BookElsewhere ==
  ASSUME NEW mine, NEW filled \in SUBSET mine, NEW position \in SUBSET filled, NEW live \in SUBSET mine, NEW unknown, NEW b, NEW other,
         \A i \in mine : i \in unknown <=> i \in other,
         BookOK(b, position, live, filled, mine, unknown)
  PROVE BookOK(b, position, live, filled, mine, other)
<1>1. PICK counted \in SUBSET mine : CountOK(b, counted, position, live, filled, unknown) BY DEF BookOK
<1>2. b.orders \subseteq mine BY DEF BookOK
<1>3. CountOK(b, counted, position, live, filled, other) BY <1>1, <1>2 DEF CountOK, Scales
<1> QED BY <1>3 DEF BookOK, Scales

(* A reservation that is written.                                             *)
LEMMA BookReserved ==
  ASSUME NEW mine \in SUBSET Nat, NEW filled \in SUBSET mine, NEW position \in SUBSET filled, NEW live \in SUBSET mine,
         NEW unknown \in SUBSET Nat, NEW b \in Book,
         CoinOK(position, live, filled, mine), BookOK(b, position, live, filled, mine, unknown),
         NEW n \in mine, n \in unknown, live \subseteq {n}, b.of # n, b.of # 0,
         n \in filled /\ position # {} => n \in position,
         position # {} /\ Identity(position) # n => Identity(position) = b.of
  PROVE BookOK([b EXCEPT !.orders = @ \cup {n}], position, live, filled, mine, unknown \ {n})
<1>1. PICK counted \in SUBSET mine : CountOK(b, counted, position, live, filled, unknown) BY DEF BookOK
<1> DEFINE r == [b EXCEPT !.orders = @ \cup {n}]
<1>2. r.of = b.of /\ r.count = b.count /\ r.orders = b.orders \cup {n} BY DEF Book
<1> HIDE DEF r
<1>3. position # {} => Identity(position) \in position BY IdentityIs
<1>4. position # {} /\ b.of = Identity(position) =>
       /\ counted \subseteq Scales(position)
       /\ Scales(position) \cup live \subseteq (unknown \ {n}) \cup counted \cup r.orders
       /\ r.orders \cap filled \subseteq Scales(position)
  BY <1>1, <1>2 DEF CountOK, Scales
<1>5. CountOK(r, counted, position, live, filled, unknown \ {n}) BY <1>1, <1>2, <1>4 DEF CountOK
<1>6. position # {} /\ b.of # Identity(position) => Scales(position) \cup live \subseteq unknown \ {n}
  BY <1>3 DEF BookOK, CoinOK, Scales
<1>7. /\ r.of # 0 => r.of \in filled
      /\ r.of \notin r.orders
      /\ r.orders \subseteq mine /\ r.orders \cap (unknown \ {n}) = {}
  BY <1>2 DEF BookOK
<1> QED BY <1>2, <1>5, <1>6, <1>7 DEF BookOK, r

(* A reconciliation counts what filled, and keeps what is alive.                 *)
LEMMA BookReconciled ==
  ASSUME NEW mine \in SUBSET OrderId, NEW filled \in SUBSET mine, NEW position \in SUBSET filled, NEW live \in SUBSET mine,
         NEW unknown \in SUBSET Nat, NEW b \in Book,
         CoinOK(position, live, filled, mine), BookOK(b, position, live, filled, mine, unknown)
  PROVE LET r == [b EXCEPT !.count = @ + Cardinality(b.orders \cap filled), !.orders = b.orders \cap live]
        IN r \in Book /\ r.of = b.of /\ BookOK(r, position, live, filled, mine, unknown)
<1> USE CycleAssumption
<1>1. PICK counted \in SUBSET mine : CountOK(b, counted, position, live, filled, unknown) BY DEF BookOK
<1> DEFINE more == b.orders \cap filled
           r == [b EXCEPT !.count = @ + Cardinality(more), !.orders = b.orders \cap live]
<1>2. IsFiniteSet(OrderId) /\ Cardinality(OrderId) = MaxOrders
  <2>1. IsFiniteSet(1 .. MaxOrders) /\ Cardinality(1 .. MaxOrders) = IF 1 > MaxOrders THEN 0 ELSE MaxOrders - 1 + 1
    BY FS_Interval
  <2> QED BY <2>1 DEF OrderId
<1>3. counted \subseteq OrderId /\ more \subseteq OrderId /\ counted \cup more \subseteq OrderId OBVIOUS
<1>4. IsFiniteSet(counted) /\ IsFiniteSet(more) /\ IsFiniteSet(counted \cup more)
  BY <1>2, <1>3, FS_Subset
<1>5. Cardinality(counted \cup more) <= MaxOrders BY <1>2, <1>3, FS_Subset
<1>6. Cardinality(counted \cup more) = Cardinality(counted) + Cardinality(more)
  <2>1. counted \cap more = {} BY <1>1 DEF CountOK
  <2>2. Cardinality(counted \cup more) = Cardinality(counted) + Cardinality(more) - Cardinality(counted \cap more)
    BY <1>4, FS_Union
  <2>3. Cardinality(counted \cap more) = 0 BY <2>1, FS_EmptySet
  <2>4. Cardinality(counted) \in Nat /\ Cardinality(more) \in Nat BY <1>4, FS_CardinalityType
  <2> QED BY <2>2, <2>3, <2>4
<1>7. b.count = Cardinality(counted) BY <1>1 DEF CountOK
<1>8. b.count + Cardinality(more) \in 0 .. MaxOrders
  <2>1. Cardinality(counted) \in Nat /\ Cardinality(more) \in Nat BY <1>4, FS_CardinalityType
  <2> QED BY <1>5, <1>6, <1>7, <2>1
<1> HIDE DEF more
<1>9. r \in Book /\ r.of = b.of /\ r.count = Cardinality(counted \cup more) /\ r.orders = b.orders \cap live
  BY <1>6, <1>7, <1>8 DEF Book
<1>10. more = b.orders \cap filled BY DEF more
<1> HIDE DEF r
<1>11. CountOK(r, counted \cup more, position, live, filled, unknown)
  <2>1. (counted \cup more) \cap (r.orders \cup unknown) = {} BY <1>1, <1>9, <1>10 DEF CountOK, BookOK, CoinOK
  <2>2. ASSUME position # {}, b.of = Identity(position)
        PROVE /\ counted \cup more \subseteq Scales(position)
              /\ Scales(position) \cup live \subseteq unknown \cup (counted \cup more) \cup r.orders
              /\ r.orders \cap filled \subseteq Scales(position)
    BY <2>2, <1>1, <1>9, <1>10 DEF CountOK, CoinOK, Scales
  <2> QED BY <1>9, <2>1, <2>2 DEF CountOK
<1>12. BookOK(r, position, live, filled, mine, unknown)
  <2>1. counted \cup more \in SUBSET mine BY <1>10
  <2>2. r.of \notin r.orders /\ r.orders \subseteq mine /\ r.orders \cap unknown = {} BY <1>9 DEF BookOK
  <2> QED BY <1>9, <1>11, <2>1, <2>2 DEF BookOK
<1> QED BY <1>9, <1>12 DEF r, more

(* A tracker that starts anew for a position that no tracker knew.                *)
LEMMA BookAnew ==
  ASSUME NEW mine, NEW filled, NEW position, NEW live, NEW unknown, NEW b, NEW id,
         id = 0 \/ id \in filled,
         CoinOK(position, live, filled, mine), BookOK(b, position, live, filled, mine, unknown),
         position # {} => b.of # Identity(position), 0 \notin mine
  PROVE BookOK([NoBook EXCEPT !.of = id], position, live, filled, mine, unknown)
<1> DEFINE r == [NoBook EXCEPT !.of = id]
<1>1. r.of = id /\ r.count = 0 /\ r.orders = {} BY DEF NoBook
<1> HIDE DEF r
<1>2. Cardinality({}) = 0 BY FS_EmptySet
<1>3. CountOK(r, {}, position, live, filled, unknown) BY <1>1, <1>2 DEF CountOK, BookOK
<1>4. BookOK(r, position, live, filled, mine, unknown) BY <1>1, <1>3 DEF BookOK
<1> QED BY <1>4 DEF r

(* Then a counter tells the truth.                                            *)
TellsTruth(b, position, unknown) ==
  b.count + Cardinality(b.orders \cap Scales(position)) + Cardinality(unknown \cap Scales(position))
    = Cardinality(Scales(position))
(* The tracker of the open position accounts for each of its scale-ins.       *)
LEMMA BookCounts ==
  ASSUME NEW mine \in SUBSET OrderId, NEW filled \in SUBSET mine, NEW position \in SUBSET filled, NEW live \in SUBSET mine,
         NEW unknown \in SUBSET Nat, NEW b \in Book, position # {}, b.of = Identity(position),
         BookOK(b, position, live, filled, mine, unknown)
  PROVE TellsTruth(b, position, unknown)
<1> USE CycleAssumption
<1>1. PICK counted \in SUBSET mine : CountOK(b, counted, position, live, filled, unknown) BY DEF BookOK
<1> DEFINE S == Scales(position) A == b.orders \cap S U == unknown \cap S
<1>2. IsFiniteSet(OrderId) BY FS_Interval DEF OrderId
<1>3. S \subseteq OrderId BY DEF Scales
<1>4. counted \subseteq S /\ S = (counted \cup A) \cup U /\ counted \cap A = {} /\ (counted \cup A) \cap U = {}
  BY <1>1 DEF CountOK, BookOK
<1> HIDE DEF S, A, U
<1>5. IsFiniteSet(S) BY <1>2, <1>3, FS_Subset
<1>6. counted \cup A \subseteq S /\ A \subseteq S /\ U \subseteq S BY <1>4
<1>7. IsFiniteSet(counted) /\ IsFiniteSet(A) /\ IsFiniteSet(U) /\ IsFiniteSet(counted \cup A)
  BY <1>4, <1>5, <1>6, FS_Subset
<1>8. Cardinality(counted \cup A) = Cardinality(counted) + Cardinality(A) - Cardinality(counted \cap A) BY <1>7, FS_Union
<1>9. Cardinality((counted \cup A) \cup U) = Cardinality(counted \cup A) + Cardinality(U) - Cardinality((counted \cup A) \cap U)
  BY <1>7, FS_Union
<1>10. Cardinality({}) = 0 BY FS_EmptySet
<1>11. Cardinality(counted) \in Nat /\ Cardinality(A) \in Nat /\ Cardinality(U) \in Nat /\ Cardinality(counted \cup A) \in Nat
  BY <1>7, FS_CardinalityType
<1>12. b.count = Cardinality(counted) BY <1>1 DEF CountOK
<1>13. Cardinality(counted \cup A) = Cardinality(counted) + Cardinality(A)
  <2>1. Cardinality(counted \cap A) = 0 BY <1>4, <1>10
  <2> QED BY <1>8, <1>11, <2>1
<1>14. Cardinality((counted \cup A) \cup U) = Cardinality(counted \cup A) + Cardinality(U)
  <2>1. Cardinality((counted \cup A) \cap U) = 0 BY <1>4, <1>10
  <2> QED BY <1>9, <1>11, <2>1
<1>15. Cardinality((counted \cup A) \cup U) = Cardinality(S) BY <1>4
<1>16. b.count + Cardinality(A) + Cardinality(U) = Cardinality(S) BY <1>11, <1>12, <1>13, <1>14, <1>15
<1> QED BY <1>16 DEF S, A, U, TellsTruth

(* Orders of one instrument.                                                  *)
LEMMA SetsOfOrders ==
  ASSUME CycleTypeOK, NEW c \in Coin
  PROVE /\ DOMAIN orders = 1 .. Len(orders) /\ Len(orders) \in Nat /\ DOMAIN orders \subseteq OrderId
        /\ LiveOf(orders, c) \subseteq OrdersOf(orders, c) /\ FilledOf(orders, c) \subseteq OrdersOf(orders, c) /\ OrdersOf(orders, c) \subseteq DOMAIN orders
        /\ OrdersOf(orders, c) \subseteq OrderId /\ OrdersOf(orders, c) \subseteq Nat /\ 0 \notin OrdersOf(orders, c) /\ 0 \notin OrderId
        /\ bookFile[c] \in Book /\ book[c] \in Book
        /\ \A i \in DOMAIN orders : orders[i] \in Order
<1> USE CycleAssumption
<1>1. /\ DOMAIN orders = 1 .. Len(orders) /\ Len(orders) \in Nat /\ Len(orders) <= MaxOrders
      /\ \A i \in DOMAIN orders : orders[i] \in Order
  BY DEF CycleTypeOK
<1>2. 1 .. Len(orders) \subseteq OrderId /\ OrderId \subseteq Nat /\ 0 \notin OrderId BY <1>1 DEF OrderId
<1>3. LiveOf(orders, c) \subseteq OrdersOf(orders, c) /\ FilledOf(orders, c) \subseteq OrdersOf(orders, c) /\ OrdersOf(orders, c) \subseteq DOMAIN orders
  BY DEF LiveOf, FilledOf, OrdersOf
<1>4. bookFile[c] \in Book /\ book[c] \in Book BY DEF CycleTypeOK
<1> QED BY <1>1, <1>2, <1>3, <1>4

(* What Fill does to the orders of an instrument.                             *)
LEMMA FillSets ==
  ASSUME CycleTypeOK, NEW i \in OrderId, Fill(i), NEW c \in Coin
  PROVE /\ OrdersOf(orders', c) = OrdersOf(orders, c) /\ DOMAIN orders' = DOMAIN orders
        /\ orders' \in Seq(Order) /\ Len(orders') = Len(orders)
        /\ \A j \in DOMAIN orders : orders'[j].coin = orders[j].coin
        /\ held' \in [Coin -> SUBSET OrderId]
        /\ IF orders[i].coin = c
             THEN /\ i \in LiveOf(orders, c) /\ LiveOf(orders', c) = LiveOf(orders, c) \ {i}
                  /\ FilledOf(orders', c) = FilledOf(orders, c) \cup {i} /\ held'[c] = held[c] \cup {i}
             ELSE /\ LiveOf(orders', c) = LiveOf(orders, c) /\ FilledOf(orders', c) = FilledOf(orders, c) /\ held'[c] = held[c]
<1>1. /\ i \in DOMAIN orders /\ orders[i].state = "live" /\ orders \in Seq(Order) /\ orders[i] \in Order
      /\ held \in [Coin -> SUBSET OrderId] /\ orders[i].coin \in Coin
  <2>1. i \in DOMAIN orders /\ orders[i].state = "live" BY DEF Fill
  <2>2. orders \in Seq(Order) /\ held \in [Coin -> SUBSET OrderId] BY DEF CycleTypeOK
  <2>3. orders[i] \in Order BY <2>1, <2>2
  <2> QED BY <2>1, <2>2, <2>3 DEF Order
<1> DEFINE o == [orders[i] EXCEPT !.state = "filled"]
<1>2. o \in Order /\ o.coin = orders[i].coin /\ o.state = "filled" BY <1>1 DEF Order
<1>3. orders' = [orders EXCEPT ![i] = o] BY <1>1 DEF Fill
<1> HIDE DEF o
<1>4. orders' \in Seq(Order) /\ Len(orders') = Len(orders) /\ DOMAIN orders' = DOMAIN orders BY <1>1, <1>2, <1>3
<1>5. /\ orders'[i] = o
      /\ \A j \in DOMAIN orders : j # i => orders'[j] = orders[j]
  BY <1>1, <1>3
<1>6. \A j \in DOMAIN orders : orders'[j].coin = orders[j].coin BY <1>2, <1>5
<1>7. OrdersOf(orders', c) = OrdersOf(orders, c) BY <1>4, <1>6 DEF OrdersOf
<1>8. held' = [held EXCEPT ![orders[i].coin] = @ \cup {i}] BY DEF Fill
<1>9. held' \in [Coin -> SUBSET OrderId] BY <1>1, <1>8
<1>10. held'[c] = IF orders[i].coin = c THEN held[c] \cup {i} ELSE held[c] BY <1>1, <1>8
<1>11. ASSUME orders[i].coin = c PROVE i \in LiveOf(orders, c) /\ LiveOf(orders', c) = LiveOf(orders, c) \ {i} /\ FilledOf(orders', c) = FilledOf(orders, c) \cup {i}
  BY <1>11, <1>1, <1>2, <1>4, <1>5 DEF LiveOf, FilledOf
<1>12. ASSUME orders[i].coin # c PROVE LiveOf(orders', c) = LiveOf(orders, c) /\ FilledOf(orders', c) = FilledOf(orders, c)
  BY <1>12, <1>1, <1>2, <1>4, <1>5 DEF LiveOf, FilledOf
<1> QED BY <1>4, <1>6, <1>7, <1>9, <1>10, <1>11, <1>12

(* What Sweep does to them.                                                   *)
LEMMA SweepSets ==
  ASSUME CycleTypeOK, NEW stale \in SUBSET DOMAIN orders, NEW ok \in BOOLEAN, Sweep(stale, ok), NEW c \in Coin
  PROVE /\ OrdersOf(orders', c) = OrdersOf(orders, c) /\ DOMAIN orders' = DOMAIN orders
        /\ orders' \in Seq(Order) /\ Len(orders') = Len(orders)
        /\ LiveOf(orders', c) \subseteq LiveOf(orders, c) /\ FilledOf(orders', c) = FilledOf(orders, c)
<1>1. orders \in Seq(Order) /\ \A j \in DOMAIN orders : orders[j] \in Order BY DEF CycleTypeOK
<1>2. orders' = [j \in DOMAIN orders |-> IF j \in stale THEN [orders[j] EXCEPT !.state = "canceled"] ELSE orders[j]]
  BY DEF Sweep
<1>3. \A j \in DOMAIN orders : orders'[j] \in Order /\ orders'[j].coin = orders[j].coin
        /\ IF j \in stale THEN orders[j].state = "live" /\ orders'[j].state = "canceled" ELSE orders'[j] = orders[j]
  <2> TAKE j \in DOMAIN orders
  <2>1. orders[j] \in Order BY <1>1
  <2>2. ASSUME j \in stale PROVE orders[j].state = "live" BY <2>2 DEF Sweep
  <2>3. [orders[j] EXCEPT !.state = "canceled"] \in Order
        /\ [orders[j] EXCEPT !.state = "canceled"].coin = orders[j].coin
        /\ [orders[j] EXCEPT !.state = "canceled"].state = "canceled"
    BY <2>1 DEF Order
  <2> QED BY <1>2, <2>1, <2>2, <2>3
<1>4. DOMAIN orders' = DOMAIN orders /\ Len(orders) \in Nat /\ DOMAIN orders = 1 .. Len(orders) BY <1>1, <1>2
<1>5. orders' \in Seq(Order) /\ Len(orders') = Len(orders)
  <2>1. orders' = [j \in 1 .. Len(orders) |-> orders'[j]] BY <1>2, <1>4
  <2>2. orders' \in [1 .. Len(orders) -> Order] BY <1>3, <1>4, <2>1
  <2> QED BY <1>4, <2>2
<1>6. OrdersOf(orders', c) = OrdersOf(orders, c) BY <1>3, <1>4 DEF OrdersOf
<1>7. LiveOf(orders', c) \subseteq LiveOf(orders, c) /\ FilledOf(orders', c) = FilledOf(orders, c) BY <1>3, <1>4 DEF LiveOf, FilledOf
<1> QED BY <1>4, <1>5, <1>6, <1>7

(* What an order that is placed does to those of its instrument.              *)
LEMMA PlaceSets ==
  ASSUME CycleTypeOK, NEW at \in Coin, NEW o \in Order, o.coin = at, o.state = "live",
         orders' = Append(orders, o), Len(orders) < MaxOrders, NEW n \in Nat, n = Len(orders) + 1
  PROVE /\ n \in OrderId /\ n \notin DOMAIN orders /\ (\A j \in DOMAIN orders : j < n)
        /\ DOMAIN orders' = DOMAIN orders \cup {n} /\ orders' \in Seq(Order) /\ Len(orders') = n
        /\ orders'[n].coin = at /\ (\A j \in DOMAIN orders : orders'[j] = orders[j])
        /\ FilledOf(orders', at) = FilledOf(orders, at)
        /\ LiveOf(orders', at) = LiveOf(orders, at) \cup {n} /\ OrdersOf(orders', at) = OrdersOf(orders, at) \cup {n}
<1> USE CycleAssumption
<1>1. o \in Order /\ o.coin = at /\ o.state = "live" OBVIOUS
<1>2. orders \in Seq(Order) /\ orders' = Append(orders, o) BY DEF CycleTypeOK
<1>3. DOMAIN orders = 1 .. Len(orders) /\ Len(orders) \in Nat BY <1>2
<1>4. /\ orders' \in Seq(Order) /\ Len(orders') = n /\ DOMAIN orders' = 1 .. n
      /\ orders'[n] = o /\ (\A j \in DOMAIN orders : orders'[j] = orders[j])
  BY <1>1, <1>2, <1>3
<1>5. n \in OrderId /\ n \notin DOMAIN orders /\ (\A j \in DOMAIN orders : j < n)
      /\ DOMAIN orders' = DOMAIN orders \cup {n}
  BY <1>3, <1>4 DEF OrderId
<1>6. FilledOf(orders', at) = FilledOf(orders, at) BY <1>1, <1>4, <1>5 DEF FilledOf
<1>7. LiveOf(orders', at) = LiveOf(orders, at) \cup {n} BY <1>1, <1>4, <1>5 DEF LiveOf
<1>8. OrdersOf(orders', at) = OrdersOf(orders, at) \cup {n} BY <1>1, <1>4, <1>5 DEF OrdersOf
<1> QED BY <1>1, <1>4, <1>5, <1>6, <1>7, <1>8

(* It does nothing to those of another.                                       *)
LEMMA PlaceSetsElsewhere ==
  ASSUME CycleTypeOK, NEW at \in Coin, NEW o \in Order, o.coin = at, o.state = "live",
         orders' = Append(orders, o), Len(orders) < MaxOrders, NEW c \in Coin \ {at}
  PROVE LiveOf(orders', c) = LiveOf(orders, c) /\ OrdersOf(orders', c) = OrdersOf(orders, c) /\ FilledOf(orders', c) = FilledOf(orders, c)
<1> DEFINE n == Len(orders) + 1
<1>1. n \in Nat BY DEF CycleTypeOK
<1>2. /\ n \notin DOMAIN orders /\ DOMAIN orders' = DOMAIN orders \cup {n}
      /\ orders'[n].coin = at /\ (\A j \in DOMAIN orders : orders'[j] = orders[j])
  BY <1>1, PlaceSets
<1> HIDE DEF n
<1>3. LiveOf(orders', c) = LiveOf(orders, c) BY <1>2 DEF LiveOf
<1>4. OrdersOf(orders', c) = OrdersOf(orders, c) BY <1>2 DEF OrdersOf
<1>5. FilledOf(orders', c) = FilledOf(orders, c) BY <1>2 DEF FilledOf
<1> QED BY <1>3, <1>4, <1>5

-----------------------------------------------------------------------------
(* Trackers, while the exchange moves: orders that fill, positions that end, orders   *)
(* that are canceled or placed.                                               *)
BookStays(b, c) ==
  BookOK(b, held[c], LiveOf(orders, c), FilledOf(orders, c), OrdersOf(orders, c), unreserved)
    => BookOK(b, held'[c], LiveOf(orders', c), FilledOf(orders', c), OrdersOf(orders', c), unreserved')
ReadStays(b, c, known) == OfWhatWasRead(b, held[c], known) => OfWhatWasRead(b, held'[c], known)
SameStays(c, known) == known \subseteq FilledOf(orders, c) /\ known # {} /\ held'[c] = known => held[c] = known
CoinStays(c) ==
  /\ CoinOK(held'[c], LiveOf(orders', c), FilledOf(orders', c), OrdersOf(orders', c))
  /\ FilledOf(orders, c) \subseteq FilledOf(orders', c)
  /\ \A b \in Book : BookOK(b, held[c], LiveOf(orders, c), FilledOf(orders, c), OrdersOf(orders, c), unreserved)
                       => BookStays(b, c) /\ \A known \in SUBSET OrderId : ReadStays(b, c, known)
  /\ \A known \in SUBSET OrderId : SameStays(c, known)

(* Fill keeps what is known of an instrument.                                 *)
LEMMA FillKeeps ==
  ASSUME CountInv, NEW i \in OrderId, Fill(i), NEW c \in Coin
  PROVE CoinStays(c)
<1>1. CycleTypeOK /\ CoinOK(held[c], LiveOf(orders, c), FilledOf(orders, c), OrdersOf(orders, c)) BY DEF CountInv, CoinInv
<1>2. unreserved' = unreserved /\ unreserved \in SUBSET Nat
  BY <1>1, SetsOfOrders, CycleAssumption DEF Fill, CycleTypeOK, OrderId
<1>3. CASE orders[i].coin # c
  <2>1. /\ held'[c] = held[c] /\ LiveOf(orders', c) = LiveOf(orders, c) /\ FilledOf(orders', c) = FilledOf(orders, c) /\ OrdersOf(orders', c) = OrdersOf(orders, c)
    BY <1>1, <1>3, FillSets
  <2> QED BY <1>1, <1>2, <2>1 DEF CoinStays, BookStays, ReadStays, SameStays
<1>4. CASE orders[i].coin = c
  <2>1. /\ i \in LiveOf(orders, c) /\ LiveOf(orders', c) = LiveOf(orders, c) \ {i} /\ OrdersOf(orders', c) = OrdersOf(orders, c)
        /\ FilledOf(orders', c) = FilledOf(orders, c) \cup {i} /\ held'[c] = held[c] \cup {i}
    BY <1>1, <1>4, FillSets
  <2>2. /\ OrdersOf(orders, c) \in SUBSET Nat /\ LiveOf(orders, c) \in SUBSET OrdersOf(orders, c) /\ FilledOf(orders, c) \in SUBSET OrdersOf(orders, c)
        /\ 0 \notin OrdersOf(orders, c) /\ i \in Nat
    BY <1>1, <2>1, SetsOfOrders
  <2>3. held[c] \in SUBSET FilledOf(orders, c) BY <1>1 DEF CoinOK
  <2>4. i \notin FilledOf(orders, c) BY <1>1, <2>1 DEF CoinOK
  <2>5. ASSUME NEW b \in Book, BookOK(b, held[c], LiveOf(orders, c), FilledOf(orders, c), OrdersOf(orders, c), unreserved)
        PROVE /\ BookOK(b, held[c] \cup {i}, LiveOf(orders, c) \ {i}, FilledOf(orders, c) \cup {i}, OrdersOf(orders, c), unreserved)
              /\ b.of # i
              /\ held[c] = {} => Identity(held[c] \cup {i}) = i
              /\ held[c] # {} => Identity(held[c] \cup {i}) = Identity(held[c])
    <3>1. BookOK(b, held[c] \cup {i}, LiveOf(orders, c) \ {i}, FilledOf(orders, c) \cup {i}, OrdersOf(orders, c), unreserved)
      BY <1>1, <1>2, <2>1, <2>2, <2>3, <2>5, BookFills
    <3>4. b.of # i BY <2>1, <2>2, <2>4, <2>5 DEF BookOK
    <3>2. held[c] = {} => Identity(held[c] \cup {i}) = i BY <2>1, <2>2, FirstIdentity
    <3>3. held[c] # {} => Identity(held[c] \cup {i}) = Identity(held[c])
      <4>1. \A j \in held[c] : j < i BY <1>1, <2>1 DEF CoinOK
      <4>2. held[c] \in SUBSET Nat BY <2>2, <2>3
      <4> QED BY <2>2, <4>1, <4>2, IdentityStays
    <3> QED BY <3>1, <3>2, <3>3, <3>4
  <2>6. CoinOK(held'[c], LiveOf(orders', c), FilledOf(orders', c), OrdersOf(orders', c)) BY <1>1, <2>1, <2>4 DEF CoinOK
  <2>7. ASSUME NEW b \in Book, BookOK(b, held[c], LiveOf(orders, c), FilledOf(orders, c), OrdersOf(orders, c), unreserved),
               NEW known \in SUBSET OrderId
        PROVE ReadStays(b, c, known)
    BY <2>1, <2>5, <2>7 DEF ReadStays, OfWhatWasRead
  <2>8. ASSUME NEW b \in Book, BookOK(b, held[c], LiveOf(orders, c), FilledOf(orders, c), OrdersOf(orders, c), unreserved) PROVE BookStays(b, c)
    BY <1>2, <2>1, <2>5, <2>8 DEF BookStays
  <2>9. \A known \in SUBSET OrderId : SameStays(c, known) BY <2>1, <2>4 DEF SameStays
  <2> QED BY <2>1, <2>6, <2>7, <2>8, <2>9 DEF CoinStays
<1> QED BY <1>3, <1>4

(* So does Exit.                                                              *)
LEMMA ExitKeeps ==
  ASSUME CountInv, NEW at \in Coin, Exit(at), NEW c \in Coin
  PROVE CoinStays(c)
<1>1. CycleTypeOK /\ CoinOK(held[c], LiveOf(orders, c), FilledOf(orders, c), OrdersOf(orders, c)) BY DEF CountInv, CoinInv
<1>2. /\ unreserved' = unreserved /\ orders' = orders /\ held' = [held EXCEPT ![at] = {}]
      /\ LiveOf(orders', c) = LiveOf(orders, c) /\ FilledOf(orders', c) = FilledOf(orders, c) /\ OrdersOf(orders', c) = OrdersOf(orders, c)
  BY DEF Exit, LiveOf, FilledOf, OrdersOf
<1>3. held'[c] = IF c = at THEN {} ELSE held[c] BY <1>1, <1>2 DEF CycleTypeOK
<1>4. CASE c = at
  <2>1. \A b \in Book : BookStays(b, c) BY <1>1, <1>2, <1>3, <1>4, BookExits DEF BookStays
  <2>2. CoinOK(held'[c], LiveOf(orders', c), FilledOf(orders', c), OrdersOf(orders', c)) BY <1>1, <1>2, <1>3, <1>4 DEF CoinOK
  <2> QED BY <1>2, <1>3, <1>4, <2>1, <2>2 DEF CoinStays, ReadStays, OfWhatWasRead, SameStays
<1>5. CASE c # at
  BY <1>1, <1>2, <1>3, <1>5 DEF CoinStays, BookStays, ReadStays, SameStays
<1> QED BY <1>4, <1>5

(* So does Sweep.                                                             *)
LEMMA SweepKeeps ==
  ASSUME CountInv, NEW stale \in SUBSET DOMAIN orders, NEW ok \in BOOLEAN, Sweep(stale, ok), NEW c \in Coin
  PROVE CoinStays(c)
<1>1. CycleTypeOK /\ CoinOK(held[c], LiveOf(orders, c), FilledOf(orders, c), OrdersOf(orders, c)) BY DEF CountInv, CoinInv
<1>2. /\ unreserved' = unreserved /\ held' = held
      /\ LiveOf(orders', c) \subseteq LiveOf(orders, c) /\ FilledOf(orders', c) = FilledOf(orders, c) /\ OrdersOf(orders', c) = OrdersOf(orders, c)
  BY <1>1, SweepSets DEF Sweep
<1>3. \A b \in Book : BookStays(b, c) BY <1>1, <1>2, BookSwept DEF BookStays
<1>4. CoinOK(held'[c], LiveOf(orders', c), FilledOf(orders', c), OrdersOf(orders', c)) BY <1>1, <1>2 DEF CoinOK
<1> QED BY <1>2, <1>3, <1>4 DEF CoinStays, ReadStays, SameStays

(* An order is placed on an instrument without another; if a position is open there,  *)
(* the order is put among the unreserved.                                      *)
PlaceStep(at, o, n) ==
  /\ orders' = Append(orders, o) /\ o.coin = at /\ o.state = "live"
  /\ Len(orders) < MaxOrders /\ LiveOf(orders, at) = {} /\ held' = held /\ n = Len(orders) + 1
  /\ unreserved' = unreserved \cup {n} \/ (unreserved' = unreserved /\ held[at] = {})

(* So does an order, for its own instrument.                                  *)
LEMMA PlaceKeepsThere ==
  ASSUME CountInv, NEW at \in Coin, NEW o \in Order, NEW n \in Nat,
         PlaceStep(at, o, n)
  PROVE CoinStays(at)
<1>1. CycleTypeOK /\ CoinOK(held[at], LiveOf(orders, at), FilledOf(orders, at), OrdersOf(orders, at)) /\ unreserved \subseteq DOMAIN orders BY DEF CountInv, CoinInv
<1>2. /\ n \in OrderId /\ n \notin DOMAIN orders /\ (\A j \in DOMAIN orders : j < n)
      /\ FilledOf(orders', at) = FilledOf(orders, at) /\ LiveOf(orders', at) = LiveOf(orders, at) \cup {n} /\ OrdersOf(orders', at) = OrdersOf(orders, at) \cup {n}
  <2>1. n \in OrderId /\ n \notin DOMAIN orders BY <1>1, PlaceSets DEF PlaceStep
  <2>2. \A j \in DOMAIN orders : j < n BY <1>1, PlaceSets DEF PlaceStep
  <2>3. FilledOf(orders', at) = FilledOf(orders, at) BY <1>1, PlaceSets DEF PlaceStep
  <2>4. LiveOf(orders', at) = LiveOf(orders, at) \cup {n} BY <1>1, PlaceSets DEF PlaceStep
  <2>5. OrdersOf(orders', at) = OrdersOf(orders, at) \cup {n} BY <1>1, PlaceSets DEF PlaceStep
  <2> QED BY <2>1, <2>2, <2>3, <2>4, <2>5
<1>3. /\ OrdersOf(orders, at) \in SUBSET Nat /\ LiveOf(orders, at) \in SUBSET OrdersOf(orders, at) /\ FilledOf(orders, at) \in SUBSET OrdersOf(orders, at)
      /\ OrdersOf(orders, at) \subseteq DOMAIN orders /\ DOMAIN orders \subseteq Nat
  BY <1>1, SetsOfOrders DEF OrderId
<1>4. held[at] \in SUBSET FilledOf(orders, at) /\ held' = held BY <1>1 DEF CoinOK, PlaceStep
<1>5. PICK also \in SUBSET {n} : unreserved' = unreserved \cup also /\ (held[at] # {} => also = {n})
  <2>1. CASE unreserved' = unreserved \cup {n} BY <2>1
  <2>2. CASE unreserved' = unreserved /\ held[at] = {} BY <2>2
  <2> QED BY <2>1, <2>2 DEF PlaceStep
<1>6. LiveOf(orders, at) = {} /\ LiveOf(orders', at) = {n} /\ OrdersOf(orders', at) = OrdersOf(orders, at) \cup {n} BY <1>2 DEF PlaceStep
<1>7. \A j \in OrdersOf(orders, at) \cup unreserved : j < n BY <1>1, <1>2, <1>3
<1>8. unreserved \in SUBSET Nat BY <1>1, <1>3
<1>9. CoinOK(held[at], {}, FilledOf(orders, at), OrdersOf(orders, at)) BY <1>1, <1>6
<1>10. \A b \in Book : BookStays(b, at)
  <2>1. SUFFICES ASSUME NEW b \in Book, BookOK(b, held[at], {}, FilledOf(orders, at), OrdersOf(orders, at), unreserved)
                 PROVE BookOK(b, held[at], {n}, FilledOf(orders, at), OrdersOf(orders, at) \cup {n}, unreserved \cup also)
    BY <1>2, <1>4, <1>5, <1>6 DEF BookStays
  <2>2. n \in Nat OBVIOUS
  <2> QED BY <1>3, <1>4, <1>5, <1>7, <1>8, <1>9, <2>1, <2>2, BookPlaced
<1>11. CoinOK(held'[at], LiveOf(orders', at), FilledOf(orders', at), OrdersOf(orders', at)) BY <1>2, <1>3, <1>4, <1>6, <1>7 DEF CoinOK
<1> QED BY <1>2, <1>4, <1>10, <1>11 DEF CoinStays, ReadStays, SameStays

(* And for another.                                                           *)
LEMMA PlaceKeepsElsewhere ==
  ASSUME CountInv, NEW at \in Coin, NEW o \in Order, NEW n \in Nat,
         PlaceStep(at, o, n), NEW c \in Coin \ {at}
  PROVE CoinStays(c)
<1>1. CycleTypeOK /\ CoinOK(held[c], LiveOf(orders, c), FilledOf(orders, c), OrdersOf(orders, c)) /\ unreserved \subseteq DOMAIN orders BY DEF CountInv, CoinInv
<1>2. n \notin DOMAIN orders BY <1>1, PlaceSets DEF PlaceStep
<1>3. FilledOf(orders', c) = FilledOf(orders, c) /\ LiveOf(orders', c) = LiveOf(orders, c) /\ OrdersOf(orders', c) = OrdersOf(orders, c)
  BY <1>1, PlaceSetsElsewhere DEF PlaceStep
<1>4. /\ LiveOf(orders, c) \in SUBSET OrdersOf(orders, c) /\ FilledOf(orders, c) \in SUBSET OrdersOf(orders, c) /\ OrdersOf(orders, c) \subseteq DOMAIN orders
  BY <1>1, SetsOfOrders
<1>5. held[c] \in SUBSET FilledOf(orders, c) /\ held' = held BY <1>1 DEF CoinOK, PlaceStep
<1>6. \A i \in OrdersOf(orders, c) : i \in unreserved <=> i \in unreserved' BY <1>2, <1>4 DEF PlaceStep
<1>7. \A b \in Book : BookStays(b, c)
  <2> SUFFICES ASSUME NEW b \in Book, BookOK(b, held[c], LiveOf(orders, c), FilledOf(orders, c), OrdersOf(orders, c), unreserved)
               PROVE BookOK(b, held[c], LiveOf(orders, c), FilledOf(orders, c), OrdersOf(orders, c), unreserved')
    BY <1>3, <1>5 DEF BookStays
  <2> QED BY <1>4, <1>5, <1>6, BookElsewhere
<1> QED BY <1>1, <1>3, <1>5, <1>7 DEF CoinStays, ReadStays, SameStays

-----------------------------------------------------------------------------
(* Instruments in use.                                                        *)
Engaged == {c \in Coin : held[c] # {} \/ LiveOf(orders, c) # {}}
(* The model's Occupied, with the operators used here.                        *)
LEMMA EngagedIs == Occupied = Engaged /\ Occupied' = Engaged' /\ \A c \in Coin : LiveOn(c) = LiveOf(orders, c)
BY DEF Occupied, Engaged, LiveOn, LiveOf

(* A part of what fits the quota fits it.                                     *)
LEMMA FewerEngaged ==
  ASSUME NEW some \in SUBSET Coin, NEW all \in SUBSET Coin, some \subseteq all, Cardinality(all) <= MaxPositions
  PROVE Cardinality(some) <= MaxPositions
<1>1. IsFiniteSet(Coin) /\ MaxPositions \in Nat BY CycleAssumption
<1>2. IsFiniteSet(all) BY <1>1, FS_Subset
<1>3. IsFiniteSet(some) /\ Cardinality(some) <= Cardinality(all) BY <1>2, FS_Subset
<1>4. Cardinality(some) \in Nat /\ Cardinality(all) \in Nat BY <1>2, <1>3, FS_CardinalityType
<1> QED BY <1>1, <1>3, <1>4

(* The parts of the invariant, while only the exchange moves.                        *)
LEMMA ExchangeKeeps ==
  ASSUME CountInv, NEW c \in Coin, CoinStays(c), UNCHANGED <<bookFile, book, seenHeld, nowHeld>>
  PROVE /\ CoinInv(c)' /\ FileInv(c)'
        /\ (ReadInv(c) => ReadInv(c)') /\ (CopyInv(c) => CopyInv(c)')
        /\ (SameInv(c) => SameInv(c)') /\ (SeenInv(c) => SeenInv(c)')
<1>1. /\ CycleTypeOK /\ seenHeld[c] \subseteq FilledOf(orders, c) /\ FileInv(c)
  BY DEF CountInv, CoinInv
<1>2. bookFile[c] \in Book /\ book[c] \in Book /\ seenHeld[c] \in SUBSET OrderId BY <1>1 DEF CycleTypeOK
<1>3. CoinInv(c)' BY <1>1 DEF CoinStays, CoinInv
<1>4. ASSUME NEW b \in Book, BookInv(b, c)
      PROVE BookOK(b, held'[c], LiveOf(orders', c), FilledOf(orders', c), OrdersOf(orders', c), unreserved')
  BY <1>4 DEF CoinStays, BookStays, BookInv
<1>5. FileInv(c)' BY <1>1, <1>2, <1>4 DEF FileInv, BookInv
<1>6. ReadInv(c) => ReadInv(c)' BY <1>1, <1>2 DEF CoinStays, ReadStays, ReadInv, FileInv, BookInv
<1>7. CopyInv(c) => CopyInv(c)' BY <1>2, <1>4 DEF CoinStays, ReadStays, CopyInv, BookInv
<1>8. (SameInv(c) => SameInv(c)') /\ (SeenInv(c) => SeenInv(c)') BY <1>1, <1>2 DEF CoinStays, SameStays, SameInv, SeenInv
<1> QED BY <1>3, <1>5, <1>6, <1>7, <1>8

(* CountInv is kept when an order fills.                                      *)
LEMMA FillStep ==
  ASSUME CountInv, NEW i \in OrderId, Fill(i) PROVE CountInv'
<1>1. CycleTypeOK /\ unreserved \subseteq DOMAIN orders BY DEF CountInv
<1>2. UNCHANGED <<bookFile, cycleAt, seenHeld, seenPending, book, nowHeld, decided, claims, accepted, unreserved>> BY DEF Fill
<1> DEFINE at == orders[i].coin
<1>3. i \in DOMAIN orders /\ at \in Coin
  <2>1. i \in DOMAIN orders /\ orders \in Seq(Order) BY <1>1 DEF Fill, CycleTypeOK
  <2>2. orders[i] \in Order BY <2>1
  <2> QED BY <2>1, <2>2 DEF Order
<1>4. /\ orders' \in Seq(Order) /\ Len(orders') = Len(orders) /\ DOMAIN orders' = DOMAIN orders
      /\ held' \in [Coin -> SUBSET OrderId]
      /\ (\A j \in DOMAIN orders : orders'[j].coin = orders[j].coin)
  BY <1>1, <1>3, FillSets
<1>5. CycleTypeOK' BY <1>1, <1>2, <1>4 DEF CycleTypeOK
<1>6. \A c \in Coin : CoinStays(c) BY FillKeeps
<1>7. \A c \in Coin : /\ CoinInv(c)' /\ FileInv(c)'
                      /\ (ReadInv(c) => ReadInv(c)') /\ (CopyInv(c) => CopyInv(c)')
                      /\ (SameInv(c) => SameInv(c)') /\ (SeenInv(c) => SeenInv(c)')
  BY <1>2, <1>6, ExchangeKeeps
<1>8. Engaged' = Engaged
  <2>1. ASSUME NEW c \in Coin
        PROVE held'[c] # {} \/ LiveOf(orders', c) # {} <=> held[c] # {} \/ LiveOf(orders, c) # {}
    BY <1>1, FillSets
  <2> QED BY <2>1 DEF Engaged
<1>9. WithinQuota' BY <1>8, EngagedIs DEF CountInv, WithinQuota
<1>10. ASSUME cycleAt = "reserving", NEW c \in Coin, NEW n \in DOMAIN orders, orders[n].coin = c, ReservingInv(n, c)
       PROVE ReservingInv(n, c)'
  <2>1. /\ n \in unreserved' /\ n \in OrdersOf(orders', c) /\ book' = book
    BY <1>1, <1>2, <1>4, <1>10, FillSets DEF ReservingInv
  <2>2. CASE at # c
    <3>1. /\ LiveOf(orders', c) = LiveOf(orders, c) /\ FilledOf(orders', c) = FilledOf(orders, c) /\ held'[c] = held[c]
      BY <1>1, <2>2, FillSets
    <3> QED BY <1>10, <2>1, <3>1 DEF ReservingInv
  <2>3. CASE at = c
    <3>1. /\ i \in LiveOf(orders, c) /\ LiveOf(orders', c) = LiveOf(orders, c) \ {i}
          /\ FilledOf(orders', c) = FilledOf(orders, c) \cup {i} /\ held'[c] = held[c] \cup {i}
      BY <1>1, <2>3, FillSets
    <3>2. i = n BY <1>10, <3>1 DEF ReservingInv
    <3>3. held[c] \subseteq Nat /\ (\A j \in held[c] : j < n) /\ n \in Nat
      <4>1. CoinOK(held[c], LiveOf(orders, c), FilledOf(orders, c), OrdersOf(orders, c)) BY DEF CountInv, CoinInv
      <4>2. OrdersOf(orders, c) \subseteq Nat BY <1>1, SetsOfOrders
      <4> QED BY <3>1, <3>2, <4>1, <4>2 DEF CoinOK
    <3>4. held[c] = {} => Identity(held'[c]) = n
      <4>1. Identity({n}) = n BY <3>3, FirstIdentity
      <4> QED BY <3>1, <3>2, <4>1
    <3>5. held[c] # {} => Identity(held'[c]) = Identity(held[c])
      <4>1. held[c] # {} => Identity(held[c] \cup {n}) = Identity(held[c]) BY <3>3, IdentityStays
      <4> QED BY <3>1, <3>2, <4>1
    <3> QED BY <1>10, <2>1, <3>1, <3>2, <3>4, <3>5 DEF ReservingInv
  <2> QED BY <2>2, <2>3
<1>11. StagesInv' BY <1>2, <1>4, <1>7, <1>10 DEF StagesInv, CountInv
<1> QED BY <1>1, <1>2, <1>4, <1>5, <1>7, <1>9, <1>11 DEF CountInv

(* When a position ends.                                                      *)
LEMMA ExitStep ==
  ASSUME CountInv, NEW at \in Coin, Exit(at) PROVE CountInv'
<1>1. CycleTypeOK /\ unreserved \subseteq DOMAIN orders BY DEF CountInv
<1>2. /\ UNCHANGED <<orders, bookFile, cycleAt, seenHeld, seenPending, book, nowHeld, decided, claims, accepted, unreserved>>
      /\ held' = [held EXCEPT ![at] = {}]
  BY DEF Exit
<1>3. held' \in [Coin -> SUBSET OrderId] BY <1>1, <1>2 DEF CycleTypeOK
<1>4. CycleTypeOK' BY <1>1, <1>2, <1>3 DEF CycleTypeOK
<1>5. \A c \in Coin : CoinStays(c) BY ExitKeeps
<1>6. \A c \in Coin : /\ CoinInv(c)' /\ FileInv(c)'
                      /\ (ReadInv(c) => ReadInv(c)') /\ (CopyInv(c) => CopyInv(c)')
                      /\ (SameInv(c) => SameInv(c)') /\ (SeenInv(c) => SeenInv(c)')
  BY <1>2, <1>5, ExchangeKeeps
<1>7. Engaged' \subseteq Engaged BY <1>1, <1>2 DEF Engaged, CycleTypeOK
<1>8. WithinQuota'
  <2>1. Cardinality(Engaged) <= MaxPositions BY EngagedIs DEF CountInv, WithinQuota
  <2>2. Engaged' \in SUBSET Coin /\ Engaged \in SUBSET Coin BY DEF Engaged
  <2>3. Cardinality(Engaged') <= MaxPositions BY <1>7, <2>1, <2>2, FewerEngaged
  <2> QED BY <2>3, EngagedIs DEF WithinQuota
<1>9. ASSUME NEW c \in Coin, NEW n, ReservingInv(n, c) PROVE ReservingInv(n, c)'
  <2>1. held'[c] = held[c] \/ held'[c] = {} BY <1>1, <1>2 DEF CycleTypeOK
  <2> QED BY <1>2, <1>9, <2>1 DEF ReservingInv
<1>10. StagesInv' BY <1>2, <1>6, <1>9 DEF StagesInv, CountInv
<1> QED BY <1>1, <1>2, <1>4, <1>6, <1>8, <1>10 DEF CountInv

(* When stale orders are canceled.                                            *)
LEMMA SweepStep ==
  ASSUME CountInv, NEW stale \in SUBSET DOMAIN orders, NEW ok \in BOOLEAN, Sweep(stale, ok) PROVE CountInv'
<1>1. CycleTypeOK /\ unreserved \subseteq DOMAIN orders BY DEF CountInv
<1>2. /\ UNCHANGED <<held, bookFile, seenHeld, seenPending, book, nowHeld, decided, claims, accepted, unreserved>>
      /\ cycleAt' \in {"idle", "swept"}
  BY DEF Sweep
<1>3. orders' \in Seq(Order) /\ Len(orders') <= MaxOrders /\ unreserved' \subseteq DOMAIN orders'
  <2>1. CASE orders = <<>>
    <3>1. DOMAIN orders = {} BY <2>1
    <3>2. orders' = [i \in DOMAIN orders |-> IF i \in stale THEN [orders[i] EXCEPT !.state = "canceled"] ELSE orders[i]]
      BY DEF Sweep
    <3>3. orders' = <<>> BY <3>1, <3>2
    <3>4. <<>> \in Seq(Order) /\ Len(<<>>) = 0 OBVIOUS
    <3>5. orders' = orders BY <2>1, <3>3
    <3> QED BY <1>1, <1>2, <3>5 DEF CycleTypeOK
  <2>2. CASE orders # <<>>
    <3>1. orders \in Seq(Order) BY <1>1 DEF CycleTypeOK
    <3>2. 1 \in DOMAIN orders BY <2>2, <3>1
    <3>3. orders[1] \in Order BY <3>1, <3>2
    <3>4. orders[1].coin \in Coin BY <3>3 DEF Order
    <3>5. orders' \in Seq(Order) /\ Len(orders') = Len(orders) /\ DOMAIN orders' = DOMAIN orders BY <1>1, <3>4, SweepSets
    <3> QED BY <1>1, <1>2, <3>5 DEF CycleTypeOK
  <2> QED BY <2>1, <2>2
<1>4. CycleTypeOK' BY <1>1, <1>2, <1>3 DEF CycleTypeOK
<1>5. \A c \in Coin : CoinStays(c) BY SweepKeeps
<1>6. \A c \in Coin : CoinInv(c)' /\ FileInv(c)' BY <1>2, <1>5, ExchangeKeeps
<1>7. Engaged' \subseteq Engaged
  <2>1. ASSUME NEW c \in Coin PROVE LiveOf(orders', c) \subseteq LiveOf(orders, c) BY <1>1, SweepSets
  <2> QED BY <1>2, <2>1 DEF Engaged
<1>8. WithinQuota'
  <2>1. Cardinality(Engaged) <= MaxPositions BY EngagedIs DEF CountInv, WithinQuota
  <2>2. Engaged' \in SUBSET Coin /\ Engaged \in SUBSET Coin BY DEF Engaged
  <2>3. Cardinality(Engaged') <= MaxPositions BY <1>7, <2>1, <2>2, FewerEngaged
  <2> QED BY <2>3, EngagedIs DEF WithinQuota
<1>9. StagesInv' BY <1>2 DEF StagesInv
<1> QED BY <1>1, <1>3, <1>4, <1>6, <1>8, <1>9 DEF CountInv

(* An order that the gateway admits.                                           *)
LEMMA PlacedParts ==
  ASSUME CountInv, NEW at \in Coin, NEW o \in Order, NEW n \in Nat, PlaceStep(at, o, n),
         Cardinality(Occupied \cup {at}) <= MaxPositions,
         UNCHANGED <<bookFile, book, seenHeld, nowHeld>>
  PROVE /\ orders' \in Seq(Order) /\ Len(orders') = n /\ n \in DOMAIN orders' /\ n <= MaxOrders
        /\ unreserved' \subseteq DOMAIN orders' /\ unreserved' \subseteq OrderId /\ WithinQuota'
        /\ \A c \in Coin : /\ CoinInv(c)' /\ FileInv(c)'
                           /\ (SameInv(c) => SameInv(c)') /\ (SeenInv(c) => SeenInv(c)')
<1>1. CycleTypeOK /\ unreserved \subseteq DOMAIN orders BY DEF CountInv
<1>2. n \in OrderId /\ DOMAIN orders' = DOMAIN orders \cup {n} /\ orders' \in Seq(Order) /\ Len(orders') = n
  BY <1>1, PlaceSets DEF PlaceStep
<1>3. n \in DOMAIN orders' /\ n <= MaxOrders BY <1>2 DEF OrderId
<1>4. unreserved' \subseteq unreserved \cup {n} BY DEF PlaceStep
<1>5. unreserved' \subseteq DOMAIN orders' /\ unreserved' \subseteq OrderId BY <1>1, <1>2, <1>4 DEF CycleTypeOK
<1>6. \A c \in Coin : CoinStays(c) BY PlaceKeepsThere, PlaceKeepsElsewhere
<1>7. \A c \in Coin : /\ CoinInv(c)' /\ FileInv(c)'
                      /\ (SameInv(c) => SameInv(c)') /\ (SeenInv(c) => SeenInv(c)')
  BY <1>6, ExchangeKeeps
<1>8. Engaged' \subseteq Engaged \cup {at}
  <2>1. ASSUME NEW c \in Coin \ {at} PROVE LiveOf(orders', c) = LiveOf(orders, c)
    BY <1>1, PlaceSetsElsewhere DEF PlaceStep
  <2>2. held' = held BY DEF PlaceStep
  <2> QED BY <2>1, <2>2 DEF Engaged
<1>9. WithinQuota'
  <2>1. Cardinality(Engaged \cup {at}) <= MaxPositions BY EngagedIs
  <2>2. Engaged' \in SUBSET Coin /\ Engaged \cup {at} \in SUBSET Coin BY DEF Engaged
  <2>3. Cardinality(Engaged') <= MaxPositions BY <1>8, <2>1, <2>2, FewerEngaged
  <2> QED BY <2>3, EngagedIs DEF WithinQuota
<1> QED BY <1>2, <1>3, <1>5, <1>7, <1>9

(* What the actions call Place is a PlaceStep.                                *)
LEMMA PlacesOrder ==
  ASSUME CycleTypeOK, NEW at \in Coin, NEW side \in Side, NEW scale \in BOOLEAN, Place(at, side, scale),
         Len(orders) < MaxOrders, LiveOn(at) = {}, held' = held,
         unreserved' = unreserved \cup {Len(orders')} \/ (unreserved' = unreserved /\ held[at] = {})
  PROVE \E o \in Order, n \in Nat : PlaceStep(at, o, n)
<1> DEFINE o == [coin |-> at, side |-> side, scale |-> scale, state |-> "live"]
           n == Len(orders) + 1
<1>1. o \in Order /\ o.coin = at /\ o.state = "live" BY DEF Order
<1>2. orders \in Seq(Order) /\ orders' = Append(orders, o) BY DEF CycleTypeOK, Place
<1> HIDE DEF o
<1>3. Len(orders') = n /\ n \in Nat BY <1>1, <1>2
<1>4. LiveOf(orders, at) = {} BY EngagedIs
<1>5. PlaceStep(at, o, n) BY <1>1, <1>2, <1>3, <1>4 DEF PlaceStep
<1> QED BY <1>1, <1>3, <1>5

(* When the minute engine enters.                                             *)
LEMMA MinuteStep ==
  ASSUME CountInv, NEW at \in Coin, NEW side \in Side, MinuteEntry(at, side) PROVE CountInv'
<1>1. CycleTypeOK BY DEF CountInv
<1>2. /\ UNCHANGED <<held, bookFile, cycleAt, seenHeld, seenPending, book, nowHeld, decided, claims, accepted, unreserved>>
      /\ cycleAt \in {"idle", "window"} /\ Place(at, side, FALSE)
      /\ Len(orders) < MaxOrders /\ LiveOn(at) = {} /\ held[at] = {} /\ Cardinality(Occupied \cup {at}) <= MaxPositions
  BY DEF MinuteEntry, GatewayAdmits
<1>3. FALSE \in BOOLEAN OBVIOUS
<1>4. PICK o \in Order, n \in Nat : PlaceStep(at, o, n) BY <1>1, <1>2, <1>3, PlacesOrder
<1>5. /\ orders' \in Seq(Order) /\ Len(orders') = n /\ n \in DOMAIN orders' /\ n <= MaxOrders
      /\ unreserved' \subseteq DOMAIN orders' /\ unreserved' \subseteq OrderId /\ WithinQuota'
      /\ \A c \in Coin : /\ CoinInv(c)' /\ FileInv(c)'
                         /\ (SameInv(c) => SameInv(c)') /\ (SeenInv(c) => SeenInv(c)')
  BY <1>2, <1>4, PlacedParts
<1>6. CycleTypeOK' BY <1>1, <1>2, <1>5 DEF CycleTypeOK
<1>7. StagesInv' BY <1>2, <1>5 DEF StagesInv, CountInv
<1> QED BY <1>5, <1>6, <1>7 DEF CountInv

(* When an entry is accepted.                                                 *)
LEMMA EnterStep ==
  ASSUME CountInv, NEW at \in Coin, NEW side \in Side, EnterAccepted(at, side) PROVE CountInv'
<1>1. CycleTypeOK BY DEF CountInv
<1>2. /\ UNCHANGED <<held, bookFile, cycleAt, seenHeld, book, nowHeld, unreserved>>
      /\ cycleAt = "deciding" /\ Place(at, side, FALSE) /\ nowHeld[at] = {} /\ held[at] = seenHeld[at]
      /\ Len(orders) < MaxOrders /\ LiveOn(at) = {} /\ Cardinality(Occupied \cup {at}) <= MaxPositions
  BY DEF EnterAccepted, GatewayAdmits, EntryAllowed
<1>3. FALSE \in BOOLEAN OBVIOUS
<1>4. held[at] = {}
  <2>1. SeenInv(at) BY <1>2 DEF CountInv, StagesInv
  <2> QED BY <1>2, <2>1 DEF SeenInv
<1>5. PICK o \in Order, n \in Nat : PlaceStep(at, o, n) BY <1>1, <1>2, <1>3, <1>4, PlacesOrder
<1>6. /\ orders' \in Seq(Order) /\ Len(orders') = n /\ n \in DOMAIN orders' /\ n <= MaxOrders
      /\ unreserved' \subseteq DOMAIN orders' /\ unreserved' \subseteq OrderId /\ WithinQuota'
      /\ \A c \in Coin : /\ CoinInv(c)' /\ FileInv(c)'
                         /\ (SameInv(c) => SameInv(c)') /\ (SeenInv(c) => SeenInv(c)')
  BY <1>2, <1>5, PlacedParts
<1>7. /\ seenPending' \in [Coin -> Side \cup {"none"}] /\ decided' \subseteq Coin
      /\ claims' \subseteq Side /\ accepted' \subseteq Coin \X Side
  BY <1>1 DEF EnterAccepted, CycleTypeOK, Claimed
<1>8. CycleTypeOK' BY <1>1, <1>2, <1>6, <1>7 DEF CycleTypeOK
<1>9. StagesInv' BY <1>2, <1>6 DEF StagesInv, CountInv
<1> QED BY <1>6, <1>8, <1>9 DEF CountInv

(* When the reply to an order is lost.                                        *)
LEMMA LostStep ==
  ASSUME CountInv, NEW at \in Coin, NEW side \in Side, ReplyLost(at, side) PROVE CountInv'
<1>1. CycleTypeOK BY DEF CountInv
<1>2. /\ UNCHANGED <<held, bookFile, cycleAt, seenHeld, seenPending, book, nowHeld, claims, accepted>>
      /\ cycleAt = "deciding" /\ Place(at, side, nowHeld[at] # {}) /\ held[at] = seenHeld[at]
      /\ Len(orders) < MaxOrders /\ LiveOn(at) = {} /\ Cardinality(Occupied \cup {at}) <= MaxPositions
      /\ decided' = decided \cup {at}
      /\ unreserved' = IF nowHeld[at] # {} THEN unreserved \cup {Len(orders')} ELSE unreserved
  BY DEF ReplyLost, GatewayAdmits
<1>3. (nowHeld[at] # {}) \in BOOLEAN OBVIOUS
<1>4. nowHeld[at] = {} => held[at] = {}
  <2>1. SeenInv(at) BY <1>2 DEF CountInv, StagesInv
  <2> QED BY <1>2, <2>1 DEF SeenInv
<1>5. PICK o \in Order, n \in Nat : PlaceStep(at, o, n)
  <2>1. unreserved' = unreserved \cup {Len(orders')} \/ (unreserved' = unreserved /\ held[at] = {}) BY <1>2, <1>4
  <2> QED BY <1>1, <1>2, <1>3, <2>1, PlacesOrder
<1>6. /\ orders' \in Seq(Order) /\ Len(orders') = n /\ n \in DOMAIN orders' /\ n <= MaxOrders
      /\ unreserved' \subseteq DOMAIN orders' /\ unreserved' \subseteq OrderId /\ WithinQuota'
      /\ \A c \in Coin : /\ CoinInv(c)' /\ FileInv(c)'
                         /\ (SameInv(c) => SameInv(c)') /\ (SeenInv(c) => SeenInv(c)')
  BY <1>2, <1>5, PlacedParts
<1>7. CycleTypeOK' BY <1>1, <1>2, <1>6 DEF CycleTypeOK
<1>8. StagesInv' BY <1>2, <1>6 DEF StagesInv, CountInv
<1> QED BY <1>6, <1>7, <1>8 DEF CountInv

(* When a scale-in is accepted: its order awaits its reservation.             *)
LEMMA ScaleStep ==
  ASSUME CountInv, NEW at \in Coin, NEW side \in Side, ScaleAccepted(at, side) PROVE CountInv'
<1>1. CycleTypeOK BY DEF CountInv
<1>2. /\ UNCHANGED <<held, bookFile, seenHeld, seenPending, book, nowHeld, claims, accepted>>
      /\ cycleAt = "deciding" /\ cycleAt' = "reserving" /\ Place(at, side, TRUE) /\ held[at] = seenHeld[at]
      /\ Len(orders) < MaxOrders /\ LiveOn(at) = {} /\ Cardinality(Occupied \cup {at}) <= MaxPositions
      /\ decided' = decided \cup {at} /\ unreserved' = unreserved \cup {Len(orders')}
  BY DEF ScaleAccepted, GatewayAdmits
<1>3. TRUE \in BOOLEAN OBVIOUS
<1>4. PICK o \in Order, n \in Nat : PlaceStep(at, o, n) BY <1>1, <1>2, <1>3, PlacesOrder
<1>5. /\ orders' \in Seq(Order) /\ Len(orders') = n /\ n \in DOMAIN orders' /\ n <= MaxOrders
      /\ unreserved' \subseteq DOMAIN orders' /\ unreserved' \subseteq OrderId /\ WithinQuota'
      /\ \A c \in Coin : /\ CoinInv(c)' /\ FileInv(c)'
                         /\ (SameInv(c) => SameInv(c)') /\ (SeenInv(c) => SeenInv(c)')
  BY <1>2, <1>4, PlacedParts
<1>6. CycleTypeOK' BY <1>1, <1>2, <1>5 DEF CycleTypeOK
<1>7. /\ orders'[n].coin = at /\ OrdersOf(orders', at) = OrdersOf(orders, at) \cup {n} /\ n \notin DOMAIN orders
      /\ LiveOf(orders', at) = LiveOf(orders, at) \cup {n} /\ FilledOf(orders', at) = FilledOf(orders, at)
      /\ LiveOf(orders, at) = {} /\ n \in OrderId
  BY <1>1, <1>4, PlaceSets DEF PlaceStep
<1>8. book[at].of # n /\ n \notin FilledOf(orders, at)
  <2>1. FilledOf(orders, at) \subseteq DOMAIN orders /\ 0 \notin OrderId BY <1>1, SetsOfOrders
  <2>2. book = bookFile /\ FileInv(at) BY <1>2 DEF CountInv, StagesInv
  <2> QED BY <1>7, <2>1, <2>2 DEF FileInv, BookInv, BookOK
<1>9. held[at] # {} /\ book[at].of # 0 => Identity(held[at]) = book[at].of
  <2>1. SameInv(at) /\ book = bookFile BY <1>2 DEF CountInv, StagesInv
  <2> QED BY <1>2, <2>1 DEF SameInv
<1>10. ReservingInv(n, at)'
  <2>1. n \in unreserved' BY <1>2, <1>5
  <2> QED BY <1>2, <1>7, <1>8, <1>9, <2>1 DEF ReservingInv
<1>11. StagesInv'
  <2>1. (Len(orders) \in DOMAIN orders /\ orders[Len(orders)].coin = at /\ ReservingInv(Len(orders), at))'
    BY <1>5, <1>7, <1>10 DEF ReservingInv
  <2> QED BY <1>2, <1>5, <2>1 DEF StagesInv, CountInv
<1> QED BY <1>5, <1>6, <1>11 DEF CountInv

-----------------------------------------------------------------------------
(* Steps of the cycle and of the guard: the exchange stands still.                *)
LEMMA StandsStill ==
  ASSUME CountInv, UNCHANGED <<orders, held, unreserved, bookFile, seenHeld>>, CycleTypeOK', StagesInv'
  PROVE CountInv'
<1>1. \A c \in Coin : CoinInv(c)' /\ FileInv(c)' BY DEF CountInv, CoinInv, FileInv, BookInv
<1>2. WithinQuota' BY DEF CountInv, WithinQuota, Occupied, LiveOn
<1> QED BY <1>1, <1>2 DEF CountInv

(* When pending orders are read, or the cycle ends.                           *)
LEMMA QuietStep ==
  ASSUME CountInv, QueryPending \/ Abort \/ CycleEnds PROVE CountInv'
<1>1. CycleTypeOK BY DEF CountInv
<1>2. CASE QueryPending
  <2>1. /\ UNCHANGED <<orders, held, bookFile, seenHeld, book, nowHeld, decided, claims, accepted, unreserved>>
        /\ cycleAt = "positions" /\ cycleAt' = "pending"
    BY <1>2 DEF QueryPending
  <2>2. seenPending' \in [Coin -> Side \cup {"none"}]
    <3>1. ASSUME NEW c \in Coin, LiveOn(c) # {} PROVE orders[Identity(LiveOn(c))].side \in Side
      <4>1. LiveOn(c) = LiveOf(orders, c) /\ LiveOf(orders, c) \subseteq OrdersOf(orders, c) /\ OrdersOf(orders, c) \subseteq Nat
            /\ OrdersOf(orders, c) \subseteq DOMAIN orders
        BY <1>1, SetsOfOrders, EngagedIs
      <4>2. LiveOn(c) \in SUBSET Nat BY <4>1
      <4>3. Identity(LiveOn(c)) \in LiveOn(c) BY <3>1, <4>2, IdentityIs
      <4>4. Identity(LiveOn(c)) \in DOMAIN orders /\ orders \in Seq(Order) BY <1>1, <4>1, <4>3 DEF CycleTypeOK
      <4>5. orders[Identity(LiveOn(c))] \in Order BY <4>4
      <4> QED BY <4>5 DEF Order
    <3> QED BY <1>2, <3>1 DEF QueryPending, PendingNow
  <2>3. CycleTypeOK' BY <1>1, <2>1, <2>2 DEF CycleTypeOK
  <2>4. StagesInv' BY <2>1 DEF CountInv, StagesInv, ReadInv
  <2> QED BY <2>1, <2>3, <2>4, StandsStill
<1>3. CASE Abort \/ CycleEnds
  <2>1. UNCHANGED <<orders, held, bookFile, unreserved>> /\ cycleAt' = "idle" /\ Forget BY <1>3 DEF Abort, CycleEnds
  <2>2. CycleTypeOK'
    <3>1. NoBook \in Book BY CycleAssumption DEF NoBook, Book
    <3> QED BY <1>1, <2>1, <3>1 DEF CycleTypeOK, Forget, Flat, NonePending, NoBooks
  <2>3. \A c \in Coin : CoinInv(c)' /\ FileInv(c)'
    BY <2>1 DEF CountInv, CoinInv, FileInv, BookInv, Forget, Flat
  <2>4. WithinQuota' BY <2>1 DEF CountInv, WithinQuota, Occupied, LiveOn
  <2>5. StagesInv' BY <2>1 DEF StagesInv
  <2> QED BY <2>1, <2>2, <2>3, <2>4, <2>5 DEF CountInv
<1> QED BY <1>2, <1>3

(* When positions are read.                                                   *)
LEMMA PositionsStep ==
  ASSUME CountInv, QueryPositions PROVE CountInv'
<1>1. CycleTypeOK BY DEF CountInv
<1>2. /\ UNCHANGED <<orders, held, bookFile, seenPending, book, nowHeld, decided, claims, accepted, unreserved>>
      /\ cycleAt' = "positions" /\ seenHeld' = held
  BY DEF QueryPositions
<1>3. CycleTypeOK' BY <1>1, <1>2 DEF CycleTypeOK
<1>4. \A c \in Coin : CoinInv(c)' /\ FileInv(c)'
  BY <1>2 DEF CountInv, CoinInv, FileInv, BookInv, CoinOK
<1>5. WithinQuota' BY <1>2 DEF CountInv, WithinQuota, Occupied, LiveOn
<1>6. StagesInv' BY <1>2 DEF StagesInv, ReadInv, OfWhatWasRead
<1> QED BY <1>2, <1>3, <1>4, <1>5, <1>6 DEF CountInv

(* When the model's answer has come.                                          *)
LEMMA AnswerStep ==
  ASSUME CountInv, NEW positionsOk \in BOOLEAN, Answer(positionsOk) PROVE CountInv'
<1>1. CycleTypeOK BY DEF CountInv
<1>2. /\ UNCHANGED <<orders, held, bookFile, seenHeld, seenPending, decided, claims, accepted, unreserved>>
      /\ cycleAt = "window" /\ cycleAt' = "deciding" /\ book' = bookFile
      /\ nowHeld' = held \/ nowHeld' = seenHeld
  BY DEF Answer
<1>3. CycleTypeOK' BY <1>1, <1>2 DEF CycleTypeOK
<1>4. StagesInv' BY <1>2 DEF CountInv, StagesInv, SameInv, SeenInv
<1> QED BY <1>2, <1>3, <1>4, StandsStill

(* Trackers that are put on a position, or taken off one.                          *)
LEMMA FreshBook ==
  ASSUME CycleTypeOK, NEW c \in Coin, CoinInv(c), NEW b, BookInv(b, c), NEW id, id = 0 \/ id \in FilledOf(orders, c),
         held[c] # {} => b.of # Identity(held[c])
  PROVE /\ [NoBook EXCEPT !.of = id] \in Book /\ [NoBook EXCEPT !.of = id].of = id
        /\ BookInv([NoBook EXCEPT !.of = id], c)
<1>1. 0 \notin OrdersOf(orders, c) /\ OrdersOf(orders, c) \subseteq OrderId /\ FilledOf(orders, c) \subseteq OrdersOf(orders, c)
  BY SetsOfOrders
<1>2. CoinOK(held[c], LiveOf(orders, c), FilledOf(orders, c), OrdersOf(orders, c)) BY DEF CoinInv
<1>3. BookOK(b, held[c], LiveOf(orders, c), FilledOf(orders, c), OrdersOf(orders, c), unreserved) BY DEF BookInv
<1>4. BookOK([NoBook EXCEPT !.of = id], held[c], LiveOf(orders, c), FilledOf(orders, c), OrdersOf(orders, c), unreserved)
  BY <1>1, <1>2, <1>3, BookAnew
<1>5. id \in 0 .. MaxOrders /\ 0 \in 0 .. MaxOrders BY <1>1, CycleAssumption DEF OrderId
<1>6. [NoBook EXCEPT !.of = id] \in Book /\ [NoBook EXCEPT !.of = id].of = id BY <1>5 DEF NoBook, Book
<1> QED BY <1>4, <1>6 DEF BookInv

(* No tracker is a fresh one of no position.                                  *)
LEMMA NoBookIs == NoBook = [NoBook EXCEPT !.of = 0]
BY DEF NoBook

(* A tracker that is managed for a position that was read.                    *)
LEMMA ManagedKeeps ==
  ASSUME CycleTypeOK, NEW c \in Coin, CoinInv(c), NEW b \in Book, BookInv(b, c),
         NEW known \in SUBSET OrderId, known \subseteq FilledOf(orders, c),
         held[c] # {} /\ b.of = Identity(held[c]) /\ known # {} => Identity(known) = b.of,
         NEW adopts \in BOOLEAN
  PROVE /\ Managed(b, known, adopts) \in Book /\ BookInv(Managed(b, known, adopts), c)
        /\ known # {} => Managed(b, known, adopts).of \in {0, Identity(known)}
<1>1. CASE known = {} BY <1>1 DEF Managed
<1>2. CASE known # {} /\ b.of = Identity(known) BY <1>2 DEF Managed
<1>3. CASE known # {} /\ b.of # Identity(known)
  <2>1. Identity(known) \in known
    <3>1. known \in SUBSET Nat BY CycleAssumption DEF OrderId
    <3> QED BY <1>3, <3>1, IdentityIs
  <2>2. held[c] # {} => b.of # Identity(held[c]) BY <1>3
  <2> DEFINE id == IF adopts THEN Identity(known) ELSE 0
             r == [NoBook EXCEPT !.of = id]
  <2>3. id = 0 \/ id \in FilledOf(orders, c) BY <2>1
  <2>4. id \in {0, Identity(known)} OBVIOUS
  <2>5. Managed(b, known, adopts) = r BY <1>3, NoBookIs DEF Managed
  <2> HIDE DEF id
  <2>6. r \in Book /\ r.of = id /\ BookInv(r, c) BY <2>2, <2>3, FreshBook
  <2> HIDE DEF r
  <2> QED BY <2>4, <2>5, <2>6
<1> QED BY <1>1, <1>2, <1>3

(* CountInv is kept by a round of the guard.                                  *)
LEMMA GuardStep ==
  ASSUME CountInv, NEW adopting \in SUBSET Coin, GuardRound(adopting) PROVE CountInv'
<1>1. CycleTypeOK BY DEF CountInv
<1>2. /\ UNCHANGED <<orders, held, cycleAt, seenHeld, seenPending, book, nowHeld, decided, claims, accepted, unreserved>>
      /\ cycleAt \in {"idle", "window"}
      /\ bookFile' = [c \in Coin |-> IF held[c] = {} THEN NoBook ELSE Managed(bookFile[c], held[c], c \in adopting)]
  BY DEF GuardRound
<1>3. ASSUME NEW c \in Coin
      PROVE /\ bookFile'[c] \in Book /\ BookInv(bookFile'[c], c)
            /\ held[c] # {} => bookFile'[c].of \in {0, Identity(held[c])}
  <2>1. CoinInv(c) /\ BookInv(bookFile[c], c) /\ bookFile[c] \in Book BY <1>1, SetsOfOrders DEF CountInv, FileInv
  <2>2. CASE held[c] = {}
    <3>1. bookFile'[c] = [NoBook EXCEPT !.of = 0] BY <1>2, <2>2, NoBookIs
    <3>2. /\ [NoBook EXCEPT !.of = 0] \in Book /\ BookInv([NoBook EXCEPT !.of = 0], c)
      BY <1>1, <2>1, <2>2, FreshBook
    <3> QED BY <2>2, <3>1, <3>2
  <2>3. CASE held[c] # {}
    <3> DEFINE adopts == c \in adopting
    <3>1. bookFile'[c] = Managed(bookFile[c], held[c], adopts) BY <1>2, <2>3
    <3>2. adopts \in BOOLEAN OBVIOUS
    <3>3. held[c] \in SUBSET OrderId /\ held[c] \subseteq FilledOf(orders, c) BY <1>1, <2>1 DEF CycleTypeOK, CoinInv, CoinOK
    <3> HIDE DEF adopts
    <3>4. /\ Managed(bookFile[c], held[c], adopts) \in Book /\ BookInv(Managed(bookFile[c], held[c], adopts), c)
          /\ Managed(bookFile[c], held[c], adopts).of \in {0, Identity(held[c])}
      BY <1>1, <2>1, <2>3, <3>2, <3>3, ManagedKeeps
    <3> QED BY <3>1, <3>4
  <2> QED BY <2>2, <2>3
<1>4. CycleTypeOK'
  <2>1. bookFile' = [c \in Coin |-> bookFile'[c]] BY <1>2
  <2>2. bookFile' \in [Coin -> Book] BY <1>3, <2>1
  <2> QED BY <1>1, <1>2, <2>2 DEF CycleTypeOK
<1>5. \A c \in Coin : CoinInv(c)' /\ FileInv(c)'
  BY <1>2, <1>3 DEF CountInv, CoinInv, FileInv, BookInv
<1>6. StagesInv' BY <1>2, <1>3 DEF StagesInv, SameInv
<1>7. WithinQuota' BY <1>2 DEF CountInv, WithinQuota, Occupied, LiveOn
<1> QED BY <1>2, <1>4, <1>5, <1>6, <1>7 DEF CountInv

(* A tracker whose reserved orders are reconciled.                            *)
LEMMA ReconciledKeeps ==
  ASSUME CycleTypeOK, NEW c \in Coin, CoinInv(c), NEW b \in Book, BookInv(b, c), unreserved \subseteq OrderId
  PROVE ScaleReconciled(b) \in Book /\ ScaleReconciled(b).of = b.of /\ BookInv(ScaleReconciled(b), c)
<1> DEFINE mine == OrdersOf(orders, c) filled == FilledOf(orders, c) live == LiveOf(orders, c)
           r == [b EXCEPT !.count = @ + Cardinality(b.orders \cap filled), !.orders = b.orders \cap live]
<1>1. b.orders \subseteq mine BY DEF BookInv, BookOK
<1>2. /\ {i \in b.orders : orders[i].state = "filled"} = b.orders \cap filled
      /\ {i \in b.orders : orders[i].state = "live"} = b.orders \cap live
  BY <1>1 DEF OrdersOf, FilledOf, LiveOf
<1>3. ScaleReconciled(b) = r BY <1>2 DEF ScaleReconciled
<1>4. mine \in SUBSET OrderId /\ filled \in SUBSET mine /\ live \in SUBSET mine BY SetsOfOrders
<1>5. held[c] \in SUBSET filled /\ CoinOK(held[c], live, filled, mine) BY DEF CoinInv, CoinOK
<1>6. unreserved \in SUBSET Nat BY CycleAssumption DEF OrderId
<1>7. BookOK(b, held[c], live, filled, mine, unreserved) BY DEF BookInv
<1> HIDE DEF mine, filled, live
<1>8. r \in Book /\ r.of = b.of /\ BookOK(r, held[c], live, filled, mine, unreserved)
  BY <1>4, <1>5, <1>6, <1>7, BookReconciled
<1> HIDE DEF r
<1> QED BY <1>3, <1>8 DEF BookInv, mine, filled, live

(* CountInv is kept when trackers are loaded and reconciled.                  *)
LEMMA LoadStep ==
  ASSUME CountInv, NEW readable \in BOOLEAN, LoadTrackers(readable) PROVE CountInv'
<1>1. CycleTypeOK BY DEF CountInv
<1>2. /\ UNCHANGED <<orders, held, bookFile, seenHeld, seenPending, nowHeld, decided, claims, accepted, unreserved>>
      /\ cycleAt = "pending" /\ cycleAt' = "loaded"
      /\ \A c \in Coin : (book'[c] = NoBook /\ seenHeld[c] = {}) \/ book'[c] \in {ScaleReconciled(bookFile[c]), bookFile[c]}
      /\ book' = [c \in Coin |-> book'[c]]
  BY DEF LoadTrackers
<1>3. ASSUME NEW c \in Coin
      PROVE book'[c] \in Book /\ BookInv(book'[c], c) /\ OfWhatWasRead(book'[c], held[c], seenHeld[c])
  <2>1. /\ CoinInv(c) /\ BookInv(bookFile[c], c) /\ bookFile[c] \in Book /\ ReadInv(c)
        /\ unreserved \subseteq OrderId
    BY <1>1, <1>2, SetsOfOrders DEF CountInv, FileInv, StagesInv, CycleTypeOK
  <2>2. CASE book'[c] = NoBook /\ seenHeld[c] = {}
    <3>1. book'[c] = [NoBook EXCEPT !.of = 0] BY <2>2, NoBookIs
    <3>2. held[c] # {} => bookFile[c].of # Identity(held[c]) BY <2>1, <2>2 DEF ReadInv, OfWhatWasRead
    <3>3. /\ [NoBook EXCEPT !.of = 0] \in Book /\ [NoBook EXCEPT !.of = 0].of = 0 /\ BookInv([NoBook EXCEPT !.of = 0], c)
      BY <1>1, <2>1, <3>2, FreshBook
    <3>4. held[c] # {} => Identity(held[c]) # 0
      <4>1. held[c] \in SUBSET Nat /\ 0 \notin held[c]
        BY <1>1, SetsOfOrders, CycleAssumption DEF CycleTypeOK, OrderId
      <4> QED BY <4>1, IdentityIs
    <3> QED BY <3>1, <3>3, <3>4 DEF OfWhatWasRead
  <2>3. CASE book'[c] = ScaleReconciled(bookFile[c])
    BY <1>1, <2>1, <2>3, ReconciledKeeps DEF ReadInv, OfWhatWasRead
  <2>4. CASE book'[c] = bookFile[c] BY <2>1, <2>4 DEF ReadInv
  <2> QED BY <1>2, <2>2, <2>3, <2>4
<1>4. book' \in [Coin -> Book] BY <1>2, <1>3
<1>5. CycleTypeOK' BY <1>1, <1>2, <1>4 DEF CycleTypeOK
<1>6. \A c \in Coin : CopyInv(c)' BY <1>2, <1>3 DEF CopyInv, BookInv
<1>7. StagesInv' BY <1>2, <1>6 DEF CountInv, StagesInv, ReadInv
<1> QED BY <1>2, <1>5, <1>7, StandsStill

(* When they are managed and saved, and the window opens.                     *)
LEMMA WindowStep ==
  ASSUME CountInv, NEW adopting \in SUBSET Coin, OpenWindow(adopting) PROVE CountInv'
<1>1. CycleTypeOK BY DEF CountInv
<1>2. /\ UNCHANGED <<orders, held, seenHeld, seenPending, nowHeld, decided, claims, accepted, unreserved>>
      /\ cycleAt = "loaded" /\ cycleAt' = "window" /\ bookFile' = book'
      /\ book' = [c \in Coin |-> Managed(book[c], seenHeld[c], c \in adopting)]
  BY DEF OpenWindow
<1>3. ASSUME NEW c \in Coin
      PROVE /\ book'[c] \in Book /\ BookInv(book'[c], c)
            /\ seenHeld[c] # {} => book'[c].of \in {0, Identity(seenHeld[c])}
  <2>1. CoinInv(c) /\ CopyInv(c) /\ book[c] \in Book BY <1>1, <1>2, SetsOfOrders DEF CountInv, StagesInv
  <2> DEFINE adopts == c \in adopting
  <2>2. book'[c] = Managed(book[c], seenHeld[c], adopts) BY <1>2
  <2>3. adopts \in BOOLEAN OBVIOUS
  <2>4. seenHeld[c] \in SUBSET OrderId /\ seenHeld[c] \subseteq FilledOf(orders, c) BY <1>1, <2>1 DEF CycleTypeOK, CoinInv
  <2> HIDE DEF adopts
  <2>5. BookInv(book[c], c) /\ (held[c] # {} /\ book[c].of = Identity(held[c]) /\ seenHeld[c] # {} => Identity(seenHeld[c]) = book[c].of)
    BY <2>1 DEF CopyInv, OfWhatWasRead
  <2>6. /\ Managed(book[c], seenHeld[c], adopts) \in Book /\ BookInv(Managed(book[c], seenHeld[c], adopts), c)
        /\ seenHeld[c] # {} => Managed(book[c], seenHeld[c], adopts).of \in {0, Identity(seenHeld[c])}
    BY <1>1, <2>1, <2>3, <2>4, <2>5, ManagedKeeps
  <2> QED BY <2>2, <2>6
<1>4. CycleTypeOK'
  <2>1. book' = [c \in Coin |-> book'[c]] BY <1>2
  <2>2. book' \in [Coin -> Book] BY <1>3, <2>1
  <2> QED BY <1>1, <1>2, <2>2 DEF CycleTypeOK
<1>5. \A c \in Coin : CoinInv(c)' /\ FileInv(c)'
  BY <1>2, <1>3 DEF CountInv, CoinInv, FileInv, BookInv
<1>6. StagesInv' BY <1>2, <1>3 DEF StagesInv, SameInv
<1>7. WithinQuota' BY <1>2 DEF CountInv, WithinQuota, Occupied, LiveOn
<1> QED BY <1>2, <1>4, <1>5, <1>6, <1>7 DEF CountInv

(* When the reservation of a scale-in is written.                             *)
LEMMA ReserveStep ==
  ASSUME CountInv, ReserveScale PROVE CountInv'
<1>1. CycleTypeOK BY DEF CountInv
<1> DEFINE n == Len(orders)
           at == orders[n].coin
<1>2. /\ UNCHANGED <<orders, held, seenHeld, seenPending, nowHeld, decided, claims, accepted>>
      /\ cycleAt = "reserving" /\ cycleAt' = "deciding" /\ bookFile' = book'
      /\ IF book[at].of = 0 THEN book' = book /\ unreserved' = unreserved
         ELSE book' = [book EXCEPT ![at].orders = @ \cup {n}] /\ unreserved' = unreserved \ {n}
  BY DEF ReserveScale
<1>3. /\ book = bookFile /\ at \in Coin /\ n \in DOMAIN orders /\ ReservingInv(n, at)
      /\ \A c \in Coin : SeenInv(c) /\ SameInv(c)
  BY <1>2 DEF CountInv, StagesInv
<1>4. unreserved \in SUBSET Nat /\ n \in Nat BY <1>1, CycleAssumption DEF CycleTypeOK, OrderId
<1> HIDE DEF n, at
<1>5. ASSUME NEW c \in Coin
      PROVE /\ book'[c] \in Book /\ book'[c].of = book[c].of
            /\ BookOK(book'[c], held[c], LiveOf(orders, c), FilledOf(orders, c), OrdersOf(orders, c), unreserved')
  <2>1. /\ CoinOK(held[c], LiveOf(orders, c), FilledOf(orders, c), OrdersOf(orders, c)) /\ book[c] \in Book
        /\ BookOK(book[c], held[c], LiveOf(orders, c), FilledOf(orders, c), OrdersOf(orders, c), unreserved)
    BY <1>1, <1>3, SetsOfOrders DEF CountInv, CoinInv, FileInv, BookInv
  <2>2. /\ OrdersOf(orders, c) \in SUBSET Nat /\ FilledOf(orders, c) \in SUBSET OrdersOf(orders, c)
        /\ LiveOf(orders, c) \in SUBSET OrdersOf(orders, c) /\ OrdersOf(orders, c) \subseteq OrderId
    BY <1>1, SetsOfOrders
  <2>3. held[c] \in SUBSET FilledOf(orders, c) BY <2>1 DEF CoinOK
  <2>4. CASE book[at].of = 0 BY <1>2, <2>1, <2>4
  <2>5. CASE book[at].of # 0 /\ c # at
    <3>1. book'[c] = book[c] /\ unreserved' = unreserved \ {n} BY <1>1, <1>2, <2>5 DEF CycleTypeOK
    <3>2. n \notin OrdersOf(orders, c) BY <1>3, <2>5 DEF ReservingInv, OrdersOf
    <3>3. \A i \in OrdersOf(orders, c) : i \in unreserved <=> i \in unreserved' BY <3>1, <3>2
    <3>4. BookOK(book[c], held[c], LiveOf(orders, c), FilledOf(orders, c), OrdersOf(orders, c), unreserved')
      BY <2>1, <2>2, <2>3, <3>3, BookElsewhere
    <3> QED BY <2>1, <3>1, <3>4
  <2>6. CASE book[at].of # 0 /\ c = at
    <3> DEFINE r == [book[c] EXCEPT !.orders = @ \cup {n}]
    <3>1. book'[c] = r /\ unreserved' = unreserved \ {n} BY <1>1, <1>2, <2>6 DEF CycleTypeOK
    <3>2. /\ n \in OrdersOf(orders, c) /\ n \in unreserved /\ LiveOf(orders, c) \subseteq {n} /\ book[c].of # n /\ book[c].of # 0
          /\ (n \in FilledOf(orders, c) /\ held[c] # {} => n \in held[c])
          /\ (held[c] # {} /\ Identity(held[c]) # n => Identity(held[c]) = book[c].of)
      BY <1>3, <2>6 DEF ReservingInv
    <3>3. BookOK(r, held[c], LiveOf(orders, c), FilledOf(orders, c), OrdersOf(orders, c), unreserved \ {n})
      BY <1>4, <2>1, <2>2, <2>3, <3>2, BookReserved
    <3>4. r \in Book /\ r.of = book[c].of
      <4>1. n \in OrderId BY <2>2, <3>2
      <4> QED BY <2>1, <4>1 DEF Book
    <3> HIDE DEF r
    <3> QED BY <3>1, <3>3, <3>4
  <2> QED BY <2>4, <2>5, <2>6
<1>6. book' \in [Coin -> Book]
  <2>1. DOMAIN book' = Coin /\ book' = [c \in DOMAIN book' |-> book'[c]] BY <1>1, <1>2 DEF CycleTypeOK
  <2> QED BY <1>5, <2>1
<1>7. unreserved' \subseteq unreserved BY <1>2
<1>8. CycleTypeOK' BY <1>1, <1>2, <1>6, <1>7 DEF CycleTypeOK
<1>9. \A c \in Coin : CoinInv(c)' /\ FileInv(c)'
  BY <1>2, <1>5 DEF CountInv, CoinInv, FileInv, BookInv
<1>10. StagesInv'
  <2>1. \A c \in Coin : SameInv(c)' /\ SeenInv(c)' BY <1>2, <1>3, <1>5 DEF SameInv, SeenInv
  <2> QED BY <1>2, <2>1 DEF StagesInv
<1>11. WithinQuota' BY <1>2 DEF CountInv, WithinQuota, Occupied, LiveOn
<1>12. unreserved' \subseteq DOMAIN orders' BY <1>2, <1>7 DEF CountInv
<1> QED BY <1>8, <1>9, <1>10, <1>11, <1>12 DEF CountInv

-----------------------------------------------------------------------------
(* CountInv holds at first,                                                   *)
LEMMA CountStarts == ASSUME CycleInit PROVE CountInv
<1> USE CycleAssumption DEF CycleInit
<1>1. NoBook \in Book /\ NoBook.of = 0 /\ NoBook.orders = {} /\ NoBook.count = 0 BY DEF NoBook, Book
<1>2. DOMAIN orders = {} /\ orders \in Seq(Order) /\ Len(orders) = 0 OBVIOUS
<1>3. CycleTypeOK BY <1>1, <1>2 DEF CycleTypeOK, Flat, NonePending, NoBooks
<1>4. ASSUME NEW c \in Coin PROVE OrdersOf(orders, c) = {} /\ LiveOf(orders, c) = {} /\ FilledOf(orders, c) = {} /\ held[c] = {}
  BY <1>2 DEF OrdersOf, LiveOf, FilledOf, Flat
<1>5. ASSUME NEW c \in Coin PROVE CoinInv(c) BY <1>4 DEF CoinInv, CoinOK, Flat
<1>6. ASSUME NEW c \in Coin PROVE FileInv(c)
  <2>1. bookFile[c] = NoBook /\ unreserved = {} BY DEF NoBooks
  <2>2. Cardinality({}) = 0 BY FS_EmptySet
  <2>3. CountOK(NoBook, {}, {}, {}, {}, {}) BY <1>1, <2>2 DEF CountOK
  <2>4. BookOK(NoBook, {}, {}, {}, {}, {}) BY <1>1, <2>3 DEF BookOK
  <2> QED BY <1>4, <2>1, <2>4 DEF FileInv, BookInv
<1>7. WithinQuota
  <2>1. Occupied = {} BY <1>4, EngagedIs DEF Engaged
  <2>2. Cardinality({}) = 0 BY FS_EmptySet
  <2> QED BY <2>1, <2>2 DEF WithinQuota
<1>8. StagesInv BY DEF StagesInv
<1>9. unreserved \subseteq DOMAIN orders OBVIOUS
<1> QED BY <1>3, <1>5, <1>6, <1>7, <1>8, <1>9 DEF CountInv

(* every step keeps it,                                                       *)
LEMMA CountGoesOn == ASSUME CountInv, [CycleNext]_cycleVars PROVE CountInv'
<1>1. CASE UNCHANGED cycleVars
  <2>1. UNCHANGED <<orders, held, unreserved, bookFile, seenHeld, cycleAt, seenPending, book, nowHeld, decided, claims, accepted>>
    BY <1>1 DEF cycleVars
  <2>2. CycleTypeOK' BY <2>1 DEF CountInv, CycleTypeOK
  <2>3. StagesInv' BY <2>1 DEF CountInv, StagesInv, ReadInv, CopyInv, SameInv, SeenInv, ReservingInv, BookInv
  <2> QED BY <2>1, <2>2, <2>3, StandsStill
<1>2. ASSUME NEW i \in OrderId, Fill(i) PROVE CountInv' BY <1>2, FillStep
<1>3. ASSUME NEW c \in Coin, Exit(c) PROVE CountInv' BY <1>3, ExitStep
<1>4. ASSUME NEW c \in Coin, NEW s \in Side, MinuteEntry(c, s) PROVE CountInv' BY <1>4, MinuteStep
<1>5. ASSUME NEW c \in Coin, NEW s \in Side, EnterAccepted(c, s) PROVE CountInv' BY <1>5, EnterStep
<1>6. ASSUME NEW c \in Coin, NEW s \in Side, ScaleAccepted(c, s) PROVE CountInv' BY <1>6, ScaleStep
<1>7. ASSUME NEW c \in Coin, NEW s \in Side, ReplyLost(c, s) PROVE CountInv' BY <1>7, LostStep
<1>8. ASSUME NEW a \in SUBSET Coin, GuardRound(a) PROVE CountInv' BY <1>8, GuardStep
<1>9. ASSUME NEW a \in SUBSET Coin, OpenWindow(a) PROVE CountInv' BY <1>9, WindowStep
<1>10. ASSUME NEW stale \in SUBSET DOMAIN orders, NEW ok \in BOOLEAN, Sweep(stale, ok) PROVE CountInv' BY <1>10, SweepStep
<1>11. CASE QueryPositions BY <1>11, PositionsStep
<1>12. CASE QueryPending \/ Abort \/ CycleEnds BY <1>12, QuietStep
<1>13. ASSUME NEW b \in BOOLEAN, LoadTrackers(b) PROVE CountInv' BY <1>13, LoadStep
<1>14. ASSUME NEW b \in BOOLEAN, Answer(b) PROVE CountInv' BY <1>14, AnswerStep
<1>15. CASE ReserveScale BY <1>15, ReserveStep
<1> QED BY <1>1, <1>2, <1>3, <1>4, <1>5, <1>6, <1>7, <1>8, <1>9, <1>10, <1>11, <1>12, <1>13, <1>14, <1>15 DEF CycleNext

(* and it implies what the runs check.                                        *)
LEMMA CountShows == ASSUME CountInv PROVE CycleSafe
<1>1. CycleTypeOK /\ WithinQuota BY DEF CountInv
<1>2. EveryScaleFillOnce
  <2> SUFFICES ASSUME NEW c \in Coin, held[c] # {}, bookFile[c].of = Identity(held[c])
               PROVE LET scales == Scales(held[c])
                     IN bookFile[c].count + Cardinality(bookFile[c].orders \cap scales)
                          + Cardinality(unreserved \cap scales) = Cardinality(scales)
    BY DEF EveryScaleFillOnce, Scales
  <2>1. /\ OrdersOf(orders, c) \in SUBSET OrderId /\ FilledOf(orders, c) \in SUBSET OrdersOf(orders, c)
        /\ LiveOf(orders, c) \in SUBSET OrdersOf(orders, c) /\ bookFile[c] \in Book
    BY <1>1, SetsOfOrders
  <2>2. held[c] \in SUBSET FilledOf(orders, c) BY DEF CountInv, CoinInv, CoinOK
  <2>3. unreserved \in SUBSET Nat BY <1>1, CycleAssumption DEF CycleTypeOK, OrderId
  <2>4. BookOK(bookFile[c], held[c], LiveOf(orders, c), FilledOf(orders, c), OrdersOf(orders, c), unreserved)
    BY DEF CountInv, FileInv, BookInv
  <2>5. TellsTruth(bookFile[c], held[c], unreserved) BY <2>1, <2>2, <2>3, <2>4, BookCounts
  <2> QED BY <2>5 DEF TellsTruth
<1> QED BY <1>1, <1>2 DEF CycleSafe

(* A cycle never loses count of its slots and of its scale-ins, whatever fills, ends,   *)
(* crashes or is entered meanwhile (execute_portfolio, reconcile_scale_trackers).    *)
THEOREM CycleSafeTheorem == CycleSpec => []CycleSafe
<1>1. CycleInit => CountInv BY CountStarts
<1>2. CountInv /\ [CycleNext]_cycleVars => CountInv' BY CountGoesOn
<1>3. CountInv => CycleSafe BY CountShows
<1> QED BY <1>1, <1>2, <1>3, PTL DEF CycleSpec
-----------------------------------------------------------------------------
(* Losses, deposits and days. *)

(* The world: money there always is, and days in their order.                 *)
WorldOK ==
  /\ events \in Seq([trade : Int, transfer : Int, day : 0 .. MaxDay]) /\ Len(events) <= MaxEvents
  /\ today \in 0 .. MaxDay
  /\ \A t \in 0 .. Len(events) : EquityAt(t) > 0 /\ DayOf(t) <= today
  /\ \A s, t \in 0 .. Len(events) : s <= t => DayOf(s) <= DayOf(t)

(* The flows of the account's row are those since its origin.                 *)
CountedOK(row) ==
  /\ row \in AccountRow /\ row.at <= Len(events) /\ row.origin <= row.at
  /\ row.flows = Flow(row.origin, row.at) /\ row.drawdown.day <= today

(* An allocation is worth what it began with and what has been won since; it is  *)
(* blocked because it is used up, or by a loss of a day that has begun for it.    *)
WorthOK(row) ==
  /\ row \in AllocationRow /\ row.at <= Len(events) /\ row.origin <= row.at
  /\ row.nav = row.initial + EquityAt(row.at) - Flow(row.origin, row.at) - row.baseline
  /\ row.drawdown.day <= today
  /\ row.nav > 0 => /\ row.drawdown.blocked <=> Blocks(row.drawdown.anchor, row.nav)
                    /\ row.drawdown.blocked => row.drawdown.day <= DayOf(row.at)

EquityInv ==
  /\ EquityTypeOK /\ WorldOK
  /\ sawAt <= Len(events)
  /\ account # NoRow => CountedOK(account)
  /\ \A a \in Allocation : allocated[a] # NoRow => WorthOK(allocated[a])
  /\ \A a \in former : allocated[a] = NoRow
  /\ looking \in {"idle", "read"} => ~passed
  /\ passed => account # NoRow

-----------------------------------------------------------------------------
(* What the account has come to is a number at every time, and so is its equity. *)
LEMMA AfterTyped ==
  ASSUME WorldOK, NEW t \in 0 .. Len(events)
  PROVE  /\ After(t) \in [trade : Int, transfer : Int, day : 0 .. MaxDay]
         /\ EquityAt(t) \in Int /\ EquityAt(t) > 0
         /\ DayOf(t) \in 0 .. MaxDay /\ DayOf(t) <= today
         /\ \A s \in 0 .. Len(events) : /\ Flow(s, t) \in Int /\ Profit(s, t) \in Int
                                        /\ s <= t => DayOf(s) <= DayOf(t)
<1>1. \A s \in 0 .. Len(events) : After(s) \in [trade : Int, transfer : Int, day : 0 .. MaxDay]
  <2>1. [trade |-> 0, transfer |-> 0, day |-> 0] \in [trade : Int, transfer : Int, day : 0 .. MaxDay]
    BY EquityAssumption
  <2> DEFINE Total == [trade : Int, transfer : Int, day : 0 .. MaxDay]
  <2>2. \A s \in 1 .. Len(events) : events[s] \in Total
    <3>1. events \in Seq(Total)
      BY DEF WorldOK
    <3> HIDE DEF Total
    <3> QED  BY <3>1
  <2> QED  BY <2>1, <2>2 DEF After
<1>2. \A s \in 0 .. Len(events) :
        /\ After(s).trade \in Int /\ After(s).transfer \in Int /\ After(s).day \in 0 .. MaxDay
  BY <1>1
<1>3. EquityAt(t) \in Int
  BY <1>2, EquityAssumption DEF EquityAt
<1>4. EquityAt(t) > 0 /\ DayOf(t) <= today
  BY DEF WorldOK
<1>5. ASSUME NEW s \in 0 .. Len(events)
      PROVE  Flow(s, t) \in Int /\ Profit(s, t) \in Int
  BY <1>2 DEF Flow, Profit
<1>6. \A s \in 0 .. Len(events) : s <= t => DayOf(s) <= DayOf(t)
  BY DEF WorldOK
<1>7. DayOf(t) \in 0 .. MaxDay
  BY <1>2 DEF DayOf
<1> QED  BY <1>1, <1>3, <1>4, <1>5, <1>6, <1>7

(* The least of two numbers. *)
LEMMA LeastOfTwo ==
  ASSUME NEW x \in Int, NEW y \in Int
  PROVE  Min({x, y}) = IF x <= y THEN x ELSE y
<1> DEFINE m == IF x <= y THEN x ELSE y
<1>1. m \in {x, y} /\ (\A v \in {x, y} : m <= v)
      /\ \A u \in {x, y} : (\A v \in {x, y} : u <= v) => u = m
  OBVIOUS
<1> HIDE DEF m
<1>2. Min({x, y}) = m
  BY <1>1 DEF Min
<1> QED  BY <1>2 DEF m

(* The greatest of two numbers. *)
LEMMA GreatestOfTwo ==
  ASSUME NEW x \in Int, NEW y \in Int
  PROVE  Max({x, y}) = IF x >= y THEN x ELSE y
<1> DEFINE m == IF x >= y THEN x ELSE y
<1>1. m \in {x, y} /\ (\A v \in {x, y} : m >= v)
      /\ \A u \in {x, y} : (\A v \in {x, y} : u >= v) => u = m
  OBVIOUS
<1> HIDE DEF m
<1>2. Max({x, y}) = m
  BY <1>1 DEF Max
<1> QED  BY <1>2 DEF m

(* The least of three numbers. *)
LEMMA LeastOfThree ==
  ASSUME NEW x \in Int, NEW y \in Int, NEW z \in Int
  PROVE  Min({x, y, z}) = IF x <= y /\ x <= z THEN x ELSE IF y <= z THEN y ELSE z
<1> DEFINE m == IF x <= y /\ x <= z THEN x ELSE IF y <= z THEN y ELSE z
<1>1. m \in {x, y, z} /\ (\A v \in {x, y, z} : m <= v)
      /\ \A u \in {x, y, z} : (\A v \in {x, y, z} : u <= v) => u = m
  OBVIOUS
<1> HIDE DEF m
<1>2. Min({x, y, z}) = m
  BY <1>1 DEF Min
<1> QED  BY <1>2 DEF m

(* A greater loss blocks where a smaller one does. *)
LEMMA LossGrows ==
  ASSUME NEW anchor \in Nat, NEW high \in Int, NEW low \in Int, low <= high, Blocks(anchor, high)
  PROVE  Blocks(anchor, low)
<1> DEFINE x == anchor - high
           y == anchor - low
<1>1. x \in Int /\ y \in Int /\ x <= y /\ LimitPart \in Nat
  BY EquityAssumption
<1>2. x * LimitPart <= y * LimitPart
  <2> HIDE DEF x, y
  <2> QED  BY <1>1
<1>3. x * LimitPart >= anchor
  BY DEF Blocks, Loss
<1>4. x * LimitPart \in Int /\ y * LimitPart \in Int
  BY <1>1
<1> HIDE DEF x, y
<1>5. y * LimitPart >= anchor
  BY <1>2, <1>3, <1>4
<1> QED  BY <1>5 DEF Blocks, Loss, y

(* Nothing is lost at the anchor. *)
LEMMA NoLossNoBlock == ASSUME NEW x \in Int, x > 0 PROVE ~Blocks(x, x)
<1>1. x - x = 0 /\ 0 * LimitPart = 0
  BY EquityAssumption
<1> QED  BY <1>1 DEF Blocks, Loss

-----------------------------------------------------------------------------
(* The worth of an allocation that is brought up to date. *)
LEMMA AdvanceNav ==
  ASSUME WorldOK, NEW old \in {NoRow} \cup AllocationRow, old # NoRow => WorthOK(old),
         NEW row, CountedOK(row), NEW flat \in BOOLEAN, ~AdvanceRejects(old, row, flat)
  PROVE  LET new == Advance(old, row) IN
         /\ new.at = row.at /\ new.at \in 0 .. MaxEvents /\ new.at <= Len(events)
         /\ new.origin = row.origin /\ new.origin \in 0 .. MaxEvents /\ new.origin <= new.at
         /\ new.since \in 0 .. MaxEvents
         /\ new.initial \in 1 .. Budget /\ new.baseline \in Int /\ new.nav \in Int
         /\ new.risk \in 0 .. Budget
         /\ new.nav = new.initial + EquityAt(new.at) - Flow(new.origin, new.at) - new.baseline
         /\ old = NoRow => new.nav = new.initial
         /\ old # NoRow => /\ new.since = old.since /\ new.initial = old.initial /\ new.at >= old.at
                           /\ new.nav - old.nav = Profit(old.at, new.at)
<1> DEFINE equity == EquityAt(row.at)
           adjusted == equity - row.flows
           initial == IF old = NoRow THEN Min({Budget, equity}) ELSE old.initial
           baseline == IF old = NoRow THEN adjusted ELSE old.baseline
           nav == initial + adjusted - baseline
           new == Advance(old, row)
<1>1. /\ row.at \in 0 .. MaxEvents /\ row.at <= Len(events) /\ row.origin \in 0 .. MaxEvents
      /\ row.origin <= row.at /\ row.flows \in Int /\ row.flows = Flow(row.origin, row.at)
  BY DEF CountedOK, AccountRow
<1>2. row.at \in 0 .. Len(events) /\ row.origin \in 0 .. Len(events) /\ Len(events) \in Nat
  BY <1>1, EquityAssumption DEF WorldOK
<1>3. equity \in Int /\ equity > 0
  BY <1>2, AfterTyped
<1>4. initial \in 1 .. Budget
  <2>1. CASE old = NoRow
    BY <1>3, <2>1, LeastOfTwo, EquityAssumption
  <2>2. CASE old # NoRow
    BY <2>2 DEF AllocationRow
  <2> QED  BY <2>1, <2>2
<1>5. baseline \in Int /\ adjusted \in Int /\ nav \in Int
  BY <1>1, <1>3, <1>4, EquityAssumption DEF AllocationRow
<1>6. RiskEquity(nav, equity) \in 0 .. Budget
  <2> DEFINE least == Min({Budget, nav, equity})
  <2> HIDE DEF nav, equity
  <2>1. least = IF Budget <= nav /\ Budget <= equity THEN Budget ELSE IF nav <= equity THEN nav ELSE equity
    BY <1>3, <1>5, LeastOfThree, EquityAssumption
  <2> HIDE DEF least
  <2>2. least \in Int /\ least <= Budget
    BY <1>3, <1>5, <2>1, EquityAssumption
  <2>3. Max({0, least}) = IF 0 >= least THEN 0 ELSE least
    BY <2>2, GreatestOfTwo
  <2>4. Max({0, least}) \in 0 .. Budget
    BY <2>2, <2>3, EquityAssumption
  <2> QED  BY <2>4 DEF RiskEquity, least
<1>7. /\ new.at = row.at /\ new.origin = row.origin
      /\ new.since = (IF old = NoRow THEN row.at ELSE old.since)
      /\ new.initial = initial /\ new.baseline = baseline /\ new.nav = nav
      /\ new.risk = RiskEquity(nav, equity)
  BY DEF Advance
<1>8. new.since \in 0 .. MaxEvents
  BY <1>1, <1>7 DEF AllocationRow
<1> HIDE DEF new
<1>9. ASSUME old = NoRow PROVE nav = initial
  BY <1>3, <1>4, <1>5, <1>9, EquityAssumption
<1>10. ASSUME old # NoRow
       PROVE  new.initial = old.initial /\ new.at >= old.at /\ nav - old.nav = Profit(old.at, row.at)
  <2>1. row.at >= old.at /\ row.origin = old.origin
    BY <1>1, <1>10 DEF AdvanceRejects, AllocationRow
  <2>2. /\ old.nav = old.initial + EquityAt(old.at) - Flow(old.origin, old.at) - old.baseline
        /\ old.at \in 0 .. Len(events) /\ old.initial \in Int /\ old.baseline \in Int
    BY <1>2, <1>10, EquityAssumption DEF WorthOK, AllocationRow
  <2>3. /\ After(row.at).trade \in Int /\ After(row.at).transfer \in Int
        /\ After(old.at).trade \in Int /\ After(old.at).transfer \in Int
        /\ After(row.origin).transfer \in Int
    BY <1>2, <2>2, AfterTyped
  <2>4. nav = old.initial + (equity - row.flows) - old.baseline
    BY <1>10
  <2>5. nav - old.nav = (equity - row.flows) - (EquityAt(old.at) - Flow(old.origin, old.at))
    <3>1. EquityAt(old.at) \in Int /\ Flow(old.origin, old.at) \in Int
      BY <2>1, <2>2, <2>3, EquityAssumption DEF EquityAt, Flow
    <3> HIDE DEF equity, nav
    <3> QED  BY <1>1, <1>3, <1>5, <2>2, <2>4, <3>1
  <2>6. nav - old.nav = After(row.at).trade - After(old.at).trade
    <3> HIDE DEF nav
    <3>1. EquityAt(old.at) - Flow(old.origin, old.at) = Start + After(old.at).trade + After(row.origin).transfer
      BY <2>1, <2>3, EquityAssumption DEF EquityAt, Flow
    <3>2. equity - row.flows = Start + After(row.at).trade + After(row.origin).transfer
      BY <1>1, <2>3, EquityAssumption DEF EquityAt, Flow
    <3> HIDE DEF equity
    <3> QED  BY <2>3, <2>5, <3>1, <3>2, EquityAssumption
  <2> QED  BY <1>7, <1>10, <2>1, <2>6 DEF Profit
<1>11. nav = initial + equity - Flow(row.origin, row.at) - baseline
  <2> HIDE DEF equity, initial, baseline
  <2> QED  BY <1>1, <1>3, <1>4, <1>5, EquityAssumption
<1> HIDE DEF nav, initial, baseline
<1>12. new.nav = new.initial + EquityAt(new.at) - Flow(new.origin, new.at) - new.baseline
  BY <1>7, <1>11
<1>13. old # NoRow => new.since = old.since
  BY <1>7
<1> QED  BY <1>1, <1>2, <1>4, <1>5, <1>6, <1>7, <1>8, <1>9, <1>10, <1>12, <1>13 DEF new

(* Its block: a new day or a new allocation starts with its own worth, and a block *)
(* of the day that it is ends with a profit only.                              *)
LEMMA AdvanceDrawdown ==
  ASSUME WorldOK, NEW old \in {NoRow} \cup AllocationRow, old # NoRow => WorthOK(old),
         NEW row, CountedOK(row), NEW flat \in BOOLEAN, ~AdvanceRejects(old, row, flat)
  PROVE  LET new == Advance(old, row) IN
         /\ new.drawdown \in Drawdown /\ new.drawdown.day <= today
         /\ new.nav > 0 => /\ new.drawdown.blocked <=> Blocks(new.drawdown.anchor, new.nav)
                           /\ new.drawdown.blocked => new.drawdown.day <= DayOf(new.at)
         /\ old # NoRow /\ old.drawdown.blocked /\ ~new.drawdown.blocked /\ old.drawdown.day = today
              => Profit(old.at, new.at) > 0
<1> DEFINE new == Advance(old, row)
           nav == new.nav
           day == DayOf(row.at)
           drawdown == new.drawdown
           past == old.drawdown
<1>1. /\ new.at = row.at /\ nav \in Int /\ row.at \in 0 .. MaxEvents /\ row.at <= Len(events)
      /\ old = NoRow => nav = new.initial /\ new.initial \in 1 .. Budget
      /\ old # NoRow => nav - old.nav = Profit(old.at, row.at) /\ row.at >= old.at
  BY AdvanceNav
<1>2. drawdown = IF nav <= 0 THEN Depleted(old)
                 ELSE IF old # NoRow /\ old.at = row.at THEN Refresh(past, nav)
                 ELSE Update(IF old = NoRow THEN NoRow ELSE past, nav, 0, day)
  BY DEF Advance
<1>3. day \in 0 .. MaxDay /\ day <= today /\ today \in 0 .. MaxDay /\ Len(events) \in Nat
  BY <1>1, AfterTyped, EquityAssumption DEF WorldOK
<1>4. old # NoRow => /\ past \in Drawdown /\ past # NoRow /\ past.day <= today /\ old.nav \in Int
                     /\ past.anchor \in Nat /\ past.day \in 0 .. MaxDay /\ past.blocked \in BOOLEAN
                     /\ old.at \in 0 .. Len(events) /\ Profit(old.at, row.at) \in Int
                     /\ old.nav > 0 => /\ past.blocked <=> Blocks(past.anchor, old.nav)
                                       /\ past.blocked => past.day <= DayOf(old.at)
                     /\ DayOf(old.at) \in 0 .. MaxDay /\ DayOf(old.at) <= day
  <2>1. CASE old = NoRow
    BY <2>1
  <2>2. CASE old # NoRow
    <3>1. WorthOK(old) /\ old \in AllocationRow
      BY <2>2
    <3>2. past \in Drawdown /\ old.nav \in Int /\ old.at \in 0 .. Len(events)
      BY <1>3, <3>1 DEF AllocationRow, WorthOK
    <3>3. past # NoRow
      BY <3>2, EquityAssumption
    <3>4. past.anchor \in Nat /\ past.day \in 0 .. MaxDay /\ past.blocked \in BOOLEAN
      BY <3>2 DEF Drawdown
    <3>5. row.at \in 0 .. Len(events) /\ row.at >= old.at
      BY <1>1, <1>3, <2>2
    <3>6. Profit(old.at, row.at) \in Int /\ DayOf(old.at) \in 0 .. MaxDay /\ DayOf(old.at) <= day
      BY <3>2, <3>5, AfterTyped
    <3> HIDE DEF new
    <3> QED  BY <3>1, <3>2, <3>3, <3>4, <3>6 DEF WorthOK
  <2> QED  BY <2>1, <2>2
<1> HIDE DEF new, day
<1>5. CASE nav <= 0
  <2>1. CASE old = NoRow
    BY <1>1, <1>5, <2>1, EquityAssumption
  <2>2. CASE old # NoRow
    <3>1. drawdown = [past EXCEPT !.blocked = TRUE]
      BY <1>2, <1>5, <2>2 DEF Depleted
    <3>2. drawdown \in Drawdown /\ drawdown.day = past.day /\ drawdown.blocked
      BY <1>4, <2>2, <3>1 DEF Drawdown
    <3>3. drawdown.day <= today
      BY <1>4, <2>2, <3>2
    <3>4. ~(nav > 0)
      BY <1>1, <1>5
    <3> HIDE DEF nav
    <3> QED  BY <3>2, <3>3, <3>4 DEF new, nav
  <2> QED  BY <2>1, <2>2
<1>6. CASE nav > 0 /\ old # NoRow /\ old.at = row.at
  <2> DEFINE anchor == IF past.day = today THEN past.anchor ELSE nav
  <2>1. drawdown = [day |-> today, anchor |-> anchor, blocked |-> Blocks(anchor, nav)]
    BY <1>1, <1>2, <1>6 DEF Refresh
  <2>2. anchor \in Nat
    BY <1>1, <1>4, <1>6
  <2> HIDE DEF anchor, nav
  <2>3. drawdown \in Drawdown /\ drawdown.day = today /\ drawdown.anchor = anchor
        /\ drawdown.blocked = Blocks(anchor, nav)
    BY <1>3, <2>1, <2>2 DEF Drawdown, Blocks
  <2>4. Profit(old.at, row.at) = 0
    BY <1>1, <1>3, <1>4, <1>6, AfterTyped DEF Profit
  <2>5. nav = old.nav
    BY <1>1, <1>4, <1>6, <2>4
  <2>6. ASSUME drawdown.blocked PROVE past.day = today /\ past.blocked
    <3>1. Blocks(anchor, nav)
      BY <2>3, <2>6
    <3>2. past.day = today
      BY <1>1, <1>6, <3>1, NoLossNoBlock DEF anchor
    <3> QED  BY <1>4, <1>6, <2>5, <3>1, <3>2 DEF anchor
  <2>7. drawdown.blocked => drawdown.day <= DayOf(new.at)
    BY <1>1, <1>4, <1>6, <2>3, <2>5, <2>6
  <2>8. ASSUME past.blocked, past.day = today PROVE drawdown.blocked
    BY <1>4, <1>6, <2>3, <2>5, <2>8 DEF anchor
  <2> QED  BY <1>3, <2>3, <2>7, <2>8 DEF new, nav
<1>7. CASE nav > 0 /\ ~(old # NoRow /\ old.at = row.at)
  <2> DEFINE anchor == IF old # NoRow /\ past.day = day THEN past.anchor ELSE nav
  <2>1. drawdown = [day |-> day, anchor |-> anchor, blocked |-> Blocks(anchor, nav)]
    <3>1. CASE old = NoRow
      BY <1>1, <1>2, <1>7, <3>1 DEF Update
    <3>2. CASE old # NoRow
      <4>1. drawdown = Update(past, nav, 0, day)
        BY <1>1, <1>2, <1>7, <3>2
      <4>2. past # NoRow /\ past.anchor + 0 = past.anchor
        BY <1>4, <3>2
      <4> QED  BY <3>2, <4>1, <4>2 DEF Update
    <3> QED  BY <3>1, <3>2
  <2>2. anchor \in Nat
    BY <1>1, <1>4, <1>7
  <2> HIDE DEF anchor, nav
  <2>3. drawdown \in Drawdown /\ drawdown.day = day /\ drawdown.anchor = anchor
        /\ drawdown.blocked = Blocks(anchor, nav)
    BY <1>3, <2>1, <2>2 DEF Drawdown, Blocks
  <2>4. drawdown.day <= DayOf(new.at)
    BY <1>1, <1>3, <2>3 DEF day
  <2>5. ASSUME old # NoRow, past.blocked, ~drawdown.blocked, past.day = today
        PROVE  Profit(old.at, new.at) > 0
    <3>1. CASE old.nav <= 0
      BY <1>1, <1>4, <1>7, <2>5, <3>1
    <3>2. CASE old.nav > 0
      <4>1. past.day = day /\ Blocks(past.anchor, old.nav)
        BY <1>3, <1>4, <2>5, <3>2
      <4>2. ~Blocks(past.anchor, nav)
        BY <2>3, <2>5, <4>1 DEF anchor
      <4>3. ~(nav <= old.nav)
        BY <1>1, <1>4, <2>5, <4>1, <4>2, LossGrows
      <4> QED  BY <1>1, <1>4, <2>5, <4>3
    <3> QED  BY <1>4, <2>5, <3>1, <3>2
  <2> QED  BY <1>3, <2>3, <2>4, <2>5 DEF new, nav
<1> QED  BY <1>1, <1>5, <1>6, <1>7

-----------------------------------------------------------------------------
(* What follows from the numbers of an allocation that was brought up to date. *)
LEMMA AdvanceOK ==
  ASSUME WorldOK, NEW old \in {NoRow} \cup AllocationRow, old # NoRow => WorthOK(old),
         NEW row, CountedOK(row), NEW flat \in BOOLEAN, ~AdvanceRejects(old, row, flat)
  PROVE  LET new == Advance(old, row) IN
         /\ new \in AllocationRow /\ WorthOK(new) /\ new # NoRow
         /\ old # NoRow => /\ new.since = old.since /\ new.initial = old.initial /\ new.at >= old.at
                           /\ old.drawdown.blocked /\ ~new.drawdown.blocked /\ old.drawdown.day = today
                                => Profit(old.at, new.at) > 0
<1> DEFINE new == Advance(old, row)
<1>1. /\ new.at = row.at /\ new.at \in 0 .. MaxEvents /\ new.at <= Len(events)
      /\ new.origin = row.origin /\ new.origin \in 0 .. MaxEvents /\ new.origin <= new.at
      /\ new.since \in 0 .. MaxEvents
      /\ new.initial \in 1 .. Budget /\ new.baseline \in Int /\ new.nav \in Int
      /\ new.risk \in 0 .. Budget
      /\ new.nav = new.initial + EquityAt(new.at) - Flow(new.origin, new.at) - new.baseline
      /\ old # NoRow => new.since = old.since /\ new.initial = old.initial /\ new.at >= old.at
  BY AdvanceNav
<1>2. /\ new.drawdown \in Drawdown /\ new.drawdown.day <= today
      /\ new.nav > 0 => /\ new.drawdown.blocked <=> Blocks(new.drawdown.anchor, new.nav)
                        /\ new.drawdown.blocked => new.drawdown.day <= DayOf(new.at)
      /\ old # NoRow /\ old.drawdown.blocked /\ ~new.drawdown.blocked /\ old.drawdown.day = today
           => Profit(old.at, new.at) > 0
  BY AdvanceDrawdown
<1>3. new = [at |-> new.at, origin |-> new.origin, since |-> new.since, initial |-> new.initial,
             baseline |-> new.baseline, nav |-> new.nav, risk |-> new.risk, drawdown |-> new.drawdown]
  BY DEF Advance
<1> HIDE DEF new
<1>4. new \in AllocationRow
  BY <1>1, <1>2, <1>3 DEF AllocationRow
<1>5. new # NoRow
  BY <1>4, EquityAssumption
<1>6. WorthOK(new)
  BY <1>1, <1>2, <1>4 DEF WorthOK
<1> QED  BY <1>1, <1>2, <1>4, <1>5, <1>6 DEF new

(* The row of the account, brought up to date with its complete bills. *)
LEMMA GuardOK ==
  ASSUME WorldOK, account \in {NoRow} \cup AccountRow, account # NoRow => CountedOK(account),
         sawAt \in 0 .. MaxEvents, sawAt <= Len(events),
         NEW complete \in BOOLEAN, GuardEquity(complete)
  PROVE  /\ account' = account \/ (account' # NoRow /\ CountedOK(account'))
         /\ passed' \in BOOLEAN /\ (passed' => account' # NoRow)
<1> DEFINE old == account
           known == old # NoRow
           equity == EquityAt(sawAt)
           flow == IF known THEN Flow(old.at, sawAt) ELSE 0
           drawdown == IF ~known THEN Update(NoRow, equity, 0, DayOf(sawAt))
                       ELSE IF sawAt = old.at THEN Refresh(old.drawdown, equity)
                       ELSE Update(old.drawdown, equity, flow, DayOf(sawAt))
           refused == known /\ (sawAt < old.at \/ (sawAt > old.at /\ ~complete) \/ drawdown.anchor <= 0)
           new == [at |-> sawAt, drawdown |-> drawdown, flows |-> FlowTotal(old, flow),
                   origin |-> IF known THEN old.origin ELSE sawAt]
<1>1. IF refused THEN passed' = FALSE /\ UNCHANGED account
      ELSE account' = new /\ passed' = ~drawdown.blocked
  BY DEF GuardEquity
<1>2. /\ sawAt \in 0 .. Len(events) /\ equity \in Int /\ equity > 0 /\ Len(events) \in Nat
      /\ DayOf(sawAt) \in 0 .. MaxDay /\ DayOf(sawAt) <= today /\ today \in 0 .. MaxDay
  BY AfterTyped DEF WorldOK
<1>3. known => /\ old.at \in 0 .. Len(events) /\ old.origin \in 0 .. Len(events) /\ old.origin <= old.at
               /\ old.origin \in 0 .. MaxEvents
               /\ old.flows = Flow(old.origin, old.at) /\ old.flows \in Int
               /\ old.drawdown \in Drawdown /\ old.drawdown.anchor \in Nat
               /\ old.drawdown.day <= today
  BY <1>2 DEF CountedOK, AccountRow, Drawdown
<1>4. flow \in Int
  <2>1. \A s \in 0 .. Len(events) : Flow(s, sawAt) \in Int
    BY <1>2, AfterTyped
  <2> QED  BY <1>3, <2>1
<1>5. FlowTotal(old, flow) \in Int /\ FlowTotal(old, flow) = Flow(new.origin, sawAt)
  <2>1. CASE ~known
    <3>1. Flow(sawAt, sawAt) = 0
      BY <1>2, AfterTyped DEF Flow
    <3> QED  BY <2>1, <3>1 DEF FlowTotal
  <2>2. CASE known
    <3>1. /\ After(old.at).transfer \in Int /\ After(sawAt).transfer \in Int
          /\ After(old.origin).transfer \in Int
      BY <1>2, <1>3, <2>2, AfterTyped
    <3>2. FlowTotal(old, flow) = Flow(old.origin, old.at) + Flow(old.at, sawAt)
      BY <1>3, <2>2 DEF FlowTotal
    <3>3. Flow(old.origin, old.at) + Flow(old.at, sawAt) = Flow(old.origin, sawAt)
      BY <3>1 DEF Flow
    <3>4. Flow(old.origin, sawAt) \in Int
      BY <3>1 DEF Flow
    <3> QED  BY <2>2, <3>2, <3>3, <3>4
  <2> QED  BY <2>1, <2>2
<1>6. drawdown.anchor \in Int /\ (~known => drawdown.anchor > 0)
      /\ drawdown.day \in 0 .. MaxDay /\ drawdown.day <= today
      /\ drawdown.blocked \in BOOLEAN
      /\ drawdown = [day |-> drawdown.day, anchor |-> drawdown.anchor, blocked |-> drawdown.blocked]
  <2>1. CASE ~known
    BY <1>2, <2>1 DEF Update, Blocks
  <2>2. CASE known /\ sawAt = old.at
    <3>1. drawdown = Refresh(old.drawdown, equity)
      BY <2>2
    <3> HIDE DEF drawdown, equity
    <3> QED  BY <1>2, <1>3, <2>2, <3>1 DEF Refresh, Blocks
  <2>3. CASE known /\ sawAt # old.at
    <3>1. drawdown = Update(old.drawdown, equity, flow, DayOf(sawAt))
      BY <2>3
    <3> HIDE DEF drawdown, equity, flow
    <3> QED  BY <1>2, <1>3, <1>4, <2>3, <3>1 DEF Update, Blocks
  <2> QED  BY <2>1, <2>2, <2>3
<1> HIDE DEF drawdown, equity, flow
<1>7. CASE refused
  BY <1>1, <1>7
<1>8. CASE ~refused
  <2>1. drawdown \in Drawdown
    BY <1>6, <1>8 DEF Drawdown
  <2>2. (IF known THEN old.origin ELSE sawAt) \in 0 .. MaxEvents
        /\ (IF known THEN old.origin ELSE sawAt) <= sawAt
    BY <1>2, <1>3, <1>8
  <2>3. new \in AccountRow /\ new.at = sawAt /\ new.drawdown = drawdown /\ new.flows = FlowTotal(old, flow)
        /\ new.origin = (IF known THEN old.origin ELSE sawAt)
    BY <1>5, <2>1, <2>2 DEF AccountRow
  <2>4. CountedOK(new)
    <3> HIDE DEF new
    <3> QED  BY <1>2, <1>5, <1>6, <2>2, <2>3 DEF CountedOK
  <2>5. new # NoRow
    BY <2>3, EquityAssumption
  <2> HIDE DEF new
  <2> QED  BY <1>1, <1>6, <1>8, <2>4, <2>5
<1> QED  BY <1>7, <1>8

-----------------------------------------------------------------------------
(* Rows stay true while the account and the days go on. *)
LEMMA RowsStay ==
  ASSUME Len(events) \in Nat, Len(events) <= Len(events'), today <= today', today \in Nat, today' \in Nat,
         \A t \in 0 .. Len(events) : (After(t))' = After(t), Len(events') \in Nat
  PROVE  /\ \A row : CountedOK(row) => (CountedOK(row))'
         /\ \A row : WorthOK(row) => (WorthOK(row))'
<1>1. ASSUME NEW row, CountedOK(row) PROVE (CountedOK(row))'
  <2>1. row.at \in 0 .. Len(events) /\ row.origin \in 0 .. Len(events) /\ row.drawdown.day \in Nat
    BY <1>1, EquityAssumption DEF CountedOK, AccountRow, Drawdown
  <2> QED  BY <1>1, <2>1 DEF CountedOK, Flow
<1>2. ASSUME NEW row, WorthOK(row) PROVE (WorthOK(row))'
  <2>1. row.at \in 0 .. Len(events) /\ row.origin \in 0 .. Len(events) /\ row.drawdown.day \in Nat
    BY <1>2, EquityAssumption DEF WorthOK, AllocationRow, Drawdown
  <2>2. (EquityAt(row.at))' = EquityAt(row.at) /\ (DayOf(row.at))' = DayOf(row.at)
        /\ (Flow(row.origin, row.at))' = Flow(row.origin, row.at)
    BY <2>1 DEF EquityAt, DayOf, Flow
  <2> QED  BY <1>2, <2>1, <2>2 DEF WorthOK
<1> QED  BY <1>1, <1>2

(* Nothing has happened, and nothing is known. *)
LEMMA EquityAtFirst == EquityInit => EquityInv
<1> SUFFICES ASSUME EquityInit PROVE EquityInv
  OBVIOUS
<1>1. /\ events = <<>> /\ today = 0 /\ former = {} /\ account = NoRow
      /\ allocated = [a \in Allocation |-> NoRow]
      /\ looking = "idle" /\ sawAt = 0 /\ passed = FALSE
  BY DEF EquityInit
<1>2. Len(events) = 0 /\ \A t \in 0 .. Len(events) : t = 0
  BY <1>1
<1>3. WorldOK
  BY <1>1, <1>2, EquityAssumption DEF WorldOK, EquityAt, DayOf, After
<1>4. EquityTypeOK
  <2>1. events \in Seq([trade : Int, transfer : Int, day : 0 .. MaxDay])
    BY <1>1
  <2>2. allocated \in [Allocation -> {NoRow} \cup AllocationRow] /\ account \in {NoRow} \cup AccountRow
    BY <1>1
  <2>3. today \in 0 .. MaxDay /\ sawAt \in 0 .. MaxEvents
    BY <1>1, EquityAssumption
  <2> QED  BY <1>1, <2>1, <2>2, <2>3 DEF EquityTypeOK
<1> QED  BY <1>1, <1>2, <1>3, <1>4 DEF EquityInv

(* Something happens to the account. *)
LEMMA HappenStays ==
  ASSUME EquityInv, NEW trade \in Int, NEW transfer \in Int, Happen(trade, transfer)
  PROVE  EquityInv'
<1> DEFINE total == After(Len(events))
           e == [trade |-> total.trade + trade, transfer |-> total.transfer + transfer, day |-> today]
           Total == [trade : Int, transfer : Int, day : 0 .. MaxDay]
<1>1. /\ WorldOK /\ EquityTypeOK /\ Len(events) \in Nat /\ events \in Seq(Total)
      /\ total.trade \in Int /\ total.transfer \in Int /\ today \in 0 .. MaxDay
  <2>1. WorldOK /\ EquityTypeOK
    BY DEF EquityInv
  <2>2. events \in Seq(Total)
    BY <2>1 DEF WorldOK
  <2>3. Len(events) \in 0 .. Len(events) /\ Len(events) \in Nat
    BY <2>2
  <2>4. total \in Total
    BY <2>1, <2>3, AfterTyped
  <2> QED  BY <2>1, <2>2, <2>3, <2>4 DEF WorldOK
<1>2. /\ Len(events) < MaxEvents /\ EquityAt(Len(events)) + trade + transfer > 0
      /\ events' = Append(events, e)
      /\ UNCHANGED <<today, account, allocated, former, looking, sawAt, passed>>
  BY DEF Happen
<1>3. e \in Total /\ e.trade = total.trade + trade /\ e.transfer = total.transfer + transfer /\ e.day = today
  BY <1>1
<1> HIDE DEF e, Total
<1>a. PICK n \in Nat : n = Len(events)
  BY <1>1
<1>4. /\ events' \in Seq(Total) /\ Len(events') = Len(events) + 1 /\ events'[Len(events) + 1] = e
      /\ \A t \in 1 .. Len(events) : events'[t] = events[t]
  BY <1>1, <1>2, <1>3
<1>5. /\ \A t \in 0 .. Len(events) : (After(t))' = After(t)
      /\ (After(n + 1))' = e
  <2>1. ASSUME NEW t \in 0 .. Len(events) PROVE (After(t))' = After(t)
    <3>1. CASE t = 0
      BY <3>1 DEF After
    <3>2. CASE t # 0
      <4>1. t \in 1 .. Len(events)
        BY <1>1, <3>2
      <4> QED  BY <1>4, <3>2, <4>1 DEF After
    <3> QED  BY <3>1, <3>2
  <2>2. (After(n + 1))' = e
    <3>1. n + 1 # 0 /\ n + 1 = Len(events) + 1
      BY <1>a
    <3> QED  BY <1>4, <3>1 DEF After
  <2> QED  BY <2>1, <2>2
<1>6. /\ \A t \in 0 .. Len(events) : (EquityAt(t))' = EquityAt(t) /\ (DayOf(t))' = DayOf(t)
      /\ (DayOf(n + 1))' = today /\ (EquityAt(n + 1))' > 0
  <2>1. \A t \in 0 .. Len(events) : (EquityAt(t))' = EquityAt(t) /\ (DayOf(t))' = DayOf(t)
    BY <1>5 DEF EquityAt, DayOf
  <2>2. (DayOf(n + 1))' = today
    BY <1>3, <1>5 DEF DayOf
  <2>3. (EquityAt(n + 1))' = Start + (total.trade + trade) + (total.transfer + transfer)
    BY <1>3, <1>5 DEF EquityAt
  <2>4. EquityAt(Len(events)) = Start + total.trade + total.transfer
    BY DEF EquityAt
  <2>5. (EquityAt(n + 1))' = EquityAt(Len(events)) + trade + transfer
    <3> HIDE DEF total
    <3> QED  BY <1>1, <2>3, <2>4, EquityAssumption
  <2> QED  BY <1>2, <2>1, <2>2, <2>5
<1>7. 0 .. Len(events') = (0 .. Len(events)) \cup {n + 1}
  BY <1>1, <1>4, <1>a
<1>8. WorldOK'
  <2>1. \A t \in 0 .. Len(events') : (EquityAt(t))' > 0 /\ (DayOf(t))' <= today'
    <3> SUFFICES ASSUME NEW t \in 0 .. Len(events') PROVE (EquityAt(t))' > 0 /\ (DayOf(t))' <= today'
      OBVIOUS
    <3>1. CASE t \in 0 .. Len(events)
      <4>1. EquityAt(t) > 0 /\ DayOf(t) <= today
        BY <1>1, <3>1 DEF WorldOK
      <4> QED  BY <1>2, <1>6, <3>1, <4>1
    <3>2. CASE t = n + 1
      BY <1>1, <1>2, <1>6, <3>2
    <3> QED  BY <1>7, <3>1, <3>2
  <2>2. \A s, t \in 0 .. Len(events') : s <= t => (DayOf(s))' <= (DayOf(t))'
    <3> SUFFICES ASSUME NEW s \in 0 .. Len(events'), NEW t \in 0 .. Len(events'), s <= t
                 PROVE  (DayOf(s))' <= (DayOf(t))'
      OBVIOUS
    <3>1. CASE t \in 0 .. Len(events)
      <4>1. s \in 0 .. Len(events)
        BY <1>4, <3>1
      <4>2. DayOf(s) <= DayOf(t)
        BY <1>1, <3>1, <4>1 DEF WorldOK
      <4> QED  BY <1>6, <3>1, <4>1, <4>2
    <3>2. CASE t = n + 1 /\ s \in 0 .. Len(events)
      <4>1. DayOf(s) <= today
        BY <1>1, <3>2 DEF WorldOK
      <4> QED  BY <1>6, <3>2, <4>1
    <3>3. CASE t = n + 1 /\ s = n + 1
      BY <1>1, <1>6, <3>3
    <3> QED  BY <1>7, <3>1, <3>2, <3>3
  <2>3. Len(events') <= MaxEvents
    BY <1>1, <1>2, <1>4, EquityAssumption
  <2> QED  BY <1>1, <1>2, <1>4, <2>1, <2>2, <2>3 DEF WorldOK, Total
<1>9. /\ \A row : CountedOK(row) => (CountedOK(row))'
      /\ \A row : WorthOK(row) => (WorthOK(row))'
  BY <1>1, <1>2, <1>4, <1>5, EquityAssumption, RowsStay
<1>10. EquityTypeOK'
  BY <1>1, <1>2, <1>4 DEF EquityTypeOK, Total
<1>11. sawAt' <= Len(events')
  BY <1>1, <1>2, <1>4, EquityAssumption DEF EquityInv, EquityTypeOK
<1> QED  BY <1>2, <1>8, <1>9, <1>10, <1>11 DEF EquityInv

(* What a step does to an allocation: it goes on, and a block of today ends with a *)
(* profit only.                                                              *)
Continues(a) ==
  /\ a \in former' => allocated'[a] = NoRow
  /\ allocated[a] # NoRow /\ a \notin former' =>
       /\ allocated'[a] # NoRow /\ allocated'[a].since = allocated[a].since
       /\ allocated'[a].initial = allocated[a].initial /\ allocated'[a].at >= allocated[a].at
Unblocked(a) ==
  allocated[a] # NoRow /\ allocated'[a] # NoRow /\ allocated[a].drawdown.blocked
    /\ ~allocated'[a].drawdown.blocked /\ allocated[a].drawdown.day = today
      => Profit(allocated[a].at, allocated'[a].at) > 0

(* An allocation that is not written goes on. *)
LEMMA UntouchedGoesOn ==
  ASSUME EquityInv, NEW a \in Allocation, allocated'[a] = allocated[a], a \in former' => a \in former
  PROVE  Continues(a) /\ Unblocked(a)
<1>1. allocated[a] # NoRow => allocated[a].at \in Nat
  BY EquityAssumption DEF EquityInv, EquityTypeOK, AllocationRow
<1>2. a \in former => allocated[a] = NoRow
  BY DEF EquityInv
<1> QED  BY <1>1, <1>2 DEF Continues, Unblocked

(* An allocation brought up to date with the account's row keeps the invariant. *)
LEMMA SaveStays ==
  ASSUME EquityInv, NEW a \in Allocation, NEW flat \in BOOLEAN, account # NoRow,
         allocated[a] = NoRow => a \notin former,
         ~AdvanceRejects(allocated[a], account, flat),
         Saved(a, Advance(allocated[a], account)),
         UNCHANGED <<world, account, former, sawAt>>
  PROVE  /\ allocated' \in [Allocation -> {NoRow} \cup AllocationRow]
         /\ \A b \in Allocation : allocated'[b] # NoRow => (WorthOK(allocated[b]))'
         /\ \A b \in former' : allocated'[b] = NoRow
         /\ \A b \in Allocation : Continues(b) /\ Unblocked(b)
         /\ allocated'[a].drawdown.blocked \in BOOLEAN
<1> DEFINE new == Advance(allocated[a], account)
           old == allocated[a]
<1>1. /\ WorldOK /\ CountedOK(account) /\ allocated \in [Allocation -> {NoRow} \cup AllocationRow]
      /\ \A b \in Allocation : allocated[b] # NoRow => WorthOK(allocated[b])
      /\ \A b \in former : allocated[b] = NoRow
      /\ former \subseteq Allocation
  BY DEF EquityInv, EquityTypeOK
<1>2. UNCHANGED <<events, today, account, former>> /\ allocated' = [allocated EXCEPT ![a] = new]
  BY DEF Saved, world
<1>3. /\ new \in AllocationRow /\ WorthOK(new) /\ new # NoRow
      /\ old # NoRow => /\ new.since = old.since /\ new.initial = old.initial /\ new.at >= old.at
                        /\ old.drawdown.blocked /\ ~new.drawdown.blocked /\ old.drawdown.day = today
                             => Profit(old.at, new.at) > 0
  BY <1>1, AdvanceOK
<1> HIDE DEF new
<1>4. allocated'[a] = new /\ (\A b \in Allocation \ {a} : allocated'[b] = allocated[b])
      /\ allocated' \in [Allocation -> {NoRow} \cup AllocationRow]
  BY <1>1, <1>2, <1>3
<1>5. a \notin former
  BY <1>1, <1>3
<1>6. \A row : WorthOK(row) => (WorthOK(row))'
  <2>1. /\ Len(events) \in Nat /\ Len(events) <= Len(events') /\ today <= today' /\ today \in Nat
        /\ today' \in Nat /\ Len(events') \in Nat
    BY <1>1, <1>2, EquityAssumption DEF WorldOK
  <2>2. \A t \in 0 .. Len(events) : (After(t))' = After(t)
    BY <1>2 DEF After
  <2> QED  BY <2>1, <2>2, RowsStay
<1>7. ASSUME NEW b \in Allocation, allocated'[b] # NoRow PROVE (WorthOK(allocated[b]))'
  <2>1. WorthOK(allocated'[b])
    BY <1>1, <1>3, <1>4, <1>7
  <2> QED  BY <1>2, <2>1 DEF WorthOK, EquityAt, DayOf, Flow, After
<1>8. ASSUME NEW b \in Allocation PROVE Continues(b) /\ Unblocked(b)
  <2>1. CASE b = a
    BY <1>2, <1>3, <1>4, <1>5, <2>1 DEF Continues, Unblocked
  <2>2. CASE b # a
    BY <1>2, <1>4, <2>2, UntouchedGoesOn
  <2> QED  BY <2>1, <2>2
<1>9. new.drawdown.blocked \in BOOLEAN
  BY <1>3 DEF AllocationRow, Drawdown
<1> QED  BY <1>1, <1>2, <1>3, <1>4, <1>5, <1>7, <1>8, <1>9

(* Every step keeps the invariant, and every allocation goes on. *)
LEMMA EquityStays ==
  ASSUME EquityInv, [EquityNext]_equityVars
  PROVE  EquityInv' /\ \A a \in Allocation : Continues(a) /\ Unblocked(a)
<1>0. /\ EquityTypeOK /\ WorldOK /\ sawAt <= Len(events) /\ Len(events) \in Nat
      /\ looking \in {"idle", "read", "accounted", "pooled", "observed", "admitted", "done"}
      /\ former \subseteq Allocation /\ passed \in BOOLEAN /\ sawAt \in 0 .. MaxEvents
      /\ account \in {NoRow} \cup AccountRow
      /\ account # NoRow => CountedOK(account)
  BY DEF EquityInv, EquityTypeOK
<1>a. ASSUME UNCHANGED <<allocated, former>> PROVE \A a \in Allocation : Continues(a) /\ Unblocked(a)
  BY <1>a, UntouchedGoesOn
(* Nothing but the observation moves. *)
<1>b. ASSUME UNCHANGED <<world, account, allocated, former>>, sawAt' \in 0 .. MaxEvents, sawAt' <= Len(events),
             looking' \in {"idle", "read", "accounted", "pooled", "observed", "admitted", "done"},
             passed' \in BOOLEAN, looking' \in {"idle", "read"} => ~passed', passed' => passed
      PROVE  EquityInv'
  <2>1. UNCHANGED <<events, today>>
    BY <1>b DEF world
  <2>2. WorldOK'
    BY <1>0, <2>1 DEF WorldOK, EquityAt, DayOf, After
  <2>3. account' # NoRow => (CountedOK(account))'
    BY <1>0, <1>b, <2>1 DEF CountedOK, Flow, After
  <2>4. ASSUME NEW a \in Allocation, allocated'[a] # NoRow PROVE (WorthOK(allocated[a]))'
    BY <1>b, <2>1, <2>4 DEF EquityInv, WorthOK, EquityAt, DayOf, Flow, After
  <2>5. EquityTypeOK'
    BY <1>0, <1>b, <2>1 DEF EquityTypeOK
  <2> QED  BY <1>b, <2>1, <2>2, <2>3, <2>4, <2>5 DEF EquityInv
<1>1. CASE UNCHANGED equityVars
  <2>1. UNCHANGED <<world, account, allocated, former, looking, sawAt, passed>>
    BY <1>1 DEF equityVars
  <2>2. looking' \in {"idle", "read"} => ~passed'
    BY <2>1 DEF EquityInv
  <2> QED  BY <1>0, <1>a, <1>b, <2>1, <2>2
<1>2. CASE \E d \in {-1, 1} : Happen(d, 0) \/ Happen(0, d)
  <2>1. PICK d \in {-1, 1} : Happen(d, 0) \/ Happen(0, d)
    BY <1>2
  <2>2. EquityInv'
    BY <2>1, HappenStays
  <2>3. UNCHANGED <<allocated, former>>
    BY <2>1 DEF Happen
  <2> QED  BY <1>a, <2>2, <2>3
<1>3. CASE NewDay
  <2>1. /\ today < MaxDay /\ today' = today + 1 /\ today \in 0 .. MaxDay
        /\ UNCHANGED <<events, account, allocated, former, looking, sawAt, passed>>
    BY <1>0, <1>3 DEF NewDay, WorldOK
  <2>2. \A t \in 0 .. Len(events) : (After(t))' = After(t)
    BY <2>1 DEF After
  <2>3. /\ \A row : CountedOK(row) => (CountedOK(row))'
        /\ \A row : WorthOK(row) => (WorthOK(row))'
    BY <1>0, <2>1, <2>2, EquityAssumption, RowsStay
  <2>4. WorldOK'
    <3>1. ASSUME NEW t \in 0 .. Len(events') PROVE (EquityAt(t))' > 0 /\ (DayOf(t))' <= today'
      <4>1. EquityAt(t) > 0 /\ DayOf(t) \in 0 .. MaxDay /\ DayOf(t) <= today
        BY <1>0, <2>1, AfterTyped
      <4>2. (EquityAt(t))' = EquityAt(t) /\ (DayOf(t))' = DayOf(t)
        BY <2>1, <2>2 DEF EquityAt, DayOf
      <4> QED  BY <2>1, <4>1, <4>2, EquityAssumption
    <3>2. ASSUME NEW s \in 0 .. Len(events'), NEW t \in 0 .. Len(events'), s <= t
          PROVE  (DayOf(s))' <= (DayOf(t))'
      <4>1. DayOf(s) <= DayOf(t)
        BY <1>0, <2>1, <3>2 DEF WorldOK
      <4> QED  BY <2>1, <2>2, <4>1 DEF DayOf
    <3> QED  BY <1>0, <2>1, <3>1, <3>2, EquityAssumption DEF WorldOK
  <2>5. EquityTypeOK'
    BY <1>0, <2>1, EquityAssumption DEF EquityTypeOK
  <2>6. account' # NoRow => (CountedOK(account))'
    BY <1>0, <2>1, <2>3 DEF CountedOK, Flow, After
  <2>7. ASSUME NEW a \in Allocation, allocated'[a] # NoRow PROVE (WorthOK(allocated[a]))'
    <3>1. WorthOK(allocated[a])
      BY <2>1, <2>7 DEF EquityInv
    <3> QED  BY <2>1, <2>3, <3>1 DEF WorthOK, EquityAt, DayOf, Flow, After
  <2>8. EquityInv'
    BY <2>1, <2>4, <2>5, <2>6, <2>7 DEF EquityInv
  <2> QED  BY <1>a, <2>1, <2>8
(* An allocation is saved. *)
<1>c. ASSUME NEW a \in Allocation, NEW flat \in BOOLEAN, account # NoRow,
             allocated[a] = NoRow => a \notin former,
             ~AdvanceRejects(allocated[a], account, flat),
             Saved(a, Advance(allocated[a], account)),
             UNCHANGED <<world, account, former, sawAt>>,
             looking' \in {"pooled", "observed", "admitted", "done"},
             allocated'[a].drawdown.blocked \in BOOLEAN => passed' \in BOOLEAN
      PROVE  EquityInv' /\ \A b \in Allocation : Continues(b) /\ Unblocked(b)
  <2>1. /\ allocated' \in [Allocation -> {NoRow} \cup AllocationRow]
        /\ \A b \in Allocation : allocated'[b] # NoRow => (WorthOK(allocated[b]))'
        /\ \A b \in former' : allocated'[b] = NoRow
        /\ \A b \in Allocation : Continues(b) /\ Unblocked(b)
        /\ allocated'[a].drawdown.blocked \in BOOLEAN
    BY <1>c, SaveStays
  <2>2. UNCHANGED <<events, today, account, former, sawAt>>
    BY <1>c DEF world
  <2>3. WorldOK'
    BY <1>0, <2>2 DEF WorldOK, EquityAt, DayOf, After
  <2>4. (CountedOK(account))'
    BY <1>0, <1>c, <2>2 DEF CountedOK, Flow, After
  <2>5. EquityTypeOK'
    BY <1>0, <1>c, <2>1, <2>2 DEF EquityTypeOK
  <2> QED  BY <1>0, <1>c, <2>1, <2>2, <2>3, <2>4, <2>5 DEF EquityInv
<1>4. CASE Rotate
  <2>1. /\ looking = "idle" /\ ~passed
        /\ former' = former \cup {a \in Allocation : allocated[a] # NoRow}
        /\ account' = NoRow /\ allocated' = [a \in Allocation |-> NoRow]
        /\ UNCHANGED <<events, today, looking, sawAt, passed>>
    BY <1>4 DEF Rotate, EquityInv, world
  <2>2. WorldOK'
    BY <1>0, <2>1 DEF WorldOK, EquityAt, DayOf, After
  <2>3. EquityTypeOK'
    BY <1>0, <2>1 DEF EquityTypeOK
  <2>4. EquityInv'
    BY <1>0, <2>1, <2>2, <2>3 DEF EquityInv
  <2>5. \A a \in Allocation : Continues(a) /\ Unblocked(a)
    BY <2>1 DEF Continues, Unblocked
  <2> QED  BY <2>4, <2>5
<1>5. CASE \E n \in 0 .. MaxEvents : ReadBalance(n)
  <2>1. PICK n \in 0 .. MaxEvents : ReadBalance(n)
    BY <1>5
  <2>2. /\ looking = "idle" /\ looking' = "read" /\ sawAt' = n /\ n <= Len(events) /\ ~passed
        /\ UNCHANGED <<world, account, allocated, former, passed>>
    BY <1>0, <2>1 DEF ReadBalance, EquityInv
  <2>3. EquityInv'
    BY <1>0, <1>b, <2>2
  <2> QED  BY <1>a, <2>2, <2>3
<1>6. CASE \E b \in BOOLEAN : GuardEquity(b)
  <2>1. PICK b \in BOOLEAN : GuardEquity(b)
    BY <1>6
  <2>2. /\ account' = account \/ (account' # NoRow /\ CountedOK(account'))
        /\ passed' \in BOOLEAN /\ (passed' => account' # NoRow)
    BY <1>0, <2>1, GuardOK
  <2>3. looking' = "accounted" /\ UNCHANGED <<events, today, allocated, former, sawAt>>
    BY <2>1 DEF GuardEquity, world
  <2>4. WorldOK'
    BY <1>0, <2>3 DEF WorldOK, EquityAt, DayOf, After
  <2>5. account' \in {NoRow} \cup AccountRow /\ (account' # NoRow => CountedOK(account'))
    BY <1>0, <2>2 DEF CountedOK
  <2>6. account' # NoRow => (CountedOK(account))'
    BY <2>3, <2>5 DEF CountedOK, Flow, After
  <2>7. ASSUME NEW a \in Allocation, allocated'[a] # NoRow PROVE (WorthOK(allocated[a]))'
    BY <2>3, <2>7 DEF EquityInv, WorthOK, EquityAt, DayOf, Flow, After
  <2>8. EquityTypeOK'
    BY <1>0, <2>2, <2>3, <2>5 DEF EquityTypeOK
  <2>9. EquityInv'
    BY <2>2, <2>3, <2>4, <2>6, <2>7, <2>8 DEF EquityInv
  <2> QED  BY <1>a, <2>3, <2>9
<1>7. CASE ObservePool
  <2>1. /\ looking' = "pooled" /\ Observe("pool") /\ "pool" \in Allocation
        /\ passed' \in BOOLEAN /\ (passed' => passed)
        /\ UNCHANGED <<world, account, former, sawAt>>
    BY <1>0, <1>7 DEF ObservePool, Allocation
  <2>2. CASE UNCHANGED allocated
    BY <1>0, <1>a, <1>b, <2>1, <2>2
  <2>3. CASE ~UNCHANGED allocated
    <3>1. /\ allocated["pool"] # NoRow /\ account # NoRow
          /\ ~AdvanceRejects(allocated["pool"], account, FALSE)
          /\ Saved("pool", Advance(allocated["pool"], account))
      BY <2>1, <2>3 DEF Observe
    <3> QED  BY <1>c, <2>1, <3>1
  <2> QED  BY <2>2, <2>3
<1>8. CASE ObserveSmall300
  <2>1. /\ looking' = "observed" /\ Observe("small300") /\ "small300" \in Allocation
        /\ UNCHANGED <<world, account, former, sawAt, passed>>
    BY <1>8 DEF ObserveSmall300, Allocation
  <2>2. CASE UNCHANGED allocated
    BY <1>0, <1>a, <1>b, <2>1, <2>2
  <2>3. CASE ~UNCHANGED allocated
    <3>1. /\ allocated["small300"] # NoRow /\ account # NoRow
          /\ ~AdvanceRejects(allocated["small300"], account, FALSE)
          /\ Saved("small300", Advance(allocated["small300"], account))
      BY <2>1, <2>3 DEF Observe
    <3> QED  BY <1>0, <1>c, <2>1, <3>1
  <2> QED  BY <2>2, <2>3
<1>9. CASE \E a \in Allocation, b \in BOOLEAN : Admit(a, b)
  <2>1. PICK a \in Allocation, b \in BOOLEAN : Admit(a, b)
    BY <1>9
  <2>2. /\ passed /\ looking' \in {"admitted", "done"}
        /\ UNCHANGED <<world, account, former, sawAt>>
    BY <2>1 DEF Admit
  <2>3. account # NoRow
    BY <2>2 DEF EquityInv
  <2>4. CASE (allocated[a] = NoRow => NewScope(a)) /\ ~AdvanceRejects(allocated[a], account, b)
    <3>1. /\ Saved(a, Advance(allocated[a], account))
          /\ passed' = ~allocated'[a].drawdown.blocked
      BY <2>1, <2>4 DEF Admit
    <3>2. allocated[a] = NoRow => a \notin former
      BY <2>4 DEF NewScope
    <3> QED  BY <1>c, <2>2, <2>3, <2>4, <3>1, <3>2
  <2>5. CASE ~((allocated[a] = NoRow => NewScope(a)) /\ ~AdvanceRejects(allocated[a], account, b))
    <3>1. passed' = FALSE /\ UNCHANGED allocated
      BY <2>1, <2>5 DEF Admit
    <3> QED  BY <1>0, <1>a, <1>b, <2>2, <3>1
  <2> QED  BY <2>4, <2>5
<1>10. CASE EndObservation
  <2>1. /\ looking' = "idle" /\ sawAt' = 0 /\ passed' = FALSE
        /\ UNCHANGED <<world, account, allocated, former>>
    BY <1>10 DEF EndObservation
  <2>2. sawAt' \in 0 .. MaxEvents /\ sawAt' <= Len(events)
    BY <1>0, <2>1, EquityAssumption
  <2>3. EquityInv'
    BY <1>b, <2>1, <2>2
  <2> QED  BY <1>a, <2>1, <2>3
<1> QED  BY <1>1, <1>2, <1>3, <1>4, <1>5, <1>6, <1>7, <1>8, <1>9, <1>10 DEF EquityNext

(* However balances, deposits, days, rotations of the key and deaths between two *)
(* saves follow each other, an allocation begins once, goes on from where it was *)
(* and is not begun again, and only a profit ends a block of the day.            *)
THEOREM FuseHoldsTheorem == EquitySpec => FuseHolds
<1>1. EquityInit => EquityInv
  BY EquityAtFirst
<1>2. EquityInv /\ [EquityNext]_equityVars => EquityInv'
  BY EquityStays
<1>3. EquityInv => EquityTypeOK
  BY DEF EquityInv
<1>4. EquityInv /\ [EquityNext]_equityVars =>
        [\A a \in Allocation :
           LET old == allocated[a]
               new == allocated'[a] IN
           /\ a \in former' => new = NoRow
           /\ old # NoRow /\ a \notin former' =>
                new # NoRow /\ new.since = old.since /\ new.initial = old.initial
                  /\ new.at >= old.at]_equityVars
  BY EquityStays DEF Continues
<1>5. EquityInv /\ [EquityNext]_equityVars =>
        [\A a \in Held : LET old == allocated[a]
                            new == allocated'[a] IN
           new # NoRow /\ old.drawdown.blocked /\ ~new.drawdown.blocked /\ old.drawdown.day = today
             => Profit(old.at, new.at) > 0]_equityVars
  BY EquityStays DEF Unblocked, Held
<1> QED  BY <1>1, <1>2, <1>3, <1>4, <1>5, PTL DEF EquitySpec, FuseHolds, LossesSurvive, OnlyProfitUnblocks
=============================================================================
