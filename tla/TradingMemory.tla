---------------------------- MODULE TradingMemory ----------------------------
(* The versioned memory of each account (scripts/memory_registry.py), the      *)
(* review that proposes changes of it (self_improvement_engine.py), the         *)
(* administrator who publishes them, and the trader's cycle that decides with  *)
(* it.  A prompt is what the versions render: whether the headings are there,   *)
(* the legacy text, and the enabled rules.  An operation of the administrator   *)
(* is one step: it holds the account writer, so nothing it depends on moves.   *)
EXTENDS Naturals, Sequences, FiniteSets

CONSTANTS
  Scope,                \* accounts
  Lesson,               \* texts that pass the lint
  Proposal,             \* what may be proposed of them
  MaxVersions, MaxProposals,
  NoMemory, NoPage

Meta == [revision : Nat \ {0}, active : Nat]

ASSUME MemoryAssumption ==
  /\ Proposal \subseteq [action : {"ADD", "DEACTIVATE", "CLEAR_LEGACY"}, lesson : Lesson]
  /\ IsFiniteSet(Proposal) /\ NoMemory \notin Meta \cup Proposal
  /\ {MaxVersions, MaxProposals} \subseteq Nat

VARIABLES
  bound,                \* the selected account
  meta,                 \* memory_meta of each scope
  versions,             \* memory_versions
  proposed,             \* the status of the candidates of each scope
  page,                 \* what the administrator last saw
  cycle,                \* the trader's cycle: .ai_factor_trader.lock unless idle
  review,               \* the review: .self_improvement.lock unless idle
  unseen                \* history: versions that are not what the administrator saw and decided

memoryVars == <<bound, meta, versions, proposed, page, cycle, review, unseen>>

Automatic == {p \in Proposal : p.action # "CLEAR_LEGACY"}    \* what a review may propose
Text == [rendered : BOOLEAN, legacy : BOOLEAN, rules : SUBSET Lesson]
LegacyText == [rendered |-> FALSE, legacy |-> TRUE, rules |-> {}]
EmptyText == [rendered |-> FALSE, legacy |-> FALSE, rules |-> {}]

Unmanaged == \A s \in Scope : meta[s] = NoMemory

(* view: reading never initializes.  Before the first write every account has  *)
(* the old global file, afterwards an account without memory has none.         *)
TextOf(s) == IF meta[s] # NoMemory THEN versions[meta[s].active].text
             ELSE IF Unmanaged THEN LegacyText ELSE EmptyText

(* Seeded fault: the snapshot is always the old file.                        *)
BootstrappedOld(s) ==
  IF meta[s] # NoMemory THEN [meta |-> meta, versions |-> versions]
  ELSE [meta |-> [meta EXCEPT ![s] = [revision |-> 1, active |-> Len(versions) + 1]],
        versions |-> Append(versions, [scope |-> s, text |-> LegacyText, of |-> NoMemory])]

(* _bootstrap: the first account to be written to keeps the old file.         *)
Bootstrapped(s) ==
  IF meta[s] # NoMemory THEN [meta |-> meta, versions |-> versions]
  ELSE [meta |-> [meta EXCEPT ![s] = [revision |-> 1, active |-> Len(versions) + 1]],
        versions |-> Append(versions, [scope |-> s, text |-> TextOf(s), of |-> NoMemory])]

(* Seeded fault: candidates of a managed account leave its revision.         *)
StageQuietly(s, added) ==
  LET fresh == {p \in added : proposed[s][p] = "none"}
      b == Bootstrapped(s)
  IN /\ proposed' = [proposed EXCEPT ![s] = [p \in Proposal |-> IF p \in fresh THEN "pending" ELSE @[p]]]
     /\ meta' = b.meta
     /\ versions' = b.versions

(* _proposal: one row for each content, whatever its status by now.           *)
Stage(s, added) ==
  LET fresh == {p \in added : proposed[s][p] = "none"}
      b == Bootstrapped(s)
  IN /\ proposed' = [proposed EXCEPT ![s] = [p \in Proposal |-> IF p \in fresh THEN "pending" ELSE @[p]]]
     /\ meta' = [b.meta EXCEPT ![s].revision = @ + Cardinality(fresh)]
     /\ versions' = b.versions

MemoryInit ==
  /\ bound \in Scope
  /\ meta = [s \in Scope |-> NoMemory] /\ versions = <<>>
  /\ proposed = [s \in Scope |-> [p \in Proposal |-> "none"]]
  /\ page = NoPage
  /\ cycle = [at |-> "idle"] /\ review = [at |-> "idle"]
  /\ unseen = {}

-----------------------------------------------------------------------------
(* The trader's cycle.  At "entering" it is inside writer().                  *)

WriterFree == cycle.at # "entering"

BeginCycle ==
  /\ cycle.at = "idle"
  /\ cycle' = [at |-> "begun", scope |-> bound]
  /\ UNCHANGED <<bound, meta, versions, proposed, page, review, unseen>>

(* construct_full_market_prompt takes the memory into the frozen prompt.      *)
ReadMemory ==
  /\ cycle.at = "begun"
  /\ cycle' = [at |-> "deciding", scope |-> cycle.scope, text |-> TextOf(cycle.scope)]
  /\ UNCHANGED <<bound, meta, versions, proposed, page, review, unseen>>

(* The preflight of an entry compares it with the memory in force.            *)
EnterWithMemory ==
  /\ cycle.at = "deciding"
  /\ cycle.text = TextOf(cycle.scope)
  /\ cycle' = [cycle EXCEPT !.at = "entering"]
  /\ UNCHANGED <<bound, meta, versions, proposed, page, review, unseen>>

EntrySent ==
  /\ cycle.at = "entering" /\ cycle' = [cycle EXCEPT !.at = "deciding"]
  /\ UNCHANGED <<bound, meta, versions, proposed, page, review, unseen>>

EndCycle ==
  /\ cycle.at # "idle" /\ cycle' = [at |-> "idle"]
  /\ UNCHANGED <<bound, meta, versions, proposed, page, review, unseen>>

(* A close of the selected account reaches the ledger: the evidence on the     *)
(* page is not all there is any more.                                        *)
TradeCloses ==
  /\ page # NoPage /\ page.scope = bound /\ page.complete
  /\ page' = [page EXCEPT !.complete = FALSE]
  /\ UNCHANGED <<bound, meta, versions, proposed, cycle, review, unseen>>

(* mutation_guard takes the writer and the trader's lock; a review goes on.   *)
SwitchAccount(s) ==
  /\ s # bound /\ cycle.at = "idle"
  /\ bound' = s
  /\ UNCHANGED <<meta, versions, proposed, page, cycle, review, unseen>>

-----------------------------------------------------------------------------
(* The review.                                                              *)

ReviewEnds == review' = [at |-> "idle"]

(* Memory and ledger are read; whether there is anything new is left open.     *)
LoadSources ==
  /\ review.at = "idle"
  /\ review' = [at |-> "asking", scope |-> bound, proposals |-> {}]
  /\ UNCHANGED <<bound, meta, versions, proposed, page, cycle, unseen>>

(* The model answers; what is proposed is looked at for this account only.    *)
ModelReviews(added) ==
  /\ review.at = "asking"
  /\ IF bound = review.scope
       THEN review' = [review EXCEPT !.at = IF added = {} THEN "staged" ELSE "staging", !.proposals = added]
       ELSE ReviewEnds
  /\ UNCHANGED <<bound, meta, versions, proposed, page, cycle, unseen>>

(* stage_review: inside the transaction the account is compared once more.    *)
OpenRegistry ==
  /\ review.at = "staging"
  /\ IF bound = review.scope THEN review' = [review EXCEPT !.at = "transaction"] ELSE ReviewEnds
  /\ UNCHANGED <<bound, meta, versions, proposed, page, cycle, unseen>>

CommitCandidates ==
  /\ review.at = "transaction"
  /\ Len(versions) < MaxVersions
  /\ Stage(review.scope, review.proposals)
  /\ review' = [review EXCEPT !.at = "staged"]
  /\ UNCHANGED <<bound, page, cycle, unseen>>

(* The report is written for the account it began with, or not at all.        *)
WriteReport ==
  /\ review.at = "staged" /\ bound = review.scope
  /\ ReviewEnds
  /\ UNCHANGED <<bound, meta, versions, proposed, page, cycle, unseen>>

(* A phase fails, or the process dies: a transaction rolls back.             *)
ReviewFails ==
  /\ review.at # "idle" /\ ReviewEnds
  /\ UNCHANGED <<bound, meta, versions, proposed, page, cycle, unseen>>

-----------------------------------------------------------------------------
(* The administrator.                                                        *)

LookAtMemory ==
  /\ page' = [scope |-> bound, revision |-> IF meta[bound] = NoMemory THEN 0 ELSE meta[bound].revision,
              text |-> TextOf(bound), complete |-> TRUE,
              pending |-> {p \in Proposal : proposed[bound][p] = "pending"}]
  /\ UNCHANGED <<bound, meta, versions, proposed, cycle, review, unseen>>

RegistryFree == review.at # "transaction"

(* What every operation asks: the page is of the selected account, and the    *)
(* account writer and the database can be had.                              *)
Acting == page # NoPage /\ page.scope = bound /\ WriterFree /\ RegistryFree

(* Seeded fault: publishing does not wait for the cycle.                     *)
GateForReviews == review.at = "idle"

(* publication_gate: neither a cycle nor a review is under way.               *)
GateOpen == cycle.at = "idle" /\ review.at = "idle"

Propose(p) ==
  /\ Acting /\ Len(versions) < MaxVersions
  /\ Stage(bound, {p})
  /\ UNCHANGED <<bound, page, cycle, review, unseen>>

(* _expect                                                                   *)
Unchanged(s) == meta[s] # NoMemory /\ meta[s].revision = page.revision

Initialize ==
  /\ Acting /\ GateOpen /\ Len(versions) < MaxVersions
  /\ meta[bound] = NoMemory
  /\ Stage(bound, {})
  /\ UNCHANGED <<bound, page, cycle, review, unseen>>

Applicable(text, p) ==
  CASE p.action = "ADD" -> p.lesson \notin text.rules
    [] p.action = "DEACTIVATE" -> p.lesson \in text.rules
    [] p.action = "CLEAR_LEGACY" -> text.legacy

Applied(text, p) ==
  [rendered |-> TRUE,
   legacy |-> text.legacy /\ p.action # "CLEAR_LEGACY",
   rules |-> CASE p.action = "ADD" -> text.rules \cup {p.lesson}
               [] p.action = "DEACTIVATE" -> text.rules \ {p.lesson}
               [] OTHER -> text.rules]

(* What was decided on the page stands if this is what it showed.             *)
NewVersion(s, text, of, asSeen) ==
  /\ versions' = Append(versions, [scope |-> s, text |-> text, of |-> of])
  /\ meta' = [meta EXCEPT ![s] = [revision |-> @.revision + 1, active |-> Len(versions) + 1]]
  /\ unseen' = IF asSeen /\ page.text = TextOf(s) THEN unseen ELSE unseen \cup {Len(versions) + 1}

Publish(p) ==
  /\ Acting /\ GateOpen /\ Len(versions) < MaxVersions
  /\ Unchanged(bound)
  /\ proposed[bound][p] = "pending"
  /\ p.action = "ADD" => page.complete
  /\ Applicable(TextOf(bound), p)
  /\ NewVersion(bound, Applied(TextOf(bound), p), p, p \in page.pending)
  /\ proposed' = [proposed EXCEPT ![bound][p] = "published"]
  /\ UNCHANGED <<bound, page, cycle, review>>

Reject(p) ==
  /\ Acting /\ Unchanged(bound)
  /\ proposed[bound][p] = "pending"
  /\ proposed' = [proposed EXCEPT ![bound][p] = "rejected"]
  /\ meta' = [meta EXCEPT ![bound].revision = @ + 1]
  /\ UNCHANGED <<bound, versions, page, cycle, review, unseen>>

Rollback(v) ==
  /\ Acting /\ GateOpen /\ Len(versions) < MaxVersions
  /\ Unchanged(bound)
  /\ v \in DOMAIN versions /\ versions[v].scope = bound /\ versions[v].text # TextOf(bound)
  /\ NewVersion(bound, versions[v].text, NoMemory, TRUE)
  /\ UNCHANGED <<bound, proposed, page, cycle, review>>

MemoryNext ==
  \/ BeginCycle \/ ReadMemory \/ EnterWithMemory \/ EntrySent \/ EndCycle
  \/ TradeCloses \/ \E s \in Scope : SwitchAccount(s)
  \/ LoadSources
  \/ \E added \in SUBSET Automatic : Cardinality(added) <= MaxProposals /\ ModelReviews(added)
  \/ OpenRegistry \/ CommitCandidates \/ WriteReport \/ ReviewFails
  \/ LookAtMemory \/ Initialize
  \/ \E p \in Proposal : Propose(p) \/ Publish(p) \/ Reject(p)
  \/ \E v \in 1 .. MaxVersions : Rollback(v)

MemorySpec == MemoryInit /\ [][MemoryNext]_memoryVars

-----------------------------------------------------------------------------
Version == [scope : Scope, text : Text, of : Proposal \cup {NoMemory}]
Status == {"none", "pending", "published", "rejected"}
MemoryTypeOK ==
  /\ bound \in Scope
  /\ meta \in [Scope -> Meta \cup {NoMemory}]
  /\ \A s \in Scope : meta[s] # NoMemory =>
       meta[s].active \in DOMAIN versions /\ versions[meta[s].active].scope = s
  /\ versions \in Seq(Version)
  /\ proposed \in [Scope -> [Proposal -> Status]]
  /\ page \in [scope : Scope, revision : Nat, text : Text, complete : BOOLEAN, pending : SUBSET Proposal] \cup {NoPage}
  /\ cycle \in [at : {"idle"}] \cup [at : {"begun"}, scope : Scope]
          \cup [at : {"deciding", "entering"}, scope : Scope, text : Text]
  /\ review \in [at : {"idle"}] \cup [at : {"asking", "staging", "transaction", "staged"}, scope : Scope,
                                      proposals : SUBSET Proposal]

(* "Do not change memory while a trader/brain decision ... is in progress": the *)
(* text a cycle decides with stays in force to its end, although reviews and    *)
(* proposals are staged without the gate.  Only the old file may be lost to     *)
(* another account, whose review had its transaction open when accounts changed. *)
LostOldFile(s) == versions # <<>> /\ versions[1].scope # s /\ TextOf(s) = EmptyText
MemoryHoldsStill ==
  cycle.at \in {"deciding", "entering"} =>
    cycle.text = TextOf(cycle.scope) \/ (cycle.text = LegacyText /\ LostOldFile(cycle.scope))

(* What is in force is what an administrator saw, changed by what he decided:   *)
(* no version of the account came between his page and his publication.        *)
PublishedAsSeen == unseen = {}

(* A candidate is published once, by the version that says so, and a rejected   *)
(* one never.                                                                 *)
CandidatesSettleOnce ==
  \A s \in Scope, p \in Proposal :
    Cardinality({v \in DOMAIN versions : versions[v].scope = s /\ versions[v].of = p})
      = (IF proposed[s][p] = "published" THEN 1 ELSE 0)

(* The old global file goes to one account only, and what a report lists is     *)
(* among the candidates of its own account.                                   *)
ScopesApart ==
  /\ \A v, w \in DOMAIN versions : versions[v].text.legacy /\ versions[w].text.legacy
                                   => versions[v].scope = versions[w].scope
  /\ review.at = "staged" => \A p \in review.proposals : proposed[review.scope][p] # "none"

MemorySafe == MemoryTypeOK /\ MemoryHoldsStill /\ PublishedAsSeen /\ CandidatesSettleOnce /\ ScopesApart
=============================================================================
