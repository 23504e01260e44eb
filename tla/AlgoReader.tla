----------------------------- MODULE AlgoReader ------------------------------
(* Snapshots of the account's protective orders (algo_reader): readers share  *)
(* a cache and one admission gate over processes; a writer announces its one  *)
(* write with a marker file and a new epoch before and after it.  A deadline, *)
(* or the end of a cached snapshot's life, may come at any moment.            *)
EXTENDS Naturals, FiniteSetsExt

CONSTANTS
  Reader, RiskReader,      \* the others are monitors
  NoReader, NoSnapshot,
  Pages,                   \* requests of one snapshot
  MaxTries,                \* attempts of a call
  Gap,                     \* ticks between requests
  MaxWrites, MaxSnags      \* bounds: writes, and things that go wrong with them
ASSUME ReaderAssumption ==
  /\ RiskReader \subseteq Reader /\ NoReader \notin Reader
  /\ {Pages, MaxTries, Gap} \subseteq Nat \ {0}
  /\ {MaxWrites, MaxSnags} \subseteq Nat

VARIABLES
  landed, afloat,     \* writes the exchange has carried out, and has yet to
  told,               \* history: those carried out before an invalidation that followed them
  writing, marked,    \* the last step of algo_mutation; its marker is on disk, and locked
  epoch,              \* how often it was replaced
  snapshot,           \* the cache
  call,               \* of each reader
  gate,               \* who holds the admission lock
  try,                \* the attempt of its holder
  nextAt,             \* ticks until the next request: the gap, or a cooldown
  quiet,              \* history: ticks since the last request ended
  stale,              \* history: a call returned a snapshot that was too old for it
  snags
writes == <<landed, afloat, told>>
readerVars == <<writes, writing, marked, epoch, snapshot, call, gate, try, nextAt, quiet, stale, snags>>

IdleCall == [at |-> "idle", late |-> FALSE, owed |-> 0]
NoTry == [number |-> 0, epoch |-> 0, pages |-> 0, first |-> 0]

ReaderInit ==
  /\ landed = 0 /\ afloat = 0 /\ told = 0
  /\ writing = "idle" /\ marked = FALSE /\ epoch = 0
  /\ snapshot = NoSnapshot
  /\ call = [r \in Reader |-> IdleCall] /\ gate = NoReader /\ try = NoTry
  /\ nextAt = 0 /\ quiet = Gap /\ stale = FALSE /\ snags = 0

Snag == snags < MaxSnags /\ snags' = snags + 1

-----------------------------------------------------------------------------
(* algo_mutation around one write.  Without a marker the write goes on all    *)
(* the same.                                                                 *)
Mark ==
  /\ writing = "idle" /\ landed + afloat < MaxWrites
  /\ writing' = "marked"
  /\ \/ marked' = TRUE /\ UNCHANGED snags
     \/ marked' = FALSE /\ Snag
  /\ UNCHANGED <<writes, epoch, snapshot, call, gate, try, nextAt, quiet, stale>>

(* A new epoch; if it cannot be saved the cached snapshot is removed.         *)
Invalidate ==
  \/ epoch' = epoch + 1 /\ UNCHANGED <<snapshot, snags>>
  \/ Snag /\ snapshot' = NoSnapshot /\ UNCHANGED epoch

InvalidateBefore ==
  /\ writing = "marked" /\ writing' = "announced" /\ Invalidate
  /\ UNCHANGED <<writes, marked, call, gate, try, nextAt, quiet, stale>>

SendWrite ==
  /\ writing = "announced" /\ writing' = "sent" /\ afloat' = afloat + 1
  /\ UNCHANGED <<landed, told, marked, epoch, snapshot, call, gate, try, nextAt, quiet, stale, snags>>

Land ==
  /\ afloat > 0 /\ afloat' = afloat - 1 /\ landed' = landed + 1
  /\ UNCHANGED <<told, writing, marked, epoch, snapshot, call, gate, try, nextAt, quiet, stale, snags>>

(* The reply, or a timeout with the write still on its way.                   *)
InvalidateAfter ==
  /\ writing = "sent" /\ writing' = "invalidated"
  /\ \/ afloat = 0 /\ Invalidate
     \/ afloat > 0 /\ Snag /\ epoch' = epoch + 1 /\ UNCHANGED snapshot
  /\ told' = IF epoch' > epoch THEN landed ELSE told
  /\ UNCHANGED <<landed, afloat, marked, call, gate, try, nextAt, quiet, stale>>

Unmark ==
  /\ writing = "invalidated" /\ writing' = "idle" /\ marked' = FALSE
  /\ UNCHANGED <<writes, epoch, snapshot, call, gate, try, nextAt, quiet, stale, snags>>

(* The process of the writer is killed: the lock on its marker goes with it,  *)
(* and whoever looks next removes the file.                                   *)
WriterDies ==
  /\ writing # "idle" /\ Snag /\ writing' = "idle" /\ marked' = FALSE
  /\ UNCHANGED <<writes, epoch, snapshot, call, gate, try, nextAt, quiet, stale>>

-----------------------------------------------------------------------------
(* The steps of a call in order; from "queue" on a risk reader has its own    *)
(* marker, which counts until its deadline.                                   *)
Reading == {"settle", "note", "reserve", "wire", "compare", "accept"}
Late(r) == call[r].late
Yields(r) == r \notin RiskReader /\ \E q \in RiskReader : call[q].at \in {"queue"} \cup Reading /\ ~Late(q)

(* _cached, for monitors: every risk reader of the program forces a read.     *)
CacheServes(r) ==
  /\ r \notin RiskReader /\ snapshot # NoSnapshot
  /\ ~marked /\ snapshot.epoch = epoch

UnchangedByRead == UNCHANGED <<writes, writing, marked, epoch, snags>>
UnchangedWire == UNCHANGED <<nextAt, quiet>>

Moves(r, at) == call' = [call EXCEPT ![r].at = at] /\ UNCHANGED stale

(* Seeded fault: the gate stays taken when a call ends with an error.         *)
ReleaseOnSuccess(r, got) ==
  IF gate = r /\ got # NoSnapshot THEN gate' = NoReader /\ try' = NoTry ELSE UNCHANGED <<gate, try>>
Release(r, got) == IF gate = r THEN gate' = NoReader /\ try' = NoTry ELSE UNCHANGED <<gate, try>>

Returns(r, got) ==
  /\ call' = [call EXCEPT ![r] = IdleCall] /\ Release(r, got)
  /\ stale' = (stale \/ (got # NoSnapshot /\ got < call[r].owed))
Raises(r) == Returns(r, NoSnapshot)

TryAgain(r) ==
  /\ try.number < MaxTries
  /\ Moves(r, "settle") /\ try' = [NoTry EXCEPT !.number = try.number + 1] /\ UNCHANGED gate

BeginRead(r) ==
  /\ call[r].at = "idle"
  /\ call' = [call EXCEPT ![r] = [IdleCall EXCEPT !.at = "look", !.owed = told]]
  /\ UNCHANGED <<snapshot, gate, try, stale>> /\ UnchangedWire /\ UnchangedByRead

Look(r) ==
  /\ call[r].at = "look"
  /\ IF CacheServes(r) THEN Returns(r, snapshot.first) ELSE Moves(r, "queue") /\ UNCHANGED <<gate, try>>
  /\ UNCHANGED snapshot /\ UnchangedWire /\ UnchangedByRead

(* _turn: the gate is polled; a monitor gives way to a risk reader.  Then the  *)
(* cache is looked at again.                                                 *)
TakeGate(r) ==
  /\ call[r].at = "queue" /\ ~Late(r) /\ ~Yields(r)
  /\ gate = NoReader
  /\ IF CacheServes(r) THEN Returns(r, snapshot.first)
     ELSE gate' = r /\ Moves(r, "settle") /\ try' = [NoTry EXCEPT !.number = 1]
  /\ UNCHANGED snapshot /\ UnchangedWire /\ UnchangedByRead

(* The deadline, or a risk reader, at any of the checks of a call that waits; *)
(* and a wait beyond the deadline is not begun.                               *)
(* Seeded fault: it waits for a writer whatever time it is.                   *)
CheckedButSettling(r) == call[r].at \in {"queue", "reserve"}
Checked(r) ==
  \/ call[r].at \in {"queue", "reserve"}
  \/ call[r].at = "settle" /\ marked
GiveUp(r) ==
  /\ Checked(r)
  /\ Late(r) \/ Yields(r) \/ (call[r].at = "reserve" /\ nextAt > 0)
  /\ Raises(r) /\ UNCHANGED snapshot /\ UnchangedWire /\ UnchangedByRead

-----------------------------------------------------------------------------
(* One attempt.  The epoch is read after no marker was seen, not at once.      *)
AwaitWriters(r) ==
  /\ call[r].at = "settle" /\ ~marked /\ Moves(r, "note")
  /\ UNCHANGED <<gate, try, snapshot>> /\ UnchangedWire /\ UnchangedByRead

NoteEpoch(r) ==
  /\ call[r].at = "note" /\ Moves(r, "reserve")
  /\ try' = [try EXCEPT !.epoch = epoch]
  /\ UNCHANGED <<gate, snapshot>> /\ UnchangedWire /\ UnchangedByRead

Reserve(r) ==
  /\ call[r].at = "reserve" /\ ~Late(r) /\ ~Yields(r)
  /\ nextAt = 0 /\ nextAt' = Gap /\ Moves(r, "wire")
  /\ UNCHANGED <<snapshot, gate, try, quiet>> /\ UnchangedByRead

(* _read_finished after every request, with the gate still held; a refusal for *)
(* the rate keeps every reader away for longer (_cooldown).                   *)
(* Seeded fault: the next request is spaced from the reservation only.        *)
ReadFinishedNot(pause) == nextAt' = Max({nextAt, pause}) /\ quiet' = 0
ReadFinished(pause) == nextAt' = Max({Gap, pause}) /\ quiet' = 0

Page(r) ==
  /\ call[r].at = "wire" /\ ReadFinished(0)
  /\ try' = [try EXCEPT !.pages = @ + 1, !.first = IF try.pages = 0 THEN landed ELSE @]
  /\ Moves(r, IF try.pages + 1 = Pages THEN "compare" ELSE "reserve")
  /\ UNCHANGED <<snapshot, gate>> /\ UnchangedByRead

(* An error ends the call, or the attempt; so does an order that two pages     *)
(* show differently.                                                         *)
Fails(r) ==
  /\ call[r].at = "wire"
  /\ \E limited \in BOOLEAN : ReadFinished(IF limited THEN Gap + 1 ELSE 0)
  /\ \/ Raises(r)
     \/ ~Late(r) /\ TryAgain(r)
  /\ UNCHANGED snapshot /\ UnchangedByRead

(* The epoch is compared first, then the markers; a snapshot read while       *)
(* something was written is not accepted.                                     *)
Compare(r) ==
  /\ call[r].at = "compare" /\ ~Late(r) /\ try.epoch = epoch /\ Moves(r, "accept")
  /\ UNCHANGED <<gate, try, snapshot>> /\ UnchangedWire /\ UnchangedByRead

Refuse(r) ==
  /\ \/ call[r].at = "compare" /\ (Late(r) \/ try.epoch # epoch)
     \/ call[r].at = "accept" /\ marked
  /\ \/ ~(Late(r) /\ call[r].at = "compare") /\ TryAgain(r)
     \/ (try.number = MaxTries \/ (Late(r) /\ call[r].at = "compare")) /\ Raises(r)
  /\ UNCHANGED snapshot /\ UnchangedWire /\ UnchangedByRead

(* Seeded fault: it is kept under the epoch of that moment.                   *)
SnapshotKeptNow(r) == [first |-> try.first, epoch |-> epoch]
SnapshotKept(r) == [first |-> try.first, epoch |-> try.epoch]
Accept(r) ==
  /\ call[r].at = "accept" /\ ~marked
  /\ snapshot' = SnapshotKept(r) /\ Returns(r, try.first)
  /\ UnchangedWire /\ UnchangedByRead

(* A reader is killed: the gate and its marker are freed, and what it had      *)
(* reserved stays.                                                           *)
ReaderDies(r) ==
  /\ call[r].at # "idle" /\ Snag /\ Raises(r)
  /\ UNCHANGED <<writes, writing, marked, epoch, snapshot>> /\ UnchangedWire

-----------------------------------------------------------------------------
(* Time.                                                                     *)
DeadlinePasses(r) ==
  /\ call[r].at # "idle" /\ ~Late(r)
  /\ call' = [call EXCEPT ![r].late = TRUE]
  /\ UNCHANGED <<snapshot, gate, try, stale>> /\ UnchangedWire /\ UnchangedByRead

Expire ==
  /\ snapshot # NoSnapshot /\ snapshot' = NoSnapshot
  /\ UNCHANGED <<call, gate, try, stale>> /\ UnchangedWire /\ UnchangedByRead

Tick ==
  /\ nextAt' = IF nextAt = 0 THEN 0 ELSE nextAt - 1
  /\ quiet' = Min({Gap, quiet + 1})
  /\ UNCHANGED <<snapshot, call, gate, try, stale>> /\ UnchangedByRead

ReadStep(r) ==
  \/ Look(r) \/ TakeGate(r) \/ GiveUp(r)
  \/ AwaitWriters(r) \/ NoteEpoch(r) \/ Reserve(r) \/ Page(r) \/ Fails(r)
  \/ Compare(r) \/ Refuse(r) \/ Accept(r)
ReaderNext ==
  \/ Mark \/ InvalidateBefore \/ SendWrite \/ Land \/ InvalidateAfter \/ Unmark \/ WriterDies
  \/ \E r \in Reader : BeginRead(r) \/ ReadStep(r) \/ ReaderDies(r) \/ DeadlinePasses(r)
  \/ Expire \/ Tick
ReaderSpec == ReaderInit /\ [][ReaderNext]_readerVars

(* Time passes, and a call goes on; a writer owes nothing.                    *)
ReaderFairness ==
  /\ WF_readerVars(Tick)
  /\ \A r \in Reader : WF_readerVars(ReadStep(r)) /\ WF_readerVars(DeadlinePasses(r))

-----------------------------------------------------------------------------
Busy == {r \in Reader : call[r].at \in Reading}
Epochs == 0 .. 2 * (MaxWrites + MaxSnags)
ReaderTypeOK ==
  /\ {landed, afloat, told} \subseteq 0 .. MaxWrites /\ landed + afloat <= MaxWrites
  /\ writing \in {"idle", "marked", "announced", "sent", "invalidated"} /\ marked \in BOOLEAN
  /\ epoch \in Epochs
  /\ snapshot \in {NoSnapshot} \cup [first : 0 .. MaxWrites, epoch : Epochs]
  /\ call \in [Reader -> [at : {"idle", "look", "queue"} \cup Reading, late : BOOLEAN, owed : 0 .. MaxWrites]]
  /\ Busy = IF gate = NoReader THEN {} ELSE {gate}
  /\ try \in [number : 0 .. MaxTries, epoch : Epochs, pages : 0 .. Pages, first : 0 .. MaxWrites]
  /\ nextAt \in 0 .. Gap + 1 /\ quiet \in 0 .. Gap /\ stale \in BOOLEAN /\ snags \in 0 .. MaxSnags

(* What a call returns was read after every write that had been carried out    *)
(* and whose closing invalidation had succeeded when the call began, whoever   *)
(* read it and whatever was written, or died, in between.                      *)
NoStaleSnapshot == ~stale

(* "cannot bound real request spacing" (_read_finished): however long requests *)
(* and pauses are, one begins a gap after the last one of a living reader      *)
(* ended.                                                                     *)
RequestsSpaced == (\E r \in Reader : call[r].at = "wire") => quiet = Gap

(* Every call ends, whatever writers, other readers and the exchange do.      *)
ReadsEnd == \A r \in Reader : call[r].at # "idle" ~> call[r].at = "idle"

(* What readers that share snapshots and one line to the exchange rely on.    *)
ReaderSafe == ReaderTypeOK /\ NoStaleSnapshot /\ RequestsSpaced
=============================================================================
