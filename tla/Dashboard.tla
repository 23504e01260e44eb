------------------------------ MODULE Dashboard -------------------------------
(* The monitor's cache of the account (dashboard/app.py).  One producer at a time   *)
(* reads the exchange and the local files and replaces the snapshot; requests are    *)
(* answered from it and only ask for a refresh; an account may be selected, or the   *)
(* process may be restarted, between any two steps of either.  A snapshot keeps     *)
(* whose numbers and whose local records it is made of, the amounts left out; when   *)
(* a refresh is due is left open, and so is whether a request is the first.         *)
EXTENDS Naturals

CONSTANTS
  Account, NoAccount,
  NoSnapshot,           \* {}: nothing cached, or no file
  StaleAfter,           \* the age from which an answer says it is stale
  PersistAfter,         \* PERSIST_MIN_INTERVAL_SECONDS
  MaxClock, MaxSwitches, MaxRestarts       \* bounds

ASSUME DashboardAssumption ==
  /\ NoAccount \notin Account /\ Account # {}
  /\ {StaleAfter, PersistAfter, MaxClock, MaxSwitches, MaxRestarts} \subseteq Nat

VARIABLES
  selected, generation, \* the account selected and how often that changed
  hour,                 \* the clock, in units of five seconds
  restarts,
  cache, cacheTime,     \* CACHE_DATA, LAST_CACHE_TIME
  file,                 \* .dashboard-cache: a snapshot, its time and its process
  producer,             \* the thread that holds CACHE_UPDATE_LOCK
  reader                \* one request

dashboardVars == <<selected, generation, hour, restarts, cache, cacheTime, file, producer, reader>>

NoProducer == [at |-> "idle"]
NoReader == [at |-> "idle"]

DashboardInit ==
  /\ selected \in Account /\ generation = 0 /\ hour = 0 /\ restarts = 0
  /\ cache = NoSnapshot /\ cacheTime = 0 /\ file = NoSnapshot
  /\ producer = NoProducer /\ reader = NoReader

-----------------------------------------------------------------------------
Outside == UNCHANGED <<selected, generation, hour, restarts>>
Publishing == Outside /\ UNCHANGED reader
NothingPublished == UNCHANGED <<cache, cacheTime, file>>

(* Whoever finds the lock free becomes the producer, a request or the background    *)
(* thread; the credentials are frozen for all reads of the refresh ...             *)
StartRefresh ==
  /\ producer.at = "idle"
  /\ producer' = [at |-> "core", account |-> selected, since |-> generation]
  /\ NothingPublished /\ Publishing

Own(s, account) == s # NoSnapshot /\ s.account = account

(* ... balance, positions and orders first.  A failure of the first two leaves only *)
(* the last snapshot of this account, or none.                                *)
ReadCore(ok, orders) ==
  /\ producer.at = "core"
  /\ producer' = [producer EXCEPT !.at =
       IF ok THEN IF orders THEN "rest" ELSE "restPartial"
       ELSE IF Own(cache, producer.account) THEN "inject" ELSE "offline"]
  /\ NothingPublished /\ Publishing

(* The local records of the account that is selected now go with the old numbers.   *)
InjectLocal ==
  /\ producer.at = "inject" /\ producer' = [at |-> "stamp"]
  /\ cache' = [cache EXCEPT !.local = selected, !.status = "STALE",
                            !.crossed = @ \/ generation # producer.since]
  /\ UNCHANGED <<cacheTime, file>> /\ Publishing

(* Seeded fault: the empty snapshot is labelled like any other.                *)
OfflineLabelled(account) ==
  [account |-> account, core |-> NoAccount, local |-> NoAccount, status |-> "OFFLINE",
   crossed |-> FALSE, published |-> hour]

(* Without numbers the snapshot belongs to nobody.                             *)
Offline(account) ==
  [account |-> NoAccount, core |-> NoAccount, local |-> NoAccount, status |-> "OFFLINE",
   crossed |-> FALSE, published |-> hour]

PublishOffline ==
  /\ producer.at = "offline" /\ producer' = [at |-> "stamp"]
  /\ cache' = Offline(producer.account)
  /\ UNCHANGED <<cacheTime, file>> /\ Publishing

(* The protective orders, the baseline of the account selected now, the bills and   *)
(* the local files; a source that cannot be read makes the snapshot partial.       *)
ReadRest(ok) ==
  /\ producer.at \in {"rest", "restPartial"}
  /\ producer' = [at |-> "publish", account |-> producer.account, since |-> producer.since,
                  local |-> selected, whole |-> ok /\ producer.at = "rest"]
  /\ NothingPublished /\ Publishing

PublishSnapshot ==
  /\ producer.at = "publish" /\ producer' = [at |-> "persist"]
  /\ cache' = [account |-> producer.account, core |-> producer.account, local |-> producer.local,
               status |-> IF producer.whole THEN "LIVE" ELSE "PARTIAL",
               crossed |-> generation # producer.since, published |-> hour]
  /\ UNCHANGED <<cacheTime, file>> /\ Publishing

(* The file is written when something that matters changed, or after a while, and    *)
(* by each process at least once.                                             *)
Persist(material) ==
  /\ producer.at = "persist" /\ producer' = [at |-> "stamp"]
  /\ IF ~material /\ file # NoSnapshot /\ Own(file.snapshot, cache.account)
          /\ file.snapshot.status = cache.status /\ file.by = restarts /\ hour - file.at < PersistAfter
       THEN UNCHANGED file
       ELSE file' = [snapshot |-> cache, at |-> hour, by |-> restarts]
  /\ UNCHANGED <<cache, cacheTime>> /\ Publishing

(* The time is that of the end, whatever was published; the lock is given back.     *)
Stamp ==
  /\ producer.at = "stamp" /\ cacheTime' = hour /\ producer' = NoProducer
  /\ UNCHANGED <<cache, file>> /\ Publishing

(* An exception leaves what is published and gives the lock back.               *)
RefreshFails ==
  /\ producer.at \notin {"idle", "stamp"} /\ producer' = NoProducer
  /\ NothingPublished /\ Publishing

-----------------------------------------------------------------------------
(* monitoring_snapshot: the account first, then the snapshot ...               *)
BeginAnswer ==
  /\ reader.at = "idle"
  /\ reader' = [at |-> "begun", account |-> selected, since |-> generation]
  /\ NothingPublished /\ Outside /\ UNCHANGED producer

(* ... of this account, or the answer that there is none yet ...               *)
TakeCached ==
  /\ reader.at = "begun"
  /\ reader' = IF Own(cache, reader.account)
       THEN [at |-> "cached", account |-> reader.account, since |-> reader.since, cached |-> cache]
       ELSE NoReader
  /\ NothingPublished /\ Outside /\ UNCHANGED producer

Said(s, age) == IF age > StaleAfter THEN "STALE" ELSE s.status

(* ... and the age, of the latest refresh, which may have replaced what was taken.  *)
LookAtAge ==
  /\ reader.at = "cached"
  /\ reader' = [at |-> "check", account |-> reader.account, since |-> reader.since,
                cached |-> reader.cached, status |-> Said(reader.cached, hour - cacheTime),
                tooOld |-> hour - reader.cached.published > StaleAfter /\ cache = reader.cached]
  /\ NothingPublished /\ Outside /\ UNCHANGED producer

(* The account is compared once more, with the version of its binding.            *)
SameBinding == generation = reader.since

(* Another account's answer is withheld.                                       *)
FinishAnswer ==
  /\ reader.at = "check" /\ reader' = NoReader
  /\ NothingPublished /\ Outside /\ UNCHANGED producer

-----------------------------------------------------------------------------
(* Another account is selected, which gives the binding a new version.            *)
SelectAccount(a) ==
  /\ a # selected /\ generation < MaxSwitches
  /\ selected' = a /\ generation' = generation + 1
  /\ NothingPublished /\ UNCHANGED <<hour, restarts, producer, reader>>

(* Publishing and persisting take no time against the five seconds of the clock.    *)
PassTime ==
  /\ hour < MaxClock /\ hour' = hour + 1
  /\ producer.at \notin {"persist", "stamp"}
  /\ NothingPublished /\ UNCHANGED <<selected, generation, restarts, producer, reader>>

(* The new process starts from the file and the time of its last change.          *)
RestartMonitor ==
  /\ restarts < MaxRestarts /\ restarts' = restarts + 1
  /\ cache' = IF file = NoSnapshot THEN NoSnapshot ELSE file.snapshot
  /\ cacheTime' = IF file = NoSnapshot THEN 0 ELSE file.at
  /\ producer' = NoProducer /\ reader' = NoReader
  /\ UNCHANGED <<selected, generation, hour, file>>

DashboardNext ==
  \/ StartRefresh
  \/ \E ok, orders \in BOOLEAN : ReadCore(ok, orders)
  \/ InjectLocal \/ PublishOffline
  \/ \E ok \in BOOLEAN : ReadRest(ok)
  \/ PublishSnapshot
  \/ \E material \in BOOLEAN : Persist(material)
  \/ Stamp \/ RefreshFails
  \/ BeginAnswer \/ TakeCached \/ LookAtAge \/ FinishAnswer
  \/ \E a \in Account : SelectAccount(a)
  \/ PassTime \/ RestartMonitor

DashboardSpec == DashboardInit /\ [][DashboardNext]_dashboardVars

-----------------------------------------------------------------------------
Snapshot == [account : Account \cup {NoAccount}, core : Account \cup {NoAccount},
             local : Account \cup {NoAccount}, status : {"LIVE", "PARTIAL", "STALE", "OFFLINE"},
             crossed : BOOLEAN, published : 0 .. MaxClock]

DashboardTypeOK ==
  /\ selected \in Account /\ generation \in 0 .. MaxSwitches /\ hour \in 0 .. MaxClock
  /\ cache \in Snapshot \cup {NoSnapshot} /\ cacheTime \in 0 .. hour
  /\ file # NoSnapshot => file.snapshot \in Snapshot /\ file.at \in 0 .. hour /\ file.by \in 0 .. restarts
  /\ producer.at \in {"idle", "core", "rest", "restPartial", "inject", "offline",
                      "publish", "persist", "stamp"}
  /\ reader.at \in {"idle", "begun", "cached", "check"}

(* What is about to be answered, with numbers.                                 *)
Answering == reader.at = "check" /\ SameBinding

(* An answer with numbers is of the account that is selected when it is given, and   *)
(* so are its numbers and, unless the account changed while the snapshot was made,   *)
(* the baseline and the records beside them.                                  *)
AnswersForOneAccount ==
  Answering =>
    /\ reader.account = selected
    /\ reader.cached.account = selected /\ reader.cached.core = selected
    /\ reader.cached.crossed \/ reader.cached.local = selected

(* What is said to be live was read whole, and not longer ago than an answer may be   *)
(* old, unless a refresh ended while the request was taking it; a restart does not    *)
(* make an old snapshot new.                                                *)
LiveIsFresh ==
  Answering /\ reader.status = "LIVE" => reader.cached.status = "LIVE" /\ ~reader.tooOld

(* What the file holds are numbers that were read.                              *)
FileHoldsNumbers == file # NoSnapshot => file.snapshot.core \in Account

DashboardSafe ==
  DashboardTypeOK /\ AnswersForOneAccount /\ LiveIsFresh /\ FileHoldsNumbers
=============================================================================
