--------------------------- MODULE SchedulerProofs ---------------------------
(***************************************************************************)
(* Proofs about JobScheduler, for every length of a slot, every timeout    *)
(* and every number of runs, crashes and orders: a slot is traded and      *)
(* recovered once, what ended is told, and the review keeps clear of the   *)
(* trader.  The invariant is a conjunction of what the lanes hold          *)
(* (LaneInv), what of the runs is told (Told), where the traders lie       *)
(* before the last mark (NaturalInv), what became of the recoveries        *)
(* (RecoveryInv), when a task may stand in its slot (OnTime), how the      *)
(* review stands beside the trader (ReviewInv), which children outlived    *)
(* their worker (OrphanInv) and which may still be answered (AnswerInv).   *)
(***************************************************************************)
EXTENDS JobScheduler, TLAPS

(* The slot of a time is the one it lies in, and slots are in the order of   *)
(* their times.                                                              *)
LEMMA SlotHolds == ASSUME NEW t \in Nat
  PROVE /\ SlotOf(t) \in Nat /\ Offset(t) \in Nat /\ Offset(t) < SlotLength
        /\ t = SlotLength * SlotOf(t) + Offset(t)
<1>1. SlotOf(t) \in Nat BY SchedulerAssumption DEF SlotOf
<1>2. Offset(t) \in Nat /\ Offset(t) < SlotLength BY SchedulerAssumption DEF Offset
<1>3. t = SlotLength * SlotOf(t) + Offset(t) BY SchedulerAssumption DEF SlotOf, Offset
<1> QED BY <1>1, <1>2, <1>3

(* Later times lie in no earlier slot. *)
LEMMA SlotsInOrder == ASSUME NEW t \in Nat, NEW u \in Nat, t <= u
  PROVE SlotOf(t) <= SlotOf(u)
BY SchedulerAssumption DEF SlotOf

(* A time that comes before the rest of its slot is over is of the same slot. *)
LEMMA SameSlot == ASSUME NEW t \in Nat, NEW u \in Nat, t <= u, u < t + SlotLength - Offset(t)
  PROVE SlotOf(u) = SlotOf(t)
BY SchedulerAssumption DEF SlotOf, Offset

(* Of two multiples less than two units apart, the greater is the next one. *)
LEMMA Multiples ==
  ASSUME NEW n \in Nat, n > 0, NEW s \in Nat, NEW u \in Nat, n * s < n * u, n * u < n * s + n + n
  PROVE s < u /\ u < s + 2
<1>1. s < u BY SMT
<1>2. u < s + 2 BY SMT
<1> QED BY <1>1, <1>2

(* Every time of an instance lies in one of its slots. *)
LEMMA SlotInRange == ASSUME NEW t \in 0 .. MaxTime
  PROVE SlotOf(t) \in Slots
<1>1. t \in Nat /\ MaxTime \in Nat /\ t <= MaxTime BY SchedulerAssumption
<1>2. SlotOf(t) <= SlotOf(MaxTime) BY <1>1, SlotsInOrder
<1>3. SlotOf(t) \in Nat /\ SlotOf(MaxTime) \in Nat BY <1>1, SlotHolds
<1> QED BY <1>2, <1>3 DEF Slots

-----------------------------------------------------------------------------
(* what the steps of the thread that executes a task do to its fields *)
LEMMA ZeroSlot == 0 \in Slots
<1>1. MaxTime \in Nat BY SchedulerAssumption
<1>2. SlotOf(MaxTime) \in Nat BY <1>1, SlotHolds
<1> QED BY <1>2 DEF Slots

(* A record with fields of their types is a task. *)
LEMMA SomeTask == ASSUME NEW t \in Nat, NEW a \in Done \cup {"queued", "begun", "marked", "running"},
         NEW b \in {"none", "natural", "manual", "recovery"}, NEW c \in Slots,
         NEW d \in Run \cup {NoRun}, NEW e \in 0 .. t
  PROVE [state |-> a, kind |-> b, slot |-> c, run |-> d, previous |-> e] \in Task(t)
BY DEF Task

(* An empty lane is a task of any time. *)
LEMMA IdleTask == ASSUME NEW t \in Nat PROVE NoTask \in Task(t)
BY ZeroSlot DEF NoTask, Task, Done, NoRun

(* A task stays one as time goes on. *)
LEMMA LaterTask == ASSUME NEW t \in Nat, NEW x \in Task(t) PROVE x \in Task(t + 1)
BY DEF Task

(* What a tick gives to the executor: a task of the present slot with no run. *)
LEMMA QueuedTask == ASSUME now \in 0 .. MaxTime, NEW kind \in {"natural", "manual", "recovery"}
  PROVE /\ Queued(kind) \in Task(now)
        /\ Queued(kind).state = "queued" /\ Queued(kind).kind = kind
        /\ Queued(kind).slot = SlotOf(now) /\ Queued(kind).run = NoRun
<1>1. SlotOf(now) \in Slots /\ now \in Nat BY SlotInRange, SchedulerAssumption
<1>0. /\ 0 \in 0 .. now /\ NoRun \in Run \cup {NoRun}
      /\ "queued" \in Done \cup {"queued", "begun", "marked", "running"}
      /\ {"none", kind} \subseteq {"none", "natural", "manual", "recovery"}
  BY <1>1
<1>2. PICK x0 \in Task(now) : x0 = NoTask BY <1>1, IdleTask
<1>3. PICK x1 \in Task(now) : x1 = [state |-> "queued", kind |-> "none", slot |-> 0,
                                   run |-> NoRun, previous |-> 0]
  BY <1>1, <1>0, ZeroSlot, SomeTask
<1>4. [x0 EXCEPT !.state = "queued"] = x1 BY <1>2, <1>3 DEF NoTask, Task
<1>5. PICK x2 \in Task(now) : x2 = [state |-> "queued", kind |-> kind, slot |-> 0,
                                   run |-> NoRun, previous |-> 0]
  BY <1>1, <1>0, ZeroSlot, SomeTask
<1>6. [x1 EXCEPT !.kind = kind] = x2 BY <1>3, <1>5 DEF Task
<1>7. PICK x3 \in Task(now) : x3 = [state |-> "queued", kind |-> kind, slot |-> SlotOf(now),
                                   run |-> NoRun, previous |-> 0]
  BY <1>1, <1>0, SomeTask
<1>8. [x2 EXCEPT !.slot = SlotOf(now)] = x3 BY <1>5, <1>7 DEF Task
<1>9. Queued(kind) = x3 BY <1>2, <1>4, <1>6, <1>8 DEF Queued
<1> HIDE DEF Queued
<1> QED BY <1>7, <1>9

(* The end of a step changes the state of its own task alone. *)
LEMMA EndOfTask ==
  ASSUME NEW t \in Nat, task \in [Lane -> Task(t)], NEW l \in Lane,
         NEW how \in Done \cup {"queued", "begun", "marked", "running"}, End(l, how)
  PROVE /\ task' \in [Lane -> Task(t)]
        /\ \A m \in Lane : m # l => task'[m] = task[m]
        /\ task'[l].state = how /\ task'[l].kind = task[l].kind /\ task'[l].slot = task[l].slot
        /\ task'[l].run = task[l].run /\ task'[l].previous = task[l].previous
<1> DEFINE x == task[l]
           y == [state |-> how, kind |-> x.kind, slot |-> x.slot, run |-> x.run,
                 previous |-> x.previous]
<1>1. x \in Task(t) OBVIOUS
<1>2. [x EXCEPT !.state = how] = y BY <1>1 DEF Task
<1>3. task' = [task EXCEPT ![l] = y] BY <1>2 DEF End
<1>4. y \in Task(t) BY <1>1 DEF Task
<1> HIDE DEF x
<1>5. y.state = how /\ y.kind = x.kind /\ y.slot = x.slot /\ y.run = x.run
      /\ y.previous = x.previous
  OBVIOUS
<1> HIDE DEF y
<1>6. task'[l] = y /\ task' \in [Lane -> Task(t)] /\ \A m \in Lane : m # l => task'[m] = task[m]
  BY <1>3, <1>4
<1> QED BY <1>5, <1>6 DEF x

(* A run that begins takes a free row, and the task remembers the mark. *)
LEMMA BeginOfRun ==
  ASSUME NEW t \in Nat, task \in [Lane -> Task(t)], NEW l \in Lane, last[l] \in 0 .. t,
         NEW name, NEW state \in {"begun", "marked"}, BeginRun(l, name, state)
  PROVE \E r \in Run :
        /\ job[r] = "none"
        /\ job' = [job EXCEPT ![r] = name]
        /\ status' = [status EXCEPT ![r] = "running"]
        /\ forSlot' = [forSlot EXCEPT ![r] = task[l].slot]
        /\ task' \in [Lane -> Task(t)]
        /\ \A m \in Lane : m # l => task'[m] = task[m]
        /\ task'[l].state = state /\ task'[l].kind = task[l].kind /\ task'[l].slot = task[l].slot
        /\ task'[l].run = r /\ task'[l].previous = last[l]
<1>1. PICK r \in Run :
        /\ job[r] = "none"
        /\ job' = [job EXCEPT ![r] = name]
        /\ status' = [status EXCEPT ![r] = "running"]
        /\ forSlot' = [forSlot EXCEPT ![r] = task[l].slot]
        /\ task' = [task EXCEPT ![l].run = r, ![l].state = state, ![l].previous = last[l]]
  BY DEF BeginRun, IsNext
<1> DEFINE x == task[l]
           y == [state |-> state, kind |-> x.kind, slot |-> x.slot, run |-> r,
                 previous |-> last[l]]
<1>2. x \in Task(t) OBVIOUS
<1>3. [[[x EXCEPT !.run = r] EXCEPT !.state = state] EXCEPT !.previous = last[l]] = y
  <2>1. PICK x1 \in Task(t) : x1 = [state |-> x.state, kind |-> x.kind, slot |-> x.slot,
                                    run |-> r, previous |-> x.previous]
    BY <1>2 DEF Task
  <2>2. [x EXCEPT !.run = r] = x1 BY <1>2, <2>1 DEF Task
  <2>3. PICK x2 \in Task(t) : x2 = [state |-> state, kind |-> x.kind, slot |-> x.slot,
                                    run |-> r, previous |-> x.previous]
    BY <1>2 DEF Task
  <2>4. [x1 EXCEPT !.state = state] = x2 BY <2>1, <2>3 DEF Task
  <2>5. [x2 EXCEPT !.previous = last[l]] = y BY <2>3 DEF Task
  <2> QED BY <2>2, <2>4, <2>5
<1>4. task' = [task EXCEPT ![l] = y] BY <1>1, <1>2, <1>3
<1>5. y \in Task(t) BY <1>2 DEF Task
<1> HIDE DEF x
<1>6. y.state = state /\ y.kind = x.kind /\ y.slot = x.slot /\ y.run = r
      /\ y.previous = last[l]
  OBVIOUS
<1> HIDE DEF y
<1>7. task'[l] = y /\ task' \in [Lane -> Task(t)] /\ \A m \in Lane : m # l => task'[m] = task[m]
  BY <1>4, <1>5
<1> QED BY <1>1, <1>6, <1>7 DEF x

-----------------------------------------------------------------------------
(* types *)
LEMMA InitialTypes == Init => TypeOK
<1> SUFFICES ASSUME Init PROVE TypeOK
  OBVIOUS
<1> USE SchedulerAssumption, ZeroSlot
<1>1. now \in 0 .. MaxTime /\ last \in [Lane -> 0 .. now] /\ hold \in [Lane -> 0 .. now]
      /\ began \in [Run -> 0 .. now]
  BY DEF Init
<1>2. task \in [Lane -> Task(now)]
  BY <1>1, IdleTask DEF Init
<1>3. RowsOK
  <2>1. now \in 0 .. MaxTime /\ crashes \in 0 .. MaxCrashes /\ orders \in 0 .. MaxOrders
    BY DEF Init
  <2>2. /\ job \in [Run -> {"none", "trader", "recovery"} \cup Reviews]
        /\ status \in [Run -> {"none", "running", "success", "failed"}]
        /\ proc \in [Run -> {"none", "live", "cycling"} \cup Finished]
        /\ forSlot \in [Run -> Slots]
    BY DEF Init
  <2>3. /\ rec \in [Slots -> {"none", "pending", "running", "success", "failed", "cancelled"}]
        /\ recAt \in [Slots -> 0 .. MaxTime + 1]
    BY DEF Init
  <2>4. /\ completions \subseteq Run /\ called \subseteq Run /\ answered \subseteq called
        /\ decided \subseteq Slots
    BY DEF Init
  <2>5. /\ worker \in {"up", "draining", "down"} /\ request \in {"none", "pending", "running"}
        /\ tick \in {"idle", "jobs", "others"}
    BY DEF Init
  <2>6. enabled \in BOOLEAN /\ paused \in BOOLEAN /\ ticked \in BOOLEAN
    BY DEF Init
  <2> QED BY <1>1, <2>1, <2>2, <2>3, <2>4, <2>5, <2>6 DEF RowsOK
<1> QED
  BY <1>2, <1>3 DEF TypeOK

(* A task past its beginning has its run. *)
TaskRuns == \A l \in Lane :
  task[l].state \in {"begun", "marked", "running"} => task[l].run \in Run

(* What a recovery leaves behind are statuses of its two tables. *)
LEMMA RecoveryRows ==
  ASSUME RowsOK, NEW r \in Run, NEW outcome \in {"success", "failed"}, FinishRecovery(r, outcome)
  PROVE /\ rec' \in [Slots -> {"none", "pending", "running", "success", "failed", "cancelled"}]
        /\ status' \in [Run -> {"none", "running", "success", "failed"}]
<1>1. forSlot[r] \in Slots BY DEF RowsOK
<1> QED BY <1>1 DEF RowsOK, FinishRecovery

(* No step takes a variable out of its type. *)
LEMMA TypesStay == ASSUME TypeOK, TaskRuns, [Next]_vars PROVE TypeOK'
<1> USE SchedulerAssumption, ZeroSlot
<1>0. now \in Nat /\ RowsOK /\ task \in [Lane -> Task(now)]
  BY DEF TypeOK, RowsOK
<1>1. CASE Advance
  <2>a. now' = now + 1 /\ now' \in 0 .. MaxTime /\ \A t \in 0 .. now : t \in 0 .. now'
    BY <1>0, <1>1 DEF RowsOK, Advance
  <2>b. last' \in [Lane -> 0 .. now'] /\ hold' \in [Lane -> 0 .. now']
        /\ began' \in [Run -> 0 .. now']
    BY <1>0, <1>1, <2>a DEF RowsOK, Advance, database, children
  <2>1. RowsOK' BY <1>0, <1>1, <2>a, <2>b DEF RowsOK, Advance, database, children
  <2>2. \A l \in Lane : task[l] \in Task(now + 1) BY <1>0, LaterTask
  <2> QED BY <1>0, <1>1, <2>1, <2>2 DEF TypeOK, Advance
<1>2. CASE Toggle
  BY <1>0, <1>2 DEF TypeOK, RowsOK, Toggle, database, children, memory
<1>3. CASE RequestReview
  BY <1>0, <1>3 DEF TypeOK, RowsOK, RequestReview, children, memory
<1>4. CASE TickReap
  <2>1. RowsOK' BY <1>0, <1>4 DEF RowsOK, TickReap, children, clock, Outcome
  <2> QED BY <1>0, <1>4, <2>1, IdleTask DEF TypeOK, TickReap, clock
<1>5. CASE TickJobs
  <2>1. RowsOK' BY <1>0, <1>5 DEF RowsOK, TickJobs, children, clock, database
  <2>2. Queued("natural") \in Task(now) BY <1>0, QueuedTask DEF RowsOK
  <2> QED BY <1>0, <1>5, <2>1, <2>2 DEF TypeOK, TickJobs, clock
<1>6. CASE TickOthers
  <2>1. RowsOK' BY <1>0, <1>6 DEF RowsOK, TickOthers, children, clock
  <2>2. Queued("recovery") \in Task(now) /\ Queued("manual") \in Task(now)
    BY <1>0, QueuedTask DEF RowsOK
  <2> QED BY <1>0, <1>6, <2>1, <2>2 DEF TypeOK, TickOthers, clock
<1>7. ASSUME NEW l \in Lane, ExecuteNatural(l) PROVE TypeOK'
  <2>0. last[l] \in 0 .. now /\ UNCHANGED now /\ task[l].slot \in Slots
    BY <1>0, <1>7 DEF ExecuteNatural, clock, RowsOK, Task
  <2>1. CASE BeginRun(l, l, "begun")
    <3>1. PICK r \in Run : /\ job' = [job EXCEPT ![r] = l]
                           /\ status' = [status EXCEPT ![r] = "running"]
                           /\ forSlot' = [forSlot EXCEPT ![r] = task[l].slot]
                           /\ task' \in [Lane -> Task(now)]
      BY <1>0, <2>0, <2>1, BeginOfRun
    <3>2. RowsOK' BY <1>0, <1>7, <2>0, <3>1 DEF RowsOK, ExecuteNatural, clock, Lane, Reviews
    <3> QED BY <2>0, <3>1, <3>2 DEF TypeOK
  <2>2. CASE End(l, "done") /\ NoRunBegun
    <3>1. task' \in [Lane -> Task(now)] BY <1>0, <2>2, EndOfTask DEF Done
    <3>2. RowsOK' BY <1>0, <1>7, <2>2 DEF RowsOK, ExecuteNatural, clock, NoRunBegun
    <3> QED BY <2>0, <3>1, <3>2 DEF TypeOK
  <2> QED BY <1>7, <2>1, <2>2 DEF ExecuteNatural
<1>8. ASSUME NEW l \in Lane, MarkLast(l) PROVE TypeOK'
  <2>1. RowsOK' BY <1>0, <1>8 DEF RowsOK, MarkLast, clock, children
  <2>2. task' \in [Lane -> Task(now)] BY <1>0, <1>8, EndOfTask DEF MarkLast
  <2> QED BY <1>8, <2>1, <2>2 DEF TypeOK, MarkLast, clock
<1>9. ASSUME NEW l \in Lane, Raise(l) PROVE TypeOK'
  <2>1. RowsOK' BY <1>0, <1>9 DEF RowsOK, Raise, clock, children, database
  <2>2. task' \in [Lane -> Task(now)] BY <1>0, <1>9, EndOfTask DEF Raise, Done
  <2> QED BY <1>9, <2>1, <2>2 DEF TypeOK, Raise, clock
<1>10. ASSUME NEW l \in Lane, Spawn(l) PROVE TypeOK'
  <2>0. task[l].run \in Run BY <1>10 DEF TaskRuns, Spawn, Is
  <2>1. RowsOK' BY <1>0, <1>10, <2>0 DEF RowsOK, Spawn, clock, database
  <2>2. task' \in [Lane -> Task(now)] BY <1>0, <1>10, EndOfTask DEF Spawn
  <2> QED BY <1>10, <2>1, <2>2 DEF TypeOK, Spawn, clock
<1>11. ASSUME NEW l \in Lane, LaunchFails(l) PROVE TypeOK'
  <2>0. task[l].previous \in 0 .. now BY <1>0 DEF Task
  <2>a. task[l].run \in Run BY <1>11 DEF TaskRuns, LaunchFails, Is
  <2>1. RowsOK'
    <3>1. CASE task[l].kind = "recovery"
      BY <1>0, <1>11, <3>1, <2>a DEF RowsOK, LaunchFails, clock, children, FinishRecovery
    <3>2. CASE task[l].kind = "natural"
      BY <1>0, <1>11, <3>2, <2>0, <2>a DEF RowsOK, LaunchFails, clock, children, FinishJob, Outcome
    <3>3. CASE task[l].kind = "manual"
      BY <1>0, <1>11, <3>3, <2>a DEF RowsOK, LaunchFails, clock, children, FinishJob, Outcome
    <3> QED BY <1>11, <3>1, <3>2, <3>3 DEF LaunchFails, Is
  <2>2. task' \in [Lane -> Task(now)] BY <1>0, <1>11, EndOfTask DEF LaunchFails, Done
  <2> QED BY <1>11, <2>1, <2>2 DEF TypeOK, LaunchFails, clock
<1>12. ASSUME NEW l \in Lane, Expire(l) PROVE TypeOK'
  BY <1>0, <1>12 DEF TypeOK, RowsOK, Expire, clock, database, memory, Finished
<1>13. ASSUME NEW l \in Lane, Finish(l) PROVE TypeOK'
  <2>0. task[l].run \in Run BY <1>13 DEF TaskRuns, Finish, Is
  <2>1. RowsOK' BY <1>0, <1>13, <2>0 DEF RowsOK, Finish, clock, children, FinishJob, Outcome
  <2>2. task' \in [Lane -> Task(now)] BY <1>0, <1>13, EndOfTask DEF Finish, Done
  <2> QED BY <1>13, <2>1, <2>2 DEF TypeOK, Finish, clock
<1>14. CASE ExecuteManual
  <2>0. last["review"] \in 0 .. now /\ UNCHANGED now /\ task["review"].slot \in Slots
        /\ "review" \in Lane
    BY <1>0, <1>14 DEF ExecuteManual, clock, RowsOK, Task, Lane
  <2>1. PICK r \in Run : /\ job' = [job EXCEPT ![r] = "manual"]
                         /\ status' = [status EXCEPT ![r] = "running"]
                         /\ forSlot' = [forSlot EXCEPT ![r] = task["review"].slot]
                         /\ task' \in [Lane -> Task(now)]
    BY <1>0, <1>14, <2>0, BeginOfRun DEF ExecuteManual
  <2>2. RowsOK' BY <1>0, <1>14, <2>0, <2>1 DEF RowsOK, ExecuteManual, clock, Reviews
  <2> QED BY <2>0, <2>1, <2>2 DEF TypeOK
<1>15. CASE ExecuteRecovery
  <2>0. last["trader"] \in 0 .. now /\ UNCHANGED now /\ task["trader"].slot \in Slots
        /\ "trader" \in Lane
    BY <1>0, <1>15 DEF ExecuteRecovery, clock, RowsOK, Task, Lane
  <2>1. CASE BeginRun("trader", "recovery", "begun") /\ rec' = [rec EXCEPT ![task["trader"].slot] = "running"]
    <3>1. PICK r \in Run : /\ job' = [job EXCEPT ![r] = "recovery"]
                           /\ status' = [status EXCEPT ![r] = "running"]
                           /\ forSlot' = [forSlot EXCEPT ![r] = task["trader"].slot]
                           /\ task' \in [Lane -> Task(now)]
      BY <1>0, <2>0, <2>1, BeginOfRun
    <3>2. RowsOK' BY <1>0, <1>15, <2>0, <2>1, <3>1 DEF RowsOK, ExecuteRecovery, clock
    <3> QED BY <2>0, <3>1, <3>2 DEF TypeOK
  <2>2. CASE End("trader", "done") /\ NoRunBegun /\ UNCHANGED rec
    <3>1. task' \in [Lane -> Task(now)] BY <1>0, <2>0, <2>2, EndOfTask DEF Done
    <3>2. RowsOK' BY <1>0, <1>15, <2>2 DEF RowsOK, ExecuteRecovery, clock, NoRunBegun
    <3> QED BY <2>0, <3>1, <3>2 DEF TypeOK
  <2> QED BY <1>15, <2>1, <2>2 DEF ExecuteRecovery
<1>16. CASE CheckRecovery
  <2>1. task["trader"].run \in Run BY <1>16 DEF TaskRuns, CheckRecovery, Is, Lane
  <2>2. RowsOK'
    <3>1. CASE FinishRecovery(task["trader"].run, "failed")
      BY <1>0, <1>16, <2>1, <3>1, RecoveryRows DEF RowsOK, CheckRecovery, clock, children
    <3>2. CASE UNCHANGED <<rec, status>>
      BY <1>0, <1>16, <3>2 DEF RowsOK, CheckRecovery, clock, children
    <3> QED BY <1>16, <3>1, <3>2 DEF CheckRecovery
  <2>3. task' \in [Lane -> Task(now)] BY <1>0, <1>16, EndOfTask DEF CheckRecovery, Done, Lane
  <2> QED BY <1>16, <2>2, <2>3 DEF TypeOK, CheckRecovery, clock
<1>17. CASE FinishRecovered
  <2>1. task["trader"].run \in Run BY <1>17 DEF TaskRuns, FinishRecovered, Is, Lane
  <2>2. \E outcome \in {"success", "failed"} : FinishRecovery(task["trader"].run, outcome)
    BY <1>17 DEF FinishRecovered
  <2>3. RowsOK'
    BY <1>0, <1>17, <2>1, <2>2, RecoveryRows DEF RowsOK, FinishRecovered, clock, children
  <2>4. task' \in [Lane -> Task(now)] BY <1>0, <1>17, EndOfTask DEF FinishRecovered, Done, Lane
  <2> QED BY <1>17, <2>3, <2>4 DEF TypeOK, FinishRecovered, clock
<1>18. CASE Shutdown
  <2>1. RowsOK' BY <1>0, <1>18 DEF RowsOK, Shutdown, children, database
  <2> QED BY <1>0, <1>18, <2>1, IdleTask DEF TypeOK, Shutdown
<1>19. CASE Leave
  <2>a. ticked' \in BOOLEAN BY <1>19 DEF Leave, Forget
  <2>b. hold' \in [Lane -> 0 .. now'] BY <1>0, <1>19 DEF Leave, Forget, clock
  <2>c. completions' \subseteq Run BY <1>19 DEF Leave, Forget
  <2>d. tick' \in {"idle", "jobs", "others"} BY <1>19 DEF Leave, Forget
  <2>1. RowsOK' BY <1>0, <1>19, <2>a, <2>b, <2>c, <2>d DEF RowsOK, Leave, clock, children, database
  <2> QED BY <1>0, <1>19, <2>1, IdleTask DEF TypeOK, Leave, Forget, clock
<1>20. CASE Crash
  <2>a. ticked' \in BOOLEAN BY <1>20 DEF Crash, Forget
  <2>b. hold' \in [Lane -> 0 .. now'] BY <1>0, <1>20 DEF Crash, Forget
  <2>c. completions' \subseteq Run BY <1>20 DEF Crash, Forget
  <2>d. tick' \in {"idle", "jobs", "others"} BY <1>20 DEF Crash, Forget
  <2>1. RowsOK' BY <1>0, <1>20, <2>a, <2>b, <2>c, <2>d DEF RowsOK, Crash, children, database
  <2> QED BY <1>0, <1>20, <2>1, IdleTask DEF TypeOK, Crash, Forget
<1>21. CASE Restart
  BY <1>0, <1>21 DEF TypeOK, RowsOK, Restart, clock, children, memory
<1>22. ASSUME NEW r \in Run, EnterCycle(r) PROVE TypeOK'
  BY <1>0, <1>22 DEF TypeOK, RowsOK, EnterCycle, ChildExits, clock, database, memory, Finished
<1>23. ASSUME NEW r \in Run, ModelAnswers(r) PROVE TypeOK'
  BY <1>0, <1>23, SlotInRange DEF TypeOK, RowsOK, ModelAnswers, clock, database, memory
<1>24. ASSUME NEW r \in Run, ModelRefuses(r) PROVE TypeOK'
  <2>1. SlotOf(now) \in Slots BY <1>0, SlotInRange DEF RowsOK
  <2>2. now + 1 \in 0 .. MaxTime + 1 BY <1>0 DEF RowsOK
  <2> QED BY <1>0, <1>24, <2>1, <2>2 DEF TypeOK, RowsOK, ModelRefuses, clock, memory
<1>25. ASSUME NEW r \in Run, ChildEnds(r) PROVE TypeOK'
  BY <1>0, <1>25 DEF TypeOK, RowsOK, ChildEnds, ChildExits, clock, database, memory, Finished
<1>26. CASE UNCHANGED vars
  BY <1>0, <1>26 DEF TypeOK, RowsOK, vars, clock, database, memory, children
<1> QED
  BY <1>1, <1>2, <1>3, <1>4, <1>5, <1>6, <1>7, <1>8, <1>9, <1>10, <1>11, <1>12, <1>13, <1>14,
     <1>15, <1>16, <1>17, <1>18, <1>19, <1>20, <1>21, <1>22, <1>23, <1>24, <1>25, <1>26 DEF Next
-----------------------------------------------------------------------------
(* What a lane holds: the task of its kinds, with a run of its name that has *)
(* no process before the launch and then one whose time is not yet over.     *)
Kinds(l)  == IF l = "trader" THEN {"natural", "recovery"} ELSE {"natural", "manual"}
NameOf(l) == IF task[l].kind = "natural" THEN l ELSE task[l].kind
InTime(r) == now <= began[r] + Timeout(r)

LaneOK(l) ==
  /\ task[l].state = "none" => task[l] = NoTask
  /\ task[l].state # "none" => task[l].kind \in Kinds(l)
  /\ task[l].state = "queued" => task[l].run = NoRun
  /\ task[l].state = "begun" => task[l].kind # "manual"
  /\ task[l].state \in {"begun", "marked", "running"} =>
       task[l].run \in Run /\ job[task[l].run] = NameOf(l)
  /\ task[l].state \in {"begun", "marked"} => proc[task[l].run] = "none"
  /\ task[l].state = "running" => proc[task[l].run] # "none" /\ InTime(task[l].run)

WorkerOK ==
  /\ worker # "up" => tick = "idle"
  /\ worker = "down" => ~ticked /\ \A l \in Lane : task[l] = NoTask

RunsOK == \A r \in Run :
  job[r] = "none" => proc[r] = "none" /\ status[r] = "none" /\ r \notin completions

LaneInv == TypeOK /\ WorkerOK /\ RunsOK /\ \A l \in Lane : LaneOK(l)

(* The lanes never share a run. *)
LEMMA NamesDiffer == ASSUME \A l \in Lane : LaneOK(l), NEW l \in Lane, NEW m \in Lane, l # m,
       task[l].state \in {"begun", "marked", "running"},
       task[m].state \in {"begun", "marked", "running"}
  PROVE task[l].run # task[m].run
BY DEF LaneOK, NameOf, Kinds, Lane

(* A lane whose task rests stays as it was if its run does. *)
LEMMA LaneRests == ASSUME TypeOK, NEW m \in Lane, LaneOK(m), task'[m] = task[m], now' = now,
       task[m].state \in {"begun", "marked", "running"} =>
         LET r == task[m].run IN
           /\ job'[r] = job[r] /\ began'[r] = began[r]
           /\ proc'[r] = proc[r] \/ (proc[r] # "none" /\ proc'[r] # "none")
  PROVE LaneOK(m)'
<1> DEFINE r == task[m].run
<1>1. task[m].state \in {"begun", "marked", "running"} =>
        /\ job'[r] = job[r] /\ began'[r] = began[r]
        /\ proc'[r] = proc[r] \/ (proc[r] # "none" /\ proc'[r] # "none")
  OBVIOUS
<1>2. NameOf(m)' = NameOf(m) BY DEF NameOf
<1>3. task[m].state = "running" => Timeout(r)' = Timeout(r) BY <1>1 DEF Timeout
<1>4. task[m].state = "running" => (InTime(r)' <=> InTime(r)) BY <1>1, <1>3 DEF InTime
<1> QED BY <1>1, <1>2, <1>4 DEF LaneOK

(* A lane whose task ends has nothing more to keep. *)
LEMMA EndedLane ==
  ASSUME TypeOK, \A m \in Lane : LaneOK(m), NEW l \in Lane, NEW how \in {"done", "raised"},
         End(l, how), task[l].state # "none", UNCHANGED <<now, job, proc, began>>
  PROVE \A m \in Lane : LaneOK(m)'
<1>1. now \in Nat /\ task \in [Lane -> Task(now)] BY DEF TypeOK, RowsOK
<1>2. ASSUME NEW m \in Lane, m # l PROVE LaneOK(m)' BY <1>1, <1>2, EndOfTask, LaneRests DEF Done
<1>3. LaneOK(l)' BY <1>1, EndOfTask DEF LaneOK, Done
<1> QED BY <1>2, <1>3

(* The lanes are empty at first. *)
LEMMA LanesAtFirst == Init => LaneInv
<1> SUFFICES ASSUME Init PROVE LaneInv
  OBVIOUS
<1>1. TypeOK BY InitialTypes
<1>2. WorkerOK BY DEF Init, WorkerOK
<1>3. RunsOK BY DEF Init, RunsOK
<1>4. ASSUME NEW l \in Lane PROVE LaneOK(l)
  BY <1>4 DEF Init, LaneOK, NoTask
<1> QED BY <1>1, <1>2, <1>3, <1>4 DEF LaneInv

(* Every step leaves the lanes in order. *)
LEMMA LanesStay == ASSUME LaneInv, [Next]_vars PROVE LaneInv'
<1> USE DEF LaneInv
<1>0. TypeOK'
  BY TypesStay DEF TaskRuns, LaneOK
<1>a. RowsOK /\ RowsOK' /\ now \in Nat /\ task \in [Lane -> Task(now)]
  BY <1>0 DEF TypeOK, RowsOK
<1>b. (\A m \in Lane : LaneOK(m)') /\ WorkerOK' /\ RunsOK' => LaneInv'
  BY <1>0
<1>1. CASE Advance
  <2>1. WorkerOK' BY <1>1 DEF WorkerOK, Advance
  <2>2. RunsOK' BY <1>1 DEF RunsOK, Advance, database, children
  <2>3. ASSUME NEW m \in Lane PROVE LaneOK(m)'
    <3>1. task'[m] = task[m] /\ job' = job /\ proc' = proc /\ began' = began /\ now' = now + 1
      BY <1>1 DEF Advance, database, children
    <3>2. ASSUME task[m].state = "running" PROVE InTime(task[m].run)'
      <4>1. now < began[task[m].run] + Timeout(task[m].run)
        BY <1>1, <3>2 DEF Advance, Quiet, Done
      <4>2. began[task[m].run] \in Nat /\ Timeout(task[m].run) \in Nat
        BY <1>a, <3>2, SchedulerAssumption DEF LaneOK, RowsOK, Timeout
      <4>3. Timeout(task[m].run)' = Timeout(task[m].run) BY <3>1 DEF Timeout
      <4> QED BY <1>a, <3>1, <4>1, <4>2, <4>3 DEF InTime
    <3>3. NameOf(m)' = NameOf(m) BY <3>1 DEF NameOf
    <3> QED BY <3>1, <3>2, <3>3 DEF LaneOK
  <2> QED BY <2>1, <2>2, <2>3, <1>b
<1>2. CASE Toggle
  <2>1. WorkerOK' BY <1>2 DEF WorkerOK, Toggle, database, memory, children
  <2>2. RunsOK' BY <1>2 DEF RunsOK, Toggle, database, memory, children
  <2>3. ASSUME NEW m \in Lane PROVE LaneOK(m)'
    BY <1>2, LaneRests DEF Toggle, database, memory, children
  <2> QED BY <2>1, <2>2, <2>3, <1>b
<1>3. CASE RequestReview
  <2>1. WorkerOK' BY <1>3 DEF WorkerOK, RequestReview, memory, children
  <2>2. RunsOK' BY <1>3 DEF RunsOK, RequestReview, memory, children
  <2>3. ASSUME NEW m \in Lane PROVE LaneOK(m)'
    BY <1>3, LaneRests DEF RequestReview, memory, children
  <2> QED BY <2>1, <2>2, <2>3, <1>b
<1>4. CASE TickReap
  <2>1. WorkerOK' BY <1>4 DEF WorkerOK, TickReap, clock
  <2>2. PICK flushed \in SUBSET completions :
          /\ status' = [r \in Run |-> IF r \in flushed THEN Outcome(r) ELSE status[r]]
          /\ completions' = completions \ flushed
    BY <1>4 DEF TickReap
  <2>3. RunsOK' BY <1>4, <2>2 DEF RunsOK, TickReap, children
  <2>4. ASSUME NEW m \in Lane PROVE LaneOK(m)'
    <3>1. CASE task'[m] = task[m]
      BY <1>4, <3>1, LaneRests DEF TickReap, clock, children
    <3>2. CASE task'[m] = NoTask
      BY <3>2 DEF LaneOK, NoTask
    <3> QED BY <1>4, <3>1, <3>2 DEF TickReap
  <2> QED BY <2>1, <2>3, <2>4, <1>b
<1>5. CASE TickJobs
  <2>1. WorkerOK' BY <1>5 DEF WorkerOK, TickJobs, clock
  <2>2. RunsOK' BY <1>5 DEF RunsOK, TickJobs, database, children
  <2>3. ASSUME NEW m \in Lane PROVE LaneOK(m)'
    <3>1. CASE task'[m] = task[m]
      BY <1>5, <3>1, LaneRests DEF TickJobs, clock, children, database
    <3>2. CASE task'[m] = Queued("natural")
      BY <1>a, <3>2, QueuedTask DEF LaneOK, Kinds, Lane, RowsOK
    <3> QED BY <1>5, <3>1, <3>2 DEF TickJobs
  <2> QED BY <2>1, <2>2, <2>3, <1>b
<1>6. CASE TickOthers
  <2>1. WorkerOK' BY <1>6 DEF WorkerOK, TickOthers, clock
  <2>2. RunsOK' BY <1>6 DEF RunsOK, TickOthers, database, children
  <2>3. ASSUME NEW m \in Lane PROVE LaneOK(m)'
    <3>1. CASE task'[m] = task[m]
      BY <1>6, <3>1, LaneRests DEF TickOthers, clock, children, database
    <3>2. CASE m = "trader" /\ task'[m] = Queued("recovery")
      BY <1>a, <3>2, QueuedTask DEF LaneOK, Kinds, RowsOK
    <3>3. CASE m = "review" /\ task'[m] = Queued("manual")
      BY <1>a, <3>3, QueuedTask DEF LaneOK, Kinds, RowsOK
    <3> QED BY <1>6, <3>1, <3>2, <3>3 DEF TickOthers
  <2> QED BY <2>1, <2>2, <2>3, <1>b
<1>7. ASSUME NEW l \in Lane, ExecuteNatural(l) PROVE LaneInv'
  <2>0. UNCHANGED <<now, worker, tick, ticked, completions, proc, began>> /\ worker # "down"
        /\ task[l].state = "queued" /\ task[l].kind = "natural" /\ last[l] \in 0 .. now
    BY <1>a, <1>7 DEF ExecuteNatural, clock, Is, RowsOK
  <2>1. WorkerOK' BY <2>0 DEF WorkerOK
  <2>2. CASE BeginRun(l, l, "begun")
    <3>1. PICK r \in Run :
            /\ job[r] = "none" /\ job' = [job EXCEPT ![r] = l]
            /\ status' = [status EXCEPT ![r] = "running"]
            /\ \A m \in Lane : m # l => task'[m] = task[m]
            /\ task'[l].state = "begun" /\ task'[l].kind = task[l].kind /\ task'[l].run = r
      BY <1>a, <2>0, <2>2, BeginOfRun
    <3>2. RunsOK' BY <1>a, <2>0, <3>1 DEF RunsOK, RowsOK, Lane
    <3>3. ASSUME NEW m \in Lane, m # l PROVE LaneOK(m)'
      BY <1>a, <2>0, <3>1, <3>3, LaneRests DEF LaneOK, RunsOK, NameOf, Lane, RowsOK, Kinds
    <3>4. LaneOK(l)'
      BY <1>a, <2>0, <3>1 DEF LaneOK, NameOf, Lane, RowsOK, Kinds, RunsOK
    <3> QED BY <2>1, <3>2, <3>3, <3>4, <1>b
  <2>3. CASE End(l, "done") /\ NoRunBegun
    BY <1>a, <1>b, <2>0, <2>1, <2>3, EndedLane DEF NoRunBegun, RunsOK
  <2> QED BY <1>7, <2>2, <2>3 DEF ExecuteNatural
<1>8. ASSUME NEW l \in Lane, MarkLast(l) PROVE LaneInv'
  <2>0. UNCHANGED <<now, worker, tick, ticked, completions, status, job, proc, began>>
        /\ worker # "down" /\ task[l].state = "begun" /\ End(l, "marked")
    BY <1>8 DEF MarkLast, clock, Is, children
  <2>1. WorkerOK' /\ RunsOK' BY <2>0 DEF WorkerOK, RunsOK
  <2>2. \A m \in Lane : m # l => LaneOK(m)'
    BY <1>a, <2>0, EndOfTask, LaneRests
  <2>3. LaneOK(l)'
    BY <1>a, <2>0, EndOfTask DEF LaneOK, NameOf
  <2> QED BY <2>1, <2>2, <2>3, <1>b
<1>9. ASSUME NEW l \in Lane, Raise(l) PROVE LaneInv'
  BY <1>9, <1>a, <1>b, EndedLane
     DEF Raise, clock, children, database, Is, WorkerOK, RunsOK, Done
<1>10. ASSUME NEW l \in Lane, Spawn(l) PROVE LaneInv'
  <2> DEFINE r == task[l].run
  <2>0. UNCHANGED <<now, worker, tick, ticked, completions, status, job>>
        /\ worker # "down" /\ task[l].state = "marked" /\ End(l, "running")
        /\ proc' = [proc EXCEPT ![r] = "live"] /\ began' = [began EXCEPT ![r] = now]
    BY <1>10 DEF Spawn, clock, Is, database
  <2>1. r \in Run /\ job[r] = NameOf(l) /\ job[r] # "none" /\ task[l].kind \in Kinds(l)
    BY <2>0 DEF LaneOK, NameOf, Kinds, Lane
  <2>2. WorkerOK' BY <2>0 DEF WorkerOK
  <2>3. RunsOK' BY <1>a, <2>0, <2>1 DEF RunsOK, RowsOK
  <2>4. ASSUME NEW m \in Lane, m # l PROVE LaneOK(m)'
    <3>1. task[m].state \in {"begun", "marked", "running"} => task[m].run # r
      BY <2>0, <2>4, NamesDiffer
    <3> HIDE DEF r
    <3>2. task'[m] = task[m] BY <1>a, <2>0, <2>4, EndOfTask
    <3>3. task[m].state \in {"begun", "marked", "running"} =>
            proc'[task[m].run] = proc[task[m].run] /\ began'[task[m].run] = began[task[m].run]
      BY <1>a, <2>0, <3>1 DEF RowsOK
    <3> QED BY <2>0, <3>2, <3>3, LaneRests
  <2>5. LaneOK(l)'
    <3>1. /\ task'[l].state = "running" /\ task'[l].kind = task[l].kind /\ task'[l].run = r
          /\ proc'[r] = "live" /\ began'[r] = now
      BY <1>a, <2>0, <2>1, EndOfTask DEF RowsOK
    <3>2. InTime(task[l].run)'
      BY <1>a, <2>0, <3>1, SchedulerAssumption DEF InTime, Timeout
    <3>3. NameOf(l)' = NameOf(l) BY <3>1 DEF NameOf
    <3> HIDE DEF r
    <3> QED BY <2>0, <2>1, <3>1, <3>2, <3>3 DEF LaneOK
  <2> QED BY <2>2, <2>3, <2>4, <2>5, <1>b
<1>11. ASSUME NEW l \in Lane, LaunchFails(l) PROVE LaneInv'
  <2> DEFINE r == task[l].run
  <2>0. /\ UNCHANGED <<now, worker, tick, ticked, job, proc, began>>
        /\ worker # "down" /\ task[l].state = "marked" /\ End(l, "done")
        /\ \/ FinishRecovery(r, "failed") /\ UNCHANGED completions
           \/ FinishJob(r)
    BY <1>11 DEF LaunchFails, clock, Is, children
  <2>1. r \in Run /\ job[r] # "none"
    BY <2>0 DEF LaneOK, NameOf, Kinds, Lane
  <2>2. WorkerOK' BY <2>0 DEF WorkerOK
  <2>3. RunsOK' BY <1>a, <2>0, <2>1 DEF RunsOK, FinishRecovery, FinishJob, RowsOK
  <2> QED BY <1>a, <1>b, <2>0, <2>2, <2>3, EndedLane
<1>12. ASSUME NEW l \in Lane, Expire(l) PROVE LaneInv'
  <2> DEFINE r == task[l].run
  <2>0. UNCHANGED <<now, worker, tick, ticked, job, status, completions, task, began>>
        /\ r \in Run /\ proc[r] # "none" /\ proc' = [proc EXCEPT ![r] = "killed"]
    BY <1>12 DEF Expire, clock, Is, database, memory, children, LaneOK
  <2>1. WorkerOK' BY <2>0 DEF WorkerOK
  <2>2. RunsOK' BY <1>a, <2>0 DEF RunsOK, RowsOK
  <2> HIDE DEF r
  <2>3. ASSUME NEW m \in Lane PROVE LaneOK(m)' BY <1>a, <2>0, LaneRests DEF RowsOK
  <2> QED BY <2>1, <2>2, <2>3, <1>b
<1>13. ASSUME NEW l \in Lane, Finish(l) PROVE LaneInv'
  <2> DEFINE r == task[l].run
  <2>0. UNCHANGED <<now, worker, tick, ticked, job, proc, began>>
        /\ worker # "down" /\ task[l].state = "running" /\ End(l, "done") /\ FinishJob(r)
    BY <1>13 DEF Finish, clock, Is, children
  <2>1. r \in Run /\ job[r] # "none"
    BY <2>0 DEF LaneOK, NameOf, Kinds, Lane
  <2>2. WorkerOK' BY <2>0 DEF WorkerOK
  <2>3. RunsOK' BY <1>a, <2>0, <2>1 DEF RunsOK, FinishJob, RowsOK
  <2> QED BY <1>a, <1>b, <2>0, <2>2, <2>3, EndedLane
<1>14. CASE ExecuteManual
  <2>0. /\ UNCHANGED <<now, worker, tick, ticked, completions, proc, began>> /\ worker # "down"
        /\ "review" \in Lane /\ last["review"] \in 0 .. now
        /\ task["review"].state = "queued" /\ task["review"].kind = "manual"
    BY <1>a, <1>14 DEF ExecuteManual, clock, Is, RowsOK, Lane
  <2>1. WorkerOK' BY <2>0 DEF WorkerOK
  <2>2. BeginRun("review", "manual", "marked") BY <1>14 DEF ExecuteManual
  <2>3. PICK r \in Run :
            /\ job[r] = "none" /\ job' = [job EXCEPT ![r] = "manual"]
            /\ status' = [status EXCEPT ![r] = "running"]
            /\ \A m \in Lane : m # "review" => task'[m] = task[m]
            /\ task'["review"].state = "marked" /\ task'["review"].kind = "manual"
            /\ task'["review"].run = r
    BY <1>a, <2>0, <2>2, BeginOfRun
  <2>4. RunsOK' BY <1>a, <2>0, <2>3 DEF RunsOK, RowsOK
  <2>5. ASSUME NEW m \in Lane, m # "review" PROVE LaneOK(m)'
    BY <1>a, <2>0, <2>3, <2>5, LaneRests DEF LaneOK, RunsOK, NameOf, Lane, RowsOK, Kinds
  <2>6. LaneOK("review")'
    BY <1>a, <2>0, <2>3 DEF LaneOK, NameOf, Lane, RowsOK, Kinds, RunsOK
  <2> QED BY <2>1, <2>4, <2>5, <2>6, <1>b
<1>15. CASE ExecuteRecovery
  <2>0. /\ UNCHANGED <<now, worker, tick, ticked, completions, proc, began>> /\ worker # "down"
        /\ "trader" \in Lane /\ last["trader"] \in 0 .. now
        /\ task["trader"].state = "queued" /\ task["trader"].kind = "recovery"
    BY <1>a, <1>15 DEF ExecuteRecovery, clock, Is, RowsOK, Lane
  <2>1. WorkerOK' BY <2>0 DEF WorkerOK
  <2>2. CASE BeginRun("trader", "recovery", "begun")
    <3>1. PICK r \in Run :
            /\ job[r] = "none" /\ job' = [job EXCEPT ![r] = "recovery"]
            /\ status' = [status EXCEPT ![r] = "running"]
            /\ \A m \in Lane : m # "trader" => task'[m] = task[m]
            /\ task'["trader"].state = "begun" /\ task'["trader"].kind = "recovery"
            /\ task'["trader"].run = r
      BY <1>a, <2>0, <2>2, BeginOfRun
    <3>2. RunsOK' BY <1>a, <2>0, <3>1 DEF RunsOK, RowsOK
    <3>3. ASSUME NEW m \in Lane, m # "trader" PROVE LaneOK(m)'
      BY <1>a, <2>0, <3>1, <3>3, LaneRests DEF LaneOK, RunsOK, NameOf, Lane, RowsOK, Kinds
    <3>4. LaneOK("trader")'
      BY <1>a, <2>0, <3>1 DEF LaneOK, NameOf, Lane, RowsOK, Kinds, RunsOK
    <3> QED BY <2>1, <3>2, <3>3, <3>4, <1>b
  <2>3. CASE End("trader", "done") /\ NoRunBegun
    BY <1>a, <1>b, <2>0, <2>1, <2>3, EndedLane DEF NoRunBegun, RunsOK
  <2> QED BY <1>15, <2>2, <2>3 DEF ExecuteRecovery
<1>16. CASE CheckRecovery
  <2>r. PICK r \in Run : r = task["trader"].run
    BY <1>16 DEF CheckRecovery, Is, LaneOK, Lane
  <2>0. /\ UNCHANGED <<now, worker, tick, ticked, job, proc, began, completions>>
        /\ worker # "down" /\ task["trader"].state = "begun" /\ "trader" \in Lane
    BY <1>16 DEF CheckRecovery, clock, Is, children, Lane
  <2>1. job[r] # "none" BY <2>0, <2>r DEF LaneOK, NameOf, Kinds
  <2>2. WorkerOK' BY <2>0 DEF WorkerOK
  <2>3. CASE End("trader", "marked") /\ UNCHANGED <<rec, status>>
    <3>1. RunsOK' BY <2>0, <2>3 DEF RunsOK
    <3>2. ASSUME NEW m \in Lane, m # "trader" PROVE LaneOK(m)'
      BY <1>a, <2>0, <2>3, <3>2, EndOfTask, LaneRests
    <3>3. LaneOK("trader")'
      BY <1>a, <2>0, <2>3, EndOfTask DEF LaneOK, NameOf
    <3> QED BY <2>2, <3>1, <3>2, <3>3, <1>b
  <2>4. CASE End("trader", "done") /\ FinishRecovery(task["trader"].run, "failed")
    <3>1. RunsOK' BY <1>a, <2>0, <2>r, <2>1, <2>4 DEF RunsOK, FinishRecovery, RowsOK
    <3> QED BY <1>a, <1>b, <2>0, <2>2, <2>4, <3>1, EndedLane
  <2> QED BY <1>16, <2>3, <2>4 DEF CheckRecovery
<1>17. CASE FinishRecovered
  <2>r. PICK r \in Run : r = task["trader"].run
    BY <1>17 DEF FinishRecovered, Is, LaneOK, Lane
  <2>0. /\ UNCHANGED <<now, worker, tick, ticked, job, proc, began, completions>>
        /\ worker # "down" /\ task["trader"].state = "running" /\ "trader" \in Lane
        /\ End("trader", "done")
        /\ FinishRecovery(r, "success") \/ FinishRecovery(r, "failed")
    BY <1>17, <2>r DEF FinishRecovered, clock, Is, children, Lane
  <2>1. job[r] # "none" BY <2>0, <2>r DEF LaneOK, NameOf, Kinds
  <2>2. WorkerOK' BY <2>0 DEF WorkerOK
  <2>3. RunsOK' BY <1>a, <2>0, <2>1 DEF RunsOK, FinishRecovery, RowsOK
  <2> QED BY <1>a, <1>b, <2>0, <2>2, <2>3, EndedLane
<1>18. CASE Shutdown
  <2>1. WorkerOK' BY <1>18 DEF WorkerOK, Shutdown
  <2>2. RunsOK' BY <1>18 DEF RunsOK, Shutdown, database, children
  <2>3. ASSUME NEW m \in Lane PROVE LaneOK(m)'
    <3>1. CASE task'[m] = task[m]
      BY <1>18, <3>1, LaneRests DEF Shutdown, database, children
    <3>2. CASE task'[m] = NoTask
      BY <3>2 DEF LaneOK, NoTask
    <3> QED BY <1>18, <3>1, <3>2 DEF Shutdown
  <2> QED BY <2>1, <2>2, <2>3, <1>b
<1>19. CASE Leave
  <2>1. /\ worker' = "down" /\ tick' = "idle" /\ ~ticked' /\ \A l \in Lane : task'[l] = NoTask
        /\ completions' = {} /\ UNCHANGED <<job, status, proc>>
    BY <1>19 DEF Leave, Forget, database, children
  <2>2. WorkerOK' BY <2>1 DEF WorkerOK
  <2>3. RunsOK' BY <2>1 DEF RunsOK
  <2>4. ASSUME NEW m \in Lane PROVE LaneOK(m)' BY <2>1 DEF LaneOK, NoTask
  <2> QED BY <2>2, <2>3, <2>4, <1>b
<1>20. CASE Crash
  <2>1. /\ worker' = "down" /\ tick' = "idle" /\ ~ticked' /\ \A l \in Lane : task'[l] = NoTask
        /\ completions' = {} /\ UNCHANGED <<job, status, proc>>
    BY <1>20 DEF Crash, Forget, database, children
  <2>2. WorkerOK' BY <2>1 DEF WorkerOK
  <2>3. RunsOK' BY <2>1 DEF RunsOK
  <2>4. ASSUME NEW m \in Lane PROVE LaneOK(m)' BY <2>1 DEF LaneOK, NoTask
  <2> QED BY <2>2, <2>3, <2>4, <1>b
<1>21. CASE Restart
  <2>1. WorkerOK' BY <1>21 DEF WorkerOK, Restart, memory
  <2>2. RunsOK' BY <1>21 DEF RunsOK, Restart, memory, children
  <2>3. ASSUME NEW m \in Lane PROVE LaneOK(m)'
    BY <1>21, LaneRests DEF Restart, clock, memory, children
  <2> QED BY <2>1, <2>2, <2>3, <1>b
<1>22. ASSUME NEW r \in Run, EnterCycle(r) PROVE LaneInv'
  <2>1. /\ UNCHANGED <<now, worker, tick, ticked, job, status, completions, task, began>>
        /\ proc[r] # "none"
        /\ \E code \in {"cycling", "ok", "bad"} : proc' = [proc EXCEPT ![r] = code]
    BY <1>22 DEF EnterCycle, ChildExits, clock, database, memory
  <2>2. WorkerOK' BY <2>1 DEF WorkerOK
  <2>3. RunsOK' BY <1>a, <2>1 DEF RunsOK, RowsOK
  <2>4. ASSUME NEW m \in Lane PROVE LaneOK(m)' BY <1>a, <2>1, LaneRests DEF RowsOK
  <2> QED BY <2>2, <2>3, <2>4, <1>b
<1>25. ASSUME NEW r \in Run, ChildEnds(r) PROVE LaneInv'
  <2>1. /\ UNCHANGED <<now, worker, tick, ticked, job, status, completions, task, began>>
        /\ proc[r] # "none"
        /\ \E code \in {"cycling", "ok", "bad"} : proc' = [proc EXCEPT ![r] = code]
    BY <1>25 DEF ChildEnds, ChildExits, clock, database, memory
  <2>2. WorkerOK' BY <2>1 DEF WorkerOK
  <2>3. RunsOK' BY <1>a, <2>1 DEF RunsOK, RowsOK
  <2>4. ASSUME NEW m \in Lane PROVE LaneOK(m)' BY <1>a, <2>1, LaneRests DEF RowsOK
  <2> QED BY <2>2, <2>3, <2>4, <1>b
<1>23. ASSUME NEW r \in Run, ModelAnswers(r) PROVE LaneInv'
  <2>1. UNCHANGED <<now, worker, tick, ticked, job, status, completions, task, began, proc>>
    BY <1>23 DEF ModelAnswers, clock, database, memory
  <2>2. WorkerOK' BY <2>1 DEF WorkerOK
  <2>3. RunsOK' BY <2>1 DEF RunsOK
  <2>4. ASSUME NEW m \in Lane PROVE LaneOK(m)' BY <2>1, LaneRests
  <2> QED BY <2>2, <2>3, <2>4, <1>b
<1>24. ASSUME NEW r \in Run, ModelRefuses(r) PROVE LaneInv'
  <2>1. UNCHANGED <<now, worker, tick, ticked, job, status, completions, task, began, proc>>
    BY <1>24 DEF ModelRefuses, clock, database, memory
  <2>2. WorkerOK' BY <2>1 DEF WorkerOK
  <2>3. RunsOK' BY <2>1 DEF RunsOK
  <2>4. ASSUME NEW m \in Lane PROVE LaneOK(m)' BY <2>1, LaneRests
  <2> QED BY <2>2, <2>3, <2>4, <1>b
<1>26. CASE UNCHANGED vars
  <2>1. UNCHANGED <<now, worker, tick, ticked, job, status, completions, task, began, proc>>
    BY <1>26 DEF vars, clock, database, memory, children
  <2>2. WorkerOK' BY <2>1 DEF WorkerOK
  <2>3. RunsOK' BY <2>1 DEF RunsOK
  <2>4. ASSUME NEW m \in Lane PROVE LaneOK(m)' BY <2>1, LaneRests
  <2> QED BY <2>2, <2>3, <2>4, <1>b
<1> QED
  BY <1>1, <1>2, <1>3, <1>4, <1>5, <1>6, <1>7, <1>8, <1>9, <1>10, <1>11, <1>12, <1>13, <1>14,
     <1>15, <1>16, <1>17, <1>18, <1>19, <1>20, <1>21, <1>22, <1>23, <1>24, <1>25, <1>26 DEF Next
-----------------------------------------------------------------------------
(* What is told of the runs: while the worker lives, a run with a process    *)
(* and no outcome is held by its task or among the pending completions.      *)
ToldWell == \A r \in Run : status[r] = "success" => proc[r] = "ok"
RunsHeld == worker # "down" =>
  \A r \in Run : job[r] # "recovery" /\ proc[r] # "none" /\ status[r] = "running" => Held(r)
RequestHeld == worker # "down" /\ request = "running" =>
  \E r \in Run : job[r] = "manual" /\ Held(r)
Told == ToldWell /\ RunsHeld /\ RequestHeld

(* A run that a step leaves alone stays held. *)
LEMMA StillHeld == ASSUME NEW r \in Run, Held(r), r \in completions => r \in completions',
       \A l \in Lane : task[l].run = r /\ task[l].state \notin Done =>
                         task'[l].run = r /\ task'[l].state \notin Done
  PROVE Held(r)'
BY DEF Held

(* Every step that leaves the tasks, the processes and the rows alone.       *)
LEMMA ToldRests == ASSUME Told,
       UNCHANGED <<worker, job, status, proc, completions, task>>,
       request' = request \/ request' # "running"
  PROVE Told'
BY DEF Told, ToldWell, RunsHeld, RequestHeld, Held

(* A run that is over is told at once or kept to be told. *)
LEMMA JobTold ==
  ASSUME RowsOK, now \in Nat, task \in [Lane -> Task(now)], ToldWell, RunsHeld, RequestHeld,
         NEW l \in Lane, End(l, "done"), NEW r \in Run, r = task[l].run, FinishJob(r),
         UNCHANGED <<worker, job, proc>>
  PROVE Told'
<1>1. \A q \in Run : Held(q) /\ q # r => Held(q)'
  BY EndOfTask, StillHeld DEF Done, FinishJob
<1>2. CASE /\ status' = [status EXCEPT ![r] = Outcome(r)]
           /\ request' = IF request = "running" /\ job[r] = "manual" THEN "none" ELSE request
  <2>1. \A q \in Run : q # r => status'[q] = status[q]
    BY <1>2 DEF RowsOK
  <2>2. status'[r] = Outcome(r) BY <1>2 DEF RowsOK
  <2>3. ToldWell' BY <2>1, <2>2 DEF ToldWell, Outcome
  <2>4. RunsHeld' BY <1>1, <2>1, <2>2 DEF RunsHeld, Outcome
  <2>5. RequestHeld' BY <1>1, <1>2 DEF RequestHeld
  <2> QED BY <2>3, <2>4, <2>5 DEF Told
<1>3. CASE completions' = completions \cup {r} /\ UNCHANGED <<status, request>>
  <2>1. Held(r)' BY <1>3 DEF Held
  <2> QED BY <1>1, <1>3, <2>1 DEF Told, ToldWell, RunsHeld, RequestHeld
<1> QED BY <1>2, <1>3 DEF FinishJob

(* The end of a recovery, told in its row and in its run (finish_ai_recovery). *)
LEMMA RecoveryTold ==
  ASSUME RowsOK, now \in Nat, task \in [Lane -> Task(now)], ToldWell, RunsHeld, RequestHeld,
         NEW l \in Lane, End(l, "done"), NEW r \in Run, r = task[l].run, job[r] = "recovery",
         NEW how \in {"success", "failed"}, FinishRecovery(r, how),
         how = "success" => proc[r] = "ok",
         UNCHANGED <<worker, job, proc, completions, request>>
  PROVE Told'
<1>1. \A q \in Run : Held(q) /\ q # r => Held(q)'
  BY EndOfTask, StillHeld DEF Done
<1>2. \A q \in Run : q # r => status'[q] = status[q]
  BY DEF FinishRecovery, RowsOK
<1>3. status'[r] = status[r] \/ status'[r] = how
  BY DEF FinishRecovery, RowsOK
<1> QED BY <1>1, <1>2, <1>3 DEF Told, ToldWell, RunsHeld, RequestHeld

(* The end of a process tells nothing yet. *)
LEMMA ProcessTold ==
  ASSUME RowsOK, ToldWell, RunsHeld, RequestHeld, NEW r \in Run, NEW code,
         proc' = [proc EXCEPT ![r] = code], proc[r] # "none", proc[r] # "ok",
         UNCHANGED <<worker, job, status, completions, request, task>>
  PROVE Told'
<1>1. \A q \in Run : q # r => proc'[q] = proc[q]
  BY DEF RowsOK
<1>2. \A q \in Run : Held(q)' <=> Held(q)
  BY DEF Held
<1> QED BY <1>1, <1>2 DEF Told, ToldWell, RunsHeld, RequestHeld

(* Every step tells what it ends, or leaves somebody to tell it. *)
LEMMA ToldStays == ASSUME LaneInv, LaneInv', Told, [Next]_vars PROVE Told'
<1>a. /\ TypeOK /\ RowsOK /\ now \in Nat /\ task \in [Lane -> Task(now)] /\ RunsOK
      /\ \A l \in Lane : LaneOK(l)
  BY DEF LaneInv, TypeOK, RowsOK
<1>b. ToldWell /\ RunsHeld /\ RequestHeld
  BY DEF Told
<1>1. CASE Advance
  BY <1>1, ToldRests DEF Advance, database, children
<1>2. CASE Toggle
  BY <1>2, ToldRests DEF Toggle, database, children, memory
<1>3. CASE RequestReview
  BY <1>3, ToldRests DEF RequestReview, children, memory
<1>4. CASE TickReap
  <2>1. PICK flushed \in SUBSET completions :
          /\ status' = [r \in Run |-> IF r \in flushed THEN Outcome(r) ELSE status[r]]
          /\ request' = IF request = "running" /\ \E r \in flushed : job[r] = "manual"
                        THEN "none" ELSE request
          /\ completions' = completions \ flushed
    BY <1>4 DEF TickReap
  <2>2. /\ UNCHANGED <<worker, job, proc>> /\ worker = "up"
        /\ \A l \in Lane : task[l].state \notin Done => task'[l] = task[l]
    BY <1>4 DEF TickReap, children
  <2>3. \A r \in Run : r \in flushed \/ (status'[r] = status[r] /\ (Held(r) => Held(r)'))
    BY <2>1, <2>2 DEF Held
  <2>4. \A r \in flushed : r \in Run /\ status'[r] = Outcome(r)
    BY <1>a, <2>1 DEF RowsOK
  <2>5. ToldWell' BY <1>b, <2>1, <2>2, <2>3, <2>4 DEF ToldWell, Outcome
  <2>6. RunsHeld' BY <1>b, <2>1, <2>2, <2>3, <2>4 DEF RunsHeld, Outcome
  <2>7. RequestHeld' BY <1>b, <2>1, <2>2, <2>3 DEF RequestHeld
  <2> QED BY <2>5, <2>6, <2>7 DEF Told
<1>5. CASE TickJobs
  <2>1. /\ UNCHANGED <<worker, job, status, proc, completions, request>>
        /\ \A l \in Lane : task[l] # NoTask => task'[l] = task[l]
    BY <1>5 DEF TickJobs, children, database, Free
  <2>2. \A r \in Run : Held(r) => Held(r)'
    BY <2>1, StillHeld DEF NoTask, Done
  <2> QED BY <1>b, <2>1, <2>2 DEF Told, ToldWell, RunsHeld, RequestHeld
<1>6. CASE TickOthers
  <2>1. /\ UNCHANGED <<worker, job, status, proc, completions, request>>
        /\ \A l \in Lane : task[l] # NoTask => task'[l] = task[l]
    BY <1>6 DEF TickOthers, children, database, Free
  <2>2. \A r \in Run : Held(r) => Held(r)'
    BY <2>1, StillHeld DEF NoTask, Done
  <2> QED BY <1>b, <2>1, <2>2 DEF Told, ToldWell, RunsHeld, RequestHeld
<1>7. ASSUME NEW l \in Lane, ExecuteNatural(l) PROVE Told'
  <2>0. /\ UNCHANGED <<worker, proc, completions, request>> /\ task[l].state = "queued"
        /\ last[l] \in 0 .. now
    BY <1>a, <1>7 DEF ExecuteNatural, Is, RowsOK
  <2>1. CASE BeginRun(l, l, "begun")
    <3>1. PICK r \in Run :
           /\ job[r] = "none" /\ job' = [job EXCEPT ![r] = l]
           /\ status' = [status EXCEPT ![r] = "running"]
           /\ \A m \in Lane : m # l => task'[m] = task[m]
           /\ task'[l].state = "begun" /\ task'[l].run = r
      BY <1>a, <2>0, <2>1, BeginOfRun
    <3>2. \A q \in Run : Held(q) => Held(q)'
      BY <1>a, <2>0, <3>1, StillHeld DEF LaneOK, NoRun, Run
    <3>3. Held(r)' /\ proc[r] = "none"
      BY <1>a, <2>0, <3>1 DEF Held, RunsOK, Done
    <3>4. \A q \in Run : q # r => status'[q] = status[q] /\ job'[q] = job[q]
      BY <1>a, <3>1 DEF RowsOK
    <3>5. status'[r] = "running" /\ job'[r] = l
      BY <1>a, <3>1 DEF RowsOK
    <3> QED
      BY <1>a, <1>b, <2>0, <3>1, <3>2, <3>3, <3>4, <3>5
         DEF Told, ToldWell, RunsHeld, RequestHeld
  <2>2. CASE End(l, "done") /\ NoRunBegun
    <3>1. \A m \in Lane : m # l => task'[m] = task[m]
      BY <1>a, <2>2, EndOfTask DEF Done
    <3>2. \A q \in Run : Held(q) => Held(q)'
      BY <1>a, <2>0, <3>1, StillHeld DEF LaneOK, NoRun, Run
    <3> QED BY <1>b, <2>0, <2>2, <3>2 DEF Told, ToldWell, RunsHeld, RequestHeld, NoRunBegun
  <2> QED BY <1>7, <2>1, <2>2 DEF ExecuteNatural
<1>8. ASSUME NEW l \in Lane, MarkLast(l) PROVE Told'
  <2>1. UNCHANGED <<worker, job, status, proc, completions, request>> /\ End(l, "marked")
    BY <1>8 DEF MarkLast, children
  <2>2. \A q \in Run : Held(q) => Held(q)'
    BY <1>a, <2>1, EndOfTask, StillHeld DEF Done
  <2> QED BY <1>b, <2>1, <2>2 DEF Told, ToldWell, RunsHeld, RequestHeld
<1>9. ASSUME NEW l \in Lane, Raise(l) PROVE Told'
  <2>1. /\ UNCHANGED <<worker, job, status, proc, completions, request>> /\ End(l, "raised")
        /\ \/ task[l].state = "queued"
           \/ task[l].state \in {"begun", "marked"} /\ task[l].kind # "manual"
           \/ task[l].state = "running" /\ task[l].kind = "recovery"
    BY <1>a, <1>9 DEF Raise, children, database, Is, LaneOK
  <2>2. \A q \in Run : Held(q) /\ q # task[l].run => Held(q)'
    BY <1>a, <2>1, EndOfTask, StillHeld DEF Done
  <2>3. ASSUME NEW q \in Run, q = task[l].run
        PROVE job[q] # "manual" /\ (job[q] = "recovery" \/ proc[q] = "none")
    BY <1>a, <2>1, <2>3 DEF LaneOK, NameOf, Kinds, Lane, NoRun, Run
  <2>4. \A q \in Run : Held(q) /\ (job[q] = "manual" \/ (job[q] # "recovery" /\ proc[q] # "none"))
                       => Held(q)'
    BY <2>2, <2>3
  <2> QED BY <1>b, <2>1, <2>4 DEF Told, ToldWell, RunsHeld, RequestHeld
<1>10. ASSUME NEW l \in Lane, Spawn(l) PROVE Told'
  <2>r. PICK r \in Run : r = task[l].run
    BY <1>a, <1>10 DEF Spawn, Is, LaneOK
  <2>1. /\ UNCHANGED <<worker, job, status, completions, request>> /\ End(l, "running")
        /\ proc' = [proc EXCEPT ![r] = "live"] /\ proc[r] = "none"
    BY <1>a, <1>10, <2>r DEF Spawn, database, Is, LaneOK
  <2>2. \A q \in Run : Held(q) => Held(q)'
    BY <1>a, <2>1, EndOfTask, StillHeld DEF Done
  <2>3. Held(r)' BY <1>a, <2>r, <2>1, EndOfTask DEF Held, Done
  <2>4. \A q \in Run : q # r => proc'[q] = proc[q]
    BY <1>a, <2>1 DEF RowsOK
  <2> QED BY <1>b, <2>1, <2>2, <2>3, <2>4 DEF Told, ToldWell, RunsHeld, RequestHeld
<1>11. ASSUME NEW l \in Lane, LaunchFails(l) PROVE Told'
  <2>r. PICK r \in Run : r = task[l].run
    BY <1>a, <1>11 DEF LaunchFails, Is, LaneOK
  <2>0. /\ UNCHANGED <<worker, job, proc>> /\ End(l, "done") /\ proc[r] = "none"
        /\ job[r] = NameOf(l) /\ task[l].kind \in {"natural", "manual", "recovery"}
    BY <1>a, <1>11, <2>r DEF LaunchFails, children, Is, LaneOK
  <2>1. CASE task[l].kind = "recovery"
    <3>1. FinishRecovery(r, "failed") /\ UNCHANGED <<completions, request>>
      BY <1>11, <2>1, <2>r DEF LaunchFails
    <3>2. job[r] = "recovery" BY <2>0, <2>1 DEF NameOf
    <3> QED BY <1>a, <1>b, <2>0, <2>r, <3>1, <3>2, RecoveryTold
  <2>2. CASE task[l].kind # "recovery"
    <3>1. FinishJob(r)
      BY <1>11, <2>2, <2>r DEF LaunchFails
    <3>2. Outcome(r) = "failed" BY <2>0 DEF Outcome
    <3> QED BY <1>a, <1>b, <2>0, <2>r, <3>1, JobTold
  <2> QED BY <2>1, <2>2
<1>12. ASSUME NEW l \in Lane, Expire(l) PROVE Told'
  <2>r. PICK r \in Run : r = task[l].run
    BY <1>a, <1>12 DEF Expire, Is, LaneOK
  <2>1. /\ UNCHANGED <<worker, job, status, completions, request, task>>
        /\ proc' = [proc EXCEPT ![r] = "killed"] /\ proc[r] # "none" /\ proc[r] # "ok"
    BY <1>12, <2>r DEF Expire, database, memory, Alive
  <2> QED BY <1>a, <1>b, <2>1, ProcessTold
<1>13. ASSUME NEW l \in Lane, Finish(l) PROVE Told'
  <2>r. PICK r \in Run : r = task[l].run
    BY <1>a, <1>13 DEF Finish, Is, LaneOK
  <2>0. /\ UNCHANGED <<worker, job, proc>> /\ End(l, "done") /\ FinishJob(r)
    BY <1>13, <2>r DEF Finish, children
  <2> QED BY <1>a, <1>b, <2>0, <2>r, JobTold
<1>14. CASE ExecuteManual
  <2>0. /\ UNCHANGED <<worker, proc, completions>> /\ task["review"].state = "queued"
        /\ last["review"] \in 0 .. now /\ "review" \in Lane
        /\ BeginRun("review", "manual", "marked")
    BY <1>a, <1>14 DEF ExecuteManual, Is, RowsOK, Lane
  <2>1. PICK r \in Run :
         /\ job[r] = "none" /\ job' = [job EXCEPT ![r] = "manual"]
         /\ status' = [status EXCEPT ![r] = "running"]
         /\ \A m \in Lane : m # "review" => task'[m] = task[m]
         /\ task'["review"].state = "marked" /\ task'["review"].run = r
    BY <1>a, <2>0, BeginOfRun
  <2>2. \A q \in Run : Held(q) => Held(q)'
    BY <1>a, <2>0, <2>1, StillHeld DEF LaneOK, NoRun, Run
  <2>3. Held(r)' /\ proc[r] = "none"
    BY <1>a, <2>0, <2>1 DEF Held, RunsOK, Done
  <2>4. \A q \in Run : q # r => status'[q] = status[q] /\ job'[q] = job[q]
    BY <1>a, <2>1 DEF RowsOK
  <2>5. status'[r] = "running" /\ job'[r] = "manual"
    BY <1>a, <2>1 DEF RowsOK
  <2> QED
    BY <1>a, <1>b, <2>0, <2>1, <2>2, <2>3, <2>4, <2>5 DEF Told, ToldWell, RunsHeld, RequestHeld
<1>15. CASE ExecuteRecovery
  <2>0. /\ UNCHANGED <<worker, proc, completions, request>> /\ task["trader"].state = "queued"
        /\ last["trader"] \in 0 .. now /\ "trader" \in Lane
    BY <1>a, <1>15 DEF ExecuteRecovery, Is, RowsOK, Lane
  <2>1. CASE BeginRun("trader", "recovery", "begun")
    <3>1. PICK r \in Run :
           /\ job[r] = "none" /\ job' = [job EXCEPT ![r] = "recovery"]
           /\ status' = [status EXCEPT ![r] = "running"]
           /\ \A m \in Lane : m # "trader" => task'[m] = task[m]
           /\ task'["trader"].state = "begun" /\ task'["trader"].run = r
      BY <1>a, <2>0, <2>1, BeginOfRun
    <3>2. \A q \in Run : Held(q) => Held(q)'
      BY <1>a, <2>0, <3>1, StillHeld DEF LaneOK, NoRun, Run
    <3>3. Held(r)' /\ proc[r] = "none"
      BY <1>a, <2>0, <3>1 DEF Held, RunsOK, Done
    <3>4. \A q \in Run : q # r => status'[q] = status[q] /\ job'[q] = job[q]
      BY <1>a, <3>1 DEF RowsOK
    <3>5. status'[r] = "running" /\ job'[r] = "recovery"
      BY <1>a, <3>1 DEF RowsOK
    <3> QED
      BY <1>a, <1>b, <2>0, <3>1, <3>2, <3>3, <3>4, <3>5
         DEF Told, ToldWell, RunsHeld, RequestHeld
  <2>2. CASE End("trader", "done") /\ NoRunBegun
    <3>1. \A m \in Lane : m # "trader" => task'[m] = task[m]
      BY <1>a, <2>0, <2>2, EndOfTask DEF Done
    <3>2. \A q \in Run : Held(q) => Held(q)'
      BY <1>a, <2>0, <3>1, StillHeld DEF LaneOK, NoRun, Run
    <3> QED BY <1>b, <2>0, <2>2, <3>2 DEF Told, ToldWell, RunsHeld, RequestHeld, NoRunBegun
  <2> QED BY <1>15, <2>1, <2>2 DEF ExecuteRecovery
<1>16. CASE CheckRecovery
  <2>r. PICK r \in Run : r = task["trader"].run
    BY <1>a, <1>16 DEF CheckRecovery, Is, LaneOK, Lane
  <2>0. /\ UNCHANGED <<worker, job, proc, completions, request>> /\ "trader" \in Lane
        /\ job[r] = "recovery"
    BY <1>a, <1>16, <2>r DEF CheckRecovery, children, Is, Lane, LaneOK, NameOf
  <2>1. CASE End("trader", "marked") /\ UNCHANGED <<rec, status>>
    <3>1. \A q \in Run : Held(q) => Held(q)'
      BY <1>a, <2>0, <2>1, EndOfTask, StillHeld DEF Done
    <3> QED BY <1>b, <2>0, <2>1, <3>1 DEF Told, ToldWell, RunsHeld, RequestHeld
  <2>2. CASE End("trader", "done") /\ FinishRecovery(r, "failed")
    BY <1>a, <1>b, <2>0, <2>r, <2>2, RecoveryTold
  <2> QED BY <1>16, <2>r, <2>1, <2>2 DEF CheckRecovery
<1>17. CASE FinishRecovered
  <2>r. PICK r \in Run : r = task["trader"].run
    BY <1>a, <1>17 DEF FinishRecovered, Is, LaneOK, Lane
  <2>0. /\ UNCHANGED <<worker, job, proc, completions, request>> /\ "trader" \in Lane
        /\ job[r] = "recovery" /\ End("trader", "done")
    BY <1>a, <1>17, <2>r DEF FinishRecovered, children, Is, Lane, LaneOK, NameOf
  <2>1. \E how \in {"success", "failed"} :
          FinishRecovery(r, how) /\ (how = "success" => proc[r] = "ok")
    BY <1>17, <2>r DEF FinishRecovered
  <2> QED BY <1>a, <1>b, <2>0, <2>r, <2>1, RecoveryTold
<1>18. CASE Shutdown
  <2>1. /\ UNCHANGED <<job, status, proc, completions, request>> /\ worker = "up"
        /\ \A l \in Lane : task[l].state # "queued" => task'[l] = task[l]
    BY <1>18 DEF Shutdown, children, database
  <2>2. \A r \in Run : Held(r) => Held(r)'
    BY <1>a, <2>1, StillHeld DEF LaneOK, NoRun, Run
  <2> QED BY <1>b, <2>1, <2>2 DEF Told, ToldWell, RunsHeld, RequestHeld
<1>19. CASE Leave
  BY <1>b, <1>19 DEF Told, ToldWell, RunsHeld, RequestHeld, Leave, children, database
<1>20. CASE Crash
  BY <1>b, <1>20 DEF Told, ToldWell, RunsHeld, RequestHeld, Crash, children, database
<1>21. CASE Restart
  <2>1. /\ proc' = proc /\ request' # "running"
        /\ \A r \in Run : status'[r] # "running" /\ (status'[r] = "success" => status[r] = "success")
    BY <1>a, <1>21 DEF Restart, children, RowsOK
  <2> QED BY <1>b, <2>1 DEF Told, ToldWell, RunsHeld, RequestHeld
<1>22. ASSUME NEW r \in Run, EnterCycle(r) PROVE Told'
  <2>1. /\ UNCHANGED <<worker, job, status, completions, request, task>>
        /\ proc[r] # "none" /\ proc[r] # "ok"
        /\ \E code \in {"cycling", "ok"} : proc' = [proc EXCEPT ![r] = code]
    BY <1>22 DEF EnterCycle, ChildExits, database, memory
  <2> QED BY <1>a, <1>b, <2>1, ProcessTold
<1>23. ASSUME NEW r \in Run, ModelAnswers(r) PROVE Told'
  BY <1>23, ToldRests DEF ModelAnswers, database, memory
<1>24. ASSUME NEW r \in Run, ModelRefuses(r) PROVE Told'
  BY <1>24, ToldRests DEF ModelRefuses, memory
<1>25. ASSUME NEW r \in Run, ChildEnds(r) PROVE Told'
  <2>1. /\ UNCHANGED <<worker, job, status, completions, request, task>>
        /\ proc[r] # "none" /\ proc[r] # "ok"
        /\ \E code \in {"ok", "bad"} : proc' = [proc EXCEPT ![r] = code]
    BY <1>25 DEF ChildEnds, ChildExits, database, memory
  <2> QED BY <1>a, <1>b, <2>1, ProcessTold
<1>26. CASE UNCHANGED vars
  BY <1>26, ToldRests DEF vars, database, children, memory
<1> QED
  BY <1>1, <1>2, <1>3, <1>4, <1>5, <1>6, <1>7, <1>8, <1>9, <1>10, <1>11, <1>12, <1>13, <1>14,
     <1>15, <1>16, <1>17, <1>18, <1>19, <1>20, <1>21, <1>22, <1>23, <1>24, <1>25, <1>26 DEF Next
-----------------------------------------------------------------------------
(* The naturals: no trader was started in a later slot than the last mark,   *)
(* and the one that is being started is ahead of all of them.                *)
Started(r) == job[r] = "trader" /\ proc[r] # "none"
Starting == task["trader"].kind = "natural" /\ task["trader"].state \in {"begun", "marked"}

NaturalInv ==
  /\ \A r \in Run : Started(r) => SlotOf(began[r]) <= SlotOf(last["trader"])
  /\ Starting =>
       /\ \A r \in Run : Started(r) => SlotOf(began[r]) <= SlotOf(task["trader"].previous)
       /\ SlotOf(task["trader"].previous) < SlotOf(now)
       /\ task["trader"].state = "marked" => last["trader"] = now
  /\ OneNaturalPerSlot

(* A step that starts no trader and unmarks no slot. *)
LEMMA NaturalsRest ==
  ASSUME NaturalInv, last'["trader"] = last["trader"],
         \A r \in Run : Started(r)' => Started(r) /\ began'[r] = began[r],
         Starting' => task'["trader"] = task["trader"] /\ now' = now
  PROVE NaturalInv'
BY DEF NaturalInv, Starting, Started, OneNaturalPerSlot

(* A step that starts no process. *)
LEMMA NothingStarts ==
  ASSUME RunsOK, NEW r \in Run, Started(r)', began' = began,
         job'[r] = job[r] \/ job[r] = "none", proc'[r] # "none" => proc[r] # "none"
  PROVE Started(r) /\ began'[r] = began[r]
BY DEF Started, RunsOK

(* No step starts a second trader in a slot. *)
LEMMA NaturalsStay == ASSUME LaneInv, NaturalInv, [Next]_vars PROVE NaturalInv'
<1>a. /\ TypeOK /\ RowsOK /\ now \in Nat /\ task \in [Lane -> Task(now)] /\ RunsOK
      /\ \A l \in Lane : LaneOK(l)
  BY DEF LaneInv, TypeOK, RowsOK
<1>b. "trader" \in Lane BY DEF Lane
<1>1. CASE Advance
  <2>1. /\ UNCHANGED <<last, job, proc, began, task>> /\ task["trader"].state \notin {"begun", "marked"}
    BY <1>1, <1>b DEF Advance, database, children, Quiet, Done
  <2> QED BY <2>1, NaturalsRest DEF Started, Starting
<1>2. CASE Toggle
  BY <1>2, NaturalsRest DEF Toggle, database, children, memory, Started, Starting
<1>3. CASE RequestReview
  BY <1>3, NaturalsRest DEF RequestReview, children, memory, Started, Starting
<1>4. CASE TickReap
  <2>1. UNCHANGED <<now, last, job, proc, began>>
        /\ task'["trader"] \in {NoTask, task["trader"]}
    BY <1>4, <1>b DEF TickReap, clock, children
  <2> QED BY <2>1, NaturalsRest DEF Started, Starting, NoTask
<1>5. CASE TickJobs
  <2>1. UNCHANGED <<now, last, job, proc, began>>
        /\ task'["trader"] \in {Queued("natural"), task["trader"]}
    BY <1>5, <1>b DEF TickJobs, clock, children, database
  <2> QED BY <1>a, <2>1, NaturalsRest, QueuedTask DEF Started, Starting, RowsOK
<1>6. CASE TickOthers
  <2>1. UNCHANGED <<now, last, job, proc, began>>
        /\ task'["trader"] \in {Queued("recovery"), task["trader"]}
    BY <1>6, <1>b DEF TickOthers, clock, children
  <2> QED BY <1>a, <2>1, NaturalsRest, QueuedTask DEF Started, Starting, RowsOK
<1>7. ASSUME NEW l \in Lane, ExecuteNatural(l) PROVE NaturalInv'
  <2>0. /\ UNCHANGED <<now, last, proc, began>> /\ last[l] \in 0 .. now
        /\ task[l].state = "queued" /\ task[l].kind = "natural"
    BY <1>a, <1>7 DEF ExecuteNatural, clock, Is, RowsOK
  <2>1. CASE BeginRun(l, l, "begun")
    <3>1. PICK r \in Run :
            /\ job[r] = "none" /\ job' = [job EXCEPT ![r] = l]
            /\ \A m \in Lane : m # l => task'[m] = task[m]
            /\ task'[l].state = "begun" /\ task'[l].kind = task[l].kind
            /\ task'[l].run = r /\ task'[l].previous = last[l]
      BY <1>a, <2>0, <2>1, BeginOfRun
    <3>2. \A q \in Run : Started(q)' => Started(q) /\ began'[q] = began[q]
      BY <1>a, <2>0, <3>1, NothingStarts DEF RowsOK
    <3>3. CASE l = "review"
      BY <1>b, <2>0, <3>1, <3>2, <3>3, NaturalsRest DEF Starting
    <3>4. CASE l = "trader"
      <4>1. SlotOf(last["trader"]) < SlotOf(now)
        <5>1. TraderDue
          <6>1. TraderDue \/ End(l, "done") BY <1>7, <3>4 DEF ExecuteNatural
          <6>2. End(l, "done") => task'[l].state = "done" BY <1>a, EndOfTask DEF Done
          <6> QED BY <3>1, <6>1, <6>2
        <5>2. now \in Nat /\ last["trader"] \in Nat BY <1>a, <1>b DEF RowsOK
        <5>3. SlotOf(now) \in Nat /\ SlotOf(last["trader"]) \in Nat BY <5>2, SlotHolds
        <5> QED BY <5>1, <5>3 DEF TraderDue
      <4> QED BY <2>0, <3>1, <3>2, <3>4, <4>1 DEF NaturalInv, Starting, Started, OneNaturalPerSlot
    <3> QED BY <3>3, <3>4 DEF Lane
  <2>2. CASE End(l, "done") /\ NoRunBegun
    <3>1. Starting' => task'["trader"] = task["trader"]
      BY <1>a, <1>b, <2>2, EndOfTask DEF Done, Starting
    <3> QED BY <2>0, <2>2, <3>1, NaturalsRest DEF Started, NoRunBegun
  <2> QED BY <1>7, <2>1, <2>2 DEF ExecuteNatural
<1>8. ASSUME NEW l \in Lane, MarkLast(l) PROVE NaturalInv'
  <2>0. /\ UNCHANGED <<now, job, proc, began>> /\ End(l, "marked")
        /\ task[l].state = "begun" /\ task[l].kind = "natural" /\ last' = [last EXCEPT ![l] = now]
    BY <1>8 DEF MarkLast, clock, Is, children
  <2>1. CASE l = "review"
    BY <1>a, <1>b, <2>0, <2>1, EndOfTask, NaturalsRest DEF Started, Starting, RowsOK
  <2>2. CASE l = "trader"
    <3>1. /\ last'["trader"] = now /\ task'["trader"].previous = task["trader"].previous
          /\ task'["trader"].state = "marked" /\ task'["trader"].kind = "natural"
      BY <1>a, <1>b, <2>0, <2>2, EndOfTask DEF RowsOK
    <3>2. /\ SlotOf(task["trader"].previous) < SlotOf(now)
          /\ \A r \in Run : Started(r) => SlotOf(began[r]) <= SlotOf(task["trader"].previous)
      BY <2>0, <2>2 DEF NaturalInv, Starting
    <3>3. SlotOf(now) \in Nat /\ SlotOf(task["trader"].previous) \in Nat
          /\ \A r \in Run : SlotOf(began[r]) \in Nat
      BY <1>a, <1>b, SlotHolds DEF Task, RowsOK
    <3>4. \A r \in Run : Started(r) => SlotOf(began[r]) <= SlotOf(now)
      BY <3>2, <3>3
    <3> QED BY <2>0, <3>1, <3>2, <3>4 DEF NaturalInv, Starting, Started, OneNaturalPerSlot
  <2> QED BY <2>1, <2>2 DEF Lane
<1>9. ASSUME NEW l \in Lane, Raise(l) PROVE NaturalInv'
  <2>1. UNCHANGED <<now, last, job, proc, began>> /\ End(l, "raised")
    BY <1>9 DEF Raise, clock, database, children
  <2>2. Starting' => task'["trader"] = task["trader"]
    BY <1>a, <1>b, <2>1, EndOfTask DEF Done, Starting
  <2> QED BY <2>1, <2>2, NaturalsRest DEF Started
<1>10. ASSUME NEW l \in Lane, Spawn(l) PROVE NaturalInv'
  <2>r. PICK r \in Run : r = task[l].run
    BY <1>a, <1>10 DEF Spawn, Is, LaneOK
  <2>1. /\ UNCHANGED <<now, last, job>> /\ End(l, "running") /\ task[l].state = "marked"
        /\ proc' = [proc EXCEPT ![r] = "live"] /\ began' = [began EXCEPT ![r] = now]
        /\ proc[r] = "none" /\ job[r] = NameOf(l)
    BY <1>a, <1>10, <2>r DEF Spawn, clock, database, Is, LaneOK
  <2>2. ~Starting' \/ task'["trader"] = task["trader"]
    BY <1>a, <1>b, <2>1, EndOfTask DEF Starting
  <2>3. \A q \in Run : q # r => proc'[q] = proc[q] /\ began'[q] = began[q]
    BY <1>a, <2>1 DEF RowsOK
  <2>4. CASE job[r] # "trader"
    BY <2>1, <2>2, <2>3, <2>4, NaturalsRest DEF Started
  <2>5. CASE job[r] = "trader"
    <3>1. l = "trader" /\ task[l].kind = "natural"
      BY <1>a, <2>1, <2>5 DEF NameOf, LaneOK, Kinds, Lane
    <3>2. /\ SlotOf(task[l].previous) < SlotOf(now) /\ last["trader"] = now
          /\ \A q \in Run : Started(q) => SlotOf(began[q]) <= SlotOf(task[l].previous)
      BY <2>1, <3>1 DEF NaturalInv, Starting
    <3>3. SlotOf(now) \in Nat /\ SlotOf(task[l].previous) \in Nat
          /\ \A q \in Run : SlotOf(began[q]) \in Nat
      BY <1>a, SlotHolds DEF Task, RowsOK
    <3>4. \A q \in Run : Started(q) => SlotOf(began[q]) < SlotOf(now)
      BY <3>2, <3>3
    <3>5. /\ \A q \in Run : q # r => (Started(q)' <=> Started(q))
          /\ began'[r] = now /\ last'["trader"] = now
      BY <1>a, <2>1, <2>3, <3>2 DEF Started, RowsOK
    <3>6. ~Starting' BY <1>a, <2>1, <3>1, EndOfTask DEF Starting
    <3>7. \A q \in Run : Started(q)' => SlotOf(began'[q]) <= SlotOf(last'["trader"])
      BY <2>3, <3>3, <3>4, <3>5
    <3>8. OneNaturalPerSlot'
      <4>1. ASSUME NEW q \in Run, NEW t \in Run, Started(q)', Started(t)',
                   SlotOf(began'[q]) = SlotOf(began'[t])
            PROVE q = t
        <5>1. CASE q # r /\ t # r
          BY <2>3, <3>5, <4>1, <5>1 DEF NaturalInv, OneNaturalPerSlot, Started
        <5>2. CASE q = r /\ t # r
          BY <2>3, <3>3, <3>4, <3>5, <4>1, <5>2
        <5>3. CASE q # r /\ t = r
          BY <2>3, <3>3, <3>4, <3>5, <4>1, <5>3
        <5> QED BY <5>1, <5>2, <5>3
      <4> QED BY <4>1 DEF OneNaturalPerSlot, Started
    <3> QED BY <3>6, <3>7, <3>8 DEF NaturalInv
  <2> QED BY <2>4, <2>5
<1>11. ASSUME NEW l \in Lane, LaunchFails(l) PROVE NaturalInv'
  <2>1. UNCHANGED <<now, job, proc, began>> /\ End(l, "done") /\ task[l].state = "marked"
    BY <1>11 DEF LaunchFails, clock, children, Is
  <2>2. Starting' => task'["trader"] = task["trader"]
    BY <1>a, <1>b, <2>1, EndOfTask DEF Done, Starting
  <2>3. CASE l = "trader" /\ task[l].kind = "natural"
    <3>1. last'["trader"] = task[l].previous
      BY <1>a, <1>11, <2>3 DEF LaunchFails, RowsOK
    <3>2. ~Starting' BY <1>a, <2>1, <2>3, EndOfTask DEF Done, Starting
    <3> QED
      BY <2>1, <2>3, <3>1, <3>2 DEF NaturalInv, Starting, Started, OneNaturalPerSlot
  <2>4. CASE ~(l = "trader" /\ task[l].kind = "natural")
    <3>1. last'["trader"] = last["trader"]
      BY <1>a, <1>b, <1>11, <2>4 DEF LaunchFails, RowsOK
    <3> QED BY <2>1, <2>2, <3>1, NaturalsRest DEF Started
  <2> QED BY <2>3, <2>4
<1>12. ASSUME NEW l \in Lane, Expire(l) PROVE NaturalInv'
  <2>r. PICK r \in Run : r = task[l].run
    BY <1>a, <1>12 DEF Expire, Is, LaneOK
  <2>1. /\ UNCHANGED <<now, last, job, task, began>>
        /\ proc' = [proc EXCEPT ![r] = "killed"] /\ proc[r] # "none"
    BY <1>12, <2>r DEF Expire, clock, database, memory, Alive
  <2> QED BY <1>a, <2>1, NaturalsRest DEF Started, Starting, RowsOK
<1>13. ASSUME NEW l \in Lane, Finish(l) PROVE NaturalInv'
  <2>1. UNCHANGED <<now, last, job, proc, began>> /\ End(l, "done")
    BY <1>13 DEF Finish, clock, children
  <2>2. Starting' => task'["trader"] = task["trader"]
    BY <1>a, <1>b, <2>1, EndOfTask DEF Done, Starting
  <2> QED BY <2>1, <2>2, NaturalsRest DEF Started
<1>14. CASE ExecuteManual
  <2>0. /\ UNCHANGED <<now, last, proc, began>> /\ "review" \in Lane
        /\ last["review"] \in 0 .. now /\ BeginRun("review", "manual", "marked")
    BY <1>a, <1>14 DEF ExecuteManual, clock, RowsOK, Lane
  <2>1. PICK r \in Run : /\ job[r] = "none" /\ job' = [job EXCEPT ![r] = "manual"]
                         /\ task'["trader"] = task["trader"]
    BY <1>a, <1>b, <2>0, BeginOfRun
  <2>2. \A q \in Run : Started(q)' => Started(q) /\ began'[q] = began[q]
    BY <1>a, <2>0, <2>1, NothingStarts DEF RowsOK
  <2> QED BY <2>0, <2>1, <2>2, NaturalsRest
<1>15. CASE ExecuteRecovery
  <2>0. UNCHANGED <<now, last, proc, began>> /\ last["trader"] \in 0 .. now
        /\ task["trader"].kind = "recovery"
    BY <1>a, <1>b, <1>15 DEF ExecuteRecovery, clock, RowsOK, Is
  <2>1. CASE BeginRun("trader", "recovery", "begun")
    <3>1. PICK r \in Run : /\ job[r] = "none" /\ job' = [job EXCEPT ![r] = "recovery"]
                           /\ task'["trader"].kind = "recovery"
      BY <1>a, <1>b, <2>0, <2>1, BeginOfRun
    <3>2. \A q \in Run : Started(q)' => Started(q) /\ began'[q] = began[q]
      BY <1>a, <2>0, <3>1, NothingStarts DEF RowsOK
    <3> QED BY <2>0, <3>1, <3>2, NaturalsRest DEF Starting
  <2>2. CASE End("trader", "done") /\ NoRunBegun
    <3>1. ~Starting' BY <1>a, <1>b, <2>2, EndOfTask DEF Done, Starting
    <3> QED BY <2>0, <2>2, <3>1, NaturalsRest DEF Started, NoRunBegun
  <2> QED BY <1>15, <2>1, <2>2 DEF ExecuteRecovery
<1>16. CASE CheckRecovery
  <2>1. /\ UNCHANGED <<now, last, job, proc, began>> /\ task["trader"].kind = "recovery"
        /\ End("trader", "marked") \/ End("trader", "done")
    BY <1>16 DEF CheckRecovery, clock, children, Is
  <2>2. ~Starting' BY <1>a, <1>b, <2>1, EndOfTask DEF Done, Starting
  <2> QED BY <2>1, <2>2, NaturalsRest DEF Started
<1>17. CASE FinishRecovered
  <2>1. UNCHANGED <<now, last, job, proc, began>> /\ End("trader", "done")
    BY <1>17 DEF FinishRecovered, clock, children
  <2>2. ~Starting' BY <1>a, <1>b, <2>1, EndOfTask DEF Done, Starting
  <2> QED BY <2>1, <2>2, NaturalsRest DEF Started
<1>18. CASE Shutdown
  <2>1. UNCHANGED <<now, last, job, proc, began>>
        /\ task'["trader"] \in {NoTask, task["trader"]}
    BY <1>18, <1>b DEF Shutdown, database, children
  <2> QED BY <2>1, NaturalsRest DEF Started, Starting, NoTask
<1>19. CASE Leave
  <2>1. UNCHANGED <<now, last, job, proc, began>> /\ task'["trader"] = NoTask
    BY <1>19, <1>b DEF Leave, Forget, clock, database, children
  <2> QED BY <2>1, NaturalsRest DEF Started, Starting, NoTask
<1>20. CASE Crash
  <2>1. UNCHANGED <<now, last, job, proc, began>> /\ task'["trader"] = NoTask
    BY <1>20, <1>b DEF Crash, Forget, database, children
  <2> QED BY <2>1, NaturalsRest DEF Started, Starting, NoTask
<1>21. CASE Restart
  BY <1>21, NaturalsRest DEF Restart, clock, memory, children, Started, Starting
<1>22. ASSUME NEW r \in Run, EnterCycle(r) PROVE NaturalInv'
  <2>1. /\ UNCHANGED <<now, last, job, task, began>> /\ proc[r] # "none"
        /\ \E code \in {"cycling", "ok"} : proc' = [proc EXCEPT ![r] = code]
    BY <1>22 DEF EnterCycle, ChildExits, clock, database, memory
  <2> QED BY <1>a, <2>1, NaturalsRest DEF Started, Starting, RowsOK
<1>23. ASSUME NEW r \in Run, ModelAnswers(r) PROVE NaturalInv'
  BY <1>23, NaturalsRest DEF ModelAnswers, clock, database, memory, Started, Starting
<1>24. ASSUME NEW r \in Run, ModelRefuses(r) PROVE NaturalInv'
  BY <1>24, NaturalsRest DEF ModelRefuses, clock, memory, Started, Starting
<1>25. ASSUME NEW r \in Run, ChildEnds(r) PROVE NaturalInv'
  <2>1. /\ UNCHANGED <<now, last, job, task, began>> /\ proc[r] # "none"
        /\ \E code \in {"ok", "bad"} : proc' = [proc EXCEPT ![r] = code]
    BY <1>25 DEF ChildEnds, ChildExits, clock, database, memory
  <2> QED BY <1>a, <2>1, NaturalsRest DEF Started, Starting, RowsOK
<1>26. CASE UNCHANGED vars
  BY <1>26, NaturalsRest DEF vars, clock, database, children, memory, Started, Starting
<1> QED
  BY <1>1, <1>2, <1>3, <1>4, <1>5, <1>6, <1>7, <1>8, <1>9, <1>10, <1>11, <1>12, <1>13, <1>14,
     <1>15, <1>16, <1>17, <1>18, <1>19, <1>20, <1>21, <1>22, <1>23, <1>24, <1>25, <1>26 DEF Next
-----------------------------------------------------------------------------
(* The recoveries: the row of a slot leaves "pending" before its run exists  *)
(* and never comes back to it.                                               *)
RecoveryInv ==
  /\ \A r \in Run : job[r] = "recovery" => rec[forSlot[r]] \notin {"none", "pending"}
  /\ \A s \in Slots : rec[s] = "pending" => s * SlotLength < recAt[s]
  /\ OneRecoveryPerSlot
  /\ NoStaleRecovery

(* A step that begins no recovery and makes none pending. *)
LEMMA RecoveriesRest ==
  ASSUME RowsOK, RecoveryInv,
         \A r \in Run : job'[r] = "recovery" => job[r] = "recovery" /\ forSlot'[r] = forSlot[r],
         \A s \in Slots : rec'[s] = rec[s] \/ rec'[s] \notin {"none", "pending"},
         recAt' = recAt,
         worker' = "up" /\ tick' = "idle" /\ ticked' =>
           worker = "up" /\ tick = "idle" /\ ticked /\ now' = now
  PROVE RecoveryInv'
<1>1. \A r \in Run : job'[r] = "recovery" => rec'[forSlot'[r]] \notin {"none", "pending"}
  BY DEF RecoveryInv, RowsOK
<1>2. \A s \in Slots : rec'[s] = "pending" => rec[s] = "pending"
  OBVIOUS
<1>3. NoStaleRecovery' BY <1>2 DEF RecoveryInv, NoStaleRecovery
<1>4. OneRecoveryPerSlot' BY DEF RecoveryInv, OneRecoveryPerSlot
<1> QED BY <1>1, <1>2, <1>3, <1>4 DEF RecoveryInv

(* No step recovers a slot twice or leaves a late recovery pending. *)
LEMMA RecoveriesStay == ASSUME LaneInv, RecoveryInv, [Next]_vars PROVE RecoveryInv'
<1>a. /\ TypeOK /\ RowsOK /\ now \in Nat /\ task \in [Lane -> Task(now)] /\ RunsOK
      /\ \A l \in Lane : LaneOK(l)
  BY DEF LaneInv, TypeOK, RowsOK
<1>b. WorkerOK /\ now \in 0 .. MaxTime BY DEF LaneInv, TypeOK, RowsOK
<1>1. CASE Advance
  BY <1>1, <1>a, RecoveriesRest DEF Advance, database, children
<1>2. CASE Toggle
  BY <1>2, <1>a, RecoveriesRest DEF Toggle, database, children, memory
<1>3. CASE RequestReview
  BY <1>3, <1>a, RecoveriesRest DEF RequestReview, children, memory
<1>4. CASE TickReap
  BY <1>4, <1>a, RecoveriesRest DEF TickReap, clock, children
<1>5. CASE TickJobs
  BY <1>5, <1>a, RecoveriesRest DEF TickJobs, clock, database, children
<1>6. CASE TickOthers
  <2>1. /\ UNCHANGED <<now, job, forSlot, recAt>>
        /\ rec' = [s \in Slots |-> IF s \in DueRecoveries /\ ~Launchable(s) THEN "cancelled"
                                   ELSE rec[s]]
    BY <1>6 DEF TickOthers, clock, children
  <2>2. \A s \in Slots : rec'[s] = rec[s] \/ rec'[s] = "cancelled" BY <2>1
  <2>3. \A s \in Slots : rec'[s] = "pending" /\ recAt[s] <= now => rec[s] = "pending" /\ Launchable(s)
    BY <2>1 DEF DueRecoveries
  <2>4. NoStaleRecovery' BY <2>1, <2>3 DEF NoStaleRecovery, Launchable
  <2>5. \A r \in Run : forSlot[r] \in Slots BY <1>a DEF RowsOK
  <2>6. OneRecoveryPerSlot' BY <2>1 DEF RecoveryInv, OneRecoveryPerSlot
  <2> QED BY <2>1, <2>2, <2>3, <2>4, <2>5, <2>6 DEF RecoveryInv
<1>7. ASSUME NEW l \in Lane, ExecuteNatural(l) PROVE RecoveryInv'
  <2>0. UNCHANGED <<now, worker, rec, recAt, tick, ticked>> /\ last[l] \in 0 .. now
    BY <1>a, <1>7 DEF ExecuteNatural, clock, RowsOK
  <2>1. CASE BeginRun(l, l, "begun")
    <3>1. PICK r \in Run : /\ job' = [job EXCEPT ![r] = l]
                           /\ forSlot' = [forSlot EXCEPT ![r] = task[l].slot]
      BY <1>a, <2>0, <2>1, BeginOfRun
    <3>2. \A q \in Run : job'[q] = "recovery" => job[q] = "recovery" /\ forSlot'[q] = forSlot[q]
      BY <1>a, <3>1 DEF RowsOK, Lane
    <3> QED BY <1>a, <2>0, <3>2, RecoveriesRest
  <2>2. CASE End(l, "done") /\ NoRunBegun
    BY <1>a, <2>0, <2>2, RecoveriesRest DEF NoRunBegun
  <2> QED BY <1>7, <2>1, <2>2 DEF ExecuteNatural
<1>8. ASSUME NEW l \in Lane, MarkLast(l) PROVE RecoveryInv'
  BY <1>8, <1>a, RecoveriesRest DEF MarkLast, clock, children
<1>9. ASSUME NEW l \in Lane, Raise(l) PROVE RecoveryInv'
  BY <1>9, <1>a, RecoveriesRest DEF Raise, clock, database, children
<1>10. ASSUME NEW l \in Lane, Spawn(l) PROVE RecoveryInv'
  BY <1>10, <1>a, RecoveriesRest DEF Spawn, clock, database
<1>11. ASSUME NEW l \in Lane, LaunchFails(l) PROVE RecoveryInv'
  <2>1. /\ UNCHANGED <<now, worker, recAt, tick, ticked, job, forSlot>>
        /\ \A s \in Slots : rec'[s] = rec[s] \/ rec'[s] = "failed"
    BY <1>11, <1>a DEF LaunchFails, clock, children, FinishRecovery, RowsOK
  <2> QED BY <1>a, <2>1, RecoveriesRest
<1>12. ASSUME NEW l \in Lane, Expire(l) PROVE RecoveryInv'
  BY <1>12, <1>a, RecoveriesRest DEF Expire, clock, database, memory
<1>13. ASSUME NEW l \in Lane, Finish(l) PROVE RecoveryInv'
  BY <1>13, <1>a, RecoveriesRest DEF Finish, clock, children
<1>14. CASE ExecuteManual
  <2>0. /\ UNCHANGED <<now, worker, rec, recAt, tick, ticked>> /\ last["review"] \in 0 .. now
        /\ "review" \in Lane /\ BeginRun("review", "manual", "marked")
    BY <1>a, <1>14 DEF ExecuteManual, clock, RowsOK, Lane
  <2>1. PICK r \in Run : /\ job' = [job EXCEPT ![r] = "manual"]
                         /\ forSlot' = [forSlot EXCEPT ![r] = task["review"].slot]
    BY <1>a, <2>0, BeginOfRun
  <2>2. \A q \in Run : job'[q] = "recovery" => job[q] = "recovery" /\ forSlot'[q] = forSlot[q]
    BY <1>a, <2>1 DEF RowsOK
  <2> QED BY <1>a, <2>0, <2>2, RecoveriesRest
<1>15. CASE ExecuteRecovery
  <2> DEFINE s == task["trader"].slot
  <2>0. /\ UNCHANGED <<now, worker, recAt, tick, ticked>> /\ last["trader"] \in 0 .. now
        /\ s \in Slots /\ "trader" \in Lane
    BY <1>a, <1>15 DEF ExecuteRecovery, clock, RowsOK, Task, Lane
  <2>1. CASE /\ rec[s] = "pending" /\ rec' = [rec EXCEPT ![s] = "running"]
             /\ BeginRun("trader", "recovery", "begun")
    <3>1. PICK r \in Run : /\ job[r] = "none" /\ job' = [job EXCEPT ![r] = "recovery"]
                           /\ forSlot' = [forSlot EXCEPT ![r] = s]
      BY <1>a, <2>0, <2>1, BeginOfRun
    <3> HIDE DEF s
    <3>2. /\ \A q \in Run : q # r => job'[q] = job[q] /\ forSlot'[q] = forSlot[q]
          /\ job'[r] = "recovery" /\ forSlot'[r] = s
      BY <1>a, <3>1 DEF RowsOK
    <3>3. /\ \A u \in Slots : u # s => rec'[u] = rec[u]
          /\ rec'[s] = "running"
      BY <1>a, <2>0, <2>1 DEF RowsOK
    <3>4. \A q \in Run : q # r /\ job'[q] = "recovery" => forSlot'[q] # s
      BY <2>1, <3>2 DEF RecoveryInv
    <3>5. OneRecoveryPerSlot'
      <4>1. ASSUME NEW q \in Run, NEW t \in Run, job'[q] = "recovery", job'[t] = "recovery",
                   forSlot'[q] = forSlot'[t]
            PROVE q = t
        BY <3>2, <3>4, <4>1 DEF RecoveryInv, OneRecoveryPerSlot
      <4> QED BY <4>1 DEF OneRecoveryPerSlot
    <3>6. \A q \in Run : forSlot'[q] \in Slots BY <1>a, <2>0, <3>2 DEF RowsOK
    <3>7. \A q \in Run : job'[q] = "recovery" => rec'[forSlot'[q]] \notin {"none", "pending"}
      BY <3>2, <3>3, <3>6 DEF RecoveryInv
    <3>8. \A u \in Slots : rec'[u] = "pending" => rec[u] = "pending"
      BY <3>3
    <3>9. NoStaleRecovery' BY <2>0, <3>8 DEF RecoveryInv, NoStaleRecovery
    <3> QED BY <2>0, <3>5, <3>7, <3>8, <3>9 DEF RecoveryInv
  <2>2. CASE End("trader", "done") /\ NoRunBegun /\ UNCHANGED rec
    BY <1>a, <2>0, <2>2, RecoveriesRest DEF NoRunBegun
  <2> QED BY <1>15, <2>1, <2>2 DEF ExecuteRecovery
<1>16. CASE CheckRecovery
  <2>1. /\ UNCHANGED <<now, worker, recAt, tick, ticked, job, forSlot>>
        /\ \A s \in Slots : rec'[s] = rec[s] \/ rec'[s] = "failed"
    BY <1>16, <1>a DEF CheckRecovery, clock, children, FinishRecovery, RowsOK
  <2> QED BY <1>a, <2>1, RecoveriesRest
<1>17. CASE FinishRecovered
  <2>1. /\ UNCHANGED <<now, worker, recAt, tick, ticked, job, forSlot>>
        /\ \A s \in Slots : rec'[s] = rec[s] \/ rec'[s] \in {"success", "failed"}
    BY <1>17, <1>a DEF FinishRecovered, clock, children, FinishRecovery, RowsOK
  <2> QED BY <1>a, <2>1, RecoveriesRest
<1>18. CASE Shutdown
  BY <1>18, <1>a, RecoveriesRest DEF Shutdown, database, children
<1>19. CASE Leave
  BY <1>19, <1>a, RecoveriesRest DEF Leave, clock, database, children
<1>20. CASE Crash
  BY <1>20, <1>a, RecoveriesRest DEF Crash, database, children
<1>21. CASE Restart
  <2>1. /\ UNCHANGED <<now, recAt, tick, ticked, job, forSlot>> /\ ~ticked
        /\ \A s \in Slots : rec'[s] = rec[s] \/ rec'[s] = "failed"
    BY <1>21, <1>b DEF Restart, clock, memory, children, WorkerOK
  <2> QED BY <1>a, <2>1, RecoveriesRest
<1>22. ASSUME NEW r \in Run, EnterCycle(r) PROVE RecoveryInv'
  BY <1>22, <1>a, RecoveriesRest DEF EnterCycle, clock, database, memory
<1>23. ASSUME NEW r \in Run, ModelAnswers(r) PROVE RecoveryInv'
  BY <1>23, <1>a, RecoveriesRest DEF ModelAnswers, clock, database, memory
<1>24. ASSUME NEW r \in Run, ModelRefuses(r) PROVE RecoveryInv'
  <2>0. UNCHANGED <<now, worker, tick, ticked, job, forSlot>>
    BY <1>24 DEF ModelRefuses, clock, memory
  <2>1. CASE UNCHANGED <<rec, recAt>>
    BY <1>a, <2>0, <2>1, RecoveriesRest
  <2>2. CASE ~UNCHANGED <<rec, recAt>>
    <3>1. PICK s \in Slots : /\ s = SlotOf(now) /\ rec[s] = "none"
                             /\ rec' = [rec EXCEPT ![s] = "pending"]
                             /\ recAt' = [recAt EXCEPT ![s] = now + 1]
      BY <1>24, <1>b, <2>2, SlotInRange DEF ModelRefuses
    <3>2. /\ rec'[s] = "pending" /\ recAt'[s] = now + 1
          /\ \A u \in Slots : u # s => rec'[u] = rec[u] /\ recAt'[u] = recAt[u]
      BY <1>a, <3>1 DEF RowsOK
    <3>3. SlotLength * s <= now /\ s \in Nat /\ SlotLength \in Nat /\ s * SlotLength = SlotLength * s
      <4>1. now = SlotLength * s + Offset(now) /\ Offset(now) \in Nat /\ s \in Nat
        BY <1>a, <3>1, SlotHolds
      <4>2. SlotLength * s \in Nat BY <4>1, SchedulerAssumption
      <4> QED BY <1>a, <4>1, <4>2, SchedulerAssumption
    <3>4. s * SlotLength < recAt'[s] BY <1>a, <3>2, <3>3
    <3>5. ~(recAt'[s] <= now) BY <1>a, <3>2
    <3>6. NoStaleRecovery' BY <2>0, <3>2, <3>5 DEF RecoveryInv, NoStaleRecovery
    <3>7. OneRecoveryPerSlot' BY <2>0 DEF RecoveryInv, OneRecoveryPerSlot
    <3>8. \A q \in Run : job[q] = "recovery" => forSlot[q] # s /\ forSlot[q] \in Slots
      BY <1>a, <3>1 DEF RecoveryInv, RowsOK
    <3> QED BY <2>0, <3>2, <3>4, <3>6, <3>7, <3>8 DEF RecoveryInv
  <2> QED BY <2>1, <2>2
<1>25. ASSUME NEW r \in Run, ChildEnds(r) PROVE RecoveryInv'
  BY <1>25, <1>a, RecoveriesRest DEF ChildEnds, clock, database, memory
<1>26. CASE UNCHANGED vars
  BY <1>26, <1>a, RecoveriesRest DEF vars, clock, database, children, memory
<1> QED
  BY <1>1, <1>2, <1>3, <1>4, <1>5, <1>6, <1>7, <1>8, <1>9, <1>10, <1>11, <1>12, <1>13, <1>14,
     <1>15, <1>16, <1>17, <1>18, <1>19, <1>20, <1>21, <1>22, <1>23, <1>24, <1>25, <1>26 DEF Next
-----------------------------------------------------------------------------
(* Where the trader's task is in its slot: a natural waits and starts only   *)
(* in the first unit, a recovery only after it.                              *)
Waiting == {"queued", "begun", "marked"}
Lead == task["trader"]

OnTime ==
  /\ Lead.state \in Waiting /\ Lead.kind = "natural" => Offset(now) = 0
  /\ Lead.state = "running" /\ Lead.kind = "natural" =>
       SlotOf(began[Lead.run]) = SlotOf(now) /\ Offset(began[Lead.run]) = 0
  /\ Lead.state \in Waiting /\ Lead.kind = "recovery" =>
       Offset(now) # 0 /\ Lead.slot = SlotOf(now)
  /\ Lead.state \in {"begun", "marked"} /\ Lead.kind = "recovery" =>
       forSlot[Lead.run] = SlotOf(now)
  /\ Lead.state = "running" /\ Lead.kind = "recovery" =>
       SlotOf(began[Lead.run]) = forSlot[Lead.run] /\ Offset(began[Lead.run]) # 0

(* A step that leaves the trader's task and the time alone. *)
LEMMA OnTimeRests ==
  ASSUME OnTime, now' = now,
         \/ task'["trader"].state \in Done
         \/ /\ task'["trader"] = task["trader"]
            /\ Lead.state \in {"begun", "marked", "running"} =>
                 began'[Lead.run] = began[Lead.run] /\ forSlot'[Lead.run] = forSlot[Lead.run]
  PROVE OnTime'
<1>1. CASE task'["trader"].state \in Done
  BY <1>1 DEF OnTime, Lead, Waiting, Done
<1>2. CASE /\ task'["trader"] = task["trader"]
           /\ Lead.state \in {"begun", "marked", "running"} =>
                began'[Lead.run] = began[Lead.run] /\ forSlot'[Lead.run] = forSlot[Lead.run]
  BY <1>2 DEF OnTime, Lead, Waiting
<1> QED BY <1>1, <1>2

(* What has a process keeps its row, whatever happens. *)
LEMMA ProcessStays == ASSUME LaneInv, [Next]_vars, NEW q \in Run, proc[q] # "none"
  PROVE /\ proc'[q] # "none" /\ job'[q] = job[q]
        /\ began'[q] = began[q] /\ forSlot'[q] = forSlot[q]
<1>a. /\ TypeOK /\ RowsOK /\ now \in Nat /\ task \in [Lane -> Task(now)] /\ RunsOK
      /\ \A l \in Lane : LaneOK(l)
  BY DEF LaneInv, TypeOK, RowsOK
<1> DEFINE Same == /\ proc'[q] # "none" /\ job'[q] = job[q]
                   /\ began'[q] = began[q] /\ forSlot'[q] = forSlot[q]
<1>1. CASE \/ Advance \/ Toggle \/ RequestReview \/ TickReap \/ TickJobs \/ TickOthers
           \/ CheckRecovery \/ FinishRecovered \/ Shutdown \/ Leave \/ Crash \/ Restart
           \/ UNCHANGED vars
  BY <1>1 DEF Advance, Toggle, RequestReview, TickReap, TickJobs, TickOthers, CheckRecovery,
              FinishRecovered, Shutdown, Leave, Crash, Restart, vars, clock, database, children
<1>2. ASSUME NEW l \in Lane, NEW name, BeginRun(l, name, "begun") \/ BeginRun(l, name, "marked"),
             UNCHANGED <<proc, began>>
      PROVE Same
  <2>1. last[l] \in 0 .. now BY <1>a DEF RowsOK
  <2>2. PICK r \in Run : /\ job[r] = "none" /\ job' = [job EXCEPT ![r] = name]
                         /\ forSlot' = [forSlot EXCEPT ![r] = task[l].slot]
    BY <1>a, <1>2, <2>1, BeginOfRun
  <2> QED BY <1>a, <1>2, <2>2 DEF RunsOK, RowsOK
<1>3. ASSUME NEW l \in Lane, ExecuteNatural(l) PROVE Same
  <2>1. BeginRun(l, l, "begun") \/ NoRunBegun BY <1>3 DEF ExecuteNatural
  <2>2. UNCHANGED <<proc, began>> BY <1>3 DEF ExecuteNatural
  <2> QED BY <1>2, <2>1, <2>2 DEF NoRunBegun
<1>4. CASE ExecuteManual
  BY <1>2, <1>4 DEF ExecuteManual, Lane
<1>5. CASE ExecuteRecovery
  <2>1. BeginRun("trader", "recovery", "begun") \/ NoRunBegun BY <1>5 DEF ExecuteRecovery
  <2>2. UNCHANGED <<proc, began>> BY <1>5 DEF ExecuteRecovery
  <2> QED BY <1>2, <2>1, <2>2 DEF NoRunBegun, Lane
<1>6. ASSUME NEW l \in Lane, MarkLast(l) \/ Raise(l) \/ LaunchFails(l) \/ Finish(l) PROVE Same
  BY <1>6 DEF MarkLast, Raise, LaunchFails, Finish, clock, database, children
<1>7. ASSUME NEW l \in Lane, Spawn(l) PROVE Same
  <2>1. task[l].run # q BY <1>a, <1>7 DEF Spawn, Is, LaneOK
  <2> QED BY <1>a, <1>7, <2>1 DEF Spawn, database, RowsOK
<1>8. ASSUME NEW l \in Lane, Expire(l) PROVE Same
  BY <1>a, <1>8 DEF Expire, database, RowsOK
<1>9. ASSUME NEW r \in Run, EnterCycle(r) \/ ChildEnds(r) PROVE Same
  <2>1. PICK code \in {"cycling", "ok", "bad"} : proc' = [proc EXCEPT ![r] = code]
    BY <1>9 DEF EnterCycle, ChildEnds, ChildExits
  <2> QED BY <1>a, <1>9, <2>1 DEF EnterCycle, ChildEnds, database, RowsOK
<1>10. ASSUME NEW r \in Run, ModelAnswers(r) \/ ModelRefuses(r) PROVE Same
  BY <1>10 DEF ModelAnswers, ModelRefuses, database
<1> QED
  BY <1>1, <1>3, <1>4, <1>5, <1>6, <1>7, <1>8, <1>9, <1>10 DEF Next

(* No step lets a trader or a recovery slip out of its time. *)
LEMMA OnTimeStays == ASSUME LaneInv, RecoveryInv, OnTime, [Next]_vars PROVE OnTime'
<1>a. /\ TypeOK /\ RowsOK /\ now \in Nat /\ task \in [Lane -> Task(now)] /\ RunsOK
      /\ \A l \in Lane : LaneOK(l)
      /\ "trader" \in Lane
  BY DEF LaneInv, TypeOK, RowsOK, Lane
<1>r. Lead.state \in {"begun", "marked", "running"} => Lead.run \in Run
  BY <1>a DEF LaneOK, Lead
<1>p. Lead.state = "running" =>
        began'[Lead.run] = began[Lead.run] /\ forSlot'[Lead.run] = forSlot[Lead.run]
  <2>1. Lead.state = "running" => proc[Lead.run] # "none" BY <1>a DEF LaneOK, Lead
  <2> QED BY <1>r, <2>1, ProcessStays
<1>1. CASE Advance
  <2>1. /\ now' = now + 1 /\ UNCHANGED <<task, began, forSlot>>
        /\ Lead.state \in Done \/ (Lead.state = "running" /\ now < began[Lead.run] + Timeout(Lead.run))
    BY <1>1, <1>a DEF Advance, database, children, Quiet, Lead
  <2>2. ASSUME Lead.state = "running", Lead.kind = "natural"
        PROVE SlotOf(began[Lead.run]) = SlotOf(now + 1)
    <3>1. PICK r \in Run : r = Lead.run BY <1>r, <2>2
    <3>2. job[r] = "trader" BY <1>a, <2>2, <3>1 DEF LaneOK, NameOf, Lead
    <3>3. now < began[r] + TraderTimeout
      BY <2>1, <2>2, <3>1, <3>2 DEF Timeout, Reviews, Done
    <3>4. Offset(began[r]) = 0 BY <2>2, <3>1 DEF OnTime
    <3>5. began[r] \in Nat /\ began[r] <= now BY <1>a DEF RowsOK
    <3>6. began[r] <= now + 1 /\ now + 1 < began[r] + SlotLength - Offset(began[r]) /\ now + 1 \in Nat
      BY <1>a, <3>3, <3>4, <3>5, SchedulerAssumption
    <3> QED BY <3>1, <3>5, <3>6, SameSlot
  <2> QED BY <2>1, <2>2 DEF OnTime, Lead, Waiting, Done
<1>2. CASE Toggle
  BY <1>2, OnTimeRests DEF Toggle, database, children, memory
<1>3. CASE RequestReview
  BY <1>3, OnTimeRests DEF RequestReview, children, memory
<1>4. CASE TickReap
  <2>1. UNCHANGED <<now, began, forSlot>> /\ task'["trader"] \in {NoTask, task["trader"]}
    BY <1>4, <1>a DEF TickReap, clock, children
  <2> QED BY <2>1, OnTimeRests DEF NoTask, Done
<1>5. CASE TickJobs
  <2>1. UNCHANGED <<now, began, forSlot>>
        /\ \/ task'["trader"] = task["trader"]
           \/ task'["trader"] = Queued("natural") /\ Offset(now) = 0
    BY <1>5, <1>a DEF TickJobs, clock, children, TraderDue
  <2>2. CASE task'["trader"] = Queued("natural") /\ Offset(now) = 0
    BY <1>a, <2>1, <2>2, QueuedTask DEF OnTime, Lead, Waiting, RowsOK
  <2> QED BY <2>1, <2>2, OnTimeRests
<1>6. CASE TickOthers
  <2>1. /\ UNCHANGED <<now, began, forSlot>>
        /\ \/ task'["trader"] = task["trader"]
           \/ /\ task'["trader"] = Queued("recovery")
              /\ \E s \in DueRecoveries : Launchable(s)
    BY <1>6, <1>a DEF TickOthers, clock, children
  <2>2. CASE /\ task'["trader"] = Queued("recovery")
             /\ \E s \in DueRecoveries : Launchable(s)
    <3>1. PICK s \in Slots : rec[s] = "pending" /\ recAt[s] <= now /\ SlotOf(now) = s
      BY <2>2 DEF DueRecoveries, Launchable
    <3>2. s * SlotLength < recAt[s] BY <3>1 DEF RecoveryInv
    <3>3. Offset(now) # 0
      <4>1. now = SlotLength * s + Offset(now) /\ s \in Nat BY <1>a, <3>1, SlotHolds
      <4>2. s * SlotLength = SlotLength * s /\ SlotLength * s \in Nat
        BY <4>1, SchedulerAssumption
      <4>3. recAt[s] \in Nat BY <1>a DEF RowsOK
      <4> QED BY <1>a, <3>1, <3>2, <4>1, <4>2, <4>3
    <3> QED BY <1>a, <2>1, <2>2, <3>3, QueuedTask DEF OnTime, Lead, Waiting, RowsOK
  <2> QED BY <2>1, <2>2, OnTimeRests
<1>7. ASSUME NEW l \in Lane, ExecuteNatural(l) PROVE OnTime'
  <2>0. /\ UNCHANGED <<now, began>> /\ last[l] \in 0 .. now
        /\ task[l].state = "queued" /\ task[l].kind = "natural"
    BY <1>a, <1>7 DEF ExecuteNatural, clock, Is, RowsOK
  <2>1. CASE l = "trader"
    <3>1. CASE BeginRun(l, l, "begun")
      <4>1. task'["trader"].state = "begun" /\ task'["trader"].kind = "natural"
        BY <1>a, <2>0, <2>1, <3>1, BeginOfRun
      <4>2. Offset(now) = 0 BY <2>0, <2>1 DEF OnTime, Lead, Waiting
      <4> QED BY <2>0, <4>1, <4>2 DEF OnTime, Lead, Waiting
    <3>2. CASE End(l, "done")
      BY <1>a, <2>0, <2>1, <3>2, EndOfTask, OnTimeRests DEF Done
    <3> QED BY <1>7, <3>1, <3>2 DEF ExecuteNatural
  <2>2. CASE l = "review"
    <3>1. task'["trader"] = task["trader"]
      BY <1>a, <1>7, <2>0, <2>2, BeginOfRun, EndOfTask DEF ExecuteNatural, Done
    <3>2. Lead.state \in {"begun", "marked"} => forSlot'[Lead.run] = forSlot[Lead.run]
      <4>1. CASE BeginRun(l, l, "begun")
        <5>1. PICK r \in Run : job[r] = "none" /\ forSlot' = [forSlot EXCEPT ![r] = task[l].slot]
          BY <1>a, <2>0, <4>1, BeginOfRun
        <5>2. Lead.state \in {"begun", "marked"} => Lead.run # r
          BY <1>a, <5>1 DEF LaneOK, NameOf, Lead, Kinds
        <5> QED BY <1>a, <1>r, <5>1, <5>2 DEF RowsOK
      <4> QED BY <1>7, <4>1 DEF ExecuteNatural, NoRunBegun
    <3> QED BY <1>p, <2>0, <3>1, <3>2, OnTimeRests
  <2> QED BY <2>1, <2>2 DEF Lane
<1>8. ASSUME NEW l \in Lane, MarkLast(l) PROVE OnTime'
  <2>1. UNCHANGED <<now, began, forSlot>> /\ End(l, "marked") /\ task[l].kind = "natural"
        /\ task[l].state = "begun"
    BY <1>8 DEF MarkLast, clock, children, Is
  <2>2. CASE l = "trader"
    <3>1. task'["trader"].state = "marked" /\ task'["trader"].kind = "natural"
      BY <1>a, <2>1, <2>2, EndOfTask
    <3>2. Offset(now) = 0 BY <2>1, <2>2 DEF OnTime, Lead, Waiting
    <3> QED BY <2>1, <3>1, <3>2 DEF OnTime, Lead, Waiting
  <2>3. CASE l # "trader"
    BY <1>a, <2>1, <2>3, EndOfTask, OnTimeRests
  <2> QED BY <2>2, <2>3
<1>9. ASSUME NEW l \in Lane, Raise(l) PROVE OnTime'
  <2>1. UNCHANGED <<now, began, forSlot>> /\ End(l, "raised")
    BY <1>9 DEF Raise, clock, children
  <2> QED BY <1>a, <2>1, EndOfTask, OnTimeRests DEF Done
<1>10. ASSUME NEW l \in Lane, Spawn(l) PROVE OnTime'
  <2>r. PICK r \in Run : r = task[l].run
    BY <1>a, <1>10 DEF Spawn, Is, LaneOK
  <2>1. /\ UNCHANGED <<now, forSlot>> /\ End(l, "running") /\ task[l].state = "marked"
        /\ began' = [began EXCEPT ![r] = now]
    BY <1>10, <2>r DEF Spawn, clock, Is
  <2>2. CASE l = "trader"
    <3>1. /\ task'["trader"].state = "running" /\ task'["trader"].kind = Lead.kind
          /\ task'["trader"].run = r /\ Lead.run = r /\ Lead.state = "marked"
      BY <1>a, <2>r, <2>1, <2>2, EndOfTask DEF Lead
    <3>2. began'[r] = now BY <1>a, <2>1 DEF RowsOK
    <3>3. Lead.kind = "natural" => Offset(now) = 0 BY <3>1 DEF OnTime, Waiting
    <3>4. Lead.kind = "recovery" => Offset(now) # 0 /\ forSlot[r] = SlotOf(now)
      BY <3>1 DEF OnTime, Waiting
    <3> QED BY <2>1, <3>1, <3>2, <3>3, <3>4 DEF OnTime, Lead, Waiting
  <2>3. CASE l # "trader"
    <3>1. task'["trader"] = task["trader"] BY <1>a, <2>1, <2>3, EndOfTask
    <3>2. Lead.state \in {"begun", "marked", "running"} => Lead.run # r
      BY <1>a, <2>r, <2>1, <2>3, NamesDiffer DEF Lead
    <3>3. Lead.state \in {"begun", "marked", "running"} => began'[Lead.run] = began[Lead.run]
      BY <1>a, <1>r, <2>1, <3>2 DEF RowsOK
    <3> QED BY <2>1, <3>1, <3>3, OnTimeRests
  <2> QED BY <2>2, <2>3
<1>11. ASSUME NEW l \in Lane, LaunchFails(l) PROVE OnTime'
  <2>1. UNCHANGED <<now, began, forSlot>> /\ End(l, "done")
    BY <1>11 DEF LaunchFails, clock, children
  <2> QED BY <1>a, <2>1, EndOfTask, OnTimeRests DEF Done
<1>12. ASSUME NEW l \in Lane, Expire(l) PROVE OnTime'
  BY <1>12, OnTimeRests DEF Expire, clock, memory
<1>13. ASSUME NEW l \in Lane, Finish(l) PROVE OnTime'
  <2>1. UNCHANGED <<now, began, forSlot>> /\ End(l, "done")
    BY <1>13 DEF Finish, clock, children
  <2> QED BY <1>a, <2>1, EndOfTask, OnTimeRests DEF Done
<1>14. CASE ExecuteManual
  <2>0. /\ UNCHANGED <<now, began>> /\ last["review"] \in 0 .. now
        /\ "review" \in Lane /\ BeginRun("review", "manual", "marked")
    BY <1>a, <1>14 DEF ExecuteManual, clock, RowsOK, Lane
  <2>1. PICK r \in Run : /\ job[r] = "none" /\ task'["trader"] = task["trader"]
                         /\ forSlot' = [forSlot EXCEPT ![r] = task["review"].slot]
    BY <1>a, <2>0, BeginOfRun
  <2>2. Lead.state \in {"begun", "marked"} => Lead.run # r
    BY <1>a, <2>1 DEF LaneOK, NameOf, Lead, Kinds
  <2>3. Lead.state \in {"begun", "marked"} => forSlot'[Lead.run] = forSlot[Lead.run]
    BY <1>a, <1>r, <2>1, <2>2 DEF RowsOK
  <2> QED BY <1>p, <2>0, <2>1, <2>3, OnTimeRests
<1>15. CASE ExecuteRecovery
  <2>0. /\ UNCHANGED <<now, began>> /\ last["trader"] \in 0 .. now
        /\ task["trader"].state = "queued" /\ task["trader"].kind = "recovery"
    BY <1>a, <1>15 DEF ExecuteRecovery, clock, Is, RowsOK
  <2>1. CASE BeginRun("trader", "recovery", "begun")
    <3>1. PICK r \in Run :
            /\ task'["trader"].state = "begun" /\ task'["trader"].kind = "recovery"
            /\ task'["trader"].run = r /\ task'["trader"].slot = task["trader"].slot
            /\ forSlot' = [forSlot EXCEPT ![r] = task["trader"].slot]
      BY <1>a, <2>0, <2>1, BeginOfRun
    <3>2. forSlot'[r] = task["trader"].slot BY <1>a, <3>1 DEF RowsOK
    <3>3. Offset(now) # 0 /\ task["trader"].slot = SlotOf(now)
      BY <2>0 DEF OnTime, Lead, Waiting
    <3> QED BY <2>0, <3>1, <3>2, <3>3 DEF OnTime, Lead, Waiting
  <2>2. CASE End("trader", "done")
    BY <1>a, <2>0, <2>2, EndOfTask, OnTimeRests DEF Done
  <2> QED BY <1>15, <2>1, <2>2 DEF ExecuteRecovery
<1>16. CASE CheckRecovery
  <2>0. /\ UNCHANGED <<now, began, forSlot>>
        /\ task["trader"].state = "begun" /\ task["trader"].kind = "recovery"
    BY <1>16 DEF CheckRecovery, clock, Is, children
  <2>1. CASE End("trader", "marked")
    <3>1. /\ task'["trader"].state = "marked" /\ task'["trader"].kind = "recovery"
          /\ task'["trader"].run = Lead.run /\ task'["trader"].slot = Lead.slot
      BY <1>a, <2>0, <2>1, EndOfTask DEF Lead
    <3>2. Offset(now) # 0 /\ Lead.slot = SlotOf(now) /\ forSlot[Lead.run] = SlotOf(now)
      BY <2>0 DEF OnTime, Lead, Waiting
    <3> QED BY <2>0, <3>1, <3>2 DEF OnTime, Lead, Waiting
  <2>2. CASE End("trader", "done")
    BY <1>a, <2>0, <2>2, EndOfTask, OnTimeRests DEF Done
  <2> QED BY <1>16, <2>1, <2>2 DEF CheckRecovery
<1>17. CASE FinishRecovered
  <2>1. UNCHANGED <<now, began, forSlot>> /\ End("trader", "done")
    BY <1>17 DEF FinishRecovered, clock, children
  <2> QED BY <1>a, <2>1, EndOfTask, OnTimeRests DEF Done
<1>18. CASE Shutdown
  <2>1. UNCHANGED <<now, began, forSlot>> /\ task'["trader"] \in {NoTask, task["trader"]}
    BY <1>18, <1>a DEF Shutdown, children
  <2> QED BY <2>1, OnTimeRests DEF NoTask, Done
<1>19. CASE Leave
  <2>1. now' = now /\ task'["trader"] = NoTask
    BY <1>19, <1>a DEF Leave, Forget, clock
  <2> QED BY <2>1, OnTimeRests DEF NoTask, Done
<1>20. CASE Crash
  <2>1. now' = now /\ task'["trader"] = NoTask
    BY <1>20, <1>a DEF Crash, Forget
  <2> QED BY <2>1, OnTimeRests DEF NoTask, Done
<1>21. CASE Restart
  BY <1>21, OnTimeRests DEF Restart, clock, memory, children
<1>22. ASSUME NEW r \in Run, EnterCycle(r) PROVE OnTime'
  BY <1>22, OnTimeRests DEF EnterCycle, clock, memory
<1>23. ASSUME NEW r \in Run, ModelAnswers(r) PROVE OnTime'
  BY <1>23, OnTimeRests DEF ModelAnswers, clock, memory
<1>24. ASSUME NEW r \in Run, ModelRefuses(r) PROVE OnTime'
  BY <1>24, OnTimeRests DEF ModelRefuses, clock, memory
<1>25. ASSUME NEW r \in Run, ChildEnds(r) PROVE OnTime'
  BY <1>25, OnTimeRests DEF ChildEnds, clock, memory
<1>26. CASE UNCHANGED vars
  BY <1>26, OnTimeRests DEF vars, clock, children, memory
<1> QED
  BY <1>1, <1>2, <1>3, <1>4, <1>5, <1>6, <1>7, <1>8, <1>9, <1>10, <1>11, <1>12, <1>13, <1>14,
     <1>15, <1>16, <1>17, <1>18, <1>19, <1>20, <1>21, <1>22, <1>23, <1>24, <1>25, <1>26 DEF Next
-----------------------------------------------------------------------------
(* The review beside the trader, while trading was never paused and no other *)
(* job takes the shared threads.                                             *)
Guest == task["review"]
GuestIn == Guest.state \in Waiting \cup {"running"}
LeadIn  == Lead.kind = "natural" /\ Lead.state \in Waiting \cup {"running"}

(* The time left in its slot is enough for the review that waits or runs.    *)
GuestFits ==
  /\ Guest.state \in Waiting => SlotLength - Offset(now) > ReviewTimeout + Cleanup
  /\ Guest.state = "running" =>
       /\ SlotOf(began[Guest.run]) = SlotOf(now)
       /\ SlotLength - Offset(began[Guest.run]) > ReviewTimeout + Cleanup

(* No natural will start in this unit any more.                              *)
Spent == \/ SlotOf(last["trader"]) >= SlotOf(now)
         \/ hold["trader"] = now
         \/ Lead.state = "raised"

(* When the tick looks at a lane whose future is over, in the first unit.    *)
LaneGiven ==
  /\ Offset(now) = 0 /\ worker = "up"
  /\ \/ tick = "jobs" /\ Lead.state \in {"done", "raised"}
     \/ tick = "others" /\ Lead.state \in Done
  => Spent \/ Overran(SlotOf(now))

GuestApart == GuestIn =>
  \/ Overran(SlotOf(now))
  \/ ~LeadIn /\ (Offset(now) = 0 => Spent)

ReviewInv == ~PoolBusy /\ ~paused => enabled /\ GuestFits /\ LaneGiven /\ GuestApart

(* A recovery that ran into this slot has run into it for good. *)
LEMMA OverranStays == ASSUME LaneInv, [Next]_vars, Overran(SlotOf(now)), SlotOf(now') = SlotOf(now)
  PROVE Overran(SlotOf(now))'
<1>1. PICK q \in Run : /\ job[q] = "recovery" /\ proc[q] # "none"
                       /\ forSlot[q] + 1 = SlotOf(now)
                       /\ began[q] + TraderTimeout >= SlotOf(now) * SlotLength
  BY DEF Overran
<1>2. /\ proc'[q] # "none" /\ job'[q] = job[q] /\ began'[q] = began[q] /\ forSlot'[q] = forSlot[q]
  BY <1>1, ProcessStays
<1> QED BY <1>1, <1>2 DEF Overran

(* What a step must leave alone for the review's part, and for the trader's. *)
LEMMA FitsRests ==
  ASSUME GuestFits, now' = now,
         \/ task'["review"].state \in Done
         \/ task'["review"].state \in Waiting /\ Guest.state \in Waiting
         \/ task'["review"] = Guest /\ (Guest.state = "running" => began'[Guest.run] = began[Guest.run])
  PROVE GuestFits'
<1>1. CASE task'["review"].state \in Done
  BY <1>1 DEF GuestFits, Guest, Waiting, Done
<1>2. CASE task'["review"].state \in Waiting /\ Guest.state \in Waiting
  BY <1>2 DEF GuestFits, Guest, Waiting
<1>3. CASE task'["review"] = Guest /\ (Guest.state = "running" => began'[Guest.run] = began[Guest.run])
  BY <1>3 DEF GuestFits, Guest, Waiting
<1> QED BY <1>1, <1>2, <1>3

(* A step that starts neither of the two keeps them apart. *)
LEMMA ApartRests ==
  ASSUME LaneInv, [Next]_vars, GuestApart, now' = now, GuestIn' => GuestIn,
         LeadIn' => LeadIn, Spent => Spent'
  PROVE GuestApart'
<1>1. Overran(SlotOf(now)) => Overran(SlotOf(now))' BY OverranStays
<1>2. Offset(now)' = Offset(now) BY DEF Offset
<1> QED BY <1>1, <1>2 DEF GuestApart

(* A step that gives the trader's lane to nobody. *)
LEMMA GivenRests ==
  ASSUME LaneInv, [Next]_vars, LaneGiven, now' = now, Spent => Spent',
         worker' = "up" => worker = "up" /\ tick' = tick,
         \/ Lead'.state = Lead.state
         \/ Lead'.state \notin Done
         \/ Offset(now) # 0
         \/ Spent'
         \/ Overran(SlotOf(now))
  PROVE LaneGiven'
<1>1. Overran(SlotOf(now)) => Overran(SlotOf(now))' BY OverranStays
<1>2. Offset(now)' = Offset(now) BY DEF Offset
<1> QED BY <1>1, <1>2 DEF LaneGiven, Done

(* No step brings the review and the trader of a slot together. *)
LEMMA ReviewsStay ==
  ASSUME LaneInv, LaneInv', NaturalInv, RecoveryInv, OnTime, ReviewInv, [Next]_vars
  PROVE ReviewInv'
<1> SUFFICES ASSUME ~PoolBusy, ~paused'
             PROVE enabled' /\ GuestFits' /\ LaneGiven' /\ GuestApart'
  BY DEF ReviewInv
<1>a. /\ TypeOK /\ RowsOK /\ now \in Nat /\ task \in [Lane -> Task(now)] /\ RunsOK
      /\ \A l \in Lane : LaneOK(l)
      /\ "trader" \in Lane /\ "review" \in Lane
  BY DEF LaneInv, TypeOK, RowsOK, Lane
<1>w. WorkerOK BY DEF LaneInv
<1>s. SlotOf(now) \in Nat /\ SlotOf(last["trader"]) \in Nat /\ Offset(now) \in Nat
  <2>1. last["trader"] \in Nat BY <1>a DEF RowsOK
  <2> QED BY <1>a, <2>1, SlotHolds
<1>b. ~paused /\ enabled' = enabled
  BY <1>a DEF Next, Advance, Toggle, RequestReview, TickReap, TickJobs, TickOthers, ExecuteNatural,
     MarkLast, Raise, Spawn, LaunchFails, Expire, Finish, ExecuteManual, ExecuteRecovery,
     CheckRecovery, FinishRecovered, Shutdown, Leave, Crash, Restart, EnterCycle, ModelAnswers,
     ModelRefuses, ChildEnds, vars, clock
<1>c. enabled /\ enabled' /\ GuestFits /\ LaneGiven /\ GuestApart
  BY <1>b DEF ReviewInv
<1>d. ReviewInv' <=> enabled' /\ GuestFits' /\ LaneGiven' /\ GuestApart'
  BY DEF ReviewInv
<1>1. CASE Advance
  <2>1. /\ now' = now + 1 /\ UNCHANGED <<worker, task, began, tick, last, hold>>
        /\ worker = "up" => tick = "idle"
        /\ \/ Guest.state \in Done
           \/ Guest.state = "running" /\ now < began[Guest.run] + Timeout(Guest.run)
    BY <1>1, <1>a DEF Advance, database, children, Quiet, Guest
  <2>2. LaneGiven' BY <1>w, <2>1 DEF LaneGiven, WorkerOK
  <2>3. CASE Guest.state \in Done
    BY <1>c, <2>1, <2>2, <2>3 DEF GuestFits, GuestApart, Guest, GuestIn, Waiting, Done
  <2>4. CASE Guest.state = "running" /\ now < began[Guest.run] + Timeout(Guest.run)
    <3>1. PICK r \in Run : r = Guest.run BY <1>a, <2>4 DEF LaneOK, Guest
    <3>2. job[r] \in Reviews
      BY <1>a, <2>4, <3>1 DEF LaneOK, NameOf, Kinds, Guest, Reviews
    <3>3. /\ now < began[r] + ReviewTimeout /\ SlotOf(began[r]) = SlotOf(now)
          /\ SlotLength - Offset(began[r]) > ReviewTimeout + Cleanup
      BY <1>c, <2>4, <3>1, <3>2 DEF Timeout, GuestFits
    <3>4. began[r] \in Nat /\ began[r] <= now /\ Offset(began[r]) \in Nat
      BY <1>a, SlotHolds DEF RowsOK
    <3>5. began[r] <= now + 1 /\ now + 1 < began[r] + SlotLength - Offset(began[r]) /\ now + 1 \in Nat
      BY <1>a, <3>3, <3>4, SchedulerAssumption
    <3>6. SlotOf(now + 1) = SlotOf(now)
      BY <3>3, <3>4, <3>5, SameSlot
    <3>7. Offset(now + 1) # 0
      <4>1. /\ now = SlotLength * SlotOf(now) + Offset(now)
            /\ now + 1 = SlotLength * SlotOf(now) + Offset(now + 1)
            /\ Offset(now + 1) \in Nat
        BY <1>a, <3>5, <3>6, SlotHolds
      <4>2. SlotLength * SlotOf(now) \in Nat BY <1>s, SchedulerAssumption
      <4> QED BY <1>a, <1>s, <4>1, <4>2
    <3>8. GuestFits' BY <1>c, <2>1, <2>4, <3>1, <3>3, <3>6 DEF GuestFits, Guest, Waiting
    <3>9. Overran(SlotOf(now)) => Overran(SlotOf(now))'
      BY <2>1, <3>6, OverranStays
    <3>10. GuestApart'
      BY <1>c, <2>1, <2>4, <3>7, <3>9 DEF GuestApart, GuestIn, LeadIn, Guest, Lead
    <3> QED BY <1>c, <2>2, <3>8, <3>10
  <2> QED BY <2>1, <2>3, <2>4
<1>2. CASE Toggle
  BY <1>2 DEF Toggle
<1>3. CASE RequestReview
  <2>1. UNCHANGED <<now, worker, task, began, tick, last, hold>>
    BY <1>3 DEF RequestReview, children, memory
  <2> QED BY <1>c, <2>1, FitsRests, ApartRests, GivenRests DEF Guest, Lead, GuestIn, LeadIn, Spent
<1>4. CASE TickReap
  <2>1. /\ UNCHANGED <<now, worker, began, last>> /\ tick' = "jobs"
        /\ task' = [l \in Lane |-> IF task[l].state \in Done THEN NoTask ELSE task[l]]
        /\ hold' = [l \in Lane |-> IF task[l].state = "raised" THEN now ELSE hold[l]]
    BY <1>4 DEF TickReap, clock, children
  <2>2. /\ Guest.state \notin Done => task'["review"] = Guest
        /\ Guest.state \in Done => task'["review"] = NoTask
        /\ Lead.state \notin Done => task'["trader"] = Lead
        /\ Lead.state \in Done => task'["trader"] = NoTask
        /\ hold'["trader"] = IF Lead.state = "raised" THEN now ELSE hold["trader"]
    BY <1>a, <2>1 DEF Guest, Lead
  <2>3. GuestFits' BY <1>c, <2>1, <2>2, FitsRests DEF NoTask, Done
  <2>4. Spent => Spent' BY <2>1, <2>2 DEF Spent, Lead
  <2>5. (GuestIn' => GuestIn) /\ (LeadIn' => LeadIn)
    BY <2>2 DEF GuestIn, LeadIn, Guest, Lead, NoTask, Waiting
  <2>6. GuestApart' BY <1>c, <2>1, <2>4, <2>5, ApartRests
  <2>7. LaneGiven' BY <2>1, <2>2 DEF LaneGiven, Lead, NoTask, Done
  <2> QED BY <1>c, <2>3, <2>6, <2>7
<1>5. CASE TickJobs
  <2> DEFINE trader == enabled /\ Free("trader") /\ hold["trader"] # now /\ TraderDue
  <2>1. /\ UNCHANGED <<now, worker, began, last, hold>> /\ tick = "jobs" /\ tick' = "others"
        /\ worker = "up"
        /\ task'["trader"] = IF trader THEN Queued("natural") ELSE Lead
        /\ \/ task'["review"] = Guest
           \/ task'["review"] = Queued("natural") /\ ReviewWindowOpen /\ ~trader
    BY <1>5, <1>a DEF TickJobs, clock, children, database, Lead, Guest
  <2>2. /\ Queued("natural").state = "queued" /\ Queued("natural").kind = "natural"
        /\ NoTask.state = "none"
    BY <1>a, QueuedTask DEF RowsOK, NoTask
  <2>3. trader => Lead.state = "none" /\ ~Spent
    BY <1>s, <2>2 DEF Free, TraderDue, Spent, Lead
  <2>4. ~trader => (Lead' = Lead /\ (Spent' <=> Spent))
    BY <2>1 DEF Lead, Spent
  <2>5. Lead.state = "none" /\ ~trader /\ Offset(now) = 0 => Spent
    <3>1. Lead.state = "none" => Free("trader") BY <1>a DEF LaneOK, Free, Lead
    <3> QED BY <1>c, <1>s, <3>1 DEF Spent, TraderDue
  <2>6. LaneGiven'
    <3>1. CASE trader BY <2>1, <2>2, <3>1 DEF LaneGiven, Lead, Done
    <3>2. CASE ~trader
      <4>1. Overran(SlotOf(now)) => Overran(SlotOf(now))' BY <2>1, OverranStays
      <4>2. Offset(now)' = Offset(now) BY <2>1 DEF Offset
      <4>3. Offset(now) = 0 /\ Lead.state \in Done => Spent \/ Overran(SlotOf(now))
        BY <1>c, <2>1, <2>5, <3>2 DEF LaneGiven, Done
      <4> QED BY <2>1, <2>4, <3>2, <4>1, <4>2, <4>3 DEF LaneGiven
    <3> QED BY <3>1, <3>2
  <2>7. CASE task'["review"] = Guest
    <3>1. GuestFits' BY <1>c, <2>1, <2>7, FitsRests
    <3>2. CASE ~trader
      BY <1>c, <2>1, <2>4, <2>7, <3>1, <3>2, <2>6, ApartRests DEF GuestIn, Guest, LeadIn
    <3>3. CASE trader
      <4>1. Offset(now) = 0 BY <3>3 DEF TraderDue
      <4>2. GuestIn => Overran(SlotOf(now)) BY <1>c, <2>3, <3>3, <4>1 DEF GuestApart
      <4>3. Overran(SlotOf(now)) => Overran(SlotOf(now))' BY <2>1, OverranStays
      <4>4. GuestApart' BY <2>7, <4>2, <4>3 DEF GuestApart, GuestIn, Guest
      <4> QED BY <1>c, <2>6, <3>1, <4>4
    <3> QED BY <3>2, <3>3
  <2>8. CASE task'["review"] = Queued("natural") /\ ReviewWindowOpen /\ ~trader
    <3>1. Lead.state \in Done /\ SlotLength - Offset(now) > ReviewTimeout + Cleanup
      BY <1>c, <2>8 DEF ReviewWindowOpen, Lead
    <3>2. Offset(now)' = Offset(now) BY <2>1 DEF Offset
    <3>3. GuestFits' BY <2>2, <2>8, <3>1, <3>2 DEF GuestFits, Guest, Waiting
    <3>4. Offset(now) = 0 => Spent \/ Overran(SlotOf(now))
      BY <1>c, <2>1, <2>5, <2>8, <3>1 DEF LaneGiven, Done
    <3>5. ~LeadIn' BY <2>4, <2>8, <3>1 DEF LeadIn, Waiting, Done
    <3>6. Overran(SlotOf(now)) => Overran(SlotOf(now))' BY <2>1, OverranStays
    <3>7. GuestApart' BY <2>4, <2>8, <3>2, <3>4, <3>5, <3>6 DEF GuestApart
    <3> QED BY <1>c, <2>6, <3>3, <3>7
  <2> QED BY <2>1, <2>7, <2>8
<1>6. CASE TickOthers
  <2> DEFINE recovery == Free("trader") /\ \E s \in DueRecoveries : Launchable(s)
  <2>1. /\ UNCHANGED <<now, worker, began, last, hold>> /\ tick = "others" /\ tick' = "idle"
        /\ worker = "up"
        /\ task'["trader"] = IF recovery THEN Queued("recovery") ELSE Lead
        /\ \/ task'["review"] = Guest
           \/ task'["review"] = Queued("manual") /\ ReviewWindowOpen /\ ~recovery
    BY <1>6, <1>a DEF TickOthers, clock, children, Lead, Guest
  <2>2. /\ Queued("recovery").state = "queued" /\ Queued("recovery").kind = "recovery"
        /\ Queued("manual").state = "queued"
        /\ NoTask.state = "none"
    BY <1>a, QueuedTask DEF RowsOK, NoTask
  <2>3. recovery => Lead.state = "none" BY <2>2 DEF Free, Lead
  <2>4. /\ Spent => Spent'
        /\ LeadIn' => LeadIn
    BY <2>1, <2>2, <2>3 DEF Spent, LeadIn, Lead
  <2>5. LaneGiven' BY <2>1 DEF LaneGiven
  <2>6. CASE task'["review"] = Guest
    BY <1>c, <2>1, <2>4, <2>5, <2>6, FitsRests, ApartRests DEF GuestIn, Guest
  <2>7. CASE task'["review"] = Queued("manual") /\ ReviewWindowOpen /\ ~recovery
    <3>1. Lead.state \in Done /\ SlotLength - Offset(now) > ReviewTimeout + Cleanup
      BY <1>c, <2>7 DEF ReviewWindowOpen, Lead
    <3>2. Offset(now)' = Offset(now) BY <2>1 DEF Offset
    <3>3. GuestFits' BY <2>2, <2>7, <3>1, <3>2 DEF GuestFits, Guest, Waiting
    <3>4. Offset(now) = 0 => Spent \/ Overran(SlotOf(now))
      BY <1>c, <2>1, <3>1 DEF LaneGiven
    <3>5. ~LeadIn' BY <2>1, <2>7, <3>1 DEF LeadIn, Lead, Waiting, Done
    <3>6. Overran(SlotOf(now)) => Overran(SlotOf(now))' BY <2>1, OverranStays
    <3>7. GuestApart' BY <2>4, <3>2, <3>4, <3>5, <3>6 DEF GuestApart
    <3> QED BY <1>c, <2>5, <3>3, <3>7
  <2> QED BY <2>1, <2>6, <2>7
<1>7. ASSUME NEW l \in Lane, ExecuteNatural(l) PROVE ReviewInv'
  <2>0. /\ UNCHANGED <<now, worker, last, began, tick, hold>> /\ last[l] \in 0 .. now
        /\ task[l].state = "queued" /\ task[l].kind = "natural"
        /\ BeginRun(l, l, "begun") \/ End(l, "done")
    BY <1>a, <1>7 DEF ExecuteNatural, clock, Is, RowsOK
  <2>1. /\ \A m \in Lane : m # l => task'[m] = task[m]
        /\ task'[l].state \in {"begun", "done"} /\ task'[l].kind = "natural"
    BY <1>a, <2>0, BeginOfRun, EndOfTask DEF Done
  <2>2. CASE l = "trader"
    <3>1. /\ task'["review"] = Guest /\ (LeadIn' => LeadIn) /\ (Spent => Spent')
      BY <1>a, <2>0, <2>1, <2>2 DEF Guest, LeadIn, Lead, Spent, Waiting
    <3>2. task'[l].state = "done" => Spent'
      <4>1. Offset(now) = 0 BY <2>0, <2>2 DEF OnTime, Lead, Waiting
      <4>2. ASSUME task'[l].state = "done" PROVE ~TraderDue
        <5>1. BeginRun(l, l, "begun") => task'[l].state = "begun" BY <1>a, <2>0, BeginOfRun
        <5> QED BY <1>7, <1>c, <2>2, <4>2, <5>1 DEF ExecuteNatural
      <4>3. ~TraderDue => SlotOf(last["trader"]) >= SlotOf(now) BY <1>s, <4>1 DEF TraderDue
      <4> QED BY <2>0, <4>2, <4>3 DEF Spent
    <3>3. LaneGiven' BY <1>c, <2>0, <2>1, <2>2, <3>1, <3>2, GivenRests DEF Lead, Done
    <3> QED BY <1>c, <1>d, <2>0, <3>1, <3>3, FitsRests, ApartRests DEF GuestIn, Guest
  <2>3. CASE l = "review"
    <3>1. /\ task'["trader"] = Lead /\ (LeadIn' => LeadIn) /\ (Spent => Spent')
          /\ Lead'.state = Lead.state
      BY <1>a, <2>0, <2>1, <2>3 DEF LeadIn, Lead, Spent
    <3>2. (GuestIn' => GuestIn) /\ GuestFits'
      BY <1>c, <2>0, <2>1, <2>3, FitsRests DEF GuestIn, Guest, Waiting, Done
    <3> QED BY <1>c, <1>d, <2>0, <3>1, <3>2, ApartRests, GivenRests
  <2> QED BY <2>2, <2>3 DEF Lane
<1>8. ASSUME NEW l \in Lane, MarkLast(l) PROVE ReviewInv'
  <2>0. /\ UNCHANGED <<now, worker, began, tick, hold>> /\ last' = [last EXCEPT ![l] = now]
        /\ task[l].state = "begun" /\ task[l].kind = "natural" /\ End(l, "marked")
    BY <1>8 DEF MarkLast, clock, Is, children
  <2>1. /\ \A m \in Lane : m # l => task'[m] = task[m]
        /\ task'[l].state = "marked" /\ task'[l].kind = "natural"
    BY <1>a, <2>0, EndOfTask
  <2>2. Spent => Spent'
    BY <1>a, <1>s, <2>0, <2>1 DEF Spent, Lead, RowsOK
  <2>3. /\ LeadIn' => LeadIn
        /\ Lead'.state \notin Done \/ Lead'.state = Lead.state
        /\ GuestIn' => GuestIn
    BY <1>a, <2>0, <2>1 DEF LeadIn, Lead, GuestIn, Guest, Waiting, Done
  <2>4. GuestFits'
    BY <1>a, <1>c, <2>0, <2>1, FitsRests DEF Guest, Waiting
  <2> QED BY <1>c, <1>d, <2>0, <2>2, <2>3, <2>4, ApartRests, GivenRests
<1>9. ASSUME NEW l \in Lane, Raise(l) PROVE ReviewInv'
  <2>0. UNCHANGED <<now, worker, last, began, tick, hold>> /\ End(l, "raised")
    BY <1>9 DEF Raise, clock, children, database
  <2>1. /\ \A m \in Lane : m # l => task'[m] = task[m]
        /\ task'[l].state = "raised"
    BY <1>a, <2>0, EndOfTask DEF Done
  <2>2. /\ Spent => Spent'
        /\ LeadIn' => LeadIn
        /\ Lead'.state = Lead.state \/ Spent'
        /\ GuestIn' => GuestIn
    BY <1>a, <2>0, <2>1 DEF LeadIn, Lead, GuestIn, Guest, Waiting, Spent
  <2>3. GuestFits'
    BY <1>a, <1>c, <2>0, <2>1, FitsRests DEF Guest, Done
  <2> QED BY <1>c, <1>d, <2>0, <2>2, <2>3, ApartRests, GivenRests
<1>10. ASSUME NEW l \in Lane, Spawn(l) PROVE ReviewInv'
  <2>r. PICK r \in Run : r = task[l].run
    BY <1>a, <1>10 DEF Spawn, Is, LaneOK
  <2>0. /\ UNCHANGED <<now, worker, last, tick, hold>> /\ End(l, "running")
        /\ task[l].state = "marked" /\ began' = [began EXCEPT ![r] = now] /\ proc[r] = "none"
    BY <1>a, <1>10, <2>r DEF Spawn, clock, database, Is, LaneOK
  <2>1. /\ \A m \in Lane : m # l => task'[m] = task[m]
        /\ task'[l].state = "running" /\ task'[l].kind = task[l].kind /\ task'[l].run = r
    BY <1>a, <2>0, <2>r, EndOfTask
  <2>2. /\ Spent => Spent'
        /\ LeadIn' => LeadIn
        /\ Lead'.state = Lead.state \/ Lead'.state \notin Done
        /\ GuestIn' => GuestIn
    BY <1>a, <2>0, <2>1 DEF LeadIn, Lead, GuestIn, Guest, Waiting, Spent, Done
  <2>3. GuestFits'
    <3>1. CASE l = "review"
      <4>1. began'[r] = now BY <1>a, <2>0 DEF RowsOK
      <4> QED BY <1>c, <1>d, <2>0, <2>1, <3>1, <4>1 DEF GuestFits, Guest, Waiting
    <3>2. CASE l # "review"
      <4>1. task'["review"] = Guest BY <1>a, <2>1, <3>2 DEF Guest
      <4>2. Guest.state = "running" => Guest.run # r BY <1>a, <2>0 DEF LaneOK, Guest
      <4>3. Guest.state = "running" => began'[Guest.run] = began[Guest.run]
        BY <1>a, <2>0, <4>2 DEF RowsOK, LaneOK, Guest
      <4> QED BY <1>c, <1>d, <2>0, <4>1, <4>3, FitsRests
    <3> QED BY <3>1, <3>2
  <2> QED BY <1>c, <1>d, <2>0, <2>2, <2>3, ApartRests, GivenRests
<1>11. ASSUME NEW l \in Lane, LaunchFails(l) PROVE ReviewInv'
  <2>0. /\ UNCHANGED <<now, worker, began, tick>> /\ End(l, "done") /\ task[l].state = "marked"
        /\ \/ task[l].kind # "natural" /\ UNCHANGED <<last, hold>>
           \/ /\ task[l].kind = "natural" /\ last' = [last EXCEPT ![l] = task[l].previous]
              /\ hold' = [hold EXCEPT ![l] = now]
    BY <1>11 DEF LaunchFails, clock, children, Is
  <2>1. /\ \A m \in Lane : m # l => task'[m] = task[m]
        /\ task'[l].state = "done"
    BY <1>a, <2>0, EndOfTask DEF Done
  <2>2. /\ LeadIn' => LeadIn
        /\ GuestIn' => GuestIn
    BY <1>a, <2>0, <2>1 DEF LeadIn, Lead, GuestIn, Guest, Waiting
  <2>3. GuestFits'
    BY <1>a, <1>c, <2>0, <2>1, FitsRests DEF Guest, Done
  <2>4. CASE l = "trader"
    <3>1. CASE task[l].kind = "natural"
      <4>1. hold'["trader"] = now BY <1>a, <2>0, <2>4, <3>1 DEF RowsOK
      <4>2. Spent' BY <2>0, <4>1 DEF Spent
      <4> QED BY <1>c, <1>d, <2>0, <2>2, <2>3, <4>2, ApartRests, GivenRests
    <3>2. CASE task[l].kind # "natural"
      <4>1. Lead.kind = "recovery" BY <1>a, <2>0, <2>4, <3>2 DEF LaneOK, Kinds, Lead
      <4>2. Offset(now) # 0 BY <2>0, <2>4, <4>1 DEF OnTime, Lead, Waiting
      <4>3. Spent => Spent' BY <2>0, <2>4, <3>2 DEF Spent, Lead
      <4> QED BY <1>c, <1>d, <2>0, <2>2, <2>3, <4>2, <4>3, ApartRests, GivenRests
    <3> QED BY <3>1, <3>2
  <2>5. CASE l = "review"
    <3>1. (Spent => Spent') /\ Lead'.state = Lead.state
      BY <1>a, <2>0, <2>1, <2>5 DEF Spent, Lead, RowsOK
    <3> QED BY <1>c, <1>d, <2>0, <2>2, <2>3, <3>1, ApartRests, GivenRests
  <2> QED BY <2>4, <2>5 DEF Lane
<1>12. ASSUME NEW l \in Lane, Expire(l) PROVE ReviewInv'
  <2>1. UNCHANGED <<now, worker, task, began, tick, last, hold>>
    BY <1>12 DEF Expire, clock, database, memory
  <2> QED BY <1>c, <1>d, <2>1, FitsRests, ApartRests, GivenRests DEF Guest, Lead, GuestIn, LeadIn, Spent
<1>13. ASSUME NEW l \in Lane, Finish(l) PROVE ReviewInv'
  <2>0. /\ UNCHANGED <<now, worker, last, began, tick, hold>> /\ End(l, "done")
        /\ task[l].state = "running" /\ task[l].kind \in {"natural", "manual"}
    BY <1>13 DEF Finish, clock, children, Is
  <2>1. /\ \A m \in Lane : m # l => task'[m] = task[m]
        /\ task'[l].state = "done"
    BY <1>a, <2>0, EndOfTask DEF Done
  <2>2. /\ Spent => Spent'
        /\ LeadIn' => LeadIn
        /\ GuestIn' => GuestIn
    BY <1>a, <2>0, <2>1 DEF LeadIn, Lead, GuestIn, Guest, Waiting, Spent
  <2>3. GuestFits'
    BY <1>a, <1>c, <2>0, <2>1, FitsRests DEF Guest, Done
  <2>4. Lead'.state = Lead.state \/ Spent'
    <3>1. CASE l = "trader"
      <4>1. Lead.state = "running" /\ Lead.kind = "natural"
        BY <1>a, <2>0, <3>1 DEF LaneOK, Kinds, Lead
      <4>2. PICK r \in Run : r = Lead.run /\ job[r] = "trader" /\ proc[r] # "none"
        BY <1>a, <4>1 DEF LaneOK, NameOf, Lead
      <4>3. SlotOf(began[r]) = SlotOf(now) BY <4>1, <4>2 DEF OnTime
      <4>4. SlotOf(began[r]) <= SlotOf(last["trader"])
        BY <4>2 DEF NaturalInv, Started
      <4>5. SlotOf(last["trader"]) >= SlotOf(now) BY <1>s, <4>3, <4>4
      <4> QED BY <2>0, <4>5 DEF Spent
    <3>2. CASE l # "trader" BY <1>a, <2>1, <3>2 DEF Lead
    <3> QED BY <3>1, <3>2
  <2> QED BY <1>c, <1>d, <2>0, <2>2, <2>3, <2>4, ApartRests, GivenRests
<1>14. CASE ExecuteManual
  <2>0. /\ UNCHANGED <<now, worker, last, began, tick, hold>> /\ last["review"] \in 0 .. now
        /\ task["review"].state = "queued" /\ BeginRun("review", "manual", "marked")
    BY <1>a, <1>14 DEF ExecuteManual, clock, RowsOK, Is
  <2>1. task'["trader"] = task["trader"] /\ task'["review"].state = "marked"
    BY <1>a, <2>0, BeginOfRun DEF Lane
  <2>2. /\ Spent => Spent'
        /\ LeadIn' => LeadIn
        /\ Lead'.state = Lead.state
        /\ GuestIn' => GuestIn
    BY <2>0, <2>1 DEF LeadIn, Lead, GuestIn, Guest, Waiting, Spent
  <2>3. GuestFits' BY <1>c, <2>0, <2>1, FitsRests DEF Guest, Waiting
  <2> QED BY <1>c, <1>d, <2>0, <2>2, <2>3, ApartRests, GivenRests
<1>r. ASSUME UNCHANGED <<now, worker, last, began, tick, hold>>, task'["review"] = Guest,
             task'["trader"].kind = "recovery", Lead.state # "raised", Lead.state # "none",
             task'["trader"].state \notin Done \/ Offset(now) # 0 \/ Overran(SlotOf(now))
      PROVE ReviewInv'
  <2>1. /\ Spent => Spent'
        /\ LeadIn' => LeadIn
        /\ GuestIn' => GuestIn
        /\ Lead'.state = task'["trader"].state
    BY <1>r DEF LeadIn, Lead, GuestIn, Guest, Spent
  <2>2. GuestFits' BY <1>c, <1>r, FitsRests
  <2> QED BY <1>c, <1>d, <1>r, <2>1, <2>2, ApartRests, GivenRests
<1>15. CASE ExecuteRecovery
  <2>0. /\ UNCHANGED <<now, worker, last, began, tick, hold>> /\ last["trader"] \in 0 .. now
        /\ task["trader"].state = "queued" /\ task["trader"].kind = "recovery"
        /\ BeginRun("trader", "recovery", "begun") \/ End("trader", "done")
    BY <1>a, <1>15 DEF ExecuteRecovery, clock, RowsOK, Is
  <2>1. task'["review"] = Guest /\ task'["trader"].kind = "recovery"
    BY <1>a, <2>0, BeginOfRun, EndOfTask DEF Done, Guest
  <2>2. Offset(now) # 0 BY <2>0 DEF OnTime, Lead, Waiting
  <2> QED BY <1>d, <1>r, <2>0, <2>1, <2>2 DEF Lead
<1>16. CASE CheckRecovery
  <2>0. /\ UNCHANGED <<now, worker, last, began, tick, hold>>
        /\ task["trader"].state = "begun" /\ task["trader"].kind = "recovery"
        /\ End("trader", "marked") \/ End("trader", "done")
    BY <1>16 DEF CheckRecovery, clock, Is, children
  <2>1. task'["review"] = Guest /\ task'["trader"].kind = "recovery"
    BY <1>a, <2>0, EndOfTask DEF Done, Guest
  <2>2. Offset(now) # 0 BY <2>0 DEF OnTime, Lead, Waiting
  <2> QED BY <1>d, <1>r, <2>0, <2>1, <2>2 DEF Lead
<1>17. CASE FinishRecovered
  <2>0. /\ UNCHANGED <<now, worker, last, began, tick, hold>> /\ End("trader", "done")
        /\ task["trader"].state = "running" /\ task["trader"].kind = "recovery"
    BY <1>17 DEF FinishRecovered, clock, Is, children
  <2>1. task'["review"] = Guest /\ task'["trader"].kind = "recovery"
    BY <1>a, <2>0, EndOfTask DEF Done, Guest
  <2>2. PICK r \in Run : /\ r = Lead.run /\ job[r] = "recovery" /\ proc[r] # "none"
                         /\ now <= began[r] + Timeout(r)
    BY <1>a, <2>0 DEF LaneOK, NameOf, Lead, InTime
  <2>3. SlotOf(began[r]) = forSlot[r] /\ Offset(began[r]) # 0
    BY <2>0, <2>2 DEF OnTime, Lead
  <2>4. Offset(now) = 0 => Overran(SlotOf(now))
    <3> SUFFICES ASSUME Offset(now) = 0 PROVE Overran(SlotOf(now))
      OBVIOUS
    <3>1. Timeout(r) = TraderTimeout BY <2>2 DEF Timeout, Reviews
    <3>2. began[r] \in Nat /\ began[r] <= now /\ Offset(began[r]) \in Nat
      BY <1>a, SlotHolds DEF RowsOK
    <3>3. now = SlotLength * SlotOf(now) /\ SlotLength * SlotOf(now) = SlotOf(now) * SlotLength
      <4>1. now = SlotLength * SlotOf(now) + Offset(now) /\ Offset(now) = 0
        BY <1>a, SlotHolds
      <4>2. SlotLength * SlotOf(now) \in Nat BY <1>s, SchedulerAssumption
      <4> QED BY <1>s, <4>1, <4>2, SchedulerAssumption
    <3>4. began[r] + TraderTimeout >= SlotOf(now) * SlotLength
      BY <1>a, <2>2, <3>1, <3>2, <3>3, SchedulerAssumption
    <3>5. forSlot[r] + 1 = SlotOf(now)
      <4> DEFINE s == forSlot[r]
      <4>1. s \in Nat BY <2>3, <3>2, SlotHolds
      <4>2. began[r] = SlotLength * s + Offset(began[r]) /\ Offset(began[r]) < SlotLength
        BY <2>3, <3>2, SlotHolds
      <4>3. SlotLength * s \in Nat /\ SlotLength \in Nat /\ SlotLength > 0
        BY <4>1, SchedulerAssumption
      <4> HIDE DEF s
      <4>4. SlotLength * s < SlotLength * SlotOf(now)
        BY <1>a, <2>3, <3>2, <3>3, <4>2, <4>3
      <4>5. SlotLength * SlotOf(now) < SlotLength * s + SlotLength + SlotLength
        BY <1>a, <2>2, <3>1, <3>2, <3>3, <4>2, <4>3, SchedulerAssumption
      <4>6. s < SlotOf(now) /\ SlotOf(now) < s + 2
        BY <1>s, <4>1, <4>3, <4>4, <4>5, Multiples
      <4> QED BY <1>s, <4>1, <4>6 DEF s
    <3> QED BY <2>2, <3>4, <3>5 DEF Overran
  <2> QED BY <1>d, <1>r, <2>0, <2>1, <2>4 DEF Lead
<1>18. CASE Shutdown
  <2>1. /\ UNCHANGED <<now, last, began, tick, hold>> /\ worker' # "up"
        /\ task'["review"] = Guest \/ task'["review"] = NoTask
        /\ task'["trader"] = Lead \/ (task'["trader"] = NoTask /\ Lead.state = "queued")
    BY <1>a, <1>18 DEF Shutdown, children, database, Guest, Lead
  <2>2. /\ Spent => Spent'
        /\ LeadIn' => LeadIn
        /\ GuestIn' => GuestIn
    BY <2>1 DEF LeadIn, Lead, GuestIn, Guest, Spent, NoTask, Waiting
  <2>3. GuestFits' BY <1>c, <2>1, FitsRests DEF NoTask, Done
  <2>4. LaneGiven' BY <2>1 DEF LaneGiven
  <2> QED BY <1>c, <1>d, <2>1, <2>2, <2>3, <2>4, ApartRests
<1>19. CASE Leave
  <2>1. worker' # "up" /\ task'["review"] = NoTask
    BY <1>a, <1>19 DEF Leave, Forget
  <2> QED BY <1>c, <1>d, <2>1 DEF GuestFits, LaneGiven, GuestApart, GuestIn, Guest, NoTask, Waiting
<1>20. CASE Crash
  <2>1. worker' # "up" /\ task'["review"] = NoTask
    BY <1>a, <1>20 DEF Crash, Forget
  <2> QED BY <1>c, <1>d, <2>1 DEF GuestFits, LaneGiven, GuestApart, GuestIn, Guest, NoTask, Waiting
<1>21. CASE Restart
  <2>1. tick' = "idle" /\ task'["review"] = NoTask
    BY <1>a, <1>w, <1>21 DEF Restart, WorkerOK, memory
  <2> QED BY <1>c, <1>d, <2>1 DEF GuestFits, LaneGiven, GuestApart, GuestIn, Guest, NoTask, Waiting
<1>22. ASSUME NEW r \in Run,
              EnterCycle(r) \/ ModelAnswers(r) \/ ModelRefuses(r) \/ ChildEnds(r)
       PROVE ReviewInv'
  <2>1. UNCHANGED <<now, worker, task, began, tick, last, hold>>
    BY <1>22 DEF EnterCycle, ModelAnswers, ModelRefuses, ChildEnds, clock, database, memory
  <2> QED BY <1>c, <1>d, <2>1, FitsRests, ApartRests, GivenRests DEF Guest, Lead, GuestIn, LeadIn, Spent
<1>23. CASE UNCHANGED vars
  <2>1. UNCHANGED <<now, worker, task, began, tick, last, hold>>
    BY <1>23 DEF vars, clock, database, memory, children
  <2> QED BY <1>c, <1>d, <2>1, FitsRests, ApartRests, GivenRests DEF Guest, Lead, GuestIn, LeadIn, Spent
<1>24. ReviewInv'
  BY <1>d, <1>1, <1>2, <1>3, <1>4, <1>5, <1>6, <1>7, <1>8, <1>9, <1>10, <1>11, <1>12, <1>13, <1>14,
     <1>15, <1>16, <1>17, <1>18, <1>19, <1>20, <1>21, <1>22, <1>23 DEF Next, ReviewInv
<1> QED BY <1>24 DEF ReviewInv
-----------------------------------------------------------------------------
(* The decisions of a slot: what a worker that died left running beside the  *)
(* trader of the next one and beside a recovery.                             *)
(* A trader or a recovery whose process is left; it is the lane's own, or a  *)
(* worker that died has left it to itself.                                   *)
Trading(r) == job[r] \in {"trader", "recovery"} /\ Alive(r)
InLane(r)  == Lead.state = "running" /\ Lead.run = r
Orphan(r)  == Trading(r) /\ ~InLane(r)

(* What has not entered its cycle began in this unit, one process at most is *)
(* in a cycle, an orphan is no younger than the lane's own, and each worker  *)
(* that died left one of them at most.                                       *)
OrphanInv ==
  /\ \A r \in Run : Trading(r) /\ proc[r] = "live" =>
       /\ began[r] = now
       /\ job[r] = "recovery" => forSlot[r] = SlotOf(now) /\ Offset(now) # 0
  /\ \A q, r \in Cycling : q = r /\ job[r] \in {"trader", "recovery"}
  /\ \A r \in Run : Orphan(r) /\ Lead.state = "running" => began[r] <= began[Lead.run]
  /\ crashes = 0 => \A r \in Run : ~Orphan(r)
  /\ crashes <= 1 => \A q, r \in Run : Orphan(q) /\ Orphan(r) => q = r

(* The recovery of the present slot that waits for its time, for its process *)
(* or for its call.                                                          *)
WaitsInLane == Lead.kind = "recovery" /\ Lead.state \in Waiting
RecoveryDue ==
  \/ rec[SlotOf(now)] = "pending"
  \/ WaitsInLane
  \/ Lead.kind = "recovery" /\ Lead.state = "running" /\ forSlot[Lead.run] = SlotOf(now)

(* No slot to come has a recovery or a decision, and while no second worker  *)
(* has died a recovery that is due is past the call of every orphan, so that *)
(* none of them decides beside it.                                           *)
AnswerInv ==
  /\ \A s \in Slots : rec[s] # "none" \/ s \in decided => s <= SlotOf(now)
  /\ crashes = 0 =>
       /\ \A s \in Slots : rec[s] # "none" => \E q \in Run : Started(q) /\ SlotOf(began[q]) = s
       /\ rec[SlotOf(now)] = "pending" => \A q \in Run : Trading(q) => q \in called
  /\ crashes <= 1 =>
       /\ RecoveryDue => \A q \in Run : Orphan(q) => q \in called
       /\ WaitsInLane => SlotOf(now) \notin decided
       /\ \A q \in Run : job[q] = "recovery" /\ Alive(q) /\ q \notin called
                           => SlotOf(now) \notin decided

(* A step that starts no process and takes from none its lane. *)
LEMMA OrphansRest ==
  ASSUME LaneInv, OrphanInv, [Next]_vars, now' = now, crashes <= crashes', crashes' \in Nat,
         \A r \in Run : Trading(r)' => Trading(r) /\ (proc'[r] = "live" => proc[r] = "live"),
         \A q, r \in Run : proc'[q] = "cycling" /\ proc'[r] = "cycling" =>
           q = r /\ job'[r] \in {"trader", "recovery"},
         Lead.state = "running" => task'["trader"] = Lead \/ ~Alive(Lead.run),
         task'["trader"].state = "running" => task'["trader"] = Lead
  PROVE /\ OrphanInv'
        /\ \A r \in Run : Orphan(r)' => Orphan(r)
<1>a. RowsOK /\ crashes \in Nat /\ "trader" \in Lane /\ LaneOK("trader")
  BY SchedulerAssumption DEF LaneInv, TypeOK, RowsOK, Lane
<1>1. ASSUME NEW r \in Run, Trading(r)'
      PROVE /\ Trading(r) /\ proc[r] # "none"
            /\ job'[r] = job[r] /\ began'[r] = began[r] /\ forSlot'[r] = forSlot[r]
            /\ proc'[r] = "live" => proc[r] = "live"
  <2>1. Trading(r) /\ (proc'[r] = "live" => proc[r] = "live") BY <1>1
  <2>2. proc[r] # "none" BY <2>1 DEF Trading, Alive
  <2> QED BY <2>1, <2>2, ProcessStays
<1>2. ASSUME NEW r \in Run, Orphan(r)' PROVE Orphan(r)
  <2>1. Trading(r) BY <1>1, <1>2 DEF Orphan
  <2>2. ASSUME InLane(r) PROVE FALSE
    <3>1. Lead.state = "running" /\ Lead.run = r /\ Alive(r) BY <2>1, <2>2 DEF InLane, Trading
    <3>2. task'["trader"] = Lead BY <3>1
    <3>3. InLane(r)' BY <3>1, <3>2 DEF InLane, Lead
    <3> QED BY <1>2, <3>3 DEF Orphan
  <2> QED BY <2>1, <2>2 DEF Orphan
<1>3. \A r \in Run : Trading(r)' /\ proc'[r] = "live" =>
        /\ began'[r] = now'
        /\ job'[r] = "recovery" => forSlot'[r] = SlotOf(now') /\ Offset(now') # 0
  BY <1>1 DEF OrphanInv
<1>4. \A q, r \in Cycling' : q = r /\ job'[r] \in {"trader", "recovery"}
  BY DEF Cycling
<1>5. \A r \in Run : Orphan(r)' /\ task'["trader"].state = "running" =>
        began'[r] <= began'[task'["trader"].run]
  <2>1. ASSUME NEW r \in Run, Orphan(r)', task'["trader"].state = "running"
        PROVE began'[r] <= began'[task'["trader"].run]
    <3>1. task'["trader"] = Lead /\ Orphan(r) /\ Trading(r)'
      BY <1>2, <2>1 DEF Orphan
    <3>2. began[r] <= began[Lead.run] BY <2>1, <3>1 DEF OrphanInv
    <3>3. Lead.run \in Run /\ proc[Lead.run] # "none" BY <1>a, <2>1, <3>1 DEF LaneOK, Lead
    <3>4. began'[Lead.run] = began[Lead.run] BY <3>3, ProcessStays
    <3> QED BY <1>1, <3>1, <3>2, <3>4
  <2> QED BY <2>1
<1>6. crashes' = 0 => crashes = 0 BY <1>a
<1>7. crashes' <= 1 => crashes <= 1 BY <1>a
<1>8. crashes' = 0 => \A r \in Run : ~Orphan(r)' BY <1>2, <1>6 DEF OrphanInv
<1>9. crashes' <= 1 => \A q, r \in Run : Orphan(q)' /\ Orphan(r)' => q = r
  BY <1>2, <1>7 DEF OrphanInv
<1>10. OrphanInv' BY <1>3, <1>4, <1>5, <1>8, <1>9 DEF OrphanInv, Lead
<1> QED BY <1>2, <1>10

(* A step that makes no recovery pending and decides nothing. *)
LEMMA AnswersRest ==
  ASSUME LaneInv, AnswerInv, [Next]_vars, now' = now, crashes <= crashes', crashes' \in Nat,
         \A r \in Run : Trading(r)' => Trading(r),
         \A r \in Run : Orphan(r)' => Orphan(r),
         \A s \in Slots : rec'[s] = rec[s] \/ (rec[s] # "none" /\ rec'[s] \notin {"none", "pending"}),
         decided' = decided, called \subseteq called',
         WaitsInLane' => WaitsInLane \/ (rec[SlotOf(now)] = "pending" /\ SlotOf(now) \notin decided),
         task'["trader"].state = "running" => task'["trader"] = Lead
  PROVE AnswerInv'
<1>a. RowsOK /\ crashes \in Nat /\ "trader" \in Lane /\ LaneOK("trader") /\ SlotOf(now) \in Slots
  BY SchedulerAssumption, SlotInRange DEF LaneInv, TypeOK, RowsOK, Lane
<1>b. ASSUME NEW q \in Run, Trading(q)'
      PROVE Trading(q) /\ job'[q] = job[q]
  <2>1. Trading(q) BY <1>b
  <2>2. proc[q] # "none" BY <2>1 DEF Trading, Alive
  <2> QED BY <2>1, <2>2, ProcessStays
<1>1. \A s \in Slots : rec'[s] # "none" \/ s \in decided' => s <= SlotOf(now')
  BY DEF AnswerInv
<1>2. crashes' = 0 => crashes = 0 BY <1>a
<1>3. crashes' <= 1 => crashes <= 1 BY <1>a
<1>4. crashes' = 0 =>
        \A s \in Slots : rec'[s] # "none" => \E q \in Run : Started(q)' /\ SlotOf(began'[q]) = s
  <2>1. ASSUME crashes' = 0, NEW s \in Slots, rec'[s] # "none"
        PROVE \E q \in Run : Started(q)' /\ SlotOf(began'[q]) = s
    <3>1. PICK q \in Run : Started(q) /\ SlotOf(began[q]) = s
      BY <1>2, <2>1 DEF AnswerInv
    <3>2. job'[q] = job[q] /\ proc'[q] # "none" /\ began'[q] = began[q]
      BY <3>1, ProcessStays DEF Started
    <3>3. Started(q)' /\ SlotOf(began'[q]) = s BY <3>1, <3>2 DEF Started
    <3> QED BY <3>3
  <2> QED BY <2>1
<1>5. rec'[SlotOf(now')] = "pending" => rec[SlotOf(now)] = "pending" BY <1>a
<1>6. crashes' = 0 => (rec'[SlotOf(now')] = "pending" => \A q \in Run : Trading(q)' => q \in called')
  BY <1>2, <1>5 DEF AnswerInv
<1>7. RecoveryDue' => RecoveryDue
  <2>1. WaitsInLane' => RecoveryDue BY DEF RecoveryDue
  <2>2. ASSUME task'["trader"].kind = "recovery", task'["trader"].state = "running",
               forSlot'[task'["trader"].run] = SlotOf(now')
        PROVE RecoveryDue
    <3>1. task'["trader"] = Lead BY <2>2
    <3>2. Lead.run \in Run /\ proc[Lead.run] # "none" BY <1>a, <2>2, <3>1 DEF LaneOK, Lead
    <3>3. forSlot'[Lead.run] = forSlot[Lead.run] BY <3>2, ProcessStays
    <3> QED BY <2>2, <3>1, <3>3 DEF RecoveryDue
  <2> QED BY <1>5, <2>1, <2>2 DEF RecoveryDue, Lead
<1>8. crashes' <= 1 => (RecoveryDue' => \A q \in Run : Orphan(q)' => q \in called')
  BY <1>3, <1>7 DEF AnswerInv
<1>9. crashes' <= 1 => (WaitsInLane' => SlotOf(now') \notin decided')
  BY <1>3 DEF AnswerInv
<1>10. crashes' <= 1 => \A q \in Run : job'[q] = "recovery" /\ proc'[q] \in {"live", "cycling"}
                                         /\ q \notin called' => SlotOf(now') \notin decided'
  <2>1. ASSUME crashes' <= 1, NEW q \in Run, job'[q] = "recovery", proc'[q] \in {"live", "cycling"},
               q \notin called'
        PROVE SlotOf(now') \notin decided'
    <3>1. Trading(q)' BY <2>1 DEF Trading, Alive
    <3>2. job[q] = "recovery" /\ Alive(q) /\ q \notin called BY <1>b, <2>1, <3>1 DEF Trading
    <3> QED BY <1>3, <2>1, <3>2 DEF AnswerInv
  <2> QED BY <2>1
<1> QED BY <1>1, <1>4, <1>6, <1>8, <1>9, <1>10 DEF AnswerInv, Alive

(* A step of the lanes that starts and ends no process and decides nothing. *)
LEMMA DecisionsRest ==
  ASSUME LaneInv, OrphanInv, AnswerInv, [Next]_vars, crashes' \in Nat,
         UNCHANGED <<now, proc, called, decided>>, crashes <= crashes',
         \A s \in Slots : rec'[s] = rec[s] \/ (rec[s] # "none" /\ rec'[s] \notin {"none", "pending"}),
         \/ task'["trader"] = Lead
         \/ /\ Lead.state = "running" => ~Alive(Lead.run)
            /\ task'["trader"].state # "running",
         WaitsInLane' => WaitsInLane \/ (rec[SlotOf(now)] = "pending" /\ SlotOf(now) \notin decided)
  PROVE OrphanInv' /\ AnswerInv'
<1>1. \A r \in Run : Trading(r)' => Trading(r) /\ (proc'[r] = "live" => proc[r] = "live")
  <2>1. ASSUME NEW r \in Run, Trading(r)' PROVE Trading(r)
    <3>1. Alive(r) /\ proc[r] # "none" BY <2>1 DEF Trading, Alive
    <3>2. job'[r] = job[r] BY <3>1, ProcessStays
    <3> QED BY <2>1, <3>1, <3>2 DEF Trading
  <2> QED BY <2>1
<1>2. \A q, r \in Run : proc'[q] = "cycling" /\ proc'[r] = "cycling" =>
        q = r /\ job'[r] \in {"trader", "recovery"}
  <2>1. ASSUME NEW q \in Run, NEW r \in Run, proc'[q] = "cycling", proc'[r] = "cycling"
        PROVE q = r /\ job'[r] \in {"trader", "recovery"}
    <3>1. q = r /\ job[r] \in {"trader", "recovery"} BY <2>1 DEF OrphanInv, Cycling
    <3> QED BY <2>1, <3>1, ProcessStays
  <2> QED BY <2>1
<1>3. /\ Lead.state = "running" => task'["trader"] = Lead \/ ~Alive(Lead.run)
      /\ task'["trader"].state = "running" => task'["trader"] = Lead
  OBVIOUS
<1>4. /\ OrphanInv'
      /\ \A r \in Run : Orphan(r)' => Orphan(r)
  BY <1>1, <1>2, <1>3, OrphansRest
<1>5. AnswerInv' BY <1>1, <1>3, <1>4, AnswersRest
<1> QED BY <1>4, <1>5

(* No step lets an orphan decide beside a recovery, before a second worker   *)
(* has died.                                                                 *)
LEMMA DecisionsStay ==
  ASSUME LaneInv, LaneInv', NaturalInv, RecoveryInv, OnTime, OrphanInv, AnswerInv, [Next]_vars
  PROVE OrphanInv' /\ AnswerInv'
<1>a. /\ TypeOK /\ RowsOK /\ now \in Nat /\ task \in [Lane -> Task(now)] /\ RunsOK
      /\ \A l \in Lane : LaneOK(l)
      /\ "trader" \in Lane /\ crashes \in Nat /\ crashes' \in Nat
  BY SchedulerAssumption DEF LaneInv, TypeOK, RowsOK, Lane
<1>s. SlotOf(now) \in Slots /\ SlotOf(now) \in Nat /\ Offset(now) \in Nat
  BY <1>a, SlotInRange, SlotHolds DEF RowsOK
<1>r. Lead.state \in {"begun", "marked", "running"} =>
        Lead.run \in Run /\ (Lead.kind = "natural" => job[Lead.run] = "trader")
                         /\ (job[Lead.run] = "trader" => Lead.kind = "natural")
                         /\ (job[Lead.run] = "recovery" => Lead.kind = "recovery")
  BY <1>a DEF LaneOK, NameOf, Kinds, Lead
<1>e. ASSUME NEW how \in Done, NEW l \in Lane, End(l, how),
             l = "trader" => (Lead.state = "running" => ~Alive(Lead.run))
      PROVE /\ \/ task'["trader"] = Lead
               \/ /\ Lead.state = "running" => ~Alive(Lead.run)
                  /\ task'["trader"].state # "running"
            /\ WaitsInLane' => WaitsInLane
  <2>1. CASE l # "trader"
    BY <1>a, <1>e, <2>1, EndOfTask DEF Lead, WaitsInLane
  <2>2. CASE l = "trader"
    <3>1. task'["trader"].state = how BY <1>a, <1>e, <2>2, EndOfTask
    <3> QED BY <1>e, <2>2, <3>1 DEF Lead, WaitsInLane, Waiting, Done
  <2> QED BY <2>1, <2>2
<1>x. ASSUME NEW r \in Run, UNCHANGED <<now, crashes, task, job, rec, called, decided>>,
             NEW code, proc' = [proc EXCEPT ![r] = code], code # "live",
             code = "cycling" => Trading(r) /\ Cycling = {}
      PROVE OrphanInv' /\ AnswerInv'
  <2>1. /\ \A q \in Run : q # r => proc'[q] = proc[q]
        /\ proc'[r] = code
    BY <1>a, <1>x DEF RowsOK
  <2>2. \A q \in Run : Trading(q)' => Trading(q) /\ (proc'[q] = "live" => proc[q] = "live")
    BY <1>x, <2>1 DEF Trading, Alive
  <2>3. \A q, t \in Run : proc'[q] = "cycling" /\ proc'[t] = "cycling" =>
          q = t /\ job'[t] \in {"trader", "recovery"}
    <3>1. CASE code = "cycling"
      BY <1>x, <2>1, <3>1 DEF Cycling, Trading
    <3>2. CASE code # "cycling"
      <4>1. \A q \in Run : proc'[q] = "cycling" => proc[q] = "cycling" BY <2>1, <3>2
      <4> QED BY <1>x, <4>1 DEF OrphanInv, Cycling
    <3> QED BY <3>1, <3>2
  <2>4. task'["trader"] = Lead BY <1>x DEF Lead
  <2>5. OrphanInv' /\ \A q \in Run : Orphan(q)' => Orphan(q)
    BY <1>a, <1>x, <2>2, <2>3, <2>4, OrphansRest
  <2>6. WaitsInLane' => WaitsInLane BY <2>4 DEF WaitsInLane, Lead
  <2>7. AnswerInv' BY <1>a, <1>x, <2>2, <2>4, <2>5, <2>6, AnswersRest
  <2> QED BY <2>5, <2>7
<1>1. CASE Advance
  <2>1. /\ now' = now + 1 /\ SlotOf(now') \in Nat /\ SlotOf(now) <= SlotOf(now')
        /\ UNCHANGED <<crashes, task, job, rec, proc, began, forSlot, called, decided>>
        /\ \A r \in Run : proc[r] = "live" => job[r] \in Reviews
        /\ Lead.state \in Done \cup {"running"}
    <3>1. now' = now + 1 /\ now + 1 \in Nat /\ now <= now + 1 BY <1>1, <1>a DEF Advance
    <3>2. SlotOf(now') \in Nat /\ SlotOf(now) <= SlotOf(now') BY <1>a, <3>1, SlotHolds, SlotsInOrder
    <3> QED BY <1>1, <1>a, <3>1, <3>2 DEF Advance, database, children, Quiet, Lead
  <2>2. ~WaitsInLane BY <2>1 DEF WaitsInLane, Waiting, Done
  <2>3. \A r \in Run : (Trading(r)' <=> Trading(r)) /\ (Orphan(r)' <=> Orphan(r))
    BY <2>1 DEF Trading, Orphan, InLane, Alive, Lead
  <2>4. \A r \in Run : Trading(r) => proc[r] # "live"
    BY <2>1 DEF Trading, Reviews
  <2>5. OrphanInv'
    <3>1. \A q, r \in Cycling' : q = r /\ job'[r] \in {"trader", "recovery"}
      BY <2>1 DEF OrphanInv, Cycling
    <3>2. \A r \in Run : Orphan(r)' /\ task'["trader"].state = "running" =>
            began'[r] <= began'[task'["trader"].run]
      BY <2>1, <2>3 DEF OrphanInv, Lead
    <3> QED BY <2>1, <2>3, <2>4, <3>1, <3>2 DEF OrphanInv, Lead
  <2>6. ASSUME NEW s \in Slots, s = SlotOf(now'), rec[s] # "none" \/ s \in decided
        PROVE SlotOf(now') = SlotOf(now)
    <3>1. s <= SlotOf(now) BY <2>6 DEF AnswerInv
    <3> QED BY <1>s, <2>1, <2>6, <3>1
  <2>7. RecoveryDue' => RecoveryDue
    <3>0. SlotOf(now') \in Slots BY SlotInRange DEF LaneInv, TypeOK, RowsOK
    <3>1. CASE rec'[SlotOf(now')] = "pending"
      BY <2>1, <2>6, <3>0, <3>1 DEF RecoveryDue
    <3>2. CASE Lead.kind = "recovery" /\ Lead.state = "running" /\ forSlot[Lead.run] = SlotOf(now')
      <4>1. PICK r \in Run : r = Lead.run BY <1>r, <3>2
      <4>2. SlotOf(began[r]) = SlotOf(now') BY <3>2, <4>1 DEF OnTime
      <4>3. began[r] \in Nat /\ began[r] <= now BY <1>a DEF RowsOK
      <4>4. SlotOf(began[r]) <= SlotOf(now) BY <1>a, <4>3, SlotsInOrder
      <4>5. SlotOf(now') = SlotOf(now) BY <1>s, <2>1, <4>2, <4>4
      <4> QED BY <3>2, <4>5 DEF RecoveryDue
    <3> QED BY <2>1, <2>2, <3>1, <3>2 DEF RecoveryDue, WaitsInLane, Lead
  <2>8. AnswerInv'
    <3>0. SlotOf(now') \in Slots BY SlotInRange DEF LaneInv, TypeOK, RowsOK
    <3>1. \A s \in Slots : rec'[s] # "none" \/ s \in decided' => s <= SlotOf(now')
      <4>1. ASSUME NEW s \in Slots, rec[s] # "none" \/ s \in decided PROVE s <= SlotOf(now')
        <5>1. s <= SlotOf(now) /\ s \in Nat BY <4>1 DEF AnswerInv, Slots
        <5> QED BY <1>s, <2>1, <5>1
      <4> QED BY <2>1, <4>1
    <3>2. crashes' = 0 => \A s \in Slots : rec'[s] # "none" =>
            \E q \in Run : Started(q)' /\ SlotOf(began'[q]) = s
      BY <2>1 DEF AnswerInv, Started
    <3>3. crashes' = 0 /\ rec'[SlotOf(now')] = "pending" => \A q \in Run : Trading(q)' => q \in called'
      BY <2>1, <2>3, <2>6, <3>0 DEF AnswerInv
    <3>4. crashes' <= 1 /\ RecoveryDue' => \A q \in Run : Orphan(q)' => q \in called'
      BY <2>1, <2>3, <2>7 DEF AnswerInv
    <3>5. ~WaitsInLane' BY <2>1, <2>2 DEF WaitsInLane, Lead
    <3>6. crashes' <= 1 => \A q \in Run : job'[q] = "recovery" /\ Alive(q)' /\ q \notin called'
            => SlotOf(now') \notin decided'
      BY <2>1, <2>6, <3>0 DEF AnswerInv, Alive
    <3> QED BY <3>1, <3>2, <3>3, <3>4, <3>5, <3>6 DEF AnswerInv
  <2> QED BY <2>5, <2>8
<1>2. CASE Toggle
  BY <1>2, <1>a, DecisionsRest DEF Toggle, database, children, memory, Lead, WaitsInLane
<1>3. CASE RequestReview
  BY <1>3, <1>a, DecisionsRest DEF RequestReview, children, memory, Lead, WaitsInLane
<1>4. CASE TickReap
  <2>1. /\ UNCHANGED <<now, crashes, rec, proc, called, decided>>
        /\ task'["trader"] = IF Lead.state \in Done THEN NoTask ELSE Lead
    BY <1>4, <1>a DEF TickReap, clock, children, Lead
  <2>2. task'["trader"] # Lead => Lead.state # "running" /\ task'["trader"] = NoTask
    BY <2>1 DEF Done
  <2> QED BY <1>a, <2>1, <2>2, DecisionsRest DEF NoTask, WaitsInLane, Waiting, Lead
<1>5. CASE TickJobs
  <2>1. /\ UNCHANGED <<now, crashes, rec, proc, called, decided>>
        /\ task'["trader"] = Lead \/ (Free("trader") /\ task'["trader"] = Queued("natural"))
    BY <1>5, <1>a DEF TickJobs, clock, children, database, Lead
  <2>2. CASE Free("trader") /\ task'["trader"] = Queued("natural")
    <3>1. task'["trader"].state = "queued" /\ task'["trader"].kind = "natural"
      BY <1>a, <2>2, QueuedTask DEF RowsOK
    <3>2. Lead.state # "running" BY <2>2 DEF Free, NoTask, Lead
    <3> QED BY <1>a, <2>1, <3>1, <3>2, DecisionsRest DEF WaitsInLane, Lead
  <2> QED BY <1>a, <2>1, <2>2, DecisionsRest DEF WaitsInLane, Lead
<1>6. CASE TickOthers
  <2>1. /\ UNCHANGED <<now, crashes, proc, called, decided>>
        /\ \A s \in Slots : rec'[s] = rec[s] \/ (rec[s] # "none" /\ rec'[s] \notin {"none", "pending"})
        /\ \/ task'["trader"] = Lead
           \/ /\ Free("trader") /\ task'["trader"] = Queued("recovery")
              /\ \E s \in DueRecoveries : Launchable(s)
    BY <1>6, <1>a DEF TickOthers, clock, children, DueRecoveries, Lead
  <2>2. CASE /\ Free("trader") /\ task'["trader"] = Queued("recovery")
             /\ \E s \in DueRecoveries : Launchable(s)
    <3>1. task'["trader"].state = "queued" BY <1>a, <2>2, QueuedTask DEF RowsOK
    <3>2. Lead.state # "running" BY <2>2 DEF Free, NoTask, Lead
    <3>3. rec[SlotOf(now)] = "pending" /\ SlotOf(now) \notin decided
      BY <2>2 DEF DueRecoveries, Launchable
    <3> QED BY <1>a, <2>1, <3>1, <3>2, <3>3, DecisionsRest
  <2> QED BY <1>a, <2>1, <2>2, DecisionsRest DEF WaitsInLane, Lead
<1>7. ASSUME NEW l \in Lane, ExecuteNatural(l) PROVE OrphanInv' /\ AnswerInv'
  <2>0. /\ UNCHANGED <<now, crashes, rec, proc, called, decided>> /\ last[l] \in 0 .. now
        /\ task[l].state = "queued" /\ task[l].kind = "natural"
    BY <1>a, <1>7 DEF ExecuteNatural, clock, Is, RowsOK
  <2>1. CASE BeginRun(l, l, "begun")
    <3>1. /\ \A m \in Lane : m # l => task'[m] = task[m]
          /\ task'[l].state = "begun" /\ task'[l].kind = "natural"
      BY <1>a, <2>0, <2>1, BeginOfRun
    <3>2. CASE l = "trader"
      BY <1>a, <2>0, <3>1, <3>2, DecisionsRest DEF WaitsInLane, Lead
    <3>3. CASE l # "trader"
      BY <1>a, <2>0, <3>1, <3>3, DecisionsRest DEF WaitsInLane, Lead
    <3> QED BY <3>2, <3>3
  <2>2. CASE End(l, "done")
    BY <1>a, <1>e, <2>0, <2>2, DecisionsRest DEF Done, Lead
  <2> QED BY <1>7, <2>1, <2>2 DEF ExecuteNatural
<1>8. ASSUME NEW l \in Lane, MarkLast(l) PROVE OrphanInv' /\ AnswerInv'
  <2>0. /\ UNCHANGED <<now, crashes, rec, proc, called, decided>> /\ End(l, "marked")
        /\ task[l].state = "begun" /\ task[l].kind = "natural"
    BY <1>8 DEF MarkLast, clock, Is, children
  <2>1. CASE l = "trader"
    <3>1. task'["trader"].state = "marked" /\ task'["trader"].kind = "natural"
      BY <1>a, <2>0, <2>1, EndOfTask
    <3> QED BY <1>a, <2>0, <2>1, <3>1, DecisionsRest DEF WaitsInLane, Lead
  <2>2. CASE l # "trader"
    BY <1>a, <2>0, <2>2, EndOfTask, DecisionsRest DEF WaitsInLane, Lead
  <2> QED BY <2>1, <2>2
<1>9. ASSUME NEW l \in Lane, Raise(l) PROVE OrphanInv' /\ AnswerInv'
  <2>1. /\ UNCHANGED <<now, crashes, rec, proc, called, decided>> /\ End(l, "raised")
        /\ task[l].state = "running" => ~Alive(task[l].run)
    BY <1>9 DEF Raise, clock, database, children, Is, Finished, Alive
  <2> QED BY <1>a, <1>e, <2>1, DecisionsRest DEF Done, Lead
<1>10. ASSUME NEW l \in Lane, Spawn(l) PROVE OrphanInv' /\ AnswerInv'
  <2>r. PICK r \in Run : r = task[l].run
    BY <1>a, <1>10 DEF Spawn, Is, LaneOK
  <2>1. /\ UNCHANGED <<now, crashes, rec, job, forSlot, called, decided>> /\ End(l, "running")
        /\ task[l].state = "marked" /\ proc[r] = "none"
        /\ proc' = [proc EXCEPT ![r] = "live"] /\ began' = [began EXCEPT ![r] = now]
    BY <1>a, <1>10, <2>r DEF Spawn, clock, database, Is, LaneOK
  <2>2. /\ \A q \in Run : q # r => proc'[q] = proc[q] /\ began'[q] = began[q]
        /\ proc'[r] = "live" /\ began'[r] = now
    BY <1>a, <2>1 DEF RowsOK
  <2>3. \A q, t \in Run : proc'[q] = "cycling" /\ proc'[t] = "cycling" =>
          q = t /\ job'[t] \in {"trader", "recovery"}
    <3>1. ASSUME NEW q \in Run, NEW t \in Run, proc'[q] = "cycling", proc'[t] = "cycling"
          PROVE q = t /\ job'[t] \in {"trader", "recovery"}
      <4>1. q # r /\ t # r BY <2>2, <3>1
      <4> QED BY <2>1, <2>2, <3>1, <4>1 DEF OrphanInv, Cycling
    <3> QED BY <3>1
  <2>4. CASE l # "trader"
    <3>1. job[r] \notin {"trader", "recovery"}
      BY <1>a, <2>r, <2>1, <2>4 DEF LaneOK, NameOf, Kinds, Lane
    <3>2. \A q \in Run : Trading(q)' => Trading(q) /\ (proc'[q] = "live" => proc[q] = "live")
      BY <2>1, <2>2, <3>1 DEF Trading, Alive
    <3>3. task'["trader"] = Lead BY <1>a, <2>1, <2>4, EndOfTask DEF Lead
    <3>4. OrphanInv' /\ \A q \in Run : Orphan(q)' => Orphan(q)
      BY <1>a, <2>1, <2>3, <3>2, <3>3, OrphansRest
    <3>5. WaitsInLane' => WaitsInLane BY <3>3 DEF WaitsInLane, Lead
    <3>6. AnswerInv' BY <1>a, <2>1, <3>2, <3>3, <3>4, <3>5, AnswersRest
    <3> QED BY <3>4, <3>6
  <2>5. CASE l = "trader"
    <3>1. /\ task'["trader"].state = "running" /\ task'["trader"].run = r
          /\ task'["trader"].kind = Lead.kind
          /\ Lead.state = "marked" /\ Lead.run = r
      BY <1>a, <2>r, <2>1, <2>5, EndOfTask DEF Lead
    <3>2. /\ ~WaitsInLane' /\ (job[r] = "recovery" => WaitsInLane)
          /\ (Lead.kind = "recovery" => WaitsInLane)
      BY <1>r, <3>1 DEF WaitsInLane, Waiting, Lead
    <3>3. job[r] = "recovery" => forSlot[r] = SlotOf(now) /\ Offset(now) # 0
      BY <1>r, <3>1 DEF OnTime, Waiting
    <3>4. \A q \in Run : q # r => (Trading(q)' <=> Trading(q))
      BY <2>1, <2>2 DEF Trading, Alive
    <3>5. \A q \in Run : Orphan(q)' => Orphan(q) /\ q # r
      <4>1. ASSUME NEW q \in Run, Orphan(q)' PROVE Orphan(q) /\ q # r
        <5>1. InLane(r)' BY <3>1 DEF InLane, Lead
        <5>2. q # r /\ Trading(q) BY <3>4, <4>1, <5>1 DEF Orphan
        <5>3. ~InLane(q) BY <3>1 DEF InLane
        <5> QED BY <5>2, <5>3 DEF Orphan
      <4> QED BY <4>1
    <3>6. OrphanInv'
      <4>1. \A q \in Run : Trading(q)' /\ proc'[q] = "live" =>
              /\ began'[q] = now'
              /\ job'[q] = "recovery" => forSlot'[q] = SlotOf(now') /\ Offset(now') # 0
        BY <2>1, <2>2, <3>3, <3>4 DEF OrphanInv
      <4>2. \A q, t \in Cycling' : q = t /\ job'[t] \in {"trader", "recovery"}
        BY <2>3 DEF Cycling
      <4>3. \A q \in Run : Orphan(q)' /\ task'["trader"].state = "running" =>
              began'[q] <= began'[task'["trader"].run]
        <5>1. ASSUME NEW q \in Run, Orphan(q)' PROVE began'[q] <= began'[r]
          <6>1. q # r BY <3>5, <5>1
          <6>2. began[q] <= now /\ began[q] \in Nat BY <1>a DEF RowsOK
          <6> QED BY <2>2, <6>1, <6>2
        <5> QED BY <3>1, <5>1
      <4>4. crashes' = 0 => \A q \in Run : ~Orphan(q)' BY <2>1, <3>5 DEF OrphanInv
      <4>5. crashes' <= 1 => \A q, t \in Run : Orphan(q)' /\ Orphan(t)' => q = t
        BY <2>1, <3>5 DEF OrphanInv
      <4> QED BY <4>1, <4>2, <4>3, <4>4, <4>5 DEF OrphanInv, Lead
    <3>7. RecoveryDue' => RecoveryDue
      BY <2>1, <3>1, <3>2 DEF RecoveryDue, Lead
    <3>8. crashes = 0 => rec[SlotOf(now)] # "pending"
      <4>1. ASSUME crashes = 0, rec[SlotOf(now)] = "pending" PROVE FALSE
        <5>1. job[r] # "recovery" BY <3>3, <4>1 DEF RecoveryInv
        <5>2. Lead.kind = "natural" BY <1>a, <2>r, <2>1, <2>5, <5>1 DEF LaneOK, NameOf, Kinds, Lead
        <5>3. PICK q \in Run : Started(q) /\ SlotOf(began[q]) = SlotOf(now)
          BY <1>s, <4>1 DEF AnswerInv
        <5>4. SlotOf(began[q]) <= SlotOf(Lead.previous) /\ SlotOf(Lead.previous) < SlotOf(now)
          BY <3>1, <5>2, <5>3 DEF NaturalInv, Starting, Lead
        <5>5. SlotOf(Lead.previous) \in Nat BY <1>a, SlotHolds DEF Task, Lead
        <5> QED BY <1>s, <5>3, <5>4, <5>5
      <4> QED BY <4>1
    <3>9. AnswerInv'
      <4>1. \A s \in Slots : rec'[s] # "none" \/ s \in decided' => s <= SlotOf(now')
        BY <2>1 DEF AnswerInv
      <4>2. crashes' = 0 => \A s \in Slots : rec'[s] # "none" =>
              \E q \in Run : Started(q)' /\ SlotOf(began'[q]) = s
        <5>1. \A q \in Run : Started(q) => Started(q)' /\ began'[q] = began[q]
          BY <2>1, <2>2 DEF Started
        <5>2. ASSUME crashes = 0, NEW s \in Slots, rec[s] # "none"
              PROVE \E q \in Run : Started(q)' /\ SlotOf(began'[q]) = s
          <6>1. PICK q \in Run : Started(q) /\ SlotOf(began[q]) = s BY <5>2 DEF AnswerInv
          <6> QED BY <5>1, <6>1
        <5> QED BY <2>1, <5>2
      <4>3. crashes' = 0 => rec'[SlotOf(now')] # "pending" BY <2>1, <3>8
      <4>4. crashes' <= 1 /\ RecoveryDue' => \A q \in Run : Orphan(q)' => q \in called'
        BY <2>1, <3>5, <3>7 DEF AnswerInv
      <4>5. crashes' <= 1 => \A q \in Run : job'[q] = "recovery" /\ Alive(q)' /\ q \notin called'
              => SlotOf(now') \notin decided'
        <5>1. ASSUME crashes <= 1, NEW q \in Run, job[q] = "recovery", Alive(q)', q \notin called
              PROVE SlotOf(now) \notin decided
          <6>1. CASE q = r BY <3>2, <5>1, <6>1 DEF AnswerInv
          <6>2. CASE q # r
            <7>1. Alive(q) BY <2>2, <5>1, <6>2 DEF Alive
            <7> QED BY <5>1, <7>1 DEF AnswerInv
          <6> QED BY <6>1, <6>2
        <5> QED BY <2>1, <5>1
      <4> QED BY <3>2, <4>1, <4>2, <4>3, <4>4, <4>5 DEF AnswerInv
    <3> QED BY <3>6, <3>9
  <2> QED BY <2>4, <2>5
<1>11. ASSUME NEW l \in Lane, LaunchFails(l) PROVE OrphanInv' /\ AnswerInv'
  <2>1. /\ UNCHANGED <<now, crashes, proc, called, decided>> /\ End(l, "done")
        /\ task[l].state = "marked"
        /\ rec' = rec \/ FinishRecovery(task[l].run, "failed")
    BY <1>11 DEF LaunchFails, clock, children, Is
  <2>2. \A s \in Slots : rec'[s] = rec[s] \/ (rec[s] # "none" /\ rec'[s] \notin {"none", "pending"})
    BY <1>a, <2>1 DEF FinishRecovery, RowsOK
  <2> QED BY <1>a, <1>e, <2>1, <2>2, DecisionsRest DEF Done, Lead
<1>12. ASSUME NEW l \in Lane, Expire(l) PROVE OrphanInv' /\ AnswerInv'
  <2>1. task[l].run \in Run BY <1>a, <1>12 DEF Expire, Is, LaneOK
  <2> QED BY <1>x, <1>12, <2>1 DEF Expire, clock, database, memory
<1>13. ASSUME NEW l \in Lane, Finish(l) PROVE OrphanInv' /\ AnswerInv'
  <2>1. /\ UNCHANGED <<now, crashes, rec, proc, called, decided>> /\ End(l, "done")
        /\ ~Alive(task[l].run)
    BY <1>13 DEF Finish, clock, children, Finished, Alive
  <2> QED BY <1>a, <1>e, <2>1, DecisionsRest DEF Done, Lead
<1>14. CASE ExecuteManual
  <2>0. /\ UNCHANGED <<now, crashes, rec, proc, called, decided>> /\ "review" \in Lane
        /\ last["review"] \in 0 .. now /\ BeginRun("review", "manual", "marked")
    BY <1>a, <1>14 DEF ExecuteManual, clock, RowsOK, Lane
  <2>1. task'["trader"] = Lead BY <1>a, <2>0, BeginOfRun DEF Lead
  <2> QED BY <1>a, <2>0, <2>1, DecisionsRest DEF WaitsInLane, Lead
<1>15. CASE ExecuteRecovery
  <2> DEFINE s == task["trader"].slot
  <2>0. /\ UNCHANGED <<now, crashes, proc, called, decided>> /\ last["trader"] \in 0 .. now
        /\ Lead.state = "queued" /\ Lead.kind = "recovery" /\ s \in Slots
    BY <1>a, <1>15 DEF ExecuteRecovery, clock, RowsOK, Is, Lead, Task
  <2>1. WaitsInLane BY <2>0 DEF WaitsInLane, Waiting
  <2>2. CASE /\ rec[s] = "pending" /\ rec' = [rec EXCEPT ![s] = "running"]
             /\ BeginRun("trader", "recovery", "begun")
    <3>1. task'["trader"].state = "begun" BY <1>a, <2>0, <2>2, BeginOfRun
    <3> HIDE DEF s
    <3>2. \A u \in Slots : rec'[u] = rec[u] \/ (rec[u] # "none" /\ rec'[u] \notin {"none", "pending"})
      BY <1>a, <2>0, <2>2 DEF RowsOK
    <3> QED BY <1>a, <2>0, <2>1, <3>1, <3>2, DecisionsRest
  <2>3. CASE End("trader", "done") /\ UNCHANGED rec
    BY <1>a, <1>e, <2>0, <2>3, DecisionsRest DEF Done
  <2> QED BY <1>15, <2>2, <2>3 DEF ExecuteRecovery
<1>16. CASE CheckRecovery
  <2>0. /\ UNCHANGED <<now, crashes, proc, called, decided>>
        /\ Lead.state = "begun" /\ Lead.kind = "recovery"
    BY <1>16 DEF CheckRecovery, clock, children, Is, Lead
  <2>1. CASE End("trader", "marked") /\ UNCHANGED rec
    <3>1. task'["trader"].state = "marked" BY <1>a, <2>1, EndOfTask
    <3>2. WaitsInLane BY <2>0 DEF WaitsInLane, Waiting
    <3> QED BY <1>a, <2>0, <2>1, <3>1, <3>2, DecisionsRest
  <2>2. CASE End("trader", "done") /\ FinishRecovery(task["trader"].run, "failed")
    <3>1. \A s \in Slots : rec'[s] = rec[s] \/ (rec[s] # "none" /\ rec'[s] \notin {"none", "pending"})
      BY <1>a, <2>2 DEF FinishRecovery, RowsOK
    <3> QED BY <1>a, <1>e, <2>0, <2>2, <3>1, DecisionsRest DEF Done
  <2> QED BY <1>16, <2>1, <2>2 DEF CheckRecovery
<1>17. CASE FinishRecovered
  <2>1. /\ UNCHANGED <<now, crashes, proc, called, decided>> /\ End("trader", "done")
        /\ ~Alive(Lead.run)
        /\ \/ FinishRecovery(Lead.run, "success") \/ FinishRecovery(Lead.run, "failed")
    BY <1>17 DEF FinishRecovered, clock, children, Finished, Alive, Lead
  <2>2. \A s \in Slots : rec'[s] = rec[s] \/ (rec[s] # "none" /\ rec'[s] \notin {"none", "pending"})
    BY <1>a, <2>1 DEF FinishRecovery, RowsOK
  <2> QED BY <1>a, <1>e, <2>1, <2>2, DecisionsRest DEF Done
<1>18. CASE Shutdown
  <2>1. /\ UNCHANGED <<now, rec, proc, called, decided>> /\ crashes <= crashes'
        /\ task'["trader"] = IF Lead.state = "queued" THEN NoTask ELSE Lead
    BY <1>18, <1>a DEF Shutdown, database, children, Lead
  <2>2. task'["trader"] # Lead => Lead.state # "running" /\ task'["trader"] = NoTask
    BY <2>1
  <2> QED BY <1>a, <2>1, <2>2, DecisionsRest DEF NoTask, WaitsInLane, Waiting, Lead
<1>19. CASE Leave
  <2>1. /\ UNCHANGED <<now, crashes, rec, proc, called, decided>>
        /\ task'["trader"] = NoTask /\ Lead.state # "running"
    BY <1>19, <1>a DEF Leave, Forget, clock, database, children, Lead, Done
  <2> QED BY <1>a, <2>1, DecisionsRest DEF NoTask, WaitsInLane, Waiting, Lead
<1>20. CASE Crash
  <2>1. /\ UNCHANGED <<now, rec, job, proc, began, forSlot, called, decided>>
        /\ crashes' = crashes + 1 /\ task'["trader"] = NoTask
    BY <1>20, <1>a DEF Crash, Forget, database, children
  <2>2. /\ task'["trader"].state = "none" /\ ~WaitsInLane'
        /\ (RecoveryDue' => rec[SlotOf(now)] = "pending")
    BY <2>1 DEF NoTask, WaitsInLane, RecoveryDue, Waiting, Lead
  <2>3. crashes' # 0 /\ (crashes' <= 1 => crashes = 0 /\ crashes <= 1) BY <1>a, <2>1
  <2>4. \A q \in Run : Trading(q)' <=> Trading(q)
    BY <2>1 DEF Trading, Alive
  <2>5. OrphanInv'
    <3>1. \A q, r \in Cycling' : q = r /\ job'[r] \in {"trader", "recovery"}
      BY <2>1 DEF OrphanInv, Cycling
    <3>2. crashes' <= 1 => \A q, r \in Run : Orphan(q)' /\ Orphan(r)' => q = r
      <4>1. ASSUME crashes = 0, NEW q \in Run, Orphan(q)' PROVE Lead.run = q
        <5>1. Trading(q) /\ ~Orphan(q) BY <2>4, <4>1 DEF OrphanInv, Orphan
        <5> QED BY <5>1 DEF Orphan, InLane
      <4> QED BY <2>3, <4>1
    <3>3. \A q \in Run : Trading(q)' /\ proc'[q] = "live" =>
            /\ began'[q] = now'
            /\ job'[q] = "recovery" => forSlot'[q] = SlotOf(now') /\ Offset(now') # 0
      BY <2>1, <2>4 DEF OrphanInv
    <3> QED BY <2>2, <2>3, <3>1, <3>2, <3>3 DEF OrphanInv, Lead
  <2>6. AnswerInv'
    <3>1. \A s \in Slots : rec'[s] # "none" \/ s \in decided' => s <= SlotOf(now')
      BY <2>1 DEF AnswerInv
    <3>2. crashes' <= 1 /\ RecoveryDue' => \A q \in Run : Orphan(q)' => q \in called'
      BY <2>1, <2>2, <2>3, <2>4 DEF AnswerInv, Orphan
    <3>3. crashes' <= 1 => \A q \in Run : job'[q] = "recovery" /\ Alive(q)' /\ q \notin called'
            => SlotOf(now') \notin decided'
      BY <2>1, <2>3 DEF AnswerInv, Alive
    <3> QED BY <2>2, <2>3, <3>1, <3>2, <3>3 DEF AnswerInv
  <2> QED BY <2>5, <2>6
<1>21. CASE Restart
  <2>1. /\ UNCHANGED <<now, crashes, proc, called, decided, task>>
        /\ \A s \in Slots : rec'[s] = rec[s] \/ (rec[s] # "none" /\ rec'[s] \notin {"none", "pending"})
    BY <1>21 DEF Restart, clock, memory, children
  <2> QED BY <1>a, <2>1, DecisionsRest DEF WaitsInLane, Lead
<1>22. ASSUME NEW r \in Run, EnterCycle(r) PROVE OrphanInv' /\ AnswerInv'
  <2>1. /\ UNCHANGED <<now, crashes, task, job, rec, called, decided>> /\ Trading(r)
        /\ \/ proc' = [proc EXCEPT ![r] = "cycling"] /\ Cycling = {}
           \/ proc' = [proc EXCEPT ![r] = "ok"]
    BY <1>22 DEF EnterCycle, ChildExits, clock, database, memory, Trading, Alive
  <2> QED BY <1>x, <2>1
<1>c. ASSUME NEW r \in Run, proc[r] = "cycling",
             UNCHANGED <<now, crashes, task, job, proc, began, forSlot>>
      PROVE /\ OrphanInv' /\ Trading(r) /\ proc[r] # "none"
            /\ \A q \in Run : (Trading(q)' <=> Trading(q)) /\ (Orphan(q)' <=> Orphan(q))
            /\ WaitsInLane' <=> WaitsInLane
            /\ \A q \in Run : proc[q] = "cycling" => q = r
  <2>1. \A q \in Run : (Trading(q)' <=> Trading(q)) /\ (Orphan(q)' <=> Orphan(q))
    BY <1>c DEF Trading, Orphan, InLane, Alive, Lead
  <2>2. \A q, t \in Run : proc[q] = "cycling" /\ proc[t] = "cycling" =>
          q = t /\ job[t] \in {"trader", "recovery"}
    BY DEF OrphanInv, Cycling
  <2>3. task'["trader"] = Lead BY <1>c DEF Lead
  <2>4. OrphanInv' BY <1>a, <1>c, <2>1, <2>2, <2>3, OrphansRest
  <2>5. Trading(r) BY <1>c, <2>2 DEF Trading, Alive
  <2>6. WaitsInLane' <=> WaitsInLane BY <2>3 DEF WaitsInLane, Lead
  <2> QED BY <1>c, <2>1, <2>2, <2>4, <2>5, <2>6
<1>23. ASSUME NEW r \in Run, ModelAnswers(r) PROVE OrphanInv' /\ AnswerInv'
  <2>1. /\ UNCHANGED <<now, crashes, task, job, rec, proc, began, forSlot>>
        /\ proc[r] = "cycling" /\ r \notin called /\ called' = called \cup {r}
        /\ decided' = decided \cup {SlotOf(now)}
    BY <1>23 DEF ModelAnswers, clock, database, memory
  <2>2. /\ OrphanInv' /\ Trading(r)
        /\ \A q \in Run : (Trading(q)' <=> Trading(q)) /\ (Orphan(q)' <=> Orphan(q))
        /\ WaitsInLane' <=> WaitsInLane
        /\ \A q \in Run : proc[q] = "cycling" => q = r
    BY <1>c, <2>1
  <2>3. RecoveryDue' <=> RecoveryDue BY <2>1 DEF RecoveryDue, WaitsInLane, Lead
  <2>4. crashes <= 1 /\ RecoveryDue => InLane(r)
    BY <2>1, <2>2 DEF AnswerInv, Orphan
  <2>5. crashes <= 1 => ~WaitsInLane
    BY <2>4 DEF RecoveryDue, WaitsInLane, InLane, Waiting
  <2>6. ASSUME crashes <= 1, NEW q \in Run, job[q] = "recovery", Alive(q), q \notin called, q # r
        PROVE FALSE
    <3>1. proc[q] = "live" /\ Trading(q) BY <2>2, <2>6 DEF Alive, Trading
    <3>2. began[q] = now /\ forSlot[q] = SlotOf(now) /\ Offset(now) # 0
      BY <2>6, <3>1 DEF OrphanInv
    <3>3. ~InLane(q)
      <4>1. ASSUME InLane(q) PROVE FALSE
        <5>1. Lead.state = "running" /\ Lead.run = q /\ Lead.kind = "recovery"
          BY <1>r, <2>6, <4>1 DEF InLane
        <5>2. RecoveryDue BY <3>2, <5>1 DEF RecoveryDue
        <5>3. InLane(r) BY <2>4, <2>6, <5>2
        <5> QED BY <2>6, <5>1, <5>3 DEF InLane
      <4> QED BY <4>1
    <3>4. InLane(r) BY <2>2, <2>6, <3>1, <3>3 DEF Orphan, OrphanInv
    <3>5. Lead.state = "running" /\ Lead.run = r BY <3>4 DEF InLane
    <3>6. began[q] <= began[r] BY <3>1, <3>3, <3>5 DEF OrphanInv, Orphan
    <3>7. began[r] = now BY <1>a, <3>2, <3>6 DEF RowsOK
    <3>8. CASE job[r] = "trader"
      <4>1. Offset(began[r]) = 0 BY <1>r, <3>5, <3>8 DEF OnTime
      <4> QED BY <3>2, <3>7, <4>1
    <3>9. CASE job[r] = "recovery"
      <4>1. SlotOf(began[r]) = forSlot[r] BY <1>r, <3>5, <3>9 DEF OnTime
      <4>2. forSlot[q] = forSlot[r] BY <3>2, <3>7, <4>1
      <4> QED BY <2>6, <3>9, <4>2 DEF RecoveryInv, OneRecoveryPerSlot
    <3> QED BY <2>2, <3>8, <3>9 DEF Trading
  <2>7. AnswerInv'
    <3>1. \A s \in Slots : rec'[s] # "none" \/ s \in decided' => s <= SlotOf(now')
      <4>1. SlotOf(now) <= SlotOf(now) BY <1>s
      <4> QED BY <2>1, <4>1 DEF AnswerInv
    <3>2. crashes' = 0 => \A s \in Slots : rec'[s] # "none" =>
            \E q \in Run : Started(q)' /\ SlotOf(began'[q]) = s
      BY <2>1 DEF AnswerInv, Started
    <3>3. crashes' = 0 /\ rec'[SlotOf(now')] = "pending" => \A q \in Run : Trading(q)' => q \in called'
      BY <2>1, <2>2 DEF AnswerInv
    <3>4. crashes' <= 1 /\ RecoveryDue' => \A q \in Run : Orphan(q)' => q \in called'
      BY <2>1, <2>2, <2>3 DEF AnswerInv
    <3>5. crashes' <= 1 => ~WaitsInLane' BY <2>1, <2>2, <2>5
    <3>6. crashes' <= 1 => \A q \in Run : ~(job'[q] = "recovery" /\ Alive(q)' /\ q \notin called')
      BY <2>1, <2>6 DEF Alive
    <3> QED BY <3>1, <3>2, <3>3, <3>4, <3>5, <3>6 DEF AnswerInv
  <2> QED BY <2>2, <2>7
<1>24. ASSUME NEW r \in Run, ModelRefuses(r) PROVE OrphanInv' /\ AnswerInv'
  <2>1. /\ UNCHANGED <<now, crashes, task, job, proc, began, forSlot, decided>>
        /\ proc[r] = "cycling" /\ called' = called \cup {r}
    BY <1>24 DEF ModelRefuses, clock, memory
  <2>2. /\ OrphanInv' /\ Trading(r) /\ proc[r] # "none"
        /\ \A q \in Run : (Trading(q)' <=> Trading(q)) /\ (Orphan(q)' <=> Orphan(q))
        /\ WaitsInLane' <=> WaitsInLane
        /\ \A q \in Run : proc[q] = "cycling" => q = r
    BY <1>c, <2>1
  <2>3. CASE rec' = rec
    <3>1. task'["trader"] = Lead BY <2>1 DEF Lead
    <3>2. AnswerInv' BY <1>a, <2>1, <2>2, <2>3, <3>1, AnswersRest
    <3> QED BY <2>2, <3>2
  <2>4. CASE /\ job[r] = "trader" /\ rec[SlotOf(now)] = "none"
             /\ rec' = [rec EXCEPT ![SlotOf(now)] = "pending"]
    <3>1. \A s \in Slots : s # SlotOf(now) => rec'[s] = rec[s] BY <1>a, <2>4 DEF RowsOK
    <3>2. ASSUME InLane(r)
          PROVE /\ Lead.state = "running" /\ Lead.run = r
                /\ SlotOf(began[r]) = SlotOf(now) /\ Offset(began[r]) = 0
      <4>1. Lead.state = "running" /\ Lead.run = r BY <3>2 DEF InLane
      <4>2. Lead.kind = "natural" BY <1>r, <2>4, <4>1
      <4> QED BY <4>1, <4>2 DEF OnTime
    <3>3. \A s \in Slots : rec'[s] # "none" \/ s \in decided' => s <= SlotOf(now')
      <4>1. SlotOf(now) <= SlotOf(now) BY <1>s
      <4> QED BY <2>1, <3>1, <4>1 DEF AnswerInv
    <3>4. ASSUME crashes = 0 PROVE \A q \in Run : Trading(q) => q = r /\ InLane(r)
      BY <2>2, <3>4 DEF OrphanInv, Orphan, InLane
    <3>5. crashes' = 0 => \A s \in Slots : rec'[s] # "none" =>
            \E q \in Run : Started(q)' /\ SlotOf(began'[q]) = s
      <4>1. ASSUME crashes = 0, NEW s \in Slots, s # SlotOf(now), rec[s] # "none"
            PROVE \E q \in Run : Started(q)' /\ SlotOf(began'[q]) = s
        BY <2>1, <4>1 DEF AnswerInv, Started
      <4>2. ASSUME crashes = 0 PROVE Started(r)' /\ SlotOf(began'[r]) = SlotOf(now)
        <5>1. SlotOf(began[r]) = SlotOf(now) BY <2>2, <3>2, <3>4, <4>2
        <5> QED BY <2>1, <2>2, <2>4, <5>1 DEF Started
      <4> QED BY <2>1, <3>1, <4>1, <4>2
    <3>6. crashes' = 0 => \A q \in Run : Trading(q)' => q \in called'
      BY <2>1, <2>2, <3>4
    <3>7. ASSUME crashes <= 1, NEW q \in Run, Orphan(q), q # r PROVE FALSE
      <4>1. proc[q] = "live" /\ Trading(q) BY <2>2, <3>7 DEF Orphan, Trading, Alive
      <4>2. InLane(r) BY <2>2, <3>7 DEF OrphanInv, Orphan
      <4>3. /\ Lead.state = "running" /\ Lead.run = r
            /\ SlotOf(began[r]) = SlotOf(now) /\ Offset(began[r]) = 0
        BY <3>2, <4>2
      <4>4. began[q] = now /\ (job[q] = "recovery" => Offset(now) # 0) BY <4>1 DEF OrphanInv
      <4>5. began[q] <= began[r] BY <3>7, <4>3 DEF OrphanInv
      <4>6. began[r] = now BY <1>a, <4>4, <4>5 DEF RowsOK
      <4>7. job[q] = "trader" BY <4>1, <4>3, <4>4, <4>6 DEF Trading
      <4>8. SlotOf(began[q]) = SlotOf(began[r]) BY <4>4, <4>6
      <4> QED BY <2>2, <2>4, <3>7, <4>1, <4>7, <4>8 DEF NaturalInv, OneNaturalPerSlot
    <3>8. crashes' <= 1 => \A q \in Run : Orphan(q)' => q \in called'
      BY <2>1, <2>2, <3>7
    <3>9. crashes' <= 1 => (WaitsInLane' => SlotOf(now') \notin decided')
      BY <2>1, <2>2 DEF AnswerInv
    <3>10. crashes' <= 1 => \A q \in Run : job'[q] = "recovery" /\ Alive(q)' /\ q \notin called'
             => SlotOf(now') \notin decided'
      BY <2>1 DEF AnswerInv, Alive
    <3>11. AnswerInv' BY <3>3, <3>5, <3>6, <3>8, <3>9, <3>10 DEF AnswerInv
    <3> QED BY <2>2, <3>11
  <2> QED BY <1>24, <2>3, <2>4 DEF ModelRefuses
<1>25. ASSUME NEW r \in Run, ChildEnds(r) PROVE OrphanInv' /\ AnswerInv'
  <2>1. /\ UNCHANGED <<now, crashes, task, job, rec, called, decided>>
        /\ \E code \in {"ok", "bad"} : proc' = [proc EXCEPT ![r] = code]
    BY <1>25 DEF ChildEnds, ChildExits, clock, database, memory
  <2> QED BY <1>x, <2>1
<1>26. CASE UNCHANGED vars
  BY <1>26, <1>a, DecisionsRest DEF vars, clock, database, children, memory, Lead, WaitsInLane
<1> QED
  BY <1>1, <1>2, <1>3, <1>4, <1>5, <1>6, <1>7, <1>8, <1>9, <1>10, <1>11, <1>12, <1>13, <1>14,
     <1>15, <1>16, <1>17, <1>18, <1>19, <1>20, <1>21, <1>22, <1>23, <1>24, <1>25, <1>26 DEF Next
-----------------------------------------------------------------------------
(* What every reachable state satisfies. *)
SchedulerInv == /\ LaneInv /\ Told /\ NaturalInv /\ RecoveryInv /\ OnTime /\ ReviewInv
                /\ OrphanInv /\ AnswerInv

(* No run, no task, no recovery, and the slot of the first time is marked.   *)
LEMMA SchedulerAtFirst == Init => SchedulerInv
<1> SUFFICES ASSUME Init PROVE SchedulerInv
  OBVIOUS
<1>1. LaneInv BY LanesAtFirst
<1>2. /\ \A r \in Run : job[r] = "none" /\ status[r] = "none" /\ proc[r] = "none"
      /\ \A s \in Slots : rec[s] = "none"
      /\ \A l \in Lane : task[l] = NoTask /\ last[l] = now
      /\ "trader" \in Lane /\ "review" \in Lane
      /\ request = "none" /\ enabled /\ ~ticked
  BY DEF Init, Lane
<1>3. Told BY <1>2 DEF Told, ToldWell, RunsHeld, RequestHeld
<1>4. NaturalInv
  BY <1>2 DEF NaturalInv, Started, Starting, OneNaturalPerSlot, NoTask
<1>5. RecoveryInv
  BY <1>2 DEF RecoveryInv, OneRecoveryPerSlot, NoStaleRecovery
<1>6. OnTime
  BY <1>2 DEF OnTime, Lead, NoTask, Waiting
<1>7. ReviewInv
  <2>1. GuestFits /\ GuestApart
    BY <1>2 DEF GuestFits, GuestApart, Guest, GuestIn, NoTask, Waiting
  <2>2. SlotOf(last["trader"]) = SlotOf(now) /\ SlotOf(now) \in Nat
    <3>1. now \in Nat BY <1>1 DEF LaneInv, TypeOK, RowsOK
    <3> QED BY <1>2, <3>1, SlotHolds
  <2>3. Spent BY <2>2 DEF Spent
  <2> QED BY <1>2, <2>1, <2>3 DEF ReviewInv, LaneGiven
<1>8. OrphanInv
  BY <1>2 DEF OrphanInv, Trading, Orphan, Alive, Cycling
<1>9. AnswerInv
  <2>1. decided = {} /\ Lead.state = "none" BY <1>2 DEF Init, Lead, NoTask
  <2>2. SlotOf(now) \in Slots BY <1>1, SlotInRange DEF LaneInv, TypeOK, RowsOK
  <2>3. ~RecoveryDue /\ ~WaitsInLane
    BY <1>2, <2>1, <2>2 DEF RecoveryDue, WaitsInLane, Waiting
  <2> QED BY <1>2, <2>1, <2>2, <2>3 DEF AnswerInv
<1> QED BY <1>1, <1>3, <1>4, <1>5, <1>6, <1>7, <1>8, <1>9 DEF SchedulerInv

(* Every reachable state satisfies it. *)
LEMMA SchedulerInvariant == Spec => []SchedulerInv
<1>1. Init => SchedulerInv BY SchedulerAtFirst
<1>2. SchedulerInv /\ [Next]_vars => SchedulerInv'
  <2> SUFFICES ASSUME SchedulerInv, [Next]_vars PROVE SchedulerInv'
    OBVIOUS
  <2>1. LaneInv' BY LanesStay DEF SchedulerInv
  <2>2. Told' BY <2>1, ToldStays DEF SchedulerInv
  <2>3. NaturalInv' BY NaturalsStay DEF SchedulerInv
  <2>4. RecoveryInv' BY RecoveriesStay DEF SchedulerInv
  <2>5. OnTime' BY <2>1, OnTimeStays DEF SchedulerInv
  <2>6. ReviewInv' BY <2>1, ReviewsStay DEF SchedulerInv
  <2>7. OrphanInv' /\ AnswerInv' BY <2>1, DecisionsStay DEF SchedulerInv
  <2> QED BY <2>1, <2>2, <2>3, <2>4, <2>5, <2>6, <2>7 DEF SchedulerInv
<1> QED BY <1>1, <1>2, PTL DEF Spec

(* A slot is traded at most once and recovered at most once, and what is too *)
(* late to be recovered is cancelled, whatever of the worker dies between a  *)
(* durable mark, a row and a process (_execute, recover_processing).         *)
THEOREM SlotsSafeTheorem == Spec => []SlotsSafe
<1>1. SchedulerInv => SlotsSafe
  BY DEF SchedulerInv, LaneInv, NaturalInv, RecoveryInv, SlotsSafe
<1> QED BY <1>1, SchedulerInvariant, PTL

(* No row claims a success that no process had; and while a worker lives, a  *)
(* run that ended is told or will be at a tick, and a manual request that    *)
(* runs has a run somebody will finish (_finish_job, pending_completions).   *)
THEOREM RunsAreToldTheorem == Spec => []RunsAreTold
<1>1. SchedulerInv => RunsAreTold
  BY DEF SchedulerInv, Told, ToldWell, RunsHeld, RequestHeld, RunsAreTold, Finished
<1> QED BY <1>1, SchedulerInvariant, PTL

(* While no other job takes the threads of the review and trading was never  *)
(* paused, a review ends in the slot in which it began and runs beside that  *)
(* slot's trader only if a recovery of the slot before ran into it           *)
(* (_self_improvement_window_open).                                          *)
THEOREM ReviewBetweenSlotsTheorem == ASSUME ~PoolBusy PROVE Spec => []ReviewBetweenSlots
<1>1. SchedulerInv => ReviewBetweenSlots
  <2> SUFFICES ASSUME SchedulerInv, ~paused, Guest.state = "running"
               PROVE /\ SlotOf(now) = SlotOf(began[Guest.run])
                     /\ Lead.state = "running" /\ Lead.kind = "natural" => Overran(SlotOf(now))
    BY DEF ReviewBetweenSlots, Guest, Lead
  <2>1. GuestFits /\ GuestApart BY DEF SchedulerInv, ReviewInv
  <2> QED BY <2>1 DEF GuestFits, GuestApart, GuestIn, LeadIn
<1> QED BY <1>1, SchedulerInvariant, PTL

(* While at most one worker has died, a recovery never decides again in a    *)
(* slot that has its decision: nobody can decide between the look of the     *)
(* scheduler and the call, for the trader that asked for it has ended or is  *)
(* past its call (_launch_due_recovery, single_trader_cycle).                *)
THEOREM RecoveryAddsNoSecondDecisionTheorem == Spec => RecoveryAddsNoSecondDecision
<1>1. ASSUME SchedulerInv, [Next]_vars, NEW r \in Run, crashes <= 1, job[r] = "recovery",
             r \in answered' \ answered
      PROVE SlotOf(now) \notin decided
  <2>1. PICK q \in Run : ModelAnswers(q)
    <3>1. UNCHANGED answered \/ \E q \in Run : ModelAnswers(q)
      BY <1>1
         DEF Next, Advance, Toggle, RequestReview, TickReap, TickJobs, TickOthers, ExecuteNatural,
             MarkLast, Raise, Spawn, LaunchFails, Expire, Finish, ExecuteManual, ExecuteRecovery,
             CheckRecovery, FinishRecovered, Shutdown, Leave, Crash, Restart, EnterCycle,
             ModelRefuses, ChildEnds, vars, children
    <3> QED BY <1>1, <3>1
  <2>2. r = q /\ proc[r] = "cycling" /\ r \notin called BY <1>1, <2>1 DEF ModelAnswers
  <2> QED BY <1>1, <2>2 DEF SchedulerInv, AnswerInv, Alive
<1>2. SchedulerInv /\ [Next]_vars =>
        \A r \in Run : crashes <= 1 /\ job[r] = "recovery" /\ r \in answered' \ answered
                         => SlotOf(now) \notin decided
  BY <1>1
<1>3. SchedulerInv /\ [Next]_vars =>
        [\A r \in Run : crashes <= 1 /\ job[r] = "recovery" /\ r \in answered' \ answered
                          => SlotOf(now) \notin decided]_vars
  BY <1>2
<1> QED BY <1>3, SchedulerInvariant, PTL DEF Spec, RecoveryAddsNoSecondDecision
=============================================================================
