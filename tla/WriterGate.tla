------------------------------ MODULE WriterGate ------------------------------
(***************************************************************************)
(* Who may write to the account, and to which account.                     *)
(*                                                                         *)
(* scripts/trade_lock.py is a reentrant thread lock over one file lock:    *)
(* whoever holds both may send trade requests.  A trader cycle holds the   *)
(* cycle lock as well (single_trader_cycle) and lets the writer go while   *)
(* the model runs (inference_window).  An operator who changes the account *)
(* takes the writer, then the cycle lock without waiting (mutation_guard). *)
(* The guard and the holder of a close token name their account before     *)
(* they own the writer, so every request looks at the binding again        *)
(* (assert_current).                                                       *)
(***************************************************************************)
EXTENDS Integers

CONSTANTS
  Thread, Process, ProcessOf,
  Traders,      \* threads that run trader cycles
  Guards,       \* threads that run the position guard or a confirmed close
  Managers,     \* threads that bind, unbind or activate an account
  NoThread,
  MaxDepth,     \* bound: nesting of writer()
  MaxChanges    \* bound: account changes

ASSUME GateAssumption ==
  /\ ProcessOf \in [Thread -> Process]
  /\ Thread = Traders \cup Guards \cup Managers
  /\ Traders \cap Managers = {} /\ Traders \cap Guards = {} /\ Guards \cap Managers = {}
  /\ NoThread \notin Thread
  /\ MaxDepth \in Nat \ {0} /\ MaxChanges \in Nat

VARIABLES
  pc,
  depth,         \* _local.depth
  rlock, holds,  \* _thread_lock of a process: its owner, and how often
  flock,         \* whose handle has the file lock
  window,        \* inside inference_window, or coming back from it
  cycle,         \* .ai_factor_trader.lock
  binding,       \* the bound account, by version
  env            \* the account a thread froze

locks == <<rlock, holds, flock>>
vars  == <<pc, depth, locks, window, cycle, binding, env>>

Owning  == {"writing", "sending", "changing", "changed"}
Waiting == {"waiting", "returning"}   \* has the thread lock, not the file lock
Place   == {"idle", "locked", "frozen", "model", "leaving"} \cup Waiting \cup Owning

Init ==
  /\ pc = [t \in Thread |-> "idle"]
  /\ depth = [t \in Thread |-> 0]
  /\ rlock = [p \in Process |-> NoThread] /\ holds = [p \in Process |-> 0]
  /\ flock = NoThread
  /\ window = [t \in Thread |-> FALSE]
  /\ cycle = NoThread
  /\ binding = 0 /\ env = [t \in Thread |-> 0]

Goto(t, place) == pc' = [pc EXCEPT ![t] = place]

-----------------------------------------------------------------------------
(* single_trader_cycle and freeze_environment *)
EnterCycle(t) ==
  /\ t \in Traders /\ pc[t] = "idle" /\ cycle = NoThread
  /\ cycle' = t
  /\ Goto(t, "locked")
  /\ UNCHANGED <<depth, locks, window, binding, env>>

Freeze(t) ==
  /\ \/ t \in Traders /\ pc[t] = "locked"
     \/ t \in Guards \cup Managers /\ pc[t] = "idle"
  /\ env' = [env EXCEPT ![t] = binding]
  /\ Goto(t, "frozen")
  /\ UNCHANGED <<depth, locks, window, cycle, binding>>

LeaveCycle(t) ==
  /\ t \in Traders /\ pc[t] = "leaving"
  /\ cycle' = NoThread
  /\ Goto(t, "idle")
  /\ UNCHANGED <<depth, locks, window, binding, env>>

-----------------------------------------------------------------------------
(* writer(): the thread lock, then the file lock; both may time out *)
Take(t) ==
  LET p == ProcessOf[t] IN
  /\ rlock[p] \in {NoThread, t}
  /\ rlock' = [rlock EXCEPT ![p] = t]
  /\ holds' = [holds EXCEPT ![p] = @ + 1]
Drop(t) ==
  LET p == ProcessOf[t] IN
  /\ holds' = [holds EXCEPT ![p] = @ - 1]
  /\ rlock' = [rlock EXCEPT ![p] = IF holds[p] = 1 THEN NoThread ELSE @]

(* where a thread goes on when it has left its outermost writer(), or could  *)
(* not get it                                                              *)
After(t) == IF window[t] THEN "model" ELSE IF t \in Traders THEN "leaving" ELSE "idle"

TakeThreadLock(t) ==
  /\ pc[t] \in {"frozen", "model"}
  /\ Take(t)
  /\ Goto(t, "waiting")
  /\ UNCHANGED <<depth, flock, window, cycle, binding, env>>

TakeFileLock(t) ==
  /\ pc[t] = "waiting" /\ flock = NoThread
  /\ flock' = t
  /\ depth' = [depth EXCEPT ![t] = 1]
  /\ Goto(t, "writing")
  /\ UNCHANGED <<rlock, holds, window, cycle, binding, env>>

TimeOut(t) ==
  /\ \/ pc[t] = "frozen" /\ UNCHANGED <<rlock, holds>>
     \/ pc[t] = "waiting" /\ Drop(t)
  /\ Goto(t, After(t))
  /\ UNCHANGED <<depth, flock, window, cycle, binding, env>>

(* a writer() inside another: submit_protected_limit_order, close, _request *)
Nest(t) ==
  /\ t \notin Managers /\ pc[t] = "writing" /\ depth[t] < MaxDepth
  /\ Take(t)
  /\ depth' = [depth EXCEPT ![t] = @ + 1]
  /\ UNCHANGED <<pc, flock, window, cycle, binding, env>>

Unnest(t) ==
  /\ pc[t] = "writing" /\ depth[t] > 1
  /\ Drop(t)
  /\ depth' = [depth EXCEPT ![t] = @ - 1]
  /\ UNCHANGED <<pc, flock, window, cycle, binding, env>>

LetGo(t) ==
  /\ depth' = [depth EXCEPT ![t] = 0]
  /\ flock' = NoThread
  /\ Drop(t)

Release(t) ==
  /\ pc[t] = (IF t \in Managers THEN "changed" ELSE "writing") /\ depth[t] = 1
  /\ LetGo(t)
  /\ Goto(t, After(t))
  /\ UNCHANGED <<window, cycle, binding, env>>

-----------------------------------------------------------------------------
(* Seeded fault: the thread lock is kept while the model runs. *)
OpenWindowKeeping(t) ==
  /\ t \in Traders /\ pc[t] = "writing" /\ depth[t] = 1 /\ ~window[t]
  /\ depth' = [depth EXCEPT ![t] = 0]
  /\ flock' = NoThread
  /\ window' = [window EXCEPT ![t] = TRUE]
  /\ Goto(t, "model")
  /\ UNCHANGED <<rlock, holds, cycle, binding, env>>

(* inference_window: its way back has no timeout *)
OpenWindow(t) ==
  /\ t \in Traders /\ pc[t] = "writing" /\ depth[t] = 1 /\ ~window[t]
  /\ LetGo(t)
  /\ window' = [window EXCEPT ![t] = TRUE]
  /\ Goto(t, "model")
  /\ UNCHANGED <<cycle, binding, env>>

Return(t) ==
  /\ pc[t] = "model"
  /\ Take(t)
  /\ Goto(t, "returning")
  /\ UNCHANGED <<depth, flock, window, cycle, binding, env>>

(* Seeded fault: only the thread lock is taken again. *)
CloseWindowUnlocked(t) ==
  /\ pc[t] = "returning"
  /\ depth' = [depth EXCEPT ![t] = 1]
  /\ window' = [window EXCEPT ![t] = FALSE]
  /\ Goto(t, "writing")
  /\ UNCHANGED <<rlock, holds, flock, cycle, binding, env>>

CloseWindow(t) ==
  /\ pc[t] = "returning" /\ flock = NoThread
  /\ flock' = t
  /\ depth' = [depth EXCEPT ![t] = 1]
  /\ window' = [window EXCEPT ![t] = FALSE]
  /\ Goto(t, "writing")
  /\ UNCHANGED <<rlock, holds, cycle, binding, env>>

-----------------------------------------------------------------------------
(* Seeded fault: what was frozen is taken for current. *)
AssertNothing(t) ==
  /\ t \notin Managers /\ pc[t] = "writing"
  /\ Goto(t, "sending")
  /\ UNCHANGED <<depth, locks, window, cycle, binding, env>>

(* assert_current, then the request; a stale environment is an error *)
AssertCurrent(t) ==
  /\ t \notin Managers /\ pc[t] = "writing"
  /\ env[t] = binding
  /\ Goto(t, "sending")
  /\ UNCHANGED <<depth, locks, window, cycle, binding, env>>

Sent(t) ==
  /\ pc[t] = "sending"
  /\ Goto(t, "writing")
  /\ UNCHANGED <<depth, locks, window, cycle, binding, env>>

(* Seeded faults: the writer alone is held to be enough, or the cycle lock  *)
(* is waited for.                                                          *)
TryCycleNot(t) ==
  /\ t \in Managers /\ pc[t] = "writing"
  /\ Goto(t, "changing")
  /\ UNCHANGED <<depth, locks, window, cycle, binding, env>>
TryCycleWaiting(t) ==
  /\ t \in Managers /\ pc[t] = "writing" /\ cycle = NoThread
  /\ cycle' = t /\ Goto(t, "changing")
  /\ UNCHANGED <<depth, locks, window, binding, env>>

(* mutation_guard: a running cycle refuses the change *)
TryCycle(t) ==
  /\ t \in Managers /\ pc[t] = "writing"
  /\ IF cycle = NoThread
     THEN cycle' = t /\ Goto(t, "changing")
     ELSE Goto(t, "changed") /\ UNCHANGED cycle
  /\ UNCHANGED <<depth, locks, window, binding, env>>

(* bind, unbind, activate; any of their checks may refuse *)
Change(t) ==
  /\ pc[t] = "changing"
  /\ \/ binding < MaxChanges /\ binding' = binding + 1
     \/ UNCHANGED binding
  /\ cycle' = NoThread
  /\ Goto(t, "changed")
  /\ UNCHANGED <<depth, locks, window, env>>

(* a process ends or is killed; the system frees its file locks *)
Die(p) ==
  LET dead == {t \in Thread : ProcessOf[t] = p} IN
  /\ pc' = [t \in Thread |-> IF t \in dead THEN "idle" ELSE pc[t]]
  /\ depth' = [t \in Thread |-> IF t \in dead THEN 0 ELSE depth[t]]
  /\ window' = [t \in Thread |-> window[t] /\ t \notin dead]
  /\ rlock' = [rlock EXCEPT ![p] = NoThread] /\ holds' = [holds EXCEPT ![p] = 0]
  /\ flock' = IF flock \in dead THEN NoThread ELSE flock
  /\ cycle' = IF cycle \in dead THEN NoThread ELSE cycle
  /\ UNCHANGED <<binding, env>>

Step(t) ==
  \/ EnterCycle(t) \/ Freeze(t) \/ LeaveCycle(t)
  \/ TakeThreadLock(t) \/ TakeFileLock(t) \/ TimeOut(t)
  \/ Nest(t) \/ Unnest(t) \/ Release(t)
  \/ OpenWindow(t) \/ Return(t) \/ CloseWindow(t)
  \/ AssertCurrent(t) \/ Sent(t) \/ TryCycle(t) \/ Change(t)

Next == (\E t \in Thread : Step(t)) \/ (\E p \in Process : Die(p))

Spec == Init /\ [][Next]_vars

(* What is begun under the writer ends, a wait with a timeout times out, and *)
(* the model answers or times out.  The way back from the model waits in     *)
(* the kernel while others poll, and they come rarely (the guard once a      *)
(* minute): a lock that is free again and again is not for ever missed.      *)
Fairness == \A t \in Thread :
  /\ WF_vars(Sent(t) \/ TryCycle(t) \/ Change(t) \/ TimeOut(t))
  /\ SF_vars(Unnest(t)) /\ SF_vars(Release(t))
  /\ SF_vars(Return(t)) /\ SF_vars(CloseWindow(t))
FairSpec == Spec /\ Fairness

-----------------------------------------------------------------------------
(* Every variable keeps its type; in particular the thread lock is taken as *)
(* often as it is given back (trade_lock.writer, inference_window).        *)
TypeOK ==
  /\ pc \in [Thread -> Place]
  /\ depth \in [Thread -> 0 .. MaxDepth]
  /\ rlock \in [Process -> Thread \cup {NoThread}] /\ holds \in [Process -> 0 .. MaxDepth]
  /\ flock \in Thread \cup {NoThread}
  /\ window \in [Thread -> BOOLEAN]
  /\ cycle \in Thread \cup {NoThread}
  /\ binding \in 0 .. MaxChanges /\ env \in [Thread -> 0 .. MaxChanges]

(* At most one thread of all processes is inside writer(), although traders *)
(* leave it for the model and come back (inference_window).                *)
OneWriter == \A t, u \in Thread : depth[t] > 0 /\ depth[u] > 0 => t = u

(* From freeze_environment to its end a cycle runs on the bound account,     *)
(* also while the model runs and the writer is free (mutation_guard).      *)
TraderKeepsItsAccount == \A t \in Traders :
  pc[t] \notin {"idle", "locked"} => env[t] = binding

(* A trade request goes to the account that is bound when it goes, however  *)
(* long ago its sender froze its own (assert_current under the writer).    *)
NoStaleSend == \A t \in Thread : pc[t] = "sending" => env[t] = binding

(* A trader always comes back from the model: nobody who holds the writer   *)
(* waits for something the trader holds (inference_window has no timeout). *)
WindowEnds == \A t \in Traders : window[t] ~> ~window[t]

(* What the locks are for: one writer at a time, which acts for the account   *)
(* it froze, and never for one that is no longer bound.                      *)
GateSafe == TypeOK /\ OneWriter /\ TraderKeepsItsAccount /\ NoStaleSend
=============================================================================
