--------------------------- MODULE WriterGateProofs ---------------------------
(* One writer, one account: for every set of threads and processes.         *)
EXTENDS WriterGateRefinement, TLAPS

(* Whose file lock it is says who is writing, and how deep.                 *)
OwnerInv == \A t \in Thread :
  /\ pc[t] \in Owning <=> flock = t
  /\ pc[t] \in Owning <=> depth[t] > 0

(* The thread lock of a process is with the thread that waits for the file   *)
(* lock or has it, and was taken once, or once for each nested writer().    *)
ThreadLockInv ==
  /\ \A t \in Thread :
       /\ rlock[ProcessOf[t]] = t <=> pc[t] \in Owning \cup Waiting
       /\ pc[t] \in Waiting => holds[ProcessOf[t]] = 1
       /\ pc[t] \in Owning => holds[ProcessOf[t]] = depth[t]
  /\ \A p \in Process : rlock[p] = NoThread => holds[p] = 0

(* The cycle lock is with the trader that runs, or with the manager that     *)
(* changes the account.                                                     *)
CycleInv ==
  /\ \A t \in Traders : pc[t] # "idle" <=> cycle = t
  /\ \A t \in Managers : pc[t] = "changing" <=> cycle = t

(* Which places belong to whom.                                             *)
RoleInv == \A t \in Thread :
  /\ pc[t] = "changing" => t \in Managers
  /\ pc[t] = "sending" => t \notin Managers
  /\ pc[t] \in {"locked", "leaving"} => t \in Traders
  /\ window[t] => t \in Traders /\ pc[t] \notin {"idle", "locked", "frozen", "leaving"}
  /\ pc[t] \in {"model", "returning"} => window[t]

IInv == TypeOK /\ OwnerInv /\ ThreadLockInv /\ CycleInv /\ RoleInv
          /\ TraderKeepsItsAccount /\ NoStaleSend

(* At first no lock is held. *)
LEMMA InitIInv == Init => IInv
BY GateAssumption DEF Init, IInv, TypeOK, OwnerInv, ThreadLockInv, CycleInv, RoleInv, Place,
  TraderKeepsItsAccount, NoStaleSend, Owning, Waiting

(* A step of a thread moves only that thread, and the locks it takes or      *)
(* gives back.                                                              *)
LEMMA StepIInv ==
  ASSUME IInv, NEW t \in Thread, Step(t)
  PROVE  IInv'
<1> USE GateAssumption DEF IInv, Owning, Waiting, Goto, locks
<1>1. CASE EnterCycle(t)
  <2>1. TypeOK'
    BY <1>1 DEF EnterCycle, TypeOK, Place, OwnerInv, ThreadLockInv, RoleInv
  <2>2. OwnerInv'
    BY <1>1 DEF EnterCycle, TypeOK, OwnerInv
  <2>3. ThreadLockInv'
    BY <1>1 DEF EnterCycle, TypeOK, OwnerInv, ThreadLockInv
  <2>4. CycleInv'
    BY <1>1 DEF EnterCycle, TypeOK, CycleInv, RoleInv
  <2>5. RoleInv'
    BY <1>1 DEF EnterCycle, TypeOK, RoleInv, CycleInv
  <2>6. TraderKeepsItsAccount'
    BY <1>1 DEF EnterCycle, TypeOK, TraderKeepsItsAccount, CycleInv, RoleInv
  <2>7. NoStaleSend'
    BY <1>1 DEF EnterCycle, TypeOK, NoStaleSend, OwnerInv, RoleInv
  <2> QED BY <2>1, <2>2, <2>3, <2>4, <2>5, <2>6, <2>7
<1>2. CASE Freeze(t)
  <2>1. TypeOK'
    BY <1>2 DEF Freeze, TypeOK, Place, OwnerInv, ThreadLockInv, RoleInv
  <2>2. OwnerInv'
    BY <1>2 DEF Freeze, TypeOK, OwnerInv
  <2>3. ThreadLockInv'
    BY <1>2 DEF Freeze, TypeOK, OwnerInv, ThreadLockInv
  <2>4. CycleInv'
    BY <1>2 DEF Freeze, TypeOK, CycleInv, RoleInv
  <2>5. RoleInv'
    BY <1>2 DEF Freeze, TypeOK, RoleInv, CycleInv
  <2>6. TraderKeepsItsAccount'
    BY <1>2 DEF Freeze, TypeOK, TraderKeepsItsAccount, CycleInv, RoleInv
  <2>7. NoStaleSend'
    BY <1>2 DEF Freeze, TypeOK, NoStaleSend, OwnerInv, RoleInv
  <2> QED BY <2>1, <2>2, <2>3, <2>4, <2>5, <2>6, <2>7
<1>3. CASE LeaveCycle(t)
  <2>1. TypeOK'
    BY <1>3 DEF LeaveCycle, TypeOK, Place, OwnerInv, ThreadLockInv, RoleInv
  <2>2. OwnerInv'
    BY <1>3 DEF LeaveCycle, TypeOK, OwnerInv
  <2>3. ThreadLockInv'
    BY <1>3 DEF LeaveCycle, TypeOK, OwnerInv, ThreadLockInv
  <2>4. CycleInv'
    BY <1>3 DEF LeaveCycle, TypeOK, CycleInv, RoleInv
  <2>5. RoleInv'
    BY <1>3 DEF LeaveCycle, TypeOK, RoleInv, CycleInv
  <2>6. TraderKeepsItsAccount'
    BY <1>3 DEF LeaveCycle, TypeOK, TraderKeepsItsAccount, CycleInv, RoleInv
  <2>7. NoStaleSend'
    BY <1>3 DEF LeaveCycle, TypeOK, NoStaleSend, OwnerInv, RoleInv
  <2> QED BY <2>1, <2>2, <2>3, <2>4, <2>5, <2>6, <2>7
<1>4. CASE TakeThreadLock(t)
  <2>1. TypeOK'
    BY <1>4 DEF TakeThreadLock, Take, TypeOK, Place, OwnerInv, ThreadLockInv, RoleInv
  <2>2. OwnerInv'
    BY <1>4 DEF TakeThreadLock, Take, TypeOK, OwnerInv
  <2>3. ThreadLockInv'
    BY <1>4 DEF TakeThreadLock, Take, TypeOK, OwnerInv, ThreadLockInv
  <2>4. CycleInv'
    BY <1>4 DEF TakeThreadLock, Take, TypeOK, CycleInv, RoleInv
  <2>5. RoleInv'
    BY <1>4 DEF TakeThreadLock, Take, TypeOK, RoleInv, CycleInv
  <2>6. TraderKeepsItsAccount'
    BY <1>4 DEF TakeThreadLock, Take, TypeOK, TraderKeepsItsAccount, CycleInv, RoleInv
  <2>7. NoStaleSend'
    BY <1>4 DEF TakeThreadLock, Take, TypeOK, NoStaleSend, OwnerInv, RoleInv
  <2> QED BY <2>1, <2>2, <2>3, <2>4, <2>5, <2>6, <2>7
<1>5. CASE TakeFileLock(t)
  <2>1. TypeOK'
    BY <1>5 DEF TakeFileLock, TypeOK, Place, OwnerInv, ThreadLockInv, RoleInv
  <2>2. OwnerInv'
    BY <1>5 DEF TakeFileLock, TypeOK, OwnerInv
  <2>3. ThreadLockInv'
    BY <1>5 DEF TakeFileLock, TypeOK, OwnerInv, ThreadLockInv
  <2>4. CycleInv'
    BY <1>5 DEF TakeFileLock, TypeOK, CycleInv, RoleInv
  <2>5. RoleInv'
    BY <1>5 DEF TakeFileLock, TypeOK, RoleInv, CycleInv
  <2>6. TraderKeepsItsAccount'
    BY <1>5 DEF TakeFileLock, TypeOK, TraderKeepsItsAccount, CycleInv, RoleInv
  <2>7. NoStaleSend'
    BY <1>5 DEF TakeFileLock, TypeOK, NoStaleSend, OwnerInv, RoleInv
  <2> QED BY <2>1, <2>2, <2>3, <2>4, <2>5, <2>6, <2>7
<1>6. CASE TimeOut(t)
  <2>1. TypeOK'
    BY <1>6 DEF TimeOut, Drop, After, TypeOK, Place, OwnerInv, ThreadLockInv, RoleInv
  <2>2. OwnerInv'
    BY <1>6 DEF TimeOut, Drop, After, TypeOK, OwnerInv
  <2>3. ThreadLockInv'
    BY <1>6 DEF TimeOut, Drop, After, TypeOK, OwnerInv, ThreadLockInv
  <2>4. CycleInv'
    BY <1>6 DEF TimeOut, Drop, After, TypeOK, CycleInv, RoleInv
  <2>5. RoleInv'
    BY <1>6 DEF TimeOut, Drop, After, TypeOK, RoleInv, CycleInv
  <2>6. TraderKeepsItsAccount'
    BY <1>6 DEF TimeOut, Drop, After, TypeOK, TraderKeepsItsAccount, CycleInv, RoleInv
  <2>7. NoStaleSend'
    BY <1>6 DEF TimeOut, Drop, After, TypeOK, NoStaleSend, OwnerInv, RoleInv
  <2> QED BY <2>1, <2>2, <2>3, <2>4, <2>5, <2>6, <2>7
<1>7. CASE Nest(t)
  <2>1. TypeOK'
    BY <1>7 DEF Nest, Take, TypeOK, Place, OwnerInv, ThreadLockInv, RoleInv
  <2>2. OwnerInv'
    BY <1>7 DEF Nest, Take, TypeOK, OwnerInv
  <2>3. ThreadLockInv'
    BY <1>7 DEF Nest, Take, TypeOK, OwnerInv, ThreadLockInv
  <2>4. CycleInv'
    BY <1>7 DEF Nest, Take, TypeOK, CycleInv, RoleInv
  <2>5. RoleInv'
    BY <1>7 DEF Nest, Take, TypeOK, RoleInv, CycleInv
  <2>6. TraderKeepsItsAccount'
    BY <1>7 DEF Nest, Take, TypeOK, TraderKeepsItsAccount, CycleInv, RoleInv
  <2>7. NoStaleSend'
    BY <1>7 DEF Nest, Take, TypeOK, NoStaleSend, OwnerInv, RoleInv
  <2> QED BY <2>1, <2>2, <2>3, <2>4, <2>5, <2>6, <2>7
<1>8. CASE Unnest(t)
  <2>1. TypeOK'
    BY <1>8 DEF Unnest, Drop, TypeOK, Place, OwnerInv, ThreadLockInv, RoleInv
  <2>2. OwnerInv'
    BY <1>8 DEF Unnest, Drop, TypeOK, OwnerInv
  <2>3. ThreadLockInv'
    BY <1>8 DEF Unnest, Drop, TypeOK, OwnerInv, ThreadLockInv
  <2>4. CycleInv'
    BY <1>8 DEF Unnest, Drop, TypeOK, CycleInv, RoleInv
  <2>5. RoleInv'
    BY <1>8 DEF Unnest, Drop, TypeOK, RoleInv, CycleInv
  <2>6. TraderKeepsItsAccount'
    BY <1>8 DEF Unnest, Drop, TypeOK, TraderKeepsItsAccount, CycleInv, RoleInv
  <2>7. NoStaleSend'
    BY <1>8 DEF Unnest, Drop, TypeOK, NoStaleSend, OwnerInv, RoleInv
  <2> QED BY <2>1, <2>2, <2>3, <2>4, <2>5, <2>6, <2>7
<1>9. CASE Release(t)
  <2>1. TypeOK'
    BY <1>9 DEF Release, LetGo, Drop, After, TypeOK, Place, OwnerInv, ThreadLockInv, RoleInv
  <2>2. OwnerInv'
    BY <1>9 DEF Release, LetGo, Drop, After, TypeOK, OwnerInv
  <2>3. ThreadLockInv'
    BY <1>9 DEF Release, LetGo, Drop, After, TypeOK, OwnerInv, ThreadLockInv
  <2>4. CycleInv'
    BY <1>9 DEF Release, LetGo, Drop, After, TypeOK, CycleInv, RoleInv
  <2>5. RoleInv'
    BY <1>9 DEF Release, LetGo, Drop, After, TypeOK, RoleInv, CycleInv
  <2>6. TraderKeepsItsAccount'
    BY <1>9 DEF Release, LetGo, Drop, After, TypeOK, TraderKeepsItsAccount, CycleInv, RoleInv
  <2>7. NoStaleSend'
    BY <1>9 DEF Release, LetGo, Drop, After, TypeOK, NoStaleSend, OwnerInv, RoleInv
  <2> QED BY <2>1, <2>2, <2>3, <2>4, <2>5, <2>6, <2>7
<1>10. CASE OpenWindow(t)
  <2>1. TypeOK'
    BY <1>10 DEF OpenWindow, LetGo, Drop, TypeOK, Place, OwnerInv, ThreadLockInv, RoleInv
  <2>2. OwnerInv'
    BY <1>10 DEF OpenWindow, LetGo, Drop, TypeOK, OwnerInv
  <2>3. ThreadLockInv'
    BY <1>10 DEF OpenWindow, LetGo, Drop, TypeOK, OwnerInv, ThreadLockInv
  <2>4. CycleInv'
    BY <1>10 DEF OpenWindow, LetGo, Drop, TypeOK, CycleInv, RoleInv
  <2>5. RoleInv'
    BY <1>10 DEF OpenWindow, LetGo, Drop, TypeOK, RoleInv, CycleInv
  <2>6. TraderKeepsItsAccount'
    BY <1>10 DEF OpenWindow, LetGo, Drop, TypeOK, TraderKeepsItsAccount, CycleInv, RoleInv
  <2>7. NoStaleSend'
    BY <1>10 DEF OpenWindow, LetGo, Drop, TypeOK, NoStaleSend, OwnerInv, RoleInv
  <2> QED BY <2>1, <2>2, <2>3, <2>4, <2>5, <2>6, <2>7
<1>11. CASE Return(t)
  <2>1. TypeOK'
    BY <1>11 DEF Return, Take, TypeOK, Place, OwnerInv, ThreadLockInv, RoleInv
  <2>2. OwnerInv'
    BY <1>11 DEF Return, Take, TypeOK, OwnerInv
  <2>3. ThreadLockInv'
    BY <1>11 DEF Return, Take, TypeOK, OwnerInv, ThreadLockInv
  <2>4. CycleInv'
    BY <1>11 DEF Return, Take, TypeOK, CycleInv, RoleInv
  <2>5. RoleInv'
    BY <1>11 DEF Return, Take, TypeOK, RoleInv, CycleInv
  <2>6. TraderKeepsItsAccount'
    BY <1>11 DEF Return, Take, TypeOK, TraderKeepsItsAccount, CycleInv, RoleInv
  <2>7. NoStaleSend'
    BY <1>11 DEF Return, Take, TypeOK, NoStaleSend, OwnerInv, RoleInv
  <2> QED BY <2>1, <2>2, <2>3, <2>4, <2>5, <2>6, <2>7
<1>12. CASE CloseWindow(t)
  <2>1. TypeOK'
    BY <1>12 DEF CloseWindow, TypeOK, Place, OwnerInv, ThreadLockInv, RoleInv
  <2>2. OwnerInv'
    BY <1>12 DEF CloseWindow, TypeOK, OwnerInv
  <2>3. ThreadLockInv'
    BY <1>12 DEF CloseWindow, TypeOK, OwnerInv, ThreadLockInv
  <2>4. CycleInv'
    BY <1>12 DEF CloseWindow, TypeOK, CycleInv, RoleInv
  <2>5. RoleInv'
    BY <1>12 DEF CloseWindow, TypeOK, RoleInv, CycleInv
  <2>6. TraderKeepsItsAccount'
    BY <1>12 DEF CloseWindow, TypeOK, TraderKeepsItsAccount, CycleInv, RoleInv
  <2>7. NoStaleSend'
    BY <1>12 DEF CloseWindow, TypeOK, NoStaleSend, OwnerInv, RoleInv
  <2> QED BY <2>1, <2>2, <2>3, <2>4, <2>5, <2>6, <2>7
<1>13. CASE AssertCurrent(t)
  <2>1. TypeOK'
    BY <1>13 DEF AssertCurrent, TypeOK, Place, OwnerInv, ThreadLockInv, RoleInv
  <2>2. OwnerInv'
    BY <1>13 DEF AssertCurrent, TypeOK, OwnerInv
  <2>3. ThreadLockInv'
    BY <1>13 DEF AssertCurrent, TypeOK, OwnerInv, ThreadLockInv
  <2>4. CycleInv'
    BY <1>13 DEF AssertCurrent, TypeOK, CycleInv, RoleInv
  <2>5. RoleInv'
    BY <1>13 DEF AssertCurrent, TypeOK, RoleInv, CycleInv
  <2>6. TraderKeepsItsAccount'
    BY <1>13 DEF AssertCurrent, TypeOK, TraderKeepsItsAccount, CycleInv, RoleInv
  <2>7. NoStaleSend'
    BY <1>13 DEF AssertCurrent, TypeOK, NoStaleSend, OwnerInv, RoleInv
  <2> QED BY <2>1, <2>2, <2>3, <2>4, <2>5, <2>6, <2>7
<1>14. CASE Sent(t)
  <2>1. TypeOK'
    BY <1>14 DEF Sent, TypeOK, Place, OwnerInv, ThreadLockInv, RoleInv
  <2>2. OwnerInv'
    BY <1>14 DEF Sent, TypeOK, OwnerInv
  <2>3. ThreadLockInv'
    BY <1>14 DEF Sent, TypeOK, OwnerInv, ThreadLockInv
  <2>4. CycleInv'
    BY <1>14 DEF Sent, TypeOK, CycleInv, RoleInv
  <2>5. RoleInv'
    BY <1>14 DEF Sent, TypeOK, RoleInv, CycleInv
  <2>6. TraderKeepsItsAccount'
    BY <1>14 DEF Sent, TypeOK, TraderKeepsItsAccount, CycleInv, RoleInv
  <2>7. NoStaleSend'
    BY <1>14 DEF Sent, TypeOK, NoStaleSend, OwnerInv, RoleInv
  <2> QED BY <2>1, <2>2, <2>3, <2>4, <2>5, <2>6, <2>7
<1>15. CASE TryCycle(t)
  <2>1. TypeOK'
    BY <1>15 DEF TryCycle, TypeOK, Place, OwnerInv, ThreadLockInv, RoleInv
  <2>2. OwnerInv'
    BY <1>15 DEF TryCycle, TypeOK, OwnerInv
  <2>3. ThreadLockInv'
    BY <1>15 DEF TryCycle, TypeOK, OwnerInv, ThreadLockInv
  <2>4. CycleInv'
    BY <1>15 DEF TryCycle, TypeOK, CycleInv, RoleInv
  <2>5. RoleInv'
    BY <1>15 DEF TryCycle, TypeOK, RoleInv, CycleInv
  <2>6. TraderKeepsItsAccount'
    BY <1>15 DEF TryCycle, TypeOK, TraderKeepsItsAccount, CycleInv, RoleInv
  <2>7. NoStaleSend'
    BY <1>15 DEF TryCycle, TypeOK, NoStaleSend, OwnerInv, RoleInv
  <2> QED BY <2>1, <2>2, <2>3, <2>4, <2>5, <2>6, <2>7
<1>16. CASE Change(t)
  <2>1. TypeOK'
    BY <1>16 DEF Change, TypeOK, Place, OwnerInv, ThreadLockInv, RoleInv
  <2>2. OwnerInv'
    BY <1>16 DEF Change, TypeOK, OwnerInv
  <2>3. ThreadLockInv'
    BY <1>16 DEF Change, TypeOK, OwnerInv, ThreadLockInv
  <2>4. CycleInv'
    BY <1>16 DEF Change, TypeOK, CycleInv, RoleInv
  <2>5. RoleInv'
    BY <1>16 DEF Change, TypeOK, RoleInv, CycleInv
  <2>6. TraderKeepsItsAccount'
    BY <1>16 DEF Change, TypeOK, TraderKeepsItsAccount, CycleInv, RoleInv
  <2>7. NoStaleSend'
    BY <1>16 DEF Change, TypeOK, NoStaleSend, OwnerInv, RoleInv
  <2> QED BY <2>1, <2>2, <2>3, <2>4, <2>5, <2>6, <2>7
<1> QED BY <1>1, <1>2, <1>3, <1>4, <1>5, <1>6, <1>7, <1>8, <1>9, <1>10, <1>11, <1>12, <1>13, <1>14, <1>15, <1>16 DEF Step

(* The death of a process frees what its threads held, and nothing else.     *)
LEMMA DieIInv ==
  ASSUME IInv, NEW p \in Process, Die(p)
  PROVE  IInv'
<1> USE GateAssumption DEF IInv, Owning, Waiting, Die
<1>1. TypeOK'
  BY DEF TypeOK, Place, OwnerInv, ThreadLockInv, RoleInv
<1>2. OwnerInv'
  BY DEF TypeOK, OwnerInv
<1>3. ThreadLockInv'
  BY DEF TypeOK, OwnerInv, ThreadLockInv
<1>4. CycleInv'
  BY DEF TypeOK, CycleInv, RoleInv
<1>5. RoleInv'
  BY DEF TypeOK, RoleInv, CycleInv
<1>6. TraderKeepsItsAccount'
  BY DEF TypeOK, TraderKeepsItsAccount, CycleInv, RoleInv
<1>7. NoStaleSend'
  BY DEF TypeOK, NoStaleSend, OwnerInv, RoleInv
<1> QED BY <1>1, <1>2, <1>3, <1>4, <1>5, <1>6, <1>7

(* Every step keeps the locks with their holders. *)
LEMMA NextIInv == IInv /\ [Next]_vars => IInv'
<1> SUFFICES ASSUME IInv, [Next]_vars PROVE IInv'
  OBVIOUS
<1>1. CASE UNCHANGED vars
  BY <1>1 DEF IInv, vars, locks, TypeOK, OwnerInv, ThreadLockInv, CycleInv, RoleInv,
    TraderKeepsItsAccount, NoStaleSend
<1>2. CASE \E t \in Thread : Step(t)
  BY <1>2, StepIInv
<1>3. CASE \E p \in Process : Die(p)
  BY <1>3, DieIInv
<1> QED BY <1>1, <1>2, <1>3 DEF Next

(* The inductive invariant holds in every reachable state.                  *)
THEOREM Invariance == Spec => []IInv
<1> QED BY InitIInv, NextIInv, PTL DEF Spec

(* Every variable keeps its type (trade_lock.py): whatever is nested and     *)
(* whoever dies, a thread lock is never taken more often than writer() may   *)
(* nest.                                                                    *)
THEOREM TypeCorrect == Spec => []TypeOK
<1>1. IInv => TypeOK
  BY DEF IInv
<1> QED BY <1>1, Invariance, PTL

(* At most one thread of all processes is inside writer() (trade_lock.py).  *)
THEOREM OneWriterTheorem == Spec => []OneWriter
<1>1. IInv => OneWriter
  BY DEF IInv, OwnerInv, OneWriter
<1> QED BY <1>1, Invariance, PTL

(* A cycle keeps the account it froze until it ends (mutation_guard).        *)
THEOREM TraderKeepsItsAccountTheorem == Spec => []TraderKeepsItsAccount
<1>1. IInv => TraderKeepsItsAccount
  BY DEF IInv
<1> QED BY <1>1, Invariance, PTL

(* No trade request goes to an account that is no longer bound               *)
(* (assert_current).                                                        *)
THEOREM NoStaleSendTheorem == Spec => []NoStaleSend
<1>1. IInv => NoStaleSend
  BY DEF IInv
<1> QED BY <1>1, Invariance, PTL

(* What a run checks of the gate as one (GateSafe): one writer, for the       *)
(* account it froze, never for an unbound one (trade_lock.py).              *)
THEOREM GateSafeTheorem == Spec => []GateSafe
<1>1. TypeOK /\ OneWriter /\ TraderKeepsItsAccount /\ NoStaleSend => GateSafe
  BY DEF GateSafe
<1> QED BY <1>1, TypeCorrect, OneWriterTheorem, TraderKeepsItsAccountTheorem, NoStaleSendTheorem, PTL

-----------------------------------------------------------------------------
(* One cycle runs at a time, none while an account is changed, and who sends *)
(* has the lock.                                                            *)
LEMMA OneRuns ==
  ASSUME IInv
  PROVE /\ \A t, u \in Traders : pc[t] # "idle" /\ pc[u] # "idle" => t = u
        /\ \A t \in Thread : pc[t] \in Owning => flock = t
        /\ \A t \in Thread : flock = t => pc[t] \in Owning
        /\ \A t \in Managers : pc[t] = "changing" => Running = {}
<1>1. \A t, u \in Traders : pc[t] # "idle" /\ pc[u] # "idle" => t = u
  BY DEF IInv, CycleInv
<1>2. \A t \in Thread : pc[t] \in Owning <=> flock = t
  BY DEF IInv, OwnerInv
<1>3. \A t \in Managers : pc[t] = "changing" => Running = {}
  <2> TAKE t \in Managers
  <2> HAVE pc[t] = "changing"
  <2>1. cycle = t
    BY DEF IInv, CycleInv
  <2>2. \A u \in Traders : pc[u] = "idle"
    BY <2>1, GateAssumption DEF IInv, CycleInv
  <2> QED
    BY <2>2 DEF Running
<1> QED
  BY <1>1, <1>2, <1>3

(* The mapping looks at the threads that run or send, and at no other.       *)
LEMMA BarRests ==
  /\ (Running' = Running /\ \A t \in Running : env'[t] = env[t]) => runningBar' = runningBar
  /\ (Sending' = Sending /\ \A t \in Sending : env'[t] = env[t]) => requestsBar' = requestsBar
BY DEF runningBar, requestsBar

(* A step of a thread is a step of the promise, or none.                    *)
LEMMA AccountThread ==
  ASSUME IInv, NEW t \in Thread, Step(t)
  PROVE  \/ Account!Acquire(t) \/ Account!Release(t) \/ Account!Begin(t) \/ Account!End(t)
         \/ Account!Send(t) \/ Account!Answered(t) \/ Account!Change(t)
         \/ UNCHANGED Account!accountVars
<1>0. /\ TypeOK /\ RoleInv
      /\ \A u, v \in Traders : pc[u] # "idle" /\ pc[v] # "idle" => u = v
      /\ \A u \in Thread : pc[u] \in Owning <=> flock = u
      /\ Traders \subseteq Thread /\ Traders \cap Managers = {}
  BY OneRuns, GateAssumption DEF IInv
<1>1. ASSUME pc' = pc \/ \E l \in Place : pc' = [pc EXCEPT ![t] = l], UNCHANGED env,
             t \in Traders => (pc[t] \in {"idle", "locked"} <=> pc'[t] \in {"idle", "locked"})
      PROVE  runningBar' = runningBar
  BY <1>0, <1>1, BarRests DEF Running, TypeOK
<1>2. ASSUME pc' = pc \/ \E l \in Place : pc' = [pc EXCEPT ![t] = l], UNCHANGED env,
             pc[t] = "sending" <=> pc'[t] = "sending"
      PROVE  requestsBar' = requestsBar
  BY <1>0, <1>2, BarRests DEF Sending, TypeOK
<1>3. CASE \/ EnterCycle(t) \/ TakeThreadLock(t) \/ TimeOut(t) \/ Nest(t) \/ Unnest(t)
           \/ Return(t) \/ TryCycle(t)
  <2>1. runningBar' = runningBar
    BY <1>0, <1>1, <1>3 DEF EnterCycle, TakeThreadLock, TimeOut, After, Nest, Unnest,
      Return, TryCycle, Goto, Place, Waiting, Owning, TypeOK, RoleInv
  <2>2. requestsBar' = requestsBar
    BY <1>0, <1>2, <1>3 DEF EnterCycle, TakeThreadLock, TimeOut, After, Nest, Unnest,
      Return, TryCycle, Goto, Place, Waiting, Owning, TypeOK
  <2>3. UNCHANGED <<flock, binding>>
    BY <1>3 DEF EnterCycle, TakeThreadLock, TimeOut, Nest, Unnest, Return, TryCycle, locks
  <2> QED
    BY <2>1, <2>2, <2>3 DEF Account!accountVars
<1>4. CASE Freeze(t)
  <2>1. Sending' = Sending /\ t \notin Sending
    BY <1>0, <1>4 DEF Freeze, Goto, Sending, TypeOK
  <2>2. requestsBar' = requestsBar
    BY <1>0, <1>4, <2>1, BarRests DEF Freeze, TypeOK, Sending
  <2>3. CASE t \notin Traders
    <3>1. Running' = Running
      BY <1>0, <1>4, <2>3 DEF Freeze, Goto, Running, TypeOK
    <3>2. \A u \in Running : env'[u] = env[u]
      BY <1>0, <1>4, <2>3 DEF Freeze, TypeOK, Running
    <3>3. runningBar' = runningBar
      BY <3>1, <3>2, BarRests
    <3> QED
      BY <1>4, <2>2, <3>3 DEF Freeze, locks, Account!accountVars
  <2>4. CASE t \in Traders
    <3>1. pc[t] = "locked"
      BY <1>4, <2>4, GateAssumption DEF Freeze
    <3>2. Running = {}
      BY <1>0, <2>4, <3>1 DEF Running
    <3>3. Running' = {t}
      BY <1>0, <1>4, <2>4, <3>1, <3>2 DEF Freeze, Goto, Running, TypeOK
    <3>4. env'[t] = binding
      BY <1>0, <1>4 DEF Freeze, TypeOK
    <3>5. runningBar = {} /\ runningBar' = {[by |-> t, on |-> binding]}
      BY <3>2, <3>3, <3>4 DEF runningBar
    <3>6. flock # t
      BY <1>0, <3>1 DEF Owning
    <3> QED
      BY <1>4, <2>2, <2>4, <3>5, <3>6 DEF Freeze, locks, Account!Begin
  <2> QED
    BY <2>3, <2>4
<1>5. CASE LeaveCycle(t)
  <2>1. Running = {t} /\ Running' = {}
    BY <1>0, <1>5 DEF LeaveCycle, Goto, Running, TypeOK
  <2>2. runningBar = {[by |-> t, on |-> env[t]]} /\ runningBar' = {}
    BY <2>1 DEF runningBar
  <2>3. requestsBar' = requestsBar
    BY <1>0, <1>2, <1>5 DEF LeaveCycle, Goto, Place, TypeOK
  <2>4. flock # t
    BY <1>0, <1>5 DEF LeaveCycle, Owning
  <2>5. \E r \in runningBar : r.by = t
    BY <2>2
  <2> QED
    BY <1>5, <2>2, <2>3, <2>4, <2>5 DEF LeaveCycle, locks, Account!End
<1>6. CASE TakeFileLock(t) \/ CloseWindow(t)
  <2>1. runningBar' = runningBar
    BY <1>0, <1>1, <1>6 DEF TakeFileLock, CloseWindow, Goto, Place, Owning, TypeOK
  <2>2. requestsBar' = requestsBar
    BY <1>0, <1>2, <1>6 DEF TakeFileLock, CloseWindow, Goto, Place, Owning, TypeOK
  <2> QED
    BY <1>6, <2>1, <2>2 DEF TakeFileLock, CloseWindow, Account!Acquire
<1>7. CASE Release(t) \/ OpenWindow(t)
  <2>1. pc[t] \in {"writing", "changed"} /\ flock = t
    BY <1>0, <1>7 DEF Release, OpenWindow, Owning
  <2>2. Sending = {}
    BY <1>0, <2>1 DEF Sending, Owning
  <2>3. runningBar' = runningBar
    BY <1>0, <1>1, <1>7, <2>1 DEF Release, OpenWindow, After, Goto, Place, Owning, TypeOK
  <2>4. requestsBar' = requestsBar
    BY <1>0, <1>2, <1>7, <2>1 DEF Release, OpenWindow, After, Goto, Place, Owning, TypeOK
  <2>5. requestsBar = {}
    BY <2>2 DEF requestsBar
  <2> QED
    BY <1>7, <2>1, <2>3, <2>4, <2>5 DEF Release, OpenWindow, LetGo, Account!Release
<1>8. CASE AssertCurrent(t)
  <2>1. pc[t] = "writing" /\ flock = t /\ env[t] = binding /\ t \notin Managers
    BY <1>0, <1>8 DEF AssertCurrent, Owning
  <2>2. Sending = {}
    BY <1>0, <2>1 DEF Sending, Owning
  <2>3. Sending' = {t}
    BY <1>0, <1>8, <2>2 DEF AssertCurrent, Goto, Sending, TypeOK
  <2>4. requestsBar = {} /\ requestsBar' = {[by |-> t, to |-> binding]}
    BY <1>8, <2>1, <2>2, <2>3 DEF requestsBar, AssertCurrent
  <2>5. runningBar' = runningBar
    BY <1>0, <1>1, <1>8 DEF AssertCurrent, Goto, Place, Owning, TypeOK
  <2>6. ASSUME t \in Traders PROVE runningBar = {[by |-> t, on |-> binding]}
    <3>1. Running = {t}
      BY <1>0, <2>1, <2>6 DEF Running
    <3> QED
      BY <2>1, <3>1 DEF runningBar
  <2> QED
    BY <1>8, <2>1, <2>4, <2>5, <2>6 DEF AssertCurrent, locks, Account!Send
<1>9. CASE Sent(t)
  <2>1. Sending = {t} /\ flock = t
    BY <1>0, <1>9 DEF Sent, Sending, Owning
  <2>2. Sending' = {}
    BY <1>0, <1>9, <2>1 DEF Sent, Goto, Sending, TypeOK
  <2>3. requestsBar # {} /\ requestsBar' = {}
    BY <2>1, <2>2 DEF requestsBar
  <2>4. runningBar' = runningBar
    BY <1>0, <1>1, <1>9 DEF Sent, Goto, Place, Owning, TypeOK
  <2> QED
    BY <1>9, <2>1, <2>3, <2>4 DEF Sent, locks, Account!Answered
<1>10. CASE Change(t)
  <2>1. pc[t] = "changing" /\ t \in Managers /\ flock = t
    BY <1>0, <1>10 DEF Change, RoleInv, Owning
  <2>2. Running = {} /\ Sending = {}
    BY <1>0, <2>1, OneRuns DEF Sending, Owning
  <2>3. runningBar' = runningBar
    BY <1>0, <1>1, <1>10, <2>1 DEF Change, Goto, Place, Owning, TypeOK
  <2>4. requestsBar' = requestsBar
    BY <1>0, <1>2, <1>10, <2>1 DEF Change, Goto, Place, Owning, TypeOK
  <2>5. runningBar = {} /\ requestsBar = {}
    BY <2>2 DEF runningBar, requestsBar
  <2> QED
    BY <1>0, <1>10, <2>1, <2>3, <2>4, <2>5 DEF Change, locks, Account!Change, Account!accountVars
<1> QED
  BY <1>3, <1>4, <1>5, <1>6, <1>7, <1>8, <1>9, <1>10 DEF Step

(* The death of a process takes its cycle, its request and its lock.        *)
LEMMA AccountDeath ==
  ASSUME IInv, NEW p \in Process, Die(p)
  PROVE  Account!Lose({t \in Thread : ProcessOf[t] = p})
<1> DEFINE dead == {t \in Thread : ProcessOf[t] = p}
<1>0. TypeOK /\ Traders \subseteq Thread
  BY GateAssumption DEF IInv
<1>1. Running' = Running \ dead /\ Sending' = Sending \ dead
  BY <1>0 DEF Die, Running, Sending, TypeOK
<1>2. env' = env /\ binding' = binding /\ flock' = IF flock \in dead THEN NoThread ELSE flock
  BY DEF Die
<1> HIDE DEF dead
<1>3. runningBar' = {r \in runningBar : r.by \notin dead}
  BY <1>1, <1>2 DEF runningBar
<1>4. requestsBar' = {r \in requestsBar : r.by \notin dead}
  BY <1>1, <1>2 DEF requestsBar
<1>5. Account!Lose(dead)
  BY <1>2, <1>3, <1>4 DEF Account!Lose
<1> QED
  BY <1>5 DEF dead

(* The locks implement the promise of the account (trade_lock.py), for every   *)
(* set of threads and processes, whoever waits, nests or dies.               *)
THEOREM ImplementsAccountPromiseTheorem == Spec => ImplementsAccountPromise
<1>1. Init => Account!Init
  <2> SUFFICES ASSUME Init PROVE Account!Init
    OBVIOUS
  <2>1. Running = {} /\ Sending = {}
    BY GateAssumption DEF Init, Running, Sending
  <2>2. runningBar = {} /\ requestsBar = {}
    BY <2>1 DEF runningBar, requestsBar
  <2> QED
    BY <2>2 DEF Init, Account!Init
<1>2. IInv /\ [Next]_vars => [Account!Next]_Account!accountVars
  <2> SUFFICES ASSUME IInv, [Next]_vars PROVE Account!Next \/ UNCHANGED Account!accountVars
    OBVIOUS
  <2>1. CASE UNCHANGED vars
    <3>1. runningBar' = runningBar /\ requestsBar' = requestsBar
      BY <2>1 DEF vars, runningBar, requestsBar, Running, Sending
    <3> QED
      BY <2>1, <3>1 DEF vars, locks, Account!accountVars
  <2>2. CASE \E t \in Thread : Step(t)
    BY <2>2, AccountThread DEF Account!Next
  <2>3. ASSUME NEW p \in Process, Die(p) PROVE Account!Next
    <3>1. {t \in Thread : ProcessOf[t] = p} \in SUBSET Thread
      OBVIOUS
    <3> QED
      BY <2>3, <3>1, AccountDeath DEF Account!Next
  <2> QED
    BY <2>1, <2>2, <2>3 DEF Next
<1> QED
  BY <1>1, <1>2, Invariance, PTL DEF Spec, ImplementsAccountPromise, Account!Spec
=============================================================================
