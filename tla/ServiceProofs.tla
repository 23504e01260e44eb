---------------------------- MODULE ServiceProofs ----------------------------
(***************************************************************************)
(* Proofs about the parts that serve the trader: a call of a model that       *)
(* tells of what it asked, a close that leaves no order of its own working     *)
(* beside the next, a monitor that answers for one account at a time, and a     *)
(* file of models whose keys stay with their providers.                       *)
(***************************************************************************)
EXTENDS InferenceCall, CloseExecution, Dashboard, ModelRegistry, TLAPS

-----------------------------------------------------------------------------
(* A call of a model.  A call that may have asked the provider knows of the    *)
(* attempt: the process is an attempt from its start, and its report counts    *)
(* what it sent.                                                              *)
Unsent == {"starting", "sending"}

CountsOK ==
  /\ asked <= attempt
  /\ caller = "start" => attempt = 0
  /\ caller = "pausing" => attempt < MaxTries
  /\ route = "process" => attempt <= 1
  /\ worker \in Unsent => asked = 0 /\ attempt = 1

(* Each of the two ways has its states, and a process is there from its start  *)
(* to the end of the call.                                                    *)
RouteOK ==
  /\ route = "loop" => /\ worker = "none" /\ timer = "off"
                       /\ caller \in {"start", "trying", "pausing", "done"}
  /\ route = "process" => caller \notin {"trying", "pausing"}
  /\ caller = "start" => worker = "none"
  /\ caller \in {"start", "launched"} => timer = "off"
  /\ caller = "done" => timer # "armed" /\ worker \in {"none", "reaped"}

(* What the process has written: nothing while it may still send.             *)
PipeOK ==
  /\ pipe # NoMessage => worker \notin Unsent \cup {"none"}
  /\ pipe \in EnvelopeType => asked <= pipe.attempts /\ (pipe.ok => whole)
  /\ worker = "reading" => pipe = NoMessage

(* A result counts the requests made so far and those that may still be made.  *)
ResultOK == result # NoMessage =>
  /\ result.attempts >= asked
  /\ worker \in Unsent => result.attempts >= 1
  /\ result.ok => result.whole /\ ~result.late

CallInv == CallTypeOK /\ CountsOK /\ RouteOK /\ PipeOK /\ ResultOK

(* Nothing was asked at first. *)
LEMMA CallAtFirst == CallInit => CallInv
<1> SUFFICES ASSUME CallInit PROVE CallInv
  OBVIOUS
<1> USE CallAssumption DEF CallInit
<1>0. attempt \in 0 .. MaxTries /\ asked \in 0 .. MaxTries OBVIOUS
<1>a. caller \notin {"cleanup", "done"} /\ ~(result # NoMessage) OBVIOUS
<1>b. late \in BOOLEAN /\ expired \in BOOLEAN /\ whole \in BOOLEAN OBVIOUS
<1>1. CallTypeOK BY <1>0, <1>a, <1>b DEF CallTypeOK
<1>2. CountsOK /\ RouteOK BY DEF CountsOK, RouteOK, Unsent
<1>3. PipeOK /\ ResultOK BY DEF PipeOK, ResultOK
<1> QED BY <1>1, <1>2, <1>3 DEF CallInv

(* A result that is given is a result, of what is known at that moment. *)
LEMMA Concluded ==
  ASSUME NEW ok \in BOOLEAN, NEW n \in 0 .. MaxTries, CallTypeOK, Conclude(ok, n)
  PROVE /\ result' \in ResultType /\ result' # NoMessage
        /\ result'.ok = ok /\ result'.attempts = n /\ result'.late = late /\ result'.whole = whole
BY CallAssumption DEF Conclude, ResultType, CallTypeOK

(* A report that is written is a report. *)
LEMMA Emitted ==
  ASSUME NEW ok \in BOOLEAN, NEW n \in 0 .. 1, NEW complete \in BOOLEAN, Emit(ok, n, complete)
  PROVE /\ pipe' \in EnvelopeType /\ pipe' # NoMessage /\ pipe' # Torn
        /\ pipe'.ok = ok /\ pipe'.attempts = n
BY CallAssumption DEF Emit, EnvelopeType

(* No step denies a request, takes half an answer or leaves a process behind. *)
LEMMA CallStays == ASSUME CallInv, [CallNext]_callVars PROVE CallInv'
<1> USE CallAssumption DEF CallInv
<1>1. CASE PassDeadline
  <2> USE <1>1 DEF PassDeadline
  <2>1. CallTypeOK' BY DEF CallTypeOK
  <2>2. CountsOK' /\ RouteOK' BY DEF CountsOK, RouteOK
  <2>3. PipeOK' /\ ResultOK' BY DEF PipeOK, ResultOK
  <2> QED BY <2>1, <2>2, <2>3
<1>2. CASE StartWorker
  <2>0. /\ caller = "start" /\ result = NoMessage /\ worker = "none" /\ pipe = NoMessage
        /\ attempt = 0 /\ asked = 0 /\ timer = "off"
        /\ UNCHANGED <<route, pipe, timer, expired, late, asked, whole>>
    BY <1>2 DEF StartWorker, CallTypeOK, CountsOK, RouteOK, PipeOK
  <2>1. CASE worker' = "starting" /\ attempt' = 1 /\ caller' = "launched" /\ result' = result
    <3>1. CallTypeOK' BY <2>0, <2>1 DEF CallTypeOK
    <3>2. CountsOK' /\ RouteOK' BY <1>2, <2>0, <2>1 DEF StartWorker, CountsOK, RouteOK, Unsent
    <3>3. PipeOK' /\ ResultOK' BY <2>0, <2>1 DEF PipeOK, ResultOK
    <3> QED BY <3>1, <3>2, <3>3
  <2>2. CASE /\ worker' = worker /\ attempt' = attempt /\ caller' = "cleanup" /\ Conclude(FALSE, 0)
    <3>0. /\ result' \in ResultType /\ result' # NoMessage /\ result'.ok = FALSE /\ result'.attempts = 0
      <4>1. 0 \in 0 .. MaxTries /\ FALSE \in BOOLEAN OBVIOUS
      <4> QED BY <2>2, <4>1, Concluded
    <3>1. CallTypeOK' BY <2>0, <2>2, <3>0 DEF CallTypeOK
    <3>2. CountsOK' /\ RouteOK' BY <1>2, <2>0, <2>2 DEF StartWorker, CountsOK, RouteOK, Unsent
    <3>3. PipeOK' /\ ResultOK' BY <2>0, <2>2, <3>0 DEF PipeOK, ResultOK, Unsent
    <3> QED BY <3>1, <3>2, <3>3
  <2> QED BY <1>2, <2>1, <2>2 DEF StartWorker
<1>3. CASE StartTimer
  <2>0. /\ caller = "launched" /\ result = NoMessage /\ timer = "off" /\ attempt \in 0 .. MaxTries
        /\ UNCHANGED <<route, attempt, worker, pipe, expired, late, asked, whole>>
    BY <1>3 DEF StartTimer, CallTypeOK, RouteOK
  <2>1. CASE late
    <3>0. /\ result' \in ResultType /\ result' # NoMessage /\ result'.ok = FALSE
          /\ result'.attempts = attempt /\ caller' = "cleanup" /\ timer' = timer
      BY <1>3, <2>0, <2>1, Concluded DEF StartTimer
    <3>1. CallTypeOK' BY <2>0, <3>0 DEF CallTypeOK
    <3>2. CountsOK' /\ RouteOK' BY <2>0, <3>0 DEF CountsOK, RouteOK
    <3>3. PipeOK' /\ ResultOK' BY <2>0, <3>0 DEF PipeOK, ResultOK, CountsOK
    <3> QED BY <3>1, <3>2, <3>3
  <2>2. CASE ~late
    <3>0. caller' = "writing" /\ timer' = "armed" /\ result' = result
      BY <1>3, <2>2 DEF StartTimer
    <3>1. CallTypeOK' BY <2>0, <3>0 DEF CallTypeOK
    <3>2. CountsOK' /\ RouteOK' BY <2>0, <3>0 DEF CountsOK, RouteOK
    <3>3. PipeOK' /\ ResultOK' BY <2>0, <3>0 DEF PipeOK, ResultOK
    <3> QED BY <3>1, <3>2, <3>3
  <2> QED BY <2>1, <2>2
<1>4. CASE DeadlineExpired
  <2> USE <1>4 DEF DeadlineExpired
  <2>0. caller # "done" /\ caller # "start" BY DEF RouteOK
  <2>1. CallTypeOK' BY DEF CallTypeOK, Ended
  <2>2. CountsOK' /\ RouteOK' BY <2>0 DEF CountsOK, RouteOK, Ended, Unsent
  <2>3. PipeOK' /\ ResultOK' BY DEF PipeOK, ResultOK, Ended, Unsent
  <2> QED BY <2>1, <2>2, <2>3
<1>5. CASE Collect
  <2>0. /\ caller \in {"writing", "waiting"} /\ caller' = "cleanup" /\ route = "process"
        /\ result = NoMessage /\ Conclude(AnswerTaken, AttemptsOf)
        /\ UNCHANGED <<route, attempt, worker, pipe, timer, expired, late, asked, whole>>
    BY <1>5 DEF Collect, CallTypeOK, RouteOK
  <2>1. AnswerTaken \in BOOLEAN /\ (AnswerTaken => whole /\ ~late)
    BY DEF AnswerTaken, PipeOK, CallTypeOK
  <2>2. /\ AttemptsOf \in 0 .. MaxTries /\ AttemptsOf >= asked
        /\ worker \in Unsent => AttemptsOf >= 1
    <3>1. CASE ~late /\ ~expired /\ worker = "exited" /\ pipe \notin {NoMessage, Torn} /\ ~pipe.ok
      <4>1. pipe \in EnvelopeType /\ AttemptsOf = pipe.attempts
        BY <3>1 DEF CallTypeOK, AttemptsOf
      <4>2. pipe.attempts \in 0 .. 1 BY <4>1 DEF EnvelopeType
      <4> QED BY <3>1, <4>1, <4>2 DEF PipeOK, Unsent, CallTypeOK
    <3>2. CASE ~(~late /\ ~expired /\ worker = "exited" /\ pipe \notin {NoMessage, Torn} /\ ~pipe.ok)
      <4>1. AttemptsOf = attempt BY <3>2 DEF AttemptsOf
      <4> QED BY <4>1 DEF CallTypeOK, CountsOK
    <3> QED BY <3>1, <3>2
  <2>3. /\ result' \in ResultType /\ result' # NoMessage /\ result'.ok = AnswerTaken
        /\ result'.attempts = AttemptsOf /\ result'.late = late /\ result'.whole = whole
    BY <2>0, <2>1, <2>2, Concluded
  <2>4. CallTypeOK' BY <2>0, <2>3 DEF CallTypeOK
  <2>5. CountsOK' /\ RouteOK' BY <2>0 DEF CountsOK, RouteOK
  <2>6. PipeOK' /\ ResultOK' BY <2>0, <2>1, <2>2, <2>3 DEF PipeOK, ResultOK
  <2> QED BY <2>4, <2>5, <2>6
<1>6. CASE CleanUp
  <2>0. /\ caller = "cleanup" /\ caller' = "done" /\ route = "process" /\ timer' # "armed"
        /\ timer' \in {timer, "canceled"} /\ worker' = IF worker = "none" THEN "none" ELSE "reaped"
        /\ UNCHANGED <<route, attempt, pipe, expired, late, asked, whole, result>>
    BY <1>6 DEF CleanUp, Reap, CallTypeOK, RouteOK
  <2>1. CallTypeOK' BY <2>0 DEF CallTypeOK
  <2>2. CountsOK' /\ RouteOK' BY <2>0 DEF CountsOK, RouteOK, Unsent
  <2>3. PipeOK' /\ ResultOK' BY <2>0 DEF PipeOK, ResultOK, Unsent
  <2> QED BY <2>1, <2>2, <2>3
<1>7. CASE BeginRequest
  <2>0. /\ worker = "starting" /\ caller \in {"writing", "cleanup"} /\ route = "process"
        /\ caller' \in {"waiting", "cleanup"} /\ (caller' = "cleanup") = (caller = "cleanup")
        /\ asked = 0 /\ pipe = NoMessage
        /\ UNCHANGED <<route, attempt, timer, expired, late, asked, whole, result>>
    BY <1>7 DEF BeginRequest, CallTypeOK, RouteOK, PipeOK, CountsOK, Unsent
  <2>1. CASE worker' = "sending" /\ pipe' = pipe
    <3>1. CallTypeOK' BY <2>0, <2>1 DEF CallTypeOK
    <3>2. CountsOK' /\ RouteOK' BY <2>0, <2>1 DEF CountsOK, RouteOK, Unsent
    <3>3. PipeOK' /\ ResultOK' BY <2>0, <2>1 DEF PipeOK, ResultOK, Unsent
    <3> QED BY <3>1, <3>2, <3>3
  <2>2. CASE worker' = "leaving" /\ Emit(FALSE, 0, FALSE)
    <3>0. /\ pipe' \in EnvelopeType /\ pipe' # NoMessage /\ pipe'.ok = FALSE /\ pipe'.attempts = 0
      <4>1. 0 \in 0 .. 1 /\ FALSE \in BOOLEAN OBVIOUS
      <4> QED BY <2>2, <4>1, Emitted
    <3>1. CallTypeOK' BY <2>0, <2>2, <3>0 DEF CallTypeOK
    <3>2. CountsOK' /\ RouteOK' BY <2>0, <2>2 DEF CountsOK, RouteOK, Unsent
    <3>3. PipeOK' /\ ResultOK' BY <2>0, <2>2, <3>0 DEF PipeOK, ResultOK, Unsent
    <3> QED BY <3>1, <3>2, <3>3
  <2> QED BY <1>7, <2>1, <2>2 DEF BeginRequest
<1>8. CASE SendRequest
  <2>0. /\ worker = "sending" /\ worker' = "reading" /\ asked = 0 /\ asked' = 1 /\ attempt = 1
        /\ pipe = NoMessage /\ route = "process" /\ caller # "done" /\ caller # "start"
        /\ (result # NoMessage => result.attempts >= 1)
        /\ UNCHANGED <<route, caller, attempt, pipe, timer, expired, late, whole, result>>
    BY <1>8 DEF SendRequest, CallTypeOK, RouteOK, PipeOK, CountsOK, ResultOK, Unsent
  <2>1. CallTypeOK' BY <2>0 DEF CallTypeOK
  <2>2. CountsOK' /\ RouteOK' BY <2>0 DEF CountsOK, RouteOK, Unsent
  <2>3. PipeOK' /\ ResultOK' BY <2>0 DEF PipeOK, ResultOK, Unsent
  <2> QED BY <2>1, <2>2, <2>3
<1>9. ASSUME worker \in {"sending", "reading"}, worker' = "leaving", NEW b \in BOOLEAN, Emit(b, 1, b),
             whole' \in BOOLEAN, whole => whole', b => whole',
             UNCHANGED <<route, caller, attempt, timer, expired, late, asked, result>>
      PROVE CallInv'
  <2>0. /\ route = "process" /\ caller # "done" /\ caller # "start" /\ asked <= 1
    BY <1>9 DEF CallTypeOK, RouteOK, CountsOK
  <2>1. /\ pipe' \in EnvelopeType /\ pipe' # NoMessage /\ pipe'.ok = b /\ pipe'.attempts = 1
    BY <1>9, Emitted
  <2>2. CallTypeOK' BY <1>9, <2>1 DEF CallTypeOK
  <2>3. CountsOK' /\ RouteOK' BY <1>9, <2>0 DEF CountsOK, RouteOK, Unsent
  <2>4. PipeOK' /\ ResultOK' BY <1>9, <2>0, <2>1 DEF PipeOK, ResultOK, Unsent
  <2> QED BY <2>2, <2>3, <2>4
<1>10. CASE ReadFails
  BY <1>9, <1>10 DEF ReadFails, CallTypeOK
<1>11. CASE ReadEnds
  BY <1>9, <1>11 DEF ReadEnds, CallTypeOK
<1>12. ASSUME worker \notin {"none", "reaped"}, worker' \in {"exited", "killed"}, pipe' \in {pipe, Torn},
              pipe' = Torn => pipe # NoMessage,
              UNCHANGED <<route, caller, attempt, timer, expired, late, asked, whole, result>>
       PROVE CallInv'
  <2>1. CallTypeOK' BY <1>12 DEF CallTypeOK
  <2>2. CountsOK' /\ RouteOK' BY <1>12 DEF CountsOK, RouteOK, Unsent
  <2>3. PipeOK' /\ ResultOK' BY <1>12 DEF PipeOK, ResultOK, Unsent
  <2> QED BY <2>1, <2>2, <2>3
<1>13. CASE ExitWorker \/ TearPipe \/ WorkerDies
  BY <1>12, <1>13 DEF ExitWorker, TearPipe, WorkerDies
<1>14. CASE TryOnce
  <2>0. /\ route = "loop" /\ caller \in {"start", "pausing"} /\ result = NoMessage /\ worker = "none"
        /\ attempt \in 0 .. MaxTries /\ attempt < MaxTries /\ asked \in 0 .. attempt
        /\ UNCHANGED <<route, worker, pipe, timer, expired, late, whole>>
    BY <1>14 DEF TryOnce, CallTypeOK, RouteOK, CountsOK
  <2>1. CASE late
    <3>0. /\ result' \in ResultType /\ result' # NoMessage /\ result'.ok = FALSE
          /\ result'.attempts = attempt /\ caller' = "done" /\ attempt' = attempt /\ asked' = asked
      BY <1>14, <2>0, <2>1, Concluded DEF TryOnce
    <3>1. CallTypeOK' BY <2>0, <3>0 DEF CallTypeOK
    <3>2. CountsOK' /\ RouteOK' BY <2>0, <3>0 DEF CountsOK, RouteOK, Unsent
    <3>3. PipeOK' /\ ResultOK' BY <2>0, <3>0 DEF PipeOK, ResultOK, Unsent
    <3> QED BY <3>1, <3>2, <3>3
  <2>2. CASE ~late
    <3>0. /\ caller' = "trying" /\ attempt' = attempt + 1 /\ asked' = asked + 1 /\ result' = result
      BY <1>14, <2>2 DEF TryOnce
    <3>1. CallTypeOK' BY <2>0, <3>0 DEF CallTypeOK
    <3>2. CountsOK' /\ RouteOK' BY <2>0, <3>0 DEF CountsOK, RouteOK, Unsent
    <3>3. PipeOK' /\ ResultOK' BY <2>0, <3>0 DEF PipeOK, ResultOK, Unsent
    <3> QED BY <3>1, <3>2, <3>3
  <2> QED BY <2>1, <2>2
<1>15. ASSUME caller = "trying", caller' = "done", result' \in ResultType, result'.attempts = attempt,
              result'.ok => result'.whole /\ ~result'.late, whole' \in BOOLEAN, whole => whole',
              UNCHANGED <<route, attempt, worker, pipe, timer, expired, late, asked>>
       PROVE CallInv'
  <2>0. route = "loop" /\ worker = "none" /\ timer = "off" /\ result' # NoMessage
    BY <1>15 DEF CallTypeOK, RouteOK
  <2>1. CallTypeOK' BY <1>15, <2>0 DEF CallTypeOK
  <2>2. CountsOK' /\ RouteOK' BY <1>15, <2>0 DEF CountsOK, RouteOK, Unsent
  <2>3. PipeOK' /\ ResultOK' BY <1>15, <2>0 DEF PipeOK, ResultOK, CountsOK, Unsent
  <2> QED BY <2>1, <2>2, <2>3
<1>16. CASE Answered
  <2>1. /\ result' \in ResultType /\ result'.attempts = attempt /\ result'.ok = ~late
        /\ result'.late = late /\ result'.whole = TRUE
    BY <1>16 DEF Answered, CallTypeOK, ResultType
  <2> QED BY <1>15, <1>16, <2>1 DEF Answered, CallTypeOK
<1>17. ASSUME NEW b \in BOOLEAN, FailTry(b) PROVE CallInv'
  <2>0. /\ caller = "trying" /\ attempt \in 0 .. MaxTries /\ whole \in BOOLEAN
        /\ UNCHANGED <<route, attempt, worker, pipe, timer, expired, late, asked, whole>>
    BY <1>17 DEF FailTry, CallTypeOK
  <2>1. CASE caller' = "pausing" /\ attempt < MaxTries /\ result' = result
    <3>0. route = "loop" /\ worker = "none" /\ result = NoMessage
      BY <2>0 DEF CallTypeOK, RouteOK
    <3>1. CallTypeOK' BY <2>0, <2>1, <3>0 DEF CallTypeOK
    <3>2. CountsOK' /\ RouteOK' BY <2>0, <2>1, <3>0 DEF CountsOK, RouteOK, Unsent
    <3>3. PipeOK' /\ ResultOK' BY <2>0, <2>1, <3>0 DEF PipeOK, ResultOK
    <3> QED BY <3>1, <3>2, <3>3
  <2>2. CASE caller' = "done" /\ Conclude(FALSE, attempt)
    <3>0. result' \in ResultType /\ result'.ok = FALSE /\ result'.attempts = attempt
      BY <2>0, <2>2, Concluded
    <3> QED BY <1>15, <2>0, <2>2, <3>0
  <2> QED BY <1>17, <2>1, <2>2 DEF FailTry, MayRetry
<1>18. CASE UNCHANGED callVars
  <2> USE <1>18 DEF callVars
  <2>1. CallTypeOK' BY DEF CallTypeOK
  <2>2. CountsOK' /\ RouteOK' BY DEF CountsOK, RouteOK
  <2>3. PipeOK' /\ ResultOK' BY DEF PipeOK, ResultOK
  <2> QED BY <2>1, <2>2, <2>3
<1> QED
  BY <1>1, <1>2, <1>3, <1>4, <1>5, <1>6, <1>7, <1>8, <1>10, <1>11, <1>13, <1>14, <1>16, <1>17, <1>18
  DEF CallNext, CallerStep, AttemptEnds, WorkerStep

(* Whatever stalls, dies or is killed, and however many attempts there are: a   *)
(* call that is over tells of every request that may have reached the           *)
(* provider, returns only what was read to its end in time, and leaves no       *)
(* process behind (request_inference, request_json).                          *)
THEOREM CallSafeTheorem == CallSpec => []CallSafe
<1>1. CallInv => CallSafe
  BY DEF CallInv, CallSafe, AttemptsTold, OnlyWholeAndInTime, NobodyLeftBehind, ResultOK, RouteOK
<1>2. CallInv /\ [CallNext]_callVars => CallInv' BY CallStays
<1> QED BY CallAtFirst, <1>1, <1>2, PTL DEF CallSpec

-----------------------------------------------------------------------------
(* A close.  Once the pending orders were seen gone no entry is pending any     *)
(* more, so the position cannot be replaced; and but for the wait for the       *)
(* passive exit of this call, no passive exit works either.                   *)
Cleared == {"clear", "passive", "waiting", "settled", "residual", "market", "sent", "notTaken"}

StandsStill ==
  /\ qty + entryQty <= MaxQty
  /\ shutAt \in Cleared => entryQty = 0
  /\ shutAt \in Cleared \ {"clear"} => lifeNow = shutLife
  /\ shutAt \in Cleared \ {"waiting", "settled"} => passiveQty = 0

CloseInv == CloseTypeOK /\ StandsStill

(* Nothing is held and nobody closes at first. *)
LEMMA CloseAtFirst == CloseInit => CloseInv
<1> SUFFICES ASSUME CloseInit PROVE CloseInv
  OBVIOUS
<1>0. 0 \in 0 .. MaxQty /\ 0 \in 0 .. MaxLife /\ 0 \in 0 .. 0 /\ 0 + 0 <= MaxQty BY CloseAssumption
<1>1. CloseTypeOK BY <1>0 DEF CloseInit, CloseTypeOK
<1>2. StandsStill BY <1>0 DEF CloseInit, StandsStill, Cleared
<1> QED BY <1>1, <1>2 DEF CloseInv

(* The room left for the exchange shrinks with nothing. *)
LEMMA RoomStays ==
  ASSUME NEW q \in Nat, NEW e \in Nat, NEW r \in Nat, NEW f \in Nat,
         q + e <= MaxQty, r <= q, f <= e
  PROVE r + f <= MaxQty
BY CloseAssumption

(* What a call leaves when it returns. *)
LEMMA Returned ==
  ASSUME CloseInv, NEW value \in BOOLEAN, ReturnCall(value, journal'),
         journal' \in {"none", "submitted", "accepted", "unconfirmed", "confirmed", "flat_observed"},
         qty' = qty, lifeNow' = lifeNow, entryQty' \in {0, entryQty}, passiveQty' \in {0, passiveQty}
  PROVE CloseInv'
<1> USE CloseAssumption DEF CloseInv, CloseTypeOK, ReturnCall
<1>1. 0 \in 0 .. MaxQty /\ 0 \in 0 .. qty OBVIOUS
<1>2. CloseTypeOK'
  BY <1>1
<1>3. qty' + entryQty' <= MaxQty
  <2>1. /\ qty \in Nat /\ entryQty \in Nat /\ qty' \in Nat /\ entryQty' \in Nat
        /\ qty' <= qty /\ entryQty' <= entryQty
    BY <1>1
  <2> QED BY <2>1, RoomStays DEF StandsStill
<1>4. shutAt' = "idle" OBVIOUS
<1>5. StandsStill'
  BY <1>3, <1>4 DEF StandsStill, Cleared
<1> QED BY <1>2, <1>5

(* What a reduction leaves. *)
LEMMA Reduced ==
  ASSUME CloseTypeOK, NEW n \in 1 .. qty, Reduce(n)
  PROVE /\ qty' \in 0 .. MaxQty /\ qty' <= qty /\ passiveQty' \in 0 .. qty'
        /\ passiveQty' <= passiveQty
<1> USE CloseAssumption DEF CloseTypeOK, Reduce
<1>1. qty' = qty - n /\ qty \in Nat /\ MaxQty \in Nat /\ n \in Nat /\ passiveQty \in Nat
  OBVIOUS
<1>2. CASE n = qty BY <1>1, <1>2
<1>3. CASE n # qty /\ passiveQty > qty - n BY <1>1, <1>3
<1>4. CASE n # qty /\ ~(passiveQty > qty - n) BY <1>1, <1>4
<1> QED BY <1>2, <1>3, <1>4

(* A step of the exchange that opens no position and places no order. *)
LEMMA ExchangeStays ==
  ASSUME CloseInv, qty' \in 0 .. MaxQty, qty' <= qty, passiveQty' \in 0 .. qty', passiveQty' <= passiveQty,
         UNCHANGED <<lifeNow, entryQty, shutAt, call, journal, returned>>
  PROVE CloseInv'
<1> USE CloseAssumption DEF CloseInv, CloseTypeOK, call
<1>1. CloseTypeOK' OBVIOUS
<1>2. qty' + entryQty' <= MaxQty
  <2>1. /\ qty \in Nat /\ entryQty \in Nat /\ qty' \in Nat /\ entryQty' \in Nat
        /\ qty' <= qty /\ entryQty' <= entryQty
    OBVIOUS
  <2> QED BY <2>1, RoomStays DEF StandsStill
<1>3. passiveQty = 0 => passiveQty' = 0 OBVIOUS
<1>4. StandsStill' BY <1>2, <1>3 DEF StandsStill, Cleared
<1> QED BY <1>1, <1>4

(* Every step keeps what a close relies on. *)
LEMMA CloseStays == ASSUME CloseInv, [CloseNext]_closeVars PROVE CloseInv'
<1> USE CloseAssumption DEF CloseInv
<1>t. /\ qty \in 0 .. MaxQty /\ lifeNow \in 0 .. MaxLife /\ entryQty \in 0 .. MaxQty /\ passiveQty \in 0 .. qty
      /\ qty \in Nat /\ lifeNow \in Nat /\ entryQty \in Nat /\ passiveQty \in Nat
      /\ shutLife \in 0 .. MaxLife /\ shutQty \in 0 .. MaxQty
      /\ journal \in {"none", "submitted", "accepted", "unconfirmed", "confirmed", "flat_observed"}
  BY DEF CloseTypeOK
<1>1. ASSUME NEW a \in BOOLEAN, NEW b \in BOOLEAN, NEW c \in BOOLEAN, CancelPending(a, b, c)
      PROVE CloseInv'
  <2>0. /\ qty' = qty /\ lifeNow' = lifeNow /\ entryQty' \in {0, entryQty} /\ passiveQty' \in {0, passiveQty}
        /\ shutAt = "called"
    BY <1>1 DEF CancelPending
  <2>1. CASE c
    <3>1. GoOn("canceled") BY <1>1, <2>1 DEF CancelPending
    <3>2. CloseTypeOK' BY <1>t, <2>0, <3>1 DEF CloseTypeOK, GoOn, call
    <3>3. qty' + entryQty' <= MaxQty
      <4>1. qty' \in Nat /\ entryQty' \in Nat /\ qty' <= qty /\ entryQty' <= entryQty
        BY <1>t, <2>0
      <4> QED BY <1>t, <4>1, RoomStays DEF StandsStill
    <3>4. shutAt' = "canceled" BY <3>1 DEF GoOn
    <3>5. StandsStill' BY <3>3, <3>4 DEF StandsStill, Cleared
    <3> QED BY <3>2, <3>5
  <2>2. CASE ~c
    <3>1. ReturnCall(FALSE, journal) BY <1>1, <2>2 DEF CancelPending
    <3>2. ReturnCall(FALSE, journal') /\ journal' = journal BY <3>1 DEF ReturnCall
    <3> QED BY <1>t, <2>0, <3>2, Returned
  <2> QED BY <2>1, <2>2
<1>r. ASSUME NEW value \in BOOLEAN, UNCHANGED <<qty, lifeNow, pending>>,
             NEW s \in {"none", "submitted", "accepted", "unconfirmed", "confirmed", "flat_observed"},
             ReturnCall(value, s)
      PROVE CloseInv'
  <2>1. ReturnCall(value, journal') /\ journal' = s BY <1>r DEF ReturnCall
  <2> QED BY <1>r, <2>1, Returned DEF pending
<1>2. ASSUME NEW b \in BOOLEAN, ReadPendingAgain(b) PROVE CloseInv'
  <2>1. CASE b /\ ~StillPending
    <3>0. /\ qty' = qty /\ lifeNow' = lifeNow /\ entryQty' = entryQty /\ passiveQty' = passiveQty
          /\ shutAt = "canceled" /\ GoOn("clear")
      BY <1>2, <2>1 DEF ReadPendingAgain, pending
    <3>1. entryQty = 0 /\ passiveQty = 0 BY <1>t, <2>1 DEF StillPending
    <3>2. CloseTypeOK' BY <1>t, <3>0 DEF CloseTypeOK, GoOn, call
    <3>3. StandsStill' BY <1>t, <3>0, <3>1 DEF StandsStill, GoOn, call, Cleared
    <3> QED BY <3>2, <3>3
  <2>2. CASE ~(b /\ ~StillPending)
    BY <1>2, <1>r, <1>t, <2>2 DEF ReadPendingAgain
  <2> QED BY <2>1, <2>2
<1>s. ASSUME shutAt \in {"clear", "residual"}, shutAt' \in {"passive", "market"},
             UNCHANGED <<qty, lifeNow, pending, shutLife, profitable, known, returned>>,
             lifeNow = shutLife, shutQty' = qty, journal' = "submitted"
      PROVE CloseInv'
  <2>0. entryQty' = entryQty /\ passiveQty' = passiveQty BY <1>s DEF pending
  <2>1. CloseTypeOK' BY <1>s, <1>t, <2>0 DEF CloseTypeOK
  <2>2. StandsStill' BY <1>s, <1>t, <2>0 DEF StandsStill, Cleared
  <2> QED BY <2>1, <2>2
<1>3. ASSUME NEW b \in BOOLEAN, ReadPosition(b) PROVE CloseInv'
  <2>1. CASE b /\ qty # 0 /\ lifeNow = shutLife
    BY <1>3, <1>s, <2>1 DEF ReadPosition
  <2>2. CASE ~(b /\ qty # 0 /\ lifeNow = shutLife)
    BY <1>3, <1>r, <1>t, <2>2 DEF ReadPosition
  <2> QED BY <2>1, <2>2
<1>4. ASSUME NEW b \in BOOLEAN, PassiveOutcome(b) PROVE CloseInv'
  <2>1. CASE b /\ PassiveTerminal
    <3>0. /\ qty' = qty /\ lifeNow' = lifeNow /\ entryQty' = entryQty /\ passiveQty' = passiveQty
          /\ shutAt \in {"waiting", "settled"} /\ GoOn("residual") /\ passiveQty = 0
      BY <1>4, <2>1 DEF PassiveOutcome, pending, PassiveTerminal
    <3>2. CloseTypeOK' BY <1>t, <3>0 DEF CloseTypeOK, GoOn, call
    <3>3. StandsStill' BY <1>t, <3>0 DEF StandsStill, GoOn, call, Cleared
    <3> QED BY <3>2, <3>3
  <2>2. CASE ~(b /\ PassiveTerminal)
    BY <1>4, <1>r, <2>2 DEF PassiveOutcome
  <2> QED BY <2>1, <2>2
<1>5. ASSUME NEW b \in BOOLEAN, ReadResidual(b) PROVE CloseInv'
  <2>1. CASE b /\ qty # 0 /\ ~(lifeNow # shutLife \/ qty > shutQty)
    BY <1>5, <1>s, <2>1 DEF ReadResidual
  <2>2. CASE ~(b /\ qty # 0 /\ ~(lifeNow # shutLife \/ qty > shutQty))
    BY <1>5, <1>r, <2>2 DEF ReadResidual
  <2> QED BY <2>1, <2>2
<1>6. ASSUME NEW o \in {"ineligible", "rejected", "taken", "takenUnanswered", "unanswered"}, PlacePassive(o)
      PROVE CloseInv'
  <2>0. /\ shutAt = "passive" /\ qty' = qty /\ lifeNow' = lifeNow /\ entryQty' = entryQty
        /\ passiveQty' \in 0 .. qty
        /\ o \notin {"taken", "takenUnanswered"} => passiveQty' = 0
    BY <1>6, <1>t DEF PlacePassive
  <2>1. CASE o \in {"ineligible", "rejected", "taken"}
    <3>1. /\ GoOn(shutAt') /\ shutAt' \in {"market", "residual", "waiting"}
          /\ o = "taken" => shutAt' = "waiting"
      BY <1>6, <2>1 DEF PlacePassive, GoOn
    <3>2. CloseTypeOK' BY <1>t, <2>0, <3>1 DEF CloseTypeOK, GoOn, call
    <3>3. StandsStill' BY <1>t, <2>0, <2>1, <3>1 DEF StandsStill, GoOn, call, Cleared
    <3> QED BY <3>2, <3>3
  <2>2. CASE o \in {"takenUnanswered", "unanswered"}
    <3>1. ReturnCall(FALSE, "unconfirmed") BY <1>6, <2>2 DEF PlacePassive
    <3>0. 0 \in 0 .. MaxQty OBVIOUS
    <3>2. CloseTypeOK' BY <1>t, <2>0, <3>0, <3>1 DEF CloseTypeOK, ReturnCall
    <3>3. StandsStill' BY <1>t, <2>0, <3>1 DEF StandsStill, ReturnCall, Cleared
    <3> QED BY <3>2, <3>3
  <2> QED BY <2>1, <2>2
<1>7. ASSUME NEW a \in BOOLEAN, NEW b \in BOOLEAN, SettlePassive(a, b) PROVE CloseInv'
  <2>0. /\ shutAt = "waiting" /\ qty' = qty /\ lifeNow' = lifeNow /\ entryQty' = entryQty
        /\ passiveQty' \in {0, passiveQty}
    BY <1>7 DEF SettlePassive
  <2>1. CASE b
    <3>1. GoOn("settled") BY <1>7, <2>1 DEF SettlePassive
    <3>2. CloseTypeOK' BY <1>t, <2>0, <3>1 DEF CloseTypeOK, GoOn, call
    <3>3. StandsStill' BY <1>t, <2>0, <3>1 DEF StandsStill, GoOn, call, Cleared
    <3> QED BY <3>2, <3>3
  <2>2. CASE ~b
    <3>1. ReturnCall(FALSE, "unconfirmed") BY <1>7, <2>2 DEF SettlePassive
    <3>2. ReturnCall(FALSE, journal') /\ journal' = "unconfirmed" BY <3>1 DEF ReturnCall
    <3> QED BY <2>0, <3>2, Returned
  <2> QED BY <2>1, <2>2
<1>8. ASSUME NEW a \in BOOLEAN, NEW b \in BOOLEAN, SendMarket(a, b, FALSE) PROVE CloseInv'
  <2>0. /\ shutAt = "market" /\ shutAt' \in {"sent", "notTaken"} /\ (known' => shutAt' = "sent")
        /\ known' \in BOOLEAN /\ journal' \in {"accepted", "unconfirmed"}
        /\ UNCHANGED <<lifeNow, entryQty, shutLife, shutQty, profitable, returned>>
    BY <1>8 DEF SendMarket
  <2>1. qty' \in 0 .. MaxQty /\ qty' <= qty /\ passiveQty' \in 0 .. qty' /\ passiveQty' <= passiveQty
    <3>1. CASE a /\ qty > 0
      <4>1. PICK n \in 1 .. qty : Reduce(n) BY <1>8, <3>1 DEF SendMarket
      <4> QED BY <4>1, Reduced
    <3>2. CASE ~(a /\ qty > 0) BY <1>8, <1>t, <3>2 DEF SendMarket
    <3> QED BY <3>1, <3>2
  <2>2. CloseTypeOK' BY <1>t, <2>0, <2>1 DEF CloseTypeOK
  <2>3. qty' + entryQty' <= MaxQty
    <3>1. qty' \in Nat /\ entryQty' \in Nat /\ qty' <= qty /\ entryQty' <= entryQty
      BY <1>t, <2>0, <2>1
    <3> QED BY <1>t, <3>1, RoomStays DEF StandsStill
  <2>4. entryQty = 0 /\ lifeNow = shutLife /\ passiveQty = 0
    BY <2>0 DEF StandsStill, Cleared
  <2>5. passiveQty' = 0 BY <1>t, <2>1, <2>4
  <2>6. StandsStill' BY <2>0, <2>3, <2>4, <2>5 DEF StandsStill, Cleared
  <2> QED BY <2>2, <2>6
<1>9. ASSUME NEW a \in BOOLEAN, NEW b \in BOOLEAN, Look(a, b) PROVE CloseInv'
  <2>1. CASE a /\ (qty = 0 \/ lifeNow # shutLife)
    BY <1>9, <1>r, <2>1 DEF Look
  <2>2. CASE ~(a /\ (qty = 0 \/ lifeNow # shutLife))
    <3>1. /\ UNCHANGED <<qty, lifeNow, pending, shutAt, shutLife, shutQty, profitable, returned>>
          /\ shutAt \in {"sent", "notTaken"} /\ known' \in BOOLEAN /\ (known' => shutAt = "sent")
          /\ journal' \in {journal, "accepted"}
      BY <1>9, <2>2 DEF Look, CloseTypeOK
    <3>2. CloseTypeOK' BY <1>t, <3>1 DEF CloseTypeOK, pending
    <3>3. StandsStill' BY <3>1 DEF StandsStill, pending
    <3> QED BY <3>2, <3>3
  <2> QED BY <2>1, <2>2
<1>10. CASE GiveUp
  BY <1>10, <1>r DEF GiveUp
<1>11. CASE CloserDies
  BY <1>11, <1>r, <1>t DEF CloserDies
<1>12. ASSUME NEW n \in 1 .. MaxQty, PlaceEntry(n) PROVE CloseInv'
  <2>1. CloseTypeOK' BY <1>t, <1>12 DEF PlaceEntry, CloseTypeOK, call
  <2>2. StandsStill' BY <1>t, <1>12 DEF PlaceEntry, StandsStill, call, Cleared
  <2> QED BY <2>1, <2>2
<1>13. ASSUME NEW n \in 1 .. MaxQty, StopOut(n) PROVE CloseInv'
  BY <1>13, Reduced, ExchangeStays DEF StopOut
<1>14. CASE FillEntry
  <2>0. /\ shutAt \notin Cleared /\ qty' = qty + 1 /\ entryQty' = entryQty - 1 /\ entryQty > 0
        /\ qty + entryQty <= MaxQty /\ lifeNow' \in 0 .. MaxLife
    BY <1>14, <1>t DEF FillEntry, StandsStill
  <2>1. CloseTypeOK' BY <1>14, <1>t, <2>0 DEF FillEntry, CloseTypeOK, call
  <2>2. StandsStill' BY <1>14, <1>t, <2>0 DEF FillEntry, StandsStill, call, Cleared
  <2> QED BY <2>1, <2>2
<1>15. CASE FillPassive
  <2>1. qty' = qty - 1 /\ passiveQty' = passiveQty - 1 /\ passiveQty > 0
        /\ UNCHANGED <<lifeNow, entryQty, shutAt, call, journal, returned>>
    BY <1>15 DEF FillPassive
  <2>2. qty' \in 0 .. MaxQty /\ qty' <= qty /\ passiveQty' \in 0 .. qty' /\ passiveQty' <= passiveQty
    BY <1>t, <2>1
  <2> QED BY <2>1, <2>2, ExchangeStays
<1>16. ASSUME NEW l \in 1 .. MaxLife, NEW p \in BOOLEAN, StartClose(l, p) PROVE CloseInv'
  <2>0. 0 \in 0 .. MaxQty /\ l \in 0 .. MaxLife /\ l > 0 OBVIOUS
  <2>1. CloseTypeOK' BY <1>t, <1>16, <2>0 DEF StartClose, CloseTypeOK, pending
  <2>2. StandsStill' BY <1>t, <1>16 DEF StartClose, StandsStill, pending, Cleared
  <2> QED BY <2>1, <2>2
<1>17. CASE UNCHANGED closeVars
  <2>1. CloseTypeOK' BY <1>17 DEF closeVars, CloseTypeOK, call
  <2>2. StandsStill' BY <1>17 DEF closeVars, StandsStill, call
  <2> QED BY <2>1, <2>2
<1> QED
  BY <1>1, <1>2, <1>3, <1>4, <1>5, <1>6, <1>7, <1>8, <1>9, <1>10, <1>11, <1>12, <1>13, <1>14, <1>15, <1>16,
     <1>17 DEF CloseNext, CloseStep

(* The close knows where it stands in every reachable state. *)
LEMMA CloseInvariant == CloseSpec => []CloseInv
<1>1. CloseInv /\ [CloseNext]_closeVars => CloseInv' BY CloseStays
<1> QED BY CloseAtFirst, <1>1, PTL DEF CloseSpec

(* For positions and entries of any size, whatever fills, stops out or loses a   *)
(* reply between two steps: the market order of a close is sent beside no passive *)
(* exit and reduces only the position it was called for, and success means that   *)
(* this position is gone (close_execution.close).                              *)
THEOREM CloseHonestTheorem == CloseSpec => CloseHonest
<1>1. CloseInv => CloseTypeOK /\ NoMarketBesidePassive
  BY DEF CloseInv, StandsStill, Cleared, NoMarketBesidePassive
<1>2. CloseInv /\ [CloseNext]_closeVars => [shutAt = "market" /\ qty' < qty => lifeNow = shutLife]_closeVars
  BY DEF CloseInv, StandsStill, Cleared
<1>3. CloseInv /\ [CloseNext]_closeVars =>
        [shutAt # "idle" /\ shutAt' = "idle" /\ returned' => qty = 0 \/ lifeNow # shutLife]_closeVars
  <2> SUFFICES ASSUME CloseInv, CloseNext, shutAt # "idle", shutAt' = "idle", returned'
               PROVE qty = 0
    BY DEF closeVars
  <2> USE DEF ReturnCall, GoOn
  <2>1. ASSUME NEW a \in BOOLEAN, NEW b \in BOOLEAN, NEW c \in BOOLEAN, CancelPending(a, b, c) PROVE qty = 0
    BY <2>1 DEF CancelPending
  <2>2. ASSUME NEW b \in BOOLEAN, ReadPendingAgain(b) PROVE qty = 0 BY <2>2 DEF ReadPendingAgain
  <2>3. ASSUME NEW b \in BOOLEAN, ReadPosition(b) PROVE qty = 0 BY <2>3 DEF ReadPosition
  <2>4. ASSUME NEW b \in BOOLEAN, PassiveOutcome(b) PROVE qty = 0 BY <2>4 DEF PassiveOutcome
  <2>5. ASSUME NEW b \in BOOLEAN, ReadResidual(b) PROVE qty = 0 BY <2>5 DEF ReadResidual
  <2>6. ASSUME NEW o \in {"ineligible", "rejected", "taken", "takenUnanswered", "unanswered"}, PlacePassive(o)
        PROVE qty = 0
    BY <2>6 DEF PlacePassive
  <2>7. ASSUME NEW a \in BOOLEAN, NEW b \in BOOLEAN, SettlePassive(a, b) PROVE qty = 0
    BY <2>7 DEF SettlePassive
  <2>8. ASSUME NEW a \in BOOLEAN, NEW b \in BOOLEAN, SendMarket(a, b, FALSE) PROVE qty = 0
    BY <2>8 DEF SendMarket
  <2>9. ASSUME NEW a \in BOOLEAN, NEW b \in BOOLEAN, Look(a, b) PROVE qty = 0 BY <2>9 DEF Look
  <2>10. CASE GiveUp \/ CloserDies \/ FillEntry \/ FillPassive
    BY <2>10 DEF GiveUp, CloserDies, FillEntry, FillPassive
  <2>11. ASSUME NEW n \in 1 .. MaxQty, PlaceEntry(n) \/ StopOut(n) PROVE qty = 0
    BY <2>11 DEF PlaceEntry, StopOut
  <2>12. ASSUME NEW l \in 1 .. MaxLife, NEW p \in BOOLEAN, StartClose(l, p) PROVE qty = 0
    BY <2>12 DEF StartClose
  <2> QED BY <2>1, <2>2, <2>3, <2>4, <2>5, <2>6, <2>7, <2>8, <2>9, <2>10, <2>11, <2>12 DEF CloseNext, CloseStep
<1> QED BY CloseInvariant, <1>1, <1>2, <1>3, PTL
        DEF CloseSpec, CloseHonest, OnlyItsOwnPosition, SuccessMeansGone

-----------------------------------------------------------------------------
(* The monitor.  Numbers are of the account they are labelled with, and so are  *)
(* the local records unless the account changed meanwhile.                    *)
SnapOK(s) == s.account \in Account =>
  s.core = s.account /\ (s.crossed \/ s.local = s.account)

(* A live snapshot was published no earlier than the time of the cache says.   *)
CacheOK ==
  /\ cache \in Snapshot \cup {NoSnapshot} /\ cacheTime \in 0 .. hour
  /\ cache # NoSnapshot => /\ SnapOK(cache) /\ cache.published <= hour
                           /\ cache.status = "LIVE" => cacheTime <= cache.published

FileOK == file # NoSnapshot =>
  /\ file.snapshot \in Snapshot /\ file.at \in 0 .. hour /\ file.by \in 0 .. restarts
  /\ SnapOK(file.snapshot) /\ file.snapshot.core \in Account
  /\ file.at <= file.snapshot.published /\ file.snapshot.published <= hour

(* Whoever keeps the version of the binding keeps the account, while it lasts. *)
Bound(x) == x.account \in Account /\ x.since \in 0 .. generation
            /\ (x.since = generation => x.account = selected)

Frozen == {"core", "rest", "restPartial", "inject", "offline"}
ProducerOK ==
  /\ producer.at \in {"idle", "publish", "persist", "stamp"} \cup Frozen
  /\ producer.at \in Frozen =>
       /\ producer \in [at : Frozen, account : Account, since : 0 .. generation]
       /\ Bound(producer)
  /\ producer.at = "inject" => cache # NoSnapshot /\ cache.account = producer.account
  /\ producer.at = "publish" =>
       /\ Bound(producer) /\ producer.local \in Account /\ producer.whole \in BOOLEAN
       /\ producer.since = generation => producer.local = selected
  /\ producer.at = "persist" =>
       /\ cache \in Snapshot /\ SnapOK(cache)
       /\ cache.core \in Account /\ cache.published = hour
  /\ producer.at = "stamp" /\ cache # NoSnapshot /\ cache.status = "LIVE" => cache.published = hour

ReaderOK ==
  /\ reader.at \in {"idle", "begun", "cached", "check"}
  /\ reader.at # "idle" => Bound(reader)
  /\ reader.at \in {"cached", "check"} =>
       /\ reader.cached \in Snapshot /\ reader.cached # NoSnapshot
       /\ reader.cached.account = reader.account /\ SnapOK(reader.cached)
       /\ reader.cached.published <= hour
  /\ reader.at = "check" /\ reader.status = "LIVE" => reader.cached.status = "LIVE" /\ ~reader.tooOld

ClocksOK == selected \in Account /\ generation \in 0 .. MaxSwitches /\ hour \in 0 .. MaxClock
            /\ restarts \in 0 .. MaxRestarts

DashboardInv == ClocksOK /\ CacheOK /\ FileOK /\ ProducerOK /\ ReaderOK

(* Nothing is cached at first. *)
LEMMA DashboardAtFirst == DashboardInit => DashboardInv
<1> SUFFICES ASSUME DashboardInit PROVE DashboardInv
  OBVIOUS
<1> USE DashboardAssumption DEF DashboardInit
<1>0. 0 \in 0 .. MaxSwitches /\ 0 \in 0 .. MaxClock /\ 0 \in 0 .. MaxRestarts /\ 0 \in 0 .. 0 OBVIOUS
<1>1. ClocksOK BY <1>0 DEF ClocksOK
<1>2. CacheOK /\ FileOK BY <1>0 DEF CacheOK, FileOK
<1>3. producer.at = "idle" /\ reader.at = "idle" BY DEF NoProducer, NoReader
<1>4. ProducerOK /\ ReaderOK BY <1>3 DEF ProducerOK, ReaderOK, Frozen
<1> QED BY <1>1, <1>2, <1>4 DEF DashboardInv

(* What a refresh does to the cache, the file and itself leaves a request alone. *)
LEMMA ReaderRests ==
  ASSUME ReaderOK, ClocksOK, Publishing
  PROVE ReaderOK' /\ ClocksOK'
BY DEF ReaderOK, ClocksOK, Publishing, Outside, Bound

(* A refresh that goes on keeps the account it froze and the time it did. *)
LEMMA FrozenStep ==
  ASSUME ProducerOK, producer.at \in Frozen, NEW a \in Frozen, producer' = [producer EXCEPT !.at = a],
         a = "inject" => cache # NoSnapshot /\ cache.account = producer.account,
         UNCHANGED <<cache, selected, generation>>
  PROVE ProducerOK'
<1>1. PICK x \in [at : Frozen, account : Account, since : 0 .. generation] : x = producer
  BY DEF ProducerOK
<1>2. /\ producer' \in [at : Frozen, account : Account, since : 0 .. generation]
      /\ producer'.at = a /\ producer'.account = producer.account /\ producer'.since = producer.since
  BY <1>1
<1> QED BY <1>2 DEF ProducerOK, Bound, Frozen

(* A snapshot put together from bounded reads is a snapshot. *)
LEMMA SnapshotMade ==
  ASSUME NEW a \in Account \cup {NoAccount}, NEW c \in Account \cup {NoAccount},
         NEW l \in Account \cup {NoAccount}, NEW t \in {"LIVE", "PARTIAL", "STALE", "OFFLINE"},
         NEW x \in BOOLEAN, NEW h \in 0 .. MaxClock
  PROVE [account |-> a, core |-> c, local |-> l, status |-> t, crossed |-> x, published |-> h] \in Snapshot
BY DEF Snapshot

(* Every step keeps the labels, the ages and the accounts apart. *)
LEMMA DashboardStays == ASSUME DashboardInv, [DashboardNext]_dashboardVars PROVE DashboardInv'
<1> USE DashboardAssumption DEF DashboardInv
<1>c. /\ selected \in Account /\ generation \in Nat /\ hour \in Nat /\ hour \in 0 .. MaxClock
      /\ generation \in 0 .. MaxSwitches /\ cacheTime \in Nat /\ cacheTime \in 0 .. hour
      /\ generation \in 0 .. generation
  BY DEF ClocksOK, CacheOK
<1>p. ASSUME NothingPublished, Publishing, ProducerOK' PROVE DashboardInv'
  <2>1. ReaderOK' /\ ClocksOK' BY <1>p, ReaderRests
  <2>2. CacheOK' /\ FileOK'
    BY <1>p DEF NothingPublished, Publishing, Outside, CacheOK, FileOK
  <2> QED BY <1>p, <2>1, <2>2
<1>1. CASE StartRefresh
  <2>1. producer'.at = "core" /\ producer' \in [at : Frozen, account : Account, since : 0 .. generation]
        /\ producer'.account = selected /\ producer'.since = generation
    BY <1>1, <1>c DEF StartRefresh, Frozen
  <2>2. UNCHANGED <<selected, generation, cache>> BY <1>1 DEF StartRefresh, NothingPublished, Publishing, Outside
  <2>3. ProducerOK' BY <1>c, <2>1, <2>2 DEF ProducerOK, Frozen, Bound
  <2> QED BY <1>1, <1>p, <2>3 DEF StartRefresh
<1>2. ASSUME NEW ok \in BOOLEAN, NEW orders \in BOOLEAN, ReadCore(ok, orders) PROVE DashboardInv'
  <2>1. PICK a \in Frozen : /\ producer' = [producer EXCEPT !.at = a]
                            /\ a = "inject" => cache # NoSnapshot /\ cache.account = producer.account
    BY <1>2 DEF ReadCore, Frozen, Own
  <2>2. UNCHANGED <<selected, generation, cache>> BY <1>2 DEF ReadCore, NothingPublished, Publishing, Outside
  <2>3. ProducerOK' BY <1>2, <2>1, <2>2, FrozenStep DEF ReadCore, Frozen
  <2> QED BY <1>2, <1>p, <2>3 DEF ReadCore
<1>3. CASE InjectLocal
  <2>0. /\ producer.at = "inject" /\ producer'.at = "stamp" /\ Publishing /\ UNCHANGED <<cacheTime, file>>
        /\ UNCHANGED <<selected, generation, hour, restarts, reader>>
    BY <1>3 DEF InjectLocal, Publishing, Outside
  <2>1. /\ cache \in Snapshot /\ cache # NoSnapshot /\ cache.account = producer.account
        /\ Bound(producer) /\ SnapOK(cache) /\ cache.published <= hour
    BY <2>0 DEF ProducerOK, CacheOK, Frozen
  <2>2. PICK x \in Snapshot : x = cache BY <2>1
  <2>3. /\ cache' \in Snapshot /\ cache'.account = cache.account /\ cache'.core = cache.core
        /\ cache'.local = selected /\ cache'.status = "STALE" /\ cache'.published = cache.published
        /\ cache'.crossed = (cache.crossed \/ generation # producer.since)
    <3> DEFINE y == [x EXCEPT !.local = selected, !.status = "STALE",
                              !.crossed = @ \/ generation # producer.since]
    <3>1. cache' = y BY <1>3, <2>2 DEF InjectLocal
    <3>2. (x.crossed \/ generation # producer.since) \in BOOLEAN OBVIOUS
    <3>3. y \in Snapshot BY <1>c, <3>2 DEF Snapshot
    <3>4. /\ y.account = x.account /\ y.core = x.core /\ y.local = selected /\ y.status = "STALE"
          /\ y.published = x.published /\ y.crossed = (x.crossed \/ generation # producer.since)
      BY DEF Snapshot
    <3> QED BY <2>2, <3>1, <3>3, <3>4
  <2>4. SnapOK(cache)'
    BY <2>1, <2>3 DEF SnapOK, Bound
  <2>5. CacheOK' BY <2>0, <2>1, <2>3, <2>4 DEF CacheOK
  <2>6. FileOK' BY <2>0 DEF FileOK
  <2>7. ProducerOK' BY <2>0, <2>3 DEF ProducerOK, Frozen
  <2> QED BY <2>0, <2>5, <2>6, <2>7, ReaderRests
<1>4. CASE PublishOffline
  <2>0. /\ producer'.at = "stamp" /\ Publishing /\ UNCHANGED <<cacheTime, file>>
        /\ UNCHANGED <<selected, generation, hour, restarts, reader>>
    BY <1>4 DEF PublishOffline, Publishing, Outside
  <2>1. /\ cache' \in Snapshot /\ cache'.account = NoAccount /\ cache'.status = "OFFLINE"
        /\ cache'.published = hour
    <3>1. cache' = [account |-> NoAccount, core |-> NoAccount, local |-> NoAccount, status |-> "OFFLINE",
                    crossed |-> FALSE, published |-> hour]
      BY <1>4 DEF PublishOffline, Offline
    <3> QED BY <1>c, <3>1, SnapshotMade
  <2>2. CacheOK' BY <1>c, <2>0, <2>1 DEF CacheOK, SnapOK
  <2>3. FileOK' BY <2>0 DEF FileOK
  <2>4. ProducerOK' BY <2>0, <2>1 DEF ProducerOK, Frozen
  <2> QED BY <2>0, <2>2, <2>3, <2>4, ReaderRests
<1>5. ASSUME NEW ok \in BOOLEAN, ReadRest(ok) PROVE DashboardInv'
  <2>0. /\ producer.at \in Frozen /\ UNCHANGED <<selected, generation, cache>>
        /\ producer'.at = "publish" /\ producer'.account = producer.account
        /\ producer'.since = producer.since /\ producer'.local = selected /\ producer'.whole \in BOOLEAN
    BY <1>5 DEF ReadRest, NothingPublished, Publishing, Outside, Frozen
  <2>1. ProducerOK' BY <1>c, <2>0 DEF ProducerOK, Bound, Frozen
  <2> QED BY <1>5, <1>p, <2>1 DEF ReadRest
<1>6. CASE PublishSnapshot
  <2>0. /\ producer.at = "publish" /\ producer'.at = "persist" /\ Publishing /\ UNCHANGED <<cacheTime, file>>
        /\ UNCHANGED <<selected, generation, hour, restarts, reader>>
    BY <1>6 DEF PublishSnapshot, Publishing, Outside
  <2>1. /\ Bound(producer) /\ producer.local \in Account
        /\ producer.since = generation => producer.local = selected
    BY <2>0 DEF ProducerOK
  <2>2. PICK t \in {"LIVE", "PARTIAL", "STALE", "OFFLINE"} :
          cache' = [account |-> producer.account, core |-> producer.account, local |-> producer.local,
                    status |-> t, crossed |-> generation # producer.since, published |-> hour]
    BY <1>6 DEF PublishSnapshot
  <2>3. (generation # producer.since) \in BOOLEAN OBVIOUS
  <2>4. /\ cache' \in Snapshot /\ cache'.account = producer.account /\ cache'.core = producer.account
        /\ cache'.local = producer.local /\ cache'.crossed = (generation # producer.since)
        /\ cache'.published = hour
    BY <1>c, <2>1, <2>2, <2>3, SnapshotMade DEF Bound
  <2>5. SnapOK(cache)' BY <2>1, <2>4 DEF SnapOK, Bound
  <2>6. CacheOK' BY <1>c, <2>0, <2>4, <2>5 DEF CacheOK
  <2>7. FileOK' BY <2>0 DEF FileOK
  <2>8. cache'.core \in Account BY <2>1, <2>4 DEF Bound
  <2>9. ProducerOK' BY <2>0, <2>4, <2>5, <2>8 DEF ProducerOK, Frozen
  <2> QED BY <2>0, <2>6, <2>7, <2>9, ReaderRests
<1>7. ASSUME NEW material \in BOOLEAN, Persist(material) PROVE DashboardInv'
  <2>0. /\ producer.at = "persist" /\ producer'.at = "stamp" /\ Publishing /\ UNCHANGED <<cache, cacheTime>>
        /\ UNCHANGED <<selected, generation, hour, restarts, reader>>
    BY <1>7 DEF Persist, Publishing, Outside
  <2>1. /\ cache \in Snapshot /\ cache.core \in Account /\ cache.published = hour
        /\ SnapOK(cache)
    BY <2>0 DEF ProducerOK
  <2>2. FileOK'
    <3>1. CASE file' = file BY <2>0, <3>1 DEF FileOK
    <3>2. CASE file' = [snapshot |-> cache, at |-> hour, by |-> restarts]
      <4>1. hour \in 0 .. hour /\ restarts \in 0 .. restarts BY <1>c DEF ClocksOK
      <4>2. file'.snapshot = cache /\ file'.at = hour /\ file'.by = restarts BY <3>2
      <4>3. SnapOK(file.snapshot)' BY <2>1, <4>2 DEF SnapOK
      <4> QED BY <1>c, <2>0, <2>1, <4>1, <4>2, <4>3 DEF FileOK
    <3> QED BY <1>7, <3>1, <3>2 DEF Persist
  <2>3. CacheOK' BY <2>0 DEF CacheOK, SnapOK
  <2>4. ProducerOK' BY <2>0, <2>1 DEF ProducerOK, Frozen
  <2> QED BY <2>0, <2>2, <2>3, <2>4, ReaderRests
<1>8. CASE Stamp
  <2>0. /\ producer.at = "stamp" /\ producer'.at = "idle" /\ Publishing /\ UNCHANGED <<cache, file>>
        /\ cacheTime' = hour /\ UNCHANGED <<selected, generation, hour, restarts, reader>>
    BY <1>8 DEF Stamp, Publishing, Outside, NoProducer
  <2>1. cache # NoSnapshot /\ cache.status = "LIVE" => cache.published = hour
    BY <2>0 DEF ProducerOK
  <2>2. CacheOK' BY <1>c, <2>0, <2>1 DEF CacheOK, SnapOK
  <2>3. FileOK' BY <2>0 DEF FileOK
  <2>4. ProducerOK' BY <2>0 DEF ProducerOK, Frozen
  <2> QED BY <2>0, <2>2, <2>3, <2>4, ReaderRests
<1>9. CASE RefreshFails
  <2>1. producer'.at = "idle" BY <1>9 DEF RefreshFails, NoProducer
  <2>2. ProducerOK' BY <2>1 DEF ProducerOK, Frozen
  <2> QED BY <1>9, <1>p, <2>2 DEF RefreshFails
<1>q. ASSUME NothingPublished, Outside, UNCHANGED producer, ReaderOK' PROVE DashboardInv'
  <2>1. CacheOK' /\ FileOK' BY <1>q DEF NothingPublished, Outside, CacheOK, FileOK
  <2>2. ProducerOK' /\ ClocksOK'
    BY <1>q DEF NothingPublished, Outside, ProducerOK, ClocksOK, Bound
  <2> QED BY <1>q, <2>1, <2>2
<1>10. CASE BeginAnswer
  <2>1. reader'.at = "begun" /\ reader'.account = selected /\ reader'.since = generation
        /\ UNCHANGED <<selected, generation, hour>>
    BY <1>10 DEF BeginAnswer, Outside
  <2>2. ReaderOK' BY <1>c, <2>1 DEF ReaderOK, Bound
  <2> QED BY <1>10, <1>q, <2>2 DEF BeginAnswer
<1>11. CASE TakeCached
  <2>0. UNCHANGED <<selected, generation, hour, cache>> BY <1>11 DEF TakeCached, Outside, NothingPublished
  <2>1. CASE Own(cache, reader.account)
    <3>1. /\ reader.at = "begun" /\ reader'.at = "cached" /\ reader'.account = reader.account
          /\ reader'.since = reader.since /\ reader'.cached = cache
      BY <1>11, <2>1 DEF TakeCached
    <3>2. /\ cache \in Snapshot /\ cache # NoSnapshot /\ cache.account = reader.account /\ SnapOK(cache)
          /\ cache.published <= hour
      BY <2>1 DEF Own, CacheOK
    <3>3. SnapOK(reader.cached)' BY <3>1, <3>2 DEF SnapOK
    <3>4. Bound(reader)' BY <2>0, <3>1 DEF ReaderOK, Bound
    <3>5. ReaderOK' BY <2>0, <3>1, <3>2, <3>3, <3>4 DEF ReaderOK
    <3> QED BY <1>11, <1>q, <3>5 DEF TakeCached
  <2>2. CASE ~Own(cache, reader.account)
    <3>1. reader'.at = "idle" BY <1>11, <2>2 DEF TakeCached, NoReader
    <3>2. ReaderOK' BY <3>1 DEF ReaderOK
    <3> QED BY <1>11, <1>q, <3>2 DEF TakeCached
  <2> QED BY <2>1, <2>2
<1>12. CASE LookAtAge
  <2>0. /\ reader.at = "cached" /\ reader'.at = "check" /\ reader'.account = reader.account
        /\ reader'.since = reader.since /\ reader'.cached = reader.cached
        /\ reader'.status = Said(reader.cached, hour - cacheTime)
        /\ reader'.tooOld = (hour - reader.cached.published > StaleAfter /\ cache = reader.cached)
        /\ UNCHANGED <<selected, generation, hour, cache>>
    BY <1>12 DEF LookAtAge, Outside, NothingPublished
  <2>1. /\ reader.cached \in Snapshot /\ reader.cached # NoSnapshot /\ reader.cached.account = reader.account
        /\ SnapOK(reader.cached) /\ reader.cached.published <= hour /\ Bound(reader)
    BY <2>0 DEF ReaderOK
  <2>2. SnapOK(reader.cached)' /\ Bound(reader)' BY <2>0, <2>1 DEF SnapOK, Bound
  <2>3. reader'.status = "LIVE" => reader.cached.status = "LIVE" /\ ~reader'.tooOld
    <3> SUFFICES ASSUME reader'.status = "LIVE" PROVE reader.cached.status = "LIVE" /\ ~reader'.tooOld
      OBVIOUS
    <3>1. hour - cacheTime <= StaleAfter /\ reader.cached.status = "LIVE"
      <4>1. ~(hour - cacheTime > StaleAfter) /\ reader.cached.status = "LIVE"
        BY <2>0 DEF Said
      <4>2. hour - cacheTime \in Int /\ StaleAfter \in Nat BY <1>c
      <4> QED BY <4>1, <4>2
    <3>2. ASSUME cache = reader.cached PROVE ~(hour - reader.cached.published > StaleAfter)
      <4>1. cacheTime <= cache.published BY <2>1, <3>1, <3>2 DEF CacheOK
      <4>2. cache.published \in 0 .. MaxClock BY <2>1, <3>2 DEF Snapshot
      <4>3. StaleAfter \in Nat /\ cache.published \in Nat BY <4>2
      <4> QED BY <1>c, <3>1, <3>2, <4>1, <4>3
    <3> QED BY <2>0, <3>1, <3>2
  <2>4. ReaderOK' BY <2>0, <2>1, <2>2, <2>3 DEF ReaderOK
  <2> QED BY <1>12, <1>q, <2>4 DEF LookAtAge
<1>13. CASE FinishAnswer
  <2>1. reader'.at = "idle" BY <1>13 DEF FinishAnswer, NoReader
  <2>2. ReaderOK' BY <2>1 DEF ReaderOK
  <2> QED BY <1>13, <1>q, <2>2 DEF FinishAnswer
<1>14. ASSUME NEW a \in Account, SelectAccount(a) PROVE DashboardInv'
  <2>0. /\ selected' = a /\ generation' = generation + 1 /\ generation < MaxSwitches
        /\ UNCHANGED <<hour, restarts, producer, reader, cache, cacheTime, file>>
    BY <1>14 DEF SelectAccount, NothingPublished
  <2>1. ClocksOK' BY <1>c, <2>0 DEF ClocksOK
  <2>2. CacheOK' /\ FileOK' BY <2>0 DEF CacheOK, FileOK, SnapOK
  <2>3. \A n \in 0 .. generation : n \in 0 .. generation' /\ n # generation' BY <1>c, <2>0
  <2>4. ASSUME producer.at \in Frozen
        PROVE producer' \in [at : Frozen, account : Account, since : 0 .. generation'] /\ Bound(producer)'
    <3>1. PICK x \in [at : Frozen, account : Account, since : 0 .. generation] : x = producer
      BY <2>4 DEF ProducerOK
    <3>2. x \in [at : Frozen, account : Account, since : 0 .. generation'] BY <2>3
    <3> QED BY <2>0, <2>3, <3>1, <3>2 DEF Bound
  <2>5. ProducerOK' BY <2>0, <2>3, <2>4 DEF ProducerOK, Bound, Frozen
  <2>6. ReaderOK' BY <2>0, <2>3 DEF ReaderOK, Bound, SnapOK
  <2> QED BY <2>1, <2>2, <2>5, <2>6
<1>15. CASE PassTime
  <2>0. /\ hour' = hour + 1 /\ hour < MaxClock /\ producer.at \notin {"persist", "stamp"}
        /\ UNCHANGED <<selected, generation, restarts, producer, reader, cache, cacheTime, file>>
    BY <1>15 DEF PassTime, NothingPublished
  <2>1. ClocksOK' BY <1>c, <2>0 DEF ClocksOK
  <2>2. CacheOK'
    <3>1. cacheTime' \in 0 .. hour' BY <1>c, <2>0
    <3>2. cache # NoSnapshot => cache.published <= hour'
      <4> SUFFICES ASSUME cache # NoSnapshot PROVE cache.published <= hour'
        OBVIOUS
      <4>1. cache.published \in Nat /\ cache.published <= hour BY DEF CacheOK, Snapshot
      <4> QED BY <1>c, <2>0, <4>1
    <3> QED BY <2>0, <3>1, <3>2 DEF CacheOK, SnapOK
  <2>3. FileOK'
    <3> SUFFICES ASSUME file # NoSnapshot PROVE FileOK'
      BY <2>0 DEF FileOK
    <3>1. file.at \in 0 .. hour /\ file.snapshot.published \in Nat /\ file.snapshot.published <= hour
      BY DEF FileOK, Snapshot
    <3>2. file.at \in 0 .. hour' /\ file.snapshot.published <= hour' BY <1>c, <2>0, <3>1
    <3> QED BY <2>0, <3>2 DEF FileOK, SnapOK
  <2>4. ProducerOK' BY <2>0 DEF ProducerOK, Bound
  <2>5. ReaderOK'
    <3>1. ASSUME reader.at \in {"cached", "check"} PROVE reader.cached.published <= hour'
      <4>1. reader.cached.published \in Nat /\ reader.cached.published <= hour
        BY <3>1 DEF ReaderOK, Snapshot
      <4> QED BY <1>c, <2>0, <4>1
    <3> QED BY <2>0, <3>1 DEF ReaderOK, Bound, SnapOK
  <2> QED BY <2>1, <2>2, <2>3, <2>4, <2>5
<1>16. CASE RestartMonitor
  <2>0. /\ restarts' = restarts + 1 /\ restarts < MaxRestarts /\ producer'.at = "idle" /\ reader'.at = "idle"
        /\ UNCHANGED <<selected, generation, hour, file>>
    BY <1>16 DEF RestartMonitor, NoProducer, NoReader
  <2>1. ClocksOK' BY <2>0 DEF ClocksOK
  <2>2. CacheOK'
    <3>1. CASE file = NoSnapshot
      <4>1. cache' = NoSnapshot /\ cacheTime' = 0 BY <1>16, <3>1 DEF RestartMonitor
      <4> QED BY <1>c, <2>0, <4>1 DEF CacheOK
    <3>2. CASE file # NoSnapshot
      <4>1. cache' = file.snapshot /\ cacheTime' = file.at BY <1>16, <3>2 DEF RestartMonitor
      <4>2. SnapOK(cache)' BY <3>2, <4>1 DEF FileOK, SnapOK
      <4> QED BY <2>0, <3>2, <4>1, <4>2 DEF CacheOK, FileOK
    <3> QED BY <3>1, <3>2
  <2>3. FileOK'
    <3>1. \A n \in 0 .. restarts : n \in 0 .. restarts' BY <2>0 DEF ClocksOK
    <3> QED BY <2>0, <3>1 DEF FileOK, SnapOK
  <2>4. ProducerOK' /\ ReaderOK' BY <2>0 DEF ProducerOK, ReaderOK, Frozen
  <2> QED BY <2>1, <2>2, <2>3, <2>4
<1>17. CASE UNCHANGED dashboardVars
  BY <1>17 DEF dashboardVars, ClocksOK, CacheOK, FileOK, ProducerOK, ReaderOK, Bound, SnapOK
<1> QED
  BY <1>1, <1>2, <1>3, <1>4, <1>5, <1>6, <1>7, <1>8, <1>9, <1>10, <1>11, <1>12, <1>13, <1>14, <1>15, <1>16,
     <1>17 DEF DashboardNext

(* For any number of accounts, switches and restarts, and any age from which an  *)
(* answer is stale: an answer is of one account, the one that is selected when   *)
(* it is given, what it says to be live is no older than that, and the file only *)
(* holds numbers that were read (monitoring_snapshot, _update_cache_cycle).           *)
THEOREM DashboardSafeTheorem == DashboardSpec => []DashboardSafe
<1>1. DashboardInv => DashboardSafe
  <2> SUFFICES ASSUME DashboardInv PROVE DashboardSafe
    OBVIOUS
  <2>1. DashboardTypeOK
    BY DEF DashboardInv, DashboardTypeOK, ClocksOK, CacheOK, FileOK, ProducerOK, ReaderOK, Frozen
  <2>2. AnswersForOneAccount
    BY DEF DashboardInv, AnswersForOneAccount, Answering, SameBinding, ReaderOK, Bound, SnapOK, ClocksOK
  <2>3. LiveIsFresh /\ FileHoldsNumbers
    BY DEF DashboardInv, LiveIsFresh, Answering, ReaderOK, FileHoldsNumbers, FileOK
  <2> QED BY <2>1, <2>2, <2>3 DEF DashboardSafe
<1>2. DashboardInv /\ [DashboardNext]_dashboardVars => DashboardInv' BY DashboardStays
<1> QED BY DashboardAtFirst, <1>1, <1>2, PTL DEF DashboardSpec
-----------------------------------------------------------------------------
(* The file of models.  What a request works on is sound by itself: it can be      *)
(* written whole at any time, over whatever others wrote.                       *)
ProviderRecord == [there : BOOLEAN, key : Key, own : [ModelId -> Key], models : SUBSET ModelId]
Cfg == [active : Model, flat : SUBSET (Provider \X ModelId \X Key), providers : [Provider -> ProviderRecord]]
Connection == [url : Provider, key : Key, model : ModelId]
Form == [op : {"provider"}, p : Provider, k : Key]
        \cup [op : {"model", "settings"}, p : Provider, m : ModelId, k : Key]
        \cup [op : {"toggle", "clear", "delete"}, p : Provider]
        \cup [op : {"deleteModel", "activate"}, p : Provider, m : ModelId]
        \cup [op : {"read"}]

(* A key at home: given for its provider, and not one of a settings form that is *)
(* still on its way, whose provider is not settled.                            *)
HomeKey(k, p, given, unsettled) == k # 0 => k \in 1 .. Len(given) /\ given[k] = p /\ k \notin unsettled

Homely(cfg, given, unsettled) ==
  /\ \A p \in Custom : /\ HomeKey(cfg.providers[p].key, p, given, unsettled)
                       /\ \A m \in ModelId : HomeKey(cfg.providers[p].own[m], p, given, unsettled)
  /\ \A e \in cfg.flat : e[1] \in Custom => HomeKey(e[3], e[1], given, unsettled)

(* The models a configuration knows, before and after it is read. *)
Defined(cfg) == {x \in Model : cfg.providers[x[1]].there /\ x[2] \in cfg.providers[x[1]].models}
Known(cfg) == Defined(cfg) \cup Named(cfg.flat)

Sound(cfg, given, unsettled, s, f) ==
  cfg \in Cfg /\ Homely(cfg, given, unsettled) /\ cfg.active \in s /\ cfg.active \in Known(cfg) \cup f

Rotated(cfg) ==
  \A e \in cfg.flat :
    LET r == cfg.providers[e[1]]
    IN r.there /\ e[2] \in r.models => e[3] = OwnOrProviders(r, e[2])

-----------------------------------------------------------------------------
(* Keys at home stay there when pending keys are settled or new ones given. *)
LEMMA SoundStays ==
  ASSUME NEW cfg, NEW g, NEW g2, NEW pend, NEW pend2, NEW s, NEW s2, NEW f, NEW f2,
         Sound(cfg, g, pend, s, f), s \subseteq s2, f \subseteq f2,
         \A k, p : HomeKey(k, p, g, pend) => HomeKey(k, p, g2, pend2)
  PROVE  Sound(cfg, g2, pend2, s2, f2)
BY DEF Sound, Homely

(* Reading keeps a configuration sound: the environment's key goes to the built-in one only. *)
LEMMA NormalFields ==
  ASSUME NEW cfg \in Cfg, NEW s \in Connection
  PROVE  /\ Normal(cfg, s) \in Cfg
         /\ Normal(cfg, s).active = cfg.active
         /\ \A p \in Custom : Normal(cfg, s).providers[p] = cfg.providers[p]
         /\ Normal(cfg, s).flat = FlatView(Local(Normal(cfg, s).providers), cfg.flat)
         /\ Local(Normal(cfg, s).providers) \subseteq Provider \X ModelId \X Key
<1> DEFINE N == Normal(cfg, s)
           H == Hydrated(cfg, s)
<1>1. NoProvider \in ProviderRecord
  BY RegistryAssumption DEF NoProvider, ProviderRecord, Key
<1>2. \A p \in Provider : Built(cfg, p) \in ProviderRecord
  BY <1>1 DEF Built, Cfg, ProviderRecord
<1>3. H \in [Provider -> ProviderRecord]
  <2>1. \A p \in Provider : [Built(cfg, p) EXCEPT !.key = s.key] \in ProviderRecord
    BY <1>2 DEF ProviderRecord, Connection
  <2> QED  BY <1>2, <2>1 DEF Hydrated
<1>4. \A p \in Provider, m \in ModelId : OwnOrProviders(H[p], m) \in Key
  BY <1>3 DEF OwnOrProviders, ProviderRecord
<1>5. Local(H) \subseteq Provider \X ModelId \X Key
  BY <1>4 DEF Local, Model
<1>6. FlatView(Local(H), cfg.flat) \subseteq Provider \X ModelId \X Key
  BY <1>5 DEF FlatView, Cfg
<1>7. N = [cfg EXCEPT !.providers = H, !.flat = FlatView(Local(H), cfg.flat)]
  BY DEF Normal
<1>8. N \in Cfg /\ N.active = cfg.active /\ N.providers = H /\ N.flat = FlatView(Local(H), cfg.flat)
  BY <1>3, <1>6, <1>7 DEF Cfg
<1>9. \A p \in Custom : H[p] = cfg.providers[p]
  BY RegistryAssumption DEF Hydrated, Built, Provider
<1> QED  BY <1>5, <1>8, <1>9

(* What reading makes of a configuration names the rotated key of every model. *)
LEMMA NormalRotated ==
  ASSUME NEW cfg \in Cfg, NEW s \in Connection
  PROVE  Rotated(Normal(cfg, s))
<1> DEFINE N == Normal(cfg, s)
<1>1. N \in Cfg /\ N.flat = FlatView(Local(N.providers), cfg.flat)
  BY NormalFields
<1> HIDE DEF N
<1>2. ASSUME NEW e \in N.flat, N.providers[e[1]].there, e[2] \in N.providers[e[1]].models
      PROVE  e[3] = OwnOrProviders(N.providers[e[1]], e[2])
  <2>1. e \in Provider \X ModelId \X Key
    BY <1>1 DEF Cfg
  <2>2. <<e[1], e[2]>> \in Model
    BY <2>1 DEF Model
  <2>3. <<e[1], e[2], OwnOrProviders(N.providers[e[1]], e[2])>> \in Local(N.providers)
    BY <1>2, <2>2 DEF Local
  <2>4. <<e[1], e[2]>> \in Named(Local(N.providers))
    BY <2>3 DEF Named
  <2>5. e \in Local(N.providers)
    BY <1>1, <2>4 DEF FlatView
  <2> QED  BY <2>5 DEF Local
<1> QED  BY <1>2 DEF Rotated, N

(* Reading a sound configuration gives a sound one. *)
LEMMA NormalSound ==
  ASSUME NEW cfg, NEW s \in Connection, NEW g, NEW pend, NEW sv, NEW f, Sound(cfg, g, pend, sv, f)
  PROVE  Sound(Normal(cfg, s), g, pend, sv, f)
<1> DEFINE N == Normal(cfg, s)
<1>1. cfg \in Cfg
  BY DEF Sound
<1>2. /\ N \in Cfg /\ N.active = cfg.active
      /\ \A p \in Custom : N.providers[p] = cfg.providers[p]
      /\ N.flat = FlatView(Local(N.providers), cfg.flat)
  BY <1>1, NormalFields
<1>9. N.providers = Hydrated(cfg, s)
  BY <1>1 DEF Normal, Cfg
<1> HIDE DEF N
<1>3. \A e \in Local(N.providers) : e[1] \in Custom => HomeKey(e[3], e[1], g, pend)
  <2> SUFFICES ASSUME NEW e \in Local(N.providers), e[1] \in Custom PROVE HomeKey(e[3], e[1], g, pend)
    OBVIOUS
  <2>1. PICK x \in Model : e = <<x[1], x[2], OwnOrProviders(N.providers[x[1]], x[2])>>
    BY DEF Local, Model
  <2>2. x[1] \in Custom /\ x[2] \in ModelId
    BY <2>1 DEF Model
  <2> QED  BY <1>2, <2>1, <2>2 DEF Sound, Homely, OwnOrProviders
<1>4. Homely(N, g, pend)
  BY <1>2, <1>3 DEF Sound, Homely, FlatView
<1>5. Defined(cfg) \subseteq Named(Local(N.providers))
  <2> SUFFICES ASSUME NEW x \in Defined(cfg) PROVE x \in Named(Local(N.providers))
    OBVIOUS
  <2>1. x \in Model /\ x[1] \in Provider /\ cfg.providers[x[1]].there /\ x[2] \in cfg.providers[x[1]].models
    BY DEF Defined, Model
  <2>2. N.providers[x[1]].there /\ x[2] \in N.providers[x[1]].models
    BY <1>1, <1>9, <2>1 DEF Hydrated, Built, Cfg, ProviderRecord
  <2>3. <<x[1], x[2], OwnOrProviders(N.providers[x[1]], x[2])>> \in Local(N.providers)
    BY <2>1, <2>2 DEF Local, Model
  <2> QED  BY <2>1, <2>3 DEF Named, Model
<1>6. Named(cfg.flat) \subseteq Named(N.flat)
  BY <1>2 DEF FlatView, Named
<1>7. Named(Local(N.providers)) \subseteq Named(N.flat)
  BY <1>2 DEF FlatView, Named
<1> QED  BY <1>2, <1>4, <1>5, <1>6, <1>7 DEF Sound, Known, N

(* What a change of one provider's record, of the flat list and of the selection  *)
(* must keep.                                                               *)
LEMMA EditSound ==
  ASSUME NEW cfg, NEW g, NEW pend, NEW s, NEW f, Sound(cfg, g, pend, s, f),
         NEW p \in Provider, NEW r \in ProviderRecord, NEW flat \in SUBSET (Provider \X ModelId \X Key),
         NEW a \in Model, NEW n,
         n = [active |-> a, flat |-> flat, providers |-> [cfg.providers EXCEPT ![p] = r]],
         p \in Custom => /\ HomeKey(r.key, p, g, pend)
                         /\ \A m \in ModelId : HomeKey(r.own[m], p, g, pend),
         \A e \in flat : e[1] \in Custom => e \in cfg.flat \/ HomeKey(e[3], e[1], g, pend),
         a \in s, a \in Known(n) \cup f
  PROVE  Sound(n, g, pend, s, f)
<1>1. n.active = a /\ n.flat = flat /\ n.providers = [cfg.providers EXCEPT ![p] = r]
  OBVIOUS
<1>2. cfg.providers \in [Provider -> ProviderRecord]
  BY DEF Sound, Cfg
<1>3. n \in Cfg
  BY <1>1, <1>2 DEF Cfg
<1>4. \A q \in Provider : n.providers[q] = IF q = p THEN r ELSE cfg.providers[q]
  BY <1>1, <1>2
<1>5. Homely(n, g, pend)
  BY <1>1, <1>4 DEF Sound, Homely, Provider
<1> QED  BY <1>1, <1>3, <1>5 DEF Sound

(* A record of configuration spelled out. *)
LEMMA CfgFields ==
  ASSUME NEW cfg \in Cfg
  PROVE  /\ cfg = [active |-> cfg.active, flat |-> cfg.flat, providers |-> cfg.providers]
         /\ cfg.active \in Model /\ cfg.flat \in SUBSET (Provider \X ModelId \X Key)
         /\ cfg.providers \in [Provider -> ProviderRecord]
         /\ \A p \in Provider : /\ cfg.providers[p] \in ProviderRecord
                                /\ cfg.providers = [cfg.providers EXCEPT ![p] = cfg.providers[p]]
BY DEF Cfg

(* Nothing that is known is forgotten when records only grow. *)
LEMMA KnownGrows ==
  ASSUME NEW cfg \in Cfg, NEW n,
         \A x \in Model : /\ cfg.providers[x[1]].there => n.providers[x[1]].there
                          /\ cfg.providers[x[1]].models \subseteq n.providers[x[1]].models,
         Named(cfg.flat) \subseteq Named(n.flat)
  PROVE  Known(cfg) \subseteq Known(n)
BY DEF Known, Defined

(* A provider is written: its key is the one the form gave, or stays. *)
LEMMA ProviderSound ==
  ASSUME NEW cfg, NEW g, NEW pend, NEW s, NEW f, Sound(cfg, g, pend, s, f),
         NEW p \in Provider, NEW k \in Key, HomeKey(k, p, g, pend)
  PROVE  Sound(WithProvider(cfg, p, k), g, pend, s, f)
<1> DEFINE old == cfg.providers[p]
           r == [old EXCEPT !.there = TRUE, !.key = IF k = 0 THEN @ ELSE k]
           n == WithProvider(cfg, p, k)
<1>1. cfg \in Cfg
  BY DEF Sound
<1>2. old \in ProviderRecord /\ cfg.flat \in SUBSET (Provider \X ModelId \X Key) /\ cfg.active \in Model
  BY <1>1, CfgFields
<1>3. r \in ProviderRecord /\ r.key = (IF k = 0 THEN old.key ELSE k) /\ r.own = old.own
      /\ r.there /\ r.models = old.models
  BY <1>2 DEF ProviderRecord
<1>4. n = [active |-> cfg.active, flat |-> cfg.flat, providers |-> [cfg.providers EXCEPT ![p] = r]]
  <2>1. n = [cfg EXCEPT !.providers = [@ EXCEPT ![p] = r]]
    BY DEF WithProvider
  <2> HIDE DEF r
  <2> QED  BY <1>1, <2>1 DEF Cfg
<1> HIDE DEF r, n
<1>5. \A q \in Provider : n.providers[q] = IF q = p THEN r ELSE cfg.providers[q]
  BY <1>1, <1>4, CfgFields
<1>6. Known(cfg) \subseteq Known(n)
  <2>1. Named(cfg.flat) \subseteq Named(n.flat)
    BY <1>4
  <2>2. \A x \in Model : /\ cfg.providers[x[1]].there => n.providers[x[1]].there
                        /\ cfg.providers[x[1]].models \subseteq n.providers[x[1]].models
    BY <1>3, <1>5 DEF Model
  <2> QED  BY <1>1, <2>1, <2>2, KnownGrows
<1>7. p \in Custom => /\ HomeKey(r.key, p, g, pend)
                      /\ \A m \in ModelId : HomeKey(r.own[m], p, g, pend)
  BY <1>3 DEF Sound, Homely
<1>8. cfg.active \in s /\ cfg.active \in Known(n) \cup f
  BY <1>6 DEF Sound
<1>9. Sound(n, g, pend, s, f)
  BY <1>2, <1>3, <1>4, <1>7, <1>8, EditSound
<1> QED  BY <1>9 DEF n

(* A model is written: the flat list has the key given, its provider's or the old. *)
LEMMA ModelSound ==
  ASSUME NEW cfg, NEW g, NEW pend, NEW s, NEW f, Sound(cfg, g, pend, s, f),
         NEW p \in Provider, NEW m \in ModelId, NEW k \in Key, HomeKey(k, p, g, pend)
  PROVE  Sound(WithModel(cfg, p, m, k), g, pend, s, f)
<1> DEFINE r0 == cfg.providers[p]
           old == {e \in cfg.flat : e[1] = p /\ e[2] = m}
           key == IF k # 0 THEN k
                  ELSE IF r0.key # 0 \/ old = {} THEN r0.key ELSE (CHOOSE e \in old : TRUE)[3]
           own == IF k = 0 THEN r0.own[m] ELSE IF k = r0.key THEN 0 ELSE k
           r == IF ~r0.there THEN r0
                ELSE [r0 EXCEPT !.models = @ \cup {m}, !.own = [@ EXCEPT ![m] = own]]
           flat == (cfg.flat \ old) \cup {<<p, m, key>>}
           n == WithModel(cfg, p, m, k)
<1>1. cfg \in Cfg
  BY DEF Sound
<1>2. r0 \in ProviderRecord /\ cfg.flat \in SUBSET (Provider \X ModelId \X Key) /\ cfg.active \in Model
  BY <1>1, CfgFields
<1>3. key \in Key /\ (p \in Custom => HomeKey(key, p, g, pend))
  <2>1. CASE k = 0 /\ r0.key = 0 /\ old # {}
    <3>1. PICK e \in old : e = CHOOSE x \in old : TRUE
      BY <2>1
    <3> QED  BY <1>2, <2>1, <3>1 DEF Sound, Homely
  <2>2. CASE k # 0 \/ r0.key # 0 \/ old = {}
    BY <1>2, <2>2 DEF Sound, Homely, ProviderRecord
  <2> QED  BY <2>1, <2>2
<1>4. own \in Key /\ (p \in Custom => HomeKey(own, p, g, pend))
  BY <1>2, RegistryAssumption DEF Sound, Homely, ProviderRecord, HomeKey, Key
<1>5. r \in ProviderRecord /\ r.key = r0.key /\ r.there = r0.there /\ r0.models \subseteq r.models
  BY <1>2, <1>4 DEF ProviderRecord
<1>6. \A x \in ModelId : r.own[x] = r0.own[x] \/ r.own[x] = own
  BY <1>2 DEF ProviderRecord
<1>7. n = [active |-> cfg.active, flat |-> flat, providers |-> [cfg.providers EXCEPT ![p] = r]]
  <2>1. n = [cfg EXCEPT !.flat = flat, !.providers = [@ EXCEPT ![p] = r]]
    BY DEF WithModel
  <2> HIDE DEF r, flat
  <2> QED  BY <1>1, <2>1 DEF Cfg
<1>8. flat \in SUBSET (Provider \X ModelId \X Key) /\ Named(cfg.flat) \subseteq Named(flat)
      /\ \A e \in flat : e[1] \in Custom => e \in cfg.flat \/ HomeKey(e[3], e[1], g, pend)
  <2>1. <<p, m, key>> \in flat /\ <<p, m>> \in Named(flat)
    <3>1. <<p, m, key>> \in flat
      OBVIOUS
    <3>2. <<p, m, key>>[1] = p /\ <<p, m, key>>[2] = m
      OBVIOUS
    <3> HIDE DEF flat, key
    <3> QED  BY <3>1, <3>2 DEF Named
  <2> HIDE DEF key
  <2>2. flat \in SUBSET (Provider \X ModelId \X Key)
    BY <1>2, <1>3
  <2>3. ASSUME NEW e \in cfg.flat PROVE <<e[1], e[2]>> \in Named(flat)
    <3>1. CASE e \in old
      <4>1. e[1] = p /\ e[2] = m
        BY <3>1
      <4> QED  BY <2>1, <4>1
    <3>2. CASE e \notin old
      <4>1. e \in flat
        BY <3>2
      <4> HIDE DEF flat
      <4> QED  BY <4>1 DEF Named
    <3> QED  BY <3>1, <3>2
  <2>4. \A e \in flat : e[1] \in Custom => e \in cfg.flat \/ HomeKey(e[3], e[1], g, pend)
    BY <1>3
  <2> QED  BY <2>2, <2>3, <2>4 DEF Named
<1> HIDE DEF r, n, flat, own
<1>9. \A q \in Provider : n.providers[q] = IF q = p THEN r ELSE cfg.providers[q]
  BY <1>1, <1>7, CfgFields
<1>10. Known(cfg) \subseteq Known(n)
  <2>1. Named(cfg.flat) \subseteq Named(n.flat)
    BY <1>7, <1>8
  <2>2. \A x \in Model : /\ cfg.providers[x[1]].there => n.providers[x[1]].there
                        /\ cfg.providers[x[1]].models \subseteq n.providers[x[1]].models
    BY <1>5, <1>9 DEF Model
  <2> QED  BY <1>1, <2>1, <2>2, KnownGrows
<1>11. p \in Custom => /\ HomeKey(r.key, p, g, pend)
                       /\ \A x \in ModelId : HomeKey(r.own[x], p, g, pend)
  BY <1>4, <1>5, <1>6 DEF Sound, Homely
<1>12. cfg.active \in s /\ cfg.active \in Known(n) \cup f
  BY <1>10 DEF Sound
<1>13. Sound(n, g, pend, s, f)
  BY <1>2, <1>5, <1>7, <1>8, <1>11, <1>12, EditSound
<1> QED  BY <1>13 DEF n

(* What is left of a provider that is not the one in use, when some of its models *)
(* or all are taken away: nothing of another's is touched.                     *)
LEMMA LessSound ==
  ASSUME NEW cfg, NEW g, NEW pend, NEW s, NEW f, Sound(cfg, g, pend, s, f),
         NEW p \in Provider, NEW r \in ProviderRecord, NEW gone \in SUBSET Model, NEW n,
         n = [active |-> cfg.active, flat |-> {e \in cfg.flat : <<e[1], e[2]>> \notin gone},
              providers |-> [cfg.providers EXCEPT ![p] = r]],
         r.key \in {0, cfg.providers[p].key},
         \A m \in ModelId : r.own[m] \in {0, cfg.providers[p].own[m]},
         \A x \in Model : (/\ x[1] = p /\ x \notin gone
                          /\ cfg.providers[p].there /\ x[2] \in cfg.providers[p].models)
                         => r.there /\ x[2] \in r.models,
         cfg.active \notin gone
  PROVE  Sound(n, g, pend, s, f)
<1> DEFINE flat == {e \in cfg.flat : <<e[1], e[2]>> \notin gone}
<1>1. cfg \in Cfg
  BY DEF Sound
<1>2. cfg.flat \in SUBSET (Provider \X ModelId \X Key) /\ cfg.active \in Model
  BY <1>1, CfgFields
<1>3. flat \in SUBSET (Provider \X ModelId \X Key) /\ flat \subseteq cfg.flat
  BY <1>2
<1>4. p \in Custom => /\ HomeKey(r.key, p, g, pend)
                      /\ \A m \in ModelId : HomeKey(r.own[m], p, g, pend)
  BY DEF Sound, Homely, HomeKey
<1>5. n = [active |-> cfg.active, flat |-> flat, providers |-> [cfg.providers EXCEPT ![p] = r]]
  OBVIOUS
<1>6. ASSUME cfg.active \in Named(cfg.flat) PROVE cfg.active \in Named(flat)
  <2>1. PICK e \in cfg.flat : cfg.active = <<e[1], e[2]>>
    BY <1>6 DEF Named
  <2>2. e \in flat
    BY <2>1
  <2> HIDE DEF flat
  <2> QED  BY <2>1, <2>2 DEF Named
<1> HIDE DEF flat
<1>7. \A q \in Provider : n.providers[q] = IF q = p THEN r ELSE cfg.providers[q]
  BY <1>1, <1>5, CfgFields
<1>8. ASSUME cfg.active \in Defined(cfg) PROVE cfg.active \in Defined(n)
  <2>1. cfg.active[1] \in Provider
    BY <1>2 DEF Model
  <2> QED  BY <1>2, <1>7, <1>8, <2>1 DEF Defined
<1>9. cfg.active \in s /\ cfg.active \in Known(n) \cup f
  <2>1. n.flat = flat
    BY <1>5
  <2>2. cfg.active \in s /\ cfg.active \in Defined(cfg) \cup Named(cfg.flat) \cup f
    BY DEF Sound, Known
  <2>3. cfg.active \in Defined(n) \cup Named(n.flat) \cup f
    BY <1>6, <1>8, <2>1, <2>2
  <2> QED  BY <2>2, <2>3 DEF Known
<1> QED  BY <1>2, <1>3, <1>4, <1>5, <1>9, EditSound

(* The definition of a provider that is not there. *)
LEMMA EmptyProvider == NoProvider \in ProviderRecord
BY RegistryAssumption DEF NoProvider, ProviderRecord, Key

(* A model, the models of a provider, or a provider may be taken away if it is not in use. *)
LEMMA WithoutSound ==
  ASSUME NEW cfg, NEW g, NEW pend, NEW s, NEW f, Sound(cfg, g, pend, s, f), NEW p \in Provider
  PROVE  /\ \A m \in ModelId : cfg.active # <<p, m>> => Sound(WithoutModel(cfg, p, m), g, pend, s, f)
         /\ cfg.active[1] # p => Sound(WithoutModels(cfg, p), g, pend, s, f)
         /\ cfg.active[1] # p => Sound(WithoutProvider(cfg, p), g, pend, s, f)
<1> DEFINE old == cfg.providers[p]
<1>1. cfg \in Cfg
  BY DEF Sound
<1>2. old \in ProviderRecord /\ cfg.flat \in SUBSET (Provider \X ModelId \X Key) /\ cfg.active \in Model
  BY <1>1, CfgFields
<1>3. NoProvider.own \in [ModelId -> Key] /\ (\A m \in ModelId : NoProvider.own[m] = 0) /\ NoProvider.key = 0
  BY EmptyProvider DEF NoProvider, ProviderRecord
<1>4. ASSUME NEW m \in ModelId, cfg.active # <<p, m>>
      PROVE  Sound(WithoutModel(cfg, p, m), g, pend, s, f)
  <2> DEFINE r == [old EXCEPT !.models = @ \ {m}, !.own[m] = 0]
             gone == {<<p, m>>}
             n == WithoutModel(cfg, p, m)
  <2>1. r \in ProviderRecord /\ r.key = old.key /\ r.there = old.there /\ r.models = old.models \ {m}
        /\ \A x \in ModelId : r.own[x] \in {0, old.own[x]}
    <3>1. [old.own EXCEPT ![m] = 0] \in [ModelId -> Key]
          /\ \A x \in ModelId : [old.own EXCEPT ![m] = 0][x] \in {0, old.own[x]}
      BY <1>2, RegistryAssumption DEF ProviderRecord, Key
    <3>2. r = [old EXCEPT !.models = old.models \ {m}, !.own = [old.own EXCEPT ![m] = 0]]
      OBVIOUS
    <3> HIDE DEF r
    <3> QED  BY <1>2, <3>1, <3>2 DEF ProviderRecord
  <2>2. {e \in cfg.flat : ~(e[1] = p /\ e[2] = m)} = {e \in cfg.flat : <<e[1], e[2]>> \notin gone}
    OBVIOUS
  <2>3. n = [cfg EXCEPT !.flat = {e \in cfg.flat : ~(e[1] = p /\ e[2] = m)},
                        !.providers = [cfg.providers EXCEPT ![p] = r]]
    BY DEF WithoutModel
  <2>4. gone \in SUBSET Model /\ cfg.active \notin gone
    BY <1>4 DEF Model
  <2>5. \A x \in Model : x[1] = p /\ x \notin gone => x[2] # m
    BY DEF Model
  <2> HIDE DEF r, n, gone
  <2>6. n = [active |-> cfg.active, flat |-> {e \in cfg.flat : <<e[1], e[2]>> \notin gone},
             providers |-> [cfg.providers EXCEPT ![p] = r]]
    BY <1>1, <2>2, <2>3 DEF Cfg
  <2>7. Sound(n, g, pend, s, f)
    BY <2>1, <2>4, <2>5, <2>6, LessSound
  <2> QED  BY <2>7 DEF n
<1>5. ASSUME cfg.active[1] # p PROVE Sound(WithoutModels(cfg, p), g, pend, s, f)
  <2> DEFINE r == [old EXCEPT !.models = {}, !.own = NoProvider.own]
             gone == {x \in Model : x[1] = p}
             n == WithoutModels(cfg, p)
  <2>1. r \in ProviderRecord /\ r.key = old.key
        /\ \A x \in ModelId : r.own[x] \in {0, old.own[x]}
    BY <1>2, <1>3 DEF ProviderRecord
  <2>2. {e \in cfg.flat : e[1] # p} = {e \in cfg.flat : <<e[1], e[2]>> \notin gone}
    BY <1>2 DEF Model
  <2>3. n = [cfg EXCEPT !.flat = {e \in cfg.flat : e[1] # p},
                        !.providers = [cfg.providers EXCEPT ![p] = r]]
    BY DEF WithoutModels
  <2>4. gone \in SUBSET Model /\ cfg.active \notin gone /\ \A x \in Model : x[1] = p => x \in gone
    BY <1>5
  <2> HIDE DEF r, n, gone
  <2>6. n = [active |-> cfg.active, flat |-> {e \in cfg.flat : <<e[1], e[2]>> \notin gone},
             providers |-> [cfg.providers EXCEPT ![p] = r]]
    BY <1>1, <2>2, <2>3 DEF Cfg
  <2>7. Sound(n, g, pend, s, f)
    BY <2>1, <2>4, <2>6, LessSound
  <2> QED  BY <2>7 DEF n
<1>6. ASSUME cfg.active[1] # p PROVE Sound(WithoutProvider(cfg, p), g, pend, s, f)
  <2> DEFINE gone == {x \in Model : x[1] = p}
             n == WithoutProvider(cfg, p)
  <2>2. {e \in cfg.flat : e[1] # p} = {e \in cfg.flat : <<e[1], e[2]>> \notin gone}
    BY <1>2 DEF Model
  <2>3. n = [cfg EXCEPT !.flat = {e \in cfg.flat : e[1] # p},
                        !.providers = [cfg.providers EXCEPT ![p] = NoProvider]]
    BY DEF WithoutProvider
  <2>4. gone \in SUBSET Model /\ cfg.active \notin gone /\ \A x \in Model : x[1] = p => x \in gone
    BY <1>6
  <2> HIDE DEF n, gone
  <2>6. n = [active |-> cfg.active, flat |-> {e \in cfg.flat : <<e[1], e[2]>> \notin gone},
             providers |-> [cfg.providers EXCEPT ![p] = NoProvider]]
    BY <1>1, <2>2, <2>3 DEF Cfg
  <2>7. Sound(n, g, pend, s, f)
    BY <1>3, <2>4, <2>6, EmptyProvider, LessSound
  <2> QED  BY <2>7 DEF n
<1> QED  BY <1>4, <1>5, <1>6

(* The settings form gives a key of its own to the provider in use; when it is     *)
(* written the key counts as that provider's.                                  *)
LEMMA SettingsSound ==
  ASSUME NEW cfg, NEW g, NEW pend, NEW s, NEW f, Sound(cfg, g, pend, s, f),
         NEW m \in ModelId, NEW k \in Key, HomeKey(k, cfg.active[1], g, pend),
         WithSettings(cfg, m, k).active \in s, WithSettings(cfg, m, k).active \in f
  PROVE  Sound(WithSettings(cfg, m, k), g, pend, s, f)
<1> DEFINE p == cfg.active[1]
           old == cfg.providers[p]
           key == IF k = 0 THEN old.key ELSE k
           r == [old EXCEPT !.key = key]
           n == WithSettings(cfg, m, k)
<1>1. cfg \in Cfg
  BY DEF Sound
<1>2. p \in Provider /\ old \in ProviderRecord /\ cfg.flat \in SUBSET (Provider \X ModelId \X Key)
  BY <1>1, CfgFields DEF Model
<1>3. CASE ~old.there
  BY <1>3 DEF WithSettings
<1>4. CASE old.there
  <2>1. r \in ProviderRecord /\ r.key = key /\ r.own = old.own
    BY <1>2 DEF ProviderRecord
  <2>2. n = [cfg EXCEPT !.active = <<p, m>>, !.providers = [cfg.providers EXCEPT ![p] = r]]
    BY <1>4 DEF WithSettings
  <2>3. p \in Custom => /\ HomeKey(r.key, p, g, pend)
                        /\ \A x \in ModelId : HomeKey(r.own[x], p, g, pend)
    BY <2>1 DEF Sound, Homely
  <2>4. <<p, m>> \in Model
    BY <1>2 DEF Model
  <2> HIDE DEF r, n, p
  <2>5. n = [active |-> <<p, m>>, flat |-> cfg.flat, providers |-> [cfg.providers EXCEPT ![p] = r]]
    BY <1>1, <2>2 DEF Cfg
  <2>6. n.active = <<p, m>> /\ n.active \in s /\ n.active \in f
    BY <2>5 DEF n
  <2>7. Sound(n, g, pend, s, f)
    BY <1>2, <2>1, <2>3, <2>4, <2>5, <2>6, EditSound
  <2> QED  BY <2>7 DEF n
<1> QED  BY <1>3, <1>4

(* A selection of a model that is known, with its credentials saved. *)
LEMMA ActivateSound ==
  ASSUME NEW cfg, NEW g, NEW pend, NEW s, NEW f, Sound(cfg, g, pend, s, f),
         NEW x \in Model, x \in Named(cfg.flat), x \in s
  PROVE  Sound([cfg EXCEPT !.active = x], g, pend, s, f)
<1> DEFINE n == [cfg EXCEPT !.active = x]
<1>1. n \in Cfg /\ n.active = x /\ n.flat = cfg.flat /\ n.providers = cfg.providers
  BY DEF Sound, Cfg
<1> HIDE DEF n
<1>2. Sound(n, g, pend, s, f)
  BY <1>1 DEF Sound, Homely, Known
<1> QED  BY <1>2 DEF n

-----------------------------------------------------------------------------
(* The inductive invariant.  Keys on forms are the forms' own; whatever a request  *)
(* works on is sound, so that it may be written whole at any time.             *)
KeyForms == {"provider", "model"}
Pending == {form[c].k : c \in {d \in Caller : form[d].op = "settings"}}

Holds(c) == phase[c] \in {"read", "commit"} \/ (phase[c] \in {"save", "env"} /\ form[c].op = "activate")

RegistryTyped ==
  /\ env \in Connection /\ settings \in Connection
  /\ givenFor \in Seq(Provider) /\ Len(givenFor) <= MaxKeys /\ saved \subseteq Model
  /\ phase \in [Caller -> {"idle", "open", "read", "save", "env", "commit"}]
  /\ form \in [Caller -> Form \cup {NoForm}]
  /\ DOMAIN working = Caller /\ working = [c \in Caller |-> working[c]]

FormOK(c) ==
  /\ phase[c] = "idle" <=> form[c] = NoForm
  /\ phase[c] \in {"save", "env"} => form[c].op \in {"activate", "settings"}
  /\ phase[c] = "commit" => form[c].op # "read" /\ ~RefusedBy(working[c], form[c])
  /\ phase[c] \in {"save", "env"} /\ form[c].op = "activate" => ~RefusedBy(working[c], form[c])
  /\ phase[c] = "commit" /\ form[c].op = "activate" => <<form[c].p, form[c].m>> \in saved
  /\ form[c].op \in KeyForms => HomeKey(form[c].k, form[c].p, givenFor, Pending)
  /\ form[c].op = "settings" => form[c].k <= Len(givenFor)

Apart(c, d) ==
  c # d /\ form[c].op = "settings" /\ form[d].op = "settings" /\ form[c].k = form[d].k => form[c].k = 0

SoundNow(cfg) == Sound(cfg, givenFor, Pending, saved, formed)

RegistryInv ==
  /\ RegistryTyped
  /\ SoundNow(registry)
  /\ \A c \in Caller : FormOK(c)
  /\ \A c, d \in Caller : Apart(c, d)
  /\ \A c \in Caller : Holds(c) => SoundNow(working[c]) /\ Rotated(working[c])

(* What a form is, by its operation. *)
LEMMA FormFields ==
  ASSUME NEW r \in Form
  PROVE  /\ r # NoForm
         /\ r.op \in {"provider", "model", "settings", "toggle", "clear", "delete", "deleteModel", "activate", "read"}
         /\ r.op \in {"provider", "model", "settings"} => r.p \in Provider /\ r.k \in Key
         /\ r.op \in {"model", "settings", "deleteModel", "activate"} => r.p \in Provider /\ r.m \in ModelId
         /\ r.op \in {"toggle", "clear", "delete"} => r.p \in Provider
BY DEF Form, NoForm

(* A change that is not refused keeps the configuration sound. *)
LEMMA ChangedSound ==
  ASSUME NEW cfg, NEW g, NEW pend, NEW s, NEW f, Sound(cfg, g, pend, s, f),
         NEW r \in Form, r.op \notin {"read", "settings"}, ~RefusedBy(cfg, r),
         r.op \in KeyForms => HomeKey(r.k, r.p, g, pend),
         r.op = "activate" => <<r.p, r.m>> \in s
  PROVE  Sound(Changed(cfg, r), g, pend, s, f)
<1>1. CASE r.op = "provider"
  BY <1>1, FormFields, ProviderSound DEF Changed, KeyForms
<1>2. CASE r.op = "model"
  BY <1>2, FormFields, ModelSound DEF Changed, KeyForms
<1>3. CASE r.op = "toggle"
  BY <1>3 DEF Changed
<1>4. CASE r.op = "deleteModel"
  BY <1>4, FormFields, WithoutSound DEF Changed, RefusedBy
<1>5. CASE r.op = "clear"
  BY <1>5, FormFields, WithoutSound DEF Changed, RefusedBy
<1>6. CASE r.op = "delete"
  BY <1>6, FormFields, WithoutSound DEF Changed, RefusedBy
<1>7. CASE r.op = "activate"
  BY <1>7, FormFields, ActivateSound DEF Changed, RefusedBy, Model
<1> QED  BY <1>1, <1>2, <1>3, <1>4, <1>5, <1>6, <1>7, FormFields

(* Keys at home stay there while forms only go and nothing is given. *)
LEMMA FewerPending ==
  ASSUME NEW g, NEW pend, NEW pend2, pend2 \subseteq pend
  PROVE  \A k, p : HomeKey(k, p, g, pend) => HomeKey(k, p, g, pend2)
BY DEF HomeKey

(* A new key touches none that is at home. *)
LEMMA KeyAppended ==
  ASSUME NEW g \in Seq(Provider), NEW q \in Provider, NEW pend, NEW pend2,
         pend2 \subseteq pend \cup {Len(g) + 1}
  PROVE  \A k, p : HomeKey(k, p, g, pend) => HomeKey(k, p, Append(g, q), pend2)
<1>1. Len(Append(g, q)) = Len(g) + 1 /\ Len(g) \in Nat
      /\ \A k \in 1 .. Len(g) : Append(g, q)[k] = g[k]
  OBVIOUS
<1> QED  BY <1>1 DEF HomeKey

(* The first provider is configured and in use. *)
LEMMA RegistryInitInv == RegistryInit => RegistryInv
<1> SUFFICES ASSUME RegistryInit PROVE RegistryInv
  OBVIOUS
<1>1. PICK p \in Custom, m \in ModelId :
        /\ registry = [active |-> <<p, m>>, flat |-> {<<p, m, 1>>},
                       providers |-> [q \in Provider |->
                         CASE q = p -> [NoProvider EXCEPT !.there = TRUE, !.key = 1, !.models = {m}]
                           [] q = OpenAI -> [NoProvider EXCEPT !.there = TRUE, !.models = {m}]
                           [] OTHER -> NoProvider]]
        /\ env = [url |-> p, key |-> 1, model |-> m] /\ settings = env
        /\ givenFor = <<p>> /\ saved = {<<p, m>>} /\ formed = {}
        /\ requests = 0 /\ phase = [c \in Caller |-> "idle"]
        /\ form = [c \in Caller |-> NoForm] /\ working = [c \in Caller |-> NoForm]
  BY DEF RegistryInit
<1>2. p \in Provider /\ p # OpenAI /\ <<p, m>> \in Model /\ {0, 1} \subseteq Key
  BY RegistryAssumption DEF Provider, Model, Key
<1> DEFINE R == [NoProvider EXCEPT !.there = TRUE, !.key = 1, !.models = {m}]
           O == [NoProvider EXCEPT !.there = TRUE, !.models = {m}]
<1>3. /\ R \in ProviderRecord /\ R.there /\ R.key = 1 /\ m \in R.models /\ \A x \in ModelId : R.own[x] = 0
      /\ O \in ProviderRecord
      /\ NoProvider \in ProviderRecord /\ NoProvider.key = 0 /\ \A x \in ModelId : NoProvider.own[x] = 0
  BY <1>2, EmptyProvider DEF ProviderRecord, NoProvider
<1>4. registry.providers = [q \in Provider |-> IF q = p THEN R ELSE IF q = OpenAI THEN O ELSE NoProvider]
      /\ registry.active = <<p, m>> /\ registry.flat = {<<p, m, 1>>}
  BY <1>1, <1>2
<1>5. Pending = {} /\ \A c \in Caller : form[c].op = "none"
  BY <1>1 DEF Pending, NoForm
<1> HIDE DEF R, O
<1>6. registry \in Cfg
  <2>1. registry.providers \in [Provider -> ProviderRecord]
    BY <1>3, <1>4
  <2> QED  BY <1>1, <1>2, <1>4, <2>1 DEF Cfg
<1>7. \A q \in Custom : q # OpenAI /\ q \in Provider
  BY RegistryAssumption DEF Provider
<1>8. HomeKey(0, p, givenFor, Pending) /\ \A q \in Custom : HomeKey(0, q, givenFor, Pending)
      /\ HomeKey(1, p, givenFor, Pending)
  BY <1>1, <1>5 DEF HomeKey
<1>9. Homely(registry, givenFor, Pending)
  <2>1. ASSUME NEW q \in Custom
        PROVE  /\ HomeKey(registry.providers[q].key, q, givenFor, Pending)
               /\ \A x \in ModelId : HomeKey(registry.providers[q].own[x], q, givenFor, Pending)
    <3>1. CASE q = p
      BY <1>2, <1>3, <1>4, <1>8, <3>1
    <3>2. CASE q # p
      BY <1>3, <1>4, <1>7, <1>8, <3>2
    <3> QED  BY <3>1, <3>2
  <2>2. \A e \in registry.flat : e[1] \in Custom => HomeKey(e[3], e[1], givenFor, Pending)
    BY <1>4, <1>8
  <2> QED  BY <2>1, <2>2 DEF Homely
<1>10. <<p, m>> \in Known(registry)
  BY <1>2, <1>3, <1>4 DEF Known, Defined
<1>11. SoundNow(registry)
  BY <1>1, <1>4, <1>6, <1>9, <1>10 DEF SoundNow, Sound
<1>12. RegistryTyped
  BY <1>1, <1>2, RegistryAssumption DEF RegistryTyped, Connection
<1>13. \A c \in Caller : FormOK(c) /\ ~Holds(c)
  BY <1>1, <1>5 DEF FormOK, Holds, KeyForms
<1> QED  BY <1>5, <1>11, <1>12, <1>13 DEF RegistryInv, Apart

(* The settings form selects a model of the provider in use. *)
LEMMA SettingsActive ==
  ASSUME NEW cfg \in Cfg, NEW m \in ModelId, NEW k \in Key
  PROVE  /\ WithSettings(cfg, m, k).active \in Model
         /\ WithSettings(cfg, m, k).active[1] = cfg.active[1] /\ cfg.active[1] \in Provider
BY DEF WithSettings, Cfg, Model

(* The key of a model that is known. *)
LEMMA KeyOfEntry ==
  ASSUME NEW cfg \in Cfg, NEW x, x \in Named(cfg.flat)
  PROVE  LET e == CHOOSE e \in cfg.flat : <<e[1], e[2]>> = x
         IN e \in cfg.flat /\ <<e[1], e[2]>> = x /\ (IF e[3] # 0 THEN e[3] ELSE cfg.providers[e[1]].key) \in Key
<1> DEFINE e == CHOOSE e \in cfg.flat : <<e[1], e[2]>> = x
<1>1. \E y \in cfg.flat : <<y[1], y[2]>> = x
  BY DEF Named
<1>2. e \in cfg.flat /\ <<e[1], e[2]>> = x
  BY <1>1
<1> HIDE DEF e
<1>3. e[3] \in Key /\ e[1] \in Provider
  BY <1>2 DEF Cfg
<1>4. cfg.providers[e[1]].key \in Key
  BY <1>3 DEF Cfg, ProviderRecord
<1> QED  BY <1>2, <1>3, <1>4 DEF e

(* Every step keeps the invariant. *)
LEMMA RegistryStep == RegistryInv /\ [RegistryNext]_registryVars => RegistryInv'
<1> SUFFICES ASSUME RegistryInv, [RegistryNext]_registryVars PROVE RegistryInv'
  OBVIOUS
<1>1. CASE UNCHANGED registryVars
  <2>1. UNCHANGED <<registry, env, settings, givenFor, saved, formed, phase, form, working>>
    BY <1>1 DEF registryVars
  <2>2. Pending' = Pending
    BY <2>1 DEF Pending
  <2> QED  BY <2>1, <2>2 DEF RegistryInv, RegistryTyped, SoundNow, FormOK, Apart, Holds
<1>2. ASSUME NEW c \in Caller,
        \/ \E p \in Provider, k \in Key : BeginProvider(c, p, k)
        \/ \E p \in Provider, m \in ModelId, k \in Key : BeginModel(c, p, m, k)
        \/ \E m \in ModelId, k \in Key : BeginSettings(c, m, k)
        \/ \E op \in {"toggle", "clear", "delete"}, p \in Provider : BeginChange(c, op, p)
        \/ \E op \in {"deleteModel", "activate"}, p \in Provider, m \in ModelId : BeginChoice(c, op, p, m)
        \/ BeginRead(c) \/ ReadRegistry(c) \/ WriteBack(c)
        \/ SaveSecret(c) \/ WriteEnv(c) \/ Commit(c) \/ AbandonRequest(c)
      PROVE  RegistryInv'
  <2> DEFINE Others == \A d \in Caller \ {c} : /\ form'[d] = form[d] /\ phase'[d] = phase[d]
                                               /\ working'[d] = working[d]
             KeysKept == /\ \A k, p : HomeKey(k, p, givenFor, Pending) => HomeKey(k, p, givenFor', Pending')
                         /\ Len(givenFor) <= Len(givenFor')
                         /\ saved \subseteq saved' /\ formed \subseteq formed'
             Mine == FormOK(c)' /\ ((Holds(c))' => (SoundNow(working[c]))' /\ (Rotated(working[c]))')
  <2>0. /\ RegistryTyped /\ SoundNow(registry) /\ registry \in Cfg
        /\ FormOK(c) /\ (Holds(c) => SoundNow(working[c]) /\ Rotated(working[c]) /\ working[c] \in Cfg)
        /\ env \in Connection /\ settings \in Connection /\ Len(givenFor) \in Nat
        /\ form[c] \in Form \cup {NoForm}
    BY DEF RegistryInv, RegistryTyped, SoundNow, Sound
  <2>1. ASSUME Others, KeysKept, Mine, RegistryTyped', (SoundNow(registry))',
               \A d \in Caller \ {c} : Apart(c, d)' /\ Apart(d, c)'
        PROVE  RegistryInv'
    <3>1. ASSUME NEW d \in Caller \ {c} 
          PROVE  FormOK(d)' /\ ((Holds(d))' => (SoundNow(working[d]))' /\ (Rotated(working[d]))')
      <4>1. form'[d] = form[d] /\ phase'[d] = phase[d] /\ working'[d] = working[d]
        BY <2>1
      <4>2. FormOK(d) /\ (Holds(d) => SoundNow(working[d]) /\ Rotated(working[d]))
        BY DEF RegistryInv
      <4>3. FormOK(d)'
        <5>1. form[d].op = "settings" => form[d].k \in Nat
          BY FormFields DEF RegistryInv, RegistryTyped, NoForm, Key
        <5>2. Len(givenFor) \in Nat /\ Len(givenFor') \in Nat
          BY <2>1 DEF RegistryInv, RegistryTyped
        <5> QED  BY <2>1, <4>1, <4>2, <5>1, <5>2 DEF FormOK
      <4>4. Holds(d)' = Holds(d)
        BY <4>1 DEF Holds
      <4>5. SoundNow(working[d]) => (SoundNow(working[d]))'
        BY <2>1, <4>1, SoundStays DEF SoundNow
      <4>6. (Rotated(working[d]))' <=> Rotated(working[d])
        BY <4>1 DEF Rotated
      <4> QED  BY <4>2, <4>3, <4>4, <4>5, <4>6
    <3>2. ASSUME NEW d \in Caller, NEW e \in Caller PROVE Apart(d, e)'
      <4>1. CASE d # c /\ e # c
        <5>1. Apart(d, e) /\ form'[d] = form[d] /\ form'[e] = form[e]
          BY <2>1, <4>1 DEF RegistryInv
        <5> QED  BY <5>1 DEF Apart
      <4>2. CASE d = c /\ e = c
        BY <4>2 DEF Apart
      <4> QED  BY <2>1, <4>1, <4>2
    <3> QED  BY <2>1, <3>1, <3>2 DEF RegistryInv
  <2>2. ASSUME EndRequest(c) 
        PROVE  /\ Others /\ FormOK(c)' /\ ~(Holds(c))' /\ Pending' \subseteq Pending
               /\ \A d \in Caller \ {c} : Apart(c, d)' /\ Apart(d, c)'
               /\ phase' \in [Caller -> {"idle", "open", "read", "save", "env", "commit"}]
               /\ form' \in [Caller -> Form \cup {NoForm}]
               /\ DOMAIN working' = Caller /\ working' = [d \in Caller |-> working'[d]]
    <3>1. phase' = [phase EXCEPT ![c] = "idle"] /\ form' = [form EXCEPT ![c] = NoForm]
          /\ working' = [working EXCEPT ![c] = NoForm]
      BY <2>2 DEF EndRequest
    <3>2. form'[c] = NoForm /\ phase'[c] = "idle" /\ NoForm.op = "none"
      BY <2>0, <3>1 DEF RegistryTyped, NoForm
    <3>3. Others
      BY <2>0, <3>1 DEF RegistryTyped
    <3>4. Pending' \subseteq Pending
      BY <3>2, <3>3 DEF Pending
    <3>5. FormOK(c)' /\ ~(Holds(c))' /\ \A d \in Caller \ {c} : Apart(c, d)' /\ Apart(d, c)'
      BY <3>2 DEF FormOK, Holds, Apart, KeyForms
    <3> QED  BY <2>0, <3>1, <3>3, <3>4, <3>5 DEF RegistryTyped
  <2>3. ASSUME NEW next \in {"idle", "open", "read", "save", "env", "commit"},
               phase' = [phase EXCEPT ![c] = next], UNCHANGED form
        PROVE  /\ \A d \in Caller \ {c} : form'[d] = form[d] /\ phase'[d] = phase[d]
               /\ phase'[c] = next /\ form'[c] = form[c] /\ Pending' = Pending
               /\ \A d \in Caller \ {c} : Apart(c, d)' /\ Apart(d, c)'
               /\ phase' \in [Caller -> {"idle", "open", "read", "save", "env", "commit"}]
               /\ form' \in [Caller -> Form \cup {NoForm}]
    <3>1. Pending' = Pending
      BY <2>3 DEF Pending
    <3>2. ASSUME NEW d \in Caller \ {c} PROVE Apart(c, d)' /\ Apart(d, c)'
      BY <2>3 DEF RegistryInv, Apart
    <3> QED  BY <2>0, <2>3, <3>1, <3>2 DEF RegistryTyped
  <2>4. ASSUME NEW r \in Form, Begin(c, r), settings' \in {settings, env}, NEW p \in Provider,
               \/ UNCHANGED givenFor /\ (r.op \in KeyForms \cup {"settings"} => r.k = 0)
               \/ /\ r.op \in KeyForms \cup {"settings"}
                  /\ r.k = Len(givenFor) + 1 /\ r.k <= MaxKeys /\ givenFor' = Append(givenFor, p)
                  /\ r.op \in KeyForms => p = r.p
        PROVE  RegistryInv'
    <3>1. /\ phase[c] = "idle" /\ form' = [form EXCEPT ![c] = r]
          /\ phase' = [phase EXCEPT ![c] = IF r.op = "settings" THEN "save" ELSE "open"]
          /\ UNCHANGED <<registry, env, saved, formed, working>>
      BY <2>4 DEF Begin
    <3>2. /\ form'[c] = r /\ form[c] = NoForm /\ form[c].op = "none"
          /\ phase'[c] = (IF r.op = "settings" THEN "save" ELSE "open") /\ phase'[c] # "idle"
          /\ \A d \in Caller \ {c} : form'[d] = form[d] /\ phase'[d] = phase[d] /\ working'[d] = working[d]
      BY <2>0, <3>1 DEF RegistryTyped, FormOK, NoForm
    <3>3. \A k \in Pending : k <= Len(givenFor)
      BY DEF RegistryInv, FormOK, Pending
    <3>4. Pending' = Pending \cup (IF r.op = "settings" THEN {r.k} ELSE {})
      BY <3>2 DEF Pending
    <3>5. /\ \A k, q : HomeKey(k, q, givenFor, Pending) => HomeKey(k, q, givenFor', Pending')
          /\ Len(givenFor) <= Len(givenFor')
          /\ givenFor' \in Seq(Provider) /\ Len(givenFor') <= MaxKeys
          /\ (r.op \in KeyForms \cup {"settings"} => r.k <= Len(givenFor'))
          /\ (r.op \in KeyForms => HomeKey(r.k, r.p, givenFor', Pending'))
      <4>1. CASE UNCHANGED givenFor /\ (r.op \in KeyForms \cup {"settings"} => r.k = 0)
        <5>1. \A k : k # 0 /\ k \notin Pending => k \notin Pending'
          BY <3>4, <4>1
        <5> QED  BY <2>0, <4>1, <5>1 DEF HomeKey, RegistryTyped
      <4>2. CASE /\ r.op \in KeyForms \cup {"settings"}
                 /\ r.k = Len(givenFor) + 1 /\ r.k <= MaxKeys /\ givenFor' = Append(givenFor, p)
                 /\ r.op \in KeyForms => p = r.p
        <5>1. givenFor \in Seq(Provider)
          BY <2>0 DEF RegistryTyped
        <5>2. /\ givenFor' \in Seq(Provider) /\ Len(givenFor') = Len(givenFor) + 1
              /\ givenFor'[Len(givenFor) + 1] = p
          BY <4>2, <5>1
        <5>3. \A k, q : HomeKey(k, q, givenFor, Pending) => HomeKey(k, q, givenFor', Pending')
          BY <3>4, <4>2, <5>1, KeyAppended
        <5>4. r.op \in KeyForms => r.k \notin Pending'
          BY <2>0, <3>3, <3>4, <4>2 DEF KeyForms
        <5> QED  BY <2>0, <4>2, <5>2, <5>3, <5>4 DEF HomeKey
      <4> QED  BY <2>4, <4>1, <4>2
    <3>6. Others /\ KeysKept
      BY <3>1, <3>2, <3>5
    <3>7. FormOK(c)' /\ ~(Holds(c))'
      BY <3>2, <3>5, FormFields DEF FormOK, Holds, NoForm
    <3>8. RegistryTyped'
      BY <2>0, <2>4, <3>1, <3>5 DEF RegistryTyped
    <3>9. (SoundNow(registry))'
      BY <2>0, <3>1, <3>6, SoundStays DEF SoundNow
    <3>10. ASSUME NEW d \in Caller \ {c} PROVE Apart(c, d)' /\ Apart(d, c)'
      <4>1. form[d].op = "settings" => form[d].k <= Len(givenFor)
        BY DEF RegistryInv, FormOK
      <4>2. form[d].op = "settings" => form[d].k \in Nat
        BY FormFields DEF RegistryInv, RegistryTyped, NoForm, Key
      <4> QED  BY <2>0, <2>4, <3>2, <4>1, <4>2 DEF Apart
    <3> HIDE DEF Others, KeysKept
    <3> QED  BY <2>1, <3>6, <3>7, <3>8, <3>9, <3>10
  <2>5. CASE \E p \in Provider, k \in Key : BeginProvider(c, p, k)
    <3>1. PICK p \in Provider, k \in Key : BeginProvider(c, p, k)
      BY <2>5
    <3> DEFINE r == [op |-> "provider", p |-> p, k |-> k]
    <3>2. r \in Form /\ r.op = "provider" /\ r.p = p /\ r.k = k
      BY DEF Form
    <3>3. Begin(c, r) /\ settings' = env /\ Give(k, p)
      BY <3>1 DEF BeginProvider, HandlerBegins
    <3> HIDE DEF r
    <3> QED  BY <2>4, <3>2, <3>3 DEF Give, KeyForms
  <2>6. CASE \E p \in Provider, m \in ModelId, k \in Key : BeginModel(c, p, m, k)
    <3>1. PICK p \in Provider, m \in ModelId, k \in Key : BeginModel(c, p, m, k)
      BY <2>6
    <3> DEFINE r == [op |-> "model", p |-> p, m |-> m, k |-> k]
    <3>2. r \in Form /\ r.op = "model" /\ r.p = p /\ r.k = k
      BY DEF Form
    <3>3. Begin(c, r) /\ settings' = env /\ Give(k, p)
      BY <3>1 DEF BeginModel, HandlerBegins
    <3> HIDE DEF r
    <3> QED  BY <2>4, <3>2, <3>3 DEF Give, KeyForms
  <2>7. CASE \E m \in ModelId, k \in Key : BeginSettings(c, m, k)
    <3>1. PICK m \in ModelId, k \in Key : BeginSettings(c, m, k)
      BY <2>7
    <3> DEFINE p == registry.active[1]
               r == [op |-> "settings", p |-> p, m |-> m, k |-> k]
    <3>2. p \in Provider
      BY <2>0, CfgFields DEF Model
    <3>3. r \in Form /\ r.op = "settings" /\ r.p = p /\ r.k = k
      BY <3>2 DEF Form
    <3>4. Begin(c, r) /\ settings' = env /\ Give(k, p)
      BY <3>1 DEF BeginSettings, HandlerBegins
    <3> HIDE DEF r, p
    <3> QED  BY <2>4, <3>2, <3>3, <3>4 DEF Give, KeyForms
  <2>8. CASE \E op \in {"toggle", "clear", "delete"}, p \in Provider : BeginChange(c, op, p)
    <3>1. PICK op \in {"toggle", "clear", "delete"}, p \in Provider : BeginChange(c, op, p)
      BY <2>8
    <3> DEFINE r == [op |-> op, p |-> p]
    <3>2. r \in Form /\ r.op \notin KeyForms \cup {"settings"}
      BY DEF Form, KeyForms
    <3>3. Begin(c, r) /\ settings' = env /\ UNCHANGED givenFor
      BY <3>1 DEF BeginChange, HandlerBegins
    <3> HIDE DEF r
    <3> QED  BY <2>4, <3>2, <3>3
  <2>9. CASE \E op \in {"deleteModel", "activate"}, p \in Provider, m \in ModelId : BeginChoice(c, op, p, m)
    <3>1. PICK op \in {"deleteModel", "activate"}, p \in Provider, m \in ModelId : BeginChoice(c, op, p, m)
      BY <2>9
    <3> DEFINE r == [op |-> op, p |-> p, m |-> m]
    <3>2. r \in Form /\ r.op \notin KeyForms \cup {"settings"}
      BY DEF Form, KeyForms
    <3>3. Begin(c, r) /\ settings' = env /\ UNCHANGED givenFor
      BY <3>1 DEF BeginChoice, HandlerBegins
    <3> HIDE DEF r
    <3> QED  BY <2>4, <3>2, <3>3
  <2>10. CASE BeginRead(c)
    <3> DEFINE r == [op |-> "read"]
    <3>1. r \in Form /\ r.op \notin KeyForms \cup {"settings"}
      BY DEF Form, KeyForms
    <3>2. Begin(c, r) /\ settings' = settings /\ UNCHANGED givenFor
      BY <2>10 DEF BeginRead
    <3>3. OpenAI \in Provider
      BY DEF Provider
    <3> HIDE DEF r
    <3> QED  BY <2>4, <3>1, <3>2, <3>3
  <2>11. CASE ReadRegistry(c)
    <3>1. PICK s \in {settings, env} : working' = [working EXCEPT ![c] = Normal(registry, s)]
      BY <2>11 DEF ReadRegistry
    <3>2. /\ phase[c] = "open" /\ phase' = [phase EXCEPT ![c] = "read"]
          /\ UNCHANGED <<registry, env, settings, givenFor, saved, formed, requests, form>>
      BY <2>11 DEF ReadRegistry
    <3>3. s \in Connection
      BY <2>0
    <3>4. SoundNow(Normal(registry, s)) /\ Rotated(Normal(registry, s))
      BY <2>0, <3>3, NormalSound, NormalRotated DEF SoundNow
    <3>5. /\ \A d \in Caller \ {c} : form'[d] = form[d] /\ phase'[d] = phase[d]
          /\ phase'[c] = "read" /\ form'[c] = form[c] /\ Pending' = Pending
          /\ \A d \in Caller \ {c} : Apart(c, d)' /\ Apart(d, c)'
          /\ phase' \in [Caller -> {"idle", "open", "read", "save", "env", "commit"}]
          /\ form' \in [Caller -> Form \cup {NoForm}]
      BY <2>3, <3>2
    <3>6. /\ working'[c] = Normal(registry, s) /\ \A d \in Caller \ {c} : working'[d] = working[d]
          /\ DOMAIN working' = Caller /\ working' = [d \in Caller |-> working'[d]]
      BY <2>0, <3>1 DEF RegistryTyped
    <3>7. (SoundNow(working[c]))' /\ (Rotated(working[c]))'
      BY <3>2, <3>4, <3>5, <3>6 DEF SoundNow, Rotated
    <3>8. FormOK(c)'
      BY <2>0, <3>2, <3>5 DEF FormOK
    <3>9. Others /\ KeysKept
      BY <2>0, <3>2, <3>5, <3>6
    <3>10. RegistryTyped' /\ (SoundNow(registry))'
      BY <2>0, <3>2, <3>5, <3>6 DEF RegistryTyped, SoundNow
    <3> HIDE DEF Others, KeysKept
    <3> QED  BY <2>1, <3>5, <3>7, <3>8, <3>9, <3>10
  <2>12. CASE WriteBack(c)
    <3>1. phase[c] = "read" /\ registry' = working[c] /\ UNCHANGED <<env, settings, givenFor, saved, formed, requests>>
      BY <2>12 DEF WriteBack
    <3>2. SoundNow(working[c]) /\ Rotated(working[c]) /\ working[c] \in Cfg
      BY <2>0, <3>1 DEF Holds
    <3>3. CASE form[c].op = "read" \/ RefusedBy(working[c], form[c])
      <4>1. EndRequest(c)
        BY <2>12, <3>3 DEF WriteBack
      <4>2. KeysKept
        BY <2>0, <2>2, <3>1, <4>1, FewerPending
      <4>3. (SoundNow(registry))'
        BY <3>1, <3>2, <4>2, SoundStays DEF SoundNow
      <4>4. RegistryTyped'
        BY <2>0, <2>2, <3>1, <4>1 DEF RegistryTyped
      <4> HIDE DEF Others, KeysKept
      <4> QED  BY <2>1, <2>2, <4>1, <4>2, <4>3, <4>4
    <3>4. CASE ~(form[c].op = "read" \/ RefusedBy(working[c], form[c]))
      <4> DEFINE next == IF form[c].op = "activate" THEN "save" ELSE "commit"
      <4>1. Proceed(c, next)
        BY <2>12, <3>4 DEF WriteBack
      <4>2. phase' = [phase EXCEPT ![c] = next] /\ UNCHANGED <<form, working>>
        BY <4>1 DEF Proceed
      <4>3. next \in {"save", "commit"}
        OBVIOUS
      <4>4. /\ \A d \in Caller \ {c} : form'[d] = form[d] /\ phase'[d] = phase[d]
            /\ phase'[c] = next /\ form'[c] = form[c] /\ Pending' = Pending
            /\ \A d \in Caller \ {c} : Apart(c, d)' /\ Apart(d, c)'
            /\ phase' \in [Caller -> {"idle", "open", "read", "save", "env", "commit"}]
            /\ form' \in [Caller -> Form \cup {NoForm}]
        BY <2>3, <4>2, <4>3
      <4>5. FormOK(c)'
        BY <2>0, <3>1, <3>4, <4>2, <4>4 DEF FormOK
      <4>6. Others /\ KeysKept
        BY <2>0, <3>1, <4>2, <4>4
      <4>7. RegistryTyped' /\ (SoundNow(registry))' /\ (SoundNow(working[c]))' /\ (Rotated(working[c]))'
        BY <2>0, <3>1, <3>2, <4>2, <4>4 DEF RegistryTyped, SoundNow, Rotated
      <4> HIDE DEF Others, KeysKept
      <4> QED  BY <2>1, <4>4, <4>5, <4>6, <4>7
    <3> QED  BY <3>3, <3>4
  <2>13. CASE SaveSecret(c)
    <3>1. /\ phase[c] = "save" /\ Proceed(c, "env")
          /\ env' = [env EXCEPT !.key = IF KeyToSave(c) = 0 THEN @ ELSE KeyToSave(c)]
          /\ UNCHANGED <<registry, settings, givenFor, saved, formed, requests>>
      BY <2>13 DEF SaveSecret
    <3>2. phase' = [phase EXCEPT ![c] = "env"] /\ UNCHANGED <<form, working>>
      BY <3>1 DEF Proceed
    <3>3. /\ \A d \in Caller \ {c} : form'[d] = form[d] /\ phase'[d] = phase[d]
          /\ phase'[c] = "env" /\ form'[c] = form[c] /\ Pending' = Pending
          /\ \A d \in Caller \ {c} : Apart(c, d)' /\ Apart(d, c)'
          /\ phase' \in [Caller -> {"idle", "open", "read", "save", "env", "commit"}]
          /\ form' \in [Caller -> Form \cup {NoForm}]
      BY <2>3, <3>2
    <3>4. form[c] \in Form /\ form[c].op \in {"activate", "settings"}
      BY <2>0, <3>1 DEF FormOK
    <3>5. KeyToSave(c) \in Key
      <4>1. CASE form[c].op = "settings"
        BY <3>4, <4>1, FormFields DEF KeyToSave
      <4>2. CASE form[c].op = "activate"
        <5>1. ~RefusedBy(working[c], form[c]) /\ working[c] \in Cfg
          BY <2>0, <3>1, <4>2 DEF FormOK, Holds
        <5>2. <<form[c].p, form[c].m>> \in Named(working[c].flat)
          BY <4>2, <5>1 DEF RefusedBy
        <5> QED  BY <4>2, <5>1, <5>2, KeyOfEntry DEF KeyToSave
      <4> QED  BY <3>4, <4>1, <4>2
    <3>6. env' \in Connection
      BY <2>0, <3>1, <3>5 DEF Connection
    <3>7. FormOK(c)'
      BY <2>0, <3>1, <3>2, <3>3, <3>4 DEF FormOK
    <3>8. Others /\ KeysKept
      BY <2>0, <3>1, <3>2, <3>3
    <3>9. RegistryTyped' /\ (SoundNow(registry))'
      BY <2>0, <3>1, <3>2, <3>3, <3>6 DEF RegistryTyped, SoundNow
    <3>10. (Holds(c))' => (SoundNow(working[c]))' /\ (Rotated(working[c]))'
      BY <2>0, <3>1, <3>2, <3>3 DEF Holds, SoundNow, Rotated
    <3> HIDE DEF Others, KeysKept
    <3> QED  BY <2>1, <3>3, <3>7, <3>8, <3>9, <3>10
  <2>14. CASE WriteEnv(c)
    <3> DEFINE next == IF form[c].op = "activate" THEN "commit" ELSE "open"
    <3>1. /\ phase[c] = "env" /\ Proceed(c, next) /\ settings' = env'
          /\ env' = [env EXCEPT !.url = IF form[c].op = "activate" THEN form[c].p ELSE @,
                                !.model = form[c].m]
          /\ saved' = saved \cup {<<form[c].p, form[c].m>>}
          /\ UNCHANGED <<registry, givenFor, formed, requests>>
      BY <2>14 DEF WriteEnv
    <3>2. phase' = [phase EXCEPT ![c] = next] /\ UNCHANGED <<form, working>> /\ next \in {"commit", "open"}
      BY <3>1 DEF Proceed
    <3>3. /\ \A d \in Caller \ {c} : form'[d] = form[d] /\ phase'[d] = phase[d]
          /\ phase'[c] = next /\ form'[c] = form[c] /\ Pending' = Pending
          /\ \A d \in Caller \ {c} : Apart(c, d)' /\ Apart(d, c)'
          /\ phase' \in [Caller -> {"idle", "open", "read", "save", "env", "commit"}]
          /\ form' \in [Caller -> Form \cup {NoForm}]
      BY <2>3, <3>2
    <3>4. form[c] \in Form /\ form[c].op \in {"activate", "settings"}
      BY <2>0, <3>1 DEF FormOK
    <3>5. form[c].p \in Provider /\ form[c].m \in ModelId
      BY <3>4, FormFields
    <3>6. env' \in Connection /\ saved' \subseteq Model
      <4>1. env' \in Connection
        BY <2>0, <3>1, <3>5 DEF Connection
      <4>2. <<form[c].p, form[c].m>> \in Model
        BY <3>5 DEF Model
      <4> QED  BY <2>0, <3>1, <4>1, <4>2 DEF RegistryTyped
    <3>7. FormOK(c)'
      BY <2>0, <3>1, <3>2, <3>3, <3>4 DEF FormOK
    <3>8. Others /\ KeysKept
      BY <2>0, <3>1, <3>2, <3>3
    <3>9. RegistryTyped'
      BY <2>0, <3>1, <3>2, <3>3, <3>6 DEF RegistryTyped
    <3>10. (SoundNow(registry))'
      BY <2>0, <3>1, <3>8, SoundStays DEF SoundNow
    <3>11. ASSUME (Holds(c))' PROVE (SoundNow(working[c]))' /\ (Rotated(working[c]))'
      <4>1. Holds(c)
        BY <3>1, <3>2, <3>3, <3>4, <3>11 DEF Holds
      <4>2. (SoundNow(working[c]))'
        BY <2>0, <3>2, <3>8, <4>1, SoundStays DEF SoundNow
      <4> QED  BY <2>0, <3>2, <4>1, <4>2 DEF Rotated
    <3> HIDE DEF Others, KeysKept
    <3> QED  BY <2>1, <3>3, <3>7, <3>8, <3>9, <3>10, <3>11
  <2>15. CASE AbandonRequest(c)
    <3>1. EndRequest(c) /\ UNCHANGED <<registry, env, settings, givenFor, saved, formed, requests>>
      BY <2>15 DEF AbandonRequest
    <3>2. KeysKept
      BY <2>0, <2>2, <3>1, FewerPending
    <3>3. (SoundNow(registry))'
      BY <2>0, <3>1, <3>2, SoundStays DEF SoundNow
    <3>4. RegistryTyped'
      BY <2>0, <2>2, <3>1 DEF RegistryTyped
    <3> HIDE DEF Others, KeysKept
    <3> QED  BY <2>1, <2>2, <3>1, <3>2, <3>3, <3>4
  <2>16. CASE Commit(c)
    <3>1. /\ phase[c] = "commit" /\ registry' = Changed(working[c], form[c]) /\ EndRequest(c)
          /\ UNCHANGED <<env, settings, requests>>
      BY <2>16 DEF Commit
    <3>2. SoundNow(working[c]) /\ working[c] \in Cfg /\ form[c] \in Form /\ form[c].op # "read"
          /\ ~RefusedBy(working[c], form[c])
      BY <2>0, <3>1 DEF Holds, FormOK
    <3>3. CASE form[c].op # "settings"
      <4>1. UNCHANGED <<saved, formed, givenFor>>
        BY <2>16, <3>3 DEF Commit
      <4>2. KeysKept
        BY <2>0, <2>2, <3>1, <4>1, FewerPending
      <4>3. SoundNow(Changed(working[c], form[c]))
        BY <2>0, <3>1, <3>2, <3>3, ChangedSound DEF SoundNow, FormOK
      <4>4. (SoundNow(registry))'
        BY <3>1, <4>2, <4>3, SoundStays DEF SoundNow
      <4>5. RegistryTyped'
        BY <2>0, <2>2, <3>1, <4>1 DEF RegistryTyped
      <4> HIDE DEF Others, KeysKept
      <4> QED  BY <2>1, <2>2, <3>1, <4>2, <4>4, <4>5
    <3>4. CASE form[c].op = "settings"
      <4> DEFINE k == form[c].k
                 p == working[c].active[1]
      <4>1. registry' = WithSettings(working[c], form[c].m, k) /\ form[c].m \in ModelId /\ k \in Key
        BY <3>1, <3>2, <3>4, FormFields DEF Changed
      <4>2. registry'.active \in Model /\ registry'.active[1] = p /\ p \in Provider
        BY <3>2, <4>1, SettingsActive
      <4>3. /\ saved' = saved \cup {registry'.active} /\ formed' = formed \cup {registry'.active}
            /\ givenFor' = [j \in DOMAIN givenFor |-> IF j = k THEN registry'.active[1] ELSE givenFor[j]]
        BY <2>16, <3>4 DEF Commit
      <4>4. /\ givenFor' \in Seq(Provider) /\ Len(givenFor') = Len(givenFor)
            /\ \A j \in 1 .. Len(givenFor) : givenFor'[j] = IF j = k THEN p ELSE givenFor[j]
        BY <2>0, <4>2, <4>3 DEF RegistryTyped
      <4>5. k \in Pending
        BY <3>4 DEF Pending
      <4>6. \A j, q : HomeKey(j, q, givenFor, Pending) => HomeKey(j, q, givenFor', Pending')
        BY <2>2, <3>1, <4>4, <4>5 DEF HomeKey
      <4>7. KeysKept
        BY <2>0, <4>3, <4>4, <4>6
      <4>8. HomeKey(k, p, givenFor', Pending')
        <5>1. ASSUME k # 0, k \in Pending' PROVE FALSE
          <6>1. PICK d \in Caller : form'[d].op = "settings" /\ form'[d].k = k
            BY <5>1 DEF Pending
          <6>2. form'[c] = NoForm
            BY <2>0, <3>1 DEF EndRequest, RegistryTyped
          <6>3. d # c
            BY <6>1, <6>2 DEF NoForm
          <6>4. form[d] = form'[d]
            BY <2>2, <3>1, <6>3
          <6>5. Apart(c, d)
            BY DEF RegistryInv
          <6> QED  BY <3>4, <5>1, <6>1, <6>3, <6>4, <6>5 DEF Apart
        <5>2. k \in Nat /\ k <= Len(givenFor)
          BY <2>0, <3>4, <4>1 DEF FormOK, Key
        <5> QED  BY <2>0, <4>4, <5>1, <5>2 DEF HomeKey
      <4>9. Sound(working[c], givenFor', Pending', saved', formed')
        BY <3>2, <4>7, SoundStays DEF SoundNow
      <4>10. Sound(registry', givenFor', Pending', saved', formed')
        <5>1. registry'.active \in saved' /\ registry'.active \in formed'
          BY <4>3
        <5> HIDE DEF k, KeysKept, Others
        <5> QED  BY <4>1, <4>8, <4>9, <5>1, SettingsSound
      <4>11. (SoundNow(registry))'
        BY <4>10 DEF SoundNow
      <4>12. RegistryTyped'
        BY <2>0, <2>2, <3>1, <4>2, <4>3, <4>4 DEF RegistryTyped
      <4> HIDE DEF Others, KeysKept
      <4> QED  BY <2>1, <2>2, <3>1, <4>7, <4>11, <4>12
    <3> QED  BY <3>3, <3>4
  <2> QED  BY <1>2, <2>5, <2>6, <2>7, <2>8, <2>9, <2>10, <2>11, <2>12, <2>13, <2>14, <2>15, <2>16
<1> QED  BY <1>1, <1>2 DEF RegistryNext

(* What the invariant says of the reader of the file. *)
LEMMA RegistryInvSafe == RegistryInv => RegistrySafe
<1> SUFFICES ASSUME RegistryInv PROVE RegistrySafe
  OBVIOUS
<1>1. RegistryTyped /\ SoundNow(registry) /\ registry \in Cfg
  BY DEF RegistryInv, SoundNow, Sound
<1>2. RegistryTypeOK
  BY <1>1 DEF RegistryTyped, RegistryTypeOK, Cfg, ProviderRecord, Connection
<1>3. ASSUME NEW c \in Caller, phase[c] = "read"
      PROVE  LET asks == Runtime(working[c], settings)
             IN asks.key # 0 /\ asks.url # OpenAI /\ working[c].active \in Named(working[c].flat)
                  => givenFor[asks.key] = asks.url
  <2> DEFINE cfg == working[c]
             e == CHOOSE e \in cfg.flat : <<e[1], e[2]>> = cfg.active
             key == IF e[3] # 0 THEN e[3] ELSE cfg.providers[e[1]].key
  <2>1. SoundNow(cfg) /\ cfg \in Cfg
    BY <1>3 DEF RegistryInv, Holds, SoundNow, Sound
  <2>2. ASSUME cfg.active \in Named(cfg.flat), key # 0, e[1] # OpenAI
        PROVE  givenFor[key] = e[1]
    <3>1. e \in cfg.flat
      BY <2>1, <2>2, KeyOfEntry
    <3> HIDE DEF e
    <3>2. e[1] \in Custom
      BY <2>1, <2>2, <3>1 DEF Cfg, Provider
    <3> QED  BY <2>1, <2>2, <3>1, <3>2 DEF SoundNow, Sound, Homely, HomeKey
  <2>3. ASSUME cfg.active \in Named(cfg.flat)
        PROVE  Runtime(cfg, settings) = [url |-> e[1], key |-> key]
    BY <2>3 DEF Runtime
  <2> HIDE DEF e, key
  <2>4. ASSUME cfg.active \in Named(cfg.flat)
        PROVE  Runtime(cfg, settings).url = e[1] /\ Runtime(cfg, settings).key = key
    <3>1. Runtime(cfg, settings) = [url |-> e[1], key |-> key]
      BY <2>3, <2>4
    <3> QED  BY <3>1
  <2> QED  BY <2>2, <2>4
<1>4. ASSUME NEW p \in Custom,
             NEW k \in {registry.providers[p].key} \cup {registry.providers[p].own[m] : m \in ModelId}, k # 0
      PROVE  givenFor[k] = p
  BY <1>1, <1>4 DEF SoundNow, Sound, Homely, HomeKey
<1>5. KeysStayHome
  BY <1>3, <1>4 DEF KeysStayHome
<1>6. RotationWins
  BY DEF RegistryInv, Holds, Rotated, RotationWins
<1>7. SelectionWasSaved
  BY <1>1 DEF SelectionWasSaved, SoundNow, Sound
<1>8. SelectionIsThere
  <2>1. SoundNow(Normal(registry, env))
    BY <1>1, NormalSound DEF SoundNow, RegistryTyped
  <2>2. Normal(registry, env).active = registry.active
    BY <1>1, NormalFields DEF RegistryTyped
  <2> DEFINE N == Normal(registry, env)
  <2>3. Defined(N) \subseteq Named(N.flat)
    <3>1. N.flat = FlatView(Local(N.providers), registry.flat)
      BY <1>1, NormalFields DEF RegistryTyped
    <3> HIDE DEF N
    <3>2. ASSUME NEW x \in Defined(N) PROVE x \in Named(N.flat)
      <4>1. x \in Model /\ N.providers[x[1]].there /\ x[2] \in N.providers[x[1]].models
        BY DEF Defined
      <4>2. <<x[1], x[2], OwnOrProviders(N.providers[x[1]], x[2])>> \in N.flat
        BY <3>1, <4>1 DEF Local, FlatView
      <4> QED  BY <4>1, <4>2 DEF Named, Model
    <3> QED  BY <3>2
  <2> HIDE DEF N
  <2>4. N.active \in Named(N.flat) \cup formed
    BY <2>1, <2>3 DEF N, SoundNow, Sound, Known
  <2> QED  BY <2>2, <2>4 DEF SelectionIsThere, N
<1> QED  BY <1>2, <1>5, <1>6, <1>7, <1>8 DEF RegistrySafe

(* However requests overlap, fail or lose each other's writes, a key is sent to the *)
(* provider it was given for only, a rotated key is in force at once, and the      *)
(* model in use is one whose credentials were saved and that the file knows, for     *)
(* every number of providers, models, keys and requests.                        *)
THEOREM RegistrySafeTheorem == RegistrySpec => []RegistrySafe
<1>1. RegistryInit => RegistryInv
  BY RegistryInitInv
<1>2. RegistryInv /\ [RegistryNext]_registryVars => RegistryInv'
  BY RegistryStep
<1>3. RegistryInv => RegistrySafe
  BY RegistryInvSafe
<1> QED  BY <1>1, <1>2, <1>3, PTL DEF RegistrySpec
=============================================================================
