---------------------------- MODULE InferenceCall ----------------------------
(* One call of a model.  With a transport policy the request is made by a      *)
(* process of its own (llm_inference_transport) that is asked once and killed  *)
(* at the deadline; without one, by a loop of up to three attempts that share  *)
(* the deadline (llm_transport.request_json).  The worker may stall anywhere:  *)
(* nothing but the kill is sure to end it.                                     *)
EXTENDS Naturals

CONSTANTS NoMessage, Torn, MaxTries

(* What a process reports, and what a call returns or raises.                  *)
EnvelopeType == [ok : BOOLEAN, attempts : 0 .. 1, complete : BOOLEAN]
ResultType == [ok : BOOLEAN, attempts : 0 .. MaxTries, late : BOOLEAN, whole : BOOLEAN]

ASSUME CallAssumption ==
  /\ MaxTries \in Nat \ {0}
  /\ NoMessage \notin EnvelopeType \cup ResultType
  /\ Torn \notin EnvelopeType /\ NoMessage # Torn

VARIABLES
  route,              \* "process" or "loop"
  caller, attempt,    \* where the calling thread is, and the attempts it knows of
  worker, pipe,       \* the process, and what it has written to its caller
  timer, expired,     \* the thread that kills it, and its flag
  late,               \* the deadline has passed
  asked, whole,       \* requests that may have reached the provider; an answer read to its end
  result              \* what the call returned or raised
callVars == <<route, caller, attempt, worker, pipe, timer, expired, late, asked, whole, result>>

CallInit ==
  /\ route \in {"process", "loop"}
  /\ caller = "start" /\ attempt = 0
  /\ worker = "none" /\ pipe = NoMessage
  /\ timer = "off" /\ expired = FALSE /\ late = FALSE
  /\ asked = 0 /\ whole = FALSE /\ result = NoMessage

(* The deadline passes, at any moment.                                        *)
PassDeadline ==
  /\ ~late /\ caller # "done" /\ late' = TRUE
  /\ UNCHANGED <<route, caller, attempt, worker, pipe, timer, expired, asked, whole, result>>

Conclude(ok, n) == result' = [ok |-> ok, attempts |-> n, late |-> late, whole |-> whole]

-----------------------------------------------------------------------------
(* request_inference.  A process that was started may have sent the request,   *)
(* so it counts as an attempt from then on.                                    *)
StartWorker ==
  /\ route = "process" /\ caller = "start"
  /\ \/ ~late /\ worker' = "starting" /\ attempt' = 1 /\ caller' = "launched"
        /\ UNCHANGED result
     \/ UNCHANGED <<worker, attempt>> /\ caller' = "cleanup" /\ Conclude(FALSE, 0)
  /\ UNCHANGED <<route, pipe, timer, expired, late, asked, whole>>

(* The timer is started, then the caller writes to the process and waits.  On  *)
(* Windows it may block while it writes, where no timeout reaches it.          *)
StartTimer ==
  /\ caller = "launched"
  /\ IF late THEN caller' = "cleanup" /\ Conclude(FALSE, attempt) /\ UNCHANGED timer
     ELSE caller' = "writing" /\ timer' = "armed" /\ UNCHANGED result
  /\ UNCHANGED <<route, attempt, worker, pipe, expired, late, asked, whole>>

(* deadline_expired: whatever the caller is blocked in, the process is killed. *)
(* Seeded fault: the flag is raised only.                                      *)
Ended == {"none", "exited", "killed"}
DeadlineExpiredOnly ==
  /\ timer = "armed" /\ late
  /\ timer' = "fired" /\ expired' = TRUE
  /\ UNCHANGED <<route, caller, attempt, worker, pipe, late, asked, whole, result>>
DeadlineExpired ==
  /\ timer = "armed" /\ late
  /\ timer' = "fired" /\ expired' = TRUE
  /\ worker' = IF worker \in Ended THEN worker ELSE "killed"
  /\ UNCHANGED <<route, caller, attempt, pipe, late, asked, whole, result>>

(* What a report of the process is worth.  An incomplete stream is refused     *)
(* once more here.                                                             *)
(* Seeded fault: what was read by the time of the kill is taken.               *)
AnswerTakenAnyhow == pipe # NoMessage /\ pipe # Torn /\ pipe.ok
AnswerTaken == ~late /\ ~expired /\ worker = "exited"
              /\ pipe # Torn /\ pipe # NoMessage /\ pipe.ok /\ pipe.complete

(* An error the process reports says itself whether anything was sent.         *)
(* Seeded fault: what is not reported was not sent.                            *)
AttemptsOfReported == IF pipe \notin {NoMessage, Torn} THEN pipe.attempts ELSE 0
AttemptsOf ==
  IF ~late /\ ~expired /\ worker = "exited" /\ pipe \notin {NoMessage, Torn} /\ ~pipe.ok
  THEN pipe.attempts ELSE attempt

(* communicate returns when the process is gone, or raises at the deadline.    *)
Collect ==
  /\ caller \in {"writing", "waiting"} /\ (worker \in Ended \/ late)
  /\ caller' = "cleanup"
  /\ Conclude(AnswerTaken, AttemptsOf)
  /\ UNCHANGED <<route, attempt, worker, pipe, timer, expired, late, asked, whole>>

(* finally: the timer is canceled, a process that still runs killed and reaped.*)
(* Seeded fault: it is left to the timer.                                      *)
ReapNot == UNCHANGED worker
Reap == worker' = IF worker = "none" THEN "none" ELSE "reaped"

CleanUp ==
  /\ caller = "cleanup" /\ caller' = "done"
  /\ timer' = IF timer = "armed" THEN "canceled" ELSE timer
  /\ Reap
  /\ UNCHANGED <<route, attempt, pipe, expired, late, asked, whole, result>>

-----------------------------------------------------------------------------
(* _worker_main and request_inference_async: one request, no retry.  The       *)
(* phases of the transport, connect, headers, first byte and idle, end it in   *)
(* the same way, with an error that was sent.                                  *)
Emit(ok, n, complete) ==
  pipe' = [ok |-> ok, attempts |-> n, complete |-> complete]

(* The time left is looked at again, and the request is built.                 *)
BeginRequest ==
  /\ worker = "starting" /\ caller \in {"writing", "cleanup"}
  /\ caller' = IF caller = "writing" THEN "waiting" ELSE caller
  /\ \/ ~late /\ worker' = "sending" /\ UNCHANGED pipe
     \/ worker' = "leaving" /\ Emit(FALSE, 0, FALSE)
  /\ UNCHANGED <<route, attempt, timer, expired, late, asked, whole, result>>

SendRequest ==
  /\ worker = "sending" /\ worker' = "reading" /\ asked' = asked + 1
  /\ UNCHANGED <<route, caller, attempt, pipe, timer, expired, late, whole, result>>

(* No connection, no answer in time, an answer that is an error, cut off or    *)
(* contradicts itself.                                                         *)
ReadFails ==
  /\ worker \in {"sending", "reading"} /\ worker' = "leaving"
  /\ Emit(FALSE, 1, FALSE)
  /\ UNCHANGED <<route, caller, attempt, timer, expired, late, asked, whole, result>>

(* The terminal event of a stream, or the end of a JSON body.                  *)
ReadEnds ==
  /\ worker = "reading" /\ worker' = "leaving"
  /\ whole' = TRUE
  /\ IF late THEN Emit(FALSE, 1, FALSE) ELSE Emit(TRUE, 1, TRUE)
  /\ UNCHANGED <<route, caller, attempt, timer, expired, late, asked, result>>

(* _emit_worker_and_exit; or it is killed while it writes.                     *)
ExitWorker ==
  /\ worker = "leaving" /\ worker' = "exited"
  /\ UNCHANGED <<route, caller, attempt, pipe, timer, expired, late, asked, whole, result>>

TearPipe ==
  /\ worker = "killed" /\ pipe \notin {NoMessage, Torn} /\ pipe' = Torn
  /\ UNCHANGED <<route, caller, attempt, worker, timer, expired, late, asked, whole, result>>

(* The process dies of itself.                                                 *)
WorkerDies ==
  /\ worker \in {"starting", "sending", "reading", "leaving"} /\ worker' = "killed"
  /\ UNCHANGED <<route, caller, attempt, pipe, timer, expired, late, asked, whole, result>>

-----------------------------------------------------------------------------
(* request_json: an attempt is begun in time only.                             *)
TryOnce ==
  /\ route = "loop" /\ caller \in {"start", "pausing"}
  /\ IF late THEN caller' = "done" /\ Conclude(FALSE, attempt) /\ UNCHANGED <<attempt, asked>>
     ELSE /\ caller' = "trying" /\ attempt' = attempt + 1
          /\ asked' = asked + 1 /\ UNCHANGED result
  /\ UNCHANGED <<route, worker, pipe, timer, expired, late, whole>>

(* An answer is never taken after the deadline.                                *)
Answered ==
  /\ caller = "trying" /\ caller' = "done"
  /\ whole' = TRUE
  /\ result' = [ok |-> ~late, attempts |-> attempt, late |-> late, whole |-> TRUE]
  /\ UNCHANGED <<route, attempt, worker, pipe, timer, expired, late, asked>>

(* A failure is followed by a pause if it is transient, attempts are left and  *)
(* the pause the server asks for fits the time that is left.                   *)
(* Seeded fault: one attempt too many.                                         *)
MayRetryOnce == attempt <= MaxTries
MayRetry == attempt < MaxTries
FailTry(transient) ==
  /\ caller = "trying"
  /\ IF transient /\ MayRetry /\ ~late
     THEN caller' = "pausing" /\ UNCHANGED result
     ELSE caller' = "done" /\ Conclude(FALSE, attempt)
  /\ UNCHANGED <<route, attempt, worker, pipe, timer, expired, late, asked, whole>>

CallerStep == StartWorker \/ StartTimer \/ Collect \/ CleanUp \/ TryOnce
AttemptEnds == Answered \/ \E b \in BOOLEAN : FailTry(b)
WorkerStep == BeginRequest \/ SendRequest \/ ReadFails \/ ReadEnds \/ ExitWorker \/ TearPipe \/ WorkerDies
CallNext == PassDeadline \/ DeadlineExpired \/ CallerStep \/ AttemptEnds \/ WorkerStep

(* Time passes, the timer and the calling thread go on unless it is blocked,   *)
(* and a socket times out; the worker owes nothing.                            *)
Unblocked == caller = "writing" => worker \in Ended
CallFairness == WF_callVars(PassDeadline) /\ WF_callVars(DeadlineExpired)
                /\ WF_callVars(Unblocked /\ CallerStep) /\ WF_callVars(AttemptEnds)
CallSpec == CallInit /\ [][CallNext]_callVars

-----------------------------------------------------------------------------
CallTypeOK ==
  /\ route \in {"process", "loop"}
  /\ caller \in {"start", "launched", "writing", "waiting", "cleanup", "trying", "pausing", "done"}
  /\ worker \in {"none", "starting", "sending", "reading", "leaving", "exited", "killed", "reaped"}
  /\ pipe \in {NoMessage, Torn} \cup EnvelopeType
  /\ timer \in {"off", "armed", "fired", "canceled"}
  /\ attempt \in 0 .. MaxTries /\ asked \in 0 .. MaxTries
  /\ late \in BOOLEAN /\ expired \in BOOLEAN /\ whole \in BOOLEAN
  /\ result \in {NoMessage} \cup ResultType
  /\ (result # NoMessage) = (caller \in {"cleanup", "done"})

(* "unknown outcomes count as one, even when the parent must kill it" (316):   *)
(* a call that is over never denies a request that may have reached the        *)
(* provider; the decision whether to recover a slot depends on this number.    *)
AttemptsTold == result # NoMessage => result.attempts >= asked

(* "never ... partial streamed results" and "responses received after the      *)
(* shared deadline are never accepted" (llm_transport): what a call returns    *)
(* was read to its end and taken in time.                                      *)
OnlyWholeAndInTime == result # NoMessage /\ result.ok => result.whole /\ ~result.late

(* "No child is left behind on timeout, invalid IPC, or parent cancellation"   *)
(* (_kill_reap), and nothing is sent for a call that is over.                  *)
NobodyLeftBehind == caller = "done" => worker \in {"none", "reaped"}

(* Every call ends, although the worker may stall anywhere and the caller may  *)
(* be blocked while it writes ("A timeout kills/reaps the worker").            *)
CallEnds == <>(caller = "done")

(* What a call that is over leaves behind: a true number of attempts, a whole  *)
(* answer in time or none, and no process.                                    *)
CallSafe == CallTypeOK /\ AttemptsTold /\ OnlyWholeAndInTime /\ NobodyLeftBehind
=============================================================================
