------------------------------ MODULE MCServices ------------------------------
(* Small instances of the modules that run beside the trader.  Each           *)
(* behaviour is of one of them (service); the others rest in their initial    *)
(* states.                                                                   *)
EXTENDS MCWriterGate, MCDeliveryQueue, PositionCare, CloseExecution, InferenceCall

VARIABLE service
serviceVars == <<service, vars, queueVars, careVars, closeVars, callVars>>

ServiceInit ==
  /\ service \in {"gate", "queue", "care", "close", "call"}
  /\ Init /\ QueueInit /\ CloseInit /\ CallInit
  /\ CareInit /\ (service # "care" => trackerFile = NoTracker)
  /\ (service # "call" => route = "loop")

ServiceNext ==
  \/ /\ service = "gate" /\ Next
     /\ UNCHANGED <<service, queueVars, careVars, closeVars, callVars>>
  \/ /\ service = "queue" /\ QueueNext
     /\ UNCHANGED <<service, vars, careVars, closeVars, callVars>>
  \/ /\ service = "care" /\ CareNext
     /\ UNCHANGED <<service, vars, queueVars, closeVars, callVars>>
  \/ /\ service = "close" /\ CloseNext
     /\ UNCHANGED <<service, vars, queueVars, careVars, callVars>>
  \/ /\ service = "call" /\ CallNext
     /\ UNCHANGED <<service, vars, queueVars, careVars, closeVars>>

ServiceSpec == ServiceInit /\ [][ServiceNext]_serviceVars

GateLive == service = "gate" /\ Fairness => WindowEnds
QueueLive == service = "queue" /\ QueueFairness => EveryRowSettles
CareLive == service = "care" /\ CareFairness => EventuallyProtected
CloseLive == service = "close" /\ CloseFairness => CloseGoesThrough
CallLive == service = "call" /\ CallFairness => CallEnds

(* Each of the services gets on with its work.                                *)
ServicesLive == GateLive /\ QueueLive /\ CareLive /\ CloseLive /\ CallLive
=============================================================================
