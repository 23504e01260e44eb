----------------------------- MODULE MCDecisions ------------------------------
(* Small instances of the modules about a decision: the slots of the trader, a   *)
(* cycle of the model with the files it publishes, the waits it has to answer     *)
(* for, and its streamed answer.  Each behaviour is of one of them (subject); the  *)
(* others rest in an initial state.                                           *)
EXTENDS MCJobScheduler, BrainCycle, WaitAudit, AnswerStream

VARIABLE subject
decisionVars == <<subject, vars, brainVars, waitVars, streamVars>>

DecisionInit ==
  /\ subject \in {"schedule", "brain", "wait", "stream"}
  /\ Init /\ BrainInit /\ WaitInit /\ StreamInit
  /\ subject # "wait" => fact = Missing /\ baseline = 0
  /\ subject # "stream" => protocol = "openai_chat"

DecisionNext ==
  \/ subject = "schedule" /\ Next /\ UNCHANGED <<subject, brainVars, waitVars, streamVars>>
  \/ subject = "brain" /\ BrainNext /\ UNCHANGED <<subject, vars, waitVars, streamVars>>
  \/ subject = "wait" /\ WaitNext /\ UNCHANGED <<subject, vars, brainVars, streamVars>>
  \/ subject = "stream" /\ StreamNext /\ UNCHANGED <<subject, vars, brainVars, waitVars>>

DecisionSpec == DecisionInit /\ [][DecisionNext]_decisionVars
=============================================================================
