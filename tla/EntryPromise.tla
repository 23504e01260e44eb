---------------------------- MODULE EntryPromise ----------------------------
(***************************************************************************)
(* What the entry path promises for a recorded decision, whatever crashes, *)
(* loses replies or races with fills: it is turned into exchange orders    *)
(* one after the other, at most two of them (the Maker and its bounded     *)
(* fallback), the second only if the first bought nothing, and never more  *)
(* than one order's size is bought.                                        *)
(***************************************************************************)
EXTENDS Naturals

CONSTANTS Decision, Size

VARIABLES
  phase,   \* "unused", "open" while an order may still buy, "closed"
  bought,  \* contracts bought for the decision
  sends    \* orders sent for it

promiseVars == <<phase, bought, sends>>

Init ==
  /\ phase = [d \in Decision |-> "unused"]
  /\ bought = [d \in Decision |-> 0]
  /\ sends = [d \in Decision |-> 0]

Open(d) ==
  /\ phase[d] # "open" /\ bought[d] = 0 /\ sends[d] < 2
  /\ phase' = [phase EXCEPT ![d] = "open"]
  /\ sends' = [sends EXCEPT ![d] = @ + 1]
  /\ UNCHANGED bought

Buy(d) ==
  /\ phase[d] = "open" /\ bought[d] < Size
  /\ bought' = [bought EXCEPT ![d] = @ + 1]
  /\ phase' = [phase EXCEPT ![d] = IF bought'[d] = Size THEN "closed" ELSE @]
  /\ UNCHANGED sends

Close(d) ==
  /\ phase[d] = "open"
  /\ phase' = [phase EXCEPT ![d] = "closed"]
  /\ UNCHANGED <<bought, sends>>

Next == \E d \in Decision : Open(d) \/ Buy(d) \/ Close(d)

Spec == Init /\ [][Next]_promiseVars
=============================================================================
