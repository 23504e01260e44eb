----------------------------- MODULE MCPositions -----------------------------
(* Small instances of the modules about positions, equity and accounts that   *)
(* need many states: the care for one position by guard and trader, the        *)
(* trader's cycle over several instruments, what observations of the equity    *)
(* leave behind, the change of the account, the shared snapshots of protective  *)
(* orders, and the research of scenarios.  Each behaviour is of one of them     *)
(* (part); the others rest in their initial states.                           *)
EXTENDS PositionCare, TraderCycle, EquityGuard, AccountBinding, AlgoReader,
        ScenarioShadow, TLC

CONSTANTS
  demoAccount, otherDemo, liveAccount,     \* otherDemo has a key of its own, the
  otherKey, liveKey, demoCopy, liveCopy    \* others have the old ones; liveKey is new

MCAccountOf == (otherKey :> otherDemo) @@ (liveKey :> liveAccount)
               @@ (demoCopy :> demoAccount) @@ (liveCopy :> liveAccount)
MCMode == {"demo", "live"}
MCModeOf == (demoAccount :> "demo") @@ (otherDemo :> "demo") @@ (liveAccount :> "live")
MCLegacy == [demo |-> demoAccount, live |-> liveAccount]
MCCopy == [demo |-> demoCopy, live |-> liveCopy]

VARIABLE part
partVars == <<part, careVars, cycleVars, equityVars, bindingVars, readerVars, shadowVars>>

PartInit ==
  /\ part \in {"care", "cycle", "equity", "binding", "reader", "shadow"}
  /\ CareInit /\ (part # "care" => trackerFile = NoTracker)
  /\ CycleInit /\ EquityInit /\ BindingInit /\ ReaderInit /\ ShadowInit

PartNext ==
  \/ part = "care" /\ CareNext /\ UNCHANGED <<part, cycleVars, equityVars, bindingVars, readerVars, shadowVars>>
  \/ part = "cycle" /\ CycleNext /\ UNCHANGED <<part, careVars, equityVars, bindingVars, readerVars, shadowVars>>
  \/ part = "equity" /\ EquityNext /\ UNCHANGED <<part, careVars, cycleVars, bindingVars, readerVars, shadowVars>>
  \/ part = "binding" /\ BindingNext /\ UNCHANGED <<part, careVars, cycleVars, equityVars, readerVars, shadowVars>>
  \/ part = "reader" /\ ReaderNext /\ UNCHANGED <<part, careVars, cycleVars, equityVars, bindingVars, shadowVars>>
  \/ part = "shadow" /\ ShadowNext /\ UNCHANGED <<part, careVars, cycleVars, equityVars, bindingVars, readerVars>>

PartSpec == PartInit /\ [][PartNext]_partVars

(* Coins are interchangeable.                                                *)
PositionSymmetry == Permutations(Coin)

=============================================================================
