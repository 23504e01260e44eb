------------------------------ MODULE MCReviews -------------------------------
(* Small instances of the modules about what is kept beside the trading: the      *)
(* reviews between the trader's slots, the memory they propose changes of, the     *)
(* registry of models, and what the monitor shows of the account.  Each behaviour  *)
(* is of one of them (subject); the others rest in an initial state.             *)
EXTENDS MCJobScheduler, TradingMemory, ModelRegistry, Dashboard

MCProposal == [action : {"ADD", "DEACTIVATE"}, lesson : Lesson]

VARIABLE subject
reviewVars == <<subject, vars, memoryVars, registryVars, dashboardVars>>

(* Accounts and providers are interchangeable: one of them is the first.        *)
ReviewInit ==
  /\ subject \in {"schedule", "memory", "registry", "monitor"}
  /\ Init /\ MemoryInit /\ RegistryInit /\ DashboardInit
  /\ bound = CHOOSE s \in Scope : TRUE
  /\ env.url = CHOOSE p \in Custom : TRUE
  /\ selected = CHOOSE a \in Account : TRUE

ReviewNext ==
  \/ subject = "schedule" /\ Next /\ UNCHANGED <<subject, memoryVars, registryVars, dashboardVars>>
  \/ subject = "memory" /\ MemoryNext /\ UNCHANGED <<subject, vars, registryVars, dashboardVars>>
  \/ subject = "registry" /\ RegistryNext /\ UNCHANGED <<subject, vars, memoryVars, dashboardVars>>
  \/ subject = "monitor" /\ DashboardNext /\ UNCHANGED <<subject, vars, memoryVars, registryVars>>

ReviewSpec == ReviewInit /\ [][ReviewNext]_reviewVars
=============================================================================
