---------------------------- MODULE ModelRegistry -----------------------------
(* The file of model providers and the environment that goes with it           *)
(* (okxquant_backend/llm_manager.py, settings_store.py, secrets.py, the /admin/llm *)
(* routes).  Nothing locks the file: every handler, and every reader in any       *)
(* process, reads it, writes back what it made of it and, if it changes something, *)
(* writes it whole once more.  A provider stands for its address, a key is a       *)
(* number in the order keys were given; names, efforts, protocols and whether a    *)
(* provider is enabled are written back with the rest and otherwise left out.     *)
EXTENDS Naturals, Sequences

CONSTANTS
  OpenAI,               \* the built-in provider that may take the environment's key
  Custom,               \* providers an administrator made
  ModelId,
  MaxKeys,              \* bound on the keys that are given
  MaxRequests,          \* bound on the requests that are begun
  Handlers, Readers     \* threads of the backend; other processes

ASSUME RegistryAssumption ==
  OpenAI \notin Custom /\ MaxKeys \in Nat \ {0} /\ MaxRequests \in Nat /\ Handlers \cap Readers = {}

Provider == Custom \cup {OpenAI}
Caller == Handlers \cup Readers
Key == 0 .. MaxKeys                       \* 0: none
Model == Provider \X ModelId              \* a model is one of a provider's

VARIABLES
  registry,             \* the file
  env,                  \* .env and the secret store: the connection in use
  settings,             \* the backend's reading of it, which its threads share
  givenFor,             \* for every key, the provider it was given for
  saved,                \* the selections whose credentials were saved
  formed,               \* those among them the settings form made
  requests, phase, form, working

registryVars == <<registry, env, settings, givenFor, saved, formed, requests, phase, form, working>>

NoProvider == [there |-> FALSE, key |-> 0, own |-> [m \in ModelId |-> 0], models |-> {}]

NoForm == [op |-> "none"]                 \* of a thread that handles nothing

(* A configured installation: a custom provider is in use and OpenAI has no key.  *)
RegistryInit ==
  \E p \in Custom, m \in ModelId :
    /\ registry = [active |-> <<p, m>>, flat |-> {<<p, m, 1>>},
                   providers |-> [q \in Provider |->
                     CASE q = p -> [NoProvider EXCEPT !.there = TRUE, !.key = 1, !.models = {m}]
                       [] q = OpenAI -> [NoProvider EXCEPT !.there = TRUE, !.models = {m}]
                       [] OTHER -> NoProvider]]
    /\ env = [url |-> p, key |-> 1, model |-> m] /\ settings = env
    /\ givenFor = <<p>> /\ saved = {<<p, m>>} /\ formed = {}
    /\ requests = 0 /\ phase = [c \in Caller |-> "idle"]
    /\ form = [c \in Caller |-> NoForm] /\ working = [c \in Caller |-> NoForm]

-----------------------------------------------------------------------------
(* What the built-in provider is without a definition in the file.              *)
Built(cfg, p) ==
  IF p = OpenAI /\ ~cfg.providers[p].there
  THEN [NoProvider EXCEPT !.there = TRUE] ELSE cfg.providers[p]

(* Another provider holds the environment's address and key.                   *)
OwnedElsewhere(cfg, s) ==
  \E p \in Custom : cfg.providers[p].there /\ s.url = p /\ s.key \in {0, cfg.providers[p].key}

Hydrated(cfg, s) ==
  [p \in Provider |->
    IF p = OpenAI /\ ~OwnedElsewhere(cfg, s) /\ Built(cfg, p).key = 0
    THEN [Built(cfg, p) EXCEPT !.key = s.key] ELSE Built(cfg, p)]

OwnOrProviders(r, m) == IF r.own[m] # 0 THEN r.own[m] ELSE r.key

Local(providers) ==
  {<<x[1], x[2], OwnOrProviders(providers[x[1]], x[2])>> :
     x \in {y \in Model : providers[y[1]].there /\ y[2] \in providers[y[1]].models}}

Named(flat) == {<<e[1], e[2]>> : e \in flat}

(* Seeded fault: the flat list is what counts where it knows a model.            *)
FlatViewOfCache(local, flat) ==
  flat \cup {e \in local : <<e[1], e[2]>> \notin Named(flat)}

(* The providers' own definitions are authoritative; of the flat list only what   *)
(* no provider defines is kept.                                              *)
FlatView(local, flat) ==
  local \cup {e \in flat : <<e[1], e[2]>> \notin Named(local)}

(* What init_llm_config makes of the file with the settings of its process.      *)
Normal(cfg, s) ==
  LET providers == Hydrated(cfg, s)
  IN [cfg EXCEPT !.providers = providers, !.flat = FlatView(Local(providers), @)]

(* The connection a call of the model uses: never another provider's key for a    *)
(* model that is there, the environment's for one that is not.                 *)
Runtime(cfg, s) ==
  IF cfg.active \in Named(cfg.flat)
  THEN LET e == CHOOSE e \in cfg.flat : <<e[1], e[2]>> = cfg.active
       IN [url |-> e[1], key |-> IF e[3] # 0 THEN e[3] ELSE cfg.providers[e[1]].key]
  ELSE [url |-> s.url, key |-> s.key]

-----------------------------------------------------------------------------
(* What the handlers change of the configuration they read.                    *)
WithProvider(cfg, p, k) ==                       \* upsert_provider; no key keeps the old one
  LET r == cfg.providers[p]
  IN [cfg EXCEPT !.providers[p] = [r EXCEPT !.there = TRUE, !.key = IF k = 0 THEN @ ELSE k]]

(* A key of its own is kept with the model; the provider's own key, given again,  *)
(* drops it.                                                                *)
WithModel(cfg, p, m, k) ==
  LET r == cfg.providers[p]
      old == {e \in cfg.flat : e[1] = p /\ e[2] = m}
      key == IF k # 0 THEN k
             ELSE IF r.key # 0 \/ old = {} THEN r.key ELSE (CHOOSE e \in old : TRUE)[3]
  IN [cfg EXCEPT !.flat = (@ \ old) \cup {<<p, m, key>>},
                 !.providers[p] = IF ~r.there THEN r
                   ELSE [r EXCEPT !.models = @ \cup {m},
                           !.own[m] = IF k = 0 THEN @ ELSE IF k = r.key THEN 0 ELSE k]]

WithoutModel(cfg, p, m) ==
  LET r == cfg.providers[p]
  IN [cfg EXCEPT !.flat = {e \in @ : ~(e[1] = p /\ e[2] = m)},
                 !.providers[p] = [r EXCEPT !.models = @ \ {m}, !.own[m] = 0]]

WithoutModels(cfg, p) ==
  LET r == cfg.providers[p]
  IN [cfg EXCEPT !.flat = {e \in @ : e[1] # p},
                 !.providers[p] = [r EXCEPT !.models = {}, !.own = NoProvider.own]]

WithoutProvider(cfg, p) ==
  [cfg EXCEPT !.flat = {e \in @ : e[1] # p}, !.providers[p] = NoProvider]

(* The old settings form changes the key and the model of the provider in use     *)
(* when it is written, whichever that was when it was filled in.               *)
WithSettings(cfg, m, k) ==
  LET p == cfg.active[1]
  IN IF ~cfg.providers[p].there THEN cfg
     ELSE [cfg EXCEPT !.active = <<p, m>>, !.providers[p].key = IF k = 0 THEN @ ELSE k]

(* Seeded fault: the provider in use may be deleted.                           *)
RefusedUnlessThere(cfg, r) ==
  CASE r.op = "clear" -> cfg.active[1] = r.p \/ ~cfg.providers[r.p].there
    [] r.op = "delete" -> ~cfg.providers[r.p].there
    [] r.op = "deleteModel" -> cfg.active = <<r.p, r.m>> \/ <<r.p, r.m>> \notin Named(cfg.flat)
    [] r.op = "activate" -> <<r.p, r.m>> \notin Named(cfg.flat)
    [] r.op = "toggle" -> ~cfg.providers[r.p].there
    [] OTHER -> FALSE

(* What the provider or the model in use does not allow, or what is not there.     *)
RefusedBy(cfg, r) ==
  CASE r.op = "clear" -> cfg.active[1] = r.p \/ ~cfg.providers[r.p].there
    [] r.op = "delete" -> cfg.active[1] = r.p \/ ~cfg.providers[r.p].there
    [] r.op = "deleteModel" -> cfg.active = <<r.p, r.m>> \/ <<r.p, r.m>> \notin Named(cfg.flat)
    [] r.op = "activate" -> <<r.p, r.m>> \notin Named(cfg.flat)
    [] r.op = "toggle" -> ~cfg.providers[r.p].there
    [] OTHER -> FALSE

Changed(cfg, r) ==
  CASE r.op = "provider" -> WithProvider(cfg, r.p, r.k)
    [] r.op = "model" -> WithModel(cfg, r.p, r.m, r.k)
    [] r.op = "toggle" -> cfg
    [] r.op = "deleteModel" -> WithoutModel(cfg, r.p, r.m)
    [] r.op = "clear" -> WithoutModels(cfg, r.p)
    [] r.op = "delete" -> WithoutProvider(cfg, r.p)
    [] r.op = "activate" -> [cfg EXCEPT !.active = <<r.p, r.m>>]
    [] r.op = "settings" -> WithSettings(cfg, r.m, r.k)

-----------------------------------------------------------------------------
(* A key that is given is a new one, for the provider the form names.            *)
Give(k, p) ==
  \/ k = 0 /\ UNCHANGED givenFor
  \/ k = Len(givenFor) + 1 /\ k <= MaxKeys /\ givenFor' = Append(givenFor, p)

Begin(c, r) ==
  /\ phase[c] = "idle" /\ requests < MaxRequests /\ requests' = requests + 1
  /\ form' = [form EXCEPT ![c] = r]
  /\ phase' = [phase EXCEPT ![c] = IF r.op = "settings" THEN "save" ELSE "open"]
  /\ UNCHANGED <<registry, env, saved, formed, working>>

(* A handler reads the environment anew before anything else.                  *)
HandlerBegins(c, r) == c \in Handlers /\ settings' = env /\ Begin(c, r)

(* A form names a provider, a model or the provider in use, with or without a key. *)
BeginProvider(c, p, k) ==
  HandlerBegins(c, [op |-> "provider", p |-> p, k |-> k]) /\ Give(k, p)
BeginModel(c, p, m, k) ==
  /\ registry.providers[p].there
  /\ HandlerBegins(c, [op |-> "model", p |-> p, m |-> m, k |-> k]) /\ Give(k, p)
BeginSettings(c, m, k) ==
  /\ HandlerBegins(c, [op |-> "settings", p |-> registry.active[1], m |-> m, k |-> k])
  /\ Give(k, registry.active[1])
BeginChange(c, op, p) ==
  HandlerBegins(c, [op |-> op, p |-> p]) /\ UNCHANGED givenFor
BeginChoice(c, op, p, m) ==
  HandlerBegins(c, [op |-> op, p |-> p, m |-> m]) /\ UNCHANGED givenFor

(* Another process reads with settings it may have had for long.                *)
BeginRead(c) ==
  c \in Readers /\ Begin(c, [op |-> "read"]) /\ UNCHANGED <<settings, givenFor>>

(* A request ends, whatever it did to the files.                               *)
EndRequest(c) ==
  /\ phase' = [phase EXCEPT ![c] = "idle"]
  /\ form' = [form EXCEPT ![c] = NoForm] /\ working' = [working EXCEPT ![c] = NoForm]

Proceed(c, next) ==
  phase' = [phase EXCEPT ![c] = next] /\ UNCHANGED <<form, working>>

(* init_llm_config reads the file ...                                         *)
ReadRegistry(c) ==
  /\ phase[c] = "open"
  /\ \E s \in IF c \in Handlers THEN {settings} ELSE {settings, env} :
       working' = [working EXCEPT ![c] = Normal(registry, s)]
  /\ phase' = [phase EXCEPT ![c] = "read"]
  /\ UNCHANGED <<registry, env, settings, givenFor, saved, formed, requests, form>>

(* ... and writes what it made of it, whatever was written between.              *)
WriteBack(c) ==
  /\ phase[c] = "read" /\ registry' = working[c]
  /\ IF form[c].op = "read" \/ RefusedBy(working[c], form[c]) THEN EndRequest(c)
     ELSE Proceed(c, IF form[c].op = "activate" THEN "save" ELSE "commit")
  /\ UNCHANGED <<env, settings, givenFor, saved, formed, requests>>

(* The key in use: an activation's own, which may be none, or the one given.     *)
KeyToSave(c) ==
  IF form[c].op = "settings" THEN form[c].k
  ELSE LET e == CHOOSE e \in working[c].flat : <<e[1], e[2]>> = <<form[c].p, form[c].m>>
       IN IF e[3] # 0 THEN e[3] ELSE working[c].providers[e[1]].key

(* Credentials first: a store that cannot be written ends the request.         *)
SaveSecret(c) ==
  /\ phase[c] = "save"
  /\ env' = [env EXCEPT !.key = IF KeyToSave(c) = 0 THEN @ ELSE KeyToSave(c)]
  /\ Proceed(c, "env")
  /\ UNCHANGED <<registry, settings, givenFor, saved, formed, requests>>

(* Then the address and the model; the backend's threads read them at once.       *)
WriteEnv(c) ==
  /\ phase[c] = "env"
  /\ env' = [env EXCEPT !.url = IF form[c].op = "activate" THEN form[c].p ELSE @,
                        !.model = form[c].m]
  /\ settings' = env'
  /\ saved' = saved \cup {<<form[c].p, form[c].m>>}
  /\ Proceed(c, IF form[c].op = "activate" THEN "commit" ELSE "open")
  /\ UNCHANGED <<registry, givenFor, formed, requests>>

(* The handler writes the configuration it read with its change.                *)
Commit(c) ==
  /\ phase[c] = "commit" /\ registry' = Changed(working[c], form[c])
  /\ IF form[c].op = "settings"
       THEN /\ saved' = saved \cup {registry'.active} /\ formed' = formed \cup {registry'.active}
            /\ givenFor' = [k \in DOMAIN givenFor |->
                 IF k = form[c].k THEN registry'.active[1] ELSE givenFor[k]]
       ELSE UNCHANGED <<saved, formed, givenFor>>
  /\ EndRequest(c) /\ UNCHANGED <<env, settings, requests>>

(* A store that fails, or the end of the process, leaves the rest undone.         *)
AbandonRequest(c) ==
  /\ phase[c] # "idle" /\ EndRequest(c)
  /\ UNCHANGED <<registry, env, settings, givenFor, saved, formed, requests>>

RegistryNext ==
  \E c \in Caller :
    \/ \E p \in Provider, k \in Key : BeginProvider(c, p, k)
    \/ \E p \in Provider, m \in ModelId, k \in Key : BeginModel(c, p, m, k)
    \/ \E m \in ModelId, k \in Key : BeginSettings(c, m, k)
    \/ \E op \in {"toggle", "clear", "delete"}, p \in Provider : BeginChange(c, op, p)
    \/ \E op \in {"deleteModel", "activate"}, p \in Provider, m \in ModelId : BeginChoice(c, op, p, m)
    \/ BeginRead(c) \/ ReadRegistry(c) \/ WriteBack(c)
    \/ SaveSecret(c) \/ WriteEnv(c) \/ Commit(c) \/ AbandonRequest(c)

RegistrySpec == RegistryInit /\ [][RegistryNext]_registryVars

-----------------------------------------------------------------------------
RegistryTypeOK ==
  /\ registry.active \in Model /\ registry.flat \subseteq Provider \X ModelId \X Key
  /\ registry.providers \in [Provider -> [there : BOOLEAN, key : Key, own : [ModelId -> Key],
                                          models : SUBSET ModelId]]
  /\ {env, settings} \subseteq [url : Provider, key : Key, model : ModelId]
  /\ givenFor \in Seq(Provider) /\ Len(givenFor) <= MaxKeys /\ saved \subseteq Model
  /\ phase \in [Caller -> {"idle", "open", "read", "save", "env", "commit"}]

(* A key stays with the provider it was given for, whichever writes were lost, and *)
(* is sent to no other for a model the file knows: only the built-in one may also   *)
(* hold what the environment holds.                                          *)
KeysStayHome ==
  /\ \A c \in Caller : phase[c] = "read" =>
       LET call == Runtime(working[c], settings)
       IN call.key # 0 /\ call.url # OpenAI /\ working[c].active \in Named(working[c].flat)
            => givenFor[call.key] = call.url
  /\ \A p \in Custom : LET r == registry.providers[p]
       IN \A k \in {r.key} \cup {r.own[m] : m \in ModelId} : k # 0 => givenFor[k] = p

(* What a process works with has the rotated key of every provider, not the one    *)
(* the flat list still has.                                                   *)
RotationWins ==
  \A c \in Caller : phase[c] \in {"read", "commit"} =>
    \A e \in working[c].flat :
      LET r == working[c].providers[e[1]]
      IN r.there /\ e[2] \in r.models => e[3] = OwnOrProviders(r, e[2])

(* The selection of the file is one whose credentials were saved, however many      *)
(* activations failed and whoever wrote the file last.                         *)
SelectionWasSaved == registry.active \in saved

(* The model in use is one the file knows, however the handlers overlapped; only   *)
(* the old settings form may name another, which the environment then serves.      *)
SelectionIsThere ==
  registry.active \in Named(Normal(registry, env).flat) \cup formed

RegistrySafe == RegistryTypeOK /\ KeysStayHome /\ RotationWins /\ SelectionWasSaved /\ SelectionIsThere
=============================================================================
