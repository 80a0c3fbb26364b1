------------------------------ MODULE Settings ------------------------------
(***************************************************************************)
(* The settings an operator changes while the service works: service       *)
(* settings, providers and MCP servers (bootstrap/runtime.go,              *)
(* mcp_runtime.go and the files *_settings.go), and the router that uses   *)
(* the providers (modelrouter/router.go).  A setting is a field of one of  *)
(* three parts, its value the number of the update that made it, 0 for a   *)
(* provider or a server that is not configured.  Each part has a file of   *)
(* its own.                                                                *)
(*                                                                         *)
(* Left out: environment variables, which win over the files at a start,   *)
(* and the checks of single values.                                        *)
(***************************************************************************)
EXTENDS Integers, FiniteSets

CONSTANTS
    Editors,            \* requests that change settings
    ServiceFields,      \* fields of the service settings
    ModelProviders,     \* ids a provider may have
    CodexProviders,     \* those one signs in to
    Servers,            \* ids an MCP server may have
    MaxUpdates,         \* bound: updates
    MaxSettingFaults    \* bound: writes that fail, and crashes

ASSUME SettingsAssumption ==
    /\ Editors # {} /\ "nobody" \notin Editors /\ ModelProviders # {}
    /\ CodexProviders \subseteq ModelProviders
    /\ ServiceFields \cap ModelProviders = {} /\ ServiceFields \cap Servers = {}
    /\ ModelProviders \cap Servers = {}
    /\ MaxUpdates \in Nat \ {0} /\ MaxSettingFaults \in Nat

VARIABLES
    config,         \* Runtime.Config
    files,          \* service-settings.json, providers.json and mcp.json
    applied,        \* what the agent, the tools, the router and the MCP manager use
    editing,        \* the handlers, between their steps
    configMu,       \* Runtime.configMu, held for writing
    generation,     \* which adapters the router has: a number for each Replace
    limits,         \* per provider, the server whose limits its adapter has learned
    query,          \* requests for the model catalogue on their way
    tokens,         \* providers somebody is signed in to
    signing,        \* StartProviderOAuth after its look at the configuration
    promised,       \* history: what the operator was told is set
    updates,        \* updates asked for so far
    settingFaults   \* faults so far

settingsVars == <<config, files, applied, editing, configMu, generation, limits, query, tokens,
                  signing, promised, updates, settingFaults>>
valueVars == <<config, files, applied>>
routerVars == <<generation, limits, query>>
oauthVars == <<tokens, signing>>

-----------------------------------------------------------------------------
NotConfigured == 0
NobodyHolds == "nobody"
SettingParts == {"service", "providers", "mcp"}
SettingFields == ServiceFields \cup ModelProviders \cup Servers
FieldsOf(part) == CASE part = "service" -> ServiceFields
                    [] part = "providers" -> ModelProviders
                    [] part = "mcp" -> Servers

(* What a request says of a field: nothing (for a provider or a server: of *)
(* its secrets, which then stay), a new value, or that it is not listed.   *)
(* Bound: something of one field only.                                     *)
Wishes(part) ==
    {wish \in [FieldsOf(part) -> {"keep", "set", "drop"}] :
        /\ Cardinality({f \in FieldsOf(part) : wish[f] # "keep"}) = 1
        /\ part = "service" => \A f \in FieldsOf(part) : wish[f] # "drop"}

(* UpdateProviderSettings and UpdateMCPSettings take the secrets they are  *)
(* not given from the entry there is, if there is one.                     *)
Wished(base, edit) ==
    [f \in SettingFields |->
        IF f \notin FieldsOf(edit.part) \/ edit.wish[f] = "keep" THEN base[f]
        ELSE IF edit.wish[f] = "set" THEN edit.number ELSE NotConfigured]

Put(values, part, new) ==
    [f \in SettingFields |-> IF f \in FieldsOf(part) THEN new[f] ELSE values[f]]

NotEditing == [at |-> "idle"]
AllGone == [f \in SettingFields |-> NotConfigured]
Configured == {p \in ModelProviders : config[p] # NotConfigured}

SettingsInit ==
    /\ config = [f \in SettingFields |-> IF f \in Servers THEN NotConfigured ELSE 1]
    /\ files = config /\ applied = config /\ promised = config
    /\ editing = [e \in Editors |-> NotEditing] /\ configMu = NobodyHolds
    /\ generation = 1 /\ limits = [p \in ModelProviders |-> NotConfigured] /\ query = {}
    /\ tokens = {} /\ signing = {}
    /\ updates = 1 /\ settingFaults = 0

-----------------------------------------------------------------------------
(* A handler decodes its request and waits for configMu.  What it works on *)
(* is a copy of the configuration it finds then.                           *)
AskUpdate(e) ==
    /\ editing[e] = NotEditing /\ updates < MaxUpdates /\ updates' = updates + 1
    /\ \E part \in SettingParts : \E wish \in Wishes(part) :
        editing' = [editing EXCEPT ![e] = [at |-> "asked", part |-> part, wish |-> wish,
                                         number |-> updates + 1, base |-> AllGone]]
    /\ UNCHANGED <<valueVars, configMu, routerVars, oauthVars, promised, settingFaults>>

(* Bug: the copy is made before the lock is there.                         *)
LockAfterCopy(e) ==
    /\ \/ /\ editing[e].at = "asked" /\ editing[e].base = AllGone
          /\ editing' = [editing EXCEPT ![e].base = config] /\ UNCHANGED configMu
       \/ /\ editing[e].at = "asked" /\ editing[e].base # AllGone /\ configMu = NobodyHolds
          /\ configMu' = e /\ editing' = [editing EXCEPT ![e].at = "locked"]
    /\ UNCHANGED <<valueVars, routerVars, oauthVars, promised, updates, settingFaults>>

LockAndCopy(e) ==
    /\ editing[e].at = "asked" /\ configMu = NobodyHolds
    /\ configMu' = e
    /\ editing' = [editing EXCEPT ![e].at = "locked", ![e].base = config]
    /\ UNCHANGED <<valueVars, routerVars, oauthVars, promised, updates, settingFaults>>

Edited(e) == Wished(editing[e].base, editing[e])

(* validateConfig: the default provider must be among them.                *)
IsValid(e) == \E p \in ModelProviders : Edited(e)[p] # NotConfigured

LetGo(e) == /\ editing' = [editing EXCEPT ![e] = NotEditing]
            /\ configMu' = NobodyHolds

(* A check refuses the request, or the file cannot be written: nothing is  *)
(* changed.                                                                *)
Refuse(e) ==
    /\ editing[e].at = "locked" /\ LetGo(e)
    /\ UNCHANGED <<valueVars, routerVars, oauthVars, promised, updates, settingFaults>>

(* The file first: a temporary file that is synced and renamed.            *)
Persist(e) ==
    /\ editing[e].at = "locked" /\ IsValid(e)
    /\ files' = Put(files, editing[e].part, Edited(e))
    /\ editing' = [editing EXCEPT ![e].at = "persisted"]
    /\ UNCHANGED <<config, applied, configMu, routerVars, oauthVars, promised, updates,
                   settingFaults>>

(* UpdateServiceSettings: the whole copy becomes the configuration, then   *)
(* the agent, the tools and the memory are told.                           *)
ApplyService(e) ==
    /\ editing[e].part = "service"
    /\ \/ editing[e].at = "persisted" /\ config' = Edited(e)
          /\ editing' = [editing EXCEPT ![e].at = "halfway"] /\ UNCHANGED applied
       \/ editing[e].at = "halfway" /\ applied' = Put(applied, "service", Edited(e))
          /\ editing' = [editing EXCEPT ![e].at = "done"] /\ UNCHANGED config
    /\ UNCHANGED <<routerVars, oauthVars>>

(* UpdateProviderSettings: new adapters for all providers, which have not  *)
(* learned any limits; who is signed in to a provider that goes is signed  *)
(* out, and a sign-in that has begun is stopped, one that begins later not;*)
(* then the copy becomes the configuration.                                *)
ApplyProviders(e) ==
    /\ editing[e].part = "providers"
    /\ \/ /\ editing[e].at = "persisted"
          /\ applied' = Put(applied, "providers", Edited(e))
          /\ generation' = editing[e].number
          /\ limits' = [p \in ModelProviders |-> NotConfigured]
          /\ editing' = [editing EXCEPT ![e].at = "halfway"]
          /\ UNCHANGED <<config, query, oauthVars>>
       \/ /\ editing[e].at = "halfway"
          /\ LET leaving == {p \in Configured : Edited(e)[p] = NotConfigured}
             IN /\ tokens' = tokens \ leaving
                /\ \E late \in SUBSET leaving :
                     signing' = (signing \ leaving) \cup (signing \cap late)
          /\ config' = Edited(e)
          /\ editing' = [editing EXCEPT ![e].at = "done"]
          /\ UNCHANGED <<applied, routerVars>>

(* UpdateMCPSettings: the manager, then this part of the configuration.    *)
ApplyServers(e) ==
    /\ editing[e].part = "mcp"
    /\ \/ editing[e].at = "persisted" /\ applied' = Put(applied, "mcp", Edited(e))
          /\ editing' = [editing EXCEPT ![e].at = "halfway"] /\ UNCHANGED config
       \/ editing[e].at = "halfway" /\ config' = Put(config, "mcp", Edited(e))
          /\ editing' = [editing EXCEPT ![e].at = "done"] /\ UNCHANGED applied
    /\ UNCHANGED <<routerVars, oauthVars>>

Apply(e) ==
    /\ editing[e].at \in {"persisted", "halfway"}
    /\ ApplyService(e) \/ ApplyProviders(e) \/ ApplyServers(e)
    /\ UNCHANGED <<files, configMu, promised, updates, settingFaults>>

(* The handler answers; a field the request said nothing of stays promised.*)
Acknowledge(e) ==
    /\ editing[e].at = "done"
    /\ promised' = Wished(promised, editing[e])
    /\ LetGo(e)
    /\ UNCHANGED <<valueVars, routerVars, oauthVars, updates, settingFaults>>

-----------------------------------------------------------------------------
(* The model catalogue, at the start for every provider and whenever it is *)
(* shown.  The adapter that was asked keeps the limits it is told; one that*)
(* was replaced meanwhile is used by nobody.                               *)
AskCatalogue(p) ==
    /\ applied[p] # NotConfigured /\ query = {}    \* bound: one at a time
    /\ query' = query \cup {[provider |-> p, of |-> generation, server |-> applied[p]]}
    /\ UNCHANGED <<valueVars, editing, configMu, generation, limits, oauthVars>>
    /\ UNCHANGED <<promised, updates, settingFaults>>

(* Bug: limits are kept by the id of the provider.                         *)
LearnById(q) == limits' = [limits EXCEPT ![q.provider] = q.server]

Learn(q) ==
    limits' = IF q.of = generation THEN [limits EXCEPT ![q.provider] = q.server] ELSE limits

CatalogueAnswers(q) ==
    /\ q \in query /\ query' = query \ {q}
    /\ Learn(q) \/ UNCHANGED limits
    /\ UNCHANGED <<valueVars, editing, configMu, generation, oauthVars, promised, updates,
                   settingFaults>>

(* StartProviderOAuth looks at the configuration; the flow it starts ends  *)
(* without another look.                                                   *)
StartProviderOAuth(p) ==
    /\ p \in Configured \cap CodexProviders /\ configMu = NobodyHolds
    /\ signing' = signing \cup {p}
    /\ UNCHANGED <<valueVars, editing, configMu, routerVars, tokens, promised, updates,
                   settingFaults>>

SignedIn(p) ==
    /\ p \in signing /\ signing' = signing \ {p} /\ tokens' = tokens \cup {p}
    /\ UNCHANGED <<valueVars, editing, configMu, routerVars, promised, updates, settingFaults>>

(* A crash at any point, and a start: LoadConfig reads the files, Build    *)
(* makes everything from the configuration.                                *)
RestartService ==
    /\ settingFaults < MaxSettingFaults /\ settingFaults' = settingFaults + 1
    /\ config' = files /\ applied' = files /\ promised' = files
    /\ editing' = [e \in Editors |-> NotEditing] /\ configMu' = NobodyHolds
    /\ generation' = updates /\ limits' = [p \in ModelProviders |-> NotConfigured]
    /\ query' = {} /\ signing' = {}
    /\ UNCHANGED <<files, tokens, updates>>

SettingsNext ==
    \/ \E e \in Editors : \/ AskUpdate(e) \/ LockAndCopy(e) \/ Refuse(e) \/ Persist(e)
                          \/ Apply(e) \/ Acknowledge(e)
    \/ \E p \in ModelProviders : AskCatalogue(p) \/ StartProviderOAuth(p) \/ SignedIn(p)
    \/ \E q \in query : CatalogueAnswers(q)
    \/ RestartService

SettingsSpec == SettingsInit /\ [][SettingsNext]_settingsVars

-----------------------------------------------------------------------------
SettingsTypeOK ==
    /\ {config, files, applied, promised} \subseteq [SettingFields -> 0..MaxUpdates]
    /\ \A e \in Editors : 
         editing[e].at \in {"idle", "asked", "locked", "persisted", "halfway", "done"}
    /\ configMu \in Editors \cup {NobodyHolds}
    /\ generation \in 1..MaxUpdates /\ limits \in [ModelProviders -> 0..MaxUpdates]
    /\ query \subseteq [provider : ModelProviders, of : 1..MaxUpdates, server : 1..MaxUpdates]
    /\ tokens \subseteq CodexProviders /\ signing \subseteq CodexProviders
    /\ updates \in 1..MaxUpdates /\ settingFaults \in 0..MaxSettingFaults

(* What the operator was told is set is in the files, so that it outlives  *)
(* the process, unless a later update is about to replace it; and when no  *)
(* update is under way, the program uses what the files say.               *)
PromisesKept ==
    /\ \A f \in SettingFields : files[f] # promised[f] =>
            \E e \in Editors : /\ editing[e].at \in {"persisted", "halfway", "done"}
                               /\ f \in FieldsOf(editing[e].part) /\ files[f] = Edited(e)[f]
    /\ configMu = NobodyHolds => config = files /\ applied = files

(* The limits the context window is computed from were reported by the     *)
(* server that answers (router.go:216).                                    *)
LimitsAreOwn == \A p \in ModelProviders : limits[p] \in {NotConfigured, applied[p]}

SettingsHold == PromisesKept /\ LimitsAreOwn
=============================================================================
