---------------------------- MODULE ConfigReload ----------------------------
(***************************************************************************)
(* The configuration of a running relay: read once at start, changed by    *)
(* POST /reload and POST /offload, while commands of other processes and   *)
(* the operator's text editor write the same file and requests are routed  *)
(* by what is live.  Dynamic pools are filled in from the catalog: their   *)
(* preferred specs, then what the catalog offers beside them, in the order *)
(* the relay would try them.                                               *)
(***************************************************************************)
EXTENDS ConfigDocument

CONSTANTS Editors,            \* processes that run "llm-relay config set"
          SavedDocuments,     \* what the operator's text editor may save
          SetCommands,        \* what "config set" may write: records [field, value]
          Overrides,          \* the daemon's command line
          RouteRequests,      \* requests a client may send
          OffloadClients,     \* clients of an offload switch, "all" for none in particular
          MaxWrites,          \* bound: how often the file is written
          Catalogs,           \* catalog revision -> provider -> sequence of its cached models
          CostBlocked,        \* specs whose cost every slot of their provider refuses
          FreeSpecs,          \* specs that cost nothing
          Toolless,           \* specs known to take no tools
          EffortsOf           \* spec -> the efforts its strength is allowed for

VARIABLES
    cfgFile,      \* the file: torn or whole, its document, and its modification time
    live,         \* <<the daemon's configuration>>, <<>> while it is down
    liveMtime,    \* the modification time the live configuration bears
    intended,     \* history: what the live configuration is meant to be
    daemonRead,   \* what the daemon's unfinished operation has read of the file
    editor,       \* editor -> its command's phase, and the document it is about to write
    cfgAnswer,    \* the daemon's last answer
    revision      \* the catalog's revision

cfgVars == <<cfgFile, live, liveMtime, intended, daemonRead, editor, cfgAnswer, revision>>

-----------------------------------------------------------------------------
(* Dynamic pools.                                                          *)

EFFORT_ORDER == <<"low", "medium", "high">>
\* The bands below an effort, nearest first; asking for none has none below it.
lowerBands(effort) ==
  IF effort \notin ToSet(EFFORT_ORDER) THEN <<>>
  ELSE Reverse(SubSeq(EFFORT_ORDER, 1, SelectInSeq(EFFORT_ORDER, LAMBDA e : e = effort) - 1))
strengthAllowedForEffort(spec, effort) == spec \in DOMAIN EffortsOf /\ effort \in EffortsOf[spec]

\* What the catalog knows of the providers that speak openai, and no slot is barred from.
CatalogSpecs(providers, rev) ==
  {Spec(p, m) : p \in {q \in DOMAIN providers \cap DOMAIN Catalogs[rev] : providers[q].kind = "openai"},
                m \in UNION {ToSet(models) : models \in Range(Catalogs[rev])}}
Offers(rev, spec) == spec.model \in ToSet(Catalogs[rev][spec.provider])
discoverDynamicTargets(cfg, rev) ==
  {s \in CatalogSpecs(cfg.providers, rev) : Offers(rev, s) /\ s \notin CostBlocked}
rankTargetsWithProvenance(specs) ==
  SortSeq(SetToSeq(specs), LAMBDA a, b : BenchmarkRank(a) < BenchmarkRank(b))

\* One of each provider in turn: the nth of every provider before the next of any.
interleaveByProvider(specs) ==
  LET Place(i) == [nth |-> Cardinality({j \in 1..i : specs[j].provider = specs[i].provider}),
                   first |-> SelectInSeq(specs, LAMBDA s : s.provider = specs[i].provider), spec |-> specs[i]]
      Before(a, b) == a.nth < b.nth \/ (a.nth = b.nth /\ a.first < b.first)
      sorted == SortSeq([i \in DOMAIN specs |-> Place(i)], Before)
  IN  [i \in DOMAIN sorted |-> sorted[i].spec]
orderBandByCost(specs) ==
  interleaveByProvider(SelectSeq(specs, LAMBDA s : s \in FreeSpecs))
    \o interleaveByProvider(SelectSeq(specs, LAMBDA s : s \notin FreeSpecs))

\* Whatever clears a lower band, the nearest band first.
computeDegradeTail(usable, effort, inBand) ==
  LET bands == lowerBands(effort)
      Clears(b) == SelectSeq(usable, LAMBDA s : /\ s \notin inBand /\ strengthAllowedForEffort(s, bands[b])
                                                /\ \A c \in 1..(b - 1) : ~strengthAllowedForEffort(s, bands[c]))
  IN  FlattenSeq([b \in DOMAIN bands |-> Clears(b)])

InBand(usable, effort) ==
  IF effort = "absent" THEN usable ELSE SelectSeq(usable, LAMBDA s : strengthAllowedForEffort(s, effort))
PoolParts(policy, ranked) ==
  LET usable == SelectSeq(ranked, LAMBDA s : s \notin policy.exclude /\ s \notin Toolless)
      band == InBand(usable, policy.effort)
      Fresh(specs) == SelectSeq(specs, LAMBDA s : s \notin ToSet(policy.preferred))
  IN  [band |-> Fresh(orderBandByCost(band)),
       tail |-> Fresh(orderBandByCost(computeDegradeTail(usable, policy.effort, ToSet(band))))]

\* What a pool of an accepted configuration holds once it has been filled in from the catalog.
FilledFrom(cfg, policies, parts) ==
  LET tails == {name \in DOMAIN policies : parts[name].tail # <<>>}
      Members(name) == IF name \in DOMAIN policies
                       THEN policies[name].preferred \o parts[name].band \o parts[name].tail
                       ELSE cfg.routing.pools[name]
  IN  IF DOMAIN policies = {} THEN cfg
      ELSE [cfg EXCEPT !.routing.pools = [name \in DOMAIN cfg.routing.pools |-> Members(name)],
                       !.routing.poolDegraded = [name \in tails |-> parts[name].tail]]
materializeDynamicPools(cfg, rev) ==
  LET policies == cfg.routing.poolPolicies
  IN  FilledFrom(cfg, policies,
        [name \in DOMAIN policies |->
           PoolParts(policies[name], rankTargetsWithProvenance(discoverDynamicTargets(cfg, rev)))])

-----------------------------------------------------------------------------
(* The daemon and the file.                                                *)

NoOverrides == [mode |-> "none", default |-> <<>>]
Quiet == [op |-> "none", result |-> "none", changed |-> {}]
ConfigAnswer(op, result, changed) == [op |-> op, result |-> result, changed |-> changed]
IdleRead == [op |-> "none", loaded |-> Rejected]
IdleEditor(doc) == [phase |-> "idle", doc |-> doc]
Live == live[1]
-----------------------------------------------------------------------------
(* What a reload may change, and what it may not.                          *)

PROVIDER_RELOADABLE_FIELDS == {"timeoutMs", "stallTimeoutMs", "firstByteTimeoutMs", "maxConcurrent", "limits"}
PROVIDER_RESTART_FIELDS == {"base", "kind", "authEnv", "credentialMode", "compat", "wire"}
\* Faulty: a field added to the routing section is in neither list.
FieldsForgotten ==
  {"default", "tiers", "pools", "poolPolicies", "poolDegraded", "subagents", "offload", "benchmarkSort",
   "quota", "latency", "probation", "pacing", "laneProbe", "ladder", "ladders", "cliLane"}
ROUTING_RELOADABLE_FIELDS ==
  {"default", "tiers", "pools", "poolPolicies", "poolDegraded", "subagents", "offload", "benchmarkSort",
   "quota", "latency", "probation", "pacing", "crawl", "laneProbe", "ladder", "ladders", "cliLane"}
ROUTING_RESTART_FIELDS == {"sticky", "hedge", "dispatchWalk", "mcp"}
TOP_RELOADABLE_FIELDS == {"mode", "reshaper", "repairAttempts", "walkBudgetMs", "maxBodyBytes", "leaveMeAlone"}
TOP_RESTART_FIELDS == {"listen", "log", "destructiveTools"}

\* A slot's limits may change under its name; nothing else of it may.
credentialIdentity(slot) == [slot EXCEPT !.limits = "any"]
credentialIdentityList(p) ==
  [listed |-> p.credentials.listed,
   slots |-> [i \in DOMAIN p.credentials.slots |-> credentialIdentity(p.credentials.slots[i])]]

Differing(fields, before, after) == {f \in fields : before[f] # after[f]}
SameProviders(a, b) == DOMAIN a.providers = DOMAIN b.providers
configReloadRestartPaths(before, after) ==
  Differing(TOP_RESTART_FIELDS, before, after)
  \cup Differing(ROUTING_RESTART_FIELDS, before.routing, after.routing)
  \cup IF ~SameProviders(before, after) THEN {"providers"}
       ELSE (UNION {Differing(PROVIDER_RESTART_FIELDS, before.providers[p], after.providers[p]) :
                    p \in DOMAIN before.providers})
            \cup IF \E p \in DOMAIN before.providers :
                      credentialIdentityList(before.providers[p]) # credentialIdentityList(after.providers[p])
                 THEN {"credentials"} ELSE {}
configReloadChangedPaths(before, after) ==
  Differing(TOP_RELOADABLE_FIELDS, before, after)
  \cup Differing(ROUTING_RELOADABLE_FIELDS, before.routing, after.routing)
  \cup IF ~SameProviders(before, after) THEN {}
       ELSE (UNION {Differing(PROVIDER_RELOADABLE_FIELDS, before.providers[p], after.providers[p]) :
                    p \in DOMAIN before.providers})
            \cup IF \E p \in DOMAIN before.providers :
                      LET a == before.providers[p].credentials.slots
                          b == after.providers[p].credentials.slots
                      IN  \E i \in DOMAIN a \cap DOMAIN b : a[i].limits # b[i].limits
                 THEN {"credential limits"} ELSE {}

\* The fields of the second record take over those of the first.
Replace(fields, before, after) ==
  [f \in DOMAIN before |-> IF f \in fields THEN after[f] ELSE before[f]]
applyProviderPolicy(p, next) ==
  LET slots == [i \in DOMAIN p.credentials.slots |->
                  [p.credentials.slots[i] EXCEPT !.limits = next.credentials.slots[i].limits]]
  IN  [Replace(PROVIDER_RELOADABLE_FIELDS, p, next) EXCEPT !.credentials.slots = slots]
applyConfigReload(before, after) ==
  [Replace(TOP_RELOADABLE_FIELDS \cup {"warnings"}, before, after) EXCEPT
     !.providers = [name \in DOMAIN before.providers |->
                      applyProviderPolicy(before.providers[name], after.providers[name])],
     !.routing = Replace(ROUTING_RELOADABLE_FIELDS, before.routing, after.routing)]

-----------------------------------------------------------------------------
(* The daemon.  It reads the file, and only then asks for its time.        *)

\* The dynamic pools of a configuration are filled in when it is loaded and before every request.
Filled(cfg) == materializeDynamicPools(cfg, revision)
DaemonFree == daemonRead.op = "none"
ReadFile(overrides) == IF cfgFile.torn THEN Rejected ELSE loadConfig(cfgFile.doc, overrides)
DaemonReads(op) ==
  /\ DaemonFree
  /\ daemonRead' = [op |-> op, loaded |-> ReadFile(Overrides)]
  /\ cfgAnswer' = Quiet
  /\ UNCHANGED <<cfgFile, live, liveMtime, intended, editor, revision>>
StartReads == live = <<>> /\ DaemonReads("start")
ReloadReads == live # <<>> /\ DaemonReads("reload")

\* The daemon serves what it loaded, or exits.
Starts ==
  /\ daemonRead.op = "start"
  /\ IF daemonRead.loaded.ok
     THEN \E cfg \in {Filled(daemonRead.loaded.value)} :
             /\ live' = <<cfg>> /\ intended' = cfg /\ liveMtime' = cfgFile.mtime
             /\ cfgAnswer' = ConfigAnswer("start", "ok", {})
     ELSE UNCHANGED <<live, intended, liveMtime, cfgAnswer>>
  /\ daemonRead' = IdleRead
  /\ UNCHANGED <<cfgFile, editor, revision>>

\* A reload is refused for the document, refused for what it changes, or taken over as a whole.
Reloads ==
  /\ daemonRead.op = "reload"
  /\ IF ~daemonRead.loaded.ok
     THEN cfgAnswer' = ConfigAnswer("reload", "invalid", {}) /\ UNCHANGED <<live, intended, liveMtime>>
     ELSE \E candidate \in {Filled(daemonRead.loaded.value)} :
         IF configReloadRestartPaths(Live, candidate) # {}
         THEN /\ cfgAnswer' = ConfigAnswer("reload", "restart", configReloadRestartPaths(Live, candidate))
              /\ UNCHANGED <<live, intended, liveMtime>>
         ELSE /\ cfgAnswer' = ConfigAnswer("reload", "ok", configReloadChangedPaths(Live, candidate))
              /\ live' = <<applyConfigReload(Live, candidate)>>
              /\ intended' = candidate /\ liveMtime' = cfgFile.mtime
  /\ daemonRead' = IdleRead
  /\ UNCHANGED <<cfgFile, editor, revision>>

DaemonStops ==
  /\ live # <<>> /\ DaemonFree
  /\ live' = <<>> /\ cfgAnswer' = Quiet
  /\ UNCHANGED <<cfgFile, liveMtime, intended, daemonRead, editor, revision>>

\* The switch of one client, or of all that have a rule.
Rule(client, on) == [client |-> client, on |-> on, scope |-> "subagents"]
setInFile(doc, client, on) ==
  LET raw == doc.offload
      Switched == [i \in DOMAIN raw.rules |->
                     IF client \in {"all", raw.rules[i].client} THEN [raw.rules[i] EXCEPT !.on = on] ELSE raw.rules[i]]
      Known == \E i \in DOMAIN raw.rules : raw.rules[i].client = client
      rules == IF client = "all" \/ Known THEN Switched
               ELSE Append(IF raw.form = "rules" THEN raw.rules
                           ELSE <<Rule("default", IF raw.form = "flag" THEN raw.on ELSE "false")>>,
                           Rule(client, on))
  IN  IF client = "all" /\ raw.form # "rules"
      THEN [doc EXCEPT !.offload = [form |-> "flag", on |-> on, rules |-> <<>>]]
      ELSE [doc EXCEPT !.offload = [form |-> "rules", on |-> "absent", rules |-> rules]]

\* The switch is read with the file and written beside it; others write the file meanwhile.
OffloadReads(client, on) ==
  /\ live # <<>> /\ DaemonFree /\ cfgFile.mtime < MaxWrites
  /\ LET doc == setInFile(cfgFile.doc, client, on)
         read == ~cfgFile.torn /\ parseOffload(doc.offload).ok
     IN  daemonRead' = [op |-> "offload", loaded |-> IF read THEN Parsed(doc) ELSE Rejected]
  /\ cfgAnswer' = Quiet
  /\ UNCHANGED <<cfgFile, live, liveMtime, intended, editor, revision>>
\* The new file takes the old one's place, and only then does the switch change in memory.
OffloadRenames ==
  /\ daemonRead.op = "offload" /\ daemonRead.loaded.ok
  /\ LET doc == daemonRead.loaded.value
         persisted == parseOffload(doc.offload).value
     IN  /\ cfgFile' = [torn |-> FALSE, doc |-> doc, mtime |-> cfgFile.mtime + 1]
         /\ live' = <<[Live EXCEPT !.routing.offload = persisted]>>
         /\ intended' = [intended EXCEPT !.routing.offload = persisted]
  /\ daemonRead' = IdleRead /\ cfgAnswer' = ConfigAnswer("offload", "persisted", {})
  /\ UNCHANGED <<liveMtime, editor, revision>>
\* The file cannot be read or written: the switch stays where it was.
OffloadFails ==
  /\ daemonRead.op = "offload"
  /\ daemonRead' = IdleRead /\ cfgAnswer' = ConfigAnswer("offload", "failed", {})
  /\ UNCHANGED <<cfgFile, live, liveMtime, intended, editor, revision>>

\* Whether the file has changed since it was loaded is told by its time alone.
configStaleness == cfgFile.mtime # liveMtime
AskTelemetry ==
  /\ live # <<>> /\ DaemonFree
  /\ cfgAnswer' = ConfigAnswer("telemetry", IF configStaleness THEN "changed" ELSE "same", {})
  /\ UNCHANGED <<cfgFile, live, liveMtime, intended, daemonRead, editor, revision>>
-----------------------------------------------------------------------------
(* Requests.  Every one fills in the dynamic pools before it is routed.    *)

RequestArrives(req) ==
  /\ live # <<>> /\ DaemonFree
  /\ \E cfg \in {Filled(Live)} :
        /\ cfgAnswer' = ConfigAnswer("request", IF RouteRequest(req, cfg).ok THEN "routed" ELSE "unroutable", {})
        /\ live' = <<cfg>>
  /\ intended' = Filled(intended)
  /\ UNCHANGED <<cfgFile, liveMtime, daemonRead, editor, revision>>
CatalogRefreshes ==
  /\ revision + 1 \in DOMAIN Catalogs /\ revision' = revision + 1 /\ cfgAnswer' = Quiet
  /\ UNCHANGED <<cfgFile, live, liveMtime, intended, daemonRead, editor>>
-----------------------------------------------------------------------------
(* Other processes that write the file.                                    *)

\* "config set" reads the document, edits it, and has its own copy of the result loaded first.
EditorReads(e, set) ==
  /\ editor[e].phase = "idle" /\ ~cfgFile.torn /\ cfgFile.mtime < MaxWrites
  /\ LET doc == [cfgFile.doc EXCEPT ![set.field] = set.value]
     IN  /\ doc # cfgFile.doc /\ loadConfig(doc, NoOverrides).ok
         /\ editor' = [editor EXCEPT ![e] = [phase |-> "checked", doc |-> doc]]
  /\ UNCHANGED <<cfgFile, live, liveMtime, intended, daemonRead, cfgAnswer, revision>>
\* Its write truncates the file before it fills it.
EditorTruncates(e) ==
  /\ editor[e].phase = "checked"
  /\ cfgFile' = [cfgFile EXCEPT !.torn = TRUE, !.mtime = @ + 1]
  /\ editor' = [editor EXCEPT ![e].phase = "writing"]
  /\ UNCHANGED <<live, liveMtime, intended, daemonRead, cfgAnswer, revision>>
EditorWrites(e) ==
  /\ editor[e].phase = "writing"
  /\ cfgFile' = [torn |-> FALSE, doc |-> editor[e].doc, mtime |-> cfgFile.mtime + 1]
  /\ editor' = [editor EXCEPT ![e] = IdleEditor(cfgFile.doc)]
  /\ UNCHANGED <<live, liveMtime, intended, daemonRead, cfgAnswer, revision>>
EditorDies(e) ==
  /\ editor[e].phase # "idle"
  /\ editor' = [editor EXCEPT ![e] = IdleEditor(cfgFile.doc)]
  /\ UNCHANGED <<cfgFile, live, liveMtime, intended, daemonRead, cfgAnswer, revision>>
\* The operator's own editor saves anything, whole.
OperatorSaves(doc) ==
  /\ cfgFile.mtime < MaxWrites /\ doc # cfgFile.doc
  /\ cfgFile' = [torn |-> FALSE, doc |-> doc, mtime |-> cfgFile.mtime + 1]
  /\ UNCHANGED <<live, liveMtime, intended, daemonRead, editor, cfgAnswer, revision>>
-----------------------------------------------------------------------------
\* A relay that is running the first document, or is down, with the second one in the file.
CfgInit(loaded, doc, writes) ==
  /\ cfgFile = [torn |-> FALSE, doc |-> doc, mtime |-> writes]
  /\ intended = Filled(loadConfig(loaded, Overrides).value)
  /\ live \in {<<>>, <<intended>>} /\ liveMtime = 0
  /\ daemonRead = IdleRead /\ editor = [e \in Editors |-> IdleEditor(doc)]
  /\ cfgAnswer = Quiet

CfgNext ==
  \/ StartReads \/ ReloadReads \/ Starts \/ Reloads \/ DaemonStops
  \/ \E client \in OffloadClients, on \in {"true", "false"} : OffloadReads(client, on)
  \/ OffloadRenames \/ OffloadFails \/ AskTelemetry
  \/ \E req \in RouteRequests : RequestArrives(req)
  \/ CatalogRefreshes
  \/ \E e \in Editors : \/ \E set \in SetCommands : EditorReads(e, set)
                        \/ EditorTruncates(e) \/ EditorWrites(e) \/ EditorDies(e)
  \/ \E doc \in SavedDocuments : OperatorSaves(doc)

\* Any document may be in the file; what runs, or last ran, was accepted.
AnyStart == \E loaded, doc, writes : loadConfig(loaded, Overrides).ok /\ CfgInit(loaded, doc, writes)
ConfigSpec == AnyStart /\ [][CfgNext]_cfgVars
-----------------------------------------------------------------------------
\* Whatever was edited, refused, reloaded and switched, in whatever order: what the daemon runs with
\* is the document it last loaded as a whole, with the offload switches it has persisted since, and
\* nothing of one it refused (applyConfigReload, setOffload).
LiveIsWhatWasLoaded == live # <<>> => Live = intended

\* A configuration that was accepted never fails a request that names nothing the configuration does
\* not have: what it is left to route by resolves, whatever was disabled, pruned, or reloaded since.
ConfigNeverMisroutes ==
  (cfgAnswer.op \in {"start", "reload"} /\ cfgAnswer.result = "ok") =>
    \A req \in RouteRequests :
      \/ RouteRequest(req, Live).ok
      \/ req.model.form = "spec"
      \/ isSubagentRequest(req) /\ req.directive # <<>>

\* The relay runs on the configuration it read, and every route in it leads where it says.
LiveConfigIsSound == LiveIsWhatWasLoaded /\ ConfigNeverMisroutes

\* A subagent's directive that is not refused is obeyed: the request is not served by the default
\* route instead (config.ts:413-416).
DirectiveIsObeyed ==
  (cfgAnswer.op = "start" /\ cfgAnswer.result = "ok") =>
    \A req \in RouteRequests :
      isSubagentRequest(req) /\ req.directive # <<>> /\ ~IsPoolSpec(req.directive[1])
        => \A t \in ToSet(RouteRequest(req, Live).targets) : t.spec.provider = req.directive[1].provider
=============================================================================
