--------------------------- MODULE ConfigDocument ---------------------------
(***************************************************************************)
(* What loadConfig makes of a configuration document: which documents it   *)
(* refuses, what it fills in or leaves out of those it accepts, and what   *)
(* the routes of an accepted configuration resolve to.                     *)
(*                                                                         *)
(* A document is a record of raw values.  An optional value is a sequence  *)
(* of at most one element; numbers stand for classes below, in and above   *)
(* the bounds of the parser that reads them.                               *)
(***************************************************************************)
EXTENDS Integers, Sequences, FiniteSets, SequencesExt

CONSTANTS MissingKeys,        \* names of environment variables that hold no key
          BenchmarkOrder      \* specs from the best to the worst, by the benchmark ranking

POOL_PREFIX == "pool"
AUTO_MODEL == "auto"
NoModel == "no-model"
Spec(provider, model) == [provider |-> provider, model |-> model]
PoolSpec(name) == Spec(POOL_PREFIX, name)
IsPoolSpec(spec) == spec.provider = POOL_PREFIX

Rejected == [ok |-> FALSE, value |-> [set |-> "refused"]]
Parsed(value) == [ok |-> TRUE, value |-> value]
-----------------------------------------------------------------------------
(* The optional blocks of "routing".  A raw block is absent, a bare flag,  *)
(* an object with a flag, an unknown key or a number, or something else.   *)

RawBlock(form, on, extra, n) == [form |-> form, on |-> on, extra |-> extra, n |-> n]
AbsentBlock == RawBlock("absent", "absent", FALSE, <<>>)
Unset == [set |-> "unset"]
Block(on, n) == [set |-> "block", on |-> on, n |-> n]
EmptyBlock == Block("absent", <<>>)
OnIsSound(raw) == raw.on # "bad"

\* A feature that is configured by being absent, a flag, or an object of known keys.
FeatureBlock(raw, numberIsSound) ==
  CASE raw.form = "absent" -> Parsed(EmptyBlock)
    [] raw.form = "flag" -> Parsed(Block(raw.on, <<>>))
    [] raw.form = "object" /\ ~raw.extra /\ OnIsSound(raw) /\ numberIsSound -> Parsed(Block(raw.on, raw.n))
    [] OTHER -> Rejected
Positive(n) == n = <<>> \/ n[1] > 0
Within(n, low, high) == n = <<>> \/ n[1] \in low..high
OrElse(n, default) == IF n = <<>> THEN <<default>> ELSE n

parseLatencyDemotion(raw) == FeatureBlock(raw, Positive(raw.n))
parseHedge(raw) == FeatureBlock(raw, Positive(raw.n))
parseProbation(raw) == FeatureBlock(raw, Positive(raw.n))
parseCrawl(raw) == FeatureBlock(raw, Positive(raw.n))
\* Pacing has no number: any key but the flag is unknown.
parsePacing(raw) == FeatureBlock(raw, raw.n = <<>>)

\* The quota block takes no bare flag, and lets unknown keys pass.
parseQuotaEnforcement(raw) ==
  CASE raw.form = "absent" -> Parsed(Unset)
    [] raw.form = "object" /\ OnIsSound(raw) -> Parsed(Block(raw.on, <<>>))
    [] OTHER -> Rejected

\* The number is the blocking wait's ceiling: one above it is lowered, not refused.
McpCeiling == 2
parseMcpSettings(raw) ==
  CASE raw.form = "absent" -> Parsed(Unset)
    [] raw.form = "object" /\ ~raw.extra /\ OnIsSound(raw) /\ Positive(raw.n) ->
         Parsed(Block(raw.on, IF raw.n # <<>> /\ raw.n[1] < McpCeiling THEN raw.n ELSE <<McpCeiling>>))
    [] OTHER -> Rejected

\* A lane probe, once it is an object, has to say whether it is on.
parseLaneProbe(raw) ==
  CASE raw.form = "absent" -> Parsed(Block("true", <<2>>))
    [] raw.form = "flag" -> Parsed(Block(raw.on, <<2>>))
    [] raw.form = "object" /\ ~raw.extra /\ raw.on \in {"true", "false"} /\ Within(raw.n, 1, 3) ->
         Parsed(Block(raw.on, OrElse(raw.n, 2)))
    [] OTHER -> Rejected

parseDispatchWalk(raw) ==
  CASE raw.form = "absent" -> Parsed(Block("true", <<2>>))
    [] raw.form = "flag" -> Parsed(Block(raw.on, <<2>>))
    [] raw.form = "object" /\ ~raw.extra /\ OnIsSound(raw) /\ Within(raw.n, 1, 3) ->
         Parsed(Block(IF raw.on = "absent" THEN "true" ELSE raw.on, OrElse(raw.n, 2)))
    [] OTHER -> Rejected

\* Stickiness has to say whether it is on, and tolerates unknown keys.
parseSticky(raw) ==
  CASE raw.form = "absent" -> Parsed(Unset)
    [] raw.form = "flag" -> Parsed(Block(raw.on, <<2>>))
    [] raw.form = "object" /\ raw.on \in {"true", "false"} /\ Within(raw.n, 1, 3) ->
         Parsed(Block(raw.on, OrElse(raw.n, 2)))
    [] OTHER -> Rejected

BlockNames == {"sticky", "quota", "latency", "hedge", "probation", "pacing", "crawl",
               "laneProbe", "dispatchWalk", "mcp"}
parseOptionalBlocks(raws) ==
  [sticky |-> parseSticky(raws.sticky), quota |-> parseQuotaEnforcement(raws.quota),
   latency |-> parseLatencyDemotion(raws.latency), hedge |-> parseHedge(raws.hedge),
   probation |-> parseProbation(raws.probation), pacing |-> parsePacing(raws.pacing),
   crawl |-> parseCrawl(raws.crawl), laneProbe |-> parseLaneProbe(raws.laneProbe),
   dispatchWalk |-> parseDispatchWalk(raws.dispatchWalk), mcp |-> parseMcpSettings(raws.mcp)]

\* Offloading: one flag for all, or a rule per client; a client's bare flag means its subagents.
\* A raw rule is [client, form, on, scope].
OffloadRule(on, scope) == [on |-> on, scope |-> scope]
parseOffload(raw) ==
  CASE raw.form = "absent" -> Parsed([all |-> "false", rules |-> <<>>])
    [] raw.form = "flag" -> Parsed([all |-> raw.on, rules |-> <<>>])
    [] raw.form = "rules" /\ \A r \in ToSet(raw.rules) : /\ r.on \in {"true", "false"}
                                                         /\ r.scope \in {"absent", "subagents", "all"} ->
         Parsed([all |-> "rules",
                 rules |-> [i \in DOMAIN raw.rules |->
                   [client |-> raw.rules[i].client, on |-> raw.rules[i].on,
                    scope |-> IF raw.rules[i].scope = "absent" THEN "subagents" ELSE raw.rules[i].scope]]])
    [] OTHER -> Rejected
-----------------------------------------------------------------------------
(* Providers.                                                              *)

\* The first slot to declare a label and a variable keeps them; a slot that is no slot is left out.
SlotIsSound(slot) == slot.shape = "sound"
Credential(slot) == [label |-> slot.label, authEnv |-> slot.authEnv, limits |-> slot.limits]
parseCredentialDeclarations(slots) ==
  LET Take(kept, slot) ==
        IF SlotIsSound(slot) /\ \A k \in ToSet(kept) : k.label # slot.label /\ k.authEnv # slot.authEnv
        THEN Append(kept, slot) ELSE kept
      taken == FoldSeq(LAMBDA slot, kept : Take(kept, slot), <<>>, Reverse(slots))
  IN  [i \in DOMAIN taken |-> Credential(taken[i])]

\* A provider's credentials are the caller's, one of its own, or a list: never two of these.
ModeIsSound(p) ==
  /\ p.mode # "bad"
  /\ ~(p.mode = "passthrough" /\ p.auth # "none")
  /\ ~(p.listed /\ (p.auth # "none" \/ p.mode = "passthrough"))
validateProviderCredentialMode(p) == IF p.listed THEN "contained" ELSE p.mode

parseProviderWire(p) == p.wire = "absent" \/ (p.kind = "openai" /\ p.wire \in {"chat", "responses"})
\* Every check is made of a disabled provider too: a typo in it refuses the document.
ProviderIsSound(name, p) ==
  /\ p.shape = "sound" /\ name \notin {POOL_PREFIX, AUTO_MODEL}
  /\ ModeIsSound(p) /\ Positive(p.maxConcurrent) /\ p.limits # "bad" /\ p.compat # "bad"
  /\ \A i \in DOMAIN p.credentials : SlotIsSound(p.credentials[i]) => p.credentials[i].limits # "bad"
  /\ parseProviderWire(p) /\ Positive(p.firstByteTimeoutMs)
IsDisabled(p) == p.base = "unset"
buildProviderConfig(p) ==
  [base |-> p.base, kind |-> p.kind, authEnv |-> p.auth,
   credentials |-> [listed |-> p.listed, slots |-> parseCredentialDeclarations(p.credentials)],
   credentialMode |-> validateProviderCredentialMode(p), maxConcurrent |-> p.maxConcurrent,
   limits |-> p.limits, compat |-> p.compat, wire |-> p.wire, timeoutMs |-> p.timeoutMs,
   stallTimeoutMs |-> p.stallTimeoutMs, firstByteTimeoutMs |-> p.firstByteTimeoutMs]

disabledProviders(doc) == {name \in DOMAIN doc.providers : IsDisabled(doc.providers[name])}
parseProviders(doc) ==
  [name \in DOMAIN doc.providers \ disabledProviders(doc) |-> buildProviderConfig(doc.providers[name])]
ProvidersAreSound(doc) ==
  /\ \A name \in DOMAIN doc.providers : ProviderIsSound(name, doc.providers[name])
  /\ DOMAIN doc.providers # disabledProviders(doc)
-----------------------------------------------------------------------------
(* Routes.                                                                 *)

dropDisabledSpecs(specs, disabled) == SelectSeq(specs, LAMBDA s : s.provider \notin disabled)
Nonempty(routes) == {key \in DOMAIN routes : routes[key] # <<>>}
pruneDisabledSpecEntries(routes, disabled) ==
  LET kept == [key \in DOMAIN routes |-> dropDisabledSpecs(routes[key], disabled)]
  IN  [key \in Nonempty(kept) |-> kept[key]]

\* A pool is a list, or a policy: preferred members, excluded ones, and what is free beside them.
parsePoolPolicy(raw) ==
  [dynamic |-> raw.form = "dynamic", exclude |-> raw.exclude, effort |-> raw.effort,
   preferred |-> IF raw.form = "dynamic" THEN SelectSeq(raw.members, LAMBDA s : s \notin raw.exclude)
                 ELSE raw.members]
parsePoolEntry(raw, disabled) ==
  LET policy == parsePoolPolicy(raw)
      members == dropDisabledSpecs(policy.preferred, disabled)
      sound == /\ raw.form \in {"static", "dynamic"}
               /\ raw.form = "dynamic" => raw.include = "free" /\ raw.effort # "bad"
               /\ members # <<>> \/ policy.dynamic
               /\ ~\E s \in ToSet(members) : IsPoolSpec(s)
  IN  IF sound THEN Parsed([policy EXCEPT !.preferred = members]) ELSE Rejected
parsePools(raws, disabled) == [name \in DOMAIN raws |-> parsePoolEntry(raws[name], disabled)]

\* A rung of a ladder: a command that is given the task, or a spec of the relay.
RungIsSound(r) ==
  \/ r.kind = "cli" /\ r.takesTask /\ Positive(r.maxConcurrent) /\ r.env # "bad"
  \/ r.kind = "relay"
parseLadder(rungs) ==
  /\ \A i \in DOMAIN rungs : RungIsSound(rungs[i]) /\ rungs[i].capability # "bad"
  /\ IsInjective([i \in DOMAIN rungs |-> rungs[i].id])
parseLadders(ladders) == \A tier \in DOMAIN ladders : ladders[tier] # <<>> /\ parseLadder(ladders[tier])
dropDisabledRungs(rungs, disabled) ==
  SelectSeq(rungs, LAMBDA r : r.kind = "relay" => r.spec.provider \notin disabled)

\* The template of a lane is given the spec and the task, the task never through its environment.
parseCliLane(raw) == raw = <<>> \/ (raw[1].takesSpec /\ raw[1].takesTask /\ raw[1].env \notin {"bad", "task"})

\* Only a list of defaults is pruned, and only if one of them survives.
DegradedDefault(specs, disabled) ==
  LET kept == dropDisabledSpecs(specs, disabled)
  IN  IF Len(specs) = 1 \/ kept = <<>> THEN specs ELSE kept

assertSpecResolvable(s, providers, pools) ==
  IF IsPoolSpec(s) THEN s.model \in pools
  ELSE /\ s.provider \in DOMAIN providers
       /\ providers[s.provider].kind = "openai" => s.model # NoModel
AllResolvable(specs, providers, pools) ==
  \A s \in ToSet(specs) : assertSpecResolvable(s, providers, pools)
RelaySpecs(rungs) == LET relays == SelectSeq(rungs, LAMBDA r : r.kind = "relay")
                     IN  [i \in DOMAIN relays |-> relays[i].spec]

\* The routing section of an accepted document: what is disabled has been taken out of it.
RoutingWith(doc, disabled, pools, blocks) ==
  LET ladders == [tier \in DOMAIN doc.ladders |-> dropDisabledRungs(doc.ladders[tier], disabled)]
  IN  [default |-> DegradedDefault(doc.default, disabled),
       tiers |-> pruneDisabledSpecEntries(doc.tiers, disabled),
       subagents |-> pruneDisabledSpecEntries(doc.subagents, disabled),
       pools |-> [name \in DOMAIN pools |-> pools[name].value.preferred],
       poolPolicies |-> [name \in {n \in DOMAIN pools : pools[n].value.dynamic} |-> pools[name].value],
       poolDegraded |-> <<>>,
       ladder |-> dropDisabledRungs(doc.ladder, disabled),
       ladders |-> [tier \in Nonempty(ladders) |-> ladders[tier]],
       offload |-> parseOffload(doc.offload).value, cliLane |-> doc.cliLane,
       benchmarkSort |-> doc.benchmarkSort,
       sticky |-> blocks.sticky.value, quota |-> blocks.quota.value, latency |-> blocks.latency.value,
       hedge |-> blocks.hedge.value, probation |-> blocks.probation.value, pacing |-> blocks.pacing.value,
       crawl |-> blocks.crawl.value, laneProbe |-> blocks.laneProbe.value,
       dispatchWalk |-> blocks.dispatchWalk.value, mcp |-> blocks.mcp.value]
RoutingOf(doc) == RoutingWith(doc, disabledProviders(doc), parsePools(doc.pools, disabledProviders(doc)),
                              parseOptionalBlocks(doc.blocks))

assertRoutingResolvable(routing, providers) ==
  LET pools == DOMAIN routing.pools
  IN  /\ AllResolvable(routing.default, providers, pools)
      /\ \A tier \in DOMAIN routing.tiers : AllResolvable(routing.tiers[tier], providers, pools)
      /\ \A name \in pools : AllResolvable(routing.pools[name], providers, {})
      /\ \A tier \in DOMAIN routing.subagents : AllResolvable(routing.subagents[tier], providers, pools)
      /\ AllResolvable(RelaySpecs(routing.ladder), providers, pools)
      /\ \A tier \in DOMAIN routing.ladders :
           AllResolvable(RelaySpecs(routing.ladders[tier]), providers, pools)

\* The syntax of the section, read before anything of it is resolved.
RoutingIsSound(doc) ==
      /\ doc.default # <<>>
      /\ \A pools \in {parsePools(doc.pools, disabledProviders(doc))} :
            \A name \in DOMAIN pools : pools[name].ok
      /\ parseOffload(doc.offload).ok
      /\ \A name \in BlockNames : parseOptionalBlocks(doc.blocks)[name].ok
      /\ parseLadder(doc.ladder) /\ parseLadders(doc.ladders) /\ parseCliLane(doc.cliLane)
-----------------------------------------------------------------------------
(* The rest of the document.                                               *)

\* The reshaper is a model of its own, or the models of a pool that can reshape; of a dynamic pool
\* they may have yet to be found.
ReshaperMembers(routing, providers, pool) ==
  SelectSeq(routing.pools[pool], LAMBDA s : /\ s.provider \in DOMAIN providers
                                            /\ providers[s.provider].kind = "openai" /\ s.model # NoModel)
resolveReshaperPool(doc, routing, providers) ==
  IF doc.reshaper.form # "pool" THEN Parsed(<<>>)
  ELSE IF doc.reshaper.name \notin DOMAIN routing.pools THEN Rejected
  ELSE LET members == ReshaperMembers(routing, providers, doc.reshaper.name)
           mayCome == /\ doc.reshaper.name \in DOMAIN routing.poolPolicies
                      /\ \E p \in DOMAIN providers : providers[p].kind = "openai"
       IN  IF members # <<>> \/ mayCome THEN Parsed(members) ELSE Rejected

HasReshaper(doc) == doc.reshaper.form \in {"own", "pool"}
normalizeMode(mode) == IF mode \in {"detect", "repair", "strict"} THEN mode ELSE "detect"
RepairIsSound(doc, providers) ==
  normalizeMode(doc.mode) = "repair" /\ ~HasReshaper(doc)
    => \A p \in DOMAIN providers : providers[p].kind = "openai"
ListenIsSound(doc) == doc.listen \in {"loopback", "other-port"}
LimitsAreSound(doc) == Positive(doc.logMaxBytes) /\ Within(doc.walkBudgetMs, 0, 9) /\ Positive(doc.maxBodyBytes)
parseLeaveMeAlone(raw) == raw # <<"bad">>

\* What the command line said when the daemon started comes before what the document says.
WithOverrides(doc, overrides) ==
  [doc EXCEPT !.mode = IF overrides.mode = "none" THEN @ ELSE overrides.mode,
              !.default = IF overrides.default = <<>> THEN @ ELSE overrides.default]

\* The configuration of a document whose parts have been parsed.
ConfigOf(doc, providers, routing, reshaper) ==
  LET sound == /\ ListenIsSound(doc) /\ ProvidersAreSound(doc)
               /\ RoutingIsSound(doc) /\ assertRoutingResolvable(routing, providers)
               /\ reshaper.ok /\ RepairIsSound(doc, providers)
               /\ LimitsAreSound(doc) /\ parseLeaveMeAlone(doc.leaveMeAlone)
  IN  IF ~sound THEN Rejected
      ELSE Parsed([listen |-> doc.listen, providers |-> providers, routing |-> routing,
                   mode |-> normalizeMode(doc.mode),
                   reshaper |-> [form |-> doc.reshaper.form, candidates |-> reshaper.value],
                   repairAttempts |-> IF Positive(doc.repairAttempts) THEN OrElse(doc.repairAttempts, 2) ELSE <<2>>,
                   destructiveTools |-> doc.destructiveTools, walkBudgetMs |-> doc.walkBudgetMs,
                   maxBodyBytes |-> doc.maxBodyBytes, log |-> doc.logMaxBytes,
                   leaveMeAlone |-> doc.leaveMeAlone, warnings |-> disabledProviders(doc)])

ConfigWith(doc, providers, routing) ==
  ConfigOf(doc, providers, routing, resolveReshaperPool(doc, routing, providers))

loadConfig(raw, overrides) ==
  LET doc == WithOverrides(raw, overrides)
  IN  ConfigWith(doc, parseProviders(doc), RoutingOf(doc))
-----------------------------------------------------------------------------
(* What a configuration resolves a request to.                             *)

\* A request names no model, a model of some tier, or a spec; it may bear marks of a subagent and
\* carry a directive.
DetectTier(model) == IF model.form = "bare" THEN model.tier ELSE "no-tier"
RoutingError == [ok |-> FALSE, targets |-> <<>>]

pickSpecs(model, cfg) ==
  LET tier == DetectTier(model)
  IN  IF model.form = "spec" /\ (IsPoolSpec(model.spec) \/ model.spec.provider \in DOMAIN cfg.providers)
      THEN <<model.spec>>
      ELSE IF tier \in DOMAIN cfg.routing.tiers THEN cfg.routing.tiers[tier]
      ELSE cfg.routing.default
\* Specs stay unless they name a pool, whose members take their place.
expandPoolSpecs(specs, cfg) ==
  FlattenSeq([i \in DOMAIN specs |->
    IF IsPoolSpec(specs[i]) /\ specs[i].model \in DOMAIN cfg.routing.pools
    THEN cfg.routing.pools[specs[i].model] ELSE <<specs[i]>>])

resolveToolCallIdMode(p) ==
  IF p.compat # "absent" THEN p.compat ELSE IF p.base = "mistral" THEN "strict9" ELSE "preserve"
resolveThoughtSignatureMode(p) == IF p.base = "google" THEN "sentinel" ELSE "none"
resolveReasoningMode(p) == IF p.base = "deepseek" THEN "deepseek" ELSE "none"
resolveFirstByteTimeoutMs(p) == IF p.firstByteTimeoutMs # <<>> THEN p.firstByteTimeoutMs ELSE p.stallTimeoutMs
resolveSingleSpec(spec, cfg) ==
  LET p == cfg.providers[spec.provider]
  IN  [spec |-> spec, base |-> p.base, kind |-> p.kind, authEnv |-> p.authEnv,
       credentials |-> p.credentials, mode |-> p.credentialMode, timeoutMs |-> p.timeoutMs,
       firstByteTimeoutMs |-> resolveFirstByteTimeoutMs(p), toolCallIds |-> resolveToolCallIdMode(p),
       thoughtSignature |-> resolveThoughtSignatureMode(p), reasoning |-> resolveReasoningMode(p),
       wire |-> p.wire]

\* Targets whose declared key is missing are left out, unless that leaves none.
filterUsableTargets(targets) ==
  LET usable == SelectSeq(targets, LAMBDA t : t.authEnv \notin MissingKeys)
  IN  IF usable # <<>> THEN usable ELSE targets
BenchmarkRank(spec) == LET at == {i \in DOMAIN BenchmarkOrder : BenchmarkOrder[i] = spec}
                       IN  IF at = {} THEN Len(BenchmarkOrder) + 1 ELSE CHOOSE i \in at : TRUE
rankTargetsByBenchmark(targets) ==
  SortSeq(targets, LAMBDA a, b : BenchmarkRank(a.spec) < BenchmarkRank(b.spec))
IsDynamicPool(specs, cfg) ==
  Len(specs) = 1 /\ IsPoolSpec(specs[1]) /\ specs[1].model \in DOMAIN cfg.routing.poolPolicies
rankNonDynamicTargets(picked, targets, cfg) ==
  IF ~IsDynamicPool(picked, cfg) /\ cfg.routing.benchmarkSort THEN rankTargetsByBenchmark(targets) ELSE targets

resolveTargets(model, cfg) ==
  LET picked == pickSpecs(model, cfg)
      specs == expandPoolSpecs(picked, cfg)
      targets == [i \in DOMAIN specs |-> resolveSingleSpec(specs[i], cfg)]
  IN  IF \E s \in ToSet(specs) : ~assertSpecResolvable(s, cfg.providers, {}) THEN RoutingError
      ELSE [ok |-> TRUE, targets |-> rankNonDynamicTargets(picked, filterUsableTargets(targets), cfg)]

\* A subagent says so in its system prompt, by its agent id, or in its turn's metadata.
isSubagentRequest(req) == req.marks # {}
directiveUnresolvableReason(spec, cfg) == ~assertSpecResolvable(spec, cfg.providers, DOMAIN cfg.routing.pools)
offloadRule(cfg, client) ==
  LET offload == cfg.routing.offload
      Of(c) == SelectSeq(offload.rules, LAMBDA r : r.client = c)
      found == Of(client) \o Of("default")
  IN  IF offload.all # "rules" THEN OffloadRule(offload.all, "subagents")
      ELSE IF found = <<>> THEN OffloadRule("false", "subagents")
      ELSE OffloadRule(found[1].on, found[1].scope)

\* What a request is routed by: the subagent's directive, the tier it is offloaded to, or its model.
subagentSpec(req, cfg) ==
  LET rule == offloadRule(cfg, req.client)
      tier == DetectTier(req.model)
      map == cfg.routing.subagents
      named == IF tier \in DOMAIN map THEN map[tier] ELSE IF "default" \in DOMAIN map THEN map["default"] ELSE <<>>
  IN  IF isSubagentRequest(req) /\ req.directive # <<>> THEN req.directive
      ELSE IF rule.on # "true" \/ (~isSubagentRequest(req) /\ rule.scope # "all") THEN <<>>
      ELSE named
\* The spec takes the place of the model's name: one without a model is read as a bare name.
RoutedModel(req, cfg) ==
  LET spec == subagentSpec(req, cfg)
  IN  IF spec = <<>> THEN req.model
      ELSE [form |-> IF spec[1].model = NoModel THEN "bare" ELSE "spec", tier |-> "no-tier", spec |-> spec[1]]
RouteRequest(req, cfg) ==
  IF isSubagentRequest(req) /\ req.directive # <<>> /\ directiveUnresolvableReason(req.directive[1], cfg)
  THEN RoutingError ELSE resolveTargets(RoutedModel(req, cfg), cfg)
=============================================================================
