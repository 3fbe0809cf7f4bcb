------------------------------ MODULE MCControl -----------------------------
(***************************************************************************)
(* What the relay is controlled by: the dashboard's sessions, the shared   *)
(* control capability, the configuration, and what its background loop     *)
(* learns of the providers, each in a behaviour of its own: `part` names   *)
(* the one whose steps a behaviour takes.                                  *)
(***************************************************************************)
EXTENDS DashboardSession, ConfigReload, BackgroundProbes, ModelCatalog

-----------------------------------------------------------------------------
(* The configuration that is loaded, and what may take its place.          *)

Own == [shape |-> "sound", kind |-> "openai", base |-> "plain", auth |-> "K1", listed |-> FALSE,
        credentials |-> <<>>, mode |-> "absent", maxConcurrent |-> <<>>, limits |-> "absent", compat |-> "absent",
        wire |-> "absent", timeoutMs |-> 1, stallTimeoutMs |-> <<>>, firstByteTimeoutMs |-> <<>>]
Caller == [Own EXCEPT !.kind = "anthropic", !.auth = "none", !.mode = "passthrough"]
Slot(label, env, limits) == [shape |-> "sound", label |-> label, authEnv |-> env, limits |-> limits]
Listed == [Own EXCEPT !.auth = "none", !.listed = TRUE,
             !.credentials = <<Slot("l1", "K1", "absent"), Slot("l2", "K2", "absent"), Slot("l1", "K3", "absent")>>]
Pool(form, members) == [form |-> form, members |-> members, exclude |-> {}, include |-> "free", effort |-> "absent"]
CliRung(id) == [id |-> id, kind |-> "cli", spec |-> Spec("none", NoModel), takesTask |-> TRUE,
                maxConcurrent |-> <<>>, env |-> "absent", capability |-> "absent"]
RelayRung(id, spec) == [CliRung(id) EXCEPT !.kind = "relay", !.spec = spec]
Lane == [takesSpec |-> TRUE, takesTask |-> TRUE, env |-> "absent"]
Base ==
  [listen |-> "loopback", providers |-> [p |-> Own, q |-> Listed, c |-> Caller],
   default |-> <<Spec("c", NoModel)>>, tiers |-> [opus |-> <<Spec("q", "m2"), Spec("p", "m1")>>],
   pools |-> [s |-> Pool("static", <<Spec("p", "m1"), Spec("q", "m1")>>), d |-> Pool("dynamic", <<Spec("q", "m2")>>)],
   subagents |-> ("opus" :> <<PoolSpec("d")>>) @@ ("default" :> <<PoolSpec("s")>>),
   ladder |-> <<CliRung("r1"), RelayRung("r2", Spec("q", "m1"))>>,
   ladders |-> [hard |-> <<RelayRung("r1", Spec("p", "m1"))>>],
   blocks |-> [b \in BlockNames |-> AbsentBlock], offload |-> [form |-> "flag", on |-> "false", rules |-> <<>>],
   cliLane |-> <<Lane>>, benchmarkSort |-> TRUE, reshaper |-> [form |-> "pool", name |-> "s"], mode |-> "repair",
   repairAttempts |-> <<>>, destructiveTools |-> "default", walkBudgetMs |-> <<>>, maxBodyBytes |-> <<>>,
   logMaxBytes |-> <<>>, leaveMeAlone |-> <<>>]
With(field, value) == [Base EXCEPT ![field] = value]
WithProvider(name, p) == [Base EXCEPT !.providers = [@ EXCEPT ![name] = p]]
BlockValues == {RawBlock("flag", "true", FALSE, <<>>), RawBlock("object", "true", FALSE, <<3>>),
                RawBlock("object", "absent", FALSE, <<1>>), RawBlock("object", "true", TRUE, <<>>),
                RawBlock("object", "bad", FALSE, <<>>), RawBlock("object", "false", FALSE, <<0>>),
                RawBlock("other", "absent", FALSE, <<>>)}
ProviderChanges ==
  {[Own EXCEPT !.base = "unset"], [Own EXCEPT !.base = "mistral"], [Own EXCEPT !.timeoutMs = 2],
   [Own EXCEPT !.firstByteTimeoutMs = <<1>>], [Own EXCEPT !.firstByteTimeoutMs = <<0>>],
   [Own EXCEPT !.stallTimeoutMs = <<1>>], [Own EXCEPT !.maxConcurrent = <<1>>], [Own EXCEPT !.maxConcurrent = <<0>>],
   [Own EXCEPT !.limits = "tight"], [Own EXCEPT !.limits = "bad"], [Own EXCEPT !.wire = "chat"],
   [Own EXCEPT !.compat = "strict9"], [Own EXCEPT !.mode = "passthrough"], [Own EXCEPT !.shape = "other"],
   [Own EXCEPT !.listed = TRUE], [Own EXCEPT !.kind = "anthropic"], [Own EXCEPT !.kind = "anthropic", !.wire = "chat"],
   [Own EXCEPT !.base = "unset", !.limits = "bad"],
   [Listed EXCEPT !.credentials[1].limits = "tight"], [Listed EXCEPT !.credentials[1].shape = "other"],
   [Listed EXCEPT !.credentials[2].limits = "bad"]}
MCSavedDocuments ==
  {Base, With("listen", "other-port"), With("listen", "public"), With("mode", "detect"),
   [Base EXCEPT !.reshaper = [form |-> "none", name |-> "s"]],
   [Base EXCEPT !.reshaper = [form |-> "pool", name |-> "d"]],
   [Base EXCEPT !.reshaper = [form |-> "pool", name |-> "unknown"]],
   [Base EXCEPT !.reshaper = [form |-> "own", name |-> "s"]],
   With("default", <<Spec("p", NoModel)>>), With("default", <<>>), With("default", <<Spec("p", "m1"), Spec("q", "m1")>>),
   With("default", <<PoolSpec("unknown")>>),
   With("tiers", [opus |-> <<Spec("unknown", "m1")>>]), With("tiers", [opus |-> <<PoolSpec("d")>>]),
   With("subagents", [opus |-> <<Spec("c", NoModel)>>]), With("subagents", [opus |-> <<Spec("unknown", "m1")>>]),
   With("ladder", <<CliRung("r1"), CliRung("r1")>>), With("ladder", <<[CliRung("r1") EXCEPT !.takesTask = FALSE]>>),
   With("ladder", <<RelayRung("r2", Spec("p", "m1"))>>), With("ladder", <<RelayRung("r2", Spec("unknown", "m1"))>>),
   With("ladders", [hard |-> <<>>]), With("ladders", [hard |-> <<CliRung("r3")>>]),
   With("cliLane", <<>>), With("cliLane", <<[Lane EXCEPT !.env = "task"]>>), With("benchmarkSort", FALSE),
   With("offload", [form |-> "rules", on |-> "absent", rules |-> <<[client |-> "claude", on |-> "true", scope |-> "all"]>>]),
   With("offload", [form |-> "rules", on |-> "absent", rules |-> <<[client |-> "default", on |-> "true", scope |-> "absent"]>>]),
   With("offload", [form |-> "rules", on |-> "absent", rules |-> <<[client |-> "claude", on |-> "bad", scope |-> "absent"]>>]),
   With("offload", [form |-> "other", on |-> "absent", rules |-> <<>>]),
   With("repairAttempts", <<0>>), With("repairAttempts", <<1>>), With("destructiveTools", "own"),
   With("walkBudgetMs", <<0>>), With("walkBudgetMs", <<-1>>), With("maxBodyBytes", <<0>>), With("maxBodyBytes", <<1>>),
   With("logMaxBytes", <<1>>), With("logMaxBytes", <<0>>), With("leaveMeAlone", <<"p">>), With("leaveMeAlone", <<"bad">>),
   [WithProvider("p", [Own EXCEPT !.base = "unset"]) EXCEPT !.default = <<Spec("p", "m1")>>],
   [WithProvider("q", [Listed EXCEPT !.base = "unset"]) EXCEPT !.pools.s = Pool("static", <<Spec("q", "m1")>>)],
   [Base EXCEPT !.providers = ("pool" :> Own) @@ @], [Base EXCEPT !.providers = [p |-> [Own EXCEPT !.base = "unset"]]],
   [Base EXCEPT !.providers = ("x" :> Own) @@ @],
   [Base EXCEPT !.pools.s = Pool("static", <<PoolSpec("d")>>)], [Base EXCEPT !.pools.s = Pool("other", <<>>)],
   [Base EXCEPT !.pools.s = Pool("static", <<Spec("c", NoModel)>>)],
   [Base EXCEPT !.pools.d.effort = "low"], [Base EXCEPT !.pools.d.effort = "high"], [Base EXCEPT !.pools.d.effort = "bad"],
   [Base EXCEPT !.pools.d.exclude = {Spec("q", "m2"), Spec("p", "m1")}], [Base EXCEPT !.pools.d.include = "other"]}
  \cup {WithProvider("p", p) : p \in ProviderChanges}
  \cup {[Base EXCEPT !.blocks = [@ EXCEPT ![b] = v]] : b \in BlockNames, v \in BlockValues}
MCSetCommands == {[field |-> "tiers", value |-> [opus |-> <<Spec("p", "m1")>>]]}
MCCatalogs == <<[p |-> <<>>, q |-> <<>>], [p |-> <<"m1", "m2">>, q |-> <<"m1", "m2">>]>>
MCFreeSpecs == {Spec("p", "m1"), Spec("q", "m1"), Spec("q", "m2")}
MCEfforts == [s \in {Spec("p", "m2"), Spec("q", "m1")} |-> IF s.provider = "p" THEN {"low", "high"} ELSE {"low"}]
MCBenchmark == <<Spec("p", "m1"), Spec("q", "m2"), Spec("p", "m2"), Spec("q", "m1")>>
MCToolless == {Spec("q", "m1")}
Model(form, tier, spec) == [form |-> form, tier |-> tier, spec |-> spec]
Req(model, marks, directive, client) == [model |-> model, marks |-> marks, directive |-> directive, client |-> client]
NoSpec == Spec("none", NoModel)
MCRouteRequests ==
  {Req(Model("none", "no-tier", NoSpec), {}, <<>>, "claude"), Req(Model("bare", "opus", NoSpec), {}, <<>>, "claude"),
   Req(Model("bare", "opus", NoSpec), {"system"}, <<>>, "claude"), Req(Model("bare", "haiku", NoSpec), {"agent"}, <<>>, "codex"),
   Req(Model("spec", "no-tier", PoolSpec("d")), {}, <<>>, "codex"),
   Req(Model("spec", "no-tier", Spec("p", "m1")), {}, <<>>, "claude"),
   Req(Model("bare", "opus", NoSpec), {"system"}, <<Spec("q", "m1")>>, "claude"),
   Req(Model("bare", "opus", NoSpec), {"system"}, <<Spec("c", NoModel)>>, "claude"),
   Req(Model("bare", "opus", NoSpec), {"turn"}, <<PoolSpec("unknown")>>, "codex")}
MCOverrides == [mode |-> "strict", default |-> <<>>]
SavedByHand == {With("mode", "none")}
-----------------------------------------------------------------------------
(* One deployment behind one credential, and a catalog of two providers.    *)

MCCell == [deployment |-> "p/m", credential |-> "k1"]
MCCells == {MCCell}
MCCredentials == <<[name |-> "k1", enabled |-> TRUE, key |-> TRUE, serves |-> {"p/m"}]>>
Record(context, top, price, rate) ==
  [context |-> <<context>>, topContext |-> <<top>>, output |-> <<"absent", context>>, topOutput |-> <<"absent">>,
   prompt |-> <<price>>, completion |-> <<"blank", price>>, rates |-> [a \in Axes |-> <<rate>>]]
MCRecordOf == <<Record("number", "absent", "zero", "zero"), Record("zero", "text", "text", "number")>>
MCFleet == [v1 |-> <<[key |-> "missing", answers |-> "list"], [key |-> "set", answers |-> "refused"],
                     [key |-> "set", answers |-> "list"]>>, v2 |-> <<>>]
-----------------------------------------------------------------------------
Symmetry == Permutations(Callers)

VARIABLE part

loopPart == <<loopVars, evidenceVars>>
controlVars == <<part, dashVars, cfgVars, loopPart, catalogVars>>

\* A behaviour starts with the base document in the file, or with another just saved over it; one of
\* the other parts has no use for a configuration.
FirstConfig == CfgInit(Base, Base, 0)
SavedConfig == \E doc \in MCSavedDocuments : CfgInit(Base, doc, MaxWrites)
NoConfig == /\ cfgFile = [torn |-> TRUE, doc |-> Unset, mtime |-> 0] /\ live = <<>> /\ liveMtime = 0
            /\ intended = Unset /\ daemonRead = IdleRead /\ editor = [e \in Editors |-> IdleEditor(Unset)]
            /\ cfgAnswer = Quiet
Evidence == \/ part = "samples" /\ \E p \in OldProbes : EvidenceStart(p, NoOldCalls)
            \/ part = "calls" /\ \E c \in OldCalls : EvidenceStart(<<>>, c)
            \/ part \notin {"samples", "calls"} /\ EvidenceStart(<<>>, NoOldCalls)
ControlInit == /\ DashInit /\ revision = 1
               /\ \/ part \in {"dashboard", "capability", "samples", "calls", "loop", "catalog"} /\ NoConfig
                  \/ part = "config" /\ (FirstConfig \/ SavedConfig)
               /\ Evidence /\ LoopInit /\ CatalogInit

Dashboard_ == part = "dashboard" /\ BrowserSteps /\ UNCHANGED <<part, cfgVars, loopPart, catalogVars>>
Capability_ == part = "capability" /\ CapabilitySteps /\ UNCHANGED <<part, cfgVars, loopPart, catalogVars>>
Config_ == part = "config" /\ CfgNext /\ UNCHANGED <<part, dashVars, loopPart, catalogVars>>
Samples_ == part = "samples" /\ SamplesNext /\ UNCHANGED <<part, dashVars, cfgVars, loopVars, catalogVars>>
Calls_ == part = "calls" /\ CallsNext /\ UNCHANGED <<part, dashVars, cfgVars, loopVars, catalogVars>>
Loop_ == part = "loop" /\ LoopNext /\ UNCHANGED <<part, dashVars, cfgVars, catalogVars>>
Catalog_ == part = "catalog" /\ CatalogNext /\ UNCHANGED <<part, dashVars, cfgVars, loopPart>>
ControlNext == Dashboard_ \/ Capability_ \/ Config_ \/ Samples_ \/ Calls_ \/ Loop_ \/ Catalog_
ControlSpec == ControlInit /\ [][ControlNext]_controlVars

\* The background loop by itself, and by the clock: timers fire when they are due and what a tick began it ends.
LoopAlone == /\ (ControlInit /\ part = "loop") /\ [][Loop_]_controlVars
             /\ WF_loopPart(TimerFires) /\ WF_loopPart(LoopTime)
             /\ \A t \in Ticks : WF_loopPart(TickSteps(t))
=============================================================================
