----------------------------- MODULE MCDecisions ----------------------------
(***************************************************************************)
(* The parts of the relay that decide from what they remember, each in a   *)
(* behaviour of its own: `part` names the one whose steps a behaviour      *)
(* takes.                                                                  *)
(***************************************************************************)
EXTENDS QuotaAvailability, RequestRouting, TargetFacts

MCBuckets == {<<"requests", "minute">>, <<"requests", "day">>, <<"tokens", "day">>, <<"requests", "unknown">>}
Nothing == [soft |-> [a \in LimitAxes |-> 0], hard |-> [a \in LimitAxes |-> 0]]
\* Nothing declared, or a soft limit for the provider with a hard one for the credential or the model.
Declaring(hardRung) ==
    [rung \in {"credential-model", "provider-model", "credential", "provider"} |->
        IF rung = "provider" /\ hardRung # "none"
        THEN [Nothing EXCEPT !.soft = [@ EXCEPT !["rpm"] = 1, !["tpd"] = 2]]
        ELSE IF rung = hardRung THEN [Nothing EXCEPT !.hard = [@ EXCEPT !["rpm"] = 1, !["rpd"] = 2]]
        ELSE Nothing]
MCDeclarations == {Declaring(h) : h \in {"none", "credential", "provider-model"}}
Header(metric, period, v) == [metric |-> metric, axis |-> "requests", period |-> period, value |-> v]
MCResponses ==
    {[headers |-> {Header("limit", "minute", 2), Header("remaining", "minute", 0), Header("reset", "unknown", 1)}, retryAfter |-> -1],
     [headers |-> {Header("limit", "unknown", 2), Header("remaining", "unknown", 0), Header("reset", "unknown", 3)}, retryAfter |-> -1],
     [headers |-> {Header("limit", "day", 1), Header("remaining", "day", 0)}, retryAfter |-> 3]}
Mention(b, usage, account) == [bucket |-> b, limit |-> 1, usage |-> usage, account |-> account, credible |-> TRUE]
MCRefusalBodies == {<<Mention(<<"requests", "day">>, FALSE, TRUE)>>,
                    <<Mention(<<"requests", "minute">>, TRUE, FALSE), Mention(<<"tokens", "day">>, FALSE, FALSE)>>}
MCUsageKinds == {[basis |-> "reported", tokens |-> 1], [basis |-> "estimated", tokens |-> 2]}

MCPoolOrder == <<"p", "q">>
MCSlotsOf == [spec \in {"p", "q"} |-> IF spec = "p" THEN <<"k1", "k2">> ELSE <<"k1">>]
MCContextOf == [spec \in {"p", "q"} |-> IF spec = "p" THEN 1 ELSE 2]

\* Refusals: a message nothing understands, one a quota id explains, one an old normalizer left under another key.
NoQuota == [window |-> "none", per |-> {}]
Refusal(status, says, quota, delay) == [status |-> status, says |-> says, quota |-> quota, fields |-> [retryDelay |-> delay], again |-> 0]
MCBodies == {Refusal(429, "odd", NoQuota, 2), Refusal(400, "strange", NoQuota, 2),
             Refusal(429, "odd", [window |-> "long", per |-> {"project"}], 5)}
MCMatches == [p \in {"odd", "odd before", "strange", "known"} |-> IF p = "known" THEN {"quota spent", "account throttled"} ELSE {}]
MCNewForm == [p \in DOMAIN MCMatches |-> IF p = "odd before" THEN "odd" ELSE p]
MCDeclared == {[Verdict("not-servable", Template("deployment"), NoReset) EXCEPT !.by = "researched"]}
Said(phrase) == [model |-> "m1", status |-> 429, says |-> phrase]
MCOldFiles ==
    {[version |-> 2, token |-> 0, confirmed |-> <<>>, unknown |-> <<>>, ignored |-> <<>>],
     [version |-> 1, token |-> 1, unknown |-> Said("known") :> Entry(1, 1, 1), ignored |-> <<>>,
      confirmed |-> Said("odd before") :> [Verdict("rate-limited", Template("provider"), NoReset) EXCEPT !.by = "researched", !.at = 1]]}

Target(p, c, m) == [provider |-> p, credential |-> c, model |-> m]
MCFactTargets == {Target(p, c, m) : p \in {"p", "q"}, c \in {"k1", "k2"}, m \in {"m1", "m2"}}
MCAsked == {Target("p", "k1", "m1"), Target("p", "k2", "m2")}
MCEnabled == [p \in {"p", "q"} |-> {"k1", "k2"}]
MCFactReadings ==
    {Verdict("rate-limited", [kind |-> "group", members |-> {"m2"}, every |-> TRUE], [kind |-> "field", field |-> "retryDelay", ticks |-> 0]),
     Verdict("allowance-exhausted", Template("credential"), NoReset),
     Verdict("credential-invalid", Template("model"), [kind |-> "fixed", field |-> "none", ticks |-> 3]),
     [Verdict("not-servable", Template("attempt"), NoReset) EXCEPT !.cost = {"free"}]}
MCFactLifetime == [k \in ConditionKinds \cup {"context-limit"} |-> IF k = "rate-limited" THEN 1 ELSE 2]
MCSelectors == {Target("p", c, m) : c \in {"any", "k1"}, m \in {"any", "m1"}}

QuotaSymmetry == Permutations(QuotaModels)

VARIABLE part

decisionVars == <<part, quotaVars, routeVars, refusalVars, factVars>>

DecisionsInit == /\ part \in {"quota", "routing", "refusals", "facts"}
                 /\ QuotaInit /\ RouteInit /\ RefusalInit /\ FactsInit
                 /\ part # "refusals" => refFile.token = 0
                 /\ part # "quota" => declared = Resolved(Declaring("none"))
                 /\ part # "routing" => probation = {}
Quota_ == part = "quota" /\ QuotaNext /\ UNCHANGED <<part, routeVars, refusalVars, factVars>>
Routing_ == part = "routing" /\ RouteNext /\ UNCHANGED <<part, quotaVars, refusalVars, factVars>>
Refusals_ == part = "refusals" /\ RefusalNext /\ UNCHANGED <<part, quotaVars, routeVars, factVars>>
Facts_ == part = "facts" /\ FactsNext /\ UNCHANGED <<part, quotaVars, routeVars>>
DecisionsNext == Quota_ \/ Routing_ \/ Refusals_ \/ Facts_
DecisionsSpec == DecisionsInit /\ [][DecisionsNext]_decisionVars

\* The operator and the daemon at their one file.
RefusalsAlone == (DecisionsInit /\ part = "refusals") /\ [][Refusals_]_decisionVars
=============================================================================
