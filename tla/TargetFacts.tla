----------------------------- MODULE TargetFacts -----------------------------
(***************************************************************************)
(* What the relay has learned of its targets (target-facts.ts) and who     *)
(* says and unsays it: a refusal read by RefusalInterpretation, a stated   *)
(* ceiling, the spend a provider reports, an answer, the operator.  A fact *)
(* is kept by kind and scope, lasts until the moment it was stated for or  *)
(* its kind's lifetime, and may hold for some cost classes only.           *)
(***************************************************************************)
EXTENDS RefusalInterpretation

CONSTANTS
    FactTargets,    \* [provider, credential, model]: what can be asked, served or not
    AskedTargets,   \* the targets requests are sent to
    Enabled,        \* provider -> its enabled credentials
    FactReadings,   \* the verdicts a refusal may be read as
    Ceilings,       \* the kinds of ceiling a body or a header may state
    FactLifetime,   \* kind -> how long it lasts when no moment is stated
    HeaderTicks,    \* what a retry-after header may say, 0 when there is none
    Selectors,      \* [provider, credential, model]: what an operator may clear, "any" where unstated
    CostClasses, MaxFactClock, MaxFactEvents

VARIABLES
    facts,       \* <<kind, scope>> -> [at, until, basis, cost, value] in memory; until is 0 when unstated
    factFile,    \* the same on disk
    touchedAt,   \* when the pending save was asked for, 0 when there is none
    factNow, factEvents
factVars == <<facts, factFile, touchedAt, factNow, factEvents>>

-----------------------------------------------------------------------------
(* Scopes. *)

Scope(kind, provider, credential, models) ==
    [kind |-> kind, provider |-> provider, credential |-> credential, models |-> models]

\* What a verdict's template means for the attempt that was refused.
Materialize(template, t) ==
    CASE template.kind = "attempt"    -> Scope("attempt", t.provider, t.credential, {t.model})
      [] template.kind = "deployment" -> Scope("deployment", t.provider, "any", {t.model})
      [] template.kind = "credential" -> Scope("credential", t.provider, t.credential, {})
      [] template.kind = "provider"   -> Scope("provider", t.provider, "any", {})
      [] template.kind = "model"      -> Scope("model", "any", "any", {t.model})
      [] template.kind = "group"      -> Scope("group", t.provider, IF template.every THEN "any" ELSE t.credential,
                                               template.members \cup {t.model})

Covers(scope, t) ==
    CASE scope.kind \in {"attempt", "deployment", "group"} ->
            /\ scope.provider = t.provider /\ t.model \in scope.models
            /\ scope.credential \in {"any", t.credential}
      [] scope.kind = "credential" -> scope.provider = t.provider /\ scope.credential = t.credential
      [] scope.kind = "provider" -> scope.provider = t.provider
      [] scope.kind = "model" -> t.model \in scope.models

\* Faulty: a group with one member named is taken for that member.
InSelectorByMember(scope, sel) ==
    LET named(v, w) == v = "any" \/ v = w IN
    CASE scope.kind = "attempt" -> scope.provider = sel.provider /\ (\A m \in scope.models : named(sel.model, m))
                                   /\ named(sel.credential, scope.credential)
      [] scope.kind = "group" -> /\ scope.provider = sel.provider /\ (\E m \in scope.models : named(sel.model, m))
                                 /\ named(sel.credential, scope.credential)
      [] OTHER -> FALSE

\* The rule by which an operator's clear picks facts, kind of scope by kind of scope.
InSelector(scope, sel) ==
    LET named(v, w) == v = "any" \/ v = w IN
    /\ scope.kind # "model" /\ scope.provider = sel.provider
    /\ CASE scope.kind \in {"attempt", "group"} ->
                (\A m \in scope.models : named(sel.model, m)) /\ named(sel.credential, scope.credential)
         [] scope.kind = "deployment" -> sel.credential = "any" /\ (\A m \in scope.models : named(sel.model, m))
         [] scope.kind = "credential" -> sel.model = "any" /\ named(sel.credential, scope.credential)
         [] scope.kind = "provider" -> sel.model = "any" /\ sel.credential = "any"

-----------------------------------------------------------------------------
(* What holds of a target. *)

ConditionKinds == {"not-servable", "subscription-required", "allowance-exhausted", "credential-invalid", "rate-limited"}
CostBlocking == {"not-servable", "subscription-required"}
CoolingKinds == {"allowance-exhausted", "credential-invalid", "rate-limited"}

FactProviders == {t.provider : t \in FactTargets}
FactCredentials == {t.credential : t \in FactTargets}
FactModels == {t.model : t \in FactTargets}
ScopeKinds == {"attempt", "deployment", "credential", "provider", "model", "group"}
\* A target is any combination of names, of which there are always others, and nothing is named "any".
ASSUME FactAssumption ==
    /\ FactTargets = [provider : FactProviders, credential : FactCredentials, model : FactModels]
    /\ \A S \in {FactProviders, FactCredentials, FactModels} : "any" \notin S /\ \A x \in S : S # {x}
    /\ AskedTargets \subseteq FactTargets
    /\ Selectors \subseteq [provider : FactProviders, credential : FactCredentials \cup {"any"},
                            model : FactModels \cup {"any"}]
    /\ \A v \in FactReadings : /\ v.class \in DOMAIN FactLifetime /\ v.scope.kind \in ScopeKinds
                               /\ v.scope.kind = "group" => v.scope.members \subseteq FactModels
                               /\ v.reset.kind = "fixed" => v.reset.ticks \in Nat
    /\ \A b \in Bodies : b.again \in Nat /\ \A field \in DOMAIN b.fields : b.fields[field] \in Nat
    /\ "allowance-exhausted" \in DOMAIN FactLifetime /\ HeaderTicks \subseteq Nat
    /\ Ceilings \subseteq DOMAIN FactLifetime \ ConditionKinds
    /\ \A kind \in DOMAIN FactLifetime : FactLifetime[kind] \in Nat
    /\ MaxFactClock \in Nat /\ MaxFactEvents \in Nat

Expiry(fs, k) == IF fs[k].until > 0 THEN fs[k].until ELSE fs[k].at + FactLifetime[k[1]]
Live(fs, k, now) == now < Expiry(fs, k)
\* An empty set of cost classes holds for every target, any other for targets known to be of one of them.
AdmitsCost(fact, cost) == fact.cost = {} \/ cost \in fact.cost
FactsFor(fs, t, cost, now) == {k \in DOMAIN fs : Live(fs, k, now) /\ Covers(k[2], t) /\ AdmitsCost(fs[k], cost)}

CooldownUntil(fs, t, cost, now) ==
    Max({0} \cup {Expiry(fs, k) : k \in {k \in FactsFor(fs, t, cost, now) : k[1] \in CoolingKinds}})
CostBlocked(fs, t, cost, now) == \E k \in FactsFor(fs, t, cost, now) : k[1] \in CostBlocking
CostBlockedForEverySlot(fs, provider, model, cost, now) ==
    \A c \in Enabled[provider] :
        CostBlocked(fs, [provider |-> provider, credential |-> c, model |-> model], cost, now)

-----------------------------------------------------------------------------
(* Saying and unsaying. *)

FactEvent == /\ factEvents < MaxFactEvents /\ factEvents' = factEvents + 1
            /\ UNCHANGED <<factFile, factNow, refusalVars>>

Record(kind, scope, ticks, basis, cost, value) ==
    /\ facts' = With(facts, <<kind, scope>>,
                     [at |-> factNow, until |-> IF ticks > 0 THEN factNow + ticks ELSE 0,
                      basis |-> IF ticks > 0 THEN basis ELSE "none", cost |-> cost, value |-> value])
    /\ touchedAt' = factNow

\* The header first, a field the operator named, what the body says, and only then an operator's fixed time.
ResolveReset(v, header, b) ==
    CASE header > 0 -> [ticks |-> header, basis |-> "retry-after"]
      [] header = 0 /\ v.reset.kind = "field" /\ ResetByRule(v.reset, b) > 0 ->
            [ticks |-> ResetByRule(v.reset, b), basis |-> "reviewed-field"]
      [] OTHER -> IF ResetByBody(b) > 0 THEN [ticks |-> ResetByBody(b), basis |-> "stated-body"]
                  ELSE [ticks |-> IF v.reset.kind = "fixed" THEN ResetByRule(v.reset, b) ELSE 0, basis |-> "reviewed-fixed"]

\* An attempt is refused and its body is understood.
ObserveEligibility(t, v, header, b) ==
    LET reset == ResolveReset(v, header, b) IN
    /\ FactEvent
    /\ Record(v.class, Materialize(v.scope, t), reset.ticks, reset.basis, v.cost, 0)

\* A body states a ceiling of the deployment, or of the credential when it speaks of the account.
StateCeiling(t, kind, account) ==
    /\ FactEvent
    /\ Record(kind, IF account THEN Materialize(Template("credential"), t)
                    ELSE Materialize(Template(IF kind \in {"context-limit", "max-output"} THEN "deployment" ELSE "attempt"), t),
              0, "none", {}, 1)

Drop(ks) ==
    /\ facts' = Without(facts, ks)
    /\ touchedAt' = IF ks = {} THEN touchedAt ELSE factNow

\* The spend a provider reports: at its limit paid models are spent, below it they are not.
ApplySpend(provider, credential, state) ==
    /\ FactEvent
    /\ \/ /\ state = "exhausted"
          /\ Record("allowance-exhausted", Scope("credential", provider, credential, {}), 0, "none", {"paid"}, 0)
       \/ /\ state = "headroom"
          /\ Drop({k \in DOMAIN facts :
                     /\ k[1] = "allowance-exhausted" /\ facts[k].cost = {"paid"} /\ Live(facts, k, factNow)
                     /\ InSelector(k[2], [provider |-> provider, credential |-> credential, model |-> "any"])})

\* What an answer of the target disproves: conditions that cover it, in its cost class, expired or not.
Disproved(t, cost) ==
    {k \in DOMAIN facts : k[1] \in ConditionKinds /\ Covers(k[2], t) /\ AdmitsCost(facts[k], cost)}

\* A request or a ping is answered by the target.
ClearFacts(t, cost) ==
    /\ FactEvent
    /\ Drop(Disproved(t, cost))

\* The operator clears cooldowns, or the word that a key is bad.
OperatorClears(sel, kinds) ==
    /\ FactEvent
    /\ Drop({k \in DOMAIN facts : k[1] \in kinds /\ Live(facts, k, factNow) /\ InSelector(k[2], sel)})

\* What a save keeps: the facts not expired when it was asked for.
Unexpired(at) == Without(facts, {k \in DOMAIN facts : ~Live(facts, k, at)})
\* The write-behind timer saves with the time it was set at, a flush with the time it is.
FlushFacts ==
    /\ touchedAt > 0
    /\ \E at \in {touchedAt, factNow} : facts' = Unexpired(at)
    /\ factFile' = facts' /\ touchedAt' = 0
    /\ UNCHANGED <<factNow, factEvents, refusalVars>>

RestartFacts ==
    /\ facts' = factFile /\ touchedAt' = 0
    /\ UNCHANGED <<factFile, factNow, factEvents, refusalVars>>

FactTick ==
    /\ factNow < MaxFactClock
    /\ factNow' = factNow + 1
    /\ UNCHANGED <<facts, factFile, touchedAt, factEvents, refusalVars>>

-----------------------------------------------------------------------------
FactsInit == /\ facts = <<>> /\ factFile = <<>> /\ touchedAt = 0
             /\ factNow = 1 /\ factEvents = 0

OperatorKinds == {CoolingKinds, {"credential-invalid"}}

FactsNext ==
    \/ \E t \in AskedTargets, v \in FactReadings, header \in HeaderTicks, b \in Bodies : ObserveEligibility(t, v, header, b)
    \/ \E t \in AskedTargets, kind \in Ceilings, account \in BOOLEAN : StateCeiling(t, kind, account)
    \/ \E t \in AskedTargets, state \in {"exhausted", "headroom"} : ApplySpend(t.provider, t.credential, state)
    \/ \E t \in AskedTargets, cost \in CostClasses : ClearFacts(t, cost)
    \/ \E sel \in Selectors, kinds \in OperatorKinds : OperatorClears(sel, kinds)
    \/ FlushFacts \/ RestartFacts \/ FactTick
FactsSpec == FactsInit /\ RefusalInit /\ [][FactsNext]_factVars

-----------------------------------------------------------------------------
Cooled(fs, t, cost, now) == CooldownUntil(fs, t, cost, now) > now
Inside(sel, t) == /\ t.provider = sel.provider
                  /\ sel.credential \in {"any", t.credential}
                  /\ sel.model \in {"any", t.model}

\* An operator's clear lifts the facts that concern nothing outside the selector, all of them and no other:
\* a fact is picked exactly when every target it covers is one the operator named.
ClearsWhatIsNamed ==
    \A sel \in Selectors, kinds \in OperatorKinds :
        OperatorClears(sel, kinds) =>
            \A k \in DOMAIN facts : Live(facts, k, factNow) =>
                (k \notin DOMAIN facts' <=> k[1] \in kinds /\ \A t \in FactTargets : Covers(k[2], t) => Inside(sel, t))

\* An answer leaves nothing that keeps its target back, and touches no ceiling and no target it shares no fact with.
AnswersDisprove ==
    \A t \in AskedTargets, cost \in CostClasses :
        ClearFacts(t, cost) =>
            /\ ~Cooled(facts', t, cost, factNow) /\ ~CostBlocked(facts', t, cost, factNow)
            /\ \A k \in DOMAIN facts : k[1] \in Ceilings => k \in DOMAIN facts'
            /\ \A u \in FactTargets, c \in CostClasses :
                  CooldownUntil(facts', u, c, factNow) # CooldownUntil(facts, u, c, factNow) =>
                      \E k \in FactsFor(facts, u, c, factNow) : Covers(k[2], t)

\* A save or a restart with nothing unsaved changes no verdict on any target.
SavingChangesNothing ==
    (FlushFacts \/ (RestartFacts /\ touchedAt = 0)) =>
        \A t \in FactTargets, cost \in CostClasses :
            /\ CooldownUntil(facts', t, cost, factNow) = CooldownUntil(facts, t, cost, factNow)
            /\ CostBlocked(facts', t, cost, factNow) = CostBlocked(facts, t, cost, factNow)

FactsAreSaidAndUnsaid == [][ClearsWhatIsNamed /\ AnswersDisprove /\ SavingChangesNothing]_factVars
=============================================================================
