-------------------------- MODULE QuotaAvailability --------------------------
(***************************************************************************)
(* What the relay knows of one credential's quota, and the three verdicts  *)
(* it draws from it about a deployment: the hard cap (hard-cap.ts), which  *)
(* refuses, and quota demotion and pacing (quota-demotion.ts, pacing.ts),  *)
(* which only send the deployment to the back of the line.                 *)
(*                                                                         *)
(* Evidence comes from four places: rate-limit headers of responses        *)
(* (quota-observation.ts), ceilings stated in a 429's words                *)
(* (rate-limits.ts), limits the operator declared (configured-limits.ts)   *)
(* and the relay's own counts: finished requests in the ledger, attempt    *)
(* starts in the breaker.  availability.ts resolves them bucket by bucket. *)
(***************************************************************************)
EXTENDS Integers, FiniteSets, FiniteSetsExt, Sequences, SequencesExt

CONSTANTS
    QuotaModels,       \* models reached through the credential
    Buckets,           \* the <<axis, period>> pairs that occur
    Declarations,      \* declared limits: [Rungs -> [soft, hard : [LimitAxes -> Nat]]], 0: absent
    Responses,         \* header sets of responses, see Extracted
    RefusalBodies,     \* ceilings the words of a 429 state, see Stated
    UsageKinds,        \* what a finished request reports: [basis, tokens]
    LearnedNeverEnforced, \* routing.quota.enforceLearned is not set
    MinuteTicks, DayTicks,\* the lengths of the two calendar periods
    MaxQuotaTime,      \* bound: how far the clock runs
    MaxSent            \* bound: attempts sent

ASSUME QuotaAssumption ==
    /\ MinuteTicks \in Nat \ {0} /\ DayTicks \in Nat \ {0} /\ MaxQuotaTime \in Nat /\ MaxSent \in Nat
    /\ DayTicks % MinuteTicks = 0
    /\ Buckets \subseteq {"requests", "tokens"} \X {"minute", "day", "unknown"}

VARIABLES
    quotaNow,      \* the clock
    declared,      \* the operator's limits, resolved; fixed
    observed,      \* breaker: [QuotaModels -> [Buckets -> observation or NoObservation]]
    learned,       \* facts: [QuotaModels -> [Buckets -> stated ceiling or 0]]
    starts,        \* breaker: attempt starts, oldest first: [at, model, estimate]
    openSends,     \* attempts on the wire, by model
    finished       \* ledger: request rows, [at, model, usage]

quotaVars == <<quotaNow, declared, observed, learned, starts, openSends, finished>>

Never == -1        \* null
NoObservation == [limit |-> 0, remaining |-> 0, resetsAt |-> Never, at |-> Never]
AxisOf(b) == b[1]
PeriodOf(b) == b[2]
LimitAxes == {"rpm", "rpd", "tpm", "tpd"}
Shape(axis) == CASE axis = "rpm" -> <<"requests", "minute">> [] axis = "rpd" -> <<"requests", "day">>
                 [] axis = "tpm" -> <<"tokens", "minute">>   [] axis = "tpd" -> <<"tokens", "day">>

-----------------------------------------------------------------------------
(* Reading headers: each header names a metric, an axis and perhaps a period; *)
(* one that names no period, or two, is of the period "unknown" or dropped.   *)

\* A response is [headers: set of [metric, axis, period, value], retryAfter: ticks or Never];
\* a reset's value is a number of ticks from now.
Metric(r, b, metric) ==
    LET hs == {h \in r.headers : h.metric = metric /\ <<h.axis, h.period>> = b}
    IN IF hs = {} THEN Never ELSE (CHOOSE h \in hs : TRUE).value

HeaderBuckets(r) == {<<h.axis, h.period>> : h \in r.headers}
Whole(r, b) == Metric(r, b, "limit") # Never /\ Metric(r, b, "remaining") # Never
\* The reset of a bucket with no period, when it alone has one and it can only mean this bucket.
LooseReset(r, b) ==
    LET loose == <<AxisOf(b), "unknown">>
        whole == {c \in HeaderBuckets(r) : AxisOf(c) = AxisOf(b) /\ c # loose /\ Whole(r, c)}
    IN IF loose # b /\ ~Whole(r, loose) /\ whole = {b} THEN Metric(r, loose, "reset") ELSE Never

ResetTicks(r, b) ==
    CASE Metric(r, b, "reset") # Never -> Metric(r, b, "reset")
      [] Metric(r, b, "remaining") = 0 /\ r.retryAfter # Never -> r.retryAfter
      [] OTHER -> LooseReset(r, b)

\* extractQuotaObservations: only a bucket with a positive limit and a remaining count; the
\* reset in ticks from the response.
Extracted ==
    [r \in Responses |->
        [b \in {c \in HeaderBuckets(r) : Whole(r, c) /\ Metric(r, c, "limit") > 0} |->
            [limit |-> Metric(r, b, "limit"), remaining |-> Metric(r, b, "remaining"), resetTicks |-> ResetTicks(r, b)]]]
Observation(e) == [limit |-> e.limit, remaining |-> e.remaining, at |-> quotaNow,
                   resetsAt |-> IF e.resetTicks = Never THEN Never ELSE quotaNow + e.resetTicks]

\* recordQuotaObservations: the newest reading of a bucket replaces the one before.
Merged(old, new) == [b \in Buckets |-> IF b \in DOMAIN new THEN Observation(new[b]) ELSE old[b]]

\* parseStatedRateLimit: the first credible ceiling of each bucket; a count of what was sent is none.
Stated(body) ==
    LET credible == SelectSeq(body, LAMBDA s : ~s.usage /\ s.credible)
    IN [b \in {s.bucket : s \in ToSet(credible)} |->
            SelectSeq(credible, LAMBDA s : s.bucket = b)[1]]

-----------------------------------------------------------------------------
(* Declared limits: the most specific declaration of an axis wins, the soft *)
(* and the hard value of an axis each on its own.                           *)

Ladder == <<"credential-model", "provider-model", "credential", "provider">>
Declares(d, kind, axis) == SelectSeq(Ladder, LAMBDA rung : d[rung][kind][axis] # 0)
\* resolveConfiguredLimits, with the rung a hard value came from (scopeOfSource).
Resolved(d) ==
    LET value(kind, axis) == IF Declares(d, kind, axis) = <<>> THEN 0 ELSE d[Declares(d, kind, axis)[1]][kind][axis]
    IN [soft |-> [a \in LimitAxes |-> value("soft", a)],
        hard |-> [a \in {x \in LimitAxes : value("hard", x) # 0} |->
                    [cap |-> value("hard", a),
                     deployment |-> Declares(d, "hard", a)[1] \in {"credential-model", "provider-model"}]]]
ConfiguredFor(b) == LET axes == {a \in LimitAxes : Shape(a) = b}
                    IN IF axes = {} THEN 0 ELSE declared.soft[CHOOSE a \in axes : TRUE]

-----------------------------------------------------------------------------
(* Calendar periods, and the counts of what fell into the current one.      *)

PeriodTicks(p) == IF p = "minute" THEN MinuteTicks ELSE DayTicks
PeriodStart(t, p) == (t \div PeriodTicks(p)) * PeriodTicks(p)
PeriodEnd(t, p) == PeriodStart(t, p) + PeriodTicks(p)

\* usedInWindow of the ledger; the scope is one model or (None given) the whole credential.
RowsIn(p, models) == SelectSeq(finished, LAMBDA f : /\ f.model \in models
                                                    /\ f.at >= PeriodStart(quotaNow, p) /\ f.at <= quotaNow)
UsageOf(rows, basis) == FoldSeq(LAMBDA f, sum : IF f.usage.basis = basis THEN sum + f.usage.tokens ELSE sum, 0, rows)
Bases(rows) == {f.usage.basis : f \in ToSet(rows)} \ {"none"}
\* Never when nothing was counted, or when reported and estimated counts would have to be mixed.
Used(axis, p, models) ==
    LET rows == RowsIn(p, models) IN
    CASE rows = <<>> -> Never
      [] axis = "requests" -> Len(rows)
      [] Cardinality(Bases(rows)) = 1 -> UsageOf(rows, CHOOSE basis \in Bases(rows) : TRUE)
      [] OTHER -> Never

\* attemptsInWindow of the breaker: a trailing window, not a calendar one.
Trailing(m, p) == SelectSeq(starts, LAMBDA s : s.model = m /\ s.at > quotaNow - PeriodTicks(p))
Counted(axis, m, p) ==
    CASE axis = "requests" -> Len(Trailing(m, p))
      [] \E s \in ToSet(Trailing(m, p)) : s.estimate = Never -> Never
      [] OTHER -> FoldSeq(LAMBDA s, sum : sum + s.estimate, 0, Trailing(m, p))

-----------------------------------------------------------------------------
(* availability.ts                                                         *)

\* collectQuotaBuckets: a reading of an unknown period is only kept with a reset.
BucketsOf(m) == {b \in Buckets : \/ observed[m][b] # NoObservation /\ (PeriodOf(b) = "unknown" => observed[m][b].resetsAt # Never)
                                 \/ learned[m][b] # 0
                                 \/ ConfiguredFor(b) # 0}

\* Faulty: a reading counts until a newer one comes, whatever period it was taken in.
EverValid(o, p) == /\ o # NoObservation
                   /\ o.at <= quotaNow
                   /\ p = "unknown" => o.resetsAt > quotaNow

WithinCurrentPeriod(o, p) ==
    /\ o # NoObservation
    /\ o.at <= quotaNow
    /\ IF p = "unknown" THEN o.resetsAt > quotaNow ELSE o.at >= PeriodStart(quotaNow, p)

Limit(m, b) ==
    CASE observed[m][b].limit > 0 -> [value |-> observed[m][b].limit, basis |-> "provider-stated"]
      [] observed[m][b].limit = 0 /\ ConfiguredFor(b) # 0 -> [value |-> ConfiguredFor(b), basis |-> "configured"]
      [] observed[m][b].limit = 0 /\ ConfiguredFor(b) = 0 /\ learned[m][b] # 0 ->
            [value |-> learned[m][b], basis |-> "learned"]
      [] OTHER -> [value |-> 0, basis |-> "none"]

\* resolveRemaining: the provider's own count in its period, else a limit less the ledger's count.
Remaining(m, b) ==
    LET o == observed[m][b]
        limit == Limit(m, b)
        used == IF PeriodOf(b) = "unknown" THEN Never ELSE Used(AxisOf(b), PeriodOf(b), {m})
    IN IF WithinCurrentPeriod(o, PeriodOf(b))
       THEN [known |-> TRUE, value |-> o.remaining, basis |-> "provider-stated", routing |-> TRUE, resetsAt |-> o.resetsAt]
       ELSE [known |-> limit.value > 0 /\ used # Never, value |-> limit.value - used, basis |-> limit.basis,
             routing |-> limit.basis \in {"configured", "provider-stated"}, resetsAt |-> Never]

\* resolveResetsAt: the provider's own moment while it lies ahead, else the end of the period.
ResetsAt(r, b) ==
    CASE r.resetsAt > quotaNow -> r.resetsAt
      [] r.resetsAt <= quotaNow /\ PeriodOf(b) # "unknown" -> PeriodEnd(quotaNow, PeriodOf(b))
      [] OTHER -> Never

-----------------------------------------------------------------------------
(* The verdicts.                                                           *)

PeriodRank(p) == CASE p = "minute" -> 0 [] p = "day" -> 1 [] OTHER -> 3
BucketRank(b) == (IF AxisOf(b) = "requests" THEN 0 ELSE 10) + PeriodRank(PeriodOf(b))
Least(bs) == CHOOSE b \in bs : \A c \in bs : BucketRank(b) <= BucketRank(c)

Enforced(r) == r.routing \/ (~LearnedNeverEnforced /\ r.basis = "learned")
Spent(m) == {b \in BucketsOf(m) : LET r == Remaining(m, b) IN
                /\ r.known /\ r.value <= 0
                /\ Enforced(r)
                /\ ResetsAt(r, b) # Never}
Demoted(m) == Spent(m) # {}
\* Of the spent buckets the one that resets first.
DemotedUntil(m) == Min({ResetsAt(Remaining(m, b), b) : b \in Spent(m)})

Paces(m) == {b \in BucketsOf(m) :
                /\ PeriodOf(b) # "unknown"
                /\ Limit(m, b).basis # "none"
                /\ Counted(AxisOf(b), m, PeriodOf(b)) # Never
                /\ Counted(AxisOf(b), m, PeriodOf(b)) >= Limit(m, b).value}
Paced(m) == Paces(m) # {}

\* evaluateHardCap: the count is the model's when the cap was declared for a model, else the credential's.
CapModels(axis, m) == IF declared.hard[axis].deployment THEN {m} ELSE QuotaModels
Capped(m) == {Shape(a) : a \in {x \in DOMAIN declared.hard :
                Used(Shape(x)[1], Shape(x)[2], CapModels(x, m)) >= declared.hard[x].cap}}
CapResetsAt(m) == PeriodEnd(quotaNow, PeriodOf(Least(Capped(m))))

-----------------------------------------------------------------------------
QuotaInit == /\ quotaNow = 0
             /\ declared \in {Resolved(d) : d \in Declarations}
             /\ observed = [m \in QuotaModels |-> [b \in Buckets |-> NoObservation]]
             /\ learned = [m \in QuotaModels |-> [b \in Buckets |-> 0]]
             /\ starts = <<>> /\ finished = <<>>
             /\ openSends = [m \in QuotaModels |-> 0]

QuotaTick == /\ quotaNow < MaxQuotaTime
             /\ quotaNow' = quotaNow + 1
             /\ UNCHANGED <<declared, observed, learned, starts, openSends, finished>>

\* An attempt goes on the wire: the breaker counts its start.  Demotion and pacing do not forbid it.
Send(m) == /\ Capped(m) = {}
           /\ Len(starts) < MaxSent
           /\ \E estimate \in {Never, 1} : starts' = Append(starts, [at |-> quotaNow, model |-> m, estimate |-> estimate])
           /\ openSends' = [openSends EXCEPT ![m] = @ + 1]
           /\ UNCHANGED <<quotaNow, declared, observed, learned, finished>>

\* A response: its headers are read, and the request is a row of the ledger.
Finish(m) == /\ openSends[m] > 0
             /\ \E r \in Responses, u \in UsageKinds :
                    /\ observed' = [observed EXCEPT ![m] = Merged(@, Extracted[r])]
                    /\ finished' = Append(finished, [at |-> quotaNow, model |-> m, usage |-> u])
             /\ openSends' = [openSends EXCEPT ![m] = @ - 1]
             /\ UNCHANGED <<quotaNow, declared, learned, starts>>

\* A 429 whose words state ceilings: learned for the model, or for the credential when it says "your key".
Refused(m) == /\ openSends[m] > 0
              /\ \E body \in RefusalBodies :
                    learned' = [n \in QuotaModels |-> [b \in Buckets |->
                        IF b \in DOMAIN Stated(body) /\ (n = m \/ Stated(body)[b].account)
                        THEN Stated(body)[b].limit ELSE learned[n][b]]]
              /\ openSends' = [openSends EXCEPT ![m] = @ - 1]
              /\ UNCHANGED <<quotaNow, declared, observed, starts, finished>>

QuotaNext == \/ QuotaTick
             \/ \E m \in QuotaModels : Send(m)
             \/ \E m \in QuotaModels : Finish(m)
             \/ \E m \in QuotaModels : Refused(m)
QuotaSpec == QuotaInit /\ [][QuotaNext]_quotaVars

-----------------------------------------------------------------------------
(* Time only ever forgives: the clock alone brings no deployment a demotion *)
(* or a pacing verdict it did not have (but for an attempt of unknown size  *)
(* leaving the window: while it is in it, tokens are not paced), and a      *)
(* demotion on a named period does not outlive the period.                  *)
TimeForgives(m) == quotaNow' # quotaNow =>
    /\ Demoted(m)' => Demoted(m)
    /\ Paced(m)' => Paced(m) \/ \E s \in ToSet(Trailing(m, "day")) : s.estimate = Never
    /\ Capped(m)' \subseteq Capped(m)
    /\ \A b \in Spent(m) : PeriodOf(b) # "unknown" /\ quotaNow' >= PeriodEnd(quotaNow, PeriodOf(b)) => b \notin Spent(m)'
\* A refusal holds until the moment it named: nothing that arrives meanwhile lifts a hard cap.
CapHolds(m) == Capped(m) # {} /\ quotaNow' < CapResetsAt(m) => Capped(m)' # {}
\* What a refusal's words say demotes nothing unless the operator asked for it, and an answer
\* of the provider's own outranks every other count of the same period.
WordsAloneDoNotDemote(m) ==
    LearnedNeverEnforced /\ learned' # learned => (Demoted(m)' => Demoted(m))
QuotaVerdictsAreTimely ==
    [][\A m \in QuotaModels : TimeForgives(m) /\ CapHolds(m) /\ WordsAloneDoNotDemote(m)]_quotaVars
=============================================================================
