----------------------------- MODULE ProbeEvidence ---------------------------
(***************************************************************************)
(* What the relay knows of a deployment's health: the samples of its       *)
(* probes and of the requests it served (ping/probe-cache.ts, the history  *)
(* of ping/cadence.ts), the calls counted (ping/runtime-telemetry.ts), and *)
(* what is concluded from them (ping/metrics.ts, latency-demotion.ts,      *)
(* hedge-trigger.ts).  Moments are kept as ages, which stop growing at     *)
(* ProbeTtl, when nothing tells two of them apart any more; latencies are   *)
(* in tenths of a second.                                                  *)
(***************************************************************************)
EXTENDS Integers, Sequences, FiniteSets, SequencesExt, FiniteSetsExt, TLC

CONSTANTS
    Deployments,     \* "provider/model"
    HistoryLimit,    \* samples kept in memory
    SampleLimit,     \* samples kept in the cache
    RecentLimit,     \* calls kept by the telemetry
    ProbeTtl,        \* how long a good probe counts
    BrokenBackoff,   \* the first delay after a failed one
    DownAfter,       \* failures in a row that make a poor record a dead one
    MinCalls,        \* calls before a score is given
    MinRates,        \* samples before latency demotes or sets a hedge
    RateCeiling, LatencyCeiling,     \* ms per token, ms
    HedgeFloor, HedgePerToken, HedgeMargin,
    Latencies, TokenCounts, ProbeCodes,
    MaxEvidence      \* bound on the samples and calls recorded

Never == 1000000     \* no measurement

VARIABLES
    history,     \* deployment -> its samples in memory, oldest first
    probes,      \* deployment -> its entry of the probe cache, <<>> when there is none
    calls,       \* deployment -> its row of the telemetry, <<>> when there is none
    probeFile, callFile,   \* the same two on disk
    evidenceCount
evidenceVars == <<history, probes, calls, probeFile, callFile, evidenceCount>>

AsMany(f) == [d \in Deployments |-> f]
Newest(s, n) == SubSeq(s, IF Len(s) > n THEN Len(s) - n + 1 ELSE 1, Len(s))
Older(age) == IF age < ProbeTtl THEN age + 1 ELSE age

-----------------------------------------------------------------------------
(* Samples and what they say. *)

Sample(ms, code, tokens, source) == [ms |-> ms, code |-> code, tokens |-> tokens, source |-> source]

MeasurableCodes == {"200", "401"}
Measurable(ps) == SelectSeq(ps, LAMBDA p : p.code \in MeasurableCodes)
ProbesOf(ps) == SelectSeq(ps, LAMBDA p : p.source # "request")
Ascending(s) == SortSeq(s, LAMBDA a, b : a < b)
Values(ps, Field(_)) == [i \in DOMAIN ps |-> Field(ps[i])]
Total(s) == FoldLeft(LAMBDA a, b : a + b, 0, s)

MeasurableMs(ps) == Ascending(Values(Measurable(ps), LAMBDA p : p.ms))
\* A rate needs a request that reported its tokens.
Rated(ps) == SelectSeq(Measurable(ps), LAMBDA p : p.source = "request" /\ p.tokens > 0)
MsPerToken(ps) == Ascending(Values(Rated(ps), LAMBDA p : p.ms \div p.tokens))

\* The value at ceil(n * percent / 100), of an empty record none.
QuantileOf(ascending, percent) ==
    IF ascending = <<>> THEN Never
    ELSE ascending[Max({1, (Len(ascending) * percent + 99) \div 100})]
P95(ps) == QuantileOf(MeasurableMs(ps), 95)
P90(ps) == QuantileOf(MeasurableMs(ps), 90)

Rounded(n, d) == (2 * n + d) \div (2 * d)
Average(ps) == IF Measurable(ps) = <<>> THEN Never ELSE Rounded(Total(MeasurableMs(ps)), Len(MeasurableMs(ps)))
\* The rounded standard deviation: j with j - 1/2 <= sqrt(n * sum of squares - square of the sum) / n < j + 1/2.
Jitter(ps) ==
    LET s == MeasurableMs(ps)
        n == Len(s)
        spread == n * Total([i \in DOMAIN s |-> s[i] * s[i]]) - Total(s) * Total(s)
    IN IF n < 2 THEN 0
       ELSE CHOOSE j \in 0..Max(Latencies) :
               /\ (IF j = 0 THEN TRUE ELSE (2 * j - 1) * (2 * j - 1) * n * n <= 4 * spread)
               /\ 4 * spread < (2 * j + 1) * (2 * j + 1) * n * n
SlowPings(ps) == Len(SelectSeq(Measurable(ps), LAMBDA p : p.ms > 30))
Answered(ps) == SelectSeq(ps, LAMBDA p : p.code = "200")
Uptime(ps) == IF ps = <<>> THEN 0 ELSE Rounded(100 * Len(Answered(ps)), Len(ps))

Clamped(n) == Max({0, Min({100, n})})
\* Latency quality scaled by availability; only a deployment without a sample has no score.
StabilityScore(ps) ==
    LET p95 == Clamped(100 - 2 * Min({P95(ps), 50}))
        jitter == Clamped(100 - 5 * Jitter(ps))
        n == Max({1, Len(Measurable(ps))})
    IN IF ps = <<>> THEN -1
       ELSE Rounded(((2 * p95 + 2 * jitter + 100) * n - 100 * SlowPings(ps)) * Uptime(ps), 500 * n)

TrailingFailures(ps) ==
    Len(ps) - Max({0} \cup {i \in DOMAIN ps : ps[i].code = "200"})
CredentialCodes == {"401", "403"}
IsPersistentlyDown(ps) ==
    /\ ps # <<>>
    /\ \/ Last(ps).code \in CredentialCodes
       \/ Answered(ps) = <<>>
       \/ TrailingFailures(ps) >= DownAfter /\ Uptime(ps) < 50

VerdictBySpeed(ps) ==
    LET spiky(ms) == Len(Measurable(ps)) >= 3 /\ P95(ps) > ms IN
    CASE Average(ps) = Never    -> "Pending"
      [] Average(ps) \in 0..3   -> IF spiky(30) THEN "Spiky" ELSE "Perfect"
      [] Average(ps) \in 4..9   -> IF spiky(50) THEN "Spiky" ELSE "Normal"
      [] Average(ps) \in 10..49 -> "Slow"
      [] OTHER                  -> "Unstable"
Verdict(ps) ==
    IF ps # <<>> /\ Last(ps).code = "429" THEN "Overloaded"
    ELSE IF ~IsPersistentlyDown(ps) THEN VerdictBySpeed(ps)
    ELSE IF Answered(ps) # <<>> THEN "Unstable" ELSE "Not Active"

-----------------------------------------------------------------------------
(* What routing does with them. *)

NotDemoted == [basis |-> "none", measured |-> 0, samples |-> 0]
\* Enough rates decide alone; without them the probes do.
ResolveLatencyDemotion(ps) ==
    LET rates == MsPerToken(ps)
        timed == Measurable(ProbesOf(ps))
    IN IF Len(rates) >= MinRates
       THEN IF QuantileOf(rates, 95) > RateCeiling
            THEN [basis |-> "per-token", measured |-> QuantileOf(rates, 95), samples |-> Len(rates)] ELSE NotDemoted
       ELSE IF Len(timed) >= MinRates /\ P95(timed) > LatencyCeiling
            THEN [basis |-> "absolute", measured |-> P95(timed), samples |-> Len(timed)] ELSE NotDemoted

InputSizeFloor(input) == Max({HedgeFloor, HedgePerToken * input})
HedgeThreshold(ps, seen, input) ==
    LET floor == InputSizeFloor(input)
        rates == MsPerToken(ps)
        timed == Measurable(ProbesOf(ps))
    IN CASE seen > 0 /\ Len(rates) >= MinRates -> Max({floor, QuantileOf(rates, 90) * seen * HedgeMargin})
         [] ~(seen > 0 /\ Len(rates) >= MinRates) /\ Len(timed) >= MinRates -> Max({floor, P90(timed) * HedgeMargin})
         [] OTHER -> floor
\* A second attempt is worth starting once the first is this slow; a paid one never is.
ShouldHedge(ps, elapsed, seen, input, free) == free /\ elapsed > HedgeThreshold(ps, seen, input)
HedgeDelay(ps, free, input) == IF free THEN HedgeThreshold(ps, 0, input) ELSE Never

-----------------------------------------------------------------------------
(* The probe cache. *)

\* What this process has seen, or what earlier ones left.
GetModelPings(d) == IF history[d] # <<>> \/ probes[d] = <<>> THEN history[d] ELSE probes[d].samples

TrailingBroken(entry) == Max({1, TrailingFailures(entry.samples)})
BackoffOf(entry) == Min({ProbeTtl, BrokenBackoff * 2 ^ Min({10, TrailingBroken(entry) - 1})})

\* The age of the last call that succeeded, Never without one.
LastSuccessAge(d) ==
    IF calls[d] = <<>> THEN Never
    ELSE LET ok == {i \in DOMAIN calls[d].recent : calls[d].recent[i].ok}
         IN IF ok = {} THEN Never ELSE calls[d].recent[Max(ok)].age

\* A call that succeeded since the last probe stands for a probe.
DueForProbe(d) ==
    LET passive == LastSuccessAge(d)
        entry == probes[d]
    IN CASE entry = <<>> -> passive >= ProbeTtl
         [] entry # <<>> /\ ~entry.current -> TRUE
         [] entry # <<>> /\ entry.current /\ passive < entry.age -> passive >= ProbeTtl
         [] entry # <<>> /\ entry.current /\ passive >= entry.age /\ entry.status = "broken" ->
                entry.age >= BackoffOf(entry)
         [] OTHER -> entry.age >= ProbeTtl

\* A probe's answer joins the window and the totals and decides when the next is due.
ProbeEntry(prev, ms, code) ==
    LET ok == IF code = "200" THEN 1 ELSE 0
        had == IF prev = <<>> THEN <<>> ELSE prev.samples
        sums == IF prev = <<>> THEN [probes |-> 0, ok |-> 0, ms |-> 0] ELSE prev.totals
    IN [status |-> IF ok = 1 THEN "ok" ELSE "broken", age |-> 0, current |-> TRUE,
        samples |-> Newest(Append(had, Sample(ms, code, 0, "probe")), SampleLimit),
        totals |-> [probes |-> sums.probes + 1, ok |-> sums.ok + ok, ms |-> sums.ms + ms]]

EvidenceStep == evidenceCount < MaxEvidence /\ evidenceCount' = evidenceCount + 1

\* Faulty: a process that has just started begins a history of its own.
RecordPingAfresh(d, ms, code) ==
    /\ history' = [history EXCEPT ![d] = Newest(Append(@, Sample(ms, code, 0, "probe")), HistoryLimit)]
    /\ probes' = [probes EXCEPT ![d] = ProbeEntry(@, ms, code)]
RecordPing(d, ms, code) ==
    /\ history' = [history EXCEPT ![d] = Newest(Append(GetModelPings(d), Sample(ms, code, 0, "probe")), HistoryLimit)]
    /\ probes' = [probes EXCEPT ![d] = ProbeEntry(@, ms, code)]

\* A request was served: its sample joins the window, and touches nothing that schedules a probe.
RecordRequestLatency(d, ms, tokens) ==
    LET s == Sample(ms, "200", tokens, "request") IN
    /\ history' = [history EXCEPT ![d] = Newest(Append(GetModelPings(d), s), HistoryLimit)]
    /\ probes' = IF probes[d] = <<>> THEN probes
                 ELSE [probes EXCEPT ![d].samples = Newest(Append(@, s), SampleLimit)]

CountRequestSamples(d) ==
    IF probes[d] = <<>> THEN 0 ELSE Len(SelectSeq(probes[d].samples, LAMBDA p : p.source = "request"))
LifetimeUptime(d) ==
    IF probes[d] = <<>> THEN -1 ELSE Rounded(100 * probes[d].totals.ok, probes[d].totals.probes)

-----------------------------------------------------------------------------
(* The telemetry. *)

NoCalls == [total |-> 0, success |-> 0, latency |-> 0, tokens |-> 0, tokenCalls |-> 0, age |-> 0, recent |-> <<>>]
\* A call is counted; its tokens only when they were reported, which 0 says they were not.
RecordModelCall(d, ok, ms, tokens) ==
    LET m == IF calls[d] = <<>> THEN NoCalls ELSE calls[d] IN
    calls' = [calls EXCEPT ![d] =
        [total |-> m.total + 1, success |-> m.success + (IF ok THEN 1 ELSE 0), latency |-> m.latency + ms,
         tokens |-> m.tokens + tokens, tokenCalls |-> m.tokenCalls + (IF tokens > 0 THEN 1 ELSE 0), age |-> 0,
         recent |-> Newest(Append(m.recent, [ok |-> ok, ms |-> ms, tokens |-> tokens, age |-> 0]), RecentLimit)]]

\* A row of the file is taken when its counts are possible; the first version's tokens were never measured.
SoundRow(m) == m.success <= m.total /\ m.tokenCalls <= m.total
NormalizeModel(m, version) ==
    LET kept == IF version = 1
                THEN [m EXCEPT !.tokens = 0, !.tokenCalls = 0, !.recent = [i \in DOMAIN @ |-> [@[i] EXCEPT !.tokens = 0]]]
                ELSE m
    IN IF m = <<>> \/ ~SoundRow(kept) THEN <<>> ELSE [kept EXCEPT !.recent = Newest(@, RecentLimit)]

\* From the newest calls when there are enough of them, from all of them otherwise.
RealWorldScore(d) ==
    LET m == calls[d]
        windowed == Len(m.recent) >= MinCalls
        n == IF windowed THEN Len(m.recent) ELSE m.total
        ok == IF windowed THEN Len(SelectSeq(m.recent, LAMBDA c : c.ok)) ELSE m.success
        ms == IF windowed THEN Total(Values(m.recent, LAMBDA c : c.ms)) ELSE m.latency
        speed == Clamped(100 - (2 * ms) \div n)
        recency == Clamped(100 - (100 * m.age) \div ProbeTtl)
    IN IF m = <<>> THEN -1 ELSE IF m.total < MinCalls THEN -1
       ELSE Rounded(60 * (100 * ok) + 25 * speed * n + 15 * recency * n, 100 * n)

-----------------------------------------------------------------------------
(* Time, the disk and restarts. *)

EvidenceAges ==
    /\ probes' = [d \in Deployments |-> IF probes[d] = <<>> THEN <<>> ELSE [probes[d] EXCEPT !.age = Older(@)]]
    /\ calls' = [d \in Deployments |->
                   IF calls[d] = <<>> THEN <<>>
                   ELSE [calls[d] EXCEPT !.age = Older(@), !.recent = [i \in DOMAIN @ |-> [@[i] EXCEPT !.age = Older(@)]]]]
    /\ probeFile' = [d \in Deployments |-> IF probeFile[d] = <<>> THEN <<>> ELSE [probeFile[d] EXCEPT !.age = Older(@)]]
    /\ callFile' = [callFile EXCEPT !.rows = [d \in Deployments |->
                   IF @[d] = <<>> THEN <<>>
                   ELSE [@[d] EXCEPT !.age = Older(@), !.recent = [i \in DOMAIN @ |-> [@[i] EXCEPT !.age = Older(@)]]]]]

\* The write-behind timer writes a document whole, each on its own.
FlushProbes == /\ probeFile # probes /\ probeFile' = probes
               /\ UNCHANGED <<history, probes, calls, callFile, evidenceCount>>
FlushCalls == /\ callFile # [version |-> 2, rows |-> calls] /\ callFile' = [version |-> 2, rows |-> calls]
              /\ UNCHANGED <<history, probes, calls, probeFile, evidenceCount>>

RestartEvidence ==
    /\ history' = AsMany(<<>>)
    /\ probes' = probeFile
    /\ calls' = [d \in Deployments |-> NormalizeModel(callFile.rows[d], callFile.version)]
    /\ UNCHANGED <<probeFile, callFile, evidenceCount>>

\* The disk may hold what an earlier version wrote: probes of an older schema, calls with tokens nobody measured.
OldProbes == {<<>>, [ProbeEntry(<<>>, 1, "200") EXCEPT !.current = FALSE, !.age = ProbeTtl]}
NoOldCalls == [version |-> 2, row |-> <<>>]
OldCalls == {NoOldCalls,
             [version |-> 1, row |-> [NoCalls EXCEPT !.total = 2, !.success = 1, !.latency = 2, !.tokens = 9, !.tokenCalls = 5,
                                                    !.recent = <<[ok |-> TRUE, ms |-> 1, tokens |-> 9, age |-> ProbeTtl]>>]],
             [version |-> 2, row |-> [NoCalls EXCEPT !.total = 1, !.success = 2]]}
EvidenceStart(p, c) ==
    /\ history = AsMany(<<>>) /\ probeFile = AsMany(p) /\ probes = AsMany(p)
    /\ callFile = [version |-> c.version, rows |-> AsMany(c.row)]
    /\ calls = AsMany(NormalizeModel(c.row, c.version))
    /\ evidenceCount = 0

ProbeAnswers(d) == \E ms \in Latencies, code \in ProbeCodes :
    EvidenceStep /\ RecordPing(d, ms, code) /\ UNCHANGED <<calls, probeFile, callFile>>
\* A response that was served is sampled with the tokens it reported, and every attempt is counted.
RequestServed(d) == \E ms \in Latencies, tokens \in TokenCounts :
    EvidenceStep /\ RecordRequestLatency(d, ms, tokens) /\ UNCHANGED <<calls, probeFile, callFile>>
AttemptCounted(d) == \E ms \in Latencies, ok \in BOOLEAN, tokens \in TokenCounts :
    /\ EvidenceStep /\ (tokens > 0 => ok)
    /\ RecordModelCall(d, ok, ms, tokens) /\ UNCHANGED <<history, probes, probeFile, callFile>>
EvidenceTime == EvidenceAges /\ UNCHANGED <<history, evidenceCount>>

SamplesNext ==
    \/ \E d \in Deployments : ProbeAnswers(d) \/ RequestServed(d)
    \/ FlushProbes \/ RestartEvidence \/ EvidenceTime
CallsNext ==
    \/ \E d \in Deployments : AttemptCounted(d)
    \/ FlushCalls \/ RestartEvidence \/ EvidenceTime

-----------------------------------------------------------------------------
(* Properties. *)

Counted(s, Test(_)) == Len(SelectSeq(s, Test))

\* The cache's window is the end of the history a reader sees, whatever was restarted or lost in between; its
\* totals and the telemetry's count at least what their windows hold, and claim no more successes or token
\* reports than there were calls.  (Every window of samples, cadence.ts and runtime-telemetry.ts.)
EvidenceAddsUp ==
    \A d \in Deployments :
        /\ probes[d] # <<>> =>
             LET asked == ProbesOf(probes[d].samples) IN
             /\ IsSuffix(probes[d].samples, GetModelPings(d))
             /\ Len(asked) <= probes[d].totals.probes /\ Len(Answered(asked)) <= probes[d].totals.ok
             /\ probes[d].totals.ok <= probes[d].totals.probes
        /\ calls[d] # <<>> =>
             LET m == calls[d] IN
             /\ SoundRow(m) /\ Len(m.recent) <= m.total
             /\ Counted(m.recent, LAMBDA c : c.ok) <= m.success
             /\ Counted(m.recent, LAMBDA c : c.tokens > 0) <= m.tokenCalls
             /\ Total(Values(m.recent, LAMBDA c : c.tokens)) <= m.tokens

\* No score is above what the success rate supports (metrics.ts), a deployment is called slow exactly when
\* enough measurements of one kind hold one above that kind's ceiling (latency-demotion.ts), one bad moment
\* never makes a good record a dead one, and no attempt is doubled before its floor (hedge-trigger.ts).
EvidenceIsWeighed ==
    \A d \in Deployments :
        LET ps == GetModelPings(d)
            rates == {Rated(ps)[i].ms \div Rated(ps)[i].tokens : i \in DOMAIN Rated(ps)}
            timed == Measurable(ProbesOf(ps))
        IN /\ StabilityScore(ps) <= Uptime(ps) /\ (StabilityScore(ps) = -1 <=> ps = <<>>)
           /\ ResolveLatencyDemotion(ps).basis # "none" <=>
                IF Len(Rated(ps)) >= MinRates THEN \E r \in rates : r > RateCeiling
                ELSE Len(timed) >= MinRates /\ \E i \in DOMAIN timed : timed[i].ms > LatencyCeiling
           /\ (Uptime(ps) > 50 /\ Last(ps).code \notin CredentialCodes) => ~IsPersistentlyDown(ps)
           /\ (ps # <<>> /\ Uptime(ps) = 0) => Verdict(ps) \in {"Not Active", "Overloaded"}
           /\ \A seen \in TokenCounts : HedgeThreshold(ps, seen, 1) >= HedgeDelay(<<>>, TRUE, 1)
           /\ RealWorldScore(d) <= 100

\* The evidence of a deployment is what was measured, and is judged by all of it.
EvidenceIsSound == EvidenceAddsUp /\ EvidenceIsWeighed
=============================================================================
