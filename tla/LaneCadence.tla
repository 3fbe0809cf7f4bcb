----------------------------- MODULE LaneCadence ----------------------------
(***************************************************************************)
(* The background re-probing of command-line lanes: src/lane-cadence.ts    *)
(* with lane-probe.ts (rosters) and lane-quota-probe.ts (spent quotas).    *)
(* The ping tick pokes it; the work runs detached behind a latch, and what *)
(* the ladder's callers report meanwhile interleaves with it.  Beside it,  *)
(* the traffic records of src/lane-activity.ts: which dispatched lanes are *)
(* talking to the relay right now.                                         *)
(***************************************************************************)
EXTENDS DispatchLadder

CONSTANTS CatalogInterval,   \* laneProbe.catalogIntervalMs
          QuotaInterval,     \* laneProbe.quotaIntervalMs
          RosterModels,      \* the rosters a tool may answer with
          MaxMarks           \* bound: exhaustion reports and clears

ASSUME CadenceAssumption == CatalogInterval \in Nat /\ QuotaInterval \in Nat

VARIABLES latch,        \* inFlight: "idle", "catalog" or "quota"
          due,          \* buckets this run will probe once the rosters are done
          probing,      \* buckets whose probe is running -> when it started
          stamp,        \* quotaAttemptAt, -1 absent
          lastCatalog,  \* lastCatalogRunAt
          lastProbe,    \* when each bucket was last probed, -1 never
          marks         \* reports and clears so far

cadenceVars == <<latch, due, probing, stamp, lastCatalog, lastProbe, marks>>

\* laneCommands: the tools the ladders' cli rungs run.
LaneCommands == {r.tool : r \in {x \in Rungs : x.kind = "cli"}} \cap Tools

\* laneQuotaTargets: one probe per bucket, from a cli rung with a known tool.
LaneQuotaTargets == {CooldownKey(r) : r \in {x \in Rungs : x.kind = "cli" /\ x.tool \in Tools}}

\* catalogDue: the long gate, then any tool whose roster is missing or old.
CatalogDue ==
    /\ clock - lastCatalog >= CatalogInterval
    /\ \E tool \in LaneCommands :
          manifest[tool].probedAt < 0 \/ clock - manifest[tool].probedAt >= CatalogInterval

Dead == {k \in Keys : exhausted[k] > clock}

\* quotaDue: stamps of buckets that live again are forgotten; a bucket first
\* seen dead is stamped, one whose stamp is old enough is due.
Stamps == [k \in Keys |-> IF k \notin Dead THEN -1
                          ELSE IF stamp[k] = -1 THEN clock ELSE stamp[k]]
\* Faulty: a bucket first seen dead is probed at once.
DueAtOnce == {k \in Dead : stamp[k] = -1 \/ clock - stamp[k] >= QuotaInterval}
QuotaDue == {k \in Dead : stamp[k] # -1 /\ clock - stamp[k] >= QuotaInterval}

\* The quota half of run: every due bucket that still has a rung is stamped and
\* its probe spawned, all of them together.
Spawned(keys) ==
    LET targets == keys \cap LaneQuotaTargets
    IN /\ probing' = [k \in Keys |-> IF k \in targets THEN clock ELSE probing[k]]
       /\ stamp' = [k \in Keys |-> IF k \in targets THEN clock ELSE Stamps[k]]
       /\ lastProbe' = [k \in Keys |-> IF k \in targets THEN clock ELSE lastProbe[k]]
       /\ latch' = IF targets = {} THEN "idle" ELSE "quota"

\* poke: one run at a time; the stamps change even when nothing is due.
Poke ==
    /\ latch = "idle"
    /\ IF CatalogDue
       THEN /\ latch' = "catalog"
            /\ due' = QuotaDue
            /\ lastCatalog' = clock
            /\ stamp' = Stamps
            /\ UNCHANGED <<probing, lastProbe>>
       ELSE /\ Spawned(QuotaDue)
            /\ UNCHANGED <<due, lastCatalog>>
    /\ UNCHANGED <<ladderVars, marks>>

\* probeCodex and probeAgy: a roster of at least one model, or a failure.
Answered(tool, models) ==
    [manifest[tool] EXCEPT !.probedAt = clock, !.models = models,
                           !.stated = {[model |-> m, flag |-> "--effort", values |-> {"low"}] : m \in models}]

\* probeLanes settles: a tool that answered has a new roster and keeps the
\* arguments it was seen to reject, one that failed keeps its old entry; then
\* the quota half starts, from the buckets found dead at the poke.
CatalogSettles ==
    /\ latch = "catalog"
    /\ \E ok \in SUBSET LaneCommands, models \in RosterModels :
          manifest' = [tool \in Tools |-> IF tool \in ok THEN Answered(tool, models) ELSE manifest[tool]]
    /\ LET targets == due \cap LaneQuotaTargets
       IN /\ probing' = [k \in Keys |-> IF k \in targets THEN clock ELSE probing[k]]
          /\ stamp' = [k \in Keys |-> IF k \in targets THEN clock ELSE stamp[k]]
          /\ lastProbe' = [k \in Keys |-> IF k \in targets THEN clock ELSE lastProbe[k]]
          /\ latch' = IF targets = {} THEN "idle" ELSE "quota"
    /\ due' = {}
    /\ UNCHANGED <<clock, exhaustionVars, affinityVars, statsVars, reports, lastCatalog, marks>>

\* The verdicts of classifyLaneProbeOutput: an answer, a refusal whose wait the
\* tool states or the outcome defaults (statedRetryAfterMs), or nothing to go
\* by (timeout, empty output, unrecognised failure).
Verdicts == {<<"alive", 0>>, <<"inconclusive", 0>>}
            \cup {<<"exhausted", ms>> : ms \in {DefaultExhaustedMs, QuotaExhaustedMs} \cup Retries}

\* A probe's verdict arrives: alive retracts the death, exhausted renews it from
\* the time the probe was started, inconclusive changes nothing.
ProbeSettles(key, verdict) ==
    /\ probing[key] >= 0
    /\ probing' = [probing EXCEPT ![key] = -1]
    /\ latch' = IF \A k \in Keys \ {key} : probing[k] < 0 THEN "idle" ELSE latch
    /\ \/ /\ verdict[1] = "alive"
          /\ ClearExhaustedKey(key)
          /\ stamp' = [stamp EXCEPT ![key] = -1]
       \/ /\ verdict[1] = "exhausted"
          /\ exhausted' = [exhausted EXCEPT ![key] =
                Min2(Max2(probing[key], probing[key] + verdict[2]), probing[key] + MaxExhaustedMs)]
          /\ UNCHANGED stamp
       \/ /\ verdict[1] = "inconclusive"
          /\ UNCHANGED <<exhausted, stamp>>
    /\ UNCHANGED <<clock, exhaustedFile, affinityVars, statsVars, reports, manifest,
                   due, lastCatalog, lastProbe, marks>>

\* A caller reports a lane exhausted, or clears it, while the cadence runs.
CallerReports ==
    /\ marks < MaxMarks
    /\ marks' = marks + 1
    /\ \/ \E lane \in LaneIds, tier \in Tiers, ms \in {QuotaExhaustedMs} : ReportExhausted(lane, tier, ms)
       \/ \E lane \in LaneIds, tier \in Tiers : ClearExhausted(lane, tier)
    /\ UNCHANGED <<latch, due, probing, stamp, lastCatalog, lastProbe>>

CadenceTick == /\ ClockTick
               /\ UNCHANGED <<exhaustionVars, affinityVars, statsVars, reports, manifest, cadenceVars>>

CadenceInit ==
    /\ latch = "idle"
    /\ due = {}
    /\ probing = [k \in Keys |-> -1]
    /\ stamp = [k \in Keys |-> -1]
    /\ lastCatalog = -CatalogInterval
    /\ lastProbe = [k \in Keys |-> -1]
    /\ marks = 0

CadenceNext == \/ Poke
               \/ CatalogSettles
               \/ \E key \in Keys, verdict \in Verdicts : ProbeSettles(key, verdict)
               \/ CallerReports
               \/ CadenceTick

CadenceSpec == LadderInit /\ CadenceInit /\ [][CadenceNext]_<<ladderVars, cadenceVars>>

-----------------------------------------------------------------------------
\* A probe spends the quota it asks about.  However deaths are reported,
\* cleared, disproved and reported again around the runs of the cadence, two
\* probes of one bucket start at least quotaIntervalMs apart.
QuotaProbesAreSpaced ==
    [][\A k \in Keys : (lastProbe'[k] # lastProbe[k] /\ lastProbe[k] >= 0) =>
          lastProbe'[k] - lastProbe[k] >= QuotaInterval]_<<ladderVars, cadenceVars>>

-----------------------------------------------------------------------------
(* Lane activity: the map keeps its insertion order, is bounded, and       *)
(* evicts an idle lane before a busy one.                                  *)

CONSTANTS ActivityTags,      \* tags lanes may carry
          MaxActivityTags,   \* MAX_LANE_ACTIVITY_TAGS
          Requests           \* requests, each opened and ended once

ASSUME ActivityAssumption == MaxActivityTags \in Nat \ {0}

VARIABLES records,     \* sequence of [tag, inFlight], oldest first
          open,        \* request -> its tag while it runs
          ended,       \* requests that are over
          forgotten    \* tags evicted while a request of theirs ran

activityVars == <<records, open, ended, forgotten>>

TagIn(tag) == \E i \in DOMAIN records : records[i].tag = tag
RecordOf(tag) == records[CHOOSE i \in DOMAIN records : records[i].tag = tag]
\* The map without a record it has: the later ones move up.
Without(seq, tag) ==
    LET at == CHOOSE i \in DOMAIN seq : seq[i].tag = tag
    IN [i \in 1 .. Len(seq) - 1 |-> seq[IF i < at THEN i ELSE i + 1]]

\* The eviction of touch: the oldest idle record, or the oldest when all run.
Evicted(seq) ==
    LET idle == {i \in DOMAIN seq : seq[i].inFlight = 0}
        victim == IF idle = {} THEN 1 ELSE CHOOSE i \in idle : \A j \in idle : i <= j
    IN seq[victim].tag

\* Faulty: the oldest record is evicted, busy or not.
TouchedEvictingTheOldest(tag, change) ==
    LET kept == IF TagIn(tag) THEN Without(records, tag)
                ELSE IF Len(records) >= MaxActivityTags THEN Tail(records) ELSE records
        before == IF TagIn(tag) THEN RecordOf(tag).inFlight ELSE 0
    IN records' = Append(kept, [tag |-> tag,
                                inFlight |-> IF before + change < 0 THEN 0 ELSE before + change])

\* touch: the record moves to the end of the map; a count never goes below 0.
Touched(tag, change) ==
    LET kept == IF TagIn(tag) THEN Without(records, tag)
                ELSE IF Len(records) >= MaxActivityTags THEN Without(records, Evicted(records))
                ELSE records
        before == IF TagIn(tag) THEN RecordOf(tag).inFlight ELSE 0
    IN records' = Append(kept, [tag |-> tag,
                                inFlight |-> IF before + change < 0 THEN 0 ELSE before + change])

Busy(tag) == {r \in DOMAIN open : open[r] = tag}

\* A busy tag that this step drops from the map is remembered for the property.
Forget == forgotten' = forgotten \cup {t \in ActivityTags :
             TagIn(t) /\ Busy(t) # {} /\ ~\E i \in DOMAIN records' : records'[i].tag = t}

\* beginLaneRequest
BeginLaneRequest(r, tag) ==
    /\ r \notin DOMAIN open \cup ended
    /\ Touched(tag, 1)
    /\ open' = [x \in DOMAIN open \cup {r} |-> IF x = r THEN tag ELSE open[x]]
    /\ Forget
    /\ UNCHANGED ended

\* wrote
Wrote(r) == /\ r \in DOMAIN open
            /\ Touched(open[r], 0)
            /\ Forget
            /\ UNCHANGED <<open, ended>>

\* ended: the handle closes once, however often the response reports its end.
Ended(r) == /\ r \in DOMAIN open
            /\ Touched(open[r], -1)
            /\ open' = [x \in DOMAIN open \ {r} |-> open[x]]
            /\ ended' = ended \cup {r}
            /\ Forget

ActivityInit == /\ records = <<>>
                /\ open = << >>
                /\ ended = {}
                /\ forgotten = {}

ActivityNext == \/ \E r \in Requests, tag \in ActivityTags : BeginLaneRequest(r, tag)
                \/ \E r \in Requests : Wrote(r)
                \/ \E r \in Requests : Ended(r)

ActivitySpec == ActivityInit /\ [][ActivityNext]_activityVars

-----------------------------------------------------------------------------
\* The walk reads a lane with no request in flight as one that may have died.
\* A lane that never lost its record shows exactly its open requests, and a
\* busy record is dropped only when every record of the map is busy.
TrafficIsSeen ==
    [][/\ \A t \in ActivityTags \ forgotten' :
             IF \E i \in DOMAIN records' : records'[i].tag = t
             THEN \A i \in DOMAIN records' : records'[i].tag = t =>
                     records'[i].inFlight = Cardinality({r \in DOMAIN open' : open'[r] = t})
             ELSE ~\E r \in DOMAIN open' : open'[r] = t
       /\ forgotten' # forgotten => \A i \in DOMAIN records : records[i].inFlight > 0]_activityVars
=============================================================================
