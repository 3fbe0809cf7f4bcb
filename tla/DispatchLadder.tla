--------------------------- MODULE DispatchLadder ---------------------------
(***************************************************************************)
(* The dispatch ladder of src/dispatch.ts and the three memories that      *)
(* order it: exhausted buckets (with dispatch-exhaustion-persistence.ts),  *)
(* pins and demotions (lane-affinity.ts) and lane statistics               *)
(* (dispatch-lane-stats.ts), with the /dispatch and /dispatch/telemetry    *)
(* handlers of routes/admin.ts that change them.                           *)
(*                                                                         *)
(* A rung is a record: its lane id, its kind, whether it is enabled, its   *)
(* quota bucket, the tool behind its command, the model and flag values    *)
(* of its arguments, its routing spec, and whether its environment points  *)
(* at the relay.  Paths, command lines, notes and reason texts are left    *)
(* out.  Each memory is written to its file behind a timer of its own      *)
(* (WriteBehind): here a save may happen at any time, a crash loses what   *)
(* was not saved.                                                          *)
(***************************************************************************)
EXTENDS ServiceClock, Sequences, FiniteSets, TLC

CONSTANTS Ladders,          \* tier -> sequence of rungs
          SubagentTier,     \* the tier of routing.subagents.default, or None
          PassThrough,      \* specs that need the caller's own credential
          Pools,            \* the specs that name a pool
          PoolSpecs,        \* spec -> set of targets it expands to
          PoolTail,         \* spec -> its degraded targets
          Window,           \* target -> published context window, 0 unknown
          Tools,            \* the command-line tools a probe can ask
          RosterTtl,        \* LANE_ROSTER_TTL_MS
          Strength,         \* model -> effort level or None
          HasCliLane,       \* routing.cliLane is configured
          WindowsLauncher,  \* the console launcher of a Windows install exists
          WalkEnabled,      \* routing.dispatchWalk.enabled
          PinMs, DemoteMs,  \* routing.dispatchWalk.pinMs, demoteMs
          DefaultExhaustedMs, QuotaExhaustedMs, MaxExhaustedMs, MaxAffinityMs,
          FailingStreak,    \* FAILING_LANE_STREAK
          MaxSamples,       \* MAX_LANE_STAT_SAMPLES
          RecentCount, MinSamples, OutlierFactor,   \* dispatchWalk.outlier
          ReportedLanes,    \* lanes the reports and pins name
          ReportedTiers,    \* tiers the reports name
          ReportedModes,    \* modes the reports name, None for a legacy one
          Durations,        \* wall clocks of a completed run
          Retries,          \* the durations a caller may state
          LegacyFile,       \* TRUE: the statistics file predates the streak
          MaxReports,       \* bound: the reports of a run
          MaxLadderClock    \* bound: the clock of the ladder alone

Tiers == DOMAIN Ladders
Kinds == {"pin", "demote"}
Statuses == {"completed", "failed", "timed_out", "abandoned"}
RangeOf(s) == {s[i] : i \in DOMAIN s}
Rungs == UNION {RangeOf(Ladders[t]) : t \in Tiers}
LaneIds == {r.id : r \in Rungs}

\* A ladder is a list whose ids name one rung each (parseLadder refuses a
\* second); durations are naturals; None is nobody's tier.
ASSUME LadderAssumption ==
    /\ \A t \in Tiers : /\ Ladders[t] \in Seq(Rungs)
                        /\ \A i, j \in DOMAIN Ladders[t] :
                              Ladders[t][i].id = Ladders[t][j].id => i = j
    /\ None \notin Tiers
    /\ Retries \subseteq Int
    /\ {PinMs, DemoteMs, DefaultExhaustedMs, QuotaExhaustedMs, MaxExhaustedMs, MaxAffinityMs} \subseteq Nat

\* Faulty: a lane's death is its own, whatever quota it draws on.
CooldownKeyOfLane(rung) == <<"rung", rung.id>>

\* cooldownKey: rungs of one quota share their death, in every tier.
CooldownKey(rung) == IF rung.quota # None THEN <<"quota", rung.quota>>
                     ELSE <<"rung", rung.id>>
Keys == {CooldownKey(r) : r \in Rungs}
MemoryKeys == (ReportedTiers \cup Tiers) \X LaneIds \X Kinds
StatKeys == (ReportedTiers \cup Tiers \cup {None}) \X (ReportedModes \cup {None}) \X LaneIds

VARIABLES exhausted, exhaustedFile,   \* bucket -> deadline, 0 none
          affinity, affinityFile,     \* (tier, lane, kind) -> deadline, 0 none
          laneStats, statsFile,       \* (tier, mode, lane) -> counters
          reports,                    \* reports taken so far
          manifest                    \* tool -> what its last probe found

ladderState == <<exhausted, exhaustedFile, affinity, affinityFile,
                 laneStats, statsFile, reports, manifest>>
ladderVars == <<clock, ladderState>>

FreshLaneStats == [calls |-> 0, successes |-> 0, failures |-> 0, timeouts |-> 0,
                   streak |-> 0, samples |-> <<>>, legacy |-> FALSE]

\* A row of an older version: no streak of its own, and a window that also
\* held the runs that failed.
LegacyRow == [FreshLaneStats EXCEPT !.calls = 2, !.failures = 2, !.legacy = TRUE,
                                    !.samples = <<1, 1>>]

-----------------------------------------------------------------------------
(* Ladder lookup. *)

\* The elements of a list at the positions kept, in its order.
Selected(list, kept) ==
    LET upto[n \in 0 .. Len(list)] ==
            IF n = 0 THEN <<>>
            ELSE IF n \in kept THEN Append(upto[n - 1], list[n]) ELSE upto[n - 1]
    IN upto[Len(list)]

\* inferredTier; the last resort is the first tier the config declares.
InferredTier == IF SubagentTier \in Tiers THEN SubagentTier
                ELSE IF "medium" \in Tiers THEN "medium"
                ELSE IF "coding" \in Tiers THEN "coding"
                ELSE CHOOSE t \in Tiers : TRUE

\* selectLadder: a tier nobody configured has no rungs.
SelectLadder(tier) ==
    LET t == IF tier = None THEN InferredTier ELSE tier
    IN [tier |-> t, missing |-> t \notin Tiers,
        rungs |-> IF t \in Tiers THEN Ladders[t] ELSE <<>>]

\* lookupLadderRung
LookupLadderRung(lane, tier) ==
    LET s == SelectLadder(tier)
    IN {r \in RangeOf(s.rungs) : r.id = lane}

\* allLadderRungs and findLadderRung: the first rung of that id in any tier.
FindLadderRung(lane) == {r \in Rungs : r.id = lane}

\* cooldownUntil: a deadline that has passed is no cooldown.
CoolingUntil(rung) ==
    IF CooldownKey(rung) \in Keys /\ exhausted[CooldownKey(rung)] > clock
    THEN exhausted[CooldownKey(rung)] ELSE 0

\* normalizeTtl and clampExhaustedDeadline
ClampDeadline(until) == Min2(Max2(clock, until), clock + MaxExhaustedMs)
NormalizeTtl(ms) == Min2(MaxExhaustedMs, Max2(0, ms))

-----------------------------------------------------------------------------
(* What the ladder knows of a rung. *)

\* reachableWithoutRelay: every target forwards the caller's own credential.
ReachableWithoutRelay(spec) == /\ PoolSpecs[spec] # {}
                               /\ PoolSpecs[spec] \subseteq PassThrough

\* specContextWindow: the smallest published window of the targets in band
\* (all of them when the whole pool is degraded), and how many have none.
SpecContextWindow(spec) ==
    LET inBand == PoolSpecs[spec] \ PoolTail[spec]
        specs == IF inBand = {} THEN PoolSpecs[spec] ELSE inBand
        known == {Window[s] : s \in {x \in specs : Window[x] > 0}}
    IN IF known = {} THEN [tokens |-> 0, unknown |-> 0]
       ELSE [tokens |-> CHOOSE w \in known : \A v \in known : w <= v,
             unknown |-> Cardinality({s \in specs : Window[s] = 0})]

\* A tool that was never probed.
Unprobed == [probedAt |-> -1, models |-> {}, rejected |-> {}, stated |-> {}]
\* rosterIsStale
RosterIsStale(tool) == clock - manifest[tool].probedAt > RosterTtl

\* verifyModel: only a fresh roster that lacks the model condemns it.
VerifyModel(rung) ==
    IF \/ rung.tool \notin Tools \/ rung.model = None
       \/ manifest[rung.tool].probedAt < 0
       \/ manifest[rung.tool].models = {} THEN "unknown"
    ELSE IF rung.model \in manifest[rung.tool].models THEN "servable"
    ELSE IF RosterIsStale(rung.tool) THEN "unknown" ELSE "not-servable"

\* unsupportedArgValues: an observed rejection holds even on a stale roster,
\* a stated list of values only on a fresh one.
UnsupportedArg(rung, flag) ==
    /\ rung.tool \in Tools
    /\ manifest[rung.tool].probedAt >= 0
    /\ \/ <<rung.model, flag>> \in manifest[rung.tool].rejected
       \/ /\ ~RosterIsStale(rung.tool)
          /\ \E s \in manifest[rung.tool].stated :
                s.model = rung.model /\ s.flag = flag /\ rung.args[flag] \notin s.values

\* unsupportedRungArgs and stripArgs: the flags the launch drops.
DroppedArgs(rung) ==
    IF rung.tool = None \/ rung.model = None THEN {}
    ELSE {flag \in DOMAIN rung.args \ {"--model"} : UnsupportedArg(rung, flag)}

\* derivedCapability: a pool's declared effort, or the strongest effort the
\* capability snapshot allows the model; a cli rung never names a pool.
DerivedCapability(rung) ==
    LET subject == IF rung.kind = "relay" THEN rung.spec ELSE rung.model
        known == subject \in DOMAIN Strength /\ (rung.kind = "relay" \/ subject \notin Pools)
    IN [tier |-> IF known THEN Strength[subject] ELSE None,
        basis |-> IF ~known THEN "unknown"
                  ELSE IF subject \in Pools THEN "pool-band" ELSE "snapshot"]

\* laneWindows: the statistics of a lane, the most specific that exist first.
LaneWindows(lane, tier, mode) ==
    LET keys == <<<<tier, mode, lane>>, <<tier, None, lane>>,
                  <<None, mode, lane>>, <<None, None, lane>>>>
    IN SelectSeq(keys, LAMBDA k : k \in StatKeys /\ laneStats[k].calls > 0)

\* recentFailures of laneHistoryFacts: the streak of the first such window.
RecentFailures(lane, tier, mode) ==
    LET w == LaneWindows(lane, tier, mode)
    IN IF w = <<>> THEN 0 ELSE laneStats[Head(w)].streak

\* recall: a pin or demotion that has lapsed is none.
Recall(tier, lane, kind) == affinity[<<tier, lane, kind>>] > clock

-----------------------------------------------------------------------------
(* The view of a ladder. *)

Hosts == {"routed", "bypassed", "unknown", None}

\* normalizeOptions: what a caller may not say is as if it had not said it.
NormalizeOptions(o) == [o EXCEPT !.host = IF @ \in Hosts THEN @ ELSE None,
                                 !.mode = IF @ \in {"agent", "answer"} THEN @ ELSE None,
                                 !.requester = IF @ = "mcp" THEN @ ELSE None]

\* wrapForWindowsConsoleSafety: what is launched goes through the launcher,
\* unless the rung's own command already does.
Wrapped(rung) == WindowsLauncher /\ ~rung.launched

\* transposeToCli: a relay spec as a command of routing.cliLane; the context
\* window is passed on only when it is known.
TransposeToCli(spec) == [spec |-> spec, contextWindow |-> SpecContextWindow(spec).tokens]

\* canAddressAsSubagent: a host of unknown routing is taken at its word.
CanAddressAsSubagent(host) == host \in {"routed", None}
\* mustTransposeEveryRung: a host outside any session has no subagents at all.
MustTransposeEveryRung(host) == host = "unknown"

\* toLane: state, reachability from the asking host, and how it is launched.
\* A host that does not route through the relay reaches a relay rung only by
\* shelling out, unless the rung needs no relay and the host is known.
ToLane(rung, position, o) ==
    LET verdict == VerifyModel(rung)
        barred == rung.kind = "relay" /\ o.requester = "mcp" /\ ReachableWithoutRelay(rung.spec)
        shells == /\ rung.kind = "relay" /\ ~barred
                  /\ ~CanAddressAsSubagent(o.host)
                  /\ MustTransposeEveryRung(o.host) \/ ~ReachableWithoutRelay(rung.spec)
    IN [id |-> rung.id, position |-> position,
        capability |-> DerivedCapability(rung),
        state |-> IF rung.kind = "cli" /\ verdict = "not-servable" THEN "not-servable"
                  ELSE IF ~rung.enabled THEN "disabled"
                  ELSE IF CoolingUntil(rung) > 0 THEN "exhausted" ELSE "ready",
        unreachable |-> barred \/ (shells /\ ~HasCliLane),
        transposed |-> IF shells /\ HasCliLane THEN TransposeToCli(rung.spec) ELSE None,
        wrapped |-> (rung.kind = "cli" \/ (shells /\ HasCliLane)) /\ Wrapped(rung),
        dropped |-> IF rung.kind = "cli" THEN DroppedArgs(rung) ELSE {}]

\* isSelectable
IsSelectable(l) == l.state = "ready" /\ ~l.unreachable

\* annotateAffinity and annotateLaneHistory: memory orders lanes that could
\* run, and only while the walk is on.
Pinned(l, tier) == WalkEnabled /\ IsSelectable(l) /\ Recall(tier, l.id, "pin")
Demoted(l, tier) == WalkEnabled /\ IsSelectable(l) /\ Recall(tier, l.id, "demote")
Failing(l, tier, mode) == /\ WalkEnabled /\ IsSelectable(l)
                          /\ RecentFailures(l.id, tier, mode) >= FailingStreak

\* rankSelectable: pinned, then ordinary, then demoted or failing; the order
\* of the config within each band.
Band(l, tier, mode) == IF Pinned(l, tier) THEN 0
                       ELSE IF Demoted(l, tier) \/ Failing(l, tier, mode) THEN 2 ELSE 1
RankSelectable(lanes, tier, mode) ==
    LET band(n) == Selected(lanes, {i \in DOMAIN lanes : Band(lanes[i], tier, mode) = n})
    IN band(0) \o band(1) \o band(2)

\* The position of a lane in a ladder, 0 when it has none.
IndexIn(lanes, id) == IF \E i \in DOMAIN lanes : lanes[i].id = id
                      THEN CHOOSE i \in DOMAIN lanes :
                              lanes[i].id = id /\ \A j \in 1 .. i - 1 : lanes[j].id # id
                      ELSE 0

\* rankedView: the ready lanes below the one the caller gave up on.
RankedView(lanes, o, tier) ==
    IF o.after # None /\ IndexIn(lanes, o.after) = 0 THEN <<>>
    ELSE LET passed == IF o.after = None THEN 0 ELSE IndexIn(lanes, o.after)
             below == {i \in DOMAIN lanes : i > passed /\ IsSelectable(lanes[i])}
         IN RankSelectable(Selected(lanes, below), tier, o.mode)

\* forcedLaneView: the caller's own choice, whatever its state.
ForcedLaneView(lanes, id) == IF IndexIn(lanes, id) = 0 THEN <<>>
                             ELSE <<lanes[IndexIn(lanes, id)]>>

\* modelView: a spec the caller names, as a rung of its own behind the ladder;
\* unknownModelReason refuses a spec that names no pool or provider.
ModelView(o, position) ==
    IF o.lane # None \/ o.model \notin DOMAIN PoolSpecs THEN <<>>
    ELSE <<ToLane([id |-> o.model, kind |-> "relay", enabled |-> TRUE, quota |-> None,
                   tool |-> None, model |-> None, args |-> << >>, spec |-> o.model,
                   launched |-> FALSE, routed |-> FALSE], position, o)>>

\* buildDispatch through buildDaemonDispatchView: the lanes to try, in order.
BuildDispatch(question) ==
    LET o == NormalizeOptions(question)
        s == SelectLadder(o.tier)
        lanes == [i \in DOMAIN s.rungs |-> ToLane(s.rungs[i], i, o)]
    IN IF o.model # None THEN ModelView(o, Len(lanes) + 1)
       ELSE IF o.lane # None THEN ForcedLaneView(lanes, o.lane)
       ELSE RankedView(lanes, o, s.tier)

\* resolveAutoSpec: the first relay rung of the tier that is not cooling, else
\* the default route; a tier that is none of the four is medium.
ResolveAutoSpec(tier) ==
    LET t == IF tier \in {"low", "medium", "high", "xhigh"} THEN tier ELSE "medium"
        rungs == SelectLadder(t).rungs
        usable == {i \in DOMAIN rungs : /\ rungs[i].kind = "relay" /\ rungs[i].enabled
                                        /\ CoolingUntil(rungs[i]) = 0}
    IN IF usable = {} THEN None ELSE rungs[CHOOSE i \in usable : \A j \in usable : i <= j].spec

-----------------------------------------------------------------------------
(* Operations.  exhaustionVars and the like are what each of them may touch. *)

exhaustionVars == <<exhausted, exhaustedFile>>
affinityVars == <<affinity, affinityFile>>
statsVars == <<laneStats, statsFile>>

\* markExhaustedKey
MarkExhaustedKey(key, until) ==
    exhausted' = [exhausted EXCEPT ![key] = ClampDeadline(until)]

\* clearExhaustedKey
ClearExhaustedKey(key) == exhausted' = [exhausted EXCEPT ![key] = 0]

\* applyDispatchMutation, {"exhausted": lane}: a stated duration wins over the
\* default of the reported outcome; markExhausted refuses a lane the tier lacks.
ReportExhausted(lane, tier, ms) ==
    \E rung \in LookupLadderRung(lane, tier) :
       /\ MarkExhaustedKey(CooldownKey(rung), clock + NormalizeTtl(ms))
       /\ UNCHANGED <<clock, exhaustedFile, affinityVars, statsVars, reports, manifest>>

StatedTtls == Retries \cup {DefaultExhaustedMs, QuotaExhaustedMs}

\* applyDispatchMutation, {"clear": lane} or {"clear": true}: clearExhausted
ClearExhausted(lane, tier) ==
    /\ \/ /\ lane = None
          /\ exhausted' = [k \in Keys |-> 0]
       \/ \E rung \in LookupLadderRung(lane, tier) : ClearExhaustedKey(CooldownKey(rung))
    /\ UNCHANGED <<clock, exhaustedFile, affinityVars, statsVars, reports, manifest>>

\* clampWindow, then remember: the newest row of that kind replaces the older.
Remembered(mem, tier, lane, kind, ms) ==
    [mem EXCEPT ![<<tier, lane, kind>>] = clock + Min2(MaxAffinityMs, Max2(0, ms))]

\* clearLaneAffinity
Cleared(mem, tier, lane) ==
    [mem EXCEPT ![<<tier, lane, "pin">>] = 0, ![<<tier, lane, "demote">>] = 0]

\* The samples of a window in order of size.
Ranked(samples) == SortSeq(samples, LAMBDA a, b : a < b)
\* medianWallClockMs, twice over so that an even window keeps its half.
TwiceMedian(samples) ==
    LET n == Len(samples)
        s == Ranked(samples)
    IN IF n % 2 = 1 THEN 2 * s[(n \div 2) + 1] ELSE s[n \div 2] + s[(n \div 2) + 1]
\* quantileWallClockMs at four fifths: the nearest rank.
FourFifths(samples) == Ranked(samples)[Min2(Len(samples), Max2(1, (4 * Len(samples) + 4) \div 5))]

\* checkLaneOutlier: the last runs against the lane's own earlier ones; both
\* halves need enough samples.
IsOutlier(samples) ==
    LET n == Len(samples)
    IN /\ RecentCount >= 1
       /\ n >= RecentCount + MinSamples
       /\ RecentCount >= MinSamples
       /\ LET history == FourFifths(SubSeq(samples, 1, n - RecentCount))
          IN /\ history > 0
             /\ TwiceMedian(SubSeq(samples, n - RecentCount + 1, n)) > 2 * history * OutlierFactor

\* recordLaneOutlier
RecordLaneOutlier(mem, tier, lane, samples) ==
    IF IsOutlier(samples) THEN Remembered(Cleared(mem, tier, lane), tier, lane, "demote", DemoteMs)
    ELSE mem

\* recordLaneRun: counters and streak by outcome; an abandoned run is a failure
\* that is not the lane's own; only answers are timed, in a bounded window.
Counted(row, status, ms) ==
    LET window == IF status = "completed" THEN Append(row.samples, ms) ELSE row.samples
        excess == Max2(0, Len(window) - MaxSamples)
    IN [row EXCEPT !.calls = @ + 1,
                   !.successes = IF status = "completed" THEN @ + 1 ELSE @,
                   !.failures = IF status = "completed" THEN @ ELSE @ + 1,
                   !.timeouts = IF status = "timed_out" THEN @ + 1 ELSE @,
                   !.streak = CASE status = "completed" -> 0
                                [] status = "abandoned" -> @
                                [] OTHER -> @ + 1,
                   !.legacy = FALSE,
                   !.samples = SubSeq(window, excess + 1, Len(window))]

\* recordLaneAffinity: the newest run decides, unless the lane has turned slow
\* against the window that is kept without a mode.
AffinityAfter(tier, lane, status, stats) ==
    LET cleared == Cleared(affinity, tier, lane)
        newest == IF status = "completed" THEN Remembered(cleared, tier, lane, "pin", PinMs)
                  ELSE Remembered(cleared, tier, lane, "demote", DemoteMs)
    IN RecordLaneOutlier(newest, tier, lane, stats[<<tier, None, lane>>].samples)

\* POST /dispatch/telemetry: a lane no ladder names is refused; what the handler
\* then writes to the ledger is in ControlPlane.
Telemetry(lane, tier, mode, status, ms) ==
    /\ reports < MaxReports
    /\ FindLadderRung(lane) # {}
    /\ reports' = reports + 1
    /\ laneStats' = [laneStats EXCEPT ![<<tier, mode, lane>>] = Counted(@, status, ms)]
    /\ affinity' = IF WalkEnabled THEN AffinityAfter(tier, lane, status, laneStats') ELSE affinity
    /\ UNCHANGED <<clock, exhaustionVars, affinityFile, statsFile, manifest>>

\* operatorLanePin: only a lane of the tier that is enabled in the config.
OperatorPin(lane, tier, ms) ==
    /\ WalkEnabled
    /\ \E rung \in LookupLadderRung(lane, tier) : rung.enabled
    /\ LET t == SelectLadder(tier).tier
       IN affinity' = Remembered(Cleared(affinity, t, lane), t, lane, "pin", ms)
    /\ UNCHANGED <<clock, exhaustionVars, affinityFile, statsVars, reports, manifest>>

\* operatorLanePin, unpin: forgetLaneMemory
OperatorUnpin(lane, tier) ==
    /\ WalkEnabled
    /\ \E rung \in LookupLadderRung(lane, tier) : rung.enabled
    /\ affinity' = [affinity EXCEPT ![<<SelectLadder(tier).tier, lane, "pin">>] = 0]
    /\ UNCHANGED <<clock, exhaustionVars, affinityFile, statsVars, reports, manifest>>

\* The rows of a memory that have not lapsed.
Live(mem) == [k \in DOMAIN mem |-> IF mem[k] > clock THEN mem[k] ELSE 0]

\* exportExhaustedRows and saveExhaustedRows
SaveExhaustion == /\ exhaustedFile' = Live(exhausted)
                  /\ UNCHANGED <<clock, exhausted, affinityVars, statsVars, reports, manifest>>
\* exportLaneAffinityRows (which also prunes) and saveLaneAffinityRows
SaveAffinity == /\ affinityFile' = Live(affinity)
                /\ affinity' = Live(affinity)
                /\ UNCHANGED <<clock, exhaustionVars, statsVars, reports, manifest>>
\* exportLaneStatsRows and saveLaneStatsRows
SaveStats == /\ statsFile' = laneStats
             /\ UNCHANGED <<clock, exhaustionVars, affinityVars, laneStats, reports, manifest>>

\* loadExhaustedRows, loadLaneAffinityRows and loadLaneStatsRows: a file that
\* cannot be read, or is of another version, holds no rows.
LoadExhaustedRows(readable) == IF readable THEN exhaustedFile ELSE [k \in Keys |-> 0]
LoadLaneAffinityRows(readable) == IF readable THEN affinityFile ELSE [k \in MemoryKeys |-> 0]
LoadLaneStatsRows(readable) == IF readable THEN statsFile ELSE [k \in StatKeys |-> FreshLaneStats]

\* restoreExhaustedRows: no row outlives the clamp counted from this start.
RestoredExhaustion(file) ==
    [k \in Keys |-> IF file[k] > clock THEN ClampDeadline(file[k]) ELSE 0]
\* restoreLaneAffinityRows
RestoredAffinity(file) ==
    [k \in MemoryKeys |-> IF file[k] > clock THEN Min2(file[k], clock + MaxAffinityMs) ELSE 0]
\* restoreLaneStatsRows and restoredWindow: a row without a streak takes its
\* failures for one when it never succeeded, and loses a window that mixes
\* answers with failures.
RestoredStats(file) ==
    [k \in StatKeys |->
        LET row == file[k] IN
        IF ~row.legacy THEN row
        ELSE [row EXCEPT !.legacy = FALSE,
                         !.streak = IF row.successes = 0 THEN row.failures ELSE 0,
                         !.samples = IF Len(row.samples) > row.successes THEN <<>> ELSE row.samples]]

\* The process ends, after flushing or not, and the daemon starts again:
\* installDispatchExhaustionPersistence, installLaneAffinityPersistence and
\* installDispatchLaneStatsPersistence.
LadderRestart ==
    /\ \E readable \in BOOLEAN :
          /\ exhausted' = RestoredExhaustion(LoadExhaustedRows(readable))
          /\ affinity' = RestoredAffinity(LoadLaneAffinityRows(readable))
          /\ laneStats' = RestoredStats(LoadLaneStatsRows(readable))
    /\ UNCHANGED <<clock, exhaustedFile, affinityFile, statsFile, reports, manifest>>

LadderTick == /\ ClockTick
              /\ clock < MaxLadderClock
              /\ UNCHANGED <<exhaustionVars, affinityVars, statsVars, reports, manifest>>

LadderInit ==
    /\ ClockInit
    /\ exhaustedFile = [k \in Keys |-> 0]
    /\ exhausted = exhaustedFile
    /\ affinityFile = [k \in MemoryKeys |-> 0]
    /\ affinity = affinityFile
    /\ statsFile = [k \in StatKeys |-> IF LegacyFile /\ k[1] = None /\ k[2] = None
                                       THEN LegacyRow ELSE FreshLaneStats]
    /\ laneStats = RestoredStats(statsFile)
    /\ reports = 0
    /\ manifest = [tool \in Tools |-> Unprobed]

\* Steps on what is exhausted, and steps on what orders the rest.
ExhaustionNext ==
    \/ \E lane \in LaneIds, tier \in Tiers, ms \in StatedTtls : ReportExhausted(lane, tier, ms)
    \/ \E lane \in LaneIds \cup {None}, tier \in Tiers : ClearExhausted(lane, tier)
    \/ SaveExhaustion
    \/ LadderRestart
    \/ LadderTick
MemoryNext ==
    \/ \E lane \in ReportedLanes, tier \in ReportedTiers, mode \in ReportedModes,
          status \in Statuses :
          \E ms \in IF status = "completed" THEN Durations ELSE {0} : Telemetry(lane, tier, mode, status, ms)
    \/ \E lane \in ReportedLanes, tier \in ReportedTiers, ms \in Retries \cup {PinMs} : OperatorPin(lane, tier, ms)
    \/ \E lane \in ReportedLanes, tier \in ReportedTiers : OperatorUnpin(lane, tier)
    \/ SaveAffinity
    \/ SaveStats
    \/ LadderRestart
    \/ LadderTick
LadderNext == ExhaustionNext \/ MemoryNext

LadderSpec == LadderInit /\ [][LadderNext]_ladderVars

-----------------------------------------------------------------------------
\* The questions a caller may ask without naming a lane or model itself.
Questions == [tier : Tiers, after : {None} \cup LaneIds, mode : ReportedModes, host : Hosts,
              requester : {"mcp", None}, lane : {None}, model : {None}]

\* A report that one lane's quota is spent takes every lane on that quota out
\* of every tier, until it lapses or is disproved: the ladder never sends the
\* next job into a bucket known to be empty, and "auto" resolves to the spec of
\* a rung whose bucket is not.
DeadBucketIsNotOffered ==
    LET dead == {r.quota : r \in {x \in Rungs : exhausted[CooldownKey(x)] > clock}} \ {None}
        Spent(tier, id) == \E r \in RangeOf(Ladders[tier]) : r.id = id /\ r.quota \in dead
    IN dead # {} =>
          /\ \A q \in Questions : \A l \in RangeOf(BuildDispatch(q)) : ~Spent(q.tier, l.id)
          /\ \A t \in Tiers : ResolveAutoSpec(t) # None =>
                \E r \in Rungs : /\ r.kind = "relay" /\ r.spec = ResolveAutoSpec(t)
                                 /\ r.quota \notin dead

\* Runs, operators and the outlier rule all write the memory of a lane; however
\* they interleave with saves and restarts, a lane is never pinned and demoted
\* in one tier, where the pin would hide the newer evidence.
OneMemoryPerLane ==
    \A t \in ReportedTiers \cup Tiers, l \in LaneIds :
       ~(Recall(t, l, "pin") /\ Recall(t, l, "demote"))

\* What the ladder remembers of a lane decides for that lane, and once.
LaneMemoryIsHonest == DeadBucketIsNotOffered /\ OneMemoryPerLane
=============================================================================
