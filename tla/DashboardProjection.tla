------------------------ MODULE DashboardProjection ------------------------
(***************************************************************************)
(* What the dashboard and the cost report say of the ledger: the minutes   *)
(* of a window, or the lifetime, are merged into a summary, into buckets   *)
(* and into a row per model, and each panel says how much of it to         *)
(* believe.  Nothing here changes the ledger: a report is a function of    *)
(* the query, of what the reader could read, and of the snapshots of       *)
(* LedgerRows.                                                             *)
(***************************************************************************)
EXTENDS LedgerRows

CONSTANTS
    MaxBuckets,         \* DASHBOARD_MAX_BUCKETS, the samples a merged metric keeps
    MaxDimensionRows,   \* DASHBOARD_MAX_DIMENSION_ROWS
    MaxErrorRows,       \* DASHBOARD_MAX_ERROR_ROWS
    MaxShown            \* bound on the requests of a ledger that is reported on

Unfiltered == "any"
Lifetime == <<"lifetime">>

\* DashboardSnapshotQuery: a window of minutes [from, to) or the lifetime, and the filters.
Queries == [window : {<<0, 1>>, <<0, 2>>, <<1, 2>>, Lifetime},
            model : {Unfiltered, "paid"}, outcome : {Unfiltered, "success"}, includeRepair : BOOLEAN]

\* What the accounting reader answers for the day and for the lifetime.
Reads == {"ok", "missing", "corrupt"}

HasTupleFilter(q) == q.model # Unfiltered \/ q.outcome # Unfiltered
MatchesTuple(q, key) ==
    (q.model = Unfiltered \/ key.model = q.model) /\ (q.outcome = Unfiltered \/ key.outcome = q.outcome)

-----------------------------------------------------------------------------
(* Merging one cell of the ledger into a figure.  A merge that lost        *)
(* something the ledger held makes the figures partial.                    *)

Merged(v, lossy) == [v |-> v, lossy |-> lossy]
Bounded(a, b) == Min({a + b, MaxCounter})
Saturates(t, s, fields) == \E f \in fields : t[f] + s[f] > MaxCounter

NewFigure == [seen |-> FALSE, value |-> NoCount, known |-> 0, unknown |-> 0, lost |-> 0,
              overflow |-> FALSE, method |-> "none"]
Evidence(cell) == cell.known > 0 \/ Uncertain(cell)

MergeMethod(method, source) ==
    IF source \in {"none", method} THEN method
    ELSE IF method = "none" THEN source
    ELSE IF "unknown" \in {method, source} THEN "unknown" ELSE "mixed"

\* The value of a figure to which a cell with `value` was added.
SumOf(known, value, cell, cellValue) ==
    IF Uncertain(cell) \/ cellValue = NoCount THEN Merged(NoCount, cell.lost > 0 \/ cell.overflow)
    ELSE IF value = NoCount /\ known = cell.known THEN Merged(cellValue, FALSE)
    ELSE IF value = NoCount \/ value + cellValue > MaxCounter THEN Merged(NoCount, TRUE)
    ELSE Merged(value + cellValue, FALSE)

\* Faulty: a cell without a count leaves the figure as it was.
MergeTokenCellKept(t, s) ==
    IF s.known = 0 THEN Merged(t, FALSE)
    ELSE Merged([t EXCEPT !.seen = TRUE, !.known = @ + s.known,
                          !.value = IF @ = NoCount THEN s.value ELSE @ + s.value],
                s.lost > 0 \/ s.overflow)

MergeTokenCell(t, s) ==
    LET known == Bounded(t.known, s.known)
        sum == SumOf(known, t.value, s, s.value)
    IN  IF ~Evidence(s) THEN Merged(t, FALSE)
        ELSE Merged([seen |-> TRUE, value |-> sum.v, known |-> known,
                     unknown |-> Bounded(t.unknown, s.unknown), lost |-> Bounded(t.lost, s.lost),
                     overflow |-> t.overflow \/ s.overflow,
                     method |-> MergeMethod(t.method, s.method)],
                    sum.lossy \/ Saturates(t, s, {"known", "unknown", "lost"}))

NewMetric == [seen |-> FALSE, sum |-> NoCount, known |-> 0, unknown |-> 0, lost |-> 0,
              overflow |-> FALSE, samples |-> <<>>, dropped |-> 0]

MergeMetric(t, s) ==
    LET known == Bounded(t.known, s.known)
        sum == SumOf(known, t.sum, s, s.sum)
        room == Min({Len(s.samples), MaxBuckets - Len(t.samples)})
        cut == Len(s.samples) - room
    IN  IF ~Evidence(s) THEN Merged(t, FALSE)
        ELSE Merged([seen |-> TRUE, sum |-> sum.v, known |-> known,
                     unknown |-> Bounded(t.unknown, s.unknown), lost |-> Bounded(t.lost, s.lost),
                     overflow |-> t.overflow \/ s.overflow,
                     samples |-> t.samples \o SubSeq(s.samples, 1, room),
                     dropped |-> Bounded(t.dropped, s.dropped + cut)],
                    sum.lossy \/ cut > 0 \/ s.dropped > 0)

NewSpend == [cell \in SpendCells |-> [seen |-> FALSE, amount |-> NoCount, known |-> 0]]

\* A cell that lost its own amount takes the figure with it, and tells of it only when the
\* figure had a contributor before.
MergeSpendCell(t, s) ==
    LET next == [t EXCEPT !.seen = TRUE, !.known = Bounded(@, s.known)]
    IN  IF s.known = 0 THEN Merged(t, FALSE)
        ELSE IF s.amount = NoCount
             THEN Merged([next EXCEPT !.amount = IF t.known > 0 THEN NoCount ELSE @], t.known > 0)
        ELSE IF t.known = 0 THEN Merged([next EXCEPT !.amount = s.amount], FALSE)
        ELSE IF t.amount = NoCount \/ t.amount + s.amount > MaxCounter
             THEN Merged([next EXCEPT !.amount = NoCount], TRUE)
        ELSE Merged([next EXCEPT !.amount = @ + s.amount], FALSE)

\* mergeTokens, mergeSpend: every cell of a record or function, and whether one was lossy.
MergeEach(Merge(_, _), t, s) == [f \in DOMAIN t |-> Merge(t[f], s[f])]
Values(merged) == [f \in DOMAIN merged |-> merged[f].v]
Lossy(merged) == \E f \in DOMAIN merged : merged[f].lossy

NewStats == [requests |-> 0, attempts |-> 0, success |-> 0, error |-> 0, cancelled |-> 0,
             unpriced |-> 0, partiallyPriced |-> 0,
             tokens |-> [f \in {"in", "out", "cached", "estimated"} |-> NewFigure],
             spend |-> NewSpend, abandonedSpend |-> NewSpend,
             latency |-> NewMetric, commit |-> NewMetric, partial |-> FALSE]

RequestCounters == {"requests", "success", "error", "cancelled", "unpriced", "partiallyPriced"}

AddRequestAggregate(t, a) ==
    LET tokens == MergeEach(MergeTokenCell, t.tokens, a.requestTokens)
        spend == MergeEach(MergeSpendCell, t.spend, a.requestSpend)
        abandoned == MergeEach(MergeSpendCell, t.abandonedSpend, a.abandonedSpend)
        latency == MergeMetric(t.latency, a.latency)
        commit == MergeMetric(t.commit, a.commit)
    IN  [f \in DOMAIN t |->
           IF f \in RequestCounters THEN Bounded(t[f], a[f])
           ELSE CASE f = "attempts" -> t.attempts
                  [] f = "tokens" -> Values(tokens)
                  [] f = "spend" -> Values(spend)
                  [] f = "abandonedSpend" -> Values(abandoned)
                  [] f = "latency" -> latency.v
                  [] f = "commit" -> commit.v
                  [] f = "partial" ->
                        \/ t.partial \/ Saturates(t, a, RequestCounters)
                        \/ Lossy(tokens) \/ Lossy(spend) \/ Lossy(abandoned)
                        \/ latency.lossy \/ commit.lossy]

AddAttemptAggregate(t, a) ==
    [t EXCEPT !.attempts = Bounded(@, a.attempts),
              !.partial = @ \/ Saturates(t, a, {"attempts"})]

AddRow(t, row) ==
    IF row.key.kind = "request" THEN AddRequestAggregate(t, row.aggregate)
    ELSE AddAttemptAggregate(t, row.aggregate)

-----------------------------------------------------------------------------
(* A panel and how much of it to believe.                                  *)

NewHealth == [readable |-> TRUE, partial |-> FALSE, noMatch |-> FALSE]
PartialIf(condition, h) == [h EXCEPT !.partial = @ \/ condition]

NoteAccountingCoverage(h, c) ==
    PartialIf(\/ c.state = "partial" \/ c.reason # "none" \/ c.losses # {}
              \/ c.droppedRows + c.droppedRecent + c.droppedDetails + c.droppedDedup > 0, h)

HasUnexpectedMetricLoss(t) ==
    \/ t.latency.unknown > t.cancelled \/ t.latency.lost > 0 \/ t.latency.overflow
    \/ t.latency.dropped > 0
    \/ t.commit.unknown > Max({0, t.requests - t.success})
    \/ t.commit.lost > 0 \/ t.commit.overflow

\* finalizeHealth, and mergeHealth into the panel's.
MergeHealth(h, t) == PartialIf(t.partial \/ HasUnexpectedMetricLoss(t), h)

CoverageFor(h) ==
    IF ~h.readable THEN "unavailable"
    ELSE IF h.partial THEN "partial"
    ELSE IF h.noMatch THEN "empty" ELSE "complete"

TokenFigure(figure) == IF ~figure.seen \/ Uncertain(figure) THEN NoCount ELSE figure.value
SpendFigure(figure) == IF figure.seen /\ figure.known > 0 THEN figure.amount ELSE NoCount

Average(metric, tolerated) ==
    IF \/ ~metric.seen \/ metric.sum = NoCount \/ metric.known < 1
       \/ metric.unknown > tolerated \/ metric.lost > 0 \/ metric.overflow
    THEN NoCount ELSE (2 * metric.sum + metric.known) \div (2 * metric.known)

Percentile95(metric, tolerated) ==
    IF \/ ~metric.seen \/ metric.dropped > 0 \/ metric.unknown > tolerated
       \/ metric.lost > 0 \/ metric.overflow \/ metric.samples = <<>>
    THEN NoCount
    ELSE SortSeq(metric.samples, LAMBDA a, b : a < b)[(Len(metric.samples) * 95 + 99) \div 100]

SummaryFrom(t) ==
    [requests |-> t.requests, attempts |-> t.attempts, success |-> t.success, error |-> t.error,
     cancelled |-> t.cancelled, unpriced |-> t.unpriced, partiallyPriced |-> t.partiallyPriced,
     tokens |-> [f \in DOMAIN t.tokens |-> TokenFigure(t.tokens[f])],
     spend |-> [c \in SpendCells |-> SpendFigure(t.spend[c])],
     avgLatency |-> Average(t.latency, t.cancelled),
     p95Latency |-> Percentile95(t.latency, t.cancelled),
     avgCommit |-> Average(t.commit, Max({0, t.requests - t.success}))]

-----------------------------------------------------------------------------
(* The snapshot.                                                           *)

\* addDimension: a row's figures under its model, while there is room for the model.
AddDimension(dims, row) ==
    LET model == row.key.model
        at == IF model \in DOMAIN dims.rows THEN dims.rows[model] ELSE NewStats
    IN  IF model = "none" THEN dims
        ELSE IF model \notin DOMAIN dims.rows /\ Cardinality(DOMAIN dims.rows) >= MaxDimensionRows
             THEN [dims EXCEPT !.partial = TRUE]
        ELSE [dims EXCEPT !.rows = (model :> AddRow(at, row)) @@ @]

\* The errors panel: how many requests ended how, other than in success.
AddError(errors, row) ==
    LET outcome == row.key.outcome
    IN  IF row.key.kind # "request" \/ outcome = "success" THEN errors
        ELSE IF outcome \in DOMAIN errors.rows
             THEN [errors EXCEPT !.rows[outcome] = Bounded(@, row.aggregate.requests)]
        ELSE IF Cardinality(DOMAIN errors.rows) < MaxErrorRows
             THEN [errors EXCEPT !.rows = (outcome :> row.aggregate.requests) @@ @]
        ELSE [errors EXCEPT !.partial = TRUE]

NoRows == [rows |-> <<>>, partial |-> FALSE]

\* What a minute's aggregate adds where no filter asks for its rows.
RootAttempts(total, cell, q) ==
    LET counted == AddRequestAggregate(total, cell.aggregate)
    IN  IF q.includeRepair THEN AddAttemptAggregate(counted, cell.aggregate) ELSE counted

\* One row of a minute.
ProcessRow(s, row, q) ==
    LET counts == IF HasTupleFilter(q) THEN TRUE
                  ELSE row.key.kind = "attempt" /\ ~q.includeRepair
    IN  IF \/ ~MatchesTuple(q, row.key)
           \/ row.key.kind = "attempt" /\ row.key.role = "repair" /\ ~q.includeRepair
        THEN s
        ELSE [s EXCEPT !.total = IF counts THEN AddRow(@, row) ELSE @,
                       !.dims = AddDimension(@, row), !.errors = AddError(@, row),
                       !.partial = @ \/ row.key.model = "none"]

\* processRows, for one minute of the window.
ProcessMinute(s, cell, q) ==
    LET root == IF HasTupleFilter(q) THEN s.total ELSE RootAttempts(s.total, cell, q)
        noted == NoteAccountingCoverage(NewHealth, cell.coverage).partial
    IN  FoldLeft(LAMBDA t, row : ProcessRow(t, row, q),
                 [s EXCEPT !.total = root, !.partial = @ \/ noted], cell.rows)

Start == [total |-> NewStats, dims |-> NoRows, errors |-> NoRows, partial |-> FALSE]
MinutesOf(q) == [i \in 1..(q.window[2] - q.window[1]) |-> q.window[1] + i - 1]

\* safeReadDays: a shard that does not parse is as good as none.
ReadDay(read) == IF read = "ok" /\ ~IsDay(day) THEN "corrupt" ELSE read
ReadLifetime(read) == IF read = "ok" /\ ~IsLifetime(lifetime) THEN "corrupt" ELSE read

NoSnapshot(h) ==
    [coverage |-> CoverageFor(h), summary |-> SummaryFrom(NewStats), buckets |-> <<>>,
     models |-> <<>>, errors |-> <<>>, details |-> "unavailable"]

\* The panels of a window, from what its minutes come to.
WindowPanels(q, minutes, whole) ==
    LET part(m) == ProcessMinute(Start, day.cells[m], q).total
        seen == [NoteAccountingCoverage(NewHealth, day.coverage) EXCEPT
                   !.partial = @ \/ whole.partial \/ whole.dims.partial \/ whole.errors.partial]
        none == whole.total.requests = 0 /\ whole.total.attempts = 0
        health == MergeHealth([seen EXCEPT !.noMatch = none /\ ~seen.partial], whole.total)
    IN  [coverage |-> CoverageFor(health), summary |-> SummaryFrom(whole.total),
         buckets |-> [i \in DOMAIN minutes |-> SummaryFrom(part(minutes[i]))],
         models |-> [m \in DOMAIN whole.dims.rows |->
                        [summary |-> SummaryFrom(whole.dims.rows[m]),
                         coverage |-> CoverageFor(MergeHealth(NewHealth, whole.dims.rows[m]))]],
         errors |-> whole.errors.rows, details |-> CoverageFor(health)]

WindowSnapshot(q) ==
    LET minutes == MinutesOf(q)
    IN  WindowPanels(q, minutes,
          FoldLeft(LAMBDA s, m : ProcessMinute(s, day.cells[m], q), Start, minutes))

\* processLifetime: the rollup has neither rows nor a figure without repairs.
LifetimeSnapshot(q) ==
    LET counted == AddRequestAggregate(NewStats, lifetime.aggregate)
        total == IF HasTupleFilter(q) \/ lifetime.firstAt = NoTick THEN NewStats
                 ELSE IF q.includeRepair THEN AddAttemptAggregate(counted, lifetime.aggregate)
                 ELSE counted
        seen == NoteAccountingCoverage(NewHealth, lifetime.coverage)
        none == total.requests = 0 /\ total.attempts = 0 /\ ~HasTupleFilter(q)
        health == MergeHealth([seen EXCEPT !.noMatch = none /\ ~seen.partial], total)
        declined == HasTupleFilter(q) \/ ~q.includeRepair
    IN  [coverage |-> IF declined THEN "unavailable" ELSE CoverageFor(health),
         summary |-> SummaryFrom(total), buckets |-> <<>>, models |-> <<>>, errors |-> <<>>,
         details |-> "unavailable"]

ReadSnapshot(q, read) ==
    LET status == IF q.window = Lifetime THEN ReadLifetime(read) ELSE ReadDay(read)
    IN  IF status # "ok" THEN NoSnapshot([NewHealth EXCEPT !.readable = FALSE])
        ELSE IF q.window = Lifetime THEN LifetimeSnapshot(q) ELSE WindowSnapshot(q)

-----------------------------------------------------------------------------
(* The cost report, which folds the same minutes on its own.               *)

NewRepair == [attempts |-> 0, unpriced |-> 0, spend |-> NewSpend, partial |-> FALSE]

\* foldRepairAttempt: the attempts without a priced contribution are unpriced.
FoldRepairAttempt(r, a) ==
    LET priced == FoldSet(LAMBDA c, n : n + a.spend[c].known, 0, SpendCells)
        spend == MergeEach(MergeSpendCell, r.spend, a.spend)
    IN  [attempts |-> Bounded(r.attempts, a.attempts),
         unpriced |-> Bounded(r.unpriced, Max({0, a.attempts - priced})),
         spend |-> Values(spend), partial |-> r.partial \/ Lossy(spend)]

CostRow(s, row, q) ==
    IF row.key.kind = "attempt"
    THEN IF row.key.role = "repair" /\ q.includeRepair
         THEN [s EXCEPT !.repair = FoldRepairAttempt(@, row.aggregate)] ELSE s
    ELSE [s EXCEPT !.dims = AddDimension(@, row), !.partial = @ \/ row.key.model = "none"]

CostMinute(s, cell, q) ==
    FoldLeft(LAMBDA t, row : CostRow(t, row, q),
             [s EXCEPT !.total = RootAttempts(@, cell, q),
                       !.partial = @ \/ NoteAccountingCoverage(NewHealth, cell.coverage).partial],
             cell.rows)

CostOf(t) == [requests |-> t.requests, priced |-> Max({0, t.requests - t.unpriced}),
              spend |-> SummaryFrom(t).spend]

WindowCostFrom(whole) ==
    LET seen == NoteAccountingCoverage(NewHealth, day.coverage)
        health == PartialIf(whole.partial \/ whole.dims.partial \/ whole.repair.partial, seen)
    IN  [coverage |-> CoverageFor(MergeHealth(health, whole.total)), total |-> CostOf(whole.total),
         rows |-> [m \in DOMAIN whole.dims.rows |-> CostOf(whole.dims.rows[m])],
         repair |-> whole.repair]

WindowCost(q) ==
    WindowCostFrom(FoldLeft(LAMBDA s, m : CostMinute(s, day.cells[m], q),
                            [total |-> NewStats, dims |-> NoRows, repair |-> NewRepair,
                             partial |-> FALSE], MinutesOf(q)))

LifetimeCost(q) ==
    LET total == IF lifetime.firstAt = NoTick THEN NewStats
                 ELSE AddRequestAggregate(NewStats, lifetime.aggregate)
        seen == NoteAccountingCoverage(NewHealth, lifetime.coverage)
        health == [seen EXCEPT !.readable = lifetime.firstAt # NoTick]
    IN  [coverage |-> CoverageFor(MergeHealth(health, total)), total |-> CostOf(total),
         rows |-> <<>>, repair |-> NewRepair]

\* A day or a lifetime that was never written is an empty report, not a broken one.
ReadCostReport(q, read) ==
    LET status == IF q.window = Lifetime THEN ReadLifetime(read) ELSE ReadDay(read)
        failed == IF q.window = Lifetime THEN [NewHealth EXCEPT !.readable = FALSE]
                  ELSE PartialIf(TRUE, NewHealth)
    IN  IF status # "ok"
        THEN [coverage |-> CoverageFor(IF status = "missing"
                                       THEN [NewHealth EXCEPT !.noMatch = TRUE] ELSE failed),
              total |-> CostOf(NewStats), rows |-> <<>>, repair |-> NewRepair]
        ELSE IF q.window = Lifetime THEN LifetimeCost(q) ELSE WindowCost(q)

-----------------------------------------------------------------------------
(* One request: its row and its detail.                                    *)

\* requestRow: an aggregate of this one packet, merged as the others are.
RequestRow(packet) ==
    LET figure == packet.spend
        at(c) == figure # NoFigure /\ figure.cell = c
        one == [c \in SpendCells |-> IF at(c) THEN [amount |-> figure.amount, known |-> 1,
                                                    observedAt |-> packet.endedAt]
                                     ELSE EmptySpend[c]]
        aggregate == [EmptyAggregate EXCEPT
                        !.requests = 1, ![packet.outcome] = 1,
                        !.requestTokens = packet.tokens, !.requestSpend = one,
                        !.unpriced = IF figure = NoFigure THEN 1 ELSE 0,
                        !.partiallyPriced = IF figure # NoFigure /\ figure.coverage # "full"
                                            THEN 1 ELSE 0]
    IN  SummaryFrom(AddRequestAggregate(NewStats, aggregate))

DetailAttempts(packet, includeRepair) ==
    {i \in DOMAIN packet.attempts : includeRepair \/ packet.attempts[i].role # "repair"}

-----------------------------------------------------------------------------
(* What the panels promise.                                                *)

Shown == Len(finished) \in 1..MaxShown
ModelOf(life) == IF life.winner = 0 THEN "none" ELSE life.attempts[life.winner].model
Matching(q) ==
    {i \in DOMAIN finished :
        /\ q.window = Lifetime \/ Minute(finished[i].at) \in q.window[1]..(q.window[2] - 1)
        /\ MatchesTuple(q, [model |-> ModelOf(finished[i].life),
                            outcome |-> finished[i].life.outcome])}
Total(set, Figure(_)) == FoldSet(LAMBDA i, n : n + Figure(finished[i].life), 0, set)

\* The figures a summary would have, had the requests themselves been added up.
TokensAre(figure, set, field) ==
    figure = IF set = {} \/ \E i \in set : WinnersTokens(finished[i].life)[field] = NoCount
             THEN NoCount ELSE Total(set, LAMBDA life : WinnersTokens(life)[field])

SpendIs(figure, set, cell) ==
    LET In(i) == LET f == RequestFigure(finished[i].life) IN f # NoFigure /\ f.cell = cell
        priced == {i \in set : In(i)}
        sum == Total(priced, LAMBDA life : RequestFigure(life).amount)
    IN  sum <= MaxCounter => figure = IF priced = {} THEN NoCount ELSE sum

TrueOf(summary, set) ==
    /\ summary.requests = Cardinality(set)
    /\ \A outcome \in RowOutcomes :
          summary[outcome] = Total(set, LAMBDA life : IF life.outcome = outcome THEN 1 ELSE 0)
    /\ summary.unpriced
          = Total(set, LAMBDA life : IF RequestFigure(life) = NoFigure THEN 1 ELSE 0)
    /\ \A f \in DOMAIN summary.tokens : TokensAre(summary.tokens[f], set, f)
    /\ \A c \in SpendCells : SpendIs(summary.spend[c], set, c)

\* The row of a recent request says what the request was, and its detail has the attempt
\* that answered (requestRow, readDetail).
RecentRowsAreTheirRequests ==
    \A k \in DOMAIN recent.rows :
        LET packet == recent.rows[k]
            life == finished[packet.id].life
        IN  /\ TrueOf(RequestRow(packet), {packet.id})
            /\ life.outcome = "success" =>
                  \E i \in DetailAttempts(packet, FALSE) : packet.attempts[i].id = life.winner

\* A panel that calls itself complete tells exactly what happened in its window, and one
\* that calls itself empty that nothing did: counts, token figures and spend of the
\* requests that were finished; and so does the row of a recent request (readSnapshot,
\* readCostReport, coverageFor; only a loss makes a panel less than complete,
\* docs/reference.md:2284-2291).
CompletePanelsAreTrue ==
    Shown =>
        RecentRowsAreTheirRequests /\ \A q \in Queries, read \in Reads :
            \A snapshot \in {ReadSnapshot(q, read)}, cost \in {ReadCostReport(q, read)} :
                /\ snapshot.coverage = "complete" => TrueOf(snapshot.summary, Matching(q))
                /\ snapshot.coverage = "empty" /\ read = "ok" => Matching(q) = {}
                /\ cost.coverage = "complete" /\ ~HasTupleFilter(q) =>
                      /\ cost.total.requests = Cardinality(Matching(q))
                      /\ \A c \in SpendCells : SpendIs(cost.total.spend[c], Matching(q), c)

\* The parts of a report add up to its whole: the buckets and the rows per model to the
\* summary, the rows of a complete errors panel to the failures, the cost report's rows to
\* its total and its total to the snapshot's; and every report is one the contract lets
\* out (isSnapshotV1, isCostReportV1).
PartsAddUp ==
    Shown =>
        \A q \in Queries :
        \A snapshot \in {ReadSnapshot(q, "ok")}, cost \in {ReadCostReport(q, "ok")} :
            LET Over(rows, Figure(_)) ==
                    FoldSet(LAMBDA k, n : n + Figure(rows[k]), 0, DOMAIN rows)
                whole == snapshot.summary
                window == q.window # Lifetime /\ snapshot.coverage # "unavailable"
            IN  /\ window =>
                      \A f \in {"requests", "success", "error", "attempts"} :
                          Over(snapshot.buckets, LAMBDA b : b[f]) = whole[f]
                /\ window /\ snapshot.details = "complete" =>
                      /\ \A f \in {"requests", "attempts", "unpriced"} :
                            Over(snapshot.models, LAMBDA r : r.summary[f]) = whole[f]
                      /\ Over(snapshot.errors, LAMBDA n : n) = whole.error + whole.cancelled
                /\ window /\ cost.coverage = "complete" =>
                      Over(cost.rows, LAMBDA r : r.requests) = cost.total.requests
                /\ {snapshot.coverage, cost.coverage} = {"complete"} /\ ~HasTupleFilter(q) =>
                      cost.total.requests = whole.requests /\ cost.total.spend = whole.spend
                /\ Cardinality(DOMAIN snapshot.models) <= MaxDimensionRows
                /\ cost.total.priced <= cost.total.requests
                /\ cost.repair.unpriced <= cost.repair.attempts

\* What the dashboard shows of the ledger is true as a whole and in its parts.
PanelsAreTrue == CompletePanelsAreTrue /\ PartsAddUp

\* A figure missing because the ledger could not hold its sum is a loss the panel tells of
\* (docs/reference.md:2284; dashboard-snapshot.ts:499-503 calls it "a real loss").
LostSpendIsPartial ==
    Shown =>
        \A q \in Queries :
            LET snapshot == ReadSnapshot(q, "ok")
                priced == {i \in Matching(q) : RequestFigure(finished[i].life) # NoFigure}
                Cell(i) == RequestFigure(finished[i].life).cell
            IN  snapshot.coverage = "complete" =>
                    \A i \in priced : snapshot.summary.spend[Cell(i)] # NoCount
=============================================================================
