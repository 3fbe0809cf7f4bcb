----------------------------- MODULE LedgerRows -----------------------------
(***************************************************************************)
(* What one finished request does to the ledger's snapshots: its facts are *)
(* priced, added to the minute's aggregate, to a row per combination of    *)
(* dimensions, to the lifetime, and kept as a packet among the recent      *)
(* requests.  Nothing is written that the schema would refuse to read, and *)
(* one refused snapshot stops the writing of all of them.                  *)
(*                                                                         *)
(* Counts end at MaxCounter.  A step that would pass it is not exact, and  *)
(* the steps after it are skipped (exact &&= ...).                         *)
(***************************************************************************)
EXTENDS Integers, Sequences, SequencesExt, FiniteSets, FiniteSetsExt

CONSTANTS
    Lifecycles,         \* what the requests were: outcome, winner, commit, attempts, evicted
    Price,              \* the published price of each model
    MaxCounter,         \* Number.MAX_SAFE_INTEGER
    MaxSamples,         \* ACCOUNTING_MAX_SAMPLES
    MaxCellRows,        \* ACCOUNTING_MAX_ROWS_PER_CELL
    MaxDayRows,         \* ACCOUNTING_MAX_DAY_ROWS
    MaxDedupIds,        \* dedupLimit
    RecentLimit, DetailLimit,
    MaxDetailAttempts,  \* ACCOUNTING_MAX_DETAIL_ATTEMPTS
    PendingAttempts,    \* pendingAttemptLimit
    LastTick,           \* bound: the day has the ticks 0..LastTick, two to the minute
    MaxFinished         \* bound on the requests

VARIABLES
    day, lifetime, recent,
    finished,           \* ghost: the requests that were finished
    overflowed          \* ghost: some counter did not hold its sum

rowsVars == <<day, lifetime, recent, finished, overflowed>>

NoCount == -1
NoTick == -1
Minute(tick) == tick \div 2

-----------------------------------------------------------------------------
(* Facts of an attempt and their price.                                    *)

\* resolvePrice and computeAccountingSpend: the reported counts where there is one, else
\* the estimated input; cached input is not billed and leaves the figure partial.
NoFigure == [amount |-> NoCount, cell |-> "none", coverage |-> "none"]
SpendOf(model, tokens) ==
    LET price == Price[model]
        reported == tokens.in # NoCount \/ tokens.out # NoCount
        cached == tokens.cached > 0 /\ tokens.in # NoCount /\ tokens.cached <= tokens.in
        Kind(n, per) == IF n = NoCount \/ per = NoCount THEN 0 ELSE n * per
        partial == \/ cached
                   \/ tokens.in # NoCount /\ price.in = NoCount
                   \/ tokens.out # NoCount /\ price.out = NoCount
        amount == IF reported
                  THEN Kind(IF cached THEN tokens.in - tokens.cached ELSE tokens.in, price.in)
                       + Kind(tokens.out, price.out)
                  ELSE Kind(tokens.estimated, price.in)
    IN  IF price.source = "none" \/ (price.in = NoCount /\ price.out = NoCount) THEN NoFigure
        ELSE IF amount = 0 /\ ~(reported /\ partial) THEN NoFigure
        ELSE [amount |-> amount,
              cell |-> <<price.source, IF reported THEN "reported" ELSE "estimated">>,
              coverage |-> IF ~reported THEN "input_only" ELSE IF partial THEN "partial" ELSE "full"]

\* AccountingRequestLifecycle.complete: what a lifecycle may have been.
Lifecycle(life) ==
    LET Serves(i) == life.attempts[i].role = "serve"
        Won(i) == Serves(i) /\ life.attempts[i].outcome = "success"
    IN  /\ life.commit # 0 => life.winner = life.commit /\ Serves(life.commit)
        /\ life.winner # 0 => \/ life.outcome = "success" /\ Won(life.winner)
                              \/ /\ life.winner = life.commit
                                 /\ life.attempts[life.winner].outcome = life.outcome
        /\ life.winner = 0 => life.outcome # "success"

ASSUME LedgerRowsAssumption == \A life \in Lifecycles : Lifecycle(life)

NoTokens == [in |-> NoCount, out |-> NoCount, cached |-> NoCount, estimated |-> NoCount,
             method |-> "none"]
WinnersTokens(life) == IF life.winner = 0 THEN NoTokens ELSE life.attempts[life.winner].tokens

-----------------------------------------------------------------------------
(* Adding to a cell.  Every step returns its result and whether it is      *)
(* exact.                                                                  *)

Exactly(v) == [v |-> v, exact |-> TRUE]
Inexactly(v) == [v |-> v, exact |-> FALSE]
AndThen(step, Op(_)) == IF step.exact THEN Op(step.v) ELSE step

Increase(aggregate, field) ==
    IF aggregate[field] = MaxCounter THEN Inexactly(aggregate)
    ELSE Exactly([aggregate EXCEPT ![field] = @ + 1])

\* One field of a record through a step of its own.
Within(record, field, step) == [v |-> [record EXCEPT ![field] = step.v], exact |-> step.exact]

EmptyCell == [value |-> NoCount, known |-> 0, unknown |-> 0, lost |-> 0, overflow |-> FALSE,
              observedAt |-> NoTick, method |-> "none"]
Uncertain(cell) == cell.unknown > 0 \/ cell.lost > 0 \/ cell.overflow
LatestTick(a, b) == IF a < b THEN b ELSE a
Overflows(cell) == [cell EXCEPT !.overflow = TRUE, !.value = NoCount, !.lost = @ + 1]

AddRawTokenCell(cell, value, at) ==
    IF value = NoCount
    THEN IF cell.unknown = MaxCounter
         THEN Inexactly([cell EXCEPT !.overflow = TRUE, !.value = NoCount])
         ELSE Exactly([cell EXCEPT !.unknown = @ + 1, !.value = NoCount])
    ELSE IF cell.known = MaxCounter THEN Inexactly(Overflows(cell))
    ELSE LET seen == [cell EXCEPT !.known = @ + 1, !.observedAt = LatestTick(@, at)]
         IN  IF Uncertain(cell) THEN Exactly([seen EXCEPT !.value = NoCount])
             ELSE IF cell.known = 0 THEN Exactly([seen EXCEPT !.value = value])
             ELSE IF cell.value > MaxCounter - value THEN Inexactly(Overflows(seen))
             ELSE Exactly([seen EXCEPT !.value = @ + value])

UpdateMethod(cell, incoming) ==
    LET method == IF incoming = "none" THEN "unspecified" ELSE incoming
    IN  IF cell.known = 0
        THEN [cell EXCEPT !.method = IF Uncertain(cell) THEN "unknown" ELSE "none"]
        ELSE IF cell.method \in {"none", "unknown"} THEN [cell EXCEPT !.method = method]
        ELSE IF method # "unknown" /\ cell.method # method
             THEN [cell EXCEPT !.method = "mixed"]
        ELSE cell

EmptyTokens == [in |-> EmptyCell, out |-> EmptyCell, cached |-> EmptyCell,
                estimated |-> EmptyCell]

\* The reported cells in their order, then the estimate and, exact or not, its method.
AddTokens(tokens, Add(_, _), method) ==
    LET Put(t, field) == Within(t, field, Add(t[field], field))
        put == AndThen(AndThen(AndThen(Put(tokens, "in"), LAMBDA t : Put(t, "out")),
                               LAMBDA t : Put(t, "cached")),
                       LAMBDA t : Put(t, "estimated"))
    IN  [put EXCEPT !.v.estimated = UpdateMethod(@, method)]

AddRawTokens(tokens, facts, at) ==
    AddTokens(tokens, LAMBDA cell, field : AddRawTokenCell(cell, facts[field], at), facts.method)

\* addAggregateTokenCell: a packet's cell into an aggregate's.
AddAggregateCell(cell, source) ==
    LET sum == [cell EXCEPT !.known = @ + source.known, !.unknown = @ + source.unknown,
                            !.lost = @ + source.lost, !.overflow = @ \/ source.overflow,
                            !.observedAt = LatestTick(@, source.observedAt)]
        fits == cell.value + source.value <= MaxCounter
    IN  IF \E f \in {"known", "unknown", "lost"} : cell[f] + source[f] > MaxCounter
        THEN Inexactly([cell EXCEPT !.overflow = TRUE, !.value = NoCount])
        ELSE IF Uncertain(cell) \/ Uncertain(source)
             THEN Exactly([sum EXCEPT !.value = NoCount])
        ELSE IF cell.known = 0 THEN Exactly([sum EXCEPT !.value = source.value])
        ELSE IF source.known = 0 THEN Exactly([sum EXCEPT !.value = NoCount])
        ELSE IF fits THEN Exactly([sum EXCEPT !.value = cell.value + source.value])
        ELSE Inexactly([sum EXCEPT !.value = NoCount, !.overflow = TRUE])

AddAggregateTokens(tokens, source) ==
    AddTokens(tokens, LAMBDA cell, field : AddAggregateCell(cell, source[field]),
              source.estimated.method)

\* tokenSnapshot: the cells of one attempt.
TokenSnapshot(facts, at) == AddRawTokens(EmptyTokens, facts, at).v

EmptyMetric == [sum |-> NoCount, known |-> 0, unknown |-> 0, lost |-> 0, overflow |-> FALSE,
                samples |-> <<>>, dropped |-> 0, observedAt |-> NoTick]

AddMetric(metric, value, at) ==
    LET counted == [metric EXCEPT !.known = @ + 1, !.observedAt = LatestTick(@, at)]
        summed == [counted EXCEPT !.sum = IF Uncertain(metric) THEN NoCount
                                          ELSE IF metric.known = 0 THEN value ELSE @ + value]
        sampled == [summed EXCEPT !.samples = Append(@, value)]
    IN  IF value = NoCount
        THEN Exactly([metric EXCEPT !.unknown = @ + 1, !.sum = NoCount])
        ELSE IF summed.sum > MaxCounter
             THEN Inexactly([counted EXCEPT !.sum = NoCount, !.overflow = TRUE, !.lost = @ + 1])
        ELSE IF Len(sampled.samples) > MaxSamples
             THEN Exactly([sampled EXCEPT !.samples = Tail(@), !.dropped = @ + 1])
        ELSE Exactly(sampled)

SpendCells == {"provider", "reference"} \X {"reported", "estimated"}
EmptySpend == [cell \in SpendCells |-> [amount |-> NoCount, known |-> 0, observedAt |-> NoTick]]

\* addSpendIntoCells: an amount that does not fit is lost, its count is kept.
AddSpend(spend, figure, at) ==
    IF figure = NoFigure THEN Exactly(spend)
    ELSE LET cell == spend[figure.cell]
             amount == IF cell.known = 0 THEN figure.amount
                       ELSE IF cell.amount = NoCount \/ cell.amount + figure.amount > MaxCounter
                            THEN NoCount
                       ELSE cell.amount + figure.amount
         IN  Exactly([spend EXCEPT ![figure.cell] =
                         [amount |-> amount, known |-> cell.known + 1,
                          observedAt |-> LatestTick(cell.observedAt, at)]])

EmptyAggregate ==
    [requests |-> 0, attempts |-> 0, success |-> 0, error |-> 0, cancelled |-> 0,
     tokens |-> EmptyTokens, requestTokens |-> EmptyTokens,
     latency |-> EmptyMetric, commit |-> EmptyMetric,
     spend |-> EmptySpend, requestSpend |-> EmptySpend, abandonedSpend |-> EmptySpend,
     partiallyPriced |-> 0, unpriced |-> 0]

Abandoned(life) ==
    {i \in DOMAIN life.attempts : life.attempts[i].role = "serve" /\ life.attempts[i].abandoned}

AddAbandoned(spend, life, at) ==
    FoldSet(LAMBDA i, s : AddSpend(s, SpendOf(life.attempts[i].model, life.attempts[i].tokens), at).v,
            spend, Abandoned(life))

RequestFigure(life) ==
    IF life.winner = 0 THEN NoFigure
    ELSE SpendOf(life.attempts[life.winner].model, WinnersTokens(life))

\* Every request takes one tick; a committed one was committed at its start.
AddRequestPriced(aggregate, life, at, counts) ==
    LET figure == RequestFigure(life)
        metered == AndThen(AndThen(AndThen(AndThen(
            Increase(aggregate, "requests"),
            LAMBDA a : Increase(a, life.outcome)),
            LAMBDA a : Within(a, "latency", AddMetric(a.latency,
                           IF life.outcome = "cancelled" THEN NoCount ELSE 1, at))),
            LAMBDA a : Within(a, "commit", AddMetric(a.commit,
                           IF life.outcome = "success" /\ life.commit # 0 THEN 0 ELSE NoCount, at))),
            LAMBDA a : Within(a, "requestTokens",
                              AddRawTokens(a.requestTokens, WinnersTokens(life), at)))
        priced == AndThen(metered,
            LAMBDA a : Within(a, "requestSpend", AddSpend(a.requestSpend, figure, at)))
        counted == AndThen(priced,
            LAMBDA a : IF figure = NoFigure THEN Increase(a, "unpriced")
                       ELSE IF figure.coverage = "full" THEN Exactly(a)
                       ELSE Increase(a, "partiallyPriced"))
    IN  AndThen(counted,
            LAMBDA a : Exactly([a EXCEPT !.abandonedSpend = AddAbandoned(@, life, at),
                                         !.partiallyPriced = @ + counts]))

\* Faulty: what was spent on an abandoned attempt marks the request partially priced.
AddRequestBlended(aggregate, life, at) ==
    AddRequestPriced(aggregate, life, at, Cardinality(Abandoned(life)))

AddRequest(aggregate, life, at) == AddRequestPriced(aggregate, life, at, 0)

AddAttemptTotals(a, packet) ==
    AndThen(Within(a, "tokens", AddAggregateTokens(a.tokens, packet.tokens)),
            LAMBDA b : Within(b, "spend", AddSpend(b.spend, packet.spend, packet.endedAt)))

\* addRootAttempt and addAttempt: a row also has the attempt's outcome and metrics.
AddRootAttempt(aggregate, packet) ==
    AndThen(Increase(aggregate, "attempts"), LAMBDA a : AddAttemptTotals(a, packet))

AddAttempt(aggregate, packet) ==
    LET committed == packet.outcome = "success" /\ packet.role = "serve" /\ packet.commits
    IN  AndThen(AndThen(AndThen(AndThen(
            Increase(aggregate, "attempts"),
            LAMBDA a : Increase(a, packet.outcome)),
            LAMBDA a : Within(a, "latency", AddMetric(a.latency,
                           IF packet.outcome = "cancelled" THEN NoCount ELSE 1, packet.endedAt))),
            LAMBDA a : Within(a, "commit", AddMetric(a.commit,
                           IF committed THEN 0 ELSE NoCount, packet.endedAt))),
            LAMBDA a : AddAttemptTotals(a, packet))

-----------------------------------------------------------------------------
(* What the schema reads.                                                  *)

IsCounter(n) == n \in 0..MaxCounter
IsTotal(total, cell) ==
    /\ total = NoCount \/ (IsCounter(total) /\ cell.known > 0 /\ ~Uncertain(cell))
    /\ total = NoCount /\ cell.known > 0 => Uncertain(cell)
    /\ (cell.known = 0) = (cell.observedAt = NoTick)

IsTokenCell(cell) ==
    /\ \A f \in {"known", "unknown", "lost"} : IsCounter(cell[f])
    /\ IsTotal(cell.value, cell)

IsEstimatedCell(cell) ==
    /\ IsTokenCell(cell)
    /\ cell.method = "none" <=> cell.known = 0 /\ ~Uncertain(cell)
    /\ cell.known = 0 /\ Uncertain(cell) => cell.method = "unknown"
    /\ cell.known > 0 => cell.method # "unknown"

IsTokens(tokens) ==
    /\ \A f \in {"in", "out", "cached"} : IsTokenCell(tokens[f])
    /\ IsEstimatedCell(tokens.estimated)

IsMetric(metric) ==
    /\ \A f \in {"known", "unknown", "lost", "dropped"} : IsCounter(metric[f])
    /\ Len(metric.samples) <= MaxSamples
    /\ Len(metric.samples) + metric.dropped <= metric.known
    /\ IsTotal(metric.sum, metric)

IsSpend(spend) ==
    \A cell \in SpendCells :
        IF spend[cell].known = 0 THEN spend[cell] = EmptySpend[cell]
        ELSE spend[cell].observedAt # NoTick

RowOutcomes == {"success", "error", "cancelled"}
Ended(a) == a.success + a.error + a.cancelled

IsAggregate(a) ==
    /\ \A f \in {"requests", "attempts", "success", "error", "cancelled", "partiallyPriced",
                 "unpriced"} : IsCounter(a[f])
    /\ IsTokens(a.tokens) /\ IsTokens(a.requestTokens)
    /\ IsMetric(a.latency) /\ IsMetric(a.commit)
    /\ IsSpend(a.spend) /\ IsSpend(a.requestSpend) /\ IsSpend(a.abandonedSpend)
    /\ a.unpriced + a.partiallyPriced <= a.requests

IsDimensionRow(row) ==
    LET a == row.aggregate
        count == IF row.key.kind = "request" THEN a.requests ELSE a.attempts
    IN  /\ IsAggregate(a)
        /\ count > 0
        /\ \A outcome \in RowOutcomes : a[outcome] = IF row.key.outcome = outcome THEN count ELSE 0
        /\ row.key.kind = "request" =>
              a.attempts = 0 /\ a.tokens = EmptyTokens /\ a.spend = EmptySpend
        /\ row.key.kind = "attempt" =>
              /\ a.requests = 0 /\ a.requestTokens = EmptyTokens
              /\ a.requestSpend = EmptySpend /\ a.abandonedSpend = EmptySpend
              /\ a.partiallyPriced = 0

IsCoverage(c) ==
    LET loss == c.losses # {} \/ c.droppedRows + c.droppedRecent + c.droppedDetails
                                 + c.droppedDedup > 0
    IN  IF c.state = "complete" THEN c.reason = "none" /\ ~loss ELSE c.reason # "none" \/ loss

IsCell(cell) ==
    /\ IsAggregate(cell.aggregate) /\ Ended(cell.aggregate) <= cell.aggregate.requests
    /\ Len(cell.rows) <= MaxCellRows
    /\ \A i \in DOMAIN cell.rows : IsDimensionRow(cell.rows[i])
    /\ IsCoverage(cell.coverage)

Minutes == 0..Minute(LastTick)
RowCount(cells) == FoldSet(LAMBDA m, n : n + Len(cells[m].rows), 0, Minutes)

IsDay(d) ==
    /\ \A m \in Minutes : IsCell(d.cells[m])
    /\ RowCount(d.cells) <= MaxDayRows
    /\ \A i \in 2..Len(d.dedup.ids) : d.dedup.ids[i - 1] < d.dedup.ids[i]
    /\ Len(d.dedup.ids) <= MaxDedupIds
    /\ d.dedup.dropped > 0 => /\ d.coverage.state # "complete"
                              /\ d.coverage.droppedDedup >= d.dedup.dropped
    /\ IsCoverage(d.coverage)

IsLifetime(l) ==
    /\ IsAggregate(l.aggregate) /\ Ended(l.aggregate) <= l.aggregate.requests
    /\ l.firstAt <= l.lastAt
    /\ (l.aggregate.requests = 0) = (l.firstAt = NoTick)
    /\ IsCoverage(l.coverage)

\* isRequestPacket: an attempt is known by its place in the lifecycle.
IsPacket(p) ==
    LET Find(id) == {i \in DOMAIN p.attempts : p.attempts[i].id = id}
        Kept(id) == id = 0 \/ Find(id) # {}
        Packet(id) == p.attempts[CHOOSE i \in Find(id) : TRUE]
        commits == {i \in DOMAIN p.attempts : p.attempts[i].commits}
        repairs == \E i \in DOMAIN p.attempts : p.attempts[i].role = "repair"
    IN  /\ p.startedAt <= p.endedAt
        /\ Len(p.attempts) <= MaxDetailAttempts
        /\ p.total = Len(p.attempts) + p.dropped
        /\ \A i, j \in DOMAIN p.attempts : i # j => p.attempts[i].id # p.attempts[j].id
        /\ p.dropped = 0 => p.repairIncluded = repairs
        /\ Kept(p.winner) /\ Kept(p.commit)
        /\ p.winner # 0 =>
              /\ p.outcome = "success" =>
                    Packet(p.winner).role = "serve" /\ Packet(p.winner).outcome = "success"
              /\ p.outcome # "success" => p.commit # 0
              /\ p.tokens = Packet(p.winner).tokens /\ p.spend = Packet(p.winner).spend
        /\ p.winner = 0 => p.outcome # "success"
        /\ p.commit # 0 => /\ p.winner = p.commit
                           /\ Packet(p.commit).commits /\ Packet(p.commit).outcome = p.outcome
        /\ Cardinality(commits) <= 1
        /\ \A i \in commits : p.commit = p.attempts[i].id

IsRecent(r) ==
    /\ Len(r.rows) <= RecentLimit
    /\ \A i \in DOMAIN r.rows : IsPacket(r.rows[i])
    /\ \A i, j \in DOMAIN r.rows : i # j => r.rows[i].id # r.rows[j].id
    /\ Cardinality(r.details) <= RecentLimit
    /\ IsCoverage(r.coverage)

-----------------------------------------------------------------------------
(* The packet of a request.                                                *)

\* The winner's and the committed packet, and as many others as there is room for.
Retained(attempts, forced) ==
    LET kept == SelectSeq(attempts, LAMBDA p : p.id \in forced)
        others == SelectSeq(attempts, LAMBDA p : p.id \notin forced)
        room == Min({Len(others), Max({0, MaxDetailAttempts - Len(kept)})})
    IN  SortSeq(kept \o SubSeq(others, 1, room), LAMBDA p, q : p.id < q.id)

NoPacket == [id |-> 0]

AttemptPacket(life, i, at) ==
    [id |-> i, role |-> life.attempts[i].role, outcome |-> life.attempts[i].outcome,
     model |-> life.attempts[i].model, commits |-> i = life.commit, endedAt |-> at,
     tokens |-> TokenSnapshot(life.attempts[i].tokens, at),
     spend |-> SpendOf(life.attempts[i].model, life.attempts[i].tokens)]

\* The attempts a pending request remembers; a request that was evicted has none.
PendingPackets(life, at, evicted) ==
    IF evicted THEN <<>>
    ELSE [i \in 1..Min({Len(life.attempts), PendingAttempts}) |-> AttemptPacket(life, i, at)]

PacketFor(id, life, startedAt, at, attempts) ==
    LET Known(i) == \E k \in DOMAIN attempts : attempts[k].id = i
        forced == {life.winner, life.commit}
        retained == Retained(attempts, forced)
        winner == IF Known(life.winner) THEN life.winner ELSE 0
        author == CHOOSE k \in DOMAIN attempts : attempts[k].id = winner
        Stays(i) == i = 0 \/ \E k \in DOMAIN retained : retained[k].id = i
        packet == [id |-> id, startedAt |-> startedAt, endedAt |-> at, outcome |-> life.outcome,
                   total |-> Len(life.attempts), dropped |-> Len(life.attempts) - Len(retained),
                   repairIncluded |-> \E i \in DOMAIN life.attempts :
                                          life.attempts[i].role = "repair",
                   winner |-> winner, commit |-> IF Known(life.commit) THEN life.commit ELSE 0,
                   tokens |-> IF winner = 0 THEN TokenSnapshot(NoTokens, at)
                              ELSE attempts[author].tokens,
                   spend |-> IF winner = 0 THEN NoFigure ELSE attempts[author].spend,
                   attempts |-> retained]
    IN  IF \/ startedAt = NoTick
           \/ ~Stays(life.winner) \/ ~Stays(life.commit)
           \/ life.outcome = "success" /\ winner = 0
           \/ ~IsPacket(packet)
        THEN NoPacket ELSE packet

-----------------------------------------------------------------------------
(* Coverage and rows.                                                      *)

FullCoverage == [state |-> "complete", reason |-> "none", droppedRows |-> 0, droppedRecent |-> 0,
             droppedDetails |-> 0, droppedDedup |-> 0, losses |-> {}]

MarkCoverage(c, reason, loss) ==
    [c EXCEPT !.state = "partial", !.reason = IF @ \in {"none", "unknown"} THEN reason ELSE @,
              !.losses = @ \cup {loss}]
MarkIf(condition, c, reason, loss) == IF condition THEN MarkCoverage(c, reason, loss) ELSE c

\* markDroppedRows.
DropRows(c, n) ==
    IF n = 0 THEN c
    ELSE MarkCoverage([c EXCEPT !.droppedRows = @ + n], "row_cap", <<"truncated", "rows">>)

RowsWith(cell, key) == {i \in DOMAIN cell.rows : cell.rows[i].key = key}

\* findRow: the row of the key, a new one, or a dropped one.
FindRow(s, key) ==
    IF RowsWith(s.cell, key) # {} THEN s
    ELSE IF Len(s.cell.rows) >= MaxCellRows \/ s.budget <= 0
    THEN [s EXCEPT !.cell.coverage = DropRows(@, 1)]
    ELSE [s EXCEPT !.cell.rows = Append(@, [key |-> key, aggregate |-> EmptyAggregate]),
                   !.budget = @ - 1]

\* The addition to the row, unless it was dropped or an earlier step was not exact.
AddToRow(s, key, Add(_)) ==
    LET row == FindRow(s, key)
        found == RowsWith(row.cell, key)
        at == CHOOSE i \in found : TRUE
        added == Add(row.cell.rows[at].aggregate)
    IN  IF found = {} \/ ~s.exact THEN row
        ELSE [row EXCEPT !.cell.rows[at].aggregate = added.v, !.exact = added.exact]

AddToCell(s, Add(_)) ==
    LET added == Add(s.cell.aggregate)
    IN  IF ~s.exact THEN s ELSE [s EXCEPT !.cell.aggregate = added.v, !.exact = added.exact]

AttemptKey(packet) == [kind |-> "attempt", role |-> packet.role, model |-> packet.model,
                       outcome |-> packet.outcome]

\* The minute: the request, its row, then every attempt and its row.
AddToMinute(cell, budget, life, at, model, attempts) ==
    LET start == [cell |-> cell, budget |-> budget, exact |-> TRUE]
        counted == AddToCell(start, LAMBDA a : AddRequest(a, life, at))
        key == [kind |-> "request", role |-> "request", model |-> model, outcome |-> life.outcome]
        rowed == AddToRow(counted, key, LAMBDA a : AddRequest(a, life, at))
        Attempt(s, packet) ==
            AddToRow(AddToCell(s, LAMBDA a : AddRootAttempt(a, packet)),
                     AttemptKey(packet), LAMBDA a : AddAttempt(a, packet))
    IN  FoldLeft(Attempt, rowed, attempts)

\* addLifetime.
AddLifetime(aggregate, life, at, attempts) ==
    FoldLeft(LAMBDA s, packet : AndThen(s, LAMBDA a : AddRootAttempt(a, packet)),
             AddRequest(aggregate, life, at), attempts)

\* addRecent: the newest requests, and the newest details among them.
AddRecent(r, packet) ==
    LET Newer(p, q) == p.endedAt > q.endedAt \/ (p.endedAt = q.endedAt /\ p.id > q.id)
        rows == SortSeq(Append(r.rows, packet), Newer)
        kept == SubSeq(rows, 1, Min({Len(rows), RecentLimit}))
        held == {p.id : p \in ToSet(kept)} \cap (r.details \cup {packet.id})
        order == SelectSeq(kept, LAMBDA p : p.id \in held)
        details == {p.id : p \in ToSet(SubSeq(order, 1, Min({Len(order), DetailLimit})))}
        gone == Cardinality((r.details \cup {packet.id}) \ details)
        dropped == [r.coverage EXCEPT !.droppedRecent = @ + Len(rows) - Len(kept),
                                      !.droppedDetails = @ + gone]
        marked == MarkIf(Len(rows) > Len(kept), dropped, "detail_cap", <<"truncated", "recent">>)
    IN  [rows |-> kept, details |-> details,
         coverage |-> MarkIf(gone > 0, marked, "detail_cap", <<"truncated", "details">>)]

\* addDedup.
AddDedup(d, id) ==
    IF Len(d.dedup.ids) >= MaxDedupIds
    THEN [d EXCEPT !.dedup.dropped = @ + 1,
                   !.coverage = MarkCoverage([@ EXCEPT !.droppedDedup = @ + 1], "dedup_cap",
                                             <<"dedup", "dedup">>)]
    ELSE [d EXCEPT !.dedup.ids = SortSeq(Append(@, id), LAMBDA a, b : a < b)]

-----------------------------------------------------------------------------
EmptyMinute == [aggregate |-> EmptyAggregate, rows |-> <<>>, coverage |-> FullCoverage]

RowsInit ==
    /\ day = [cells |-> [m \in Minutes |-> EmptyMinute], dedup |-> [ids |-> <<>>, dropped |-> 0],
              coverage |-> FullCoverage]
    /\ lifetime = [aggregate |-> EmptyAggregate, firstAt |-> NoTick, lastAt |-> NoTick,
                   coverage |-> FullCoverage]
    /\ recent = [rows |-> <<>>, details |-> {}, coverage |-> FullCoverage]
    /\ finished = <<>>
    /\ overflowed = FALSE

\* applyTerminal. The pending request may have been evicted in between, with its
\* attempts and its start.
ApplyTerminal ==
    /\ Len(finished) < MaxFinished
    /\ \E life \in Lifecycles, at \in 0..LastTick :
         LET id == Len(finished) + 1
             evicted == life.evicted
             startedAt == IF evicted THEN NoTick ELSE at
             attempts == PendingPackets(life, at, evicted)
         IN
         \E packet \in {PacketFor(id, life, startedAt, at, attempts)},
            total \in {AddLifetime(lifetime.aggregate, life, at, attempts)} :
         LET model == IF packet # NoPacket /\ packet.winner # 0
                      THEN life.attempts[packet.winner].model
                      ELSE IF life.winner # 0 THEN life.attempts[life.winner].model ELSE "none"
             minute == Minute(at)
         IN
         \E cell \in {AddToMinute(day.cells[minute], MaxDayRows - RowCount(day.cells),
                                  life, at, model, attempts)} :
         LET dropped == cell.cell.coverage.droppedRows
                        - day.cells[minute].coverage.droppedRows
             forgotten == Len(day.dedup.ids) >= MaxDedupIds
             unpacked == packet = NoPacket
             cut == ~evicted /\ Len(life.attempts) > PendingAttempts
             inexact == ~cell.exact \/ ~total.exact
             counted == AddDedup([day EXCEPT !.cells[minute] = cell.cell,
                                             !.coverage = DropRows(@, dropped)], id)
             \* markGlobalLoss: on the lifetime and on the recent requests.
             Lossy(c) == MarkIf(cut, MarkIf(forgotten,
                                 MarkIf(unpacked, c, "unknown", <<"truncated", "detail_packet">>),
                                 "dedup_cap", <<"dedup", "dedup">>),
                             "unknown", <<"truncated", "pending_attempts">>)
             known == IF unpacked THEN recent ELSE AddRecent(recent, packet)
         IN  /\ day' = [counted EXCEPT !.coverage =
                           MarkIf(~cell.exact, @, "counter_overflow", <<"overflow", "counters">>)]
             /\ lifetime' = [aggregate |-> total.v,
                             firstAt |-> IF lifetime.firstAt = NoTick THEN at
                                         ELSE Min({lifetime.firstAt, at}),
                             lastAt |-> LatestTick(lifetime.lastAt, at),
                             coverage |-> MarkIf(inexact, Lossy(DropRows(lifetime.coverage, dropped)),
                                                 "counter_overflow", <<"overflow", "counters">>)]
             /\ recent' = [known EXCEPT !.coverage = Lossy(@)]
             /\ finished' = Append(finished, [life |-> life, at |-> at])
             /\ overflowed' = (overflowed \/ inexact)

RowsNext == ApplyTerminal

-----------------------------------------------------------------------------
Loadable == IsDay(day) /\ IsLifetime(lifetime) /\ IsRecent(recent)

\* What the store would write it can read again: no legal sequence of requests, whatever
\* is capped on the way, builds a snapshot the schema refuses (flush, parsedDay).
SnapshotsAreLoadable == finished # <<>> /\ ~overflowed => Loadable

\* "Partial" means the store held data this projection could not surface, an overflowed
\* counter for one (docs/reference.md:2284): a sum too large costs a figure, not the ledger.
OverflowIsPartial == finished # <<>> => Loadable

Rows(cell, kind) == {i \in DOMAIN cell.rows : cell.rows[i].key.kind = kind}
SumOver(cell, kind, Figure(_)) ==
    FoldSet(LAMBDA i, n : n + Figure(cell.rows[i].aggregate), 0, Rows(cell, kind))

\* A minute's rows account for all of its aggregate, and the minutes for all of the
\* lifetime: requests and outcomes, attempts, token counts, spend (applyTerminal,
\* addLifetime).
RowsAddUp ==
    LET Agree(cell, kind, Figure(_)) == SumOver(cell, kind, Figure) = Figure(cell.aggregate)
        ByMinute(Figure(_)) ==
            FoldSet(LAMBDA m, n : n + Figure(day.cells[m].aggregate), 0, Minutes)
                = Figure(lifetime.aggregate)
        Requests(a) == a.requests
        Served(a) == a.success
        Unpriced(a) == a.unpriced
        Attempted(a) == a.attempts
        AttemptTokens(a) == a.tokens.in.known
        RequestTokens(a) == a.requestTokens.estimated.known
        Spent(a) == a.spend[<<"provider", "reported">>].known
    IN  finished # <<>> /\ ~overflowed =>
            /\ \A m \in Minutes : day.cells[m].coverage.droppedRows = 0 =>
                   /\ Agree(day.cells[m], "request", Requests)
                   /\ Agree(day.cells[m], "request", Served)
                   /\ Agree(day.cells[m], "request", Unpriced)
                   /\ Agree(day.cells[m], "request", RequestTokens)
                   /\ Agree(day.cells[m], "attempt", Attempted)
                   /\ Agree(day.cells[m], "attempt", AttemptTokens)
                   /\ Agree(day.cells[m], "attempt", Spent)
            /\ ByMinute(Requests) /\ ByMinute(Served) /\ ByMinute(Attempted)
            /\ ByMinute(AttemptTokens) /\ ByMinute(Spent)

\* The recent requests are the newest ones, whoever else was refused a packet: every
\* request whose attempts were remembered has one, its winner among them (packetFor,
\* isRequestPacket, addRecent).
RecentIsTheNewest ==
    LET Told(i) == /\ ~finished[i].life.evicted
                   /\ {finished[i].life.winner, finished[i].life.commit}
                          \subseteq 0..PendingAttempts
        Newer(i, j) == finished[i].at > finished[j].at \/ (finished[i].at = finished[j].at /\ i > j)
        told == {i \in DOMAIN finished : Told(i)}
    IN  {p.id : p \in ToSet(recent.rows)}
            = {i \in told : Cardinality({j \in told : Newer(j, i)}) < RecentLimit}

\* The ledger can be loaded again, its rows add up, and its recent requests are the newest.
LedgerIsSound == SnapshotsAreLoadable /\ RowsAddUp /\ RecentIsTheNewest
=============================================================================
