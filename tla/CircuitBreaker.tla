--------------------------- MODULE CircuitBreaker ---------------------------
(***************************************************************************)
(* The per-cell health state of src/circuit-breaker.ts and the attempt     *)
(* handles of src/kernel/request-lifecycle.ts.  A cell is one credential   *)
(* used for one model.  A request opens an attempt on a cell, may attach   *)
(* the upstream's headers to it, and closes it with one outcome, which is  *)
(* charged to the cell.  Many attempts are open at once, and the ping      *)
(* loop, the candidate walk and the operator change the cells in between.  *)
(*                                                                         *)
(* Time is a small clock; the durations of the code are parameters whose   *)
(* order the assumptions state.  Kept out: lastFailureTime (shown to the   *)
(* operator, never read back) and what a ping sample holds; a cell counts  *)
(* its samples.  The quota observations of a cell are the reset time of    *)
(* one exhausted bucket, and a start carries no token estimate.  A cell    *)
(* the map does not hold is a Fresh one.                                   *)
(***************************************************************************)
EXTENDS Integers, Sequences, FiniteSets

CONSTANTS Targets,         \* the cells a request can be sent to
          CredentialOf,    \* the credential each cell uses
          ModelOf,         \* the model each cell serves
          ProviderOf,      \* the provider of each cell
          Loopback,        \* the cells served by a daemon on this machine
          Statuses,        \* the upstream statuses a failed attempt can carry
          RetryAfters,     \* the Retry-After figures an upstream may state
          QuotaWindows,    \* how far ahead an exhausted quota may reset
          MaxAttempts,     \* bound: attempts begun
          MaxTime,         \* bound: the clock
          MaxResets        \* bound: calls of reset

CONSTANTS DefaultCooldown,   \* DEFAULT_COOLDOWN_MS, also CANCELLATION_EVIDENCE_MS
          RateLimitRungs,    \* RATE_LIMIT_ESCALATION_MS
          FailureRungs,      \* FAILURE_ESCALATION_MS
          LoopbackCooldown,  \* LOOPBACK_RATE_LIMIT_COOLDOWN_MS
          SpentCooldown,     \* QUOTA_EXHAUSTED_COOLDOWN_MS
          FaultTTL,          \* CREDENTIAL_FAULT_TTL_MS
          MinRetryAfter,     \* MIN_RETRY_AFTER_MS
          MaxRetryAfter,     \* MAX_RETRY_AFTER_MS
          MaxSamples,        \* MAX_PING_HISTORY
          StartWindow,       \* ATTEMPT_START_WINDOW_MS
          MaxStarts          \* MAX_ATTEMPT_STARTS

Trip == 2                        \* MAX_FAILURES_BEFORE_TRIP
NoStatus == 0                    \* undefined: no answer carried a status
NoFigure == 0                    \* no Retry-After was stated
NoQuota == 0                     \* no quota observation

Times == 0 .. MaxTime
AttemptIds == 1 .. MaxAttempts
Credentials == {CredentialOf[c] : c \in Targets}
FailureCap == Trip + Len(FailureRungs)
UnexplainedCap == Len(RateLimitRungs)

ASSUME BoundAssumption == /\ MaxAttempts \in Nat
                          /\ MaxTime \in Nat
                          /\ MaxResets \in Nat
ASSUME TargetAssumption ==
    /\ DOMAIN CredentialOf = Targets
    /\ DOMAIN ModelOf = Targets
    /\ DOMAIN ProviderOf = Targets
    /\ Loopback \subseteq Targets
ASSUME InputAssumption ==
    /\ Statuses \subseteq Nat
    /\ RetryAfters \subseteq Nat
    /\ QuotaWindows \subseteq Nat
ASSUME DurationAssumption ==
    /\ DefaultCooldown \in Nat
    /\ LoopbackCooldown \in Nat
    /\ SpentCooldown \in Nat
    /\ FaultTTL \in Nat
    /\ MinRetryAfter \in Nat
    /\ MaxRetryAfter \in Nat
    /\ MaxSamples \in Nat
    /\ StartWindow \in Nat
    /\ MaxStarts \in Nat \ {0}
    /\ MinRetryAfter <= MaxRetryAfter
    /\ DefaultCooldown < MaxRetryAfter
ASSUME RungAssumption ==
    /\ RateLimitRungs \in Seq(Nat)
    /\ FailureRungs \in Seq(Nat)
    /\ Len(RateLimitRungs) > 0
    /\ Len(FailureRungs) > 0

Sources == {"none", "default", "escalation", "retry-after", "loopback",
            "quota", "elapsed", "failure-escalation"}

\* CircuitState. earnedBy is a history field: the status of the outcome that
\* set the present cooldown, which the code does not keep.
CellStates ==
    [failures : 0 .. FailureCap, cooldownUntil : Nat, source : Sources,
     unexplained : 0 .. UnexplainedCap, lastStatus : Nat, samples : 0 .. MaxSamples,
     quota : Nat, faults : 0 .. FailureCap, faultStatus : Nat, faultUntil : Nat,
     earnedBy : Nat]

\* A cell as getOrCreate makes it.
Fresh == [failures |-> 0, cooldownUntil |-> 0, source |-> "none",
          unexplained |-> 0, lastStatus |-> NoStatus, samples |-> 0,
          quota |-> NoQuota, faults |-> 0, faultStatus |-> NoStatus,
          faultUntil |-> 0, earnedBy |-> NoStatus]

Unused == [phase |-> "unused", target |-> CHOOSE c \in Targets : TRUE,
           generation |-> 0, startedAt |-> 0, headers |-> <<>>]

VARIABLES now,         \* the clock
          cells,       \* states: the health of every cell
          attempts,    \* the handles issued, with what the breaker knows of them
          issued,      \* how many attempts were begun
          inFlight,    \* credentialInFlight
          starts,      \* attemptStarts: when the attempts of a cell began
          generation,  \* #generation: the breaker's own, moved by reset
          notice       \* did the last step call notifyStateChanged

vars == <<now, cells, attempts, issued, inFlight, starts, generation, notice>>

LargestOf(a, b) == IF a >= b THEN a ELSE b
SmallestOf(a, b) == IF a <= b THEN a ELSE b

Init == /\ now = 0
        /\ cells = [c \in Targets |-> Fresh]
        /\ attempts = [i \in AttemptIds |-> Unused]
        /\ issued = 0
        /\ inFlight = [k \in Credentials |-> 0]
        /\ starts = [c \in Targets |-> <<>>]
        /\ generation = 1
        /\ notice = "silent"

-----------------------------------------------------------------------------
(***************************************************************************)
(* How an outcome changes a cell.                                          *)
(***************************************************************************)

\* The figure a Retry-After is worth: clamped, or none (asked).
Asked(retryAfter) ==
    IF retryAfter = NoFigure THEN NoFigure
    ELSE SmallestOf(MaxRetryAfter, LargestOf(MinRetryAfter, retryAfter))

\* Faulty: every generic failure earns the default, however long it took.
FlatCooldown(elapsed) == [ms |-> DefaultCooldown, source |-> "default"]

\* failureCooldown: a slow failure cools for what it wasted.
FailureCooldown(elapsed) ==
    LET wasted == SmallestOf(MaxRetryAfter, elapsed)
    IN IF wasted > DefaultCooldown
       THEN [ms |-> wasted, source |-> "elapsed"]
       ELSE [ms |-> DefaultCooldown, source |-> "default"]

\* failureEscalationMs: no floor before the third failure in a row.
FailureEscalation(failures) ==
    IF failures <= Trip THEN 0
    ELSE FailureRungs[SmallestOf(failures - Trip, Len(FailureRungs))]

RateLimitRung(unexplained) ==
    RateLimitRungs[SmallestOf(unexplained, Len(RateLimitRungs))]

\* The rung of the ladder a failure lands on: how long the cell cools, and on
\* whose word. A failure below the trip threshold that states nothing cools
\* nothing and leaves the cooldown the cell already has.
Ladder(c, failures, unexplained, status, elapsed, asked) ==
    LET generic == FailureCooldown(elapsed)
        floor == FailureEscalation(failures)
    IN CASE asked # NoFigure -> [ms |-> asked, source |-> "retry-after"]
         [] asked = NoFigure /\ status = 429 /\ c \in Loopback ->
              [ms |-> LoopbackCooldown, source |-> "loopback"]
         [] asked = NoFigure /\ status = 429 /\ c \notin Loopback ->
              [ms |-> RateLimitRung(unexplained),
               source |-> IF unexplained = 1 THEN "default" ELSE "escalation"]
         [] asked = NoFigure /\ status = 402 ->
              [ms |-> LargestOf(SpentCooldown, floor),
               source |-> IF floor > SpentCooldown THEN "failure-escalation"
                          ELSE "default"]
         [] asked = NoFigure /\ status \notin {402, 429} /\ failures >= Trip ->
              IF floor > generic.ms
              THEN [ms |-> floor, source |-> "failure-escalation"]
              ELSE generic
         [] OTHER -> [ms |-> 0, source |-> "none"]

\* applyHealthOutcome, a success: everything the cell was charged is forgiven.
Recovered(s) == [s EXCEPT !.lastStatus = 200,
                          !.samples = SmallestOf(@ + 1, MaxSamples),
                          !.failures = 0,
                          !.cooldownUntil = 0, !.source = "none",
                          !.unexplained = 0,
                          !.faults = 0, !.faultStatus = NoStatus,
                          !.faultUntil = 0]

\* applyHealthOutcome, a failure.
Charged(c, s, status, elapsed, retryAfter) ==
    LET failures == SmallestOf(s.failures + 1, FailureCap)
        asked == Asked(retryAfter)
        unexplained == IF status = 429 /\ asked = NoFigure /\ c \notin Loopback
                       THEN SmallestOf(s.unexplained + 1, UnexplainedCap)
                       ELSE s.unexplained
        rung == Ladder(c, failures, unexplained, status, elapsed, asked)
        cools == rung.source # "none"
    IN [s EXCEPT !.failures = failures,
                 !.unexplained = unexplained,
                 !.lastStatus = status,
                 !.samples = SmallestOf(@ + 1, MaxSamples),
                 !.cooldownUntil = IF cools THEN now + rung.ms ELSE @,
                 !.source = IF cools THEN rung.source ELSE @,
                 !.earnedBy = IF cools THEN status ELSE @]

\* applyCredentialFault: a 401 or 403.
Faulted(s, status) == [s EXCEPT !.faults = SmallestOf(@ + 1, FailureCap),
                                !.faultStatus = status,
                                !.faultUntil = now + FaultTTL]

\* recordQuotaObservations
WithQuota(s, quota) == IF quota = NoQuota THEN s ELSE [s EXCEPT !.quota = quota]

\* Statuses of a failed attempt that say nothing about the cell: the request
\* itself was refused.
CallersFault(status) == /\ status >= 400
                        /\ status < 500
                        /\ status \notin {400, 402, 404, 429}

\* What an outcome does to a cell, and whether the listeners hear of it
\* (applyTerminalOutcome, applyCancelledOutcome).
AfterOutcome(c, outcome, headers, elapsed) ==
    LET stated == IF headers = <<>> THEN NoFigure ELSE headers[1].retryAfter
        quota == IF headers = <<>> THEN NoQuota ELSE headers[1].quota
        retryAfter == IF outcome.retryAfter # NoFigure THEN outcome.retryAfter
                      ELSE stated
        observed == WithQuota(cells[c], quota)
    IN CASE outcome.terminal = "cancelled" ->
              IF /\ outcome.cause = "client-gone-before-response"
                 /\ elapsed > DefaultCooldown
              THEN [cell |-> Charged(c, cells[c], NoStatus, elapsed, NoFigure),
                    notice |-> "changed"]
              ELSE [cell |-> cells[c], notice |-> "silent"]
         [] outcome.terminal # "cancelled" /\ outcome.cause = "relay-mapper-defect" ->
              [cell |-> observed, notice |-> "silent"]
         [] outcome.terminal = "succeeded" /\ outcome.cause = "upstream" ->
              [cell |-> Recovered(observed), notice |-> "changed"]
         [] /\ outcome.terminal = "failed"
            /\ outcome.cause = "upstream"
            /\ outcome.status \in {401, 403} ->
              [cell |-> Faulted(observed, outcome.status), notice |-> "changed"]
         [] /\ outcome.terminal = "failed"
            /\ outcome.cause = "upstream"
            /\ outcome.status \notin {401, 403}
            /\ CallersFault(outcome.status) ->
              [cell |-> observed, notice |-> "silent"]
         [] OTHER ->
              [cell |-> Charged(c, observed, outcome.status, elapsed, retryAfter),
               notice |-> "changed"]

\* The outcomes a request can end with. A deadline and a malformed answer have
\* the statuses the relay gives them; a transport failure has none.
Outcomes ==
    {[terminal |-> "succeeded", cause |-> "upstream", status |-> 200,
      retryAfter |-> NoFigure]}
    \cup [terminal : {"failed"}, cause : {"upstream"},
          status : Statuses \cup {NoStatus}, retryAfter : RetryAfters \cup {NoFigure}]
    \cup [terminal : {"failed"}, cause : {"relay-mapper-defect"}, status : {502},
          retryAfter : {NoFigure}]
    \cup [terminal : {"failed"}, cause : {"deadline"}, status : {504},
          retryAfter : {NoFigure}]
    \cup [terminal : {"cancelled"},
          cause : {"client-gone-before-response", "client-gone-mid-response",
                   "relay-abandoned"},
          status : {NoStatus}, retryAfter : {NoFigure}]

-----------------------------------------------------------------------------
(***************************************************************************)
(* The log of attempt starts that pacing reads.                            *)
(***************************************************************************)

\* Faulty: the cap keeps one start too many out of the log.
RecordStartDroppingOne(log, at) ==
    LET appended == Append(log, at)
        overflow == Len(appended) - MaxStarts + 1
    IN SubSeq(appended, LargestOf(0, overflow) + 1, Len(appended))

\* recordAttemptStart: the starts older than the widest window go, then the
\* oldest above the cap.
RecordAttemptStart(log, at) ==
    LET appended == Append(log, at)
        inWindow == {i \in 1 .. Len(appended) : appended[i] >= at - StartWindow}
        first == CHOOSE i \in inWindow : \A j \in inWindow : i <= j
    IN SubSeq(appended, LargestOf(first, Len(appended) - MaxStarts + 1), Len(appended))

\* attemptsInWindow: the starts counted, newest first, up to the first one
\* that is too old.
CountedStarts(log, window, at) ==
    {i \in 1 .. Len(log) : /\ \A j \in i .. Len(log) : log[j] > at - window
                           /\ log[i] <= at}

Requests(log, window, at) == Cardinality(CountedStarts(log, window, at))

Saturated(log, window, at) == /\ Len(log) >= MaxStarts
                              /\ Requests(log, window, at) = Len(log)

-----------------------------------------------------------------------------
(***************************************************************************)
(* Attempts.                                                               *)
(***************************************************************************)

\* beginAttempt: a handle, one more lease on the credential, one start.
BeginAttempt(c) ==
    /\ issued < MaxAttempts
    /\ issued' = issued + 1
    /\ attempts' = [attempts EXCEPT ![issued + 1] =
                      [phase |-> "open", target |-> c, generation |-> generation,
                       startedAt |-> now, headers |-> <<>>]]
    /\ inFlight' = [inFlight EXCEPT ![CredentialOf[c]] = @ + 1]
    /\ starts' = [starts EXCEPT ![c] = RecordAttemptStart(@, now)]
    /\ notice' = "silent"
    /\ UNCHANGED <<now, cells, generation>>

\* getAttemptRecord and the checks after it: the handle is this generation's,
\* still open, and names the cell it was opened on.
Accepts(i, c) == /\ attempts[i].phase = "open"
                 /\ attempts[i].generation = generation
                 /\ attempts[i].target = c

\* observeHeaders: the first observation of an open attempt is kept.
ObserveHeaders(i, c, retryAfter, quota) ==
    /\ attempts[i].phase # "unused"
    /\ IF Accepts(i, c) /\ attempts[i].headers = <<>>
       THEN attempts' = [attempts EXCEPT ![i].headers =
                           <<[retryAfter |-> retryAfter, quota |-> quota]>>]
       ELSE UNCHANGED attempts
    /\ notice' = "silent"
    /\ UNCHANGED <<now, cells, issued, inFlight, starts, generation>>

\* completeAttempt: an accepted outcome returns the lease and is charged once;
\* a late, repeated or misdirected one changes nothing. The headers of a
\* completed attempt are never read again.
CompleteAttempt(i, c, outcome) ==
    /\ attempts[i].phase # "unused"
    /\ LET after == AfterOutcome(c, outcome, attempts[i].headers,
                                 now - attempts[i].startedAt)
       IN IF Accepts(i, c)
          THEN /\ attempts' = [attempts EXCEPT ![i].phase = "completed",
                                              ![i].headers = <<>>]
               /\ inFlight' = [inFlight EXCEPT
                                 ![CredentialOf[c]] = LargestOf(0, @ - 1)]
               /\ cells' = [cells EXCEPT ![c] = after.cell]
               /\ notice' = after.notice
          ELSE /\ notice' = "silent"
               /\ UNCHANGED <<attempts, inFlight, cells>>
    /\ UNCHANGED <<now, issued, starts, generation>>

-----------------------------------------------------------------------------
(***************************************************************************)
(* What else changes a cell.                                               *)
(***************************************************************************)

Cooling(c) == cells[c].cooldownUntil > now
CredentialFault(c) == cells[c].faultUntil > now

\* PROBE_SUCCESS_ENDS_COOLDOWN
ProbeEnds(source) == source \in {"default", "escalation", "retry-after", "loopback",
                                 "failure-escalation"}

\* Faulty: any failure escalation falls to a probe.
ProbeDisprovesAny(source, status) == source = "failure-escalation" \/ status = 429

\* probeDisprovesCooldown: only a rate limit, or an escalation of a spent
\* credit or a server error, is disproved by one small answer.
ProbeDisproves(source, status) ==
    IF source = "failure-escalation" THEN status = 402 \/ status \in 500 .. 599
    ELSE status = 429

\* endRateLimitCooldown: a probe of the ping loop was answered.
EndRateLimitCooldown(c) ==
    /\ Cooling(c)
    /\ ProbeEnds(cells[c].source)
    /\ ProbeDisproves(cells[c].source, cells[c].lastStatus)
    /\ cells' = [cells EXCEPT ![c].cooldownUntil = 0, ![c].source = "none"]
    /\ notice' = "changed"
    /\ UNCHANGED <<now, attempts, issued, inFlight, starts, generation>>

\* recordQuotaCooldown, called by the candidate walk for a healthy cell whose
\* quota observation says it is spent until a time ahead.
RecordQuotaCooldown(c) ==
    /\ ~Cooling(c)
    /\ cells[c].quota > now
    /\ cells[c].cooldownUntil < cells[c].quota
    /\ cells' = [cells EXCEPT ![c].cooldownUntil = cells[c].quota,
                              ![c].source = "quota"]
    /\ notice' = "changed"
    /\ UNCHANGED <<now, attempts, issued, inFlight, starts, generation>>

WithoutFault(s) == [s EXCEPT !.faults = 0, !.faultStatus = NoStatus, !.faultUntil = 0]
WithoutCooldown(s) == [s EXCEPT !.cooldownUntil = 0, !.source = "none",
                                !.unexplained = 0]

ChangeCells(after) ==
    /\ cells' = after
    /\ notice' = IF after = cells THEN "silent" ELSE "changed"
    /\ UNCHANGED <<now, attempts, issued, inFlight, starts, generation>>

\* clearCredentialFaults: a credential that worked is not at fault in any cell.
ClearCredentialFaults(k) ==
    ChangeCells([c \in Targets |-> IF CredentialOf[c] = k THEN WithoutFault(cells[c])
                                   ELSE cells[c]])

\* What an operator's clear may name: a provider, and optionally a model or a
\* credential (matchesClearSelector).
Any == "any"
Selectors == [provider : {ProviderOf[c] : c \in Targets},
              model : {ModelOf[c] : c \in Targets} \cup {Any},
              credential : Credentials \cup {Any}]
Matches(c, selector) == /\ ProviderOf[c] = selector.provider
                        /\ selector.model \in {Any, ModelOf[c]}
                        /\ selector.credential \in {Any, CredentialOf[c]}

\* clearCredentialFaultState, an operator's clear narrowed to credential faults.
ClearCredentialFaultState(selector) ==
    ChangeCells([c \in Targets |-> IF Matches(c, selector) THEN WithoutFault(cells[c])
                                   ELSE cells[c]])

\* clearCooldownState, an operator's clear.
ClearCooldownState(selector) ==
    ChangeCells([c \in Targets |-> IF Matches(c, selector)
                                   THEN WithoutCooldown(WithoutFault(cells[c]))
                                   ELSE cells[c]])

\* reset: the handles of the generation that ends are stale from now on.
Reset ==
    /\ generation <= MaxResets
    /\ generation' = generation + 1
    /\ cells' = [c \in Targets |-> Fresh]
    /\ inFlight' = [k \in Credentials |-> 0]
    /\ starts' = [c \in Targets |-> <<>>]
    /\ notice' = "silent"
    /\ UNCHANGED <<now, attempts, issued>>

Tick == /\ now < MaxTime
        /\ now' = now + 1
        /\ notice' = "silent"
        /\ UNCHANGED <<cells, attempts, issued, inFlight, starts, generation>>

-----------------------------------------------------------------------------
\* A header may state a Retry-After, a quota that resets ahead, both or neither.
QuotaStatements == {NoQuota} \cup {now + w : w \in QuotaWindows}

AttemptStep ==
    \/ \E c \in Targets : BeginAttempt(c)
    \/ \E i \in AttemptIds, c \in Targets, ra \in RetryAfters \cup {NoFigure},
          q \in QuotaStatements : ObserveHeaders(i, c, ra, q)
    \/ \E i \in AttemptIds, c \in Targets, o \in Outcomes : CompleteAttempt(i, c, o)

CellStep ==
    \/ \E c \in Targets : EndRateLimitCooldown(c)
    \/ \E c \in Targets : RecordQuotaCooldown(c)
    \/ \E k \in Credentials : ClearCredentialFaults(k)
    \/ \E s \in Selectors : ClearCredentialFaultState(s)
    \/ \E s \in Selectors : ClearCooldownState(s)

Next == AttemptStep \/ CellStep \/ Reset \/ Tick

Spec == Init /\ [][Next]_vars

-----------------------------------------------------------------------------
TypeOK ==
    /\ now \in Times
    /\ cells \in [Targets -> CellStates]
    /\ DOMAIN attempts = AttemptIds
    /\ \A i \in AttemptIds :
          /\ attempts[i].phase \in {"unused", "open", "completed"}
          /\ attempts[i].generation \in 0 .. generation
          /\ attempts[i].startedAt \in 0 .. now
          /\ attempts[i].phase # "unused" => attempts[i].target \in Targets
          /\ (attempts[i].phase = "unused") <=> (i > issued)
    /\ issued \in 0 .. MaxAttempts
    /\ inFlight \in [Credentials -> Nat]
    /\ generation \in 1 .. MaxResets + 1
    /\ notice \in {"silent", "changed"}
    /\ \A c \in Targets : Len(starts[c]) <= MaxStarts

OpenAttempts(k) == {i \in AttemptIds : /\ attempts[i].phase = "open"
                                       /\ attempts[i].generation = generation
                                       /\ CredentialOf[attempts[i].target] = k}

\* The number of leases a credential is said to have is the number of attempts
\* this generation has open on it, whatever was completed late, twice, for the
\* wrong cell or across a reset: a lease that leaks would make the credential
\* look busy for ever (inFlightCredential orders the credentials of a pool).
LeasesAreOpenAttempts ==
    \A k \in Credentials : inFlight[k] = Cardinality(OpenAttempts(k))

\* endRateLimitCooldown knows only the last status of the cell. Whenever it
\* would end a cooldown, that cooldown was set by an outcome with a status a
\* probe can disprove, and never by a hang, an abandoned request, a spent
\* credit or a stated quota.
ProbesEndOnlyWhatTheyDisprove ==
    \A c \in Targets :
        LET s == cells[c]
        IN (Cooling(c) /\ ProbeEnds(s.source) /\ ProbeDisproves(s.source, s.lastStatus))
             => /\ s.source # "failure-escalation" => s.earnedBy = 429
                /\ s.source = "failure-escalation" =>
                     s.earnedBy = 402 \/ s.earnedBy \in 500 .. 599

\* Every start of this generation that a window of the log must hold.
BegunIn(c, window) == {i \in AttemptIds : /\ attempts[i].phase # "unused"
                                          /\ attempts[i].generation = generation
                                          /\ attempts[i].target = c
                                          /\ attempts[i].startedAt > now - window}

\* Pacing holds a count of attempts against a stated limit. The count is the
\* number of attempts begun in the trailing window, exactly, unless the log is
\* saturated, and then it is a floor: it never counts an attempt that was not
\* begun, and never misses one it was in a position to know.
WindowCountIsHonest ==
    \A c \in Targets, window \in 1 .. StartWindow :
        LET begun == Cardinality(BegunIn(c, window))
        IN IF Saturated(starts[c], window, now)
           THEN Requests(starts[c], window, now) <= begun
           ELSE Requests(starts[c], window, now) = begun

\* What the breaker counts is what was begun: the leases it says are out, and the starts
\* pacing holds against a limit.
CountsAreHonest == LeasesAreOpenAttempts /\ WindowCountIsHonest

\* A generic failure that trips a cell (the second or later in a row, with no
\* figure stated) cools it for at least the time the failure wasted, up to the
\* ceiling, so that a hanging deployment is not walked into again as soon as it
\* has been charged for hanging.
HangsAreOutlasted ==
    [][\A i \in AttemptIds :
        LET c == attempts[i].target
            wasted == SmallestOf(MaxRetryAfter, now - attempts[i].startedAt)
        IN (/\ attempts[i].phase = "open"
            /\ attempts'[i].phase = "completed"
            /\ cells'[c].failures > cells[c].failures
            /\ cells'[c].failures >= Trip
            /\ cells'[c].source # "retry-after"
            /\ cells'[c].lastStatus \notin {402, 429})
           => cells'[c].cooldownUntil >= now + wasted]_vars
=============================================================================
