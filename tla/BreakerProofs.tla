---------------------------- MODULE BreakerProofs ----------------------------
(***************************************************************************)
(* Proofs about the circuit breaker, alone and with its file, for any      *)
(* fleet, any cooldown durations and any number of attempts.               *)
(***************************************************************************)
EXTENDS BreakerPersistence, FiniteSetTheorems, SequenceTheorems, WellFoundedInduction, TLAPS

Headers == [retryAfter : Nat, quota : Nat]

AttemptStates ==
    [phase : {"unused", "open", "completed"}, target : Targets \cup {Unused.target},
     generation : Nat, startedAt : Nat, headers : {<<>>} \cup {<<h>> : h \in Headers}]

\* TypeOK with the shape of the handles and of the log.
TypeInv == /\ TypeOK
           /\ attempts \in [AttemptIds -> AttemptStates]
           /\ starts \in [Targets -> Seq(Nat)]

-----------------------------------------------------------------------------
(***************************************************************************)
(* What the outcomes do to a cell is a cell.                               *)
(***************************************************************************)
\* The ceilings of the two ladders.
LEMMA CapsAreNaturals == /\ FailureCap \in Nat /\ FailureCap > Trip
                         /\ UnexplainedCap \in Nat /\ UnexplainedCap > 0
    BY RungAssumption, LenProperties DEF FailureCap, UnexplainedCap, Trip

\* A stated Retry-After is worth a natural number.
LEMMA AskedIsNatural == ASSUME NEW r \in Nat PROVE Asked(r) \in Nat
    BY DurationAssumption DEF Asked, SmallestOf, LargestOf, NoFigure

\* failureCooldown names one of two sources.
LEMMA FailureCooldownType ==
    ASSUME NEW elapsed \in Nat
    PROVE  FailureCooldown(elapsed) \in [ms : Nat, source : {"elapsed", "default"}]
    BY DurationAssumption DEF FailureCooldown, SmallestOf

\* The rungs of the two ladders.
LEMMA RungsAreNaturals ==
    ASSUME NEW f \in 0 .. FailureCap, NEW u \in 1 .. UnexplainedCap
    PROVE  FailureEscalation(f) \in Nat /\ RateLimitRung(u) \in Nat
  <1>1. FailureEscalation(f) \in Nat
    <2>1. CASE f <= Trip
          BY <2>1 DEF FailureEscalation
    <2>2. CASE f > Trip
      <3>1. SmallestOf(f - Trip, Len(FailureRungs)) \in 1 .. Len(FailureRungs)
            BY <2>2, RungAssumption, LenProperties DEF SmallestOf, FailureCap, Trip
      <3> QED BY <2>2, <3>1, RungAssumption, ElementOfSeq DEF FailureEscalation, Trip
    <2> QED BY <2>1, <2>2, CapsAreNaturals DEF Trip
  <1>2. RateLimitRung(u) \in Nat
    <2>1. SmallestOf(u, Len(RateLimitRungs)) \in 1 .. Len(RateLimitRungs)
          BY RungAssumption, LenProperties DEF SmallestOf, UnexplainedCap
    <2> QED BY <2>1, RungAssumption, ElementOfSeq DEF RateLimitRung
  <1> QED BY <1>1, <1>2

\* The rung a failure lands on.
LEMMA LadderType ==
    ASSUME NEW c, NEW f \in 0 .. FailureCap, NEW u \in 0 .. UnexplainedCap,
           NEW status \in Nat, NEW elapsed \in Nat, NEW asked \in Nat,
           status = 429 /\ asked = NoFigure /\ c \notin Loopback => u > 0
    PROVE  Ladder(c, f, u, status, elapsed, asked) \in [ms : Nat, source : Sources]
  <1> DEFINE generic == FailureCooldown(elapsed)
             floor == FailureEscalation(f)
             L == Ladder(c, f, u, status, elapsed, asked)
             R == [ms : Nat, source : Sources]
  <1>1. generic \in [ms : Nat, source : {"elapsed", "default"}]
        BY FailureCooldownType
  <1>2. floor \in Nat
        BY RungsAreNaturals, CapsAreNaturals
  <1>3. generic \in R
        BY <1>1 DEF Sources
  <1>4. CASE asked # NoFigure
        BY <1>4 DEF Ladder, Sources
  <1>5. CASE asked = NoFigure /\ status = 429 /\ c \in Loopback
        BY <1>5, DurationAssumption DEF Ladder, Sources
  <1>6. CASE asked = NoFigure /\ status = 429 /\ c \notin Loopback
    <2>1. RateLimitRung(u) \in Nat
          BY <1>6, RungsAreNaturals, CapsAreNaturals
    <2> QED BY <1>6, <2>1 DEF Ladder, Sources
  <1>7. CASE asked = NoFigure /\ status = 402
    <2>1. LargestOf(SpentCooldown, floor) \in Nat
          BY <1>2, DurationAssumption DEF LargestOf
    <2> QED BY <1>7, <2>1 DEF Ladder, Sources
  <1>8. CASE asked = NoFigure /\ status \notin {402, 429} /\ f >= Trip
    <2>1. L = IF floor > generic.ms THEN [ms |-> floor, source |-> "failure-escalation"]
              ELSE generic
          BY <1>8 DEF Ladder
    <2> QED BY <2>1, <1>2, <1>3 DEF Sources
  <1>9. CASE asked = NoFigure /\ status \notin {402, 429} /\ ~(f >= Trip)
    <2>1. L = [ms |-> 0, source |-> "none"]
          BY <1>9 DEF Ladder
    <2> QED BY <2>1 DEF Sources
  <1> QED BY <1>4, <1>5, <1>6, <1>7, <1>8, <1>9

\* A cell whose fields are replaced by values of their types is a cell.
LEMMA SmallValues ==
    /\ 0 \in Nat /\ 200 \in Nat
    /\ 0 \in 0 .. FailureCap /\ 0 \in 0 .. UnexplainedCap
    /\ \A n \in 0 .. FailureCap : SmallestOf(n + 1, FailureCap) \in 0 .. FailureCap
    /\ \A n \in 0 .. MaxSamples : SmallestOf(n + 1, MaxSamples) \in 0 .. MaxSamples
    /\ "none" \in Sources
    BY CapsAreNaturals, DurationAssumption DEF SmallestOf, Trip, Sources

\* What a success, a failure, a credential fault and a quota leave is a cell.
LEMMA RecoveredType == ASSUME NEW s \in CellStates PROVE Recovered(s) \in CellStates
    BY SmallValues, ZenonT(60) DEF CellStates, Recovered, NoStatus

LEMMA ChargedType ==
    ASSUME NEW c, NEW s \in CellStates, NEW status \in Nat, NEW elapsed \in Nat,
           NEW retryAfter \in Nat, now \in Nat
    PROVE  Charged(c, s, status, elapsed, retryAfter) \in CellStates
  <1> DEFINE failures == SmallestOf(s.failures + 1, FailureCap)
             asked == Asked(retryAfter)
             unexplained == IF status = 429 /\ asked = NoFigure /\ c \notin Loopback
                            THEN SmallestOf(s.unexplained + 1, UnexplainedCap)
                            ELSE s.unexplained
             rung == Ladder(c, failures, unexplained, status, elapsed, asked)
             cools == rung.source # "none"
  <1>1. failures \in 0 .. FailureCap
        BY CapsAreNaturals DEF CellStates, SmallestOf, Trip
  <1>2. asked \in Nat
        BY AskedIsNatural
  <1>3. /\ unexplained \in 0 .. UnexplainedCap
        /\ status = 429 /\ asked = NoFigure /\ c \notin Loopback => unexplained > 0
        BY CapsAreNaturals DEF CellStates, SmallestOf
  <1>4. rung \in [ms : Nat, source : Sources]
    <2> HIDE DEF failures, asked, unexplained
    <2> QED BY <1>1, <1>2, <1>3, LadderType
  <1>5. SmallestOf(s.samples + 1, MaxSamples) \in 0 .. MaxSamples
        BY DurationAssumption DEF CellStates, SmallestOf
  <1>6. Charged(c, s, status, elapsed, retryAfter) =
          [s EXCEPT !.failures = failures,
                    !.unexplained = unexplained,
                    !.lastStatus = status,
                    !.samples = SmallestOf(@ + 1, MaxSamples),
                    !.cooldownUntil = IF cools THEN now + rung.ms ELSE @,
                    !.source = IF cools THEN rung.source ELSE @,
                    !.earnedBy = IF cools THEN status ELSE @]
        BY DEF Charged
  <1>7. /\ (IF cools THEN now + rung.ms ELSE s.cooldownUntil) \in Nat
        /\ (IF cools THEN rung.source ELSE s.source) \in Sources
        /\ (IF cools THEN status ELSE s.earnedBy) \in Nat
    <2> HIDE DEF rung
    <2> QED BY <1>4 DEF CellStates
  <1> HIDE DEF failures, asked, unexplained, rung
  <1> QED BY <1>1, <1>3, <1>5, <1>6, <1>7, Zenon DEF CellStates

LEMMA FaultedType ==
    ASSUME NEW s \in CellStates, NEW status \in Nat, now \in Nat
    PROVE  Faulted(s, status) \in CellStates
  <1>1. now + FaultTTL \in Nat
        BY DurationAssumption
  <1> QED BY <1>1, SmallValues, Zenon DEF CellStates, Faulted

LEMMA WithQuotaType ==
    ASSUME NEW s \in CellStates, NEW quota \in Nat
    PROVE  WithQuota(s, quota) \in CellStates
    BY DEF WithQuota, CellStates

LEMMA WithoutTypes ==
    ASSUME NEW s \in CellStates
    PROVE  WithoutFault(s) \in CellStates /\ WithoutCooldown(s) \in CellStates
  <1>1. WithoutFault(s) \in CellStates
        BY SmallValues, ZenonT(30) DEF WithoutFault, CellStates, NoStatus
  <1>2. WithoutCooldown(s) \in CellStates
        BY SmallValues, ZenonT(30) DEF WithoutCooldown, CellStates
  <1> QED BY <1>1, <1>2

LEMMA FreshType == Fresh \in CellStates
    BY CapsAreNaturals, DurationAssumption
    DEF Fresh, CellStates, Sources, NoStatus, NoQuota, Trip

\* The figures of an outcome are numbers.
LEMMA OutcomeType ==
    ASSUME NEW o \in Outcomes
    PROVE  o.status \in Nat /\ o.retryAfter \in Nat
  <1>1. /\ 200 \in Nat /\ 502 \in Nat /\ 504 \in Nat /\ 0 \in Nat
        /\ \A n \in Statuses \cup {0} : n \in Nat
        /\ \A n \in RetryAfters \cup {0} : n \in Nat
        BY InputAssumption
  <1>2. CASE o = [terminal |-> "succeeded", cause |-> "upstream", status |-> 200,
                  retryAfter |-> NoFigure]
        BY <1>1, <1>2 DEF NoFigure
  <1>3. CASE o \in [terminal : {"failed"}, cause : {"upstream"},
                    status : Statuses \cup {NoStatus}, retryAfter : RetryAfters \cup {NoFigure}]
        BY <1>1, <1>3 DEF NoFigure, NoStatus
  <1>4. CASE o \in [terminal : {"failed"}, cause : {"relay-mapper-defect"}, status : {502},
                    retryAfter : {NoFigure}]
        BY <1>1, <1>4 DEF NoFigure
  <1>5. CASE o \in [terminal : {"failed"}, cause : {"deadline"}, status : {504},
                    retryAfter : {NoFigure}]
        BY <1>1, <1>5 DEF NoFigure
  <1>6. CASE o \in [terminal : {"cancelled"},
                    cause : {"client-gone-before-response", "client-gone-mid-response",
                             "relay-abandoned"},
                    status : {NoStatus}, retryAfter : {NoFigure}]
        BY <1>1, <1>6 DEF NoFigure, NoStatus
  <1> QED BY <1>2, <1>3, <1>4, <1>5, <1>6, Zenon DEF Outcomes

\* What an attempt holds of the upstream's headers.
LEMMA HeadersType ==
    ASSUME NEW h \in {<<>>} \cup {<<x>> : x \in Headers}, h # <<>>
    PROVE  h[1].retryAfter \in Nat /\ h[1].quota \in Nat
    BY DEF Headers
-----------------------------------------------------------------------------
(***************************************************************************)
(* What a failure does to a cell, and what an outcome amounts to.          *)
(***************************************************************************)
\* The rung that Charged lands on.
RungOf(c, s, status, elapsed, retryAfter) ==
    LET asked == Asked(retryAfter)
    IN Ladder(c, SmallestOf(s.failures + 1, FailureCap),
              IF status = 429 /\ asked = NoFigure /\ c \notin Loopback
              THEN SmallestOf(s.unexplained + 1, UnexplainedCap) ELSE s.unexplained,
              status, elapsed, asked)

\* A rate limit always cools, and so does any failure from the trip threshold
\* on; a failure-escalation floor is reached above the threshold only.
LEMMA RungCools ==
    ASSUME NEW c, NEW s \in CellStates, NEW status \in Nat, NEW elapsed \in Nat,
           NEW retryAfter \in Nat
    PROVE  LET rung == RungOf(c, s, status, elapsed, retryAfter)
               failures == SmallestOf(s.failures + 1, FailureCap)
           IN /\ rung \in [ms : Nat, source : Sources]
              /\ failures \in 0 .. FailureCap
              /\ s.failures >= Trip => failures >= Trip
              /\ status = 429 => rung.source # "none"
              /\ failures >= Trip => rung.source # "none"
              /\ rung.source = "failure-escalation" => failures >= Trip
              /\ /\ failures >= Trip
                 /\ rung.source # "retry-after"
                 /\ status \notin {402, 429}
                 => rung.ms >= SmallestOf(MaxRetryAfter, elapsed)
  <1> DEFINE failures == SmallestOf(s.failures + 1, FailureCap)
             asked == Asked(retryAfter)
             unexplained == IF status = 429 /\ asked = NoFigure /\ c \notin Loopback
                            THEN SmallestOf(s.unexplained + 1, UnexplainedCap)
                            ELSE s.unexplained
             generic == FailureCooldown(elapsed)
             floor == FailureEscalation(failures)
             rung == Ladder(c, failures, unexplained, status, elapsed, asked)
  <1>1. /\ failures \in 0 .. FailureCap
        /\ s.failures >= Trip => failures >= Trip
        BY CapsAreNaturals DEF CellStates, SmallestOf, Trip
  <1>2. asked \in Nat
        BY AskedIsNatural
  <1>3. /\ unexplained \in 0 .. UnexplainedCap
        /\ status = 429 /\ asked = NoFigure /\ c \notin Loopback => unexplained > 0
        BY CapsAreNaturals DEF CellStates, SmallestOf
  <1>4. rung = RungOf(c, s, status, elapsed, retryAfter)
        BY DEF RungOf
  <1>5. floor \in Nat /\ (floor > 0 => failures > Trip)
    <2> HIDE DEF failures
    <2>1. floor \in Nat
          BY <1>1, RungsAreNaturals, CapsAreNaturals
    <2>2. failures <= Trip => floor = 0
          BY DEF FailureEscalation
    <2> HIDE DEF floor
    <2> QED BY <1>1, <2>1, <2>2, CapsAreNaturals DEF Trip
  <1>6. /\ generic \in [ms : Nat, source : {"elapsed", "default"}]
        /\ generic.ms >= SmallestOf(MaxRetryAfter, elapsed)
        BY FailureCooldownType, DurationAssumption DEF FailureCooldown, SmallestOf
  <1> HIDE DEF failures, asked, unexplained, generic, floor
  <1>7. rung \in [ms : Nat, source : Sources]
        BY <1>1, <1>2, <1>3, LadderType
  <1>8. SmallestOf(MaxRetryAfter, elapsed) \in Nat
        BY DurationAssumption DEF SmallestOf
  <1> DEFINE Goal == /\ status = 429 => rung.source # "none"
                     /\ failures >= Trip => rung.source # "none"
                     /\ rung.source = "failure-escalation" => failures >= Trip
                     /\ /\ failures >= Trip
                        /\ rung.source # "retry-after"
                        /\ status \notin {402, 429}
                        => rung.ms >= SmallestOf(MaxRetryAfter, elapsed)
  <1>9. CASE asked # NoFigure
    <2>1. rung = [ms |-> asked, source |-> "retry-after"]
          BY <1>9 DEF Ladder
    <2> QED BY <2>1, <1>1, <1>4, <1>7 DEF failures
  <1>10. CASE asked = NoFigure /\ status = 429 /\ c \in Loopback
    <2>1. rung = [ms |-> LoopbackCooldown, source |-> "loopback"]
          BY <1>10 DEF Ladder
    <2> QED BY <2>1, <1>1, <1>4, <1>7, <1>10 DEF failures
  <1>11. CASE asked = NoFigure /\ status = 429 /\ c \notin Loopback
    <2>1. rung = [ms |-> RateLimitRung(unexplained),
                  source |-> IF unexplained = 1 THEN "default" ELSE "escalation"]
          BY <1>11 DEF Ladder
    <2> QED BY <2>1, <1>1, <1>4, <1>7, <1>11 DEF failures
  <1>12. CASE asked = NoFigure /\ status = 402
    <2>1. rung = [ms |-> LargestOf(SpentCooldown, FailureEscalation(failures)),
                  source |-> IF FailureEscalation(failures) > SpentCooldown
                             THEN "failure-escalation" ELSE "default"]
      <3>1. status # 429 /\ ~(status \notin {402, 429})
            BY <1>12
      <3> QED BY <1>12, <3>1 DEF Ladder
    <2>2. FailureEscalation(failures) > SpentCooldown => failures >= Trip
          BY <1>1, <1>5, DurationAssumption, CapsAreNaturals DEF Trip, floor
    <2> QED BY <2>1, <2>2, <1>1, <1>4, <1>7, <1>12 DEF failures
  <1>13. CASE asked = NoFigure /\ status \notin {402, 429} /\ failures >= Trip
    <2>1. rung = IF floor > generic.ms THEN [ms |-> floor, source |-> "failure-escalation"]
                 ELSE generic
          BY <1>13 DEF Ladder, floor, generic
    <2>2. CASE floor > generic.ms
      <3>1. rung.ms = floor /\ rung.source = "failure-escalation"
            BY <2>1, <2>2
      <3>2. floor >= SmallestOf(MaxRetryAfter, elapsed)
            BY <2>2, <1>5, <1>6, <1>8
      <3> QED BY <3>1, <3>2, <1>1, <1>4, <1>7, <1>13 DEF failures
    <2>3. CASE ~(floor > generic.ms)
      <3>1. rung = generic
            BY <2>1, <2>3
      <3> QED BY <3>1, <1>6, <1>1, <1>4, <1>7, <1>13 DEF failures
    <2> QED BY <2>2, <2>3
  <1>14. CASE asked = NoFigure /\ status \notin {402, 429} /\ ~(failures >= Trip)
    <2>1. rung = [ms |-> 0, source |-> "none"]
          BY <1>14 DEF Ladder
    <2> QED BY <2>1, <1>1, <1>4, <1>7, <1>14 DEF failures
  <1> QED BY <1>9, <1>10, <1>11, <1>12, <1>13, <1>14

\* The fields of a charged cell.
LEMMA ChargedFields ==
    ASSUME NEW c, NEW s \in CellStates, NEW status \in Nat, NEW elapsed \in Nat,
           NEW retryAfter \in Nat, now \in Nat
    PROVE  LET charged == Charged(c, s, status, elapsed, retryAfter)
               rung == RungOf(c, s, status, elapsed, retryAfter)
               cools == rung.source # "none"
           IN /\ charged \in CellStates
              /\ charged.failures = SmallestOf(s.failures + 1, FailureCap)
              /\ charged.lastStatus = status
              /\ charged.cooldownUntil = IF cools THEN now + rung.ms ELSE s.cooldownUntil
              /\ charged.source = IF cools THEN rung.source ELSE s.source
              /\ charged.earnedBy = IF cools THEN status ELSE s.earnedBy
  <1>1. Charged(c, s, status, elapsed, retryAfter) \in CellStates
        BY ChargedType
  <1> DEFINE rung == RungOf(c, s, status, elapsed, retryAfter)
             cools == rung.source # "none"
  <1> DEFINE f == SmallestOf(s.failures + 1, FailureCap)
             until == IF cools THEN now + rung.ms ELSE s.cooldownUntil
             source == IF cools THEN rung.source ELSE s.source
             earnedBy == IF cools THEN status ELSE s.earnedBy
  <1>2. \E u, samples : Charged(c, s, status, elapsed, retryAfter) =
          [s EXCEPT !.failures = f, !.unexplained = u, !.lastStatus = status,
                    !.samples = samples, !.cooldownUntil = until, !.source = source,
                    !.earnedBy = earnedBy]
        BY DEF Charged, RungOf
  <1>3. /\ Charged(c, s, status, elapsed, retryAfter).failures = f
        /\ Charged(c, s, status, elapsed, retryAfter).lastStatus = status
        /\ Charged(c, s, status, elapsed, retryAfter).cooldownUntil = until
        /\ Charged(c, s, status, elapsed, retryAfter).source = source
        /\ Charged(c, s, status, elapsed, retryAfter).earnedBy = earnedBy
    <2> HIDE DEF f, until, source, earnedBy
    <2> QED BY <1>2, Zenon DEF CellStates
  <1> QED BY <1>1, <1>3

\* An outcome leaves the cell with at most a new quota reading, or forgives it,
\* or faults it, or charges it; only the last three are told to the listeners.
Outcome(c, elapsed, after) ==
    \E q \in Nat :
        LET observed == WithQuota(cells[c], q)
        IN \/ after = [cell |-> observed, notice |-> "silent"]
           \/ after = [cell |-> Recovered(observed), notice |-> "changed"]
           \/ \E status \in Nat :
                after = [cell |-> Faulted(observed, status), notice |-> "changed"]
           \/ \E status, retryAfter \in Nat :
                after = [cell |-> Charged(c, observed, status, elapsed, retryAfter),
                         notice |-> "changed"]

LEMMA AfterOutcomeCases ==
    ASSUME NEW c, NEW o \in Outcomes, NEW h \in {<<>>} \cup {<<x>> : x \in Headers},
           NEW elapsed \in Nat
    PROVE  Outcome(c, elapsed, AfterOutcome(c, o, h, elapsed))
  <1> DEFINE stated == IF h = <<>> THEN NoFigure ELSE h[1].retryAfter
             quota == IF h = <<>> THEN NoQuota ELSE h[1].quota
             retryAfter == IF o.retryAfter # NoFigure THEN o.retryAfter ELSE stated
             observed == WithQuota(cells[c], quota)
             after == AfterOutcome(c, o, h, elapsed)
  <1>1. /\ stated \in Nat /\ quota \in Nat /\ retryAfter \in Nat
        /\ o.status \in Nat /\ NoStatus \in Nat /\ NoFigure \in Nat
        /\ NoQuota \in Nat /\ WithQuota(cells[c], NoQuota) = cells[c]
        BY HeadersType, OutcomeType DEF NoFigure, NoQuota, NoStatus, WithQuota
  <1>2. CASE /\ o.terminal = "cancelled"
             /\ o.cause = "client-gone-before-response"
             /\ elapsed > DefaultCooldown
    <2>1. after = [cell |-> Charged(c, cells[c], NoStatus, elapsed, NoFigure),
                   notice |-> "changed"]
          BY <1>2 DEF AfterOutcome
    <2> QED BY <1>1, <2>1 DEF Outcome
  <1>3. CASE /\ o.terminal = "cancelled"
             /\ ~(o.cause = "client-gone-before-response" /\ elapsed > DefaultCooldown)
    <2>1. after = [cell |-> cells[c], notice |-> "silent"]
          BY <1>3 DEF AfterOutcome
    <2> QED BY <1>1, <2>1 DEF Outcome
  <1>4. CASE o.terminal # "cancelled" /\ o.cause = "relay-mapper-defect"
    <2>1. after = [cell |-> observed, notice |-> "silent"]
          BY <1>4 DEF AfterOutcome
    <2> HIDE DEF quota
    <2> QED BY <1>1, <2>1 DEF Outcome
  <1>5. CASE o.terminal = "succeeded" /\ o.cause = "upstream"
    <2>1. after = [cell |-> Recovered(observed), notice |-> "changed"]
          BY <1>5 DEF AfterOutcome
    <2> HIDE DEF quota
    <2> QED BY <1>1, <2>1 DEF Outcome
  <1>6. CASE o.terminal = "failed" /\ o.cause = "upstream" /\ o.status \in {401, 403}
    <2>1. after = [cell |-> Faulted(observed, o.status), notice |-> "changed"]
          BY <1>6 DEF AfterOutcome
    <2> HIDE DEF quota
    <2> QED BY <1>1, <2>1 DEF Outcome
  <1>7. CASE /\ o.terminal = "failed"
             /\ o.cause = "upstream"
             /\ o.status \notin {401, 403}
             /\ CallersFault(o.status)
    <2>1. after = [cell |-> observed, notice |-> "silent"]
          BY <1>7 DEF AfterOutcome
    <2> HIDE DEF quota
    <2> QED BY <1>1, <2>1 DEF Outcome
  <1>8. CASE /\ ~(o.terminal = "cancelled")
             /\ ~(o.terminal # "cancelled" /\ o.cause = "relay-mapper-defect")
             /\ ~(o.terminal = "succeeded" /\ o.cause = "upstream")
             /\ ~(o.terminal = "failed" /\ o.cause = "upstream" /\ o.status \in {401, 403})
             /\ ~(/\ o.terminal = "failed"
                  /\ o.cause = "upstream"
                  /\ o.status \notin {401, 403}
                  /\ CallersFault(o.status))
    <2>1. after = [cell |-> Charged(c, observed, o.status, elapsed, retryAfter),
                   notice |-> "changed"]
          BY <1>8 DEF AfterOutcome
    <2> HIDE DEF quota, retryAfter
    <2> QED BY <1>1, <2>1 DEF Outcome
  <1> QED BY <1>2, <1>3, <1>4, <1>5, <1>6, <1>7, <1>8

-----------------------------------------------------------------------------
(***************************************************************************)
(* The log of starts.                                                      *)
(***************************************************************************)
\* Every set of natural numbers has a least one.
LEMMA LeastNatural ==
    ASSUME NEW S \in SUBSET Nat, S # {}
    PROVE  \E n \in S : \A m \in S : n <= m
  <1> DEFINE Less == {ss \in Nat \X Nat : ss[1] < ss[2]}
  <1>1. IsWellFoundedOn(Less, Nat)
        BY NatLessThanWellFounded, Zenon DEF OpToRel
  <1>2. PICK n \in S : \A m \in S : ~(<<m, n>> \in Less)
        BY <1>1, WFMin
  <1>3. ASSUME NEW m \in S PROVE n <= m
    <2>1. <<m, n>> \in Nat \X Nat /\ <<m, n>>[1] = m /\ <<m, n>>[2] = n
          OBVIOUS
    <2> QED BY <1>2, <2>1
  <1> QED BY <1>3

\* Recording a start appends it and drops a prefix: every start that is dropped
\* has left the widest window, unless the log is full.
LEMMA RecordAttemptStartDropsAPrefix ==
    ASSUME NEW log \in Seq(Nat), NEW at \in Nat
    PROVE  LET recorded == RecordAttemptStart(log, at)
               appended == Append(log, at)
           IN \E kept \in 1 .. Len(log) + 1 :
                /\ recorded = SubSeq(appended, kept, Len(log) + 1)
                /\ recorded \in Seq(Nat)
                /\ Len(recorded) = Len(log) + 2 - kept
                /\ Len(recorded) <= MaxStarts
                /\ \A a \in 1 .. Len(recorded) :
                     recorded[a] = IF kept + a - 1 = Len(log) + 1 THEN at
                                   ELSE log[kept + a - 1]
                /\ \/ Len(recorded) = MaxStarts
                   \/ \A i \in 1 .. kept - 1 : log[i] < at - StartWindow
  <1> DEFINE appended == Append(log, at)
             inWindow == {i \in 1 .. Len(appended) : appended[i] >= at - StartWindow}
             first == CHOOSE i \in inWindow : \A j \in inWindow : i <= j
             kept == LargestOf(first, Len(appended) - MaxStarts + 1)
             recorded == SubSeq(appended, kept, Len(log) + 1)
  <1>1. /\ appended \in Seq(Nat)
        /\ Len(appended) = Len(log) + 1
        /\ Len(log) \in Nat
        /\ \A i \in 1 .. Len(log) : appended[i] = log[i]
        /\ appended[Len(log) + 1] = at
        BY AppendProperties, LenProperties
  <1>2. /\ \A i \in 1 .. Len(log) : log[i] \in Nat
        /\ \A i \in 1 .. Len(appended) : appended[i] \in Nat
        BY <1>1, ElementOfSeq
  <1> HIDE DEF appended
  <1>3. Len(log) + 1 \in inWindow
        BY <1>1, <1>2, DurationAssumption
  <1>4. first \in inWindow /\ \A j \in inWindow : first <= j
    <2>1. \E i \in inWindow : \A j \in inWindow : i <= j
      <3>1. inWindow \in SUBSET Nat /\ inWindow # {}
            BY <1>1, <1>3
      <3> HIDE DEF inWindow
      <3> QED BY <3>1, LeastNatural
    <2> HIDE DEF inWindow
    <2> QED BY <2>1
  <1>5. first \in 1 .. Len(log) + 1 /\ \A i \in 1 .. Len(log) : i < first => log[i] < at - StartWindow
    <2> HIDE DEF first
    <2> QED BY <1>1, <1>2, <1>4, DurationAssumption
  <1>6. /\ kept \in 1 .. Len(log) + 1
        /\ kept >= first /\ kept >= Len(log) + 2 - MaxStarts
        /\ kept = first \/ kept = Len(log) + 2 - MaxStarts
    <2> HIDE DEF first
    <2> QED BY <1>1, <1>5, DurationAssumption DEF LargestOf
  <1>7. RecordAttemptStart(log, at) = recorded
        BY <1>1 DEF RecordAttemptStart, appended
  <1> HIDE DEF kept, first, inWindow
  <1>8. /\ recorded \in Seq(Nat)
        /\ Len(recorded) = Len(log) + 2 - kept
        /\ \A a \in 1 .. Len(log) + 2 - kept : recorded[a] = appended[kept + a - 1]
    <2>1. \A i \in kept .. Len(log) + 1 : appended[i] \in Nat
          BY <1>1, <1>2, <1>6
    <2>2. kept \in Int /\ Len(log) + 1 \in Int
          BY <1>1, <1>6
    <2>3. /\ recorded \in Seq(Nat)
          /\ Len(recorded) = IF kept <= Len(log) + 1 THEN Len(log) + 1 - kept + 1 ELSE 0
          /\ \A a \in 1 .. Len(log) + 1 - kept + 1 : recorded[a] = appended[kept + a - 1]
          BY <2>1, <2>2, SubSeqProperties
    <2> HIDE DEF recorded
    <2> QED BY <2>2, <2>3, <1>1, <1>6
  <1> HIDE DEF recorded
  <1>9. Len(recorded) <= MaxStarts
        BY <1>1, <1>6, <1>8, DurationAssumption
  <1>10. ASSUME NEW a \in 1 .. Len(recorded)
         PROVE  recorded[a] = IF kept + a - 1 = Len(log) + 1 THEN at ELSE log[kept + a - 1]
    <2>1. recorded[a] = appended[kept + a - 1] /\ kept + a - 1 \in 1 .. Len(log) + 1
          BY <1>1, <1>6, <1>8
    <2>2. kept + a - 1 # Len(log) + 1 => kept + a - 1 \in 1 .. Len(log)
          BY <1>1, <2>1
    <2> QED BY <1>1, <2>1, <2>2
  <1>11. \/ Len(recorded) = MaxStarts
         \/ \A i \in 1 .. kept - 1 : log[i] < at - StartWindow
        BY <1>1, <1>5, <1>6, <1>8, DurationAssumption
  <1> QED BY <1>6, <1>7, <1>8, <1>9, <1>10, <1>11 DEF recorded, appended

-----------------------------------------------------------------------------
(***************************************************************************)
(* Type correctness.                                                       *)
(***************************************************************************)
\* An outcome leaves a cell.
LEMMA OutcomeIsACell ==
    ASSUME NEW c, cells[c] \in CellStates, now \in Nat, NEW elapsed \in Nat, NEW after,
           Outcome(c, elapsed, after)
    PROVE  after.cell \in CellStates /\ after.notice \in {"silent", "changed"}
  <1>1. PICK q \in Nat :
          LET observed == WithQuota(cells[c], q)
          IN \/ after = [cell |-> observed, notice |-> "silent"]
             \/ after = [cell |-> Recovered(observed), notice |-> "changed"]
             \/ \E status \in Nat :
                  after = [cell |-> Faulted(observed, status), notice |-> "changed"]
             \/ \E status, retryAfter \in Nat :
                  after = [cell |-> Charged(c, observed, status, elapsed, retryAfter),
                           notice |-> "changed"]
        BY DEF Outcome
  <1> DEFINE observed == WithQuota(cells[c], q)
  <1>2. observed \in CellStates
        BY WithQuotaType
  <1> HIDE DEF observed
  <1>3. CASE after = [cell |-> observed, notice |-> "silent"]
        BY <1>2, <1>3
  <1>4. CASE after = [cell |-> Recovered(observed), notice |-> "changed"]
        BY <1>2, <1>4, RecoveredType
  <1>5. CASE \E status \in Nat :
               after = [cell |-> Faulted(observed, status), notice |-> "changed"]
        BY <1>2, <1>5, FaultedType
  <1>6. CASE \E status, retryAfter \in Nat :
               after = [cell |-> Charged(c, observed, status, elapsed, retryAfter),
                        notice |-> "changed"]
        BY <1>2, <1>6, ChargedType
  <1> QED BY <1>1, <1>3, <1>4, <1>5, <1>6 DEF observed

\* What the type invariant says of one handle.
LEMMA HandleFacts ==
    ASSUME TypeInv, NEW i \in AttemptIds
    PROVE  /\ attempts[i] \in AttemptStates
           /\ now \in Nat /\ now - attempts[i].startedAt \in Nat
           /\ attempts[i].headers \in {<<>>} \cup {<<x>> : x \in Headers}
    BY BoundAssumption DEF TypeInv, TypeOK, AttemptStates, Times

LEMMA InitIsTyped == Init => TypeInv
  <1> SUFFICES ASSUME Init PROVE TypeInv
      OBVIOUS
  <1>1. Unused \in AttemptStates
        BY DEF Unused, AttemptStates
  <1>2. /\ Unused.phase = "unused" /\ Unused.generation = 0 /\ Unused.startedAt = 0
        BY DEF Unused
  <1>3. attempts \in [AttemptIds -> AttemptStates]
        BY <1>1 DEF Init
  <1>4. starts \in [Targets -> Seq(Nat)] /\ \A c \in Targets : Len(starts[c]) <= MaxStarts
        BY EmptySeq, DurationAssumption DEF Init
  <1>5. \A i \in AttemptIds :
          /\ attempts[i].phase \in {"unused", "open", "completed"}
          /\ attempts[i].generation \in 0 .. generation
          /\ attempts[i].startedAt \in 0 .. now
          /\ attempts[i].phase # "unused" => attempts[i].target \in Targets
          /\ (attempts[i].phase = "unused") <=> (i > issued)
        BY <1>2 DEF Init, AttemptIds
  <1>6. /\ now \in Times /\ cells \in [Targets -> CellStates]
        /\ DOMAIN attempts = AttemptIds /\ issued \in 0 .. MaxAttempts
        /\ inFlight \in [Credentials -> Nat] /\ generation \in 1 .. MaxResets + 1
        /\ notice \in {"silent", "changed"}
        BY FreshType, BoundAssumption DEF Init, Times
  <1> QED BY <1>3, <1>4, <1>5, <1>6 DEF TypeInv, TypeOK

LEMMA BeginAttemptIsTyped ==
    ASSUME TypeInv, NEW c \in Targets, BeginAttempt(c)
    PROVE  TypeInv'
  <1> DEFINE opened == [phase |-> "open", target |-> c, generation |-> generation,
                        startedAt |-> now, headers |-> <<>>]
  <1>1. /\ now \in Nat /\ generation \in Nat /\ issued \in Nat /\ issued + 1 \in AttemptIds
        BY BoundAssumption DEF TypeInv, TypeOK, Times, BeginAttempt, AttemptIds
  <1>2. opened \in AttemptStates
        BY <1>1 DEF AttemptStates
  <1>3. attempts' = [attempts EXCEPT ![issued + 1] = opened]
        BY DEF BeginAttempt
  <1>4. attempts' \in [AttemptIds -> AttemptStates]
    <2> HIDE DEF opened
    <2> QED BY <1>2, <1>3 DEF TypeInv
  <1>5. starts[c] \in Seq(Nat)
        BY DEF TypeInv
  <1>6. RecordAttemptStart(starts[c], now) \in Seq(Nat)
        /\ Len(RecordAttemptStart(starts[c], now)) <= MaxStarts
        BY <1>1, <1>5, RecordAttemptStartDropsAPrefix
  <1>7. /\ starts' \in [Targets -> Seq(Nat)]
        /\ \A d \in Targets : Len(starts'[d]) <= MaxStarts
        BY <1>6 DEF TypeInv, TypeOK, BeginAttempt
  <1>8. CredentialOf[c] \in Credentials
        BY DEF Credentials
  <1>9. inFlight' \in [Credentials -> Nat]
        BY <1>8 DEF TypeInv, TypeOK, BeginAttempt
  <1>10. ASSUME NEW i \in AttemptIds
         PROVE  /\ attempts'[i].phase \in {"unused", "open", "completed"}
                /\ attempts'[i].generation \in 0 .. generation
                /\ attempts'[i].startedAt \in 0 .. now
                /\ attempts'[i].phase # "unused" => attempts'[i].target \in Targets
                /\ (attempts'[i].phase = "unused") <=> (i > issued + 1)
    <2>1. CASE i = issued + 1
      <3>1. attempts'[i] = opened
            BY <1>1, <1>3, <2>1 DEF TypeInv, TypeOK
      <3> QED BY <1>1, <2>1, <3>1
    <2>2. CASE i # issued + 1
      <3>1. attempts'[i] = attempts[i] /\ i \in Nat
            BY <1>3, <2>2 DEF TypeInv, TypeOK, AttemptIds
      <3> QED BY <1>1, <2>2, <3>1 DEF TypeInv, TypeOK
    <2> QED BY <2>1, <2>2
  <1>11. /\ now' = now /\ generation' = generation /\ cells' = cells
         /\ issued' = issued + 1 /\ notice' = "silent" /\ issued < MaxAttempts
         BY DEF BeginAttempt
  <1> QED BY <1>1, <1>4, <1>7, <1>9, <1>10, <1>11, BoundAssumption DEF TypeInv, TypeOK

\* Attaching headers changes nothing else of a handle.
LEMMA ObserveHeadersSteps ==
    ASSUME TypeInv, NEW i \in AttemptIds, NEW c \in Targets, NEW ra \in Nat, NEW q \in Nat,
           ObserveHeaders(i, c, ra, q)
    PROVE  /\ attempts' \in [AttemptIds -> AttemptStates]
           /\ \A j \in AttemptIds : /\ attempts'[j].phase = attempts[j].phase
                                    /\ attempts'[j].target = attempts[j].target
                                    /\ attempts'[j].generation = attempts[j].generation
                                    /\ attempts'[j].startedAt = attempts[j].startedAt
           /\ UNCHANGED <<now, cells, issued, inFlight, starts, generation>>
           /\ notice' = "silent"
  <1> DEFINE h == <<[retryAfter |-> ra, quota |-> q]>>
             observed == [attempts[i] EXCEPT !.headers = h]
  <1>1. CASE UNCHANGED attempts
        BY <1>1 DEF TypeInv, ObserveHeaders
  <1>2. CASE attempts' = [attempts EXCEPT ![i].headers = h]
    <2>1. h \in {<<>>} \cup {<<x>> : x \in Headers}
          BY DEF Headers
    <2>2. attempts[i] \in AttemptStates
          BY HandleFacts
    <2> HIDE DEF h
    <2>3. /\ observed \in AttemptStates
          /\ observed.phase = attempts[i].phase /\ observed.target = attempts[i].target
          /\ observed.generation = attempts[i].generation
          /\ observed.startedAt = attempts[i].startedAt
          BY <2>1, <2>2 DEF AttemptStates
    <2>4. attempts' = [attempts EXCEPT ![i] = observed]
          BY <1>2
    <2> HIDE DEF observed
    <2>5. /\ attempts' \in [AttemptIds -> AttemptStates]
          /\ \A j \in AttemptIds : attempts'[j] = IF j = i THEN observed ELSE attempts[j]
          BY <2>3, <2>4 DEF TypeInv
    <2> QED BY <2>3, <2>5 DEF ObserveHeaders
  <1> QED BY <1>1, <1>2 DEF ObserveHeaders

LEMMA ObserveHeadersIsTyped ==
    ASSUME TypeInv, NEW i \in AttemptIds, NEW c \in Targets, NEW ra \in Nat, NEW q \in Nat,
           ObserveHeaders(i, c, ra, q)
    PROVE  TypeInv'
    BY ObserveHeadersSteps DEF TypeInv, TypeOK

\* The fields a step that only changes cells leaves alone.
LEMMA CellChangeIsTyped ==
    ASSUME TypeInv, cells' \in [Targets -> CellStates], notice' \in {"silent", "changed"},
           UNCHANGED <<now, attempts, issued, inFlight, starts, generation>>
    PROVE  TypeInv'
    BY DEF TypeInv, TypeOK

\* What a completed attempt leaves of its handle.
LEMMA CompletedHandle ==
    ASSUME NEW a \in AttemptStates
    PROVE  LET completed == [[a EXCEPT !.phase = "completed"] EXCEPT !.headers = <<>>]
           IN /\ completed \in AttemptStates
              /\ completed.phase = "completed" /\ completed.target = a.target
              /\ completed.generation = a.generation /\ completed.startedAt = a.startedAt
    BY DEF AttemptStates

\* What an accepted outcome does.
LEMMA CompleteAttemptSteps ==
    ASSUME TypeInv, NEW i \in AttemptIds, NEW c \in Targets, NEW o \in Outcomes,
           CompleteAttempt(i, c, o), Accepts(i, c)
    PROVE  \E after :
             /\ Outcome(c, now - attempts[i].startedAt, after)
             /\ cells' = [cells EXCEPT ![c] = after.cell]
             /\ notice' = after.notice
             /\ inFlight' = [inFlight EXCEPT ![CredentialOf[c]] = LargestOf(0, @ - 1)]
             /\ attempts' \in [AttemptIds -> AttemptStates]
             /\ \A j \in AttemptIds :
                  /\ attempts'[j].phase = IF j = i THEN "completed" ELSE attempts[j].phase
                  /\ attempts'[j].target = attempts[j].target
                  /\ attempts'[j].generation = attempts[j].generation
                  /\ attempts'[j].startedAt = attempts[j].startedAt
             /\ UNCHANGED <<now, issued, starts, generation>>
  <1> DEFINE after == AfterOutcome(c, o, attempts[i].headers, now - attempts[i].startedAt)
             completed == [[attempts[i] EXCEPT !.phase = "completed"] EXCEPT !.headers = <<>>]
  <1>1. Outcome(c, now - attempts[i].startedAt, after)
        BY HandleFacts, AfterOutcomeCases
  <1>2. /\ cells' = [cells EXCEPT ![c] = after.cell]
        /\ notice' = after.notice
        /\ inFlight' = [inFlight EXCEPT ![CredentialOf[c]] = LargestOf(0, @ - 1)]
        /\ attempts' = [attempts EXCEPT ![i].phase = "completed", ![i].headers = <<>>]
        /\ UNCHANGED <<now, issued, starts, generation>>
    <2> HIDE DEF Outcome
    <2> QED BY DEF CompleteAttempt
  <1>3. /\ completed \in AttemptStates
        /\ completed.phase = "completed" /\ completed.target = attempts[i].target
        /\ completed.generation = attempts[i].generation
        /\ completed.startedAt = attempts[i].startedAt
        BY HandleFacts, CompletedHandle
  <1>4. attempts' = [attempts EXCEPT ![i] = completed]
    <2>1. attempts \in [AttemptIds -> AttemptStates]
          BY DEF TypeInv
    <2> QED BY <1>2, <2>1, Zenon
  <1> HIDE DEF completed, after
  <1>5. /\ attempts' \in [AttemptIds -> AttemptStates]
        /\ \A j \in AttemptIds : attempts'[j] = IF j = i THEN completed ELSE attempts[j]
        BY <1>3, <1>4 DEF TypeInv
  <1>6. \A j \in AttemptIds :
          /\ attempts'[j].phase = IF j = i THEN "completed" ELSE attempts[j].phase
          /\ attempts'[j].target = attempts[j].target
          /\ attempts'[j].generation = attempts[j].generation
          /\ attempts'[j].startedAt = attempts[j].startedAt
        BY <1>3, <1>5
  <1> QED BY <1>1, <1>2, <1>5, <1>6

LEMMA CompleteAttemptIsTyped ==
    ASSUME TypeInv, NEW i \in AttemptIds, NEW c \in Targets, NEW o \in Outcomes,
           CompleteAttempt(i, c, o)
    PROVE  TypeInv'
  <1>1. CASE ~Accepts(i, c)
        BY <1>1 DEF TypeInv, TypeOK, CompleteAttempt
  <1>2. CASE Accepts(i, c)
    <2>1. PICK after :
             /\ Outcome(c, now - attempts[i].startedAt, after)
             /\ cells' = [cells EXCEPT ![c] = after.cell]
             /\ notice' = after.notice
             /\ inFlight' = [inFlight EXCEPT ![CredentialOf[c]] = LargestOf(0, @ - 1)]
             /\ attempts' \in [AttemptIds -> AttemptStates]
             /\ \A j \in AttemptIds :
                  /\ attempts'[j].phase = IF j = i THEN "completed" ELSE attempts[j].phase
                  /\ attempts'[j].target = attempts[j].target
                  /\ attempts'[j].generation = attempts[j].generation
                  /\ attempts'[j].startedAt = attempts[j].startedAt
             /\ UNCHANGED <<now, issued, starts, generation>>
          BY <1>2, CompleteAttemptSteps
    <2>2. now \in Nat /\ now - attempts[i].startedAt \in Nat /\ cells[c] \in CellStates
          BY HandleFacts DEF TypeInv, TypeOK
    <2>3. after.cell \in CellStates /\ after.notice \in {"silent", "changed"}
          BY <2>1, <2>2, OutcomeIsACell
    <2>4. cells' \in [Targets -> CellStates]
          BY <2>1, <2>3 DEF TypeInv, TypeOK
    <2>5. CredentialOf[c] \in Credentials
          BY DEF Credentials
    <2>6. inFlight' \in [Credentials -> Nat]
          BY <2>1, <2>5 DEF TypeInv, TypeOK, LargestOf
    <2>7. attempts[i].phase # "unused"
          BY DEF CompleteAttempt
    <2> QED BY <2>1, <2>3, <2>4, <2>6, <2>7 DEF TypeInv, TypeOK
  <1> QED BY <1>1, <1>2

\* The steps on cells alone put cells in the place of cells.
LEMMA CellStepIsTyped == ASSUME TypeInv, CellStep PROVE TypeInv'
  <1>1. /\ cells \in [Targets -> CellStates]
        /\ \A c \in Targets : cells[c] \in CellStates
        BY DEF TypeInv, TypeOK
  <1>2. ASSUME NEW c \in Targets, EndRateLimitCooldown(c) PROVE TypeInv'
    <2>1. [cells[c] EXCEPT !.cooldownUntil = 0, !.source = "none"] \in CellStates
          BY <1>1, SmallValues, ZenonT(30) DEF CellStates
    <2>2. cells' \in [Targets -> CellStates]
          BY <1>1, <1>2, <2>1 DEF EndRateLimitCooldown
    <2> QED BY <1>2, <2>2, CellChangeIsTyped DEF EndRateLimitCooldown
  <1>3. ASSUME NEW c \in Targets, RecordQuotaCooldown(c) PROVE TypeInv'
    <2>1. [cells[c] EXCEPT !.cooldownUntil = cells[c].quota, !.source = "quota"]
            \in CellStates
      <3>1. cells[c].quota \in Nat /\ "quota" \in Sources
            BY <1>1 DEF CellStates, Sources
      <3> QED BY <1>1, <3>1, ZenonT(30) DEF CellStates
    <2>2. cells' \in [Targets -> CellStates]
          BY <1>1, <1>3, <2>1 DEF RecordQuotaCooldown
    <2> QED BY <1>3, <2>2, CellChangeIsTyped DEF RecordQuotaCooldown
  <1>4. ASSUME NEW after \in [Targets -> CellStates], ChangeCells(after) PROVE TypeInv'
        BY <1>4, CellChangeIsTyped DEF ChangeCells
  <1>5. ASSUME NEW k \in Credentials, ClearCredentialFaults(k) PROVE TypeInv'
        BY <1>1, <1>4, <1>5, WithoutTypes DEF ClearCredentialFaults
  <1>6. ASSUME NEW s \in Selectors, ClearCredentialFaultState(s) PROVE TypeInv'
        BY <1>1, <1>4, <1>6, WithoutTypes DEF ClearCredentialFaultState
  <1>7. ASSUME NEW s \in Selectors, ClearCooldownState(s) PROVE TypeInv'
        BY <1>1, <1>4, <1>7, WithoutTypes DEF ClearCooldownState
  <1> QED BY <1>2, <1>3, <1>5, <1>6, <1>7 DEF CellStep

LEMMA ResetIsTyped == ASSUME TypeInv, Reset PROVE TypeInv'
  <1>1. /\ starts' \in [Targets -> Seq(Nat)]
        /\ \A c \in Targets : Len(starts'[c]) <= MaxStarts
        BY EmptySeq, DurationAssumption DEF Reset
  <1>2. cells' \in [Targets -> CellStates] /\ inFlight' \in [Credentials -> Nat]
        BY FreshType DEF Reset
  <1> QED BY <1>1, <1>2, BoundAssumption DEF Reset, TypeInv, TypeOK

LEMMA TickIsTyped == ASSUME TypeInv, Tick PROVE TypeInv'
    BY BoundAssumption DEF Tick, TypeInv, TypeOK, Times

\* The figures a header states are numbers.
LEMMA StatementsAreNaturals ==
    ASSUME TypeInv
    PROVE  /\ \A ra \in RetryAfters \cup {NoFigure} : ra \in Nat
           /\ \A q \in QuotaStatements : q \in Nat
  <1>1. now \in Nat
        BY BoundAssumption DEF TypeInv, TypeOK, Times
  <1>2. \A ra \in RetryAfters \cup {NoFigure} : ra \in Nat
        BY InputAssumption DEF NoFigure
  <1>3. \A q \in QuotaStatements : q \in Nat
        BY <1>1, InputAssumption DEF QuotaStatements, NoQuota
  <1> QED BY <1>2, <1>3

LEMMA AttemptStepIsTyped == ASSUME TypeInv, AttemptStep PROVE TypeInv'
    BY StatementsAreNaturals, BeginAttemptIsTyped, ObserveHeadersIsTyped, CompleteAttemptIsTyped
       DEF AttemptStep

LEMMA NextIsTyped == ASSUME TypeInv, [Next]_vars PROVE TypeInv'
  <1>1. CASE UNCHANGED vars
        BY <1>1 DEF vars, TypeInv, TypeOK
  <1> QED BY <1>1, AttemptStepIsTyped, CellStepIsTyped, ResetIsTyped, TickIsTyped DEF Next

\* Every reachable state of the breaker has the types of its variables.
THEOREM TypesHold == Spec => []TypeOK
  <1>1. Spec => []TypeInv
        BY InitIsTyped, NextIsTyped, PTL DEF Spec
  <1>2. TypeInv => TypeOK
        BY DEF TypeInv
  <1> QED BY <1>1, <1>2, PTL

-----------------------------------------------------------------------------
(***************************************************************************)
(* Whose word a cooldown is on.  The last status of a cell may belong to a *)
(* later outcome than its cooldown, because a failure below the threshold  *)
(* cools nothing.  Two readings of it are safe all the same.               *)
(***************************************************************************)
CellIsHonest(s) == /\ s.lastStatus = 429 => s.earnedBy = 429
                   /\ s.source = "failure-escalation" =>
                        s.failures >= Trip /\ s.earnedBy = s.lastStatus

CellsAreHonest == \A c \in Targets : CellIsHonest(cells[c])

LEMMA ChargedIsHonest ==
    ASSUME NEW c, NEW s \in CellStates, CellIsHonest(s), NEW status \in Nat,
           NEW elapsed \in Nat, NEW retryAfter \in Nat, now \in Nat
    PROVE  CellIsHonest(Charged(c, s, status, elapsed, retryAfter))
  <1> DEFINE charged == Charged(c, s, status, elapsed, retryAfter)
             rung == RungOf(c, s, status, elapsed, retryAfter)
             failures == SmallestOf(s.failures + 1, FailureCap)
  <1>1. /\ charged.failures = failures
        /\ charged.lastStatus = status
        /\ charged.source = IF rung.source # "none" THEN rung.source ELSE s.source
        /\ charged.earnedBy = IF rung.source # "none" THEN status ELSE s.earnedBy
        BY ChargedFields
  <1>2. /\ s.failures >= Trip => failures >= Trip
        /\ status = 429 => rung.source # "none"
        /\ failures >= Trip => rung.source # "none"
        /\ rung.source = "failure-escalation" => failures >= Trip
        BY RungCools
  <1> HIDE DEF charged, rung, failures
  <1>3. CellIsHonest(charged)
        BY <1>1, <1>2 DEF CellIsHonest
  <1> QED BY <1>3 DEF charged

LEMMA OtherOutcomesAreHonest ==
    ASSUME NEW s \in CellStates, CellIsHonest(s), NEW status \in Nat, NEW q \in Nat,
           now \in Nat
    PROVE  /\ CellIsHonest(Recovered(s))
           /\ CellIsHonest(Faulted(s, status))
           /\ CellIsHonest(WithQuota(s, q))
           /\ CellIsHonest(WithoutFault(s))
           /\ CellIsHonest(WithoutCooldown(s))
  <1>1. CellIsHonest(Recovered(s))
        BY DEF CellIsHonest, Recovered, CellStates
  <1>2. CellIsHonest(Faulted(s, status))
        BY DEF CellIsHonest, Faulted, CellStates
  <1>3. CellIsHonest(WithQuota(s, q))
        BY DEF CellIsHonest, WithQuota, CellStates
  <1>4. CellIsHonest(WithoutFault(s))
        BY DEF CellIsHonest, WithoutFault, CellStates
  <1>5. CellIsHonest(WithoutCooldown(s))
        BY DEF CellIsHonest, WithoutCooldown, CellStates
  <1> QED BY <1>1, <1>2, <1>3, <1>4, <1>5

LEMMA OutcomeIsHonest ==
    ASSUME NEW c, cells[c] \in CellStates, CellIsHonest(cells[c]), now \in Nat,
           NEW elapsed \in Nat, NEW after, Outcome(c, elapsed, after)
    PROVE  CellIsHonest(after.cell)
  <1>1. PICK q \in Nat :
          LET observed == WithQuota(cells[c], q)
          IN \/ after = [cell |-> observed, notice |-> "silent"]
             \/ after = [cell |-> Recovered(observed), notice |-> "changed"]
             \/ \E status \in Nat :
                  after = [cell |-> Faulted(observed, status), notice |-> "changed"]
             \/ \E status, retryAfter \in Nat :
                  after = [cell |-> Charged(c, observed, status, elapsed, retryAfter),
                           notice |-> "changed"]
        BY DEF Outcome
  <1> DEFINE observed == WithQuota(cells[c], q)
  <1>2. observed \in CellStates /\ CellIsHonest(observed)
        BY WithQuotaType, OtherOutcomesAreHonest DEF NoStatus
  <1> HIDE DEF observed
  <1>3. CASE after = [cell |-> observed, notice |-> "silent"]
        BY <1>2, <1>3
  <1>4. CASE after = [cell |-> Recovered(observed), notice |-> "changed"]
        BY <1>2, <1>4, OtherOutcomesAreHonest
  <1>5. CASE \E status \in Nat :
               after = [cell |-> Faulted(observed, status), notice |-> "changed"]
        BY <1>2, <1>5, OtherOutcomesAreHonest
  <1>6. CASE \E status, retryAfter \in Nat :
               after = [cell |-> Charged(c, observed, status, elapsed, retryAfter),
                        notice |-> "changed"]
        BY <1>2, <1>6, ChargedIsHonest
  <1> QED BY <1>1, <1>3, <1>4, <1>5, <1>6 DEF observed

LEMMA InitIsHonest == Init => CellsAreHonest
    BY DEF Init, CellsAreHonest, CellIsHonest, Fresh, NoStatus

LEMMA AttemptStepIsHonest ==
    ASSUME TypeInv, CellsAreHonest, AttemptStep
    PROVE  CellsAreHonest'
  <1>1. ASSUME NEW c \in Targets, BeginAttempt(c) PROVE CellsAreHonest'
        BY <1>1 DEF BeginAttempt, CellsAreHonest, CellIsHonest
  <1>2. ASSUME NEW i \in AttemptIds, NEW c \in Targets, NEW ra, NEW q,
               ObserveHeaders(i, c, ra, q)
        PROVE  CellsAreHonest'
        BY <1>2 DEF ObserveHeaders, CellsAreHonest, CellIsHonest
  <1>3. ASSUME NEW i \in AttemptIds, NEW c \in Targets, NEW o \in Outcomes,
               CompleteAttempt(i, c, o)
        PROVE  CellsAreHonest'
    <2>1. CASE ~Accepts(i, c)
          BY <1>3, <2>1 DEF CompleteAttempt, CellsAreHonest, CellIsHonest
    <2>2. CASE Accepts(i, c)
      <3>1. PICK after : /\ Outcome(c, now - attempts[i].startedAt, after)
                         /\ cells' = [cells EXCEPT ![c] = after.cell]
            BY <1>3, <2>2, CompleteAttemptSteps
      <3>2. /\ cells[c] \in CellStates /\ now \in Nat
            /\ now - attempts[i].startedAt \in Nat /\ CellIsHonest(cells[c])
            BY HandleFacts DEF TypeInv, TypeOK, CellsAreHonest
      <3>3. CellIsHonest(after.cell)
            BY <3>1, <3>2, OutcomeIsHonest
      <3>4. \A d \in Targets : cells'[d] = IF d = c THEN after.cell ELSE cells[d]
            BY <3>1 DEF TypeInv, TypeOK
      <3> QED BY <3>3, <3>4 DEF CellsAreHonest, CellIsHonest
    <2> QED BY <2>1, <2>2
  <1> QED BY <1>1, <1>2, <1>3 DEF AttemptStep

LEMMA CellStepIsHonest ==
    ASSUME TypeInv, CellsAreHonest, CellStep
    PROVE  CellsAreHonest'
  <1>1. \A c \in Targets : cells[c] \in CellStates /\ CellIsHonest(cells[c])
        BY DEF TypeInv, TypeOK, CellsAreHonest
  <1>2. now \in Nat /\ 0 \in Nat
        BY BoundAssumption DEF TypeInv, TypeOK, Times
  <1>3. ASSUME NEW c \in Targets, EndRateLimitCooldown(c) PROVE CellsAreHonest'
    <2>1. \A d \in Targets : /\ cells'[d].lastStatus = cells[d].lastStatus
                             /\ cells'[d].failures = cells[d].failures
                             /\ cells'[d].earnedBy = cells[d].earnedBy
                             /\ cells'[d].source \in {cells[d].source, "none"}
          BY <1>1, <1>3 DEF EndRateLimitCooldown, TypeInv, TypeOK, CellStates
    <2> QED BY <1>1, <2>1 DEF CellsAreHonest, CellIsHonest
  <1>4. ASSUME NEW c \in Targets, RecordQuotaCooldown(c) PROVE CellsAreHonest'
    <2>1. \A d \in Targets : /\ cells'[d].lastStatus = cells[d].lastStatus
                             /\ cells'[d].failures = cells[d].failures
                             /\ cells'[d].earnedBy = cells[d].earnedBy
                             /\ cells'[d].source \in {cells[d].source, "quota"}
          BY <1>1, <1>4 DEF RecordQuotaCooldown, TypeInv, TypeOK, CellStates
    <2> QED BY <1>1, <2>1 DEF CellsAreHonest, CellIsHonest
  <1>5. \A s \in CellStates :
          CellIsHonest(s) => /\ CellIsHonest(WithoutFault(s))
                             /\ CellIsHonest(WithoutCooldown(s))
                             /\ CellIsHonest(WithoutCooldown(WithoutFault(s)))
        BY <1>2, OtherOutcomesAreHonest, WithoutTypes
  <1>6. ASSUME NEW k \in Credentials, ClearCredentialFaults(k) PROVE CellsAreHonest'
    <2>1. \A c \in Targets : CellIsHonest(cells'[c])
          BY <1>1, <1>5, <1>6 DEF ClearCredentialFaults, ChangeCells
    <2> QED BY <2>1 DEF CellsAreHonest, CellIsHonest
  <1>7. ASSUME NEW s \in Selectors, ClearCredentialFaultState(s) PROVE CellsAreHonest'
    <2>1. \A c \in Targets : CellIsHonest(cells'[c])
          BY <1>1, <1>5, <1>7 DEF ClearCredentialFaultState, ChangeCells
    <2> QED BY <2>1 DEF CellsAreHonest, CellIsHonest
  <1>8. ASSUME NEW s \in Selectors, ClearCooldownState(s) PROVE CellsAreHonest'
    <2>1. \A c \in Targets : CellIsHonest(cells'[c])
          BY <1>1, <1>5, <1>8 DEF ClearCooldownState, ChangeCells
    <2> QED BY <2>1 DEF CellsAreHonest, CellIsHonest
  <1> QED BY <1>3, <1>4, <1>6, <1>7, <1>8 DEF CellStep

LEMMA NextIsHonest ==
    ASSUME TypeInv, CellsAreHonest, [Next]_vars
    PROVE  CellsAreHonest'
  <1>1. CASE Reset
        BY <1>1 DEF Reset, CellsAreHonest, CellIsHonest, Fresh, NoStatus
  <1>2. CASE Tick \/ UNCHANGED vars
        BY <1>2 DEF Tick, vars, CellsAreHonest, CellIsHonest
  <1> QED BY <1>1, <1>2, AttemptStepIsHonest, CellStepIsHonest DEF Next

\* What honest cells are for: endRateLimitCooldown cannot end a cooldown that a
\* hang, an abandoned request or a spent quota set.
LEMMA HonestCellsSuffice == CellsAreHonest => ProbesEndOnlyWhatTheyDisprove
    BY DEF CellsAreHonest, CellIsHonest, ProbesEndOnlyWhatTheyDisprove, ProbeDisproves

\* A probe ends only a cooldown that one small answer disproves, for any ladder
\* and any order of outcomes, probes, clears and resets.
THEOREM ProbesAreSound == Spec => []ProbesEndOnlyWhatTheyDisprove
  <1>1. Init => TypeInv /\ CellsAreHonest
        BY InitIsTyped, InitIsHonest
  <1>2. TypeInv /\ CellsAreHonest /\ [Next]_vars => (TypeInv /\ CellsAreHonest)'
        BY NextIsTyped, NextIsHonest
  <1> QED BY <1>1, <1>2, HonestCellsSuffice, PTL DEF Spec

-----------------------------------------------------------------------------
(***************************************************************************)
(* A deployment that hangs is left alone for as long as it hung.           *)
(***************************************************************************)
\* An outcome that adds a failure charged the cell.
LEMMA OnlyChargesAddFailures ==
    ASSUME NEW c, cells[c] \in CellStates, now \in Nat, NEW elapsed \in Nat, NEW after,
           Outcome(c, elapsed, after), after.cell.failures > cells[c].failures
    PROVE  \E s \in CellStates, status, retryAfter \in Nat :
             after.cell = Charged(c, s, status, elapsed, retryAfter)
  <1>1. PICK q \in Nat :
          LET observed == WithQuota(cells[c], q)
          IN \/ after = [cell |-> observed, notice |-> "silent"]
             \/ after = [cell |-> Recovered(observed), notice |-> "changed"]
             \/ \E status \in Nat :
                  after = [cell |-> Faulted(observed, status), notice |-> "changed"]
             \/ \E status, retryAfter \in Nat :
                  after = [cell |-> Charged(c, observed, status, elapsed, retryAfter),
                           notice |-> "changed"]
        BY DEF Outcome
  <1> DEFINE observed == WithQuota(cells[c], q)
  <1>2. /\ observed \in CellStates
        /\ observed.failures = cells[c].failures
        /\ cells[c].failures \in Nat
        BY WithQuotaType, CapsAreNaturals DEF WithQuota, CellStates
  <1> HIDE DEF observed
  <1>3. CASE after = [cell |-> observed, notice |-> "silent"]
        BY <1>2, <1>3
  <1>4. CASE after = [cell |-> Recovered(observed), notice |-> "changed"]
    <2>1. Recovered(observed).failures = 0
          BY <1>2 DEF Recovered, CellStates
    <2> QED BY <1>2, <1>4, <2>1
  <1>5. CASE \E status \in Nat :
               after = [cell |-> Faulted(observed, status), notice |-> "changed"]
    <2>1. PICK status \in Nat :
             after = [cell |-> Faulted(observed, status), notice |-> "changed"]
          BY <1>5
    <2>2. Faulted(observed, status).failures = observed.failures
          BY <1>2 DEF Faulted, CellStates
    <2> QED BY <1>2, <2>1, <2>2
  <1>6. CASE \E status, retryAfter \in Nat :
               after = [cell |-> Charged(c, observed, status, elapsed, retryAfter),
                        notice |-> "changed"]
        BY <1>2, <1>6
  <1> QED BY <1>1, <1>3, <1>4, <1>5, <1>6 DEF observed

\* The action HangsAreOutlasted forbids the opposite of.
Outlasted ==
    \A i \in AttemptIds :
        LET c == attempts[i].target
            wasted == SmallestOf(MaxRetryAfter, now - attempts[i].startedAt)
        IN (/\ attempts[i].phase = "open"
            /\ attempts'[i].phase = "completed"
            /\ cells'[c].failures > cells[c].failures
            /\ cells'[c].failures >= Trip
            /\ cells'[c].source # "retry-after"
            /\ cells'[c].lastStatus \notin {402, 429})
           => cells'[c].cooldownUntil >= now + wasted

LEMMA CompleteAttemptOutlasts ==
    ASSUME TypeInv, NEW i \in AttemptIds, NEW c \in Targets, NEW o \in Outcomes,
           CompleteAttempt(i, c, o)
    PROVE  Outlasted
  <1> SUFFICES ASSUME NEW j \in AttemptIds,
                      attempts[j].phase = "open",
                      attempts'[j].phase = "completed",
                      cells'[attempts[j].target].failures > cells[attempts[j].target].failures,
                      cells'[attempts[j].target].failures >= Trip,
                      cells'[attempts[j].target].source # "retry-after",
                      cells'[attempts[j].target].lastStatus \notin {402, 429}
               PROVE  cells'[attempts[j].target].cooldownUntil
                        >= now + SmallestOf(MaxRetryAfter, now - attempts[j].startedAt)
      BY DEF Outlasted
  <1>1. Accepts(i, c)
        BY DEF CompleteAttempt
  <1>2. PICK after :
           /\ Outcome(c, now - attempts[i].startedAt, after)
           /\ cells' = [cells EXCEPT ![c] = after.cell]
           /\ \A k \in AttemptIds :
                attempts'[k].phase = IF k = i THEN "completed" ELSE attempts[k].phase
        BY <1>1, CompleteAttemptSteps
  <1>3. j = i /\ attempts[j].target = c
        BY <1>1, <1>2 DEF Accepts
  <1>4. cells'[c] = after.cell /\ cells[c] \in CellStates
        BY <1>2 DEF TypeInv, TypeOK
  <1> DEFINE elapsed == now - attempts[i].startedAt
  <1>5. now \in Nat /\ elapsed \in Nat
        BY HandleFacts
  <1>6. PICK s \in CellStates, status, retryAfter \in Nat :
          after.cell = Charged(c, s, status, elapsed, retryAfter)
    <2> HIDE DEF elapsed
    <2>1. Outcome(c, elapsed, after)
          BY <1>2 DEF elapsed
    <2>2. after.cell.failures > cells[c].failures
          BY <1>3, <1>4
    <2> QED BY <1>4, <1>5, <2>1, <2>2, OnlyChargesAddFailures
  <1> HIDE DEF elapsed
  <1> DEFINE rung == RungOf(c, s, status, elapsed, retryAfter)
             failures == SmallestOf(s.failures + 1, FailureCap)
  <1>7. /\ after.cell.failures = failures
        /\ after.cell.lastStatus = status
        /\ after.cell.cooldownUntil = IF rung.source # "none" THEN now + rung.ms
                                      ELSE s.cooldownUntil
        /\ after.cell.source = IF rung.source # "none" THEN rung.source ELSE s.source
        BY <1>5, <1>6, ChargedFields
  <1>8. /\ rung \in [ms : Nat, source : Sources]
        /\ failures >= Trip => rung.source # "none"
        /\ failures >= Trip /\ rung.source # "retry-after" /\ status \notin {402, 429}
             => rung.ms >= SmallestOf(MaxRetryAfter, elapsed)
        BY <1>5, RungCools
  <1> HIDE DEF rung, failures
  <1>9. /\ failures >= Trip /\ status \notin {402, 429}
        /\ rung.source # "none" => rung.source # "retry-after"
        BY <1>3, <1>4, <1>7
  <1>10. after.cell.cooldownUntil = now + rung.ms
         BY <1>7, <1>8, <1>9
  <1>11. SmallestOf(MaxRetryAfter, elapsed) \in Nat
         BY <1>5, DurationAssumption DEF SmallestOf
  <1>12. after.cell.cooldownUntil >= now + SmallestOf(MaxRetryAfter, elapsed)
         BY <1>5, <1>8, <1>9, <1>10, <1>11
  <1> QED BY <1>3, <1>4, <1>12 DEF elapsed

\* The steps on cells alone.
LEMMA CellStepLeavesTheRest ==
    CellStep => UNCHANGED <<now, attempts, issued, inFlight, starts, generation>>
    BY DEF CellStep, EndRateLimitCooldown, RecordQuotaCooldown, ClearCredentialFaults,
           ClearCredentialFaultState, ClearCooldownState, ChangeCells

LEMMA NextOutlasts == ASSUME TypeInv, [Next]_vars PROVE [Outlasted]_vars
  <1>1. CASE UNCHANGED vars
        BY <1>1
  <1>2. ASSUME UNCHANGED attempts PROVE Outlasted
        BY <1>2 DEF Outlasted
  <1>3. ASSUME NEW c \in Targets, BeginAttempt(c) PROVE Outlasted
        BY <1>3 DEF BeginAttempt, Outlasted
  <1>4. ASSUME NEW i \in AttemptIds, NEW c \in Targets, NEW ra \in Nat, NEW q \in Nat,
               ObserveHeaders(i, c, ra, q)
        PROVE  Outlasted
        BY <1>4, ObserveHeadersSteps DEF Outlasted
  <1>5. ASSUME AttemptStep PROVE Outlasted
        BY <1>3, <1>4, <1>5, CompleteAttemptOutlasts, StatementsAreNaturals DEF AttemptStep
  <1>6. ASSUME CellStep PROVE UNCHANGED attempts
        BY <1>6, CellStepLeavesTheRest
  <1>7. ASSUME Reset \/ Tick PROVE UNCHANGED attempts
        BY <1>7 DEF Reset, Tick
  <1> QED BY <1>1, <1>2, <1>5, <1>6, <1>7 DEF Next

\* A generic failure that trips a cell cools it for at least what it wasted, for
\* any ladder and any figures.
THEOREM HangsAreCharged == Spec => HangsAreOutlasted
  <1>1. Spec => []TypeInv
        BY InitIsTyped, NextIsTyped, PTL DEF Spec
  <1>2. TypeInv /\ [Next]_vars => [Outlasted]_vars
        BY NextOutlasts
  <1>3. Spec => [][Outlasted]_vars
        BY <1>1, <1>2, PTL DEF Spec
  <1> QED BY <1>3 DEF HangsAreOutlasted, Outlasted

-----------------------------------------------------------------------------
(***************************************************************************)
(* The leases of a credential are its open attempts.                       *)
(***************************************************************************)
LEMMA OpenAttemptsAreFinite ==
    ASSUME NEW k
    PROVE  IsFiniteSet(OpenAttempts(k)) /\ Cardinality(OpenAttempts(k)) \in Nat
  <1>1. IsFiniteSet(AttemptIds)
        BY FS_Interval, BoundAssumption DEF AttemptIds
  <1>2. OpenAttempts(k) \in SUBSET AttemptIds
        BY DEF OpenAttempts
  <1>3. IsFiniteSet(OpenAttempts(k))
        BY <1>1, <1>2, FS_Subset
  <1> QED BY <1>3, FS_CardinalityType

\* A step that neither opens, closes nor outdates a handle.
LEMMA SameHandlesSameLeases ==
    ASSUME LeasesAreOpenAttempts, UNCHANGED <<inFlight, generation>>,
           \A i \in AttemptIds : /\ attempts'[i].phase = attempts[i].phase
                                 /\ attempts'[i].target = attempts[i].target
                                 /\ attempts'[i].generation = attempts[i].generation
    PROVE  LeasesAreOpenAttempts'
  <1>1. \A k \in Credentials : OpenAttempts(k)' = OpenAttempts(k)
        BY DEF OpenAttempts
  <1> QED BY <1>1 DEF LeasesAreOpenAttempts

LEMMA InitHasNoLeases == ASSUME Init PROVE LeasesAreOpenAttempts
  <1>1. \A k \in Credentials : OpenAttempts(k) = {}
        BY DEF Init, OpenAttempts, Unused
  <1> QED BY <1>1, FS_EmptySet DEF Init, LeasesAreOpenAttempts

LEMMA BeginAttemptLeases ==
    ASSUME TypeInv, LeasesAreOpenAttempts, NEW c \in Targets, BeginAttempt(c)
    PROVE  LeasesAreOpenAttempts'
  <1>1. /\ issued + 1 \in AttemptIds
        /\ attempts[issued + 1].phase = "unused"
        BY BoundAssumption DEF TypeInv, TypeOK, AttemptIds, BeginAttempt
  <1>2. /\ attempts'[issued + 1].phase = "open" /\ attempts'[issued + 1].target = c
        /\ attempts'[issued + 1].generation = generation
        /\ \A i \in AttemptIds : i # issued + 1 => attempts'[i] = attempts[i]
        BY <1>1 DEF BeginAttempt, TypeInv
  <1>3. generation' = generation
        BY DEF BeginAttempt
  <1>4. ASSUME NEW k \in Credentials
        PROVE  inFlight'[k] = Cardinality(OpenAttempts(k)')
    <2>1. CASE k = CredentialOf[c]
      <3>1. OpenAttempts(k)' = OpenAttempts(k) \cup {issued + 1}
            BY <1>1, <1>2, <1>3, <2>1 DEF OpenAttempts
      <3>2. issued + 1 \notin OpenAttempts(k)
            BY <1>1 DEF OpenAttempts
      <3>3. Cardinality(OpenAttempts(k)') = Cardinality(OpenAttempts(k)) + 1
            BY <3>1, <3>2, OpenAttemptsAreFinite, FS_AddElement
      <3>4. inFlight'[k] = inFlight[k] + 1
            BY <2>1 DEF BeginAttempt, TypeInv, TypeOK
      <3> QED BY <3>3, <3>4 DEF LeasesAreOpenAttempts
    <2>2. CASE k # CredentialOf[c]
      <3>1. OpenAttempts(k)' = OpenAttempts(k)
            BY <1>1, <1>2, <1>3, <2>2 DEF OpenAttempts
      <3>2. inFlight'[k] = inFlight[k]
            BY <2>2 DEF BeginAttempt, TypeInv, TypeOK
      <3> QED BY <3>1, <3>2 DEF LeasesAreOpenAttempts
    <2> QED BY <2>1, <2>2
  <1> QED BY <1>4 DEF LeasesAreOpenAttempts

LEMMA CompleteAttemptLeases ==
    ASSUME TypeInv, LeasesAreOpenAttempts, NEW i \in AttemptIds, NEW c \in Targets,
           NEW o \in Outcomes, CompleteAttempt(i, c, o)
    PROVE  LeasesAreOpenAttempts'
  <1>1. CASE ~Accepts(i, c)
        BY <1>1, SameHandlesSameLeases DEF CompleteAttempt
  <1>2. CASE Accepts(i, c)
    <2>1. /\ inFlight' = [inFlight EXCEPT ![CredentialOf[c]] = LargestOf(0, @ - 1)]
          /\ \A j \in AttemptIds :
               /\ attempts'[j].phase = IF j = i THEN "completed" ELSE attempts[j].phase
               /\ attempts'[j].target = attempts[j].target
               /\ attempts'[j].generation = attempts[j].generation
          /\ generation' = generation
          BY <1>2, CompleteAttemptSteps
    <2>2. ASSUME NEW k \in Credentials
          PROVE  inFlight'[k] = Cardinality(OpenAttempts(k)')
      <3>1. CASE k = CredentialOf[c]
        <4>1. i \in OpenAttempts(k)
              BY <1>2, <3>1 DEF Accepts, OpenAttempts
        <4>2. OpenAttempts(k)' = OpenAttempts(k) \ {i}
              BY <2>1 DEF OpenAttempts
        <4>3. /\ Cardinality(OpenAttempts(k)') = Cardinality(OpenAttempts(k)) - 1
              /\ Cardinality(OpenAttempts(k)') \in Nat
              BY <4>1, <4>2, OpenAttemptsAreFinite, FS_RemoveElement, FS_CardinalityType
        <4>4. inFlight'[k] = LargestOf(0, inFlight[k] - 1)
              BY <2>1, <3>1 DEF TypeInv, TypeOK
        <4> QED BY <4>3, <4>4, OpenAttemptsAreFinite DEF LeasesAreOpenAttempts, LargestOf
      <3>2. CASE k # CredentialOf[c]
        <4>1. OpenAttempts(k)' = OpenAttempts(k)
              BY <1>2, <2>1, <3>2 DEF Accepts, OpenAttempts
        <4>2. inFlight'[k] = inFlight[k]
              BY <2>1, <3>2 DEF TypeInv, TypeOK
        <4> QED BY <4>1, <4>2 DEF LeasesAreOpenAttempts
      <3> QED BY <3>1, <3>2
    <2> QED BY <2>2 DEF LeasesAreOpenAttempts
  <1> QED BY <1>1, <1>2

LEMMA ResetLeases == ASSUME TypeInv, Reset PROVE LeasesAreOpenAttempts'
  <1>1. ASSUME NEW i \in AttemptIds PROVE attempts'[i].generation # generation'
        BY DEF TypeInv, TypeOK, Reset
  <1>2. \A k \in Credentials : OpenAttempts(k)' = {}
        BY <1>1 DEF OpenAttempts
  <1>3. \A k \in Credentials : inFlight'[k] = 0
        BY DEF Reset
  <1> QED BY <1>2, <1>3, FS_EmptySet DEF LeasesAreOpenAttempts

LEMMA AttemptStepLeases ==
    ASSUME TypeInv, LeasesAreOpenAttempts, AttemptStep
    PROVE  LeasesAreOpenAttempts'
  <1>1. ASSUME NEW i \in AttemptIds, NEW c \in Targets, NEW ra \in Nat, NEW q \in Nat,
               ObserveHeaders(i, c, ra, q)
        PROVE  LeasesAreOpenAttempts'
        BY <1>1, ObserveHeadersSteps, SameHandlesSameLeases
  <1> QED BY <1>1, StatementsAreNaturals, BeginAttemptLeases, CompleteAttemptLeases
          DEF AttemptStep

LEMMA NextLeases ==
    ASSUME TypeInv, LeasesAreOpenAttempts, [Next]_vars
    PROVE  LeasesAreOpenAttempts'
  <1>1. CASE CellStep
        BY <1>1, CellStepLeavesTheRest, SameHandlesSameLeases
  <1>2. CASE Tick \/ UNCHANGED vars
        BY <1>2, SameHandlesSameLeases DEF Tick, vars
  <1> QED BY <1>1, <1>2, AttemptStepLeases, ResetLeases DEF Next

\* No lease leaks and none is returned twice, whatever is completed late, twice,
\* for the wrong cell or across a reset.
THEOREM LeasesAreExact == Spec => []LeasesAreOpenAttempts
  <1>1. Init => TypeInv /\ LeasesAreOpenAttempts
        BY InitIsTyped, InitHasNoLeases
  <1>2. TypeInv /\ LeasesAreOpenAttempts /\ [Next]_vars
          => (TypeInv /\ LeasesAreOpenAttempts)'
        BY NextIsTyped, NextLeases
  <1> QED BY <1>1, <1>2, PTL DEF Spec

-----------------------------------------------------------------------------
(***************************************************************************)
(* The log of a cell lists the newest attempts on it in the order they     *)
(* began; an attempt of this generation that is not listed is older than   *)
(* every listed one, and the log is full or the widest window is past it.  *)
(***************************************************************************)
Own(c) == {i \in AttemptIds : /\ attempts[i].phase # "unused"
                              /\ attempts[i].generation = generation
                              /\ attempts[i].target = c}

Begun(i) == attempts[i].startedAt

Lists(f, c) ==
    LET log == starts[c]
    IN /\ f \in [1 .. Len(log) -> Own(c)]
       /\ \A a, b \in 1 .. Len(log) : a < b => f[a] < f[b]
       /\ \A a \in 1 .. Len(log) : log[a] = Begun(f[a])
       /\ \A i \in Own(c) :
            \/ \E a \in 1 .. Len(log) : f[a] = i
            \/ /\ \A a \in 1 .. Len(log) : i < f[a]
               /\ Len(log) = MaxStarts \/ Begun(i) < now - StartWindow

LogsAreTrue ==
    /\ \A i, j \in AttemptIds : i < j /\ j <= issued => Begun(i) <= Begun(j)
    /\ \A c \in Targets : \E f : Lists(f, c)

\* The times and lengths the argument compares.
LEMMA LogFacts ==
    ASSUME TypeInv
    PROVE  /\ now \in Nat /\ issued \in Nat
           /\ \A i \in AttemptIds : i \in Nat /\ Begun(i) \in Nat /\ Begun(i) <= now
           /\ \A c \in Targets : Len(starts[c]) \in Nat /\ Len(starts[c]) <= MaxStarts
           /\ \A c \in Targets : \A i \in Own(c) : i <= issued /\ i \in AttemptIds
  <1>1. \A c \in Targets : Len(starts[c]) \in Nat
        BY LenProperties DEF TypeInv
  <1>2. now \in Nat /\ issued \in Nat
        BY BoundAssumption DEF TypeInv, TypeOK, Times
  <1>3. \A i \in AttemptIds : i \in Nat /\ Begun(i) \in Nat /\ Begun(i) <= now
        BY <1>2 DEF TypeInv, TypeOK, Begun, AttemptIds
  <1>4. \A c \in Targets : \A i \in Own(c) : i <= issued /\ i \in AttemptIds
        BY <1>2, <1>3 DEF Own, TypeInv, TypeOK
  <1> QED BY <1>1, <1>2, <1>3, <1>4 DEF TypeInv, TypeOK

LEMMA EmptyLogsAreTrue ==
    ASSUME \A c \in Targets : starts[c] = <<>> /\ Own(c) = {},
           \A i, j \in AttemptIds : i < j /\ j <= issued => Begun(i) <= Begun(j)
    PROVE  LogsAreTrue
  <1>1. ASSUME NEW c \in Targets PROVE Lists([a \in {} |-> 0], c)
    <2>1. Len(starts[c]) = 0 /\ 1 .. Len(starts[c]) = {}
          BY EmptySeq
    <2> QED BY <2>1 DEF Lists
  <1> QED BY <1>1 DEF LogsAreTrue

\* A step that begins nothing.
LEMMA SameStartsSameLogs ==
    ASSUME TypeInv, LogsAreTrue, UNCHANGED <<issued, starts, generation>>,
           now' \in Nat, now' >= now,
           \A i \in AttemptIds : /\ attempts'[i].phase = "unused" <=> attempts[i].phase = "unused"
                                 /\ attempts'[i].target = attempts[i].target
                                 /\ attempts'[i].generation = attempts[i].generation
                                 /\ attempts'[i].startedAt = attempts[i].startedAt
    PROVE  LogsAreTrue'
  <1>1. \A c \in Targets : Own(c)' = Own(c)
        BY DEF Own
  <1>2. \A i \in AttemptIds : Begun(i)' = Begun(i)
        BY DEF Begun
  <1>3. ASSUME NEW c \in Targets, NEW f, Lists(f, c) PROVE Lists(f, c)'
    <2>1. \A i \in Own(c) : i \in AttemptIds
          BY DEF Own
    <2>2. \A i \in Own(c) : Begun(i) < now - StartWindow => Begun(i)' < now' - StartWindow
          BY <1>2, <2>1, LogFacts, DurationAssumption
    <2>3. \A a \in 1 .. Len(starts[c]) : Begun(f[a])' = Begun(f[a])
          BY <1>2, <1>3, <2>1 DEF Lists
    <2> QED BY <1>1, <1>3, <2>2, <2>3 DEF Lists
  <1>4. \A i, j \in AttemptIds : i < j /\ j <= issued => Begun(i)' <= Begun(j)'
        BY <1>2 DEF LogsAreTrue
  <1> QED BY <1>3, <1>4 DEF LogsAreTrue

\* Beginning an attempt appends it to the list of its cell.
LEMMA BeginAttemptLogs ==
    ASSUME TypeInv, LogsAreTrue, NEW c \in Targets, BeginAttempt(c)
    PROVE  LogsAreTrue'
  <1>0. PICK new : new = issued + 1
        OBVIOUS
  <1>1. /\ new \in AttemptIds /\ new \in Nat /\ new > issued
        /\ attempts[new].phase = "unused"
        /\ now' = now /\ generation' = generation /\ issued' = new
        BY <1>0, BoundAssumption DEF TypeInv, TypeOK, AttemptIds, BeginAttempt
  <1>2. /\ attempts'[new].phase = "open" /\ attempts'[new].target = c
        /\ attempts'[new].generation = generation /\ attempts'[new].startedAt = now
        /\ \A i \in AttemptIds : i # new => attempts'[i] = attempts[i]
        BY <1>0, <1>1 DEF BeginAttempt, TypeInv
  <1>3. /\ Own(c)' = Own(c) \cup {new}
        /\ \A d \in Targets : d # c => Own(d)' = Own(d)
        /\ \A d \in Targets : new \notin Own(d)
        BY <1>1, <1>2 DEF Own
  <1>4. /\ Begun(new)' = now
        /\ \A i \in AttemptIds : i # new => Begun(i)' = Begun(i)
        BY <1>2 DEF Begun
  <1>5. \A i, j \in AttemptIds : i < j /\ j <= issued' => Begun(i)' <= Begun(j)'
    <2> TAKE i, j \in AttemptIds
    <2> HAVE i < j /\ j <= issued'
    <2>1. CASE j = new
      <3>1. i # new /\ Begun(i)' = Begun(i) /\ Begun(i) <= now
            BY <1>4, <2>1, LogFacts
      <3> QED BY <1>4, <2>1, <3>1
    <2>2. CASE j # new
      <3>1. i # new /\ j <= issued
            BY <1>0, <1>1, <2>2, LogFacts
      <3> QED BY <1>4, <2>2, <3>1 DEF LogsAreTrue
    <2> QED BY <2>1, <2>2
  <1>6. ASSUME NEW d \in Targets, d # c PROVE \E f : Lists(f, d)'
    <2>1. PICK f : Lists(f, d)
          BY DEF LogsAreTrue
    <2>2. starts'[d] = starts[d]
          BY <1>6 DEF BeginAttempt, TypeInv
    <2>3. \A i \in Own(d) : Begun(i)' = Begun(i)
          BY <1>3, <1>4, LogFacts
    <2>4. \A a \in 1 .. Len(starts[d]) : f[a] \in Own(d)
          BY <2>1 DEF Lists
    <2> QED BY <1>1, <1>3, <1>6, <2>1, <2>2, <2>3, <2>4 DEF Lists
  <1>7. \E f : Lists(f, c)'
    <2> DEFINE log == starts[c]
               n == Len(log)
               log2 == starts'[c]
               m == Len(log2)
    <2>1. log2 = RecordAttemptStart(log, now) /\ log \in Seq(Nat) /\ now \in Nat /\ n \in Nat
          BY LogFacts DEF BeginAttempt, TypeInv
    <2>2. PICK kept \in 1 .. n + 1 :
             /\ m = n + 2 - kept
             /\ m <= MaxStarts
             /\ \A a \in 1 .. m : log2[a] = IF kept + a - 1 = n + 1 THEN now
                                            ELSE log[kept + a - 1]
             /\ m = MaxStarts \/ \A i \in 1 .. kept - 1 : log[i] < now - StartWindow
      <3>1. \E k \in 1 .. n + 1 :
               /\ Len(RecordAttemptStart(log, now)) = n + 2 - k
               /\ Len(RecordAttemptStart(log, now)) <= MaxStarts
               /\ \A a \in 1 .. Len(RecordAttemptStart(log, now)) :
                    RecordAttemptStart(log, now)[a] = IF k + a - 1 = n + 1 THEN now
                                                      ELSE log[k + a - 1]
               /\ \/ Len(RecordAttemptStart(log, now)) = MaxStarts
                  \/ \A i \in 1 .. k - 1 : log[i] < now - StartWindow
        <4> HIDE DEF log
        <4> QED BY <2>1, RecordAttemptStartDropsAPrefix
      <3> HIDE DEF log
      <3> QED BY <2>1, <3>1
    <2>3. PICK f : Lists(f, c)
          BY DEF LogsAreTrue
    <2>4. /\ f \in [1 .. n -> Own(c)]
          /\ \A a, b \in 1 .. n : a < b => f[a] < f[b]
          /\ \A a \in 1 .. n : log[a] = Begun(f[a])
          /\ \A i \in Own(c) : \/ \E a \in 1 .. n : f[a] = i
                               \/ /\ \A a \in 1 .. n : i < f[a]
                                  /\ n = MaxStarts \/ Begun(i) < now - StartWindow
          BY <2>3 DEF Lists
    <2>5. m \in Nat /\ n <= MaxStarts /\ kept \in Nat
          BY <2>1, <2>2, LogFacts
    <2> HIDE DEF log, n, log2, m
    <2>0. PICK g : g = [a \in 1 .. m |-> IF kept + a - 1 = n + 1 THEN new
                                        ELSE f[kept + a - 1]]
          OBVIOUS
    <2>6. \A a \in 1 .. m : /\ kept + a - 1 \in 1 .. n + 1
                            /\ kept + a - 1 # n + 1 => kept + a - 1 \in 1 .. n
          BY <2>1, <2>2, <2>5
    <2>7. \A a \in 1 .. n : /\ f[a] \in Own(c) /\ f[a] \in AttemptIds /\ f[a] \in Nat
                            /\ f[a] < new /\ f[a] # new
          BY <1>0, <2>4, LogFacts
    <2>8. g \in [1 .. m -> Own(c)']
          BY <1>3, <2>0, <2>6, <2>7
    <2>9. \A a \in 1 .. m : g[a] = IF kept + a - 1 = n + 1 THEN new ELSE f[kept + a - 1]
          BY <2>0
    <2>10. ASSUME NEW a \in 1 .. m, NEW b \in 1 .. m, a < b PROVE g[a] < g[b]
      <3>1. kept + a - 1 \in 1 .. n /\ g[a] = f[kept + a - 1]
            BY <2>1, <2>2, <2>5, <2>6, <2>9, <2>10
      <3>2. CASE kept + b - 1 = n + 1
            BY <2>7, <2>9, <3>1, <3>2
      <3>3. CASE kept + b - 1 # n + 1
        <4>1. kept + b - 1 \in 1 .. n /\ g[b] = f[kept + b - 1] /\ kept + a - 1 < kept + b - 1
              BY <2>5, <2>6, <2>9, <2>10, <3>3
        <4> QED BY <2>4, <3>1, <4>1
      <3> QED BY <3>2, <3>3
    <2>11. ASSUME NEW a \in 1 .. m PROVE log2[a] = Begun(g[a])'
      <3>1. CASE kept + a - 1 = n + 1
            BY <1>4, <2>2, <2>9, <3>1
      <3>2. CASE kept + a - 1 # n + 1
        <4>1. kept + a - 1 \in 1 .. n /\ g[a] = f[kept + a - 1]
              BY <2>6, <2>9, <3>2
        <4>2. log2[a] = Begun(f[kept + a - 1])
              BY <2>2, <2>4, <3>2, <4>1
        <4>3. Begun(f[kept + a - 1])' = Begun(f[kept + a - 1])
              BY <1>4, <2>7, <4>1
        <4> QED BY <4>1, <4>2, <4>3
      <3> QED BY <3>1, <3>2
    <2>12. ASSUME NEW i \in Own(c)'
           PROVE  \/ \E a \in 1 .. m : g[a] = i
                  \/ /\ \A a \in 1 .. m : i < g[a]
                     /\ m = MaxStarts \/ Begun(i)' < now - StartWindow
      <3>1. CASE i = new
        <4>1. m \in 1 .. m /\ kept + m - 1 = n + 1
              BY <2>1, <2>2, <2>5
        <4>2. g[m] = new
              BY <2>9, <4>1
        <4> QED BY <3>1, <4>1, <4>2
      <3>2. CASE i # new
        <4>1. i \in Own(c) /\ i \in AttemptIds /\ i \in Nat /\ i <= issued /\ i < new
              /\ Begun(i)' = Begun(i) /\ Begun(i) \in Nat
              BY <1>0, <1>3, <1>4, <3>2, LogFacts
        <4>2. CASE \E a \in kept .. n : f[a] = i
          <5>1. PICK a \in kept .. n : f[a] = i
                BY <4>2
          <5>2. /\ a - kept + 1 \in 1 .. m /\ kept + (a - kept + 1) - 1 = a /\ a # n + 1
                BY <2>1, <2>2, <2>5
          <5> QED BY <2>9, <5>1, <5>2
        <4>3. CASE \E a \in 1 .. kept - 1 : a \in 1 .. n /\ f[a] = i
          <5>1. PICK a \in 1 .. kept - 1 : a \in 1 .. n /\ f[a] = i
                BY <4>3
          <5>2. \A b \in 1 .. m : i < g[b]
            <6> TAKE b \in 1 .. m
            <6>1. CASE kept + b - 1 = n + 1
                  BY <2>9, <4>1, <6>1
            <6>2. CASE kept + b - 1 # n + 1
              <7>1. kept + b - 1 \in 1 .. n /\ a < kept + b - 1 /\ g[b] = f[kept + b - 1]
                    BY <2>5, <2>6, <2>9, <5>1, <6>2
              <7> QED BY <2>4, <5>1, <7>1
            <6> QED BY <6>1, <6>2
          <5>3. m = MaxStarts \/ Begun(i) < now - StartWindow
                BY <2>2, <2>4, <5>1
          <5> QED BY <4>1, <5>2, <5>3
        <4>4. CASE \A a \in 1 .. n : f[a] # i
          <5>1. /\ \A a \in 1 .. n : i < f[a]
                /\ n = MaxStarts \/ Begun(i) < now - StartWindow
                BY <2>4, <4>1, <4>4
          <5>2. \A b \in 1 .. m : i < g[b]
            <6> TAKE b \in 1 .. m
            <6>1. CASE kept + b - 1 = n + 1
                  BY <2>9, <4>1, <6>1
            <6>2. CASE kept + b - 1 # n + 1
                  BY <2>6, <2>9, <5>1, <6>2
            <6> QED BY <6>1, <6>2
          <5>3. m = MaxStarts \/ Begun(i) < now - StartWindow
            <6>1. CASE m # MaxStarts /\ kept > 1
              <7>1. 1 \in 1 .. kept - 1 /\ 1 \in 1 .. n
                    BY <2>1, <2>5, <6>1
              <7>2. log[1] < now - StartWindow /\ log[1] = Begun(f[1])
                    BY <2>2, <2>4, <6>1, <7>1
              <7>3. Begun(i) <= Begun(f[1]) /\ Begun(f[1]) \in Nat
                <8>1. f[1] \in AttemptIds /\ f[1] <= issued /\ i < f[1]
                      BY <2>7, <5>1, <7>1, LogFacts
                <8> QED BY <4>1, <8>1, LogFacts DEF LogsAreTrue
              <7> QED BY <2>1, <4>1, <7>2, <7>3, DurationAssumption
            <6>2. CASE m # MaxStarts /\ kept = 1
                  BY <2>1, <2>2, <2>5, <5>1, <6>2, DurationAssumption
            <6> QED BY <2>5, <6>1, <6>2
          <5> QED BY <4>1, <5>2, <5>3
        <4>5. \A a \in 1 .. n : a \in kept .. n \/ a \in 1 .. kept - 1
              BY <2>5
        <4> QED BY <4>2, <4>3, <4>4, <4>5
      <3> QED BY <3>1, <3>2
    <2>13. Lists(g, c)'
          BY <1>1, <2>8, <2>10, <2>11, <2>12 DEF Lists, log2, m
    <2> QED BY <2>13
  <1> QED BY <1>5, <1>6, <1>7 DEF LogsAreTrue

LEMMA InitLogsAreTrue == ASSUME Init PROVE LogsAreTrue
  <1>1. \A i \in AttemptIds : attempts[i] = Unused /\ issued = 0 /\ i > 0
        BY DEF Init, AttemptIds
  <1>2. \A c \in Targets : starts[c] = <<>> /\ Own(c) = {}
        BY <1>1 DEF Init, Own, Unused
  <1>3. \A i, j \in AttemptIds : i < j /\ j <= issued => Begun(i) <= Begun(j)
        BY <1>1 DEF AttemptIds
  <1> QED BY <1>2, <1>3, EmptyLogsAreTrue

LEMMA ResetLogs == ASSUME TypeInv, LogsAreTrue, Reset PROVE LogsAreTrue'
  <1>1. \A c \in Targets : Own(c)' = {} /\ starts'[c] = <<>>
        BY DEF Own, TypeInv, TypeOK, Reset
  <1>2. \A i, j \in AttemptIds : i < j /\ j <= issued' => Begun(i)' <= Begun(j)'
        BY DEF LogsAreTrue, Begun, Reset
  <1>3. ASSUME NEW c \in Targets PROVE Lists([a \in {} |-> 0], c)'
    <2>1. Len(starts'[c]) = 0 /\ 1 .. Len(starts'[c]) = {}
          BY <1>1, EmptySeq
    <2> QED BY <1>1, <2>1 DEF Lists
  <1> QED BY <1>2, <1>3 DEF LogsAreTrue

LEMMA AttemptStepLogs ==
    ASSUME TypeInv, LogsAreTrue, AttemptStep
    PROVE  LogsAreTrue'
  <1>1. now \in Nat
        BY LogFacts
  <1>2. ASSUME NEW i \in AttemptIds, NEW c \in Targets, NEW ra \in Nat, NEW q \in Nat,
               ObserveHeaders(i, c, ra, q)
        PROVE  LogsAreTrue'
        BY <1>1, <1>2, ObserveHeadersSteps, SameStartsSameLogs
  <1>3. ASSUME NEW i \in AttemptIds, NEW c \in Targets, NEW o \in Outcomes,
               CompleteAttempt(i, c, o)
        PROVE  LogsAreTrue'
    <2>1. CASE ~Accepts(i, c)
          BY <1>1, <1>3, <2>1, SameStartsSameLogs DEF CompleteAttempt
    <2>2. CASE Accepts(i, c)
      <3>1. /\ \A j \in AttemptIds :
                 /\ attempts'[j].phase = IF j = i THEN "completed" ELSE attempts[j].phase
                 /\ attempts'[j].target = attempts[j].target
                 /\ attempts'[j].generation = attempts[j].generation
                 /\ attempts'[j].startedAt = attempts[j].startedAt
            /\ UNCHANGED <<now, issued, starts, generation>>
            BY <1>3, <2>2, CompleteAttemptSteps
      <3>2. attempts[i].phase # "unused"
            BY <2>2 DEF Accepts
      <3> QED BY <1>1, <3>1, <3>2, SameStartsSameLogs
    <2> QED BY <2>1, <2>2
  <1> QED BY <1>2, <1>3, StatementsAreNaturals, BeginAttemptLogs DEF AttemptStep

LEMMA NextLogs == ASSUME TypeInv, LogsAreTrue, [Next]_vars PROVE LogsAreTrue'
  <1>1. now \in Nat
        BY LogFacts
  <1>2. CASE CellStep \/ UNCHANGED vars
        BY <1>1, <1>2, CellStepLeavesTheRest, SameStartsSameLogs DEF vars
  <1>3. CASE Tick
        BY <1>1, <1>3, SameStartsSameLogs DEF Tick
  <1> QED BY <1>2, <1>3, AttemptStepLogs, ResetLogs DEF Next

\* A list that is true counts what was begun.
LEMMA TrueLogsCount == ASSUME TypeInv, LogsAreTrue PROVE WindowCountIsHonest
  <1> SUFFICES ASSUME NEW c \in Targets, NEW window \in 1 .. StartWindow
               PROVE  IF Saturated(starts[c], window, now)
                      THEN Requests(starts[c], window, now) <= Cardinality(BegunIn(c, window))
                      ELSE Requests(starts[c], window, now) = Cardinality(BegunIn(c, window))
      BY DEF WindowCountIsHonest
  <1> DEFINE log == starts[c]
             n == Len(log)
             counted == CountedStarts(log, window, now)
             begun == BegunIn(c, window)
  <1>1. PICK f : Lists(f, c)
        BY DEF LogsAreTrue
  <1>2. /\ f \in [1 .. n -> Own(c)]
        /\ \A a, b \in 1 .. n : a < b => f[a] < f[b]
        /\ \A a \in 1 .. n : log[a] = Begun(f[a])
        /\ \A i \in Own(c) :
             \/ \E a \in 1 .. n : f[a] = i
             \/ /\ \A a \in 1 .. n : i < f[a]
                /\ n = MaxStarts \/ Begun(i) < now - StartWindow
        BY <1>1 DEF Lists
  <1>3. /\ now \in Nat /\ n \in Nat /\ n <= MaxStarts
        /\ window \in Nat /\ window <= StartWindow /\ StartWindow \in Nat
        BY LogFacts, DurationAssumption
  <1>4. \A i \in Own(c) : /\ i \in AttemptIds /\ i \in Nat /\ i <= issued
                          /\ Begun(i) \in Nat /\ Begun(i) <= now
        BY LogFacts
  <1>5. begun = {i \in Own(c) : Begun(i) > now - window}
        BY DEF BegunIn, Own, Begun
  <1> HIDE DEF log, n, begun
  <1>6. \A a \in 1 .. n : f[a] \in Own(c)
        BY <1>2
  <1>7. \A a, b \in 1 .. n : a <= b => log[a] <= log[b]
    <2> TAKE a, b \in 1 .. n
    <2> HAVE a <= b
    <2>1. CASE a = b
          BY <2>1, <1>2, <1>4, <1>6
    <2>2. CASE a < b
          BY <2>2, <1>2, <1>4, <1>6 DEF LogsAreTrue
    <2> QED BY <2>1, <2>2
  <1>8. \A a \in 1 .. n : a \in counted <=> log[a] > now - window
    <2>1. \A a \in 1 .. n : log[a] \in Nat /\ log[a] <= now
          BY <1>2, <1>4, <1>6
    <2>2. \A a \in 1 .. n : log[a] > now - window =>
            \A b \in a .. n : log[b] > now - window
          BY <1>3, <1>7, <2>1
    <2>3. \A a \in 1 .. n : a \in a .. n
          BY <1>3
    <2> QED BY <2>1, <2>2, <2>3 DEF CountedStarts, n
  <1>9. counted \in SUBSET (1 .. n)
        BY DEF CountedStarts, n
  <1> HIDE DEF counted
  <1>10. IsFiniteSet(counted) /\ IsFiniteSet(begun)
    <2>1. IsFiniteSet(1 .. n) /\ IsFiniteSet(AttemptIds)
          BY <1>3, FS_Interval, BoundAssumption DEF AttemptIds
    <2>2. begun \in SUBSET AttemptIds
          BY <1>4, <1>5
    <2> QED BY <1>9, <2>1, <2>2, FS_Subset
  <1> DEFINE g == [a \in counted |-> f[a]]
  <1>11. g \in Injection(counted, begun)
    <2>1. \A a \in counted : f[a] \in begun
          BY <1>2, <1>5, <1>6, <1>8, <1>9
    <2>2. \A a, b \in counted : f[a] = f[b] => a = b
      <3>1. \A a, b \in 1 .. n : f[a] = f[b] => ~(a < b) /\ ~(b < a)
            BY <1>2, <1>4, <1>6
      <3> QED BY <1>9, <3>1
    <2> QED BY <2>1, <2>2 DEF Injection, IsInjective
  <1>12. /\ Cardinality(counted) <= Cardinality(begun)
         /\ g \in Surjection(counted, begun) => Cardinality(counted) = Cardinality(begun)
    <2> HIDE DEF g
    <2> QED BY <1>10, <1>11, FS_Injection
  <1>13. Requests(log, window, now) = Cardinality(counted)
         BY DEF Requests, counted
  <1>14. CASE Saturated(log, window, now)
         BY <1>12, <1>13, <1>14 DEF log, begun
  <1>15. CASE ~Saturated(log, window, now)
    <2>1. \A i \in begun : \E a \in counted : g[a] = i
      <3> TAKE i \in begun
      <3>1. i \in Own(c) /\ Begun(i) > now - window
            BY <1>5
      <3>2. CASE \E a \in 1 .. n : f[a] = i
            BY <1>2, <1>8, <3>1, <3>2
      <3>3. CASE ~\E a \in 1 .. n : f[a] = i
        <4>1. /\ \A a \in 1 .. n : i < f[a]
              /\ n = MaxStarts
              BY <1>2, <1>3, <1>4, <3>1, <3>3
        <4>2. \A a \in 1 .. n : log[a] > now - window
          <5> TAKE a \in 1 .. n
          <5>1. Begun(i) <= Begun(f[a]) /\ Begun(f[a]) \in Nat /\ Begun(i) \in Nat
                BY <1>4, <1>6, <3>1, <4>1 DEF LogsAreTrue
          <5> QED BY <1>2, <1>3, <3>1, <5>1
        <4>3. counted = 1 .. n
              BY <1>8, <1>9, <4>2
        <4>4. Cardinality(counted) = n
              BY <1>3, <4>3, FS_Interval
        <4> QED BY <1>13, <1>15, <4>1, <4>4, <1>3 DEF Saturated, n
      <3> QED BY <3>2, <3>3
    <2>2. g \in Surjection(counted, begun)
          BY <1>11, <2>1 DEF Injection, Surjection
    <2> QED BY <1>12, <1>13, <1>15, <2>2 DEF log, begun
  <1> QED BY <1>14, <1>15 DEF log, begun

\* What pacing holds against a limit is what was begun, for any window, any cap on
\* the log and any number of attempts, and so are the leases.
THEOREM CountsAreExact == Spec => []CountsAreHonest
  <1>1. Init => TypeInv /\ LogsAreTrue
        BY InitIsTyped, InitLogsAreTrue
  <1>2. TypeInv /\ LogsAreTrue /\ [Next]_vars => (TypeInv /\ LogsAreTrue)'
        BY NextIsTyped, NextLogs
  <1>3. TypeInv /\ LogsAreTrue => WindowCountIsHonest
        BY TrueLogsCount
  <1>4. Spec => []WindowCountIsHonest
        BY <1>1, <1>2, <1>3, PTL DEF Spec
  <1> QED BY <1>4, LeasesAreExact, PTL DEF CountsAreHonest

-----------------------------------------------------------------------------
(***************************************************************************)
(* The breaker with its file.  A step that tells the listener nothing      *)
(* changes at most the quota readings, which no restart needs.             *)
(***************************************************************************)
PersistInv == /\ TypeInv
              /\ CellsAreHonest
              /\ file \in [Store -> [Targets -> CellStates]]
              /\ \A c \in Targets : CellIsHonest(file["breaker"][c])
              /\ dirtySince \in [Store -> Times \cup {Timer!Never}]
              /\ fireAt \in [Store -> Int]
              /\ lastWrite \in [Store -> {"done", "failed"}]
              /\ restarts \in 0 .. MaxRestarts

LEMMA SilentOutcomesKeepCooldowns ==
    ASSUME NEW c, cells[c] \in CellStates, NEW elapsed \in Nat, NEW after,
           Outcome(c, elapsed, after), after.notice = "silent"
    PROVE  [after.cell EXCEPT !.quota = NoQuota] = [cells[c] EXCEPT !.quota = NoQuota]
  <1>1. PICK q \in Nat : after.cell = WithQuota(cells[c], q)
        BY DEF Outcome
  <1> QED BY <1>1 DEF WithQuota, CellStates

\* What the listener is not told of needs no writing.
LEMMA SilentStepsKeepCooldowns ==
    ASSUME TypeInv, AttemptStep \/ CellStep, notice' # "changed"
    PROVE  Cooldowns(cells') = Cooldowns(cells)
  <1>1. \A c \in Targets : cells[c] \in CellStates
        BY DEF TypeInv, TypeOK
  <1>2. ASSUME NEW i \in AttemptIds, NEW c \in Targets, NEW o \in Outcomes,
               CompleteAttempt(i, c, o)
        PROVE  Cooldowns(cells') = Cooldowns(cells)
    <2>1. CASE ~Accepts(i, c)
          BY <1>2, <2>1 DEF CompleteAttempt
    <2>2. CASE Accepts(i, c)
      <3>1. PICK after : /\ Outcome(c, now - attempts[i].startedAt, after)
                         /\ cells' = [cells EXCEPT ![c] = after.cell]
                         /\ notice' = after.notice
            BY <1>2, <2>2, CompleteAttemptSteps
      <3>2. now \in Nat /\ now - attempts[i].startedAt \in Nat
            BY HandleFacts
      <3>3. after.notice = "silent"
            BY <1>1, <3>1, <3>2, OutcomeIsACell
      <3>4. [after.cell EXCEPT !.quota = NoQuota] = [cells[c] EXCEPT !.quota = NoQuota]
            BY <1>1, <3>1, <3>2, <3>3, SilentOutcomesKeepCooldowns
      <3>5. \A d \in Targets : cells'[d] = IF d = c THEN after.cell ELSE cells[d]
            BY <3>1 DEF TypeInv, TypeOK
      <3> QED BY <3>4, <3>5 DEF Cooldowns
    <2> QED BY <2>1, <2>2
  <1>3. CASE \E c \in Targets : BeginAttempt(c)
        BY <1>3 DEF BeginAttempt
  <1>4. CASE \E i \in AttemptIds, c \in Targets, ra \in RetryAfters \cup {NoFigure},
                q \in QuotaStatements : ObserveHeaders(i, c, ra, q)
        BY <1>4 DEF ObserveHeaders
  <1>5. CASE CellStep
    <2>1. ~(\E c \in Targets : EndRateLimitCooldown(c) \/ RecordQuotaCooldown(c))
          BY DEF EndRateLimitCooldown, RecordQuotaCooldown
    <2>2. \A after : ChangeCells(after) => cells' = cells
          BY DEF ChangeCells
    <2> QED BY <1>5, <2>1, <2>2
            DEF CellStep, ClearCredentialFaults, ClearCredentialFaultState, ClearCooldownState
  <1> QED BY <1>2, <1>3, <1>4, <1>5 DEF AttemptStep

LEMMA PersistInitHolds == PersistInit => PersistInv /\ CleanMeansSaved
  <1> SUFFICES ASSUME PersistInit PROVE PersistInv /\ CleanMeansSaved
      OBVIOUS
  <1>1. TypeInv /\ CellsAreHonest
        BY InitIsTyped, InitIsHonest DEF PersistInit
  <1>2. file \in [Store -> [Targets -> CellStates]] /\ file["breaker"] = cells
        BY <1>1 DEF PersistInit, Rows, Store, TypeInv, TypeOK
  <1> QED BY <1>1, <1>2, PersistAssumption
          DEF PersistInit, PersistInv, CleanMeansSaved, CellsAreHonest, Rows, Timer!Never

\* A process that starts is typed and honest if its file is.
LEMMA NewProcessIsGood ==
    ASSUME TypeInv, NewProcess, file' \in [Store -> [Targets -> CellStates]],
           \A c \in Targets : CellIsHonest(file'["breaker"][c]), restarts \in 0 .. MaxRestarts
    PROVE  PersistInv' /\ CleanMeansSaved'
  <1>1. \A c \in Targets : cells'[c] = file'["breaker"][c]
        BY DEF NewProcess, Restored
  <1>2. /\ cells' \in [Targets -> CellStates]
        /\ file'["breaker"] \in [Targets -> CellStates]
        BY DEF NewProcess, Restored, Store
  <1>3. Unused \in AttemptStates /\ Unused.phase = "unused"
        /\ Unused.generation = 0 /\ Unused.startedAt = 0
        BY DEF Unused, AttemptStates
  <1>4. /\ attempts' = [i \in AttemptIds |-> Unused] /\ issued' = 0 /\ generation' = 1
        /\ now' = now /\ notice' = "silent"
        BY DEF NewProcess
  <1>5. \A i \in AttemptIds : i > issued'
        BY <1>4 DEF AttemptIds
  <1>6. now \in Nat /\ now \in Times
        BY BoundAssumption DEF TypeInv, TypeOK, Times
  <1>7. \A c \in Targets : starts'[c] \in Seq(Nat) /\ Len(starts'[c]) <= MaxStarts
        BY EmptySeq, DurationAssumption DEF NewProcess
  <1>8. starts' \in [Targets -> Seq(Nat)] /\ inFlight' \in [Credentials -> Nat]
        BY <1>7 DEF NewProcess
  <1>9. TypeInv'
        BY <1>2, <1>3, <1>4, <1>5, <1>6, <1>7, <1>8, BoundAssumption DEF TypeInv, TypeOK
  <1>10. CellsAreHonest'
         BY <1>1 DEF CellsAreHonest
  <1>11. Cooldowns(file'["breaker"]) = Cooldowns(cells')
         BY <1>1 DEF Cooldowns
  <1>12. /\ dirtySince' \in [Store -> Times \cup {Timer!Never}]
         /\ fireAt' \in [Store -> Int] /\ lastWrite' \in [Store -> {"done", "failed"}]
         /\ restarts' \in 0 .. MaxRestarts
         BY PersistAssumption DEF NewProcess, Timer!Never
  <1> QED BY <1>9, <1>10, <1>11, <1>12 DEF PersistInv, CleanMeansSaved, Rows

LEMMA BreakerStepPersists ==
    ASSUME PersistInv, CleanMeansSaved, BreakerStep
    PROVE  PersistInv' /\ CleanMeansSaved'
  <1>1. TypeInv' /\ CellsAreHonest' /\ now \in Times /\ now \in Int
        BY AttemptStepIsTyped, CellStepIsTyped, AttemptStepIsHonest, CellStepIsHonest,
           BoundAssumption DEF BreakerStep, PersistInv, TypeInv, TypeOK, Times
  <1>2. /\ UNCHANGED <<file, lastWrite, restarts>>
        /\ AttemptStep \/ CellStep
        /\ Listen
        BY DEF BreakerStep
  <1>3. CASE notice' # "changed"
    <2>1. Cooldowns(cells') = Cooldowns(cells)
          BY <1>2, <1>3, SilentStepsKeepCooldowns DEF PersistInv
    <2>2. UNCHANGED <<dirtySince, fireAt>>
          BY <1>2, <1>3 DEF Listen
    <2>3. CleanMeansSaved'
          BY <1>2, <2>1, <2>2 DEF CleanMeansSaved, Rows, Timer!Dirty
    <2> QED BY <1>1, <1>2, <2>2, <2>3 DEF PersistInv
  <1>4. CASE notice' = "changed"
    <2> DEFINE since == IF Timer!Dirty("breaker") THEN dirtySince["breaker"] ELSE now
    <2>1. /\ dirtySince' = [dirtySince EXCEPT !["breaker"] = since]
          /\ fireAt' = [fireAt EXCEPT !["breaker"] = now + Timer!Delay(since)]
          BY <1>2, <1>4 DEF Listen, Timer!Touch
    <2>2. since \in Times /\ since # Timer!Never
          BY <1>1 DEF PersistInv, Store, Timer!Dirty, Timer!Never, Times
    <2>3. dirtySince' \in [Store -> Times \cup {Timer!Never}] /\ dirtySince'["breaker"] # Timer!Never
          BY <2>1, <2>2 DEF PersistInv, Store
    <2>4. now + Timer!Delay(since) \in Int
          BY <1>1, <2>2, PersistAssumption DEF Timer!Delay, Times
    <2>5. fireAt' \in [Store -> Int]
          BY <2>1, <2>4 DEF PersistInv, Store
    <2>6. CleanMeansSaved'
          BY <2>3 DEF CleanMeansSaved, Timer!Dirty
    <2> QED BY <1>1, <1>2, <2>3, <2>5, <2>6 DEF PersistInv
  <1> QED BY <1>3, <1>4

LEMMA FirePersists ==
    ASSUME PersistInv, CleanMeansSaved, Fire
    PROVE  PersistInv' /\ CleanMeansSaved'
  <1>1. /\ UNCHANGED <<now, cells, attempts, issued, inFlight, starts, generation, restarts>>
        /\ notice' = "silent"
        /\ dirtySince' = [dirtySince EXCEPT !["breaker"] = Timer!Never]
        /\ fireAt' = [fireAt EXCEPT !["breaker"] = Timer!Never]
        BY DEF Fire, Timer!Fire, Timer!Flush
  <1>2. \/ /\ file' = [file EXCEPT !["breaker"] = cells]
           /\ lastWrite' = [lastWrite EXCEPT !["breaker"] = "done"]
        \/ /\ lastWrite' = [lastWrite EXCEPT !["breaker"] = "failed"]
           /\ UNCHANGED file
        BY DEF Fire, Timer!Fire, Timer!Flush, Timer!Write, Store, Rows
  <1>3. TypeInv' /\ CellsAreHonest'
        BY <1>1 DEF PersistInv, TypeInv, TypeOK, CellsAreHonest
  <1>4. /\ dirtySince' \in [Store -> Times \cup {Timer!Never}]
        /\ fireAt' \in [Store -> Int]
        /\ lastWrite' \in [Store -> {"done", "failed"}]
        BY <1>1, <1>2 DEF PersistInv, Store, Timer!Never
  <1>5. CASE /\ file' = [file EXCEPT !["breaker"] = cells]
             /\ lastWrite' = [lastWrite EXCEPT !["breaker"] = "done"]
    <2>1. file'["breaker"] = cells /\ file' \in [Store -> [Targets -> CellStates]]
          BY <1>5 DEF PersistInv, TypeInv, TypeOK, Store
    <2> QED BY <1>1, <1>3, <1>4, <2>1
            DEF PersistInv, CellsAreHonest, CleanMeansSaved, Rows
  <1>6. CASE /\ lastWrite' = [lastWrite EXCEPT !["breaker"] = "failed"]
             /\ UNCHANGED file
    <2>1. lastWrite'["breaker"] = "failed"
          BY <1>6 DEF PersistInv, Store
    <2> QED BY <1>1, <1>3, <1>4, <1>6, <2>1 DEF PersistInv, CleanMeansSaved
  <1> QED BY <1>2, <1>5, <1>6

LEMMA RestartPersists ==
    ASSUME PersistInv, CleanMeansSaved, Shutdown \/ Crash
    PROVE  PersistInv' /\ CleanMeansSaved'
  <1>1. NewProcess /\ (file' = file \/ file' = [s \in Store |-> Rows])
        BY DEF Shutdown, Crash
  <1>2. /\ file' \in [Store -> [Targets -> CellStates]]
        /\ \A c \in Targets : CellIsHonest(file'["breaker"][c])
        BY <1>1 DEF PersistInv, TypeInv, TypeOK, Rows, Store, CellsAreHonest
  <1> QED BY <1>1, <1>2, NewProcessIsGood DEF PersistInv

LEMMA PersistNextPersists ==
    ASSUME PersistInv, CleanMeansSaved, [PersistNext]_allVars
    PROVE  PersistInv' /\ CleanMeansSaved'
  <1>1. CASE PersistTick
    <2>1. TypeInv'
          BY <1>1, TickIsTyped DEF PersistTick, PersistInv
    <2> QED BY <1>1, <2>1 DEF PersistTick, Tick, persistVars, PersistInv, CellsAreHonest,
                              CleanMeansSaved, Rows, Timer!Dirty
  <1>2. CASE UNCHANGED allVars
    <2>1. TypeInv'
          BY <1>2 DEF allVars, vars, PersistInv, TypeInv, TypeOK
    <2> QED BY <1>2, <2>1 DEF allVars, vars, persistVars, PersistInv, CellsAreHonest,
                              CleanMeansSaved, Rows, Timer!Dirty
  <1> QED BY <1>1, <1>2, BreakerStepPersists, FirePersists, RestartPersists DEF PersistNext

\* The inductive invariant holds of every behaviour of the breaker and its file.
THEOREM FileKeepsItsInvariant == PersistSpec => [](PersistInv /\ CleanMeansSaved)
    BY PersistInitHolds, PersistNextPersists, PTL DEF PersistSpec

\* Across restarts and crashes, every variable keeps its type.
THEOREM PersistTypesHold == PersistSpec => []PersistTypeOK
  <1>1. PersistInv => PersistTypeOK
        BY DEF PersistInv, PersistTypeOK, TypeInv
  <1> QED BY <1>1, FileKeepsItsInvariant, PTL

\* A file whose timer is clean holds what the breaker knows, whatever the delays,
\* and whichever writes fail.
THEOREM CleanFilesAreCurrent == PersistSpec => []CleanMeansSaved
    BY FileKeepsItsInvariant, PTL

\* A restart does not make a cooldown one that a probe may end.
THEOREM ProbesStaySoundAcrossRestarts == PersistSpec => []ProbesEndOnlyWhatTheyDisprove
  <1>1. PersistInv => ProbesEndOnlyWhatTheyDisprove
        BY HonestCellsSuffice DEF PersistInv
  <1> QED BY <1>1, FileKeepsItsInvariant, PTL

-----------------------------------------------------------------------------
(***************************************************************************)
(* The breaker with its file implements a write-behind store: the mapping  *)
(* forgets the quota readings, and every step is a step of the store or    *)
(* changes nothing it knows of.                                            *)
(***************************************************************************)
LEMMA SavedInit == PersistInit => Saved!Init
  <1> SUFFICES ASSUME PersistInit PROVE Saved!Init
      OBVIOUS
  <1>1. /\ now = 0 /\ cells = [c \in Targets |-> Fresh]
        /\ file = [s \in Store |-> cells]
        /\ dirtySince = [s \in Store |-> Timer!Never]
        /\ fireAt = [s \in Store |-> Timer!Never]
        /\ lastWrite = [s \in Store |-> "done"]
        BY DEF PersistInit, Init, Rows
  <1>2. [s \in Store |-> Cooldowns(Rows)] = [s \in Store |-> Cooldowns([c \in Targets |-> Fresh])]
        BY <1>1 DEF Rows
  <1>3. [s \in Store |-> Cooldowns(file[s])]
          = [s \in Store |-> Cooldowns([c \in Targets |-> Fresh])]
        BY <1>1
  <1> QED BY <1>1, <1>2, <1>3 DEF Saved!Init, Saved!Never, Timer!Never

\* A change the listener hears of is a change of the store.
LEMMA SavedBreakerStep ==
    ASSUME PersistInv, PersistInv', BreakerStep
    PROVE  [Saved!Next]_Saved!vars
  <1>1. /\ UNCHANGED <<now, file, lastWrite>>
        /\ AttemptStep \/ CellStep
        /\ Listen
    <2>1. AttemptStep => UNCHANGED now
          BY DEF AttemptStep, BeginAttempt, ObserveHeaders, CompleteAttempt
    <2> QED BY <2>1, CellStepLeavesTheRest DEF BreakerStep
  <1>2. CASE notice' # "changed"
    <2>1. Cooldowns(cells') = Cooldowns(cells)
          BY <1>1, <1>2, SilentStepsKeepCooldowns DEF PersistInv
    <2>2. UNCHANGED <<dirtySince, fireAt>>
          BY <1>1, <1>2 DEF Listen
    <2>3. UNCHANGED Saved!vars
          BY <1>1, <2>1, <2>2 DEF Saved!vars, Rows
    <2> QED BY <2>3
  <1>3. CASE notice' = "changed"
    <2>1. Timer!Touch("breaker")
          BY <1>1, <1>3 DEF Listen
    <2>2. Saved!Touch("breaker")
          BY <2>1 DEF Timer!Touch, Timer!Dirty, Timer!Delay, Timer!Never,
                      Saved!Touch, Saved!Dirty, Saved!Delay, Saved!Never
    <2>3. Cooldowns(cells') \in {Cooldowns(rows) : rows \in [Targets -> CellStates]}
          BY DEF PersistInv, TypeInv, TypeOK
    <2>4. [s \in Store |-> Cooldowns(Rows)]'
            = [[s \in Store |-> Cooldowns(Rows)] EXCEPT !["breaker"] = Cooldowns(cells')]
          BY DEF Store, Rows
    <2>5. UNCHANGED [s \in Store |-> Cooldowns(file[s])]
          BY <1>1
    <2>6. Saved!Change("breaker", Cooldowns(cells'))
          BY <1>1, <2>2, <2>4, <2>5 DEF Saved!Change
    <2> QED BY <2>3, <2>6 DEF Saved!Next, Store
  <1> QED BY <1>2, <1>3

\* The timer of the breaker fires as the timer of the store.
LEMMA SavedFire == ASSUME PersistInv, Fire PROVE Saved!Next
  <1>1. /\ dirtySince["breaker"] # Timer!Never /\ now >= fireAt["breaker"]
        /\ dirtySince' = [dirtySince EXCEPT !["breaker"] = Timer!Never]
        /\ fireAt' = [fireAt EXCEPT !["breaker"] = Timer!Never]
        /\ UNCHANGED <<now, cells>>
        BY DEF Fire, Timer!Fire, Timer!Flush, Timer!Dirty
  <1>2. \/ /\ file' = [file EXCEPT !["breaker"] = cells]
           /\ lastWrite' = [lastWrite EXCEPT !["breaker"] = "done"]
        \/ /\ WritesMayFail
           /\ lastWrite' = [lastWrite EXCEPT !["breaker"] = "failed"]
           /\ UNCHANGED file
        BY DEF Fire, Timer!Fire, Timer!Flush, Timer!Write, Store, Rows
  <1>3. UNCHANGED [s \in Store |-> Cooldowns(Rows)]
        BY <1>1 DEF Rows
  <1>4. file' = [file EXCEPT !["breaker"] = cells]
          => [s \in Store |-> Cooldowns(file[s])]'
               = [[s \in Store |-> Cooldowns(file[s])] EXCEPT !["breaker"] =
                    [s \in Store |-> Cooldowns(Rows)]["breaker"]]
        BY DEF Store, Rows, PersistInv
  <1>5. Saved!Write("breaker")
        BY <1>2, <1>4 DEF Saved!Write
  <1>6. Saved!Fire("breaker")
        BY <1>1, <1>3, <1>5 DEF Saved!Fire, Saved!Flush, Saved!Dirty, Saved!Never, Timer!Never
  <1> QED BY <1>6 DEF Saved!Next, Store

\* A restart restores the store, after writing it or not.
LEMMA SavedRestart == ASSUME PersistInv, Shutdown \/ Crash PROVE Saved!Next
  <1>1. NewProcess
        BY DEF Shutdown, Crash
  <1>2. /\ \A c \in Targets : cells'[c] = file'["breaker"][c]
        /\ now' = now
        /\ dirtySince' = [s \in Store |-> Timer!Never]
        /\ fireAt' = [s \in Store |-> Timer!Never]
        /\ lastWrite' = [s \in Store |-> "done"]
        BY <1>1 DEF NewProcess, Restored
  <1>3. Cooldowns(cells') = Cooldowns(file'["breaker"])
        BY <1>2 DEF Cooldowns
  <1>4. [s \in Store |-> Cooldowns(Rows)]' = [s \in Store |-> Cooldowns(file[s])]'
        BY <1>3 DEF Rows, Store
  <1>5. Saved!Restore
        BY <1>2, <1>4 DEF Saved!Restore, Saved!Never, Timer!Never
  <1>6. CASE Crash
    <2>1. UNCHANGED [s \in Store |-> Cooldowns(file[s])]
          BY <1>6 DEF Crash
    <2>2. Saved!Crash
          BY <1>2, <1>5, <2>1 DEF Saved!Crash
    <2> QED BY <2>2 DEF Saved!Next
  <1>7. CASE Shutdown
    <2>1. file' = IF dirtySince["breaker"] # Timer!Never THEN [s \in Store |-> cells] ELSE file
          BY <1>7 DEF Shutdown, Timer!Dirty, Rows
    <2>2. [s \in Store |-> Cooldowns(file[s])]'
            = [s \in Store |-> IF Saved!Dirty(s) /\ s \notin {}
                               THEN [z \in Store |-> Cooldowns(Rows)][s]
                               ELSE [z \in Store |-> Cooldowns(file[z])][s]]
          BY <2>1 DEF Saved!Dirty, Saved!Never, Timer!Never, Store, Rows
    <2>3. {} \in SUBSET {s \in Store : Saved!Dirty(s) /\ WritesMayFail}
          OBVIOUS
    <2>4. Saved!Shutdown
          BY <1>2, <1>5, <2>2, <2>3, Zenon DEF Saved!Shutdown
    <2> QED BY <2>4 DEF Saved!Next
  <1> QED BY <1>6, <1>7

LEMMA SavedTick == ASSUME PersistInv, PersistTick PROVE Saved!Next
  <1>1. UNCHANGED <<cells, file, dirtySince, fireAt, lastWrite>>
        BY DEF PersistTick, Tick, persistVars
  <1>2. now < MaxTime /\ now' = now + 1
        BY DEF PersistTick, Tick
  <1>3. \A s \in Store : Saved!Dirty(s) => now < fireAt[s]
        BY DEF PersistTick, Store, Saved!Dirty, Timer!Dirty, Saved!Never, Timer!Never
  <1>4. Saved!Tick
        BY <1>1, <1>2, <1>3 DEF Saved!Tick, Rows
  <1> QED BY <1>4 DEF Saved!Next

\* The breaker's persistence implements the write-behind store of
\* src/write-behind.ts, so what is proved of that store holds of the cooldowns.
THEOREM CooldownsAreWrittenBehind == PersistSpec => Saved!Spec
  <1>1. PersistInit => Saved!Init
        BY SavedInit
  <1>2. PersistInv /\ PersistInv' /\ [PersistNext]_allVars => [Saved!Next]_Saved!vars
    <2>1. CASE UNCHANGED allVars
      <3>1. UNCHANGED Saved!vars
            BY <2>1 DEF allVars, vars, persistVars, Saved!vars, Rows
      <3> QED BY <3>1
    <2> QED BY <2>1, SavedBreakerStep, SavedFire, SavedRestart, SavedTick DEF PersistNext
  <1>3. PersistSpec => []PersistInv
        BY FileKeepsItsInvariant, PTL
  <1> QED BY <1>1, <1>2, <1>3, PTL DEF PersistSpec, Saved!Spec
=============================================================================
