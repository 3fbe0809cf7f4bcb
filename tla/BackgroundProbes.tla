--------------------------- MODULE BackgroundProbes --------------------------
(***************************************************************************)
(* The loop that probes providers while nobody asks (PingLoop of           *)
(* ping/cadence.ts), with the ticks a status request runs beside it.  A    *)
(* tick adjusts the pace, asks for the spend providers state, probes again *)
(* what cools on a guess of the breaker's, and then what is due.           *)
(*                                                                         *)
(* Moments are ages: elapsed is how long ago a tick read the clock, and    *)
(* what it stamps with that reading is that old.                           *)
(***************************************************************************)
EXTENDS ProbeEvidence

CONSTANTS
    Cells,            \* [deployment, credential]: what the breaker cools, in this model of one provider
    Probeable,        \* the cells of a provider that can be probed, with a credential that has a key and may
    Credentials,      \* the provider's credentials in order: [name, enabled, key, serves]
    Routable,         \* the deployments routing can select; a status request probes all that are listed
    SpeedTicks, IdleTicks, SpendTicks, ReprobeTicks,
    ProbeTimeout,     \* how long a probe may take
    MaxReprobes, MaxDue,
    MaxProbes         \* bound on the probes and calls that leave evidence

VARIABLES
    mode, speedLeft,  \* the pace and what is left of the fast one, -1 when it is not limited
    idleFor, resumeSpeedOnActivity,
    running, timer,   \* "armed" or "none"
    tick,             \* the loop's and the status request's: [stage, elapsed, todo, spent, asking, cursor]
    credentialCursor, \* where the rotation of credentials stands
    spendPolled, reprobed,    \* credential and cell -> age of the stamp
    cooling,          \* cell -> "none", "guessed" or "stated": why the breaker holds it
    asked             \* cell -> age of the reading by which it was last probed; only observed

paceVars == <<mode, speedLeft, idleFor, resumeSpeedOnActivity>>
loopVars == <<paceVars, running, timer, tick, credentialCursor, spendPolled, reprobed, cooling, asked>>

Ticks == {"loop", "status"}
NoCell == [deployment |-> "none", credential |-> "none"]
ASSUME LoopAssumption ==
    /\ {SpeedTicks, IdleTicks, SpendTicks, ReprobeTicks, ProbeTimeout, MaxReprobes} \subseteq Nat
    /\ Probeable \subseteq Cells /\ NoCell \notin Cells /\ Routable \subseteq Deployments
    /\ Len(Credentials) \in Nat /\ DOMAIN Credentials = 1..Len(Credentials)

IdleTick == [stage |-> "idle", elapsed |-> 0, todo |-> {}, spent |-> 0, asking |-> NoCell, cursor |-> 1]
Names == {Credentials[i].name : i \in DOMAIN Credentials}
LongAgo == Max({ReprobeTicks, SpendTicks}) + ProbeTimeout
Aged(age) == IF age < LongAgo THEN age + 1 ELSE age
\* What was stamped that long ago is due for a tick that read the clock so long ago.
Since(stamp, t) == stamp - tick[t].elapsed

-----------------------------------------------------------------------------
(* The pace. *)

SetPingMode(m, source) ==
    /\ mode' = m
    /\ speedLeft' = IF m = "speed" THEN SpeedTicks ELSE -1
    /\ resumeSpeedOnActivity' = (source = "idle")
    /\ timer' = "none"

NoteUserActivity ==
    /\ idleFor' = 0
    /\ \/ (resumeSpeedOnActivity \/ mode = "slow") /\ SetPingMode("speed", "activity")
       \/ ~(resumeSpeedOnActivity \/ mode = "slow") /\ UNCHANGED <<mode, speedLeft, resumeSpeedOnActivity, timer>>

\* `pending` is the timer as the tick that does this finds it.
RefreshAutoPingMode(pending) ==
    \/ speedLeft = 0 /\ SetPingMode("normal", "auto")
    \/ speedLeft # 0 /\ idleFor >= IdleTicks /\ mode # "slow" /\ SetPingMode("slow", "idle")
    \/ /\ speedLeft # 0 /\ idleFor >= IdleTicks /\ mode = "slow"
       /\ resumeSpeedOnActivity' = TRUE /\ timer' = pending /\ UNCHANGED <<mode, speedLeft>>
    \/ speedLeft # 0 /\ idleFor < IdleTicks /\ timer' = pending /\ UNCHANGED <<mode, speedLeft, resumeSpeedOnActivity>>

-----------------------------------------------------------------------------
(* A tick. *)

Quietly == UNCHANGED <<mode, speedLeft, idleFor, resumeSpeedOnActivity, running, timer>>
Set(t, record) == tick' = [tick EXCEPT ![t] = record]

BeginTick(t, pending) ==
    /\ tick[t].stage = "idle"
    /\ RefreshAutoPingMode(pending)
    /\ Set(t, [IdleTick EXCEPT !.stage = "spend", !.todo = Names])
    /\ UNCHANGED <<idleFor, credentialCursor, spendPolled, reprobed, cooling, asked, evidenceVars>>
TimerFires == timer = "armed" /\ BeginTick("loop", "none") /\ UNCHANGED running
StatusAsked == BeginTick("status", timer) /\ UNCHANGED running

\* Each enabled credential whose turn it is is asked for its spend, stamped before the answer is waited for.
Enabled(name) == \E i \in DOMAIN Credentials : Credentials[i].name = name /\ Credentials[i].enabled
SpendDue(t) == {n \in tick[t].todo : Enabled(n) /\ Since(spendPolled[n], t) >= SpendTicks}
SpendAsks(t, n) ==
    /\ tick[t].stage = "spend" /\ n \in SpendDue(t)
    /\ spendPolled' = [spendPolled EXCEPT ![n] = tick[t].elapsed]
    /\ Set(t, [tick[t] EXCEPT !.stage = "spending", !.todo = @ \ {n}])
    /\ Quietly /\ UNCHANGED <<credentialCursor, reprobed, cooling, asked, evidenceVars>>
SpendAnswers(t) ==
    /\ tick[t].stage = "spending" /\ Set(t, [tick[t] EXCEPT !.stage = "spend"])
    /\ Quietly /\ UNCHANGED <<credentialCursor, spendPolled, reprobed, cooling, asked, evidenceVars>>

\* The cells that cool on a guess are read once, and the clock with them.
ReprobeBegins(t) ==
    /\ tick[t].stage = "spend" /\ SpendDue(t) = {}
    /\ Set(t, [IdleTick EXCEPT !.stage = "reprobe", !.todo = {c \in Cells : cooling[c] = "guessed"}])
    /\ Quietly /\ UNCHANGED <<credentialCursor, spendPolled, reprobed, cooling, asked, evidenceVars>>
ReprobeTargets(t) ==
    IF tick[t].spent >= MaxReprobes THEN {}
    ELSE {c \in tick[t].todo \cap Probeable : Since(reprobed[c], t) >= ReprobeTicks}

\* Faulty: the stamp is left for the answer.
StampedUnasked(t, c) == reprobed
Stamped(t, c) == [reprobed EXCEPT ![c] = tick[t].elapsed]
ReprobeAsks(t, c) ==
    /\ tick[t].stage = "reprobe" /\ tick[t].asking = NoCell /\ c \in ReprobeTargets(t)
    /\ reprobed' = Stamped(t, c) /\ asked' = [asked EXCEPT ![c] = tick[t].elapsed]
    /\ Set(t, [tick[t] EXCEPT !.todo = @ \ {c}, !.spent = @ + 1, !.asking = c])
    /\ Quietly /\ UNCHANGED <<credentialCursor, spendPolled, cooling, evidenceVars>>

\* An answer is evidence of the deployment, and a good one ends the cooldown of its cell, and of no other.
ProbeRecorded(t, c, code) ==
    /\ evidenceCount < MaxProbes /\ evidenceCount' = evidenceCount + 1 /\ RecordPing(c.deployment, 2, code)
    /\ cooling' = IF code = "200" /\ c \in Cells THEN [cooling EXCEPT ![c] = "none"] ELSE cooling
    /\ Set(t, [tick[t] EXCEPT !.asking = NoCell])
    /\ UNCHANGED <<calls, probeFile, callFile>>
ProbeReturns(t) ==
    /\ tick[t].asking # NoCell
    /\ \E code \in ProbeCodes : ProbeRecorded(t, tick[t].asking, code)
    /\ Quietly /\ UNCHANGED <<credentialCursor, spendPolled, reprobed, asked>>
\* A probe that throws leaves nothing.
ProbeThrows(t) ==
    /\ tick[t].asking # NoCell /\ Set(t, [tick[t] EXCEPT !.asking = NoCell])
    /\ Quietly /\ UNCHANGED <<credentialCursor, spendPolled, reprobed, cooling, asked, evidenceVars>>

\* At most so many of the deployments that are due.
FirstDue(ds) == IF Cardinality(ds) <= MaxDue THEN {ds} ELSE {s \in SUBSET ds : Cardinality(s) = MaxDue}
DueBegins(t) ==
    /\ tick[t].stage = "reprobe" /\ tick[t].asking = NoCell /\ ReprobeTargets(t) = {}
    /\ \E ds \in FirstDue({d \in (IF t = "loop" THEN Routable ELSE Deployments) : DueForProbe(d)}) :
          Set(t, [IdleTick EXCEPT !.stage = "due", !.todo = ds, !.cursor = credentialCursor])
    /\ Quietly /\ UNCHANGED <<credentialCursor, spendPolled, reprobed, cooling, asked, evidenceVars>>

\* The next credential from the cursor on that is enabled, has a key and may serve the deployment.
Turns(from) == [i \in 1..Len(Credentials) |-> ((from + i - 2) % Len(Credentials)) + 1]
Serves(i, d) == Credentials[i].enabled /\ Credentials[i].key /\ d \in Credentials[i].serves
NextCredential(from, d) ==
    LET turns == {i \in 1..Len(Credentials) : Serves(Turns(from)[i], d)}
    IN IF turns = {} THEN 0 ELSE Turns(from)[Min(turns)]
DueAsks(t, d) ==
    LET slot == NextCredential(tick[t].cursor, d)
        next == (slot % Len(Credentials)) + 1
    IN /\ tick[t].stage = "due" /\ tick[t].asking = NoCell /\ d \in tick[t].todo
       /\ \/ slot = 0 /\ Set(t, [tick[t] EXCEPT !.todo = @ \ {d}]) /\ UNCHANGED credentialCursor
          \/ /\ slot > 0 /\ credentialCursor' = next
             /\ Set(t, [tick[t] EXCEPT !.todo = @ \ {d}, !.cursor = next,
                          !.asking = [deployment |-> d, credential |-> Credentials[slot].name]])
       /\ Quietly /\ UNCHANGED <<spendPolled, reprobed, cooling, asked, evidenceVars>>

Rearmed(t) == IF t = "loop" /\ running THEN "armed" ELSE timer
TickEnds(t) ==
    /\ tick[t].stage = "due" /\ tick[t].asking = NoCell /\ tick[t].todo = {}
    /\ Set(t, IdleTick) /\ timer' = Rearmed(t)
    /\ UNCHANGED <<paceVars, running, credentialCursor, spendPolled, reprobed, cooling, asked, evidenceVars>>

-----------------------------------------------------------------------------
(* Around the loop. *)

StopPinging == /\ running /\ running' = FALSE /\ timer' = "none"
               /\ UNCHANGED <<paceVars, tick, credentialCursor, spendPolled, reprobed, cooling, asked, evidenceVars>>

Elsewhere == UNCHANGED <<running, tick, credentialCursor, spendPolled, reprobed, asked>>
\* A request arrives, and the attempt it makes of a cell fails or answers.
RequestRefused(c, why) ==
    /\ NoteUserActivity /\ cooling' = [cooling EXCEPT ![c] = why]
    /\ Elsewhere /\ UNCHANGED evidenceVars
RequestAnswered(c) ==
    /\ NoteUserActivity /\ cooling' = [cooling EXCEPT ![c] = "none"]
    /\ evidenceCount < MaxProbes /\ evidenceCount' = evidenceCount + 1 /\ RecordModelCall(c.deployment, TRUE, 2, 0) /\ UNCHANGED <<history, probes, probeFile, callFile>>
    /\ Elsewhere
CooldownLapses(c) ==
    /\ cooling[c] # "none" /\ cooling' = [cooling EXCEPT ![c] = "none"]
    /\ UNCHANGED <<paceVars, timer, evidenceVars>> /\ Elsewhere

\* Time passes, and no probe takes longer than its timeout.
LoopTime ==
    /\ \A t \in Ticks : tick[t].stage # "idle" => tick[t].elapsed < ProbeTimeout
    /\ idleFor' = Min({IdleTicks, idleFor + 1})
    /\ speedLeft' = IF speedLeft > 0 THEN speedLeft - 1 ELSE speedLeft
    /\ tick' = [t \in Ticks |-> IF tick[t].stage = "idle" THEN tick[t] ELSE [tick[t] EXCEPT !.elapsed = @ + 1]]
    /\ spendPolled' = [n \in Names |-> Aged(spendPolled[n])]
    /\ reprobed' = [c \in Cells |-> Aged(reprobed[c])] /\ asked' = [c \in Cells |-> Aged(asked[c])]
    /\ EvidenceAges /\ UNCHANGED <<history, evidenceCount>>
    /\ UNCHANGED <<mode, resumeSpeedOnActivity, running, timer, credentialCursor, cooling>>

\* The loop starts when the server listens, its first tick as if a timer had fired.
LoopInit ==
    /\ mode = "speed" /\ speedLeft = SpeedTicks /\ idleFor = 0 /\ resumeSpeedOnActivity = FALSE
    /\ running = TRUE /\ timer = "armed"
    /\ tick = [t \in Ticks |-> IdleTick] /\ credentialCursor = 1
    /\ spendPolled = [n \in Names |-> LongAgo] /\ reprobed = [c \in Cells |-> LongAgo]
    /\ asked = [c \in Cells |-> LongAgo] /\ cooling = [c \in Cells |-> "none"]

TickSteps(t) ==
    \/ \E n \in Names : SpendAsks(t, n)
    \/ \E c \in Cells : ReprobeAsks(t, c)
    \/ \E d \in Deployments : DueAsks(t, d)
    \/ SpendAnswers(t) \/ ReprobeBegins(t) \/ ProbeReturns(t) \/ ProbeThrows(t) \/ DueBegins(t) \/ TickEnds(t)
LoopNext ==
    \/ TimerFires \/ StatusAsked \/ StopPinging \/ LoopTime
    \/ \E t \in Ticks : TickSteps(t)
    \/ \E c \in Cells : RequestAnswered(c) \/ CooldownLapses(c) \/ \E why \in {"guessed", "stated"} : RequestRefused(c, why)

LoopSpec == /\ LoopInit /\ EvidenceStart(<<>>, NoOldCalls)
            /\ [][LoopNext]_<<loopVars, evidenceVars>>

-----------------------------------------------------------------------------
(* Properties. *)

\* Two ticks that read the clock less than an interval apart never probe the same cooling cell, however the loop
\* and status requests overlap; a tick probes only what cooled on a guess when it looked, and once the server is
\* closed the loop arms no timer.  (RATE_LIMIT_REPROBE_INTERVAL_MS and stop(), ping/cadence.ts.)
LoopIsBounded ==
    [][/\ \A t \in Ticks : \A c \in Probeable :
            (tick[t].stage = "reprobe" /\ tick[t].asking # c /\ tick'[t].asking = c) =>
                Since(asked[c], t) >= ReprobeTicks /\ tick'[t].spent <= MaxReprobes
       /\ ~running' => timer' = "none"]_loopVars

\* A cell that cools on a guess of the relay's is probed while it cools, one probe a minute, as long as the server
\* listens.  (docs/reference.md on recovery cooldowns: the background loop sends one probe per cooling cell.)
CoolingIsReprobed ==
    \A c \in Probeable :
        (running /\ cooling[c] = "guessed")
            ~> (~running \/ cooling[c] # "guessed" \/ \E t \in Ticks : tick[t].asking = c)
=============================================================================
