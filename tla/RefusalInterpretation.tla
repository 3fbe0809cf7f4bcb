------------------------ MODULE RefusalInterpretation ------------------------
(***************************************************************************)
(* What a provider's refusal means (refusal-interpretation.ts): the        *)
(* operator's accepted verdicts before the structured reading before the   *)
(* seed table, and the queue of messages nothing understands.  The daemon  *)
(* and the operator's command (cli.ts runEligibility) each keep a copy of  *)
(* one file, told apart from the file by its stat token and merged with it *)
(* when written.  A message is the phrase it normalizes to, with what its  *)
(* body says in figures, quota ids and fields.                             *)
(***************************************************************************)
EXTENDS Naturals, Sequences, FiniteSets, FiniteSetsExt, Functions, TLC

CONSTANTS
    RefusedModels,   \* models the daemon is refused for
    Bodies,          \* [status, says, quota, fields, again]: the answers of the provider
    Matches,         \* phrase -> the seed patterns it matches
    NewForm,         \* phrase -> the phrase the current normalizer makes of it
    Declared,        \* the verdicts an operator may declare
    OldFiles,        \* what the file may hold when the relay is installed
    MaxQueue, IgnoredTtl, MaxResetTicks, MaxRefusalClock, MaxRefusals, MaxOperatorCommands

VARIABLES
    refFile,     \* the file: version and store, `token` changing at every write, 0 when absent
    daemon,      \* the daemon's copy: [open, token, store, dirty]
    command,     \* the operator's command: idle, or what it is about to do to which signature
    refusalNow, refusals, commandsRun,
    wordOf,    \* history: the verdict last accepted for a signature, once it was written
    undisturbed  \* history: signatures accepted while the daemon had nothing unsaved
refusalVars == <<refFile, daemon, command, refusalNow, refusals, commandsRun, wordOf, undisturbed>>

-----------------------------------------------------------------------------
(* Signatures, verdicts and the three readings. *)

Template(kind) == [kind |-> kind, members |-> {}, every |-> FALSE]
Verdict(class, scope, reset) == [class |-> class, scope |-> scope, cost |-> {}, reset |-> reset, by |-> "seed", at |-> 0]
NoReset == [kind |-> "none", field |-> "none", ticks |-> 0]
NoVerdict == Verdict("none", Template("none"), NoReset)

\* A message is keyed by the current normalizer; a file may hold the keys of an older one, moments
\* since the epoch, and nothing both decided and pending.
ASSUME RefusalAssumption ==
    /\ \A b \in Bodies : /\ b.says \in DOMAIN Matches \cap DOMAIN NewForm
                         /\ NewForm[b.says] = b.says
    /\ \A p \in DOMAIN NewForm : /\ NewForm[p] \in DOMAIN NewForm
                                 /\ NewForm[NewForm[p]] = NewForm[p]
    /\ \A f \in OldFiles :
          /\ f.token \in Nat
          /\ DOMAIN f.confirmed \cap DOMAIN f.unknown = {}
          /\ \A s \in UNION {DOMAIN f.confirmed, DOMAIN f.unknown, DOMAIN f.ignored} :
                "says" \in DOMAIN s /\ s.says \in DOMAIN NewForm
          /\ IsFiniteSet(DOMAIN f.confirmed)
          /\ \A s \in DOMAIN f.confirmed : /\ DOMAIN f.confirmed[s] = DOMAIN NoVerdict
                                           /\ f.confirmed[s].at \in Nat
    /\ \A v \in Declared : DOMAIN v = DOMAIN NoVerdict
    /\ {MaxQueue, IgnoredTtl, MaxResetTicks, MaxRefusalClock, MaxRefusals, MaxOperatorCommands} \subseteq Nat \ {0}

\* The signature drops figures, ids and the relay's own wrapper: only the phrase is left.
Signature(model, b) == [model |-> model, status |-> b.status, says |-> b.says]

Seed(statuses, pattern, class, kind) == [statuses |-> statuses, pattern |-> pattern, class |-> class, kind |-> kind]
SeedTable ==
    << Seed({403, 429}, "quota spent", "allowance-exhausted", "credential"),
       Seed({402}, "credits spent", "allowance-exhausted", "credential"),
       Seed({403}, "plan needed", "subscription-required", "attempt"),
       Seed({400, 404}, "not on this account", "not-servable", "attempt"),
       Seed({400, 404}, "no such model", "not-servable", "deployment"),
       Seed({410}, "retired", "not-servable", "deployment"),
       Seed({401, 403}, "bad key", "credential-invalid", "credential"),
       Seed({429}, "account throttled", "rate-limited", "credential") >>

Seeded(status, says) ==
    LET hits == SelectSeq(SeedTable, LAMBDA s : status \in s.statuses /\ s.pattern \in Matches[says])
    IN  IF hits = <<>> THEN NoVerdict ELSE Verdict(hits[1].class, Template(hits[1].kind), NoReset)

\* google.rpc.QuotaFailure: the quota's own id names its window and what it is counted for.
Structured(b) ==
    IF b.quota.window \notin {"short", "long"} \/ b.status \notin {403, 429} THEN NoVerdict
    ELSE Verdict(IF b.quota.window = "short" THEN "rate-limited" ELSE "allowance-exhausted",
                 Template(IF b.quota.per = {"project"} THEN "credential" ELSE "attempt"),
                 [kind |-> "field", field |-> "retryDelay", ticks |-> 0])

Binds(v) == v.by = "seed" \/ v.at > 0

Interpret(store, model, b) ==
    LET s == Signature(model, b) IN
    IF s \in DOMAIN store.confirmed /\ Binds(store.confirmed[s]) THEN store.confirmed[s]
    ELSE IF Structured(b) # NoVerdict THEN Structured(b)
    ELSE Seeded(b.status, b.says)

\* How long the body says the condition lasts, 0 when it does not say or says too much.
Believed(ticks) == IF ticks <= MaxResetTicks THEN ticks ELSE 0
FieldOf(b, field) == IF field \in DOMAIN b.fields THEN b.fields[field] ELSE 0
ResetByRule(rule, b) ==
    CASE rule.kind = "fixed" -> Believed(rule.ticks)
      [] rule.kind = "field" -> Believed(FieldOf(b, rule.field))
      [] OTHER -> 0
\* The first pattern whose figure is believable: named fields, then "try again in".
ResetByBody(b) ==
    IF Believed(FieldOf(b, "retryDelay")) > 0 THEN FieldOf(b, "retryDelay")
    ELSE IF Believed(FieldOf(b, "retryAfter")) > 0 THEN FieldOf(b, "retryAfter")
    ELSE Believed(b.again)

-----------------------------------------------------------------------------
(* The file: reading either version, and merging a copy into it. *)

Entry(n, first, last) == [count |-> n, first |-> first, last |-> last, proposed |-> NoVerdict]
EmptyStore == [confirmed |-> <<>>, unknown |-> <<>>, ignored |-> <<>>]
MinOf(a, b) == IF a <= b THEN a ELSE b
MaxOf(a, b) == IF a >= b THEN a ELSE b
Without(f, S) == Restrict(f, DOMAIN f \ S)
With(f, k, v) == [x \in DOMAIN f \cup {k} |-> IF x = k THEN v ELSE f[x]]
\* One entry out of several for the same signature: counts add up, the freshest one's proposal stays.
Together(es) ==
    LET freshest == CHOOSE e \in es : \A f \in es : f.last <= e.last IN
    [freshest EXCEPT !.count = MapThenSumSet(LAMBDA e : e.count, es),
                     !.first = Min({e.first : e \in es})]

\* Version 1 knew no credential: what it says of a whole provider is asked again, of a group kept for one.
NarrowedV1(v) == IF v.scope.kind = "group" THEN [v EXCEPT !.scope.every = FALSE] ELSE v
MigrateV1(f) ==
    LET wide == {s \in DOMAIN f.confirmed : f.confirmed[s].scope.kind = "provider"}
        again == {s \in wide : f.confirmed[s].at > 0}
        unproposed(e) == IF e.proposed.scope.kind = "provider" THEN [e EXCEPT !.proposed = NoVerdict]
                         ELSE [e EXCEPT !.proposed = NarrowedV1(@)]
    IN  [confirmed |-> [s \in DOMAIN f.confirmed \ wide |-> NarrowedV1(f.confirmed[s])],
         unknown |-> [s \in DOMAIN f.unknown \cup again |->
                        IF s \in again THEN Entry(1, f.confirmed[s].at, f.confirmed[s].at) ELSE unproposed(f.unknown[s])],
         ignored |-> f.ignored]

Rekey(s) == [s EXCEPT !.says = NewForm[@]]
\* Every key through the current normalizer; what a verdict or a rejection now covers leaves the queue.
MigrateSignatures(f) ==
    LET keys(g) == {Rekey(s) : s \in DOMAIN g}
        was(g, k) == {g[s] : s \in {s \in DOMAIN g : Rekey(s) = k}}
        confirmed == [k \in keys(f.confirmed) |-> CHOOSE v \in was(f.confirmed, k) : \A w \in was(f.confirmed, k) : w.at <= v.at]
        ignored == [k \in keys(f.ignored) |-> Max(was(f.ignored, k))]
    IN  [confirmed |-> confirmed, ignored |-> ignored,
         unknown |-> [k \in (keys(f.unknown) \ DOMAIN confirmed) \ DOMAIN ignored |-> Together(was(f.unknown, k))]]

ReadStore(file) ==
    LET store == [confirmed |-> file.confirmed, unknown |-> file.unknown, ignored |-> file.ignored]
    IN  MigrateSignatures(IF file.version = 1 THEN MigrateV1(store) ELSE store)

\* The file's verdicts win, what is confirmed leaves the other side's queue, counts are added up.
MergeStores(disk, memory) ==
    LET confirmed == [s \in DOMAIN disk.confirmed \cup DOMAIN memory.confirmed |->
                        IF s \in DOMAIN disk.confirmed THEN disk.confirmed[s] ELSE memory.confirmed[s]]
        unseen == Without(memory.unknown, DOMAIN confirmed)
    IN  [confirmed |-> confirmed,
         unknown |-> [s \in DOMAIN disk.unknown \cup DOMAIN unseen |->
                        IF s \notin DOMAIN unseen THEN disk.unknown[s]
                        ELSE IF s \notin DOMAIN disk.unknown THEN unseen[s]
                        ELSE LET d == disk.unknown[s]  m == unseen[s] IN
                             [(IF m.last >= d.last THEN m ELSE d) EXCEPT
                                !.count = m.count + d.count, !.first = MinOf(m.first, d.first)]],
         ignored |-> [s \in DOMAIN disk.ignored \cup DOMAIN memory.ignored |->
                        IF s \notin DOMAIN disk.ignored THEN memory.ignored[s]
                        ELSE IF s \notin DOMAIN memory.ignored THEN disk.ignored[s]
                        ELSE MaxOf(disk.ignored[s], memory.ignored[s])]]

Closed == [open |-> FALSE, token |-> 0, store |-> EmptyStore, dirty |-> FALSE]

\* Faulty: a copy once read is used for good.
LoadedOnce(copy) ==
    IF copy.open THEN copy
    ELSE [copy EXCEPT !.open = TRUE, !.token = refFile.token,
                      !.store = IF refFile.token = 0 THEN EmptyStore ELSE ReadStore(refFile)]

\* A copy is used while the file's token is the one it was read or written under.
Loaded(copy) ==
    IF copy.open /\ copy.token = refFile.token THEN copy
    ELSE [copy EXCEPT !.open = TRUE, !.token = refFile.token,
                      !.store = IF refFile.token = 0 THEN EmptyStore ELSE ReadStore(refFile)]

\* What a copy's save writes: itself, or its merge with a file somebody else has written since.
ToWrite(copy) ==
    IF refFile.token # 0 /\ refFile.token # copy.token THEN MergeStores(ReadStore(refFile), copy.store) ELSE copy.store
File(store) == [version |-> 2, token |-> refFile.token + 1,
                confirmed |-> store.confirmed, unknown |-> store.unknown, ignored |-> store.ignored]
\* The copy itself is not replaced by the merge, only its token moves.
Saved(copy) == [copy EXCEPT !.dirty = FALSE, !.token = refFile.token + 1]

-----------------------------------------------------------------------------
(* The daemon. *)

Oldest(unknown) == CHOOSE s \in DOMAIN unknown : \A t \in DOMAIN unknown : unknown[s].last <= unknown[t].last

Queued(store, s) ==
    IF s \in DOMAIN store.unknown
    THEN [store EXCEPT !.unknown[s].count = @ + 1, !.unknown[s].last = refusalNow]
    ELSE LET kept == IF Cardinality(DOMAIN store.unknown) >= MaxQueue
                     THEN Without(store.unknown, {Oldest(store.unknown)}) ELSE store.unknown
         IN  [store EXCEPT !.unknown = With(kept, s, Entry(1, refusalNow, refusalNow))]

Unanswered(store, s) ==
    /\ s \notin DOMAIN store.confirmed
    /\ s \in DOMAIN store.ignored => refusalNow - store.ignored[s] >= IgnoredTtl

\* An attempt is refused: the message is interpreted, or queued when nothing understands it.
Refuse(model, b) ==
    LET copy == Loaded(daemon)  s == Signature(model, b) IN
    /\ refusals < MaxRefusals
    /\ refusals' = refusals + 1
    /\ daemon' = IF Interpret(copy.store, model, b) = NoVerdict /\ Unanswered(copy.store, s)
                 THEN [copy EXCEPT !.store = Queued(@, s), !.dirty = TRUE] ELSE copy
    /\ UNCHANGED <<refFile, command, refusalNow, commandsRun, wordOf, undisturbed>>

\* The write-behind timer, or the flush at shutdown; a failed write is not told to anybody.
FlushRefusals ==
    /\ daemon.dirty
    /\ \/ refFile' = File(ToWrite(daemon)) /\ daemon' = Saved(daemon)
       \/ refFile' = refFile /\ daemon' = [daemon EXCEPT !.dirty = FALSE]
    /\ UNCHANGED <<command, refusalNow, refusals, commandsRun, wordOf, undisturbed>>

StopDaemon ==
    /\ daemon.open
    /\ daemon' = Closed
    /\ UNCHANGED <<refFile, command, refusalNow, refusals, commandsRun, wordOf, undisturbed>>

-----------------------------------------------------------------------------
(* The operator's command: a process of its own, one at a time. *)

Idle == [op |-> "none", copy |-> Closed, on |-> [model |-> "none", status |-> 0, says |-> "none"], says |-> NoVerdict]

\* Entries the tables have learned to read since they were queued leave the copy.
StillPending(store) ==
    [store EXCEPT !.unknown = Without(@, {s \in DOMAIN @ : Seeded(s.status, s.says) # NoVerdict})]

\* The command lists what is pending and picks an entry.
CommandReads(op, v) ==
    LET copy == Loaded(Closed)
        store == StillPending(copy.store) IN
    /\ command.op = "none" /\ commandsRun < MaxOperatorCommands
    /\ op = "reject" => v = NoVerdict
    /\ op # "reject" => v \in Declared
    /\ \E s \in DOMAIN store.unknown :
          command' = [op |-> op, on |-> s, says |-> v,
                      copy |-> [copy EXCEPT !.store = store, !.dirty = store # copy.store]]
    /\ commandsRun' = commandsRun + 1
    /\ UNCHANGED <<refFile, daemon, refusalNow, refusals, wordOf, undisturbed>>

\* Accepted with the operator's words; what they leave out comes from the proposal.
Accepted(store, s, v) ==
    LET proposed == IF s \in DOMAIN store.unknown THEN store.unknown[s].proposed ELSE NoVerdict IN
    [v EXCEPT !.by = "researched", !.at = refusalNow,
              !.reset = IF v.reset = NoReset THEN proposed.reset ELSE v.reset,
              !.cost = IF v.cost = {} THEN proposed.cost ELSE v.cost]

Decide(store, op, s, v) ==
    IF op = "accept" THEN [store EXCEPT !.confirmed = With(@, s, Accepted(store, s, v)), !.unknown = Without(@, {s})]
    ELSE IF s \notin DOMAIN store.unknown THEN store
    ELSE IF op = "reject" THEN [store EXCEPT !.unknown = Without(@, {s}), !.ignored = With(@, s, refusalNow)]
    ELSE [store EXCEPT !.unknown[s].proposed = v]

\* It reads again if the file has moved, decides, saves at once and ends.
CommandActs ==
    LET copy == Loaded(command.copy)
        store == Decide(copy.store, command.op, command.on, command.says)
        dirty == copy.dirty \/ store # copy.store
        next == [copy EXCEPT !.store = store]
        written == dirty /\ refFile'.token # refFile.token IN
    /\ command.op # "none"
    /\ \/ dirty /\ refFile' = File(ToWrite(next))
       \/ refFile' = refFile
    /\ command' = Idle
    /\ wordOf' = IF written /\ command.op = "accept"
                   THEN With(wordOf, command.on, store.confirmed[command.on]) ELSE wordOf
    /\ undisturbed' = IF written /\ command.op = "accept" /\ ~daemon.dirty
                      THEN undisturbed \cup {command.on} ELSE undisturbed \ (IF command.op = "accept" THEN {command.on} ELSE {})
    /\ UNCHANGED <<daemon, refusalNow, refusals, commandsRun>>

RefusalTick ==
    /\ refusalNow < MaxRefusalClock
    /\ refusalNow' = refusalNow + 1
    /\ UNCHANGED <<refFile, daemon, command, refusals, commandsRun, wordOf, undisturbed>>

-----------------------------------------------------------------------------
RefusalInit ==
    /\ refFile \in OldFiles
    /\ daemon = Closed /\ command = Idle
    /\ refusalNow = 1 /\ refusals = 0 /\ commandsRun = 0
    /\ wordOf = <<>> /\ undisturbed = {}

RefusalNext ==
    \/ \E model \in RefusedModels, b \in Bodies : Refuse(model, b)
    \/ FlushRefusals \/ StopDaemon
    \/ \E op \in {"accept", "reject", "propose"}, v \in Declared \cup {NoVerdict} : CommandReads(op, v)
    \/ CommandActs
    \/ RefusalTick
RefusalSpec == RefusalInit /\ [][RefusalNext]_refusalVars

-----------------------------------------------------------------------------
\* What the daemon would answer now.
Answered(model, b) == Interpret(Loaded(daemon).store, model, b)

\* An acceptance written while the daemon had nothing unsaved stays in the file, whatever the daemon writes later,
\* and the daemon uses it from then on, before any reading of its own.
AcceptancesAreUsed ==
    \A s \in undisturbed :
        /\ s \in DOMAIN refFile.confirmed /\ refFile.confirmed[s] = wordOf[s]
        /\ \A b \in Bodies : Signature(s.model, b) = s => Answered(s.model, b) = wordOf[s]

\* A proposal binds nothing, and what is decided is not asked: no copy answers with a verdict nobody said,
\* and no message is confirmed and queued at once.
OnlyDeclaredBinds ==
    \A store \in {daemon.store, [confirmed |-> refFile.confirmed, unknown |-> refFile.unknown, ignored |-> refFile.ignored]} :
        /\ \A s \in DOMAIN store.confirmed :
              \/ s \in DOMAIN wordOf /\ store.confirmed[s] = wordOf[s]
              \/ \E f \in OldFiles : s \in {Rekey(t) : t \in DOMAIN f.confirmed} \cup DOMAIN f.confirmed
        /\ DOMAIN store.confirmed \cap DOMAIN store.unknown = {}

\* refusal-interpretation.ts:1017: "A confirmed row is an OPERATOR-DECLARED acceptance and must never be dropped by
\* another process's stale snapshot."
AcceptanceIsNotDropped == \A s \in DOMAIN wordOf : s \in DOMAIN refFile.confirmed

\* refusal-interpretation.ts:187: a rejection is not for ever, "so a mistaken reject heals on its own": a message
\* queued again after its time is in what the next command reads.
AMistakenRejectHeals ==
    \A s \in DOMAIN refFile.unknown \cap DOMAIN refFile.ignored :
        refFile.unknown[s].last - refFile.ignored[s] >= IgnoredTtl => s \in DOMAIN ReadStore(refFile).unknown

OperatorVerdictsHold == AcceptancesAreUsed /\ OnlyDeclaredBinds
=============================================================================
