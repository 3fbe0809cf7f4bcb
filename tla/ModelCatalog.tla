------------------------------ MODULE ModelCatalog ---------------------------
(***************************************************************************)
(* The catalogue of the models a provider lists (catalog.ts): asked for    *)
(* once when there is none, served while it is stale and asked for again   *)
(* behind the reader, refreshed early on the word of a refusal, written    *)
(* behind to a file another process writes too.  A listing is the moment   *)
(* of the provider's roster it was taken from.                             *)
(***************************************************************************)
EXTENDS Integers, Sequences, FiniteSets, FiniteSetsExt

CONSTANTS
    Providers,
    Fleet,          \* provider -> its credentials in order: [key, answers]
    CatalogTtl, StaleCooldown,
    RecordOf,       \* a model's record in each list the provider may publish, in their order
    Axes,           \* requests and tokens, per minute and per day
    MaxCatalogTime, MaxFetches

NoListing == 0                       \* the provider has no entry
EmptyListing == Len(RecordOf) + 1    \* a provider nothing may be asked of has an empty one

VARIABLES
    roster,       \* provider -> how often its list has changed, from 1
    mem,          \* provider -> [listing, fetchedAt, limits]
    modelsFile,   \* the same on disk
    loaded,       \* the file has been read
    fetching,     \* provider -> [kind, slot, listing, startedAt] for each fetch under way
    forcedAt,     \* provider -> when the word of a refusal last had it refreshed, -1 before
    writePending, \* a write-behind save is due
    catalogRevision, catalogNow, fetches
catalogVars == <<roster, mem, modelsFile, loaded, fetching, forcedAt, writePending, catalogRevision, catalogNow, fetches>>

-----------------------------------------------------------------------------
(* What a record of the list says of a model.  A published field is absent, blank, words, a zero, a number *)
(* or a number written as text; -1 is a figure nobody published.                                           *)

FigureOf == [absent |-> -1, blank |-> -1, words |-> -1, zero |-> 0, number |-> 5, text |-> 7]
\* The first of a field's names that holds a number; a zero only where zero is a price.
PickNumber(raws, allowZero) ==
    LET usable == {i \in DOMAIN raws : FigureOf[raws[i]] > 0 \/ (allowZero /\ FigureOf[raws[i]] = 0)}
    IN IF usable = {} THEN -1 ELSE FigureOf[raws[Min(usable)]]
\* A rate is a number and above zero, never text.
PickRateField(raws) == IF \E i \in DOMAIN raws : raws[i] = "number" THEN FigureOf["number"] ELSE -1
LimitsFromRecord(rec) ==
    [context |-> PickNumber(rec.context \o rec.topContext, FALSE), output |-> PickNumber(rec.output \o rec.topOutput, FALSE),
     prompt |-> PickNumber(rec.prompt, TRUE), completion |-> PickNumber(rec.completion, TRUE),
     rates |-> [a \in Axes |-> PickRateField(rec.rates[a])]]
NoLimits == [context |-> -1, output |-> -1, prompt |-> -1, completion |-> -1, rates |-> [a \in Axes |-> -1]]
\* What the file holds is taken where it is a number, a rate where it is above zero.
SanitizeLimits(l) == [l EXCEPT !.rates = [a \in Axes |-> IF @[a] > 0 THEN @[a] ELSE -1]]

\* The provider publishes a list, whatever is in it.
Published == DOMAIN FigureOf
Records == [context : Seq(Published), topContext : Seq(Published), output : Seq(Published),
            topOutput : Seq(Published), prompt : Seq(Published), completion : Seq(Published),
            rates : [Axes -> Seq(Published)]]
ASSUME CatalogAssumption == RecordOf # <<>> /\ RecordOf \in Seq(Records)

Unlisted == [listing |-> NoListing, fetchedAt |-> 0, limits |-> NoLimits]
CachedLimits(p) == mem[p].limits
PublishedRateLimits(p) == CachedLimits(p).rates
-----------------------------------------------------------------------------
(* Reading and writing the file. *)

\* The file is read once, by the first that asks; a later one keeps what there is.
LoadDisk ==
    IF loaded THEN mem
    ELSE [p \in Providers |-> IF modelsFile[p] = Unlisted THEN mem[p]
                              ELSE [modelsFile[p] EXCEPT !.limits = SanitizeLimits(@)]]
LoadedEntries == {p \in Providers : ~loaded /\ modelsFile[p] # Unlisted}

\* Without a timer a save is made at once, with one it waits.
PersistSoon == writePending' = TRUE
SaveDisk == /\ writePending /\ modelsFile' = mem /\ writePending' = FALSE
            /\ UNCHANGED <<roster, mem, loaded, fetching, forcedAt, catalogRevision, catalogNow, fetches>>

-----------------------------------------------------------------------------
(* Fetching. *)

\* What a list is asked of: an empty fleet has an empty list, taken without asking.
Begin(p, kind) == /\ fetches < MaxFetches /\ fetches' = fetches + 1
                  /\ fetching' = [fetching EXCEPT ![p] = @ \cup
                        {[kind |-> kind, slot |-> 1, listing |-> NoListing, startedAt |-> catalogNow]}]
Under(p, kind) == \E f \in fetching[p] : f.kind = kind

\* Faulty: every reader of a stale list starts a fetch of its own.
RefreshInBackgroundAgain(p) ==
    IF \E f \in fetching[p] : f.startedAt = catalogNow THEN UNCHANGED <<fetching, fetches>> ELSE Begin(p, "background")
RefreshInBackground(p) ==
    IF Under(p, "background") THEN UNCHANGED <<fetching, fetches>> ELSE Begin(p, "background")

\* A reader: what is fresh is answered, what is stale is answered and refreshed, what is missing is waited for.
List(p) ==
    LET prior == LoadDisk[p]
        fresh == prior # Unlisted /\ catalogNow - prior.fetchedAt < CatalogTtl
    IN /\ mem' = LoadDisk /\ loaded' = TRUE /\ catalogRevision' = catalogRevision + Cardinality(LoadedEntries)
       /\ \/ fresh /\ UNCHANGED <<fetching, fetches>>
          \/ ~fresh /\ prior # Unlisted /\ RefreshInBackground(p)
          \/ /\ prior = Unlisted
             /\ IF Under(p, "blocking") THEN UNCHANGED <<fetching, fetches>> ELSE Begin(p, "blocking")
       /\ UNCHANGED <<roster, modelsFile, forcedAt, writePending, catalogNow>>

\* A refusal says that a model the list holds does not exist: asked again, once for a while.
NoteProviderStale(p) ==
    /\ LoadDisk[p] # Unlisted
    /\ forcedAt[p] < 0 \/ catalogNow - forcedAt[p] >= StaleCooldown
    /\ mem' = LoadDisk /\ loaded' = TRUE /\ catalogRevision' = catalogRevision + Cardinality(LoadedEntries)
    /\ forcedAt' = [forcedAt EXCEPT ![p] = catalogNow]
    /\ RefreshInBackground(p)
    /\ UNCHANGED <<roster, modelsFile, writePending, catalogNow>>

\* The credential in turn is asked.  One without a key is passed over, one the provider turns down makes way
\* for the next, and any other failure ends the fetch.
At(p, f) == Fleet[p][f.slot]
ReplaceListing(p, f, fs) == fetching' = [fetching EXCEPT ![p] = (@ \ {f}) \cup fs]
NextSlot(p, f) == IF f.slot < Len(Fleet[p]) THEN {[f EXCEPT !.slot = @ + 1]} ELSE {}
Turn(p, f) ==
    \/ (At(p, f).key = "missing" \/ At(p, f).answers = "refused") /\ ReplaceListing(p, f, NextSlot(p, f))
    \/ At(p, f).key # "missing" /\ At(p, f).answers = "list" /\ ReplaceListing(p, f, {[f EXCEPT !.listing = roster[p]]})
    \/ At(p, f).key # "missing" /\ ReplaceListing(p, f, {})
AskSlot(p, f) ==
    /\ f.listing = NoListing
    /\ \/ Fleet[p] = <<>> /\ ReplaceListing(p, f, {[f EXCEPT !.listing = EmptyListing]})
       \/ Fleet[p] # <<>> /\ Turn(p, f)
    /\ UNCHANGED <<roster, mem, modelsFile, loaded, forcedAt, writePending, catalogRevision, catalogNow, fetches>>

\* A blocking fetch is as old as the reader that began it, one in the background as its answer.
Landed(p, f) == [listing |-> f.listing, fetchedAt |-> IF f.kind = "blocking" THEN f.startedAt ELSE catalogNow,
                limits |-> IF f.listing = EmptyListing THEN NoLimits ELSE LimitsFromRecord(RecordOf[f.listing])]
Land(p, f) ==
    /\ f.listing # NoListing
    /\ mem' = [mem EXCEPT ![p] = Landed(p, f)] /\ catalogRevision' = catalogRevision + 1
    /\ PersistSoon /\ ReplaceListing(p, f, {})
    /\ UNCHANGED <<roster, modelsFile, loaded, forcedAt, catalogNow, fetches>>

-----------------------------------------------------------------------------
RosterMoves(p) == /\ roster[p] < Len(RecordOf) /\ roster' = [roster EXCEPT ![p] = @ + 1]
                  /\ UNCHANGED <<mem, modelsFile, loaded, fetching, forcedAt, writePending, catalogRevision, catalogNow, fetches>>
CatalogTick == /\ catalogNow < MaxCatalogTime /\ catalogNow' = catalogNow + 1
               /\ UNCHANGED <<roster, mem, modelsFile, loaded, fetching, forcedAt, writePending, catalogRevision, fetches>>
\* The process stops, without its last save, after it or in the middle of it, and another starts.
CatalogRestart == /\ loaded /\ loaded' = FALSE /\ mem' = [p \in Providers |-> Unlisted]
                  /\ fetching' = [p \in Providers |-> {}] /\ forcedAt' = [p \in Providers |-> -1]
                  /\ writePending' = FALSE /\ catalogRevision' = 0
                  /\ modelsFile' \in {modelsFile} \cup (IF writePending THEN {mem, [p \in Providers |-> Unlisted]} ELSE {})
                  /\ UNCHANGED <<roster, catalogNow, fetches>>

CatalogInit == /\ roster = [p \in Providers |-> 1] /\ mem = [p \in Providers |-> Unlisted]
               /\ modelsFile = [p \in Providers |-> Unlisted] /\ loaded = FALSE
               /\ fetching = [p \in Providers |-> {}] /\ forcedAt = [p \in Providers |-> -1]
               /\ writePending = FALSE /\ catalogRevision = 0 /\ catalogNow = 0 /\ fetches = 0
CatalogNext ==
    \/ \E p \in Providers : List(p) \/ NoteProviderStale(p) \/ RosterMoves(p)
    \/ \E p \in Providers : \E f \in fetching[p] : AskSlot(p, f) \/ Land(p, f)
    \/ SaveDisk \/ CatalogTick \/ CatalogRestart
CatalogSpec == CatalogInit /\ [][CatalogNext]_catalogVars

\* A list that is served is never replaced by one the provider published before it, nor lost to a failed fetch,
\* and the figures of its models are those that were published, before and after a restart.  (catalog.ts: a
\* failed refresh leaves the previous list in place.)
ListingsNeverGoBack ==
    [][\A p \in Providers :
         /\ loaded /\ loaded' => mem'[p].listing >= mem[p].listing
         /\ (loaded' /\ mem'[p].listing \in DOMAIN RecordOf) =>
               mem'[p].limits = LimitsFromRecord(RecordOf[mem'[p].listing])]_catalogVars
=============================================================================
