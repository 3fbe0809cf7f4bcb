--------------------------- MODULE RequestRouting ---------------------------
(***************************************************************************)
(* From a request to the list of attempts the credential walk is given     *)
(* (handle of server.ts): credentials ranked within each deployment        *)
(* (credential-select.ts), deployments put into bands by the usability of  *)
(* the credential ranked first (candidate-runner.ts), a session's pinned   *)
(* deployment moved to the front (session-pin.ts), deployments whose       *)
(* context ceiling the prompt exceeds taken out (context-limits.ts).       *)
(*                                                                         *)
(* Evidence changes between requests, and ordering itself leaves a mark: a *)
(* deployment found spent is put on a breaker cooldown.  The walk is what  *)
(* CandidateWalk and CredentialWalk model; here it is a prefix that fails  *)
(* and perhaps an attempt that serves.                                     *)
(***************************************************************************)
EXTENDS Integers, FiniteSets, FiniteSetsExt, Sequences, SequencesExt, TLC

CONSTANTS
    PoolOrder,        \* the specs of the addressed pool, preferred first
    SlotsOf,          \* [spec -> sequence of credential ids, in configuration order]
    DegradedSpecs,    \* the members that are only the pool's degraded tail
    ContextOf,        \* [spec -> largest prompt it takes], known only once stated
    PromptSizes,      \* sizes of prompts
    RouteSessions,    \* session keys
    MaxPins,          \* maxSessions of the pin manager
    PinTtl,           \* ttlMs of the pin manager
    FailCooldown,     \* how long a failed cell cools
    MaxRouteTime,     \* bound: how far the clock runs
    MaxRequests       \* bound: requests and changes of evidence

ASSUME RoutingAssumption ==
    /\ PoolOrder \in Seq(ToSet(PoolOrder)) \ {<<>>} /\ IsInjective(PoolOrder)
    /\ \A spec \in ToSet(PoolOrder) : SlotsOf[spec] \in Seq(ToSet(SlotsOf[spec])) \ {<<>>} /\ IsInjective(SlotsOf[spec])
    /\ MaxPins \in Nat \ {0} /\ PinTtl \in Nat
    /\ FailCooldown \in Nat \ {0}
    /\ MaxRouteTime \in Nat /\ MaxRequests \in Nat

PoolSpecs == ToSet(PoolOrder)
RouteCells == UNION {{spec} \X ToSet(SlotsOf[spec]) : spec \in PoolSpecs}
Credentials == {cell[2] : cell \in RouteCells}
\* What is known of a cell beside its cooldown: nothing against it; the provider said its quota is
\* spent; by the relay's own count it is; it is paced; its credential was refused; the deployment is
\* known not to be servable with it.
Conditions == {"fine", "spent", "counted-out", "paced", "fault", "barred"}

VARIABLES
    routeNow,     \* the clock
    coolUntil,    \* breaker: [RouteCells -> end of the cooldown, 0: none]
    condition,    \* [RouteCells -> Conditions]
    probation,    \* specs still on probation: too few samples, and free
    lru,          \* CredentialLru: [Credentials -> sequence number of the last use]
    pins,         \* StickySessionManager: sequence of [session, spec, lastUsedAt], in the map's order
    ceilings,     \* [PoolSpecs -> observed context limit, 0: none]
    route,        \* the last request: what it was given
    requests      \* counts requests and changes, for MaxRequests

routeVars == <<routeNow, coolUntil, condition, probation, lru, pins, ceilings, route, requests>>

SpecOf(cell) == cell[1]
CredOf(cell) == cell[2]
NoRoute == [session |-> "none", walk |-> <<>>, pinned |-> "none", pinLive |-> FALSE, size |-> 0, at |-> 0]

-----------------------------------------------------------------------------
(* Orders.                                                                 *)

\* The first entry in which two keys differ decides.
Before(a, b) == \E i \in DOMAIN a : a[i] < b[i] /\ \A j \in 1..(i - 1) : a[j] = b[j]
\* The domain of `key` in the order of its values, which all differ: each at the place those before it leave.
InOrder(key) ==
    LET rank == [x \in DOMAIN key |-> Cardinality({y \in DOMAIN key : Before(key[y], key[x])})]
    IN [i \in 1..Cardinality(DOMAIN key) |-> CHOOSE x \in DOMAIN key : rank[x] = i - 1]
PlaceIn(s, x) == CHOOSE i \in DOMAIN s : s[i] = x
\* The elements of `s` at the places `at`.
Kept(s, at) == LET places == InOrder([i \in at |-> <<i>>]) IN [k \in DOMAIN places |-> s[places[k]]]

-----------------------------------------------------------------------------
(* Ranking the credentials of one deployment.                              *)

Cooling(cell) == coolUntil[cell] > routeNow
DemotionBand(cell) == IF Cooling(cell) THEN 4 ELSE IF condition[cell] = "fault" THEN 2 ELSE 0
\* Only a fresh reading of the provider's own counts here; 1 is "unknown".
HeadroomBand(cell) == IF condition[cell] = "spent" THEN 3 ELSE 1
SlotIndex(cell) == PlaceIn(SlotsOf[SpecOf(cell)], CredOf(cell))
RankKey(cell) == <<DemotionBand(cell), HeadroomBand(cell), lru[CredOf(cell)], SlotIndex(cell)>>

CellsOf(spec) == {spec} \X ToSet(SlotsOf[spec])
\* A barred credential is left out, unless all of the deployment's are barred.
Usable(spec) == LET open == {c \in CellsOf(spec) : condition[c] # "barred"}
                IN IF open = {} THEN CellsOf(spec) ELSE open
Ranked(spec) == InOrder([c \in Usable(spec) |-> RankKey(c)])

-----------------------------------------------------------------------------
(* Bands.  A deployment is judged by the credential ranked first.           *)

HeadOf(spec) == Ranked(spec)[1]
QuotaSpent(cell) == condition[cell] \in {"spent", "counted-out"}
Usability(cell) ==
    IF Cooling(cell) \/ QuotaSpent(cell) THEN "cooling"
    ELSE IF condition[cell] = "fault" THEN "credential-fault"
    ELSE IF condition[cell] = "paced" THEN "paced"
    ELSE IF SpecOf(cell) \in probation THEN "probation" ELSE "live"
Bands == <<"probation", "live", "paced", "credential-fault", "cooling">>

\* recordQuotaCooldown, called for each deployment head found spent while it was healthy.
ResetOf(t) == t + 1
QuotaCooled ==
    LET spentHeads == {c \in {HeadOf(spec) : spec \in PoolSpecs} : ~Cooling(c) /\ QuotaSpent(c)}
    IN [c \in RouteCells |-> IF c \in spentHeads THEN ResetOf(routeNow) ELSE coolUntil[c]]

\* The cooling by when their cooldown lifts, the others as the pool lists them.
Lift(head) == IF Usability(head) # "cooling" THEN 0
              ELSE IF Cooling(head) THEN coolUntil[head] ELSE ResetOf(routeNow)
BandKey(spec) == LET head == HeadOf(spec)
                 IN <<PlaceIn(Bands, Usability(head)), Lift(head), PlaceIn(PoolOrder, spec)>>
\* Faulty: a paced deployment is left out, not put behind.
OrderedButPaced == InOrder([spec \in {s \in PoolSpecs : Usability(HeadOf(s)) # "paced"} |-> BandKey(spec)])
Ordered == InOrder([spec \in PoolSpecs |-> BandKey(spec)])

-----------------------------------------------------------------------------
(* Session pins.                                                           *)

PinIndex(session) == {i \in DOMAIN pins : pins[i].session = session}
Expired(pin) == routeNow - pin.lastUsedAt > PinTtl
PinFor(session, spec) == [session |-> session, spec |-> spec, lastUsedAt |-> routeNow]
\* getPin: an expired pin is dropped, a live one is used now.
Looked(session) ==
    IF PinIndex(session) = {} THEN pins
    ELSE LET i == CHOOSE i \in PinIndex(session) : TRUE
         IN IF Expired(pins[i]) THEN Kept(pins, DOMAIN pins \ {i})
            ELSE [pins EXCEPT ![i] = PinFor(session, pins[i].spec)]
PinnedSpec(session) ==
    LET live == {i \in PinIndex(session) : ~Expired(pins[i])}
    IN IF live = {} THEN "none" ELSE pins[CHOOSE i \in live : TRUE].spec

\* prune, after a pin was written: the expired first, then the least recently used.
LeastUsed(ps) == InOrder([i \in DOMAIN ps |-> <<ps[i].lastUsedAt, i>>])[1]
Pruned(ps) ==
    LET live == Kept(ps, {i \in DOMAIN ps : ~Expired(ps[i])})
    IN IF Len(ps) <= MaxPins THEN ps
       ELSE IF Len(live) <= MaxPins THEN live ELSE Kept(live, DOMAIN live \ {LeastUsed(live)})
Pinned(ps, session, spec) ==
    LET at == {i \in DOMAIN ps : ps[i].session = session}
        pin == PinFor(session, spec)
    IN Pruned(IF at = {} THEN Append(ps, pin) ELSE [ps EXCEPT ![CHOOSE i \in at : TRUE] = pin])

\* applyStickyOrdering: the pinned deployment first, if it is live and no full member is live in its stead.
Holds(spec) == /\ spec \in PoolSpecs
               /\ Usability(HeadOf(spec)) = "live"
               /\ spec \in DegradedSpecs =>
                    ~\E other \in PoolSpecs \ DegradedSpecs : Usability(HeadOf(other)) = "live"
\* The place of each deployment, the pinned one's before all.
Sticky(specs, spec) == [s \in ToSet(specs) |-> IF s = spec /\ Holds(spec) THEN 0 ELSE PlaceIn(specs, s)]

-----------------------------------------------------------------------------
\* The context filter takes a deployment out, but an empty list is a refusal of the request.
Fits(spec, size) == ceilings[spec] = 0 \/ size <= ceilings[spec]
\* Deployment after deployment, of each its credentials as they rank.
WalkFor(session, size) ==
    LET place == Sticky(Ordered, PinnedSpec(session))
        ranks == [s \in PoolSpecs |-> Ranked(s)]
        cells == UNION {Usable(s) : s \in {t \in DOMAIN place : Fits(t, size)}}
    IN InOrder([c \in cells |-> <<place[SpecOf(c)], PlaceIn(ranks[SpecOf(c)], c)>>])

RouteInit == /\ routeNow = 0 /\ requests = 0
             /\ coolUntil = [c \in RouteCells |-> 0]
             /\ condition = [c \in RouteCells |-> "fine"]
             /\ probation \in SUBSET {PoolOrder[Len(PoolOrder)]}
             /\ lru = [c \in Credentials |-> 0]
             /\ pins = <<>>
             /\ ceilings = [spec \in PoolSpecs |-> 0]
             /\ route = NoRoute

RouteTick == /\ routeNow < MaxRouteTime
             /\ routeNow' = routeNow + 1
             /\ UNCHANGED <<coolUntil, condition, probation, lru, pins, ceilings, route, requests>>

\* Evidence about one cell changes: readings, counts, refusals of other requests.
EvidenceChanges == /\ requests < MaxRequests
                   /\ \E c \in RouteCells, what \in Conditions : /\ condition[c] # what
                                                                 /\ condition' = [condition EXCEPT ![c] = what]
                   /\ requests' = requests + 1
                   /\ UNCHANGED <<routeNow, coolUntil, probation, lru, pins, ceilings, route>>

\* The walk: `tried` attempts, the last of which serves unless all failed.  An attempt whose prompt
\* is over the deployment's real limit is refused with that limit and does not cool.
TooLong(cell, size) == size > ContextOf[SpecOf(cell)]
MaySettle(walk, tried, served, size) ==
    /\ served => ~TooLong(walk[tried], size)
    /\ ~served => tried = Len(walk)
Failed(walk, tried, served) == {walk[i] : i \in 1..(IF served THEN tried - 1 ELSE tried)}

Route(session, size) ==
    LET walk == route'.walk
        pinned == PinnedSpec(session)
        cooled == QuotaCooled
    IN /\ requests < MaxRequests
       /\ requests' = requests + 1
       /\ route' = [session |-> session, walk |-> WalkFor(session, size), pinned |-> pinned, pinLive |-> Holds(pinned),
                    size |-> size, at |-> routeNow]
       /\ \/ /\ walk = <<>>                         \* 400: the prompt exceeds every ceiling
             /\ coolUntil' = cooled
             /\ pins' = Looked(session)
             /\ UNCHANGED <<lru, ceilings>>
          \/ \E tried \in DOMAIN walk, served \in BOOLEAN :
             /\ MaySettle(walk, tried, served, size)
             /\ coolUntil' = [c \in RouteCells |->
                    IF served /\ c = walk[tried] THEN 0
                    ELSE IF c \in Failed(walk, tried, served) /\ ~TooLong(c, size) THEN Max({cooled[c], routeNow + FailCooldown})
                    ELSE cooled[c]]
             /\ ceilings' = [s \in PoolSpecs |->
                    IF \E c \in Failed(walk, tried, served) : SpecOf(c) = s /\ TooLong(c, size) THEN ContextOf[s] ELSE ceilings[s]]
             /\ lru' = [c \in Credentials |->
                    LET uses == {i \in 1..tried : CredOf(walk[i]) = c}
                    IN IF uses = {} THEN lru[c] ELSE Max({lru[d] : d \in Credentials}) + Max(uses)]
             /\ pins' = IF served /\ Len(PoolOrder) > 1 THEN Pinned(Looked(session), session, SpecOf(walk[tried])) ELSE Looked(session)
       /\ UNCHANGED <<routeNow, condition, probation>>

RouteNext == \/ RouteTick
             \/ EvidenceChanges
             \/ \E session \in RouteSessions, size \in PromptSizes : Route(session, size)
RouteSpec == RouteInit /\ [][RouteNext]_routeVars

-----------------------------------------------------------------------------
(* Ordering only orders: whatever the evidence, the walk is given every     *)
(* deployment whose stated ceiling the prompt does not exceed, each         *)
(* credential once and never none of a deployment's.                        *)
NothingIsDropped ==
    route'.at = routeNow /\ route' # route =>
        /\ IsInjective(route'.walk)
        /\ {SpecOf(c) : c \in ToSet(route'.walk)} = {s \in PoolSpecs : Fits(s, route'.size)}
        /\ \A c \in RouteCells : Fits(SpecOf(c), route'.size) /\ condition[c] # "barred" => c \in ToSet(route'.walk)
(* A conversation keeps its deployment: a session served by a live          *)
(* deployment is sent there first while it comes back within the time to    *)
(* live and fewer than MaxPins other sessions were served since.            *)
SessionsKeepTheirPlace ==
    route' # route =>
        /\ route'.pinLive /\ Fits(route'.pinned, route'.size) => SpecOf(route'.walk[1]) = route'.pinned
        /\ \A i \in DOMAIN pins : \/ Cardinality({j \in DOMAIN pins : pins[j].lastUsedAt >= pins[i].lastUsedAt}) > MaxPins - 1
                                  \/ routeNow - pins[i].lastUsedAt > PinTtl
                                  \/ \E j \in DOMAIN pins' : pins'[j].session = pins[i].session
        /\ Len(pins') <= MaxPins
(* A deployment judged by a spent credential is put behind the others, but  *)
(* only for this request: the cooldown the ordering leaves makes the next   *)
(* one rank another credential first, if there is one without a mark.       *)
SpentHeadGivesWay ==
    route' # route => \A s \in PoolSpecs :
        LET head == HeadOf(s)
        IN QuotaSpent(head) /\ ~Cooling(head) /\ (\E c \in CellsOf(s) : condition[c] = "fine" /\ ~Cooling(c) /\ coolUntil'[c] = coolUntil[c])
               /\ coolUntil'[head] # 0
           => HeadOf(s)' # head
RoutingOnlyOrders == [][NothingIsDropped /\ SessionsKeepTheirPlace /\ SpentHeadGivesWay]_routeVars
=============================================================================
