---------------------------- MODULE CredentialWalk ----------------------------
(***************************************************************************)
(* The request-local, breadth-first walk over deployments and credentials  *)
(* (credential-select.ts, class CredentialWalk).  A walk is a record and   *)
(* its methods are operators on it: every method is synchronous, so one    *)
(* step of the request that owns the walk may call several of them.        *)
(*                                                                         *)
(* The ranked candidates are grouped by deployment: Groups[g] is the       *)
(* sequence of attempts (one per credential) of the g-th deployment.       *)
(***************************************************************************)
EXTENDS Naturals, Sequences, FiniteSets, SequencesExt, FiniteSetsExt

CONSTANTS Groups,        \* deployment -> sequence of its attempts, in rank order
          Provider,      \* deployment -> provider
          Credential,    \* attempt -> credential id
          MaxInFlight,   \* the constructor's cap: 2 with hedging on, 1 without
          None           \* "undefined"

GroupIds == DOMAIN Groups
Attempts == UNION {Range(Groups[g]) : g \in GroupIds}
GroupOf(a) == CHOOSE g \in GroupIds : a \in Range(Groups[g])

ASSUME GroupsAssumption ==
    /\ Groups \in Seq(Seq(Attempts)) /\ Groups # <<>> /\ None \notin Attempts
    /\ DOMAIN Provider = GroupIds
    /\ \A g \in GroupIds : Groups[g] # <<>> /\ Provider[g] # None
    /\ \A g, h \in GroupIds : \A i \in DOMAIN Groups[g], j \in DOMAIN Groups[h] :
          Groups[g][i] = Groups[h][j] => g = h /\ i = j
    /\ MaxInFlight \in Nat \ {0}

\* What one recorded fact may cover: this attempt, its credential, its
\* deployment, or its whole provider.
Scopes == {"none", "attempt", "credential", "deployment", "provider"}

WalkType ==
    [queue : Seq(GroupIds), cursor : [GroupIds -> Nat],
     pending : Seq(Attempts), begun : SUBSET Attempts, started : Nat,
     closed : SUBSET GroupIds, badProviders : SUBSET Range(Provider),
     suppressed : SUBSET Attempts, stopped : {"no", "yes"}]

NewWalk ==
    [queue |-> [i \in 1..Len(Groups) |-> i], cursor |-> [g \in GroupIds |-> 0],
     pending |-> <<>>, begun |-> {}, started |-> 0,
     closed |-> {}, badProviders |-> {}, suppressed |-> {}, stopped |-> "no"]

IsPending(w, a) == a \in Range(w.pending)
-----------------------------------------------------------------------------
BudgetAllowsStart(w, spent) == w.started < 2 \/ spent = "no"

Servable(w, g) == {i \in w.cursor[g] + 1 .. Len(Groups[g]) :
                      Groups[g][i] \notin w.suppressed}

\* shift(): the deployment leaves the queue until its attempt is resolved.
QueueAfter(q, last) == SubSeq(q, last + 1, Len(q))

\* The cursor moves past every credential that was offered or passed over.
CursorPast(i) == i

\* The queue loop of next(): deployments that are closed or whose provider is
\* unreachable are dropped, those with no credential left are closed, and the
\* first one with a credential left gives it.
Take(w) ==
    LET Barred(g) == g \in w.closed \/ Provider[g] \in w.badProviders
        good == {p \in DOMAIN w.queue :
                    ~Barred(w.queue[p]) /\ Servable(w, w.queue[p]) # {}}
        last == IF good = {} THEN Len(w.queue) + 1 ELSE Min(good)
        dry == {g \in {w.queue[p] : p \in 1..(last - 1)} : ~Barred(g)}
        drained == [w EXCEPT !.queue = QueueAfter(@, last),
                             !.closed = @ \cup dry,
                             !.cursor = [g \in GroupIds |->
                                 IF g \in dry THEN Len(Groups[g]) ELSE @[g]]]
    IN  IF good = {} THEN [walk |-> drained, offer |-> None]
        ELSE LET g == w.queue[last]
                 i == Min(Servable(w, g))
             IN  [walk  |-> [drained EXCEPT !.cursor[g] = CursorPast(i),
                                            !.pending = Append(@, Groups[g][i])],
                  offer |-> Groups[g][i]]

\* The comment on next() says why: the request loop looks one candidate ahead
\* and then asks again, and must be given the same one.
ReofferUnstarted(w) == {p \in DOMAIN w.pending : w.pending[p] \notin w.begun}

WalkNext(w, spent) ==
    LET unstarted == ReofferUnstarted(w)
    IN  CASE w.stopped = "yes" -> [walk |-> w, offer |-> None]
          [] w.stopped = "no" /\ unstarted # {} ->
                [walk |-> w, offer |-> w.pending[Min(unstarted)]]
          [] w.stopped = "no" /\ unstarted = {} /\ Len(w.pending) >= MaxInFlight ->
                [walk |-> w, offer |-> Head(w.pending)]
          [] OTHER -> IF BudgetAllowsStart(w, spent) THEN Take(w)
                      ELSE [walk |-> w, offer |-> None]
-----------------------------------------------------------------------------
\* Faulty: the deployment goes back to the front of the queue.
ReleaseToFront(w, g) ==
    IF w.cursor[g] < Len(Groups[g])
    THEN [w EXCEPT !.queue = <<g>> \o @]
    ELSE [w EXCEPT !.closed = @ \cup {g}]

ReleaseGroup(w, g) ==
    IF w.cursor[g] < Len(Groups[g])
    THEN [w EXCEPT !.queue = Append(@, g)]
    ELSE [w EXCEPT !.closed = @ \cup {g}]

Drop(w, a) == [w EXCEPT !.pending = RemoveFirst(@, a), !.begun = @ \ {a}]

\* The methods throw when the attempt is not in flight as they expect; Throws
\* says when, and the callers that may meet it branch on it.
StartThrows(w, a)  == ~IsPending(w, a) \/ a \in w.begun
RecordThrows(w, a) == ~IsPending(w, a) \/ a \notin w.begun

RecordStarted(w, a) == [w EXCEPT !.begun = @ \cup {a}, !.started = @ + 1]
RecordRejected(w, a) == ReleaseGroup(Drop(w, a), GroupOf(a))
RecordAbandoned(w, a) == ReleaseGroup(Drop(w, a), GroupOf(a))

ScopeMatches(scope, a) ==
    LET SameProvider(b) == Provider[GroupOf(b)] = Provider[GroupOf(a)]
    IN  CASE scope = "none" -> {}
          [] scope = "attempt" -> {a}
          [] scope = "credential" ->
                {b \in Attempts : SameProvider(b) /\ Credential[b] = Credential[a]}
          [] scope = "deployment" -> Range(Groups[GroupOf(a)])
          [] scope = "provider" -> {b \in Attempts : SameProvider(b)}

\* record(): success, a local or client error and a cancellation stop the walk;
\* a transport failure drops the provider; a credential-scoped refusal spares
\* the deployment; anything else closes it.
Record(w, a, kind, scope) ==
    LET v == Drop(w, a)
        credentialScoped == scope \in {"attempt", "credential"}
                            \/ (scope = "none" /\ kind = "credential")
        covers == IF credentialScoped /\ scope = "none" THEN {a}
                  ELSE ScopeMatches(scope, a)
    IN  CASE kind \in {"success", "local", "client", "cancelled"} ->
                [v EXCEPT !.stopped = "yes"]
          [] kind = "provider-transport" ->
                [v EXCEPT !.badProviders = @ \cup {Provider[GroupOf(a)]}]
          [] kind \in {"credential", "deployment", "timeout", "protocol"} ->
                LET u == [v EXCEPT !.suppressed = @ \cup covers]
                IN  IF credentialScoped THEN ReleaseGroup(u, GroupOf(a))
                    ELSE [u EXCEPT !.closed = @ \cup {GroupOf(a)}]
=============================================================================
