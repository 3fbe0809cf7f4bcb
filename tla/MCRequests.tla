----------------------------- MODULE MCRequests -----------------------------
(***************************************************************************)
(* A request on its way to the providers and back, each part in a          *)
(* behaviour of its own: `part` names the one whose steps it takes.        *)
(***************************************************************************)
EXTENDS CandidateWalk, WireMapping, BackendCall, UsageObserver, DashboardProjection

CONSTANTS a1, a2, b1, b2, c1, pa, pb, k1, k2

\* Two deployments of two credentials each, and one more of the first provider.
ThreeGroups == <<<<a1, a2>>, <<b1, b2>>, <<c1>>>>
ThreeProviders == <<pa, pb, pa>>
Keys == [x \in {a1, a2, b1, b2, c1} |-> IF x \in {a2, b2} THEN k2 ELSE k1]

VARIABLE part

requestsVars == <<part, requestVars, mappingVars, callVars, observerVars, rowsVars>>

\* Call ids of the conversation: A is of the shape strict providers refuse, N is
\* native to them, and the digests are nine ids in a ring.
N == <<"n", 0>>
A == <<"a", 0>>
MCNativeCalls == {<<>>, <<A>>, <<NoId, N>>}
MCUserParts == {<<"text">>, <<"image", "empty">>}
NineIds == <<N, <<"d1", 0>>, <<"d2", 0>>, <<"d3", 0>>, <<"d4", 0>>, <<"d5", 0>>, <<"d6", 0>>,
             <<"d7", 0>>, <<"d8", 0>>>>
MCStrict9 == ToSet(NineIds)
MCDigest(id, salt) == NineIds[(((IF id = A THEN 0 ELSE 1) + salt) % 9) + 1]

\* What the finished requests were: token counts of their attempts, who answered and who
\* was committed to. `paid` and `dear` have a published price, `free` has none.
Counted(in, out, cached, estimated, method) ==
    [in |-> in, out |-> out, cached |-> cached, estimated |-> estimated, method |-> method]
Whole == Counted(1, 1, NoCount, NoCount, "none")
WithCached == Counted(2, NoCount, 1, NoCount, "none")
Many == Counted(4, NoCount, NoCount, NoCount, "none")
Guessed == Counted(NoCount, NoCount, NoCount, 1, "relay")
Tried(role, outcome, model, tokens, abandoned) ==
    [role |-> role, outcome |-> outcome, model |-> model, tokens |-> tokens,
     abandoned |-> abandoned]
Served(evicted, winner, attempts) ==
    [outcome |-> "success", winner |-> winner, commit |-> winner, attempts |-> attempts,
     evicted |-> evicted]
Failed(outcome, winner, attempts) ==
    [outcome |-> outcome, winner |-> winner, commit |-> winner, attempts |-> attempts,
     evicted |-> FALSE]
MCLifecycles ==
    LET whole == Tried("serve", "success", "paid", Whole, FALSE)
        cached == Tried("serve", "success", "paid", WithCached, FALSE)
    IN  {Served(TRUE, 1, <<whole>>), Served(FALSE, 1, <<cached>>),
         Served(FALSE, 1, <<Tried("serve", "success", "dear", Many, FALSE)>>),
         Served(FALSE, 2, <<Tried("serve", "error", "paid", Guessed, TRUE), cached,
                            Tried("repair", "success", "free", Guessed, FALSE)>>),
         Served(FALSE, 3, <<Tried("serve", "error", "paid", NoTokens, FALSE),
                            Tried("serve", "error", "free", Guessed, FALSE),
                            Tried("serve", "success", "free", Whole, FALSE)>>),
         Failed("cancelled", 1, <<Tried("serve", "cancelled", "paid", Guessed, FALSE)>>),
         Failed("error", 0, <<Tried("serve", "error", "free", NoTokens, FALSE)>>)}
MCPrice == [dear |-> [in |-> 2, out |-> NoCount, source |-> "provider"],
            paid |-> [in |-> 1, out |-> 1, source |-> "provider"],
            free |-> [in |-> NoCount, out |-> NoCount, source |-> "none"]]

RequestsInit == /\ part \in {"walk", "mapping", "call", "usage", "ledger"}
                /\ RequestInit /\ MappingInit /\ CallInit /\ ObserverInit
                /\ RowsInit
                /\ part # "mapping" => wire = [front |-> "messages", target |-> "chat", mode |-> "plain"]
                /\ part # "call" => call = [front |-> "chat", wire |-> "chat", stream |-> FALSE,
                                           tools |-> FALSE, asksUsage |-> FALSE]
                /\ part # "usage" => watches = "bytes"
Walk_ == part = "walk" /\ RequestNext
         /\ UNCHANGED <<part, mappingVars, callVars, observerVars, rowsVars>>
Mapping_ == part = "mapping" /\ MappingNext
            /\ UNCHANGED <<part, requestVars, callVars, observerVars, rowsVars>>
Call_ == part = "call" /\ CallNext
         /\ UNCHANGED <<part, requestVars, mappingVars, observerVars, rowsVars>>
Usage_ == part = "usage" /\ ObserverNext
          /\ UNCHANGED <<part, requestVars, mappingVars, callVars, rowsVars>>
Ledger_ == part = "ledger" /\ RowsNext
           /\ UNCHANGED <<part, requestVars, mappingVars, callVars, observerVars>>
RequestsNext == Walk_ \/ Mapping_ \/ Call_ \/ Usage_ \/ Ledger_

\* Only the walk is promised steps.
RequestsSpec == RequestsInit /\ [][RequestsNext]_requestsVars
                /\ WF_requestVars(part = "walk" /\ Progress)

\* Every request comes to an end.
RequestEnds == part = "walk" => Ends
=============================================================================
