-------------------------- MODULE DashboardSession --------------------------
(***************************************************************************)
(* The relay's control surface: how its processes come to share one        *)
(* control capability through a file, and how a browser turns a one-time   *)
(* bootstrap into a dashboard session that idles out, ends at an absolute  *)
(* limit, or is logged out, while its requests wait for bodies and reads.  *)
(***************************************************************************)
EXTENDS Integers, Sequences, FiniteSets, SequencesExt

CONSTANTS Callers,              \* requests that may be in flight at once
          Holders,              \* processes that hold the control capability
          BootstrapTtl, IdleTtl, AbsoluteTtl,
          MaxDashTime,          \* bound: the last instant of the clock
          MaxTokens,            \* bound: bootstraps and sessions ever issued
          MaxCapabilities,      \* bound: capabilities ever drawn
          MaxRemovals           \* bound: times the capability file is removed

ASSUME DashAssumption == /\ BootstrapTtl \in Nat /\ IdleTtl \in Nat /\ AbsoluteTtl \in Nat
                         /\ MaxTokens \in Nat

VARIABLES dashNow, bootstraps, consumed, dashSessions, issued,
          origins,              \* session -> the bootstrap it came from, 0 for none
          ended,                \* sessions logged out or past their limit
          call,                 \* caller -> its request in flight, or its last answer
          capFile, drawn, removals, holder

authVars == <<bootstraps, consumed, dashSessions, issued, origins, ended>>
capVars == <<capFile, drawn, removals, holder>>
dashVars == <<dashNow, authVars, call, capVars>>

NoToken == 0
Tokens == 1..MaxTokens
-----------------------------------------------------------------------------
(* The requests a browser, a page of another site or the CLI can send.     *)

\* What a route asks of a request that names it.
Policies ==
  [bootstrap |-> [methods |-> {"POST"}, own |-> FALSE, write |-> FALSE, body |-> TRUE],
   session   |-> [methods |-> {"POST"}, own |-> TRUE, write |-> TRUE, body |-> TRUE],
   logout    |-> [methods |-> {"POST"}, own |-> TRUE, write |-> TRUE, body |-> TRUE],
   snapshot  |-> [methods |-> {"GET", "HEAD"}, own |-> FALSE, write |-> FALSE, body |-> FALSE],
   detail    |-> [methods |-> {"GET", "HEAD"}, own |-> FALSE, write |-> FALSE, body |-> FALSE]]
Routes == DOMAIN Policies

\* The request the dashboard's own page sends to a route.
OwnRequest(route) ==
  [route |-> route, method |-> IF Policies[route].body THEN "POST" ELSE "GET",
   host |-> "bound", origin |-> IF Policies[route].own THEN "own" ELSE "absent",
   site |-> "same-origin", type |-> "json", accept |-> "dashboard",
   length |-> "small", query |-> IF Policies[route].body THEN "absent" ELSE "valid",
   id |-> "valid", body |-> "valid", control |-> TRUE]

\* The same with one field as some other sender would have it.
Deviations(r) ==
  {[r EXCEPT !.method = m] : m \in {"PUT", "HEAD"}} \cup {[r EXCEPT !.host = "other"]}
  \cup {[r EXCEPT !.origin = o] : o \in {"absent", "own", "other"}}
  \cup {[r EXCEPT !.site = s] : s \in {"cross-site", "none", "absent"}}
  \cup {[r EXCEPT !.type = t] : t \in {"text", "json-with-charset"}}
  \cup {[r EXCEPT !.accept = "any"], [r EXCEPT !.id = "bad"], [r EXCEPT !.control = FALSE]}
  \cup {[r EXCEPT !.length = l] : l \in {"absent", "huge", "wrong"}}
  \cup {[r EXCEPT !.query = q] : q \in {"long", "odd", "absent", "valid"}}
  \cup {[r EXCEPT !.body = b] : b \in {"junk", "oversized", "cut"}}

Requests == UNION {{OwnRequest(r)} \cup Deviations(OwnRequest(r)) : r \in Routes}

Check(fails, status) == [fails |-> fails, status |-> status]
FirstFailing(checks) ==
  LET i == SelectInSeq(checks, LAMBDA c : c.fails)
  IN  IF i = 0 THEN 0 ELSE checks[i].status

\* What the server asks of every request before it looks at the path.
AdmissionChecks(r) ==
  <<Check(r.host # "bound", 403),
    Check(r.origin = "other", 403),
    Check(r.method \notin {"GET", "HEAD"} /\ r.type = "text", 403)>>

OriginAllowed(r) == r.origin = "own" \/ (r.origin = "absent" /\ ~Policies[r.route].own)
FetchSiteAllowed(r) ==
  r.site \in {"absent", "same-origin"} \cup (IF Policies[r.route].write THEN {} ELSE {"none"})
BodyLengthStatus(r) == CASE r.length = "absent" -> 400 [] r.length = "huge" -> 413 [] OTHER -> 0
QueryLimitStatus(r) == IF r.query = "long" THEN 413 ELSE 0
\* A control token counts when it is the one the serving process holds.
ControlAuthorized(r) == r.control

\* What the route handler asks, in its order, before it touches a session.
RouteChecks(r) ==
  LET p == Policies[r.route] IN
  <<Check(r.id = "bad" /\ r.route = "detail", 404),
    Check(r.method \notin p.methods, 405),
    Check(r.accept # "dashboard", 406),
    Check(~OriginAllowed(r), 403),
    Check(~FetchSiteAllowed(r), 403),
    Check(p.body /\ r.type # "json", 415),
    Check(p.body /\ BodyLengthStatus(r) # 0, BodyLengthStatus(r)),
    Check(QueryLimitStatus(r) # 0, QueryLimitStatus(r)),
    Check(r.route = "bootstrap" /\ ~ControlAuthorized(r), 403),
    Check(~p.body /\ r.query # "valid", 400),
    Check(p.body /\ r.query # "absent", 400)>>

\* What the body of a request turns out to be once it has arrived.
BodyChecks(r) ==
  <<Check(r.body = "oversized", 413), Check(r.body = "cut", 500),
    Check(r.length = "wrong", 400), Check(r.body = "junk", 400)>>

Refusal(r) ==
  LET admission == FirstFailing(AdmissionChecks(r))
  IN  IF admission # 0 THEN admission ELSE FirstFailing(RouteChecks(r))
-----------------------------------------------------------------------------
(* The auth manager. Every entry point sweeps what has lapsed.             *)

Lapsed(s, at) == at >= s.absolute \/ at >= s.idle

LiveBootstraps(set) == {b \in set : dashNow < b.expiresAt}
LiveSessions(set) == {s \in set : ~Lapsed(s, dashNow)}

\* The sweep over what each table would hold without it.
Cleanup(b, c, s) ==
  /\ bootstraps' = LiveBootstraps(b)
  /\ consumed' = LiveBootstraps(c)
  /\ dashSessions' = LiveSessions(s)

IssueSession(from, b, c) ==
  /\ issued < MaxTokens
  /\ issued' = issued + 1
  /\ origins' = [origins EXCEPT ![issued + 1] = from]
  /\ bootstraps' = LiveBootstraps(b)
  /\ consumed' = c
  /\ dashSessions' = LiveSessions(dashSessions)
       \cup {[token |-> issued + 1,
              idle |-> dashNow + (IF IdleTtl < AbsoluteTtl THEN IdleTtl ELSE AbsoluteTtl),
              absolute |-> dashNow + AbsoluteTtl]}

CreateBootstrap ==
  /\ issued < MaxTokens
  /\ issued' = issued + 1
  /\ Cleanup(bootstraps \cup {[token |-> issued + 1, expiresAt |-> dashNow + BootstrapTtl]},
             consumed, dashSessions)
  /\ UNCHANGED <<origins, ended>>

CreateSession == IssueSession(NoToken, bootstraps, LiveBootstraps(consumed)) /\ UNCHANGED ended

\* An active bootstrap is spent and remembered until it would have lapsed.
Spend(b) ==
  /\ dashNow < b.expiresAt
  /\ IssueSession(b.token, bootstraps \ {b}, LiveBootstraps(consumed) \cup {b})

\* The status a session token is answered with, its record when it is good.
Found(token) == {s \in dashSessions : s.token = token}
ResolveSession(token) == \E s \in Found(token) : ~Lapsed(s, dashNow)

\* A good session moves its idle limit; a lapsed one is swept with the rest.
ValidateSession(token) ==
  /\ bootstraps' = LiveBootstraps(bootstraps)
  /\ consumed' = LiveBootstraps(consumed)
  /\ dashSessions' =
       {IF s.token = token
          THEN [s EXCEPT !.idle = IF dashNow + IdleTtl < s.absolute THEN dashNow + IdleTtl ELSE s.absolute]
          ELSE s : s \in LiveSessions(dashSessions)}
  /\ UNCHANGED <<issued, origins, ended>>

\* Faulty: the session's record stays, so that it lives on until it idles out.
LogoutKept(token) ==
  /\ Cleanup(bootstraps, consumed, dashSessions)
  /\ ended' = ended \cup {token}
  /\ UNCHANGED <<issued, origins>>

Logout(token) ==
  /\ Cleanup(bootstraps, consumed, {s \in dashSessions : s.token # token})
  /\ ended' = ended \cup {token}
  /\ UNCHANGED <<issued, origins>>
-----------------------------------------------------------------------------
(* A request, from its arrival to its answer.                              *)

\* All that the handler makes of a request before its body is in: its route,
\* and the status it is refused with before any session is looked at.
Arrivals == {[route |-> r.route, refusal |-> Refusal(r)] : r \in Requests}
BodyStatuses == {FirstFailing(BodyChecks(r)) : r \in Requests} \ {0}

Idle == [phase |-> "idle", route |-> "none", status |-> 0, token |-> NoToken, over |-> FALSE]

Answer(c, status) ==
  call' = [call EXCEPT ![c] = IF status \in {200, 204}
             THEN [Idle EXCEPT !.status = status, !.route = call[c].route, !.over = call[c].over]
             ELSE [Idle EXCEPT !.status = status]]
Began(r, token, phase) ==
  [phase |-> phase, route |-> r.route, status |-> 0, token |-> token, over |-> token \in ended]

Presented == {NoToken} \cup 1..issued

\* Refused before any session is looked at: nothing but the answer comes of it.
Refused(c) ==
  \E r \in Arrivals : r.refusal # 0 /\ call' = [call EXCEPT ![c] = Idle] /\ UNCHANGED authVars

\* Snapshot, detail and logout look their session up at once; the first two
\* then read the ledger, the third its body.
Identified(c) ==
  \E r \in Arrivals, token \in Presented :
    /\ r.refusal = 0 /\ r.route \in {"snapshot", "detail", "logout"}
    /\ ValidateSession(token)
    /\ call' = [call EXCEPT ![c] =
         IF ResolveSession(token)
           THEN Began(r, token, IF r.route = "logout" THEN "body" ELSE "read")
           ELSE [Idle EXCEPT !.status = 401]]

\* Bootstrap and session requests wait for their body first; a session
\* request brings a bootstrap, or none.
BodyAwaited(c) ==
  \E r \in Arrivals, token \in Presented :
    /\ r.refusal = 0 /\ r.route \in {"bootstrap", "session"}
    /\ r.route = "bootstrap" => token = NoToken
    /\ call' = [call EXCEPT ![c] = Began(r, token, "body")]
    /\ UNCHANGED authVars

Arrives(c) ==
  call[c].phase = "idle" /\ (Refused(c) \/ Identified(c) \/ BodyAwaited(c)) /\ UNCHANGED <<dashNow, capVars>>

BodyRefused(c) ==
  \E status \in BodyStatuses : Answer(c, status) /\ UNCHANGED authVars

\* The bootstrap is looked up when the body is in, whatever it was before.
Exchange(c, token) ==
  \/ \E b \in bootstraps : b.token = token /\ Spend(b) /\ UNCHANGED ended /\ Answer(c, 200)
  \/ /\ \A b \in bootstraps : b.token = token => dashNow >= b.expiresAt
     /\ Cleanup({b \in bootstraps : b.token # token}, consumed, dashSessions)
     /\ Answer(c, IF \E b \in consumed : b.token = token /\ dashNow < b.expiresAt
                       /\ \A a \in bootstraps : a.token # token THEN 409 ELSE 401)
     /\ UNCHANGED <<issued, origins, ended>>

BodyArrives(c) ==
  /\ call[c].phase = "body"
  /\ \/ BodyRefused(c)
     \/ call[c].route = "bootstrap" /\ CreateBootstrap /\ Answer(c, 200)
     \/ call[c].route = "session" /\ call[c].token = NoToken /\ CreateSession /\ Answer(c, 200)
     \/ call[c].route = "session" /\ call[c].token # NoToken /\ Exchange(c, call[c].token)
     \/ /\ call[c].route = "logout" /\ ResolveSession(call[c].token)
        /\ Logout(call[c].token) /\ Answer(c, 204)
     \/ /\ call[c].route = "logout" /\ ~ResolveSession(call[c].token)
        /\ Cleanup(bootstraps, consumed, dashSessions) /\ UNCHANGED <<issued, origins, ended>>
        /\ Answer(c, 401)
  /\ UNCHANGED <<dashNow, capVars>>

\* The ledger answers: with the data, with nothing, or with a failure.
ReadEnds(c) ==
  /\ call[c].phase = "read"
  /\ \E status \in {200, 500} \cup (IF call[c].route = "detail" THEN {404} ELSE {}) : Answer(c, status)
  /\ UNCHANGED <<dashNow, authVars, capVars>>

DashTick ==
  /\ dashNow < MaxDashTime
  /\ dashNow' = dashNow + 1
  /\ ended' = ended \cup {s.token : s \in {x \in dashSessions : Lapsed(x, dashNow + 1)}}
  /\ UNCHANGED <<bootstraps, consumed, dashSessions, issued, origins, call, capVars>>
-----------------------------------------------------------------------------
(* The control capability. A process reads the file; where there is none   *)
(* it draws a token, writes it to a temporary file and links that to the   *)
(* name, which fails when another process was first. Four attempts.        *)

NoCapability == 0
Attempts == 4

Starting == [step |-> "read", mine |-> NoCapability, tries |-> 0]

ReadCapability(p) ==
  /\ holder[p].step = "read"
  /\ IF capFile # NoCapability
       THEN holder' = [holder EXCEPT ![p].step = "ready", ![p].mine = capFile] /\ UNCHANGED drawn
       ELSE /\ drawn < MaxCapabilities
            /\ drawn' = drawn + 1
            /\ holder' = [holder EXCEPT ![p].step = "publish", ![p].mine = drawn + 1]
  /\ UNCHANGED <<dashNow, authVars, call, capFile, removals>>

PublishCapability(p) ==
  /\ holder[p].step = "publish"
  /\ IF capFile = NoCapability
       THEN capFile' = holder[p].mine /\ holder' = [holder EXCEPT ![p].step = "restrict"]
       ELSE /\ holder' = [holder EXCEPT ![p] =
                 [step |-> IF @.tries + 1 < Attempts THEN "read" ELSE "failed",
                  mine |-> NoCapability, tries |-> @.tries + 1]]
            /\ UNCHANGED capFile
  /\ UNCHANGED <<dashNow, authVars, call, drawn, removals>>

\* The published file's permissions are set; when that fails the process
\* has no capability, and the file stays for the next one.
RestrictCapability(p) ==
  /\ holder[p].step = "restrict"
  /\ \/ holder' = [holder EXCEPT ![p].step = "ready"]
     \/ holder' = [holder EXCEPT ![p].step = "failed", ![p].mine = NoCapability]
  /\ UNCHANGED <<dashNow, authVars, call, capFile, drawn, removals>>

Restarts(p) ==
  /\ holder[p].step \in {"ready", "failed", "publish"}
  /\ holder' = [holder EXCEPT ![p] = Starting]
  /\ UNCHANGED <<dashNow, authVars, call, capFile, drawn, removals>>

\* The operator deletes the file.
RemoveCapability ==
  /\ removals < MaxRemovals /\ capFile # NoCapability
  /\ capFile' = NoCapability /\ removals' = removals + 1
  /\ UNCHANGED <<dashNow, authVars, call, drawn, holder>>
-----------------------------------------------------------------------------
DashInit ==
  /\ dashNow = 0 /\ bootstraps = {} /\ consumed = {} /\ dashSessions = {} /\ issued = 0
  /\ origins = [t \in Tokens |-> NoToken] /\ ended = {}
  /\ call = [c \in Callers |-> Idle]
  /\ capFile = NoCapability /\ drawn = 0 /\ removals = 0
  /\ holder = [p \in Holders |-> Starting]

BrowserSteps == DashTick \/ \E c \in Callers : Arrives(c) \/ BodyArrives(c) \/ ReadEnds(c)
CapabilitySteps ==
  RemoveCapability \/ \E p \in Holders :
    ReadCapability(p) \/ PublishCapability(p) \/ RestrictCapability(p) \/ Restarts(p)

DashSpec == DashInit /\ [][BrowserSteps \/ CapabilitySteps]_dashVars
-----------------------------------------------------------------------------
\* A bootstrap is worth one session, however its exchanges interleave with
\* each other, with its expiry and with the sweep of what has lapsed
\* (dashboard-auth.ts exchangeBootstrap).
BootstrapsAreSpentOnce ==
  \A t, u \in 1..issued : t # u /\ origins[t] # NoToken => origins[t] # origins[u]

\* A request that begins after its session was logged out or had lapsed is
\* answered with no data and ends no session, and no session outlives its
\* absolute limit by being used (dashboard-auth.ts validateSession, logout).
EndedSessionsAnswerNothing ==
  /\ \A c \in Callers : call[c].route \in {"snapshot", "detail", "logout"} /\ call[c].over
        => call[c].status \notin {200, 204}
  /\ \A s \in dashSessions : s.idle <= s.absolute

\* Unless the file is deleted under them, every process that came through its
\* start holds the capability that is in the file, whoever published it and
\* whoever gave up half-way (control-authorization.ts loadOrCreateCapability).
OneCapability ==
  removals = 0 => \A p \in Holders : holder[p].step = "ready" => holder[p].mine = capFile

\* What lets a caller in was given once, still stands, and is the one the relay publishes.
AdmissionIsSound == BootstrapsAreSpentOnce /\ EndedSessionsAnswerNothing /\ OneCapability
=============================================================================
