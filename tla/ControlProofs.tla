---------------------------- MODULE ControlProofs ----------------------------
(***************************************************************************)
(* Proofs about what controls the relay: its dashboard sessions and the    *)
(* capability its processes share, the loop that probes in the background, *)
(* the catalogue of models, and the configuration that is reloaded, for    *)
(* any number of callers, processes, credentials and providers, for any    *)
(* limits and any documents.                                               *)
(***************************************************************************)
EXTENDS DashboardSession, BackgroundProbes, ModelCatalog, ConfigReload, WellFoundedInduction, TLAPS

-----------------------------------------------------------------------------
(***************************************************************************)
(* Dashboard sessions.                                                     *)
(***************************************************************************)
Bootstrap == [token : 1 .. issued, expiresAt : Nat]
Session == [token : 1 .. issued, idle : Nat, absolute : Nat]
Statuses == {0, 200, 204, 401, 404, 409, 500} \cup BodyStatuses
Calls == [phase : {"idle", "body", "read"}, route : Routes \cup {"none"}, status : Statuses,
          token : 0 .. issued, over : BOOLEAN]

TableTypes ==
    /\ dashNow \in Nat
    /\ issued \in 0 .. MaxTokens
    /\ origins \in [Tokens -> 0 .. issued]
    /\ bootstraps \subseteq Bootstrap
    /\ consumed \subseteq Bootstrap
    /\ dashSessions \subseteq Session
    /\ ended \subseteq 1 .. issued
CallTypes == call \in [Callers -> Calls]

\* A bootstrap that can still be exchanged is the only one of its token, and no session came from it.
BootstrapsAreFresh ==
    /\ \A a, b \in bootstraps : a.token = b.token => a = b
    /\ \A b \in bootstraps, t \in Tokens : origins[t] # b.token
    /\ \A t, u \in Tokens : t # u /\ origins[t] # NoToken => origins[t] # origins[u]
    /\ \A t \in Tokens : t > issued => origins[t] = NoToken

\* A session has one record, and one that has ended is good for nothing.
EndedIsOver ==
    /\ \A s, u \in dashSessions : s.token = u.token => s = u
    /\ \A s \in dashSessions : s.idle <= s.absolute
    /\ \A s \in dashSessions : s.token \in ended => Lapsed(s, dashNow)

\* No request that looked a session up began after its end.
LookedUpInTime ==
    \A c \in Callers : call[c].route \in {"snapshot", "detail", "logout"} => ~call[c].over

AuthInv == TableTypes /\ BootstrapsAreFresh /\ EndedIsOver
CallInv == CallTypes /\ LookedUpInTime
SessionInv == AuthInv /\ CallInv

HolderStates == [step : {"read", "publish", "restrict", "ready", "failed"}, mine : Nat, tries : Nat]

\* Until the file is removed, whoever has been past it holds what it holds.
CapabilityInv ==
    /\ capFile \in Nat /\ drawn \in Nat /\ removals \in Nat
    /\ holder \in [Holders -> HolderStates]
    /\ \A p \in Holders : holder[p].step \in {"publish", "restrict", "ready"} => holder[p].mine # NoCapability
    /\ removals = 0 =>
         \A p \in Holders : holder[p].step \in {"restrict", "ready"} => holder[p].mine = capFile

-----------------------------------------------------------------------------
\* At the start nothing has been issued and nobody holds anything.
LEMMA DashStarts == DashInit => SessionInv /\ CapabilityInv
  <1> SUFFICES ASSUME DashInit PROVE SessionInv /\ CapabilityInv
      OBVIOUS
  <1>1. Idle \in Calls
        BY DEF DashInit, Idle, Calls, NoToken, Statuses
  <1>2. TableTypes /\ CallTypes
        BY <1>1, DashAssumption DEF DashInit, TableTypes, CallTypes, NoToken
  <1>3. BootstrapsAreFresh /\ EndedIsOver
        BY DEF DashInit, BootstrapsAreFresh, EndedIsOver, Tokens
  <1>4. LookedUpInTime
        BY DEF DashInit, LookedUpInTime, Idle
  <1>5. CapabilityInv
        BY DEF DashInit, CapabilityInv, HolderStates, Starting, NoCapability
  <1> QED BY <1>2, <1>3, <1>4, <1>5 DEF SessionInv, AuthInv, CallInv

\* The steps around the capability file.
LEMMA CapabilityStepKeeps == ASSUME CapabilityInv, CapabilitySteps PROVE CapabilityInv'
  <1> USE DEF CapabilityInv, HolderStates, NoCapability
  <1>1. CASE RemoveCapability
        BY <1>1 DEF RemoveCapability
  <1>2. ASSUME NEW p \in Holders, ReadCapability(p) PROVE CapabilityInv'
        BY <1>2 DEF ReadCapability
  <1>3. ASSUME NEW p \in Holders, PublishCapability(p) PROVE CapabilityInv'
    <2>1. CASE capFile = NoCapability
          BY <1>3, <2>1 DEF PublishCapability
    <2>2. CASE capFile # NoCapability
          BY <1>3, <2>2 DEF PublishCapability, Attempts
    <2> QED BY <2>1, <2>2
  <1>4. ASSUME NEW p \in Holders, RestrictCapability(p) PROVE CapabilityInv'
        BY <1>4 DEF RestrictCapability
  <1>5. ASSUME NEW p \in Holders, Restarts(p) PROVE CapabilityInv'
        BY <1>5 DEF Restarts, Starting
  <1> QED BY <1>1, <1>2, <1>3, <1>4, <1>5 DEF CapabilitySteps

\* No step of a browser touches the capability, and none of a process a session.
LEMMA ElsewhereKeeps ==
    /\ CapabilityInv /\ UNCHANGED capVars => CapabilityInv'
    /\ SessionInv /\ UNCHANGED <<dashNow, authVars, call>> => SessionInv'
  <1>1. CapabilityInv /\ UNCHANGED capVars => CapabilityInv'
        BY DEF CapabilityInv, capVars
  <1>2. SessionInv /\ UNCHANGED <<dashNow, authVars, call>> => SessionInv'
        BY DEF SessionInv, AuthInv, CallInv, TableTypes, CallTypes, Bootstrap, Session, Calls, BootstrapsAreFresh, EndedIsOver,
               LookedUpInTime, Lapsed, authVars
  <1> QED BY <1>1, <1>2

\* A sweep forgets nothing that is good, and nothing it keeps is new.
LEMMA SweepKeeps ==
    ASSUME AuthInv, NEW b \in SUBSET bootstraps, NEW c \in SUBSET Bootstrap, NEW s \in SUBSET dashSessions,
           Cleanup(b, c, s), ended' = ended, UNCHANGED <<dashNow, issued, origins>>
    PROVE  AuthInv'
  <1>1. TableTypes'
        BY DEF AuthInv, TableTypes, Bootstrap, Session, Cleanup, LiveBootstraps, LiveSessions
  <1>2. BootstrapsAreFresh'
        BY DEF AuthInv, BootstrapsAreFresh, Cleanup, LiveBootstraps
  <1>3. EndedIsOver'
        BY DEF AuthInv, EndedIsOver, Cleanup, LiveSessions, Lapsed
  <1> QED BY <1>1, <1>2, <1>3 DEF AuthInv

\* The session that is looked up moves its idle limit, no further than its absolute one.
LEMMA LookUpKeeps ==
    ASSUME AuthInv, NEW token \in Presented, ValidateSession(token), UNCHANGED dashNow
    PROVE  AuthInv'
  <1> DEFINE Moved(s) == IF s.token = token
                           THEN [s EXCEPT !.idle = IF dashNow + IdleTtl < s.absolute THEN dashNow + IdleTtl
                                                   ELSE s.absolute]
                           ELSE s
  <1>1. dashSessions' = {Moved(s) : s \in LiveSessions(dashSessions)}
        BY DEF ValidateSession
  <1>2. ASSUME NEW s \in dashSessions
        PROVE  /\ Moved(s) \in Session /\ Moved(s).token = s.token /\ Moved(s).absolute = s.absolute
               /\ Moved(s).idle <= Moved(s).absolute
        BY DashAssumption DEF AuthInv, TableTypes, EndedIsOver, Session
  <1>3. ASSUME NEW s \in LiveSessions(dashSessions)
        PROVE  s \in dashSessions /\ s.token \notin ended
        BY DEF LiveSessions, AuthInv, EndedIsOver
  <1>4. TableTypes'
        BY <1>1, <1>2, <1>3 DEF ValidateSession, AuthInv, TableTypes, Bootstrap, Session, LiveBootstraps
  <1>5. BootstrapsAreFresh'
        BY DEF ValidateSession, AuthInv, BootstrapsAreFresh, LiveBootstraps
  <1>6. EndedIsOver'
    <2>1. ASSUME NEW s \in dashSessions', NEW u \in dashSessions', s.token = u.token PROVE s = u
      <3>1. PICK x \in LiveSessions(dashSessions) : s = Moved(x)
            BY <1>1
      <3>2. PICK y \in LiveSessions(dashSessions) : u = Moved(y)
            BY <1>1
      <3>3. x = y
            BY <1>2, <1>3, <2>1, <3>1, <3>2 DEF AuthInv, EndedIsOver
      <3> QED BY <3>1, <3>2, <3>3
    <2>2. ASSUME NEW s \in dashSessions' PROVE s.idle <= s.absolute /\ s.token \notin ended'
      <3>1. PICK x \in LiveSessions(dashSessions) : s = Moved(x)
            BY <1>1
      <3> QED BY <1>2, <1>3, <3>1 DEF ValidateSession
    <2> QED BY <2>1, <2>2 DEF EndedIsOver
  <1> QED BY <1>4, <1>5, <1>6 DEF AuthInv

\* What was typed before a token is issued is typed after it.
LEMMA TokensGrow ==
    ASSUME TableTypes, issued < MaxTokens, issued' = issued + 1
    PROVE  /\ Bootstrap \subseteq Bootstrap' /\ Session \subseteq Session'
           /\ issued' \in 1 .. MaxTokens /\ 1 .. issued \subseteq 1 .. issued'
           /\ origins \in [Tokens -> 0 .. issued']
    BY DashAssumption DEF TableTypes, Bootstrap, Session

\* A new bootstrap has a token nothing else has.
LEMMA NewBootstrapKeeps == ASSUME AuthInv, CreateBootstrap, UNCHANGED dashNow PROVE AuthInv'
  <1> DEFINE new == [token |-> issued + 1, expiresAt |-> dashNow + BootstrapTtl]
  <1>1. /\ issued' = issued + 1 /\ bootstraps' = LiveBootstraps(bootstraps \cup {new})
        /\ consumed' = LiveBootstraps(consumed) /\ dashSessions' = LiveSessions(dashSessions)
        /\ UNCHANGED <<origins, ended>>
        BY DEF CreateBootstrap, Cleanup
  <1>2. new \in [token : 1 .. issued + 1, expiresAt : Nat] /\ new.token = issued + 1
        BY DashAssumption DEF AuthInv, TableTypes
  <1> HIDE DEF new
  <1>3. TableTypes'
        BY <1>1, <1>2, TokensGrow DEF CreateBootstrap, AuthInv, TableTypes, Bootstrap, LiveBootstraps, LiveSessions
  <1>4. \A b \in bootstraps : b.token \in 1 .. issued
        BY DEF AuthInv, TableTypes, Bootstrap
  <1>5. BootstrapsAreFresh'
    <2>1. \A t \in Tokens : origins[t] \in 0 .. issued
          BY DEF AuthInv, TableTypes
    <2>2. issued \in Nat
          BY DEF AuthInv, TableTypes
    <2> QED BY <1>1, <1>2, <1>4, <2>1, <2>2 DEF AuthInv, BootstrapsAreFresh, LiveBootstraps, Tokens
  <1>6. EndedIsOver'
        BY <1>1 DEF AuthInv, EndedIsOver, LiveSessions, Lapsed
  <1> QED BY <1>3, <1>5, <1>6 DEF AuthInv

\* A session that is issued comes from a bootstrap that is spent with it, or from none.
LEMMA NewSessionKeeps ==
    ASSUME AuthInv, NEW from \in 0 .. issued, NEW b \in SUBSET bootstraps, NEW c \in SUBSET Bootstrap,
           IssueSession(from, b, c), UNCHANGED <<dashNow, ended>>,
           from # NoToken => /\ \A t \in Tokens : origins[t] # from
                             /\ \A a \in b : a.token # from
    PROVE  AuthInv'
  <1> DEFINE limit == dashNow + (IF IdleTtl < AbsoluteTtl THEN IdleTtl ELSE AbsoluteTtl)
             new == [token |-> issued + 1, idle |-> limit, absolute |-> dashNow + AbsoluteTtl]
  <1>1. /\ issued < MaxTokens /\ issued' = issued + 1
        /\ origins' = [origins EXCEPT ![issued + 1] = from]
        /\ bootstraps' = LiveBootstraps(b) /\ consumed' = c
        /\ dashSessions' = LiveSessions(dashSessions) \cup {new}
        /\ UNCHANGED <<dashNow, ended>>
        BY DEF IssueSession
  <1>2. /\ new \in [token : 1 .. issued + 1, idle : Nat, absolute : Nat]
        /\ new.token = issued + 1 /\ new.idle <= new.absolute
        BY DashAssumption DEF AuthInv, TableTypes
  <1> HIDE DEF new
  <1>3. issued \in Nat /\ issued + 1 \in Tokens
        BY <1>1, DashAssumption DEF AuthInv, TableTypes, Tokens
  <1>4. TableTypes'
        BY <1>1, <1>2, <1>3, TokensGrow, DashAssumption
           DEF AuthInv, TableTypes, Bootstrap, Session, LiveBootstraps, LiveSessions
  <1>5. BootstrapsAreFresh'
    <2>1. \A t \in Tokens : origins[t] \in 0 .. issued /\ origins'[t] = IF t = issued + 1 THEN from ELSE origins[t]
          BY <1>1, <1>3 DEF AuthInv, TableTypes
    <2>2. \A x \in bootstraps : x.token \in 1 .. issued
          BY DEF AuthInv, TableTypes, Bootstrap
    <2>3. bootstraps' \subseteq b
          BY <1>1 DEF LiveBootstraps
    <2>4. \A x, y \in bootstraps' : x.token = y.token => x = y
          BY <2>3 DEF AuthInv, BootstrapsAreFresh
    <2>5. \A x \in bootstraps', t \in Tokens : origins'[t] # x.token
          BY <2>1, <2>2, <2>3 DEF AuthInv, BootstrapsAreFresh, NoToken
    <2>6. \A t, u \in Tokens : t # u /\ origins'[t] # NoToken => origins'[t] # origins'[u]
          BY <1>3, <2>1 DEF AuthInv, BootstrapsAreFresh, NoToken
    <2>7. \A t \in Tokens : t > issued' => origins'[t] = NoToken
          BY <1>1, <1>3, <2>1 DEF AuthInv, BootstrapsAreFresh, Tokens
    <2> QED BY <2>4, <2>5, <2>6, <2>7 DEF BootstrapsAreFresh
  <1>6. EndedIsOver'
    <2>1. \A s \in dashSessions : s.token \in 1 .. issued
          BY DEF AuthInv, TableTypes, Session
    <2>2. issued + 1 \notin ended
          BY <1>3 DEF AuthInv, TableTypes
    <2>3. dashSessions' \subseteq dashSessions \cup {new}
          BY <1>1 DEF LiveSessions
    <2>4. \A s, u \in dashSessions' : s.token = u.token => s = u
          BY <1>2, <1>3, <2>1, <2>3 DEF AuthInv, EndedIsOver
    <2>5. \A s \in dashSessions' : s.idle <= s.absolute
          BY <1>2, <2>3 DEF AuthInv, EndedIsOver
    <2>6. \A s \in dashSessions' : s.token \in ended' => Lapsed(s, dashNow')
          BY <1>1, <1>2, <2>2, <2>3 DEF AuthInv, EndedIsOver
    <2> QED BY <2>4, <2>5, <2>6 DEF EndedIsOver
  <1> QED BY <1>4, <1>5, <1>6 DEF AuthInv

\* A session that is logged out is gone.
LEMMA LogoutKeeps ==
    ASSUME AuthInv, NEW token \in 1 .. issued, Logout(token), UNCHANGED dashNow
    PROVE  AuthInv'
  <1>1. /\ bootstraps' = LiveBootstraps(bootstraps) /\ consumed' = LiveBootstraps(consumed)
        /\ dashSessions' = LiveSessions({s \in dashSessions : s.token # token})
        /\ ended' = ended \cup {token} /\ UNCHANGED <<issued, origins>>
        BY DEF Logout, Cleanup
  <1>2. TableTypes'
        BY <1>1 DEF AuthInv, TableTypes, Bootstrap, Session, LiveBootstraps, LiveSessions
  <1>3. BootstrapsAreFresh'
        BY <1>1 DEF AuthInv, BootstrapsAreFresh, LiveBootstraps
  <1>4. EndedIsOver'
        BY <1>1 DEF AuthInv, EndedIsOver, LiveSessions, Lapsed
  <1> QED BY <1>2, <1>3, <1>4 DEF AuthInv

\* Time passes: what lapses with it has ended.
LEMMA TimeKeeps == ASSUME AuthInv, DashTick PROVE AuthInv'
  <1>1. TableTypes'
    <2>1. ASSUME NEW s \in dashSessions PROVE s.token \in 1 .. issued
          BY DEF AuthInv, TableTypes, Session
    <2>2. ended' \subseteq 1 .. issued
          BY <2>1 DEF DashTick, AuthInv, TableTypes
    <2> QED BY <2>2 DEF DashTick, AuthInv, TableTypes, Bootstrap, Session
  <1>2. BootstrapsAreFresh'
        BY DEF DashTick, AuthInv, BootstrapsAreFresh
  <1>3. EndedIsOver'
    <2>1. ASSUME NEW s \in dashSessions, s.token \in ended' PROVE Lapsed(s, dashNow + 1)
      <3>1. CASE s.token \in ended
        <4>1. s \in Session /\ Lapsed(s, dashNow) /\ dashNow \in Nat
              BY <3>1 DEF AuthInv, TableTypes, EndedIsOver
        <4> QED BY <4>1 DEF Session, Lapsed
      <3>2. CASE s.token \notin ended
            BY <2>1, <3>2 DEF DashTick, AuthInv, EndedIsOver
      <3> QED BY <3>1, <3>2
    <2> QED BY <2>1 DEF DashTick, AuthInv, EndedIsOver
  <1> QED BY <1>1, <1>2, <1>3 DEF AuthInv

\* An answer leaves the request's route only where it carries data or ends a session.
LEMMA AnswerKeeps ==
    ASSUME CallInv, NEW c \in Callers, NEW status \in Statuses, Answer(c, status),
           issued \in Nat, issued' \in Nat, issued <= issued'
    PROVE  CallInv'
  <1>1. Calls \subseteq Calls'
        BY DEF Calls
  <1>2. call[c] \in Calls
        BY DEF CallInv, CallTypes
  <1> DEFINE after == IF status \in {200, 204}
             THEN [Idle EXCEPT !.status = status, !.route = call[c].route, !.over = call[c].over]
             ELSE [Idle EXCEPT !.status = status]
  <1>3. after \in Calls' /\ ((after.route = call[c].route /\ after.over = call[c].over)
                               \/ after.route = "none")
    <2>1. Statuses' = Statuses
          BY DEF Statuses
    <2>2. CASE status \in {200, 204}
      <3>1. after = [phase |-> "idle", route |-> call[c].route, status |-> status, token |-> NoToken,
                     over |-> call[c].over]
            BY <2>2 DEF Idle
      <3> HIDE DEF after
      <3>2. call[c].route \in Routes \cup {"none"} /\ call[c].over \in BOOLEAN
            BY <1>2 DEF Calls
      <3> QED BY <2>1, <3>1, <3>2 DEF Calls, NoToken
    <2>3. CASE status \notin {200, 204}
      <3>1. after = [phase |-> "idle", route |-> "none", status |-> status, token |-> NoToken, over |-> FALSE]
            BY <2>3 DEF Idle
      <3> HIDE DEF after
      <3> QED BY <2>1, <3>1 DEF Calls, NoToken
    <2> QED BY <2>2, <2>3
  <1> HIDE DEF after
  <1>4. call' = [call EXCEPT ![c] = after]
        BY DEF Answer, after
  <1>5. CallTypes'
        BY <1>1, <1>3, <1>4 DEF CallInv, CallTypes
  <1>6. LookedUpInTime'
        BY <1>3, <1>4 DEF CallInv, CallTypes, LookedUpInTime
  <1> QED BY <1>5, <1>6 DEF CallInv

\* A request arrives.
LEMMA ArrivalKeeps == ASSUME SessionInv, NEW c \in Callers, Arrives(c) PROVE SessionInv'
  <1>0. TableTypes /\ CallTypes /\ issued \in Nat /\ UNCHANGED dashNow
        BY DEF SessionInv, AuthInv, CallInv, TableTypes, Arrives
  <1>1. CASE Refused(c)
    <2>1. call' = [call EXCEPT ![c] = Idle] /\ UNCHANGED authVars
          BY <1>1 DEF Refused
    <2>2. Idle \in Calls /\ Idle.route = "none"
          BY <1>0 DEF Idle, Calls, NoToken, Statuses
    <2>3. AuthInv'
          BY <1>0, <2>1 DEF SessionInv, AuthInv, TableTypes, Bootstrap, Session, BootstrapsAreFresh, EndedIsOver,
                            Lapsed, authVars
    <2>4. Calls' = Calls
          BY <2>1 DEF Calls, authVars
    <2>5. CallInv'
          BY <2>1, <2>2, <2>4 DEF SessionInv, CallInv, CallTypes, LookedUpInTime
    <2> QED BY <2>3, <2>5 DEF SessionInv
  <1>2. CASE Identified(c)
    <2>1. PICK r \in Arrivals, token \in Presented :
             /\ r.route \in {"snapshot", "detail", "logout"} /\ ValidateSession(token)
             /\ call' = [call EXCEPT ![c] =
                   IF ResolveSession(token)
                     THEN Began(r, token, IF r.route = "logout" THEN "body" ELSE "read")
                     ELSE [Idle EXCEPT !.status = 401]]
          BY <1>2 DEF Identified
    <2>2. AuthInv'
          BY <1>0, <2>1, LookUpKeeps DEF SessionInv
    <2>3. issued' = issued /\ Calls' = Calls
          BY <2>1 DEF ValidateSession, Calls
    <2>4. CASE ResolveSession(token)
      <3>1. token \notin ended
            BY <2>4 DEF ResolveSession, Found, SessionInv, AuthInv, EndedIsOver
      <3> DEFINE phase == IF r.route = "logout" THEN "body" ELSE "read"
                 began == Began(r, token, phase)
      <3>2. began.over = FALSE /\ began \in Calls
        <4>1. began = [phase |-> phase, route |-> r.route, status |-> 0, token |-> token, over |-> FALSE]
          <5>1. (token \in ended) = FALSE
                BY <3>1
          <5> QED BY <5>1 DEF Began
        <4>2. phase \in {"idle", "body", "read"} /\ 0 \in Statuses
              BY DEF Statuses
        <4>3. r.route \in Routes
              BY <2>1 DEF Routes, Policies
        <4>4. token \in 0 .. issued
              BY <1>0 DEF Presented, NoToken
        <4> HIDE DEF began, phase
        <4> QED BY <4>1, <4>2, <4>3, <4>4 DEF Calls
      <3>3. call' = [call EXCEPT ![c] = began]
            BY <2>1, <2>4
      <3> HIDE DEF began
      <3>4. CallTypes'
            BY <2>3, <3>2, <3>3 DEF SessionInv, CallInv, CallTypes
      <3>5. LookedUpInTime'
            BY <3>2, <3>3 DEF SessionInv, CallInv, CallTypes, LookedUpInTime
      <3> QED BY <2>2, <3>4, <3>5 DEF SessionInv, CallInv
    <2>5. CASE ~ResolveSession(token)
      <3> DEFINE refused == [Idle EXCEPT !.status = 401]
      <3>1. refused \in Calls /\ refused.route = "none"
        <4>1. refused \in [phase : {"idle"}, route : {"none"}, status : {401}, token : {NoToken}, over : BOOLEAN]
              BY DEF Idle
        <4>2. 401 \in Statuses /\ NoToken \in 0 .. issued
              BY <1>0 DEF Statuses, NoToken
        <4> HIDE DEF refused
        <4> QED BY <4>1, <4>2 DEF Calls
      <3>2. call' = [call EXCEPT ![c] = refused]
            BY <2>1, <2>5
      <3> HIDE DEF refused
      <3>3. CallInv'
            BY <2>3, <3>1, <3>2 DEF SessionInv, CallInv, CallTypes, LookedUpInTime
      <3> QED BY <2>2, <3>3 DEF SessionInv
    <2> QED BY <2>4, <2>5
  <1>3. CASE BodyAwaited(c)
    <2>1. PICK r \in Arrivals, token \in Presented :
             /\ r.route \in {"bootstrap", "session"} /\ call' = [call EXCEPT ![c] = Began(r, token, "body")]
             /\ UNCHANGED authVars
          BY <1>3 DEF BodyAwaited
    <2> DEFINE began == Began(r, token, "body")
    <2>2. (token \in ended) \in BOOLEAN
          OBVIOUS
    <2>3. began \in Calls /\ began.route \in {"bootstrap", "session"}
          BY <1>0, <2>1, <2>2 DEF Began, Calls, Presented, NoToken, Statuses, Routes, Policies
    <2>4. call' = [call EXCEPT ![c] = began]
          BY <2>1
    <2> HIDE DEF began
    <2>5. AuthInv'
          BY <1>0, <2>1 DEF SessionInv, AuthInv, TableTypes, Bootstrap, Session, BootstrapsAreFresh, EndedIsOver,
                            Lapsed, authVars
    <2>6. Calls' = Calls
          BY <2>1 DEF Calls, authVars
    <2>7. CallInv'
          BY <2>3, <2>4, <2>6 DEF SessionInv, CallInv, CallTypes, LookedUpInTime
    <2> QED BY <2>5, <2>7 DEF SessionInv
  <1> QED BY <1>1, <1>2, <1>3 DEF Arrives

\* The body of a request is in: a bootstrap or a session is made, a bootstrap is exchanged, a session ends.
LEMMA BodyKeeps == ASSUME SessionInv, NEW c \in Callers, BodyArrives(c) PROVE SessionInv'
  <1>0. /\ AuthInv /\ CallInv /\ TableTypes /\ issued \in Nat /\ UNCHANGED dashNow
        /\ bootstraps \subseteq Bootstrap /\ consumed \subseteq Bootstrap
        BY DEF SessionInv, AuthInv, TableTypes, BodyArrives
  <1>1. ASSUME AuthInv', issued' \in {issued, issued + 1}, NEW status \in Statuses, Answer(c, status)
        PROVE  SessionInv'
        BY <1>0, <1>1, AnswerKeeps DEF SessionInv
  <1>2. LiveBootstraps(consumed) \subseteq Bootstrap /\ LiveBootstraps(bootstraps) \subseteq bootstraps
        BY <1>0 DEF LiveBootstraps
  <1>3. CASE BodyRefused(c)
    <2>1. PICK status \in BodyStatuses : Answer(c, status) /\ UNCHANGED authVars
          BY <1>3 DEF BodyRefused
    <2>2. AuthInv'
          BY <1>0, <2>1 DEF AuthInv, TableTypes, Bootstrap, Session, BootstrapsAreFresh, EndedIsOver, Lapsed, authVars
    <2>3. issued' = issued /\ status \in Statuses
          BY <2>1 DEF authVars, Statuses
    <2> QED BY <1>1, <2>1, <2>2, <2>3
  <1>4. CASE CreateBootstrap /\ Answer(c, 200)
        BY <1>0, <1>1, <1>4, NewBootstrapKeeps DEF CreateBootstrap, Statuses
  <1>5. CASE CreateSession /\ Answer(c, 200)
    <2>1. AuthInv'
          BY <1>0, <1>2, <1>5, NewSessionKeeps DEF CreateSession, NoToken
    <2> QED BY <1>1, <1>5, <2>1 DEF CreateSession, IssueSession, Statuses
  <1>6. CASE Exchange(c, call[c].token)
    <2>1. ASSUME NEW b \in bootstraps, Spend(b), UNCHANGED ended, Answer(c, 200) PROVE SessionInv'
      <3>1. b.token \in 0 .. issued /\ b \in Bootstrap
            BY <1>0, <2>1 DEF Bootstrap
      <3>2. LiveBootstraps(consumed) \cup {b} \subseteq Bootstrap /\ bootstraps \ {b} \subseteq bootstraps
            BY <1>2, <3>1
      <3>3. \A a \in bootstraps \ {b} : a.token # b.token
            BY DEF SessionInv, AuthInv, BootstrapsAreFresh
      <3>4. \A t \in Tokens : origins[t] # b.token
            BY DEF SessionInv, AuthInv, BootstrapsAreFresh
      <3>5. IssueSession(b.token, bootstraps \ {b}, LiveBootstraps(consumed) \cup {b})
            BY <2>1 DEF Spend
      <3>6. AuthInv'
            BY <1>0, <2>1, <3>1, <3>2, <3>3, <3>4, <3>5, NewSessionKeeps
      <3> QED BY <1>1, <2>1, <3>5, <3>6 DEF IssueSession, Statuses
    <2>2. ASSUME NEW token, Cleanup({b \in bootstraps : b.token # token}, consumed, dashSessions),
                 NEW status \in {401, 409}, Answer(c, status), UNCHANGED <<issued, origins, ended>>
          PROVE  SessionInv'
      <3>1. {b \in bootstraps : b.token # token} \in SUBSET bootstraps
            OBVIOUS
      <3>2. AuthInv'
            BY <1>0, <2>2, <3>1, SweepKeeps
      <3> QED BY <1>1, <2>2, <3>2 DEF Statuses
    <2>3. ASSUME /\ Cleanup({b \in bootstraps : b.token # call[c].token}, consumed, dashSessions)
                 /\ Answer(c, IF \E b \in consumed : b.token = call[c].token /\ dashNow < b.expiresAt
                                   /\ \A a \in bootstraps : a.token # call[c].token THEN 409 ELSE 401)
                 /\ UNCHANGED <<issued, origins, ended>>
          PROVE  SessionInv'
      <3>1. (IF \E b \in consumed : b.token = call[c].token /\ dashNow < b.expiresAt
                  /\ \A a \in bootstraps : a.token # call[c].token THEN 409 ELSE 401) \in {401, 409}
            OBVIOUS
      <3> QED BY <2>2, <2>3, <3>1
    <2>4. CASE \E b \in bootstraps : b.token = call[c].token /\ Spend(b) /\ UNCHANGED ended /\ Answer(c, 200)
          BY <2>1, <2>4
    <2> QED BY <1>6, <2>3, <2>4, Zenon DEF Exchange
  <1>7. CASE ResolveSession(call[c].token) /\ Logout(call[c].token) /\ Answer(c, 204)
    <2>1. call[c].token \in 1 .. issued
          BY <1>0, <1>7 DEF ResolveSession, Found, TableTypes, Session
    <2>2. AuthInv'
          BY <1>0, <1>7, <2>1, LogoutKeeps
    <2> QED BY <1>1, <1>7, <2>2 DEF Logout, Statuses
  <1>8. CASE Cleanup(bootstraps, consumed, dashSessions) /\ UNCHANGED <<issued, origins, ended>> /\ Answer(c, 401)
    <2>1. AuthInv'
          BY <1>0, <1>8, SweepKeeps
    <2> QED BY <1>1, <1>8, <2>1 DEF Statuses
  <1> QED BY <1>3, <1>4, <1>5, <1>6, <1>7, <1>8 DEF BodyArrives

\* The ledger has been read.
LEMMA ReadKeeps == ASSUME SessionInv, NEW c \in Callers, ReadEnds(c) PROVE SessionInv'
  <1>1. PICK status \in {200, 404, 500} : Answer(c, status)
        BY DEF ReadEnds
  <1>2. AuthInv' /\ issued' = issued /\ issued \in Nat
        BY DEF ReadEnds, SessionInv, AuthInv, TableTypes, Bootstrap, Session, BootstrapsAreFresh, EndedIsOver,
               Lapsed, authVars
  <1> QED BY <1>1, <1>2, AnswerKeeps DEF SessionInv, Statuses

\* Every step of the browsers and of time keeps what the tables promise.
LEMMA BrowserStepKeeps == ASSUME SessionInv, BrowserSteps PROVE SessionInv'
  <1>1. CASE DashTick
    <2>1. AuthInv'
          BY <1>1, TimeKeeps DEF SessionInv
    <2>2. CallInv'
          BY <1>1 DEF DashTick, SessionInv, CallInv, CallTypes, Calls, LookedUpInTime
    <2> QED BY <2>1, <2>2 DEF SessionInv
  <1> QED BY <1>1, ArrivalKeeps, BodyKeeps, ReadKeeps DEF BrowserSteps

\* Every step keeps the invariant of the control surface.
LEMMA DashStepKeeps ==
    ASSUME SessionInv, CapabilityInv, [BrowserSteps \/ CapabilitySteps]_dashVars
    PROVE  SessionInv' /\ CapabilityInv'
  <1>1. CASE BrowserSteps
    <2>1. UNCHANGED capVars
          BY <1>1 DEF BrowserSteps, DashTick, Arrives, BodyArrives, ReadEnds
    <2> QED BY <1>1, <2>1, BrowserStepKeeps, ElsewhereKeeps
  <1>2. CASE CapabilitySteps
    <2>1. UNCHANGED <<dashNow, authVars, call>>
          BY <1>2 DEF CapabilitySteps, RemoveCapability, ReadCapability, PublishCapability, RestrictCapability, Restarts
    <2> QED BY <1>2, <2>1, CapabilityStepKeeps, ElsewhereKeeps
  <1>3. CASE UNCHANGED dashVars
        BY <1>3, ElsewhereKeeps DEF dashVars
  <1> QED BY <1>1, <1>2, <1>3

\* A bootstrap makes one session at most, an ended session lets nothing in, and the processes that came through
\* their start hold one capability, for any number of browsers and processes and any time limits.
\* (exchangeBootstrap, validateSession and logout, dashboard-auth.ts; loadOrCreateCapability,
\* control-authorization.ts.)
THEOREM AdmissionHolds == DashSpec => []AdmissionIsSound
  <1>1. DashInit => SessionInv /\ CapabilityInv
        BY DashStarts
  <1>2. SessionInv /\ CapabilityInv /\ [BrowserSteps \/ CapabilitySteps]_dashVars
           => (SessionInv /\ CapabilityInv)'
        BY DashStepKeeps
  <1>3. SessionInv /\ CapabilityInv => AdmissionIsSound
    <2> SUFFICES ASSUME SessionInv, CapabilityInv PROVE AdmissionIsSound
        OBVIOUS
    <2>1. BootstrapsAreSpentOnce
      <3>1. issued \in 0 .. MaxTokens
            BY DEF SessionInv, AuthInv, TableTypes
      <3>2. 1 .. issued \subseteq Tokens
            BY <3>1, DashAssumption DEF Tokens
      <3> QED BY <3>2 DEF SessionInv, AuthInv, BootstrapsAreFresh, BootstrapsAreSpentOnce
    <2>2. EndedSessionsAnswerNothing
          BY DEF SessionInv, AuthInv, CallInv, EndedIsOver, LookedUpInTime, EndedSessionsAnswerNothing
    <2>3. OneCapability
          BY DEF CapabilityInv, OneCapability
    <2> QED BY <2>1, <2>2, <2>3 DEF AdmissionIsSound
  <1> QED BY <1>1, <1>2, <1>3, PTL DEF DashSpec

-----------------------------------------------------------------------------
(***************************************************************************)
(* The background loop.                                                    *)
(***************************************************************************)
Stages == {"idle", "spend", "spending", "reprobe", "due"}
TickStates == [stage : Stages, elapsed : Nat, spent : Nat, cursor : Nat,
               todo : SUBSET (Names \cup Cells \cup Deployments),
               asking : Cells \cup {NoCell} \cup [deployment : Deployments, credential : Names]]

\* A cell's stamp is the moment it was last asked at: it is set before the probe is waited for.
StampsAreTimely ==
    /\ tick \in [Ticks -> TickStates]
    /\ credentialCursor \in Nat
    /\ reprobed \in [Cells -> Nat] /\ asked = reprobed

\* A loop that was stopped has no timer.
StoppedMeansUnarmed == ~running => timer = "none"

LoopInv == StampsAreTimely /\ StoppedMeansUnarmed

-----------------------------------------------------------------------------
\* The ages the stamps start from and grow to.
LEMMA LongAgoIsNatural == LongAgo \in Nat
  <1>1. {ReprobeTicks, SpendTicks} \subseteq Nat /\ ProbeTimeout \in Nat
        BY LoopAssumption
  <1>2. ASSUME NEW m \in {ReprobeTicks, SpendTicks}, \A x \in {ReprobeTicks, SpendTicks} : x <= m
        PROVE  Max({ReprobeTicks, SpendTicks}) \in {ReprobeTicks, SpendTicks}
        BY <1>2 DEF Max
  <1>3. Max({ReprobeTicks, SpendTicks}) \in {ReprobeTicks, SpendTicks}
    <2>1. CASE ReprobeTicks >= SpendTicks
          BY <1>1, <1>2, <2>1
    <2>2. CASE ~(ReprobeTicks >= SpendTicks)
          BY <1>1, <1>2, <2>2
    <2> QED BY <2>1, <2>2
  <1> QED BY <1>1, <1>3 DEF LongAgo

\* A set of naturals that is not empty has a least element.
LEMMA LeastNatural ==
    ASSUME NEW S \in SUBSET Nat, S # {}
    PROVE  \E n \in S : \A m \in S : n <= m
  <1> DEFINE Less == {ss \in Nat \X Nat : ss[1] < ss[2]}
  <1>1. IsWellFoundedOn(Less, Nat)
        BY NatLessThanWellFounded, Zenon DEF OpToRel
  <1>2. PICK n \in S : \A m \in S : ~(<<m, n>> \in Less)
        BY <1>1, WFMin
  <1>3. ASSUME NEW m \in S PROVE n <= m
    <2>1. <<m, n>> \in Nat \X Nat /\ <<m, n>>[1] = m /\ <<m, n>>[2] = n
          OBVIOUS
    <2> QED BY <1>2, <2>1
  <1> QED BY <1>3

\* At the start nothing has been asked for a while.
LEMMA LoopStarts == LoopInit => LoopInv
  <1> SUFFICES ASSUME LoopInit PROVE LoopInv
      OBVIOUS
  <1>1. IdleTick \in TickStates
        BY DEF IdleTick, TickStates, Stages
  <1> QED BY <1>1, LongAgoIsNatural DEF LoopInit, LoopInv, StampsAreTimely, StoppedMeansUnarmed

\* A timer that a step leaves alone or stops is not armed behind a loop that was stopped.
LEMMA PaceKeepsQuiet ==
    ASSUME StoppedMeansUnarmed, NEW pending \in {"none", timer}, running' = running,
           RefreshAutoPingMode(pending) \/ NoteUserActivity
    PROVE  StoppedMeansUnarmed'
    BY DEF StoppedMeansUnarmed, RefreshAutoPingMode, NoteUserActivity, SetPingMode

\* The rotation finds a credential of the list, or none.
LEMMA RotationStays ==
    ASSUME NEW from \in Nat, NEW d
    PROVE  NextCredential(from, d) \in {0} \cup DOMAIN Credentials
  <1> DEFINE turns == {i \in 1..Len(Credentials) : Serves(Turns(from)[i], d)}
  <1> SUFFICES ASSUME turns # {} PROVE Turns(from)[Min(turns)] \in DOMAIN Credentials
      BY DEF NextCredential
  <1>1. Min(turns) \in turns
    <2>1. turns \in SUBSET Nat
          BY LoopAssumption
    <2>2. PICK n \in turns : \A m \in turns : n <= m
          BY <2>1, LeastNatural
    <2> QED BY <2>2 DEF Min
  <1>2. Min(turns) \in 1..Len(Credentials)
        BY <1>1
  <1> HIDE DEF turns
  <1>3. ASSUME NEW i \in 1..Len(Credentials) PROVE Turns(from)[i] \in 1..Len(Credentials)
        BY <1>3, LoopAssumption DEF Turns
  <1> QED BY <1>2, <1>3, LoopAssumption

\* What a tick becomes is a tick.
LEMMA TickChanges ==
    ASSUME StampsAreTimely, NEW t \in Ticks, NEW r \in TickStates, Set(t, r), credentialCursor' \in Nat,
           UNCHANGED <<reprobed, asked>>
    PROVE  StampsAreTimely'
    BY DEF StampsAreTimely, Set, TickStates

\* A tick begins.
LEMMA BeginKeeps ==
    ASSUME LoopInv, NEW t \in Ticks, NEW pending \in {"none", timer}, BeginTick(t, pending), UNCHANGED running
    PROVE  LoopInv'
  <1>1. [IdleTick EXCEPT !.stage = "spend", !.todo = Names] \in TickStates
        BY DEF IdleTick, TickStates, Stages
  <1>2. StampsAreTimely'
        BY <1>1, TickChanges DEF BeginTick, LoopInv, StampsAreTimely
  <1> QED BY <1>2, PaceKeepsQuiet DEF BeginTick, LoopInv

\* A step of a tick.
LEMMA TickStepKeeps == ASSUME LoopInv, NEW t \in Ticks, TickSteps(t) PROVE LoopInv'
  <1>0. tick[t] \in TickStates /\ StampsAreTimely /\ StoppedMeansUnarmed /\ credentialCursor \in Nat
        BY DEF LoopInv, StampsAreTimely
  <1>1. ASSUME Quietly PROVE StoppedMeansUnarmed'
        BY <1>0, <1>1 DEF Quietly, StoppedMeansUnarmed
  <1>2. ASSUME NEW n \in Names, SpendAsks(t, n) PROVE LoopInv'
    <2>1. [tick[t] EXCEPT !.stage = "spending", !.todo = @ \ {n}] \in TickStates
          BY <1>0 DEF TickStates, Stages
    <2> QED BY <1>0, <1>1, <1>2, <2>1, TickChanges DEF SpendAsks, LoopInv
  <1>3. ASSUME NEW c \in Cells, ReprobeAsks(t, c) PROVE LoopInv'
    <2>1. [tick[t] EXCEPT !.todo = @ \ {c}, !.spent = @ + 1, !.asking = c] \in TickStates
      <3>1. tick[t].spent + 1 \in Nat
            BY <1>0 DEF TickStates
      <3> QED BY <1>0, <3>1, ZenonT(30) DEF TickStates
    <2>2. tick' \in [Ticks -> TickStates]
          BY <1>0, <1>3, <2>1 DEF ReprobeAsks, Set, StampsAreTimely
    <2>3. tick[t].elapsed \in Nat
          BY <1>0 DEF TickStates
    <2>4. StampsAreTimely'
          BY <1>0, <1>3, <2>2, <2>3 DEF ReprobeAsks, Stamped, StampsAreTimely
    <2> QED BY <1>1, <1>3, <2>4 DEF ReprobeAsks, LoopInv
  <1>4. ASSUME NEW d \in Deployments, DueAsks(t, d) PROVE LoopInv'
    <2> DEFINE slot == NextCredential(tick[t].cursor, d)
               next == (slot % Len(Credentials)) + 1
               asked_ == [deployment |-> d, credential |-> Credentials[slot].name]
    <2>1. slot \in {0} \cup DOMAIN Credentials
          BY <1>0, RotationStays DEF TickStates
    <2>2. CASE slot = 0 /\ Set(t, [tick[t] EXCEPT !.todo = @ \ {d}]) /\ UNCHANGED credentialCursor
      <3>1. [tick[t] EXCEPT !.todo = @ \ {d}] \in TickStates
            BY <1>0 DEF TickStates, Stages
      <3> QED BY <1>0, <1>1, <1>4, <2>2, <3>1, TickChanges DEF DueAsks, LoopInv
    <2>3. CASE /\ slot > 0 /\ credentialCursor' = next
               /\ Set(t, [tick[t] EXCEPT !.todo = @ \ {d}, !.cursor = next, !.asking = asked_])
      <3>1. slot \in 1..Len(Credentials) /\ slot \in DOMAIN Credentials
            BY <2>1, <2>3, LoopAssumption
      <3>2. next \in Nat
        <4> HIDE DEF slot
        <4> QED BY <3>1, LoopAssumption
      <3>3. asked_ \in [deployment : Deployments, credential : Names]
            BY <3>1 DEF Names
      <3> HIDE DEF next, asked_
      <3>4. [tick[t] EXCEPT !.todo = @ \ {d}, !.cursor = next, !.asking = asked_] \in TickStates
            BY <1>0, <3>2, <3>3 DEF TickStates, Stages
      <3>5. StampsAreTimely'
            BY <1>0, <1>4, <2>3, <3>2, <3>4, TickChanges DEF DueAsks
      <3> QED BY <1>1, <1>4, <3>5 DEF DueAsks, LoopInv
    <2> QED BY <1>4, <2>2, <2>3 DEF DueAsks
  <1>5. CASE SpendAnswers(t)
    <2>1. [tick[t] EXCEPT !.stage = "spend"] \in TickStates
          BY <1>0 DEF TickStates, Stages
    <2> QED BY <1>0, <1>1, <1>5, <2>1, TickChanges DEF SpendAnswers, LoopInv
  <1>6. CASE ReprobeBegins(t)
    <2>1. [IdleTick EXCEPT !.stage = "reprobe", !.todo = {c \in Cells : cooling[c] = "guessed"}] \in TickStates
          BY DEF IdleTick, TickStates, Stages
    <2> QED BY <1>0, <1>1, <1>6, <2>1, TickChanges DEF ReprobeBegins, LoopInv
  <1>7. CASE ProbeReturns(t) \/ ProbeThrows(t)
    <2>1. [tick[t] EXCEPT !.asking = NoCell] \in TickStates
          BY <1>0 DEF TickStates, Stages
    <2> QED BY <1>0, <1>1, <1>7, <2>1, TickChanges DEF ProbeReturns, ProbeRecorded, ProbeThrows, LoopInv
  <1>8. CASE DueBegins(t)
    <2>1. PICK ds \in SUBSET Deployments :
             Set(t, [IdleTick EXCEPT !.stage = "due", !.todo = ds, !.cursor = credentialCursor])
      <3> DEFINE due == {d \in (IF t = "loop" THEN Routable ELSE Deployments) : DueForProbe(d)}
      <3>1. PICK ds \in FirstDue(due) :
               Set(t, [IdleTick EXCEPT !.stage = "due", !.todo = ds, !.cursor = credentialCursor])
            BY <1>8 DEF DueBegins
      <3>2. due \subseteq Deployments
            BY LoopAssumption
      <3> HIDE DEF due
      <3> QED BY <3>1, <3>2 DEF FirstDue
    <2>2. [IdleTick EXCEPT !.stage = "due", !.todo = ds, !.cursor = credentialCursor] \in TickStates
          BY <1>0 DEF IdleTick, TickStates, Stages
    <2> QED BY <1>0, <1>1, <1>8, <2>1, <2>2, TickChanges DEF DueBegins, LoopInv
  <1>9. CASE TickEnds(t)
    <2>1. IdleTick \in TickStates
          BY DEF IdleTick, TickStates, Stages
    <2>2. StoppedMeansUnarmed'
          BY <1>0, <1>9 DEF TickEnds, Rearmed, StoppedMeansUnarmed
    <2> QED BY <1>0, <1>9, <2>1, <2>2, TickChanges DEF TickEnds, LoopInv
  <1> QED BY <1>2, <1>3, <1>4, <1>5, <1>6, <1>7, <1>8, <1>9 DEF TickSteps

\* Time ages the stamps and what was asked alike.
LEMMA LoopTimeKeeps == ASSUME LoopInv, LoopTime PROVE LoopInv'
  <1>1. ASSUME NEW t \in Ticks
        PROVE  (IF tick[t].stage = "idle" THEN tick[t] ELSE [tick[t] EXCEPT !.elapsed = @ + 1]) \in TickStates
    <2>1. tick[t] \in TickStates
          BY DEF LoopInv, StampsAreTimely
    <2>2. [tick[t] EXCEPT !.elapsed = @ + 1] \in TickStates
          BY <2>1 DEF TickStates
    <2> QED BY <2>1, <2>2
  <1>2. tick' \in [Ticks -> TickStates]
        BY <1>1 DEF LoopTime
  <1>3. StampsAreTimely'
        BY <1>2, LongAgoIsNatural DEF LoopTime, LoopInv, StampsAreTimely, Aged
  <1> QED BY <1>3 DEF LoopTime, LoopInv, StoppedMeansUnarmed

\* Every step of the loop keeps its invariant.
LEMMA LoopStepKeeps == ASSUME LoopInv, [LoopNext]_<<loopVars, evidenceVars>> PROVE LoopInv'
  <1>1. CASE TimerFires
        BY <1>1, BeginKeeps DEF TimerFires, Ticks
  <1>2. CASE StatusAsked
        BY <1>2, BeginKeeps DEF StatusAsked, Ticks
  <1>3. CASE StopPinging
        BY <1>3 DEF StopPinging, LoopInv, StampsAreTimely, StoppedMeansUnarmed
  <1>4. ASSUME NEW c \in Cells, RequestAnswered(c) \/ \E why \in {"guessed", "stated"} : RequestRefused(c, why)
        PROVE  LoopInv'
    <2>1. NoteUserActivity /\ Elsewhere
          BY <1>4 DEF RequestAnswered, RequestRefused
    <2>2. StoppedMeansUnarmed'
          BY <2>1, PaceKeepsQuiet DEF LoopInv, Elsewhere
    <2> QED BY <2>1, <2>2 DEF LoopInv, StampsAreTimely, Elsewhere
  <1>5. ASSUME NEW c \in Cells, CooldownLapses(c) PROVE LoopInv'
        BY <1>5 DEF CooldownLapses, Elsewhere, LoopInv, StampsAreTimely, StoppedMeansUnarmed
  <1>6. CASE UNCHANGED <<loopVars, evidenceVars>>
        BY <1>6 DEF loopVars, paceVars, LoopInv, StampsAreTimely, StoppedMeansUnarmed
  <1> QED BY <1>1, <1>2, <1>3, <1>4, <1>5, <1>6, TickStepKeeps, LoopTimeKeeps DEF LoopNext

\* A step that begins the probe of a cooling cell is one its stamp allows.
LEMMA ProbesAreSpaced ==
    ASSUME LoopInv, LoopNext, NEW t \in Ticks, NEW c \in Probeable,
           tick[t].stage = "reprobe", tick[t].asking # c, tick'[t].asking = c
    PROVE  Since(asked[c], t) >= ReprobeTicks /\ tick'[t].spent <= MaxReprobes
  <1>0. /\ tick \in [Ticks -> TickStates] /\ tick[t] \in TickStates /\ c \in Cells /\ c # NoCell
        /\ asked = reprobed
        BY LoopAssumption DEF LoopInv, StampsAreTimely
  <1>1. ASSUME NEW u \in Ticks, TickSteps(u) PROVE u = t /\ ReprobeAsks(t, c)
    <2>1. PICK r : Set(u, r)
          BY <1>1 DEF TickSteps, SpendAsks, ReprobeAsks, DueAsks, SpendAnswers, ReprobeBegins, ProbeReturns,
                      ProbeRecorded, ProbeThrows, DueBegins, TickEnds
    <2>2. u = t
          BY <1>0, <2>1 DEF Set
    <2>3. ASSUME NEW x \in Cells, ReprobeAsks(t, x) PROVE x = c
          BY <1>0, <2>3 DEF ReprobeAsks, Set, TickStates
    <2>4. ~(ProbeReturns(t) \/ ProbeThrows(t) \/ DueBegins(t))
      <3>1. ASSUME ProbeReturns(t) \/ ProbeThrows(t) PROVE FALSE
        <4>1. tick' = [tick EXCEPT ![t] = [tick[t] EXCEPT !.asking = NoCell]]
              BY <3>1 DEF ProbeReturns, ProbeRecorded, ProbeThrows, Set
        <4>2. tick'[t].asking = NoCell
              BY <1>0, <4>1 DEF TickStates
        <4> QED BY <1>0, <4>2
      <3>2. ASSUME DueBegins(t) PROVE FALSE
        <4>1. PICK ds : tick' = [tick EXCEPT ![t] = [IdleTick EXCEPT !.stage = "due", !.todo = ds,
                                                                     !.cursor = credentialCursor]]
              BY <3>2 DEF DueBegins, Set
        <4>2. tick'[t].asking = NoCell
              BY <1>0, <4>1 DEF IdleTick
        <4> QED BY <1>0, <4>2
      <3> QED BY <3>1, <3>2
    <2>5. ~(SpendAnswers(t) \/ ReprobeBegins(t) \/ TickEnds(t))
          BY DEF SpendAnswers, ReprobeBegins, TickEnds
    <2>6. \A n \in Names : ~SpendAsks(t, n)
          BY DEF SpendAsks
    <2>7. \A d \in Deployments : ~DueAsks(t, d)
          BY DEF DueAsks
    <2> QED BY <1>1, <2>2, <2>3, <2>4, <2>5, <2>6, <2>7 DEF TickSteps
  <1>2. ReprobeAsks(t, c)
    <2>1. ~(TimerFires \/ StatusAsked)
          BY <1>0 DEF TimerFires, StatusAsked, BeginTick, Set, Ticks
    <2>2. ~LoopTime
          BY <1>0 DEF LoopTime, TickStates
    <2>3. ~StopPinging
          BY DEF StopPinging
    <2>4. \A x \in Cells : ~(RequestAnswered(x) \/ CooldownLapses(x)
                                \/ \E why \in {"guessed", "stated"} : RequestRefused(x, why))
          BY DEF RequestAnswered, CooldownLapses, RequestRefused, Elsewhere
    <2> QED BY <1>1, <2>1, <2>2, <2>3, <2>4 DEF LoopNext
  <1>3. tick[t].spent < MaxReprobes /\ Since(reprobed[c], t) >= ReprobeTicks
    <2>1. c \in ReprobeTargets(t)
          BY <1>2 DEF ReprobeAsks
    <2>2. tick[t].spent \in Nat /\ MaxReprobes \in Nat
          BY <1>0, LoopAssumption DEF TickStates
    <2> QED BY <2>1, <2>2 DEF ReprobeTargets
  <1>4. tick'[t].spent = tick[t].spent + 1
        BY <1>0, <1>2 DEF ReprobeAsks, Set, TickStates
  <1> QED
    <2>1. tick[t].spent \in Nat /\ MaxReprobes \in Nat
          BY <1>0, LoopAssumption DEF TickStates
    <2> QED BY <1>0, <1>3, <1>4, <2>1

\* However the loop, the status requests and the traffic interleave, a cooling cell is probed no sooner than an
\* interval after it was last, a tick probes no more of them than it may, and a loop that was stopped stays
\* unarmed, for any fleet and any intervals.  (RATE_LIMIT_REPROBE_INTERVAL_MS and stop(), ping/cadence.ts.)
THEOREM ProbingIsBounded == LoopSpec => LoopIsBounded
  <1>1. LoopInit => LoopInv
        BY LoopStarts
  <1>2. LoopInv /\ [LoopNext]_<<loopVars, evidenceVars>> => LoopInv'
        BY LoopStepKeeps
  <1>3. LoopInv /\ LoopInv' /\ [LoopNext]_<<loopVars, evidenceVars>>
          => [/\ \A t \in Ticks : \A c \in Probeable :
                    (tick[t].stage = "reprobe" /\ tick[t].asking # c /\ tick'[t].asking = c) =>
                        Since(asked[c], t) >= ReprobeTicks /\ tick'[t].spent <= MaxReprobes
              /\ ~running' => timer' = "none"]_loopVars
    <2>1. LoopInv' => (~running' => timer' = "none")
          BY DEF LoopInv, StoppedMeansUnarmed
    <2>2. UNCHANGED <<loopVars, evidenceVars>> => UNCHANGED loopVars
          OBVIOUS
    <2> QED BY <2>1, <2>2, ProbesAreSpaced
  <1> QED BY <1>1, <1>2, <1>3, PTL DEF LoopSpec, LoopIsBounded

-----------------------------------------------------------------------------
(***************************************************************************)
(* The catalogue.                                                          *)
(***************************************************************************)
\* The figures that go with a listing.
Figures(l) == IF l \in DOMAIN RecordOf THEN LimitsFromRecord(RecordOf[l]) ELSE NoLimits
\* What may be known of a provider: nothing it has not published yet.
Known(p) == IF Fleet[p] = <<>> THEN {NoListing, EmptyListing} ELSE 0 .. roster[p]
Entry(p) == {e \in [listing : Known(p), fetchedAt : Nat, limits : {Figures(l) : l \in 0 .. EmptyListing}] :
                e.limits = Figures(e.listing)}
Fetch(p) == [kind : {"blocking", "background"}, slot : Nat, listing : Known(p), startedAt : Nat]

ListingTypes ==
    /\ roster \in [Providers -> 1 .. Len(RecordOf)]
    /\ catalogNow \in Nat
    /\ mem = [p \in Providers |-> mem[p]] /\ fetching = [p \in Providers |-> fetching[p]]
    /\ \A p \in Providers : mem[p] \in Entry(p) /\ modelsFile[p] \in Entry(p) /\ fetching[p] \subseteq Fetch(p)

\* A provider is asked by one fetch at a time, behind a reader that waits while nothing is known and behind one
\* that was answered afterwards; what a fetch brings is no older than what it replaces.
OneFetchAtATime ==
    \A p \in Providers : \A f \in fetching[p] :
        /\ \A g \in fetching[p] : f = g
        /\ f.kind = "blocking" <=> mem[p] = Unlisted
        /\ f.listing # NoListing => mem[p].listing <= f.listing

\* Before the file is read nothing is known and nothing is asked.
NothingBeforeTheFile == ~loaded => \A p \in Providers : mem[p] = Unlisted /\ fetching[p] = {}

CatalogInv == ListingTypes /\ OneFetchAtATime /\ NothingBeforeTheFile

-----------------------------------------------------------------------------
\* The list of every provider has a length.
LEMMA RecordsAreListed == /\ Len(RecordOf) \in Nat \ {0} /\ DOMAIN RecordOf = 1 .. Len(RecordOf)
                          /\ EmptyListing \in Nat /\ EmptyListing \notin DOMAIN RecordOf /\ NoListing \notin DOMAIN RecordOf
    BY CatalogAssumption DEF EmptyListing, NoListing

\* What the file gives back is what was written to it: a figure that was read survives the reading.
LEMMA FiguresSurvive == ASSUME NEW l PROVE SanitizeLimits(Figures(l)) = Figures(l)
  <1>1. ASSUME NEW r \in [Axes -> {-1, 5}]
        PROVE  [a \in Axes |-> IF r[a] > 0 THEN r[a] ELSE -1] = r
    <2>1. ASSUME NEW a \in Axes PROVE (IF r[a] > 0 THEN r[a] ELSE -1) = r[a]
      <3>1. r[a] = -1 \/ r[a] = 5
            OBVIOUS
      <3> QED BY <3>1
    <2> QED BY <2>1
  <1>2. ASSUME NEW C, NEW O, NEW I, NEW J,
               NEW x \in [context : C, output : O, prompt : I, completion : J, rates : [Axes -> {-1, 5}]]
        PROVE  SanitizeLimits(x) = x
    <2>1. [a \in Axes |-> IF x.rates[a] > 0 THEN x.rates[a] ELSE -1] = x.rates
          BY <1>1
    <2>2. [x EXCEPT !.rates = x.rates] = x
          OBVIOUS
    <2> QED BY <2>1, <2>2 DEF SanitizeLimits
  <1>3. ASSUME NEW rec
        PROVE  [a \in Axes |-> PickRateField(rec.rates[a])] \in [Axes -> {-1, 5}]
        BY DEF PickRateField, FigureOf
  <1>4. [a \in Axes |-> -1] \in [Axes -> {-1, 5}]
        OBVIOUS
  <1>5. ASSUME NEW rec PROVE SanitizeLimits(LimitsFromRecord(rec)) = LimitsFromRecord(rec)
    <2>1. LimitsFromRecord(rec) \in
             [context : {PickNumber(rec.context \o rec.topContext, FALSE)},
              output : {PickNumber(rec.output \o rec.topOutput, FALSE)},
              prompt : {PickNumber(rec.prompt, TRUE)}, completion : {PickNumber(rec.completion, TRUE)},
              rates : [Axes -> {-1, 5}]]
          BY <1>3, Zenon DEF LimitsFromRecord
    <2> QED BY <1>2, <2>1
  <1>6. SanitizeLimits(NoLimits) = NoLimits
    <2>1. NoLimits \in [context : {-1}, output : {-1}, prompt : {-1}, completion : {-1}, rates : [Axes -> {-1, 5}]]
          BY <1>4 DEF NoLimits
    <2> QED BY <1>2, <2>1
  <1> QED BY <1>5, <1>6 DEF Figures

\* Nothing known is something to know.
LEMMA UnlistedIsAnEntry ==
    ASSUME NEW p \in Providers, roster[p] \in Nat
    PROVE  Unlisted \in Entry(p)
  <1>1. NoListing \in Known(p) /\ NoListing \in 0 .. EmptyListing
        BY RecordsAreListed DEF Known, NoListing
  <1>2. NoLimits = Figures(NoListing)
        BY RecordsAreListed DEF Figures
  <1> QED BY <1>1, <1>2 DEF Entry, Unlisted

\* At the start nothing is known.
LEMMA CatalogStarts == CatalogInit => CatalogInv
  <1> SUFFICES ASSUME CatalogInit PROVE CatalogInv
      OBVIOUS
  <1>1. roster \in [Providers -> 1 .. Len(RecordOf)]
        BY RecordsAreListed DEF CatalogInit
  <1>2. \A p \in Providers : Unlisted \in Entry(p)
        BY <1>1, UnlistedIsAnEntry
  <1> QED BY <1>1, <1>2 DEF CatalogInit, CatalogInv, ListingTypes, OneFetchAtATime, NothingBeforeTheFile

\* Reading the file gives entries back.
LEMMA FileGivesEntries ==
    ASSUME CatalogInv
    PROVE  /\ LoadDisk = [p \in Providers |-> LoadDisk[p]]
           /\ \A p \in Providers : LoadDisk[p] \in Entry(p)
  <1>1. CASE loaded
        BY <1>1 DEF LoadDisk, CatalogInv, ListingTypes
  <1>2. CASE ~loaded
    <2>1. ASSUME NEW p \in Providers PROVE [modelsFile[p] EXCEPT !.limits = SanitizeLimits(@)] = modelsFile[p]
      <3>1. modelsFile[p] \in Entry(p)
            BY DEF CatalogInv, ListingTypes
      <3>2. SanitizeLimits(modelsFile[p].limits) = modelsFile[p].limits
            BY <3>1, FiguresSurvive DEF Entry
      <3> QED BY <3>1, <3>2 DEF Entry
    <2>2. LoadDisk = [p \in Providers |-> IF modelsFile[p] = Unlisted THEN mem[p] ELSE modelsFile[p]]
          BY <1>2, <2>1 DEF LoadDisk
    <2> QED BY <2>2 DEF CatalogInv, ListingTypes
  <1> QED BY <1>1, <1>2

\* A fetch begins, or one that is under way is waited for.
LEMMA FetchBegins ==
    ASSUME CatalogInv, NEW p \in Providers, NEW kind \in {"blocking", "background"},
           kind = "blocking" <=> LoadDisk[p] = Unlisted,
           mem' = LoadDisk, loaded' = TRUE, UNCHANGED <<roster, modelsFile, catalogNow>>,
           UNCHANGED fetching \/ (~Under(p, kind) /\ Begin(p, kind))
    PROVE  CatalogInv'
  <1> DEFINE new == [kind |-> kind, slot |-> 1, listing |-> NoListing, startedAt |-> catalogNow]
  <1>1. /\ \A q \in Providers : Entry(q)' = Entry(q) /\ Fetch(q)' = Fetch(q)
        BY DEF Entry, Fetch, Known
  <1>2. new \in Fetch(p) /\ new.kind = kind /\ new.listing = NoListing
        BY RecordsAreListed DEF CatalogInv, ListingTypes, Fetch, Known, NoListing
  <1> HIDE DEF new
  <1>3. \A q \in Providers :
           fetching'[q] = fetching[q] \/ (q = p /\ fetching'[q] = fetching[q] \cup {new} /\ ~Under(p, kind))
        BY DEF Begin, CatalogInv, ListingTypes, new
  <1>4. fetching' = [q \in Providers |-> fetching'[q]]
        BY DEF Begin, CatalogInv, ListingTypes
  <1>5. ListingTypes'
        BY <1>1, <1>2, <1>3, <1>4, FileGivesEntries DEF CatalogInv, ListingTypes
  <1>6. \A q \in Providers : fetching[q] # {} => loaded /\ mem'[q] = mem[q]
        BY DEF CatalogInv, NothingBeforeTheFile, LoadDisk
  <1>7. OneFetchAtATime'
    <2> SUFFICES ASSUME NEW q \in Providers, NEW f \in fetching'[q]
                 PROVE  /\ \A g \in fetching'[q] : f = g
                        /\ f.kind = "blocking" <=> mem'[q] = Unlisted
                        /\ f.listing # NoListing => mem'[q].listing <= f.listing
        BY DEF OneFetchAtATime
    <2>1. CASE fetching'[q] = fetching[q]
          BY <1>6, <2>1 DEF CatalogInv, OneFetchAtATime
    <2>2. CASE fetching'[q] # fetching[q]
      <3>1. q = p /\ fetching'[q] = fetching[q] \cup {new} /\ ~Under(p, kind)
            BY <1>3, <2>2
      <3>2. ASSUME NEW g \in fetching[q] PROVE FALSE
        <4>1. g.kind = "blocking" <=> mem'[q] = Unlisted
              BY <1>6, <3>2 DEF CatalogInv, OneFetchAtATime
        <4>2. g.kind \in {"blocking", "background"}
              BY <3>2 DEF CatalogInv, ListingTypes, Fetch
        <4> QED BY <3>1, <4>1, <4>2 DEF Under
      <3> QED BY <1>2, <3>1, <3>2
    <2> QED BY <2>1, <2>2
  <1> QED BY <1>5, <1>7 DEF CatalogInv, NothingBeforeTheFile

\* A reader asks for the list.
LEMMA ListKeeps == ASSUME CatalogInv, NEW p \in Providers, List(p) PROVE CatalogInv'
  <1>1. /\ mem' = LoadDisk /\ loaded' = TRUE /\ UNCHANGED <<roster, modelsFile, catalogNow>>
        BY DEF List
  <1>2. \E kind \in {"blocking", "background"} :
           /\ kind = "blocking" <=> LoadDisk[p] = Unlisted
           /\ UNCHANGED fetching \/ (~Under(p, kind) /\ Begin(p, kind))
        BY DEF List, RefreshInBackground
  <1> QED BY <1>1, <1>2, FetchBegins

\* A refusal has it asked for.
LEMMA NoteKeeps == ASSUME CatalogInv, NEW p \in Providers, NoteProviderStale(p) PROVE CatalogInv'
  <1>1. UNCHANGED fetching \/ (~Under(p, "background") /\ Begin(p, "background"))
        BY DEF NoteProviderStale, RefreshInBackground
  <1> QED BY <1>1, FetchBegins DEF NoteProviderStale

\* A credential in turn is asked: the fetch goes on to the next, has a list, or ends.
LEMMA AskKeeps ==
    ASSUME CatalogInv, NEW p \in Providers, NEW f \in fetching[p], AskSlot(p, f)
    PROVE  CatalogInv'
  <1>0. /\ f \in Fetch(p) /\ mem[p] \in Entry(p) /\ roster[p] \in 1 .. Len(RecordOf)
        /\ UNCHANGED <<roster, mem, modelsFile, loaded, catalogNow>>
        BY DEF CatalogInv, ListingTypes, AskSlot
  <1>1. PICK fs : /\ ReplaceListing(p, f, fs)
                  /\ \/ fs = {}
                     \/ fs = {[f EXCEPT !.slot = @ + 1]}
                     \/ fs = {[f EXCEPT !.listing = roster[p]]} /\ Fleet[p] # <<>>
                     \/ fs = {[f EXCEPT !.listing = EmptyListing]} /\ Fleet[p] = <<>>
        BY DEF AskSlot, Turn, NextSlot
  <1>2. ASSUME NEW g \in fs
        PROVE  g \in Fetch(p) /\ g.kind = f.kind /\ (g.listing # NoListing => mem[p].listing <= g.listing)
    <2>1. f.listing = NoListing
          BY DEF AskSlot
    <2>2. CASE g = [f EXCEPT !.slot = @ + 1]
          BY <1>0, <2>1, <2>2 DEF Fetch
    <2>3. CASE g = [f EXCEPT !.listing = roster[p]] /\ Fleet[p] # <<>>
          BY <1>0, <2>3, RecordsAreListed DEF Fetch, Known, Entry
    <2>4. CASE g = [f EXCEPT !.listing = EmptyListing] /\ Fleet[p] = <<>>
          BY <1>0, <2>4, RecordsAreListed DEF Fetch, Known, Entry, NoListing
    <2> QED BY <1>1, <1>2, <2>2, <2>3, <2>4
  <1>3. \A g, h \in fs : g = h
        BY <1>1
  <1>4. /\ fetching' = [q \in Providers |-> fetching'[q]]
        /\ \A q \in Providers : fetching'[q] = IF q = p THEN (fetching[p] \ {f}) \cup fs ELSE fetching[q]
        BY <1>1 DEF ReplaceListing, CatalogInv, ListingTypes
  <1>5. fetching[p] \ {f} = {}
        BY DEF CatalogInv, OneFetchAtATime
  <1>6. \A q \in Providers : Entry(q)' = Entry(q) /\ Fetch(q)' = Fetch(q)
        BY <1>0 DEF Entry, Fetch, Known
  <1>7. ListingTypes'
        BY <1>0, <1>2, <1>4, <1>5, <1>6 DEF CatalogInv, ListingTypes
  <1>8. OneFetchAtATime'
    <2> SUFFICES ASSUME NEW q \in Providers, NEW g \in fetching'[q]
                 PROVE  /\ \A h \in fetching'[q] : g = h
                        /\ g.kind = "blocking" <=> mem[q] = Unlisted
                        /\ g.listing # NoListing => mem[q].listing <= g.listing
        BY <1>0 DEF OneFetchAtATime
    <2>1. CASE q # p
          BY <1>4, <2>1 DEF CatalogInv, OneFetchAtATime
    <2>2. CASE q = p
          BY <1>2, <1>3, <1>4, <1>5, <2>2 DEF CatalogInv, OneFetchAtATime
    <2> QED BY <2>1, <2>2
  <1>9. loaded
        BY DEF CatalogInv, NothingBeforeTheFile
  <1> QED BY <1>0, <1>7, <1>8, <1>9 DEF CatalogInv, NothingBeforeTheFile

\* A list that arrives is an entry, no older than the one it takes the place of.
LEMMA LandedIsAnEntry ==
    ASSUME CatalogInv, NEW p \in Providers, NEW f \in fetching[p], Land(p, f)
    PROVE  Landed(p, f) \in Entry(p) /\ Landed(p, f).listing = f.listing /\ mem[p].listing <= f.listing
  <1>1. f \in Fetch(p) /\ catalogNow \in Nat /\ roster[p] \in 1 .. Len(RecordOf) /\ f.listing # NoListing
        BY DEF CatalogInv, ListingTypes, Land
  <1>2. f.listing \in 0 .. EmptyListing
        BY <1>1, RecordsAreListed DEF Fetch, Known, NoListing, EmptyListing
  <1>3. Landed(p, f).limits = Figures(f.listing)
    <2>1. CASE f.listing = EmptyListing
          BY <2>1, RecordsAreListed DEF Landed, Figures
    <2>2. CASE f.listing # EmptyListing
      <3>1. f.listing \in DOMAIN RecordOf
            BY <1>1, <1>2, <2>2, RecordsAreListed DEF NoListing, EmptyListing
      <3> QED BY <2>2, <3>1 DEF Landed, Figures
    <2> QED BY <2>1, <2>2
  <1> DEFINE at == IF f.kind = "blocking" THEN f.startedAt ELSE catalogNow
  <1>4. at \in Nat
        BY <1>1 DEF Fetch
  <1>5. Landed(p, f) = [listing |-> f.listing, fetchedAt |-> at, limits |-> Landed(p, f).limits]
        BY DEF Landed
  <1> HIDE DEF at
  <1>6. f.listing \in Known(p)
        BY <1>1 DEF Fetch
  <1>7. Landed(p, f) \in Entry(p) /\ Landed(p, f).listing = f.listing
        BY <1>2, <1>3, <1>4, <1>5, <1>6 DEF Entry
  <1> QED BY <1>1, <1>7 DEF CatalogInv, OneFetchAtATime

\* A list arrives.
LEMMA LandKeeps ==
    ASSUME CatalogInv, NEW p \in Providers, NEW f \in fetching[p], Land(p, f)
    PROVE  CatalogInv'
  <1>0. UNCHANGED <<roster, modelsFile, loaded, catalogNow>> /\ loaded
        BY DEF Land, CatalogInv, NothingBeforeTheFile
  <1>1. /\ fetching' = [q \in Providers |-> fetching'[q]] /\ mem' = [q \in Providers |-> mem'[q]]
        /\ \A q \in Providers : q # p => fetching'[q] = fetching[q] /\ mem'[q] = mem[q]
        /\ fetching'[p] = fetching[p] \ {f} /\ mem'[p] = Landed(p, f)
        BY DEF Land, ReplaceListing, CatalogInv, ListingTypes
  <1>2. fetching'[p] = {}
        BY <1>1 DEF CatalogInv, OneFetchAtATime
  <1>3. \A q \in Providers : Entry(q)' = Entry(q) /\ Fetch(q)' = Fetch(q)
        BY <1>0 DEF Entry, Fetch, Known
  <1>4. ListingTypes'
    <2>1. \A q \in Providers : mem'[q] \in Entry(q) /\ modelsFile[q] \in Entry(q) /\ fetching'[q] \subseteq Fetch(q)
          BY <1>1, LandedIsAnEntry DEF CatalogInv, ListingTypes
    <2> QED BY <1>0, <1>1, <1>3, <2>1 DEF CatalogInv, ListingTypes
  <1>5. OneFetchAtATime'
        BY <1>1, <1>2 DEF CatalogInv, OneFetchAtATime
  <1> QED BY <1>0, <1>4, <1>5 DEF CatalogInv, NothingBeforeTheFile

\* The provider publishes another list: what was known still is.
LEMMA RosterKeeps == ASSUME CatalogInv, NEW p \in Providers, RosterMoves(p) PROVE CatalogInv'
  <1>0. /\ UNCHANGED <<mem, modelsFile, loaded, fetching, catalogNow>>
        /\ roster' \in [Providers -> 1 .. Len(RecordOf)]
        /\ \A q \in Providers : roster[q] <= roster'[q] /\ roster[q] \in Nat /\ roster'[q] \in Nat
        BY RecordsAreListed DEF RosterMoves, CatalogInv, ListingTypes
  <1>1. \A q \in Providers : Known(q) \subseteq Known(q)'
        BY <1>0 DEF Known
  <1>2. \A q \in Providers : Entry(q) \subseteq Entry(q)' /\ Fetch(q) \subseteq Fetch(q)'
        BY <1>1 DEF Entry, Fetch
  <1>3. ListingTypes'
        BY <1>0, <1>2 DEF CatalogInv, ListingTypes
  <1> QED BY <1>0, <1>3 DEF CatalogInv, OneFetchAtATime, NothingBeforeTheFile

\* What is around the fetches: a save, time, and a process that ends.
LEMMA AroundKeeps ==
    ASSUME CatalogInv, SaveDisk \/ CatalogTick \/ CatalogRestart \/ UNCHANGED catalogVars
    PROVE  CatalogInv'
  <1>0. UNCHANGED roster
        BY DEF SaveDisk, CatalogTick, CatalogRestart, catalogVars
  <1>1. \A q \in Providers : Entry(q)' = Entry(q) /\ Fetch(q)' = Fetch(q)
        BY <1>0 DEF Entry, Fetch, Known
  <1>2. \A q \in Providers : Unlisted \in Entry(q)
        BY UnlistedIsAnEntry DEF CatalogInv, ListingTypes
  <1>3. CASE SaveDisk
        BY <1>1, <1>3 DEF SaveDisk, CatalogInv, ListingTypes, OneFetchAtATime, NothingBeforeTheFile
  <1>4. CASE CatalogTick
        BY <1>1, <1>4 DEF CatalogTick, CatalogInv, ListingTypes, OneFetchAtATime, NothingBeforeTheFile
  <1>5. CASE CatalogRestart
    <2>1. /\ mem' = [q \in Providers |-> Unlisted] /\ fetching' = [q \in Providers |-> {}]
          /\ UNCHANGED <<roster, catalogNow>>
          BY <1>5 DEF CatalogRestart
    <2>2. modelsFile' \in {modelsFile, mem, [q \in Providers |-> Unlisted]}
          BY <1>5 DEF CatalogRestart
    <2>3. \A q \in Providers : modelsFile'[q] \in Entry(q)
          BY <1>2, <2>2 DEF CatalogInv, ListingTypes
    <2> QED BY <1>1, <1>2, <2>1, <2>3 DEF CatalogInv, ListingTypes, OneFetchAtATime, NothingBeforeTheFile
  <1>6. CASE UNCHANGED catalogVars
        BY <1>1, <1>6 DEF catalogVars, CatalogInv, ListingTypes, OneFetchAtATime, NothingBeforeTheFile
  <1> QED BY <1>3, <1>4, <1>5, <1>6

\* Every step of the catalogue keeps its invariant.
LEMMA CatalogStepKeeps == ASSUME CatalogInv, [CatalogNext]_catalogVars PROVE CatalogInv'
    BY ListKeeps, NoteKeeps, RosterKeeps, AskKeeps, LandKeeps, AroundKeeps DEF CatalogNext

\* A step that ends with a process that has read its file leaves what it knows as new as it was.
LEMMA ListingsOnlyAge ==
    ASSUME CatalogInv, CatalogNext, loaded, loaded', NEW p \in Providers
    PROVE  mem'[p].listing >= mem[p].listing
  <1>0. mem[p] \in Entry(p) /\ roster[p] \in 1 .. Len(RecordOf)
        BY DEF CatalogInv, ListingTypes
  <1>1. mem[p].listing \in Nat
        BY <1>0, RecordsAreListed DEF Entry, Known, NoListing
  <1>2. ASSUME NEW q \in Providers, NEW f \in fetching[q], Land(q, f) PROVE mem'[p].listing >= mem[p].listing
    <2>1. f.listing \in Nat
      <3>1. f \in Fetch(q) /\ roster[q] \in 1 .. Len(RecordOf)
            BY DEF CatalogInv, ListingTypes
      <3> QED BY <3>1, RecordsAreListed DEF Fetch, Known, NoListing
    <2>2. CASE q = p
      <3>1. mem'[p] = Landed(p, f)
            BY <1>2, <2>2 DEF Land, CatalogInv, ListingTypes
      <3> QED BY <1>1, <1>2, <2>1, <2>2, <3>1, LandedIsAnEntry
    <2>3. CASE q # p
          BY <1>1, <1>2, <2>3 DEF Land, CatalogInv, ListingTypes
    <2> QED BY <2>2, <2>3
  <1>3. CASE mem' = mem
        BY <1>1, <1>3
  <1>4. mem' = mem \/ \E q \in Providers : \E f \in fetching[q] : Land(q, f)
        BY DEF CatalogNext, List, NoteProviderStale, RosterMoves, AskSlot, SaveDisk, CatalogTick, CatalogRestart, LoadDisk
  <1> QED BY <1>2, <1>3, <1>4

\* What is known of a provider is never older than it was, and its figures are those of its listing, for any
\* providers and credentials, any lists and any crash between the steps.  (A failed refresh leaves the previous
\* list in place, catalog.ts.)
THEOREM ListingsAdvance == CatalogSpec => ListingsNeverGoBack
  <1>1. CatalogInit => CatalogInv
        BY CatalogStarts
  <1>2. CatalogInv /\ [CatalogNext]_catalogVars => CatalogInv'
        BY CatalogStepKeeps
  <1>3. CatalogInv /\ CatalogInv' /\ [CatalogNext]_catalogVars
          => [\A p \in Providers :
                /\ loaded /\ loaded' => mem'[p].listing >= mem[p].listing
                /\ (loaded' /\ mem'[p].listing \in DOMAIN RecordOf) =>
                      mem'[p].limits = LimitsFromRecord(RecordOf[mem'[p].listing])]_catalogVars
    <2>1. ASSUME CatalogInv', NEW p \in Providers, mem'[p].listing \in DOMAIN RecordOf
          PROVE  mem'[p].limits = LimitsFromRecord(RecordOf[mem'[p].listing])
          BY <2>1 DEF CatalogInv, ListingTypes, Entry, Figures
    <2> QED BY <2>1, ListingsOnlyAge
  <1> QED BY <1>1, <1>2, <1>3, PTL DEF CatalogSpec, ListingsNeverGoBack

-----------------------------------------------------------------------------
(***************************************************************************)
(* The configuration of a running relay.  A reload compares, refuses and   *)
(* copies over lists of fields; what it leaves behind is the document that *)
(* was loaded exactly because every field of a configuration is in one of  *)
(* them, and the slots of a provider pair off.                             *)
(***************************************************************************)

TopFields == TOP_RELOADABLE_FIELDS \cup TOP_RESTART_FIELDS \cup {"providers", "routing", "warnings"}
RoutingFields == ROUTING_RELOADABLE_FIELDS \cup ROUTING_RESTART_FIELDS
ProviderFields == PROVIDER_RELOADABLE_FIELDS \cup PROVIDER_RESTART_FIELDS \cup {"credentials"}

IsRecordOf(r, fields) == r = [f \in fields |-> r[f]]
SlotsAreShaped(slots) ==
    /\ slots = [i \in DOMAIN slots |-> slots[i]]
    /\ \A i \in DOMAIN slots : IsRecordOf(slots[i], {"label", "authEnv", "limits"})
ProviderIsShaped(p) ==
    /\ IsRecordOf(p, ProviderFields)
    /\ IsRecordOf(p.credentials, {"listed", "slots"})
    /\ SlotsAreShaped(p.credentials.slots)
ConfigIsShaped(cfg) ==
    /\ IsRecordOf(cfg, TopFields)
    /\ IsRecordOf(cfg.routing, RoutingFields)
    /\ cfg.providers = [p \in DOMAIN cfg.providers |-> cfg.providers[p]]
    /\ \A p \in DOMAIN cfg.providers : ProviderIsShaped(cfg.providers[p])

\* Records with the same fields that agree on those that are not replaced.
LEMMA ReplaceIsWhole ==
    ASSUME NEW all, NEW fields, NEW before, NEW after,
           IsRecordOf(before, all), IsRecordOf(after, all),
           \A f \in all \ fields : before[f] = after[f]
    PROVE  Replace(fields, before, after) = after
  BY DEF IsRecordOf, Replace

\* The slots that pair off differ in their limits only.
LEMMA SlotsPairOff ==
    ASSUME NEW before, NEW after, ProviderIsShaped(before), ProviderIsShaped(after),
           credentialIdentityList(before) = credentialIdentityList(after)
    PROVE  /\ before.credentials.listed = after.credentials.listed
           /\ DOMAIN before.credentials.slots = DOMAIN after.credentials.slots
           /\ \A i \in DOMAIN after.credentials.slots :
                 [before.credentials.slots[i] EXCEPT !.limits = after.credentials.slots[i].limits]
                    = after.credentials.slots[i]
  <1>1. PICK a, b : a = before.credentials.slots /\ b = after.credentials.slots
        OBVIOUS
  <1>2. SlotsAreShaped(a) /\ SlotsAreShaped(b)
        BY <1>1 DEF ProviderIsShaped
  <1>3. /\ before.credentials.listed = after.credentials.listed
        /\ [i \in DOMAIN a |-> credentialIdentity(a[i])] = [i \in DOMAIN b |-> credentialIdentity(b[i])]
        BY <1>1 DEF credentialIdentityList
  <1>4. DOMAIN a = DOMAIN b /\ \A i \in DOMAIN b : credentialIdentity(a[i]) = credentialIdentity(b[i])
        BY <1>3
  <1>5. ASSUME NEW i \in DOMAIN b
        PROVE  [a[i] EXCEPT !.limits = b[i].limits] = b[i]
    <2>1. /\ a[i] = [f \in {"label", "authEnv", "limits"} |-> a[i][f]]
          /\ b[i] = [f \in {"label", "authEnv", "limits"} |-> b[i][f]]
          BY <1>2, <1>4 DEF SlotsAreShaped, IsRecordOf
    <2>2. [a[i] EXCEPT !.limits = "any"] = [b[i] EXCEPT !.limits = "any"]
          BY <1>4 DEF credentialIdentity
    <2>3. a[i].label = b[i].label /\ a[i].authEnv = b[i].authEnv
          BY <2>1, <2>2
    <2> QED BY <2>1, <2>3
  <1> QED BY <1>1, <1>3, <1>4, <1>5

\* A provider takes over the whole of the next one's policy.
LEMMA PolicyIsWhole ==
    ASSUME NEW before, NEW after, ProviderIsShaped(before), ProviderIsShaped(after),
           \A f \in PROVIDER_RESTART_FIELDS : before[f] = after[f],
           credentialIdentityList(before) = credentialIdentityList(after)
    PROVE  applyProviderPolicy(before, after) = after
  <1>1. PICK taken : taken = Replace(PROVIDER_RELOADABLE_FIELDS, before, after)
        OBVIOUS
  <1>2. PICK slots : slots = [i \in DOMAIN before.credentials.slots |->
                  [before.credentials.slots[i] EXCEPT !.limits = after.credentials.slots[i].limits]]
        OBVIOUS
  <1>3. slots = after.credentials.slots
    <2>1. after.credentials.slots = [i \in DOMAIN after.credentials.slots |-> after.credentials.slots[i]]
          BY DEF ProviderIsShaped, SlotsAreShaped
    <2>2. /\ DOMAIN before.credentials.slots = DOMAIN after.credentials.slots
          /\ \A i \in DOMAIN after.credentials.slots :
                [before.credentials.slots[i] EXCEPT !.limits = after.credentials.slots[i].limits]
                   = after.credentials.slots[i]
          BY SlotsPairOff
    <2> QED BY <1>2, <2>1, <2>2
  <1>4. /\ before = [f \in ProviderFields |-> before[f]] /\ after = [f \in ProviderFields |-> after[f]]
        /\ before.credentials = [f \in {"listed", "slots"} |-> before.credentials[f]]
        /\ after.credentials = [f \in {"listed", "slots"} |-> after.credentials[f]]
        BY DEF ProviderIsShaped, IsRecordOf
  <1>5. /\ "credentials" \in ProviderFields /\ "credentials" \notin PROVIDER_RELOADABLE_FIELDS
        /\ \A f \in ProviderFields : f = "credentials" \/ f \in PROVIDER_RELOADABLE_FIELDS
                                     \/ f \in PROVIDER_RESTART_FIELDS
        BY DEF ProviderFields, PROVIDER_RELOADABLE_FIELDS
  <1>6. /\ taken = [f \in ProviderFields |-> taken[f]] /\ taken.credentials = before.credentials
        /\ \A f \in ProviderFields \ {"credentials"} : taken[f] = after[f]
        BY <1>1, <1>4, <1>5 DEF Replace
  <1>7. [before.credentials EXCEPT !.slots = after.credentials.slots] = after.credentials
        BY <1>4, SlotsPairOff
  <1>8. [taken EXCEPT !.credentials.slots = slots]
            = [taken EXCEPT !.credentials = [before.credentials EXCEPT !.slots = slots]]
        BY <1>6
  <1>9. [taken EXCEPT !.credentials = after.credentials] = after
        BY <1>4, <1>6
  <1>10. applyProviderPolicy(before, after) = [taken EXCEPT !.credentials.slots = slots]
         BY <1>1, <1>2 DEF applyProviderPolicy
  <1> QED BY <1>3, <1>7, <1>8, <1>9, <1>10

\* A reload that nothing refuses leaves the whole of the candidate behind.
THEOREM ReloadIsWhole ==
    ASSUME NEW before, NEW after, ConfigIsShaped(before), ConfigIsShaped(after),
           configReloadRestartPaths(before, after) = {}
    PROVE  applyConfigReload(before, after) = after
<1>1. /\ \A f \in TOP_RESTART_FIELDS : before[f] = after[f]
      /\ \A f \in ROUTING_RESTART_FIELDS : before.routing[f] = after.routing[f]
      BY Zenon DEF configReloadRestartPaths, Differing
<1>2. SameProviders(before, after)
      BY DEF configReloadRestartPaths
<1>3. ASSUME NEW p \in DOMAIN before.providers
      PROVE  /\ \A f \in PROVIDER_RESTART_FIELDS : before.providers[p][f] = after.providers[p][f]
             /\ credentialIdentityList(before.providers[p]) = credentialIdentityList(after.providers[p])
  <2>1. Differing(PROVIDER_RESTART_FIELDS, before.providers[p], after.providers[p]) = {}
        BY <1>2 DEF configReloadRestartPaths
  <2>2. credentialIdentityList(before.providers[p]) = credentialIdentityList(after.providers[p])
        BY <1>2 DEF configReloadRestartPaths
  <2> QED BY <2>1, <2>2 DEF Differing
<1>4. DOMAIN before.providers = DOMAIN after.providers
      BY <1>2 DEF SameProviders
<1>5. PICK providers : providers = [name \in DOMAIN before.providers |->
                          applyProviderPolicy(before.providers[name], after.providers[name])]
      OBVIOUS
<1>6. providers = after.providers
  <2>1. \A name \in DOMAIN after.providers :
           applyProviderPolicy(before.providers[name], after.providers[name]) = after.providers[name]
        BY <1>3, <1>4, PolicyIsWhole DEF ConfigIsShaped
  <2>2. after.providers = [name \in DOMAIN after.providers |-> after.providers[name]]
        BY DEF ConfigIsShaped
  <2> QED BY <1>4, <1>5, <2>1, <2>2
<1>7. PICK routing : routing = Replace(ROUTING_RELOADABLE_FIELDS, before.routing, after.routing)
      OBVIOUS
<1>8. routing = after.routing
  <2>1. \A f \in RoutingFields \ ROUTING_RELOADABLE_FIELDS : before.routing[f] = after.routing[f]
        BY <1>1 DEF RoutingFields
  <2>2. IsRecordOf(before.routing, RoutingFields) /\ IsRecordOf(after.routing, RoutingFields)
        BY DEF ConfigIsShaped
  <2> QED BY <1>7, <2>1, <2>2, ReplaceIsWhole
<1>9. PICK taken : taken = Replace(TOP_RELOADABLE_FIELDS \cup {"warnings"}, before, after)
      OBVIOUS
<1>10. before = [f \in TopFields |-> before[f]] /\ after = [f \in TopFields |-> after[f]]
       BY DEF ConfigIsShaped, IsRecordOf
<1>11. /\ taken = [f \in TopFields |-> taken[f]]
       /\ \A f \in TopFields \ {"providers", "routing"} : taken[f] = after[f]
  <2>1. taken = [f \in TopFields |-> IF f \in TOP_RELOADABLE_FIELDS \cup {"warnings"} THEN after[f] ELSE before[f]]
        BY <1>9, <1>10 DEF Replace
  <2> QED BY <1>1, <2>1 DEF TopFields
<1>12. [taken EXCEPT !.providers = after.providers, !.routing = after.routing] = after
       BY <1>10, <1>11 DEF TopFields
<1>13. applyConfigReload(before, after) = [taken EXCEPT !.providers = providers, !.routing = routing]
       BY <1>5, <1>7, <1>9 DEF applyConfigReload
<1> QED BY <1>6, <1>8, <1>12, <1>13

\* A reload that reports no change has changed nothing but the warnings.
THEOREM QuietReloadChangesNothing ==
    ASSUME NEW before, NEW after, ConfigIsShaped(before), ConfigIsShaped(after),
           configReloadRestartPaths(before, after) = {},
           configReloadChangedPaths(before, after) = {}
    PROVE  applyConfigReload(before, after) = [before EXCEPT !.warnings = after.warnings]
<1>1. /\ \A f \in TOP_RELOADABLE_FIELDS : before[f] = after[f]
      /\ \A f \in ROUTING_RELOADABLE_FIELDS : before.routing[f] = after.routing[f]
      BY Zenon DEF configReloadChangedPaths, Differing
<1>2. /\ \A f \in TOP_RESTART_FIELDS : before[f] = after[f]
      /\ \A f \in ROUTING_RESTART_FIELDS : before.routing[f] = after.routing[f]
      BY Zenon DEF configReloadRestartPaths, Differing
<1>3. SameProviders(before, after)
      BY DEF configReloadRestartPaths
<1>4. ASSUME NEW p \in DOMAIN before.providers
      PROVE  before.providers[p] = after.providers[p]
  <2>1. PICK b, a : b = before.providers[p] /\ a = after.providers[p]
        OBVIOUS
  <2>2. /\ Differing(PROVIDER_RESTART_FIELDS, b, a) = {}
        /\ credentialIdentityList(b) = credentialIdentityList(a)
        BY <1>3, <2>1 DEF configReloadRestartPaths
  <2>3. /\ Differing(PROVIDER_RELOADABLE_FIELDS, b, a) = {}
        /\ \A i \in DOMAIN b.credentials.slots \cap DOMAIN a.credentials.slots :
              b.credentials.slots[i].limits = a.credentials.slots[i].limits
        BY <1>3, <2>1 DEF configReloadChangedPaths
  <2>4. ProviderIsShaped(b) /\ ProviderIsShaped(a)
        BY <1>3, <2>1 DEF ConfigIsShaped, SameProviders
  <2>5. /\ b.credentials.listed = a.credentials.listed
        /\ DOMAIN b.credentials.slots = DOMAIN a.credentials.slots
        /\ \A i \in DOMAIN a.credentials.slots :
              [b.credentials.slots[i] EXCEPT !.limits = a.credentials.slots[i].limits] = a.credentials.slots[i]
        BY <2>2, <2>4, SlotsPairOff
  <2>6. b.credentials.slots = a.credentials.slots
    <3>1. /\ b.credentials.slots = [i \in DOMAIN b.credentials.slots |-> b.credentials.slots[i]]
          /\ a.credentials.slots = [i \in DOMAIN a.credentials.slots |-> a.credentials.slots[i]]
          BY <2>4 DEF ProviderIsShaped, SlotsAreShaped
    <3>2. ASSUME NEW i \in DOMAIN a.credentials.slots
          PROVE  b.credentials.slots[i] = a.credentials.slots[i]
      <4>1. PICK x, y : x = b.credentials.slots[i] /\ y = a.credentials.slots[i]
            OBVIOUS
      <4>2. /\ x = [f \in {"label", "authEnv", "limits"} |-> x[f]]
            /\ x.limits = y.limits /\ [x EXCEPT !.limits = y.limits] = y
            BY <2>3, <2>4, <2>5, <4>1 DEF ProviderIsShaped, SlotsAreShaped, IsRecordOf
      <4>3. [x EXCEPT !.limits = x.limits] = x
            BY <4>2
      <4> QED BY <4>1, <4>2, <4>3
    <3> QED BY <2>5, <3>1, <3>2
  <2>7. b.credentials = a.credentials
    <3>1. /\ b.credentials = [f \in {"listed", "slots"} |-> b.credentials[f]]
          /\ a.credentials = [f \in {"listed", "slots"} |-> a.credentials[f]]
          BY <2>4 DEF ProviderIsShaped, IsRecordOf
    <3> QED BY <2>5, <2>6, <3>1
  <2>8. \A f \in ProviderFields : b[f] = a[f]
        BY <2>2, <2>3, <2>7 DEF Differing, ProviderFields
  <2>9. b = a
        BY <2>4, <2>8 DEF ProviderIsShaped, IsRecordOf
  <2> QED BY <2>1, <2>9
<1>5. before.providers = after.providers
      BY <1>3, <1>4 DEF ConfigIsShaped, SameProviders
<1>6. before.routing = after.routing
  <2>1. \A f \in RoutingFields : before.routing[f] = after.routing[f]
        BY <1>1, <1>2 DEF RoutingFields
  <2> QED BY <2>1 DEF ConfigIsShaped, IsRecordOf
<1>7. \A f \in TopFields \ {"warnings"} : before[f] = after[f]
      BY <1>1, <1>2, <1>5, <1>6 DEF TopFields
<1>8. /\ before = [f \in TopFields |-> before[f]] /\ after = [f \in TopFields |-> after[f]]
      /\ "warnings" \in TopFields
      BY DEF ConfigIsShaped, IsRecordOf, TopFields
<1>9. [before EXCEPT !.warnings = after.warnings] = after
      BY <1>7, <1>8
<1> QED BY <1>9, ReloadIsWhole

\* A document that is accepted makes a whole configuration.
LEMMA LoadedIsShaped ==
    ASSUME NEW raw, NEW overrides, loadConfig(raw, overrides).ok
    PROVE  ConfigIsShaped(loadConfig(raw, overrides).value)
  <1>1. PICK doc : doc = WithOverrides(raw, overrides)
        OBVIOUS
  <1>2. PICK providers, routing, reshaper :
           /\ providers = parseProviders(doc) /\ routing = RoutingOf(doc)
           /\ reshaper = resolveReshaperPool(doc, routing, providers)
        OBVIOUS
  <1>3. loadConfig(raw, overrides) = ConfigOf(doc, providers, routing, reshaper)
        BY <1>1, <1>2 DEF loadConfig, ConfigWith
  <1>4. PICK cfg : cfg = loadConfig(raw, overrides).value
        OBVIOUS
  <1>5. /\ IsRecordOf(cfg, TopFields)
        /\ cfg.providers = providers /\ cfg.routing = routing
        BY <1>3, <1>4 DEF ConfigOf, Parsed, Rejected, IsRecordOf, TopFields,
                          TOP_RELOADABLE_FIELDS, TOP_RESTART_FIELDS
  <1>6. IsRecordOf(routing, RoutingFields)
    <2>1. PICK disabled, pools, blocks : routing = RoutingWith(doc, disabled, pools, blocks)
          BY <1>2 DEF RoutingOf
    <2> QED BY <2>1 DEF RoutingWith, IsRecordOf, RoutingFields, ROUTING_RELOADABLE_FIELDS, ROUTING_RESTART_FIELDS
  <1>7. providers = [p \in DOMAIN providers |-> providers[p]]
        /\ \A p \in DOMAIN providers : \E raws : providers[p] = buildProviderConfig(raws)
        BY <1>2 DEF parseProviders
  <1>8. ASSUME NEW raws PROVE ProviderIsShaped(buildProviderConfig(raws))
    <2>1. PICK p : p = buildProviderConfig(raws)
          OBVIOUS
    <2>2. PICK slots : slots = parseCredentialDeclarations(raws.credentials)
          OBVIOUS
    <2>3. SlotsAreShaped(slots)
      <3>1. PICK taken : slots = [i \in DOMAIN taken |-> Credential(taken[i])]
            BY <2>2 DEF parseCredentialDeclarations
      <3> QED BY <3>1 DEF SlotsAreShaped, IsRecordOf, Credential
    <2>4. IsRecordOf(p, ProviderFields) /\ p.credentials = [listed |-> raws.listed, slots |-> slots]
          BY <2>1, <2>2 DEF buildProviderConfig, IsRecordOf, ProviderFields,
                            PROVIDER_RELOADABLE_FIELDS, PROVIDER_RESTART_FIELDS
    <2>5. IsRecordOf(p.credentials, {"listed", "slots"}) /\ p.credentials.slots = slots
          BY <2>4 DEF IsRecordOf
    <2>6. ProviderIsShaped(p)
          BY <2>3, <2>4, <2>5 DEF ProviderIsShaped
    <2> QED BY <2>1, <2>6
  <1>9. \A p \in DOMAIN providers : ProviderIsShaped(providers[p])
        BY <1>7, <1>8
  <1>10. ConfigIsShaped(cfg)
         BY <1>5, <1>6, <1>7, <1>9 DEF ConfigIsShaped
  <1> QED BY <1>4, <1>10

\* What the catalog fills in is the members of the dynamic pools.
LEMMA FilledIsShaped ==
    ASSUME NEW cfg, ConfigIsShaped(cfg)
    PROVE  ConfigIsShaped(Filled(cfg))
  <1>1. PICK policies, parts : Filled(cfg) = FilledFrom(cfg, policies, parts)
        BY DEF Filled, materializeDynamicPools
  <1>2. \/ Filled(cfg) = cfg
        \/ \E pools, degraded :
              Filled(cfg) = [cfg EXCEPT !.routing.pools = pools, !.routing.poolDegraded = degraded]
        BY <1>1 DEF FilledFrom
  <1>3. ASSUME NEW pools, NEW degraded,
               Filled(cfg) = [cfg EXCEPT !.routing.pools = pools, !.routing.poolDegraded = degraded]
        PROVE  ConfigIsShaped(Filled(cfg))
    <2>1. PICK new, routing :
             /\ new = Filled(cfg)
             /\ routing = [[cfg.routing EXCEPT !.pools = pools] EXCEPT !.poolDegraded = degraded]
          OBVIOUS
    <2>2. cfg = [f \in TopFields |-> cfg[f]] /\ cfg.routing = [f \in RoutingFields |-> cfg.routing[f]]
          BY DEF ConfigIsShaped, IsRecordOf
    <2>3. "routing" \in TopFields /\ "providers" \in TopFields
          BY DEF TopFields
    <2>4. new = [cfg EXCEPT !.routing = routing]
          BY <1>3, <2>1, <2>2, <2>3
    <2>5. /\ new = [f \in TopFields |-> new[f]] /\ new.routing = routing /\ new.providers = cfg.providers
          BY <2>2, <2>3, <2>4
    <2>6. routing = [f \in RoutingFields |-> routing[f]]
          BY <2>1, <2>2
    <2> QED BY <2>1, <2>5, <2>6 DEF ConfigIsShaped, IsRecordOf
  <1> QED BY <1>2, <1>3

\* A switch is a part of the routing section.
LEMMA SwitchedIsShaped ==
    ASSUME NEW cfg, ConfigIsShaped(cfg), NEW switches
    PROVE  ConfigIsShaped([cfg EXCEPT !.routing.offload = switches])
  <1>1. PICK new, routing : /\ new = [cfg EXCEPT !.routing.offload = switches]
                            /\ routing = [cfg.routing EXCEPT !.offload = switches]
        OBVIOUS
  <1>2. cfg = [f \in TopFields |-> cfg[f]] /\ cfg.routing = [f \in RoutingFields |-> cfg.routing[f]]
        BY DEF ConfigIsShaped, IsRecordOf
  <1>3. "routing" \in TopFields /\ "providers" \in TopFields
        BY DEF TopFields
  <1>4. new = [cfg EXCEPT !.routing = routing]
        BY <1>1, <1>2, <1>3
  <1>5. /\ new = [f \in TopFields |-> new[f]] /\ new.routing = routing /\ new.providers = cfg.providers
        BY <1>2, <1>3, <1>4
  <1>6. routing = [f \in RoutingFields |-> routing[f]]
        BY <1>1, <1>2
  <1> QED BY <1>1, <1>5, <1>6 DEF ConfigIsShaped, IsRecordOf

\* The daemon runs what it is meant to run; while it does more than start it is
\* up; and what it has read and accepted is a whole configuration.
ConfigInv ==
    /\ live # <<>> => live = <<intended>> /\ ConfigIsShaped(intended)
    /\ daemonRead.op \in {"reload", "offload"} => live # <<>>
    /\ (daemonRead.op \in {"start", "reload"} /\ daemonRead.loaded.ok) =>
          ConfigIsShaped(daemonRead.loaded.value)

\* The steps that read, stop or fail leave what is live, or end it.
LEMMA QuietStepsKeepConfig ==
    ASSUME ConfigInv, \/ StartReads \/ ReloadReads \/ DaemonStops \/ OffloadFails \/ AskTelemetry
                      \/ CatalogRefreshes
                      \/ \E client, on : OffloadReads(client, on)
                      \/ UNCHANGED <<live, intended, daemonRead>>
    PROVE  ConfigInv'
  <1>1. CASE StartReads \/ ReloadReads
    <2>1. PICK op \in {"start", "reload"} : DaemonReads(op) /\ (op = "reload" => live # <<>>)
          BY <1>1 DEF StartReads, ReloadReads
    <2>2. /\ daemonRead' = [op |-> op, loaded |-> ReadFile(Overrides)]
          /\ UNCHANGED <<live, intended>>
          BY <2>1 DEF DaemonReads
    <2>3. ReadFile(Overrides).ok => ConfigIsShaped(ReadFile(Overrides).value)
          BY LoadedIsShaped DEF ReadFile, Rejected
    <2> QED BY <2>1, <2>2, <2>3 DEF ConfigInv
  <1>2. CASE DaemonStops
        BY <1>2 DEF DaemonStops, DaemonFree, ConfigInv
  <1>3. CASE OffloadFails
        BY <1>3 DEF OffloadFails, ConfigInv, IdleRead
  <1>4. CASE AskTelemetry \/ CatalogRefreshes \/ UNCHANGED <<live, intended, daemonRead>>
        BY <1>4 DEF AskTelemetry, CatalogRefreshes, ConfigInv
  <1>5. ASSUME NEW client, NEW on, OffloadReads(client, on) PROVE ConfigInv'
    <2>1. /\ live # <<>> /\ UNCHANGED <<live, intended>> /\ daemonRead'.op = "offload"
          BY <1>5 DEF OffloadReads
    <2> QED BY <2>1 DEF ConfigInv
  <1> QED BY <1>1, <1>2, <1>3, <1>4, <1>5

\* A start takes what was loaded; a reload takes it as a whole or not at all.
LEMMA LoadsKeepConfig ==
    ASSUME ConfigInv, Starts \/ Reloads
    PROVE  ConfigInv'
  <1>1. daemonRead' = IdleRead /\ daemonRead'.op = "none"
        BY DEF Starts, Reloads, IdleRead
  <1>2. CASE UNCHANGED <<live, intended>>
        BY <1>1, <1>2 DEF ConfigInv
  <1>3. CASE ~UNCHANGED <<live, intended>>
    <2>1. PICK cfg : /\ cfg = Filled(daemonRead.loaded.value) /\ daemonRead.loaded.ok
                     /\ daemonRead.op \in {"start", "reload"} /\ intended' = cfg
                     /\ \/ live' = <<cfg>>
                        \/ /\ daemonRead.op = "reload" /\ configReloadRestartPaths(Live, cfg) = {}
                           /\ live' = <<applyConfigReload(Live, cfg)>>
          BY <1>3 DEF Starts, Reloads
    <2>2. ConfigIsShaped(cfg)
          BY <2>1, FilledIsShaped DEF ConfigInv
    <2>3. live' = <<cfg>>
      <3>1. CASE daemonRead.op = "reload" /\ configReloadRestartPaths(Live, cfg) = {}
                 /\ live' = <<applyConfigReload(Live, cfg)>>
        <4>1. Live = intended /\ ConfigIsShaped(Live)
              BY <3>1 DEF ConfigInv, Live
        <4> QED BY <2>2, <3>1, <4>1, ReloadIsWhole
      <3> QED BY <2>1, <3>1
    <2> QED BY <1>1, <2>1, <2>2, <2>3 DEF ConfigInv
  <1> QED BY <1>2, <1>3

\* A switch that was persisted, and the members the catalog gives, change what
\* runs and what is meant alike.
LEMMA SwitchesAndRequestsKeepConfig ==
    ASSUME ConfigInv, OffloadRenames \/ \E req \in RouteRequests : RequestArrives(req)
    PROVE  ConfigInv'
  <1>1. CASE OffloadRenames
    <2>1. PICK switches : /\ live' = <<[Live EXCEPT !.routing.offload = switches]>>
                          /\ intended' = [intended EXCEPT !.routing.offload = switches]
                          /\ daemonRead' = IdleRead /\ daemonRead.op = "offload"
          BY <1>1 DEF OffloadRenames
    <2>2. Live = intended /\ ConfigIsShaped(intended)
          BY <2>1 DEF ConfigInv, Live
    <2>3. ConfigIsShaped(intended') /\ live' = <<intended'>>
          BY <2>1, <2>2, SwitchedIsShaped
    <2> QED BY <2>1, <2>3 DEF ConfigInv, IdleRead
  <1>2. CASE \E req \in RouteRequests : RequestArrives(req)
    <2>1. /\ live # <<>> /\ live' = <<Filled(Live)>> /\ intended' = Filled(intended)
          /\ UNCHANGED daemonRead /\ daemonRead.op = "none"
          BY <1>2 DEF RequestArrives, DaemonFree
    <2>2. Live = intended /\ ConfigIsShaped(intended)
          BY <2>1 DEF ConfigInv, Live
    <2>3. ConfigIsShaped(intended') /\ live' = <<intended'>>
          BY <2>1, <2>2, FilledIsShaped
    <2> QED BY <2>1, <2>3 DEF ConfigInv
  <1> QED BY <1>1, <1>2

\* LiveIsWhatWasLoaded, for any documents, catalogs, clients and editors: what
\* the daemon runs is the whole of what it last accepted, with the switches it
\* has persisted since, whatever was saved, torn, refused and read meanwhile.
THEOREM ReloadsAreWhole == ConfigSpec => []LiveIsWhatWasLoaded
<1>1. AnyStart => ConfigInv
  <2> SUFFICES ASSUME NEW first, NEW doc, NEW writes,
                      loadConfig(first, Overrides).ok, CfgInit(first, doc, writes)
               PROVE  ConfigInv
      BY DEF AnyStart
  <2>1. ConfigIsShaped(intended)
        BY LoadedIsShaped, FilledIsShaped DEF CfgInit
  <2>2. live \in {<<>>, <<intended>>} /\ daemonRead.op = "none"
        BY DEF CfgInit, IdleRead
  <2> QED BY <2>1, <2>2 DEF ConfigInv
<1>2. ConfigInv /\ [CfgNext]_cfgVars => ConfigInv'
  <2> SUFFICES ASSUME ConfigInv, [CfgNext]_cfgVars PROVE ConfigInv'
      OBVIOUS
  <2>1. CASE StartReads \/ ReloadReads \/ DaemonStops \/ OffloadFails \/ AskTelemetry \/ CatalogRefreshes
        BY <2>1, QuietStepsKeepConfig
  <2>2. CASE Starts \/ Reloads
        BY <2>2, LoadsKeepConfig
  <2>3. CASE \E client \in OffloadClients, on \in {"true", "false"} : OffloadReads(client, on)
        BY <2>3, QuietStepsKeepConfig
  <2>4. CASE OffloadRenames \/ \E req \in RouteRequests : RequestArrives(req)
        BY <2>4, SwitchesAndRequestsKeepConfig
  <2>5. CASE \/ \E e \in Editors : \/ \E set \in SetCommands : EditorReads(e, set)
                                   \/ EditorTruncates(e) \/ EditorWrites(e) \/ EditorDies(e)
             \/ \E doc \in SavedDocuments : OperatorSaves(doc)
    <3>1. UNCHANGED <<live, intended, daemonRead>>
          BY <2>5 DEF EditorReads, EditorTruncates, EditorWrites, EditorDies, OperatorSaves
    <3> QED BY <3>1, QuietStepsKeepConfig
  <2>6. CASE UNCHANGED cfgVars
    <3>1. UNCHANGED <<live, intended, daemonRead>>
          BY <2>6 DEF cfgVars
    <3> QED BY <3>1, QuietStepsKeepConfig
  <2> QED BY <2>1, <2>2, <2>3, <2>4, <2>5, <2>6, Zenon DEF CfgNext
<1>3. ConfigInv => LiveIsWhatWasLoaded
      BY DEF ConfigInv, LiveIsWhatWasLoaded, Live
<1> QED BY <1>1, <1>2, <1>3, PTL DEF ConfigSpec
=============================================================================
