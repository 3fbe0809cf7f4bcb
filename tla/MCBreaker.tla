------------------------------ MODULE MCBreaker -----------------------------
(***************************************************************************)
(* Small fleets for the circuit breaker, alone and with its file.          *)
(***************************************************************************)
EXTENDS BreakerPersistence

CONSTANTS c1, c2, c3, k1, k2, m1, m2

\* Two credentials of one provider; the first serves two models.
MCCredentialOf == [c \in Targets |-> IF c = c3 THEN k2 ELSE k1]
MCModelOf == [c \in Targets |-> IF c = c2 THEN m2 ELSE m1]
MCProviderOf == [c \in Targets |-> "provider"]

\* Short ladders of cooldowns.
MCRateLimitRungs == <<2, 4, 5>>
MCFailureRungs == <<4, 5>>
RestartRateLimitRungs == <<1, 3>>
RestartFailureRungs == <<3>>

\* The breaker of one process, whose file nobody looks at.
BreakerSpec == PersistInit /\ [][Next /\ UNCHANGED <<persistVars, restarts>>]_allVars
=============================================================================
