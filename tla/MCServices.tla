------------------------------ MODULE MCServices ----------------------------
(***************************************************************************)
(* The services that run beside the request path, each in a behaviour of   *)
(* its own: `part` names the one whose steps a behaviour takes.            *)
(***************************************************************************)
EXTENDS WriteBehind, LaneCadence, Keystore, AccountingStore

(* A ladder of two tiers: a command-line tool and a pool share a quota. *)

Cli(id, quota) == [id |-> id, kind |-> "cli", enabled |-> TRUE, quota |-> quota,
                   tool |-> "codex", model |-> "m1",
                   args |-> [flag \in {"--model", "--effort"} |-> "high"],
                   spec |-> None, launched |-> FALSE, routed |-> FALSE]
Relay(id, quota, spec) == [id |-> id, kind |-> "relay", enabled |-> TRUE, quota |-> quota,
                           tool |-> None, model |-> None, args |-> << >>,
                           spec |-> spec, launched |-> FALSE, routed |-> FALSE]

MCLadders == [t \in {"medium", "high"} |->
                 IF t = "medium" THEN <<Cli("a", "q"), Relay("b", None, "pool/p")>>
                 ELSE <<Relay("b", "q", "pool/p"), [Cli("a", "q") EXCEPT !.enabled = FALSE]>>]
MCPoolSpecs == [s \in {"pool/p", "x/y"} |-> IF s = "pool/p" THEN {"x/y", "z/w"} ELSE {"x/y"}]
MCPoolTail == [s \in {"pool/p", "x/y"} |-> IF s = "pool/p" THEN {"z/w"} ELSE {}]
MCWindow == [s \in {"x/y", "z/w"} |-> IF s = "x/y" THEN 8 ELSE 0]
MCStrength == [s \in {"pool/p", "m1"} |-> "high"]
MCRosterModels == {{"m1"}, {"m2"}}

MCKeyProviders ==
    [v \in {"v1"} |-> [slots |-> {[id |-> "k1", label |-> "default", env |-> "E1"],
                                  [id |-> "k2", label |-> "spare", env |-> "E2"]},
                       legacy |-> FALSE, passthrough |-> FALSE, aliases |-> {"E3"}]]
MCKeyCandidates == <<"E2", "E1">>
Symmetry == Permutations(Commands) \cup Permutations(Facts)
Everywhere == {"idle", "drain", "facts", "plan", "retention"}

VARIABLE part

ladderPart == <<ladderVars, cadenceVars>>
keyPart == <<keyFile, memo, kekCache, unlockFailed, cmd, begun>>
serviceVars == <<part, vars, ladderPart, activityVars, keyPart, ledgerVars>>

ServicesInit == /\ part \in {"stores", "exhaustion", "memory", "cadence", "activity", "keystore", "ledger"}
                /\ Init
                /\ LadderInit /\ CadenceInit
                /\ ActivityInit /\ KeyInit /\ LedgerInit

Stores_ == part = "stores" /\ Next /\ UNCHANGED <<part, ladderPart, activityVars, keyPart, ledgerVars>>
Exhaustion_ == part = "exhaustion" /\ ExhaustionNext /\ UNCHANGED <<part, vars, cadenceVars, activityVars, keyPart, ledgerVars>>
Memory_ == part = "memory" /\ MemoryNext /\ UNCHANGED <<part, vars, cadenceVars, activityVars, keyPart, ledgerVars>>
Cadence_ == part = "cadence" /\ CadenceNext /\ UNCHANGED <<part, vars, activityVars, keyPart, ledgerVars>>
Activity_ == part = "activity" /\ ActivityNext /\ UNCHANGED <<part, vars, ladderPart, keyPart, ledgerVars>>
Keystore_ == part = "keystore" /\ KeyNext /\ UNCHANGED <<part, vars, ladderState, cadenceVars, activityVars, ledgerVars>>
Ledger_ == part = "ledger" /\ LedgerNext /\ UNCHANGED <<part, vars, ladderPart, activityVars, keyPart>>

ServicesNext == Stores_ \/ Exhaustion_ \/ Memory_ \/ Cadence_ \/ Activity_ \/ Keystore_ \/ Ledger_
ServicesSpec == ServicesInit /\ [][ServicesNext]_serviceVars
=============================================================================
