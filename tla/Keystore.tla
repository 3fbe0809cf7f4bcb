------------------------------ MODULE Keystore ------------------------------
(***************************************************************************)
(* The encrypted keystore of src/keystore.ts as the relay and the keys     *)
(* commands (keys-cli.ts, key-import.ts) share it: one file, replaced      *)
(* whole, no lock, and in every process a memo of the last load, the last  *)
(* key-encryption key and the last failure to unlock (os-keyring.ts).      *)
(*                                                                         *)
(* A row records the key it was sealed with, a value (the number of the    *)
(* command that wrote it) and whether it can be used.  Ciphertexts, salts, *)
(* fingerprints, prompts and output are left out; the cryptography is      *)
(* perfect: a row opens with the key that sealed it and with no other.     *)
(* Every replacement has a new stat token (mtime, size and inode).         *)
(***************************************************************************)
EXTENDS ServiceClock, Sequences, FiniteSets

CONSTANTS KeyProviders,    \* provider -> [slots, legacy, passthrough, aliases]: its slots
                           \* [id, label, env], and the curated names of its variables
          KeyCandidates,   \* credentialCandidateEnvNames of the slot, in order
          SlotId,          \* the configured slot's own credential id
          RestoredStates,  \* the states of exported rows that are imported
          Commands,        \* processes that run keys commands
          UnreadableRetry, UnlockRetry,   \* UNREADABLE_RETRY_MS, UNLOCK_RETRY_MS
          MaxCommands,     \* bound: commands and lookups begun
          MaxKeyClock      \* bound: how far the clock runs

KeyProcs == Commands \cup {"relay"}
Slots == UNION {KeyProviders[v].slots : v \in DOMAIN KeyProviders}
KeyIds == {s.id : s \in Slots}
EnvNames == {s.env : s \in Slots} \cup UNION {KeyProviders[v].aliases : v \in DOMAIN KeyProviders}

VARIABLES keyFile,    \* [token, content]
          memo,         \* process -> its last load [token, content, at]
          kekCache,     \* process -> item of the key it holds, 0 none
          unlockFailed, \* process -> [item, at] of the last failure, item 0 none
          cmd,          \* process -> the command it runs
          begun         \* commands begun so far

keyVars == <<clock, keyFile, memo, kekCache, unlockFailed, cmd, begun>>

Absent == [kind |-> "absent", item |-> 0, rows |-> << >>, dropped |-> 0]
Garbage == [kind |-> "garbage", item |-> 0, rows |-> << >>, dropped |-> 0]
NoMemo == [token |-> -1, content |-> Absent, at |-> 0]
NoFailure == [item |-> 0, at |-> 0]
NoCommand == [op |-> "none", id |-> None, env |-> None, n |-> 0, state |-> "live", pc |-> "idle",
              token |-> 0, base |-> Absent, proof |-> TRUE, seen |-> 0]

\* The status of loadStore: fresh, unreadable, degraded or ok.
LoadStatus(content) == CASE content.kind = "absent" -> "fresh"
                         [] content.kind = "garbage" -> "unreadable"
                         [] content.dropped > 0 -> "degraded"
                         [] OTHER -> "ok"

\* lookupByEnvNames: a row that may be used.
Usable(row) == row.state = "live"

\* cryptographicallyUnreadableCount
Unopenable(store) == {id \in DOMAIN store.rows : store.rows[id].kek # store.item}

\* The row the candidates select, the earliest name first; None when there is
\* none that is usable and opens.
Winner(content) ==
    LET answers(i) == {id \in DOMAIN content.rows :
                          /\ content.rows[id].env = KeyCandidates[i]
                          /\ Usable(content.rows[id])
                          /\ content.rows[id].kek = content.item}
        hits == {i \in DOMAIN KeyCandidates : answers(i) # {}}
    IN IF LoadStatus(content) \in {"fresh", "unreadable"} \/ hits = {} THEN None
       ELSE CHOOSE id \in answers(CHOOSE i \in hits : \A j \in hits : i <= j) : TRUE

-----------------------------------------------------------------------------
(* Loading and unlocking. *)

\* reusableStoreLoad: a failure to read is retried after a while.
ReusableStoreLoad(m) == \/ LoadStatus(m.content) # "unreadable"
                        \/ clock - m.at < UnreadableRetry

\* loadStore, from the stat that observeStore took: the memo of that very stat,
\* or the bytes as they are by now.
Loaded(p, token) ==
    IF memo[p].token = token /\ ReusableStoreLoad(memo[p])
    THEN memo[p] ELSE [token |-> token, content |-> keyFile.content, at |-> clock]

\* recoverStoreKek: the key in hand when it is this store's, an unlock that
\* failed a moment ago fails again, and otherwise the keyring is asked
\* (unwrapKek), which the user may have locked by then: `open`.
StillFailing(p, item) == /\ unlockFailed[p].item = item
                         /\ clock - unlockFailed[p].at < UnlockRetry

\* Faulty: a key in hand is taken for the key of whatever store was loaded.
RecoverAnyKek(p, store, open) ==
    IF kekCache[p] # 0 THEN kekCache[p]
    ELSE IF StillFailing(p, store.item) \/ ~open THEN 0 ELSE store.item

\* recoverVerifiedStoreKek: the item of the key, 0 when the store stays locked;
\* the check value stored beside the rows rejects any other key.
RecoverKek(p, store, open) ==
    IF kekCache[p] = store.item THEN store.item
    ELSE IF StillFailing(p, store.item) \/ ~open THEN 0 ELSE store.item

\* What an attempt to unlock leaves behind: pruneUnlockFailures, cacheKek and
\* rememberUnlockFailure.
Unlocked(p, store, keep, open) ==
    LET kek == RecoverKek(p, store, open)
    IN IF kek # 0
       THEN /\ kekCache' = [kekCache EXCEPT ![p] = IF keep THEN kek ELSE IF @ = kek THEN @ ELSE 0]
            /\ unlockFailed' = [unlockFailed EXCEPT ![p] = NoFailure]
       ELSE /\ kekCache' = [kekCache EXCEPT ![p] = IF StillFailing(p, store.item) THEN @ ELSE 0]
            /\ unlockFailed' = [unlockFailed EXCEPT ![p] =
                  IF StillFailing(p, store.item) THEN @ ELSE [item |-> store.item, at |-> clock]]
LockUntouched == UNCHANGED <<kekCache, unlockFailed>>

-----------------------------------------------------------------------------
(* Which row a command is about. *)

\* selectAddTarget: the slot of a provider that a label and a variable name
\* select, as a set of at most one; a provider that forwards the caller's own
\* credential has none to store, and neither may name what is not declared.
SelectAddTarget(provider, label, env) ==
    LET v == KeyProviders[provider]
        byEnv == {s \in v.slots : s.env = env}
        byLabel == {s \in v.slots : s.label = label}
        named == IF byEnv # {} THEN byEnv ELSE byLabel
        chosen == IF v.legacy THEN {s \in v.slots : label \in {None, s.label}}
                  ELSE IF named # {} THEN named
                  ELSE IF Cardinality(v.slots) = 1 THEN v.slots
                  ELSE {s \in v.slots : label = None /\ env = None /\ s.label = "default"}
    IN IF \/ v.passthrough
          \/ env # None /\ env \notin {s.env : s \in v.slots} \cup v.aliases
          \/ label # None /\ byLabel = {}
          \/ byEnv # {} /\ byLabel # {} /\ byEnv # byLabel THEN {}
       ELSE {[id |-> s.id, env |-> IF v.legacy /\ env # None THEN env ELSE s.env] : s \in chosen}

\* matchCredentialImportName: an imported name means the one slot declared for
\* it, or the one provider with a single slot that knows it as an alias.
MatchImportName(name) ==
    LET exact == {<<v, s.env>> : v \in DOMAIN KeyProviders, s \in Slots} \cap
                 {<<v, name>> : v \in {w \in DOMAIN KeyProviders : \E s \in KeyProviders[w].slots : s.env = name}}
        alias == {v \in DOMAIN KeyProviders : name \in KeyProviders[v].aliases
                                              /\ Cardinality(KeyProviders[v].slots) = 1}
    IN IF Cardinality(exact) = 1 THEN exact
       ELSE IF exact # {} \/ Cardinality(alias) # 1 THEN {}
       ELSE {<<v, s.env>> : v \in alias, s \in UNION {KeyProviders[w].slots : w \in alias}}

\* runKeysAddLocal and the two loops of runKeysImportLocal: the rows they add.
AddTargets == UNION {SelectAddTarget(v, label, env) :
                        v \in DOMAIN KeyProviders, label \in {None, "default"}, env \in {None} \cup EnvNames}
ImportTargets == UNION {SelectAddTarget(m[1], None, m[2]) : m \in UNION {MatchImportName(n) : n \in EnvNames}}

\* A row of the configured slot is stored under a name that its lookups try.
ASSUME KeystoreAssumption ==
    /\ KeyCandidates \in Seq(STRING)
    /\ None \notin KeyIds
    /\ \A t \in AddTargets \cup ImportTargets :
          t.id = SlotId => \E i \in DOMAIN KeyCandidates : KeyCandidates[i] = t.env

-----------------------------------------------------------------------------
(* Commands.  pc: "stat", "load", "apply", "write"; a rotation first proves *)
(* what it is about to change and then waits for the new secret.            *)

RowOps == {"rotate", "revoke", "remove", "disable", "enable"}

\* A command starts with the stat of observeStore.
Begin(p, op, id, env, state) ==
    /\ cmd[p].pc = "idle"
    /\ begun < MaxCommands
    /\ begun' = begun + 1
    /\ cmd' = [cmd EXCEPT ![p] = [op |-> op, id |-> id, env |-> env, n |-> begun + 1, state |-> state,
                                  pc |-> "load", token |-> keyFile.token, base |-> Absent,
                                  proof |-> op # "rotate", seen |-> keyFile.token]]
    /\ UNCHANGED <<clock, keyFile, memo, kekCache, unlockFailed>>

\* observeStore again, once a rotation has its new secret.
Observe(p) ==
    /\ cmd[p].pc = "stat"
    /\ cmd' = [cmd EXCEPT ![p].pc = "load", ![p].token = keyFile.token]
    /\ UNCHANGED <<clock, keyFile, memo, kekCache, unlockFailed, begun>>

\* loadStore
Load(p) ==
    /\ cmd[p].pc = "load"
    /\ memo' = [memo EXCEPT ![p] = Loaded(p, cmd[p].token)]
    /\ cmd' = [cmd EXCEPT ![p].pc = "apply", ![p].base = memo'[p].content]
    /\ UNCHANGED <<clock, keyFile, kekCache, unlockFailed, begun>>

Finish(p) == cmd' = [cmd EXCEPT ![p] = NoCommand]

\* lookupByEnvNames: the value a load of `content` yields, 0 for none.
Served(p, content, open) == IF Winner(content) = None \/ RecoverKek(p, content, open) = 0 THEN 0
                            ELSE content.rows[Winner(content)].value

\* resolveCredential: a variable that is set wins over every row (`shadowed`).
Lookup(p, open, shadowed) ==
    /\ cmd[p].op = "lookup" /\ cmd[p].pc = "apply"
    /\ Finish(p)
    /\ IF Winner(cmd[p].base) = None \/ shadowed THEN LockUntouched
       ELSE Unlocked(p, cmd[p].base, TRUE, open)
    /\ UNCHANGED <<clock, keyFile, memo, begun>>

\* The store as it is to be written, every row of the load kept.
WithRow(store, id, row) ==
    [store EXCEPT !.rows = [x \in DOMAIN store.rows \cup {id} |-> IF x = id THEN row ELSE store.rows[x]]]
WithoutRow(store, id) ==
    [store EXCEPT !.rows = [x \in DOMAIN store.rows \ {id} |-> store.rows[x]]]
ToWrite(p, store) == cmd' = [cmd EXCEPT ![p].pc = "write", ![p].base = store]

\* createStore: a new key for a new file.
CreateStore(n) == [kind |-> "store", item |-> n, rows |-> << >>, dropped |-> 0]

\* openStoreForNewEntry, addEntry and restoreEntryFromExport
Clashes(store, id, env) == \E x \in DOMAIN store.rows : x = id \/ store.rows[x].env = env
ApplyNew(p, open) ==
    LET c == cmd[p]
        fresh == LoadStatus(c.base) = "fresh"
        store == IF fresh THEN CreateStore(c.n) ELSE c.base
        refused == LoadStatus(c.base) \in {"unreadable", "degraded"} \/ Clashes(c.base, c.id, c.env)
        kek == IF fresh THEN c.n ELSE RecoverKek(p, store, open)
        sealed == [kek |-> kek, env |-> c.env, value |-> c.n, state |-> c.state]
    IN /\ c.op \in {"add", "restore"} /\ c.pc = "apply"
       /\ IF ~refused /\ kek # 0 /\ Unopenable(store) = {}
          THEN ToWrite(p, WithRow(store, c.id, sealed))
          ELSE Finish(p)
       /\ IF refused THEN LockUntouched
          ELSE IF fresh THEN /\ kekCache' = [kekCache EXCEPT ![p] = c.n]
                             /\ unlockFailed' = [unlockFailed EXCEPT ![p] = NoFailure]
          ELSE Unlocked(p, store, Unopenable(store) = {}, open)
       /\ UNCHANGED <<clock, keyFile, memo, begun>>

\* requireStoreForMutation and findEntry
Mutable(c) == LoadStatus(c.base) = "ok" /\ c.id \in DOMAIN c.base.rows

\* runKeysRotateLocal before the prompt: rotating the row must change what the
\* relay sends, so it must be the configured slot's and the one that wins.
Proves(p, open, shadowed) ==
    LET c == cmd[p]
    IN /\ Mutable(c)
       /\ c.id = SlotId
       /\ c.base.rows[c.id].state \notin {"disabled", "expired"}
       /\ ~shadowed
       /\ RecoverKek(p, c.base, open) # 0
       /\ Unopenable(c.base) = {}
       /\ Winner(c.base) = IF c.base.rows[c.id].state = "revoked" THEN None ELSE c.id
Prove(p, open, shadowed) ==
    /\ cmd[p].op = "rotate" /\ ~cmd[p].proof /\ cmd[p].pc = "apply"
    /\ IF Proves(p, open, shadowed) THEN cmd' = [cmd EXCEPT ![p].proof = TRUE, ![p].pc = "stat"] ELSE Finish(p)
    /\ IF Mutable(cmd[p]) THEN Unlocked(p, cmd[p].base, TRUE, open) ELSE LockUntouched
    /\ UNCHANGED <<clock, keyFile, memo, begun>>

\* rotateEntry: a new value, and no longer revoked.
ApplyRotate(p, open) ==
    LET c == cmd[p]
        kek == RecoverKek(p, c.base, open)
        row == c.base.rows[c.id]
        sealed == [row EXCEPT !.kek = kek, !.value = c.n,
                              !.state = IF @ = "revoked" THEN "live" ELSE @]
    IN /\ c.op = "rotate" /\ c.proof /\ c.pc = "apply"
       /\ IF Mutable(c) /\ kek # 0 /\ Unopenable(c.base) = {}
          THEN ToWrite(p, WithRow(c.base, c.id, sealed))
          ELSE Finish(p)
       /\ IF Mutable(c) THEN Unlocked(p, c.base, Unopenable(c.base) = {}, open) ELSE LockUntouched
       /\ UNCHANGED <<clock, keyFile, memo, begun>>

\* revokeEntry, removeEntry and setDisabled: allowed on a store that cannot be
\* unlocked, refused on one that can and has rows that do not open
\* (refuseCryptographicDegradationWhenUnlockable).
Restated(row, op) == [row EXCEPT !.state = CASE op = "revoke" -> "revoked"
                                             [] op = "disable" -> IF @ = "live" THEN "disabled" ELSE @
                                             [] op = "enable" -> IF @ = "disabled" THEN "live" ELSE @]
ApplyState(p, open) ==
    LET c == cmd[p]
        refused == RecoverKek(p, c.base, open) # 0 /\ Unopenable(c.base) # {}
    IN /\ c.op \in {"revoke", "remove", "disable", "enable"} /\ c.pc = "apply"
       /\ IF ~Mutable(c) \/ refused THEN Finish(p)
          ELSE ToWrite(p, IF c.op = "remove" THEN WithoutRow(c.base, c.id)
                          ELSE WithRow(c.base, c.id, Restated(c.base.rows[c.id], c.op)))
       /\ IF Mutable(c) THEN Unlocked(p, c.base, FALSE, open) ELSE LockUntouched
       /\ UNCHANGED <<clock, keyFile, memo, begun>>

\* persistStore: the rename replaces the file; what fails before it leaves the
\* old file, what fails after it (hardenFile) reports an error for a write that
\* has happened.  The process forgets its memo at the rename.
Persist(p) ==
    /\ cmd[p].pc = "write"
    /\ Finish(p)
    /\ \/ /\ keyFile' = [token |-> keyFile.token + 1, content |-> cmd[p].base]
          /\ memo' = [memo EXCEPT ![p] = NoMemo]
       \/ UNCHANGED <<keyFile, memo>>
    /\ UNCHANGED <<clock, kekCache, unlockFailed, begun>>

-----------------------------------------------------------------------------
\* lock
Lock(p) ==
    /\ cmd[p].pc = "idle"
    /\ begun < MaxCommands
    /\ begun' = begun + 1
    /\ kekCache' = [kekCache EXCEPT ![p] = 0]
    /\ unlockFailed' = [unlockFailed EXCEPT ![p] = NoFailure]
    /\ UNCHANGED <<clock, keyFile, memo, cmd>>

\* Somebody edits, truncates or deletes the file by hand.
HandEdit ==
    /\ begun < MaxCommands
    /\ begun' = begun + 1
    /\ \/ \E content \in {Absent, Garbage} :
             keyFile' = [token |-> keyFile.token + 1, content |-> content]
       \/ /\ keyFile.content.kind = "store"
          /\ keyFile' = [token |-> keyFile.token + 1,
                         content |-> [keyFile.content EXCEPT !.dropped = 1]]
    /\ UNCHANGED <<clock, memo, kekCache, unlockFailed, cmd>>

KeyTick == /\ clock < MaxKeyClock /\ ClockTick
           /\ UNCHANGED <<keyFile, memo, kekCache, unlockFailed, cmd, begun>>

KeyInit ==
    /\ keyFile = [token |-> 0, content |-> Absent]
    /\ memo = [p \in KeyProcs |-> NoMemo]
    /\ kekCache = [p \in KeyProcs |-> 0]
    /\ unlockFailed = [p \in KeyProcs |-> NoFailure]
    /\ cmd = [p \in KeyProcs |-> NoCommand]
    /\ begun = 0

KeyNext ==
    \/ \E p \in Commands, t \in AddTargets \cup ImportTargets : Begin(p, "add", t.id, t.env, "live")
    \/ \E p \in Commands, t \in ImportTargets, state \in RestoredStates : Begin(p, "restore", t.id, t.env, state)
    \/ \E p \in Commands, op \in RowOps, id \in KeyIds : Begin(p, op, id, None, "live")
    \/ Begin("relay", "lookup", None, None, "live")
    \/ \E p \in KeyProcs : Load(p)
    \/ \E p \in Commands : Observe(p) \/ Persist(p) \/ Lock(p)
    \/ \E open, shadowed \in BOOLEAN : \/ Lookup("relay", open, shadowed)
                                      \/ \E p \in Commands : Prove(p, open, shadowed)
    \/ \E p \in Commands, open \in BOOLEAN : ApplyNew(p, open) \/ ApplyRotate(p, open) \/ ApplyState(p, open)
    \/ HandEdit
    \/ KeyTick

KeySpec == ClockInit /\ KeyInit /\ [][KeyNext]_keyVars

-----------------------------------------------------------------------------
\* Two commands may both create the store, and a process goes on with the key
\* of a store that is no longer there: however they interleave, every row in
\* the file opens with the key of that file.
RowsOpenWithTheirStore ==
    keyFile.content.kind = "store" => Unopenable(keyFile.content) = {}

\* There is no lock, so a command that overlaps another may undo it.  One during
\* which nobody else replaced the file is exact, whatever its process remembers
\* from before: a write keeps every other row, a rotation that was proved to
\* change the relay's credential does, and a lookup that finds a value finds
\* the one in the file.
QuietCommandsAreExact ==
    [][\A p \in KeyProcs :
          LET c == cmd[p]
              quiet == c.seen = keyFile.token
              wrote == c.pc = "write" /\ keyFile'.token # keyFile.token /\ cmd'[p] = NoCommand
          IN /\ (quiet /\ wrote) =>
                   \A id \in DOMAIN keyFile.content.rows \ {c.id} :
                      id \in DOMAIN keyFile'.content.rows /\ keyFile'.content.rows[id] = keyFile.content.rows[id]
             /\ (quiet /\ wrote /\ c.op = "rotate") => Winner(keyFile'.content) = c.id
             /\ (quiet /\ c.op = "lookup" /\ c.pc = "apply" /\ cmd'[p] = NoCommand) =>
                   Served(p, c.base, TRUE) \in {0, Served(p, keyFile.content, TRUE)}]_keyVars

\* Every step leaves a file that opens with its own key (a start finds none), and
\* a command nobody overlaps does what it says.
KeystoreIsExact == [][RowsOpenWithTheirStore']_keyVars /\ QuietCommandsAreExact
=============================================================================
