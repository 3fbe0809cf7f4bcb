---------------------------- MODULE ServiceProofs ---------------------------
(***************************************************************************)
(* Proofs about the services beside the request path, for any set of       *)
(* stores, lanes, requests, days, slots and commands: the write-behind     *)
(* timer, the dispatch ladder, the cadence of its probes and the activity  *)
(* of its lanes, the ledger's files, and the keystore.  Each has an        *)
(* invariant of its own, said at the head of its part.                     *)
(***************************************************************************)
EXTENDS WriteBehind, LaneCadence, Keystore, AccountingStore,
        FiniteSetTheorems, WellFoundedInduction, TLAPS

\* A set of naturals that is not empty has a least element.
LEMMA LeastNatural ==
    ASSUME NEW S \in SUBSET Nat, S # {}
    PROVE  \E n \in S : \A m \in S : n <= m
  <1> DEFINE Less == {ss \in Nat \X Nat : ss[1] < ss[2]}
  <1>1. IsWellFoundedOn(Less, Nat)
        BY NatLessThanWellFounded, Zenon DEF OpToRel
  <1>2. PICK n \in S : \A m \in S : ~(<<m, n>> \in Less)
        BY <1>1, WFMin
  <1>3. ASSUME NEW m \in S PROVE n <= m
    <2>1. <<m, n>> \in Nat \X Nat /\ <<m, n>>[1] = m /\ <<m, n>>[2] = n
          OBVIOUS
    <2> QED BY <1>2, <2>1
  <1> QED BY <1>3

-----------------------------------------------------------------------------
(***************************************************************************)
(* The write-behind timer.  The crash window is not inductive by itself: a *)
(* change that re-arms a timer must be known to re-arm it no later than    *)
(* the window of the oldest unwritten change ends, and time must be known  *)
(* to stop at a timer that is due.  TimerIsArmed says both.                *)
(***************************************************************************)

IInv == TypeOK /\ TimerIsArmed /\ CleanMeansWritten

\* The delay that Touch computes is never negative and never carries the timer
\* past the window that opened at the oldest change.
LEMMA DelayFitsTheWindow ==
    ASSUME NEW since \in Times, now \in Times, since <= now,
           now - since <= MaxFlushDelay
    PROVE  /\ Delay(since) \in Nat
           /\ now + Delay(since) <= since + MaxFlushDelay
    BY DelayAssumption DEF Delay, Times

\* Every store starts clean and equal to its file.
LEMMA InitIsArmed == Init => IInv
    BY DelayAssumption, ContentAssumption
    DEF Init, IInv, TypeOK, TimerIsArmed, CleanMeansWritten, Dirty, Times, Never

\* The time of the first unwritten change, as Touch takes it.
LEMMA SinceIsInTheWindow ==
    ASSUME IInv, NEW s \in Stores
    PROVE  LET since == IF Dirty(s) THEN dirtySince[s] ELSE now
           IN since \in Times /\ since <= now /\ now - since <= MaxFlushDelay
    BY DelayAssumption DEF IInv, TypeOK, TimerIsArmed, Dirty, Times, Never

\* A change keeps the timer inside the window of the oldest unwritten change.
LEMMA ChangeKeepsIInv ==
    ASSUME IInv, NEW s \in Stores, NEW content \in Contents, Change(s, content)
    PROVE  IInv'
  <1> DEFINE since == IF Dirty(s) THEN dirtySince[s] ELSE now
  <1>1. since \in Times /\ since <= now /\ now - since <= MaxFlushDelay
        BY SinceIsInTheWindow
  <1>2. /\ dirtySince' = [dirtySince EXCEPT ![s] = since]
        /\ fireAt' = [fireAt EXCEPT ![s] = now + Delay(since)]
        /\ memory' = [memory EXCEPT ![s] = content]
        /\ UNCHANGED <<now, disk, lastWrite>>
        BY DEF Change, Touch
  <1> HIDE DEF since
  <1>3. now \in Times
        BY DEF IInv, TypeOK
  <1>4. /\ Delay(since) \in Nat
        /\ now + Delay(since) <= since + MaxFlushDelay
        BY <1>1, <1>3, DelayFitsTheWindow
  <1>5. TypeOK'
        BY <1>1, <1>2, <1>3, <1>4 DEF IInv, TypeOK, Times
  <1>6. TimerIsArmed'
        BY <1>1, <1>2, <1>3, <1>4, DelayAssumption
        DEF IInv, TypeOK, TimerIsArmed, Dirty, Times, Never
  <1>7. CleanMeansWritten'
        BY <1>1, <1>2 DEF IInv, TypeOK, CleanMeansWritten, Dirty, Times, Never
  <1> QED BY <1>5, <1>6, <1>7 DEF IInv

\* A flush clears the timer and leaves the file current unless its write failed.
LEMMA FlushKeepsIInv ==
    ASSUME IInv, NEW s \in Stores, Flush(s), UNCHANGED <<now, memory>>
    PROVE  IInv'
  <1>1. TypeOK'
        BY DEF IInv, TypeOK, Flush, Write, Times, Never
  <1>2. TimerIsArmed'
        BY DelayAssumption DEF IInv, TypeOK, TimerIsArmed, Flush, Dirty, Times, Never
  <1>3. CleanMeansWritten'
    <2>1. CASE disk' = [disk EXCEPT ![s] = memory[s]]
               /\ lastWrite' = [lastWrite EXCEPT ![s] = "done"]
          BY <2>1 DEF IInv, TypeOK, CleanMeansWritten, Flush, Dirty
    <2>2. CASE lastWrite' = [lastWrite EXCEPT ![s] = "failed"] /\ UNCHANGED disk
          BY <2>2 DEF IInv, TypeOK, CleanMeansWritten, Flush, Dirty
    <2> QED BY <2>1, <2>2 DEF Flush, Write
  <1> QED BY <1>1, <1>2, <1>3 DEF IInv

\* A process that starts serves what its files hold.
LEMMA RestoreKeepsIInv ==
    ASSUME IInv, Restore, UNCHANGED now, disk' \in [Stores -> Contents],
           lastWrite' = [s \in Stores |-> "done"]
    PROVE  IInv'
    BY DEF IInv, TypeOK, TimerIsArmed, CleanMeansWritten, Restore, Dirty, Times, Never

\* Time does not pass a timer that is due.
LEMMA TickKeepsIInv == ASSUME IInv, Tick PROVE IInv'
  <1>1. TypeOK'
        BY DelayAssumption DEF IInv, TypeOK, Tick, Times
  <1>2. TimerIsArmed'
        BY DelayAssumption DEF IInv, TypeOK, TimerIsArmed, Tick, Dirty, Times, Never
  <1>3. CleanMeansWritten'
        BY DEF IInv, CleanMeansWritten, Tick, Dirty
  <1> QED BY <1>1, <1>2, <1>3 DEF IInv

\* Every step of the timers keeps the inductive invariant.
LEMMA NextKeepsIInv == IInv /\ [Next]_vars => IInv'
  <1> SUFFICES ASSUME IInv, [Next]_vars PROVE IInv'
      OBVIOUS
  <1>1. ASSUME NEW s \in Stores, NEW content \in Contents, Change(s, content)
        PROVE  IInv'
        BY <1>1, ChangeKeepsIInv
  <1>2. ASSUME NEW s \in Stores, Fire(s) PROVE IInv'
        BY <1>2, FlushKeepsIInv DEF Fire
  <1>3. ASSUME NEW s \in Stores, FlushNow(s) PROVE IInv'
        BY <1>3, FlushKeepsIInv DEF FlushNow
  <1>4. ASSUME Shutdown PROVE IInv'
    <2>1. PICK failing \in SUBSET {s \in Stores : Dirty(s) /\ WritesMayFail} :
               disk' = [s \in Stores |-> IF Dirty(s) /\ s \notin failing
                                         THEN memory[s] ELSE disk[s]]
          BY <1>4 DEF Shutdown
    <2>2. disk' \in [Stores -> Contents]
          BY <2>1 DEF IInv, TypeOK
    <2> QED BY <1>4, <2>2, RestoreKeepsIInv DEF Shutdown
  <1>5. ASSUME Crash PROVE IInv'
    <2>1. disk' \in [Stores -> Contents]
          BY <1>5 DEF Crash, IInv, TypeOK
    <2> QED BY <1>5, <2>1, RestoreKeepsIInv DEF Crash
  <1>6. ASSUME Tick PROVE IInv'
        BY <1>6, TickKeepsIInv
  <1>7. ASSUME UNCHANGED vars PROVE IInv'
        BY <1>7 DEF IInv, TypeOK, TimerIsArmed, CleanMeansWritten, Dirty, vars
  <1> QED BY <1>1, <1>2, <1>3, <1>4, <1>5, <1>6, <1>7 DEF Next

\* The inductive invariant holds of every behaviour of the timers.
THEOREM TimersKeepTheirInvariant == Spec => []IInv
    BY InitIsArmed, NextKeepsIInv, PTL DEF Spec

\* The crash window of src/write-behind.ts: whatever the delays, the stores and
\* the rate of changes, no unwritten change is older than MAX_FLUSH_DELAY_MS.
THEOREM CrashWindow == Spec => []CrashWindowIsBounded
  <1>1. IInv => CrashWindowIsBounded
        BY DelayAssumption
        DEF IInv, TypeOK, TimerIsArmed, CrashWindowIsBounded, Dirty, Times, Never
  <1> QED BY <1>1, TimersKeepTheirInvariant, PTL

\* A store with a clean timer whose last write did not fail has its state in
\* its file, so a crash then loses nothing.
THEOREM CleanStoresAreOnDisk == Spec => []CleanMeansWritten
  <1>1. IInv => CleanMeansWritten
        BY DEF IInv
  <1> QED BY <1>1, TimersKeepTheirInvariant, PTL

\* The two together: what a store holds is on disk, or will be within the window.
THEOREM StoresAreWritten == Spec => []StoreIsWritten
    BY CrashWindow, CleanStoresAreOnDisk, PTL DEF StoreIsWritten

-----------------------------------------------------------------------------
(***************************************************************************)
(* The ladder and its memories.  That a spent bucket is not offered rests  *)
(* on the keys: two rungs of one quota have one key, so the deadline a     *)
(* report leaves is the one the view reads, whichever rung was reported.   *)
(* That a lane is not pinned and demoted at once is inductive only with    *)
(* its file (OnceIn affinityFile): a restart brings the file's rows back.  *)
(***************************************************************************)

\* No lane of a tier is both pinned and demoted in this memory.
OnceIn(mem) == \A t \in ReportedTiers \cup Tiers, l \in LaneIds :
                  ~(mem[<<t, l, "pin">>] > clock /\ mem[<<t, l, "demote">>] > clock)

LadderInv ==
    /\ clock \in Nat
    /\ exhausted \in [Keys -> Int] /\ exhaustedFile \in [Keys -> Int]
    /\ affinity \in [MemoryKeys -> Int] /\ affinityFile \in [MemoryKeys -> Int]
    /\ OnceIn(affinity) /\ OnceIn(affinityFile)

\* A list of the elements of another is built position by position: what is
\* kept up to any position is a list of the elements kept.
LEMMA SelectedIsPart ==
    ASSUME NEW S, NEW s \in Seq(S), NEW kept
    PROVE  Selected(s, kept) \in Seq({s[i] : i \in kept \cap DOMAIN s})
<1> DEFINE T == {s[i] : i \in kept \cap DOMAIN s}
           Step(f, n) == IF n = 0 THEN <<>>
                         ELSE IF n \in kept THEN Append(f[n - 1], s[n]) ELSE f[n - 1]
           Upto(f, m) == f = [n \in 0 .. m |-> Step(f, n)]
<1>1. Len(s) \in Nat /\ DOMAIN s = 1 .. Len(s)
      OBVIOUS
<1>2. ASSUME NEW m \in Nat, NEW f, Upto(f, m), m <= Len(s)
      PROVE  \A n \in 0 .. m : f[n] \in Seq(T)
  <2> DEFINE Bad == {n \in 0 .. m : f[n] \notin Seq(T)}
  <2>1. SUFFICES ASSUME Bad # {} PROVE FALSE
        OBVIOUS
  <2>2. PICK n \in Bad : \A k \in Bad : n <= k
    <3>1. Bad \in SUBSET Nat
          OBVIOUS
    <3> HIDE DEF Bad
    <3> QED BY <2>1, <3>1, LeastNatural
  <2>3. n # 0
    <3>1. f[0] = <<>>
          BY <1>2
    <3>2. <<>> \in Seq(T)
          OBVIOUS
    <3> QED BY <3>1, <3>2
  <2>4. n - 1 \in 0 .. m /\ n - 1 \notin Bad
        BY <2>2, <2>3
  <2>5. f[n - 1] \in Seq(T)
        BY <2>4
  <2>6. f[n] = Step(f, n)
        BY <1>2
  <2>7. CASE n \in kept
    <3>1. s[n] \in T
          BY <2>7, <2>3, <1>1, <1>2
    <3>2. f[n] = Append(f[n - 1], s[n])
          BY <2>6, <2>7, <2>3
    <3> HIDE DEF T
    <3>3. f[n] \in Seq(T)
          BY <3>1, <3>2, <2>5
    <3> QED BY <3>3
  <2>8. CASE n \notin kept
        BY <2>6, <2>8, <2>3, <2>5
  <2> QED BY <2>7, <2>8
<1>3. \E f : Upto(f, Len(s))
  <2> DEFINE None_ == {m \in Nat : m <= Len(s) /\ ~\E f : Upto(f, m)}
  <2>1. SUFFICES ASSUME None_ # {} PROVE FALSE
        BY <1>1
  <2>2. PICK m \in None_ : \A k \in None_ : m <= k
        BY <2>1, LeastNatural
  <2>3. m # 0
    <3>1. Upto([n \in 0 .. 0 |-> <<>>], 0)
          OBVIOUS
    <3> QED BY <3>1
  <2>4. m - 1 \in Nat /\ m - 1 <= Len(s) /\ m - 1 \notin None_
    <3>1. m \in Nat /\ m <= Len(s)
          OBVIOUS
    <3> HIDE DEF None_
    <3> QED BY <1>1, <2>2, <2>3, <3>1
  <2>5. PICK f : Upto(f, m - 1)
        BY <2>4
  <2> DEFINE g == [n \in 0 .. m |-> IF n = m THEN Step(f, m) ELSE f[n]]
  <2>6. ASSUME NEW n \in 0 .. m PROVE g[n] = Step(g, n)
    <3>1. CASE n = 0
          BY <3>1, <2>3, <2>5, <2>4
    <3>2. CASE n = m
          BY <3>2, <2>3, <2>4
    <3>3. CASE n # 0 /\ n # m
      <4>1. n \in 0 .. m - 1 /\ n - 1 \in 0 .. m /\ n - 1 # m
            BY <3>3
      <4>2. f[n] = Step(f, n)
            BY <4>1, <2>5
      <4> QED BY <4>1, <4>2, <3>3
    <3> QED BY <3>1, <3>2, <3>3
  <2>7. Upto(g, m)
        BY <2>6
  <2> QED BY <2>7
<1> DEFINE h == CHOOSE f : Upto(f, Len(s))
<1>4. Upto(h, Len(s))
      BY <1>3
<1>5. Selected(s, kept) = h[Len(s)]
      BY DEF Selected
<1>6. h[Len(s)] \in Seq(T)
  <2> HIDE DEF Upto, h, T
  <2> QED BY <1>1, <1>2, <1>4
<1> QED BY <1>5, <1>6

\* What is kept of a list is in the list.
LEMMA SelectedIsOf ==
    ASSUME NEW S, NEW s \in Seq(S), NEW kept
    PROVE  /\ Selected(s, kept) \in Seq(S)
           /\ \A x \in RangeOf(Selected(s, kept)) : \E i \in kept \cap DOMAIN s : x = s[i]
<1> DEFINE T == {s[i] : i \in kept \cap DOMAIN s}
<1>1. Selected(s, kept) \in Seq(T)
      BY SelectedIsPart
<1>2. T \subseteq S
      OBVIOUS
<1>3. ASSUME NEW x \in RangeOf(Selected(s, kept)) PROVE x \in T
  <2> HIDE DEF T
  <2> QED BY <1>1 DEF RangeOf
<1>4. Selected(s, kept) \in Seq(S)
  <2> HIDE DEF T
  <2> QED BY <1>1, <1>2
<1> QED BY <1>3, <1>4

\* rankSelectable orders the lanes it is given and adds none.
LEMMA RankingAddsNone ==
    ASSUME NEW S, NEW lanes \in Seq(S), NEW tier, NEW mode
    PROVE  RangeOf(RankSelectable(lanes, tier, mode)) \subseteq RangeOf(lanes)
<1> DEFINE band(n) == Selected(lanes, {i \in DOMAIN lanes : Band(lanes[i], tier, mode) = n})
           R == RangeOf(lanes)
<1>1. lanes \in Seq(R)
      BY DEF RangeOf
<1> HIDE DEF R
<1>2. \A n : band(n) \in Seq(R)
      BY <1>1, SelectedIsOf
<1> HIDE DEF band
<1>3. band(0) \o band(1) \o band(2) \in Seq(R)
      BY <1>2
<1>4. RankSelectable(lanes, tier, mode) = band(0) \o band(1) \o band(2)
      BY DEF RankSelectable, band
<1>5. RangeOf(RankSelectable(lanes, tier, mode)) \subseteq R
      BY <1>3, <1>4 DEF RangeOf
<1> QED BY <1>5 DEF R

\* A view that names no lane of its own holds lanes that can run.
LEMMA ViewIsOfReadyLanes ==
    ASSUME NEW S, NEW lanes \in Seq(S), NEW o, NEW tier
    PROVE  \A l \in RangeOf(RankedView(lanes, o, tier)) :
              IsSelectable(l) /\ \E i \in DOMAIN lanes : l = lanes[i]
<1> DEFINE passed == IF o.after = None THEN 0 ELSE IndexIn(lanes, o.after)
           below == {i \in DOMAIN lanes : i > passed /\ IsSelectable(lanes[i])}
<1> SUFFICES ASSUME NEW l \in RangeOf(RankedView(lanes, o, tier))
             PROVE  IsSelectable(l) /\ \E i \in DOMAIN lanes : l = lanes[i]
    OBVIOUS
<1>1. ~(o.after # None /\ IndexIn(lanes, o.after) = 0)
  <2> SUFFICES ASSUME o.after # None /\ IndexIn(lanes, o.after) = 0 PROVE FALSE
      OBVIOUS
  <2>1. RankedView(lanes, o, tier) = <<>>
        BY Zenon DEF RankedView
  <2> QED BY <2>1 DEF RangeOf
<1>2. RankedView(lanes, o, tier) = RankSelectable(Selected(lanes, below), tier, o.mode)
      BY <1>1, Zenon DEF RankedView
<1>3. /\ Selected(lanes, below) \in Seq(S)
      /\ \A x \in RangeOf(Selected(lanes, below)) : \E i \in below \cap DOMAIN lanes : x = lanes[i]
      BY SelectedIsOf
<1>4. l \in RangeOf(Selected(lanes, below))
      BY <1>2, <1>3, RankingAddsNone
<1>5. PICK i \in below \cap DOMAIN lanes : l = lanes[i]
      BY <1>3, <1>4
<1> QED BY <1>5

\* Two rungs of one quota have one key: what is reported of either cools both.
LEMMA QuotaIsShared ==
    ASSUME LadderInv, NEW r \in Rungs, NEW x \in Rungs, r.quota = x.quota, x.quota # None,
           exhausted[CooldownKey(x)] > clock
    PROVE  CoolingUntil(r) > 0
<1>1. CooldownKey(r) = CooldownKey(x)
      BY DEF CooldownKey
<1>2. CooldownKey(x) \in Keys
      BY DEF Keys
<1>3. exhausted[CooldownKey(x)] \in Int /\ clock \in Nat
      BY <1>2 DEF LadderInv
<1> HIDE DEF CooldownKey
<1>4. CoolingUntil(r) = exhausted[CooldownKey(x)]
      BY <1>1, <1>2 DEF CoolingUntil
<1> QED BY <1>3, <1>4

\* A rung that is not cooling draws on no bucket that is spent.
LEMMA LiveRungsAreNotSpent ==
    ASSUME LadderInv, NEW r \in Rungs, ~(CoolingUntil(r) > 0)
    PROVE  r.quota \notin {y.quota : y \in {x \in Rungs : exhausted[CooldownKey(x)] > clock}} \ {None}
<1> SUFFICES ASSUME NEW x \in Rungs, exhausted[CooldownKey(x)] > clock, r.quota = x.quota,
                    x.quota # None
             PROVE  FALSE
    OBVIOUS
<1> QED BY QuotaIsShared

\* A lane of the view is a rung of the tier, and a rung that is cooling has no
\* lane in it.
LEMMA OfferedRungsLive ==
    ASSUME LadderInv, NEW q \in Questions, NEW l \in RangeOf(BuildDispatch(q))
    PROVE  \E r \in RangeOf(Ladders[q.tier]) : r.id = l.id /\ ~(CoolingUntil(r) > 0)
<1> DEFINE o == NormalizeOptions(q)
           t == q.tier
           rungs == Ladders[t]
           lanes == [i \in DOMAIN rungs |-> ToLane(rungs[i], i, o)]
<1>1. t \in Tiers /\ t # None /\ q.lane = None /\ q.model = None
      BY LadderAssumption DEF Questions
<1>2. o.tier = t /\ o.lane = None /\ o.model = None
      BY <1>1 DEF NormalizeOptions, Questions
<1>3. SelectLadder(t).rungs = rungs /\ SelectLadder(t).tier = t
      BY <1>1 DEF SelectLadder
<1>4. BuildDispatch(q) = RankedView(lanes, o, t)
  <2> HIDE DEF o, t
  <2> QED BY <1>2, <1>3, Zenon DEF BuildDispatch, o
<1>5. rungs \in Seq(Rungs)
      BY <1>1, LadderAssumption
<1> DEFINE S == {ToLane(rungs[i], i, o) : i \in DOMAIN rungs}
<1>6. lanes \in Seq(S)
  <2>1. DOMAIN rungs = 1 .. Len(rungs) /\ Len(rungs) \in Nat
        BY <1>5
  <2> QED BY <2>1
<1>7. IsSelectable(l) /\ \E i \in DOMAIN lanes : l = lanes[i]
  <2> HIDE DEF lanes, S, o, t
  <2> QED BY <1>4, <1>6, ViewIsOfReadyLanes
<1>8. PICK i \in DOMAIN rungs : l = ToLane(rungs[i], i, o)
      BY <1>7
<1>9. l.id = rungs[i].id
      BY <1>8 DEF ToLane
<1>10. ~(CoolingUntil(rungs[i]) > 0)
  <2>1. l.state = "ready"
        BY <1>7 DEF IsSelectable
  <2>2. CoolingUntil(rungs[i]) > 0 => l.state # "ready"
        BY <1>8 DEF ToLane
  <2> QED BY <2>1, <2>2
<1> QED BY <1>8, <1>9, <1>10 DEF RangeOf

\* "auto" takes a rung that is not cooling.
LEMMA AutoRungsLive ==
    ASSUME LadderInv, NEW t, ResolveAutoSpec(t) # None
    PROVE  \E r \in Rungs : /\ r.kind = "relay" /\ r.spec = ResolveAutoSpec(t)
                            /\ ~(CoolingUntil(r) > 0)
<1> DEFINE a == IF t \in {"low", "medium", "high", "xhigh"} THEN t ELSE "medium"
           rungs == SelectLadder(a).rungs
           usable == {i \in DOMAIN rungs : /\ rungs[i].kind = "relay" /\ rungs[i].enabled
                                           /\ CoolingUntil(rungs[i]) = 0}
           first == CHOOSE i \in usable : \A j \in usable : i <= j
<1>1. ResolveAutoSpec(t) = IF usable = {} THEN None ELSE rungs[first].spec
      BY Zenon DEF ResolveAutoSpec
<1>2. usable # {}
      BY <1>1
<1>3. rungs \in Seq(Rungs)
  <2>1. SelectLadder(a).rungs = IF SelectLadder(a).tier \in Tiers
                                THEN Ladders[SelectLadder(a).tier] ELSE <<>>
        BY DEF SelectLadder
  <2>2. \A u \in Tiers : Ladders[u] \in Seq(Rungs)
        BY LadderAssumption
  <2>3. <<>> \in Seq(Rungs)
        OBVIOUS
  <2> HIDE DEF a
  <2> QED BY <2>1, <2>2, <2>3
<1>4. usable \in SUBSET Nat
      BY <1>3
<1>5. first \in usable
  <2>1. \E i \in usable : \A j \in usable : i <= j
    <3> HIDE DEF usable
    <3> QED BY <1>2, <1>4, LeastNatural
  <2> QED BY <2>1
<1>6. /\ first \in DOMAIN rungs
      /\ rungs[first].kind = "relay"
      /\ CoolingUntil(rungs[first]) = 0
  <2> HIDE DEF first, rungs
  <2> QED BY <1>5, Zenon
<1> HIDE DEF first, rungs, usable
<1>7. rungs[first] \in Rungs
      BY <1>3, <1>6
<1>8. ~(CoolingUntil(rungs[first]) > 0)
      BY <1>6
<1> QED BY <1>1, <1>2, <1>6, <1>7, <1>8

\* The dead bucket's half of the property is what the view makes of the keys.
LEMMA DeadBucketsAreNotOffered == LadderInv => DeadBucketIsNotOffered
<1> SUFFICES ASSUME LadderInv PROVE DeadBucketIsNotOffered
    OBVIOUS
<1> DEFINE dead == {r.quota : r \in {x \in Rungs : exhausted[CooldownKey(x)] > clock}} \ {None}
           Spent(tier, id) == \E r \in RangeOf(Ladders[tier]) : r.id = id /\ r.quota \in dead
<1>1. \A r \in Rungs : ~(CoolingUntil(r) > 0) => r.quota \notin dead
      BY LiveRungsAreNotSpent
<1>2. ASSUME NEW q \in Questions, NEW l \in RangeOf(BuildDispatch(q)), NEW x \in RangeOf(Ladders[q.tier]),
             x.id = l.id
      PROVE  x.quota \notin dead
  <2>1. PICK r \in RangeOf(Ladders[q.tier]) : r.id = l.id /\ ~(CoolingUntil(r) > 0)
        BY OfferedRungsLive
  <2>2. q.tier \in Tiers
        BY DEF Questions
  <2>3. x = r
        BY <1>2, <2>1, <2>2, LadderAssumption DEF RangeOf
  <2>4. r \in Rungs
        BY <2>1, <2>2 DEF Rungs
  <2> QED BY <1>1, <2>1, <2>3, <2>4
<1>3. ASSUME NEW t \in Tiers, ResolveAutoSpec(t) # None
      PROVE  \E r \in Rungs : /\ r.kind = "relay" /\ r.spec = ResolveAutoSpec(t)
                              /\ r.quota \notin dead
      BY <1>1, <1>3, AutoRungsLive
<1> HIDE DEF dead
<1>4. /\ \A q \in Questions : \A l \in RangeOf(BuildDispatch(q)) : ~Spent(q.tier, l.id)
      /\ \A t \in Tiers : ResolveAutoSpec(t) # None =>
            \E r \in Rungs : r.kind = "relay" /\ r.spec = ResolveAutoSpec(t) /\ r.quota \notin dead
      BY <1>2, <1>3, Zenon
<1> QED BY <1>4, Zenon DEF DeadBucketIsNotOffered, dead

\* Pins and demotions are kept by lane and kind.
LEMMA MemoryKeysDiffer ==
    ASSUME NEW t \in ReportedTiers \cup Tiers, NEW l \in LaneIds
    PROVE  /\ <<t, l, "pin">> \in MemoryKeys /\ <<t, l, "demote">> \in MemoryKeys
           /\ <<t, l, "pin">> # <<t, l, "demote">>
  BY DEF MemoryKeys, Kinds

\* A memory with no row of a lane takes one row of it.
LEMMA OneRowIsOne ==
    ASSUME clock \in Nat, NEW mem \in [MemoryKeys -> Int], OnceIn(mem),
           NEW t \in ReportedTiers \cup Tiers, NEW l \in LaneIds, NEW kind \in Kinds, NEW ms \in Int
    PROVE  /\ Cleared(mem, t, l) \in [MemoryKeys -> Int]
           /\ OnceIn(Cleared(mem, t, l))
           /\ Remembered(Cleared(mem, t, l), t, l, kind, ms) \in [MemoryKeys -> Int]
           /\ OnceIn(Remembered(Cleared(mem, t, l), t, l, kind, ms))
<1> DEFINE c == Cleared(mem, t, l)
           until == clock + Min2(MaxAffinityMs, Max2(0, ms))
<1>1. until \in Int
      BY LadderAssumption DEF Min2, Max2
<1>2. \A k : k = <<t, l, "pin">> \/ k = <<t, l, "demote">> => k \in MemoryKeys
      BY MemoryKeysDiffer
<1>3. /\ c \in [MemoryKeys -> Int]
      /\ \A k \in MemoryKeys : c[k] = IF k = <<t, l, "pin">> \/ k = <<t, l, "demote">> THEN 0 ELSE mem[k]
      BY <1>2 DEF Cleared
<1>4. <<t, l, kind>> \in MemoryKeys
      BY DEF MemoryKeys
<1> DEFINE r == Remembered(c, t, l, kind, ms)
<1> HIDE DEF until, c
<1>5. /\ r \in [MemoryKeys -> Int]
      /\ \A k \in MemoryKeys : r[k] = IF k = <<t, l, kind>> THEN until ELSE c[k]
      BY <1>1, <1>3, <1>4 DEF Remembered, until
<1> HIDE DEF r
<1>6. ASSUME NEW u \in ReportedTiers \cup Tiers, NEW m \in LaneIds
      PROVE  /\ ~(c[<<u, m, "pin">>] > clock /\ c[<<u, m, "demote">>] > clock)
             /\ ~(r[<<u, m, "pin">>] > clock /\ r[<<u, m, "demote">>] > clock)
  <2>1. <<u, m, "pin">> \in MemoryKeys /\ <<u, m, "demote">> \in MemoryKeys
        BY MemoryKeysDiffer
  <2>2. CASE u = t /\ m = l
    <3>1. c[<<u, m, "pin">>] = 0 /\ c[<<u, m, "demote">>] = 0
          BY <1>3, <2>1, <2>2
    <3>2. kind = "pin" => r[<<u, m, "demote">>] = 0
          BY <1>5, <2>1, <2>2, <3>1
    <3>3. kind = "demote" => r[<<u, m, "pin">>] = 0
          BY <1>5, <2>1, <2>2, <3>1
    <3> QED BY <3>1, <3>2, <3>3 DEF Kinds
  <2>3. CASE ~(u = t /\ m = l)
    <3>1. c[<<u, m, "pin">>] = mem[<<u, m, "pin">>] /\ c[<<u, m, "demote">>] = mem[<<u, m, "demote">>]
          BY <1>3, <2>1, <2>3
    <3>2. r[<<u, m, "pin">>] = c[<<u, m, "pin">>] /\ r[<<u, m, "demote">>] = c[<<u, m, "demote">>]
          BY <1>5, <2>1, <2>3
    <3> QED BY <3>1, <3>2 DEF OnceIn
  <2> QED BY <2>2, <2>3
<1>7. OnceIn(c) /\ OnceIn(r)
      BY <1>6 DEF OnceIn
<1> QED BY <1>3, <1>5, <1>7 DEF c, r

\* A memory whose rows are another's, or lapse no later, holds no more.
LEMMA LapsedIsOnce ==
    ASSUME NEW mem \in [MemoryKeys -> Int], OnceIn(mem), clock \in Nat,
           NEW later \in [MemoryKeys -> Int],
           \A k \in MemoryKeys : later[k] > clock => mem[k] > clock
    PROVE  OnceIn(later)
  BY MemoryKeysDiffer DEF OnceIn

\* The tier a rung was found in.
LEMMA FoundTierIsATier ==
    ASSUME NEW lane, NEW tier, NEW rung \in LookupLadderRung(lane, tier)
    PROVE  /\ SelectLadder(tier).tier \in Tiers /\ rung \in Rungs /\ rung.id = lane
           /\ lane \in LaneIds
<1>1. SelectLadder(tier).rungs = IF SelectLadder(tier).tier \in Tiers
                                 THEN Ladders[SelectLadder(tier).tier] ELSE <<>>
      BY DEF SelectLadder
<1>2. rung \in RangeOf(SelectLadder(tier).rungs) /\ rung.id = lane
      BY DEF LookupLadderRung
<1>3. SelectLadder(tier).tier \in Tiers
      BY <1>1, <1>2 DEF RangeOf
<1>4. rung \in Rungs
      BY <1>1, <1>2, <1>3 DEF Rungs
<1> QED BY <1>2, <1>3, <1>4 DEF LaneIds

\* What a caller or an outcome may state as a duration.
LEMMA DurationsAreInts ==
    /\ \A ms \in Retries : ms \in Int
    /\ DefaultExhaustedMs \in Int /\ QuotaExhaustedMs \in Int /\ PinMs \in Int
  BY LadderAssumption

\* A clamped deadline is a time.
LEMMA ClampIsInt == ASSUME NEW until \in Int, clock \in Nat PROVE ClampDeadline(until) \in Int
  BY LadderAssumption DEF ClampDeadline, Min2, Max2

\* A report of a spent bucket, or its end, changes its deadline and nothing else.
LEMMA ReportsKeepLadder ==
    ASSUME LadderInv,
           \/ \E lane \in LaneIds, tier \in Tiers, ms \in Int : ReportExhausted(lane, tier, ms)
           \/ \E lane \in LaneIds \cup {None}, tier \in Tiers : ClearExhausted(lane, tier)
    PROVE  LadderInv'
<1>1. UNCHANGED <<clock, exhaustedFile, affinity, affinityFile>>
      BY DEF ReportExhausted, ClearExhausted, affinityVars
<1>2. exhausted' \in [Keys -> Int]
  <2>1. ASSUME NEW lane, NEW tier, NEW ms \in Int, ReportExhausted(lane, tier, ms)
        PROVE  exhausted' \in [Keys -> Int]
    <3>1. PICK rung : MarkExhaustedKey(CooldownKey(rung), clock + NormalizeTtl(ms))
          BY <2>1 DEF ReportExhausted
    <3>2. clock + NormalizeTtl(ms) \in Int
          BY LadderAssumption DEF NormalizeTtl, Min2, Max2, LadderInv
    <3>3. ClampDeadline(clock + NormalizeTtl(ms)) \in Int
          BY <3>2, ClampIsInt DEF LadderInv
    <3> QED BY <3>1, <3>3 DEF MarkExhaustedKey, LadderInv
  <2>2. ASSUME NEW lane, NEW tier, ClearExhausted(lane, tier)
        PROVE  exhausted' \in [Keys -> Int]
        BY <2>2 DEF ClearExhausted, ClearExhaustedKey, LadderInv
  <2> QED BY <2>1, <2>2
<1>3. OnceIn(affinity)' /\ OnceIn(affinityFile)'
      BY <1>1 DEF OnceIn, LadderInv
<1> QED BY <1>1, <1>2, <1>3 DEF LadderInv

\* A run's outcome, a pin and an unpin leave one row of the lane.
LEMMA TelemetryKeepsLadder ==
    ASSUME LadderInv,
           NEW lane, NEW tier \in ReportedTiers, NEW mode, NEW status, NEW ms,
           Telemetry(lane, tier, mode, status, ms)
    PROVE  LadderInv'
<1>1. UNCHANGED <<clock, exhausted, exhaustedFile, affinityFile>>
      BY DEF Telemetry, exhaustionVars
<1>2. lane \in LaneIds
      BY DEF Telemetry, FindLadderRung, LaneIds
<1>3. clock \in Nat /\ affinity \in [MemoryKeys -> Int] /\ OnceIn(affinity)
      BY DEF LadderInv
<1>4. PinMs \in Int /\ DemoteMs \in Int /\ "pin" \in Kinds /\ "demote" \in Kinds
      BY LadderAssumption DEF Kinds
<1>5. affinity' \in [MemoryKeys -> Int] /\ OnceIn(affinity')
  <2>1. CASE ~WalkEnabled
        BY <2>1, <1>3, Zenon DEF Telemetry
  <2>2. CASE WalkEnabled
    <3> DEFINE c == Cleared(affinity, tier, lane)
               newest == IF status = "completed" THEN Remembered(c, tier, lane, "pin", PinMs)
                         ELSE Remembered(c, tier, lane, "demote", DemoteMs)
               d == Remembered(Cleared(newest, tier, lane), tier, lane, "demote", DemoteMs)
    <3>1. newest \in [MemoryKeys -> Int] /\ OnceIn(newest)
          BY <1>2, <1>3, <1>4, OneRowIsOne
    <3>2. d \in [MemoryKeys -> Int] /\ OnceIn(d)
      <4> HIDE DEF newest
      <4> QED BY <1>2, <1>3, <1>4, <3>1, OneRowIsOne
    <3>3. affinity' = AffinityAfter(tier, lane, status, laneStats')
          BY <2>2, Zenon DEF Telemetry
    <3>4. affinity' \in {newest, d}
          BY <3>3, Zenon DEF AffinityAfter, RecordLaneOutlier
    <3> HIDE DEF newest, d
    <3> QED BY <3>1, <3>2, <3>4
  <2> QED BY <2>1, <2>2
<1>6. OnceIn(affinity)' /\ OnceIn(affinityFile)'
      BY <1>1, <1>5 DEF OnceIn, LadderInv
<1> QED BY <1>1, <1>5, <1>6 DEF LadderInv

\* An operator's pin is the lane's one row; an unpin takes a row away.
LEMMA PinsKeepLadder ==
    ASSUME LadderInv, NEW lane, NEW tier,
           \/ \E ms \in Int : OperatorPin(lane, tier, ms)
           \/ OperatorUnpin(lane, tier)
    PROVE  LadderInv'
<1> DEFINE t == SelectLadder(tier).tier
<1>1. UNCHANGED <<clock, exhausted, exhaustedFile, affinityFile>>
      BY DEF OperatorPin, OperatorUnpin, exhaustionVars
<1>2. t \in Tiers /\ lane \in LaneIds
      BY FoundTierIsATier DEF OperatorPin, OperatorUnpin
<1>3. clock \in Nat /\ affinity \in [MemoryKeys -> Int] /\ OnceIn(affinity)
      BY DEF LadderInv
<1>4. affinity' \in [MemoryKeys -> Int] /\ OnceIn(affinity')
  <2>1. ASSUME NEW ms \in Int, OperatorPin(lane, tier, ms)
        PROVE  affinity' \in [MemoryKeys -> Int] /\ OnceIn(affinity')
    <3>1. affinity' = Remembered(Cleared(affinity, t, lane), t, lane, "pin", ms)
          BY <2>1 DEF OperatorPin
    <3> HIDE DEF t
    <3>2. "pin" \in Kinds
          BY DEF Kinds
    <3> QED BY <1>2, <1>3, <3>1, <3>2, OneRowIsOne
  <2>2. ASSUME OperatorUnpin(lane, tier)
        PROVE  affinity' \in [MemoryKeys -> Int] /\ OnceIn(affinity')
    <3>1. affinity' = [affinity EXCEPT ![<<t, lane, "pin">>] = 0]
          BY <2>2 DEF OperatorUnpin
    <3> HIDE DEF t
    <3>2. affinity' \in [MemoryKeys -> Int]
      <4>1. <<t, lane, "pin">> \in MemoryKeys
            BY <1>2, MemoryKeysDiffer
      <4> QED BY <1>3, <3>1, <4>1
    <3>3. \A k \in MemoryKeys : affinity'[k] > clock => affinity[k] > clock
          BY <1>3, <3>1
    <3> QED BY <1>3, <3>2, <3>3, LapsedIsOnce
  <2> QED BY <2>1, <2>2
<1>5. OnceIn(affinity)' /\ OnceIn(affinityFile)'
      BY <1>1, <1>4 DEF OnceIn, LadderInv
<1> QED BY <1>1, <1>4, <1>5 DEF LadderInv

\* What is saved is what has not lapsed.
LEMMA SavesKeepLadder ==
    ASSUME LadderInv, SaveExhaustion \/ SaveAffinity \/ SaveStats
    PROVE  LadderInv'
<1>1. clock' = clock /\ clock \in Nat /\ exhausted' = exhausted /\ exhausted \in [Keys -> Int]
      BY DEF SaveExhaustion, SaveAffinity, SaveStats, exhaustionVars, LadderInv
<1>2. exhaustedFile' \in [Keys -> Int]
      BY DEF SaveExhaustion, SaveAffinity, SaveStats, exhaustionVars, LadderInv, Live
<1>3. Live(affinity) \in [MemoryKeys -> Int] /\ OnceIn(Live(affinity))
  <2>1. /\ Live(affinity) \in [MemoryKeys -> Int]
        /\ \A k \in MemoryKeys : Live(affinity)[k] > clock => affinity[k] > clock
        BY DEF Live, LadderInv
  <2> QED BY <1>1, <2>1, LapsedIsOnce DEF LadderInv
<1>4. affinity' \in {affinity, Live(affinity)} /\ affinityFile' \in {affinityFile, Live(affinity)}
      BY DEF SaveExhaustion, SaveAffinity, SaveStats, affinityVars
<1>5. /\ affinity' \in [MemoryKeys -> Int] /\ OnceIn(affinity')
      /\ affinityFile' \in [MemoryKeys -> Int] /\ OnceIn(affinityFile')
      BY <1>3, <1>4 DEF LadderInv
<1>6. OnceIn(affinity)' /\ OnceIn(affinityFile)'
      BY <1>1, <1>5 DEF OnceIn
<1> QED BY <1>1, <1>2, <1>5, <1>6 DEF LadderInv

\* A restart takes back what the file has, and no row for longer.
LEMMA RestartKeepsLadder == ASSUME LadderInv, LadderRestart PROVE LadderInv'
<1>1. PICK readable \in BOOLEAN :
         /\ exhausted' = RestoredExhaustion(LoadExhaustedRows(readable))
         /\ affinity' = RestoredAffinity(LoadLaneAffinityRows(readable))
      BY DEF LadderRestart
<1>2. UNCHANGED <<clock, exhaustedFile, affinityFile>> /\ clock \in Nat
      BY DEF LadderRestart, LadderInv
<1>3. exhausted' \in [Keys -> Int]
  <2>1. LoadExhaustedRows(readable) \in [Keys -> Int]
        BY DEF LoadExhaustedRows, LadderInv
  <2> DEFINE file == LoadExhaustedRows(readable)
  <2> HIDE DEF file
  <2>2. \A k \in Keys : ClampDeadline(file[k]) \in Int
        BY <1>2, <2>1, ClampIsInt DEF file
  <2>3. RestoredExhaustion(file) \in [Keys -> Int]
        BY <2>2 DEF RestoredExhaustion
  <2> QED BY <1>1, <2>3 DEF file
<1>4. affinity' \in [MemoryKeys -> Int] /\ OnceIn(affinity')
  <2> DEFINE file == LoadLaneAffinityRows(readable)
  <2>1. file \in [MemoryKeys -> Int] /\ \A k \in MemoryKeys : file[k] > clock => affinityFile[k] > clock
        BY <1>2 DEF LoadLaneAffinityRows, LadderInv
  <2> HIDE DEF file
  <2>2. /\ RestoredAffinity(file) \in [MemoryKeys -> Int]
        /\ \A k \in MemoryKeys : RestoredAffinity(file)[k] > clock => file[k] > clock
        BY <1>2, <2>1, LadderAssumption DEF RestoredAffinity, Min2
  <2>3. OnceIn(RestoredAffinity(file))
        BY <1>2, <2>1, <2>2, LapsedIsOnce DEF LadderInv
  <2> QED BY <1>1, <2>2, <2>3 DEF file
<1>5. OnceIn(affinity)' /\ OnceIn(affinityFile)'
      BY <1>2, <1>4 DEF OnceIn, LadderInv
<1> QED BY <1>2, <1>3, <1>4, <1>5 DEF LadderInv

\* Time only lets rows lapse.
LEMMA TimeKeepsLadder ==
    ASSUME LadderInv, clock' \in Nat, clock <= clock',
           UNCHANGED <<exhausted, exhaustedFile, affinity, affinityFile>>
    PROVE  LadderInv'
<1>1. ASSUME NEW mem \in [MemoryKeys -> Int], OnceIn(mem), NEW t \in ReportedTiers \cup Tiers,
             NEW l \in LaneIds
      PROVE  ~(mem[<<t, l, "pin">>] > clock' /\ mem[<<t, l, "demote">>] > clock')
  <2>1. mem[<<t, l, "pin">>] \in Int /\ mem[<<t, l, "demote">>] \in Int
        BY MemoryKeysDiffer
  <2>2. ~(mem[<<t, l, "pin">>] > clock /\ mem[<<t, l, "demote">>] > clock)
        BY <1>1 DEF OnceIn
  <2> QED BY <2>1, <2>2 DEF LadderInv
<1>2. OnceIn(affinity)' /\ OnceIn(affinityFile)'
      BY <1>1 DEF OnceIn, LadderInv
<1> QED BY <1>2 DEF LadderInv

\* At the start nothing is known of any lane.
LEMMA LadderStartsSound == LadderInit => LadderInv
<1> SUFFICES ASSUME LadderInit PROVE LadderInv
    OBVIOUS
<1>1. clock = 0
      BY DEF LadderInit, ClockInit
<1>2. exhausted = [k \in Keys |-> 0] /\ exhaustedFile = [k \in Keys |-> 0]
      BY DEF LadderInit
<1>3. affinity = [k \in MemoryKeys |-> 0] /\ affinityFile = [k \in MemoryKeys |-> 0]
      BY DEF LadderInit
<1>4. OnceIn(affinity) /\ OnceIn(affinityFile)
      BY <1>1, <1>3, MemoryKeysDiffer DEF OnceIn
<1> QED BY <1>1, <1>2, <1>3, <1>4 DEF LadderInv

\* Each step of the ladder keeps what is known of its memories.
LEMMA LadderStepsKeepInv == LadderInv /\ [LadderNext]_ladderVars => LadderInv'
<1> SUFFICES ASSUME LadderInv, [LadderNext]_ladderVars PROVE LadderInv'
    OBVIOUS
<1>1. \A ms : ms \in StatedTtls \/ ms \in Retries \cup {PinMs} => ms \in Int
      BY DurationsAreInts DEF StatedTtls
<1>2. CASE \/ \E lane \in LaneIds, tier \in Tiers, ms \in StatedTtls : ReportExhausted(lane, tier, ms)
           \/ \E lane \in LaneIds \cup {None}, tier \in Tiers : ClearExhausted(lane, tier)
      BY <1>1, <1>2, ReportsKeepLadder
<1>3. CASE SaveExhaustion \/ SaveAffinity \/ SaveStats
      BY <1>3, SavesKeepLadder
<1>4. CASE LadderRestart
      BY <1>4, RestartKeepsLadder
<1>5. CASE LadderTick
  <2>1. clock' = clock + 1 /\ UNCHANGED <<exhausted, exhaustedFile, affinity, affinityFile>>
        BY <1>5 DEF LadderTick, ClockTick, exhaustionVars, affinityVars
  <2>2. clock \in Nat
        BY DEF LadderInv
  <2> QED BY <2>1, <2>2, TimeKeepsLadder
<1>6. CASE \E lane \in ReportedLanes, tier \in ReportedTiers, mode \in ReportedModes, status \in Statuses :
             \E ms \in IF status = "completed" THEN Durations ELSE {0} : Telemetry(lane, tier, mode, status, ms)
      BY <1>6, TelemetryKeepsLadder
<1>7. CASE \/ \E lane \in ReportedLanes, tier \in ReportedTiers, ms \in Retries \cup {PinMs} :
                 OperatorPin(lane, tier, ms)
           \/ \E lane \in ReportedLanes, tier \in ReportedTiers : OperatorUnpin(lane, tier)
      BY <1>1, <1>7, PinsKeepLadder
<1>8. CASE UNCHANGED ladderVars
  <2>1. UNCHANGED <<clock, exhausted, exhaustedFile, affinity, affinityFile>> /\ clock \in Nat
        BY <1>8 DEF ladderVars, ladderState, LadderInv
  <2> QED BY <2>1, TimeKeepsLadder
<1> QED BY <1>2, <1>3, <1>4, <1>5, <1>6, <1>7, <1>8 DEF LadderNext, ExhaustionNext, MemoryNext

\* One memory of a lane is its part of the invariant, read at the clock.
LEMMA LadderInvIsHonest == LadderInv => LaneMemoryIsHonest
<1>1. LadderInv => OneMemoryPerLane
      BY DEF LadderInv, OnceIn, OneMemoryPerLane, Recall
<1> QED BY <1>1, DeadBucketsAreNotOffered DEF LaneMemoryIsHonest

\* For any ladders, reports, pins, runs, saves and restarts: a bucket known to
\* be spent is offered by no view, and a lane is never pinned and demoted at
\* once.
THEOREM LadderStaysHonest == LadderSpec => []LaneMemoryIsHonest
<1>1. LadderInit => LadderInv
      BY LadderStartsSound
<1>2. LadderInv /\ [LadderNext]_ladderVars => LadderInv'
      BY LadderStepsKeepInv
<1> QED BY <1>1, <1>2, LadderInvIsHonest, PTL DEF LadderSpec

\* The background probes spawn, answer, clear and renew what callers report:
\* whatever they find, and however late, the ladder stays honest.
ProbesAreTimed == LadderInv /\ probing \in [Keys -> Int]

LEMMA CadenceKeepsLadder ==
    ProbesAreTimed /\ [CadenceNext]_<<ladderVars, cadenceVars>> => ProbesAreTimed'
<1> SUFFICES ASSUME ProbesAreTimed, [CadenceNext]_<<ladderVars, cadenceVars>> PROVE ProbesAreTimed'
    OBVIOUS
<1>1. clock \in Nat /\ LadderInv /\ probing \in [Keys -> Int]
      BY DEF ProbesAreTimed, LadderInv
<1>2. CASE Poke
  <2>1. UNCHANGED <<clock, exhausted, exhaustedFile, affinity, affinityFile>>
        BY <1>2 DEF Poke, ladderVars, ladderState
  <2>2. probing' \in [Keys -> Int]
        BY <1>1, <1>2 DEF Poke, Spawned
  <2> QED BY <1>1, <2>1, <2>2, TimeKeepsLadder DEF ProbesAreTimed
<1>3. CASE CatalogSettles
  <2>1. UNCHANGED <<clock, exhausted, exhaustedFile, affinity, affinityFile>>
        BY <1>3 DEF CatalogSettles, exhaustionVars, affinityVars
  <2>2. probing' \in [Keys -> Int]
        BY <1>1, <1>3 DEF CatalogSettles
  <2> QED BY <1>1, <2>1, <2>2, TimeKeepsLadder DEF ProbesAreTimed
<1>4. ASSUME NEW key \in Keys, NEW verdict \in Verdicts, ProbeSettles(key, verdict)
      PROVE  ProbesAreTimed'
  <2>1. UNCHANGED <<clock, exhaustedFile, affinity, affinityFile>>
        BY <1>4 DEF ProbeSettles, affinityVars
  <2>2. probing' \in [Keys -> Int]
        BY <1>1, <1>4 DEF ProbeSettles
  <2>3. verdict[2] \in Int
    <3>1. CASE verdict \in {<<"alive", 0>>, <<"inconclusive", 0>>}
          BY <3>1
    <3>2. CASE \E ms \in {DefaultExhaustedMs, QuotaExhaustedMs} \cup Retries :
                  verdict = <<"exhausted", ms>>
          BY <3>2, DurationsAreInts
    <3> QED BY <3>1, <3>2 DEF Verdicts
  <2>4. Min2(Max2(probing[key], probing[key] + verdict[2]), probing[key] + MaxExhaustedMs) \in Int
        BY <1>1, <2>3, LadderAssumption DEF Min2, Max2
  <2>5. exhausted' \in [Keys -> Int]
    <3> DEFINE until == Min2(Max2(probing[key], probing[key] + verdict[2]), probing[key] + MaxExhaustedMs)
    <3>1. \/ exhausted' = [exhausted EXCEPT ![key] = 0]
          \/ exhausted' = [exhausted EXCEPT ![key] = until]
          \/ exhausted' = exhausted
          BY <1>4 DEF ProbeSettles, ClearExhaustedKey
    <3> HIDE DEF until
    <3>2. until \in Int
          BY <2>4 DEF until
    <3> QED BY <1>1, <3>1, <3>2 DEF LadderInv
  <2>6. OnceIn(affinity)' /\ OnceIn(affinityFile)'
        BY <1>1, <2>1 DEF OnceIn, LadderInv
  <2> QED BY <1>1, <2>1, <2>2, <2>5, <2>6 DEF ProbesAreTimed, LadderInv
<1>5. CASE CallerReports
  <2>1. probing' = probing
        BY <1>5 DEF CallerReports
  <2>2. \/ \E lane \in LaneIds, tier \in Tiers, ms \in Int : ReportExhausted(lane, tier, ms)
        \/ \E lane \in LaneIds \cup {None}, tier \in Tiers : ClearExhausted(lane, tier)
        BY <1>5, DurationsAreInts DEF CallerReports
  <2> QED BY <1>1, <2>1, <2>2, ReportsKeepLadder DEF ProbesAreTimed
<1>6. CASE CadenceTick
  <2>1. /\ clock' = clock + 1 /\ probing' = probing
        /\ UNCHANGED <<exhausted, exhaustedFile, affinity, affinityFile>>
        BY <1>6 DEF CadenceTick, ClockTick, exhaustionVars, affinityVars, cadenceVars
  <2> QED BY <1>1, <2>1, TimeKeepsLadder DEF ProbesAreTimed
<1>7. CASE UNCHANGED <<ladderVars, cadenceVars>>
  <2>1. UNCHANGED <<clock, exhausted, exhaustedFile, affinity, affinityFile, probing>>
        BY <1>7 DEF ladderVars, ladderState, cadenceVars
  <2> QED BY <1>1, <2>1, TimeKeepsLadder DEF ProbesAreTimed
<1> QED BY <1>2, <1>3, <1>4, <1>5, <1>6, <1>7 DEF CadenceNext

\* The same under the background probes.
THEOREM ProbesKeepTheLadderHonest == CadenceSpec => []LaneMemoryIsHonest
<1>1. LadderInit /\ CadenceInit => ProbesAreTimed
      BY LadderStartsSound DEF CadenceInit, ProbesAreTimed
<1>2. ProbesAreTimed /\ [CadenceNext]_<<ladderVars, cadenceVars>> => ProbesAreTimed'
      BY CadenceKeepsLadder
<1>3. ProbesAreTimed => LaneMemoryIsHonest
      BY LadderInvIsHonest DEF ProbesAreTimed
<1> QED BY <1>1, <1>2, <1>3, PTL DEF CadenceSpec

-----------------------------------------------------------------------------
(***************************************************************************)
(* The cadence of the quota probes.                                        *)
(***************************************************************************)

\* A stamp is not older than the last probe of its bucket, and a bucket that
\* waits for the rosters was due when it was put down, and so it still is.
CadenceInv ==
    /\ clock \in Nat
    /\ stamp \in [Keys -> Int]
    /\ lastProbe \in [Keys -> Int]
    /\ \A k \in Keys : /\ lastProbe[k] <= clock
                       /\ stamp[k] # -1 => lastProbe[k] <= stamp[k]
    /\ latch = "catalog" => \A k \in due \cap Keys : clock - lastProbe[k] >= QuotaInterval

\* What every step of the cadence does to the stamps and the probes.
ProbesAreDue ==
    \A k \in Keys : \/ lastProbe'[k] = lastProbe[k]
                    \/ lastProbe'[k] = clock /\ clock - lastProbe[k] >= QuotaInterval

\* A bucket that quotaDue names has waited since its last probe.
LEMMA DueBucketsHaveWaited ==
    ASSUME CadenceInv, NEW k \in Keys, k \in QuotaDue
    PROVE  clock - lastProbe[k] >= QuotaInterval
  BY CadenceAssumption DEF CadenceInv, QuotaDue

\* The stamps of a run: none, the old one, or the time of the run.
LEMMA StampsAreNotOld ==
    ASSUME CadenceInv
    PROVE  /\ Stamps \in [Keys -> Int]
           /\ \A k \in Keys : Stamps[k] # -1 => lastProbe[k] <= Stamps[k]
  BY DEF CadenceInv, Stamps

\* A run that probes some due buckets, whatever rosters it asked first.
LEMMA RunKeepsSpacing ==
    ASSUME CadenceInv, NEW targets,
           \A k \in targets \cap Keys : clock - lastProbe[k] >= QuotaInterval,
           NEW stamps \in [Keys -> Int],
           \A k \in Keys : stamps[k] # -1 => lastProbe[k] <= stamps[k],
           stamp' = [k \in Keys |-> IF k \in targets THEN clock ELSE stamps[k]],
           lastProbe' = [k \in Keys |-> IF k \in targets THEN clock ELSE lastProbe[k]],
           clock' = clock, latch' # "catalog"
    PROVE  CadenceInv' /\ ProbesAreDue
  BY DEF CadenceInv, ProbesAreDue

\* A poke: the rosters first when they are due, and the quotas at once when not.
LEMMA PokeKeepsSpacing ==
    ASSUME CadenceInv, Poke
    PROVE  CadenceInv' /\ ProbesAreDue
  <1>1. clock' = clock
        BY DEF Poke, ladderVars
  <1>2. CASE CatalogDue
    <2>1. due' = QuotaDue /\ stamp' = Stamps /\ lastProbe' = lastProbe
          BY <1>2 DEF Poke
    <2> QED BY <1>1, <2>1, StampsAreNotOld, DueBucketsHaveWaited DEF CadenceInv, ProbesAreDue
  <1>3. CASE ~CatalogDue
    <2>1. Spawned(QuotaDue)
          BY <1>3 DEF Poke
    <2> DEFINE targets == QuotaDue \cap LaneQuotaTargets
    <2>2. \A k \in targets \cap Keys : clock - lastProbe[k] >= QuotaInterval
          BY DueBucketsHaveWaited
    <2>3. /\ stamp' = [k \in Keys |-> IF k \in targets THEN clock ELSE Stamps[k]]
          /\ lastProbe' = [k \in Keys |-> IF k \in targets THEN clock ELSE lastProbe[k]]
          /\ latch' # "catalog"
          BY <2>1 DEF Spawned
    <2> HIDE DEF targets
    <2> QED BY <1>1, <2>2, <2>3, StampsAreNotOld, RunKeepsSpacing
  <1> QED BY <1>2, <1>3

\* The rosters have settled: the buckets put down at the poke are probed.
LEMMA CatalogKeepsSpacing ==
    ASSUME CadenceInv, CatalogSettles
    PROVE  CadenceInv' /\ ProbesAreDue
  <1> DEFINE targets == due \cap LaneQuotaTargets
  <1>1. \A k \in targets \cap Keys : clock - lastProbe[k] >= QuotaInterval
        BY DEF CatalogSettles, CadenceInv
  <1>2. /\ stamp' = [k \in Keys |-> IF k \in targets THEN clock ELSE stamp[k]]
        /\ lastProbe' = [k \in Keys |-> IF k \in targets THEN clock ELSE lastProbe[k]]
        /\ latch' # "catalog" /\ clock' = clock
        BY DEF CatalogSettles
  <1> HIDE DEF targets
  <1>3. /\ stamp \in [Keys -> Int]
        /\ \A k \in Keys : stamp[k] # -1 => lastProbe[k] <= stamp[k]
        BY DEF CadenceInv
  <1> QED BY <1>1, <1>2, <1>3, RunKeepsSpacing

\* Every step of the cadence.
LEMMA CadenceStays ==
    ASSUME CadenceInv, [CadenceNext]_<<ladderVars, cadenceVars>>
    PROVE  CadenceInv' /\ ProbesAreDue
  <1>1. CASE UNCHANGED <<ladderVars, cadenceVars>>
        BY <1>1 DEF CadenceInv, ProbesAreDue, ladderVars, cadenceVars
  <1>2. CASE Poke
        BY <1>2, PokeKeepsSpacing
  <1>3. CASE CatalogSettles
        BY <1>3, CatalogKeepsSpacing
  <1>4. ASSUME NEW key \in Keys, NEW verdict \in Verdicts, ProbeSettles(key, verdict)
        PROVE  CadenceInv' /\ ProbesAreDue
    <2>1. /\ stamp' = stamp \/ stamp' = [stamp EXCEPT ![key] = -1]
          /\ lastProbe' = lastProbe /\ clock' = clock /\ due' = due
          /\ latch' = "idle" \/ latch' = latch
          BY <1>4 DEF ProbeSettles
    <2> QED BY <2>1 DEF CadenceInv, ProbesAreDue
  <1>5. CASE CallerReports
    <2>1. UNCHANGED <<latch, due, stamp, lastProbe>> /\ clock' = clock
          BY <1>5 DEF CallerReports, ReportExhausted, ClearExhausted
    <2> QED BY <2>1 DEF CadenceInv, ProbesAreDue
  <1>6. CASE CadenceTick
    <2>1. UNCHANGED <<latch, due, stamp, lastProbe>> /\ clock' = clock + 1
          BY <1>6 DEF CadenceTick, ClockTick, cadenceVars
    <2> QED BY <2>1, CadenceAssumption DEF CadenceInv, ProbesAreDue
  <1> QED BY <1>1, <1>2, <1>3, <1>4, <1>5, <1>6 DEF CadenceNext

\* However deaths are reported, cleared, disproved and reported again around the
\* runs of the cadence, two probes of one bucket start at least an interval apart,
\* for any ladders, intervals and rosters.
THEOREM ProbesAreSpaced == CadenceSpec => QuotaProbesAreSpaced
  <1>1. LadderInit /\ CadenceInit => CadenceInv
        BY DEF LadderInit, ClockInit, CadenceInit, CadenceInv
  <1>2. CadenceInv /\ [CadenceNext]_<<ladderVars, cadenceVars>> => CadenceInv'
        BY CadenceStays
  <1>3. CadenceInv /\ [CadenceNext]_<<ladderVars, cadenceVars>> =>
           [\A k \in Keys : (lastProbe'[k] # lastProbe[k] /\ lastProbe[k] >= 0) =>
               lastProbe'[k] - lastProbe[k] >= QuotaInterval]_<<ladderVars, cadenceVars>>
        BY CadenceStays DEF ProbesAreDue, CadenceInv
  <1> QED BY <1>1, <1>2, <1>3, PTL DEF CadenceSpec, QuotaProbesAreSpaced

-----------------------------------------------------------------------------
(***************************************************************************)
(* The activity of the lanes.                                              *)
(***************************************************************************)

\* A record, the records of a map, and a map with one record for each tag.
ActivityRecord == [tag : ActivityTags, inFlight : Nat]
In(seq) == {seq[i] : i \in DOMAIN seq}
OneEach(seq) == \A i, j \in DOMAIN seq : seq[i].tag = seq[j].tag => i = j

\* A lane that never lost its record shows its open requests.
RecordsTellTraffic ==
    \A t \in ActivityTags \ forgotten :
       /\ \A r \in In(records) : r.tag = t => r.inFlight = Cardinality(Busy(t))
       /\ (\A r \in In(records) : r.tag # t) => Busy(t) = {}

ActivityInv ==
    /\ records \in Seq(ActivityRecord) /\ OneEach(records)
    /\ IsFiniteSet(DOMAIN open) /\ open = [r \in DOMAIN open |-> open[r]]
    /\ \A r \in DOMAIN open : open[r] \in ActivityTags
    /\ RecordsTellTraffic

\* Taking a record out of the map takes that one.
LEMMA WithoutTakesOne ==
    ASSUME NEW seq \in Seq(ActivityRecord), OneEach(seq), NEW tag,
           NEW at \in DOMAIN seq, seq[at].tag = tag
    PROVE  /\ Without(seq, tag) \in Seq(ActivityRecord) /\ OneEach(Without(seq, tag))
           /\ In(Without(seq, tag)) = In(seq) \ {seq[at]}
           /\ \A r \in In(Without(seq, tag)) : r.tag # tag
  <1>1. (CHOOSE i \in DOMAIN seq : seq[i].tag = tag) = at
        BY DEF OneEach
  <1>2. PICK w : w = [i \in 1 .. Len(seq) - 1 |-> seq[IF i < at THEN i ELSE i + 1]]
        OBVIOUS
  <1>3. Without(seq, tag) = w
        BY <1>1, <1>2 DEF Without
  <1>4. Len(seq) \in Nat /\ DOMAIN seq = 1 .. Len(seq) /\ at \in 1 .. Len(seq)
        OBVIOUS
  <1>5. \A i \in 1 .. Len(seq) - 1 :
           \E j \in DOMAIN seq : j = (IF i < at THEN i ELSE i + 1) /\ j # at /\ w[i] = seq[j]
        BY <1>2, <1>4
  <1>6. w \in Seq(ActivityRecord) /\ DOMAIN w = 1 .. Len(seq) - 1
    <2>1. w \in [1 .. Len(seq) - 1 -> ActivityRecord]
          BY <1>2, <1>5
    <2>2. Len(seq) - 1 \in Nat
          BY <1>4
    <2> QED BY <2>1, <2>2
  <1>7. OneEach(w)
    <2> SUFFICES ASSUME NEW i \in DOMAIN w, NEW j \in DOMAIN w, w[i].tag = w[j].tag
                 PROVE  i = j
        BY DEF OneEach
    <2>1. PICK k \in DOMAIN seq : k = (IF i < at THEN i ELSE i + 1) /\ w[i] = seq[k]
          BY <1>5, <1>6
    <2>2. PICK l \in DOMAIN seq : l = (IF j < at THEN j ELSE j + 1) /\ w[j] = seq[l]
          BY <1>5, <1>6
    <2>3. k = l
          BY <2>1, <2>2 DEF OneEach
    <2> QED BY <1>4, <1>6, <2>1, <2>2, <2>3
  <1>8. \A j \in DOMAIN seq : j # at => \E i \in DOMAIN w : w[i] = seq[j]
    <2> SUFFICES ASSUME NEW j \in DOMAIN seq, j # at PROVE \E i \in DOMAIN w : w[i] = seq[j]
        OBVIOUS
    <2>1. CASE j < at
          BY <1>2, <1>4, <1>6, <2>1
    <2>2. CASE j > at
      <3>1. j - 1 \in 1 .. Len(seq) - 1 /\ ~(j - 1 < at) /\ j - 1 + 1 = j
            BY <1>4, <2>2
      <3> QED BY <1>2, <1>6, <3>1
    <2> QED BY <1>4, <2>1, <2>2
  <1>9. In(w) = In(seq) \ {seq[at]}
    <2>1. ASSUME NEW r \in In(w) PROVE r \in In(seq) \ {seq[at]}
      <3>1. PICK i \in DOMAIN w : r = w[i]
            BY DEF In
      <3>2. PICK j \in DOMAIN seq : j # at /\ r = seq[j]
            BY <1>5, <1>6, <3>1
      <3> QED BY <3>2 DEF In, OneEach
    <2>2. ASSUME NEW r \in In(seq) \ {seq[at]} PROVE r \in In(w)
          BY <1>8 DEF In
    <2> QED BY <2>1, <2>2
  <1>10. \A r \in In(w) : r.tag # tag
    <2>1. \A i \in DOMAIN w : \E j \in DOMAIN seq : j # at /\ w[i] = seq[j]
          BY <1>5, <1>6
    <2> QED BY <2>1 DEF In, OneEach
  <1> QED BY <1>3, <1>6, <1>7, <1>9, <1>10

\* A record put at the end of a map that has none of its tag.
LEMMA AppendAddsOne ==
    ASSUME NEW seq \in Seq(ActivityRecord), OneEach(seq), NEW rec \in ActivityRecord,
           \A r \in In(seq) : r.tag # rec.tag
    PROVE  /\ Append(seq, rec) \in Seq(ActivityRecord) /\ OneEach(Append(seq, rec))
           /\ In(Append(seq, rec)) = In(seq) \cup {rec}
  <1>1. PICK new : new = Append(seq, rec)
        OBVIOUS
  <1>2. /\ new \in Seq(ActivityRecord) /\ Len(new) = Len(seq) + 1 /\ Len(seq) \in Nat
        /\ new[Len(seq) + 1] = rec /\ \A i \in 1 .. Len(seq) : new[i] = seq[i]
        BY <1>1
  <1>3. DOMAIN new = 1 .. Len(seq) + 1 /\ DOMAIN seq = 1 .. Len(seq)
        BY <1>2
  <1>4. OneEach(new)
        BY <1>2, <1>3 DEF OneEach, In
  <1>5. In(new) = In(seq) \cup {rec}
        BY <1>2, <1>3 DEF In
  <1> QED BY <1>1, <1>2, <1>4, <1>5

\* The record of a tag that has one.
LEMMA RecordIsItsOwn ==
    ASSUME ActivityInv, NEW tag, TagIn(tag)
    PROVE  \E at \in DOMAIN records : records[at].tag = tag /\ RecordOf(tag) = records[at]
  BY DEF TagIn, RecordOf

\* The record that a full map gives up is idle, or every record is busy.
LEMMA VictimIsIdle ==
    ASSUME ActivityInv, Len(records) >= MaxActivityTags
    PROVE  \E at \in DOMAIN records :
              /\ Evicted(records) = records[at].tag
              /\ records[at].inFlight = 0 \/ \A i \in DOMAIN records : records[i].inFlight > 0
  <1> DEFINE idle == {i \in DOMAIN records : records[i].inFlight = 0}
  <1>1. /\ DOMAIN records = 1 .. Len(records) /\ Len(records) \in Nat /\ 1 \in DOMAIN records
        /\ \A i \in DOMAIN records : records[i].inFlight \in Nat
    <2>1. records \in Seq(ActivityRecord)
          BY DEF ActivityInv
    <2>2. DOMAIN records = 1 .. Len(records) /\ Len(records) \in Nat
          BY <2>1
    <2>3. 1 \in DOMAIN records
          BY <2>2, ActivityAssumption
    <2>4. \A i \in DOMAIN records : records[i] \in ActivityRecord
          BY <2>1
    <2> QED BY <2>2, <2>3, <2>4 DEF ActivityRecord
  <1>2. CASE idle = {}
    <2>1. Evicted(records) = records[1].tag
          BY <1>2 DEF Evicted
    <2>2. \A i \in DOMAIN records : records[i].inFlight > 0
          BY <1>1, <1>2
    <2> QED BY <1>1, <2>1, <2>2
  <1>3. CASE idle # {}
    <2>1. idle \in SUBSET Nat
          BY <1>1
    <2>2. PICK n \in idle : \A m \in idle : n <= m
          BY <1>3, <2>1, LeastNatural
    <2>3. PICK at : at = CHOOSE i \in idle : \A j \in idle : i <= j
          OBVIOUS
    <2>4. at \in idle
          BY <2>2, <2>3
    <2>5. Evicted(records) = records[at].tag
          BY <1>3, <2>3 DEF Evicted
    <2> QED BY <2>4, <2>5
  <1> QED BY <1>2, <1>3

\* What a touch does to the map: one record of the tag, with the count it had
\* and the change, and at most one other record given up.
LocalTouch(tag, change, before, n, gone) ==
    /\ TagIn(tag) => \E r \in In(records) : r.tag = tag /\ r.inFlight = before
    /\ ~TagIn(tag) => before = 0
    /\ n = IF before + change < 0 THEN 0 ELSE before + change
    /\ records' \in Seq(ActivityRecord) /\ OneEach(records')
    /\ In(records') = {r \in In(records) \ gone : r.tag # tag} \cup {[tag |-> tag, inFlight |-> n]}
    /\ \A r \in gone : /\ r.tag # tag
                       /\ r.inFlight = 0 \/ \A x \in In(records) : x.inFlight > 0

\* A touch does that.
LEMMA TouchIsLocal ==
    ASSUME ActivityInv, NEW tag \in ActivityTags, NEW change \in {-1, 0, 1}, Touched(tag, change)
    PROVE  \E before \in Nat, n \in Nat, gone \in SUBSET In(records) :
              LocalTouch(tag, change, before, n, gone)
  <1>1. /\ records \in Seq(ActivityRecord) /\ OneEach(records)
        /\ \A r \in In(records) : r \in ActivityRecord /\ r.inFlight \in Nat
    <2>1. records \in Seq(ActivityRecord) /\ OneEach(records)
          BY DEF ActivityInv
    <2>2. \A i \in DOMAIN records : records[i] \in ActivityRecord
          BY <2>1
    <2> QED BY <2>1, <2>2 DEF In, ActivityRecord
  <1>2. PICK before : before = IF TagIn(tag) THEN RecordOf(tag).inFlight ELSE 0
        OBVIOUS
  <1>3. PICK kept : kept = IF TagIn(tag) THEN Without(records, tag)
                ELSE IF Len(records) >= MaxActivityTags THEN Without(records, Evicted(records))
                ELSE records
        OBVIOUS
  <1>4. PICK n : n = IF before + change < 0 THEN 0 ELSE before + change
        OBVIOUS
  <1>5. PICK rec : rec = [tag |-> tag, inFlight |-> n]
        OBVIOUS
  <1>6. records' = Append(kept, rec)
        BY <1>2, <1>3, <1>4, <1>5 DEF Touched
  <1>7. /\ before \in Nat /\ (~TagIn(tag) => before = 0)
        /\ (TagIn(tag) => \E r \in In(records) : r.tag = tag /\ r.inFlight = before)
        BY <1>1, <1>2, RecordIsItsOwn DEF In
  <1>8. n \in Nat /\ rec \in ActivityRecord /\ rec.tag = tag
    <2>1. n \in Nat
          BY <1>4, <1>7
    <2> QED BY <1>5, <2>1 DEF ActivityRecord
  <1>9. PICK gone \in SUBSET In(records) :
           /\ kept \in Seq(ActivityRecord) /\ OneEach(kept)
           /\ In(kept) = {r \in In(records) \ gone : r.tag # tag}
           /\ \A r \in gone : /\ r.tag # tag
                              /\ r.inFlight = 0 \/ \A x \in In(records) : x.inFlight > 0
    <2>1. CASE TagIn(tag)
      <3>1. PICK at \in DOMAIN records : records[at].tag = tag
            BY <2>1 DEF TagIn
      <3>2. kept = Without(records, tag)
            BY <1>3, <2>1
      <3>3. /\ kept \in Seq(ActivityRecord) /\ OneEach(kept) /\ In(kept) = In(records) \ {records[at]}
            /\ \A r \in In(kept) : r.tag # tag
            BY <1>1, <3>1, <3>2, WithoutTakesOne
      <3>4. In(kept) = {r \in In(records) \ {} : r.tag # tag}
        <4>1. \A r \in In(records) : r.tag = tag => r = records[at]
              BY <1>1, <3>1 DEF In, OneEach
        <4>2. \A r \in In(records) : r.tag # tag => r # records[at]
              BY <3>1
        <4> QED BY <3>3, <4>1, <4>2
      <3> WITNESS {} \in SUBSET In(records)
      <3> QED BY <3>3, <3>4
    <2>2. CASE ~TagIn(tag) /\ Len(records) >= MaxActivityTags
      <3>1. PICK at \in DOMAIN records :
              /\ Evicted(records) = records[at].tag
              /\ records[at].inFlight = 0 \/ \A i \in DOMAIN records : records[i].inFlight > 0
            BY <2>2, VictimIsIdle
      <3>2. kept = Without(records, records[at].tag)
            BY <1>3, <2>2, <3>1
      <3>3. /\ kept \in Seq(ActivityRecord) /\ OneEach(kept) /\ In(kept) = In(records) \ {records[at]}
            BY <1>1, <3>1, <3>2, WithoutTakesOne
      <3>4. \A r \in In(records) : r.tag # tag
            BY <2>2 DEF TagIn, In
      <3>5. {records[at]} \in SUBSET In(records) /\ In(kept) = {r \in In(records) \ {records[at]} : r.tag # tag}
            BY <3>3, <3>4 DEF In
      <3>6. records[at].inFlight = 0 \/ \A x \in In(records) : x.inFlight > 0
            BY <3>1 DEF In
      <3>7. records[at].tag # tag
            BY <3>4, <3>5
      <3> QED BY <3>3, <3>5, <3>6, <3>7
    <2>3. CASE ~TagIn(tag) /\ ~(Len(records) >= MaxActivityTags)
      <3>1. kept = records
            BY <1>3, <2>3
      <3>2. \A r \in In(records) : r.tag # tag
            BY <2>3 DEF TagIn, In
      <3>3. In(kept) = {r \in In(records) \ {} : r.tag # tag}
            BY <3>1, <3>2
      <3> WITNESS {} \in SUBSET In(records)
      <3> QED BY <1>1, <3>1, <3>3
    <2> QED BY <2>1, <2>2, <2>3
  <1>10. \A r \in In(kept) : r.tag # rec.tag
         BY <1>8, <1>9
  <1>11. /\ records' \in Seq(ActivityRecord) /\ OneEach(records')
         /\ In(records') = In(kept) \cup {rec}
         BY <1>6, <1>8, <1>9, <1>10, AppendAddsOne
  <1>12. In(records') = {r \in In(records) \ gone : r.tag # tag} \cup {[tag |-> tag, inFlight |-> n]}
         BY <1>5, <1>9, <1>11
  <1>13. LocalTouch(tag, change, before, n, gone)
         BY <1>4, <1>7, <1>9, <1>11, <1>12 DEF LocalTouch
  <1> QED BY <1>7, <1>8, <1>13

\* The requests of a lane are finitely many.
LEMMA BusyIsFinite ==
    ASSUME ActivityInv, NEW t
    PROVE  IsFiniteSet(Busy(t)) /\ Cardinality(Busy(t)) \in Nat
           /\ (Cardinality(Busy(t)) = 0 <=> Busy(t) = {})
  <1>1. Busy(t) \subseteq DOMAIN open /\ IsFiniteSet(DOMAIN open)
        BY DEF Busy, ActivityInv
  <1>2. IsFiniteSet(Busy(t))
        BY <1>1, FS_Subset
  <1> QED BY <1>2, FS_CardinalityType, FS_EmptySet

\* A touch that comes with the change of the lane's open requests keeps the
\* records true, and drops a busy record only from a map of busy ones.
LEMMA TouchTellsTraffic ==
    ASSUME ActivityInv, NEW tag \in ActivityTags, NEW change \in {-1, 0, 1},
           Touched(tag, change), Forget,
           \A t \in ActivityTags \ {tag} : Busy(t)' = Busy(t),
           Cardinality(Busy(tag)') = Cardinality(Busy(tag)) + change,
           Cardinality(Busy(tag)') \in Nat
    PROVE  /\ records' \in Seq(ActivityRecord) /\ OneEach(records') /\ RecordsTellTraffic'
           /\ forgotten' # forgotten => \A i \in DOMAIN records : records[i].inFlight > 0
  <1>0. PICK before \in Nat, n \in Nat, gone \in SUBSET In(records) :
              LocalTouch(tag, change, before, n, gone)
        BY TouchIsLocal
  <1>1. /\ TagIn(tag) => \E r \in In(records) : r.tag = tag /\ r.inFlight = before
        /\ ~TagIn(tag) => before = 0
        /\ n = IF before + change < 0 THEN 0 ELSE before + change
        /\ records' \in Seq(ActivityRecord) /\ OneEach(records')
        /\ In(records') = {r \in In(records) \ gone : r.tag # tag} \cup {[tag |-> tag, inFlight |-> n]}
        /\ \A r \in gone : /\ r.tag # tag
                           /\ r.inFlight = 0 \/ \A x \in In(records) : x.inFlight > 0
        BY <1>0 DEF LocalTouch
  <1>2. RecordsTellTraffic
        BY DEF ActivityInv
  <1>3. /\ \A t : TagIn(t) <=> \E r \in In(records) : r.tag = t
        /\ \A t : (\E i \in DOMAIN records' : records'[i].tag = t) <=> \E r \in In(records') : r.tag = t
        BY DEF TagIn, In
  <1>4. \A t \in ActivityTags : t \in forgotten' <=>
           \/ t \in forgotten
           \/ /\ \E r \in In(records) : r.tag = t
              /\ Busy(t) # {}
              /\ \A r \in In(records') : r.tag # t
        BY <1>3 DEF Forget
  <1>5. ASSUME NEW t \in ActivityTags \ forgotten'
        PROVE  /\ \A r \in In(records') : r.tag = t => r.inFlight = Cardinality(Busy(t)')
               /\ (\A r \in In(records') : r.tag # t) => Busy(t)' = {}
    <2>1. t \notin forgotten
          BY <1>4, <1>5
    <2>2. /\ \A r \in In(records) : r.tag = t => r.inFlight = Cardinality(Busy(t))
          /\ (\A r \in In(records) : r.tag # t) => Busy(t) = {}
          BY <1>2, <2>1 DEF RecordsTellTraffic
    <2>3. CASE t = tag
      <3>1. before = Cardinality(Busy(tag))
        <4>1. CASE TagIn(tag)
              BY <1>1, <2>2, <2>3, <4>1
        <4>2. CASE ~TagIn(tag)
          <5>1. Busy(tag) = {}
                BY <1>3, <2>2, <2>3, <4>2
          <5> QED BY <1>1, <4>2, <5>1, BusyIsFinite
        <4> QED BY <4>1, <4>2
      <3>2. n = Cardinality(Busy(tag)')
            BY <1>1, <3>1
      <3>3. \A r \in In(records') : r.tag = tag => r = [tag |-> tag, inFlight |-> n]
            BY <1>1
      <3>4. [tag |-> tag, inFlight |-> n] \in In(records')
            BY <1>1
      <3> QED BY <2>3, <3>2, <3>3, <3>4
    <2>4. CASE t # tag
      <3>1. Busy(t)' = Busy(t)
            BY <2>4
      <3>2. \A r \in In(records') : r.tag = t => r \in In(records)
            BY <1>1, <2>4
      <3>3. (\A r \in In(records') : r.tag # t) => Busy(t) = {}
            BY <1>4, <1>5, <2>2
      <3>4. \A r \in In(records') : r.tag = t => r.inFlight = Cardinality(Busy(t)')
            BY <2>2, <3>1, <3>2
      <3> QED BY <3>1, <3>3, <3>4
    <2> QED BY <2>3, <2>4
  <1>6. RecordsTellTraffic'
        BY <1>5 DEF RecordsTellTraffic
  <1>7. ASSUME forgotten' # forgotten PROVE \A i \in DOMAIN records : records[i].inFlight > 0
    <2>1. PICK t \in ActivityTags : /\ t \notin forgotten /\ TagIn(t) /\ Busy(t) # {}
                                    /\ ~\E i \in DOMAIN records' : records'[i].tag = t
          BY <1>7 DEF Forget
    <2>2. PICK r \in In(records) : r.tag = t
          BY <1>3, <2>1
    <2>3. r.inFlight = Cardinality(Busy(t)) /\ r.inFlight # 0
      <3>1. r.inFlight = Cardinality(Busy(t))
            BY <1>2, <2>1, <2>2 DEF RecordsTellTraffic
      <3> QED BY <2>1, <3>1, BusyIsFinite
    <2>4. r \notin In(records') /\ t # tag
      <3>1. \A x \in In(records') : x.tag # t
            BY <1>3, <2>1
      <3>2. [tag |-> tag, inFlight |-> n].tag = tag /\ [tag |-> tag, inFlight |-> n] \in In(records')
            BY <1>1
      <3> QED BY <2>2, <3>1, <3>2
    <2>5. r \in gone
          BY <1>1, <2>2, <2>4
    <2>6. \A x \in In(records) : x.inFlight > 0
          BY <1>1, <2>3, <2>5
    <2> QED BY <2>6 DEF In
  <1> QED BY <1>1, <1>6, <1>7

\* Opening a request adds it to its lane's.
LEMMA BeginIsCounted ==
    ASSUME ActivityInv, NEW r, NEW tag \in ActivityTags, BeginLaneRequest(r, tag)
    PROVE  /\ IsFiniteSet(DOMAIN open') /\ open' = [x \in DOMAIN open' |-> open'[x]]
           /\ \A x \in DOMAIN open' : open'[x] \in ActivityTags
           /\ \A t \in ActivityTags \ {tag} : Busy(t)' = Busy(t)
           /\ Cardinality(Busy(tag)') = Cardinality(Busy(tag)) + 1
  <1>1. r \notin DOMAIN open /\ open' = [x \in DOMAIN open \cup {r} |-> IF x = r THEN tag ELSE open[x]]
        BY DEF BeginLaneRequest
  <1>2. /\ DOMAIN open' = DOMAIN open \cup {r} /\ open'[r] = tag
        /\ \A x \in DOMAIN open : open'[x] = open[x]
        BY <1>1
  <1>3. IsFiniteSet(DOMAIN open) /\ \A x \in DOMAIN open : open[x] \in ActivityTags
        BY DEF ActivityInv
  <1>4. IsFiniteSet(DOMAIN open')
        BY <1>2, <1>3, FS_AddElement
  <1>5. \A t \in ActivityTags \ {tag} : Busy(t)' = Busy(t)
        BY <1>1, <1>2 DEF Busy
  <1>6. Busy(tag)' = Busy(tag) \cup {r} /\ r \notin Busy(tag)
        BY <1>1, <1>2 DEF Busy
  <1>7. Cardinality(Busy(tag)') = Cardinality(Busy(tag)) + 1
        BY <1>6, BusyIsFinite, FS_AddElement
  <1>8. open' = [x \in DOMAIN open' |-> open'[x]]
        BY <1>1
  <1> QED BY <1>2, <1>3, <1>4, <1>5, <1>7, <1>8

\* The end of a request takes it from its lane's.
LEMMA EndIsCounted ==
    ASSUME ActivityInv, NEW r, Ended(r)
    PROVE  /\ IsFiniteSet(DOMAIN open') /\ open' = [x \in DOMAIN open' |-> open'[x]]
           /\ \A x \in DOMAIN open' : open'[x] \in ActivityTags
           /\ \A t \in ActivityTags \ {open[r]} : Busy(t)' = Busy(t)
           /\ Cardinality({x \in DOMAIN open' : open'[x] = open[r]}) = Cardinality(Busy(open[r])) - 1
  <1>1. r \in DOMAIN open /\ open' = [x \in DOMAIN open \ {r} |-> open[x]]
        BY DEF Ended
  <1>2. DOMAIN open' = DOMAIN open \ {r} /\ \A x \in DOMAIN open' : open'[x] = open[x]
        BY <1>1
  <1>3. IsFiniteSet(DOMAIN open) /\ \A x \in DOMAIN open : open[x] \in ActivityTags
        BY DEF ActivityInv
  <1>4. IsFiniteSet(DOMAIN open')
        BY <1>2, <1>3, FS_RemoveElement
  <1>5. \A t \in ActivityTags \ {open[r]} : Busy(t)' = Busy(t)
        BY <1>1, <1>2 DEF Busy
  <1>6. {x \in DOMAIN open' : open'[x] = open[r]} = Busy(open[r]) \ {r} /\ r \in Busy(open[r])
        BY <1>1, <1>2 DEF Busy
  <1>7. Cardinality({x \in DOMAIN open' : open'[x] = open[r]}) = Cardinality(Busy(open[r])) - 1
        BY <1>6, BusyIsFinite, FS_RemoveElement
  <1>8. open' = [x \in DOMAIN open' |-> open'[x]]
        BY <1>1
  <1> QED BY <1>2, <1>3, <1>4, <1>5, <1>7, <1>8

\* Every step of the records keeps the invariant, and a busy record is dropped
\* only from a map of busy ones.
LEMMA ActivityStepTellsTraffic ==
    ASSUME ActivityInv, ActivityNext
    PROVE  /\ ActivityInv'
           /\ forgotten' # forgotten => \A i \in DOMAIN records : records[i].inFlight > 0
  <1>1. ASSUME NEW r \in Requests, NEW tag \in ActivityTags, BeginLaneRequest(r, tag)
        PROVE  ActivityInv' /\ (forgotten' # forgotten => \A i \in DOMAIN records : records[i].inFlight > 0)
    <2>1. Touched(tag, 1) /\ Forget
          BY <1>1 DEF BeginLaneRequest
    <2>2. /\ IsFiniteSet(DOMAIN open') /\ open' = [x \in DOMAIN open' |-> open'[x]]
          /\ \A x \in DOMAIN open' : open'[x] \in ActivityTags
          /\ \A t \in ActivityTags \ {tag} : Busy(t)' = Busy(t)
          /\ Cardinality(Busy(tag)') = Cardinality(Busy(tag)) + 1
          BY <1>1, BeginIsCounted
    <2>3. Cardinality(Busy(tag)') \in Nat
          BY <2>2, BusyIsFinite
    <2>4. /\ records' \in Seq(ActivityRecord) /\ OneEach(records') /\ RecordsTellTraffic'
          /\ forgotten' # forgotten => \A i \in DOMAIN records : records[i].inFlight > 0
          BY <2>1, <2>2, <2>3, TouchTellsTraffic
    <2> QED BY <2>2, <2>4 DEF ActivityInv
  <1>2. ASSUME NEW r \in Requests, Wrote(r)
        PROVE  ActivityInv' /\ (forgotten' # forgotten => \A i \in DOMAIN records : records[i].inFlight > 0)
    <2>1. PICK tag : tag = open[r]
          OBVIOUS
    <2>2. tag \in ActivityTags /\ Touched(tag, 0) /\ Forget /\ UNCHANGED open
          BY <1>2, <2>1 DEF Wrote, ActivityInv
    <2>3. /\ \A t \in ActivityTags \ {tag} : Busy(t)' = Busy(t)
          /\ Busy(tag)' = Busy(tag)
          BY <2>2 DEF Busy
    <2>4. Cardinality(Busy(tag)') = Cardinality(Busy(tag)) + 0 /\ Cardinality(Busy(tag)') \in Nat
          BY <2>3, BusyIsFinite
    <2>5. /\ records' \in Seq(ActivityRecord) /\ OneEach(records') /\ RecordsTellTraffic'
          /\ forgotten' # forgotten => \A i \in DOMAIN records : records[i].inFlight > 0
          BY <2>2, <2>3, <2>4, TouchTellsTraffic
    <2> QED BY <2>2, <2>5 DEF ActivityInv
  <1>3. ASSUME NEW r \in Requests, Ended(r)
        PROVE  ActivityInv' /\ (forgotten' # forgotten => \A i \in DOMAIN records : records[i].inFlight > 0)
    <2>1. PICK tag : tag = open[r]
          OBVIOUS
    <2>2. tag \in ActivityTags /\ Touched(tag, -1) /\ Forget
          BY <1>3, <2>1 DEF Ended, ActivityInv
    <2>3. /\ IsFiniteSet(DOMAIN open') /\ open' = [x \in DOMAIN open' |-> open'[x]]
          /\ \A x \in DOMAIN open' : open'[x] \in ActivityTags
          /\ \A t \in ActivityTags \ {tag} : Busy(t)' = Busy(t)
          /\ Cardinality({x \in DOMAIN open' : open'[x] = tag}) = Cardinality(Busy(tag)) - 1
          BY <1>3, <2>1, EndIsCounted
    <2>4. Cardinality(Busy(tag)') = Cardinality(Busy(tag)) + (-1) /\ Cardinality(Busy(tag)') \in Nat
      <3>1. Busy(tag)' = {x \in DOMAIN open' : open'[x] = tag}
            BY DEF Busy
      <3>2. Busy(tag) # {} /\ Cardinality(Busy(tag)) \in Nat /\ Cardinality(Busy(tag)) # 0
        <4>1. r \in Busy(tag)
              BY <1>3, <2>1 DEF Ended, Busy
        <4> QED BY <4>1, BusyIsFinite
      <3> QED BY <2>3, <3>1, <3>2
    <2>5. /\ records' \in Seq(ActivityRecord) /\ OneEach(records') /\ RecordsTellTraffic'
          /\ forgotten' # forgotten => \A i \in DOMAIN records : records[i].inFlight > 0
          BY <2>2, <2>3, <2>4, TouchTellsTraffic
    <2> QED BY <2>3, <2>5 DEF ActivityInv
  <1> QED BY <1>1, <1>2, <1>3 DEF ActivityNext

\* TrafficIsSeen, for any number of lanes, requests and records: a lane whose
\* record was never dropped while it was busy shows exactly its open requests,
\* and a busy record is dropped only when every record is busy.
THEOREM TrafficStaysSeen == ActivitySpec => TrafficIsSeen
<1>1. ActivityInit => ActivityInv
  <2> SUFFICES ASSUME ActivityInit PROVE ActivityInv
      OBVIOUS
  <2>1. records = << >> /\ DOMAIN records = {} /\ DOMAIN open = {} /\ open = [r \in DOMAIN open |-> open[r]]
        BY DEF ActivityInit
  <2>2. RecordsTellTraffic
        BY <2>1 DEF RecordsTellTraffic, In, Busy
  <2> QED BY <2>1, <2>2, FS_EmptySet DEF ActivityInv, OneEach
<1>2. ActivityInv /\ [ActivityNext]_activityVars => ActivityInv'
  <2> SUFFICES ASSUME ActivityInv, [ActivityNext]_activityVars PROVE ActivityInv'
      OBVIOUS
  <2>1. CASE ActivityNext
        BY <2>1, ActivityStepTellsTraffic
  <2>2. CASE UNCHANGED activityVars
        BY <2>2 DEF activityVars, ActivityInv, OneEach, RecordsTellTraffic, In, Busy
  <2> QED BY <2>1, <2>2
<1> DEFINE Seen ==
       /\ \A t \in ActivityTags \ forgotten' :
             IF \E i \in DOMAIN records' : records'[i].tag = t
             THEN \A i \in DOMAIN records' : records'[i].tag = t =>
                     records'[i].inFlight = Cardinality({r \in DOMAIN open' : open'[r] = t})
             ELSE ~\E r \in DOMAIN open' : open'[r] = t
       /\ forgotten' # forgotten => \A i \in DOMAIN records : records[i].inFlight > 0
<1>3. ActivityInv /\ [ActivityNext]_activityVars => [Seen]_activityVars
  <2> SUFFICES ASSUME ActivityInv, ActivityNext PROVE Seen
      OBVIOUS
  <2>1. RecordsTellTraffic' /\ (forgotten' # forgotten => \A i \in DOMAIN records : records[i].inFlight > 0)
        BY ActivityStepTellsTraffic DEF ActivityInv
  <2>2. ASSUME NEW t \in ActivityTags \ forgotten'
        PROVE  IF \E i \in DOMAIN records' : records'[i].tag = t
               THEN \A i \in DOMAIN records' : records'[i].tag = t =>
                       records'[i].inFlight = Cardinality({r \in DOMAIN open' : open'[r] = t})
               ELSE ~\E r \in DOMAIN open' : open'[r] = t
    <3>1. /\ \A r \in In(records') : r.tag = t => r.inFlight = Cardinality({r2 \in DOMAIN open' : open'[r2] = t})
          /\ (\A r \in In(records') : r.tag # t) => {r2 \in DOMAIN open' : open'[r2] = t} = {}
          BY <2>1, <2>2 DEF RecordsTellTraffic, Busy
    <3> QED BY <3>1 DEF In
  <2> QED BY <2>1, <2>2
<1> QED BY <1>1, <1>2, <1>3, PTL DEF ActivitySpec, TrafficIsSeen

-----------------------------------------------------------------------------
(***************************************************************************)
(* The ledger's files.                                                     *)
(***************************************************************************)

\* The requests that have finished.
Concluded == {r \in Facts : endedOn[r] # NoDay}

\* What waits in memory has finished, and only a running flush looks at it.
WaitingHaveEnded ==
    /\ queued \in Seq(Concluded) /\ todo \in Seq(Concluded)
    /\ todo # <<>> => stage = "drain"

\* Nothing is dated after the latest day the clock has shown.
NothingIsAhead ==
    /\ today <= seen /\ trusted <= seen
    /\ lifetime.last <= seen /\ diskLifetime.last <= seen
    /\ \A r \in Facts : endedOn[r] <= seen
    /\ pendingRetention <= Cutoff(seen)

\* Each shard counts requests of its own day, and memory adds to its file.
ShardsKeepTheirDay ==
    /\ \A d \in Days : \A r \in diskDays[d] : endedOn[r] = d
    /\ \A d \in cached : \A r \in days[d] : endedOn[r] = d
    /\ \A d \in cached : diskDays[d] \subseteq days[d]
    /\ pruned \subseteq Concluded
    /\ \A r \in pruned : endedOn[r] < Cutoff(seen)

\* What the totals count is in a shard, or was pruned.
CountedAreHeld ==
    /\ \A r \in lifetime.counted : r \in Concluded /\ r \in LoadedDay(endedOn[r]) \cup pruned
    /\ \A r \in diskLifetime.counted : r \in Concluded /\ r \in diskDays[endedOn[r]] \cup pruned

\* What a flush has written or unlinked so far.
FlushIsOnItsWay ==
    /\ stage = "facts" => /\ left \subseteq dirtyDays \cup {Lifetime}
                          /\ \A d \in dirtyDays \ left : days[d] = diskDays[d]
    /\ stage \in {"plan", "retention"} => dirtyDays = {} /\ dirtyLifetime = "no"
    /\ stage = "retention" =>
          /\ left \subseteq Candidates \cup {Lifetime}
          /\ \A d \in (Candidates \cap cached) \ left : days[d] \subseteq pruned

\* What is not dirty, or already written, is in the files.
CleanAtEveryStage ==
    /\ \A d \in cached \ dirtyDays : days[d] = diskDays[d] \/ days[d] \subseteq pruned
    /\ \/ dirtyLifetime = "no"
       \/ stage = "facts" /\ Lifetime \notin left
       => lifetime.counted = diskLifetime.counted

LedgerInv == /\ LedgerTypes /\ WaitingHaveEnded /\ NothingIsAhead /\ ShardsKeepTheirDay
             /\ CountedAreHeld /\ FlushIsOnItsWay /\ CleanAtEveryStage /\ DirtyIsScheduled

\* The least of a set of naturals is its member.
LEMMA MinIsLeast ==
    ASSUME NEW S \in SUBSET Nat, S # {}
    PROVE  Min(S) \in S /\ \A m \in S : Min(S) <= m
  <1>1. PICK n \in S : \A m \in S : n <= m
        BY LeastNatural
  <1> QED BY <1>1 DEF Min

\* A set of days that is not empty has a last day.
LEMMA LastDay ==
    ASSUME NEW S \in SUBSET Days, S # {}
    PROVE  Max(S) \in S
  <1> DEFINE before == {MaxDay - d : d \in S}
  <1>0. \A d \in S : MaxDay - d \in Nat
        BY StoreAssumption DEF Days
  <1>1. before \in SUBSET Nat /\ before # {}
        BY <1>0
  <1> HIDE DEF before
  <1>2. PICK n \in before : \A m \in before : n <= m
        BY <1>1, LeastNatural
  <1>3. PICK d \in S : n = MaxDay - d
        BY <1>2 DEF before
  <1>4. \A e \in S : MaxDay - e \in before
        BY DEF before
  <1>5. \A e \in S : d >= e
        BY <1>2, <1>3, <1>4, StoreAssumption DEF Days
  <1> QED BY <1>5 DEF Max

\* The first day that is kept is a day, and is later the later the clock is.
LEMMA CutoffIsADay ==
    ASSUME NEW d \in Days
    PROVE  Cutoff(d) \in Days
  BY StoreAssumption DEF Cutoff, Later, Days

\* A later date keeps later days.
LEMMA CutoffGrows ==
    ASSUME NEW d \in Days, NEW e \in Days, d <= e
    PROVE  Cutoff(d) <= Cutoff(e)
  BY StoreAssumption DEF Cutoff, Later, Days

\* What retention names has expired.
LEMMA CandidatesHaveExpired ==
    \A d \in Candidates : d \in Days /\ d < pendingRetention
  BY DEF Candidates, Expired

\* While the totals and the wanted cutoff stay, so does the plan.
LEMMA PlanStays ==
    ASSUME lifetime' = lifetime, pendingRetention' = pendingRetention
    PROVE  Candidates' = Candidates
  BY DEF Candidates, Expired

\* The cursor that a plan leaves is a day or the day after the last.
LEMMA CursorIsADay ==
    ASSUME LedgerTypes
    PROVE  NextFrom \in 0 .. MaxDay + 1
  <1>1. CASE Candidates # {}
    <2>1. Max(Candidates) \in Days
          BY <1>1, LastDay, CandidatesHaveExpired
    <2> QED BY <1>1, <2>1, StoreAssumption DEF NextFrom, Days
  <1>2. CASE Candidates = {}
        BY <1>2, StoreAssumption DEF NextFrom, Later, LedgerTypes, Totals
  <1> QED BY <1>1, <1>2

\* The ledger starts empty.
LEMMA LedgerStartsSound == LedgerInit => LedgerInv
  <1> SUFFICES ASSUME LedgerInit PROVE LedgerInv
      OBVIOUS
  <1> USE StoreAssumption DEF LedgerInit
  <1>1. LedgerTypes
        BY DEF LedgerTypes, Days, NoDay, Totals, EmptyLifetime
  <1>2. WaitingHaveEnded
        BY DEF WaitingHaveEnded
  <1>3. NothingIsAhead
    <2>1. Cutoff(seen) \in Days
          BY CutoffIsADay DEF Days
    <2> QED BY <2>1 DEF NothingIsAhead, NoDay, EmptyLifetime, Days
  <1>4. ShardsKeepTheirDay
        BY DEF ShardsKeepTheirDay
  <1>5. CountedAreHeld
        BY DEF CountedAreHeld, EmptyLifetime
  <1>6. FlushIsOnItsWay
        BY DEF FlushIsOnItsWay
  <1>7. CleanAtEveryStage
        BY DEF CleanAtEveryStage
  <1>8. DirtyIsScheduled
        BY DEF DirtyIsScheduled
  <1> QED BY <1>1, <1>2, <1>3, <1>4, <1>5, <1>6, <1>7, <1>8 DEF LedgerInv

-----------------------------------------------------------------------------
\* A fact that is counted is dirty in memory, and its flush is armed.
LEMMA AppliedKeepsLedger ==
    ASSUME LedgerInv, stage \in {"idle", "drain"},
           NEW r \in Facts, NEW d \in Days, Applied(r, d),
           endedOn' \in [Facts -> Days \cup {NoDay}], endedOn'[r] = d, d <= seen,
           \A x \in Facts : endedOn[x] # NoDay => endedOn'[x] = endedOn[x],
           \A x \in Facts : endedOn'[x] <= seen,
           queued' \in Seq(Concluded'), todo' \in Seq(Concluded'),
           todo' # <<>> => stage = "drain", Len(queued') + Len(todo') <= QueueLimit,
           UNCHANGED <<today, seen, stage, left, ledgerDisk>>
    PROVE  LedgerInv'
  <1>1. Concluded \subseteq Concluded' /\ r \in Concluded'
        BY StoreAssumption DEF Concluded, Days, NoDay
  <1>2. /\ days' \in [Days -> SUBSET Facts] /\ days'[d] = LoadedDay(d) \cup {r}
        /\ \A e \in Days : e # d => days'[e] = days[e]
        /\ cached' = cached \cup {d} /\ dirtyDays' = dirtyDays \cup {d}
    <2>1. LoadedDay(d) \in SUBSET Facts
          BY DEF LoadedDay, LedgerInv, LedgerTypes
    <2> QED BY <2>1 DEF Applied, LedgerInv, LedgerTypes
  <1>3. /\ lifetime' \in Totals
        /\ lifetime'.counted = lifetime.counted \cup {r}
        /\ lifetime'.last <= seen
    <2>1. /\ Earlier(lifetime.first, d) \in 0 .. MaxDay
          /\ Later(lifetime.last, d) \in 0 .. MaxDay
          /\ Later(lifetime.last, d) <= seen
          BY StoreAssumption DEF Earlier, Later, Days, LedgerInv, LedgerTypes, NothingIsAhead, Totals
    <2>2. (IF lifetime.from # NoDay /\ d < lifetime.from THEN d ELSE lifetime.from) \in 0 .. MaxDay + 1
          BY StoreAssumption DEF Days, LedgerInv, LedgerTypes, Totals
    <2>3. lifetime.counted \cup {r} \in SUBSET Facts
          BY DEF LedgerInv, LedgerTypes, Totals
    <2>4. lifetime' = [counted |-> lifetime.counted \cup {r},
                       first |-> Earlier(lifetime.first, d),
                       last |-> Later(lifetime.last, d),
                       from |-> IF lifetime.from # NoDay /\ d < lifetime.from THEN d ELSE lifetime.from]
          BY DEF Applied
    <2> QED BY <2>1, <2>2, <2>3, <2>4 DEF Totals
  <1>4. pendingRetention' \in 0 .. MaxDay /\ pendingRetention' <= Cutoff(seen)
    <2>1. Cutoff(today) \in Days /\ Cutoff(seen) \in Days /\ Cutoff(today) <= Cutoff(seen)
          BY CutoffIsADay, CutoffGrows DEF LedgerInv, LedgerTypes, NothingIsAhead
    <2>2. pendingRetention' \in {pendingRetention, Later(pendingRetention, Cutoff(today))}
          BY DEF Applied
    <2>3. CASE pendingRetention' = pendingRetention
          BY <2>3 DEF LedgerInv, LedgerTypes, NothingIsAhead
    <2>4. CASE pendingRetention' = Later(pendingRetention, Cutoff(today))
          BY <2>1, <2>4, StoreAssumption DEF Later, LedgerInv, LedgerTypes, NothingIsAhead, Days
    <2> QED BY <2>2, <2>3, <2>4
  <1>5. /\ dirtyLifetime' = "yes" /\ timer' = "debounce" /\ trusted' = trusted
        /\ diskDays' = diskDays /\ diskLifetime' = diskLifetime /\ pruned' = pruned
        /\ diskShards' = diskShards
        BY DEF Applied, ledgerDisk
  <1>6. Cutoff(seen)' = Cutoff(seen)
        BY DEF Cutoff
  <1>11. LedgerTypes'
        BY <1>2, <1>3, <1>4, <1>5 DEF LedgerInv, LedgerTypes
  <1>12. WaitingHaveEnded'
        BY DEF WaitingHaveEnded
  <1>13. NothingIsAhead'
        BY <1>3, <1>4, <1>5, <1>6 DEF NothingIsAhead, LedgerInv
  <1>14. ShardsKeepTheirDay'
    <2>1. \A x \in LoadedDay(d) : endedOn[x] = d /\ endedOn'[x] = d
          BY StoreAssumption DEF LoadedDay, LedgerInv, ShardsKeepTheirDay, LedgerTypes, Days, NoDay
    <2>2. \A e \in Days : \A x \in diskDays[e] : x \in Facts /\ endedOn[x] = e /\ endedOn'[x] = e
          BY StoreAssumption DEF LedgerInv, ShardsKeepTheirDay, LedgerTypes, Days, NoDay
    <2>3. \A e \in cached : e # d => \A x \in days'[e] : endedOn'[x] = e
          BY <1>2, StoreAssumption DEF LedgerInv, ShardsKeepTheirDay, LedgerTypes, Days, NoDay
    <2>4. diskDays[d] \subseteq LoadedDay(d)
          BY DEF LoadedDay, LedgerInv, ShardsKeepTheirDay
    <2>5. \A e \in cached : e # d => diskDays[e] \subseteq days'[e]
          BY <1>2 DEF LedgerInv, ShardsKeepTheirDay, LedgerTypes
    <2>6. pruned \subseteq Concluded' /\ \A x \in pruned : endedOn'[x] < Cutoff(seen)
          BY <1>1 DEF LedgerInv, ShardsKeepTheirDay, Concluded
    <2>7. \A e \in cached' : \A x \in days'[e] : endedOn'[x] = e
          BY <1>2, <2>1, <2>3
    <2>8. \A e \in cached' : diskDays[e] \subseteq days'[e]
          BY <1>2, <2>4, <2>5
    <2> QED BY <1>5, <1>6, <2>2, <2>6, <2>7, <2>8 DEF ShardsKeepTheirDay
  <1>15. CountedAreHeld'
    <2>1. \A x \in lifetime.counted : x \in Concluded /\ endedOn'[x] = endedOn[x]
                                      /\ endedOn[x] \in Days
          BY DEF LedgerInv, CountedAreHeld, Concluded, LedgerTypes
    <2>2. \A e \in Days : LoadedDay(e) \subseteq LoadedDay(e)'
          BY <1>2, <1>5 DEF LoadedDay
    <2>3. r \in LoadedDay(d)'
          BY <1>2 DEF LoadedDay
    <2>4. \A x \in lifetime.counted :
             \A e \in Days : endedOn'[x] = e => x \in LoadedDay(e)' \cup pruned
          BY <2>1, <2>2 DEF LedgerInv, CountedAreHeld
    <2>6. \A x \in lifetime'.counted :
             \A e \in Days : endedOn'[x] = e => x \in LoadedDay(e)' \cup pruned'
          BY <1>3, <1>5, <2>3, <2>4
    <2>7. \A x \in lifetime'.counted : x \in Concluded' /\ endedOn'[x] \in Days
          BY <1>1, <1>3, <2>1
    <2>8. \A x \in lifetime'.counted :
             x \in (IF endedOn'[x] \in cached' THEN days'[endedOn'[x]]
                   ELSE diskDays'[endedOn'[x]]) \cup pruned'
          BY <2>6, <2>7 DEF LoadedDay
    <2>5. \A x \in diskLifetime.counted :
             x \in Concluded' /\ x \in diskDays[endedOn'[x]] \cup pruned
          BY <1>1 DEF LedgerInv, CountedAreHeld, Concluded
    <2> QED BY <1>5, <2>5, <2>7, <2>8 DEF CountedAreHeld, LoadedDay
  <1>16. FlushIsOnItsWay'
        BY DEF FlushIsOnItsWay
  <1>17. CleanAtEveryStage'
    <2>1. \A e \in cached' \ dirtyDays' : e \in cached \ dirtyDays /\ e # d /\ e \in Days
          BY <1>2 DEF LedgerInv, LedgerTypes
    <2> QED BY <1>2, <1>5, <2>1 DEF CleanAtEveryStage, LedgerInv
  <1>18. DirtyIsScheduled'
        BY <1>5 DEF DirtyIsScheduled
  <1> QED BY <1>11, <1>12, <1>13, <1>14, <1>15, <1>16, <1>17, <1>18 DEF LedgerInv

\* A fact that must wait leaves a note in the totals, and nothing else.
LEMMA NotAppliedKeepsLedger ==
    ASSUME LedgerInv, stage \in {"idle", "drain"}, NEW r, NotApplied(r),
           endedOn' \in [Facts -> Days \cup {NoDay}],
           \A x \in Facts : endedOn[x] # NoDay => endedOn'[x] = endedOn[x],
           \A x \in Facts : endedOn'[x] <= seen,
           queued' \in Seq(Concluded'), todo' \in Seq(Concluded'),
           todo' # <<>> => stage = "drain", Len(queued') + Len(todo') <= QueueLimit,
           UNCHANGED <<today, seen, stage, left, ledgerDisk>>
    PROVE  LedgerInv'
  <1>1. Concluded \subseteq Concluded'
        BY DEF Concluded
  <1>2. /\ dirtyLifetime' = "yes"
        /\ UNCHANGED <<days, cached, dirtyDays, lifetime, trusted, pendingRetention, timer>>
        /\ UNCHANGED <<diskDays, diskShards, diskLifetime, pruned>>
        BY DEF NotApplied, ledgerDisk
  <1>3. \A x \in Concluded : endedOn'[x] = endedOn[x]
        BY DEF Concluded
  <1>4. Cutoff(seen)' = Cutoff(seen)
        BY DEF Cutoff
  <1>11. LedgerTypes'
        BY <1>2 DEF LedgerInv, LedgerTypes
  <1>12. WaitingHaveEnded'
        BY DEF WaitingHaveEnded
  <1>13. NothingIsAhead'
        BY <1>2, <1>4 DEF NothingIsAhead, LedgerInv
  <1>14. ShardsKeepTheirDay'
    <2>1. \A d \in Days : \A x \in diskDays[d] : endedOn'[x] = d
          BY StoreAssumption DEF LedgerInv, ShardsKeepTheirDay, LedgerTypes, Days, NoDay
    <2>2. \A d \in cached : \A x \in days[d] : endedOn'[x] = d
          BY StoreAssumption DEF LedgerInv, ShardsKeepTheirDay, LedgerTypes, Days, NoDay
    <2>3. \A x \in pruned : x \in Concluded' /\ endedOn'[x] < Cutoff(seen)
          BY <1>1, <1>3 DEF LedgerInv, ShardsKeepTheirDay
    <2> QED BY <1>2, <1>4, <2>1, <2>2, <2>3 DEF ShardsKeepTheirDay, LedgerInv
  <1>15. CountedAreHeld'
    <2>1. \A x \in lifetime.counted : x \in Concluded' /\ endedOn'[x] = endedOn[x]
          BY <1>1, <1>3 DEF LedgerInv, CountedAreHeld
    <2>2. \A x \in diskLifetime.counted : x \in Concluded' /\ endedOn'[x] = endedOn[x]
          BY <1>1, <1>3 DEF LedgerInv, CountedAreHeld
    <2> QED BY <1>2, <2>1, <2>2 DEF LedgerInv, CountedAreHeld, LoadedDay
  <1>16. FlushIsOnItsWay'
        BY DEF FlushIsOnItsWay
  <1>17. CleanAtEveryStage'
        BY <1>2 DEF CleanAtEveryStage, LedgerInv
  <1>18. DirtyIsScheduled'
        BY <1>2 DEF DirtyIsScheduled, LedgerInv
  <1> QED BY <1>11, <1>12, <1>13, <1>14, <1>15, <1>16, <1>17, <1>18 DEF LedgerInv

\* A request ends: its fact is counted today, or waits.
LEMMA CompleteKeepsLedger ==
    ASSUME LedgerInv, NEW r \in Facts, CompleteRequest(r)
    PROVE  LedgerInv'
  <1>1. /\ stage = "idle" /\ endedOn[r] = NoDay
        /\ endedOn' = [endedOn EXCEPT ![r] = today]
        /\ UNCHANGED <<today, seen, stage, left, ledgerDisk>> /\ todo' = todo
        BY DEF CompleteRequest
  <1>2. /\ endedOn' \in [Facts -> Days \cup {NoDay}] /\ endedOn'[r] = today
        /\ \A x \in Facts : endedOn[x] # NoDay => endedOn'[x] = endedOn[x]
        /\ \A x \in Facts : endedOn'[x] <= seen
        /\ today \in Days /\ today <= seen
        BY <1>1 DEF LedgerInv, LedgerTypes, NothingIsAhead
  <1>3. Concluded \subseteq Concluded' /\ r \in Concluded'
        BY <1>1, <1>2, StoreAssumption DEF Concluded, Days, NoDay
  <1>4. queued \in Seq(Concluded') /\ todo' = <<>> /\ todo' \in Seq(Concluded')
        BY <1>1, <1>3 DEF LedgerInv, WaitingHaveEnded
  <1>5. Len(queued) <= QueueLimit
        BY <1>1, <1>4 DEF LedgerInv, LedgerTypes
  <1>6. CASE Applied(r, today) /\ queued' = queued
    <2>1. Len(queued') + Len(todo') <= QueueLimit
          BY <1>4, <1>5, <1>6
    <2> QED BY <1>1, <1>2, <1>4, <1>6, <2>1, AppliedKeepsLedger
  <1>7. CASE NotApplied(r)
    <2>1. queued' = IF Len(queued) < QueueLimit THEN Append(queued, r) ELSE queued
          BY <1>7 DEF NotApplied
    <2>2. queued' \in Seq(Concluded') /\ Len(queued') <= QueueLimit
          BY <1>3, <1>4, <1>5, <2>1, StoreAssumption
    <2>3. Len(queued') + Len(todo') <= QueueLimit
          BY <1>4, <2>2
    <2> QED BY <1>1, <1>2, <1>4, <1>7, <2>2, <2>3, NotAppliedKeepsLedger
  <1> QED BY <1>6, <1>7 DEF CompleteRequest

\* A flush looks at what waits: it is counted on the day it ended, or waits on.
LEMMA DrainKeepsLedger ==
    ASSUME LedgerInv, Drain
    PROVE  LedgerInv'
  <1>1. /\ stage = "drain" /\ todo # <<>> /\ todo' = Tail(todo)
        /\ endedOn' = endedOn /\ UNCHANGED <<today, seen, stage, left, ledgerDisk>>
        BY DEF Drain
  <1>2. /\ endedOn' \in [Facts -> Days \cup {NoDay}]
        /\ \A x \in Facts : endedOn[x] # NoDay => endedOn'[x] = endedOn[x]
        /\ \A x \in Facts : endedOn'[x] <= seen
        BY <1>1 DEF LedgerInv, LedgerTypes, NothingIsAhead
  <1>3. Concluded' = Concluded
        BY <1>1 DEF Concluded
  <1>4. /\ queued \in Seq(Concluded') /\ todo \in Seq(Concluded') /\ todo' \in Seq(Concluded')
        /\ Len(todo') = Len(todo) - 1 /\ Head(todo) \in Concluded
        BY <1>1, <1>3 DEF LedgerInv, WaitingHaveEnded
  <1>5. PICK r \in Facts : /\ r = Head(todo) /\ r \in Concluded /\ endedOn[r] \in Days
                          /\ endedOn[r] <= seen
        BY <1>4 DEF Concluded, LedgerInv, LedgerTypes, NothingIsAhead
  <1>6. PICK d \in Days : d = endedOn[r]
        BY <1>5
  <1>7. Len(queued) + Len(todo) <= QueueLimit /\ Len(queued) \in Nat /\ Len(todo) \in Nat
        BY <1>4 DEF LedgerInv, LedgerTypes
  <1>8. \/ Applied(r, d) /\ queued' = queued
        \/ NotApplied(r)
        BY <1>5, <1>6 DEF Drain
  <1>9. CASE Applied(r, d) /\ queued' = queued
    <2>0. Len(queued') = Len(queued)
          BY <1>9
    <2>1. Len(queued') + Len(todo') <= QueueLimit
          BY <1>4, <1>7, <2>0, StoreAssumption
    <2>2. endedOn'[r] = d /\ d <= seen
          BY <1>1, <1>5, <1>6
    <2> QED BY <1>1, <1>2, <1>4, <1>9, <2>1, <2>2, AppliedKeepsLedger
  <1>10. CASE NotApplied(r)
    <2>1. queued' = IF Len(queued) < QueueLimit THEN Append(queued, r) ELSE queued
          BY <1>10 DEF NotApplied
    <2>2. queued' \in Seq(Concluded') /\ Len(queued') <= Len(queued) + 1 /\ Len(queued') \in Nat
          BY <1>3, <1>4, <1>5, <2>1
    <2>3. Len(queued') + Len(todo') <= QueueLimit
          BY <1>4, <1>7, <2>2, StoreAssumption
    <2> QED BY <1>1, <1>2, <1>4, <1>10, <2>2, <2>3, NotAppliedKeepsLedger
  <1> QED BY <1>8, <1>9, <1>10

\* Only a shard that is in its file leaves memory.
LEMMA EvictKeepsLedger ==
    ASSUME LedgerInv, NEW d \in Days, Evict(d)
    PROVE  LedgerInv'
  <1>1. /\ stage = "idle" /\ d \in cached \ dirtyDays /\ cached' = cached \ {d}
        /\ UNCHANGED <<today, seen, endedOn, days, dirtyDays, lifetime, dirtyLifetime, queued,
                       trusted, pendingRetention, timer, stage, left, todo>>
        /\ UNCHANGED <<diskDays, diskShards, diskLifetime, pruned>>
        BY DEF Evict, ledgerDisk
  <1>2. Concluded' = Concluded /\ Cutoff(seen)' = Cutoff(seen)
        BY <1>1 DEF Concluded, Cutoff
  <1>11. LedgerTypes'
        BY <1>1 DEF LedgerInv, LedgerTypes
  <1>12. WaitingHaveEnded'
        BY <1>1, <1>2 DEF LedgerInv, WaitingHaveEnded
  <1>13. NothingIsAhead'
        BY <1>1, <1>2 DEF LedgerInv, NothingIsAhead
  <1>14. ShardsKeepTheirDay'
        BY <1>1, <1>2 DEF LedgerInv, ShardsKeepTheirDay
  <1>15. CountedAreHeld'
    <2>1. days[d] = diskDays[d] \/ days[d] \subseteq pruned
          BY <1>1 DEF LedgerInv, CleanAtEveryStage
    <2> QED BY <1>1, <1>2, <2>1 DEF LedgerInv, CountedAreHeld, LoadedDay
  <1>16. FlushIsOnItsWay'
        BY <1>1 DEF FlushIsOnItsWay
  <1>17. CleanAtEveryStage'
        BY <1>1 DEF LedgerInv, CleanAtEveryStage
  <1>18. DirtyIsScheduled'
        BY <1>1 DEF LedgerInv, DirtyIsScheduled
  <1> QED BY <1>11, <1>12, <1>13, <1>14, <1>15, <1>16, <1>17, <1>18 DEF LedgerInv

\* A step that leaves every record alone and only moves the flush on.
OnlyTheFlushMoves ==
    /\ UNCHANGED <<today, seen, endedOn, days, cached, dirtyDays, lifetime, dirtyLifetime>>
    /\ UNCHANGED <<diskDays, diskShards, diskLifetime, pruned>>

\* Moving the flush on keeps what is said of the records.
LEMMA FlushStepsKeepRecords ==
    ASSUME LedgerInv, OnlyTheFlushMoves
    PROVE  /\ Concluded' = Concluded /\ Cutoff(seen)' = Cutoff(seen)
           /\ ShardsKeepTheirDay' /\ CountedAreHeld'
           /\ \A d \in cached' \ dirtyDays' : days'[d] = diskDays'[d] \/ days'[d] \subseteq pruned'
           /\ dirtyLifetime' = "no" => lifetime'.counted = diskLifetime'.counted
  <1>1. Concluded' = Concluded /\ Cutoff(seen)' = Cutoff(seen)
        BY DEF OnlyTheFlushMoves, Concluded, Cutoff
  <1>2. ShardsKeepTheirDay'
        BY <1>1 DEF LedgerInv, OnlyTheFlushMoves, ShardsKeepTheirDay
  <1>3. CountedAreHeld'
        BY <1>1 DEF LedgerInv, OnlyTheFlushMoves, CountedAreHeld, LoadedDay
  <1> QED BY <1>1, <1>2, <1>3 DEF LedgerInv, OnlyTheFlushMoves, CleanAtEveryStage

\* A flush starts with what waits.
LEMMA FlushKeepsLedger ==
    ASSUME LedgerInv, FlushLedger
    PROVE  LedgerInv'
  <1>1. /\ stage = "idle" /\ stage' = "drain" /\ timer' = "none"
        /\ todo' = queued /\ queued' = <<>>
        /\ UNCHANGED <<trusted, pendingRetention, left>> /\ OnlyTheFlushMoves
        BY DEF FlushLedger, ledgerDisk, OnlyTheFlushMoves
  <1>2. todo = <<>>
        BY <1>1 DEF LedgerInv, WaitingHaveEnded
  <1>3. LedgerTypes'
    <2>1. Len(queued) + Len(todo) <= QueueLimit
          BY DEF LedgerInv, LedgerTypes
    <2>2. Len(queued') + Len(todo') = Len(queued) + Len(todo)
          BY <1>1, <1>2 DEF LedgerInv, WaitingHaveEnded
    <2> QED BY <1>1, <2>1, <2>2 DEF LedgerInv, LedgerTypes, OnlyTheFlushMoves
  <1>4. WaitingHaveEnded'
        BY <1>1, FlushStepsKeepRecords DEF LedgerInv, WaitingHaveEnded
  <1>5. NothingIsAhead'
        BY <1>1, FlushStepsKeepRecords DEF LedgerInv, NothingIsAhead, OnlyTheFlushMoves
  <1>6. FlushIsOnItsWay' /\ DirtyIsScheduled'
        BY <1>1 DEF FlushIsOnItsWay, DirtyIsScheduled
  <1>7. CleanAtEveryStage'
        BY <1>1, FlushStepsKeepRecords DEF CleanAtEveryStage
  <1> QED BY <1>1, <1>3, <1>4, <1>5, <1>6, <1>7, FlushStepsKeepRecords DEF LedgerInv

\* A flush that stops is retried.
LEMMA FailKeepsLedger ==
    ASSUME LedgerInv, Fail, OnlyTheFlushMoves, todo = <<>>,
           UNCHANGED <<queued, todo, trusted, pendingRetention>>
    PROVE  LedgerInv'
  <1>1. stage' = "idle" /\ left' = {} /\ timer' = "retry"
        BY DEF Fail
  <1>2. LedgerTypes'
        BY <1>1 DEF LedgerInv, LedgerTypes, OnlyTheFlushMoves
  <1>3. WaitingHaveEnded'
        BY <1>1, FlushStepsKeepRecords DEF LedgerInv, WaitingHaveEnded
  <1>4. NothingIsAhead'
        BY FlushStepsKeepRecords DEF LedgerInv, NothingIsAhead, OnlyTheFlushMoves
  <1>5. FlushIsOnItsWay' /\ DirtyIsScheduled'
        BY <1>1 DEF FlushIsOnItsWay, DirtyIsScheduled
  <1>6. CleanAtEveryStage'
        BY <1>1, FlushStepsKeepRecords DEF CleanAtEveryStage
  <1> QED BY <1>2, <1>3, <1>4, <1>5, <1>6, FlushStepsKeepRecords DEF LedgerInv

\* Once the queue has been looked at, the facts are written, or the flush fails.
LEMMA DrainedKeepsLedger ==
    ASSUME LedgerInv, Drained
    PROVE  LedgerInv'
  <1>1. /\ stage = "drain" /\ todo = <<>> /\ OnlyTheFlushMoves
        /\ UNCHANGED <<queued, todo, trusted, pendingRetention>>
        BY DEF Drained, ledgerDisk, OnlyTheFlushMoves
  <1>2. CASE Fail
        BY <1>1, <1>2, FailKeepsLedger
  <1>3. CASE /\ stage' = "facts" /\ timer' = timer
             /\ left' = dirtyDays \cup (IF dirtyLifetime = "yes" THEN {Lifetime} ELSE {})
    <2>1. left' \subseteq dirtyDays \cup {Lifetime} /\ dirtyDays \subseteq left'
          BY <1>3
    <2>2. dirtyLifetime = "yes" => Lifetime \in left'
          BY <1>3
    <2>3. LedgerTypes'
          BY <1>1, <1>3, <2>1 DEF LedgerInv, LedgerTypes, OnlyTheFlushMoves
    <2>4. WaitingHaveEnded'
          BY <1>1, FlushStepsKeepRecords DEF LedgerInv, WaitingHaveEnded
    <2>5. NothingIsAhead'
          BY <1>1, FlushStepsKeepRecords DEF LedgerInv, NothingIsAhead, OnlyTheFlushMoves
    <2>6. FlushIsOnItsWay' /\ DirtyIsScheduled'
          BY <1>1, <1>3, <2>1 DEF FlushIsOnItsWay, DirtyIsScheduled, OnlyTheFlushMoves
    <2>7. dirtyLifetime \in {"yes", "no"} /\ Lifetime' = Lifetime /\ dirtyLifetime' = dirtyLifetime
          BY <1>1 DEF LedgerInv, LedgerTypes, Lifetime, OnlyTheFlushMoves
    <2>8. CleanAtEveryStage'
          BY <2>2, <2>7, FlushStepsKeepRecords, <1>1 DEF CleanAtEveryStage
    <2> QED BY <1>1, <2>3, <2>4, <2>5, <2>6, <2>8, FlushStepsKeepRecords DEF LedgerInv
  <1> QED BY <1>2, <1>3 DEF Drained

\* Retention is planned over facts that are durable.
LEMMA PlanKeepsLedger ==
    ASSUME LedgerInv, Plan
    PROVE  LedgerInv'
  <1>1. /\ stage = "plan" /\ stage' = "retention" /\ left' = Candidates \cup {Lifetime}
        /\ OnlyTheFlushMoves /\ UNCHANGED <<queued, todo, trusted, pendingRetention, timer>>
        BY DEF Plan, ledgerDisk, ledgerMemory, OnlyTheFlushMoves
  <1>2. Candidates' = Candidates /\ Candidates \subseteq Days
        BY <1>1, PlanStays, CandidatesHaveExpired DEF OnlyTheFlushMoves
  <1>3. LedgerTypes'
        BY <1>1, <1>2 DEF LedgerInv, LedgerTypes, OnlyTheFlushMoves
  <1>4. WaitingHaveEnded'
        BY <1>1, FlushStepsKeepRecords DEF LedgerInv, WaitingHaveEnded
  <1>5. NothingIsAhead'
        BY <1>1, FlushStepsKeepRecords DEF LedgerInv, NothingIsAhead, OnlyTheFlushMoves
  <1>6. dirtyDays' = {} /\ dirtyLifetime' = "no"
        BY <1>1 DEF LedgerInv, FlushIsOnItsWay, OnlyTheFlushMoves
  <1>7. FlushIsOnItsWay' /\ DirtyIsScheduled'
        BY <1>1, <1>2, <1>6 DEF FlushIsOnItsWay, DirtyIsScheduled, Lifetime
  <1>8. CleanAtEveryStage'
        BY <1>1, <1>6, FlushStepsKeepRecords DEF CleanAtEveryStage
  <1> QED BY <1>1, <1>3, <1>4, <1>5, <1>7, <1>8, FlushStepsKeepRecords DEF LedgerInv

\* One write of a flush: the totals only after every shard they count.
LEMMA WriteKeepsLedger ==
    ASSUME LedgerInv, WriteFact
    PROVE  LedgerInv'
  <1>1. /\ stage = "facts" /\ left # {} /\ todo = <<>>
        /\ UNCHANGED <<today, seen, endedOn, days, cached, dirtyDays, lifetime, dirtyLifetime, queued,
                       trusted, pendingRetention, todo>>
        BY DEF WriteFact, LedgerInv, WaitingHaveEnded
  <1>2. /\ left \subseteq Days \cup {Lifetime} /\ left \in SUBSET Nat
        /\ left \subseteq dirtyDays \cup {Lifetime} /\ dirtyDays \subseteq Days
        /\ dirtyDays \subseteq cached
        BY <1>1, StoreAssumption DEF LedgerInv, LedgerTypes, FlushIsOnItsWay, Days, Lifetime
  <1>3. PICK file : file = FactOrder(left) /\ file \in left /\ \A m \in left : file <= m
        BY <1>1, <1>2, MinIsLeast DEF FactOrder
  <1>4. Concluded' = Concluded /\ Cutoff(seen)' = Cutoff(seen)
        BY <1>1 DEF Concluded, Cutoff
  <1>5. CASE Fail /\ UNCHANGED ledgerDisk
        BY <1>1, <1>5, FailKeepsLedger DEF ledgerDisk, OnlyTheFlushMoves
  <1>6. CASE /\ left' = left \ {file} /\ UNCHANGED <<stage, timer>> /\ file = Lifetime
             /\ diskLifetime' = lifetime /\ UNCHANGED <<diskDays, diskShards, pruned>>
    <2>1. dirtyDays \cap left = {}
          BY <1>2, <1>3, <1>6, StoreAssumption DEF Days, Lifetime
    <2>2. \A d \in cached : days[d] = diskDays[d] \/ days[d] \subseteq pruned
          BY <1>1, <2>1 DEF LedgerInv, FlushIsOnItsWay, CleanAtEveryStage
    <2>3. LedgerTypes'
          BY <1>1, <1>6 DEF LedgerInv, LedgerTypes
    <2>4. WaitingHaveEnded' /\ NothingIsAhead' /\ ShardsKeepTheirDay'
          BY <1>1, <1>4, <1>6 DEF LedgerInv, WaitingHaveEnded, NothingIsAhead, ShardsKeepTheirDay
    <2>5. CountedAreHeld'
      <3>1. \A x \in lifetime.counted : x \in Concluded /\ endedOn[x] \in Days
            BY DEF LedgerInv, CountedAreHeld, Concluded, LedgerTypes
      <3>2. \A x \in lifetime.counted : x \in diskDays[endedOn[x]] \cup pruned
            BY <2>2 DEF LedgerInv, CountedAreHeld, LoadedDay
      <3> QED BY <1>1, <1>4, <1>6, <3>1, <3>2 DEF LedgerInv, CountedAreHeld, LoadedDay
    <2>6. FlushIsOnItsWay' /\ DirtyIsScheduled'
          BY <1>1, <1>2, <1>6, <2>1 DEF LedgerInv, FlushIsOnItsWay, DirtyIsScheduled, Lifetime
    <2>7. CleanAtEveryStage'
          BY <1>1, <1>6 DEF LedgerInv, CleanAtEveryStage, Lifetime
    <2> QED BY <2>3, <2>4, <2>5, <2>6, <2>7 DEF LedgerInv
  <1>7. CASE /\ left' = left \ {file} /\ UNCHANGED <<stage, timer>> /\ file # Lifetime
             /\ diskDays' = [diskDays EXCEPT ![file] = days[file]]
             /\ diskShards' = diskShards \cup {file}
             /\ UNCHANGED <<diskLifetime, pruned>>
    <2>1. /\ file \in Days /\ file \in dirtyDays /\ file \in cached
          /\ diskDays[file] \subseteq days[file]
          BY <1>2, <1>3, <1>7 DEF LedgerInv, ShardsKeepTheirDay
    <2>2. /\ diskDays' \in [Days -> SUBSET Facts] /\ diskDays'[file] = days[file]
          /\ \A d \in Days : d # file => diskDays'[d] = diskDays[d]
          BY <1>7, <2>1 DEF LedgerInv, LedgerTypes
    <2>3. \A d \in Days : diskDays[d] \subseteq diskDays'[d]
          BY <2>1, <2>2
    <2>4. LedgerTypes'
          BY <1>1, <1>7, <2>1, <2>2 DEF LedgerInv, LedgerTypes
    <2>5. WaitingHaveEnded' /\ NothingIsAhead'
          BY <1>1, <1>4, <1>7 DEF LedgerInv, WaitingHaveEnded, NothingIsAhead
    <2>6. ShardsKeepTheirDay'
      <3>1. \A d \in Days : \A r \in diskDays'[d] : endedOn[r] = d
            BY <2>1, <2>2 DEF LedgerInv, ShardsKeepTheirDay
      <3>2. \A d \in cached : d \in Days /\ diskDays'[d] \subseteq days[d]
            BY <2>1, <2>2 DEF LedgerInv, ShardsKeepTheirDay, LedgerTypes
      <3> QED BY <1>1, <1>4, <1>7, <3>1, <3>2 DEF LedgerInv, ShardsKeepTheirDay
    <2>7. CountedAreHeld'
      <3>1. \A x \in lifetime.counted \cup diskLifetime.counted : x \in Concluded /\ endedOn[x] \in Days
            BY DEF LedgerInv, CountedAreHeld, Concluded, LedgerTypes
      <3>2. \A x \in diskLifetime.counted : x \in diskDays'[endedOn[x]] \cup pruned
            BY <2>3, <3>1 DEF LedgerInv, CountedAreHeld
      <3>3. \A x \in lifetime.counted :
               x \in (IF endedOn[x] \in cached THEN days[endedOn[x]]
                     ELSE diskDays'[endedOn[x]]) \cup pruned
            BY <2>3, <3>1 DEF LedgerInv, CountedAreHeld, LoadedDay
      <3> QED BY <1>1, <1>4, <1>7, <3>1, <3>2, <3>3 DEF CountedAreHeld, LoadedDay
    <2>8. FlushIsOnItsWay' /\ DirtyIsScheduled'
      <3>1. \A d \in dirtyDays \ left' : days[d] = diskDays'[d]
            BY <1>1, <1>2, <1>7, <2>2 DEF LedgerInv, FlushIsOnItsWay
      <3> QED BY <1>1, <1>2, <1>7, <3>1 DEF LedgerInv, FlushIsOnItsWay, DirtyIsScheduled, Lifetime
    <2>9. CleanAtEveryStage'
      <3>1. \A d \in cached \ dirtyDays : d \in Days /\ diskDays'[d] = diskDays[d]
            BY <2>1, <2>2 DEF LedgerInv, LedgerTypes
      <3>2. (Lifetime \notin left') <=> (Lifetime \notin left)
            BY <1>7
      <3> QED BY <1>1, <1>7, <3>1, <3>2 DEF LedgerInv, CleanAtEveryStage, Lifetime
    <2> QED BY <2>4, <2>5, <2>6, <2>7, <2>8, <2>9 DEF LedgerInv
  <1> QED BY <1>3, <1>5, <1>6, <1>7 DEF WriteFact

\* The newest day just written that the clock has reached is not ahead of it.
LEMMA AdvancedIsReached ==
    ASSUME LedgerInv, Advanced # NoDay
    PROVE  Advanced \in Days /\ Advanced <= seen
  <1> DEFINE committed == {d \in dirtyDays : d <= today}
  <1>1. committed # {} /\ Advanced = Max(committed)
        BY DEF Advanced
  <1>2. committed \in SUBSET Days
        BY DEF LedgerInv, LedgerTypes
  <1>3. Max(committed) \in committed
        BY <1>1, <1>2, LastDay
  <1> QED BY <1>1, <1>2, <1>3 DEF LedgerInv, LedgerTypes, NothingIsAhead, Days

\* Once the facts are durable nothing is dirty, and retention asks for no more
\* than the clock allows.
LEMMA CommittedKeepsLedger ==
    ASSUME LedgerInv, Committed
    PROVE  LedgerInv'
  <1> DEFINE recovered == IF trusted # NoDay /\ trusted <= today
                          THEN Queued(Cutoff(trusted)) ELSE pendingRetention
             pending == IF Advanced # NoDay /\ NeedsWork(Cutoff(Advanced))
                        THEN Later(recovered, Cutoff(Advanced)) ELSE recovered
  <1>1. /\ stage = "facts" /\ left = {} /\ dirtyDays' = {} /\ dirtyLifetime' = "no"
        /\ UNCHANGED <<today, seen, endedOn, days, cached, lifetime, queued, timer, left, todo>>
        /\ UNCHANGED <<diskDays, diskShards, diskLifetime, pruned>>
        BY DEF Committed, ledgerDisk
  <1>2. Concluded' = Concluded /\ Cutoff(seen)' = Cutoff(seen)
        BY <1>1 DEF Concluded, Cutoff
  <1>3. Cutoff(seen) \in Days
        BY CutoffIsADay DEF LedgerInv, LedgerTypes
  <1>4. recovered \in 0 .. MaxDay /\ recovered <= Cutoff(seen)
    <2>1. CASE trusted # NoDay /\ trusted <= today
      <3>1. trusted \in Days /\ seen \in Days
            BY <2>1, StoreAssumption DEF LedgerInv, LedgerTypes, NoDay, Days
      <3>2. Cutoff(trusted) \in Days /\ Cutoff(trusted) <= Cutoff(seen)
            BY <3>1, CutoffIsADay, CutoffGrows DEF LedgerInv, NothingIsAhead
      <3> QED BY <1>3, <2>1, <3>2, StoreAssumption
              DEF Queued, Later, LedgerInv, LedgerTypes, NothingIsAhead, Days
    <2>2. CASE ~(trusted # NoDay /\ trusted <= today)
          BY <2>2 DEF LedgerInv, LedgerTypes, NothingIsAhead
    <2> QED BY <2>1, <2>2
  <1>5. pending \in 0 .. MaxDay /\ pending <= Cutoff(seen)
    <2>1. CASE Advanced # NoDay /\ NeedsWork(Cutoff(Advanced))
      <3>1. Cutoff(Advanced) \in Days /\ Cutoff(Advanced) <= Cutoff(seen)
            BY <2>1, AdvancedIsReached, CutoffIsADay, CutoffGrows DEF LedgerInv, LedgerTypes
      <3> HIDE DEF recovered
      <3> QED BY <1>3, <1>4, <2>1, <3>1, StoreAssumption DEF Later, Days
    <2>2. CASE ~(Advanced # NoDay /\ NeedsWork(Cutoff(Advanced)))
          BY <1>4, <2>2
    <2> QED BY <2>1, <2>2
  <1>6. pendingRetention' \in {NoDay, pending} /\ stage' \in {"idle", "plan"}
        BY DEF Committed
  <1>7. pendingRetention' \in 0 .. MaxDay /\ pendingRetention' <= Cutoff(seen)
    <2> HIDE DEF pending
    <2> QED BY <1>3, <1>5, <1>6, StoreAssumption DEF NoDay, Days
  <1>8. trusted' \in 0 .. MaxDay /\ trusted' <= seen
    <2>1. CASE Advanced # NoDay
      <3>1. trusted' = Advanced
            BY <2>1 DEF Committed
      <3> QED BY <2>1, <3>1, AdvancedIsReached, StoreAssumption DEF Days
    <2>2. CASE Advanced = NoDay
      <3>1. trusted' = trusted
            BY <2>2 DEF Committed
      <3> QED BY <3>1 DEF LedgerInv, LedgerTypes, NothingIsAhead
    <2> QED BY <2>1, <2>2
  <1> HIDE DEF recovered, pending
  <1>11. LedgerTypes'
        BY <1>1, <1>6, <1>7, <1>8 DEF LedgerInv, LedgerTypes
  <1>12. WaitingHaveEnded' /\ NothingIsAhead' /\ ShardsKeepTheirDay'
        BY <1>1, <1>2, <1>7, <1>8 DEF LedgerInv, WaitingHaveEnded, NothingIsAhead, ShardsKeepTheirDay
  <1>13. CountedAreHeld'
        BY <1>1, <1>2 DEF LedgerInv, CountedAreHeld, LoadedDay
  <1>14. FlushIsOnItsWay' /\ DirtyIsScheduled'
        BY <1>1, <1>6 DEF FlushIsOnItsWay, DirtyIsScheduled
  <1>15. CleanAtEveryStage'
    <2>1. \A d \in cached : days[d] = diskDays[d] \/ days[d] \subseteq pruned
          BY <1>1 DEF LedgerInv, FlushIsOnItsWay, CleanAtEveryStage
    <2>2. lifetime.counted = diskLifetime.counted
          BY <1>1 DEF LedgerInv, CleanAtEveryStage
    <2> QED BY <1>1, <2>1, <2>2 DEF CleanAtEveryStage
  <1> QED BY <1>11, <1>12, <1>13, <1>14, <1>15 DEF LedgerInv

\* One step of retention: the cursor first, then the expired shards, which are
\* in their files and before the window.
LEMMA RetainKeepsLedger ==
    ASSUME LedgerInv, Retain
    PROVE  LedgerInv'
  <1>1. /\ stage = "retention" /\ left # {} /\ todo = <<>>
        /\ UNCHANGED <<today, seen, endedOn, days, cached, dirtyDays, lifetime, dirtyLifetime, queued,
                       trusted, pendingRetention, todo>>
        BY DEF Retain, LedgerInv, WaitingHaveEnded
  <1>2. /\ Concluded' = Concluded /\ Cutoff(seen)' = Cutoff(seen) /\ Candidates' = Candidates
        /\ Lifetime' = Lifetime
        BY <1>1, PlanStays DEF Concluded, Cutoff, Lifetime
  <1>3. /\ left \subseteq Candidates \cup {Lifetime} /\ Candidates \subseteq Days
        /\ dirtyDays = {} /\ dirtyLifetime = "no" /\ left \in SUBSET Nat
        BY <1>1, CandidatesHaveExpired, StoreAssumption DEF LedgerInv, FlushIsOnItsWay, Days, Lifetime
  <1>4. PICK file : /\ file = (IF Lifetime \in left THEN Lifetime ELSE Min(left))
                    /\ file \in left
                    /\ file = Lifetime \/ file \in Candidates
        BY <1>1, <1>3, MinIsLeast
  <1>5. CASE Fail /\ UNCHANGED ledgerDisk
        BY <1>1, <1>5, FailKeepsLedger DEF ledgerDisk, OnlyTheFlushMoves
  <1>6. CASE /\ left' = left \ {file} /\ UNCHANGED <<stage, timer>> /\ file = Lifetime
             /\ diskLifetime' = [lifetime EXCEPT !.from = NextFrom]
             /\ UNCHANGED <<diskDays, diskShards, pruned>>
    <2>1. /\ diskLifetime' \in Totals /\ diskLifetime'.counted = lifetime.counted
          /\ diskLifetime'.last = lifetime.last
          BY <1>6, CursorIsADay DEF LedgerInv, LedgerTypes, Totals
    <2>2. lifetime.counted = diskLifetime.counted
          BY <1>3 DEF LedgerInv, CleanAtEveryStage
    <2>3. LedgerTypes'
          BY <1>1, <1>6, <2>1 DEF LedgerInv, LedgerTypes
    <2>4. WaitingHaveEnded' /\ NothingIsAhead' /\ ShardsKeepTheirDay'
          BY <1>1, <1>2, <1>6, <2>1 DEF LedgerInv, WaitingHaveEnded, NothingIsAhead, ShardsKeepTheirDay
    <2>5. CountedAreHeld'
          BY <1>1, <1>2, <1>6, <2>1, <2>2 DEF LedgerInv, CountedAreHeld, LoadedDay
    <2>6. FlushIsOnItsWay' /\ DirtyIsScheduled'
      <3>1. \A d \in (Candidates \cap cached) \ left' : d \notin left
            BY <1>3, <1>6, StoreAssumption DEF Days, Lifetime
      <3> QED BY <1>1, <1>2, <1>6, <3>1 DEF LedgerInv, FlushIsOnItsWay, DirtyIsScheduled
    <2>7. CleanAtEveryStage'
          BY <1>1, <1>6, <2>1 DEF LedgerInv, CleanAtEveryStage
    <2> QED BY <2>3, <2>4, <2>5, <2>6, <2>7 DEF LedgerInv
  <1>7. CASE /\ left' = left \ {file} /\ UNCHANGED <<stage, timer>> /\ file # Lifetime
             /\ diskDays' = [diskDays EXCEPT ![file] = {}]
             /\ diskShards' = diskShards \ {file}
             /\ pruned' = pruned \cup diskDays[file]
             /\ UNCHANGED diskLifetime
    <2>1. file \in Candidates /\ file \in Days /\ file < pendingRetention
          BY <1>4, <1>7, CandidatesHaveExpired
    <2>2. /\ diskDays' \in [Days -> SUBSET Facts] /\ diskDays'[file] = {}
          /\ \A d \in Days : d # file => diskDays'[d] = diskDays[d]
          BY <1>7, <2>1 DEF LedgerInv, LedgerTypes
    <2>3. \A r \in diskDays[file] : r \in Concluded /\ endedOn[r] < Cutoff(seen)
      <3>1. file < Cutoff(seen)
        <4>1. Cutoff(seen) \in Days /\ pendingRetention \in 0 .. MaxDay
              BY CutoffIsADay DEF LedgerInv, LedgerTypes
        <4> QED BY <2>1, <4>1, StoreAssumption DEF LedgerInv, NothingIsAhead, Days
      <3>2. \A r \in diskDays[file] : r \in Facts /\ endedOn[r] = file
            BY <2>1 DEF LedgerInv, LedgerTypes, ShardsKeepTheirDay
      <3> QED BY <2>1, <3>1, <3>2, StoreAssumption DEF Concluded, NoDay, Days
    <2>4. LedgerTypes'
          BY <1>1, <1>7, <2>2 DEF LedgerInv, LedgerTypes
    <2>5. WaitingHaveEnded' /\ NothingIsAhead'
          BY <1>1, <1>2, <1>7 DEF LedgerInv, WaitingHaveEnded, NothingIsAhead
    <2>6. ShardsKeepTheirDay'
      <3>1. \A d \in Days : diskDays'[d] \subseteq diskDays[d]
            BY <2>1, <2>2
      <3>2. \A d \in cached : d \in Days
            BY DEF LedgerInv, LedgerTypes
      <3>3. \A d \in Days : \A r \in diskDays'[d] : endedOn[r] = d
            BY <3>1 DEF LedgerInv, ShardsKeepTheirDay
      <3>4. \A d \in cached : diskDays'[d] \subseteq days[d]
            BY <3>1, <3>2 DEF LedgerInv, ShardsKeepTheirDay
      <3>5. pruned' \subseteq Concluded /\ \A r \in pruned' : endedOn[r] < Cutoff(seen)
            BY <1>7, <2>3 DEF LedgerInv, ShardsKeepTheirDay
      <3> QED BY <1>1, <1>2, <3>3, <3>4, <3>5 DEF LedgerInv, ShardsKeepTheirDay
    <2>7. CountedAreHeld'
      <3>1. \A x \in lifetime.counted \cup diskLifetime.counted : x \in Concluded /\ endedOn[x] \in Days
            BY DEF LedgerInv, CountedAreHeld, Concluded, LedgerTypes
      <3>2. \A d \in Days : diskDays[d] \subseteq diskDays'[d] \cup pruned'
            BY <1>7, <2>1, <2>2
      <3>3. \A x \in diskLifetime.counted : x \in diskDays'[endedOn[x]] \cup pruned'
            BY <1>7, <3>1, <3>2 DEF LedgerInv, CountedAreHeld
      <3>4. \A x \in lifetime.counted :
               x \in (IF endedOn[x] \in cached THEN days[endedOn[x]]
                     ELSE diskDays'[endedOn[x]]) \cup pruned'
            BY <1>7, <3>1, <3>2 DEF LedgerInv, CountedAreHeld, LoadedDay
      <3> QED BY <1>1, <1>2, <1>7, <3>1, <3>3, <3>4 DEF CountedAreHeld, LoadedDay
    <2>8. \A d \in cached : (days[d] = diskDays[d] \/ days[d] \subseteq pruned)
                            => (days[d] = diskDays'[d] \/ days[d] \subseteq pruned')
          BY <1>7, <2>1, <2>2 DEF LedgerInv, LedgerTypes
    <2>9. FlushIsOnItsWay' /\ DirtyIsScheduled'
      <3>1. \A d \in (Candidates \cap cached) \ left' : days[d] \subseteq pruned'
        <4>1. file \in cached => days[file] \subseteq pruned'
              BY <1>3, <1>7 DEF LedgerInv, CleanAtEveryStage
        <4>2. \A d \in (Candidates \cap cached) \ left' : d = file \/ d \notin left
              BY <1>7
        <4>3. \A d \in (Candidates \cap cached) \ left : days[d] \subseteq pruned'
              BY <1>1, <1>7 DEF LedgerInv, FlushIsOnItsWay
        <4> QED BY <4>1, <4>2, <4>3
      <3> QED BY <1>1, <1>2, <1>3, <1>7, <3>1 DEF FlushIsOnItsWay, DirtyIsScheduled
    <2>10. CleanAtEveryStage'
          BY <1>1, <1>3, <1>7, <2>8 DEF LedgerInv, CleanAtEveryStage
    <2> QED BY <2>4, <2>5, <2>6, <2>7, <2>9, <2>10 DEF LedgerInv
  <1> QED BY <1>4, <1>5, <1>6, <1>7 DEF Retain

\* The plan is applied: memory forgets the shards that were unlinked.
LEMMA RetainedKeepsLedger ==
    ASSUME LedgerInv, Retained
    PROVE  LedgerInv'
  <1>1. /\ stage = "retention" /\ left = {} /\ stage' = "idle"
        /\ lifetime' = [lifetime EXCEPT !.from = NextFrom]
        /\ cached' = cached \ Candidates
        /\ days' = [d \in Days |-> IF d \in Candidates THEN {} ELSE days[d]]
        /\ pendingRetention' \in {pendingRetention, NoDay} /\ timer' \in {timer, "retry"}
        /\ UNCHANGED <<today, seen, endedOn, dirtyDays, dirtyLifetime, queued, trusted, left, todo>>
        /\ UNCHANGED <<diskDays, diskShards, diskLifetime, pruned>>
        BY DEF Retained, ledgerDisk
  <1>2. Concluded' = Concluded /\ Cutoff(seen)' = Cutoff(seen)
        BY <1>1 DEF Concluded, Cutoff
  <1>3. /\ lifetime' \in Totals /\ lifetime'.counted = lifetime.counted
        /\ lifetime'.last = lifetime.last
        BY <1>1, CursorIsADay DEF LedgerInv, LedgerTypes, Totals
  <1>4. /\ dirtyDays = {} /\ dirtyLifetime = "no" /\ lifetime.counted = diskLifetime.counted
        /\ \A d \in Candidates \cap cached : days[d] \subseteq pruned
        BY <1>1 DEF LedgerInv, FlushIsOnItsWay, CleanAtEveryStage
  <1>5. \A d \in cached' : d \in cached /\ d \in Days /\ days'[d] = days[d]
        BY <1>1 DEF LedgerInv, LedgerTypes
  <1>6. pendingRetention' \in 0 .. MaxDay /\ pendingRetention' <= Cutoff(seen)
    <2>1. Cutoff(seen) \in Days
          BY CutoffIsADay DEF LedgerInv, LedgerTypes
    <2> QED BY <1>1, <2>1, StoreAssumption DEF LedgerInv, LedgerTypes, NothingIsAhead, NoDay, Days
  <1>11. LedgerTypes'
    <2>1. days' \in [Days -> SUBSET Facts]
          BY <1>1 DEF LedgerInv, LedgerTypes
    <2> QED BY <1>1, <1>3, <1>4, <1>6, <2>1 DEF LedgerInv, LedgerTypes
  <1>12. WaitingHaveEnded' /\ NothingIsAhead'
        BY <1>1, <1>2, <1>3, <1>6 DEF LedgerInv, WaitingHaveEnded, NothingIsAhead
  <1>13. ShardsKeepTheirDay'
        BY <1>1, <1>2, <1>5 DEF LedgerInv, ShardsKeepTheirDay
  <1>14. CountedAreHeld'
    <2>1. \A x \in lifetime.counted : x \in Concluded /\ endedOn[x] \in Days
          BY DEF LedgerInv, CountedAreHeld, Concluded, LedgerTypes
    <2>2. \A x \in lifetime.counted :
             x \in (IF endedOn[x] \in cached' THEN days'[endedOn[x]]
                   ELSE diskDays[endedOn[x]]) \cup pruned
          BY <1>1, <1>4, <1>5, <2>1 DEF LedgerInv, CountedAreHeld, LoadedDay
    <2> QED BY <1>1, <1>2, <1>3, <2>1, <2>2 DEF LedgerInv, CountedAreHeld, LoadedDay
  <1>15. FlushIsOnItsWay' /\ DirtyIsScheduled'
        BY <1>1, <1>4 DEF FlushIsOnItsWay, DirtyIsScheduled
  <1>16. CleanAtEveryStage'
        BY <1>1, <1>3, <1>4, <1>5 DEF LedgerInv, CleanAtEveryStage
  <1> QED BY <1>11, <1>12, <1>13, <1>14, <1>15, <1>16 DEF LedgerInv

\* A process that starts again knows what the files say.
LEMMA CrashKeepsLedger ==
    ASSUME LedgerInv, CrashLedger
    PROVE  LedgerInv'
  <1>1. /\ stage' = "idle" /\ left' = {} /\ todo' = <<>> /\ queued' = <<>>
        /\ lifetime' = diskLifetime /\ dirtyLifetime' = "no" /\ dirtyDays' = {}
        /\ cached' = {today} /\ trusted' = diskLifetime.last /\ timer' = "none"
        /\ days' = [d \in Days |-> IF d = today THEN diskDays[d] ELSE {}]
        /\ UNCHANGED <<today, seen, endedOn>>
        /\ UNCHANGED <<diskDays, diskShards, diskLifetime, pruned>>
        BY DEF CrashLedger, ledgerDisk
  <1>2. Concluded' = Concluded /\ Cutoff(seen)' = Cutoff(seen)
        BY <1>1 DEF Concluded, Cutoff
  <1>3. /\ today \in Days /\ seen \in Days /\ days'[today] = diskDays[today]
        /\ days' \in [Days -> SUBSET Facts]
        BY <1>1 DEF LedgerInv, LedgerTypes
  <1>4. pendingRetention' \in 0 .. MaxDay /\ pendingRetention' <= Cutoff(seen)
    <2>1. Cutoff(seen) \in Days
          BY <1>3, CutoffIsADay
    <2>2. CASE diskLifetime.last # NoDay /\ diskLifetime.last <= today
      <3>1. diskLifetime.last \in Days /\ diskLifetime.last <= seen
            BY <2>2, StoreAssumption DEF LedgerInv, LedgerTypes, NothingIsAhead, Totals, NoDay, Days
      <3>2. /\ Cutoff(diskLifetime.last) \in Days
            /\ Cutoff(diskLifetime.last) <= Cutoff(seen)
            BY <1>3, <3>1, CutoffIsADay, CutoffGrows
      <3>3. pendingRetention' \in {Cutoff(diskLifetime.last), NoDay}
            BY DEF CrashLedger
      <3> QED BY <2>1, <3>2, <3>3, StoreAssumption DEF Days, NoDay
    <2>3. CASE ~(diskLifetime.last # NoDay /\ diskLifetime.last <= today)
      <3>1. pendingRetention' = NoDay
            BY <2>3 DEF CrashLedger
      <3> QED BY <2>1, <3>1, StoreAssumption DEF Days, NoDay
    <2> QED BY <2>2, <2>3
  <1>5. trusted' \in 0 .. MaxDay /\ trusted' <= seen
        BY <1>1 DEF LedgerInv, LedgerTypes, NothingIsAhead, Totals
  <1>11. LedgerTypes'
        BY <1>1, <1>3, <1>4, <1>5, StoreAssumption DEF LedgerInv, LedgerTypes
  <1>12. WaitingHaveEnded' /\ NothingIsAhead'
        BY <1>1, <1>2, <1>4, <1>5 DEF LedgerInv, WaitingHaveEnded, NothingIsAhead
  <1>13. ShardsKeepTheirDay'
        BY <1>1, <1>2, <1>3 DEF LedgerInv, ShardsKeepTheirDay
  <1>14. CountedAreHeld'
    <2>1. \A x \in diskLifetime.counted : x \in Concluded /\ endedOn[x] \in Days
          BY DEF LedgerInv, CountedAreHeld, Concluded, LedgerTypes
    <2> QED BY <1>1, <1>2, <1>3, <2>1 DEF LedgerInv, CountedAreHeld, LoadedDay
  <1>15. FlushIsOnItsWay' /\ DirtyIsScheduled'
        BY <1>1 DEF FlushIsOnItsWay, DirtyIsScheduled
  <1>16. CleanAtEveryStage'
        BY <1>1, <1>3 DEF CleanAtEveryStage
  <1> QED BY <1>11, <1>12, <1>13, <1>14, <1>15, <1>16 DEF LedgerInv

\* The clock only moves the window on.
LEMMA ClockKeepsLedger ==
    ASSUME LedgerInv, NEW d \in Days, SetClock(d)
    PROVE  LedgerInv'
  <1>1. /\ today' = d /\ seen' = Later(seen, d) /\ UNCHANGED endedOn
        /\ UNCHANGED <<days, cached, dirtyDays, lifetime, dirtyLifetime, queued, trusted,
                       pendingRetention, timer>>
        /\ UNCHANGED <<stage, left, todo>> /\ UNCHANGED <<diskDays, diskShards, diskLifetime, pruned>>
        BY DEF SetClock, ledgerMemory, ledgerDisk
  <1>2. /\ seen \in Days /\ seen' \in Days /\ seen <= seen' /\ today' \in Days /\ today' <= seen'
        BY <1>1, StoreAssumption DEF LedgerInv, LedgerTypes, Later, Days
  <1>3. Cutoff(seen) \in Days /\ Cutoff(seen') \in Days /\ Cutoff(seen) <= Cutoff(seen')
        BY <1>2, CutoffIsADay, CutoffGrows
  <1>4. Concluded' = Concluded /\ (stage = "retention" => Candidates' = Candidates)
        BY <1>1, PlanStays DEF Concluded
  <1>5. PICK cut \in Days : cut = Cutoff(seen')
        BY <1>3
  <1>11. LedgerTypes'
        BY <1>1, <1>2 DEF LedgerInv, LedgerTypes
  <1>12. WaitingHaveEnded' /\ CountedAreHeld'
        BY <1>1, <1>4 DEF LedgerInv, WaitingHaveEnded, CountedAreHeld, LoadedDay
  <1>13. /\ trusted <= seen' /\ lifetime.last <= seen' /\ diskLifetime.last <= seen'
         /\ \A r \in Facts : endedOn[r] <= seen'
    <2>1. /\ trusted \in Nat /\ lifetime.last \in Nat /\ diskLifetime.last \in Nat
          /\ \A r \in Facts : endedOn[r] \in Nat
          BY StoreAssumption DEF LedgerInv, LedgerTypes, Totals, Days, NoDay
    <2> QED BY <1>2, <2>1, StoreAssumption DEF LedgerInv, NothingIsAhead, Days
  <1>14. pendingRetention <= cut /\ \A r \in pruned : endedOn[r] < cut
    <2>1. pendingRetention \in Nat /\ \A r \in pruned : endedOn[r] \in Nat
          BY StoreAssumption DEF LedgerInv, LedgerTypes, ShardsKeepTheirDay, Concluded, Days, NoDay
    <2> QED BY <1>3, <1>5, <2>1, StoreAssumption DEF LedgerInv, NothingIsAhead, ShardsKeepTheirDay, Days
  <1>15. Cutoff(seen)' = cut
        BY <1>5 DEF Cutoff
  <1>16. NothingIsAhead'
        BY <1>1, <1>2, <1>13, <1>14, <1>15 DEF NothingIsAhead
  <1>17. ShardsKeepTheirDay'
        BY <1>1, <1>4, <1>14, <1>15 DEF LedgerInv, ShardsKeepTheirDay
  <1>18. FlushIsOnItsWay' /\ DirtyIsScheduled' /\ CleanAtEveryStage'
        BY <1>1, <1>4 DEF LedgerInv, FlushIsOnItsWay, DirtyIsScheduled, CleanAtEveryStage
  <1> QED BY <1>11, <1>12, <1>16, <1>17, <1>18 DEF LedgerInv

\* Every step of the ledger keeps the invariant.
LEMMA LedgerStepsKeepInv ==
    ASSUME LedgerInv, [LedgerNext]_ledgerVars
    PROVE  LedgerInv'
  <1>1. CASE UNCHANGED ledgerVars
    <2>1. /\ OnlyTheFlushMoves
          /\ UNCHANGED <<queued, trusted, pendingRetention, timer, stage, left, todo>>
          BY <1>1 DEF ledgerVars, OnlyTheFlushMoves
    <2>2. Candidates' = Candidates /\ Lifetime' = Lifetime
          BY <2>1, PlanStays DEF OnlyTheFlushMoves, Lifetime
    <2> QED BY <2>1, <2>2, FlushStepsKeepRecords
            DEF LedgerInv, LedgerTypes, WaitingHaveEnded, NothingIsAhead, FlushIsOnItsWay,
                CleanAtEveryStage, DirtyIsScheduled, OnlyTheFlushMoves
  <1>2. CASE LedgerNext
        BY <1>2, CompleteKeepsLedger, EvictKeepsLedger, FlushKeepsLedger, DrainKeepsLedger,
           DrainedKeepsLedger, WriteKeepsLedger, CommittedKeepsLedger, PlanKeepsLedger,
           RetainKeepsLedger, RetainedKeepsLedger, CrashKeepsLedger, ClockKeepsLedger, Zenon
        DEF LedgerNext
  <1> QED BY <1>1, <1>2

\* What the ledger has acknowledged stays: the totals on disk are never ahead of
\* the shards, what is dirty has a flush to come, what is clean is in its file,
\* and retention takes nothing from the window.
THEOREM LedgerKeepsItsFacts == LedgerSpec => []StoreKeepsTheWindow
  <1>1. LedgerInv => StoreKeepsTheWindow
    <2> SUFFICES ASSUME LedgerInv PROVE StoreKeepsTheWindow
        OBVIOUS
    <2>1. TotalsNeverAhead
          BY DEF LedgerInv, CountedAreHeld, TotalsNeverAhead
    <2>2. CleanIsDurable
          BY DEF LedgerInv, CleanAtEveryStage, CleanIsDurable
    <2>3. RetentionKeepsTheWindow
          BY DEF LedgerInv, ShardsKeepTheirDay, RetentionKeepsTheWindow
    <2> QED BY <2>1, <2>2, <2>3 DEF LedgerInv, StoreKeepsTheWindow, FactsAreKept
  <1>2. LedgerSpec => []LedgerInv
        BY LedgerStartsSound, LedgerStepsKeepInv, PTL DEF LedgerSpec
  <1> QED BY <1>1, <1>2, PTL

-----------------------------------------------------------------------------
(***************************************************************************)
(* The keystore.                                                           *)
(***************************************************************************)

\* What a file, a memo or a command holds of a store: its rows open with its
\* key, and a row of the configured slot has a name that is looked for.
RowStates == {"live", "disabled", "revoked", "expired"} \cup RestoredStates
KeyRows == [kek : Nat, env : EnvNames \cup {None}, value : Nat, state : RowStates]
StoreContents == [kind : {"absent", "garbage", "store"}, item : Nat, dropped : Nat,
                  rows : UNION {[ids -> KeyRows] : ids \in SUBSET KeyIds}]
IsCandidate(env) == \E i \in DOMAIN KeyCandidates : KeyCandidates[i] = env

Sealed(content) ==
    /\ content \in StoreContents
    /\ \A id \in DOMAIN content.rows : content.rows[id].kek = content.item
    /\ SlotId \in DOMAIN content.rows => IsCandidate(content.rows[SlotId].env)
    /\ content.kind # "store" => DOMAIN content.rows = {} /\ content.dropped = 0

\* The memo of a process: the file as it is, or an older one.
Remembers(m, file) ==
    /\ m \in [token : Int, content : StoreContents, at : Nat]
    /\ Sealed(m.content)
    /\ m.token <= file.token
    /\ m.token = file.token => m.content = file.content

\* What a rotation has proved of the store: its row is the one that wins, or
\* would if it were not revoked.
RotationProved(content, id) ==
    /\ LoadStatus(content) = "ok" /\ id \in DOMAIN content.rows /\ id = SlotId
    /\ content.rows[id].state \notin {"disabled", "expired"}
    /\ Winner(content) = IF content.rows[id].state = "revoked" THEN None ELSE id

\* A store that differs from another in one row at most.
OthersKept(content, new, id) ==
    \A x \in DOMAIN content.rows \ {id} :
       x \in DOMAIN new.rows /\ new.rows[x] = content.rows[x]

KeyOps == RowOps \cup {"none", "lookup", "add", "restore"}
KeyCommands == [op : KeyOps, id : KeyIds \cup {None}, env : EnvNames \cup {None}, n : Nat,
                state : RowStates, pc : {"idle", "stat", "load", "apply", "write"},
                token : Nat, base : StoreContents, proof : BOOLEAN, seen : Nat]

\* A command nobody has overlapped works on the file as it is.
CommandIsSound(c, file) ==
    /\ c \in KeyCommands
    /\ Sealed(c.base)
    /\ c.seen <= c.token /\ c.token <= file.token
    /\ c.op \in {"add", "restore"} => c.id \in KeyIds /\ (c.id = SlotId => IsCandidate(c.env))
    /\ c.seen = file.token =>
          /\ c.pc = "apply" => c.base = file.content
          /\ c.pc = "write" => OthersKept(file.content, c.base, c.id)
          /\ (c.op = "rotate" /\ c.proof /\ c.pc \in {"stat", "load", "apply"})
                => RotationProved(file.content, c.id)
          /\ (c.op = "rotate" /\ c.pc = "write") => Winner(c.base) = c.id

FileIsSound == keyFile \in [token : Nat, content : StoreContents] /\ Sealed(keyFile.content)

KeyInv ==
    /\ clock \in Nat /\ begun \in Nat
    /\ FileIsSound
    /\ DOMAIN memo = KeyProcs /\ memo = [p \in KeyProcs |-> memo[p]]
    /\ \A p \in KeyProcs : Remembers(memo[p], keyFile)
    /\ DOMAIN cmd = KeyProcs /\ cmd = [p \in KeyProcs |-> cmd[p]]
    /\ \A p \in KeyProcs : CommandIsSound(cmd[p], keyFile)

\* A content without rows is sealed.
LEMMA RowlessIsSealed ==
    ASSUME NEW kind \in {"absent", "garbage", "store"}, NEW item \in Nat
    PROVE  Sealed([kind |-> kind, item |-> item, rows |-> << >>, dropped |-> 0])
  <1> DEFINE content == [kind |-> kind, item |-> item, rows |-> << >>, dropped |-> 0]
  <1>1. << >> \in [{} -> KeyRows] /\ DOMAIN << >> = {}
        OBVIOUS
  <1>2. [{} -> KeyRows] \in {[ids -> KeyRows] : ids \in SUBSET KeyIds}
        OBVIOUS
  <1>3. << >> \in UNION {[ids -> KeyRows] : ids \in SUBSET KeyIds}
        BY <1>1, <1>2
  <1>4. content \in StoreContents /\ DOMAIN content.rows = {} /\ SlotId \notin DOMAIN content.rows
        BY <1>1, <1>3 DEF StoreContents
  <1> QED BY <1>4 DEF Sealed

\* A sealed store has no row that does not open.
LEMMA SealedOpens ==
    ASSUME NEW content, Sealed(content)
    PROVE  Unopenable(content) = {}
  BY DEF Sealed, Unopenable

\* The rows of a sealed content.
LEMMA SealedRows ==
    ASSUME NEW content, Sealed(content)
    PROVE  /\ content.item \in Nat /\ content.dropped \in Nat
           /\ content.kind \in {"absent", "garbage", "store"}
           /\ DOMAIN content.rows \subseteq KeyIds
           /\ content.rows \in [DOMAIN content.rows -> KeyRows]
  <1>1. /\ content.item \in Nat /\ content.dropped \in Nat
        /\ content.kind \in {"absent", "garbage", "store"}
        /\ content.rows \in UNION {[ids -> KeyRows] : ids \in SUBSET KeyIds}
        BY DEF Sealed, StoreContents
  <1>2. PICK ids \in SUBSET KeyIds : content.rows \in [ids -> KeyRows]
        BY <1>1
  <1> QED BY <1>1, <1>2

\* A store that takes a row sealed with its key.
LEMMA WithRowIsSealed ==
    ASSUME NEW store, Sealed(store), store.kind = "store",
           NEW id \in KeyIds, NEW row \in KeyRows, row.kek = store.item,
           id = SlotId => IsCandidate(row.env)
    PROVE  LET new == WithRow(store, id, row)
           IN /\ Sealed(new) /\ OthersKept(store, new, id)
              /\ new.kind = store.kind /\ new.item = store.item /\ new.dropped = store.dropped
              /\ DOMAIN new.rows = DOMAIN store.rows \cup {id} /\ new.rows[id] = row
              /\ \A x \in DOMAIN store.rows : x # id => new.rows[x] = store.rows[x]
  <1> DEFINE new == WithRow(store, id, row)
             rows == [x \in DOMAIN store.rows \cup {id} |-> IF x = id THEN row ELSE store.rows[x]]
  <1>1. rows \in [DOMAIN store.rows \cup {id} -> KeyRows] /\ DOMAIN store.rows \cup {id} \subseteq KeyIds
        BY SealedRows
  <1>2. /\ DOMAIN rows = DOMAIN store.rows \cup {id} /\ rows[id] = row
        /\ \A x \in DOMAIN store.rows : x # id => rows[x] = store.rows[x]
        OBVIOUS
  <1>3. [DOMAIN store.rows \cup {id} -> KeyRows] \in {[ids -> KeyRows] : ids \in SUBSET KeyIds}
        BY <1>1
  <1>4. rows \in UNION {[ids -> KeyRows] : ids \in SUBSET KeyIds}
        BY <1>1, <1>3
  <1>5. new = [store EXCEPT !.rows = rows]
        BY DEF WithRow
  <1> HIDE DEF rows, new
  <1>6. /\ new \in StoreContents /\ new.rows = rows
        /\ new.kind = store.kind /\ new.item = store.item /\ new.dropped = store.dropped
        BY <1>4, <1>5 DEF Sealed, StoreContents
  <1>7. Sealed(new)
    <2>1. \A x \in DOMAIN new.rows : new.rows[x].kek = new.item
          BY <1>2, <1>6 DEF Sealed
    <2>2. SlotId \in DOMAIN new.rows => IsCandidate(new.rows[SlotId].env)
          BY <1>2, <1>6 DEF Sealed
    <2> QED BY <1>6, <2>1, <2>2 DEF Sealed
  <1>8. OthersKept(store, new, id)
        BY <1>2, <1>6 DEF OthersKept
  <1> QED BY <1>2, <1>6, <1>7, <1>8 DEF new

\* A store that loses a row.
LEMMA WithoutRowIsSealed ==
    ASSUME NEW store, Sealed(store), NEW id
    PROVE  Sealed(WithoutRow(store, id)) /\ OthersKept(store, WithoutRow(store, id), id)
  <1> DEFINE new == WithoutRow(store, id)
             rows == [x \in DOMAIN store.rows \ {id} |-> store.rows[x]]
  <1>1. rows \in [DOMAIN store.rows \ {id} -> KeyRows] /\ DOMAIN store.rows \ {id} \subseteq KeyIds
        BY SealedRows
  <1>2. /\ DOMAIN rows = DOMAIN store.rows \ {id}
        /\ \A x \in DOMAIN rows : rows[x] = store.rows[x]
        OBVIOUS
  <1>3. [DOMAIN store.rows \ {id} -> KeyRows] \in {[ids -> KeyRows] : ids \in SUBSET KeyIds}
        BY <1>1
  <1>4. rows \in UNION {[ids -> KeyRows] : ids \in SUBSET KeyIds}
        BY <1>1, <1>3
  <1>5. new = [store EXCEPT !.rows = rows]
        BY DEF WithoutRow
  <1> HIDE DEF rows, new
  <1>6. /\ new \in StoreContents /\ new.rows = rows
        /\ new.kind = store.kind /\ new.item = store.item /\ new.dropped = store.dropped
        BY <1>4, <1>5 DEF Sealed, StoreContents
  <1>7. Sealed(new)
        BY <1>2, <1>6 DEF Sealed
  <1>8. OthersKept(store, new, id)
        BY <1>2, <1>6 DEF OthersKept
  <1> QED BY <1>7, <1>8 DEF new

\* An unlock yields the key of the store, or none.
LEMMA KekIsTheStores ==
    ASSUME NEW p, NEW store, NEW ring
    PROVE  RecoverKek(p, store, ring) \in {0, store.item}
  BY DEF RecoverKek

\* The ids of what a command adds are of declared slots.
LEMMA TargetsAreSlots ==
    ASSUME NEW t \in AddTargets \cup ImportTargets
    PROVE  t.id \in KeyIds /\ t.env \in EnvNames \cup {None}
  <1>1. ASSUME NEW v \in DOMAIN KeyProviders, NEW label, NEW env \in EnvNames \cup {None},
               t \in SelectAddTarget(v, label, env)
        PROVE  t.id \in KeyIds /\ t.env \in EnvNames \cup {None}
    <2>1. PICK s \in KeyProviders[v].slots :
             t = [id |-> s.id, env |-> IF KeyProviders[v].legacy /\ env # None THEN env ELSE s.env]
          BY <1>1 DEF SelectAddTarget
    <2>2. s \in Slots
          BY <2>1 DEF Slots
    <2> QED BY <2>1, <2>2 DEF KeyIds, EnvNames
  <1>2. ASSUME NEW n \in EnvNames, NEW m \in MatchImportName(n)
        PROVE  m[1] \in DOMAIN KeyProviders /\ m[2] \in EnvNames
    <2>1. \A v \in DOMAIN KeyProviders, s \in Slots : s.env \in EnvNames
          BY DEF EnvNames
    <2>2. \/ m \in {<<v, s.env>> : v \in DOMAIN KeyProviders, s \in Slots}
          \/ \E v \in DOMAIN KeyProviders :
                m \in {<<w, s.env>> : w \in DOMAIN KeyProviders, s \in Slots}
          BY DEF MatchImportName, Slots
    <2> QED BY <2>1, <2>2
  <1> QED BY <1>1, <1>2 DEF AddTargets, ImportTargets

-----------------------------------------------------------------------------
(* Which row wins. *)

\* The rows that answer to a name, and the names that are answered.
AnswersTo(content, name) ==
    {id \in DOMAIN content.rows : /\ content.rows[id].env = name
                                  /\ Usable(content.rows[id])
                                  /\ content.rows[id].kek = content.item}
NamesAnswered(content) == {i \in DOMAIN KeyCandidates : AnswersTo(content, KeyCandidates[i]) # {}}
FirstOf(indexes) == CHOOSE i \in indexes : \A j \in indexes : i <= j

\* The winner, in these terms.
LEMMA WinnerAnswersFirst ==
    ASSUME NEW content, LoadStatus(content) = "ok"
    PROVE  Winner(content) =
             IF NamesAnswered(content) = {} THEN None
             ELSE CHOOSE id \in AnswersTo(content, KeyCandidates[FirstOf(NamesAnswered(content))]) : TRUE
  BY DEF Winner, AnswersTo, NamesAnswered, FirstOf

\* The first of the names that are answered is one of them.
LEMMA FirstIsAnswered ==
    ASSUME NEW content, NamesAnswered(content) # {}
    PROVE  FirstOf(NamesAnswered(content)) \in NamesAnswered(content)
  <1>1. NamesAnswered(content) \in SUBSET Nat
        BY KeystoreAssumption DEF NamesAnswered
  <1>2. PICK n \in NamesAnswered(content) : \A m \in NamesAnswered(content) : n <= m
        BY <1>1, LeastNatural
  <1> QED BY <1>2 DEF FirstOf

\* A rotation that was proved on a store wins in what it writes of that store.
LEMMA RotationWins ==
    ASSUME NEW store, Sealed(store), NEW id, RotationProved(store, id), NEW value \in Nat
    PROVE  LET row == store.rows[id]
               sealed == [row EXCEPT !.kek = store.item, !.value = value,
                                     !.state = IF @ = "revoked" THEN "live" ELSE @]
           IN Winner(WithRow(store, id, sealed)) = id
  <1>1. PICK row : row = store.rows[id]
        OBVIOUS
  <1>2. /\ id \in KeyIds /\ id \in DOMAIN store.rows /\ row \in KeyRows /\ store.item \in Nat
        /\ row.kek = store.item /\ id = SlotId /\ IsCandidate(row.env)
        /\ row.state \notin {"disabled", "expired"} /\ LoadStatus(store) = "ok"
        /\ Winner(store) = IF row.state = "revoked" THEN None ELSE id
        BY <1>1, SealedRows DEF RotationProved, Sealed
  <1>3. PICK sealed : sealed = [row EXCEPT !.kek = store.item, !.value = value,
                                           !.state = IF @ = "revoked" THEN "live" ELSE @]
        OBVIOUS
  <1>4. /\ sealed \in KeyRows /\ sealed.kek = store.item /\ sealed.env = row.env
        /\ sealed.state = IF row.state = "revoked" THEN "live" ELSE row.state
        BY <1>2, <1>3 DEF KeyRows, RowStates
  <1>5. store.kind = "store" /\ store.dropped = 0
        BY <1>2, SealedRows DEF LoadStatus
  <1>6. PICK new : new = WithRow(store, id, sealed)
        OBVIOUS
  <1>7. /\ new.kind = store.kind /\ new.item = store.item /\ new.dropped = store.dropped
        /\ DOMAIN new.rows = DOMAIN store.rows /\ new.rows[id] = sealed
        /\ \A x \in DOMAIN store.rows : x # id => new.rows[x] = store.rows[x]
    <2>1. store.kind = "store"
          BY <1>5
    <2>2. id = SlotId => IsCandidate(sealed.env)
          BY <1>2, <1>4
    <2>3. DOMAIN store.rows \cup {id} = DOMAIN store.rows
          BY <1>2
    <2>4. id \in KeyIds /\ sealed \in KeyRows /\ sealed.kek = store.item
          BY <1>2, <1>4
    <2>5. /\ Sealed(new) /\ OthersKept(store, new, id)
          /\ new.kind = store.kind /\ new.item = store.item /\ new.dropped = store.dropped
          /\ DOMAIN new.rows = DOMAIN store.rows \cup {id} /\ new.rows[id] = sealed
          /\ \A x \in DOMAIN store.rows : x # id => new.rows[x] = store.rows[x]
      <3>1. /\ Sealed(WithRow(store, id, sealed)) /\ OthersKept(store, WithRow(store, id, sealed), id)
            /\ WithRow(store, id, sealed).kind = store.kind
            /\ WithRow(store, id, sealed).item = store.item
            /\ WithRow(store, id, sealed).dropped = store.dropped
            /\ DOMAIN WithRow(store, id, sealed).rows = DOMAIN store.rows \cup {id}
            /\ WithRow(store, id, sealed).rows[id] = sealed
            /\ \A x \in DOMAIN store.rows : x # id => WithRow(store, id, sealed).rows[x] = store.rows[x]
            BY <2>1, <2>2, <2>4, WithRowIsSealed
      <3> QED BY <1>6, <3>1
    <2> QED BY <2>3, <2>5
  <1>8. LoadStatus(new) = "ok"
        BY <1>5, <1>7 DEF LoadStatus
  <1>9. CASE row.state # "revoked"
    <2>1. \A x \in DOMAIN store.rows :
             /\ new.rows[x].env = store.rows[x].env /\ new.rows[x].kek = store.rows[x].kek
             /\ Usable(new.rows[x]) = Usable(store.rows[x])
          BY <1>1, <1>2, <1>4, <1>7, <1>9 DEF Usable
    <2>2. ASSUME NEW name PROVE AnswersTo(new, name) = AnswersTo(store, name)
          BY <1>7, <2>1 DEF AnswersTo
    <2>3. NamesAnswered(new) = NamesAnswered(store)
          BY <2>2 DEF NamesAnswered
    <2>4. Winner(new) = Winner(store)
          BY <1>2, <1>8, <2>2, <2>3, WinnerAnswersFirst
    <2> QED BY <1>1, <1>2, <1>3, <1>6, <1>9, <2>4
  <1>10. CASE row.state = "revoked"
    <2>1. NamesAnswered(store) = {}
      <3> SUFFICES ASSUME NamesAnswered(store) # {} PROVE FALSE
          OBVIOUS
      <3>1. PICK i : i = FirstOf(NamesAnswered(store)) /\ i \in NamesAnswered(store)
            BY FirstIsAnswered
      <3>2. Winner(store) = CHOOSE x \in AnswersTo(store, KeyCandidates[i]) : TRUE
            BY <1>2, <3>1, WinnerAnswersFirst
      <3>3. Winner(store) \in AnswersTo(store, KeyCandidates[i])
            BY <3>1, <3>2 DEF NamesAnswered
      <3>4. Winner(store) \in KeyIds
            BY <3>3, SealedRows DEF AnswersTo
      <3> QED BY <1>2, <1>10, <3>4, KeystoreAssumption
    <2>2. \A i \in DOMAIN KeyCandidates : AnswersTo(store, KeyCandidates[i]) = {}
          BY <2>1 DEF NamesAnswered
    <2>3. \A x \in DOMAIN store.rows : \A i \in DOMAIN KeyCandidates :
             ~(store.rows[x].env = KeyCandidates[i] /\ Usable(store.rows[x]) /\ store.rows[x].kek = store.item)
          BY <2>2 DEF AnswersTo
    <2>4. \A i \in DOMAIN KeyCandidates : AnswersTo(new, KeyCandidates[i]) \subseteq {id}
          BY <1>7, <2>3 DEF AnswersTo
    <2>5. NamesAnswered(new) # {}
      <3>1. PICK i \in DOMAIN KeyCandidates : KeyCandidates[i] = row.env
            BY <1>2 DEF IsCandidate
      <3>2. id \in AnswersTo(new, KeyCandidates[i])
            BY <1>2, <1>4, <1>7, <1>10, <3>1 DEF AnswersTo, Usable
      <3> QED BY <3>1, <3>2 DEF NamesAnswered
    <2>6. PICK i : i = FirstOf(NamesAnswered(new)) /\ i \in NamesAnswered(new)
          BY <2>5, FirstIsAnswered
    <2>7. AnswersTo(new, KeyCandidates[i]) = {id}
          BY <2>4, <2>6 DEF NamesAnswered
    <2>8. Winner(new) = CHOOSE x \in AnswersTo(new, KeyCandidates[i]) : TRUE
          BY <1>8, <2>5, <2>6, WinnerAnswersFirst
    <2>9. Winner(new) = id
          BY <2>7, <2>8
    <2> QED BY <1>1, <1>3, <1>6, <2>9
  <1> QED BY <1>9, <1>10

-----------------------------------------------------------------------------
(* What every step does to what the commands know. *)

\* No command is sound.
LEMMA NoCommandIsSound ==
    ASSUME FileIsSound
    PROVE  CommandIsSound(NoCommand, keyFile)
  <1>1. Sealed(Absent) /\ Absent \in StoreContents
        BY RowlessIsSealed DEF Absent, Sealed
  <1>2. NoCommand \in KeyCommands
        BY <1>1 DEF NoCommand, KeyCommands, KeyOps, RowStates
  <1> QED BY <1>1, <1>2 DEF NoCommand, CommandIsSound, FileIsSound

\* What a process has stays sound when another content is put in the file.
LEMMA NewFilesOverlap ==
    ASSUME NEW file, NEW next, file.token \in Nat, next.token = file.token + 1
    PROVE  /\ \A c : CommandIsSound(c, file) => CommandIsSound(c, next)
           /\ \A m : Remembers(m, file) => Remembers(m, next)
  <1>1. ASSUME NEW c, CommandIsSound(c, file)
        PROVE  CommandIsSound(c, next)
    <2>1. c.seen \in Nat /\ c.token \in Nat
          BY <1>1 DEF CommandIsSound, KeyCommands
    <2>2. c.seen # next.token /\ c.token <= next.token
          BY <1>1, <2>1 DEF CommandIsSound
    <2> QED BY <1>1, <2>2 DEF CommandIsSound
  <1>2. ASSUME NEW m, Remembers(m, file)
        PROVE  Remembers(m, next)
    <2>1. m.token \in Int
          BY <1>2 DEF Remembers
    <2>2. m.token # next.token /\ m.token <= next.token
          BY <1>2, <2>1 DEF Remembers
    <2> QED BY <1>2, <2>2 DEF Remembers
  <1> QED BY <1>1, <1>2

\* A step of one process that leaves the file alone.
LEMMA OneCommandMoves ==
    ASSUME KeyInv, NEW p \in KeyProcs, NEW c, CommandIsSound(c, keyFile),
           cmd' = [cmd EXCEPT ![p] = c], begun' \in Nat, UNCHANGED <<clock, keyFile, memo>>
    PROVE  KeyInv'
  <1>1. /\ DOMAIN cmd' = KeyProcs /\ cmd' = [q \in KeyProcs |-> cmd'[q]]
        /\ \A q \in KeyProcs : cmd'[q] = IF q = p THEN c ELSE cmd[q]
        BY DEF KeyInv
  <1>2. \A q \in KeyProcs : CommandIsSound(cmd'[q], keyFile)
        BY <1>1 DEF KeyInv
  <1> QED BY <1>1, <1>2 DEF KeyInv, FileIsSound

\* A command begins with the file as it is.
LEMMA BeginKeepsKeys ==
    ASSUME KeyInv, NEW p \in KeyProcs, NEW op \in KeyOps, NEW id \in KeyIds \cup {None},
           NEW env \in EnvNames \cup {None}, NEW state \in RowStates,
           op \in {"add", "restore"} => id \in KeyIds /\ (id = SlotId => IsCandidate(env)),
           Begin(p, op, id, env, state)
    PROVE  KeyInv'
  <1>1. PICK c : c = [op |-> op, id |-> id, env |-> env, n |-> begun + 1, state |-> state,
                      pc |-> "load", token |-> keyFile.token, base |-> Absent,
                      proof |-> op # "rotate", seen |-> keyFile.token]
        OBVIOUS
  <1>2. Sealed(Absent) /\ Absent \in StoreContents
        BY RowlessIsSealed DEF Absent, Sealed
  <1>3. begun + 1 \in Nat /\ keyFile.token \in Nat
        BY DEF KeyInv, FileIsSound
  <1>4. /\ c \in KeyCommands /\ c.op = op /\ c.id = id /\ c.env = env /\ c.pc = "load"
        /\ c.token = keyFile.token /\ c.seen = keyFile.token /\ c.base = Absent
        BY <1>1, <1>2, <1>3 DEF KeyCommands
  <1>5. op = "rotate" => ~c.proof
        BY <1>1
  <1>7. CommandIsSound(c, keyFile)
        BY <1>2, <1>3, <1>4, <1>5 DEF CommandIsSound
  <1>6. cmd' = [cmd EXCEPT ![p] = c] /\ begun' \in Nat /\ UNCHANGED <<clock, keyFile, memo>>
        BY <1>1, <1>3 DEF Begin
  <1> QED BY <1>6, <1>7, OneCommandMoves

\* A command that ends leaves nothing behind.
LEMMA FinishKeepsKeys ==
    ASSUME KeyInv, NEW p \in KeyProcs, Finish(p), UNCHANGED <<clock, keyFile, memo, begun>>
    PROVE  KeyInv'
  <1>1. CommandIsSound(NoCommand, keyFile)
        BY NoCommandIsSound DEF KeyInv
  <1>2. begun' \in Nat
        BY DEF KeyInv
  <1> QED BY <1>1, <1>2, OneCommandMoves DEF Finish

\* A rotation looks at the file again once it has its new secret.
LEMMA ObserveKeepsKeys ==
    ASSUME KeyInv, NEW p \in KeyProcs, Observe(p)
    PROVE  KeyInv'
  <1>1. PICK d : d = cmd[p]
        OBVIOUS
  <1>2. d \in KeyCommands /\ CommandIsSound(d, keyFile) /\ d.pc = "stat" /\ keyFile.token \in Nat
        BY <1>1 DEF Observe, KeyInv, CommandIsSound, FileIsSound
  <1>3. PICK c : c = [d EXCEPT !.pc = "load", !.token = keyFile.token]
        OBVIOUS
  <1>4. /\ c \in KeyCommands /\ c.pc = "load" /\ c.token = keyFile.token /\ c.op = d.op
        /\ c.id = d.id /\ c.env = d.env /\ c.base = d.base /\ c.proof = d.proof /\ c.seen = d.seen
        BY <1>2, <1>3 DEF KeyCommands
  <1>5. d.seen <= keyFile.token
    <2>1. d.seen \in Nat /\ d.token \in Nat
          BY <1>2 DEF KeyCommands
    <2> QED BY <1>2, <2>1 DEF CommandIsSound
  <1>6. CommandIsSound(c, keyFile)
        BY <1>2, <1>4, <1>5 DEF CommandIsSound
  <1>7. cmd' = [cmd EXCEPT ![p] = c] /\ begun' \in Nat /\ UNCHANGED <<clock, keyFile, memo>>
    <2>1. cmd' = [cmd EXCEPT ![p].pc = "load", ![p].token = keyFile.token]
          BY DEF Observe
    <2>2. cmd' = [cmd EXCEPT ![p] = c]
          BY <1>1, <1>3, <2>1 DEF KeyInv
    <2> QED BY <2>2 DEF Observe, KeyInv
  <1> QED BY <1>6, <1>7, OneCommandMoves

\* A load at the token of the file is the file.
LEMMA LoadKeepsKeys ==
    ASSUME KeyInv, NEW p \in KeyProcs, Load(p)
    PROVE  KeyInv'
  <1>1. PICK d : d = cmd[p]
        OBVIOUS
  <1>2. /\ d \in KeyCommands /\ CommandIsSound(d, keyFile) /\ d.pc = "load" /\ keyFile.token \in Nat
        /\ d.token \in Nat /\ d.seen \in Nat /\ Sealed(keyFile.content)
        /\ keyFile.content \in StoreContents
        BY <1>1 DEF Load, KeyInv, CommandIsSound, KeyCommands, FileIsSound
  <1>3. PICK m : m = Loaded(p, d.token)
        OBVIOUS
  <1>4. Remembers(m, keyFile) /\ (d.token = keyFile.token => m.content = keyFile.content)
    <2>1. CASE m = memo[p] /\ memo[p].token = d.token
          BY <2>1 DEF KeyInv, Remembers
    <2>2. CASE m = [token |-> d.token, content |-> keyFile.content, at |-> clock]
      <3>1. /\ m \in [token : Int, content : StoreContents, at : Nat]
            /\ m.token = d.token /\ m.content = keyFile.content
            BY <1>2, <2>2 DEF KeyInv
      <3> QED BY <1>2, <3>1 DEF Remembers, CommandIsSound
    <2> QED BY <1>3, <2>1, <2>2 DEF Loaded
  <1>5. PICK c : c = [d EXCEPT !.pc = "apply", !.base = m.content]
        OBVIOUS
  <1>6. m.content \in StoreContents /\ Sealed(m.content)
        BY <1>4 DEF Remembers, Sealed
  <1>7. /\ c \in KeyCommands /\ c.pc = "apply" /\ c.base = m.content /\ c.op = d.op
        /\ c.id = d.id /\ c.env = d.env /\ c.token = d.token /\ c.proof = d.proof /\ c.seen = d.seen
        BY <1>2, <1>5, <1>6 DEF KeyCommands
  <1>8. c.seen = keyFile.token => d.token = keyFile.token
        BY <1>2, <1>7 DEF CommandIsSound
  <1>9. CommandIsSound(c, keyFile)
        BY <1>2, <1>4, <1>6, <1>7, <1>8 DEF CommandIsSound
  <1>10. /\ memo' = [memo EXCEPT ![p] = m] /\ UNCHANGED <<clock, keyFile, begun>>
         BY <1>1, <1>3 DEF Load
  <1>11. memo'[p] = m
         BY <1>10 DEF KeyInv
  <1>12. cmd' = [cmd EXCEPT ![p] = c]
    <2>1. cmd' = [cmd EXCEPT ![p].pc = "apply", ![p].base = m.content]
          BY <1>11 DEF Load
    <2> QED BY <1>1, <1>5, <2>1 DEF KeyInv
  <1>13. /\ DOMAIN memo' = KeyProcs /\ memo' = [q \in KeyProcs |-> memo'[q]]
         /\ \A q \in KeyProcs : Remembers(memo'[q], keyFile)
         BY <1>4, <1>10 DEF KeyInv
  <1>14. /\ DOMAIN cmd' = KeyProcs /\ cmd' = [q \in KeyProcs |-> cmd'[q]]
         /\ \A q \in KeyProcs : CommandIsSound(cmd'[q], keyFile)
         BY <1>9, <1>12 DEF KeyInv
  <1> QED BY <1>10, <1>13, <1>14 DEF KeyInv, FileIsSound

\* A command that hands a sealed store to its write.
LEMMA ToWriteKeepsKeys ==
    ASSUME KeyInv, NEW p \in KeyProcs, cmd[p].pc = "apply", NEW store, Sealed(store),
           OthersKept(cmd[p].base, store, cmd[p].id),
           (cmd[p].op = "rotate" /\ cmd[p].seen = keyFile.token) => Winner(store) = cmd[p].id,
           ToWrite(p, store), UNCHANGED <<clock, keyFile, memo, begun>>
    PROVE  KeyInv'
  <1>1. PICK d : d = cmd[p]
        OBVIOUS
  <1>2. /\ d \in KeyCommands /\ CommandIsSound(d, keyFile) /\ d.pc = "apply" /\ store \in StoreContents
        BY <1>1 DEF KeyInv, CommandIsSound, Sealed
  <1>3. PICK c : c = [d EXCEPT !.pc = "write", !.base = store]
        OBVIOUS
  <1>4. /\ c \in KeyCommands /\ c.pc = "write" /\ c.base = store /\ c.op = d.op
        /\ c.id = d.id /\ c.env = d.env /\ c.token = d.token /\ c.proof = d.proof /\ c.seen = d.seen
        BY <1>2, <1>3 DEF KeyCommands
  <1>5. CommandIsSound(c, keyFile)
        BY <1>1, <1>2, <1>4 DEF CommandIsSound
  <1>6. cmd' = [cmd EXCEPT ![p] = c]
        BY <1>1, <1>3 DEF ToWrite, KeyInv
  <1>7. begun' \in Nat
        BY DEF KeyInv
  <1> QED BY <1>5, <1>6, <1>7, OneCommandMoves

\* A new row is sealed with the key of the store it is put in.
LEMMA ApplyNewKeepsKeys ==
    ASSUME KeyInv, NEW p \in KeyProcs, NEW ring, ApplyNew(p, ring)
    PROVE  KeyInv'
  <1>1. PICK c : c = cmd[p]
        OBVIOUS
  <1>2. PICK store : store = IF LoadStatus(c.base) = "fresh" THEN CreateStore(c.n) ELSE c.base
        OBVIOUS
  <1>3. PICK kek : kek = IF LoadStatus(c.base) = "fresh" THEN c.n ELSE RecoverKek(p, store, ring)
        OBVIOUS
  <1>4. PICK row : row = [kek |-> kek, env |-> c.env, value |-> c.n, state |-> c.state]
        OBVIOUS
  <1>5. /\ c.pc = "apply" /\ c.op \in {"add", "restore"} /\ UNCHANGED <<clock, keyFile, memo, begun>>
        /\ \/ Finish(p)
           \/ /\ LoadStatus(c.base) \notin {"unreadable", "degraded"} /\ kek # 0
              /\ ToWrite(p, WithRow(store, c.id, row))
        BY <1>1, <1>2, <1>3, <1>4 DEF ApplyNew
  <1>6. /\ c \in KeyCommands /\ Sealed(c.base) /\ c.n \in Nat /\ c.env \in EnvNames \cup {None}
        /\ c.state \in RowStates /\ c.id \in KeyIds /\ (c.id = SlotId => IsCandidate(c.env))
        BY <1>1, <1>5 DEF KeyInv, CommandIsSound, KeyCommands
  <1>7. CASE Finish(p)
        BY <1>5, <1>7, FinishKeepsKeys
  <1>8. CASE /\ LoadStatus(c.base) \notin {"unreadable", "degraded"} /\ kek # 0
             /\ ToWrite(p, WithRow(store, c.id, row))
    <2>1. /\ Sealed(store) /\ store.kind = "store" /\ kek = store.item
          /\ \A x \in DOMAIN c.base.rows : x \in DOMAIN store.rows /\ store.rows[x] = c.base.rows[x]
      <3>1. CASE LoadStatus(c.base) = "fresh"
        <4>0. c.base.kind = "absent"
              BY <1>6, <3>1, SealedRows DEF LoadStatus
        <4>1. store = CreateStore(c.n) /\ kek = c.n
              BY <1>2, <1>3, <3>1
        <4>2. store = [kind |-> "store", item |-> c.n, rows |-> << >>, dropped |-> 0]
              BY <4>1 DEF CreateStore
        <4>3. Sealed(store)
              BY <1>6, <4>2, RowlessIsSealed
        <4>4. DOMAIN c.base.rows = {}
              BY <1>6, <4>0 DEF Sealed
        <4> QED BY <4>1, <4>2, <4>3, <4>4
      <3>2. CASE LoadStatus(c.base) # "fresh"
        <4>1. store = c.base /\ kek \in {0, store.item}
              BY <1>2, <1>3, <3>2, KekIsTheStores
        <4>2. c.base.kind = "store"
              BY <1>6, <1>8, <3>2, SealedRows DEF LoadStatus
        <4> QED BY <1>6, <1>8, <4>1, <4>2
      <3> QED BY <3>1, <3>2
    <2>2. store.item \in Nat
          BY <2>1, SealedRows
    <2>3. row \in KeyRows /\ row.kek = store.item /\ row.env = c.env
          BY <1>4, <1>6, <2>1, <2>2 DEF KeyRows
    <2>4. c.id = SlotId => IsCandidate(row.env)
          BY <1>6, <2>3
    <2>5. PICK new : new = WithRow(store, c.id, row)
          OBVIOUS
    <2>6. /\ Sealed(new) /\ c.id \in DOMAIN new.rows
          /\ \A x \in DOMAIN store.rows : x \in DOMAIN new.rows
          /\ \A x \in DOMAIN store.rows : x # c.id => new.rows[x] = store.rows[x]
          BY <1>6, <2>1, <2>3, <2>4, <2>5, WithRowIsSealed
    <2>7. OthersKept(c.base, new, c.id)
          BY <2>1, <2>6 DEF OthersKept
    <2>8. ToWrite(p, new) /\ c.op # "rotate"
          BY <1>5, <1>8, <2>5
    <2> QED BY <1>1, <1>5, <2>6, <2>7, <2>8, ToWriteKeepsKeys
  <1> QED BY <1>5, <1>7, <1>8

\* Lookups and refusals end the command.
LEMMA LookupKeepsKeys ==
    ASSUME KeyInv, NEW p \in KeyProcs, NEW ring, NEW shadowed, Lookup(p, ring, shadowed)
    PROVE  KeyInv'
  BY FinishKeepsKeys DEF Lookup

\* A rotation that goes on has proved that its row wins.
LEMMA ProveKeepsKeys ==
    ASSUME KeyInv, NEW p \in KeyProcs, NEW ring, NEW shadowed, Prove(p, ring, shadowed)
    PROVE  KeyInv'
  <1>1. UNCHANGED <<clock, keyFile, memo, begun>> /\ begun' \in Nat
        BY DEF Prove, KeyInv
  <1>2. CASE Finish(p)
        BY <1>1, <1>2, FinishKeepsKeys
  <1>3. CASE Proves(p, ring, shadowed) /\ cmd' = [cmd EXCEPT ![p].proof = TRUE, ![p].pc = "stat"]
    <2>1. PICK d : d = cmd[p]
          OBVIOUS
    <2>2. d \in KeyCommands /\ CommandIsSound(d, keyFile) /\ d.pc = "apply" /\ d.op = "rotate"
          BY <2>1 DEF Prove, KeyInv, CommandIsSound
    <2>3. RotationProved(d.base, d.id)
          BY <1>3, <2>1 DEF Proves, Mutable, RotationProved
    <2>4. PICK c : c = [d EXCEPT !.proof = TRUE, !.pc = "stat"]
          OBVIOUS
    <2>5. /\ c \in KeyCommands /\ c.pc = "stat" /\ c.base = d.base /\ c.op = d.op
          /\ c.id = d.id /\ c.env = d.env /\ c.token = d.token /\ c.seen = d.seen
          BY <2>2, <2>4 DEF KeyCommands
    <2>6. c.seen = keyFile.token => d.base = keyFile.content
          BY <2>2, <2>5 DEF CommandIsSound
    <2>7. c.seen = keyFile.token => RotationProved(keyFile.content, c.id)
          BY <2>3, <2>5, <2>6
    <2>8. CommandIsSound(c, keyFile)
          BY <2>2, <2>5, <2>7 DEF CommandIsSound
    <2>9. cmd' = [cmd EXCEPT ![p] = c]
          BY <1>3, <2>1, <2>4 DEF KeyInv
    <2> QED BY <1>1, <2>8, <2>9, OneCommandMoves
  <1> QED BY <1>2, <1>3 DEF Prove

\* A rotated row keeps its name and opens with the key of its store.
LEMMA ApplyRotateKeepsKeys ==
    ASSUME KeyInv, NEW p \in KeyProcs, NEW ring, ApplyRotate(p, ring)
    PROVE  KeyInv'
  <1>1. PICK c : c = cmd[p]
        OBVIOUS
  <1>2. PICK store : store = c.base
        OBVIOUS
  <1>3. PICK row : row = store.rows[c.id]
        OBVIOUS
  <1>4. PICK sealed : sealed = [row EXCEPT !.kek = RecoverKek(p, store, ring), !.value = c.n,
                                           !.state = IF @ = "revoked" THEN "live" ELSE @]
        OBVIOUS
  <1>5. /\ c.pc = "apply" /\ c.op = "rotate" /\ c.proof /\ UNCHANGED <<clock, keyFile, memo, begun>>
        /\ \/ Finish(p)
           \/ /\ Mutable(c) /\ RecoverKek(p, store, ring) # 0
              /\ ToWrite(p, WithRow(store, c.id, sealed))
        BY <1>1, <1>2, <1>3, <1>4 DEF ApplyRotate
  <1>6. CASE Finish(p)
        BY <1>5, <1>6, FinishKeepsKeys
  <1>7. CASE /\ Mutable(c) /\ RecoverKek(p, store, ring) # 0
             /\ ToWrite(p, WithRow(store, c.id, sealed))
    <2>1. /\ c \in KeyCommands /\ Sealed(store) /\ c.n \in Nat
          /\ LoadStatus(store) = "ok" /\ c.id \in DOMAIN store.rows
          BY <1>1, <1>2, <1>7 DEF KeyInv, CommandIsSound, KeyCommands, Mutable
    <2>2. RecoverKek(p, store, ring) = store.item
          BY <1>7, KekIsTheStores
    <2>3. /\ c.id \in KeyIds /\ row \in KeyRows /\ store.item \in Nat /\ store.kind = "store"
          /\ (c.id = SlotId => IsCandidate(row.env))
      <3>1. store.kind = "store"
            BY <2>1, SealedRows DEF LoadStatus
      <3> QED BY <1>3, <2>1, <3>1, SealedRows DEF Sealed
    <2>4. sealed \in KeyRows /\ sealed.kek = store.item /\ sealed.env = row.env
          BY <1>4, <2>1, <2>2, <2>3 DEF KeyRows, RowStates
    <2>5. c.id = SlotId => IsCandidate(sealed.env)
          BY <2>3, <2>4
    <2>6. PICK new : new = WithRow(store, c.id, sealed)
          OBVIOUS
    <2>7. Sealed(new) /\ OthersKept(store, new, c.id)
          BY <2>1, <2>3, <2>4, <2>5, <2>6, WithRowIsSealed
    <2>8. ASSUME c.seen = keyFile.token PROVE Winner(new) = c.id
      <3>1. RotationProved(store, c.id)
            BY <1>1, <1>2, <1>5, <2>8 DEF KeyInv, CommandIsSound
      <3>2. sealed = [store.rows[c.id] EXCEPT !.kek = store.item, !.value = c.n,
                                              !.state = IF @ = "revoked" THEN "live" ELSE @]
            BY <1>3, <1>4, <2>2
      <3> QED BY <2>1, <2>6, <3>1, <3>2, RotationWins
    <2> QED BY <1>1, <1>2, <1>5, <1>7, <2>6, <2>7, <2>8, ToWriteKeepsKeys
  <1> QED BY <1>5, <1>6, <1>7

\* A row that is restated keeps its name and its key.
LEMMA ApplyStateKeepsKeys ==
    ASSUME KeyInv, NEW p \in KeyProcs, NEW ring, ApplyState(p, ring)
    PROVE  KeyInv'
  <1>1. PICK c : c = cmd[p]
        OBVIOUS
  <1>2. PICK store : store = c.base
        OBVIOUS
  <1>3. /\ c.pc = "apply" /\ c.op \in {"revoke", "remove", "disable", "enable"}
        /\ UNCHANGED <<clock, keyFile, memo, begun>>
        BY <1>1 DEF ApplyState
  <1>4. CASE Finish(p)
        BY <1>3, <1>4, FinishKeepsKeys
  <1>5. ASSUME Mutable(c)
        PROVE  Sealed(store) /\ store.kind = "store" /\ c.id \in DOMAIN store.rows
    <2>1. LoadStatus(store) = "ok" /\ c.id \in DOMAIN store.rows
          BY <1>2, <1>5 DEF Mutable
    <2>2. Sealed(store)
          BY <1>1, <1>2 DEF KeyInv, CommandIsSound
    <2>3. store.kind = "store"
          BY <2>1, <2>2, SealedRows DEF LoadStatus
    <2> QED BY <2>1, <2>2, <2>3
  <1>6. CASE Mutable(c) /\ c.op = "remove" /\ ToWrite(p, WithoutRow(store, c.id))
    <2>1. Sealed(WithoutRow(store, c.id)) /\ OthersKept(store, WithoutRow(store, c.id), c.id)
          BY <1>5, <1>6, WithoutRowIsSealed
    <2>2. PICK new : new = WithoutRow(store, c.id)
          OBVIOUS
    <2> QED BY <1>1, <1>2, <1>3, <1>6, <2>1, <2>2, ToWriteKeepsKeys
  <1>7. CASE /\ Mutable(c) /\ c.op # "remove"
             /\ ToWrite(p, WithRow(store, c.id, Restated(store.rows[c.id], c.op)))
    <2>1. PICK row : row = store.rows[c.id]
          OBVIOUS
    <2>2. PICK restated : restated = Restated(row, c.op)
          OBVIOUS
    <2>3. /\ c.id \in KeyIds /\ row \in KeyRows /\ row.kek = store.item
          /\ (c.id = SlotId => IsCandidate(row.env))
          BY <1>5, <1>7, <2>1, SealedRows DEF Sealed
    <2>4. restated \in KeyRows /\ restated.kek = row.kek /\ restated.env = row.env
      <3>1. c.op \in {"revoke", "disable", "enable"}
            BY <1>3, <1>7
      <3>2. PICK state : /\ restated = [row EXCEPT !.state = state]
                         /\ state \in {"revoked", "disabled", "live", row.state}
            BY <2>2, <3>1 DEF Restated
      <3> QED BY <2>3, <3>2 DEF KeyRows, RowStates
    <2>5. restated.kek = store.item /\ (c.id = SlotId => IsCandidate(restated.env))
          BY <2>3, <2>4
    <2>6. PICK new : new = WithRow(store, c.id, restated)
          OBVIOUS
    <2>7. Sealed(new) /\ OthersKept(store, new, c.id)
          BY <1>5, <1>7, <2>3, <2>4, <2>5, <2>6, WithRowIsSealed
    <2>8. ToWrite(p, new) /\ c.op # "rotate"
          BY <1>3, <1>7, <2>1, <2>2, <2>6
    <2> QED BY <1>1, <1>2, <1>3, <2>7, <2>8, ToWriteKeepsKeys
  <1> QED BY <1>1, <1>2, <1>4, <1>6, <1>7 DEF ApplyState

\* A write replaces the file by a sealed store; every other command and every
\* memo is then of an older one.
LEMMA PersistKeepsKeys ==
    ASSUME KeyInv, NEW p \in KeyProcs, Persist(p)
    PROVE  KeyInv'
  <1>1. Finish(p) /\ UNCHANGED <<clock, begun>>
        BY DEF Persist
  <1>2. CASE UNCHANGED <<keyFile, memo>>
        BY <1>1, <1>2, FinishKeepsKeys
  <1>3. CASE /\ keyFile' = [token |-> keyFile.token + 1, content |-> cmd[p].base]
             /\ memo' = [memo EXCEPT ![p] = NoMemo]
    <2>1. /\ keyFile.token \in Nat /\ Sealed(cmd[p].base) /\ cmd[p].base \in StoreContents
          BY DEF KeyInv, FileIsSound, CommandIsSound, Sealed
    <2>2. FileIsSound' /\ keyFile'.token = keyFile.token + 1
          BY <1>3, <2>1 DEF FileIsSound
    <2>3. /\ \A c : CommandIsSound(c, keyFile) => CommandIsSound(c, keyFile')
          /\ \A m : Remembers(m, keyFile) => Remembers(m, keyFile')
          BY <2>1, <2>2, NewFilesOverlap
    <2>4. Remembers(NoMemo, keyFile')
      <3>1. Sealed(Absent) /\ Absent \in StoreContents
            BY RowlessIsSealed DEF Absent, Sealed
      <3>2. NoMemo \in [token : Int, content : StoreContents, at : Nat]
            BY <3>1 DEF NoMemo
      <3> QED BY <2>1, <2>2, <3>1, <3>2 DEF Remembers, NoMemo
    <2>5. CommandIsSound(NoCommand, keyFile')
          BY <2>3, NoCommandIsSound DEF KeyInv
    <2>6. /\ DOMAIN memo' = KeyProcs /\ memo' = [q \in KeyProcs |-> memo'[q]]
          /\ \A q \in KeyProcs : Remembers(memo'[q], keyFile')
          BY <1>3, <2>3, <2>4 DEF KeyInv
    <2>7. /\ DOMAIN cmd' = KeyProcs /\ cmd' = [q \in KeyProcs |-> cmd'[q]]
          /\ \A q \in KeyProcs : CommandIsSound(cmd'[q], keyFile')
          BY <1>1, <2>3, <2>5 DEF KeyInv, Finish
    <2> QED BY <1>1, <2>2, <2>6, <2>7 DEF KeyInv
  <1> QED BY <1>2, <1>3 DEF Persist

\* So does whoever edits the file by hand.
LEMMA HandEditKeepsKeys ==
    ASSUME KeyInv, HandEdit
    PROVE  KeyInv'
  <1>1. begun' \in Nat /\ UNCHANGED <<clock, memo, cmd>>
        BY DEF HandEdit, KeyInv
  <1>2. keyFile.token \in Nat /\ Sealed(keyFile.content)
        BY DEF KeyInv, FileIsSound
  <1>3. PICK content : /\ keyFile' = [token |-> keyFile.token + 1, content |-> content]
                       /\ Sealed(content)
    <2>1. CASE \E content \in {Absent, Garbage} :
                  keyFile' = [token |-> keyFile.token + 1, content |-> content]
          BY <2>1, RowlessIsSealed DEF Absent, Garbage
    <2>2. CASE /\ keyFile.content.kind = "store"
               /\ keyFile' = [token |-> keyFile.token + 1,
                              content |-> [keyFile.content EXCEPT !.dropped = 1]]
      <3>1. PICK old : old = keyFile.content /\ Sealed(old) /\ old \in StoreContents
            BY <1>2 DEF Sealed
      <3>2. PICK content : content = [old EXCEPT !.dropped = 1]
            OBVIOUS
      <3>3. /\ content \in StoreContents /\ content.rows = old.rows /\ content.item = old.item
            /\ content.kind = old.kind
            BY <3>1, <3>2 DEF StoreContents
      <3>4. Sealed(content)
            BY <2>2, <3>1, <3>3 DEF Sealed
      <3> QED BY <2>2, <3>1, <3>2, <3>4
    <2> QED BY <2>1, <2>2 DEF HandEdit
  <1>4. FileIsSound' /\ keyFile'.token = keyFile.token + 1
        BY <1>2, <1>3 DEF FileIsSound, Sealed
  <1>5. /\ \A c : CommandIsSound(c, keyFile) => CommandIsSound(c, keyFile')
        /\ \A m : Remembers(m, keyFile) => Remembers(m, keyFile')
        BY <1>2, <1>4, NewFilesOverlap
  <1> QED BY <1>1, <1>4, <1>5 DEF KeyInv

\* The keystore starts without a file.
LEMMA KeysStartSound == ClockInit /\ KeyInit => KeyInv
  <1> SUFFICES ASSUME ClockInit, KeyInit PROVE KeyInv
      OBVIOUS
  <1>1. Sealed(Absent) /\ Absent \in StoreContents
        BY RowlessIsSealed DEF Absent, Sealed
  <1>2. FileIsSound /\ keyFile.token = 0
        BY <1>1 DEF KeyInit, FileIsSound
  <1>3. Remembers(NoMemo, keyFile)
    <2>1. NoMemo \in [token : Int, content : StoreContents, at : Nat]
          BY <1>1 DEF NoMemo
    <2> QED BY <1>1, <1>2, <2>1 DEF Remembers, NoMemo
  <1>4. CommandIsSound(NoCommand, keyFile)
        BY <1>2, NoCommandIsSound
  <1> QED BY <1>2, <1>3, <1>4 DEF KeyInv, KeyInit, ClockInit

\* Every step of the keystore keeps the invariant.
LEMMA KeyStepsKeepInv ==
    ASSUME KeyInv, [KeyNext]_keyVars
    PROVE  KeyInv'
  <1>1. CASE UNCHANGED keyVars
        BY <1>1 DEF keyVars, KeyInv, FileIsSound
  <1>2. Commands \subseteq KeyProcs /\ "relay" \in KeyProcs
        BY DEF KeyProcs
  <1>3. ASSUME NEW p \in Commands, NEW t \in AddTargets \cup ImportTargets, NEW op \in {"add", "restore"},
               NEW state \in RowStates, Begin(p, op, t.id, t.env, state)
        PROVE  KeyInv'
    <2>1. t.id \in KeyIds /\ t.env \in EnvNames \cup {None}
          BY TargetsAreSlots
    <2>2. t.id = SlotId => IsCandidate(t.env)
          BY KeystoreAssumption DEF IsCandidate
    <2>3. op \in KeyOps
          BY DEF KeyOps
    <2> QED BY <1>2, <1>3, <2>1, <2>2, <2>3, BeginKeepsKeys
  <1>4. ASSUME NEW p \in Commands, NEW op \in RowOps, NEW id \in KeyIds, Begin(p, op, id, None, "live")
        PROVE  KeyInv'
    <2>1. op \in KeyOps /\ op \notin {"add", "restore"} /\ "live" \in RowStates
          BY DEF KeyOps, RowOps, RowStates
    <2> QED BY <1>2, <1>4, <2>1, BeginKeepsKeys
  <1>5. ASSUME Begin("relay", "lookup", None, None, "live")
        PROVE  KeyInv'
    <2>1. "lookup" \in KeyOps /\ "lookup" \notin {"add", "restore"} /\ "live" \in RowStates
          BY DEF KeyOps, RowStates
    <2> QED BY <1>2, <1>5, <2>1, BeginKeepsKeys
  <1>6. ASSUME KeyTick PROVE KeyInv'
    <2>1. clock' \in Nat
          BY <1>6 DEF KeyTick, ClockTick, KeyInv
    <2> QED BY <1>6, <2>1 DEF KeyTick, KeyInv, FileIsSound
  <1>7. CASE KeyNext
    <2>1. CASE \E p \in Commands, t \in AddTargets \cup ImportTargets : Begin(p, "add", t.id, t.env, "live")
      <3>1. "live" \in RowStates /\ "add" \in {"add", "restore"}
            BY DEF RowStates
      <3> QED BY <1>3, <2>1, <3>1
    <2>2. CASE \E p \in Commands, t \in ImportTargets, state \in RestoredStates :
                  Begin(p, "restore", t.id, t.env, state)
      <3>1. PICK p \in Commands, t \in ImportTargets, state \in RestoredStates :
               Begin(p, "restore", t.id, t.env, state)
            BY <2>2
      <3>2. t \in AddTargets \cup ImportTargets /\ state \in RowStates /\ "restore" \in {"add", "restore"}
            BY DEF RowStates
      <3> QED BY <1>3, <3>1, <3>2
    <2>3. CASE \E p \in Commands, op \in RowOps, id \in KeyIds : Begin(p, op, id, None, "live")
          BY <1>4, <2>3
    <2>4. CASE \E p \in KeyProcs : Load(p)
          BY <2>4, LoadKeepsKeys
    <2>5. CASE \E p \in Commands : Observe(p) \/ Persist(p) \/ Lock(p)
      <3>1. ASSUME NEW p \in Commands, Lock(p) PROVE KeyInv'
            BY <3>1 DEF Lock, KeyInv, FileIsSound
      <3> QED BY <1>2, <2>5, <3>1, ObserveKeepsKeys, PersistKeepsKeys
    <2>6. CASE \E ring, shadowed \in BOOLEAN : \/ Lookup("relay", ring, shadowed)
                                              \/ \E p \in Commands : Prove(p, ring, shadowed)
          BY <1>2, <2>6, LookupKeepsKeys, ProveKeepsKeys
    <2>7. CASE \E p \in Commands, ring \in BOOLEAN :
                  ApplyNew(p, ring) \/ ApplyRotate(p, ring) \/ ApplyState(p, ring)
          BY <1>2, <2>7, ApplyNewKeepsKeys, ApplyRotateKeepsKeys, ApplyStateKeepsKeys
    <2> QED BY <1>5, <1>6, <1>7, <2>1, <2>2, <2>3, <2>4, <2>5, <2>6, <2>7, HandEditKeepsKeys, Zenon
            DEF KeyNext
  <1> QED BY <1>1, <1>7

\* What a step does to a command that nobody overlapped.
QuietStepIsExact(p) ==
    LET c == cmd[p]
        quiet == c.seen = keyFile.token
        wrote == c.pc = "write" /\ keyFile'.token # keyFile.token /\ cmd'[p] = NoCommand
    IN /\ (quiet /\ wrote) =>
             \A id \in DOMAIN keyFile.content.rows \ {c.id} :
                id \in DOMAIN keyFile'.content.rows /\ keyFile'.content.rows[id] = keyFile.content.rows[id]
       /\ (quiet /\ wrote /\ c.op = "rotate") => Winner(keyFile'.content) = c.id
       /\ (quiet /\ c.op = "lookup" /\ c.pc = "apply" /\ cmd'[p] = NoCommand) =>
             Served(p, c.base, TRUE) \in {0, Served(p, keyFile.content, TRUE)}

\* Only the command's own write replaces the file and ends the command.
LEMMA OwnWriteEnds ==
    ASSUME KeyInv, KeyNext, NEW p \in KeyProcs, cmd[p].pc = "write",
           keyFile'.token # keyFile.token, cmd'[p] = NoCommand
    PROVE  keyFile' = [token |-> keyFile.token + 1, content |-> cmd[p].base]
  <1>1. \/ \E q \in Commands : Persist(q)
        \/ HandEdit
        BY Zenon DEF KeyNext, Begin, Load, Observe, Lock, Lookup, Prove, ApplyNew, ApplyRotate, ApplyState,
                     KeyTick
  <1>2. NoCommand.pc = "idle"
        BY DEF NoCommand
  <1>3. CASE HandEdit
        BY <1>2, <1>3 DEF HandEdit
  <1>4. ASSUME NEW q \in Commands, Persist(q)
        PROVE  keyFile' = [token |-> keyFile.token + 1, content |-> cmd[p].base]
    <2>1. q \in KeyProcs /\ cmd' = [cmd EXCEPT ![q] = NoCommand]
          BY <1>4 DEF KeyProcs, Persist, Finish
    <2>2. q = p
          BY <1>2, <2>1 DEF KeyInv
    <2>3. keyFile' # keyFile
          OBVIOUS
    <2> QED BY <1>4, <2>2, <2>3 DEF Persist
  <1> QED BY <1>1, <1>3, <1>4

\* A command nobody overlapped is exact.
LEMMA QuietStepsAreExact ==
    ASSUME KeyInv, [KeyNext]_keyVars, NEW p \in KeyProcs
    PROVE  QuietStepIsExact(p)
  <1>1. PICK c : c = cmd[p] /\ CommandIsSound(c, keyFile)
        BY DEF KeyInv
  <1>2. ASSUME c.seen = keyFile.token, c.pc = "write", keyFile'.token # keyFile.token,
               cmd'[p] = NoCommand
        PROVE  /\ \A id \in DOMAIN keyFile.content.rows \ {c.id} :
                     /\ id \in DOMAIN keyFile'.content.rows
                     /\ keyFile'.content.rows[id] = keyFile.content.rows[id]
               /\ c.op = "rotate" => Winner(keyFile'.content) = c.id
    <2>1. KeyNext
          BY <1>2 DEF keyVars
    <2>2. keyFile'.content = c.base
          BY <1>1, <1>2, <2>1, OwnWriteEnds
    <2> QED BY <1>1, <1>2, <2>2 DEF CommandIsSound, OthersKept
  <1>3. ASSUME c.seen = keyFile.token, c.pc = "apply"
        PROVE  Served(p, c.base, TRUE) = Served(p, keyFile.content, TRUE)
        BY <1>1, <1>3 DEF CommandIsSound
  <1> QED BY <1>1, <1>2, <1>3 DEF QuietStepIsExact

\* However commands interleave, every row in the file opens with the key of that
\* file, and a command that nobody overlapped does exactly what it says.
THEOREM KeystoreStaysExact == KeySpec => KeystoreIsExact
  <1>1. KeySpec => []KeyInv
        BY KeysStartSound, KeyStepsKeepInv, PTL DEF KeySpec
  <1>2. KeyInv /\ [KeyNext]_keyVars => RowsOpenWithTheirStore'
    <2> SUFFICES ASSUME KeyInv, [KeyNext]_keyVars PROVE RowsOpenWithTheirStore'
        OBVIOUS
    <2>1. KeyInv'
          BY KeyStepsKeepInv
    <2>2. Sealed(keyFile'.content)
          BY <2>1 DEF KeyInv, FileIsSound
    <2> QED BY <2>2, SealedOpens DEF RowsOpenWithTheirStore
  <1>3. KeySpec => [][RowsOpenWithTheirStore']_keyVars
        BY <1>1, <1>2, PTL DEF KeySpec
  <1>4. KeyInv /\ [KeyNext]_keyVars => \A p \in KeyProcs : QuietStepIsExact(p)
        BY QuietStepsAreExact
  <1>5. KeySpec => [][\A p \in KeyProcs : QuietStepIsExact(p)]_keyVars
        BY <1>1, <1>4, PTL DEF KeySpec
  <1>6. [][\A p \in KeyProcs : QuietStepIsExact(p)]_keyVars => QuietCommandsAreExact
        BY PTL DEF QuietCommandsAreExact, QuietStepIsExact
  <1> QED BY <1>3, <1>5, <1>6, PTL DEF KeystoreIsExact
=============================================================================
