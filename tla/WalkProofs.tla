------------------------------ MODULE WalkProofs ------------------------------
(***************************************************************************)
(* Proofs about the walk of a request over its candidates, for any fleet   *)
(* of deployments and credentials, any caps and any order of timers,       *)
(* answers and departures.                                                 *)
(***************************************************************************)
EXTENDS CandidateWalk, FiniteSetTheorems, WellFoundedInduction, TLAPS

\* The place of an attempt in its deployment's order of credentials.
Rank(a) == CHOOSE i \in DOMAIN Groups[GroupOf(a)] : Groups[GroupOf(a)][i] = a

\* The shape of the ranked candidates, from the assumption on them.
LEMMA GroupShapes ==
    /\ Groups \in Seq(Seq(Attempts)) /\ Len(Groups) \in Nat \ {0} /\ GroupIds = 1 .. Len(Groups)
    /\ \A g \in GroupIds : /\ Groups[g] \in Seq(Attempts) /\ Len(Groups[g]) \in Nat \ {0}
                           /\ DOMAIN Groups[g] = 1 .. Len(Groups[g])
    /\ None \notin Attempts
  <1>1. Groups \in Seq(Seq(Attempts)) /\ Groups # <<>> /\ None \notin Attempts
        /\ \A g \in GroupIds : Groups[g] # <<>>
        BY GroupsAssumption
  <1>2. Len(Groups) \in Nat \ {0} /\ GroupIds = 1 .. Len(Groups)
        BY <1>1 DEF GroupIds
  <1>3. ASSUME NEW g \in GroupIds
        PROVE  Groups[g] \in Seq(Attempts) /\ Len(Groups[g]) \in Nat \ {0} /\ DOMAIN Groups[g] = 1 .. Len(Groups[g])
    <2>1. Groups[g] \in Seq(Attempts) /\ Groups[g] # <<>>
          BY <1>1, <1>2
    <2> QED BY <2>1
  <1> QED BY <1>1, <1>2, <1>3

\* Every attempt has one place.
LEMMA PlaceOfAnAttempt ==
    /\ \A g \in GroupIds : \A i \in 1 .. Len(Groups[g]) :
          Groups[g][i] \in Attempts /\ GroupOf(Groups[g][i]) = g /\ Rank(Groups[g][i]) = i
    /\ \A a \in Attempts : /\ GroupOf(a) \in GroupIds /\ Rank(a) \in 1 .. Len(Groups[GroupOf(a)])
                           /\ Groups[GroupOf(a)][Rank(a)] = a
  <1>1. \A g, h \in GroupIds : \A i \in DOMAIN Groups[g], j \in DOMAIN Groups[h] :
           Groups[g][i] = Groups[h][j] => g = h /\ i = j
        BY GroupsAssumption
  <1>2. ASSUME NEW g \in GroupIds, NEW i \in 1 .. Len(Groups[g])
        PROVE  Groups[g][i] \in Attempts /\ GroupOf(Groups[g][i]) = g /\ Rank(Groups[g][i]) = i
    <2>1. i \in DOMAIN Groups[g] /\ Groups[g][i] \in Attempts
          BY GroupShapes
    <2>2. Groups[g][i] \in Range(Groups[g])
          BY <2>1 DEF Range
    <2>3. \A h \in GroupIds : Groups[g][i] \in Range(Groups[h]) => h = g
          BY <1>1, <2>1 DEF Range
    <2>4. GroupOf(Groups[g][i]) = g
          BY <2>2, <2>3 DEF GroupOf
    <2>5. \A j \in DOMAIN Groups[g] : Groups[g][j] = Groups[g][i] => j = i
          BY <1>1, <2>1
    <2> QED BY <2>1, <2>4, <2>5 DEF Rank
  <1>3. ASSUME NEW a \in Attempts
        PROVE  /\ GroupOf(a) \in GroupIds /\ Rank(a) \in 1 .. Len(Groups[GroupOf(a)])
               /\ Groups[GroupOf(a)][Rank(a)] = a
    <2>1. PICK g \in GroupIds : a \in Range(Groups[g])
          BY DEF Attempts
    <2>2. PICK i \in 1 .. Len(Groups[g]) : a = Groups[g][i]
          BY <2>1, GroupShapes DEF Range
    <2> QED BY <1>2, <2>2
  <1> QED BY <1>2, <1>3

\* A fleet has finitely many attempts.
LEMMA AttemptsAreFinite == IsFiniteSet(Attempts) /\ Cardinality(Attempts) \in Nat
  <1>1. ASSUME NEW n \in Nat, NEW f, f = [i \in 1 .. n |-> f[i]] PROVE IsFiniteSet(Range(f))
    <2>1. IsFiniteSet(1 .. n)
          BY FS_Interval
    <2>2. f \in Surjection(1 .. n, Range(f))
      <3>1. [i \in 1 .. n |-> f[i]] \in [1 .. n -> Range(f)]
            BY <1>1 DEF Range
      <3> QED BY <1>1, <3>1 DEF Surjection, Range
    <2> QED BY <2>1, <2>2, FS_Surjection
  <1> DEFINE credentials == [g \in GroupIds |-> Range(Groups[g])]
  <1>2. ASSUME NEW g \in GroupIds PROVE IsFiniteSet(Range(Groups[g]))
    <2>1. Len(Groups[g]) \in Nat /\ Groups[g] = [i \in 1 .. Len(Groups[g]) |-> Groups[g][i]]
          BY GroupShapes
    <2> QED BY <1>1, <2>1
  <1>3. IsFiniteSet(Range(credentials))
    <2>1. Len(Groups) \in Nat /\ credentials = [i \in 1 .. Len(Groups) |-> credentials[i]]
          BY GroupShapes
    <2> HIDE DEF credentials
    <2> QED BY <1>1, <2>1
  <1>4. Attempts = UNION Range(credentials)
        BY DEF Attempts, Range
  <1>5. \A T \in Range(credentials) : IsFiniteSet(T)
        BY <1>2 DEF Range
  <1> HIDE DEF credentials
  <1>6. IsFiniteSet(Attempts)
        BY <1>3, <1>4, <1>5, FS_UNION
  <1> QED BY <1>6, FS_CardinalityType

\* A set of naturals that is not empty has a least element.
LEMMA LeastNatural ==
    ASSUME NEW S \in SUBSET Nat, S # {}
    PROVE  \E n \in S : \A m \in S : n <= m
  <1> DEFINE Less == {ss \in Nat \X Nat : ss[1] < ss[2]}
  <1>1. IsWellFoundedOn(Less, Nat)
        BY NatLessThanWellFounded, Zenon DEF OpToRel
  <1>2. PICK n \in S : \A m \in S : ~(<<m, n>> \in Less)
        BY <1>1, WFMin
  <1>3. ASSUME NEW m \in S PROVE n <= m
    <2>1. <<m, n>> \in Nat \X Nat /\ <<m, n>>[1] = m /\ <<m, n>>[2] = n
          OBVIOUS
    <2> QED BY <1>2, <2>1
  <1> QED BY <1>3

\* The least of a set of naturals is its member.
LEMMA MinIsLeast ==
    ASSUME NEW S \in SUBSET Nat, S # {}
    PROVE  Min(S) \in S /\ \A m \in S : Min(S) <= m
  <1>1. PICK n \in S : \A m \in S : n <= m
        BY LeastNatural
  <1> QED BY <1>1 DEF Min

-----------------------------------------------------------------------------
(* The loop of nextUncappedAttempt.                                        *)

\* What the loop has after i rejections: the first k+1 of them.
IsTrail(f, k, w) ==
    f = [i \in 0 .. k |-> IF i = 0 THEN Asked(w, refused)
                          ELSE CHOOSE n \in {AskedAgain(m) : m \in {f[i - 1]}} : TRUE]

\* Functions that follow the rejections of one ask, of any length, exist.
LEMMA TrailsExist == \A k \in Nat : \A w : \E f : IsTrail(f, k, w)
  <1> SUFFICES ASSUME NEW w PROVE \A k \in Nat : \E f : IsTrail(f, k, w)
      OBVIOUS
  <1> DEFINE missing == {k \in Nat : ~\E f : IsTrail(f, k, w)}
  <1>1. ASSUME missing # {} PROVE FALSE
    <2>1. PICK k \in missing : \A j \in missing : k <= j
          BY <1>1, LeastNatural
    <2>2. CASE k = 0
      <3> DEFINE f == [i \in 0 .. 0 |-> Asked(w, refused)]
      <3>1. IsTrail(f, 0, w)
            BY DEF IsTrail
      <3> QED BY <2>1, <2>2, <3>1
    <2>3. CASE k # 0
      <3>1. k - 1 \in Nat /\ k - 1 \notin missing
            BY <2>1, <2>3
      <3>2. PICK g : IsTrail(g, k - 1, w)
            BY <3>1
      <3> DEFINE f == [i \in 0 .. k |-> IF i < k THEN g[i]
                                        ELSE CHOOSE n \in {AskedAgain(m) : m \in {g[k - 1]}} : TRUE]
                 body(h, i) == IF i = 0 THEN Asked(w, refused)
                               ELSE CHOOSE n \in {AskedAgain(m) : m \in {h[i - 1]}} : TRUE
      <3>3. \A i \in 0 .. k - 1 : g[i] = body(g, i)
            BY <3>2 DEF IsTrail
      <3>4. \A i \in 0 .. k - 1 : f[i] = g[i]
            BY <3>1
      <3>5. \A i \in 0 .. k : f[i] = body(f, i)
        <4>1. ASSUME NEW i \in 0 .. k - 1 PROVE f[i] = body(f, i)
          <5>1. i = 0 \/ f[i - 1] = g[i - 1]
                BY <3>1, <3>4
          <5>2. body(f, i) = body(g, i)
                BY <5>1
          <5>3. f[i] = g[i]
                BY <3>4
          <5> QED BY <3>3, <5>2, <5>3
        <4>2. f[k] = body(f, k)
          <5>1. k \in 0 .. k /\ f[k] = CHOOSE n \in {AskedAgain(m) : m \in {g[k - 1]}} : TRUE
                BY <3>1
          <5>2. f[k - 1] = g[k - 1]
                BY <3>1, <3>4
          <5> QED BY <2>3, <5>1, <5>2
        <4> HIDE DEF f, body
        <4> QED BY <3>1, <4>1, <4>2
      <3>6. f = [i \in 0 .. k |-> f[i]]
            OBVIOUS
      <3> HIDE DEF f
      <3>7. IsTrail(f, k, w)
            BY <3>5, <3>6 DEF IsTrail
      <3> QED BY <2>1, <3>7
    <2> QED BY <2>2, <2>3
  <1> QED BY <1>1

\* The candidate handed out is the last of a trail of rejections.
LEMMA UncappedByTrail ==
    ASSUME NEW w
    PROVE  \E f : /\ NextUncapped(w) = f[Cardinality(Attempts)]
                 /\ f[0] = Asked(w, refused)
                 /\ \A i \in 1 .. Cardinality(Attempts) : f[i] = AskedAgain(f[i - 1])
  <1> DEFINE total == Cardinality(Attempts)
  <1>1. total \in Nat
        BY AttemptsAreFinite
  <1>2. PICK f : f = CHOOSE g : IsTrail(g, total, w)
        OBVIOUS
  <1>3. IsTrail(f, total, w)
        BY <1>1, <1>2, TrailsExist
  <1>4. NextUncapped(w) = f[total]
        BY <1>2 DEF NextUncapped, IsTrail
  <1>5. f[0] = Asked(w, refused)
        BY <1>1, <1>3 DEF IsTrail
  <1>6. ASSUME NEW i \in 1 .. total PROVE f[i] = AskedAgain(f[i - 1])
    <2>1. f[i] = CHOOSE n \in {AskedAgain(m) : m \in {f[i - 1]}} : TRUE
          BY <1>1, <1>3 DEF IsTrail
    <2> QED BY <2>1
  <1> QED BY <1>4, <1>5, <1>6

-----------------------------------------------------------------------------
(* The methods of the walk.                                                *)

\* Two sequences, one after the other.
LEMMA JoinedSequences ==
    ASSUME NEW S, NEW l \in Seq(S), NEW r \in Seq(S)
    PROVE  /\ l \o r \in Seq(S) /\ Len(l \o r) = Len(l) + Len(r)
           /\ \A j \in 1 .. Len(l) + Len(r) : (l \o r)[j] = IF j <= Len(l) THEN l[j] ELSE r[j - Len(l)]
    OBVIOUS

\* Removing an element that occurs once closes the gap.
LEMMA RemovedOnce ==
    ASSUME NEW S, NEW s \in Seq(S), NEW k \in 1 .. Len(s), \A j \in 1 .. Len(s) : s[j] = s[k] => j = k
    PROVE  /\ RemoveFirst(s, s[k]) \in Seq(S) /\ Len(RemoveFirst(s, s[k])) = Len(s) - 1
           /\ \A j \in 1 .. Len(s) - 1 : RemoveFirst(s, s[k])[j] = IF j < k THEN s[j] ELSE s[j + 1]
  <1>1. {i \in 1 .. Len(s) : s[i] = s[k]} = {k}
        OBVIOUS
  <1>2. Min({k}) = k
        BY DEF Min
  <1>3. SelectInSeq(s, LAMBDA v : v = s[k]) = k
        BY <1>1, <1>2 DEF SelectInSeq
  <1>4. PICK before, after : before = SubSeq(s, 1, k - 1) /\ after = SubSeq(s, k + 1, Len(s))
        OBVIOUS
  <1>5. PICK rest : rest = before \o after /\ RemoveFirst(s, s[k]) = rest
        BY <1>3, <1>4 DEF RemoveFirst, RemoveAt
  <1>6. /\ before \in Seq(S) /\ Len(before) = k - 1 /\ \A j \in 1 .. k - 1 : before[j] = s[j]
        /\ after \in Seq(S) /\ Len(after) = Len(s) - k /\ \A j \in 1 .. Len(s) - k : after[j] = s[k + j]
        BY <1>4
  <1>7. /\ rest \in Seq(S) /\ Len(rest) = Len(s) - 1
        /\ \A j \in 1 .. Len(s) - 1 : rest[j] = IF j <= k - 1 THEN before[j] ELSE after[j - (k - 1)]
    <2>1. before \in Seq(S) /\ after \in Seq(S) /\ Len(before) = k - 1 /\ Len(after) = Len(s) - k
          BY <1>6
    <2>2. rest \in Seq(S) /\ Len(rest) = Len(s) - 1
      <3>1. rest \in Seq(S) /\ Len(rest) = Len(before) + Len(after)
            BY <1>5, <2>1, JoinedSequences
      <3> QED BY <2>1, <3>1
    <2>3. ASSUME NEW j \in 1 .. Len(s) - 1
          PROVE  rest[j] = IF j <= k - 1 THEN before[j] ELSE after[j - (k - 1)]
      <3>1. j \in 1 .. Len(before) + Len(after)
            BY <2>1
      <3>2. \A i \in 1 .. Len(before) + Len(after) :
               (before \o after)[i] = IF i <= Len(before) THEN before[i] ELSE after[i - Len(before)]
            BY <2>1, JoinedSequences
      <3>3. rest[j] = IF j <= Len(before) THEN before[j] ELSE after[j - Len(before)]
            BY <1>5, <3>1, <3>2
      <3> QED BY <2>1, <3>3
    <2> QED BY <2>2, <2>3
  <1>8. ASSUME NEW j \in 1 .. Len(s) - 1 PROVE rest[j] = IF j < k THEN s[j] ELSE s[j + 1]
    <2>1. CASE j < k
          BY <1>6, <1>7, <2>1
    <2>2. CASE j >= k
      <3>1. j - (k - 1) \in 1 .. Len(s) - k /\ k + (j - (k - 1)) = j + 1
            BY <2>2
      <3>2. after[j - (k - 1)] = s[j + 1]
            BY <1>6, <3>1
      <3> QED BY <1>7, <2>2, <3>2
    <2> QED BY <2>1, <2>2
  <1> QED BY <1>5, <1>7, <1>8

\* What is offered was passed by its cursor, and its deployment is out of the queue.
OffersAreOut(w) ==
    /\ w.begun \subseteq Range(w.pending)
    /\ \A a \in Range(w.pending) : Rank(a) <= w.cursor[GroupOf(a)]
    /\ \A a \in Range(w.pending) : GroupOf(a) \notin Range(w.queue)
    /\ \A p, q \in DOMAIN w.pending : GroupOf(w.pending[p]) = GroupOf(w.pending[q]) => p = q

\* The deployments that still may have their first turn are in the queue, before
\* those that have had one.
FirstTurnsFirst(w) ==
    /\ \A g \in GroupIds : w.cursor[g] <= Len(Groups[g])
    /\ \A p, q \in DOMAIN w.queue : w.queue[p] = w.queue[q] => p = q
    /\ \A p, q \in DOMAIN w.queue : p < q /\ w.cursor[w.queue[p]] > 0 => w.cursor[w.queue[q]] > 0
    /\ \A g \in GroupIds : w.cursor[g] = 0 => g \in Range(w.queue) \/ Provider[g] \in w.badProviders
    /\ \A g \in GroupIds : w.cursor[g] = 0 => g \notin w.closed

\* A walk the request can be in.
GoodWalk(w) == w \in WalkType /\ OffersAreOut(w) /\ FirstTurnsFirst(w)

\* Every deployment that can be reached has had its turn.
AllTouched(w) == \A g \in GroupIds : w.cursor[g] > 0 \/ Provider[g] \in w.badProviders

\* A walk's fields, each with its type.
LEMMA WalkShape ==
    ASSUME NEW w, w \in WalkType
    PROVE  /\ w.queue \in Seq(GroupIds) /\ Len(w.queue) \in Nat /\ DOMAIN w.queue = 1 .. Len(w.queue)
           /\ w.cursor \in [GroupIds -> Nat]
           /\ w.pending \in Seq(Attempts) /\ Len(w.pending) \in Nat /\ DOMAIN w.pending = 1 .. Len(w.pending)
           /\ w.begun \in SUBSET Attempts /\ w.started \in Nat /\ w.closed \in SUBSET GroupIds
           /\ w.badProviders \in SUBSET Range(Provider) /\ w.suppressed \in SUBSET Attempts
           /\ w.stopped \in {"no", "yes"}
    BY DEF WalkType

Barred(w, g) == g \in w.closed \/ Provider[g] \in w.badProviders
\* The deployments among the first places that are found to have no credential left,
\* and the cursors once they are closed.
Dry(w, last) == {g \in {w.queue[p] : p \in 1 .. (last - 1)} : ~Barred(w, g)}
Closing(w, dry) == [g \in GroupIds |-> IF g \in dry THEN Len(Groups[g]) ELSE w.cursor[g]]
Drained(w, last, dry) ==
    [w EXCEPT !.queue = QueueAfter(@, last), !.closed = @ \cup dry,
              !.cursor = [g \in GroupIds |-> IF g \in dry THEN Len(Groups[g]) ELSE @[g]]]

\* The first deployment in the queue with a credential left, and those passed over.
LEMMA TakeChooses ==
    ASSUME NEW w, GoodWalk(w)
    PROVE  \E last \in 1 .. Len(w.queue) + 1 : \E dry \in SUBSET GroupIds :
              /\ dry = Dry(w, last)
              /\ \A p \in 1 .. (last - 1) : Barred(w, w.queue[p]) \/ Servable(w, w.queue[p]) = {}
              /\ \/ last = Len(w.queue) + 1 /\ Take(w) = [walk |-> Drained(w, last, dry), offer |-> None]
                 \/ /\ last \in DOMAIN w.queue /\ ~Barred(w, w.queue[last])
                    /\ \E i \in Servable(w, w.queue[last]) :
                          Take(w) = [walk  |-> [Drained(w, last, dry) EXCEPT
                                                   !.cursor[w.queue[last]] = i,
                                                   !.pending = Append(@, Groups[w.queue[last]][i])],
                                     offer |-> Groups[w.queue[last]][i]]
  <1>1. /\ w.queue \in Seq(GroupIds) /\ Len(w.queue) \in Nat /\ DOMAIN w.queue = 1 .. Len(w.queue)
        /\ w.cursor \in [GroupIds -> Nat]
        BY WalkShape DEF GoodWalk
  <1>2. PICK good : good = {p \in DOMAIN w.queue : ~Barred(w, w.queue[p]) /\ Servable(w, w.queue[p]) # {}}
        OBVIOUS
  <1>3. PICK last : last = IF good = {} THEN Len(w.queue) + 1 ELSE Min(good)
        OBVIOUS
  <1>4. PICK dry : dry = Dry(w, last)
        OBVIOUS
  <1>5. good \in SUBSET Nat /\ good \subseteq DOMAIN w.queue
        BY <1>1, <1>2
  <1>6. /\ last \in 1 .. Len(w.queue) + 1
        /\ good # {} => last \in good
        /\ \A p \in 1 .. (last - 1) : p \in DOMAIN w.queue /\ p \notin good
    <2>1. CASE good = {}
      <3>1. last = Len(w.queue) + 1
            BY <1>3, <2>1
      <3> QED BY <1>1, <2>1, <3>1
    <2>2. CASE good # {}
      <3>1. last = Min(good)
            BY <1>3, <2>2
      <3>2. last \in good /\ \A p \in good : last <= p
            BY <1>5, <2>2, <3>1, MinIsLeast
      <3>3. last \in 1 .. Len(w.queue)
            BY <1>1, <1>5, <3>2
      <3>4. ASSUME NEW p \in 1 .. (last - 1) PROVE p \in DOMAIN w.queue /\ p \notin good
        <4>1. p \in 1 .. Len(w.queue) /\ ~(last <= p)
              BY <1>1, <3>3
        <4> QED BY <1>1, <3>2, <4>1
      <3>5. last \in 1 .. Len(w.queue) + 1
            BY <1>1, <3>3
      <3> QED BY <3>2, <3>4, <3>5
    <2> QED BY <2>1, <2>2
  <1>7. dry \in SUBSET GroupIds
        BY <1>1, <1>4, <1>6 DEF Dry
  <1>8. \A p \in 1 .. (last - 1) : Barred(w, w.queue[p]) \/ Servable(w, w.queue[p]) = {}
        BY <1>2, <1>6
  <1>9. CASE good = {}
    <2>1. Take(w) = [walk |-> Drained(w, last, dry), offer |-> None]
          BY <1>2, <1>3, <1>4, <1>9, Zenon DEF Take, Drained, Barred, Dry
    <2>2. last = Len(w.queue) + 1
          BY <1>3, <1>9
    <2> QED BY <1>4, <1>6, <1>7, <1>8, <2>1, <2>2
  <1>10. CASE good # {}
    <2>1. PICK i : i = Min(Servable(w, w.queue[last]))
          OBVIOUS
    <2>2. Servable(w, w.queue[last]) # {} /\ last \in DOMAIN w.queue /\ ~Barred(w, w.queue[last])
          BY <1>2, <1>6, <1>10
    <2>3. Servable(w, w.queue[last]) \in SUBSET Nat
          BY <1>1, <2>2 DEF Servable
    <2>4. i \in Servable(w, w.queue[last])
          BY <2>1, <2>2, <2>3, MinIsLeast
    <2>5. Take(w) = [walk  |-> [Drained(w, last, dry) EXCEPT !.cursor[w.queue[last]] = i,
                                                          !.pending = Append(@, Groups[w.queue[last]][i])],
                     offer |-> Groups[w.queue[last]][i]]
          BY <1>2, <1>3, <1>4, <1>10, <2>1, Zenon DEF Take, Drained, Barred, Dry, CursorPast
    <2> QED BY <1>4, <1>6, <1>7, <1>8, <2>2, <2>4, <2>5
  <1> QED BY <1>9, <1>10

\* What one step of a walk may do to what the request has learnt.
Onward(w, u) ==
    /\ u.stopped = w.stopped /\ u.begun = w.begun /\ u.badProviders = w.badProviders
    /\ \A g \in GroupIds : w.cursor[g] <= u.cursor[g]

\* The rest of a queue from whose front some places were removed.
LEMMA RestOfQueue ==
    ASSUME NEW q \in Seq(GroupIds), NEW last \in 1 .. Len(q) + 1
    PROVE  /\ QueueAfter(q, last) \in Seq(GroupIds)
           /\ DOMAIN QueueAfter(q, last) = 1 .. Len(QueueAfter(q, last))
           /\ Len(QueueAfter(q, last)) \in Nat
           /\ \A p \in DOMAIN QueueAfter(q, last) : /\ last + p \in 1 .. Len(q)
                                                   /\ QueueAfter(q, last)[p] = q[last + p]
           /\ \A p \in 1 .. Len(q) : p > last => q[p] \in Range(QueueAfter(q, last))
  <1>1. PICK r : r = SubSeq(q, last + 1, Len(q))
        OBVIOUS
  <1>2. /\ r \in Seq(GroupIds) /\ Len(r) = IF last + 1 <= Len(q) THEN Len(q) - last ELSE 0
        /\ \A p \in 1 .. Len(r) : r[p] = q[last + p]
        BY <1>1
  <1>3. DOMAIN r = 1 .. Len(r) /\ Len(r) \in Nat
        BY <1>2
  <1>4. \A p \in DOMAIN r : last + p \in 1 .. Len(q) /\ r[p] = q[last + p]
        BY <1>2, <1>3
  <1>5. ASSUME NEW p \in 1 .. Len(q), p > last PROVE q[p] \in Range(r)
    <2>1. p - last \in DOMAIN r /\ last + (p - last) = p
          BY <1>2, <1>3, <1>5
    <2> QED BY <1>4, <2>1 DEF Range
  <1> QED BY <1>1, <1>2, <1>3, <1>4, <1>5 DEF QueueAfter

\* The queue of a good walk stays one when places are removed from its front and the
\* cursors of their deployments only move on.
LEMMA QueueStaysGood ==
    ASSUME NEW w, GoodWalk(w), NEW last \in 1 .. Len(w.queue) + 1, NEW c \in [GroupIds -> Nat],
           \A g \in GroupIds : w.cursor[g] <= c[g],
           \A p \in 1 .. Len(w.queue) : p > last => c[w.queue[p]] = w.cursor[w.queue[p]],
           \A p \in 1 .. Len(w.queue) : p <= last => \/ c[w.queue[p]] > 0
                                                    \/ Provider[w.queue[p]] \in w.badProviders
    PROVE  LET r == QueueAfter(w.queue, last) IN
           /\ \A p, q \in DOMAIN r : r[p] = r[q] => p = q
           /\ \A p, q \in DOMAIN r : p < q /\ c[r[p]] > 0 => c[r[q]] > 0
           /\ \A g \in GroupIds : c[g] = 0 => g \in Range(r) \/ Provider[g] \in w.badProviders
           /\ Range(r) \subseteq Range(w.queue)
  <1> DEFINE r == QueueAfter(w.queue, last)
  <1>1. /\ w.queue \in Seq(GroupIds) /\ Len(w.queue) \in Nat /\ DOMAIN w.queue = 1 .. Len(w.queue)
        /\ w.cursor \in [GroupIds -> Nat]
        BY WalkShape DEF GoodWalk
  <1>2. /\ DOMAIN r = 1 .. Len(r) /\ Len(r) \in Nat
        /\ \A p \in DOMAIN r : last + p \in 1 .. Len(w.queue) /\ r[p] = w.queue[last + p]
        /\ \A p \in 1 .. Len(w.queue) : p > last => w.queue[p] \in Range(r)
        BY <1>1, RestOfQueue
  <1> HIDE DEF r
  <1>3. /\ \A p, q \in DOMAIN w.queue : w.queue[p] = w.queue[q] => p = q
        /\ \A p, q \in DOMAIN w.queue : p < q /\ w.cursor[w.queue[p]] > 0 => w.cursor[w.queue[q]] > 0
        /\ \A g \in GroupIds : w.cursor[g] = 0 => g \in Range(w.queue) \/ Provider[g] \in w.badProviders
        BY DEF GoodWalk, FirstTurnsFirst
  <1>4. ASSUME NEW p \in DOMAIN r, NEW q \in DOMAIN r, r[p] = r[q] PROVE p = q
    <2>1. w.queue[last + p] = w.queue[last + q] /\ last + p \in DOMAIN w.queue /\ last + q \in DOMAIN w.queue
          BY <1>1, <1>2, <1>4
    <2>2. last + p = last + q
          BY <1>3, <2>1
    <2> QED BY <1>2, <2>2
  <1>5. ASSUME NEW p \in DOMAIN r PROVE c[r[p]] = w.cursor[r[p]]
    <2>1. last + p \in 1 .. Len(w.queue) /\ last + p > last /\ r[p] = w.queue[last + p]
          BY <1>2
    <2> QED BY <2>1
  <1>6. ASSUME NEW p \in DOMAIN r, NEW q \in DOMAIN r, p < q, c[r[p]] > 0 PROVE c[r[q]] > 0
    <2>1. last + p < last + q /\ w.cursor[w.queue[last + p]] > 0
          BY <1>2, <1>5, <1>6
    <2>2. last + p \in DOMAIN w.queue /\ last + q \in DOMAIN w.queue
          BY <1>1, <1>2
    <2>3. w.cursor[w.queue[last + q]] > 0
          BY <1>3, <2>1, <2>2
    <2> QED BY <1>2, <1>5, <2>3
  <1>7. ASSUME NEW g \in GroupIds, c[g] = 0 PROVE g \in Range(r) \/ Provider[g] \in w.badProviders
    <2>1. w.cursor[g] = 0
          BY <1>1, <1>7
    <2>2. CASE g \in Range(w.queue)
      <3>1. PICK p \in 1 .. Len(w.queue) : g = w.queue[p]
            BY <1>1, <2>2 DEF Range
      <3> QED BY <1>1, <1>2, <1>7, <3>1
    <2> QED BY <1>3, <2>1, <2>2
  <1>8. ASSUME NEW p \in DOMAIN r PROVE r[p] \in Range(w.queue)
    <2>1. last + p \in DOMAIN w.queue /\ r[p] = w.queue[last + p]
          BY <1>1, <1>2
    <2> QED BY <2>1 DEF Range
  <1>9. Range(r) \subseteq Range(w.queue)
        BY <1>8 DEF Range
  <1> QED BY <1>4, <1>6, <1>7, <1>9 DEF r

\* A sequence with one more element at its end.
LEMMA Appended ==
    ASSUME NEW S, NEW s \in Seq(S), NEW e \in S
    PROVE  /\ Append(s, e) \in Seq(S) /\ Len(Append(s, e)) = Len(s) + 1
           /\ \A p \in 1 .. Len(s) : Append(s, e)[p] = s[p]
           /\ Append(s, e)[Len(s) + 1] = e
           /\ DOMAIN Append(s, e) = 1 .. Len(s) + 1
           /\ Range(Append(s, e)) = Range(s) \cup {e}
  <1>1. PICK r : r = Append(s, e)
        OBVIOUS
  <1>2. /\ r \in Seq(S) /\ Len(r) = Len(s) + 1 /\ DOMAIN r = 1 .. Len(s) + 1
        /\ \A p \in 1 .. Len(s) : r[p] = s[p]
        /\ r[Len(s) + 1] = e /\ Len(s) \in Nat /\ DOMAIN s = 1 .. Len(s)
        BY <1>1
  <1>3. ASSUME NEW x \in Range(r) PROVE x \in Range(s) \cup {e}
    <2>1. PICK p \in 1 .. Len(s) + 1 : x = r[p]
          BY <1>2 DEF Range
    <2>2. p \in 1 .. Len(s) \/ p = Len(s) + 1
          BY <1>2
    <2> QED BY <1>2, <2>1, <2>2 DEF Range
  <1>4. \A x \in Range(s) : x \in Range(r)
    <2>1. ASSUME NEW p \in 1 .. Len(s) PROVE s[p] \in Range(r)
          BY <1>2, <2>1 DEF Range
    <2> QED BY <1>2, <2>1 DEF Range
  <1>5. e \in Range(r)
        BY <1>2 DEF Range
  <1> QED BY <1>1, <1>2, <1>3, <1>4, <1>5

\* The cursors after a turn of the queue.
LEMMA CursorsMoveOn ==
    ASSUME NEW w, GoodWalk(w), NEW last \in 1 .. Len(w.queue) + 1, NEW dry \in SUBSET GroupIds, dry = Dry(w, last), NEW c, c = Closing(w, dry)
    PROVE  /\ c \in [GroupIds -> Nat]
           /\ \A g \in GroupIds : w.cursor[g] <= c[g] /\ c[g] <= Len(Groups[g])
           /\ \A p \in 1 .. Len(w.queue) : p >= last => c[w.queue[p]] = w.cursor[w.queue[p]]
           /\ \A p \in 1 .. Len(w.queue) : p < last => \/ c[w.queue[p]] > 0
                                                       \/ Provider[w.queue[p]] \in w.badProviders
           /\ \A g \in GroupIds : c[g] = 0 => g \notin dry /\ w.cursor[g] = 0
  <1>1. /\ w.queue \in Seq(GroupIds) /\ Len(w.queue) \in Nat /\ DOMAIN w.queue = 1 .. Len(w.queue)
        /\ w.cursor \in [GroupIds -> Nat]
        BY WalkShape DEF GoodWalk
  <1>2. c = [g \in GroupIds |-> IF g \in dry THEN Len(Groups[g]) ELSE w.cursor[g]]
        BY DEF Closing
  <1>3. /\ \A g \in GroupIds : w.cursor[g] <= Len(Groups[g])
        /\ \A p, q \in DOMAIN w.queue : w.queue[p] = w.queue[q] => p = q
        /\ \A g \in GroupIds : w.cursor[g] = 0 => g \notin w.closed
        BY DEF GoodWalk, FirstTurnsFirst
  <1>4. c \in [GroupIds -> Nat]
        BY <1>1, <1>2, GroupShapes
  <1>5. ASSUME NEW g \in GroupIds
        PROVE  /\ w.cursor[g] <= c[g] /\ c[g] <= Len(Groups[g])
               /\ c[g] = 0 => g \notin dry /\ w.cursor[g] = 0
    <2>1. c[g] = IF g \in dry THEN Len(Groups[g]) ELSE w.cursor[g]
          BY <1>2
    <2>2. Len(Groups[g]) \in Nat \ {0} /\ w.cursor[g] \in Nat /\ w.cursor[g] <= Len(Groups[g])
          BY <1>1, <1>3, GroupShapes
    <2> QED BY <2>1, <2>2
  <1>6. ASSUME NEW p \in 1 .. Len(w.queue), p >= last PROVE c[w.queue[p]] = w.cursor[w.queue[p]]
    <2>1. w.queue[p] \notin dry
      <3>1. ASSUME NEW q \in 1 .. (last - 1) PROVE w.queue[q] # w.queue[p]
        <4>1. q \in DOMAIN w.queue /\ p \in DOMAIN w.queue /\ q # p
              BY <1>1, <1>6
        <4> QED BY <1>3, <4>1
      <3> QED BY <3>1 DEF Dry
    <2>2. w.queue[p] \in GroupIds
          BY <1>1
    <2> QED BY <1>2, <2>1, <2>2
  <1>7. ASSUME NEW p \in 1 .. Len(w.queue), p < last
        PROVE  c[w.queue[p]] > 0 \/ Provider[w.queue[p]] \in w.badProviders
    <2>1. w.queue[p] \in GroupIds /\ p \in 1 .. (last - 1)
          BY <1>1, <1>7
    <2>2. CASE w.queue[p] \in dry
      <3>1. c[w.queue[p]] = Len(Groups[w.queue[p]])
            BY <1>2, <2>1, <2>2
      <3> QED BY <2>1, <3>1, GroupShapes
    <2>3. CASE w.queue[p] \notin dry
      <3>1. Barred(w, w.queue[p])
            BY <2>1, <2>3 DEF Dry
      <3>2. CASE w.queue[p] \in w.closed
        <4>1. w.cursor[w.queue[p]] # 0 /\ c[w.queue[p]] = w.cursor[w.queue[p]]
              BY <1>2, <1>3, <2>1, <2>3, <3>2
        <4> QED BY <1>1, <2>1, <4>1
      <3> QED BY <3>1, <3>2 DEF Barred
    <2> QED BY <2>2, <2>3
  <1> QED BY <1>4, <1>5, <1>6, <1>7

\* What an offer taken from the queue is: the next credential of a deployment that
\* has had no turn, or of one all of whose fellows have had theirs.
FreshOffer(w, u, o) ==
    /\ w.cursor[GroupOf(o)] < Rank(o)
    /\ w.cursor[GroupOf(o)] > 0 => AllTouched(u)

\* What taking a candidate from the queue does to a walk.
LEMMA TakeFacts ==
    ASSUME NEW w, GoodWalk(w), NEW t, t = Take(w)
    PROVE  /\ GoodWalk(t.walk) /\ Onward(w, t.walk)
           /\ \/ t.offer = None /\ t.walk.pending = w.pending
              \/ /\ t.offer \in Attempts /\ t.walk.pending = Append(w.pending, t.offer)
                 /\ FreshOffer(w, t.walk, t.offer)
  <1>1. /\ w.queue \in Seq(GroupIds) /\ Len(w.queue) \in Nat /\ DOMAIN w.queue = 1 .. Len(w.queue)
        /\ w.cursor \in [GroupIds -> Nat]
        /\ w.pending \in Seq(Attempts) /\ Len(w.pending) \in Nat /\ DOMAIN w.pending = 1 .. Len(w.pending)
        /\ w \in WalkType /\ w.closed \in SUBSET GroupIds
        BY WalkShape DEF GoodWalk
  <1>2. PICK last \in 1 .. Len(w.queue) + 1, dry \in SUBSET GroupIds :
              /\ dry = Dry(w, last)
              /\ \/ last = Len(w.queue) + 1 /\ t = [walk |-> Drained(w, last, dry), offer |-> None]
                 \/ /\ last \in DOMAIN w.queue /\ ~Barred(w, w.queue[last])
                    /\ \E i \in Servable(w, w.queue[last]) :
                          t = [walk  |-> [Drained(w, last, dry) EXCEPT
                                             !.cursor[w.queue[last]] = i,
                                             !.pending = Append(@, Groups[w.queue[last]][i])],
                               offer |-> Groups[w.queue[last]][i]]
        BY TakeChooses
  <1>3. PICK c : c = Closing(w, dry)
        OBVIOUS
  <1>4. /\ c \in [GroupIds -> Nat]
        /\ \A g \in GroupIds : w.cursor[g] <= c[g] /\ c[g] <= Len(Groups[g])
        /\ \A p \in 1 .. Len(w.queue) : p >= last => c[w.queue[p]] = w.cursor[w.queue[p]]
        /\ \A p \in 1 .. Len(w.queue) : p < last => \/ c[w.queue[p]] > 0
                                                    \/ Provider[w.queue[p]] \in w.badProviders
        /\ \A g \in GroupIds : c[g] = 0 => g \notin dry /\ w.cursor[g] = 0
    <2>1. dry = Dry(w, last)
          BY <1>2
    <2> QED BY <1>3, <2>1, CursorsMoveOn
  <1>5. PICK rest : rest = QueueAfter(w.queue, last)
        OBVIOUS
  <1>6. rest \in Seq(GroupIds)
        BY <1>1, <1>5, RestOfQueue
  <1>7. PICK v : v = Drained(w, last, dry)
        OBVIOUS
  <1>8. /\ v \in WalkType
        /\ v.queue = rest /\ v.closed = w.closed \cup dry /\ v.cursor = c /\ v.pending = w.pending
        /\ v.begun = w.begun /\ v.stopped = w.stopped /\ v.badProviders = w.badProviders
    <2>1. v = [w EXCEPT !.queue = rest, !.closed = w.closed \cup dry, !.cursor = c]
          BY <1>1, <1>3, <1>5, <1>7 DEF Drained, Closing, WalkType
    <2>2. w.closed \cup dry \in SUBSET GroupIds
          BY <1>1
    <2> QED BY <1>1, <1>4, <1>6, <2>1, <2>2 DEF WalkType
  <1>9. /\ w.begun \subseteq Range(w.pending)
        /\ \A a \in Range(w.pending) : Rank(a) <= w.cursor[GroupOf(a)]
        /\ \A a \in Range(w.pending) : GroupOf(a) \notin Range(w.queue)
        /\ \A p, q \in DOMAIN w.pending : GroupOf(w.pending[p]) = GroupOf(w.pending[q]) => p = q
        /\ \A g \in GroupIds : w.cursor[g] = 0 => g \notin w.closed
        BY DEF GoodWalk, OffersAreOut, FirstTurnsFirst
  <1>10. \A a \in Range(w.pending) : a \in Attempts /\ GroupOf(a) \in GroupIds /\ Rank(a) \in Nat
        BY <1>1, PlaceOfAnAttempt DEF Range
  <1>11. CASE last = Len(w.queue) + 1 /\ t = [walk |-> Drained(w, last, dry), offer |-> None]
    <2>1. t.walk = v /\ t.offer = None
          BY <1>7, <1>11
    <2>2. Range(rest) \subseteq Range(w.queue)
          /\ (\A p, q \in DOMAIN rest : rest[p] = rest[q] => p = q)
          /\ (\A p, q \in DOMAIN rest : p < q /\ c[rest[p]] > 0 => c[rest[q]] > 0)
          /\ (\A g \in GroupIds : c[g] = 0 => g \in Range(rest) \/ Provider[g] \in w.badProviders)
      <3>1. \A p \in 1 .. Len(w.queue) : p <= last => \/ c[w.queue[p]] > 0
                                                      \/ Provider[w.queue[p]] \in w.badProviders
            BY <1>1, <1>4, <1>11
      <3>2. \A p \in 1 .. Len(w.queue) : p > last => c[w.queue[p]] = w.cursor[w.queue[p]]
            BY <1>1, <1>4
      <3> QED BY <1>4, <1>5, <3>1, <3>2, QueueStaysGood
    <2>3. OffersAreOut(v)
      <3>1. ASSUME NEW a \in Range(w.pending) PROVE Rank(a) <= c[GroupOf(a)] /\ GroupOf(a) \notin Range(rest)
        <4>1. Rank(a) <= w.cursor[GroupOf(a)] /\ w.cursor[GroupOf(a)] <= c[GroupOf(a)]
              BY <1>4, <1>9, <1>10
        <4>2. Rank(a) \in Nat /\ w.cursor[GroupOf(a)] \in Nat /\ c[GroupOf(a)] \in Nat
              BY <1>1, <1>4, <1>10
        <4> QED BY <1>9, <2>2, <4>1, <4>2
      <3> QED BY <1>8, <1>9, <3>1 DEF OffersAreOut
    <2>4. FirstTurnsFirst(v)
      <3>1. \A g \in GroupIds : c[g] = 0 => g \notin w.closed \cup dry
            BY <1>4, <1>9
      <3> QED BY <1>4, <1>8, <2>2, <3>1 DEF FirstTurnsFirst
    <2>5. Onward(w, v)
          BY <1>4, <1>8 DEF Onward
    <2> QED BY <1>8, <2>1, <2>3, <2>4, <2>5 DEF GoodWalk
  <1>12. ASSUME last \in DOMAIN w.queue, ~Barred(w, w.queue[last]), NEW i \in Servable(w, w.queue[last]),
                t = [walk  |-> [Drained(w, last, dry) EXCEPT
                                   !.cursor[w.queue[last]] = i,
                                   !.pending = Append(@, Groups[w.queue[last]][i])],
                     offer |-> Groups[w.queue[last]][i]]
         PROVE  /\ GoodWalk(t.walk) /\ Onward(w, t.walk)
                /\ t.offer \in Attempts /\ t.walk.pending = Append(w.pending, t.offer)
                /\ FreshOffer(w, t.walk, t.offer)
    <2>1. PICK g : g = w.queue[last]
          OBVIOUS
    <2>2. PICK o : o = Groups[g][i]
          OBVIOUS
    <2>3. PICK e : e = [c EXCEPT ![g] = i]
          OBVIOUS
    <2>4. PICK u : u = t.walk
          OBVIOUS
    <2>5. g \in GroupIds /\ i \in Nat /\ w.cursor[g] < i /\ i <= Len(Groups[g]) /\ i \in 1 .. Len(Groups[g])
      <3>1. g \in GroupIds
            BY <1>1, <1>12, <2>1
      <3>2. i \in (w.cursor[g] + 1) .. Len(Groups[g])
            BY <1>12, <2>1 DEF Servable
      <3>3. Len(Groups[g]) \in Nat /\ w.cursor[g] \in Nat
            BY <1>1, <3>1, GroupShapes
      <3> QED BY <3>1, <3>2, <3>3
    <2>6. o \in Attempts /\ GroupOf(o) = g /\ Rank(o) = i
          BY <2>2, <2>5, PlaceOfAnAttempt
    <2>7. t.offer = o /\ u = [v EXCEPT !.cursor[g] = i, !.pending = Append(@, o)]
          BY <1>7, <1>12, <2>1, <2>2, <2>4
    <2>8. /\ Append(w.pending, o) \in Seq(Attempts)
          /\ \A p \in 1 .. Len(w.pending) : Append(w.pending, o)[p] = w.pending[p]
          /\ Append(w.pending, o)[Len(w.pending) + 1] = o
          /\ DOMAIN Append(w.pending, o) = 1 .. Len(w.pending) + 1
          /\ Range(Append(w.pending, o)) = Range(w.pending) \cup {o}
          BY <1>1, <2>6, Appended
    <2>9. PICK pend : pend = Append(w.pending, o)
          OBVIOUS
    <2>10. /\ e \in [GroupIds -> Nat] /\ e[g] = i
           /\ \A h \in GroupIds : h # g => e[h] = c[h]
          BY <1>4, <2>3, <2>5
    <2>11. /\ u \in WalkType
           /\ u.queue = rest /\ u.closed = w.closed \cup dry /\ u.cursor = e /\ u.pending = pend
           /\ u.begun = w.begun /\ u.stopped = w.stopped /\ u.badProviders = w.badProviders
      <3>1. u = [v EXCEPT !.cursor = e, !.pending = pend]
            BY <1>8, <2>3, <2>7, <2>9 DEF WalkType
      <3>2. pend \in Seq(Attempts)
            BY <2>8, <2>9
      <3> QED BY <1>8, <2>10, <3>1, <3>2 DEF WalkType
    <2>12. ASSUME NEW h \in GroupIds PROVE w.cursor[h] <= e[h] /\ e[h] <= Len(Groups[h])
      <3>1. CASE h = g
            BY <1>1, <2>5, <2>10, <3>1
      <3> QED BY <1>4, <2>10, <3>1
    <2>13. \A p \in DOMAIN w.queue : w.queue[p] = g => p = last
          BY <1>12, <2>1 DEF GoodWalk, FirstTurnsFirst
    <2>14. Range(rest) \subseteq Range(w.queue)
           /\ (\A p, q \in DOMAIN rest : rest[p] = rest[q] => p = q)
           /\ (\A p, q \in DOMAIN rest : p < q /\ e[rest[p]] > 0 => e[rest[q]] > 0)
           /\ (\A h \in GroupIds : e[h] = 0 => h \in Range(rest) \/ Provider[h] \in w.badProviders)
      <3>1. ASSUME NEW p \in 1 .. Len(w.queue), p <= last
            PROVE  e[w.queue[p]] > 0 \/ Provider[w.queue[p]] \in w.badProviders
        <4>1. CASE p = last
              BY <1>1, <2>1, <2>5, <2>10, <4>1
        <4>2. CASE p < last
          <5>1. w.queue[p] # g /\ w.queue[p] \in GroupIds
                BY <1>1, <2>13, <4>2
          <5> QED BY <1>4, <2>10, <4>2, <5>1
        <4>3. last \in Nat
              BY <1>1
        <4> QED BY <3>1, <4>1, <4>2, <4>3
      <3>2. ASSUME NEW p \in 1 .. Len(w.queue), p > last PROVE e[w.queue[p]] = w.cursor[w.queue[p]]
        <4>1. w.queue[p] # g /\ w.queue[p] \in GroupIds
              BY <1>1, <2>13, <3>2
        <4> QED BY <1>4, <2>10, <3>2, <4>1
      <3> QED BY <1>5, <2>10, <2>12, <3>1, <3>2, QueueStaysGood
    <2>15. g \in Range(w.queue) /\ g \notin Range(rest)
      <3>1. g \in Range(w.queue)
            BY <1>12, <2>1 DEF Range
      <3>2. ASSUME g \in Range(rest) PROVE FALSE
        <4>1. PICK p \in DOMAIN rest : rest[p] = g
              BY <3>2 DEF Range
        <4>2. DOMAIN rest = 1 .. Len(rest) /\ last + p \in 1 .. Len(w.queue) /\ rest[p] = w.queue[last + p]
              BY <1>1, <1>5, <4>1, RestOfQueue
        <4>3. last + p \in DOMAIN w.queue /\ w.queue[last + p] = g /\ last + p # last
              BY <1>1, <4>1, <4>2
        <4> QED BY <2>13, <4>3
      <3> QED BY <3>1, <3>2
    <2>16. OffersAreOut(u)
      <3>1. ASSUME NEW a \in Range(w.pending)
            PROVE  Rank(a) <= e[GroupOf(a)] /\ GroupOf(a) \notin Range(rest) /\ GroupOf(a) # g
        <4>1. Rank(a) <= w.cursor[GroupOf(a)] /\ w.cursor[GroupOf(a)] <= e[GroupOf(a)]
              BY <1>9, <1>10, <2>12
        <4>2. Rank(a) \in Nat /\ w.cursor[GroupOf(a)] \in Nat /\ e[GroupOf(a)] \in Nat
              BY <1>1, <1>10, <2>10
        <4> QED BY <1>9, <2>14, <2>15, <4>1, <4>2
      <3>2. \A a \in Range(pend) : Rank(a) <= e[GroupOf(a)] /\ GroupOf(a) \notin Range(rest)
            BY <2>5, <2>6, <2>8, <2>9, <2>10, <2>15, <3>1
      <3>3. ASSUME NEW p \in DOMAIN pend, NEW q \in DOMAIN pend, GroupOf(pend[p]) = GroupOf(pend[q])
            PROVE  p = q
        <4>1. \A r \in DOMAIN pend : \/ r \in DOMAIN w.pending /\ pend[r] = w.pending[r]
                                     \/ r = Len(w.pending) + 1 /\ pend[r] = o
              BY <1>1, <2>8, <2>9
        <4>2. \A r \in DOMAIN w.pending : GroupOf(w.pending[r]) # g
              BY <3>1 DEF Range
        <4> QED BY <1>9, <2>6, <3>3, <4>1, <4>2
      <3>4. w.begun \subseteq Range(pend)
            BY <1>9, <2>8, <2>9
      <3> QED BY <2>11, <3>2, <3>3, <3>4 DEF OffersAreOut
    <2>17. FirstTurnsFirst(u)
      <3>1. ASSUME NEW h \in GroupIds, e[h] = 0 PROVE h \notin w.closed \cup dry
        <4>1. h # g /\ c[h] = 0
              BY <2>5, <2>10, <3>1
        <4> QED BY <1>4, <1>9, <4>1
      <3> QED BY <2>11, <2>12, <2>14, <3>1 DEF FirstTurnsFirst
    <2>18. Onward(w, u)
          BY <2>11, <2>12 DEF Onward
    <2>19. ASSUME w.cursor[g] > 0, NEW h \in GroupIds PROVE e[h] > 0 \/ Provider[h] \in w.badProviders
      <3>1. CASE e[h] # 0
            BY <2>10, <3>1
      <3>2. CASE e[h] = 0 /\ Provider[h] \notin w.badProviders
        <4>1. h \in Range(rest)
              BY <2>14, <3>2
        <4>2. PICK p \in DOMAIN rest : rest[p] = h
              BY <4>1 DEF Range
        <4>3. last + p \in DOMAIN w.queue /\ w.queue[last + p] = h /\ last < last + p
          <5>1. /\ DOMAIN rest = 1 .. Len(rest) /\ Len(rest) \in Nat
                /\ \A r \in DOMAIN rest : last + r \in 1 .. Len(w.queue) /\ rest[r] = w.queue[last + r]
                BY <1>1, <1>5, RestOfQueue
          <5>2. p \in Nat /\ p > 0
                BY <4>2, <5>1
          <5>3. last \in Nat
                BY <1>1
          <5>4. last < last + p
                BY <5>2, <5>3
          <5>5. last + p \in 1 .. Len(w.queue) /\ rest[p] = w.queue[last + p]
                BY <4>2, <5>1
          <5>6. last + p \in DOMAIN w.queue
                BY <1>1, <5>5
          <5>7. w.queue[last + p] = h
                BY <4>2, <5>5
          <5> QED BY <5>4, <5>6, <5>7
        <4>4. w.cursor[h] > 0
              BY <1>12, <2>1, <2>19, <4>3 DEF GoodWalk, FirstTurnsFirst
        <4>5. w.cursor[h] <= e[h] /\ w.cursor[h] \in Nat
              BY <1>1, <2>12
        <4> QED BY <3>2, <4>4, <4>5
      <3> QED BY <3>1, <3>2
    <2>20. FreshOffer(w, u, o)
          BY <2>5, <2>6, <2>11, <2>19 DEF FreshOffer, AllTouched
    <2> QED BY <2>4, <2>6, <2>7, <2>9, <2>11, <2>16, <2>17, <2>18, <2>20 DEF GoodWalk
  <1> QED BY <1>2, <1>11, <1>12

\* What the walk may still hand out.
Left(w) == {a \in Attempts : a \in Range(w.pending) \/ w.cursor[GroupOf(a)] < Rank(a)}

\* Forgetting an attempt that is out leaves the other attempts, and a deployment that
\* is in no queue although its turn has begun.
LEMMA DropFacts ==
    ASSUME NEW w, GoodWalk(w), NEW a \in Range(w.pending), NEW v, v = Drop(w, a)
    PROVE  /\ GoodWalk(v)
           /\ v.queue = w.queue /\ v.cursor = w.cursor /\ v.closed = w.closed /\ v.stopped = w.stopped
           /\ v.badProviders = w.badProviders /\ v.suppressed = w.suppressed /\ v.begun = w.begun \ {a}
           /\ Range(v.pending) = Range(w.pending) \ {a} /\ Len(v.pending) = Len(w.pending) - 1
           /\ \A b \in Range(v.pending) : GroupOf(b) # GroupOf(a)
           /\ a \in Attempts /\ GroupOf(a) \in GroupIds /\ GroupOf(a) \notin Range(w.queue)
           /\ w.cursor[GroupOf(a)] >= Rank(a) /\ w.cursor[GroupOf(a)] > 0
  <1>1. /\ w.cursor \in [GroupIds -> Nat] /\ w \in WalkType
        /\ w.pending \in Seq(Attempts) /\ Len(w.pending) \in Nat /\ DOMAIN w.pending = 1 .. Len(w.pending)
        /\ w.begun \in SUBSET Attempts
        BY WalkShape DEF GoodWalk
  <1>2. /\ w.begun \subseteq Range(w.pending)
        /\ \A b \in Range(w.pending) : Rank(b) <= w.cursor[GroupOf(b)]
        /\ \A b \in Range(w.pending) : GroupOf(b) \notin Range(w.queue)
        /\ \A p, q \in DOMAIN w.pending : GroupOf(w.pending[p]) = GroupOf(w.pending[q]) => p = q
        BY DEF GoodWalk, OffersAreOut
  <1>3. PICK k \in 1 .. Len(w.pending) : w.pending[k] = a
        BY <1>1 DEF Range
  <1>4. a \in Attempts /\ GroupOf(a) \in GroupIds /\ Rank(a) \in Nat /\ Rank(a) >= 1
    <2>1. a \in Attempts
          BY <1>1, <1>3
    <2>2. GroupOf(a) \in GroupIds /\ Rank(a) \in 1 .. Len(Groups[GroupOf(a)]) /\ Len(Groups[GroupOf(a)]) \in Nat
          BY <2>1, PlaceOfAnAttempt, GroupShapes
    <2> QED BY <2>1, <2>2
  <1>5. PICK rest : rest = RemoveFirst(w.pending, a)
        OBVIOUS
  <1>6. /\ rest \in Seq(Attempts) /\ Len(rest) = Len(w.pending) - 1
        /\ \A j \in 1 .. Len(w.pending) - 1 : rest[j] = IF j < k THEN w.pending[j] ELSE w.pending[j + 1]
    <2>1. \A j \in 1 .. Len(w.pending) : w.pending[j] = w.pending[k] => j = k
          BY <1>1, <1>2
    <2> QED BY <1>1, <1>3, <1>5, <2>1, RemovedOnce
  <1>7. DOMAIN rest = 1 .. Len(w.pending) - 1
        BY <1>6
  <1>8. ASSUME NEW j \in DOMAIN rest
        PROVE  /\ j < k => j \in DOMAIN w.pending /\ rest[j] = w.pending[j]
               /\ j >= k => j + 1 \in DOMAIN w.pending /\ rest[j] = w.pending[j + 1]
        BY <1>1, <1>6, <1>7
  <1>9. Range(rest) = Range(w.pending) \ {a}
    <2>1. ASSUME NEW j \in DOMAIN rest PROVE rest[j] \in Range(w.pending) /\ rest[j] # a
      <3>1. PICK p \in DOMAIN w.pending : p # k /\ rest[j] = w.pending[p]
        <4>1. CASE j < k
              BY <1>1, <1>7, <1>8, <4>1
        <4>2. CASE j >= k
              BY <1>1, <1>7, <1>8, <4>2
        <4> QED BY <1>7, <4>1, <4>2
      <3>2. w.pending[p] # w.pending[k]
            BY <1>1, <1>2, <3>1
      <3> QED BY <1>3, <3>1, <3>2 DEF Range
    <2>2. ASSUME NEW p \in DOMAIN w.pending, w.pending[p] # a PROVE w.pending[p] \in Range(rest)
      <3>1. CASE p < k
        <4>1. p \in DOMAIN rest /\ rest[p] = w.pending[p]
              BY <1>1, <1>6, <1>7, <3>1
        <4> QED BY <4>1 DEF Range
      <3>2. CASE p > k
        <4>1. p - 1 \in DOMAIN rest /\ ~(p - 1 < k) /\ (p - 1) + 1 = p
              BY <1>1, <1>7, <3>2
        <4>2. rest[p - 1] = w.pending[p]
              BY <1>1, <1>6, <4>1
        <4> QED BY <4>1, <4>2 DEF Range
      <3>3. p # k
            BY <1>3, <2>2
      <3> QED BY <1>1, <3>1, <3>2, <3>3
    <2> QED BY <2>1, <2>2 DEF Range
  <1>10. /\ v \in WalkType
         /\ v.queue = w.queue /\ v.cursor = w.cursor /\ v.closed = w.closed /\ v.stopped = w.stopped
         /\ v.badProviders = w.badProviders /\ v.suppressed = w.suppressed /\ v.begun = w.begun \ {a}
         /\ v.pending = rest
    <2>1. v = [w EXCEPT !.pending = rest, !.begun = w.begun \ {a}]
          BY <1>1, <1>5 DEF Drop, WalkType
    <2>2. w.begun \ {a} \in SUBSET Attempts
          BY <1>1
    <2> QED BY <1>1, <1>6, <2>1, <2>2 DEF WalkType
  <1>11. ASSUME NEW p \in DOMAIN rest, NEW q \in DOMAIN rest, GroupOf(rest[p]) = GroupOf(rest[q])
         PROVE  p = q
    <2>1. ASSUME NEW r \in DOMAIN rest
          PROVE  \E i \in DOMAIN w.pending : /\ rest[r] = w.pending[i]
                                             /\ (r < k /\ i = r) \/ (r >= k /\ i = r + 1)
      <3>1. r \in Int /\ k \in Int
            BY <1>7
      <3> QED BY <1>8, <3>1
    <2>2. PICK i \in DOMAIN w.pending : /\ rest[p] = w.pending[i]
                                        /\ (p < k /\ i = p) \/ (p >= k /\ i = p + 1)
          BY <2>1
    <2>3. PICK j \in DOMAIN w.pending : /\ rest[q] = w.pending[j]
                                        /\ (q < k /\ j = q) \/ (q >= k /\ j = q + 1)
          BY <2>1
    <2>4. i = j
          BY <1>2, <1>11, <2>2, <2>3
    <2> QED BY <1>7, <2>2, <2>3, <2>4
  <1>12. \A b \in Range(rest) : GroupOf(b) # GroupOf(a)
    <2>1. ASSUME NEW b \in Range(rest) PROVE GroupOf(b) # GroupOf(a)
      <3>1. b \in Range(w.pending) /\ b # a
            BY <1>9
      <3>2. PICK p \in DOMAIN w.pending : b = w.pending[p]
            BY <3>1 DEF Range
      <3> QED BY <1>1, <1>2, <1>3, <3>1, <3>2
    <2> QED BY <2>1
  <1>13. OffersAreOut(v)
         BY <1>2, <1>9, <1>10, <1>11 DEF OffersAreOut
  <1>14. FirstTurnsFirst(v)
         BY <1>10 DEF GoodWalk, FirstTurnsFirst
  <1>15. w.cursor[GroupOf(a)] \in Nat /\ w.cursor[GroupOf(a)] >= Rank(a) /\ w.cursor[GroupOf(a)] > 0
         BY <1>1, <1>2, <1>4
  <1> QED BY <1>2, <1>4, <1>6, <1>9, <1>10, <1>12, <1>13, <1>14, <1>15 DEF GoodWalk

\* What is left once an attempt is dropped and its deployment given its next turn.
LEMMA ReleaseFacts ==
    ASSUME NEW v, GoodWalk(v), NEW g \in GroupIds, v.cursor[g] > 0, g \notin Range(v.queue),
           \A b \in Range(v.pending) : GroupOf(b) # g,
           NEW u, \/ u = ReleaseGroup(v, g)
                  \/ u = [v EXCEPT !.closed = @ \cup {g}]
    PROVE  /\ GoodWalk(u)
           /\ u.cursor = v.cursor /\ u.stopped = v.stopped /\ u.begun = v.begun
           /\ u.badProviders = v.badProviders /\ u.pending = v.pending
  <1>1. /\ v.cursor \in [GroupIds -> Nat] /\ v \in WalkType
        /\ v.queue \in Seq(GroupIds) /\ Len(v.queue) \in Nat /\ DOMAIN v.queue = 1 .. Len(v.queue)
        /\ v.closed \in SUBSET GroupIds
        BY WalkShape DEF GoodWalk
  <1>2. /\ \A h \in GroupIds : v.cursor[h] <= Len(Groups[h])
        /\ \A p, q \in DOMAIN v.queue : v.queue[p] = v.queue[q] => p = q
        /\ \A p, q \in DOMAIN v.queue : p < q /\ v.cursor[v.queue[p]] > 0 => v.cursor[v.queue[q]] > 0
        /\ \A h \in GroupIds : v.cursor[h] = 0 => h \in Range(v.queue) \/ Provider[h] \in v.badProviders
        /\ \A h \in GroupIds : v.cursor[h] = 0 => h \notin v.closed
        BY DEF GoodWalk, FirstTurnsFirst
  <1>3. CASE u = [v EXCEPT !.closed = @ \cup {g}]
    <2>1. /\ u \in WalkType /\ u.closed = v.closed \cup {g}
          /\ u.queue = v.queue /\ u.cursor = v.cursor /\ u.stopped = v.stopped /\ u.begun = v.begun
          /\ u.badProviders = v.badProviders /\ u.pending = v.pending
          BY <1>1, <1>3 DEF WalkType
    <2>2. OffersAreOut(u)
          BY <2>1 DEF GoodWalk, OffersAreOut
    <2>3. FirstTurnsFirst(u)
          BY <1>2, <2>1 DEF FirstTurnsFirst
    <2> QED BY <2>1, <2>2, <2>3 DEF GoodWalk
  <1>4. CASE u = [v EXCEPT !.queue = Append(@, g)]
    <2>1. PICK q : q = Append(v.queue, g)
          OBVIOUS
    <2>2. /\ q \in Seq(GroupIds) /\ DOMAIN q = 1 .. Len(v.queue) + 1
          /\ \A p \in 1 .. Len(v.queue) : q[p] = v.queue[p]
          /\ q[Len(v.queue) + 1] = g
          /\ Range(q) = Range(v.queue) \cup {g}
          BY <1>1, <2>1, Appended
    <2>3. /\ u \in WalkType /\ u.queue = q
          /\ u.closed = v.closed /\ u.cursor = v.cursor /\ u.stopped = v.stopped /\ u.begun = v.begun
          /\ u.badProviders = v.badProviders /\ u.pending = v.pending
          BY <1>1, <1>4, <2>1, <2>2 DEF WalkType
    <2>4. OffersAreOut(u)
          BY <2>2, <2>3 DEF GoodWalk, OffersAreOut
    <2>5. \A p \in DOMAIN q : \/ p \in DOMAIN v.queue /\ q[p] = v.queue[p] /\ q[p] # g /\ p < Len(v.queue) + 1
                              \/ p = Len(v.queue) + 1 /\ q[p] = g
          BY <1>1, <2>2 DEF Range
    <2>6. \A p, r \in DOMAIN q : q[p] = q[r] => p = r
          BY <1>2, <2>5
    <2>7. ASSUME NEW p \in DOMAIN q, NEW r \in DOMAIN q, p < r, v.cursor[q[p]] > 0 PROVE v.cursor[q[r]] > 0
      <3>1. CASE q[r] = g
            BY <3>1
      <3>2. CASE r \in DOMAIN v.queue /\ q[r] = v.queue[r]
        <4>1. p \in DOMAIN v.queue /\ q[p] = v.queue[p]
              BY <1>1, <2>2, <2>7, <3>2
        <4> QED BY <1>2, <2>7, <3>2, <4>1
      <3> QED BY <2>5, <3>1, <3>2
    <2>8. FirstTurnsFirst(u)
          BY <1>2, <2>2, <2>3, <2>6, <2>7 DEF FirstTurnsFirst
    <2> QED BY <2>3, <2>4, <2>8 DEF GoodWalk
  <1> QED BY <1>3, <1>4 DEF ReleaseGroup

\* A candidate that is handed out and not used: the walk forgets it and goes on.
LEMMA RejectFacts ==
    ASSUME NEW w, GoodWalk(w), NEW a \in Range(w.pending), NEW r, r = RecordRejected(w, a)
    PROVE  /\ GoodWalk(r)
           /\ r.cursor = w.cursor /\ r.stopped = w.stopped /\ r.badProviders = w.badProviders
           /\ r.begun = w.begun \ {a}
           /\ Range(r.pending) = Range(w.pending) \ {a} /\ Len(r.pending) = Len(w.pending) - 1
           /\ Left(r) \subseteq Left(w) \ {a} /\ a \in Left(w)
  <1>1. PICK v : v = Drop(w, a)
        OBVIOUS
  <1>2. PICK g : g = GroupOf(a)
        OBVIOUS
  <1>3. /\ GoodWalk(v)
        /\ v.queue = w.queue /\ v.cursor = w.cursor /\ v.stopped = w.stopped
        /\ v.badProviders = w.badProviders /\ v.begun = w.begun \ {a}
        /\ Range(v.pending) = Range(w.pending) \ {a} /\ Len(v.pending) = Len(w.pending) - 1
        /\ \A b \in Range(v.pending) : GroupOf(b) # g
        /\ a \in Attempts /\ g \in GroupIds /\ g \notin Range(w.queue)
        /\ w.cursor[g] >= Rank(a) /\ w.cursor[g] > 0
        BY <1>1, <1>2, DropFacts
  <1>4. r = ReleaseGroup(v, g)
        BY <1>1, <1>2 DEF RecordRejected
  <1>5. /\ GoodWalk(r)
        /\ r.cursor = v.cursor /\ r.stopped = v.stopped /\ r.begun = v.begun
        /\ r.badProviders = v.badProviders /\ r.pending = v.pending
        BY <1>3, <1>4, ReleaseFacts
  <1>6. ASSUME NEW b \in Left(r) PROVE b \in Left(w) /\ b # a
    <2>1. b \in Attempts /\ (b \in Range(w.pending) \ {a} \/ w.cursor[GroupOf(b)] < Rank(b))
          BY <1>3, <1>5 DEF Left
    <2>2. w.cursor[g] \in Nat /\ Rank(a) \in Nat
      <3>1. w.cursor \in [GroupIds -> Nat]
            BY WalkShape DEF GoodWalk
      <3>2. Rank(a) \in 1 .. Len(Groups[g]) /\ Len(Groups[g]) \in Nat
            BY <1>2, <1>3, PlaceOfAnAttempt, GroupShapes
      <3> QED BY <1>3, <3>1, <3>2
    <2>3. ~(w.cursor[GroupOf(a)] < Rank(a))
          BY <1>2, <1>3, <2>2
    <2> QED BY <2>1, <2>3 DEF Left
  <1>7. a \in Left(w)
        BY <1>3 DEF Left
  <1> QED BY <1>3, <1>5, <1>6, <1>7

\* Losing a hedge race is the same for the walk.
LEMMA AbandonIsReject == \A w, a : RecordAbandoned(w, a) = RecordRejected(w, a)
    BY DEF RecordAbandoned, RecordRejected

Kinds == {"success", "local", "client", "cancelled", "provider-transport", "credential", "deployment",
          "timeout", "protocol"}

\* An attempt is over, in any of the ways the loop records.
LEMMA RecordFacts ==
    ASSUME NEW w, GoodWalk(w), NEW a \in Range(w.pending), NEW kind \in Kinds, NEW scope \in Scopes,
           NEW u, u = Record(w, a, kind, scope)
    PROVE  /\ GoodWalk(u)
           /\ u.cursor = w.cursor /\ w.badProviders \subseteq u.badProviders
           /\ u.begun = w.begun \ {a}
           /\ Range(u.pending) = Range(w.pending) \ {a} /\ Len(u.pending) = Len(w.pending) - 1
  <1>1. PICK v : v = Drop(w, a)
        OBVIOUS
  <1>2. PICK g : g = GroupOf(a)
        OBVIOUS
  <1>3. /\ GoodWalk(v)
        /\ v.queue = w.queue /\ v.cursor = w.cursor /\ v.stopped = w.stopped
        /\ v.badProviders = w.badProviders /\ v.begun = w.begun \ {a}
        /\ Range(v.pending) = Range(w.pending) \ {a} /\ Len(v.pending) = Len(w.pending) - 1
        /\ \A b \in Range(v.pending) : GroupOf(b) # g
        /\ a \in Attempts /\ g \in GroupIds /\ g \notin Range(w.queue)
        /\ w.cursor[g] >= Rank(a) /\ w.cursor[g] > 0
        BY <1>1, <1>2, DropFacts
  <1>4. v \in WalkType /\ v.badProviders \in SUBSET Range(Provider) /\ v.suppressed \in SUBSET Attempts
        BY <1>3, WalkShape DEF GoodWalk
  <1>5. CASE u = [v EXCEPT !.stopped = "yes"]
    <2>1. /\ u \in WalkType /\ u.queue = v.queue /\ u.cursor = v.cursor /\ u.badProviders = v.badProviders
          /\ u.begun = v.begun /\ u.pending = v.pending /\ u.closed = v.closed
          BY <1>4, <1>5 DEF WalkType
    <2>2. OffersAreOut(u) /\ FirstTurnsFirst(u)
          BY <1>3, <2>1 DEF GoodWalk, OffersAreOut, FirstTurnsFirst
    <2> QED BY <1>3, <2>1, <2>2 DEF GoodWalk
  <1>6. CASE u = [v EXCEPT !.badProviders = @ \cup {Provider[g]}]
    <2>1. v.badProviders \cup {Provider[g]} \in SUBSET Range(Provider)
          BY <1>3, <1>4, GroupsAssumption DEF Range
    <2>2. /\ u \in WalkType /\ u.queue = v.queue /\ u.cursor = v.cursor
          /\ u.badProviders = v.badProviders \cup {Provider[g]}
          /\ u.begun = v.begun /\ u.pending = v.pending /\ u.closed = v.closed
          BY <1>4, <1>6, <2>1 DEF WalkType
    <2>3. OffersAreOut(u) /\ FirstTurnsFirst(u)
          BY <1>3, <2>2 DEF GoodWalk, OffersAreOut, FirstTurnsFirst
    <2> QED BY <1>3, <2>2, <2>3 DEF GoodWalk
  <1>7. ASSUME NEW s \in SUBSET Attempts,
               \/ u = ReleaseGroup([v EXCEPT !.suppressed = @ \cup s], g)
               \/ u = [[v EXCEPT !.suppressed = @ \cup s] EXCEPT !.closed = @ \cup {g}]
        PROVE  /\ GoodWalk(u)
               /\ u.cursor = w.cursor /\ u.badProviders = w.badProviders /\ u.begun = w.begun \ {a}
               /\ u.pending = v.pending
    <2>1. PICK x : x = [v EXCEPT !.suppressed = @ \cup s]
          OBVIOUS
    <2>2. /\ x \in WalkType /\ x.queue = v.queue /\ x.cursor = v.cursor /\ x.badProviders = v.badProviders
          /\ x.begun = v.begun /\ x.pending = v.pending /\ x.closed = v.closed
      <3>1. v.suppressed \cup s \in SUBSET Attempts
            BY <1>4
      <3> QED BY <1>4, <2>1, <3>1 DEF WalkType
    <2>3. OffersAreOut(x) /\ FirstTurnsFirst(x)
          BY <1>3, <2>2 DEF GoodWalk, OffersAreOut, FirstTurnsFirst
    <2>4. GoodWalk(x)
          BY <2>2, <2>3 DEF GoodWalk
    <2>5. u = ReleaseGroup(x, g) \/ u = [x EXCEPT !.closed = @ \cup {g}]
          BY <1>7, <2>1
    <2> QED BY <1>3, <2>2, <2>4, <2>5, ReleaseFacts
  <1>8. ScopeMatches(scope, a) \in SUBSET Attempts
    <2>1. Range(Groups[g]) \subseteq Attempts
          BY <1>3 DEF Attempts
    <2>2. CASE scope = "none" \/ scope = "attempt"
          BY <1>3, <2>2 DEF ScopeMatches
    <2>3. CASE scope = "deployment"
      <3>1. ScopeMatches(scope, a) = Range(Groups[g])
            BY <1>2, <2>3 DEF ScopeMatches
      <3> QED BY <2>1, <3>1
    <2>4. CASE scope = "credential" \/ scope = "provider"
          BY <2>4 DEF ScopeMatches
    <2> QED BY <2>2, <2>3, <2>4 DEF Scopes
  <1>9. CASE kind \in {"success", "local", "client", "cancelled"}
    <2>1. u = [v EXCEPT !.stopped = "yes"]
          BY <1>1, <1>9 DEF Record
    <2> QED BY <1>3, <1>5, <2>1
  <1>10. CASE kind = "provider-transport"
    <2>1. u = [v EXCEPT !.badProviders = @ \cup {Provider[g]}]
          BY <1>1, <1>2, <1>10 DEF Record
    <2> QED BY <1>3, <1>6, <2>1
  <1>11. CASE kind \in {"credential", "deployment", "timeout", "protocol"}
    <2>1. PICK s : s = IF /\ \/ scope \in {"attempt", "credential"}
                             \/ scope = "none" /\ kind = "credential"
                          /\ scope = "none"
                       THEN {a} ELSE ScopeMatches(scope, a)
          OBVIOUS
    <2>2. s \in SUBSET Attempts
          BY <1>3, <1>8, <2>1
    <2>3. \/ u = ReleaseGroup([v EXCEPT !.suppressed = @ \cup s], g)
          \/ u = [[v EXCEPT !.suppressed = @ \cup s] EXCEPT !.closed = @ \cup {g}]
          BY <1>1, <1>2, <1>11, <2>1 DEF Record
    <2> QED BY <1>3, <1>7, <2>2, <2>3
  <1> QED BY <1>9, <1>10, <1>11 DEF Kinds

\* The walk may be asked without its giving out again what is already under way.
CanAsk(w) ==
    /\ Len(w.pending) <= MaxInFlight
    /\ Range(w.pending) \subseteq w.begun => Len(w.pending) < MaxInFlight

\* Where an offer comes from.
NewOrKept(w, u, o) == o \in Range(w.pending) \/ FreshOffer(w, u, o)

\* What asking a walk for a candidate gives.
LEMMA AskFacts ==
    ASSUME NEW w, GoodWalk(w), CanAsk(w), NEW t, t = WalkNext(w, spent)
    PROVE  /\ GoodWalk(t.walk) /\ Onward(w, t.walk) /\ Len(t.walk.pending) <= MaxInFlight
           /\ Left(t.walk) \subseteq Left(w)
           /\ \/ t.offer = None /\ Range(t.walk.pending) = Range(w.pending)
              \/ /\ t.offer \in Attempts \ w.begun /\ w.stopped = "no"
                 /\ Range(t.walk.pending) = Range(w.pending) \cup {t.offer}
                 /\ NewOrKept(w, t.walk, t.offer)
  <1>1. /\ w.cursor \in [GroupIds -> Nat] /\ w.stopped \in {"no", "yes"}
        /\ w.pending \in Seq(Attempts) /\ Len(w.pending) \in Nat /\ DOMAIN w.pending = 1 .. Len(w.pending)
        BY WalkShape DEF GoodWalk
  <1>2. Len(w.pending) <= MaxInFlight /\ Onward(w, w)
        BY <1>1 DEF CanAsk, Onward
  <1>3. PICK unstarted : unstarted = ReofferUnstarted(w)
        OBVIOUS
  <1>4. unstarted = {p \in DOMAIN w.pending : w.pending[p] \notin w.begun}
        BY <1>3 DEF ReofferUnstarted
  <1>5. CASE t = [walk |-> w, offer |-> None]
        BY <1>2, <1>5
  <1>6. CASE w.stopped = "no" /\ unstarted # {}
    <2>1. t = [walk |-> w, offer |-> w.pending[Min(unstarted)]]
          BY <1>3, <1>6 DEF WalkNext
    <2>2. unstarted \in SUBSET Nat
          BY <1>1, <1>4
    <2>3. Min(unstarted) \in unstarted
          BY <1>6, <2>2, MinIsLeast
    <2>4. t.offer \in Range(w.pending) /\ t.offer \in Attempts \ w.begun
      <3>1. PICK p : p = Min(unstarted)
            OBVIOUS
      <3>2. p \in DOMAIN w.pending /\ w.pending[p] \notin w.begun /\ t.offer = w.pending[p]
            BY <1>4, <2>1, <2>3, <3>1
      <3> QED BY <1>1, <3>2 DEF Range
    <2> QED BY <1>2, <1>6, <2>1, <2>4 DEF NewOrKept
  <1>7. CASE w.stopped = "no" /\ unstarted = {} /\ t = Take(w)
    <2>1. Range(w.pending) \subseteq w.begun
          BY <1>1, <1>4, <1>7 DEF Range
    <2>2. Len(w.pending) < MaxInFlight /\ MaxInFlight \in Nat
          BY <2>1, GroupsAssumption DEF CanAsk
    <2>3. /\ GoodWalk(t.walk) /\ Onward(w, t.walk)
          /\ \/ t.offer = None /\ t.walk.pending = w.pending
             \/ /\ t.offer \in Attempts /\ t.walk.pending = Append(w.pending, t.offer)
                /\ FreshOffer(w, t.walk, t.offer)
          BY <1>7, TakeFacts
    <2>4. PICK u, o : u = t.walk /\ o = t.offer
          OBVIOUS
    <2>5. u.cursor \in [GroupIds -> Nat]
          BY <2>3, <2>4, WalkShape DEF GoodWalk
    <2>6. ASSUME NEW a \in Attempts, u.cursor[GroupOf(a)] < Rank(a) PROVE w.cursor[GroupOf(a)] < Rank(a)
      <3>1. GroupOf(a) \in GroupIds /\ Rank(a) \in Nat
            BY PlaceOfAnAttempt
      <3>2. w.cursor[GroupOf(a)] <= u.cursor[GroupOf(a)]
            BY <2>3, <2>4, <3>1 DEF Onward
      <3> QED BY <1>1, <2>5, <2>6, <3>1, <3>2
    <2>7. CASE o = None /\ u.pending = w.pending
      <3>1. Left(u) \subseteq Left(w)
            BY <2>6, <2>7 DEF Left
      <3> QED BY <1>2, <2>3, <2>4, <2>7, <3>1
    <2>8. CASE o \in Attempts /\ u.pending = Append(w.pending, o) /\ FreshOffer(w, u, o)
      <3>1. Range(u.pending) = Range(w.pending) \cup {o} /\ Len(u.pending) = Len(w.pending) + 1
            BY <1>1, <2>8, Appended
      <3>2. w.cursor[GroupOf(o)] < Rank(o)
            BY <2>8 DEF FreshOffer
      <3>3. Left(u) \subseteq Left(w)
            BY <2>6, <2>8, <3>1, <3>2 DEF Left
      <3>4. o \notin w.begun
        <4>1. ASSUME o \in w.begun PROVE FALSE
          <5>1. Rank(o) <= w.cursor[GroupOf(o)]
                BY <4>1 DEF GoodWalk, OffersAreOut
          <5>2. Rank(o) \in Nat /\ w.cursor[GroupOf(o)] \in Nat
                BY <1>1, <2>8, PlaceOfAnAttempt
          <5> QED BY <3>2, <5>1, <5>2
        <4> QED BY <4>1
      <3>5. Len(u.pending) <= MaxInFlight
            BY <1>1, <2>2, <3>1
      <3> QED BY <1>7, <2>3, <2>4, <2>8, <3>1, <3>3, <3>4, <3>5 DEF NewOrKept
    <2> QED BY <2>3, <2>4, <2>7, <2>8
  <1>8. ~(w.stopped = "no" /\ unstarted = {} /\ Len(w.pending) >= MaxInFlight)
    <2>1. ASSUME unstarted = {} PROVE Range(w.pending) \subseteq w.begun
          BY <1>1, <1>4, <2>1 DEF Range
    <2> QED BY <1>1, <2>1, GroupsAssumption DEF CanAsk
  <1>9. \/ t = [walk |-> w, offer |-> None]
        \/ w.stopped = "no" /\ unstarted # {}
        \/ w.stopped = "no" /\ unstarted = {} /\ t = Take(w)
    <2>1. CASE w.stopped = "yes"
          BY <2>1 DEF WalkNext
    <2>2. CASE w.stopped = "no" /\ unstarted = {}
      <3>1. t = IF BudgetAllowsStart(w, spent) THEN Take(w) ELSE [walk |-> w, offer |-> None]
            BY <1>3, <1>8, <2>2 DEF WalkNext
      <3> QED BY <2>2, <3>1
    <2> QED BY <1>1, <2>1, <2>2
  <1> QED BY <1>5, <1>6, <1>7, <1>9

-----------------------------------------------------------------------------
(* Offering until a candidate is below its cap.                            *)

\* What the loop holds after any number of rejections, for the walk it began with.
Along(w, n) ==
    /\ GoodWalk(n.walk) /\ Onward(w, n.walk) /\ Len(n.walk.pending) <= MaxInFlight
    /\ refused \subseteq n.refused /\ n.refused \subseteq Attempts
    /\ Range(n.walk.pending) \subseteq Range(w.pending) \cup {n.offer}
    /\ n.offer # None => /\ n.offer \in Attempts \ w.begun /\ w.stopped = "no"
                         /\ n.offer \in Range(n.walk.pending)
                         /\ NewOrKept(w, n.walk, n.offer)

\* The loop's first ask.
LEMMA AskedFirst ==
    ASSUME NEW w, GoodWalk(w), CanAsk(w), refused \subseteq Attempts, NEW n, n = Asked(w, refused)
    PROVE  Along(w, n)
  <1>1. PICK t : t = WalkNext(w, spent)
        OBVIOUS
  <1>2. n.walk = t.walk /\ n.offer = t.offer /\ n.refused = refused
        BY <1>1 DEF Asked
  <1>3. PICK u, o : u = t.walk /\ o = t.offer
        OBVIOUS
  <1>4. /\ GoodWalk(u) /\ Onward(w, u) /\ Len(u.pending) <= MaxInFlight
        /\ \/ o = None /\ Range(u.pending) = Range(w.pending)
           \/ /\ o \in Attempts \ w.begun /\ w.stopped = "no"
              /\ Range(u.pending) = Range(w.pending) \cup {o}
              /\ NewOrKept(w, u, o)
        BY <1>1, <1>3, AskFacts
  <1> QED BY <1>2, <1>3, <1>4 DEF Along

\* Its next one, after a candidate at its cap was rejected.
LEMMA AskedNext ==
    ASSUME NEW w, GoodWalk(w), NEW n, Along(w, n), n.offer # None, n.offer \in capped, NEW m, m = AskedAgain(n)
    PROVE  /\ Along(w, m) /\ n.offer \in m.refused
           /\ Left(m.walk) \subseteq Left(n.walk) \ {n.offer} /\ n.offer \in Left(n.walk)
  <1>1. PICK o : o = n.offer
        OBVIOUS
  <1>2. PICK v : v = n.walk
        OBVIOUS
  <1>3. PICK r : r = RecordRejected(v, o)
        OBVIOUS
  <1>4. PICK t : t = WalkNext(r, spent)
        OBVIOUS
  <1>5. m.walk = t.walk /\ m.offer = t.offer /\ m.refused = n.refused \cup {o}
        BY <1>1, <1>2, <1>3, <1>4 DEF AskedAgain, Asked
  <1>6. /\ GoodWalk(v) /\ Onward(w, v) /\ Len(v.pending) <= MaxInFlight
        /\ refused \subseteq n.refused /\ n.refused \subseteq Attempts
        /\ Range(v.pending) \subseteq Range(w.pending) \cup {o}
        /\ o \in Attempts \ w.begun /\ w.stopped = "no" /\ o \in Range(v.pending)
        BY <1>1, <1>2 DEF Along
  <1>7. /\ GoodWalk(r)
        /\ r.cursor = v.cursor /\ r.stopped = v.stopped /\ r.badProviders = v.badProviders
        /\ r.begun = v.begun \ {o}
        /\ Range(r.pending) = Range(v.pending) \ {o} /\ Len(r.pending) = Len(v.pending) - 1
        /\ Left(r) \subseteq Left(v) \ {o} /\ o \in Left(v)
        BY <1>3, <1>6, RejectFacts
  <1>8. r.begun = w.begun /\ r.stopped = w.stopped /\ r.badProviders = w.badProviders
        /\ \A g \in GroupIds : w.cursor[g] <= r.cursor[g]
        BY <1>6, <1>7 DEF Onward
  <1>9. CanAsk(r)
    <2>1. Len(v.pending) \in Nat /\ MaxInFlight \in Nat
          BY <1>6, WalkShape, GroupsAssumption DEF GoodWalk
    <2> QED BY <1>6, <1>7, <2>1 DEF CanAsk
  <1>10. /\ GoodWalk(t.walk) /\ Onward(r, t.walk) /\ Len(t.walk.pending) <= MaxInFlight
         /\ Left(t.walk) \subseteq Left(r)
         /\ \/ t.offer = None /\ Range(t.walk.pending) = Range(r.pending)
            \/ /\ t.offer \in Attempts \ r.begun /\ r.stopped = "no"
               /\ Range(t.walk.pending) = Range(r.pending) \cup {t.offer}
               /\ NewOrKept(r, t.walk, t.offer)
         BY <1>4, <1>7, <1>9, AskFacts
  <1>11. PICK u, p : u = t.walk /\ p = t.offer
         OBVIOUS
  <1>12. /\ w.cursor \in [GroupIds -> Nat] /\ r.cursor \in [GroupIds -> Nat] /\ u.cursor \in [GroupIds -> Nat]
         BY <1>7, <1>10, <1>11, WalkShape DEF GoodWalk
  <1>13. Onward(w, u)
    <2>1. ASSUME NEW g \in GroupIds PROVE w.cursor[g] <= u.cursor[g]
      <3>1. w.cursor[g] <= r.cursor[g] /\ r.cursor[g] <= u.cursor[g]
            BY <1>8, <1>10, <1>11 DEF Onward
      <3> QED BY <1>12, <3>1
    <2> QED BY <1>8, <1>10, <1>11, <2>1 DEF Onward
  <1>14. Range(r.pending) \subseteq Range(w.pending)
         BY <1>6, <1>7
  <1>15. ASSUME p # None PROVE NewOrKept(w, u, p)
    <2>1. CASE p \in Range(r.pending)
          BY <1>14, <2>1 DEF NewOrKept
    <2>2. CASE FreshOffer(r, u, p) /\ p \in Attempts
      <3>1. GroupOf(p) \in GroupIds /\ Rank(p) \in Nat
            BY <2>2, PlaceOfAnAttempt
      <3>2. w.cursor[GroupOf(p)] <= r.cursor[GroupOf(p)]
            BY <1>8, <3>1
      <3>3. w.cursor[GroupOf(p)] < Rank(p)
            BY <1>12, <2>2, <3>1, <3>2 DEF FreshOffer
      <3>4. w.cursor[GroupOf(p)] > 0 => AllTouched(u)
            BY <1>12, <2>2, <3>1, <3>2 DEF FreshOffer
      <3> QED BY <3>3, <3>4 DEF NewOrKept, FreshOffer
    <2> QED BY <1>10, <1>11, <1>15, <2>1, <2>2 DEF NewOrKept
  <1>16. /\ p # None => p \in Attempts \ w.begun /\ p \in Range(u.pending)
         /\ Range(u.pending) \subseteq Range(w.pending) \cup {p}
         BY <1>8, <1>10, <1>11, <1>14
  <1>17. Along(w, m)
         BY <1>5, <1>6, <1>10, <1>11, <1>13, <1>15, <1>16 DEF Along
  <1> QED BY <1>1, <1>2, <1>5, <1>7, <1>10, <1>17

\* What the loop ends with, whatever has reached its cap.
LEMMA OfferIsUncapped ==
    ASSUME NEW w, GoodWalk(w), CanAsk(w), refused \subseteq Attempts, capped \subseteq Attempts,
           NEW n, n = NextUncapped(w)
    PROVE  /\ Along(w, n) /\ n.offer \notin capped
           /\ n.offer = None => Asked(w, refused).offer = None \/ n.refused # {}
           /\ Asked(w, refused).offer \notin capped => n = Asked(w, refused)
  <1>1. PICK total : total = Cardinality(Attempts)
        OBVIOUS
  <1>2. total \in Nat /\ IsFiniteSet(Attempts)
        BY <1>1, AttemptsAreFinite
  <1>3. PICK f : /\ n = f[total] /\ f[0] = Asked(w, refused)
                 /\ \A i \in 1 .. total : f[i] = AskedAgain(f[i - 1])
        BY <1>1, UncappedByTrail
  <1> DEFINE Holds(i) == /\ Along(w, f[i])
                         /\ f[i].offer \in capped => Cardinality(Left(f[i].walk)) <= total - i
                         /\ f[i].offer = None => Asked(w, refused).offer = None \/ f[i].refused # {}
                         /\ Asked(w, refused).offer \notin capped => f[i] = Asked(w, refused)
             missing == {i \in 0 .. total : ~Holds(i)}
  <1>4. None \notin capped
        BY GroupShapes
  <1>5. ASSUME NEW u PROVE /\ IsFiniteSet(Left(u)) /\ Cardinality(Left(u)) \in Nat /\ Cardinality(Left(u)) <= total
    <2>1. Left(u) \subseteq Attempts
          BY DEF Left
    <2> QED BY <1>1, <1>2, <2>1, FS_Subset, FS_CardinalityType
  <1>6. Holds(0)
    <2>1. Along(w, f[0])
          BY <1>3, AskedFirst
    <2> QED BY <1>2, <1>3, <1>5, <2>1
  <1>7. ASSUME NEW i \in 1 .. total, Holds(i - 1) PROVE Holds(i)
    <2>1. PICK m : m = f[i - 1]
          OBVIOUS
    <2>2. f[i] = AskedAgain(m)
          BY <1>3, <2>1
    <2>3. CASE m.offer = None \/ m.offer \notin capped
      <3>1. f[i] = m
            BY <2>2, <2>3 DEF AskedAgain
      <3> QED BY <1>4, <1>7, <2>1, <2>3, <3>1
    <2>4. CASE m.offer # None /\ m.offer \in capped
      <3>1. Along(w, m) /\ Cardinality(Left(m.walk)) <= total - (i - 1)
            BY <1>7, <2>1, <2>4
      <3>2. PICK k : k = f[i]
            OBVIOUS
      <3>3. /\ Along(w, k) /\ m.offer \in k.refused
            /\ Left(k.walk) \subseteq Left(m.walk) \ {m.offer} /\ m.offer \in Left(m.walk)
            BY <2>2, <2>4, <3>1, <3>2, AskedNext
      <3>4. Cardinality(Left(k.walk)) <= Cardinality(Left(m.walk)) - 1
        <4>1. IsFiniteSet(Left(m.walk)) /\ IsFiniteSet(Left(m.walk) \ {m.offer})
              /\ Cardinality(Left(m.walk) \ {m.offer}) = Cardinality(Left(m.walk)) - 1
              BY <1>5, <3>3, FS_RemoveElement
        <4>2. Cardinality(Left(k.walk)) <= Cardinality(Left(m.walk) \ {m.offer})
              BY <3>3, <4>1, FS_Subset
        <4> QED BY <4>1, <4>2
      <3>5. Cardinality(Left(k.walk)) <= total - i
        <4>1. Cardinality(Left(k.walk)) \in Nat /\ Cardinality(Left(m.walk)) \in Nat
              BY <1>5
        <4> QED BY <1>2, <3>1, <3>4, <4>1
      <3>6. Asked(w, refused).offer \in capped
            BY <1>7, <2>1, <2>4
      <3> QED BY <3>2, <3>3, <3>5, <3>6
    <2> QED BY <2>3, <2>4
  <1> HIDE DEF Holds
  <1>8. ASSUME missing # {} PROVE FALSE
    <2>1. missing \in SUBSET Nat
          BY <1>2
    <2>2. PICK i \in missing : \A j \in missing : i <= j
          BY <1>8, <2>1, LeastNatural
    <2>3. i # 0
          BY <1>6, <2>2
    <2>4. i \in 1 .. total /\ i - 1 \in 0 .. total /\ i - 1 \notin missing
          BY <1>2, <2>2, <2>3
    <2>5. Holds(i - 1)
          BY <2>4
    <2> QED BY <1>7, <2>2, <2>4, <2>5
  <1>9. Holds(total)
        BY <1>2, <1>8
  <1>10. n.offer \notin capped
    <2>1. ASSUME n.offer \in capped PROVE FALSE
      <3>1. Cardinality(Left(n.walk)) <= total - total /\ Along(w, n)
            BY <1>3, <1>9, <2>1 DEF Holds
      <3>2. Cardinality(Left(n.walk)) = 0
            BY <1>2, <1>5, <3>1
      <3>3. Left(n.walk) = {}
            BY <1>5, <3>2, FS_EmptySet
      <3>4. n.offer \in Left(n.walk)
            BY <1>4, <2>1, <3>1 DEF Along, Left
      <3> QED BY <3>3, <3>4
    <2> QED BY <2>1
  <1> QED BY <1>3, <1>9, <1>10 DEF Holds

-----------------------------------------------------------------------------
(* The inductive invariant of a request.                                   *)

Racers == {primary, hedge} \ {None}

\* The attempt's fetch is under way or has settled with more than a failure to send.
Reached(a) == phase[a] = "flying" \/ (phase[a] = "settled" /\ result[a] \notin {"rejected", "local"})

\* What is decided when, and what the client has been told.
AnswerInv ==
    /\ pc \in {"top", "race", "settled", "inspect", "repair"} => heads = 0 /\ walk.stopped = "no"
    /\ pc = "respond" => heads = 1
    /\ pc = "done" /\ client = "here" => heads = 1
    /\ \A a \in Attempts : result[a] = "cancelled" => client = "gone"
    /\ pc = "race" /\ client = "gone" => Racers \subseteq aborted

\* Which attempts the walk holds for the loop, at each of its points.
HoldInv ==
    /\ pc = "top" =>
         /\ walk.begun = {} /\ \A o \in Range(walk.pending) : phase[o] = "idle"
         /\ \/ walk = NewWalk /\ refused = {} /\ egressed = "no"
            \/ \E o \in Attempts \ capped : Range(walk.pending) = {o}
    /\ pc = "race" =>
         /\ primary \in Attempts /\ hedge # primary /\ Range(walk.pending) \subseteq Racers
         /\ delay = "armed" => hedge = None /\ MaxInFlight > 1
         /\ \A a \in Racers : /\ phase[a] # "idle"
                              /\ Reached(a) => a \in walk.begun
                              /\ phase[a] = "prep" => a \notin walk.begun
    /\ pc \in {"settled", "inspect", "repair", "respond"} =>
         current \in Attempts /\ phase[current] = "settled"
    /\ pc = "settled" =>
         Range(walk.pending) \subseteq {current} /\ (Reached(current) => current \in walk.begun)
    /\ pc \in {"inspect", "repair"} =>
         current \in walk.begun /\ Range(walk.pending) \subseteq {current}
    /\ pc = "inspect" => result[current] \in HttpError

\* A conversion that is still running belongs to the race, or ends in nothing.
PrepInv == \A a \in Attempts : phase[a] = "prep" => /\ a \in SlowPrep
                                                    /\ a \in aborted \/ (pc = "race" /\ a \in Racers)

\* What was started was offered before.
StartInv == \A a \in Attempts : /\ lease[a] # "none" => phase[a] # "idle"
                                /\ phase[a] # "idle" => Rank(a) <= walk.cursor[GroupOf(a)]

\* An attempt that may still be started comes after the first turns if an earlier
\* credential of its deployment was started.
Second(a) == \E b \in Attempts : GroupOf(b) = GroupOf(a) /\ Rank(b) < Rank(a) /\ phase[b] # "idle"
Startable(a) == a \in Range(walk.pending) \/ (phase[a] = "prep" /\ a \notin aborted)
TurnInv == \A a \in Attempts : Startable(a) /\ Second(a) => AllTouched(walk)

RequestInv == TypeOK /\ GoodWalk(walk) /\ AnswerInv /\ HoldInv /\ PrepInv /\ StartInv /\ TurnInv

\* With conversions only of requests whose caps do not move: whose the open leases are.
LeaseInv ==
    /\ \A a \in Attempts : lease[a] = "open" => \/ pc = "race" /\ a \in Racers
                                                \/ pc \in {"settled", "inspect", "respond", "repair"} /\ a = current
    /\ pc = "race" => /\ \A a \in Racers : /\ lease[a] \in {"none", "open"}
                                           /\ lease[a] = "open" => a \in walk.begun
                                           /\ phase[a] = "prep" => lease[a] = "none" /\ a \in Range(walk.pending)
                      /\ primary \in SlowPrep => primary \notin capped

\* At most one attempt out: the walk may be asked unless that one is under way and no
\* second is allowed.
LEMMA OneOut ==
    ASSUME NEW w, GoodWalk(w), NEW x, Range(w.pending) \subseteq {x}
    PROVE  /\ Range(w.pending) = {} => CanAsk(w) /\ w.begun = {}
           /\ MaxInFlight > 1 => CanAsk(w)
           /\ \A o \in Range(w.pending) : o \notin w.begun => CanAsk(w)
  <1>1. /\ w.pending \in Seq(Attempts) /\ Len(w.pending) \in Nat /\ DOMAIN w.pending = 1 .. Len(w.pending)
        /\ w.begun \subseteq Range(w.pending)
        /\ \A p, q \in DOMAIN w.pending : GroupOf(w.pending[p]) = GroupOf(w.pending[q]) => p = q
        BY WalkShape DEF GoodWalk, OffersAreOut
  <1>2. MaxInFlight \in Nat /\ MaxInFlight > 0
        BY GroupsAssumption
  <1>3. Len(w.pending) <= 1
    <2>1. ASSUME Len(w.pending) >= 2 PROVE FALSE
      <3>1. 1 \in DOMAIN w.pending /\ 2 \in DOMAIN w.pending
            BY <1>1, <2>1
      <3>2. w.pending[1] = x /\ w.pending[2] = x
            BY <3>1 DEF Range
      <3> QED BY <1>1, <3>1, <3>2
    <2> QED BY <1>1, <2>1
  <1>4. ASSUME Range(w.pending) = {} PROVE Len(w.pending) = 0
    <2>1. 1 \notin DOMAIN w.pending
          BY <1>4 DEF Range
    <2> QED BY <1>1, <2>1
  <1> QED BY <1>1, <1>2, <1>3, <1>4 DEF CanAsk

\* Deployments that have had their turn do not lose it.
LEMMA TouchedStays ==
    ASSUME NEW w, NEW u, GoodWalk(w), GoodWalk(u), w.badProviders \subseteq u.badProviders,
           \A g \in GroupIds : w.cursor[g] <= u.cursor[g]
    PROVE  AllTouched(w) => AllTouched(u)
  <1>1. w.cursor \in [GroupIds -> Nat] /\ u.cursor \in [GroupIds -> Nat]
        BY WalkShape DEF GoodWalk
  <1> QED BY <1>1 DEF AllTouched

\* A candidate that is new has not been started, and one after an earlier credential
\* of its deployment comes when every deployment has had its turn.
LEMMA NewIsIdle ==
    ASSUME TypeOK, StartInv, GoodWalk(walk), NEW w, GoodWalk(w), \A g \in GroupIds : walk.cursor[g] <= w.cursor[g],
           NEW u, NEW o \in Attempts, FreshOffer(w, u, o)
    PROVE  phase[o] = "idle" /\ (Second(o) => AllTouched(u))
           /\ \A a \in Attempts : phase[a] # "idle" /\ GroupOf(a) = GroupOf(o) => Rank(a) < Rank(o)
  <1>1. w.cursor \in [GroupIds -> Nat] /\ walk.cursor \in [GroupIds -> Nat]
        BY WalkShape DEF GoodWalk
  <1>2. \A a \in Attempts : GroupOf(a) \in GroupIds /\ Rank(a) \in Nat /\ Rank(a) >= 1
    <2>1. ASSUME NEW a \in Attempts PROVE GroupOf(a) \in GroupIds /\ Rank(a) \in Nat /\ Rank(a) >= 1
      <3>1. GroupOf(a) \in GroupIds /\ Rank(a) \in 1 .. Len(Groups[GroupOf(a)])
            BY PlaceOfAnAttempt
      <3>2. Len(Groups[GroupOf(a)]) \in Nat
            BY <3>1, GroupShapes
      <3> QED BY <3>1, <3>2
    <2> QED BY <2>1
  <1>3. ASSUME NEW a \in Attempts, phase[a] # "idle", GroupOf(a) = GroupOf(o)
        PROVE  Rank(a) < Rank(o) /\ w.cursor[GroupOf(o)] > 0
    <2>1. Rank(a) <= walk.cursor[GroupOf(o)] /\ walk.cursor[GroupOf(o)] <= w.cursor[GroupOf(o)]
          BY <1>2, <1>3 DEF StartInv
    <2>2. w.cursor[GroupOf(o)] < Rank(o)
          BY DEF FreshOffer
    <2>3. Rank(a) \in Nat /\ Rank(a) >= 1 /\ Rank(o) \in Nat /\ w.cursor[GroupOf(o)] \in Nat /\ walk.cursor[GroupOf(o)] \in Nat
          BY <1>1, <1>2
    <2> QED BY <2>1, <2>2, <2>3
  <1>4. phase[o] = "idle"
        BY <1>2, <1>3
  <1>5. Second(o) => AllTouched(u)
        BY <1>3 DEF Second, FreshOffer
  <1> QED BY <1>3, <1>4, <1>5

\* The next candidate of a request that has nothing out.
LEMMA LookAhead ==
    ASSUME TypeOK, StartInv, GoodWalk(walk),
           NEW w, GoodWalk(w), Range(w.pending) = {}, w.cursor = walk.cursor,
           walk.badProviders \subseteq w.badProviders, NEW n, n = NextUncapped(w)
    PROVE  /\ GoodWalk(n.walk) /\ n.refused \subseteq Attempts /\ n.walk.begun = {}
           /\ \A g \in GroupIds : walk.cursor[g] <= n.walk.cursor[g]
           /\ AllTouched(walk) => AllTouched(n.walk)
           /\ \/ n.offer = None /\ Range(n.walk.pending) \subseteq {None}
              \/ /\ n.offer \in Attempts \ capped /\ Range(n.walk.pending) = {n.offer}
                 /\ n.walk.stopped = "no" /\ phase[n.offer] = "idle"
                 /\ Second(n.offer) => AllTouched(n.walk)
  <1>1. CanAsk(w) /\ w.begun = {}
        BY OneOut
  <1>2. Along(w, n) /\ n.offer \notin capped
        BY <1>1, OfferIsUncapped DEF TypeOK
  <1>3. PICK u, o : u = n.walk /\ o = n.offer
        OBVIOUS
  <1>4. /\ GoodWalk(u) /\ Onward(w, u) /\ n.refused \subseteq Attempts
        /\ Range(u.pending) \subseteq {o}
        /\ o # None => /\ o \in Attempts \ w.begun /\ w.stopped = "no" /\ o \in Range(u.pending)
                       /\ NewOrKept(w, u, o)
        BY <1>2, <1>3 DEF Along
  <1>5. /\ \A g \in GroupIds : walk.cursor[g] <= u.cursor[g]
        /\ u.begun = {} /\ walk.badProviders \subseteq u.badProviders /\ u.stopped = w.stopped
        BY <1>1, <1>4 DEF Onward
  <1>6. AllTouched(walk) => AllTouched(u)
        BY <1>4, <1>5, TouchedStays
  <1>7. ASSUME o # None PROVE /\ o \in Attempts \ capped /\ Range(u.pending) = {o} /\ u.stopped = "no"
                              /\ phase[o] = "idle" /\ (Second(o) => AllTouched(u))
    <2>1. FreshOffer(w, u, o) /\ o \in Attempts
          BY <1>4, <1>7 DEF NewOrKept
    <2>2. \A g \in GroupIds : walk.cursor[g] <= w.cursor[g]
      <3>1. walk.cursor \in [GroupIds -> Nat]
            BY WalkShape DEF GoodWalk
      <3> QED BY <3>1
    <2>3. phase[o] = "idle" /\ (Second(o) => AllTouched(u))
          BY <2>1, <2>2, NewIsIdle
    <2> QED BY <1>2, <1>3, <1>4, <1>5, <1>7, <2>3
  <1> QED BY <1>3, <1>4, <1>5, <1>6, <1>7

\* The walk a request begins with has something to offer.
LEMMA FreshWalk ==
    /\ GoodWalk(NewWalk) /\ NewWalk.pending = <<>> /\ Range(NewWalk.pending) = {}
    /\ NewWalk.begun = {} /\ NewWalk.stopped = "no"
    /\ Asked(NewWalk, refused).offer # None
  <1>1. PICK w : w = NewWalk
        OBVIOUS
  <1>2. PICK q : q = [i \in 1 .. Len(Groups) |-> i]
        OBVIOUS
  <1>3. q \in Seq(GroupIds) /\ DOMAIN q = GroupIds /\ Len(q) = Len(Groups) /\ \A i \in GroupIds : q[i] = i
    <2>1. Len(Groups) \in Nat /\ GroupIds = 1 .. Len(Groups)
          BY GroupShapes
    <2> QED BY <1>2, <2>1
  <1>4. /\ w.queue = q /\ w.cursor = [g \in GroupIds |-> 0] /\ w.pending = <<>> /\ w.begun = {}
        /\ w.started = 0 /\ w.closed = {} /\ w.badProviders = {} /\ w.suppressed = {} /\ w.stopped = "no"
        BY <1>1, <1>2 DEF NewWalk
  <1>5. w \in WalkType
    <2>1. w = [queue |-> q, cursor |-> [g \in GroupIds |-> 0], pending |-> <<>>, begun |-> {}, started |-> 0,
               closed |-> {}, badProviders |-> {}, suppressed |-> {}, stopped |-> "no"]
          BY <1>1, <1>2 DEF NewWalk
    <2>2. [g \in GroupIds |-> 0] \in [GroupIds -> Nat] /\ <<>> \in Seq(Attempts)
          OBVIOUS
    <2> QED BY <1>3, <2>1, <2>2 DEF WalkType
  <1>6. Range(w.pending) = {}
        BY <1>4 DEF Range
  <1>7. OffersAreOut(w)
        BY <1>4, <1>6 DEF OffersAreOut
  <1>8. FirstTurnsFirst(w)
    <2>1. \A g \in GroupIds : w.cursor[g] = 0 /\ Len(Groups[g]) \in Nat
          BY <1>4, GroupShapes
    <2>2. \A g \in GroupIds : g \in Range(w.queue)
          BY <1>3, <1>4 DEF Range
    <2> QED BY <1>3, <1>4, <2>1, <2>2 DEF FirstTurnsFirst
  <1>9. GoodWalk(w)
        BY <1>5, <1>7, <1>8 DEF GoodWalk
  <1>10. WalkNext(w, spent) = Take(w)
    <2>1. ReofferUnstarted(w) = {}
          BY <1>4 DEF ReofferUnstarted
    <2>2. Len(w.pending) = 0 /\ ~(Len(w.pending) >= MaxInFlight)
          BY <1>4, GroupsAssumption
    <2>3. BudgetAllowsStart(w, spent)
          BY <1>4 DEF BudgetAllowsStart
    <2> QED BY <1>4, <2>1, <2>2, <2>3 DEF WalkNext
  <1>11. Take(w).offer # None
    <2>1. PICK last \in 1 .. Len(w.queue) + 1 :
             /\ \A p \in 1 .. (last - 1) : Barred(w, w.queue[p]) \/ Servable(w, w.queue[p]) = {}
             /\ \/ last = Len(w.queue) + 1
                \/ /\ last \in DOMAIN w.queue
                   /\ \E i \in Servable(w, w.queue[last]) : Take(w).offer = Groups[w.queue[last]][i]
      <3>1. PICK last \in 1 .. Len(w.queue) + 1, dry \in SUBSET GroupIds :
              /\ \A p \in 1 .. (last - 1) : Barred(w, w.queue[p]) \/ Servable(w, w.queue[p]) = {}
              /\ \/ last = Len(w.queue) + 1
                 \/ /\ last \in DOMAIN w.queue
                    /\ \E i \in Servable(w, w.queue[last]) :
                          Take(w) = [walk  |-> [Drained(w, last, dry) EXCEPT
                                                   !.cursor[w.queue[last]] = i,
                                                   !.pending = Append(@, Groups[w.queue[last]][i])],
                                     offer |-> Groups[w.queue[last]][i]]
            BY <1>9, TakeChooses
      <3>2. \A x, y : Take(w) = [walk |-> x, offer |-> y] => Take(w).offer = y
            OBVIOUS
      <3> QED BY <3>1, <3>2, Zenon
    <2>2. CASE last = Len(w.queue) + 1
      <3>1. 1 \in GroupIds /\ 1 \in 1 .. (last - 1) /\ w.queue[1] = 1
            BY <1>3, <1>4, <2>2, GroupShapes
      <3>2. ~Barred(w, 1)
            BY <1>4 DEF Barred
      <3>3. 1 \in Servable(w, 1)
        <4>1. Len(Groups[1]) \in Nat \ {0} /\ w.cursor[1] = 0
              BY <1>4, <3>1, GroupShapes
        <4> QED BY <1>4, <4>1 DEF Servable
      <3> QED BY <2>1, <3>1, <3>2, <3>3
    <2>3. ASSUME last \in DOMAIN w.queue, NEW i \in Servable(w, w.queue[last]),
                 Take(w).offer = Groups[w.queue[last]][i]
          PROVE  Take(w).offer # None
      <3>1. PICK g : g = w.queue[last]
            OBVIOUS
      <3>2. g \in GroupIds
            BY <1>3, <1>4, <2>3, <3>1
      <3>3. i \in 1 .. Len(Groups[g])
        <4>1. w.cursor[g] = 0 /\ i \in w.cursor[g] + 1 .. Len(Groups[g])
              BY <1>4, <2>3, <3>1, <3>2 DEF Servable
        <4> QED BY <4>1
      <3>4. Groups[g][i] \in Attempts
            BY <3>2, <3>3, PlaceOfAnAttempt
      <3> QED BY <2>3, <3>1, <3>4, GroupShapes
    <2> QED BY <2>1, <2>2, <2>3
  <1> QED BY <1>1, <1>4, <1>6, <1>9, <1>10, <1>11 DEF Asked

\* The invariant holds when the request begins.
LEMMA RequestBegins == RequestInit => RequestInv
  <1> SUFFICES ASSUME RequestInit PROVE RequestInv
      OBVIOUS
  <1>1. /\ walk = NewWalk /\ spent = "no" /\ refused = {} /\ egressed = "no" /\ capped = InitiallyCapped
        /\ pc = "top" /\ primary = None /\ hedge = None /\ current = None /\ delay = "off"
        /\ phase = [a \in Attempts |-> "idle"] /\ result = [a \in Attempts |-> "none"]
        /\ aborted = {} /\ lease = [a \in Attempts |-> "none"] /\ client = "here" /\ heads = 0
        BY DEF RequestInit
  <1>2. GoodWalk(walk) /\ Range(walk.pending) = {} /\ walk.begun = {} /\ walk.stopped = "no"
        BY <1>1, FreshWalk
  <1>3. TypeOK
        BY <1>1, <1>2, WalkConstants DEF TypeOK, GoodWalk
  <1>4. AnswerInv
        BY <1>1, <1>2 DEF AnswerInv
  <1>5. HoldInv
        BY <1>1, <1>2 DEF HoldInv
  <1>6. PrepInv /\ StartInv
        BY <1>1 DEF PrepInv, StartInv
  <1>7. TurnInv
        BY <1>1 DEF TurnInv, Second
  <1> QED BY <1>2, <1>3, <1>4, <1>5, <1>6, <1>7 DEF RequestInv

\* A step that leaves the walk alone and starts nothing keeps what is known of turns.
LEMMA TurnsStand ==
    ASSUME RequestInv, walk' = walk, aborted \subseteq aborted',
           \A a \in Attempts : phase'[a] = phase[a] \/ (phase[a] # "idle" /\ phase'[a] \notin {"idle", "prep"}),
           \A a \in Attempts : lease'[a] = lease[a] \/ phase[a] # "idle"
    PROVE  StartInv' /\ TurnInv'
  <1>1. \A a \in Attempts : phase'[a] # "idle" <=> phase[a] # "idle"
        OBVIOUS
  <1>2. StartInv'
        BY <1>1 DEF RequestInv, StartInv
  <1>3. ASSUME NEW a \in Attempts, Startable(a)', Second(a)' PROVE AllTouched(walk)'
    <2>1. Second(a)
          BY <1>1, <1>3 DEF Second
    <2>2. Startable(a)
          BY <1>3 DEF Startable
    <2>3. AllTouched(walk)
          BY <2>1, <2>2 DEF RequestInv, TurnInv
    <2> QED BY <2>3 DEF AllTouched
  <1> QED BY <1>2, <1>3 DEF TurnInv

-----------------------------------------------------------------------------
(* Every step keeps the invariant.  First those that leave the walk alone. *)

\* A fetch settles.
LEMMA SettleKeeps == \A a \in Attempts : RequestInv /\ Settle(a) => RequestInv'
  <1> SUFFICES ASSUME NEW a \in Attempts, RequestInv, Settle(a) PROVE RequestInv'
      OBVIOUS
  <1> USE DEF Racing, RaceOver
  <1>1. /\ pc = "race" /\ a \in Racers /\ phase[a] = "flying"
        /\ phase' = [phase EXCEPT ![a] = "settled"]
        /\ UNCHANGED <<wvars, rvars, aborted, lease, client, heads>>
        BY DEF Settle, Racers
  <1>2. PICK r \in IF client = "gone" THEN {"rejected", "cancelled"}
                   ELSE IF a \in aborted THEN {"rejected", "dead"}
                   ELSE Outcomes \ {"local", "cancelled"} : result' = [result EXCEPT ![a] = r]
        BY DEF Settle
  <1>3. r \in Outcomes /\ (r = "cancelled" => client = "gone")
        BY <1>2 DEF Outcomes, HttpError, FailoverStatus
  <1>4. /\ phase' \in [Attempts -> {"idle", "prep", "flying", "settled"}]
        /\ phase'[a] = "settled" /\ \A b \in Attempts : b # a => phase'[b] = phase[b]
        /\ result' \in [Attempts -> Outcomes \cup {"none"}]
        /\ result'[a] = r /\ \A b \in Attempts : b # a => result'[b] = result[b]
        BY <1>1, <1>2, <1>3 DEF RequestInv, TypeOK
  <1>5. TypeOK'
        BY <1>1, <1>4 DEF RequestInv, TypeOK, wvars, rvars
  <1>6. GoodWalk(walk)'
        BY <1>1 DEF RequestInv, wvars, GoodWalk, OffersAreOut, FirstTurnsFirst
  <1>7. AnswerInv'
        BY <1>1, <1>3, <1>4 DEF RequestInv, AnswerInv, Racers, wvars, rvars
  <1>8. Racers' = Racers /\ Racers \subseteq Attempts
        BY <1>1 DEF RequestInv, TypeOK, Racers, rvars
  <1>9. HoldInv'
    <2>1. \A b \in Racers : Reached(b)' => Reached(b)
          BY <1>1, <1>4, <1>8 DEF Reached
    <2> QED BY <1>1, <1>4, <1>8, <2>1 DEF RequestInv, HoldInv, wvars, rvars
  <1>10. PrepInv'
         BY <1>1, <1>4, <1>8 DEF RequestInv, PrepInv, rvars
  <1>11. StartInv' /\ TurnInv'
         BY <1>1, <1>4, TurnsStand DEF wvars
  <1> QED BY <1>5, <1>6, <1>7, <1>9, <1>10, <1>11 DEF RequestInv

\* A deadline aborts an attempt.
LEMMA DeadlineKeeps == \A a \in Attempts : RequestInv /\ Deadline(a) => RequestInv'
  <1> SUFFICES ASSUME NEW a \in Attempts, RequestInv, Deadline(a) PROVE RequestInv'
      OBVIOUS
  <1>1. aborted' = aborted \cup {a} /\ UNCHANGED <<wvars, rvars, phase, result, lease, client, heads>>
        BY DEF Deadline
  <1>2. TypeOK'
        BY <1>1 DEF RequestInv, TypeOK, wvars, rvars
  <1>3. GoodWalk(walk)' /\ Racers' = Racers
        BY <1>1 DEF RequestInv, wvars, rvars, GoodWalk, OffersAreOut, FirstTurnsFirst, Racers
  <1>4. AnswerInv'
        BY <1>1, <1>3 DEF RequestInv, AnswerInv, wvars, rvars
  <1>5. HoldInv'
        BY <1>1, <1>3 DEF RequestInv, HoldInv, Reached, wvars, rvars
  <1>6. PrepInv'
        BY <1>1, <1>3 DEF RequestInv, PrepInv, rvars
  <1>7. StartInv' /\ TurnInv'
        BY <1>1, TurnsStand DEF wvars
  <1> QED BY <1>2, <1>3, <1>4, <1>5, <1>6, <1>7 DEF RequestInv

\* The client leaves: every live attempt is aborted.
LEMMA ClientLeavesKeeps == RequestInv /\ ClientLeaves => RequestInv'
  <1> SUFFICES ASSUME RequestInv, ClientLeaves PROVE RequestInv'
      OBVIOUS
  <1>1. /\ Awaiting /\ client = "here" /\ client' = "gone"
        /\ aborted' = aborted \cup {a \in Attempts : Live(a)}
        /\ UNCHANGED <<wvars, rvars, phase, result, lease, heads>>
        BY DEF ClientLeaves
  <1>2. TypeOK'
        BY <1>1 DEF RequestInv, TypeOK, wvars, rvars
  <1>3. GoodWalk(walk)' /\ Racers' = Racers
        BY <1>1 DEF RequestInv, wvars, rvars, GoodWalk, OffersAreOut, FirstTurnsFirst, Racers
  <1>4. AnswerInv'
    <2>1. ASSUME pc = "race" PROVE Racers \subseteq aborted'
      <3>1. Racers \subseteq Attempts
            BY DEF RequestInv, TypeOK, Racers
      <3>2. \A a \in Racers : Live(a)
            BY <1>1, <2>1 DEF Live, Racing, Awaiting, Racers
      <3> QED BY <1>1, <3>1, <3>2
    <2> QED BY <1>1, <1>3, <2>1 DEF RequestInv, AnswerInv, wvars, rvars
  <1>5. HoldInv'
        BY <1>1, <1>3 DEF RequestInv, HoldInv, Reached, wvars, rvars
  <1>6. PrepInv'
        BY <1>1, <1>3 DEF RequestInv, PrepInv, rvars
  <1>7. StartInv' /\ TurnInv'
        BY <1>1, TurnsStand DEF wvars
  <1> QED BY <1>2, <1>3, <1>4, <1>5, <1>6, <1>7 DEF RequestInv

\* The caps and the clock of the walk.
LEMMA SurroundingsKeep == RequestInv /\ (CapsMove \/ BudgetElapses) => RequestInv'
  <1> SUFFICES ASSUME RequestInv, CapsMove \/ BudgetElapses PROVE RequestInv'
      OBVIOUS
  <1>1. /\ Awaiting /\ UNCHANGED <<walk, refused, egressed, rvars, avars, client, heads>>
        /\ capped' \subseteq Attempts /\ spent' \in {"no", "yes"}
    <2>1. CASE CapsMove
          BY <2>1, WalkConstants DEF CapsMove, RequestInv, TypeOK
    <2>2. CASE BudgetElapses
          BY <2>2 DEF BudgetElapses, RequestInv, TypeOK
    <2> QED BY <2>1, <2>2
  <1>2. pc # "top"
        BY <1>1 DEF Awaiting
  <1>3. TypeOK'
        BY <1>1 DEF RequestInv, TypeOK, rvars, avars
  <1>4. GoodWalk(walk)' /\ Racers' = Racers
        BY <1>1 DEF RequestInv, rvars, GoodWalk, OffersAreOut, FirstTurnsFirst, Racers
  <1>5. AnswerInv'
        BY <1>1, <1>4 DEF RequestInv, AnswerInv, rvars, avars
  <1>6. HoldInv'
        BY <1>1, <1>2, <1>4 DEF RequestInv, HoldInv, Reached, rvars, avars
  <1>7. PrepInv'
        BY <1>1, <1>4 DEF RequestInv, PrepInv, rvars, avars
  <1>8. StartInv' /\ TurnInv'
        BY <1>1, TurnsStand DEF avars
  <1> QED BY <1>3, <1>4, <1>5, <1>6, <1>7, <1>8 DEF RequestInv

\* The end of an answer: its lease is completed and the loop left.
LEMMA RespondKeeps ==
    RequestInv /\ (RespondError \/ RespondEnds \/ RespondBreaks \/ RespondGone) => RequestInv'
  <1> SUFFICES ASSUME RequestInv, RespondError \/ RespondEnds \/ RespondBreaks \/ RespondGone PROVE RequestInv'
      OBVIOUS
  <1>1. /\ pc = "respond" /\ Finish /\ UNCHANGED <<wvars, phase, result, aborted, client, heads>>
        /\ \E how \in {"succeeded", "failed", "refused", "cancelled"} : Complete(current, how)
        BY DEF RespondError, RespondEnds, RespondBreaks, RespondGone
  <1>2. pc' = "done" /\ UNCHANGED <<primary, hedge, current, delay>>
        BY <1>1 DEF Finish
  <1>3. PICK how \in {"succeeded", "failed", "refused", "cancelled"} : lease' = [lease EXCEPT ![current] = how]
        BY <1>1 DEF Complete
  <1>4. current \in Attempts /\ phase[current] = "settled" /\ heads = 1
        BY <1>1 DEF RequestInv, HoldInv, AnswerInv
  <1>5. TypeOK'
        BY <1>1, <1>2, <1>3 DEF RequestInv, TypeOK, wvars
  <1>6. GoodWalk(walk)' /\ Racers' = Racers
        BY <1>1, <1>2 DEF RequestInv, wvars, GoodWalk, OffersAreOut, FirstTurnsFirst, Racers
  <1>7. AnswerInv'
        BY <1>1, <1>2, <1>4 DEF RequestInv, AnswerInv
  <1>8. HoldInv'
        BY <1>2 DEF HoldInv
  <1>9. PrepInv'
        BY <1>1, <1>2 DEF RequestInv, PrepInv
  <1>10. \A a \in Attempts : lease'[a] = lease[a] \/ phase[a] # "idle"
         BY <1>3, <1>4 DEF RequestInv, TypeOK
  <1>11. StartInv' /\ TurnInv'
         BY <1>1, <1>10, TurnsStand DEF wvars
  <1> QED BY <1>5, <1>6, <1>7, <1>8, <1>9, <1>11 DEF RequestInv

-----------------------------------------------------------------------------
(* The steps that start an attempt.                                        *)

\* An attempt that is out is marked as started.
LEMMA StartedFacts ==
    ASSUME NEW v, GoodWalk(v), NEW a \in Range(v.pending), NEW u, u = RecordStarted(v, a)
    PROVE  /\ GoodWalk(u)
           /\ u.cursor = v.cursor /\ u.badProviders = v.badProviders /\ u.stopped = v.stopped
           /\ u.pending = v.pending /\ u.begun = v.begun \cup {a}
  <1>1. v.started \in Nat /\ v.begun \in SUBSET Attempts /\ v.pending \in Seq(Attempts) /\ v \in WalkType
        BY WalkShape DEF GoodWalk
  <1>2. a \in Attempts
        BY <1>1 DEF Range
  <1>3. /\ u \in WalkType /\ u.queue = v.queue /\ u.closed = v.closed
        /\ u.cursor = v.cursor /\ u.badProviders = v.badProviders /\ u.stopped = v.stopped
        /\ u.pending = v.pending /\ u.begun = v.begun \cup {a}
    <2>1. u = [v EXCEPT !.begun = v.begun \cup {a}, !.started = v.started + 1]
          BY <1>1 DEF RecordStarted, WalkType
    <2>2. v.begun \cup {a} \in SUBSET Attempts /\ v.started + 1 \in Nat
          BY <1>1, <1>2
    <2> QED BY <1>1, <2>1, <2>2 DEF WalkType
  <1>4. OffersAreOut(u) /\ FirstTurnsFirst(u)
        BY <1>3 DEF GoodWalk, OffersAreOut, FirstTurnsFirst
  <1> QED BY <1>3, <1>4 DEF GoodWalk

\* A run is started for an attempt the walk has handed out.
LEMMA StartRunFacts ==
    ASSUME TypeOK, NEW v, GoodWalk(v), NEW o \in Attempts, o \in Range(v.pending), o \notin v.begun,
           StartRun(o, v)
    PROVE  /\ GoodWalk(walk)'
           /\ walk'.cursor = v.cursor /\ walk'.badProviders = v.badProviders /\ walk'.stopped = v.stopped
           /\ walk'.pending = v.pending /\ egressed' \in {"no", "yes"} /\ result' = result
           /\ phase' \in [Attempts -> {"idle", "prep", "flying", "settled"}]
           /\ \A b \in Attempts : b # o => phase'[b] = phase[b] /\ lease'[b] = lease[b]
           /\ \/ phase'[o] = "prep" /\ o \in SlowPrep /\ walk'.begun = v.begun /\ lease' = lease
              \/ phase'[o] = "flying" /\ walk'.begun = v.begun \cup {o} /\ lease' = [lease EXCEPT ![o] = "open"]
  <1>1. CASE o \notin SlowPrep /\ OnEgress(o, v)
    <2>1. ~StartThrows(v, o)
          BY DEF StartThrows, IsPending
    <2>2. /\ walk' = RecordStarted(v, o) /\ egressed' = "yes" /\ lease' = [lease EXCEPT ![o] = "open"]
          /\ phase' = [phase EXCEPT ![o] = "flying"] /\ UNCHANGED result
          BY <1>1, <2>1 DEF OnEgress
    <2>3. PICK u : u = walk'
          OBVIOUS
    <2>4. /\ GoodWalk(u) /\ u.cursor = v.cursor /\ u.badProviders = v.badProviders /\ u.stopped = v.stopped
          /\ u.pending = v.pending /\ u.begun = v.begun \cup {o}
          BY <2>2, <2>3, StartedFacts
    <2>5. GoodWalk(walk)'
          BY <2>3, <2>4 DEF GoodWalk, OffersAreOut, FirstTurnsFirst
    <2> QED BY <2>2, <2>3, <2>4, <2>5 DEF TypeOK
  <1>2. CASE /\ o \in SlowPrep /\ walk' = v /\ phase' = [phase EXCEPT ![o] = "prep"]
             /\ UNCHANGED <<egressed, lease, result>>
    <2>1. GoodWalk(walk)'
          BY <1>2 DEF GoodWalk, OffersAreOut, FirstTurnsFirst
    <2> QED BY <1>2, <2>1 DEF TypeOK
  <1> QED BY <1>1, <1>2 DEF StartRun

\* A conversion ends: the attempt goes out, or is over.
LEMMA PreparedKeeps == \A a \in Attempts : RequestInv /\ Prepared(a) => RequestInv'
  <1> SUFFICES ASSUME NEW a \in Attempts, RequestInv, Prepared(a) PROVE RequestInv'
      OBVIOUS
  <1>1. /\ phase[a] = "prep" /\ UNCHANGED <<spent, capped, refused, rvars, aborted, client, heads>>
        BY DEF Prepared
  <1>2. Racers' = Racers /\ UNCHANGED <<pc, primary, hedge, current, delay>> /\ TypeOK /\ GoodWalk(walk)
        BY <1>1 DEF rvars, Racers, RequestInv
  <1>3. /\ GoodWalk(walk)' /\ walk'.cursor = walk.cursor /\ walk'.badProviders = walk.badProviders
        /\ walk'.stopped = walk.stopped /\ walk'.pending = walk.pending
        /\ egressed' \in {"no", "yes"} /\ (pc = "top" => egressed' = egressed)
        /\ phase' \in [Attempts -> {"idle", "prep", "flying", "settled"}]
        /\ result' \in [Attempts -> Outcomes \cup {"none"}]
        /\ \A b \in Attempts : b # a => phase'[b] = phase[b] /\ lease'[b] = lease[b] /\ result'[b] = result[b]
        /\ lease' \in [Attempts -> {"none", "open", "succeeded", "failed", "refused", "cancelled", "abandoned"}]
        /\ result'[a] = "cancelled" => result[a] = "cancelled"
        /\ \/ /\ phase'[a] = "flying" /\ a \notin aborted
              /\ walk'.begun = walk.begun \cup {a} /\ a \in Range(walk.pending)
           \/ phase'[a] = "settled" /\ result'[a] \in {"rejected", "local"} /\ walk'.begun = walk.begun
    <2>1. CASE MayEgress(a) /\ OnEgress(a, walk) /\ ~StartThrows(walk, a)
      <3>1. /\ walk' = RecordStarted(walk, a) /\ egressed' = "yes" /\ lease' = [lease EXCEPT ![a] = "open"]
            /\ phase' = [phase EXCEPT ![a] = "flying"] /\ UNCHANGED result
            BY <2>1 DEF OnEgress
      <3>2. a \in Range(walk.pending) /\ a \notin aborted
            BY <2>1 DEF StartThrows, IsPending, MayEgress
      <3>3. PICK u : u = walk'
            OBVIOUS
      <3>4. /\ GoodWalk(u) /\ u.cursor = walk.cursor /\ u.badProviders = walk.badProviders
            /\ u.stopped = walk.stopped /\ u.pending = walk.pending /\ u.begun = walk.begun \cup {a}
            BY <1>2, <3>1, <3>2, <3>3, StartedFacts
      <3>5. GoodWalk(walk)'
            BY <3>3, <3>4 DEF GoodWalk, OffersAreOut, FirstTurnsFirst
      <3>6. pc # "top"
            BY <1>1, <3>2 DEF RequestInv, PrepInv
      <3> QED BY <1>2, <3>1, <3>2, <3>3, <3>4, <3>5, <3>6 DEF TypeOK
    <2>2. ASSUME walk' = walk, phase' = [phase EXCEPT ![a] = "settled"],
                 \E r \in {"rejected", "local"} : result' = [result EXCEPT ![a] = r],
                 \/ egressed' = egressed /\ lease' = lease
                 \/ MayEgress(a) /\ egressed' = "yes" /\ lease' = [lease EXCEPT ![a] = "open"]
          PROVE  /\ GoodWalk(walk)' /\ walk'.cursor = walk.cursor /\ walk'.badProviders = walk.badProviders
                 /\ walk'.stopped = walk.stopped /\ walk'.pending = walk.pending
                 /\ egressed' \in {"no", "yes"} /\ (pc = "top" => egressed' = egressed)
                 /\ phase' \in [Attempts -> {"idle", "prep", "flying", "settled"}]
                 /\ result' \in [Attempts -> Outcomes \cup {"none"}]
                 /\ \A b \in Attempts : b # a => phase'[b] = phase[b] /\ lease'[b] = lease[b] /\ result'[b] = result[b]
                 /\ lease' \in [Attempts -> {"none", "open", "succeeded", "failed", "refused", "cancelled", "abandoned"}]
                 /\ result'[a] = "cancelled" => result[a] = "cancelled"
                 /\ phase'[a] = "settled" /\ result'[a] \in {"rejected", "local"} /\ walk'.begun = walk.begun
      <3>1. GoodWalk(walk)'
            BY <1>2, <2>2 DEF GoodWalk, OffersAreOut, FirstTurnsFirst
      <3>2. pc = "top" => egressed' = egressed
            BY <1>1, <2>2 DEF RequestInv, PrepInv, MayEgress
      <3>3. {"rejected", "local"} \subseteq Outcomes
            BY DEF Outcomes
      <3> QED BY <1>2, <2>2, <3>1, <3>2, <3>3 DEF TypeOK
    <2>3. CASE MayEgress(a) /\ OnEgress(a, walk) /\ StartThrows(walk, a)
      <3>1. /\ walk' = walk /\ phase' = [phase EXCEPT ![a] = "settled"]
            /\ result' = [result EXCEPT ![a] = "rejected"]
            /\ egressed' = "yes" /\ lease' = [lease EXCEPT ![a] = "open"]
            BY <2>3 DEF OnEgress
      <3> QED BY <2>2, <2>3, <3>1
    <2>4. CASE /\ phase' = [phase EXCEPT ![a] = "settled"]
               /\ result' = [result EXCEPT ![a] = IF a \in aborted THEN "rejected" ELSE "local"]
               /\ UNCHANGED <<walk, egressed, lease>>
      <3>1. \E r \in {"rejected", "local"} : result' = [result EXCEPT ![a] = r]
            BY <2>4
      <3>2. walk' = walk /\ egressed' = egressed /\ lease' = lease /\ phase' = [phase EXCEPT ![a] = "settled"]
            BY <2>4
      <3> QED BY <2>2, <3>1, <3>2
    <2> QED BY <2>1, <2>3, <2>4 DEF Prepared
  <1>4. TypeOK'
        BY <1>1, <1>2, <1>3 DEF TypeOK, GoodWalk
  <1>5. AnswerInv'
        BY <1>1, <1>2, <1>3 DEF RequestInv, AnswerInv
  <1>6. Racers \subseteq Attempts
        BY <1>2 DEF TypeOK, Racers
  <1>7. HoldInv'
    <2>1. ASSUME pc = "top" PROVE walk' = walk /\ \A b \in Range(walk.pending) : b # a /\ phase'[b] = phase[b]
      <3>1. \A b \in Range(walk.pending) : phase[b] = "idle" /\ b \in Attempts
            BY <1>2, <2>1, WalkShape DEF RequestInv, HoldInv, GoodWalk, Range
      <3>2. \A b \in Range(walk.pending) : b # a
            BY <1>1, <3>1
      <3>3. a \in aborted
            BY <1>1, <2>1 DEF RequestInv, PrepInv
      <3>4. walk' = walk
            BY <3>3 DEF Prepared, MayEgress
      <3> QED BY <1>3, <3>1, <3>2, <3>4
    <2>2. \A b \in Attempts : Reached(b)' => Reached(b) \/ b \in walk'.begun
          BY <1>3 DEF Reached
    <2>3. \A b \in Attempts : phase'[b] = "prep" => phase[b] = "prep" /\ b # a
          BY <1>3
    <2>4. walk.begun \subseteq walk'.begun /\ \A b \in walk'.begun : b = a \/ b \in walk.begun
          BY <1>3
    <2>5. \A b \in Attempts : phase[b] = "settled" => phase'[b] = "settled"
          BY <1>1, <1>3
    <2>6. ASSUME pc = "race"
          PROVE  \A b \in Racers : /\ phase'[b] # "idle"
                                   /\ Reached(b)' => b \in walk'.begun
                                   /\ phase'[b] = "prep" => b \notin walk'.begun
      <3>1. \A b \in Racers : /\ phase[b] # "idle" /\ (Reached(b) => b \in walk.begun)
                              /\ phase[b] = "prep" => b \notin walk.begun
            BY <2>6 DEF RequestInv, HoldInv
      <3>2. \A b \in Racers : phase'[b] # "idle"
            BY <1>3, <1>6, <3>1
      <3> QED BY <1>6, <2>2, <2>3, <2>4, <3>1, <3>2
    <2>7. ASSUME pc = "settled" PROVE \A b \in {current} : Reached(b)' => b \in walk'.begun
      <3>1. current \in Attempts /\ (Reached(current) => current \in walk.begun)
            BY <2>7 DEF RequestInv, HoldInv
      <3> QED BY <2>2, <2>4, <3>1
    <2> QED BY <1>1, <1>2, <1>3, <2>1, <2>4, <2>5, <2>6, <2>7 DEF RequestInv, HoldInv, Reached
  <1>8. PrepInv'
        BY <1>1, <1>2, <1>3 DEF RequestInv, PrepInv
  <1>9. \A b \in Attempts : phase'[b] # "idle" <=> phase[b] # "idle"
        BY <1>1, <1>3
  <1>10. StartInv'
         BY <1>1, <1>3, <1>9 DEF RequestInv, StartInv
  <1>11. ASSUME NEW b \in Attempts, Startable(b)', Second(b)' PROVE AllTouched(walk)'
    <2>1. Second(b)
          BY <1>9, <1>11 DEF Second
    <2>2. Startable(b)
          BY <1>1, <1>3, <1>11 DEF Startable
    <2> QED BY <1>3, <2>1, <2>2 DEF RequestInv, TurnInv, AllTouched
  <1> QED BY <1>3, <1>4, <1>5, <1>7, <1>8, <1>10, <1>11 DEF RequestInv, TurnInv

\* A candidate that is out, not started and below its cap is what the walk offers again.
LEMMA KeptOffer ==
    ASSUME RequestInv, walk.stopped = "no", NEW o \in Attempts \ capped, Range(walk.pending) = {o},
           o \notin walk.begun, NEW n, n = NextUncapped(walk)
    PROVE  n = [walk |-> walk, offer |-> o, refused |-> refused]
  <1>1. TypeOK /\ GoodWalk(walk)
        BY DEF RequestInv
  <1>2. CanAsk(walk)
        BY <1>1, OneOut
  <1>3. /\ walk.pending \in Seq(Attempts) /\ Len(walk.pending) \in Nat
        /\ DOMAIN walk.pending = 1 .. Len(walk.pending)
        BY <1>1, WalkShape DEF GoodWalk
  <1>4. PICK unstarted : unstarted = ReofferUnstarted(walk)
        OBVIOUS
  <1>5. unstarted = DOMAIN walk.pending
        BY <1>4 DEF ReofferUnstarted, Range
  <1>6. unstarted \in SUBSET Nat /\ unstarted # {}
        BY <1>3, <1>5 DEF Range
  <1>7. PICK p : p = Min(unstarted)
        OBVIOUS
  <1>8. p \in DOMAIN walk.pending
        BY <1>5, <1>6, <1>7, MinIsLeast
  <1>9. walk.pending[p] = o
        BY <1>8 DEF Range
  <1>10. WalkNext(walk, spent) = [walk |-> walk, offer |-> o]
         BY <1>4, <1>6, <1>7, <1>9 DEF WalkNext
  <1>11. Asked(walk, refused) = [walk |-> walk, offer |-> o, refused |-> refused]
         BY <1>10 DEF Asked
  <1> QED BY <1>1, <1>2, <1>11, OfferIsUncapped DEF TypeOK

\* At the top of the loop: a first candidate, or the one that was looked ahead to.
LEMMA TopAsks ==
    ASSUME RequestInv, pc = "top", NEW n, n = NextUncapped(walk)
    PROVE  /\ GoodWalk(n.walk) /\ n.refused \subseteq Attempts /\ n.walk.begun = {} /\ n.walk.stopped = "no"
           /\ n.walk.badProviders = walk.badProviders
           /\ \A g \in GroupIds : walk.cursor[g] <= n.walk.cursor[g]
           /\ \/ n.offer = None /\ n.refused # {} /\ egressed = "no" /\ Range(n.walk.pending) \subseteq {None}
              \/ /\ n.offer \in Attempts \ capped /\ Range(n.walk.pending) = {n.offer}
                 /\ phase[n.offer] = "idle" /\ (Second(n.offer) => AllTouched(n.walk))
  <1>1. /\ TypeOK /\ StartInv /\ GoodWalk(walk) /\ walk.stopped = "no" /\ walk.begun = {}
        /\ \A o \in Range(walk.pending) : phase[o] = "idle"
        BY DEF RequestInv, HoldInv, AnswerInv
  <1>2. CASE walk = NewWalk /\ refused = {} /\ egressed = "no"
    <2>1. Range(walk.pending) = {} /\ Asked(walk, refused).offer # None
          BY <1>2, FreshWalk
    <2>2. CanAsk(walk)
          BY <1>1, <2>1, OneOut
    <2>3. (n.offer = None => n.refused # {}) /\ Along(walk, n)
          BY <1>1, <2>1, <2>2, OfferIsUncapped DEF TypeOK
    <2>4. n.walk.stopped = "no" /\ n.walk.badProviders = walk.badProviders
          BY <1>1, <2>3 DEF Along, Onward
    <2>5. /\ GoodWalk(n.walk) /\ n.refused \subseteq Attempts /\ n.walk.begun = {}
          /\ \A g \in GroupIds : walk.cursor[g] <= n.walk.cursor[g]
          /\ \/ n.offer = None /\ Range(n.walk.pending) \subseteq {None}
             \/ /\ n.offer \in Attempts \ capped /\ Range(n.walk.pending) = {n.offer}
                /\ n.walk.stopped = "no" /\ phase[n.offer] = "idle"
                /\ Second(n.offer) => AllTouched(n.walk)
          BY <1>1, <2>1, LookAhead
    <2> QED BY <1>2, <2>3, <2>4, <2>5
  <1>3. ASSUME NEW o \in Attempts \ capped, Range(walk.pending) = {o}
        PROVE  n.walk = walk /\ n.offer = o /\ n.refused = refused
    <2>1. n = [walk |-> walk, offer |-> o, refused |-> refused]
          BY <1>1, <1>3, KeptOffer
    <2> QED BY <2>1
  <1>4. ASSUME NEW o \in Attempts \ capped, Range(walk.pending) = {o}
        PROVE  /\ phase[o] = "idle" /\ (Second(o) => AllTouched(walk)) /\ refused \subseteq Attempts
               /\ \A g \in GroupIds : walk.cursor[g] <= walk.cursor[g]
    <2>1. Startable(o)
          BY <1>4 DEF Startable
    <2>2. walk.cursor \in [GroupIds -> Nat]
          BY <1>1, WalkShape DEF GoodWalk
    <2> QED BY <1>1, <1>4, <2>1, <2>2 DEF RequestInv, TurnInv, TypeOK
  <1>5. CASE \E o \in Attempts \ capped : Range(walk.pending) = {o}
        BY <1>1, <1>3, <1>4, <1>5
  <1> QED BY <1>2, <1>5 DEF RequestInv, HoldInv

\* Cursors that go on keep behind them what was started.
LEMMA StartsStand ==
    ASSUME StartInv, GoodWalk(walk), GoodWalk(walk)', \A g \in GroupIds : walk.cursor[g] <= walk'.cursor[g],
           \A a \in Attempts : lease'[a] # "none" => phase'[a] # "idle",
           \A a \in Attempts : phase'[a] # "idle" => phase[a] # "idle" \/ a \in Range(walk'.pending)
    PROVE  StartInv'
  <1>1. walk.cursor \in [GroupIds -> Nat]
        BY WalkShape DEF GoodWalk
  <1>2. walk'.cursor \in [GroupIds -> Nat] /\ \A a \in Range(walk'.pending) : Rank(a) <= walk'.cursor[GroupOf(a)]
    <2>1. PICK u : u = walk'
          OBVIOUS
    <2>2. GoodWalk(u)
          BY <2>1 DEF GoodWalk, OffersAreOut, FirstTurnsFirst
    <2>3. u.cursor \in [GroupIds -> Nat] /\ \A a \in Range(u.pending) : Rank(a) <= u.cursor[GroupOf(a)]
          BY <2>2, WalkShape DEF GoodWalk, OffersAreOut
    <2> QED BY <2>1, <2>3
  <1>3. ASSUME NEW a \in Attempts, phase'[a] # "idle" PROVE Rank(a) <= walk'.cursor[GroupOf(a)]
    <2>1. CASE a \in Range(walk'.pending)
          BY <1>2, <2>1
    <2>2. CASE phase[a] # "idle"
      <3>1. Rank(a) <= walk.cursor[GroupOf(a)]
            BY <2>2 DEF StartInv
      <3>2. Rank(a) \in Nat /\ GroupOf(a) \in GroupIds
            BY PlaceOfAnAttempt
      <3>3. /\ walk.cursor[GroupOf(a)] \in Nat /\ walk'.cursor[GroupOf(a)] \in Nat
            /\ walk.cursor[GroupOf(a)] <= walk'.cursor[GroupOf(a)]
            BY <1>1, <1>2, <3>2
      <3> QED BY <3>1, <3>2, <3>3
    <2> QED BY <1>3, <2>1, <2>2
  <1> QED BY <1>3 DEF StartInv

\* The request ends: answered, or its client has left.
LEMMA DoneKeeps ==
    ASSUME RequestInv, Finish, TypeOK', GoodWalk(walk)',
           \A g \in GroupIds : walk.cursor[g] <= walk'.cursor[g],
           UNCHANGED <<phase, result, client>>, client = "here" => heads' = 1,
           \A a \in Attempts : lease'[a] # "none" => phase[a] # "idle",
           \A a \in Attempts : phase[a] = "prep" => a \in aborted',
           \A a \in Attempts : a \in Range(walk'.pending) /\ Second(a) => AllTouched(walk)'
    PROVE  RequestInv'
  <1>1. pc' = "done"
        BY DEF Finish
  <1>2. AnswerInv'
        BY <1>1 DEF RequestInv, AnswerInv
  <1>3. HoldInv'
        BY <1>1 DEF HoldInv
  <1>4. PrepInv'
        BY DEF RequestInv, PrepInv
  <1>5. StartInv'
        BY StartsStand DEF RequestInv
  <1>6. TurnInv'
        BY DEF TurnInv, Startable, Second
  <1> QED BY <1>2, <1>3, <1>4, <1>5, <1>6 DEF RequestInv

\* The race begins with a candidate that has not been started.
LEMMA RaceBegins ==
    ASSUME RequestInv, pc = "top", client = "here", NEW n, n = NextUncapped(walk), refused' = n.refused,
           n.offer \in Attempts, StartRun(n.offer, n.walk), pc' = "race", primary' = n.offer, hedge' = None,
           delay' = IF MaxInFlight > 1 THEN "armed" ELSE "off",
           UNCHANGED <<current, heads, spent, capped, aborted, client>>
    PROVE  RequestInv'
  <1>1. PICK u, o : u = n.walk /\ o = n.offer
        OBVIOUS
  <1>2. /\ GoodWalk(u) /\ n.refused \subseteq Attempts /\ u.begun = {} /\ u.stopped = "no"
        /\ \A g \in GroupIds : walk.cursor[g] <= u.cursor[g]
        /\ o \in Attempts /\ Range(u.pending) = {o} /\ phase[o] = "idle" /\ (Second(o) => AllTouched(u))
        BY <1>1, TopAsks, GroupShapes
  <1>3. TypeOK /\ PrepInv /\ StartInv /\ GoodWalk(walk) /\ heads = 0
        BY DEF RequestInv, AnswerInv
  <1>4. /\ GoodWalk(walk)'
        /\ walk'.cursor = u.cursor /\ walk'.badProviders = u.badProviders /\ walk'.stopped = u.stopped
        /\ walk'.pending = u.pending /\ egressed' \in {"no", "yes"} /\ result' = result
        /\ phase' \in [Attempts -> {"idle", "prep", "flying", "settled"}]
        /\ \A b \in Attempts : b # o => phase'[b] = phase[b] /\ lease'[b] = lease[b]
        /\ \/ phase'[o] = "prep" /\ o \in SlowPrep /\ walk'.begun = {} /\ lease' = lease
           \/ phase'[o] = "flying" /\ walk'.begun = {o} /\ lease' = [lease EXCEPT ![o] = "open"]
    <2>1. StartRun(o, u) /\ o \in Range(u.pending) /\ o \notin u.begun
          BY <1>1, <1>2
    <2>2. /\ GoodWalk(walk)'
          /\ walk'.cursor = u.cursor /\ walk'.badProviders = u.badProviders /\ walk'.stopped = u.stopped
          /\ walk'.pending = u.pending /\ egressed' \in {"no", "yes"} /\ result' = result
          /\ phase' \in [Attempts -> {"idle", "prep", "flying", "settled"}]
          /\ \A b \in Attempts : b # o => phase'[b] = phase[b] /\ lease'[b] = lease[b]
          /\ \/ phase'[o] = "prep" /\ o \in SlowPrep /\ walk'.begun = u.begun /\ lease' = lease
             \/ phase'[o] = "flying" /\ walk'.begun = u.begun \cup {o} /\ lease' = [lease EXCEPT ![o] = "open"]
          BY <1>2, <1>3, <2>1, StartRunFacts
    <2> QED BY <1>2, <2>2
  <1>5. TypeOK'
    <2>1. lease' \in [Attempts -> {"none", "open", "succeeded", "failed", "refused", "cancelled", "abandoned"}]
          BY <1>3, <1>4 DEF TypeOK
    <2>2. walk' \in WalkType
          BY <1>4 DEF GoodWalk
    <2> QED BY <1>1, <1>2, <1>3, <1>4, <2>1, <2>2 DEF TypeOK
  <1>6. AnswerInv'
        BY <1>2, <1>3, <1>4 DEF RequestInv, AnswerInv
  <1>7. Racers' = {o} /\ None # o
        BY <1>1, <1>2, GroupShapes DEF Racers
  <1>8. HoldInv'
        BY <1>1, <1>2, <1>4, <1>7 DEF HoldInv, Reached
  <1>9. PrepInv'
        BY <1>3, <1>4, <1>7 DEF PrepInv
  <1>10. StartInv'
    <2>1. \A a \in Attempts : lease'[a] # "none" => phase'[a] # "idle"
          BY <1>3, <1>4 DEF StartInv
    <2>2. \A a \in Attempts : phase'[a] # "idle" => phase[a] # "idle" \/ a \in Range(walk'.pending)
          BY <1>2, <1>4
    <2>3. \A g \in GroupIds : walk.cursor[g] <= walk'.cursor[g]
          BY <1>2, <1>4
    <2> QED BY <1>3, <1>4, <2>1, <2>2, <2>3, StartsStand
  <1>11. ASSUME NEW a \in Attempts, Startable(a)', Second(a)' PROVE AllTouched(walk)'
    <2>1. a = o
      <3>1. a \in Range(walk'.pending) => a = o
            BY <1>2, <1>4
      <3>2. phase'[a] = "prep" /\ a # o => a \in aborted'
            BY <1>3, <1>4 DEF PrepInv
      <3> QED BY <1>11, <3>1, <3>2 DEF Startable
    <2>2. Second(o)
      <3>1. PICK b \in Attempts : GroupOf(b) = GroupOf(o) /\ Rank(b) < Rank(o) /\ phase'[b] # "idle"
            BY <1>11, <2>1 DEF Second
      <3>2. Rank(b) \in Nat /\ Rank(o) \in Nat
            BY <1>2, PlaceOfAnAttempt
      <3>3. b # o
            BY <3>1, <3>2
      <3> QED BY <1>4, <3>1, <3>3 DEF Second
    <2>3. AllTouched(u)
          BY <1>2, <2>2
    <2> QED BY <1>4, <2>3 DEF AllTouched
  <1> QED BY <1>4, <1>5, <1>6, <1>8, <1>9, <1>10, <1>11 DEF RequestInv, TurnInv

\* The top of the loop: the client may be gone, no candidate left, or the next one starts.
LEMMA TopKeeps == RequestInv /\ Top => RequestInv'
  <1> SUFFICES ASSUME RequestInv, Top PROVE RequestInv'
      OBVIOUS
  <1>1. /\ pc = "top" /\ UNCHANGED <<spent, capped, aborted, client>>
        /\ TypeOK /\ PrepInv /\ StartInv /\ TurnInv /\ GoodWalk(walk) /\ heads = 0 /\ egressed \in {"no", "yes"}
        BY DEF Top, RequestInv, AnswerInv, TypeOK
  <1>2. PICK n : n = NextUncapped(walk)
        OBVIOUS
  <1>3. PICK u, o : u = n.walk /\ o = n.offer
        OBVIOUS
  <1>4. /\ GoodWalk(u) /\ n.refused \subseteq Attempts /\ u.begun = {} /\ u.stopped = "no"
        /\ \A g \in GroupIds : walk.cursor[g] <= u.cursor[g]
        /\ \/ o = None /\ n.refused # {} /\ egressed = "no" /\ Range(u.pending) \subseteq {None}
           \/ /\ o \in Attempts /\ Range(u.pending) = {o}
              /\ phase[o] = "idle" /\ (Second(o) => AllTouched(u))
        BY <1>1, <1>2, <1>3, TopAsks
  <1>5. /\ \A a \in Attempts : lease[a] # "none" => phase[a] # "idle"
        /\ \A a \in Attempts : phase[a] = "prep" => a \in aborted
        /\ None \notin Attempts /\ walk.cursor \in [GroupIds -> Nat]
        BY <1>1, GroupShapes, WalkShape DEF StartInv, PrepInv, GoodWalk
  <1>6. CASE /\ client = "gone" /\ Finish
             /\ UNCHANGED <<walk, refused, egressed, phase, result, lease, heads>>
    <2>1. TypeOK'
          BY <1>1, <1>6 DEF TypeOK, Finish
    <2>2. GoodWalk(walk)' /\ \A g \in GroupIds : walk.cursor[g] <= walk'.cursor[g]
          BY <1>1, <1>5, <1>6 DEF GoodWalk, OffersAreOut, FirstTurnsFirst
    <2>3. ASSUME NEW a \in Attempts, a \in Range(walk'.pending), Second(a) PROVE AllTouched(walk)'
      <3>1. AllTouched(walk)
            BY <1>1, <1>6, <2>3 DEF TurnInv, Startable
      <3> QED BY <1>6, <3>1 DEF AllTouched
    <2> QED BY <1>1, <1>5, <1>6, <2>1, <2>2, <2>3, DoneKeeps
  <1>7. ASSUME client = "here", refused' = n.refused, n.offer = None, walk' = n.walk,
               IF n.refused # {} /\ egressed = "no" THEN Answer ELSE UNCHANGED heads,
               Finish, UNCHANGED <<egressed, phase, result, lease>>
        PROVE  RequestInv'
    <2>1. heads' = 1 /\ Range(u.pending) \subseteq {None}
          BY <1>1, <1>3, <1>4, <1>7, GroupShapes DEF Answer
    <2>2. walk' \in WalkType
          BY <1>3, <1>4, <1>7 DEF GoodWalk
    <2>3. TypeOK'
          BY <1>1, <1>4, <1>7, <2>1, <2>2 DEF TypeOK, Finish
    <2>4. GoodWalk(walk)' /\ \A g \in GroupIds : walk.cursor[g] <= walk'.cursor[g]
          BY <1>3, <1>4, <1>7 DEF GoodWalk, OffersAreOut, FirstTurnsFirst
    <2>5. \A a \in Attempts : a \notin Range(walk'.pending)
          BY <1>3, <1>5, <1>7, <2>1
    <2> QED BY <1>1, <1>5, <1>7, <2>1, <2>3, <2>4, <2>5, DoneKeeps
  <1>8. ASSUME client = "here", refused' = n.refused, n.offer \in Misconfigured,
               walk' = RecordRejected(n.walk, n.offer), Answer,
               Finish, UNCHANGED <<egressed, phase, result, lease>>
        PROVE  RequestInv'
    <2>1. o \in Range(u.pending) /\ Range(u.pending) = {o}
          BY <1>3, <1>4, <1>5, <1>8, WalkConstants
    <2>2. PICK r : r = RecordRejected(u, o)
          OBVIOUS
    <2>3. GoodWalk(r) /\ r.cursor = u.cursor /\ Range(r.pending) = {}
      <3>1. GoodWalk(r) /\ r.cursor = u.cursor /\ Range(r.pending) = Range(u.pending) \ {o}
            BY <1>4, <2>1, <2>2, RejectFacts
      <3> QED BY <2>1, <3>1
    <2>4. walk' = r /\ heads' = 1
          BY <1>1, <1>3, <1>8, <2>2 DEF Answer
    <2>5. TypeOK'
      <3>1. walk' \in WalkType
            BY <2>3, <2>4 DEF GoodWalk
      <3> QED BY <1>1, <1>4, <1>8, <2>4, <3>1 DEF TypeOK, Finish
    <2>6. GoodWalk(walk)' /\ \A g \in GroupIds : walk.cursor[g] <= walk'.cursor[g]
          BY <1>4, <2>3, <2>4 DEF GoodWalk, OffersAreOut, FirstTurnsFirst
    <2>7. \A a \in Attempts : a \notin Range(walk'.pending)
          BY <2>3, <2>4
    <2> QED BY <1>1, <1>5, <1>8, <2>4, <2>5, <2>6, <2>7, DoneKeeps
  <1>9. ASSUME client = "here", refused' = n.refused, n.offer \in Attempts \ Misconfigured,
               StartRun(n.offer, n.walk), pc' = "race", primary' = n.offer, hedge' = None,
               delay' = IF MaxInFlight > 1 THEN "armed" ELSE "off", UNCHANGED <<current, heads>>
        PROVE  RequestInv'
        BY <1>1, <1>2, <1>9, RaceBegins
  <1> QED BY <1>2, <1>6, <1>7, <1>8, <1>9 DEF Top

\* The hedge timer asks for a second candidate: what it is given is the primary again,
\* or one that has not been started.
LEMMA HedgeAsks ==
    ASSUME RequestInv, pc = "race", delay = "armed", NEW n, n = NextUncapped(walk)
    PROVE  /\ hedge = None /\ primary \in Attempts /\ Range(walk.pending) \subseteq {primary}
           /\ GoodWalk(n.walk) /\ Onward(walk, n.walk) /\ n.refused \subseteq Attempts
           /\ Range(n.walk.pending) \subseteq Range(walk.pending) \cup {n.offer}
           /\ n.offer # None =>
                /\ n.offer \in Attempts \ walk.begun /\ n.offer \in Range(n.walk.pending) /\ n.offer \notin capped
                /\ n.offer = primary => primary \in Range(walk.pending)
                /\ n.offer # primary => /\ phase[n.offer] = "idle"
                                        /\ Second(n.offer) => AllTouched(n.walk)
                                        /\ \A a \in Attempts : phase[a] # "idle" /\ GroupOf(a) = GroupOf(n.offer)
                                                                 => Rank(a) < Rank(n.offer)
  <1>1. /\ TypeOK /\ StartInv /\ GoodWalk(walk) /\ hedge = None /\ MaxInFlight > 1
        /\ primary \in Attempts /\ Range(walk.pending) \subseteq Racers
        /\ \A a \in Racers : phase[a] # "idle"
        BY DEF RequestInv, HoldInv
  <1>2. Racers = {primary}
        BY <1>1, GroupShapes DEF Racers
  <1>3. CanAsk(walk)
        BY <1>1, <1>2, OneOut
  <1>4. Along(walk, n) /\ n.offer \notin capped
        BY <1>1, <1>3, OfferIsUncapped DEF TypeOK
  <1>5. PICK u, o : u = n.walk /\ o = n.offer
        OBVIOUS
  <1>6. /\ GoodWalk(u) /\ Onward(walk, u) /\ n.refused \subseteq Attempts
        /\ Range(u.pending) \subseteq Range(walk.pending) \cup {o}
        /\ o # None => /\ o \in Attempts \ walk.begun /\ o \in Range(u.pending)
                       /\ NewOrKept(walk, u, o)
        BY <1>4, <1>5 DEF Along
  <1>7. ASSUME o # None, o \notin Range(walk.pending)
        PROVE  /\ o # primary /\ phase[o] = "idle" /\ (Second(o) => AllTouched(u))
               /\ \A a \in Attempts : phase[a] # "idle" /\ GroupOf(a) = GroupOf(o) => Rank(a) < Rank(o)
    <2>1. FreshOffer(walk, u, o) /\ o \in Attempts
          BY <1>6, <1>7 DEF NewOrKept
    <2>2. \A g \in GroupIds : walk.cursor[g] <= walk.cursor[g]
      <3>1. walk.cursor \in [GroupIds -> Nat]
            BY <1>1, WalkShape DEF GoodWalk
      <3> QED BY <3>1
    <2>3. /\ phase[o] = "idle" /\ (Second(o) => AllTouched(u))
          /\ \A a \in Attempts : phase[a] # "idle" /\ GroupOf(a) = GroupOf(o) => Rank(a) < Rank(o)
          BY <1>1, <2>1, <2>2, NewIsIdle
    <2> QED BY <1>1, <1>2, <2>3
  <1> QED BY <1>1, <1>2, <1>4, <1>5, <1>6, <1>7

\* The timer passes without a second candidate.
LEMMA NoHedge ==
    ASSUME RequestInv, pc = "race", delay = "armed", delay' = "fired",
           UNCHANGED <<pc, primary, hedge, current, spent, capped, aborted, client, heads>>,
           UNCHANGED <<egressed, phase, result, lease>>, refused' \subseteq Attempts,
           NEW v, walk' = v, GoodWalk(v), \A g \in GroupIds : walk.cursor[g] <= v.cursor[g],
           v.begun = walk.begun, v.badProviders = walk.badProviders, v.stopped = walk.stopped,
           Range(v.pending) \subseteq Range(walk.pending)
    PROVE  RequestInv'
  <1>1. TypeOK /\ AnswerInv /\ HoldInv /\ PrepInv /\ StartInv /\ TurnInv /\ GoodWalk(walk)
        BY DEF RequestInv
  <1>2. GoodWalk(walk)' /\ Racers' = Racers
        BY DEF GoodWalk, OffersAreOut, FirstTurnsFirst, Racers
  <1>3. TypeOK'
    <2>1. walk' \in WalkType
          BY DEF GoodWalk
    <2> QED BY <1>1, <2>1 DEF TypeOK
  <1>4. AnswerInv' /\ HoldInv' /\ PrepInv'
        BY <1>1, <1>2 DEF AnswerInv, HoldInv, PrepInv, Reached
  <1>5. StartInv'
        BY <1>1, <1>2, StartsStand DEF StartInv
  <1>6. AllTouched(walk) => AllTouched(v)
        BY <1>1, TouchedStays
  <1>7. TurnInv'
    <2>1. ASSUME NEW a \in Attempts, Startable(a)', Second(a)' PROVE AllTouched(walk)'
      <3>1. Startable(a) /\ Second(a)
            BY <2>1 DEF Startable, Second
      <3>2. AllTouched(v)
            BY <1>1, <1>6, <3>1 DEF TurnInv
      <3> QED BY <3>2 DEF AllTouched
    <2> QED BY <2>1 DEF TurnInv
  <1> QED BY <1>2, <1>3, <1>4, <1>5, <1>7 DEF RequestInv

\* A second candidate joins the race.
LEMMA HedgeJoins ==
    ASSUME RequestInv, pc = "race", delay = "armed", client = "here", delay' = "fired",
           UNCHANGED <<pc, primary, current, spent, capped, aborted, client, heads>>,
           NEW n, n = NextUncapped(walk), refused' = n.refused, n.offer \in Attempts, n.offer # primary,
           StartRun(n.offer, n.walk), hedge' = n.offer
    PROVE  RequestInv'
  <1>1. /\ TypeOK /\ AnswerInv /\ HoldInv /\ PrepInv /\ StartInv /\ TurnInv /\ GoodWalk(walk)
        /\ \A a \in Racers : /\ phase[a] # "idle" /\ (Reached(a) => a \in walk.begun)
                             /\ phase[a] = "prep" => a \notin walk.begun
        BY DEF RequestInv, HoldInv
  <1>2. PICK u, o : u = n.walk /\ o = n.offer
        OBVIOUS
  <1>3. /\ hedge = None /\ primary \in Attempts /\ Range(walk.pending) \subseteq {primary}
        /\ GoodWalk(u) /\ Onward(walk, u) /\ n.refused \subseteq Attempts
        /\ Range(u.pending) \subseteq Range(walk.pending) \cup {o} /\ o \in Attempts \ walk.begun
        /\ o \in Range(u.pending) /\ o # primary /\ phase[o] = "idle" /\ (Second(o) => AllTouched(u))
        /\ \A a \in Attempts : phase[a] # "idle" /\ GroupOf(a) = GroupOf(o) => Rank(a) < Rank(o)
    <2>1. /\ hedge = None /\ primary \in Attempts /\ Range(walk.pending) \subseteq {primary}
          /\ GoodWalk(n.walk) /\ Onward(walk, n.walk) /\ n.refused \subseteq Attempts
          /\ Range(n.walk.pending) \subseteq Range(walk.pending) \cup {n.offer}
          /\ n.offer # None =>
               /\ n.offer \in Attempts \ walk.begun /\ n.offer \in Range(n.walk.pending) /\ n.offer \notin capped
               /\ n.offer = primary => primary \in Range(walk.pending)
               /\ n.offer # primary => /\ phase[n.offer] = "idle"
                                       /\ Second(n.offer) => AllTouched(n.walk)
                                       /\ \A a \in Attempts : phase[a] # "idle" /\ GroupOf(a) = GroupOf(n.offer)
                                                                => Rank(a) < Rank(n.offer)
          BY HedgeAsks
    <2> QED BY <1>2, <2>1, GroupShapes
  <1>4. /\ u.begun = walk.begun /\ u.stopped = walk.stopped /\ u.badProviders = walk.badProviders
        /\ \A g \in GroupIds : walk.cursor[g] <= u.cursor[g]
        BY <1>3 DEF Onward
  <1>5. /\ GoodWalk(walk)'
        /\ walk'.cursor = u.cursor /\ walk'.badProviders = u.badProviders /\ walk'.stopped = u.stopped
        /\ walk'.pending = u.pending /\ egressed' \in {"no", "yes"} /\ result' = result
        /\ phase' \in [Attempts -> {"idle", "prep", "flying", "settled"}]
        /\ \A b \in Attempts : b # o => phase'[b] = phase[b] /\ lease'[b] = lease[b]
        /\ \/ phase'[o] = "prep" /\ o \in SlowPrep /\ walk'.begun = walk.begun /\ lease' = lease
           \/ phase'[o] = "flying" /\ walk'.begun = walk.begun \cup {o} /\ lease' = [lease EXCEPT ![o] = "open"]
    <2>1. StartRun(o, u) /\ o \notin u.begun
          BY <1>2, <1>3, <1>4
    <2>2. /\ GoodWalk(walk)'
          /\ walk'.cursor = u.cursor /\ walk'.badProviders = u.badProviders /\ walk'.stopped = u.stopped
          /\ walk'.pending = u.pending /\ egressed' \in {"no", "yes"} /\ result' = result
          /\ phase' \in [Attempts -> {"idle", "prep", "flying", "settled"}]
          /\ \A b \in Attempts : b # o => phase'[b] = phase[b] /\ lease'[b] = lease[b]
          /\ \/ phase'[o] = "prep" /\ o \in SlowPrep /\ walk'.begun = u.begun /\ lease' = lease
             \/ phase'[o] = "flying" /\ walk'.begun = u.begun \cup {o} /\ lease' = [lease EXCEPT ![o] = "open"]
          BY <1>1, <1>3, <2>1, StartRunFacts
    <2> QED BY <1>4, <2>2
  <1>6. TypeOK'
    <2>1. lease' \in [Attempts -> {"none", "open", "succeeded", "failed", "refused", "cancelled", "abandoned"}]
          BY <1>1, <1>3, <1>5 DEF TypeOK
    <2>2. walk' \in WalkType
          BY <1>5 DEF GoodWalk
    <2> QED BY <1>1, <1>2, <1>3, <1>5, <2>1, <2>2 DEF TypeOK
  <1>7. Racers = {primary} /\ Racers' = {primary, o} /\ None # o /\ None # primary
        BY <1>2, <1>3, GroupShapes DEF Racers
  <1>8. AnswerInv'
        BY <1>1, <1>4, <1>5 DEF AnswerInv
  <1>9. HoldInv'
    <2>1. phase'[primary] = phase[primary] /\ (Reached(primary) => primary \in walk'.begun)
          /\ (phase[primary] = "prep" => primary \notin walk'.begun) /\ phase[primary] # "idle"
          BY <1>1, <1>3, <1>5, <1>7
    <2>2. /\ phase'[o] # "idle" /\ (phase'[o] = "prep" => o \notin walk'.begun)
          /\ (phase'[o] = "flying" => o \in walk'.begun) /\ phase'[o] # "settled"
          BY <1>3, <1>5
    <2>3. \A a \in Racers' : /\ phase'[a] # "idle"
                             /\ Reached(a)' => a \in walk'.begun
                             /\ phase'[a] = "prep" => a \notin walk'.begun
          BY <1>3, <1>5, <1>7, <2>1, <2>2 DEF Reached
    <2>4. Range(walk'.pending) \subseteq Racers' /\ primary' \in Attempts /\ hedge' # primary' /\ delay' # "armed"
          BY <1>2, <1>3, <1>5, <1>7
    <2> QED BY <2>3, <2>4 DEF HoldInv
  <1>10. PrepInv'
         BY <1>1, <1>5, <1>7 DEF PrepInv
  <1>11. StartInv'
    <2>1. \A a \in Attempts : lease'[a] # "none" => phase'[a] # "idle"
          BY <1>1, <1>5 DEF StartInv
    <2>2. \A a \in Attempts : phase'[a] # "idle" => phase[a] # "idle" \/ a \in Range(walk'.pending)
          BY <1>3, <1>5
    <2>3. \A g \in GroupIds : walk.cursor[g] <= walk'.cursor[g]
          BY <1>4, <1>5
    <2> QED BY <1>1, <1>5, <2>1, <2>2, <2>3, StartsStand
  <1>12. AllTouched(walk) => AllTouched(u)
         BY <1>1, <1>3, <1>4, TouchedStays
  <1>13. ASSUME NEW a \in Attempts, Startable(a)', Second(a)' PROVE AllTouched(u)
    <2>1. ASSUME a # o PROVE AllTouched(u)
      <3>1. Startable(a) /\ phase[a] # "idle"
        <4>1. CASE a \in Range(walk'.pending)
          <5>1. a \in Range(walk.pending) /\ a \in Racers
                BY <1>3, <1>5, <1>7, <2>1, <4>1
          <5> QED BY <1>1, <5>1 DEF Startable
        <4>2. CASE phase'[a] = "prep" /\ a \notin aborted'
              BY <1>5, <2>1, <4>2 DEF Startable
        <4> QED BY <1>13, <4>1, <4>2 DEF Startable
      <3>2. PICK b \in Attempts : GroupOf(b) = GroupOf(a) /\ Rank(b) < Rank(a) /\ phase'[b] # "idle"
            BY <1>13 DEF Second
      <3>3. b # o
        <4>1. ASSUME b = o PROVE FALSE
          <5>1. Rank(a) < Rank(o) /\ Rank(o) < Rank(a)
                BY <1>3, <3>1, <3>2, <4>1
          <5>2. Rank(a) \in Nat /\ Rank(o) \in Nat
                BY <1>3, PlaceOfAnAttempt
          <5> QED BY <5>1, <5>2
        <4> QED BY <4>1
      <3>4. Second(a)
            BY <1>5, <3>2, <3>3 DEF Second
      <3> QED BY <1>1, <1>12, <3>1, <3>4 DEF TurnInv
    <2>2. ASSUME a = o PROVE AllTouched(u)
      <3>1. PICK b \in Attempts : GroupOf(b) = GroupOf(o) /\ Rank(b) < Rank(o) /\ phase'[b] # "idle"
            BY <1>13, <2>2 DEF Second
      <3>2. Rank(b) \in Nat /\ Rank(o) \in Nat
            BY <1>3, PlaceOfAnAttempt
      <3>3. b # o
            BY <3>1, <3>2
      <3>4. Second(o)
            BY <1>5, <3>1, <3>3 DEF Second
      <3> QED BY <1>3, <3>4
    <2> QED BY <2>1, <2>2
  <1>14. AllTouched(u) => AllTouched(walk)'
         BY <1>5 DEF AllTouched
  <1> QED BY <1>5, <1>6, <1>8, <1>9, <1>10, <1>11, <1>13, <1>14 DEF RequestInv, TurnInv

\* The hedge timer fires before the primary settled.
LEMMA StartHedgeKeeps == RequestInv /\ StartHedge => RequestInv'
  <1> SUFFICES ASSUME RequestInv, StartHedge PROVE RequestInv'
      OBVIOUS
  <1>1. /\ pc = "race" /\ delay = "armed" /\ delay' = "fired"
        /\ UNCHANGED <<pc, primary, current, spent, capped, aborted, client, heads>>
        /\ GoodWalk(walk) /\ refused \subseteq Attempts
        BY DEF StartHedge, RequestInv, TypeOK
  <1>2. PICK n : n = NextUncapped(walk)
        OBVIOUS
  <1>3. PICK u, o : u = n.walk /\ o = n.offer
        OBVIOUS
  <1>4. /\ hedge = None /\ primary \in Attempts /\ Range(walk.pending) \subseteq {primary}
        /\ GoodWalk(u) /\ Onward(walk, u) /\ n.refused \subseteq Attempts
        /\ Range(u.pending) \subseteq Range(walk.pending) \cup {o}
        /\ o # None => /\ o \in Attempts \ walk.begun /\ o \in Range(u.pending)
                       /\ o = primary => primary \in Range(walk.pending)
        BY <1>1, <1>2, <1>3, HedgeAsks
  <1>5. /\ \A g \in GroupIds : walk.cursor[g] <= u.cursor[g]
        /\ u.begun = walk.begun /\ u.badProviders = walk.badProviders /\ u.stopped = walk.stopped
        /\ None \notin Attempts
        BY <1>4, GroupShapes DEF Onward
  <1>6. CASE client = "gone" /\ UNCHANGED <<walk, refused, egressed, hedge, phase, result, lease>>
    <2>1. \A g \in GroupIds : walk.cursor[g] <= walk.cursor[g]
      <3>1. walk.cursor \in [GroupIds -> Nat]
            BY <1>1, WalkShape DEF GoodWalk
      <3> QED BY <3>1
    <2>2. PICK v : v = walk
          OBVIOUS
    <2>3. /\ walk' = v /\ GoodWalk(v) /\ \A g \in GroupIds : walk.cursor[g] <= v.cursor[g]
          /\ v.begun = walk.begun /\ v.badProviders = walk.badProviders /\ v.stopped = walk.stopped
          /\ Range(v.pending) \subseteq Range(walk.pending)
          BY <1>1, <1>6, <2>1, <2>2
    <2> QED BY <1>1, <1>6, <2>3, NoHedge
  <1>7. ASSUME refused' = n.refused, n.offer \in {None, primary}, walk' = n.walk,
               UNCHANGED <<egressed, hedge, phase, result, lease>>
        PROVE  RequestInv'
    <2>1. Range(u.pending) \subseteq Range(walk.pending)
      <3>1. Range(u.pending) \subseteq Attempts
            BY <1>4, WalkShape DEF GoodWalk, Range
      <3> QED BY <1>3, <1>4, <1>5, <1>7, <3>1
    <2>2. walk' = u /\ refused' \subseteq Attempts
          BY <1>3, <1>4, <1>7
    <2> QED BY <1>1, <1>4, <1>5, <1>7, <2>1, <2>2, NoHedge
  <1>8. ASSUME refused' = n.refused, n.offer \in Misconfigured \ {primary},
               walk' = RecordRejected(n.walk, n.offer), UNCHANGED <<egressed, hedge, phase, result, lease>>
        PROVE  RequestInv'
    <2>1. o \in Range(u.pending) /\ o \notin walk.begun
          BY <1>3, <1>4, <1>5, <1>8, WalkConstants
    <2>2. PICK r : r = RecordRejected(u, o)
          OBVIOUS
    <2>3. /\ GoodWalk(r) /\ r.cursor = u.cursor /\ r.stopped = u.stopped /\ r.badProviders = u.badProviders
          /\ r.begun = u.begun \ {o} /\ Range(r.pending) = Range(u.pending) \ {o}
          BY <1>4, <2>1, <2>2, RejectFacts
    <2>4. walk' = r /\ refused' \subseteq Attempts
          BY <1>3, <1>4, <1>8, <2>2
    <2>5. /\ \A g \in GroupIds : walk.cursor[g] <= r.cursor[g]
          /\ r.begun = walk.begun /\ r.badProviders = walk.badProviders /\ r.stopped = walk.stopped
          /\ Range(r.pending) \subseteq Range(walk.pending)
          BY <1>4, <1>5, <2>1, <2>3
    <2> QED BY <1>1, <1>8, <2>3, <2>4, <2>5, NoHedge
  <1>9. ASSUME client = "here", refused' = n.refused, n.offer \in Attempts \ (Misconfigured \cup {primary}),
               StartRun(n.offer, n.walk), hedge' = n.offer
        PROVE  RequestInv'
        BY <1>1, <1>2, <1>9, HedgeJoins
  <1> QED BY <1>2, <1>6, <1>7, <1>8, <1>9 DEF StartHedge

-----------------------------------------------------------------------------
(* The steps that end an attempt.                                          *)

\* A walk that lets go of attempts gives no new turns.
LEMMA TurnsShrink ==
    ASSUME RequestInv, GoodWalk(walk)', walk'.cursor = walk.cursor, walk.badProviders \subseteq walk'.badProviders,
           Range(walk'.pending) \subseteq Range(walk.pending), aborted \subseteq aborted', phase' = phase,
           \A a \in Attempts : lease'[a] # "none" => phase[a] # "idle"
    PROVE  /\ StartInv' /\ TurnInv'
           /\ \A a \in Attempts : a \in Range(walk'.pending) /\ Second(a) => AllTouched(walk)'
           /\ \A g \in GroupIds : walk.cursor[g] <= walk'.cursor[g]
  <1>1. StartInv'
        BY DEF RequestInv, StartInv
  <1>2. AllTouched(walk) => AllTouched(walk)'
        BY DEF AllTouched
  <1>3. ASSUME NEW a \in Attempts, Startable(a)', Second(a)' PROVE AllTouched(walk)'
    <2>1. Startable(a) /\ Second(a)
          BY <1>3 DEF Startable, Second
    <2> QED BY <1>2, <2>1 DEF RequestInv, TurnInv
  <1>4. ASSUME NEW a \in Attempts, a \in Range(walk'.pending), Second(a) PROVE AllTouched(walk)'
    <2>1. Startable(a)
          BY <1>4 DEF Startable
    <2> QED BY <1>2, <1>4, <2>1 DEF RequestInv, TurnInv
  <1>5. \A g \in GroupIds : walk.cursor[g] <= walk'.cursor[g]
    <2>1. walk.cursor \in [GroupIds -> Nat]
          BY WalkShape DEF RequestInv, GoodWalk
    <2> QED BY <2>1
  <1> QED BY <1>1, <1>3, <1>4, <1>5 DEF TurnInv

\* The race is over: its loser is retired, or its lease cannot be completed.
LEMMA RaceEndKeeps == RequestInv /\ RaceEnd => RequestInv'
  <1> SUFFICES ASSUME RequestInv, RaceEnd PROVE RequestInv'
      OBVIOUS
  <1>1. /\ pc = "race" /\ RaceOver
        /\ UNCHANGED <<spent, capped, refused, egressed, phase, result, client>>
        /\ TypeOK /\ PrepInv /\ GoodWalk(walk) /\ heads = 0 /\ walk.stopped = "no"
        /\ primary \in Attempts /\ hedge # primary /\ Range(walk.pending) \subseteq Racers
        /\ \A a \in Racers : Reached(a) => a \in walk.begun
        /\ Racers = {primary, hedge} \ {None} /\ None \notin Attempts
        /\ hedge # None => hedge \in Attempts
        BY GroupShapes DEF RaceEnd, RequestInv, AnswerInv, HoldInv, TypeOK, Racers
  <1>2. PICK x, y : /\ x = IF hedge # None /\ Won(hedge) THEN hedge ELSE primary
                    /\ y = IF x = hedge THEN primary ELSE hedge
        OBVIOUS
  <1>3. CASE hedge = None
    <2>1. x = primary /\ phase[primary] = "settled" /\ Racers = {primary}
          BY <1>1, <1>2, <1>3 DEF RaceOver
    <2>2. /\ current' = primary /\ pc' = "settled"
          /\ UNCHANGED <<walk, primary, hedge, delay, aborted, lease, heads>>
          BY <1>2, <1>3, <2>1 DEF RaceEnd
    <2>3. TypeOK'
          BY <1>1, <2>2 DEF TypeOK
    <2>4. GoodWalk(walk)'
          BY <1>1, <2>2 DEF GoodWalk, OffersAreOut, FirstTurnsFirst
    <2>5. AnswerInv'
          BY <1>1, <2>2 DEF RequestInv, AnswerInv
    <2>6. HoldInv'
          BY <1>1, <2>1, <2>2 DEF HoldInv, Reached
    <2>7. PrepInv'
          BY <1>1, <2>1, <2>2 DEF PrepInv
    <2>8. StartInv' /\ TurnInv'
          BY <1>1, <2>2, TurnsStand
    <2> QED BY <2>3, <2>4, <2>5, <2>6, <2>7, <2>8 DEF RequestInv
  <1>4. CASE hedge # None
    <2>1. /\ x \in Attempts /\ y \in Attempts /\ x # y /\ Racers = {x, y} /\ phase[x] = "settled"
          BY <1>1, <1>2, <1>4 DEF RaceOver, Lost, Won
    <2>2. aborted' = aborted \cup {y} /\ lease' = RetiredLease(y)
          BY <1>2, <1>4 DEF RaceEnd
    <2>3. /\ lease' \in [Attempts -> {"none", "open", "succeeded", "failed", "refused", "cancelled", "abandoned"}]
          /\ \A a \in Attempts : lease'[a] # "none" => phase[a] # "idle"
          BY <1>1, <2>1, <2>2 DEF TypeOK, RetiredLease, RequestInv, StartInv
    <2>4. \A a \in Attempts : phase[a] = "prep" => a \in aborted'
          BY <1>1, <2>1, <2>2 DEF PrepInv
    <2>5. PICK r, s : r = RecordRejected(walk, y) /\ s = RecordRejected(walk, primary)
          OBVIOUS
    <2>6. y \in Range(walk.pending) => /\ GoodWalk(r) /\ r.cursor = walk.cursor
                                       /\ r.badProviders = walk.badProviders /\ r.stopped = walk.stopped
                                       /\ r.begun = walk.begun \ {y} /\ Range(r.pending) = Range(walk.pending) \ {y}
          BY <1>1, <2>5, RejectFacts
    <2>7. primary \in Range(walk.pending) =>
             /\ GoodWalk(s) /\ s.cursor = walk.cursor /\ s.badProviders = walk.badProviders
             /\ Range(s.pending) \subseteq Range(walk.pending)
      <3>1. primary \in Range(walk.pending) =>
             /\ GoodWalk(s) /\ s.cursor = walk.cursor /\ s.badProviders = walk.badProviders
             /\ Range(s.pending) = Range(walk.pending) \ {primary}
             BY <1>1, <2>5, RejectFacts
      <3> QED BY <3>1
    <2>8. ASSUME lease[y] # "none", RecordThrows(walk, y),
                 Throws(IF lease[primary] = "none" /\ IsPending(walk, primary) THEN s ELSE walk)
          PROVE  RequestInv'
      <3>1. PICK v : v = IF lease[primary] = "none" /\ IsPending(walk, primary) THEN s ELSE walk
            OBVIOUS
      <3>2. walk' = v /\ Answer /\ Finish
            BY <2>8, <3>1 DEF Throws
      <3>3. heads' = 1
            BY <1>1, <3>2 DEF Answer
      <3>4. /\ GoodWalk(v) /\ v.cursor = walk.cursor /\ v.badProviders = walk.badProviders
            /\ Range(v.pending) \subseteq Range(walk.pending)
            BY <1>1, <2>7, <3>1 DEF IsPending
      <3>5. GoodWalk(walk)'
            BY <3>2, <3>4 DEF GoodWalk, OffersAreOut, FirstTurnsFirst
      <3>6. TypeOK'
        <4>1. walk' \in WalkType /\ aborted' \subseteq Attempts
              BY <1>1, <2>1, <2>2, <3>2, <3>4 DEF GoodWalk, TypeOK
        <4> QED BY <1>1, <2>3, <3>2, <3>3, <4>1 DEF TypeOK, Finish
      <3>7. /\ \A a \in Attempts : a \in Range(walk'.pending) /\ Second(a) => AllTouched(walk)'
            /\ \A g \in GroupIds : walk.cursor[g] <= walk'.cursor[g]
            BY <1>1, <2>2, <2>3, <3>2, <3>4, <3>5, TurnsShrink
      <3>8. \A a \in Attempts : lease'[a] # "none" => phase[a] # "idle"
            BY <2>3 DEF RequestInv, StartInv
      <3> QED BY <1>1, <2>4, <3>2, <3>3, <3>5, <3>6, <3>7, <3>8, DoneKeeps
    <2>9. ASSUME ~(lease[y] # "none" /\ RecordThrows(walk, y)),
                 walk' = IF lease[y] # "none" THEN RecordAbandoned(walk, y)
                         ELSE IF IsPending(walk, y) THEN r ELSE walk,
                 current' = x, pc' = "settled", UNCHANGED <<primary, hedge, delay, heads>>
          PROVE  RequestInv'
      <3>1. \/ y \in Range(walk.pending) /\ walk' = r
            \/ y \notin Range(walk.pending) /\ walk' = walk
            BY <2>5, <2>9, AbandonIsReject DEF RecordThrows, IsPending
      <3>2. PICK v : v = walk'
            OBVIOUS
      <3>3. walk.begun \subseteq Range(walk.pending)
            BY <1>1 DEF GoodWalk, OffersAreOut
      <3>4. /\ GoodWalk(v) /\ v.cursor = walk.cursor /\ v.badProviders = walk.badProviders
            /\ v.stopped = walk.stopped /\ v.begun = walk.begun \ {y}
            /\ Range(v.pending) = Range(walk.pending) \ {y}
            BY <1>1, <2>6, <3>1, <3>2, <3>3
      <3>5. GoodWalk(walk)'
            BY <3>2, <3>4 DEF GoodWalk, OffersAreOut, FirstTurnsFirst
      <3>6. TypeOK'
        <4>1. walk' \in WalkType /\ aborted' \subseteq Attempts
              BY <1>1, <2>1, <2>2, <3>2, <3>4 DEF GoodWalk, TypeOK
        <4> QED BY <1>1, <2>1, <2>3, <2>9, <4>1 DEF TypeOK
      <3>7. AnswerInv'
            BY <1>1, <2>9, <3>2, <3>4 DEF RequestInv, AnswerInv
      <3>8. HoldInv'
        <4>1. Reached(x) => x \in v.begun
              BY <1>1, <2>1, <3>4
        <4>2. Range(v.pending) \subseteq {x}
              BY <1>1, <2>1, <3>4
        <4> QED BY <1>1, <2>1, <2>9, <3>2, <4>1, <4>2 DEF HoldInv, Reached
      <3>9. PrepInv'
            BY <1>1, <2>4 DEF PrepInv
      <3>10. StartInv' /\ TurnInv'
        <4>1. /\ walk'.cursor = walk.cursor /\ walk.badProviders \subseteq walk'.badProviders
              /\ Range(walk'.pending) \subseteq Range(walk.pending)
              BY <3>2, <3>4
        <4> QED BY <1>1, <2>2, <2>3, <3>5, <4>1, TurnsShrink
      <3> QED BY <3>5, <3>6, <3>7, <3>8, <3>9, <3>10 DEF RequestInv
    <2>10. \/ /\ lease[y] # "none" /\ RecordThrows(walk, y)
              /\ Throws(IF lease[primary] = "none" /\ IsPending(walk, primary) THEN s ELSE walk)
           \/ /\ ~(lease[y] # "none" /\ RecordThrows(walk, y))
              /\ walk' = IF lease[y] # "none" THEN RecordAbandoned(walk, y)
                         ELSE IF IsPending(walk, y) THEN r ELSE walk
              /\ current' = x /\ pc' = "settled" /\ UNCHANGED <<primary, hedge, delay, heads>>
           BY <1>2, <1>4, <2>5 DEF RaceEnd
    <2> QED BY <2>8, <2>9, <2>10
  <1> QED BY <1>3, <1>4

\* Outside the race an attempt may be looked ahead to: what the loop then holds.
LEMMA AheadFacts ==
    ASSUME RequestInv, pc # "race", UNCHANGED <<phase, aborted, capped>>,
           \A a \in Attempts : lease'[a] # "none" => phase[a] # "idle",
           NEW w, GoodWalk(w), Range(w.pending) = {}, w.cursor = walk.cursor,
           walk.badProviders \subseteq w.badProviders,
           NEW n, n = NextUncapped(w) \/ n = [walk |-> w, offer |-> None, refused |-> refused],
           walk' = n.walk, refused' = n.refused
    PROVE  /\ GoodWalk(walk)' /\ refused' \subseteq Attempts /\ StartInv' /\ TurnInv'
           /\ \A g \in GroupIds : walk.cursor[g] <= walk'.cursor[g]
           /\ \A a \in Attempts : a \in Range(walk'.pending) /\ Second(a) => AllTouched(walk)'
           /\ \A a \in Attempts : phase[a] = "prep" => a \in aborted'
           /\ \A a \in Attempts : lease'[a] # "none" => phase[a] # "idle"
           /\ n.offer # None =>
                /\ walk'.begun = {} /\ walk'.stopped = "no"
                /\ \A o \in Range(walk'.pending) : phase[o] = "idle"
                /\ \E o \in Attempts \ capped : Range(walk'.pending) = {o}
  <1>1. TypeOK /\ StartInv /\ PrepInv /\ GoodWalk(walk) /\ refused \subseteq Attempts /\ None \notin Attempts
        BY GroupShapes DEF RequestInv, TypeOK
  <1>2. PICK u, o : u = n.walk /\ o = n.offer
        OBVIOUS
  <1>3. /\ GoodWalk(u) /\ n.refused \subseteq Attempts
        /\ \A g \in GroupIds : walk.cursor[g] <= u.cursor[g]
        /\ \/ o = None /\ Range(u.pending) \subseteq {None}
           \/ /\ o \in Attempts \ capped /\ Range(u.pending) = {o} /\ u.begun = {}
              /\ u.stopped = "no" /\ phase[o] = "idle"
              /\ Second(o) => AllTouched(u)
    <2>1. CASE n = NextUncapped(w)
          BY <1>1, <1>2, <2>1, LookAhead
    <2>2. CASE n = [walk |-> w, offer |-> None, refused |-> refused]
      <3>1. walk.cursor \in [GroupIds -> Nat]
            BY <1>1, WalkShape DEF GoodWalk
      <3> QED BY <1>1, <1>2, <2>2, <3>1
    <2> QED BY <2>1, <2>2
  <1>4. walk' = u /\ refused' = n.refused
        BY <1>2
  <1>5. GoodWalk(walk)'
        BY <1>3, <1>4 DEF GoodWalk, OffersAreOut, FirstTurnsFirst
  <1>6. \A a \in Attempts : lease'[a] # "none" => phase'[a] # "idle"
        BY <1>1 DEF StartInv
  <1>7. StartInv'
        BY <1>1, <1>3, <1>4, <1>5, <1>6, StartsStand
  <1>8. ASSUME NEW a \in Attempts, a \in Range(walk'.pending), Second(a) PROVE AllTouched(walk)'
    <2>1. a = o /\ AllTouched(u)
          BY <1>1, <1>3, <1>4, <1>8
    <2> QED BY <1>4, <2>1 DEF AllTouched
  <1>9. \A a \in Attempts : phase[a] = "prep" => a \in aborted'
        BY <1>1 DEF PrepInv
  <1>10. TurnInv'
         BY <1>8, <1>9 DEF TurnInv, Startable, Second
  <1> QED BY <1>1, <1>2, <1>3, <1>4, <1>5, <1>6, <1>7, <1>8, <1>9, <1>10

\* The loop goes on to the candidate it looked ahead to, or answers.
LEMMA MovesOn ==
    ASSUME RequestInv, pc \in {"settled", "inspect", "repair"},
           UNCHANGED <<spent, capped, egressed, phase, result, aborted, client>>,
           NEW how \in {"succeeded", "failed", "refused", "cancelled", "abandoned"},
           lease' = [lease EXCEPT ![current] = how] \/ lease' = lease,
           NEW w, GoodWalk(w), Range(w.pending) = {}, w.cursor = walk.cursor,
           walk.badProviders \subseteq w.badProviders,
           NEW n, n = NextUncapped(w) \/ n = [walk |-> w, offer |-> None, refused |-> refused],
           walk' = n.walk, refused' = n.refused,
           \/ Answer /\ Finish
           \/ n.offer # None /\ Goto("top") /\ UNCHANGED heads
           \/ Goto("respond") /\ heads' = heads + 1
    PROVE  RequestInv'
  <1>1. /\ TypeOK /\ PrepInv /\ GoodWalk(walk) /\ heads = 0 /\ current \in Attempts /\ phase[current] = "settled"
        BY DEF RequestInv, AnswerInv, HoldInv
  <1>2. /\ lease' \in [Attempts -> {"none", "open", "succeeded", "failed", "refused", "cancelled", "abandoned"}]
        /\ \A a \in Attempts : lease'[a] # "none" => phase[a] # "idle"
        BY <1>1 DEF TypeOK, RequestInv, StartInv, HoldInv
  <1>3. /\ GoodWalk(walk)' /\ refused' \subseteq Attempts /\ StartInv' /\ TurnInv'
        /\ \A g \in GroupIds : walk.cursor[g] <= walk'.cursor[g]
        /\ \A a \in Attempts : a \in Range(walk'.pending) /\ Second(a) => AllTouched(walk)'
        /\ \A a \in Attempts : phase[a] = "prep" => a \in aborted'
        /\ \A a \in Attempts : lease'[a] # "none" => phase[a] # "idle"
        /\ n.offer # None =>
             /\ walk'.begun = {} /\ walk'.stopped = "no"
             /\ \A o \in Range(walk'.pending) : phase[o] = "idle"
             /\ \E o \in Attempts \ capped : Range(walk'.pending) = {o}
        BY <1>2, AheadFacts
  <1>4. walk' \in WalkType
        BY <1>3 DEF GoodWalk
  <1>5. CASE Answer /\ Finish
    <2>1. heads' = 1
          BY <1>1, <1>5 DEF Answer
    <2>2. TypeOK'
          BY <1>1, <1>2, <1>3, <1>4, <1>5, <2>1 DEF TypeOK, Finish
    <2> QED BY <1>3, <1>5, <2>1, <2>2, DoneKeeps
  <1>6. CASE Goto("top") /\ n.offer # None /\ UNCHANGED heads
    <2>1. TypeOK'
          BY <1>1, <1>2, <1>3, <1>4, <1>6 DEF TypeOK, Goto
    <2>2. AnswerInv'
          BY <1>1, <1>3, <1>6 DEF RequestInv, AnswerInv, Goto
    <2>3. HoldInv'
          BY <1>3, <1>6 DEF HoldInv, Goto
    <2>4. PrepInv'
          BY <1>1, <1>3 DEF PrepInv
    <2> QED BY <1>3, <2>1, <2>2, <2>3, <2>4 DEF RequestInv
  <1>7. CASE Goto("respond") /\ heads' = heads + 1
    <2>1. TypeOK'
          BY <1>1, <1>2, <1>3, <1>4, <1>7 DEF TypeOK, Goto
    <2>2. AnswerInv'
          BY <1>1, <1>7 DEF RequestInv, AnswerInv, Goto
    <2>3. HoldInv'
          BY <1>1, <1>7 DEF HoldInv, Goto
    <2>4. PrepInv'
          BY <1>1, <1>3 DEF PrepInv
    <2> QED BY <1>3, <2>1, <2>2, <2>3, <2>4 DEF RequestInv
  <1> QED BY <1>5, <1>6, <1>7

\* What the walk is after the current attempt was recorded.
LEMMA CurrentRecorded ==
    ASSUME RequestInv, pc \in {"settled", "inspect", "repair"}, current \in Range(walk.pending),
           NEW kind \in Kinds, NEW scope \in Scopes, NEW w, w = Record(walk, current, kind, scope)
    PROVE  /\ GoodWalk(w) /\ Range(w.pending) = {} /\ w.cursor = walk.cursor
           /\ walk.badProviders \subseteq w.badProviders
  <1>1. GoodWalk(walk) /\ Range(walk.pending) \subseteq {current}
        BY DEF RequestInv, HoldInv
  <1>2. /\ GoodWalk(w) /\ w.cursor = walk.cursor /\ walk.badProviders \subseteq w.badProviders
        /\ Range(w.pending) = Range(walk.pending) \ {current}
        BY <1>1, RecordFacts
  <1> QED BY <1>1, <1>2

\* The attempt's lease is completed and its outcome recorded.
LEMMA CompleteAndRecordKeeps ==
    ASSUME RequestInv, pc \in {"settled", "inspect", "repair"},
           UNCHANGED <<spent, capped, egressed, phase, result, aborted, client>>,
           NEW how \in {"failed", "refused"}, NEW kind \in Kinds, NEW tryNext \in BOOLEAN,
           CompleteAndRecord(current, how, kind, tryNext)
    PROVE  RequestInv'
  <1>1. lease' = [lease EXCEPT ![current] = how]
        BY DEF CompleteAndRecord, Complete
  <1>2. TypeOK /\ GoodWalk(walk) /\ heads = 0 /\ current \in Attempts
        BY DEF RequestInv, AnswerInv, HoldInv
  <1>3. CASE RecordThrows(walk, current) /\ Throws(walk) /\ UNCHANGED refused
    <2>1. walk' = walk /\ Answer /\ Finish
          BY <1>3 DEF Throws
    <2>2. heads' = 1
          BY <1>2, <2>1 DEF Answer
    <2>3. TypeOK'
          BY <1>1, <1>2, <1>3, <2>1, <2>2 DEF TypeOK, Finish
    <2>4. GoodWalk(walk)'
          BY <1>2, <2>1 DEF GoodWalk, OffersAreOut, FirstTurnsFirst
    <2>5. \A a \in Attempts : lease'[a] # "none" => phase[a] # "idle"
          BY <1>1, <1>2 DEF TypeOK, RequestInv, StartInv, HoldInv
    <2>6. /\ \A a \in Attempts : a \in Range(walk'.pending) /\ Second(a) => AllTouched(walk)'
          /\ \A g \in GroupIds : walk.cursor[g] <= walk'.cursor[g]
          BY <1>2, <2>1, <2>4, <2>5, TurnsShrink
    <2>7. \A a \in Attempts : lease'[a] # "none" => phase[a] # "idle"
          BY <2>5 DEF RequestInv, StartInv
    <2>8. \A a \in Attempts : phase[a] = "prep" => a \in aborted'
          BY DEF RequestInv, PrepInv
    <2> QED BY <2>1, <2>2, <2>3, <2>4, <2>6, <2>7, <2>8, DoneKeeps
  <1>4. CASE ~RecordThrows(walk, current) /\ EndWalk(Record(walk, current, kind, "none"), tryNext)
    <2>1. PICK w : w = Record(walk, current, kind, "none")
          OBVIOUS
    <2>2. /\ GoodWalk(w) /\ Range(w.pending) = {} /\ w.cursor = walk.cursor
          /\ walk.badProviders \subseteq w.badProviders
      <3>1. current \in Range(walk.pending)
            BY <1>4 DEF RecordThrows, IsPending
      <3>2. "none" \in Scopes
            BY DEF Scopes
      <3> QED BY <2>1, <3>1, <3>2, CurrentRecorded
    <2>3. PICK n : /\ n = NextUncapped(w) \/ n = [walk |-> w, offer |-> None, refused |-> refused]
                   /\ walk' = n.walk /\ refused' = n.refused
                   /\ IF n.offer # None /\ client = "here" THEN Goto("top") /\ UNCHANGED heads
                      ELSE Answer /\ Finish
          BY <1>4, <2>1 DEF EndWalk
    <2>4. \/ Answer /\ Finish
          \/ n.offer # None /\ Goto("top") /\ UNCHANGED heads
          BY <2>3
    <2> QED BY <1>1, <2>2, <2>3, <2>4, MovesOn
  <1> QED BY <1>3, <1>4 DEF CompleteAndRecord

\* The attempt is over with the request: cancelled, unusable or answered at once.
LEMMA EndsHere ==
    ASSUME RequestInv, pc \in {"settled", "inspect", "repair"},
           UNCHANGED <<spent, capped, refused, egressed, phase, result, aborted, client>>,
           NEW how \in {"succeeded", "failed", "refused", "cancelled", "abandoned"},
           lease' = [lease EXCEPT ![current] = how],
           NEW kind \in Kinds,
           \/ walk' = walk
           \/ current \in Range(walk.pending) /\ walk' = Record(walk, current, kind, "none"),
           Finish, Answer \/ (client = "gone" /\ UNCHANGED heads)
    PROVE  RequestInv'
  <1>1. TypeOK /\ GoodWalk(walk) /\ heads = 0 /\ current \in Attempts
        BY DEF RequestInv, AnswerInv, HoldInv
  <1>2. heads' \in 0 .. 1 /\ (client = "here" => heads' = 1)
        BY <1>1 DEF Answer
  <1>3. PICK w : w = walk'
        OBVIOUS
  <1>4. /\ GoodWalk(w) /\ w.cursor = walk.cursor /\ walk.badProviders \subseteq w.badProviders
        /\ Range(w.pending) \subseteq Range(walk.pending)
    <2>1. CASE walk' = walk
          BY <1>1, <1>3, <2>1
    <2>2. CASE current \in Range(walk.pending) /\ walk' = Record(walk, current, kind, "none")
      <3>1. "none" \in Scopes
            BY DEF Scopes
      <3> QED BY <1>3, <2>2, <3>1, CurrentRecorded
    <2> QED BY <2>1, <2>2
  <1>5. GoodWalk(walk)'
        BY <1>3, <1>4 DEF GoodWalk, OffersAreOut, FirstTurnsFirst
  <1>6. TypeOK'
    <2>1. walk' \in WalkType
          BY <1>3, <1>4 DEF GoodWalk
    <2> QED BY <1>1, <1>2, <2>1 DEF TypeOK, Finish
  <1>7. \A a \in Attempts : lease'[a] # "none" => phase[a] # "idle"
        BY <1>1 DEF TypeOK, RequestInv, StartInv, HoldInv
  <1>8. /\ \A a \in Attempts : a \in Range(walk'.pending) /\ Second(a) => AllTouched(walk)'
        /\ \A g \in GroupIds : walk.cursor[g] <= walk'.cursor[g]
        BY <1>1, <1>3, <1>4, <1>5, <1>7, TurnsShrink
  <1>9. \A a \in Attempts : lease'[a] # "none" => phase[a] # "idle"
        BY <1>7 DEF RequestInv, StartInv
  <1>10. \A a \in Attempts : phase[a] = "prep" => a \in aborted'
         BY DEF RequestInv, PrepInv
  <1> QED BY <1>2, <1>5, <1>6, <1>8, <1>9, <1>10, DoneKeeps

\* The client is gone, and the attempt with it.
LEMMA CancelKeeps ==
    ASSUME RequestInv, pc \in {"settled", "inspect"}, client = "gone",
           UNCHANGED <<spent, capped, egressed, phase, result, aborted, client>>, Cancel(current)
    PROVE  RequestInv'
  <1>1. /\ lease' = [lease EXCEPT ![current] = "cancelled"] /\ Finish /\ UNCHANGED <<refused, heads>>
        /\ walk' = IF RecordThrows(walk, current) THEN walk ELSE Record(walk, current, "cancelled", "none")
        BY DEF Cancel, Complete
  <1>2. "cancelled" \in Kinds
        BY DEF Kinds
  <1>3. \/ walk' = walk
        \/ current \in Range(walk.pending) /\ walk' = Record(walk, current, "cancelled", "none")
        BY <1>1 DEF RecordThrows, IsPending
  <1> QED BY <1>1, <1>2, <1>3, EndsHere

\* The attempt never reached its provider.
LEMMA SettledUnbegunKeeps == RequestInv /\ SettledUnbegun => RequestInv'
  <1> SUFFICES ASSUME RequestInv, SettledUnbegun PROVE RequestInv'
      OBVIOUS
  <1>1. /\ pc = "settled" /\ Finish
        /\ walk' = IF IsPending(walk, current) THEN RecordRejected(walk, current) ELSE walk
        /\ IF client = "gone" THEN UNCHANGED heads ELSE Answer
        /\ UNCHANGED <<spent, capped, refused, egressed, avars, client>>
        BY DEF SettledUnbegun
  <1>2. UNCHANGED <<phase, result, aborted, lease>>
        BY <1>1 DEF avars
  <1>3. TypeOK /\ GoodWalk(walk) /\ heads = 0 /\ current \in Attempts
        BY <1>1 DEF RequestInv, AnswerInv, HoldInv
  <1>4. heads' \in 0 .. 1 /\ (client = "here" => heads' = 1)
        BY <1>1, <1>3 DEF Answer
  <1>5. PICK w : w = walk'
        OBVIOUS
  <1>6. /\ GoodWalk(w) /\ w.cursor = walk.cursor /\ walk.badProviders \subseteq w.badProviders
        /\ Range(w.pending) \subseteq Range(walk.pending)
    <2>1. CASE walk' = walk
          BY <1>3, <1>5, <2>1
    <2>2. CASE current \in Range(walk.pending) /\ w = RecordRejected(walk, current)
      <3>1. /\ GoodWalk(w) /\ w.cursor = walk.cursor /\ w.badProviders = walk.badProviders
            /\ Range(w.pending) = Range(walk.pending) \ {current}
            BY <1>3, <2>2, RejectFacts
      <3> QED BY <3>1
    <2> QED BY <1>1, <1>5, <2>1, <2>2 DEF IsPending
  <1>7. GoodWalk(walk)'
        BY <1>5, <1>6 DEF GoodWalk, OffersAreOut, FirstTurnsFirst
  <1>8. TypeOK'
    <2>1. walk' \in WalkType
          BY <1>5, <1>6 DEF GoodWalk
    <2> QED BY <1>1, <1>2, <1>3, <1>4, <2>1 DEF TypeOK, Finish
  <1>9. \A a \in Attempts : lease'[a] # "none" => phase[a] # "idle"
        BY <1>2 DEF RequestInv, StartInv
  <1>10. /\ \A a \in Attempts : a \in Range(walk'.pending) /\ Second(a) => AllTouched(walk)'
         /\ \A g \in GroupIds : walk.cursor[g] <= walk'.cursor[g]
         BY <1>2, <1>5, <1>6, <1>7, <1>9, TurnsShrink
  <1>11. \A a \in Attempts : phase[a] = "prep" => a \in aborted'
         BY <1>1, <1>2 DEF RequestInv, PrepInv
  <1> QED BY <1>1, <1>2, <1>4, <1>7, <1>8, <1>9, <1>10, <1>11, DoneKeeps

\* The current attempt failed before a response.
LEMMA SettledFailedKeeps == RequestInv /\ SettledFailed => RequestInv'
  <1> SUFFICES ASSUME RequestInv, SettledFailed PROVE RequestInv'
      OBVIOUS
  <1>1. /\ pc = "settled" /\ lease[current] # "none" /\ current \in Attempts
        /\ UNCHANGED <<spent, capped, egressed, phase, result, aborted, client>>
        /\ client \in {"here", "gone"} /\ (result[current] = "cancelled" => client = "gone")
        BY DEF SettledFailed, RequestInv, HoldInv, AnswerInv, TypeOK
  <1>2. /\ {"timeout", "provider-transport", "protocol", "local"} \subseteq Kinds
        /\ TRUE \in BOOLEAN /\ FALSE \in BOOLEAN
        BY DEF Kinds
  <1>3. \/ client = "gone" /\ Cancel(current)
        \/ \E kind \in Kinds, tryNext \in BOOLEAN : CompleteAndRecord(current, "failed", kind, tryNext)
    <2>1. CASE result[current] = "rejected" /\ TransportFailure(current)
      <3>1. \/ client = "gone" /\ Cancel(current)
            \/ CompleteAndRecord(current, "failed", IF current \in aborted THEN "timeout" ELSE "provider-transport", TRUE)
            BY <2>1 DEF TransportFailure
      <3>2. PICK kind \in Kinds : kind = IF current \in aborted THEN "timeout" ELSE "provider-transport"
            BY <1>2
      <3>3. (client = "gone" /\ Cancel(current)) \/ CompleteAndRecord(current, "failed", kind, TRUE)
            BY <3>1, <3>2
      <3> QED BY <1>2, <3>3
    <2>2. CASE result[current] = "cancelled" /\ Cancel(current)
          BY <1>1, <2>2
    <2>3. CASE CompleteAndRecord(current, "failed", IF current \in aborted THEN "timeout" ELSE "protocol", TRUE)
      <3>1. PICK kind \in Kinds : kind = IF current \in aborted THEN "timeout" ELSE "protocol"
            BY <1>2
      <3>2. CompleteAndRecord(current, "failed", kind, TRUE)
            BY <2>3, <3>1
      <3> QED BY <1>2, <3>2
    <2>4. CASE CompleteAndRecord(current, "failed", IF current \in aborted THEN "timeout" ELSE "local", FALSE)
      <3>1. PICK kind \in Kinds : kind = IF current \in aborted THEN "timeout" ELSE "local"
            BY <1>2
      <3>2. CompleteAndRecord(current, "failed", kind, FALSE)
            BY <2>4, <3>1
      <3> QED BY <1>2, <3>2
    <2> QED BY <2>1, <2>2, <2>3, <2>4 DEF SettledFailed
  <1>4. CASE client = "gone" /\ Cancel(current)
        BY <1>1, <1>4, CancelKeeps
  <1>5. CASE \E kind \in Kinds, tryNext \in BOOLEAN : CompleteAndRecord(current, "failed", kind, tryNext)
        BY <1>1, <1>5, CompleteAndRecordKeeps
  <1> QED BY <1>3, <1>4, <1>5

\* A response: its error is read, its answer given or looked at for repair.
LEMMA SettledResponseKeeps == RequestInv /\ SettledResponse => RequestInv'
  <1> SUFFICES ASSUME RequestInv, SettledResponse PROVE RequestInv'
      OBVIOUS
  <1>1. /\ pc = "settled" /\ UNCHANGED <<spent, capped, refused, egressed, avars, client>>
        /\ TypeOK /\ GoodWalk(walk) /\ current \in Attempts /\ phase[current] = "settled" /\ PrepInv
        /\ Range(walk.pending) \subseteq {current} /\ (Reached(current) => current \in walk.begun)
        BY DEF SettledResponse, RequestInv, HoldInv
  <1>2. UNCHANGED <<phase, result, aborted, lease>>
        BY <1>1 DEF avars
  <1>3. result[current] \in HttpError \cup {"ready", "buffered"}
        BY DEF SettledResponse
  <1>4. current \in walk.begun /\ current \in Range(walk.pending)
    <2>1. Reached(current)
          BY <1>1, <1>3 DEF Reached, HttpError, FailoverStatus
    <2> QED BY <1>1, <2>1 DEF GoodWalk, OffersAreOut
  <1>5. ASSUME NEW p \in {"inspect", "repair"}, Goto(p), UNCHANGED <<walk, heads>>,
               p = "inspect" => result[current] \in HttpError
        PROVE  RequestInv'
    <2>1. pc' = p /\ UNCHANGED <<primary, hedge, current, delay>>
          BY <1>5 DEF Goto
    <2>2. TypeOK'
          BY <1>1, <1>2, <1>5, <2>1 DEF TypeOK
    <2>3. GoodWalk(walk)'
          BY <1>1, <1>5 DEF GoodWalk, OffersAreOut, FirstTurnsFirst
    <2>4. AnswerInv'
          BY <1>1, <1>2, <1>5, <2>1 DEF RequestInv, AnswerInv
    <2>5. HoldInv'
          BY <1>1, <1>2, <1>4, <1>5, <2>1 DEF HoldInv
    <2>6. PrepInv'
          BY <1>1, <1>2, <2>1 DEF PrepInv
    <2>7. StartInv' /\ TurnInv'
          BY <1>2, <1>5, TurnsStand
    <2> QED BY <2>2, <2>3, <2>4, <2>5, <2>6, <2>7 DEF RequestInv
  <1>6. ASSUME walk' = Record(walk, current, "success", "none"), heads' = heads + 1, Goto("respond")
        PROVE  RequestInv'
    <2>1. PICK w, n : w = walk' /\ n = [walk |-> w, offer |-> None, refused |-> refused]
          OBVIOUS
    <2>2. "success" \in Kinds /\ "none" \in Scopes
          BY DEF Kinds, Scopes
    <2>3. /\ GoodWalk(w) /\ Range(w.pending) = {} /\ w.cursor = walk.cursor
          /\ walk.badProviders \subseteq w.badProviders
          BY <1>1, <1>4, <1>6, <2>1, <2>2, CurrentRecorded
    <2>4. walk' = n.walk /\ refused' = n.refused
          BY <1>1, <2>1
    <2> QED BY <1>1, <1>2, <1>6, <2>1, <2>3, <2>4, MovesOn
  <1>7. \/ result[current] \in HttpError /\ Goto("inspect") /\ UNCHANGED <<walk, heads>>
        \/ Goto("repair") /\ UNCHANGED <<walk, heads>>
        \/ walk' = Record(walk, current, "success", "none") /\ heads' = heads + 1 /\ Goto("respond")
        BY DEF SettledResponse
  <1> QED BY <1>5, <1>6, <1>7

\* The body of an error cannot be read.
LEMMA InspectFailsKeeps == RequestInv /\ InspectFails => RequestInv'
  <1> SUFFICES ASSUME RequestInv, InspectFails PROVE RequestInv'
      OBVIOUS
  <1>1. /\ pc = "inspect" /\ UNCHANGED <<spent, capped, egressed, phase, result, aborted, client>>
        /\ IF client = "gone" THEN Cancel(current)
           ELSE CompleteAndRecord(current, "failed", IF current \in aborted THEN "timeout" ELSE "protocol", TRUE)
        BY DEF InspectFails
  <1>2. PICK kind \in Kinds : kind = IF current \in aborted THEN "timeout" ELSE "protocol"
        BY DEF Kinds
  <1>3. CASE client = "gone" /\ Cancel(current)
        BY <1>1, <1>3, CancelKeeps
  <1>4. CASE CompleteAndRecord(current, "failed", kind, TRUE)
    <2>1. TRUE \in BOOLEAN
          OBVIOUS
    <2> QED BY <1>1, <1>4, <2>1, CompleteAndRecordKeeps
  <1> QED BY <1>1, <1>2, <1>3, <1>4

\* The body of an error was read: the next candidate is tried, or the error is the answer.
LEMMA InspectReadKeeps == RequestInv /\ InspectRead => RequestInv'
  <1> SUFFICES ASSUME RequestInv, InspectRead PROVE RequestInv'
      OBVIOUS
  <1>1. /\ pc = "inspect" /\ UNCHANGED <<spent, capped, egressed, phase, result, aborted, client>>
        /\ result[current] \in HttpError /\ current \in walk.begun /\ GoodWalk(walk)
        BY DEF InspectRead, RequestInv, HoldInv
  <1>2. current \in Range(walk.pending)
        BY <1>1 DEF GoodWalk, OffersAreOut
  <1>3. PICK scope, w, n :
           /\ scope \in Scopes /\ w = Record(walk, current, result[current], scope)
           /\ n = NextUncapped(w) \/ n = [walk |-> w, offer |-> None, refused |-> refused]
           /\ walk' = n.walk /\ refused' = n.refused
           /\ IF n.offer # None
              THEN Complete(current, "refused") /\ Goto("top") /\ UNCHANGED heads
              ELSE heads' = heads + 1 /\ Goto("respond") /\ UNCHANGED lease
    <2>1. PICK scope \in IF result[current] = "credential" THEN {"none", "credential"}
                         ELSE IF result[current] = "deployment" THEN {"none", "deployment", "provider"}
                         ELSE {"none"} :
             \E w \in {Record(walk, current, result[current], scope)} :
               \E n \in {IF result[current] \in FailoverStatus /\ client = "here" THEN NextUncapped(w)
                         ELSE [walk |-> w, offer |-> None, refused |-> refused]} :
                   /\ walk' = n.walk /\ refused' = n.refused
                   /\ IF n.offer # None
                      THEN Complete(current, "refused") /\ Goto("top") /\ UNCHANGED heads
                      ELSE heads' = heads + 1 /\ Goto("respond") /\ UNCHANGED lease
          BY DEF InspectRead
    <2>2. scope \in Scopes
          BY <2>1 DEF Scopes
    <2>3. PICK w : w = Record(walk, current, result[current], scope)
          OBVIOUS
    <2>4. PICK n : /\ n = NextUncapped(w) \/ n = [walk |-> w, offer |-> None, refused |-> refused]
                   /\ walk' = n.walk /\ refused' = n.refused
                   /\ IF n.offer # None
                      THEN Complete(current, "refused") /\ Goto("top") /\ UNCHANGED heads
                      ELSE heads' = heads + 1 /\ Goto("respond") /\ UNCHANGED lease
          BY <2>1, <2>3
    <2> QED BY <2>2, <2>3, <2>4
  <1>4. result[current] \in Kinds
        BY <1>1 DEF HttpError, FailoverStatus, Kinds
  <1>5. /\ GoodWalk(w) /\ Range(w.pending) = {} /\ w.cursor = walk.cursor
        /\ walk.badProviders \subseteq w.badProviders
        BY <1>1, <1>2, <1>3, <1>4, CurrentRecorded
  <1>6. /\ lease' = [lease EXCEPT ![current] = "refused"] \/ lease' = lease
        /\ \/ n.offer # None /\ Goto("top") /\ UNCHANGED heads
           \/ Goto("respond") /\ heads' = heads + 1
        BY <1>3 DEF Complete
  <1> QED BY <1>1, <1>3, <1>5, <1>6, MovesOn

\* Repair decides about a buffered answer.
LEMMA RepairKeeps == RequestInv /\ (RepairAnswers \/ RepairCancelled \/ RepairDeadTurn) => RequestInv'
  <1> SUFFICES ASSUME RequestInv, RepairAnswers \/ RepairCancelled \/ RepairDeadTurn PROVE RequestInv'
      OBVIOUS
  <1>1. /\ pc = "repair" /\ UNCHANGED <<spent, capped, egressed, phase, result, aborted, client>>
        BY DEF RepairAnswers, RepairCancelled, RepairDeadTurn
  <1>2. current \in Range(walk.pending)
        BY <1>1 DEF RequestInv, HoldInv, GoodWalk, OffersAreOut
  <1>3. {"local", "success", "cancelled", "protocol"} \subseteq Kinds
        BY DEF Kinds
  <1>4. CASE RepairAnswers
    <2>1. /\ Answer /\ Finish /\ UNCHANGED refused
          /\ \E how \in {"failed", "refused", "succeeded"}, kind \in {"local", "success"} :
                lease' = [lease EXCEPT ![current] = how] /\ walk' = Record(walk, current, kind, "none")
          BY <1>4 DEF RepairAnswers, Complete
    <2>2. ASSUME NEW how \in {"failed", "refused", "succeeded"}, NEW kind \in {"local", "success"},
                 lease' = [lease EXCEPT ![current] = how], walk' = Record(walk, current, kind, "none")
          PROVE  RequestInv'
      <3>1. how \in {"succeeded", "failed", "refused", "cancelled", "abandoned"} /\ kind \in Kinds
            BY <1>3
      <3>2. UNCHANGED <<spent, capped, refused, egressed, phase, result, aborted, client>> /\ Answer /\ Finish
            BY <1>1, <2>1
      <3>3. \/ walk' = walk
            \/ current \in Range(walk.pending) /\ walk' = Record(walk, current, kind, "none")
            BY <1>2, <2>2
      <3>4. Answer \/ (client = "gone" /\ UNCHANGED heads)
            BY <3>2
      <3>5. pc \in {"settled", "inspect", "repair"}
            BY <1>1
      <3> QED BY <2>2, <3>1, <3>2, <3>3, <3>4, <3>5, EndsHere
    <2> QED BY <2>1, <2>2
  <1>5. CASE RepairCancelled
    <2>1. /\ Finish /\ UNCHANGED <<refused, heads>> /\ client = "gone"
          /\ walk' = Record(walk, current, "cancelled", "none")
          /\ \E how \in {"cancelled", "refused"} : lease' = [lease EXCEPT ![current] = how]
          BY <1>5 DEF RepairCancelled, Complete
    <2>2. PICK how \in {"cancelled", "refused"} : lease' = [lease EXCEPT ![current] = how]
          BY <2>1
    <2>3. how \in {"succeeded", "failed", "refused", "cancelled", "abandoned"} /\ "cancelled" \in Kinds
          BY <1>3
    <2> QED BY <1>1, <1>2, <2>1, <2>2, <2>3, EndsHere
  <1>6. CASE RepairDeadTurn
    <2>1. PICK tryNext \in BOOLEAN : tryNext = (client = "here")
          OBVIOUS
    <2>2. CompleteAndRecord(current, "refused", "protocol", tryNext)
          BY <1>6, <2>1 DEF RepairDeadTurn
    <2> QED BY <1>1, <1>3, <2>2, CompleteAndRecordKeeps
  <1> QED BY <1>4, <1>5, <1>6

-----------------------------------------------------------------------------
(* The invariant, and what follows from it.                                *)

\* Every step of the request keeps the invariant.
LEMMA RequestStays == RequestInv /\ [RequestNext]_requestVars => RequestInv'
  <1> SUFFICES ASSUME RequestInv, [RequestNext]_requestVars PROVE RequestInv'
      OBVIOUS
  <1>1. CASE UNCHANGED requestVars
    <2>1. UNCHANGED <<walk, spent, capped, refused, egressed, pc, primary, hedge, current, delay,
                      phase, result, aborted, lease, client, heads>>
          BY <1>1 DEF requestVars, wvars, rvars, avars
    <2>2. TypeOK' /\ GoodWalk(walk)'
          BY <2>1 DEF RequestInv, TypeOK, GoodWalk, OffersAreOut, FirstTurnsFirst
    <2>3. AnswerInv' /\ HoldInv' /\ PrepInv'
          BY <2>1 DEF RequestInv, AnswerInv, HoldInv, PrepInv, Racers, Reached
    <2>4. StartInv' /\ TurnInv'
          BY <2>1, TurnsStand
    <2> QED BY <2>2, <2>3, <2>4 DEF RequestInv
  <1>2. CASE Done
        BY <1>1, <1>2 DEF Done
  <1>3. CASE Top \/ StartHedge \/ RaceEnd
        BY <1>3, TopKeeps, StartHedgeKeeps, RaceEndKeeps
  <1>4. CASE SettledUnbegun \/ SettledFailed \/ SettledResponse
        BY <1>4, SettledUnbegunKeeps, SettledFailedKeeps, SettledResponseKeeps
  <1>5. CASE InspectFails \/ InspectRead
        BY <1>5, InspectFailsKeeps, InspectReadKeeps
  <1>6. CASE RespondError \/ RespondEnds \/ RespondBreaks \/ RespondGone
        BY <1>6, RespondKeeps
  <1>7. CASE RepairAnswers \/ RepairCancelled \/ RepairDeadTurn
        BY <1>7, RepairKeeps
  <1>8. CASE \E a \in Attempts : Prepared(a) \/ Settle(a) \/ Deadline(a)
        BY <1>8, PreparedKeeps, SettleKeeps, DeadlineKeeps
  <1>9. CASE ClientLeaves \/ CapsMove \/ BudgetElapses
        BY <1>9, ClientLeavesKeeps, SurroundingsKeep
  <1> QED BY <1>1, <1>2, <1>3, <1>4, <1>5, <1>6, <1>7, <1>8, <1>9 DEF RequestNext, Progress

\* The invariant of every request, whatever its candidates, documents and caps.
THEOREM RequestsAreSound == RequestSpec => []RequestInv
  <1> QED BY RequestBegins, RequestStays, PTL DEF RequestSpec

\* A client that is still there is answered, exactly once.
THEOREM ClientsAreAnswered == RequestSpec => []AlwaysAnswered
  <1>1. RequestInv => AlwaysAnswered
        BY DEF RequestInv, AnswerInv, AlwaysAnswered
  <1> QED BY <1>1, RequestsAreSound, PTL

\* What a step does to the leases: a start, a completion, or nothing.  A failure is
\* charged while the client is there or to a stream found dead.
Completes(x, how) == lease' = [lease EXCEPT ![x] = how]
Starts == Top \/ StartHedge \/ \E a \in Attempts : Prepared(a)
Completion == {"succeeded", "failed", "refused", "cancelled", "abandoned"}

\* The parts of the loop that complete the current attempt.
LEMMA RecordCompletes ==
    ASSUME NEW x, NEW how, NEW kind, NEW tryNext, CompleteAndRecord(x, how, kind, tryNext)
    PROVE  Completes(x, how) /\ (Finish \/ Goto("top"))
    BY DEF CompleteAndRecord, Complete, Completes, EndWalk, Throws

\* Likewise when the client has left.
LEMMA CancelCompletes == ASSUME NEW x, Cancel(x) PROVE Completes(x, "cancelled") /\ Finish
    BY DEF Cancel, Complete, Completes

\* Every step that does not start an attempt, point by point of the loop.
LEMMA LeaseSteps ==
    ASSUME RequestInv, [RequestNext]_requestVars
    PROVE  \/ Starts
           \/ pc = "race" /\ RaceEnd
           \/ lease' = lease /\ UNCHANGED rvars
           \/ /\ pc \in {"settled", "inspect", "repair", "respond"} /\ current \in Attempts
              /\ UNCHANGED <<primary, hedge, current, delay>>
              /\ \/ lease' = lease /\ lease[current] = "none" /\ pc' = "done"
                 \/ lease' = lease /\ pc' \in {"inspect", "repair", "respond"}
                 \/ /\ pc' \in {"top", "done"}
                    /\ \E how \in Completion \ {"failed"} : Completes(current, how)
                 \/ /\ pc' \in {"top", "done"} /\ Completes(current, "failed")
                    /\ client = "here" \/ result[current] \in {"dead", "deadLocal"}
  <1> DEFINE At == /\ pc \in {"settled", "inspect", "repair", "respond"} /\ current \in Attempts
                   /\ UNCHANGED <<primary, hedge, current, delay>>
             Outcome == \/ lease' = lease /\ lease[current] = "none" /\ pc' = "done"
                        \/ lease' = lease /\ pc' \in {"inspect", "repair", "respond"}
                        \/ /\ pc' \in {"top", "done"}
                           /\ \E how \in Completion \ {"failed"} : Completes(current, how)
                        \/ /\ pc' \in {"top", "done"} /\ Completes(current, "failed")
                           /\ client = "here" \/ result[current] \in {"dead", "deadLocal"}
  <1>1. pc \in {"settled", "inspect", "repair", "respond"} => current \in Attempts
        BY DEF RequestInv, HoldInv
  <1>2. client \in {"here", "gone"}
        BY DEF RequestInv, TypeOK
  <1>3. {"succeeded", "refused", "cancelled"} \subseteq Completion \ {"failed"}
        BY DEF Completion
  <1>4. CASE UNCHANGED requestVars \/ Done
        BY <1>4 DEF Done, requestVars, avars
  <1>5. CASE Top \/ StartHedge \/ RaceEnd
        BY <1>5 DEF Starts, RaceEnd
  <1>6. CASE SettledUnbegun
        BY <1>1, <1>6 DEF SettledUnbegun, Finish, avars
  <1>7. CASE SettledFailed
    <2>1. At /\ (Finish \/ Goto("top") => pc' \in {"top", "done"})
          BY <1>1, <1>7, RecordCompletes, CancelCompletes DEF SettledFailed, TransportFailure, Finish, Goto
    <2>2. \/ Completes(current, "cancelled") /\ Finish
          \/ /\ Completes(current, "failed") /\ (Finish \/ Goto("top"))
             /\ client = "here" \/ result[current] \in {"dead", "deadLocal"}
      <3>1. CASE result[current] = "rejected" /\ TransportFailure(current)
            BY <1>2, <3>1, RecordCompletes, CancelCompletes DEF TransportFailure
      <3>2. CASE result[current] = "cancelled" /\ Cancel(current)
            BY <3>2, CancelCompletes
      <3>3. CASE result[current] = "dead"
            BY <1>7, <3>3, RecordCompletes DEF SettledFailed
      <3>4. CASE result[current] = "deadLocal"
            BY <1>7, <3>4, RecordCompletes DEF SettledFailed
      <3> QED BY <1>7, <3>1, <3>2, <3>3, <3>4 DEF SettledFailed
    <2> QED BY <1>3, <2>1, <2>2 DEF Finish
  <1>8. CASE SettledResponse
        BY <1>1, <1>8 DEF SettledResponse, Goto, avars
  <1>9. CASE InspectFails
    <2>1. \/ Completes(current, "cancelled") /\ Finish
          \/ Completes(current, "failed") /\ (Finish \/ Goto("top")) /\ client = "here"
          BY <1>2, <1>9, RecordCompletes, CancelCompletes DEF InspectFails
    <2> QED BY <1>1, <1>3, <1>9, <2>1 DEF Finish, Goto, InspectFails
  <1>10. CASE InspectRead
    <2>1. pc = "inspect"
          BY <1>10 DEF InspectRead
    <2>2. \/ Complete(current, "refused") /\ Goto("top")
          \/ Goto("respond") /\ UNCHANGED lease
          BY <1>10 DEF InspectRead
    <2> QED BY <1>1, <1>3, <2>1, <2>2 DEF Goto, Complete, Completes
  <1>11. CASE RespondError \/ RespondEnds \/ RespondBreaks \/ RespondGone
    <2>1. /\ pc = "respond" /\ Finish
          /\ \/ \E how \in {"succeeded", "refused", "cancelled"} : Complete(current, how)
             \/ Complete(current, "failed") /\ client = "here"
          BY <1>11 DEF RespondError, RespondEnds, RespondBreaks, RespondGone
    <2> QED BY <1>1, <1>3, <2>1 DEF Finish, Complete, Completes
  <1>12. CASE RepairAnswers \/ RepairCancelled
    <2>1. /\ pc = "repair" /\ Finish
          /\ \/ \E how \in {"succeeded", "refused", "cancelled"} : Complete(current, how)
             \/ Complete(current, "failed") /\ client = "here"
          BY <1>12 DEF RepairAnswers, RepairCancelled
    <2> QED BY <1>1, <1>3, <2>1 DEF Finish, Complete, Completes
  <1>13. CASE RepairDeadTurn
    <2>1. pc = "repair" /\ Completes(current, "refused") /\ (Finish \/ Goto("top"))
          BY <1>13, RecordCompletes DEF RepairDeadTurn
    <2> QED BY <1>1, <1>3, <2>1 DEF Finish, Goto
  <1>14. CASE \E a \in Attempts : Prepared(a) \/ Settle(a) \/ Deadline(a)
         BY <1>14 DEF Starts, Settle, Deadline
  <1>15. CASE ClientLeaves \/ CapsMove \/ BudgetElapses
         BY <1>15 DEF ClientLeaves, CapsMove, BudgetElapses, avars
  <1> QED BY <1>4, <1>5, <1>6, <1>7, <1>8, <1>9, <1>10, <1>11, <1>12, <1>13, <1>14, <1>15
          DEF RequestNext, Progress

\* What a start opens, when, and where the attempt stands in the walk.
LEMMA StartSteps ==
    ASSUME RequestInv, Starts
    PROVE  \/ lease' = lease
           \/ \E a \in Attempts :
                 /\ Completes(a, "open") /\ heads = 0 /\ client = "here" /\ walk.stopped = "no"
                 /\ walk'.badProviders = walk.badProviders
                 /\ \/ a \in Range(walk'.pending)
                    \/ Startable(a) /\ (AllTouched(walk) => AllTouched(walk)')
  <1>1. TypeOK /\ PrepInv /\ AnswerInv /\ GoodWalk(walk) /\ None \notin Attempts /\ client \in {"here", "gone"}
        BY GroupShapes DEF RequestInv, TypeOK
  <1>2. ASSUME NEW v, GoodWalk(v), NEW o \in Attempts, o \in Range(v.pending), o \notin v.begun, StartRun(o, v)
        PROVE  /\ lease' = lease \/ (Completes(o, "open") /\ o \in Range(walk'.pending))
               /\ walk'.badProviders = v.badProviders
    <2>1. /\ walk'.pending = v.pending /\ walk'.badProviders = v.badProviders
          /\ lease' = lease \/ lease' = [lease EXCEPT ![o] = "open"]
          BY <1>1, <1>2, StartRunFacts
    <2> QED BY <1>2, <2>1 DEF Completes
  <1>3. CASE Top
    <2>1. pc = "top" /\ heads = 0 /\ walk.stopped = "no"
          BY <1>1, <1>3 DEF Top, AnswerInv
    <2>2. PICK n : n = NextUncapped(walk)
          OBVIOUS
    <2>3. \/ lease' = lease
          \/ client = "here" /\ n.offer \in Attempts /\ StartRun(n.offer, n.walk)
          BY <1>3, <2>2 DEF Top
    <2>4. /\ GoodWalk(n.walk) /\ n.walk.begun = {} /\ (n.offer \in Attempts => n.offer \in Range(n.walk.pending))
          /\ n.walk.badProviders = walk.badProviders
          BY <1>1, <2>1, <2>2, TopAsks
    <2>5. PICK v, o : v = n.walk /\ o = n.offer
          OBVIOUS
    <2>6. lease' = lease \/ (client = "here" /\ o \in Attempts /\ Completes(o, "open") /\ o \in Range(walk'.pending)
                              /\ walk'.badProviders = walk.badProviders)
          BY <1>2, <2>3, <2>4, <2>5
    <2> QED BY <2>1, <2>6
  <1>4. CASE StartHedge
    <2>1. pc = "race" /\ delay = "armed" /\ heads = 0 /\ walk.stopped = "no"
          BY <1>1, <1>4 DEF StartHedge, AnswerInv
    <2>2. PICK n : n = NextUncapped(walk)
          OBVIOUS
    <2>3. \/ lease' = lease
          \/ client = "here" /\ n.offer \in Attempts /\ StartRun(n.offer, n.walk)
          BY <1>4, <2>2 DEF StartHedge
    <2>4. /\ GoodWalk(n.walk) /\ Onward(walk, n.walk)
          /\ n.offer # None => n.offer \in Attempts \ walk.begun /\ n.offer \in Range(n.walk.pending)
          BY <2>1, <2>2, HedgeAsks
    <2>5. PICK v, o : v = n.walk /\ o = n.offer
          OBVIOUS
    <2>6. GoodWalk(v) /\ v.badProviders = walk.badProviders /\ (o \in Attempts => o \notin v.begun /\ o \in Range(v.pending))
          BY <1>1, <2>4, <2>5 DEF Onward
    <2>7. lease' = lease \/ (client = "here" /\ o \in Attempts /\ Completes(o, "open") /\ o \in Range(walk'.pending)
                              /\ walk'.badProviders = walk.badProviders)
          BY <1>2, <2>3, <2>5, <2>6
    <2> QED BY <2>1, <2>7
  <1>5. ASSUME NEW a \in Attempts, Prepared(a), lease' # lease
        PROVE  /\ Completes(a, "open") /\ heads = 0 /\ client = "here" /\ walk.stopped = "no"
               /\ walk'.badProviders = walk.badProviders
               /\ Startable(a) /\ (AllTouched(walk) => AllTouched(walk)')
    <2>1. phase[a] = "prep" /\ a \notin aborted /\ OnEgress(a, walk)
          BY <1>5 DEF Prepared, MayEgress
    <2>2. pc = "race" /\ a \in Racers
          BY <1>1, <2>1 DEF PrepInv
    <2>3. heads = 0 /\ walk.stopped = "no" /\ client = "here"
          BY <1>1, <2>1, <2>2 DEF AnswerInv
    <2>4. walk' = walk \/ (a \in Range(walk.pending) /\ walk' = RecordStarted(walk, a))
          BY <2>1 DEF OnEgress, StartThrows, IsPending
    <2>5. PICK u : u = walk'
          OBVIOUS
    <2>6. u.cursor = walk.cursor /\ u.badProviders = walk.badProviders
          BY <1>1, <2>4, <2>5, StartedFacts
    <2> QED BY <2>1, <2>3, <2>5, <2>6 DEF OnEgress, Completes, Startable, AllTouched
  <1> QED BY <1>3, <1>4, <1>5 DEF Starts

\* The step of GoneClientNotCharged.
LEMMA ChargeStep ==
    ASSUME RequestInv, [RequestNext]_requestVars, NEW a \in Attempts, lease[a] = "open", lease'[a] = "failed"
    PROVE  client = "here" \/ result[a] \in {"dead", "deadLocal"}
  <1>1. lease \in [Attempts -> {"none", "open", "succeeded", "failed", "refused", "cancelled", "abandoned"}]
        BY DEF RequestInv, TypeOK
  <1>2. lease' # lease
        OBVIOUS
  <1>3. CASE Starts
        BY <1>1, <1>3, StartSteps DEF Completes
  <1>4. CASE RaceEnd
    <2>1. lease' = lease \/ \E y \in {primary, hedge} : lease' = RetiredLease(y)
          BY <1>4 DEF RaceEnd
    <2> QED BY <1>1, <2>1 DEF RetiredLease
  <1>5. CASE \E how \in Completion \ {"failed"} : Completes(current, how)
        BY <1>1, <1>5 DEF Completes, Completion
  <1>6. CASE /\ current \in Attempts /\ Completes(current, "failed")
             /\ client = "here" \/ result[current] \in {"dead", "deadLocal"}
        BY <1>1, <1>6 DEF Completes
  <1> QED BY <1>2, <1>3, <1>4, <1>5, <1>6, LeaseSteps

\* A client that has left is not charged to a deployment, unless its stream was dead.
THEOREM GoneClientsAreNotCharged == RequestSpec => GoneClientNotCharged
  <1>1. RequestInv /\ [RequestNext]_requestVars =>
          [\A a \in Attempts :
              lease[a] = "open" /\ lease'[a] = "failed" => client = "here" \/ result[a] \in {"dead", "deadLocal"}]_requestVars
        BY ChargeStep
  <1> QED BY <1>1, RequestsAreSound, PTL DEF RequestSpec, GoneClientNotCharged

\* The steps of NoStartOnceSettled and BreadthFirst: what a lease is opened for.
LEMMA OpeningStep ==
    ASSUME RequestInv, RequestInv', [RequestNext]_requestVars, NEW a \in Attempts, lease[a] = "none", lease'[a] = "open"
    PROVE  /\ heads = 0 /\ client = "here" /\ walk.stopped = "no" /\ walk'.badProviders = walk.badProviders
           /\ \A b \in Attempts : /\ GroupOf(b) = GroupOf(a) /\ Rank(b) < Rank(a)
                                  /\ lease[b] # "none"
                                  => AllTouched(walk)'
  <1>1. lease \in [Attempts -> {"none", "open", "succeeded", "failed", "refused", "cancelled", "abandoned"}]
        BY DEF RequestInv, TypeOK
  <1>2. lease' # lease
        OBVIOUS
  <1>3. Starts
    <2>1. ~RaceEnd
      <3>1. RaceEnd => lease' = lease \/ \E y \in {primary, hedge} : lease' = RetiredLease(y)
            BY DEF RaceEnd
      <3> QED BY <1>1, <3>1 DEF RetiredLease
    <2>2. ~ \E how \in Completion : Completes(current, how)
          BY <1>1 DEF Completes, Completion
    <2>3. "failed" \in Completion
          BY DEF Completion
    <2> QED BY <1>2, <2>1, <2>2, <2>3, LeaseSteps
  <1>4. /\ Completes(a, "open") /\ heads = 0 /\ client = "here" /\ walk.stopped = "no" /\ walk'.badProviders = walk.badProviders
        /\ \/ a \in Range(walk'.pending)
           \/ Startable(a) /\ (AllTouched(walk) => AllTouched(walk)')
    <2>1. PICK c \in Attempts :
                 /\ Completes(c, "open") /\ heads = 0 /\ client = "here" /\ walk.stopped = "no" /\ walk'.badProviders = walk.badProviders
                 /\ \/ c \in Range(walk'.pending)
                    \/ Startable(c) /\ (AllTouched(walk) => AllTouched(walk)')
          BY <1>2, <1>3, StartSteps
    <2>2. c = a
          BY <1>1, <2>1 DEF Completes
    <2> QED BY <2>1, <2>2
  <1>5. ASSUME NEW b \in Attempts, GroupOf(b) = GroupOf(a), Rank(b) < Rank(a), lease[b] # "none"
        PROVE  AllTouched(walk)'
    <2>1. Rank(a) \in Nat /\ Rank(b) \in Nat
          BY PlaceOfAnAttempt
    <2>2. b # a
          BY <1>5, <2>1
    <2>3. lease'[b] # "none"
          BY <1>1, <1>4, <1>5, <2>2 DEF Completes
    <2>4. Second(a) /\ Second(a)'
          BY <1>5, <2>3 DEF RequestInv, StartInv, Second
    <2>5. CASE a \in Range(walk'.pending)
      <3>1. Startable(a)'
            BY <2>5 DEF Startable
      <3> QED BY <2>4, <3>1 DEF RequestInv, TurnInv
    <2>6. CASE Startable(a) /\ (AllTouched(walk) => AllTouched(walk)')
          BY <2>4, <2>6 DEF RequestInv, TurnInv
    <2> QED BY <1>4, <2>5, <2>6
  <1> QED BY <1>4, <1>5

\* Attempts are started while the request is undecided, and every deployment before any
\* spare credential.
THEOREM StartsAreInOrder == RequestSpec => StartsAreOrderly
  <1>1. RequestInv /\ RequestInv' /\ [RequestNext]_requestVars =>
          [(\E a \in Attempts : lease[a] = "none" /\ lease'[a] = "open")
              => heads = 0 /\ client = "here" /\ walk.stopped = "no"]_requestVars
        BY OpeningStep
  <1>2. ASSUME RequestInv, RequestInv', [RequestNext]_requestVars, NEW g \in GroupIds,
               NEW i \in DOMAIN Groups[g], NEW j \in DOMAIN Groups[g], j < i, lease[Groups[g][j]] # "none",
               lease[Groups[g][i]] = "none", lease'[Groups[g][i]] = "open", NEW h \in GroupIds
        PROVE  walk'.cursor[h] > 0 \/ Provider[h] \in walk.badProviders
    <2>1. i \in 1 .. Len(Groups[g]) /\ j \in 1 .. Len(Groups[g])
          BY <1>2, GroupShapes
    <2>2. PICK a, b : a = Groups[g][i] /\ b = Groups[g][j]
          OBVIOUS
    <2>3. /\ a \in Attempts /\ GroupOf(a) = g /\ Rank(a) = i
          /\ b \in Attempts /\ GroupOf(b) = g /\ Rank(b) = j
          BY <2>1, <2>2, PlaceOfAnAttempt
    <2>4. AllTouched(walk)' /\ walk'.badProviders = walk.badProviders
          BY <1>2, <2>2, <2>3, OpeningStep
    <2> QED BY <2>4 DEF AllTouched
  <1>3. RequestInv /\ RequestInv' /\ [RequestNext]_requestVars =>
          [\A g \in GroupIds : \A i, j \in DOMAIN Groups[g] :
              /\ j < i /\ lease[Groups[g][j]] # "none"
              /\ lease[Groups[g][i]] = "none" /\ lease'[Groups[g][i]] = "open"
              => \A h \in GroupIds : walk'.cursor[h] > 0
                                     \/ Provider[h] \in walk.badProviders]_requestVars
        BY <1>2
  <1> QED BY <1>1, <1>3, RequestsAreSound, PTL DEF RequestSpec, StartsAreOrderly, NoStartOnceSettled, BreadthFirst

-----------------------------------------------------------------------------
(* Leases.  They all come back if what is being converted is not at a cap  *)
(* that moves: a converting primary is then never taken for rejected.      *)

\* The race's steps keep the account of open leases: first those of one attempt.
LEMMA PreparedKeepsLeases ==
    ASSUME RequestInv, RequestInv', LeaseInv, NEW a \in Attempts, Prepared(a)
    PROVE  LeaseInv'
  <1>1. /\ phase[a] = "prep" /\ UNCHANGED <<spent, capped, refused, rvars, aborted, client, heads>>
        /\ TypeOK /\ GoodWalk(walk)
        BY DEF Prepared, RequestInv
  <1>2. Racers' = Racers /\ UNCHANGED <<pc, primary, hedge, current, delay>> /\ Racers \subseteq Attempts
        BY <1>1 DEF rvars, Racers, TypeOK
  <1>3. CASE a \notin aborted /\ OnEgress(a, walk)
    <2>1. pc = "race" /\ a \in Racers /\ a \in Range(walk.pending) /\ a \notin walk.begun
          BY <1>1, <1>3 DEF RequestInv, PrepInv, HoldInv, LeaseInv
    <2>2. /\ walk' = RecordStarted(walk, a) /\ lease' = [lease EXCEPT ![a] = "open"]
          /\ phase' = [phase EXCEPT ![a] = "flying"]
          BY <1>3, <2>1 DEF OnEgress, StartThrows, IsPending
    <2>3. PICK u : u = walk'
          OBVIOUS
    <2>4. u.begun = walk.begun \cup {a} /\ u.pending = walk.pending
          BY <1>1, <2>1, <2>2, <2>3, StartedFacts
    <2>5. /\ lease'[a] = "open" /\ phase'[a] = "flying"
          /\ \A b \in Attempts : b # a => lease'[b] = lease[b] /\ phase'[b] = phase[b]
          BY <1>1, <2>2 DEF TypeOK
    <2> QED BY <1>1, <1>2, <2>1, <2>3, <2>4, <2>5 DEF LeaseInv
  <1>4. CASE phase' = [phase EXCEPT ![a] = "settled"] /\ UNCHANGED <<walk, egressed, lease>>
    <2>1. \A b \in Attempts : phase'[b] = "prep" => phase[b] = "prep"
          BY <1>1, <1>4 DEF TypeOK
    <2> QED BY <1>1, <1>2, <1>4, <2>1 DEF LeaseInv
  <1> QED BY <1>3, <1>4 DEF Prepared, MayEgress

\* Those that leave leases, walk and race alone.
LEMMA QuietKeepsLeases ==
    ASSUME RequestInv, LeaseInv, UNCHANGED <<walk, pc, primary, hedge, current, lease>>,
           \A a \in Attempts : phase'[a] = "prep" => phase[a] = "prep",
           primary \in SlowPrep \cap Attempts /\ pc = "race" => (primary \in capped <=> primary \in capped')
    PROVE  LeaseInv'
  <1>1. Racers' = Racers /\ Racers \subseteq Attempts
        BY DEF Racers, RequestInv, TypeOK
  <1>2. pc = "race" => primary \in Attempts
        BY DEF RequestInv, HoldInv
  <1> QED BY <1>1, <1>2 DEF LeaseInv

\* The start of a race.
LEMMA TopKeepsLeases == ASSUME RequestInv, LeaseInv, Top PROVE LeaseInv'
  <1>1. pc = "top" /\ TypeOK /\ StartInv /\ capped' = capped
        BY DEF Top, RequestInv
  <1>2. \A a \in Attempts : lease[a] # "open"
        BY <1>1 DEF LeaseInv
  <1>3. CASE pc' = "done" /\ lease' = lease
        BY <1>2, <1>3 DEF LeaseInv
  <1>4. ASSUME NEW n, n = NextUncapped(walk), n.offer \in Attempts, StartRun(n.offer, n.walk), pc' = "race",
               primary' = n.offer, hedge' = None
        PROVE  LeaseInv'
    <2>1. PICK v, o : v = n.walk /\ o = n.offer
          OBVIOUS
    <2>2. GoodWalk(v) /\ v.begun = {} /\ o \in Attempts \ capped /\ Range(v.pending) = {o} /\ phase[o] = "idle"
          BY <1>1, <1>4, <2>1, TopAsks, GroupShapes
    <2>3. /\ walk'.pending = v.pending
          /\ \A b \in Attempts : b # o => phase'[b] = phase[b] /\ lease'[b] = lease[b]
          /\ \/ phase'[o] = "prep" /\ lease' = lease
             \/ phase'[o] = "flying" /\ walk'.begun = v.begun \cup {o} /\ lease' = [lease EXCEPT ![o] = "open"]
      <3>1. StartRun(o, v) /\ o \in Range(v.pending) /\ o \notin v.begun
            BY <1>4, <2>1, <2>2
      <3> QED BY <1>1, <2>2, <3>1, StartRunFacts
    <2>4. Racers' = {o}
          BY <1>4, <2>1, <2>2, GroupShapes DEF Racers
    <2>5. lease[o] = "none"
          BY <1>1, <2>2 DEF StartInv
    <2>6. lease'[o] \in {"none", "open"} /\ (lease'[o] = "open" => phase'[o] = "flying" /\ o \in walk'.begun)
          BY <1>1, <2>2, <2>3, <2>5 DEF TypeOK
    <2>7. primary' \notin capped'
          BY <1>1, <1>4, <2>1, <2>2
    <2> QED BY <1>2, <1>4, <2>2, <2>3, <2>4, <2>6, <2>7 DEF LeaseInv
  <1>5. \/ pc' = "done" /\ lease' = lease
        \/ \E n \in {NextUncapped(walk)} :
              /\ n.offer \in Attempts /\ StartRun(n.offer, n.walk) /\ pc' = "race"
              /\ primary' = n.offer /\ hedge' = None
        BY DEF Top, Finish
  <1> QED BY <1>3, <1>4, <1>5

\* The hedge timer: a primary that is being converted is offered again.
LEMMA HedgeKeepsLeases == ASSUME RequestInv, LeaseInv, StartHedge PROVE LeaseInv'
  <1>1. /\ pc = "race" /\ delay = "armed" /\ UNCHANGED <<pc, primary, current, capped>>
        /\ TypeOK /\ StartInv /\ walk.stopped = "no" /\ primary \in Attempts
        BY DEF StartHedge, RequestInv, HoldInv, AnswerInv
  <1>2. PICK n : n = NextUncapped(walk)
        OBVIOUS
  <1>3. PICK v, o : v = n.walk /\ o = n.offer
        OBVIOUS
  <1>4. /\ hedge = None /\ Range(walk.pending) \subseteq {primary} /\ None \notin Attempts
        /\ GoodWalk(v) /\ Onward(walk, v)
        /\ o # None => /\ o \in Attempts \ walk.begun /\ o \in Range(v.pending)
                       /\ o # primary => phase[o] = "idle"
        BY <1>1, <1>2, <1>3, HedgeAsks, GroupShapes
  <1>5. v.begun = walk.begun /\ Racers = {primary}
        BY <1>1, <1>4 DEF Onward, Racers
  <1>6. /\ \A a \in Attempts : lease[a] = "open" => a = primary
        /\ lease[primary] \in {"none", "open"} /\ (lease[primary] = "open" => primary \in walk.begun)
        /\ phase[primary] = "prep" => /\ lease[primary] = "none" /\ primary \in Range(walk.pending)
                                      /\ primary \notin walk.begun /\ primary \notin capped
        /\ primary \in SlowPrep => primary \notin capped
        BY <1>1, <1>5 DEF LeaseInv, RequestInv, HoldInv, PrepInv
  <1>7. phase[primary] = "prep" => v = walk /\ o = primary
    <2>1. ASSUME phase[primary] = "prep" PROVE n = [walk |-> walk, offer |-> primary, refused |-> refused]
      <3>1. Range(walk.pending) = {primary} /\ primary \in Attempts \ capped /\ primary \notin walk.begun
            BY <1>1, <1>4, <1>6, <2>1
      <3> QED BY <1>1, <1>2, <3>1, KeptOffer
    <2> QED BY <1>3, <2>1
  <1>8. ASSUME hedge' = hedge, lease' = lease, phase' = phase, walk'.begun = walk.begun,
               phase[primary] = "prep" => primary \in Range(walk'.pending)
        PROVE  LeaseInv'
    <2>1. Racers' = {primary}
          BY <1>1, <1>5, <1>8 DEF Racers
    <2> QED BY <1>1, <1>6, <1>8, <2>1 DEF LeaseInv
  <1>9. ASSUME o \in Attempts, o # primary, StartRun(o, v), hedge' = o
        PROVE  LeaseInv'
    <2>1. /\ walk'.pending = v.pending
          /\ \A b \in Attempts : b # o => phase'[b] = phase[b] /\ lease'[b] = lease[b]
          /\ \/ phase'[o] = "prep" /\ walk'.begun = v.begun /\ lease' = lease
             \/ phase'[o] = "flying" /\ walk'.begun = v.begun \cup {o} /\ lease' = [lease EXCEPT ![o] = "open"]
      <3>1. o \in Range(v.pending) /\ o \notin v.begun /\ GoodWalk(v)
            BY <1>4, <1>5, <1>9
      <3> QED BY <1>1, <1>9, <3>1, StartRunFacts
    <2>2. Racers' = {primary, o}
          BY <1>1, <1>4, <1>9 DEF Racers
    <2>3. lease[o] = "none"
          BY <1>1, <1>4, <1>9 DEF StartInv
    <2>4. lease'[o] \in {"none", "open"} /\ (lease'[o] = "open" => phase'[o] = "flying" /\ o \in walk'.begun)
          BY <1>1, <1>9, <2>1, <2>3 DEF TypeOK
    <2>5. o \in Range(walk'.pending) /\ phase[primary] # "prep"
          BY <1>4, <1>7, <1>9, <2>1
    <2>6. lease'[primary] = lease[primary] /\ phase'[primary] = phase[primary] /\ walk.begun \subseteq walk'.begun
          BY <1>1, <1>5, <1>9, <2>1
    <2>7. \A a \in Attempts : lease'[a] = "open" => a \in {primary, o}
          BY <1>6, <2>1
    <2> QED BY <1>1, <1>6, <2>2, <2>4, <2>5, <2>6, <2>7 DEF LeaseInv
  <1>10. CASE UNCHANGED <<walk, hedge, phase, lease>>
         BY <1>6, <1>8, <1>10
  <1>11. CASE o \in {None, primary} /\ walk' = v /\ UNCHANGED <<hedge, phase, lease>>
    <2>1. phase[primary] = "prep" => primary \in Range(walk'.pending)
          BY <1>6, <1>7, <1>11
    <2> QED BY <1>5, <1>8, <1>11, <2>1
  <1>12. CASE o \in Attempts \ {primary} /\ walk' = RecordRejected(v, o) /\ UNCHANGED <<hedge, phase, lease>>
    <2>1. PICK r : r = RecordRejected(v, o)
          OBVIOUS
    <2>2. r.begun = v.begun \ {o} /\ o \notin walk.begun
          BY <1>4, <1>12, <2>1, RejectFacts
    <2>3. walk'.begun = walk.begun
          BY <1>5, <1>12, <2>1, <2>2
    <2>4. phase[primary] # "prep"
          BY <1>7, <1>12
    <2> QED BY <1>8, <1>12, <2>3, <2>4
  <1>13. \/ UNCHANGED <<walk, hedge, phase, lease>>
         \/ o \in {None, primary} /\ walk' = v /\ UNCHANGED <<hedge, phase, lease>>
         \/ o \in Attempts \ {primary} /\ walk' = RecordRejected(v, o) /\ UNCHANGED <<hedge, phase, lease>>
         \/ o \in Attempts /\ o # primary /\ StartRun(o, v) /\ hedge' = o
         BY <1>2, <1>3, WalkConstants DEF StartHedge
  <1> QED BY <1>9, <1>10, <1>11, <1>12, <1>13

\* The loser gives its lease back.
LEMMA RaceEndKeepsLeases == ASSUME RequestInv, LeaseInv, RaceEnd PROVE LeaseInv'
  <1>1. /\ pc = "race" /\ RaceOver /\ TypeOK /\ GoodWalk(walk) /\ primary \in Attempts /\ hedge # primary
        /\ Racers = {primary, hedge} \ {None} /\ None \notin Attempts
        /\ hedge # None => hedge \in Attempts
        BY GroupShapes DEF RaceEnd, RequestInv, HoldInv, TypeOK, Racers
  <1>2. PICK x, y : /\ x = IF hedge # None /\ Won(hedge) THEN hedge ELSE primary
                    /\ y = IF x = hedge THEN primary ELSE hedge
        OBVIOUS
  <1>3. CASE hedge = None
    <2>1. current' = primary /\ pc' = "settled" /\ lease' = lease /\ Racers = {primary}
          BY <1>1, <1>3 DEF RaceEnd
    <2> QED BY <1>1, <2>1 DEF LeaseInv
  <1>4. CASE hedge # None
    <2>1. x \in Attempts /\ y \in Attempts /\ x # y /\ Racers = {x, y}
          BY <1>1, <1>2, <1>4
    <2>2. lease' = RetiredLease(y)
          BY <1>2, <1>4 DEF RaceEnd
    <2>3. lease[y] \in {"none", "open"} /\ (lease[y] = "open" => y \in walk.begun)
          BY <1>1, <2>1 DEF LeaseInv
    <2>4. ~(lease[y] # "none" /\ RecordThrows(walk, y))
          BY <1>1, <2>3 DEF GoodWalk, OffersAreOut, RecordThrows, IsPending
    <2>5. current' = x /\ pc' = "settled"
          BY <1>2, <1>4, <2>4 DEF RaceEnd
    <2>6. lease'[y] # "open" /\ \A a \in Attempts : a # y => lease'[a] = lease[a]
          BY <1>1, <2>1, <2>2, <2>3 DEF RetiredLease, TypeOK
    <2> QED BY <1>1, <2>1, <2>5, <2>6 DEF LeaseInv
  <1> QED BY <1>3, <1>4

\* Every step of the request keeps the account of open leases.
LEMMA LeasesStay ==
    ASSUME SlowPrep \cap Capable = {}, RequestInv, RequestInv', LeaseInv, [RequestNext]_requestVars
    PROVE  LeaseInv'
  <1>1. TypeOK
        BY DEF RequestInv
  <1>2. CASE Top \/ StartHedge \/ RaceEnd
        BY <1>2, TopKeepsLeases, HedgeKeepsLeases, RaceEndKeepsLeases
  <1>3. CASE \E a \in Attempts : Prepared(a)
        BY <1>3, PreparedKeepsLeases
  <1>4. CASE UNCHANGED requestVars \/ Done
    <2>1. UNCHANGED <<walk, pc, primary, hedge, current, lease, phase, capped>>
          BY <1>4 DEF Done, requestVars, wvars, rvars, avars
    <2> QED BY <2>1, QuietKeepsLeases
  <1>5. ASSUME NEW a \in Attempts, Settle(a) \/ Deadline(a) PROVE LeaseInv'
    <2>1. UNCHANGED <<walk, pc, primary, hedge, current, lease, capped>>
          BY <1>5 DEF Settle, Deadline, wvars, rvars
    <2>2. phase' = phase \/ phase' = [phase EXCEPT ![a] = "settled"]
          BY <1>5 DEF Settle, Deadline
    <2>3. \A b \in Attempts : phase'[b] = "prep" => phase[b] = "prep"
          BY <1>1, <2>2 DEF TypeOK
    <2> QED BY <2>1, <2>3, QuietKeepsLeases
  <1>6. CASE ClientLeaves \/ CapsMove \/ BudgetElapses
    <2>1. UNCHANGED <<walk, pc, primary, hedge, current, lease, phase>>
          BY <1>6 DEF ClientLeaves, CapsMove, BudgetElapses, wvars, rvars, avars
    <2>2. capped' = capped \/ \E a \in Capable : capped' \in {capped \ {a}, capped \cup {a}}
          BY <1>6 DEF ClientLeaves, CapsMove, BudgetElapses, wvars
    <2>3. primary \in SlowPrep => (primary \in capped <=> primary \in capped')
          BY <2>2
    <2> QED BY <2>1, <2>3, QuietKeepsLeases
  <1>7. CASE /\ pc \in {"settled", "inspect", "repair", "respond"} /\ current \in Attempts
             /\ UNCHANGED <<primary, hedge, current, delay>>
             /\ \/ lease' = lease /\ lease[current] = "none" /\ pc' = "done"
                \/ lease' = lease /\ pc' \in {"inspect", "repair", "respond"}
                \/ pc' \in {"top", "done"} /\ \E how \in Completion : Completes(current, how)
    <2>1. \A a \in Attempts : lease[a] = "open" => a = current
          BY <1>7 DEF LeaseInv
    <2>2. CASE lease' = lease /\ lease[current] = "none" /\ pc' = "done"
          BY <2>1, <2>2 DEF LeaseInv
    <2>3. CASE lease' = lease /\ pc' \in {"inspect", "repair", "respond"}
          BY <1>7, <2>1, <2>3 DEF LeaseInv
    <2>4. CASE pc' \in {"top", "done"} /\ \E how \in Completion : Completes(current, how)
      <3>1. lease'[current] # "open" /\ \A a \in Attempts : a # current => lease'[a] = lease[a]
            BY <1>1, <1>7, <2>4 DEF Completes, Completion, TypeOK
      <3> QED BY <2>1, <2>4, <3>1 DEF LeaseInv
    <2> QED BY <1>7, <2>2, <2>3, <2>4
  <1>8. CASE pc # "race" /\ lease' = lease /\ UNCHANGED rvars
        BY <1>8 DEF LeaseInv, rvars
  <1>9. \/ Top \/ StartHedge \/ RaceEnd \/ (\E a \in Attempts : Prepared(a))
        \/ UNCHANGED requestVars \/ Done \/ (\E a \in Attempts : Settle(a) \/ Deadline(a))
        \/ ClientLeaves \/ CapsMove \/ BudgetElapses
        \/ pc # "race"
        BY DEF RequestNext, Progress, SettledUnbegun, SettledFailed, SettledResponse, InspectFails, InspectRead,
               RespondError, RespondEnds, RespondBreaks, RespondGone, RepairAnswers, RepairCancelled, RepairDeadTurn
  <1>10. "failed" \in Completion
         BY DEF Completion
  <1>11. CASE pc # "race"
    <2>1. \/ Starts \/ RaceEnd
          \/ lease' = lease /\ UNCHANGED rvars
          \/ /\ pc \in {"settled", "inspect", "repair", "respond"} /\ current \in Attempts
             /\ UNCHANGED <<primary, hedge, current, delay>>
             /\ \/ lease' = lease /\ lease[current] = "none" /\ pc' = "done"
                \/ lease' = lease /\ pc' \in {"inspect", "repair", "respond"}
                \/ pc' \in {"top", "done"} /\ \E how \in Completion : Completes(current, how)
          BY <1>10, LeaseSteps
    <2> QED BY <1>2, <1>3, <1>7, <1>8, <1>11, <2>1 DEF Starts
  <1> QED BY <1>2, <1>3, <1>4, <1>5, <1>6, <1>9, <1>11

\* Whatever way a request ends, its client was answered and the breaker has its leases
\* back, the hedge loser's too.
THEOREM WalksAreSettled ==
    ASSUME SlowPrep \cap Capable = {}
    PROVE  RequestSpec => []WalkIsSettled
  <1>1. RequestInit => LeaseInv
    <2>1. RequestInit => pc = "top" /\ lease = [a \in Attempts |-> "none"]
          BY DEF RequestInit
    <2> QED BY <2>1 DEF LeaseInv
  <1>2. RequestInv /\ RequestInv' /\ LeaseInv /\ [RequestNext]_requestVars => LeaseInv'
        BY LeasesStay
  <1>3. RequestInv /\ LeaseInv => WalkIsSettled
        BY DEF RequestInv, AnswerInv, LeaseInv, WalkIsSettled, AlwaysAnswered, LeasesReturned
  <1> QED BY <1>1, <1>2, <1>3, RequestsAreSound, PTL DEF RequestSpec

=============================================================================
