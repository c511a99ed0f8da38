------------------------ MODULE LimboResolutionProofs ------------------------
(***************************************************************************)
(* Theorems about LimboResolution, for every set of documents and every    *)
(* limit on the lookups at a time.                                         *)
(*                                                                         *)
(* The methods of SyncEngine are loops, so most of the work is on the      *)
(* bookkeeping alone: what one round of a loop keeps, and from it what the *)
(* loop keeps.  The states enter at the end.                               *)
(***************************************************************************)
EXTENDS LimboResolutionProperties, FiniteSetTheorems, WellFoundedInduction, TLAPS

USE LimboAssumption

-----------------------------------------------------------------------------
(* What is known of a bookkeeping between two tasks.                       *)

Maps(D, R) == UNION { [S -> R] : S \in SUBSET D }
KeyMaps    == Maps(Keys, Nat)
TargetMaps == Maps(Nat, Keys)
KeyLists   == Seq(Keys)
KeySets    == SUBSET Keys

Trackers == [refs : KeySets, enqueued : KeyLists, byKey : KeyMaps, byTarget : TargetMaps]

\* KeysHaveTargets, of a bookkeeping.
Targeted(t) ==
  \A k \in DOMAIN t.byKey :
    t.byKey[k] \in DOMAIN t.byTarget /\ t.byTarget[t.byKey[k]] = k

\* No more lookups than there are slots, and every lookup has its target.
WellFormed(t) ==
  /\ t \in Trackers
  /\ IsFiniteSet(DOMAIN t.byTarget)
  /\ Targeted(t)
  /\ Cardinality(DOMAIN t.byKey) <= MaxConcurrent

\* Between two tasks, or two rounds of a loop over keys, no lookup waits in
\* vain: that is SlotsUsed.
Pumped(t) == WellFormed(t) /\ ~HasSlot(t)

\* A current view knows what is in limbo; without a listen there is no view.
ViewInv ==
  /\ ~listening => ~current /\ limbo = {}
  /\ listening /\ current => limbo = ShouldBeInLimbo

\* The inductive invariant.
LInv ==
  /\ limbo \in SUBSET Keys
  /\ ViewInv
  /\ Pumped(tracker)
  /\ tracker.refs = limbo

-----------------------------------------------------------------------------
(* Maps.                                                                   *)

LEMMA MapIs ==
  ASSUME NEW D, NEW R, NEW f
  PROVE  f \in Maps(D, R) <=> (DOMAIN f \subseteq D /\ f \in [DOMAIN f -> R])
BY DEF Maps

\* g is f with an entry for i, x unless there was one.
Extends(g, f, i, x) ==
  /\ DOMAIN g = DOMAIN f \cup {i}
  /\ \A j \in DOMAIN f : g[j] = f[j]
  /\ i \notin DOMAIN f => g[i] = x

LEMMA EmplacedMap ==
  ASSUME NEW D, NEW R, NEW f \in Maps(D, R), NEW i \in D, NEW x \in R
  PROVE  Emplaced(f, i, x) \in Maps(D, R) /\ Extends(Emplaced(f, i, x), f, i, x)
<1>1. DOMAIN f \subseteq D /\ f \in [DOMAIN f -> R]
  BY MapIs
<1>2. Emplaced(f, i, x) \in [DOMAIN f \cup {i} -> R]
  BY <1>1 DEF Emplaced
<1> QED
  BY <1>1, <1>2 DEF Emplaced, Maps, Extends

\* g is f without its entry for i.
Lacks(g, f, i) == DOMAIN g = DOMAIN f \ {i} /\ \A j \in DOMAIN f \ {i} : g[j] = f[j]

LEMMA ErasedMap ==
  ASSUME NEW D, NEW R, NEW f \in Maps(D, R), NEW i
  PROVE  Erased(f, i) \in Maps(D, R) /\ Lacks(Erased(f, i), f, i)
<1>1. DOMAIN f \subseteq D /\ f \in [DOMAIN f -> R]
  BY MapIs
<1>2. Erased(f, i) \in [DOMAIN f \ {i} -> R]
  BY <1>1 DEF Erased
<1> QED
  BY <1>1, <1>2 DEF Erased, Maps, Lacks

\* The fields of a bookkeeping.
LEMMA Fields ==
  ASSUME NEW t \in Trackers
  PROVE  /\ t.refs \in SUBSET Keys /\ t.enqueued \in Seq(Keys)
         /\ t.byKey \in KeyMaps /\ t.byTarget \in TargetMaps
         /\ DOMAIN t.byKey \subseteq Keys /\ DOMAIN t.byTarget \subseteq Nat
         /\ \A k \in DOMAIN t.byKey : t.byKey[k] \in Nat
         /\ \A id \in DOMAIN t.byTarget : t.byTarget[id] \in Keys
<1>1. t.refs \in KeySets /\ t.enqueued \in KeyLists /\ t.byKey \in KeyMaps /\ t.byTarget \in TargetMaps
  BY DEF Trackers
<1>2. DOMAIN t.byKey \subseteq Keys /\ t.byKey \in [DOMAIN t.byKey -> Nat]
  BY <1>1, MapIs DEF KeyMaps
<1>3. DOMAIN t.byTarget \subseteq Nat /\ t.byTarget \in [DOMAIN t.byTarget -> Keys]
  BY <1>1, MapIs DEF TargetMaps
<1> QED
  BY <1>1, <1>2, <1>3 DEF KeySets, KeyLists

\* A bookkeeping and its fields.
Made(t, refs, enqueued, byKey, byTarget) ==
  /\ t \in Trackers
  /\ t.refs = refs /\ t.enqueued = enqueued /\ t.byKey = byKey /\ t.byTarget = byTarget

\* What EXCEPT makes of one.
LEMMA SetFields ==
  ASSUME NEW t \in Trackers, NEW r \in KeySets, NEW e \in KeyLists, NEW m \in KeyMaps, NEW g \in TargetMaps
  PROVE  /\ Made([t EXCEPT !.refs = r], r, t.enqueued, t.byKey, t.byTarget)
         /\ Made([t EXCEPT !.enqueued = e], t.refs, e, t.byKey, t.byTarget)
         /\ Made([t EXCEPT !.byKey = m, !.byTarget = g], t.refs, t.enqueued, m, g)
         /\ Made([t EXCEPT !.enqueued = e, !.byTarget = g, !.byKey = m], t.refs, e, m, g)
<1>1. Made([t EXCEPT !.refs = r], r, t.enqueued, t.byKey, t.byTarget)
  BY DEF Made, Trackers
<1>2. Made([t EXCEPT !.enqueued = e], t.refs, e, t.byKey, t.byTarget)
  BY DEF Made, Trackers
<1>3. Made([t EXCEPT !.byKey = m, !.byTarget = g], t.refs, t.enqueued, m, g)
  BY DEF Made, Trackers
<1>4. Made([t EXCEPT !.enqueued = e, !.byTarget = g, !.byKey = m], t.refs, e, m, g)
  BY DEF Made, Trackers
<1> QED
  BY <1>1, <1>2, <1>3, <1>4

\* The target of a lookup is a new one.
LEMMA NextIdFresh ==
  ASSUME NEW t \in Trackers, IsFiniteSet(DOMAIN t.byTarget)
  PROVE  NextId(t) \in Nat /\ NextId(t) \notin DOMAIN t.byTarget
<1>1. PICK D : D = DOMAIN t.byTarget
  OBVIOUS
<1>2. PICK n \in Nat : n = Cardinality(D)
  BY <1>1, FS_CardinalityType
<1>3. \E id \in 1..(n + 1) : id \notin D
  <2> SUFFICES ASSUME 1..(n + 1) \subseteq D PROVE FALSE
    OBVIOUS
  <2>1. Cardinality(1..(n + 1)) = n + 1
    BY FS_Interval
  <2>2. Cardinality(1..(n + 1)) <= n
    BY <1>1, <1>2, FS_Subset
  <2> QED
    BY <2>1, <2>2
<1>4. NextId(t) \in 1..(n + 1) /\ NextId(t) \notin D
  BY <1>1, <1>2, <1>3 DEF NextId
<1> QED
  BY <1>1, <1>4

-----------------------------------------------------------------------------
(* Starting lookups.                                                       *)

\* The keys in a list.
Members(s) == { s[i] : i \in DOMAIN s }

LEMMA MembersTail ==
  ASSUME NEW S, NEW s \in Seq(S), s # <<>>
  PROVE  /\ Tail(s) \in Seq(S) /\ Head(s) \in S /\ Len(Tail(s)) = Len(s) - 1
         /\ Members(s) = Members(Tail(s)) \cup {Head(s)}
<1>1. PICK n \in Nat : Len(s) = n + 1
  <2>1. Len(s) - 1 \in Nat /\ Len(s) = Len(s) - 1 + 1
    OBVIOUS
  <2> QED
    BY <2>1
<1>2. PICK u : u = Tail(s)
  OBVIOUS
<1>3. /\ u \in Seq(S) /\ DOMAIN u = 1..n /\ DOMAIN s = 1..(n + 1) /\ Len(u) = n
      /\ \A i \in 1..n : u[i] = s[i + 1]
      /\ Head(s) = s[1] /\ s[1] \in S
  BY <1>1, <1>2
<1>4. ASSUME NEW i \in DOMAIN s PROVE s[i] \in Members(u) \cup {Head(s)}
  <2>1. CASE i = 1
    BY <1>3, <2>1
  <2>2. CASE i # 1
    <3>1. i - 1 \in 1..n /\ i - 1 + 1 = i
      BY <1>3, <2>2
    <3>2. u[i - 1] = s[i]
      BY <1>3, <3>1
    <3> QED
      BY <1>3, <3>1, <3>2 DEF Members
  <2> QED
    BY <2>1, <2>2
<1>5. ASSUME NEW i \in DOMAIN u PROVE u[i] \in Members(s)
  <2>1. i + 1 \in DOMAIN s /\ u[i] = s[i + 1]
    BY <1>3
  <2> QED
    BY <2>1 DEF Members
<1>6. Head(s) \in Members(s)
  <2>1. 1 \in DOMAIN s
    BY <1>3
  <2> QED
    BY <1>3, <2>1 DEF Members
<1>7. Members(s) = Members(u) \cup {Head(s)}
  BY <1>4, <1>5, <1>6 DEF Members
<1> QED
  BY <1>1, <1>2, <1>3, <1>7

LEMMA MembersAppend ==
  ASSUME NEW S, NEW s \in Seq(S), NEW x \in S
  PROVE  Append(s, x) \in Seq(S) /\ Members(Append(s, x)) = Members(s) \cup {x}
<1>1. PICK n \in Nat : Len(s) = n
  OBVIOUS
<1>2. PICK u : u = Append(s, x)
  OBVIOUS
<1>3. /\ u \in Seq(S) /\ DOMAIN u = 1..(n + 1) /\ DOMAIN s = 1..n
      /\ \A i \in 1..n : u[i] = s[i]
      /\ u[n + 1] = x
  BY <1>1, <1>2
<1>4. ASSUME NEW i \in DOMAIN u PROVE u[i] \in Members(s) \cup {x}
  <2>1. i = n + 1 \/ (i \in DOMAIN s /\ u[i] = s[i])
    BY <1>3
  <2> QED
    BY <1>3, <2>1 DEF Members
<1>5. Members(s) \subseteq Members(u)
  <2>1. \A i \in DOMAIN s : i \in DOMAIN u /\ u[i] = s[i]
    BY <1>3
  <2> QED
    BY <2>1 DEF Members
<1>6. x \in Members(u)
  <2>1. n + 1 \in DOMAIN u
    BY <1>3
  <2> QED
    BY <1>3, <2>1 DEF Members
<1>7. Members(u) = Members(s) \cup {x}
  BY <1>4, <1>5, <1>6 DEF Members
<1> QED
  BY <1>2, <1>3, <1>7

LEMMA ResolvingIs == \A t : Resolving(t) = Members(t.enqueued) \cup DOMAIN t.byKey
BY DEF Resolving, Members

\* A round of the pump.
LEMMA StartNextGood ==
  ASSUME NEW t, WellFormed(t), HasSlot(t)
  PROVE  /\ WellFormed(StartNext(t))
         /\ StartNext(t).refs = t.refs
         /\ Resolving(StartNext(t)) = Resolving(t)
         /\ Len(StartNext(t).enqueued) = Len(t.enqueued) - 1
<1>1. /\ t \in Trackers /\ t.enqueued # <<>> /\ IsFiniteSet(DOMAIN t.byTarget) /\ Targeted(t)
      /\ Cardinality(DOMAIN t.byKey) < MaxConcurrent
  BY DEF WellFormed, HasSlot
<1>2. /\ t.refs \in KeySets /\ t.enqueued \in Seq(Keys) /\ t.byKey \in Maps(Keys, Nat)
      /\ t.byTarget \in Maps(Nat, Keys) /\ DOMAIN t.byKey \subseteq Keys
  BY <1>1, Fields DEF KeySets, KeyMaps, TargetMaps
<1>3. PICK k \in Keys, rest \in Seq(Keys) :
        /\ k = Head(t.enqueued) /\ rest = Tail(t.enqueued) /\ Len(rest) = Len(t.enqueued) - 1
        /\ Members(t.enqueued) = Members(rest) \cup {k}
  BY <1>1, <1>2, MembersTail
<1>4. PICK id \in Nat : id = NextId(t) /\ id \notin DOMAIN t.byTarget
  BY <1>1, NextIdFresh
<1>5. PICK byKey \in KeyMaps : byKey = Emplaced(t.byKey, k, id) /\ Extends(byKey, t.byKey, k, id)
  BY <1>2, EmplacedMap DEF KeyMaps
<1>6. PICK byTarget \in TargetMaps :
        byTarget = Emplaced(t.byTarget, id, k) /\ Extends(byTarget, t.byTarget, id, k)
  BY <1>2, EmplacedMap DEF TargetMaps
<1>7. PICK u : u = StartNext(t) /\ Made(u, t.refs, rest, byKey, byTarget)
  <2>1. rest \in KeyLists
    BY DEF KeyLists
  <2>2. StartNext(t) = [t EXCEPT !.enqueued = rest, !.byTarget = byTarget, !.byKey = byKey]
    BY <1>3, <1>4, <1>5, <1>6 DEF StartNext
  <2> QED
    BY <1>1, <1>2, <2>1, <2>2, SetFields, Zenon
<1>8. IsFiniteSet(DOMAIN u.byTarget)
  BY <1>1, <1>6, <1>7, FS_AddElement DEF Made, Extends
<1>9. Targeted(u)
  <2> SUFFICES ASSUME NEW j \in DOMAIN byKey
               PROVE  byKey[j] \in DOMAIN byTarget /\ byTarget[byKey[j]] = j
    BY <1>7 DEF Targeted, Made
  <2>1. CASE j \in DOMAIN t.byKey
    BY <1>1, <1>5, <1>6, <2>1 DEF Targeted, Extends
  <2>2. CASE j \notin DOMAIN t.byKey
    <3>1. j = k
      BY <1>5, <2>2 DEF Extends
    <3> QED
      BY <1>4, <1>5, <1>6, <2>2, <3>1 DEF Extends
  <2> QED
    BY <2>1, <2>2
<1>10. Cardinality(DOMAIN u.byKey) <= MaxConcurrent
  <2>1. IsFiniteSet(DOMAIN t.byKey)
    BY <1>2, FS_Subset
  <2>2. Cardinality(DOMAIN t.byKey) \in Nat
    BY <2>1, FS_CardinalityType
  <2>3. Cardinality(DOMAIN t.byKey \cup {k})
          = IF k \in DOMAIN t.byKey THEN Cardinality(DOMAIN t.byKey) ELSE Cardinality(DOMAIN t.byKey) + 1
    BY <2>1, FS_AddElement
  <2> QED
    BY <1>1, <1>5, <1>7, <2>2, <2>3 DEF Made, Extends
<1>11. Resolving(u) = Resolving(t)
  BY <1>3, <1>5, <1>7, ResolvingIs DEF Made, Extends
<1> QED
  BY <1>3, <1>7, <1>8, <1>9, <1>10, <1>11 DEF WellFormed, Made

-----------------------------------------------------------------------------
(* The pump runs until there is no slot, or nothing waits.                 *)

LEMMA LeastNatural ==
  ASSUME NEW T \in SUBSET Nat, T # {}
  PROVE  \E x \in T : \A y \in T : x <= y
<1>1. PICK x \in T : \A y \in T : ~(<<y, x>> \in OpToRel(<, Nat))
  BY NatLessThanWellFounded, WFMin, Zenon
<1>2. \A y \in T : ~(y < x)
  BY <1>1 DEF OpToRel
<1> QED
  BY <1>2

\* The bookkeepings along the loop.
Pumps(f, t, n) == f = [i \in 0..n |-> IF i = 0 THEN t ELSE Round(f[i-1])]

LEMMA PumpsExist ==
  ASSUME NEW t, NEW n \in Nat
  PROVE  \E f : Pumps(f, t, n)
<1> DEFINE T == { m \in Nat : ~\E f : Pumps(f, t, m) }
<1> SUFFICES ASSUME T # {} PROVE FALSE
  OBVIOUS
<1>1. PICK m \in T : \A y \in T : m <= y
  BY LeastNatural
<1>2. m \in Nat /\ ~\E f : Pumps(f, t, m)
  OBVIOUS
<1>3. CASE m = 0
  <2>1. Pumps([i \in 0..0 |-> t], t, 0)
    BY DEF Pumps
  <2> QED
    BY <1>2, <1>3, <2>1
<1>4. CASE m # 0
  <2>1. m - 1 \in Nat /\ m - 1 \notin T
    BY <1>1, <1>2, <1>4
  <2>2. PICK g : Pumps(g, t, m - 1)
    BY <2>1
  <2> DEFINE f == [i \in 0..m |-> IF i = m THEN Round(g[m-1]) ELSE g[i]]
  <2>3. \A i \in 0..(m - 1) : g[i] = IF i = 0 THEN t ELSE Round(g[i-1])
    BY <2>2 DEF Pumps
  <2>4. \A i \in 0..m : f[i] = IF i = 0 THEN t ELSE Round(f[i-1])
    <3> SUFFICES ASSUME NEW i \in 0..m PROVE f[i] = IF i = 0 THEN t ELSE Round(f[i-1])
      OBVIOUS
    <3>1. CASE i = m
      <4>1. i - 1 \in 0..m /\ i - 1 # m /\ i # 0
        BY <1>2, <1>4, <3>1
      <4>2. f[i-1] = g[m-1] /\ f[i] = Round(g[m-1])
        BY <3>1, <4>1
      <4> QED
        BY <3>1, <4>1, <4>2
    <3>2. CASE i # m /\ i # 0
      <4>1. i \in 0..(m - 1) /\ i - 1 \in 0..m /\ i - 1 # m
        BY <1>2, <3>2
      <4>2. f[i] = g[i] /\ f[i-1] = g[i-1]
        BY <3>2, <4>1
      <4> QED
        BY <2>3, <3>2, <4>1, <4>2
    <3>3. CASE i # m /\ i = 0
      <4>1. f[i] = g[0] /\ 0 \in 0..(m - 1)
        BY <1>2, <1>4, <3>3
      <4> QED
        BY <2>3, <3>3, <4>1
    <3> QED
      BY <3>1, <3>2, <3>3
  <2>5. f = [i \in 0..m |-> IF i = 0 THEN t ELSE Round(f[i-1])]
    BY <2>4
  <2>6. Pumps(f, t, m)
    BY <2>5 DEF Pumps
  <2> QED
    BY <1>2, <2>6
<1> QED
  BY <1>3, <1>4

LEMMA PumpIs ==
  ASSUME NEW t, NEW n \in Nat, n = Len(t.enqueued)
  PROVE  \E f : /\ PumpEnqueued(t) = f[n]
                /\ f[0] = t
                /\ \A i \in 1..n : f[i] = Round(f[i-1])
<1> DEFINE after == CHOOSE f : f = [i \in 0..Len(t.enqueued) |-> IF i = 0 THEN t ELSE Round(f[i-1])]
<1>1. after = [i \in 0..n |-> IF i = 0 THEN t ELSE Round(after[i-1])]
  BY PumpsExist DEF Pumps
<1>2. PumpEnqueued(t) = after[n]
  BY DEF PumpEnqueued
<1> HIDE DEF after
<1>3. after[0] = t /\ \A i \in 1..n : after[i] = Round(after[i-1])
  <2>1. 0 \in 0..n /\ \A i \in 1..n : i \in 0..n /\ i # 0
    OBVIOUS
  <2> QED
    BY <1>1, <2>1
<1> QED
  BY <1>2, <1>3

\* What the pump has made of t after i rounds.
PumpedSoFar(u, t, i) ==
  /\ WellFormed(u)
  /\ u.refs = t.refs
  /\ Resolving(u) = Resolving(t)
  /\ ~HasSlot(u) \/ Len(u.enqueued) = Len(t.enqueued) - i

LEMMA PumpGood ==
  ASSUME NEW t, WellFormed(t)
  PROVE  /\ Pumped(PumpEnqueued(t))
         /\ PumpEnqueued(t).refs = t.refs
         /\ Resolving(PumpEnqueued(t)) = Resolving(t)
<1>1. PICK n \in Nat : n = Len(t.enqueued)
  BY Fields DEF WellFormed
<1>2. PICK f : /\ PumpEnqueued(t) = f[n]
               /\ f[0] = t
               /\ \A i \in 1..n : f[i] = Round(f[i-1])
  BY <1>1, PumpIs
<1>3. PumpedSoFar(f[n], t, n)
  <2> DEFINE T == { i \in Nat : i <= n /\ ~PumpedSoFar(f[i], t, i) }
  <2> SUFFICES ASSUME T # {} PROVE FALSE
    OBVIOUS
  <2>1. PICK i \in T : \A y \in T : i <= y
    BY LeastNatural
  <2>2. i \in Nat /\ i <= n /\ ~PumpedSoFar(f[i], t, i)
    OBVIOUS
  <2>3. CASE i = 0
    <3>1. Len(t.enqueued) = Len(t.enqueued) - 0
      BY <1>1
    <3> QED
      BY <1>2, <2>2, <2>3, <3>1 DEF PumpedSoFar
  <2>4. CASE i # 0
    <3>1. i - 1 \in Nat /\ i - 1 <= n /\ i \in 1..n /\ i - 1 \notin T
      BY <2>1, <2>2, <2>4
    <3>2. PumpedSoFar(f[i-1], t, i - 1) /\ f[i] = Round(f[i-1])
      BY <1>2, <3>1
    <3>3. PICK u : u = f[i-1]
      OBVIOUS
    <3>4. CASE HasSlot(u)
      <4>1. f[i] = StartNext(u) /\ WellFormed(u)
        BY <3>2, <3>3, <3>4 DEF Round, PumpedSoFar
      <4>2. /\ WellFormed(f[i]) /\ f[i].refs = u.refs /\ Resolving(f[i]) = Resolving(u)
            /\ Len(f[i].enqueued) = Len(u.enqueued) - 1
        BY <3>4, <4>1, StartNextGood
      <4>3. u.refs = t.refs /\ Resolving(u) = Resolving(t) /\ Len(u.enqueued) = n - (i - 1)
        BY <1>1, <3>2, <3>3, <3>4 DEF PumpedSoFar
      <4>4. Len(f[i].enqueued) = Len(t.enqueued) - i
        BY <1>1, <2>2, <4>2, <4>3
      <4> QED
        BY <2>2, <4>2, <4>3, <4>4 DEF PumpedSoFar
    <3>5. CASE ~HasSlot(u)
      <4>1. f[i] = u
        BY <3>2, <3>3, <3>5 DEF Round
      <4> QED
        BY <2>2, <3>2, <3>3, <3>5, <4>1 DEF PumpedSoFar
    <3> QED
      BY <3>4, <3>5
  <2> QED
    BY <2>3, <2>4
<1>4. ~HasSlot(f[n])
  <2>1. CASE Len(f[n].enqueued) = Len(t.enqueued) - n
    <3>1. Len(f[n].enqueued) = 0 /\ f[n].enqueued \in Seq(Keys)
      BY <1>1, <1>3, <2>1, Fields DEF PumpedSoFar, WellFormed
    <3> QED
      BY <3>1 DEF HasSlot
  <2> QED
    BY <1>3, <2>1 DEF PumpedSoFar
<1> QED
  BY <1>2, <1>3, <1>4 DEF Pumped, PumpedSoFar

-----------------------------------------------------------------------------
(* Starting and ending the lookup of one document.                         *)

\* Taking out a key, and a target no other key has.
LEMMA ErasedGood ==
  ASSUME NEW t, WellFormed(t), NEW k, NEW id,
         \A j \in DOMAIN t.byKey \ {k} : t.byKey[j] # id
  PROVE  LET u == [t EXCEPT !.byKey = Erased(@, k), !.byTarget = Erased(@, id)] IN
           /\ WellFormed(u)
           /\ u.refs = t.refs
           /\ Resolving(t) \ {k} \subseteq Resolving(u)
<1>1. /\ t \in Trackers /\ IsFiniteSet(DOMAIN t.byTarget) /\ Targeted(t)
      /\ Cardinality(DOMAIN t.byKey) <= MaxConcurrent
  BY DEF WellFormed
<1>2. /\ t.refs \in KeySets /\ t.enqueued \in KeyLists /\ t.byKey \in Maps(Keys, Nat)
      /\ t.byTarget \in Maps(Nat, Keys) /\ DOMAIN t.byKey \subseteq Keys
  BY <1>1, Fields DEF KeySets, KeyLists, KeyMaps, TargetMaps
<1>3. PICK byKey \in KeyMaps : byKey = Erased(t.byKey, k) /\ Lacks(byKey, t.byKey, k)
  BY <1>2, ErasedMap DEF KeyMaps
<1>4. PICK byTarget \in TargetMaps : byTarget = Erased(t.byTarget, id) /\ Lacks(byTarget, t.byTarget, id)
  BY <1>2, ErasedMap DEF TargetMaps
<1>5. PICK u : /\ u = [t EXCEPT !.byKey = Erased(@, k), !.byTarget = Erased(@, id)]
               /\ Made(u, t.refs, t.enqueued, byKey, byTarget)
  <2>1. [t EXCEPT !.byKey = Erased(@, k), !.byTarget = Erased(@, id)]
          = [t EXCEPT !.byKey = byKey, !.byTarget = byTarget]
    BY <1>3, <1>4
  <2> QED
    BY <1>1, <1>2, <2>1, SetFields, Zenon
<1>6. IsFiniteSet(DOMAIN u.byTarget)
  BY <1>1, <1>4, <1>5, FS_Subset DEF Made, Lacks
<1>7. Targeted(u)
  <2> SUFFICES ASSUME NEW j \in DOMAIN byKey
               PROVE  byKey[j] \in DOMAIN byTarget /\ byTarget[byKey[j]] = j
    BY <1>5 DEF Targeted, Made
  <2>1. j \in DOMAIN t.byKey \ {k} /\ byKey[j] = t.byKey[j]
    BY <1>3 DEF Lacks
  <2>2. t.byKey[j] \in DOMAIN t.byTarget \ {id} /\ t.byTarget[t.byKey[j]] = j
    BY <1>1, <2>1 DEF Targeted
  <2> QED
    BY <1>4, <2>1, <2>2 DEF Lacks
<1>8. Cardinality(DOMAIN u.byKey) <= MaxConcurrent
  <2>1. IsFiniteSet(DOMAIN t.byKey)
    BY <1>2, FS_Subset
  <2>2. Cardinality(DOMAIN byKey) <= Cardinality(DOMAIN t.byKey) /\ IsFiniteSet(DOMAIN byKey)
    BY <1>3, <2>1, FS_Subset DEF Lacks
  <2>3. Cardinality(DOMAIN t.byKey) \in Nat /\ Cardinality(DOMAIN byKey) \in Nat
    BY <2>1, <2>2, FS_CardinalityType
  <2> QED
    BY <1>1, <1>5, <2>2, <2>3 DEF Made
<1>9. Resolving(t) \ {k} \subseteq Resolving(u)
  BY <1>3, <1>5, ResolvingIs DEF Made, Lacks
<1>10. WellFormed(u) /\ u.refs = t.refs
  BY <1>5, <1>6, <1>7, <1>8 DEF WellFormed, Made
<1> QED
  BY <1>5, <1>9, <1>10

\* RemoveLimboTarget ends the lookup of one document only.
LEMMA RemoveGood ==
  ASSUME NEW t, Pumped(t), NEW k
  PROVE  /\ Pumped(RemoveLimboTarget(t, k))
         /\ RemoveLimboTarget(t, k).refs = t.refs
         /\ Resolving(t) \ {k} \subseteq Resolving(RemoveLimboTarget(t, k))
<1>1. WellFormed(t)
  BY DEF Pumped
<1>2. CASE k \notin DOMAIN t.byKey
  BY <1>2 DEF RemoveLimboTarget
<1>3. CASE k \in DOMAIN t.byKey
  <2>1. \A j \in DOMAIN t.byKey \ {k} : t.byKey[j] # t.byKey[k]
    BY <1>1, <1>3 DEF WellFormed, Targeted
  <2>2. PICK u : u = [t EXCEPT !.byKey = Erased(@, k), !.byTarget = Erased(@, t.byKey[k])]
    OBVIOUS
  <2>3. WellFormed(u) /\ u.refs = t.refs /\ Resolving(t) \ {k} \subseteq Resolving(u)
    BY <1>1, <2>1, <2>2, ErasedGood
  <2>4. RemoveLimboTarget(t, k) = PumpEnqueued(u)
    BY <1>3, <2>2 DEF RemoveLimboTarget
  <2> QED
    BY <2>3, <2>4, PumpGood
<1> QED
  BY <1>2, <1>3

\* So does a refusal, of the document whose target it names.
LEMMA RejectedGood ==
  ASSUME NEW t, Pumped(t), NEW id
  PROVE  /\ Pumped(Rejected(t, id))
         /\ Rejected(t, id).refs = t.refs
         /\ Resolving(t) \ {t.byTarget[id]} \subseteq Resolving(Rejected(t, id))
<1>1. WellFormed(t)
  BY DEF Pumped
<1>2. \A j \in DOMAIN t.byKey \ {t.byTarget[id]} : t.byKey[j] # id
  BY <1>1 DEF WellFormed, Targeted
<1>3. PICK u : u = [t EXCEPT !.byKey = Erased(@, t.byTarget[id]), !.byTarget = Erased(@, id)]
  OBVIOUS
<1>4. WellFormed(u) /\ u.refs = t.refs /\ Resolving(t) \ {t.byTarget[id]} \subseteq Resolving(u)
  BY <1>1, <1>2, <1>3, ErasedGood
<1>5. Rejected(t, id) = PumpEnqueued(u)
  BY <1>3 DEF Rejected
<1> QED
  BY <1>4, <1>5, PumpGood

\* TrackLimboChange sees that the document is looked up.
LEMMA TrackGood ==
  ASSUME NEW t, Pumped(t), NEW k \in Keys
  PROVE  /\ Pumped(TrackLimboChange(t, k))
         /\ TrackLimboChange(t, k).refs = t.refs
         /\ Resolving(t) \cup {k} \subseteq Resolving(TrackLimboChange(t, k))
<1>1. WellFormed(t) /\ t \in Trackers
  BY DEF Pumped, WellFormed
<1>2. CASE k \in DOMAIN t.byKey
  BY <1>2, ResolvingIs DEF TrackLimboChange
<1>3. CASE k \notin DOMAIN t.byKey
  <2>1. PICK e \in KeyLists : e = Append(t.enqueued, k) /\ Members(e) = Members(t.enqueued) \cup {k}
    BY <1>1, Fields, MembersAppend DEF KeyLists
  <2>2. PICK u : u = [t EXCEPT !.enqueued = Append(@, k)] /\ Made(u, t.refs, e, t.byKey, t.byTarget)
    <3>1. [t EXCEPT !.enqueued = Append(@, k)] = [t EXCEPT !.enqueued = e]
      BY <2>1
    <3>2. t.refs \in KeySets /\ t.byKey \in KeyMaps /\ t.byTarget \in TargetMaps
      BY <1>1, Fields DEF KeySets
    <3> QED
      BY <1>1, <3>1, <3>2, SetFields, Zenon
  <2>3. WellFormed(u)
    BY <1>1, <2>2 DEF WellFormed, Made, Targeted
  <2>4. Resolving(u) = Resolving(t) \cup {k}
    BY <2>1, <2>2, ResolvingIs DEF Made
  <2>5. TrackLimboChange(t, k) = PumpEnqueued(u) /\ u.refs = t.refs
    BY <1>3, <2>2 DEF TrackLimboChange, Made
  <2> QED
    BY <2>3, <2>4, <2>5, PumpGood
<1> QED
  BY <1>2, <1>3

\* The references may be set to any documents.
LEMMA RefsGood ==
  ASSUME NEW t, Pumped(t), NEW r \in KeySets
  PROVE  /\ Pumped([t EXCEPT !.refs = r])
         /\ [t EXCEPT !.refs = r].refs = r
         /\ Resolving([t EXCEPT !.refs = r]) = Resolving(t)
<1>1. t \in Trackers
  BY DEF Pumped, WellFormed
<1>2. PICK u : u = [t EXCEPT !.refs = r] /\ Made(u, r, t.enqueued, t.byKey, t.byTarget)
  <2>1. t.enqueued \in KeyLists /\ t.byKey \in KeyMaps /\ t.byTarget \in TargetMaps
    BY <1>1, Fields DEF KeyLists
  <2> QED
    BY <1>1, <2>1, SetFields, Zenon
<1>3. Pumped(u)
  BY <1>2 DEF Pumped, WellFormed, Made, Targeted, HasSlot
<1>4. Resolving(u) = Resolving(t)
  BY <1>2, ResolvingIs DEF Made
<1> QED
  BY <1>2, <1>3, <1>4 DEF Made

-----------------------------------------------------------------------------
(* The loops over keys.                                                    *)

Increasing(s, n) == \A i, j \in 1..n : i < j => s[i] < s[j]

LEMMA IncreasingExists ==
  ASSUME NEW ks \in SUBSET Keys
  PROVE  \E s \in [1..Cardinality(ks) -> ks] : Increasing(s, Cardinality(ks))
<1> DEFINE Fails(n) == \E S \in SUBSET Keys :
                         Cardinality(S) = n /\ \A s \in [1..n -> S] : ~Increasing(s, n)
           T == { n \in Nat : Fails(n) }
<1>1. T = {}
  <2> SUFFICES ASSUME T # {} PROVE FALSE
    OBVIOUS
  <2>1. PICK n \in T : \A m \in T : n <= m
    BY LeastNatural
  <2>2. PICK S \in SUBSET Keys : Cardinality(S) = n /\ \A s \in [1..n -> S] : ~Increasing(s, n)
    OBVIOUS
  <2>3. n \in Nat /\ IsFiniteSet(S) /\ S \subseteq Nat
    BY FS_Subset
  <2>4. CASE n = 0
    <3>1. [i \in 1..0 |-> i] \in [1..0 -> S]
      OBVIOUS
    <3>2. Increasing([i \in 1..0 |-> i], 0)
      BY DEF Increasing
    <3> QED
      BY <2>2, <2>4, <3>1, <3>2
  <2>5. CASE n # 0
    <3>1. S # {}
      BY <2>2, <2>3, <2>5, FS_EmptySet
    <3>2. PICK x \in S : \A y \in S : x <= y
      BY <2>3, <3>1, LeastNatural
    <3>3. PICK m \in Nat : n = m + 1
      <4>1. n - 1 \in Nat /\ n = n - 1 + 1
        BY <2>3, <2>5
      <4> QED
        BY <4>1
    <3>4. PICK R \in SUBSET Keys : R = S \ {x} /\ Cardinality(R) = m
      <4>1. Cardinality(S \ {x}) = n - 1
        BY <2>2, <2>3, FS_RemoveElement
      <4> QED
        BY <3>3, <4>1
    <3>5. PICK s \in [1..m -> R] : Increasing(s, m)
      <4>1. m \notin T
        BY <2>1, <3>3
      <4>2. ~Fails(m)
        BY <4>1
      <4> QED
        BY <3>4, <4>2
    <3> DEFINE z == [i \in 1..n |-> IF i = 1 THEN x ELSE s[i - 1]]
    <3>6. \A i \in 1..n : i # 1 => i - 1 \in 1..m
      BY <2>3, <3>3
    <3>7. z \in [1..n -> S]
      <4>1. \A i \in 1..n : (IF i = 1 THEN x ELSE s[i - 1]) \in S
        BY <3>4, <3>6
      <4> QED
        BY <4>1
    <3>8. Increasing(z, n)
      <4> SUFFICES ASSUME NEW i \in 1..n, NEW j \in 1..n, i < j PROVE z[i] < z[j]
        BY DEF Increasing
      <4>1. j # 1 /\ j - 1 \in 1..m /\ z[j] = s[j - 1] /\ z[j] \in R
        BY <2>3, <3>6
      <4>2. CASE i = 1
        <5>1. z[i] = x /\ x <= z[j] /\ x # z[j] /\ x \in Nat /\ z[j] \in Nat
          BY <2>3, <3>2, <3>4, <4>1, <4>2
        <5> QED
          BY <5>1
      <4>3. CASE i # 1
        <5>1. i - 1 \in 1..m /\ z[i] = s[i - 1] /\ i - 1 < j - 1
          BY <2>3, <3>6, <4>3
        <5> QED
          BY <3>5, <4>1, <5>1 DEF Increasing
      <4> QED
        BY <4>2, <4>3
    <3> HIDE DEF z
    <3> QED
      BY <2>2, <3>7, <3>8
  <2> QED
    BY <2>4, <2>5
<1>2. Cardinality(ks) \in Nat
  BY FS_Subset, FS_CardinalityType
<1>3. ~Fails(Cardinality(ks))
  BY <1>1, <1>2
<1> QED
  BY <1>3

\* The order of keys has every key once.
LEMMA SortedIs ==
  ASSUME NEW ks \in SUBSET Keys
  PROVE  /\ Cardinality(ks) \in Nat
         /\ Sorted(ks) \in [1..Cardinality(ks) -> ks]
         /\ ks = { Sorted(ks)[i] : i \in 1..Cardinality(ks) }
<1>1. PICK n \in Nat : n = Cardinality(ks)
  BY FS_Subset, FS_CardinalityType
<1>2. PICK s : s = Sorted(ks) /\ s \in [1..n -> ks] /\ Increasing(s, n)
  BY <1>1, IncreasingExists DEF Sorted, Increasing
<1>3. s \in Injection(1..n, ks)
  <2>1. \A i, j \in 1..n : s[i] = s[j] => i = j
    <3> SUFFICES ASSUME NEW i \in 1..n, NEW j \in 1..n, s[i] = s[j], i # j PROVE FALSE
      OBVIOUS
    <3>1. s[i] \in Nat /\ s[j] \in Nat
      BY <1>2
    <3>2. i < j \/ j < i
      OBVIOUS
    <3> QED
      BY <1>2, <3>1, <3>2 DEF Increasing
  <2> QED
    BY <1>2, <2>1 DEF Injection, IsInjective
<1>4. Cardinality(1..n) = n /\ IsFiniteSet(ks)
  <2>1. Cardinality(1..n) = IF 1 > n THEN 0 ELSE n - 1 + 1
    BY FS_Interval
  <2>2. (IF 1 > n THEN 0 ELSE n - 1 + 1) = n
    OBVIOUS
  <2>3. IsFiniteSet(ks)
    BY FS_Subset
  <2> QED
    BY <2>1, <2>2, <2>3
<1>5. s \in Surjection(1..n, ks)
  BY <1>1, <1>3, <1>4, FS_Injection
<1> QED
  BY <1>1, <1>2, <1>5 DEF Surjection

Calls == {"added", "removed", "dropped"}

\* The bookkeepings along a loop over the keys in s.
Loops(f, t, call, s, n) == f = [i \in 0..n |-> IF i = 0 THEN t ELSE Called(f[i-1], call, s[i])]

LEMMA LoopsExist ==
  ASSUME NEW t, NEW call, NEW s, NEW n \in Nat
  PROVE  \E f : Loops(f, t, call, s, n)
<1> DEFINE T == { m \in Nat : ~\E f : Loops(f, t, call, s, m) }
<1> SUFFICES ASSUME T # {} PROVE FALSE
  OBVIOUS
<1>1. PICK m \in T : \A y \in T : m <= y
  BY LeastNatural
<1>2. m \in Nat /\ ~\E f : Loops(f, t, call, s, m)
  OBVIOUS
<1>3. CASE m = 0
  <2>1. Loops([i \in 0..0 |-> t], t, call, s, 0)
    BY DEF Loops
  <2> QED
    BY <1>2, <1>3, <2>1
<1>4. CASE m # 0
  <2>1. m - 1 \in Nat /\ m - 1 \notin T
    BY <1>1, <1>2, <1>4
  <2>2. PICK g : Loops(g, t, call, s, m - 1)
    BY <2>1
  <2> DEFINE f == [i \in 0..m |-> IF i = m THEN Called(g[m-1], call, s[m]) ELSE g[i]]
  <2>3. \A i \in 0..(m - 1) : g[i] = IF i = 0 THEN t ELSE Called(g[i-1], call, s[i])
    BY <2>2 DEF Loops
  <2>4. \A i \in 0..m : f[i] = IF i = 0 THEN t ELSE Called(f[i-1], call, s[i])
    <3> SUFFICES ASSUME NEW i \in 0..m PROVE f[i] = IF i = 0 THEN t ELSE Called(f[i-1], call, s[i])
      OBVIOUS
    <3>1. CASE i = m
      <4>1. i - 1 \in 0..m /\ i - 1 # m /\ i # 0
        BY <1>2, <1>4, <3>1
      <4>2. f[i-1] = g[m-1] /\ f[i] = Called(g[m-1], call, s[m])
        BY <3>1, <4>1
      <4> QED
        BY <3>1, <4>1, <4>2
    <3>2. CASE i # m /\ i # 0
      <4>1. i \in 0..(m - 1) /\ i - 1 \in 0..m /\ i - 1 # m
        BY <1>2, <3>2
      <4>2. f[i] = g[i] /\ f[i-1] = g[i-1]
        BY <3>2, <4>1
      <4> QED
        BY <2>3, <3>2, <4>1, <4>2
    <3>3. CASE i # m /\ i = 0
      <4>1. f[i] = g[0] /\ 0 \in 0..(m - 1)
        BY <1>2, <1>4, <3>3
      <4> QED
        BY <2>3, <3>3, <4>1
    <3> QED
      BY <3>1, <3>2, <3>3
  <2>5. f = [i \in 0..m |-> IF i = 0 THEN t ELSE Called(f[i-1], call, s[i])]
    BY <2>4
  <2>6. Loops(f, t, call, s, m)
    BY <2>5 DEF Loops
  <2> QED
    BY <1>2, <2>6
<1> QED
  BY <1>3, <1>4

LEMMA EachIs ==
  ASSUME NEW t, NEW call, NEW ks \in SUBSET Keys, NEW n \in Nat, n = Cardinality(ks)
  PROVE  \E f : /\ Each(t, call, ks) = f[n]
                /\ f[0] = t
                /\ \A i \in 1..n : f[i] = Called(f[i-1], call, Sorted(ks)[i])
<1> DEFINE after == CHOOSE f : f = [i \in 0..Cardinality(ks) |->
                                      IF i = 0 THEN t ELSE Called(f[i-1], call, Sorted(ks)[i])]
<1>1. after = [i \in 0..n |-> IF i = 0 THEN t ELSE Called(after[i-1], call, Sorted(ks)[i])]
  BY LoopsExist DEF Loops
<1>2. Each(t, call, ks) = after[n]
  BY DEF Each
<1> HIDE DEF after
<1>3. after[0] = t /\ \A i \in 1..n : after[i] = Called(after[i-1], call, Sorted(ks)[i])
  <2>1. 0 \in 0..n /\ \A i \in 1..n : i \in 0..n /\ i # 0
    OBVIOUS
  <2> QED
    BY <1>1, <2>1
<1> QED
  BY <1>2, <1>3

\* What a loop has made of t once it has been through the keys in "done".
RefsAfter(call, refs, done) ==
  CASE call = "added" -> refs \cup done [] call = "removed" -> refs \ done [] call = "dropped" -> refs

Follows(call, u, t, done) ==
  /\ Pumped(u)
  /\ u.refs = RefsAfter(call, t.refs, done)
  /\ Resolving(t) \ (IF call = "added" THEN {} ELSE done) \subseteq Resolving(u)
  /\ call = "added" => done \subseteq Resolving(u)

LEMMA CalledFollows ==
  ASSUME NEW call \in Calls, NEW u, NEW t, NEW done, Follows(call, u, t, done), NEW k \in Keys
  PROVE  Follows(call, Called(u, call, k), t, done \cup {k})
<1>1. Pumped(u) /\ u.refs \in KeySets
  BY Fields DEF Follows, Pumped, WellFormed, KeySets
<1>2. CASE call = "added"
  <2>1. PICK r \in KeySets : r = u.refs \cup {k}
    BY <1>1 DEF KeySets
  <2>2. PICK w : w = [u EXCEPT !.refs = @ \cup {k}]
    OBVIOUS
  <2>3. w = [u EXCEPT !.refs = r]
    BY <2>1, <2>2
  <2>4. Pumped(w) /\ w.refs = r /\ Resolving(w) = Resolving(u)
    BY <1>1, <2>3, RefsGood
  <2>5. Called(u, call, k) = TrackLimboChange(w, k)
    BY <1>2, <2>2 DEF Called, LimboAdded
  <2>6. /\ Pumped(TrackLimboChange(w, k)) /\ TrackLimboChange(w, k).refs = r
        /\ Resolving(u) \cup {k} \subseteq Resolving(TrackLimboChange(w, k))
    BY <2>4, TrackGood
  <2> QED
    BY <1>2, <2>1, <2>5, <2>6 DEF Follows, RefsAfter
<1>3. CASE call = "removed"
  <2>1. PICK r \in KeySets : r = u.refs \ {k}
    BY <1>1 DEF KeySets
  <2>2. PICK w : w = [u EXCEPT !.refs = @ \ {k}]
    OBVIOUS
  <2>3. w = [u EXCEPT !.refs = r]
    BY <2>1, <2>2
  <2>4. Pumped(w) /\ w.refs = r /\ Resolving(w) = Resolving(u)
    BY <1>1, <2>3, RefsGood
  <2>5. Called(u, call, k) = RemoveLimboTarget(w, k)
    BY <1>3, <2>2 DEF Called, LimboRemoved
  <2>6. /\ Pumped(RemoveLimboTarget(w, k)) /\ RemoveLimboTarget(w, k).refs = r
        /\ Resolving(u) \ {k} \subseteq Resolving(RemoveLimboTarget(w, k))
    BY <2>4, RemoveGood
  <2> QED
    BY <1>3, <2>1, <2>5, <2>6 DEF Follows, RefsAfter
<1>4. CASE call = "dropped"
  <2>1. Called(u, call, k) = RemoveLimboTarget(u, k)
    BY <1>4 DEF Called
  <2>2. /\ Pumped(RemoveLimboTarget(u, k)) /\ RemoveLimboTarget(u, k).refs = u.refs
        /\ Resolving(u) \ {k} \subseteq Resolving(RemoveLimboTarget(u, k))
    BY <1>1, RemoveGood
  <2> QED
    BY <1>4, <2>1, <2>2 DEF Follows, RefsAfter
<1> QED
  BY <1>2, <1>3, <1>4 DEF Calls

\* The first i keys of a list.
FirstKeys(s, i) == { s[j] : j \in 1..i }

LEMMA FirstKeysIs ==
  ASSUME NEW s
  PROVE  /\ FirstKeys(s, 0) = {}
         /\ \A i \in Nat \ {0} : FirstKeys(s, i) = FirstKeys(s, i - 1) \cup {s[i]}
<1>1. FirstKeys(s, 0) = {}
  BY DEF FirstKeys
<1>2. ASSUME NEW i \in Nat \ {0} PROVE 1..i = 1..(i - 1) \cup {i}
  OBVIOUS
<1>3. ASSUME NEW i \in Nat \ {0} PROVE FirstKeys(s, i) = FirstKeys(s, i - 1) \cup {s[i]}
  BY <1>2 DEF FirstKeys
<1> QED
  BY <1>1, <1>3

LEMMA EachFollows ==
  ASSUME NEW call \in Calls, NEW t, Pumped(t), NEW ks \in SUBSET Keys
  PROVE  Follows(call, Each(t, call, ks), t, ks)
<1>1. PICK n \in Nat : n = Cardinality(ks)
  BY SortedIs
<1>2. PICK s : s = Sorted(ks) /\ s \in [1..n -> ks] /\ ks = FirstKeys(s, n)
  BY <1>1, SortedIs DEF FirstKeys
<1>3. \E f : /\ Each(t, call, ks) = f[n]
             /\ f[0] = t
             /\ \A i \in 1..n : f[i] = Called(f[i-1], call, Sorted(ks)[i])
  BY <1>1, EachIs
<1>4. PICK f : /\ Each(t, call, ks) = f[n]
               /\ f[0] = t
               /\ \A i \in 1..n : f[i] = Called(f[i-1], call, s[i])
  BY <1>2, <1>3
<1> DEFINE T == { i \in Nat : i <= n /\ ~Follows(call, f[i], t, FirstKeys(s, i)) }
<1>5. T = {}
  <2> SUFFICES ASSUME T # {} PROVE FALSE
    OBVIOUS
  <2>1. PICK i \in T : \A y \in T : i <= y
    BY LeastNatural
  <2>2. i \in Nat /\ i <= n /\ ~Follows(call, f[i], t, FirstKeys(s, i))
    OBVIOUS
  <2>3. CASE i = 0
    <3>1. Follows(call, t, t, {})
      BY DEF Follows, RefsAfter, Calls
    <3> QED
      BY <1>4, <2>2, <2>3, <3>1, FirstKeysIs
  <2>4. CASE i # 0
    <3>1. PICK h \in Nat : h = i - 1
      BY <2>2, <2>4
    <3>2. h <= n /\ i \in 1..n /\ ~(i <= h) /\ i \in Nat \ {0}
      BY <2>2, <2>4, <3>1
    <3>3. h \notin T
      BY <2>1, <3>2
    <3>4. PICK u, d : u = f[h] /\ d = FirstKeys(s, h) /\ Follows(call, u, t, d)
      BY <3>2, <3>3
    <3>5. PICK k \in Keys : k = s[i]
      BY <1>2, <3>2
    <3>6. f[i] = Called(u, call, k)
      BY <1>4, <3>1, <3>2, <3>4, <3>5
    <3>7. FirstKeys(s, i) = d \cup {k}
      BY <3>1, <3>2, <3>4, <3>5, FirstKeysIs
    <3>8. Follows(call, Called(u, call, k), t, d \cup {k})
      BY <3>4, CalledFollows
    <3> QED
      BY <2>2, <3>6, <3>7, <3>8
  <2> QED
    BY <2>3, <2>4
<1>6. Follows(call, f[n], t, FirstKeys(s, n))
  <2>1. n \notin T /\ n <= n
    BY <1>5
  <2> QED
    BY <2>1
<1> QED
  BY <1>2, <1>4, <1>6

\* UpdateTrackedLimboDocuments makes the references those of the view; a
\* document that enters is seen to, one that stays keeps its lookup.
LEMMA UpdateTrackedGood ==
  ASSUME NEW t, Pumped(t), NEW old \in SUBSET Keys, NEW new \in SUBSET Keys, t.refs = old
  PROVE  /\ Pumped(UpdateTracked(t, old, new))
         /\ UpdateTracked(t, old, new).refs = new
         /\ Resolving(t) \ (old \ new) \subseteq Resolving(UpdateTracked(t, old, new))
         /\ new \ old \subseteq Resolving(UpdateTracked(t, old, new))
<1>1. PICK left \in SUBSET Keys : left = old \ new
  OBVIOUS
<1>2. PICK entered \in SUBSET Keys : entered = new \ old
  OBVIOUS
<1>3. PICK u : u = Each(t, "removed", left) /\ Follows("removed", u, t, left)
  BY EachFollows DEF Calls
<1>4. Pumped(u) /\ u.refs = old \ left /\ Resolving(t) \ left \subseteq Resolving(u)
  BY <1>3 DEF Follows, RefsAfter
<1>5. PICK w : w = Each(u, "added", entered) /\ Follows("added", w, u, entered)
  BY <1>4, EachFollows DEF Calls
<1>6. /\ Pumped(w) /\ w.refs = u.refs \cup entered
      /\ Resolving(u) \subseteq Resolving(w) /\ entered \subseteq Resolving(w)
  BY <1>5 DEF Follows, RefsAfter
<1>7. UpdateTracked(t, old, new) = w
  BY <1>1, <1>2, <1>3, <1>5 DEF UpdateTracked
<1> QED
  BY <1>1, <1>2, <1>4, <1>6, <1>7

\* RemoveAndCleanupTarget leaves no reference.
LEMMA CleanedUpGood ==
  ASSUME NEW t, Pumped(t)
  PROVE  Pumped(CleanedUp(t)) /\ CleanedUp(t).refs = {}
<1>1. PICK ks \in SUBSET Keys : ks = t.refs
  BY Fields DEF Pumped, WellFormed
<1>2. PICK u : u = [t EXCEPT !.refs = {}] /\ Pumped(u) /\ u.refs = {}
  <2>1. {} \in KeySets
    BY DEF KeySets
  <2> QED
    BY <2>1, RefsGood
<1>3. Follows("dropped", Each(u, "dropped", ks), u, ks)
  BY <1>2, EachFollows DEF Calls
<1>4. CleanedUp(t) = Each(u, "dropped", ks)
  BY <1>1, <1>2 DEF CleanedUp
<1> QED
  BY <1>2, <1>3, <1>4 DEF Follows, RefsAfter

-----------------------------------------------------------------------------
(* The states.                                                             *)

LEMMA InitLInv == Init => LInv
<1> SUFFICES ASSUME Init PROVE LInv
  OBVIOUS
<1>1. limbo \in SUBSET Keys /\ ViewInv
  BY DEF Init, ViewInv
<1>2. PICK none : none = <<>> /\ none \in Seq(Keys) /\ DOMAIN none = {}
  <2>1. <<>> \in Seq(Keys) /\ DOMAIN <<>> = {}
    OBVIOUS
  <2> QED
    BY <2>1
<1>3. none \in KeyMaps /\ none \in TargetMaps
  <2>1. none \in [DOMAIN none -> Nat] /\ none \in [DOMAIN none -> Keys]
    BY <1>2
  <2> QED
    BY <1>2, <2>1, MapIs DEF KeyMaps, TargetMaps
<1>4. tracker = [refs |-> {}, enqueued |-> none, byKey |-> none, byTarget |-> none]
  BY <1>2 DEF Init, NewTracker
<1>5. {} \in KeySets /\ none \in KeyLists
  BY <1>2 DEF KeySets, KeyLists
<1>6. tracker \in Trackers
  BY <1>3, <1>4, <1>5 DEF Trackers
<1>7. IsFiniteSet(DOMAIN tracker.byTarget) /\ Cardinality(DOMAIN tracker.byKey) = 0
  BY <1>2, <1>4, FS_EmptySet
<1>8. Targeted(tracker) /\ ~HasSlot(tracker) /\ tracker.refs = limbo
  BY <1>2, <1>4 DEF Targeted, HasSlot, Init
<1> QED
  BY <1>1, <1>6, <1>7, <1>8 DEF LInv, Pumped, WellFormed

\* What a step does for the documents in limbo: LookupsGoOn.
GoesOn ==
  \A k \in tracker'.refs : k \notin Resolving(tracker') =>
    k \in tracker.refs /\ (k \in Resolving(tracker) => k \notin cached')

\* The end of a task that changes documents, which has made t of the
\* bookkeeping and ended no lookup but those of "gone".
LEMMA ApplyChangesKeeps ==
  ASSUME LInv, NEW t, Pumped(t), t.refs = limbo, NEW gone, gone \cap cached' = {},
         Resolving(tracker) \ gone \subseteq Resolving(t),
         listening' = listening, ~listening => ~current', ApplyChanges(t)
  PROVE  LInv' /\ GoesOn
<1>1. limbo' \in SUBSET Keys
  BY DEF LInv, ApplyChanges, UpdatedLimbo, ShouldBeInLimbo, Results
<1>2. ViewInv'
  BY DEF LInv, ViewInv, ApplyChanges, UpdatedLimbo
<1>3. PICK old, new : /\ old = limbo /\ new = limbo' /\ old \in SUBSET Keys /\ new \in SUBSET Keys
                      /\ tracker' = UpdateTracked(t, old, new)
  BY <1>1 DEF LInv, ApplyChanges
<1>4. /\ Pumped(tracker') /\ tracker'.refs = new
      /\ Resolving(t) \ (old \ new) \subseteq Resolving(tracker')
      /\ new \ old \subseteq Resolving(tracker')
  BY <1>3, UpdateTrackedGood
<1>5. LInv'
  BY <1>1, <1>2, <1>3, <1>4 DEF LInv
<1>6. GoesOn
  BY <1>3, <1>4 DEF GoesOn, LInv
<1> QED
  BY <1>5, <1>6

\* A task that changes documents and has not touched the bookkeeping before.
LEMMA ChangesKeep ==
  ASSUME LInv, listening' = listening, ~listening => ~current', ApplyChanges(tracker)
  PROVE  LInv' /\ GoesOn
<1>1. Pumped(tracker) /\ tracker.refs = limbo
  BY DEF LInv
<1>2. PICK t, gone : t = tracker /\ gone = {}
  OBVIOUS
<1>3. gone \cap cached' = {} /\ Resolving(tracker) \ gone \subseteq Resolving(t)
  BY <1>2
<1>4. ApplyChanges(t)
  BY <1>2
<1> QED
  BY <1>1, <1>2, <1>3, <1>4, ApplyChangesKeeps

\* A step that changes neither the references nor the lookups.
LEMMA SameKeeps ==
  ASSUME LInv, limbo' = limbo, tracker' = tracker, ViewInv'
  PROVE  LInv' /\ GoesOn
BY DEF LInv, GoesOn

LEMMA StepKeeps ==
  ASSUME LInv, [Next]_vars
  PROVE  LInv' /\ GoesOn
<1>0. ~listening => ~current
  BY DEF LInv, ViewInv
<1>1. CASE Listen
  BY <1>1, SameKeeps DEF Listen, LInv, ViewInv
<1>2. CASE ListenEnds
  <2>1. Pumped(tracker') /\ tracker'.refs = {}
    BY <1>2, CleanedUpGood DEF ListenEnds, LInv
  <2> QED
    BY <1>2, <2>1 DEF ListenEnds, LInv, ViewInv, GoesOn
<1>3. CASE GoesOffline
  BY <1>3, SameKeeps DEF GoesOffline, LInv, ViewInv
<1>4. CASE QueryChanges
  BY <1>4, ChangesKeep DEF QueryChanges
<1>5. CASE QueryReset
  BY <1>5, ChangesKeep DEF QueryReset
<1>6. ASSUME NEW k \in Keys, Write(k) PROVE LInv' /\ GoesOn
  BY <1>0, <1>6, ChangesKeep DEF Write
<1>7. ASSUME NEW k \in Keys, WriteAcknowledged(k) PROVE LInv' /\ GoesOn
  BY <1>0, <1>7, ChangesKeep DEF WriteAcknowledged
<1>8. ASSUME NEW k \in Keys, WriteRejected(k) PROVE LInv' /\ GoesOn
  BY <1>0, <1>8, ChangesKeep DEF WriteRejected
<1>9. ASSUME NEW id \in DOMAIN tracker.byTarget, LookedUp(tracker.byTarget[id])
      PROVE  LInv' /\ GoesOn
  BY <1>0, <1>9, ChangesKeep DEF LookedUp
<1>10. ASSUME NEW id \in DOMAIN tracker.byTarget, LookupRejected(id) PROVE LInv' /\ GoesOn
  <2>1. PICK t, gone : t = Rejected(tracker, id) /\ gone = {tracker.byTarget[id]}
    OBVIOUS
  <2>2. /\ Pumped(t) /\ t.refs = limbo
        /\ Resolving(tracker) \ gone \subseteq Resolving(t)
    BY <2>1, RejectedGood DEF LInv
  <2>3. gone \cap cached' = {}
    BY <1>10, <2>1 DEF LookupRejected
  <2>4. ApplyChanges(t) /\ listening' = listening /\ (~listening => ~current')
    BY <1>0, <1>10, <2>1 DEF LookupRejected
  <2> QED
    BY <2>2, <2>3, <2>4, ApplyChangesKeeps
<1>11. CASE UNCHANGED vars
  <2>1. ViewInv'
    BY <1>11 DEF vars, LInv, ViewInv, ShouldBeInLimbo, Results, HasLocal
  <2> QED
    BY <1>11, <2>1, SameKeeps DEF vars
<1> QED
  BY <1>1, <1>2, <1>3, <1>4, <1>5, <1>6, <1>7, <1>8, <1>9, <1>10, <1>11 DEF Next

THEOREM Invariant == Spec => []LInv
<1>1. LInv /\ [Next]_vars => LInv'
  BY StepKeeps
<1> QED
  BY InitLInv, <1>1, PTL DEF Spec

\* SyncEngine's limbo_document_refs_ are the view's limbo_documents_ whenever
\* no task runs: UpdateTrackedLimboDocuments keeps the two together.
THEOREM RefsAreLimboCorrect == Spec => []RefsAreLimbo
<1>1. LInv => RefsAreLimbo
  BY DEF LInv, RefsAreLimbo
<1> QED
  BY Invariant, <1>1, PTL

\* PumpEnqueuedLimboResolutions runs wherever a slot comes free or a document
\* is queued, so none is queued while there is a slot.
THEOREM SlotsUsedCorrect == Spec => []SlotsUsed
<1>1. LInv => SlotsUsed
  <2> SUFFICES ASSUME LInv, tracker.enqueued # <<>>
               PROVE  Cardinality(DOMAIN tracker.byKey) = MaxConcurrent
    BY DEF SlotsUsed
  <2>1. /\ tracker \in Trackers /\ Cardinality(DOMAIN tracker.byKey) <= MaxConcurrent
        /\ ~(Cardinality(DOMAIN tracker.byKey) < MaxConcurrent)
    BY DEF LInv, Pumped, WellFormed, HasSlot
  <2>2. DOMAIN tracker.byKey \subseteq Keys
    BY <2>1, Fields
  <2>3. Cardinality(DOMAIN tracker.byKey) \in Nat
    BY <2>2, FS_Subset, FS_CardinalityType
  <2> QED
    BY <2>1, <2>3
<1> QED
  BY Invariant, <1>1, PTL

\* active_limbo_targets_by_key_ names only targets that
\* active_limbo_resolutions_by_target_ has for that document.
THEOREM KeysHaveTargetsCorrect == Spec => []KeysHaveTargets
<1>1. LInv => KeysHaveTargets
  BY DEF LInv, Pumped, WellFormed, Targeted, KeysHaveTargets
<1> QED
  BY Invariant, <1>1, PTL

\* A view that is current and has nothing in limbo shows what the server
\* lists and the device's own writes, whatever UpdateLimboDocuments skipped
\* while it was not current.
THEOREM SyncedViewCorrect == Spec => []SyncedViewIsServers
<1>1. LInv => SyncedViewIsServers
  BY DEF LInv, ViewInv, SyncedViewIsServers, ShouldBeInLimbo
<1> QED
  BY Invariant, <1>1, PTL

\* From the moment it enters limbo a document is looked up or queued, until
\* it leaves limbo or the server refuses and the document goes.
THEOREM LookupsGoOnCorrect == Spec => LookupsGoOn
<1>1. LInv /\ [Next]_vars => [GoesOn]_vars
  BY StepKeeps
<1> QED
  BY Invariant, <1>1, PTL DEF Spec, LookupsGoOn, GoesOn

=============================================================================
