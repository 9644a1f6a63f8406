---------------------------- MODULE TableProofs -----------------------------
(***************************************************************************)
(* Proofs about Table, for every set of strings, every hash function and   *)
(* every initial capacity.  First the probe as an operator: where it stops *)
(* and what storing, deleting and re-inserting do to the other keys' probe *)
(* chains.  Then the inductive invariant, one lemma per action, and the    *)
(* safety properties it implies.  Last, that Table implements Dict.        *)
(***************************************************************************)
EXTENDS Table, FiniteSetTheorems, WellFoundedInduction, TLAPS

----------------------------------------------------------------------------
(* The least element of a set of naturals. *)

LessThan == {p \in Nat \X Nat : p[1] < p[2]}

LEMMA LessThanWellFounded == IsWellFoundedOn(LessThan, Nat)
BY NatLessThanWellFounded DEF OpToRel, LessThan

(* Least(S) is the least element of a set of naturals that has one. *)
LEMMA LeastIsLeast ==
  ASSUME NEW S, S \subseteq Nat, S # {}
  PROVE  Least(S) \in S /\ \A e \in S : Least(S) <= e
<1>1. PICK x \in S : \A y \in S : <<y, x>> \notin LessThan
  BY LessThanWellFounded, WFMin
<1>2. ASSUME NEW y \in S PROVE x <= y
  <2>1. x \in Nat /\ y \in Nat
    OBVIOUS
  <2>2. ~ (y < x)
    BY <1>1, <2>1 DEF LessThan
  <2> QED BY <2>1, <2>2
<1> QED BY <1>2 DEF Least

----------------------------------------------------------------------------
(* Probing.  Bks is an array of cap > 0 buckets, k a string. *)

Arrays(cap) == [Buckets(cap) -> Entries]

(* The probe for k stops d places after its home and not before. *)
StopsAt(es, cap, k, d) ==
  /\ d \in Stops(es, cap, k)
  /\ \A e \in Buckets(d) : e \notin Stops(es, cap, k)

LEMMA HomeInRange ==
  ASSUME NEW k \in Keys, NEW cap \in Nat, cap > 0
  PROVE  Home(k, cap) \in Buckets(cap)
<1>1. Hash[k] \in Nat
  BY TableAssumption
<1> QED BY <1>1 DEF Home, Buckets

(* Wrapping around the array, every bucket has one distance from home. *)
LEMMA SlotBijection ==
  ASSUME NEW cap \in Nat, NEW h \in Buckets(cap)
  PROVE  /\ \A d \in Buckets(cap) : Slot(h, d, cap) \in Buckets(cap)
         /\ \A d, e \in Buckets(cap) : Slot(h, d, cap) = Slot(h, e, cap) => d = e
         /\ \A s \in Buckets(cap) : \E d \in Buckets(cap) : Slot(h, d, cap) = s
<1>1. \A s \in Buckets(cap) : \E d \in Buckets(cap) : Slot(h, d, cap) = s
  <2> TAKE s \in Buckets(cap)
  <2>1. CASE h <= s
    <3>1. s - h \in Buckets(cap)
      BY <2>1 DEF Buckets
    <3>2. Slot(h, s - h, cap) = s
      BY <2>1, <3>1 DEF Slot, Buckets
    <3> QED BY <3>1, <3>2
  <2>2. CASE s < h
    <3>1. s + cap - h \in Buckets(cap)
      BY <2>2 DEF Buckets
    <3>2. Slot(h, s + cap - h, cap) = s
      BY <2>2, <3>1 DEF Slot, Buckets
    <3> QED BY <3>1, <3>2
  <2> QED BY <2>1, <2>2 DEF Buckets
<1> QED BY <1>1 DEF Slot, Buckets

(* StopsAt determines the distance, hence the bucket the probe stops in. *)
LEMMA StopsAtUnique ==
  ASSUME NEW cap \in Nat, NEW es, NEW k, NEW d, StopsAt(es, cap, k, d)
  PROVE  /\ Least(Stops(es, cap, k)) = d
         /\ StopSlot(es, cap, k) = Slot(Home(k, cap), d, cap)
<1>1. Stops(es, cap, k) \subseteq Nat /\ Stops(es, cap, k) # {}
  BY DEF StopsAt, Stops, Buckets
<1>2. Least(Stops(es, cap, k)) \in Stops(es, cap, k) /\ Least(Stops(es, cap, k)) <= d
  BY <1>1, LeastIsLeast DEF StopsAt
<1>3. d \in Nat /\ Least(Stops(es, cap, k)) \in Nat
  BY <1>1, <1>2 DEF StopsAt
<1>4. ~ (Least(Stops(es, cap, k)) < d)
  BY <1>2, <1>3 DEF StopsAt, Buckets
<1> QED BY <1>2, <1>3, <1>4 DEF StopSlot

(* In an array with a hole every probe stops. *)
LEMMA ProbeStops ==
  ASSUME NEW cap \in Nat, NEW es \in Arrays(cap), NEW k \in Keys,
         NEW s \in Buckets(cap), IsHole(es[s]) \/ es[s].key = k
  PROVE  /\ Least(Stops(es, cap, k)) \in Buckets(cap)
         /\ StopsAt(es, cap, k, Least(Stops(es, cap, k)))
<1>1. Home(k, cap) \in Buckets(cap)
  BY HomeInRange DEF Buckets
<1>2. PICK d \in Buckets(cap) : Slot(Home(k, cap), d, cap) = s
  BY <1>1, SlotBijection
<1>3. Stops(es, cap, k) \subseteq Nat /\ Stops(es, cap, k) # {}
  BY <1>2 DEF Stops, Buckets
<1>4. /\ Least(Stops(es, cap, k)) \in Stops(es, cap, k)
      /\ \A e \in Stops(es, cap, k) : Least(Stops(es, cap, k)) <= e
  BY <1>3, LeastIsLeast
<1>5. Least(Stops(es, cap, k)) \in Buckets(cap)
  BY <1>4 DEF Stops
<1>6. \A e \in Buckets(Least(Stops(es, cap, k))) : e \notin Stops(es, cap, k)
  BY <1>4, <1>5 DEF Buckets
<1> QED BY <1>4, <1>5, <1>6 DEF StopsAt

----------------------------------------------------------------------------
(* Probe chains. *)

(* The bucket s lies d places after the home of k, and no bucket before it   *)
(* ends a probe for k.                                                       *)
OpenPath(es, cap, k, d, s) ==
  /\ d \in Buckets(cap)
  /\ Slot(Home(k, cap), d, cap) = s
  /\ \A e \in Buckets(d) : LET b == es[Slot(Home(k, cap), e, cap)]
                           IN  ~IsHole(b) /\ b.key # k

(* Every key sits at the end of an open path. *)
Chained(es, cap) ==
  \A s \in Buckets(cap) :
    es[s].key # NoKey => \E d \in Buckets(cap) : OpenPath(es, cap, es[s].key, d, s)

(* At the end of an open path that holds the key or a hole the probe stops. *)
LEMMA OpenPathStops ==
  ASSUME NEW cap \in Nat, NEW es, NEW k, NEW d, NEW s,
         OpenPath(es, cap, k, d, s), IsHole(es[s]) \/ es[s].key = k
  PROVE  StopsAt(es, cap, k, d) /\ StopSlot(es, cap, k) = s
<1>1. StopsAt(es, cap, k, d)
  BY DEF OpenPath, StopsAt, Stops, Buckets
<1> QED BY <1>1, StopsAtUnique DEF OpenPath

(* What findEntry returns, for an array with a hole and open paths: a bucket *)
(* at the end of an open path, with the key if the array holds the key, and  *)
(* else with none.                                                           *)
LEMMA FindEntry ==
  ASSUME NEW cap \in Nat, NEW es \in Arrays(cap), NEW k \in Keys,
         NEW hole \in Buckets(cap), IsHole(es[hole]), Chained(es, cap)
  PROVE  LET f == findEntry(es, cap, k)
         IN  /\ f \in Buckets(cap)
             /\ StopSlot(es, cap, k) \in Buckets(cap)
             /\ es[f].key = k \/ es[f].key = NoKey
             /\ \A s \in Buckets(cap) : es[s].key = k => s = f
             /\ \E d \in Buckets(cap) : OpenPath(es, cap, k, d, f)
<1> DEFINE h == Home(k, cap)
           L == Least(Stops(es, cap, k))
           stop == StopSlot(es, cap, k)
           tombs == TombstonesBefore(es, cap, k)
           f == findEntry(es, cap, k)
<1>1. L \in Buckets(cap) /\ StopsAt(es, cap, k, L) /\ stop = Slot(h, L, cap)
  BY ProbeStops DEF StopSlot
<1>2. h \in Buckets(cap) /\ stop \in Buckets(cap)
  <2>1. h \in Buckets(cap)
    BY HomeInRange DEF Buckets
  <2> QED BY <1>1, <2>1, SlotBijection
<1>3. IsHole(es[stop]) \/ es[stop].key = k
  BY <1>1 DEF StopsAt, Stops
<1>4. \A e \in Buckets(L) : LET b == es[Slot(h, e, cap)] IN ~IsHole(b) /\ b.key # k
  BY <1>1 DEF StopsAt, Stops, Buckets
<1>5. \A s \in Buckets(cap) : es[s].key = k => s = stop
  <2> SUFFICES ASSUME NEW s \in Buckets(cap), es[s].key = k
               PROVE  s = stop
    OBVIOUS
  <2>1. PICK d \in Buckets(cap) : OpenPath(es, cap, k, d, s)
    BY TableAssumption DEF Chained
  <2> QED BY <2>1, OpenPathStops
<1>6. CASE es[stop].key = k \/ tombs = {}
  <2>1. f = stop
    BY <1>6 DEF findEntry
  <2>2. OpenPath(es, cap, k, L, f)
    BY <1>1, <1>4, <2>1 DEF OpenPath
  <2> QED BY <1>1, <1>2, <1>3, <1>5, <2>1, <2>2 DEF IsHole
<1>7. CASE es[stop].key # k /\ tombs # {}
  <2>1. f = Slot(h, Least(tombs), cap)
    BY <1>7 DEF findEntry
  <2>2. tombs \subseteq Nat
    BY <1>1 DEF TombstonesBefore, Buckets
  <2>3. Least(tombs) \in tombs
    BY <1>7, <2>2, LeastIsLeast
  <2>4. Least(tombs) \in Buckets(cap) /\ Least(tombs) <= L /\ IsTombstone(es[f])
    BY <1>1, <2>1, <2>3 DEF TombstonesBefore, Buckets
  <2>5. OpenPath(es, cap, k, Least(tombs), f)
    BY <1>1, <1>4, <2>1, <2>4 DEF OpenPath, Buckets
  <2>6. f \in Buckets(cap)
    BY <1>2, <2>1, <2>4, SlotBijection
  <2>7. \A s \in Buckets(cap) : es[s].key # k
    BY <1>5, <1>7
  <2> QED BY <1>2, <2>4, <2>5, <2>6, <2>7 DEF IsTombstone
<1> QED BY <1>6, <1>7

(* A key that the array holds is the one findEntry finds. *)
LEMMA FindPresent ==
  ASSUME NEW cap \in Nat, NEW es \in Arrays(cap), NEW s \in Buckets(cap),
         es[s].key \in Keys, Chained(es, cap)
  PROVE  /\ findEntry(es, cap, es[s].key) = s
         /\ StopSlot(es, cap, es[s].key) = s
<1>1. PICK d \in Buckets(cap) : OpenPath(es, cap, es[s].key, d, s)
  BY TableAssumption DEF Chained
<1>2. StopSlot(es, cap, es[s].key) = s
  BY <1>1, OpenPathStops
<1> QED BY <1>2 DEF findEntry

(* Storing k where findEntry sent it closes no path. *)
LEMMA StoreKeepsChains ==
  ASSUME NEW cap \in Nat, NEW es \in Arrays(cap), NEW k \in Keys, NEW v \in Values,
         NEW hole \in Buckets(cap), IsHole(es[hole]), Chained(es, cap)
  PROVE  LET f == findEntry(es, cap, k)
             after == [es EXCEPT ![f] = [key |-> k, value |-> v]]
         IN  after \in Arrays(cap) /\ Chained(after, cap)
<1> DEFINE f == findEntry(es, cap, k)
           after == [es EXCEPT ![f] = [key |-> k, value |-> v]]
<1>1. /\ f \in Buckets(cap)
      /\ es[f].key = k \/ es[f].key = NoKey
      /\ \A s \in Buckets(cap) : es[s].key = k => s = f
      /\ \E d \in Buckets(cap) : OpenPath(es, cap, k, d, f)
  BY FindEntry
<1>2. after \in Arrays(cap)
  BY <1>1 DEF Arrays, Entries
<1>3. after[f] = [key |-> k, value |-> v] /\ \A s \in Buckets(cap) : s # f => after[s] = es[s]
  BY <1>1 DEF Arrays
<1> HIDE DEF f, after
<1>4. ASSUME NEW s \in Buckets(cap), after[s].key # NoKey
      PROVE  \E d \in Buckets(cap) : OpenPath(after, cap, after[s].key, d, s)
  <2>1. PICK d \in Buckets(cap) : OpenPath(es, cap, after[s].key, d, s)
    <3>1. CASE s = f
      BY <1>1, <1>3, <3>1
    <3>2. CASE s # f
      BY <1>3, <1>4, <3>2 DEF Chained
    <3> QED BY <3>1, <3>2
  <2>2. after[s].key \in Keys
    BY <1>2, <1>4 DEF Arrays, Entries
  <2>3. Home(after[s].key, cap) \in Buckets(cap)
    BY <2>2, HomeInRange DEF Buckets
  <2>4. ASSUME NEW e \in Buckets(d)
        PROVE  LET t == Slot(Home(after[s].key, cap), e, cap)
               IN  ~IsHole(after[t]) /\ after[t].key # after[s].key
    <3> DEFINE t == Slot(Home(after[s].key, cap), e, cap)
    <3>1. t \in Buckets(cap) /\ t # s
      <4>1. e \in Buckets(cap) /\ e # d
        BY DEF Buckets
      <4> QED BY <2>1, <2>3, <4>1, SlotBijection DEF OpenPath
    <3>2. ~IsHole(es[t]) /\ es[t].key # after[s].key
      BY <2>1 DEF OpenPath
    <3>3. CASE t = f
      <4>1. after[s] = es[s] /\ es[s].key # k
        BY <1>1, <1>3, <3>1, <3>3
      <4> QED BY <1>3, <3>3, <4>1, TableAssumption DEF IsHole
    <3>4. CASE t # f
      BY <1>3, <3>1, <3>2, <3>4
    <3> QED BY <3>3, <3>4
  <2>5. OpenPath(after, cap, after[s].key, d, s)
    BY <2>1, <2>4 DEF OpenPath
  <2> QED BY <2>5
<1>5. Chained(after, cap)
  BY <1>4 DEF Chained
<1> QED BY <1>2, <1>5 DEF f, after

(* Burying a key closes no path: a tombstone is passed like a key. *)
LEMMA BuryKeepsChains ==
  ASSUME NEW cap \in Nat, NEW es \in Arrays(cap), NEW f \in Buckets(cap),
         es[f].key # NoKey, Chained(es, cap)
  PROVE  LET after == [es EXCEPT ![f] = Tombstone]
         IN  after \in Arrays(cap) /\ Chained(after, cap)
<1> DEFINE after == [es EXCEPT ![f] = Tombstone]
<1>1. after \in Arrays(cap)
  BY TableAssumption DEF Arrays, Entries, Tombstone
<1>2. after[f] = Tombstone /\ \A s \in Buckets(cap) : s # f => after[s] = es[s]
  BY DEF Arrays
<1>3. Tombstone.key = NoKey /\ ~IsHole(Tombstone)
  BY TableAssumption DEF Tombstone, IsHole
<1> HIDE DEF after
<1>4. ASSUME NEW s \in Buckets(cap), after[s].key # NoKey
      PROVE  \E d \in Buckets(cap) : OpenPath(after, cap, after[s].key, d, s)
  <2>1. s # f /\ after[s] = es[s]
    BY <1>2, <1>3, <1>4
  <2>2. PICK d \in Buckets(cap) : OpenPath(es, cap, after[s].key, d, s)
    BY <1>4, <2>1 DEF Chained
  <2>3. after[s].key \in Keys
    BY <1>1, <1>4 DEF Arrays, Entries
  <2>4. Home(after[s].key, cap) \in Buckets(cap)
    BY <2>3, HomeInRange DEF Buckets
  <2>5. ASSUME NEW e \in Buckets(d)
        PROVE  LET t == Slot(Home(after[s].key, cap), e, cap)
               IN  ~IsHole(after[t]) /\ after[t].key # after[s].key
    <3> DEFINE t == Slot(Home(after[s].key, cap), e, cap)
    <3>1. t \in Buckets(cap)
      <4>1. e \in Buckets(cap)
        BY DEF Buckets
      <4> QED BY <2>4, <4>1, SlotBijection
    <3>2. ~IsHole(es[t]) /\ es[t].key # after[s].key
      BY <2>2 DEF OpenPath
    <3> QED BY <1>2, <1>3, <2>3, <3>1, <3>2, TableAssumption
  <2>6. OpenPath(after, cap, after[s].key, d, s)
    BY <2>2, <2>5 DEF OpenPath
  <2> QED BY <2>6
<1>5. Chained(after, cap)
  BY <1>4 DEF Chained
<1> QED BY <1>1, <1>5 DEF after

----------------------------------------------------------------------------
(* Counting buckets. *)

LEMMA OccupiedFinite ==
  ASSUME NEW cap \in Nat, NEW es
  PROVE  IsFiniteSet(Occupied(es, cap)) /\ Cardinality(Occupied(es, cap)) \in Nat
<1>1. IsFiniteSet(Buckets(cap))
  BY FS_Interval DEF Buckets
<1>2. Occupied(es, cap) \in SUBSET Buckets(cap)
  BY DEF Occupied
<1> QED BY <1>1, <1>2, FS_Subset, FS_CardinalityType

(* An array that is not full has a hole. *)
LEMMA HoleLeft ==
  ASSUME NEW cap \in Nat, NEW es, Cardinality(Occupied(es, cap)) < cap
  PROVE  \E s \in Buckets(cap) : IsHole(es[s])
<1>1. SUFFICES ASSUME Occupied(es, cap) = Buckets(cap) PROVE FALSE
  BY DEF Occupied
<1>2. Cardinality(Buckets(cap)) = cap
  BY FS_Interval DEF Buckets
<1> QED BY <1>1, <1>2

(* Filling a bucket adds one to the count exactly when it was a hole. *)
LEMMA OccupiedStore ==
  ASSUME NEW cap \in Nat, NEW es \in Arrays(cap), NEW f \in Buckets(cap),
         NEW e, ~IsHole(e)
  PROVE  Cardinality(Occupied([es EXCEPT ![f] = e], cap)) =
           IF IsHole(es[f]) THEN Cardinality(Occupied(es, cap)) + 1
                            ELSE Cardinality(Occupied(es, cap))
<1>1. Occupied([es EXCEPT ![f] = e], cap) = Occupied(es, cap) \cup {f}
  BY DEF Occupied, Arrays
<1>2. f \in Occupied(es, cap) <=> ~IsHole(es[f])
  BY DEF Occupied
<1> QED BY <1>1, <1>2, OccupiedFinite, FS_AddElement

LEMMA OccupiedNone ==
  ASSUME NEW cap \in Nat, NEW es, \A s \in Buckets(cap) : IsHole(es[s])
  PROVE  Cardinality(Occupied(es, cap)) = 0
<1>1. Occupied(es, cap) = {}
  BY DEF Occupied
<1> QED BY <1>1, FS_EmptySet

----------------------------------------------------------------------------
(* The inductive invariant. *)

(* The load in each phase leaves a hole, and room for the entry to store; in *)
(* a growth at most one bucket of the fresh array is filled per turn.        *)
Load ==
  /\ capacity = 0 \/ capacity >= InitialCapacity
  /\ phase \in {"idle", "undo"} => count <= (3 * capacity) \div 4
  /\ phase = "store" => ~OverLoaded(count, capacity)
  /\ phase = "rehash" => count <= cursor /\ cursor <= capacity
  /\ phase = "undo" => capacity > 0

Structure ==
  /\ CountExact
  /\ Load
  /\ Chained(entries, capacity)
  /\ phase = "rehash" => Chained(fresh, Span)
  /\ GrowthKeepsEntries

IInv == TypeOK /\ Structure

LEMMA StructureFrame ==
  ASSUME Structure, UNCHANGED <<entries, capacity, count, phase, heap>>
  PROVE  Structure'
<1>1. Span' = Span /\ Probed' = Probed
  BY DEF Span, Probed, heap
<1>2. CountExact'
  BY <1>1 DEF Structure, CountExact, heap, Occupied
<1>3. Load'
  BY DEF Structure, Load, heap
<1>4. Chained(entries, capacity)' /\ (phase = "rehash" => Chained(fresh, Span))'
  BY <1>1 DEF Structure, Chained, OpenPath, heap
<1>5. GrowthKeepsEntries'
  BY <1>1 DEF Structure, GrowthKeepsEntries, Occupied, heap
<1> QED BY <1>2, <1>3, <1>4, <1>5 DEF Structure

(* What a growth makes of the capacity. *)
LEMMA Growth ==
  ASSUME TypeOK, Load
  PROVE  /\ growCapacity(capacity) \in Nat
         /\ growCapacity(capacity) > capacity
         /\ growCapacity(capacity) >= InitialCapacity
         /\ capacity + 1 <= (3 * growCapacity(capacity)) \div 4
BY TableAssumption DEF TypeOK, Load, growCapacity

(* Outside a growth an array that is in use has a hole. *)
LEMMA IdleHole ==
  ASSUME IInv, phase # "rehash", capacity > 0
  PROVE  /\ capacity \in Nat /\ entries \in Arrays(capacity) /\ Chained(entries, capacity)
         /\ \E s \in Buckets(capacity) : IsHole(entries[s])
<1>1. capacity \in Nat /\ count \in Nat /\ entries \in Arrays(capacity)
  BY DEF IInv, TypeOK, Arrays
<1>2. count < capacity
  BY <1>1 DEF IInv, Structure, Load, OverLoaded, TypeOK
<1>3. count = Cardinality(Occupied(entries, capacity))
  BY DEF IInv, Structure, CountExact, Probed, Span
<1> QED BY <1>1, <1>2, <1>3, HoleLeft DEF IInv, Structure

(* A probe of the entries leaves a bucket of the array in the string. *)
LEMMA CachedInRange ==
  ASSUME IInv, phase # "rehash", capacity > 0, NEW k \in Keys
  PROVE  Cached(entries, capacity, k) \in [Keys -> {Invalid} \cup Buckets(capacity)]
<1>1. StopSlot(entries, capacity, k) \in Buckets(capacity)
  BY IdleHole, FindEntry
<1>2. symbol \in [Keys -> {Invalid} \cup Buckets(capacity)]
  BY DEF IInv, TypeOK, Span
<1> QED BY <1>1, <1>2 DEF Cached

LEMMA InitIInv == Init => IInv
<1> SUFFICES ASSUME Init PROVE IInv
  OBVIOUS
<1>1. Buckets(0) = {}
  BY DEF Buckets
<1>2. TypeOK
  BY <1>1, TableAssumption DEF Init, TypeOK, Span, NoCall
<1>3. CountExact
  BY <1>1, OccupiedNone DEF Init, CountExact, Span, Probed
<1>4. Load
  BY DEF Init, Load
<1>5. Chained(entries, capacity) /\ GrowthKeepsEntries
  BY <1>1 DEF Init, Chained, GrowthKeepsEntries
<1> QED BY <1>2, <1>3, <1>4, <1>5 DEF IInv, Structure, Init

----------------------------------------------------------------------------
(* One lemma per operation. *)

LEMMA GetKeeps ==
  ASSUME IInv, phase = "idle", NEW k \in Keys, tableGet(k)
  PROVE  IInv'
<1>1. Structure'
  BY StructureFrame DEF IInv, tableGet
<1>2. symbol' \in [Keys -> {Invalid} \cup Buckets(Span')]
  <2>1. CASE count = 0
    BY <2>1 DEF IInv, TypeOK, Span, tableGet
  <2>2. CASE count # 0
    <3>1. capacity > 0
      BY <2>2 DEF IInv, TypeOK, Structure, Load
    <3> QED BY <2>2, <3>1, CachedInRange DEF tableGet, Span
  <2> QED BY <2>1, <2>2
<1>3. answer' \in [said : {"found", "missing"}, value : Values \cup {Absent}]
  <2>1. CASE count = 0
    BY <2>1 DEF tableGet, Reply
  <2>2. CASE count # 0
    <3>1. capacity > 0
      BY <2>2 DEF IInv, TypeOK, Structure, Load
    <3>2. entries[findEntry(entries, capacity, k)] \in Entries
      BY <3>1, IdleHole, FindEntry DEF Arrays
    <3> QED BY <2>2, <3>2 DEF tableGet, Reply, Entries
  <2> QED BY <2>1, <2>2
<1> QED BY <1>1, <1>2, <1>3 DEF IInv, TypeOK, tableGet, Span, heap

(* Burying the key that findEntry found, in a delete or to undo a store. *)
LEMMA BuryKeeps ==
  ASSUME IInv, phase \in {"idle", "undo"}, capacity > 0, NEW k \in Keys,
         entries[findEntry(entries, capacity, k)].key # NoKey,
         entries' = Buried(findEntry(entries, capacity, k)),
         phase' = "idle", UNCHANGED <<capacity, count, heap>>
  PROVE  Structure' /\ entries' \in Arrays(capacity)
<1> DEFINE s == findEntry(entries, capacity, k)
<1>1. /\ capacity \in Nat /\ entries \in Arrays(capacity) /\ Chained(entries, capacity)
      /\ s \in Buckets(capacity)
  BY IdleHole, FindEntry
<1>2. entries' \in Arrays(capacity) /\ Chained(entries', capacity)
  BY <1>1, BuryKeepsChains DEF Buried
<1>3. Cardinality(Occupied(entries', capacity)) = Cardinality(Occupied(entries, capacity))
  <2>1. ~IsHole(Tombstone) /\ ~IsHole(entries[s])
    BY TableAssumption DEF IsHole, Tombstone
  <2> QED BY <1>1, <2>1, OccupiedStore DEF Buried
<1>4. CountExact'
  BY <1>3 DEF IInv, Structure, CountExact, Span, Probed
<1>5. Load' /\ GrowthKeepsEntries'
  BY DEF IInv, Structure, Load, GrowthKeepsEntries
<1>6. Chained(entries, capacity)'
  BY <1>2 DEF Chained, OpenPath
<1> QED BY <1>2, <1>4, <1>5, <1>6 DEF Structure

LEMMA DeleteKeeps ==
  ASSUME IInv, phase = "idle", NEW k \in Keys, tableDelete(k)
  PROVE  IInv'
<1>1. CASE UNCHANGED <<entries, symbol>>
  <2>1. Structure'
    BY <1>1, StructureFrame DEF IInv, tableDelete
  <2>2. answer' \in [said : {"refused", "missing", "deleted"}, value : Values \cup {Absent}]
    BY DEF tableDelete, Reply
  <2> QED BY <1>1, <2>1, <2>2 DEF IInv, TypeOK, tableDelete, Span, heap
<1>2. CASE type # "TABLE_MODULE" /\ count # 0
  <2>1. capacity > 0
    BY <1>2 DEF IInv, TypeOK, Structure, Load
  <2>2. symbol' \in [Keys -> {Invalid} \cup Buckets(capacity)]
    BY <1>2, <2>1, CachedInRange DEF tableDelete
  <2>3. answer' \in [said : {"missing", "deleted"}, value : Values \cup {Absent}]
    BY <1>2 DEF tableDelete, Reply
  <2>4. Structure' /\ entries' \in Arrays(capacity)
    <3>1. CASE entries[findEntry(entries, capacity, k)].key = NoKey
      BY <1>2, <3>1, StructureFrame DEF IInv, TypeOK, Arrays, tableDelete
    <3>2. CASE entries[findEntry(entries, capacity, k)].key # NoKey
      BY <1>2, <2>1, <3>2, BuryKeeps DEF tableDelete
    <3> QED BY <3>1, <3>2
  <2> QED BY <2>2, <2>3, <2>4 DEF IInv, TypeOK, tableDelete, Span, heap, Arrays
<1> QED BY <1>1, <1>2 DEF tableDelete

LEMMA SetKeeps ==
  ASSUME IInv, phase = "idle", NEW k \in Keys, NEW v \in Values,
         NEW op \in {"define", "assign"}, tableSet(op, k, v)
  PROVE  IInv'
<1>1. CASE type = "TABLE_MODULE"
  <2>1. Structure'
    BY <1>1, StructureFrame DEF IInv, tableSet
  <2> QED BY <1>1, <2>1 DEF IInv, TypeOK, tableSet, Reply, Span, heap
<1>2. CASE type # "TABLE_MODULE" /\ ~OverLoaded(count, capacity)
  <2>1. /\ phase' = "store" /\ UNCHANGED <<entries, capacity, count, heap>>
        /\ Span' = Span /\ Probed' = Probed
    BY <1>2 DEF tableSet, Span, Probed, heap
  <2>2. Load'
    BY <1>2, <2>1 DEF IInv, Structure, Load
  <2>3. CountExact' /\ GrowthKeepsEntries'
    BY <2>1 DEF IInv, Structure, CountExact, GrowthKeepsEntries, Occupied
  <2>4. Chained(entries, capacity)'
    BY <2>1 DEF IInv, Structure, Chained, OpenPath
  <2>5. TypeOK'
    BY <1>2, <2>1 DEF IInv, TypeOK, tableSet, Span, heap
  <2> QED BY <2>1, <2>2, <2>3, <2>4, <2>5 DEF IInv, Structure
<1>3. CASE type # "TABLE_MODULE" /\ OverLoaded(count, capacity)
  <2> DEFINE cap == growCapacity(capacity)
  <2>1. /\ phase' = "rehash" /\ cursor' = 0 /\ count' = 0
        /\ fresh' = [i \in Buckets(cap) |-> Hole]
        /\ UNCHANGED <<type, entries, capacity, symbol, answer>>
        /\ pending' = [op |-> op, key |-> k, value |-> v]
    BY <1>3 DEF tableSet
  <2>2. Span' = cap /\ Probed' = fresh' /\ cap \in Nat /\ cap > capacity
    BY <2>1, Growth DEF Span, Probed, IInv, Structure, growCapacity
  <2>3. \A s \in Buckets(cap) : fresh'[s] = Hole /\ IsHole(fresh'[s]) /\ Hole \in Entries
    BY <2>1, TableAssumption DEF IsHole, Hole, Entries
  <2>4. CountExact'
    BY <2>1, <2>2, <2>3, OccupiedNone DEF CountExact
  <2>5. Load'
    BY <2>1 DEF IInv, TypeOK, Structure, Load
  <2>6. Chained(entries, capacity)'
    BY <2>1 DEF IInv, Structure, Chained, OpenPath
  <2>7. Chained(fresh, Span)'
    BY <2>2, <2>3, TableAssumption DEF Chained, Hole
  <2>8. GrowthKeepsEntries'
    <3>1. Occupied(fresh', Span') = {}
      BY <2>2, <2>3 DEF Occupied
    <3>2. Buckets(cursor') = {}
      BY <2>1 DEF Buckets
    <3> QED BY <3>1, <3>2 DEF GrowthKeepsEntries
  <2>9. TypeOK'
    <3>1. symbol' \in [Keys -> {Invalid} \cup Buckets(Span')]
      <4>1. Buckets(capacity) \subseteq Buckets(cap)
        BY <2>2 DEF Buckets, IInv, TypeOK
      <4>2. symbol \in [Keys -> {Invalid} \cup Buckets(capacity)]
        BY DEF IInv, TypeOK, Span
      <4> QED BY <2>1, <2>2, <4>1, <4>2
    <3> QED BY <2>1, <2>2, <2>3, <3>1 DEF IInv, TypeOK
  <2> QED BY <2>4, <2>5, <2>6, <2>7, <2>8, <2>9 DEF IInv, Structure
<1> QED BY <1>1, <1>2, <1>3

LEMMA StoreKeeps ==
  ASSUME IInv, Store
  PROVE  IInv'
<1> DEFINE k == pending.key
           v == pending.value
           s == findEntry(entries, capacity, k)
<1>1. phase = "store" /\ k \in Keys /\ v \in Values /\ capacity \in Nat /\ count \in Nat
  BY DEF Store, IInv, TypeOK
<1>2. count + 1 <= (3 * capacity) \div 4 /\ capacity > 0
  BY <1>1 DEF IInv, Structure, Load, OverLoaded
<1>3. /\ entries \in Arrays(capacity) /\ s \in Buckets(capacity) /\ Chained(entries, capacity)
      /\ \E t \in Buckets(capacity) : IsHole(entries[t])
  BY <1>1, <1>2, IdleHole, FindEntry
<1>4. entries' = [entries EXCEPT ![s] = [key |-> k, value |-> v]]
  BY DEF Store
<1>5. entries' \in Arrays(capacity) /\ Chained(entries', capacity)
  BY <1>1, <1>3, <1>4, StoreKeepsChains
<1>6. count' = Cardinality(Occupied(entries', capacity))
  <2>1. count = Cardinality(Occupied(entries, capacity))
    BY <1>1 DEF IInv, Structure, CountExact, Probed, Span
  <2>2. ~IsHole([key |-> k, value |-> v])
    BY <1>1, TableAssumption DEF IsHole
  <2> DEFINE e == [key |-> k, value |-> v]
  <2> HIDE DEF k, v, s, e
  <2>3. Cardinality(Occupied([entries EXCEPT ![s] = e], capacity)) =
          IF IsHole(entries[s]) THEN count + 1 ELSE count
    BY <1>1, <1>3, <2>1, <2>2, OccupiedStore DEF e
  <2>4. entries' = [entries EXCEPT ![s] = e]
    BY <1>4 DEF e
  <2> QED BY <2>3, <2>4 DEF Store, CountStore, s, k
<1>7. /\ phase' = "idle" \/ phase' = "undo"
      /\ count' \in Nat /\ count' <= count + 1
      /\ UNCHANGED <<type, capacity, fresh, cursor>>
  BY <1>1 DEF Store, CountStore, heap
<1>8. CountExact' /\ Chained(entries, capacity)' /\ GrowthKeepsEntries' /\ (phase # "rehash")'
  <2>1. Span' = capacity /\ Probed' = entries'
    BY <1>7 DEF Span, Probed
  <2>2. CountExact'
    BY <1>6, <2>1 DEF CountExact
  <2>3. Chained(entries, capacity)'
    BY <1>5, <1>7 DEF Chained, OpenPath
  <2> QED BY <1>7, <2>2, <2>3 DEF GrowthKeepsEntries
<1>9. Load'
  BY <1>1, <1>2, <1>7 DEF IInv, Structure, Load
<1>10. TypeOK'
  <2>1. symbol' \in [Keys -> {Invalid} \cup Buckets(capacity)]
    BY <1>1, <1>2, CachedInRange DEF Store
  <2>2. /\ pending' = pending \/ pending' = NoCall
        /\ phase' # "idle" => pending' = pending
    BY DEF Store
  <2>3. NoCall \in [op : {"none", "define", "assign"}, key : Keys \cup {NoKey}, value : Values]
    BY TableAssumption DEF NoCall
  <2>4. answer' \in [said : {"none", "new", "old", "found", "missing", "deleted", "refused", "undefined"},
                     value : Values \cup {Absent}]
    BY DEF Store, Reply, IInv, TypeOK
  <2> QED BY <1>1, <1>5, <1>7, <2>1, <2>2, <2>3, <2>4 DEF IInv, TypeOK, Arrays, Span
<1> QED BY <1>8, <1>9, <1>10 DEF IInv, Structure

LEMMA UndoKeeps ==
  ASSUME IInv, UndoAssign
  PROVE  IInv'
<1> DEFINE s == findEntry(entries, capacity, pending.key)
<1>1. phase = "undo" /\ pending.key \in Keys /\ capacity \in Nat /\ capacity > 0
  BY DEF UndoAssign, IInv, TypeOK, Structure, Load
<1>2. Structure' /\ entries' \in Arrays(capacity)
  <2>1. CASE entries[s].key = NoKey
    <3>1. UNCHANGED <<entries, capacity, count, heap>> /\ phase' = "idle"
      BY <2>1 DEF UndoAssign
    <3>2. Span' = Span /\ Probed' = Probed
      BY <1>1, <3>1 DEF Span, Probed
    <3>3. CountExact' /\ GrowthKeepsEntries'
      BY <3>1, <3>2 DEF IInv, Structure, CountExact, GrowthKeepsEntries, Occupied
    <3>4. Chained(entries, capacity)'
      BY <3>1 DEF IInv, Structure, Chained, OpenPath
    <3>5. Load'
      BY <1>1, <3>1 DEF IInv, Structure, Load
    <3> QED BY <3>1, <3>3, <3>4, <3>5 DEF IInv, Structure, TypeOK, Arrays
  <2>2. CASE entries[s].key # NoKey
    BY <1>1, <2>2, BuryKeeps DEF UndoAssign
  <2> QED BY <2>1, <2>2
<1>3. symbol' \in [Keys -> {Invalid} \cup Buckets(capacity)]
  BY <1>1, CachedInRange DEF UndoAssign
<1>4. pending' \in [op : {"none", "define", "assign"}, key : Keys \cup {NoKey}, value : Values]
  BY TableAssumption DEF UndoAssign, NoCall
<1> QED BY <1>1, <1>2, <1>3, <1>4 DEF IInv, TypeOK, UndoAssign, Reply, Span, heap, Arrays

LEMMA MoveKeeps ==
  ASSUME IInv, MoveEntry
  PROVE  IInv'
<1> DEFINE e == entries[cursor]
           f == FreshBucket(e.key)
<1>1. /\ phase = "rehash" /\ cursor \in Nat /\ cursor < capacity /\ cursor' = cursor + 1
      /\ UNCHANGED <<type, entries, capacity, phase, pending, answer>>
      /\ capacity \in Nat /\ count \in Nat /\ count <= cursor
  BY DEF MoveEntry, IInv, TypeOK, Structure, Load
<1>2. /\ Span \in Nat /\ Span > capacity /\ Span' = Span /\ Span = growCapacity(capacity)
      /\ Probed = fresh /\ Probed' = fresh' /\ fresh \in Arrays(Span)
  BY <1>1, Growth DEF IInv, TypeOK, Structure, Span, Probed, Arrays, growCapacity
<1>3. /\ e \in Entries /\ cursor \in Buckets(capacity)
      /\ Buckets(cursor + 1) = Buckets(cursor) \cup {cursor} /\ cursor \notin Buckets(cursor)
  BY <1>1 DEF IInv, TypeOK, Buckets
<1>4. Chained(entries, capacity)' /\ Chained(entries, capacity) /\ Chained(fresh, Span)
  BY <1>1 DEF IInv, Structure, Chained, OpenPath
<1>5. CASE e.key = NoKey
  <2>1. UNCHANGED <<fresh, symbol, count>>
    BY <1>5 DEF MoveEntry
  <2>2. CountExact'
    BY <1>2, <2>1 DEF IInv, Structure, CountExact, Occupied
  <2>3. Load'
    BY <1>1, <2>1 DEF IInv, Structure, Load
  <2>4. GrowthKeepsEntries'
    <3>1. {t \in Buckets(cursor + 1) : entries[t].key # NoKey}
            = {t \in Buckets(cursor) : entries[t].key # NoKey}
      BY <1>3, <1>5
    <3> QED BY <1>1, <1>2, <2>1, <3>1 DEF IInv, Structure, GrowthKeepsEntries, Occupied
  <2>5. Chained(fresh, Span)'
    BY <1>2, <1>4, <2>1 DEF Chained, OpenPath
  <2>6. TypeOK'
    BY <1>1, <1>2, <2>1 DEF IInv, TypeOK
  <2> QED BY <1>4, <2>2, <2>3, <2>4, <2>5, <2>6 DEF IInv, Structure
<1>6. CASE e.key # NoKey
  <2>1. /\ e.key \in Keys /\ e.value \in Values /\ e = [key |-> e.key, value |-> e.value]
        /\ ~IsHole(e)
    BY <1>3, <1>6 DEF Entries, IsHole
  <2>2. /\ fresh' = [fresh EXCEPT ![f] = e] /\ count' = count + 1
        /\ symbol' = Cached(fresh, Span, e.key) /\ f = findEntry(fresh, Span, e.key)
    BY <1>2, <1>6 DEF MoveEntry, FreshBucket
  <2>3. PICK hole \in Buckets(Span) : IsHole(fresh[hole])
    <3>1. Cardinality(Occupied(fresh, Span)) = count
      BY <1>2 DEF IInv, Structure, CountExact
    <3> QED BY <1>1, <1>2, <3>1, HoleLeft
  <2>4. /\ f \in Buckets(Span) /\ StopSlot(fresh, Span, e.key) \in Buckets(Span)
        /\ fresh[f].key = e.key \/ fresh[f].key = NoKey
    BY <1>2, <1>4, <2>1, <2>2, <2>3, FindEntry
  <2>5. IsHole(fresh[f])
    <3> SUFFICES ASSUME ~IsHole(fresh[f]) PROVE FALSE
      OBVIOUS
    <3>1. fresh[f] \in {fresh[s] : s \in Occupied(fresh, Span)}
      BY <2>4 DEF Occupied
    <3>2. PICK t \in Buckets(cursor) : entries[t].key # NoKey /\ entries[t] = fresh[f]
      BY <1>1, <3>1 DEF IInv, Structure, GrowthKeepsEntries
    <3>3. entries[t].key = e.key /\ t \in Buckets(capacity) /\ t # cursor
      BY <1>1, <2>4, <3>2 DEF Buckets
    <3>4. entries \in Arrays(capacity)
      BY DEF IInv, TypeOK, Arrays
    <3>5. findEntry(entries, capacity, e.key) = t /\ findEntry(entries, capacity, e.key) = cursor
      BY <1>1, <1>3, <1>4, <2>1, <3>3, <3>4, FindPresent
    <3> QED BY <3>3, <3>5
  <2>6. fresh' \in Arrays(Span) /\ Chained(fresh', Span)
    BY <1>2, <1>4, <2>1, <2>2, <2>3, StoreKeepsChains
  <2>7. CountExact'
    <3>1. Cardinality(Occupied(fresh', Span)) = Cardinality(Occupied(fresh, Span)) + 1
      BY <1>2, <2>1, <2>2, <2>4, <2>5, OccupiedStore
    <3> QED BY <1>2, <2>2, <3>1 DEF IInv, Structure, CountExact
  <2>8. Load'
    BY <1>1, <2>2 DEF IInv, Structure, Load
  <2>9. GrowthKeepsEntries'
    <3>1. {fresh'[s] : s \in Occupied(fresh', Span)}
            = {fresh[s] : s \in Occupied(fresh, Span)} \cup {e}
      <4>1. fresh'[f] = e /\ \A s \in Buckets(Span) : s # f => fresh'[s] = fresh[s]
        BY <1>2, <2>2, <2>4 DEF Arrays
      <4>2. Occupied(fresh', Span) = Occupied(fresh, Span) \cup {f} /\ f \notin Occupied(fresh, Span)
        BY <2>1, <2>4, <2>5, <4>1 DEF Occupied
      <4>3. \A s \in Occupied(fresh, Span) : fresh'[s] = fresh[s]
        BY <4>1, <4>2 DEF Occupied
      <4> QED BY <4>1, <4>2, <4>3
    <3>2. {t \in Buckets(cursor + 1) : entries[t].key # NoKey}
            = {t \in Buckets(cursor) : entries[t].key # NoKey} \cup {cursor}
      BY <1>3, <1>6
    <3>3. {entries[s] : s \in {t \in Buckets(cursor + 1) : entries[t].key # NoKey}}
            = {entries[s] : s \in {t \in Buckets(cursor) : entries[t].key # NoKey}} \cup {e}
      BY <3>2
    <3>4. {fresh'[s] : s \in Occupied(fresh', Span)}
            = {entries[s] : s \in {t \in Buckets(cursor + 1) : entries[t].key # NoKey}}
      BY <1>1, <3>1, <3>3 DEF IInv, Structure, GrowthKeepsEntries
    <3> QED BY <1>1, <1>2, <3>4 DEF GrowthKeepsEntries
  <2>10. Chained(fresh, Span)'
    BY <1>2, <2>6 DEF Chained, OpenPath
  <2>11. TypeOK'
    <3>1. symbol' \in [Keys -> {Invalid} \cup Buckets(Span)]
      BY <2>2, <2>4 DEF IInv, TypeOK, Cached
    <3> QED BY <1>1, <1>2, <2>2, <2>6, <3>1 DEF IInv, TypeOK, Arrays
  <2> QED BY <1>4, <2>7, <2>8, <2>9, <2>10, <2>11 DEF IInv, Structure
<1> QED BY <1>5, <1>6

LEMMA InstallKeeps ==
  ASSUME IInv, InstallFresh
  PROVE  IInv'
<1>1. /\ phase = "rehash" /\ cursor = capacity /\ capacity \in Nat /\ count \in Nat
      /\ entries' = fresh /\ capacity' = growCapacity(capacity) /\ phase' = "store"
      /\ fresh' = [i \in Buckets(0) |-> Hole] /\ cursor' = 0
      /\ UNCHANGED <<type, count, symbol, pending, answer>>
  BY DEF InstallFresh, IInv, TypeOK
<1>2. /\ Span = capacity' /\ Span' = capacity' /\ Probed = fresh /\ Probed' = fresh
      /\ capacity' \in Nat /\ capacity' >= InitialCapacity
      /\ count + 1 <= (3 * capacity') \div 4
  BY <1>1, Growth DEF IInv, Structure, Load, Span, Probed, growCapacity
<1>3. CountExact' /\ GrowthKeepsEntries'
  <2>1. CountExact'
    BY <1>1, <1>2 DEF IInv, Structure, CountExact
  <2>2. phase' # "rehash"
    BY <1>1
  <2>3. GrowthKeepsEntries'
    BY <2>2 DEF GrowthKeepsEntries
  <2> QED BY <2>1, <2>3
<1>4. Load'
  BY <1>1, <1>2 DEF Load, OverLoaded
<1>5. Chained(entries, capacity)'
  BY <1>1, <1>2 DEF IInv, Structure, Chained, OpenPath
<1>6. TypeOK'
  <2>1. Buckets(0) = {}
    BY DEF Buckets
  <2> QED BY <1>1, <1>2, <2>1 DEF IInv, TypeOK
<1> QED BY <1>1, <1>3, <1>4, <1>5, <1>6 DEF IInv, Structure

(* A new value for a key where it is: what OP_SET_GLOBAL's fast path stores. *)
LEMMA Overwrite ==
  ASSUME NEW cap \in Nat, NEW es \in Arrays(cap), NEW k \in Keys, NEW v \in Values,
         NEW s \in Buckets(cap), es[s].key = k, Chained(es, cap),
         NEW hole \in Buckets(cap), IsHole(es[hole])
  PROVE  LET after == [es EXCEPT ![s] = [key |-> k, value |-> v]]
         IN  /\ after \in Arrays(cap) /\ Chained(after, cap)
             /\ Cardinality(Occupied(after, cap)) = Cardinality(Occupied(es, cap))
<1>1. findEntry(es, cap, k) = s
  BY FindPresent
<1>2. ~IsHole([key |-> k, value |-> v]) /\ ~IsHole(es[s])
  BY TableAssumption DEF IsHole
<1> QED BY <1>1, <1>2, StoreKeepsChains, OccupiedStore

LEMMA FastSetKeeps ==
  ASSUME IInv, phase = "idle", NEW k \in Keys, NEW v \in Values,
         NEW s \in Buckets(capacity), entries[s].key = k,
         entries' = [entries EXCEPT ![s] = [key |-> k, value |-> v]], Reply("old", Absent),
         UNCHANGED <<type, capacity, count, symbol, phase, pending, heap>>
  PROVE  IInv'
<1>1. /\ capacity \in Nat /\ entries \in Arrays(capacity)
      /\ entries[s] \in Entries
  BY DEF IInv, TypeOK, Span, Arrays
<1>4. PICK hole \in Buckets(capacity) : IsHole(entries[hole])
  BY <1>1, IdleHole DEF Buckets
<1>5. /\ entries' \in Arrays(capacity) /\ Chained(entries', capacity)
      /\ Cardinality(Occupied(entries', capacity)) = Cardinality(Occupied(entries, capacity))
  <2>1. Chained(entries, capacity)
    BY DEF IInv, Structure
  <2> QED BY <1>1, <1>4, <2>1, Overwrite
<1>6. CountExact'
  BY <1>5 DEF IInv, Structure, CountExact, Probed, Span
<1>7. Load' /\ GrowthKeepsEntries'
  BY DEF IInv, Structure, Load, GrowthKeepsEntries
<1>8. Chained(entries, capacity)'
  BY <1>5 DEF Chained, OpenPath
<1>9. TypeOK'
  BY <1>5 DEF IInv, TypeOK, Arrays, Reply, Span, heap
<1> QED BY <1>6, <1>7, <1>8, <1>9 DEF IInv, Structure

LEMMA SealKeeps ==
  ASSUME IInv, Seal
  PROVE  IInv'
<1>1. Structure'
  BY StructureFrame DEF IInv, Seal
<1> QED BY <1>1 DEF IInv, TypeOK, Seal, Span, heap

LEMMA NextIInv == IInv /\ [Next]_vars => IInv'
<1> SUFFICES ASSUME IInv, [Next]_vars PROVE IInv'
  OBVIOUS
<1>1. CASE MoveEntry
  BY <1>1, MoveKeeps
<1>2. CASE InstallFresh
  BY <1>2, InstallKeeps
<1>3. CASE Store
  BY <1>3, StoreKeeps
<1>4. CASE UndoAssign
  BY <1>4, UndoKeeps
<1>5. ASSUME NEW k \in Keys, NEW v \in Values, DefineGlobal(k, v) PROVE IInv'
  BY <1>5, SetKeeps DEF DefineGlobal
<1>6. ASSUME NEW k \in Keys, NEW v \in Values, SetGlobal(k, v) PROVE IInv'
  <2>1. CASE CacheHit(k)
    <3>1. /\ symbol[k] \in Buckets(capacity) /\ entries[symbol[k]].key = k
          /\ entries[symbol[k]] \in Entries
      BY <1>6, <2>1 DEF IInv, TypeOK, Span, CacheHit, SetGlobal
    <3>2. [entries[symbol[k]] EXCEPT !.value = v] = [key |-> k, value |-> v]
      BY <3>1 DEF Entries
    <3>3. entries' = [entries EXCEPT ![symbol[k]] = [key |-> k, value |-> v]]
      BY <1>6, <2>1, <3>2 DEF SetGlobal
    <3> QED BY <1>6, <2>1, <3>1, <3>3, FastSetKeeps DEF SetGlobal
  <2>2. CASE ~CacheHit(k)
    BY <1>6, <2>2, SetKeeps DEF SetGlobal
  <2> QED BY <2>1, <2>2
<1>7. ASSUME NEW k \in Keys, NEW v \in Values, SetProperty(k, v) PROVE IInv'
  BY <1>7, DeleteKeeps, SetKeeps DEF SetProperty
<1>8. ASSUME NEW k \in Keys, NEW v \in Values, NewProperty(k, v) PROVE IInv'
  BY <1>8, SetKeeps DEF NewProperty
<1>9. ASSUME NEW k \in Keys, GetGlobal(k) PROVE IInv'
  <2>1. CASE CacheHit(k)
    <3>1. Structure'
      BY <1>9, <2>1, StructureFrame DEF IInv, GetGlobal, tableGet
    <3>2. entries[symbol[k]] \in Entries
      BY <1>9, <2>1 DEF IInv, TypeOK, Span, CacheHit, GetGlobal
    <3> QED BY <1>9, <2>1, <3>1, <3>2 DEF IInv, TypeOK, GetGlobal, Reply, Entries, Span, heap
  <2>2. CASE ~CacheHit(k)
    BY <1>9, <2>2, GetKeeps DEF GetGlobal
  <2> QED BY <2>1, <2>2
<1>10. ASSUME NEW k \in Keys, GetProperty(k) PROVE IInv'
  BY <1>10, GetKeeps DEF GetProperty
<1>11. CASE Seal
  BY <1>11, SealKeeps
<1>12. CASE UNCHANGED vars
  <2>1. Structure'
    BY <1>12, StructureFrame DEF IInv, vars, heap
  <2> QED BY <1>12, <2>1 DEF IInv, TypeOK, vars, Span
<1> QED BY <1>1, <1>2, <1>3, <1>4, <1>5, <1>6, <1>7, <1>8, <1>9, <1>10, <1>11, <1>12 DEF Next

----------------------------------------------------------------------------
(* The theorems. *)

LEMMA Invariance == Spec => []IInv
BY InitIInv, NextIInv, PTL DEF Spec

(* Types hold, and a string's cached bucket never lies outside the array     *)
(* that the global instructions index with it.                               *)
THEOREM TypesCorrect == Spec => []TypeOK
<1>1. IInv => TypeOK
  BY DEF IInv
<1> QED BY <1>1, Invariance, PTL

(* The count is the number of buckets that are not holes.                    *)
THEOREM CountIsExact == Spec => []CountExact
<1>1. IInv => CountExact
  BY DEF IInv, Structure
<1> QED BY <1>1, Invariance, PTL

(* Every array that findEntry runs on has a hole, so its loop ends.          *)
THEOREM ProbesTerminate == Spec => []ProbeTerminates
<1>1. IInv => ProbeTerminates
  <2> SUFFICES ASSUME IInv, Span > 0 PROVE \E s \in Buckets(Span) : IsHole(Probed[s])
    BY DEF ProbeTerminates
  <2>1. CASE phase = "rehash"
    <3>1. Span \in Nat /\ count < Span
      BY <2>1, Growth DEF IInv, TypeOK, Structure, Load, Span
    <3> QED BY <3>1, HoleLeft DEF IInv, Structure, CountExact
  <2>2. CASE phase # "rehash"
    BY <2>2, IdleHole DEF Span, Probed
  <2> QED BY <2>1, <2>2
<1> QED BY <1>1, Invariance, PTL

(* No sequence of sets, deletes and growths hides a key from its probe or    *)
(* leaves two copies of it.                                                  *)
THEOREM ChainsAreUnbroken == Spec => []ChainsUnbroken
<1>1. IInv => ChainsUnbroken
  <2> SUFFICES ASSUME IInv, NEW s \in Buckets(Span), Probed[s].key # NoKey
               PROVE  findEntry(Probed, Span, Probed[s].key) = s
    BY DEF ChainsUnbroken
  <2>1. Span \in Nat /\ Probed \in Arrays(Span) /\ Chained(Probed, Span)
    BY Growth DEF IInv, TypeOK, Structure, Span, Probed, Arrays
  <2>2. Probed[s].key \in Keys
    BY <2>1 DEF Arrays, Entries
  <2> QED BY <2>1, <2>2, FindPresent
<1> QED BY <1>1, Invariance, PTL

(* The cached bucket that passes the fast path's check is the bucket a probe *)
(* finds.                                                                    *)
THEOREM CacheIsSound == Spec => []CacheSound
<1>1. IInv => CacheSound
  <2> SUFFICES ASSUME IInv, phase = "idle", NEW k \in Keys, CacheHit(k)
               PROVE  findEntry(entries, capacity, k) = symbol[k]
    BY DEF CacheSound
  <2>1. /\ capacity \in Nat /\ entries \in Arrays(capacity)
        /\ symbol[k] \in Buckets(capacity) /\ entries[symbol[k]].key = k
    BY DEF IInv, TypeOK, Span, CacheHit, Arrays
  <2> QED BY <2>1, FindPresent DEF IInv, Structure
<1> QED BY <1>1, Invariance, PTL

(* A growth loses and invents no entry. *)
THEOREM GrowthIsComplete == Spec => []GrowthKeepsEntries
<1>1. IInv => GrowthKeepsEntries
  BY DEF IInv, Structure
<1> QED BY <1>1, Invariance, PTL

----------------------------------------------------------------------------
(* Table implements Dict.  View is the map an array of buckets represents; a *)
(* store, a burial and a growth change it as Put, Delete and a stutter do.   *)
(* The steps of Table follow, one by one.                                    *)

View(es, cap) ==
  [k \in Keys |->
     IF \E s \in Buckets(cap) : es[s].key = k
       THEN es[CHOOSE s \in Buckets(cap) : es[s].key = k].value
       ELSE Absent]

(* Keys are where findEntry looks, so a key is in one bucket. *)
LEMMA ViewAt ==
  ASSUME NEW cap \in Nat, NEW es \in Arrays(cap), Chained(es, cap),
         NEW k \in Keys, NEW s \in Buckets(cap), es[s].key = k
  PROVE  View(es, cap)[k] = es[s].value /\ View(es, cap)[k] # Absent
<1>1. \A t \in Buckets(cap) : es[t].key = k => t = s
  BY FindPresent
<1>2. (CHOOSE t \in Buckets(cap) : es[t].key = k) = s
  BY <1>1
<1>3. View(es, cap)[k] = es[s].value
  BY <1>2 DEF View
<1>4. es[s].value \in Values
  BY DEF Arrays, Entries
<1> QED BY <1>3, <1>4, TableAssumption

LEMMA ViewNone ==
  ASSUME NEW cap, NEW es, NEW k \in Keys, \A s \in Buckets(cap) : es[s].key # k
  PROVE  View(es, cap)[k] = Absent
BY DEF View

(* Storing k where findEntry sent it binds k and nothing else. *)
LEMMA ViewStore ==
  ASSUME NEW cap \in Nat, NEW es \in Arrays(cap), NEW k \in Keys, NEW v \in Values,
         NEW hole \in Buckets(cap), IsHole(es[hole]), Chained(es, cap)
  PROVE  LET f == findEntry(es, cap, k)
             after == [es EXCEPT ![f] = [key |-> k, value |-> v]]
         IN  /\ View(after, cap) = [View(es, cap) EXCEPT ![k] = v]
             /\ es[f].key = NoKey <=> View(es, cap)[k] = Absent
<1> DEFINE f == findEntry(es, cap, k)
           after == [es EXCEPT ![f] = [key |-> k, value |-> v]]
<1>1. /\ f \in Buckets(cap)
      /\ es[f].key = k \/ es[f].key = NoKey
      /\ \A s \in Buckets(cap) : es[s].key = k => s = f
  BY FindEntry
<1>2. after \in Arrays(cap) /\ Chained(after, cap)
  BY StoreKeepsChains
<1>3. after[f] = [key |-> k, value |-> v] /\ \A s \in Buckets(cap) : s # f => after[s] = es[s]
  BY <1>1 DEF Arrays
<1> HIDE DEF f, after
<1>4. ASSUME NEW j \in Keys PROVE View(after, cap)[j] = [View(es, cap) EXCEPT ![k] = v][j]
  <2>1. CASE j = k
    <3>1. View(after, cap)[j] = v
      BY <1>1, <1>2, <1>3, <2>1, ViewAt
    <3> QED BY <2>1, <3>1 DEF View
  <2>2. CASE j # k
    <3>1. \A s \in Buckets(cap) : after[s].key = j <=> es[s].key = j
      BY <1>1, <1>3, <2>2, TableAssumption
    <3>2. View(after, cap)[j] = View(es, cap)[j]
      <4>1. CASE \E s \in Buckets(cap) : es[s].key = j
        <5>1. PICK s \in Buckets(cap) : es[s].key = j
          BY <4>1
        <5>2. s # f /\ after[s] = es[s]
          BY <1>1, <1>3, <2>2, <5>1, TableAssumption
        <5> QED BY <1>2, <5>1, <5>2, ViewAt
      <4>2. CASE ~ \E s \in Buckets(cap) : es[s].key = j
        BY <3>1, <4>2, ViewNone
      <4> QED BY <4>1, <4>2
    <3> QED BY <2>2, <3>2 DEF View
  <2> QED BY <2>1, <2>2
<1>5. View(after, cap) = [View(es, cap) EXCEPT ![k] = v]
  BY <1>4 DEF View
<1>6. es[f].key = NoKey <=> View(es, cap)[k] = Absent
  <2>1. CASE es[f].key = k
    BY <1>1, <2>1, ViewAt, TableAssumption
  <2>2. CASE es[f].key # k
    BY <1>1, <2>2, ViewNone
  <2> QED BY <2>1, <2>2
<1> QED BY <1>5, <1>6 DEF f, after

(* Burying the bucket of k unbinds k and nothing else. *)
LEMMA ViewBury ==
  ASSUME NEW cap \in Nat, NEW es \in Arrays(cap), NEW k \in Keys,
         NEW f \in Buckets(cap), es[f].key = k, Chained(es, cap)
  PROVE  View([es EXCEPT ![f] = Tombstone], cap) = [View(es, cap) EXCEPT ![k] = Absent]
<1> DEFINE after == [es EXCEPT ![f] = Tombstone]
<1>1. after \in Arrays(cap) /\ Chained(after, cap)
  BY BuryKeepsChains, TableAssumption
<1>2. /\ after[f].key = NoKey /\ \A s \in Buckets(cap) : s # f => after[s] = es[s]
      /\ \A s \in Buckets(cap) : es[s].key = k => s = f
  BY FindPresent DEF Arrays, Tombstone
<1> HIDE DEF after
<1>3. ASSUME NEW j \in Keys PROVE View(after, cap)[j] = [View(es, cap) EXCEPT ![k] = Absent][j]
  <2>1. CASE j = k
    <3>1. View(after, cap)[j] = Absent
      BY <1>2, <2>1, ViewNone, TableAssumption
    <3> QED BY <2>1, <3>1 DEF View
  <2>2. CASE j # k
    <3>1. View(after, cap)[j] = View(es, cap)[j]
      <4>1. CASE \E s \in Buckets(cap) : es[s].key = j
        <5>1. PICK s \in Buckets(cap) : es[s].key = j
          BY <4>1
        <5>2. s # f /\ after[s] = es[s]
          BY <1>2, <2>2, <5>1
        <5> QED BY <1>1, <5>1, <5>2, ViewAt
      <4>2. CASE ~ \E s \in Buckets(cap) : es[s].key = j
        <5>1. \A s \in Buckets(cap) : after[s].key # j
          BY <1>2, <4>2, TableAssumption
        <5> QED BY <4>2, <5>1, ViewNone
      <4> QED BY <4>1, <4>2
    <3> QED BY <2>2, <3>1 DEF View
  <2> QED BY <2>1, <2>2
<1>4. View(after, cap) = [View(es, cap) EXCEPT ![k] = Absent]
  BY <1>3 DEF View
<1> QED BY <1>4 DEF after

(* The fresh array of a finished growth represents the same map. *)
LEMMA ViewGrow ==
  ASSUME NEW cap \in Nat, NEW old \in Arrays(cap), Chained(old, cap),
         NEW big \in Nat, NEW new \in Arrays(big), Chained(new, big),
         {new[s] : s \in Occupied(new, big)}
           = {old[s] : s \in {t \in Buckets(cap) : old[t].key # NoKey}}
  PROVE  View(new, big) = View(old, cap)
<1>1. ASSUME NEW j \in Keys PROVE View(new, big)[j] = View(old, cap)[j]
  <2>1. CASE \E s \in Buckets(cap) : old[s].key = j
    <3>1. PICK s \in Buckets(cap) : old[s].key = j
      BY <2>1
    <3>2. old[s] \in {old[t] : t \in {u \in Buckets(cap) : old[u].key # NoKey}}
      BY <3>1, TableAssumption
    <3>3. PICK t \in Occupied(new, big) : new[t] = old[s]
      BY <3>2
    <3>4. t \in Buckets(big) /\ new[t].key = j
      BY <3>1, <3>3 DEF Occupied
    <3> QED BY <3>1, <3>3, <3>4, ViewAt
  <2>2. CASE ~ \E s \in Buckets(cap) : old[s].key = j
    <3>1. ASSUME NEW t \in Buckets(big), new[t].key = j PROVE FALSE
      <4>1. t \in Occupied(new, big)
        BY <3>1, TableAssumption DEF Occupied, IsHole
      <4>2. PICK s \in Buckets(cap) : old[s] = new[t]
        BY <4>1
      <4> QED BY <2>2, <3>1, <4>2
    <3> QED BY <2>2, <3>1, ViewNone
  <2> QED BY <2>1, <2>2
<1> QED BY <1>1 DEF View

----------------------------------------------------------------------------
(* Contents in terms of View. *)

LEMMA ContentsIsView ==
  /\ phase # "undo" => Contents = View(entries, capacity)
  /\ phase = "undo" => Contents = [View(entries, capacity) EXCEPT ![pending.key] = Absent]
<1>1. phase # "undo" => Contents = View(entries, capacity)
  BY DEF Contents, View
<1>2. phase = "undo" => Contents = [View(entries, capacity) EXCEPT ![pending.key] = Absent]
  <2> SUFFICES ASSUME phase = "undo"
               PROVE  Contents = [View(entries, capacity) EXCEPT ![pending.key] = Absent]
    OBVIOUS
  <2> QED BY DEF Contents, View
<1> QED BY <1>1, <1>2

LEMMA ContentsFrame ==
  ASSUME UNCHANGED <<entries, capacity>>, phase # "undo", phase' # "undo"
  PROVE  Contents' = Contents
<1>1. Contents' = View(entries, capacity)'
  BY DEF Contents, View
<1> QED BY <1>1, ContentsIsView DEF View

----------------------------------------------------------------------------
(* No call of tableSet runs on a sealed table. *)

WritesUnsealed == phase # "idle" => type # "TABLE_MODULE"

LEMMA WritesUnsealedInductive ==
  /\ Init => WritesUnsealed
  /\ WritesUnsealed /\ [Next]_vars => WritesUnsealed'
<1>1. Init => WritesUnsealed
  BY DEF Init, WritesUnsealed
<1>2. WritesUnsealed /\ [Next]_vars => WritesUnsealed'
  BY DEF WritesUnsealed, Next, vars, heap, MoveEntry, InstallFresh, Store, UndoAssign,
         DefineGlobal, SetGlobal, SetProperty, NewProperty, GetGlobal, GetProperty, Seal,
         tableGet, tableSet, tableDelete
<1> QED BY <1>1, <1>2

----------------------------------------------------------------------------
(* The steps. *)

(* A table in use: the facts the steps share. *)
LEMMA InUse ==
  ASSUME IInv, phase # "rehash", NEW k \in Keys
  PROVE  /\ capacity \in Nat /\ entries \in Arrays(capacity) /\ Chained(entries, capacity)
         /\ count = 0 => \A s \in Buckets(capacity) : entries[s].key # k
         /\ count # 0 => capacity > 0
<1>1. capacity \in Nat /\ entries \in Arrays(capacity) /\ Chained(entries, capacity) /\ count \in Nat
  BY DEF IInv, TypeOK, Structure, Arrays
<1>2. ASSUME count = 0, NEW s \in Buckets(capacity), entries[s].key = k PROVE FALSE
  <2>1. s \in Occupied(entries, capacity)
    BY <1>2, TableAssumption DEF Occupied, IsHole
  <2>2. Cardinality(Occupied(entries, capacity)) = 0
    BY <1>2 DEF IInv, Structure, CountExact, Probed, Span
  <2> QED BY <1>1, <2>1, <2>2, OccupiedFinite, FS_EmptySet
<1>3. count # 0 => capacity > 0
  <2> SUFFICES ASSUME count # 0, ~(capacity > 0) PROVE FALSE
    OBVIOUS
  <2>1. capacity = 0 /\ phase # "undo"
    BY <1>1 DEF IInv, Structure, Load
  <2>2. phase \in {"idle", "store"}
    BY <2>1 DEF IInv, TypeOK
  <2> QED BY <1>1, <2>1, <2>2 DEF IInv, Structure, Load, OverLoaded
<1> QED BY <1>1, <1>2, <1>3

LEMMA GetRefines ==
  ASSUME IInv, phase = "idle", NEW k \in Keys, tableGet(k)
  PROVE  D!Get(k)
<1>1. Contents' = Contents /\ Contents = View(entries, capacity) /\ type' = type
  BY ContentsFrame, ContentsIsView DEF tableGet
<1>2. answer' = [said |-> IF View(entries, capacity)[k] # Absent THEN "found" ELSE "missing",
                 value |-> View(entries, capacity)[k]]
  <2>1. CASE count = 0
    BY <2>1, InUse, ViewNone DEF tableGet, Reply
  <2>2. CASE count # 0
    <3> DEFINE f == findEntry(entries, capacity, k)
    <3>1. /\ capacity \in Nat /\ entries \in Arrays(capacity) /\ Chained(entries, capacity)
          /\ f \in Buckets(capacity)
          /\ entries[f].key = k \/ entries[f].key = NoKey
          /\ \A s \in Buckets(capacity) : entries[s].key = k => s = f
      BY <2>2, InUse, IdleHole, FindEntry
    <3>2. CASE entries[f].key = k
      BY <2>2, <3>1, <3>2, ViewAt, TableAssumption DEF tableGet, Reply
    <3>3. CASE entries[f].key = NoKey
      BY <2>2, <3>1, <3>3, ViewNone, TableAssumption DEF tableGet, Reply
    <3> QED BY <3>1, <3>2, <3>3
  <2> QED BY <2>1, <2>2
<1> QED BY <1>1, <1>2 DEF D!Get, D!Reply, D!Bound

LEMMA DeleteRefines ==
  ASSUME IInv, phase = "idle", NEW k \in Keys, tableDelete(k)
  PROVE  D!Delete(k) \/ D!Refuse
<1>0. Contents = View(entries, capacity) /\ type' = type /\ phase' = phase /\ capacity' = capacity
  BY ContentsIsView DEF tableDelete
<1>1. CASE type = "TABLE_MODULE"
  <2>1. Contents' = Contents
    BY <1>0, <1>1, ContentsFrame DEF tableDelete
  <2> QED BY <1>0, <1>1, <2>1 DEF tableDelete, Reply, D!Refuse, D!Reply
<1>2. CASE type # "TABLE_MODULE" /\ count = 0
  <2>1. View(entries, capacity)[k] = Absent
    BY <1>2, InUse, ViewNone
  <2>2. Contents' = Contents
    BY <1>0, <1>2, ContentsFrame DEF tableDelete
  <2>3. Contents = [Contents EXCEPT ![k] = Absent]
    BY <1>0, <2>1 DEF View
  <2> QED BY <1>0, <1>2, <2>1, <2>2, <2>3 DEF tableDelete, Reply, D!Delete, D!Reply, D!Bound
<1>3. CASE type # "TABLE_MODULE" /\ count # 0
  <2> DEFINE f == findEntry(entries, capacity, k)
  <2>1. /\ capacity \in Nat /\ entries \in Arrays(capacity) /\ Chained(entries, capacity)
        /\ f \in Buckets(capacity)
        /\ entries[f].key = k \/ entries[f].key = NoKey
        /\ \A s \in Buckets(capacity) : entries[s].key = k => s = f
    BY <1>3, InUse, IdleHole, FindEntry
  <2>2. CASE entries[f].key = NoKey
    <3>1. View(entries, capacity)[k] = Absent
      BY <2>1, <2>2, ViewNone, TableAssumption
    <3>2. Contents' = Contents
      BY <1>0, <1>3, <2>2, ContentsFrame DEF tableDelete
    <3>3. Contents = [Contents EXCEPT ![k] = Absent]
      BY <1>0, <3>1 DEF View
    <3> QED BY <1>0, <1>3, <2>2, <3>1, <3>2, <3>3 DEF tableDelete, Reply, D!Delete, D!Reply, D!Bound
  <2>3. CASE entries[f].key = k
    <3>1. View(entries, capacity)[k] # Absent /\ entries[f].key # NoKey
      BY <2>1, <2>3, ViewAt, TableAssumption
    <3>2. entries' = [entries EXCEPT ![f] = Tombstone]
      BY <1>3, <3>1 DEF tableDelete, Buried
    <3> HIDE DEF f
    <3>3. View(entries', capacity) = [View(entries, capacity) EXCEPT ![k] = Absent]
      <4>1. View([entries EXCEPT ![f] = Tombstone], capacity)
              = [View(entries, capacity) EXCEPT ![k] = Absent]
        BY <2>1, <2>3, ViewBury
      <4> QED BY <3>2, <4>1
    <3>4. Contents' = View(entries', capacity)
      BY <1>0 DEF Contents, View
    <3>5. Contents' = [Contents EXCEPT ![k] = Absent] /\ Contents[k] # Absent
      BY <1>0, <3>1, <3>3, <3>4
    <3>6. Reply("deleted", Absent)
      BY <1>3, <3>1 DEF tableDelete, f
    <3> QED BY <1>0, <1>3, <3>5, <3>6 DEF Reply, D!Delete, D!Reply, D!Bound
  <2> QED BY <2>1, <2>2, <2>3
<1> QED BY <1>1, <1>2, <1>3

LEMMA SetRefines ==
  ASSUME phase = "idle", NEW k \in Keys, NEW v, NEW op, tableSet(op, k, v)
  PROVE  D!Refuse \/ UNCHANGED D!vars
<1>1. phase' # "undo" /\ UNCHANGED <<entries, capacity, type>>
  BY DEF tableSet
<1>2. Contents' = Contents
  BY <1>1, ContentsFrame
<1> QED BY <1>1, <1>2 DEF tableSet, Reply, D!Refuse, D!Reply, D!vars

LEMMA StoreRefines ==
  ASSUME IInv, WritesUnsealed, Store
  PROVE  \/ \E k \in Keys, v \in Values : D!Put(k, v) \/ D!Assign(k, v)
         \/ UNCHANGED D!vars
<1> DEFINE k == pending.key
           v == pending.value
           f == findEntry(entries, capacity, k)
           seen == View(entries, capacity)
<1>1. /\ phase = "store" /\ k \in Keys /\ v \in Values /\ type # "TABLE_MODULE"
      /\ UNCHANGED <<type, capacity>>
  BY DEF Store, IInv, TypeOK, WritesUnsealed
<1>2. /\ capacity \in Nat /\ entries \in Arrays(capacity) /\ Chained(entries, capacity)
      /\ \E hole \in Buckets(capacity) : IsHole(entries[hole])
  <2>1. capacity \in Nat /\ count \in Nat
    BY DEF IInv, TypeOK
  <2>2. capacity > 0
    BY <1>1, <2>1 DEF IInv, Structure, Load, OverLoaded
  <2> QED BY <1>1, <2>2, IdleHole
<1>3. View([entries EXCEPT ![f] = [key |-> k, value |-> v]], capacity) = [seen EXCEPT ![k] = v]
      /\ (entries[f].key = NoKey <=> seen[k] = Absent)
  BY <1>1, <1>2, ViewStore
<1>4. entries' = [entries EXCEPT ![f] = [key |-> k, value |-> v]]
  BY DEF Store
<1>5. View(entries', capacity) = [seen EXCEPT ![k] = v]
  BY <1>3, <1>4
<1>6. Contents = seen
  BY <1>1, ContentsIsView
<1>7. CASE entries[f].key = NoKey /\ pending.op = "assign"
  <2>1. phase' = "undo" /\ pending' = pending /\ answer' = answer
    BY <1>7 DEF Store
  <2>2. Contents' = [View(entries', capacity) EXCEPT ![k] = Absent]
    BY <1>1, <2>1 DEF Contents, View
  <2>3. Contents' = Contents
    BY <1>3, <1>5, <1>6, <1>7, <2>2 DEF View
  <2> QED BY <1>1, <2>1, <2>3 DEF D!vars
<1>8. CASE ~(entries[f].key = NoKey /\ pending.op = "assign")
  <2>1. phase' = "idle" /\ Reply(IF entries[f].key = NoKey THEN "new" ELSE "old", Absent)
    BY <1>8 DEF Store
  <2>2. Contents' = View(entries', capacity)
    BY <1>1, <2>1 DEF Contents, View
  <2>3. Contents' = [Contents EXCEPT ![k] = v]
    BY <1>5, <1>6, <2>2
  <2>4. D!Put(k, v)
    BY <1>1, <1>3, <1>6, <2>1, <2>3 DEF D!Put, D!Reply, D!Bound, Reply
  <2> QED BY <1>1, <2>4
<1> QED BY <1>7, <1>8

LEMMA UndoRefines ==
  ASSUME IInv, WritesUnsealed, UndoAssign
  PROVE  \E k \in Keys : D!AssignUndefined(k)
<1> DEFINE k == pending.key
           f == findEntry(entries, capacity, k)
           seen == View(entries, capacity)
<1>1. /\ phase = "undo" /\ k \in Keys /\ type # "TABLE_MODULE" /\ capacity > 0
      /\ phase' = "idle" /\ UNCHANGED <<type, capacity>>
  BY DEF UndoAssign, IInv, TypeOK, WritesUnsealed, Structure, Load
<1>2. Contents = [seen EXCEPT ![k] = Absent]
  BY <1>1, ContentsIsView
<1>3. /\ capacity \in Nat /\ entries \in Arrays(capacity) /\ Chained(entries, capacity)
      /\ f \in Buckets(capacity)
      /\ entries[f].key = k \/ entries[f].key = NoKey
      /\ \A s \in Buckets(capacity) : entries[s].key = k => s = f
  BY <1>1, IdleHole, FindEntry
<1>4. Contents' = View(entries', capacity)
  BY <1>1 DEF Contents, View
<1>5. View(entries', capacity) = [seen EXCEPT ![k] = Absent]
  <2>1. CASE entries[f].key = NoKey
    <3>1. seen[k] = Absent
      BY <1>1, <1>3, <2>1, ViewNone, TableAssumption
    <3>2. entries' = entries
      BY <2>1 DEF UndoAssign
    <3> QED BY <1>1, <3>1, <3>2 DEF View
  <2>2. CASE entries[f].key = k
    <3>1. entries' = [entries EXCEPT ![f] = Tombstone]
      BY <1>1, <2>2, TableAssumption DEF UndoAssign, Buried
    <3> HIDE DEF f, k
    <3>2. View([entries EXCEPT ![f] = Tombstone], capacity) = [seen EXCEPT ![k] = Absent]
      BY <1>1, <1>3, <2>2, ViewBury
    <3> QED BY <3>1, <3>2
  <2> QED BY <1>3, <2>1, <2>2
<1>6. Contents[k] = Absent /\ Contents' = Contents
  BY <1>1, <1>2, <1>4, <1>5 DEF View
<1> QED BY <1>1, <1>6 DEF UndoAssign, Reply, D!AssignUndefined, D!Reply, D!Bound

LEMMA InstallRefines ==
  ASSUME IInv, InstallFresh
  PROVE  UNCHANGED D!vars
<1>1. /\ phase = "rehash" /\ phase' = "store" /\ entries' = fresh /\ capacity' = Span
      /\ cursor = capacity /\ UNCHANGED <<type, answer>>
  BY DEF InstallFresh, Span
<1>2. /\ capacity \in Nat /\ entries \in Arrays(capacity) /\ Chained(entries, capacity)
      /\ Span \in Nat /\ fresh \in Arrays(Span) /\ Chained(fresh, Span)
  BY <1>1, Growth DEF IInv, TypeOK, Structure, Arrays, Span, growCapacity
<1>3. View(fresh, Span) = View(entries, capacity)
  BY <1>1, <1>2, ViewGrow DEF IInv, Structure, GrowthKeepsEntries
<1>4. Contents' = View(entries', capacity') /\ Contents = View(entries, capacity)
  BY <1>1 DEF Contents, View
<1> QED BY <1>1, <1>3, <1>4 DEF D!vars

LEMMA FastPathRefines ==
  ASSUME IInv, phase = "idle", type # "TABLE_MODULE", NEW k \in Keys, CacheHit(k)
  PROVE  /\ GetGlobal(k) => D!Get(k)
         /\ \A v \in Values : SetGlobal(k, v) => D!Assign(k, v)
<1> DEFINE s == symbol[k]
           seen == View(entries, capacity)
<1>1. /\ capacity \in Nat /\ entries \in Arrays(capacity) /\ Chained(entries, capacity)
      /\ s \in Buckets(capacity) /\ entries[s].key = k
  BY DEF IInv, TypeOK, Structure, Arrays, Span, CacheHit
<1>2. Contents = seen /\ seen[k] = entries[s].value /\ seen[k] # Absent
  BY <1>1, ContentsIsView, ViewAt
<1>3. GetGlobal(k) => D!Get(k)
  <2> SUFFICES ASSUME GetGlobal(k) PROVE D!Get(k)
    OBVIOUS
  <2>1. /\ answer' = [said |-> "found", value |-> entries[s].value]
        /\ UNCHANGED <<type, entries, capacity, phase>>
    BY DEF GetGlobal, Reply
  <2>2. Contents' = Contents
    BY <2>1, ContentsFrame
  <2> QED BY <1>2, <2>1, <2>2 DEF D!Get, D!Reply, D!Bound
<1>4. ASSUME NEW v \in Values, SetGlobal(k, v) PROVE D!Assign(k, v)
  <2>1. /\ entries' = [entries EXCEPT ![s].value = v] /\ Reply("old", Absent)
        /\ UNCHANGED <<type, capacity, phase>>
    BY <1>4 DEF SetGlobal
  <2>2. [entries[s] EXCEPT !.value = v] = [key |-> k, value |-> v]
    <3>1. entries[s] \in Entries
      BY <1>1 DEF Arrays
    <3> QED BY <1>1, <3>1 DEF Entries
  <2>3. entries' = [entries EXCEPT ![s] = [key |-> k, value |-> v]]
    BY <2>1, <2>2
  <2>4. findEntry(entries, capacity, k) = s
    BY <1>1, FindPresent
  <2>5. PICK hole \in Buckets(capacity) : IsHole(entries[hole])
    BY <1>1, IdleHole DEF Buckets
  <2>6. View(entries', capacity) = [seen EXCEPT ![k] = v]
    <3> HIDE DEF s
    <3>1. View([entries EXCEPT ![s] = [key |-> k, value |-> v]], capacity) = [seen EXCEPT ![k] = v]
      BY <1>1, <2>4, <2>5, ViewStore
    <3> QED BY <2>3, <3>1
  <2>7. Contents' = View(entries', capacity)
    BY <2>1 DEF Contents, View
  <2> QED BY <1>2, <2>1, <2>6, <2>7 DEF D!Assign, D!Reply, D!Bound, Reply
<1> QED BY <1>3, <1>4

----------------------------------------------------------------------------
(* Whatever the hash function, the initial capacity and the sequence of      *)
(* instructions, the table behaves as a dictionary: growth, tombstones,      *)
(* cached buckets and the undone store of OP_SET_GLOBAL cannot be seen.      *)
THEOREM TableImplementsDict == Spec => DictSpec
<1>1. Init => D!Init
  <2> SUFFICES ASSUME Init PROVE D!Init
    OBVIOUS
  <2>1. \A k \in Keys : ~ \E s \in Buckets(capacity) : entries[s].key = k
    BY DEF Init, Buckets
  <2> QED BY <2>1 DEF Init, Contents, D!Init
<1>2. IInv /\ WritesUnsealed /\ [Next]_vars => [D!Next]_(D!vars)
  <2> SUFFICES ASSUME IInv, WritesUnsealed, [Next]_vars PROVE D!Next \/ UNCHANGED D!vars
    OBVIOUS
  <2>1. CASE MoveEntry
    BY <2>1, ContentsFrame DEF MoveEntry, D!vars
  <2>2. CASE InstallFresh
    BY <2>2, InstallRefines
  <2>3. CASE Store
    BY <2>3, StoreRefines DEF D!Next
  <2>4. CASE UndoAssign
    BY <2>4, UndoRefines DEF D!Next
  <2>5. ASSUME NEW k \in Keys, NEW v \in Values, DefineGlobal(k, v)
        PROVE  D!Next \/ UNCHANGED D!vars
    BY <2>5, SetRefines DEF DefineGlobal, D!Next
  <2>6. ASSUME NEW k \in Keys, NEW v \in Values, SetGlobal(k, v)
        PROVE  D!Next \/ UNCHANGED D!vars
    <3>1. CASE CacheHit(k)
      BY <2>6, <3>1, FastPathRefines DEF SetGlobal, D!Next
    <3>2. CASE ~CacheHit(k)
      BY <2>6, <3>2, SetRefines DEF SetGlobal, D!Next
    <3> QED BY <3>1, <3>2
  <2>7. ASSUME NEW k \in Keys, NEW v \in Values, SetProperty(k, v)
        PROVE  D!Next \/ UNCHANGED D!vars
    BY <2>7, DeleteRefines, SetRefines DEF SetProperty, D!Next
  <2>8. ASSUME NEW k \in Keys, NEW v \in Values, NewProperty(k, v)
        PROVE  D!Next \/ UNCHANGED D!vars
    BY <2>8, SetRefines DEF NewProperty, D!Next
  <2>9. ASSUME NEW k \in Keys, GetGlobal(k) PROVE D!Next
    <3>1. CASE CacheHit(k)
      BY <2>9, <3>1, FastPathRefines DEF GetGlobal, D!Next
    <3>2. CASE ~CacheHit(k)
      BY <2>9, <3>2, GetRefines DEF GetGlobal, D!Next
    <3> QED BY <3>1, <3>2
  <2>10. ASSUME NEW k \in Keys, GetProperty(k) PROVE D!Next
    BY <2>10, GetRefines DEF GetProperty, D!Next
  <2>11. CASE Seal
    <3>1. Contents' = Contents
      BY <2>11, ContentsFrame DEF Seal
    <3> QED BY <2>11, <3>1 DEF Seal, D!Seal, D!Next
  <2>12. CASE UNCHANGED vars
    BY <2>12 DEF vars, Contents, D!vars
  <2> QED BY <2>1, <2>2, <2>3, <2>4, <2>5, <2>6, <2>7, <2>8, <2>9, <2>10, <2>11, <2>12 DEF Next
<1>3. Spec => []WritesUnsealed
  BY WritesUnsealedInductive, PTL DEF Spec
<1> QED BY <1>1, <1>2, <1>3, Invariance, PTL DEF Spec, D!Spec, DictSpec
=============================================================================
