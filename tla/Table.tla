------------------------------- MODULE Table --------------------------------
(***************************************************************************)
(* The hash table of FliteLang (src/table.c) and the instructions of the   *)
(* virtual machine that use it (src/vm.c): open addressing with linear     *)
(* probing, tombstones, growth by re-insertion into a fresh array, and the *)
(* `symbol` a string caches: the bucket where the table of globals last    *)
(* saw it, which OP_GET_GLOBAL and OP_SET_GLOBAL try before they probe.    *)
(*                                                                         *)
(* A table has one of three types.  TABLE_GLOBAL is vm.globals.fields,     *)
(* TABLE_NORMAL the fields of an instance, TABLE_MODULE those of a built-  *)
(* in module after importBuiltins has filled and sealed it.                *)
(*                                                                         *)
(* A call of tableSet is several steps: the growth loop moves one bucket   *)
(* per step, then the entry is stored, and OP_SET_GLOBAL takes back the    *)
(* entry it created for an undefined name.                                 *)
(***************************************************************************)
EXTENDS Integers, FiniteSets

CONSTANTS Keys,             \* interned strings (ObjString*)
          Hash,             \* key->hash
          Values,           \* values a program stores
          Nil, True,        \* two of them: NIL_VAL and BOOL_VAL(true)
          NoKey,            \* the NULL key of holes and tombstones
          Absent,           \* the mark of an unbound key in Dict
          Invalid,          \* INVALID_OBJ_STRING_SYMBOL
          InitialCapacity,  \* 16 in the code, a power of two
          MaxCapacity       \* bound of the model: no growth beyond it

ASSUME TableAssumption ==
  /\ Hash \in [Keys -> Nat]
  /\ Nil \in Values /\ True \in Values /\ Nil # True
  /\ NoKey \notin Keys
  /\ Absent \notin Values
  /\ Invalid \notin Nat
  /\ InitialCapacity \in Nat /\ InitialCapacity >= 2
  /\ MaxCapacity \in Nat

VARIABLES
  type,       \* TABLE_NORMAL, TABLE_GLOBAL or TABLE_MODULE
  entries,    \* the bucket array
  capacity,   \* its length
  count,      \* buckets that are not holes (keys and tombstones)
  symbol,     \* symbol[k]: the bucket cached in string k
  phase,      \* where the running call of tableSet is
  pending,    \* the operation, key and value of that call
  fresh,      \* the array adjustCapacity fills
  cursor,     \* the index of its loop
  answer      \* what the last completed operation returned

vars == <<type, entries, capacity, count, symbol, phase, pending, fresh, cursor, answer>>
heap == <<fresh, cursor>>

----------------------------------------------------------------------------
Hole == [key |-> NoKey, value |-> Nil]
Tombstone == [key |-> NoKey, value |-> True]
IsHole(e) == e.key = NoKey /\ e.value = Nil
IsTombstone(e) == e.key = NoKey /\ e.value # Nil
Entries == [key : Keys \cup {NoKey}, value : Values]

Buckets(cap) == 0 .. cap - 1
Home(k, cap) == Hash[k] % cap
(* The bucket d places after home, wrapping: (home + d) & (cap - 1). *)
Slot(home, d, cap) == IF home + d < cap THEN home + d ELSE home + d - cap
Least(S) == CHOOSE d \in S : \A e \in S : d <= e

(* Distances from home at which the probe for k can stop. *)
Stops(es, cap, k) ==
  {d \in Buckets(cap) : LET e == es[Slot(Home(k, cap), d, cap)]
                        IN  IsHole(e) \/ e.key = k}

(* Where it stops: at k, or at the hole that proves k is not there. *)
StopSlot(es, cap, k) == Slot(Home(k, cap), Least(Stops(es, cap, k)), cap)

TombstonesBefore(es, cap, k) ==
  {d \in 0 .. Least(Stops(es, cap, k)) : IsTombstone(es[Slot(Home(k, cap), d, cap)])}

(* A mutant for the checks: the first tombstone wins even when k lies behind it. *)
findEntryTombstoneFirst(es, cap, k) ==
  LET tombs == TombstonesBefore(es, cap, k)
  IN  IF tombs = {} THEN StopSlot(es, cap, k) ELSE Slot(Home(k, cap), Least(tombs), cap)

(* The entry for k: its own, else the first tombstone passed, else the hole. *)
findEntry(es, cap, k) ==
  LET stop == StopSlot(es, cap, k)
      tombs == TombstonesBefore(es, cap, k)
  IN  IF es[stop].key = k \/ tombs = {}
        THEN stop
        ELSE Slot(Home(k, cap), Least(tombs), cap)

(* A mutant: the hash is cached before it is masked. *)
CachedHash(es, cap, k) == [symbol EXCEPT ![k] = Hash[k]]

(* Every probe of the table of globals leaves its stop in the string. *)
Cached(es, cap, k) ==
  IF type = "TABLE_GLOBAL"
    THEN [symbol EXCEPT ![k] = StopSlot(es, cap, k)]
    ELSE symbol

(* The locals of tableSet while none runs. *)
NoCall == [op |-> "none", key |-> NoKey, value |-> Nil]

growCapacity(cap) == IF cap < InitialCapacity THEN InitialCapacity ELSE 2 * cap

(* A mutant: the table may fill up. *)
OverFull(n, cap) == n + 1 > cap

OverLoaded(n, cap) == n + 1 > (3 * cap) \div 4

----------------------------------------------------------------------------
Init ==
  /\ type \in {"TABLE_NORMAL", "TABLE_GLOBAL"}
  /\ entries = [i \in Buckets(0) |-> Hole]
  /\ capacity = 0
  /\ count = 0
  /\ symbol = [k \in Keys |-> Invalid]
  /\ phase = "idle"
  /\ pending = NoCall
  /\ fresh = [i \in Buckets(0) |-> Hole]
  /\ cursor = 0
  /\ answer = [said |-> "none", value |-> Absent]

Reply(said, value) == answer' = [said |-> said, value |-> value]

(* tableGet, from its entry to its return. *)
tableGet(k) ==
  /\ \/ /\ count = 0
        /\ Reply("missing", Absent)
        /\ UNCHANGED symbol
     \/ /\ count # 0
        /\ symbol' = Cached(entries, capacity, k)
        /\ LET e == entries[findEntry(entries, capacity, k)]
           IN  IF e.key = NoKey THEN Reply("missing", Absent)
                                ELSE Reply("found", e.value)
  /\ UNCHANGED <<type, entries, capacity, count, phase, pending, heap>>

(* tableSet up to its choice between growing and storing. *)
tableSet(op, k, v) ==
  \/ /\ type = "TABLE_MODULE"
     /\ Reply("refused", Absent)
     /\ UNCHANGED <<type, entries, capacity, count, symbol, phase, pending, heap>>
  \/ /\ type # "TABLE_MODULE"
     /\ ~OverLoaded(count, capacity)
     /\ phase' = "store"
     /\ pending' = [op |-> op, key |-> k, value |-> v]
     /\ UNCHANGED <<type, entries, capacity, count, symbol, heap, answer>>
  \/ /\ type # "TABLE_MODULE"
     /\ OverLoaded(count, capacity)
     /\ growCapacity(capacity) <= MaxCapacity
     /\ phase' = "rehash"
     /\ pending' = [op |-> op, key |-> k, value |-> v]
     /\ fresh' = [i \in Buckets(growCapacity(capacity)) |-> Hole]
     /\ cursor' = 0
     /\ count' = 0
     /\ UNCHANGED <<type, entries, capacity, symbol, answer>>

(* A mutant: a delete leaves a hole. *)
Emptied(s) == [entries EXCEPT ![s] = Hole]

(* The effect of tableDelete on the array, for a key whose bucket is s. *)
Buried(s) == [entries EXCEPT ![s] = Tombstone]

tableDelete(k) ==
  /\ \/ /\ type = "TABLE_MODULE"
        /\ Reply("refused", Absent)
        /\ UNCHANGED <<entries, symbol>>
     \/ /\ type # "TABLE_MODULE"
        /\ count = 0
        /\ Reply("missing", Absent)
        /\ UNCHANGED <<entries, symbol>>
     \/ /\ type # "TABLE_MODULE"
        /\ count # 0
        /\ symbol' = Cached(entries, capacity, k)
        /\ LET s == findEntry(entries, capacity, k)
           IN  IF entries[s].key = NoKey
                 THEN Reply("missing", Absent) /\ UNCHANGED entries
                 ELSE Reply("deleted", Absent) /\ entries' = Buried(s)
  /\ UNCHANGED <<type, capacity, count, phase, pending, heap>>

----------------------------------------------------------------------------
(* Inside tableSet. *)

(* A mutant: entries move without probing for a free bucket. *)
FreshHome(k) == Home(k, growCapacity(capacity))

FreshBucket(k) == findEntry(fresh, growCapacity(capacity), k)

(* One turn of the loop of adjustCapacity. *)
MoveEntry ==
  /\ phase = "rehash"
  /\ cursor < capacity
  /\ cursor' = cursor + 1
  /\ LET e == entries[cursor]
     IN  IF e.key = NoKey
           THEN UNCHANGED <<fresh, symbol, count>>
           ELSE /\ fresh' = [fresh EXCEPT ![FreshBucket(e.key)] = e]
                /\ symbol' = Cached(fresh, growCapacity(capacity), e.key)
                /\ count' = count + 1
  /\ UNCHANGED <<type, entries, capacity, phase, pending, answer>>

(* The fresh array replaces the old one. *)
InstallFresh ==
  /\ phase = "rehash"
  /\ cursor = capacity
  /\ entries' = fresh
  /\ capacity' = growCapacity(capacity)
  /\ phase' = "store"
  /\ fresh' = [i \in Buckets(0) |-> Hole]
  /\ cursor' = 0
  /\ UNCHANGED <<type, count, symbol, pending, answer>>

(* A mutant: a reused tombstone is counted again. *)
CountNewKey(s) == IF entries[s].key = NoKey THEN count + 1 ELSE count

(* Only a key stored into a hole is counted. *)
CountStore(s) == IF IsHole(entries[s]) THEN count + 1 ELSE count

(* The rest of tableSet: find the entry, count it if it was a hole, fill it. *)
(* For an assignment that created its key the caller goes on to undo it.     *)
Store ==
  /\ phase = "store"
  /\ LET k == pending.key
         s == findEntry(entries, capacity, k)
         isNewKey == entries[s].key = NoKey
         undo == isNewKey /\ pending.op = "assign"
     IN  /\ symbol' = Cached(entries, capacity, k)
         /\ count' = CountStore(s)
         /\ entries' = [entries EXCEPT ![s] = [key |-> k, value |-> pending.value]]
         /\ IF undo
              THEN phase' = "undo" /\ UNCHANGED <<pending, answer>>
              ELSE /\ phase' = "idle"
                   /\ pending' = NoCall
                   /\ Reply(IF isNewKey THEN "new" ELSE "old", Absent)
  /\ UNCHANGED <<type, capacity, heap>>

(* OP_SET_GLOBAL found the name undefined: tableDelete, then runtimeError. *)
UndoAssign ==
  /\ phase = "undo"
  /\ LET s == findEntry(entries, capacity, pending.key)
     IN  entries' = IF entries[s].key = NoKey THEN entries ELSE Buried(s)
  /\ symbol' = Cached(entries, capacity, pending.key)
  /\ phase' = "idle"
  /\ pending' = NoCall
  /\ Reply("undefined", Absent)
  /\ UNCHANGED <<type, capacity, count, heap>>

----------------------------------------------------------------------------
(* The instructions. *)

(* A mutant: a cached bucket is trusted when it holds any key. *)
CacheTrusted(k) == symbol[k] # Invalid /\ entries[symbol[k]].key # NoKey

(* The cached bucket still holds the string. *)
CacheHit(k) == symbol[k] # Invalid /\ entries[symbol[k]].key = k

DefineGlobal(k, v) ==
  /\ phase = "idle" /\ type = "TABLE_GLOBAL"
  /\ tableSet("define", k, v)

GetGlobal(k) ==
  /\ phase = "idle" /\ type = "TABLE_GLOBAL"
  /\ \/ /\ CacheHit(k)
        /\ Reply("found", entries[symbol[k]].value)
        /\ UNCHANGED <<type, entries, capacity, count, symbol, phase, pending, heap>>
     \/ /\ ~CacheHit(k)
        /\ tableGet(k)

SetGlobal(k, v) ==
  /\ phase = "idle" /\ type = "TABLE_GLOBAL"
  /\ \/ /\ CacheHit(k)
        /\ entries' = [entries EXCEPT ![symbol[k]].value = v]
        /\ Reply("old", Absent)
        /\ UNCHANGED <<type, capacity, count, symbol, phase, pending, heap>>
     \/ /\ ~CacheHit(k)
        /\ tableSet("assign", k, v)

GetProperty(k) ==
  /\ phase = "idle" /\ type # "TABLE_GLOBAL"
  /\ tableGet(k)

(* `object.k = v`: storing nil deletes the field. *)
SetProperty(k, v) ==
  /\ phase = "idle" /\ type # "TABLE_GLOBAL"
  /\ IF v = Nil THEN tableDelete(k) ELSE tableSet("define", k, v)

(* `k: v` in an object literal and defineNative_*: nil is stored. *)
NewProperty(k, v) ==
  /\ phase = "idle" /\ type = "TABLE_NORMAL"
  /\ tableSet("define", k, v)

(* importBuiltins, once every native of the module is defined. *)
Seal ==
  /\ phase = "idle" /\ type = "TABLE_NORMAL"
  /\ type' = "TABLE_MODULE"
  /\ UNCHANGED <<entries, capacity, count, symbol, phase, pending, heap, answer>>

Next ==
  \/ MoveEntry \/ InstallFresh \/ Store \/ UndoAssign
  \/ \E k \in Keys, v \in Values :
        DefineGlobal(k, v) \/ SetGlobal(k, v) \/ SetProperty(k, v) \/ NewProperty(k, v)
  \/ \E k \in Keys : GetGlobal(k) \/ GetProperty(k)
  \/ Seal

Spec == Init /\ [][Next]_vars

----------------------------------------------------------------------------
(* Properties. *)

(* The capacity of the array that probes run on in this phase, and the array. *)
Span == IF phase = "rehash" THEN growCapacity(capacity) ELSE capacity
Probed == IF phase = "rehash" THEN fresh ELSE entries

(* Types, and a bound: the bucket cached in a string lies inside the array   *)
(* that OP_GET_GLOBAL and OP_SET_GLOBAL index with it, unchecked.            *)
TypeOK ==
  /\ type \in {"TABLE_NORMAL", "TABLE_GLOBAL", "TABLE_MODULE"}
  /\ capacity \in Nat
  /\ entries \in [Buckets(capacity) -> Entries]
  /\ count \in Nat
  /\ symbol \in [Keys -> {Invalid} \cup Buckets(Span)]
  /\ phase \in {"idle", "rehash", "store", "undo"}
  /\ pending \in [op : {"none", "define", "assign"}, key : Keys \cup {NoKey}, value : Values]
  /\ phase # "idle" => pending.key \in Keys
  /\ fresh \in [Buckets(IF phase = "rehash" THEN Span ELSE 0) -> Entries]
  /\ cursor \in Nat
  /\ answer \in [said : {"none", "new", "old", "found", "missing", "deleted", "refused", "undefined"},
                 value : Values \cup {Absent}]

Occupied(es, cap) == {s \in Buckets(cap) : ~IsHole(es[s])}

(* The count that decides on growth is the number of buckets that are not    *)
(* holes, tombstones included: tableDelete must leave it alone, a store into *)
(* a tombstone too.                                                          *)
CountExact == count = Cardinality(Occupied(Probed, Span))

(* findEntry's loop has no exit but a hole or the key: an array it runs on   *)
(* keeps a hole, whatever the order of sets, deletes and growths.            *)
ProbeTerminates == Span > 0 => \E s \in Buckets(Span) : IsHole(Probed[s])

(* No hole and no second copy of the key separates a key from its home       *)
(* bucket: deleting and re-inserting keys breaks no probe chain.             *)
ChainsUnbroken ==
  \A s \in Buckets(Span) :
    Probed[s].key # NoKey => findEntry(Probed, Span, Probed[s].key) = s

(* When a cached bucket passes the check of the fast path, it is the bucket  *)
(* a probe would return: the two paths read and write the same variable.     *)
CacheSound ==
  (phase = "idle" /\ type = "TABLE_GLOBAL") =>
    \A k \in Keys : CacheHit(k) => findEntry(entries, capacity, k) = symbol[k]

(* The map the table represents; the entry that OP_SET_GLOBAL is about to    *)
(* take back is not part of it.                                              *)
Contents ==
  [k \in Keys |->
     IF /\ \E s \in Buckets(capacity) : entries[s].key = k
        /\ ~(phase = "undo" /\ pending.key = k)
       THEN entries[CHOOSE s \in Buckets(capacity) : entries[s].key = k].value
       ELSE Absent]

D == INSTANCE Dict WITH dict <- Contents, sealed <- (type = "TABLE_MODULE")

(* Every operation of the table, with its growth, tombstones and cached      *)
(* buckets, has the effect and the answer of one operation of a dictionary.  *)
DictSpec == D!Spec

(* A growth in progress: the buckets already visited are in the fresh array  *)
(* with their values, and nothing else is.                                   *)
GrowthKeepsEntries ==
  phase = "rehash" =>
    {fresh[s] : s \in Occupied(fresh, Span)} =
      {entries[s] : s \in {t \in Buckets(cursor) : entries[t].key # NoKey}}
=============================================================================
