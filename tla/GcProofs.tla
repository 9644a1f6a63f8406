------------------------------ MODULE GcProofs ------------------------------
(***************************************************************************)
(* Theorems about the collector, for any heap, any stack and any program   *)
(* whose upvalues are closed in time (no local that an open upvalue points *)
(* to is dropped by a break, a continue or an error): types, that nothing  *)
(* in reach is freed, the tri-color invariant of the tracing, that a sweep *)
(* leaves exactly what is in reach, and that between collections nothing   *)
(* is marked.  The run gc_break shows what a break does otherwise.         *)
(***************************************************************************)
EXTENDS Gc, SequenceTheorems, TLAPS

(* Neither kind of step that leaves an upvalue above the top is taken. *)
ClosedInTime == Allowed = {}

(* The objects of a kind, those alive, and those that exist. *)
Of(k, t) == {a \in Addresses : k[a] = t}
LiveIn(k) == {a \in Addresses : k[a] # "free"}
Present(k) == LiveIn(k) \cup Statics

(* What objects point to exists, and is of the kind its use takes for        *)
(* granted: methods are closures, closures hold upvalues.                    *)
GraphOK(k, l, r) ==
  /\ k \in [Addresses -> Kinds \cup {"free"}]
  /\ l \in [Objs -> Objs \cup {Nil}] /\ r \in [Objs -> SUBSET Objs]
  /\ \A o \in Objs : r[o] \subseteq Present(k) /\ l[o] \in Present(k) \cup {Nil}
  /\ \A o \in Objs : o \notin LiveIn(k) => r[o] = {} /\ l[o] = Nil
  /\ \A a \in Of(k, "class") : r[a] \subseteq Of(k, "closure")
  /\ \A a \in Of(k, "closure") : r[a] \subseteq Of(k, "upvalue")
  /\ \A a \in Of(k, "bound") : l[a] \in Of(k, "closure")

(* So do the roots. *)
RootsOK(k, st, op, gl, fr) ==
  /\ st \in Seq(Present(k) \cup {Nil})
  /\ DOMAIN op \subseteq Of(k, "upvalue")
  /\ gl \subseteq Present(k)
  /\ fr \in Seq(Of(k, "closure"))

(* What an instruction that waits for memory still counts on. *)
Stores(k, o, v) ==
  \/ o \in Of(k, "instance") \cup Of(k, "array")
  \/ o \in Of(k, "class") /\ v \in Of(k, "closure")

SiteOK(k, st, si) ==
  /\ si.doing \in {"call", "bound", "global"} => Len(st) > 0
  /\ si.doing \in {"capture", "upvalue"} => Len(st) > 0 /\ st[Len(st)] \in Of(k, "closure")
  /\ si.doing = "payload" => Len(st) > si.slot /\ st[Len(st)] \in Of(k, "array")
  /\ si.doing = "store" =>
       Len(st) > 1 /\ st[Len(st)] # Nil /\ Stores(k, st[Len(st) - 1], st[Len(st)])

Sites ==
  [doing : {"nothing", "class", "instance", "array", "payload", "upvalues", "closure",
            "capture", "upvalue", "call", "bound", "global", "store"}, slot : Nat]
Marks ==
  /\ program \in Programs
  /\ isMarked \in [Objs -> BOOLEAN] /\ usingMark \in BOOLEAN
  /\ site \in Sites
  /\ phase \in {"run", "mark", "trace", "sweep", "swept"}

HeapOK ==
  /\ GraphOK(kind, link, refs)
  /\ RootsOK(kind, stack, open, globals, frames)
  /\ SiteOK(kind, stack, site)

(* The collector: what is marked, and what is left to trace. *)
Marked(o) == isMarked[o] = usingMark
Collecting == phase \in {"trace", "sweep", "swept"}
CollectorOK ==
  /\ phase # "trace" => grayStack = {}
  /\ \A o \in grayStack : o \in Present(kind) /\ Marked(o)
  /\ ~ Collecting => \A a \in LiveIn(kind) : ~ Marked(a)
  /\ Collecting => \A o \in Roots : Marked(o)
  /\ Collecting =>
       \A o \in Present(kind) : o \notin grayStack /\ Marked(o) => \A p \in Successors(o) : Marked(p)
  /\ Collecting => \A a \in LiveIn(kind) : Marked(a) => a \in Reachable
  /\ phase = "swept" => \A a \in LiveIn(kind) : Marked(a)

GcOK == Marks /\ HeapOK /\ CollectorOK

(* Open upvalues point into the stack, below what a waiting instruction will *)
(* pop, so that nothing is left to one above the top.                        *)
Waits(op, h, si) ==
  /\ si.doing = "global" => \A u \in DOMAIN op : op[u] < h
  /\ si.doing = "store" => \A u \in DOMAIN op : op[u] < h - 1
  /\ si.doing = "payload" => \A u \in DOMAIN op : op[u] < h - si.slot
  /\ si.doing = "upvalue" => si.slot \in 1 .. h

Settled ==
  /\ left = [s \in 1 .. MaxStack |-> Nil]
  /\ DOMAIN loose = {}
  /\ slots \in Seq(Nat) /\ Len(slots) = Len(frames)
  /\ Height <= MaxStack
  /\ \A u \in DOMAIN open : open[u] \in 1 .. Height
  /\ Waits(open, Height, site)

----------------------------------------------------------------------------
LEMMA Bounds == MaxStack \in Nat /\ MaxRefs \in Nat
BY GcAssumption, Zenon

LEMMA Kept ==
  ASSUME NEW S, NEW T, S \subseteq T, NEW s \in Seq(S)
  PROVE  s \in Seq(T)
OBVIOUS

LEMMA Shortened ==
  ASSUME NEW S, NEW s \in Seq(S), NEW n \in 0 .. Len(s)
  PROVE  /\ SubSeq(s, 1, n) \in Seq(S) /\ Len(SubSeq(s, 1, n)) = n
         /\ \A i \in 1 .. n : SubSeq(s, 1, n)[i] = s[i]
<1>1. \A i \in 1 .. n : s[i] \in S
  OBVIOUS
<1> QED BY <1>1, SubSeqProperties

LEMMA TopReplaced ==
  ASSUME NEW S, NEW s \in Seq(S), Len(s) > 0, NEW v \in S
  PROVE  /\ [s EXCEPT ![Len(s)] = v] \in Seq(S)
         /\ Len([s EXCEPT ![Len(s)] = v]) = Len(s)
OBVIOUS

(* The elements of a sequence are in its set. *)
LEMMA ElementsIn ==
  ASSUME NEW S, NEW s \in Seq(S)
  PROVE  Elements(s) \subseteq S
BY DEF Elements

(* An object is born: what existed keeps existing, with the kind it had. *)
Birth(k, l, r, a, t, nl, rs, nk, ll, rr) ==
  /\ a \in Addresses /\ k[a] = "free" /\ t \in Kinds
  /\ nl \in Present(k) \cup {Nil} /\ rs \subseteq Present(k)
  /\ t = "class" => rs = {}
  /\ t = "closure" => rs = {}
  /\ t = "bound" => nl \in Of(k, "closure")
  /\ nk = [k EXCEPT ![a] = t] /\ ll = [l EXCEPT ![a] = nl] /\ rr = [r EXCEPT ![a] = rs]

LEMMA Born ==
  ASSUME NEW k, NEW l, NEW r, NEW a, NEW t, NEW nl, NEW rs, NEW nk, NEW ll, NEW rr,
         GraphOK(k, l, r), Birth(k, l, r, a, t, nl, rs, nk, ll, rr)
  PROVE  /\ GraphOK(nk, ll, rr)
         /\ LiveIn(nk) = LiveIn(k) \cup {a} /\ Present(nk) = Present(k) \cup {a}
         /\ a \in Of(nk, t)
         /\ \A u \in Kinds : Of(k, u) \subseteq Of(nk, u)
<1>0. /\ a \in Addresses /\ k[a] = "free" /\ t \in Kinds
      /\ nl \in Present(k) \cup {Nil} /\ rs \subseteq Present(k)
      /\ t = "class" => rs = {}
      /\ t = "closure" => rs = {}
      /\ t = "bound" => nl \in Of(k, "closure")
      /\ nk = [k EXCEPT ![a] = t] /\ ll = [l EXCEPT ![a] = nl] /\ rr = [r EXCEPT ![a] = rs]
  BY DEF Birth
<1>1. k \in [Addresses -> Kinds \cup {"free"}] /\ "free" \notin Kinds
  BY DEF GraphOK, Kinds
<1>2. nk \in [Addresses -> Kinds \cup {"free"}] /\ nk[a] = t /\ \A b \in Addresses : b # a => nk[b] = k[b]
  BY <1>0, <1>1
<1>3. LiveIn(nk) = LiveIn(k) \cup {a}
  BY <1>0, <1>1, <1>2 DEF LiveIn
<1>4. Present(nk) = Present(k) \cup {a}
  BY <1>3 DEF Present
<1>5. \A u \in Kinds : Of(k, u) \subseteq Of(nk, u) /\ (u # t => Of(nk, u) = Of(k, u))
                       /\ Of(nk, u) \subseteq Of(k, u) \cup {a}
  BY <1>0, <1>1, <1>2 DEF Of
<1>6. a \in Of(nk, t) /\ a \in Objs /\ Present(k) \subseteq Objs
  BY <1>0, <1>2 DEF Of, Objs, Present, LiveIn
<1>7. /\ ll \in [Objs -> Objs \cup {Nil}] /\ rr \in [Objs -> SUBSET Objs]
      /\ ll[a] = nl /\ rr[a] = rs
      /\ \A o \in Objs : o # a => ll[o] = l[o] /\ rr[o] = r[o]
  BY <1>0, <1>6 DEF GraphOK
<1>8. \A o \in Objs : rr[o] \subseteq Present(nk) /\ ll[o] \in Present(nk) \cup {Nil}
  <2>1. \A o \in Objs : r[o] \subseteq Present(k) /\ l[o] \in Present(k) \cup {Nil}
    BY DEF GraphOK
  <2>2. Present(k) \subseteq Present(nk) /\ rs \subseteq Present(k) /\ nl \in Present(k) \cup {Nil}
    BY <1>0, <1>4
  <2>3. ASSUME NEW o \in Objs
        PROVE  rr[o] \subseteq Present(nk) /\ ll[o] \in Present(nk) \cup {Nil}
    <3>1. CASE o = a
      BY <1>7, <2>2, <3>1
    <3>2. CASE o # a
      BY <1>7, <2>1, <2>2, <3>2
    <3> QED BY <3>1, <3>2
  <2> QED BY <2>3
<1>9. \A o \in Objs : o \notin LiveIn(nk) => rr[o] = {} /\ ll[o] = Nil
  BY <1>0, <1>3, <1>7 DEF GraphOK
<1>10. {"class", "closure", "upvalue", "bound"} \subseteq Kinds
  BY DEF Kinds
<1>11. \A u : \A b \in Of(nk, u) : b \in Addresses /\ b \in Objs
  BY DEF Of, Objs
<1>12. ASSUME NEW b \in Of(nk, "class")
       PROVE  rr[b] \subseteq Of(nk, "closure")
  <2>1. b \in Objs /\ nk[b] = "class" /\ Of(k, "closure") \subseteq Of(nk, "closure")
    BY <1>5, <1>10, <1>11 DEF Of
  <2>2. CASE b = a
    BY <1>0, <1>2, <1>7, <2>1, <2>2
  <2>3. CASE b # a
    <3>1. b \in Of(k, "class")
      BY <1>2, <1>11, <2>1, <2>3 DEF Of
    <3> QED BY <1>7, <2>1, <2>3, <3>1 DEF GraphOK
  <2> QED BY <2>2, <2>3
<1>13. ASSUME NEW b \in Of(nk, "closure")
       PROVE  rr[b] \subseteq Of(nk, "upvalue")
  <2>1. b \in Objs /\ nk[b] = "closure" /\ Of(k, "upvalue") \subseteq Of(nk, "upvalue")
    BY <1>5, <1>10, <1>11 DEF Of
  <2>2. CASE b = a
    BY <1>0, <1>2, <1>7, <2>1, <2>2
  <2>3. CASE b # a
    <3>1. b \in Of(k, "closure")
      BY <1>2, <1>11, <2>1, <2>3 DEF Of
    <3> QED BY <1>7, <2>1, <2>3, <3>1 DEF GraphOK
  <2> QED BY <2>2, <2>3
<1>14. ASSUME NEW b \in Of(nk, "bound")
       PROVE  ll[b] \in Of(nk, "closure")
  <2>1. b \in Objs /\ nk[b] = "bound" /\ Of(k, "closure") \subseteq Of(nk, "closure")
    BY <1>5, <1>10, <1>11 DEF Of
  <2>2. CASE b = a
    BY <1>0, <1>2, <1>7, <2>1, <2>2
  <2>3. CASE b # a
    <3>1. b \in Of(k, "bound")
      BY <1>2, <1>11, <2>1, <2>3 DEF Of
    <3> QED BY <1>7, <2>1, <2>3, <3>1 DEF GraphOK
  <2> QED BY <2>2, <2>3
<1>15. GraphOK(nk, ll, rr)
  BY <1>2, <1>7, <1>8, <1>9, <1>12, <1>13, <1>14 DEF GraphOK
<1> QED BY <1>3, <1>4, <1>5, <1>6, <1>15

(* What an object refers to changes. *)
Rewiring(k, r, o, rs, rr) ==
  /\ o \in LiveIn(k) /\ rs \subseteq Present(k)
  /\ k[o] = "class" => rs \subseteq Of(k, "closure")
  /\ k[o] = "closure" => rs \subseteq Of(k, "upvalue")
  /\ rr = [r EXCEPT ![o] = rs]

LEMMA Rewired ==
  ASSUME NEW k, NEW l, NEW r, NEW o, NEW rs, NEW rr,
         GraphOK(k, l, r), Rewiring(k, r, o, rs, rr)
  PROVE  GraphOK(k, l, rr)
<1>1. /\ o \in LiveIn(k) /\ rs \subseteq Present(k)
      /\ k[o] = "class" => rs \subseteq Of(k, "closure")
      /\ k[o] = "closure" => rs \subseteq Of(k, "upvalue")
      /\ rr = [r EXCEPT ![o] = rs]
  BY DEF Rewiring
<1>2. o \in Addresses /\ o \in Objs /\ Present(k) \subseteq Objs
  BY <1>1 DEF LiveIn, Objs, Present
<1>3. /\ rr \in [Objs -> SUBSET Objs] /\ rr[o] = rs
      /\ \A p \in Objs : p # o => rr[p] = r[p]
  BY <1>1, <1>2 DEF GraphOK
<1>4. \A u : \A b \in Of(k, u) : b \in Objs /\ k[b] = u
  BY DEF Of, Objs
<1> QED BY <1>1, <1>2, <1>3, <1>4 DEF GraphOK

(* The roots outlive a birth. *)
LEMMA RootsKept ==
  ASSUME NEW k, NEW nk, NEW st, NEW op, NEW gl, NEW fr, RootsOK(k, st, op, gl, fr),
         Present(k) \subseteq Present(nk), \A u \in Kinds : Of(k, u) \subseteq Of(nk, u)
  PROVE  RootsOK(nk, st, op, gl, fr)
<1>1. {"upvalue", "closure"} \subseteq Kinds
  BY DEF Kinds
<1>2. st \in Seq(Present(nk) \cup {Nil})
  <2>1. Present(k) \cup {Nil} \subseteq Present(nk) \cup {Nil}
    OBVIOUS
  <2> QED BY <2>1, Kept DEF RootsOK
<1>3. fr \in Seq(Of(nk, "closure"))
  BY <1>1, Kept DEF RootsOK
<1> QED BY <1>1, <1>2, <1>3 DEF RootsOK

(* The stack with one value more, ... *)
LEMMA Pushed ==
  ASSUME NEW k, NEW st, NEW op, NEW gl, NEW fr, RootsOK(k, st, op, gl, fr),
         NEW v \in Present(k) \cup {Nil}
  PROVE  /\ RootsOK(k, Append(st, v), op, gl, fr)
         /\ Len(Append(st, v)) > 0 /\ Append(st, v)[Len(Append(st, v))] = v
<1>1. st \in Seq(Present(k) \cup {Nil}) /\ Len(st) \in Nat
  BY DEF RootsOK
<1>2. /\ Append(st, v) \in Seq(Present(k) \cup {Nil})
      /\ Len(Append(st, v)) = Len(st) + 1 /\ Append(st, v)[Len(st) + 1] = v
  BY <1>1, AppendProperties
<1>3. RootsOK(k, Append(st, v), op, gl, fr)
  BY <1>2 DEF RootsOK
<1> QED BY <1>1, <1>2, <1>3

(* ... another value on top, ... *)
LEMMA Replaced ==
  ASSUME NEW k, NEW st, NEW op, NEW gl, NEW fr, RootsOK(k, st, op, gl, fr),
         Len(st) > 0, NEW v \in Present(k) \cup {Nil}
  PROVE  RootsOK(k, [st EXCEPT ![Len(st)] = v], op, gl, fr)
<1>1. st \in Seq(Present(k) \cup {Nil})
  BY DEF RootsOK
<1>2. [st EXCEPT ![Len(st)] = v] \in Seq(Present(k) \cup {Nil})
  BY <1>1, TopReplaced
<1> QED BY <1>2 DEF RootsOK

(* ... or cut. *)
LEMMA CutDown ==
  ASSUME NEW k, NEW st, NEW op, NEW gl, NEW fr, RootsOK(k, st, op, gl, fr), NEW n \in 0 .. Len(st)
  PROVE  RootsOK(k, SubSeq(st, 1, n), op, gl, fr)
<1>1. st \in Seq(Present(k) \cup {Nil})
  BY DEF RootsOK
<1>2. SubSeq(st, 1, n) \in Seq(Present(k) \cup {Nil})
  BY <1>1, Shortened
<1> QED BY <1>2 DEF RootsOK

LEMMA StackTyped ==
  ASSUME GcOK
  PROVE  /\ stack \in Seq(Present(kind) \cup {Nil}) /\ Height \in Nat
         /\ \A i \in 1 .. Height : stack[i] \in Present(kind) \cup {Nil}
         /\ Height > 0 => Peek(0) = stack[Height] /\ Peek(0) \in Present(kind) \cup {Nil}
         /\ Height > 1 => Peek(1) = stack[Height - 1] /\ Peek(1) \in Present(kind) \cup {Nil}
<1>1. stack \in Seq(Present(kind) \cup {Nil})
  BY DEF GcOK, HeapOK, RootsOK
<1>2. Height \in Nat /\ \A i \in 1 .. Height : stack[i] \in Present(kind) \cup {Nil}
  BY <1>1 DEF Height
<1> QED BY <1>1, <1>2 DEF Peek

LEMMA FloorTyped ==
  ASSUME Settled
  PROVE  Floor \in Nat
<1>1. slots \in Seq(Nat)
  BY DEF Settled
<1>2. slots # <<>> => slots[Len(slots)] \in Nat
  BY <1>1
<1> QED BY <1>2 DEF Floor

(* The values an instruction may pop. *)
LEMMA TemporariesFit ==
  ASSUME GcOK, Settled, NEW n \in Nat, Temporaries(n)
  PROVE  /\ Height \in Nat /\ Floor \in Nat /\ n <= Height /\ n + Floor <= Height
         /\ \A u \in DOMAIN open : open[u] \in 1 .. Height /\ open[u] <= Height - n
<1>1. Height \in Nat
  BY StackTyped
<1>3. Floor \in Nat
  BY FloorTyped
<1>4. n + Floor <= Height /\ \A s \in Height - n + 1 .. Height : ~Captured(s)
  BY DEF Temporaries
<1>5. \A u \in DOMAIN open : open[u] \in 1 .. Height
  BY DEF Settled
<1>6. ASSUME NEW u \in DOMAIN open
      PROVE  open[u] <= Height - n
  <2>1. ASSUME open[u] > Height - n
        PROVE  FALSE
    <3>1. open[u] \in Height - n + 1 .. Height
      BY <1>1, <1>5, <2>1
    <3> QED BY <1>4, <3>1 DEF Captured
  <2> QED BY <1>1, <1>5, <2>1
<1> QED BY <1>1, <1>3, <1>4, <1>5, <1>6

LEMMA KindsOfPresent ==
  /\ Live = LiveIn(kind) /\ Nil \notin Present(kind) /\ Present(kind) \subseteq Objs
  /\ \A v, t : Is(v, t) <=> v \in LiveIn(kind) /\ v \in Of(kind, t)
  /\ \A t \in Kinds : \A a \in Of(kind, t) : a \in LiveIn(kind)
<1>1. "free" \notin Kinds
  BY DEF Kinds
<1> QED BY <1>1, GcAssumption DEF Live, LiveIn, Present, Objs, Is, Of

----------------------------------------------------------------------------
(* The program runs: what the collector needs is kept by any instruction. *)

LEMMA RunOld ==
  ASSUME GcOK, phase = "run", phase' \in {"run", "mark"}, site' \in Sites,
         UNCHANGED <<program, kind, isMarked, usingMark, grayStack>>
  PROVE  Marks' /\ CollectorOK'
<1>1. Marks'
  BY DEF GcOK, Marks
<1>2. grayStack' = {} /\ ~ Collecting'
  BY DEF GcOK, CollectorOK, Collecting
<1>3. \A a \in LiveIn(kind') : isMarked'[a] # usingMark'
  BY DEF GcOK, CollectorOK, Collecting, Marked
<1>4. phase' # "swept"
  OBVIOUS
<1>5. CollectorOK'
  BY <1>2, <1>3, <1>4 DEF CollectorOK, Marked
<1> QED BY <1>1, <1>5

LEMMA RunNew ==
  ASSUME GcOK, phase = "run", phase' \in {"run", "mark"}, site' \in Sites,
         NEW a \in Addresses, NEW t \in Kinds, kind' = [kind EXCEPT ![a] = t],
         isMarked' = [isMarked EXCEPT ![a] = NewMark],
         UNCHANGED <<program, usingMark, grayStack>>
  PROVE  Marks' /\ CollectorOK'
<1>1. a \in Objs
  BY DEF Objs
<1>2. isMarked' \in [Objs -> BOOLEAN] /\ isMarked'[a] = ~ usingMark
      /\ \A o \in Objs : o # a => isMarked'[o] = isMarked[o]
  BY <1>1 DEF GcOK, Marks, NewMark
<1>3. Marks'
  BY <1>2 DEF GcOK, Marks
<1>4. grayStack' = {} /\ ~ Collecting' /\ phase' # "swept"
  BY DEF GcOK, CollectorOK, Collecting
<1>5. kind \in [Addresses -> Kinds \cup {"free"}]
  BY DEF GcOK, HeapOK, GraphOK
<1>6. ASSUME NEW b \in LiveIn(kind')
      PROVE  isMarked'[b] # usingMark'
  <2>1. b \in Objs /\ usingMark' = usingMark /\ usingMark \in BOOLEAN
    BY DEF LiveIn, Objs, GcOK, Marks
  <2>2. CASE b = a
    BY <1>2, <2>1, <2>2
  <2>3. CASE b # a
    <3>1. b \in LiveIn(kind)
      BY <1>5, <2>3 DEF LiveIn
    <3>2. isMarked[b] # usingMark
      BY <3>1 DEF GcOK, CollectorOK, Collecting, Marked
    <3> QED BY <1>2, <2>1, <2>3, <3>2
  <2> QED BY <2>2, <2>3
<1>7. CollectorOK'
  BY <1>4, <1>6 DEF CollectorOK, Marked
<1> QED BY <1>3, <1>7

(* An object is allocated: the heap with it, under the roots as they were. *)
Allocates(a, t, l, rs) ==
  /\ a \in Addresses /\ kind[a] = "free" /\ t \in Kinds
  /\ l \in Present(kind) \cup {Nil} /\ rs \subseteq Present(kind)
  /\ t = "class" => rs = {}
  /\ t = "closure" => rs = {}
  /\ t = "bound" => l \in Of(kind, "closure")
  /\ kind' = [kind EXCEPT ![a] = t] /\ link' = [link EXCEPT ![a] = l] /\ refs' = [refs EXCEPT ![a] = rs]
  /\ isMarked' = [isMarked EXCEPT ![a] = NewMark]
  /\ UNCHANGED <<program, usingMark, grayStack>>

LEMMA NewObject ==
  ASSUME GcOK, phase = "run", phase' \in {"run", "mark"}, site' \in Sites,
         NEW a, NEW t, NEW l, NEW rs, Allocates(a, t, l, rs)
  PROVE  /\ Marks' /\ CollectorOK'
         /\ GraphOK(kind', link', refs')
         /\ RootsOK(kind', stack, open, globals, frames)
         /\ a \in Present(kind') /\ a \in Of(kind', t)
         /\ \A u \in Kinds : Of(kind, u) \subseteq Of(kind', u)
<1>1. Marks' /\ CollectorOK'
  <2>1. /\ a \in Addresses /\ t \in Kinds /\ kind' = [kind EXCEPT ![a] = t]
        /\ isMarked' = [isMarked EXCEPT ![a] = NewMark]
        /\ UNCHANGED <<program, usingMark, grayStack>>
    BY DEF Allocates
  <2> QED BY <2>1, RunNew
<1>2. GraphOK(kind, link, refs) /\ RootsOK(kind, stack, open, globals, frames)
  BY DEF GcOK, HeapOK
<1>3. /\ GraphOK(kind', link', refs')
      /\ Present(kind') = Present(kind) \cup {a}
      /\ a \in Of(kind', t)
      /\ \A u \in Kinds : Of(kind, u) \subseteq Of(kind', u)
  <2>1. PICK nk, ll, rr : nk = kind' /\ ll = link' /\ rr = refs'
    OBVIOUS
  <2>2. Birth(kind, link, refs, a, t, l, rs, nk, ll, rr)
    BY <2>1 DEF Birth, Allocates
  <2>3. /\ GraphOK(nk, ll, rr)
        /\ Present(nk) = Present(kind) \cup {a}
        /\ a \in Of(nk, t)
        /\ \A u \in Kinds : Of(kind, u) \subseteq Of(nk, u)
    BY <1>2, <2>2, Born
  <2> QED BY <2>1, <2>3
<1>4. RootsOK(kind', stack, open, globals, frames)
  BY <1>2, <1>3, RootsKept
<1> QED BY <1>1, <1>3, <1>4

LEMMA IdleSite ==
  /\ Idle \in Sites
  /\ \A k, st : SiteOK(k, st, Idle)
BY DEF Idle, Sites, SiteOK

(* A new object on top of the stack. *)
LEMMA NewOnTop ==
  ASSUME GcOK, phase = "run", phase' \in {"run", "mark"}, site' = Idle,
         NEW a, NEW t, NEW l, NEW rs, Allocates(a, t, l, rs),
         \/ stack' = Append(stack, a)
         \/ Height > 0 /\ stack' = [stack EXCEPT ![Height] = a],
         UNCHANGED <<open, globals, frames>>
  PROVE  GcOK'
<1>1. /\ Marks' /\ CollectorOK'
      /\ GraphOK(kind', link', refs')
      /\ RootsOK(kind', stack, open, globals, frames)
      /\ a \in Present(kind')
  BY IdleSite, NewObject
<1>2. PICK k, st : k = kind' /\ st = stack'
  OBVIOUS
<1>3. RootsOK(k, st, open, globals, frames)
  <2>1. RootsOK(k, stack, open, globals, frames) /\ a \in Present(k) \cup {Nil}
    BY <1>1, <1>2
  <2>2. CASE stack' = Append(stack, a)
    <3>1. RootsOK(k, Append(stack, a), open, globals, frames)
      BY <2>1, Pushed
    <3> QED BY <1>2, <2>2, <3>1
  <2>3. CASE Height > 0 /\ stack' = [stack EXCEPT ![Height] = a]
    <3>1. RootsOK(k, [stack EXCEPT ![Len(stack)] = a], open, globals, frames)
      BY <2>1, <2>3, Replaced DEF Height
    <3> QED BY <1>2, <2>3, <3>1 DEF Height
  <2> QED BY <2>2, <2>3
<1>4. SiteOK(k, st, Idle)
  BY IdleSite
<1>5. HeapOK'
  BY <1>1, <1>2, <1>3, <1>4 DEF HeapOK
<1> QED BY <1>1, <1>5 DEF GcOK

LEMMA KindNames == {"class", "instance", "array", "closure", "upvalue", "bound"} = Kinds
BY DEF Kinds

LEMMA NewClassStep ==
  ASSUME GcOK, NEW a \in Addresses, NewClass(a)
  PROVE  GcOK'
<1>1. Allocates(a, "class", Nil, {})
  BY KindNames DEF NewClass, allocateObject, Allocates, collector
<1> QED BY <1>1, NewOnTop DEF NewClass, Granted, Push, allocateObject, collector, activations

LEMMA NewInstanceStep ==
  ASSUME GcOK, NEW a \in Addresses, NewInstance(a)
  PROVE  GcOK'
<1>1. emptyClass \in Present(kind)
  BY GcAssumption DEF Present
<1>2. Allocates(a, "instance", emptyClass, {})
  BY <1>1, KindNames DEF NewInstance, allocateObject, Allocates, collector
<1> QED BY <1>2, NewOnTop DEF NewInstance, Granted, Push, allocateObject, collector, activations

LEMMA InstantiateStep ==
  ASSUME GcOK, NEW a \in Addresses, Instantiate(a)
  PROVE  GcOK'
<1>1. Height > 0 /\ Peek(0) \in Present(kind) \cup {Nil}
  <2>1. Height > 0
    BY DEF GcOK, HeapOK, SiteOK, Instantiate, Granted, Height
  <2> QED BY <2>1, StackTyped
<1>2. Allocates(a, "instance", Peek(0), {})
  BY <1>1, KindNames DEF Instantiate, allocateObject, Allocates, collector
<1> QED BY <1>1, <1>2, NewOnTop DEF Instantiate, Granted, Replace, allocateObject, collector,
  activations

LEMMA MethodsTyped ==
  ASSUME GcOK, NEW v
  PROVE  /\ MethodsOf(v) \subseteq Of(kind, "closure") /\ MethodsOf(v) \subseteq Addresses
         /\ MethodsOf(v) \subseteq Present(kind)
         /\ MethodsOf(v) # {} => v \in LiveIn(kind) /\ Is(v, "instance")
<1>1. Is(v, "instance") /\ Is(link[v], "class") => refs[link[v]] \subseteq Of(kind, "closure")
  BY KindsOfPresent DEF GcOK, HeapOK, GraphOK
<1>2. MethodsOf(v) \subseteq Of(kind, "closure")
  BY <1>1 DEF MethodsOf
<1>3. Of(kind, "closure") \subseteq Addresses /\ Of(kind, "closure") \subseteq Present(kind)
  BY KindsOfPresent, KindNames DEF Of, Present
<1>4. MethodsOf(v) # {} => v \in LiveIn(kind) /\ Is(v, "instance")
  BY KindsOfPresent DEF MethodsOf
<1> QED BY <1>2, <1>3, <1>4

LEMMA bindMethodStep ==
  ASSUME GcOK, NEW a \in Addresses, NEW method, bindMethod(a, method)
  PROVE  GcOK'
<1>1. Height > 0 /\ Peek(0) \in Present(kind)
  <2>1. Height > 0
    BY DEF GcOK, HeapOK, SiteOK, bindMethod, Granted, Height
  <2>2. Peek(0) \in LiveIn(kind)
    BY MethodsTyped DEF bindMethod
  <2> QED BY <2>1, <2>2 DEF Present
<1>2. method \in Of(kind, "closure") /\ method \in Present(kind)
  BY MethodsTyped DEF bindMethod
<1>3. Allocates(a, "bound", method, {Peek(0)})
  BY <1>1, <1>2, KindNames DEF bindMethod, allocateObject, Allocates, collector
<1> QED BY <1>1, <1>3, NewOnTop DEF bindMethod, Granted, Replace, allocateObject, collector,
  activations

LEMMA NewClosureStep ==
  ASSUME GcOK, NEW a \in Addresses, NewClosure(a)
  PROVE  GcOK'
<1>1. Allocates(a, "closure", Nil, {})
  BY KindNames DEF NewClosure, allocateObject, Allocates, collector
<1>2. /\ phase = "run" /\ phase' = phase /\ site' = [doing |-> "capture", slot |-> 0]
      /\ stack' = Append(stack, a) /\ UNCHANGED <<open, globals, frames>>
  BY DEF NewClosure, Granted, Push, allocateObject, collector, activations
<1>3. site' \in Sites
  BY <1>2 DEF Sites
<1>4. /\ Marks' /\ CollectorOK'
      /\ GraphOK(kind', link', refs')
      /\ RootsOK(kind', stack, open, globals, frames)
      /\ a \in Present(kind') /\ a \in Of(kind', "closure")
  BY <1>1, <1>2, <1>3, NewObject
<1>5. PICK k, st, si : k = kind' /\ st = stack' /\ si = site'
  OBVIOUS
<1>6. RootsOK(k, stack, open, globals, frames) /\ a \in Present(k) \cup {Nil} /\ st = Append(stack, a)
  BY <1>2, <1>4, <1>5
<1>7. RootsOK(k, st, open, globals, frames) /\ Len(st) > 0 /\ st[Len(st)] = a
  BY <1>6, Pushed
<1>8. SiteOK(k, st, si)
  BY <1>2, <1>4, <1>5, <1>7 DEF SiteOK
<1>9. HeapOK'
  BY <1>2, <1>4, <1>5, <1>7, <1>8 DEF HeapOK
<1> QED BY <1>4, <1>9 DEF GcOK

(* At a free address nothing is left of what was there. *)
LEMMA FreeAddress ==
  ASSUME GcOK, NEW a \in Addresses, kind[a] = "free"
  PROVE  /\ link[a] = Nil /\ refs[a] = {}
         /\ link = [link EXCEPT ![a] = Nil] /\ refs = [refs EXCEPT ![a] = {}]
<1>1. a \in Objs /\ a \notin LiveIn(kind)
  BY DEF Objs, LiveIn
<1>2. link[a] = Nil /\ refs[a] = {}
  BY <1>1 DEF GcOK, HeapOK, GraphOK
<1>3. link \in [Objs -> Objs \cup {Nil}] /\ refs \in [Objs -> SUBSET Objs]
  BY DEF GcOK, HeapOK, GraphOK
<1> QED BY <1>1, <1>2, <1>3

LEMMA NewArrayStep ==
  ASSUME GcOK, Settled, NEW a \in Addresses, NEW n \in Nat, NewArray(a, n)
  PROVE  GcOK'
<1>1. /\ phase = "run" /\ phase' \in {"run", "mark"} /\ n <= Height
      /\ site' = Idle \/ site' = [doing |-> "payload", slot |-> n]
      /\ stack' = Append(stack, a) /\ UNCHANGED <<open, globals, frames>>
  BY TemporariesFit DEF NewArray, Granted, Push, activations
<1>2. Allocates(a, "array", Nil, {})
  <2>1. kind[a] = "free" /\ UNCHANGED <<program, link, refs, usingMark, grayStack>>
        /\ kind' = [kind EXCEPT ![a] = "array"] /\ isMarked' = [isMarked EXCEPT ![a] = NewMark]
    BY DEF NewArray
  <2>2. link = [link EXCEPT ![a] = Nil] /\ refs = [refs EXCEPT ![a] = {}]
    BY <2>1, FreeAddress
  <2> QED BY <2>1, <2>2, KindNames DEF Allocates
<1>3. site' \in Sites
  BY <1>1, IdleSite DEF Sites
<1>4. /\ Marks' /\ CollectorOK'
      /\ GraphOK(kind', link', refs')
      /\ RootsOK(kind', stack, open, globals, frames)
      /\ a \in Present(kind') /\ a \in Of(kind', "array")
  BY <1>1, <1>2, <1>3, NewObject
<1>5. PICK k, st, si : k = kind' /\ st = stack' /\ si = site'
  OBVIOUS
<1>6. RootsOK(k, stack, open, globals, frames) /\ a \in Present(k) \cup {Nil} /\ st = Append(stack, a)
  BY <1>1, <1>4, <1>5
<1>7. RootsOK(k, st, open, globals, frames) /\ Len(st) > 0 /\ st[Len(st)] = a
  BY <1>6, Pushed
<1>8. Len(st) > n
  <2>1. stack \in Seq(Present(kind) \cup {Nil}) /\ Height \in Nat
    BY StackTyped
  <2>2. Len(st) = Height + 1
    BY <1>6, <2>1, AppendProperties DEF Height
  <2> QED BY <1>1, <2>1, <2>2
<1>9. SiteOK(k, st, si)
  BY <1>1, <1>4, <1>5, <1>7, <1>8, IdleSite DEF SiteOK
<1>10. HeapOK'
  BY <1>1, <1>4, <1>5, <1>7, <1>9 DEF HeapOK
<1> QED BY <1>4, <1>10 DEF GcOK

LEMMA NewUpvalueStep ==
  ASSUME GcOK, NEW a \in Addresses, NewUpvalue(a)
  PROVE  GcOK'
<1>1. /\ phase = "run" /\ phase' = phase /\ site.doing = "upvalue" /\ kind[a] = "free"
      /\ kind' = [kind EXCEPT ![a] = "upvalue"] /\ isMarked' = [isMarked EXCEPT ![a] = NewMark]
      /\ refs' = [refs EXCEPT ![Peek(0)] = @ \cup {a}]
      /\ open' = [u \in DOMAIN open \cup {a} |-> IF u = a THEN site.slot ELSE open[u]]
      /\ site' = [doing |-> "capture", slot |-> 0]
      /\ UNCHANGED <<program, link, usingMark, stack, globals, frames, grayStack>>
  BY DEF NewUpvalue, Granted, collector, activations
<1>2. site' \in Sites /\ "upvalue" \in Kinds
  BY <1>1, KindNames DEF Sites
<1>3. Marks' /\ CollectorOK'
  BY <1>1, <1>2, RunNew
<1>4. Height > 0 /\ Peek(0) = stack[Height] /\ Peek(0) \in Of(kind, "closure")
  BY <1>1, StackTyped DEF GcOK, HeapOK, SiteOK, Height
<1>5. PICK k, c, rr : k = kind' /\ c = Peek(0) /\ rr = refs'
  OBVIOUS
<1>6. Birth(kind, link, refs, a, "upvalue", Nil, {}, k, link, refs)
  BY <1>1, <1>2, <1>5, FreeAddress DEF Birth
<1>7. /\ GraphOK(k, link, refs) /\ Present(k) = Present(kind) \cup {a} /\ a \in Of(k, "upvalue")
      /\ LiveIn(k) = LiveIn(kind) \cup {a}
      /\ \A u \in Kinds : Of(kind, u) \subseteq Of(k, u)
  BY <1>6, Born DEF GcOK, HeapOK
<1>8. c \in Of(kind, "closure") /\ c \in Of(k, "closure") /\ c \in LiveIn(k)
  BY <1>4, <1>5, <1>7, KindNames, KindsOfPresent
<1>9. Rewiring(k, refs, c, refs[c] \cup {a}, rr)
  <2>1. refs[c] \subseteq Of(k, "upvalue")
    BY <1>7, <1>8 DEF GraphOK
  <2>2. Of(k, "upvalue") \subseteq Present(k)
    BY KindNames DEF Of, Present, LiveIn, Kinds
  <2>3. k[c] = "closure"
    BY <1>8 DEF Of
  <2>4. rr = [refs EXCEPT ![c] = refs[c] \cup {a}]
    BY <1>1, <1>5
  <2> QED BY <1>7, <1>8, <2>1, <2>2, <2>3, <2>4 DEF Rewiring
<1>10. GraphOK(k, link, rr)
  BY <1>7, <1>9, Rewired
<1>11. RootsOK(k, stack, open, globals, frames)
  <2>1. RootsOK(kind, stack, open, globals, frames) /\ Present(kind) \subseteq Present(k)
    BY <1>7 DEF GcOK, HeapOK
  <2> QED BY <1>7, <2>1, RootsKept
<1>12. RootsOK(k, stack, open', globals, frames)
  BY <1>1, <1>7, <1>11 DEF RootsOK
<1>13. SiteOK(k, stack, [doing |-> "capture", slot |-> 0])
  BY <1>4, <1>5, <1>8 DEF SiteOK, Height
<1>14. HeapOK'
  BY <1>1, <1>5, <1>10, <1>12, <1>13 DEF HeapOK
<1> QED BY <1>3, <1>14 DEF GcOK

----------------------------------------------------------------------------
(* Requests for memory, and what else leaves the heap and the roots alone. *)

LEMMA Waiting ==
  ASSUME GcOK, phase = "run", phase' \in {"run", "mark"}, site' \in Sites, SiteOK(kind, stack, site'),
         UNCHANGED <<heap, roots, grayStack>>
  PROVE  GcOK'
<1>1. UNCHANGED <<program, kind, link, refs, isMarked, usingMark, stack, open, globals, frames, grayStack>>
  BY DEF heap, roots, activations
<1>2. Marks' /\ CollectorOK'
  BY <1>1, RunOld
<1>3. PICK si : si = site'
  OBVIOUS
<1>4. HeapOK'
  BY <1>1, <1>3 DEF GcOK, HeapOK
<1> QED BY <1>2, <1>4 DEF GcOK

LEMMA BeginNewStep ==
  ASSUME GcOK, BeginNew
  PROVE  GcOK'
<1>1. program \subseteq {"class", "instance", "array", "closure", "upvalue", "module"}
  BY GcAssumption DEF GcOK, Marks
<1>2. PICK d : d \in {"class", "instance", "array", "upvalues"} /\ Request(d, 0)
  BY <1>1 DEF BeginNew
<1>3. phase = "run"
  BY DEF BeginNew, Ready
<1>4. site' = [doing |-> d, slot |-> 0] /\ phase' \in {"run", "mark"} /\ UNCHANGED <<heap, roots, grayStack>>
  BY <1>2 DEF Request
<1>5. site' \in Sites /\ SiteOK(kind, stack, site')
  BY <1>2, <1>4 DEF Sites, SiteOK
<1> QED BY <1>3, <1>4, <1>5, Waiting

LEMMA BeginInstantiateStep ==
  ASSUME GcOK, Settled, BeginInstantiate
  PROVE  GcOK'
<1>1. /\ phase = "run" /\ 1 <= Height
      /\ site' = [doing |-> "call", slot |-> 0] /\ phase' \in {"run", "mark"}
      /\ UNCHANGED <<heap, roots, grayStack>>
  BY TemporariesFit DEF BeginInstantiate, Ready, Request
<1>2. site' \in Sites /\ SiteOK(kind, stack, site')
  BY <1>1, StackTyped DEF Sites, SiteOK, Height
<1> QED BY <1>1, <1>2, Waiting

LEMMA BeginBindStep ==
  ASSUME GcOK, Settled, BeginBind
  PROVE  GcOK'
<1>1. /\ phase = "run" /\ 1 <= Height
      /\ site' = [doing |-> "bound", slot |-> 0] /\ phase' \in {"run", "mark"}
      /\ UNCHANGED <<heap, roots, grayStack>>
  BY TemporariesFit DEF BeginBind, Ready, Request
<1>2. site' \in Sites /\ SiteOK(kind, stack, site')
  BY <1>1, StackTyped DEF Sites, SiteOK, Height
<1> QED BY <1>1, <1>2, Waiting

LEMMA BeginStoreStep ==
  ASSUME GcOK, Settled, BeginStore
  PROVE  GcOK'
<1>1. phase = "run"
  BY DEF BeginStore, Ready
<1>2. CASE Temporaries(1) /\ Request("global", 0)
  <2>1. 1 <= Height /\ site' = [doing |-> "global", slot |-> 0] /\ phase' \in {"run", "mark"}
        /\ UNCHANGED <<heap, roots, grayStack>>
    BY <1>2, TemporariesFit DEF Request
  <2>2. site' \in Sites /\ SiteOK(kind, stack, site')
    BY <2>1, StackTyped DEF Sites, SiteOK, Height
  <2> QED BY <1>1, <2>1, <2>2, Waiting
<1>3. CASE /\ Temporaries(2) /\ Peek(0) # Nil /\ Peek(1) \in Live
           /\ \/ kind[Peek(1)] \in {"instance", "array"}
              \/ kind[Peek(1)] = "class" /\ Is(Peek(0), "closure")
           /\ Request("store", 0)
  <2>1. 2 <= Height /\ site' = [doing |-> "store", slot |-> 0] /\ phase' \in {"run", "mark"}
        /\ UNCHANGED <<heap, roots, grayStack>>
    BY <1>3, TemporariesFit DEF Request
  <2>2. Stores(kind, Peek(1), Peek(0))
    BY <1>3, KindsOfPresent DEF Stores, Of, Live
  <2>3. Height \in Nat /\ Peek(0) = stack[Height] /\ Peek(1) = stack[Height - 1]
    BY <2>1, StackTyped
  <2>4. site' \in Sites /\ SiteOK(kind, stack, site')
    BY <1>3, <2>1, <2>2, <2>3 DEF Sites, SiteOK, Height
  <2> QED BY <1>1, <2>1, <2>4, Waiting
<1> QED BY <1>2, <1>3 DEF BeginStore

LEMMA BeginCaptureStep ==
  ASSUME GcOK, NEW s \in 1 .. MaxStack, BeginCapture(s)
  PROVE  GcOK'
<1>1. /\ phase = "run" /\ site.doing = "capture"
      /\ site' = [doing |-> "upvalue", slot |-> s] /\ phase' \in {"run", "mark"}
      /\ UNCHANGED <<heap, roots, grayStack>>
  BY DEF BeginCapture, Request
<1>2. Len(stack) > 0 /\ stack[Len(stack)] \in Of(kind, "closure")
  BY <1>1 DEF GcOK, HeapOK, SiteOK
<1>3. s \in Nat
  OBVIOUS
<1>4. site' \in Sites /\ SiteOK(kind, stack, site')
  BY <1>1, <1>2, <1>3 DEF Sites, SiteOK
<1> QED BY <1>1, <1>4, Waiting

LEMMA UpvaluesAllocatedStep ==
  ASSUME GcOK, UpvaluesAllocated
  PROVE  GcOK'
<1>1. /\ phase = "run" /\ site' = [doing |-> "closure", slot |-> 0] /\ phase' \in {"run", "mark"}
      /\ UNCHANGED <<heap, roots, grayStack>>
  BY DEF UpvaluesAllocated, Granted, Request
<1>2. site' \in Sites /\ SiteOK(kind, stack, site')
  BY <1>1 DEF Sites, SiteOK
<1> QED BY <1>1, <1>2, Waiting

LEMMA ClosureBuiltStep ==
  ASSUME GcOK, ClosureBuilt
  PROVE  GcOK'
<1>1. /\ phase = "run" /\ site' = Idle /\ phase' \in {"run", "mark"}
      /\ UNCHANGED <<heap, roots, grayStack>>
  BY DEF ClosureBuilt, collector
<1>2. SiteOK(kind, stack, site')
  BY <1>1, IdleSite
<1> QED BY <1>1, <1>2, IdleSite, Waiting

LEMMA gcNativeStep ==
  ASSUME GcOK, gcNative
  PROVE  GcOK'
<1>1. /\ phase = "run" /\ site' = site /\ phase' \in {"run", "mark"}
      /\ UNCHANGED <<heap, roots, grayStack>>
  BY DEF gcNative, Ready
<1>2. SiteOK(kind, stack, site') /\ site' \in Sites
  BY <1>1 DEF GcOK, Marks, HeapOK
<1> QED BY <1>1, <1>2, Waiting

----------------------------------------------------------------------------
(* Instructions that change the heap or the roots, and allocate nothing. *)

LEMMA Executed ==
  ASSUME GcOK, phase = "run", phase' = phase, site' = Idle,
         UNCHANGED <<program, kind, link, isMarked, usingMark, grayStack>>,
         GraphOK(kind, link, refs'), RootsOK(kind, stack', open', globals', frames')
  PROVE  GcOK'
<1>1. Marks' /\ CollectorOK'
  BY IdleSite, RunOld
<1>2. PICK st : st = stack'
  OBVIOUS
<1>3. SiteOK(kind, st, Idle)
  BY IdleSite
<1>4. HeapOK'
  BY <1>2, <1>3 DEF HeapOK
<1> QED BY <1>1, <1>4 DEF GcOK

LEMMA Unhindered ==
  ASSUME GcOK, NoAllocation
  PROVE  /\ phase = "run" /\ phase' = phase /\ site' = Idle
         /\ UNCHANGED <<program, kind, link, isMarked, usingMark, grayStack>>
         /\ GraphOK(kind, link, refs) /\ RootsOK(kind, stack, open, globals, frames)
BY DEF NoAllocation, Ready, collector, GcOK, HeapOK

LEMMA PushValueStep ==
  ASSUME GcOK, PushValue
  PROVE  GcOK'
<1>0. NoAllocation /\ UNCHANGED <<refs, open, globals, frames>>
  BY DEF PushValue, activations
<1>1. PICK v \in {Nil} \cup globals \cup Modules \cup Elements(stack) :
        stack' = Append(stack, v)
  BY DEF PushValue, Push
<1>2. globals \subseteq Present(kind) /\ Modules \subseteq Present(kind)
  BY <1>0, Unhindered DEF RootsOK, Present, Modules
<1>3. Elements(stack) \subseteq Present(kind) \cup {Nil}
  BY StackTyped, ElementsIn
<1>4. v \in Present(kind) \cup {Nil}
  BY <1>1, <1>2, <1>3
<1>5. RootsOK(kind, stack', open, globals, frames)
  BY <1>0, <1>1, <1>4, Unhindered, Pushed
<1> QED BY <1>0, <1>5, Unhindered, Executed

(* The value at the top can be replaced by any that exists. *)
LEMMA ReplacedTop ==
  ASSUME GcOK, Height > 0, NEW v \in Present(kind) \cup {Nil}, Replace(v)
  PROVE  RootsOK(kind, stack', open, globals, frames)
<1>1. RootsOK(kind, [stack EXCEPT ![Len(stack)] = v], open, globals, frames)
  BY Replaced DEF GcOK, HeapOK, Height
<1> QED BY <1>1 DEF Replace, Height

LEMMA RefsPresent ==
  ASSUME GcOK, NEW o \in Present(kind)
  PROVE  refs[o] \subseteq Present(kind) /\ link[o] \in Present(kind) \cup {Nil}
BY KindsOfPresent DEF GcOK, HeapOK, GraphOK

LEMMA LoadStep ==
  ASSUME GcOK, Settled, Load
  PROVE  GcOK'
<1>1. NoAllocation /\ UNCHANGED <<refs, open, globals, frames>> /\ 1 <= Height /\ Peek(0) \in LiveIn(kind)
  BY KindsOfPresent, TemporariesFit DEF Load, activations
<1>2. PICK v \in refs[Peek(0)] : Replace(v)
  BY DEF Load
<1>3. v \in Present(kind) /\ Height > 0
  BY <1>1, <1>2, RefsPresent, StackTyped DEF Present
<1>4. RootsOK(kind, stack', open, globals, frames)
  BY <1>2, <1>3, ReplacedTop
<1> QED BY <1>1, <1>4, Unhindered, Executed

LEMMA DropStep ==
  ASSUME GcOK, Drop
  PROVE  GcOK'
<1>1. NoAllocation /\ UNCHANGED roots /\ Peek(0) \in LiveIn(kind) /\ kind[Peek(0)] # "closure"
  BY KindsOfPresent DEF Drop
<1>2. PICK v : refs' = [refs EXCEPT ![Peek(0)] = @ \ {v}]
  BY DEF Drop
<1>3. PICK o, rr : o = Peek(0) /\ rr = refs'
  OBVIOUS
<1>4. refs[o] \subseteq Present(kind) /\ o \in Objs
  BY <1>1, <1>3, RefsPresent, KindsOfPresent DEF Present
<1>5. kind[o] = "class" => refs[o] \subseteq Of(kind, "closure")
  BY <1>1, <1>3 DEF GcOK, HeapOK, GraphOK, Of, LiveIn
<1>6. Rewiring(kind, refs, o, refs[o] \ {v}, rr)
  BY <1>1, <1>2, <1>3, <1>4, <1>5 DEF Rewiring
<1>7. GraphOK(kind, link, rr)
  BY <1>1, <1>6, Unhindered, Rewired
<1> QED BY <1>1, <1>3, <1>7, Unhindered, Executed DEF roots, activations

LEMMA SetGlobalStep ==
  ASSUME GcOK, SetGlobal
  PROVE  GcOK'
<1>1. NoAllocation /\ UNCHANGED <<refs, stack, open, frames>> /\ globals' \subseteq globals
  BY DEF SetGlobal, activations
<1>2. RootsOK(kind, stack', open', globals', frames')
  BY <1>1, Unhindered DEF RootsOK
<1> QED BY <1>1, <1>2, Unhindered, Executed

LEMMA Popped ==
  ASSUME GcOK, Height > 0
  PROVE  RootsOK(kind, SubSeq(stack, 1, Height - 1), open, globals, frames)
<1>1. Height \in Nat /\ Height - 1 \in 0 .. Len(stack)
  BY StackTyped DEF Height
<1> QED BY <1>1, CutDown DEF GcOK, HeapOK

LEMMA PopValueStep ==
  ASSUME GcOK, Settled, PopValue
  PROVE  GcOK'
<1>1. /\ NoAllocation /\ UNCHANGED <<refs, open, globals, frames>>
      /\ stack' = SubSeq(stack, 1, Height - 1) /\ Height > Floor
  BY DEF PopValue, Pop, activations
<1>2. Height > 0
  BY <1>1, FloorTyped, StackTyped
<1>3. RootsOK(kind, stack', open', globals', frames')
  BY <1>1, <1>2, Popped DEF RootsOK
<1> QED BY <1>1, <1>3, Unhindered, Executed

LEMMA SealedStoreStep ==
  ASSUME GcOK, Settled, SealedStore
  PROVE  GcOK'
<1>1. /\ NoAllocation /\ UNCHANGED <<refs, open, globals, frames>> /\ 2 <= Height /\ Height \in Nat
      /\ stack' = Append(SubSeq(stack, 1, Height - 2), Peek(0))
  BY TemporariesFit DEF SealedStore, activations
<1>2. Peek(0) \in Present(kind) \cup {Nil} /\ Height - 2 \in 0 .. Len(stack)
  BY <1>1, StackTyped DEF Height
<1>3. RootsOK(kind, SubSeq(stack, 1, Height - 2), open, globals, frames)
  BY <1>1, <1>2, Unhindered, CutDown
<1>4. RootsOK(kind, stack', open, globals, frames)
  BY <1>1, <1>2, <1>3, Pushed
<1> QED BY <1>1, <1>4, Unhindered, Executed

(* A closed upvalue holds what its slot held, the others stay as they are. *)
LEMMA Closing ==
  ASSUME GcOK, Settled, NEW n, closeUpvalues(n)
  PROVE  /\ GraphOK(kind, link, refs')
         /\ DOMAIN open' = DOMAIN open \ AtOrAbove(n)
         /\ \A u \in DOMAIN open' : open'[u] = open[u]
<1>1. /\ refs' = [o \in Objs |-> IF o \in AtOrAbove(n) THEN Referents({Slot(open[o])}) ELSE refs[o]]
      /\ open' = [u \in DOMAIN open \ AtOrAbove(n) |-> open[u]]
      /\ AtOrAbove(n) \subseteq DOMAIN open
  BY DEF closeUpvalues, AtOrAbove
<1>2. GraphOK(kind, link, refs) /\ DOMAIN open \subseteq Of(kind, "upvalue")
  BY DEF GcOK, HeapOK, RootsOK
<1>3. \A o \in AtOrAbove(n) : Referents({Slot(open[o])}) \subseteq Present(kind)
  <2>1. \A o \in AtOrAbove(n) : open[o] \in 1 .. Height
    BY <1>1 DEF Settled
  <2>2. \A o \in AtOrAbove(n) : Slot(open[o]) \in Present(kind) \cup {Nil}
    BY <2>1, StackTyped DEF Slot
  <2> QED BY <2>2 DEF Referents
<1>4. \A o \in Objs : refs'[o] = refs[o] \/ (o \in Of(kind, "upvalue") /\ refs'[o] \subseteq Present(kind))
  BY <1>1, <1>2, <1>3
<1>5. PICK rr : rr = refs'
  OBVIOUS
<1>6. \A o \in Of(kind, "upvalue") : kind[o] = "upvalue" /\ o \in LiveIn(kind)
  BY KindsOfPresent, KindNames DEF Of
<1>7. rr \in [Objs -> SUBSET Objs]
  <2>1. \A o \in Objs : refs'[o] \subseteq Objs
    BY <1>2, <1>4, KindsOfPresent DEF GraphOK
  <2> QED BY <1>1, <1>5, <2>1
<1>8. \A o \in Objs : rr[o] \subseteq Present(kind)
  BY <1>2, <1>4, <1>5 DEF GraphOK
<1>9. \A o \in Objs : o \notin LiveIn(kind) => rr[o] = {}
  BY <1>2, <1>4, <1>5, <1>6 DEF GraphOK
<1>10. \A t : \A a \in Of(kind, t) : a \in Objs /\ (t # "upvalue" => rr[a] = refs[a])
  BY <1>4, <1>5 DEF Of, Objs
<1>11. GraphOK(kind, link, rr)
  BY <1>2, <1>7, <1>8, <1>9, <1>10 DEF GraphOK
<1> QED BY <1>1, <1>5, <1>11

LEMMA CloseUpvalueStep ==
  ASSUME GcOK, Settled, CloseUpvalue
  PROVE  GcOK'
<1>1. /\ NoAllocation /\ UNCHANGED <<globals, frames>> /\ closeUpvalues(Height)
      /\ stack' = SubSeq(stack, 1, Height - 1) /\ Height > Floor
  BY DEF CloseUpvalue, activations
<1>2. Height > 0
  BY <1>1, FloorTyped, StackTyped
<1>3. GraphOK(kind, link, refs') /\ DOMAIN open' \subseteq DOMAIN open
  BY <1>1, Closing
<1>4. RootsOK(kind, stack', open', globals', frames')
  BY <1>1, <1>2, <1>3, Popped DEF RootsOK
<1> QED BY <1>1, <1>3, <1>4, Unhindered, Executed

(* A slot in the middle of the stack gets another value. *)
LEMMA Assigned ==
  ASSUME GcOK, NEW s \in 1 .. Height, NEW v \in Present(kind) \cup {Nil}
  PROVE  /\ RootsOK(kind, [stack EXCEPT ![s] = v], open, globals, frames)
         /\ Len([stack EXCEPT ![s] = v]) = Height
<1>1. stack \in Seq(Present(kind) \cup {Nil})
  BY StackTyped
<1>2. [stack EXCEPT ![s] = v] \in Seq(Present(kind) \cup {Nil}) /\ Len([stack EXCEPT ![s] = v]) = Height
  BY <1>1 DEF Height
<1> QED BY <1>2 DEF GcOK, HeapOK, RootsOK

LEMMA SetLocalStep ==
  ASSUME GcOK, Settled, NEW s \in 1 .. MaxStack, SetLocal(s)
  PROVE  GcOK'
<1>1. /\ NoAllocation /\ UNCHANGED <<refs, open, globals, frames>>
      /\ stack' = [stack EXCEPT ![s] = Peek(0)] /\ 1 <= Height /\ Height \in Nat /\ Floor \in Nat
      /\ s \in Floor .. Height - 1 /\ s > 0
  BY TemporariesFit DEF SetLocal, activations
<1>2. s \in 1 .. Height /\ Peek(0) \in Present(kind) \cup {Nil}
  BY <1>1, StackTyped
<1>3. RootsOK(kind, stack', open, globals, frames)
  BY <1>1, <1>2, Assigned
<1> QED BY <1>1, <1>3, Unhindered, Executed

LEMMA UpvaluesTyped ==
  ASSUME GcOK, NEW u \in Upvalues
  PROVE  u \in Of(kind, "upvalue") /\ u \in LiveIn(kind) /\ kind[u] = "upvalue"
<1>1. frames # <<>> /\ frames \in Seq(Of(kind, "closure")) /\ GraphOK(kind, link, refs)
  BY DEF Upvalues, GcOK, HeapOK, RootsOK
<1>2. frames[Len(frames)] \in Of(kind, "closure")
  BY <1>1
<1>3. u \in Of(kind, "upvalue")
  BY <1>1, <1>2 DEF GraphOK, Upvalues
<1> QED BY <1>3, KindsOfPresent, KindNames DEF Of

LEMMA GetUpvalueStep ==
  ASSUME GcOK, Settled, NEW u \in Upvalues, GetUpvalue(u)
  PROVE  GcOK'
<1>1. NoAllocation /\ UNCHANGED <<refs, open, globals, frames>>
  BY DEF GetUpvalue, activations
<1>2. \E v \in Present(kind) \cup {Nil} : stack' = Append(stack, v)
  <2>1. CASE \E s \in Location(u) : Push(Slot(s))
    <3>1. PICK s \in Location(u) : Push(Slot(s))
      BY <2>1
    <3>2. s \in 1 .. Height
      BY <3>1 DEF Location, Settled
    <3>3. Slot(s) \in Present(kind) \cup {Nil}
      BY <3>2, StackTyped DEF Slot
    <3> QED BY <3>1, <3>3 DEF Push
  <2>2. CASE \E v \in refs[u] : Push(v)
    <3>1. PICK v \in refs[u] : Push(v)
      BY <2>2
    <3>2. v \in Present(kind)
      BY <3>1, UpvaluesTyped, RefsPresent DEF Present
    <3> QED BY <3>1, <3>2 DEF Push
  <2>3. CASE Push(Nil)
    BY <2>3 DEF Push
  <2> QED BY <2>1, <2>2, <2>3 DEF GetUpvalue
<1>3. RootsOK(kind, stack', open, globals, frames)
  BY <1>1, <1>2, Unhindered, Pushed
<1> QED BY <1>1, <1>3, Unhindered, Executed

LEMMA SetUpvalueStep ==
  ASSUME GcOK, Settled, NEW u \in Upvalues, SetUpvalue(u)
  PROVE  GcOK'
<1>1. NoAllocation /\ UNCHANGED <<open, globals, frames>> /\ 1 <= Height
  BY TemporariesFit DEF SetUpvalue, activations
<1>2. Height > 0 /\ Peek(0) \in Present(kind) \cup {Nil}
  BY <1>1, StackTyped
<1>3. CASE /\ \E s \in Location(u) : s <= Height /\ stack' = [stack EXCEPT ![s] = Peek(0)]
           /\ UNCHANGED refs
  <2>1. PICK s \in Location(u) : stack' = [stack EXCEPT ![s] = Peek(0)]
    BY <1>3
  <2>2. s \in 1 .. Height
    BY <2>1 DEF Location, Settled
  <2>3. RootsOK(kind, stack', open, globals, frames)
    BY <1>2, <2>1, <2>2, Assigned
  <2> QED BY <1>1, <1>3, <2>3, Unhindered, Executed
<1>4. CASE refs' = [refs EXCEPT ![u] = Referents({Peek(0)})] /\ UNCHANGED stack
  <2>1. PICK rs, rr : rs = Referents({Peek(0)}) /\ rr = refs'
    OBVIOUS
  <2>2. rs \subseteq Present(kind)
    BY <1>2, <2>1 DEF Referents
  <2>3. Rewiring(kind, refs, u, rs, rr)
    BY <1>4, <2>1, <2>2, UpvaluesTyped DEF Rewiring
  <2>4. GraphOK(kind, link, rr)
    BY <1>1, <2>3, Unhindered, Rewired
  <2> QED BY <1>1, <1>4, <2>1, <2>4, Unhindered, Executed
<1> QED BY <1>3, <1>4 DEF SetUpvalue

LEMMA FrameEntered ==
  ASSUME NEW S, NEW s \in Seq(S), NEW v \in S
  PROVE  Append(s, v) \in Seq(S)
OBVIOUS

LEMMA CallStep ==
  ASSUME GcOK, Settled, NEW n \in Nat, Call(n)
  PROVE  GcOK'
<1>1. NoAllocation /\ UNCHANGED <<refs, open, globals>> /\ Temporaries(n + 1)
  BY DEF Call
<1>2. Height \in Nat /\ n + 1 <= Height /\ Height - n \in 1 .. Height /\ Peek(n) = stack[Height - n]
  BY <1>1, TemporariesFit DEF Peek
<1>3. RootsOK(kind, stack', open, globals, frames)
      /\ \E c \in Of(kind, "closure") : frames' = Append(frames, c)
  <2>1. CASE Is(Peek(n), "closure") /\ frames' = Append(frames, Peek(n)) /\ UNCHANGED stack
    BY <1>1, <2>1, KindsOfPresent, Unhindered
  <2>2. CASE /\ Is(Peek(n), "bound")
             /\ frames' = Append(frames, link[Peek(n)])
             /\ \E receiver \in refs[Peek(n)] : stack' = [stack EXCEPT ![Height - n] = receiver]
    <3>1. Peek(n) \in LiveIn(kind) /\ Peek(n) \in Of(kind, "bound")
      BY <2>2, KindsOfPresent
    <3>2. link[Peek(n)] \in Of(kind, "closure")
      BY <1>1, <3>1, Unhindered DEF GraphOK
    <3>3. PICK receiver \in refs[Peek(n)] : stack' = [stack EXCEPT ![Height - n] = receiver]
      BY <2>2
    <3>4. receiver \in Present(kind)
      BY <3>1, <3>3, RefsPresent DEF Present
    <3>5. RootsOK(kind, stack', open, globals, frames)
      BY <1>2, <3>3, <3>4, Assigned
    <3> QED BY <2>2, <3>2, <3>5
  <2>3. CASE \E method \in MethodsOf(Peek(n)) : frames' = Append(frames, method) /\ UNCHANGED stack
    BY <1>1, <2>3, MethodsTyped, Unhindered
  <2> QED BY <2>1, <2>2, <2>3 DEF Call
<1>4. RootsOK(kind, stack', open', globals', frames')
  BY <1>1, <1>3, FrameEntered DEF RootsOK
<1> QED BY <1>1, <1>4, Unhindered, Executed

(* What a return leaves of the stack, and how high. *)
LEMMA ReturnTo ==
  ASSUME GcOK, Settled, Return
  PROVE  /\ Floor \in Nat /\ Height \in Nat /\ 1 + Floor <= Height
         /\ RootsOK(kind, stack', open, globals, frames)
         /\ Len(stack') = IF Floor = 0 THEN 1 ELSE Floor
<1>1. Temporaries(1) /\ stack' = Append(SubSeq(stack, 1, Floor - 1), Peek(0))
  BY DEF Return
<1>2. Floor \in Nat /\ Height \in Nat /\ 1 + Floor <= Height
  BY <1>1, TemporariesFit
<1>3. Peek(0) \in Present(kind) \cup {Nil} /\ stack \in Seq(Present(kind) \cup {Nil})
  BY <1>2, StackTyped
<1>4. PICK n \in 0 .. Len(stack) : n = IF Floor = 0 THEN 0 ELSE Floor - 1
  BY <1>2 DEF Height
<1>5. SubSeq(stack, 1, Floor - 1) = SubSeq(stack, 1, n)
  BY <1>2, <1>3, <1>4
<1>6. /\ RootsOK(kind, SubSeq(stack, 1, n), open, globals, frames)
      /\ SubSeq(stack, 1, n) \in Seq(Present(kind) \cup {Nil}) /\ Len(SubSeq(stack, 1, n)) = n
  BY <1>3, <1>4, CutDown, Shortened DEF GcOK, HeapOK
<1>7. RootsOK(kind, stack', open, globals, frames)
  BY <1>1, <1>3, <1>5, <1>6, Pushed
<1>8. Len(stack') = n + 1
  <2>1. PICK t : t = SubSeq(stack, 1, n)
    OBVIOUS
  <2>2. stack' = Append(t, Peek(0)) /\ t \in Seq(Present(kind) \cup {Nil}) /\ Len(t) = n
    BY <1>1, <1>5, <1>6, <2>1
  <2> QED BY <1>3, <2>2
<1> QED BY <1>2, <1>4, <1>7, <1>8

LEMMA ReturnStep ==
  ASSUME GcOK, Settled, Return
  PROVE  GcOK'
<1>1. /\ NoAllocation /\ UNCHANGED globals /\ frames # <<>> /\ closeUpvalues(Floor)
      /\ frames' = SubSeq(frames, 1, Len(frames) - 1)
  BY DEF Return
<1>2. frames \in Seq(Of(kind, "closure"))
  BY <1>1, Unhindered DEF RootsOK
<1>3. Len(frames) - 1 \in 0 .. Len(frames)
  BY <1>1, <1>2
<1>4. SubSeq(frames, 1, Len(frames) - 1) \in Seq(Of(kind, "closure"))
  BY <1>2, <1>3, Shortened
<1>5. GraphOK(kind, link, refs') /\ DOMAIN open' \subseteq DOMAIN open
  BY <1>1, Closing
<1>6. RootsOK(kind, stack', open', globals', frames')
  BY <1>1, <1>4, <1>5, ReturnTo DEF RootsOK
<1> QED BY <1>1, <1>5, <1>6, Unhindered, Executed

LEMMA RuntimeErrorStep ==
  ASSUME GcOK, RuntimeError
  PROVE  GcOK'
<1>1. /\ phase = "run" /\ phase' = phase /\ site' = Idle
      /\ UNCHANGED <<program, kind, link, refs, isMarked, usingMark, globals, grayStack>>
      /\ stack' = <<>> /\ frames' = <<>> /\ open' = [u \in {} |-> 0]
  BY DEF RuntimeError, Ready, heap, collector
<1>2. RootsOK(kind, stack', open', globals', frames')
  BY <1>1 DEF GcOK, HeapOK, RootsOK
<1>3. GraphOK(kind, link, refs')
  BY <1>1 DEF GcOK, HeapOK
<1> QED BY <1>1, <1>2, <1>3, Executed


----------------------------------------------------------------------------
(* What follows a request: stores, and the upvalues of a new closure. *)

LEMMA DefineGlobalStep ==
  ASSUME GcOK, DefineGlobal
  PROVE  GcOK'
<1>1. /\ phase = "run" /\ phase' = phase /\ site' = Idle /\ site.doing = "global"
      /\ globals' = globals \cup Referents({Peek(0)})
      /\ stack' = SubSeq(stack, 1, Height - 1)
      /\ UNCHANGED <<program, kind, link, refs, isMarked, usingMark, open, frames, grayStack>>
  BY DEF DefineGlobal, Granted, Pop, heap, collector, activations
<1>2. Height > 0
  BY <1>1 DEF GcOK, HeapOK, SiteOK, Height
<1>3. Referents({Peek(0)}) \subseteq Present(kind)
  BY <1>2, StackTyped DEF Referents
<1>4. RootsOK(kind, stack', open', globals', frames')
  BY <1>1, <1>2, <1>3, Popped DEF RootsOK
<1>5. GraphOK(kind, link, refs')
  BY <1>1 DEF GcOK, HeapOK
<1> QED BY <1>1, <1>4, <1>5, Executed

LEMMA StoreStep ==
  ASSUME GcOK, Store
  PROVE  GcOK'
<1>1. /\ phase = "run" /\ phase' = phase /\ site' = Idle /\ site.doing = "store"
      /\ refs' = [refs EXCEPT ![Peek(1)] = @ \cup {Peek(0)}]
      /\ \E w \in {Peek(0), Peek(1), Nil} : stack' = Append(SubSeq(stack, 1, Height - 2), w)
      /\ UNCHANGED <<program, kind, link, isMarked, usingMark, open, globals, frames, grayStack>>
  BY DEF Store, Granted, collector, activations
<1>2. /\ Height > 1 /\ stack[Height] # Nil
      /\ Stores(kind, stack[Height - 1], stack[Height])
  BY <1>1 DEF GcOK, HeapOK, SiteOK, Height
<1>3. Height > 0 /\ Height \in Nat
  BY <1>2, StackTyped
<1>4. PICK o, v, rr : o = Peek(1) /\ v = Peek(0) /\ rr = refs'
  OBVIOUS
<1>5. v \in Present(kind) /\ v # Nil /\ Stores(kind, o, v)
  BY <1>2, <1>3, <1>4, StackTyped
<1>6. o \in LiveIn(kind) /\ kind[o] # "closure" /\ (kind[o] = "class" => v \in Of(kind, "closure"))
  BY <1>5 DEF Stores, Of, LiveIn
<1>7. refs[o] \subseteq Present(kind)
  BY <1>6, RefsPresent DEF Present
<1>8. kind[o] = "class" => refs[o] \subseteq Of(kind, "closure")
  BY <1>6 DEF GcOK, HeapOK, GraphOK, Of, LiveIn
<1>9. rr = [refs EXCEPT ![o] = refs[o] \cup {v}]
  BY <1>1, <1>4
<1>10. Rewiring(kind, refs, o, refs[o] \cup {v}, rr)
  BY <1>5, <1>6, <1>7, <1>8, <1>9 DEF Rewiring
<1>11. GraphOK(kind, link, rr)
  BY <1>10, Rewired DEF GcOK, HeapOK
<1>12. RootsOK(kind, stack', open', globals', frames')
  <2>1. PICK w \in {Peek(0), Peek(1), Nil} : stack' = Append(SubSeq(stack, 1, Height - 2), w)
    BY <1>1
  <2>2. w \in Present(kind) \cup {Nil}
    BY <1>2, <1>3, StackTyped
  <2>3. Height - 2 \in 0 .. Len(stack)
    BY <1>2, <1>3 DEF Height
  <2>4. RootsOK(kind, SubSeq(stack, 1, Height - 2), open, globals, frames)
    BY <2>3, CutDown DEF GcOK, HeapOK
  <2> QED BY <1>1, <2>1, <2>2, <2>4, Pushed
<1> QED BY <1>1, <1>4, <1>11, <1>12, Executed

LEMMA FillArrayStep ==
  ASSUME GcOK, FillArray
  PROVE  GcOK'
<1>1. /\ phase = "run" /\ phase' = phase /\ site' = Idle /\ site.doing = "payload"
      /\ refs' = [refs EXCEPT ![Peek(0)] = {Peek(j) : j \in 1 .. site.slot} \ {Nil}]
      /\ stack' = Append(SubSeq(stack, 1, Height - site.slot - 1), Peek(0))
      /\ UNCHANGED <<program, kind, link, isMarked, usingMark, open, globals, frames, grayStack>>
  BY DEF FillArray, Granted, collector, activations
<1>2. PICK n, o, rs, rr : /\ n = site.slot /\ o = Peek(0) /\ rr = refs'
                          /\ rs = {Peek(j) : j \in 1 .. n} \ {Nil}
  OBVIOUS
<1>3. n \in Nat /\ Height > n /\ Height \in Nat /\ stack[Height] \in Of(kind, "array")
  BY <1>1, <1>2, StackTyped DEF GcOK, Marks, Sites, HeapOK, SiteOK, Height
<1>4. Height > 0 /\ o = stack[Height] /\ o \in Present(kind)
  BY <1>2, <1>3, StackTyped, KindsOfPresent, KindNames DEF Present
<1>5. \A j \in 1 .. n : Peek(j) \in Present(kind) \cup {Nil}
  BY <1>3, StackTyped DEF Peek
<1>6. rs \subseteq Present(kind)
  BY <1>2, <1>5
<1>7. o \in LiveIn(kind) /\ kind[o] = "array"
  BY <1>3, <1>4, KindsOfPresent, KindNames DEF Of
<1>8. Rewiring(kind, refs, o, rs, rr)
  BY <1>1, <1>2, <1>6, <1>7 DEF Rewiring
<1>9. GraphOK(kind, link, rr)
  BY <1>8, Rewired DEF GcOK, HeapOK
<1>10. RootsOK(kind, SubSeq(stack, 1, Height - n - 1), open, globals, frames)
  <2>1. Height - n - 1 \in 0 .. Len(stack)
    BY <1>3 DEF Height
  <2> QED BY <2>1, CutDown DEF GcOK, HeapOK
<1>11. RootsOK(kind, stack', open, globals, frames)
  BY <1>1, <1>2, <1>4, <1>10, Pushed
<1> QED BY <1>1, <1>2, <1>9, <1>11, Executed

LEMMA ShareUpvalueStep ==
  ASSUME GcOK, NEW u \in Addresses, ShareUpvalue(u)
  PROVE  GcOK'
<1>1. /\ phase = "run" /\ site.doing = "capture"
      /\ u \in Upvalues \cup DOMAIN open
      /\ refs' = [refs EXCEPT ![Peek(0)] = @ \cup {u}]
      /\ UNCHANGED <<program, kind, link, isMarked, usingMark, stack, open, globals, frames,
                     site, phase, grayStack>>
  BY DEF ShareUpvalue, roots, collector, activations
<1>2. Height > 0 /\ Peek(0) \in Of(kind, "closure")
  BY <1>1, StackTyped DEF GcOK, HeapOK, SiteOK, Height
<1>3. u \in Of(kind, "upvalue")
  BY <1>1, UpvaluesTyped DEF GcOK, HeapOK, RootsOK
<1>4. PICK o, rr : o = Peek(0) /\ rr = refs'
  OBVIOUS
<1>5. /\ o \in LiveIn(kind) /\ kind[o] = "closure" /\ u \in LiveIn(kind)
      /\ Of(kind, "upvalue") \subseteq Present(kind)
  BY <1>2, <1>3, <1>4, KindsOfPresent, KindNames DEF Of, Present
<1>6. refs[o] \subseteq Of(kind, "upvalue")
  BY <1>2, <1>4 DEF GcOK, HeapOK, GraphOK
<1>7. rr = [refs EXCEPT ![o] = refs[o] \cup {u}]
  BY <1>1, <1>4
<1>8. Rewiring(kind, refs, o, refs[o] \cup {u}, rr)
  BY <1>3, <1>5, <1>6, <1>7 DEF Rewiring
<1>9. GraphOK(kind, link, rr)
  BY <1>8, Rewired DEF GcOK, HeapOK
<1>10. HeapOK'
  BY <1>1, <1>4, <1>9 DEF GcOK, HeapOK
<1>11. Marks' /\ CollectorOK'
  BY <1>1, RunOld DEF GcOK, Marks
<1> QED BY <1>10, <1>11 DEF GcOK

----------------------------------------------------------------------------
(* Reachability. *)

LEMMA RootsPresent ==
  ASSUME GcOK
  PROVE  Roots \subseteq Present(kind) /\ MarkedRoots = Roots
<1>1. /\ stack \in Seq(Present(kind) \cup {Nil}) /\ frames \in Seq(Of(kind, "closure"))
      /\ DOMAIN open \subseteq Of(kind, "upvalue") /\ globals \subseteq Present(kind)
  BY DEF GcOK, HeapOK, RootsOK
<1>2. Of(kind, "upvalue") \subseteq Present(kind) /\ Of(kind, "closure") \subseteq Present(kind)
  BY KindsOfPresent, KindNames DEF Present
<1>3. Elements(stack) \subseteq Present(kind) \cup {Nil} /\ Elements(frames) \subseteq Of(kind, "closure")
  BY <1>1, ElementsIn
<1> QED BY <1>1, <1>2, <1>3 DEF Roots, MarkedRoots

LEMMA SuccessorsPresent ==
  ASSUME GcOK, NEW o \in Present(kind)
  PROVE  /\ Successors(o) \subseteq Present(kind) /\ Traced(o) = Successors(o)
         /\ o \in LiveIn(kind) \/ Successors(o) = {}
<1>1. Successors(o) \subseteq Present(kind)
  BY RefsPresent DEF Successors
<1>2. o \in Objs
  BY KindsOfPresent
<1>3. o \in LiveIn(kind) \/ Successors(o) = {}
  BY <1>2 DEF GcOK, HeapOK, GraphOK, Successors
<1> QED BY <1>1, <1>3 DEF Traced, Successors

(* Nothing is read above the top. *)
LEMMA NothingAbove ==
  ASSUME GcOK, Settled
  PROVE  \A o : LeftTo(o) = {}
<1>1. ASSUME NEW u, NEW s \in Location(u)
      PROVE  left[s] = Nil
  <2>1. u \in DOMAIN open /\ s = open[u]
    BY <1>1 DEF Location, Settled
  <2>2. s \in 1 .. Height /\ Height \in Nat
    BY <2>1, StackTyped DEF Settled
  <2> QED BY <2>2, Bounds DEF Settled
<1> QED BY <1>1 DEF LeftTo, Referents

LEMMA ReachableWithin ==
  ASSUME GcOK, Settled, NEW S \in SUBSET Objs, Roots \subseteq S, \A p \in S : Successors(p) \subseteq S
  PROVE  Reachable \subseteq S
<1>1. S \ Roots \in SUBSET (Objs \ Roots) /\ Roots \cup (S \ Roots) = S
  OBVIOUS
<1>2. Closed(S)
  BY NothingAbove DEF Closed
<1> QED BY <1>1, <1>2 DEF Reachable

LEMMA RootsReachable ==
  ASSUME GcOK
  PROVE  Roots \subseteq Reachable
<1>1. Roots \subseteq Objs
  BY RootsPresent, KindsOfPresent
<1> QED BY <1>1 DEF Reachable

LEMMA ReachableOnward ==
  ASSUME GcOK, NEW o \in Present(kind), o \in Reachable
  PROVE  Successors(o) \subseteq Reachable
<1>1. Successors(o) \subseteq Objs
  BY SuccessorsPresent, KindsOfPresent
<1>2. ASSUME NEW p \in Successors(o), NEW others \in SUBSET (Objs \ Roots), Closed(Roots \cup others)
      PROVE  p \in Roots \cup others
  <2>1. o \in Roots \cup others
    BY <1>2 DEF Reachable
  <2> QED BY <1>2, <2>1 DEF Closed
<1> QED BY <1>1, <1>2 DEF Reachable

LEMMA ReachableSame ==
  ASSUME UNCHANGED <<link, refs, stack, left, open, loose, globals, frames>>
  PROVE  Roots' = Roots /\ Reachable' = Reachable /\ \A o : Successors(o)' = Successors(o)
<1>1. Roots' = Roots
  BY DEF Roots, Elements
<1>2. \A o : Successors(o)' = Successors(o)
  BY DEF Successors
<1>3. \A o : LeftTo(o)' = LeftTo(o)
  BY DEF LeftTo, Location
<1>4. Reachable' = Reachable
  BY <1>1, <1>2, <1>3 DEF Reachable, Closed
<1> QED BY <1>1, <1>2, <1>4

(* Nothing in reach is free. *)
LEMMA ReachPresent ==
  ASSUME GcOK, Settled
  PROVE  Reachable \subseteq Present(kind)
<1>1. Present(kind) \in SUBSET Objs
  BY KindsOfPresent
<1> QED BY <1>1, RootsPresent, SuccessorsPresent, ReachableWithin

----------------------------------------------------------------------------
(* The steps of a collection. *)

LEMMA MarkEffect ==
  ASSUME GcOK, NEW S, S \subseteq Present(kind), NEW gray, Mark(S, gray), usingMark' = usingMark
  PROVE  /\ isMarked' \in [Objs -> BOOLEAN]
         /\ \A o \in Objs : Marked(o)' <=> (o \in S \/ Marked(o))
         /\ grayStack' = gray \cup {o \in S : ~ Marked(o)}
<1>1. S \subseteq Objs /\ isMarked \in [Objs -> BOOLEAN] /\ usingMark \in BOOLEAN
  BY KindsOfPresent DEF GcOK, Marks
<1>2. /\ isMarked' = [o \in Objs |-> IF o \in Unmarked(S) THEN usingMark ELSE isMarked[o]]
      /\ grayStack' = gray \cup Unmarked(S)
  BY DEF Mark
<1>3. Unmarked(S) = {o \in S : ~ Marked(o)}
  BY DEF Unmarked, Marked
<1>4. isMarked' \in [Objs -> BOOLEAN]
  BY <1>1, <1>2
<1>5. \A o \in Objs : isMarked'[o] = IF o \in Unmarked(S) THEN usingMark ELSE isMarked[o]
  BY <1>2
<1>6. \A o \in Objs : Marked(o)' <=> (o \in S \/ Marked(o))
  BY <1>3, <1>5 DEF Marked
<1> QED BY <1>2, <1>3, <1>4, <1>6

LEMMA markRootsStep ==
  ASSUME GcOK, markRoots
  PROVE  GcOK'
<1>1. /\ phase = "mark" /\ phase' = "trace" /\ Mark(MarkedRoots, grayStack)
      /\ UNCHANGED <<program, kind, link, refs, usingMark, stack, left, open, loose, globals, frames, site>>
  BY DEF markRoots, roots, activations
<1>2. Roots \subseteq Present(kind) /\ MarkedRoots = Roots /\ Present(kind) \subseteq Objs
      /\ LiveIn(kind) \subseteq Present(kind)
  BY RootsPresent, KindsOfPresent DEF Present
<1>3. /\ isMarked' \in [Objs -> BOOLEAN]
      /\ \A o \in Objs : Marked(o)' <=> (o \in Roots \/ Marked(o))
      /\ grayStack' = grayStack \cup {o \in Roots : ~ Marked(o)}
  BY <1>1, <1>2, MarkEffect
<1>4. grayStack = {} /\ \A a \in LiveIn(kind) : ~ Marked(a)
  BY <1>1 DEF GcOK, CollectorOK, Collecting
<1>5. Marks'
  BY <1>1, <1>3 DEF GcOK, Marks
<1>6. HeapOK'
  BY <1>1 DEF GcOK, HeapOK
<1>7. Roots' = Roots /\ Reachable' = Reachable /\ \A o : Successors(o)' = Successors(o)
  BY <1>1, ReachableSame
<1>8. \A o \in grayStack' : o \in Present(kind) /\ Marked(o)'
  BY <1>2, <1>3, <1>4
<1>9. \A o \in Present(kind) : o \notin grayStack' /\ Marked(o)' => \A p \in Successors(o) : Marked(p)'
  <2>1. \A o \in LiveIn(kind) : Marked(o)' => o \in grayStack'
    BY <1>2, <1>3, <1>4
  <2> QED BY <2>1, SuccessorsPresent
<1>10. \A a \in LiveIn(kind) : Marked(a)' => a \in Reachable
  BY <1>2, <1>3, <1>4, RootsReachable
<1>11. \A o \in Roots : Marked(o)'
  BY <1>2, <1>3
<1>12. CollectorOK'
  BY <1>1, <1>7, <1>8, <1>9, <1>10, <1>11 DEF CollectorOK, Collecting
<1> QED BY <1>5, <1>6, <1>12 DEF GcOK

LEMMA blackenObjectStep ==
  ASSUME GcOK, NEW o \in grayStack, blackenObject(o)
  PROVE  GcOK'
<1>1. /\ phase = "trace" /\ phase' = phase /\ Mark(Traced(o), grayStack \ {o})
      /\ UNCHANGED <<program, kind, link, refs, usingMark, stack, left, open, loose, globals, frames, site>>
  BY DEF blackenObject, roots, activations
<1>2. /\ o \in Present(kind) /\ Marked(o)
      /\ \A q \in grayStack : q \in Present(kind) /\ Marked(q)
      /\ \A q \in Roots : Marked(q)
      /\ \A q \in Present(kind) : q \notin grayStack /\ Marked(q) => \A p \in Successors(q) : Marked(p)
      /\ \A a \in LiveIn(kind) : Marked(a) => a \in Reachable
  BY <1>1 DEF GcOK, CollectorOK, Collecting
<1>3. /\ Successors(o) \subseteq Present(kind) /\ Traced(o) = Successors(o)
      /\ o \in LiveIn(kind) \/ Successors(o) = {}
  BY <1>2, SuccessorsPresent
<1>4. /\ isMarked' \in [Objs -> BOOLEAN]
      /\ \A q \in Objs : Marked(q)' <=> (q \in Successors(o) \/ Marked(q))
      /\ grayStack' = (grayStack \ {o}) \cup {q \in Successors(o) : ~ Marked(q)}
  BY <1>1, <1>3, MarkEffect
<1>5. Present(kind) \subseteq Objs /\ LiveIn(kind) \subseteq Objs
  BY KindsOfPresent DEF LiveIn, Objs
<1>6. Marks'
  BY <1>1, <1>4 DEF GcOK, Marks
<1>7. HeapOK'
  BY <1>1 DEF GcOK, HeapOK
<1>8. Roots' = Roots /\ Reachable' = Reachable /\ \A q : Successors(q)' = Successors(q)
  BY <1>1, ReachableSame
<1>9. \A q \in grayStack' : q \in Present(kind) /\ Marked(q)'
  BY <1>2, <1>3, <1>4, <1>5
<1>10. \A q \in Present(kind) : q \notin grayStack' /\ Marked(q)' => \A p \in Successors(q) : Marked(p)'
  <2>1. ASSUME NEW q \in Present(kind), q \notin grayStack', Marked(q)', NEW p \in Successors(q)
        PROVE  Marked(p)'
    <3>1. p \in Objs /\ q \in Objs
      BY <1>5, SuccessorsPresent
    <3>2. CASE q = o
      BY <1>4, <3>1, <3>2
    <3>3. CASE q # o
      <4>1. q \notin grayStack /\ Marked(q)
        BY <1>4, <2>1, <3>1, <3>3
      <4> QED BY <1>2, <1>4, <3>1, <4>1
    <3> QED BY <3>2, <3>3
  <2> QED BY <2>1
<1>11. \A a \in LiveIn(kind) : Marked(a)' => a \in Reachable
  <2>1. Successors(o) \subseteq Reachable
    BY <1>2, <1>3, ReachableOnward
  <2> QED BY <1>2, <1>4, <1>5, <2>1
<1>12. \A q \in Roots : Marked(q)'
  BY <1>2, <1>4, <1>5, RootsPresent
<1>13. CollectorOK'
  BY <1>1, <1>8, <1>9, <1>10, <1>11, <1>12 DEF CollectorOK, Collecting
<1> QED BY <1>6, <1>7, <1>13 DEF GcOK

LEMMA TraceEndsStep ==
  ASSUME GcOK, TraceEnds
  PROVE  GcOK'
<1>1. /\ phase = "trace" /\ phase' = "sweep" /\ grayStack = {}
      /\ UNCHANGED <<program, kind, link, refs, isMarked, usingMark, stack, left, open, loose,
                     globals, frames, site, grayStack>>
  BY DEF TraceEnds, heap, roots, activations
<1>2. Roots' = Roots /\ Reachable' = Reachable /\ \A q : Successors(q)' = Successors(q)
  BY <1>1, ReachableSame
<1>3. Marks' /\ HeapOK'
  BY <1>1 DEF GcOK, Marks, HeapOK
<1>4. \A o : Marked(o)' <=> Marked(o)
  BY <1>1 DEF Marked
<1>5. CollectorOK'
  BY <1>1, <1>2, <1>4 DEF GcOK, CollectorOK, Collecting
<1> QED BY <1>3, <1>5 DEF GcOK

LEMMA FlipStep ==
  ASSUME GcOK, Flip
  PROVE  GcOK'
<1>1. /\ phase = "swept" /\ phase' = "run" /\ usingMark' = ~ usingMark
      /\ UNCHANGED <<program, kind, link, refs, isMarked, stack, open, globals, frames,
                     site, grayStack>>
  BY DEF Flip, NextMark, roots, activations
<1>2. Marks' /\ HeapOK'
  BY <1>1 DEF GcOK, Marks, HeapOK
<1>3. \A a \in LiveIn(kind) : isMarked[a] = usingMark
  BY <1>1 DEF GcOK, CollectorOK, Marked
<1>4. \A a \in LiveIn(kind') : isMarked'[a] # usingMark'
  BY <1>1, <1>3 DEF GcOK, Marks
<1>5. grayStack' = {}
  BY <1>1 DEF GcOK, CollectorOK
<1>6. CollectorOK'
  BY <1>1, <1>4, <1>5 DEF CollectorOK, Collecting, Marked
<1> QED BY <1>2, <1>6 DEF GcOK

(* What a sweep leaves: the marked objects. *)
Left(k) == {a \in LiveIn(k) : Marked(a)}

(* Whatever stays points to what stays. *)
SelfContained(k, l, r, K) ==
  /\ K \subseteq LiveIn(k)
  /\ \A o \in K : r[o] \subseteq K \cup Statics /\ l[o] \in K \cup Statics \cup {Nil}

Cleared(k, l, r, K, nk, ll, rr) ==
  /\ nk = [a \in Addresses |-> IF a \in LiveIn(k) \ K THEN "free" ELSE k[a]]
  /\ ll = [o \in Objs |-> IF o \in LiveIn(k) \ K THEN Nil ELSE l[o]]
  /\ rr = [o \in Objs |-> IF o \in LiveIn(k) \ K THEN {} ELSE r[o]]

LEMMA Swept ==
  ASSUME NEW k, NEW l, NEW r, NEW K, NEW nk, NEW ll, NEW rr,
         GraphOK(k, l, r), SelfContained(k, l, r, K), Cleared(k, l, r, K, nk, ll, rr)
  PROVE  /\ GraphOK(nk, ll, rr) /\ LiveIn(nk) = K /\ Present(nk) = K \cup Statics
         /\ \A t \in Kinds : Of(nk, t) = Of(k, t) \cap K
         /\ \A o \in K \cup Statics : ll[o] = l[o] /\ rr[o] = r[o]
<1>1. /\ nk = [a \in Addresses |-> IF a \in LiveIn(k) \ K THEN "free" ELSE k[a]]
      /\ ll = [o \in Objs |-> IF o \in LiveIn(k) \ K THEN Nil ELSE l[o]]
      /\ rr = [o \in Objs |-> IF o \in LiveIn(k) \ K THEN {} ELSE r[o]]
  BY DEF Cleared
<1>2. /\ K \subseteq LiveIn(k)
      /\ \A o \in K : r[o] \subseteq K \cup Statics /\ l[o] \in K \cup Statics \cup {Nil}
  BY DEF SelfContained
<1>3. /\ k \in [Addresses -> Kinds \cup {"free"}] /\ "free" \notin Kinds
      /\ l \in [Objs -> Objs \cup {Nil}] /\ r \in [Objs -> SUBSET Objs]
  BY DEF GraphOK, Kinds
<1>4. LiveIn(k) \subseteq Addresses /\ Addresses \subseteq Objs /\ Statics \subseteq Objs
      /\ Addresses \cap Statics = {} /\ Nil \notin Objs
  BY GcAssumption DEF LiveIn, Objs
<1>5. nk \in [Addresses -> Kinds \cup {"free"}]
  BY <1>1, <1>3
<1>6. \A a \in Addresses : nk[a] = IF a \in LiveIn(k) \ K THEN "free" ELSE k[a]
  BY <1>1
<1>7. LiveIn(nk) = K
  BY <1>2, <1>4, <1>6 DEF LiveIn
<1>8. Present(nk) = K \cup Statics
  BY <1>7 DEF Present
<1>9. \A t \in Kinds : Of(nk, t) = Of(k, t) \cap K
  <2>1. \A a \in Addresses : \A t \in Kinds : nk[a] = t <=> (k[a] = t /\ a \in K)
    BY <1>2, <1>3, <1>6 DEF LiveIn
  <2> QED BY <1>2, <1>4, <2>1 DEF Of
<1>10. \A o \in Objs : /\ ll[o] = IF o \in LiveIn(k) \ K THEN Nil ELSE l[o]
                       /\ rr[o] = IF o \in LiveIn(k) \ K THEN {} ELSE r[o]
  BY <1>1
<1>11. ll \in [Objs -> Objs \cup {Nil}] /\ rr \in [Objs -> SUBSET Objs]
  BY <1>1, <1>3
<1>12. \A o \in K \cup Statics : ll[o] = l[o] /\ rr[o] = r[o]
  BY <1>2, <1>4, <1>10
<1>13. \A o \in Objs : o \notin K => rr[o] = {} /\ ll[o] = Nil
  BY <1>10 DEF GraphOK
<1>14. \A o \in Objs : rr[o] \subseteq Present(nk) /\ ll[o] \in Present(nk) \cup {Nil}
  BY <1>2, <1>8, <1>12, <1>13
<1>15. \A t \in Kinds : \A a \in Of(nk, t) : a \in Of(k, t) /\ a \in K /\ ll[a] = l[a] /\ rr[a] = r[a]
  BY <1>9, <1>12
<1>16. \A t \in Kinds : Of(k, t) \cap Statics = {}
  BY <1>4 DEF Of
<1>17. \A a \in Of(nk, "class") : rr[a] \subseteq Of(nk, "closure")
  <2>1. \A a \in Of(nk, "class") : rr[a] \subseteq Of(k, "closure") /\ rr[a] \subseteq K \cup Statics
    BY <1>2, <1>15, KindNames DEF GraphOK
  <2>2. "closure" \in Kinds
    BY KindNames
  <2> QED BY <1>9, <1>16, <2>1, <2>2
<1>18. \A a \in Of(nk, "closure") : rr[a] \subseteq Of(nk, "upvalue")
  <2>1. \A a \in Of(nk, "closure") : rr[a] \subseteq Of(k, "upvalue") /\ rr[a] \subseteq K \cup Statics
    BY <1>2, <1>15, KindNames DEF GraphOK
  <2>2. "upvalue" \in Kinds
    BY KindNames
  <2> QED BY <1>9, <1>16, <2>1, <2>2
<1>19. \A a \in Of(nk, "bound") : ll[a] \in Of(nk, "closure")
  <2>1. \A a \in Of(nk, "bound") : ll[a] \in Of(k, "closure") /\ ll[a] \in K \cup Statics \cup {Nil}
    BY <1>2, <1>15, KindNames DEF GraphOK
  <2>2. "closure" \in Kinds /\ Nil \notin Of(k, "closure")
    BY <1>4, KindNames DEF Of
  <2> QED BY <1>9, <1>16, <2>1, <2>2
<1>20. GraphOK(nk, ll, rr)
  BY <1>5, <1>7, <1>11, <1>13, <1>14, <1>17, <1>18, <1>19 DEF GraphOK
<1> QED BY <1>7, <1>8, <1>9, <1>12, <1>20

LEMMA ElementsTyped ==
  ASSUME NEW S, NEW T, NEW s \in Seq(S), \A i \in 1 .. Len(s) : s[i] \in T
  PROVE  s \in Seq(T)
OBVIOUS

LEMMA ElementAt ==
  ASSUME NEW S, NEW s \in Seq(S), NEW i \in 1 .. Len(s)
  PROVE  s[i] \in Elements(s)
BY DEF Elements

LEMMA SweepStep ==
  ASSUME GcOK, Settled, Sweep
  PROVE  GcOK'
<1>1. PICK K : K = {a \in LiveIn(kind) : Marked(a)}
  OBVIOUS
<1>2. /\ phase = "sweep" /\ phase' = "swept"
      /\ Cleared(kind, link, refs, K, kind', link', refs')
      /\ isMarked' = [o \in Objs |-> IF o \in LiveIn(kind) \ K THEN FALSE ELSE isMarked[o]]
      /\ UNCHANGED <<program, usingMark, stack, open, globals, frames, site, grayStack>>
  <2>1. {a \in Live : isMarked[a] # usingMark} = LiveIn(kind) \ K
    BY <1>1, KindsOfPresent DEF Marked
  <2> QED BY <2>1 DEF Sweep, Cleared, activations
<1>3. /\ grayStack = {} /\ \A q \in Roots : Marked(q)
      /\ \A q \in Present(kind) : Marked(q) => \A p \in Successors(q) : Marked(p)
      /\ \A a \in LiveIn(kind) : Marked(a) => a \in Reachable
  BY <1>2 DEF GcOK, CollectorOK, Collecting
<1>4. K \subseteq LiveIn(kind) /\ Present(kind) = LiveIn(kind) \cup Statics
  BY <1>1 DEF Present
<1>5. \A q \in Present(kind) : Marked(q) => q \in K \cup Statics
  BY <1>1, <1>4
<1>6. \A q \in K \cup Statics : Successors(q) \subseteq K \cup Statics
  <2>1. \A q \in K : Successors(q) \subseteq K \cup Statics
    BY <1>1, <1>3, <1>4, <1>5, SuccessorsPresent
  <2>2. \A q \in Statics : Successors(q) = {}
    BY <1>4, SuccessorsPresent, GcAssumption DEF LiveIn
  <2> QED BY <2>1, <2>2
<1>7. SelfContained(kind, link, refs, K)
  BY <1>4, <1>6 DEF SelfContained, Successors
<1>8. PICK nk, ll, rr : nk = kind' /\ ll = link' /\ rr = refs'
  OBVIOUS
<1>9. /\ GraphOK(nk, ll, rr) /\ LiveIn(nk) = K /\ Present(nk) = K \cup Statics
      /\ \A t \in Kinds : Of(nk, t) = Of(kind, t) \cap K
      /\ \A o \in K \cup Statics : ll[o] = link[o] /\ rr[o] = refs[o]
  <2>1. Cleared(kind, link, refs, K, nk, ll, rr) /\ GraphOK(kind, link, refs)
    BY <1>2, <1>8 DEF GcOK, HeapOK
  <2> QED BY <1>7, <2>1, Swept
<1>10. Roots \subseteq K \cup Statics
  BY <1>3, <1>5, RootsPresent
<1>11. Nil \notin K \cup Statics /\ \A t \in Kinds : Of(kind, t) \cap Statics = {}
  BY <1>4, KindsOfPresent, GcAssumption DEF Of
<1>12. \A v \in (Elements(stack) \cup Elements(frames) \cup DOMAIN open \cup globals) :
         v = Nil \/ v \in K \cup Statics
  BY <1>10 DEF Roots
<1>13. RootsOK(kind, stack, open, globals, frames) /\ SiteOK(kind, stack, site)
  BY DEF GcOK, HeapOK
<1>14. RootsOK(nk, stack, open, globals, frames)
  <2>1. stack \in Seq(Present(nk) \cup {Nil})
    <3>1. stack \in Seq(Present(kind) \cup {Nil})
      BY StackTyped
    <3>2. \A i \in 1 .. Len(stack) : stack[i] \in Elements(stack)
      BY <3>1, ElementAt
    <3>3. \A i \in 1 .. Len(stack) : stack[i] \in Present(nk) \cup {Nil}
      BY <1>9, <1>12, <3>2
    <3> QED BY <3>1, <3>3, ElementsTyped
  <2>2. frames \in Seq(Of(nk, "closure"))
    <3>1. frames \in Seq(Of(kind, "closure"))
      BY <1>13 DEF RootsOK
    <3>2. \A i \in 1 .. Len(frames) : frames[i] \in Elements(frames) /\ frames[i] \in Of(kind, "closure")
      BY <3>1, ElementAt
    <3>3. Nil \notin Of(kind, "closure") /\ "closure" \in Kinds
      BY GcAssumption, KindNames DEF Of
    <3>4. \A i \in 1 .. Len(frames) : frames[i] \in Of(nk, "closure")
      BY <1>9, <1>11, <1>12, <3>2, <3>3
    <3> QED BY <3>1, <3>4, ElementsTyped
  <2>3. DOMAIN open \subseteq Of(nk, "upvalue")
    <3>1. DOMAIN open \subseteq Of(kind, "upvalue") /\ Nil \notin Of(kind, "upvalue") /\ "upvalue" \in Kinds
      BY <1>13, GcAssumption, KindNames DEF RootsOK, Of
    <3> QED BY <1>9, <1>11, <1>12, <3>1
  <2>4. globals \subseteq Present(nk)
    <3>1. Nil \notin globals
      BY <1>13, KindsOfPresent DEF RootsOK
    <3> QED BY <1>9, <1>12, <3>1
  <2> QED BY <2>1, <2>2, <2>3, <2>4 DEF RootsOK
<1>15. \A i \in 1 .. Height : stack[i] \in K \cup Statics \cup {Nil}
  <2>1. stack \in Seq(Present(nk) \cup {Nil})
    BY <1>14 DEF RootsOK
  <2> QED BY <1>9, <2>1 DEF Height
<1>16. \A t \in Kinds : \A i \in 1 .. Height : stack[i] \in Of(kind, t) => stack[i] \in Of(nk, t)
  <2>1. \A t \in Kinds : Nil \notin Of(kind, t)
    BY GcAssumption DEF Of
  <2> QED BY <1>9, <1>11, <1>15, <2>1
<1>17. SiteOK(nk, stack, site)
  <2>1. Height \in Nat /\ (Height > 0 => Height \in 1 .. Height)
        /\ (Height > 1 => Height - 1 \in 1 .. Height /\ Height \in 1 .. Height)
    BY StackTyped
  <2>2. {"closure", "array", "instance", "class"} \subseteq Kinds
    BY KindNames
  <2>3. site.doing = "store" =>
          Height > 1 /\ stack[Height] # Nil /\ Stores(kind, stack[Height - 1], stack[Height])
    BY <1>13 DEF SiteOK, Height
  <2>4. site.doing = "store" => Stores(nk, stack[Height - 1], stack[Height])
    <3>1. ASSUME site.doing = "store"
          PROVE  Stores(nk, stack[Height - 1], stack[Height])
      BY <1>16, <2>1, <2>2, <2>3, <3>1 DEF Stores
    <3> QED BY <3>1
  <2>5. /\ site.doing \in {"capture", "upvalue"} => Height > 0 /\ stack[Height] \in Of(kind, "closure")
        /\ site.doing = "payload" => Height > site.slot /\ stack[Height] \in Of(kind, "array")
        /\ site \in Sites
    BY <1>13 DEF SiteOK, Height, GcOK, Marks
  <2>6. site.doing \in {"capture", "upvalue"} => stack[Height] \in Of(nk, "closure")
    BY <1>16, <2>1, <2>2, <2>5
  <2>7. site.doing = "payload" => stack[Height] \in Of(nk, "array")
    <3>1. site.slot \in Nat
      BY <2>5 DEF Sites
    <3>2. site.doing = "payload" => Height > 0
      BY <2>1, <2>5, <3>1
    <3> QED BY <1>16, <2>1, <2>2, <2>5, <3>2
  <2> QED BY <1>13, <2>3, <2>4, <2>5, <2>6, <2>7 DEF SiteOK, Height
<1>18. HeapOK'
  BY <1>2, <1>8, <1>9, <1>14, <1>17 DEF HeapOK
<1>19. isMarked' \in [Objs -> BOOLEAN] /\ \A o \in K \cup Statics : isMarked'[o] = isMarked[o]
  <2>1. isMarked \in [Objs -> BOOLEAN] /\ K \cup Statics \subseteq Objs /\ LiveIn(kind) \cap Statics = {}
    BY <1>4, KindsOfPresent, GcAssumption DEF GcOK, Marks, LiveIn
  <2> QED BY <1>2, <2>1
<1>20. Marks'
  BY <1>2, <1>19 DEF GcOK, Marks
<1>21. \A a \in K : Marked(a)'
  BY <1>1, <1>2, <1>19 DEF Marked
<1>22. Roots' = Roots /\ \A q \in K \cup Statics : Successors(q)' = Successors(q)
  <2>1. Roots' = Roots
    BY <1>2 DEF Roots, Elements
  <2> QED BY <1>8, <1>9, <2>1 DEF Successors
<1>23. \A q \in Roots : Marked(q)'
  BY <1>2, <1>3, <1>10, <1>19 DEF Marked
<1>24. \A q \in Present(nk) : Marked(q)' => \A p \in Successors(q)' : Marked(p)'
  <2>1. \A q \in K \cup Statics : Marked(q)' <=> Marked(q)
    BY <1>2, <1>19 DEF Marked
  <2>2. ASSUME NEW q \in K \cup Statics, Marked(q)', NEW p \in Successors(q)
        PROVE  Marked(p)'
    <3>1. q \in Present(kind) /\ Marked(q) /\ p \in K \cup Statics
      BY <1>4, <1>6, <2>1, <2>2
    <3> QED BY <1>3, <2>1, <2>2, <3>1
  <2> QED BY <1>9, <1>22, <2>2
<1>25. \A a \in K : a \in Reachable'
  <2>1. ASSUME NEW S \in SUBSET Objs, Roots \subseteq S,
               \A q \in S : Successors(q)' \cup LeftTo(q)' \subseteq S
        PROVE  K \subseteq S
    <3>1. S \cap (K \cup Statics) \in SUBSET Objs /\ Roots \subseteq S \cap (K \cup Statics)
      BY <1>10, <2>1
    <3>2. \A q \in S \cap (K \cup Statics) : Successors(q) \subseteq S \cap (K \cup Statics)
      BY <1>6, <1>22, <2>1
    <3>3. Reachable \subseteq S \cap (K \cup Statics)
      BY <3>1, <3>2, ReachableWithin
    <3> QED BY <1>1, <1>3, <3>3
  <2>2. K \subseteq Objs
    BY <1>4, KindsOfPresent
  <2>3. ASSUME NEW a \in K, NEW others \in SUBSET (Objs \ Roots), Closed(Roots \cup others)'
        PROVE  a \in Roots \cup others
    <3>1. PICK S : S = Roots \cup others
      OBVIOUS
    <3>2. Roots' = Roots /\ \A q \in S : Successors(q)' \cup LeftTo(q)' \subseteq S
      BY <1>22, <2>3, <3>1 DEF Closed
    <3>3. S \in SUBSET Objs /\ Roots \subseteq S
      BY <1>10, <2>2, <3>1 DEF Objs
    <3>4. K \subseteq S
      BY <2>1, <3>2, <3>3
    <3> QED BY <3>1, <3>4
  <2> QED BY <1>22, <2>2, <2>3 DEF Reachable
<1>26. CollectorOK'
  BY <1>2, <1>3, <1>8, <1>9, <1>21, <1>22, <1>23, <1>24, <1>25 DEF CollectorOK, Collecting
<1> QED BY <1>18, <1>20, <1>26 DEF GcOK

----------------------------------------------------------------------------
LEMMA InitOK == Init => GcOK
<1> SUFFICES ASSUME Init PROVE GcOK
  OBVIOUS
<1>1. Marks
  BY IdleSite DEF Init, Marks
<1>2. LiveIn(kind) = {} /\ \A t \in Kinds : Of(kind, t) = {}
  <2>1. "free" \notin Kinds
    BY DEF Kinds
  <2> QED BY <2>1 DEF Init, LiveIn, Of
<1>3. GraphOK(kind, link, refs)
  BY <1>2, KindNames DEF Init, GraphOK
<1>4. RootsOK(kind, stack, open, globals, frames)
  BY DEF Init, RootsOK
<1>5. HeapOK
  BY <1>3, <1>4, IdleSite DEF Init, HeapOK
<1>6. CollectorOK
  BY <1>2 DEF Init, CollectorOK, Collecting
<1> QED BY <1>1, <1>5, <1>6 DEF GcOK

LEMMA AllocateStep ==
  ASSUME GcOK, Settled, Allocate
  PROVE  GcOK'
<1>1. PICK a \in Addresses :
        \/ NewClass(a) \/ NewInstance(a) \/ NewClosure(a) \/ NewUpvalue(a) \/ Instantiate(a)
        \/ \E n \in 0 .. MaxRefs : NewArray(a, n)
        \/ \E method \in Addresses : bindMethod(a, method)
  BY DEF Allocate
<1>2. CASE NewClass(a)
  BY <1>2, NewClassStep
<1>3. CASE NewInstance(a)
  BY <1>3, NewInstanceStep
<1>4. CASE NewClosure(a)
  BY <1>4, NewClosureStep
<1>5. CASE NewUpvalue(a)
  BY <1>5, NewUpvalueStep
<1>6. CASE Instantiate(a)
  BY <1>6, InstantiateStep
<1>7. CASE \E n \in 0 .. MaxRefs : NewArray(a, n)
  <2>1. PICK n \in 0 .. MaxRefs : NewArray(a, n)
    BY <1>7
  <2>2. n \in Nat
    BY <2>1
  <2> QED BY <2>1, <2>2, NewArrayStep
<1>8. CASE \E method \in Addresses : bindMethod(a, method)
  BY <1>8, bindMethodStep
<1> QED BY <1>1, <1>2, <1>3, <1>4, <1>5, <1>6, <1>7, <1>8

LEMMA CollectorStep ==
  ASSUME GcOK, Settled, Collector
  PROVE  GcOK'
<1>1. CASE markRoots
  BY <1>1, markRootsStep
<1>2. CASE TraceEnds
  BY <1>2, TraceEndsStep
<1>3. CASE Sweep
  BY <1>3, SweepStep
<1>4. CASE Flip
  BY <1>4, FlipStep
<1>5. CASE \E o \in grayStack : blackenObject(o)
  BY <1>5, blackenObjectStep
<1> QED BY <1>1, <1>2, <1>3, <1>4, <1>5 DEF Collector

LEMMA StutterStep ==
  ASSUME GcOK, UNCHANGED vars
  PROVE  GcOK'
<1>1. UNCHANGED <<program, kind, link, refs, isMarked, usingMark, stack, left, open, loose,
                  globals, frames, site, phase, grayStack>>
  BY DEF vars
<1>2. Roots' = Roots /\ Reachable' = Reachable /\ \A q : Successors(q)' = Successors(q)
  BY <1>1, ReachableSame
<1>3. Marks' /\ HeapOK'
  BY <1>1 DEF GcOK, Marks, HeapOK
<1>4. \A o : Marked(o)' <=> Marked(o)
  BY <1>1 DEF Marked
<1>5. CollectorOK'
  BY <1>1, <1>2, <1>4 DEF GcOK, CollectorOK, Collecting
<1> QED BY <1>3, <1>5 DEF GcOK

----------------------------------------------------------------------------
(* Upvalues are closed in time: none is left above the top. *)

LEMMA IdleWaits == \A op, h : Waits(op, h, Idle)
BY DEF Waits, Idle

LEMMA Heights ==
  ASSUME GcOK
  PROVE  /\ Height \in Nat
         /\ \A v : Len(Append(stack, v)) = Height + 1
         /\ \A s, v : Len([stack EXCEPT ![s] = v]) = Height
         /\ \A n \in 0 .. Height : /\ Len(SubSeq(stack, 1, n)) = n
                                   /\ \A v : Len(Append(SubSeq(stack, 1, n), v)) = n + 1
<1>1. PICK S : stack \in Seq(S)
  BY StackTyped
<1>2. Height \in Nat
  BY StackTyped
<1>3. \A v : Len(Append(stack, v)) = Height + 1
  BY <1>1 DEF Height
<1>4. \A s, v : Len([stack EXCEPT ![s] = v]) = Height
  BY <1>1 DEF Height
<1>5. ASSUME NEW n \in 0 .. Height
      PROVE  /\ Len(SubSeq(stack, 1, n)) = n
             /\ \A v : Len(Append(SubSeq(stack, 1, n), v)) = n + 1
  <2>1. SubSeq(stack, 1, n) \in Seq(S) /\ Len(SubSeq(stack, 1, n)) = n
    BY <1>1, <1>5, Shortened DEF Height
  <2> QED BY <2>1
<1> QED BY <1>2, <1>3, <1>4, <1>5

LEMMA SettledStep ==
  ASSUME Settled, NEW h \in Nat, Len(stack') = h, h <= MaxStack,
         NEW op, op = open', \A u \in DOMAIN op : op[u] \in 1 .. h,
         left' = left \/ KeepLeft(op), DOMAIN loose' = {},
         slots' \in Seq(Nat), Len(slots') = Len(frames'),
         NEW si, si = site', Waits(op, h, si)
  PROVE  Settled'
<1>1. left' = [s \in 1 .. MaxStack |-> Nil]
  <2>1. CASE left' = left
    BY <2>1 DEF Settled
  <2>2. CASE KeepLeft(op)
    <3>1. \A s \in 1 .. MaxStack :
            ~ (s > Len(stack') /\ \/ \E u \in DOMAIN op : op[u] = s
                                  \/ \E u \in DOMAIN loose : loose[u] = s)
      BY DEF Settled
    <3>2. left' = [s \in 1 .. MaxStack |->
                     IF s > Len(stack') /\ \/ \E u \in DOMAIN op : op[u] = s
                                           \/ \E u \in DOMAIN loose : loose[u] = s
                       THEN Slot(s)
                       ELSE Nil]
      BY <2>2 DEF KeepLeft
    <3> QED BY <3>1, <3>2
  <2> QED BY <2>1, <2>2
<1>2. Height' = h
  BY DEF Height
<1> QED BY <1>1, <1>2 DEF Settled

(* The stack keeps its height. *)
LEMMA Undisturbed ==
  ASSUME GcOK, Settled, UNCHANGED <<left, open, loose, frames, slots>>, Len(stack') = Height,
         NEW si, si = site', Waits(open, Height, si)
  PROVE  Settled'
<1>1. PICK op : op = open'
  OBVIOUS
<1>2. Height \in Nat /\ op = open /\ \A u \in DOMAIN op : op[u] \in 1 .. Height
  BY <1>1, StackTyped DEF Settled
<1>3. Height <= MaxStack /\ DOMAIN loose' = {} /\ slots' \in Seq(Nat) /\ Len(slots') = Len(frames')
  BY DEF Settled
<1> QED BY <1>1, <1>2, <1>3, SettledStep

(* A value is pushed. *)
LEMMA Raised ==
  ASSUME GcOK, Settled, NEW v, Push(v), UNCHANGED <<open, loose, frames, slots>>,
         NEW si, si = site', Waits(open, Height + 1, si)
  PROVE  Settled'
<1>1. PICK op : op = open'
  OBVIOUS
<1>2. Height \in Nat /\ op = open /\ \A u \in DOMAIN op : op[u] \in 1 .. Height + 1
  BY <1>1, StackTyped DEF Settled
<1>3. Height + 1 <= MaxStack /\ Len(stack') = Height + 1 /\ KeepLeft(op)
  BY <1>2, Heights, Bounds DEF Push, SlotFree
<1>4. DOMAIN loose' = {} /\ slots' \in Seq(Nat) /\ Len(slots') = Len(frames')
  BY DEF Settled
<1> QED BY <1>1, <1>2, <1>3, <1>4, SettledStep

(* Values are popped that no upvalue points to. *)
LEMMA Lowered ==
  ASSUME GcOK, Settled, NEW n \in Nat, \A u \in DOMAIN open : open[u] <= n, n <= Height,
         Len(stack') = n, KeepLeft(open), UNCHANGED <<open, loose, frames, slots>>, site' = Idle
  PROVE  Settled'
<1>1. PICK op, si : op = open' /\ si = site'
  OBVIOUS
<1>2. Height \in Nat /\ op = open /\ \A u \in DOMAIN op : op[u] \in 1 .. n
  BY <1>1, StackTyped DEF Settled
<1>3. n <= MaxStack /\ DOMAIN loose' = {} /\ slots' \in Seq(Nat) /\ Len(slots') = Len(frames')
  BY <1>2, Bounds DEF Settled
<1>4. KeepLeft(op) /\ Waits(op, n, si)
  BY <1>1, <1>2, IdleWaits
<1> QED BY <1>1, <1>2, <1>3, <1>4, SettledStep

LEMMA AllocateSettles ==
  ASSUME GcOK, Settled, Allocate
  PROVE  Settled'
<1>1. PICK a \in Addresses :
        \/ NewClass(a) \/ NewInstance(a) \/ NewClosure(a) \/ NewUpvalue(a) \/ Instantiate(a)
        \/ \E n \in 0 .. MaxRefs : NewArray(a, n)
        \/ \E method \in Addresses : bindMethod(a, method)
  BY DEF Allocate
<1>2. PICK si : si = site'
  OBVIOUS
<1>3. CASE NewClass(a) \/ NewInstance(a) \/ NewClosure(a)
  <2>1. Push(a) /\ UNCHANGED <<open, loose, frames, slots>>
        /\ (site' = Idle \/ site' = [doing |-> "capture", slot |-> 0])
    BY <1>3 DEF NewClass, NewInstance, NewClosure, activations
  <2>2. Waits(open, Height + 1, si)
    <3>1. CASE site' = Idle
      BY <1>2, <3>1, IdleWaits
    <3>2. CASE site' = [doing |-> "capture", slot |-> 0]
      BY <1>2, <3>2 DEF Waits
    <3> QED BY <2>1, <3>1, <3>2
  <2> QED BY <1>2, <2>1, <2>2, Raised
<1>4. CASE NewUpvalue(a)
  <2>1. /\ site.doing = "upvalue" /\ si = [doing |-> "capture", slot |-> 0]
        /\ open' = [u \in DOMAIN open \cup {a} |-> IF u = a THEN site.slot ELSE open[u]]
        /\ UNCHANGED <<stack, left, loose, frames, slots>>
    BY <1>2, <1>4 DEF NewUpvalue, Granted, activations
  <2>2. site.slot \in 1 .. Height /\ Height \in Nat /\ Height <= MaxStack /\ Len(stack') = Height
    BY <2>1, StackTyped DEF Settled, Waits, Height
  <2>3. PICK op : op = open'
    OBVIOUS
  <2>4. \A u \in DOMAIN op : op[u] \in 1 .. Height
    BY <2>1, <2>2, <2>3 DEF Settled
  <2>5. DOMAIN loose' = {} /\ slots' \in Seq(Nat) /\ Len(slots') = Len(frames') /\ Waits(op, Height, si)
    BY <2>1 DEF Settled, Waits
  <2> QED BY <1>2, <2>1, <2>2, <2>3, <2>4, <2>5, SettledStep
<1>5. CASE Instantiate(a) \/ \E method \in Addresses : bindMethod(a, method)
  <2>1. site' = Idle /\ UNCHANGED <<left, open, loose, frames, slots>>
        /\ stack' = [stack EXCEPT ![Height] = a]
    BY <1>5 DEF Instantiate, bindMethod, Replace, activations
  <2>2. Len(stack') = Height /\ Waits(open, Height, si)
    BY <1>2, <2>1, Heights, IdleWaits
  <2> QED BY <1>2, <2>1, <2>2, Undisturbed
<1>6. CASE \E n \in 0 .. MaxRefs : NewArray(a, n)
  <2>1. PICK n \in 0 .. MaxRefs : NewArray(a, n)
    BY <1>6
  <2>2. /\ n \in Nat /\ Push(a) /\ UNCHANGED <<open, loose, frames, slots>> /\ Temporaries(n)
        /\ (site' = Idle \/ site' = [doing |-> "payload", slot |-> n])
    BY <2>1 DEF NewArray, activations
  <2>3. Height \in Nat /\ \A u \in DOMAIN open : open[u] \in 1 .. Height /\ open[u] <= Height - n
    BY <2>2, TemporariesFit
  <2>4. Waits(open, Height + 1, si)
    BY <1>2, <2>2, <2>3, IdleWaits DEF Waits
  <2> QED BY <1>2, <2>2, <2>4, Raised
<1> QED BY <1>1, <1>3, <1>4, <1>5, <1>6

(* Requests. *)
LEMMA RequestSettles ==
  ASSUME GcOK, Settled, NEW d, NEW n, Request(d, n), Waits(open, Height, [doing |-> d, slot |-> n])
  PROVE  Settled'
<1>1. PICK si : si = site'
  OBVIOUS
<1>2. si = [doing |-> d, slot |-> n] /\ UNCHANGED <<stack, left, open, loose, frames, slots>>
  BY <1>1 DEF Request, roots, activations
<1>3. Len(stack') = Height
  BY <1>2 DEF Height
<1> QED BY <1>1, <1>2, <1>3, Undisturbed

LEMMA BeginSettles ==
  ASSUME GcOK, Settled,
         \/ BeginNew \/ BeginInstantiate \/ BeginBind \/ BeginStore \/ UpvaluesAllocated
         \/ \E s \in 1 .. MaxStack : BeginCapture(s)
  PROVE  Settled'
<1>1. CASE BeginNew
  <2>1. program \subseteq {"class", "instance", "array", "closure", "upvalue", "module"}
    BY GcAssumption DEF GcOK, Marks
  <2>2. PICK d \in {"class", "instance", "array", "upvalues"} : Request(d, 0)
    BY <1>1, <2>1 DEF BeginNew
  <2>3. Waits(open, Height, [doing |-> d, slot |-> 0])
    BY DEF Waits
  <2> QED BY <2>2, <2>3, RequestSettles
<1>2. CASE BeginInstantiate \/ BeginBind \/ UpvaluesAllocated
  <2>1. PICK d \in {"call", "bound", "closure"} : Request(d, 0)
    BY <1>2 DEF BeginInstantiate, BeginBind, UpvaluesAllocated
  <2>2. Waits(open, Height, [doing |-> d, slot |-> 0])
    BY DEF Waits
  <2> QED BY <2>1, <2>2, RequestSettles
<1>3. CASE BeginStore
  <2>1. CASE Temporaries(1) /\ Request("global", 0)
    <3>1. Height \in Nat /\ \A u \in DOMAIN open : open[u] \in 1 .. Height /\ open[u] <= Height - 1
      BY <2>1, TemporariesFit
    <3>2. Waits(open, Height, [doing |-> "global", slot |-> 0])
      BY <3>1 DEF Waits
    <3> QED BY <2>1, <3>2, RequestSettles
  <2>2. CASE Temporaries(2) /\ Request("store", 0)
    <3>1. Height \in Nat /\ \A u \in DOMAIN open : open[u] \in 1 .. Height /\ open[u] <= Height - 2
      BY <2>2, TemporariesFit
    <3>2. Waits(open, Height, [doing |-> "store", slot |-> 0])
      BY <3>1 DEF Waits
    <3> QED BY <2>2, <3>2, RequestSettles
  <2> QED BY <1>3, <2>1, <2>2 DEF BeginStore
<1>4. CASE \E s \in 1 .. MaxStack : BeginCapture(s)
  <2>1. PICK s \in 1 .. MaxStack : BeginCapture(s)
    BY <1>4
  <2>2. Request("upvalue", s) /\ s \in Floor .. Height /\ s > 0
    BY <2>1 DEF BeginCapture
  <2>3. s \in 1 .. Height
    BY <2>2, FloorTyped, StackTyped
  <2>4. Waits(open, Height, [doing |-> "upvalue", slot |-> s])
    BY <2>3 DEF Waits
  <2> QED BY <2>2, <2>4, RequestSettles
<1> QED BY <1>1, <1>2, <1>3, <1>4

(* Steps that leave the stack as high as it is. *)
LEMMA LevelSettles ==
  ASSUME GcOK, Settled,
         \/ ClosureBuilt \/ Load \/ Drop \/ SetGlobal \/ gcNative
         \/ \E u \in Addresses : ShareUpvalue(u)
         \/ \E s \in 1 .. MaxStack : SetLocal(s)
         \/ \E u \in Upvalues : SetUpvalue(u)
         \/ markRoots \/ TraceEnds \/ Flip \/ (\E o \in grayStack : blackenObject(o))
         \/ UNCHANGED vars
  PROVE  Settled'
<1>1. PICK si : si = site'
  OBVIOUS
<1>2. site' \in {site, Idle}
  BY DEF ClosureBuilt, Load, Drop, SetGlobal, gcNative, ShareUpvalue, SetLocal, SetUpvalue,
         markRoots, TraceEnds, Flip, blackenObject, NoAllocation, vars
<1>3. UNCHANGED <<left, open, loose, frames, slots>>
  BY DEF ClosureBuilt, Load, Replace, Drop, SetGlobal, gcNative, ShareUpvalue, SetLocal, SetUpvalue,
         markRoots, TraceEnds, Flip, blackenObject, vars, roots, activations
<1>4. stack' = stack \/ \E s, v : stack' = [stack EXCEPT ![s] = v]
  BY DEF ClosureBuilt, Load, Replace, Drop, SetGlobal, gcNative, ShareUpvalue, SetLocal, SetUpvalue,
         markRoots, TraceEnds, Flip, blackenObject, vars, roots, activations
<1>5. Len(stack') = Height
  BY <1>4, Heights DEF Height
<1>6. Waits(open, Height, si)
  BY <1>1, <1>2, IdleWaits DEF Settled
<1> QED BY <1>1, <1>3, <1>5, <1>6, Undisturbed

LEMMA PushSettles ==
  ASSUME GcOK, Settled, PushValue \/ \E u \in Upvalues : GetUpvalue(u)
  PROVE  Settled'
<1>1. PICK v, si : Push(v) /\ si = site'
  BY DEF PushValue, GetUpvalue
<1>2. site' = Idle /\ UNCHANGED <<open, loose, frames, slots>>
  BY DEF PushValue, GetUpvalue, NoAllocation, Ready, activations
<1>3. Waits(open, Height + 1, si)
  BY <1>1, <1>2, IdleWaits
<1> QED BY <1>1, <1>2, <1>3, Raised

LEMMA PopSettles ==
  ASSUME GcOK, Settled, ClosedInTime,
         DefineGlobal \/ Store \/ FillArray \/ SealedStore \/ PopValue
  PROVE  Settled'
<1>1. site' = Idle /\ KeepLeft(open) /\ UNCHANGED <<open, loose, frames, slots>>
  BY DEF DefineGlobal, Store, FillArray, SealedStore, PopValue, Pop, NoAllocation, Ready, activations
<1>2. Height \in Nat /\ (\A u \in DOMAIN open : open[u] \in 1 .. Height) /\ Waits(open, Height, site)
  BY StackTyped DEF Settled
<1>3. CASE DefineGlobal \/ PopValue
  <2>1. stack' = SubSeq(stack, 1, Height - 1)
    BY <1>3 DEF DefineGlobal, PopValue, Pop
  <2>2. Height > 0 /\ \A u \in DOMAIN open : open[u] <= Height - 1
    <3>1. CASE DefineGlobal
      <4>1. site.doing = "global"
        BY <3>1 DEF DefineGlobal, Granted
      <4>2. Height > 0
        BY <4>1 DEF GcOK, HeapOK, SiteOK, Height
      <4> QED BY <1>2, <4>1, <4>2 DEF Waits
    <3>2. CASE PopValue
      <4>1. Temporaries(1)
        BY <3>2 DEF PopValue, ClosedInTime
      <4>2. 1 \in Nat
        OBVIOUS
      <4> QED BY <4>1, <4>2, TemporariesFit
    <3> QED BY <1>3, <3>1, <3>2
  <2>3. Height - 1 \in Nat /\ Height - 1 \in 0 .. Height
    BY <1>2, <2>2
  <2>4. Len(stack') = Height - 1
    BY <2>1, <2>3, Heights
  <2> QED BY <1>1, <1>2, <2>2, <2>3, <2>4, Lowered
<1>4. CASE Store \/ SealedStore
  <2>1. PICK v : stack' = Append(SubSeq(stack, 1, Height - 2), v)
    BY <1>4 DEF Store, SealedStore
  <2>2. Height > 1 /\ \A u \in DOMAIN open : open[u] <= Height - 1
    <3>1. CASE Store
      <4>1. site.doing = "store"
        BY <3>1 DEF Store, Granted
      <4>2. Height > 1
        BY <4>1 DEF GcOK, HeapOK, SiteOK, Height
      <4> QED BY <1>2, <4>1, <4>2 DEF Waits
    <3>2. CASE SealedStore
      <4>1. Temporaries(2) /\ 2 \in Nat
        BY <3>2 DEF SealedStore
      <4>2. 2 <= Height /\ \A u \in DOMAIN open : open[u] <= Height - 2
        BY <4>1, TemporariesFit
      <4> QED BY <1>2, <4>2
    <3> QED BY <1>4, <3>1, <3>2
  <2>3. Height - 1 \in Nat /\ Height - 2 \in 0 .. Height
    BY <1>2, <2>2
  <2>4. Len(stack') = Height - 1
    BY <1>2, <2>1, <2>3, Heights
  <2> QED BY <1>1, <1>2, <2>2, <2>3, <2>4, Lowered
<1>5. CASE FillArray
  <2>1. PICK n : n = site.slot
    OBVIOUS
  <2>2. site.doing = "payload" /\ stack' = Append(SubSeq(stack, 1, Height - n - 1), Peek(0))
    BY <1>5, <2>1 DEF FillArray, Granted
  <2>3. n \in Nat /\ Height > n
    BY <2>1, <2>2 DEF GcOK, Marks, Sites, HeapOK, SiteOK, Height
  <2>4. \A u \in DOMAIN open : open[u] <= Height - n
    BY <1>2, <2>1, <2>2, <2>3 DEF Waits
  <2>5. Height - n \in Nat /\ Height - n - 1 \in 0 .. Height /\ Height - n <= Height
    BY <1>2, <2>3
  <2>6. Len(stack') = Height - n
    BY <1>2, <2>2, <2>3, <2>5, Heights
  <2> QED BY <1>1, <2>4, <2>5, <2>6, Lowered
<1> QED BY <1>3, <1>4, <1>5

LEMMA CloseSettles ==
  ASSUME GcOK, Settled, CloseUpvalue
  PROVE  Settled'
<1>1. /\ site' = Idle /\ closeUpvalues(Height) /\ stack' = SubSeq(stack, 1, Height - 1)
      /\ KeepLeft(open') /\ UNCHANGED <<loose, frames, slots>> /\ Height > Floor
  BY DEF CloseUpvalue, NoAllocation, Ready, activations
<1>2. PICK op, si : op = open' /\ si = site'
  OBVIOUS
<1>3. Height \in Nat /\ Floor \in Nat /\ Height <= MaxStack
  BY StackTyped, FloorTyped DEF Settled
<1>4. Height - 1 \in Nat /\ Height - 1 \in 0 .. Height /\ Height - 1 <= MaxStack
  BY <1>1, <1>3, Bounds
<1>5. \A u \in DOMAIN op : op[u] \in 1 .. Height - 1
  <2>1. \A u \in DOMAIN op : u \in DOMAIN open /\ ~ (open[u] >= Height) /\ op[u] = open[u]
    BY <1>1, <1>2, Closing DEF AtOrAbove
  <2> QED BY <1>3, <2>1 DEF Settled
<1>6. Len(stack') = Height - 1 /\ KeepLeft(op) /\ Waits(op, Height - 1, si)
  BY <1>1, <1>2, <1>4, Heights, IdleWaits
<1>7. DOMAIN loose' = {} /\ slots' \in Seq(Nat) /\ Len(slots') = Len(frames')
  BY <1>1 DEF Settled
<1> QED BY <1>2, <1>4, <1>5, <1>6, <1>7, SettledStep

LEMMA CallSettles ==
  ASSUME GcOK, Settled, NEW n \in Nat, Call(n)
  PROVE  Settled'
<1>1. /\ site' = Idle /\ Temporaries(n + 1) /\ slots' = Append(slots, Height - n)
      /\ UNCHANGED <<left, open, loose>> /\ \E c : frames' = Append(frames, c)
      /\ stack' = stack \/ \E s, v : stack' = [stack EXCEPT ![s] = v]
  BY DEF Call, NoAllocation, Ready
<1>2. PICK op, si : op = open' /\ si = site'
  OBVIOUS
<1>3. n + 1 \in Nat
  OBVIOUS
<1>4. Height \in Nat /\ Height - n \in Nat /\ Height <= MaxStack
  BY <1>1, <1>3, TemporariesFit DEF Settled
<1>5. Len(stack') = Height
  BY <1>1, Heights DEF Height
<1>6. slots' \in Seq(Nat) /\ Len(slots') = Len(frames')
  <2>1. slots \in Seq(Nat) /\ Len(slots) = Len(frames) /\ frames \in Seq(Of(kind, "closure"))
    BY DEF Settled, GcOK, HeapOK, RootsOK
  <2>2. PICK c : frames' = Append(frames, c)
    BY <1>1
  <2> QED BY <1>1, <1>4, <2>1, <2>2
<1>7. op = open /\ (\A u \in DOMAIN op : op[u] \in 1 .. Height) /\ DOMAIN loose' = {}
      /\ Waits(op, Height, si)
  BY <1>1, <1>2, IdleWaits DEF Settled
<1> QED BY <1>1, <1>2, <1>4, <1>5, <1>6, <1>7, SettledStep

LEMMA ReturnSettles ==
  ASSUME GcOK, Settled, Return
  PROVE  Settled'
<1>1. /\ site' = Idle /\ closeUpvalues(Floor) /\ KeepLeft(open') /\ UNCHANGED loose /\ frames # <<>>
      /\ frames' = SubSeq(frames, 1, Len(frames) - 1) /\ slots' = SubSeq(slots, 1, Len(slots) - 1)
  BY DEF Return, NoAllocation, Ready
<1>2. PICK op, si, h : op = open' /\ si = site' /\ h = Len(stack')
  OBVIOUS
<1>3. /\ Floor \in Nat /\ Height \in Nat /\ 1 + Floor <= Height /\ Height <= MaxStack
      /\ h = IF Floor = 0 THEN 1 ELSE Floor
  BY <1>2, ReturnTo DEF Settled
<1>4. h \in Nat /\ h <= MaxStack
  BY <1>3, Bounds
<1>5. \A u \in DOMAIN op : op[u] \in 1 .. h
  <2>1. \A u \in DOMAIN op : u \in DOMAIN open /\ ~ (open[u] >= Floor) /\ op[u] = open[u]
    BY <1>1, <1>2, Closing DEF AtOrAbove
  <2> QED BY <1>3, <2>1 DEF Settled
<1>6. slots' \in Seq(Nat) /\ Len(slots') = Len(frames')
  <2>1. slots \in Seq(Nat) /\ Len(slots) = Len(frames) /\ frames \in Seq(Of(kind, "closure"))
    BY DEF Settled, GcOK, HeapOK, RootsOK
  <2>2. Len(frames) - 1 \in 0 .. Len(frames) /\ Len(slots) - 1 \in 0 .. Len(slots)
    BY <1>1, <2>1
  <2> QED BY <1>1, <2>1, <2>2, Shortened
<1>7. KeepLeft(op) /\ Waits(op, h, si) /\ DOMAIN loose' = {}
  BY <1>1, <1>2, IdleWaits DEF Settled
<1> QED BY <1>2, <1>4, <1>5, <1>6, <1>7, SettledStep

LEMMA RuntimeErrorSettles ==
  ASSUME GcOK, Settled, ClosedInTime, RuntimeError
  PROVE  Settled'
<1>1. /\ site' = Idle /\ stack' = <<>> /\ left' = left /\ slots' = <<>> /\ frames' = <<>>
      /\ DOMAIN loose' = {} /\ open' = [u \in {} |-> 0]
  BY DEF RuntimeError, Ready, ClosedInTime, Settled
<1>2. PICK op, si : op = open' /\ si = site'
  OBVIOUS
<1>3. 0 \in Nat /\ 0 <= MaxStack /\ Len(stack') = 0 /\ slots' \in Seq(Nat) /\ Len(slots') = Len(frames')
  BY <1>1, Bounds
<1>4. (\A u \in DOMAIN op : op[u] \in 1 .. 0) /\ Waits(op, 0, si)
  BY <1>1, <1>2, IdleWaits
<1> QED BY <1>1, <1>2, <1>3, <1>4, SettledStep

LEMMA SweepSettles ==
  ASSUME GcOK, Settled, Sweep
  PROVE  Settled'
<1>1. UNCHANGED <<stack, left, open, site, frames, slots>> /\ DOMAIN loose' \subseteq DOMAIN loose
  BY DEF Sweep, activations
<1>2. PICK op, si : op = open' /\ si = site'
  OBVIOUS
<1>3. Height \in Nat /\ Height <= MaxStack /\ Len(stack') = Height
  BY <1>1, StackTyped DEF Settled, Height
<1>4. /\ \A u \in DOMAIN op : op[u] \in 1 .. Height
      /\ DOMAIN loose' = {} /\ slots' \in Seq(Nat) /\ Len(slots') = Len(frames')
      /\ Waits(op, Height, si)
  BY <1>1, <1>2 DEF Settled
<1> QED BY <1>1, <1>2, <1>3, <1>4, SettledStep

----------------------------------------------------------------------------
(* The inductive invariant. *)
GcInv == GcOK /\ Settled

LEMMA InitInv == Init => GcInv
<1> SUFFICES ASSUME Init PROVE GcInv
  OBVIOUS
<1>1. Settled
  BY Bounds, IdleWaits DEF Init, Settled, Height
<1> QED BY <1>1, InitOK DEF GcInv

LEMMA StepSettles ==
  ASSUME GcOK, Settled, ClosedInTime, [Next]_vars
  PROVE  Settled'
<1>1. CASE \E n \in 0 .. MaxStack - 1 : Call(n)
  <2>1. PICK n \in 0 .. MaxStack - 1 : Call(n)
    BY <1>1
  <2>2. n \in Nat
    BY <2>1
  <2> QED BY <2>1, <2>2, CallSettles
<1>2. CASE Collector
  BY <1>2, LevelSettles, SweepSettles DEF Collector
<1>3. CASE Allocate
  BY <1>3, AllocateSettles
<1>4. CASE \/ BeginNew \/ BeginInstantiate \/ BeginBind \/ BeginStore \/ UpvaluesAllocated
           \/ \E s \in 1 .. MaxStack : BeginCapture(s)
  BY <1>4, BeginSettles
<1>5. CASE \/ ClosureBuilt \/ Load \/ Drop \/ SetGlobal \/ gcNative
           \/ \E u \in Addresses : ShareUpvalue(u)
           \/ \E s \in 1 .. MaxStack : SetLocal(s)
           \/ \E u \in Upvalues : SetUpvalue(u)
           \/ UNCHANGED vars
  BY <1>5, LevelSettles
<1>6. CASE PushValue \/ \E u \in Upvalues : GetUpvalue(u)
  BY <1>6, PushSettles
<1>7. CASE DefineGlobal \/ Store \/ FillArray \/ SealedStore \/ PopValue
  BY <1>7, PopSettles
<1>8. CASE CloseUpvalue
  BY <1>8, CloseSettles
<1>9. CASE Return
  BY <1>9, ReturnSettles
<1>10. CASE RuntimeError
  BY <1>10, RuntimeErrorSettles
<1> QED BY <1>1, <1>2, <1>3, <1>4, <1>5, <1>6, <1>7, <1>8, <1>9, <1>10 DEF Next

LEMMA StepOK ==
  ASSUME GcOK, Settled, [Next]_vars
  PROVE  GcOK'
<1>1. CASE BeginNew
  BY <1>1, BeginNewStep
<1>2. CASE BeginInstantiate
  BY <1>2, BeginInstantiateStep
<1>3. CASE BeginBind
  BY <1>3, BeginBindStep
<1>4. CASE BeginStore
  BY <1>4, BeginStoreStep
<1>5. CASE Allocate
  BY <1>5, AllocateStep
<1>6. CASE FillArray
  BY <1>6, FillArrayStep
<1>7. CASE UpvaluesAllocated
  BY <1>7, UpvaluesAllocatedStep
<1>8. CASE ClosureBuilt
  BY <1>8, ClosureBuiltStep
<1>9. CASE DefineGlobal
  BY <1>9, DefineGlobalStep
<1>10. CASE Store
  BY <1>10, StoreStep
<1>11. CASE \E u \in Addresses : ShareUpvalue(u)
  BY <1>11, ShareUpvalueStep
<1>12. CASE \E s \in 1 .. MaxStack : BeginCapture(s) \/ SetLocal(s)
  BY <1>12, BeginCaptureStep, SetLocalStep
<1>13. CASE PushValue
  BY <1>13, PushValueStep
<1>14. CASE Load
  BY <1>14, LoadStep
<1>15. CASE Drop
  BY <1>15, DropStep
<1>16. CASE SetGlobal
  BY <1>16, SetGlobalStep
<1>17. CASE SealedStore
  BY <1>17, SealedStoreStep
<1>18. CASE \E u \in Upvalues : GetUpvalue(u) \/ SetUpvalue(u)
  BY <1>18, GetUpvalueStep, SetUpvalueStep
<1>19. CASE \E n \in 0 .. MaxStack - 1 : Call(n)
  <2>1. PICK n \in 0 .. MaxStack - 1 : Call(n)
    BY <1>19
  <2>2. n \in Nat
    BY <2>1
  <2> QED BY <2>1, <2>2, CallStep
<1>20. CASE Return
  BY <1>20, ReturnStep
<1>21. CASE gcNative
  BY <1>21, gcNativeStep
<1>22. CASE Collector
  BY <1>22, CollectorStep
<1>23. CASE UNCHANGED vars
  BY <1>23, StutterStep
<1>24. CASE PopValue
  BY <1>24, PopValueStep
<1>25. CASE CloseUpvalue
  BY <1>25, CloseUpvalueStep
<1>26. CASE RuntimeError
  BY <1>26, RuntimeErrorStep
<1> QED
  BY <1>1, <1>2, <1>3, <1>4, <1>5, <1>6, <1>7, <1>8, <1>9, <1>10, <1>11, <1>12, <1>13, <1>14,
     <1>15, <1>16, <1>17, <1>18, <1>19, <1>20, <1>21, <1>22, <1>23, <1>24, <1>25, <1>26 DEF Next

(* The invariant the theorems below rest on. *)
THEOREM Collected ==
  ASSUME ClosedInTime
  PROVE  Spec => []GcInv
<1>1. GcInv /\ [Next]_vars => GcInv'
  BY StepOK, StepSettles DEF GcInv
<1> QED BY <1>1, InitInv, PTL DEF Spec

----------------------------------------------------------------------------
(* Every variable keeps its type. *)
THEOREM GcTypes ==
  ASSUME ClosedInTime
  PROVE  Spec => []TypeOK
<1>1. GcInv => TypeOK
  <2> SUFFICES ASSUME GcOK, Settled PROVE TypeOK
    BY DEF GcInv
  <2>1. /\ kind \in [Addresses -> Kinds \cup {"free"}]
        /\ link \in [Objs -> Objs \cup {Nil}] /\ refs \in [Objs -> SUBSET Objs]
    BY DEF GcOK, HeapOK, GraphOK
  <2>2. stack \in Seq(Objs \cup {Nil})
    <3>1. Present(kind) \cup {Nil} \subseteq Objs \cup {Nil}
      BY KindsOfPresent
    <3> QED BY <3>1, StackTyped, Kept
  <2>3. frames \in Seq(Addresses)
    <3>1. frames \in Seq(Of(kind, "closure")) /\ Of(kind, "closure") \subseteq Addresses
      BY DEF GcOK, HeapOK, RootsOK, Of
    <3> QED BY <3>1, Kept
  <2>4. DOMAIN open \subseteq Addresses /\ globals \subseteq Objs
    BY KindsOfPresent DEF GcOK, HeapOK, RootsOK, Of
  <2>5. grayStack \subseteq Objs
    BY KindsOfPresent DEF GcOK, CollectorOK
  <2>6. /\ left \in [1 .. MaxStack -> Objs \cup {Nil}] /\ DOMAIN loose \subseteq Addresses
        /\ slots \in Seq(Nat) /\ Len(slots) = Len(frames)
    BY DEF Settled
  <2> QED BY <2>1, <2>2, <2>3, <2>4, <2>5, <2>6 DEF TypeOK, GcOK, Marks, Sites
<1> QED BY <1>1, Collected, PTL

(* Nothing the program can still reach has been freed, in any state, when    *)
(* upvalues are closed before their slots are dropped: the objects that      *)
(* exist hold the roots and all they point to, and nothing above the top of  *)
(* the stack is read.                                                        *)
THEOREM ReachedIsLive ==
  ASSUME ClosedInTime
  PROVE  Spec => []NoDangling
<1>1. GcInv => NoDangling
  <2> SUFFICES ASSUME GcOK, Settled PROVE NoDangling
    BY DEF GcInv
  <2>1. Statics \cap Addresses = {}
    BY GcAssumption
  <2> QED BY <2>1, ReachPresent, KindsOfPresent DEF NoDangling, Present
<1> QED BY <1>1, Collected, PTL

(* While a collection runs, what is marked and not gray points to what is    *)
(* marked.                                                                   *)
THEOREM TracingIsTriColor ==
  ASSUME ClosedInTime
  PROVE  Spec => []TriColor
<1>1. GcInv => TriColor
  BY KindsOfPresent DEF GcInv, GcOK, CollectorOK, TriColor, Collecting, Marked, Present
<1> QED BY <1>1, Collected, PTL

(* A sweep leaves exactly the dynamic objects in reach. *)
THEOREM SweptIsReached ==
  ASSUME ClosedInTime
  PROVE  Spec => []GarbageCollected
<1>1. GcInv => GarbageCollected
  <2> SUFFICES ASSUME GcOK, Settled, phase = "swept" PROVE Live = Reachable \cap Addresses
    BY DEF GcInv, GarbageCollected
  <2>1. Live \subseteq Reachable
    BY KindsOfPresent DEF GcOK, CollectorOK, Collecting
  <2>2. Reachable \cap Addresses \subseteq Live
    BY ReachPresent, KindsOfPresent, GcAssumption DEF Present
  <2>3. Live \subseteq Addresses
    BY DEF Live
  <2> QED BY <2>1, <2>2, <2>3
<1> QED BY <1>1, Collected, PTL

(* Between collections no dynamic object carries the mark. *)
THEOREM NoneMarked ==
  ASSUME ClosedInTime
  PROVE  Spec => []UnmarkedBetweenCollections
<1>1. GcInv => UnmarkedBetweenCollections
  BY KindsOfPresent DEF GcInv, GcOK, CollectorOK, UnmarkedBetweenCollections, Collecting, Marked
<1> QED BY <1>1, Collected, PTL
=============================================================================
