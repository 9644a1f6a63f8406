------------------------------ MODULE VmProofs ------------------------------
(***************************************************************************)
(* Theorems about the stack machine, for any closures, any depth of calls  *)
(* and any sizes of the stack: types, the free slot above the top, frames  *)
(* that lie above one another, the sorted list of open upvalues, that      *)
(* these point to locals in scope, and that the machine implements lexical *)
(* variables.  The hypotheses ErrorsStop, ErrorsSpare and BreaksSpare name *)
(* what a program must not meet for a theorem to speak of it.              *)
(***************************************************************************)
EXTENDS Vm, SequenceTheorems, FiniteSetTheorems, WellFoundedInduction, TLAPS

Activations ==
  [closure : Closures \cup {Script}, slots : Nat, block : Nat, locals : Nat, scopes : Seq(Nat)]
Upvalues == [at : Nat, block : Nat, closed : Values]

(* Slots begin at 1; the scopes of a frame begin among its locals, the inner *)
(* ones after the outer ones.                                                *)
SoundFrame(fr) ==
  /\ fr.slots > 0 /\ fr.locals > 0
  /\ \A n \in 1 .. Len(fr.scopes) : fr.scopes[n] \in 1 .. fr.locals
  /\ \A m, n \in 1 .. Len(fr.scopes) : m <= n => fr.scopes[m] <= fr.scopes[n]

(* The inductive invariant: the stack... *)
StackOK ==
  /\ stack \in Seq(Values)
  /\ capacity \in Nat /\ block \in Nat
  /\ capacity >= InitialStack
  /\ RoomForPush

(* ... the frames ... *)
Fit(fs, height) ==
  /\ fs \in Seq(Activations)
  /\ \A i \in 1 .. Len(fs) : SoundFrame(fs[i])
  /\ \A i \in 1 .. Len(fs) :
       fs[i].slots + fs[i].locals <= IF i < Len(fs) THEN fs[i + 1].slots ELSE height + 1

FramesOK == Fit(frames, Height)

(* ... and the closures and upvalues. *)
Held(us, list, cs) ==
  /\ IsFiniteSet(DOMAIN us) /\ DOMAIN us \subseteq Nat
  /\ \A u \in DOMAIN us : us[u] \in Upvalues
  /\ list \in Seq(DOMAIN us)
  /\ DOMAIN cs \subseteq Closures
  /\ \A c \in DOMAIN cs : cs[c] \in Seq(DOMAIN us)

HeapOK ==
  /\ Held(upvalues, open, closures)
  /\ \A i \in 1 .. Len(frames) : frames[i].closure \in DOMAIN closures \cup {Script}
  /\ building \in [closure : DOMAIN closures \cup {Script}, named : BOOLEAN]
  /\ building = NotBuilding \/ building.closure \in DOMAIN closures

MachineOK == StackOK /\ FramesOK /\ HeapOK

----------------------------------------------------------------------------
LEMMA ElementsOfSeq ==
  ASSUME NEW S, NEW s \in Seq(S)
  PROVE  /\ Elements(s) \subseteq S
         /\ \A T : Elements(s) \subseteq T => s \in Seq(T)
<1>1. s \in [1 .. Len(s) -> S] /\ Len(s) \in Nat /\ DOMAIN s = 1 .. Len(s)
  OBVIOUS
<1>2. Elements(s) \subseteq S
  BY <1>1 DEF Elements
<1>3. ASSUME NEW T, Elements(s) \subseteq T
      PROVE  s \in Seq(T)
  <2>1. s \in [1 .. Len(s) -> T]
    BY <1>1, <1>3 DEF Elements
  <2> QED BY <1>1, <2>1, SeqDef
<1> QED BY <1>2, <1>3

(* A number that is not in a finite set. *)
LEMMA FreshNumber ==
  ASSUME NEW S, IsFiniteSet(S)
  PROVE  NotIn(S) \in Nat \ {0} /\ NotIn(S) \notin S
<1> DEFINE k == Cardinality(S)
<1>1. k \in Nat
  BY FS_CardinalityType
<1>2. \E n \in 1 .. k + 1 : n \notin S
  <2>1. SUFFICES ASSUME 1 .. k + 1 \subseteq S PROVE FALSE
    OBVIOUS
  <2>2. Cardinality(1 .. k + 1) = k + 1
    BY <1>1, FS_Interval
  <2>3. Cardinality(1 .. k + 1) <= k
    BY <2>1, FS_Subset
  <2> QED BY <1>1, <2>2, <2>3
<1>3. NotIn(S) \in 1 .. k + 1 /\ NotIn(S) \notin S
  BY <1>2 DEF NotIn
<1> QED BY <1>1, <1>3

(* A set of indices that holds every index below its own is 1 .. its size. *)
LEMMA Prefix ==
  ASSUME NEW n \in Nat, NEW A \in SUBSET (1 .. n),
         \A i \in A : \A j \in 1 .. i : j \in A
  PROVE  Cardinality(A) \in 0 .. n /\ A = 1 .. Cardinality(A)
<1>1. \A m \in Nat : Cardinality(1 .. m) = m
  BY FS_Interval
<1>2. CASE A = 1 .. n
  BY <1>1, <1>2
<1>3. CASE A # 1 .. n
  <2> DEFINE T == {i \in 1 .. n : i \notin A}
  <2>1. T \subseteq Nat /\ T # {}
    <3>1. \E i \in 1 .. n : i \notin A
      BY <1>3
    <3> QED BY <3>1
  <2>2. PICK m \in T : \A y \in T : ~ (<<y, m>> \in OpToRel(<, Nat))
    <3> HIDE DEF T
    <3> QED BY <2>1, WFMin, NatLessThanWellFounded
  <2>3. \A y \in T : ~ (y < m)
    BY <2>1, <2>2 DEF OpToRel
  <2>4. m \in 1 .. n /\ m \notin A
    BY <2>2
  <2>5. ASSUME NEW i \in 1 .. m - 1
        PROVE  i \in A
    BY <2>3, <2>4
  <2>6. ASSUME NEW i \in A
        PROVE  i \in 1 .. m - 1
    <3>1. i \in 1 .. n /\ (m <= i => m \in 1 .. i)
      BY <2>4
    <3>2. ~ (m <= i)
      BY <2>4, <3>1
    <3> QED BY <2>4, <3>1, <3>2
  <2> HIDE DEF T
  <2>7. A = 1 .. m - 1
    BY <2>5, <2>6
  <2>8. m - 1 \in 0 .. n
    BY <2>4
  <2>9. Cardinality(A) = m - 1
    BY <1>1, <2>7, <2>8
  <2> QED BY <2>7, <2>8, <2>9
<1> QED BY <1>2, <1>3

(* The parts of the list of open upvalues that its loops walk through. *)
LEMMA ListPrefixes ==
  ASSUME open \in Seq(DOMAIN upvalues), NEW p
  PROVE  /\ Cardinality(AtOrAbove(p)) \in 0 .. Len(open) /\ AtOrAbove(p) = 1 .. Cardinality(AtOrAbove(p))
         /\ Cardinality(Above(p)) \in 0 .. Len(open) /\ Above(p) = 1 .. Cardinality(Above(p))
<1>1. DOMAIN open = 1 .. Len(open) /\ Len(open) \in Nat
  OBVIOUS
<1>2. /\ AtOrAbove(p) \in SUBSET (1 .. Len(open))
      /\ \A i \in AtOrAbove(p) : \A j \in 1 .. i : j \in AtOrAbove(p)
  BY <1>1 DEF AtOrAbove
<1>3. /\ Above(p) \in SUBSET (1 .. Len(open))
      /\ \A i \in Above(p) : \A j \in 1 .. i : j \in Above(p)
  BY <1>1 DEF Above
<1> QED BY <1>1, <1>2, <1>3, Prefix

----------------------------------------------------------------------------
(* What the actions do to the frames. *)

LEMMA TopFrame ==
  ASSUME MachineOK
  PROVE  /\ Height \in Nat /\ Len(frames) \in Nat /\ DOMAIN frames = 1 .. Len(frames)
         /\ (frames = <<>>) = (Len(frames) = 0)
         /\ frames # <<>> =>
              /\ Len(frames) > 0
              /\ Frame \in Activations /\ SoundFrame(Frame)
              /\ Frame.slots \in Nat /\ Frame.locals \in Nat /\ Frame.scopes \in Seq(Nat)
              /\ Frame.slots > 0 /\ Frame.locals > 0
              /\ Frame.slots + Frame.locals <= Height + 1
              /\ Height > 0
<1>1. /\ Height \in Nat /\ frames \in Seq(Activations) /\ Len(frames) \in Nat
      /\ DOMAIN frames = 1 .. Len(frames) /\ (frames = <<>>) = (Len(frames) = 0)
  BY DEF MachineOK, StackOK, FramesOK, Fit, Height
<1>2. ASSUME frames # <<>>
      PROVE  /\ Len(frames) > 0 /\ Frame \in Activations /\ SoundFrame(Frame)
             /\ Frame.slots + Frame.locals <= Height + 1
  <2>1. Len(frames) \in 1 .. Len(frames)
    BY <1>1, <1>2
  <2> QED BY <1>1, <1>2, <2>1 DEF MachineOK, FramesOK, Fit, Frame
<1>3. frames # <<>> => /\ Frame.slots \in Nat /\ Frame.locals \in Nat /\ Frame.scopes \in Seq(Nat)
                       /\ Frame.slots > 0 /\ Frame.locals > 0
  BY <1>2 DEF Activations, SoundFrame
<1> QED BY <1>1, <1>2, <1>3

LEMMA Replaced ==
  ASSUME NEW S, NEW s \in Seq(S), NEW n \in 1 .. Len(s), NEW e \in S
  PROVE  /\ [s EXCEPT ![n] = e] \in Seq(S)
         /\ Len([s EXCEPT ![n] = e]) = Len(s)
         /\ [s EXCEPT ![n] = e][n] = e
         /\ \A i \in 1 .. Len(s) : i # n => [s EXCEPT ![n] = e][i] = s[i]
OBVIOUS

LEMMA Cut ==
  ASSUME NEW S, NEW s \in Seq(S), NEW n \in 0 .. Len(s)
  PROVE  /\ SubSeq(s, 1, n) \in Seq(S)
         /\ Len(SubSeq(s, 1, n)) = n
         /\ \A i \in 1 .. n : SubSeq(s, 1, n)[i] = s[i]
<1>1. \A i \in 1 .. n : s[i] \in S
  OBVIOUS
<1> QED BY <1>1, SubSeqProperties

(* A stack of another height, or another frame on top, ... *)
LEMMA FitSame ==
  ASSUME NEW fs, NEW h, Fit(fs, h), NEW new \in Nat,
         fs # <<>> => fs[Len(fs)].slots + fs[Len(fs)].locals <= new + 1
  PROVE  Fit(fs, new)
<1>1. fs \in Seq(Activations) /\ Len(fs) \in Nat
  BY DEF Fit
<1>2. ASSUME NEW i \in 1 .. Len(fs)
      PROVE  fs[i].slots + fs[i].locals <= IF i < Len(fs) THEN fs[i + 1].slots ELSE new + 1
  <2>1. CASE i < Len(fs)
    BY <2>1 DEF Fit
  <2>2. CASE i = Len(fs)
    <3>1. fs # <<>>
      BY <1>1, <2>2
    <3> QED BY <2>2, <3>1
  <2> QED BY <1>1, <2>1, <2>2
<1> QED BY <1>2 DEF Fit

LEMMA FitChanged ==
  ASSUME NEW fs, NEW h, Fit(fs, h), NEW new \in Nat, fs # <<>>,
         NEW fr \in Activations, SoundFrame(fr), fr.slots = fs[Len(fs)].slots,
         fr.slots + fr.locals <= new + 1
  PROVE  Fit([fs EXCEPT ![Len(fs)] = fr], new)
<1> DEFINE n == Len(fs)
           gs == [fs EXCEPT ![n] = fr]
<1>1. fs \in Seq(Activations) /\ n \in Nat /\ n > 0
  BY DEF Fit
<1>2. /\ gs \in Seq(Activations) /\ Len(gs) = n /\ gs[n] = fr
      /\ \A i \in 1 .. n : i # n => gs[i] = fs[i]
  BY <1>1, Replaced
<1> HIDE DEF gs
<1>3. ASSUME NEW i \in 1 .. n
      PROVE  SoundFrame(gs[i])
  <2>1. CASE i = n
    BY <1>2, <2>1
  <2>2. CASE i # n
    BY <1>2, <2>2 DEF Fit
  <2> QED BY <2>1, <2>2
<1>4. ASSUME NEW i \in 1 .. n
      PROVE  gs[i].slots + gs[i].locals <= IF i < n THEN gs[i + 1].slots ELSE new + 1
  <2>1. CASE i = n
    BY <1>1, <1>2, <2>1
  <2>2. CASE i # n
    <3>1. i < n /\ gs[i] = fs[i] /\ i + 1 \in 1 .. n
      BY <1>1, <1>2, <2>2
    <3>2. gs[i + 1].slots = fs[i + 1].slots
      BY <1>2, <3>1
    <3>3. fs[i].slots + fs[i].locals <= fs[i + 1].slots
      BY <3>1 DEF Fit
    <3> QED BY <3>1, <3>2, <3>3
  <2> QED BY <2>1, <2>2
<1>5. Fit(gs, new)
  BY <1>2, <1>3, <1>4 DEF Fit
<1> QED BY <1>5 DEF gs

(* ... one more frame, ... *)
LEMMA FitPushed ==
  ASSUME NEW fs, NEW h, Fit(fs, h), NEW new \in Nat,
         NEW fr \in Activations, SoundFrame(fr),
         fs # <<>> => fs[Len(fs)].slots + fs[Len(fs)].locals <= fr.slots,
         fr.slots + fr.locals <= new + 1
  PROVE  Fit(Append(fs, fr), new)
<1> DEFINE n == Len(fs)
           gs == Append(fs, fr)
<1>1. fs \in Seq(Activations) /\ n \in Nat
  BY DEF Fit
<1>2. /\ gs \in Seq(Activations) /\ Len(gs) = n + 1 /\ gs[n + 1] = fr
      /\ \A i \in 1 .. n : gs[i] = fs[i]
  BY <1>1, AppendProperties
<1> HIDE DEF gs
<1>3. ASSUME NEW i \in 1 .. n + 1
      PROVE  SoundFrame(gs[i])
  <2>1. CASE i = n + 1
    BY <1>2, <2>1
  <2>2. CASE i # n + 1
    BY <1>1, <1>2, <2>2 DEF Fit
  <2> QED BY <2>1, <2>2
<1>4. ASSUME NEW i \in 1 .. n + 1
      PROVE  gs[i].slots + gs[i].locals <= IF i < n + 1 THEN gs[i + 1].slots ELSE new + 1
  <2>1. CASE i = n + 1
    BY <1>1, <1>2, <2>1
  <2>2. CASE i = n
    <3>1. fs # <<>> /\ gs[i] = fs[n] /\ gs[i + 1] = fr
      BY <1>1, <1>2, <2>2
    <3> QED BY <1>1, <2>2, <3>1
  <2>3. CASE i \in 1 .. n /\ i # n
    <3>1. i < n /\ gs[i] = fs[i] /\ gs[i + 1] = fs[i + 1] /\ i < n + 1
      BY <1>1, <1>2, <2>3
    <3>2. fs[i].slots + fs[i].locals <= fs[i + 1].slots
      BY <2>3, <3>1 DEF Fit
    <3> QED BY <3>1, <3>2
  <2> QED BY <1>1, <2>1, <2>2, <2>3
<1>5. Fit(gs, new)
  BY <1>1, <1>2, <1>3, <1>4 DEF Fit
<1> QED BY <1>5 DEF gs

(* ... or one frame less. *)
LEMMA FitPopped ==
  ASSUME NEW fs, NEW h, Fit(fs, h), NEW new \in Nat, fs # <<>>,
         Len(fs) > 1 => fs[Len(fs)].slots <= new + 1
  PROVE  Fit(SubSeq(fs, 1, Len(fs) - 1), new)
<1> DEFINE n == Len(fs)
           gs == SubSeq(fs, 1, n - 1)
<1>1. fs \in Seq(Activations) /\ n \in Nat /\ n > 0
  BY DEF Fit
<1>2. /\ gs \in Seq(Activations) /\ Len(gs) = n - 1
      /\ \A i \in 1 .. n - 1 : gs[i] = fs[i]
  <2>1. n - 1 \in 0 .. n
    BY <1>1
  <2> QED BY <1>1, <2>1, Cut
<1> HIDE DEF gs
<1>3. ASSUME NEW i \in 1 .. n - 1
      PROVE  SoundFrame(gs[i])
  BY <1>1, <1>2 DEF Fit
<1>4. ASSUME NEW i \in 1 .. n - 1
      PROVE  gs[i].slots + gs[i].locals <= IF i < n - 1 THEN gs[i + 1].slots ELSE new + 1
  <2>1. fs[i].slots + fs[i].locals <= fs[i + 1].slots /\ gs[i] = fs[i]
    BY <1>1, <1>2 DEF Fit
  <2>2. CASE i < n - 1
    BY <1>1, <1>2, <2>1, <2>2
  <2>3. CASE i = n - 1
    <3>1. i + 1 = n /\ n > 1
      BY <1>1, <2>3
    <3>2. fs[i] \in Activations /\ fs[n] \in Activations
      BY <1>1, <2>3
    <3> QED BY <2>1, <2>3, <3>1, <3>2 DEF Activations
  <2> QED BY <1>1, <2>2, <2>3
<1>5. Fit(gs, new)
  BY <1>2, <1>3, <1>4 DEF Fit
<1> QED BY <1>5 DEF gs

----------------------------------------------------------------------------
(* What the actions do to the stack and to the heap. *)

(* One growth is enough for what an instruction pushes. *)
LEMMA Grown ==
  ASSUME StackOK, NEW n \in Nat, n < 2 * capacity, Push(n)
  PROVE  /\ capacity' \in Nat /\ block' \in Nat
         /\ capacity' >= InitialStack /\ n < capacity'
<1>1. capacity \in Nat /\ block \in Nat /\ capacity >= InitialStack /\ InitialStack \in Nat
  BY VmAssumption DEF StackOK
<1>2. block' \in {block, block + 1}
  BY DEF Push
<1>3. capacity' = IF n >= capacity THEN 2 * capacity ELSE capacity
  BY DEF Push, NeedsGrowth
<1> QED BY <1>1, <1>2, <1>3

LEMMA PushedOne ==
  ASSUME StackOK, NEW v \in Values, stack' = Append(stack, v), Push(Height + 1)
  PROVE  StackOK' /\ Height' = Height + 1
<1>1. stack \in Seq(Values) /\ Height \in Nat /\ capacity \in Nat /\ Height < capacity
  BY DEF StackOK, RoomForPush, Height
<1>2. Append(stack, v) \in Seq(Values) /\ Len(Append(stack, v)) = Height + 1
  BY <1>1, AppendProperties DEF Height
<1>3. Height + 1 < 2 * capacity
  BY <1>1
<1>4. /\ capacity' \in Nat /\ block' \in Nat
      /\ capacity' >= InitialStack /\ Height + 1 < capacity'
  BY <1>1, <1>3, Grown
<1> QED BY <1>1, <1>2, <1>4 DEF StackOK, RoomForPush, Height

(* A stack cut to n values, with v on top of them or without. *)
LEMMA CutStack ==
  ASSUME StackOK, NEW n \in 0 .. Height, UNCHANGED memory,
         \/ stack' = SubSeq(stack, 1, n)
         \/ n < Height /\ \E v \in Values : stack' = Append(SubSeq(stack, 1, n), v)
  PROVE  /\ StackOK'
         /\ stack' = SubSeq(stack, 1, n) => Height' = n
         /\ (\E v \in Values : stack' = Append(SubSeq(stack, 1, n), v)) => Height' = n + 1
<1>1. stack \in Seq(Values) /\ Height \in Nat /\ capacity \in Nat /\ Height < capacity
  BY DEF StackOK, RoomForPush, Height
<1>2. SubSeq(stack, 1, n) \in Seq(Values) /\ Len(SubSeq(stack, 1, n)) = n
  BY <1>1, Cut DEF Height
<1>3. ASSUME NEW v \in Values
      PROVE  /\ Append(SubSeq(stack, 1, n), v) \in Seq(Values)
             /\ Len(Append(SubSeq(stack, 1, n), v)) = n + 1
  BY <1>2, AppendProperties
<1>4. capacity' = capacity /\ block' = block
  BY DEF memory
<1>5. CASE stack' = SubSeq(stack, 1, n)
  <2>1. Height' = n /\ stack' \in Seq(Values)
    BY <1>2, <1>5 DEF Height
  <2>2. \A v \in Values : stack' # Append(SubSeq(stack, 1, n), v)
    BY <1>1, <1>2, <1>3, <1>5
  <2> QED BY <1>1, <1>4, <2>1, <2>2 DEF StackOK, RoomForPush
<1>6. CASE n < Height /\ \E v \in Values : stack' = Append(SubSeq(stack, 1, n), v)
  <2>1. Height' = n + 1 /\ stack' \in Seq(Values)
    BY <1>3, <1>6 DEF Height
  <2>2. stack' # SubSeq(stack, 1, n)
    BY <1>1, <1>2, <1>3, <1>6
  <2> QED BY <1>1, <1>4, <1>6, <2>1, <2>2 DEF StackOK, RoomForPush
<1> QED BY <1>5, <1>6

LEMMA SameHeap ==
  ASSUME HeapOK, UNCHANGED <<heap, building>>,
         \A i \in 1 .. Len(frames') : frames'[i].closure \in DOMAIN closures \cup {Script}
  PROVE  HeapOK'
BY DEF HeapOK, Held, heap, NotBuilding

(* Upvalues that nothing holds can go. *)
LEMMA Collected ==
  ASSUME NEW us, NEW list, NEW cs, Held(us, list, cs)
  PROVE  Held(InUse(us, cs, list), list, cs)
<1> DEFINE used == DOMAIN us \cap (Elements(list) \cup UNION {Elements(cs[c]) : c \in DOMAIN cs})
           new == InUse(us, cs, list)
<1>1. DOMAIN new = used /\ \A u \in used : new[u] = us[u]
  BY DEF InUse
<1>2. list \in Seq(DOMAIN us) /\ \A c \in DOMAIN cs : cs[c] \in Seq(DOMAIN us)
  BY DEF Held
<1>3. Elements(list) \subseteq used
  BY <1>2, ElementsOfSeq
<1>4. list \in Seq(used)
  <2> HIDE DEF used
  <2> QED BY <1>2, <1>3, ElementsOfSeq
<1>5. ASSUME NEW c \in DOMAIN cs
      PROVE  cs[c] \in Seq(used)
  <2>1. Elements(cs[c]) \subseteq used
    BY <1>2, ElementsOfSeq
  <2> HIDE DEF used
  <2> QED BY <1>2, <2>1, ElementsOfSeq
<1>6. used \subseteq DOMAIN us
  OBVIOUS
<1> HIDE DEF used, new
<1>7. IsFiniteSet(used)
  BY <1>6, FS_Subset DEF Held
<1>8. Held(new, list, cs)
  BY <1>1, <1>4, <1>5, <1>6, <1>7 DEF Held
<1> QED BY <1>8 DEF new

----------------------------------------------------------------------------
(* Each action keeps the invariant: those that leave the frames alone... *)

LEMMA SameFrames ==
  ASSUME MachineOK, StackOK', UNCHANGED frames,
         frames # <<>> => Frame.slots + Frame.locals <= Height' + 1
  PROVE  FramesOK'
<1>1. Height' \in Nat
  BY DEF StackOK, Height
<1>2. Fit(frames, Height)
  BY DEF MachineOK, FramesOK
<1>3. PICK h : h = Height'
  OBVIOUS
<1>4. Fit(frames, h)
  BY <1>1, <1>2, <1>3, FitSame DEF Frame
<1> QED BY <1>3, <1>4 DEF FramesOK, Fit, Height

(* An instruction that pushes a value. *)
LEMMA Pushing ==
  ASSUME MachineOK, NEW v \in Values, stack' = Append(stack, v), Push(Height + 1),
         UNCHANGED <<frames, heap, building>>
  PROVE  MachineOK'
<1>1. StackOK' /\ Height' = Height + 1
  BY PushedOne DEF MachineOK
<1>2. FramesOK'
  BY <1>1, TopFrame, SameFrames
<1>3. HeapOK'
  BY SameHeap DEF MachineOK, HeapOK
<1> QED BY <1>1, <1>2, <1>3 DEF MachineOK

LEMMA LocalsOnStack ==
  ASSUME MachineOK, frames # <<>>, NEW i \in Nameable
  PROVE  Position(i) \in 1 .. Height /\ stack[Position(i)] \in Values
<1>1. i \in 0 .. Frame.locals - 1
  BY DEF Nameable, Locals
<1>2. Position(i) \in 1 .. Height
  BY <1>1, TopFrame DEF Position
<1> QED BY <1>2 DEF MachineOK, StackOK, Height

LEMMA ContentTyped ==
  ASSUME MachineOK, NEW u \in DOMAIN upvalues
  PROVE  Content(u) \in Values
<1>1. upvalues[u].at \in Nat /\ upvalues[u].closed \in Values
  BY DEF MachineOK, HeapOK, Held, Upvalues
<1>2. stack \in Seq(Values) /\ Nil \in Values
  BY VmAssumption DEF MachineOK, StackOK
<1>3. IsOpen(u) /\ upvalues[u].at <= Height => stack[upvalues[u].at] \in Values
  BY <1>1, <1>2 DEF IsOpen, Closed, Height
<1> QED BY <1>1, <1>2, <1>3 DEF Content

LEMMA OuterTyped ==
  ASSUME MachineOK, frames # <<>>, NEW u \in Outer
  PROVE  u \in DOMAIN upvalues /\ upvalues[u] \in Upvalues /\ Content(u) \in Values
<1>1. Frame.closure \in DOMAIN closures /\ u \in Elements(closures[Frame.closure])
  <2>1. Len(frames) \in 1 .. Len(frames)
    BY TopFrame
  <2> QED BY <2>1 DEF Outer, MachineOK, HeapOK, Frame
<1>2. u \in DOMAIN upvalues
  <2>1. closures[Frame.closure] \in Seq(DOMAIN upvalues)
    BY <1>1 DEF MachineOK, HeapOK, Held
  <2> QED BY <1>1, <2>1, ElementsOfSeq
<1>3. upvalues[u] \in Upvalues
  BY <1>2 DEF MachineOK, HeapOK, Held
<1>4. Content(u) \in Values
  BY <1>2, ContentTyped
<1> QED BY <1>2, <1>3, <1>4

LEMMA PopValueStep == MachineOK /\ PopValue => MachineOK'
<1> SUFFICES ASSUME MachineOK, PopValue PROVE MachineOK'
  OBVIOUS
<1>1. Height > 0 /\ Height - 1 \in 0 .. Height /\ frames # <<>>
      /\ Frame.slots + Frame.locals <= Height
  BY TopFrame, SMTT(30) DEF PopValue, Running, Temporaries
<1>2. StackOK' /\ Height' = Height - 1
  BY <1>1, CutStack DEF PopValue, MachineOK
<1>3. FramesOK'
  BY <1>1, <1>2, TopFrame, SameFrames DEF PopValue
<1>4. HeapOK'
  BY SameHeap DEF MachineOK, HeapOK, PopValue
<1> QED BY <1>2, <1>3, <1>4 DEF MachineOK

LEMMA CallNativeStep ==
  ASSUME MachineOK, NEW argCount \in Nat, NEW result \in Values, CallNative(argCount, result)
  PROVE  MachineOK'
<1> DEFINE n == Height - argCount - 1
<1>1. n \in 0 .. Height /\ n < Height /\ frames # <<>> /\ Frame.slots + Frame.locals <= n + 1
  BY TopFrame, SMTT(30) DEF CallNative, Running, Temporaries
<1>2. StackOK' /\ Height' = n + 1
  <2>1. stack' = Append(SubSeq(stack, 1, n), result) /\ UNCHANGED memory
    BY DEF CallNative
  <2> HIDE DEF n
  <2> QED BY <1>1, <2>1, CutStack DEF MachineOK
<1>3. FramesOK'
  BY <1>1, <1>2, TopFrame, SameFrames DEF CallNative
<1>4. HeapOK'
  BY SameHeap DEF MachineOK, HeapOK, CallNative
<1> QED BY <1>2, <1>3, <1>4 DEF MachineOK

(* A store into a slot: the stack keeps its height. *)
LEMMA StoredSlot ==
  ASSUME MachineOK, NEW p \in Nat, Height > 0, UNCHANGED <<memory, frames>>,
         stack' = [stack EXCEPT ![p] = stack[Height]]
  PROVE  StackOK' /\ FramesOK'
<1>1. stack \in Seq(Values) /\ Height \in Nat /\ stack[Height] \in Values
  BY DEF MachineOK, StackOK, Height
<1>2. stack' \in Seq(Values) /\ Height' = Height
  <2>1. CASE p \in 1 .. Height
    BY <1>1, <2>1, Replaced DEF Height
  <2>2. CASE p \notin 1 .. Height
    <3>1. p \notin DOMAIN stack
      BY <1>1, <2>2 DEF Height
    <3>2. stack' = stack
      BY <1>1, <3>1
    <3> QED BY <1>1, <3>2 DEF Height
  <2> QED BY <2>1, <2>2
<1>3. StackOK'
  BY <1>2 DEF MachineOK, StackOK, RoomForPush, memory
<1> QED BY <1>2, <1>3, TopFrame, SameFrames

LEMMA SetLocalStep ==
  ASSUME MachineOK, frames # <<>>, NEW i \in Nameable, SetLocal(i)
  PROVE  MachineOK'
<1>1. Position(i) \in Nat /\ Height > 0
  BY LocalsOnStack, TopFrame
<1>2. StackOK' /\ FramesOK'
  BY <1>1, StoredSlot DEF SetLocal
<1>3. HeapOK'
  BY SameHeap DEF MachineOK, HeapOK, SetLocal
<1> QED BY <1>2, <1>3 DEF MachineOK

LEMMA SetUpvalueStep ==
  ASSUME MachineOK, frames # <<>>, NEW u \in Outer, SetUpvalue(u)
  PROVE  MachineOK'
<1>1. u \in DOMAIN upvalues /\ upvalues[u] \in Upvalues
  BY OuterTyped
<1>2. Height > 0 /\ stack[Height] \in Values
  BY TopFrame DEF MachineOK, StackOK, Height
<1>3. CASE IsOpen(u)
  <2>1. upvalues[u].at \in Nat
    BY <1>1 DEF Upvalues
  <2>2. StackOK' /\ FramesOK'
    BY <1>2, <1>3, <2>1, StoredSlot DEF SetUpvalue
  <2>3. HeapOK'
    BY <1>3, SameHeap DEF MachineOK, HeapOK, SetUpvalue, heap
  <2> QED BY <2>2, <2>3 DEF MachineOK
<1>4. CASE ~ IsOpen(u)
  <2>1. /\ upvalues' = [upvalues EXCEPT ![u].closed = stack[Height]]
        /\ UNCHANGED <<stack, memory, frames, open, closures, building>>
    BY <1>4 DEF SetUpvalue
  <2>2. [upvalues[u] EXCEPT !.closed = stack[Height]] \in Upvalues
    BY <1>1, <1>2 DEF Upvalues
  <2>3. /\ DOMAIN upvalues' = DOMAIN upvalues
        /\ \A w \in DOMAIN upvalues : upvalues'[w] \in Upvalues
    BY <1>1, <2>1, <2>2 DEF MachineOK, HeapOK, Held
  <2>4. HeapOK'
    BY <2>1, <2>3 DEF MachineOK, HeapOK, Held, NotBuilding
  <2>5. StackOK' /\ FramesOK'
    BY <2>1 DEF MachineOK, StackOK, RoomForPush, FramesOK, Fit, Height, memory
  <2> QED BY <2>4, <2>5 DEF MachineOK
<1> QED BY <1>3, <1>4

----------------------------------------------------------------------------
(* ... those that change the frame on top... *)

LEMMA TopChanged ==
  ASSUME MachineOK, frames # <<>>, NEW fr \in Activations, SoundFrame(fr),
         fr.slots = Frame.slots, fr.closure = Frame.closure,
         frames' = [frames EXCEPT ![Len(frames)] = fr],
         StackOK', fr.slots + fr.locals <= Height' + 1
  PROVE  /\ FramesOK'
         /\ \A i \in 1 .. Len(frames') : frames'[i].closure \in DOMAIN closures \cup {Script}
<1> DEFINE new == [frames EXCEPT ![Len(frames)] = fr]
<1>1. Height' \in Nat
  BY DEF StackOK, Height
<1>2. PICK h : h = Height'
  OBVIOUS
<1>3. Fit(new, h)
  BY <1>1, <1>2, FitChanged DEF MachineOK, FramesOK, Frame
<1>4. /\ Len(new) = Len(frames) /\ new[Len(frames)] = fr
      /\ \A i \in 1 .. Len(frames) : i # Len(frames) => new[i] = frames[i]
  <2>1. frames \in Seq(Activations) /\ Len(frames) \in 1 .. Len(frames)
    BY TopFrame DEF MachineOK, FramesOK, Fit
  <2> QED BY <2>1, Replaced
<1>5. \A i \in 1 .. Len(frames) : frames[i].closure \in DOMAIN closures \cup {Script}
  BY DEF MachineOK, HeapOK
<1> HIDE DEF new
<1>6. \A i \in 1 .. Len(new) : new[i].closure \in DOMAIN closures \cup {Script}
  BY <1>4, <1>5 DEF Frame
<1>7. frames' = new
  BY DEF new
<1>8. Fit(frames', Height')
  BY <1>2, <1>3, <1>7
<1>9. FramesOK'
  BY <1>8 DEF FramesOK, Fit, Height
<1> QED BY <1>6, <1>7, <1>9

(* One more local. *)
LEMMA OneMoreLocal ==
  ASSUME MachineOK, frames # <<>>, NEW fr, fr = [Frame EXCEPT !.locals = @ + 1]
  PROVE  /\ fr \in Activations /\ SoundFrame(fr) /\ fr.slots = Frame.slots
         /\ fr.closure = Frame.closure /\ fr.locals = Frame.locals + 1
<1>1. Frame \in Activations /\ SoundFrame(Frame)
  BY TopFrame
<1>2. /\ fr \in Activations /\ fr.slots = Frame.slots /\ fr.scopes = Frame.scopes
      /\ fr.closure = Frame.closure /\ fr.locals = Frame.locals + 1
  BY <1>1 DEF Activations
<1>3. Frame.slots \in Nat /\ Frame.locals \in Nat /\ Frame.scopes \in Seq(Nat)
  BY <1>1 DEF Activations
<1>4. SoundFrame(fr)
  BY <1>1, <1>2, <1>3 DEF SoundFrame
<1> QED BY <1>2, <1>4

LEMMA DeclareLocalStep == MachineOK /\ DeclareLocal => MachineOK'
<1> SUFFICES ASSUME MachineOK, DeclareLocal PROVE MachineOK'
  OBVIOUS
<1> DEFINE fr == [Frame EXCEPT !.locals = @ + 1]
<1>1. frames # <<>> /\ Frame.slots + Frame.locals = Height
  <2>1. frames # <<>> /\ Height - (Frame.slots + Frame.locals - 1) = 1
    BY DEF DeclareLocal, Running, Temporaries
  <2>2. Height \in Nat /\ Frame.slots \in Nat /\ Frame.locals \in Nat
    BY <2>1, TopFrame
  <2> QED BY <2>1, <2>2
<1>2. frames' = [frames EXCEPT ![Len(frames)] = fr]
  BY DEF DeclareLocal, Frame
<1> HIDE DEF fr
<1>3. /\ fr \in Activations /\ SoundFrame(fr) /\ fr.slots = Frame.slots
      /\ fr.closure = Frame.closure /\ fr.locals = Frame.locals + 1
  BY <1>1, OneMoreLocal DEF fr
<1>4. StackOK' /\ Height' = Height
  BY DEF DeclareLocal, MachineOK, StackOK, RoomForPush, Height, memory
<1>5. fr.slots + fr.locals <= Height' + 1
  BY <1>1, <1>3, <1>4, TopFrame
<1>6. /\ FramesOK'
      /\ \A i \in 1 .. Len(frames') : frames'[i].closure \in DOMAIN closures \cup {Script}
  BY <1>1, <1>2, <1>3, <1>4, <1>5, TopChanged
<1>7. HeapOK'
  BY <1>6, SameHeap DEF MachineOK, DeclareLocal
<1> QED BY <1>4, <1>6, <1>7 DEF MachineOK

LEMMA beginScopeStep == MachineOK /\ beginScope => MachineOK'
<1> SUFFICES ASSUME MachineOK, beginScope PROVE MachineOK'
  OBVIOUS
<1> DEFINE fr == [Frame EXCEPT !.scopes = Append(@, Frame.locals)]
           s == Append(Frame.scopes, Frame.locals)
<1>1. frames # <<>>
  BY DEF beginScope, AtStatement, Running
<1>2. frames' = [frames EXCEPT ![Len(frames)] = fr]
  BY DEF beginScope, Frame
<1>3. /\ Frame \in Activations /\ SoundFrame(Frame)
      /\ Frame.slots \in Nat /\ Frame.locals \in Nat /\ Frame.scopes \in Seq(Nat)
      /\ Frame.slots > 0 /\ Frame.locals > 0 /\ Frame.slots + Frame.locals <= Height + 1
  BY <1>1, TopFrame
<1>4. /\ s \in Seq(Nat) /\ Len(s) = Len(Frame.scopes) + 1 /\ s[Len(Frame.scopes) + 1] = Frame.locals
      /\ \A n \in 1 .. Len(Frame.scopes) : s[n] = Frame.scopes[n]
  BY <1>3, AppendProperties
<1>5. /\ fr \in Activations /\ fr.slots = Frame.slots /\ fr.locals = Frame.locals
      /\ fr.closure = Frame.closure /\ fr.scopes = s
  BY <1>3, <1>4 DEF Activations
<1> HIDE DEF fr, s
<1>6. SoundFrame(fr)
  <2> DEFINE k == Len(Frame.scopes)
  <2>1. k \in Nat /\ \A n \in 1 .. k : Frame.scopes[n] \in 1 .. Frame.locals
    BY <1>3 DEF SoundFrame
  <2>2. \A m, n \in 1 .. k : m <= n => Frame.scopes[m] <= Frame.scopes[n]
    BY <1>3 DEF SoundFrame
  <2> HIDE DEF k
  <2>3. ASSUME NEW n \in 1 .. k + 1
        PROVE  s[n] \in 1 .. Frame.locals
    <3>1. CASE n = k + 1
      BY <1>3, <1>4, <3>1 DEF k
    <3>2. CASE n # k + 1
      <4>1. n \in 1 .. k
        BY <2>1, <3>2
      <4> QED BY <1>4, <2>1, <4>1 DEF k
    <3> QED BY <3>1, <3>2
  <2>4. ASSUME NEW m \in 1 .. k + 1, NEW n \in 1 .. k + 1, m <= n
        PROVE  s[m] <= s[n]
    <3>1. CASE n = k + 1
      BY <1>3, <1>4, <2>1, <2>3, <3>1 DEF k
    <3>2. CASE n # k + 1
      <4>1. m \in 1 .. k /\ n \in 1 .. k
        BY <2>1, <2>4, <3>2
      <4> QED BY <1>4, <2>2, <2>4, <4>1 DEF k
    <3> QED BY <3>1, <3>2
  <2> QED BY <1>3, <1>4, <1>5, <2>3, <2>4 DEF SoundFrame, k
<1>7. StackOK' /\ Height' = Height
  BY DEF beginScope, MachineOK, StackOK, RoomForPush, Height, memory
<1>8. fr.slots + fr.locals <= Height' + 1
  BY <1>3, <1>5, <1>7
<1>9. /\ FramesOK'
      /\ \A i \in 1 .. Len(frames') : frames'[i].closure \in DOMAIN closures \cup {Script}
  BY <1>1, <1>2, <1>5, <1>6, <1>7, <1>8, TopChanged
<1>10. HeapOK'
  BY <1>9, SameHeap DEF MachineOK, beginScope
<1> QED BY <1>7, <1>9, <1>10 DEF MachineOK

(* A scope that ends, with or without the upvalues of its locals. *)
LEMMA ScopesEnded ==
  ASSUME MachineOK, frames # <<>>, NEW n \in 1 .. Len(Frame.scopes), Without(n), UNCHANGED memory
  PROVE  /\ StackOK' /\ FramesOK'
         /\ \A i \in 1 .. Len(frames') : frames'[i].closure \in DOMAIN closures \cup {Script}
<1> DEFINE start == Frame.scopes[n]
           s == SubSeq(Frame.scopes, 1, n - 1)
           fr == [Frame EXCEPT !.locals = start, !.scopes = s]
           top == Position(start) - 1
<1>1. /\ Frame \in Activations /\ SoundFrame(Frame) /\ Height \in Nat
      /\ Frame.slots \in Nat /\ Frame.locals \in Nat /\ Frame.scopes \in Seq(Nat)
      /\ Frame.slots > 0 /\ Frame.locals > 0 /\ Frame.slots + Frame.locals <= Height + 1
  BY TopFrame
<1>2. start \in 1 .. Frame.locals
  BY <1>1 DEF SoundFrame
<1>3. frames' = [frames EXCEPT ![Len(frames)] = fr] /\ stack' = SubSeq(stack, 1, top)
  BY DEF Without, Frame
<1>4. top \in 0 .. Height /\ top + 1 = Frame.slots + start
  BY <1>1, <1>2, SMTT(30) DEF Position
<1>5. n - 1 \in 0 .. Len(Frame.scopes) /\ n - 1 \in Nat
  BY <1>1
<1>6. /\ s \in Seq(Nat) /\ Len(s) = n - 1
      /\ \A m \in 1 .. n - 1 : s[m] = Frame.scopes[m]
  BY <1>1, <1>5, Cut
<1>7. /\ fr \in Activations /\ fr.slots = Frame.slots /\ fr.locals = start
      /\ fr.closure = Frame.closure /\ fr.scopes = s
  <2>1. start \in Nat
    BY <1>1, <1>2
  <2> HIDE DEF s, start
  <2> QED BY <1>1, <1>6, <2>1 DEF Activations
<1>8. \A m \in 1 .. n : Frame.scopes[m] \in 1 .. start
  <2> DEFINE t == Frame.scopes
  <2>1. /\ \A m \in 1 .. Len(t) : t[m] \in 1 .. Frame.locals
        /\ \A l, m \in 1 .. Len(t) : l <= m => t[l] <= t[m]
    BY <1>1 DEF SoundFrame
  <2>2. start = t[n] /\ n \in 1 .. Len(t) /\ Len(t) \in Nat
    BY <1>1
  <2> HIDE DEF t, start
  <2>3. ASSUME NEW m \in 1 .. n
        PROVE  t[m] \in 1 .. start
    <3>1. m \in 1 .. Len(t) /\ m <= n
      BY <2>2
    <3>2. t[m] \in 1 .. Frame.locals /\ start \in 1 .. Frame.locals /\ t[m] <= start
      BY <2>1, <2>2, <3>1
    <3> QED BY <1>1, <3>2
  <2> QED BY <2>3 DEF t
<1>9. \A l, m \in 1 .. n : l <= m => Frame.scopes[l] <= Frame.scopes[m]
  <2>1. Len(Frame.scopes) \in Nat
    BY <1>1
  <2>2. \A m \in 1 .. n : m \in 1 .. Len(Frame.scopes)
    BY <2>1
  <2> QED BY <1>1, <2>2 DEF SoundFrame
<1> HIDE DEF fr, s, start, top
<1>10. SoundFrame(fr)
  <2>0. \A m \in 1 .. n - 1 : m \in 1 .. n
    BY <1>5
  <2>1. \A m \in 1 .. n - 1 : s[m] \in 1 .. start
    BY <1>6, <1>8, <2>0
  <2>2. \A l, m \in 1 .. n - 1 : l <= m => s[l] <= s[m]
    BY <1>6, <1>9, <2>0
  <2> QED BY <1>1, <1>2, <1>6, <1>7, <2>1, <2>2 DEF SoundFrame
<1>11. StackOK' /\ Height' = top
  BY <1>3, <1>4, CutStack DEF MachineOK
<1>12. fr.slots + fr.locals <= Height' + 1
  BY <1>1, <1>2, <1>4, <1>7, <1>11
<1> QED BY <1>3, <1>7, <1>10, <1>11, <1>12, TopChanged

LEMMA LeaveLoopStep ==
  ASSUME MachineOK, frames # <<>>, NEW n \in DOMAIN Frame.scopes, LeaveLoop(n)
  PROVE  MachineOK'
<1>1. n \in 1 .. Len(Frame.scopes)
  BY TopFrame
<1>2. /\ StackOK' /\ FramesOK'
      /\ \A i \in 1 .. Len(frames') : frames'[i].closure \in DOMAIN closures \cup {Script}
  BY <1>1, ScopesEnded DEF LeaveLoop
<1>3. HeapOK'
  BY <1>2, SameHeap DEF MachineOK, LeaveLoop
<1> QED BY <1>2, <1>3 DEF MachineOK

----------------------------------------------------------------------------
(* ... those that make and end closures... *)

LEMMA NewClosureStep ==
  ASSUME MachineOK, NEW c \in Closures, NEW named \in BOOLEAN, NewClosure(c, named)
  PROVE  MachineOK'
<1>1. /\ frames # <<>> /\ stack' = Append(stack, Object) /\ Push(Height + 1)
      /\ closures' = [d \in DOMAIN closures \cup {c} |-> IF d = c THEN <<>> ELSE closures[d]]
      /\ building' = [closure |-> c, named |-> named]
      /\ open' = open /\ upvalues' = upvalues
  BY DEF NewClosure, Running
<1>2. StackOK' /\ Height' = Height + 1
  BY <1>1, VmAssumption, PushedOne DEF MachineOK
<1>3. /\ FramesOK'
      /\ \A i \in 1 .. Len(frames') : frames'[i].closure \in DOMAIN closures \cup {Script}
  <2>1. CASE named
    <3> DEFINE fr == [Frame EXCEPT !.locals = @ + 1]
    <3>1. frames' = [frames EXCEPT ![Len(frames)] = fr]
      BY <2>1 DEF NewClosure, Frame
    <3> HIDE DEF fr
    <3>2. /\ fr \in Activations /\ SoundFrame(fr) /\ fr.slots = Frame.slots
          /\ fr.closure = Frame.closure /\ fr.locals = Frame.locals + 1
      BY <1>1, OneMoreLocal DEF fr
    <3>3. fr.slots + fr.locals <= Height' + 1
      BY <1>1, <1>2, <3>2, TopFrame
    <3> QED BY <1>1, <1>2, <3>1, <3>2, <3>3, TopChanged
  <2>2. CASE ~ named
    <3>1. frames' = frames
      BY <2>2 DEF NewClosure
    <3>2. FramesOK'
      BY <1>1, <1>2, <3>1, TopFrame, SameFrames
    <3> QED BY <3>1, <3>2 DEF MachineOK, HeapOK
  <2> QED BY <2>1, <2>2
<1>4. DOMAIN closures' = DOMAIN closures \cup {c}
  BY <1>1
<1>5. \A d \in DOMAIN closures' : closures'[d] \in Seq(DOMAIN upvalues)
  <2>1. \A d \in DOMAIN closures : closures[d] \in Seq(DOMAIN upvalues)
    BY DEF MachineOK, HeapOK, Held
  <2>2. <<>> \in Seq(DOMAIN upvalues)
    OBVIOUS
  <2> QED BY <1>1, <2>1, <2>2
<1>6. HeapOK'
  BY <1>1, <1>3, <1>4, <1>5 DEF MachineOK, HeapOK, Held
<1> QED BY <1>2, <1>3, <1>6 DEF MachineOK

LEMMA Rest ==
  ASSUME NEW S, NEW s \in Seq(S), NEW n \in 0 .. Len(s)
  PROVE  /\ SubSeq(s, n + 1, Len(s)) \in Seq(S)
         /\ Len(SubSeq(s, n + 1, Len(s))) = Len(s) - n
         /\ \A i \in 1 .. Len(s) - n : SubSeq(s, n + 1, Len(s))[i] = s[n + i]
<1>1. \A i \in n + 1 .. Len(s) : s[i] \in S
  OBVIOUS
<1> QED BY <1>1, SubSeqProperties

LEMMA UpvaluesClosed ==
  ASSUME MachineOK, NEW last, closeUpvalues(last)
  PROVE  Held(upvalues', open', closures') /\ closures' = closures
<1> DEFINE n == Cardinality(AtOrAbove(last))
           closing == Elements(SubSeq(open, 1, n))
           rest == SubSeq(open, n + 1, Len(open))
           us == [u \in DOMAIN upvalues |->
                    IF u \in closing
                      THEN [upvalues[u] EXCEPT !.closed = Content(u), !.at = Closed]
                      ELSE upvalues[u]]
<1>1. Held(upvalues, open, closures) /\ open \in Seq(DOMAIN upvalues)
  BY DEF MachineOK, HeapOK, Held
<1>2. n \in 0 .. Len(open)
  BY <1>1, ListPrefixes
<1>3. rest \in Seq(DOMAIN upvalues)
  <2> HIDE DEF n
  <2> QED BY <1>1, <1>2, Rest
<1>4. open' = rest /\ upvalues' = InUse(us, closures, rest) /\ closures' = closures
  BY DEF closeUpvalues
<1> HIDE DEF n, rest, closing
<1>5. DOMAIN us = DOMAIN upvalues
  OBVIOUS
<1>6. ASSUME NEW u \in DOMAIN upvalues
      PROVE  us[u] \in Upvalues
  <2>1. upvalues[u] \in Upvalues /\ Content(u) \in Values /\ Closed \in Nat
    BY <1>1, ContentTyped DEF Held, Closed
  <2>2. [upvalues[u] EXCEPT !.closed = Content(u), !.at = Closed] \in Upvalues
    BY <2>1 DEF Upvalues
  <2> QED BY <2>1, <2>2
<1> HIDE DEF us
<1>7. Held(us, rest, closures)
  BY <1>1, <1>3, <1>5, <1>6 DEF Held
<1>8. Held(InUse(us, closures, rest), rest, closures)
  BY <1>7, Collected
<1> QED BY <1>4, <1>8

LEMMA endScopeStep == MachineOK /\ endScope => MachineOK'
<1> SUFFICES ASSUME MachineOK, endScope PROVE MachineOK'
  OBVIOUS
<1> DEFINE n == Len(Frame.scopes)
<1>1. frames # <<>> /\ Frame.scopes # <<>>
  BY DEF endScope, AtStatement, Running
<1>2. n \in 1 .. Len(Frame.scopes)
  BY <1>1, TopFrame
<1>3. Without(n) /\ closeUpvalues(Position(Frame.scopes[n])) /\ UNCHANGED <<memory, building>>
  BY DEF endScope
<1>4. /\ StackOK' /\ FramesOK'
      /\ \A i \in 1 .. Len(frames') : frames'[i].closure \in DOMAIN closures \cup {Script}
  BY <1>1, <1>2, <1>3, ScopesEnded
<1>5. Held(upvalues', open', closures') /\ closures' = closures
  BY <1>3, UpvaluesClosed
<1>6. HeapOK'
  BY <1>3, <1>4, <1>5 DEF MachineOK, HeapOK, Held, NotBuilding
<1> QED BY <1>4, <1>6 DEF MachineOK

LEMMA CaptureOuterStep ==
  ASSUME MachineOK, frames # <<>>, NEW u \in Outer, CaptureOuter(u)
  PROVE  MachineOK'
<1>1. u \in DOMAIN upvalues
  BY OuterTyped
<1>2. /\ closures' = [closures EXCEPT ![building.closure] = Append(@, u)]
      /\ UNCHANGED <<stack, memory, frames, building, open, upvalues>>
  BY DEF CaptureOuter, AddUpvalue
<1>3. \A c \in DOMAIN closures : /\ closures[c] \in Seq(DOMAIN upvalues)
                                 /\ Append(closures[c], u) \in Seq(DOMAIN upvalues)
  BY <1>1, AppendProperties DEF MachineOK, HeapOK, Held
<1>4. /\ DOMAIN closures' = DOMAIN closures
      /\ \A c \in DOMAIN closures : closures'[c] \in Seq(DOMAIN upvalues)
  BY <1>2, <1>3
<1>5. StackOK' /\ FramesOK'
  BY <1>2 DEF MachineOK, StackOK, RoomForPush, FramesOK, Fit, Height, memory
<1>6. HeapOK'
  BY <1>2, <1>4 DEF MachineOK, HeapOK, Held, NotBuilding
<1> QED BY <1>5, <1>6 DEF MachineOK

LEMMA ClosureBuiltStep == MachineOK /\ ClosureBuilt => MachineOK'
<1> SUFFICES ASSUME MachineOK, ClosureBuilt PROVE MachineOK'
  OBVIOUS
<1>1. UNCHANGED <<stack, memory, frames, heap>> /\ building' = NotBuilding
  BY DEF ClosureBuilt
<1>2. StackOK' /\ FramesOK'
  BY <1>1 DEF MachineOK, StackOK, RoomForPush, FramesOK, Fit, Height, memory
<1>3. HeapOK'
  BY <1>1 DEF MachineOK, HeapOK, Held, NotBuilding, heap
<1> QED BY <1>2, <1>3 DEF MachineOK

LEMMA ForgetStep ==
  ASSUME MachineOK, NEW c \in DOMAIN closures, Forget(c)
  PROVE  MachineOK'
<1> DEFINE cs == [d \in DOMAIN closures \ {c} |-> closures[d]]
<1>1. /\ building = NotBuilding /\ closures' = cs /\ upvalues' = InUse(upvalues, cs, open)
      /\ \A i \in DOMAIN frames : frames[i].closure # c
      /\ UNCHANGED <<stack, memory, frames, open, building>>
  BY DEF Forget
<1>2. DOMAIN cs = DOMAIN closures \ {c} /\ \A d \in DOMAIN cs : cs[d] = closures[d]
  OBVIOUS
<1> HIDE DEF cs
<1>3. Held(upvalues, open, cs)
  BY <1>2 DEF MachineOK, HeapOK, Held
<1>4. Held(upvalues', open', closures')
  BY <1>1, <1>3, Collected
<1>5. StackOK' /\ FramesOK'
  BY <1>1 DEF MachineOK, StackOK, RoomForPush, FramesOK, Fit, Height, memory
<1>6. HeapOK'
  <2>2. \A i \in 1 .. Len(frames') : frames'[i].closure \in DOMAIN closures' \cup {Script}
    BY <1>1, <1>2, TopFrame DEF MachineOK, HeapOK
  <2>3. building' = NotBuilding /\ building' \in [closure : DOMAIN closures' \cup {Script}, named : BOOLEAN]
    BY <1>1 DEF NotBuilding
  <2> QED BY <1>4, <2>2, <2>3 DEF HeapOK, NotBuilding
<1> QED BY <1>5, <1>6 DEF MachineOK

(* The upvalue of a local is in the list already, or it is a new one that    *)
(* goes in where the loop stopped.                                           *)
LEMMA UpvalueFoundOrMade ==
  ASSUME MachineOK, NEW p,
         NEW n, n = Cardinality(Above(p)),
         NEW u, u = UpvalueOf(p)
  PROVE  /\ n \in 0 .. Len(open)
         /\ \/ /\ n < Len(open) /\ u = open[n + 1] /\ u \in DOMAIN upvalues
               /\ upvalues[u].at = p /\ captureUpvalue(p) = open
            \/ /\ u \in Nat \ {0} /\ u \notin DOMAIN upvalues
               /\ n < Len(open) => upvalues[open[n + 1]].at # p
               /\ captureUpvalue(p) = SubSeq(open, 1, n) \o <<u>> \o SubSeq(open, n + 1, Len(open))
<1>1. open \in Seq(DOMAIN upvalues) /\ IsFiniteSet(DOMAIN upvalues)
  BY DEF MachineOK, HeapOK, Held
<1>2. n \in 0 .. Len(open)
  BY <1>1, ListPrefixes
<1>3. u = IF n < Len(open) /\ upvalues[open[n + 1]].at = p THEN open[n + 1] ELSE NotIn(DOMAIN upvalues)
  BY DEF UpvalueOf
<1>4. captureUpvalue(p) = IF u \in DOMAIN upvalues THEN open
                          ELSE SubSeq(open, 1, n) \o <<u>> \o SubSeq(open, n + 1, Len(open))
  BY DEF captureUpvalue
<1>5. CASE n < Len(open) /\ upvalues[open[n + 1]].at = p
  <2>1. n + 1 \in 1 .. Len(open)
    BY <1>2, <1>5
  <2>2. open[n + 1] \in DOMAIN upvalues
    BY <1>1, <2>1
  <2> QED BY <1>2, <1>3, <1>4, <1>5, <2>2
<1>6. CASE ~ (n < Len(open) /\ upvalues[open[n + 1]].at = p)
  <2>1. u = NotIn(DOMAIN upvalues)
    BY <1>3, <1>6
  <2>2. u \in Nat \ {0} /\ u \notin DOMAIN upvalues
    BY <1>1, <2>1, FreshNumber
  <2> QED BY <1>2, <1>4, <1>6, <2>2
<1> QED BY <1>5, <1>6

(* A list with an element put between its first n and the others. *)
Insert(s, n, e) == SubSeq(s, 1, n) \o <<e>> \o SubSeq(s, n + 1, Len(s))

(* new is s with e after the first n. *)
HasInserted(S, s, n, e, new) ==
  /\ new \in Seq(S) /\ Len(new) = Len(s) + 1 /\ new[n + 1] = e
  /\ \A i \in 1 .. n : new[i] = s[i]
  /\ \A i \in n + 2 .. Len(s) + 1 : new[i] = s[i - 1]

LEMMA Inserted ==
  ASSUME NEW S, NEW s \in Seq(S), NEW n \in 0 .. Len(s), NEW e \in S
  PROVE  HasInserted(S, s, n, e, Insert(s, n, e))
<1> DEFINE new == Insert(s, n, e)
           front == SubSeq(s, 1, n)
           back == SubSeq(s, n + 1, Len(s))
           head == front \o <<e>>
<1>1. front \in Seq(S) /\ Len(front) = n /\ \A i \in 1 .. n : front[i] = s[i]
  BY Cut
<1>2. /\ back \in Seq(S) /\ Len(back) = Len(s) - n
      /\ \A i \in 1 .. Len(s) - n : back[i] = s[n + i]
  BY Rest
<1>3. <<e>> \in Seq(S) /\ Len(<<e>>) = 1 /\ <<e>>[1] = e
  OBVIOUS
<1> HIDE DEF front, back
<1>4. /\ head \in Seq(S) /\ Len(head) = n + 1 /\ head[n + 1] = e
      /\ \A i \in 1 .. n : head[i] = s[i]
  BY <1>1, <1>3, ConcatProperties
<1>5. new = head \o back
  BY DEF front, back, Insert
<1> HIDE DEF head, new
<1>6. /\ head \o back \in Seq(S) /\ Len(head \o back) = Len(head) + Len(back)
      /\ \A i \in 1 .. Len(head) + Len(back) :
           (head \o back)[i] = IF i <= Len(head) THEN head[i] ELSE back[i - Len(head)]
  BY <1>2, <1>4, ConcatProperties
<1>7. /\ new \in Seq(S) /\ Len(new) = Len(s) + 1
      /\ \A i \in 1 .. Len(s) + 1 : new[i] = IF i <= n + 1 THEN head[i] ELSE back[i - (n + 1)]
  <2>1. Len(head) + Len(back) = Len(s) + 1
    BY <1>2, <1>4
  <2> QED BY <1>4, <1>5, <1>6, <2>1
<1>8. ASSUME NEW i \in n + 2 .. Len(s) + 1
      PROVE  new[i] = s[i - 1]
  <2>1. i - (n + 1) \in 1 .. Len(s) - n /\ n + (i - (n + 1)) = i - 1
        /\ i \in 1 .. Len(s) + 1 /\ ~ (i <= n + 1)
    OBVIOUS
  <2>2. new[i] = back[i - (n + 1)]
    BY <1>7, <2>1
  <2> QED BY <1>2, <2>1, <2>2
<1>9. n + 1 \in 1 .. Len(s) + 1 /\ \A i \in 1 .. n : i \in 1 .. Len(s) + 1 /\ i <= n + 1
  OBVIOUS
<1>10. new[n + 1] = e /\ \A i \in 1 .. n : new[i] = s[i]
  <2>1. n + 1 <= n + 1
    OBVIOUS
  <2>2. new[n + 1] = head[n + 1]
    BY <1>7, <1>9, <2>1
  <2>3. \A i \in 1 .. n : new[i] = head[i]
    BY <1>7, <1>9
  <2> QED BY <1>4, <2>2, <2>3
<1>11. new = Insert(s, n, e)
  BY DEF new
<1>12. HasInserted(S, s, n, e, new)
  BY <1>7, <1>8, <1>10 DEF HasInserted
<1> QED BY <1>11, <1>12

LEMMA CaptureLocalStep ==
  ASSUME MachineOK, frames # <<>>, NEW i \in Nameable, CaptureLocal(i)
  PROVE  MachineOK'
<1> DEFINE p == Position(i)
           u == UpvalueOf(p)
           n == Cardinality(Above(p))
           new == DOMAIN upvalues \cup {u}
<1>1. p \in Nat /\ Frame \in Activations
  BY LocalsOnStack, TopFrame
<1>2. /\ building # NotBuilding
      /\ open' = captureUpvalue(p)
      /\ upvalues' = [w \in new |-> IF w \in DOMAIN upvalues THEN upvalues[w] ELSE newUpvalue(p)]
      /\ closures' = [closures EXCEPT ![building.closure] = Append(@, u)]
      /\ UNCHANGED <<stack, memory, frames, building>>
  BY DEF CaptureLocal, AddUpvalue
<1>3. newUpvalue(p) \in Upvalues
  BY <1>1, VmAssumption DEF newUpvalue, Upvalues, Activations
<1>4. Held(upvalues, open, closures)
  BY DEF MachineOK, HeapOK
<1> HIDE DEF p, u, n
<1>5. /\ n \in 0 .. Len(open)
      /\ \/ /\ n < Len(open) /\ u = open[n + 1] /\ u \in DOMAIN upvalues
            /\ upvalues[u].at = p /\ captureUpvalue(p) = open
         \/ /\ u \in Nat \ {0} /\ u \notin DOMAIN upvalues
            /\ n < Len(open) => upvalues[open[n + 1]].at # p
            /\ captureUpvalue(p) = SubSeq(open, 1, n) \o <<u>> \o SubSeq(open, n + 1, Len(open))
  BY UpvalueFoundOrMade DEF u, n
<1>6. DOMAIN upvalues' = new /\ \A w \in new : upvalues'[w] \in Upvalues
  BY <1>2, <1>3, <1>4 DEF Held
<1>7. IsFiniteSet(new) /\ new \subseteq Nat
  BY <1>4, <1>5, FS_AddElement DEF Held
<1>8. open \in Seq(new) /\ \A c \in DOMAIN closures : closures[c] \in Seq(new)
  <2>1. DOMAIN upvalues \subseteq new
    OBVIOUS
  <2> HIDE DEF new
  <2>2. \A s \in Seq(DOMAIN upvalues) : s \in Seq(new)
    BY <2>1
  <2> QED BY <1>4, <2>2 DEF Held
<1>9. open' \in Seq(new)
  <2>1. u \in new
    OBVIOUS
  <2> HIDE DEF new
  <2>2. CASE captureUpvalue(p) = open
    BY <1>2, <1>8, <2>2
  <2>3. CASE captureUpvalue(p) = SubSeq(open, 1, n) \o <<u>> \o SubSeq(open, n + 1, Len(open))
    <3>1. captureUpvalue(p) = Insert(open, n, u) /\ n \in 0 .. Len(open)
      BY <1>5, <2>3 DEF Insert
    <3>2. captureUpvalue(p) \in Seq(new)
      BY <1>8, <2>1, <3>1, Inserted DEF HasInserted
    <3> QED BY <1>2, <3>2
  <2> QED BY <1>5, <2>2, <2>3
<1>10. /\ DOMAIN closures' = DOMAIN closures
       /\ \A c \in DOMAIN closures : closures'[c] \in Seq(new)
  <2>1. u \in new
    OBVIOUS
  <2> HIDE DEF new
  <2>2. \A c \in DOMAIN closures : Append(closures[c], u) \in Seq(new)
    BY <1>8, <2>1, AppendProperties
  <2> QED BY <1>2, <1>8, <2>2
<1>11. Held(upvalues', open', closures')
  <2> HIDE DEF new
  <2> QED BY <1>4, <1>6, <1>7, <1>9, <1>10 DEF Held
<1>12. StackOK' /\ FramesOK'
  BY <1>2 DEF MachineOK, StackOK, RoomForPush, FramesOK, Fit, Height, memory
<1>13. HeapOK'
  BY <1>2, <1>10, <1>11 DEF MachineOK, HeapOK, NotBuilding
<1> QED BY <1>12, <1>13 DEF MachineOK

----------------------------------------------------------------------------
(* ... and calls, returns and errors. *)

LEMMA interpretStep == MachineOK /\ interpret => MachineOK'
<1> SUFFICES ASSUME MachineOK, interpret PROVE MachineOK'
  OBVIOUS
<1> DEFINE fr == [closure |-> Script, slots |-> 1, block |-> block', locals |-> 1, scopes |-> <<>>]
<1>1. /\ frames = <<>> /\ stack' = <<Object>> /\ Push(1) /\ frames' = <<fr>>
      /\ UNCHANGED <<heap, building>>
  BY DEF interpret, NewFrame
<1>2. StackOK'
  <2>1. capacity \in Nat /\ InitialStack > 1 /\ InitialStack \in Nat /\ capacity >= InitialStack
    BY VmAssumption DEF MachineOK, StackOK
  <2>2. 1 < 2 * capacity
    BY <2>1
  <2>3. capacity' \in Nat /\ block' \in Nat /\ capacity' >= InitialStack /\ 1 < capacity'
    BY <1>1, <2>2, Grown DEF MachineOK
  <2>4. stack' \in Seq(Values) /\ Height' = 1
    <3>1. Object \in Values /\ stack' = <<Object>> /\ Len(<<Object>>) = 1
      BY <1>1, VmAssumption
    <3>2. <<Object>> \in Seq(Values)
      BY <3>1
    <3> QED BY <3>1, <3>2 DEF Height
  <2> QED BY <2>3, <2>4 DEF StackOK, RoomForPush
<1>3. Height' = 1 /\ block' \in Nat
  BY <1>1, <1>2 DEF Height, StackOK
<1>4. fr \in Activations /\ SoundFrame(fr) /\ fr.slots + fr.locals <= 1 + 1
  BY <1>3 DEF Activations, SoundFrame
<1> HIDE DEF fr
<1>5. /\ <<fr>> \in Seq(Activations) /\ Len(<<fr>>) = 1 /\ <<fr>>[1] = fr
  BY <1>4
<1>6. Fit(<<fr>>, 1)
  BY <1>4, <1>5 DEF Fit
<1>7. FramesOK'
  BY <1>1, <1>3, <1>6 DEF FramesOK, Fit, Height
<1>8. \A i \in 1 .. Len(frames') : frames'[i].closure \in DOMAIN closures \cup {Script}
  BY <1>1, <1>5 DEF fr
<1>9. HeapOK'
  BY <1>1, <1>8, SameHeap DEF MachineOK
<1> QED BY <1>2, <1>7, <1>9 DEF MachineOK

LEMMA ErrorsReset == RuntimeError \/ BitwiseError \/ StackOverflow => runtimeError
BY DEF RuntimeError, BitwiseError, StackOverflow

LEMMA ErrorStep == MachineOK /\ runtimeError => MachineOK'
<1> SUFFICES ASSUME MachineOK, runtimeError PROVE MachineOK'
  OBVIOUS
<1>1. /\ stack' = <<>> /\ frames' = <<>> /\ open' = <<>>
      /\ upvalues' = InUse(upvalues, closures, <<>>)
      /\ UNCHANGED <<memory, closures, building>>
  BY DEF runtimeError, stack_reset
<1>2. Height' = 0 /\ Len(frames') = 0
  BY <1>1 DEF Height
<1>3. StackOK'
  <2>1. /\ capacity \in Nat /\ block \in Nat /\ capacity >= InitialStack
        /\ InitialStack \in Nat /\ InitialStack > 1
    BY VmAssumption DEF MachineOK, StackOK
  <2>2. capacity' = capacity /\ block' = block
    BY <1>1 DEF memory
  <2>3. stack' \in Seq(Values) /\ 0 < capacity
    BY <1>1, <2>1
  <2> QED BY <1>2, <2>1, <2>2, <2>3 DEF StackOK, RoomForPush
<1>4. FramesOK'
  BY <1>1, <1>2 DEF FramesOK, Fit
<1>5. Held(upvalues, <<>>, closures)
  BY DEF MachineOK, HeapOK, Held
<1>6. Held(upvalues', open', closures')
  BY <1>1, <1>5, Collected
<1>7. HeapOK'
  BY <1>1, <1>2, <1>6 DEF MachineOK, HeapOK, NotBuilding
<1> QED BY <1>3, <1>4, <1>7 DEF MachineOK

LEMMA CallStep ==
  ASSUME MachineOK, NEW c \in DOMAIN closures, NEW argCount \in Nat, Call(c, argCount)
  PROVE  MachineOK'
<1>1. CASE RuntimeError
  BY <1>1, ErrorsReset, ErrorStep
<1>2. CASE ~ RuntimeError
  <2> DEFINE padding == [j \in 1 .. Arity[c] - argCount |-> Nil]
             fr == [closure |-> c, slots |-> CalleeSlots(c, argCount), block |-> block',
                    locals |-> Arity[c] + 1, scopes |-> <<>>]
             new == Height + (Arity[c] - argCount)
  <2>1. /\ frames # <<>> /\ Temporaries > argCount /\ argCount <= Arity[c]
        /\ stack' = stack \o padding /\ Push(Len(stack')) /\ frames' = Append(frames, fr)
        /\ UNCHANGED <<heap, building>>
    BY <1>2 DEF Call, call, Running, NewFrame
  <2>2. c \in Closures /\ Arity[c] \in Nat /\ Arity[c] <= InitialStack /\ Nil \in Values
    BY VmAssumption DEF MachineOK, HeapOK, Held
  <2>3. /\ Height \in Nat /\ Frame.slots \in Nat /\ Frame.locals \in Nat
        /\ Frame.slots > 0 /\ Frame.locals > 0
    BY <2>1, TopFrame
  <2>4. Frame.slots + Frame.locals <= Height - argCount
    BY <2>1, <2>3 DEF Temporaries
  <2>5. padding \in Seq(Values) /\ Len(padding) = Arity[c] - argCount
    BY <2>1, <2>2
  <2> HIDE DEF padding
  <2>6. stack' \in Seq(Values) /\ Height' = new
    <3>1. stack \in Seq(Values)
      BY DEF MachineOK, StackOK
    <3>2. stack \o padding \in Seq(Values) /\ Len(stack \o padding) = Len(stack) + Len(padding)
      BY <2>5, <3>1, ConcatProperties
    <3> QED BY <2>1, <2>5, <3>2 DEF Height
  <2>7. StackOK'
    <3>1. capacity \in Nat /\ capacity >= InitialStack /\ Height < capacity /\ InitialStack \in Nat
      BY VmAssumption DEF MachineOK, StackOK, RoomForPush
    <3>2. new \in Nat /\ new < 2 * capacity
      BY <2>1, <2>2, <2>3, <3>1
    <3>3. Push(new)
      BY <2>1, <2>6 DEF Height
    <3> HIDE DEF new
    <3>4. capacity' \in Nat /\ block' \in Nat /\ capacity' >= InitialStack /\ new < capacity'
      BY <3>2, <3>3, Grown DEF MachineOK
    <3> QED BY <2>6, <3>4 DEF StackOK, RoomForPush
  <2>8. /\ fr.slots = Height - argCount /\ fr.locals = Arity[c] + 1 /\ fr.scopes = <<>>
        /\ fr.closure = c
    BY <2>1, <2>2, <2>3 DEF CalleeSlots
  <2>9. Height - argCount \in Nat /\ block' \in Nat /\ Arity[c] + 1 \in Nat
    BY <2>2, <2>3, <2>4, <2>7 DEF StackOK
  <2>10. fr \in Activations /\ SoundFrame(fr)
    <3>1. fr.slots > 0
      BY <2>3, <2>4, <2>8
    <3>2. fr.slots \in Nat /\ fr.locals \in Nat /\ fr.closure \in Closures \cup {Script}
      BY <2>2, <2>8, <2>9
    <3>3. fr \in Activations
      BY <2>9, <3>2 DEF Activations
    <3>4. Len(fr.scopes) = 0 /\ fr.locals > 0
      BY <2>2, <2>8
    <3> QED BY <3>1, <3>3, <3>4 DEF SoundFrame
  <2>11. Frame.slots + Frame.locals <= fr.slots /\ fr.slots + fr.locals <= new + 1 /\ new \in Nat
    BY <2>1, <2>2, <2>3, <2>4, <2>8
  <2> HIDE DEF fr, new
  <2>12. Fit(Append(frames, fr), new)
    BY <2>10, <2>11, FitPushed DEF MachineOK, FramesOK, Frame
  <2>13. FramesOK'
    BY <2>1, <2>6, <2>12 DEF FramesOK, Fit, Height
  <2>14. \A i \in 1 .. Len(frames') : frames'[i].closure \in DOMAIN closures \cup {Script}
    <3>1. frames \in Seq(Activations) /\ Len(frames) \in Nat
      BY DEF MachineOK, FramesOK, Fit
    <3>2. /\ Len(Append(frames, fr)) = Len(frames) + 1
          /\ Append(frames, fr)[Len(frames) + 1] = fr
          /\ \A i \in 1 .. Len(frames) : Append(frames, fr)[i] = frames[i]
      BY <2>10, <3>1, AppendProperties
    <3>3. ASSUME NEW i \in 1 .. Len(frames) + 1
          PROVE  Append(frames, fr)[i].closure \in DOMAIN closures \cup {Script}
      <4>1. CASE i = Len(frames) + 1
        BY <2>8, <3>2, <4>1
      <4>2. CASE i # Len(frames) + 1
        <5>1. i \in 1 .. Len(frames)
          BY <3>1, <4>2
        <5> QED BY <3>2, <5>1 DEF MachineOK, HeapOK
      <4> QED BY <4>1, <4>2
    <3> QED BY <2>1, <3>2, <3>3
  <2>15. HeapOK'
    BY <2>1, <2>14, SameHeap DEF MachineOK
  <2> QED BY <2>7, <2>13, <2>15 DEF MachineOK
<1> QED BY <1>1, <1>2

LEMMA ReturnStep == MachineOK /\ Return => MachineOK'
<1> SUFFICES ASSUME MachineOK, Return PROVE MachineOK'
  OBVIOUS
<1> DEFINE k == Len(frames)
           n == Frame.slots - 1
           rest == SubSeq(frames, 1, k - 1)
<1>1. /\ frames # <<>> /\ closeUpvalues(ReturnFrom) /\ frames' = rest
      /\ stack' = IF k = 1 THEN <<>> ELSE Append(SubSeq(stack, 1, n), stack[Height])
      /\ UNCHANGED <<memory, building>>
  BY DEF Return, Running
<1>2. /\ k \in Nat /\ k > 0 /\ Height \in Nat /\ Height > 0
      /\ n \in 0 .. Height /\ n < Height /\ n + 1 = Frame.slots
  BY <1>1, TopFrame
<1>3. stack[Height] \in Values
  BY <1>2 DEF MachineOK, StackOK, Height
<1>4. StackOK' /\ (k > 1 => Height' = n + 1)
  <2>1. CASE k = 1
    <3>1. stack' = SubSeq(stack, 1, 0)
      BY <1>1, <2>1
    <3>2. 0 \in 0 .. Height
      BY <1>2
    <3> QED BY <1>1, <2>1, <3>1, <3>2, CutStack DEF MachineOK
  <2>2. CASE k # 1
    <3> HIDE DEF n
    <3> QED BY <1>1, <1>2, <1>3, <2>2, CutStack DEF MachineOK
  <2> QED BY <2>1, <2>2
<1>5. PICK h : h = Height'
  OBVIOUS
<1>6. h \in Nat
  BY <1>4, <1>5 DEF StackOK, Height
<1>7. Fit(rest, h)
  <2>1. k > 1 => frames[k].slots <= h + 1
    BY <1>2, <1>4, <1>5 DEF Frame
  <2> QED BY <1>1, <1>6, <2>1, FitPopped DEF MachineOK, FramesOK
<1>8. Len(rest) = k - 1 /\ \A i \in 1 .. k - 1 : rest[i] = frames[i]
  <2>1. k - 1 \in 0 .. k /\ frames \in Seq(Activations)
    BY <1>2 DEF MachineOK, FramesOK, Fit
  <2> QED BY <2>1, Cut
<1> HIDE DEF rest
<1>9. FramesOK'
  BY <1>1, <1>5, <1>7 DEF FramesOK, Fit, Height
<1>10. Held(upvalues', open', closures') /\ closures' = closures
  BY <1>1, UpvaluesClosed
<1>11. \A i \in 1 .. Len(frames') : frames'[i].closure \in DOMAIN closures \cup {Script}
  BY <1>1, <1>2, <1>8 DEF MachineOK, HeapOK
<1>12. HeapOK'
  BY <1>1, <1>10, <1>11 DEF MachineOK, HeapOK, NotBuilding
<1> QED BY <1>4, <1>9, <1>12 DEF MachineOK

----------------------------------------------------------------------------
LEMMA Bounds == MaxTemporaries \in Nat /\ InitialStack \in Nat /\ InitialStack > 1
BY VmAssumption

LEMMA MachineInit == Init => MachineOK
<1> SUFFICES ASSUME Init PROVE MachineOK
  OBVIOUS
<1>1. stack = <<>> /\ Height = 0 /\ capacity = InitialStack /\ block = 0
  BY DEF Init, Height
<1>2. StackOK
  <2>1. InitialStack \in Nat /\ InitialStack > 1 /\ stack \in Seq(Values)
    BY <1>1, Bounds
  <2> QED BY <1>1, <2>1 DEF StackOK, RoomForPush
<1>3. FramesOK
  BY <1>1 DEF Init, FramesOK, Fit
<1>4. Held(upvalues, open, closures)
  BY FS_EmptySet DEF Init, Held
<1>5. HeapOK
  BY <1>4 DEF Init, HeapOK, NotBuilding
<1> QED BY <1>2, <1>3, <1>5 DEF MachineOK

LEMMA MachineNext == MachineOK /\ [Next]_vars => MachineOK'
<1> SUFFICES ASSUME MachineOK, [Next]_vars PROVE MachineOK'
  OBVIOUS
<1>1. CASE interpret
  BY <1>1, interpretStep
<1>2. CASE RuntimeError \/ BitwiseError \/ StackOverflow
  BY <1>2, ErrorsReset, ErrorStep
<1>3. CASE PopValue
  BY <1>3, PopValueStep
<1>4. ASSUME NEW v \in Values, PushValue(v)
      PROVE  MachineOK'
  BY <1>4, Pushing DEF PushValue
<1>5. ASSUME frames # <<>>, NEW i \in Nameable, GetLocal(i) \/ SetLocal(i) \/ CaptureLocal(i)
      PROVE  MachineOK'
  <2>1. CASE GetLocal(i)
    BY <1>5, <2>1, LocalsOnStack, Pushing DEF GetLocal
  <2>2. CASE SetLocal(i)
    BY <1>5, <2>2, SetLocalStep
  <2>3. CASE CaptureLocal(i)
    BY <1>5, <2>3, CaptureLocalStep
  <2> QED BY <1>5, <2>1, <2>2, <2>3
<1>6. ASSUME frames # <<>>, NEW u \in Outer, GetUpvalue(u) \/ SetUpvalue(u) \/ CaptureOuter(u)
      PROVE  MachineOK'
  <2>1. CASE GetUpvalue(u)
    BY <1>6, <2>1, OuterTyped, Pushing DEF GetUpvalue
  <2>2. CASE SetUpvalue(u)
    BY <1>6, <2>2, SetUpvalueStep
  <2>3. CASE CaptureOuter(u)
    BY <1>6, <2>3, CaptureOuterStep
  <2> QED BY <1>6, <2>1, <2>2, <2>3
<1>7. CASE DeclareLocal
  BY <1>7, DeclareLocalStep
<1>8. CASE beginScope
  BY <1>8, beginScopeStep
<1>9. CASE endScope
  BY <1>9, endScopeStep
<1>10. ASSUME frames # <<>>, NEW n \in DOMAIN Frame.scopes, LeaveLoop(n)
       PROVE  MachineOK'
  BY <1>10, LeaveLoopStep
<1>11. ASSUME NEW c \in Closures, NEW named \in BOOLEAN, NewClosure(c, named)
       PROVE  MachineOK'
  BY <1>11, NewClosureStep
<1>12. CASE ClosureBuilt
  BY <1>12, ClosureBuiltStep
<1>13. ASSUME NEW c \in DOMAIN closures, Forget(c)
       PROVE  MachineOK'
  BY <1>13, ForgetStep
<1>14. ASSUME NEW argCount \in 0 .. MaxTemporaries - 1, NEW c \in DOMAIN closures, Call(c, argCount)
       PROVE  MachineOK'
  <2>1. argCount \in Nat
    BY Bounds
  <2> QED BY <1>14, <2>1, CallStep
<1>15. ASSUME NEW argCount \in 0 .. MaxTemporaries - 1, NEW v \in Values, CallNative(argCount, v)
       PROVE  MachineOK'
  <2>1. argCount \in Nat
    BY Bounds
  <2> QED BY <1>15, <2>1, CallNativeStep
<1>16. CASE Return
  BY <1>16, ReturnStep
<1>17. CASE UNCHANGED vars
  BY <1>17 DEF vars, MachineOK, StackOK, RoomForPush, FramesOK, Fit, Height, HeapOK, Held, NotBuilding
<1> QED
  BY <1>1, <1>2, <1>3, <1>4, <1>5, <1>6, <1>7, <1>8, <1>9, <1>10, <1>11, <1>12, <1>13,
     <1>14, <1>15, <1>16, <1>17 DEF Next

LEMMA MachineAlways == Spec => []MachineOK
<1> QED BY MachineInit, MachineNext, PTL DEF Spec

(* Where control is: run has a frame as long as it goes on, provided that    *)
(* every error ends it.                                                      *)
ErrorsStop == {"bitwise error", "overflow"} \cap Allowed = {}
ControlOK == IF frames = <<>> THEN inRun = FALSE ELSE inRun = TRUE

LEMMA ControlMoves ==
  ASSUME MachineOK, [Next]_vars
  PROVE  \/ RuntimeError \/ BitwiseError \/ StackOverflow
         \/ interpret \/ Return
         \/ inRun' = inRun /\ frames' = frames
         \/ inRun' = inRun /\ frames # <<>> /\ frames' # <<>>
<1>0. MachineOK'
  BY MachineNext
<1>1. /\ frames \in Seq(Activations) /\ frames' \in Seq(Activations)
      /\ DOMAIN frames = 1 .. Len(frames) /\ DOMAIN frames' = 1 .. Len(frames')
      /\ Len(frames) \in Nat /\ Len(frames') \in Nat
  BY <1>0 DEF MachineOK, FramesOK, Fit
<1>2. ASSUME frames # <<>>, DOMAIN frames' = DOMAIN frames
      PROVE  frames' # <<>>
  <2>1. 1 \in DOMAIN frames
    BY <1>1, <1>2
  <2>2. 1 \in 1 .. Len(frames')
    BY <1>1, <1>2, <2>1
  <2> QED BY <1>1, <2>2
<1>3. ASSUME Running PROVE frames # <<>>
  BY <1>3 DEF Running
<1>4. CASE \/ PopValue \/ ClosureBuilt
           \/ \E v \in Values : PushValue(v)
           \/ \E i \in Nameable : GetLocal(i) \/ SetLocal(i) \/ CaptureLocal(i)
           \/ \E u \in Outer : GetUpvalue(u) \/ SetUpvalue(u) \/ CaptureOuter(u)
           \/ \E c \in DOMAIN closures : Forget(c)
           \/ \E argCount \in 0 .. MaxTemporaries - 1, v \in Values : CallNative(argCount, v)
  BY <1>4 DEF PopValue, ClosureBuilt, PushValue, GetLocal, SetLocal, CaptureLocal, GetUpvalue,
              SetUpvalue, CaptureOuter, AddUpvalue, Forget, CallNative
<1>5. CASE DeclareLocal \/ beginScope
  <2>1. Running /\ inRun' = inRun /\ DOMAIN frames' = DOMAIN frames
    BY <1>5 DEF DeclareLocal, beginScope, AtStatement
  <2> QED BY <1>2, <1>3, <2>1
<1>6. CASE endScope \/ \E n \in DOMAIN Frame.scopes : LeaveLoop(n)
  <2>1. Running /\ inRun' = inRun /\ DOMAIN frames' = DOMAIN frames
    BY <1>6 DEF endScope, LeaveLoop, Without, AtStatement
  <2> QED BY <1>2, <1>3, <2>1
<1>7. CASE \E c \in Closures, named \in BOOLEAN : NewClosure(c, named)
  <2>1. Running /\ inRun' = inRun /\ DOMAIN frames' = DOMAIN frames
    BY <1>7 DEF NewClosure
  <2> QED BY <1>2, <1>3, <2>1
<1>8. ASSUME NEW argCount, NEW c, Call(c, argCount), ~ RuntimeError
      PROVE  inRun' = inRun /\ frames # <<>> /\ frames' # <<>>
  <2>1. PICK fr : Running /\ inRun' = inRun /\ frames' = Append(frames, fr)
    BY <1>8 DEF Call, call
  <2>2. Len(frames') = Len(frames) + 1
    BY <1>1, <2>1
  <2> QED BY <1>1, <1>3, <2>1, <2>2
<1>9. CASE UNCHANGED vars
  BY <1>9 DEF vars
<1> QED
  BY <1>4, <1>5, <1>6, <1>7, <1>8, <1>9 DEF Next

LEMMA ControlTyped == MachineOK /\ inRun \in BOOLEAN /\ [Next]_vars => inRun' \in BOOLEAN
<1> SUFFICES ASSUME MachineOK, inRun \in BOOLEAN, [Next]_vars PROVE inRun' \in BOOLEAN
  OBVIOUS
<1>1. CASE RuntimeError
  BY <1>1 DEF RuntimeError
<1>2. CASE BitwiseError \/ StackOverflow
  BY <1>2 DEF BitwiseError, StackOverflow
<1>3. CASE interpret
  BY <1>3 DEF interpret
<1>4. CASE Return
  <2>1. inRun' = FALSE \/ inRun' = inRun
    BY <1>4 DEF Return
  <2> QED BY <2>1
<1> QED BY <1>1, <1>2, <1>3, <1>4, ControlMoves

LEMMA FrameNext ==
  ASSUME ErrorsStop, MachineOK, ControlOK, [Next]_vars
  PROVE  ControlOK'
<1>1. Len(frames) \in Nat /\ frames \in Seq(Activations)
  BY DEF MachineOK, FramesOK, Fit
<1>2. CASE RuntimeError
  BY <1>2 DEF RuntimeError, runtimeError, stack_reset, ControlOK
<1>3. CASE interpret
  <2>1. inRun' = TRUE /\ frames' # <<>>
    BY <1>3 DEF interpret
  <2> QED BY <2>1 DEF ControlOK
<1>4. CASE Return
  <2>1. frames # <<>> /\ frames' = SubSeq(frames, 1, Len(frames) - 1)
    BY <1>4 DEF Return, Running
  <2>2. IF Len(frames) = 1 THEN inRun' = FALSE ELSE inRun' = inRun
    BY <1>4 DEF Return
  <2>3. Len(frames') = Len(frames) - 1 /\ Len(frames) # 0
    <3>1. Len(frames) \in Nat \ {0}
      BY <1>1, <2>1, EmptySeq
    <3>2. Len(frames) - 1 \in 0 .. Len(frames)
      BY <3>1
    <3> QED BY <1>1, <2>1, <3>1, <3>2, Cut
  <2>4. CASE Len(frames) = 1
    <3>0. MachineOK'
      BY MachineNext
    <3>1. frames' \in Seq(Activations)
      BY <3>0 DEF MachineOK, FramesOK, Fit
    <3>2. Len(frames') = 0
      BY <2>3, <2>4
    <3>3. frames' = <<>>
      BY <3>1, <3>2, EmptySeq
    <3> QED BY <2>2, <2>4, <3>3 DEF ControlOK
  <2>5. CASE Len(frames) # 1
    <3>1. frames' # <<>>
      BY <1>1, <2>3, <2>5
    <3> QED BY <2>1, <2>2, <2>5, <3>1 DEF ControlOK
  <2> QED BY <2>4, <2>5
<1>5. ~ BitwiseError /\ ~ StackOverflow
  BY DEF ErrorsStop, BitwiseError, StackOverflow
<1>6. CASE inRun' = inRun /\ frames' = frames
  BY <1>6 DEF ControlOK
<1>7. CASE inRun' = inRun /\ frames # <<>> /\ frames' # <<>>
  BY <1>7 DEF ControlOK
<1> QED BY <1>2, <1>3, <1>4, <1>5, <1>6, <1>7, ControlMoves

(* Whatever is called, returned from, captured or collected, every pointer   *)
(* of the machine is one of its upvalues or closures.                        *)
THEOREM VmTypes == Spec => []TypeOK
<1>1. MachineOK /\ inRun \in BOOLEAN => TypeOK
  <2> SUFFICES ASSUME MachineOK, inRun \in BOOLEAN PROVE TypeOK
    OBVIOUS
  <2>1. frames \in Seq(Activations) /\ DOMAIN frames = 1 .. Len(frames)
    BY DEF MachineOK, FramesOK, Fit
  <2> QED BY <2>1 DEF MachineOK, StackOK, HeapOK, Held, Activations, Upvalues, TypeOK
<1>2. Init => MachineOK /\ inRun \in BOOLEAN
  BY MachineInit DEF Init
<1>3. MachineOK /\ inRun \in BOOLEAN /\ [Next]_vars => (MachineOK /\ inRun \in BOOLEAN)'
  BY MachineNext, ControlTyped
<1> QED BY <1>1, <1>2, <1>3, PTL DEF Spec

(* There is a free slot above the top at every instruction: one growth is    *)
(* enough for what stack_push, call and interpret write.                     *)
THEOREM FreeSlot == Spec => []RoomForPush
<1>1. MachineOK => RoomForPush
  BY DEF MachineOK, StackOK
<1> QED BY <1>1, MachineAlways, PTL

(* Frames lie above one another without overlap, each with its slot 0 and    *)
(* its locals inside the stack, at any depth of calls and whatever number of *)
(* arguments is passed, padded or left behind by a return (vm.c:366).        *)
THEOREM FramesNest == Spec => []FramesNested
<1>1. MachineOK => FramesNested
  <2> SUFFICES ASSUME MachineOK PROVE FramesNested
    OBVIOUS
  <2>1. DOMAIN frames = 1 .. Len(frames)
    BY DEF MachineOK, FramesOK, Fit
  <2> QED BY <2>1 DEF MachineOK, FramesOK, Fit, SoundFrame, FramesNested
<1> QED BY <1>1, MachineAlways, PTL

(* Run has a frame as long as it goes on, through calls, returns and errors, *)
(* in programs that meet neither an error of bitInstruction nor the overflow *)
(* of stack_push: after these it goes on without one (vm.c:88-91, 517-528).  *)
THEOREM RunKeepsFrame ==
  ASSUME ErrorsStop
  PROVE  Spec => []RunHasFrame
<1>1. ControlOK => RunHasFrame
  BY DEF ControlOK, RunHasFrame
<1>2. Init => MachineOK /\ ControlOK
  BY MachineInit DEF Init, ControlOK
<1>3. MachineOK /\ ControlOK /\ [Next]_vars => (MachineOK /\ ControlOK)'
  BY MachineNext, FrameNext
<1> QED BY <1>1, <1>2, <1>3, PTL DEF Spec

----------------------------------------------------------------------------
(* The list of open upvalues: it is sorted and holds every open upvalue, and *)
(* each of these points to a local in scope -- as long as no error and no    *)
(* break or continue comes while a variable it drops is captured (see        *)
(* Allowed in Vm).                                                           *)

ErrorsSpare == "captured error" \notin Allowed
BreaksSpare == "captured break" \notin Allowed

(* The list is exact, in a form the prover can follow. *)
Listed(us, list) ==
  /\ \A i, j \in 1 .. Len(list) : i < j => us[list[i]].at > us[list[j]].at
  /\ \A u \in DOMAIN us : us[u].at # Closed => \E i \in 1 .. Len(list) : list[i] = u
  /\ \A i \in 1 .. Len(list) : us[list[i]].at # Closed

(* What keeps it exact besides the machine's invariant. *)
ListOK == MachineOK /\ Listed(upvalues, open)

Covered(fs, p) == \E i \in 1 .. Len(fs) : p \in fs[i].slots .. fs[i].slots + fs[i].locals - 1
Placed(us, fs) == \A u \in DOMAIN us : us[u].at # Closed => Covered(fs, us[u].at)
PlacedOK == ListOK /\ Placed(upvalues, frames)

LEMMA ListTyped ==
  ASSUME MachineOK
  PROVE  /\ open \in Seq(DOMAIN upvalues) /\ Len(open) \in Nat
         /\ \A i \in 1 .. Len(open) : open[i] \in DOMAIN upvalues /\ upvalues[open[i]].at \in Nat
         /\ \A u \in DOMAIN upvalues : upvalues[u].at \in Nat
<1>1. open \in Seq(DOMAIN upvalues)
  BY DEF MachineOK, HeapOK, Held
<1>2. \A u \in DOMAIN upvalues : upvalues[u].at \in Nat
  BY DEF MachineOK, HeapOK, Held, Upvalues
<1> QED BY <1>1, <1>2

(* Upvalues that nothing holds are closed: the list stays exact without them. *)
LEMMA CollectedListed ==
  ASSUME NEW us, NEW list, NEW cs, Held(us, list, cs), Listed(us, list)
  PROVE  /\ Listed(InUse(us, cs, list), list)
         /\ \A u \in DOMAIN InUse(us, cs, list) : u \in DOMAIN us /\ InUse(us, cs, list)[u] = us[u]
<1> DEFINE new == InUse(us, cs, list)
<1>1. \A u \in DOMAIN new : u \in DOMAIN us /\ new[u] = us[u]
  BY DEF InUse
<1>2. list \in Seq(DOMAIN us) /\ DOMAIN list = 1 .. Len(list)
  BY DEF Held
<1>3. ASSUME NEW i \in 1 .. Len(list)
      PROVE  list[i] \in DOMAIN new /\ new[list[i]] = us[list[i]]
  BY <1>2 DEF InUse, Elements
<1> HIDE DEF new
<1>4. Listed(new, list)
  BY <1>1, <1>3 DEF Listed
<1> QED BY <1>1, <1>4 DEF new

(* The loops of the list stop exactly where the slot belongs. *)
LEMMA ListDivided ==
  ASSUME ListOK, NEW p \in Nat
  PROVE  /\ \A i \in 1 .. Cardinality(AtOrAbove(p)) : upvalues[open[i]].at >= p
         /\ \A i \in Cardinality(AtOrAbove(p)) + 1 .. Len(open) : upvalues[open[i]].at < p
         /\ \A i \in 1 .. Cardinality(Above(p)) : upvalues[open[i]].at > p
         /\ \A i \in Cardinality(Above(p)) + 1 .. Len(open) : upvalues[open[i]].at <= p
<1> DEFINE n == Cardinality(AtOrAbove(p))
           m == Cardinality(Above(p))
<1>1. /\ open \in Seq(DOMAIN upvalues) /\ Len(open) \in Nat /\ DOMAIN open = 1 .. Len(open)
      /\ \A i \in 1 .. Len(open) : upvalues[open[i]].at \in Nat
  BY ListTyped DEF ListOK
<1>2. /\ n \in 0 .. Len(open) /\ AtOrAbove(p) = 1 .. n
      /\ m \in 0 .. Len(open) /\ Above(p) = 1 .. m
  BY <1>1, ListPrefixes
<1>3. \A i, j \in 1 .. Len(open) : i < j => upvalues[open[i]].at > upvalues[open[j]].at
  BY DEF ListOK, Listed
<1> HIDE DEF n, m
<1>4. ASSUME NEW i \in 1 .. n
      PROVE  upvalues[open[i]].at >= p
  <2>1. i \in AtOrAbove(p) /\ i \in 1 .. i
    BY <1>2
  <2> QED BY <2>1 DEF AtOrAbove
<1>5. ASSUME NEW i \in n + 1 .. Len(open)
      PROVE  upvalues[open[i]].at < p
  <2>1. n + 1 \in 1 .. Len(open) /\ n + 1 \notin AtOrAbove(p) /\ i \in 1 .. Len(open)
    BY <1>2
  <2>2. PICK j \in 1 .. n + 1 : ~ (upvalues[open[j]].at >= p)
    BY <1>1, <2>1 DEF AtOrAbove
  <2>3. j \in 1 .. Len(open) /\ j <= i
    BY <1>2, <2>1
  <2>4. upvalues[open[j]].at < p /\ upvalues[open[j]].at \in Nat /\ upvalues[open[i]].at \in Nat
    BY <1>1, <2>1, <2>2, <2>3
  <2>5. upvalues[open[i]].at <= upvalues[open[j]].at
    BY <1>3, <2>1, <2>3, <2>4
  <2> QED BY <2>4, <2>5
<1>6. ASSUME NEW i \in 1 .. m
      PROVE  upvalues[open[i]].at > p
  <2>1. i \in Above(p) /\ i \in 1 .. i
    BY <1>2
  <2> QED BY <2>1 DEF Above
<1>7. ASSUME NEW i \in m + 1 .. Len(open)
      PROVE  upvalues[open[i]].at <= p
  <2>1. m + 1 \in 1 .. Len(open) /\ m + 1 \notin Above(p) /\ i \in 1 .. Len(open)
    BY <1>2
  <2>2. PICK j \in 1 .. m + 1 : ~ (upvalues[open[j]].at > p)
    BY <1>1, <2>1 DEF Above
  <2>3. j \in 1 .. Len(open) /\ j <= i
    BY <1>2, <2>1
  <2>4. upvalues[open[j]].at <= p /\ upvalues[open[j]].at \in Nat /\ upvalues[open[i]].at \in Nat
    BY <1>1, <2>1, <2>2, <2>3
  <2>5. upvalues[open[i]].at <= upvalues[open[j]].at
    BY <1>3, <2>1, <2>3, <2>4
  <2> QED BY <2>4, <2>5
<1> QED BY <1>4, <1>5, <1>6, <1>7 DEF n, m

(* What is still open after closing lies below the last slot closed. *)
LEMMA ClosingListed ==
  ASSUME ListOK, NEW last \in Nat, closeUpvalues(last)
  PROVE  /\ Listed(upvalues', open')
         /\ \A u \in DOMAIN upvalues' :
              upvalues'[u].at # Closed =>
                u \in DOMAIN upvalues /\ upvalues'[u].at = upvalues[u].at /\ upvalues[u].at < last
<1> DEFINE n == Cardinality(AtOrAbove(last))
           front == SubSeq(open, 1, n)
           closing == Elements(front)
           rest == SubSeq(open, n + 1, Len(open))
           us == [u \in DOMAIN upvalues |->
                    IF u \in closing
                      THEN [upvalues[u] EXCEPT !.closed = Content(u), !.at = Closed]
                      ELSE upvalues[u]]
<1>1. MachineOK /\ Listed(upvalues, open)
  BY DEF ListOK
<1>2. /\ open \in Seq(DOMAIN upvalues) /\ Len(open) \in Nat
      /\ \A i \in 1 .. Len(open) : open[i] \in DOMAIN upvalues /\ upvalues[open[i]].at \in Nat
      /\ \A u \in DOMAIN upvalues : upvalues[u].at \in Nat
  BY <1>1, ListTyped
<1>3. n \in 0 .. Len(open)
  BY <1>2, ListPrefixes
<1>4. /\ \A i \in 1 .. n : upvalues[open[i]].at >= last
      /\ \A i \in n + 1 .. Len(open) : upvalues[open[i]].at < last
  BY ListDivided
<1>5. open' = rest /\ upvalues' = InUse(us, closures, rest)
  BY DEF closeUpvalues
<1> HIDE DEF n
<1>6. /\ front \in Seq(DOMAIN upvalues) /\ Len(front) = n
      /\ \A i \in 1 .. n : front[i] = open[i]
  BY <1>2, <1>3, Cut
<1>7. /\ rest \in Seq(DOMAIN upvalues) /\ Len(rest) = Len(open) - n
      /\ \A i \in 1 .. Len(open) - n : rest[i] = open[n + i]
  BY <1>2, <1>3, Rest
<1> HIDE DEF front, rest
<1>8. \A u : u \in closing <=> \E i \in 1 .. n : open[i] = u
  BY <1>3, <1>6 DEF Elements
<1> HIDE DEF closing
<1>9. ASSUME NEW u \in DOMAIN upvalues
      PROVE  /\ u \in closing => us[u].at = Closed /\ upvalues[u].at >= last
             /\ u \notin closing => us[u] = upvalues[u]
  <2>1. upvalues[u] \in Upvalues
    BY <1>1 DEF MachineOK, HeapOK, Held
  <2>2. u \in closing => upvalues[u].at >= last
    BY <1>4, <1>8
  <2>3. [upvalues[u] EXCEPT !.closed = Content(u), !.at = Closed].at = Closed
    BY <2>1 DEF Upvalues
  <2> QED BY <2>2, <2>3
<1>10. DOMAIN us = DOMAIN upvalues
  OBVIOUS
<1> HIDE DEF us
<1>11. ASSUME NEW i \in 1 .. Len(rest)
       PROVE  /\ n + i \in n + 1 .. Len(open) /\ n + i \in 1 .. Len(open) /\ rest[i] = open[n + i]
              /\ rest[i] \in DOMAIN upvalues
              /\ us[rest[i]] = upvalues[rest[i]] /\ upvalues[rest[i]].at < last
  <2>1. n + i \in n + 1 .. Len(open) /\ n + i \in 1 .. Len(open) /\ i \in 1 .. Len(open) - n
    BY <1>2, <1>3, <1>7
  <2>2. rest[i] = open[n + i]
    BY <1>7, <2>1
  <2>3. rest[i] \in DOMAIN upvalues /\ upvalues[rest[i]].at < last /\ upvalues[rest[i]].at \in Nat
    BY <1>2, <1>4, <2>1, <2>2
  <2>4. rest[i] \notin closing
    BY <1>9, <2>3
  <2> QED BY <1>9, <2>1, <2>2, <2>3, <2>4
<1>12. Listed(us, rest)
  <2>1. ASSUME NEW i \in 1 .. Len(rest), NEW j \in 1 .. Len(rest), i < j
        PROVE  us[rest[i]].at > us[rest[j]].at
    <3>1. n + i < n + j
      BY <1>2, <1>3, <1>7, <2>1
    <3> QED BY <1>1, <1>11, <3>1 DEF Listed
  <2>2. ASSUME NEW u \in DOMAIN us, us[u].at # Closed
        PROVE  \E i \in 1 .. Len(rest) : rest[i] = u
    <3>1. u \in DOMAIN upvalues /\ u \notin closing /\ upvalues[u].at # Closed
      BY <1>9, <1>10, <2>2
    <3>2. PICK i \in 1 .. Len(open) : open[i] = u
      BY <1>1, <3>1 DEF Listed
    <3>3. i \notin 1 .. n
      BY <1>8, <3>1, <3>2
    <3>4. i - n \in 1 .. Len(open) - n /\ n + (i - n) = i
      BY <1>2, <1>3, <3>3
    <3> QED BY <1>7, <3>2, <3>4
  <2>3. ASSUME NEW i \in 1 .. Len(rest)
        PROVE  us[rest[i]].at # Closed
    BY <1>1, <1>11 DEF Listed
  <2> QED BY <2>1, <2>2, <2>3 DEF Listed
<1>13. Held(us, rest, closures)
  <2>1. ASSUME NEW u \in DOMAIN upvalues
        PROVE  us[u] \in Upvalues
    <3>1. upvalues[u] \in Upvalues /\ Content(u) \in Values /\ Closed \in Nat
      BY <1>1, ContentTyped DEF MachineOK, HeapOK, Held, Closed
    <3>2. [upvalues[u] EXCEPT !.closed = Content(u), !.at = Closed] \in Upvalues
      BY <3>1 DEF Upvalues
    <3> QED BY <3>1, <3>2 DEF us
  <2> QED BY <1>1, <1>7, <1>10, <2>1 DEF MachineOK, HeapOK, Held
<1>14. /\ Listed(InUse(us, closures, rest), rest)
       /\ \A u \in DOMAIN InUse(us, closures, rest) : u \in DOMAIN us /\ InUse(us, closures, rest)[u] = us[u]
  BY <1>12, <1>13, CollectedListed
<1>15. ASSUME NEW u \in DOMAIN us, us[u].at # Closed
       PROVE  u \in DOMAIN upvalues /\ us[u].at = upvalues[u].at /\ upvalues[u].at < last
  <2>1. PICK i \in 1 .. Len(rest) : rest[i] = u
    BY <1>12, <1>15 DEF Listed
  <2> QED BY <1>11, <2>1
<1> QED BY <1>5, <1>14, <1>15

----------------------------------------------------------------------------
(* Actions that leave the list, and where each upvalue points, alone. *)
LEMMA SetUpvalueListed ==
  ASSUME MachineOK, frames # <<>>, NEW u \in Outer, SetUpvalue(u)
  PROVE  /\ open' = open /\ frames' = frames /\ DOMAIN upvalues' = DOMAIN upvalues
         /\ \A w \in DOMAIN upvalues : upvalues'[w].at = upvalues[w].at
<1>1. u \in DOMAIN upvalues /\ upvalues[u] \in Upvalues
  BY OuterTyped
<1>2. /\ open' = open /\ frames' = frames
      /\ upvalues' = upvalues \/ upvalues' = [upvalues EXCEPT ![u].closed = stack[Height]]
  BY DEF SetUpvalue
<1>3. CASE upvalues' = upvalues
  BY <1>2, <1>3
<1>4. CASE upvalues' = [upvalues EXCEPT ![u].closed = stack[Height]]
  <2>1. [upvalues[u] EXCEPT !.closed = stack[Height]].at = upvalues[u].at
    BY <1>1 DEF Upvalues
  <2> QED BY <1>2, <1>4, <2>1
<1> QED BY <1>2, <1>3, <1>4

(* A new upvalue goes where the list stays sorted. *)
LEMMA InsertedListed ==
  ASSUME NEW us, NEW list \in Seq(DOMAIN us), Listed(us, list),
         \A w \in DOMAIN us : us[w].at \in Nat,
         NEW p \in Nat \ {0}, NEW u, u \notin DOMAIN us,
         NEW n \in 0 .. Len(list),
         \A k \in 1 .. n : us[list[k]].at > p,
         \A k \in n + 1 .. Len(list) : us[list[k]].at < p,
         NEW new, DOMAIN new = DOMAIN us \cup {u}, new[u].at = p,
         \A w \in DOMAIN us : new[w] = us[w]
  PROVE  Listed(new, Insert(list, n, u))
<1>1. list \in Seq(DOMAIN new) /\ u \in DOMAIN new
  OBVIOUS
<1>2. PICK s \in Seq(DOMAIN new) :
        /\ s = Insert(list, n, u) /\ Len(s) = Len(list) + 1 /\ s[n + 1] = u
        /\ \A k \in 1 .. n : s[k] = list[k]
        /\ \A k \in n + 2 .. Len(list) + 1 : s[k] = list[k - 1]
  <2>1. PICK S : S = DOMAIN new
    OBVIOUS
  <2>2. list \in Seq(S) /\ n \in 0 .. Len(list) /\ u \in S
    BY <1>1, <2>1
  <2>3. PICK s : s = Insert(list, n, u)
    OBVIOUS
  <2>4. HasInserted(S, list, n, u, s)
    BY <2>2, <2>3, Inserted
  <2> QED BY <2>1, <2>3, <2>4 DEF HasInserted
<1>3. /\ s \in Seq(DOMAIN new) /\ Len(s) = Len(list) + 1 /\ s[n + 1] = u
      /\ \A k \in 1 .. n : s[k] = list[k]
      /\ \A k \in n + 2 .. Len(list) + 1 : s[k] = list[k - 1]
  BY <1>2
<1>4. Len(list) \in Nat /\ n \in Nat
  OBVIOUS
<1>5. \A k \in 1 .. Len(list) : /\ list[k] \in DOMAIN us /\ new[list[k]] = us[list[k]]
                                /\ us[list[k]].at \in Nat
  OBVIOUS
<1>6. \A k \in 1 .. Len(s) : k \in 1 .. n \/ k = n + 1 \/ k \in n + 2 .. Len(list) + 1
  BY <1>3, <1>4
<1>7. \A k \in 1 .. n : k \in 1 .. Len(list) /\ new[s[k]] = us[list[k]] /\ us[list[k]].at > p
  BY <1>3, <1>4, <1>5
<1>8. ASSUME NEW k \in n + 2 .. Len(list) + 1
      PROVE  /\ k - 1 \in 1 .. Len(list) /\ new[s[k]] = us[list[k - 1]] /\ us[list[k - 1]].at < p
  <2>1. k - 1 \in n + 1 .. Len(list) /\ k - 1 \in 1 .. Len(list)
    BY <1>4
  <2>2. s[k] = list[k - 1]
    BY <1>3
  <2> QED BY <1>5, <2>1, <2>2
<1>9. new[s[n + 1]].at = p
  BY <1>3
<1>10. ASSUME NEW a \in 1 .. Len(s), NEW b \in 1 .. Len(s), a < b
       PROVE  new[s[a]].at > new[s[b]].at
  <2>1. CASE b \in 1 .. n
    <3>1. a \in 1 .. n
      BY <1>4, <1>10, <2>1
    <3> QED BY <1>7, <1>10, <2>1, <3>1 DEF Listed
  <2>2. CASE b = n + 1
    <3>1. a \in 1 .. n
      BY <1>4, <1>10, <2>2
    <3> QED BY <1>7, <1>9, <2>2, <3>1
  <2>3. CASE b \in n + 2 .. Len(list) + 1
    <3>1. /\ b - 1 \in 1 .. Len(list) /\ new[s[b]] = us[list[b - 1]]
          /\ us[list[b - 1]].at < p /\ us[list[b - 1]].at \in Nat
      BY <1>5, <1>8, <2>3
    <3>2. CASE a \in 1 .. n
      <4>1. new[s[a]].at > p /\ new[s[a]].at \in Nat
        BY <1>5, <1>7, <3>2
      <4> QED BY <3>1, <4>1
    <3>3. CASE a = n + 1
      BY <1>9, <3>1, <3>3
    <3>4. CASE a \in n + 2 .. Len(list) + 1
      <4>1. a - 1 \in 1 .. Len(list) /\ new[s[a]] = us[list[a - 1]] /\ a - 1 < b - 1
        BY <1>4, <1>8, <1>10, <3>4
      <4> QED BY <3>1, <4>1 DEF Listed
    <3> QED BY <1>6, <3>2, <3>3, <3>4
  <2> QED BY <1>6, <2>1, <2>2, <2>3
<1>11. ASSUME NEW w \in DOMAIN new, new[w].at # Closed
       PROVE  \E k \in 1 .. Len(s) : s[k] = w
  <2>1. CASE w = u
    <3>1. n + 1 \in 1 .. Len(s)
      BY <1>3, <1>4
    <3> QED BY <1>3, <2>1, <3>1
  <2>2. CASE w # u
    <3>1. PICK k \in 1 .. Len(list) : list[k] = w
      BY <1>11, <2>2 DEF Listed
    <3>2. CASE k \in 1 .. n
      <4>1. k \in 1 .. Len(s)
        BY <1>3, <1>4
      <4> QED BY <1>3, <3>1, <3>2, <4>1
    <3>3. CASE k \notin 1 .. n
      <4>1. k + 1 \in n + 2 .. Len(list) + 1 /\ k + 1 \in 1 .. Len(s) /\ (k + 1) - 1 = k
        BY <1>3, <1>4, <3>3
      <4> QED BY <1>3, <3>1, <4>1
    <3> QED BY <3>2, <3>3
  <2> QED BY <2>1, <2>2
<1>12. ASSUME NEW k \in 1 .. Len(s)
       PROVE  new[s[k]].at # Closed
  <2>1. CASE k \in 1 .. n
    BY <1>7, <2>1 DEF Listed
  <2>2. CASE k = n + 1
    BY <1>9, <2>2 DEF Closed
  <2>3. CASE k \in n + 2 .. Len(list) + 1
    BY <1>8, <2>3 DEF Listed
  <2> QED BY <1>6, <2>1, <2>2, <2>3
<1>13. Listed(new, s)
  BY <1>10, <1>11, <1>12 DEF Listed
<1> QED BY <1>2, <1>13

LEMMA CaptureLocalListed ==
  ASSUME ListOK, frames # <<>>, NEW i \in Nameable, CaptureLocal(i)
  PROVE  /\ Listed(upvalues', open') /\ frames' = frames
         /\ \A w \in DOMAIN upvalues' :
              \/ w \in DOMAIN upvalues /\ upvalues'[w] = upvalues[w]
              \/ upvalues'[w].at = Position(i)
<1>1. MachineOK /\ Listed(upvalues, open)
  BY DEF ListOK
<1>2. PICK p : p = Position(i)
  OBVIOUS
<1>3. PICK n : n = Cardinality(Above(p))
  OBVIOUS
<1>4. PICK u : u = UpvalueOf(p)
  OBVIOUS
<1>5. PICK us : us = [w \in DOMAIN upvalues \cup {u} |->
                        IF w \in DOMAIN upvalues THEN upvalues[w] ELSE newUpvalue(p)]
  OBVIOUS
<1>6. p \in Nat \ {0}
  BY <1>1, <1>2, LocalsOnStack
<1>7. open' = captureUpvalue(p) /\ upvalues' = us /\ frames' = frames
  BY <1>2, <1>4, <1>5 DEF CaptureLocal, AddUpvalue
<1>8. /\ open \in Seq(DOMAIN upvalues) /\ Len(open) \in Nat
      /\ \A k \in 1 .. Len(open) : open[k] \in DOMAIN upvalues /\ upvalues[open[k]].at \in Nat
      /\ \A w \in DOMAIN upvalues : upvalues[w].at \in Nat
  BY <1>1, ListTyped
<1>9. /\ n \in 0 .. Len(open)
      /\ \/ /\ n < Len(open) /\ u = open[n + 1] /\ u \in DOMAIN upvalues
            /\ upvalues[u].at = p /\ captureUpvalue(p) = open
         \/ /\ u \in Nat \ {0} /\ u \notin DOMAIN upvalues
            /\ n < Len(open) => upvalues[open[n + 1]].at # p
            /\ captureUpvalue(p) = SubSeq(open, 1, n) \o <<u>> \o SubSeq(open, n + 1, Len(open))
  BY <1>1, <1>3, <1>4, UpvalueFoundOrMade
<1>10. /\ \A k \in 1 .. n : upvalues[open[k]].at > p
       /\ \A k \in n + 1 .. Len(open) : upvalues[open[k]].at <= p
  BY <1>3, <1>6, ListDivided
<1>11. /\ DOMAIN us = DOMAIN upvalues \cup {u} /\ \A w \in DOMAIN upvalues : us[w] = upvalues[w]
       /\ u \notin DOMAIN upvalues => us[u].at = p
  BY <1>5 DEF newUpvalue
<1>12. CASE u \in DOMAIN upvalues
  <2>1. open' = open /\ DOMAIN us = DOMAIN upvalues
    BY <1>7, <1>9, <1>11, <1>12
  <2>2. Listed(us, open)
    BY <1>1, <1>8, <1>11, <2>1 DEF Listed
  <2> QED BY <1>7, <1>11, <2>1, <2>2
<1>13. CASE u \notin DOMAIN upvalues
  <2>1. open' = Insert(open, n, u) /\ (n < Len(open) => upvalues[open[n + 1]].at # p)
    BY <1>7, <1>9, <1>13 DEF Insert
  <2>2. ASSUME NEW k \in n + 1 .. Len(open)
        PROVE  upvalues[open[k]].at < p
    <3>1. n + 1 \in 1 .. Len(open) /\ n + 1 \in n + 1 .. Len(open) /\ k \in 1 .. Len(open)
      BY <1>8, <1>9
    <3>2. upvalues[open[n + 1]].at <= p /\ upvalues[open[n + 1]].at # p /\ upvalues[open[n + 1]].at \in Nat
      BY <1>8, <1>9, <1>10, <2>1, <3>1
    <3>3. k = n + 1 \/ upvalues[open[n + 1]].at > upvalues[open[k]].at
      BY <1>1, <1>9, <3>1 DEF Listed
    <3> QED BY <1>6, <1>8, <3>1, <3>2, <3>3
  <2>3. Listed(us, Insert(open, n, u))
    BY <1>1, <1>6, <1>8, <1>9, <1>10, <1>11, <1>13, <2>2, InsertedListed
  <2> QED BY <1>2, <1>7, <1>11, <2>1, <2>3
<1> QED BY <1>12, <1>13

----------------------------------------------------------------------------
(* Without errors that leave upvalues behind, the list stays exact. *)
LEMMA ListedErased ==
  ASSUME ErrorsSpare, ListOK, runtimeError
  PROVE  Listed(upvalues', open') /\ \A u \in DOMAIN upvalues' : upvalues'[u].at = Closed
<1>1. open = <<>> /\ open' = <<>> /\ upvalues' = InUse(upvalues, closures, <<>>)
  BY DEF ErrorsSpare, runtimeError, stack_reset
<1>2. Held(upvalues, <<>>, closures) /\ Listed(upvalues, <<>>)
  BY <1>1 DEF ListOK, MachineOK, HeapOK
<1>3. Listed(upvalues', open')
  BY <1>1, <1>2, CollectedListed
<1>4. Len(open') = 0
  BY <1>1
<1> QED BY <1>3, <1>4 DEF Listed

LEMMA SameListed ==
  ASSUME ListOK, UNCHANGED <<open, upvalues>>
  PROVE  Listed(upvalues', open')
BY DEF ListOK

LEMMA ForgetListed ==
  ASSUME ListOK, NEW c \in DOMAIN closures, Forget(c)
  PROVE  /\ Listed(upvalues', open')
         /\ \A u \in DOMAIN upvalues' : u \in DOMAIN upvalues /\ upvalues'[u] = upvalues[u]
<1> DEFINE cs == [d \in DOMAIN closures \ {c} |-> closures[d]]
<1>1. upvalues' = InUse(upvalues, cs, open) /\ open' = open
  BY DEF Forget
<1>2. DOMAIN cs = DOMAIN closures \ {c} /\ \A d \in DOMAIN cs : cs[d] = closures[d]
  OBVIOUS
<1> HIDE DEF cs
<1>3. Held(upvalues, open, cs)
  BY <1>2 DEF ListOK, MachineOK, HeapOK, Held
<1> QED BY <1>1, <1>3, CollectedListed DEF ListOK

(* The slots that closing counts from are real. *)
LEMMA LastSlot ==
  ASSUME MachineOK, frames # <<>>
  PROVE  /\ ReturnFrom \in Nat
         /\ \A n \in 1 .. Len(Frame.scopes) :
              Frame.scopes[n] \in 1 .. Frame.locals /\ Position(Frame.scopes[n]) \in Nat
<1>1. Frame.slots \in Nat /\ SoundFrame(Frame) /\ Frame.locals \in Nat
  BY TopFrame
<1> QED BY <1>1 DEF ReturnFrom, Position, SoundFrame

LEMMA ListNext ==
  ASSUME ErrorsSpare, ListOK, [Next]_vars
  PROVE  ListOK'
<1>0. MachineOK /\ MachineOK'
  BY MachineNext DEF ListOK
<1> SUFFICES Listed(upvalues', open')
  BY <1>0 DEF ListOK
<1>1. CASE interpret
  BY <1>1, SameListed DEF interpret, heap
<1>2. CASE RuntimeError \/ BitwiseError \/ StackOverflow
  BY <1>2, ErrorsReset, ListedErased
<1>3. CASE PopValue
  BY <1>3, SameListed DEF PopValue, heap
<1>4. ASSUME NEW v \in Values, PushValue(v)
      PROVE  Listed(upvalues', open')
  BY <1>4, SameListed DEF PushValue, heap
<1>5. ASSUME frames # <<>>, NEW i \in Nameable, GetLocal(i) \/ SetLocal(i) \/ CaptureLocal(i)
      PROVE  Listed(upvalues', open')
  <2>1. CASE GetLocal(i) \/ SetLocal(i)
    BY <2>1, SameListed DEF GetLocal, SetLocal, heap
  <2>2. CASE CaptureLocal(i)
    BY <1>5, <2>2, CaptureLocalListed
  <2> QED BY <1>5, <2>1, <2>2
<1>6. ASSUME frames # <<>>, NEW u \in Outer, GetUpvalue(u) \/ SetUpvalue(u) \/ CaptureOuter(u)
      PROVE  Listed(upvalues', open')
  <2>1. CASE GetUpvalue(u)
    BY <2>1, SameListed DEF GetUpvalue, heap
  <2>2. CASE SetUpvalue(u)
    <3>1. /\ open' = open /\ DOMAIN upvalues' = DOMAIN upvalues
          /\ \A w \in DOMAIN upvalues : upvalues'[w].at = upvalues[w].at
      BY <1>0, <1>6, <2>2, SetUpvalueListed
    <3>2. \A k \in 1 .. Len(open) : open[k] \in DOMAIN upvalues
      BY <1>0, ListTyped
    <3> QED BY <3>1, <3>2 DEF ListOK, Listed
  <2>3. CASE CaptureOuter(u)
    BY <2>3, SameListed DEF CaptureOuter
  <2> QED BY <1>6, <2>1, <2>2, <2>3
<1>7. CASE DeclareLocal
  BY <1>7, SameListed DEF DeclareLocal, heap
<1>8. CASE beginScope
  BY <1>8, SameListed DEF beginScope, heap
<1>9. CASE endScope
  <2>1. frames # <<>> /\ Frame.scopes # <<>> /\ closeUpvalues(Position(Frame.scopes[Len(Frame.scopes)]))
    BY <1>9 DEF endScope, AtStatement, Running
  <2>2. Position(Frame.scopes[Len(Frame.scopes)]) \in Nat
    <3>1. Len(Frame.scopes) \in 1 .. Len(Frame.scopes)
      BY <1>0, <2>1, TopFrame
    <3> QED BY <1>0, <2>1, <3>1, LastSlot
  <2> QED BY <2>1, <2>2, ClosingListed
<1>10. ASSUME frames # <<>>, NEW n \in DOMAIN Frame.scopes, LeaveLoop(n)
       PROVE  Listed(upvalues', open')
  BY <1>10, SameListed DEF LeaveLoop, heap
<1>11. ASSUME NEW c \in Closures, NEW named \in BOOLEAN, NewClosure(c, named)
       PROVE  Listed(upvalues', open')
  BY <1>11, SameListed DEF NewClosure
<1>12. CASE ClosureBuilt
  BY <1>12, SameListed DEF ClosureBuilt, heap
<1>13. ASSUME NEW c \in DOMAIN closures, Forget(c)
       PROVE  Listed(upvalues', open')
  BY <1>13, ForgetListed
<1>14. ASSUME NEW argCount \in 0 .. MaxTemporaries - 1, NEW c \in DOMAIN closures, Call(c, argCount)
       PROVE  Listed(upvalues', open')
  <2>1. CASE RuntimeError
    BY <2>1, ErrorsReset, ListedErased
  <2>2. CASE ~ RuntimeError
    BY <1>14, <2>2, SameListed DEF Call, call, heap
  <2> QED BY <2>1, <2>2
<1>15. ASSUME NEW argCount \in 0 .. MaxTemporaries - 1, NEW v \in Values, CallNative(argCount, v)
       PROVE  Listed(upvalues', open')
  BY <1>15, SameListed DEF CallNative, heap
<1>16. CASE Return
  <2>1. frames # <<>> /\ closeUpvalues(ReturnFrom)
    BY <1>16 DEF Return, Running
  <2> QED BY <1>0, <2>1, LastSlot, ClosingListed
<1>17. CASE UNCHANGED vars
  BY <1>17, SameListed DEF vars
<1> QED
  BY <1>1, <1>2, <1>3, <1>4, <1>5, <1>6, <1>7, <1>8, <1>9, <1>10, <1>11, <1>12, <1>13,
     <1>14, <1>15, <1>16, <1>17 DEF Next

LEMMA ListAlways ==
  ASSUME ErrorsSpare
  PROVE  Spec => []ListOK
<1>1. Init => ListOK
  <2> SUFFICES ASSUME Init PROVE ListOK
    OBVIOUS
  <2>1. Listed(upvalues, open)
    BY DEF Init, Listed
  <2> QED BY <2>1, MachineInit DEF ListOK
<1>2. ListOK /\ [Next]_vars => ListOK'
  BY ListNext
<1> QED BY <1>1, <1>2, PTL DEF Spec

(* The list that captureUpvalue and closeUpvalues walk is sorted and holds   *)
(* every open upvalue, whatever is captured, closed, shared or collected.    *)
THEOREM ListIsExact ==
  ASSUME ErrorsSpare
  PROVE  Spec => []OpenListExact
<1>1. ListOK => OpenListExact
  <2> SUFFICES ASSUME ListOK PROVE OpenListExact
    OBVIOUS
  <2>1. DOMAIN open = 1 .. Len(open) /\ \A i \in 1 .. Len(open) : open[i] \in DOMAIN upvalues
    BY ListTyped DEF ListOK
  <2>2. \A i, j \in DOMAIN open : i < j => upvalues[open[i]].at > upvalues[open[j]].at
    BY <2>1 DEF ListOK, Listed
  <2>3. {u \in DOMAIN upvalues : IsOpen(u)} = Elements(open)
    BY <2>1 DEF ListOK, Listed, IsOpen, Elements
  <2> QED BY <2>2, <2>3 DEF OpenListExact
<1> QED BY <1>1, ListAlways, PTL

----------------------------------------------------------------------------
(* Where the open upvalues point. *)

LEMMA FramesTyped ==
  ASSUME MachineOK
  PROVE  /\ frames \in Seq(Activations) /\ Len(frames) \in Nat
         /\ \A i \in 1 .. Len(frames) : frames[i].slots \in Nat /\ frames[i].locals \in Nat
<1>1. frames \in Seq(Activations) /\ Len(frames) \in Nat
  BY DEF MachineOK, FramesOK, Fit
<1>2. \A i \in 1 .. Len(frames) : frames[i] \in Activations
  BY <1>1
<1> QED BY <1>1, <1>2 DEF Activations

LEMMA StillPlaced ==
  ASSUME PlacedOK,
         \A u \in DOMAIN upvalues' :
           upvalues'[u].at # Closed => u \in DOMAIN upvalues /\ upvalues'[u].at = upvalues[u].at,
         UNCHANGED frames
  PROVE  Placed(upvalues', frames')
BY DEF PlacedOK, Placed

(* The frame on top has at least the locals it had. *)
LEMMA TopWidened ==
  ASSUME PlacedOK, frames # <<>>, NEW fr, fr \in Activations,
         fr.slots = Frame.slots, fr.locals >= Frame.locals,
         frames' = [frames EXCEPT ![Len(frames)] = fr], UNCHANGED upvalues
  PROVE  Placed(upvalues', frames')
<1>1. MachineOK
  BY DEF PlacedOK, ListOK
<1>2. PICK gs : gs = frames'
  OBVIOUS
<1>3. Len(frames) \in 1 .. Len(frames) /\ frames \in Seq(Activations)
  BY <1>1, FramesTyped, TopFrame
<1>4. /\ Len(gs) = Len(frames) /\ gs[Len(frames)] = fr
      /\ \A i \in 1 .. Len(frames) : i # Len(frames) => gs[i] = frames[i]
  BY <1>2, <1>3, Replaced
<1>5. fr.locals \in Nat /\ fr.slots \in Nat
  BY DEF Activations
<1>6. \A i \in 1 .. Len(frames) :
        /\ gs[i].slots = frames[i].slots /\ gs[i].locals >= frames[i].locals
        /\ gs[i].locals \in Nat /\ frames[i].slots \in Nat /\ frames[i].locals \in Nat
  BY <1>1, <1>4, <1>5, FramesTyped DEF Frame
<1>7. ASSUME NEW p, Covered(frames, p)
      PROVE  Covered(gs, p)
  <2>1. PICK i \in 1 .. Len(frames) : p \in frames[i].slots .. frames[i].slots + frames[i].locals - 1
    BY <1>7 DEF Covered
  <2>2. p \in gs[i].slots .. gs[i].slots + gs[i].locals - 1
    BY <1>6, <2>1
  <2> QED BY <1>4, <2>1, <2>2 DEF Covered
<1> QED BY <1>2, <1>7 DEF PlacedOK, Placed

(* A scope ends, and what is still open lies below it. *)
LEMMA TopNarrowed ==
  ASSUME PlacedOK, frames # <<>>, NEW n \in 1 .. Len(Frame.scopes), Without(n),
         \A u \in DOMAIN upvalues' :
           upvalues'[u].at # Closed =>
             /\ u \in DOMAIN upvalues /\ upvalues'[u].at = upvalues[u].at
             /\ upvalues[u].at < Position(Frame.scopes[n])
  PROVE  Placed(upvalues', frames')
<1>1. MachineOK
  BY DEF PlacedOK, ListOK
<1>2. PICK gs : gs = frames'
  OBVIOUS
<1>3. PICK start : start = Frame.scopes[n]
  OBVIOUS
<1>4. PICK fr : fr = [Frame EXCEPT !.locals = start, !.scopes = SubSeq(@, 1, n - 1)]
  OBVIOUS
<1>5. Len(frames) \in 1 .. Len(frames) /\ frames \in Seq(Activations) /\ Frame \in Activations
      /\ start \in Nat /\ Frame.slots \in Nat
  BY <1>1, <1>3, FramesTyped, TopFrame, LastSlot
<1>6. fr.slots = Frame.slots /\ fr.locals = start
  BY <1>4, <1>5 DEF Activations
<1>7. gs = [frames EXCEPT ![Len(frames)] = fr]
  BY <1>2, <1>3, <1>4 DEF Without, Frame
<1>8. /\ Len(gs) = Len(frames) /\ gs[Len(frames)] = fr
      /\ \A i \in 1 .. Len(frames) : i # Len(frames) => gs[i] = frames[i]
  BY <1>5, <1>7
<1>9. ASSUME NEW p \in Nat, Covered(frames, p), p < Position(start)
      PROVE  Covered(gs, p)
  <2>1. PICK i \in 1 .. Len(frames) : p \in frames[i].slots .. frames[i].slots + frames[i].locals - 1
    BY <1>9 DEF Covered
  <2>2. CASE i = Len(frames)
    <3>1. p \in fr.slots .. fr.slots + fr.locals - 1
      BY <1>5, <1>6, <1>9, <2>1, <2>2 DEF Position, Frame
    <3> QED BY <1>5, <1>8, <3>1 DEF Covered
  <2>3. CASE i # Len(frames)
    BY <1>8, <2>1, <2>3 DEF Covered
  <2> QED BY <2>2, <2>3
<1>10. \A u \in DOMAIN upvalues : upvalues[u].at \in Nat
  BY <1>1, ListTyped
<1> QED BY <1>2, <1>3, <1>9, <1>10 DEF PlacedOK, Placed

LEMMA CallPlaced ==
  ASSUME PlacedOK, NEW fr, frames' = Append(frames, fr), UNCHANGED upvalues
  PROVE  Placed(upvalues', frames')
<1>1. MachineOK
  BY DEF PlacedOK, ListOK
<1>2. PICK gs : gs = frames'
  OBVIOUS
<1>3. frames \in Seq(Activations) /\ Len(frames) \in Nat
  BY <1>1, FramesTyped
<1>4. Len(gs) = Len(frames) + 1 /\ \A i \in 1 .. Len(frames) : gs[i] = frames[i] /\ i \in 1 .. Len(frames) + 1
  BY <1>2, <1>3
<1>5. ASSUME NEW p, Covered(frames, p)
      PROVE  Covered(gs, p)
  BY <1>4, <1>5 DEF Covered
<1> QED BY <1>2, <1>5 DEF PlacedOK, Placed

LEMMA ReturnPlaced ==
  ASSUME PlacedOK, Return
  PROVE  Placed(upvalues', frames')
<1>1. MachineOK /\ ListOK
  BY DEF PlacedOK, ListOK
<1>2. PICK gs : gs = frames'
  OBVIOUS
<1>3. PICK k : k = Len(frames)
  OBVIOUS
<1>4. frames # <<>> /\ closeUpvalues(ReturnFrom) /\ gs = SubSeq(frames, 1, k - 1)
  BY <1>2, <1>3 DEF Return, Running
<1>5. frames \in Seq(Activations) /\ k \in Nat /\ k > 0 /\ k - 1 \in 0 .. Len(frames)
      /\ Frame.slots \in Nat
  BY <1>1, <1>3, <1>4, FramesTyped, TopFrame
<1>6. Len(gs) = k - 1 /\ \A i \in 1 .. k - 1 : gs[i] = frames[i]
  BY <1>4, <1>5, Cut
<1>7. \A u \in DOMAIN upvalues' :
        upvalues'[u].at # Closed =>
          u \in DOMAIN upvalues /\ upvalues'[u].at = upvalues[u].at /\ upvalues[u].at < Frame.slots
  BY <1>1, <1>4, LastSlot, ClosingListed DEF ReturnFrom
<1>8. ASSUME NEW p \in Nat, Covered(frames, p), p < Frame.slots
      PROVE  Covered(gs, p)
  <2>1. PICK i \in 1 .. Len(frames) : p \in frames[i].slots .. frames[i].slots + frames[i].locals - 1
    BY <1>8 DEF Covered
  <2>2. i # k
    BY <1>3, <1>5, <1>8, <2>1 DEF Frame
  <2>3. i \in 1 .. k - 1
    BY <1>3, <1>5, <2>2
  <2> QED BY <1>6, <2>1, <2>3 DEF Covered
<1>9. \A u \in DOMAIN upvalues : upvalues[u].at \in Nat
  BY <1>1, ListTyped
<1> QED BY <1>2, <1>7, <1>8, <1>9 DEF PlacedOK, Placed

LEMMA CaptureLocalPlaced ==
  ASSUME PlacedOK, frames # <<>>, NEW i \in Nameable, CaptureLocal(i)
  PROVE  Placed(upvalues', frames')
<1>1. MachineOK /\ ListOK
  BY DEF PlacedOK, ListOK
<1>2. /\ frames' = frames
      /\ \A w \in DOMAIN upvalues' :
           \/ w \in DOMAIN upvalues /\ upvalues'[w] = upvalues[w]
           \/ upvalues'[w].at = Position(i)
  BY <1>1, CaptureLocalListed
<1>3. Covered(frames, Position(i))
  <2>1. i \in 0 .. Frame.locals - 1
    BY DEF Nameable, Locals
  <2>2. Len(frames) \in 1 .. Len(frames) /\ Frame.slots \in Nat /\ Frame.locals \in Nat
    BY <1>1, TopFrame
  <2>3. Position(i) \in Frame.slots .. Frame.slots + Frame.locals - 1
    BY <2>1, <2>2 DEF Position
  <2> QED BY <2>2, <2>3 DEF Covered, Frame
<1> QED BY <1>2, <1>3 DEF PlacedOK, Placed

LEMMA LeaveLoopPlaced ==
  ASSUME BreaksSpare, PlacedOK, frames # <<>>, NEW n \in DOMAIN Frame.scopes, LeaveLoop(n)
  PROVE  Placed(upvalues', frames')
<1>1. MachineOK /\ ListOK
  BY DEF PlacedOK, ListOK
<1>2. n \in 1 .. Len(Frame.scopes)
  BY <1>1, TopFrame
<1>3. PICK p : p = Position(Frame.scopes[n])
  OBVIOUS
<1>4. Without(n) /\ UNCHANGED <<open, upvalues>> /\ AtOrAbove(p) = {}
  BY <1>3 DEF LeaveLoop, BreaksSpare, heap
<1>5. Cardinality(AtOrAbove(p)) = 0
  BY <1>4, FS_EmptySet
<1>6. \A k \in 0 + 1 .. Len(open) : upvalues[open[k]].at < p
  BY <1>1, <1>2, <1>3, <1>5, LastSlot, ListDivided
<1>7. \A u \in DOMAIN upvalues : upvalues[u].at # Closed => upvalues[u].at < p
  BY <1>6 DEF PlacedOK, ListOK, Listed
<1> QED BY <1>2, <1>3, <1>4, <1>7, TopNarrowed

LEMMA PlacedNext ==
  ASSUME ErrorsSpare, BreaksSpare, PlacedOK, [Next]_vars
  PROVE  PlacedOK'
<1>0. ListOK /\ ListOK' /\ MachineOK
  BY ListNext DEF PlacedOK, ListOK
<1> SUFFICES Placed(upvalues', frames')
  BY <1>0 DEF PlacedOK
<1>1. CASE interpret
  <2>1. upvalues' = upvalues /\ Len(frames) = 0
    BY <1>1 DEF interpret, heap
  <2> QED BY <2>1 DEF PlacedOK, Placed, Covered
<1>2. CASE RuntimeError \/ BitwiseError \/ StackOverflow
  BY <1>0, <1>2, ErrorsReset, ListedErased DEF Placed
<1>3. CASE PopValue
  BY <1>3, StillPlaced DEF PopValue, heap
<1>4. ASSUME NEW v \in Values, PushValue(v)
      PROVE  Placed(upvalues', frames')
  BY <1>4, StillPlaced DEF PushValue, heap
<1>5. ASSUME frames # <<>>, NEW i \in Nameable, GetLocal(i) \/ SetLocal(i) \/ CaptureLocal(i)
      PROVE  Placed(upvalues', frames')
  <2>1. CASE GetLocal(i) \/ SetLocal(i)
    BY <2>1, StillPlaced DEF GetLocal, SetLocal, heap
  <2>2. CASE CaptureLocal(i)
    BY <1>5, <2>2, CaptureLocalPlaced
  <2> QED BY <1>5, <2>1, <2>2
<1>6. ASSUME frames # <<>>, NEW u \in Outer, GetUpvalue(u) \/ SetUpvalue(u) \/ CaptureOuter(u)
      PROVE  Placed(upvalues', frames')
  <2>1. CASE GetUpvalue(u)
    BY <2>1, StillPlaced DEF GetUpvalue, heap
  <2>2. CASE SetUpvalue(u)
    BY <1>0, <1>6, <2>2, SetUpvalueListed, StillPlaced
  <2>3. CASE CaptureOuter(u)
    BY <2>3, StillPlaced DEF CaptureOuter, AddUpvalue
  <2> QED BY <1>6, <2>1, <2>2, <2>3
<1>7. CASE DeclareLocal
  <2>1. PICK fr : fr = [Frame EXCEPT !.locals = @ + 1]
    OBVIOUS
  <2>2. /\ frames # <<>> /\ upvalues' = upvalues
        /\ frames' = [frames EXCEPT ![Len(frames)] = fr]
    BY <1>7, <2>1 DEF DeclareLocal, Running, heap, Frame
  <2>3. fr \in Activations /\ fr.slots = Frame.slots /\ fr.locals >= Frame.locals
    <3>1. fr \in Activations /\ fr.slots = Frame.slots /\ fr.locals = Frame.locals + 1
      BY <1>0, <2>1, <2>2, OneMoreLocal
    <3>2. Frame.locals \in Nat
      BY <1>0, <2>2, TopFrame
    <3> QED BY <3>1, <3>2
  <2> QED BY <2>2, <2>3, TopWidened
<1>8. CASE beginScope
  <2>1. PICK fr : fr = [Frame EXCEPT !.scopes = Append(@, Frame.locals)]
    OBVIOUS
  <2>2. /\ frames # <<>> /\ upvalues' = upvalues
        /\ frames' = [frames EXCEPT ![Len(frames)] = fr]
    BY <1>8, <2>1 DEF beginScope, AtStatement, Running, heap, Frame
  <2>3. Frame \in Activations /\ Frame.locals \in Nat /\ Append(Frame.scopes, Frame.locals) \in Seq(Nat)
    BY <1>0, <2>2, TopFrame, AppendProperties
  <2>4. fr \in Activations /\ fr.slots = Frame.slots /\ fr.locals >= Frame.locals
    <3>1. PICK s \in Seq(Nat) : s = Append(Frame.scopes, Frame.locals)
      BY <2>3
    <3>2. fr = [Frame EXCEPT !.scopes = s]
      BY <2>1, <3>1
    <3>3. fr \in Activations /\ fr.slots = Frame.slots /\ fr.locals = Frame.locals
      BY <2>3, <3>2 DEF Activations
    <3> QED BY <2>3, <3>3
  <2> QED BY <2>2, <2>4, TopWidened
<1>9. CASE endScope
  <2>1. PICK n : n = Len(Frame.scopes)
    OBVIOUS
  <2>2. /\ frames # <<>> /\ Frame.scopes # <<>>
        /\ Without(n) /\ closeUpvalues(Position(Frame.scopes[n]))
    BY <1>9, <2>1 DEF endScope, AtStatement, Running
  <2>3. n \in 1 .. Len(Frame.scopes) /\ Position(Frame.scopes[n]) \in Nat
    <3>1. n \in 1 .. Len(Frame.scopes)
      BY <1>0, <2>1, <2>2, TopFrame
    <3> QED BY <1>0, <2>2, <3>1, LastSlot
  <2>4. \A u \in DOMAIN upvalues' :
          upvalues'[u].at # Closed =>
            /\ u \in DOMAIN upvalues /\ upvalues'[u].at = upvalues[u].at
            /\ upvalues[u].at < Position(Frame.scopes[n])
    BY <1>0, <2>2, <2>3, ClosingListed
  <2> QED BY <2>2, <2>3, <2>4, TopNarrowed
<1>10. ASSUME frames # <<>>, NEW n \in DOMAIN Frame.scopes, LeaveLoop(n)
       PROVE  Placed(upvalues', frames')
  BY <1>10, LeaveLoopPlaced
<1>11. ASSUME NEW c \in Closures, NEW named \in BOOLEAN, NewClosure(c, named)
       PROVE  Placed(upvalues', frames')
  <2>1. PICK fr : fr = [Frame EXCEPT !.locals = @ + 1]
    OBVIOUS
  <2>2. /\ frames # <<>> /\ upvalues' = upvalues
        /\ frames' = IF named THEN [frames EXCEPT ![Len(frames)] = fr] ELSE frames
    BY <1>11, <2>1 DEF NewClosure, Running, Frame
  <2>3. fr \in Activations /\ fr.slots = Frame.slots /\ fr.locals >= Frame.locals
    <3>1. fr \in Activations /\ fr.slots = Frame.slots /\ fr.locals = Frame.locals + 1
      BY <1>0, <2>1, <2>2, OneMoreLocal
    <3>2. Frame.locals \in Nat
      BY <1>0, <2>2, TopFrame
    <3> QED BY <3>1, <3>2
  <2>4. CASE named
    BY <2>2, <2>3, <2>4, TopWidened
  <2>5. CASE ~ named
    BY <2>2, <2>5, StillPlaced
  <2> QED BY <2>4, <2>5
<1>12. CASE ClosureBuilt
  BY <1>12, StillPlaced DEF ClosureBuilt, heap
<1>13. ASSUME NEW c \in DOMAIN closures, Forget(c)
       PROVE  Placed(upvalues', frames')
  BY <1>0, <1>13, ForgetListed, StillPlaced DEF Forget
<1>14. ASSUME NEW argCount \in 0 .. MaxTemporaries - 1, NEW c \in DOMAIN closures, Call(c, argCount)
       PROVE  Placed(upvalues', frames')
  <2>1. CASE RuntimeError
    BY <1>0, <2>1, ErrorsReset, ListedErased DEF Placed
  <2>2. CASE ~ RuntimeError
    <3>1. \E fr : frames' = Append(frames, fr) /\ upvalues' = upvalues
      BY <1>14, <2>2 DEF Call, call, heap
    <3> QED BY <3>1, CallPlaced
  <2> QED BY <2>1, <2>2
<1>15. ASSUME NEW argCount \in 0 .. MaxTemporaries - 1, NEW v \in Values, CallNative(argCount, v)
       PROVE  Placed(upvalues', frames')
  BY <1>15, StillPlaced DEF CallNative, heap
<1>16. CASE Return
  BY <1>16, ReturnPlaced
<1>17. CASE UNCHANGED vars
  BY <1>17, StillPlaced DEF vars
<1> QED
  BY <1>1, <1>2, <1>3, <1>4, <1>5, <1>6, <1>7, <1>8, <1>9, <1>10, <1>11, <1>12, <1>13,
     <1>14, <1>15, <1>16, <1>17 DEF Next

(* An upvalue that is not closed points to the slot of a local in scope,     *)
(* however calls, scopes, loops and captures interleave.                     *)
THEOREM UpvaluesPointToLocals ==
  ASSUME ErrorsSpare, BreaksSpare
  PROVE  Spec => []OpenPointsToLocal
<1>1. Init => PlacedOK
  <2> SUFFICES ASSUME Init PROVE PlacedOK
    OBVIOUS
  <2>1. Listed(upvalues, open) /\ Placed(upvalues, frames)
    BY DEF Init, Listed, Placed
  <2> QED BY <2>1, MachineInit DEF PlacedOK, ListOK
<1>2. PlacedOK /\ [Next]_vars => PlacedOK'
  BY PlacedNext
<1>3. PlacedOK => OpenPointsToLocal
  <2> SUFFICES ASSUME PlacedOK, NEW u \in DOMAIN upvalues, upvalues[u].at # Closed
               PROVE  upvalues[u].at \in LocalSlots
    BY DEF OpenPointsToLocal, IsOpen
  <2>1. DOMAIN frames = 1 .. Len(frames)
    BY TopFrame DEF PlacedOK, ListOK
  <2>2. Covered(frames, upvalues[u].at)
    BY DEF PlacedOK, Placed
  <2> QED BY <2>1, <2>2 DEF Covered, LocalSlots
<1> QED BY <1>1, <1>2, <1>3, PTL DEF Spec

----------------------------------------------------------------------------
(* The machine implements lexical variables (Lexical), in the programs and   *)
(* runs that UpvaluesPointToLocals is about.  The cells of a state, and what *)
(* they hold, are first written as operators of the stack, frames, upvalues  *)
(* and closures, so that the state before a step and the one after it can be *)
(* compared.                                                                 *)

CellOf(us, p) ==
  LET at == {u \in DOMAIN us : us[u].at = p}
  IN  IF at = {} THEN <<"slot", p>> ELSE <<"upvalue", CHOOSE u \in at : TRUE>>
Read(us, st, u) ==
  IF us[u].at = Closed THEN us[u].closed
  ELSE IF us[u].at <= Len(st) THEN st[us[u].at] ELSE Nil
Value(us, st, x) == IF x[1] = "slot" THEN st[x[2]] ELSE Read(us, st, x[2])

Count(fs, named, i) == IF i = Len(fs) /\ named THEN fs[i].locals - 1 ELSE fs[i].locals
EnvOf(fs, us, named) ==
  [i \in DOMAIN fs |->
     [closure |-> fs[i].closure,
      cells |-> [j \in 1 .. Count(fs, named, i) |-> CellOf(us, fs[i].slots + j - 1)]]]
CapturedOf(cs, built) ==
  [c \in DOMAIN cs \ {built} |-> [i \in DOMAIN cs[c] |-> <<"upvalue", cs[c][i]>>]]
UsedOf(env, captured) ==
  (UNION {Elements(env[i].cells) : i \in DOMAIN env})
    \cup (UNION {Elements(captured[c]) : c \in DOMAIN captured})

(* The same set, by the slots of the locals in scope. *)
Scoped(fs, named, p) ==
  \E i \in 1 .. Len(fs) : p \in fs[i].slots .. fs[i].slots + Count(fs, named, i) - 1
InUseBy(fs, us, named, cs, built) ==
  {CellOf(us, p) : p \in {q \in Nat : Scoped(fs, named, q)}}
    \cup {<<"upvalue", u>> : u \in UNION {Elements(cs[c]) : c \in DOMAIN cs \ {built}}}

(* What the proof knows of a state. *)
Single(us) == \A u, w \in DOMAIN us : us[u].at = us[w].at /\ us[u].at # Closed => u = w
Sound(st, fs, us, cs) ==
  /\ st \in Seq(Values) /\ Fit(fs, Len(st))
  /\ DOMAIN us \subseteq Nat
  /\ \A u \in DOMAIN us : us[u] \in Upvalues
  /\ Single(us) /\ Placed(us, fs)
  /\ DOMAIN cs \subseteq Closures
  /\ \A c \in DOMAIN cs : cs[c] \in Seq(DOMAIN us)

LEMMA SoundState ==
  ASSUME NEW st \in Seq(Values), NEW fs, NEW us, NEW list, NEW cs,
         Fit(fs, Len(st)), Held(us, list, cs), Listed(us, list), Placed(us, fs)
  PROVE  Sound(st, fs, us, cs)
<1>1. Single(us)
  <2> SUFFICES ASSUME NEW u \in DOMAIN us, NEW w \in DOMAIN us,
                      us[u].at = us[w].at, us[u].at # Closed
               PROVE  u = w
    BY DEF Single
  <2>1. PICK i \in 1 .. Len(list) : list[i] = u
    BY DEF Listed
  <2>2. PICK j \in 1 .. Len(list) : list[j] = w
    BY DEF Listed
  <2>3. us[u].at \in Nat
    BY DEF Held, Upvalues
  <2>4. ~ (i < j) /\ ~ (j < i)
    BY <2>1, <2>2, <2>3 DEF Listed
  <2>5. list \in Seq(DOMAIN us)
    BY DEF Held
  <2>6. i = j
    BY <2>4, <2>5
  <2> QED BY <2>1, <2>2, <2>6
<1> QED BY <1>1 DEF Sound, Held

LEMMA SoundFrames ==
  ASSUME NEW fs, NEW h \in Nat, Fit(fs, h)
  PROVE  /\ fs \in Seq(Activations) /\ Len(fs) \in Nat /\ DOMAIN fs = 1 .. Len(fs)
         /\ \A i \in 1 .. Len(fs) :
              /\ fs[i] \in Activations
              /\ fs[i].slots \in Nat \ {0} /\ fs[i].locals \in Nat \ {0}
              /\ fs[i].closure \in Closures \cup {Script}
              /\ \A named : Count(fs, named, i) \in Nat /\ Count(fs, named, i) <= fs[i].locals
<1>1. fs \in Seq(Activations) /\ Len(fs) \in Nat /\ DOMAIN fs = 1 .. Len(fs)
  BY DEF Fit
<1>2. ASSUME NEW i \in 1 .. Len(fs)
      PROVE  /\ fs[i] \in Activations
             /\ fs[i].slots \in Nat \ {0} /\ fs[i].locals \in Nat \ {0}
             /\ fs[i].closure \in Closures \cup {Script}
  <2>1. fs[i] \in Activations /\ SoundFrame(fs[i])
    BY <1>1 DEF Fit
  <2> QED BY <2>1 DEF Activations, SoundFrame
<1>3. ASSUME NEW i \in 1 .. Len(fs), NEW named
      PROVE  Count(fs, named, i) \in Nat /\ Count(fs, named, i) <= fs[i].locals
  <2>1. fs[i].locals \in Nat \ {0}
    BY <1>2
  <2> QED BY <2>1 DEF Count
<1> QED BY <1>1, <1>2, <1>3

(* A frame lies above all those before it, not just above the last. *)
LEMMA FramesAscend ==
  ASSUME NEW fs, NEW h \in Nat, Fit(fs, h),
         NEW i \in 1 .. Len(fs), NEW j \in 1 .. Len(fs), i < j
  PROVE  fs[i].slots + fs[i].locals <= fs[j].slots
<1>1. Len(fs) \in Nat /\ \A k \in 1 .. Len(fs) : fs[k].slots \in Nat /\ fs[k].locals \in Nat
  BY SoundFrames
<1> DEFINE T == {k \in 1 .. Len(fs) : i < k /\ ~ (fs[i].slots + fs[i].locals <= fs[k].slots)}
<1>2. SUFFICES ASSUME T # {} PROVE FALSE
  BY <1>2
<1>3. T \subseteq Nat
  BY <1>1
<1>4. PICK m \in T : \A y \in T : ~ (<<y, m>> \in OpToRel(<, Nat))
  <2> HIDE DEF T
  <2> QED BY <1>2, <1>3, WFMin, NatLessThanWellFounded
<1>5. m \in Nat /\ m \in 1 .. Len(fs) /\ i < m /\ ~ (fs[i].slots + fs[i].locals <= fs[m].slots)
  <2>1. m \in T
    BY <1>4
  <2> QED BY <1>1, <2>1
<1>6. m - 1 \in 1 .. Len(fs) /\ m - 1 \in Nat /\ m - 1 < Len(fs) /\ (m - 1) + 1 = m
  BY <1>1, <1>5
<1>7. m - 1 \notin T
  <2>1. m - 1 \in T => <<m - 1, m>> \in OpToRel(<, Nat)
    BY <1>5, <1>6 DEF OpToRel
  <2> QED BY <1>4, <2>1
<1>8. fs[m - 1].slots + fs[m - 1].locals <= fs[m].slots
  BY <1>6 DEF Fit
<1>9. CASE i = m - 1
  BY <1>5, <1>8, <1>9
<1>10. CASE i # m - 1
  <2>1. i < m - 1
    BY <1>5, <1>6, <1>10
  <2>2. fs[i].slots + fs[i].locals <= fs[m - 1].slots
    BY <1>6, <1>7, <2>1
  <2>3. /\ fs[i].slots \in Nat /\ fs[i].locals \in Nat /\ fs[m].slots \in Nat
        /\ fs[m - 1].slots \in Nat /\ fs[m - 1].locals \in Nat
    BY <1>1, <1>5, <1>6
  <2> HIDE DEF T
  <2> QED BY <1>5, <1>8, <2>2, <2>3
<1> QED BY <1>1, <1>5, <1>9, <1>10

(* The locals of a frame lie in the stack, below the frames that follow. *)
LEMMA ScopedBelow ==
  ASSUME NEW fs, NEW h \in Nat, Fit(fs, h), NEW p
  PROVE  /\ Covered(fs, p) =>
              /\ fs # <<>> /\ p \in 1 .. h
              /\ p < fs[Len(fs)].slots + fs[Len(fs)].locals
         /\ \A named : Scoped(fs, named, p) => Covered(fs, p)
         /\ \A named : \A i \in 1 .. Len(fs) :
              p \in fs[i].slots .. fs[i].slots + Count(fs, named, i) - 1 /\ i # Len(fs) =>
                p < fs[Len(fs)].slots
<1>1. Len(fs) \in Nat /\ \A k \in 1 .. Len(fs) : fs[k].slots \in Nat \ {0} /\ fs[k].locals \in Nat \ {0}
  BY SoundFrames
<1>2. \A i \in 1 .. Len(fs) : i # Len(fs) => fs[i].slots + fs[i].locals <= fs[Len(fs)].slots
  <2> TAKE i \in 1 .. Len(fs)
  <2> HAVE i # Len(fs)
  <2>1. i < Len(fs) /\ Len(fs) \in 1 .. Len(fs)
    BY <1>1
  <2> QED BY <2>1, FramesAscend
<1>3. Len(fs) > 0 => fs[Len(fs)].slots + fs[Len(fs)].locals <= h + 1
  <2>1. Len(fs) > 0 => Len(fs) \in 1 .. Len(fs)
    BY <1>1
  <2> QED BY <2>1 DEF Fit
<1>4. ASSUME NEW i \in 1 .. Len(fs), p \in fs[i].slots .. fs[i].slots + fs[i].locals - 1
      PROVE  /\ Len(fs) > 0 /\ p \in 1 .. h
             /\ p < fs[Len(fs)].slots + fs[Len(fs)].locals
             /\ i # Len(fs) => p < fs[Len(fs)].slots
  <2>1. Len(fs) > 0 /\ Len(fs) \in 1 .. Len(fs)
    BY <1>1
  <2>2. /\ fs[i].slots \in Nat \ {0} /\ fs[i].locals \in Nat \ {0}
        /\ fs[Len(fs)].slots \in Nat \ {0} /\ fs[Len(fs)].locals \in Nat \ {0}
    BY <1>1, <2>1
  <2>3. CASE i = Len(fs)
    BY <1>3, <1>4, <2>1, <2>2, <2>3
  <2>4. CASE i # Len(fs)
    <3>1. fs[i].slots + fs[i].locals <= fs[Len(fs)].slots
      BY <1>2, <2>4
    <3>2. fs[Len(fs)].slots + fs[Len(fs)].locals <= h + 1
      BY <1>3, <2>1
    <3> QED BY <1>4, <2>1, <2>2, <2>4, <3>1, <3>2
  <2> QED BY <2>3, <2>4
<1>5. ASSUME NEW named, NEW i \in 1 .. Len(fs),
             p \in fs[i].slots .. fs[i].slots + Count(fs, named, i) - 1
      PROVE  p \in fs[i].slots .. fs[i].slots + fs[i].locals - 1
  <2>1. Count(fs, named, i) \in Nat /\ Count(fs, named, i) <= fs[i].locals
    BY SoundFrames
  <2> QED BY <1>1, <1>5, <2>1
<1>6. Covered(fs, p) => fs # <<>> /\ p \in 1 .. h /\ p < fs[Len(fs)].slots + fs[Len(fs)].locals
  <2>1. Len(fs) > 0 => fs # <<>>
    OBVIOUS
  <2> QED BY <1>4, <2>1 DEF Covered
<1>7. \A named : Scoped(fs, named, p) => Covered(fs, p)
  BY <1>5 DEF Covered, Scoped
<1> QED BY <1>4, <1>5, <1>6, <1>7

----------------------------------------------------------------------------
(* Cells. *)

LEMMA CellNames ==
  ASSUME NEW u, NEW w
  PROVE  /\ <<"upvalue", u>> = <<"upvalue", w>> => u = w
         /\ <<"slot", u>> = <<"slot", w>> => u = w
         /\ <<"slot", u>> # <<"upvalue", w>>
         /\ <<"slot", u>>[1] = "slot" /\ <<"slot", u>>[2] = u
         /\ <<"upvalue", w>>[1] = "upvalue" /\ <<"upvalue", w>>[2] = w
OBVIOUS

LEMMA CellFacts ==
  ASSUME NEW us, Single(us), NEW p \in Nat \ {0}
  PROVE  /\ \A u \in DOMAIN us : us[u].at = p => CellOf(us, p) = <<"upvalue", u>>
         /\ (\A u \in DOMAIN us : us[u].at # p) => CellOf(us, p) = <<"slot", p>>
         /\ \/ CellOf(us, p) = <<"slot", p>>
            \/ \E u \in DOMAIN us : us[u].at = p /\ CellOf(us, p) = <<"upvalue", u>>
<1> DEFINE at == {u \in DOMAIN us : us[u].at = p}
<1>1. p # Closed
  BY DEF Closed
<1>2. ASSUME NEW u \in DOMAIN us, us[u].at = p
      PROVE  CellOf(us, p) = <<"upvalue", u>>
  <2>1. at = {u}
    BY <1>1, <1>2 DEF Single
  <2>2. at # {} /\ (CHOOSE w \in at : TRUE) = u
    BY <2>1
  <2> QED BY <2>2 DEF CellOf
<1>3. ASSUME \A u \in DOMAIN us : us[u].at # p
      PROVE  CellOf(us, p) = <<"slot", p>>
  <2>1. at = {}
    BY <1>3
  <2> QED BY <2>1 DEF CellOf
<1> QED BY <1>2, <1>3

(* Different slots are different cells. *)
LEMMA CellsDiffer ==
  ASSUME NEW us, Single(us), NEW p \in Nat \ {0}, NEW q \in Nat \ {0},
         CellOf(us, p) = CellOf(us, q)
  PROVE  p = q
<1>1. PICK x, y : x = CellOf(us, p) /\ y = CellOf(us, q) /\ x = y
  OBVIOUS
<1>2. \/ x = <<"slot", p>>
      \/ \E u \in DOMAIN us : us[u].at = p /\ x = <<"upvalue", u>>
  BY <1>1, CellFacts
<1>3. \/ x = <<"slot", q>>
      \/ \E u \in DOMAIN us : us[u].at = q /\ x = <<"upvalue", u>>
  BY <1>1, CellFacts
<1>4. CASE x = <<"slot", p>>
  <2>1. x = <<"slot", q>>
    BY <1>3, <1>4, CellNames
  <2> QED BY <1>4, <2>1, CellNames
<1>5. ASSUME NEW u \in DOMAIN us, us[u].at = p, x = <<"upvalue", u>>
      PROVE  p = q
  <2>1. PICK w \in DOMAIN us : us[w].at = q /\ x = <<"upvalue", w>>
    BY <1>3, <1>5, CellNames
  <2>2. u = w
    BY <1>5, <2>1, CellNames
  <2> QED BY <1>5, <2>1, <2>2
<1> QED BY <1>2, <1>4, <1>5

LEMMA SameCells ==
  ASSUME NEW us, NEW new, NEW p,
         \A u : (u \in DOMAIN us /\ us[u].at = p) <=> (u \in DOMAIN new /\ new[u].at = p)
  PROVE  CellOf(new, p) = CellOf(us, p)
<1>1. PICK S, T : S = {u \in DOMAIN us : us[u].at = p} /\ T = {u \in DOMAIN new : new[u].at = p}
  OBVIOUS
<1>2. S = T
  BY <1>1
<1>3. /\ CellOf(us, p) = IF S = {} THEN <<"slot", p>> ELSE <<"upvalue", CHOOSE u \in S : TRUE>>
      /\ CellOf(new, p) = IF T = {} THEN <<"slot", p>> ELSE <<"upvalue", CHOOSE u \in T : TRUE>>
  BY <1>1 DEF CellOf
<1> QED BY <1>2, <1>3

(* A step that leaves alone the slots below h, the open upvalues that point  *)
(* to them, and what every upvalue still there reads.                        *)
KeptBelow(us, st, new, after, h) ==
  /\ \A p \in Nat \ {0} : p < h =>
       /\ after[p] = st[p]
       /\ \A u : (u \in DOMAIN us /\ us[u].at = p) <=> (u \in DOMAIN new /\ new[u].at = p)
  /\ \A u \in DOMAIN us \cap DOMAIN new : Read(new, after, u) = Read(us, st, u)

LEMMA KeptCells ==
  ASSUME NEW us, NEW st, NEW new, NEW after, NEW h, KeptBelow(us, st, new, after, h),
         Single(us), Single(new)
  PROVE  /\ \A p \in Nat \ {0} :
              p < h => /\ CellOf(new, p) = CellOf(us, p)
                       /\ Value(new, after, CellOf(us, p)) = Value(us, st, CellOf(us, p))
         /\ \A u \in DOMAIN us \cap DOMAIN new :
              Value(new, after, <<"upvalue", u>>) = Value(us, st, <<"upvalue", u>>)
<1>1. ASSUME NEW u \in DOMAIN us \cap DOMAIN new
      PROVE  Value(new, after, <<"upvalue", u>>) = Value(us, st, <<"upvalue", u>>)
  <2>1. Read(new, after, u) = Read(us, st, u)
    BY DEF KeptBelow
  <2> QED BY <2>1 DEF Value
<1>2. ASSUME NEW p \in Nat \ {0}, p < h
      PROVE  /\ CellOf(new, p) = CellOf(us, p)
             /\ Value(new, after, CellOf(us, p)) = Value(us, st, CellOf(us, p))
  <2>1. CellOf(new, p) = CellOf(us, p)
    BY <1>2, SameCells DEF KeptBelow
  <2>2. PICK x : x = CellOf(us, p)
    OBVIOUS
  <2>3. CASE x = <<"slot", p>>
    <3>1. after[p] = st[p]
      BY <1>2 DEF KeptBelow
    <3>2. Value(new, after, x) = Value(us, st, x)
      BY <2>3, <3>1 DEF Value
    <3> QED BY <2>1, <2>2, <3>2
  <2>4. ASSUME NEW u \in DOMAIN us, us[u].at = p, x = <<"upvalue", u>>
        PROVE  Value(new, after, x) = Value(us, st, x)
    <3>1. u \in DOMAIN new
      BY <1>2, <2>4 DEF KeptBelow
    <3> QED BY <1>1, <2>4, <3>1
  <2>5. x = <<"slot", p>> \/ \E u \in DOMAIN us : us[u].at = p /\ x = <<"upvalue", u>>
    BY <2>2, CellFacts
  <2> QED BY <2>1, <2>2, <2>3, <2>4, <2>5
<1> QED BY <1>1, <1>2

(* Such a step changes no variable but fresh ones. *)
Grounded(fs, us, named, cs, built, fs2, us2, named2, cs2, built2, h, fresh) ==
  /\ \A p \in Nat : Scoped(fs2, named2, p) =>
       p \in Nat \ {0} /\ ((Scoped(fs, named, p) /\ p < h) \/ CellOf(us2, p) \in fresh)
  /\ \A c \in DOMAIN cs2 \ {built2} : \A u \in Elements(cs2[c]) :
       \/ <<"upvalue", u>> \in fresh
       \/ /\ u \in DOMAIN us \cap DOMAIN us2
          /\ <<"upvalue", u>> \in InUseBy(fs, us, named, cs, built)

LEMMA KeptVariables ==
  ASSUME NEW fs, NEW us, NEW st, NEW named, NEW cs, NEW built,
         NEW fs2, NEW us2, NEW st2, NEW named2, NEW cs2, NEW built2, NEW h, NEW fresh,
         Single(us), Single(us2), KeptBelow(us, st, us2, st2, h),
         Grounded(fs, us, named, cs, built, fs2, us2, named2, cs2, built2, h, fresh)
  PROVE  \A x \in InUseBy(fs2, us2, named2, cs2, built2) \ fresh :
           /\ x \in InUseBy(fs, us, named, cs, built)
           /\ Value(us2, st2, x) = Value(us, st, x)
<1> SUFFICES ASSUME NEW x \in InUseBy(fs2, us2, named2, cs2, built2), x \notin fresh
             PROVE  /\ x \in InUseBy(fs, us, named, cs, built)
                    /\ Value(us2, st2, x) = Value(us, st, x)
  OBVIOUS
<1>1. \/ \E p \in Nat : Scoped(fs2, named2, p) /\ x = CellOf(us2, p)
      \/ \E u \in UNION {Elements(cs2[c]) : c \in DOMAIN cs2 \ {built2}} : x = <<"upvalue", u>>
  BY DEF InUseBy
<1>2. ASSUME NEW p \in Nat, Scoped(fs2, named2, p), x = CellOf(us2, p)
      PROVE  /\ x \in InUseBy(fs, us, named, cs, built)
             /\ Value(us2, st2, x) = Value(us, st, x)
  <2>1. p \in Nat \ {0} /\ Scoped(fs, named, p) /\ p < h
    BY <1>2 DEF Grounded
  <2>2. CellOf(us2, p) = CellOf(us, p) /\ Value(us2, st2, CellOf(us, p)) = Value(us, st, CellOf(us, p))
    BY <2>1, KeptCells
  <2>3. x \in InUseBy(fs, us, named, cs, built)
    BY <1>2, <2>1, <2>2 DEF InUseBy
  <2> QED BY <1>2, <2>2, <2>3
<1>3. ASSUME NEW c \in DOMAIN cs2 \ {built2}, NEW u \in Elements(cs2[c]), x = <<"upvalue", u>>
      PROVE  /\ x \in InUseBy(fs, us, named, cs, built)
             /\ Value(us2, st2, x) = Value(us, st, x)
  <2>1. u \in DOMAIN us \cap DOMAIN us2 /\ x \in InUseBy(fs, us, named, cs, built)
    BY <1>3 DEF Grounded
  <2>2. Value(us2, st2, <<"upvalue", u>>) = Value(us, st, <<"upvalue", u>>)
    BY <2>1, KeptCells
  <2> QED BY <1>3, <2>1, <2>2
<1> QED BY <1>1, <1>2, <1>3

----------------------------------------------------------------------------
(* Environments. *)

EnvShaped(e, fs, us, named) ==
  /\ e \in Seq({e[i] : i \in 1 .. Len(fs)})
  /\ Len(e) = Len(fs) /\ DOMAIN e = 1 .. Len(fs)
  /\ \A i \in 1 .. Len(fs) :
       /\ e[i] = [closure |-> fs[i].closure, cells |-> e[i].cells]
       /\ e[i].closure = fs[i].closure
       /\ e[i].cells \in Seq({e[i].cells[j] : j \in 1 .. Count(fs, named, i)})
       /\ Len(e[i].cells) = Count(fs, named, i)
       /\ DOMAIN e[i].cells = 1 .. Count(fs, named, i)
       /\ \A j \in 1 .. Count(fs, named, i) : e[i].cells[j] = CellOf(us, fs[i].slots + j - 1)

LEMMA EnvShape ==
  ASSUME NEW fs, NEW us, NEW named, NEW h \in Nat, Fit(fs, h)
  PROVE  EnvShaped(EnvOf(fs, us, named), fs, us, named)
<1> SUFFICES ASSUME NEW e, e = EnvOf(fs, us, named)
             PROVE  EnvShaped(e, fs, us, named)
  OBVIOUS
<1>1. Len(fs) \in Nat /\ DOMAIN fs = 1 .. Len(fs) /\ \A i \in 1 .. Len(fs) : Count(fs, named, i) \in Nat
  BY SoundFrames
<1>2. ASSUME NEW s, NEW n \in Nat, DOMAIN s = 1 .. n, s = [j \in 1 .. n |-> s[j]]
      PROVE  s \in Seq({s[j] : j \in 1 .. n}) /\ Len(s) = n
  <2>1. s \in [1 .. n -> {s[j] : j \in 1 .. n}]
    BY <1>2
  <2> QED BY <2>1, SeqDef
<1>4. e = [i \in 1 .. Len(fs) |->
             [closure |-> fs[i].closure,
              cells |-> [j \in 1 .. Count(fs, named, i) |-> CellOf(us, fs[i].slots + j - 1)]]]
  BY <1>1 DEF EnvOf
<1>5. /\ DOMAIN e = 1 .. Len(fs) /\ e = [i \in 1 .. Len(fs) |-> e[i]]
      /\ \A i \in 1 .. Len(fs) :
           /\ e[i].closure = fs[i].closure /\ e[i] = [closure |-> fs[i].closure, cells |-> e[i].cells]
           /\ e[i].cells = [j \in 1 .. Count(fs, named, i) |-> CellOf(us, fs[i].slots + j - 1)]
  <2>1. DOMAIN e = 1 .. Len(fs) /\ e = [i \in 1 .. Len(fs) |-> e[i]]
    BY <1>4, Zenon
  <2>2. ASSUME NEW i \in 1 .. Len(fs), NEW cells,
               cells = [j \in 1 .. Count(fs, named, i) |-> CellOf(us, fs[i].slots + j - 1)]
        PROVE  e[i] = [closure |-> fs[i].closure, cells |-> cells]
    BY <1>4, <2>2, Zenon
  <2>3. ASSUME NEW i \in 1 .. Len(fs)
        PROVE  /\ e[i].closure = fs[i].closure
               /\ e[i] = [closure |-> fs[i].closure, cells |-> e[i].cells]
               /\ e[i].cells = [j \in 1 .. Count(fs, named, i) |-> CellOf(us, fs[i].slots + j - 1)]
    <3>1. PICK cells : cells = [j \in 1 .. Count(fs, named, i) |-> CellOf(us, fs[i].slots + j - 1)]
      OBVIOUS
    <3>2. PICK fr : fr = e[i]
      OBVIOUS
    <3>3. fr = [closure |-> fs[i].closure, cells |-> cells]
      BY <2>2, <3>1, <3>2, Zenon
    <3>4. fr.closure = fs[i].closure /\ fr.cells = cells
      BY <3>3
    <3> QED BY <3>1, <3>2, <3>3, <3>4, Zenon
  <2> QED BY <2>1, <2>3
<1>6. e \in Seq({e[i] : i \in 1 .. Len(fs)}) /\ Len(e) = Len(fs)
  BY <1>1, <1>2, <1>5
<1>7. ASSUME NEW i \in 1 .. Len(fs)
      PROVE  /\ e[i].cells \in Seq({e[i].cells[j] : j \in 1 .. Count(fs, named, i)})
             /\ Len(e[i].cells) = Count(fs, named, i) /\ DOMAIN e[i].cells = 1 .. Count(fs, named, i)
             /\ \A j \in 1 .. Count(fs, named, i) : e[i].cells[j] = CellOf(us, fs[i].slots + j - 1)
  <2>1. PICK s : s = e[i].cells
    OBVIOUS
  <2>2. PICK n \in Nat : n = Count(fs, named, i)
    BY <1>1
  <2>3. s = [j \in 1 .. n |-> CellOf(us, fs[i].slots + j - 1)]
    BY <1>5, <2>1, <2>2
  <2>4. DOMAIN s = 1 .. n /\ s = [j \in 1 .. n |-> s[j]]
        /\ \A j \in 1 .. n : s[j] = CellOf(us, fs[i].slots + j - 1)
    BY <2>3
  <2>5. s \in Seq({s[j] : j \in 1 .. n}) /\ Len(s) = n
    BY <1>2, <2>4
  <2> QED BY <2>1, <2>2, <2>4, <2>5
<1> QED BY <1>5, <1>6, <1>7 DEF EnvShaped

(* An activation none of whose locals moved. *)
SameActivation(fs, us, named, fs2, us2, named2, i) ==
  /\ fs2[i].closure = fs[i].closure /\ fs2[i].slots = fs[i].slots
  /\ Count(fs2, named2, i) = Count(fs, named, i)
  /\ \A p \in fs[i].slots .. fs[i].slots + Count(fs, named, i) - 1 : CellOf(us2, p) = CellOf(us, p)

LEMMA SameActivations ==
  ASSUME NEW fs, NEW us, NEW named, NEW h \in Nat, Fit(fs, h),
         NEW fs2, NEW us2, NEW named2, NEW h2 \in Nat, Fit(fs2, h2),
         NEW i \in 1 .. Len(fs), i \in 1 .. Len(fs2),
         SameActivation(fs, us, named, fs2, us2, named2, i)
  PROVE  EnvOf(fs2, us2, named2)[i] = EnvOf(fs, us, named)[i]
<1>1. /\ DOMAIN fs = 1 .. Len(fs) /\ DOMAIN fs2 = 1 .. Len(fs2)
      /\ fs[i].slots \in Nat /\ Count(fs, named, i) \in Nat
  BY SoundFrames
<1>2. PICK n \in Nat, s \in Nat : n = Count(fs, named, i) /\ s = fs[i].slots
  BY <1>1
<1>3. \A j \in 1 .. n : CellOf(us2, s + j - 1) = CellOf(us, s + j - 1)
  <2> TAKE j \in 1 .. n
  <2>1. s + j - 1 \in s .. s + n - 1
    OBVIOUS
  <2> QED BY <1>2, <2>1 DEF SameActivation
<1>4. [j \in 1 .. n |-> CellOf(us2, s + j - 1)] = [j \in 1 .. n |-> CellOf(us, s + j - 1)]
  BY <1>3
<1> QED BY <1>1, <1>2, <1>4 DEF EnvOf, SameActivation

----------------------------------------------------------------------------
(* From the machine to its variables. *)

CapturedShaped(k, cs, built) ==
  /\ DOMAIN k = DOMAIN cs \ {built}
  /\ \A c \in DOMAIN cs \ {built} :
       /\ k[c] = [i \in 1 .. Len(cs[c]) |-> <<"upvalue", cs[c][i]>>]
       /\ DOMAIN cs[c] = 1 .. Len(cs[c]) /\ DOMAIN k[c] = 1 .. Len(cs[c])
       /\ Elements(k[c]) = {<<"upvalue", u>> : u \in Elements(cs[c])}

LEMMA CapturedShape ==
  ASSUME NEW cs, NEW built, NEW S, \A c \in DOMAIN cs : cs[c] \in Seq(S)
  PROVE  CapturedShaped(CapturedOf(cs, built), cs, built)
<1> SUFFICES ASSUME NEW k, k = CapturedOf(cs, built)
             PROVE  CapturedShaped(k, cs, built)
  OBVIOUS
<1>1. ASSUME NEW c \in DOMAIN cs \ {built}
      PROVE  /\ k[c] = [i \in 1 .. Len(cs[c]) |-> <<"upvalue", cs[c][i]>>]
             /\ DOMAIN cs[c] = 1 .. Len(cs[c])
  <2>1. DOMAIN cs[c] = 1 .. Len(cs[c])
    OBVIOUS
  <2>2. k[c] = [i \in DOMAIN cs[c] |-> <<"upvalue", cs[c][i]>>]
    BY Zenon DEF CapturedOf
  <2> QED BY <2>1, <2>2
<1>2. ASSUME NEW c \in DOMAIN cs \ {built}
      PROVE  /\ DOMAIN k[c] = 1 .. Len(cs[c])
             /\ Elements(k[c]) = {<<"upvalue", u>> : u \in Elements(cs[c])}
  <2>1. PICK s, t : s = cs[c] /\ t = k[c]
    OBVIOUS
  <2>2. PICK D : D = 1 .. Len(s)
    OBVIOUS
  <2>3. t = [i \in D |-> <<"upvalue", s[i]>>] /\ DOMAIN s = D
    BY <1>1, <2>1, <2>2
  <2>4. DOMAIN t = D /\ \A i \in D : t[i] = <<"upvalue", s[i]>>
    BY <2>3
  <2>5. {t[i] : i \in DOMAIN t} = {<<"upvalue", u>> : u \in {s[i] : i \in DOMAIN s}}
    BY <2>3, <2>4
  <2> QED BY <2>1, <2>2, <2>4, <2>5 DEF Elements
<1>3. DOMAIN k = DOMAIN cs \ {built}
  BY Zenon DEF CapturedOf
<1> QED BY <1>1, <1>2, <1>3 DEF CapturedShaped

LEMMA UsedCells ==
  ASSUME NEW fs, NEW us, NEW named, NEW h \in Nat, Fit(fs, h),
         NEW cs, NEW built, NEW S, \A c \in DOMAIN cs : cs[c] \in Seq(S),
         NEW e, EnvShaped(e, fs, us, named), NEW k, CapturedShaped(k, cs, built)
  PROVE  UsedOf(e, k) = InUseBy(fs, us, named, cs, built)
<1>2. /\ DOMAIN e = 1 .. Len(fs)
      /\ \A i \in 1 .. Len(fs) :
           /\ fs[i].slots \in Nat /\ Count(fs, named, i) \in Nat
           /\ DOMAIN e[i].cells = 1 .. Count(fs, named, i)
           /\ \A j \in 1 .. Count(fs, named, i) : e[i].cells[j] = CellOf(us, fs[i].slots + j - 1)
  <2>1. \A i \in 1 .. Len(fs) : fs[i].slots \in Nat /\ Count(fs, named, i) \in Nat
    BY SoundFrames
  <2>2. /\ DOMAIN e = 1 .. Len(fs)
        /\ \A i \in 1 .. Len(fs) :
             /\ DOMAIN e[i].cells = 1 .. Count(fs, named, i)
             /\ \A j \in 1 .. Count(fs, named, i) : e[i].cells[j] = CellOf(us, fs[i].slots + j - 1)
    BY DEF EnvShaped
  <2> QED BY <2>1, <2>2
<1>3. ASSUME NEW x
      PROVE  x \in UNION {Elements(e[i].cells) : i \in DOMAIN e}
               <=> \E p \in Nat : Scoped(fs, named, p) /\ x = CellOf(us, p)
  <2>1. ASSUME NEW i \in 1 .. Len(fs), x \in Elements(e[i].cells)
        PROVE  \E p \in Nat : Scoped(fs, named, p) /\ x = CellOf(us, p)
    <3>1. PICK j \in 1 .. Count(fs, named, i) : x = CellOf(us, fs[i].slots + j - 1)
      BY <1>2, <2>1 DEF Elements
    <3>2. PICK p : p = fs[i].slots + j - 1
      OBVIOUS
    <3>3. p \in Nat /\ p \in fs[i].slots .. fs[i].slots + Count(fs, named, i) - 1
      BY <1>2, <3>1, <3>2
    <3> QED BY <3>1, <3>2, <3>3 DEF Scoped
  <2>2. ASSUME NEW p \in Nat, Scoped(fs, named, p), x = CellOf(us, p)
        PROVE  \E i \in 1 .. Len(fs) : x \in Elements(e[i].cells)
    <3>1. PICK i \in 1 .. Len(fs) : p \in fs[i].slots .. fs[i].slots + Count(fs, named, i) - 1
      BY <2>2 DEF Scoped
    <3>2. PICK j \in 1 .. Count(fs, named, i) : p = fs[i].slots + j - 1
      <4>1. PICK n \in Nat, s \in Nat : n = Count(fs, named, i) /\ s = fs[i].slots
        BY <1>2
      <4>2. p - s + 1 \in 1 .. n /\ p = s + (p - s + 1) - 1
        BY <3>1, <4>1
      <4> QED BY <4>1, <4>2
    <3>3. e[i].cells[j] = x
      BY <1>2, <2>2, <3>2
    <3> QED BY <1>2, <3>3 DEF Elements
  <2> QED BY <1>2, <2>1, <2>2
<1>4. ASSUME NEW x
      PROVE  x \in UNION {Elements(k[c]) : c \in DOMAIN k}
               <=> \E u \in UNION {Elements(cs[c]) : c \in DOMAIN cs \ {built}} : x = <<"upvalue", u>>
  <2>1. DOMAIN k = DOMAIN cs \ {built}
    BY DEF CapturedShaped
  <2>2. \A c \in DOMAIN cs \ {built} : Elements(k[c]) = {<<"upvalue", u>> : u \in Elements(cs[c])}
    BY DEF CapturedShaped
  <2> QED BY <2>1, <2>2
<1>5. ASSUME NEW x
      PROVE  x \in UsedOf(e, k) <=> x \in InUseBy(fs, us, named, cs, built)
  <2>1. x \in UsedOf(e, k) <=> \/ x \in UNION {Elements(e[i].cells) : i \in DOMAIN e}
                              \/ x \in UNION {Elements(k[c]) : c \in DOMAIN k}
    <3>1. PICK A, B : /\ A = UNION {Elements(e[i].cells) : i \in DOMAIN e}
                      /\ B = UNION {Elements(k[c]) : c \in DOMAIN k}
      OBVIOUS
    <3>2. UsedOf(e, k) = A \cup B
      BY <3>1, Zenon DEF UsedOf
    <3> QED BY <3>1, <3>2
  <2>2. x \in InUseBy(fs, us, named, cs, built) <=>
          \/ \E p \in Nat : Scoped(fs, named, p) /\ x = CellOf(us, p)
          \/ \E u \in UNION {Elements(cs[c]) : c \in DOMAIN cs \ {built}} : x = <<"upvalue", u>>
    BY DEF InUseBy
  <2> QED BY <1>3, <1>4, <2>1, <2>2
<1> QED BY <1>5

LEMMA Mapped ==
  /\ Environments = EnvOf(frames, upvalues, building.named)
  /\ CapturedCells = CapturedOf(closures, building.closure)
  /\ Contents = [x \in InUseCells |-> Value(upvalues, stack, x)]
  /\ InUseCells = UsedOf(Environments, CapturedCells)
  /\ L!Used = UsedOf(Environments, CapturedCells)
<1>1. Environments = EnvOf(frames, upvalues, building.named)
  BY DEF Environments, EnvOf, CellAt, CellOf, InScope, Count
<1>2. CapturedCells = CapturedOf(closures, building.closure)
  BY DEF CapturedCells, CapturedOf
<1>3. \A x : ValueOf(x) = Value(upvalues, stack, x)
  BY DEF ValueOf, Value, Read, Content, IsOpen, Height
<1>4. DOMAIN Environments = DOMAIN frames
  BY DEF Environments
<1>5. InUseCells = UsedOf(Environments, CapturedCells)
  BY <1>4 DEF InUseCells, UsedOf
<1>6. L!Used = UsedOf(Environments, CapturedCells)
  BY DEF L!Used, L!Elements, UsedOf, Elements
<1>7. Contents = [x \in InUseCells |-> Value(upvalues, stack, x)]
  BY <1>3 DEF Contents
<1> QED BY <1>1, <1>2, <1>5, <1>6, <1>7

LEMMA MappedNext ==
  /\ Environments' = EnvOf(frames', upvalues', building'.named)
  /\ CapturedCells' = CapturedOf(closures', building'.closure)
  /\ Contents' = [x \in InUseCells' |-> Value(upvalues', stack', x)]
  /\ InUseCells' = UsedOf(Environments', CapturedCells')
  /\ L!Used' = UsedOf(Environments', CapturedCells')
<1>1. Environments' = EnvOf(frames', upvalues', building'.named)
  BY DEF Environments, EnvOf, CellAt, CellOf, InScope, Count
<1>2. CapturedCells' = CapturedOf(closures', building'.closure)
  BY DEF CapturedCells, CapturedOf
<1>3. \A x : ValueOf(x)' = Value(upvalues', stack', x)
  BY DEF ValueOf, Value, Read, Content, IsOpen, Height
<1>4. DOMAIN Environments' = DOMAIN frames'
  BY DEF Environments
<1>5. InUseCells' = UsedOf(Environments', CapturedCells')
  BY <1>4 DEF InUseCells, UsedOf
<1>6. L!Used' = UsedOf(Environments', CapturedCells')
  BY DEF L!Used, L!Elements, UsedOf, Elements
<1>7. Contents' = [x \in InUseCells' |-> Value(upvalues', stack', x)]
  BY <1>3 DEF Contents
<1> QED BY <1>1, <1>2, <1>5, <1>6, <1>7

LEMMA StateFacts ==
  ASSUME PlacedOK
  PROVE  /\ Sound(stack, frames, upvalues, closures) /\ Height = Len(stack) /\ Len(stack) \in Nat
         /\ building = NotBuilding \/ building.closure \in DOMAIN closures
<1>1. stack \in Seq(Values) /\ Height = Len(stack) /\ Len(stack) \in Nat
  BY DEF PlacedOK, ListOK, MachineOK, StackOK, Height
<1>2. /\ Fit(frames, Len(stack)) /\ Held(upvalues, open, closures)
      /\ Listed(upvalues, open) /\ Placed(upvalues, frames)
      /\ building = NotBuilding \/ building.closure \in DOMAIN closures
  BY <1>1 DEF PlacedOK, ListOK, MachineOK, FramesOK, HeapOK
<1> QED BY <1>1, <1>2, SoundState

LEMMA NextFacts ==
  ASSUME PlacedOK'
  PROVE  Sound(stack', frames', upvalues', closures') /\ Len(stack') \in Nat
<1>1. stack' \in Seq(Values) /\ Len(stack') \in Nat
  BY DEF PlacedOK, ListOK, MachineOK, StackOK, Height
<1>2. /\ Fit(frames', Len(stack')) /\ Held(upvalues', open', closures')
      /\ Listed(upvalues', open') /\ Placed(upvalues', frames')
  BY <1>1 DEF PlacedOK, ListOK, MachineOK, FramesOK, HeapOK, Height
<1> QED BY <1>1, <1>2, SoundState

Used == InUseBy(frames, upvalues, building.named, closures, building.closure)

LEMMA UsedOfSound ==
  ASSUME NEW st, NEW fs, NEW us, NEW cs, Sound(st, fs, us, cs), NEW named, NEW built
  PROVE  UsedOf(EnvOf(fs, us, named), CapturedOf(cs, built)) = InUseBy(fs, us, named, cs, built)
<1>1. Len(st) \in Nat /\ Fit(fs, Len(st)) /\ \A c \in DOMAIN cs : cs[c] \in Seq(DOMAIN us)
  BY DEF Sound
<1>2. EnvShaped(EnvOf(fs, us, named), fs, us, named)
  BY <1>1, EnvShape
<1>3. CapturedShaped(CapturedOf(cs, built), cs, built)
  BY <1>1, CapturedShape
<1> QED BY <1>1, <1>2, <1>3, UsedCells

LEMMA UsedIs ==
  ASSUME PlacedOK, PlacedOK'
  PROVE  L!Used = Used /\ InUseCells = Used /\ L!Used' = Used' /\ InUseCells' = Used'
<1>1. L!Used = Used /\ InUseCells = Used
  BY StateFacts, UsedOfSound, Mapped DEF Used
<1>2. L!Used' = Used' /\ InUseCells' = Used'
  BY NextFacts, UsedOfSound, MappedNext DEF Used
<1> QED BY <1>1, <1>2

(* A step that changes no variable but those given. *)
LEMMA StoreKept ==
  ASSUME PlacedOK, PlacedOK', NEW fresh,
         \A x \in Used' \ fresh : /\ x \in Used
                                  /\ Value(upvalues', stack', x) = Value(upvalues, stack, x)
  PROVE  L!StoreKeepsBut(fresh)
<1>1. PICK old, new, S, T : old = Contents /\ new = Contents' /\ S = Used /\ T = Used'
  OBVIOUS
<1>2. /\ old = [x \in S |-> Value(upvalues, stack, x)]
      /\ new = [x \in T |-> Value(upvalues', stack', x)]
  BY <1>1, UsedIs, Mapped, MappedNext
<1>3. DOMAIN new = T /\ \A x \in T \ fresh : x \in S /\ new[x] = old[x]
  BY <1>1, <1>2
<1>4. L!Used = S /\ L!Used' = T
  BY <1>1, UsedIs
<1> QED BY <1>1, <1>3, <1>4 DEF L!StoreKeepsBut

LEMMA Stutter ==
  ASSUME PlacedOK, PlacedOK', Environments' = Environments, CapturedCells' = CapturedCells,
         L!StoreKeepsBut({})
  PROVE  UNCHANGED L!vars
<1>1. PICK old, new, S, T : old = Contents /\ new = Contents' /\ S = Used /\ T = Used'
  OBVIOUS
<1>2. /\ old = [x \in S |-> Value(upvalues, stack, x)]
      /\ new = [x \in T |-> Value(upvalues', stack', x)]
  BY <1>1, UsedIs, Mapped, MappedNext
<1>3. L!Used = S /\ L!Used' = T
  BY <1>1, UsedIs
<1>4. S = T
  BY <1>3, Mapped, MappedNext
<1>5. \A x \in T : new[x] = old[x]
  BY <1>1, <1>3 DEF L!StoreKeepsBut
<1>6. new = old
  BY <1>2, <1>4, <1>5
<1> QED BY <1>1, <1>6 DEF L!vars

LEMMA Kept ==
  ASSUME PlacedOK, PlacedOK', NEW h, NEW fresh,
         KeptBelow(upvalues, stack, upvalues', stack', h),
         Grounded(frames, upvalues, building.named, closures, building.closure,
                  frames', upvalues', building'.named, closures', building'.closure, h, fresh)
  PROVE  L!StoreKeepsBut(fresh)
<1>1. Single(upvalues) /\ Single(upvalues')
  BY StateFacts, NextFacts DEF Sound
<1>2. \A x \in Used' \ fresh : /\ x \in Used
                               /\ Value(upvalues', stack', x) = Value(upvalues, stack, x)
  BY <1>1, KeptVariables DEF Used
<1> QED BY <1>2, StoreKept

----------------------------------------------------------------------------
(* What steps keep. *)

(* Upvalues are collected, and the stack changes above the open ones. *)
LEMMA KeptRestricted ==
  ASSUME NEW st, NEW fs, NEW us, NEW cs, Sound(st, fs, us, cs),
         NEW us2, NEW st2, NEW h \in Nat, Len(st2) \in Nat,
         h <= Len(st) + 1, h <= Len(st2) + 1,
         \A p \in Nat \ {0} : p < h => st2[p] = st[p],
         \A u \in DOMAIN us2 : u \in DOMAIN us /\ us2[u] = us[u],
         \A u \in DOMAIN us : us[u].at # Closed => us[u].at < h /\ u \in DOMAIN us2
  PROVE  KeptBelow(us, st, us2, st2, h)
<1>0. Len(st) \in Nat
  BY DEF Sound
<1>1. ASSUME NEW u \in DOMAIN us \cap DOMAIN us2
      PROVE  Read(us2, st2, u) = Read(us, st, u)
  <2>1. us2[u] = us[u] /\ us[u].at \in Nat
    BY DEF Sound, Upvalues
  <2>2. CASE us[u].at = Closed
    BY <2>1, <2>2 DEF Read
  <2>3. CASE us[u].at # Closed
    <3>1. us[u].at < h /\ us[u].at \in Nat \ {0}
      BY <2>1, <2>3 DEF Closed
    <3>2. us[u].at <= Len(st) /\ us[u].at <= Len(st2) /\ st2[us[u].at] = st[us[u].at]
      BY <1>0, <3>1
    <3> QED BY <2>1, <2>3, <3>2 DEF Read
  <2> QED BY <2>2, <2>3
<1>2. ASSUME NEW p \in Nat \ {0}, NEW u
      PROVE  (u \in DOMAIN us /\ us[u].at = p) <=> (u \in DOMAIN us2 /\ us2[u].at = p)
  BY DEF Closed
<1> QED BY <1>1, <1>2 DEF KeptBelow

(* The stack changes above the locals, and nothing else does. *)
LEMMA OpenBelow ==
  ASSUME NEW st, NEW fs, NEW us, NEW cs, Sound(st, fs, us, cs)
  PROVE  /\ \A p : Covered(fs, p) =>
              /\ fs # <<>> /\ p \in 1 .. Len(st)
              /\ p < fs[Len(fs)].slots + fs[Len(fs)].locals
         /\ \A named, p : Scoped(fs, named, p) => Covered(fs, p)
         /\ \A u \in DOMAIN us :
              us[u].at # Closed =>
                /\ Covered(fs, us[u].at) /\ fs # <<>> /\ us[u].at \in 1 .. Len(st)
                /\ us[u].at < fs[Len(fs)].slots + fs[Len(fs)].locals
<1>0. Len(st) \in Nat /\ Fit(fs, Len(st))
  BY DEF Sound
<1>1. \A p : Covered(fs, p) =>
          /\ fs # <<>> /\ p \in 1 .. Len(st)
          /\ p < fs[Len(fs)].slots + fs[Len(fs)].locals
  BY <1>0, ScopedBelow
<1>2. \A named, p : Scoped(fs, named, p) => Covered(fs, p)
  BY <1>0, ScopedBelow
<1>3. \A u \in DOMAIN us : us[u].at # Closed => Covered(fs, us[u].at)
  BY DEF Sound, Placed
<1> QED BY <1>1, <1>2, <1>3

LEMMA KeptAbove ==
  ASSUME NEW st, NEW fs, NEW us, NEW cs, Sound(st, fs, us, cs),
         NEW st2, NEW h \in Nat, Len(st2) \in Nat,
         fs # <<>>, fs[Len(fs)].slots + fs[Len(fs)].locals <= h,
         h <= Len(st) + 1, h <= Len(st2) + 1,
         \A p \in 1 .. h - 1 : st2[p] = st[p]
  PROVE  KeptBelow(us, st, us, st2, h)
<1>1. /\ fs[Len(fs)].slots \in Nat /\ fs[Len(fs)].locals \in Nat
  <2>1. Len(st) \in Nat /\ Fit(fs, Len(st))
    BY DEF Sound
  <2>2. fs \in Seq(Activations)
    BY DEF Sound, Fit
  <2>3. Len(fs) \in 1 .. Len(fs)
    BY <2>2
  <2> QED BY <2>1, <2>3, SoundFrames
<1>2. ASSUME NEW u \in DOMAIN us, us[u].at # Closed
      PROVE  us[u].at < h
  <2>1. us[u].at \in Nat /\ us[u].at < fs[Len(fs)].slots + fs[Len(fs)].locals
    BY <1>2, OpenBelow DEF Sound, Upvalues
  <2> QED BY <1>1, <2>1
<1>3. \A p \in Nat \ {0} : p < h => st2[p] = st[p]
  OBVIOUS
<1> QED BY <1>2, <1>3, KeptRestricted

(* Activations, closures and what they can name stay. *)
LEMMA Staying ==
  ASSUME PlacedOK, PlacedOK', NEW h,
         KeptBelow(upvalues, stack, upvalues', stack', h),
         \A p : Scoped(frames, building.named, p) => p < h,
         Len(frames') = Len(frames),
         \A i \in 1 .. Len(frames) :
           /\ frames'[i].closure = frames[i].closure /\ frames'[i].slots = frames[i].slots
           /\ Count(frames', building'.named, i) = Count(frames, building.named, i),
         DOMAIN closures' \ {building'.closure} = DOMAIN closures \ {building.closure},
         \A c \in DOMAIN closures \ {building.closure} : closures'[c] = closures[c]
  PROVE  UNCHANGED L!vars
<1>1. /\ Sound(stack, frames, upvalues, closures) /\ Sound(stack', frames', upvalues', closures')
      /\ Len(stack) \in Nat /\ Len(stack') \in Nat
  BY StateFacts, NextFacts
<1>2. PICK fs, us, st, cs, named, built :
        fs = frames /\ us = upvalues /\ st = stack /\ cs = closures
          /\ named = building.named /\ built = building.closure
  OBVIOUS
<1>3. PICK fs2, us2, st2, cs2, named2, built2 :
        fs2 = frames' /\ us2 = upvalues' /\ st2 = stack' /\ cs2 = closures'
          /\ named2 = building'.named /\ built2 = building'.closure
  OBVIOUS
<1>4. /\ Fit(fs, Len(st)) /\ Fit(fs2, Len(st2)) /\ Single(us) /\ Single(us2)
      /\ Len(st) \in Nat /\ Len(st2) \in Nat
      /\ \A c \in DOMAIN cs : cs[c] \in Seq(DOMAIN us)
      /\ \A c \in DOMAIN cs2 : cs2[c] \in Seq(DOMAIN us2)
  BY <1>1, <1>2, <1>3 DEF Sound
<1>5. /\ KeptBelow(us, st, us2, st2, h)
      /\ \A p : Scoped(fs, named, p) => p < h
      /\ Len(fs2) = Len(fs)
      /\ \A i \in 1 .. Len(fs) :
           /\ fs2[i].closure = fs[i].closure /\ fs2[i].slots = fs[i].slots
           /\ Count(fs2, named2, i) = Count(fs, named, i)
      /\ DOMAIN cs2 \ {built2} = DOMAIN cs \ {built}
      /\ \A c \in DOMAIN cs \ {built} : cs2[c] = cs[c]
  BY <1>2, <1>3
<1>6. \A p : Scoped(fs2, named2, p) <=> Scoped(fs, named, p)
  BY <1>5 DEF Scoped
<1>7. ASSUME NEW p, Scoped(fs, named, p)
      PROVE  p \in Nat \ {0}
  <2>1. Covered(fs, p)
    BY <1>4, <1>7, ScopedBelow
  <2>2. p \in 1 .. Len(st)
    BY <1>4, <2>1, ScopedBelow
  <2> QED BY <1>4, <2>2
<1>8. ASSUME NEW i \in 1 .. Len(fs)
      PROVE  EnvOf(fs2, us2, named2)[i] = EnvOf(fs, us, named)[i]
  <2>1. \A p \in fs[i].slots .. fs[i].slots + Count(fs, named, i) - 1 : CellOf(us2, p) = CellOf(us, p)
    <3> TAKE p \in fs[i].slots .. fs[i].slots + Count(fs, named, i) - 1
    <3>1. Scoped(fs, named, p)
      BY DEF Scoped
    <3> QED BY <1>4, <1>5, <1>7, <3>1, KeptCells
  <2>2. SameActivation(fs, us, named, fs2, us2, named2, i)
    BY <1>5, <2>1 DEF SameActivation
  <2>3. i \in 1 .. Len(fs2)
    BY <1>5
  <2> QED BY <1>4, <2>2, <2>3, SameActivations
<1>9. EnvOf(fs2, us2, named2) = EnvOf(fs, us, named)
  <2>1. DOMAIN fs = 1 .. Len(fs) /\ DOMAIN fs2 = 1 .. Len(fs)
    BY <1>4, <1>5, SoundFrames
  <2> QED BY <1>8, <2>1 DEF EnvOf
<1>10. CapturedOf(cs2, built2) = CapturedOf(cs, built)
  BY <1>5 DEF CapturedOf
<1>11. Grounded(fs, us, named, cs, built, fs2, us2, named2, cs2, built2, h, {})
  <2>1. ASSUME NEW c \in DOMAIN cs2 \ {built2}, NEW u \in Elements(cs2[c])
        PROVE  u \in DOMAIN us \cap DOMAIN us2 /\ <<"upvalue", u>> \in InUseBy(fs, us, named, cs, built)
    <3>1. c \in DOMAIN cs \ {built} /\ cs2[c] = cs[c] /\ u \in Elements(cs[c])
      BY <1>5
    <3>2. u \in DOMAIN us /\ u \in DOMAIN us2
      BY <1>4, <3>1, ElementsOfSeq
    <3>3. u \in UNION {Elements(cs[d]) : d \in DOMAIN cs \ {built}}
      BY <3>1
    <3> QED BY <3>2, <3>3 DEF InUseBy
  <2> QED BY <1>5, <1>6, <1>7, <2>1 DEF Grounded
<1>12. L!StoreKeepsBut({})
  BY <1>2, <1>3, <1>5, <1>11, Kept
<1>13. Environments' = Environments /\ CapturedCells' = CapturedCells
  BY <1>2, <1>3, <1>9, <1>10, Mapped, MappedNext
<1> QED BY <1>12, <1>13, Stutter

LEMMA ClosingKeeps ==
  ASSUME PlacedOK, NEW last \in Nat, closeUpvalues(last),
         NEW h \in Nat \ {0}, h <= last, Len(stack') \in Nat,
         h <= Height + 1, h <= Len(stack') + 1,
         \A p \in Nat \ {0} : p < h => stack'[p] = stack[p],
         \A u \in DOMAIN upvalues : upvalues[u].at # Closed => upvalues[u].at < h \/ upvalues[u].at >= last
  PROVE  KeptBelow(upvalues, stack, upvalues', stack', h)
<1> DEFINE n == Cardinality(AtOrAbove(last))
           front == SubSeq(open, 1, n)
           closing == Elements(front)
           rest == SubSeq(open, n + 1, Len(open))
           us == [u \in DOMAIN upvalues |->
                    IF u \in closing
                      THEN [upvalues[u] EXCEPT !.closed = Content(u), !.at = Closed]
                      ELSE upvalues[u]]
<1>1. ListOK /\ MachineOK /\ Listed(upvalues, open) /\ Height = Len(stack) /\ Len(stack) \in Nat
  BY StateFacts DEF PlacedOK, ListOK
<1>2. /\ open \in Seq(DOMAIN upvalues) /\ Len(open) \in Nat
      /\ \A u \in DOMAIN upvalues : upvalues[u].at \in Nat /\ upvalues[u] \in Upvalues
  BY <1>1, ListTyped DEF MachineOK, HeapOK, Held
<1>3. n \in 0 .. Len(open)
  BY <1>2, ListPrefixes
<1>4. /\ \A i \in 1 .. n : upvalues[open[i]].at >= last
      /\ \A i \in n + 1 .. Len(open) : upvalues[open[i]].at < last
  BY <1>1, ListDivided
<1>5. upvalues' = InUse(us, closures, rest)
  BY DEF closeUpvalues
<1> HIDE DEF n
<1>6. /\ Len(front) = n /\ DOMAIN front = 1 .. n
      /\ \A i \in 1 .. n : front[i] = open[i]
  <2>1. front \in Seq(DOMAIN upvalues) /\ Len(front) = n /\ \A i \in 1 .. n : front[i] = open[i]
    BY <1>2, <1>3, Cut
  <2> QED BY <2>1
<1>7. /\ Len(rest) = Len(open) - n /\ DOMAIN rest = 1 .. Len(open) - n
      /\ \A i \in 1 .. Len(open) - n : rest[i] = open[n + i]
  <2>1. /\ rest \in Seq(DOMAIN upvalues) /\ Len(rest) = Len(open) - n
        /\ \A i \in 1 .. Len(open) - n : rest[i] = open[n + i]
    BY <1>2, <1>3, Rest
  <2> QED BY <2>1
<1> HIDE DEF front, rest
<1>8. \A u : u \in closing <=> \E i \in 1 .. n : open[i] = u
  BY <1>6 DEF Elements
<1> HIDE DEF closing
<1>9. ASSUME NEW u \in DOMAIN upvalues
      PROVE  /\ u \in DOMAIN us
             /\ u \in closing => us[u].at = Closed /\ us[u].closed = Content(u) /\ upvalues[u].at >= last
             /\ u \notin closing => us[u] = upvalues[u]
  <2>1. upvalues[u] \in Upvalues
    BY <1>2
  <2>2. u \in closing => upvalues[u].at >= last
    BY <1>4, <1>8
  <2>3. /\ [upvalues[u] EXCEPT !.closed = Content(u), !.at = Closed].at = Closed
        /\ [upvalues[u] EXCEPT !.closed = Content(u), !.at = Closed].closed = Content(u)
    BY <2>1 DEF Upvalues
  <2> QED BY <2>2, <2>3
<1>10. DOMAIN us = DOMAIN upvalues
  OBVIOUS
<1> HIDE DEF us
<1>11. \A u \in DOMAIN upvalues' : u \in DOMAIN upvalues /\ upvalues'[u] = us[u]
  BY <1>5, <1>10 DEF InUse
<1>12. \A u \in DOMAIN upvalues : Content(u) = Read(upvalues, stack, u)
  BY <1>1 DEF Content, IsOpen, Read
(* An open upvalue below last is still in the list. *)
<1>13. ASSUME NEW u \in DOMAIN upvalues, upvalues[u].at # Closed, upvalues[u].at < last
       PROVE  u \in DOMAIN upvalues' /\ u \notin closing
  <2>1. PICK i \in 1 .. Len(open) : open[i] = u
    BY <1>1, <1>13 DEF Listed
  <2>2. upvalues[u].at \in Nat
    BY <1>2
  <2>3. i \notin 1 .. n
    BY <1>4, <1>13, <2>1, <2>2
  <2>4. i - n \in 1 .. Len(open) - n /\ n + (i - n) = i
    BY <1>2, <1>3, <2>3
  <2>5. rest[i - n] = u
    BY <1>7, <2>1, <2>4
  <2>6. u \in Elements(rest)
    BY <1>7, <2>4, <2>5 DEF Elements
  <2>7. u \notin closing
    BY <1>9, <1>13, <2>2
  <2> QED BY <1>5, <1>10, <2>6, <2>7 DEF InUse
<1>14. ASSUME NEW u \in DOMAIN upvalues'
       PROVE  Read(upvalues', stack', u) = Read(upvalues, stack, u)
  <2>1. u \in DOMAIN upvalues /\ upvalues'[u] = us[u] /\ upvalues[u].at \in Nat
    BY <1>2, <1>11
  <2>2. CASE u \in closing
    <3>1. upvalues'[u].at = Closed /\ upvalues'[u].closed = Read(upvalues, stack, u)
      BY <1>9, <1>12, <2>1, <2>2
    <3> QED BY <3>1 DEF Read
  <2>3. CASE u \notin closing
    <3>1. upvalues'[u] = upvalues[u]
      BY <1>9, <2>1, <2>3
    <3>2. CASE upvalues[u].at = Closed
      BY <3>1, <3>2 DEF Read
    <3>3. CASE upvalues[u].at # Closed
      <4>1. PICK i \in 1 .. Len(open) : open[i] = u
        BY <1>1, <2>1, <3>3 DEF Listed
      <4>2. i \in n + 1 .. Len(open)
        BY <1>2, <1>3, <1>8, <2>3, <4>1
      <4>3. upvalues[u].at < last
        BY <1>4, <4>1, <4>2
      <4>4. upvalues[u].at \in Nat \ {0} /\ upvalues[u].at < h
        BY <2>1, <3>3, <4>3 DEF Closed
      <4>5. PICK p \in Nat \ {0} : p = upvalues[u].at
        BY <4>4
      <4>6. p <= Len(stack) /\ p <= Len(stack') /\ stack'[p] = stack[p]
        BY <1>1, <4>4, <4>5
      <4> QED BY <3>1, <3>3, <4>5, <4>6 DEF Read
    <3> QED BY <3>2, <3>3
  <2> QED BY <2>2, <2>3
<1>15. ASSUME NEW p \in Nat \ {0}, p < h, NEW u
       PROVE  (u \in DOMAIN upvalues /\ upvalues[u].at = p) <=> (u \in DOMAIN upvalues' /\ upvalues'[u].at = p)
  <2>1. ASSUME u \in DOMAIN upvalues, upvalues[u].at = p
        PROVE  u \in DOMAIN upvalues' /\ upvalues'[u].at = p
    <3>1. upvalues[u].at # Closed /\ upvalues[u].at < last
      BY <1>15, <2>1 DEF Closed
    <3> QED BY <1>9, <1>11, <1>13, <2>1, <3>1
  <2>2. ASSUME u \in DOMAIN upvalues', upvalues'[u].at = p
        PROVE  u \in DOMAIN upvalues /\ upvalues[u].at = p
    <3>1. u \in DOMAIN upvalues /\ us[u].at = p /\ p # Closed
      BY <1>11, <2>2 DEF Closed
    <3> QED BY <1>9, <3>1
  <2> QED BY <2>1, <2>2
<1> QED BY <1>14, <1>15 DEF KeptBelow

----------------------------------------------------------------------------
(* While OP_CLOSURE fills a closure: no frame runs it yet, and it holds      *)
(* variables that its creator can name or, if it is a local function, the    *)
(* new local it is the value of, which nothing else has captured.            *)
BuildingOK ==
  building # NotBuilding =>
    /\ frames # <<>>
    /\ \A i \in 1 .. Len(frames) : frames[i].closure # building.closure
    /\ \A u \in Elements(closures[building.closure]) :
         u \in Outer \/ upvalues[u].at \in Frame.slots .. Frame.slots + Frame.locals - 1
    /\ building.named =>
         \A c \in DOMAIN closures \ {building.closure} : \A u \in Elements(closures[c]) :
           upvalues[u].at # Frame.slots + Frame.locals - 1

VariablesOK == PlacedOK /\ BuildingOK

LEMMA NewClosureBuilds ==
  ASSUME PlacedOK, NEW c \in Closures, NEW named \in BOOLEAN, NewClosure(c, named)
  PROVE  BuildingOK'
<1>1. MachineOK /\ frames # <<>> /\ c \notin DOMAIN closures /\ c # Script
  BY VmAssumption DEF PlacedOK, ListOK, NewClosure, Running
<1>2. /\ closures' = [d \in DOMAIN closures \cup {c} |-> IF d = c THEN <<>> ELSE closures[d]]
      /\ upvalues' = upvalues
      /\ frames' = IF named THEN [frames EXCEPT ![Len(frames)].locals = @ + 1] ELSE frames
      /\ building' = [closure |-> c, named |-> named]
      /\ named => Temporaries = 0
  BY DEF NewClosure
<1>3. /\ building'.closure = c /\ building'.named = named
      /\ DOMAIN closures' = DOMAIN closures \cup {c}
      /\ closures'[c] = <<>>
      /\ \A d \in DOMAIN closures : closures'[d] = closures[d]
  BY <1>1, <1>2
<1>4. /\ frames \in Seq(Activations) /\ Len(frames) \in 1 .. Len(frames) /\ Frame \in Activations
      /\ Frame.slots \in Nat /\ Frame.locals \in Nat /\ Height \in Nat
  BY <1>1, TopFrame, FramesTyped
<1>5. PICK fr : fr = [Frame EXCEPT !.locals = @ + 1]
  OBVIOUS
<1>6. fr \in Activations /\ fr.slots = Frame.slots /\ fr.locals = Frame.locals + 1 /\ fr.closure = Frame.closure
  <2>1. fr \in Activations /\ fr.slots = Frame.slots /\ fr.locals = Frame.locals + 1
    BY <1>1, <1>5, OneMoreLocal
  <2> QED BY <1>4, <1>5, <2>1 DEF Activations
<1>7. PICK gs : gs = frames'
  OBVIOUS
<1>8. gs = IF named THEN [frames EXCEPT ![Len(frames)] = fr] ELSE frames
  BY <1>2, <1>5, <1>7 DEF Frame
<1>9. /\ Len(gs) = Len(frames) /\ \A i \in 1 .. Len(frames) : gs[i].closure = frames[i].closure
      /\ named => gs[Len(gs)] = fr
  <2>1. CASE named
    BY <1>4, <1>6, <1>8, <2>1, Replaced DEF Frame
  <2>2. CASE ~ named
    BY <1>8, <2>2
  <2> QED BY <2>1, <2>2
<1>10. \A i \in 1 .. Len(frames) : frames[i].closure # c
  BY <1>1 DEF MachineOK, HeapOK
<1>11. Elements(<<>>) = {}
  BY DEF Elements
<1>12. ASSUME named, NEW d \in DOMAIN closures, NEW u \in Elements(closures[d])
       PROVE  upvalues[u].at # fr.slots + fr.locals - 1
  <2>1. u \in DOMAIN upvalues
    BY <1>1, <1>12, ElementsOfSeq DEF MachineOK, HeapOK, Held
  <2>2. Height = Frame.slots + Frame.locals - 1
    <3>1. PICK h \in Nat, k \in Nat, l \in Nat : h = Height /\ k = Frame.slots /\ l = Frame.locals
      BY <1>4
    <3>2. h - (k + l - 1) = 0
      BY <1>2, <1>12, <3>1 DEF Temporaries
    <3> QED BY <3>1, <3>2
  <2>3. upvalues[u].at # Closed => upvalues[u].at \in 1 .. Height
    BY <2>1, StateFacts, OpenBelow
  <2> QED BY <1>4, <1>6, <2>2, <2>3 DEF Closed
<1>13. gs # <<>>
  BY <1>1, <1>4, <1>9
<1> QED BY <1>2, <1>3, <1>7, <1>9, <1>10, <1>11, <1>12, <1>13 DEF BuildingOK, Frame

LEMMA CaptureBuilds ==
  ASSUME VariablesOK, PlacedOK', building # NotBuilding,
         building' = building, frames' = frames,
         NEW u, closures' = [closures EXCEPT ![building.closure] = Append(@, u)],
         \A w \in DOMAIN upvalues : w \in DOMAIN upvalues' /\ upvalues'[w] = upvalues[w],
         u \in Outer \/ upvalues'[u].at \in Frame.slots .. Frame.slots + Frame.locals - 1
  PROVE  BuildingOK'
<1>1. /\ MachineOK /\ frames # <<>> /\ building.closure \in DOMAIN closures
      /\ \A i \in 1 .. Len(frames) : frames[i].closure # building.closure
      /\ \A w \in Elements(closures[building.closure]) :
           w \in Outer \/ upvalues[w].at \in Frame.slots .. Frame.slots + Frame.locals - 1
      /\ building.named =>
           \A c \in DOMAIN closures \ {building.closure} : \A w \in Elements(closures[c]) :
             upvalues[w].at # Frame.slots + Frame.locals - 1
      /\ \A c \in DOMAIN closures : closures[c] \in Seq(DOMAIN upvalues)
  BY StateFacts DEF VariablesOK, BuildingOK, PlacedOK, ListOK, Sound
<1>2. PICK b : b = building.closure
  OBVIOUS
<1>3. /\ DOMAIN closures' = DOMAIN closures /\ closures'[b] = Append(closures[b], u)
      /\ \A c \in DOMAIN closures \ {b} : closures'[c] = closures[c]
  BY <1>1, <1>2
<1>4. ASSUME NEW s \in Seq(DOMAIN upvalues), NEW w, w \in Elements(Append(s, u))
      PROVE  w \in Elements(s) \/ w = u
  <2>1. /\ Len(s) \in Nat /\ DOMAIN s = 1 .. Len(s) /\ DOMAIN Append(s, u) = 1 .. Len(s) + 1
        /\ \A i \in 1 .. Len(s) : Append(s, u)[i] = s[i]
        /\ Append(s, u)[Len(s) + 1] = u
    OBVIOUS
  <2>2. PICK i \in 1 .. Len(s) + 1 : w = Append(s, u)[i]
    BY <1>4, <2>1 DEF Elements
  <2> QED BY <2>1, <2>2 DEF Elements
<1>5. Frame' = Frame
  BY DEF Frame
<1>6. Outer' = Outer
  <2>1. Len(frames) \in 1 .. Len(frames)
    BY <1>1, TopFrame
  <2>2. Frame.closure # b /\ Frame.closure \in DOMAIN closures \cup {Script}
    BY <1>1, <1>2, <2>1 DEF Frame, MachineOK, HeapOK
  <2>3. Frame.closure # Script => closures'[Frame.closure] = closures[Frame.closure]
    BY <1>3, <2>2
  <2> QED BY <1>5, <2>3 DEF Outer
<1>7. ASSUME NEW w \in Elements(closures'[b])
      PROVE  w \in Outer \/ upvalues'[w].at \in Frame.slots .. Frame.slots + Frame.locals - 1
  <2>1. w \in Elements(closures[b]) \/ w = u
    BY <1>1, <1>2, <1>3, <1>4, <1>7
  <2>2. CASE w = u
    BY <2>2
  <2>3. CASE w \in Elements(closures[b])
    <3>1. w \in DOMAIN upvalues
      BY <1>1, <1>2, <2>3, ElementsOfSeq
    <3> QED BY <1>1, <1>2, <2>3, <3>1
  <2> QED BY <2>1, <2>2, <2>3
<1>8. ASSUME building.named, NEW c \in DOMAIN closures \ {b}, NEW w \in Elements(closures'[c])
      PROVE  upvalues'[w].at # Frame.slots + Frame.locals - 1
  <2>1. w \in Elements(closures[c])
    BY <1>3, <1>8
  <2>2. w \in DOMAIN upvalues
    BY <1>1, <2>1, ElementsOfSeq
  <2> QED BY <1>1, <1>2, <1>8, <2>1, <2>2
<1> QED BY <1>1, <1>2, <1>3, <1>5, <1>6, <1>7, <1>8 DEF BuildingOK

(* The upvalue captureUpvalue returns is open at the slot. *)
LEMMA CaptureLocalFacts ==
  ASSUME PlacedOK, NEW p \in Nat \ {0}
  PROVE  /\ UpvalueOf(p) \in DOMAIN upvalues => upvalues[UpvalueOf(p)].at = p
         /\ UpvalueOf(p) \notin DOMAIN upvalues => \A w \in DOMAIN upvalues : upvalues[w].at # p
         /\ UpvalueOf(p) \in Nat
<1>1. ListOK /\ MachineOK /\ Listed(upvalues, open)
  BY DEF PlacedOK, ListOK
<1>2. /\ open \in Seq(DOMAIN upvalues) /\ Len(open) \in Nat
      /\ \A i \in 1 .. Len(open) : open[i] \in DOMAIN upvalues /\ upvalues[open[i]].at \in Nat
      /\ \A u \in DOMAIN upvalues : upvalues[u].at \in Nat
      /\ DOMAIN upvalues \subseteq Nat
  BY <1>1, ListTyped DEF MachineOK, HeapOK, Held
<1>3. PICK n \in 0 .. Len(open) : n = Cardinality(Above(p))
  BY <1>2, ListPrefixes
<1>4. /\ \A i \in 1 .. n : upvalues[open[i]].at > p
      /\ \A i \in n + 1 .. Len(open) : upvalues[open[i]].at <= p
  BY <1>1, <1>3, ListDivided
<1>5. NotIn(DOMAIN upvalues) \in Nat \ {0} /\ NotIn(DOMAIN upvalues) \notin DOMAIN upvalues
  BY <1>1, FreshNumber DEF MachineOK, HeapOK, Held
<1>6. CASE n < Len(open) /\ upvalues[open[n + 1]].at = p
  <2>1. UpvalueOf(p) = open[n + 1]
    BY <1>3, <1>6 DEF UpvalueOf
  <2>2. n + 1 \in 1 .. Len(open)
    BY <1>2, <1>3, <1>6
  <2> QED BY <1>2, <1>6, <2>1, <2>2
<1>7. CASE ~ (n < Len(open) /\ upvalues[open[n + 1]].at = p)
  <2>1. UpvalueOf(p) = NotIn(DOMAIN upvalues)
    BY <1>3, <1>7 DEF UpvalueOf
  <2>2. ASSUME NEW w \in DOMAIN upvalues, upvalues[w].at = p
        PROVE  FALSE
    <3>1. PICK i \in 1 .. Len(open) : open[i] = w
      BY <1>1, <2>2 DEF Listed, Closed
    <3>2. i \in n + 1 .. Len(open)
      BY <1>2, <1>3, <1>4, <2>2, <3>1
    <3>3. n + 1 \in n + 1 .. Len(open) /\ n + 1 \in 1 .. Len(open) /\ n < Len(open)
      BY <1>2, <1>3, <3>2
    <3>4. i # n + 1
      BY <1>7, <2>2, <3>1, <3>3
    <3>5. upvalues[open[n + 1]].at > upvalues[open[i]].at
      <4>1. i \in 1 .. Len(open) /\ n + 1 < i
        BY <1>2, <1>3, <3>2, <3>4
      <4> QED BY <1>1, <3>3, <4>1 DEF Listed
    <3>6. upvalues[open[n + 1]].at <= p /\ upvalues[open[n + 1]].at \in Nat
      BY <1>2, <1>4, <3>3
    <3> QED BY <2>2, <3>1, <3>5, <3>6
  <2> QED BY <1>5, <2>1, <2>2
<1> QED BY <1>6, <1>7

LEMMA BuildingNext ==
  ASSUME ErrorsSpare, BreaksSpare, VariablesOK, [Next]_vars
  PROVE  VariablesOK'
<1>0. PlacedOK /\ BuildingOK /\ MachineOK
  BY DEF VariablesOK, PlacedOK, ListOK
<1>1. PlacedOK'
  BY <1>0, PlacedNext
<1> SUFFICES BuildingOK'
  BY <1>1 DEF VariablesOK
<1>2. CASE Running /\ building' = building
  BY <1>2 DEF Running, BuildingOK
<1>3. CASE building' = NotBuilding
  BY <1>3 DEF BuildingOK
<1>4. CASE interpret
  BY <1>0, <1>4 DEF interpret, BuildingOK
<1>5. ASSUME NEW c \in Closures, NEW named \in BOOLEAN, NewClosure(c, named)
      PROVE  BuildingOK'
  BY <1>0, <1>5, NewClosureBuilds
<1>6. ASSUME frames # <<>>, NEW i \in Nameable, CaptureLocal(i)
      PROVE  BuildingOK'
  <2>1. PICK p : p = Position(i)
    OBVIOUS
  <2>2. i \in 0 .. Frame.locals - 1
    BY DEF Nameable, Locals
  <2>3. Frame.slots \in Nat /\ Frame.locals \in Nat /\ Frame.slots > 0
    BY <1>0, <1>6, TopFrame
  <2>4. p \in Frame.slots .. Frame.slots + Frame.locals - 1 /\ p \in Nat \ {0}
    BY <2>1, <2>2, <2>3 DEF Position
  <2>5. PICK u : u = UpvalueOf(p)
    OBVIOUS
  <2>6. /\ building # NotBuilding /\ building' = building /\ frames' = frames
        /\ closures' = [closures EXCEPT ![building.closure] = Append(@, u)]
        /\ upvalues' = [w \in DOMAIN upvalues \cup {u} |->
                          IF w \in DOMAIN upvalues THEN upvalues[w] ELSE newUpvalue(p)]
    BY <1>6, <2>1, <2>5 DEF CaptureLocal, AddUpvalue
  <2>7. \A w \in DOMAIN upvalues : w \in DOMAIN upvalues' /\ upvalues'[w] = upvalues[w]
    BY <2>6
  <2>8. upvalues'[u].at = p
    <3>1. CASE u \in DOMAIN upvalues
      BY <1>0, <2>4, <2>5, <2>7, <3>1, CaptureLocalFacts
    <3>2. CASE u \notin DOMAIN upvalues
      BY <2>6, <3>2 DEF newUpvalue
    <3> QED BY <3>1, <3>2
  <2> QED BY <1>1, <2>4, <2>6, <2>7, <2>8, CaptureBuilds
<1>7. ASSUME frames # <<>>, NEW u \in Outer, CaptureOuter(u)
      PROVE  BuildingOK'
  <2>1. /\ building # NotBuilding /\ building' = building /\ frames' = frames
        /\ closures' = [closures EXCEPT ![building.closure] = Append(@, u)]
        /\ upvalues' = upvalues
    BY <1>7 DEF CaptureOuter, AddUpvalue
  <2> QED BY <1>1, <2>1, CaptureBuilds
<1>8. CASE ClosureBuilt
  BY <1>3, <1>8 DEF ClosureBuilt
<1>9. ASSUME NEW c \in DOMAIN closures, Forget(c)
      PROVE  BuildingOK'
  BY <1>3, <1>9 DEF Forget
<1>10. CASE UNCHANGED vars
  BY <1>0, <1>10 DEF vars, BuildingOK, Frame, Outer
<1>11. CASE \/ RuntimeError \/ BitwiseError \/ StackOverflow \/ PopValue \/ (\E v \in Values : PushValue(v))
            \/ (\E i : GetLocal(i) \/ SetLocal(i)) \/ (\E u : GetUpvalue(u) \/ SetUpvalue(u))
            \/ DeclareLocal \/ beginScope \/ endScope \/ (\E n : LeaveLoop(n))
            \/ (\E argCount : (\E c : Call(c, argCount)) \/ (\E v : CallNative(argCount, v)))
            \/ Return
  BY <1>2, <1>11
  DEF RuntimeError, BitwiseError, StackOverflow, runtimeError, PopValue, PushValue, GetLocal, SetLocal, GetUpvalue, SetUpvalue, DeclareLocal,
      beginScope, endScope, LeaveLoop, Call, call, CallNative, Return, AtStatement
<1> QED
  BY <1>4, <1>5, <1>6, <1>7, <1>8, <1>9, <1>10, <1>11 DEF Next

----------------------------------------------------------------------------
(* Steps that no program can see. *)

LEMMA StackStutters ==
  ASSUME PlacedOK, PlacedOK', frames # <<>>,
         NEW h \in Nat, Frame.slots + Frame.locals <= h, h <= Len(stack) + 1, h <= Len(stack') + 1,
         \A p \in 1 .. h - 1 : stack'[p] = stack[p],
         DOMAIN upvalues' = DOMAIN upvalues,
         \A u \in DOMAIN upvalues : upvalues'[u] = upvalues[u],
         Len(frames') = Len(frames),
         \A i \in 1 .. Len(frames) :
           /\ frames'[i].closure = frames[i].closure /\ frames'[i].slots = frames[i].slots
           /\ Count(frames', building'.named, i) = Count(frames, building.named, i),
         DOMAIN closures' \ {building'.closure} = DOMAIN closures \ {building.closure},
         \A c \in DOMAIN closures \ {building.closure} : closures'[c] = closures[c]
  PROVE  UNCHANGED L!vars
<1>1. Sound(stack, frames, upvalues, closures) /\ Len(stack) \in Nat /\ Len(stack') \in Nat
  BY StateFacts, NextFacts
<1>2. Frame.slots \in Nat /\ Frame.locals \in Nat
  BY TopFrame DEF PlacedOK, ListOK
<1>3. ASSUME NEW u \in DOMAIN upvalues, upvalues[u].at # Closed
      PROVE  upvalues[u].at < h
  <2>1. upvalues[u].at \in 1 .. Len(stack) /\ upvalues[u].at < Frame.slots + Frame.locals
    BY <1>1, <1>3, OpenBelow DEF Frame
  <2> QED BY <1>1, <1>2, <2>1
<1>4. KeptBelow(upvalues, stack, upvalues', stack', h)
  <2>1. \A p \in Nat \ {0} : p < h => stack'[p] = stack[p]
    OBVIOUS
  <2> QED BY <1>1, <1>3, <2>1, KeptRestricted
<1>5. ASSUME NEW p, Scoped(frames, building.named, p)
      PROVE  p < h
  <2>1. Covered(frames, p)
    BY <1>1, <1>5, OpenBelow
  <2>2. p < Frame.slots + Frame.locals /\ p \in 1 .. Len(stack)
    BY <1>1, <2>1, OpenBelow DEF Frame
  <2> QED BY <1>1, <1>2, <2>2
<1> QED BY <1>4, <1>5, Staying

(* Instructions on temporaries. *)
LEMMA TemporariesStutter ==
  ASSUME PlacedOK, PlacedOK', frames # <<>>,
         NEW h \in Nat, Frame.slots + Frame.locals <= h, h <= Len(stack) + 1, h <= Len(stack') + 1,
         \A p \in 1 .. h - 1 : stack'[p] = stack[p],
         UNCHANGED <<upvalues, frames, closures, building>>
  PROVE  UNCHANGED L!vars
BY StackStutters

LEMMA TopOfStack ==
  ASSUME PlacedOK, frames # <<>>
  PROVE  /\ Height = Len(stack) /\ Height \in Nat /\ stack \in Seq(Values)
         /\ Frame.slots \in Nat \ {0} /\ Frame.locals \in Nat \ {0}
         /\ Frame.slots + Frame.locals <= Height + 1
         /\ Temporaries = Height + 1 - (Frame.slots + Frame.locals) /\ Temporaries \in Nat
         /\ Len(frames) \in 1 .. Len(frames) /\ Frame \in Activations /\ frames \in Seq(Activations)
<1>1. MachineOK
  BY DEF PlacedOK, ListOK
<1>2. /\ Height = Len(stack) /\ Height \in Nat /\ stack \in Seq(Values)
      /\ Len(frames) \in 1 .. Len(frames) /\ Frame \in Activations /\ frames \in Seq(Activations)
  BY <1>1, TopFrame, FramesTyped DEF MachineOK, StackOK, Height
<1>3. /\ Frame.slots \in Nat \ {0} /\ Frame.locals \in Nat \ {0}
      /\ Frame.slots + Frame.locals <= Height + 1
  BY <1>1, TopFrame
<1>4. PICK h \in Nat, k \in Nat, l \in Nat : h = Height /\ k = Frame.slots /\ l = Frame.locals
  BY <1>2, <1>3
<1>5. Temporaries = h - (k + l - 1)
  BY <1>4 DEF Temporaries
<1>6. k + l <= h + 1
  BY <1>3, <1>4
<1>7. Temporaries = h + 1 - (k + l) /\ Temporaries \in Nat
  BY <1>5, <1>6
<1> QED BY <1>2, <1>3, <1>4, <1>7

LEMMA PushStutters ==
  ASSUME PlacedOK, PlacedOK', frames # <<>>, NEW v, stack' = Append(stack, v),
         UNCHANGED <<upvalues, frames, closures, building>>
  PROVE  UNCHANGED L!vars
<1>1. /\ Height = Len(stack) /\ Height \in Nat /\ stack \in Seq(Values)
      /\ Frame.slots + Frame.locals <= Height + 1
  BY TopOfStack
<1>2. PICK h \in Nat : h = Height + 1
  BY <1>1
<1>3. Len(stack') = Len(stack) + 1 /\ \A p \in 1 .. h - 1 : stack'[p] = stack[p]
  BY <1>1, <1>2
<1> QED BY <1>1, <1>2, <1>3, TemporariesStutter

LEMMA PopValueStutters ==
  ASSUME PlacedOK, PlacedOK', PopValue
  PROVE  UNCHANGED L!vars
<1>1. /\ frames # <<>> /\ Temporaries > 0 /\ stack' = SubSeq(stack, 1, Height - 1)
      /\ UNCHANGED <<upvalues, frames, closures, building>>
  BY DEF PopValue, Running, heap
<1>2. /\ Height = Len(stack) /\ Height \in Nat /\ stack \in Seq(Values)
      /\ Frame.slots \in Nat \ {0} /\ Frame.locals \in Nat \ {0}
      /\ Temporaries = Height + 1 - (Frame.slots + Frame.locals)
  BY <1>1, TopOfStack
<1>3. PICK h \in Nat : h = Height
  BY <1>2
<1>4. Frame.slots + Frame.locals <= h /\ h - 1 \in 0 .. Len(stack) /\ stack \in Seq(Values)
  BY <1>1, <1>2, <1>3
<1>5. Len(stack') = h - 1 /\ \A p \in 1 .. h - 1 : stack'[p] = stack[p]
  BY <1>1, <1>3, <1>4, Cut
<1> QED BY <1>1, <1>2, <1>3, <1>4, <1>5, TemporariesStutter

LEMMA CallNativeStutters ==
  ASSUME PlacedOK, PlacedOK', NEW argCount \in Nat, NEW v, CallNative(argCount, v)
  PROVE  UNCHANGED L!vars
<1>1. /\ frames # <<>> /\ Temporaries > argCount
      /\ stack' = Append(SubSeq(stack, 1, Height - argCount - 1), v)
      /\ UNCHANGED <<upvalues, frames, closures, building>>
  BY DEF CallNative, Running, heap
<1>2. /\ Height = Len(stack) /\ Height \in Nat /\ stack \in Seq(Values)
      /\ Frame.slots \in Nat \ {0} /\ Frame.locals \in Nat \ {0}
      /\ Temporaries = Height + 1 - (Frame.slots + Frame.locals)
  BY <1>1, TopOfStack
<1>3. PICK h, st, st2 : h = Height - argCount /\ st = stack /\ st2 = stack'
  BY <1>2
<1>4. /\ h \in Nat /\ h - 1 \in 0 .. Len(st) /\ st \in Seq(Values)
      /\ Frame.slots + Frame.locals <= h /\ h <= Len(st)
  BY <1>1, <1>2, <1>3
<1>5. PICK front \in Seq(Values) : /\ front = SubSeq(st, 1, h - 1)
                                   /\ Len(front) = h - 1 /\ \A p \in 1 .. h - 1 : front[p] = st[p]
  BY <1>4, Cut
<1>6. st2 = Append(front, v)
  BY <1>1, <1>3, <1>5
<1>7. Len(st2) = h /\ \A p \in 1 .. h - 1 : st2[p] = front[p]
  BY <1>4, <1>5, <1>6
<1> QED BY <1>1, <1>3, <1>4, <1>5, <1>7, TemporariesStutter

LEMMA beginScopeStutters ==
  ASSUME PlacedOK, PlacedOK', beginScope
  PROVE  UNCHANGED L!vars
<1>1. /\ frames # <<>> /\ UNCHANGED <<stack, upvalues, closures, building>>
      /\ frames' = [frames EXCEPT ![Len(frames)].scopes = Append(@, Frame.locals)]
  BY DEF beginScope, AtStatement, Running, heap
<1>2. /\ Height = Len(stack) /\ Height \in Nat
      /\ Frame.slots + Frame.locals <= Height + 1
      /\ Len(frames) \in 1 .. Len(frames) /\ frames \in Seq(Activations)
  BY <1>1, TopOfStack
<1>3. PICK fs, gs, n : fs = frames /\ gs = frames' /\ n = Len(frames)
  OBVIOUS
<1>4. ASSUME NEW x
      PROVE  LET hs == [fs EXCEPT ![n].scopes = x]
             IN  /\ Len(hs) = n
                 /\ \A i \in 1 .. n : /\ hs[i].closure = fs[i].closure /\ hs[i].slots = fs[i].slots
                                      /\ hs[i].locals = fs[i].locals
  <2>1. fs \in Seq(Activations) /\ n = Len(fs) /\ \A i \in 1 .. n : fs[i] \in Activations
    BY <1>2, <1>3
  <2> QED BY <2>1 DEF Activations
<1>5. gs = [fs EXCEPT ![n].scopes = Append(fs[n].scopes, Frame.locals)]
  BY <1>1, <1>2, <1>3
<1>6. /\ Len(gs) = n
      /\ \A i \in 1 .. n : /\ gs[i].closure = fs[i].closure /\ gs[i].slots = fs[i].slots
                           /\ gs[i].locals = fs[i].locals
  BY <1>4, <1>5
<1>7. \A i \in 1 .. n : Count(gs, building'.named, i) = Count(fs, building.named, i)
  BY <1>1, <1>3, <1>6 DEF Count
<1>8. Height + 1 \in Nat /\ Height + 1 <= Len(stack) + 1 /\ Height + 1 <= Len(stack') + 1
  BY <1>1, <1>2
<1> QED BY <1>1, <1>2, <1>3, <1>6, <1>7, <1>8, StackStutters

LEMMA Stepping ==
  ASSUME Running
  PROVE  /\ frames # <<>> /\ building = NotBuilding
         /\ building.closure = Script /\ building.named = FALSE
BY DEF Running, NotBuilding

LEMMA NewClosureStutters ==
  ASSUME PlacedOK, PlacedOK', NEW c \in Closures, NEW named \in BOOLEAN, NewClosure(c, named)
  PROVE  UNCHANGED L!vars
<1>1. /\ Running /\ c \notin DOMAIN closures /\ Script \notin DOMAIN closures /\ c # Script
      /\ upvalues' = upvalues /\ stack' = Append(stack, Object)
      /\ closures' = [d \in DOMAIN closures \cup {c} |-> IF d = c THEN <<>> ELSE closures[d]]
      /\ frames' = IF named THEN [frames EXCEPT ![Len(frames)].locals = @ + 1] ELSE frames
      /\ building' = [closure |-> c, named |-> named]
  <2>1. DOMAIN closures \subseteq Closures
    BY StateFacts DEF Sound
  <2> QED BY <2>1, VmAssumption DEF NewClosure
<1>2. frames # <<>> /\ building.closure = Script /\ building.named = FALSE
  BY <1>1, Stepping
<1>3. building'.closure = c /\ building'.named = named
  BY <1>1
<1>4. /\ DOMAIN closures' \ {building'.closure} = DOMAIN closures \ {building.closure}
      /\ \A d \in DOMAIN closures \ {building.closure} : closures'[d] = closures[d]
  BY <1>1, <1>2, <1>3
<1>5. /\ Height = Len(stack) /\ Height \in Nat /\ stack \in Seq(Values)
      /\ Frame.slots + Frame.locals <= Height + 1 /\ Frame.locals \in Nat
      /\ Len(frames) \in 1 .. Len(frames) /\ frames \in Seq(Activations)
  BY <1>2, TopOfStack
<1>6. PICK h \in Nat : h = Height + 1
  BY <1>5
<1>7. Len(stack') = Len(stack) + 1 /\ \A p \in 1 .. h - 1 : stack'[p] = stack[p]
  BY <1>1, <1>5, <1>6
<1>8. PICK fs, gs, n : fs = frames /\ gs = frames' /\ n = Len(frames)
  OBVIOUS
<1>9. /\ n = Len(fs) /\ n \in 1 .. n /\ \A i \in 1 .. n : fs[i] \in Activations
      /\ fs \in Seq(Activations) /\ n \in Nat
  BY <1>5, <1>8
<1>10. gs = IF named THEN [fs EXCEPT ![n].locals = fs[n].locals + 1] ELSE fs
  BY <1>1, <1>8, <1>9
<1>11. /\ Len(gs) = n
       /\ \A i \in 1 .. n : /\ gs[i].closure = fs[i].closure /\ gs[i].slots = fs[i].slots
                            /\ gs[i].locals = IF named /\ i = n THEN fs[i].locals + 1 ELSE fs[i].locals
  BY <1>9, <1>10 DEF Activations
<1>12. \A i \in 1 .. n : fs[i].locals \in Nat
  BY <1>9 DEF Activations
<1>13. \A i \in 1 .. n : Count(gs, named, i) = Count(fs, FALSE, i)
  BY <1>9, <1>11, <1>12 DEF Count
<1>14. Len(frames') = Len(frames)
  BY <1>8, <1>11
<1>15. \A i \in 1 .. Len(frames) :
         /\ frames'[i].closure = frames[i].closure /\ frames'[i].slots = frames[i].slots
         /\ Count(frames', building'.named, i) = Count(frames, building.named, i)
  BY <1>2, <1>3, <1>8, <1>11, <1>13
<1>16. /\ Frame.slots + Frame.locals <= h /\ h <= Len(stack) + 1 /\ h <= Len(stack') + 1
       /\ \A p \in 1 .. h - 1 : stack'[p] = stack[p]
  BY <1>5, <1>6, <1>7
<1>17. DOMAIN upvalues' = DOMAIN upvalues /\ \A u \in DOMAIN upvalues : upvalues'[u] = upvalues[u]
  BY <1>1
<1> QED BY <1>2, <1>4, <1>14, <1>15, <1>16, <1>17, StackStutters

(* Captures are seen when the closure is there. *)
LEMMA AddUpvalueStays ==
  ASSUME PlacedOK, building # NotBuilding, NEW u, AddUpvalue(u)
  PROVE  /\ frames # <<>> => UNCHANGED <<stack, frames, building>>
         /\ DOMAIN closures' \ {building'.closure} = DOMAIN closures \ {building.closure}
         /\ \A c \in DOMAIN closures \ {building.closure} : closures'[c] = closures[c]
BY DEF AddUpvalue

LEMMA CaptureOuterStutters ==
  ASSUME VariablesOK, VariablesOK', NEW u, CaptureOuter(u)
  PROVE  UNCHANGED L!vars
<1>1. /\ PlacedOK /\ PlacedOK' /\ building # NotBuilding /\ frames # <<>>
      /\ AddUpvalue(u) /\ upvalues' = upvalues
  BY DEF VariablesOK, CaptureOuter, BuildingOK
<1>2. /\ UNCHANGED <<stack, frames, building>>
      /\ DOMAIN closures' \ {building'.closure} = DOMAIN closures \ {building.closure}
      /\ \A c \in DOMAIN closures \ {building.closure} : closures'[c] = closures[c]
  BY <1>1, AddUpvalueStays
<1>3. /\ Height = Len(stack) /\ Height \in Nat /\ Frame.slots + Frame.locals <= Height + 1
  BY <1>1, TopOfStack
<1> QED BY <1>1, <1>2, <1>3, StackStutters

(* What CaptureLocal does to the heap. *)
LEMMA CapturingLocal ==
  ASSUME VariablesOK, VariablesOK', frames # <<>>, NEW i \in Nameable, CaptureLocal(i),
         NEW p, p = Position(i), NEW u, u = UpvalueOf(p)
  PROVE  /\ PlacedOK /\ PlacedOK' /\ building # NotBuilding /\ AddUpvalue(u)
         /\ i \in 0 .. Frame.locals - 1 /\ i \in Nat
         /\ p = Frame.slots + i /\ p \in Nat \ {0} /\ p \in 1 .. Len(stack)
         /\ DOMAIN upvalues' = DOMAIN upvalues \cup {u}
         /\ \A w \in DOMAIN upvalues : upvalues'[w] = upvalues[w]
         /\ u \in DOMAIN upvalues => upvalues[u].at = p
         /\ u \notin DOMAIN upvalues =>
              /\ upvalues'[u].at = p
              /\ \A w \in DOMAIN upvalues : upvalues[w].at # p
<1>1. /\ PlacedOK /\ PlacedOK' /\ building # NotBuilding /\ AddUpvalue(u)
      /\ upvalues' = [w \in DOMAIN upvalues \cup {u} |->
                        IF w \in DOMAIN upvalues THEN upvalues[w] ELSE newUpvalue(p)]
  BY DEF VariablesOK, CaptureLocal
<1>2. i \in 0 .. Frame.locals - 1
  BY DEF Nameable, Locals
<1>3. /\ Frame.slots \in Nat \ {0} /\ Frame.locals \in Nat \ {0} /\ Height = Len(stack) /\ Height \in Nat
      /\ Frame.slots + Frame.locals <= Height + 1
  BY <1>1, TopOfStack
<1>4. p = Frame.slots + i
  BY DEF Position
<1>5. i \in Nat /\ p \in Nat \ {0} /\ p \in 1 .. Len(stack)
  BY <1>2, <1>3, <1>4
<1>6. /\ DOMAIN upvalues' = DOMAIN upvalues \cup {u}
      /\ \A w \in DOMAIN upvalues : upvalues'[w] = upvalues[w]
      /\ u \notin DOMAIN upvalues => upvalues'[u] = newUpvalue(p)
  BY <1>1
<1>7. u \notin DOMAIN upvalues => upvalues'[u].at = p
  BY <1>6 DEF newUpvalue
<1>8. /\ u \in DOMAIN upvalues => upvalues[u].at = p
      /\ u \notin DOMAIN upvalues => \A w \in DOMAIN upvalues : upvalues[w].at # p
  BY <1>1, <1>5, CaptureLocalFacts
<1> QED BY <1>1, <1>2, <1>4, <1>5, <1>6, <1>7, <1>8

LEMMA CapturingKeeps ==
  ASSUME VariablesOK, VariablesOK', frames # <<>>, NEW i \in Nameable, CaptureLocal(i),
         NEW p, p = Position(i), NEW u, u = UpvalueOf(p),
         NEW h \in Nat, h <= p \/ u \in DOMAIN upvalues
  PROVE  KeptBelow(upvalues, stack, upvalues', stack', h)
<1>1. /\ PlacedOK /\ building # NotBuilding /\ AddUpvalue(u) /\ p \in Nat \ {0}
      /\ DOMAIN upvalues' = DOMAIN upvalues \cup {u}
      /\ \A w \in DOMAIN upvalues : upvalues'[w] = upvalues[w]
      /\ u \notin DOMAIN upvalues => upvalues'[u].at = p
  BY CapturingLocal
<1>2. stack' = stack
  BY <1>1, AddUpvalueStays
<1>3. ASSUME NEW q \in Nat \ {0}, q < h, NEW w
      PROVE  (w \in DOMAIN upvalues /\ upvalues[w].at = q) <=> (w \in DOMAIN upvalues' /\ upvalues'[w].at = q)
  <2>1. CASE w \in DOMAIN upvalues
    BY <1>1, <2>1
  <2>2. CASE w \notin DOMAIN upvalues
    <3>1. w \in DOMAIN upvalues' => w = u /\ upvalues'[u].at = p /\ p # q
      BY <1>1, <1>3, <2>2
    <3> QED BY <2>2, <3>1
  <2> QED BY <2>1, <2>2
<1>4. \A w \in DOMAIN upvalues : Read(upvalues', stack', w) = Read(upvalues, stack, w)
  BY <1>1, <1>2 DEF Read
<1> QED BY <1>2, <1>3, <1>4 DEF KeptBelow

(* It has an upvalue, or is the local of the function being made. *)
LEMMA CaptureLocalStutters ==
  ASSUME VariablesOK, VariablesOK', frames # <<>>, NEW i \in Nameable, CaptureLocal(i),
         NEW p, p = Position(i), NEW u, u = UpvalueOf(p),
         u \in DOMAIN upvalues \/ ~ Scoped(frames, building.named, p)
  PROVE  UNCHANGED L!vars
<1>1. /\ PlacedOK /\ PlacedOK' /\ building # NotBuilding /\ AddUpvalue(u)
      /\ p \in Nat \ {0} /\ p \in 1 .. Len(stack) /\ i \in 0 .. Frame.locals - 1 /\ p = Frame.slots + i
  BY CapturingLocal
<1>2. /\ UNCHANGED <<stack, frames, building>>
      /\ DOMAIN closures' \ {building'.closure} = DOMAIN closures \ {building.closure}
      /\ \A c \in DOMAIN closures \ {building.closure} : closures'[c] = closures[c]
  BY <1>1, AddUpvalueStays
<1>3. /\ Sound(stack, frames, upvalues, closures) /\ Len(stack) \in Nat
      /\ Frame.slots \in Nat /\ Frame.locals \in Nat /\ Len(frames) \in 1 .. Len(frames)
  BY <1>1, StateFacts, TopOfStack
<1>4. ASSUME NEW q, Scoped(frames, building.named, q)
      PROVE  q \in 1 .. Len(stack) /\ q < Frame.slots + Frame.locals
  <2>1. Covered(frames, q)
    BY <1>3, <1>4, OpenBelow
  <2> QED BY <1>3, <2>1, OpenBelow DEF Frame
<1>5. ASSUME NEW h \in Nat, h <= p \/ u \in DOMAIN upvalues,
             \A q : Scoped(frames, building.named, q) => q < h
      PROVE  UNCHANGED L!vars
  <2>1. KeptBelow(upvalues, stack, upvalues', stack', h)
    BY <1>5, CapturingKeeps
  <2> QED BY <1>1, <1>2, <1>5, <2>1, Staying
<1>6. CASE u \in DOMAIN upvalues
  <2>1. Len(stack) + 1 \in Nat /\ \A q : Scoped(frames, building.named, q) => q < Len(stack) + 1
    BY <1>3, <1>4
  <2> QED BY <1>5, <1>6, <2>1
<1>7. CASE ~ Scoped(frames, building.named, p)
  <2>1. PICK k \in Nat, l \in Nat : k = Frame.slots /\ l = Frame.locals
    BY <1>3
  <2>2. p \notin k .. k + Count(frames, building.named, Len(frames)) - 1
    BY <1>3, <1>7, <2>1 DEF Scoped, Frame
  <2>3. Count(frames, building.named, Len(frames)) \in {l - 1, l}
    BY <2>1 DEF Count, Frame
  <2>4. p >= k + l - 1
    BY <1>1, <2>1, <2>2, <2>3
  <2>5. ASSUME NEW q, Scoped(frames, building.named, q)
        PROVE  q < p
    <3>1. q \in Nat /\ q < k + l /\ q # p
      BY <1>3, <1>4, <1>7, <2>1, <2>5
    <3> QED BY <1>1, <2>1, <2>4, <3>1
  <2> QED BY <1>1, <1>5, <2>5
<1> QED BY <1>6, <1>7

Moved(cells, x, y) == [j \in DOMAIN cells |-> IF cells[j] = x THEN y ELSE cells[j]]

LEMMA MovedCells ==
  ASSUME NEW fs, NEW us, NEW new, NEW named, NEW h \in Nat, Fit(fs, h),
         Single(us), Single(new), NEW p \in Nat \ {0}, NEW u \in DOMAIN new, new[u].at = p,
         \A w \in DOMAIN us : us[w].at # p,
         \A q \in Nat \ {0} : q # p => CellOf(new, q) = CellOf(us, q)
  PROVE  EnvOf(fs, new, named) =
           [i \in DOMAIN EnvOf(fs, us, named) |->
              [EnvOf(fs, us, named)[i] EXCEPT !.cells = Moved(@, <<"slot", p>>, <<"upvalue", u>>)]]
<1>1. PICK e, e2 : e = EnvOf(fs, us, named) /\ e2 = EnvOf(fs, new, named)
  OBVIOUS
<1>2. EnvShaped(e, fs, us, named) /\ EnvShaped(e2, fs, new, named)
  BY <1>1, EnvShape
<1>3. PICK x, y : x = <<"slot", p>> /\ y = <<"upvalue", u>>
  OBVIOUS
<1>4. CellOf(us, p) = x /\ CellOf(new, p) = y
  BY <1>3, CellFacts
<1>5. ASSUME NEW q \in Nat \ {0}
      PROVE  CellOf(new, q) = IF CellOf(us, q) = x THEN y ELSE CellOf(us, q)
  <2>1. q # p => CellOf(us, q) # x
    BY <1>4, CellsDiffer
  <2> QED BY <1>4, <2>1
<1>6. ASSUME NEW i \in 1 .. Len(fs)
      PROVE  e2[i] = [e[i] EXCEPT !.cells = Moved(@, x, y)]
  <2>1. PICK n \in Nat, k \in Nat \ {0} : n = Count(fs, named, i) /\ k = fs[i].slots
    BY SoundFrames
  <2>2. PICK a, b : a = e[i].cells /\ b = e2[i].cells
    OBVIOUS
  <2>3. /\ DOMAIN a = 1 .. n /\ \A j \in 1 .. n : a[j] = CellOf(us, k + j - 1)
        /\ DOMAIN b = 1 .. n /\ \A j \in 1 .. n : b[j] = CellOf(new, k + j - 1)
        /\ b = [j \in 1 .. n |-> b[j]]
        /\ e[i] = [closure |-> fs[i].closure, cells |-> a]
        /\ e2[i] = [closure |-> fs[i].closure, cells |-> b]
    <3>1. PICK S : b \in Seq(S) /\ Len(b) = n
      BY <1>2, <2>1, <2>2 DEF EnvShaped
    <3>2. b = [j \in 1 .. n |-> b[j]]
      BY <3>1
    <3> QED BY <1>2, <2>1, <2>2, <3>2 DEF EnvShaped
  <2>4. ASSUME NEW j \in 1 .. n
        PROVE  b[j] = IF a[j] = x THEN y ELSE a[j]
    <3>1. k + j - 1 \in Nat \ {0}
      OBVIOUS
    <3> QED BY <1>5, <2>3, <3>1
  <2>5. b = Moved(a, x, y)
    BY <2>3, <2>4 DEF Moved
  <2>6. PICK r, r2 : r = e[i] /\ r2 = e2[i]
    OBVIOUS
  <2>7. PICK c, m : c = fs[i].closure /\ m = Moved(a, x, y)
    OBVIOUS
  <2>8. r = [closure |-> c, cells |-> a] /\ r2 = [closure |-> c, cells |-> m]
    BY <2>3, <2>5, <2>6, <2>7
  <2>9. r.cells = a /\ r2 = [r EXCEPT !.cells = m]
    BY <2>8
  <2> QED BY <2>6, <2>7, <2>9
<1>7. DOMAIN e = 1 .. Len(fs) /\ e2 = [i \in 1 .. Len(fs) |-> e2[i]]
  <2>1. e2 \in Seq({e2[i] : i \in 1 .. Len(fs)}) /\ Len(e2) = Len(fs) /\ DOMAIN e = 1 .. Len(fs)
    BY <1>2 DEF EnvShaped
  <2> QED BY <2>1
<1>8. e2 = [i \in DOMAIN e |-> [e[i] EXCEPT !.cells = Moved(@, x, y)]]
  BY <1>6, <1>7
<1> QED BY <1>1, <1>3, <1>8

LEMMA TopScoped ==
  ASSUME NEW fs, NEW h \in Nat, Fit(fs, h), NEW named, NEW p, Scoped(fs, named, p),
         fs[Len(fs)].slots <= p
  PROVE  p \in fs[Len(fs)].slots .. fs[Len(fs)].slots + Count(fs, named, Len(fs)) - 1
<1>1. PICK j \in 1 .. Len(fs) : p \in fs[j].slots .. fs[j].slots + Count(fs, named, j) - 1
  BY DEF Scoped
<1>2. CASE j = Len(fs)
  BY <1>1, <1>2
<1>3. CASE j # Len(fs)
  <2>1. p < fs[Len(fs)].slots
    BY <1>1, <1>3, ScopedBelow, Zenon
  <2>2. p \in Nat /\ fs[Len(fs)].slots \in Nat
    <3>1. Len(fs) \in Nat /\ Len(fs) \in 1 .. Len(fs) /\ fs[j].slots \in Nat
      BY SoundFrames
    <3>2. Count(fs, named, j) \in Nat /\ fs[Len(fs)].slots \in Nat
      BY <3>1, SoundFrames
    <3> QED BY <1>1, <3>1, <3>2
  <2> QED BY <2>1, <2>2
<1> QED BY <1>2, <1>3

LEMMA VisibleLocal ==
  ASSUME PlacedOK, frames # <<>>, NEW p, Scoped(frames, building.named, p), Frame.slots <= p
  PROVE  /\ Environments # <<>> /\ Len(Environments) = Len(frames)
         /\ CellOf(upvalues, p) \in L!Visible
<1>1. /\ Sound(stack, frames, upvalues, closures) /\ Len(stack) \in Nat
      /\ Len(frames) \in 1 .. Len(frames)
  BY StateFacts, TopOfStack
<1>2. Fit(frames, Len(stack))
  BY <1>1 DEF Sound
<1>3. PICK e : e = Environments
  OBVIOUS
<1>4. EnvShaped(e, frames, upvalues, building.named)
  BY <1>1, <1>2, <1>3, Mapped, EnvShape
<1>5. Len(e) = Len(frames) /\ e # <<>>
  BY <1>1, <1>4 DEF EnvShaped
<1>6. p \in Frame.slots .. Frame.slots + Count(frames, building.named, Len(frames)) - 1
  BY <1>1, <1>2, TopScoped DEF Frame
<1>7. PICK n \in Nat, k \in Nat : n = Count(frames, building.named, Len(frames)) /\ k = Frame.slots
  BY <1>1, <1>2, SoundFrames DEF Frame
<1>8. PICK j \in 1 .. n : p = k + j - 1
  <2>1. p - k + 1 \in 1 .. n /\ p = k + (p - k + 1) - 1
    BY <1>6, <1>7
  <2> QED BY <2>1
<1>9. /\ DOMAIN e[Len(frames)].cells = 1 .. n
      /\ e[Len(frames)].cells[j] = CellOf(upvalues, p)
  BY <1>1, <1>4, <1>7, <1>8 DEF EnvShaped, Frame
<1>10. CellOf(upvalues, p) \in L!Elements(L!Top.cells)
  BY <1>3, <1>5, <1>8, <1>9 DEF L!Elements, L!Top
<1> QED BY <1>3, <1>5, <1>10 DEF L!Visible

LEMMA VisibleUpvalue ==
  ASSUME PlacedOK, frames # <<>>, Frame.closure # building.closure, NEW u \in Outer
  PROVE  /\ Environments # <<>>
         /\ <<"upvalue", u>> \in L!Visible
         /\ u \in DOMAIN upvalues
<1>1. /\ Sound(stack, frames, upvalues, closures) /\ Len(stack) \in Nat /\ MachineOK
      /\ Len(frames) \in 1 .. Len(frames)
  BY StateFacts, TopOfStack DEF PlacedOK, ListOK
<1>2. Fit(frames, Len(stack)) /\ \A c \in DOMAIN closures : closures[c] \in Seq(DOMAIN upvalues)
  BY <1>1 DEF Sound
<1>3. PICK e, k : e = Environments /\ k = CapturedCells
  OBVIOUS
<1>4. EnvShaped(e, frames, upvalues, building.named) /\ CapturedShaped(k, closures, building.closure)
  BY <1>1, <1>2, <1>3, Mapped, EnvShape, CapturedShape
<1>5. Len(e) = Len(frames) /\ e # <<>> /\ e[Len(frames)].closure = Frame.closure
  <2>1. Len(e) = Len(frames) /\ e # <<>>
    BY <1>1, <1>4 DEF EnvShaped
  <2>2. e[Len(frames)].closure = frames[Len(frames)].closure
    BY <1>1, <1>4, Zenon DEF EnvShaped
  <2> QED BY <2>1, <2>2 DEF Frame
<1>6. PICK c : c = Frame.closure
  OBVIOUS
<1>7. c # Script /\ c \in DOMAIN closures \ {building.closure} /\ u \in Elements(closures[c])
  BY <1>1, <1>6 DEF Outer, MachineOK, HeapOK, Frame
<1>8. <<"upvalue", u>> \in Elements(k[c])
  BY <1>4, <1>7 DEF CapturedShaped
<1>9. <<"upvalue", u>> \in L!Elements(k[c])
  BY <1>8 DEF L!Elements, Elements
<1>10. u \in DOMAIN upvalues
  BY <1>2, <1>7, ElementsOfSeq
<1>11. L!Top.closure = c
  BY <1>3, <1>5, <1>6 DEF L!Top
<1> QED BY <1>3, <1>5, <1>7, <1>9, <1>10, <1>11 DEF L!Visible

LEMMA CaptureLocalMoves ==
  ASSUME VariablesOK, VariablesOK', frames # <<>>, NEW i \in Nameable, CaptureLocal(i),
         NEW p, p = Position(i), NEW u, u = UpvalueOf(p),
         u \notin DOMAIN upvalues, Scoped(frames, building.named, p)
  PROVE  L!Next
<1>1. /\ PlacedOK /\ PlacedOK' /\ building # NotBuilding /\ AddUpvalue(u)
      /\ p \in Nat \ {0} /\ p \in 1 .. Len(stack) /\ i \in 0 .. Frame.locals - 1 /\ p = Frame.slots + i
      /\ DOMAIN upvalues' = DOMAIN upvalues \cup {u} /\ upvalues'[u].at = p
      /\ \A w \in DOMAIN upvalues : upvalues'[w] = upvalues[w] /\ upvalues[w].at # p
  BY CapturingLocal
<1>2. /\ UNCHANGED <<stack, frames, building>>
      /\ DOMAIN closures' \ {building'.closure} = DOMAIN closures \ {building.closure}
      /\ \A c \in DOMAIN closures \ {building.closure} : closures'[c] = closures[c]
  BY <1>1, AddUpvalueStays
<1>3. /\ Sound(stack, frames, upvalues, closures) /\ Sound(stack', frames', upvalues', closures')
      /\ Len(stack) \in Nat
      /\ Frame.slots \in Nat /\ Frame.locals \in Nat /\ Len(frames) \in 1 .. Len(frames)
  BY <1>1, StateFacts, NextFacts, TopOfStack
<1>4. /\ Fit(frames, Len(stack)) /\ Single(upvalues) /\ Single(upvalues')
      /\ \A c \in DOMAIN closures : closures[c] \in Seq(DOMAIN upvalues)
  BY <1>3 DEF Sound
<1>5. PICK x, y : x = <<"slot", p>> /\ y = <<"upvalue", u>>
  OBVIOUS
<1>6. CellOf(upvalues, p) = x /\ CellOf(upvalues', p) = y
  <2>1. u \in DOMAIN upvalues'
    BY <1>1
  <2>2. CellOf(upvalues, p) = <<"slot", p>>
    BY <1>1, <1>4, CellFacts
  <2>3. CellOf(upvalues', p) = <<"upvalue", u>>
    BY <1>1, <1>4, <2>1, CellFacts
  <2> QED BY <1>5, <2>2, <2>3
<1>7. ASSUME NEW q \in Nat \ {0}, q # p
      PROVE  CellOf(upvalues', q) = CellOf(upvalues, q)
  <2>1. \A w : (w \in DOMAIN upvalues /\ upvalues[w].at = q)
                  <=> (w \in DOMAIN upvalues' /\ upvalues'[w].at = q)
    BY <1>1, <1>7
  <2> QED BY <2>1, SameCells
<1>8. Environments' =
        [j \in DOMAIN Environments |-> [Environments[j] EXCEPT !.cells = Moved(@, x, y)]]
  <2>1. Environments = EnvOf(frames, upvalues, building.named)
        /\ Environments' = EnvOf(frames, upvalues', building.named)
    BY <1>2, Mapped, MappedNext
  <2>2. u \in DOMAIN upvalues'
    BY <1>1
  <2> QED BY <1>1, <1>3, <1>4, <1>5, <1>7, <2>1, <2>2, MovedCells
<1>9. CapturedCells' = [c \in DOMAIN CapturedCells |-> Moved(CapturedCells[c], x, y)]
  <2>1. PICK k, k2 : k = CapturedCells /\ k2 = CapturedCells'
    OBVIOUS
  <2>2. k2 = k
    BY <1>2, <2>1, Mapped, MappedNext DEF CapturedOf
  <2>3. CapturedShaped(k, closures, building.closure)
    BY <1>4, <2>1, Mapped, CapturedShape
  <2>4. ASSUME NEW c \in DOMAIN k
        PROVE  Moved(k[c], x, y) = k[c]
    <3>1. PICK s, cells : s = closures[c] /\ cells = k[c]
      OBVIOUS
    <3>2. cells = [j \in 1 .. Len(s) |-> <<"upvalue", s[j]>>]
      BY <2>3, <3>1 DEF CapturedShaped
    <3>3. \A j \in DOMAIN cells : cells[j] # x
      BY <1>5, <3>2, CellNames
    <3>4. cells = [j \in DOMAIN cells |-> cells[j]]
      BY <3>2
    <3>5. Moved(cells, x, y) = cells
      BY <3>3, <3>4 DEF Moved
    <3> QED BY <3>1, <3>5
  <2>5. k = [c \in DOMAIN k |-> k[c]]
    BY <2>1 DEF CapturedCells
  <2> QED BY <2>1, <2>2, <2>4, <2>5
<1>10. x \in Used /\ y \notin Used /\ y \in Used'
  <2>1. x \in Used
    BY <1>1, <1>6 DEF Used, InUseBy
  <2>2. y \in Used'
    BY <1>1, <1>2, <1>6 DEF Used, InUseBy
  <2>3. ASSUME y \in Used
        PROVE  FALSE
    <3>1. \/ \E q \in Nat : Scoped(frames, building.named, q) /\ y = CellOf(upvalues, q)
          \/ \E w \in UNION {Elements(closures[c]) : c \in DOMAIN closures \ {building.closure}} :
               y = <<"upvalue", w>>
      BY <2>3 DEF Used, InUseBy
    <3>2. ASSUME NEW q \in Nat, Scoped(frames, building.named, q), y = CellOf(upvalues, q)
          PROVE  FALSE
      <4>1. q \in 1 .. Len(stack)
        BY <1>3, <3>2, OpenBelow
      <4>2. \/ y = <<"slot", q>>
            \/ \E w \in DOMAIN upvalues : upvalues[w].at = q /\ y = <<"upvalue", w>>
        BY <1>3, <1>4, <3>2, <4>1, CellFacts
      <4> QED BY <1>5, <4>2, CellNames
    <3>3. ASSUME NEW c \in DOMAIN closures \ {building.closure}, NEW w \in Elements(closures[c]),
                 y = <<"upvalue", w>>
          PROVE  FALSE
      <4>1. w \in DOMAIN upvalues
        BY <1>4, ElementsOfSeq
      <4> QED BY <1>5, <3>3, <4>1, CellNames
    <3> QED BY <3>1, <3>2, <3>3
  <2> QED BY <2>1, <2>2, <2>3
<1>11. ASSUME NEW z \in Used', z # y
       PROVE  z \in Used /\ Value(upvalues', stack', z) = Value(upvalues, stack, z)
  <2>1. \/ \E q \in Nat : Scoped(frames, building.named, q) /\ z = CellOf(upvalues', q)
        \/ \E w \in UNION {Elements(closures'[c]) : c \in DOMAIN closures' \ {building'.closure}} :
             z = <<"upvalue", w>>
    BY <1>2 DEF Used, InUseBy
  <2>2. ASSUME NEW w \in DOMAIN upvalues
        PROVE  Value(upvalues', stack', <<"upvalue", w>>) = Value(upvalues, stack, <<"upvalue", w>>)
    BY <1>1, <1>2 DEF Value, Read
  <2>3. ASSUME NEW q \in Nat, Scoped(frames, building.named, q), z = CellOf(upvalues', q)
        PROVE  z \in Used /\ Value(upvalues', stack', z) = Value(upvalues, stack, z)
    <3>1. q \in 1 .. Len(stack) /\ q # p /\ q \in Nat \ {0}
      BY <1>3, <1>6, <1>11, <2>3, OpenBelow
    <3>2. z = CellOf(upvalues, q)
      BY <1>7, <2>3, <3>1
    <3>3. z \in Used
      BY <2>3, <3>2 DEF Used, InUseBy
    <3>4. \/ z = <<"slot", q>>
          \/ \E w \in DOMAIN upvalues : z = <<"upvalue", w>>
      BY <1>4, <3>1, <3>2, CellFacts
    <3>5. z = <<"slot", q>> => Value(upvalues', stack', z) = Value(upvalues, stack, z)
      BY <1>2 DEF Value
    <3> QED BY <2>2, <3>3, <3>4, <3>5
  <2>4. ASSUME NEW c \in DOMAIN closures' \ {building'.closure}, NEW w \in Elements(closures'[c]),
               z = <<"upvalue", w>>
        PROVE  z \in Used /\ Value(upvalues', stack', z) = Value(upvalues, stack, z)
    <3>1. c \in DOMAIN closures \ {building.closure} /\ w \in Elements(closures[c])
      BY <1>2
    <3>2. w \in DOMAIN upvalues
      BY <1>4, <3>1, ElementsOfSeq
    <3>3. z \in Used
      BY <2>4, <3>1 DEF Used, InUseBy
    <3> QED BY <2>2, <2>4, <3>2, <3>3
  <2> QED BY <2>1, <2>3, <2>4
<1>12. Value(upvalues', stack', y) = Value(upvalues, stack, x)
  <2>1. upvalues'[u].at = p /\ p # Closed /\ p <= Len(stack')
    BY <1>1, <1>2 DEF Closed
  <2>2. Read(upvalues', stack', u) = stack[p]
    BY <1>2, <2>1 DEF Read
  <2> QED BY <1>5, <2>2 DEF Value
<1>13. Contents' = [z \in Used' |-> IF z = y THEN Contents[x] ELSE Contents[z]]
  <2>1. PICK old, new, S, T : old = Contents /\ new = Contents' /\ S = Used /\ T = Used'
    OBVIOUS
  <2>2. /\ old = [z \in S |-> Value(upvalues, stack, z)]
        /\ new = [z \in T |-> Value(upvalues', stack', z)]
    BY <1>1, <2>1, UsedIs, Mapped, MappedNext
  <2>3. ASSUME NEW z \in T
        PROVE  new[z] = IF z = y THEN old[x] ELSE old[z]
    BY <1>10, <1>11, <1>12, <2>1, <2>2
  <2> QED BY <2>1, <2>2, <2>3
<1>14. L!Move(x, y)
  <2>1. L!Used' = Used'
    BY <1>1, UsedIs
  <2> QED BY <1>8, <1>9, <1>13, <2>1 DEF L!Move, Moved
<1>15. Environments # <<>> /\ x \in L!Visible
  <2>1. Frame.slots <= p
    BY <1>1, <1>3
  <2> QED BY <1>1, <1>6, <2>1, VisibleLocal
<1>16. y \in L!Used' \ L!Used
  BY <1>1, <1>10, UsedIs
<1> QED BY <1>14, <1>15, <1>16 DEF L!Next

----------------------------------------------------------------------------
(* Assignments. *)

LEMMA UsedForms ==
  ASSUME PlacedOK, NEW z \in Used
  PROVE  /\ \/ \E q \in 1 .. Len(stack) : z = <<"slot", q>> /\ CellOf(upvalues, q) = z
            \/ \E w \in DOMAIN upvalues : z = <<"upvalue", w>>
         /\ \A q : z = <<"slot", q>> => Scoped(frames, building.named, q)
<1>1. /\ Sound(stack, frames, upvalues, closures) /\ Len(stack) \in Nat /\ Single(upvalues)
      /\ \A c \in DOMAIN closures : closures[c] \in Seq(DOMAIN upvalues)
  BY StateFacts DEF Sound
<1>2. \/ \E q \in Nat : Scoped(frames, building.named, q) /\ z = CellOf(upvalues, q)
      \/ \E w \in UNION {Elements(closures[c]) : c \in DOMAIN closures \ {building.closure}} :
           z = <<"upvalue", w>>
  BY DEF Used, InUseBy
<1>3. ASSUME NEW q \in Nat, Scoped(frames, building.named, q), z = CellOf(upvalues, q)
      PROVE  /\ q \in 1 .. Len(stack)
             /\ z = <<"slot", q>> \/ \E w \in DOMAIN upvalues : z = <<"upvalue", w>>
  <2>1. q \in 1 .. Len(stack) /\ q \in Nat \ {0}
    BY <1>1, <1>3, OpenBelow
  <2>2. \/ CellOf(upvalues, q) = <<"slot", q>>
        \/ \E w \in DOMAIN upvalues : CellOf(upvalues, q) = <<"upvalue", w>>
    BY <1>1, <2>1, CellFacts
  <2> QED BY <1>3, <2>1, <2>2
<1>4. ASSUME NEW c \in DOMAIN closures \ {building.closure}, NEW w \in Elements(closures[c])
      PROVE  w \in DOMAIN upvalues
  BY <1>1, ElementsOfSeq
<1>5. ASSUME NEW q, z = <<"slot", q>>
      PROVE  Scoped(frames, building.named, q)
  <2>1. \A w : z # <<"upvalue", w>>
    BY <1>5, CellNames
  <2>2. PICK r \in Nat : Scoped(frames, building.named, r) /\ z = CellOf(upvalues, r)
    BY <1>2, <2>1
  <2>3. z = <<"slot", r>>
    BY <1>3, <2>1, <2>2
  <2>4. r = q
    BY <1>5, <2>3, CellNames
  <2> QED BY <2>2, <2>4
<1> QED BY <1>2, <1>3, <1>4, <1>5

LEMMA Assigning ==
  ASSUME PlacedOK, PlacedOK', UNCHANGED <<frames, closures, building>>,
         DOMAIN upvalues' = DOMAIN upvalues,
         \A u \in DOMAIN upvalues : upvalues'[u].at = upvalues[u].at,
         NEW x, Environments # <<>>, x \in L!Visible,
         \A z \in Used \ {x} : Value(upvalues', stack', z) = Value(upvalues, stack, z)
  PROVE  L!Next
<1>1. ASSUME NEW p
      PROVE  CellOf(upvalues', p) = CellOf(upvalues, p)
  BY SameCells
<1>2. PICK us, us2 : us = upvalues /\ us2 = upvalues'
  OBVIOUS
<1>3. EnvOf(frames, us2, building.named) = EnvOf(frames, us, building.named)
  BY <1>1, <1>2 DEF EnvOf
<1>4. Environments' = Environments
  BY <1>2, <1>3, Mapped, MappedNext
<1>5. CapturedCells' = CapturedCells
  BY Mapped, MappedNext
<1>6. Used' = Used
  BY <1>4, <1>5, UsedIs, Mapped, MappedNext
<1>7. L!StoreKeepsBut({x})
  BY <1>6, StoreKept
<1>8. L!Assign(x)
  BY <1>4, <1>5, <1>7 DEF L!Assign
<1> QED BY <1>8 DEF L!Next

(* An assignment to a slot is one to its variable. *)
LEMMA SlotAssigned ==
  ASSUME PlacedOK, PlacedOK', UNCHANGED <<frames, closures, building, upvalues>>,
         NEW a \in 1 .. Len(stack), NEW v, stack' = [stack EXCEPT ![a] = v],
         Environments # <<>>, CellOf(upvalues, a) \in L!Visible
  PROVE  L!Next
<1>1. PICK x : x = CellOf(upvalues, a)
  OBVIOUS
<1>2. stack \in Seq(Values) /\ Len(stack) \in Nat /\ Single(upvalues)
      /\ \A u \in DOMAIN upvalues : upvalues[u].at \in Nat
  BY StateFacts DEF Sound, Upvalues
<1>3. Len(stack') = Len(stack) /\ \A q \in 1 .. Len(stack) : q # a => stack'[q] = stack[q]
  BY <1>2
<1>4. ASSUME NEW z \in Used, z # x
      PROVE  Value(upvalues', stack', z) = Value(upvalues, stack, z)
  <2>1. ASSUME NEW q \in 1 .. Len(stack), z = <<"slot", q>>, CellOf(upvalues, q) = z
        PROVE  Value(upvalues', stack', z) = Value(upvalues, stack, z)
    <3>1. stack'[q] = stack[q]
      BY <1>1, <1>3, <1>4, <2>1
    <3> QED BY <2>1, <3>1 DEF Value
  <2>2. ASSUME NEW w \in DOMAIN upvalues, z = <<"upvalue", w>>
        PROVE  Value(upvalues', stack', z) = Value(upvalues, stack, z)
    <3>1. a \in Nat \ {0}
      BY <1>2
    <3>2. upvalues[w].at # a
      BY <1>1, <1>2, <1>4, <2>2, <3>1, CellFacts
    <3>3. Read(upvalues', stack', w) = Read(upvalues, stack, w)
      <4>1. CASE upvalues[w].at = Closed
        BY <4>1 DEF Read
      <4>2. CASE upvalues[w].at # Closed
        <5>1. PICK q \in Nat \ {0} : q = upvalues[w].at
          BY <1>2, <4>2 DEF Closed
        <5>2. q <= Len(stack) => stack'[q] = stack[q]
          BY <1>2, <1>3, <3>2, <5>1
        <5> QED BY <1>3, <5>1, <5>2 DEF Read
      <4> QED BY <4>1, <4>2
    <3> QED BY <2>2, <3>3 DEF Value
  <2> QED BY <2>1, <2>2, UsedForms
<1> QED BY <1>1, <1>4, Assigning

LEMMA NameableSlot ==
  ASSUME PlacedOK, Running, NEW i \in Nameable, NEW p, p = Position(i)
  PROVE  /\ p \in 1 .. Len(stack) /\ Frame.slots <= p /\ Scoped(frames, building.named, p)
         /\ p < Frame.slots + Frame.locals
<1>1. frames # <<>> /\ building.named = FALSE
  BY Stepping
<1>2. /\ Height = Len(stack) /\ Height \in Nat /\ Len(frames) \in 1 .. Len(frames)
      /\ Frame.slots \in Nat \ {0} /\ Frame.locals \in Nat \ {0}
      /\ Frame.slots + Frame.locals <= Height + 1
  BY <1>1, TopOfStack
<1>3. PICK h \in Nat, k \in Nat \ {0}, l \in Nat : h = Height /\ k = Frame.slots /\ l = Frame.locals
  BY <1>2
<1>4. i \in 0 .. l - 1 /\ p = k + i /\ k + l <= h + 1
  BY <1>2, <1>3 DEF Nameable, Locals, Position
<1>5. p \in k .. k + l - 1 /\ p \in 1 .. h
  BY <1>4
<1>6. Scoped(frames, building.named, p)
  BY <1>1, <1>2, <1>3, <1>5 DEF Scoped, Count, Frame
<1> QED BY <1>2, <1>3, <1>5, <1>6

LEMMA SetLocalAssigns ==
  ASSUME PlacedOK, PlacedOK', NEW i \in Nameable, SetLocal(i)
  PROVE  L!Next
<1>1. /\ Running /\ frames # <<>> /\ UNCHANGED <<frames, closures, building, upvalues>>
  BY DEF SetLocal, Running, heap
<1>2. PICK p, v : p = Position(i) /\ v = stack[Height]
  OBVIOUS
<1>3. stack' = [stack EXCEPT ![p] = v]
  BY <1>2 DEF SetLocal
<1>4. p \in 1 .. Len(stack) /\ Frame.slots <= p /\ Scoped(frames, building.named, p)
  BY <1>1, <1>2, NameableSlot
<1>5. Environments # <<>> /\ CellOf(upvalues, p) \in L!Visible
  BY <1>1, <1>4, VisibleLocal
<1> QED BY <1>1, <1>3, <1>4, <1>5, SlotAssigned

LEMMA SetUpvalueAssigns ==
  ASSUME PlacedOK, PlacedOK', NEW u \in Outer, SetUpvalue(u)
  PROVE  L!Next
<1>1. /\ Running /\ frames # <<>> /\ building.closure = Script
      /\ UNCHANGED <<frames, closures, building>>
  BY Stepping DEF SetUpvalue
<1>2. Frame.closure # building.closure
  BY <1>1 DEF Outer
<1>3. PICK x : x = <<"upvalue", u>>
  OBVIOUS
<1>4. Environments # <<>> /\ x \in L!Visible /\ u \in DOMAIN upvalues
  BY <1>1, <1>2, <1>3, VisibleUpvalue
<1>5. /\ Single(upvalues) /\ \A w \in DOMAIN upvalues : upvalues[w] \in Upvalues
      /\ Sound(stack, frames, upvalues, closures)
  BY StateFacts DEF Sound
<1>6. CASE IsOpen(u)
  <2>1. PICK a, v : a = upvalues[u].at /\ v = stack[Height]
    OBVIOUS
  <2>2. stack' = [stack EXCEPT ![a] = v] /\ upvalues' = upvalues
    BY <1>6, <2>1 DEF SetUpvalue
  <2>3. a \in 1 .. Len(stack) /\ a \in Nat \ {0}
    BY <1>4, <1>5, <1>6, <2>1, OpenBelow DEF IsOpen
  <2>4. CellOf(upvalues, a) = x
    BY <1>3, <1>4, <1>5, <2>1, <2>3, CellFacts
  <2> QED BY <1>1, <1>4, <2>2, <2>3, <2>4, SlotAssigned
<1>7. CASE ~ IsOpen(u)
  <2>1. PICK v : v = stack[Height]
    OBVIOUS
  <2>2. upvalues' = [upvalues EXCEPT ![u].closed = v] /\ stack' = stack
    BY <1>7, <2>1 DEF SetUpvalue
  <2>3. /\ DOMAIN upvalues' = DOMAIN upvalues
        /\ \A w \in DOMAIN upvalues : w # u => upvalues'[w] = upvalues[w]
        /\ upvalues'[u].at = upvalues[u].at
    BY <1>4, <1>5, <2>2 DEF Upvalues
  <2>4. ASSUME NEW z \in Used, z # x
        PROVE  Value(upvalues', stack', z) = Value(upvalues, stack, z)
    <3>1. ASSUME NEW q \in 1 .. Len(stack), z = <<"slot", q>>
          PROVE  Value(upvalues', stack', z) = Value(upvalues, stack, z)
      BY <2>2, <3>1 DEF Value
    <3>2. ASSUME NEW w \in DOMAIN upvalues, z = <<"upvalue", w>>
          PROVE  Value(upvalues', stack', z) = Value(upvalues, stack, z)
      <4>1. w # u
        BY <1>3, <2>4, <3>2
      <4>2. Read(upvalues', stack', w) = Read(upvalues, stack, w)
        BY <2>2, <2>3, <4>1 DEF Read
      <4> QED BY <3>2, <4>2 DEF Value
    <3> QED BY <3>1, <3>2, UsedForms
  <2>5. \A w \in DOMAIN upvalues : upvalues'[w].at = upvalues[w].at
    BY <2>3
  <2> QED BY <1>1, <1>4, <2>3, <2>4, <2>5, Assigning
<1> QED BY <1>6, <1>7

----------------------------------------------------------------------------
(* The running activation gains or loses locals, or activations start or end. *)

Tuple(s, n) == Len(s) = n /\ s = [i \in 1 .. n |-> s[i]]
Runs(r, c, cells) == r = [closure |-> c, cells |-> cells]
EnvSeq(e, fs, us, named) ==
  /\ Len(fs) \in Nat /\ DOMAIN e = 1 .. Len(fs) /\ Tuple(e, Len(fs))
  /\ \A i \in 1 .. Len(fs) :
       /\ Runs(e[i], fs[i].closure, e[i].cells)
       /\ Count(fs, named, i) \in Nat /\ fs[i].slots \in Nat
       /\ Tuple(e[i].cells, Count(fs, named, i))
       /\ \A j \in 1 .. Count(fs, named, i) : e[i].cells[j] = CellOf(us, fs[i].slots + j - 1)

LEMMA EnvIsSeq ==
  ASSUME NEW fs, NEW us, NEW named, NEW h \in Nat, Fit(fs, h)
  PROVE  EnvSeq(EnvOf(fs, us, named), fs, us, named)
<1> SUFFICES ASSUME NEW e, EnvShaped(e, fs, us, named)
             PROVE  EnvSeq(e, fs, us, named)
  BY EnvShape
<1>0. EnvShaped(e, fs, us, named)
  OBVIOUS
<1>1. /\ Len(fs) \in Nat
      /\ \A i \in 1 .. Len(fs) : Count(fs, named, i) \in Nat /\ fs[i].slots \in Nat
  BY SoundFrames
<1>2. PICK S : e \in Seq(S) /\ Len(e) = Len(fs) /\ DOMAIN e = 1 .. Len(fs)
  BY <1>0 DEF EnvShaped
<1>3. e = [i \in 1 .. Len(fs) |-> e[i]]
  BY <1>2
<1>4. ASSUME NEW i \in 1 .. Len(fs)
      PROVE  e[i].cells = [j \in 1 .. Count(fs, named, i) |-> e[i].cells[j]]
  <2>1. PICK S2, s, n : s \in Seq(S2) /\ s = e[i].cells /\ Len(s) = n /\ n = Count(fs, named, i)
    BY <1>0 DEF EnvShaped
  <2>2. s = [j \in 1 .. n |-> s[j]]
    BY <2>1
  <2> QED BY <2>1, <2>2
<1>5. \A i \in 1 .. Len(fs) :
        /\ e[i] = [closure |-> fs[i].closure, cells |-> e[i].cells]
        /\ Len(e[i].cells) = Count(fs, named, i)
        /\ \A j \in 1 .. Count(fs, named, i) : e[i].cells[j] = CellOf(us, fs[i].slots + j - 1)
  BY <1>0 DEF EnvShaped
<1> QED BY <1>1, <1>2, <1>3, <1>4, <1>5, Zenon DEF EnvSeq, Tuple, Runs

LEMMA SameRuns ==
  ASSUME NEW e, NEW fs, NEW us, NEW named, EnvSeq(e, fs, us, named),
         NEW e2, NEW fs2, NEW us2, NEW named2, EnvSeq(e2, fs2, us2, named2),
         NEW i \in 1 .. Len(fs), i \in 1 .. Len(fs2),
         SameActivation(fs, us, named, fs2, us2, named2, i)
  PROVE  e2[i] = e[i]
<1>1. PICK n \in Nat, s \in Nat : /\ n = Count(fs, named, i) /\ s = fs[i].slots
                                 /\ n = Count(fs2, named2, i) /\ s = fs2[i].slots
  BY DEF EnvSeq, SameActivation
<1>2. PICK a, b, c : a = e[i].cells /\ b = e2[i].cells /\ c = fs[i].closure /\ c = fs2[i].closure
  BY DEF SameActivation
<1>3. /\ Tuple(a, n) /\ Runs(e[i], c, a) /\ \A j \in 1 .. n : a[j] = CellOf(us, s + j - 1)
  BY <1>1, <1>2 DEF EnvSeq
<1>4. /\ Tuple(b, n) /\ Runs(e2[i], c, b) /\ \A j \in 1 .. n : b[j] = CellOf(us2, s + j - 1)
  BY <1>1, <1>2 DEF EnvSeq
<1>5. \A j \in 1 .. n : b[j] = a[j]
  <2> TAKE j \in 1 .. n
  <2>1. s + j - 1 \in s .. s + n - 1
    OBVIOUS
  <2>2. CellOf(us2, s + j - 1) = CellOf(us, s + j - 1)
    BY <1>1, <2>1 DEF SameActivation
  <2> QED BY <1>3, <1>4, <2>2
<1>6. a = b
  BY <1>3, <1>4, <1>5 DEF Tuple
<1> QED BY <1>3, <1>4, <1>6 DEF Runs

Holds(r, cells) == [r EXCEPT !.cells = cells]
WithCells(e, cells) == [e EXCEPT ![Len(e)].cells = cells]

LEMMA TopCells ==
  ASSUME NEW k \in Nat \ {0}, NEW e, NEW e2,
         Tuple(e, k), Tuple(e2, k),
         \A i \in 1 .. k : i # k => e2[i] = e[i],
         e2[k] = Holds(e[k], e2[k].cells)
  PROVE  e2 = WithCells(e, e2[k].cells)
<1>0. Len(e) = k /\ e = [i \in 1 .. k |-> e[i]] /\ e2 = [i \in 1 .. k |-> e2[i]]
  BY DEF Tuple
<1>1. DOMAIN e = 1 .. k /\ DOMAIN e2 = 1 .. k
  BY <1>0
<1>2. PICK r, r2, b : r = e[k] /\ r2 = e2[k] /\ b = e2[k].cells
  OBVIOUS
<1>3. r2 = [r EXCEPT !.cells = b]
  BY <1>2 DEF Holds
<1>4. \A i \in 1 .. k : e2[i] = IF i = k THEN r2 ELSE e[i]
  BY <1>2
<1>5. e2 = [e EXCEPT ![k] = r2]
  BY <1>0, <1>1, <1>4
<1> QED BY <1>0, <1>2, <1>3, <1>5 DEF WithCells

LEMMA CellsCut ==
  ASSUME NEW m \in Nat, NEW n \in Nat, n <= m, NEW a, NEW b,
         Tuple(a, m), Tuple(b, n),
         \A j \in 1 .. n : b[j] = a[j]
  PROVE  b = SubSeq(a, 1, n)
<1>1. PICK S : S = {a[j] : j \in 1 .. m}
  OBVIOUS
<1>2. a \in [1 .. m -> S] /\ Len(a) = m
  BY <1>1 DEF Tuple
<1>3. a \in Seq(S)
  BY <1>2, SeqDef
<1>4. PICK s : s = SubSeq(a, 1, n)
  OBVIOUS
<1>5. s \in Seq(S) /\ Len(s) = n /\ \A j \in 1 .. n : s[j] = a[j]
  BY <1>2, <1>3, <1>4, Cut
<1>6. s = [j \in 1 .. n |-> s[j]] /\ b = [j \in 1 .. n |-> b[j]]
  BY <1>5 DEF Tuple
<1>7. s = b
  BY <1>5, <1>6
<1> QED BY <1>4, <1>7

LEMMA CellsGrown ==
  ASSUME NEW m \in Nat, NEW a, NEW b, NEW x,
         Tuple(a, m), Tuple(b, m + 1),
         \A j \in 1 .. m : b[j] = a[j], b[m + 1] = x
  PROVE  b = Append(a, x)
<1>1. PICK S : S = {a[j] : j \in 1 .. m} \cup {x}
  OBVIOUS
<1>2. a \in [1 .. m -> S] /\ Len(a) = m
  BY <1>1 DEF Tuple
<1>3. a \in Seq(S) /\ x \in S
  BY <1>1, <1>2, SeqDef
<1>4. PICK s : s = Append(a, x)
  OBVIOUS
<1>5. s \in Seq(S) /\ Len(s) = m + 1 /\ s[m + 1] = x /\ \A j \in 1 .. m : s[j] = a[j]
  BY <1>2, <1>3, <1>4, AppendProperties
<1>6. s = [j \in 1 .. m + 1 |-> s[j]] /\ b = [j \in 1 .. m + 1 |-> b[j]]
  BY <1>5 DEF Tuple
<1>7. ASSUME NEW j \in 1 .. m + 1
      PROVE  s[j] = b[j]
  <2>1. j = m + 1 \/ j \in 1 .. m
    OBVIOUS
  <2> QED BY <1>5, <2>1
<1>8. s = b
  BY <1>6, <1>7
<1> QED BY <1>4, <1>8

(* The running activation has other locals. *)
OtherTop(fs, us, named, fs2, us2, named2) ==
  /\ fs # <<>> /\ Len(fs2) = Len(fs)
  /\ fs2[Len(fs)].closure = fs[Len(fs)].closure /\ fs2[Len(fs)].slots = fs[Len(fs)].slots
  /\ \A i \in 1 .. Len(fs) : i # Len(fs) => SameActivation(fs, us, named, fs2, us2, named2, i)

LEMMA EnvResized ==
  ASSUME NEW e, NEW fs, NEW us, NEW named, EnvSeq(e, fs, us, named), fs \in Seq(Activations),
         NEW e2, NEW fs2, NEW us2, NEW named2, EnvSeq(e2, fs2, us2, named2),
         OtherTop(fs, us, named, fs2, us2, named2)
  PROVE  /\ e # <<>> /\ e2 # <<>>
         /\ Len(e) = Len(fs) /\ Len(e2) = Len(fs)
         /\ e2 = [e EXCEPT ![Len(e)].cells = e2[Len(fs)].cells]
<1>1. EnvSeq(e, fs, us, named) /\ EnvSeq(e2, fs2, us2, named2)
  OBVIOUS
<1>2. /\ Len(e) = Len(fs) /\ Tuple(e, Len(fs)) /\ Len(fs) \in Nat
      /\ \A i \in 1 .. Len(fs) : Runs(e[i], fs[i].closure, e[i].cells)
  BY <1>1 DEF EnvSeq, Tuple
<1>3. Len(fs2) = Len(fs)
  BY DEF OtherTop
<1>4. /\ Len(e2) = Len(fs) /\ Tuple(e2, Len(fs))
      /\ \A i \in 1 .. Len(fs) : Runs(e2[i], fs2[i].closure, e2[i].cells)
  BY <1>1, <1>3 DEF EnvSeq, Tuple
<1>5. PICK k \in Nat \ {0} : k = Len(fs)
  <2>1. fs \in Seq(Activations) /\ fs # <<>>
    BY DEF OtherTop
  <2> QED BY <2>1
<1>6. \A i \in 1 .. k : i # k => e2[i] = e[i]
  <2> TAKE i \in 1 .. k
  <2> HAVE i # k
  <2>1. SameActivation(fs, us, named, fs2, us2, named2, i) /\ i \in 1 .. Len(fs2) /\ i \in 1 .. Len(fs)
    BY <1>3, <1>5 DEF OtherTop
  <2> QED BY <1>1, <2>1, SameRuns
<1>7. PICK c, a, b : c = fs[k].closure /\ a = e[k].cells /\ b = e2[k].cells
  OBVIOUS
<1>8. Runs(e[k], c, a) /\ Runs(e2[k], c, b)
  <2>1. fs2[k].closure = c /\ k \in 1 .. k
    BY <1>5, <1>7 DEF OtherTop
  <2> QED BY <1>2, <1>4, <1>5, <1>7, <2>1
<1>9. e2 = WithCells(e, e2[k].cells)
  <2>1. Tuple(e, k) /\ Tuple(e2, k)
    BY <1>2, <1>4, <1>5
  <2>2. e2[k] = Holds(e[k], b)
    BY <1>8 DEF Runs, Holds
  <2>3. e2[k] = Holds(e[k], e2[k].cells)
    BY <1>7, <2>2
  <2> QED BY <1>6, <2>1, <2>3, TopCells
<1>10. e # <<>> /\ e2 # <<>>
  BY <1>2, <1>4, <1>5
<1> QED BY <1>2, <1>4, <1>5, <1>7, <1>9, <1>10 DEF WithCells

LEMMA EnvCut ==
  ASSUME NEW e, NEW fs, NEW us, NEW named, EnvSeq(e, fs, us, named), fs \in Seq(Activations),
         NEW e2, NEW fs2, NEW us2, NEW named2, EnvSeq(e2, fs2, us2, named2),
         OtherTop(fs, us, named, fs2, us2, named2),
         NEW n, n = Count(fs2, named2, Len(fs)), n <= Count(fs, named, Len(fs)),
         \A p \in fs[Len(fs)].slots .. fs[Len(fs)].slots + n - 1 : CellOf(us2, p) = CellOf(us, p)
  PROVE  /\ e # <<>> /\ Len(e[Len(e)].cells) = Count(fs, named, Len(fs))
         /\ e2 = WithCells(e, SubSeq(e[Len(e)].cells, 1, n))
<1>1. EnvSeq(e, fs, us, named) /\ EnvSeq(e2, fs2, us2, named2)
  OBVIOUS
<1>2. /\ e # <<>> /\ Len(e) = Len(fs) /\ e2 = [e EXCEPT ![Len(e)].cells = e2[Len(fs)].cells]
  BY EnvResized
<1>3. PICK k \in Nat \ {0} : k = Len(fs) /\ k = Len(fs2) /\ k = Len(e) /\ k \in 1 .. k
  <2>1. fs \in Seq(Activations) /\ fs # <<>> /\ Len(fs2) = Len(fs)
    BY DEF OtherTop
  <2> QED BY <1>2, <2>1
<1>4. PICK m \in Nat, s \in Nat : m = Count(fs, named, k) /\ s = fs[k].slots
  <2>1. k \in 1 .. Len(fs)
    BY <1>3
  <2>2. Count(fs, named, k) \in Nat /\ fs[k].slots \in Nat
    BY <1>1, <2>1 DEF EnvSeq
  <2> QED BY <2>2
<1>5. n \in Nat /\ fs2[k].slots = s /\ n = Count(fs2, named2, k)
  BY <1>1, <1>3, <1>4 DEF OtherTop, EnvSeq
<1>6. PICK a, b : a = e[k].cells /\ b = e2[k].cells
  OBVIOUS
<1>7. /\ Tuple(a, m) /\ Len(a) = m
      /\ \A j \in 1 .. m : a[j] = CellOf(us, s + j - 1)
  <2>1. /\ Tuple(e[k].cells, Count(fs, named, k)) /\ Len(e[k].cells) = Count(fs, named, k)
        /\ \A j \in 1 .. Count(fs, named, k) : e[k].cells[j] = CellOf(us, fs[k].slots + j - 1)
    <3>1. k \in 1 .. Len(fs) /\ k \in 1 .. Len(fs2)
      BY <1>3
    <3> QED BY <1>1, <3>1 DEF EnvSeq, Tuple
  <2> QED BY <1>3, <1>4, <1>6, <2>1
<1>8. /\ Tuple(b, n)
      /\ \A j \in 1 .. n : b[j] = CellOf(us2, s + j - 1)
  <2>1. /\ Tuple(e2[k].cells, Count(fs2, named2, k)) /\ Len(e2[k].cells) = Count(fs2, named2, k)
        /\ \A j \in 1 .. Count(fs2, named2, k) : e2[k].cells[j] = CellOf(us2, fs2[k].slots + j - 1)
    <3>1. k \in 1 .. Len(fs) /\ k \in 1 .. Len(fs2)
      BY <1>3
    <3> QED BY <1>1, <3>1 DEF EnvSeq, Tuple
  <2> QED BY <1>3, <1>5, <1>6, <2>1
<1>9. \A j \in 1 .. n : b[j] = a[j]
  <2> TAKE j \in 1 .. n
  <2>1. j \in 1 .. m /\ s + j - 1 \in s .. s + n - 1
    BY <1>3, <1>4, <1>5
  <2>2. CellOf(us2, s + j - 1) = CellOf(us, s + j - 1)
    BY <1>3, <1>4, <2>1
  <2> QED BY <1>7, <1>8, <2>1, <2>2
<1>10. b = SubSeq(a, 1, n)
  <2>1. n <= m
    BY <1>3, <1>4
  <2> QED BY <1>5, <1>7, <1>8, <1>9, <2>1, CellsCut
<1>11. e2 = WithCells(e, b)
  BY <1>2, <1>3, <1>6 DEF WithCells
<1> QED BY <1>2, <1>3, <1>4, <1>6, <1>7, <1>10, <1>11

LEMMA EnvGrown ==
  ASSUME NEW e, NEW fs, NEW us, NEW named, EnvSeq(e, fs, us, named), fs \in Seq(Activations),
         NEW e2, NEW fs2, NEW us2, NEW named2, EnvSeq(e2, fs2, us2, named2),
         OtherTop(fs, us, named, fs2, us2, named2),
         NEW m, m = Count(fs, named, Len(fs)), Count(fs2, named2, Len(fs)) = m + 1,
         \A p \in fs[Len(fs)].slots .. fs[Len(fs)].slots + m - 1 : CellOf(us2, p) = CellOf(us, p),
         NEW x, x = CellOf(us2, fs[Len(fs)].slots + m)
  PROVE  /\ e # <<>> /\ e2 # <<>> /\ Len(e2) = Len(e)
         /\ Len(e2[Len(e)].cells) = Len(e[Len(e)].cells) + 1
         /\ e2[Len(e)].cells[Len(e[Len(e)].cells) + 1] = x
         /\ e2 = WithCells(e, Append(e[Len(e)].cells, x))
<1>1. EnvSeq(e, fs, us, named) /\ EnvSeq(e2, fs2, us2, named2)
  OBVIOUS
<1>2. /\ e # <<>> /\ e2 # <<>> /\ Len(e) = Len(fs) /\ Len(e2) = Len(fs)
      /\ e2 = [e EXCEPT ![Len(e)].cells = e2[Len(fs)].cells]
  BY EnvResized
<1>3. PICK k \in Nat \ {0} :
        k = Len(fs) /\ k = Len(fs2) /\ k = Len(e) /\ k = Len(e2) /\ k \in 1 .. k
  <2>1. fs \in Seq(Activations) /\ fs # <<>> /\ Len(fs2) = Len(fs)
    BY DEF OtherTop
  <2> QED BY <1>2, <2>1
<1>4. PICK s \in Nat : s = fs[k].slots /\ m \in Nat
  <2>1. k \in 1 .. Len(fs)
    BY <1>3
  <2>2. Count(fs, named, k) \in Nat /\ fs[k].slots \in Nat
    BY <1>1, <2>1 DEF EnvSeq
  <2> QED BY <1>3, <2>2
<1>5. fs2[k].slots = s /\ Count(fs2, named2, k) = m + 1 /\ m = Count(fs, named, k)
  BY <1>3, <1>4 DEF OtherTop
<1>6. PICK a, b : a = e[k].cells /\ b = e2[k].cells
  OBVIOUS
<1>7. /\ Tuple(a, m) /\ Len(a) = m
      /\ \A j \in 1 .. m : a[j] = CellOf(us, s + j - 1)
  <2>1. /\ Tuple(e[k].cells, Count(fs, named, k)) /\ Len(e[k].cells) = Count(fs, named, k)
        /\ \A j \in 1 .. Count(fs, named, k) : e[k].cells[j] = CellOf(us, fs[k].slots + j - 1)
    <3>1. k \in 1 .. Len(fs) /\ k \in 1 .. Len(fs2)
      BY <1>3
    <3> QED BY <1>1, <3>1 DEF EnvSeq, Tuple
  <2> QED BY <1>3, <1>4, <1>5, <1>6, <2>1
<1>8. /\ Tuple(b, m + 1) /\ Len(b) = m + 1
      /\ \A j \in 1 .. m + 1 : b[j] = CellOf(us2, s + j - 1)
  <2>1. /\ Tuple(e2[k].cells, Count(fs2, named2, k)) /\ Len(e2[k].cells) = Count(fs2, named2, k)
        /\ \A j \in 1 .. Count(fs2, named2, k) : e2[k].cells[j] = CellOf(us2, fs2[k].slots + j - 1)
    <3>1. k \in 1 .. Len(fs) /\ k \in 1 .. Len(fs2)
      BY <1>3
    <3> QED BY <1>1, <3>1 DEF EnvSeq, Tuple
  <2> QED BY <1>3, <1>5, <1>6, <2>1
<1>9. \A j \in 1 .. m : b[j] = a[j]
  <2> TAKE j \in 1 .. m
  <2>1. j \in 1 .. m + 1 /\ s + j - 1 \in s .. s + m - 1
    BY <1>4
  <2>2. CellOf(us2, s + j - 1) = CellOf(us, s + j - 1)
    BY <1>3, <1>4, <2>1
  <2> QED BY <1>7, <1>8, <2>1, <2>2
<1>10. b[m + 1] = x
  <2>1. m + 1 \in 1 .. m + 1 /\ s + (m + 1) - 1 = s + m
    BY <1>4
  <2> QED BY <1>3, <1>4, <1>8, <2>1
<1>11. b = Append(a, x)
  BY <1>4, <1>7, <1>8, <1>9, <1>10, CellsGrown
<1>12. e2 = WithCells(e, b)
  BY <1>2, <1>3, <1>6 DEF WithCells
<1> QED BY <1>2, <1>3, <1>6, <1>7, <1>8, <1>10, <1>11, <1>12

LEMMA EnvPrefix ==
  ASSUME NEW e, NEW fs, NEW us, NEW named, EnvSeq(e, fs, us, named),
         NEW e2, NEW fs2, NEW us2, NEW named2, EnvSeq(e2, fs2, us2, named2),
         Len(fs2) <= Len(fs),
         \A i \in 1 .. Len(fs2) : SameActivation(fs, us, named, fs2, us2, named2, i)
  PROVE  /\ Len(e) = Len(fs) /\ Len(e2) = Len(fs2)
         /\ e2 = SubSeq(e, 1, Len(fs2))
<1>1. EnvSeq(e, fs, us, named) /\ EnvSeq(e2, fs2, us2, named2)
  OBVIOUS
<1>2. Len(e) = Len(fs) /\ Tuple(e, Len(fs)) /\ Len(fs) \in Nat
  BY <1>1 DEF EnvSeq, Tuple
<1>3. Len(e2) = Len(fs2) /\ Tuple(e2, Len(fs2)) /\ Len(fs2) \in Nat
  BY <1>1 DEF EnvSeq, Tuple
<1>4. \A i \in 1 .. Len(fs2) : e2[i] = e[i]
  <2> TAKE i \in 1 .. Len(fs2)
  <2>1. i \in 1 .. Len(fs)
    BY <1>2, <1>3
  <2> QED BY <1>1, <2>1, SameRuns
<1> QED BY <1>2, <1>3, <1>4, CellsCut

LEMMA EnvironmentsAre ==
  ASSUME PlacedOK, PlacedOK'
  PROVE  /\ EnvSeq(Environments, frames, upvalues, building.named)
         /\ EnvSeq(Environments', frames', upvalues', building'.named)
         /\ frames \in Seq(Activations) /\ frames' \in Seq(Activations)
<1>1. /\ Fit(frames, Len(stack)) /\ Len(stack) \in Nat
      /\ Fit(frames', Len(stack')) /\ Len(stack') \in Nat
  BY StateFacts, NextFacts DEF Sound
<1>2. EnvSeq(EnvOf(frames, upvalues, building.named), frames, upvalues, building.named)
  BY <1>1, EnvIsSeq
<1>3. EnvSeq(EnvOf(frames', upvalues', building'.named), frames', upvalues', building'.named)
  BY <1>1, EnvIsSeq
<1> QED BY <1>1, <1>2, <1>3, Mapped, MappedNext DEF Fit

(* Closures and the upvalues they hold stay. *)
LEMMA HeldStay ==
  ASSUME PlacedOK, PlacedOK', UNCHANGED <<closures, building>>,
         NEW c \in DOMAIN closures' \ {building'.closure}, NEW u \in Elements(closures'[c])
  PROVE  u \in DOMAIN upvalues \cap DOMAIN upvalues' /\ <<"upvalue", u>> \in Used
<1>1. /\ \A d \in DOMAIN closures : closures[d] \in Seq(DOMAIN upvalues)
      /\ \A d \in DOMAIN closures' : closures'[d] \in Seq(DOMAIN upvalues')
  BY StateFacts, NextFacts DEF Sound
<1>2. u \in DOMAIN upvalues /\ u \in DOMAIN upvalues'
  BY <1>1, ElementsOfSeq
<1>3. u \in UNION {Elements(closures[d]) : d \in DOMAIN closures \ {building.closure}}
  OBVIOUS
<1> QED BY <1>2, <1>3 DEF Used, InUseBy

(* What ends with the scopes from the n-th on. *)
LEMMA ScopesCut ==
  ASSUME MachineOK, frames # <<>>, NEW n \in 1 .. Len(Frame.scopes), Without(n),
         NEW start, start = Frame.scopes[n]
  PROVE  /\ start \in 1 .. Frame.locals /\ Frame.slots \in Nat \ {0} /\ Frame.locals \in Nat
         /\ Position(start) = Frame.slots + start /\ Position(start) \in Nat \ {0}
         /\ Height = Len(stack) /\ Height \in Nat /\ Position(start) <= Height + 1
         /\ Len(stack') = Position(start) - 1
         /\ \A p \in Nat \ {0} : p < Position(start) => stack'[p] = stack[p]
         /\ Len(frames') = Len(frames) /\ Len(frames) \in 1 .. Len(frames)
         /\ \A i \in 1 .. Len(frames) : i # Len(frames) => frames'[i] = frames[i]
         /\ frames'[Len(frames)].closure = Frame.closure
         /\ frames'[Len(frames)].slots = Frame.slots
         /\ frames'[Len(frames)].locals = start
<1>1. /\ Frame \in Activations /\ SoundFrame(Frame) /\ Height \in Nat
      /\ Frame.slots \in Nat /\ Frame.locals \in Nat /\ Frame.scopes \in Seq(Nat)
      /\ Frame.slots > 0 /\ Frame.locals > 0 /\ Frame.slots + Frame.locals <= Height + 1
      /\ Len(frames) \in 1 .. Len(frames) /\ frames \in Seq(Activations)
  BY TopFrame, FramesTyped
<1>2. start \in 1 .. Frame.locals
  BY <1>1 DEF SoundFrame
<1>3. PICK h \in Nat, k \in Nat \ {0}, l \in Nat : h = Height /\ k = Frame.slots /\ l = Frame.locals
  BY <1>1
<1>4. PICK p \in Nat \ {0} : p = Position(start) /\ p = k + start
  BY <1>2, <1>3 DEF Position
<1>5. p <= h + 1 /\ p - 1 \in 0 .. h
  <2>1. PICK s \in Nat : s = start
    BY <1>2, <1>3
  <2>2. s <= l /\ k + l <= h + 1 /\ p = k + s
    BY <1>1, <1>2, <1>3, <1>4, <2>1
  <2> QED BY <2>2
<1>6. stack \in Seq(Values) /\ h = Len(stack)
  BY <1>3 DEF MachineOK, StackOK, Height
<1>7. stack' = SubSeq(stack, 1, p - 1)
  BY <1>4 DEF Without
<1>8. Len(stack') = p - 1 /\ \A q \in 1 .. p - 1 : stack'[q] = stack[q]
  BY <1>5, <1>6, <1>7, Cut
<1>9. PICK fr : fr = [Frame EXCEPT !.locals = start, !.scopes = SubSeq(@, 1, n - 1)]
  OBVIOUS
<1>10. fr.slots = Frame.slots /\ fr.locals = start /\ fr.closure = Frame.closure
  BY <1>1, <1>9 DEF Activations
<1>11. PICK gs : gs = frames'
  OBVIOUS
<1>12. gs = [frames EXCEPT ![Len(frames)] = fr]
  BY <1>9, <1>11 DEF Without, Frame
<1>13. /\ Len(gs) = Len(frames) /\ gs[Len(frames)] = fr
       /\ \A i \in 1 .. Len(frames) : i # Len(frames) => gs[i] = frames[i]
  BY <1>1, <1>12
<1>14. \A q \in Nat \ {0} : q < p => stack'[q] = stack[q]
  BY <1>8
<1> QED BY <1>1, <1>2, <1>3, <1>4, <1>5, <1>6, <1>8, <1>10, <1>11, <1>13, <1>14

LEMMA ScopesEnd ==
  ASSUME PlacedOK, PlacedOK', Running, NEW n \in 1 .. Len(Frame.scopes), Without(n),
         UNCHANGED <<closures, building>>,
         KeptBelow(upvalues, stack, upvalues', stack', Position(Frame.scopes[n]))
  PROVE  L!Next \/ UNCHANGED L!vars
<1>1. MachineOK /\ frames # <<>> /\ building.named = FALSE
  BY Stepping DEF PlacedOK, ListOK
<1>2. PICK start : start = Frame.scopes[n]
  OBVIOUS
<1>3. /\ start \in 1 .. Frame.locals /\ Frame.slots \in Nat \ {0} /\ Frame.locals \in Nat
      /\ Position(start) = Frame.slots + start /\ Position(start) \in Nat \ {0}
      /\ Len(frames') = Len(frames) /\ Len(frames) \in 1 .. Len(frames)
      /\ \A i \in 1 .. Len(frames) : i # Len(frames) => frames'[i] = frames[i]
      /\ frames'[Len(frames)].closure = Frame.closure
      /\ frames'[Len(frames)].slots = Frame.slots
      /\ frames'[Len(frames)].locals = start
  BY <1>1, <1>2, ScopesCut
<1>4. PICK fs, fs2, us, us2, k, h, l :
        /\ fs = frames /\ fs2 = frames' /\ us = upvalues /\ us2 = upvalues'
        /\ k = Len(frames) /\ h = Position(start) /\ l = Frame.locals
  OBVIOUS
<1>5. /\ k = Len(fs) /\ Len(fs2) = k /\ k \in 1 .. k /\ fs # <<>>
      /\ \A i \in 1 .. k : i # k => fs2[i] = fs[i]
      /\ fs2[k].closure = fs[k].closure /\ fs2[k].slots = fs[k].slots
      /\ fs2[k].locals = start /\ fs[k].locals = l
      /\ h = fs[k].slots + start /\ h \in Nat \ {0} /\ fs[k].slots \in Nat \ {0}
      /\ start \in 1 .. l /\ l \in Nat
  BY <1>1, <1>3, <1>4 DEF Frame
<1>6. /\ Fit(fs, Len(stack)) /\ Len(stack) \in Nat /\ Single(us) /\ Single(us2)
      /\ KeptBelow(us, stack, us2, stack', h)
  BY <1>2, <1>4, StateFacts, NextFacts DEF Sound
<1>7. /\ \A i \in 1 .. k : i # k => Count(fs2, FALSE, i) = Count(fs, FALSE, i)
      /\ Count(fs, FALSE, k) = l /\ Count(fs2, FALSE, k) = start
  BY <1>5 DEF Count
<1>8. ASSUME NEW p, NEW i \in 1 .. k, i # k,
             p \in fs[i].slots .. fs[i].slots + Count(fs, FALSE, i) - 1
      PROVE  p \in Nat \ {0} /\ p < h
  <2>1. Scoped(fs, FALSE, p)
    BY <1>5, <1>8 DEF Scoped
  <2>2. Covered(fs, p)
    BY <1>6, <2>1, ScopedBelow
  <2>3. p \in 1 .. Len(stack)
    BY <1>6, <2>2, ScopedBelow
  <2>4. p < fs[k].slots
    BY <1>5, <1>6, <1>8, ScopedBelow
  <2> QED BY <1>5, <1>6, <2>3, <2>4
<1>9. ASSUME NEW p \in fs[k].slots .. fs[k].slots + start - 1
      PROVE  p \in Nat \ {0} /\ p < h
  BY <1>5
<1>10. ASSUME NEW p \in Nat \ {0}, p < h
       PROVE  CellOf(us2, p) = CellOf(us, p)
  BY <1>6, <1>10, KeptCells
<1>11. Grounded(frames, upvalues, building.named, closures, building.closure,
                frames', upvalues', building'.named, closures', building'.closure, h, {})
  <2>1. ASSUME NEW p \in Nat, Scoped(fs2, FALSE, p)
        PROVE  p \in Nat \ {0} /\ Scoped(fs, FALSE, p) /\ p < h
    <3>1. PICK i \in 1 .. k : p \in fs2[i].slots .. fs2[i].slots + Count(fs2, FALSE, i) - 1
      BY <1>5, <2>1 DEF Scoped
    <3>2. CASE i # k
      <4>1. p \in fs[i].slots .. fs[i].slots + Count(fs, FALSE, i) - 1
        BY <1>5, <1>7, <3>1, <3>2
      <4>2. Scoped(fs, FALSE, p)
        BY <1>5, <4>1 DEF Scoped
      <4> QED BY <1>8, <3>2, <4>1, <4>2
    <3>3. CASE i = k
      <4>1. p \in fs[k].slots .. fs[k].slots + start - 1
        BY <1>5, <1>7, <3>1, <3>3
      <4>2. p \in fs[k].slots .. fs[k].slots + Count(fs, FALSE, k) - 1
        <5> start \in Nat /\ fs[k].slots \in Nat
          BY <1>5
        <5>1. PICK s \in Nat, b \in Nat : s = start /\ b = fs[k].slots
          OBVIOUS
        <5>2. p \in b .. b + s - 1 /\ s <= l
          BY <1>5, <4>1, <5>1
        <5>3. p \in b .. b + l - 1
          BY <1>5, <5>2
        <5> QED BY <1>7, <5>1, <5>3
      <4>3. Scoped(fs, FALSE, p)
        BY <1>5, <4>2 DEF Scoped
      <4> QED BY <1>9, <4>1, <4>3
    <3> QED BY <3>2, <3>3
  <2>2. \A c \in DOMAIN closures' \ {building'.closure} : \A u \in Elements(closures'[c]) :
          /\ u \in DOMAIN upvalues \cap DOMAIN upvalues'
          /\ <<"upvalue", u>> \in InUseBy(frames, upvalues, building.named, closures, building.closure)
    BY HeldStay DEF Used
  <2> QED BY <1>1, <1>4, <2>1, <2>2 DEF Grounded
<1>12. L!StoreKeepsBut({})
  BY <1>4, <1>6, <1>11, Kept
<1>13. CASE start = l
  <2>1. ASSUME NEW p, Scoped(frames, building.named, p)
        PROVE  p < h
    <3>1. PICK i \in 1 .. k : p \in fs[i].slots .. fs[i].slots + Count(fs, FALSE, i) - 1
      BY <1>1, <1>4, <2>1 DEF Scoped
    <3>2. i = k => p \in fs[k].slots .. fs[k].slots + start - 1
      BY <1>7, <1>13, <3>1
    <3> QED BY <1>8, <1>9, <3>1, <3>2
  <2>2. \A i \in 1 .. Len(frames) :
          /\ frames'[i].closure = frames[i].closure /\ frames'[i].slots = frames[i].slots
          /\ Count(frames', building'.named, i) = Count(frames, building.named, i)
    BY <1>1, <1>4, <1>5, <1>7, <1>13
  <2>3. UNCHANGED L!vars
    BY <1>4, <1>5, <1>6, <2>1, <2>2, Staying
  <2> QED BY <2>3
<1>14. CASE start # l
  <2>1. PICK e, e2 : e = Environments /\ e2 = Environments'
    OBVIOUS
  <2>2. EnvSeq(e, fs, us, FALSE) /\ EnvSeq(e2, fs2, us2, FALSE) /\ fs \in Seq(Activations)
    BY <1>1, <1>4, <2>1, EnvironmentsAre
  <2>3. OtherTop(fs, us, FALSE, fs2, us2, FALSE)
    <3>1. ASSUME NEW i \in 1 .. k, i # k
          PROVE  SameActivation(fs, us, FALSE, fs2, us2, FALSE, i)
      BY <1>5, <1>7, <1>8, <1>10, <3>1 DEF SameActivation
    <3> QED BY <1>5, <3>1 DEF OtherTop
  <2>4. \A p \in fs[k].slots .. fs[k].slots + start - 1 : CellOf(us2, p) = CellOf(us, p)
    BY <1>9, <1>10
  <2>5. /\ e # <<>> /\ Len(e[Len(e)].cells) = l
        /\ e2 = [e EXCEPT ![Len(e)].cells = SubSeq(@, 1, start)]
    <3>1. start <= l
      BY <1>5
    <3>2. start = Count(fs2, FALSE, Len(fs)) /\ l = Count(fs, FALSE, Len(fs))
      BY <1>5, <1>7
    <3>3. \A p \in fs[Len(fs)].slots .. fs[Len(fs)].slots + start - 1 : CellOf(us2, p) = CellOf(us, p)
      BY <1>5, <2>4
    <3>4. start <= Count(fs, FALSE, Len(fs))
      BY <3>1, <3>2
    <3>5. PICK none : none = FALSE
      OBVIOUS
    <3>6. /\ EnvSeq(e, fs, us, none) /\ EnvSeq(e2, fs2, us2, none)
          /\ OtherTop(fs, us, none, fs2, us2, none)
          /\ start = Count(fs2, none, Len(fs)) /\ start <= Count(fs, none, Len(fs))
      BY <2>2, <2>3, <3>2, <3>4, <3>5
    <3>7. /\ e # <<>> /\ Len(e[Len(e)].cells) = Count(fs, none, Len(fs))
          /\ e2 = WithCells(e, SubSeq(e[Len(e)].cells, 1, start))
      BY <2>2, <3>3, <3>6, EnvCut
    <3> QED BY <3>2, <3>5, <3>7 DEF WithCells
  <2>6. start \in 0 .. Len(L!Top.cells) - 1
    BY <1>5, <1>14, <2>1, <2>5 DEF L!Top
  <2>7. CapturedCells' = CapturedCells
    BY Mapped, MappedNext
  <2>8. L!EndScope(start)
    BY <1>12, <2>1, <2>5, <2>7 DEF L!EndScope
  <2> QED BY <2>1, <2>5, <2>6, <2>8 DEF L!Next
<1> QED BY <1>13, <1>14

LEMMA endScopeEnds ==
  ASSUME PlacedOK, PlacedOK', endScope
  PROVE  L!Next \/ UNCHANGED L!vars
<1>1. MachineOK /\ Running /\ frames # <<>> /\ Frame.scopes # <<>>
  BY DEF endScope, AtStatement, Running, PlacedOK, ListOK
<1>2. PICK n : n = Len(Frame.scopes)
  OBVIOUS
<1>3. n \in 1 .. Len(Frame.scopes)
  BY <1>1, <1>2, TopFrame
<1>4. PICK h : h = Position(Frame.scopes[n])
  OBVIOUS
<1>5. Without(n) /\ closeUpvalues(h) /\ UNCHANGED building
  BY <1>2, <1>4 DEF endScope
<1>6. /\ h \in Nat \ {0} /\ h <= Height + 1 /\ Len(stack') = h - 1
      /\ \A p \in Nat \ {0} : p < h => stack'[p] = stack[p]
  BY <1>1, <1>3, <1>4, <1>5, ScopesCut
<1>7. \A u \in DOMAIN upvalues : upvalues[u].at \in Nat
  BY <1>1, ListTyped
<1>8. KeptBelow(upvalues, stack, upvalues', stack', h)
  <2>1. h <= h /\ Len(stack') \in Nat /\ h <= Len(stack') + 1
    BY <1>6
  <2>2. \A u \in DOMAIN upvalues : upvalues[u].at < h \/ upvalues[u].at >= h
    BY <1>6, <1>7
  <2> QED BY <1>5, <1>6, <2>1, <2>2, ClosingKeeps
<1>9. UNCHANGED <<closures, building>>
  BY <1>5 DEF closeUpvalues
<1> QED BY <1>1, <1>3, <1>4, <1>5, <1>8, <1>9, ScopesEnd

LEMMA LeaveLoopEnds ==
  ASSUME BreaksSpare, PlacedOK, PlacedOK', NEW n \in DOMAIN Frame.scopes, LeaveLoop(n)
  PROVE  L!Next \/ UNCHANGED L!vars
<1>1. MachineOK /\ ListOK /\ Running /\ frames # <<>>
  BY DEF LeaveLoop, AtStatement, Running, PlacedOK, ListOK
<1>2. n \in 1 .. Len(Frame.scopes)
  BY <1>1, TopFrame
<1>3. PICK h : h = Position(Frame.scopes[n])
  OBVIOUS
<1>4. /\ Without(n) /\ AtOrAbove(h) = {}
      /\ UNCHANGED <<upvalues, closures, building>>
  BY <1>3 DEF LeaveLoop, BreaksSpare, heap
<1>5. /\ h \in Nat \ {0} /\ h <= Height + 1 /\ Len(stack') = h - 1 /\ Height = Len(stack)
      /\ \A p \in Nat \ {0} : p < h => stack'[p] = stack[p]
  BY <1>1, <1>2, <1>3, <1>4, ScopesCut
<1>6. Cardinality(AtOrAbove(h)) = 0
  BY <1>4, FS_EmptySet
<1>7. \A k \in 0 + 1 .. Len(open) : upvalues[open[k]].at < h
  BY <1>1, <1>5, <1>6, ListDivided
<1>8. \A u \in DOMAIN upvalues : upvalues[u].at # Closed => upvalues[u].at < h
  BY <1>1, <1>7 DEF ListOK, Listed
<1>9. KeptBelow(upvalues, stack, upvalues', stack', h)
  <2>1. Len(stack') \in Nat /\ h <= Len(stack') + 1 /\ h \in Nat /\ h <= Len(stack) + 1
    BY <1>5
  <2>2. Sound(stack, frames, upvalues, closures)
    BY StateFacts
  <2> QED BY <1>4, <1>5, <1>8, <2>1, <2>2, KeptRestricted
<1> QED BY <1>1, <1>2, <1>3, <1>4, <1>9, ScopesEnd

----------------------------------------------------------------------------
(* One more local. *)

LEMMA ScopedGrown ==
  ASSUME NEW fs, NEW h \in Nat, Fit(fs, h), NEW named, NEW fs2, NEW named2,
         fs # <<>>, Len(fs2) = Len(fs),
         \A i \in 1 .. Len(fs) : i # Len(fs) => fs2[i] = fs[i],
         fs2[Len(fs)].slots = fs[Len(fs)].slots,
         NEW m, m = Count(fs, named, Len(fs)), Count(fs2, named2, Len(fs)) = m + 1,
         NEW p, Scoped(fs2, named2, p)
  PROVE  p \in Nat \ {0} /\ (Scoped(fs, named, p) \/ p = fs[Len(fs)].slots + m)
<1>1. PICK k \in Nat \ {0}, s \in Nat \ {0}, n \in Nat :
        k = Len(fs) /\ s = fs[k].slots /\ n = m /\ k \in 1 .. Len(fs)
  <2>1. Len(fs) \in Nat /\ Len(fs) # 0 /\ Len(fs) \in 1 .. Len(fs)
    <3>1. fs \in Seq(Activations)
      BY SoundFrames
    <3> QED BY <3>1
  <2>2. fs[Len(fs)].slots \in Nat \ {0} /\ Count(fs, named, Len(fs)) \in Nat
    BY <2>1, SoundFrames
  <2> QED BY <2>1, <2>2
<1>2. PICK i \in 1 .. k : p \in fs2[i].slots .. fs2[i].slots + Count(fs2, named2, i) - 1
  BY <1>1 DEF Scoped
<1>3. CASE i # k
  <2>1. fs2[i] = fs[i] /\ Count(fs2, named2, i) = Count(fs, named, i)
    BY <1>1, <1>3 DEF Count
  <2>2. p \in fs[i].slots .. fs[i].slots + Count(fs, named, i) - 1
    BY <1>2, <2>1
  <2>3. fs[i].slots \in Nat \ {0} /\ Count(fs, named, i) \in Nat
    BY <1>1, SoundFrames
  <2>4. p \in Nat \ {0}
    <3>1. PICK a \in Nat \ {0}, b \in Nat : a = fs[i].slots /\ b = Count(fs, named, i)
      BY <2>3
    <3>2. p \in a .. a + b - 1
      BY <2>2, <3>1
    <3> QED BY <3>2
  <2> QED BY <1>1, <2>2, <2>4 DEF Scoped
<1>4. CASE i = k
  <2>1. p \in s .. s + (n + 1) - 1
    BY <1>1, <1>2, <1>4
  <2>2. p \in Nat \ {0} /\ (p \in s .. s + n - 1 \/ p = s + n)
    BY <2>1
  <2>3. p \in s .. s + n - 1 => Scoped(fs, named, p)
    BY <1>1 DEF Scoped
  <2> QED BY <1>1, <2>2, <2>3
<1> QED BY <1>3, <1>4

LEMMA TopGrows ==
  ASSUME PlacedOK, PlacedOK', frames # <<>>, UNCHANGED <<stack, upvalues>>,
         Len(frames') = Len(frames),
         \A i \in 1 .. Len(frames) : i # Len(frames) => frames'[i] = frames[i],
         frames'[Len(frames)].closure = Frame.closure,
         frames'[Len(frames)].slots = Frame.slots,
         NEW m, m = Count(frames, building.named, Len(frames)),
         Count(frames', building'.named, Len(frames)) = m + 1,
         NEW x, x = CellOf(upvalues, Frame.slots + m),
         \A c \in DOMAIN closures' \ {building'.closure} : \A u \in Elements(closures'[c]) :
           u \in DOMAIN upvalues /\ (<<"upvalue", u>> \in Used \/ <<"upvalue", u>> = x)
  PROVE  /\ L!OneMoreLocal /\ L!StoreKeepsBut({x})
         /\ L!Top'.cells[Len(L!Top.cells) + 1] = x
         /\ Environments' = WithCells(Environments, Append(Environments[Len(Environments)].cells, x))
<1>1. PICK fs, fs2, us, st, nm, nm2, h :
        /\ fs = frames /\ fs2 = frames' /\ us = upvalues /\ st = stack
        /\ nm = building.named /\ nm2 = building'.named /\ h = Len(stack) + 1
  OBVIOUS
<1>2. PICK e, e2 : e = Environments /\ e2 = Environments'
  OBVIOUS
<1>3. /\ EnvSeq(e, fs, us, nm) /\ EnvSeq(e2, fs2, us, nm2) /\ fs \in Seq(Activations)
      /\ Fit(fs, Len(st)) /\ Len(st) \in Nat /\ Single(us)
  BY <1>1, <1>2, EnvironmentsAre, StateFacts DEF Sound
<1>4. PICK k : k = Len(fs)
  OBVIOUS
<1>5. /\ k \in Nat \ {0} /\ fs # <<>> /\ Len(fs2) = k /\ k = Len(fs)
      /\ \A i \in 1 .. k : i # k => fs2[i] = fs[i]
      /\ fs2[k].closure = fs[k].closure /\ fs2[k].slots = fs[k].slots
      /\ m = Count(fs, nm, k) /\ Count(fs2, nm2, k) = m + 1
      /\ x = CellOf(us, fs[k].slots + m)
  BY <1>1, <1>3, <1>4 DEF Frame
<1>6. OtherTop(fs, us, nm, fs2, us, nm2)
  <2>1. ASSUME NEW i \in 1 .. k, i # k
        PROVE  SameActivation(fs, us, nm, fs2, us, nm2, i)
    <3>1. fs2[i] = fs[i] /\ Count(fs2, nm2, i) = Count(fs, nm, i)
      BY <1>5, <2>1 DEF Count
    <3> QED BY <3>1 DEF SameActivation
  <2> QED BY <1>5, <2>1 DEF OtherTop
<1>7. /\ e # <<>> /\ e2 # <<>> /\ Len(e2) = Len(e)
      /\ Len(e2[Len(e)].cells) = Len(e[Len(e)].cells) + 1
      /\ e2[Len(e)].cells[Len(e[Len(e)].cells) + 1] = x
      /\ e2 = WithCells(e, Append(e[Len(e)].cells, x))
  <2>1. m = Count(fs, nm, Len(fs)) /\ Count(fs2, nm2, Len(fs)) = m + 1
    BY <1>5
  <2>2. x = CellOf(us, fs[Len(fs)].slots + m)
    BY <1>5
  <2> QED BY <1>3, <1>6, <2>1, <2>2, EnvGrown
<1>8. L!Top = e[Len(e)] /\ L!Top' = e2[Len(e)]
  BY <1>2, <1>7 DEF L!Top
<1>9. L!OneMoreLocal /\ L!Top'.cells[Len(L!Top.cells) + 1] = x
  BY <1>2, <1>7, <1>8 DEF L!OneMoreLocal
<1>10. Environments' = WithCells(Environments, Append(Environments[Len(Environments)].cells, x))
  BY <1>2, <1>7
<1>11. KeptBelow(upvalues, stack, upvalues', stack', h)
  BY DEF KeptBelow
<1>12. Grounded(frames, upvalues, building.named, closures, building.closure,
                frames', upvalues', building'.named, closures', building'.closure, h, {x})
  <2>1. ASSUME NEW p \in Nat, Scoped(fs2, nm2, p)
        PROVE  p \in Nat \ {0} /\ ((Scoped(fs, nm, p) /\ p < h) \/ CellOf(us, p) \in {x})
    <3>1. m = Count(fs, nm, Len(fs)) /\ Count(fs2, nm2, Len(fs)) = m + 1
      BY <1>5
    <3>2. p \in Nat \ {0} /\ (Scoped(fs, nm, p) \/ p = fs[Len(fs)].slots + m)
      BY <1>3, <1>5, <2>1, <3>1, ScopedGrown
    <3>3. Scoped(fs, nm, p) => p \in 1 .. Len(st)
      BY <1>3, ScopedBelow
    <3> QED BY <1>1, <1>3, <1>5, <3>2, <3>3
  <2> QED BY <1>1, <2>1 DEF Grounded, Used
<1>13. L!StoreKeepsBut({x})
  BY <1>11, <1>12, Kept
<1> QED BY <1>9, <1>10, <1>13

LEMMA DeclareLocalDeclares ==
  ASSUME PlacedOK, PlacedOK', DeclareLocal
  PROVE  L!Declare
<1>1. Running /\ Temporaries = 1 /\ UNCHANGED <<stack, upvalues, closures, building>>
  BY DEF DeclareLocal, heap
<1>2. frames # <<>> /\ building.named = FALSE
  BY <1>1, Stepping
<1>3. /\ Height \in Nat /\ Frame.slots \in Nat \ {0} /\ Frame.locals \in Nat \ {0}
      /\ Temporaries = Height + 1 - (Frame.slots + Frame.locals)
      /\ Len(frames) \in 1 .. Len(frames) /\ Frame \in Activations /\ frames \in Seq(Activations)
  BY <1>2, TopOfStack
<1>4. /\ Len(frames') = Len(frames)
      /\ \A i \in 1 .. Len(frames) : i # Len(frames) => frames'[i] = frames[i]
      /\ frames'[Len(frames)] = [Frame EXCEPT !.locals = @ + 1]
  <2>1. PICK gs, fr : gs = frames' /\ fr = [Frame EXCEPT !.locals = @ + 1]
    OBVIOUS
  <2>2. gs = [frames EXCEPT ![Len(frames)] = fr]
    BY <2>1 DEF DeclareLocal, Frame
  <2>3. /\ Len(gs) = Len(frames) /\ gs[Len(frames)] = fr
        /\ \A i \in 1 .. Len(frames) : i # Len(frames) => gs[i] = frames[i]
    BY <1>3, <2>2
  <2> QED BY <2>1, <2>3
<1>5. /\ frames'[Len(frames)].closure = Frame.closure
      /\ frames'[Len(frames)].slots = Frame.slots
      /\ frames'[Len(frames)].locals = Frame.locals + 1
  BY <1>3, <1>4 DEF Activations
<1>6. /\ Frame.locals = Count(frames, building.named, Len(frames))
      /\ Count(frames', building'.named, Len(frames)) = Frame.locals + 1
  BY <1>1, <1>2, <1>4, <1>5 DEF Count, Frame
<1>7. PICK q \in Nat \ {0} : q = Frame.slots + Frame.locals
  BY <1>3
<1>8. PICK x : x = CellOf(upvalues, q)
  OBVIOUS
<1>9. Sound(stack, frames, upvalues, closures)
  BY StateFacts
<1>10. /\ \A p : Covered(frames, p) => p # q
       /\ \A u \in DOMAIN upvalues : upvalues[u].at # q
  <2>1. \A p : Covered(frames, p) => p \in Nat /\ p < q
    <3> TAKE p
    <3> HAVE Covered(frames, p)
    <3>1. p \in 1 .. Len(stack) /\ p < frames[Len(frames)].slots + frames[Len(frames)].locals
      BY <1>9, OpenBelow
    <3> QED BY <1>7, <3>1, <1>3 DEF Frame, Height
  <2>2. ASSUME NEW u \in DOMAIN upvalues, upvalues[u].at = q
        PROVE  FALSE
    <3>1. upvalues[u].at # Closed
      BY <2>2 DEF Closed
    <3>2. Covered(frames, q)
      BY <1>9, <2>2, <3>1 DEF Sound, Placed
    <3> QED BY <2>1, <3>2
  <2>3. \A p : Covered(frames, p) => p # q
    BY <2>1
  <2> QED BY <2>2, <2>3
<1>11. x = <<"slot", q>>
  BY <1>8, <1>9, <1>10, CellFacts DEF Sound
<1>12. x \notin Used
  <2>1. x \in Used => Scoped(frames, building.named, q)
    BY <1>11, UsedForms
  <2>2. \A named : Scoped(frames, named, q) => Covered(frames, q)
    BY <1>9, OpenBelow
  <2> QED BY <1>10, <2>1, <2>2
<1>13. \A c \in DOMAIN closures' \ {building'.closure} : \A u \in Elements(closures'[c]) :
         u \in DOMAIN upvalues /\ (<<"upvalue", u>> \in Used \/ <<"upvalue", u>> = x)
  BY <1>1, HeldStay
<1>14. x = CellOf(upvalues, Frame.slots + Frame.locals)
  BY <1>7, <1>8
<1>15. /\ L!OneMoreLocal /\ L!StoreKeepsBut({x})
       /\ L!Top'.cells[Len(L!Top.cells) + 1] = x
       /\ Environments' = WithCells(Environments, Append(Environments[Len(Environments)].cells, x))
  <2>1. UNCHANGED <<stack, upvalues>>
    BY <1>1
  <2>2. PICK m : m = Frame.locals
    OBVIOUS
  <2>3. /\ m = Count(frames, building.named, Len(frames))
        /\ Count(frames', building'.named, Len(frames)) = m + 1
        /\ x = CellOf(upvalues, Frame.slots + m)
    BY <1>6, <1>14, <2>2
  <2> QED BY <1>2, <1>4, <1>5, <1>13, <2>1, <2>3, TopGrows
<1>16. x \notin L!Used
  BY <1>12, UsedIs
<1>17. CapturedCells' = CapturedCells
  BY <1>1, Mapped, MappedNext
<1> QED BY <1>15, <1>16, <1>17 DEF L!Declare, WithCells

----------------------------------------------------------------------------
(* A closure is complete. *)

LEMMA BuiltCells ==
  ASSUME VariablesOK, building # NotBuilding, NEW u \in Elements(closures[building.closure])
  PROVE  /\ u \in DOMAIN upvalues
         /\ \/ <<"upvalue", u>> \in L!Visible /\ <<"upvalue", u>> \in Used
            \/ building.named /\ <<"upvalue", u>> = CellOf(upvalues, Frame.slots + Frame.locals - 1)
<1>1. PlacedOK /\ building.closure \in DOMAIN closures /\ frames # <<>>
  BY DEF VariablesOK, BuildingOK, PlacedOK, ListOK, MachineOK, HeapOK
<1>2. /\ Frame.slots \in Nat \ {0} /\ Frame.locals \in Nat \ {0}
      /\ Len(frames) \in 1 .. Len(frames)
  BY <1>1, TopOfStack
<1>3. /\ Single(upvalues) /\ \A w \in DOMAIN upvalues : upvalues[w] \in Upvalues
      /\ closures[building.closure] \in Seq(DOMAIN upvalues)
  BY <1>1, StateFacts DEF Sound
<1>4. u \in DOMAIN upvalues
  BY <1>3, ElementsOfSeq
<1>5. u \in Outer \/ upvalues[u].at \in Frame.slots .. Frame.slots + Frame.locals - 1
  BY DEF VariablesOK, BuildingOK
<1>6. CASE u \in Outer
  <2>1. Frame.closure # building.closure
    BY <1>2 DEF VariablesOK, BuildingOK, Frame
  <2>2. <<"upvalue", u>> \in L!Visible
    BY <1>1, <1>6, <2>1, VisibleUpvalue
  <2>3. Frame.closure # Script /\ u \in Elements(closures[Frame.closure])
    BY <1>6 DEF Outer
  <2>4. Frame.closure \in DOMAIN closures
    BY <1>1, <1>2, <2>3 DEF PlacedOK, ListOK, MachineOK, HeapOK, Frame
  <2>5. u \in UNION {Elements(closures[d]) : d \in DOMAIN closures \ {building.closure}}
    BY <2>1, <2>3, <2>4
  <2>6. <<"upvalue", u>> \in Used
    BY <2>5 DEF Used, InUseBy
  <2> QED BY <1>4, <2>2, <2>6
<1>7. CASE upvalues[u].at \in Frame.slots .. Frame.slots + Frame.locals - 1
  <2>1. PICK p \in Nat \ {0} : p = upvalues[u].at /\ p \in Frame.slots .. Frame.slots + Frame.locals - 1
    BY <1>2, <1>7
  <2>2. CellOf(upvalues, p) = <<"upvalue", u>>
    BY <1>3, <1>4, <2>1, CellFacts
  <2>3. CASE building.named /\ p = Frame.slots + Frame.locals - 1
    BY <1>4, <2>2, <2>3
  <2>4. CASE ~ (building.named /\ p = Frame.slots + Frame.locals - 1)
    <3>1. p \in Frame.slots .. Frame.slots + Count(frames, building.named, Len(frames)) - 1
      <4>1. CASE building.named
        <5>1. Count(frames, building.named, Len(frames)) = Frame.locals - 1
          BY <4>1 DEF Count, Frame
        <5>2. p # Frame.slots + Frame.locals - 1
          BY <2>4, <4>1
        <5> QED BY <1>2, <2>1, <5>1, <5>2
      <4>2. CASE ~ building.named
        <5>1. Count(frames, building.named, Len(frames)) = Frame.locals
          BY <4>2 DEF Count, Frame
        <5> QED BY <2>1, <5>1
      <4> QED BY <4>1, <4>2
    <3>2. Scoped(frames, building.named, p)
      BY <1>2, <3>1 DEF Scoped, Frame
    <3>3. CellOf(upvalues, p) \in L!Visible
      <4>1. Frame.slots <= p
        BY <1>2, <2>1
      <4> QED BY <1>1, <3>2, <4>1, VisibleLocal
    <3>4. CellOf(upvalues, p) \in Used
      BY <3>2 DEF Used, InUseBy
    <3> QED BY <1>4, <2>2, <3>3, <3>4
  <2> QED BY <2>3, <2>4
<1> QED BY <1>5, <1>6, <1>7

LEMMA ClosureAdded ==
  ASSUME PlacedOK, PlacedOK', ClosureBuilt, NEW c, c = building.closure
  PROVE  /\ c \in DOMAIN CapturedCells' /\ L!NewClosure(c)
         /\ \A x \in L!Elements(CapturedCells'[c]) :
              \E u \in Elements(closures[c]) : x = <<"upvalue", u>>
<1>1. /\ UNCHANGED <<closures, upvalues, stack, frames>> /\ building # NotBuilding
      /\ building'.closure = Script
  BY DEF ClosureBuilt, heap, NotBuilding
<1>2. /\ c \in DOMAIN closures /\ Script \notin DOMAIN closures
      /\ \A d \in DOMAIN closures : closures[d] \in Seq(DOMAIN upvalues)
  <2>1. building.closure \in DOMAIN closures /\ Sound(stack, frames, upvalues, closures)
    BY <1>1, StateFacts
  <2> QED BY <2>1, VmAssumption DEF Sound
<1>3. PICK k, k2 : k = CapturedCells /\ k2 = CapturedCells'
  OBVIOUS
<1>4. CapturedShaped(k, closures, building.closure) /\ CapturedShaped(k2, closures, Script)
  BY <1>1, <1>2, <1>3, Mapped, MappedNext, CapturedShape
<1>5. /\ DOMAIN k = DOMAIN closures \ {c} /\ DOMAIN k2 = DOMAIN closures \ {Script}
      /\ \A d \in DOMAIN closures \ {c} : k[d] = [i \in 1 .. Len(closures[d]) |-> <<"upvalue", closures[d][i]>>]
      /\ \A d \in DOMAIN closures \ {Script} :
           k2[d] = [i \in 1 .. Len(closures[d]) |-> <<"upvalue", closures[d][i]>>]
      /\ \A d \in DOMAIN closures \ {Script} :
           Elements(k2[d]) = {<<"upvalue", u>> : u \in Elements(closures[d])}
  BY <1>4 DEF CapturedShaped
<1>6. \A d \in DOMAIN k : k2[d] = k[d]
  BY <1>2, <1>5
<1>7. c \notin DOMAIN k /\ DOMAIN k2 = DOMAIN k \cup {c} /\ c \in DOMAIN k2
  BY <1>2, <1>5
<1>8. L!NewClosure(c)
  BY <1>3, <1>6, <1>7 DEF L!NewClosure
<1>9. \A x \in Elements(k2[c]) : \E u \in Elements(closures[c]) : x = <<"upvalue", u>>
  BY <1>2, <1>5
<1> QED BY <1>3, <1>7, <1>8, <1>9 DEF L!Elements, Elements

LEMMA ClosureMade ==
  ASSUME VariablesOK, VariablesOK', ClosureBuilt, ~ building.named
  PROVE  L!Next
<1>1. /\ UNCHANGED <<closures, upvalues, stack, frames>> /\ building # NotBuilding
      /\ building'.closure = Script /\ building'.named = FALSE
      /\ PlacedOK /\ PlacedOK' /\ frames # <<>>
  BY DEF ClosureBuilt, heap, NotBuilding, VariablesOK, BuildingOK
<1>2. building.named = FALSE
  BY <1>1 DEF PlacedOK, ListOK, MachineOK, HeapOK
<1>3. PICK c : c = building.closure
  OBVIOUS
<1>4. /\ c \in DOMAIN CapturedCells' /\ L!NewClosure(c)
      /\ \A x \in L!Elements(CapturedCells'[c]) :
           \E u \in Elements(closures[c]) : x = <<"upvalue", u>>
  BY <1>1, <1>3, ClosureAdded
<1>5. L!Elements(CapturedCells'[c]) \subseteq L!Visible
  BY <1>1, <1>2, <1>3, <1>4, BuiltCells
<1>6. Environments' = Environments
  BY <1>1, <1>2, Mapped, MappedNext
<1>7. PICK e : e = Environments
  OBVIOUS
<1>8. e # <<>>
  <2>1. EnvSeq(e, frames, upvalues, building.named) /\ frames \in Seq(Activations)
    BY <1>1, <1>7, EnvironmentsAre
  <2>2. Len(e) = Len(frames)
    BY <2>1 DEF EnvSeq, Tuple
  <2> QED BY <1>1, <2>1, <2>2
<1>9. PICK h : h = Len(stack) + 1
  OBVIOUS
<1>10. KeptBelow(upvalues, stack, upvalues', stack', h)
  BY <1>1 DEF KeptBelow
<1>11. Grounded(frames, upvalues, building.named, closures, building.closure,
                frames', upvalues', building'.named, closures', building'.closure, h, {})
  <2>1. Sound(stack, frames, upvalues, closures) /\ Len(stack) \in Nat
    BY <1>1, StateFacts
  <2>2. ASSUME NEW p \in Nat, Scoped(frames', building'.named, p)
        PROVE  p \in Nat \ {0} /\ Scoped(frames, building.named, p) /\ p < h
    <3>1. Scoped(frames, building.named, p)
      BY <1>1, <1>2, <2>2
    <3>2. p \in 1 .. Len(stack)
      BY <2>1, <3>1, OpenBelow
    <3> QED BY <1>9, <2>1, <3>1, <3>2
  <2>3. ASSUME NEW d \in DOMAIN closures, NEW u \in Elements(closures[d])
        PROVE  u \in DOMAIN upvalues /\ <<"upvalue", u>> \in Used
    <3>1. u \in DOMAIN upvalues
      BY <2>1, <2>3, ElementsOfSeq DEF Sound
    <3>2. CASE d = c
      BY <1>1, <1>2, <1>3, <2>3, <3>2, BuiltCells
    <3>3. CASE d # c
      <4>1. u \in UNION {Elements(closures[b]) : b \in DOMAIN closures \ {building.closure}}
        BY <1>3, <2>3, <3>3
      <4> QED BY <3>1, <4>1 DEF Used, InUseBy
    <3> QED BY <3>2, <3>3
  <2>4. \A d \in DOMAIN closures' \ {building'.closure} : \A u \in Elements(closures'[d]) :
          /\ u \in DOMAIN upvalues \cap DOMAIN upvalues'
          /\ <<"upvalue", u>> \in InUseBy(frames, upvalues, building.named, closures, building.closure)
    BY <1>1, <2>3 DEF Used
  <2> QED BY <2>2, <2>4 DEF Grounded
<1>12. L!StoreKeepsBut({})
  BY <1>1, <1>10, <1>11, Kept
<1>13. L!MakeClosure(c)
  BY <1>4, <1>5, <1>6, <1>7, <1>8, <1>12 DEF L!MakeClosure
<1> QED BY <1>4, <1>13 DEF L!Next

LEMMA FunctionUnused ==
  ASSUME VariablesOK, building # NotBuilding, building.named
  PROVE  CellOf(upvalues, Frame.slots + Frame.locals - 1) \notin Used
<1>1. PlacedOK /\ frames # <<>>
  BY DEF VariablesOK, BuildingOK
<1>2. /\ Frame.slots \in Nat \ {0} /\ Frame.locals \in Nat \ {0}
      /\ Len(frames) \in 1 .. Len(frames)
  BY <1>1, TopOfStack
<1>3. Sound(stack, frames, upvalues, closures) /\ Len(stack) \in Nat
  BY <1>1, StateFacts
<1>4. PICK q \in Nat \ {0} : q = Frame.slots + Frame.locals - 1
  BY <1>2
<1>5. PICK x : x = CellOf(upvalues, q)
  OBVIOUS
<1>6. SUFFICES ASSUME x \in Used PROVE FALSE
  BY <1>4, <1>5
<1>7. ASSUME NEW p \in Nat, Scoped(frames, building.named, p), x = CellOf(upvalues, p)
      PROVE  FALSE
  <2>1. p \in Nat \ {0}
    <3>1. p \in 1 .. Len(stack)
      BY <1>3, <1>7, OpenBelow
    <3> QED BY <1>3, <3>1
  <2>2. p = q
    BY <1>3, <1>5, <1>7, <2>1, CellsDiffer DEF Sound
  <2>3. Frame.slots <= p
    BY <1>2, <1>4, <2>2
  <2>4. p \in Frame.slots .. Frame.slots + Count(frames, building.named, Len(frames)) - 1
    BY <1>3, <1>7, <2>3, TopScoped DEF Sound, Frame
  <2>5. Count(frames, building.named, Len(frames)) = Frame.locals - 1
    BY DEF Count, Frame
  <2>6. PICK a \in Nat, b \in Nat \ {0} : a = Frame.slots /\ b = Frame.locals
    BY <1>2
  <2>7. p \in a .. a + (b - 1) - 1 /\ p = a + b - 1
    BY <1>4, <2>2, <2>4, <2>5, <2>6
  <2> QED BY <2>7
<1>8. ASSUME NEW c \in DOMAIN closures \ {building.closure}, NEW u \in Elements(closures[c]),
             x = <<"upvalue", u>>
      PROVE  FALSE
  <2>1. PICK w \in DOMAIN upvalues : upvalues[w].at = q /\ x = <<"upvalue", w>>
    <3>1. \/ x = <<"slot", q>>
          \/ \E w \in DOMAIN upvalues : upvalues[w].at = q /\ x = <<"upvalue", w>>
      BY <1>3, <1>5, CellFacts DEF Sound
    <3>2. x # <<"slot", q>>
      BY <1>8, CellNames
    <3> QED BY <3>1, <3>2
  <2>2. w = u
    BY <1>8, <2>1, CellNames
  <2>3. upvalues[u].at # Frame.slots + Frame.locals - 1
    BY <1>8 DEF VariablesOK, BuildingOK
  <2> QED BY <1>4, <2>1, <2>2, <2>3
<1>9. \/ \E p \in {q2 \in Nat : Scoped(frames, building.named, q2)} : x = CellOf(upvalues, p)
      \/ \E u \in UNION {Elements(closures[c]) : c \in DOMAIN closures \ {building.closure}} :
           x = <<"upvalue", u>>
  BY <1>6 DEF Used, InUseBy
<1> QED BY <1>7, <1>8, <1>9

LEMMA FunctionDeclared ==
  ASSUME VariablesOK, VariablesOK', ClosureBuilt, building.named
  PROVE  L!Next
<1>1. /\ UNCHANGED <<closures, upvalues, stack, frames>> /\ building # NotBuilding
      /\ building'.closure = Script /\ building'.named = FALSE
      /\ PlacedOK /\ PlacedOK' /\ frames # <<>>
  BY DEF ClosureBuilt, heap, NotBuilding, VariablesOK, BuildingOK
<1>2. /\ Frame.slots \in Nat \ {0} /\ Frame.locals \in Nat \ {0}
      /\ Len(frames) \in 1 .. Len(frames)
  BY <1>1, TopOfStack
<1>3. PICK c : c = building.closure
  OBVIOUS
<1>4. /\ c \in DOMAIN CapturedCells' /\ L!NewClosure(c)
      /\ \A z \in L!Elements(CapturedCells'[c]) :
           \E u \in Elements(closures[c]) : z = <<"upvalue", u>>
  BY <1>1, <1>3, ClosureAdded
<1>5. PICK x : x = CellOf(upvalues, Frame.slots + Frame.locals - 1)
  OBVIOUS
<1>6. L!Elements(CapturedCells'[c]) \subseteq L!Visible \cup {x}
  BY <1>1, <1>3, <1>4, <1>5, BuiltCells
<1>7. PICK m : m = Frame.locals - 1
  OBVIOUS
<1>8. /\ m = Count(frames, building.named, Len(frames))
      /\ Count(frames', building'.named, Len(frames)) = m + 1
  BY <1>1, <1>2, <1>7 DEF Count, Frame
<1>9. x = CellOf(upvalues, Frame.slots + m)
  <2>1. Frame.slots + m = Frame.slots + Frame.locals - 1
    BY <1>2, <1>7
  <2> QED BY <1>5, <2>1
<1>10. ASSUME NEW d \in DOMAIN closures, NEW u \in Elements(closures[d])
       PROVE  u \in DOMAIN upvalues /\ (<<"upvalue", u>> \in Used \/ <<"upvalue", u>> = x)
  <2>1. Sound(stack, frames, upvalues, closures)
    BY <1>1, StateFacts
  <2>2. u \in DOMAIN upvalues
    BY <1>10, <2>1, ElementsOfSeq DEF Sound
  <2>3. CASE d = c
    BY <1>1, <1>3, <1>5, <1>10, <2>3, BuiltCells
  <2>4. CASE d # c
    <3>1. u \in UNION {Elements(closures[b]) : b \in DOMAIN closures \ {building.closure}}
      BY <1>3, <1>10, <2>4
    <3> QED BY <2>2, <3>1 DEF Used, InUseBy
  <2> QED BY <2>3, <2>4
<1>11. \A d \in DOMAIN closures' \ {building'.closure} : \A u \in Elements(closures'[d]) :
         u \in DOMAIN upvalues /\ (<<"upvalue", u>> \in Used \/ <<"upvalue", u>> = x)
  BY <1>1, <1>10
<1>12. /\ L!OneMoreLocal /\ L!StoreKeepsBut({x})
       /\ L!Top'.cells[Len(L!Top.cells) + 1] = x
       /\ Environments' = WithCells(Environments, Append(Environments[Len(Environments)].cells, x))
  <2>1. UNCHANGED <<stack, upvalues>>
    BY <1>1
  <2>2. /\ Len(frames') = Len(frames)
        /\ \A i \in 1 .. Len(frames) : i # Len(frames) => frames'[i] = frames[i]
        /\ frames'[Len(frames)].closure = Frame.closure
        /\ frames'[Len(frames)].slots = Frame.slots
    BY <1>1 DEF Frame
  <2> QED BY <1>1, <1>8, <1>9, <1>11, <2>1, <2>2, TopGrows
<1>13. x \notin L!Used
  BY <1>1, <1>5, FunctionUnused, UsedIs
<1>14. L!DeclareFunction(c)
  BY <1>4, <1>6, <1>12, <1>13 DEF L!DeclareFunction, WithCells
<1> QED BY <1>4, <1>14 DEF L!Next

----------------------------------------------------------------------------
(* Activations end. *)

LEMMA ActivationsEnd ==
  ASSUME PlacedOK, PlacedOK', Running, UNCHANGED <<closures, building>>,
         Len(frames') < Len(frames), \A i \in 1 .. Len(frames') : frames'[i] = frames[i],
         NEW h \in Nat, KeptBelow(upvalues, stack, upvalues', stack', h),
         frames' # <<>> => Frame.slots <= h
  PROVE  /\ L!StoreKeepsBut({}) /\ CapturedCells' = CapturedCells
         /\ Len(Environments) = Len(frames)
         /\ Environments' = SubSeq(Environments, 1, Len(frames'))
<1>1. frames # <<>> /\ building.named = FALSE
  BY Stepping
<1>2. PICK fs, fs2, us, us2, st, nm :
        /\ fs = frames /\ fs2 = frames' /\ us = upvalues /\ us2 = upvalues' /\ st = stack
        /\ nm = building.named
  OBVIOUS
<1>3. PICK e, e2 : e = Environments /\ e2 = Environments'
  OBVIOUS
<1>4. /\ EnvSeq(e, fs, us, nm) /\ EnvSeq(e2, fs2, us2, nm)
      /\ fs \in Seq(Activations) /\ fs2 \in Seq(Activations)
      /\ Fit(fs, Len(st)) /\ Len(st) \in Nat /\ Single(us) /\ Single(us2)
  BY <1>2, <1>3, EnvironmentsAre, StateFacts, NextFacts DEF Sound
<1>5. PICK k \in Nat, n \in Nat : k = Len(fs) /\ n = Len(fs2) /\ n < k
  BY <1>2, <1>4
<1>6. \A i \in 1 .. n : /\ i \in 1 .. k /\ i # k /\ fs2[i] = fs[i]
                        /\ Count(fs2, nm, i) = Count(fs, nm, i)
  BY <1>1, <1>2, <1>5 DEF Count
<1>7. ASSUME NEW i \in 1 .. n, NEW p,
             p \in fs[i].slots .. fs[i].slots + Count(fs, nm, i) - 1
      PROVE  p \in Nat \ {0} /\ p < h /\ Scoped(fs, nm, p)
  <2>1. Scoped(fs, nm, p)
    BY <1>5, <1>6, <1>7 DEF Scoped
  <2>2. p \in 1 .. Len(st)
    BY <1>4, <2>1, ScopedBelow
  <2>3. i \in 1 .. Len(fs) /\ i # Len(fs)
    BY <1>5, <1>6
  <2>4. p < fs[Len(fs)].slots
    BY <1>4, <1>7, <2>3, ScopedBelow
  <2>5. fs2 # <<>>
    BY <1>4, <1>5
  <2>6. fs[Len(fs)].slots <= h
    BY <1>2, <2>5 DEF Frame
  <2>7. fs[Len(fs)].slots \in Nat
    <3>1. Len(fs) \in 1 .. Len(fs)
      BY <1>5
    <3> QED BY <1>4, <3>1, SoundFrames
  <2>8. p \in Nat \ {0}
    BY <1>4, <2>2
  <2>9. p < h
    BY <2>4, <2>6, <2>7, <2>8
  <2> QED BY <2>1, <2>8, <2>9
<1>8. \A i \in 1 .. Len(fs2) : SameActivation(fs, us, nm, fs2, us2, nm, i)
  <2> TAKE i \in 1 .. Len(fs2)
  <2>1. i \in 1 .. n
    BY <1>5
  <2>2. ASSUME NEW p \in fs[i].slots .. fs[i].slots + Count(fs, nm, i) - 1
        PROVE  CellOf(us2, p) = CellOf(us, p)
    <3>1. p \in Nat \ {0} /\ p < h
      BY <1>7, <2>1
    <3> QED BY <1>2, <1>4, <3>1, KeptCells
  <2> QED BY <1>6, <2>1, <2>2 DEF SameActivation
<1>9. Len(e) = Len(fs) /\ e2 = SubSeq(e, 1, Len(fs2))
  <2>1. Len(fs2) <= Len(fs)
    BY <1>5
  <2> QED BY <1>4, <1>8, <2>1, EnvPrefix
<1>10. Grounded(frames, upvalues, building.named, closures, building.closure,
                frames', upvalues', building'.named, closures', building'.closure, h, {})
  <2>1. ASSUME NEW p \in Nat, Scoped(fs2, nm, p)
        PROVE  p \in Nat \ {0} /\ Scoped(fs, nm, p) /\ p < h
    <3>1. PICK i \in 1 .. n : p \in fs2[i].slots .. fs2[i].slots + Count(fs2, nm, i) - 1
      BY <1>5, <2>1 DEF Scoped
    <3>2. p \in fs[i].slots .. fs[i].slots + Count(fs, nm, i) - 1
      BY <1>6, <3>1
    <3> QED BY <1>7, <3>2
  <2>2. \A c \in DOMAIN closures' \ {building'.closure} : \A u \in Elements(closures'[c]) :
          /\ u \in DOMAIN upvalues \cap DOMAIN upvalues'
          /\ <<"upvalue", u>> \in InUseBy(frames, upvalues, building.named, closures, building.closure)
    BY HeldStay DEF Used
  <2> QED BY <1>2, <2>1, <2>2 DEF Grounded
<1>11. L!StoreKeepsBut({})
  BY <1>10, Kept
<1>12. CapturedCells' = CapturedCells
  BY Mapped, MappedNext
<1> QED BY <1>2, <1>3, <1>9, <1>11, <1>12

LEMMA ReturnLeaves ==
  ASSUME PlacedOK, PlacedOK', Return
  PROVE  L!Leave
<1>1. /\ Running /\ closeUpvalues(Frame.slots) /\ UNCHANGED <<closures, building>>
      /\ frames' = SubSeq(frames, 1, Len(frames) - 1)
      /\ stack' = IF Len(frames) = 1
                    THEN <<>>
                    ELSE Append(SubSeq(stack, 1, Frame.slots - 1), stack[Height])
  BY DEF Return, ReturnFrom, closeUpvalues
<1>2. frames # <<>>
  BY <1>1, Stepping
<1>3. /\ Height = Len(stack) /\ Height \in Nat /\ stack \in Seq(Values)
      /\ Frame.slots \in Nat \ {0} /\ Frame.locals \in Nat \ {0}
      /\ Frame.slots + Frame.locals <= Height + 1
      /\ Len(frames) \in 1 .. Len(frames) /\ frames \in Seq(Activations)
  BY <1>2, TopOfStack
<1>4. PICK k \in Nat \ {0} : k = Len(frames)
  BY <1>3
<1>5. PICK gs : gs = frames'
  OBVIOUS
<1>6. Len(gs) = k - 1 /\ \A i \in 1 .. k - 1 : gs[i] = frames[i]
  BY <1>1, <1>3, <1>4, <1>5
<1>7. Len(frames') = k - 1 /\ \A i \in 1 .. Len(frames') : frames'[i] = frames[i]
  BY <1>5, <1>6
<1>8. Sound(stack, frames, upvalues, closures)
  BY StateFacts
<1>9. PICK s \in Nat \ {0}, t \in Nat : s = Frame.slots /\ t = Height /\ s <= t
  <2>1. PICK s \in Nat \ {0}, l \in Nat \ {0}, t \in Nat :
          s = Frame.slots /\ l = Frame.locals /\ t = Height
    BY <1>3
  <2>2. s + l <= t + 1
    BY <1>3, <2>1
  <2>3. s <= t
    BY <2>2
  <2> QED BY <2>1, <2>3
<1>10. CASE k = 1
  <2>1. stack' = <<>> /\ Len(stack') = 0
    BY <1>1, <1>4, <1>10
  <2>2. ASSUME NEW u \in DOMAIN upvalues, upvalues[u].at # Closed
        PROVE  upvalues[u].at >= s
    <3>1. Covered(frames, upvalues[u].at)
      BY <1>8, <2>2 DEF Sound, Placed
    <3>2. PICK i \in 1 .. Len(frames) :
            upvalues[u].at \in frames[i].slots .. frames[i].slots + frames[i].locals - 1
      BY <3>1 DEF Covered
    <3>3. i = Len(frames)
      BY <1>4, <1>10, <3>2
    <3>4. upvalues[u].at \in s .. s + Frame.locals - 1
      BY <1>9, <3>2, <3>3 DEF Frame
    <3> QED BY <1>3, <3>4
  <2>3. KeptBelow(upvalues, stack, upvalues', stack', 1)
    <3>1. /\ s \in Nat /\ 1 \in Nat \ {0} /\ 1 <= s /\ Len(stack') \in Nat
          /\ 1 <= Height + 1 /\ 1 <= Len(stack') + 1
          /\ \A p \in Nat \ {0} : p < 1 => stack'[p] = stack[p]
      BY <1>9, <2>1
    <3>2. closeUpvalues(s)
      BY <1>1, <1>9
    <3> QED BY <2>2, <3>1, <3>2, ClosingKeeps
  <2>4. frames' = <<>> /\ Len(frames') < Len(frames)
    BY <1>1, <1>3, <1>4, <1>7, <1>10
  <2>5. /\ L!StoreKeepsBut({}) /\ CapturedCells' = CapturedCells
        /\ Len(Environments) = Len(frames)
        /\ Environments' = SubSeq(Environments, 1, Len(frames'))
    BY <1>1, <1>7, <2>3, <2>4, ActivationsEnd
  <2>6. Environments' = SubSeq(Environments, 1, Len(Environments) - 1)
    BY <1>4, <1>7, <2>5
  <2>7. Environments # <<>>
    BY <1>4, <2>5
  <2> QED BY <2>5, <2>6, <2>7 DEF L!Leave
<1>11. CASE k # 1
  <2>1. stack' = Append(SubSeq(stack, 1, s - 1), stack[Height])
    BY <1>1, <1>4, <1>9, <1>11
  <2>2. PICK b, c : b = SubSeq(stack, 1, s - 1) /\ c = stack'
    OBVIOUS
  <2>3. s - 1 \in 0 .. Len(stack)
    BY <1>3, <1>9
  <2>4. b \in Seq(Values) /\ Len(b) = s - 1 /\ \A p \in 1 .. s - 1 : b[p] = stack[p]
    BY <1>3, <2>2, <2>3, Cut
  <2>5. c = Append(b, stack[Height])
    BY <2>1, <2>2
  <2>6. stack[Height] \in Values
    BY <1>3, <1>9
  <2>7. Len(c) = s /\ \A p \in 1 .. s - 1 : c[p] = b[p]
    BY <1>9, <2>4, <2>5, <2>6
  <2>8. Len(stack') = s /\ \A p \in Nat \ {0} : p < s => stack'[p] = stack[p]
    <3>1. \A p \in 1 .. s - 1 : c[p] = stack[p]
      BY <2>4, <2>7
    <3>2. \A p \in Nat \ {0} : p < s => p \in 1 .. s - 1
      OBVIOUS
    <3> QED BY <2>2, <2>7, <3>1, <3>2
  <2>9. \A u \in DOMAIN upvalues : upvalues[u].at < s \/ upvalues[u].at >= s
    <3>1. \A u \in DOMAIN upvalues : upvalues[u].at \in Nat
      BY <1>8 DEF Sound, Upvalues
    <3> QED BY <1>9, <3>1
  <2>10. KeptBelow(upvalues, stack, upvalues', stack', s)
    <3>1. /\ s \in Nat /\ s <= s /\ Len(stack') \in Nat
          /\ s <= Height + 1 /\ s <= Len(stack') + 1
      BY <1>9, <2>8
    <3>2. closeUpvalues(s)
      BY <1>1, <1>9
    <3> QED BY <1>9, <2>8, <2>9, <3>1, <3>2, ClosingKeeps
  <2>11. Len(frames') < Len(frames) /\ Frame.slots <= s
    BY <1>4, <1>7, <1>9
  <2>12. /\ L!StoreKeepsBut({}) /\ CapturedCells' = CapturedCells
         /\ Len(Environments) = Len(frames)
         /\ Environments' = SubSeq(Environments, 1, Len(frames'))
    BY <1>1, <1>7, <2>10, <2>11, ActivationsEnd
  <2>13. Environments' = SubSeq(Environments, 1, Len(Environments) - 1)
    BY <1>4, <1>7, <2>12
  <2>14. Environments # <<>>
    BY <1>4, <2>12
  <2> QED BY <2>12, <2>13, <2>14 DEF L!Leave
<1> QED BY <1>10, <1>11

LEMMA ErrorLeaves ==
  ASSUME ErrorsSpare, PlacedOK, PlacedOK', runtimeError
  PROVE  L!Leave
<1>1. /\ Running /\ open = <<>> /\ stack' = <<>> /\ frames' = <<>>
      /\ upvalues' = InUse(upvalues, closures, <<>>) /\ UNCHANGED <<closures, building>>
  BY DEF runtimeError, ErrorsSpare, stack_reset
<1>2. frames # <<>>
  BY <1>1, Stepping
<1>3. Len(frames) \in Nat /\ Len(frames) # 0 /\ Len(stack) \in Nat
  <2>1. frames \in Seq(Activations) /\ Height = Len(stack) /\ Height \in Nat
    BY <1>2, TopOfStack
  <2> QED BY <1>2, <2>1
<1>4. \A u \in DOMAIN upvalues' : u \in DOMAIN upvalues /\ upvalues'[u] = upvalues[u]
  <2>1. PICK us : us = upvalues'
    OBVIOUS
  <2>2. us = InUse(upvalues, closures, <<>>)
    BY <1>1, <2>1
  <2>3. \A u \in DOMAIN us : u \in DOMAIN upvalues /\ us[u] = upvalues[u]
    BY <2>2 DEF InUse
  <2> QED BY <2>1, <2>3
<1>5. \A u \in DOMAIN upvalues : upvalues[u].at = Closed
  <2>1. Len(open) = 0
    BY <1>1
  <2>2. \A u \in DOMAIN upvalues : upvalues[u].at # Closed => \E i \in 1 .. 0 : open[i] = u
    BY <2>1 DEF PlacedOK, ListOK, Listed
  <2> QED BY <2>2
<1>6. KeptBelow(upvalues, stack, upvalues', stack', 1)
  <2>1. Sound(stack, frames, upvalues, closures)
    BY StateFacts
  <2>2. Len(stack') = 0
    BY <1>1
  <2>3. /\ 1 \in Nat /\ Len(stack') \in Nat /\ 1 <= Len(stack) + 1 /\ 1 <= Len(stack') + 1
        /\ \A p \in Nat \ {0} : p < 1 => stack'[p] = stack[p]
    BY <1>3, <2>2
  <2> QED BY <1>4, <1>5, <2>1, <2>3, KeptRestricted
<1>7. Len(frames') = 0
  BY <1>1
<1>8. Len(frames') < Len(frames) /\ \A i \in 1 .. Len(frames') : frames'[i] = frames[i]
  BY <1>3, <1>7
<1>9. /\ L!StoreKeepsBut({}) /\ CapturedCells' = CapturedCells
      /\ Len(Environments) = Len(frames)
      /\ Environments' = SubSeq(Environments, 1, Len(frames'))
  BY <1>1, <1>6, <1>8, ActivationsEnd
<1>10. Environments' = <<>>
  BY <1>7, <1>9
<1>11. Environments # <<>>
  BY <1>3, <1>9
<1> QED BY <1>9, <1>10, <1>11 DEF L!Leave

----------------------------------------------------------------------------
(* Activations start. *)

LEMMA Entering ==
  ASSUME PlacedOK, PlacedOK', building = NotBuilding, UNCHANGED <<upvalues, closures, building>>,
         Len(frames') = Len(frames) + 1,
         \A i \in 1 .. Len(frames) : frames'[i] = frames[i],
         NEW c, frames'[Len(frames) + 1].closure = c,
         c \in IF frames = <<>> THEN {Script} ELSE DOMAIN closures,
         NEW h \in Nat, KeptBelow(upvalues, stack, upvalues', stack', h),
         \A p : Scoped(frames, building.named, p) => p < h
  PROVE  L!Enter
<1>1. building.named = FALSE /\ building.closure = Script /\ building'.closure = Script
  BY DEF NotBuilding
<1>2. PICK fs, fs2, us, st, nm :
        /\ fs = frames /\ fs2 = frames' /\ us = upvalues /\ st = stack /\ nm = building.named
  OBVIOUS
<1>3. PICK e, e2 : e = Environments /\ e2 = Environments'
  OBVIOUS
<1>4. /\ EnvSeq(e, fs, us, nm) /\ EnvSeq(e2, fs2, us, nm)
      /\ fs \in Seq(Activations) /\ fs2 \in Seq(Activations)
      /\ Sound(st, fs, us, closures) /\ Fit(fs, Len(st)) /\ Len(st) \in Nat /\ Single(us)
      /\ Fit(fs2, Len(stack')) /\ Len(stack') \in Nat
  BY <1>2, <1>3, EnvironmentsAre, StateFacts, NextFacts DEF Sound
<1>5. PICK k \in Nat : /\ k = Len(fs) /\ k + 1 = Len(fs2) /\ k + 1 \in 1 .. Len(fs2)
                       /\ \A i \in 1 .. k : fs2[i] = fs[i]
  BY <1>2, <1>4
<1>6. PICK s \in Nat \ {0}, n \in Nat : s = fs2[k + 1].slots /\ n = fs2[k + 1].locals
  BY <1>4, <1>5, SoundFrames
<1>7. \A i \in 1 .. k + 1 : Count(fs2, nm, i) = fs2[i].locals
  BY <1>1, <1>2 DEF Count
<1>8. \A i \in 1 .. k : Count(fs2, nm, i) = Count(fs, nm, i)
  BY <1>1, <1>2, <1>5 DEF Count
(* Locals and open upvalues are below the new activation. *)
<1>9. \A p : Covered(fs, p) => p \in Nat \ {0} /\ p < s
  <2> TAKE p
  <2> HAVE Covered(fs, p)
  <2>1. fs # <<>> /\ p \in 1 .. Len(st) /\ p < fs[Len(fs)].slots + fs[Len(fs)].locals
    BY <1>4, OpenBelow
  <2>2. k # 0
    BY <1>4, <1>5, <2>1
  <2>3. k \in 1 .. Len(fs2) /\ k < Len(fs2) /\ fs2[k] = fs[k]
    BY <1>5, <2>2
  <2>4. fs2[k].slots + fs2[k].locals <= fs2[k + 1].slots
    BY <1>4, <2>3 DEF Fit
  <2>5. fs2[k].slots \in Nat /\ fs2[k].locals \in Nat
    BY <1>4, <2>3, SoundFrames
  <2>6. p < fs2[k].slots + fs2[k].locals
    BY <1>5, <2>1, <2>3
  <2>7. PICK a \in Nat, b \in Nat : a = fs2[k].slots /\ b = fs2[k].locals
    BY <2>5
  <2>8. a + b <= s /\ p < a + b /\ s \in Nat /\ p \in Nat \ {0}
    BY <1>4, <1>6, <2>1, <2>4, <2>6, <2>7
  <2> QED BY <2>8
<1>10. ASSUME NEW p \in s .. s + n - 1
       PROVE  p \in Nat \ {0} /\ CellOf(us, p) = <<"slot", p>> /\ CellOf(us, p) \notin Used
  <2>1. p \in Nat \ {0} /\ s <= p
    BY <1>6
  <2>2. ~ Covered(fs, p)
    BY <1>6, <1>9, <2>1
  <2>3. \A u \in DOMAIN us : us[u].at # p
    <3> SUFFICES ASSUME NEW u \in DOMAIN us, us[u].at = p PROVE FALSE
      OBVIOUS
    <3>1. us[u].at # Closed
      BY <2>1 DEF Closed
    <3> QED BY <1>4, <2>2, <3>1 DEF Sound, Placed
  <2>4. CellOf(us, p) = <<"slot", p>>
    BY <1>4, <2>1, <2>3, CellFacts
  <2>5. CellOf(us, p) \in Used => Scoped(frames, building.named, p)
    BY <2>4, UsedForms
  <2>6. Scoped(frames, building.named, p) => Covered(fs, p)
    BY <1>2, <1>4, OpenBelow
  <2> QED BY <2>1, <2>2, <2>4, <2>5, <2>6
<1>11. Len(e) = k /\ Len(e2) = k + 1 /\ e = SubSeq(e2, 1, Len(e))
  <2>1. \A i \in 1 .. Len(fs) : SameActivation(fs2, us, nm, fs, us, nm, i)
    BY <1>5, <1>8 DEF SameActivation
  <2>2. Len(fs) <= Len(fs2)
    BY <1>5
  <2>3. Len(e) = Len(fs) /\ Len(e2) = Len(fs2) /\ e = SubSeq(e2, 1, Len(fs))
    BY <1>4, <2>1, <2>2, EnvPrefix
  <2> QED BY <1>5, <2>3
<1>12. PICK top, cells : top = e2[k + 1] /\ cells = top.cells
  OBVIOUS
<1>13. /\ top = [closure |-> c, cells |-> cells]
       /\ DOMAIN cells = 1 .. n
       /\ \A j \in 1 .. n : cells[j] = CellOf(us, s + j - 1)
  <2>1. /\ Runs(e2[k + 1], fs2[k + 1].closure, e2[k + 1].cells)
        /\ Tuple(e2[k + 1].cells, Count(fs2, nm, k + 1))
        /\ \A j \in 1 .. Count(fs2, nm, k + 1) : e2[k + 1].cells[j] = CellOf(us, fs2[k + 1].slots + j - 1)
    BY <1>4, <1>5 DEF EnvSeq
  <2>2. Count(fs2, nm, k + 1) = n /\ fs2[k + 1].slots = s /\ fs2[k + 1].closure = c
    BY <1>2, <1>5, <1>6, <1>7
  <2>3. Runs(top, c, cells) /\ Tuple(cells, n)
        /\ \A j \in 1 .. n : cells[j] = CellOf(us, s + j - 1)
    BY <1>12, <2>1, <2>2
  <2> QED BY <2>3 DEF Runs, Tuple
<1>14. L!Top' = top
  BY <1>3, <1>11, <1>12 DEF L!Top
<1>15. ASSUME NEW j \in 1 .. n
       PROVE  s + j - 1 \in s .. s + n - 1 /\ s + j - 1 \in Nat \ {0}
  <2>1. s \in Nat \ {0} /\ n \in Nat /\ j \in 1 .. n
    BY <1>6
  <2> QED BY <2>1
<1>16. \A x \in L!Elements(cells) : x \notin Used
  BY <1>10, <1>13, <1>15 DEF L!Elements
<1>17. \A i, j \in DOMAIN cells : cells[i] = cells[j] => i = j
  <2> SUFFICES ASSUME NEW i \in 1 .. n, NEW j \in 1 .. n, cells[i] = cells[j] PROVE i = j
    BY <1>13
  <2>1. PICK p \in Nat \ {0}, q \in Nat \ {0} : p = s + i - 1 /\ q = s + j - 1
    BY <1>15
  <2>2. CellOf(us, p) = CellOf(us, q)
    BY <1>13, <2>1
  <2>3. p = q
    BY <1>4, <2>2, CellsDiffer
  <2>4. i \in Nat /\ j \in Nat
    OBVIOUS
  <2> QED BY <1>6, <2>1, <2>3, <2>4
<1>18. \A p \in s .. s + n - 1 : CellOf(us, p) \in L!Elements(cells)
  <2> TAKE p \in s .. s + n - 1
  <2>1. PICK j \in 1 .. n : p = s + j - 1
    <3>1. s \in Nat \ {0} /\ n \in Nat /\ p \in s .. s + n - 1
      BY <1>6
    <3>2. p - s + 1 \in 1 .. n /\ p = s + (p - s + 1) - 1
      BY <3>1
    <3> QED BY <3>2
  <2>2. cells[j] = CellOf(us, p) /\ j \in DOMAIN cells
    BY <1>13, <2>1
  <2> QED BY <2>2 DEF L!Elements
<1>19. Grounded(frames, upvalues, building.named, closures, building.closure,
                frames', upvalues', building'.named, closures', building'.closure, h,
                L!Elements(cells))
  <2>1. ASSUME NEW p \in Nat, Scoped(fs2, nm, p)
        PROVE  /\ p \in Nat \ {0}
               /\ (Scoped(fs, nm, p) /\ p < h) \/ CellOf(us, p) \in L!Elements(cells)
    <3>1. PICK i \in 1 .. k + 1 : p \in fs2[i].slots .. fs2[i].slots + Count(fs2, nm, i) - 1
      BY <1>5, <2>1 DEF Scoped
    <3>2. CASE i = k + 1
      <4>1. p \in s .. s + n - 1
        BY <1>5, <1>6, <1>7, <3>1, <3>2
      <4> QED BY <1>10, <1>18, <4>1
    <3>3. CASE i # k + 1
      <4>1. i \in 1 .. k
        BY <3>3
      <4>2. p \in fs[i].slots .. fs[i].slots + Count(fs, nm, i) - 1
        BY <1>5, <1>8, <3>1, <4>1
      <4>3. Scoped(fs, nm, p)
        BY <1>5, <4>1, <4>2 DEF Scoped
      <4>4. Covered(fs, p)
        BY <1>4, <4>3, OpenBelow
      <4> QED BY <1>2, <1>9, <4>3, <4>4
    <3> QED BY <3>2, <3>3
  <2>2. \A d \in DOMAIN closures' \ {building'.closure} : \A u \in Elements(closures'[d]) :
          /\ u \in DOMAIN upvalues \cap DOMAIN upvalues'
          /\ <<"upvalue", u>> \in InUseBy(frames, upvalues, building.named, closures, building.closure)
    BY HeldStay DEF Used
  <2> QED BY <1>2, <2>1, <2>2 DEF Grounded
<1>20. L!StoreKeepsBut(L!Elements(cells))
  BY <1>19, Kept
<1>21. CapturedCells' = CapturedCells
  BY Mapped, MappedNext
<1>22. c \in IF Environments = <<>> THEN {Script} ELSE DOMAIN CapturedCells
  <2>1. Environments = <<>> <=> frames = <<>>
    <3>1. EnvSeq(e, fs, us, nm)
      BY <1>4
    <3>2. e = <<>> <=> Len(e) = 0
      <4>1. DOMAIN e = 1 .. Len(e) /\ e = [i \in 1 .. Len(e) |-> e[i]]
        BY <1>5, <1>11, <3>1 DEF EnvSeq, Tuple
      <4>2. e \in Seq({e[i] : i \in 1 .. Len(e)})
        BY <1>5, <1>11, <4>1
      <4> QED BY <4>2
    <3>3. fs = <<>> <=> Len(fs) = 0
      BY <1>4
    <3> QED BY <1>2, <1>3, <1>5, <1>11, <3>2, <3>3
  <2>2. DOMAIN CapturedCells = DOMAIN closures \ {Script}
    <3>1. DOMAIN CapturedOf(closures, building.closure) = DOMAIN closures \ {building.closure}
      BY DEF CapturedOf
    <3> QED BY <1>1, <3>1, Mapped
  <2>3. Script \notin DOMAIN closures
    BY <1>4, VmAssumption DEF Sound
  <2> QED BY <2>1, <2>2, <2>3
<1>23. L!Elements(cells) \cap L!Used = {}
  BY <1>16, UsedIs
<1> QED BY <1>3, <1>11, <1>12, <1>13, <1>14, <1>17, <1>20, <1>21, <1>22, <1>23 DEF L!Enter

LEMMA interpretEnters ==
  ASSUME VariablesOK, VariablesOK', interpret
  PROVE  L!Enter
<1>1. /\ PlacedOK /\ PlacedOK' /\ frames = <<>> /\ stack' = <<Object>>
      /\ frames' = <<NewFrame(Script, 1, 1)>>
      /\ UNCHANGED <<upvalues, closures, building>>
  BY DEF interpret, heap, VariablesOK
<1>2. building = NotBuilding
  BY <1>1 DEF VariablesOK, BuildingOK
<1>3. Len(frames) = 0
  BY <1>1
<1>4. /\ Len(frames') = Len(frames) + 1 /\ frames'[Len(frames) + 1].closure = Script
      /\ \A i \in 1 .. Len(frames) : frames'[i] = frames[i]
  BY <1>1, <1>3 DEF NewFrame
<1>5. \A p : ~ Scoped(frames, building.named, p) /\ ~ Covered(frames, p)
  BY <1>3 DEF Scoped, Covered
<1>6. KeptBelow(upvalues, stack, upvalues', stack', 1)
  <2>1. Sound(stack, frames, upvalues, closures) /\ Len(stack) \in Nat
    BY <1>1, StateFacts
  <2>2. Len(stack') = 1
    BY <1>1
  <2>3. /\ 1 \in Nat /\ Len(stack') \in Nat /\ 1 <= Len(stack) + 1 /\ 1 <= Len(stack') + 1
        /\ \A p \in Nat \ {0} : p < 1 => stack'[p] = stack[p]
    BY <2>1, <2>2
  <2>4. \A u \in DOMAIN upvalues : upvalues[u].at = Closed
    BY <1>5, <2>1 DEF Sound, Placed
  <2> QED BY <1>1, <2>1, <2>3, <2>4, KeptRestricted
<1>7. 1 \in Nat /\ \A p : Scoped(frames, building.named, p) => p < 1
  BY <1>5
<1> QED BY <1>1, <1>2, <1>4, <1>6, <1>7, Entering

LEMMA CallEnters ==
  ASSUME ErrorsSpare, PlacedOK, PlacedOK',
         NEW c \in DOMAIN closures, NEW argCount \in Nat, Call(c, argCount)
  PROVE  L!Enter \/ L!Leave
<1>1. Running /\ call(c, argCount)
  BY DEF Call
<1>2. CASE RuntimeError
  BY <1>2, ErrorsReset, ErrorLeaves
<1>3. CASE /\ argCount <= Arity[c]
           /\ stack' = stack \o [j \in 1 .. Arity[c] - argCount |-> Nil]
           /\ frames' = Append(frames, NewFrame(c, CalleeSlots(c, argCount), Arity[c] + 1))
           /\ UNCHANGED <<heap, building>>
  <2>1. frames # <<>> /\ building = NotBuilding /\ UNCHANGED <<upvalues, closures, building>>
    BY <1>1, <1>3, Stepping DEF heap
  <2>2. /\ Height = Len(stack) /\ Height \in Nat /\ stack \in Seq(Values)
        /\ Frame.slots \in Nat \ {0} /\ Frame.locals \in Nat \ {0}
        /\ Frame.slots + Frame.locals <= Height + 1
        /\ Len(frames) \in 1 .. Len(frames) /\ frames \in Seq(Activations)
    BY <2>1, TopOfStack
  <2>3. PICK fr : fr = NewFrame(c, CalleeSlots(c, argCount), Arity[c] + 1)
    OBVIOUS
  <2>4. fr.closure = c
    BY <2>3 DEF NewFrame
  <2>5. PICK gs : gs = frames'
    OBVIOUS
  <2>6. gs = Append(frames, fr)
    BY <1>3, <2>3, <2>5
  <2>7. /\ Len(gs) = Len(frames) + 1 /\ gs[Len(frames) + 1] = fr
        /\ \A i \in 1 .. Len(frames) : gs[i] = frames[i]
    BY <2>2, <2>6
  <2>8. PICK d \in Nat : d = Arity[c] - argCount
    <3>1. c \in Closures
      <4>1. DOMAIN closures \subseteq Closures
        BY StateFacts DEF Sound
      <4> QED BY <4>1
    <3>2. Arity[c] \in Nat
      BY <3>1, VmAssumption
    <3> QED BY <1>3, <3>2
  <2>9. PICK nils : nils = [j \in 1 .. d |-> Nil]
    OBVIOUS
  <2>10. nils \in Seq(Values) /\ Len(nils) = d
    <3>1. Nil \in Values /\ d \in Nat
      BY VmAssumption
    <3> QED BY <2>9, <3>1
  <2>11. PICK after : after = stack' /\ after = stack \o nils
    BY <1>3, <2>8, <2>9
  <2>12. Len(after) = Len(stack) + d /\ \A p \in 1 .. Len(stack) : after[p] = stack[p]
    <3>1. PICK before : before = stack
      OBVIOUS
    <3>2. before \in Seq(Values) /\ nils \in Seq(Values) /\ after = before \o nils
      BY <2>2, <2>10, <2>11, <3>1
    <3>3. /\ Len(before \o nils) = Len(before) + Len(nils)
          /\ \A p \in 1 .. Len(before) : (before \o nils)[p] = before[p]
      BY <3>2, ConcatProperties
    <3> QED BY <2>10, <3>1, <3>2, <3>3
  <2>13. PICK t \in Nat : t = Len(stack)
    BY <2>2
  <2>14. PICK h \in Nat : h = t + 1
    OBVIOUS
  <2>15. KeptBelow(upvalues, stack, upvalues', stack', h)
    <3>1. Sound(stack, frames, upvalues, closures)
      BY StateFacts
    <3>2. Len(stack') = t + d
      BY <2>11, <2>12, <2>13
    <3>3. /\ Len(stack') \in Nat /\ h <= Len(stack) + 1 /\ h <= Len(stack') + 1
          /\ \A p \in 1 .. h - 1 : stack'[p] = stack[p]
      BY <2>8, <2>11, <2>12, <2>13, <2>14, <3>2
    <3>4. frames[Len(frames)].slots + frames[Len(frames)].locals <= h
      BY <2>2, <2>13, <2>14 DEF Frame
    <3>5. KeptBelow(upvalues, stack, upvalues, stack', h)
      BY <2>1, <3>1, <3>3, <3>4, KeptAbove
    <3> QED BY <2>1, <3>5
  <2>16. \A p : Scoped(frames, building.named, p) => p < h
    <3> TAKE p
    <3> HAVE Scoped(frames, building.named, p)
    <3>1. p \in 1 .. Len(stack)
      BY StateFacts, OpenBelow
    <3> QED BY <2>13, <2>14, <3>1
  <2>17. /\ Len(frames') = Len(frames) + 1 /\ frames'[Len(frames) + 1].closure = c
         /\ \A i \in 1 .. Len(frames) : frames'[i] = frames[i]
    BY <2>4, <2>5, <2>7
  <2> QED BY <2>1, <2>15, <2>16, <2>17, Entering
<1> QED BY <1>1, <1>2, <1>3 DEF call

----------------------------------------------------------------------------
(* The specification. *)

LEMMA ForgetForgets ==
  ASSUME PlacedOK, PlacedOK', NEW c \in DOMAIN closures, Forget(c)
  PROVE  L!Next
<1>1. PICK cs, us : cs = closures' /\ us = upvalues'
  OBVIOUS
<1>2. /\ building = NotBuilding /\ UNCHANGED <<stack, frames, open, building>>
      /\ \A i \in DOMAIN frames : frames[i].closure # c
      /\ cs = [d \in DOMAIN closures \ {c} |-> closures[d]] /\ us = InUse(upvalues, cs, open)
  BY <1>1 DEF Forget
<1>3. building.closure = Script /\ building'.closure = Script
  BY <1>2 DEF NotBuilding
<1>4. /\ Sound(stack, frames, upvalues, closures) /\ Len(stack) \in Nat
      /\ Fit(frames, Len(stack)) /\ Single(upvalues) /\ Single(us)
  BY <1>1, StateFacts, NextFacts DEF Sound
<1>5. DOMAIN cs = DOMAIN closures \ {c} /\ \A d \in DOMAIN cs : cs[d] = closures[d]
  BY <1>2
<1>6. /\ \A u \in DOMAIN us : u \in DOMAIN upvalues /\ us[u] = upvalues[u]
      /\ \A u \in DOMAIN upvalues : u \in Elements(open) => u \in DOMAIN us
      /\ \A d \in DOMAIN cs : \A u \in Elements(cs[d]) : u \in DOMAIN upvalues => u \in DOMAIN us
  BY <1>2 DEF InUse
<1>7. PICK h \in Nat : h = Len(stack) + 1
  BY <1>4
<1>8. ASSUME NEW u \in DOMAIN upvalues, upvalues[u].at # Closed
      PROVE  upvalues[u].at < h /\ u \in DOMAIN us
  <2>1. upvalues[u].at \in 1 .. Len(stack)
    BY <1>4, <1>8, OpenBelow
  <2>2. PICK i \in 1 .. Len(open) : open[i] = u
    BY <1>8 DEF PlacedOK, ListOK, Listed
  <2>3. DOMAIN open = 1 .. Len(open)
    BY ListTyped DEF PlacedOK, ListOK
  <2>4. u \in Elements(open)
    BY <2>2, <2>3 DEF Elements
  <2> QED BY <1>4, <1>6, <1>7, <2>1, <2>4
<1>9. KeptBelow(upvalues, stack, upvalues', stack', h)
  <2>1. /\ Len(stack') \in Nat /\ h <= Len(stack) + 1 /\ h <= Len(stack') + 1
        /\ \A p \in Nat \ {0} : p < h => stack'[p] = stack[p]
    BY <1>2, <1>4, <1>7
  <2> QED BY <1>1, <1>4, <1>6, <1>8, <2>1, KeptRestricted
<1>10. \A p : Scoped(frames, building.named, p) => p \in Nat \ {0} /\ p < h
  <2> TAKE p
  <2> HAVE Scoped(frames, building.named, p)
  <2>1. p \in 1 .. Len(stack)
    BY <1>4, OpenBelow
  <2> QED BY <1>4, <1>7, <2>1
<1>11. Grounded(frames, upvalues, building.named, closures, building.closure,
                frames', upvalues', building'.named, closures', building'.closure, h, {})
  <2>1. ASSUME NEW d \in DOMAIN cs \ {Script}, NEW u \in Elements(cs[d])
        PROVE  u \in DOMAIN upvalues \cap DOMAIN us /\ <<"upvalue", u>> \in Used
    <3>1. d \in DOMAIN closures \ {building.closure} /\ u \in Elements(closures[d])
      BY <1>3, <1>5, <2>1
    <3>2. u \in DOMAIN upvalues
      BY <1>4, <3>1, ElementsOfSeq DEF Sound
    <3>3. u \in UNION {Elements(closures[b]) : b \in DOMAIN closures \ {building.closure}}
      BY <3>1
    <3> QED BY <1>6, <2>1, <3>2, <3>3 DEF Used, InUseBy
  <2> QED BY <1>1, <1>2, <1>3, <1>10, <2>1 DEF Grounded, Used
<1>12. L!StoreKeepsBut({})
  BY <1>9, <1>11, Kept
<1>13. PICK e, e2, nm : e = Environments /\ e2 = Environments' /\ nm = building.named
  OBVIOUS
<1>14. EnvSeq(e, frames, upvalues, nm) /\ EnvSeq(e2, frames, us, nm)
  BY <1>1, <1>2, <1>13, EnvironmentsAre
<1>15. e2 = e
  <2>1. ASSUME NEW i \in 1 .. Len(frames)
        PROVE  e2[i] = e[i]
    <3>1. ASSUME NEW p \in frames[i].slots .. frames[i].slots + Count(frames, nm, i) - 1
          PROVE  CellOf(us, p) = CellOf(upvalues, p)
      <4>1. Scoped(frames, building.named, p)
        BY <1>13, <2>1, <3>1 DEF Scoped
      <4>2. p \in Nat \ {0} /\ p < h
        BY <1>10, <4>1
      <4> QED BY <1>1, <1>4, <1>9, <4>2, KeptCells
    <3>2. SameActivation(frames, upvalues, nm, frames, us, nm, i)
      BY <3>1 DEF SameActivation
    <3> QED BY <1>14, <3>2, SameRuns
  <2>2. e = [i \in 1 .. Len(frames) |-> e[i]] /\ e2 = [i \in 1 .. Len(frames) |-> e2[i]]
    BY <1>14 DEF EnvSeq, Tuple
  <2> QED BY <2>1, <2>2
<1>16. \A i \in DOMAIN Environments : Environments[i].closure # c
  <2>1. ASSUME NEW i \in DOMAIN e
        PROVE  e[i].closure # c
    <3>1. i \in 1 .. Len(frames)
      BY <1>14, <2>1 DEF EnvSeq
    <3>2. PICK r, cells : r = e[i] /\ cells = e[i].cells
      OBVIOUS
    <3>3. Runs(r, frames[i].closure, cells)
      BY <1>14, <3>1, <3>2 DEF EnvSeq
    <3>4. r.closure = frames[i].closure
      BY <3>3 DEF Runs
    <3>5. DOMAIN frames = 1 .. Len(frames)
      BY <1>4, SoundFrames
    <3> QED BY <1>2, <3>1, <3>2, <3>4, <3>5
  <2> QED BY <1>13, <2>1
<1>17. PICK k, k2 : k = CapturedOf(closures, Script) /\ k2 = CapturedOf(cs, Script)
  OBVIOUS
<1>18. k2 = [d \in DOMAIN k \ {c} |-> k[d]] /\ DOMAIN k = DOMAIN closures \ {Script}
  <2>1. DOMAIN k = DOMAIN closures \ {Script} /\ DOMAIN k2 = DOMAIN k \ {c}
    BY <1>5, <1>17 DEF CapturedOf
  <2>2. ASSUME NEW d \in DOMAIN k \ {c}
        PROVE  k2[d] = k[d]
    <3>1. PICK s : s = closures[d]
      OBVIOUS
    <3>2. cs[d] = s /\ d \in DOMAIN closures \ {Script} /\ d \in DOMAIN cs \ {Script}
      BY <1>5, <2>1, <3>1
    <3>3. k[d] = [i \in DOMAIN s |-> <<"upvalue", s[i]>>]
      BY <1>17, <3>1, <3>2 DEF CapturedOf
    <3>4. k2[d] = [i \in DOMAIN s |-> <<"upvalue", s[i]>>]
      BY <1>17, <3>2 DEF CapturedOf
    <3> QED BY <3>3, <3>4
  <2>3. k2 = [d \in DOMAIN k2 |-> k2[d]]
    BY <1>17 DEF CapturedOf
  <2> QED BY <2>1, <2>2, <2>3
<1>19. CapturedCells = k /\ CapturedCells' = k2
  BY <1>1, <1>3, <1>17, Mapped, MappedNext
<1>20. c \in DOMAIN CapturedCells
  <2>1. Script \notin DOMAIN closures
    BY <1>4, VmAssumption DEF Sound
  <2> QED BY <1>18, <1>19, <2>1
<1>21. L!Forget(c)
  BY <1>12, <1>13, <1>15, <1>16, <1>18, <1>19 DEF L!Forget
<1> QED BY <1>20, <1>21 DEF L!Next

LEMMA Unchanged ==
  ASSUME PlacedOK, PlacedOK', UNCHANGED vars
  PROVE  UNCHANGED L!vars
<1>1. UNCHANGED <<stack, frames, upvalues, closures, building>>
  BY DEF vars
<1>2. Environments' = Environments /\ CapturedCells' = CapturedCells
  BY <1>1, Mapped, MappedNext
<1>3. InUseCells' = InUseCells
  BY <1>2, Mapped, MappedNext
<1>4. Contents' = Contents
  BY <1>1, <1>3, Mapped, MappedNext
<1> QED BY <1>2, <1>4 DEF L!vars

LEMMA StartsEmpty == Init => VariablesOK /\ L!Init
<1> SUFFICES ASSUME Init PROVE VariablesOK /\ L!Init
  OBVIOUS
<1>1. /\ frames = <<>> /\ building = NotBuilding /\ Len(frames) = 0 /\ DOMAIN frames = {}
      /\ open = <<>> /\ DOMAIN upvalues = {} /\ DOMAIN closures = {}
  BY DEF Init
<1>2. VariablesOK
  <2>1. Listed(upvalues, open) /\ Placed(upvalues, frames)
    BY <1>1 DEF Listed, Placed
  <2> QED BY <1>1, <2>1, MachineInit DEF VariablesOK, BuildingOK, PlacedOK, ListOK
<1>3. Environments = <<>>
  BY <1>1, Mapped DEF EnvOf
<1>4. CapturedCells = [c \in {} |-> <<>>]
  <2>1. PICK k : k = CapturedOf(closures, building.closure)
    OBVIOUS
  <2>2. DOMAIN k = {} /\ k = [c \in DOMAIN k |-> k[c]]
    BY <1>1, <2>1 DEF CapturedOf
  <2>3. k = [c \in {} |-> <<>>]
    BY <2>2
  <2> QED BY <2>1, <2>3, Mapped
<1>5. InUseCells = {}
  BY <1>3, <1>4, Mapped DEF UsedOf
<1>6. Contents = [x \in {} |-> 0]
  <2>1. Contents = [x \in {} |-> Value(upvalues, stack, x)]
    BY <1>5, Mapped
  <2> QED BY <2>1
<1> QED BY <1>2, <1>3, <1>4, <1>6 DEF L!Init

LEMMA VariablesNext ==
  ASSUME ErrorsSpare, BreaksSpare, VariablesOK, [Next]_vars
  PROVE  L!Next \/ UNCHANGED L!vars
<1>1. VariablesOK' /\ PlacedOK /\ PlacedOK'
  BY BuildingNext DEF VariablesOK
<1>2. CASE interpret
  BY <1>1, <1>2, interpretEnters DEF L!Next
<1>3. CASE RuntimeError \/ BitwiseError \/ StackOverflow
  BY <1>1, <1>3, ErrorsReset, ErrorLeaves DEF L!Next
<1>4. CASE PopValue
  BY <1>1, <1>4, PopValueStutters
<1>5. ASSUME NEW v \in Values, PushValue(v)
      PROVE  UNCHANGED L!vars
  BY <1>1, <1>5, Stepping, PushStutters DEF PushValue, heap
<1>6. ASSUME NEW i \in Nameable, GetLocal(i)
      PROVE  UNCHANGED L!vars
  BY <1>1, <1>6, Stepping, PushStutters DEF GetLocal, heap
<1>7. ASSUME NEW i \in Nameable, SetLocal(i)
      PROVE  L!Next
  BY <1>1, <1>7, SetLocalAssigns
<1>8. ASSUME frames # <<>>, NEW i \in Nameable, CaptureLocal(i)
      PROVE  L!Next \/ UNCHANGED L!vars
  <2>1. PICK p, u : p = Position(i) /\ u = UpvalueOf(p)
    OBVIOUS
  <2>2. CASE u \in DOMAIN upvalues \/ ~ Scoped(frames, building.named, p)
    BY <1>1, <1>8, <2>1, <2>2, CaptureLocalStutters
  <2>3. CASE u \notin DOMAIN upvalues /\ Scoped(frames, building.named, p)
    BY <1>1, <1>8, <2>1, <2>3, CaptureLocalMoves
  <2> QED BY <2>2, <2>3
<1>9. ASSUME NEW u \in Outer, GetUpvalue(u)
      PROVE  UNCHANGED L!vars
  BY <1>1, <1>9, Stepping, PushStutters DEF GetUpvalue, heap
<1>10. ASSUME NEW u \in Outer, SetUpvalue(u)
       PROVE  L!Next
  BY <1>1, <1>10, SetUpvalueAssigns
<1>11. ASSUME NEW u \in Outer, CaptureOuter(u)
       PROVE  UNCHANGED L!vars
  BY <1>1, <1>11, CaptureOuterStutters
<1>12. CASE DeclareLocal
  BY <1>1, <1>12, DeclareLocalDeclares DEF L!Next
<1>13. CASE beginScope
  BY <1>1, <1>13, beginScopeStutters
<1>14. CASE endScope
  BY <1>1, <1>14, endScopeEnds
<1>15. ASSUME NEW n \in DOMAIN Frame.scopes, LeaveLoop(n)
       PROVE  L!Next \/ UNCHANGED L!vars
  BY <1>1, <1>15, LeaveLoopEnds
<1>16. ASSUME NEW c \in Closures, NEW named \in BOOLEAN, NewClosure(c, named)
       PROVE  UNCHANGED L!vars
  BY <1>1, <1>16, NewClosureStutters
<1>17. CASE ClosureBuilt
  BY <1>1, <1>17, ClosureMade, FunctionDeclared
<1>18. ASSUME NEW c \in DOMAIN closures, Forget(c)
       PROVE  L!Next
  BY <1>1, <1>18, ForgetForgets
<1>19. ASSUME NEW argCount \in 0 .. MaxTemporaries - 1, NEW c \in DOMAIN closures, Call(c, argCount)
       PROVE  L!Next
  <2>1. argCount \in Nat
    BY Bounds
  <2>2. L!Enter \/ L!Leave
    BY <1>1, <1>19, <2>1, CallEnters
  <2> QED BY <2>2 DEF L!Next
<1>20. ASSUME NEW argCount \in 0 .. MaxTemporaries - 1, NEW v \in Values, CallNative(argCount, v)
       PROVE  UNCHANGED L!vars
  <2>1. argCount \in Nat
    BY Bounds
  <2> QED BY <1>1, <1>20, <2>1, CallNativeStutters
<1>21. CASE Return
  BY <1>1, <1>21, ReturnLeaves DEF L!Next
<1>22. CASE UNCHANGED vars
  BY <1>1, <1>22, Unchanged
<1> QED
  BY <1>2, <1>3, <1>4, <1>5, <1>6, <1>7, <1>8, <1>9, <1>10, <1>11, <1>12, <1>13, <1>14, <1>15,
     <1>16, <1>17, <1>18, <1>19, <1>20, <1>21, <1>22 DEF Next

(* Slots, frames and upvalues implement lexical variables: every step of the *)
(* machine is a step of Lexical on the cells that the stack and the upvalues *)
(* hold, or changes none of them.  A read gives the value last assigned to   *)
(* the variable, whoever calls, returns, ends scopes, captures or collects.  *)
THEOREM VmImplementsLexical ==
  ASSUME ErrorsSpare, BreaksSpare
  PROVE  Spec => LexicalSpec
<1>1. Init => VariablesOK /\ L!Init
  BY StartsEmpty
<1>2. VariablesOK /\ [Next]_vars => VariablesOK'
  BY BuildingNext
<1>3. VariablesOK /\ [Next]_vars => [L!Next]_(L!vars)
  BY VariablesNext
<1> QED BY <1>1, <1>2, <1>3, PTL DEF Spec, L!Spec, LexicalSpec
=============================================================================
