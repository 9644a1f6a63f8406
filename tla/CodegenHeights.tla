--------------------------- MODULE CodegenHeights ---------------------------
(***************************************************************************)
(* Theorems about the code that the compiler writes, for any program: what *)
(* is on the stack of the machine, on every path, is what the compiler     *)
(* counts on, and every finished function but an initializer runs.         *)
(* A map has the height of the stack at each instruction of a function; a  *)
(* frame has what the parser knows of it; the items still to do turn the   *)
(* frame of now, one after another, into that of the function's end.       *)
(***************************************************************************)
EXTENDS CodegenProofs

(* What the parser knows, when its frame or the code changes. *)

With(t, size, pending, temps) == [t EXCEPT !.size = size, !.pending = pending, !.temps = temps]
Pendings == {"none", "variable", "function", "parameters"}

LEMMA FrameTyped ==
  ASSUME NEW t \in Frames
  PROVE  /\ t.size \in Nat /\ t.pending \in Pendings /\ t.temps \in Nat /\ t.depth \in Nat /\ t.loops \in Nat
         /\ t.sizes \in [Nat -> Pos] /\ t.floors \in [Nat -> Pos]
         /\ \A i \in Nat : t.sizes[i] \in Nat /\ t.sizes[i] > 0 /\ t.floors[i] \in Nat /\ t.floors[i] > 0
<1>1. t.sizes \in [Nat -> Pos] /\ t.floors \in [Nat -> Pos]
  BY DEF Frames
<1>2. \A i \in Nat : t.sizes[i] \in Pos /\ t.floors[i] \in Pos
  BY <1>1
<1>3. \A i \in Pos : i \in Nat /\ i > 0
  BY DEF Pos
<1> QED BY <1>1, <1>2, <1>3 DEF Frames, Pendings

LEMMA WithIs ==
  ASSUME NEW t \in Frames, NEW size \in Nat, NEW pending \in Pendings, NEW temps \in Nat,
         NEW u, u = With(t, size, pending, temps)
  PROVE  u \in Frames /\ Becomes(t, u, size, pending, temps)
         /\ u.size = size /\ u.pending = pending /\ u.temps = temps /\ u.depth = t.depth /\ u.loops = t.loops
         /\ u.sizes = t.sizes /\ u.floors = t.floors
<1>1. /\ u.size = size /\ u.pending = pending /\ u.temps = temps /\ u.depth = t.depth /\ u.loops = t.loops
      /\ u.sizes = t.sizes /\ u.floors = t.floors /\ u \in Frames
  BY DEF With, Frames, Pendings
<1> QED BY <1>1 DEF Becomes

LEMMA BecomesOn ==
  ASSUME NEW t \in Frames, NEW u, NEW v, NEW a, NEW b, NEW c, Becomes(t, u, a, b, c), NEW x, NEW y, NEW z
  PROVE  /\ Becomes(u, v, x, y, z) => Becomes(t, v, x, y, z)
         /\ Becomes(t, v, x, y, z) => Becomes(u, v, x, y, z)
<1>1. u.depth = t.depth /\ u.loops = t.loops
  BY DEF Becomes
<1> QED BY <1>1 DEF Becomes

(* A size that was not known. *)
LEMMA SizeLearned ==
  ASSUME NEW t \in Frames, NEW u \in Frames, NEW pending, NEW temps, Becomes(t, u, 0, pending, temps),
         NEW n \in Nat, NEW v, v = [u EXCEPT !.size = n]
  PROVE  v \in Frames /\ Becomes(t, v, n, pending, temps) /\ Settles(u, v)
<1>1. /\ v.size = n /\ v.pending = u.pending /\ v.temps = u.temps /\ v.depth = u.depth /\ v.loops = u.loops
      /\ v.sizes = u.sizes /\ v.floors = u.floors /\ v \in Frames
  BY DEF Frames
<1>2. Becomes(t, v, n, pending, temps)
  BY <1>1 DEF Becomes
<1>3. u.size = 0
  BY DEF Becomes
<1> QED BY <1>1, <1>2, <1>3 DEF Settles

(* The same compiler but for its code. *)
Alike(f, g) ==
  /\ f \in CompilersTyped /\ g \in CompilersTyped
  /\ g.locals = f.locals /\ g.scopeDepth = f.scopeDepth /\ g.loops = f.loops

LEMMA AlikeTyped ==
  ASSUME NEW f \in CompilersTyped, NEW c \in Codes
  PROVE  Alike(f, WithCode(f, c)) /\ Alike(f, f)
BY WithCodeTyped DEF Alike

LEMMA LoopingKept ==
  ASSUME NEW f, NEW h, NEW t, Looping(f, h, t), NEW g, Alike(f, g), NEW k, Grows(f, h, g, k),
         NEW u, u.loops = t.loops, \A i \in 1 .. t.loops : u.floors[i] = t.floors[i], t.loops \in Nat, Values(u) = Values(t)
  PROVE  Looping(g, k, u)
<1>1. Count(f) \in Nat /\ Count(g) \in Nat
  BY Counts DEF Alike
<1>2. /\ \A n : \A at \in Int : Starts(h, at, n) => Starts(k, at, n)
      /\ \A n : \A at \in Int : Jumps(f, h, at, n) => Jumps(g, k, at, n)
  BY <1>1, JumpsGrow
<1>3. g.loops = f.loops /\ f.loops \in Seq(Loops) /\ t.loops = Len(f.loops)
  BY DEF Alike, Looping, CompilersTyped
<1>4. ASSUME NEW i \in 1 .. t.loops
      PROVE  /\ g.loops[i].enterParamCount = u.floors[i] /\ Starts(k, g.loops[i].start, u.floors[i])
             /\ \A j \in 1 .. Len(g.loops[i].breakJumps) : Jumps(g, k, g.loops[i].breakJumps[j], u.floors[i])
  <2>1. f.loops[i] \in Loops
    BY <1>3, ElementOfSeq
  <2>2. f.loops[i].start \in Int /\ f.loops[i].breakJumps \in Seq(Int)
    BY <2>1 DEF Loops
  <2>3. \A j \in 1 .. Len(f.loops[i].breakJumps) : f.loops[i].breakJumps[j] \in Int
    BY <2>2, ElementOfSeq
  <2>4. /\ f.loops[i].enterParamCount = t.floors[i] /\ Starts(h, f.loops[i].start, t.floors[i])
        /\ \A j \in 1 .. Len(f.loops[i].breakJumps) : Jumps(f, h, f.loops[i].breakJumps[j], t.floors[i])
    BY DEF Looping
  <2>5. u.floors[i] = t.floors[i]
    OBVIOUS
  <2> QED BY <1>2, <1>3, <2>2, <2>3, <2>4, <2>5
<1>5. u.loops > 0 => u.floors[u.loops] <= Values(u)
  <2>1. HAVE u.loops > 0
  <2>2. u.floors[u.loops] = t.floors[t.loops]
    BY <2>1
  <2> QED BY <2>1, <2>2 DEF Looping
<1> QED BY <1>3, <1>4, <1>5 DEF Looping

LEMMA FittingKept ==
  ASSUME NEW f, NEW t \in Frames, Fitting(f, t), NEW g, Alike(f, g), NEW u \in Frames, NEW temps,
         Becomes(t, u, t.size, t.pending, temps), t.pending # "parameters" \/ g = f
  PROVE  Fitting(g, u)
<1>1. u.size = t.size /\ u.pending = t.pending /\ u.depth = t.depth /\ \A i \in 1 .. t.depth : u.sizes[i] = t.sizes[i]
  BY DEF Becomes
<1>2. Values(u) = Values(t) /\ Last(g) = Last(f) /\ g.locals = f.locals /\ g.scopeDepth = f.scopeDepth /\ g.loops = f.loops
  BY <1>1 DEF Values, Last, Alike
<1>3. \A d \in 1 .. u.depth : /\ u.sizes[d] <= u.size
                              /\ \A i \in 1 .. u.size : i <= u.sizes[d] <=> g.locals[i].depth \in 0 .. d - 1
  BY <1>1, <1>2 DEF Fitting
<1> QED BY <1>1, <1>2, <1>3 DEF Fitting

(* The frame after code that takes and leaves values. *)
LEMMA HoldsAfter ==
  ASSUME NEW f, NEW h, NEW t \in Frames, Holds(f, h, t), NEW g, Alike(f, g), NEW k, Grows(f, h, g, k),
         NEW u \in Frames, NEW temps, Becomes(t, u, t.size, t.pending, temps), t.pending # "parameters" \/ g = f,
         Ends(g, k, Values(t) + temps)
  PROVE  Holds(g, k, u)
<1>1. Fitting(g, u)
  BY FittingKept DEF Holds
<1>2. /\ u.size = t.size /\ u.pending = t.pending /\ u.temps = temps /\ u.loops = t.loops
      /\ \A i \in 1 .. t.loops : u.floors[i] = t.floors[i]
  BY DEF Becomes
<1>3. Values(u) = Values(t) /\ Height(u) = Values(t) + temps
  BY <1>2 DEF Values, Height
<1>4. Looping(g, k, u)
  BY <1>2, <1>3, LoopingKept, FrameTyped DEF Holds
<1> QED BY <1>1, <1>3, <1>4 DEF Holds

LEMMA HoldsLike ==
  ASSUME NEW f \in CompilersTyped, NEW h, NEW t \in Frames, Holds(f, h, t), NEW u \in Frames,
         Becomes(t, u, t.size, t.pending, t.temps)
  PROVE  Holds(f, h, u)
<1>1. Alike(f, f) /\ Grows(f, h, f, h)
  BY Counts, GrowsSelf DEF Alike
<1>2. Ends(f, h, Values(t) + t.temps)
  BY DEF Holds, Height
<1> QED BY <1>1, <1>2, HoldsAfter

(* What Moves says, item by item. *)
LEMMA MovesExpression ==
  ASSUME NEW f, NEW h, NEW t \in Frames, NEW x \in Items, x.do \in {"expression", "named", "initializer"}, NEW u
  PROVE  Moves(f, h, t, x, u) <=> /\ t.size > 0 /\ t.pending \notin {"function", "parameters"}
                                  /\ Becomes(t, u, t.size, t.pending, t.temps + 1)
BY DEF Moves, ForTasks, Wild, Closing

LEMMA MovesFunction ==
  ASSUME NEW f, NEW h, NEW t \in Frames, NEW x \in Items, x.do = "function", NEW u
  PROVE  Moves(f, h, t, x, u) <=> /\ t.size > 0 /\ t.pending \notin {"variable", "parameters"}
                                  /\ Becomes(t, u, t.size, t.pending, t.temps + 1)
BY DEF Moves, ForTasks, Wild, Closing

LEMMA MovesEmit ==
  ASSUME NEW f, NEW h, NEW t \in Frames, NEW x \in Items, x.do \in {"emit", "access"}, NEW u
  PROVE  Moves(f, h, t, x, u) <=> /\ t.size > 0 /\ t.pending # "parameters" /\ Simple(x, t)
                                  /\ Becomes(t, u, t.size, t.pending, t.temps - Takes(x.code, 1) + Leaves(x.code, 1))
BY DEF Moves, ForTasks, Wild, Closing

LEMMA MovesOver ==
  ASSUME NEW f, NEW h, NEW t \in Frames, NEW x \in Items, x.do \in {"objectEnds", "patch", "shortcut", "methods"}, NEW u
  PROVE  Moves(f, h, t, x, u) <=>
           /\ t.size > 0 /\ t.pending # "parameters" /\ Becomes(t, u, t.size, t.pending, t.temps)
           /\ x.do = "patch" => Jumps(f, h, x.at, Height(t))
           /\ x.do = "shortcut" => t.temps > 0 /\ t.pending # "function" /\ x.name \in {"JUMP_IF_FALSE", "JUMP_IF_TRUE"}
           /\ x.do = "methods" => t.pending = "none" /\ t.temps > 0
BY DEF Moves, ForTasks, Wild, Closing

LEMMA MovesStatement ==
  ASSUME NEW f, NEW h, NEW t \in Frames, NEW x \in Items, x.do \in {"statement", "case", "else"}, NEW u
  PROVE  Moves(f, h, t, x, u) <=> /\ t.size > 0 /\ t.pending = "none" /\ t.temps = 0
                                  /\ Becomes(t, u, t.size, "none", 0)
                                  /\ x.do = "else" => Jumps(f, h, x.at, t.size)
BY DEF Moves, ForTasks, Wild, Closing

LEMMA MovesThen ==
  ASSUME NEW f, NEW h, NEW t \in Frames, NEW x \in Items, x.do = "then", NEW u
  PROVE  Moves(f, h, t, x, u) <=> /\ t.size > 0 /\ t.pending = "none" /\ t.temps = 1
                                  /\ Becomes(t, u, t.size, "none", 0)
BY DEF Moves, ForTasks, Wild, Closing

LEMMA MovesClosing ==
  ASSUME NEW f, NEW h, NEW t \in Frames, NEW x \in Items, x.do \in Closing, NEW u
  PROVE  Moves(f, h, t, x, u) <=> /\ x.do \notin Wild => t.size > 0
                                  /\ t.pending = "none" /\ t.temps = 0 /\ Becomes(t, u, 0, "none", 0)
BY DEF Moves, ForTasks, Wild, Closing

LEMMA MovesParameters ==
  ASSUME NEW f, NEW h, NEW t \in Frames, NEW x \in Items, x.do = "parameters", NEW u
  PROVE  Moves(f, h, t, x, u) <=> /\ t.size > 0 /\ t.pending = "parameters" /\ t.temps = 0
                                  /\ Becomes(t, u, 0, "none", 0)
BY DEF Moves, ForTasks, Wild, Closing

LEMMA MovesDefine ==
  ASSUME NEW f, NEW h, NEW t \in Frames, NEW x \in Items, x.do = "define", NEW u
  PROVE  Moves(f, h, t, x, u) <=> /\ t.size > 0 /\ t.pending # "parameters" /\ t.temps = 1
                                  /\ t.pending = "none" <=> t.depth = 0
                                  /\ Becomes(t, u, 0, "none", 0)
BY DEF Moves, ForTasks, Wild, Closing

LEMMA MovesLeaving ==
  ASSUME NEW f, NEW h, NEW t \in Frames, NEW x \in Items, x.do \in ForTasks \cup {"endScope", "forEnds"}, NEW u
  PROVE  Moves(f, h, t, x, u) <=>
           /\ x.do \notin {"endScope", "forCondition"} => t.size > 0
           /\ t.pending = "none" /\ t.temps = IF x.do = "forExit" THEN 1 ELSE 0
           /\ x.do # "forEnds" => Leaving(t, u, t.loops)
           /\ x.do = "forEnds" => t.loops > 0 /\ t.floors[t.loops] = t.size /\ Leaving(t, u, t.loops - 1)
           /\ x.do \notin {"endScope", "forCondition"} =>
                Starts(h, x.at, t.size) /\ (x.exit # NoJump => Jumps(f, h, x.exit, t.size))
           /\ x.do = "forLoop" => Jumps(f, h, x.code, t.size) /\ Starts(h, x.code + 2, t.size)
BY DEF Moves, ForTasks, Wild, Closing

(* Leaving depends on a frame's scopes and loops alone. *)
LEMMA LeavingFrom ==
  ASSUME NEW t \in Frames, NEW u, NEW v \in Frames, NEW n, Leaving(t, u, n),
         NEW size, NEW temps, Becomes(t, v, size, "none", temps), n \in Nat, n <= t.loops
  PROVE  Leaving(v, u, n)
<1>1. /\ v.depth = t.depth /\ v.loops = t.loops /\ v.pending = "none"
      /\ \A i \in 1 .. t.depth : v.sizes[i] = t.sizes[i]
      /\ \A i \in 1 .. t.loops : v.floors[i] = t.floors[i]
  BY DEF Becomes
<1>2. t.depth \in Nat /\ t.depth > 0 /\ u.depth = t.depth - 1 /\ t.loops \in Nat
  BY FrameTyped DEF Leaving
<1>3. /\ u.size = t.sizes[t.depth]
      /\ \A i \in 1 .. u.depth : u.sizes[i] = t.sizes[i]
      /\ \A i \in 1 .. n : u.floors[i] = t.floors[i]
      /\ n > 0 => t.floors[n] <= u.size
  BY DEF Leaving
<1>4. v.sizes[t.depth] = t.sizes[t.depth]
  BY <1>1, <1>2
<1>5. \A i \in 1 .. u.depth : u.sizes[i] = v.sizes[i]
  BY <1>1, <1>2, <1>3
<1>6. \A i \in 1 .. n : u.floors[i] = v.floors[i]
  BY <1>1, <1>2, <1>3
<1>7. n > 0 => v.floors[n] <= u.size
  BY <1>1, <1>2, <1>3
<1> QED BY <1>1, <1>2, <1>3, <1>4, <1>5, <1>6, <1>7 DEF Leaving

----------------------------------------------------------------------------
(* Expressions. *)

(* A step that leaves the compilers; one that writes code. *)
LEMMA Stays ==
  ASSUME CodegenOK, CodegenOK', status = "compiling", status' = "compiling", compilers' = compilers,
         NEW h, NEW t \in Frames, Holds(Current, h, t), NEW s \in Seq(Items), NEW u, Meets(h, t, s, u),
         NEW v \in Frames, Becomes(t, v, t.size, t.pending, t.temps),
         NEW items \in Seq(Items), NEW w, Steps(Current, h, items, v, w), Settles(u, w), todo' = items \o s
  PROVE  HeightOK'
<1>1. PICK f : f = Current
  OBVIOUS
<1>2. f \in CompilersTyped
  BY <1>1, Meeting
<1>3. compilers' = [compilers EXCEPT ![Len(compilers)] = f]
  <2>1. compilers \in Seq(Sound)
    BY DEF CodegenOK
  <2> QED BY <1>1, <2>1 DEF Current
<1>4. Grows(Current, h, f, h)
  BY <1>1, <1>2, Counts, GrowsSelf
<1>5. Holds(f, h, v)
  BY <1>1, <1>2, HoldsLike
<1>6. Steps(f, h, items, v, w)
  BY <1>1
<1> QED BY <1>3, <1>4, <1>5, <1>6, Rises

LEMMA Adds_ ==
  ASSUME CodegenOK, CodegenOK', status = "compiling", status' = "compiling",
         NEW h, NEW t \in Frames, Holds(Current, h, t), NEW s \in Seq(Items), NEW u, Meets(h, t, s, u),
         NEW g, compilers' = [compilers EXCEPT ![Len(compilers)] = g], Alike(Current, g),
         NEW k, Grows(Current, h, g, k), t.pending # "parameters", NEW temps, Ends(g, k, Values(t) + temps),
         NEW v \in Frames, Becomes(t, v, t.size, t.pending, temps),
         NEW items \in Seq(Items), NEW w, Steps(g, k, items, v, w), Settles(u, w), todo' = items \o s
  PROVE  HeightOK'
<1>1. Holds(g, k, v)
  BY HoldsAfter
<1> QED BY <1>1, Rises

LEMMA Settled ==
  ASSUME NEW u \in Frames
  PROVE  Settles(u, u)
BY DEF Settles

(* An item that is done, when there is no other. *)
LEMMA Drops ==
  ASSUME CodegenOK, CodegenOK', HeightOK, status = "compiling", status' = "compiling", compilers' = compilers,
         First.do \in {"block", "comma", "methods", "classEnds"}, Continue(<<>>)
  PROVE  HeightOK'
<1>1. PICK h, t : /\ t \in Frames /\ Holds(Current, h, t)
                  /\ First.do \notin Terminators =>
                       \E u \in Frames : Moves(Current, h, t, First, u) /\ Meets(h, t, Tail(todo), u)
  BY Arrives
<1>2. PICK u \in Frames : Moves(Current, h, t, First, u) /\ Meets(h, t, Tail(todo), u)
  BY <1>1 DEF Terminators
<1>3. First \in Items /\ Tail(todo) \in Seq(Items)
  BY Meeting
<1>4. t.size \in Nat
  BY <1>1, FrameTyped
<1>5. \E v \in Frames : Becomes(t, v, t.size, t.pending, t.temps) /\ Settles(u, v)
  <2>1. CASE First.do = "methods"
    <3>1. Becomes(t, u, t.size, t.pending, t.temps)
      BY <1>1, <1>2, <1>3, <2>1, MovesOver
    <3> QED BY <3>1, Settled
  <2>2. CASE First.do # "methods"
    <3>1. t.pending = "none" /\ t.temps = 0 /\ Becomes(t, u, 0, "none", 0)
      <4>1. First.do \in Closing
        BY <2>2 DEF Closing
      <4> QED BY <1>1, <1>2, <1>3, <4>1, MovesClosing
    <3>2. PICK v : v = [u EXCEPT !.size = t.size]
      OBVIOUS
    <3>3. v \in Frames /\ Becomes(t, v, t.size, "none", 0) /\ Settles(u, v)
      BY <1>1, <1>4, <3>1, <3>2, SizeLearned
    <3> QED BY <3>1, <3>3
  <2> QED BY <2>1, <2>2
<1>6. PICK v \in Frames : Becomes(t, v, t.size, t.pending, t.temps) /\ Settles(u, v)
  BY <1>5
<1>7. PICK items : items = <<>>
  OBVIOUS
<1>8. items \in Seq(Items) /\ Steps(Current, h, items, v, v) /\ todo' = items \o Tail(todo)
  BY <1>6, <1>7, Steps0 DEF Continue
<1> QED BY <1>1, <1>2, <1>3, <1>6, <1>8, Stays

LEMMA NestingKept ==
  ASSUME NEW f \in CompilersTyped, NEW h, NEW n, Ends(f, h, n), NEW d \in Int, NEW g, g = [f EXCEPT !.objectNestingDepth = d]
  PROVE  Alike(f, g) /\ Grows(f, h, g, h) /\ Ends(g, h, n)
<1>1. /\ g \in CompilersTyped /\ g.locals = f.locals /\ g.scopeDepth = f.scopeDepth /\ g.loops = f.loops
      /\ g.code = f.code /\ g.arity = f.arity /\ g.type = f.type /\ g.upvalues = f.upvalues
  BY DEF CompilersTyped
<1>2. Count(f) = Count(g) /\ Count(f) \in Nat
  BY <1>1, Counts DEF Count
<1>3. \A p : Maps(f, h, p) => Maps(g, h, p)
  BY <1>1 DEF Maps, Dead, Executes
<1>4. Ends(g, h, n)
  BY <1>1, <1>2, <1>3 DEF Ends, Mapped
<1> QED BY <1>1, <1>2, <1>4 DEF Alike, Grows

LEMMA objectEndsRises == ASSUME CodegenOK, CodegenOK', HeightOK, objectEnds PROVE HeightOK'
<1>1. status = "compiling" /\ status' = "compiling" /\ First.do = "objectEnds" /\ Continue(<<>>)
  BY DEF objectEnds, Doing, Same, Steady
<1>2. PICK h, t : /\ t \in Frames /\ Holds(Current, h, t)
                  /\ First.do \notin Terminators =>
                       \E u \in Frames : Moves(Current, h, t, First, u) /\ Meets(h, t, Tail(todo), u)
  BY <1>1, Arrives
<1>3. PICK u \in Frames : Moves(Current, h, t, First, u) /\ Meets(h, t, Tail(todo), u)
  BY <1>1, <1>2 DEF Terminators
<1>4. First \in Items /\ Tail(todo) \in Seq(Items) /\ Current \in CompilersTyped
  BY <1>1, Meeting
<1>5. t.pending # "parameters" /\ Becomes(t, u, t.size, t.pending, t.temps)
  BY <1>1, <1>2, <1>3, <1>4, MovesOver
<1>6. PICK d \in Int : d = Current.objectNestingDepth - 1
  BY <1>4 DEF CompilersTyped
<1>7. PICK g : g = [Current EXCEPT !.objectNestingDepth = d]
  OBVIOUS
<1>8. Ends(Current, h, Values(t) + t.temps)
  BY <1>2 DEF Holds, Height
<1>9. Alike(Current, g) /\ Grows(Current, h, g, h) /\ Ends(g, h, Values(t) + t.temps)
  BY <1>4, <1>7, <1>8, NestingKept
<1>10. compilers' = [compilers EXCEPT ![Len(compilers)] = g]
  BY <1>6, <1>7 DEF objectEnds, Now
<1>11. PICK items : items = <<>>
  OBVIOUS
<1>12. items \in Seq(Items) /\ Steps(g, h, items, u, u) /\ todo' = items \o Tail(todo) /\ Settles(u, u)
  BY <1>1, <1>11, Steps0, Settled DEF Continue
<1> QED BY <1>1, <1>2, <1>3, <1>4, <1>5, <1>9, <1>10, <1>12, Adds_

(* The parser at its first item, which turns t into u. *)
AtFirst(h, t, u) ==
  /\ t \in Frames /\ u \in Frames /\ Holds(Current, h, t)
  /\ Moves(Current, h, t, First, u) /\ Meets(h, t, Tail(todo), u)

LEMMA Arriving ==
  ASSUME CodegenOK, HeightOK, status = "compiling", First.do \notin Terminators
  PROVE  \E h, t, u : AtFirst(h, t, u)
<1>1. PICK h, t : t \in Frames /\ Holds(Current, h, t) /\ \E u \in Frames : Moves(Current, h, t, First, u) /\ Meets(h, t, Tail(todo), u)
  BY Arrives
<1> QED BY <1>1 DEF AtFirst

(* Items that do what the first would have done. *)
LEMMA Becoming ==
  ASSUME CodegenOK, CodegenOK', status = "compiling", status' = "compiling", compilers' = compilers,
         NEW h, NEW t, NEW u, AtFirst(h, t, u), NEW items \in Seq(Items), Continue(items), Steps(Current, h, items, t, u)
  PROVE  HeightOK'
<1>1. Becomes(t, t, t.size, t.pending, t.temps) /\ Settles(u, u) /\ Tail(todo) \in Seq(Items)
  BY Settled, Meeting DEF Becomes, AtFirst
<1> QED BY <1>1, Stays DEF AtFirst, Continue

LEMMA Writing_ ==
  ASSUME CodegenOK, CodegenOK', status = "compiling", status' = "compiling", NEW h, NEW t, NEW u, AtFirst(h, t, u),
         t.pending # "parameters", NEW g, Now(g), \E c \in Codes : g = WithCode(Current, c), NEW temps,
         NEW items \in Seq(Items), Continue(items), NEW v \in Frames, Becomes(t, v, t.size, t.pending, temps),
         NEW w, Settles(u, w),
         \E k : Ends(g, k, Values(t) + temps) /\ Grows(Current, h, g, k) /\ Steps(g, k, items, v, w)
  PROVE  HeightOK'
<1>1. Tail(todo) \in Seq(Items) /\ Current \in CompilersTyped
  BY Meeting
<1>2. Alike(Current, g)
  BY <1>1, AlikeTyped
<1>3. PICK k : Ends(g, k, Values(t) + temps) /\ Grows(Current, h, g, k) /\ Steps(g, k, items, v, w)
  OBVIOUS
<1> QED BY <1>1, <1>2, <1>3, Adds_ DEF AtFirst, Now, Continue

LEMMA FirstTyped ==
  ASSUME CodegenOK, NEW h, NEW t, NEW u, AtFirst(h, t, u), status = "compiling"
  PROVE  /\ First \in Items /\ Current \in CompilersTyped /\ Len(Current.upvalues) \in Nat
         /\ t \in Frames /\ u \in Frames /\ Moves(Current, h, t, First, u)
         /\ t.temps \in Nat /\ t.size \in Nat /\ t.depth \in Nat /\ t.loops \in Nat /\ t.pending \in Pendings
         /\ Values(t) \in Nat /\ Values(t) > 0 /\ Height(t) = Values(t) + t.temps /\ Height(t) \in Nat
         /\ Holds(Current, h, t) /\ Ends(Current, h, Height(t)) /\ t.size > 0
         /\ t.pending \in {"none", "parameters"} => Values(t) = t.size
<1>1. First \in Items /\ Current \in CompilersTyped
  BY Meeting
<1>2. t \in Frames /\ u \in Frames /\ Moves(Current, h, t, First, u) /\ Holds(Current, h, t)
  BY DEF AtFirst
<1>3. t.temps \in Nat /\ t.size \in Nat /\ t.depth \in Nat /\ t.loops \in Nat /\ t.pending \in Pendings
  BY <1>2, FrameTyped
<1>4. Values(t) > 0 /\ Ends(Current, h, Height(t))
  BY <1>2 DEF Holds, Fitting
<1>5. Values(t) \in Int /\ Height(t) = Values(t) + t.temps
  BY <1>3 DEF Values, Height
<1>6. Len(Current.upvalues) \in Nat
  BY <1>1, LenProperties DEF CompilersTyped
<1> QED BY <1>1, <1>2, <1>3, <1>4, <1>5, <1>6 DEF Values

LEMMA initializerRises == ASSUME CodegenOK, CodegenOK', HeightOK, initializer PROVE HeightOK'
<1>1. /\ status = "compiling" /\ status' = "compiling" /\ First.do = "initializer" /\ compilers' = compilers
      /\ \E rest \in {Expression, Emit(<<Op("NIL")>>)} : Continue(<<rest>>)
  BY DEF initializer, Doing, Same, Steady
<1>2. PICK h, t, u : AtFirst(h, t, u)
  BY <1>1, Arriving DEF Terminators
<1>3. /\ First \in Items /\ t \in Frames /\ u \in Frames /\ Moves(Current, h, t, First, u) /\ t.temps \in Nat
  BY <1>1, <1>2, FirstTyped
<1>4. t.size > 0 /\ t.pending \notin {"function", "parameters"} /\ Becomes(t, u, t.size, t.pending, t.temps + 1)
  BY <1>1, <1>3, MovesExpression
<1>5. PICK rest \in {Expression, Emit(<<Op("NIL")>>)} : Continue(<<rest>>)
  BY <1>1
<1>6. rest \in Items /\ rest.do \notin Terminators /\ Moves(Current, h, t, rest, u)
  <2>1. CASE rest = Expression
    BY <1>3, <1>4, <2>1, ExpressionMade, Does, MovesExpression DEF Terminators
  <2>2. CASE rest = Emit(<<Op("NIL")>>)
    <3>1. PICK c : c = <<Op("NIL")>>
      OBVIOUS
    <3>2. c \in Codes /\ c[1].op = "NIL" /\ Decodes(c, 1) /\ Len(c) = 1 + OperandSize(c, 1)
      BY <3>1, OneCell DEF Lone, Ops, Shorts, Bytes
    <3>3. Takes(c, 1) = 0 /\ Leaves(c, 1) = 1
      BY <3>2 DEF Takes, Leaves
    <3>4. rest \in Items /\ rest.do = "emit" /\ rest.code = c
      BY <2>2, <3>1, <3>2, EmitMade DEF Emit, Item
    <3>5. Simple(rest, t)
      BY <1>3, <3>2, <3>3, <3>4 DEF Simple, Forward
    <3> QED BY <1>3, <1>4, <3>3, <3>4, <3>5, MovesEmit DEF Terminators
  <2> QED BY <2>1, <2>2
<1>7. Steps(Current, h, <<rest>>, t, u) /\ <<rest>> \in Seq(Items)
  BY <1>3, <1>6, Steps1
<1> QED BY <1>1, <1>2, <1>5, <1>7, Becoming

(* A name read or written instead of the expression. *)
LEMMA NamedRises ==
  ASSUME CodegenOK, CodegenOK', HeightOK, Doing("expression"), status' = status, compilers' = compilers,
         NEW verb \in {"get", "set"}, NEW x \in Identifiers, Continue(<<Named(verb, x)>>)
  PROVE  HeightOK'
<1>1. status = "compiling" /\ status' = "compiling" /\ First.do = "expression"
  BY DEF Doing
<1>2. PICK h, t, u : AtFirst(h, t, u)
  BY <1>1, Arriving DEF Terminators
<1>3. /\ First \in Items /\ t \in Frames /\ u \in Frames /\ Moves(Current, h, t, First, u)
  BY <1>1, <1>2, FirstTyped
<1>4. PICK y : y = Named(verb, x)
  OBVIOUS
<1>5. y \in Items /\ y.do = "named"
  BY <1>4, NamedMade
<1>6. Moves(Current, h, t, y, u)
  BY <1>1, <1>3, <1>5, MovesExpression
<1>7. Steps(Current, h, <<y>>, t, u) /\ <<y>> \in Seq(Items)
  BY <1>3, <1>5, <1>6, Steps1 DEF Terminators
<1> QED BY <1>1, <1>2, <1>4, <1>7, Becoming

LEMMA variablesRise ==
  ASSUME CodegenOK, CodegenOK', HeightOK,
         this_ \/ \E verb \in DOMAIN Instructions, x \in Names : variable(verb, x)
  PROVE  HeightOK'
<1>1. CASE this_
  <2>1. CASE classes = 0
    BY <1>1, <2>1 DEF this_, fail, HeightOK
  <2>2. CASE classes # 0
    <3>1. "get" \in {"get", "set"} /\ "this" \in Identifiers
      BY DEF Identifiers
    <3>2. Doing("expression") /\ status' = status /\ compilers' = compilers /\ Continue(<<Named("get", "this")>>)
      BY <1>1, <2>2 DEF this_, Steady
    <3> QED BY <3>1, <3>2, NamedRises
  <2> QED BY <2>1, <2>2
<1>2. CASE \E verb \in DOMAIN Instructions, x \in Names : variable(verb, x)
  <2>1. PICK verb \in DOMAIN Instructions, x \in Names : variable(verb, x)
    BY <1>2
  <2>2. verb \in {"get", "set"} /\ x \in Identifiers
    BY DEF Instructions, Identifiers
  <2>3. Doing("expression") /\ status' = status /\ compilers' = compilers /\ Continue(<<Named(verb, x)>>)
    BY <2>1 DEF variable, Steady
  <2> QED BY <2>2, <2>3, NamedRises
<1> QED BY <1>1, <1>2

(* A frame with other values above. *)
LEMMA Amid ==
  ASSUME NEW t \in Frames, NEW temps \in Nat
  PROVE  \E v \in Frames : /\ Becomes(t, v, t.size, t.pending, temps) /\ Values(v) = Values(t)
                           /\ v.size = t.size /\ v.pending = t.pending /\ v.temps = temps
                           /\ \A u, x, y, z : Becomes(t, u, x, y, z) => Becomes(v, u, x, y, z)
<1>1. t.size \in Nat /\ t.pending \in Pendings
  BY FrameTyped
<1>2. PICK v : v = With(t, t.size, t.pending, temps)
  OBVIOUS
<1>3. /\ v \in Frames /\ Becomes(t, v, t.size, t.pending, temps)
      /\ v.size = t.size /\ v.pending = t.pending /\ v.temps = temps
  BY <1>1, <1>2, WithIs
<1>4. Values(v) = Values(t)
  BY <1>3 DEF Values
<1>5. ASSUME NEW u, NEW x, NEW y, NEW z, Becomes(t, u, x, y, z) PROVE Becomes(v, u, x, y, z)
  BY <1>3, <1>5, BecomesOn
<1> QED BY <1>3, <1>4, <1>5

LEMMA logicalRises == ASSUME CodegenOK, CodegenOK', HeightOK, NEW form \in DOMAIN Shortcut, logical(form) PROVE HeightOK'
<1>1. PICK y : y = [Item("shortcut") EXCEPT !.name = Shortcut[form]]
  OBVIOUS
<1>2. /\ status = "compiling" /\ status' = "compiling" /\ First.do = "expression" /\ compilers' = compilers
      /\ Continue(<<Expression, y>>)
  BY <1>1 DEF logical, Doing, Steady
<1>3. PICK h, t, u : AtFirst(h, t, u)
  BY <1>2, Arriving DEF Terminators
<1>4. /\ First \in Items /\ t \in Frames /\ u \in Frames /\ Moves(Current, h, t, First, u) /\ t.temps \in Nat
  BY <1>2, <1>3, FirstTyped
<1>5. t.size > 0 /\ t.pending \notin {"function", "parameters"} /\ Becomes(t, u, t.size, t.pending, t.temps + 1)
  BY <1>2, <1>4, MovesExpression
<1>6. Shortcut[form] \in {"JUMP_IF_FALSE", "JUMP_IF_TRUE"} /\ Shortcut[form] \in Ops
  BY DEF Shortcut, Ops
<1>7. y \in Items /\ y.do = "shortcut" /\ y.name = Shortcut[form]
  <2>1. Item("shortcut") \in ItemRecords /\ Item("shortcut").do = "shortcut"
    BY ItemFields DEF Tasks, ExpressionTasks
  <2>2. y \in ItemRecords /\ y.do = "shortcut" /\ y.name = Shortcut[form]
    BY <1>1, <1>6, <2>1, ItemChanged
  <2> QED BY <1>6, <2>2 DEF Items, Details
<1>8. PICK n : n = t.temps + 1 /\ n \in Nat /\ n > 0
  BY <1>4
<1>9. PICK v \in Frames : /\ Becomes(t, v, t.size, t.pending, n) /\ v.size = t.size /\ v.pending = t.pending /\ v.temps = n
                          /\ \A w, a, b, c : Becomes(t, w, a, b, c) => Becomes(v, w, a, b, c)
  BY <1>4, <1>8, Amid
<1>10. Moves(Current, h, t, Expression, v)
  BY <1>4, <1>5, <1>8, <1>9, ExpressionMade, Does, MovesExpression
<1>11. Moves(Current, h, v, y, u)
  BY <1>4, <1>5, <1>6, <1>7, <1>8, <1>9, MovesOver
<1>12. Steps(Current, h, <<Expression, y>>, t, u) /\ <<Expression, y>> \in Seq(Items)
  <2>1. Expression.do \notin Terminators /\ y.do \notin Terminators /\ Expression \in Items
    BY <1>7, Does, ExpressionMade DEF Terminators
  <2> QED BY <1>4, <1>7, <1>9, <1>10, <1>11, <2>1, Steps2
<1> QED BY <1>2, <1>3, <1>12, Becoming

LEMMA EmitOne ==
  ASSUME NEW f \in CompilersTyped, NEW a \in Codes
  PROVE  emit(f, a) = WithCode(f, f.code \o a) /\ f.code \o a \in Codes /\ \E c \in Codes : emit(f, a) = WithCode(f, c)
BY EmitTyped

(* One instruction instead of the expression. *)
LEMMA LiteralRises ==
  ASSUME CodegenOK, CodegenOK', HeightOK, Doing("expression"), status' = status, NEW c \in Codes,
         Now(emit(Current, c)), Continue(<<>>), Decodes(c, 1), Len(c) = 1 + OperandSize(c, 1),
         c[1].op \in {"NIL", "CONSTANT", "MODULE_BUILTIN"}
  PROVE  HeightOK'
<1>1. status = "compiling" /\ status' = "compiling" /\ First.do = "expression"
  BY DEF Doing
<1>2. PICK h, t, u : AtFirst(h, t, u)
  BY <1>1, Arriving DEF Terminators
<1>3. /\ First \in Items /\ t \in Frames /\ u \in Frames /\ Moves(Current, h, t, First, u) /\ t.temps \in Nat
      /\ Values(t) \in Nat /\ Values(t) > 0 /\ Height(t) = Values(t) + t.temps /\ Ends(Current, h, Height(t))
      /\ Current \in CompilersTyped
  BY <1>1, <1>2, FirstTyped
<1>4. t.size > 0 /\ t.pending \notin {"function", "parameters"} /\ Becomes(t, u, t.size, t.pending, t.temps + 1)
  BY <1>1, <1>3, MovesExpression
<1>5. Takes(c, 1) = 0 /\ Leaves(c, 1) = 1
  BY DEF Takes, Leaves
<1>6. c[1].op \notin Forward \cup {"LOOP", "CLOSURE", "GET_LOCAL", "SET_LOCAL", "GET_UPVALUE", "SET_UPVALUE"}
  BY DEF Forward
<1>7. PICK g : g = emit(Current, c)
  OBVIOUS
<1>8. \E k : Ends(g, k, Values(t) + (t.temps - Takes(c, 1) + Leaves(c, 1))) /\ Grows(Current, h, g, k)
  <2>1. Takes(c, 1) <= t.temps /\ Ends(Current, h, Values(t) + t.temps)
    BY <1>3, <1>5
  <2> QED BY <1>3, <1>6, <1>7, <2>1, EmitsCode
<1>9. PICK n : n = t.temps + 1 /\ n = t.temps - Takes(c, 1) + Leaves(c, 1)
  <2>1. PICK m \in Nat : m = t.temps
    BY <1>3
  <2>2. m - 0 + 1 = m + 1
    OBVIOUS
  <2> QED BY <1>5, <2>1, <2>2
<1>10. PICK k : Ends(g, k, Values(t) + n) /\ Grows(Current, h, g, k)
  BY <1>8, <1>9
<1>11. PICK items : items = <<>>
  OBVIOUS
<1>12. items \in Seq(Items) /\ Steps(g, k, items, u, u) /\ Continue(items) /\ Settles(u, u)
  BY <1>3, <1>11, Steps0, Settled
<1>13. \E d \in Codes : g = WithCode(Current, d)
  BY <1>3, <1>7, EmitOne
<1>14. Becomes(t, u, t.size, t.pending, n) /\ Now(g) /\ t.pending # "parameters"
  BY <1>4, <1>7, <1>9
<1> QED BY <1>1, <1>2, <1>3, <1>10, <1>12, <1>13, <1>14, Writing_

LEMMA literalRises == ASSUME CodegenOK, CodegenOK', HeightOK, literal PROVE HeightOK'
<1>1. Doing("expression") /\ status' = status /\ Continue(<<>>)
  BY DEF literal, Same, Steady
<1>2. \E c \in Codes : /\ Now(emit(Current, c)) /\ Decodes(c, 1) /\ Len(c) = 1 + OperandSize(c, 1)
                       /\ c[1].op \in {"NIL", "CONSTANT", "MODULE_BUILTIN"}
  <2>1. CASE Now(emit(Current, <<Op("NIL")>>))
    <3>1. PICK c : c = <<Op("NIL")>>
      OBVIOUS
    <3> QED BY <2>1, <3>1, OneCell DEF Lone, Ops, Shorts, Bytes
  <2>2. CASE Now(emit(Current, emitConstantCommond("CONSTANT")))
    <3>1. PICK c : c = emitConstantCommond("CONSTANT")
      OBVIOUS
    <3> QED BY <2>2, <3>1, ThreeCells DEF Shorts
  <2>3. CASE Now(emit(Current, <<Op("MODULE_BUILTIN"), Byte(0)>>))
    <3>1. PICK c : c = <<Op("MODULE_BUILTIN"), Byte(0)>>
      OBVIOUS
    <3>2. 0 \in Int /\ 0 < Base
      BY Bytes_
    <3> QED BY <2>3, <3>1, <3>2, TwoCells DEF Bytes
  <2> QED BY <2>1, <2>2, <2>3 DEF literal
<1> QED BY <1>1, <1>2, LiteralRises

LEMMA emitItemRises == ASSUME CodegenOK, CodegenOK', AccessOK, HeightOK, emitItem PROVE HeightOK'
<1>1. /\ status = "compiling" /\ status' = "compiling" /\ First.do \in {"emit", "access"}
      /\ Now(emit(Current, First.code)) /\ Continue(<<>>)
  BY DEF emitItem, Doing, Same, Steady
<1>2. PICK h, t, u : AtFirst(h, t, u)
  BY <1>1, Arriving DEF Terminators
<1>3. /\ First \in Items /\ t \in Frames /\ u \in Frames /\ Moves(Current, h, t, First, u) /\ t.temps \in Nat
      /\ Values(t) \in Nat /\ Values(t) > 0 /\ Ends(Current, h, Height(t)) /\ Current \in CompilersTyped
  BY <1>1, <1>2, FirstTyped
<1>4. PICK i \in Items : i = First
  BY <1>3
<1>5. i.code \in Codes
  BY <1>1, <1>4 DEF Items, Details
<1>6. PICK n : n = t.temps - Takes(i.code, 1) + Leaves(i.code, 1)
  OBVIOUS
<1>7. t.pending # "parameters" /\ Simple(i, t) /\ Becomes(t, u, t.size, t.pending, n)
  BY <1>1, <1>3, <1>4, <1>6, MovesEmit
<1>8. i.code[1].op \in {"GET_UPVALUE", "SET_UPVALUE"} => ReadByte(i.code, 2) < Len(Current.upvalues)
  <2>1. HAVE i.code[1].op \in {"GET_UPVALUE", "SET_UPVALUE"}
  <2>2. i.do = "access"
    BY <1>1, <1>4, <1>7, <2>1 DEF Simple
  <2>3. Good(compilers, i)
    <3>1. todo \in Seq(Items) /\ todo # <<>>
      BY <1>1, Meeting DEF CodegenOK
    <3>2. 1 \in 1 .. Len(todo)
      BY <3>1, LenProperties
    <3> QED BY <1>1, <1>4, <2>2, <3>2 DEF AccessOK, First
  <2>4. i.code[2].byte + 1 \in 1 .. Len(Current.upvalues)
    BY <2>1, <2>3 DEF Good, Current
  <2>5. i.code[2].byte \in Int
    <3>1. Decodes(i.code, 1) /\ OperandSize(i.code, 1) = 1
      BY <1>7, <2>1 DEF Simple, OperandSize, Shorts, Bytes
    <3>2. 2 \in 1 .. Len(i.code)
      BY <1>5, <3>1, LenProperties DEF Codes, Decodes
    <3>3. i.code[2] \in Cells
      BY <1>5, <3>2, ElementOfSeq DEF Codes
    <3> QED BY <3>3 DEF Cells
  <2>6. PICK b, m : b = i.code[2].byte /\ m = Len(Current.upvalues)
    OBVIOUS
  <2>7. m \in Nat /\ b \in Int /\ b + 1 \in 1 .. m
    BY <1>1, <1>2, <2>4, <2>5, <2>6, FirstTyped
  <2>8. b < m
    BY <2>7
  <2> QED BY <2>6, <2>8 DEF ReadByte
<1>9. PICK g : g = emit(Current, i.code)
  OBVIOUS
<1>10. PICK k : Ends(g, k, Values(t) + n) /\ Grows(Current, h, g, k)
  BY <1>3, <1>5, <1>6, <1>7, <1>8, <1>9, EmitsSimple
<1>11. PICK items : items = <<>>
  OBVIOUS
<1>12. items \in Seq(Items) /\ Steps(g, k, items, u, u) /\ Continue(items) /\ Settles(u, u)
  BY <1>1, <1>3, <1>11, Steps0, Settled
<1>13. (\E d \in Codes : g = WithCode(Current, d)) /\ Now(g)
  BY <1>1, <1>3, <1>4, <1>5, <1>9, EmitOne
<1> QED BY <1>1, <1>2, <1>3, <1>7, <1>10, <1>12, <1>13, Writing_

LEMMA patchItemRises == ASSUME CodegenOK, CodegenOK', HeightOK, patchItem PROVE HeightOK'
<1>1. CASE fail
  BY <1>1 DEF fail, HeightOK
<1>2. CASE ~fail
  <2>1. /\ status = "compiling" /\ status' = "compiling" /\ First.do = "patch" /\ ~TooFar(Distance(Current, First.at))
        /\ Now(patchJump(Current, First.at)) /\ Continue(<<>>)
    BY <1>2 DEF patchItem, Doing, Steady
  <2>2. PICK h, t, u : AtFirst(h, t, u)
    BY <2>1, Arriving DEF Terminators
  <2>3. /\ First \in Items /\ t \in Frames /\ u \in Frames /\ Moves(Current, h, t, First, u) /\ t.temps \in Nat
        /\ Height(t) = Values(t) + t.temps /\ Height(t) \in Nat /\ Ends(Current, h, Height(t)) /\ Current \in CompilersTyped
    BY <2>1, <2>2, FirstTyped
  <2>4. t.pending # "parameters" /\ Becomes(t, u, t.size, t.pending, t.temps) /\ Jumps(Current, h, First.at, Height(t))
    BY <2>1, <2>3, MovesOver
  <2>5. PICK g : g = patchJump(Current, First.at)
    OBVIOUS
  <2>6. Ends(g, h, Height(t)) /\ Grows(Current, h, g, h) /\ \E c \in Codes : g = WithCode(Current, c)
    BY <2>1, <2>3, <2>4, <2>5, Patches
  <2>7. PICK items : items = <<>>
    OBVIOUS
  <2>8. items \in Seq(Items) /\ Steps(g, h, items, u, u) /\ Continue(items) /\ Settles(u, u)
    BY <2>1, <2>3, <2>7, Steps0, Settled
  <2>9. Ends(g, h, Values(t) + t.temps) /\ Now(g)
    BY <2>1, <2>3, <2>5, <2>6
  <2> QED BY <2>1, <2>2, <2>3, <2>4, <2>6, <2>8, <2>9, Writing_
<1> QED BY <1>1, <1>2

LEMMA shortcutRises == ASSUME CodegenOK, CodegenOK', HeightOK, shortcut PROVE HeightOK'
<1>1. PICK f, at : f = Current /\ at = JumpOperand(f)
  OBVIOUS
<1>2. /\ status = "compiling" /\ status' = "compiling" /\ First.do = "shortcut"
      /\ Now(emit(emitJump(f, First.name), <<Op("POP")>>)) /\ Continue(<<Expression, Patch(at)>>)
  BY <1>1 DEF shortcut, Doing, Same, Steady
<1>3. PICK h, t, u : AtFirst(h, t, u)
  BY <1>2, Arriving DEF Terminators
<1>4. /\ First \in Items /\ t \in Frames /\ u \in Frames /\ Moves(f, h, t, First, u) /\ t.temps \in Nat
      /\ Values(t) \in Nat /\ Values(t) > 0 /\ Height(t) = Values(t) + t.temps /\ Height(t) \in Nat
      /\ Ends(f, h, Height(t)) /\ f \in CompilersTyped /\ t.size > 0 /\ t.size \in Nat
  BY <1>1, <1>2, <1>3, FirstTyped
<1>5. /\ t.pending # "parameters" /\ Becomes(t, u, t.size, t.pending, t.temps)
      /\ t.temps > 0 /\ t.pending # "function" /\ First.name \in {"JUMP_IF_FALSE", "JUMP_IF_TRUE"}
  BY <1>2, <1>4, MovesOver
<1>6. PICK name \in {"JUMP_IF_FALSE", "JUMP_IF_TRUE"} : name = First.name
  BY <1>5
<1>7. PICK y, n : y = Values(t) /\ n = t.temps
  OBVIOUS
<1>8. y \in Nat /\ n \in Nat /\ y > 0 /\ n > 0 /\ Height(t) = y + n /\ y + n >= 2
  BY <1>4, <1>5, <1>7
<1>9. PICK e : e = emitJump(f, name)
  OBVIOUS
<1>10. PICK l : Ends(e, l, y + n) /\ Grows(f, h, e, l) /\ Jumps(e, l, at, y + n)
  <2>1. name \in Forward /\ name # "JUMP" /\ name # "JUMP_IF_FALSE_POP"
    BY DEF Forward
  <2> QED BY <1>1, <1>4, <1>8, <1>9, <2>1, EmitsJump
<1>11. PICK c : c = <<Op("POP")>>
  OBVIOUS
<1>12. c \in Codes /\ c[1].op = "POP" /\ Decodes(c, 1) /\ Len(c) = 1 + OperandSize(c, 1)
  BY <1>11, OneCell DEF Lone, Ops, Shorts, Bytes
<1>13. Takes(c, 1) = 1 /\ Leaves(c, 1) = 0
  BY <1>12 DEF Takes, Leaves
<1>14. e \in CompilersTyped
  <2>1. name \in Ops
    BY DEF Ops
  <2> QED BY <1>4, <1>9, <2>1, EmitJumpTyped, WithCodeTyped
<1>15. PICK g : g = emit(e, c)
  OBVIOUS
<1>16. PICK m \in Nat : n = m + 1 /\ m = n - 1 + 0
  BY <1>8
<1>17. PICK k : Ends(g, k, y + m) /\ Grows(e, l, g, k)
  <2>1. c[1].op \notin Forward \cup {"LOOP", "CLOSURE", "GET_LOCAL", "SET_LOCAL", "GET_UPVALUE", "SET_UPVALUE"}
    BY <1>12 DEF Forward
  <2>2. Takes(c, 1) <= n
    BY <1>8, <1>13
  <2> QED BY <1>8, <1>10, <1>12, <1>13, <1>14, <1>15, <1>16, <2>1, <2>2, EmitsCode
<1>18. g \in CompilersTyped
  BY <1>12, <1>14, <1>15, EmitTwice
<1>19. Grows(f, h, g, k)
  <2>1. Mapped(f, h)
    BY <1>4 DEF Ends
  <2> QED BY <1>4, <1>10, <1>14, <1>17, <1>18, <2>1, GrowsOn
<1>20. Count(f) \in Nat /\ Count(e) \in Nat /\ Count(g) \in Nat
  BY <1>4, <1>14, <1>18, Counts
<1>21. at \in Int
  BY <1>1, <1>20 DEF JumpOperand
<1>22. Jumps(g, k, at, y + n)
  BY <1>10, <1>17, <1>20, <1>21, JumpsGrow
<1>23. PICK v \in Frames : /\ Becomes(t, v, t.size, t.pending, m) /\ v.size = t.size /\ v.pending = t.pending /\ v.temps = m
                           /\ \A w, a, b, d : Becomes(t, w, a, b, d) => Becomes(v, w, a, b, d)
  BY <1>4, <1>16, Amid
<1>24. Steps(g, k, <<Expression, Patch(at)>>, v, u) /\ <<Expression, Patch(at)>> \in Seq(Items)
  <2>1. PICK s \in Frames : /\ Becomes(t, s, t.size, t.pending, n) /\ s.size = t.size /\ s.pending = t.pending
                           /\ s.temps = n /\ Values(s) = y
                           /\ \A w, a, b, d : Becomes(t, w, a, b, d) => Becomes(s, w, a, b, d)
    BY <1>4, <1>7, <1>8, Amid
  <2>2. Expression \in Items /\ Expression.do = "expression"
    BY ExpressionMade, Does
  <2>3. Moves(g, k, v, Expression, s)
    <3>1. Becomes(v, s, t.size, t.pending, n)
      BY <1>23, <2>1
    <3> QED BY <1>4, <1>5, <1>16, <1>23, <2>2, <3>1, MovesExpression
  <2>4. PICK p \in Items : p = Patch(at) /\ p.do = "patch" /\ p.at = at
    BY <1>21, PatchMade DEF Patch, Item
  <2>5. Height(s) = y + n
    BY <2>1 DEF Height
  <2>6. Moves(g, k, s, p, u)
    <3>1. Becomes(s, u, t.size, t.pending, n)
      BY <1>5, <1>7, <2>1
    <3> QED BY <1>4, <1>5, <1>22, <2>1, <2>4, <2>5, <3>1, MovesOver
  <2>7. Steps(g, k, <<Expression, p>>, v, u) /\ <<Expression, p>> \in Seq(Items)
    BY <1>4, <2>1, <2>2, <2>3, <2>4, <2>6, Steps2 DEF Terminators
  <2> QED BY <2>4, <2>7
<1>25. /\ \E d \in Codes : g = WithCode(Current, d)
       /\ Now(g)
  <2>1. PICK d \in Codes : e = WithCode(f, d)
    <3>1. name \in Ops
      BY DEF Ops
    <3> QED BY <1>4, <1>9, <3>1, EmitJumpTyped
  <2>2. g = WithCode(e, e.code \o c) /\ e.code \o c \in Codes
    BY <1>12, <1>14, <1>15, EmitOne
  <2>3. g = WithCode(f, e.code \o c)
    BY <1>4, <2>1, <2>2, WithCodeTyped
  <2> QED BY <1>1, <1>2, <1>6, <1>9, <1>11, <1>15, <2>2, <2>3
<1>26. Ends(g, k, Values(t) + m) /\ Grows(Current, h, g, k) /\ Settles(u, u)
  BY <1>1, <1>4, <1>7, <1>17, <1>19, Settled
<1> QED BY <1>2, <1>3, <1>5, <1>23, <1>24, <1>25, <1>26, Writing_

(* An instruction that takes n values and leaves one. *)
Combines(c, n) ==
  /\ c \in Codes /\ Decodes(c, 1) /\ Len(c) = 1 + OperandSize(c, 1)
  /\ c[1].op \notin Forward \cup {"LOOP", "CLOSURE", "GET_LOCAL", "SET_LOCAL", "GET_UPVALUE", "SET_UPVALUE"}
  /\ Takes(c, 1) = n /\ Leaves(c, 1) = 1

LEMMA CombinesSimple ==
  ASSUME NEW c, NEW n \in Nat, Combines(c, n)
  PROVE  /\ Emit(c) \in Items /\ Emit(c).do = "emit" /\ Emit(c).code = c
         /\ \A t : n <= t.temps => Simple(Emit(c), t)
<1>1. PICK i \in Items : i = Emit(c) /\ i.do = "emit"
  BY EmitMade DEF Combines
<1>2. i.code = c
  BY <1>1 DEF Emit, Item
<1> QED BY <1>1, <1>2 DEF Combines, Simple

Lists(items, n, last) ==
  /\ items \in Seq(Items) /\ Len(items) = n + 1 /\ items[n + 1] = last
  /\ \A k \in 1 .. n : items[k] = Expression

LEMMA ListOf ==
  ASSUME NEW n \in Nat, NEW last \in Items, NEW items, items = Append(Expressions(n), last)
  PROVE  Lists(items, n, last)
<1>1. PICK s : s = Expressions(n)
  OBVIOUS
<1>2. s = [k \in 1 .. n |-> Expression]
  BY <1>1 DEF Expressions
<1>3. s \in [1 .. n -> Items]
  BY <1>2, ExpressionMade
<1>4. s \in Seq(Items)
  BY <1>3, SeqDef
<1>5. Len(s) = n
  BY <1>2, <1>4, LenProperties
<1>6. items = Append(s, last)
  BY <1>1
<1>7. /\ items \in Seq(Items) /\ Len(items) = Len(s) + 1 /\ items[Len(s) + 1] = last
      /\ \A k \in 1 .. Len(s) : items[k] = s[k]
  BY <1>4, <1>6, AppendProperties
<1> QED BY <1>2, <1>5, <1>7 DEF Lists

Raise(t, v, k) ==
  /\ v \in Frames /\ v.size = t.size /\ v.pending = t.pending /\ v.temps = k /\ Values(v) = Values(t)
  /\ Becomes(t, v, t.size, t.pending, k)
  /\ \A w, a, b, d : Becomes(t, w, a, b, d) => Becomes(v, w, a, b, d)

LEMMA Raising ==
  ASSUME NEW t \in Frames, NEW n \in Nat
  PROVE  /\ \A i \in 0 .. n : Raise(t, With(t, t.size, t.pending, t.temps + i), t.temps + i)
         /\ With(t, t.size, t.pending, t.temps + 0) = t
<1>1. t.temps \in Nat
  BY FrameTyped
<1>2. ASSUME NEW k \in Nat PROVE Raise(t, With(t, t.size, t.pending, k), k)
  <2>1. t.size \in Nat /\ t.pending \in Pendings
    BY FrameTyped
  <2>2. PICK v : v = With(t, t.size, t.pending, k)
    OBVIOUS
  <2>3. /\ v \in Frames /\ v.size = t.size /\ v.pending = t.pending /\ v.temps = k
        /\ Becomes(t, v, t.size, t.pending, k)
    BY <2>1, <2>2, WithIs
  <2>4. ASSUME NEW w, NEW a, NEW b, NEW d, Becomes(t, w, a, b, d) PROVE Becomes(v, w, a, b, d)
    BY <2>3, <2>4, BecomesOn
  <2>5. Values(v) = Values(t)
    BY <2>3 DEF Values
  <2> QED BY <2>2, <2>3, <2>4, <2>5 DEF Raise
<1>3. \A i \in 0 .. n : t.temps + i \in Nat
  BY <1>1
<1>4. t.temps + 0 = t.temps
  BY <1>1
<1>5. With(t, t.size, t.pending, t.temps) = t
  BY DEF With, Frames
<1> QED BY <1>2, <1>3, <1>4, <1>5

(* A list of expressions, then what takes their values. *)
LEMMA ListSteps ==
  ASSUME NEW f, NEW h, NEW t \in Frames, t.size > 0, t.pending \notin {"function", "parameters"},
         NEW u \in Frames, Becomes(t, u, t.size, t.pending, t.temps + 1),
         NEW n \in Nat, NEW c, Combines(c, n), NEW items, Lists(items, n, Emit(c))
  PROVE  items \in Seq(Items) /\ Steps(f, h, items, t, u)
<1>1. PICK last \in Items : /\ last = Emit(c) /\ last.do = "emit" /\ last.code = c
                            /\ \A v : n <= v.temps => Simple(last, v)
  BY CombinesSimple
<1>2. /\ items \in Seq(Items) /\ Len(items) = n + 1 /\ items[n + 1] = last
      /\ \A k \in 1 .. n : items[k] = Expression
  BY <1>1 DEF Lists
<1>3. PICK m \in Nat : m = t.temps
  BY FrameTyped
<1>4. PICK V : /\ V[1] = t
                /\ \A i \in 1 .. n + 1 : Raise(t, V[i], m + (i - 1))
  <2>1. PICK W : W = [i \in 1 .. n + 1 |-> With(t, t.size, t.pending, t.temps + (i - 1))]
    OBVIOUS
  <2>2. W[1] = t
    <3>1. W[1] = With(t, t.size, t.pending, t.temps + 0)
      BY <2>1
    <3> QED BY <3>1, Raising
  <2>3. ASSUME NEW i \in 1 .. n + 1 PROVE Raise(t, W[i], m + (i - 1))
    <3>1. PICK j \in 0 .. n : j = i - 1
      OBVIOUS
    <3>2. W[i] = With(t, t.size, t.pending, t.temps + j)
      BY <2>1, <3>1
    <3> QED BY <1>3, <3>1, <3>2, Raising
  <2> QED BY <2>2, <2>3
<1>6. ASSUME NEW i \in 1 .. n + 1
      PROVE  /\ V[i] \in Frames /\ V[i].size = t.size /\ V[i].pending = t.pending /\ V[i].temps = m + (i - 1)
             /\ \A w, a, b, d : Becomes(t, w, a, b, d) => Becomes(V[i], w, a, b, d)
             /\ Becomes(t, V[i], t.size, t.pending, m + (i - 1))
  BY <1>4 DEF Raise
<1>7. V[1] = t
  BY <1>4
<1>8. PICK q : q = [i \in 1 .. n + 2 |-> IF i = n + 2 THEN u ELSE V[i]]
  OBVIOUS
<1>9. \A i \in 1 .. n + 2 : i # n + 2 => i \in 1 .. n + 1
  OBVIOUS
<1>10. q \in [1 .. n + 2 -> Frames]
  BY <1>6, <1>8, <1>9
<1>11. q[n + 2] = u /\ \A i \in 1 .. n + 1 : q[i] = V[i]
  BY <1>8
<1>12. ASSUME NEW i \in 1 .. n + 1 PROVE items[i].do \notin Terminators /\ Moves(f, h, q[i], items[i], q[i + 1])
  <2>1. PICK j : j = i + 1 /\ j \in 1 .. n + 2
    OBVIOUS
  <2>2. PICK v \in Frames : v = V[i]
    BY <1>6
  <2>3. /\ v.size = t.size /\ v.pending = t.pending /\ v.temps = m + (i - 1)
        /\ \A w, a, b, d : Becomes(t, w, a, b, d) => Becomes(v, w, a, b, d)
    BY <1>6, <2>2
  <2>4. CASE i = n + 1
    <3>1. q[j] = u
      BY <1>11, <2>1, <2>4
    <3>2. Simple(last, v)
      <4>1. n <= v.temps
        BY <1>3, <2>3, <2>4
      <4> QED BY <1>1, <4>1
    <3>3. v.temps - Takes(last.code, 1) + Leaves(last.code, 1) = t.temps + 1
      BY <1>1, <1>3, <2>3, <2>4 DEF Combines
    <3>4. Becomes(v, u, t.size, t.pending, t.temps + 1)
      BY <2>3
    <3>5. Moves(f, h, v, last, u)
      BY <1>1, <2>3, <3>2, <3>3, <3>4, MovesEmit
    <3> QED BY <1>1, <1>2, <1>11, <2>1, <2>2, <2>4, <3>1, <3>5 DEF Terminators
  <2>5. CASE i # n + 1
    <3>1. i \in 1 .. n /\ j \in 1 .. n + 1 /\ j - 1 = i
      BY <2>1, <2>5
    <3>2. PICK w \in Frames : w = V[j]
      BY <1>6, <3>1
    <3>3. Becomes(t, w, t.size, t.pending, m + (j - 1))
      BY <1>6, <3>1, <3>2
    <3>4. Becomes(v, w, t.size, t.pending, m + (j - 1))
      BY <2>3, <3>3
    <3>5. m + (j - 1) = v.temps + 1
      BY <1>3, <2>3, <3>1
    <3>6. Moves(f, h, v, Expression, w)
      BY <2>3, <3>4, <3>5, ExpressionMade, Does, MovesExpression
    <3>7. items[i] = Expression /\ q[i] = v /\ q[j] = w
      BY <1>2, <1>11, <2>2, <3>1, <3>2
    <3> QED BY <2>1, <3>6, <3>7, Does DEF Terminators
  <2> QED BY <2>4, <2>5
<1>13. PICK l : l = Len(items) /\ l = n + 1 /\ l + 1 = n + 2
  BY <1>2
<1>14. q[1] = t
  BY <1>7, <1>11
<1> QED BY <1>2, <1>10, <1>11, <1>12, <1>13, <1>14 DEF Steps

LEMMA ListRises ==
  ASSUME CodegenOK, CodegenOK', HeightOK, Doing("expression"), status' = status, compilers' = compilers,
         NEW n \in Nat, NEW c, Combines(c, n), Continue(Append(Expressions(n), Emit(c)))
  PROVE  HeightOK'
<1>1. status = "compiling" /\ status' = "compiling" /\ First.do = "expression"
  BY DEF Doing
<1>2. PICK h, t, u : AtFirst(h, t, u)
  BY <1>1, Arriving DEF Terminators
<1>3. /\ First \in Items /\ t \in Frames /\ u \in Frames /\ Moves(Current, h, t, First, u)
  BY <1>1, <1>2, FirstTyped
<1>4. t.size > 0 /\ t.pending \notin {"function", "parameters"} /\ Becomes(t, u, t.size, t.pending, t.temps + 1)
  BY <1>1, <1>3, MovesExpression
<1>5. PICK items : items = Append(Expressions(n), Emit(c))
  OBVIOUS
<1>6. Lists(items, n, Emit(c))
  BY <1>5, CombinesSimple, ListOf
<1>7. items \in Seq(Items) /\ Steps(Current, h, items, t, u)
  BY <1>6, <1>3, <1>4, <1>5, ListSteps
<1> QED BY <1>1, <1>2, <1>5, <1>7, Becoming

LEMMA BitwiseCombines ==
  ASSUME NEW n \in Int, n < Base
  PROVE  Combines(<<Op("BITWISE"), Byte(n)>>, 2)
<1>1. "BITWISE" \in Bytes
  BY DEF Bytes
<1>2. PICK c : c = <<Op("BITWISE"), Byte(n)>>
  OBVIOUS
<1>3. c \in Codes /\ c[1].op = "BITWISE" /\ Decodes(c, 1) /\ Len(c) = 1 + OperandSize(c, 1)
  BY <1>1, <1>2, TwoCells
<1>4. Takes(c, 1) = 2 /\ Leaves(c, 1) = 1
  BY <1>3 DEF Takes, Leaves
<1> QED BY <1>2, <1>3, <1>4 DEF Combines, Forward

LEMMA OperationsCombine ==
  ASSUME NEW form \in DOMAIN Operations
  PROVE  Operations[form].operands \in Nat /\ Combines(Operations[form].code, Operations[form].operands)
<1>1. ASSUME NEW name \in {"NOT", "ADD", "GET_SUBSCRIPT", "SET_SUBSCRIPT"}
      PROVE  Combines(<<Op(name)>>, IF name = "NOT" THEN 1 ELSE IF name = "SET_SUBSCRIPT" THEN 3 ELSE 2)
  <2>1. PICK c : c = <<Op(name)>>
    OBVIOUS
  <2>2. c \in Codes /\ c[1].op = name /\ Decodes(c, 1) /\ Len(c) = 1 + OperandSize(c, 1)
    BY <2>1, OneCell DEF Lone, Ops, Shorts, Bytes
  <2>3. Takes(c, 1) = (IF name = "NOT" THEN 1 ELSE IF name = "SET_SUBSCRIPT" THEN 3 ELSE 2) /\ Leaves(c, 1) = 1
    BY <2>2 DEF Takes, Leaves
  <2> QED BY <2>1, <2>2, <2>3 DEF Combines, Forward
<1>2. ASSUME NEW name \in {"GET_PROPERTY", "SET_PROPERTY"}
      PROVE  Combines(emitConstantCommond(name), IF name = "GET_PROPERTY" THEN 1 ELSE 2)
  <2>1. PICK c : c = emitConstantCommond(name)
    OBVIOUS
  <2>2. c \in Codes /\ c[1].op = name /\ Decodes(c, 1) /\ Len(c) = 1 + OperandSize(c, 1)
    BY <2>1, ThreeCells DEF Shorts
  <2>3. Takes(c, 1) = (IF name = "GET_PROPERTY" THEN 1 ELSE 2) /\ Leaves(c, 1) = 1
    BY <2>2 DEF Takes, Leaves
  <2> QED BY <2>1, <2>2, <2>3 DEF Combines, Forward
<1>3. Combines(<<Op("BITWISE"), Byte(1)>>, 2)
  BY BitwiseCombines, Bytes_
<1>4. /\ Combines(<<Op("NOT")>>, 1) /\ Combines(<<Op("ADD")>>, 2)
      /\ Combines(<<Op("GET_SUBSCRIPT")>>, 2) /\ Combines(<<Op("SET_SUBSCRIPT")>>, 3)
  BY <1>1
<1>5. Combines(emitConstantCommond("GET_PROPERTY"), 1) /\ Combines(emitConstantCommond("SET_PROPERTY"), 2)
  BY <1>2
<1> QED BY <1>3, <1>4, <1>5 DEF Operations

LEMMA operationRises ==
  ASSUME CodegenOK, CodegenOK', HeightOK, NEW form \in DOMAIN Operations, operation(form)
  PROVE  HeightOK'
<1>1. PICK n, c : n = Operations[form].operands /\ c = Operations[form].code
  OBVIOUS
<1>2. n \in Nat /\ Combines(c, n)
  BY <1>1, OperationsCombine
<1>3. Doing("expression") /\ status' = status /\ compilers' = compilers /\ Continue(Append(Expressions(n), Emit(c)))
  BY <1>1 DEF operation, Steady
<1> QED BY <1>2, <1>3, ListRises

LEMMA ListsRise ==
  ASSUME CodegenOK, CodegenOK', HeightOK, Doing("expression"), NEW first \in Nat, NEW n \in Nat, NEW c,
         n <= ARGUMENT_MAX => Combines(c, first + n), List(first, n, c)
  PROVE  HeightOK'
<1>1. ARGUMENT_MAX \in Nat
  BY Bytes_
<1>2. CASE n > ARGUMENT_MAX
  BY <1>2 DEF List, fail, HeightOK
<1>3. CASE ~(n > ARGUMENT_MAX)
  <2>1. PICK m \in Nat : m = first + n
    OBVIOUS
  <2>2. Combines(c, m)
    BY <1>1, <1>3, <2>1
  <2>3. status' = status /\ compilers' = compilers /\ Continue(Append(Expressions(m), Emit(c)))
    BY <1>3, <2>1 DEF List, Steady
  <2> QED BY <2>1, <2>2, <2>3, ListRises
<1> QED BY <1>2, <1>3

LEMMA OneMore ==
  ASSUME NEW d \in Codes, Len(d) = 3, NEW e \in Cells
  PROVE  LET c == Append(d, e) IN Len(c) = 4 /\ c \in Codes /\ c[4] = e /\ c[1] = d[1] /\ c[2] = d[2] /\ c[3] = d[3]
<1>1. PICK c : c = Append(d, e)
  OBVIOUS
<1>2. d \in Seq(Cells)
  BY DEF Codes
<1>3. PICK n : n = Len(d)
  OBVIOUS
<1>4. c \in Seq(Cells) /\ Len(c) = n + 1 /\ c[n + 1] = e
  BY <1>1, <1>2, <1>3, AppendProperties
<1>5. \A k \in 1 .. n : c[k] = d[k]
  BY <1>1, <1>2, <1>3, AppendProperties
<1>6. n + 1 = 4 /\ 1 \in 1 .. n /\ 2 \in 1 .. n /\ 3 \in 1 .. n
  BY <1>3
<1> QED BY <1>1, <1>4, <1>5, <1>6 DEF Codes

LEMMA InvokeCells ==
  ASSUME NEW n \in Nat, n < Base, NEW c, c = Append(emitConstantCommond("INVOKE"), Byte(n))
  PROVE  c \in Codes /\ c[1].op = "INVOKE" /\ Decodes(c, 1) /\ Len(c) = 1 + OperandSize(c, 1) /\ ReadByte(c, 4) = n
<1>1. PICK d, e : d = emitConstantCommond("INVOKE") /\ e = Byte(n)
  OBVIOUS
<1>2. d = WithShort("INVOKE", 0)
  BY <1>1 DEF emitConstantCommond, WithShort
<1>3. d \in Codes /\ Len(d) = 3 /\ d[1].op = "INVOKE" /\ d[2] = Short(0)[1] /\ d[3] = Short(0)[2]
  <2>1. "INVOKE" \in Ops /\ 0 \in Int /\ ~TooFar(0)
    BY Near, Bytes_ DEF Ops
  <2> QED BY <1>2, <2>1, ShortBehind
<1>4. e \in Cells /\ e.op = "operand" /\ e.byte = n
  BY <1>1, ByteCell
<1>5. Len(c) = 4 /\ c \in Codes /\ c[4] = e /\ c[1] = d[1] /\ c[2] = d[2] /\ c[3] = d[3]
  <2>1. c = Append(d, e)
    BY <1>1
  <2>2. LET s == Append(d, e) IN Len(s) = 4 /\ s \in Codes /\ s[4] = e /\ s[1] = d[1] /\ s[2] = d[2] /\ s[3] = d[3]
    BY <1>3, <1>4, OneMore
  <2> QED BY <2>1, <2>2
<1>6. c[2].op = "operand" /\ c[3].op = "operand"
  BY <1>3, <1>5 DEF Short, Byte
<1>7. c[1].op = "INVOKE" /\ OperandSize(c, 1) = 3
  BY <1>3, <1>5 DEF OperandSize
<1>8. \A q \in 1 + 1 .. 1 + 3 : c[q].op = "operand"
  <2>1. \A q \in 1 + 1 .. 1 + 3 : q = 2 \/ q = 3 \/ q = 4
    OBVIOUS
  <2> QED BY <1>4, <1>5, <1>6, <2>1
<1> QED BY <1>4, <1>5, <1>7, <1>8 DEF Decodes, ReadByte

LEMMA callsRise ==
  ASSUME CodegenOK, CodegenOK', HeightOK, NEW n \in 0 .. ARGUMENT_MAX + 1, call(n) \/ invoke(n) \/ arrayLiteral(n)
  PROVE  HeightOK'
<1>1. n \in Nat /\ ARGUMENT_MAX \in Nat /\ ARGUMENT_MAX < Base /\ Base \in Nat
  BY Bytes_
<1>2. Doing("expression")
  BY DEF call, invoke, arrayLiteral
<1>3. ASSUME n <= ARGUMENT_MAX
      PROVE  /\ Combines(<<Op("CALL"), Byte(n % Base)>>, 1 + n)
             /\ Combines(Append(emitConstantCommond("INVOKE"), Byte(n % Base)), 1 + n)
             /\ Combines(<<Op("NEW_ARRAY"), Byte(n % Base)>>, 0 + n)
  <2>1. n \in 0 .. Base - 1 /\ n < Base
    BY <1>1, <1>3
  <2>2. n % Base = n
    BY <2>1, SmallRest
  <2>3. Combines(<<Op("CALL"), Byte(n)>>, 1 + n)
    <3>1. PICK c : c = <<Op("CALL"), Byte(n)>>
      OBVIOUS
    <3>2. c \in Codes /\ c[1].op = "CALL" /\ Decodes(c, 1) /\ Len(c) = 1 + OperandSize(c, 1) /\ ReadByte(c, 2) = n
      <4>1. "CALL" \in Bytes /\ n \in Int
        BY <1>1 DEF Bytes
      <4> QED BY <2>1, <3>1, <4>1, TwoCells
    <3>3. Takes(c, 1) = 1 + n /\ Leaves(c, 1) = 1
      BY <1>1, <3>2 DEF Takes, Leaves
    <3> QED BY <3>1, <3>2, <3>3 DEF Combines, Forward
  <2>4. Combines(Append(emitConstantCommond("INVOKE"), Byte(n)), 1 + n)
    <3>1. PICK c : c = Append(emitConstantCommond("INVOKE"), Byte(n))
      OBVIOUS
    <3>2. c \in Codes /\ c[1].op = "INVOKE" /\ Decodes(c, 1) /\ Len(c) = 1 + OperandSize(c, 1) /\ ReadByte(c, 4) = n
      BY <1>1, <2>1, <3>1, InvokeCells
    <3>3. Takes(c, 1) = 1 + n /\ Leaves(c, 1) = 1
      BY <1>1, <3>2 DEF Takes, Leaves
    <3> QED BY <3>1, <3>2, <3>3 DEF Combines, Forward
  <2>5. Combines(<<Op("NEW_ARRAY"), Byte(n)>>, 0 + n)
    <3>1. PICK c : c = <<Op("NEW_ARRAY"), Byte(n)>>
      OBVIOUS
    <3>2. c \in Codes /\ c[1].op = "NEW_ARRAY" /\ Decodes(c, 1) /\ Len(c) = 1 + OperandSize(c, 1) /\ ReadByte(c, 2) = n
      <4>1. "NEW_ARRAY" \in Bytes /\ n \in Int
        BY <1>1 DEF Bytes
      <4> QED BY <2>1, <3>1, <4>1, TwoCells
    <3>3. Takes(c, 1) = 0 + n /\ Leaves(c, 1) = 1
      BY <1>1, <3>2 DEF Takes, Leaves
    <3> QED BY <3>1, <3>2, <3>3 DEF Combines, Forward
  <2> QED BY <2>2, <2>3, <2>4, <2>5
<1>4. CASE call(n)
  <2>1. List(1, n, <<Op("CALL"), Byte(n % Base)>>)
    BY <1>4 DEF call
  <2> QED BY <1>1, <1>2, <1>3, <2>1, ListsRise
<1>5. CASE invoke(n)
  <2>1. List(1, n, Append(emitConstantCommond("INVOKE"), Byte(n % Base)))
    BY <1>5 DEF invoke
  <2>2. PICK c : c = Append(emitConstantCommond("INVOKE"), Byte(n % Base))
    OBVIOUS
  <2>3. List(1, n, c) /\ (n <= ARGUMENT_MAX => Combines(c, 1 + n))
    BY <1>3, <2>1, <2>2
  <2> QED BY <1>1, <1>2, <2>3, ListsRise
<1>6. CASE arrayLiteral(n)
  <2>1. List(0, n, <<Op("NEW_ARRAY"), Byte(n % Base)>>)
    BY <1>6 DEF arrayLiteral
  <2> QED BY <1>1, <1>2, <1>3, <2>1, ListsRise
<1> QED BY <1>4, <1>5, <1>6

(* An object's properties: an expression, then NEW_PROPERTY, n times. *)
Properties(items, n, last) ==
  /\ items \in Seq(Items) /\ Len(items) = 2 * n + 1 /\ items[2 * n + 1] = last
  /\ \A k \in 1 .. 2 * n : items[k] = IF k % 2 = 1 THEN Expression ELSE Emit(emitConstantCommond("NEW_PROPERTY"))

LEMMA PropertyCombines == Combines(emitConstantCommond("NEW_PROPERTY"), 2)
<1>1. PICK c : c = emitConstantCommond("NEW_PROPERTY")
  OBVIOUS
<1>2. c \in Codes /\ c[1].op = "NEW_PROPERTY" /\ Decodes(c, 1) /\ Len(c) = 1 + OperandSize(c, 1)
  BY <1>1, ThreeCells DEF Shorts
<1>3. Takes(c, 1) = 2 /\ Leaves(c, 1) = 1
  BY <1>2 DEF Takes, Leaves
<1> QED BY <1>1, <1>2, <1>3 DEF Combines, Forward

LEMMA Appended ==
  ASSUME NEW s \in Seq(Items), NEW m \in Nat, m = Len(s), NEW last \in Items
  PROVE  LET r == Append(s, last)
         IN  r \in Seq(Items) /\ Len(r) = m + 1 /\ r[m + 1] = last /\ \A k \in 1 .. m : r[k] = s[k]
<1>1. PICK r : r = Append(s, last)
  OBVIOUS
<1>2. r \in Seq(Items) /\ Len(r) = m + 1 /\ r[m + 1] = last
  BY <1>1, AppendProperties
<1>3. \A k \in 1 .. m : r[k] = s[k]
  BY <1>1, AppendProperties
<1> QED BY <1>1, <1>2, <1>3

LEMMA PropertiesOf ==
  ASSUME NEW n \in Nat, NEW last \in Items
  PROVE  Properties(Append([i \in 1 .. 2 * n |-> IF i % 2 = 1 THEN Expression
                                                ELSE Emit(emitConstantCommond("NEW_PROPERTY"))], last), n, last)
<1>1. PICK e : e = Emit(emitConstantCommond("NEW_PROPERTY"))
  OBVIOUS
<1>2. e \in Items /\ Expression \in Items
  BY <1>1, PropertyCombines, CombinesSimple, ExpressionMade
<1>3. PICK m \in Nat : m = 2 * n
  OBVIOUS
<1>4. PICK s : s = [i \in 1 .. m |-> IF i % 2 = 1 THEN Expression ELSE e]
  OBVIOUS
<1>5. s \in [1 .. m -> Items]
  BY <1>2, <1>4
<1>6. s \in Seq(Items)
  BY <1>5, SeqDef
<1>7. Len(s) = m
  BY <1>4, <1>6, LenProperties
<1>8. PICK items : items = Append(s, last)
  OBVIOUS
<1>9. /\ items \in Seq(Items) /\ Len(items) = m + 1 /\ items[m + 1] = last
      /\ \A k \in 1 .. m : items[k] = s[k]
  BY <1>6, <1>7, <1>8, Appended
<1>10. Properties(items, n, last)
  BY <1>1, <1>3, <1>4, <1>9 DEF Properties
<1>11. items = Append([i \in 1 .. 2 * n |-> IF i % 2 = 1 THEN Expression
                                            ELSE Emit(emitConstantCommond("NEW_PROPERTY"))], last)
  BY <1>1, <1>3, <1>4, <1>8
<1> QED BY <1>10, <1>11

LEMMA RaiseOnce ==
  ASSUME NEW t \in Frames, NEW n \in Nat
  PROVE  \E v : Raise(t, v, n)
<1>1. PICK v \in Frames : /\ Becomes(t, v, t.size, t.pending, n) /\ Values(v) = Values(t)
                          /\ v.size = t.size /\ v.pending = t.pending /\ v.temps = n
                          /\ \A u, x, y, z : Becomes(t, u, x, y, z) => Becomes(v, u, x, y, z)
  BY Amid
<1> QED BY <1>1 DEF Raise

LEMMA PropertiesSteps ==
  ASSUME NEW f, NEW h, NEW t \in Frames, t.size > 0, t.pending \notin {"function", "parameters"},
         NEW m \in Nat, m = t.temps, NEW r, Raise(t, r, m + 1), NEW s, Raise(t, s, m + 2),
         NEW u \in Frames, Becomes(t, u, t.size, t.pending, m + 1),
         NEW n \in Nat, NEW last \in Items, last.do = "objectEnds", NEW items, Properties(items, n, last)
  PROVE  Steps(f, h, items, r, u)
<1>1. PICK e \in Items : e = Emit(emitConstantCommond("NEW_PROPERTY")) /\ e.do = "emit" /\ Combines(e.code, 2)
                         /\ \A v : 2 <= v.temps => Simple(e, v)
  BY PropertyCombines, CombinesSimple
<1>2. PICK p \in Nat : p = 2 * n
  OBVIOUS
<1>3. /\ Len(items) = p + 1 /\ items[p + 1] = last
      /\ \A k \in 1 .. p : items[k] = IF k % 2 = 1 THEN Expression ELSE e
  BY <1>1, <1>2 DEF Properties
<1>4. /\ r \in Frames /\ r.size = t.size /\ r.pending = t.pending /\ r.temps = m + 1
      /\ s \in Frames /\ s.size = t.size /\ s.pending = t.pending /\ s.temps = m + 2
      /\ Becomes(t, r, t.size, t.pending, m + 1) /\ Becomes(t, s, t.size, t.pending, m + 2)
      /\ \A w, a, b, d : Becomes(t, w, a, b, d) => Becomes(r, w, a, b, d) /\ Becomes(s, w, a, b, d)
  BY DEF Raise
<1>5. Moves(f, h, r, Expression, s)
  <2>1. Becomes(r, s, t.size, t.pending, (m + 1) + 1)
    <3>1. (m + 1) + 1 = m + 2
      OBVIOUS
    <3> QED BY <1>4, <3>1
  <2> QED BY <1>4, <2>1, ExpressionMade, Does, MovesExpression
<1>6. Moves(f, h, s, e, r)
  <2>1. Simple(e, s)
    BY <1>1, <1>4
  <2>2. s.temps - Takes(e.code, 1) + Leaves(e.code, 1) = m + 1
    <3>1. Takes(e.code, 1) = 2 /\ Leaves(e.code, 1) = 1
      BY <1>1 DEF Combines
    <3> QED BY <1>4, <3>1
  <2>3. Becomes(s, r, t.size, t.pending, m + 1)
    BY <1>4
  <2> QED BY <1>1, <1>4, <2>1, <2>2, <2>3, MovesEmit
<1>7. Moves(f, h, r, last, u)
  <2>1. Becomes(r, u, t.size, t.pending, m + 1)
    BY <1>4
  <2> QED BY <1>4, <2>1, MovesOver
<1>8. PICK q : q = [i \in 1 .. p + 2 |-> IF i = p + 2 THEN u ELSE IF i % 2 = 1 THEN r ELSE s]
  OBVIOUS
<1>9. q \in [1 .. p + 2 -> Frames] /\ q[p + 2] = u
  BY <1>4, <1>8
<1>10. \A i \in 1 .. p + 1 : q[i] = IF i % 2 = 1 THEN r ELSE s
  BY <1>8
<1>11. (p + 1) % 2 = 1
  BY <1>2
<1>12. ASSUME NEW i \in 1 .. p + 1 PROVE items[i].do \notin Terminators /\ Moves(f, h, q[i], items[i], q[i + 1])
  <2>1. PICK j : j = i + 1 /\ j \in 1 .. p + 2
    OBVIOUS
  <2>2. CASE i = p + 1
    BY <1>3, <1>7, <1>9, <1>10, <1>11, <2>1, <2>2 DEF Terminators
  <2>3. CASE i # p + 1
    <3>1. i \in 1 .. p /\ j \in 1 .. p + 1
      BY <2>1, <2>3
    <3>2. CASE i % 2 = 1
      <4>1. j % 2 # 1
        BY <2>1, <3>2
      <4>2. q[i] = r /\ q[j] = s /\ items[i] = Expression
        BY <1>3, <1>10, <3>1, <3>2, <4>1
      <4> QED BY <1>5, <2>1, <4>2, Does DEF Terminators
    <3>3. CASE i % 2 # 1
      <4>1. j % 2 = 1
        BY <2>1, <3>3
      <4>2. q[i] = s /\ q[j] = r /\ items[i] = e
        BY <1>3, <1>10, <3>1, <3>3, <4>1
      <4> QED BY <1>1, <1>6, <2>1, <4>2 DEF Terminators
    <3> QED BY <3>2, <3>3
  <2> QED BY <2>2, <2>3
<1>13. q[1] = r
  BY <1>10
<1>14. PICK l : l = Len(items) /\ l = p + 1 /\ l + 1 = p + 2
  BY <1>3
<1> QED BY <1>9, <1>12, <1>13, <1>14 DEF Steps

LEMMA objectLiteralRises ==
  ASSUME CodegenOK, CodegenOK', HeightOK, NEW n \in 0 .. ARGUMENT_MAX + 1, objectLiteral(n)
  PROVE  HeightOK'
<1>1. CASE Current.objectNestingDepth = OBJECT_MAX_NESTING
  BY <1>1 DEF objectLiteral, fail, HeightOK
<1>2. CASE Current.objectNestingDepth # OBJECT_MAX_NESTING
  <2>1. PICK c : c = <<Op("NEW_OBJECT")>>
    OBVIOUS
  <2>2. PICK last : last = Item("objectEnds")
    OBVIOUS
  <2>3. PICK items : items = Append([i \in 1 .. 2 * n |-> IF i % 2 = 1 THEN Expression
                                                        ELSE Emit(emitConstantCommond("NEW_PROPERTY"))], last)
    OBVIOUS
  <2>4. status = "compiling" /\ status' = "compiling" /\ First.do = "expression" /\ Continue(items)
    BY <1>2, <2>2, <2>3 DEF objectLiteral, Doing, Steady
  <2>5. PICK h, t, u : AtFirst(h, t, u)
    BY <2>4, Arriving DEF Terminators
  <2>6. /\ First \in Items /\ t \in Frames /\ u \in Frames /\ Moves(Current, h, t, First, u) /\ t.temps \in Nat
        /\ Values(t) \in Nat /\ Values(t) > 0 /\ Height(t) = Values(t) + t.temps /\ Ends(Current, h, Height(t))
        /\ Current \in CompilersTyped
    BY <2>4, <2>5, FirstTyped
  <2>7. t.size > 0 /\ t.pending \notin {"function", "parameters"} /\ Becomes(t, u, t.size, t.pending, t.temps + 1)
    BY <2>4, <2>6, MovesExpression
  <2>8. PICK d \in Int : d = Current.objectNestingDepth + 1
    BY <2>6 DEF CompilersTyped
  <2>9. PICK f : f = [Current EXCEPT !.objectNestingDepth = d]
    OBVIOUS
  <2>10. Alike(Current, f) /\ Grows(Current, h, f, h) /\ Ends(f, h, Values(t) + t.temps)
    <3>1. Ends(Current, h, Values(t) + t.temps)
      BY <2>6
    <3> QED BY <2>6, <2>8, <2>9, <3>1, NestingKept
  <2>11. PICK g : g = emit(f, c)
    OBVIOUS
  <2>12. /\ c \in Codes /\ c[1].op = "NEW_OBJECT" /\ Decodes(c, 1) /\ Len(c) = 1 + OperandSize(c, 1)
    BY <2>1, OneCell DEF Lone, Ops, Shorts, Bytes
  <2>13. Takes(c, 1) = 0 /\ Leaves(c, 1) = 1
    BY <2>12 DEF Takes, Leaves
  <2>14. PICK m \in Nat : m = t.temps /\ m - 0 + 1 = m + 1
    BY <2>6
  <2>15. f \in CompilersTyped
    BY <2>10 DEF Alike
  <2>16. PICK k : Ends(g, k, Values(t) + (m + 1)) /\ Grows(f, h, g, k)
    <3>1. c[1].op \notin Forward \cup {"LOOP", "CLOSURE", "GET_LOCAL", "SET_LOCAL", "GET_UPVALUE", "SET_UPVALUE"}
      BY <2>12 DEF Forward
    <3>2. Takes(c, 1) <= m /\ m - Takes(c, 1) + Leaves(c, 1) = m + 1
      BY <2>13, <2>14
    <3>3. \E k : Ends(g, k, Values(t) + (m - Takes(c, 1) + Leaves(c, 1))) /\ Grows(f, h, g, k)
      BY <2>6, <2>10, <2>11, <2>12, <2>14, <2>15, <3>1, <3>2, EmitsCode
    <3> QED BY <3>2, <3>3
  <2>17. Alike(Current, g) /\ g \in CompilersTyped
    <3>1. /\ g \in CompilersTyped /\ g.locals = f.locals /\ g.loops = f.loops /\ g.scopeDepth = f.scopeDepth
      BY <2>11, <2>12, <2>15, Behind
    <3> QED BY <2>10, <3>1 DEF Alike
  <2>18. Grows(Current, h, g, k)
    <3>1. Mapped(Current, h)
      BY <2>6 DEF Ends
    <3> QED BY <2>6, <2>10, <2>15, <2>16, <2>17, <3>1, GrowsOn
  <2>19. PICK r : Raise(t, r, m + 1)
    BY <2>6, <2>14, RaiseOnce
  <2>20. PICK s : Raise(t, s, m + 2)
    BY <2>6, <2>14, RaiseOnce
  <2>21. last \in Items /\ last.do = "objectEnds"
    <3>1. "objectEnds" \in Bare
      BY DEF Bare, Tasks, ExpressionTasks
    <3> QED BY <2>2, <3>1, ItemMade
  <2>22. n \in Nat
    BY Bytes_
  <2>23. Properties(items, n, last)
    BY <2>3, <2>21, <2>22, PropertiesOf
  <2>24. Steps(g, k, items, r, u) /\ items \in Seq(Items)
    <3>1. Becomes(t, u, t.size, t.pending, m + 1)
      BY <2>7, <2>14
    <3> QED BY <2>6, <2>7, <2>14, <2>19, <2>20, <2>21, <2>22, <2>23, <3>1, PropertiesSteps DEF Properties
  <2>25. r \in Frames /\ Becomes(t, r, t.size, t.pending, m + 1) /\ Settles(u, u)
    BY <2>6, <2>19, Settled DEF Raise
  <2>26. compilers' = [compilers EXCEPT ![Len(compilers)] = g]
    BY <1>2, <2>1, <2>8, <2>9, <2>11 DEF objectLiteral, Now
  <2>27. Tail(todo) \in Seq(Items) /\ Holds(Current, h, t) /\ Meets(h, t, Tail(todo), u) /\ todo' = items \o Tail(todo)
    BY <2>4, <2>5, Meeting DEF AtFirst, Continue
  <2> QED BY <2>4, <2>6, <2>7, <2>16, <2>17, <2>18, <2>24, <2>25, <2>26, <2>27, Adds_
<1> QED BY <1>1, <1>2

----------------------------------------------------------------------------
(* Statements. *)

(* Where a statement begins there are only the locals. *)
Stands(h, t, u, w) ==
  /\ AtFirst(h, t, u) /\ t.pending = "none" /\ t.temps = 0 /\ t.size > 0 /\ Values(t) = t.size
  /\ w \in Frames /\ Becomes(t, w, t.size, "none", 0) /\ Settles(u, w) /\ Ends(Current, h, t.size)

LEMMA Standing ==
  ASSUME CodegenOK, HeightOK, status = "compiling", First.do \in {"declaration", "statement", "case", "else"}
  PROVE  \E h, t, u, w : Stands(h, t, u, w)
<1>1. PICK h, t, u : AtFirst(h, t, u)
  BY Arriving DEF Terminators
<1>2. /\ First \in Items /\ t \in Frames /\ u \in Frames /\ Moves(Current, h, t, First, u) /\ t.temps \in Nat /\ t.size \in Nat
      /\ Height(t) = Values(t) + t.temps /\ Ends(Current, h, Height(t)) /\ t.size > 0
      /\ t.pending \in {"none", "parameters"} => Values(t) = t.size
  BY <1>1, FirstTyped
<1>3. CASE First.do \in {"statement", "case", "else"}
  <2>1. t.pending = "none" /\ t.temps = 0 /\ Becomes(t, u, t.size, "none", 0)
    BY <1>2, <1>3, MovesStatement
  <2>2. Settles(u, u) /\ Values(t) = t.size /\ Height(t) = t.size
    BY <1>2, <2>1, Settled
  <2>3. Stands(h, t, u, u)
    BY <1>1, <1>2, <2>1, <2>2 DEF Stands
  <2> QED BY <2>3
<1>4. CASE First.do = "declaration"
  <2>1. t.pending = "none" /\ t.temps = 0 /\ Becomes(t, u, 0, "none", 0)
    BY <1>2, <1>4, MovesClosing DEF Closing
  <2>2. PICK n \in Nat : n = t.size
    BY <1>2
  <2>3. PICK w : w = [u EXCEPT !.size = n]
    OBVIOUS
  <2>4. w \in Frames /\ Becomes(t, w, n, "none", 0) /\ Settles(u, w)
    BY <1>2, <2>1, <2>3, SizeLearned
  <2>5. Values(t) = t.size /\ Height(t) = t.size
    BY <1>2, <2>1
  <2>6. Stands(h, t, u, w)
    BY <1>1, <1>2, <2>1, <2>2, <2>4, <2>5 DEF Stands
  <2> QED BY <2>6
<1> QED BY <1>3, <1>4

(* Items that stand for the statement. *)
LEMMA Sentence ==
  ASSUME CodegenOK, CodegenOK', status = "compiling", status' = "compiling", compilers' = compilers,
         NEW h, NEW t, NEW u, NEW w, Stands(h, t, u, w),
         NEW items \in Seq(Items), Continue(items), Steps(Current, h, items, t, w)
  PROVE  HeightOK'
<1>1. t \in Frames /\ Holds(Current, h, t) /\ Meets(h, t, Tail(todo), u) /\ Settles(u, w)
  BY DEF Stands, AtFirst
<1>2. Becomes(t, t, t.size, t.pending, t.temps)
  BY <1>1 DEF Becomes
<1>3. Tail(todo) \in Seq(Items) /\ todo' = items \o Tail(todo)
  BY Meeting DEF Continue
<1> QED BY <1>1, <1>2, <1>3, Stays

LEMMA MovesPop ==
  ASSUME NEW f, NEW h, NEW v \in Frames, v.size > 0, v.pending # "parameters", NEW n \in Nat, v.temps = n + 1,
         NEW w, Becomes(v, w, v.size, v.pending, n), NEW name \in {"POP", "RETURN"}
  PROVE  Moves(f, h, v, Emit(<<Op(name)>>), w) /\ Emit(<<Op(name)>>) \in Items
<1>1. PICK c : c = <<Op(name)>>
  OBVIOUS
<1>2. c \in Codes /\ c[1].op \in {"POP", "RETURN"} /\ Decodes(c, 1) /\ Len(c) = 1 + OperandSize(c, 1)
  BY <1>1, OneCell DEF Lone, Ops, Shorts, Bytes
<1>3. Takes(c, 1) = 1 /\ Leaves(c, 1) = 0
  BY <1>2 DEF Takes, Leaves
<1>4. PICK e \in Items : e = Emit(c) /\ e.do = "emit"
  BY <1>2, EmitMade
<1>5. e.code = c
  BY <1>4 DEF Emit, Item
<1>6. Simple(e, v)
  <2>1. c[1].op \notin Forward \cup {"LOOP", "CLOSURE"} /\ c[1].op \notin {"GET_LOCAL", "SET_LOCAL", "GET_UPVALUE", "SET_UPVALUE"}
    BY <1>2 DEF Forward
  <2>2. Takes(e.code, 1) <= v.temps
    BY <1>3, <1>5
  <2> QED BY <1>2, <1>5, <2>1, <2>2 DEF Simple
<1>7. v.temps - Takes(e.code, 1) + Leaves(e.code, 1) = n
  BY <1>3, <1>5
<1>8. Moves(f, h, v, e, w)
  BY <1>4, <1>6, <1>7, MovesEmit
<1> QED BY <1>1, <1>4, <1>8

LEMMA StepsExpression ==
  ASSUME NEW f, NEW h, NEW t \in Frames, t.size > 0, t.pending = "none", t.temps = 0,
         NEW w \in Frames, Becomes(t, w, t.size, "none", 0), NEW name \in {"POP", "RETURN"}
  PROVE  LET items == <<Expression, Emit(<<Op(name)>>)>>
         IN  items \in Seq(Items) /\ Steps(f, h, items, t, w)
<1>1. PICK v \in Frames : /\ Becomes(t, v, t.size, t.pending, 1) /\ v.size = t.size /\ v.pending = t.pending /\ v.temps = 1
                          /\ \A u, x, y, z : Becomes(t, u, x, y, z) => Becomes(v, u, x, y, z)
  BY Amid
<1>2. Expression \in Items /\ Expression.do = "expression"
  BY ExpressionMade, Does
<1>3. Moves(f, h, t, Expression, v)
  <2>1. Becomes(t, v, t.size, t.pending, t.temps + 1)
    BY <1>1
  <2> QED BY <1>2, <2>1, MovesExpression
<1>4. PICK e : e = Emit(<<Op(name)>>)
  OBVIOUS
<1>5. Moves(f, h, v, e, w) /\ e \in Items /\ e.do = "emit"
  <2>1. Becomes(v, w, v.size, v.pending, 0) /\ v.temps = 0 + 1
    BY <1>1
  <2>2. v.size > 0 /\ v.pending # "parameters"
    BY <1>1
  <2>3. e.do = "emit"
    BY <1>4, Does
  <2>4. Moves(f, h, v, e, w) /\ e \in Items
    BY <1>4, <2>1, <2>2, MovesPop
  <2> QED BY <2>3, <2>4
<1>6. Steps(f, h, <<Expression, e>>, t, w) /\ <<Expression, e>> \in Seq(Items)
  BY <1>1, <1>2, <1>3, <1>4, <1>5, Steps2 DEF Terminators
<1> QED BY <1>4, <1>6

LEMMA AtStatements ==
  ASSUME AtStatement
  PROVE  status = "compiling" /\ First.do \in {"declaration", "statement", "case", "else"}
BY DEF AtStatement, Doing

LEMMA expressionStatementRises == ASSUME CodegenOK, CodegenOK', HeightOK, expressionStatement PROVE HeightOK'
<1>1. PICK items : items = <<Expression, Emit(<<Op("POP")>>)>>
  OBVIOUS
<1>2. AtStatement /\ Continue(items) /\ status' = status /\ compilers' = compilers
  BY <1>1 DEF expressionStatement, Steady
<1>3. PICK h, t, u, w : Stands(h, t, u, w)
  BY <1>2, AtStatements, Standing
<1>4. items \in Seq(Items) /\ Steps(Current, h, items, t, w)
  <2>1. t \in Frames /\ t.size > 0 /\ t.pending = "none" /\ t.temps = 0 /\ w \in Frames /\ Becomes(t, w, t.size, "none", 0)
    BY <1>3 DEF Stands, AtFirst
  <2> QED BY <1>1, <2>1, StepsExpression
<1> QED BY <1>2, <1>3, <1>4, AtStatements, Sentence

(* One item that moves as the statement does. *)
LEMMA StepsStatement ==
  ASSUME NEW f, NEW h, NEW t \in Frames, t.size > 0, t.pending = "none", t.temps = 0,
         NEW w \in Frames, Becomes(t, w, t.size, "none", 0), NEW do \in {"statement", "case"}
  PROVE  LET items == <<Item(do)>>
         IN  items \in Seq(Items) /\ Steps(f, h, items, t, w)
<1>1. PICK i \in Items : i = Item(do) /\ i.do = do
  BY PlainMade DEF PlainTasks
<1>2. Moves(f, h, t, i, w)
  BY <1>1, MovesStatement
<1>3. Steps(f, h, <<i>>, t, w) /\ <<i>> \in Seq(Items)
  BY <1>1, <1>2, Steps1 DEF Terminators
<1> QED BY <1>1, <1>3

LEMMA branchStatementRises == ASSUME CodegenOK, CodegenOK', HeightOK, branchStatement PROVE HeightOK'
<1>1. PICK items : items = <<Item("case")>>
  OBVIOUS
<1>2. AtStatement /\ Continue(items) /\ status' = status /\ compilers' = compilers
  BY <1>1 DEF branchStatement, Steady
<1>3. PICK h, t, u, w : Stands(h, t, u, w)
  BY <1>2, AtStatements, Standing
<1>4. items \in Seq(Items) /\ Steps(Current, h, items, t, w)
  <2>1. t \in Frames /\ t.size > 0 /\ t.pending = "none" /\ t.temps = 0 /\ w \in Frames /\ Becomes(t, w, t.size, "none", 0)
    BY <1>3 DEF Stands, AtFirst
  <2> QED BY <1>1, <2>1, StepsStatement
<1> QED BY <1>2, <1>3, <1>4, AtStatements, Sentence

LEMMA branchCaseStatementRises == ASSUME CodegenOK, CodegenOK', HeightOK, branchCaseStatement PROVE HeightOK'
<1>1. status = "compiling" /\ First.do = "case" /\ status' = status /\ compilers' = compilers
  BY DEF branchCaseStatement, Doing, Same, Steady
<1>2. PICK h, t, u, w : Stands(h, t, u, w)
  BY <1>1, Standing
<1>3. t \in Frames /\ t.size > 0 /\ t.pending = "none" /\ t.temps = 0 /\ w \in Frames /\ Becomes(t, w, t.size, "none", 0)
  BY <1>2 DEF Stands, AtFirst
<1>4. CASE Continue(<<Item("statement")>>)
  <2>1. PICK items : items = <<Item("statement")>>
    OBVIOUS
  <2>2. items \in Seq(Items) /\ Steps(Current, h, items, t, w)
    BY <1>3, <2>1, StepsStatement
  <2> QED BY <1>1, <1>2, <1>4, <2>1, <2>2, Sentence
<1>5. CASE Continue(<<Expression, Item("then")>>)
  <2>1. PICK v \in Frames : /\ Becomes(t, v, t.size, t.pending, 1) /\ v.size = t.size /\ v.pending = t.pending /\ v.temps = 1
                            /\ \A y, a, b, d : Becomes(t, y, a, b, d) => Becomes(v, y, a, b, d)
    BY <1>3, Amid
  <2>2. Expression \in Items /\ Expression.do = "expression"
    BY ExpressionMade, Does
  <2>3. PICK i \in Items : i = Item("then") /\ i.do = "then"
    BY PlainMade DEF PlainTasks
  <2>4. Moves(Current, h, t, Expression, v)
    <3>1. Becomes(t, v, t.size, t.pending, t.temps + 1)
      BY <1>3, <2>1
    <3> QED BY <1>3, <2>2, <3>1, MovesExpression
  <2>5. Moves(Current, h, v, i, w)
    <3>1. Becomes(v, w, v.size, "none", 0)
      BY <1>3, <2>1
    <3> QED BY <1>3, <2>1, <2>3, <3>1, MovesThen
  <2>6. PICK items : items = <<Expression, i>>
    OBVIOUS
  <2>7. items \in Seq(Items) /\ Steps(Current, h, items, t, w)
    BY <1>3, <2>1, <2>2, <2>3, <2>4, <2>5, <2>6, Steps2 DEF Terminators
  <2> QED BY <1>1, <1>2, <1>5, <2>3, <2>6, <2>7, Sentence
<1> QED BY <1>4, <1>5 DEF branchCaseStatement

LEMMA LeadsFirst ==
  ASSUME NEW cs, NEW hs, NEW a \in Stacks, NEW x \in Items, NEW b \in Stacks, Leads(cs, hs, a, x, b),
         NEW s \in Seq(Items), Walks(cs, hs, s, b)
  PROVE  Walks(cs, hs, <<x>> \o s, a)
<1>1. PICK g : g = [i \in 1 .. 2 |-> IF i = 1 THEN a ELSE b]
  OBVIOUS
<1>2. g[1] = a /\ g[2] = b /\ g \in [1 .. 2 -> Stacks]
  BY <1>1
<1>3. a.level \in Nat /\ b.level \in Nat /\ b.level <= a.level
  BY DEF Leads, Stacks
<1>4. PICK items : items = <<x>>
  OBVIOUS
<1>5. items \in Seq(Items) /\ Len(items) = 1 /\ items[1] = x
  BY <1>4
<1>6. \A j, k \in 1 .. 2 : j <= k => g[k].level <= g[j].level
  <2>1. \A k \in 1 .. 2 : k = 1 \/ k = 2
    OBVIOUS
  <2> QED BY <1>2, <1>3, <2>1
<1>7. \A k \in 1 .. 1 : Leads(cs, hs, g[k], items[k], g[k + 1])
  <2>1. \A k \in 1 .. 1 : k = 1 /\ k + 1 = 2
    OBVIOUS
  <2> QED BY <1>2, <1>5, <2>1
<1>8. PICK m : m = Len(items) /\ m = 1 /\ m + 1 = 2
  BY <1>5
<1>9. Walk(cs, hs, items, g, a)
  BY <1>2, <1>6, <1>7, <1>8 DEF Walk
<1>10. Walks(cs, hs, s, g[Len(items) + 1])
  BY <1>2, <1>8
<1>11. Walks(cs, hs, items \o s, a)
  BY <1>5, <1>9, <1>10, WalksBefore
<1> QED BY <1>4, <1>11

(* Where a script or a function may end. *)
Closes(h, t) ==
  /\ t \in Frames /\ Holds(Current, h, t) /\ t.temps = 0 /\ t.pending = "none"
  /\ \A w \in Frames, e \in Items :
       w.temps = 0 /\ w.pending = "none" /\ e.do \in Terminators => Meets(h, t, <<e>> \o Tail(todo), w)

LEMMA Terminating ==
  ASSUME CodegenOK, HeightOK, status = "compiling", First.do \in Terminators
  PROVE  \E h, t : Closes(h, t)
<1>1. PICK hs, a : Carried(compilers, hs, a) /\ Walks(compilers, hs, todo, a)
  BY DEF HeightOK
<1>2. PICK n, h, t : n = a.level /\ h = hs[n] /\ t = a.frames[n]
  OBVIOUS
<1>3. a \in Stacks /\ n \in Nat /\ n > 0 /\ n = Len(compilers) /\ t \in Frames
  BY <1>1, <1>2 DEF Carried, Stacks
<1>4. Holds(Current, h, t)
  <2>1. n \in 1 .. a.level
    BY <1>2, <1>3
  <2> QED BY <1>1, <1>2, <1>3, <2>1 DEF Carried, Current
<1>5. todo \in Seq(Items) /\ todo # <<>> /\ Tail(todo) \in Seq(Items)
  BY Meeting DEF CodegenOK
<1>6. PICK b \in Stacks : Leads(compilers, hs, a, First, b) /\ Walks(compilers, hs, Tail(todo), b)
  BY <1>1, <1>5, WalksFirst DEF First
<1>7. t.temps = 0 /\ t.pending = "none"
  BY <1>2, <1>6 DEF Leads
<1>8. ASSUME NEW w \in Frames, NEW e \in Items, w.temps = 0, w.pending = "none", e.do \in Terminators
      PROVE  Meets(h, t, <<e>> \o Tail(todo), w)
  <2>1. PICK c : c = [a EXCEPT !.frames[n] = w]
    OBVIOUS
  <2>2. /\ c \in Stacks /\ c.level = n /\ c.frames[n] = w /\ \A l \in Nat : l # n => c.frames[l] = a.frames[l]
    <3>1. c \in Stacks /\ c.level = a.level /\ c.frames[n] = w
      BY <1>3, <2>1, StacksTyped
    <3>2. \A l \in Nat : l # n => c.frames[l] = a.frames[l]
      BY <1>3, <2>1, StacksTyped
    <3> QED BY <1>2, <3>1, <3>2
  <2>3. \A l \in 1 .. n - 1 : l \in Nat /\ l # n
    BY <1>3
  <2>4. \A l \in 1 .. n - 1 : c.frames[l] = a.frames[l]
    BY <2>2, <2>3
  <2>5. Leads(compilers, hs, c, e, b)
    BY <1>2, <1>3, <1>6, <1>8, <2>2, <2>4 DEF Leads
  <2>6. PICK s : s = <<e>> \o Tail(todo)
    OBVIOUS
  <2>7. Walks(compilers, hs, s, c)
    BY <1>5, <1>6, <2>2, <2>5, <2>6, LeadsFirst
  <2>8. Meets(h, t, s, w)
    BY <1>1, <1>2, <2>2, <2>4, <2>7 DEF Meets
  <2> QED BY <2>6, <2>8
<1>9. Closes(h, t)
  BY <1>3, <1>4, <1>7, <1>8 DEF Closes
<1> QED BY <1>9

LEMMA declarationsRises == ASSUME CodegenOK, CodegenOK', HeightOK, declarations PROVE HeightOK'
<1>1. status = "compiling" /\ status' = "compiling" /\ First.do \in {"program", "block"} /\ compilers' = compilers
  BY DEF declarations, Doing, Same, Steady
<1>2. PICK x \in Items : x = Item("declaration") /\ x.do = "declaration"
  BY PlainMade DEF PlainTasks
<1>3. PICK s : s = Tail(todo)
  OBVIOUS
<1>4. todo' = <<x, First>> \o s /\ s \in Seq(Items) /\ First \in Items
  BY <1>1, <1>2, <1>3, Meeting DEF declarations, Continue
<1>5. CASE First.do = "block"
  <2>1. PICK h, t, u : AtFirst(h, t, u)
    BY <1>1, <1>5, Arriving DEF Terminators
  <2>2. /\ t \in Frames /\ u \in Frames /\ Moves(Current, h, t, First, u) /\ t.size > 0
    BY <1>1, <2>1, FirstTyped
  <2>3. t.pending = "none" /\ t.temps = 0 /\ Becomes(t, u, 0, "none", 0)
    BY <1>4, <1>5, <2>2, MovesClosing DEF Closing
  <2>4. PICK w : w = With(t, 0, "none", 0)
    OBVIOUS
  <2>5. w \in Frames /\ Becomes(t, w, 0, "none", 0) /\ w.pending = "none" /\ w.temps = 0
    BY <2>2, <2>4, WithIs DEF Pendings
  <2>6. Becomes(w, u, 0, "none", 0)
    BY <2>2, <2>3, <2>5, BecomesOn
  <2>7. Moves(Current, h, t, x, w)
    BY <1>2, <2>2, <2>3, <2>5, MovesClosing DEF Closing
  <2>8. Moves(Current, h, w, First, u)
    BY <1>4, <1>5, <2>5, <2>6, MovesClosing DEF Closing, Wild
  <2>9. Steps(Current, h, <<x, First>>, t, u) /\ <<x, First>> \in Seq(Items)
    BY <1>2, <1>4, <1>5, <2>2, <2>5, <2>7, <2>8, Steps2 DEF Terminators
  <2>10. PICK items : items = <<x, First>>
    OBVIOUS
  <2>11. Continue(items)
    BY <1>3, <1>4, <2>10 DEF Continue
  <2> QED BY <1>1, <2>1, <2>9, <2>10, <2>11, Becoming
<1>6. CASE First.do = "program"
  <2>1. PICK h, t : Closes(h, t)
    BY <1>1, <1>6, Terminating DEF Terminators
  <2>2. t \in Frames /\ Holds(Current, h, t) /\ t.temps = 0 /\ t.pending = "none"
    BY <2>1 DEF Closes
  <2>3. t.size > 0
    BY <2>2, FrameTyped DEF Holds, Fitting, Values
  <2>4. PICK w : w = With(t, 0, "none", 0)
    OBVIOUS
  <2>5. w \in Frames /\ Becomes(t, w, 0, "none", 0) /\ w.pending = "none" /\ w.temps = 0
    BY <2>2, <2>4, WithIs DEF Pendings
  <2>6. Moves(Current, h, t, x, w)
    BY <1>2, <2>2, <2>3, <2>5, MovesClosing DEF Closing
  <2>7. Steps(Current, h, <<x>>, t, w) /\ <<x>> \in Seq(Items)
    BY <1>2, <2>2, <2>5, <2>6, Steps1 DEF Terminators
  <2>8. PICK r : r = <<First>> \o s
    OBVIOUS
  <2>9. r \in Seq(Items) /\ Meets(h, t, r, w)
    <3>1. <<First>> \in Seq(Items)
      BY <1>4
    <3>2. Meets(h, t, <<First>> \o Tail(todo), w)
      BY <1>4, <1>6, <2>1, <2>5 DEF Closes, Terminators
    <3> QED BY <1>3, <1>4, <2>8, <3>1, <3>2, ConcatProperties
  <2>10. todo' = <<x>> \o r
    <3>1. <<x>> \in Seq(Items) /\ <<First>> \in Seq(Items)
      BY <1>4
    <3>2. <<x>> \o (<<First>> \o s) = (<<x>> \o <<First>>) \o s
      BY <1>4, <3>1, ConcatAssociative
    <3>3. <<x>> \o <<First>> = <<x, First>>
      BY <1>4, Pair
    <3> QED BY <1>4, <2>8, <3>2, <3>3
  <2>11. PICK items : items = <<x>>
    OBVIOUS
  <2>12. Becomes(t, t, t.size, t.pending, t.temps) /\ Settles(w, w)
    BY <2>5, Settled DEF Becomes
  <2> QED BY <1>1, <2>2, <2>5, <2>7, <2>9, <2>10, <2>11, <2>12, Stays
<1> QED BY <1>1, <1>5, <1>6

LEMMA programEndsRises == ASSUME CodegenOK, CodegenOK', HeightOK, programEnds PROVE HeightOK'
<1>1. status = "compiling" /\ status' = "compiling" /\ First.do \in Terminators /\ compilers' = compilers
  BY DEF programEnds, Doing, Same, Steady, Terminators
<1>2. PICK e \in Items : e = Item("end") /\ e.do \in Terminators
  BY ItemMade DEF Bare, Tasks, Terminators
<1>3. PICK h, t : Closes(h, t)
  BY <1>1, Terminating
<1>4. t \in Frames /\ Holds(Current, h, t) /\ t.temps = 0 /\ t.pending = "none"
  BY <1>3 DEF Closes
<1>5. PICK r : r = <<e>> \o Tail(todo)
  OBVIOUS
<1>6. r \in Seq(Items) /\ Meets(h, t, r, t)
  <2>1. <<e>> \in Seq(Items) /\ Tail(todo) \in Seq(Items)
    BY <1>1, Meeting
  <2>2. Meets(h, t, <<e>> \o Tail(todo), t)
    BY <1>2, <1>3, <1>4 DEF Closes
  <2> QED BY <1>5, <2>1, <2>2, ConcatProperties
<1>7. todo' = r
  BY <1>2, <1>5 DEF programEnds, Continue
<1>8. PICK items : items = <<>>
  OBVIOUS
<1>9. items \in Seq(Items) /\ todo' = items \o r
  BY <1>6, <1>7, <1>8, ConcatEmptySeq
<1>10. Steps(Current, h, items, t, t) /\ Becomes(t, t, t.size, t.pending, t.temps) /\ Settles(t, t)
  BY <1>4, <1>8, Steps0, Settled DEF Becomes
<1> QED BY <1>1, <1>4, <1>6, <1>9, <1>10, Stays

LEMMA SentenceWrites ==
  ASSUME CodegenOK, CodegenOK', status = "compiling", status' = "compiling",
         NEW h, NEW t, NEW u, NEW w, Stands(h, t, u, w), NEW g, Now(g), \E c \in Codes : g = WithCode(Current, c),
         NEW items \in Seq(Items), Continue(items),
         \E k : Ends(g, k, t.size) /\ Grows(Current, h, g, k) /\ Steps(g, k, items, t, w)
  PROVE  HeightOK'
<1>1. AtFirst(h, t, u) /\ t \in Frames /\ t.pending = "none" /\ t.temps = 0 /\ Values(t) = t.size /\ Settles(u, w)
  BY DEF Stands, AtFirst
<1>2. t.size + 0 = t.size
  BY <1>1, FrameTyped
<1>3. \E k : Ends(g, k, Values(t) + 0) /\ Grows(Current, h, g, k) /\ Steps(g, k, items, t, w)
  BY <1>1, <1>2
<1>4. Becomes(t, t, t.size, t.pending, 0)
  BY <1>1 DEF Becomes
<1>5. t.pending # "parameters"
  BY <1>1
<1> QED BY <1>1, <1>3, <1>4, <1>5, Writing_

LEMMA StandsTyped ==
  ASSUME CodegenOK, status = "compiling", NEW h, NEW t, NEW u, NEW w, Stands(h, t, u, w)
  PROVE  /\ Current \in CompilersTyped /\ First \in Items /\ Moves(Current, h, t, First, u) /\ Count(Current) \in Nat
         /\ t \in Frames /\ t.size \in Nat /\ t.size > 0 /\ t.pending = "none" /\ t.temps = 0 /\ Values(t) = t.size
         /\ w \in Frames /\ Becomes(t, w, t.size, "none", 0) /\ Ends(Current, h, t.size) /\ Holds(Current, h, t)
<1>1. AtFirst(h, t, u)
  BY DEF Stands
<1>2. Current \in CompilersTyped /\ First \in Items /\ Moves(Current, h, t, First, u) /\ t \in Frames /\ t.size \in Nat
      /\ Holds(Current, h, t)
  BY <1>1, FirstTyped
<1> QED BY <1>2, Counts DEF Stands

(* Emitting a jump and patching it. *)
LEMMA JumpEmitted ==
  ASSUME NEW f \in CompilersTyped, NEW name \in Forward
  PROVE  /\ emitJump(f, name) \in CompilersTyped /\ Count(f) \in Nat /\ JumpOperand(f) \in Int
         /\ Count(emitJump(f, name)) \in Nat /\ \E c \in Codes : emitJump(f, name) = WithCode(f, c)
<1>1. name \in Ops
  BY DEF Ops, Forward
<1>2. emitJump(f, name) \in CompilersTyped /\ \E c \in Codes : emitJump(f, name) = WithCode(f, c)
  BY <1>1, EmitJumpTyped, WithCodeTyped
<1>3. Count(f) \in Nat /\ Count(emitJump(f, name)) \in Nat
  BY <1>2, Counts
<1> QED BY <1>2, <1>3 DEF JumpOperand

LEMMA caseThenRises == ASSUME CodegenOK, CodegenOK', HeightOK, caseThen PROVE HeightOK'
<1>1. PICK f, at : f = Current /\ at = JumpOperand(f)
  OBVIOUS
<1>2. /\ status = "compiling" /\ status' = "compiling" /\ First.do = "then" /\ Now(emitJump(f, "JUMP_IF_FALSE_POP"))
      /\ Continue(<<Item("statement"), [Item("else") EXCEPT !.at = at]>>)
  BY <1>1 DEF caseThen, Doing, Same, Steady
<1>3. PICK h, t, u : AtFirst(h, t, u)
  BY <1>2, Arriving DEF Terminators
<1>4. /\ First \in Items /\ t \in Frames /\ u \in Frames /\ Moves(f, h, t, First, u) /\ t.size \in Nat /\ t.size > 0
      /\ Height(t) = Values(t) + t.temps /\ Ends(f, h, Height(t)) /\ f \in CompilersTyped
      /\ t.pending \in {"none", "parameters"} => Values(t) = t.size
  BY <1>1, <1>2, <1>3, FirstTyped
<1>5. t.pending = "none" /\ t.temps = 1 /\ Becomes(t, u, t.size, "none", 0)
  BY <1>2, <1>4, MovesThen
<1>6. PICK m \in Nat : m = t.size
  BY <1>4
<1>7. PICK g : g = emitJump(f, "JUMP_IF_FALSE_POP")
  OBVIOUS
<1>8. PICK k : Ends(g, k, m) /\ Grows(f, h, g, k) /\ Jumps(g, k, at, m)
  <2>1. Ends(f, h, m + 1)
    BY <1>4, <1>5, <1>6
  <2>2. m + 1 \in Nat /\ m + 1 >= 2 /\ m = (m + 1) - 1
    BY <1>4, <1>6
  <2>3. "JUMP_IF_FALSE_POP" \in Forward
    BY DEF Forward
  <2> QED BY <1>1, <1>4, <1>7, <2>1, <2>2, <2>3, EmitsJump
<1>9. PICK v \in Frames : /\ Becomes(t, v, t.size, t.pending, 0) /\ v.size = t.size /\ v.pending = t.pending /\ v.temps = 0
                          /\ \A w, a, b, d : Becomes(t, w, a, b, d) => Becomes(v, w, a, b, d)
  BY <1>4, Amid
<1>10. PICK i \in Items : i = Item("statement") /\ i.do = "statement"
  BY PlainMade DEF PlainTasks
<1>11. at \in Int /\ \E c \in Codes : g = WithCode(f, c)
  <2>1. "JUMP_IF_FALSE_POP" \in Forward
    BY DEF Forward
  <2> QED BY <1>1, <1>4, <1>7, <2>1, JumpEmitted
<1>12. PICK j \in Items : j = [Item("else") EXCEPT !.at = at] /\ j.do = "else"
  BY <1>11, ItemAt DEF Bare, Tasks, PlainTasks
<1>13. j.at = at
  BY <1>12 DEF Item
<1>14. Moves(g, k, v, i, v)
  <2>1. Becomes(v, v, v.size, "none", 0)
    BY <1>5, <1>9 DEF Becomes
  <2> QED BY <1>4, <1>5, <1>9, <1>10, <2>1, MovesStatement
<1>15. Moves(g, k, v, j, u)
  <2>1. Becomes(v, u, v.size, "none", 0)
    BY <1>5, <1>9
  <2> QED BY <1>4, <1>5, <1>6, <1>8, <1>9, <1>12, <1>13, <2>1, MovesStatement
<1>16. PICK items : items = <<i, j>>
  OBVIOUS
<1>17. items \in Seq(Items) /\ Steps(g, k, items, v, u)
  BY <1>4, <1>9, <1>10, <1>12, <1>14, <1>15, <1>16, Steps2 DEF Terminators
<1>18. Ends(g, k, Values(t) + 0) /\ Settles(u, u) /\ t.pending # "parameters"
  <2>1. Values(t) + 0 = m
    BY <1>4, <1>5, <1>6
  <2> QED BY <1>4, <1>5, <1>8, <2>1, Settled
<1>19. Continue(items) /\ Now(g) /\ \E c \in Codes : g = WithCode(Current, c)
  BY <1>1, <1>2, <1>7, <1>10, <1>11, <1>12, <1>16
<1>20. Grows(Current, h, g, k)
  BY <1>1, <1>8
<1> QED BY <1>2, <1>3, <1>9, <1>17, <1>18, <1>19, <1>20, Writing_

LEMMA caseElseRises == ASSUME CodegenOK, CodegenOK', HeightOK, caseElse PROVE HeightOK'
<1>1. CASE fail
  BY <1>1 DEF fail, HeightOK
<1>2. CASE ~fail
  <2>1. PICK f, at : f = Current /\ at = JumpOperand(f)
    OBVIOUS
  <2>2. PICK e : e = emitJump(f, "JUMP")
    OBVIOUS
  <2>3. PICK g : g = patchJump(e, First.at)
    OBVIOUS
  <2>4. /\ status = "compiling" /\ status' = "compiling" /\ First.do = "else" /\ ~TooFar(Distance(e, First.at)) /\ Now(g)
        /\ Continue(<<Patch(at)>>) \/ Continue(<<Item("case"), Patch(at)>>)
    BY <1>2, <2>1, <2>2, <2>3 DEF caseElse, Doing, Steady
  <2>5. PICK h, t, u, w : Stands(h, t, u, w)
    BY <2>4, Standing
  <2>6. /\ f \in CompilersTyped /\ First \in Items /\ Moves(f, h, t, First, u) /\ Count(f) \in Nat
        /\ t \in Frames /\ t.size \in Nat /\ t.size > 0 /\ t.pending = "none" /\ t.temps = 0 /\ Values(t) = t.size
        /\ w \in Frames /\ Becomes(t, w, t.size, "none", 0) /\ Ends(f, h, t.size)
    BY <2>1, <2>4, <2>5, StandsTyped
  <2>7. PICK m \in Nat : m = t.size /\ m >= 1
    BY <2>6
  <2>8. "JUMP" \in Forward
    BY DEF Forward
  <2>9. PICK to : to = First.at
    OBVIOUS
  <2>10. Jumps(f, h, to, m)
    BY <2>4, <2>6, <2>7, <2>9, MovesStatement
  <2>11. PICK k : Ends(e, k, m) /\ Grows(f, h, e, k) /\ Jumps(e, k, at, m)
    <3>1. Ends(f, h, m)
      BY <2>6, <2>7
    <3> QED BY <2>1, <2>2, <2>6, <2>7, <2>8, <3>1, EmitsJump
  <2>12. e \in CompilersTyped /\ Count(e) \in Nat /\ at \in Int /\ \E c \in Codes : e = WithCode(f, c)
    BY <2>1, <2>2, <2>6, <2>8, JumpEmitted
  <2>13. to \in Int
    BY <2>6, <2>9 DEF Items, ItemRecords
  <2>14. Jumps(e, k, to, m)
    BY <2>6, <2>10, <2>11, <2>12, <2>13, JumpsGrow
  <2>15. Ends(g, k, m) /\ Grows(e, k, g, k) /\ \E c \in Codes : g = WithCode(e, c)
    BY <2>3, <2>4, <2>9, <2>11, <2>12, <2>14, Patches
  <2>16. \E c \in Codes : g = WithCode(f, c)
    BY <2>6, <2>12, <2>15, WithCodeTyped
  <2>17. g \in CompilersTyped /\ Count(g) \in Nat
    BY <2>6, <2>16, WithCodeTyped, Counts
  <2>18. Grows(f, h, g, k)
    <3>1. Mapped(f, h)
      BY <2>6 DEF Ends
    <3> QED BY <2>6, <2>11, <2>12, <2>15, <2>17, <3>1, GrowsOn
  <2>19. Jumps(g, k, at, m)
    BY <2>11, <2>12, <2>15, <2>17, JumpsGrow
  <2>20. PICK p \in Items : p = Patch(at) /\ p.do = "patch" /\ p.at = at
    BY <2>12, PatchMade DEF Patch, Item
  <2>21. Moves(g, k, t, p, w)
    <3>1. Becomes(t, w, t.size, t.pending, t.temps) /\ Height(t) = m
      BY <2>6, <2>7 DEF Height
    <3> QED BY <2>6, <2>19, <2>20, <3>1, MovesOver
  <2>22. Ends(g, k, t.size) /\ Grows(Current, h, g, k) /\ \E c \in Codes : g = WithCode(Current, c)
    BY <2>1, <2>7, <2>15, <2>16, <2>18
  <2>23. CASE Continue(<<Patch(at)>>)
    <3>1. PICK items : items = <<p>>
      OBVIOUS
    <3>2. items \in Seq(Items) /\ Steps(g, k, items, t, w)
      BY <2>6, <2>20, <2>21, <3>1, Steps1 DEF Terminators
    <3>3. Continue(items)
      BY <2>20, <2>23, <3>1
    <3> QED BY <2>4, <2>5, <2>22, <3>2, <3>3, SentenceWrites
  <2>24. CASE Continue(<<Item("case"), Patch(at)>>)
    <3>1. PICK i \in Items : i = Item("case") /\ i.do = "case"
      BY PlainMade DEF PlainTasks
    <3>2. Moves(g, k, t, i, t)
      <4>1. Becomes(t, t, t.size, "none", 0)
        BY <2>6 DEF Becomes
      <4> QED BY <2>6, <3>1, <4>1, MovesStatement
    <3>3. PICK items : items = <<i, p>>
      OBVIOUS
    <3>4. items \in Seq(Items) /\ Steps(g, k, items, t, w)
      BY <2>6, <2>20, <2>21, <3>1, <3>2, <3>3, Steps2 DEF Terminators
    <3>5. Continue(items)
      BY <2>20, <2>24, <3>1, <3>3
    <3> QED BY <2>4, <2>5, <2>22, <3>4, <3>5, SentenceWrites
  <2> QED BY <2>4, <2>23, <2>24
<1> QED BY <1>1, <1>2

LEMMA dropsRise == ASSUME CodegenOK, CodegenOK', HeightOK, blockEnds \/ variablesEnd \/ classEnds PROVE HeightOK'
BY Drops DEF blockEnds, variablesEnd, classEnds, Doing, Same, Steady

LEMMA methodRises == ASSUME CodegenOK, CodegenOK', HeightOK, method PROVE HeightOK'
<1>1. status = "compiling" /\ status' = "compiling" /\ First.do = "methods" /\ compilers' = compilers
  BY DEF method, Doing, Steady
<1>2. CASE Continue(<<>>)
  BY <1>1, <1>2, Drops
<1>3. ASSUME NEW type \in MethodTypes, Continue(<<Function(type), Emit(emitConstantCommond("METHOD")), First>>)
      PROVE  HeightOK'
  <2>1. PICK h, t, u : AtFirst(h, t, u)
    BY <1>1, Arriving DEF Terminators
  <2>2. /\ First \in Items /\ t \in Frames /\ u \in Frames /\ Moves(Current, h, t, First, u) /\ t.temps \in Nat /\ t.size > 0
    BY <1>1, <2>1, FirstTyped
  <2>3. t.pending = "none" /\ t.temps > 0 /\ Becomes(t, u, t.size, t.pending, t.temps)
    BY <1>1, <2>2, MovesOver
  <2>4. PICK n \in Nat : n = t.temps + 1 /\ n >= 2 /\ n - 2 + 1 = t.temps
    BY <2>2, <2>3
  <2>5. PICK v \in Frames : /\ Becomes(t, v, t.size, t.pending, n) /\ v.size = t.size /\ v.pending = t.pending /\ v.temps = n
                            /\ \A w, a, b, d : Becomes(t, w, a, b, d) => Becomes(v, w, a, b, d)
    BY <2>2, Amid
  <2>6. PICK x \in Items : x = Function(type) /\ x.do = "function"
    BY FunctionMade
  <2>7. PICK c : c = emitConstantCommond("METHOD")
    OBVIOUS
  <2>8. c \in Codes /\ c[1].op = "METHOD" /\ Decodes(c, 1) /\ Len(c) = 1 + OperandSize(c, 1)
    BY <2>7, ThreeCells DEF Shorts
  <2>9. Takes(c, 1) = 2 /\ Leaves(c, 1) = 1
    BY <2>8 DEF Takes, Leaves
  <2>10. Combines(c, 2)
    BY <2>8, <2>9 DEF Combines, Forward
  <2>11. PICK y \in Items : y = Emit(c) /\ y.do = "emit" /\ y.code = c /\ Simple(y, v)
    BY <2>4, <2>5, <2>10, CombinesSimple
  <2>12. Moves(Current, h, t, x, v)
    <3>1. Becomes(t, v, t.size, t.pending, t.temps + 1)
      BY <2>4, <2>5
    <3> QED BY <2>2, <2>3, <2>6, <3>1, MovesFunction
  <2>13. Moves(Current, h, v, y, t)
    <3>1. v.temps - Takes(y.code, 1) + Leaves(y.code, 1) = t.temps
      BY <2>4, <2>5, <2>9, <2>11
    <3>2. Becomes(v, t, v.size, v.pending, t.temps)
      <4>1. Becomes(t, t, t.size, t.pending, t.temps)
        BY DEF Becomes
      <4> QED BY <2>5, <4>1
    <3> QED BY <2>2, <2>3, <2>5, <2>11, <3>1, <3>2, MovesEmit
  <2>14. PICK items : items = <<x, y, First>>
    OBVIOUS
  <2>15. items \in Seq(Items) /\ Steps(Current, h, items, t, u)
    BY <1>1, <2>2, <2>5, <2>6, <2>11, <2>12, <2>13, <2>14, Steps3 DEF Terminators
  <2>16. Continue(items)
    BY <1>3, <2>6, <2>7, <2>11, <2>14
  <2> QED BY <1>1, <2>1, <2>15, <2>16, Becoming
<1> QED BY <1>2, <1>3 DEF method

LEMMA parametersEndRises == ASSUME CodegenOK, CodegenOK', HeightOK, parametersEnd PROVE HeightOK'
<1>1. status = "compiling" /\ status' = "compiling" /\ First.do = "parameters" /\ compilers' = compilers /\ Continue(<<>>)
  BY DEF parametersEnd, Doing, Same, Steady
<1>2. PICK h, t, u : AtFirst(h, t, u)
  BY <1>1, Arriving DEF Terminators
<1>3. PICK f : f = Current
  OBVIOUS
<1>4. /\ First \in Items /\ t \in Frames /\ u \in Frames /\ Moves(f, h, t, First, u) /\ t.size \in Nat
      /\ Holds(f, h, t) /\ f \in CompilersTyped
  BY <1>1, <1>2, <1>3, FirstTyped
<1>5. t.pending = "parameters" /\ t.temps = 0 /\ Becomes(t, u, 0, "none", 0)
  BY <1>1, <1>4, MovesParameters
<1>6. PICK w : w = [u EXCEPT !.size = t.size]
  OBVIOUS
<1>7. w \in Frames /\ Becomes(t, w, t.size, "none", 0) /\ Settles(u, w)
  BY <1>4, <1>5, <1>6, SizeLearned
<1>8. /\ w.size = t.size /\ w.pending = "none" /\ w.temps = 0 /\ w.depth = t.depth /\ w.loops = t.loops
      /\ \A i \in 1 .. t.depth : w.sizes[i] = t.sizes[i]
      /\ \A i \in 1 .. t.loops : w.floors[i] = t.floors[i]
  BY <1>7 DEF Becomes
<1>9. Values(w) = Values(t) /\ Height(w) = Height(t)
  BY <1>5, <1>8 DEF Values, Height
<1>10. Fitting(f, w)
  <2>1. Fitting(f, t)
    BY <1>4 DEF Holds
  <2>2. Last(f).depth # -1
    BY <1>5, <2>1 DEF Fitting
  <2>3. \A d \in 1 .. w.depth : /\ w.sizes[d] <= w.size
                                /\ \A i \in 1 .. w.size : i <= w.sizes[d] <=> f.locals[i].depth \in 0 .. d - 1
    BY <1>8, <2>1 DEF Fitting
  <2> QED BY <1>8, <1>9, <2>1, <2>2, <2>3 DEF Fitting
<1>11. Grows(f, h, f, h)
  BY <1>4, Counts, GrowsSelf
<1>12. Looping(f, h, w)
  <2>1. Alike(f, f) /\ Looping(f, h, t) /\ t.loops \in Nat
    BY <1>4, FrameTyped DEF Alike, Holds
  <2> QED BY <1>8, <1>9, <1>11, <2>1, LoopingKept
<1>13. Holds(f, h, w)
  BY <1>4, <1>9, <1>10, <1>12 DEF Holds
<1>14. compilers' = [compilers EXCEPT ![Len(compilers)] = f]
  <2>1. compilers \in Seq(Sound)
    BY DEF CodegenOK
  <2> QED BY <1>1, <1>3, <2>1 DEF Current
<1>15. PICK items : items = <<>>
  OBVIOUS
<1>16. items \in Seq(Items) /\ Steps(f, h, items, w, w) /\ todo' = items \o Tail(todo)
  BY <1>1, <1>7, <1>15, Steps0 DEF Continue
<1>17. Tail(todo) \in Seq(Items) /\ Meets(h, t, Tail(todo), u) /\ Grows(Current, h, f, h)
  BY <1>1, <1>2, <1>3, <1>11, Meeting DEF AtFirst
<1> QED BY <1>1, <1>7, <1>13, <1>14, <1>16, <1>17, Rises

LEMMA ReturnCode ==
  ASSUME NEW f \in CompilersTyped
  PROVE  \E c \in Codes : emitReturn(f) = WithCode(f, c)
<1>1. <<Op("NIL"), Op("RETURN")>> \in Codes /\ <<Op("GET_LOCAL"), Byte(0), Byte(0), Op("RETURN")>> \in Codes
  <2>1. Op("NIL") \in Cells /\ Op("RETURN") \in Cells /\ Op("GET_LOCAL") \in Cells /\ Byte(0) \in Cells
    BY OpCell, ByteCell, Bytes_ DEF Ops
  <2> QED BY <2>1 DEF Codes
<1>2. PICK d : d = IF f.type = "initializer" THEN <<Op("GET_LOCAL"), Byte(0), Byte(0), Op("RETURN")>>
                   ELSE <<Op("NIL"), Op("RETURN")>>
  OBVIOUS
<1>3. d \in Codes /\ emitReturn(f) = emit(f, d)
  BY <1>1, <1>2 DEF emitReturn
<1> QED BY <1>3, EmitOne

(* A statement without parts. *)
LEMMA SentenceEnds ==
  ASSUME CodegenOK, CodegenOK', status = "compiling", status' = "compiling",
         NEW h, NEW t, NEW u, NEW w, Stands(h, t, u, w), NEW g, Now(g), \E c \in Codes : g = WithCode(Current, c),
         Continue(<<>>), \E k : Ends(g, k, t.size) /\ Grows(Current, h, g, k)
  PROVE  HeightOK'
<1>1. /\ AtFirst(h, t, u) /\ t \in Frames /\ t.pending # "parameters" /\ Values(t) = t.size /\ Settles(u, w)
      /\ w \in Frames /\ Becomes(t, w, t.size, t.pending, 0)
  BY DEF Stands, AtFirst
<1>2. t.size + 0 = t.size
  BY <1>1, FrameTyped
<1>3. PICK items : items = <<>>
  OBVIOUS
<1>4. items \in Seq(Items) /\ Continue(items)
  BY <1>3
<1>5. \E k : Ends(g, k, Values(t) + 0) /\ Grows(Current, h, g, k) /\ Steps(g, k, items, w, w)
  <2>1. PICK k : Ends(g, k, t.size) /\ Grows(Current, h, g, k)
    OBVIOUS
  <2>2. Steps(g, k, items, w, w)
    BY <1>1, <1>3, Steps0
  <2> QED BY <1>1, <1>2, <2>1, <2>2
<1> QED BY <1>1, <1>4, <1>5, Writing_

LEMMA returnStatementRises == ASSUME CodegenOK, CodegenOK', HeightOK, returnStatement PROVE HeightOK'
<1>1. CASE fail
  BY <1>1 DEF fail, HeightOK
<1>2. CASE ~fail
  <2>1. AtStatement /\ status' = status
    BY <1>2 DEF returnStatement, Steady
  <2>2. status = "compiling" /\ status' = "compiling"
    BY <2>1, AtStatements
  <2>3. PICK h, t, u, w : Stands(h, t, u, w)
    BY <2>1, AtStatements, Standing
  <2>4. /\ Current \in CompilersTyped /\ t \in Frames /\ t.size \in Nat /\ t.size > 0 /\ t.pending = "none" /\ t.temps = 0
        /\ w \in Frames /\ Becomes(t, w, t.size, "none", 0) /\ Ends(Current, h, t.size)
    BY <2>2, <2>3, StandsTyped
  <2>5. CASE Now(emitReturn(Current)) /\ Continue(<<>>)
    <3>1. PICK g : g = emitReturn(Current)
      OBVIOUS
    <3>2. PICK n \in Nat : n = t.size /\ n >= 1
      BY <2>4
    <3>3. PICK k : Ends(g, k, n) /\ Grows(Current, h, g, k)
      <4>1. Ends(Current, h, n)
        BY <2>4, <3>2
      <4> QED BY <2>4, <3>1, <3>2, <4>1, EmitsReturn
    <3>4. \E c \in Codes : g = WithCode(Current, c)
      BY <2>4, <3>1, ReturnCode
    <3> QED BY <2>2, <2>3, <2>5, <3>1, <3>2, <3>3, <3>4, SentenceEnds
  <2>6. CASE Continue(<<Expression, Emit(<<Op("RETURN")>>)>>) /\ compilers' = compilers
    <3>1. PICK items : items = <<Expression, Emit(<<Op("RETURN")>>)>>
      OBVIOUS
    <3>2. items \in Seq(Items) /\ Steps(Current, h, items, t, w)
      BY <2>4, <3>1, StepsExpression
    <3> QED BY <2>2, <2>3, <2>6, <3>1, <3>2, Sentence
  <2> QED BY <1>2, <2>5, <2>6 DEF returnStatement
<1> QED BY <1>1, <1>2

(* A change of the loops leaves the code as it is. *)
LEMMA EndsLike ==
  ASSUME NEW f \in CompilersTyped, NEW s \in Seq(Loops), NEW g, g = [f EXCEPT !.loops = s]
  PROVE  /\ g \in CompilersTyped /\ g.loops = s /\ g.code = f.code /\ g.locals = f.locals /\ g.scopeDepth = f.scopeDepth
         /\ Count(g) = Count(f)
         /\ \A h, n : (Ends(f, h, n) => Ends(g, h, n)) /\ (Ends(g, h, n) => Ends(f, h, n))
         /\ \A h, at, n : (Jumps(f, h, at, n) => Jumps(g, h, at, n)) /\ (Jumps(g, h, at, n) => Jumps(f, h, at, n))
         /\ \A e, k, h : Grows(e, k, f, h) => Grows(e, k, g, h)
         /\ \A t : Fitting(f, t) /\ t.pending # "parameters" => Fitting(g, t)
<1>1. /\ g \in CompilersTyped /\ g.locals = f.locals /\ g.scopeDepth = f.scopeDepth /\ g.loops = s
      /\ g.code = f.code /\ g.arity = f.arity /\ g.type = f.type /\ g.upvalues = f.upvalues
  BY DEF CompilersTyped
<1>2. Count(f) = Count(g)
  BY <1>1 DEF Count
<1>3. \A h, p : Maps(f, h, p) <=> Maps(g, h, p)
  BY <1>1 DEF Maps, Dead, Executes
<1>4. \A h, n : (Ends(f, h, n) => Ends(g, h, n)) /\ (Ends(g, h, n) => Ends(f, h, n))
  BY <1>1, <1>2, <1>3 DEF Ends, Mapped
<1>5. \A h, at, n : (Jumps(f, h, at, n) => Jumps(g, h, at, n)) /\ (Jumps(g, h, at, n) => Jumps(f, h, at, n))
  BY <1>1, <1>2 DEF Jumps
<1>6. \A e, k, h : Grows(e, k, f, h) => Grows(e, k, g, h)
  BY <1>1, <1>2 DEF Grows
<1>7. \A t : Fitting(f, t) /\ t.pending # "parameters" => Fitting(g, t)
  BY <1>1 DEF Fitting, Last
<1> QED BY <1>1, <1>2, <1>4, <1>5, <1>6, <1>7

LEMMA BreakLooping ==
  ASSUME NEW g \in CompilersTyped, NEW k, NEW w \in Frames, Looping(g, k, w), NEW n, n = Len(g.loops), g.loops # <<>>,
         NEW j \in Int, Jumps(g, k, j, w.floors[n]), NEW u, u = [g.loops[n] EXCEPT !.breakJumps = Append(@, j)],
         NEW s, s = [g.loops EXCEPT ![n] = u], NEW e, e = [g EXCEPT !.loops = s]
  PROVE  s \in Seq(Loops) /\ Looping(e, k, w)
<1>1. PICK r : r = g.loops
  OBVIOUS
<1>2. r \in Seq(Loops) /\ n = Len(r) /\ n \in Nat /\ n \in 1 .. n /\ r[n] \in Loops
  BY <1>1, AtLoops DEF CompilersTyped
<1>3. PICK v, b, q : v = r[n] /\ b = v.breakJumps /\ q = Append(b, j)
  OBVIOUS
<1>4. v \in Loops /\ b \in Seq(Int)
  BY <1>2, <1>3 DEF Loops
<1>5. PICK m \in Nat : m = Len(b)
  BY <1>4, LenProperties
<1>6. q \in Seq(Int) /\ Len(q) = m + 1 /\ q[m + 1] = j
  BY <1>3, <1>4, <1>5, AppendProperties
<1>7. \A i \in 1 .. m : q[i] = b[i]
  BY <1>3, <1>4, <1>5, AppendProperties
<1>8. u \in Loops /\ u.start = v.start /\ u.enterParamCount = v.enterParamCount /\ u.breakJumps = q
  <2>1. u = [v EXCEPT !.breakJumps = q]
    BY <1>1, <1>3
  <2> QED BY <1>4, <1>6, <2>1 DEF Loops
<1>9. s \in Seq(Loops) /\ Len(s) = n
  BY <1>1, <1>2, <1>8, ExceptSeq
<1>10. \A i \in 1 .. n : s[i] = IF i = n THEN u ELSE r[i]
  BY <1>1, <1>2, <1>8, ExceptSeq
<1>11. e.loops = s /\ \A at, x : Jumps(g, k, at, x) => Jumps(e, k, at, x)
  <2>1. e.loops = s
    BY <1>9, EndsLike
  <2>2. e.code = g.code
    BY <1>9, EndsLike
  <2>3. \A h, at, x : Jumps(g, h, at, x) => Jumps(e, h, at, x)
    BY <2>2 DEF Jumps, Count
  <2> QED BY <2>1, <2>3
<1>12. w.loops = n
  BY DEF Looping
<1>13. ASSUME NEW i \in 1 .. n
       PROVE  /\ s[i].enterParamCount = w.floors[i] /\ Starts(k, s[i].start, w.floors[i])
              /\ \A l \in 1 .. Len(s[i].breakJumps) : Jumps(e, k, s[i].breakJumps[l], w.floors[i])
  <2>1. /\ r[i].enterParamCount = w.floors[i] /\ Starts(k, r[i].start, w.floors[i])
        /\ \A l \in 1 .. Len(r[i].breakJumps) : Jumps(g, k, r[i].breakJumps[l], w.floors[i])
    BY <1>1, <1>12 DEF Looping
  <2>2. CASE i # n
    BY <1>10, <1>11, <2>1, <2>2
  <2>3. CASE i = n
    <3>1. s[i] = u /\ r[i] = v
      BY <1>3, <1>10, <2>3
    <3>2. ASSUME NEW l \in 1 .. m + 1 PROVE Jumps(e, k, q[l], w.floors[i])
      <4>1. CASE l = m + 1
        BY <1>6, <1>11, <2>3, <4>1
      <4>2. CASE l # m + 1
        <5>1. l \in 1 .. m
          BY <4>2
        <5>2. q[l] = b[l] /\ Jumps(g, k, b[l], w.floors[i])
          BY <1>3, <1>5, <1>7, <2>1, <3>1, <5>1
        <5> QED BY <1>11, <5>2
      <4> QED BY <4>1, <4>2
    <3> QED BY <1>6, <1>8, <2>1, <3>1, <3>2
  <2> QED BY <2>2, <2>3
<1>14. w.loops > 0 => w.floors[w.loops] <= Values(w)
  BY DEF Looping
<1> QED BY <1>9, <1>11, <1>12, <1>13, <1>14 DEF Looping

(* The code that leaves the locals of the loop. *)
LEMMA LeavesLoop ==
  ASSUME CodegenOK, status = "compiling", NEW h, NEW t, NEW u, NEW w, Stands(h, t, u, w), Current.loops # <<>>
  PROVE  LET e == LeaveLoop
             floor == t.floors[t.loops]
         IN  /\ floor \in Nat /\ floor >= 1 /\ t.loops = Len(Current.loops) /\ t.loops \in 1 .. t.loops
             /\ InnermostLoop.start \in Int /\ Starts(h, InnermostLoop.start, floor)
             /\ e \in CompilersTyped /\ \E c \in Codes : e = WithCode(Current, c)
             /\ \E k : Ends(e, k, floor) /\ Grows(Current, h, e, k)
<1>1. /\ Current \in CompilersTyped /\ t \in Frames /\ t.size \in Nat /\ Values(t) = t.size
      /\ Ends(Current, h, t.size) /\ Holds(Current, h, t)
  BY StandsTyped
<1>2. PICK f, e, l, floor : f = Current /\ e = LeaveLoop /\ l = InnermostLoop /\ floor = t.floors[t.loops]
  OBVIOUS
<1>3. PICK n \in Nat : n = Len(f.loops) /\ n \in 1 .. n /\ l = f.loops[n] /\ l \in Loops
  BY <1>1, <1>2, AtLoops DEF InnermostLoop
<1>4. t.loops = n /\ l.enterParamCount = floor /\ Starts(h, l.start, floor) /\ floor <= t.size
  <2>1. Looping(f, h, t)
    BY <1>1, <1>2 DEF Holds
  <2> QED BY <1>1, <1>2, <1>3, <2>1 DEF Looping
<1>5. floor \in Nat /\ floor >= 1
  BY <1>1, <1>2, <1>4, FrameTyped
<1>6. t.size = Len(f.locals) /\ t.size <= LOCAL_MAX
  <2>1. f \in Sound
    BY <1>2, Meeting
  <2>2. t.size = Len(f.locals)
    BY <1>1, <1>2 DEF Holds, Fitting
  <2> QED BY <2>1, <2>2, Bytes_ DEF Sound, LocalsOK
<1>7. PICK d \in Nat : d = t.size - floor /\ floor + d = t.size /\ d < Base
  <2>1. t.size <= Base
    BY <1>1, <1>6, Bytes_
  <2> QED BY <1>1, <1>4, <1>5, <2>1, Bytes_
<1>8. e = emit(f, emitPopCount(d))
  BY <1>2, <1>4, <1>6, <1>7 DEF LeaveLoop
<1>9. e \in CompilersTyped /\ \E k : Ends(e, k, floor) /\ Grows(f, h, e, k)
  <2>1. Ends(f, h, floor + d)
    BY <1>1, <1>2, <1>7
  <2>2. floor > 0
    BY <1>5
  <2> QED BY <1>1, <1>2, <1>5, <1>7, <1>8, <2>1, <2>2, EmitsPops
<1>10. \E c \in Codes : e = WithCode(f, c)
  BY <1>2, LeaveLoopCode
<1>11. l.start \in Int
  BY <1>3 DEF Loops
<1> QED BY <1>2, <1>3, <1>4, <1>5, <1>9, <1>10, <1>11

LEMMA continueStatementRises == ASSUME CodegenOK, CodegenOK', HeightOK, continueStatement PROVE HeightOK'
<1>1. CASE fail
  BY <1>1 DEF fail, HeightOK
<1>2. CASE ~fail
  <2>1. PICK e, start : e = LeaveLoop /\ start = InnermostLoop.start
    OBVIOUS
  <2>2. PICK g : g = emitLoop(e, start)
    OBVIOUS
  <2>3. /\ AtStatement /\ status' = status /\ Current.loops # <<>> /\ ~TooFar(LoopDistance(e, start))
        /\ Now(g) /\ Continue(<<>>)
    BY <1>2, <2>1, <2>2 DEF continueStatement, Steady
  <2>4. status = "compiling" /\ status' = "compiling"
    BY <2>3, AtStatements
  <2>5. PICK h, t, u, w : Stands(h, t, u, w)
    BY <2>3, AtStatements, Standing
  <2>6. Current \in CompilersTyped /\ t.size \in Nat /\ Ends(Current, h, t.size)
    BY <2>4, <2>5, StandsTyped
  <2>7. PICK floor : floor = t.floors[t.loops]
    OBVIOUS
  <2>8. /\ floor \in Nat /\ floor >= 1 /\ start \in Int /\ Starts(h, start, floor)
        /\ e \in CompilersTyped /\ \E c \in Codes : e = WithCode(Current, c)
        /\ \E k : Ends(e, k, floor) /\ Grows(Current, h, e, k)
    BY <2>1, <2>3, <2>4, <2>5, <2>7, LeavesLoop
  <2>9. PICK k : Ends(e, k, floor) /\ Grows(Current, h, e, k)
    BY <2>8
  <2>10. Starts(k, start, floor)
    <3>1. Count(Current) \in Nat /\ Count(e) \in Nat
      BY <2>6, <2>8, Counts
    <3> QED BY <2>8, <2>9, <3>1, JumpsGrow
  <2>11. PICK m \in Nat : m = t.size
    BY <2>6
  <2>12. (\E l : Ends(g, l, m) /\ Grows(e, k, g, l)) /\ \E c \in Codes : g = WithCode(e, c)
    BY <2>2, <2>3, <2>8, <2>9, <2>10, EmitsLoop
  <2>13. \E c \in Codes : g = WithCode(Current, c)
    BY <2>6, <2>8, <2>12, WithCodeTyped
  <2>14. \E l : Ends(g, l, t.size) /\ Grows(Current, h, g, l)
    <3>1. PICK l : Ends(g, l, m) /\ Grows(e, k, g, l)
      BY <2>12
    <3>2. g \in CompilersTyped /\ Mapped(Current, h)
      BY <2>6, <2>13, WithCodeTyped DEF Ends
    <3>3. Grows(Current, h, g, l)
      BY <2>6, <2>8, <2>9, <3>1, <3>2, GrowsOn
    <3> QED BY <2>11, <3>1, <3>3
  <2> QED BY <2>3, <2>4, <2>5, <2>13, <2>14, SentenceEnds
<1> QED BY <1>1, <1>2

LEMMA breakStatementRises == ASSUME CodegenOK, CodegenOK', HeightOK, breakStatement PROVE HeightOK'
<1>1. CASE fail
  BY <1>1 DEF fail, HeightOK
<1>2. CASE ~fail
  <2>1. PICK f, e : f = Current /\ e = LeaveLoop
    OBVIOUS
  <2>2. PICK g, j : g = emitJump(e, "JUMP") /\ j = JumpOperand(e)
    OBVIOUS
  <2>3. PICK n : n = Len(f.loops)
    OBVIOUS
  <2>4. PICK b : b = [g EXCEPT !.loops[n].breakJumps = Append(@, j)]
    OBVIOUS
  <2>5. AtStatement /\ status' = status /\ f.loops # <<>> /\ Now(b) /\ Continue(<<>>)
    BY <1>2, <2>1, <2>2, <2>3, <2>4 DEF breakStatement, Steady
  <2>6. status = "compiling" /\ status' = "compiling"
    BY <2>5, AtStatements
  <2>7. PICK h, t, u, w : Stands(h, t, u, w)
    BY <2>5, AtStatements, Standing
  <2>8. /\ f \in CompilersTyped /\ t \in Frames /\ t.size \in Nat /\ Ends(f, h, t.size) /\ Holds(f, h, t)
        /\ w \in Frames /\ Becomes(t, w, t.size, "none", 0) /\ t.pending = "none" /\ Values(t) = t.size
    BY <2>1, <2>6, <2>7, StandsTyped
  <2>9. PICK floor : floor = t.floors[t.loops]
    OBVIOUS
  <2>10. /\ floor \in Nat /\ floor >= 1 /\ t.loops = n /\ t.loops \in 1 .. t.loops
         /\ e \in CompilersTyped /\ \E c \in Codes : e = WithCode(f, c)
         /\ \E k : Ends(e, k, floor) /\ Grows(f, h, e, k)
    BY <2>1, <2>3, <2>5, <2>6, <2>7, <2>9, LeavesLoop
  <2>11. PICK l : Ends(e, l, floor) /\ Grows(f, h, e, l)
    BY <2>10
  <2>12. "JUMP" \in Forward
    BY DEF Forward
  <2>13. g \in CompilersTyped /\ j \in Int /\ \E c \in Codes : g = WithCode(e, c)
    BY <2>2, <2>10, <2>12, JumpEmitted
  <2>14. PICK k : Ends(g, k, t.size) /\ Grows(e, l, g, k) /\ Jumps(g, k, j, floor)
    BY <2>2, <2>8, <2>10, <2>11, <2>12, EmitsJump
  <2>15. Grows(f, h, g, k)
    <3>1. Mapped(f, h)
      BY <2>8 DEF Ends
    <3> QED BY <2>8, <2>10, <2>11, <2>13, <2>14, <3>1, GrowsOn
  <2>16. \E c \in Codes : g = WithCode(f, c)
    BY <2>8, <2>10, <2>13, WithCodeTyped
  <2>17. Alike(f, g) /\ g.loops = f.loops
    BY <2>8, <2>16, AlikeTyped, WithCodeTyped
  <2>18. Holds(g, k, w)
    <3>1. Ends(g, k, Values(t) + 0)
      BY <2>8, <2>14
    <3>2. Becomes(t, w, t.size, t.pending, 0) /\ t.pending # "parameters"
      BY <2>8
    <3> QED BY <2>8, <2>15, <2>17, <3>1, <3>2, HoldsAfter
  <2>19. PICK r : r = [g.loops[n] EXCEPT !.breakJumps = Append(@, j)]
    OBVIOUS
  <2>20. PICK s : s = [g.loops EXCEPT ![n] = r]
    OBVIOUS
  <2>21. b = [g EXCEPT !.loops = s]
    BY <2>4, <2>13, <2>19, <2>20 DEF CompilersTyped
  <2>22. s \in Seq(Loops) /\ Looping(b, k, w)
    <3>1. Looping(g, k, w) /\ n = Len(g.loops) /\ g.loops # <<>>
      BY <2>3, <2>5, <2>17, <2>18 DEF Holds
    <3>2. w.floors[n] = floor
      BY <2>8, <2>9, <2>10 DEF Becomes
    <3>3. Jumps(g, k, j, w.floors[n])
      BY <2>14, <3>2
    <3> QED BY <2>8, <2>13, <2>19, <2>20, <2>21, <3>1, <3>3, BreakLooping
  <2>23. Holds(b, k, w) /\ Grows(f, h, b, k)
    <3>1. /\ \A x : Fitting(g, x) /\ x.pending # "parameters" => Fitting(b, x)
          /\ \A x, y : Ends(g, x, y) => Ends(b, x, y)
          /\ Grows(f, h, b, k)
      BY <2>13, <2>15, <2>21, <2>22, EndsLike
    <3>2. w.pending # "parameters"
      BY <2>8 DEF Becomes
    <3> QED BY <2>18, <2>22, <3>1, <3>2 DEF Holds
  <2>24. PICK items : items = <<>>
    OBVIOUS
  <2>25. items \in Seq(Items) /\ Steps(b, k, items, w, w) /\ todo' = items \o Tail(todo)
    BY <2>5, <2>8, <2>24, Steps0 DEF Continue
  <2>26. Tail(todo) \in Seq(Items) /\ Meets(h, t, Tail(todo), u) /\ Settles(u, w)
    BY <2>6, <2>7, Meeting DEF Stands, AtFirst
  <2>27. compilers' = [compilers EXCEPT ![Len(compilers)] = b] /\ Grows(Current, h, b, k)
    BY <2>1, <2>5, <2>23 DEF Now
  <2> QED BY <2>6, <2>8, <2>23, <2>25, <2>26, <2>27, Rises
<1> QED BY <1>1, <1>2

----------------------------------------------------------------------------
(* Declarations. *)

(* A change of the locals leaves the code as it is. *)
LEMMA LocalsLike ==
  ASSUME NEW f \in CompilersTyped, NEW s \in Seq(Locals), NEW g, g = [f EXCEPT !.locals = s]
  PROVE  /\ g \in CompilersTyped /\ g.locals = s /\ g.loops = f.loops /\ g.code = f.code /\ g.scopeDepth = f.scopeDepth
         /\ g.arity = f.arity /\ g.type = f.type /\ g.upvalues = f.upvalues
         /\ \A h, n : Ends(f, h, n) => Ends(g, h, n)
         /\ \A e, k, h : Grows(e, k, f, h) => Grows(e, k, g, h)
         /\ \A h, t : Looping(f, h, t) => Looping(g, h, t)
<1>1. /\ g \in CompilersTyped /\ g.locals = s /\ g.scopeDepth = f.scopeDepth /\ g.loops = f.loops
      /\ g.code = f.code /\ g.arity = f.arity /\ g.type = f.type /\ g.upvalues = f.upvalues
  BY DEF CompilersTyped
<1>2. Count(f) = Count(g)
  BY <1>1 DEF Count
<1>3. \A h, p : Maps(f, h, p) <=> Maps(g, h, p)
  BY <1>1 DEF Maps, Dead, Executes
<1>4. \A h, n : Ends(f, h, n) => Ends(g, h, n)
  BY <1>1, <1>2, <1>3 DEF Ends, Mapped
<1>5. \A e, k, h : Grows(e, k, f, h) => Grows(e, k, g, h)
  BY <1>1, <1>2 DEF Grows
<1>6. \A h, at, n : Jumps(f, h, at, n) => Jumps(g, h, at, n)
  BY <1>1, <1>2 DEF Jumps
<1>7. \A h, t : Looping(f, h, t) => Looping(g, h, t)
  BY <1>1, <1>6 DEF Looping
<1> QED BY <1>1, <1>4, <1>5, <1>7

LEMMA DeclareFits ==
  ASSUME NEW f \in CompilersTyped, f.scopeDepth # 0, NEW x \in Identifiers, NEW t \in Frames, Fitting(f, t),
         t.pending \in {"none", "parameters"}, NEW g, g = declareVariable(f, x), NEW u \in Frames, u.size = t.size + 1,
         u.depth = t.depth, \A i \in 1 .. t.depth : u.sizes[i] = t.sizes[i], u.pending = "variable"
  PROVE  /\ Fitting(g, u) /\ Values(u) = t.size /\ Last(g).depth = -1
         /\ \E s \in Seq(Locals) : g = [f EXCEPT !.locals = s]
<1>1. PICK r, l : r = f.locals /\ l = [name |-> x, depth |-> -1, isCaptured |-> FALSE]
  OBVIOUS
<1>2. r \in Seq(Locals) /\ l \in Locals /\ l.depth = -1
  BY <1>1 DEF Locals, CompilersTyped
<1>3. PICK n \in Nat : n = Len(r)
  BY <1>2, LenProperties
<1>4. PICK s : s = Append(r, l)
  OBVIOUS
<1>5. s \in Seq(Locals) /\ Len(s) = n + 1 /\ s[n + 1] = l
  BY <1>2, <1>3, <1>4, AppendProperties
<1>6. \A i \in 1 .. n : s[i] = r[i]
  BY <1>2, <1>3, <1>4, AppendProperties
<1>7. g = [f EXCEPT !.locals = s]
  BY <1>1, <1>4 DEF declareVariable
<1>8. g.locals = s /\ g.scopeDepth = f.scopeDepth /\ g.code = f.code
  BY <1>5, <1>7, LocalsLike
<1>9. t.size = n /\ t.depth = f.scopeDepth /\ t.depth \in Nat /\ Values(t) = t.size /\ t.size > 0 /\ u.size = n + 1
  BY <1>1, <1>3, FrameTyped DEF Fitting, Values
<1>10. Values(u) = t.size
  BY <1>9 DEF Values
<1>11. Last(g).depth = -1
  BY <1>2, <1>5, <1>8 DEF Last
<1>12. ASSUME NEW d \in 1 .. u.depth
       PROVE  u.sizes[d] <= u.size /\ \A i \in 1 .. u.size : i <= u.sizes[d] <=> g.locals[i].depth \in 0 .. d - 1
  <2>1. PICK m \in Nat : m = t.sizes[d] /\ m = u.sizes[d]
    BY FrameTyped
  <2>2. m <= n /\ \A i \in 1 .. n : i <= m <=> r[i].depth \in 0 .. d - 1
    BY <1>1, <1>9, <2>1 DEF Fitting
  <2>3. m <= n + 1
    BY <2>2
  <2>4. ASSUME NEW i \in 1 .. n + 1 PROVE i <= m <=> s[i].depth \in 0 .. d - 1
    <3>1. CASE i = n + 1
      <4>1. ~(i <= m)
        BY <2>2, <3>1
      <4>2. s[i].depth = -1
        BY <1>2, <1>5, <3>1
      <4> QED BY <4>1, <4>2
    <3>2. CASE i # n + 1
      <4>1. i \in 1 .. n
        BY <3>2
      <4> QED BY <1>6, <2>2, <4>1
    <3> QED BY <3>1, <3>2
  <2> QED BY <1>8, <1>9, <2>1, <2>3, <2>4
<1>13. u.size = Len(g.locals) /\ Values(u) > 0 /\ u.depth = g.scopeDepth
  BY <1>5, <1>8, <1>9, <1>10
<1>14. Fitting(g, u)
  BY <1>11, <1>12, <1>13 DEF Fitting
<1> QED BY <1>5, <1>7, <1>10, <1>11, <1>14

LEMMA MarkFits ==
  ASSUME NEW f \in CompilersTyped, f.scopeDepth # 0, NEW t \in Frames, Fitting(f, t), Last(f).depth \in {-1, f.scopeDepth},
         NEW g, g = markInitialized(f), NEW u \in Frames, u.size = t.size, u.depth = t.depth,
         \A i \in 1 .. t.depth : u.sizes[i] = t.sizes[i], u.pending # "variable", u.pending = "parameters" => f.code = <<>> /\ f.loops = <<>> /\ f.scopeDepth = 1,
         Values(u) > 0
  PROVE  /\ Fitting(g, u)
         /\ \E s \in Seq(Locals) : g = [f EXCEPT !.locals = s]
<1>1. PICK r : r = f.locals
  OBVIOUS
<1>2. r \in Seq(Locals) /\ f.scopeDepth \in Nat
  BY <1>1 DEF CompilersTyped
<1>3. PICK n \in Nat : n = Len(r)
  BY <1>2, LenProperties
<1>4. t.size = n /\ t.depth = f.scopeDepth /\ n > 0
  <2>1. t.size = n /\ t.depth = f.scopeDepth
    BY <1>1, <1>3 DEF Fitting
  <2>2. u.size > 0
    BY FrameTyped DEF Values
  <2> QED BY <2>1, <2>2
<1>5. PICK l : l = [r[n] EXCEPT !.depth = f.scopeDepth]
  OBVIOUS
<1>6. n \in 1 .. n /\ r[n] \in Locals
  BY <1>2, <1>3, <1>4, ElementOfSeq
<1>7. l \in Locals /\ l.depth = f.scopeDepth
  <2>1. PICK y, v : y = f.scopeDepth /\ v = r[n]
    OBVIOUS
  <2>2. v \in Locals /\ y \in Int
    BY <1>2, <1>6, <2>1
  <2>3. l = [v EXCEPT !.depth = y]
    BY <1>5, <2>1
  <2>4. l \in Locals /\ l.depth = y
    BY <2>2, <2>3 DEF Locals
  <2> QED BY <2>1, <2>4
<1>8. PICK s : s = [r EXCEPT ![n] = l]
  OBVIOUS
<1>9. s \in Seq(Locals) /\ Len(s) = n
  BY <1>2, <1>3, <1>6, <1>7, <1>8, ExceptSeq
<1>10. \A i \in 1 .. n : s[i] = IF i = n THEN l ELSE r[i]
  BY <1>2, <1>3, <1>6, <1>7, <1>8, ExceptSeq
<1>11. g = [f EXCEPT !.locals = s]
  <2>1. markInitialized(f) = [f EXCEPT !.locals[Len(f.locals)].depth = f.scopeDepth]
    BY DEF markInitialized
  <2> QED BY <1>1, <1>3, <1>5, <1>8, <2>1 DEF CompilersTyped
<1>12. g.locals = s /\ g.scopeDepth = f.scopeDepth /\ g.code = f.code /\ g.loops = f.loops
  BY <1>9, <1>11, LocalsLike
<1>13. Last(g).depth # -1
  <2>1. Last(g) = l
    BY <1>6, <1>9, <1>10, <1>12 DEF Last
  <2> QED BY <1>2, <1>7, <2>1
<1>14. ASSUME NEW d \in 1 .. u.depth
       PROVE  u.sizes[d] <= u.size /\ \A i \in 1 .. u.size : i <= u.sizes[d] <=> g.locals[i].depth \in 0 .. d - 1
  <2>1. PICK m \in Nat : m = t.sizes[d] /\ m = u.sizes[d]
    BY FrameTyped
  <2>2. m <= n /\ \A i \in 1 .. n : i <= m <=> r[i].depth \in 0 .. d - 1
    BY <1>1, <1>4, <2>1 DEF Fitting
  <2>3. PICK y \in Nat : y = f.scopeDepth
    BY <1>2
  <2>4. d \in 1 .. y
    BY <1>4, <2>3
  <2>5. r[n].depth \in {-1, y}
    BY <1>1, <1>3, <2>3 DEF Last
  <2>6. r[n].depth \notin 0 .. d - 1 /\ l.depth \notin 0 .. d - 1
    BY <1>7, <2>3, <2>4, <2>5
  <2>7. ASSUME NEW i \in 1 .. n PROVE i <= m <=> s[i].depth \in 0 .. d - 1
    <3>1. CASE i = n
      BY <1>6, <1>10, <2>2, <2>6, <3>1
    <3>2. CASE i # n
      BY <1>10, <2>2, <3>2
    <3> QED BY <3>1, <3>2
  <2> QED BY <1>4, <1>12, <2>1, <2>2, <2>7
<1>15. u.size = Len(g.locals) /\ u.depth = g.scopeDepth
  BY <1>4, <1>9, <1>12
<1>16. Fitting(g, u)
  BY <1>12, <1>13, <1>14, <1>15 DEF Fitting
<1> QED BY <1>9, <1>11, <1>16

LEMMA Between ==
  ASSUME NEW t \in Frames, NEW size \in Nat, NEW pending \in Pendings, NEW temps \in Nat
  PROVE  \E v \in Frames : /\ v.size = size /\ v.pending = pending /\ v.temps = temps /\ v.depth = t.depth /\ v.loops = t.loops
                           /\ v.sizes = t.sizes /\ v.floors = t.floors
                           /\ \A w, a, b, d : Becomes(t, w, a, b, d) => Becomes(v, w, a, b, d)
                           /\ Becomes(t, v, size, pending, temps)
<1>1. PICK v : v = With(t, size, pending, temps)
  OBVIOUS
<1>2. /\ v \in Frames /\ Becomes(t, v, size, pending, temps) /\ v.size = size /\ v.pending = pending /\ v.temps = temps
      /\ v.depth = t.depth /\ v.loops = t.loops /\ v.sizes = t.sizes /\ v.floors = t.floors
  BY <1>1, WithIs
<1>3. \A w, a, b, d : Becomes(t, w, a, b, d) => Becomes(v, w, a, b, d)
  BY <1>2, BecomesOn
<1> QED BY <1>2, <1>3

LEMMA LoopingLike ==
  ASSUME NEW f, NEW h, NEW t \in Frames, Looping(f, h, t), NEW u \in Frames, u.loops = t.loops, u.floors = t.floors,
         Values(t) \in Int, Values(u) \in Int, Values(t) <= Values(u)
  PROVE  Looping(f, h, u)
<1>1. u.loops \in Nat /\ \A i \in Nat : u.floors[i] \in Nat
  BY FrameTyped
<1>2. u.loops > 0 => u.floors[u.loops] <= Values(u)
  <2>1. HAVE u.loops > 0
  <2>2. t.floors[t.loops] <= Values(t)
    BY <2>1 DEF Looping
  <2>3. PICK x, y, z \in Int : x = u.floors[u.loops] /\ y = Values(t) /\ z = Values(u)
    BY <1>1
  <2> QED BY <2>2, <2>3
<1> QED BY <1>2 DEF Looping

(* A local declared that has yet no value. *)
NewLocal(f, h, t, g, v) ==
  /\ v.size = t.size + (IF t.depth = 0 THEN 0 ELSE 1) /\ v.pending = IF t.depth = 0 THEN "none" ELSE "variable"
  /\ v.temps = 0 /\ v.depth = t.depth /\ v.loops = t.loops /\ v.sizes = t.sizes /\ v.floors = t.floors
  /\ \A w, a, b, d : Becomes(t, w, a, b, d) => Becomes(v, w, a, b, d)
  /\ g \in CompilersTyped /\ Holds(g, h, v) /\ Values(v) = t.size /\ v.size > 0 /\ Grows(f, h, g, h)
  /\ f.scopeDepth = t.depth /\ g.scopeDepth = t.depth /\ g.code = f.code
  /\ t.depth # 0 => Last(g).depth = -1

LEMMA DeclareHolds ==
  ASSUME NEW f \in CompilersTyped, NEW h, NEW x \in Identifiers, NEW t \in Frames, Holds(f, h, t),
         t.pending = "none", t.temps = 0, NEW g, g = declareVariable(f, x)
  PROVE  \E v \in Frames : NewLocal(f, h, t, g, v)
<1>1. Fitting(f, t) /\ Looping(f, h, t) /\ Ends(f, h, Height(t))
  BY DEF Holds
<1>2. t.size \in Nat /\ t.size > 0 /\ Values(t) = t.size /\ Height(t) = t.size /\ t.depth = f.scopeDepth /\ t.depth \in Nat
  BY <1>1, FrameTyped DEF Fitting, Values, Height
<1>3. Grows(f, h, f, h)
  BY Counts, GrowsSelf
<1>4. CASE t.depth = 0
  <2>1. g = f
    BY <1>2, <1>4 DEF declareVariable
  <2>2. \A w, a, b, d : Becomes(t, w, a, b, d) => Becomes(t, w, a, b, d)
    OBVIOUS
  <2>3. t.size = t.size + 0
    BY <1>2
  <2> QED BY <1>2, <1>3, <1>4, <2>1, <2>2, <2>3 DEF NewLocal
<1>5. CASE t.depth # 0
  <2>1. PICK m \in Nat : m = t.size + 1
    BY <1>2
  <2>2. PICK v \in Frames :
          /\ v.size = m /\ v.pending = "variable" /\ v.temps = 0 /\ v.depth = t.depth /\ v.loops = t.loops
          /\ v.sizes = t.sizes /\ v.floors = t.floors
          /\ \A w, a, b, d : Becomes(t, w, a, b, d) => Becomes(v, w, a, b, d)
    BY Between DEF Pendings
  <2>3. Fitting(g, v) /\ Values(v) = t.size /\ Last(g).depth = -1
    BY <1>1, <1>2, <1>5, <2>1, <2>2, DeclareFits
  <2>4. PICK s \in Seq(Locals) : g = [f EXCEPT !.locals = s]
    BY <1>1, <1>2, <1>5, <2>1, <2>2, DeclareFits
  <2>5. /\ g \in CompilersTyped /\ g.code = f.code /\ g.scopeDepth = f.scopeDepth
        /\ \A n : Ends(f, h, n) => Ends(g, h, n)
    BY <2>4, LocalsLike
  <2>6. Grows(f, h, g, h) /\ Looping(g, h, t)
    BY <1>1, <1>3, <2>4, LocalsLike
  <2>7. Looping(g, h, v)
    BY <1>2, <2>2, <2>3, <2>6, LoopingLike
  <2>8. Height(v) = t.size
    BY <1>2, <2>2, <2>3 DEF Height
  <2>9. Holds(g, h, v)
    BY <1>1, <1>2, <2>3, <2>5, <2>7, <2>8 DEF Holds
  <2> QED BY <1>2, <1>5, <2>1, <2>2, <2>3, <2>5, <2>6, <2>9 DEF NewLocal
<1> QED BY <1>4, <1>5

LEMMA varDeclarationRises ==
  ASSUME CodegenOK, CodegenOK', HeightOK, NEW x \in Names, varDeclaration(x)
  PROVE  HeightOK'
<1>1. CASE fail
  BY <1>1 DEF fail, HeightOK
<1>2. CASE ~fail
  <2>1. PICK f, g : f = Current /\ g = declareVariable(f, x)
    OBVIOUS
  <2>2. /\ status = "compiling" /\ status' = "compiling" /\ First.do \in {"declaration", "forVariable", "comma"} /\ Now(g)
        /\ Continue(<<Item("initializer"), Item("define"), Item("comma")>>)
    BY <1>2, <2>1 DEF varDeclaration, Declare, Doing, Steady
  <2>3. PICK h, t, u : AtFirst(h, t, u)
    BY <2>2, Arriving DEF Terminators
  <2>4. /\ First \in Items /\ t \in Frames /\ u \in Frames /\ Moves(f, h, t, First, u) /\ Holds(f, h, t) /\ f \in CompilersTyped
        /\ t.size \in Nat /\ t.size > 0
    BY <2>1, <2>2, <2>3, FirstTyped
  <2>5. t.pending = "none" /\ t.temps = 0 /\ Becomes(t, u, 0, "none", 0)
    BY <2>2, <2>4, MovesClosing DEF Closing
  <2>6. x \in Identifiers
    BY DEF Identifiers
  <2>7. PICK v \in Frames : NewLocal(f, h, t, g, v)
    BY <2>1, <2>4, <2>5, <2>6, DeclareHolds
  <2>0. /\ v.pending = IF t.depth = 0 THEN "none" ELSE "variable"
        /\ v.temps = 0 /\ v.depth = t.depth /\ v.size > 0
        /\ \A w, a, b, d : Becomes(t, w, a, b, d) => Becomes(v, w, a, b, d)
        /\ g \in CompilersTyped /\ Holds(g, h, v) /\ Grows(f, h, g, h)
    BY <2>7 DEF NewLocal
  <2>8. v.size \in Nat /\ v.pending \in Pendings
    BY FrameTyped
  <2>9. PICK y \in Frames :
          /\ y.size = v.size /\ y.pending = v.pending /\ y.temps = 1 /\ y.depth = v.depth
          /\ \A w, a, b, d : Becomes(v, w, a, b, d) => Becomes(y, w, a, b, d)
          /\ Becomes(v, y, v.size, v.pending, 1)
    BY <2>8, Between
  <2>10. PICK z \in Frames :
          /\ z.pending = "none" /\ z.temps = 0
          /\ \A w, a, b, d : Becomes(t, w, a, b, d) => Becomes(z, w, a, b, d)
          /\ Becomes(t, z, 0, "none", 0)
    BY <2>4, Between DEF Pendings
  <2>11. PICK i \in Items : i = Item("initializer") /\ i.do = "initializer"
    BY ItemMade DEF Bare, Tasks
  <2>12. PICK j \in Items : j = Item("define") /\ j.do = "define"
    BY ItemMade DEF Bare, Tasks
  <2>13. PICK c \in Items : c = Item("comma") /\ c.do = "comma"
    BY PlainMade DEF PlainTasks
  <2>14. Moves(g, h, v, i, y)
    <3>1. Becomes(v, y, v.size, v.pending, v.temps + 1) /\ v.pending \notin {"function", "parameters"}
      BY <2>0, <2>9
    <3> QED BY <2>0, <2>11, <3>1, MovesExpression
  <2>15. Moves(g, h, y, j, z)
    <3>1. Becomes(y, z, 0, "none", 0)
      BY <2>0, <2>9, <2>10
    <3>2. y.pending # "parameters" /\ (y.pending = "none" <=> y.depth = 0) /\ y.size > 0
      BY <2>0, <2>9
    <3> QED BY <2>9, <2>12, <3>1, <3>2, MovesDefine
  <2>16. Moves(g, h, z, c, u)
    BY <2>5, <2>10, <2>13, MovesClosing DEF Closing, Wild
  <2>17. PICK items : items = <<i, j, c>>
    OBVIOUS
  <2>18. items \in Seq(Items) /\ Steps(g, h, items, v, u)
    BY <2>4, <2>9, <2>10, <2>11, <2>12, <2>13, <2>14, <2>15, <2>16, <2>17, Steps3 DEF Terminators
  <2>19. todo' = items \o Tail(todo)
    BY <2>2, <2>11, <2>12, <2>13, <2>17 DEF Continue
  <2>20. Tail(todo) \in Seq(Items) /\ Meets(h, t, Tail(todo), u) /\ Settles(u, u)
    BY <2>2, <2>3, <2>4, Meeting, Settled DEF AtFirst
  <2>21. compilers' = [compilers EXCEPT ![Len(compilers)] = g] /\ Grows(Current, h, g, h)
    BY <2>1, <2>2, <2>0 DEF Now
  <2> QED BY <2>2, <2>0, <2>18, <2>19, <2>20, <2>21, Rises
<1> QED BY <1>1, <1>2

(* A local marked: the same height, the same loops. *)
LEMMA MarkHolds ==
  ASSUME NEW f \in CompilersTyped, NEW h, NEW t \in Frames, Holds(f, h, t), f.scopeDepth # 0, Last(f).depth \in {-1, f.scopeDepth},
         NEW g, g = markInitialized(f), NEW u \in Frames, u.size = t.size, u.depth = t.depth, u.loops = t.loops,
         u.sizes = t.sizes, u.floors = t.floors, u.pending \in {"none", "function"}, Height(u) = Height(t), Values(u) >= Values(t)
  PROVE  /\ g \in CompilersTyped /\ Holds(g, h, u) /\ g.code = f.code /\ g.scopeDepth = f.scopeDepth
         /\ \A e, k : Grows(e, k, f, h) => Grows(e, k, g, h)
<1>1. Fitting(f, t) /\ Looping(f, h, t) /\ Ends(f, h, Height(t))
  BY DEF Holds
<1>2. Values(t) > 0 /\ t.size \in Nat
  BY <1>1, FrameTyped DEF Fitting
<1>3. Values(t) \in Int /\ Values(u) \in Int
  BY <1>2 DEF Values
<1>4. Values(u) > 0
  BY <1>2, <1>3
<1>5. \A i \in 1 .. t.depth : u.sizes[i] = t.sizes[i]
  OBVIOUS
<1>6. u.pending # "variable" /\ u.pending # "parameters"
  OBVIOUS
<1>7. Fitting(g, u)
  BY <1>1, <1>4, <1>5, <1>6, MarkFits
<1>8. \E s \in Seq(Locals) : g = [f EXCEPT !.locals = s]
  BY <1>1, <1>4, <1>5, <1>6, MarkFits
<1>9. PICK s \in Seq(Locals) : g = [f EXCEPT !.locals = s]
  BY <1>8
<1>10. g \in CompilersTyped /\ g.code = f.code /\ g.scopeDepth = f.scopeDepth /\ Ends(g, h, Height(t)) /\ Looping(g, h, t)
  BY <1>1, <1>9, LocalsLike
<1>11. \A e, k : Grows(e, k, f, h) => Grows(e, k, g, h)
  BY <1>9, LocalsLike
<1>12. Looping(g, h, u)
  BY <1>3, <1>10, LoopingLike
<1> QED BY <1>7, <1>10, <1>11, <1>12 DEF Holds

(* The frame of a function's own name, that has its value. *)
LEMMA FunctionHolds ==
  ASSUME NEW e \in CompilersTyped, NEW h, NEW v \in Frames, Holds(e, h, v), v.temps = 0, v.size > 0,
         v.pending = IF v.depth = 0 THEN "none" ELSE "variable", v.depth # 0 => Last(e).depth = -1,
         NEW size \in Nat, v.size = size + (IF v.depth = 0 THEN 0 ELSE 1), NEW g, g = markInitialized(e), NEW p,
         p = IF v.depth = 0 THEN "none" ELSE "function"
  PROVE  \E y \in Frames :
           /\ y.size = v.size /\ y.pending = p /\ y.temps = 0 /\ y.depth = v.depth
           /\ \A w, a, b, d : Becomes(v, w, a, b, d) => Becomes(y, w, a, b, d)
           /\ g \in CompilersTyped /\ Holds(g, h, y)
           /\ \A c, k : Grows(c, k, e, h) => Grows(c, k, g, h)
<1>1. v.size \in Nat /\ p \in Pendings /\ v.depth \in Nat
  BY FrameTyped DEF Pendings
<1>2. PICK y \in Frames :
        /\ y.size = v.size /\ y.pending = p /\ y.temps = 0 /\ y.depth = v.depth /\ y.loops = v.loops
        /\ y.sizes = v.sizes /\ y.floors = v.floors
        /\ \A w, a, b, d : Becomes(v, w, a, b, d) => Becomes(y, w, a, b, d)
        /\ Becomes(v, y, v.size, p, 0)
  BY <1>1, Between
<1>3. v.depth = e.scopeDepth
  BY DEF Holds, Fitting
<1>4. CASE v.depth = 0
  <2>1. g = e
    BY <1>3, <1>4 DEF markInitialized
  <2>2. Becomes(v, y, v.size, v.pending, v.temps)
    BY <1>2, <1>4
  <2>3. Holds(e, h, y)
    BY <2>2, HoldsLike
  <2> QED BY <1>2, <2>1, <2>3
<1>5. CASE v.depth # 0
  <2>1. Values(y) = Values(v) /\ Height(y) = Height(v) /\ Values(v) \in Int
    BY <1>1, <1>2, <1>5 DEF Values, Height
  <2>2. Values(y) >= Values(v)
    BY <2>1
  <2>3. e.scopeDepth # 0 /\ Last(e).depth \in {-1, e.scopeDepth} /\ y.pending \in {"none", "function"}
    BY <1>2, <1>3, <1>5
  <2>4. g \in CompilersTyped /\ Holds(g, h, y)
    BY <1>2, <2>1, <2>2, <2>3, MarkHolds
  <2>5. \A c, k : Grows(c, k, e, h) => Grows(c, k, g, h)
    BY <1>2, <2>1, <2>2, <2>3, MarkHolds
  <2> QED BY <1>2, <2>4, <2>5
<1> QED BY <1>4, <1>5

LEMMA funDeclarationRises ==
  ASSUME CodegenOK, CodegenOK', HeightOK, NEW x \in Names, funDeclaration(x)
  PROVE  HeightOK'
<1>1. CASE fail
  BY <1>1 DEF fail, HeightOK
<1>2. CASE ~fail
  <2>1. PICK f, e : f = Current /\ e = declareVariable(f, x)
    OBVIOUS
  <2>2. PICK g : g = markInitialized(e)
    OBVIOUS
  <2>3. /\ status = "compiling" /\ status' = "compiling" /\ First.do = "declaration" /\ Now(g)
        /\ Continue(<<Function("function"), Item("define")>>)
    BY <1>2, <2>1, <2>2 DEF funDeclaration, Doing, Steady
  <2>4. PICK h, t, u : AtFirst(h, t, u)
    BY <2>3, Arriving DEF Terminators
  <2>5. /\ First \in Items /\ t \in Frames /\ u \in Frames /\ Moves(f, h, t, First, u) /\ Holds(f, h, t) /\ f \in CompilersTyped
        /\ t.size \in Nat /\ t.size > 0
    BY <2>1, <2>3, <2>4, FirstTyped
  <2>6. t.pending = "none" /\ t.temps = 0 /\ Becomes(t, u, 0, "none", 0)
    BY <2>3, <2>5, MovesClosing DEF Closing
  <2>7. x \in Identifiers
    BY DEF Identifiers
  <2>8. PICK v \in Frames : NewLocal(f, h, t, e, v)
    BY <2>1, <2>5, <2>6, <2>7, DeclareHolds
  <2>0. /\ v.size = t.size + (IF t.depth = 0 THEN 0 ELSE 1) /\ v.pending = IF t.depth = 0 THEN "none" ELSE "variable"
        /\ v.temps = 0 /\ v.depth = t.depth /\ v.loops = t.loops /\ v.sizes = t.sizes /\ v.floors = t.floors
        /\ \A w, a, b, d : Becomes(t, w, a, b, d) => Becomes(v, w, a, b, d)
        /\ e \in CompilersTyped /\ Holds(e, h, v) /\ Values(v) = t.size /\ v.size > 0 /\ Grows(f, h, e, h)
        /\ f.scopeDepth = t.depth /\ e.scopeDepth = t.depth /\ e.code = f.code
        /\ t.depth # 0 => Last(e).depth = -1
    BY <2>8 DEF NewLocal
  <2>9. v.size \in Nat
    BY FrameTyped
  <2>10. PICK p \in Pendings : p = IF v.depth = 0 THEN "none" ELSE "function"
    BY DEF Pendings
  <2>11. PICK y \in Frames :
           /\ y.size = v.size /\ y.pending = p /\ y.temps = 0 /\ y.depth = v.depth
           /\ \A w, a, b, d : Becomes(v, w, a, b, d) => Becomes(y, w, a, b, d)
           /\ g \in CompilersTyped /\ Holds(g, h, y)
           /\ \A c, k : Grows(c, k, e, h) => Grows(c, k, g, h)
    <3>1. v.size = t.size + (IF v.depth = 0 THEN 0 ELSE 1) /\ v.pending = IF v.depth = 0 THEN "none" ELSE "variable"
      BY <2>0
    <3>2. v.depth # 0 => Last(e).depth = -1
      BY <2>0
    <3> QED BY <2>2, <2>5, <2>0, <2>10, <3>1, <3>2, FunctionHolds
  <2>13. g \in CompilersTyped /\ Holds(g, h, y) /\ Grows(f, h, g, h)
    BY <2>0, <2>11
  <2>14. PICK z \in Frames :
          /\ z.size = y.size /\ z.pending = y.pending /\ z.temps = 1 /\ z.depth = y.depth
          /\ \A w, a, b, d : Becomes(y, w, a, b, d) => Becomes(z, w, a, b, d)
          /\ Becomes(y, z, y.size, y.pending, 1)
    <3>1. y.size \in Nat /\ y.pending \in Pendings
      BY FrameTyped
    <3> QED BY <3>1, Between
  <2>15. PICK i \in Items : i = Function("function") /\ i.do = "function"
    BY FunctionMade
  <2>16. PICK j \in Items : j = Item("define") /\ j.do = "define"
    BY ItemMade DEF Bare, Tasks
  <2>17. Moves(g, h, y, i, z)
    <3>1. Becomes(y, z, y.size, y.pending, y.temps + 1) /\ y.pending \notin {"variable", "parameters"} /\ y.size > 0
      BY <2>0, <2>10, <2>11, <2>14
    <3> QED BY <2>15, <3>1, MovesFunction
  <2>18. Moves(g, h, z, j, u)
    <3>1. Becomes(z, u, 0, "none", 0)
      BY <2>6, <2>0, <2>11, <2>14
    <3>2. z.pending # "parameters" /\ (z.pending = "none" <=> z.depth = 0) /\ z.size > 0
      BY <2>0, <2>10, <2>11, <2>14
    <3> QED BY <2>14, <2>16, <3>1, <3>2, MovesDefine
  <2>19. PICK items : items = <<i, j>>
    OBVIOUS
  <2>20. items \in Seq(Items) /\ Steps(g, h, items, y, u)
    BY <2>5, <2>11, <2>14, <2>15, <2>16, <2>17, <2>18, <2>19, Steps2 DEF Terminators
  <2>21. todo' = items \o Tail(todo)
    BY <2>3, <2>15, <2>16, <2>19 DEF Continue
  <2>22. Tail(todo) \in Seq(Items) /\ Meets(h, t, Tail(todo), u) /\ Settles(u, u)
    BY <2>3, <2>4, <2>5, Meeting, Settled DEF AtFirst
  <2>23. compilers' = [compilers EXCEPT ![Len(compilers)] = g] /\ Grows(Current, h, g, h)
    BY <2>1, <2>3, <2>13 DEF Now
  <2> QED BY <2>3, <2>11, <2>13, <2>20, <2>21, <2>22, <2>23, Rises
<1> QED BY <1>1, <1>2

LEMMA MarkedHolds ==
  ASSUME NEW f \in CompilersTyped, NEW h, NEW t \in Frames, Holds(f, h, t), t.depth # 0, t.temps = 1, t.size > 0,
         t.pending \in {"variable", "function"}, Last(f).depth \in {-1, f.scopeDepth},
         NEW g, g = markInitialized(f), NEW w \in Frames, Becomes(t, w, t.size, "none", 0)
  PROVE  /\ g \in CompilersTyped /\ Holds(g, h, w) /\ g.code = f.code
         /\ \A e, k : Grows(e, k, f, h) => Grows(e, k, g, h)
<1>1. t.size \in Nat /\ t.depth = f.scopeDepth
  BY FrameTyped DEF Holds, Fitting
<1>0. PICK p \in Pendings, n \in Nat : p = "none" /\ n = 0
  BY DEF Pendings
<1>2. PICK v \in Frames :
        /\ v.size = t.size /\ v.pending = p /\ v.temps = n /\ v.depth = t.depth /\ v.loops = t.loops
        /\ v.sizes = t.sizes /\ v.floors = t.floors
        /\ \A y, a, b, d : Becomes(t, y, a, b, d) => Becomes(v, y, a, b, d)
        /\ Becomes(t, v, t.size, p, n)
  BY <1>1, Between
<1>3. Height(v) = t.size /\ Height(t) = t.size /\ Values(v) >= Values(t)
  BY <1>1, <1>0, <1>2 DEF Height, Values
<1>4. f.scopeDepth # 0 /\ Height(v) = Height(t) /\ v.pending \in {"none", "function"}
  BY <1>1, <1>0, <1>2, <1>3
<1>5. g \in CompilersTyped /\ Holds(g, h, v) /\ g.code = f.code
  BY <1>2, <1>3, <1>4, MarkHolds
<1>6. \A e, k : Grows(e, k, f, h) => Grows(e, k, g, h)
  BY <1>2, <1>3, <1>4, MarkHolds
<1>7. Becomes(v, w, v.size, v.pending, v.temps)
  BY <1>0, <1>2
<1>8. Holds(g, h, w)
  BY <1>5, <1>7, HoldsLike
<1> QED BY <1>5, <1>6, <1>8

LEMMA GlobalDefined ==
  ASSUME NEW f \in CompilersTyped, NEW h, NEW x \in Nat, x > 0, Ends(f, h, x + 1), NEW g, g = emit(f, emitConstantCommond("DEFINE_GLOBAL"))
  PROVE  \E k : Ends(g, k, x) /\ Grows(f, h, g, k)
<1>1. PICK c : c = emitConstantCommond("DEFINE_GLOBAL")
  OBVIOUS
<1>2. c \in Codes /\ Decodes(c, 1) /\ Len(c) = 1 + OperandSize(c, 1) /\ c[1].op = "DEFINE_GLOBAL"
  BY <1>1, ThreeCells DEF Shorts
<1>3. Takes(c, 1) = 1 /\ Leaves(c, 1) = 0
  BY <1>2 DEF Takes, Leaves
<1>4. \A y \in Nat : y = 1 => \E k : Ends(g, k, x + (y - Takes(c, 1) + Leaves(c, 1))) /\ Grows(f, h, g, k)
  <2>1. TAKE y \in Nat
  <2>2. HAVE y = 1
  <2>3. Takes(c, 1) <= y /\ Ends(f, h, x + y)
    BY <1>3, <2>2
  <2>4. c[1].op \notin Forward \cup {"LOOP", "CLOSURE"} /\ c[1].op \notin {"GET_LOCAL", "SET_LOCAL", "GET_UPVALUE", "SET_UPVALUE"}
    BY <1>2 DEF Forward
  <2>5. g = emit(f, c)
    BY <1>1
  <2> QED BY <1>2, <2>3, <2>4, <2>5, EmitsCode
<1>5. \E k : Ends(g, k, x + (1 - Takes(c, 1) + Leaves(c, 1))) /\ Grows(f, h, g, k)
  BY <1>4
<1>6. x + (1 - Takes(c, 1) + Leaves(c, 1)) = x
  BY <1>3
<1> QED BY <1>5, <1>6

LEMMA DefinedHolds ==
  ASSUME NEW f \in CompilersTyped, NEW h, NEW t \in Frames, Holds(f, h, t), t.temps = 1, t.size > 0,
         t.pending \in {"none", "variable", "function"}, t.pending = "none" <=> t.depth = 0,
         t.depth # 0 => Last(f).depth \in {-1, f.scopeDepth},
         NEW g, g = defineVariable(f), NEW w \in Frames, Becomes(t, w, t.size, "none", 0)
  PROVE  g \in CompilersTyped /\ \E k : Holds(g, k, w) /\ Grows(f, h, g, k)
<1>1. t.size \in Nat /\ t.depth = f.scopeDepth /\ f.scopeDepth \in Nat /\ Ends(f, h, Height(t)) /\ Count(f) \in Nat
  BY FrameTyped, Counts DEF Holds, Fitting
<1>2. CASE t.depth = 0
  <2>1. g = emit(f, emitConstantCommond("DEFINE_GLOBAL"))
    BY <1>1, <1>2 DEF defineVariable
  <2>2. t.pending = "none" /\ Values(t) = t.size /\ Height(t) = t.size + 1
    BY <1>1, <1>2 DEF Values, Height
  <2>3. PICK k : Ends(g, k, t.size) /\ Grows(f, h, g, k)
    BY <1>1, <2>1, <2>2, GlobalDefined
  <2>4. \E c \in Codes : g = WithCode(f, c)
    <3>1. emitConstantCommond("DEFINE_GLOBAL") \in Codes
      BY ConstantCode DEF Ops
    <3> QED BY <2>1, <3>1, EmitOne
  <2>5. Alike(f, g) /\ g \in CompilersTyped
    BY <2>4, AlikeTyped, WithCodeTyped
  <2>6. PICK n \in Nat : n = 0
    OBVIOUS
  <2>7. Becomes(t, w, t.size, t.pending, n) /\ t.pending # "parameters"
    BY <2>2, <2>6
  <2>8. Ends(g, k, Values(t) + n)
    BY <1>1, <2>2, <2>3, <2>6
  <2>9. Holds(g, k, w)
    BY <2>3, <2>5, <2>7, <2>8, HoldsAfter
  <2> QED BY <2>3, <2>5, <2>9
<1>3. CASE t.depth # 0
  <2>1. g = markInitialized(f)
    BY <1>1, <1>3 DEF defineVariable
  <2>2. t.pending \in {"variable", "function"} /\ Last(f).depth \in {-1, f.scopeDepth}
    BY <1>3
  <2>3. g \in CompilersTyped /\ Holds(g, h, w)
    BY <1>3, <2>1, <2>2, MarkedHolds
  <2>4. \A e, k : Grows(e, k, f, h) => Grows(e, k, g, h)
    BY <1>3, <2>1, <2>2, MarkedHolds
  <2> QED BY <1>1, <2>3, <2>4, GrowsSelf
<1> QED BY <1>2, <1>3

LEMMA defineRises == ASSUME CodegenOK, CodegenOK', HeightOK, define PROVE HeightOK'
<1>1. PICK f, g : f = Current /\ g = defineVariable(f)
  OBVIOUS
<1>2. status = "compiling" /\ status' = "compiling" /\ First.do = "define" /\ Now(g) /\ Continue(<<>>)
  BY <1>1 DEF define, Doing, Same, Steady
<1>3. PICK h, t, u : AtFirst(h, t, u)
  BY <1>2, Arriving DEF Terminators
<1>4. /\ First \in Items /\ t \in Frames /\ u \in Frames /\ Moves(f, h, t, First, u) /\ Holds(f, h, t) /\ f \in CompilersTyped
      /\ t.size \in Nat /\ t.size > 0
  BY <1>1, <1>2, <1>3, FirstTyped
<1>5. /\ t.pending # "parameters" /\ t.temps = 1 /\ Becomes(t, u, 0, "none", 0)
      /\ t.pending = "none" <=> t.depth = 0
  BY <1>2, <1>4, MovesDefine
<1>6. PICK w : w = [u EXCEPT !.size = t.size]
  OBVIOUS
<1>7. w \in Frames /\ Becomes(t, w, t.size, "none", 0) /\ Settles(u, w)
  BY <1>4, <1>5, <1>6, SizeLearned
<1>8. t.depth = f.scopeDepth /\ f.scopeDepth \in Nat
  BY <1>4, FrameTyped DEF Holds, Fitting
<1>9. PICK items : items = <<>>
  OBVIOUS
<1>10. items \in Seq(Items) /\ Continue(items) /\ \A e, k : Steps(e, k, items, w, w)
  <2>1. items \in Seq(Items)
    BY <1>9
  <2>2. \A e, k : Steps(e, k, items, w, w)
    BY <1>7, <1>9, Steps0
  <2> QED BY <1>2, <1>9, <2>1, <2>2
<1>11. t.depth # 0 => Last(f).depth \in {-1, f.scopeDepth}
  <2>1. HAVE t.depth # 0
  <2>2. PICK a, b : Met(a, b)
    BY <1>2, Meeting
  <2>3. a.depth = f.scopeDepth /\ a.pending \in {"none", "variable", "function"} /\ a.pending # "none"
    BY <1>1, <1>2, <1>8, <2>1, <2>2 DEF Met, Fits, Follows, Situations
  <2> QED BY <1>1, <2>2, <2>3 DEF Met, Fits
<1>12. t.pending \in {"none", "variable", "function"}
  BY <1>4, <1>5, FrameTyped DEF Pendings
<1>13. g \in CompilersTyped /\ \E k : Holds(g, k, w) /\ Grows(f, h, g, k)
  BY <1>1, <1>4, <1>5, <1>7, <1>11, <1>12, DefinedHolds
<1>14. PICK k : Holds(g, k, w) /\ Grows(f, h, g, k)
  BY <1>13
<1>15. todo' = items \o Tail(todo) /\ Tail(todo) \in Seq(Items) /\ Meets(h, t, Tail(todo), u)
  BY <1>2, <1>3, <1>10, Meeting DEF Continue, AtFirst
<1>16. compilers' = [compilers EXCEPT ![Len(compilers)] = g] /\ Grows(Current, h, g, k)
  BY <1>1, <1>2, <1>14 DEF Now
<1> QED BY <1>2, <1>7, <1>10, <1>14, <1>15, <1>16, Rises

LEMMA ClassEmitted ==
  ASSUME NEW f \in CompilersTyped, NEW h, NEW x \in Nat, x > 0, Ends(f, h, x), NEW g, g = emit(f, emitConstantCommond("CLASS"))
  PROVE  \E k : Ends(g, k, x + 1) /\ Grows(f, h, g, k)
<1>1. PICK c : c = emitConstantCommond("CLASS")
  OBVIOUS
<1>2. c \in Codes /\ Decodes(c, 1) /\ Len(c) = 1 + OperandSize(c, 1) /\ c[1].op = "CLASS"
  BY <1>1, ThreeCells DEF Shorts
<1>3. Takes(c, 1) = 0 /\ Leaves(c, 1) = 1
  BY <1>2 DEF Takes, Leaves
<1>4. \A y \in Nat : y = 0 => \E k : Ends(g, k, x + (y - Takes(c, 1) + Leaves(c, 1))) /\ Grows(f, h, g, k)
  <2>1. TAKE y \in Nat
  <2>2. HAVE y = 0
  <2>3. Takes(c, 1) <= y /\ x + y = x
    BY <1>3, <2>2
  <2>4. Ends(f, h, x + y)
    BY <2>3
  <2>5. c[1].op \notin Forward \cup {"LOOP", "CLOSURE"} /\ c[1].op \notin {"GET_LOCAL", "SET_LOCAL", "GET_UPVALUE", "SET_UPVALUE"}
    BY <1>2 DEF Forward
  <2>6. g = emit(f, c)
    BY <1>1
  <2> QED BY <1>2, <2>3, <2>4, <2>5, <2>6, EmitsCode
<1>5. \E k : Ends(g, k, x + (0 - Takes(c, 1) + Leaves(c, 1))) /\ Grows(f, h, g, k)
  BY <1>4
<1>6. x + (0 - Takes(c, 1) + Leaves(c, 1)) = x + 1
  BY <1>3
<1> QED BY <1>5, <1>6

(* A class, made and bound to its name. *)
LEMMA ClassHolds ==
  ASSUME NEW e \in CompilersTyped, NEW h, NEW v \in Frames, Holds(e, h, v), v.temps = 0, v.size > 0,
         v.pending = IF v.depth = 0 THEN "none" ELSE "variable", v.depth # 0 => Last(e).depth = -1,
         NEW g, g = defineVariable(emit(e, emitConstantCommond("CLASS")))
  PROVE  g \in CompilersTyped
         /\ \E k : \E w \in Frames : /\ Holds(g, k, w) /\ Grows(e, h, g, k) /\ w.size = v.size /\ w.pending = "none" /\ w.temps = 0
                          /\ \A y, a, b, d : Becomes(v, y, a, b, d) => Becomes(w, y, a, b, d)
<1>1. PICK c : c = emit(e, emitConstantCommond("CLASS"))
  OBVIOUS
<1>2. \E d \in Codes : c = WithCode(e, d)
  <2>1. emitConstantCommond("CLASS") \in Codes
    BY ConstantCode DEF Ops
  <2> QED BY <1>1, <2>1, EmitOne
<1>3. Alike(e, c) /\ c \in CompilersTyped /\ c.locals = e.locals /\ c.scopeDepth = e.scopeDepth
  BY <1>2, AlikeTyped, WithCodeTyped
<1>4. v.size \in Nat /\ v.pending \in Pendings /\ v.pending # "parameters" /\ Values(v) \in Nat /\ Values(v) > 0
  <2>1. Values(v) > 0 /\ v.size \in Nat /\ v.pending \in Pendings
    BY FrameTyped DEF Holds, Fitting
  <2>2. Values(v) \in Int
    BY <2>1 DEF Values
  <2> QED BY <2>1, <2>2
<1>5. Height(v) = Values(v) /\ Ends(e, h, Height(v))
  BY <1>4 DEF Height, Holds
<1>6. PICK k : Ends(c, k, Values(v) + 1) /\ Grows(e, h, c, k)
  BY <1>1, <1>4, <1>5, ClassEmitted
<1>7. PICK n \in Nat : n = 1
  OBVIOUS
<1>8. PICK t \in Frames :
        /\ t.size = v.size /\ t.pending = v.pending /\ t.temps = n /\ t.depth = v.depth /\ t.loops = v.loops
        /\ t.sizes = v.sizes /\ t.floors = v.floors
        /\ \A y, a, b, d : Becomes(v, y, a, b, d) => Becomes(t, y, a, b, d)
        /\ Becomes(v, t, v.size, v.pending, n)
  BY <1>4, Between
<1>9. Holds(c, k, t)
  <2>1. Ends(c, k, Values(v) + n)
    BY <1>6, <1>7
  <2> QED BY <1>3, <1>4, <1>6, <1>8, <2>1, HoldsAfter
<1>10. PICK p \in Pendings, m \in Nat : p = "none" /\ m = 0
  BY DEF Pendings
<1>11. PICK w \in Frames :
        /\ w.size = v.size /\ w.pending = p /\ w.temps = m /\ w.depth = v.depth /\ w.loops = v.loops
        /\ w.sizes = v.sizes /\ w.floors = v.floors
        /\ \A y, a, b, d : Becomes(v, y, a, b, d) => Becomes(w, y, a, b, d)
        /\ Becomes(v, w, v.size, p, m)
  BY <1>4, <1>10, Between
<1>12. Becomes(t, w, t.size, "none", 0)
  BY <1>8, <1>10, <1>11
<1>13. /\ t.temps = 1 /\ t.size > 0 /\ t.pending \in {"none", "variable", "function"} /\ g = defineVariable(c)
       /\ t.pending = "none" <=> t.depth = 0
       /\ t.depth # 0 => Last(c).depth \in {-1, c.scopeDepth}
  BY <1>1, <1>3, <1>7, <1>8 DEF Last
<1>14. g \in CompilersTyped /\ \E l : Holds(g, l, w) /\ Grows(c, k, g, l)
  BY <1>3, <1>9, <1>12, <1>13, DefinedHolds
<1>15. PICK l : Holds(g, l, w) /\ Grows(c, k, g, l)
  BY <1>14
<1>16. Mapped(e, h)
  BY <1>5 DEF Ends
<1>17. Grows(e, h, g, l)
  BY <1>3, <1>6, <1>14, <1>15, <1>16, GrowsOn
<1> QED BY <1>10, <1>11, <1>14, <1>15, <1>17

LEMMA Joined4 ==
  ASSUME NEW w \in Items, NEW x \in Items, NEW y \in Items, NEW z \in Items
  PROVE  <<w>> \o <<x, y, z>> = <<w, x, y, z>>
<1>1. PICK b, c : b = <<x, y, z>> /\ c = <<w, x, y, z>>
  OBVIOUS
<1>2. /\ b \in Seq(Items) /\ c \in Seq(Items) /\ Len(b) = 3 /\ Len(c) = 4
      /\ b[1] = x /\ b[2] = y /\ b[3] = z /\ c[1] = w /\ c[2] = x /\ c[3] = y /\ c[4] = z
  BY <1>1
<1>3. \A k \in 1 .. Len(b) : c[k + 1] = b[k]
  <2>1. TAKE k \in 1 .. Len(b)
  <2>2. k = 1 \/ k = 2 \/ k = 3
    BY <1>2
  <2> QED BY <1>2, <2>2
<1>4. Len(c) = Len(b) + 1
  BY <1>2
<1>5. c = <<w>> \o b
  BY <1>2, <1>3, <1>4, FirstApart
<1> QED BY <1>1, <1>5

LEMMA StepsClass ==
  ASSUME NEW f, NEW h, NEW w \in Frames, w.size > 0, w.pending = "none", w.temps = 0,
         NEW u \in Frames, Becomes(w, u, 0, "none", 0), NEW x \in Identifiers
  PROVE  LET items == <<Named("get", x), Item("methods"), Emit(<<Op("POP")>>), Item("classEnds")>>
         IN  items \in Seq(Items) /\ Steps(f, h, items, w, u)
<1>1. PICK n \in Nat : n = 1
  OBVIOUS
<1>2. PICK v \in Frames : /\ Becomes(w, v, w.size, w.pending, n) /\ v.size = w.size /\ v.pending = w.pending /\ v.temps = n
                          /\ \A y, a, b, d : Becomes(w, y, a, b, d) => Becomes(v, y, a, b, d)
  BY Amid
<1>3. PICK i \in Items : i = Named("get", x) /\ i.do = "named"
  BY NamedMade
<1>4. PICK j \in Items : j = Item("methods") /\ j.do = "methods"
  BY PlainMade DEF PlainTasks
<1>5. PICK c \in Items : c = Item("classEnds") /\ c.do = "classEnds"
  BY ItemMade DEF Bare, Tasks
<1>6. Becomes(w, w, w.size, w.pending, w.temps) /\ w.size \in Nat
  BY FrameTyped DEF Becomes
<1>7. Moves(f, h, w, i, v)
  <2>1. w.pending \notin {"function", "parameters"} /\ Becomes(w, v, w.size, w.pending, w.temps + 1)
    BY <1>1, <1>2
  <2> QED BY <1>3, <2>1, MovesExpression
<1>8. Moves(f, h, v, j, v)
  <2>1. Becomes(v, v, v.size, v.pending, v.temps)
    BY DEF Becomes
  <2>2. v.size > 0 /\ v.pending # "parameters" /\ v.pending = "none" /\ v.temps > 0
    BY <1>1, <1>2
  <2> QED BY <1>4, <2>1, <2>2, MovesOver
<1>9. Moves(f, h, v, Emit(<<Op("POP")>>), w) /\ Emit(<<Op("POP")>>) \in Items
  <2>1. PICK m \in Nat : m = 0
    OBVIOUS
  <2>2. v.size > 0 /\ v.pending # "parameters" /\ v.temps = m + 1 /\ Becomes(v, w, v.size, v.pending, m)
    BY <1>1, <1>2, <1>6, <2>1
  <2> QED BY <2>2, MovesPop
<1>10. Moves(f, h, w, c, u)
  BY <1>5, MovesClosing DEF Closing
<1>11. PICK p \in Items : p = Emit(<<Op("POP")>>) /\ p.do = "emit" /\ Moves(f, h, v, p, w)
  BY <1>9, Does
<1>12. <<j, p, c>> \in Seq(Items) /\ Steps(f, h, <<j, p, c>>, v, u)
  BY <1>4, <1>5, <1>8, <1>10, <1>11, Steps3 DEF Terminators
<1>13. PICK s \in Seq(Items) : s = <<j, p, c>>
  BY <1>12
<1>14. Steps(f, h, <<i>> \o s, w, u) /\ <<i>> \o s \in Seq(Items)
  BY <1>3, <1>7, <1>12, <1>13, StepsFirst DEF Terminators
<1>15. <<i>> \o s = <<i, j, p, c>>
  BY <1>13, Joined4
<1> QED BY <1>3, <1>4, <1>5, <1>11, <1>14, <1>15

LEMMA classDeclarationRises ==
  ASSUME CodegenOK, CodegenOK', HeightOK, NEW x \in Names, classDeclaration(x)
  PROVE  HeightOK'
<1>1. CASE fail
  BY <1>1 DEF fail, HeightOK
<1>2. CASE ~fail
  <2>1. PICK f, e : f = Current /\ e = declareVariable(f, x)
    OBVIOUS
  <2>2. PICK g : g = defineVariable(emit(e, emitConstantCommond("CLASS")))
    OBVIOUS
  <2>0. PICK items : items = <<Named("get", x), Item("methods"), Emit(<<Op("POP")>>), Item("classEnds")>>
    OBVIOUS
  <2>3. /\ status = "compiling" /\ status' = "compiling" /\ First.do = "declaration" /\ Now(g) /\ Continue(items)
    BY <1>2, <2>1, <2>2, <2>0 DEF classDeclaration, Doing
  <2>4. PICK h, t, u : AtFirst(h, t, u)
    BY <2>3, Arriving DEF Terminators
  <2>5. /\ First \in Items /\ t \in Frames /\ u \in Frames /\ Moves(f, h, t, First, u) /\ Holds(f, h, t) /\ f \in CompilersTyped
        /\ t.size \in Nat /\ t.size > 0
    BY <2>1, <2>3, <2>4, FirstTyped
  <2>6. t.pending = "none" /\ t.temps = 0 /\ Becomes(t, u, 0, "none", 0)
    BY <2>3, <2>5, MovesClosing DEF Closing
  <2>7. x \in Identifiers
    BY DEF Identifiers
  <2>8. PICK v \in Frames : NewLocal(f, h, t, e, v)
    BY <2>1, <2>5, <2>6, <2>7, DeclareHolds
  <2>9. /\ v.pending = IF v.depth = 0 THEN "none" ELSE "variable"
        /\ v.temps = 0 /\ v.size > 0 /\ Becomes(v, u, 0, "none", 0)
        /\ e \in CompilersTyped /\ Holds(e, h, v) /\ Grows(f, h, e, h)
        /\ v.depth # 0 => Last(e).depth = -1
    BY <2>6, <2>8 DEF NewLocal
  <2>10. g \in CompilersTyped
         /\ \E k : \E w \in Frames : /\ Holds(g, k, w) /\ Grows(e, h, g, k) /\ w.size = v.size /\ w.pending = "none" /\ w.temps = 0
                          /\ \A y, a, b, d : Becomes(v, y, a, b, d) => Becomes(w, y, a, b, d)
    BY <2>2, <2>9, ClassHolds
  <2>11. PICK k : \E w \in Frames : /\ Holds(g, k, w) /\ Grows(e, h, g, k) /\ w.size = v.size /\ w.pending = "none" /\ w.temps = 0
                          /\ \A y, a, b, d : Becomes(v, y, a, b, d) => Becomes(w, y, a, b, d)
    BY <2>10
  <2>12. PICK w \in Frames : /\ Holds(g, k, w) /\ Grows(e, h, g, k) /\ w.size > 0 /\ w.pending = "none" /\ w.temps = 0
                          /\ Becomes(w, u, 0, "none", 0)
    BY <2>9, <2>11
  <2>13. Grows(f, h, g, k)
    <3>1. Mapped(f, h)
      BY <2>5 DEF Holds, Ends
    <3> QED BY <2>5, <2>9, <2>10, <2>12, <3>1, GrowsOn
  <2>14. items \in Seq(Items) /\ Steps(g, k, items, w, u)
    BY <2>5, <2>7, <2>12, <2>0, StepsClass
  <2>15. todo' = items \o Tail(todo) /\ Tail(todo) \in Seq(Items) /\ Meets(h, t, Tail(todo), u) /\ Settles(u, u)
    BY <2>3, <2>4, <2>5, Meeting, Settled DEF Continue, AtFirst
  <2>16. compilers' = [compilers EXCEPT ![Len(compilers)] = g] /\ Grows(Current, h, g, k)
    BY <2>1, <2>3, <2>13 DEF Now
  <2> QED BY <2>3, <2>12, <2>14, <2>15, <2>16, Rises
<1> QED BY <1>1, <1>2

----------------------------------------------------------------------------
(* Scopes and loops. *)

(* A change of the scope and its locals leaves the code as it is. *)
Rescoped(f, d, s) == [f EXCEPT !.scopeDepth = d, !.locals = s]

LEMMA ScopedLike ==
  ASSUME NEW f \in CompilersTyped, NEW d \in Nat, NEW s \in Seq(Locals), NEW g, g = Rescoped(f, d, s)
  PROVE  /\ g \in CompilersTyped /\ g.locals = s /\ g.scopeDepth = d /\ g.loops = f.loops /\ g.code = f.code
         /\ \A h, n : Ends(f, h, n) => Ends(g, h, n)
         /\ \A e, k, h : Grows(e, k, f, h) => Grows(e, k, g, h)
         /\ \A h, t : Looping(f, h, t) => Looping(g, h, t)
<1>1. /\ g \in CompilersTyped /\ g.locals = s /\ g.scopeDepth = d /\ g.loops = f.loops
      /\ g.code = f.code /\ g.arity = f.arity /\ g.type = f.type /\ g.upvalues = f.upvalues
  BY DEF CompilersTyped, Rescoped
<1>2. Count(f) = Count(g)
  BY <1>1 DEF Count
<1>3. \A h, p : Maps(f, h, p) <=> Maps(g, h, p)
  BY <1>1 DEF Maps, Dead, Executes
<1>4. \A h, n : Ends(f, h, n) => Ends(g, h, n)
  BY <1>1, <1>2, <1>3 DEF Ends, Mapped
<1>5. \A e, k, h : Grows(e, k, f, h) => Grows(e, k, g, h)
  BY <1>1, <1>2 DEF Grows
<1>6. \A h, at, n : Jumps(f, h, at, n) => Jumps(g, h, at, n)
  BY <1>1, <1>2 DEF Jumps
<1>7. \A h, t : Looping(f, h, t) => Looping(g, h, t)
  BY <1>1, <1>6 DEF Looping
<1> QED BY <1>1, <1>4, <1>5, <1>7

(* The frame of a scope begun. *)
Inside(t) == [t EXCEPT !.depth = @ + 1, !.sizes = [@ EXCEPT ![t.depth + 1] = t.size]]

LEMMA InsideIs ==
  ASSUME NEW t \in Frames, t.size > 0, t.pending = "none", t.temps = 0, t.loops > 0 => t.floors[t.loops] <= t.size,
         NEW v, v = Inside(t)
  PROVE  /\ v \in Frames /\ v.size = t.size /\ v.pending = "none" /\ v.temps = 0 /\ v.loops = t.loops /\ v.floors = t.floors
         /\ v.depth = t.depth + 1 /\ v.sizes[t.depth + 1] = t.size /\ \A i \in 1 .. t.depth : v.sizes[i] = t.sizes[i]
         /\ \A w : Becomes(t, w, t.size, "none", 0) => Leaving(v, w, v.loops)
<1>1. t.size \in Nat /\ t.depth \in Nat /\ t.sizes \in [Nat -> Pos] /\ t.loops \in Nat
  BY FrameTyped
<1>0. PICK d \in Nat : d = t.depth + 1
  BY <1>1
<1>2. PICK r : r = [t.sizes EXCEPT ![d] = t.size]
  OBVIOUS
<1>3. t.size \in Pos
  BY <1>1 DEF Pos
<1>4. r \in [Nat -> Pos] /\ r[d] = t.size /\ \A i \in 1 .. t.depth : r[i] = t.sizes[i]
  <2>1. \A i \in 1 .. t.depth : i # d /\ i \in Nat
    BY <1>1, <1>0
  <2> QED BY <1>1, <1>2, <1>3, <2>1
<1>5. v = [t EXCEPT !.depth = d, !.sizes = r]
  BY <1>0, <1>2 DEF Inside
<1>6. /\ v \in Frames /\ v.size = t.size /\ v.pending = t.pending /\ v.temps = t.temps /\ v.loops = t.loops
      /\ v.floors = t.floors /\ v.depth = d /\ v.sizes = r
  BY <1>4, <1>5 DEF Frames
<1>7. ASSUME NEW w, Becomes(t, w, t.size, "none", 0) PROVE Leaving(v, w, v.loops)
  <2>1. /\ w.size = t.size /\ w.pending = "none" /\ w.temps = 0 /\ w.depth = t.depth /\ w.loops = t.loops
        /\ \A i \in 1 .. t.depth : w.sizes[i] = t.sizes[i]
        /\ \A i \in 1 .. t.loops : w.floors[i] = t.floors[i]
    BY <1>7 DEF Becomes
  <2>2. v.depth > 0 /\ w.depth = v.depth - 1 /\ w.size = v.sizes[v.depth]
    BY <1>1, <1>0, <1>4, <1>6, <2>1
  <2> QED BY <1>4, <1>6, <2>1, <2>2 DEF Leaving
<1> QED BY <1>0, <1>4, <1>6, <1>7

LEMMA BeginHolds ==
  ASSUME NEW f \in Sound, NEW h, NEW t \in Frames, Holds(f, h, t), t.size > 0, t.pending = "none", t.temps = 0,
         NEW g, g = beginScope(f), NEW v, v = Inside(t)
  PROVE  g \in CompilersTyped /\ Holds(g, h, v) /\ Grows(f, h, g, h)
<1>1. Fitting(f, t) /\ Looping(f, h, t) /\ Ends(f, h, Height(t)) /\ f \in CompilersTyped /\ LocalsOK(f)
  BY DEF Holds, Sound
<1>2. t.size \in Nat /\ t.depth \in Nat /\ t.depth = f.scopeDepth /\ f.locals \in Seq(Locals) /\ t.size = Len(f.locals)
      /\ Values(t) = t.size
  BY <1>1, FrameTyped DEF Fitting, CompilersTyped, Values
<1>3. t.loops > 0 => t.floors[t.loops] <= t.size
  BY <1>1, <1>2 DEF Looping
<1>4. /\ v \in Frames /\ v.size = t.size /\ v.pending = "none" /\ v.temps = 0 /\ v.loops = t.loops /\ v.floors = t.floors
      /\ v.depth = t.depth + 1 /\ v.sizes[t.depth + 1] = t.size /\ \A i \in 1 .. t.depth : v.sizes[i] = t.sizes[i]
  BY <1>3, InsideIs
<1>5. PICK d \in Nat, s \in Seq(Locals) : d = f.scopeDepth + 1 /\ s = f.locals
  BY <1>2
<1>6. g = Rescoped(f, d, s)
  <2>1. g = [f EXCEPT !.scopeDepth = d]
    BY <1>5 DEF beginScope
  <2> QED BY <1>1, <1>5, <2>1 DEF CompilersTyped, Rescoped
<1>0. f \in CompilersTyped
  BY <1>1
<1>41. d \in Nat /\ s \in Seq(Locals)
  BY <1>5
<1>40. /\ g \in CompilersTyped /\ g.locals = s /\ g.scopeDepth = d /\ g.loops = f.loops /\ g.code = f.code
       /\ \A k, n : Ends(f, k, n) => Ends(g, k, n)
       /\ \A e, k, l : Grows(e, k, f, l) => Grows(e, k, g, l)
       /\ \A k, y : Looping(f, k, y) => Looping(g, k, y)
  BY <1>0, <1>41, <1>6, ScopedLike
<1>7. Ends(g, h, Height(t)) /\ Looping(g, h, t)
  BY <1>1, <1>40
<1>8. Grows(f, h, g, h)
  BY <1>0, <1>40, Counts, GrowsSelf
<1>9. Values(v) = t.size /\ Height(v) = Height(t)
  BY <1>2, <1>4 DEF Values, Height
<1>10. Looping(g, h, v)
  BY <1>2, <1>4, <1>40, <1>7, <1>9, LoopingLike
<1>11. Fitting(g, v)
  <2>1. Last(g).depth # -1 /\ Last(f).depth # -1
    BY <1>1, <1>5, <1>40, <1>7 DEF Fitting, Last
  <2>2. \A i \in 1 .. t.size : f.locals[i].depth \in 0 .. t.depth
    <3>1. TAKE i \in 1 .. t.size
    <3>2. f.locals[i].depth \in 0 .. f.scopeDepth \/ (f.locals[i].depth = -1 /\ i = Len(f.locals))
      BY <1>1, <1>2 DEF LocalsOK
    <3> QED BY <1>2, <2>1, <3>2 DEF Last
  <2>3. ASSUME NEW e \in 1 .. v.depth
        PROVE  v.sizes[e] <= v.size /\ \A i \in 1 .. v.size : i <= v.sizes[e] <=> g.locals[i].depth \in 0 .. e - 1
    <3>1. CASE e = t.depth + 1
      BY <1>2, <1>4, <1>5, <1>40, <1>7, <2>2, <3>1
    <3>2. CASE e # t.depth + 1
      <4>1. e \in 1 .. t.depth
        BY <1>2, <1>4, <3>2
      <4> QED BY <1>1, <1>2, <1>4, <1>5, <1>40, <1>7, <4>1 DEF Fitting
    <3> QED BY <3>1, <3>2
  <2>4. v.size = Len(g.locals) /\ Values(v) > 0 /\ v.depth = g.scopeDepth
    BY <1>2, <1>4, <1>5, <1>40, <1>7, <1>9
  <2> QED BY <1>4, <2>1, <2>3, <2>4 DEF Fitting
<1> QED BY <1>40, <1>7, <1>8, <1>9, <1>10, <1>11 DEF Holds

(* A statement in a scope of its own. *)
LEMMA ScopeRises ==
  ASSUME CodegenOK, CodegenOK', status = "compiling", status' = "compiling",
         NEW h, NEW t, NEW u, NEW w, Stands(h, t, u, w), Now(beginScope(Current)),
         NEW items, Continue(items),
         \A g : \A v \in Frames : v.size > 0 /\ v.pending = "none" /\ v.temps = 0 /\ Leaving(v, w, v.loops)
                      => items \in Seq(Items) /\ Steps(g, h, items, v, w)
  PROVE  HeightOK'
<1>1. PICK f, g : f = Current /\ g = beginScope(f)
  OBVIOUS
<1>2. f \in Sound
  BY <1>1, Meeting
<1>3. /\ t \in Frames /\ t.size \in Nat /\ t.size > 0 /\ t.pending = "none" /\ t.temps = 0 /\ Values(t) = t.size
      /\ Becomes(t, w, t.size, "none", 0) /\ Holds(f, h, t)
  BY <1>1, StandsTyped
<1>4. PICK v : v = Inside(t)
  OBVIOUS
<1>5. t.loops > 0 => t.floors[t.loops] <= t.size
  BY <1>3 DEF Holds, Looping
<1>6. v \in Frames /\ v.size = t.size /\ v.pending = "none" /\ v.temps = 0 /\ Leaving(v, w, v.loops)
  BY <1>3, <1>4, <1>5, InsideIs
<1>7. Holds(g, h, v) /\ Grows(Current, h, g, h)
  BY <1>1, <1>2, <1>3, <1>4, BeginHolds
<1>8. items \in Seq(Items) /\ Steps(g, h, items, v, w)
  BY <1>3, <1>6
<1>9. todo' = items \o Tail(todo) /\ Tail(todo) \in Seq(Items) /\ Meets(h, t, Tail(todo), u) /\ Settles(u, w)
  BY Meeting DEF Continue, Stands, AtFirst
<1>10. compilers' = [compilers EXCEPT ![Len(compilers)] = g]
  BY <1>1 DEF Now
<1> QED BY <1>6, <1>7, <1>8, <1>9, <1>10, Rises

LEMMA LeavingAfter ==
  ASSUME NEW v \in Frames, v.pending = "none", NEW w, Leaving(v, w, v.loops)
  PROVE  \E y \in Frames : /\ Becomes(v, y, 0, "none", 0) /\ y.size = 0 /\ y.pending = "none" /\ y.temps = 0
                           /\ y.loops = v.loops /\ Leaving(y, w, y.loops)
<1>1. PICK p \in Pendings, m \in Nat : p = "none" /\ m = 0
  BY DEF Pendings
<1>2. PICK y : y = With(v, m, p, m)
  OBVIOUS
<1>3. y \in Frames /\ Becomes(v, y, m, p, m) /\ y.size = m /\ y.pending = p /\ y.temps = m /\ y.loops = v.loops
  BY <1>1, <1>2, WithIs
<1>4. v.loops \in Nat /\ v.loops <= v.loops
  BY FrameTyped
<1>5. Becomes(v, y, m, "none", m)
  BY <1>1, <1>3
<1>6. Leaving(y, w, v.loops)
  BY <1>3, <1>4, <1>5, LeavingFrom
<1> QED BY <1>1, <1>3, <1>6

LEMMA blockStatementRises == ASSUME CodegenOK, CodegenOK', HeightOK, blockStatement PROVE HeightOK'
<1>1. /\ status = "compiling" /\ status' = "compiling" /\ First.do \in {"declaration", "statement", "case", "else"}
      /\ Now(beginScope(Current)) /\ Continue(<<Item("block"), Item("endScope")>>)
  BY AtStatements DEF blockStatement, Steady
<1>2. PICK h, t, u, w : Stands(h, t, u, w)
  BY <1>1, Standing
<1>3. PICK items : items = <<Item("block"), Item("endScope")>>
  OBVIOUS
<1>4. PICK i \in Items : i = Item("block") /\ i.do = "block"
  BY PlainMade DEF PlainTasks
<1>5. PICK j \in Items : j = Item("endScope") /\ j.do = "endScope"
  BY ItemMade DEF Bare, Tasks
<1>6. w \in Frames
  BY <1>2 DEF Stands
<1>7. ASSUME NEW g, NEW v \in Frames, v.size > 0, v.pending = "none", v.temps = 0, Leaving(v, w, v.loops)
      PROVE  items \in Seq(Items) /\ Steps(g, h, items, v, w)
  <2>1. PICK y \in Frames : /\ Becomes(v, y, 0, "none", 0) /\ y.size = 0 /\ y.pending = "none" /\ y.temps = 0
                            /\ y.loops = v.loops /\ Leaving(y, w, y.loops)
    BY <1>7, LeavingAfter
  <2>2. Moves(g, h, v, i, y)
    BY <1>4, <1>7, <2>1, MovesClosing DEF Closing, Wild
  <2>3. Moves(g, h, y, j, w)
    <3>1. j.do \in ForTasks \cup {"endScope", "forEnds"} /\ j.do \in {"endScope", "forCondition"} /\ j.do \notin {"forExit", "forEnds", "forLoop"}
      BY <1>5
    <3> QED BY <2>1, <3>1, MovesLeaving
  <2> QED BY <1>3, <1>4, <1>5, <1>6, <2>1, <2>2, <2>3, Steps2 DEF Terminators
<1>8. Continue(items)
  BY <1>1, <1>3
<1> QED BY <1>1, <1>2, <1>7, <1>8, ScopeRises

(* The items of a for, turned one into the next. *)
ToTask(i, do) == [i EXCEPT !.do = do]

LEMMA TurnedTo ==
  ASSUME NEW i \in Items, NEW do \in {"forBody", "forEnds"}, NEW x, x = ToTask(i, do)
  PROVE  x \in Items /\ x.do = do /\ x.at = i.at /\ x.exit = i.exit
<1>1. i \in ItemRecords /\ do \in Tasks /\ <<>> \in Codes
  BY Codes_ DEF Items, Tasks, ForTasks
<1>2. x \in ItemRecords /\ x.do = do /\ x.at = i.at /\ x.exit = i.exit
  <2> HIDE DEF Codes, Identifiers, FunctionTypes, Ops, Tasks
  <2> QED BY <1>1 DEF ItemRecords, ToTask
<1> QED BY <1>2 DEF Items, Details

ToIncrement(i, n) == [i EXCEPT !.do = "forIncrement", !.exit = n]

LEMMA TurnedExit ==
  ASSUME NEW i \in Items, NEW n \in Int, NEW x, x = ToIncrement(i, n)
  PROVE  x \in Items /\ x.do = "forIncrement" /\ x.at = i.at /\ x.exit = n
<1>1. i \in ItemRecords /\ "forIncrement" \in Tasks /\ <<>> \in Codes
  BY Codes_ DEF Items, Tasks, ForTasks
<1>2. x \in ItemRecords /\ x.do = "forIncrement" /\ x.at = i.at /\ x.exit = n
  <2> HIDE DEF Codes, Identifiers, FunctionTypes, Ops, Tasks
  <2> QED BY <1>1 DEF ItemRecords, ToIncrement
<1> QED BY <1>2 DEF Items, Details

ToLoop(i, n) == [i EXCEPT !.do = "forLoop", !.code = n]

LEMMA TurnedLoop ==
  ASSUME NEW i \in Items, NEW n \in Int, NEW x, x = ToLoop(i, n)
  PROVE  x \in Items /\ x.do = "forLoop" /\ x.at = i.at /\ x.exit = i.exit /\ x.code = n
<1>1. i \in ItemRecords /\ "forLoop" \in Tasks /\ <<>> \in Codes
  BY Codes_ DEF Items, Tasks, ForTasks
<1>2. x \in ItemRecords /\ x.do = "forLoop" /\ x.at = i.at /\ x.exit = i.exit /\ x.code = n
  <2> HIDE DEF Codes, Identifiers, FunctionTypes, Ops, Tasks
  <2> QED BY <1>1 DEF ItemRecords, ToLoop
<1> QED BY <1>2 DEF Items, Details

ToBody(i, n) == [i EXCEPT !.do = "forBody", !.at = n, !.code = <<>>]

LEMMA TurnedBody ==
  ASSUME NEW i \in Items, NEW n \in Int, NEW x, x = ToBody(i, n)
  PROVE  x \in Items /\ x.do = "forBody" /\ x.at = n /\ x.exit = i.exit
<1>1. i \in ItemRecords /\ "forBody" \in Tasks /\ <<>> \in Codes
  BY Codes_ DEF Items, Tasks, ForTasks
<1>2. x \in ItemRecords /\ x.do = "forBody" /\ x.at = n /\ x.exit = i.exit
  <2> HIDE DEF Codes, Identifiers, FunctionTypes, Ops, Tasks
  <2> QED BY <1>1 DEF ItemRecords, ToBody
<1> QED BY <1>2 DEF Items, Details

LEMMA ForMade ==
  ASSUME NEW do \in {"forIncrement", "forExit"}, NEW n \in Int
  PROVE  LET x == [Item(do) EXCEPT !.at = n] IN x \in Items /\ x.do = do /\ x.at = n /\ x.exit = NoJump
<1>1. do \in Bare /\ do \in Tasks
  BY ForBare DEF ForTasks, Bare
<1>2. [Item(do) EXCEPT !.at = n] \in Items /\ [Item(do) EXCEPT !.at = n].do = do
  BY <1>1, ItemAt
<1>3. LET x == [Item(do) EXCEPT !.at = n] IN x.at = n /\ x.exit = NoJump
  BY DEF Item
<1> QED BY <1>2, <1>3

(* Where a loop goes back to, and the jump out of it. *)
Round(f, h, x, n) == Starts(h, x.at, n) /\ (x.exit # NoJump => Jumps(f, h, x.exit, n))

LEMMA MovesFor ==
  ASSUME NEW f, NEW h, NEW t \in Frames, NEW u, t.size > 0, t.pending = "none", Leaving(t, u, t.loops)
  PROVE  /\ \A x \in Items : x.do = "forCondition" /\ t.temps = 0 => Moves(f, h, t, x, u)
         /\ \A x \in Items : x.do = "forExit" /\ t.temps = 1 /\ Round(f, h, x, t.size) => Moves(f, h, t, x, u)
         /\ \A x \in Items : x.do \in {"forIncrement", "forBody"} /\ t.temps = 0 /\ Round(f, h, x, t.size) => Moves(f, h, t, x, u)
         /\ \A x \in Items : x.do = "forLoop" /\ t.temps = 0 /\ Round(f, h, x, t.size)
              /\ Jumps(f, h, x.code, t.size) /\ Starts(h, x.code + 2, t.size) => Moves(f, h, t, x, u)
<1>1. ASSUME NEW x \in Items, x.do = "forCondition", t.temps = 0 PROVE Moves(f, h, t, x, u)
  <2>1. x.do \in ForTasks \cup {"endScope", "forEnds"}
    BY <1>1 DEF ForTasks
  <2> QED BY <1>1, <2>1, MovesLeaving
<1>2. ASSUME NEW x \in Items, x.do = "forExit", t.temps = 1, Round(f, h, x, t.size) PROVE Moves(f, h, t, x, u)
  <2>1. x.do \in ForTasks \cup {"endScope", "forEnds"}
    BY <1>2 DEF ForTasks
  <2> QED BY <1>2, <2>1, MovesLeaving DEF Round
<1>3. ASSUME NEW x \in Items, x.do \in {"forIncrement", "forBody"}, t.temps = 0, Round(f, h, x, t.size) PROVE Moves(f, h, t, x, u)
  <2>1. x.do \in ForTasks \cup {"endScope", "forEnds"}
    BY <1>3 DEF ForTasks
  <2> QED BY <1>3, <2>1, MovesLeaving DEF Round
<1>4. ASSUME NEW x \in Items, x.do = "forLoop", t.temps = 0, Round(f, h, x, t.size),
             Jumps(f, h, x.code, t.size), Starts(h, x.code + 2, t.size)
      PROVE  Moves(f, h, t, x, u)
  <2>1. x.do \in ForTasks \cup {"endScope", "forEnds"}
    BY <1>4 DEF ForTasks
  <2> QED BY <1>4, <2>1, MovesLeaving DEF Round
<1> QED BY <1>1, <1>2, <1>3, <1>4

LEMMA forStatementRises == ASSUME CodegenOK, CodegenOK', HeightOK, forStatement PROVE HeightOK'
<1>1. /\ status = "compiling" /\ status' = "compiling" /\ First.do \in {"declaration", "statement", "case", "else"}
      /\ Now(beginScope(Current))
  BY AtStatements DEF forStatement, Steady
<1>2. PICK h, t, u, w : Stands(h, t, u, w)
  BY <1>1, Standing
<1>3. w \in Frames
  BY <1>2 DEF Stands
<1>4. PICK i \in Items : i = Item("forVariable") /\ i.do = "forVariable"
  BY PlainMade DEF PlainTasks
<1>5. PICK c \in Items : c = Item("forCondition") /\ c.do = "forCondition"
  <2>1. "forCondition" \in Bare
    BY ForBare DEF ForTasks
  <2> QED BY <2>1, ItemMade
<1>6. PICK x \in Items : x = Expression /\ x.do = "expression"
  BY ExpressionMade, Does
<1>7. PICK p \in Items : p = Emit(<<Op("POP")>>) /\ p.do = "emit"
  BY PopMade, Does
<1>8. Continue(<<c>>) \/ Continue(<<i, c>>) \/ Continue(<<x, p, c>>)
  <2>1. \E init \in {<<>>, <<i>>, <<x, p>>} : Continue(init \o <<c>>)
    BY <1>4, <1>5, <1>6, <1>7 DEF forStatement
  <2>2. <<>> \o <<c>> = <<c>> /\ <<i>> \o <<c>> = <<i, c>> /\ <<x, p>> \o <<c>> = <<x, p, c>>
    BY Pair
  <2> QED BY <2>1, <2>2
<1>9. ASSUME NEW g, NEW v \in Frames, v.size > 0, v.pending = "none", v.temps = 0, Leaving(v, w, v.loops)
      PROVE  /\ <<c>> \in Seq(Items) /\ Steps(g, h, <<c>>, v, w)
             /\ <<i, c>> \in Seq(Items) /\ Steps(g, h, <<i, c>>, v, w)
             /\ <<x, p, c>> \in Seq(Items) /\ Steps(g, h, <<x, p, c>>, v, w)
  <2>1. Moves(g, h, v, c, w)
    BY <1>5, <1>9, MovesFor
  <2>2. <<c>> \in Seq(Items) /\ Steps(g, h, <<c>>, v, w)
    BY <1>3, <1>5, <2>1, Steps1 DEF Terminators
  <2>3. <<i, c>> \in Seq(Items) /\ Steps(g, h, <<i, c>>, v, w)
    <3>1. PICK y \in Frames : /\ Becomes(v, y, 0, "none", 0) /\ y.size = 0 /\ y.pending = "none" /\ y.temps = 0
                              /\ y.loops = v.loops /\ Leaving(y, w, y.loops)
      BY <1>9, LeavingAfter
    <3>2. Moves(g, h, v, i, y)
      BY <1>4, <1>9, <3>1, MovesClosing DEF Closing
    <3>3. Moves(g, h, y, c, w)
      <4>1. c.do \in ForTasks \cup {"endScope", "forEnds"}
        BY <1>5 DEF ForTasks
      <4> QED BY <1>5, <3>1, <4>1, MovesLeaving
    <3> QED BY <1>3, <1>4, <1>5, <3>1, <3>2, <3>3, Steps2 DEF Terminators
  <2>4. <<x, p, c>> \in Seq(Items) /\ Steps(g, h, <<x, p, c>>, v, w)
    <3>1. PICK n \in Nat, m \in Nat : n = 1 /\ m = 0
      OBVIOUS
    <3>2. PICK y \in Frames : /\ Becomes(v, y, v.size, v.pending, n) /\ y.size = v.size /\ y.pending = v.pending /\ y.temps = n
                              /\ \A z, a, b, d : Becomes(v, z, a, b, d) => Becomes(y, z, a, b, d)
      BY <3>1, Amid
    <3>3. Moves(g, h, v, x, y)
      <4>1. v.pending \notin {"function", "parameters"} /\ Becomes(v, y, v.size, v.pending, v.temps + 1)
        BY <1>9, <3>1, <3>2
      <4> QED BY <1>6, <1>9, <4>1, MovesExpression
    <3>4. Moves(g, h, y, p, v)
      <4>1. Becomes(v, v, v.size, v.pending, m)
        BY <1>9, <3>1 DEF Becomes
      <4>2. y.size > 0 /\ y.pending # "parameters" /\ y.temps = m + 1 /\ Becomes(y, v, y.size, y.pending, m)
        BY <1>9, <3>1, <3>2, <4>1
      <4>3. Moves(g, h, y, Emit(<<Op("POP")>>), v)
        BY <3>1, <4>2, MovesPop
      <4> QED BY <1>7, <4>3
    <3> QED BY <1>3, <1>5, <1>6, <1>7, <2>1, <3>2, <3>3, <3>4, Steps3 DEF Terminators
  <2> QED BY <2>2, <2>3, <2>4
<1>10. CASE Continue(<<c>>)
  <2>1. PICK items : items = <<c>>
    OBVIOUS
  <2> QED BY <1>1, <1>2, <1>9, <1>10, <2>1, ScopeRises
<1>11. CASE Continue(<<i, c>>)
  <2>1. PICK items : items = <<i, c>>
    OBVIOUS
  <2> QED BY <1>1, <1>2, <1>9, <1>11, <2>1, ScopeRises
<1>12. CASE Continue(<<x, p, c>>)
  <2>1. PICK items : items = <<x, p, c>>
    OBVIOUS
  <2> QED BY <1>1, <1>2, <1>9, <1>12, <2>1, ScopeRises
<1> QED BY <1>8, <1>10, <1>11, <1>12

(* At a task of a loop. *)
AtFor(f, h, t, u) ==
  /\ AtFirst(h, t, u) /\ f = Current /\ f \in CompilersTyped /\ First \in Items /\ t \in Frames /\ u \in Frames
  /\ t.pending = "none" /\ t.size \in Nat /\ t.size > 0 /\ Values(t) = t.size /\ Holds(f, h, t)
  /\ Leaving(t, u, t.loops) /\ t.temps = (IF First.do = "forExit" THEN 1 ELSE 0) /\ Ends(f, h, t.size + t.temps)
  /\ First.do # "forCondition" => Round(f, h, First, t.size)
  /\ First.do = "forLoop" => Jumps(f, h, First.code, t.size) /\ Starts(h, First.code + 2, t.size)

LEMMA AtForTask ==
  ASSUME CodegenOK, HeightOK, status = "compiling", First.do \in ForTasks
  PROVE  \E f, h, t, u : AtFor(f, h, t, u)
<1>1. First.do \in ForTasks \cup {"endScope", "forEnds"} /\ First.do \notin Terminators /\ First.do \notin {"endScope", "forEnds"}
  BY DEF ForTasks, Terminators
<1>2. PICK h, t, u : AtFirst(h, t, u)
  BY <1>1, Arriving
<1>3. PICK f : f = Current
  OBVIOUS
<1>4. /\ First \in Items /\ t \in Frames /\ u \in Frames /\ Moves(f, h, t, First, u) /\ Holds(f, h, t) /\ f \in CompilersTyped
      /\ t.size \in Nat /\ t.size > 0 /\ Ends(f, h, Height(t)) /\ Height(t) = Values(t) + t.temps
      /\ t.pending \in {"none", "parameters"} => Values(t) = t.size
  BY <1>2, <1>3, FirstTyped
<1>5. /\ t.pending = "none" /\ t.temps = IF First.do = "forExit" THEN 1 ELSE 0
      /\ Leaving(t, u, t.loops)
      /\ First.do # "forCondition" => Round(f, h, First, t.size)
      /\ First.do = "forLoop" => Jumps(f, h, First.code, t.size) /\ Starts(h, First.code + 2, t.size)
  BY <1>1, <1>4, MovesLeaving DEF Round
<1>6. Values(t) = t.size /\ Ends(f, h, t.size + t.temps)
  BY <1>4, <1>5
<1> QED BY <1>2, <1>3, <1>4, <1>5, <1>6 DEF AtFor

LEMMA RoundGrows ==
  ASSUME NEW f, NEW h, NEW g, NEW k, Grows(f, h, g, k), Count(f) \in Nat, Count(g) \in Nat, NEW n,
         NEW x \in Items, Round(f, h, x, n), NEW y, y.at = x.at, y.exit = x.exit
  PROVE  Round(g, k, y, n)
<1>1. x.at \in Int /\ x.exit \in Int
  BY DEF Items, ItemRecords
<1> QED BY <1>1, JumpsGrow DEF Round

LEMMA forConditionRises == ASSUME CodegenOK, CodegenOK', HeightOK, forCondition PROVE HeightOK'
<1>1. /\ status = "compiling" /\ status' = "compiling" /\ First.do = "forCondition" /\ compilers' = compilers
      /\ \/ Continue(<<[Item("forIncrement") EXCEPT !.at = Count(Current)]>>)
         \/ Continue(<<Expression, [Item("forExit") EXCEPT !.at = Count(Current)]>>)
  BY DEF forCondition, Doing, Same, Steady
<1>2. PICK f, h, t, u : AtFor(f, h, t, u)
  BY <1>1, AtForTask DEF ForTasks
<1>3. /\ AtFirst(h, t, u) /\ f = Current /\ f \in CompilersTyped /\ t \in Frames /\ u \in Frames /\ Count(f) \in Nat
      /\ t.pending = "none" /\ t.size \in Nat /\ t.size > 0 /\ t.temps = 0 /\ Leaving(t, u, t.loops) /\ Ends(f, h, t.size)
  BY <1>1, <1>2, Counts DEF AtFor
<1>4. PICK n \in Int : n = Count(f) /\ Starts(h, n, t.size)
  BY <1>3 DEF Ends, Starts
<1>5. CASE Continue(<<[Item("forIncrement") EXCEPT !.at = Count(Current)]>>)
  <2>1. PICK x \in Items : x = [Item("forIncrement") EXCEPT !.at = n] /\ x.do = "forIncrement" /\ x.at = n /\ x.exit = NoJump
    BY ForMade
  <2>2. Moves(f, h, t, x, u)
    BY <1>3, <1>4, <2>1, MovesFor DEF Round
  <2>3. <<x>> \in Seq(Items) /\ Steps(f, h, <<x>>, t, u)
    BY <1>3, <2>1, <2>2, Steps1 DEF Terminators
  <2> QED BY <1>1, <1>3, <1>4, <1>5, <2>1, <2>3, Becoming
<1>6. CASE Continue(<<Expression, [Item("forExit") EXCEPT !.at = Count(Current)]>>)
  <2>1. PICK x \in Items : x = [Item("forExit") EXCEPT !.at = n] /\ x.do = "forExit" /\ x.at = n /\ x.exit = NoJump
    BY ForMade
  <2>2. PICK e \in Items : e = Expression /\ e.do = "expression"
    BY ExpressionMade, Does
  <2>3. PICK m \in Nat : m = 1
    OBVIOUS
  <2>4. PICK y \in Frames : /\ Becomes(t, y, t.size, t.pending, m) /\ y.size = t.size /\ y.pending = t.pending /\ y.temps = m
    BY <1>3, <2>3, Amid
  <2>5. Moves(f, h, t, e, y)
    <3>1. t.pending \notin {"function", "parameters"} /\ Becomes(t, y, t.size, t.pending, t.temps + 1)
      BY <1>3, <2>3, <2>4
    <3> QED BY <1>3, <2>2, <3>1, MovesExpression
  <2>6. Leaving(y, u, y.loops)
    <3>0. Becomes(t, y, t.size, "none", m)
      BY <1>3, <2>4
    <3>1. y.loops = t.loops /\ t.loops \in Nat /\ t.loops <= t.loops
      BY <1>3, <3>0, FrameTyped DEF Becomes
    <3>2. Leaving(y, u, t.loops)
      BY <1>3, <3>0, <3>1, LeavingFrom
    <3> QED BY <3>1, <3>2
  <2>7. Moves(f, h, y, x, u)
    <3>1. Round(f, h, x, y.size) /\ y.size > 0 /\ y.pending = "none" /\ y.temps = 1
      BY <1>3, <1>4, <2>1, <2>3, <2>4 DEF Round
    <3> QED BY <2>1, <2>6, <3>1, MovesFor
  <2>8. <<e, x>> \in Seq(Items) /\ Steps(f, h, <<e, x>>, t, u)
    BY <1>3, <2>1, <2>2, <2>5, <2>7, Steps2 DEF Terminators
  <2> QED BY <1>1, <1>3, <1>4, <1>6, <2>1, <2>2, <2>8, Becoming
<1> QED BY <1>1, <1>5, <1>6

LEMMA forExitRises == ASSUME CodegenOK, CodegenOK', HeightOK, forExit PROVE HeightOK'
<1>1. PICK g, j : g = emitJump(Current, "JUMP_IF_FALSE_POP") /\ j = JumpOperand(Current)
  OBVIOUS
<1>2. PICK x : x = [First EXCEPT !.do = "forIncrement", !.exit = j]
  OBVIOUS
<1>3. /\ status = "compiling" /\ status' = "compiling" /\ First.do = "forExit" /\ Now(g) /\ Continue(<<x>>)
  BY <1>1, <1>2 DEF forExit, ExitJump, Doing, Same, Steady
<1>4. PICK f, h, t, u : AtFor(f, h, t, u)
  BY <1>3, AtForTask DEF ForTasks
<1>5. /\ AtFirst(h, t, u) /\ f = Current /\ f \in CompilersTyped /\ t \in Frames /\ u \in Frames /\ First \in Items
      /\ t.pending = "none" /\ t.size \in Nat /\ t.size > 0 /\ Values(t) = t.size /\ t.temps = 1 /\ Leaving(t, u, t.loops)
      /\ Ends(f, h, t.size + 1) /\ Round(f, h, First, t.size)
  BY <1>3, <1>4 DEF AtFor
<1>6. /\ g \in CompilersTyped /\ Count(f) \in Nat /\ j \in Int /\ Count(g) \in Nat
      /\ \E c \in Codes : g = WithCode(f, c)
  BY <1>1, <1>5, JumpEmitted DEF Forward
<1>7. \E k : Ends(g, k, t.size) /\ Grows(f, h, g, k) /\ Jumps(g, k, j, t.size)
  <2>1. PICK name \in Forward : name = "JUMP_IF_FALSE_POP"
    BY DEF Forward
  <2>2. PICK n, m \in Nat : n = t.size + 1 /\ m = t.size
    BY <1>5
  <2>3. n \in Nat /\ m \in Nat /\ m = n - 1 /\ n >= 2 /\ Ends(f, h, n)
    BY <1>5, <2>2
  <2>4. LET e == emitJump(f, name)
        IN  \E k : /\ Ends(e, k, m) /\ Grows(f, h, e, k) /\ Count(e) = Count(f) + 3
                   /\ Jumps(e, k, JumpOperand(f), IF name = "JUMP_IF_FALSE_POP" THEN n - 1 ELSE n)
    BY <1>5, <2>1, <2>3, EmitsJump
  <2>5. \E k : Ends(g, k, m) /\ Grows(f, h, g, k) /\ Jumps(g, k, j, n - 1)
    BY <1>1, <1>5, <2>1, <2>4
  <2> QED BY <2>2, <2>3, <2>5
<1>8. PICK n \in Nat : n = 0
  OBVIOUS
<1>9. PICK v \in Frames : /\ Becomes(t, v, t.size, t.pending, n) /\ v.size = t.size /\ v.pending = t.pending /\ v.temps = n
  BY <1>5, <1>8, Amid
<1>10. Leaving(v, u, v.loops)
  <2>1. v.loops = t.loops /\ t.loops \in Nat /\ t.loops <= t.loops /\ Becomes(t, v, t.size, "none", n)
    BY <1>5, <1>9, FrameTyped DEF Becomes
  <2>2. Leaving(v, u, t.loops)
    BY <1>5, <2>1, LeavingFrom
  <2> QED BY <2>1, <2>2
<1>11. x \in Items /\ x.do = "forIncrement" /\ x.at = First.at /\ x.exit = j
  <2>1. x = ToIncrement(First, j)
    BY <1>2 DEF ToIncrement
  <2> QED BY <1>5, <1>6, <2>1, TurnedExit
<1>12. ASSUME NEW k, Ends(g, k, t.size), Grows(f, h, g, k), Jumps(g, k, j, t.size)
       PROVE  Ends(g, k, Values(t) + n) /\ Grows(Current, h, g, k) /\ Steps(g, k, <<x>>, v, u)
  <2>1. Round(g, k, x, v.size)
    <3>1. First.at \in Int /\ Starts(h, First.at, t.size)
      BY <1>5 DEF Round, Items, ItemRecords
    <3>2. Starts(k, First.at, t.size)
      BY <1>6, <1>12, <3>1, JumpsGrow
    <3> QED BY <1>9, <1>11, <1>12, <3>2 DEF Round
  <2>2. v.size > 0 /\ v.pending = "none" /\ v.temps = 0
    BY <1>5, <1>8, <1>9
  <2>3. Moves(g, k, v, x, u)
    BY <1>10, <1>11, <2>1, <2>2, MovesFor
  <2>4. Steps(g, k, <<x>>, v, u)
    BY <1>5, <1>11, <2>3, Steps1 DEF Terminators
  <2>5. Values(t) + n = t.size
    BY <1>5, <1>8
  <2> QED BY <1>5, <1>12, <2>4, <2>5
<1>13. \E k : Ends(g, k, Values(t) + n) /\ Grows(Current, h, g, k) /\ Steps(g, k, <<x>>, v, u)
  BY <1>7, <1>12
<1>14. PICK items : items = <<x>>
  OBVIOUS
<1>15. items \in Seq(Items) /\ Settles(u, u) /\ t.pending # "parameters" /\ \E c \in Codes : g = WithCode(Current, c)
  BY <1>5, <1>6, <1>11, <1>14, Settled
<1> QED BY <1>3, <1>5, <1>9, <1>13, <1>14, <1>15, Writing_

LEMMA JumpOver ==
  ASSUME NEW f \in CompilersTyped, NEW h, NEW n \in Nat, n >= 1, Ends(f, h, n), NEW g, g = emitJump(f, "JUMP"),
         NEW j, j = JumpOperand(f)
  PROVE  \E k : Ends(g, k, n) /\ Grows(f, h, g, k) /\ Jumps(g, k, j, n) /\ Starts(k, j + 2, n)
<1>1. PICK name \in Forward : name = "JUMP"
  BY DEF Forward
<1>2. LET e == emitJump(f, name)
      IN  \E k : /\ Ends(e, k, n) /\ Grows(f, h, e, k) /\ Count(e) = Count(f) + 3
                 /\ Jumps(e, k, JumpOperand(f), IF name = "JUMP_IF_FALSE_POP" THEN n - 1 ELSE n)
  <2>1. name = "JUMP" => n >= 1
    OBVIOUS
  <2>2. name # "JUMP" => n >= 2
    BY <1>1
  <2>3. (name = "JUMP_IF_FALSE_POP" => n = n - 1) /\ (name \in {"JUMP_IF_FALSE", "JUMP_IF_TRUE"} => n = n)
    BY <1>1
  <2> QED BY <1>1, <2>1, <2>2, <2>3, EmitsJump
<1>3. PICK k : Ends(g, k, n) /\ Grows(f, h, g, k) /\ Count(g) = Count(f) + 3 /\ Jumps(g, k, j, n)
  BY <1>1, <1>2
<1>4. Count(f) \in Nat /\ Count(g) + 1 = (j + 2) + 1
  BY <1>3, Counts DEF JumpOperand
<1>5. Starts(k, j + 2, n)
  BY <1>3, <1>4 DEF Ends, Starts
<1> QED BY <1>3, <1>5

LEMMA forIncrementRises == ASSUME CodegenOK, CodegenOK', HeightOK, forIncrement PROVE HeightOK'
<1>1. PICK g, j : g = emitJump(Current, "JUMP") /\ j = JumpOperand(Current)
  OBVIOUS
<1>2. PICK x, y : x = ToTask(First, "forBody") /\ y = ToLoop(First, j)
  OBVIOUS
<1>3. /\ status = "compiling" /\ status' = "compiling" /\ First.do = "forIncrement"
      /\ \/ Continue(<<x>>) /\ compilers' = compilers
         \/ Now(g) /\ Continue(<<Expression, Emit(<<Op("POP")>>), y>>)
  BY <1>1, <1>2 DEF forIncrement, Doing, Same, Steady, ToTask, ToLoop
<1>4. PICK f, h, t, u : AtFor(f, h, t, u)
  BY <1>3, AtForTask DEF ForTasks
<1>5. /\ AtFirst(h, t, u) /\ f = Current /\ f \in CompilersTyped /\ t \in Frames /\ u \in Frames /\ First \in Items
      /\ t.pending = "none" /\ t.size \in Nat /\ t.size > 0 /\ Values(t) = t.size /\ t.temps = 0 /\ Leaving(t, u, t.loops)
      /\ Round(f, h, First, t.size)
  BY <1>3, <1>4 DEF AtFor
<1>6. Ends(f, h, t.size)
  <2>1. Ends(f, h, t.size + t.temps) /\ t.size + t.temps = t.size
    BY <1>4, <1>5 DEF AtFor
  <2> QED BY <2>1
<1>7. CASE Continue(<<x>>) /\ compilers' = compilers
  <2>1. x \in Items /\ x.do = "forBody" /\ x.at = First.at /\ x.exit = First.exit
    BY <1>2, <1>5, TurnedTo
  <2>2. Round(f, h, x, t.size)
    BY <1>5, <2>1 DEF Round
  <2>3. Moves(f, h, t, x, u)
    BY <1>5, <2>1, <2>2, MovesFor
  <2>4. PICK items : items = <<x>>
    OBVIOUS
  <2>5. items \in Seq(Items) /\ Steps(Current, h, items, t, u)
    BY <1>5, <2>1, <2>3, <2>4, Steps1 DEF Terminators
  <2> QED BY <1>3, <1>5, <1>7, <2>4, <2>5, Becoming
<1>8. CASE Now(g) /\ Continue(<<Expression, Emit(<<Op("POP")>>), y>>)
  <2>1. /\ g \in CompilersTyped /\ Count(f) \in Nat /\ j \in Int /\ Count(g) \in Nat
        /\ \E c \in Codes : g = WithCode(f, c)
    BY <1>1, <1>5, JumpEmitted DEF Forward
  <2>2. \E k : Ends(g, k, t.size) /\ Grows(f, h, g, k) /\ Jumps(g, k, j, t.size) /\ Starts(k, j + 2, t.size)
    <3>1. t.size >= 1
      BY <1>5
    <3> QED BY <1>1, <1>5, <1>6, <3>1, JumpOver
  <2>3. y \in Items /\ y.do = "forLoop" /\ y.at = First.at /\ y.exit = First.exit /\ y.code = j
    <3>1. PICK i \in Items : i = First
      BY <1>5
    <3>2. PICK n \in Int : n = j
      BY <2>1
    <3>3. y = ToLoop(i, n)
      BY <1>2, <3>1, <3>2
    <3>4. y \in Items /\ y.do = "forLoop" /\ y.at = i.at /\ y.exit = i.exit /\ y.code = n
      BY <3>3, TurnedLoop
    <3> QED BY <3>1, <3>2, <3>4
  <2>4. PICK e \in Items : e = Expression /\ e.do = "expression"
    BY ExpressionMade, Does
  <2>5. PICK p \in Items : p = Emit(<<Op("POP")>>) /\ p.do = "emit"
    BY PopMade, Does
  <2>6. PICK n, m \in Nat : n = 0 /\ m = 1
    OBVIOUS
  <2>7. PICK v \in Frames : /\ Becomes(t, v, t.size, t.pending, m) /\ v.size = t.size /\ v.pending = t.pending /\ v.temps = m
                            /\ \A z, a, b, d : Becomes(t, z, a, b, d) => Becomes(v, z, a, b, d)
    BY <1>5, <2>6, Amid
  <2>8. Becomes(t, t, t.size, t.pending, n)
    BY <1>5, <2>6 DEF Becomes
  <2>9. PICK items : items = <<e, p, y>>
    OBVIOUS
  <2>10. ASSUME NEW k, Ends(g, k, t.size), Grows(f, h, g, k), Jumps(g, k, j, t.size), Starts(k, j + 2, t.size)
         PROVE  Ends(g, k, Values(t) + n) /\ Grows(Current, h, g, k) /\ items \in Seq(Items) /\ Steps(g, k, items, t, u)
    <3>1. Round(g, k, y, t.size)
      BY <1>5, <2>1, <2>3, <2>10, RoundGrows
    <3>2. Moves(g, k, t, y, u)
      BY <1>5, <2>3, <2>10, <3>1, MovesFor
    <3>3. Moves(g, k, t, e, v)
      <4>1. t.pending \notin {"function", "parameters"} /\ Becomes(t, v, t.size, t.pending, t.temps + 1)
        BY <1>5, <2>6, <2>7
      <4> QED BY <1>5, <2>4, <4>1, MovesExpression
    <3>4. Moves(g, k, v, p, t)
      <4>1. v.size > 0 /\ v.pending # "parameters" /\ v.temps = n + 1 /\ Becomes(v, t, v.size, v.pending, n)
        BY <1>5, <2>6, <2>7, <2>8
      <4>2. Moves(g, k, v, Emit(<<Op("POP")>>), t)
        BY <2>6, <2>7, <4>1, MovesPop
      <4> QED BY <2>5, <4>2
    <3>5. items \in Seq(Items) /\ Steps(g, k, items, t, u)
      BY <1>5, <2>3, <2>4, <2>5, <2>7, <2>9, <3>2, <3>3, <3>4, Steps3 DEF Terminators
    <3>6. Values(t) + n = t.size
      BY <1>5, <2>6
    <3> QED BY <1>5, <2>10, <3>5, <3>6
  <2>11. \E k : Ends(g, k, Values(t) + n) /\ Grows(Current, h, g, k) /\ Steps(g, k, items, t, u)
    BY <2>2, <2>10
  <2>12. items \in Seq(Items) /\ Settles(u, u) /\ t.pending # "parameters" /\ \E c \in Codes : g = WithCode(Current, c)
    BY <1>5, <2>1, <2>2, <2>10, Settled
  <2>13. Continue(items) /\ Now(g)
    BY <1>8, <2>4, <2>5, <2>9
  <2> QED BY <1>3, <1>5, <2>8, <2>11, <2>12, <2>13, Writing_
<1> QED BY <1>3, <1>7, <1>8

(* Back to the condition; the jump over the increment patched. *)
LEMMA LoopPatched ==
  ASSUME NEW f \in CompilersTyped, NEW h, NEW n \in Nat, n >= 1, Ends(f, h, n), NEW start \in Int, Starts(h, start, n),
         NEW j \in Int, Jumps(f, h, j, n), ~TooFar(LoopDistance(f, start)), NEW e, e = emitLoop(f, start),
         ~TooFar(Distance(e, j)), NEW g, g = patchJump(e, j)
  PROVE  /\ \E k : Ends(g, k, n) /\ Grows(f, h, g, k)
         /\ \E c \in Codes : g = WithCode(f, c)
<1>1. PICK k : Ends(e, k, n) /\ Grows(f, h, e, k)
  BY EmitsLoop
<1>2. PICK c \in Codes : e = WithCode(f, c)
  BY EmitsLoop
<1>3. e \in CompilersTyped
  BY <1>2, WithCodeTyped
<1>4. Jumps(e, k, j, n)
  BY <1>1, <1>3, Counts, JumpsGrow
<1>5. Ends(g, k, n) /\ Grows(e, k, g, k)
  BY <1>1, <1>3, <1>4, Patches
<1>6. PICK d \in Codes : g = WithCode(e, d)
  BY <1>1, <1>3, <1>4, Patches
<1>7. g = WithCode(f, d) /\ g \in CompilersTyped
  BY <1>2, <1>3, <1>6, WithCodeTyped
<1>8. Mapped(f, h)
  BY DEF Ends
<1>9. Grows(f, h, g, k)
  BY <1>1, <1>3, <1>5, <1>7, <1>8, GrowsOn
<1> QED BY <1>5, <1>7, <1>9

LEMMA forLoopRises == ASSUME CodegenOK, CodegenOK', HeightOK, forLoop PROVE HeightOK'
<1>1. CASE fail
  BY <1>1 DEF fail, HeightOK
<1>2. CASE ~fail
  <2>1. PICK j, e, g : j = First.code /\ e = emitLoop(Current, First.at) /\ g = patchJump(e, j)
    OBVIOUS
  <2>2. PICK x : x = ToBody(First, j + 2)
    OBVIOUS
  <2>3. /\ status = "compiling" /\ status' = "compiling" /\ First.do = "forLoop" /\ Now(g) /\ Continue(<<x>>)
        /\ ~TooFar(LoopDistance(Current, First.at)) /\ ~TooFar(Distance(e, j))
    BY <1>2, <2>1, <2>2 DEF forLoop, Doing, Steady, ToBody
  <2>4. PICK f, h, t, u : AtFor(f, h, t, u)
    BY <2>3, AtForTask DEF ForTasks
  <2>5. /\ AtFirst(h, t, u) /\ f = Current /\ f \in CompilersTyped /\ t \in Frames /\ u \in Frames /\ First \in Items
        /\ t.pending = "none" /\ t.size \in Nat /\ t.size > 0 /\ Values(t) = t.size /\ t.temps = 0 /\ Leaving(t, u, t.loops)
        /\ Round(f, h, First, t.size) /\ Jumps(f, h, j, t.size) /\ Starts(h, j + 2, t.size)
    BY <2>1, <2>3, <2>4 DEF AtFor
  <2>6. Ends(f, h, t.size)
    <3>1. Ends(f, h, t.size + t.temps) /\ t.size + t.temps = t.size
      BY <2>4, <2>5 DEF AtFor
    <3> QED BY <3>1
  <2>7. First.at \in Int /\ j \in Int
    BY <2>1, <2>3, <2>5 DEF Items, ItemRecords, Details
  <2>8. /\ \E k : Ends(g, k, t.size) /\ Grows(f, h, g, k)
        /\ \E c \in Codes : g = WithCode(f, c)
    <3>1. PICK start \in Int : start = First.at
      BY <2>7
    <3>2. Starts(h, start, t.size) /\ ~TooFar(LoopDistance(f, start)) /\ e = emitLoop(f, start) /\ t.size >= 1
      BY <2>1, <2>3, <2>5, <3>1 DEF Round
    <3> QED BY <2>1, <2>3, <2>5, <2>6, <2>7, <3>2, LoopPatched
  <2>9. x \in Items /\ x.do = "forBody" /\ x.at = j + 2 /\ x.exit = First.exit
    <3>1. PICK i \in Items : i = First
      BY <2>5
    <3>2. PICK n \in Int : n = j + 2
      BY <2>7
    <3>3. x = ToBody(i, n)
      BY <2>2, <3>1, <3>2
    <3>4. x \in Items /\ x.do = "forBody" /\ x.at = n /\ x.exit = i.exit
      BY <3>3, TurnedBody
    <3> QED BY <3>1, <3>2, <3>4
  <2>10. PICK n \in Nat : n = 0
    OBVIOUS
  <2>11. Becomes(t, t, t.size, t.pending, n)
    BY <2>5, <2>10 DEF Becomes
  <2>12. PICK items : items = <<x>>
    OBVIOUS
  <2>13. g \in CompilersTyped /\ Count(f) \in Nat /\ Count(g) \in Nat
    BY <2>5, <2>8, WithCodeTyped, Counts
  <2>14. ASSUME NEW k, Ends(g, k, t.size), Grows(f, h, g, k)
         PROVE  Ends(g, k, Values(t) + n) /\ Grows(Current, h, g, k) /\ Steps(g, k, items, t, u)
    <3>1. Round(g, k, x, t.size)
      <4>1. j + 2 \in Int /\ First.exit \in Int
        BY <2>5, <2>7 DEF Items, ItemRecords
      <4>2. Starts(k, j + 2, t.size)
        BY <2>5, <2>13, <2>14, <4>1, JumpsGrow
      <4>3. First.exit # NoJump => Jumps(g, k, First.exit, t.size)
        BY <2>5, <2>13, <2>14, <4>1, JumpsGrow DEF Round
      <4> QED BY <2>9, <4>2, <4>3 DEF Round
    <3>2. Moves(g, k, t, x, u)
      BY <2>5, <2>9, <3>1, MovesFor
    <3>3. Steps(g, k, items, t, u)
      BY <2>5, <2>9, <2>12, <3>2, Steps1 DEF Terminators
    <3>4. Values(t) + n = t.size
      BY <2>5, <2>10
    <3> QED BY <2>5, <2>14, <3>3, <3>4
  <2>15. \E k : Ends(g, k, Values(t) + n) /\ Grows(Current, h, g, k) /\ Steps(g, k, items, t, u)
    BY <2>8, <2>14
  <2>16. items \in Seq(Items) /\ Settles(u, u) /\ t.pending # "parameters" /\ \E c \in Codes : g = WithCode(Current, c)
    BY <2>5, <2>8, <2>9, <2>12, Settled
  <2>17. Continue(items)
    BY <2>3, <2>12
  <2> QED BY <2>3, <2>5, <2>11, <2>15, <2>16, <2>17, Writing_
<1> QED BY <1>1, <1>2

(* A frame inside a new loop, which ends where it began. *)
Within(t) == [t EXCEPT !.loops = @ + 1, !.floors = [@ EXCEPT ![t.loops + 1] = t.size]]

LEMMA WithinIs ==
  ASSUME NEW t \in Frames, t.size > 0, t.pending = "none", t.temps = 0, NEW v, v = Within(t)
  PROVE  /\ v \in Frames /\ v.size = t.size /\ v.pending = "none" /\ v.temps = 0 /\ v.depth = t.depth /\ v.sizes = t.sizes
         /\ v.loops = t.loops + 1 /\ v.floors[t.loops + 1] = t.size /\ \A i \in 1 .. t.loops : v.floors[i] = t.floors[i]
<1>1. /\ t.size \in Nat /\ t.temps \in Nat /\ t.depth \in Nat /\ t.loops \in Nat /\ t.sizes \in [Nat -> Pos]
      /\ t.floors \in [Nat -> Pos] /\ t.pending \in Pendings
  BY FrameTyped
<1>2. PICK n \in Nat, e \in Pos : n = t.loops + 1 /\ e = t.size
  BY <1>1 DEF Pos
<1>3. PICK r : r = [t.floors EXCEPT ![n] = e]
  OBVIOUS
<1>4. r \in [Nat -> Pos] /\ r[n] = e /\ \A i \in 1 .. t.loops : r[i] = t.floors[i]
  BY <1>1, <1>2, <1>3
<1>5. v = [t EXCEPT !.loops = n, !.floors = r]
  BY <1>2, <1>3 DEF Within
<1>6. v \in Frames /\ v.loops = n /\ v.floors = r /\ v.size = t.size /\ v.pending = t.pending /\ v.temps = t.temps
      /\ v.depth = t.depth /\ v.sizes = t.sizes
  BY <1>2, <1>4, <1>5 DEF Frames
<1> QED BY <1>2, <1>4, <1>6

LEMMA WithinLeaves ==
  ASSUME NEW t \in Frames, t.size > 0, t.pending = "none", t.temps = 0, NEW v, v = Within(t),
         NEW u, Leaving(t, u, t.loops), NEW y \in Frames, Becomes(v, y, t.size, "none", 0)
  PROVE  y.loops > 0 /\ y.floors[y.loops] = t.size /\ Leaving(y, u, y.loops - 1)
<1>1. /\ v \in Frames /\ v.depth = t.depth /\ v.sizes = t.sizes
      /\ v.loops = t.loops + 1 /\ v.floors[t.loops + 1] = t.size /\ \A i \in 1 .. t.loops : v.floors[i] = t.floors[i]
  BY WithinIs
<1>2. t.loops \in Nat /\ t.depth \in Nat
  BY FrameTyped
<1>3. y.loops = t.loops + 1 /\ y.depth = t.depth /\ y.pending = "none" /\ y.size = t.size
      /\ \A i \in 1 .. t.depth : y.sizes[i] = t.sizes[i]
  BY <1>1 DEF Becomes
<1>4. \A i \in 1 .. t.loops : y.floors[i] = t.floors[i]
  BY <1>1, <1>2 DEF Becomes
<1>5. y.floors[y.loops] = t.size
  <2>1. t.loops + 1 \in 1 .. v.loops
    BY <1>1, <1>2
  <2> QED BY <1>1, <1>3, <2>1 DEF Becomes
<1>6. y.loops - 1 = t.loops
  BY <1>2, <1>3
<1>7. Leaving(y, u, t.loops)
  BY <1>2, <1>3, <1>4 DEF Leaving
<1> QED BY <1>2, <1>3, <1>5, <1>6, <1>7

LEMMA LoopHolds ==
  ASSUME NEW f \in CompilersTyped, NEW h, NEW t \in Frames, Holds(f, h, t), t.size > 0, t.pending = "none", t.temps = 0,
         NEW at \in Int, Starts(h, at, t.size),
         NEW s, s = Append(f.loops, [start |-> at, enterParamCount |-> Len(f.locals), breakJumps |-> <<>>]),
         NEW g, g = [f EXCEPT !.loops = s], NEW v, v = Within(t)
  PROVE  g \in CompilersTyped /\ Holds(g, h, v) /\ Grows(f, h, g, h)
<1>1. Fitting(f, t) /\ Looping(f, h, t) /\ Ends(f, h, Height(t)) /\ t.loops \in Nat /\ t.size \in Nat
  BY FrameTyped DEF Holds
<1>2. PICK r : r = f.loops /\ r \in Seq(Loops) /\ Len(r) = t.loops
  BY <1>1 DEF CompilersTyped, Looping
<1>3. PICK l : l = [start |-> at, enterParamCount |-> t.size, breakJumps |-> <<>>]
  OBVIOUS
<1>4. l \in Loops /\ l.start = at /\ l.enterParamCount = t.size /\ l.breakJumps = <<>>
  BY <1>1, <1>3 DEF Loops
<1>5. s = Append(r, l)
  BY <1>1, <1>2, <1>3 DEF Fitting
<1>6. PICK m \in Nat : m = t.loops
  BY <1>1
<1>7. s \in Seq(Loops) /\ Len(s) = m + 1 /\ s[m + 1] = l
  BY <1>2, <1>4, <1>5, <1>6, AppendProperties
<1>8. \A i \in 1 .. m : s[i] = r[i]
  BY <1>2, <1>4, <1>5, <1>6, AppendProperties
<1>9. /\ v \in Frames /\ v.size = t.size /\ v.pending = "none" /\ v.temps = 0 /\ v.depth = t.depth /\ v.sizes = t.sizes
      /\ v.loops = m + 1 /\ v.floors[m + 1] = t.size /\ \A i \in 1 .. m : v.floors[i] = t.floors[i]
  BY <1>6, WithinIs
<1>0. PICK z \in Seq(Loops) : z = s /\ g = [f EXCEPT !.loops = z]
  BY <1>7
<1>40. /\ g \in CompilersTyped /\ g.loops = z /\ g.code = f.code /\ g.locals = f.locals /\ g.scopeDepth = f.scopeDepth
       /\ Count(g) = Count(f)
  BY <1>0 DEF CompilersTyped, Count
<1>41. \A at_, n : Jumps(f, h, at_, n) => Jumps(g, h, at_, n)
  BY <1>40 DEF Jumps
<1>42. Fitting(g, t)
  BY <1>1, <1>0, EndsLike
<1>43. Ends(g, h, Height(t))
  BY <1>1, <1>0, EndsLike
<1>10. g \in CompilersTyped /\ g.loops = s /\ g.code = f.code /\ g.locals = f.locals /\ g.scopeDepth = f.scopeDepth
       /\ Count(g) = Count(f)
  BY <1>0, <1>40
<1>11. Fitting(g, t) /\ Ends(g, h, Height(t))
  BY <1>42, <1>43
<1>12. Grows(f, h, g, h)
  <2>1. Count(f) \in Nat
    BY Counts
  <2>2. Grows(f, h, f, h)
    BY <2>1, GrowsSelf
  <2> QED BY <1>0, <2>2, EndsLike
<1>13. Values(v) = t.size /\ Height(v) = Height(t) /\ Values(t) = t.size
  BY <1>9 DEF Values, Height
<1>14. Fitting(g, v)
  BY <1>9, <1>11, <1>13 DEF Fitting
<1>15. Looping(g, h, v)
  <2>1. ASSUME NEW i \in 1 .. m + 1
        PROVE  /\ s[i].enterParamCount = v.floors[i] /\ Starts(h, s[i].start, v.floors[i])
               /\ \A j \in 1 .. Len(s[i].breakJumps) : Jumps(g, h, s[i].breakJumps[j], v.floors[i])
    <3>1. CASE i = m + 1
      <4>1. PICK e : e = m + 1 /\ i = e
        BY <3>1
      <4>2. s[i] = l /\ v.floors[i] = t.size
        BY <1>7, <1>9, <4>1
      <4>3. 1 .. Len(l.breakJumps) = {}
        BY <1>4
      <4> QED BY <1>4, <4>2, <4>3
    <3>2. CASE i \in 1 .. m
      <4>1. s[i] = r[i] /\ v.floors[i] = t.floors[i]
        BY <1>8, <1>9, <3>2
      <4>2. /\ r[i].enterParamCount = t.floors[i] /\ Starts(h, r[i].start, t.floors[i])
            /\ \A j \in 1 .. Len(r[i].breakJumps) : Jumps(f, h, r[i].breakJumps[j], t.floors[i])
        BY <1>1, <1>2, <1>6, <3>2 DEF Looping
      <4>3. \A j \in 1 .. Len(r[i].breakJumps) : Jumps(g, h, r[i].breakJumps[j], t.floors[i])
        BY <1>41, <4>2
      <4> QED BY <4>1, <4>2, <4>3
    <3>3. i = m + 1 \/ i \in 1 .. m
      BY <1>6
    <3> QED BY <3>1, <3>2, <3>3
  <2>2. v.loops = Len(g.loops) /\ v.floors[v.loops] <= Values(v)
    BY <1>1, <1>7, <1>9, <1>10, <1>13
  <2> QED BY <1>9, <1>10, <2>1, <2>2 DEF Looping
<1> QED BY <1>10, <1>11, <1>12, <1>13, <1>14, <1>15 DEF Holds

LEMMA forBodyRises == ASSUME CodegenOK, CodegenOK', HeightOK, forBody PROVE HeightOK'
<1>1. PICK s : s = Append(Current.loops, [start |-> First.at, enterParamCount |-> Len(Current.locals), breakJumps |-> <<>>])
  OBVIOUS
<1>2. PICK g, x, y : g = [Current EXCEPT !.loops = s] /\ x = Item("statement") /\ y = ToTask(First, "forEnds")
  OBVIOUS
<1>3. status = "compiling" /\ status' = "compiling" /\ First.do = "forBody" /\ Now(g) /\ Continue(<<x, y>>)
  BY <1>1, <1>2 DEF forBody, Doing, Same, Steady, ToTask
<1>4. PICK f, h, t, u : AtFor(f, h, t, u)
  BY <1>3, AtForTask DEF ForTasks
<1>5. /\ AtFirst(h, t, u) /\ f = Current /\ f \in CompilersTyped /\ t \in Frames /\ u \in Frames /\ First \in Items
      /\ t.pending = "none" /\ t.size \in Nat /\ t.size > 0 /\ Holds(f, h, t) /\ t.temps = 0 /\ Leaving(t, u, t.loops)
      /\ Round(f, h, First, t.size)
  BY <1>3, <1>4 DEF AtFor
<1>6. PICK at \in Int : at = First.at /\ Starts(h, at, t.size)
  BY <1>5 DEF Round, Items, ItemRecords
<1>7. PICK v : v = Within(t)
  OBVIOUS
<1>8. v \in Frames /\ v.size = t.size /\ v.pending = "none" /\ v.temps = 0
  BY <1>5, <1>7, WithinIs
<1>9. g \in CompilersTyped /\ Holds(g, h, v) /\ Grows(f, h, g, h)
  <2>1. s = Append(f.loops, [start |-> at, enterParamCount |-> Len(f.locals), breakJumps |-> <<>>])
        /\ g = [f EXCEPT !.loops = s]
    BY <1>1, <1>2, <1>5, <1>6
  <2> QED BY <1>5, <1>6, <1>7, <2>1, LoopHolds
<1>10. x \in Items /\ x.do = "statement"
  BY <1>2, PlainMade DEF PlainTasks
<1>11. y \in Items /\ y.do = "forEnds" /\ y.at = First.at /\ y.exit = First.exit
  BY <1>2, <1>5, TurnedTo
<1>12. Becomes(v, v, t.size, "none", 0) /\ Becomes(v, v, v.size, "none", 0)
  BY <1>8 DEF Becomes
<1>13. Moves(g, h, v, x, v)
  <2>1. x.do \in {"statement", "case", "else"} /\ x.do # "else" /\ v.size > 0
    BY <1>5, <1>8, <1>10
  <2> QED BY <1>8, <1>10, <1>12, <2>1, MovesStatement
<1>14. Moves(g, h, v, y, u)
  <2>1. v.loops > 0 /\ v.floors[v.loops] = v.size /\ Leaving(v, u, v.loops - 1)
    BY <1>5, <1>7, <1>8, <1>12, WithinLeaves
  <2>2. Starts(h, y.at, v.size) /\ (y.exit # NoJump => Jumps(g, h, y.exit, v.size))
    <3>1. First.exit \in Int /\ Count(f) \in Nat /\ Count(g) \in Nat
      BY <1>5, <1>9, Counts DEF Items, ItemRecords
    <3>2. First.exit # NoJump => Jumps(g, h, First.exit, t.size)
      BY <1>5, <1>9, <3>1, JumpsGrow DEF Round
    <3> QED BY <1>6, <1>8, <1>11, <3>2
  <2>3. y.do \in ForTasks \cup {"endScope", "forEnds"}
    BY <1>11
  <2> QED BY <1>5, <1>8, <1>11, <2>1, <2>2, <2>3, MovesLeaving
<1>15. PICK items : items = <<x, y>>
  OBVIOUS
<1>16. items \in Seq(Items) /\ Steps(g, h, items, v, u)
  BY <1>5, <1>8, <1>10, <1>11, <1>13, <1>14, <1>15, Steps2 DEF Terminators
<1>17. todo' = items \o Tail(todo) /\ Tail(todo) \in Seq(Items) /\ Meets(h, t, Tail(todo), u) /\ Settles(u, u)
  BY <1>3, <1>5, <1>15, Meeting, Settled DEF Continue, AtFirst
<1>18. compilers' = [compilers EXCEPT ![Len(compilers)] = g] /\ Grows(Current, h, g, h)
  BY <1>3, <1>5, <1>9 DEF Now
<1> QED BY <1>3, <1>8, <1>9, <1>16, <1>17, <1>18, Rises

(* The locals that a scope leaves are those there were when it began. *)
LEMMA ScopeKeeps ==
  ASSUME NEW f \in CompilersTyped, LocalsOK(f), NEW t \in Frames, Fitting(f, t), t.pending = "none", t.depth > 0,
         NEW k, k = t.sizes[t.depth], NEW n, n = Len(f.locals)
  PROVE  /\ k \in 1 .. n /\ t.size = n /\ n \in Nat /\ n <= LOCAL_MAX
         /\ Cardinality({i \in DOMAIN f.locals : f.locals[i].depth < f.scopeDepth}) = k
         /\ \A i \in 1 .. k : f.locals[i].depth \in 0 .. f.scopeDepth - 1
         /\ \A e \in 1 .. t.depth : t.sizes[e] <= k
<1>1. PICK r : r = f.locals /\ r \in Seq(Locals)
  BY DEF CompilersTyped
<1>2. n \in Nat /\ n = Len(r) /\ n = t.size /\ n <= LOCAL_MAX
  BY <1>1, LenProperties DEF Fitting, LocalsOK
<1>3. PICK d \in Nat : d = t.depth /\ d = f.scopeDepth
  BY FrameTyped DEF Fitting
<1>4. d \in 1 .. d /\ k \in Nat /\ k > 0
  BY <1>3, FrameTyped
<1>5. k <= n /\ \A i \in 1 .. n : i <= k <=> r[i].depth \in 0 .. d - 1
  BY <1>1, <1>2, <1>3, <1>4 DEF Fitting
<1>6. \A i \in 1 .. n : r[i].depth \in Nat
  <2>1. TAKE i \in 1 .. n
  <2>2. Last(f).depth # -1
    BY DEF Fitting
  <2>3. r[i].depth \in 0 .. d \/ (r[i].depth = -1 /\ i = n)
    BY <1>1, <1>2, <1>3 DEF LocalsOK
  <2>4. r[i].depth # -1
    BY <1>1, <1>2, <2>2, <2>3 DEF Last
  <2> QED BY <2>3, <2>4
<1>7. {i \in DOMAIN f.locals : f.locals[i].depth < f.scopeDepth} = 1 .. k
  <2>1. DOMAIN r = 1 .. n
    BY <1>1, <1>2, LenProperties
  <2>2. \A i \in 1 .. n : r[i].depth < d <=> i <= k
    BY <1>3, <1>5, <1>6
  <2> QED BY <1>1, <1>3, <1>4, <1>5, <2>1, <2>2
<1>8. Cardinality(1 .. k) = k
  BY <1>4, FS_Interval
<1>9. \A i \in 1 .. k : f.locals[i].depth \in 0 .. f.scopeDepth - 1
  BY <1>1, <1>2, <1>3, <1>4, <1>5
<1>10. \A e \in 1 .. t.depth : t.sizes[e] <= k
  <2>1. TAKE e \in 1 .. t.depth
  <2>2. PICK i \in Nat : i = t.sizes[e] /\ i > 0
    BY <1>3, FrameTyped
  <2>3. i <= n /\ (i <= i <=> r[i].depth \in 0 .. e - 1)
    BY <1>1, <1>2, <2>2 DEF Fitting
  <2>4. i \in 1 .. n /\ r[i].depth \in 0 .. d - 1
    BY <1>2, <1>3, <2>2, <2>3
  <2> QED BY <1>5, <2>2, <2>4
<1>11. k \in 1 .. n /\ t.size = n
  BY <1>2, <1>4, <1>5
<1>12. Cardinality({i \in DOMAIN f.locals : f.locals[i].depth < f.scopeDepth}) = k
  BY <1>7, <1>8, Zenon
<1> QED BY <1>2, <1>9, <1>10, <1>11, <1>12

LEMMA ScopeCode ==
  ASSUME NEW f \in CompilersTyped, NEW k, Cardinality({i \in DOMAIN f.locals : f.locals[i].depth < f.scopeDepth}) = k,
         NEW d, d = f.scopeDepth - 1, NEW s, s = SubSeq(f.locals, 1, k), NEW q, q = SubSeq(f.locals, k + 1, Len(f.locals))
  PROVE  endScope(f) = emit(Rescoped(f, d, s), Unwind(q))
BY DEF endScope, Rescoped

LEMMA LocalsCut ==
  ASSUME NEW r \in Seq(Locals), NEW n \in Nat, n = Len(r), NEW k \in 1 .. n,
         NEW s, s = SubSeq(r, 1, k), NEW q, q = SubSeq(r, k + 1, Len(r))
  PROVE  /\ s \in Seq(Locals) /\ Len(s) = k /\ \A i \in 1 .. k : s[i] = r[i]
         /\ q \in Seq(Locals) /\ Len(q) = n - k
<1>1. s \in Seq(Locals) /\ Len(s) = k /\ \A i \in 1 .. k : s[i] = r[i]
  <2>1. 1 \in 1 .. Len(r) + 1 /\ k \in 1 - 1 .. Len(r)
    OBVIOUS
  <2>2. s \in Seq(Locals) /\ Len(s) = (IF 1 <= k THEN k - 1 + 1 ELSE 0) /\ \A i \in 1 .. k - 1 + 1 : s[i] = r[1 + i - 1]
    BY <2>1, SubSeqProperties
  <2> QED BY <2>2
<1>2. q \in Seq(Locals) /\ Len(q) = n - k
  <2>1. k + 1 \in 1 .. Len(r) + 1 /\ Len(r) \in (k + 1) - 1 .. Len(r)
    OBVIOUS
  <2>2. q \in Seq(Locals) /\ Len(q) = IF k + 1 <= Len(r) THEN Len(r) - (k + 1) + 1 ELSE 0
    BY <2>1, SubSeqProperties
  <2> QED BY <2>2
<1> QED BY <1>1, <1>2

LEMMA EndHolds ==
  ASSUME NEW f \in CompilersTyped, LocalsOK(f), NEW h, NEW t \in Frames, Fitting(f, t), t.pending = "none",
         NEW u \in Frames, Leaving(t, u, u.loops), Looping(f, h, u), Ends(f, h, t.size), NEW g, g = endScope(f)
  PROVE  g \in CompilersTyped /\ \E k : Holds(g, k, u) /\ Grows(f, h, g, k)
<1>1. t.depth > 0 /\ t.depth \in Nat /\ u.depth \in Nat /\ u.loops \in Nat
  BY FrameTyped DEF Leaving
<1>2. PICK r, n, x : r = f.locals /\ n = Len(f.locals) /\ x = t.sizes[t.depth]
  OBVIOUS
<1>3. /\ x \in 1 .. n /\ t.size = n /\ n \in Nat /\ n <= LOCAL_MAX
      /\ Cardinality({i \in DOMAIN f.locals : f.locals[i].depth < f.scopeDepth}) = x
      /\ \A i \in 1 .. x : r[i].depth \in 0 .. f.scopeDepth - 1
      /\ \A e \in 1 .. t.depth : t.sizes[e] <= x
  BY <1>1, <1>2, ScopeKeeps
<1>4. PICK d \in Nat : d = f.scopeDepth - 1 /\ d = u.depth /\ t.depth = d + 1
  BY <1>1 DEF Leaving, Fitting
<1>5. PICK s, q : s = SubSeq(f.locals, 1, x) /\ q = SubSeq(f.locals, x + 1, Len(f.locals))
  OBVIOUS
<1>6. PICK p : p = Rescoped(f, d, s)
  OBVIOUS
<1>7. g = emit(p, Unwind(q))
  BY <1>3, <1>4, <1>5, <1>6, ScopeCode
<1>8. /\ s \in Seq(Locals) /\ Len(s) = x /\ \A i \in 1 .. x : s[i] = r[i]
      /\ q \in Seq(Locals) /\ Len(q) = n - x
  <2>1. r \in Seq(Locals) /\ n = Len(r) /\ s = SubSeq(r, 1, x) /\ q = SubSeq(r, x + 1, Len(r))
    BY <1>2, <1>5 DEF CompilersTyped
  <2> QED BY <1>3, <2>1, LocalsCut
<1>9. p \in CompilersTyped /\ p.locals = s /\ p.scopeDepth = d /\ p.loops = f.loops /\ p.code = f.code
  <2>1. s \in Seq(Locals)
    BY <1>8
  <2> QED BY <1>6, <2>1 DEF Rescoped, CompilersTyped
<1>10. Ends(p, h, t.size)
  BY <1>6, <1>8, ScopedLike
<1>11. Grows(f, h, p, h)
  <2>1. Grows(f, h, f, h)
    BY Counts, GrowsSelf
  <2> QED BY <1>6, <1>8, <2>1, ScopedLike
<1>12. Looping(p, h, u)
  BY <1>6, <1>8, ScopedLike
<1>13. g \in CompilersTyped /\ \E k : Ends(g, k, x) /\ Grows(p, h, g, k)
  <2>1. PICK m \in Nat : m = Len(q)
    BY <1>3, <1>8
  <2>2. PICK y \in Nat : y = x
    BY <1>3
  <2>3. y + m = t.size /\ y > 0 /\ m < Base
    BY <1>3, <1>8, <2>1, <2>2, Bytes_
  <2>4. Ends(p, h, y + m)
    BY <1>10, <2>3
  <2>5. g \in CompilersTyped /\ \E k : Ends(g, k, y) /\ Grows(p, h, g, k)
    BY <1>7, <1>8, <1>9, <2>1, <2>3, <2>4, EmitsUnwind
  <2> QED BY <2>2, <2>5
<1>14. PICK c \in Codes : g = WithCode(p, c)
  BY <1>7, <1>8, <1>9, UnwindCode, EmitTyped
<1>15. Alike(p, g) /\ g.locals = s /\ g.scopeDepth = d
  BY <1>9, <1>14, AlikeTyped, WithCodeTyped
<1>16. /\ u.size = x /\ u.pending = "none" /\ u.temps = 0 /\ Values(u) = x /\ Height(u) = x
       /\ \A i \in 1 .. d : u.sizes[i] = t.sizes[i]
  BY <1>2, <1>3, <1>4 DEF Leaving, Values, Height
<1>17. Fitting(g, u)
  <2>1. Last(g).depth # -1
    <3>1. s[x] = r[x] /\ r[x].depth \in 0 .. d
      BY <1>3, <1>4, <1>8
    <3> QED BY <1>8, <1>15, <3>1 DEF Last
  <2>2. ASSUME NEW e \in 1 .. d
        PROVE  u.sizes[e] <= x /\ \A i \in 1 .. x : i <= u.sizes[e] <=> s[i].depth \in 0 .. e - 1
    <3>1. e \in 1 .. t.depth /\ u.sizes[e] = t.sizes[e] /\ t.sizes[e] <= x
      BY <1>3, <1>4, <1>16
    <3>2. \A i \in 1 .. x : i <= t.sizes[e] <=> r[i].depth \in 0 .. e - 1
      <4>1. \A i \in 1 .. t.size : i <= t.sizes[e] <=> r[i].depth \in 0 .. e - 1
        BY <1>2, <3>1 DEF Fitting
      <4> QED BY <1>3, <4>1
    <3> QED BY <1>8, <3>1, <3>2
  <2> QED BY <1>3, <1>4, <1>8, <1>15, <1>16, <2>1, <2>2 DEF Fitting
<1>18. PICK k : Ends(g, k, x) /\ Grows(p, h, g, k)
  BY <1>13
<1>19. Looping(g, k, u)
  BY <1>1, <1>12, <1>15, <1>18, LoopingKept
<1>20. Grows(f, h, g, k)
  <2>1. Mapped(f, h) /\ Count(p) = Count(f)
    <3>1. Mapped(p, h) /\ Count(p) = Count(f)
      BY <1>9, <1>10 DEF Ends, Count
    <3>2. Grows(f, h, p, h)
      BY <1>11
    <3> QED BY <3>1 DEF Ends
  <2> QED BY <1>9, <1>18, <2>1 DEF Grows
<1> QED BY <1>13, <1>16, <1>17, <1>18, <1>19, <1>20 DEF Holds

LEMMA endBlockRises == ASSUME CodegenOK, CodegenOK', HeightOK, endBlock PROVE HeightOK'
<1>1. PICK f, g : f = Current /\ g = endScope(f)
  OBVIOUS
<1>2. status = "compiling" /\ status' = "compiling" /\ First.do = "endScope" /\ Now(g) /\ Continue(<<>>)
  BY <1>1 DEF endBlock, Doing, Same, Steady
<1>3. PICK h, t, u : AtFirst(h, t, u)
  BY <1>2, Arriving DEF Terminators
<1>4. /\ First \in Items /\ f \in CompilersTyped /\ f \in Sound /\ t \in Frames /\ u \in Frames /\ Moves(f, h, t, First, u)
      /\ Holds(f, h, t) /\ Ends(f, h, Height(t)) /\ t.size \in Nat
  BY <1>1, <1>2, <1>3, Meeting, FirstTyped
<1>5. t.pending = "none" /\ t.temps = 0 /\ Leaving(t, u, t.loops)
  <2>1. First.do \in ForTasks \cup {"endScope", "forEnds"}
    BY <1>2
  <2> QED BY <1>2, <1>4, <2>1, MovesLeaving
<1>6. Ends(f, h, t.size) /\ Fitting(f, t) /\ Looping(f, h, t) /\ Values(t) = t.size
  BY <1>4, <1>5 DEF Holds, Height, Values
<1>7. u.loops = t.loops
  BY <1>5 DEF Leaving
<1>8. Looping(f, h, u)
  <2>1. \A i \in 1 .. t.loops : u.floors[i] = t.floors[i]
    BY <1>5 DEF Leaving
  <2>2. u.loops > 0 => u.floors[u.loops] <= Values(u)
    <3>1. t.loops \in Nat /\ Values(u) = u.size
      BY <1>4, <1>5, FrameTyped DEF Leaving, Values
    <3> QED BY <1>5, <1>7, <2>1, <3>1 DEF Leaving
  <2> QED BY <1>6, <1>7, <2>1, <2>2 DEF Looping
<1>9. g \in CompilersTyped /\ \E k : Holds(g, k, u) /\ Grows(f, h, g, k)
  BY <1>1, <1>4, <1>5, <1>6, <1>7, <1>8, EndHolds DEF Sound
<1>10. PICK k : Holds(g, k, u) /\ Grows(Current, h, g, k)
  BY <1>1, <1>9
<1>11. PICK items : items = <<>> /\ items \in Seq(Items)
  BY EmptySeq
<1>12. Steps(g, k, items, u, u) /\ Settles(u, u)
  BY <1>4, <1>11, Steps0, Settled
<1>13. Tail(todo) \in Seq(Items) /\ Meets(h, t, Tail(todo), u)
  BY <1>2, <1>3, Meeting DEF AtFirst
<1>14. todo' = items \o Tail(todo) /\ compilers' = [compilers EXCEPT ![Len(compilers)] = g]
  BY <1>2, <1>11 DEF Continue, Now
<1> QED BY <1>2, <1>4, <1>10, <1>11, <1>12, <1>13, <1>14, Rises

(* What every patch keeps, all of them keep. *)
LEMMA PatchedIn ==
  ASSUME NEW S, NEW f \in S, NEW exits \in Seq(Int), \A i \in DOMAIN exits : \A g \in S : patchJump(g, exits[i]) \in S
  PROVE  Patched(f, exits)[Len(exits)] \in S
<1> DEFINE n == Len(exits)
           V == [i \in 0 .. n |-> S]
           F == [i \in 1 .. n |-> [g \in S |-> patchJump(g, exits[i])]]
<1>1. n \in Nat /\ DOMAIN exits = 1 .. n /\ \A i \in 1 .. n : exits[i] \in Int
  BY LenProperties, ElementOfSeq
<1>2. ASSUME NEW i \in 1 .. n, NEW g \in S
      PROVE  patchJump(g, exits[i]) \in S
  BY <1>1
<1>3. \A i \in 1 .. n : \A v \in V[i - 1] : F[i][v] \in V[i]
  BY <1>1, <1>2
<1>4. PICK h : Recursive(h, n, V, f, F)
  <2>1. f \in V[0]
    BY <1>1
  <2> HIDE DEF V, F, n
  <2> QED BY <1>1, <1>3, <2>1, RecursionExists
<1>5. h = PatchedBy(f, exits, h)
  <2>1. ASSUME NEW i \in 0 .. n
        PROVE  h[i] = IF i = 0 THEN f ELSE patchJump(h[i - 1], exits[i])
    <3>1. CASE i = 0
      BY <1>4, <3>1 DEF Recursive
    <3>2. CASE i # 0
      <4>1. i \in 1 .. n /\ i - 1 \in 0 .. n
        BY <1>1, <3>2
      <4>2. h[i] = F[i][h[i - 1]] /\ h[i - 1] \in S
        BY <1>4, <4>1 DEF Recursive
      <4> QED BY <3>2, <4>1, <4>2
    <3> QED BY <3>1, <3>2
  <2>2. h = [i \in 0 .. n |-> h[i]]
    BY <1>4 DEF Recursive
  <2> QED BY <2>1, <2>2 DEF PatchedBy
<1>6. PICK g : g = Patched(f, exits) /\ g = PatchedBy(f, exits, g)
  BY <1>5 DEF Patched
<1>7. g[0] = f
  BY <1>1, <1>6 DEF PatchedBy
<1>8. ASSUME NEW i \in 1 .. n, g[i - 1] \in V[i - 1]
      PROVE  g[i] = F[i][g[i - 1]]
  <2>1. i \in 0 .. n /\ i - 1 \in 0 .. n /\ i # 0
    BY <1>1
  <2>2. g[i] = patchJump(g[i - 1], exits[i])
    BY <1>6, <2>1 DEF PatchedBy
  <2> QED BY <1>8, <2>1, <2>2
<1>9. \A i \in 0 .. n : g[i] = h[i] /\ g[i] \in V[i]
  <2> HIDE DEF V, F, n
  <2> QED BY <1>1, <1>4, <1>7, <1>8, Determined
<1>10. g[n] \in S
  BY <1>1, <1>9
<1> QED BY <1>6, <1>10

(* The jumps at exits all patched, where the code ends. *)
PatchedAt(f, k, n) == {g \in Rewritten(f) : Ends(g, k, n) /\ Grows(f, k, g, k)}

LEMMA PatchesAll ==
  ASSUME NEW f \in CompilersTyped, NEW k, NEW n \in Nat, Ends(f, k, n), NEW exits \in Seq(Int),
         \A i \in DOMAIN exits : Jumps(f, k, exits[i], n) /\ ~TooFar(Distance(f, exits[i])),
         NEW p, p = Patched(f, exits)[Len(exits)]
  PROVE  p \in CompilersTyped /\ Ends(p, k, n) /\ Grows(f, k, p, k) /\ \E c \in Codes : p = WithCode(f, c)
<1>1. Count(f) \in Nat /\ Mapped(f, k)
  BY Counts DEF Ends
<1>2. f \in PatchedAt(f, k, n)
  BY <1>1, RewrittenSelf, GrowsSelf DEF PatchedAt
<1>3. ASSUME NEW i \in DOMAIN exits, NEW g \in PatchedAt(f, k, n) PROVE patchJump(g, exits[i]) \in PatchedAt(f, k, n)
  <2>1. PICK at \in Int : at = exits[i]
    BY ElementOfSeq, LenProperties
  <2>2. g \in Rewritten(f) /\ g \in CompilersTyped /\ Ends(g, k, n) /\ Grows(f, k, g, k) /\ Count(g) \in Nat
    BY Counts DEF PatchedAt, Rewritten
  <2>3. Jumps(f, k, at, n) /\ ~TooFar(Distance(f, at))
    BY <2>1
  <2>4. Jumps(g, k, at, n)
    BY <1>1, <2>1, <2>2, <2>3, JumpsGrow
  <2>5. ~TooFar(Distance(g, at))
    <3>1. Count(g) = Count(f)
      BY <2>2, WithCodeTyped DEF Rewritten, Count
    <3> QED BY <2>3, <3>1 DEF Distance
  <2>6. PICK e : e = patchJump(g, at)
    OBVIOUS
  <2>7. Ends(e, k, n) /\ Grows(g, k, e, k)
    BY <2>2, <2>4, <2>5, <2>6, Patches
  <2>8. e \in Rewritten(f)
    BY <2>1, <2>2, <2>3, <2>6, PatchRewrites
  <2>9. Grows(f, k, e, k)
    <3>1. e \in CompilersTyped
      BY <2>8 DEF Rewritten
    <3> QED BY <1>1, <2>2, <2>7, <3>1, GrowsOn
  <2> QED BY <2>1, <2>6, <2>7, <2>8, <2>9 DEF PatchedAt
<1>4. p \in PatchedAt(f, k, n)
  <2>1. PICK S : S = PatchedAt(f, k, n)
    OBVIOUS
  <2>2. f \in S /\ \A i \in DOMAIN exits : \A g \in S : patchJump(g, exits[i]) \in S
    BY <1>2, <1>3, <2>1
  <2>3. Patched(f, exits)[Len(exits)] \in S
    BY <2>2, PatchedIn
  <2> QED BY <2>1, <2>3
<1> QED BY <1>4 DEF PatchedAt, Rewritten

(* The loops but the last. *)
LEMMA LoopsCut ==
  ASSUME NEW r \in Seq(Loops), NEW n \in Nat, n = Len(r), n > 0, NEW s, s = SubSeq(r, 1, n - 1)
  PROVE  s \in Seq(Loops) /\ Len(s) = n - 1 /\ \A i \in 1 .. n - 1 : s[i] = r[i]
<1>1. PICK m \in Nat : m = n - 1
  OBVIOUS
<1>2. 1 \in 1 .. Len(r) + 1 /\ m \in 1 - 1 .. Len(r) /\ s = SubSeq(r, 1, m)
  BY <1>1
<1>3. s \in Seq(Loops) /\ Len(s) = (IF 1 <= m THEN m - 1 + 1 ELSE 0) /\ \A i \in 1 .. m - 1 + 1 : s[i] = r[1 + i - 1]
  BY <1>2, SubSeqProperties
<1> QED BY <1>1, <1>3

LEMMA LoopLeft ==
  ASSUME NEW f \in CompilersTyped, NEW h, NEW t \in Frames, Looping(f, h, t), t.loops > 0,
         NEW u, Leaving(t, u, t.loops - 1), NEW s, s = SubSeq(f.loops, 1, Len(f.loops) - 1), NEW e, e = [f EXCEPT !.loops = s]
  PROVE  s \in Seq(Loops) /\ e \in CompilersTyped /\ Looping(e, h, u)
<1>1. PICK r : r = f.loops /\ r \in Seq(Loops)
  BY DEF CompilersTyped
<1>2. PICK n \in Nat : n = Len(r) /\ n = t.loops /\ n > 0
  BY <1>1, FrameTyped DEF Looping
<1>3. s \in Seq(Loops) /\ Len(s) = n - 1 /\ \A i \in 1 .. n - 1 : s[i] = r[i]
  BY <1>1, <1>2, LoopsCut
<1>4. e \in CompilersTyped /\ e.loops = s /\ e.code = f.code
  BY <1>3 DEF CompilersTyped
<1>5. \A at, m : Jumps(f, h, at, m) => Jumps(e, h, at, m)
  BY <1>4 DEF Jumps, Count
<1>6. u.loops = n - 1 /\ \A i \in 1 .. n - 1 : u.floors[i] = t.floors[i]
  BY <1>2 DEF Leaving
<1>7. u.loops > 0 => u.floors[u.loops] <= Values(u)
  <2>1. Values(u) = u.size
    BY DEF Leaving, Values
  <2> QED BY <1>2, <1>6, <2>1 DEF Leaving
<1>8. ASSUME NEW i \in 1 .. n - 1
      PROVE  /\ s[i].enterParamCount = u.floors[i] /\ Starts(h, s[i].start, u.floors[i])
             /\ \A j \in 1 .. Len(s[i].breakJumps) : Jumps(e, h, s[i].breakJumps[j], u.floors[i])
  <2>1. s[i] = r[i] /\ u.floors[i] = t.floors[i] /\ i \in 1 .. t.loops
    BY <1>2, <1>3, <1>6
  <2>2. /\ r[i].enterParamCount = t.floors[i] /\ Starts(h, r[i].start, t.floors[i])
        /\ \A j \in 1 .. Len(r[i].breakJumps) : Jumps(f, h, r[i].breakJumps[j], t.floors[i])
    BY <1>1, <2>1 DEF Looping
  <2> QED BY <1>5, <2>1, <2>2
<1> QED BY <1>3, <1>4, <1>6, <1>7, <1>8 DEF Looping

LEMMA EndsAs ==
  ASSUME NEW f, NEW e, e.code = f.code, e.arity = f.arity, e.type = f.type, e.upvalues = f.upvalues, NEW h
  PROVE  /\ \A n : Ends(f, h, n) => Ends(e, h, n)
         /\ \A p, k : Grows(e, h, p, k) => Grows(f, h, p, k)
<1>1. Count(f) = Count(e)
  BY DEF Count
<1>2. \A p : Maps(f, h, p) <=> Maps(e, h, p)
  BY DEF Maps, Dead, Executes
<1>3. \A n : Ends(f, h, n) => Ends(e, h, n)
  BY <1>1, <1>2 DEF Ends, Mapped
<1>4. \A p, k : Grows(e, h, p, k) => Grows(f, h, p, k)
  BY <1>1 DEF Grows
<1> QED BY <1>3, <1>4

LEMMA FitsAs ==
  ASSUME NEW f, LocalsOK(f), NEW e, e.locals = f.locals, e.scopeDepth = f.scopeDepth, NEW t, Fitting(f, t), t.pending = "none"
  PROVE  LocalsOK(e) /\ Fitting(e, t)
<1>1. Fitting(e, t)
  BY DEF Fitting, Last
<1> QED BY <1>1 DEF LocalsOK

(* The jumps out of the innermost loop. *)
Exits(f, exit) ==
  LET breaks == f.loops[Len(f.loops)].breakJumps IN IF exit = NoJump THEN breaks ELSE <<exit>> \o breaks

LEMMA ExitsJump ==
  ASSUME NEW f \in CompilersTyped, NEW h, NEW t \in Frames, Looping(f, h, t), t.loops > 0, NEW x, x = t.floors[t.loops],
         NEW exit \in Int, exit # NoJump => Jumps(f, h, exit, x), NEW exits, exits = Exits(f, exit)
  PROVE  exits \in Seq(Int) /\ \A i \in DOMAIN exits : Jumps(f, h, exits[i], x)
<1>1. PICK r : r = f.loops /\ r \in Seq(Loops)
  BY DEF CompilersTyped
<1>2. PICK n \in Nat : n = Len(r) /\ n = t.loops /\ n > 0
  BY <1>1, FrameTyped DEF Looping
<1>3. n \in 1 .. t.loops /\ n \in 1 .. Len(r) /\ r[n] \in Loops
  <2>1. n \in 1 .. Len(r)
    BY <1>2
  <2> QED BY <1>1, <1>2, <2>1, ElementOfSeq
<1>4. PICK b : b = r[n].breakJumps /\ b \in Seq(Int)
  BY <1>3 DEF Loops
<1>5. PICK m \in Nat : m = Len(b) /\ DOMAIN b = 1 .. m
  BY <1>4, LenProperties
<1>6. \A j \in 1 .. m : Jumps(f, h, b[j], x)
  BY <1>1, <1>2, <1>3, <1>4, <1>5 DEF Looping
<1>7. CASE exit = NoJump
  <2>1. exits = b
    BY <1>1, <1>2, <1>4, <1>7 DEF Exits
  <2> QED BY <1>4, <1>5, <1>6, <2>1
<1>8. CASE exit # NoJump
  <2>1. PICK a : a = <<exit>>
    OBVIOUS
  <2>0. a \in Seq(Int) /\ Len(a) = 1 /\ a[1] = exit
    BY <2>1
  <2>2. exits = a \o b
    BY <1>1, <1>2, <1>4, <1>8, <2>1 DEF Exits
  <2>7. /\ exits \in Seq(Int) /\ Len(exits) = Len(a) + Len(b)
        /\ \A i \in 1 .. Len(a) + Len(b) : exits[i] = IF i <= Len(a) THEN a[i] ELSE b[i - Len(a)]
    <3>1. a \in Seq(Int) /\ b \in Seq(Int)
      BY <1>4, <2>0
    <3> QED BY <2>2, <3>1, ConcatProperties
  <2>3. exits \in Seq(Int) /\ Len(exits) = 1 + m
    BY <1>5, <2>0, <2>7
  <2>4. \A i \in 1 .. 1 + m : exits[i] = IF i <= 1 THEN a[i] ELSE b[i - 1]
    BY <1>5, <2>0, <2>7
  <2>5. DOMAIN exits = 1 .. 1 + m
    BY <2>3, LenProperties
  <2>6. ASSUME NEW i \in 1 .. 1 + m PROVE Jumps(f, h, exits[i], x)
    <3>1. CASE i = 1
      <4>1. exits[i] = exit
        BY <1>5, <2>0, <2>4, <3>1
      <4> QED BY <1>8, <4>1
    <3>2. CASE i # 1
      <4>1. i - 1 \in 1 .. m /\ exits[i] = b[i - 1]
        BY <1>5, <2>4, <3>2
      <4> QED BY <1>6, <4>1
    <3> QED BY <3>1, <3>2
  <2> QED BY <2>3, <2>5, <2>6
<1> QED BY <1>7, <1>8

LEMMA LoopEnds ==
  ASSUME NEW f \in CompilersTyped, LocalsOK(f), NEW h, NEW t \in Frames, Holds(f, h, t), t.pending = "none", t.temps = 0,
         t.size > 0, t.loops > 0, t.floors[t.loops] = t.size, NEW u \in Frames, Leaving(t, u, t.loops - 1),
         NEW at \in Int, Starts(h, at, t.size), ~TooFar(LoopDistance(f, at)),
         NEW exit \in Int, exit # NoJump => Jumps(f, h, exit, t.size), NEW exits, exits = Exits(f, exit),
         NEW s, s = SubSeq(f.loops, 1, Len(f.loops) - 1), NEW e, e = [f EXCEPT !.loops = s], NEW m, m = emitLoop(e, at),
         \A i \in DOMAIN exits : ~TooFar(Distance(m, exits[i])),
         NEW p, p = Patched(m, exits)[Len(exits)], NEW g, g = endScope(p)
  PROVE  g \in CompilersTyped /\ \E k : Holds(g, k, u) /\ Grows(f, h, g, k)
<1>1. Fitting(f, t) /\ Looping(f, h, t) /\ Ends(f, h, t.size) /\ Mapped(f, h)
  <2>1. Fitting(f, t) /\ Looping(f, h, t) /\ Ends(f, h, Height(t))
    BY DEF Holds
  <2>2. Height(t) = t.size
    BY FrameTyped DEF Height, Values
  <2> QED BY <2>1, <2>2 DEF Ends
<1>2. s \in Seq(Loops) /\ e \in CompilersTyped /\ Looping(e, h, u)
  BY <1>1, LoopLeft
<1>3. /\ e.loops = s /\ e.code = f.code /\ e.locals = f.locals /\ e.scopeDepth = f.scopeDepth /\ e.arity = f.arity
      /\ e.type = f.type /\ e.upvalues = f.upvalues /\ Count(e) = Count(f)
  BY <1>2 DEF CompilersTyped, Count
<1>4. Ends(e, h, t.size) /\ Fitting(e, t)
  <2>1. Ends(e, h, t.size)
    BY <1>1, <1>3, EndsAs
  <2>2. Fitting(e, t)
    BY <1>1, <1>2, EndsLike
  <2> QED BY <2>1, <2>2
<1>5. PICK x \in Nat : x = t.size /\ x >= 1
  BY FrameTyped
<1>6. ~TooFar(LoopDistance(e, at))
  BY <1>3 DEF LoopDistance
<1>7. (\E k : Ends(m, k, x) /\ Grows(e, h, m, k)) /\ \E c \in Codes : m = WithCode(e, c)
  <2>1. Ends(e, h, x) /\ Starts(h, at, x)
    BY <1>4, <1>5
  <2>2. \E k : Ends(m, k, x) /\ Grows(e, h, m, k)
    BY <1>2, <1>5, <1>6, <2>1, EmitsLoop
  <2>3. \E c \in Codes : m = WithCode(e, c)
    BY <1>2, <1>5, <1>6, <2>1, EmitsLoop
  <2> QED BY <2>2, <2>3
<1>8. PICK k : Ends(m, k, x) /\ Grows(e, h, m, k)
  BY <1>7
<1>9. m \in CompilersTyped /\ Count(e) \in Nat /\ Count(m) \in Nat
  BY <1>2, <1>7, WithCodeTyped, Counts
<1>10. exits \in Seq(Int) /\ \A i \in DOMAIN exits : Jumps(f, h, exits[i], x)
  <2>1. x = t.floors[t.loops] /\ (exit # NoJump => Jumps(f, h, exit, x))
    BY <1>5
  <2> QED BY <1>1, <2>1, ExitsJump
<1>11. \A i \in DOMAIN exits : Jumps(m, k, exits[i], x)
  <2>1. TAKE i \in DOMAIN exits
  <2>2. PICK j \in Int : j = exits[i]
    BY <1>10, ElementOfSeq, LenProperties
  <2>3. Jumps(f, h, j, x)
    BY <1>10, <2>2
  <2>4. Jumps(e, h, j, x)
    BY <1>3, <2>3 DEF Jumps
  <2>5. Jumps(m, k, j, x)
    BY <1>8, <1>9, <2>4, JumpsGrow
  <2> QED BY <2>2, <2>5
<1>12. /\ p \in CompilersTyped /\ Ends(p, k, x) /\ Grows(m, k, p, k) /\ \E c \in Codes : p = WithCode(m, c)
  <2>1. \A i \in DOMAIN exits : Jumps(m, k, exits[i], x) /\ ~TooFar(Distance(m, exits[i]))
    BY <1>11
  <2>2. p \in CompilersTyped
    BY <1>8, <1>9, <1>10, <2>1, PatchesAll
  <2>3. Ends(p, k, x) /\ Grows(m, k, p, k)
    BY <1>8, <1>9, <1>10, <2>1, PatchesAll
  <2>4. \E c \in Codes : p = WithCode(m, c)
    <3>1. p \in Rewritten(m)
      BY <1>9, <1>10, PatchedTyped
    <3> QED BY <3>1 DEF Rewritten
  <2> QED BY <2>2, <2>3, <2>4
<1>13. PICK c \in Codes : p = WithCode(e, c)
  BY <1>2, <1>7, <1>12, WithCodeTyped
<1>14. Grows(e, h, p, k)
  <2>1. Mapped(e, h)
    BY <1>4 DEF Ends
  <2> QED BY <1>2, <1>8, <1>9, <1>12, <2>1, GrowsOn
<1>15. Alike(e, p)
  BY <1>2, <1>13, AlikeTyped
<1>16. LocalsOK(p) /\ Fitting(p, t)
  <2>1. p.locals = f.locals /\ p.scopeDepth = f.scopeDepth
    BY <1>3, <1>15 DEF Alike
  <2> QED BY <1>1, <2>1, FitsAs
<1>17. u.loops = t.loops - 1 /\ u.loops \in Nat
  BY FrameTyped DEF Leaving
<1>18. Looping(p, k, u)
  BY <1>2, <1>14, <1>15, <1>17, LoopingKept
<1>19. Leaving(t, u, u.loops) /\ Ends(p, k, t.size)
  BY <1>5, <1>12, <1>17
<1>20. g \in CompilersTyped /\ \E l : Holds(g, l, u) /\ Grows(p, k, g, l)
  BY <1>12, <1>16, <1>18, <1>19, EndHolds
<1>21. PICK l : Holds(g, l, u) /\ Grows(p, k, g, l)
  BY <1>20
<1>22. Grows(f, h, p, k)
  BY <1>3, <1>14, EndsAs
<1>23. Grows(f, h, g, l)
  BY <1>1, <1>12, <1>20, <1>21, <1>22, GrowsOn
<1> QED BY <1>20, <1>21, <1>23

LEMMA forEndsRises == ASSUME CodegenOK, CodegenOK', HeightOK, forEnds PROVE HeightOK'
<1>1. CASE fail
  BY <1>1 DEF fail, HeightOK
<1>2. CASE ~fail
  <2>1. PICK f, at, exit : f = Current /\ at = First.at /\ exit = First.exit
    OBVIOUS
  <2>2. PICK exits, s : exits = Exits(f, exit) /\ s = SubSeq(f.loops, 1, Len(f.loops) - 1)
    OBVIOUS
  <2>3. PICK e : e = [f EXCEPT !.loops = s]
    OBVIOUS
  <2>4. PICK m : m = emitLoop(e, at)
    OBVIOUS
  <2>5. PICK p : p = Patched(m, exits)[Len(exits)]
    OBVIOUS
  <2>6. PICK g : g = endScope(p)
    OBVIOUS
  <2>7. /\ ~TooFar(LoopDistance(f, at)) /\ \A i \in DOMAIN exits : ~TooFar(Distance(m, exits[i]))
        /\ Now(g) /\ Continue(<<>>) /\ Steady
    BY <1>2, <2>1, <2>2, <2>3, <2>4, <2>5, <2>6, forEndsIs DEF Exits
  <2>8. status = "compiling" /\ status' = "compiling" /\ First.do = "forEnds"
    BY <2>7 DEF forEnds, Doing, Steady
  <2>9. PICK h, t, u : AtFirst(h, t, u)
    BY <2>8, Arriving DEF Terminators
  <2>10. /\ First \in Items /\ f \in CompilersTyped /\ f \in Sound /\ t \in Frames /\ u \in Frames /\ Moves(f, h, t, First, u)
         /\ Holds(f, h, t) /\ t.size > 0
    BY <2>1, <2>8, <2>9, Meeting, FirstTyped
  <2>11. /\ t.pending = "none" /\ t.temps = 0 /\ t.loops > 0 /\ t.floors[t.loops] = t.size /\ Leaving(t, u, t.loops - 1)
         /\ Starts(h, at, t.size) /\ (exit # NoJump => Jumps(f, h, exit, t.size))
    <3>1. First.do \in ForTasks \cup {"endScope", "forEnds"}
      BY <2>8
    <3> QED BY <2>1, <2>8, <2>10, <3>1, MovesLeaving
  <2>12. at \in Int /\ exit \in Int /\ LocalsOK(f)
    BY <2>1, <2>10 DEF Items, ItemRecords, Sound
  <2>13. g \in CompilersTyped /\ \E k : Holds(g, k, u) /\ Grows(f, h, g, k)
    BY <2>2, <2>3, <2>4, <2>5, <2>6, <2>7, <2>10, <2>11, <2>12, LoopEnds
  <2>14. PICK k : Holds(g, k, u) /\ Grows(Current, h, g, k)
    BY <2>1, <2>13
  <2>15. PICK items : items = <<>> /\ items \in Seq(Items)
    BY EmptySeq
  <2>16. Steps(g, k, items, u, u) /\ Settles(u, u)
    BY <2>10, <2>15, Steps0, Settled
  <2>17. Tail(todo) \in Seq(Items) /\ Meets(h, t, Tail(todo), u)
    BY <2>8, <2>9, Meeting DEF AtFirst
  <2>18. todo' = items \o Tail(todo) /\ compilers' = [compilers EXCEPT ![Len(compilers)] = g]
    BY <2>7, <2>15 DEF Continue, Now
  <2> QED BY <2>8, <2>10, <2>14, <2>15, <2>16, <2>17, <2>18, Rises
<1> QED BY <1>1, <1>2

----------------------------------------------------------------------------
(* Functions. *)

(* A function as it begins. *)
Beginning(depth, pending) ==
  [size |-> 1, pending |-> pending, temps |-> 0, depth |-> depth, sizes |-> [i \in Nat |-> 1],
   loops |-> 0, floors |-> [i \in Nat |-> 1]]
Empty == [p \in {1} |-> 1]

LEMMA BeginningIs ==
  ASSUME NEW depth \in Nat, NEW pending \in {"none", "parameters"}, NEW v, v = Beginning(depth, pending)
  PROVE  /\ v \in Frames /\ v.size = 1 /\ v.pending = pending /\ v.temps = 0 /\ v.depth = depth /\ v.loops = 0
         /\ Values(v) = 1 /\ Height(v) = 1 /\ \A i \in Nat : v.sizes[i] = 1
<1>1. PICK r : r = [i \in Nat |-> 1]
  OBVIOUS
<1>2. r \in [Nat -> Pos] /\ \A i \in Nat : r[i] = 1
  BY <1>1 DEF Pos
<1>3. v = [size |-> 1, pending |-> pending, temps |-> 0, depth |-> depth, sizes |-> r, loops |-> 0, floors |-> r]
  BY <1>1 DEF Beginning
<1>4. v \in Frames
  BY <1>2, <1>3 DEF Frames
<1> QED BY <1>2, <1>3, <1>4 DEF Values, Height

LEMMA NewHolds ==
  ASSUME NEW type \in FunctionTypes, NEW depth \in {0, 1}, NEW pending \in {"none", "parameters"},
         pending = "parameters" => depth = 1, NEW f, f = NewCompiler(type), NEW g, g = (IF depth = 0 THEN f ELSE beginScope(f)),
         NEW v, v = Beginning(depth, pending)
  PROVE  v \in Frames /\ Holds(g, Empty, v)
<1>1. PICK x : x = IF type = "function" THEN "" ELSE "this"
  OBVIOUS
<1>2. PICK u : u = [name |-> x, depth |-> 0, isCaptured |-> FALSE]
  OBVIOUS
<1>3. PICK s, c : s = <<u>> /\ c = <<>>
  OBVIOUS
<1>4. Len(s) = 1 /\ s[1] = u /\ u.depth = 0 /\ Len(c) = 0
  BY <1>2, <1>3
<1>5. f = [type |-> type, code |-> c, arity |-> 0, scopeDepth |-> 0, loops |-> c, upvalues |-> c,
           objectNestingDepth |-> 0, locals |-> s]
  BY <1>1, <1>2, <1>3 DEF NewCompiler
<1>6. PICK d \in Nat : d = depth
  OBVIOUS
<1>7. g.locals = s /\ g.code = c /\ g.arity = 0 /\ g.loops = c /\ g.scopeDepth = d
  <2>1. CASE depth = 0
    BY <1>5, <1>6, <2>1
  <2>2. CASE depth = 1
    BY <1>5, <1>6, <2>2 DEF beginScope
  <2> QED BY <2>1, <2>2
<1>8. /\ v \in Frames /\ v.size = 1 /\ v.pending = pending /\ v.temps = 0 /\ v.depth = d /\ v.loops = 0
      /\ Values(v) = 1 /\ Height(v) = 1 /\ \A i \in Nat : v.sizes[i] = 1
  BY <1>6, BeginningIs
<1>9. Fitting(g, v)
  <2>1. Last(g).depth = 0
    BY <1>4, <1>7 DEF Last
  <2>2. ASSUME NEW e \in 1 .. d
        PROVE  v.sizes[e] <= v.size /\ \A i \in 1 .. v.size : i <= v.sizes[e] <=> g.locals[i].depth \in 0 .. e - 1
    <3>1. e = 1 /\ v.sizes[e] = 1
      BY <1>6, <1>8
    <3>2. \A i \in 1 .. v.size : i = 1 /\ g.locals[i].depth = 0
      BY <1>4, <1>7, <1>8
    <3> QED BY <1>8, <3>1, <3>2
  <2>3. v.pending # "variable" /\ (v.pending = "parameters" => g.code = <<>> /\ g.loops = <<>> /\ g.scopeDepth = 1)
    BY <1>3, <1>6, <1>7, <1>8
  <2>4. v.size = Len(g.locals) /\ Values(v) > 0 /\ v.depth = g.scopeDepth
    BY <1>4, <1>7, <1>8
  <2>5. v.pending = "variable" <=> Last(g).depth = -1
    BY <2>1, <2>3
  <2>6. \A e \in 1 .. v.depth : v.sizes[e] <= v.size /\ \A i \in 1 .. v.size : i <= v.sizes[e] <=> g.locals[i].depth \in 0 .. e - 1
    BY <1>8, <2>2
  <2> QED BY <2>3, <2>4, <2>5, <2>6 DEF Fitting
<1>10. Looping(g, Empty, v)
  BY <1>4, <1>7, <1>8 DEF Looping
<1>11. Ends(g, Empty, 1)
  <2>1. Count(g) = 0
    BY <1>4, <1>7 DEF Count
  <2>2. DOMAIN Empty = {1} /\ Empty[1] = 1
    BY DEF Empty
  <2>3. Mapped(g, Empty)
    BY <1>7, <2>1, <2>2 DEF Mapped
  <2> QED BY <2>1, <2>2, <2>3 DEF Ends
<1> QED BY <1>8, <1>9, <1>10, <1>11 DEF Holds

(* A frame on top of others. *)
Above(a, t, v) == [level |-> a.level + 1, frames |-> [a.frames EXCEPT ![a.level] = t, ![a.level + 1] = v]]

LEMMA AboveIs ==
  ASSUME NEW a \in Stacks, NEW t \in Frames, NEW v \in Frames, NEW n, n = a.level, NEW b, b = Above(a, t, v)
  PROVE  /\ b \in Stacks /\ b.level = n + 1 /\ n \in Nat /\ b.frames[n + 1] = v /\ b.frames[n] = t
         /\ \A l \in 1 .. n - 1 : b.frames[l] = a.frames[l]
<1>1. n \in Nat /\ a.frames \in [Nat -> Frames]
  BY DEF Stacks
<1>2. PICK m \in Nat : m = n + 1
  BY <1>1
<1>3. PICK r : r = [a.frames EXCEPT ![n] = t, ![m] = v]
  OBVIOUS
<1>4. r \in [Nat -> Frames] /\ r[m] = v /\ r[n] = t /\ \A l \in 1 .. n - 1 : r[l] = a.frames[l]
  BY <1>1, <1>2, <1>3
<1>5. b = [level |-> m, frames |-> r]
  BY <1>2, <1>3 DEF Above
<1> QED BY <1>1, <1>2, <1>4, <1>5 DEF Stacks

LEMMA AboveWith ==
  ASSUME NEW a \in Stacks, NEW t \in Frames, NEW v \in Frames, NEW w \in Frames
  PROVE  [Above(a, t, v) EXCEPT !.frames[a.level + 1] = w] = Above(a, t, w)
<1>1. a.level \in Nat /\ a.frames \in [Nat -> Frames]
  BY DEF Stacks
<1>2. PICK n, m \in Nat : n = a.level /\ m = a.level + 1
  BY <1>1
<1>3. PICK r, q : r = [a.frames EXCEPT ![n] = t, ![m] = v] /\ q = [a.frames EXCEPT ![n] = t, ![m] = w]
  OBVIOUS
<1>4. [r EXCEPT ![m] = w] = q
  <2>1. r \in [Nat -> Frames] /\ q \in [Nat -> Frames]
    BY <1>1, <1>2, <1>3
  <2>2. \A l \in Nat : q[l] = IF l = m THEN w ELSE r[l]
    BY <1>1, <1>2, <1>3
  <2> QED BY <2>1, <2>2
<1>5. Above(a, t, v) = [level |-> m, frames |-> r] /\ Above(a, t, w) = [level |-> m, frames |-> q]
  BY <1>2, <1>3 DEF Above
<1>6. [[level |-> m, frames |-> r] EXCEPT !.frames[m] = w] = [level |-> m, frames |-> [r EXCEPT ![m] = w]]
  OBVIOUS
<1> QED BY <1>2, <1>4, <1>5, <1>6

LEMMA ThreeFirst ==
  ASSUME NEW x \in Items, NEW y \in Items, NEW z \in Items, NEW s \in Seq(Items)
  PROVE  <<x, y, z>> \o s = <<x>> \o (<<y>> \o (<<z>> \o s))
<1>1. PICK a, b, c : a = <<x>> /\ b = <<y>> /\ c = <<z>>
  OBVIOUS
<1>2. a \in Seq(Items) /\ b \in Seq(Items) /\ c \in Seq(Items)
  BY <1>1
<1>3. (a \o b) \o c = <<x, y, z>> /\ a \o b \in Seq(Items) /\ c \o s \in Seq(Items)
  BY <1>1, <1>2, Pair, ConcatProperties
<1>4. ((a \o b) \o c) \o s = (a \o b) \o (c \o s)
  <2>1. PICK ab \in Seq(Items) : ab = a \o b
    BY <1>3
  <2>2. (ab \o c) \o s = ab \o (c \o s)
    BY <1>2, ConcatAssociative
  <2> QED BY <2>1, <2>2
<1>5. (a \o b) \o (c \o s) = a \o (b \o (c \o s))
  <2>1. PICK cs \in Seq(Items) : cs = c \o s
    BY <1>3
  <2>2. (a \o b) \o cs = a \o (b \o cs)
    BY <1>2, ConcatAssociative
  <2> QED BY <2>1, <2>2
<1> QED BY <1>1, <1>3, <1>4, <1>5

(* The frame below a function, which will have one value more. *)
LEMMA Lowered ==
  ASSUME NEW t \in Frames, NEW u \in Frames, NEW m \in Nat, Becomes(t, u, t.size, t.pending, m + 1), NEW r, r = [u EXCEPT !.temps = m]
  PROVE  r \in Frames /\ [r EXCEPT !.temps = @ + 1] = u /\ Becomes(t, r, t.size, t.pending, m)
<1>1. u = [size |-> u.size, pending |-> u.pending, temps |-> m + 1, depth |-> u.depth, sizes |-> u.sizes,
           loops |-> u.loops, floors |-> u.floors]
  BY DEF Frames, Becomes
<1>2. r = [size |-> u.size, pending |-> u.pending, temps |-> m, depth |-> u.depth, sizes |-> u.sizes,
           loops |-> u.loops, floors |-> u.floors]
  BY <1>1
<1>3. r \in Frames
  BY <1>2 DEF Frames
<1>4. [r EXCEPT !.temps = @ + 1] = u
  <2>1. PICK q : q = [r EXCEPT !.temps = @ + 1]
    OBVIOUS
  <2>2. q = [size |-> u.size, pending |-> u.pending, temps |-> m + 1, depth |-> u.depth, sizes |-> u.sizes,
             loops |-> u.loops, floors |-> u.floors]
    BY <1>2, <2>1
  <2> QED BY <1>1, <2>1, <2>2
<1>5. Becomes(t, r, t.size, t.pending, m)
  BY <1>2 DEF Becomes
<1> QED BY <1>3, <1>4, <1>5

LEMMA Blank ==
  ASSUME NEW v \in Frames
  PROVE  \E w \in Frames : Becomes(v, w, 0, "none", 0) /\ w.size = 0 /\ w.pending = "none" /\ w.temps = 0
<1>1. PICK p \in Pendings, o \in Nat : p = "none" /\ o = 0
  BY DEF Pendings
<1>2. PICK w : w = With(v, o, p, o)
  OBVIOUS
<1>3. w \in Frames /\ Becomes(v, w, o, p, o) /\ w.size = o /\ w.pending = p /\ w.temps = o
  BY <1>2, WithIs
<1> QED BY <1>1, <1>3

On(a, r, v, c) ==
  /\ c \in Stacks /\ c.level = a.level + 1 /\ c.frames[a.level + 1] = v /\ c.frames[a.level] = r
  /\ \A l \in 1 .. a.level - 1 : c.frames[l] = a.frames[l]

LEMMA AboveAll == \A a \in Stacks, r \in Frames, v \in Frames : On(a, r, v, Above(a, r, v))
<1>1. SUFFICES ASSUME NEW a \in Stacks, NEW r \in Frames, NEW v \in Frames PROVE On(a, r, v, Above(a, r, v))
  OBVIOUS
<1>2. PICK n, c : n = a.level /\ c = Above(a, r, v)
  OBVIOUS
<1>3. c \in Stacks /\ c.level = n + 1 /\ c.frames[n + 1] = v /\ c.frames[n] = r /\ \A l \in 1 .. n - 1 : c.frames[l] = a.frames[l]
  BY <1>2, AboveIs
<1> QED BY <1>2, <1>3 DEF On

(* The parse of a function, with its frame on top. *)
LEMMA FunctionWalks ==
  ASSUME NEW ds, NEW ks, NEW a \in Stacks, NEW b \in Stacks, NEW n, n = a.level, n = b.level, n > 0,
         \A l \in 1 .. n - 1 : b.frames[l] = a.frames[l],
         NEW r \in Frames, [r EXCEPT !.temps = @ + 1] = b.frames[n], NEW s \in Seq(Items), Walks(ds, ks, s, b),
         NEW v, v = Beginning(1, "parameters"), NEW c, c = Above(a, r, v),
         NEW x \in Items, x.do = "parameters", NEW y \in Items, y.do = "block", NEW z \in Items, z.do = "end"
  PROVE  Walks(ds, ks, <<x, y, z>> \o s, c)
<1>1. n \in Nat /\ n + 1 > 0
  BY DEF Stacks
<1>2. v \in Frames /\ v.size = 1 /\ v.pending = "parameters" /\ v.temps = 0
  BY BeginningIs
<1>5. PICK w \in Frames : Becomes(v, w, 0, "none", 0) /\ w.size = 0 /\ w.pending = "none" /\ w.temps = 0
  BY <1>2, Blank
<1>6. PICK d : d = Above(a, r, w)
  OBVIOUS
<1>7. /\ d \in Stacks /\ d.level = n + 1 /\ d.frames[n + 1] = w /\ d.frames[n] = r
      /\ \A l \in 1 .. n - 1 : d.frames[l] = a.frames[l]
  <2>1. On(a, r, w, d)
    BY <1>5, <1>6, AboveAll
  <2> QED BY <2>1 DEF On
<1>8. /\ c \in Stacks /\ c.level = n + 1 /\ c.frames[n + 1] = v /\ c.frames[n] = r
      /\ \A l \in 1 .. n - 1 : c.frames[l] = a.frames[l]
  <2>1. On(a, r, v, c)
    BY <1>2, AboveAll
  <2> QED BY <2>1 DEF On
<1>9. Leads(ds, ks, d, z, b)
  <2>1. \A l \in 1 .. (n + 1) - 1 : b.frames[l] = IF l = (n + 1) - 1 THEN [d.frames[l] EXCEPT !.temps = @ + 1] ELSE d.frames[l]
    <3>1. TAKE l \in 1 .. (n + 1) - 1
    <3>2. CASE l = n
      BY <1>1, <1>7, <3>2
    <3>3. CASE l # n
      <4>1. l \in 1 .. n - 1
        BY <1>1, <3>3
      <4> QED BY <1>1, <1>7, <3>3, <4>1
    <3> QED BY <3>2, <3>3
  <2>2. b.level = (n + 1) - 1
    BY <1>1
  <2>3. d.frames[n + 1].temps = 0 /\ d.frames[n + 1].pending = "none" /\ z.do \in Terminators
    BY <1>5, <1>7 DEF Terminators
  <2> QED BY <1>1, <1>7, <2>1, <2>2, <2>3 DEF Leads
<1>10. PICK s3 : s3 = <<z>> \o s
  OBVIOUS
<1>11. s3 \in Seq(Items) /\ Walks(ds, ks, s3, d)
  <2>1. <<z>> \in Seq(Items)
    OBVIOUS
  <2>2. s3 \in Seq(Items)
    BY <1>10, <2>1, ConcatProperties
  <2> QED BY <1>7, <1>9, <1>10, <2>2, LeadsFirst
<1>12. \A f, h : Moves(f, h, w, y, w)
  <2>1. Becomes(w, w, 0, "none", 0)
    BY <1>5 DEF Becomes
  <2>2. y.do \in Closing /\ y.do \in Wild
    BY DEF Closing, Wild
  <2> QED BY <1>5, <2>1, <2>2, MovesClosing
<1>13. Leads(ds, ks, d, y, d)
  BY <1>1, <1>7, <1>12 DEF Leads, Terminators
<1>14. PICK s2 : s2 = <<y>> \o s3
  OBVIOUS
<1>15. s2 \in Seq(Items) /\ Walks(ds, ks, s2, d)
  <2>1. <<y>> \in Seq(Items)
    OBVIOUS
  <2>2. s2 \in Seq(Items)
    BY <1>11, <1>14, <2>1, ConcatProperties
  <2> QED BY <1>7, <1>11, <1>13, <1>14, <2>2, LeadsFirst
<1>16. \A f, h : Moves(f, h, v, x, w)
  <2>1. Becomes(v, w, 0, "none", 0) /\ v.size > 0
    BY <1>2, <1>5
  <2> QED BY <1>2, <2>1, MovesParameters
<1>17. Leads(ds, ks, c, x, d)
  BY <1>1, <1>7, <1>8, <1>16 DEF Leads, Terminators
<1>18. Walks(ds, ks, <<x>> \o s2, c)
  BY <1>7, <1>8, <1>15, <1>17, LeadsFirst
<1> QED BY <1>10, <1>14, <1>18, ThreeFirst

LEMMA functionRises == ASSUME CodegenOK, CodegenOK', HeightOK, function PROVE HeightOK'
<1>1. status = "compiling" /\ First.do = "function"
  BY DEF function, Doing
<1>2. CASE Len(compilers) = FUNCTION_MAX_NESTING
  BY <1>2 DEF function, fail, HeightOK
<1>3. CASE Len(compilers) # FUNCTION_MAX_NESTING
  <2>1. PICK type \in FunctionTypes : type = First.name
    BY <1>1, Meeting DEF Items, Details, FunctionTypes
  <2>2. PICK g : g = beginScope(NewCompiler(type))
    OBVIOUS
  <2>3. PICK x, y, z : x = Item("parameters") /\ y = Item("block") /\ z = Item("end")
    OBVIOUS
  <2>4. status' = "compiling" /\ compilers' = Append(compilers, g) /\ Continue(<<x, y, z>>)
    BY <1>1, <1>3, <2>1, <2>2, <2>3 DEF function, Steady
  <2>5. x \in Items /\ x.do = "parameters" /\ y \in Items /\ y.do = "block" /\ z \in Items /\ z.do = "end"
    <3>1. "end" \in Bare
      BY DEF Bare, Tasks, Terminators
    <3>2. z \in Items /\ z.do = "end"
      BY <2>3, <3>1, ItemMade
    <3>3. "parameters" \in PlainTasks /\ "block" \in PlainTasks
      BY DEF PlainTasks
    <3> QED BY <2>3, <3>2, <3>3, PlainMade
  <2>6. PICK h, t, u : AtFirst(h, t, u)
    BY <1>1, Arriving DEF Terminators
  <2>7. PICK f, s : f = Current /\ s = Tail(todo)
    OBVIOUS
  <2>8. /\ First \in Items /\ f \in CompilersTyped /\ t \in Frames /\ u \in Frames /\ Moves(f, h, t, First, u)
        /\ Holds(f, h, t) /\ t.temps \in Nat /\ s \in Seq(Items) /\ Meets(h, t, s, u)
    BY <1>1, <2>6, <2>7, FirstTyped, Meeting DEF AtFirst
  <2>9. Becomes(t, u, t.size, t.pending, t.temps + 1)
    BY <1>1, <2>8, MovesFunction
  <2>10. PICK hs, a, b :
           /\ Carried(compilers, hs, a) /\ h = hs[a.level] /\ t = a.frames[a.level]
           /\ b \in Stacks /\ b.level = a.level /\ u = b.frames[a.level]
           /\ \A l \in 1 .. a.level - 1 : b.frames[l] = a.frames[l]
           /\ Walks(compilers, hs, s, b)
    BY <2>8 DEF Meets
  <2>11. PICK n, cs, ds : n = Len(compilers) /\ cs = compilers /\ ds = compilers'
    OBVIOUS
  <2>12. n \in Nat /\ n > 0 /\ a.level = n /\ a \in Stacks /\ cs \in Seq(Sound) /\ n = Len(cs)
    BY <2>10, <2>11, LenProperties DEF Carried, CodegenOK
  <2>13. ds \in Seq(Sound) /\ Len(ds) = n + 1 /\ ds[n + 1] = g /\ \A l \in 1 .. n : ds[l] = cs[l]
    <3>1. g \in Sound
      <4>1. PICK q \in Sound : q = NewCompiler(type)
        BY NewSound
      <4>2. Len(ds) = n + 1 /\ ds[n + 1] = g
        <5>1. ds = Append(cs, g)
          BY <2>4, <2>11
        <5> QED BY <2>12, <5>1, AppendProperties
      <4>3. ds \in Seq(Sound) /\ n + 1 \in 1 .. Len(ds)
        BY <2>11, <2>12, <4>2 DEF CodegenOK
      <4> QED BY <4>2, <4>3, ElementOfSeq
    <3>2. ds = Append(cs, g)
      BY <2>4, <2>11
    <3> QED BY <2>12, <3>1, <3>2, AppendProperties
  <2>14. PICK ks : ks = [l \in Nat |-> IF l = n + 1 THEN Empty ELSE hs[l]]
    OBVIOUS
  <2>15. ks[n + 1] = Empty /\ \A l \in 1 .. n : ks[l] = hs[l]
    BY <2>12, <2>14
  <2>16. Walks(ds, ks, s, b)
    <3>1. ASSUME NEW l \in 1 .. b.level
          PROVE  Grows(cs[l], hs[l], ds[l], ks[l]) /\ Count(cs[l]) \in Nat /\ Count(ds[l]) \in Nat
      <4>1. l \in 1 .. n /\ cs[l] \in CompilersTyped /\ ds[l] = cs[l] /\ ks[l] = hs[l]
        BY <2>10, <2>12, <2>13, <2>15, <3>1, LevelTyped
      <4> QED BY <4>1, Counts, GrowsSelf
    <3> QED BY <2>8, <2>10, <2>11, <3>1, WalksGrow
  <2>17. PICK m, r : m = t.temps /\ r = [u EXCEPT !.temps = m]
    OBVIOUS
  <2>18. r \in Frames /\ [r EXCEPT !.temps = @ + 1] = u /\ Becomes(t, r, t.size, t.pending, m)
    <3>1. m \in Nat /\ Becomes(t, u, t.size, t.pending, m + 1)
      BY <2>8, <2>9, <2>17
    <3> QED BY <2>8, <2>17, <3>1, Lowered
  <2>19. PICK v : v = Beginning(1, "parameters")
    OBVIOUS
  <2>20. v \in Frames /\ Holds(g, Empty, v)
    <3>1. PICK depth \in {0, 1}, pending \in {"none", "parameters"} : depth = 1 /\ pending = "parameters"
      OBVIOUS
    <3>2. PICK q : q = NewCompiler(type)
      OBVIOUS
    <3>3. g = (IF depth = 0 THEN q ELSE beginScope(q)) /\ v = Beginning(depth, pending)
      BY <2>2, <2>19, <3>1, <3>2
    <3> QED BY <3>1, <3>2, <3>3, NewHolds
  <2>21. PICK c : c = Above(a, r, v)
    OBVIOUS
  <2>22. Walks(ds, ks, <<x, y, z>> \o s, c)
    BY <2>5, <2>8, <2>10, <2>12, <2>16, <2>18, <2>19, <2>21, FunctionWalks
  <2>23. /\ c \in Stacks /\ c.level = n + 1 /\ c.frames[n + 1] = v /\ c.frames[n] = r
         /\ \A l \in 1 .. n - 1 : c.frames[l] = a.frames[l]
    BY <2>12, <2>18, <2>20, <2>21, AboveIs
  <2>24. ASSUME NEW l \in 1 .. n + 1 PROVE Holds(ds[l], ks[l], c.frames[l])
    <3>1. CASE l = n + 1
      <4>1. PICK o : o = n + 1 /\ l = o
        BY <3>1
      <4> QED BY <2>13, <2>15, <2>20, <2>23, <4>1
    <3>2. CASE l = n
      <4>1. n \in 1 .. n
        BY <2>12
      <4>2. ds[n] = f /\ ks[n] = h /\ c.frames[n] = r
        BY <2>7, <2>10, <2>11, <2>12, <2>13, <2>15, <2>23, <4>1 DEF Current
      <4>3. Holds(f, h, r)
        BY <2>8, <2>17, <2>18, HoldsLike
      <4> QED BY <3>2, <4>2, <4>3
    <3>3. CASE l \in 1 .. n - 1
      <4>1. l \in 1 .. n /\ l \in 1 .. a.level
        BY <2>12, <3>3
      <4>2. Holds(cs[l], hs[l], a.frames[l])
        BY <2>10, <2>11, <4>1 DEF Carried
      <4> QED BY <2>13, <2>15, <2>23, <3>3, <4>1, <4>2
    <3>4. l = n + 1 \/ l = n \/ l \in 1 .. n - 1
      BY <2>12
    <3> QED BY <3>1, <3>2, <3>3, <3>4
  <2>25. Carried(ds, ks, c)
    BY <2>12, <2>13, <2>23, <2>24 DEF Carried
  <2>26. todo' = <<x, y, z>> \o s
    BY <2>4, <2>7 DEF Continue
  <2> QED BY <2>11, <2>22, <2>25, <2>26 DEF HeightOK
<1> QED BY <1>2, <1>3

LEMMA TodoLeft ==
  ASSUME CodegenOK', status' = "compiling"
  PROVE  todo' # <<>> /\ todo' \in Seq(Items) /\ compilers' \in Seq(Sound)
<1>1. PICK cs, s, cl : cs = compilers' /\ s = todo' /\ cl = classes'
  OBVIOUS
<1>2. cs \in Seq(Sound) /\ s \in Seq(Items) /\ InProgress(cs, s, cl)
  BY <1>1 DEF CodegenOK
<1>3. PICK a \in Situations : a.level > 0 /\ Runs(cs, s, a)
  BY <1>2 DEF InProgress
<1>4. s # <<>>
  BY <1>2, <1>3, RunsFirst
<1> QED BY <1>1, <1>2, <1>4

(* Nothing is left on a stack of parameters but the parameters. *)
LEMMA NoParameters ==
  ASSUME NEW cs, NEW hs, NEW s \in Seq(Items), s # <<>>, NEW b, Walks(cs, hs, s, b), NEW u, u = b.frames[b.level], u.temps # 0
  PROVE  u.pending # "parameters"
<1>1. PICK c \in Stacks : Leads(cs, hs, b, s[1], c)
  BY WalksFirst
<1>2. PICK x : x = s[1]
  OBVIOUS
<1>3. x.do \notin Terminators
  BY <1>1, <1>2 DEF Leads
<1>4. Moves(cs[b.level], hs[b.level], u, x, c.frames[b.level])
  BY <1>1, <1>2, <1>3 DEF Leads
<1>5. u.pending = "parameters" => x.do = "parameters" /\ u.temps = 0
  BY <1>4 DEF Moves
<1> QED BY <1>5

LEMMA Risen ==
  ASSUME NEW t \in Frames, NEW u, u = [t EXCEPT !.temps = @ + 1]
  PROVE  u \in Frames /\ Becomes(t, u, t.size, t.pending, t.temps + 1) /\ u.temps = t.temps + 1 /\ u.temps # 0 /\ u.pending = t.pending
<1>1. t.temps \in Nat
  BY FrameTyped
<1>2. PICK n \in Nat : n = t.temps + 1 /\ n # 0
  BY <1>1
<1>3. u = [t EXCEPT !.temps = n]
  BY <1>2
<1>4. /\ u \in Frames /\ u.temps = n /\ u.size = t.size /\ u.pending = t.pending /\ u.depth = t.depth /\ u.loops = t.loops
      /\ u.sizes = t.sizes /\ u.floors = t.floors
  BY <1>3 DEF Frames
<1> QED BY <1>2, <1>4 DEF Becomes

(* What the closure captures is on the stack. *)
LEMMA CapturesBelow ==
  ASSUME NEW cs \in Seq(Sound), Linked(cs), NEW n \in Nat, n > 0, Len(cs) = n + 1, NEW us, us = cs[n + 1].upvalues,
         NEW f, f = cs[n], NEW t \in Frames, Fitting(f, t)
  PROVE  /\ us \in Seq(Upvalues) /\ Len(us) <= UPVALUE_MAX /\ Height(t) \in Nat /\ Height(t) >= 1
         /\ \A i \in 1 .. Len(us) : us[i].isLocal => us[i].index <= Height(t)
<1>1. PICK m \in Nat : m = n + 1 /\ m \in 1 .. Len(cs) /\ m - 1 = n
  OBVIOUS
<1>2. cs[m] \in Sound
  BY <1>1, ElementOfSeq
<1>3. us \in Seq(Upvalues) /\ Len(us) <= UPVALUE_MAX
  BY <1>1, <1>2 DEF Sound, CompilersTyped
<1>4. /\ t.size \in Nat /\ t.temps \in Nat /\ Values(t) \in Int /\ Values(t) > 0 /\ t.size = Len(f.locals)
      /\ Values(t) >= t.size - 1 /\ Height(t) = Values(t) + t.temps
  BY FrameTyped DEF Fitting, Values, Height
<1>5. ASSUME NEW i \in 1 .. Len(us), us[i].isLocal PROVE us[i].index <= Height(t)
  <2>1. Refers(cs, m, us[i])
    BY <1>1 DEF Linked
  <2>2. us[i].index + 1 \in 1 .. Len(f.locals)
    BY <1>1, <1>5, <2>1 DEF Refers
  <2>3. us[i].index \in Nat
    BY <1>1, LevelTyped
  <2> QED BY <1>4, <2>2, <2>3
<1> QED BY <1>3, <1>4, <1>5

LEMMA functionEndsRises == ASSUME CodegenOK, CodegenOK', AccessOK, HeightOK, functionEnds PROVE HeightOK'
<1>1. status = "compiling" /\ status' = "compiling" /\ First.do = "end" /\ Len(compilers) > 1 /\ Continue(<<>>)
  BY DEF functionEnds, Doing, Same, Steady
<1>2. PICK hs, a : Carried(compilers, hs, a) /\ Walks(compilers, hs, todo, a)
  BY <1>1 DEF HeightOK
<1>3. PICK cs, ds, n : cs = compilers /\ ds = compilers' /\ n = Len(compilers) - 1
  OBVIOUS
<1>4. cs \in Seq(Sound) /\ n \in Nat /\ n > 0 /\ Len(cs) = n + 1 /\ a.level = n + 1 /\ a \in Stacks /\ Linked(cs)
  BY <1>1, <1>2, <1>3, LenProperties DEF CodegenOK, Carried, AccessOK
<1>5. todo \in Seq(Items) /\ todo # <<>>
  BY <1>1, Meeting DEF CodegenOK
<1>6. PICK s : s = Tail(todo)
  OBVIOUS
<1>7. PICK b \in Stacks : Leads(cs, hs, a, First, b) /\ Walks(cs, hs, s, b)
  BY <1>2, <1>3, <1>5, <1>6, WalksFirst DEF First
<1>8. s \in Seq(Items) /\ todo' = s /\ s # <<>> /\ ds \in Seq(Sound)
  BY <1>1, <1>3, <1>6, Meeting, NothingBefore, TodoLeft
<1>9. PICK t, u, h, f : t = a.frames[n] /\ u = b.frames[n] /\ h = hs[n] /\ f = cs[n]
  OBVIOUS
<1>10. b.level = n /\ u = [t EXCEPT !.temps = @ + 1] /\ \A l \in 1 .. n - 1 : b.frames[l] = a.frames[l]
  <2>1. First.do \in Terminators
    BY <1>1 DEF Terminators
  <2>2. PICK m \in Nat : m = a.level /\ m - 1 = n
    BY <1>4
  <2>3. b.level = m - 1 /\ \A l \in 1 .. m - 1 : b.frames[l] = IF l = m - 1 THEN [a.frames[l] EXCEPT !.temps = @ + 1] ELSE a.frames[l]
    BY <1>7, <2>1, <2>2 DEF Leads
  <2>4. \A l \in 1 .. n : b.frames[l] = IF l = n THEN [a.frames[l] EXCEPT !.temps = @ + 1] ELSE a.frames[l]
    BY <2>2, <2>3
  <2>5. n \in 1 .. n /\ \A l \in 1 .. n - 1 : l \in 1 .. n /\ l # n
    BY <1>4
  <2> QED BY <1>9, <2>2, <2>3, <2>4, <2>5
<1>11. t \in Frames /\ Holds(f, h, t) /\ f \in CompilersTyped
  <2>1. n \in 1 .. a.level /\ n \in 1 .. Len(cs)
    BY <1>4
  <2> QED BY <1>2, <1>3, <1>4, <1>9, <2>1, LevelTyped DEF Carried, Stacks
<1>12. u \in Frames /\ Becomes(t, u, t.size, t.pending, t.temps + 1) /\ u.temps # 0 /\ u.pending = t.pending
  BY <1>10, <1>11, Risen
<1>13. t.pending # "parameters"
  <2>1. u = b.frames[b.level]
    BY <1>9, <1>10
  <2> QED BY <1>7, <1>8, <1>12, <2>1, NoParameters
<1>14. PICK us, g : us = Current.upvalues /\ g = emit(f, closureCode(us))
  OBVIOUS
<1>15. PICK x \in Nat : /\ x = Height(t) /\ x >= 1 /\ us \in Seq(Upvalues) /\ Len(us) <= UPVALUE_MAX
                        /\ \A i \in 1 .. Len(us) : us[i].isLocal => us[i].index <= x
  <2>1. us = cs[n + 1].upvalues
    BY <1>3, <1>4, <1>14 DEF Current
  <2>2. Fitting(f, t)
    BY <1>11 DEF Holds
  <2> QED BY <1>4, <1>9, <1>11, <2>1, <2>2, CapturesBelow
<1>16. g \in CompilersTyped /\ \E k : Ends(g, k, x + 1) /\ Grows(f, h, g, k)
  <2>1. Ends(f, h, x)
    BY <1>11, <1>15 DEF Holds
  <2> QED BY <1>11, <1>14, <1>15, <2>1, EmitsClosure
<1>17. PICK k : Ends(g, k, x + 1) /\ Grows(f, h, g, k)
  BY <1>16
<1>18. Alike(f, g)
  <2>1. closureCode(us) \in Codes
    BY <1>15, ClosureCodeTyped
  <2> QED BY <1>11, <1>14, <2>1, EmitTyped, AlikeTyped
<1>19. Holds(g, k, u)
  <2>1. x + 1 = Values(t) + (t.temps + 1)
    BY <1>11, <1>15, FrameTyped DEF Height, Values
  <2> QED BY <1>11, <1>12, <1>13, <1>17, <1>18, <2>1, HoldsAfter
<1>20. Len(ds) = n /\ \A l \in 1 .. n : ds[l] = IF l = n THEN g ELSE cs[l]
  <2>1. PICK p : p = SubSeq(cs, 1, n)
    OBVIOUS
  <2>2. p \in Seq(Sound) /\ Len(p) = n /\ \A l \in 1 .. n : p[l] = cs[l]
    <3>1. 1 \in 1 .. Len(cs) + 1 /\ n \in 1 - 1 .. Len(cs)
      BY <1>4
    <3>2. p \in Seq(Sound) /\ Len(p) = (IF 1 <= n THEN n - 1 + 1 ELSE 0) /\ \A l \in 1 .. n - 1 + 1 : p[l] = cs[1 + l - 1]
      BY <1>4, <2>1, <3>1, SubSeqProperties
    <3> QED BY <1>4, <3>2
  <2>3. n \in 1 .. n
    BY <1>4
  <2>4. ds = [p EXCEPT ![n] = g]
    <3>1. p[n] = f
      BY <1>9, <2>2, <2>3
    <3>2. ds = [p EXCEPT ![n] = emit(@, closureCode(us))]
      BY <1>3, <1>14, <2>1 DEF functionEnds
    <3> QED BY <1>14, <3>1, <3>2
  <2>5. DOMAIN p = 1 .. n
    BY <2>2, LenProperties
  <2>6. DOMAIN ds = 1 .. n /\ \A l \in 1 .. n : ds[l] = IF l = n THEN g ELSE p[l]
    BY <2>3, <2>4, <2>5
  <2>7. Len(ds) = n
    BY <1>4, <1>8, <2>6, LenProperties
  <2> QED BY <2>2, <2>6, <2>7
<1>21. PICK ks : ks = [l \in Nat |-> IF l = n THEN k ELSE hs[l]]
  OBVIOUS
<1>22. ks[n] = k /\ \A l \in 1 .. n : l # n => ks[l] = hs[l]
  BY <1>4, <1>21
<1>23. Walks(ds, ks, s, b)
  <2>1. ASSUME NEW l \in 1 .. b.level
        PROVE  Grows(cs[l], hs[l], ds[l], ks[l]) /\ Count(cs[l]) \in Nat /\ Count(ds[l]) \in Nat
    <3>1. l \in 1 .. n /\ l \in 1 .. Len(cs) /\ l \in 1 .. Len(ds)
      BY <1>4, <1>10, <1>20
    <3>2. cs[l] \in CompilersTyped /\ ds[l] \in CompilersTyped
      BY <1>4, <1>8, <3>1, LevelTyped
    <3>3. Count(cs[l]) \in Nat /\ Count(ds[l]) \in Nat
      BY <3>2, Counts
    <3>4. CASE l = n
      BY <1>9, <1>17, <1>20, <1>22, <3>1, <3>3, <3>4
    <3>5. CASE l # n
      BY <1>20, <1>22, <3>1, <3>3, <3>5, GrowsSelf
    <3> QED BY <3>4, <3>5
  <2> QED BY <1>7, <1>8, <2>1, WalksGrow
<1>24. ASSUME NEW l \in 1 .. n PROVE Holds(ds[l], ks[l], b.frames[l])
  <2>1. CASE l = n
    BY <1>9, <1>19, <1>20, <1>22, <2>1
  <2>2. CASE l # n
    <3>1. l \in 1 .. n - 1 /\ l \in 1 .. a.level
      BY <1>4, <2>2
    <3>2. Holds(cs[l], hs[l], a.frames[l]) /\ b.frames[l] = a.frames[l]
      BY <1>2, <1>3, <1>10, <3>1 DEF Carried
    <3> QED BY <1>20, <1>22, <2>2, <3>2
  <2> QED BY <2>1, <2>2
<1>25. Carried(ds, ks, b)
  BY <1>4, <1>7, <1>10, <1>20, <1>24 DEF Carried
<1> QED BY <1>3, <1>8, <1>23, <1>25 DEF HeightOK

(* Behind the parameters, before any code: nothing is counted on yet. *)
Fresh(t) == t.loops = 0 /\ t.pending = "none" /\ (t.depth = 0 \/ (t.depth = 1 /\ t.size = 0))

LEMMA FreshMoves ==
  ASSUME NEW f, NEW h, NEW g, NEW k, Count(f) = 0, NEW t \in Frames, Fresh(t), NEW x \in Items, NEW u \in Frames,
         DOMAIN h = {1}, Moves(f, h, t, x, u), x.do \notin Terminators
  PROVE  Moves(g, k, t, x, u) /\ Fresh(u)
<1>1. \A at, n : ~Jumps(f, h, at, n)
  BY DEF Jumps
<1>2. t.depth \in Nat /\ t.size \in Nat /\ t.loops = 0 /\ t.pending = "none"
  BY FrameTyped DEF Fresh
<1>3. x.do \notin {"patch", "else", "forLoop", "forEnds", "parameters", "forExit", "forIncrement", "forBody"}
  BY <1>1, <1>2 DEF Moves, Leaving, ForTasks, Wild, Fresh
<1>4. Moves(g, k, t, x, u)
  BY <1>3 DEF Moves
<1>5. Fresh(u)
  <2>1. CASE x.do \in ForTasks \cup {"endScope"}
    <3>1. Leaving(t, u, t.loops)
      BY <2>1 DEF Moves
    <3> QED BY <1>2, <3>1 DEF Fresh, Leaving
  <2>2. CASE x.do \notin ForTasks \cup {"endScope"}
    <3>1. (\E temps : Becomes(t, u, t.size, "none", temps)) \/ Becomes(t, u, 0, "none", 0)
      <4>1. x.do \in Tasks
        BY DEF Items, ItemRecords
      <4>2. CASE x.do \in Closing \cup {"define"}
        <5>1. Becomes(t, u, 0, "none", 0)
          BY <4>2 DEF Moves
        <5> QED BY <5>1
      <4>3. CASE x.do \in {"then", "emit", "access", "expression", "named", "initializer", "function"}
        <5>1. \E temps : Becomes(t, u, t.size, "none", temps)
          BY <1>2, <4>3 DEF Moves
        <5> QED BY <5>1
      <4>4. CASE x.do \in {"objectEnds", "shortcut", "methods", "statement", "case"}
        <5>1. Becomes(t, u, t.size, "none", t.temps)
          BY <1>2, <4>4 DEF Moves
        <5> QED BY <5>1
      <4>5. x.do \in Closing \cup {"define"} \/ x.do \in {"then", "emit", "access", "expression", "named", "initializer", "function"}
            \/ x.do \in {"objectEnds", "shortcut", "methods", "statement", "case"}
        BY <1>3, <2>2, <4>1 DEF Tasks, ExpressionTasks, PlainTasks, ForTasks, Closing
      <4> QED BY <4>2, <4>3, <4>4, <4>5
    <3>2. u.depth = t.depth /\ u.loops = t.loops /\ u.pending = "none" /\ (u.size = t.size \/ u.size = 0)
      BY <3>1 DEF Becomes
    <3> QED BY <1>2, <3>2 DEF Fresh
  <2> QED BY <2>1, <2>2
<1> QED BY <1>4, <1>5

LEMMA FreshWalks ==
  ASSUME NEW cs, NEW hs, NEW s \in Seq(Items), NEW b, Walks(cs, hs, s, b), NEW n \in Nat, b.level = n, n > 0,
         Fresh(b.frames[n]), Count(cs[n]) = 0, DOMAIN hs[n] = {1}, NEW ds, NEW ks,
         \A l \in 1 .. n - 1 : ds[l] = cs[l] /\ ks[l] = hs[l]
  PROVE  Walks(ds, ks, s, b)
<1>1. PICK g : Walk(cs, hs, s, g, b)
  BY DEF Walks
<1>2. PICK m \in Nat : m = Len(s)
  BY LenProperties
<1>3. /\ g \in [1 .. m + 1 -> Stacks] /\ g[1] = b
      /\ \A k \in 1 .. m : Leads(cs, hs, g[k], s[k], g[k + 1])
      /\ \A j, k \in 1 .. m + 1 : j <= k => g[k].level <= g[j].level
  BY <1>1, <1>2 DEF Walk
<1>4. ASSUME NEW k \in 1 .. m
      PROVE  /\ g[k] \in Stacks /\ g[k + 1] \in Stacks /\ s[k] \in Items /\ g[k].level \in 1 .. n
             /\ g[k].frames[n] \in Frames /\ g[k + 1].frames[n] \in Frames
  <2>1. k \in 1 .. m + 1 /\ k + 1 \in 1 .. m + 1 /\ 1 \in 1 .. m + 1 /\ 1 <= k
    BY <1>2
  <2>2. g[k] \in Stacks /\ g[k + 1] \in Stacks /\ s[k] \in Items
    BY <1>2, <1>3, <2>1, ElementOfSeq
  <2>3. g[k].level <= n /\ g[k].level > 0
    BY <1>3, <2>1 DEF Leads
  <2>4. g[k].level \in Nat /\ g[k].frames \in [Nat -> Frames] /\ g[k + 1].frames \in [Nat -> Frames]
    BY <2>2 DEF Stacks
  <2> QED BY <2>2, <2>3, <2>4
<1>5. ASSUME NEW k \in 1 .. m, g[k].level = n, Fresh(g[k].frames[n])
      PROVE  /\ Leads(ds, ks, g[k], s[k], g[k + 1])
             /\ g[k + 1].level = n => Fresh(g[k + 1].frames[n])
  <2>1. PICK c, d, x : c = g[k] /\ d = g[k + 1] /\ x = s[k]
    OBVIOUS
  <2>2. Leads(cs, hs, c, x, d) /\ x \in Items /\ c.level = n /\ Fresh(c.frames[n]) /\ c.frames[n] \in Frames /\ d.frames[n] \in Frames
    BY <1>3, <1>4, <1>5, <2>1
  <2>3. CASE x.do \in Terminators
    <3>1. Leads(ds, ks, c, x, d) /\ d.level = n - 1
      BY <2>2, <2>3 DEF Leads
    <3> QED BY <2>1, <3>1
  <2>4. CASE x.do \notin Terminators
    <3>1. Moves(cs[n], hs[n], c.frames[n], x, d.frames[n]) /\ d.level = n /\ \A l \in 1 .. n - 1 : d.frames[l] = c.frames[l]
      BY <2>2, <2>4 DEF Leads
    <3>2. Moves(ds[n], ks[n], c.frames[n], x, d.frames[n]) /\ Fresh(d.frames[n])
      <4>1. PICK f, h, g2, k2, t, u : f = cs[n] /\ h = hs[n] /\ g2 = ds[n] /\ k2 = ks[n] /\ t = c.frames[n] /\ u = d.frames[n]
        OBVIOUS
      <4>2. Moves(f, h, t, x, u) /\ t \in Frames /\ u \in Frames /\ Fresh(t) /\ Count(f) = 0 /\ DOMAIN h = {1}
        BY <2>2, <3>1, <4>1
      <4>3. Moves(g2, k2, t, x, u) /\ Fresh(u)
        BY <2>2, <2>4, <4>2, FreshMoves
      <4> QED BY <4>1, <4>3
    <3>3. Leads(ds, ks, c, x, d)
      BY <2>2, <2>4, <3>1, <3>2 DEF Leads
    <3> QED BY <2>1, <3>2, <3>3
  <2> QED BY <2>3, <2>4
<1>6. PICK S : S = {k \in 1 .. m + 1 : g[k].level = n /\ ~Fresh(g[k].frames[n])}
  OBVIOUS
<1>7. S = {}
  <2>1. SUFFICES ASSUME S # {} PROVE FALSE
    OBVIOUS
  <2>2. PICK k \in S : \A j \in Nat : j < k => j \notin S
    <3>1. S \subseteq Nat
      BY <1>6
    <3> QED BY <2>1, <3>1, Least
  <2>3. k \in 1 .. m + 1 /\ g[k].level = n /\ ~Fresh(g[k].frames[n])
    BY <1>6
  <2>4. k # 1
    BY <1>3, <2>3
  <2>5. PICK j : j = k - 1
    OBVIOUS
  <2>6. j \in 1 .. m /\ j \in 1 .. m + 1 /\ j + 1 = k /\ j <= k /\ j < k /\ j \in Nat
    BY <2>3, <2>4, <2>5
  <2>7. j \notin S
    BY <2>2, <2>6
  <2>8. g[j].level = n
    <3>1. n <= g[j].level /\ g[j].level \in 1 .. n
      BY <1>3, <1>4, <2>3, <2>6
    <3> QED BY <3>1
  <2>9. Fresh(g[j].frames[n])
    BY <1>6, <2>6, <2>7, <2>8
  <2> QED BY <1>5, <2>3, <2>6, <2>8, <2>9
<1>8. ASSUME NEW k \in 1 .. m PROVE Leads(ds, ks, g[k], s[k], g[k + 1])
  <2>1. CASE g[k].level = n
    <3>1. k \in 1 .. m + 1
      BY <1>2
    <3>2. Fresh(g[k].frames[n])
      BY <1>6, <1>7, <2>1, <3>1
    <3> QED BY <1>5, <2>1, <3>2
  <2>2. CASE g[k].level # n
    <3>1. PICK l : l = g[k].level
      OBVIOUS
    <3>2. l \in 1 .. n - 1
      BY <1>4, <2>2, <3>1
    <3>3. ds[l] = cs[l] /\ ks[l] = hs[l] /\ Leads(cs, hs, g[k], s[k], g[k + 1])
      BY <1>3, <3>2
    <3> QED BY <3>1, <3>3 DEF Leads
  <2> QED BY <2>1, <2>2
<1>9. Walk(ds, ks, s, g, b)
  BY <1>2, <1>3, <1>8 DEF Walk
<1> QED BY <1>9 DEF Walks

(* A parameter: one local more, and the function begins one value higher. *)
LEMMA ParameterHolds ==
  ASSUME NEW f \in CompilersTyped, NEW h, NEW t \in Frames, Holds(f, h, t), t.pending = "parameters", t.temps = 0,
         NEW x \in Identifiers, NEW e, e = declareVariable(f, x), NEW m, m = markInitialized(e),
         NEW g, g = [m EXCEPT !.arity = @ + 1], NEW k, k = [p \in {1} |-> f.arity + 2]
  PROVE  /\ Count(f) = 0 /\ DOMAIN h = {1} /\ t.loops = 0 /\ t.depth = 1
         /\ \E v \in Frames : Holds(g, k, v) /\ v.size > 0 /\ Becomes(t, v, t.size + 1, "parameters", 0)
<1>1. Fitting(f, t) /\ Looping(f, h, t) /\ Ends(f, h, Height(t))
  BY DEF Holds
<1>2. /\ t.size \in Nat /\ Values(t) = t.size /\ Height(t) = t.size /\ f.code = <<>> /\ f.loops = <<>> /\ f.scopeDepth = 1
      /\ t.depth = 1 /\ t.loops \in Nat
  BY <1>1, FrameTyped DEF Fitting, Values, Height
<1>3. Count(f) = 0 /\ t.loops = 0
  <2>1. PICK s : s = <<>>
    OBVIOUS
  <2>2. f.code = s /\ f.loops = s /\ Len(s) = 0
    BY <1>2, <2>1
  <2> QED BY <1>1, <2>2 DEF Count, Looping
<1>4. DOMAIN h = {1} /\ h[1] = f.arity + 1 /\ h[1] = t.size
  <2>1. /\ DOMAIN h \subseteq 1 .. 0 + 1 /\ 1 \in DOMAIN h /\ h[1] = f.arity + 1 /\ h[0 + 1] = t.size
    BY <1>1, <1>2, <1>3 DEF Ends, Mapped
  <2> QED BY <2>1
<1>5. PICK n \in Nat : n = t.size + 1 /\ n > 0 /\ n - 1 = t.size
  BY <1>2
<1>23. PICK o \in Nat, y \in Pendings, z \in Pendings : o = 0 /\ y = "variable" /\ z = "parameters"
  BY DEF Pendings
<1>6. PICK u \in Frames : /\ u.size = n /\ u.pending = y /\ u.temps = o /\ u.depth = t.depth /\ u.loops = t.loops
                          /\ u.sizes = t.sizes /\ u.floors = t.floors
  BY Between
<1>7. PICK v \in Frames : /\ v.size = n /\ v.pending = z /\ v.temps = o /\ v.depth = t.depth /\ v.loops = t.loops
                          /\ v.sizes = t.sizes /\ v.floors = t.floors /\ Becomes(t, v, n, z, o)
  BY Between
<1>8. Fitting(e, u) /\ Last(e).depth = -1
  BY <1>1, <1>2, <1>5, <1>23, <1>6, DeclareFits
<1>9. PICK s \in Seq(Locals) : e = [f EXCEPT !.locals = s]
  BY <1>1, <1>2, <1>5, <1>23, <1>6, DeclareFits
<1>10. e \in CompilersTyped /\ e.code = f.code /\ e.scopeDepth = f.scopeDepth /\ e.arity = f.arity /\ e.loops = f.loops
  BY <1>9, LocalsLike
<1>11. Values(v) > 0 /\ Height(v) = n
  BY <1>5, <1>7, <1>23 DEF Values, Height
<1>12. v.pending # "variable" /\ (v.pending = "parameters" => e.code = <<>> /\ e.loops = <<>> /\ e.scopeDepth = 1)
  BY <1>2, <1>7, <1>10, <1>23
<1>13. /\ v.size = u.size /\ v.depth = u.depth /\ e.scopeDepth # 0
       /\ \A i \in 1 .. u.depth : v.sizes[i] = u.sizes[i]
  BY <1>2, <1>6, <1>7, <1>10
<1>14. Fitting(m, v)
  BY <1>8, <1>10, <1>11, <1>12, <1>13, MarkFits
<1>15. \E r \in Seq(Locals) : m = [e EXCEPT !.locals = r]
  BY <1>8, <1>10, <1>11, <1>12, <1>13, MarkFits
<1>16. PICK r \in Seq(Locals) : m = [e EXCEPT !.locals = r]
  BY <1>15
<1>17. m \in CompilersTyped /\ m.code = f.code /\ m.arity = f.arity /\ m.loops = f.loops
  BY <1>10, <1>16, LocalsLike
<1>18. /\ g.code = f.code /\ g.arity = f.arity + 1 /\ g.loops = f.loops /\ g.locals = m.locals /\ g.scopeDepth = m.scopeDepth
       /\ f.arity \in Int
  BY <1>17 DEF CompilersTyped
<1>19. Fitting(g, v)
  BY <1>14, <1>17, <1>18 DEF Fitting, Last
<1>20. Looping(g, k, v)
  <2>1. Len(g.loops) = 0 /\ v.loops = 0
    BY <1>1, <1>3, <1>7, <1>18 DEF Looping
  <2> QED BY <2>1 DEF Looping
<1>21. Ends(g, k, n)
  <2>1. Count(g) = 0
    BY <1>3, <1>18 DEF Count
  <2>2. DOMAIN k = {1} /\ k[1] = n /\ k[1] = g.arity + 1
    BY <1>4, <1>5, <1>18
  <2>3. Mapped(g, k)
    BY <2>1, <2>2 DEF Mapped
  <2> QED BY <2>1, <2>2, <2>3 DEF Ends
<1>22. Holds(g, k, v)
  BY <1>11, <1>19, <1>20, <1>21 DEF Holds
<1> QED BY <1>2, <1>3, <1>4, <1>5, <1>7, <1>22, <1>23

LEMMA FirstOfTodo == ASSUME CodegenOK, status = "compiling" PROVE todo = <<First>> \o Tail(todo)
<1>1. PICK q, x, s : q = todo /\ x = First /\ s = Tail(todo)
  OBVIOUS
<1>2. q \in Seq(Items) /\ q # <<>> /\ x = q[1] /\ s = Tail(q) /\ x \in Items /\ s \in Seq(Items)
  BY <1>1, Meeting DEF First, CodegenOK
<1>3. Len(q) = Len(s) + 1 /\ \A k \in 1 .. Len(s) : q[k + 1] = s[k]
  BY <1>2, HeadTailProperties
<1> QED BY <1>1, <1>2, <1>3, FirstApart

LEMMA parameterRises ==
  ASSUME CodegenOK, CodegenOK', HeightOK, NEW x \in Names, parameter(x)
  PROVE  HeightOK'
<1>1. CASE fail
  BY <1>1 DEF fail, HeightOK
<1>2. CASE ~fail
  <2>1. PICK f, e : f = Current /\ e = declareVariable(f, x)
    OBVIOUS
  <2>2. PICK m : m = markInitialized(e)
    OBVIOUS
  <2>3. PICK g : g = [m EXCEPT !.arity = @ + 1]
    OBVIOUS
  <2>4. status = "compiling" /\ status' = "compiling" /\ First.do = "parameters" /\ Now(g) /\ todo' = todo
    BY <1>2, <2>1, <2>2, <2>3 DEF parameter, Doing, Steady
  <2>5. PICK h, t, u : AtFirst(h, t, u)
    BY <2>4, Arriving DEF Terminators
  <2>6. PICK s, y : s = Tail(todo) /\ y = First
    OBVIOUS
  <2>7. /\ y \in Items /\ f \in CompilersTyped /\ t \in Frames /\ u \in Frames /\ Moves(f, h, t, y, u)
        /\ Holds(f, h, t) /\ t.size \in Nat /\ s \in Seq(Items) /\ Meets(h, t, s, u) /\ y.do = "parameters"
    BY <2>1, <2>4, <2>5, <2>6, FirstTyped, Meeting DEF AtFirst
  <2>8. t.pending = "parameters" /\ t.temps = 0 /\ Becomes(t, u, 0, "none", 0)
    BY <2>7, MovesParameters
  <2>9. x \in Identifiers
    BY DEF Identifiers
  <2>10. PICK k : k = [p \in {1} |-> f.arity + 2]
    OBVIOUS
  <2>11. /\ Count(f) = 0 /\ DOMAIN h = {1} /\ t.loops = 0 /\ t.depth = 1
         /\ \E v \in Frames : Holds(g, k, v) /\ v.size > 0 /\ Becomes(t, v, t.size + 1, "parameters", 0)
    BY <2>1, <2>2, <2>3, <2>7, <2>8, <2>9, <2>10, ParameterHolds
  <2>12. PICK v \in Frames : Holds(g, k, v) /\ v.size > 0 /\ Becomes(t, v, t.size + 1, "parameters", 0)
    BY <2>11
  <2>13. Fresh(u)
    BY <2>8, <2>11 DEF Fresh, Becomes
  <2>14. \A c, d : Moves(c, d, v, y, u)
    <3>1. Becomes(v, u, 0, "none", 0) /\ v.pending = "parameters" /\ v.temps = 0
      <4>1. Becomes(v, u, 0, "none", 0)
        BY <2>7, <2>8, <2>12, BecomesOn
      <4> QED BY <2>12, <4>1 DEF Becomes
    <3> QED BY <2>7, <2>12, <3>1, MovesParameters
  <2>15. PICK hs, a, b :
           /\ Carried(compilers, hs, a) /\ h = hs[a.level] /\ t = a.frames[a.level]
           /\ b \in Stacks /\ b.level = a.level /\ u = b.frames[a.level]
           /\ \A l \in 1 .. a.level - 1 : b.frames[l] = a.frames[l]
           /\ Walks(compilers, hs, s, b)
    BY <2>7 DEF Meets
  <2>16. PICK n, cs, ds : n = Len(compilers) /\ cs = compilers /\ ds = compilers'
    OBVIOUS
  <2>17. n \in Nat /\ n > 0 /\ a.level = n /\ a \in Stacks /\ cs \in Seq(Sound) /\ n = Len(cs) /\ cs[n] = f
    BY <2>1, <2>15, <2>16, LenProperties DEF Carried, CodegenOK, Current
  <2>18. Len(ds) = n /\ \A l \in 1 .. n : ds[l] = IF l = n THEN g ELSE cs[l]
    <3>1. ds = [cs EXCEPT ![n] = g]
      BY <2>4, <2>16 DEF Now
    <3>2. cs = [i \in 1 .. n |-> cs[i]]
      BY <2>17, LenProperties
    <3>3. ds = [i \in 1 .. n |-> IF i = n THEN g ELSE cs[i]]
      BY <2>17, <3>1, <3>2
    <3> QED BY <2>17, <3>3
  <2>19. PICK ks : ks = [l \in Nat |-> IF l = n THEN k ELSE hs[l]]
    OBVIOUS
  <2>20. ks[n] = k /\ ds[n] = g /\ \A l \in 1 .. n - 1 : ks[l] = hs[l] /\ ds[l] = cs[l]
    BY <2>17, <2>18, <2>19
  <2>21. Walks(ds, ks, s, b)
    <3>1. Count(cs[n]) = 0 /\ DOMAIN hs[n] = {1} /\ Fresh(b.frames[n]) /\ b.level = n /\ Walks(cs, hs, s, b)
      BY <2>11, <2>13, <2>15, <2>16, <2>17
    <3>2. \A l \in 1 .. n - 1 : ds[l] = cs[l] /\ ks[l] = hs[l]
      BY <2>20
    <3>3. n \in Nat /\ n > 0 /\ s \in Seq(Items)
      BY <2>7, <2>17
    <3> QED BY <3>1, <3>2, <3>3, FreshWalks
  <2>22. PICK c : c = [a EXCEPT !.frames[n] = v]
    OBVIOUS
  <2>23. /\ c \in Stacks /\ c.level = n /\ c.frames[n] = v
         /\ \A l \in 1 .. n - 1 : c.frames[l] = a.frames[l]
    <3>1. c \in Stacks /\ c.level = a.level /\ c.frames[n] = v /\ \A l \in Nat : l # n => c.frames[l] = a.frames[l]
      BY <2>17, <2>22, StacksTyped
    <3> QED BY <2>17, <3>1
  <2>24. Leads(ds, ks, c, y, b)
    <3>1. y.do \notin Terminators
      BY <2>7 DEF Terminators
    <3>2. Moves(ds[n], ks[n], c.frames[n], y, b.frames[n])
      BY <2>14, <2>15, <2>17, <2>23
    <3> QED BY <2>15, <2>17, <2>23, <3>1, <3>2 DEF Leads
  <2>25. Walks(ds, ks, <<y>> \o s, c)
    BY <2>7, <2>15, <2>21, <2>23, <2>24, LeadsFirst
  <2>26. ASSUME NEW l \in 1 .. n PROVE Holds(ds[l], ks[l], c.frames[l])
    <3>1. CASE l = n
      BY <2>12, <2>20, <2>23, <3>1
    <3>2. CASE l # n
      <4>1. l \in 1 .. n - 1 /\ l \in 1 .. a.level
        BY <2>17, <3>2
      <4>2. Holds(cs[l], hs[l], a.frames[l])
        BY <2>15, <2>16, <4>1 DEF Carried
      <4> QED BY <2>20, <2>23, <4>1, <4>2
    <3> QED BY <3>1, <3>2
  <2>27. Carried(ds, ks, c)
    BY <2>17, <2>18, <2>23, <2>26 DEF Carried
  <2>28. todo' = <<y>> \o s
    BY <2>4, <2>6, FirstOfTodo
  <2> QED BY <2>16, <2>25, <2>27, <2>28 DEF HeightOK
<1> QED BY <1>1, <1>2

----------------------------------------------------------------------------
(* Variables. *)

(* What the capture of a local leaves in a compiler as it was. *)
Widens(f, g) ==
  /\ g.code = f.code /\ g.arity = f.arity /\ g.type = f.type /\ g.loops = f.loops
  /\ Len(f.upvalues) \in Nat /\ Len(g.upvalues) \in Nat /\ Len(f.upvalues) <= Len(g.upvalues)

LEMMA ResolvedWidens ==
  ASSUME NEW f \in CompilersTyped
  PROVE  /\ Widens(f, f) /\ \A slot \in Int : Widens(f, Captured(f, slot))
         /\ \A u \in Upvalues : Widens(f, addUpvalue(f, u))
<1>1. PICK r : r = f.upvalues
  OBVIOUS
<1>2. r \in Seq(Upvalues)
  BY <1>1 DEF CompilersTyped
<1>3. PICK n \in Nat : n = Len(r)
  BY <1>2, LenProperties
<1>4. Widens(f, f)
  BY <1>1, <1>3 DEF Widens
<1>5. ASSUME NEW slot \in Int PROVE Widens(f, Captured(f, slot))
  <2>1. PICK s : s = [f.locals EXCEPT ![slot + 1].isCaptured = TRUE]
    OBVIOUS
  <2>2. PICK g : g = Captured(f, slot)
    OBVIOUS
  <2>3. g = [f EXCEPT !.locals = s]
    BY <2>1, <2>2 DEF Captured
  <2>4. g.code = f.code /\ g.arity = f.arity /\ g.type = f.type /\ g.loops = f.loops /\ g.upvalues = f.upvalues
    BY <2>3 DEF CompilersTyped
  <2> QED BY <1>1, <1>3, <2>2, <2>4 DEF Widens
<1>6. ASSUME NEW u \in Upvalues PROVE Widens(f, addUpvalue(f, u))
  <2>1. PICK s : s = Append(r, u)
    OBVIOUS
  <2>2. Len(s) = n + 1
    BY <1>2, <1>3, <2>1, AppendProperties
  <2>3. PICK g : g = [f EXCEPT !.upvalues = s]
    OBVIOUS
  <2>4. g.code = f.code /\ g.arity = f.arity /\ g.type = f.type /\ g.loops = f.loops /\ g.upvalues = s
    BY <2>3 DEF CompilersTyped
  <2>5. Widens(f, g)
    BY <1>1, <1>3, <2>2, <2>4 DEF Widens
  <2>6. addUpvalue(f, u) = f \/ addUpvalue(f, u) = g
    BY <1>1, <2>1, <2>3 DEF addUpvalue
  <2> QED BY <1>4, <2>5, <2>6
<1> QED BY <1>4, <1>5, <1>6

LEMMA HoldsSimilar ==
  ASSUME NEW f \in CompilersTyped, NEW g \in CompilersTyped, Similar(f, g), Widens(f, g), NEW h, NEW t \in Frames, Holds(f, h, t)
  PROVE  Holds(g, h, t) /\ Grows(f, h, g, h)
<1>1. Fitting(f, t) /\ Looping(f, h, t) /\ Ends(f, h, Height(t))
  BY DEF Holds
<1>2. t.size \in Nat /\ t.size = Len(f.locals) /\ t.size > 0 /\ Len(g.locals) = Len(f.locals)
  BY <1>1, FrameTyped DEF Fitting, Values, Similar
<1>3. \A i \in 1 .. t.size : g.locals[i].depth = f.locals[i].depth
  BY <1>2 DEF Similar
<1>4. Last(g).depth = Last(f).depth
  <2>1. t.size \in 1 .. t.size
    BY <1>2
  <2> QED BY <1>2, <1>3, <2>1 DEF Last
<1>5. Fitting(g, t)
  <2>1. g.scopeDepth = f.scopeDepth /\ g.code = f.code /\ g.loops = f.loops
    BY DEF Similar, Widens
  <2>2. \A d \in 1 .. t.depth : /\ t.sizes[d] <= t.size
                                /\ \A i \in 1 .. t.size : i <= t.sizes[d] <=> g.locals[i].depth \in 0 .. d - 1
    BY <1>1, <1>3 DEF Fitting
  <2> QED BY <1>1, <1>2, <1>4, <2>1, <2>2 DEF Fitting
<1>6. Count(g) = Count(f) /\ Count(f) \in Nat
  BY Counts DEF Widens, Count
<1>7. Looping(g, h, t)
  <2>1. \A at, n : Jumps(f, h, at, n) => Jumps(g, h, at, n)
    BY <1>6 DEF Jumps, Widens
  <2> QED BY <1>1, <2>1 DEF Looping, Widens
<1>8. ASSUME NEW p \in DOMAIN h, Maps(f, h, p) PROVE Maps(g, h, p)
  <2>1. g.code = f.code /\ g.type = f.type
    BY DEF Widens
  <2>2. CASE Dead(f, p)
    BY <2>1, <2>2 DEF Maps, Dead
  <2>3. CASE ~Dead(f, p)
    <3>1. /\ Executes(f, p, h[p])
          /\ \A z \in Targets(f.code, p) : z \in DOMAIN h /\ h[z] = h[p] - Takes(f.code, p) + Leaves(f.code, p)
      BY <1>8, <2>3 DEF Maps
    <3>2. f.code[p].op \in {"GET_UPVALUE", "SET_UPVALUE"} => ReadByte(g.code, p + 1) < Len(g.upvalues)
      <4>1. HAVE f.code[p].op \in {"GET_UPVALUE", "SET_UPVALUE"}
      <4>2. ReadByte(f.code, p + 1) < Len(f.upvalues)
        BY <3>1, <4>1 DEF Executes
      <4>3. PICK b, m, n : b = ReadByte(f.code, p + 1) /\ m = Len(f.upvalues) /\ n = Len(g.upvalues)
        OBVIOUS
      <4>4. m \in Nat /\ n \in Nat /\ m <= n /\ b < m
        BY <4>2, <4>3 DEF Widens
      <4>5. p + 1 \in 1 .. Count(f)
        <5>1. Decodes(f.code, p) /\ OperandSize(f.code, p) = 1
          BY <3>1, <4>1 DEF Executes, Whole, OperandSize, Shorts, Bytes
        <5>2. p + 1 <= Count(f)
          BY <5>1 DEF Decodes, Count
        <5>3. p \in 1 .. Count(f) + 1
          BY <1>1 DEF Ends, Mapped
        <5> QED BY <1>6, <5>2, <5>3
      <4>6. b \in Int
        <5>1. f.code \in Seq(Cells) /\ p + 1 \in 1 .. Len(f.code)
          BY <4>5 DEF CompilersTyped, Codes, Count
        <5>2. f.code[p + 1] \in Cells
          BY <5>1, ElementOfSeq
        <5> QED BY <4>3, <5>2 DEF Cells, ReadByte
      <4> QED BY <2>1, <4>3, <4>4, <4>6
    <3>3. Executes(g, p, h[p])
      BY <2>1, <3>1, <3>2 DEF Executes
    <3> QED BY <2>1, <3>1, <3>3 DEF Maps
  <2> QED BY <2>2, <2>3
<1>9. Ends(g, h, Height(t))
  <2>1. g.code = f.code /\ g.arity = f.arity
    BY DEF Widens
  <2> QED BY <1>1, <1>6, <1>8, <2>1 DEF Ends, Mapped
<1>10. Grows(f, h, g, h)
  <2>1. Grows(f, h, f, h)
    BY <1>6, GrowsSelf
  <2> QED BY <1>6, <2>1 DEF Grows, Widens
<1> QED BY <1>5, <1>7, <1>9, <1>10 DEF Holds

(* An access is one instruction; a local that it reads has its value. *)
Reaches(c, verb, n) ==
  /\ c \in Codes /\ Decodes(c, 1) /\ Len(c) = 1 + OperandSize(c, 1)
  /\ c[1].op \notin Forward \cup {"LOOP", "CLOSURE"}
  /\ Takes(c, 1) = (IF verb = "set" THEN 1 ELSE 0) /\ Leaves(c, 1) = 1
  /\ c[1].op \in {"GET_LOCAL", "SET_LOCAL"} => ReadByte(c, 2) < n

LEMMA AccessSteps ==
  ASSUME NEW c, NEW verb \in {"get", "set"}, NEW op, NEW n, c \in Codes, Decodes(c, 1), Len(c) = 1 + OperandSize(c, 1), c[1].op = op,
         op \in {Instructions[verb].global, Instructions[verb].local, Instructions[verb].upvalue},
         op = Instructions[verb].local => ReadByte(c, 2) < n
  PROVE  Reaches(c, verb, n)
<1>1. CASE verb = "get"
  <2>1. op \in {"GET_GLOBAL", "GET_LOCAL", "GET_UPVALUE"} /\ Instructions[verb].local = "GET_LOCAL"
    BY <1>1 DEF Instructions
  <2>2. Takes(c, 1) = 0 /\ Leaves(c, 1) = 1
    BY <2>1 DEF Takes, Leaves
  <2> QED BY <1>1, <2>1, <2>2 DEF Reaches, Forward
<1>2. CASE verb = "set"
  <2>1. op \in {"SET_GLOBAL", "SET_LOCAL", "SET_UPVALUE"} /\ Instructions[verb].local = "SET_LOCAL"
    BY <1>2 DEF Instructions
  <2>2. Takes(c, 1) = 1 /\ Leaves(c, 1) = 1
    BY <2>1 DEF Takes, Leaves
  <2> QED BY <1>2, <2>1, <2>2 DEF Reaches, Forward
<1> QED BY <1>1, <1>2

Couple(c, name, k) ==
  /\ c \in Codes /\ c[1].op = name /\ Decodes(c, 1) /\ Len(c) = 1 + OperandSize(c, 1) /\ ReadByte(c, 2) = k

LEMMA Couples == \A name \in Bytes : \A k \in Int : k < Base => Couple(<<Op(name), Byte(k)>>, name, k)
<1>1. SUFFICES ASSUME NEW name \in Bytes, NEW k \in Int, k < Base PROVE Couple(<<Op(name), Byte(k)>>, name, k)
  OBVIOUS
<1>2. PICK c : c = <<Op(name), Byte(k)>>
  OBVIOUS
<1>3. c \in Codes /\ c[1].op = name /\ Decodes(c, 1) /\ Len(c) = 1 + OperandSize(c, 1) /\ ReadByte(c, 2) = k
  <2>1. ReadByte(c, 2) = k
    BY <1>1, <1>2, TwoCells
  <2>2. c \in Codes
    BY <1>1, <1>2, TwoCells
  <2>3. c[1].op = name
    BY <1>1, <1>2, TwoCells
  <2>4. Decodes(c, 1)
    BY <1>1, <1>2, TwoCells
  <2>5. Len(c) = 1 + OperandSize(c, 1)
    BY <1>1, <1>2, TwoCells
  <2> QED BY <2>1, <2>2, <2>3, <2>4, <2>5
<1> QED BY <1>2, <1>3 DEF Couple

LEMMA AccessReads ==
  ASSUME CodegenOK, status = "compiling", NEW verb \in {"get", "set"}, NEW x, ~CannotResolve(x), NEW t \in Frames,
         Fitting(Current, t), t.pending \in {"none", "variable"}
  PROVE  Reaches(Access(verb, x), verb, Values(t))
<1>1. PICK op : op = Instructions[verb]
  OBVIOUS
<1>2. op.global \in Shorts \ {"CLOSURE"} /\ op.local \in Bytes /\ op.upvalue \in Bytes
  BY <1>1 DEF Instructions, Shorts, Bytes
<1>3. op.local # op.global /\ op.local # op.upvalue
  BY <1>1 DEF Instructions
<1>4. PICK n, f : n = Len(compilers) /\ f = compilers[n] /\ f = Current /\ f \in CompilersTyped /\ f \in Sound /\ n \in Nat /\ n \in 1 .. n
  BY Meeting DEF Current
<1>5. PICK o : o = Owner(x)
  OBVIOUS
<1>6. CASE o = 0
  <2>1. PICK c : c = emitConstantCommond(op.global)
    OBVIOUS
  <2>2. c \in Codes /\ c[1].op = op.global /\ Decodes(c, 1) /\ Len(c) = 1 + OperandSize(c, 1)
    BY <1>2, <2>1, ThreeCells
  <2>3. Access(verb, x) = c
    BY <1>1, <1>5, <1>6, <2>1 DEF Access
  <2>4. Reaches(c, verb, Values(t))
    BY <1>1, <1>3, <2>2, AccessSteps
  <2> QED BY <2>3, <2>4
<1>7. CASE o # 0 /\ o = n
  <2>1. LocalsNamed(f, x) # {}
    BY <1>4, <1>5, <1>7, OwnerIs DEF CodegenOK
  <2>2. PICK k \in Int : k = resolveLocal(f, x)
    BY <1>4, <2>1, ResolvedIn
  <2>3. PICK m \in Nat : m = Len(f.locals) /\ m <= LOCAL_MAX
    <3>1. Len(f.locals) \in 1 .. LOCAL_MAX
      BY <1>4 DEF Sound, LocalsOK
    <3> QED BY <3>1
  <2>4. k \in 0 .. m - 1
    BY <1>4, <2>1, <2>2, <2>3, ResolvedIn
  <2>5. k < Base /\ k % Base = k
    <3>1. k \in 0 .. Base - 1
      BY <2>3, <2>4, Bytes_
    <3> QED BY <3>1, SmallRest, Bytes_
  <2>6. f.locals[k + 1].depth # -1
    BY <1>4, <1>5, <1>7, <2>2 DEF CannotResolve
  <2>7. k < Values(t)
    <3>1. t.size = m /\ t.size \in Nat /\ (t.pending = "variable" <=> f.locals[m].depth = -1)
      BY <1>4, <2>3, FrameTyped DEF Fitting, Last
    <3>2. CASE t.pending = "variable"
      <4>1. k + 1 # m
        BY <2>6, <3>1, <3>2
      <4>2. Values(t) = m - 1
        BY <3>1, <3>2 DEF Values
      <4> QED BY <2>4, <4>1, <4>2
    <3>3. CASE t.pending # "variable"
      <4>1. Values(t) = m
        BY <3>1, <3>3 DEF Values
      <4> QED BY <2>4, <4>1
    <3> QED BY <3>2, <3>3
  <2>8. PICK c : c = <<Op(op.local), Byte(k)>>
    OBVIOUS
  <2>9. Couple(c, op.local, k)
    BY <1>2, <2>2, <2>5, <2>8, Couples
  <2>10. Access(verb, x) = c
    BY <1>1, <1>4, <1>5, <1>7, <2>2, <2>5, <2>8 DEF Access
  <2>11. Reaches(c, verb, Values(t))
    BY <1>1, <2>7, <2>9, AccessSteps DEF Couple
  <2> QED BY <2>10, <2>11
<1>8. CASE o # 0 /\ o # n
  <2>1. PICK k \in Int : k = IndexOf(f.upvalues, UpvalueChain(x)[n])
    <3>1. f.upvalues \in Seq(Upvalues)
      BY <1>4 DEF CompilersTyped
    <3> QED BY <3>1, IndexIn
  <2>2. PICK b \in Int : b = k % Base /\ b < Base
    BY Rest
  <2>3. PICK c : c = <<Op(op.upvalue), Byte(b)>>
    OBVIOUS
  <2>4. Couple(c, op.upvalue, b)
    BY <1>2, <2>2, <2>3, Couples
  <2>5. Access(verb, x) = c
    BY <1>1, <1>4, <1>5, <1>8, <2>1, <2>2, <2>3 DEF Access
  <2>6. Reaches(c, verb, Values(t))
    BY <1>1, <1>3, <2>4, AccessSteps DEF Couple
  <2> QED BY <2>5, <2>6
<1> QED BY <1>6, <1>7, <1>8

(* A step that leaves the code, and adds items. *)
LEMMA WidensRise ==
  ASSUME CodegenOK, CodegenOK', status = "compiling", NEW h, NEW t \in Frames, NEW s \in Seq(Items), NEW u, Meets(h, t, s, u),
         NEW ds, ds = compilers', Len(ds) = Len(compilers),
         \A l \in 1 .. Len(ds) : Similar(compilers[l], ds[l]) /\ Widens(compilers[l], ds[l]),
         NEW items \in Seq(Items), Steps(ds[Len(ds)], h, items, t, u), todo' = items \o s
  PROVE  HeightOK'
<1>1. PICK hs, a, b :
         /\ Carried(compilers, hs, a) /\ h = hs[a.level] /\ t = a.frames[a.level]
         /\ b \in Stacks /\ b.level = a.level /\ u = b.frames[a.level]
         /\ \A l \in 1 .. a.level - 1 : b.frames[l] = a.frames[l]
         /\ Walks(compilers, hs, s, b)
  BY DEF Meets
<1>2. PICK n, cs : n = Len(compilers) /\ cs = compilers
  OBVIOUS
<1>3. n \in Nat /\ n > 0 /\ a.level = n /\ a \in Stacks /\ cs \in Seq(Sound) /\ n = Len(cs) /\ ds \in Seq(Sound) /\ Len(ds) = n
  BY <1>1, <1>2, LenProperties DEF Carried, CodegenOK
<1>4. \A l \in 1 .. n : cs[l] \in CompilersTyped /\ ds[l] \in CompilersTyped
  BY <1>3, LevelTyped
<1>5. ASSUME NEW l \in 1 .. n PROVE Holds(ds[l], hs[l], a.frames[l]) /\ Grows(cs[l], hs[l], ds[l], hs[l])
  <2>1. PICK f, g, k, v : f = cs[l] /\ g = ds[l] /\ k = hs[l] /\ v = a.frames[l]
    OBVIOUS
  <2>2. f \in CompilersTyped /\ g \in CompilersTyped /\ Similar(f, g) /\ Widens(f, g)
    BY <1>2, <1>3, <1>4, <2>1
  <2>3. Holds(f, k, v) /\ v \in Frames
    BY <1>1, <1>2, <1>3, <2>1 DEF Carried, Stacks
  <2> QED BY <2>1, <2>2, <2>3, HoldsSimilar
<1>6. Walks(ds, hs, s, b)
  <2>1. \A l \in 1 .. b.level : Grows(cs[l], hs[l], ds[l], hs[l]) /\ Count(cs[l]) \in Nat /\ Count(ds[l]) \in Nat
    BY <1>1, <1>3, <1>4, <1>5, Counts
  <2> QED BY <1>1, <1>2, <2>1, WalksGrow
<1>12. t = a.frames[n] /\ u = b.frames[n] /\ b \in Stacks /\ b.level = n /\ u \in Frames /\ n \in Nat
  <2>1. u = b.frames[n] /\ b \in Stacks /\ b.level = n /\ n \in Nat
    BY <1>1, <1>3
  <2> QED BY <1>1, <1>3, <2>1 DEF Stacks
<1>7. [b EXCEPT !.frames[n] = u] = b
  <2>1. PICK c : c = [b EXCEPT !.frames[n] = u]
    OBVIOUS
  <2>2. u = b.frames[n] => c = b
    <3>1. n \in Nat /\ u \in Frames /\ b \in Stacks
      BY <1>12
    <3> QED BY <2>1, <3>1, StacksTyped
  <2> QED BY <1>12, <2>1, <2>2
<1>8. PICK c : c = [b EXCEPT !.frames[n] = t]
  OBVIOUS
<1>9. Walks(ds, hs, items \o s, c)
  <2>1. Steps(ds[n], hs[n], items, t, u) /\ n = b.level /\ Walks(ds, hs, s, [b EXCEPT !.frames[n] = u])
    BY <1>1, <1>3, <1>6, <1>7
  <2> QED BY <1>1, <1>3, <1>8, <2>1, StepsBefore
<1>10. c \in Stacks /\ c.level = n /\ \A l \in 1 .. n : c.frames[l] = a.frames[l]
  <2>1. c \in Stacks /\ c.level = b.level /\ c.frames[n] = t /\ \A l \in Nat : l # n => c.frames[l] = b.frames[l]
    <3>1. n \in Nat /\ t \in Frames /\ b \in Stacks
      BY <1>12
    <3> QED BY <1>8, <3>1, StacksTyped
  <2>2. ASSUME NEW l \in 1 .. n PROVE c.frames[l] = a.frames[l]
    <3>1. CASE l = n
      BY <1>1, <1>3, <2>1, <3>1
    <3>2. CASE l # n
      <4>1. l \in 1 .. n - 1
        BY <1>3, <3>2
      <4> QED BY <1>1, <1>3, <2>1, <3>2, <4>1
    <3> QED BY <3>1, <3>2
  <2> QED BY <1>1, <1>3, <2>1, <2>2
<1>11. Carried(ds, hs, c)
  BY <1>3, <1>5, <1>10 DEF Carried
<1> QED BY <1>9, <1>11 DEF HeightOK

LEMMA ResolvedEach ==
  ASSUME compilers \in Seq(Sound), NEW x, ~CannotResolve(x), Owner(x) \notin {0, Len(compilers)},
         NEW o, o = Owner(x), NEW slot, slot = resolveLocal(compilers[o], x), NEW c, c = UpvalueChain(x)
  PROVE  \A l \in 1 .. Len(compilers) :
           resolveUpvalue(x)[l] = Resolved(compilers, o, slot, c, l) /\ Similar(compilers[l], resolveUpvalue(x)[l])
<1>1. PICK cs, ds : cs = compilers /\ ds = resolveUpvalue(x)
  OBVIOUS
<1>2. PICK n \in Nat : n = Len(cs) /\ DOMAIN cs = 1 .. n
  BY <1>1, LenProperties
<1>3. \A l \in 1 .. n : Similar(cs[l], ds[l])
  BY <1>1, <1>2, UpvaluesResolved
<1>4. ASSUME NEW l \in 1 .. n PROVE ds[l] = Resolved(cs, o, slot, c, l)
  <2>1. CASE l = o
    <3>1. ds[l] = Captured(cs[l], slot)
      BY <1>1, <1>2, <2>1 DEF resolveUpvalue, Captured
    <3> QED BY <2>1, <3>1 DEF Resolved
  <2>2. CASE l # o /\ l > o
    <3>1. ds[l] = addUpvalue(cs[l], c[l])
      BY <1>1, <1>2, <2>2 DEF resolveUpvalue
    <3> QED BY <2>2, <3>1 DEF Resolved
  <2>3. CASE l # o /\ ~(l > o)
    <3>1. ds[l] = cs[l]
      BY <1>1, <1>2, <2>3 DEF resolveUpvalue
    <3> QED BY <2>3, <3>1 DEF Resolved
  <2> QED BY <2>1, <2>2, <2>3
<1> QED BY <1>1, <1>2, <1>3, <1>4

LEMMA ResolvedRises ==
  ASSUME CodegenOK, status = "compiling", NEW x, ~CannotResolve(x), NEW ds,
         ds = IF Owner(x) \in {0, Len(compilers)} THEN compilers ELSE resolveUpvalue(x)
  PROVE  Len(ds) = Len(compilers) /\ \A l \in 1 .. Len(ds) : Similar(compilers[l], ds[l]) /\ Widens(compilers[l], ds[l])
<1>1. compilers \in Seq(Sound)
  BY DEF CodegenOK
<1>2. \A l \in 1 .. Len(compilers) : compilers[l] \in CompilersTyped /\ Widens(compilers[l], compilers[l])
  BY <1>1, LevelTyped, ResolvedWidens
<1>3. CASE Owner(x) \in {0, Len(compilers)}
  <2>1. ds = compilers
    BY <1>3
  <2>2. \A f : Similar(f, f)
    BY DEF Similar
  <2> QED BY <1>2, <2>1, <2>2
<1>4. CASE Owner(x) \notin {0, Len(compilers)}
  <2>1. PICK o, c : o = Owner(x) /\ c = UpvalueChain(x)
    OBVIOUS
  <2>2. PICK slot : slot = resolveLocal(compilers[o], x)
    OBVIOUS
  <2>3. ds = resolveUpvalue(x)
    BY <1>4
  <2>4. /\ Len(compilers) \in Nat /\ Len(ds) = Len(compilers)
        /\ \A l \in 1 .. Len(compilers) :
             /\ ds[l] = Resolved(compilers, o, slot, c, l)
             /\ Similar(compilers[l], ds[l])
    <3>1. Len(compilers) \in Nat
      BY <1>1, LenProperties
    <3>2. Len(resolveUpvalue(x)) = Len(compilers)
      BY <1>1, <1>4, <2>1, <2>2, UpvaluesResolved
    <3>3. \A l \in 1 .. Len(compilers) :
            resolveUpvalue(x)[l] = Resolved(compilers, o, slot, c, l) /\ Similar(compilers[l], resolveUpvalue(x)[l])
      BY <1>1, <1>4, <2>1, <2>2, ResolvedEach
    <3> QED BY <2>3, <3>1, <3>2, <3>3
  <2>5. o \in 1 .. Len(compilers) /\ slot \in 0 .. Len(compilers[o].locals) - 1
    BY <1>1, <1>4, <2>1, <2>2, UpvaluesResolved
  <2>6. \A l \in o + 1 .. Len(compilers) : c[l] \in Upvalues
    BY <1>1, <1>4, <2>1, <2>2, UpvaluesResolved
  <2>7. slot \in Int
    BY <2>5
  <2>8. ASSUME NEW l \in 1 .. Len(compilers) PROVE Widens(compilers[l], Resolved(compilers, o, slot, c, l))
    <3>1. PICK f, u : f = compilers[l] /\ f \in CompilersTyped /\ u = c[l]
      BY <1>2
    <3>2. l > o => u \in Upvalues
      BY <2>4, <2>5, <2>6, <3>1
    <3>3. Widens(f, f) /\ Widens(f, Captured(f, slot)) /\ (l > o => Widens(f, addUpvalue(f, u)))
      BY <2>7, <3>1, <3>2, ResolvedWidens
    <3> QED BY <3>1, <3>3 DEF Resolved
  <2> QED BY <2>4, <2>8
<1> QED BY <1>3, <1>4

LEMMA namedVariableRises == ASSUME CodegenOK, CodegenOK', HeightOK, namedVariable PROVE HeightOK'
<1>1. status = "compiling" /\ First.do = "named"
  BY DEF namedVariable, Doing
<1>2. PICK x, verb : x = First.name /\ verb = First.code /\ x \in Identifiers /\ verb \in {"get", "set"}
  BY <1>1, Meeting DEF Items, Details
<1>3. CASE CannotResolve(x)
  BY <1>2, <1>3 DEF namedVariable, fail, HeightOK
<1>4. CASE ~CannotResolve(x)
  <2>1. PICK h, t, u : AtFirst(h, t, u)
    BY <1>1, Arriving DEF Terminators
  <2>2. PICK s : s = Tail(todo)
    OBVIOUS
  <2>3. /\ First \in Items /\ t \in Frames /\ u \in Frames /\ Moves(Current, h, t, First, u) /\ t.temps \in Nat /\ t.size > 0
        /\ Holds(Current, h, t) /\ s \in Seq(Items) /\ Meets(h, t, s, u) /\ t.pending \in Pendings
    BY <1>1, <2>1, <2>2, FirstTyped, Meeting DEF AtFirst
  <2>4. t.pending \notin {"function", "parameters"} /\ Becomes(t, u, t.size, t.pending, t.temps + 1)
    BY <1>1, <2>3, MovesExpression
  <2>5. PICK code \in Codes : code = Access(verb, x)
    BY <1>1, <1>2, AccessCode
  <2>6. Reaches(code, verb, Values(t))
    BY <1>1, <1>2, <1>4, <2>3, <2>4, <2>5, AccessReads DEF Holds, Pendings
  <2>7. PICK e, y : e = Expression /\ y = [Item("access") EXCEPT !.name = x, !.code = code]
    OBVIOUS
  <2>8. y \in Items /\ y.do = "access" /\ y.code = code
    <3>1. y \in Items
      BY <1>2, <2>5, <2>7, AccessMade
    <3>2. y.do = "access" /\ y.code = code
      BY <2>7 DEF Item
    <3> QED BY <3>1, <3>2
  <2>9. e \in Items /\ e.do = "expression"
    BY <2>7, ExpressionMade, Does
  <2>10. PICK ds : ds = compilers'
    OBVIOUS
  <2>11. /\ ds = IF Owner(x) \in {0, Len(compilers)} THEN compilers ELSE resolveUpvalue(x)
         /\ Continue(IF verb = "set" THEN <<e, y>> ELSE <<y>>)
    BY <1>2, <1>4, <2>5, <2>7, <2>10 DEF namedVariable
  <2>12. Len(ds) = Len(compilers) /\ \A l \in 1 .. Len(ds) : Similar(compilers[l], ds[l]) /\ Widens(compilers[l], ds[l])
    BY <1>1, <1>4, <2>11, ResolvedRises
  <2>13. ASSUME NEW f
         PROVE  \E items \in Seq(Items) : Steps(f, h, items, t, u) /\ todo' = items \o s
    <3>1. y.do \notin Terminators /\ e.do \notin Terminators
      BY <2>8, <2>9 DEF Terminators
    <3>2. CASE verb = "set"
      <4>1. todo' = <<e, y>> \o s
        BY <1>1, <2>2, <2>11, <3>2 DEF Continue
      <4>2. PICK m \in Nat : m = t.temps + 1
        BY <2>3
      <4>3. PICK v \in Frames : /\ Becomes(t, v, t.size, t.pending, m) /\ Values(v) = Values(t)
                               /\ v.size = t.size /\ v.pending = t.pending /\ v.temps = m
                               /\ \A w, a, b, z : Becomes(t, w, a, b, z) => Becomes(v, w, a, b, z)
        BY <2>3, <4>2, Amid
      <4>4. Moves(f, h, t, e, v)
        BY <2>3, <2>4, <2>9, <4>2, <4>3, MovesExpression
      <4>5. Moves(f, h, v, y, u)
        <5>1. Simple(y, v)
          BY <2>3, <2>6, <2>8, <3>2, <4>2, <4>3 DEF Reaches, Simple
        <5>2. v.size > 0 /\ v.pending # "parameters"
          BY <2>3, <2>4, <4>3
        <5>3. Becomes(v, u, v.size, v.pending, v.temps - Takes(y.code, 1) + Leaves(y.code, 1))
          <6>1. v.temps - Takes(y.code, 1) + Leaves(y.code, 1) = m
            BY <2>6, <2>8, <3>2, <4>2, <4>3 DEF Reaches
          <6>2. Becomes(v, u, t.size, t.pending, m)
            BY <2>4, <4>2, <4>3
          <6> QED BY <4>3, <6>1, <6>2
        <5> QED BY <2>8, <4>3, <5>1, <5>2, <5>3, MovesEmit
      <4>6. Steps(f, h, <<e, y>>, t, u) /\ <<e, y>> \in Seq(Items)
        BY <2>3, <2>8, <2>9, <3>1, <4>4, <4>5, Steps2
      <4> QED BY <4>1, <4>6
    <3>3. CASE verb = "get"
      <4>1. todo' = <<y>> \o s
        BY <1>1, <2>2, <2>11, <3>3 DEF Continue
      <4>2. Moves(f, h, t, y, u)
        <5>1. Simple(y, t)
          BY <2>3, <2>6, <2>8, <3>3 DEF Reaches, Simple
        <5>2. t.temps - Takes(y.code, 1) + Leaves(y.code, 1) = t.temps + 1
          BY <2>3, <2>6, <2>8, <3>3 DEF Reaches
        <5>3. Becomes(t, u, t.size, t.pending, t.temps - Takes(y.code, 1) + Leaves(y.code, 1))
          BY <2>4, <5>2
        <5> QED BY <2>3, <2>4, <2>8, <5>1, <5>3, MovesEmit
      <4>3. Steps(f, h, <<y>>, t, u) /\ <<y>> \in Seq(Items)
        BY <2>3, <2>8, <3>1, <4>2, Steps1
      <4> QED BY <4>1, <4>3
    <3> QED BY <1>2, <3>2, <3>3
  <2>14. PICK items \in Seq(Items) : Steps(ds[Len(ds)], h, items, t, u) /\ todo' = items \o s
    BY <2>13
  <2> QED BY <1>1, <2>3, <2>10, <2>12, <2>14, WidensRise
<1> QED BY <1>3, <1>4

----------------------------------------------------------------------------
(* The whole parse. *)

LEMMA BeginsHeight ==
  ASSUME NEW cs, cs = <<NewCompiler("script")>>, NEW s, s = <<Item("program")>>
  PROVE  \E hs, a : Carried(cs, hs, a) /\ Walks(cs, hs, s, a)
<1>1. PICK f, x : f = NewCompiler("script") /\ x = Item("program")
  OBVIOUS
<1>2. cs = <<f>> /\ s = <<x>>
  BY <1>1
<1>3. x \in Items /\ x.do = "program"
  BY <1>1, ItemMade DEF Bare, Tasks, Terminators
<1>4. PICK v : v = Beginning(0, "none")
  OBVIOUS
<1>5. v \in Frames /\ v.temps = 0 /\ v.pending = "none"
  <2>1. PICK depth \in Nat, pending \in {"none", "parameters"} : depth = 0 /\ pending = "none"
    OBVIOUS
  <2> QED BY <1>4, <2>1, BeginningIs
<1>6. Holds(f, Empty, v)
  <2>1. PICK depth \in {0, 1}, pending \in {"none", "parameters"} : depth = 0 /\ pending = "none"
    OBVIOUS
  <2>2. PICK type \in FunctionTypes : type = "script"
    BY DEF FunctionTypes
  <2>3. PICK g : g = (IF depth = 0 THEN f ELSE beginScope(f))
    OBVIOUS
  <2>4. f = NewCompiler(type) /\ v = Beginning(depth, pending) /\ (pending = "parameters" => depth = 1)
    BY <1>1, <1>4, <2>1, <2>2
  <2>5. Holds(g, Empty, v)
    BY <2>3, <2>4, NewHolds
  <2> QED BY <2>1, <2>3, <2>5
<1>7. PICK frames, hs : frames = [l \in Nat |-> v] /\ hs = [l \in Nat |-> Empty]
  OBVIOUS
<1>8. PICK a, b : a = [level |-> 1, frames |-> frames] /\ b = [level |-> 0, frames |-> frames]
  OBVIOUS
<1>9. a \in Stacks /\ b \in Stacks /\ a.level = 1 /\ b.level = 0 /\ a.frames[1] = v /\ hs[1] = Empty
  <2>1. frames \in [Nat -> Frames] /\ frames[1] = v /\ hs[1] = Empty
    BY <1>5, <1>7
  <2> QED BY <1>8, <2>1 DEF Stacks
<1>10. Len(cs) = 1 /\ cs[1] = f
  BY <1>2
<1>11. Carried(cs, hs, a)
  <2>1. \A l \in 1 .. 1 : l = 1
    OBVIOUS
  <2> QED BY <1>6, <1>9, <1>10, <2>1 DEF Carried
<1>12. Leads(cs, hs, a, x, b)
  <2>1. \A l \in 1 .. 1 - 1 : FALSE
    OBVIOUS
  <2>2. x.do \in Terminators
    BY <1>3 DEF Terminators
  <2> QED BY <1>5, <1>9, <2>1, <2>2 DEF Leads
<1>13. PICK e : e = <<>>
  OBVIOUS
<1>14. e \in Seq(Items) /\ Len(e) = 0
  BY <1>13
<1>15. Walks(cs, hs, e, b)
  <2>1. PICK g : g = [k \in 1 .. 1 |-> b]
    OBVIOUS
  <2>2. g \in [1 .. Len(e) + 1 -> Stacks] /\ g[1] = b
    BY <1>9, <1>14, <2>1
  <2>3. \A j, k \in 1 .. Len(e) + 1 : g[k].level <= g[j].level
    BY <1>9, <1>14, <2>1
  <2>4. \A k \in 1 .. Len(e) : FALSE
    BY <1>14
  <2> QED BY <2>2, <2>3, <2>4 DEF Walks, Walk
<1>16. Walks(cs, hs, <<x>> \o e, a)
  BY <1>3, <1>9, <1>12, <1>14, <1>15, LeadsFirst
<1>17. <<x>> \o e = s
  <2>1. <<x>> \in Seq(Items)
    BY <1>3
  <2> QED BY <1>2, <1>13, <2>1, ConcatEmptySeq
<1> QED BY <1>11, <1>16, <1>17

LEMMA InitHeight == Init => HeightOK
<1> SUFFICES ASSUME Init PROVE HeightOK
  OBVIOUS
<1>1. PICK cs, s : cs = compilers /\ s = todo /\ cs = <<NewCompiler("script")>> /\ s = <<Item("program")>>
  BY DEF Init
<1>2. \E hs, a : Carried(cs, hs, a) /\ Walks(cs, hs, s, a)
  BY <1>1, BeginsHeight
<1> QED BY <1>1, <1>2 DEF HeightOK

LEMMA compileHeight == compile => HeightOK'
<1> SUFFICES ASSUME compile PROVE HeightOK'
  OBVIOUS
<1>1. PICK cs, s : cs = compilers' /\ s = todo' /\ cs = <<NewCompiler("script")>> /\ s = <<Item("program")>>
  BY DEF compile
<1>2. \E hs, a : Carried(cs, hs, a) /\ Walks(cs, hs, s, a)
  BY <1>1, BeginsHeight
<1> QED BY <1>1, <1>2 DEF HeightOK

LEMMA ExpressionsRise == ASSUME CodegenOK, CodegenOK', HeightOK, ExpressionRules PROVE HeightOK'
<1>1. CASE literal \/ this_ \/ \E verb \in DOMAIN Instructions, x \in Names : variable(verb, x)
  BY <1>1, literalRises, variablesRise
<1>2. CASE \E form \in DOMAIN Shortcut : logical(form)
  BY <1>2, logicalRises
<1>3. CASE \E form \in DOMAIN Operations : operation(form)
  BY <1>3, operationRises
<1>4. CASE \E n \in 0 .. ARGUMENT_MAX + 1 : call(n) \/ invoke(n) \/ arrayLiteral(n) \/ objectLiteral(n)
  BY <1>4, callsRise, objectLiteralRises
<1> QED BY <1>1, <1>2, <1>3, <1>4 DEF ExpressionRules

LEMMA NextRises == ASSUME CodegenOK, CodegenOK', AccessOK, HeightOK, [Next]_vars PROVE HeightOK'
<1>1. CASE UNCHANGED vars
  BY <1>1 DEF vars, HeightOK
<1>2. CASE compile
  BY <1>2, compileHeight
<1>3. CASE Declarations
  <2>1. PICK x \in Names : varDeclaration(x) \/ funDeclaration(x) \/ classDeclaration(x) \/ parameter(x)
    BY <1>3 DEF Declarations
  <2> QED BY <2>1, varDeclarationRises, funDeclarationRises, classDeclarationRises, parameterRises
<1>4. CASE Statements
  BY <1>4, expressionStatementRises, blockStatementRises, returnStatementRises, forStatementRises, breakStatementRises,
     continueStatementRises, branchStatementRises DEF Statements
<1>5. CASE ExpressionRules
  BY <1>5, ExpressionsRise
<1>6. CASE endScript
  BY <1>6 DEF endScript, HeightOK
<1>7. CASE declarations \/ blockEnds \/ programEnds \/ emitItem \/ patchItem \/ initializer \/ define \/ variablesEnd \/ classEnds
  BY <1>7, declarationsRises, dropsRise, programEndsRises, emitItemRises, patchItemRises, initializerRises, defineRises
<1>8. CASE method \/ function \/ parametersEnd \/ functionEnds \/ endBlock \/ forCondition \/ forExit \/ forIncrement
  BY <1>8, methodRises, functionRises, parametersEndRises, functionEndsRises, endBlockRises, forConditionRises,
     forExitRises, forIncrementRises
<1>9. CASE forLoop \/ forBody \/ forEnds \/ branchCaseStatement \/ caseThen \/ caseElse \/ shortcut \/ objectEnds \/ namedVariable
  BY <1>9, forLoopRises, forBodyRises, forEndsRises, branchCaseStatementRises, caseThenRises, caseElseRises, shortcutRises,
     objectEndsRises, namedVariableRises
<1> QED BY <1>1, <1>2, <1>3, <1>4, <1>5, <1>6, <1>7, <1>8, <1>9 DEF Next, Resume

LEMMA HeightSound == Spec => [](CodegenOK /\ AccessOK /\ HeightOK)
<1>1. Init => CodegenOK /\ AccessOK /\ HeightOK
  BY InitOK, InitAccess, InitHeight
<1>2. CodegenOK /\ AccessOK /\ HeightOK /\ [Next]_vars => (CodegenOK /\ AccessOK /\ HeightOK)'
  BY NextOK, NextAccess, NextRises
<1> QED BY <1>1, <1>2, PTL DEF Spec

(* The sets of points that Flow goes through. *)
Spread(code, points) == points \cup UNION {After(code, point) : point \in {q \in points : Decodes(code, q.at)}}
SpreadBy(f, r) ==
  [n \in 0 .. Len(f.code) |-> IF n = 0 THEN {[at |-> 1, height |-> f.arity + 1, open |-> {}]} ELSE Spread(f.code, r[n - 1])]
Reached(f) == CHOOSE r : r = SpreadBy(f, r)

LEMMA FlowIs ==
  ASSUME NEW f
  PROVE  Flow(f) = Reached(f)[Len(f.code)]
BY Zenon DEF Flow, Reached, SpreadBy, Spread

(* The points that a map allows. *)
Allowed(f, h) ==
  {[at |-> p, height |-> h[p], open |-> o] : p \in DOMAIN h, o \in SUBSET UNION {Captures(f.code, q) : q \in DOMAIN h}}

LEMMA AllowedIs ==
  ASSUME NEW f, NEW h, NEW p \in DOMAIN h, NEW o \in SUBSET UNION {Captures(f.code, q) : q \in DOMAIN h}
  PROVE  [at |-> p, height |-> h[p], open |-> o] \in Allowed(f, h)
<1>1. PICK U : U = SUBSET UNION {Captures(f.code, q) : q \in DOMAIN h}
  OBVIOUS
<1>2. o \in U /\ Allowed(f, h) = {[at |-> q, height |-> h[q], open |-> w] : q \in DOMAIN h, w \in U}
  BY <1>1 DEF Allowed
<1> QED BY <1>2
LEMMA AfterAllowed ==
  ASSUME NEW f, NEW h, Mapped(f, h), NEW point \in Allowed(f, h), Decodes(f.code, point.at)
  PROVE  After(f.code, point) \subseteq Allowed(f, h)
<1>1. PICK U : U = UNION {Captures(f.code, q) : q \in DOMAIN h}
  OBVIOUS
<1>2. PICK p \in DOMAIN h, o \in SUBSET U : point = [at |-> p, height |-> h[p], open |-> o]
  BY <1>1 DEF Allowed
<1>3. point.at = p /\ point.height = h[p] /\ point.open = o
  BY <1>2
<1>4. Decodes(f.code, p) /\ p <= Count(f) /\ f.code[p].op # "operand"
  BY <1>3 DEF Decodes, Count
<1>5. \A t \in Targets(f.code, p) : t \in DOMAIN h /\ h[t] = h[p] - Takes(f.code, p) + Leaves(f.code, p)
  BY <1>2, <1>4 DEF Mapped, Maps, Dead
<1>6. PICK w : w = IF f.code[p].op = "CLOSE_UPVALUE" THEN o \ {h[p] - 1} ELSE o \cup Captures(f.code, p)
  OBVIOUS
<1>7. w \in SUBSET U
  BY <1>1, <1>2, <1>6
<1>8. After(f.code, point) = {[at |-> t, height |-> h[p] - Takes(f.code, p) + Leaves(f.code, p), open |-> w] : t \in Targets(f.code, p)}
  BY <1>3, <1>6 DEF After
<1>9. ASSUME NEW t \in Targets(f.code, p)
      PROVE  [at |-> t, height |-> h[p] - Takes(f.code, p) + Leaves(f.code, p), open |-> w] \in Allowed(f, h)
  <2>1. t \in DOMAIN h /\ h[t] = h[p] - Takes(f.code, p) + Leaves(f.code, p)
    BY <1>5
  <2>2. w \in SUBSET UNION {Captures(f.code, q) : q \in DOMAIN h}
    BY <1>1, <1>7
  <2>3. [at |-> t, height |-> h[t], open |-> w] \in Allowed(f, h)
    BY <2>1, <2>2, AllowedIs
  <2> QED BY <2>1, <2>3
<1> QED BY <1>8, <1>9

LEMMA SpreadAllowed ==
  ASSUME NEW f, NEW h, Mapped(f, h), NEW points \in SUBSET Allowed(f, h)
  PROVE  Spread(f.code, points) \in SUBSET Allowed(f, h)
<1>1. \A q \in points : Decodes(f.code, q.at) => After(f.code, q) \subseteq Allowed(f, h)
  BY AfterAllowed
<1> QED BY <1>1 DEF Spread

LEMMA FlowAllowed ==
  ASSUME NEW f \in CompilersTyped, NEW h, Mapped(f, h)
  PROVE  \A p \in Flow(f) : p.at \in DOMAIN h /\ p.height = h[p.at]
<1>1. PICK n \in Nat : n = Len(f.code)
  BY Counts DEF Count
<1>2. PICK P, a : P = SUBSET Allowed(f, h) /\ a = {[at |-> 1, height |-> f.arity + 1, open |-> {}]}
  OBVIOUS
<1>3. a \in P
  <2>1. 1 \in DOMAIN h /\ h[1] = f.arity + 1
    BY DEF Mapped
  <2>2. PICK o, k, y : o = {} /\ k = 1 /\ y = [at |-> k, height |-> h[k], open |-> o]
    OBVIOUS
  <2>3. k \in DOMAIN h /\ o \in SUBSET UNION {Captures(f.code, q) : q \in DOMAIN h}
    BY <2>1, <2>2
  <2>4. y \in Allowed(f, h)
    BY <2>2, <2>3, AllowedIs
  <2>5. a = {y}
    BY <1>2, <2>1, <2>2
  <2> QED BY <1>2, <2>4, <2>5
<1> DEFINE V == [i \in 0 .. n |-> P]
           F == [i \in 1 .. n |-> [v \in P |-> Spread(f.code, v)]]
<1>4. \A v \in P : Spread(f.code, v) \in P
  BY <1>2, SpreadAllowed
<1>5. a \in V[0]
  BY <1>1, <1>3
<1>6. \A i \in 1 .. n : \A v \in V[i - 1] : F[i][v] \in V[i]
  <2>1. TAKE i \in 1 .. n
  <2>2. V[i - 1] = P /\ V[i] = P /\ F[i] = [v \in P |-> Spread(f.code, v)]
    BY <1>1
  <2> QED BY <1>4, <2>2
<1>7. \A i \in 1 .. n : \A v \in V[i - 1] : F[i][v] = Spread(f.code, v)
  <2>1. TAKE i \in 1 .. n
  <2>2. V[i - 1] = P /\ F[i] = [v \in P |-> Spread(f.code, v)]
    BY <1>1
  <2> QED BY <2>2
<1>8. V[n] = P
  BY <1>1
<1> HIDE DEF V, F
<1>9. PICK g : Recursive(g, n, V, a, F)
  BY <1>5, <1>6, RecursionExists
<1>10. PICK r : r = [i \in 0 .. n |-> g[i]]
  OBVIOUS
<1>11. r = SpreadBy(f, r)
  <2>1. ASSUME NEW i \in 0 .. n PROVE g[i] = IF i = 0 THEN a ELSE Spread(f.code, r[i - 1])
    <3>1. CASE i = 0
      BY <1>9, <3>1 DEF Recursive
    <3>2. CASE i # 0
      <4>1. i \in 1 .. n /\ i - 1 \in 0 .. n
        BY <1>1, <3>2
      <4>2. g[i - 1] \in V[i - 1] /\ g[i] = F[i][g[i - 1]]
        BY <1>9, <4>1 DEF Recursive
      <4>3. g[i] = Spread(f.code, g[i - 1])
        BY <1>7, <4>1, <4>2
      <4>4. r[i - 1] = g[i - 1]
        BY <1>10, <4>1
      <4> QED BY <3>2, <4>3, <4>4
    <3> QED BY <3>1, <3>2
  <2> QED BY <1>1, <1>2, <1>10, <2>1 DEF SpreadBy
<1>12. PICK R : R = Reached(f)
  OBVIOUS
<1>13. R = SpreadBy(f, R)
  BY <1>11, <1>12, Zenon DEF Reached
<1>14. R[0] = a /\ \A i \in 1 .. n : R[i] = Spread(f.code, R[i - 1])
  <2>1. R = [i \in 0 .. n |-> IF i = 0 THEN a ELSE Spread(f.code, R[i - 1])]
    BY <1>1, <1>2, <1>13 DEF SpreadBy
  <2>2. 0 \in 0 .. n /\ \A i \in 1 .. n : i \in 0 .. n /\ i # 0
    BY <1>1
  <2> QED BY <2>1, <2>2
<1>15. \A i \in 1 .. n : R[i - 1] \in V[i - 1] => R[i] = F[i][R[i - 1]]
  BY <1>7, <1>14
<1>16. R[n] \in P
  <2>1. n \in 0 .. n
    BY <1>1
  <2>2. \A i \in 0 .. n : R[i] = g[i] /\ R[i] \in V[i]
    BY <1>9, <1>14, <1>15, Determined
  <2> QED BY <1>8, <2>1, <2>2
<1>17. Flow(f) \subseteq Allowed(f, h)
  BY <1>1, <1>2, <1>12, <1>16, FlowIs
<1>18. \A p \in Allowed(f, h) : p.at \in DOMAIN h /\ p.height = h[p.at]
  BY DEF Allowed
<1> QED BY <1>17, <1>18

LEMMA HeightsFollow == CodegenOK /\ HeightOK => HeightIsLocalCount
<1>1. SUFFICES ASSUME CodegenOK, HeightOK, AtStatement
               PROVE  \A p \in Flow(Current) : p.at = Count(Current) + 1 => p.height = Len(Current.locals)
  BY DEF HeightIsLocalCount
<1>2. status = "compiling" /\ First.do \in {"declaration", "statement"}
  BY <1>1 DEF AtStatement, Doing
<1>3. PICK h, t, u : AtFirst(h, t, u)
  BY <1>1, <1>2, Arriving DEF Terminators
<1>4. PICK f : f = Current
  OBVIOUS
<1>5. /\ First \in Items /\ f \in CompilersTyped /\ t \in Frames /\ Moves(f, h, t, First, u) /\ Holds(f, h, t)
      /\ t.temps \in Nat /\ t.size \in Nat
  BY <1>1, <1>2, <1>3, <1>4, FirstTyped
<1>6. t.temps = 0 /\ t.pending = "none"
  BY <1>2, <1>5 DEF Moves, Closing
<1>7. Height(t) = t.size
  BY <1>5, <1>6 DEF Height, Values
<1>8. Mapped(f, h) /\ h[Count(f) + 1] = t.size /\ t.size = Len(f.locals)
  BY <1>5, <1>7 DEF Holds, Ends, Fitting
<1>9. \A p \in Flow(f) : p.at \in DOMAIN h /\ p.height = h[p.at]
  BY <1>5, <1>8, FlowAllowed
<1> QED BY <1>4, <1>8, <1>9

(* What CodeExecutes asks of a finished function. *)
Executable(f) ==
  /\ \A p \in Flow(f) : p.at \in 1 .. Count(f) /\ Executes(f, p.at, p.height)
  /\ \A p, q \in Flow(f) : p.at = q.at => p.height = q.height

LEMMA ReturnsExecute ==
  ASSUME NEW f \in CompilersTyped, f.type # "initializer", NEW h, NEW n \in Nat, Ends(f, h, n), n >= 1, NEW g, g = emitReturn(f)
  PROVE  Executable(g)
<1>1. PICK a, b \in Nat : a = 0 /\ b = 1
  OBVIOUS
<1>2. PICK j : g \in CompilersTyped /\ Ends(g, j, a)
  BY EmitsReturn
<1>3. PICK k : Ends(g, k, b)
  BY EmitsReturn
<1>4. Mapped(g, j) /\ Mapped(g, k)
  BY <1>2, <1>3 DEF Ends
<1>5. \A p \in Flow(g) : p.at \in DOMAIN j /\ p.height = j[p.at]
  BY <1>2, <1>4, FlowAllowed
<1>6. \A p \in Flow(g) : p.at \in DOMAIN k /\ p.height = k[p.at]
  BY <1>2, <1>4, FlowAllowed
<1>7. g.type # "initializer"
  BY ReturnCode DEF emitReturn, emit, CompilersTyped
<1>8. PICK m \in Nat : m = Count(g)
  BY <1>2, Counts
<1>9. ASSUME NEW p \in Flow(g) PROVE p.at \in 1 .. m /\ Executes(g, p.at, p.height)
  <2>1. PICK x : x = p.at /\ x \in DOMAIN j /\ x \in DOMAIN k /\ p.height = j[x] /\ p.height = k[x]
    BY <1>5, <1>6
  <2>2. x \in 1 .. m + 1
    BY <1>4, <1>8, <2>1 DEF Mapped
  <2>3. x # m + 1
    <3>1. PICK e : e = Count(g) + 1 /\ e = m + 1
      BY <1>8
    <3>2. j[e] = a /\ k[e] = b
      BY <1>2, <1>3, <3>1 DEF Ends
    <3>3. j[x] = k[x]
      BY <2>1
    <3>4. j[e] # k[e]
      BY <1>1, <3>2
    <3> QED BY <3>1, <3>3, <3>4
  <2>4. x \in 1 .. m /\ x <= Count(g)
    BY <1>8, <2>2, <2>3
  <2>5. Maps(g, j, x)
    BY <1>4, <2>1, <2>4 DEF Mapped
  <2>6. Executes(g, x, j[x])
    BY <1>7, <2>5 DEF Maps, Dead
  <2> QED BY <2>1, <2>4, <2>6
<1> QED BY <1>5, <1>8, <1>9 DEF Executable

LEMMA ExecutesFollow == CodegenOK /\ HeightOK /\ Current.type # "initializer" => CodeExecutes
<1>1. SUFFICES ASSUME CodegenOK, HeightOK, Doing("end"), Current.type # "initializer", NEW f, f = emitReturn(Current)
               PROVE  /\ \A p \in Flow(f) :
                           /\ Decodes(f.code, p.at)
                           /\ p.height - Takes(f.code, p.at) >= 1
                           /\ Captures(f.code, p.at) \subseteq 0 .. p.height
                           /\ f.code[p.at].op \in {"GET_LOCAL", "SET_LOCAL"} => ReadByte(f.code, p.at + 1) < p.height
                           /\ f.code[p.at].op \in {"GET_UPVALUE", "SET_UPVALUE"} =>
                                ReadByte(f.code, p.at + 1) < Len(f.upvalues)
                      /\ \A p, q \in Flow(f) : p.at = q.at => p.height = q.height
  BY DEF CodeExecutes
<1>2. status = "compiling" /\ First.do \in Terminators
  BY <1>1 DEF Doing, Terminators
<1>3. PICK h, t : Closes(h, t)
  BY <1>1, <1>2, Terminating
<1>4. PICK n \in Nat : n = Height(t) /\ n >= 1
  <2>1. t \in Frames /\ t.temps = 0 /\ t.pending = "none" /\ Fitting(Current, t)
    BY <1>3 DEF Closes, Holds
  <2>2. Values(t) = t.size /\ t.size \in Nat /\ Values(t) > 0
    BY <2>1, FrameTyped DEF Values, Fitting
  <2> QED BY <2>1, <2>2 DEF Height
<1>5. Current \in CompilersTyped /\ Ends(Current, h, n)
  BY <1>1, <1>2, <1>3, <1>4, Meeting DEF Closes, Holds
<1>6. Executable(f)
  BY <1>1, <1>4, <1>5, ReturnsExecute
<1> QED BY <1>6 DEF Executable, Executes, Whole

(* Between statements, on every path through the code so far, the stack is   *)
(* as high as the compiler has locals: a local's index is its slot.          *)
THEOREM HeightsAreLocalCounts == Spec => []HeightIsLocalCount
BY HeightsFollow, HeightSound, PTL

(* Every finished function but an initializer runs: on every path the        *)
(* machine decodes whole instructions, finds the operands they take, reads   *)
(* and captures only slots and upvalues that exist, always has the same      *)
(* height at one position, and never runs off the end.                       *)
THEOREM FunctionsExecute == Spec => [](Current.type # "initializer" => CodeExecutes)
<1>1. CodegenOK /\ AccessOK /\ HeightOK => (Current.type # "initializer" => CodeExecutes)
  BY ExecutesFollow
<1> QED BY <1>1, HeightSound, PTL

(* So does all code of programs whose classes have no init. *)
THEOREM CodeRuns ==
  ASSUME "initializer" \notin MethodTypes
  PROVE  Spec => []CodeExecutes
<1>1. CodegenOK /\ AccessOK /\ HeightOK => CodeExecutes
  <2>1. SUFFICES ASSUME CodegenOK, HeightOK, Doing("end") PROVE CodeExecutes
    BY DEF CodeExecutes
  <2>2. Current.type # "initializer"
    <3>1. Current \in CompilersTyped
      BY <2>1, Meeting DEF Doing
    <3> QED BY <3>1 DEF CompilersTyped, FunctionTypes
  <2> QED BY <2>1, <2>2, ExecutesFollow
<1> QED BY <1>1, HeightSound, PTL
=============================================================================
