--------------------------------- MODULE Gc ---------------------------------
(***************************************************************************)
(* The garbage collector of FliteLang (src/gc.c, src/memory.c), the        *)
(* dynamic objects (src/object.c), and the instructions of the virtual     *)
(* machine that allocate (src/vm.c).  Every request for memory may run a   *)
(* whole collection before it is granted, so an instruction that allocates *)
(* has a step before each request and one after: what it keeps in C        *)
(* variables across the request is protected only if a root reaches it.    *)
(*                                                                         *)
(* The collector marks the roots, traces gray objects one by one, sweeps   *)
(* the list of dynamic objects and flips the meaning of the mark.          *)
(* Functions, natives, strings and numbers take no part in collections: to *)
(* this module they are all Nil.  Which request collects depends on sizes  *)
(* (bytesAllocated > nextGC, which a program may set) and is left open.    *)
(*                                                                         *)
(* What Allowed does not contain is not modelled:                          *)
(*   "captured break"  OP_POP or OP_POP_N drops a local that an open       *)
(*                     upvalue points to, as break and continue do;        *)
(*   "captured error"  a runtime error with upvalues still open.           *)
(* Errors that run goes on after are left to Vm.                           *)
(***************************************************************************)
EXTENDS Naturals, Sequences, FiniteSets

CONSTANTS Addresses,   \* where dynamic objects may lie
          Statics,     \* objects of the VM structure: emptyClass, the built-in modules
          emptyClass,  \* the class of object literals
          Nil,         \* any value that is not a dynamic or static object
          Programs,    \* bound of the model: the kinds of objects a program deals with
          Size,        \* bound of the model: how much of each such a program holds
          MaxStack,    \* bound of the model: slots of the stack
          MaxRefs,     \* bound of the model: fields, elements, methods, upvalues, globals
          MaxFrames,   \* bound of the model: frames above the script's
          Allowed      \* see above

ASSUME GcAssumption ==
  /\ Addresses \cap Statics = {} /\ Nil \notin Addresses \cup Statics
  /\ emptyClass \in Statics
  /\ Programs \subseteq SUBSET {"class", "instance", "array", "closure", "upvalue", "module"}
  /\ \A p \in Programs : Size[p] \in [objects : Nat, slots : Nat, refs : Nat]
  /\ MaxStack \in Nat /\ MaxRefs \in Nat /\ MaxFrames \in Nat
  /\ Allowed \subseteq {"captured break", "captured error"}

VARIABLES
  program,    \* the kinds of objects this program deals with
  kind,       \* type of the object at an address, or "free"
  link,       \* klass of an instance, method of a bound method
  refs,       \* what its fields, elements, methods, upvalues, receiver or closed refer to
  isMarked,   \* the mark of each object
  usingMark,  \* the mark that means marked
  stack,      \* the values up to stackTop
  left,       \* what a slot above stackTop holds, for an upvalue that points there
  open,       \* the list of open upvalues, each with its slot
  loose,      \* the upvalues an error took off the list, each with its slot
  globals,    \* what vm.globals.fields refers to
  frames,     \* the closures of the frames above the script's
  slots,      \* the slot 0 of each of these frames
  site,       \* where the running instruction waits for memory
  phase,      \* "run", or what the collector does
  grayStack   \* the objects marked and not traced, their order left out

vars == <<program, kind, link, refs, isMarked, usingMark, stack, left, open, loose, globals,
          frames, slots, site, phase, grayStack>>
heap == <<program, kind, link, refs, isMarked, usingMark>>
activations == <<frames, slots>>
roots == <<stack, left, open, loose, globals, activations>>
collector == <<phase, grayStack>>

Objs == Addresses \cup Statics
Elements(s) == {s[i] : i \in DOMAIN s}
Kinds == {"class", "instance", "array", "closure", "upvalue", "bound"}
Live == {a \in Addresses : kind[a] # "free"}
Idle == [doing |-> "nothing", slot |-> 0]
Height == Len(stack)
Peek(n) == stack[Height - n]
Is(v, k) == v \in Live /\ kind[v] = k
(* The slot the running function does not pop: the closure or `this`. *)
Floor == IF slots = <<>> THEN 0 ELSE slots[Len(slots)]
Captured(s) == \E u \in DOMAIN open : open[u] = s
(* The top n values are temporaries: no upvalue points to their slots. *)
Temporaries(n) == n + Floor <= Height /\ \A s \in Height - n + 1 .. Height : ~Captured(s)

(* A mutant: the test for an object is left out. *)
AllOf(values) == values

(* IS_OBJ: the values that refer to objects. *)
Referents(values) == values \ {Nil}

----------------------------------------------------------------------------
(* Reachability. *)

(* What markRoots starts from: the stack, the closures of the frames, the    *)
(* open upvalues and the globals.  (The functions being compiled are roots   *)
(* too, and take no part.)                                                   *)
Roots == (Elements(stack) \cup Elements(frames) \cup DOMAIN open \cup globals) \ {Nil}

(* A mutant: the list of open upvalues is forgotten. *)
RootsWithoutUpvalues == (Elements(stack) \cup Elements(frames) \cup globals) \ {Nil}

(* A mutant: the loop over the stack stops a slot too early. *)
RootsBelowTop ==
  (Elements(SubSeq(stack, 1, Height - 1)) \cup Elements(frames) \cup DOMAIN open \cup globals) \ {Nil}

MarkedRoots == (Elements(stack) \cup Elements(frames) \cup DOMAIN open \cup globals) \ {Nil}

(* What the object points to. *)
Successors(o) == refs[o] \cup ({link[o]} \ {Nil})

(* A mutant: an instance does not mark its class. *)
TracedRefs(o) == refs[o]

(* What blackenObject marks. *)
Traced(o) == refs[o] \cup ({link[o]} \ {Nil})

(* What it reads in the stack: values up to the top are roots, those above   *)
(* it are not, and blackenObject does not look at them.                      *)
Location(o) ==
  IF o \in DOMAIN open THEN {open[o]} ELSE IF o \in DOMAIN loose THEN {loose[o]} ELSE {}
LeftTo(o) == Referents({left[s] : s \in UNION {Location(u) : u \in refs[o]}})

(* *upvalue->location *)
Slot(s) == IF s <= Height THEN stack[s] ELSE left[s]

(* What a step leaves above the new top for the upvalues of the list op, and *)
(* for the loose ones.                                                       *)
KeepLeft(op) ==
  left' = [s \in 1 .. MaxStack |->
             IF s > Len(stack') /\ \/ \E u \in DOMAIN op : op[u] = s
                                   \/ \E u \in DOMAIN loose : loose[u] = s
               THEN Slot(s)
               ELSE Nil]

(* The objects that every closed set around the roots contains. *)
Closed(S) == \A p \in S : Successors(p) \cup LeftTo(p) \subseteq S
Reachable ==
  {o \in Objs : \A others \in SUBSET (Objs \ Roots) : Closed(Roots \cup others) => o \in Roots \cup others}

----------------------------------------------------------------------------
Init ==
  /\ program \in Programs
  /\ kind = [a \in Addresses |-> "free"]
  /\ link = [o \in Objs |-> Nil]
  /\ refs = [o \in Objs |-> {}]
  /\ isMarked = [o \in Objs |-> o \in Statics]
  /\ usingMark = TRUE
  /\ stack = <<>> /\ left = [s \in 1 .. MaxStack |-> Nil]
  /\ open = [u \in {} |-> 0] /\ loose = [u \in {} |-> 0]
  /\ globals = {} /\ frames = <<>> /\ slots = <<>>
  /\ site = Idle
  /\ phase = "run" /\ grayStack = {}

(* reallocate, up to the memory it returns: a collection may come first. *)
Request(doing, slot) ==
  /\ site' = [doing |-> doing, slot |-> slot]
  /\ phase' \in {"run", "mark"}
  /\ UNCHANGED <<heap, roots, grayStack>>

(* The request of this site has been granted. *)
Granted(doing) == phase = "run" /\ site.doing = doing
Ready == phase = "run" /\ site = Idle
(* Bounds of the model: nothing is requested that could find no address, the *)
(* stack and what an object or the globals refer to stay small.              *)
Room == Live # Addresses /\ Cardinality(Live) < Size[program].objects
SlotFree == Height < MaxStack /\ Height < Size[program].slots
HasRoom(set) == Cardinality(set) < MaxRefs /\ Cardinality(set) < Size[program].refs

(* A mutant: a new object is born marked. *)
BornMarked == usingMark

(* The mark allocateObject gives. *)
NewMark == ~usingMark

(* allocateObject, and the constructor that fills the object in. *)
allocateObject(a, k, l, rs) ==
  /\ kind[a] = "free"
  /\ kind' = [kind EXCEPT ![a] = k]
  /\ link' = [link EXCEPT ![a] = l]
  /\ refs' = [refs EXCEPT ![a] = rs]
  /\ isMarked' = [isMarked EXCEPT ![a] = NewMark]
  /\ UNCHANGED <<program, usingMark, collector>>

Push(v) == SlotFree /\ stack' = Append(stack, v) /\ KeepLeft(open)
Pop(n) == stack' = SubSeq(stack, 1, Height - n) /\ KeepLeft(open)
Replace(v) == stack' = [stack EXCEPT ![Height] = v] /\ UNCHANGED left

----------------------------------------------------------------------------
(* Instructions that allocate. *)

(* OP_CLASS, OP_NEW_OBJECT, OP_NEW_ARRAY, and OP_CLOSURE's two requests. *)
BeginNew ==
  /\ Ready /\ Room /\ SlotFree
  /\ \E k \in program \ {"upvalue", "module"} : Request(IF k = "closure" THEN "upvalues" ELSE k, 0)

NewClass(a) ==
  /\ Granted("class")
  /\ allocateObject(a, "class", Nil, {})
  /\ Push(a)
  /\ site' = Idle
  /\ UNCHANGED <<open, loose, globals, activations>>

NewInstance(a) ==
  /\ Granted("instance")
  /\ allocateObject(a, "instance", emptyClass, {})
  /\ Push(a)
  /\ site' = Idle
  /\ UNCHANGED <<open, loose, globals, activations>>

(* The array is pushed, then its payload requested: n elements lie below it. *)
NewArray(a, n) ==
  /\ Granted("array")
  /\ Temporaries(n)
  /\ kind[a] = "free"
  /\ kind' = [kind EXCEPT ![a] = "array"]
  /\ isMarked' = [isMarked EXCEPT ![a] = NewMark]
  /\ Push(a)
  /\ IF n = 0
       THEN site' = Idle /\ UNCHANGED phase
       ELSE site' = [doing |-> "payload", slot |-> n] /\ phase' \in {"run", "mark"}
  /\ UNCHANGED <<program, link, refs, usingMark, open, loose, globals, activations, grayStack>>

(* The elements move from the stack into the array. *)
FillArray ==
  /\ Granted("payload")
  /\ LET n == site.slot
         values == {Peek(j) : j \in 1 .. n} \ {Nil}
     IN  /\ refs' = [refs EXCEPT ![Peek(0)] = values]
         /\ stack' = Append(SubSeq(stack, 1, Height - n - 1), Peek(0))
         /\ KeepLeft(open)
  /\ site' = Idle
  /\ UNCHANGED <<program, kind, link, isMarked, usingMark, open, loose, globals, activations,
                 collector>>

(* newClosure: the array of upvalues, then the closure. *)
UpvaluesAllocated ==
  /\ Granted("upvalues")
  /\ Request("closure", 0)

NewClosure(a) ==
  /\ Granted("closure")
  /\ allocateObject(a, "closure", Nil, {})
  /\ Push(a)
  /\ site' = [doing |-> "capture", slot |-> 0]
  /\ UNCHANGED <<open, loose, globals, activations>>

(* The upvalues of the running closure. *)
Upvalues == IF frames = <<>> THEN {} ELSE refs[frames[Len(frames)]]

(* The loop of OP_CLOSURE: an upvalue of the running closure, or the one in  *)
(* the list for a local; or a request for a new one; or the loop's end.      *)
ShareUpvalue(u) ==
  /\ phase = "run" /\ site.doing = "capture"
  /\ u \in Upvalues \cup {v \in DOMAIN open : open[v] \in Floor .. Height}
  /\ HasRoom(refs[Peek(0)])
  /\ refs' = [refs EXCEPT ![Peek(0)] = @ \cup {u}]
  /\ UNCHANGED <<program, kind, link, isMarked, usingMark, roots, site, collector>>

BeginCapture(s) ==
  /\ phase = "run" /\ site.doing = "capture" /\ Room /\ "upvalue" \in program
  /\ s \in Floor .. Height /\ s > 0 /\ ~Captured(s)
  /\ HasRoom(refs[Peek(0)])
  /\ Request("upvalue", s)

NewUpvalue(a) ==
  /\ Granted("upvalue")
  /\ kind[a] = "free"
  /\ kind' = [kind EXCEPT ![a] = "upvalue"]
  /\ refs' = [refs EXCEPT ![Peek(0)] = @ \cup {a}]
  /\ isMarked' = [isMarked EXCEPT ![a] = NewMark]
  /\ open' = [u \in DOMAIN open \cup {a} |-> IF u = a THEN site.slot ELSE open[u]]
  /\ site' = [doing |-> "capture", slot |-> 0]
  /\ UNCHANGED <<program, link, usingMark, stack, left, loose, globals, activations, collector>>

ClosureBuilt ==
  /\ phase = "run" /\ site.doing = "capture"
  /\ site' = Idle
  /\ UNCHANGED <<heap, roots, collector>>

(* OP_CALL of a class without arguments: the instance replaces the class. *)
BeginInstantiate ==
  /\ Ready /\ Room /\ Temporaries(1) /\ Is(Peek(0), "class")
  /\ Request("call", 0)

Instantiate(a) ==
  /\ Granted("call")
  /\ allocateObject(a, "instance", Peek(0), {})
  /\ Replace(a)
  /\ site' = Idle
  /\ UNCHANGED <<open, loose, globals, activations>>

(* OP_GET_PROPERTY of a method: the bound method replaces the receiver. *)
MethodsOf(v) == IF Is(v, "instance") /\ Is(link[v], "class") THEN refs[link[v]] ELSE {}

BeginBind ==
  /\ Ready /\ Room /\ Temporaries(1) /\ MethodsOf(Peek(0)) # {}
  /\ Request("bound", 0)

bindMethod(a, method) ==
  /\ Granted("bound")
  /\ method \in MethodsOf(Peek(0))
  /\ allocateObject(a, "bound", method, {Peek(0)})
  /\ Replace(a)
  /\ site' = Idle
  /\ UNCHANGED <<open, loose, globals, activations>>

(* tableSet and pushNative: the table or array may have to grow first.  The  *)
(* value at the top goes to the global table or to the object below it.      *)
BeginStore ==
  /\ Ready
  /\ \/ Temporaries(1) /\ HasRoom(globals) /\ Request("global", 0)
     \/ Temporaries(2) /\ Peek(0) # Nil /\ Peek(1) \in Live /\ HasRoom(refs[Peek(1)])
        /\ \/ kind[Peek(1)] \in {"instance", "array"}
           \/ kind[Peek(1)] = "class" /\ Is(Peek(0), "closure")
        /\ Request("store", 0)

DefineGlobal ==
  /\ Granted("global")
  /\ globals' = globals \cup Referents({Peek(0)})
  /\ Pop(1)
  /\ site' = Idle
  /\ UNCHANGED <<heap, open, loose, activations, collector>>

(* OP_SET_PROPERTY and OP_SET_SUBSCRIPT leave the value, OP_NEW_PROPERTY and *)
(* OP_METHOD the object, pushNative neither.                                 *)
Store ==
  /\ Granted("store")
  /\ refs' = [refs EXCEPT ![Peek(1)] = @ \cup {Peek(0)}]
  /\ \E v \in {Peek(0), Peek(1), Nil} : stack' = Append(SubSeq(stack, 1, Height - 2), v)
  /\ KeepLeft(open)
  /\ site' = Idle
  /\ UNCHANGED <<program, kind, link, isMarked, usingMark, open, loose, globals, activations,
                 collector>>

----------------------------------------------------------------------------
(* Instructions that do not allocate. *)

NoAllocation == Ready /\ UNCHANGED <<program, kind, link, isMarked, usingMark, site, collector>>

Modules == IF "module" \in program THEN Statics \ {emptyClass} ELSE {}

(* Constants, locals, globals, built-in modules; the nil of an argument that *)
(* was not given.                                                            *)
PushValue ==
  /\ NoAllocation
  /\ \E v \in {Nil} \cup globals \cup Modules \cup Elements(stack) : Push(v)
  /\ UNCHANGED <<refs, open, loose, globals, activations>>

(* OP_SET_PROPERTY of a module, whose table is sealed. *)
SealedStore ==
  /\ NoAllocation
  /\ Temporaries(2) /\ Peek(1) \in Modules
  /\ stack' = Append(SubSeq(stack, 1, Height - 2), Peek(0))
  /\ KeepLeft(open)
  /\ UNCHANGED <<refs, open, loose, globals, activations>>

(* OP_GET_PROPERTY, OP_GET_SUBSCRIPT, and popNative of an array. *)
Load ==
  /\ NoAllocation
  /\ Temporaries(1) /\ (Is(Peek(0), "instance") \/ Is(Peek(0), "array"))
  /\ \E v \in refs[Peek(0)] : Replace(v)
  /\ UNCHANGED <<refs, open, loose, globals, activations>>

(* A field set to nil, an array made shorter, a method defined again. *)
Drop ==
  /\ NoAllocation
  /\ Temporaries(1) /\ Peek(0) \in Live /\ kind[Peek(0)] \in {"class", "instance", "array"}
  /\ \E v \in refs[Peek(0)] : refs' = [refs EXCEPT ![Peek(0)] = @ \ {v}]
  /\ UNCHANGED roots

(* OP_SET_GLOBAL: a value that no other global holds is lost. *)
SetGlobal ==
  /\ NoAllocation
  /\ \E v \in globals : globals' = globals \ {v}
  /\ UNCHANGED <<refs, stack, left, open, loose, activations>>

(* OP_POP, OP_POP_N *)
PopValue ==
  /\ NoAllocation
  /\ Height > Floor
  /\ Temporaries(1) \/ "captured break" \in Allowed
  /\ Pop(1)
  /\ UNCHANGED <<refs, open, loose, globals, activations>>

(* The upvalues that closeUpvalues(last) walks through. *)
AtOrAbove(last) == {u \in DOMAIN open : open[u] >= last}

closeUpvalues(last) ==
  /\ refs' = [o \in Objs |-> IF o \in AtOrAbove(last) THEN Referents({Slot(open[o])}) ELSE refs[o]]
  /\ open' = [u \in DOMAIN open \ AtOrAbove(last) |-> open[u]]

(* OP_CLOSE_UPVALUE: the end of the scope of a captured local. *)
CloseUpvalue ==
  /\ NoAllocation
  /\ Height > Floor
  /\ closeUpvalues(Height)
  /\ stack' = SubSeq(stack, 1, Height - 1)
  /\ KeepLeft(open')
  /\ UNCHANGED <<loose, globals, activations>>

SetLocal(s) ==
  /\ NoAllocation
  /\ Temporaries(1) /\ s \in Floor .. Height - 1 /\ s > 0
  /\ stack' = [stack EXCEPT ![s] = Peek(0)]
  /\ UNCHANGED <<refs, left, open, loose, globals, activations>>

GetUpvalue(u) ==
  /\ NoAllocation
  /\ \/ \E s \in Location(u) : Push(Slot(s))
     \/ Location(u) = {} /\ \E v \in refs[u] : Push(v)
     \/ Location(u) = {} /\ refs[u] = {} /\ Push(Nil)
  /\ UNCHANGED <<refs, open, loose, globals, activations>>

(* A store to a slot above the top is left out. *)
SetUpvalue(u) ==
  /\ NoAllocation
  /\ Temporaries(1)
  /\ \/ /\ \E s \in Location(u) : s <= Height /\ stack' = [stack EXCEPT ![s] = Peek(0)]
        /\ UNCHANGED refs
     \/ /\ Location(u) = {}
        /\ refs' = [refs EXCEPT ![u] = Referents({Peek(0)})]
        /\ UNCHANGED stack
  /\ UNCHANGED <<left, open, loose, globals, activations>>

(* OP_CALL of a closure, of a bound method, whose receiver takes its place,  *)
(* and OP_INVOKE of a method, with n arguments: the frame holds the closure. *)
Call(n) ==
  /\ NoAllocation
  /\ Temporaries(n + 1) /\ Len(frames) < MaxFrames
  /\ slots' = Append(slots, Height - n)
  /\ \/ Is(Peek(n), "closure") /\ frames' = Append(frames, Peek(n)) /\ UNCHANGED stack
     \/ /\ Is(Peek(n), "bound")
        /\ frames' = Append(frames, link[Peek(n)])
        /\ \E receiver \in refs[Peek(n)] : stack' = [stack EXCEPT ![Height - n] = receiver]
     \/ \E method \in MethodsOf(Peek(n)) : frames' = Append(frames, method) /\ UNCHANGED stack
  /\ UNCHANGED <<refs, left, open, loose, globals>>

(* The result takes the place of the callee. *)
Return ==
  /\ NoAllocation
  /\ frames # <<>> /\ Temporaries(1)
  /\ closeUpvalues(Floor)
  /\ stack' = Append(SubSeq(stack, 1, Floor - 1), Peek(0))
  /\ KeepLeft(open')
  /\ frames' = SubSeq(frames, 1, Len(frames) - 1)
  /\ slots' = SubSeq(slots, 1, Len(slots) - 1)
  /\ UNCHANGED <<loose, globals>>

(* runtimeError: stack_reset drops the list, closes nothing, clears every    *)
(* slot; the globals are there for the next line of the REPL.                *)
RuntimeError ==
  /\ Ready
  /\ DOMAIN open = {} \/ "captured error" \in Allowed
  /\ stack' = <<>> /\ left' = [s \in 1 .. MaxStack |-> Nil]
  /\ open' = [u \in {} |-> 0]
  /\ loose' = [u \in DOMAIN open \cup DOMAIN loose |->
                 IF u \in DOMAIN open THEN open[u] ELSE loose[u]]
  /\ frames' = <<>> /\ slots' = <<>>
  /\ UNCHANGED <<heap, globals, site, collector>>

(* The native @sys.gc. *)
gcNative ==
  /\ Ready
  /\ phase' = "mark"
  /\ UNCHANGED <<heap, roots, site, grayStack>>

----------------------------------------------------------------------------
(* garbageCollect. *)

(* A mutant: what is already marked is made gray again. *)
MarkedAgain(S) == S

(* Those of the set that markObject does not skip. *)
Unmarked(S) == {o \in S : isMarked[o] # usingMark}

(* markObject for each of the set: the unmarked are marked and made gray. *)
Mark(S, gray) ==
  /\ isMarked' = [o \in Objs |-> IF o \in Unmarked(S) THEN usingMark ELSE isMarked[o]]
  /\ grayStack' = gray \cup Unmarked(S)

markRoots ==
  /\ phase = "mark"
  /\ Mark(MarkedRoots, grayStack)
  /\ phase' = "trace"
  /\ UNCHANGED <<program, kind, link, refs, usingMark, roots, site>>

(* One turn of the loop of traceReferences. *)
blackenObject(o) ==
  /\ phase = "trace"
  /\ Mark(Traced(o), grayStack \ {o})
  /\ UNCHANGED <<program, kind, link, refs, usingMark, roots, site, phase>>

TraceEnds ==
  /\ phase = "trace" /\ grayStack = {}
  /\ phase' = "sweep"
  /\ UNCHANGED <<heap, roots, site, grayStack>>

(* sweep: the list without the unmarked objects, each of which freeObject     *)
(* gives back with its payload.                                              *)
Sweep ==
  /\ phase = "sweep"
  /\ LET swept == {a \in Live : isMarked[a] # usingMark}
     IN  /\ kind' = [a \in Addresses |-> IF a \in swept THEN "free" ELSE kind[a]]
         /\ link' = [o \in Objs |-> IF o \in swept THEN Nil ELSE link[o]]
         /\ refs' = [o \in Objs |-> IF o \in swept THEN {} ELSE refs[o]]
         /\ isMarked' = [o \in Objs |-> IF o \in swept THEN FALSE ELSE isMarked[o]]
         /\ loose' = [u \in DOMAIN loose \ swept |-> loose[u]]
  /\ phase' = "swept"
  /\ UNCHANGED <<program, usingMark, stack, left, open, globals, activations, site, grayStack>>

(* A mutant: the mark is not flipped. *)
SameMark == usingMark

NextMark == ~usingMark

(* The mark is flipped, so that all that is left is unmarked. *)
Flip ==
  /\ phase = "swept"
  /\ usingMark' = NextMark
  /\ phase' = "run"
  /\ UNCHANGED <<program, kind, link, refs, isMarked, roots, site, grayStack>>

----------------------------------------------------------------------------
Allocate ==
  \E a \in Addresses :
    \/ NewClass(a) \/ NewInstance(a) \/ NewClosure(a) \/ NewUpvalue(a) \/ Instantiate(a)
    \/ \E n \in 0 .. MaxRefs : NewArray(a, n)
    \/ \E method \in Addresses : bindMethod(a, method)

Collector ==
  \/ markRoots \/ TraceEnds \/ Sweep \/ Flip
  \/ \E o \in grayStack : blackenObject(o)

Next ==
  \/ BeginNew \/ BeginInstantiate \/ BeginBind \/ BeginStore
  \/ Allocate \/ FillArray \/ UpvaluesAllocated \/ ClosureBuilt \/ DefineGlobal \/ Store
  \/ \E u \in Addresses : ShareUpvalue(u)
  \/ \E s \in 1 .. MaxStack : BeginCapture(s) \/ SetLocal(s)
  \/ PushValue \/ SealedStore \/ Load \/ Drop \/ SetGlobal \/ PopValue \/ CloseUpvalue
  \/ \E u \in Upvalues : GetUpvalue(u) \/ SetUpvalue(u)
  \/ \E n \in 0 .. MaxStack - 1 : Call(n)
  \/ Return \/ RuntimeError \/ gcNative
  \/ Collector

Spec == Init /\ [][Next]_vars
(* garbageCollect is a call that runs to its end. *)
FairSpec == Spec /\ WF_vars(Collector)

----------------------------------------------------------------------------
(* Properties. *)

TypeOK ==
  /\ kind \in [Addresses -> Kinds \cup {"free"}]
  /\ program \in Programs
  /\ link \in [Objs -> Objs \cup {Nil}]
  /\ refs \in [Objs -> SUBSET Objs]
  /\ isMarked \in [Objs -> BOOLEAN] /\ usingMark \in BOOLEAN
  /\ stack \in Seq(Objs \cup {Nil})
  /\ left \in [1 .. MaxStack -> Objs \cup {Nil}]
  /\ DOMAIN open \cup DOMAIN loose \subseteq Addresses
  /\ globals \subseteq Objs
  /\ frames \in Seq(Addresses) /\ slots \in Seq(Nat) /\ Len(slots) = Len(frames)
  /\ site \in [doing : {"nothing", "class", "instance", "array", "payload", "upvalues", "closure",
                        "capture", "upvalue", "call", "bound", "global", "store"}, slot : Nat]
  /\ phase \in {"run", "mark", "trace", "sweep", "swept"}
  /\ grayStack \subseteq Objs

(* Whatever the program can still reach has not been freed, also while an    *)
(* instruction waits for memory and while a collection is under way.         *)
NoDangling == Reachable \cap Addresses \subseteq Live

(* Once roots are marked, a marked object that is not gray refers only to    *)
(* marked ones, through every pointer its type has.                          *)
TriColor ==
  phase \in {"trace", "sweep", "swept"} =>
    /\ \A o \in Roots : isMarked[o] = usingMark
    /\ \A o \in (Live \cup Statics) \ grayStack :
         isMarked[o] = usingMark => \A p \in Successors(o) : isMarked[p] = usingMark

(* When a sweep is over, exactly the dynamic objects in reach are left:      *)
(* nothing unreachable survives a collection.                                *)
GarbageCollected ==
  phase = "swept" => Live = Reachable \cap Addresses

(* Between collections no dynamic object carries the current mark, though    *)
(* nothing ever clears one: the flip unmarks survivors, allocateObject gives *)
(* new objects the other mark.                                               *)
UnmarkedBetweenCollections ==
  phase \in {"run", "mark"} => \A a \in Live : isMarked[a] # usingMark

(* A collection comes to its end: cyclic structures do not trap the tracing. *)
CollectionEnds == phase # "run" ~> phase = "run"
=============================================================================
