--------------------------------- MODULE Vm ---------------------------------
(***************************************************************************)
(* The stack machine of FliteLang (src/vm.c): value stack, call frames and *)
(* upvalues, driven by the instruction sequences the compiler emits        *)
(* (src/compiler.c).  One action is one instruction, or one turn of the    *)
(* loop of OP_CLOSURE.                                                     *)
(*                                                                         *)
(* A frame keeps a pointer to its slot 0, an open upvalue one to the slot  *)
(* of the local it captured.  Positions on the stack start at 1; `block`   *)
(* is the identity of the memory the stack lies in, which a pointer carries*)
(* with it.  What Allowed does not contain is not modelled:                *)
(*   "captured break"  break or continue leaves a scope that declared a    *)
(*                     variable some closure captured;                     *)
(*   "moving growth"   the realloc that grows the stack moves it;          *)
(*   "captured error"  a runtime error with upvalues still open;           *)
(*   "bitwise error"   an operand of the wrong type in bitInstruction;     *)
(*   "overflow"        a push finds the stack at STACK_MAX_SIZE.           *)
(* After the last two run goes on with the stack it has reset: the model   *)
(* shows that state, and takes no further instruction from it.             *)
(***************************************************************************)
EXTENDS Naturals, Sequences, FiniteSets

CONSTANTS Closures,       \* identities of closures
          Arity,          \* the parameters of the function of each
          Script,         \* the closure of top-level code
          Values,         \* values, which hide the identity of objects
          Nil, Object,    \* NIL_VAL, and any object: a closure, a class...
          FRAMES_MAX,     \* most frames
          InitialStack,   \* STACK_INITIAL_SIZE
          STACK_MAX_SIZE, \* the largest stack
          MaxStack,       \* bound of the model: no instruction pushes beyond it
          MaxScopes,      \* bound of the model: nested scopes in a frame
          MaxCaptures,    \* bound of the model: upvalues of a closure
          MaxTemporaries, \* bound of the model: temporaries of a frame
          Allowed         \* see above

ASSUME VmAssumption ==
  /\ Arity \in [Closures -> Nat]
  /\ Script \notin Closures
  /\ Nil \in Values /\ Object \in Values /\ Nil # Object
  /\ FRAMES_MAX \in Nat \ {0}
  /\ InitialStack \in Nat /\ InitialStack > 1
  /\ \A c \in Closures : Arity[c] <= InitialStack   \* 255 at most, and 1024
  /\ STACK_MAX_SIZE \in Nat
  /\ MaxStack \in Nat /\ MaxScopes \in Nat /\ MaxCaptures \in Nat /\ MaxTemporaries \in Nat
  /\ Allowed \subseteq {"captured break", "moving growth", "captured error",
                       "bitwise error", "overflow"}

VARIABLES
  stack,     \* vm.stack up to vm.stackTop
  capacity,  \* vm.stackBoundary - vm.stack
  block,     \* the memory block the stack is in
  frames,    \* vm.frames up to vm.frameCount
  open,      \* vm.openUpvalues, from the head of the list
  upvalues,  \* the upvalues in use
  closures,  \* the closures that exist, with their upvalues
  building,  \* the closure OP_CLOSURE is filling
  inRun      \* control is in run

vars == <<stack, capacity, block, frames, open, upvalues, closures, building, inRun>>
memory == <<capacity, block>>
heap == <<open, upvalues, closures>>

Elements(s) == {s[i] : i \in DOMAIN s}
NotIn(S) == CHOOSE n \in 1 .. Cardinality(S) + 1 : n \notin S
NotBuilding == [closure |-> Script, named |-> FALSE]

Height == Len(stack)
Frame == frames[Len(frames)]
Locals == 0 .. Frame.locals - 1
(* The slots a name of the source can stand for: slot 0 is `this`, which the *)
(* compiler refuses in a script.                                             *)
Nameable == IF Frame.closure = Script THEN Locals \ {0} ELSE Locals
Position(i) == Frame.slots + i
Temporaries == Height - (Frame.slots + Frame.locals - 1)

(* A mutant: the collector does not see the list of open upvalues. *)
InUseByClosures(us, cs, list) ==
  [u \in DOMAIN us \cap UNION {Elements(cs[c]) : c \in DOMAIN cs} |-> us[u]]

(* Upvalues that neither the list nor a closure holds are garbage. *)
InUse(us, cs, list) ==
  [u \in DOMAIN us \cap (Elements(list) \cup UNION {Elements(cs[c]) : c \in DOMAIN cs}) |-> us[u]]

----------------------------------------------------------------------------
(* Pointers into the stack. *)

Closed == 0
IsOpen(u) == upvalues[u].at # Closed
(* *upvalue->location; a slot above the top is taken to hold nil. *)
Content(u) ==
  IF ~IsOpen(u) THEN upvalues[u].closed
  ELSE IF upvalues[u].at <= Height THEN stack[upvalues[u].at] ELSE Nil

(* A mutant: closing stops one slot early. *)
StrictlyAbove(last) == {i \in DOMAIN open : \A j \in 1 .. i : upvalues[open[j]].at > last}

(* The prefix of the list that the loops over it walk through. *)
AtOrAbove(last) == {i \in DOMAIN open : \A j \in 1 .. i : upvalues[open[j]].at >= last}
Above(local) == {i \in DOMAIN open : \A j \in 1 .. i : upvalues[open[j]].at > local}

(* A mutant: every capture makes an upvalue. *)
UnsharedUpvalue(local) == NotIn(DOMAIN upvalues)

(* The upvalue captureUpvalue(local) returns, and the list it leaves. *)
UpvalueOf(local) ==
  LET n == Cardinality(Above(local))
  IN  IF n < Len(open) /\ upvalues[open[n + 1]].at = local
        THEN open[n + 1]
        ELSE NotIn(DOMAIN upvalues)

captureUpvalue(local) ==
  LET n == Cardinality(Above(local))
      u == UpvalueOf(local)
  IN  IF u \in DOMAIN upvalues
        THEN open
        ELSE SubSeq(open, 1, n) \o <<u>> \o SubSeq(open, n + 1, Len(open))

newUpvalue(local) == [at |-> local, block |-> Frame.block, closed |-> Nil]

(* closeUpvalues(last). *)
closeUpvalues(last) ==
  LET n == Cardinality(AtOrAbove(last))
      closing == Elements(SubSeq(open, 1, n))
      rest == SubSeq(open, n + 1, Len(open))
      us == [u \in DOMAIN upvalues |->
               IF u \in closing
                 THEN [upvalues[u] EXCEPT !.closed = Content(u), !.at = Closed]
                 ELSE upvalues[u]]
  IN  /\ open' = rest
      /\ upvalues' = InUse(us, closures, rest)
      /\ UNCHANGED closures

(* A mutant: the boundary is noticed one push late. *)
GrowsLate(n) == n > capacity

(* Pushes that end with n values on the stack, growing it at its boundary. *)
NeedsGrowth(n) == n >= capacity
Overflows(n) == NeedsGrowth(n) /\ 2 * capacity > STACK_MAX_SIZE
Push(n) ==
  /\ n <= MaxStack /\ ~Overflows(n)
  /\ capacity' = IF NeedsGrowth(n) THEN 2 * capacity ELSE capacity
  /\ block' \in IF NeedsGrowth(n) /\ "moving growth" \in Allowed THEN {block, block + 1} ELSE {block}

(* No pointer is left in a block that has been freed. *)
PointersFresh ==
  /\ \A i \in DOMAIN frames : frames[i].block = block
  /\ \A i \in DOMAIN open : upvalues[open[i]].block = block

Running == frames # <<>> /\ building = NotBuilding /\ PointersFresh
AtStatement == Running /\ Temporaries = 0

(* stack_reset: the list is dropped, its upvalues are not closed. *)
stack_reset ==
  /\ stack' = <<>> /\ frames' = <<>> /\ open' = <<>>
  /\ upvalues' = InUse(upvalues, closures, <<>>)

----------------------------------------------------------------------------
Init ==
  /\ stack = <<>> /\ capacity = InitialStack /\ block = 0
  /\ frames = <<>>
  /\ open = <<>> /\ upvalues = [u \in {} |-> newUpvalue(Closed)]
  /\ closures = [c \in {} |-> <<>>]
  /\ building = NotBuilding
  /\ inRun = FALSE

NewFrame(c, slots, locals) ==
  [closure |-> c, slots |-> slots, block |-> block', locals |-> locals, scopes |-> <<>>]

(* interpret, up to run: the script's closure in slot 0 of the first frame. *)
interpret ==
  /\ frames = <<>> /\ ~inRun
  /\ stack' = <<Object>>
  /\ Push(1)
  /\ frames' = <<NewFrame(Script, 1, 1)>>
  /\ inRun' = TRUE
  /\ UNCHANGED <<heap, building>>

(* runtimeError, which leaves what comes next to its caller. *)
runtimeError ==
  /\ Running
  /\ open = <<>> \/ "captured error" \in Allowed
  /\ stack_reset
  /\ UNCHANGED <<memory, closures, building>>

(* An undefined variable, an operand of the wrong type...: run returns. *)
RuntimeError ==
  /\ runtimeError
  /\ inRun' = FALSE

(* AND, OR, XOR and NOT: bitInstruction returns INTERPRET_RUNTIME_ERROR, *)
(* which run takes for success.                                          *)
BitwiseError ==
  /\ "bitwise error" \in Allowed
  /\ Running /\ Temporaries > 0
  /\ runtimeError
  /\ UNCHANGED inRun

(* stack_push has nothing to return: the instruction that pushes goes on. The *)
(* pushes of call's padding are left out.                                     *)
StackOverflow ==
  /\ "overflow" \in Allowed
  /\ Running /\ Temporaries < MaxTemporaries
  /\ Overflows(Height + 1)
  /\ runtimeError
  /\ UNCHANGED inRun

(* Instructions that push one value and name no local: constants, globals. *)
PushValue(v) ==
  /\ Running /\ Temporaries < MaxTemporaries
  /\ stack' = Append(stack, v)
  /\ Push(Height + 1)
  /\ UNCHANGED <<frames, heap, building, inRun>>

(* OP_POP of an expression statement, or an operator's or OP_DEFINE_GLOBAL's. *)
PopValue ==
  /\ Running /\ Temporaries > 0
  /\ stack' = SubSeq(stack, 1, Height - 1)
  /\ UNCHANGED <<memory, frames, heap, building, inRun>>

GetLocal(i) ==
  /\ Running /\ Temporaries < MaxTemporaries
  /\ stack' = Append(stack, stack[Position(i)])
  /\ Push(Height + 1)
  /\ UNCHANGED <<frames, heap, building, inRun>>

SetLocal(i) ==
  /\ Running /\ Temporaries > 0
  /\ stack' = [stack EXCEPT ![Position(i)] = stack[Height]]
  /\ UNCHANGED <<memory, frames, heap, building, inRun>>

GetUpvalue(u) ==
  /\ Running /\ Temporaries < MaxTemporaries
  /\ stack' = Append(stack, Content(u))
  /\ Push(Height + 1)
  /\ UNCHANGED <<frames, heap, building, inRun>>

(* The store goes to the slot while the upvalue is open, to `closed` after. *)
SetUpvalue(u) ==
  /\ Running /\ Temporaries > 0
  /\ IF IsOpen(u)
       THEN stack' = [stack EXCEPT ![upvalues[u].at] = stack[Height]] /\ UNCHANGED upvalues
       ELSE upvalues' = [upvalues EXCEPT ![u].closed = stack[Height]] /\ UNCHANGED stack
  /\ UNCHANGED <<memory, frames, open, closures, building, inRun>>

----------------------------------------------------------------------------
(* Scopes, as the compiler lays them out. *)

(* addLocal: the initializer's value stays where it is and becomes a local. *)
DeclareLocal ==
  /\ Running /\ Temporaries = 1
  /\ Frame.closure = Script => Frame.scopes # <<>>
  /\ frames' = [frames EXCEPT ![Len(frames)].locals = @ + 1]
  /\ UNCHANGED <<stack, memory, heap, building, inRun>>

beginScope ==
  /\ AtStatement /\ Len(Frame.scopes) < MaxScopes
  /\ frames' = [frames EXCEPT ![Len(frames)].scopes = Append(@, Frame.locals)]
  /\ UNCHANGED <<stack, memory, heap, building, inRun>>

(* The frame once the scopes from the n-th on have ended. *)
Without(n) ==
  LET start == Frame.scopes[n]
  IN  /\ stack' = SubSeq(stack, 1, Position(start) - 1)
      /\ frames' = [frames EXCEPT ![Len(frames)].locals = start,
                                  ![Len(frames)].scopes = SubSeq(@, 1, n - 1)]

(* endScope: OP_CLOSE_UPVALUE for the captured locals, OP_POP for the others. *)
endScope ==
  /\ AtStatement /\ Frame.scopes # <<>>
  /\ LET n == Len(Frame.scopes)
     IN  Without(n) /\ closeUpvalues(Position(Frame.scopes[n]))
  /\ UNCHANGED <<memory, building, inRun>>

(* break and continue: OP_POP_N for the locals of the scopes inside the       *)
(* innermost loop, whose body is the n-th scope.                             *)
LeaveLoop(n) ==
  /\ AtStatement
  /\ "captured break" \in Allowed \/ AtOrAbove(Position(Frame.scopes[n])) = {}
  /\ Without(n)
  /\ UNCHANGED <<memory, heap, building, inRun>>

----------------------------------------------------------------------------
(* Closures. *)

(* OP_CLOSURE up to its loop; a named one is a local function declaration, *)
(* whose local is in scope in the function's own body.                     *)
NewClosure(c, named) ==
  /\ Running /\ c \notin DOMAIN closures
  /\ IF named THEN Temporaries = 0 /\ (Frame.closure = Script => Frame.scopes # <<>>)
              ELSE Temporaries < MaxTemporaries
  /\ closures' = [d \in DOMAIN closures \cup {c} |-> IF d = c THEN <<>> ELSE closures[d]]
  /\ stack' = Append(stack, Object)
  /\ Push(Height + 1)
  /\ frames' = IF named
                  THEN [frames EXCEPT ![Len(frames)].locals = @ + 1]
                  ELSE frames
  /\ building' = [closure |-> c, named |-> named]
  /\ UNCHANGED <<open, upvalues, inRun>>

(* One turn of the loop, for an upvalue the closure does not have yet. *)
AddUpvalue(u) ==
  /\ u \notin Elements(closures[building.closure])
  /\ Len(closures[building.closure]) < MaxCaptures
  /\ closures' = [closures EXCEPT ![building.closure] = Append(@, u)]
  /\ UNCHANGED <<stack, memory, frames, building, inRun>>

CaptureLocal(i) ==
  /\ building # NotBuilding /\ PointersFresh
  /\ LET u == UpvalueOf(Position(i))
     IN  /\ AddUpvalue(u)
         /\ open' = captureUpvalue(Position(i))
         /\ upvalues' = [w \in DOMAIN upvalues \cup {u} |->
                           IF w \in DOMAIN upvalues THEN upvalues[w]
                           ELSE newUpvalue(Position(i))]

CaptureOuter(u) ==
  /\ building # NotBuilding /\ PointersFresh
  /\ AddUpvalue(u)
  /\ UNCHANGED <<open, upvalues>>

ClosureBuilt ==
  /\ building # NotBuilding
  /\ building' = NotBuilding
  /\ UNCHANGED <<stack, memory, frames, heap, inRun>>

(* The program drops its last reference to a closure and it is collected. *)
Forget(c) ==
  /\ building = NotBuilding
  /\ \A i \in DOMAIN frames : frames[i].closure # c
  /\ LET cs == [d \in DOMAIN closures \ {c} |-> closures[d]]
     IN  closures' = cs /\ upvalues' = InUse(upvalues, cs, open)
  /\ UNCHANGED <<stack, memory, frames, open, building, inRun>>

----------------------------------------------------------------------------
(* Calls. *)

(* A mutant: the slots are counted from the arguments given, not padded. *)
SlotsFromArguments(c, argCount) == Height + (Arity[c] - argCount) - argCount

(* Where the callee's slot 0 is, below its padded arguments. *)
CalleeSlots(c, argCount) == Height + (Arity[c] - argCount) - Arity[c]

(* call(c, argCount): the missing arguments are nil. *)
call(c, argCount) ==
  \/ /\ argCount > Arity[c] \/ Len(frames) = FRAMES_MAX
     /\ RuntimeError
  \/ /\ argCount <= Arity[c] /\ Len(frames) < FRAMES_MAX
     /\ stack' = stack \o [j \in 1 .. Arity[c] - argCount |-> Nil]
     /\ Push(Len(stack'))
     /\ frames' = Append(frames, NewFrame(c, CalleeSlots(c, argCount), Arity[c] + 1))
     /\ UNCHANGED <<heap, building, inRun>>

(* OP_CALL of a closure, a bound method or a class with an initializer, and  *)
(* OP_INVOKE: slot 0 holds the callee or `this`.                             *)
Call(c, argCount) ==
  /\ Running /\ Temporaries > argCount
  /\ stack[Height - argCount] = Object
  /\ call(c, argCount)

(* call_native: the result takes the place of callee and arguments. *)
CallNative(argCount, result) ==
  /\ Running /\ Temporaries > argCount
  /\ stack[Height - argCount] = Object
  /\ stack' = Append(SubSeq(stack, 1, Height - argCount - 1), result)
  /\ UNCHANGED <<memory, frames, heap, building, inRun>>

(* A mutant: the upvalue of slot 0 stays open. *)
ReturnFromParameters == Frame.slots + 1

(* The slots OP_RETURN closes. *)
ReturnFrom == Frame.slots

(* OP_RETURN: of a function's value, or of the nil that ends a script. *)
Return ==
  /\ Running /\ Temporaries = 1
  /\ Frame.closure = Script => Frame.scopes = <<>>
  /\ closeUpvalues(ReturnFrom)
  /\ frames' = SubSeq(frames, 1, Len(frames) - 1)
  /\ stack' = IF Len(frames) = 1
                THEN <<>>
                ELSE Append(SubSeq(stack, 1, Frame.slots - 1), stack[Height])
  /\ IF Len(frames) = 1 THEN inRun' = FALSE ELSE UNCHANGED inRun
  /\ UNCHANGED <<memory, building>>

----------------------------------------------------------------------------
Outer == IF Frame.closure = Script THEN {} ELSE Elements(closures[Frame.closure])

Next ==
  \/ interpret \/ RuntimeError \/ BitwiseError \/ StackOverflow \/ PopValue
  \/ \E v \in Values : PushValue(v)
  \/ frames # <<>> /\ \E i \in Nameable : GetLocal(i) \/ SetLocal(i) \/ CaptureLocal(i)
  \/ frames # <<>> /\ \E u \in Outer : GetUpvalue(u) \/ SetUpvalue(u) \/ CaptureOuter(u)
  \/ DeclareLocal \/ beginScope \/ endScope
  \/ frames # <<>> /\ \E n \in DOMAIN Frame.scopes : LeaveLoop(n)
  \/ \E c \in Closures, named \in BOOLEAN : NewClosure(c, named)
  \/ ClosureBuilt
  \/ \E c \in DOMAIN closures : Forget(c)
  \/ \E argCount \in 0 .. MaxTemporaries - 1 :
       \/ \E c \in DOMAIN closures : Call(c, argCount)
       \/ \E v \in Values : CallNative(argCount, v)
  \/ Return

Spec == Init /\ [][Next]_vars

----------------------------------------------------------------------------
(* Properties. *)

TypeOK ==
  /\ stack \in Seq(Values)
  /\ capacity \in Nat /\ block \in Nat
  /\ frames \in Seq([closure : Closures \cup {Script}, slots : Nat, block : Nat,
                     locals : Nat, scopes : Seq(Nat)])
  /\ \A i \in DOMAIN frames : frames[i].closure \in DOMAIN closures \cup {Script}
  /\ open \in Seq(DOMAIN upvalues)
  /\ DOMAIN upvalues \subseteq Nat
  /\ \A u \in DOMAIN upvalues :
       upvalues[u] \in [at : Nat, block : Nat, closed : Values]
  /\ DOMAIN closures \subseteq Closures
  /\ \A c \in DOMAIN closures : closures[c] \in Seq(DOMAIN upvalues)
  /\ building \in [closure : DOMAIN closures \cup {Script}, named : BOOLEAN]
  /\ inRun \in BOOLEAN

(* stack_push writes before it looks at the boundary: there is always a free *)
(* slot above the top, whatever pushes, pads arguments or returns.           *)
RoomForPush == Height < capacity

(* Frames lie above one another without overlap, each with its slot 0 and    *)
(* locals inside the stack: a callee's slots are temporaries of its caller,  *)
(* and what a return leaves behind is the caller's stack plus one value      *)
(* (vm.c:366).                                                               *)
FramesNested ==
  \A i \in DOMAIN frames :
    /\ frames[i].locals > 0
    /\ frames[i].slots + frames[i].locals <=
         IF i < Len(frames) THEN frames[i + 1].slots ELSE Height + 1

(* Run works on the last frame, so it has one as long as it goes on: the     *)
(* stack is reset "after use" (vm.c:1142), and true from bitInstruction is   *)
(* success (vm.c:1005).                                                      *)
RunHasFrame == inRun <=> frames # <<>>

(* The slots that are locals in scope now. *)
LocalSlots ==
  UNION {frames[i].slots .. frames[i].slots + frames[i].locals - 1 : i \in DOMAIN frames}

(* The list that captureUpvalue and closeUpvalues walk is strictly           *)
(* descending, so no slot has two upvalues, and holds every open upvalue.    *)
OpenListExact ==
  /\ \A i, j \in DOMAIN open : i < j => upvalues[open[i]].at > upvalues[open[j]].at
  /\ {u \in DOMAIN upvalues : IsOpen(u)} = Elements(open)

(* An upvalue that is not closed points to the slot of a local in scope: "if *)
(* one upValue closed,it's location is it's closed's pointer" (vm.c:498).    *)
OpenPointsToLocal == \A u \in DOMAIN upvalues : IsOpen(u) => upvalues[u].at \in LocalSlots

(* The variables of Lexical, read off the machine: the cell of a captured    *)
(* variable is its upvalue, that of another local its slot.                  *)
CellAt(p) ==
  LET us == {u \in DOMAIN upvalues : upvalues[u].at = p}
  IN  IF us = {} THEN <<"slot", p>> ELSE <<"upvalue", CHOOSE u \in us : TRUE>>
ValueOf(x) == IF x[1] = "slot" THEN stack[x[2]] ELSE Content(x[2])
InScope(i) == IF i = Len(frames) /\ building.named THEN frames[i].locals - 1 ELSE frames[i].locals
Environments ==
  [i \in DOMAIN frames |->
     [closure |-> frames[i].closure,
      cells |-> [j \in 1 .. InScope(i) |-> CellAt(frames[i].slots + j - 1)]]]
CapturedCells ==
  [c \in DOMAIN closures \ {building.closure} |->
     [i \in DOMAIN closures[c] |-> <<"upvalue", closures[c][i]>>]]
InUseCells ==
  (UNION {Elements(Environments[i].cells) : i \in DOMAIN frames})
    \cup (UNION {Elements(CapturedCells[c]) : c \in DOMAIN CapturedCells})

Contents == [x \in InUseCells |-> ValueOf(x)]

L == INSTANCE Lexical WITH env <- Environments, captured <- CapturedCells, store <- Contents

(* Slots, frames and upvalues implement lexical variables: whatever calls,   *)
(* returns, scopes and closures do, a read gives the value last assigned to  *)
(* that variable, and no step changes another variable.                      *)
LexicalSpec == L!Spec
=============================================================================
