------------------------------ MODULE Codegen -------------------------------
(***************************************************************************)
(* The code generator of FliteLang (src/compiler.c): one pass of recursive *)
(* descent that keeps, for each function being compiled, its locals,       *)
(* scopes, loops and upvalues, and emits bytecode as it goes.              *)
(*                                                                         *)
(* The text is left to chance: where the parser looks at a token, the      *)
(* model picks a rule.  An action is the part of a parsing function up to  *)
(* its next call of another; what remains to be done is in `todo`, the     *)
(* call stack of the parser.  A program with an error is never run         *)
(* (compile returns NULL), so an error ends the model's compilation.       *)
(*                                                                         *)
(* The second half reads the code as run does (src/vm.c) and follows every *)
(* path through a function, keeping the height of the stack and the slots  *)
(* that have an open upvalue.                                              *)
(***************************************************************************)
EXTENDS Integers, Sequences, FiniteSets

CONSTANTS Names,                \* identifiers
          MethodTypes,          \* kinds of methods: "method", "initializer"
          LOCAL_MAX,            \* locals of a function
          FUNCTION_MAX_NESTING,
          UPVALUE_MAX,          \* of a function, UINT8_COUNT
          ARGUMENT_MAX,         \* arguments, parameters, elements: 255 in the code
          OBJECT_MAX_NESTING,
          Base,                 \* the values of a byte: UINT8_COUNT
          Programs,             \* bound of the model: the rules a program uses, how often
          MaxForms              \* bound of the model: and how often in all

ASSUME CodegenAssumption ==
  /\ MethodTypes \subseteq {"method", "initializer"}
  /\ Base \in Nat /\ ARGUMENT_MAX \in 1 .. Base - 1
  /\ LOCAL_MAX \in 1 .. Base /\ UPVALUE_MAX \in 0 .. Base
  /\ {FUNCTION_MAX_NESTING, OBJECT_MAX_NESTING, MaxForms} \subseteq Nat

VARIABLES forms,      \* the uses of each rule that are left
          budget,     \* and in all
          compilers,  \* the chain of Compilers, from the script's to current
          todo,       \* what the parser has still to do
          classes,    \* the length of the chain at currentClass
          status      \* "compiling", "compiled" or "error"

vars == <<forms, budget, compilers, todo, classes, status>>

Greatest(S) == CHOOSE n \in S : \A m \in S : m <= n
Current == compilers[Len(compilers)]

----------------------------------------------------------------------------
(* Code: a sequence of cells, each an opcode or a byte of an operand. *)

Op(name) == [op |-> name, byte |-> 0]
Byte(n) == [op |-> "operand", byte |-> n]
Short(n) == <<Byte(n % Base), Byte(n \div Base)>>
(* Which constant it is plays no part. *)
emitConstantCommond(name) == <<Op(name)>> \o Short(0)
(* 0xff in the code, told from other bytes here. *)
Unpatched == Byte(Base)

emit(f, cells) == [f EXCEPT !.code = @ \o cells]
Count(f) == Len(f.code)

emitJump(f, name) == emit(f, <<Op(name), Unpatched, Unpatched>>)
(* What emitJump returns: where the operand is, from 0. *)
JumpOperand(f) == Count(f) + 1

(* A mutant: the distance is not counted from behind the operand. *)
DistanceFromOperand(f, offset) == Count(f) - offset

(* How far the jump at offset goes, if it goes to the end of the code. *)
Distance(f, offset) == Count(f) - offset - 2

patchJump(f, offset) ==
  LET jump == Short(Distance(f, offset))
  IN  [f EXCEPT !.code = [@ EXCEPT ![offset + 1] = jump[1], ![offset + 2] = jump[2]]]

LoopDistance(f, start) == Count(f) + 1 - start + 2
emitLoop(f, start) == emit(f, <<Op("LOOP")>> \o Short(LoopDistance(f, start)))

TooFar(distance) == distance >= Base * Base

emitPopCount(n) ==
  IF n = 0 THEN <<>> ELSE IF n = 1 THEN <<Op("POP")>> ELSE <<Op("POP_N"), Byte(n % Base)>>

emitReturn(f) ==
  emit(f, IF f.type = "initializer"
            THEN <<Op("GET_LOCAL"), Byte(0), Byte(0), Op("RETURN")>>
            ELSE <<Op("NIL"), Op("RETURN")>>)

----------------------------------------------------------------------------
(* Locals, scopes and names. *)

(* initCompiler. *)
NewCompiler(type) ==
  [type |-> type, code |-> <<>>, arity |-> 0, scopeDepth |-> 0, loops |-> <<>>, upvalues |-> <<>>, objectNestingDepth |-> 0,
   locals |-> <<[name |-> IF type = "function" THEN "" ELSE "this",
                 depth |-> 0, isCaptured |-> FALSE]>>]

beginScope(f) == [f EXCEPT !.scopeDepth = @ + 1]

(* A mutant: a captured local is popped like the others. *)
PopAll(locals) == emitPopCount(Len(locals))

(* What ends these locals, the last one first. *)
Unwind(locals) ==
  LET ended[i \in 0 .. Len(locals)] ==
        IF i = Len(locals) THEN [code |-> <<>>, pops |-> 0]
        ELSE LET after == ended[i + 1]
             IN  IF locals[i + 1].isCaptured
                   THEN [code |-> after.code \o emitPopCount(after.pops) \o <<Op("CLOSE_UPVALUE")>>,
                         pops |-> 0]
                   ELSE [after EXCEPT !.pops = @ + 1]
  IN  ended[0].code \o emitPopCount(ended[0].pops)

endScope(f) ==
  LET kept == Cardinality({i \in DOMAIN f.locals : f.locals[i].depth < f.scopeDepth})
  IN  emit([f EXCEPT !.scopeDepth = @ - 1, !.locals = SubSeq(@, 1, kept)],
           Unwind(SubSeq(f.locals, kept + 1, Len(f.locals))))

(* A name declared twice in a scope, or too many locals. *)
CannotDeclare(f, x) ==
  /\ f.scopeDepth > 0
  /\ \/ Len(f.locals) = LOCAL_MAX
     \/ \E i \in DOMAIN f.locals :
          f.locals[i].name = x /\ f.locals[i].depth \in {-1, f.scopeDepth}

declareVariable(f, x) ==
  IF f.scopeDepth = 0 THEN f
  ELSE [f EXCEPT !.locals = Append(@, [name |-> x, depth |-> -1, isCaptured |-> FALSE])]

markInitialized(f) ==
  IF f.scopeDepth = 0 THEN f ELSE [f EXCEPT !.locals[Len(f.locals)].depth = f.scopeDepth]

(* A mutant: a local stays uninitialized. *)
defineGlobal(f) == IF f.scopeDepth > 0 THEN f ELSE emit(f, emitConstantCommond("DEFINE_GLOBAL"))

defineVariable(f) ==
  IF f.scopeDepth > 0 THEN markInitialized(f) ELSE emit(f, emitConstantCommond("DEFINE_GLOBAL"))

LocalsNamed(f, x) == {i \in DOMAIN f.locals : f.locals[i].name = x}

(* A mutant: the outermost declaration of the name is found. *)
FirstLocal(f, x) == (CHOOSE i \in LocalsNamed(f, x) : \A j \in LocalsNamed(f, x) : i <= j) - 1

(* resolveLocal, where there is one: its slot. *)
resolveLocal(f, x) == Greatest(LocalsNamed(f, x)) - 1

(* The innermost function with a local of this name; 0 if it is a global. *)
Owner(x) ==
  LET levels == {l \in DOMAIN compilers : LocalsNamed(compilers[l], x) # {}}
  IN  IF levels = {} THEN 0 ELSE Greatest(levels)

(* addUpvalue: the index of the entry, present or to be added. *)
IndexOf(upvalues, u) ==
  IF \E i \in DOMAIN upvalues : upvalues[i] = u
    THEN (CHOOSE i \in DOMAIN upvalues : upvalues[i] = u) - 1
    ELSE Len(upvalues)

(* resolveUpvalue: what each function between the owner and current adds. *)
UpvalueChain(x) ==
  LET owner == Owner(x)
      entry[l \in owner + 1 .. Len(compilers)] ==
        IF l = owner + 1
          THEN [index |-> resolveLocal(compilers[owner], x), isLocal |-> TRUE]
          ELSE [index |-> IndexOf(compilers[l - 1].upvalues, entry[l - 1]), isLocal |-> FALSE]
  IN  entry

addUpvalue(f, u) ==
  IF IndexOf(f.upvalues, u) = Len(f.upvalues) THEN [f EXCEPT !.upvalues = Append(@, u)] ELSE f

resolveUpvalue(x) ==
  LET owner == Owner(x)
      captured(f) == [f EXCEPT !.locals[resolveLocal(f, x) + 1].isCaptured = TRUE]
  IN  [l \in DOMAIN compilers |->
         IF l = owner THEN captured(compilers[l])
         ELSE IF l > owner THEN addUpvalue(compilers[l], UpvalueChain(x)[l])
         ELSE compilers[l]]

(* A local read in its own initializer, or too many upvalues. *)
CannotResolve(x) ==
  LET owner == Owner(x)
      chain == UpvalueChain(x)
  IN  /\ owner # 0
      /\ \/ compilers[owner].locals[resolveLocal(compilers[owner], x) + 1].depth = -1
         \/ \E l \in owner + 1 .. Len(compilers) :
              IndexOf(compilers[l].upvalues, chain[l]) = UPVALUE_MAX

(* The instruction that reads or writes the variable. *)
Instructions ==
  [get |-> [global |-> "GET_GLOBAL", local |-> "GET_LOCAL", upvalue |-> "GET_UPVALUE"],
   set |-> [global |-> "SET_GLOBAL", local |-> "SET_LOCAL", upvalue |-> "SET_UPVALUE"]]

Access(verb, x) ==
  LET owner == Owner(x)
      n == Len(compilers)
      op == Instructions[verb]
  IN  IF owner = 0 THEN emitConstantCommond(op.global)
      ELSE IF owner = n THEN <<Op(op.local), Byte(resolveLocal(compilers[n], x) % Base)>>
      ELSE <<Op(op.upvalue), Byte(IndexOf(compilers[n].upvalues, UpvalueChain(x)[n]) % Base)>>

----------------------------------------------------------------------------
(* The parser. *)

NoJump == -1
Item(do) == [do |-> do, name |-> "", code |-> <<>>, at |-> 0, exit |-> NoJump]
Emit(cells) == [Item("emit") EXCEPT !.code = cells]
Named(verb, x) == [Item("named") EXCEPT !.name = x, !.code = verb]
Patch(offset) == [Item("patch") EXCEPT !.at = offset]
Expression == Item("expression")
Expressions(n) == [i \in 1 .. n |-> Expression]

First == todo[1]
Doing(what) == status = "compiling" /\ First.do = what
Continue(items) == todo' = items \o Tail(todo)
Now(f) == compilers' = [compilers EXCEPT ![Len(compilers)] = f]
Choose(form) ==
  /\ budget > 0 /\ budget' = budget - 1
  /\ form \in DOMAIN forms /\ forms[form] > 0
  /\ forms' = [forms EXCEPT ![form] = @ - 1]

(* error: what has been emitted is never run. *)
fail ==
  /\ status' = "error"
  /\ compilers' = <<>> /\ todo' = <<>> /\ classes' = 0

Steady == UNCHANGED <<classes, status>>
NoRule == UNCHANGED <<forms, budget>>
Same == Steady /\ NoRule

(* compile, up to its loop: what initCompiler leaves. *)
Init ==
  /\ forms \in Programs /\ budget = MaxForms
  /\ compilers = <<NewCompiler("script")>> /\ todo = <<Item("program")>>
  /\ classes = 0 /\ status = "compiling"

compile ==
  /\ status # "compiling"
  /\ forms' \in Programs /\ budget' = MaxForms
  /\ compilers' = <<NewCompiler("script")>> /\ todo' = <<Item("program")>>
  /\ classes' = 0 /\ status' = "compiling"

(* The loops of compile and of block, whose item is where they come back. *)
declarations ==
  /\ Doing("program") \/ Doing("block")
  /\ budget > 0
  /\ Continue(<<Item("declaration"), First>>)
  /\ Same /\ UNCHANGED compilers

blockEnds ==
  /\ Doing("block")
  /\ Continue(<<>>)
  /\ Same /\ UNCHANGED compilers

programEnds ==
  /\ Doing("program")
  /\ Continue(<<Item("end")>>)
  /\ Same /\ UNCHANGED compilers

(* endCompiler, for the script. *)
endScript ==
  /\ Doing("end") /\ Len(compilers) = 1
  /\ status' = "compiled"
  /\ compilers' = <<>> /\ todo' = <<>>
  /\ UNCHANGED <<forms, budget, classes>>

emitItem ==
  /\ Doing("emit") \/ Doing("access")
  /\ Now(emit(Current, First.code))
  /\ Continue(<<>>)
  /\ Same

patchItem ==
  /\ Doing("patch") /\ NoRule
  /\ IF TooFar(Distance(Current, First.at))
       THEN fail
       ELSE Now(patchJump(Current, First.at)) /\ Continue(<<>>) /\ Steady

----------------------------------------------------------------------------
(* Declarations. *)

(* parseVariable, then the rest of the declaration. *)
Declare(x, items) ==
  IF CannotDeclare(Current, x)
    THEN fail
    ELSE Now(declareVariable(Current, x)) /\ Continue(items) /\ Steady

varDeclaration(x) ==
  /\ \/ Doing("declaration") /\ Choose("var")
     \/ Doing("forVariable") /\ NoRule
     \/ Doing("comma") /\ Choose("comma")
  /\ Declare(x, <<Item("initializer"), Item("define"), Item("comma")>>)

variablesEnd ==
  /\ Doing("comma")
  /\ Continue(<<>>)
  /\ Same /\ UNCHANGED compilers

initializer ==
  /\ Doing("initializer")
  /\ \E rest \in {Expression, Emit(<<Op("NIL")>>)} : Continue(<<rest>>)
  /\ Same /\ UNCHANGED compilers

define ==
  /\ Doing("define")
  /\ Now(defineVariable(Current))
  /\ Continue(<<>>)
  /\ Same

Function(type) == [Item("function") EXCEPT !.name = type]

(* The function's own name is initialized before its body. *)
funDeclaration(x) ==
  /\ Doing("declaration") /\ Choose("fun")
  /\ IF CannotDeclare(Current, x)
       THEN fail
       ELSE /\ Now(markInitialized(declareVariable(Current, x)))
            /\ Continue(<<Function("function"), Item("define")>>)
            /\ Steady

classDeclaration(x) ==
  /\ Doing("declaration") /\ Choose("class")
  /\ IF CannotDeclare(Current, x)
       THEN fail
       ELSE /\ Now(defineVariable(emit(declareVariable(Current, x), emitConstantCommond("CLASS"))))
            /\ Continue(<<Named("get", x), Item("methods"), Emit(<<Op("POP")>>), Item("classEnds")>>)
            /\ classes' = classes + 1
            /\ UNCHANGED status

classEnds ==
  /\ Doing("classEnds")
  /\ classes' = classes - 1
  /\ Continue(<<>>)
  /\ UNCHANGED <<forms, budget, status, compilers>>

method ==
  /\ Doing("methods")
  /\ \/ Continue(<<>>) /\ NoRule
     \/ Choose("method") /\ \E type \in MethodTypes :
          Continue(<<Function(type), Emit(emitConstantCommond("METHOD")), First>>)
  /\ Steady /\ UNCHANGED compilers

(* function, up to its parameters. *)
function ==
  /\ Doing("function") /\ NoRule
  /\ IF Len(compilers) = FUNCTION_MAX_NESTING
       THEN fail
       ELSE /\ compilers' = Append(compilers, beginScope(NewCompiler(First.name)))
            /\ Continue(<<Item("parameters"), Item("block"), Item("end")>>)
            /\ Steady

parameter(x) ==
  /\ Doing("parameters") /\ Choose("parameter")
  /\ IF Current.arity = ARGUMENT_MAX \/ CannotDeclare(Current, x)
       THEN fail
       ELSE /\ Now([markInitialized(declareVariable(Current, x)) EXCEPT !.arity = @ + 1])
            /\ UNCHANGED todo /\ Steady

parametersEnd ==
  /\ Doing("parameters")
  /\ Continue(<<>>)
  /\ Same /\ UNCHANGED compilers

(* A constant that is a function is told by its number of upvalues here. *)
closureCode(upvalues) ==
  LET operands[i \in 0 .. Len(upvalues)] ==
        IF i = 0 THEN <<>>
        ELSE operands[i - 1] \o <<Byte(IF upvalues[i].isLocal THEN 1 ELSE 0)>>
               \o Short(upvalues[i].index)
  IN  <<Op("CLOSURE")>> \o Short(Len(upvalues)) \o operands[Len(upvalues)]

(* The rest of function: endCompiler, and the closure in the enclosing code. *)
functionEnds ==
  /\ Doing("end") /\ Len(compilers) > 1
  /\ LET n == Len(compilers) - 1
     IN  compilers' = [SubSeq(compilers, 1, n) EXCEPT
                         ![n] = emit(@, closureCode(Current.upvalues))]
  /\ Continue(<<>>)
  /\ Same

----------------------------------------------------------------------------
(* Statements. *)

AtStatement == Doing("declaration") \/ Doing("statement")

expressionStatement ==
  /\ AtStatement
  /\ budget' = IF budget = 0 THEN 0 ELSE budget - 1
  /\ Continue(<<Expression, Emit(<<Op("POP")>>)>>)
  /\ Steady /\ UNCHANGED <<forms, compilers>>

blockStatement ==
  /\ AtStatement /\ Choose("block")
  /\ Now(beginScope(Current))
  /\ Continue(<<Item("block"), Item("endScope")>>)
  /\ Steady

endBlock ==
  /\ Doing("endScope")
  /\ Now(endScope(Current))
  /\ Continue(<<>>)
  /\ Same

returnStatement ==
  /\ AtStatement /\ Choose("return")
  /\ IF Current.type = "script" THEN fail
     ELSE \/ Now(emitReturn(Current)) /\ Continue(<<>>) /\ Steady
          \/ IF Current.type = "initializer" THEN fail
             ELSE /\ Continue(<<Expression, Emit(<<Op("RETURN")>>)>>)
                  /\ Steady /\ UNCHANGED compilers

forStatement ==
  /\ AtStatement /\ Choose("for")
  /\ Now(beginScope(Current))
  /\ \E init \in {<<>>, <<Item("forVariable")>>, <<Expression, Emit(<<Op("POP")>>)>>} :
        Continue(init \o <<Item("forCondition")>>)
  /\ Steady

forCondition ==
  /\ Doing("forCondition")
  /\ LET loopStart == Count(Current)
     IN  \/ Continue(<<[Item("forIncrement") EXCEPT !.at = loopStart]>>)
         \/ Continue(<<Expression, [Item("forExit") EXCEPT !.at = loopStart]>>)
  /\ Same /\ UNCHANGED compilers

(* A mutant: the condition stays on the stack. *)
KeepCondition == "JUMP_IF_FALSE"

ExitJump == "JUMP_IF_FALSE_POP"

forExit ==
  /\ Doing("forExit")
  /\ Now(emitJump(Current, ExitJump))
  /\ Continue(<<[First EXCEPT !.do = "forIncrement", !.exit = JumpOperand(Current)]>>)
  /\ Same

forIncrement ==
  /\ Doing("forIncrement")
  /\ \/ Continue(<<[First EXCEPT !.do = "forBody"]>>) /\ UNCHANGED compilers
     \/ /\ Now(emitJump(Current, "JUMP"))
        /\ Continue(<<Expression, Emit(<<Op("POP")>>),
                      [First EXCEPT !.do = "forLoop", !.code = JumpOperand(Current)]>>)
  /\ Same

(* Back to the condition; the jump over the increment lands here. *)
forLoop ==
  /\ Doing("forLoop") /\ NoRule
  /\ LET bodyJump == First.code
         f == emitLoop(Current, First.at)
     IN  IF TooFar(LoopDistance(Current, First.at)) \/ TooFar(Distance(f, bodyJump))
           THEN fail
           ELSE /\ Now(patchJump(f, bodyJump))
                /\ Continue(<<[First EXCEPT !.do = "forBody", !.at = bodyJump + 2, !.code = <<>>]>>)
                /\ Steady

forBody ==
  /\ Doing("forBody")
  /\ Now([Current EXCEPT !.loops = Append(@, [start |-> First.at, enterParamCount |-> Len(Current.locals),
                                              breakJumps |-> <<>>])])
  /\ Continue(<<Item("statement"), [First EXCEPT !.do = "forEnds"]>>)
  /\ Same

forEnds ==
  /\ Doing("forEnds") /\ NoRule
  /\ LET n == Len(Current.loops)
         f == emitLoop([Current EXCEPT !.loops = SubSeq(@, 1, n - 1)], First.at)
         breaks == Current.loops[n].breakJumps
         exits == IF First.exit = NoJump THEN breaks ELSE <<First.exit>> \o breaks
         patched[i \in 0 .. Len(exits)] ==
           IF i = 0 THEN f ELSE patchJump(patched[i - 1], exits[i])
     IN  IF \/ TooFar(LoopDistance(Current, First.at))
            \/ \E i \in DOMAIN exits : TooFar(Distance(f, exits[i]))
           THEN fail
           ELSE Now(endScope(patched[Len(exits)])) /\ Continue(<<>>) /\ Steady

(* The locals that break and continue leave behind. *)
InnermostLoop == Current.loops[Len(Current.loops)]
LeaveLoop == emit(Current, emitPopCount(Len(Current.locals) - InnermostLoop.enterParamCount))

breakStatement ==
  /\ AtStatement /\ Choose("break")
  /\ IF Current.loops = <<>> THEN fail
     ELSE /\ Now([emitJump(LeaveLoop, "JUMP") EXCEPT
                    !.loops[Len(Current.loops)].breakJumps = Append(@, JumpOperand(LeaveLoop))])
          /\ Continue(<<>>) /\ Steady

continueStatement ==
  /\ AtStatement /\ Choose("continue")
  /\ IF Current.loops = <<>> \/ TooFar(LoopDistance(LeaveLoop, InnermostLoop.start)) THEN fail
     ELSE Now(emitLoop(LeaveLoop, InnermostLoop.start)) /\ Continue(<<>>) /\ Steady

branchStatement ==
  /\ AtStatement /\ Choose("branch")
  /\ Continue(<<Item("case")>>)
  /\ Steady /\ UNCHANGED compilers

branchCaseStatement ==
  /\ Doing("case")
  /\ Continue(<<Item("statement")>>) \/ Continue(<<Expression, Item("then")>>)
  /\ Same /\ UNCHANGED compilers

caseThen ==
  /\ Doing("then")
  /\ Now(emitJump(Current, "JUMP_IF_FALSE_POP"))
  /\ Continue(<<Item("statement"), [Item("else") EXCEPT !.at = JumpOperand(Current)]>>)
  /\ Same

caseElse ==
  /\ Doing("else")
  /\ LET f == emitJump(Current, "JUMP")
         elseJump == JumpOperand(Current)
     IN  IF TooFar(Distance(f, First.at)) THEN fail /\ NoRule
         ELSE /\ Now(patchJump(f, First.at))
              /\ \/ Continue(<<Patch(elseJump)>>) /\ NoRule
                 \/ Choose("case") /\ Continue(<<Item("case"), Patch(elseJump)>>)
              /\ Steady

----------------------------------------------------------------------------
(* Expressions. *)

literal ==
  /\ Doing("expression")
  /\ \/ Now(emit(Current, <<Op("NIL")>>))
     \/ "constant" \in DOMAIN forms /\ Now(emit(Current, emitConstantCommond("CONSTANT")))
     \/ "module" \in DOMAIN forms /\ Now(emit(Current, <<Op("MODULE_BUILTIN"), Byte(0)>>))
  /\ Continue(<<>>)
  /\ Same

(* and_ and or_, from the operator on: short circuit. *)
Shortcut == [and |-> "JUMP_IF_FALSE", or |-> "JUMP_IF_TRUE"]
logical(form) ==
  /\ Doing("expression") /\ Choose(form)
  /\ Continue(<<Expression, [Item("shortcut") EXCEPT !.name = Shortcut[form]]>>)
  /\ Steady /\ UNCHANGED compilers

shortcut ==
  /\ Doing("shortcut")
  /\ Now(emit(emitJump(Current, First.name), <<Op("POP")>>))
  /\ Continue(<<Expression, Patch(JumpOperand(Current))>>)
  /\ Same

(* Operators: their operands, then their instruction. *)
Operations ==
  [unary |-> [operands |-> 1, code |-> <<Op("NOT")>>],
   binary |-> [operands |-> 2, code |-> <<Op("ADD")>>],
   bitwise |-> [operands |-> 2, code |-> <<Op("BITWISE"), Byte(1)>>],
   getProperty |-> [operands |-> 1, code |-> emitConstantCommond("GET_PROPERTY")],
   setProperty |-> [operands |-> 2, code |-> emitConstantCommond("SET_PROPERTY")],
   getSubscript |-> [operands |-> 2, code |-> <<Op("GET_SUBSCRIPT")>>],
   setSubscript |-> [operands |-> 3, code |-> <<Op("SET_SUBSCRIPT")>>]]

operation(form) ==
  /\ Doing("expression") /\ Choose(form)
  /\ Continue(Append(Expressions(Operations[form].operands), Emit(Operations[form].code)))
  /\ Steady /\ UNCHANGED compilers

(* Expressions of a list, then the instruction that takes them. *)
List(first, n, code) ==
  IF n > ARGUMENT_MAX THEN fail
  ELSE /\ Continue(Append(Expressions(first + n), Emit(code)))
       /\ Steady /\ UNCHANGED compilers

call(n) ==
  /\ Doing("expression") /\ Choose("call")
  /\ List(1, n, <<Op("CALL"), Byte(n % Base)>>)

invoke(n) ==
  /\ Doing("expression") /\ Choose("invoke")
  /\ List(1, n, Append(emitConstantCommond("INVOKE"), Byte(n % Base)))

arrayLiteral(n) ==
  /\ Doing("expression") /\ Choose("array")
  /\ List(0, n, <<Op("NEW_ARRAY"), Byte(n % Base)>>)

objectLiteral(n) ==
  /\ Doing("expression") /\ Choose("object")
  /\ IF Current.objectNestingDepth = OBJECT_MAX_NESTING THEN fail
     ELSE /\ Now(emit([Current EXCEPT !.objectNestingDepth = @ + 1], <<Op("NEW_OBJECT")>>))
          /\ Continue(Append([i \in 1 .. 2 * n |->
                                IF i % 2 = 1 THEN Expression
                                             ELSE Emit(emitConstantCommond("NEW_PROPERTY"))],
                             Item("objectEnds")))
          /\ Steady

objectEnds ==
  /\ Doing("objectEnds")
  /\ Now([Current EXCEPT !.objectNestingDepth = @ - 1])
  /\ Continue(<<>>)
  /\ Same

variable(verb, x) ==
  /\ Doing("expression") /\ Choose(verb)
  /\ Continue(<<Named(verb, x)>>)
  /\ Steady /\ UNCHANGED compilers

this_ ==
  /\ Doing("expression") /\ Choose("this")
  /\ IF classes = 0 THEN fail
     ELSE Continue(<<Named("get", "this")>>) /\ Steady /\ UNCHANGED compilers

namedVariable ==
  /\ Doing("named") /\ NoRule
  /\ LET x == First.name
         access == [Item("access") EXCEPT !.name = x, !.code = Access(First.code, x)]
     IN  IF CannotResolve(x) THEN fail
         ELSE /\ compilers' = IF Owner(x) \in {0, Len(compilers)} THEN compilers ELSE resolveUpvalue(x)
              /\ Continue(IF First.code = "set" THEN <<Expression, access>> ELSE <<access>>)
              /\ Steady

----------------------------------------------------------------------------
Declarations == \E x \in Names :
  varDeclaration(x) \/ funDeclaration(x) \/ classDeclaration(x) \/ parameter(x)

Statements ==
  \/ expressionStatement \/ blockStatement \/ returnStatement \/ forStatement
  \/ breakStatement \/ continueStatement \/ branchStatement

ExpressionRules ==
  \/ literal \/ this_
  \/ \E form \in DOMAIN Shortcut : logical(form)
  \/ \E form \in DOMAIN Operations : operation(form)
  \/ \E n \in 0 .. ARGUMENT_MAX + 1 : call(n) \/ invoke(n) \/ arrayLiteral(n) \/ objectLiteral(n)
  \/ \E verb \in DOMAIN Instructions, x \in Names : variable(verb, x)

Resume ==
  \/ declarations \/ blockEnds \/ programEnds \/ endScript \/ emitItem \/ patchItem
  \/ initializer \/ define \/ variablesEnd \/ classEnds \/ method \/ function \/ parametersEnd \/ functionEnds
  \/ endBlock \/ forCondition \/ forExit \/ forIncrement \/ forLoop \/ forBody \/ forEnds
  \/ branchCaseStatement \/ caseThen \/ caseElse \/ shortcut \/ objectEnds \/ namedVariable

Next == compile \/ Declarations \/ Statements \/ ExpressionRules \/ Resume

Spec == Init /\ [][Next]_vars

----------------------------------------------------------------------------
(* How run reads code: positions start at 1, a slot is counted from 0. *)

Shorts ==
  {"CONSTANT", "CLOSURE", "CLASS", "METHOD", "GET_PROPERTY", "SET_PROPERTY", "NEW_PROPERTY",
   "GET_GLOBAL", "SET_GLOBAL", "DEFINE_GLOBAL", "JUMP", "LOOP", "JUMP_IF_FALSE",
   "JUMP_IF_FALSE_POP", "JUMP_IF_TRUE"}
Bytes ==
  {"GET_LOCAL", "SET_LOCAL", "GET_UPVALUE", "SET_UPVALUE", "CALL", "POP_N", "NEW_ARRAY", "BITWISE",
   "MODULE_BUILTIN"}

(* READ_BYTE and READ_SHORT of the operand at p. *)
ReadByte(code, p) == code[p].byte
ReadShort(code, p) == code[p].byte + Base * code[p + 1].byte

OperandSize(code, p) ==
  LET op == code[p].op
  IN  IF op = "CLOSURE" THEN 2 + 3 * ReadShort(code, p + 1)
      ELSE IF op = "INVOKE" THEN 3
      ELSE IF op \in Shorts THEN 2
      ELSE IF op \in Bytes THEN 1 ELSE 0

(* The values the instruction finds on the stack, and those it leaves. *)
Takes(code, p) ==
  LET op == code[p].op
  IN  CASE op \in {"POP_N", "NEW_ARRAY"} -> ReadByte(code, p + 1)
        [] op = "CALL" -> ReadByte(code, p + 1) + 1
        [] op = "INVOKE" -> ReadByte(code, p + 3) + 1
        [] op = "SET_SUBSCRIPT" -> 3
        [] op \in {"ADD", "BITWISE", "GET_SUBSCRIPT", "SET_PROPERTY", "NEW_PROPERTY", "METHOD"} -> 2
        [] op \in {"NOT", "GET_PROPERTY", "SET_LOCAL", "SET_UPVALUE", "SET_GLOBAL", "POP",
                   "DEFINE_GLOBAL", "CLOSE_UPVALUE", "JUMP_IF_FALSE", "JUMP_IF_FALSE_POP",
                   "JUMP_IF_TRUE", "RETURN"} -> 1
        [] OTHER -> 0

Leaves(code, p) ==
  IF code[p].op \in {"POP", "POP_N", "DEFINE_GLOBAL", "CLOSE_UPVALUE", "JUMP_IF_FALSE_POP",
                     "JUMP", "LOOP", "RETURN"} THEN 0 ELSE 1

(* The local slots of the frame that a closure made here captures. *)
Captures(code, p) ==
  IF code[p].op # "CLOSURE" THEN {}
  ELSE {ReadShort(code, q + 1) : q \in {r \in {p + 3 * i : i \in 1 .. ReadShort(code, p + 1)} :
                                          ReadByte(code, r) = 1}}

(* An instruction starts here, whole. *)
Decodes(code, p) ==
  /\ p <= Len(code) /\ code[p].op # "operand"
  /\ p + OperandSize(code, p) <= Len(code)
  /\ \A q \in p + 1 .. p + OperandSize(code, p) : code[q].op = "operand"

(* Where it goes.  A jump not patched yet goes nowhere. *)
Targets(code, p) ==
  LET op == code[p].op
      next == p + 1 + OperandSize(code, p)
      ahead == IF code[p + 1] = Unpatched THEN {} ELSE {next + ReadShort(code, p + 1)}
  IN  CASE op = "RETURN" -> {}
        [] op = "LOOP" -> {next - ReadShort(code, p + 1)}
        [] op = "JUMP" -> ahead
        [] op \in {"JUMP_IF_FALSE", "JUMP_IF_FALSE_POP", "JUMP_IF_TRUE"} -> ahead \cup {next}
        [] OTHER -> {next}

(* What the instruction at a point of the flow leads to. *)
After(code, point) ==
  LET p == point.at
      open == IF code[p].op = "CLOSE_UPVALUE"
                THEN point.open \ {point.height - 1}
                ELSE point.open \cup Captures(code, p)
  IN  {[at |-> t, height |-> point.height - Takes(code, p) + Leaves(code, p), open |-> open] :
         t \in Targets(code, p)}

(* All points of a function's code that run can get to: the position, the    *)
(* height of its part of the stack, the slots with an open upvalue.          *)
Flow(f) ==
  LET code == f.code
      reached[n \in 0 .. Len(code)] ==
        IF n = 0 THEN {[at |-> 1, height |-> f.arity + 1, open |-> {}]}
        ELSE LET before == reached[n - 1]
             IN  before \cup UNION {After(code, point) :
                                      point \in {q \in before : Decodes(code, q.at)}}
  IN  reached[Len(code)]

----------------------------------------------------------------------------
(* Properties. *)

(* Types, and of locals: depths grow, and only the local being declared is   *)
(* not initialized.                                                          *)
TypeOK ==
  /\ budget \in 0 .. MaxForms
  /\ status \in {"compiling", "compiled", "error"}
  /\ classes \in Nat
  /\ \A l \in DOMAIN compilers :
       LET f == compilers[l]
       IN  /\ f.type \in {"script", "function"} \cup MethodTypes
           /\ Len(f.locals) \in 1 .. LOCAL_MAX
           /\ Len(f.upvalues) <= UPVALUE_MAX
           /\ \A i \in DOMAIN f.locals :
                /\ f.locals[i].depth \in 0 .. f.scopeDepth \/ (f.locals[i].depth = -1 /\ i = Len(f.locals))
                /\ \A j \in 1 .. i - 1 : f.locals[i].depth # -1 => f.locals[j].depth <= f.locals[i].depth
           /\ \A i \in DOMAIN f.code : f.code[i] = Unpatched \/ f.code[i].byte < Base

(* On every path through a finished function the machine decodes whole       *)
(* instructions, whatever was jumped to, and never runs off the end; finds   *)
(* the operands it takes above slot 0; reads, writes and captures only slots *)
(* and upvalues that exist; and at one position always has the same height.  *)
CodeExecutes ==
  Doing("end") =>
    LET f == emitReturn(Current)
        points == Flow(f)
    IN  /\ \A p \in points :
             /\ Decodes(f.code, p.at)
             /\ p.height - Takes(f.code, p.at) >= 1
             /\ Captures(f.code, p.at) \subseteq 0 .. p.height
             /\ f.code[p.at].op \in {"GET_LOCAL", "SET_LOCAL"} => ReadByte(f.code, p.at + 1) < p.height
             /\ f.code[p.at].op \in {"GET_UPVALUE", "SET_UPVALUE"} =>
                  ReadByte(f.code, p.at + 1) < Len(f.upvalues)
        /\ \A p, q \in points : p.at = q.at => p.height = q.height

(* Between statements the compiler's count of locals is the height the stack *)
(* will have there, on every path: a local's index is its slot.              *)
HeightIsLocalCount ==
  AtStatement =>
    \A p \in Flow(Current) : p.at = Count(Current) + 1 => p.height = Len(Current.locals)

(* What an operand stands for: a local of some function being compiled, by   *)
(* way of the upvalues of the functions between.                             *)
Denoted(code) ==
  LET n == Len(compilers)
      via[l \in 1 .. n] ==  \* where upvalue 0, 1, ... of function l comes from
        [i \in DOMAIN compilers[l].upvalues |->
           LET u == compilers[l].upvalues[i]
           IN  IF u.isLocal THEN <<l - 1, u.index>> ELSE via[l - 1][u.index + 1]]
      k == code[2].byte
  IN  CASE code[1].op \in {"GET_LOCAL", "SET_LOCAL"} -> <<n, k>>
        [] code[1].op \in {"GET_UPVALUE", "SET_UPVALUE"} -> via[n][k + 1]
        [] OTHER -> <<0, 0>>

(* Every access is to the innermost declaration of its name: no function and *)
(* no scope further in declares it, and it is a global only if none does.    *)
AccessIsInnermost ==
  Doing("access") =>
    LET x == First.name
        where == Denoted(First.code)
        declarations_ == UNION {{<<l, i - 1>> : i \in LocalsNamed(compilers[l], x)} : l \in DOMAIN compilers}
    IN  /\ where = <<0, 0>> \/ where \in declarations_
        /\ \A d \in declarations_ : d[1] < where[1] \/ (d[1] = where[1] /\ d[2] <= where[2])

(* No slot is popped or reused while an upvalue to it is open: where a scope *)
(* ends normally its captured locals are closed.                             *)
CapturedAreClosed ==
  Doing("end") =>
    LET f == emitReturn(Current)
    IN  \A p \in Flow(f) :
          Decodes(f.code, p.at) /\ f.code[p.at].op \notin {"RETURN", "CLOSE_UPVALUE"} =>
            \A s \in p.open : s < p.height - Takes(f.code, p.at)
=============================================================================
