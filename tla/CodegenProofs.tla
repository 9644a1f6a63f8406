--------------------------- MODULE CodegenProofs ---------------------------
(***************************************************************************)
(* Theorems about the code generator, for programs of any size, any limits *)
(* and any values of a byte.                                               *)
(***************************************************************************)
EXTENDS Codegen, SequenceTheorems, FiniteSetTheorems, WellFoundedInduction, TLAPS

----------------------------------------------------------------------------
(* Functions defined by recursion on 0 .. n: there is one if every step has  *)
(* a value, and there are no two.                                            *)

LEMMA Least ==
  ASSUME NEW S, S \subseteq Nat, S # {}
  PROVE  \E m \in S : \A k \in Nat : k < m => k \notin S
<1>1. PICK m \in S : \A k \in S : ~ (<<k, m>> \in OpToRel(<, Nat))
  BY WFMin, NatLessThanWellFounded
<1>2. ASSUME NEW k \in Nat, k < m PROVE k \notin S
  BY <1>1, <1>2 DEF OpToRel
<1> QED BY <1>2

(* f is defined up to m, by the steps F, with values in V. *)
Recursive(f, m, V, a, F) ==
  /\ f = [i \in 0 .. m |-> f[i]] /\ f[0] = a
  /\ \A i \in 0 .. m : f[i] \in V[i]
  /\ \A i \in 1 .. m : f[i] = F[i][f[i - 1]]

LEMMA RecursionExists ==
  ASSUME NEW n \in Nat, NEW V, NEW a \in V[0], NEW F,
         \A i \in 1 .. n : \A v \in V[i - 1] : F[i][v] \in V[i]
  PROVE  \E f : Recursive(f, n, V, a, F)
<1> DEFINE T == {m \in 0 .. n : ~ \E f : Recursive(f, m, V, a, F)}
<1>1. n \in 0 .. n
  OBVIOUS
<1>2. SUFFICES ASSUME T # {} PROVE FALSE
  BY <1>1
<1>3. PICK m \in T : \A k \in Nat : k < m => k \notin T
  <2>1. T \subseteq Nat
    OBVIOUS
  <2> HIDE DEF T
  <2> QED BY <1>2, <2>1, Least
<1>4. m \in 0 .. n /\ ~ \E f : Recursive(f, m, V, a, F)
  BY <1>3
<1>5. CASE m = 0
  <2>1. PICK f : f = [i \in 0 .. 0 |-> a]
    OBVIOUS
  <2>2. Recursive(f, 0, V, a, F)
    BY <2>1 DEF Recursive
  <2> QED BY <1>4, <1>5, <2>2
<1>6. CASE m # 0
  <2>1. m \in Nat /\ m \in 1 .. n /\ m - 1 \in 0 .. n /\ m - 1 < m
    BY <1>4, <1>6
  <2>2. m - 1 \notin T
    BY <1>3, <2>1
  <2>3. PICK f : Recursive(f, m - 1, V, a, F)
    BY <2>1, <2>2
  <2>4. PICK v : v = F[m][f[m - 1]]
    OBVIOUS
  <2>5. PICK g : g = [i \in 0 .. m |-> IF i = m THEN v ELSE f[i]]
    OBVIOUS
  <2>6. g[m] = v /\ \A i \in 0 .. m - 1 : g[i] = f[i]
    BY <2>1, <2>5
  <2>7. g[0] = a /\ \A i \in 0 .. m - 1 : g[i] \in V[i]
    BY <2>1, <2>3, <2>6 DEF Recursive
  <2>8. f[m - 1] \in V[m - 1]
    BY <2>1, <2>3 DEF Recursive
  <2>9. v \in V[m]
    BY <2>1, <2>4, <2>8
  <2>10. \A i \in 1 .. m : g[i] = F[i][g[i - 1]]
    <3>1. TAKE i \in 1 .. m
    <3>2. CASE i = m
      BY <2>1, <2>4, <2>6, <3>2
    <3>3. CASE i # m
      <4>1. i \in 1 .. m - 1 /\ i \in 0 .. m - 1 /\ i - 1 \in 0 .. m - 1
        BY <2>1, <3>3
      <4>2. f[i] = F[i][f[i - 1]]
        BY <2>3, <4>1 DEF Recursive
      <4> QED BY <2>6, <4>1, <4>2
    <3> QED BY <3>2, <3>3
  <2>11. \A i \in 0 .. m : g[i] \in V[i]
    BY <2>1, <2>6, <2>7, <2>9
  <2>12. g = [i \in 0 .. m |-> g[i]]
    BY <2>5
  <2>13. Recursive(g, m, V, a, F)
    BY <2>7, <2>10, <2>11, <2>12 DEF Recursive
  <2> QED BY <1>4, <2>13
<1> QED BY <1>5, <1>6

LEMMA RecursionUnique ==
  ASSUME NEW n \in Nat, NEW f, NEW g, f[0] = g[0],
         \A i \in 1 .. n : f[i - 1] = g[i - 1] => f[i] = g[i]
  PROVE  \A i \in 0 .. n : f[i] = g[i]
<1> DEFINE T == {m \in 0 .. n : f[m] # g[m]}
<1>1. SUFFICES ASSUME T # {} PROVE FALSE
  OBVIOUS
<1>2. PICK m \in T : \A k \in Nat : k < m => k \notin T
  <2>1. T \subseteq Nat
    OBVIOUS
  <2> HIDE DEF T
  <2> QED BY <1>1, <2>1, Least
<1>3. m \in 1 .. n /\ m - 1 \in Nat /\ m - 1 < m /\ m - 1 \in 0 .. n /\ f[m] # g[m]
  <2>1. m \in 0 .. n /\ f[m] # g[m]
    BY <1>2
  <2>2. m # 0
    BY <2>1
  <2> QED BY <2>1, <2>2
<1>4. f[m - 1] = g[m - 1]
  BY <1>2, <1>3
<1> QED BY <1>3, <1>4

LEMMA Determined ==
  ASSUME NEW n \in Nat, NEW V, NEW a, NEW F, NEW f, Recursive(f, n, V, a, F),
         NEW g, g[0] = a, \A i \in 1 .. n : g[i - 1] \in V[i - 1] => g[i] = F[i][g[i - 1]]
  PROVE  \A i \in 0 .. n : g[i] = f[i] /\ g[i] \in V[i]
<1>1. f[0] = g[0]
  BY DEF Recursive
<1>2. ASSUME NEW i \in 1 .. n, f[i - 1] = g[i - 1] PROVE f[i] = g[i]
  <2>1. i - 1 \in 0 .. n
    OBVIOUS
  <2>2. f[i - 1] \in V[i - 1] /\ f[i] = F[i][f[i - 1]]
    BY <2>1 DEF Recursive
  <2> QED BY <1>2, <2>2
<1>3. \A i \in 0 .. n : f[i] = g[i]
  BY <1>1, <1>2, RecursionUnique
<1> QED BY <1>3 DEF Recursive

----------------------------------------------------------------------------
(* Types. *)

Ops ==
  {"operand", "NIL", "RETURN", "CONSTANT", "MODULE_BUILTIN", "POP", "POP_N", "CLOSURE", "CLOSE_UPVALUE",
   "GET_GLOBAL", "SET_GLOBAL", "DEFINE_GLOBAL", "GET_LOCAL", "SET_LOCAL", "GET_UPVALUE", "SET_UPVALUE",
   "CLASS", "METHOD", "CALL", "INVOKE", "NEW_ARRAY", "NEW_OBJECT", "NEW_PROPERTY", "NOT", "ADD", "BITWISE",
   "GET_PROPERTY", "SET_PROPERTY", "GET_SUBSCRIPT", "SET_SUBSCRIPT",
   "LOOP", "JUMP", "JUMP_IF_FALSE", "JUMP_IF_FALSE_POP", "JUMP_IF_TRUE"}
Cells == {c \in [op : Ops, byte : Int] : c.byte < Base \/ c = Unpatched}
Codes == Seq(Cells)
Identifiers == Names \cup {"", "this"}
Locals == [name : Identifiers, depth : Int, isCaptured : BOOLEAN]
Upvalues == [index : 0 .. Base - 1, isLocal : BOOLEAN]
Loops == [start : Int, enterParamCount : Int, breakJumps : Seq(Int)]
FunctionTypes == {"script", "function"} \cup MethodTypes
CompilersTyped ==
  [type : FunctionTypes, code : Codes, arity : Int, scopeDepth : Nat, loops : Seq(Loops), upvalues : Seq(Upvalues),
   objectNestingDepth : Int, locals : Seq(Locals)]

LEMMA Bytes_ ==
  /\ Base \in Nat /\ Base >= 2 /\ LOCAL_MAX \in Nat /\ LOCAL_MAX >= 1 /\ LOCAL_MAX <= Base
  /\ UPVALUE_MAX \in Nat /\ UPVALUE_MAX <= Base /\ ARGUMENT_MAX \in Nat /\ ARGUMENT_MAX < Base
BY CodegenAssumption

LEMMA OpCell ==
  ASSUME NEW name \in Ops
  PROVE  Op(name) \in Cells /\ Op(name).op = name
BY Bytes_ DEF Cells, Op

LEMMA ByteCell ==
  ASSUME NEW n \in Int, n < Base
  PROVE  Byte(n) \in Cells /\ Byte(n).op = "operand" /\ Byte(n).byte = n
BY Bytes_ DEF Cells, Byte, Ops

LEMMA UnpatchedCell == Unpatched \in Cells
<1>1. Unpatched \in [op : Ops, byte : Int]
  BY Bytes_ DEF Unpatched, Byte, Ops
<1> QED BY <1>1 DEF Cells

LEMMA Rest ==
  ASSUME NEW n \in Int
  PROVE  n % Base \in Int /\ n % Base < Base /\ 0 <= n % Base
BY Bytes_

LEMMA Quotient ==
  ASSUME NEW n \in Int, ~TooFar(n)
  PROVE  n \div Base \in Int /\ n \div Base < Base
<1>1. PICK b \in Nat : b = Base /\ b >= 2
  BY Bytes_
<1>2. PICK q \in Int, r \in Int : q = n \div b /\ r = n % b
  BY <1>1
<1>3. n = b * q + r /\ 0 <= r /\ r < b
  BY <1>1, <1>2
<1>4. n < b * b
  BY <1>1 DEF TooFar
<1>5. q < b
  <2>1. SUFFICES ASSUME q >= b PROVE FALSE
    OBVIOUS
  <2>2. b * q >= b * b
    BY <1>1, <2>1
  <2> QED BY <1>1, <1>3, <1>4, <2>2
<1> QED BY <1>1, <1>2, <1>5

LEMMA ShortCode ==
  ASSUME NEW n \in Int, ~TooFar(n)
  PROVE  /\ Short(n) \in Codes /\ Len(Short(n)) = 2
         /\ Short(n)[1] \in Cells /\ Short(n)[2] \in Cells
<1>1. Byte(n % Base) \in Cells /\ Byte(n \div Base) \in Cells
  BY Rest, Quotient, ByteCell
<1> QED BY <1>1 DEF Short, Codes

LEMMA Near ==
  ASSUME NEW n \in Int, n <= Base
  PROVE  ~TooFar(n)
<1>1. PICK b \in Nat : b = Base /\ b >= 2
  BY Bytes_
<1>2. b < b * b
  BY <1>1
<1> QED BY <1>1, <1>2 DEF TooFar

(* Codes of one instruction. *)
LEMMA Codes_ ==
  /\ <<>> \in Codes
  /\ \A c \in Cells : <<c>> \in Codes
  /\ \A c, d \in Cells : <<c, d>> \in Codes
  /\ \A c, d, e \in Cells : <<c, d, e>> \in Codes
BY DEF Codes

LEMMA OpCode ==
  ASSUME NEW name \in Ops
  PROVE  /\ <<Op(name)>> \in Codes
         /\ <<Op(name), Unpatched, Unpatched>> \in Codes
BY OpCell, UnpatchedCell, Codes_

LEMMA OpByteCode ==
  ASSUME NEW name \in Ops, NEW n \in Int, n < Base
  PROVE  <<Op(name), Byte(n)>> \in Codes
BY OpCell, ByteCell, Codes_

LEMMA Joined ==
  ASSUME NEW c \in Codes, NEW d \in Codes
  PROVE  c \o d \in Codes
BY ConcatProperties DEF Codes

LEMMA ConstantCode ==
  ASSUME NEW name \in Ops
  PROVE  emitConstantCommond(name) \in Codes
<1>1. Short(0) \in Codes
  BY Near, ShortCode, Bytes_
<1> QED BY <1>1, OpCode, Joined DEF emitConstantCommond

LEMMA PopCountCode ==
  ASSUME NEW n \in Int
  PROVE  emitPopCount(n) \in Codes
<1>1. <<>> \in Codes
  BY Codes_
<1>2. <<Op("POP")>> \in Codes
  BY OpCode DEF Ops
<1>3. <<Op("POP_N"), Byte(n % Base)>> \in Codes
  BY OpByteCode, Rest DEF Ops
<1> QED BY <1>1, <1>2, <1>3 DEF emitPopCount

----------------------------------------------------------------------------
(* The recursive parts of the code generator return code. *)

Endings == [code : Codes, pops : Nat]
EndedStep(local, after) ==
  IF local.isCaptured
    THEN [code |-> after.code \o emitPopCount(after.pops) \o <<Op("CLOSE_UPVALUE")>>, pops |-> 0]
    ELSE [after EXCEPT !.pops = @ + 1]
EndedBy(locals, e) ==
  [i \in 0 .. Len(locals) |->
     IF i = Len(locals) THEN [code |-> <<>>, pops |-> 0] ELSE EndedStep(locals[i + 1], e[i + 1])]
Ended(locals) == CHOOSE e : e = EndedBy(locals, e)

LEMMA UnwindIs ==
  ASSUME NEW locals
  PROVE  Unwind(locals) = Ended(locals)[0].code \o emitPopCount(Ended(locals)[0].pops)
BY Zenon DEF Unwind, Ended, EndedBy, EndedStep

LEMMA EndedStepTyped ==
  ASSUME NEW local, NEW after \in Endings
  PROVE  EndedStep(local, after) \in Endings
<1>1. after.code \o emitPopCount(after.pops) \o <<Op("CLOSE_UPVALUE")>> \in Codes
  <2>1. after.code \in Codes /\ after.pops \in Int
    BY DEF Endings
  <2>2. emitPopCount(after.pops) \in Codes /\ <<Op("CLOSE_UPVALUE")>> \in Codes
    BY <2>1, PopCountCode, OpCode DEF Ops
  <2> QED BY <2>1, <2>2, Joined
<1>2. [after EXCEPT !.pops = @ + 1] \in Endings
  BY DEF Endings
<1> QED BY <1>1, <1>2 DEF EndedStep, Endings

LEMMA UnwindCode ==
  ASSUME NEW locals \in Seq(Locals)
  PROVE  Unwind(locals) \in Codes
<1> DEFINE n == Len(locals)
           V == [j \in 0 .. n |-> Endings]
           none == [code |-> <<>>, pops |-> 0]
           F == [j \in 1 .. n |-> [after \in Endings |-> EndedStep(locals[n - j + 1], after)]]
<1>1. n \in Nat
  BY LenProperties
<1>2. none \in Endings
  BY Codes_ DEF Endings
<1>3. \A j \in 1 .. n : \A v \in V[j - 1] : F[j][v] \in V[j]
  BY <1>1, EndedStepTyped
<1>4. PICK f : Recursive(f, n, V, none, F)
  <2>1. none \in V[0]
    BY <1>1, <1>2
  <2> HIDE DEF V, none, F, n
  <2> QED BY <1>1, <1>3, <2>1, RecursionExists
<1>5. PICK e : e = [i \in 0 .. n |-> f[n - i]]
  OBVIOUS
<1>6. e = EndedBy(locals, e)
  <2>1. ASSUME NEW i \in 0 .. n
        PROVE  e[i] = IF i = n THEN none ELSE EndedStep(locals[i + 1], e[i + 1])
    <3>1. CASE i = n
      BY <1>1, <1>4, <1>5, <3>1 DEF Recursive
    <3>2. CASE i # n
      <4>1. n - i \in 1 .. n /\ n - (i + 1) = (n - i) - 1 /\ n - (n - i) + 1 = i + 1 /\ i + 1 \in 0 .. n
            /\ (n - i) - 1 \in 0 .. n
        BY <1>1, <3>2
      <4>2. f[n - i] = F[n - i][f[(n - i) - 1]] /\ f[(n - i) - 1] \in Endings
        BY <1>4, <4>1 DEF Recursive
      <4>3. F[n - i][f[(n - i) - 1]] = EndedStep(locals[n - (n - i) + 1], f[(n - i) - 1])
        BY <4>1, <4>2
      <4>4. e[i] = f[n - i] /\ e[i + 1] = f[n - (i + 1)]
        BY <1>5, <4>1
      <4>5. e[i] = EndedStep(locals[i + 1], e[i + 1])
        BY <4>1, <4>2, <4>3, <4>4
      <4> QED BY <3>2, <4>5
    <3> QED BY <3>1, <3>2
  <2> QED BY <1>5, <2>1 DEF EndedBy
<1>7. PICK g : g = Ended(locals) /\ g = EndedBy(locals, g)
  BY <1>6 DEF Ended
<1>8. PICK h : h = [j \in 0 .. n |-> g[n - j]]
  OBVIOUS
<1>9. h[0] = none
  BY <1>1, <1>7, <1>8 DEF EndedBy
<1>10. ASSUME NEW j \in 1 .. n, h[j - 1] \in V[j - 1]
       PROVE  h[j] = F[j][h[j - 1]]
  <2>1. n - j \in 0 .. n /\ n - j # n /\ j - 1 \in 0 .. n /\ j \in 0 .. n /\ n - (j - 1) = n - j + 1
    BY <1>1
  <2>2. g[n - j] = EndedStep(locals[n - j + 1], g[n - j + 1])
    BY <1>7, <2>1 DEF EndedBy
  <2>3. h[j] = EndedStep(locals[n - j + 1], h[j - 1]) /\ h[j - 1] \in Endings
    BY <1>8, <1>10, <2>1, <2>2
  <2> QED BY <2>3
<1>11. \A j \in 0 .. n : h[j] = f[j] /\ h[j] \in V[j]
  <2> HIDE DEF V, none, F, n
  <2> QED BY <1>1, <1>4, <1>9, <1>10, Determined
<1>12. g[0] \in Endings
  BY <1>1, <1>8, <1>11
<1>13. g[0].code \in Codes /\ emitPopCount(g[0].pops) \in Codes
  BY <1>12, PopCountCode DEF Endings
<1> QED BY <1>7, <1>13, UnwindIs, Joined

OperandsStep(u, before) == before \o <<Byte(IF u.isLocal THEN 1 ELSE 0)>> \o Short(u.index)
OperandsBy(upvalues, o) ==
  [i \in 0 .. Len(upvalues) |-> IF i = 0 THEN <<>> ELSE OperandsStep(upvalues[i], o[i - 1])]
Operands(upvalues) == CHOOSE o : o = OperandsBy(upvalues, o)

LEMMA closureCodeIs ==
  ASSUME NEW upvalues
  PROVE  closureCode(upvalues) = <<Op("CLOSURE")>> \o Short(Len(upvalues)) \o Operands(upvalues)[Len(upvalues)]
BY Zenon DEF closureCode, Operands, OperandsBy, OperandsStep

LEMMA ClosureCodeTyped ==
  ASSUME NEW upvalues \in Seq(Upvalues), Len(upvalues) <= UPVALUE_MAX
  PROVE  closureCode(upvalues) \in Codes
<1> DEFINE n == Len(upvalues)
           V == [i \in 0 .. n |-> Codes]
           F == [i \in 1 .. n |-> [before \in Codes |-> OperandsStep(upvalues[i], before)]]
<1>1. n \in Nat /\ n <= Base /\ \A i \in 1 .. n : upvalues[i] \in Upvalues
  BY LenProperties, ElementOfSeq, Bytes_
<1>2. ASSUME NEW i \in 1 .. n, NEW c \in Codes
      PROVE  OperandsStep(upvalues[i], c) \in Codes
  <2>1. upvalues[i].index \in Int /\ upvalues[i].index <= Base
    BY <1>1, Bytes_ DEF Upvalues
  <2>2. Short(upvalues[i].index) \in Codes
    BY <2>1, Near, ShortCode
  <2>3. Byte(IF upvalues[i].isLocal THEN 1 ELSE 0) \in Cells
    BY ByteCell, Bytes_
  <2>4. <<Byte(IF upvalues[i].isLocal THEN 1 ELSE 0)>> \in Codes
    BY <2>3, Codes_
  <2> QED BY <2>2, <2>4, Joined DEF OperandsStep
<1>3. \A i \in 1 .. n : \A v \in V[i - 1] : F[i][v] \in V[i]
  BY <1>1, <1>2
<1>4. PICK f : Recursive(f, n, V, <<>>, F)
  <2>1. <<>> \in V[0]
    BY <1>1, Codes_
  <2> HIDE DEF V, F, n
  <2> QED BY <1>1, <1>3, <2>1, RecursionExists
<1>5. f = OperandsBy(upvalues, f)
  <2>1. ASSUME NEW i \in 0 .. n
        PROVE  f[i] = IF i = 0 THEN <<>> ELSE OperandsStep(upvalues[i], f[i - 1])
    <3>1. CASE i = 0
      BY <1>4, <3>1 DEF Recursive
    <3>2. CASE i # 0
      <4>1. i \in 1 .. n /\ i - 1 \in 0 .. n
        BY <1>1, <3>2
      <4>2. f[i] = F[i][f[i - 1]] /\ f[i - 1] \in Codes
        BY <1>4, <4>1 DEF Recursive
      <4> QED BY <3>2, <4>1, <4>2
    <3> QED BY <3>1, <3>2
  <2>2. f = [i \in 0 .. n |-> f[i]]
    BY <1>4 DEF Recursive
  <2> QED BY <2>1, <2>2 DEF OperandsBy
<1>6. PICK g : g = Operands(upvalues) /\ g = OperandsBy(upvalues, g)
  BY <1>5 DEF Operands
<1>7. g[0] = <<>>
  BY <1>1, <1>6 DEF OperandsBy
<1>8. ASSUME NEW i \in 1 .. n, g[i - 1] \in V[i - 1]
      PROVE  g[i] = F[i][g[i - 1]]
  <2>1. i \in 0 .. n /\ i - 1 \in 0 .. n /\ i # 0
    BY <1>1
  <2>2. g[i] = OperandsStep(upvalues[i], g[i - 1])
    BY <1>6, <2>1 DEF OperandsBy
  <2> QED BY <1>8, <2>1, <2>2
<1>9. \A i \in 0 .. n : g[i] = f[i] /\ g[i] \in V[i]
  <2> HIDE DEF V, F, n
  <2> QED BY <1>1, <1>4, <1>7, <1>8, Determined
<1>10. g[n] \in Codes
  BY <1>1, <1>9
<1>11. Short(n) \in Codes /\ <<Op("CLOSURE")>> \in Codes
  BY <1>1, Near, ShortCode, OpCode DEF Ops
<1> QED BY <1>6, <1>10, <1>11, closureCodeIs, Joined

----------------------------------------------------------------------------
(* What is emitted changes code and nothing else. *)

(* f with other code. *)
WithCode(f, c) == [f EXCEPT !.code = c]

LEMMA WithCodeTyped ==
  ASSUME NEW f \in CompilersTyped, NEW c \in Codes
  PROVE  /\ WithCode(f, c) \in CompilersTyped /\ WithCode(f, c).code = c
         /\ WithCode(f, c).type = f.type /\ WithCode(f, c).arity = f.arity
         /\ WithCode(f, c).scopeDepth = f.scopeDepth /\ WithCode(f, c).loops = f.loops
         /\ WithCode(f, c).upvalues = f.upvalues /\ WithCode(f, c).locals = f.locals
         /\ \A d : WithCode(WithCode(f, c), d) = WithCode(f, d)
         /\ WithCode(f, f.code) = f
BY DEF WithCode, CompilersTyped

LEMMA EmitTyped ==
  ASSUME NEW f \in CompilersTyped, NEW cells \in Codes
  PROVE  emit(f, cells) = WithCode(f, f.code \o cells) /\ f.code \o cells \in Codes
<1>1. f.code \in Codes
  BY DEF CompilersTyped
<1> QED BY <1>1, Joined DEF emit, WithCode

LEMMA EmitJumpTyped ==
  ASSUME NEW f \in CompilersTyped, NEW name \in Ops
  PROVE  \E c \in Codes : emitJump(f, name) = WithCode(f, c)
BY OpCode, EmitTyped DEF emitJump

LEMMA Counts ==
  ASSUME NEW f \in CompilersTyped
  PROVE  Count(f) \in Nat
BY LenProperties DEF Count, CompilersTyped, Codes

LEMMA EmitLoopTyped ==
  ASSUME NEW f \in CompilersTyped, NEW start \in Int, ~TooFar(LoopDistance(f, start))
  PROVE  \E c \in Codes : emitLoop(f, start) = WithCode(f, c)
<1>1. LoopDistance(f, start) \in Int
  BY Counts DEF LoopDistance
<1>2. <<Op("LOOP")>> \o Short(LoopDistance(f, start)) \in Codes
  BY <1>1, ShortCode, OpCode, Joined DEF Ops
<1> QED BY <1>2, EmitTyped DEF emitLoop

LEMMA ExceptCell ==
  ASSUME NEW code \in Codes, NEW i, NEW c \in Cells
  PROVE  [code EXCEPT ![i] = c] \in Codes /\ Len([code EXCEPT ![i] = c]) = Len(code)
<1>1. CASE i \in 1 .. Len(code)
  BY <1>1, ExceptSeq DEF Codes
<1>2. CASE i \notin 1 .. Len(code)
  <2>1. [code EXCEPT ![i] = c] = code
    BY <1>2, LenProperties DEF Codes
  <2> QED BY <2>1
<1> QED BY <1>1, <1>2

LEMMA PatchTyped ==
  ASSUME NEW f \in CompilersTyped, NEW offset \in Int, ~TooFar(Distance(f, offset))
  PROVE  \E c \in Codes : patchJump(f, offset) = WithCode(f, c) /\ Len(c) = Len(f.code)
<1>1. Distance(f, offset) \in Int
  BY Counts DEF Distance
<1>2. PICK jump : jump = Short(Distance(f, offset))
  OBVIOUS
<1>3. jump[1] \in Cells /\ jump[2] \in Cells
  BY <1>1, <1>2, ShortCode
<1>4. PICK c : c = [f.code EXCEPT ![offset + 1] = jump[1]]
  OBVIOUS
<1>5. f.code \in Codes
  BY DEF CompilersTyped
<1>6. c \in Codes /\ Len(c) = Len(f.code)
  BY <1>3, <1>4, <1>5, ExceptCell
<1>7. PICK d : d = [c EXCEPT ![offset + 2] = jump[2]]
  OBVIOUS
<1>8. d \in Codes /\ Len(d) = Len(f.code)
  BY <1>3, <1>6, <1>7, ExceptCell
<1>9. patchJump(f, offset) = WithCode(f, d)
  BY <1>2, <1>4, <1>7 DEF patchJump, WithCode
<1> QED BY <1>8, <1>9

(* forEnds: all the jumps of a loop. *)
PatchedBy(f, exits, p) ==
  [i \in 0 .. Len(exits) |-> IF i = 0 THEN f ELSE patchJump(p[i - 1], exits[i])]
Patched(f, exits) == CHOOSE p : p = PatchedBy(f, exits, p)

(* f with other code of the same length. *)
Rewritten(f) == {g \in CompilersTyped : \E c \in Codes : g = WithCode(f, c) /\ Len(c) = Len(f.code)}

LEMMA RewrittenSelf ==
  ASSUME NEW f \in CompilersTyped
  PROVE  f \in Rewritten(f)
<1>1. f.code \in Codes
  BY DEF CompilersTyped
<1> QED BY <1>1, WithCodeTyped DEF Rewritten

LEMMA PatchRewrites ==
  ASSUME NEW f \in CompilersTyped, NEW g \in Rewritten(f), NEW offset \in Int, ~TooFar(Distance(f, offset))
  PROVE  patchJump(g, offset) \in Rewritten(f)
<1>1. PICK c \in Codes : g = WithCode(f, c) /\ Len(c) = Len(f.code)
  BY DEF Rewritten
<1>2. g \in CompilersTyped /\ g.code = c
  BY <1>1, WithCodeTyped
<1>3. ~TooFar(Distance(g, offset))
  BY <1>1, <1>2 DEF Distance, Count
<1>4. PICK d \in Codes : patchJump(g, offset) = WithCode(g, d) /\ Len(d) = Len(c)
  BY <1>2, <1>3, PatchTyped
<1>5. patchJump(g, offset) = WithCode(f, d)
  BY <1>1, <1>4, WithCodeTyped
<1> QED BY <1>1, <1>4, <1>5, WithCodeTyped DEF Rewritten

LEMMA PatchedTyped ==
  ASSUME NEW f \in CompilersTyped, NEW exits \in Seq(Int),
         \A i \in DOMAIN exits : ~TooFar(Distance(f, exits[i]))
  PROVE  Patched(f, exits)[Len(exits)] \in Rewritten(f)
<1> DEFINE n == Len(exits)
           V == [i \in 0 .. n |-> Rewritten(f)]
           F == [i \in 1 .. n |-> [g \in Rewritten(f) |-> patchJump(g, exits[i])]]
<1>1. n \in Nat /\ DOMAIN exits = 1 .. n /\ \A i \in 1 .. n : exits[i] \in Int
  BY LenProperties, ElementOfSeq
<1>2. ASSUME NEW i \in 1 .. n, NEW g \in Rewritten(f)
      PROVE  patchJump(g, exits[i]) \in Rewritten(f)
  BY <1>1, PatchRewrites
<1>3. \A i \in 1 .. n : \A v \in V[i - 1] : F[i][v] \in V[i]
  BY <1>1, <1>2
<1>4. PICK h : Recursive(h, n, V, f, F)
  <2>1. f \in V[0]
    BY <1>1, RewrittenSelf
  <2> HIDE DEF V, F, n
  <2> QED BY <1>1, <1>3, <2>1, RecursionExists
<1>5. h = PatchedBy(f, exits, h)
  <2>1. ASSUME NEW i \in 0 .. n
        PROVE  h[i] = IF i = 0 THEN f ELSE patchJump(h[i - 1], exits[i])
    <3>1. CASE i = 0
      BY <1>4, <3>1 DEF Recursive
    <3>2. CASE i # 0
      <4>1. i \in 1 .. n /\ i - 1 \in 0 .. n
        BY <1>1, <3>2
      <4>2. h[i] = F[i][h[i - 1]] /\ h[i - 1] \in Rewritten(f)
        BY <1>4, <4>1 DEF Recursive
      <4> QED BY <3>2, <4>1, <4>2
    <3> QED BY <3>1, <3>2
  <2>2. h = [i \in 0 .. n |-> h[i]]
    BY <1>4 DEF Recursive
  <2> QED BY <2>1, <2>2 DEF PatchedBy
<1>6. PICK g : g = Patched(f, exits) /\ g = PatchedBy(f, exits, g)
  BY <1>5 DEF Patched
<1>7. g[0] = f
  BY <1>1, <1>6 DEF PatchedBy
<1>8. ASSUME NEW i \in 1 .. n, g[i - 1] \in V[i - 1]
      PROVE  g[i] = F[i][g[i - 1]]
  <2>1. i \in 0 .. n /\ i - 1 \in 0 .. n /\ i # 0
    BY <1>1
  <2>2. g[i] = patchJump(g[i - 1], exits[i])
    BY <1>6, <2>1 DEF PatchedBy
  <2> QED BY <1>8, <2>1, <2>2
<1>9. \A i \in 0 .. n : g[i] = h[i] /\ g[i] \in V[i]
  <2> HIDE DEF V, F, n
  <2> QED BY <1>1, <1>4, <1>7, <1>8, Determined
<1>10. g[n] \in Rewritten(f)
  BY <1>1, <1>9
<1> QED BY <1>6, <1>10

----------------------------------------------------------------------------
(* What the parser has still to do, and in which situation it will be when   *)
(* it comes to each item.                                                    *)

ExpressionTasks == {"expression", "emit", "patch", "shortcut", "named", "access", "objectEnds"}
PlainTasks ==
  {"declaration", "statement", "block", "comma", "forVariable", "methods", "parameters", "case", "then", "else"}
ForTasks == {"forCondition", "forExit", "forIncrement", "forLoop", "forBody"}
Terminators == {"program", "end"}
Tasks ==
  ExpressionTasks \cup PlainTasks \cup ForTasks \cup Terminators
    \cup {"initializer", "define", "function", "classEnds", "endScope", "forEnds"}
ItemRecords ==
  [do : Tasks, name : Identifiers \cup FunctionTypes \cup Ops, code : Codes \cup Int \cup {"get", "set"},
   at : Int, exit : Int]
Details(i) ==
  /\ i.do \in {"emit", "access"} => i.code \in Codes
  /\ i.do = "forLoop" => i.code \in Int
  /\ i.do = "named" => i.code \in {"get", "set"} /\ i.name \in Identifiers
  /\ i.do = "function" => i.name \in {"function"} \cup MethodTypes
  /\ i.do = "shortcut" => i.name \in Ops
Items == {i \in ItemRecords : Details(i)}

(* The function being compiled by its number, its scopes and loops, the      *)
(* classes around it, and whether its last local is about to be defined, as a*)
(* variable, not initialized so far, or as a function.                       *)
Situations ==
  [level : Nat, depth : Nat, classes : Nat, loops : Nat, pending : {"none", "variable", "function"}]

Last(f) == f.locals[Len(f.locals)]

Fits(f, a) ==
  /\ f.scopeDepth = a.depth /\ Len(f.loops) = a.loops
  /\ a.pending # "none" => a.depth > 0 /\ Len(f.locals) > 1
  /\ a.pending = "variable" => Last(f).depth = -1
  /\ a.pending = "function" => Last(f).depth = a.depth
  /\ a.pending # "variable" => \A i \in 1 .. Len(f.locals) : f.locals[i].depth # -1

(* x is done in situation a and leads to b. *)
Follows(cs, a, x, b) ==
  /\ x.do \in Terminators =>
       /\ a.pending = "none"
       /\ b.level = a.level - 1 /\ b.classes = a.classes
       /\ b.level > 0 => Fits(cs[b.level], b)
  /\ x.do \notin Terminators => b.level = a.level
  /\ x.do \in ExpressionTasks => b = a
  /\ x.do \in PlainTasks => a.pending = "none" /\ b = a
  /\ x.do \in ForTasks \cup {"endScope"} =>
       a.pending = "none" /\ a.depth > 0 /\ b = [a EXCEPT !.depth = @ - 1]
  /\ x.do = "forEnds" =>
       /\ a.pending = "none" /\ a.depth > 0 /\ a.loops > 0
       /\ b = [a EXCEPT !.depth = @ - 1, !.loops = @ - 1]
  /\ x.do = "classEnds" => a.pending = "none" /\ a.classes > 0 /\ b = [a EXCEPT !.classes = @ - 1]
  /\ x.do = "initializer" => a.pending # "function" /\ b = a
  /\ x.do = "function" => a.pending # "variable" /\ b = a
  /\ x.do = "define" => (a.pending = "none" <=> a.depth = 0) /\ b = [a EXCEPT !.pending = "none"]

(* g tells the situations of the items s, from a to one of b. *)
Path(cs, s, g, a) ==
  /\ g \in [1 .. Len(s) + 1 -> Situations]
  /\ g[1] = a
  /\ \A j, k \in 1 .. Len(s) + 1 : j <= k => g[k].level <= g[j].level
  /\ \A k \in 1 .. Len(s) : Follows(cs, g[k], s[k], g[k + 1])

Runs(cs, s, a) == \E g : Path(cs, s, g, a) /\ g[Len(s) + 1].level = 0

LEMMA RunsFirst ==
  ASSUME NEW cs, NEW s \in Seq(Items), NEW a \in Situations, a.level > 0, Runs(cs, s, a)
  PROVE  /\ s # <<>> /\ s[1] \in Items /\ Tail(s) \in Seq(Items)
         /\ \E b \in Situations : Follows(cs, a, s[1], b) /\ Runs(cs, Tail(s), b)
<1>1. PICK g : Path(cs, s, g, a) /\ g[Len(s) + 1].level = 0
  BY DEF Runs
<1>2. PICK n : n = Len(s) /\ n \in Nat
  BY LenProperties
<1>3. /\ g \in [1 .. n + 1 -> Situations] /\ g[1] = a
      /\ \A k \in 1 .. n : Follows(cs, g[k], s[k], g[k + 1])
      /\ \A j, k \in 1 .. n + 1 : j <= k => g[k].level <= g[j].level
  BY <1>1, <1>2 DEF Path
<1>4. s # <<>> /\ n > 0
  <2>1. s = <<>> => n = 0
    BY <1>2, EmptySeq
  <2> QED BY <1>1, <1>2, <1>3, <2>1
<1>5. s[1] \in Items /\ Tail(s) \in Seq(Items) /\ Len(Tail(s)) = n - 1 /\ \A k \in 1 .. n - 1 : Tail(s)[k] = s[k + 1]
  <2>1. s[1] \in Items
    BY <1>2, <1>4, ElementOfSeq
  <2> QED BY <1>2, <1>4, <2>1, HeadTailProperties
<1>6. PICK b : b = g[2]
  OBVIOUS
<1>7. b \in Situations /\ Follows(cs, a, s[1], b)
  BY <1>2, <1>3, <1>4, <1>6
<1>9. PICK h : h = [k \in 1 .. n |-> g[k + 1]]
  OBVIOUS
<1>10. PICK m : m = Len(Tail(s)) /\ m = n - 1 /\ m \in Nat
  BY <1>2, <1>4, <1>5
<1>11. h \in [1 .. m + 1 -> Situations] /\ h[1] = b /\ h[m + 1] = g[n + 1]
  BY <1>2, <1>3, <1>4, <1>6, <1>9, <1>10
<1>12. \A k \in 1 .. m : Follows(cs, h[k], Tail(s)[k], h[k + 1])
  <2>1. TAKE k \in 1 .. m
  <2>2. k + 1 \in 1 .. n /\ k \in 1 .. n /\ k + 1 + 1 = k + 2
    BY <1>2, <1>10
  <2>3. h[k] = g[k + 1] /\ h[k + 1] = g[k + 1 + 1] /\ Tail(s)[k] = s[k + 1]
    BY <1>5, <1>9, <1>10, <2>2
  <2> QED BY <1>3, <2>2, <2>3
<1>13. \A j, k \in 1 .. m + 1 : j <= k => h[k].level <= h[j].level
  <2>1. TAKE j, k \in 1 .. m + 1
  <2>2. HAVE j <= k
  <2>3. j + 1 \in 1 .. n + 1 /\ k + 1 \in 1 .. n + 1 /\ j + 1 <= k + 1 /\ j \in 1 .. n /\ k \in 1 .. n
    BY <1>2, <1>10, <2>2
  <2>4. h[k] = g[k + 1] /\ h[j] = g[j + 1]
    BY <1>9, <2>3
  <2> QED BY <1>3, <2>3, <2>4
<1>14. Path(cs, Tail(s), h, b)
  BY <1>10, <1>11, <1>12, <1>13 DEF Path
<1>15. h[Len(Tail(s)) + 1].level = 0
  BY <1>1, <1>2, <1>10, <1>11
<1> QED BY <1>4, <1>5, <1>7, <1>14, <1>15 DEF Runs

(* Items before others. *)
LEMMA RunsBefore ==
  ASSUME NEW cs, NEW s \in Seq(Items), NEW items \in Seq(Items), NEW g, NEW a, Path(cs, items, g, a),
         Runs(cs, s, g[Len(items) + 1])
  PROVE  Runs(cs, items \o s, a)
<1>1. PICK b : b = g[Len(items) + 1]
  OBVIOUS
<1>2. PICK h : Path(cs, s, h, b) /\ h[Len(s) + 1].level = 0
  BY <1>1 DEF Runs
<1>3. PICK m, n : m = Len(items) /\ m \in Nat /\ n = Len(s) /\ n \in Nat
  BY LenProperties
<1>4. PICK r : r = items \o s
  OBVIOUS
<1>5. /\ Len(r) = m + n
      /\ \A k \in 1 .. m : r[k] = items[k]
      /\ \A k \in m + 1 .. m + n : r[k] = s[k - m]
  <2>1. \A k \in 1 .. m + n : r[k] = IF k <= m THEN items[k] ELSE s[k - m]
    BY <1>3, <1>4, ConcatProperties
  <2>2. Len(r) = m + n
    BY <1>3, <1>4, ConcatProperties
  <2> QED BY <1>3, <2>1, <2>2
<1>6. /\ g \in [1 .. m + 1 -> Situations] /\ g[1] = a /\ g[m + 1] = b
      /\ \A k \in 1 .. m : Follows(cs, g[k], items[k], g[k + 1])
      /\ \A j, k \in 1 .. m + 1 : j <= k => g[k].level <= g[j].level
  BY <1>1, <1>3 DEF Path
<1>7. /\ h \in [1 .. n + 1 -> Situations] /\ h[1] = b
      /\ \A k \in 1 .. n : Follows(cs, h[k], s[k], h[k + 1])
      /\ \A j, k \in 1 .. n + 1 : j <= k => h[k].level <= h[j].level
  BY <1>2, <1>3 DEF Path
<1>8. PICK f : f = [k \in 1 .. m + n + 1 |-> IF k <= m THEN g[k] ELSE h[k - m]]
  OBVIOUS
<1>9. /\ \A k \in 1 .. m + 1 : f[k] = g[k]
      /\ \A k \in m + 1 .. m + n + 1 : f[k] = h[k - m]
  <2>1. \A k \in 1 .. m : f[k] = g[k]
    BY <1>3, <1>8
  <2>2. \A k \in m + 1 .. m + n + 1 : f[k] = h[k - m]
    BY <1>3, <1>8
  <2>3. f[m + 1] = g[m + 1]
    BY <1>3, <1>6, <1>7, <2>2
  <2> QED BY <1>3, <2>1, <2>2, <2>3
<1>10. f \in [1 .. m + n + 1 -> Situations]
  <2>1. ASSUME NEW k \in 1 .. m + n + 1 PROVE f[k] \in Situations
    <3>1. CASE k <= m
      BY <1>3, <1>6, <1>9, <3>1
    <3>2. CASE ~(k <= m)
      <4>1. k \in m + 1 .. m + n + 1 /\ k - m \in 1 .. n + 1
        BY <1>3, <3>2
      <4> QED BY <1>7, <1>9, <4>1
    <3> QED BY <3>1, <3>2
  <2> QED BY <1>8, <2>1
<1>11. f[1] = a
  BY <1>3, <1>6, <1>9
<1>12. ASSUME NEW k \in 1 .. m + n PROVE Follows(cs, f[k], r[k], f[k + 1])
  <2>1. CASE k <= m
    <3>1. k \in 1 .. m /\ k \in 1 .. m + 1 /\ k + 1 \in 1 .. m + 1
      BY <1>3, <2>1
    <3> QED BY <1>5, <1>6, <1>9, <3>1
  <2>2. CASE ~(k <= m)
    <3>1. /\ k \in m + 1 .. m + n /\ k \in m + 1 .. m + n + 1 /\ k + 1 \in m + 1 .. m + n + 1
          /\ k - m \in 1 .. n /\ k + 1 - m = k - m + 1
      BY <1>3, <2>2
    <3>2. f[k] = h[k - m] /\ r[k] = s[k - m]
      BY <1>5, <1>9, <3>1
    <3>3. PICK i : i = k + 1
      OBVIOUS
    <3>4. f[i] = h[i - m]
      BY <1>9, <3>1, <3>3
    <3>5. PICK d : d = k - m /\ d \in 1 .. n /\ i - m = d + 1
      BY <1>3, <3>1, <3>3
    <3>6. Follows(cs, h[d], s[d], h[d + 1])
      BY <1>7, <3>5
    <3> QED BY <3>2, <3>3, <3>4, <3>5, <3>6
  <2> QED BY <2>1, <2>2
<1>13. ASSUME NEW j \in 1 .. m + n + 1, NEW k \in 1 .. m + n + 1, j <= k
       PROVE  f[k].level <= f[j].level
  <2>1. ASSUME NEW i \in 1 .. m + 1 PROVE f[i] = g[i] /\ b.level <= f[i].level
    BY <1>3, <1>6, <1>9
  <2>2. ASSUME NEW i \in m + 1 .. m + n + 1 PROVE f[i] = h[i - m] /\ f[i].level <= b.level /\ i - m \in 1 .. n + 1
    <3>1. i - m \in 1 .. n + 1 /\ 1 \in 1 .. n + 1 /\ 1 <= i - m
      BY <1>3
    <3> QED BY <1>7, <1>9, <3>1
  <2>3. CASE k <= m
    <3>1. k \in 1 .. m + 1 /\ j \in 1 .. m + 1
      BY <1>3, <1>13, <2>3
    <3> QED BY <1>6, <1>9, <1>13, <3>1
  <2>4. CASE j > m
    <3>1. k \in m + 1 .. m + n + 1 /\ j \in m + 1 .. m + n + 1
      BY <1>3, <1>13, <2>4
    <3>2. j - m <= k - m
      BY <1>3, <1>13
    <3> QED BY <1>7, <2>2, <3>1, <3>2
  <2>5. CASE j <= m /\ k > m
    <3>1. k \in m + 1 .. m + n + 1 /\ j \in 1 .. m + 1
      BY <1>3, <2>5
    <3>2. b.level <= f[j].level /\ f[k].level <= b.level
      BY <2>1, <2>2, <3>1
    <3>3. b \in Situations
      BY <1>3, <1>6
    <3>4. f[j] \in Situations /\ f[k] \in Situations
      BY <1>10
    <3>5. b.level \in Nat /\ f[j].level \in Nat /\ f[k].level \in Nat
      BY <3>3, <3>4 DEF Situations
    <3> QED BY <3>2, <3>5
  <2> QED BY <1>3, <2>3, <2>4, <2>5
<1>14. Path(cs, r, f, a)
  BY <1>5, <1>10, <1>11, <1>12, <1>13 DEF Path
<1>15. f[m + n + 1] = h[n + 1]
  <2>1. PICK e : e = m + n + 1
    OBVIOUS
  <2>2. e \in m + 1 .. m + n + 1 /\ e - m = n + 1
    BY <1>3, <2>1
  <2>3. f[e] = h[e - m]
    BY <1>9, <2>2
  <2> QED BY <2>1, <2>2, <2>3
<1>16. f[Len(r) + 1].level = 0
  BY <1>2, <1>3, <1>5, <1>15
<1> QED BY <1>4, <1>14, <1>16 DEF Runs

LEMMA FollowsLevel ==
  ASSUME NEW cs, NEW a \in Situations, NEW x, NEW b \in Situations, Follows(cs, a, x, b)
  PROVE  b.level <= a.level
<1>1. a.level \in Nat /\ b.level \in Nat
  BY DEF Situations
<1>2. b.level = a.level - 1 \/ b.level = a.level
  BY DEF Follows
<1> QED BY <1>1, <1>2

LEMMA Before1 ==
  ASSUME NEW cs, NEW s \in Seq(Items), NEW x \in Items, NEW a \in Situations, NEW b \in Situations,
         Follows(cs, a, x, b), Runs(cs, s, b)
  PROVE  <<x>> \o s \in Seq(Items) /\ Runs(cs, <<x>> \o s, a)
<1>1. PICK items : items = <<x>>
  OBVIOUS
<1>2. items \in Seq(Items) /\ Len(items) = 1 /\ items[1] = x
  BY <1>1
<1>3. PICK g : g = <<a, b>>
  OBVIOUS
<1>4. g \in [1 .. 2 -> Situations] /\ g[1] = a /\ g[2] = b
  BY <1>3
<1>5. b.level <= a.level /\ a.level \in Nat /\ b.level \in Nat
  BY FollowsLevel DEF Situations
<1>6. \A j, k \in 1 .. 2 : j <= k => g[k].level <= g[j].level
  <2>1. TAKE j, k \in 1 .. 2
  <2>2. (j = 1 \/ j = 2) /\ (k = 1 \/ k = 2)
    OBVIOUS
  <2> QED BY <1>4, <1>5, <2>2
<1>7. Path(cs, items, g, a)
  BY <1>2, <1>4, <1>6 DEF Path
<1>8. Runs(cs, items \o s, a)
  <2>1. Runs(cs, s, g[Len(items) + 1])
    BY <1>2, <1>4
  <2> QED BY <1>2, <1>7, <2>1, RunsBefore
<1>9. items \o s \in Seq(Items)
  BY <1>2, ConcatProperties
<1> QED BY <1>1, <1>8, <1>9

LEMMA FirstApart ==
  ASSUME NEW S, NEW x \in S, NEW r \in Seq(S), NEW q \in Seq(S), Len(q) = Len(r) + 1,
         q[1] = x, \A k \in 1 .. Len(r) : q[k + 1] = r[k]
  PROVE  q = <<x>> \o r
<1>1. PICK p : p = <<x>>
  OBVIOUS
<1>2. p \in Seq(S) /\ Len(p) = 1 /\ p[1] = x
  BY <1>1
<1>3. PICK n : n = Len(r) /\ n \in Nat
  BY LenProperties
<1>4. PICK t : t = p \o r
  OBVIOUS
<1>5. t \in Seq(S) /\ Len(t) = n + 1 /\ \A i \in 1 .. n + 1 : t[i] = IF i <= 1 THEN p[i] ELSE r[i - 1]
  <2>1. /\ t \in Seq(S) /\ Len(t) = Len(p) + Len(r)
        /\ \A i \in 1 .. Len(p) + Len(r) : t[i] = IF i <= Len(p) THEN p[i] ELSE r[i - Len(p)]
    BY <1>2, <1>4, ConcatProperties
  <2> QED BY <1>2, <1>3, <2>1
<1>6. ASSUME NEW i \in 1 .. n + 1 PROVE q[i] = t[i]
  <2>1. CASE i = 1
    BY <1>2, <1>3, <1>5, <2>1
  <2>2. CASE i # 1
    <3>1. PICK k : k = i - 1 /\ k \in 1 .. n /\ i = k + 1 /\ ~(i <= 1)
      BY <1>3, <2>2
    <3> QED BY <1>3, <1>5, <3>1
  <2> QED BY <2>1, <2>2
<1>7. q = t
  BY <1>3, <1>5, <1>6, SeqEqual
<1> QED BY <1>1, <1>4, <1>7

LEMMA Split2 ==
  ASSUME NEW x \in Items, NEW y \in Items, NEW s \in Seq(Items)
  PROVE  <<x, y>> \o s = <<x>> \o (<<y>> \o s)
<1>1. PICK q, r : q = <<x, y>> /\ r = <<y>>
  OBVIOUS
<1>2. r \in Seq(Items) /\ q \in Seq(Items) /\ Len(q) = 2 /\ Len(r) = 1 /\ q[1] = x /\ q[2] = y /\ r[1] = y
  BY <1>1
<1>3. \A k \in 1 .. Len(r) : q[k + 1] = r[k]
  BY <1>2
<1>4. q = <<x>> \o r
  <2>1. Len(q) = Len(r) + 1
    BY <1>2
  <2> QED BY <1>2, <1>3, <2>1, FirstApart
<1>5. <<x>> \in Seq(Items)
  OBVIOUS
<1>6. (<<x>> \o r) \o s = <<x>> \o (r \o s)
  BY <1>2, <1>5, ConcatAssociative
<1> QED BY <1>1, <1>4, <1>6

LEMMA Split3 ==
  ASSUME NEW x \in Items, NEW y \in Items, NEW z \in Items, NEW s \in Seq(Items)
  PROVE  <<x, y, z>> \o s = <<x>> \o (<<y, z>> \o s)
<1>1. PICK q, r : q = <<x, y, z>> /\ r = <<y, z>>
  OBVIOUS
<1>2. /\ r \in Seq(Items) /\ q \in Seq(Items) /\ Len(q) = 3 /\ Len(r) = 2
      /\ q[1] = x /\ q[2] = y /\ q[3] = z /\ r[1] = y /\ r[2] = z
  BY <1>1
<1>3. \A k \in 1 .. Len(r) : q[k + 1] = r[k]
  <2>1. TAKE k \in 1 .. Len(r)
  <2>2. k = 1 \/ k = 2
    BY <1>2
  <2> QED BY <1>2, <2>2
<1>4. q = <<x>> \o r
  <2>1. Len(q) = Len(r) + 1
    BY <1>2
  <2> QED BY <1>2, <1>3, <2>1, FirstApart
<1>5. <<x>> \in Seq(Items)
  OBVIOUS
<1>6. (<<x>> \o r) \o s = <<x>> \o (r \o s)
  BY <1>2, <1>5, ConcatAssociative
<1> QED BY <1>1, <1>4, <1>6

LEMMA Split4 ==
  ASSUME NEW w \in Items, NEW x \in Items, NEW y \in Items, NEW z \in Items, NEW s \in Seq(Items)
  PROVE  <<w, x, y, z>> \o s = <<w>> \o (<<x, y, z>> \o s)
<1>1. PICK q, r : q = <<w, x, y, z>> /\ r = <<x, y, z>>
  OBVIOUS
<1>2. /\ r \in Seq(Items) /\ q \in Seq(Items) /\ Len(q) = 4 /\ Len(r) = 3
      /\ q[1] = w /\ q[2] = x /\ q[3] = y /\ q[4] = z /\ r[1] = x /\ r[2] = y /\ r[3] = z
  BY <1>1
<1>3. \A k \in 1 .. Len(r) : q[k + 1] = r[k]
  <2>1. TAKE k \in 1 .. Len(r)
  <2>2. k = 1 \/ k = 2 \/ k = 3
    BY <1>2
  <2> QED BY <1>2, <2>2
<1>4. q = <<w>> \o r
  <2>1. Len(q) = Len(r) + 1
    BY <1>2
  <2> QED BY <1>2, <1>3, <2>1, FirstApart
<1>5. <<w>> \in Seq(Items)
  OBVIOUS
<1>6. (<<w>> \o r) \o s = <<w>> \o (r \o s)
  BY <1>2, <1>5, ConcatAssociative
<1> QED BY <1>1, <1>4, <1>6

LEMMA Before2 ==
  ASSUME NEW cs, NEW s \in Seq(Items), NEW x \in Items, NEW y \in Items,
         NEW a \in Situations, NEW b \in Situations, NEW c \in Situations,
         Follows(cs, a, x, b), Follows(cs, b, y, c), Runs(cs, s, c)
  PROVE  <<x, y>> \o s \in Seq(Items) /\ Runs(cs, <<x, y>> \o s, a)
<1>1. <<y>> \o s \in Seq(Items) /\ Runs(cs, <<y>> \o s, b)
  BY Before1
<1>2. <<x>> \o (<<y>> \o s) \in Seq(Items) /\ Runs(cs, <<x>> \o (<<y>> \o s), a)
  BY <1>1, Before1
<1>3. <<x, y>> \o s = <<x>> \o (<<y>> \o s)
  BY Split2
<1> QED BY <1>2, <1>3

LEMMA Before3 ==
  ASSUME NEW cs, NEW s \in Seq(Items), NEW x \in Items, NEW y \in Items, NEW z \in Items,
         NEW a \in Situations, NEW b \in Situations, NEW c \in Situations, NEW d \in Situations,
         Follows(cs, a, x, b), Follows(cs, b, y, c), Follows(cs, c, z, d), Runs(cs, s, d)
  PROVE  <<x, y, z>> \o s \in Seq(Items) /\ Runs(cs, <<x, y, z>> \o s, a)
<1>1. <<y, z>> \o s \in Seq(Items) /\ Runs(cs, <<y, z>> \o s, b)
  BY Before2
<1>2. <<x>> \o (<<y, z>> \o s) \in Seq(Items) /\ Runs(cs, <<x>> \o (<<y, z>> \o s), a)
  BY <1>1, Before1
<1>3. <<x, y, z>> \o s = <<x>> \o (<<y, z>> \o s)
  BY Split3
<1> QED BY <1>2, <1>3

LEMMA Before4 ==
  ASSUME NEW cs, NEW s \in Seq(Items), NEW w \in Items, NEW x \in Items, NEW y \in Items, NEW z \in Items,
         NEW a \in Situations, NEW b \in Situations, NEW c \in Situations, NEW d \in Situations, NEW e \in Situations,
         Follows(cs, a, w, b), Follows(cs, b, x, c), Follows(cs, c, y, d), Follows(cs, d, z, e), Runs(cs, s, e)
  PROVE  <<w, x, y, z>> \o s \in Seq(Items) /\ Runs(cs, <<w, x, y, z>> \o s, a)
<1>1. <<x, y, z>> \o s \in Seq(Items) /\ Runs(cs, <<x, y, z>> \o s, b)
  BY Before3
<1>2. <<w>> \o (<<x, y, z>> \o s) \in Seq(Items) /\ Runs(cs, <<w>> \o (<<x, y, z>> \o s), a)
  BY <1>1, Before1
<1>3. <<w, x, y, z>> \o s = <<w>> \o (<<x, y, z>> \o s)
  BY SMTT(60), Split4
<1> QED BY <1>2, <1>3

LEMMA ExpressionFollows ==
  ASSUME NEW cs, NEW a, NEW x, x.do \in ExpressionTasks
  PROVE  Follows(cs, a, x, a)
BY DEF Follows, ExpressionTasks, Terminators, PlainTasks, ForTasks

(* Parts of expressions, as many as there are. *)
LEMMA BeforeExpressions ==
  ASSUME NEW cs, NEW s \in Seq(Items), NEW items \in Seq(Items), NEW a \in Situations,
         \A k \in 1 .. Len(items) : items[k].do \in ExpressionTasks, Runs(cs, s, a)
  PROVE  items \o s \in Seq(Items) /\ Runs(cs, items \o s, a)
<1>1. PICK n : n = Len(items) /\ n \in Nat
  BY LenProperties
<1>2. PICK g : g = [k \in 1 .. n + 1 |-> a]
  OBVIOUS
<1>3. \A k \in 1 .. n : Follows(cs, g[k], items[k], g[k + 1])
  <2>1. TAKE k \in 1 .. n
  <2>2. g[k] = a /\ g[k + 1] = a
    BY <1>1, <1>2
  <2> QED BY <1>1, <2>2, ExpressionFollows
<1>4. g \in [1 .. n + 1 -> Situations] /\ g[1] = a /\ g[n + 1] = a
  BY <1>1, <1>2
<1>5. \A j, k \in 1 .. n + 1 : j <= k => g[k].level <= g[j].level
  <2>1. a.level <= a.level
    BY DEF Situations
  <2> QED BY <1>2, <2>1
<1>6. Path(cs, items, g, a)
  BY <1>1, <1>3, <1>4, <1>5 DEF Path
<1>7. Runs(cs, s, g[Len(items) + 1])
  BY <1>1, <1>4
<1> QED BY <1>6, <1>7, RunsBefore, ConcatProperties

(* What of a function that waits is looked at later. *)
Similar(f, g) ==
  /\ g.scopeDepth = f.scopeDepth /\ Len(g.loops) = Len(f.loops) /\ Len(g.locals) = Len(f.locals)
  /\ \A i \in 1 .. Len(f.locals) : g.locals[i].depth = f.locals[i].depth

LEMMA FitsSimilar ==
  ASSUME NEW f \in CompilersTyped, NEW g \in CompilersTyped, Similar(f, g), NEW a \in Situations, Fits(f, a)
  PROVE  Fits(g, a)
<1>1. Len(f.locals) \in Nat
  BY LenProperties DEF CompilersTyped
<1>2. a.pending # "none" => Last(g).depth = Last(f).depth
  <2>1. Len(f.locals) > 1 => Len(f.locals) \in 1 .. Len(f.locals)
    BY <1>1
  <2> QED BY <2>1 DEF Similar, Last, Fits
<1> QED BY <1>1, <1>2 DEF Similar, Fits

LEMMA RunsSimilar ==
  ASSUME NEW cs \in Seq(CompilersTyped), NEW ds \in Seq(CompilersTyped), NEW s \in Seq(Items), NEW a \in Situations,
         a.level <= Len(cs), a.level <= Len(ds) + 1,
         \A l \in 1 .. a.level - 1 : Similar(cs[l], ds[l]), Runs(cs, s, a)
  PROVE  Runs(ds, s, a)
<1>1. PICK g : Path(cs, s, g, a) /\ g[Len(s) + 1].level = 0
  BY DEF Runs
<1>2. PICK n : n = Len(s) /\ n \in Nat
  BY LenProperties
<1>3. /\ g \in [1 .. n + 1 -> Situations] /\ g[1] = a
      /\ \A k \in 1 .. n : Follows(cs, g[k], s[k], g[k + 1])
      /\ \A j, k \in 1 .. n + 1 : j <= k => g[k].level <= g[j].level
  BY <1>1, <1>2 DEF Path
<1>4. ASSUME NEW k \in 1 .. n PROVE Follows(ds, g[k], s[k], g[k + 1])
  <2>1. PICK b, c, x : b = g[k] /\ c = g[k + 1] /\ x = s[k]
    OBVIOUS
  <2>2. Follows(cs, b, x, c) /\ b \in Situations /\ c \in Situations /\ b.level <= a.level
    <3>1. k \in 1 .. n + 1 /\ k + 1 \in 1 .. n + 1 /\ 1 \in 1 .. n + 1 /\ 1 <= k
      BY <1>2
    <3> QED BY <1>3, <2>1, <3>1
  <2>3. ASSUME x.do \in Terminators, c.level > 0
        PROVE  Fits(ds[c.level], c)
    <3>1. c.level = b.level - 1 /\ Fits(cs[c.level], c)
      BY <2>2, <2>3 DEF Follows
    <3>2. a.level \in Nat /\ b.level \in Nat /\ c.level \in Nat
      BY <2>2 DEF Situations
    <3>3. c.level \in 1 .. a.level - 1 /\ c.level \in 1 .. Len(cs) /\ c.level \in 1 .. Len(ds)
      <4>1. Len(cs) \in Nat /\ Len(ds) \in Nat
        BY LenProperties
      <4> QED BY <2>2, <2>3, <3>1, <3>2, <4>1
    <3>4. cs[c.level] \in CompilersTyped /\ ds[c.level] \in CompilersTyped /\ Similar(cs[c.level], ds[c.level])
      BY <3>3, ElementOfSeq
    <3> QED BY <2>2, <3>1, <3>4, FitsSimilar
  <2> QED BY <2>1, <2>2, <2>3 DEF Follows
<1>5. Path(ds, s, g, a)
  BY <1>2, <1>3, <1>4 DEF Path
<1> QED BY <1>1, <1>5 DEF Runs

----------------------------------------------------------------------------
(* The inductive invariant. *)

LocalsOK(f) ==
  /\ Len(f.locals) \in 1 .. LOCAL_MAX /\ f.locals[1].depth = 0
  /\ \A i \in 1 .. Len(f.locals) :
       /\ f.locals[i].depth \in 0 .. f.scopeDepth \/ (f.locals[i].depth = -1 /\ i = Len(f.locals))
       /\ \A j \in 1 .. i - 1 : f.locals[i].depth # -1 => f.locals[j].depth <= f.locals[i].depth

Sound == {f \in CompilersTyped : LocalsOK(f) /\ Len(f.upvalues) <= UPVALUE_MAX}

InProgress(cs, s, cl) ==
  \E a \in Situations :
    /\ a.level = Len(cs) /\ a.level > 0 /\ a.classes = cl
    /\ Fits(cs[Len(cs)], a) /\ Runs(cs, s, a)

CodegenOK ==
  /\ budget \in 0 .. MaxForms
  /\ status \in {"compiling", "compiled", "error"} /\ classes \in Nat
  /\ compilers \in Seq(Sound) /\ todo \in Seq(Items)
  /\ status = "compiling" => InProgress(compilers, todo, classes)

LEMMA SoundTyped ==
  ASSUME NEW cs \in Seq(Sound)
  PROVE  cs \in Seq(CompilersTyped)
BY SeqMonotonic DEF Sound

LEMMA TypesFollow == CodegenOK => TypeOK
<1> SUFFICES ASSUME CodegenOK PROVE TypeOK
  OBVIOUS
<1>1. ASSUME NEW l \in DOMAIN compilers
      PROVE  LET f == compilers[l]
             IN  /\ f.type \in {"script", "function"} \cup MethodTypes
                 /\ Len(f.locals) \in 1 .. LOCAL_MAX
                 /\ Len(f.upvalues) <= UPVALUE_MAX
                 /\ \A i \in DOMAIN f.locals :
                      /\ f.locals[i].depth \in 0 .. f.scopeDepth \/ (f.locals[i].depth = -1 /\ i = Len(f.locals))
                      /\ \A j \in 1 .. i - 1 : f.locals[i].depth # -1 => f.locals[j].depth <= f.locals[i].depth
                 /\ \A i \in DOMAIN f.code : f.code[i] = Unpatched \/ f.code[i].byte < Base
  <2>1. PICK f : f = compilers[l]
    OBVIOUS
  <2>2. f \in CompilersTyped /\ LocalsOK(f) /\ Len(f.upvalues) <= UPVALUE_MAX
    <3>1. DOMAIN compilers = 1 .. Len(compilers)
      BY LenProperties DEF CodegenOK
    <3> QED BY <2>1, <3>1, ElementOfSeq DEF CodegenOK, Sound
  <2>3. f.type \in FunctionTypes /\ f.locals \in Seq(Locals) /\ f.code \in Seq(Cells)
    BY <2>2 DEF CompilersTyped, Codes
  <2>4. DOMAIN f.locals = 1 .. Len(f.locals) /\ DOMAIN f.code = 1 .. Len(f.code)
    BY <2>3, LenProperties
  <2>5. \A i \in 1 .. Len(f.code) : f.code[i] \in Cells
    BY <2>3, ElementOfSeq
  <2> QED BY <2>1, <2>2, <2>3, <2>4, <2>5 DEF LocalsOK, FunctionTypes, Cells
<1> QED BY <1>1 DEF CodegenOK, TypeOK

(* What is known when the parser comes to an item. *)
Met(a, b) ==
  /\ a \in Situations /\ b \in Situations
  /\ a.level = Len(compilers) /\ a.level > 0 /\ a.classes = classes
  /\ Fits(Current, a) /\ Follows(compilers, a, First, b) /\ Runs(compilers, Tail(todo), b)

LEMMA Meeting ==
  ASSUME CodegenOK, status = "compiling"
  PROVE  /\ todo # <<>> /\ First \in Items /\ Tail(todo) \in Seq(Items)
         /\ Current \in Sound /\ Current \in CompilersTyped /\ Len(compilers) \in 1 .. Len(compilers) /\ Len(compilers) \in Nat
         /\ \E a, b : Met(a, b)
<1>1. PICK a \in Situations : /\ a.level = Len(compilers) /\ a.level > 0 /\ a.classes = classes
                              /\ Fits(compilers[Len(compilers)], a) /\ Runs(compilers, todo, a)
  BY DEF CodegenOK, InProgress
<1>2. Len(compilers) \in Nat /\ compilers \in Seq(Sound) /\ todo \in Seq(Items)
  BY LenProperties DEF CodegenOK
<1>3. Len(compilers) \in 1 .. Len(compilers)
  BY <1>1, <1>2
<1>4. Current \in Sound
  BY <1>2, <1>3, ElementOfSeq DEF Current
<1>5. /\ todo # <<>> /\ todo[1] \in Items /\ Tail(todo) \in Seq(Items)
      /\ \E b \in Situations : Follows(compilers, a, todo[1], b) /\ Runs(compilers, Tail(todo), b)
  BY <1>1, <1>2, RunsFirst
<1> QED BY <1>1, <1>2, <1>3, <1>4, <1>5 DEF First, Met, Current, Sound

(* A step that changes only the function being compiled. *)
LEMMA Progress ==
  ASSUME CodegenOK, status = "compiling", status' = status, budget' \in 0 .. MaxForms, classes' \in Nat,
         NEW f \in Sound, compilers' = [compilers EXCEPT ![Len(compilers)] = f],
         todo' \in Seq(Items), NEW a \in Situations, a.level = Len(compilers), a.classes = classes',
         Fits(f, a), Runs(compilers, todo', a)
  PROVE  CodegenOK'
<1>1. PICK n, cs, ds : n = Len(compilers) /\ cs = compilers /\ ds = compilers'
  OBVIOUS
<1>2. n \in Nat /\ n \in 1 .. n /\ cs \in Seq(Sound)
  BY <1>1, Meeting DEF CodegenOK
<1>3. ds \in Seq(Sound) /\ Len(ds) = n /\ \A j \in 1 .. n : ds[j] = IF j = n THEN f ELSE cs[j]
  <2>1. ds = [cs EXCEPT ![n] = f] /\ n = Len(cs)
    BY <1>1
  <2> QED BY <1>2, <2>1, ExceptSeq
<1>4. \A l \in 1 .. a.level - 1 : Similar(cs[l], ds[l])
  <2>1. TAKE l \in 1 .. a.level - 1
  <2>2. ds[l] = cs[l]
    BY <1>1, <1>2, <1>3
  <2> QED BY <2>2 DEF Similar
<1>5. Runs(ds, todo', a)
  <2>1. cs \in Seq(CompilersTyped) /\ ds \in Seq(CompilersTyped)
    BY <1>2, <1>3, SoundTyped
  <2>2. a.level <= Len(cs) /\ a.level <= Len(ds) + 1
    BY <1>1, <1>2, <1>3
  <2>3. PICK s : s = todo' /\ s \in Seq(Items) /\ Runs(cs, s, a)
    BY <1>1
  <2>4. Runs(ds, s, a)
    BY <1>4, <2>1, <2>2, <2>3, RunsSimilar
  <2> QED BY <2>3, <2>4
<1>6. ds[Len(ds)] = f
  BY <1>2, <1>3
<1>7. InProgress(ds, todo', classes')
  BY <1>1, <1>2, <1>3, <1>5, <1>6 DEF InProgress
<1>8. /\ ds \in Seq(Sound)
      /\ status' \in {"compiling", "compiled", "error"}
  BY <1>3
<1> QED BY <1>1, <1>7, <1>8 DEF CodegenOK

(* A step that changes no function. *)
LEMMA Onwards ==
  ASSUME CodegenOK, status = "compiling", status' = status, budget' \in 0 .. MaxForms, classes' \in Nat,
         compilers' = compilers,
         todo' \in Seq(Items), NEW a \in Situations, a.level = Len(compilers), a.classes = classes',
         Fits(Current, a), Runs(compilers, todo', a)
  PROVE  CodegenOK'
<1>1. a.level > 0
  BY Meeting
<1>2. InProgress(compilers', todo', classes')
  BY <1>1 DEF InProgress, Current
<1> QED BY <1>2 DEF CodegenOK

(* A step that writes code. *)
LEMMA Writes ==
  ASSUME NEW f \in Sound, NEW c \in Codes
  PROVE  WithCode(f, c) \in Sound /\ \A a : Fits(f, a) => Fits(WithCode(f, c), a)
<1>1. f \in CompilersTyped
  BY DEF Sound
<1>2. PICK g : g = WithCode(f, c)
  OBVIOUS
<1>3. g \in CompilersTyped /\ g.scopeDepth = f.scopeDepth /\ g.loops = f.loops /\ g.upvalues = f.upvalues /\ g.locals = f.locals
  BY <1>1, <1>2, WithCodeTyped
<1>4. LocalsOK(g) /\ Len(g.upvalues) <= UPVALUE_MAX
  BY <1>3 DEF Sound, LocalsOK
<1>5. \A a : Fits(f, a) => Fits(g, a)
  BY <1>3 DEF Fits, Last
<1> QED BY <1>2, <1>3, <1>4, <1>5 DEF Sound

----------------------------------------------------------------------------
(* Items. *)

Bare == Tasks \ {"emit", "access", "forLoop", "named", "function", "shortcut"}

LEMMA ItemFields ==
  ASSUME NEW do \in Tasks
  PROVE  Item(do) \in ItemRecords /\ Item(do).do = do
<1>1. <<>> \in Codes /\ "" \in Identifiers /\ NoJump \in Int
  BY Codes_ DEF Identifiers, NoJump
<1>2. <<>> \in Codes \cup Int \cup {"get", "set"} /\ "" \in Identifiers \cup FunctionTypes \cup Ops
  BY <1>1
<1> HIDE DEF Codes, Identifiers, FunctionTypes, Ops, Tasks
<1>3. Item(do) \in ItemRecords
  <2>1. PICK A, B : A = Identifiers \cup FunctionTypes \cup Ops /\ B = Codes \cup Int \cup {"get", "set"}
    OBVIOUS
  <2>2. ItemRecords = [do : Tasks, name : A, code : B, at : Int, exit : Int]
    BY <2>1 DEF ItemRecords
  <2>3. "" \in A /\ <<>> \in B
    BY <1>2, <2>1
  <2>4. [do |-> do, name |-> "", code |-> <<>>, at |-> 0, exit |-> NoJump] \in [do : Tasks, name : A, code : B, at : Int, exit : Int]
    <3>1. ASSUME NEW T, NEW t \in T, NEW n \in A, NEW c \in B, NEW k \in Int, NEW j \in Int
          PROVE  [do |-> t, name |-> n, code |-> c, at |-> k, exit |-> j] \in [do : T, name : A, code : B, at : Int, exit : Int]
      OBVIOUS
    <3>2. 0 \in Int
      OBVIOUS
    <3> QED BY Zenon, <1>1, <2>3, <3>1, <3>2
  <2> QED BY <2>2, <2>4 DEF Item
<1>4. Item(do).do = do
  BY DEF Item
<1> QED BY <1>3, <1>4

(* Other fields of an item. *)
LEMMA ItemChanged ==
  ASSUME NEW i \in ItemRecords
  PROVE  /\ \A at \in Int : [i EXCEPT !.at = at] \in ItemRecords /\ [i EXCEPT !.at = at].do = i.do
         /\ \A c \in Codes \cup Int \cup {"get", "set"} :
              /\ [i EXCEPT !.code = c] \in ItemRecords
              /\ [i EXCEPT !.code = c].do = i.do /\ [i EXCEPT !.code = c].code = c
              /\ [i EXCEPT !.code = c].name = i.name
         /\ \A x \in Identifiers \cup FunctionTypes \cup Ops :
              /\ [i EXCEPT !.name = x] \in ItemRecords
              /\ [i EXCEPT !.name = x].do = i.do /\ [i EXCEPT !.name = x].name = x
<1> HIDE DEF Codes, Identifiers, FunctionTypes, Ops, Tasks
<1> QED BY DEF ItemRecords

LEMMA ItemMade ==
  ASSUME NEW do \in Bare
  PROVE  Item(do) \in Items /\ Item(do).do = do
<1>1. Item(do) \in ItemRecords /\ Item(do).do = do
  BY ItemFields DEF Bare
<1> QED BY <1>1 DEF Bare, Items, Details

(* An item that says where in the code. *)
LEMMA ItemAt ==
  ASSUME NEW do \in Bare, NEW at \in Int
  PROVE  [Item(do) EXCEPT !.at = at] \in Items /\ [Item(do) EXCEPT !.at = at].do = do
<1>1. Item(do) \in ItemRecords /\ Item(do).do = do
  BY ItemFields DEF Bare
<1>2. PICK i : i = [Item(do) EXCEPT !.at = at]
  OBVIOUS
<1>3. i \in ItemRecords /\ i.do = do
  BY <1>1, <1>2, ItemChanged
<1> QED BY <1>2, <1>3 DEF Bare, Items, Details

LEMMA PatchMade ==
  ASSUME NEW at \in Int
  PROVE  Patch(at) \in Items /\ Patch(at).do = "patch"
BY ItemAt DEF Patch, Bare, Tasks, ExpressionTasks

LEMMA EmitMade ==
  ASSUME NEW c \in Codes
  PROVE  Emit(c) \in Items /\ Emit(c).do = "emit"
<1>1. Item("emit") \in ItemRecords /\ Item("emit").do = "emit"
  BY ItemFields DEF Tasks, ExpressionTasks
<1>2. PICK i : i = [Item("emit") EXCEPT !.code = c]
  OBVIOUS
<1>3. i \in ItemRecords /\ i.do = "emit" /\ i.code = c
  BY <1>1, <1>2, ItemChanged
<1>4. i \in Items
  BY <1>3 DEF Items, Details
<1> QED BY <1>2, <1>3, <1>4 DEF Emit

LEMMA NamedMade ==
  ASSUME NEW verb \in {"get", "set"}, NEW x \in Identifiers
  PROVE  Named(verb, x) \in Items /\ Named(verb, x).do = "named"
<1>1. Item("named") \in ItemRecords /\ Item("named").do = "named"
  BY ItemFields DEF Tasks, ExpressionTasks
<1>2. PICK i : i = [Item("named") EXCEPT !.name = x]
  OBVIOUS
<1>3. i \in ItemRecords /\ i.do = "named" /\ i.name = x
  BY <1>1, <1>2, ItemChanged
<1>4. PICK j : j = [i EXCEPT !.code = verb]
  OBVIOUS
<1>5. j \in ItemRecords /\ j.do = "named" /\ j.name = x /\ j.code = verb
  BY <1>3, <1>4, ItemChanged
<1>6. j \in Items
  BY <1>5 DEF Items, Details
<1>7. j = Named(verb, x)
  BY <1>2, <1>4 DEF Named
<1> QED BY <1>5, <1>6, <1>7

LEMMA FunctionMade ==
  ASSUME NEW type \in {"function"} \cup MethodTypes
  PROVE  Function(type) \in Items /\ Function(type).do = "function"
<1>1. Item("function") \in ItemRecords /\ Item("function").do = "function"
  BY ItemFields DEF Tasks
<1>2. PICK i : i = [Item("function") EXCEPT !.name = type]
  OBVIOUS
<1>3. i \in ItemRecords /\ i.do = "function" /\ i.name = type
  BY <1>1, <1>2, ItemChanged DEF FunctionTypes
<1>4. i \in Items
  BY <1>3 DEF Items, Details
<1> QED BY <1>2, <1>3, <1>4 DEF Function

LEMMA ExpressionMade == Expression \in Items /\ Expression.do \in ExpressionTasks
BY ItemMade DEF Expression, Bare, Tasks, ExpressionTasks

LEMMA PlainFollows ==
  ASSUME NEW cs, NEW a, a.pending = "none", NEW x, x.do \in PlainTasks
  PROVE  Follows(cs, a, x, a)
BY DEF Follows, ExpressionTasks, Terminators, PlainTasks, ForTasks

LEMMA PlainMade ==
  ASSUME NEW do \in PlainTasks
  PROVE  Item(do) \in Items /\ Item(do).do = do
BY ItemMade DEF Bare, Tasks, PlainTasks

----------------------------------------------------------------------------
(* The steps that keep all functions. *)

LEMMA BudgetKept ==
  ASSUME CodegenOK
  PROVE  /\ \A form : Choose(form) => budget' \in 0 .. MaxForms
         /\ NoRule => budget' \in 0 .. MaxForms
BY CodegenAssumption DEF CodegenOK, Choose, NoRule

LEMMA FailOK ==
  ASSUME CodegenOK, fail, budget' \in 0 .. MaxForms
  PROVE  CodegenOK'
<1>1. <<>> \in Seq(Sound) /\ <<>> \in Seq(Items)
  OBVIOUS
<1> QED BY <1>1 DEF fail, CodegenOK

LEMMA NothingBefore ==
  ASSUME CodegenOK, status = "compiling", Continue(<<>>)
  PROVE  todo' = Tail(todo)
BY Meeting, ConcatEmptySeq DEF Continue

LEMMA declarationsOK == ASSUME CodegenOK, declarations PROVE CodegenOK'
<1>1. status = "compiling" /\ First.do \in {"program", "block"}
  BY DEF declarations, Doing
<1>2. PICK a, b : Met(a, b)
  BY <1>1, Meeting
<1>3. a.pending = "none"
  BY <1>1, <1>2 DEF Met, Follows, Terminators, PlainTasks
<1>4. PICK x : x = Item("declaration")
  OBVIOUS
<1>5. x \in Items /\ Follows(compilers, a, x, a)
  BY <1>3, <1>4, PlainMade, PlainFollows DEF PlainTasks
<1>6. todo' = <<x, First>> \o Tail(todo)
  BY <1>4 DEF declarations, Continue
<1>7. todo' \in Seq(Items) /\ Runs(compilers, todo', a)
  BY <1>1, <1>2, <1>5, <1>6, Meeting, Before2 DEF Met
<1> QED BY <1>1, <1>2, <1>7, Onwards, BudgetKept DEF declarations, Same, Steady, Met, CodegenOK

(* An item that is done with. *)
LEMMA Dropped ==
  ASSUME CodegenOK, status = "compiling", First.do \in {"block", "comma", "methods", "parameters"},
         Continue(<<>>), UNCHANGED <<status, classes, compilers>>, budget' \in 0 .. MaxForms
  PROVE  CodegenOK'
<1>1. PICK a, b : Met(a, b)
  BY Meeting
<1>2. b = a
  BY <1>1 DEF Met, Follows, PlainTasks
<1>3. todo' = Tail(todo) /\ todo' \in Seq(Items)
  BY NothingBefore, Meeting
<1>4. Runs(compilers, todo', a)
  BY <1>1, <1>2, <1>3 DEF Met
<1> QED BY <1>1, <1>3, <1>4, Onwards DEF Met, CodegenOK

LEMMA programEndsOK == ASSUME CodegenOK, programEnds PROVE CodegenOK'
<1>1. status = "compiling" /\ First.do = "program"
  BY DEF programEnds, Doing
<1>2. PICK a, b : Met(a, b)
  BY <1>1, Meeting
<1>3. PICK x : x = Item("end")
  OBVIOUS
<1>4. x \in Items /\ x.do = "end"
  BY <1>3, ItemMade DEF Bare, Tasks, Terminators
<1>5. Follows(compilers, a, x, b)
  BY <1>1, <1>2, <1>4 DEF Met, Follows, ExpressionTasks, Terminators, PlainTasks, ForTasks
<1>6. todo' = <<x>> \o Tail(todo)
  BY <1>3 DEF programEnds, Continue
<1>7. todo' \in Seq(Items) /\ Runs(compilers, todo', a)
  BY <1>1, <1>2, <1>4, <1>5, <1>6, Meeting, Before1 DEF Met
<1> QED BY <1>1, <1>2, <1>7, Onwards, BudgetKept DEF programEnds, Same, Steady, Met, CodegenOK

LEMMA endScriptOK == ASSUME CodegenOK, endScript PROVE CodegenOK'
<1>1. <<>> \in Seq(Sound) /\ <<>> \in Seq(Items)
  OBVIOUS
<1> QED BY <1>1 DEF endScript, CodegenOK

----------------------------------------------------------------------------
(* Steps in general. *)

LEMMA AtPlain ==
  ASSUME CodegenOK, status = "compiling", First.do \in PlainTasks
  PROVE  \E a : Met(a, a) /\ a.pending = "none"
<1>1. PICK a, b : Met(a, b)
  BY Meeting
<1>2. b = a /\ a.pending = "none"
  BY <1>1 DEF Met, Follows
<1> QED BY <1>1, <1>2

LEMMA AtExpression ==
  ASSUME CodegenOK, status = "compiling", First.do \in ExpressionTasks
  PROVE  \E a : Met(a, a)
<1>1. PICK a, b : Met(a, b)
  BY Meeting
<1>2. b = a
  BY <1>1 DEF Met, Follows
<1> QED BY <1>1, <1>2

(* What comes first is replaced by other items. *)
LEMMA Continues ==
  ASSUME CodegenOK, status = "compiling", NEW a, NEW b, Met(a, b), NEW e \in Situations
  PROVE  /\ \A x \in Items : Continue(<<x>>) /\ Follows(compilers, e, x, b) =>
              todo' \in Seq(Items) /\ Runs(compilers, todo', e)
         /\ \A x, y \in Items, c \in Situations :
              Continue(<<x, y>>) /\ Follows(compilers, e, x, c) /\ Follows(compilers, c, y, b) =>
              todo' \in Seq(Items) /\ Runs(compilers, todo', e)
         /\ \A x, y, z \in Items, c, d \in Situations :
              Continue(<<x, y, z>>) /\ Follows(compilers, e, x, c) /\ Follows(compilers, c, y, d) /\ Follows(compilers, d, z, b) =>
              todo' \in Seq(Items) /\ Runs(compilers, todo', e)
         /\ \A w, x, y, z \in Items, c, d, g \in Situations :
              Continue(<<w, x, y, z>>) /\ Follows(compilers, e, w, c) /\ Follows(compilers, c, x, d)
                /\ Follows(compilers, d, y, g) /\ Follows(compilers, g, z, b) =>
              todo' \in Seq(Items) /\ Runs(compilers, todo', e)
<1>1. PICK s, cs : s = Tail(todo) /\ cs = compilers
  OBVIOUS
<1>2. s \in Seq(Items) /\ Runs(cs, s, b) /\ b \in Situations
  BY <1>1, Meeting DEF Met
<1>3. ASSUME NEW x \in Items, Continue(<<x>>), Follows(compilers, e, x, b)
      PROVE  todo' \in Seq(Items) /\ Runs(compilers, todo', e)
  <2>1. todo' = <<x>> \o s
    BY <1>1, <1>3 DEF Continue
  <2> QED BY <1>1, <1>2, <1>3, <2>1, Before1
<1>4. ASSUME NEW x \in Items, NEW y \in Items, NEW c \in Situations,
             Continue(<<x, y>>), Follows(compilers, e, x, c), Follows(compilers, c, y, b)
      PROVE  todo' \in Seq(Items) /\ Runs(compilers, todo', e)
  <2>1. todo' = <<x, y>> \o s
    BY <1>1, <1>4 DEF Continue
  <2> QED BY <1>1, <1>2, <1>4, <2>1, Before2
<1>5. ASSUME NEW x \in Items, NEW y \in Items, NEW z \in Items, NEW c \in Situations, NEW d \in Situations,
             Continue(<<x, y, z>>), Follows(compilers, e, x, c), Follows(compilers, c, y, d), Follows(compilers, d, z, b)
      PROVE  todo' \in Seq(Items) /\ Runs(compilers, todo', e)
  <2>1. todo' = <<x, y, z>> \o s
    BY <1>1, <1>5 DEF Continue
  <2> QED BY <1>1, <1>2, <1>5, <2>1, Before3
<1>6. ASSUME NEW w \in Items, NEW x \in Items, NEW y \in Items, NEW z \in Items,
             NEW c \in Situations, NEW d \in Situations, NEW g \in Situations,
             Continue(<<w, x, y, z>>), Follows(compilers, e, w, c), Follows(compilers, c, x, d),
             Follows(compilers, d, y, g), Follows(compilers, g, z, b)
      PROVE  todo' \in Seq(Items) /\ Runs(compilers, todo', e)
  <2>1. todo' = <<w, x, y, z>> \o s
    BY <1>1, <1>6 DEF Continue
  <2> QED BY <1>1, <1>2, <1>6, <2>1, Before4
<1> QED BY <1>3, <1>4, <1>5, <1>6

(* A step in one situation that writes code, and one that writes none. *)
LEMMA Writing ==
  ASSUME CodegenOK, status = "compiling", status' = status, classes' = classes, budget' \in 0 .. MaxForms,
         NEW c \in Codes, Now(WithCode(Current, c)),
         NEW a, NEW b, Met(a, b), todo' \in Seq(Items), Runs(compilers, todo', a)
  PROVE  CodegenOK'
<1>1. PICK f : f = WithCode(Current, c)
  OBVIOUS
<1>2. f \in Sound /\ Fits(f, a)
  BY <1>1, Meeting, Writes DEF Met
<1>3. compilers' = [compilers EXCEPT ![Len(compilers)] = f]
  BY <1>1 DEF Now
<1> QED BY <1>2, <1>3, Progress DEF Met, CodegenOK

LEMMA Waiting ==
  ASSUME CodegenOK, status = "compiling", status' = status, classes' = classes, budget' \in 0 .. MaxForms,
         compilers' = compilers,
         NEW a, NEW b, Met(a, b), todo' \in Seq(Items), Runs(compilers, todo', a)
  PROVE  CodegenOK'
BY Onwards DEF Met, CodegenOK

LEMMA emitItemOK == ASSUME CodegenOK, emitItem PROVE CodegenOK'
<1>1. status = "compiling" /\ First.do \in {"emit", "access"}
  BY DEF emitItem, Doing
<1>2. PICK a : Met(a, a)
  BY <1>1, AtExpression DEF ExpressionTasks
<1>3. First.code \in Codes
  BY <1>1, Meeting DEF Items, Details
<1>4. PICK c \in Codes : emit(Current, First.code) = WithCode(Current, c)
  BY <1>1, <1>3, Meeting, EmitTyped
<1>5. Now(WithCode(Current, c)) /\ Continue(<<>>) /\ Same
  BY <1>4 DEF emitItem
<1>6. todo' = Tail(todo)
  BY <1>1, <1>5, NothingBefore
<1>7. todo' \in Seq(Items) /\ Runs(compilers, todo', a)
  BY <1>1, <1>2, <1>6, Meeting DEF Met
<1> QED BY <1>1, <1>2, <1>5, <1>7, Writing, BudgetKept DEF Same, Steady

LEMMA patchItemOK == ASSUME CodegenOK, patchItem PROVE CodegenOK'
<1>1. status = "compiling" /\ First.do = "patch"
  BY DEF patchItem, Doing
<1>2. PICK a : Met(a, a)
  BY <1>1, AtExpression DEF ExpressionTasks
<1>3. First.at \in Int
  BY <1>1, Meeting DEF Items, ItemRecords
<1>4. CASE TooFar(Distance(Current, First.at))
  BY <1>4, FailOK, BudgetKept DEF patchItem
<1>5. CASE ~TooFar(Distance(Current, First.at))
  <2>1. PICK c \in Codes : patchJump(Current, First.at) = WithCode(Current, c)
    BY <1>1, <1>3, <1>5, Meeting, PatchTyped
  <2>2. Now(WithCode(Current, c)) /\ Continue(<<>>) /\ Steady /\ NoRule
    BY <1>5, <2>1 DEF patchItem
  <2>3. todo' = Tail(todo)
    BY <1>1, <2>2, NothingBefore
  <2>4. todo' \in Seq(Items) /\ Runs(compilers, todo', a)
    BY <1>1, <1>2, <2>3, Meeting DEF Met
  <2> QED BY <1>1, <1>2, <2>2, <2>4, Writing, BudgetKept DEF Steady
<1> QED BY <1>4, <1>5

----------------------------------------------------------------------------
(* Statements and expressions. *)

LEMMA PopMade == Emit(<<Op("POP")>>) \in Items /\ Emit(<<Op("POP")>>).do \in ExpressionTasks
<1>1. <<Op("POP")>> \in Codes
  BY OpCode DEF Ops
<1> QED BY <1>1, EmitMade DEF ExpressionTasks

LEMMA StatementTasks ==
  ASSUME AtStatement
  PROVE  status = "compiling" /\ First.do \in PlainTasks
BY DEF AtStatement, Doing, PlainTasks

LEMMA expressionStatementOK == ASSUME CodegenOK, expressionStatement PROVE CodegenOK'
<1>1. status = "compiling" /\ First.do \in PlainTasks
  BY StatementTasks DEF expressionStatement
<1>2. PICK a : Met(a, a)
  BY <1>1, AtPlain
<1>3. a \in Situations
  BY <1>2 DEF Met
<1>4. PICK x, y : x = Expression /\ y = Emit(<<Op("POP")>>)
  OBVIOUS
<1>5. x \in Items /\ y \in Items /\ Follows(compilers, a, x, a) /\ Follows(compilers, a, y, a)
  BY <1>4, ExpressionMade, PopMade, ExpressionFollows
<1>6. Continue(<<x, y>>)
  BY <1>4 DEF expressionStatement
<1>7. todo' \in Seq(Items) /\ Runs(compilers, todo', a)
  BY <1>1, <1>2, <1>3, <1>5, <1>6, Continues
<1>8. budget' \in 0 .. MaxForms
  BY CodegenAssumption DEF expressionStatement, CodegenOK
<1> QED BY <1>1, <1>2, <1>7, <1>8, Waiting DEF expressionStatement, Steady

LEMMA branchStatementOK == ASSUME CodegenOK, branchStatement PROVE CodegenOK'
<1>1. status = "compiling" /\ First.do \in PlainTasks
  BY StatementTasks DEF branchStatement
<1>2. PICK a : Met(a, a) /\ a.pending = "none"
  BY <1>1, AtPlain
<1>3. a \in Situations
  BY <1>2 DEF Met
<1>4. PICK x : x = Item("case")
  OBVIOUS
<1>5. x \in Items /\ Follows(compilers, a, x, a)
  BY <1>2, <1>4, PlainMade, PlainFollows DEF PlainTasks
<1>6. Continue(<<x>>)
  BY <1>4 DEF branchStatement
<1>7. todo' \in Seq(Items) /\ Runs(compilers, todo', a)
  BY <1>1, <1>2, <1>3, <1>5, <1>6, Continues
<1> QED BY <1>1, <1>2, <1>7, Waiting, BudgetKept DEF branchStatement, Steady

LEMMA branchCaseStatementOK == ASSUME CodegenOK, branchCaseStatement PROVE CodegenOK'
<1>1. status = "compiling" /\ First.do \in PlainTasks
  BY DEF branchCaseStatement, Doing, PlainTasks
<1>2. PICK a : Met(a, a) /\ a.pending = "none"
  BY <1>1, AtPlain
<1>3. a \in Situations
  BY <1>2 DEF Met
<1>4. PICK x, y, z : x = Item("statement") /\ y = Expression /\ z = Item("then")
  OBVIOUS
<1>5. /\ x \in Items /\ Follows(compilers, a, x, a) /\ z \in Items /\ Follows(compilers, a, z, a)
      /\ y \in Items /\ Follows(compilers, a, y, a)
  BY <1>2, <1>4, PlainMade, PlainFollows, ExpressionMade, ExpressionFollows DEF PlainTasks
<1>6. Continue(<<x>>) \/ Continue(<<y, z>>)
  BY <1>4 DEF branchCaseStatement
<1>7. todo' \in Seq(Items) /\ Runs(compilers, todo', a)
  BY <1>1, <1>2, <1>3, <1>5, <1>6, Continues
<1> QED BY <1>1, <1>2, <1>7, Waiting, BudgetKept DEF branchCaseStatement, Steady, Same

LEMMA JumpOperands ==
  ASSUME CodegenOK, status = "compiling"
  PROVE  JumpOperand(Current) \in Int /\ Count(Current) \in Int
BY Meeting, Counts DEF JumpOperand

LEMMA caseThenOK == ASSUME CodegenOK, caseThen PROVE CodegenOK'
<1>1. status = "compiling" /\ First.do \in PlainTasks
  BY DEF caseThen, Doing, PlainTasks
<1>2. PICK a : Met(a, a) /\ a.pending = "none"
  BY <1>1, AtPlain
<1>3. a \in Situations
  BY <1>2 DEF Met
<1>4. PICK at \in Int : at = JumpOperand(Current)
  BY <1>1, JumpOperands
<1>5. PICK x, y : x = Item("statement") /\ y = [Item("else") EXCEPT !.at = at]
  OBVIOUS
<1>6. x \in Items /\ Follows(compilers, a, x, a) /\ y \in Items /\ Follows(compilers, a, y, a)
  <2>1. x \in Items /\ x.do \in PlainTasks
    BY <1>5, PlainMade DEF PlainTasks
  <2>2. "else" \in Bare
    BY DEF Bare, Tasks, PlainTasks
  <2>3. y \in Items /\ y.do \in PlainTasks
    BY <1>5, <2>2, ItemAt DEF PlainTasks
  <2> QED BY <1>2, <2>1, <2>3, PlainFollows
<1>7. Continue(<<x, y>>)
  BY <1>4, <1>5 DEF caseThen
<1>8. todo' \in Seq(Items) /\ Runs(compilers, todo', a)
  BY <1>1, <1>2, <1>3, <1>6, <1>7, Continues
<1>9. PICK c \in Codes : emitJump(Current, "JUMP_IF_FALSE_POP") = WithCode(Current, c)
  BY <1>1, Meeting, EmitJumpTyped DEF Ops
<1>10. Now(WithCode(Current, c))
  BY <1>9 DEF caseThen
<1> QED BY <1>1, <1>2, <1>8, <1>10, Writing, BudgetKept DEF caseThen, Steady, Same

LEMMA caseElseOK == ASSUME CodegenOK, caseElse PROVE CodegenOK'
<1>1. status = "compiling" /\ First.do \in PlainTasks
  BY DEF caseElse, Doing, PlainTasks
<1>2. PICK a : Met(a, a) /\ a.pending = "none"
  BY <1>1, AtPlain
<1>3. a \in Situations
  BY <1>2 DEF Met
<1>4. PICK at \in Int : at = JumpOperand(Current)
  BY <1>1, JumpOperands
<1>5. PICK c \in Codes : emitJump(Current, "JUMP") = WithCode(Current, c)
  BY <1>1, Meeting, EmitJumpTyped DEF Ops
<1>6. PICK f : f = WithCode(Current, c)
  OBVIOUS
<1>7. CASE TooFar(Distance(f, First.at))
  BY <1>5, <1>6, <1>7, FailOK, BudgetKept DEF caseElse
<1>8. CASE ~TooFar(Distance(f, First.at))
  <2>1. f \in CompilersTyped /\ First.at \in Int
    BY <1>1, <1>6, Meeting, WithCodeTyped DEF Items, ItemRecords
  <2>2. PICK d \in Codes : patchJump(f, First.at) = WithCode(f, d)
    BY <1>8, <2>1, PatchTyped
  <2>3. WithCode(f, d) = WithCode(Current, d)
    BY <1>1, <1>6, Meeting, WithCodeTyped
  <2>4. PICK x, y : x = Item("case") /\ y = Patch(at)
    OBVIOUS
  <2>5. x \in Items /\ Follows(compilers, a, x, a) /\ y \in Items /\ Follows(compilers, a, y, a)
    BY <1>2, <2>4, PlainMade, PlainFollows, PatchMade, ExpressionFollows DEF PlainTasks, ExpressionTasks
  <2>6. /\ Now(WithCode(Current, d)) /\ Steady
        /\ (Continue(<<y>>) /\ NoRule) \/ (Choose("case") /\ Continue(<<x, y>>))
    BY <1>4, <1>5, <1>6, <1>8, <2>2, <2>3, <2>4 DEF caseElse
  <2>7. todo' \in Seq(Items) /\ Runs(compilers, todo', a)
    BY <1>1, <1>2, <1>3, <2>5, <2>6, Continues
  <2>8. budget' \in 0 .. MaxForms
    BY <2>6, BudgetKept
  <2> QED BY <1>1, <1>2, <2>6, <2>7, <2>8, Writing DEF Steady
<1> QED BY <1>7, <1>8

LEMMA literalOK == ASSUME CodegenOK, literal PROVE CodegenOK'
<1>1. status = "compiling" /\ First.do \in ExpressionTasks
  BY DEF literal, Doing, ExpressionTasks
<1>2. PICK a : Met(a, a)
  BY <1>1, AtExpression
<1>3. <<Op("NIL")>> \in Codes /\ emitConstantCommond("CONSTANT") \in Codes /\ <<Op("MODULE_BUILTIN"), Byte(0)>> \in Codes
  BY OpCode, ConstantCode, OpByteCode, Bytes_ DEF Ops
<1>4. PICK cells \in Codes : Now(emit(Current, cells))
  BY <1>3 DEF literal
<1>5. PICK c \in Codes : emit(Current, cells) = WithCode(Current, c)
  BY <1>1, Meeting, EmitTyped
<1>6. Now(WithCode(Current, c)) /\ Continue(<<>>) /\ Same
  BY <1>4, <1>5 DEF literal
<1>7. todo' = Tail(todo)
  BY <1>1, <1>6, NothingBefore
<1>8. todo' \in Seq(Items) /\ Runs(compilers, todo', a)
  BY <1>1, <1>2, <1>7, Meeting DEF Met
<1> QED BY <1>1, <1>2, <1>6, <1>8, Writing, BudgetKept DEF Same, Steady

LEMMA logicalOK == ASSUME CodegenOK, NEW form \in DOMAIN Shortcut, logical(form) PROVE CodegenOK'
<1>1. status = "compiling" /\ First.do \in ExpressionTasks
  BY DEF logical, Doing, ExpressionTasks
<1>2. PICK a : Met(a, a)
  BY <1>1, AtExpression
<1>3. a \in Situations
  BY <1>2 DEF Met
<1>4. PICK x, y : x = Expression /\ y = [Item("shortcut") EXCEPT !.name = Shortcut[form]]
  OBVIOUS
<1>5. y \in Items /\ y.do = "shortcut"
  <2>1. Item("shortcut") \in ItemRecords /\ Item("shortcut").do = "shortcut"
    BY ItemFields DEF Tasks, ExpressionTasks
  <2>2. Shortcut[form] \in Ops
    BY DEF Shortcut, Ops
  <2>3. y \in ItemRecords /\ y.do = "shortcut" /\ y.name = Shortcut[form]
    BY <1>4, <2>1, <2>2, ItemChanged
  <2> QED BY <2>2, <2>3 DEF Items, Details
<1>6. x \in Items /\ Follows(compilers, a, x, a) /\ Follows(compilers, a, y, a)
  <2>1. x \in Items /\ x.do \in ExpressionTasks /\ y.do \in ExpressionTasks
    BY <1>4, <1>5, ExpressionMade DEF ExpressionTasks
  <2> QED BY <2>1, ExpressionFollows
<1>7. Continue(<<x, y>>)
  BY <1>4 DEF logical
<1>8. todo' \in Seq(Items) /\ Runs(compilers, todo', a)
  BY <1>1, <1>2, <1>3, <1>5, <1>6, <1>7, Continues
<1> QED BY <1>1, <1>2, <1>8, Waiting, BudgetKept DEF logical, Steady

LEMMA shortcutOK == ASSUME CodegenOK, shortcut PROVE CodegenOK'
<1>1. status = "compiling" /\ First.do \in ExpressionTasks /\ First.do = "shortcut"
  BY DEF shortcut, Doing, ExpressionTasks
<1>2. PICK a : Met(a, a)
  BY <1>1, AtExpression
<1>3. a \in Situations
  BY <1>2 DEF Met
<1>4. PICK at \in Int : at = JumpOperand(Current)
  BY <1>1, JumpOperands
<1>5. PICK x, y : x = Expression /\ y = Patch(at)
  OBVIOUS
<1>6. x \in Items /\ Follows(compilers, a, x, a) /\ y \in Items /\ Follows(compilers, a, y, a)
  BY <1>5, ExpressionMade, PatchMade, ExpressionFollows DEF ExpressionTasks
<1>7. Continue(<<x, y>>)
  BY <1>4, <1>5 DEF shortcut
<1>8. todo' \in Seq(Items) /\ Runs(compilers, todo', a)
  BY <1>1, <1>2, <1>3, <1>6, <1>7, Continues
<1>9. First.name \in Ops
  BY <1>1, Meeting DEF Items, Details
<1>10. PICK c \in Codes : emitJump(Current, First.name) = WithCode(Current, c)
  BY <1>1, <1>9, Meeting, EmitJumpTyped
<1>11. PICK d \in Codes : emit(WithCode(Current, c), <<Op("POP")>>) = WithCode(Current, d)
  <2>1. PICK f : f = WithCode(Current, c)
    OBVIOUS
  <2>2. f \in CompilersTyped /\ \A d : WithCode(f, d) = WithCode(Current, d)
    BY <1>1, <2>1, Meeting, WithCodeTyped
  <2>3. <<Op("POP")>> \in Codes
    BY OpCode DEF Ops
  <2>4. PICK d \in Codes : emit(f, <<Op("POP")>>) = WithCode(f, d)
    BY <2>2, <2>3, EmitTyped
  <2> QED BY <2>1, <2>2, <2>4
<1>12. Now(WithCode(Current, d))
  BY <1>10, <1>11 DEF shortcut
<1> QED BY <1>1, <1>2, <1>8, <1>12, Writing, BudgetKept DEF shortcut, Steady, Same

----------------------------------------------------------------------------
(* Expressions of several parts. *)

LEMMA ListMade ==
  ASSUME NEW n \in Nat, NEW last \in Items, last.do \in ExpressionTasks
  PROVE  /\ Append(Expressions(n), last) \in Seq(Items)
         /\ \A k \in 1 .. Len(Append(Expressions(n), last)) : Append(Expressions(n), last)[k].do \in ExpressionTasks
<1>1. PICK s : s = Expressions(n)
  OBVIOUS
<1>2. s \in Seq(Items) /\ Len(s) = n /\ \A k \in 1 .. n : s[k] = Expression
  <2>1. s = [k \in 1 .. n |-> Expression]
    BY <1>1 DEF Expressions
  <2>2. s \in [1 .. n -> Items]
    BY <2>1, ExpressionMade
  <2>3. s \in Seq(Items)
    BY <2>2, SeqDef
  <2>4. Len(s) = n
    BY <2>1, <2>3, LenProperties
  <2> QED BY <2>1, <2>3, <2>4
<1>3. PICK t : t = Append(s, last)
  OBVIOUS
<1>4. t \in Seq(Items) /\ Len(t) = n + 1 /\ t[n + 1] = last /\ \A k \in 1 .. n : t[k] = Expression
  BY <1>2, <1>3, AppendProperties
<1>5. ASSUME NEW k \in 1 .. n + 1 PROVE t[k].do \in ExpressionTasks
  <2>1. CASE k = n + 1
    BY <1>4, <2>1
  <2>2. CASE k \in 1 .. n
    BY <1>4, <2>2, ExpressionMade
  <2> QED BY <2>1, <2>2
<1> QED BY <1>1, <1>3, <1>4, <1>5

LEMMA Parts ==
  ASSUME CodegenOK, status = "compiling", NEW a, Met(a, a), NEW items \in Seq(Items),
         \A k \in 1 .. Len(items) : items[k].do \in ExpressionTasks, Continue(items)
  PROVE  todo' \in Seq(Items) /\ Runs(compilers, todo', a)
<1>1. PICK s, cs : s = Tail(todo) /\ cs = compilers
  OBVIOUS
<1>2. s \in Seq(Items) /\ Runs(cs, s, a) /\ a \in Situations
  BY <1>1, Meeting DEF Met
<1>3. items \o s \in Seq(Items) /\ Runs(cs, items \o s, a)
  BY <1>2, BeforeExpressions
<1>4. todo' = items \o s
  BY <1>1 DEF Continue
<1> QED BY <1>1, <1>3, <1>4

LEMMA OperationsTyped ==
  ASSUME NEW form \in DOMAIN Operations
  PROVE  Operations[form].operands \in Nat /\ Operations[form].code \in Codes
<1>1. /\ <<Op("NOT")>> \in Codes /\ <<Op("ADD")>> \in Codes
      /\ <<Op("GET_SUBSCRIPT")>> \in Codes /\ <<Op("SET_SUBSCRIPT")>> \in Codes
  BY OpCode DEF Ops
<1>2. <<Op("BITWISE"), Byte(1)>> \in Codes
  BY OpByteCode, Bytes_ DEF Ops
<1>3. emitConstantCommond("GET_PROPERTY") \in Codes /\ emitConstantCommond("SET_PROPERTY") \in Codes
  BY ConstantCode DEF Ops
<1> HIDE DEF Codes
<1> QED BY <1>1, <1>2, <1>3 DEF Operations

LEMMA operationOK == ASSUME CodegenOK, NEW form \in DOMAIN Operations, operation(form) PROVE CodegenOK'
<1>1. status = "compiling" /\ First.do \in ExpressionTasks
  BY DEF operation, Doing, ExpressionTasks
<1>2. PICK a : Met(a, a)
  BY <1>1, AtExpression
<1>3. PICK n, last, items : /\ n \in Nat /\ n = Operations[form].operands /\ last = Emit(Operations[form].code)
                             /\ items = Append(Expressions(n), last)
  BY OperationsTyped
<1>4. last \in Items /\ last.do \in ExpressionTasks
  BY <1>3, OperationsTyped, EmitMade DEF ExpressionTasks
<1>5. items \in Seq(Items) /\ \A k \in 1 .. Len(items) : items[k].do \in ExpressionTasks
  BY <1>3, <1>4, ListMade
<1>6. Continue(items)
  BY <1>3 DEF operation
<1>7. todo' \in Seq(Items) /\ Runs(compilers, todo', a)
  BY <1>1, <1>2, <1>5, <1>6, Parts
<1> QED BY <1>1, <1>2, <1>7, Waiting, BudgetKept DEF operation, Steady

LEMMA ListOK ==
  ASSUME CodegenOK, Doing("expression"), budget' \in 0 .. MaxForms,
         NEW first \in Nat, NEW n \in Nat, NEW code \in Codes, List(first, n, code)
  PROVE  CodegenOK'
<1>1. status = "compiling" /\ First.do \in ExpressionTasks
  BY DEF Doing, ExpressionTasks
<1>2. PICK a : Met(a, a)
  BY <1>1, AtExpression
<1>3. CASE n > ARGUMENT_MAX
  BY <1>3, FailOK DEF List
<1>4. CASE ~(n > ARGUMENT_MAX)
  <2>0. PICK m \in Nat : m = first + n
    OBVIOUS
  <2>1. PICK last, items : m = first + n /\ last = Emit(code) /\ items = Append(Expressions(m), last)
    BY <2>0
  <2>2. last \in Items /\ last.do \in ExpressionTasks
    BY <2>1, EmitMade DEF ExpressionTasks
  <2>3. items \in Seq(Items) /\ \A k \in 1 .. Len(items) : items[k].do \in ExpressionTasks
    BY <2>1, <2>2, ListMade
  <2>4. Continue(items) /\ Steady /\ compilers' = compilers
    BY <1>4, <2>1 DEF List
  <2>5. todo' \in Seq(Items) /\ Runs(compilers, todo', a)
    BY <1>1, <1>2, <2>3, <2>4, Parts
  <2> QED BY <1>1, <1>2, <2>4, <2>5, Waiting DEF Steady
<1> QED BY <1>3, <1>4

LEMMA ArgumentCode ==
  ASSUME NEW n \in Nat
  PROVE  /\ <<Op("CALL"), Byte(n % Base)>> \in Codes
         /\ Append(emitConstantCommond("INVOKE"), Byte(n % Base)) \in Codes
         /\ <<Op("NEW_ARRAY"), Byte(n % Base)>> \in Codes
<1>1. n % Base \in Int /\ n % Base < Base
  BY Rest
<1>2. emitConstantCommond("INVOKE") \in Codes
  BY ConstantCode DEF Ops
<1>3. Byte(n % Base) \in Cells
  BY <1>1, ByteCell
<1>4. Append(emitConstantCommond("INVOKE"), Byte(n % Base)) \in Codes
  BY <1>2, <1>3, AppendProperties DEF Codes
<1> QED BY <1>1, <1>4, OpByteCode DEF Ops

LEMMA callsOK ==
  ASSUME CodegenOK, NEW n \in 0 .. ARGUMENT_MAX + 1, call(n) \/ invoke(n) \/ arrayLiteral(n)
  PROVE  CodegenOK'
<1>1. n \in Nat
  BY Bytes_
<1>2. Doing("expression") /\ budget' \in 0 .. MaxForms
  BY BudgetKept DEF call, invoke, arrayLiteral
<1>3. CASE call(n)
  <2>1. List(1, n, <<Op("CALL"), Byte(n % Base)>>)
    BY <1>3 DEF call
  <2> QED BY <1>1, <1>2, <2>1, ArgumentCode, ListOK
<1>4. CASE invoke(n)
  <2>1. List(1, n, Append(emitConstantCommond("INVOKE"), Byte(n % Base)))
    BY <1>4 DEF invoke
  <2> QED BY <1>1, <1>2, <2>1, ArgumentCode, ListOK
<1>5. CASE arrayLiteral(n)
  <2>1. List(0, n, <<Op("NEW_ARRAY"), Byte(n % Base)>>)
    BY <1>5 DEF arrayLiteral
  <2> QED BY <1>1, <1>2, <2>1, ArgumentCode, ListOK
<1> QED BY <1>3, <1>4, <1>5

LEMMA variableOK ==
  ASSUME CodegenOK, NEW verb \in {"get", "set"}, NEW x \in Identifiers,
         Doing("expression"), budget' \in 0 .. MaxForms, Continue(<<Named(verb, x)>>),
         status' = status, classes' = classes, compilers' = compilers
  PROVE  CodegenOK'
<1>1. status = "compiling" /\ First.do \in ExpressionTasks
  BY DEF Doing, ExpressionTasks
<1>2. PICK a : Met(a, a)
  BY <1>1, AtExpression
<1>3. a \in Situations
  BY <1>2 DEF Met
<1>4. PICK y : y = Named(verb, x)
  OBVIOUS
<1>5. y \in Items /\ Follows(compilers, a, y, a)
  <2>1. y \in Items /\ y.do \in ExpressionTasks
    BY <1>4, NamedMade DEF ExpressionTasks
  <2> QED BY <2>1, ExpressionFollows
<1>6. todo' \in Seq(Items) /\ Runs(compilers, todo', a)
  BY <1>1, <1>2, <1>3, <1>4, <1>5, Continues
<1> QED BY <1>1, <1>2, <1>6, Waiting

LEMMA variablesOK ==
  ASSUME CodegenOK,
         this_ \/ \E verb \in DOMAIN Instructions, x \in Names : variable(verb, x)
  PROVE  CodegenOK'
<1>1. CASE this_
  <2>1. CASE classes = 0
    BY <1>1, <2>1, FailOK, BudgetKept DEF this_
  <2>2. CASE classes # 0
    <3>1. /\ Doing("expression") /\ Choose("this") /\ Continue(<<Named("get", "this")>>)
          /\ status' = status /\ classes' = classes /\ compilers' = compilers
      BY <1>1, <2>2 DEF this_, Steady
    <3>2. "get" \in {"get", "set"} /\ "this" \in Identifiers
      BY DEF Identifiers
    <3> QED BY <3>1, <3>2, variableOK, BudgetKept
  <2> QED BY <2>1, <2>2
<1>2. CASE \E verb \in DOMAIN Instructions, x \in Names : variable(verb, x)
  <2>1. PICK verb \in DOMAIN Instructions, x \in Names : variable(verb, x)
    BY <1>2
  <2>2. verb \in {"get", "set"} /\ x \in Identifiers
    BY DEF Instructions, Identifiers
  <2> QED BY <2>1, <2>2, variableOK, BudgetKept DEF variable, Steady
<1> QED BY <1>1, <1>2

----------------------------------------------------------------------------
(* Objects. *)

LEMMA NestingSound ==
  ASSUME NEW f \in Sound, NEW n \in Int
  PROVE  /\ [f EXCEPT !.objectNestingDepth = n] \in Sound
         /\ \A a : Fits(f, a) => Fits([f EXCEPT !.objectNestingDepth = n], a)
<1>1. PICK g : g = [f EXCEPT !.objectNestingDepth = n]
  OBVIOUS
<1>2. f \in CompilersTyped /\ LocalsOK(f) /\ Len(f.upvalues) <= UPVALUE_MAX
  BY DEF Sound
<1>3. g \in CompilersTyped /\ g.scopeDepth = f.scopeDepth /\ g.loops = f.loops /\ g.upvalues = f.upvalues /\ g.locals = f.locals
  BY <1>1, <1>2 DEF CompilersTyped
<1>4. g \in Sound /\ \A a : Fits(f, a) => Fits(g, a)
  BY <1>2, <1>3 DEF Sound, LocalsOK, Fits, Last
<1> QED BY <1>1, <1>4

LEMMA objectLiteralOK ==
  ASSUME CodegenOK, NEW n \in 0 .. ARGUMENT_MAX + 1, objectLiteral(n)
  PROVE  CodegenOK'
<1>1. status = "compiling" /\ First.do \in ExpressionTasks
  BY DEF objectLiteral, Doing, ExpressionTasks
<1>2. PICK a : Met(a, a)
  BY <1>1, AtExpression
<1>3. CASE Current.objectNestingDepth = OBJECT_MAX_NESTING
  BY <1>3, FailOK, BudgetKept DEF objectLiteral
<1>4. CASE Current.objectNestingDepth # OBJECT_MAX_NESTING
  <2>1. PICK d \in Int : d = Current.objectNestingDepth + 1
    BY <1>1, Meeting DEF CompilersTyped
  <2>2. PICK g : g = [Current EXCEPT !.objectNestingDepth = d]
    OBVIOUS
  <2>3. g \in Sound /\ Fits(g, a)
    BY <1>1, <1>2, <2>2, Meeting, NestingSound DEF Met
  <2>4. <<Op("NEW_OBJECT")>> \in Codes
    BY OpCode DEF Ops
  <2>5. PICK c \in Codes : emit(g, <<Op("NEW_OBJECT")>>) = WithCode(g, c)
    BY <2>3, <2>4, EmitTyped DEF Sound
  <2>6. PICK h : h = WithCode(g, c)
    OBVIOUS
  <2>7. h \in Sound /\ Fits(h, a)
    BY <2>3, <2>6, Writes
  <2>8. PICK parts : parts = [i \in 1 .. 2 * n |-> IF i % 2 = 1 THEN Expression
                                                                ELSE Emit(emitConstantCommond("NEW_PROPERTY"))]
    OBVIOUS
  <2>9. parts \in Seq(Items) /\ Len(parts) = 2 * n /\ \A i \in 1 .. 2 * n : parts[i].do \in ExpressionTasks
    <3>1. Emit(emitConstantCommond("NEW_PROPERTY")) \in Items /\ Emit(emitConstantCommond("NEW_PROPERTY")).do = "emit"
      BY ConstantCode, EmitMade DEF Ops
    <3>2. \A i \in 1 .. 2 * n : parts[i] \in {Expression, Emit(emitConstantCommond("NEW_PROPERTY"))}
      BY <2>8
    <3>3. \A i \in 1 .. 2 * n : parts[i] \in Items /\ parts[i].do \in ExpressionTasks
      BY <3>1, <3>2, ExpressionMade DEF ExpressionTasks
    <3>4. 2 * n \in Nat /\ parts = [i \in 1 .. 2 * n |-> parts[i]]
      BY <2>8, Bytes_
    <3>5. parts \in [1 .. 2 * n -> Items]
      BY <3>3, <3>4
    <3>6. parts \in Seq(Items)
      BY <3>4, <3>5, SeqDef
    <3>7. Len(parts) = 2 * n
      BY <3>4, <3>6, LenProperties
    <3> QED BY <3>3, <3>6, <3>7
  <2>10. PICK last : last = Item("objectEnds")
    OBVIOUS
  <2>11. last \in Items /\ last.do \in ExpressionTasks
    <3>1. "objectEnds" \in Bare /\ "objectEnds" \in ExpressionTasks
      BY DEF Bare, Tasks, ExpressionTasks
    <3> QED BY <2>10, <3>1, ItemMade
  <2>12. PICK items : items = Append(parts, last)
    OBVIOUS
  <2>13. items \in Seq(Items) /\ \A k \in 1 .. Len(items) : items[k].do \in ExpressionTasks
    <3>1. 2 * n \in Nat
      BY Bytes_
    <3>2. items \in Seq(Items) /\ Len(items) = 2 * n + 1 /\ items[2 * n + 1] = last
          /\ \A k \in 1 .. 2 * n : items[k] = parts[k]
      BY <2>9, <2>11, <2>12, AppendProperties
    <3>3. ASSUME NEW k \in 1 .. 2 * n + 1 PROVE items[k].do \in ExpressionTasks
      <4>1. CASE k = 2 * n + 1
        BY <2>11, <3>2, <4>1
      <4>2. CASE k \in 1 .. 2 * n
        BY <2>9, <3>2, <4>2
      <4> QED BY <3>1, <4>1, <4>2
    <3> QED BY <3>2, <3>3
  <2>14. Now(h) /\ Continue(items) /\ Steady
    BY <1>4, <2>1, <2>2, <2>5, <2>6, <2>8, <2>10, <2>12 DEF objectLiteral
  <2>15. todo' \in Seq(Items) /\ Runs(compilers, todo', a)
    BY <1>1, <1>2, <2>13, <2>14, Parts
  <2>16. budget' \in 0 .. MaxForms
    BY BudgetKept DEF objectLiteral
  <2> QED BY <1>1, <1>2, <2>7, <2>14, <2>15, <2>16, Progress DEF Now, Steady, Met, CodegenOK
<1> QED BY <1>3, <1>4

LEMMA objectEndsOK == ASSUME CodegenOK, objectEnds PROVE CodegenOK'
<1>1. status = "compiling" /\ First.do \in ExpressionTasks
  BY DEF objectEnds, Doing, ExpressionTasks
<1>2. PICK a : Met(a, a)
  BY <1>1, AtExpression
<1>3. PICK d \in Int : d = Current.objectNestingDepth - 1
  BY <1>1, Meeting DEF CompilersTyped
<1>4. PICK g : g = [Current EXCEPT !.objectNestingDepth = d]
  OBVIOUS
<1>5. g \in Sound /\ Fits(g, a)
  BY <1>1, <1>2, <1>4, Meeting, NestingSound DEF Met
<1>6. Now(g) /\ Continue(<<>>) /\ Same
  BY <1>3, <1>4 DEF objectEnds
<1>7. todo' = Tail(todo)
  BY <1>1, <1>6, NothingBefore
<1>8. todo' \in Seq(Items) /\ Runs(compilers, todo', a)
  BY <1>1, <1>2, <1>7, Meeting DEF Met
<1> QED BY <1>1, <1>2, <1>5, <1>6, <1>8, Progress, BudgetKept DEF Now, Same, Steady, Met, CodegenOK

----------------------------------------------------------------------------
(* Declarations. *)

(* The situation while a variable is declared. *)
Pending(a, what) == [a EXCEPT !.pending = IF a.depth = 0 THEN "none" ELSE what]

LEMMA PendingTyped ==
  ASSUME NEW a \in Situations, NEW what \in {"variable", "function"}
  PROVE  /\ Pending(a, what) \in Situations
         /\ Pending(a, what).level = a.level /\ Pending(a, what).depth = a.depth
         /\ Pending(a, what).classes = a.classes /\ Pending(a, what).loops = a.loops
         /\ Pending(a, what).pending = IF a.depth = 0 THEN "none" ELSE what
         /\ a.pending = "none" => [Pending(a, what) EXCEPT !.pending = "none"] = a
BY DEF Pending, Situations

LEMMA DeclareSound ==
  ASSUME NEW f \in Sound, NEW x \in Identifiers, NEW a \in Situations, Fits(f, a), a.pending = "none",
         ~CannotDeclare(f, x)
  PROVE  declareVariable(f, x) \in Sound /\ Fits(declareVariable(f, x), Pending(a, "variable"))
<1>1. f \in CompilersTyped /\ LocalsOK(f) /\ Len(f.upvalues) <= UPVALUE_MAX
  BY DEF Sound
<1>2. PICK e : e = Pending(a, "variable")
  OBVIOUS
<1>3. /\ e \in Situations /\ e.depth = a.depth /\ e.loops = a.loops
      /\ e.pending = IF a.depth = 0 THEN "none" ELSE "variable"
  BY <1>2, PendingTyped
<1>4. a.depth = f.scopeDepth /\ a.depth \in Nat
  BY DEF Fits, Situations
<1>5. CASE a.depth = 0
  <2>1. declareVariable(f, x) = f
    BY <1>4, <1>5 DEF declareVariable
  <2>2. Fits(f, e)
    BY <1>3, <1>5 DEF Fits
  <2> QED BY <1>2, <2>1, <2>2
<1>6. CASE a.depth # 0
  <2>1. PICK u, r : u = [name |-> x, depth |-> -1, isCaptured |-> FALSE] /\ r = f.locals
    OBVIOUS
  <2>2. u \in Locals /\ u.depth = -1 /\ r \in Seq(Locals)
    BY <1>1, <2>1 DEF Locals, CompilersTyped
  <2>3. PICK n \in Nat : n = Len(r)
    BY <2>2, LenProperties
  <2>4. PICK s : s = Append(r, u)
    OBVIOUS
  <2>5. s \in Seq(Locals) /\ Len(s) = n + 1 /\ s[n + 1] = u /\ \A k \in 1 .. n : s[k] = r[k]
    BY <2>2, <2>3, <2>4, AppendProperties
  <2>6. PICK g : g = [f EXCEPT !.locals = s]
    OBVIOUS
  <2>7. g \in CompilersTyped /\ g.locals = s /\ g.upvalues = f.upvalues /\ g.scopeDepth = f.scopeDepth /\ g.loops = f.loops
    BY <1>1, <2>5, <2>6 DEF CompilersTyped
  <2>8. declareVariable(f, x) = g
    BY <1>4, <1>6, <2>1, <2>4, <2>6 DEF declareVariable
  <2>9. n # LOCAL_MAX
    BY <1>4, <1>6, <2>1, <2>3 DEF CannotDeclare
  <2>10. n \in 1 .. LOCAL_MAX /\ r[1].depth = 0
    BY <1>1, <2>1, <2>3 DEF LocalsOK
  <2>11. \A i \in 1 .. n : /\ r[i].depth \in 0 .. f.scopeDepth
                           /\ \A j \in 1 .. i - 1 : r[j].depth <= r[i].depth
    <3>1. \A i \in 1 .. n : r[i].depth # -1
      BY <2>1, <2>3 DEF Fits
    <3> QED BY <1>1, <2>1, <2>3, <3>1 DEF LocalsOK
  <2>12. LocalsOK(g)
    <3>1. Len(g.locals) \in 1 .. LOCAL_MAX /\ g.locals[1].depth = 0
      BY <2>5, <2>7, <2>9, <2>10, Bytes_
    <3>2. ASSUME NEW i \in 1 .. n + 1
          PROVE  /\ s[i].depth \in 0 .. f.scopeDepth \/ (s[i].depth = -1 /\ i = n + 1)
                 /\ \A j \in 1 .. i - 1 : s[i].depth # -1 => s[j].depth <= s[i].depth
      <4>1. CASE i = n + 1
        BY <2>2, <2>5, <4>1
      <4>2. CASE i \in 1 .. n
        <5>1. s[i] = r[i] /\ \A j \in 1 .. i - 1 : s[j] = r[j]
          BY <2>5, <4>2
        <5> QED BY <2>11, <4>2, <5>1
      <4> QED BY <4>1, <4>2
    <3> QED BY <2>5, <2>7, <3>1, <3>2 DEF LocalsOK
  <2>13. Fits(g, e)
    <3>1. Last(g).depth = -1 /\ Len(g.locals) > 1
      BY <2>2, <2>5, <2>7, <2>10 DEF Last
    <3>2. a.depth > 0
      BY <1>4, <1>6
    <3> QED BY <1>3, <1>4, <1>6, <2>7, <3>1, <3>2 DEF Fits
  <2> QED BY <1>1, <1>2, <2>7, <2>8, <2>12, <2>13 DEF Sound
<1> QED BY <1>5, <1>6

LEMMA MarkSound ==
  ASSUME NEW f \in Sound, NEW a \in Situations, Fits(f, a), a.pending = "none" <=> a.depth = 0
  PROVE  /\ markInitialized(f) \in Sound
         /\ \A e \in Situations :
              e.depth = a.depth /\ e.loops = a.loops /\ (e.pending = "none" \/ (e.pending = "function" /\ a.depth # 0))
                => Fits(markInitialized(f), e)
<1>1. f \in CompilersTyped /\ LocalsOK(f) /\ Len(f.upvalues) <= UPVALUE_MAX
  BY DEF Sound
<1>2. a.depth = f.scopeDepth /\ a.depth \in Nat
  BY DEF Fits, Situations
<1>3. CASE a.depth = 0
  <2>1. markInitialized(f) = f
    BY <1>2, <1>3 DEF markInitialized
  <2> QED BY <1>3, <2>1 DEF Fits
<1>4. CASE a.depth # 0
  <2>1. PICK r : r = f.locals /\ r \in Seq(Locals)
    BY <1>1 DEF CompilersTyped
  <2>2. PICK n \in Nat : n = Len(r)
    BY <2>1, LenProperties
  <2>3. n > 1 /\ n <= LOCAL_MAX /\ n \in 1 .. n /\ 1 \in 1 .. n
    BY <1>1, <1>4, <2>1, <2>2 DEF Fits, LocalsOK
  <2>4. PICK u : u = [r[n] EXCEPT !.depth = a.depth]
    OBVIOUS
  <2>5. u \in Locals /\ u.depth = a.depth
    <3>1. r[n] \in Locals
      BY <2>1, <2>2, <2>3, ElementOfSeq
    <3> QED BY <1>2, <2>4, <3>1 DEF Locals
  <2>6. PICK s : s = [r EXCEPT ![n] = u]
    OBVIOUS
  <2>7. s \in Seq(Locals) /\ Len(s) = n /\ \A k \in 1 .. n : s[k] = IF k = n THEN u ELSE r[k]
    BY <2>1, <2>2, <2>3, <2>5, <2>6, ExceptSeq
  <2>8. PICK g : g = [f EXCEPT !.locals = s]
    OBVIOUS
  <2>9. g \in CompilersTyped /\ g.locals = s /\ g.upvalues = f.upvalues /\ g.scopeDepth = f.scopeDepth /\ g.loops = f.loops
    BY <1>1, <2>7, <2>8 DEF CompilersTyped
  <2>10. markInitialized(f) = g
    BY <1>2, <1>4, <2>1, <2>2, <2>4, <2>6, <2>8 DEF markInitialized
  <2>11. LocalsOK(g)
    <3>1. Len(s) \in 1 .. LOCAL_MAX /\ s[1].depth = 0
      BY <1>1, <2>1, <2>2, <2>3, <2>7, Bytes_ DEF LocalsOK
    <3>2. ASSUME NEW i \in 1 .. n
          PROVE  /\ s[i].depth \in 0 .. f.scopeDepth \/ (s[i].depth = -1 /\ i = n)
                 /\ \A j \in 1 .. i - 1 : s[i].depth # -1 => s[j].depth <= s[i].depth
      <4>1. CASE i = n
        <5>1. s[i].depth = f.scopeDepth /\ f.scopeDepth \in Nat
          BY <1>2, <2>5, <2>7, <4>1
        <5>2. ASSUME NEW j \in 1 .. i - 1 PROVE s[j].depth <= f.scopeDepth
          <6>1. j \in 1 .. n /\ j # n
            BY <4>1, <5>2
          <6>2. s[j] = r[j] /\ r[j].depth \in 0 .. f.scopeDepth
            BY <1>1, <2>1, <2>2, <2>7, <6>1 DEF LocalsOK
          <6> QED BY <5>1, <6>2
        <5> QED BY <5>1, <5>2
      <4>2. CASE i # n
        <5>1. s[i] = r[i] /\ \A j \in 1 .. i - 1 : s[j] = r[j]
          BY <2>7, <4>2
        <5> QED BY <1>1, <2>1, <2>2, <5>1 DEF LocalsOK
      <4> QED BY <4>1, <4>2
    <3> QED BY <2>7, <2>9, <3>1, <3>2 DEF LocalsOK
  <2>12. ASSUME NEW e \in Situations, e.depth = a.depth, e.loops = a.loops, e.pending = "none" \/ e.pending = "function"
         PROVE  Fits(g, e)
    <3>1. \A i \in 1 .. n : s[i].depth # -1
      BY <1>1, <1>2, <2>1, <2>2, <2>5, <2>7 DEF LocalsOK
    <3>2. Last(g).depth = a.depth /\ Len(g.locals) > 1
      BY <2>3, <2>5, <2>7, <2>9 DEF Last
    <3> QED BY <1>2, <1>4, <2>7, <2>9, <2>12, <3>1, <3>2 DEF Fits
  <2> QED BY <1>1, <2>9, <2>10, <2>11, <2>12 DEF Sound
<1> QED BY <1>3, <1>4

LEMMA varDeclarationOK == ASSUME CodegenOK, NEW x \in Names, varDeclaration(x) PROVE CodegenOK'
<1>1. status = "compiling" /\ First.do \in PlainTasks /\ budget' \in 0 .. MaxForms
  BY BudgetKept DEF varDeclaration, Doing, PlainTasks
<1>2. PICK a : Met(a, a) /\ a.pending = "none"
  BY <1>1, AtPlain
<1>3. a \in Situations /\ Fits(Current, a) /\ Current \in Sound /\ x \in Identifiers
  BY <1>1, <1>2, Meeting DEF Met, Identifiers
<1>4. CASE CannotDeclare(Current, x)
  BY <1>1, <1>4, FailOK DEF varDeclaration, Declare
<1>5. CASE ~CannotDeclare(Current, x)
  <2>1. PICK f, e : f = declareVariable(Current, x) /\ e = Pending(a, "variable")
    OBVIOUS
  <2>2. f \in Sound /\ Fits(f, e)
    BY <1>2, <1>3, <1>5, <2>1, DeclareSound
  <2>3. /\ e \in Situations /\ e.level = a.level /\ e.classes = a.classes /\ e.depth = a.depth
        /\ e.pending = (IF a.depth = 0 THEN "none" ELSE "variable") /\ [e EXCEPT !.pending = "none"] = a
    BY <1>2, <1>3, <2>1, PendingTyped
  <2>4. PICK i, d, c : i = Item("initializer") /\ d = Item("define") /\ c = Item("comma")
    OBVIOUS
  <2>5. /\ i \in Items /\ i.do = "initializer" /\ d \in Items /\ d.do = "define" /\ c \in Items /\ c.do = "comma"
    <3>1. {"initializer", "define", "comma"} \subseteq Bare
      BY DEF Bare, Tasks, PlainTasks
    <3> QED BY <2>4, <3>1, ItemMade
  <2>6. Follows(compilers, e, i, e) /\ Follows(compilers, e, d, a) /\ Follows(compilers, a, c, a)
    <3>1. Follows(compilers, a, c, a)
      BY <1>2, <2>5, PlainFollows DEF PlainTasks
    <3> QED BY <2>3, <2>5, <3>1 DEF Follows, ExpressionTasks, Terminators, PlainTasks, ForTasks
  <2>7. Now(f) /\ Continue(<<i, d, c>>) /\ Steady
    BY <1>5, <2>1, <2>4 DEF varDeclaration, Declare
  <2>8. todo' \in Seq(Items) /\ Runs(compilers, todo', e)
    BY <1>1, <1>2, <1>3, <2>3, <2>5, <2>6, <2>7, Continues
  <2> QED BY <1>1, <1>2, <2>2, <2>3, <2>7, <2>8, Progress DEF Now, Steady, Met, CodegenOK
<1> QED BY <1>4, <1>5

LEMMA initializerOK == ASSUME CodegenOK, initializer PROVE CodegenOK'
<1>1. status = "compiling" /\ First.do = "initializer"
  BY DEF initializer, Doing
<1>2. PICK a, b : Met(a, b)
  BY <1>1, Meeting
<1>3. b = a /\ a \in Situations
  BY <1>1, <1>2 DEF Met, Follows
<1>4. PICK rest \in {Expression, Emit(<<Op("NIL")>>)} : Continue(<<rest>>)
  BY DEF initializer
<1>5. rest \in Items /\ rest.do \in ExpressionTasks
  <2>1. <<Op("NIL")>> \in Codes
    BY OpCode DEF Ops
  <2> QED BY <2>1, EmitMade, ExpressionMade DEF ExpressionTasks
<1>6. Follows(compilers, a, rest, a)
  BY <1>5, ExpressionFollows
<1>7. todo' \in Seq(Items) /\ Runs(compilers, todo', a)
  BY <1>1, <1>2, <1>3, <1>4, <1>5, <1>6, Continues
<1> QED BY <1>1, <1>2, <1>7, Waiting, BudgetKept DEF initializer, Steady, Same

LEMMA DefineSound ==
  ASSUME NEW f \in Sound, NEW a \in Situations, Fits(f, a), a.pending = "none" <=> a.depth = 0
  PROVE  /\ defineVariable(f) \in Sound
         /\ \A e \in Situations : e.depth = a.depth /\ e.loops = a.loops /\ e.pending = "none" => Fits(defineVariable(f), e)
<1>1. a.depth = f.scopeDepth /\ a.depth \in Nat
  BY DEF Fits, Situations
<1>2. CASE a.depth = 0
  <2>1. emitConstantCommond("DEFINE_GLOBAL") \in Codes
    BY ConstantCode DEF Ops
  <2>2. PICK c \in Codes : emit(f, emitConstantCommond("DEFINE_GLOBAL")) = WithCode(f, c)
    BY <2>1, EmitTyped DEF Sound
  <2>3. defineVariable(f) = WithCode(f, c)
    BY <1>1, <1>2, <2>2 DEF defineVariable
  <2>4. \A e \in Situations : e.depth = a.depth /\ e.loops = a.loops /\ e.pending = "none" => Fits(f, e)
    BY <1>2 DEF Fits
  <2> QED BY <2>3, <2>4, Writes
<1>3. CASE a.depth # 0
  <2>1. defineVariable(f) = markInitialized(f)
    BY <1>1, <1>3 DEF defineVariable
  <2> QED BY <2>1, MarkSound
<1> QED BY <1>2, <1>3

LEMMA defineOK == ASSUME CodegenOK, define PROVE CodegenOK'
<1>1. status = "compiling" /\ First.do = "define"
  BY DEF define, Doing
<1>2. PICK a, b : Met(a, b)
  BY <1>1, Meeting
<1>3. /\ a \in Situations /\ b \in Situations /\ (a.pending = "none" <=> a.depth = 0)
      /\ b = [a EXCEPT !.pending = "none"] /\ Fits(Current, a) /\ Current \in Sound
  BY <1>1, <1>2, Meeting DEF Met, Follows
<1>4. b.depth = a.depth /\ b.loops = a.loops /\ b.pending = "none" /\ b.level = a.level /\ b.classes = a.classes
  BY <1>3 DEF Situations
<1>5. PICK f : f = defineVariable(Current)
  OBVIOUS
<1>6. f \in Sound /\ Fits(f, b)
  BY <1>3, <1>4, <1>5, DefineSound
<1>7. Now(f) /\ Continue(<<>>) /\ Same
  BY <1>5 DEF define
<1>8. todo' = Tail(todo)
  BY <1>1, <1>7, NothingBefore
<1>9. todo' \in Seq(Items) /\ Runs(compilers, todo', b)
  BY <1>1, <1>2, <1>8, Meeting DEF Met
<1> QED BY <1>1, <1>2, <1>3, <1>4, <1>6, <1>7, <1>9, Progress, BudgetKept DEF Now, Same, Steady, Met, CodegenOK

(* Into a class, a scope or a loop, and out of it again. *)
LEMMA Deeper ==
  ASSUME NEW a \in Situations
  PROVE  /\ LET e == [a EXCEPT !.classes = @ + 1]
            IN  /\ e \in Situations /\ e.level = a.level /\ e.classes = a.classes + 1 /\ e.depth = a.depth
                /\ e.loops = a.loops /\ e.pending = a.pending /\ [e EXCEPT !.classes = @ - 1] = a /\ e.classes > 0
         /\ LET e == [a EXCEPT !.depth = @ + 1]
            IN  /\ e \in Situations /\ e.level = a.level /\ e.classes = a.classes /\ e.depth = a.depth + 1
                /\ e.loops = a.loops /\ e.pending = a.pending /\ [e EXCEPT !.depth = @ - 1] = a /\ e.depth > 0
         /\ LET e == [a EXCEPT !.loops = @ + 1]
            IN  /\ e \in Situations /\ e.level = a.level /\ e.classes = a.classes /\ e.depth = a.depth
                /\ e.loops = a.loops + 1 /\ e.pending = a.pending /\ e.loops > 0
                /\ [e EXCEPT !.depth = @ - 1, !.loops = @ - 1] = [a EXCEPT !.depth = @ - 1]
<1>1. PICK n \in Nat : n = a.classes
  BY DEF Situations
<1>2. PICK d \in Nat : d = a.depth
  BY DEF Situations
<1>3. PICK k \in Nat : k = a.loops
  BY DEF Situations
<1>4. PICK e : e = [a EXCEPT !.classes = @ + 1]
  OBVIOUS
<1>5. /\ e \in Situations /\ e.level = a.level /\ e.classes = n + 1 /\ e.depth = a.depth
      /\ e.loops = a.loops /\ e.pending = a.pending
  BY <1>1, <1>4 DEF Situations
<1>6. [e EXCEPT !.classes = @ - 1] = a
  <2>1. n + 1 - 1 = n
    OBVIOUS
  <2>2. [e EXCEPT !.classes = @ - 1] = [e EXCEPT !.classes = n]
    BY <1>5, <2>1
  <2>3. [e EXCEPT !.classes = n] = a
    BY <1>1, <1>4 DEF Situations
  <2> QED BY <2>2, <2>3
<1>7. PICK g : g = [a EXCEPT !.depth = @ + 1]
  OBVIOUS
<1>8. /\ g \in Situations /\ g.level = a.level /\ g.classes = a.classes /\ g.depth = d + 1
      /\ g.loops = a.loops /\ g.pending = a.pending
  BY <1>2, <1>7 DEF Situations
<1>9. [g EXCEPT !.depth = @ - 1] = a
  <2>1. d + 1 - 1 = d
    OBVIOUS
  <2>2. [g EXCEPT !.depth = @ - 1] = [g EXCEPT !.depth = d]
    BY <1>8, <2>1
  <2>3. [g EXCEPT !.depth = d] = a
    BY <1>2, <1>7 DEF Situations
  <2> QED BY <2>2, <2>3
<1>10. PICK h : h = [a EXCEPT !.loops = @ + 1]
  OBVIOUS
<1>11. /\ h \in Situations /\ h.level = a.level /\ h.classes = a.classes /\ h.depth = a.depth
       /\ h.loops = k + 1 /\ h.pending = a.pending
  BY <1>3, <1>10 DEF Situations
<1>12. [h EXCEPT !.depth = @ - 1, !.loops = @ - 1] = [a EXCEPT !.depth = @ - 1]
  <2>1. h.depth - 1 = d - 1 /\ h.loops - 1 = k
    BY <1>2, <1>11
  <2>2. [h EXCEPT !.depth = @ - 1, !.loops = @ - 1] = [h EXCEPT !.depth = d - 1, !.loops = k]
    BY <2>1
  <2>3. [h EXCEPT !.depth = d - 1, !.loops = k] = [a EXCEPT !.depth = d - 1]
    BY <1>3, <1>10 DEF Situations
  <2> QED BY <1>2, <2>2, <2>3
<1> QED BY <1>1, <1>2, <1>3, <1>4, <1>5, <1>6, <1>7, <1>8, <1>9, <1>10, <1>11, <1>12

LEMMA funDeclarationOK == ASSUME CodegenOK, NEW x \in Names, funDeclaration(x) PROVE CodegenOK'
<1>1. status = "compiling" /\ First.do \in PlainTasks /\ budget' \in 0 .. MaxForms
  BY BudgetKept DEF funDeclaration, Doing, PlainTasks
<1>2. PICK a : Met(a, a) /\ a.pending = "none"
  BY <1>1, AtPlain
<1>3. a \in Situations /\ Fits(Current, a) /\ Current \in Sound /\ x \in Identifiers
  BY <1>1, <1>2, Meeting DEF Met, Identifiers
<1>4. CASE CannotDeclare(Current, x)
  BY <1>1, <1>4, FailOK DEF funDeclaration
<1>5. CASE ~CannotDeclare(Current, x)
  <2>1. PICK f, v, e : f = declareVariable(Current, x) /\ v = Pending(a, "variable") /\ e = Pending(a, "function")
    OBVIOUS
  <2>2. f \in Sound /\ Fits(f, v)
    BY <1>2, <1>3, <1>5, <2>1, DeclareSound
  <2>3. /\ v \in Situations /\ v.depth = a.depth /\ v.loops = a.loops
        /\ v.pending = (IF a.depth = 0 THEN "none" ELSE "variable")
    BY <1>2, <1>3, <2>1, PendingTyped
  <2>4. /\ e \in Situations /\ e.level = a.level /\ e.classes = a.classes /\ e.depth = a.depth /\ e.loops = a.loops
        /\ e.pending = (IF a.depth = 0 THEN "none" ELSE "function") /\ [e EXCEPT !.pending = "none"] = a
    BY <1>2, <1>3, <2>1, PendingTyped
  <2>5. PICK g : g = markInitialized(f)
    OBVIOUS
  <2>6. g \in Sound /\ Fits(g, e)
    <3>1. v.pending = "none" <=> v.depth = 0
      BY <2>3
    <3>2. e.depth = v.depth /\ e.loops = v.loops /\ (e.pending = "none" \/ (e.pending = "function" /\ v.depth # 0))
      BY <2>3, <2>4
    <3> QED BY <2>2, <2>3, <2>4, <2>5, <3>1, <3>2, MarkSound
  <2>7. PICK i, d : i = Function("function") /\ d = Item("define")
    OBVIOUS
  <2>8. /\ i \in Items /\ i.do = "function" /\ d \in Items /\ d.do = "define"
    <3>1. "define" \in Bare
      BY DEF Bare, Tasks
    <3> QED BY <2>7, <3>1, ItemMade, FunctionMade
  <2>9. Follows(compilers, e, i, e) /\ Follows(compilers, e, d, a)
    BY <2>4, <2>8 DEF Follows, ExpressionTasks, Terminators, PlainTasks, ForTasks
  <2>10. Now(g) /\ Continue(<<i, d>>) /\ Steady
    BY <1>5, <2>1, <2>5, <2>7 DEF funDeclaration
  <2>11. todo' \in Seq(Items) /\ Runs(compilers, todo', e)
    BY <1>1, <1>2, <1>3, <2>4, <2>8, <2>9, <2>10, Continues
  <2> QED BY <1>1, <1>2, <2>6, <2>4, <2>10, <2>11, Progress DEF Now, Steady, Met, CodegenOK
<1> QED BY <1>4, <1>5

LEMMA classDeclarationOK == ASSUME CodegenOK, NEW x \in Names, classDeclaration(x) PROVE CodegenOK'
<1>1. status = "compiling" /\ First.do \in PlainTasks /\ budget' \in 0 .. MaxForms
  BY BudgetKept DEF classDeclaration, Doing, PlainTasks
<1>2. PICK a : Met(a, a) /\ a.pending = "none"
  BY <1>1, AtPlain
<1>3. a \in Situations /\ Fits(Current, a) /\ Current \in Sound /\ x \in Identifiers
  BY <1>1, <1>2, Meeting DEF Met, Identifiers
<1>4. CASE CannotDeclare(Current, x)
  BY <1>1, <1>4, FailOK DEF classDeclaration
<1>5. CASE ~CannotDeclare(Current, x)
  <2>1. PICK f, v : f = declareVariable(Current, x) /\ v = Pending(a, "variable")
    OBVIOUS
  <2>2. f \in Sound /\ Fits(f, v)
    BY <1>2, <1>3, <1>5, <2>1, DeclareSound
  <2>3. /\ v \in Situations /\ v.depth = a.depth /\ v.loops = a.loops
        /\ v.pending = (IF a.depth = 0 THEN "none" ELSE "variable")
    BY <1>2, <1>3, <2>1, PendingTyped
  <2>4. PICK c \in Codes : emit(f, emitConstantCommond("CLASS")) = WithCode(f, c)
    <3>1. emitConstantCommond("CLASS") \in Codes
      BY ConstantCode DEF Ops
    <3> QED BY <2>2, <3>1, EmitTyped DEF Sound
  <2>5. PICK h : h = WithCode(f, c)
    OBVIOUS
  <2>6. h \in Sound /\ Fits(h, v)
    BY <2>2, <2>5, Writes
  <2>7. PICK g : g = defineVariable(h)
    OBVIOUS
  <2>8. PICK e : e = [a EXCEPT !.classes = @ + 1]
    OBVIOUS
  <2>9. /\ e \in Situations /\ e.level = a.level /\ e.classes = a.classes + 1 /\ e.depth = a.depth
        /\ e.loops = a.loops /\ e.pending = "none" /\ [e EXCEPT !.classes = @ - 1] = a /\ e.classes > 0
    BY <1>2, <1>3, <2>8, Deeper
  <2>10. g \in Sound /\ Fits(g, e)
    <3>1. v.pending = "none" <=> v.depth = 0
      BY <2>3
    <3> QED BY <2>3, <2>6, <2>7, <2>9, <3>1, DefineSound
  <2>11. PICK n, m, p, k : n = Named("get", x) /\ m = Item("methods") /\ p = Emit(<<Op("POP")>>) /\ k = Item("classEnds")
    OBVIOUS
  <2>12. /\ n \in Items /\ n.do \in ExpressionTasks /\ m \in Items /\ m.do \in PlainTasks
         /\ p \in Items /\ p.do \in ExpressionTasks /\ k \in Items /\ k.do = "classEnds"
    <3>1. "classEnds" \in Bare
      BY DEF Bare, Tasks
    <3>2. k \in Items /\ k.do = "classEnds"
      BY <2>11, <3>1, ItemMade
    <3>3. m \in Items /\ m.do \in PlainTasks
      BY <2>11, PlainMade DEF PlainTasks
    <3>4. n \in Items /\ n.do \in ExpressionTasks
      BY <1>3, <2>11, NamedMade DEF ExpressionTasks
    <3> QED BY <2>11, <3>2, <3>3, <3>4, PopMade
  <2>13. /\ Follows(compilers, e, n, e) /\ Follows(compilers, e, m, e)
         /\ Follows(compilers, e, p, e) /\ Follows(compilers, e, k, a)
    <3>1. Follows(compilers, e, k, a)
      BY <2>9, <2>12 DEF Follows, ExpressionTasks, Terminators, PlainTasks, ForTasks
    <3> QED BY <2>9, <2>12, <3>1, ExpressionFollows, PlainFollows
  <2>14. Now(g) /\ Continue(<<n, m, p, k>>) /\ classes' = classes + 1 /\ status' = status
    BY <1>5, <2>1, <2>4, <2>5, <2>7, <2>11 DEF classDeclaration
  <2>15. todo' \in Seq(Items) /\ Runs(compilers, todo', e)
    BY <1>1, <1>2, <1>3, <2>9, <2>12, <2>13, <2>14, Continues
  <2>16. classes' \in Nat /\ e.classes = classes' /\ e.level = Len(compilers)
    BY <1>2, <2>9, <2>14 DEF Met, CodegenOK
  <2> QED BY <1>1, <1>2, <2>9, <2>10, <2>14, <2>15, <2>16, Progress DEF Now
<1> QED BY <1>4, <1>5

LEMMA classEndsOK == ASSUME CodegenOK, classEnds PROVE CodegenOK'
<1>1. status = "compiling" /\ First.do = "classEnds"
  BY DEF classEnds, Doing
<1>2. PICK a, b : Met(a, b)
  BY <1>1, Meeting
<1>3. a \in Situations /\ a.classes > 0 /\ b = [a EXCEPT !.classes = @ - 1] /\ a.classes = classes
      /\ a.level = Len(compilers) /\ Fits(Current, a)
  BY <1>1, <1>2 DEF Met, Follows
<1>4. /\ b \in Situations /\ b.level = a.level /\ b.classes = a.classes - 1 /\ b.depth = a.depth
      /\ b.loops = a.loops /\ b.pending = a.pending /\ a.classes \in Nat
  BY <1>3 DEF Situations
<1>5. Fits(Current, b)
  BY <1>3, <1>4 DEF Fits
<1>6. Continue(<<>>) /\ classes' = classes - 1 /\ status' = status /\ compilers' = compilers /\ budget' = budget
  BY DEF classEnds
<1>7. todo' = Tail(todo)
  BY <1>1, <1>6, NothingBefore
<1>8. todo' \in Seq(Items) /\ Runs(compilers, todo', b)
  BY <1>1, <1>2, <1>7, Meeting DEF Met
<1>9. classes' \in Nat /\ b.classes = classes' /\ b.level = Len(compilers) /\ budget' \in 0 .. MaxForms
  BY <1>3, <1>4, <1>6 DEF CodegenOK
<1> QED BY <1>1, <1>4, <1>5, <1>6, <1>8, <1>9, Onwards

LEMMA methodOK == ASSUME CodegenOK, method PROVE CodegenOK'
<1>1. status = "compiling" /\ First.do = "methods"
  BY DEF method, Doing
<1>2. CASE Continue(<<>>) /\ NoRule
  <2>1. UNCHANGED <<status, classes, compilers>> /\ budget' \in 0 .. MaxForms
    BY <1>2, BudgetKept DEF method, Steady
  <2> QED BY <1>1, <1>2, <2>1, Dropped
<1>3. ASSUME NEW type \in MethodTypes, Choose("method"),
             Continue(<<Function(type), Emit(emitConstantCommond("METHOD")), First>>)
      PROVE  CodegenOK'
  <2>1. PICK a : Met(a, a) /\ a.pending = "none"
    BY <1>1, AtPlain DEF PlainTasks
  <2>2. a \in Situations
    BY <2>1 DEF Met
  <2>3. PICK x, y, z : x = Function(type) /\ y = Emit(emitConstantCommond("METHOD")) /\ z = First
    OBVIOUS
  <2>4. x \in Items /\ x.do = "function" /\ y \in Items /\ y.do = "emit" /\ z \in Items /\ z.do = "methods"
    <3>1. emitConstantCommond("METHOD") \in Codes
      BY ConstantCode DEF Ops
    <3> QED BY <1>1, <1>3, <2>3, <3>1, FunctionMade, EmitMade, Meeting
  <2>5. Follows(compilers, a, x, a) /\ Follows(compilers, a, y, a) /\ Follows(compilers, a, z, a)
    BY <2>1, <2>4 DEF Follows, ExpressionTasks, Terminators, PlainTasks, ForTasks
  <2>6. Continue(<<x, y, z>>)
    BY <1>3, <2>3
  <2>7. todo' \in Seq(Items) /\ Runs(compilers, todo', a)
    BY <1>1, <2>1, <2>2, <2>4, <2>5, <2>6, Continues
  <2>8. status' = status /\ classes' = classes /\ compilers' = compilers /\ budget' \in 0 .. MaxForms
    BY <1>3, BudgetKept DEF method, Steady
  <2> QED BY <1>1, <2>1, <2>7, <2>8, Waiting
<1> QED BY <1>2, <1>3 DEF method

LEMMA CountedTyped ==
  ASSUME NEW f \in CompilersTyped, NEW g, g = [f EXCEPT !.arity = @ + 1]
  PROVE  /\ g \in CompilersTyped /\ g.scopeDepth = f.scopeDepth /\ g.loops = f.loops
         /\ g.upvalues = f.upvalues /\ g.locals = f.locals
<1>1. PICK k : k = f.arity + 1 /\ g = [f EXCEPT !.arity = k]
  OBVIOUS
<1>2. k \in Int
  BY <1>1 DEF CompilersTyped
<1>3. g \in CompilersTyped
  BY <1>1, <1>2 DEF CompilersTyped
<1>4. g.scopeDepth = f.scopeDepth /\ g.loops = f.loops
  BY <1>1 DEF CompilersTyped
<1>5. g.upvalues = f.upvalues /\ g.locals = f.locals
  BY <1>1 DEF CompilersTyped
<1> QED BY <1>3, <1>4, <1>5

LEMMA parameterOK == ASSUME CodegenOK, NEW x \in Names, parameter(x) PROVE CodegenOK'
<1>1. status = "compiling" /\ First.do \in PlainTasks /\ budget' \in 0 .. MaxForms
  BY BudgetKept DEF parameter, Doing, PlainTasks
<1>2. PICK a : Met(a, a) /\ a.pending = "none"
  BY <1>1, AtPlain
<1>3. a \in Situations /\ Fits(Current, a) /\ Current \in Sound /\ x \in Identifiers
  BY <1>1, <1>2, Meeting DEF Met, Identifiers
<1>4. CASE Current.arity = ARGUMENT_MAX \/ CannotDeclare(Current, x)
  BY <1>1, <1>4, FailOK DEF parameter
<1>5. CASE ~(Current.arity = ARGUMENT_MAX \/ CannotDeclare(Current, x))
  <2>1. PICK f, v : f = declareVariable(Current, x) /\ v = Pending(a, "variable")
    OBVIOUS
  <2>2. f \in Sound /\ Fits(f, v)
    BY <1>2, <1>3, <1>5, <2>1, DeclareSound
  <2>3. /\ v \in Situations /\ v.depth = a.depth /\ v.loops = a.loops
        /\ v.pending = (IF a.depth = 0 THEN "none" ELSE "variable")
    BY <1>2, <1>3, <2>1, PendingTyped
  <2>4. PICK g : g = markInitialized(f)
    OBVIOUS
  <2>5. g \in Sound /\ Fits(g, a)
    <3>1. v.pending = "none" <=> v.depth = 0
      BY <2>3
    <3> QED BY <1>2, <1>3, <2>2, <2>3, <2>4, <3>1, MarkSound
  <2>6. PICK h : h = [g EXCEPT !.arity = @ + 1]
    OBVIOUS
  <2>7. h \in Sound /\ Fits(h, a)
    <3>1. g \in CompilersTyped /\ LocalsOK(g) /\ Len(g.upvalues) <= UPVALUE_MAX
      BY <2>5 DEF Sound
    <3>2. /\ h \in CompilersTyped /\ h.scopeDepth = g.scopeDepth /\ h.loops = g.loops
          /\ h.upvalues = g.upvalues /\ h.locals = g.locals
      BY <2>6, <3>1, CountedTyped
    <3> QED BY <2>5, <3>1, <3>2 DEF Sound, LocalsOK, Fits, Last
  <2>8. Now(h) /\ todo' = todo /\ Steady
    BY <1>5, <2>1, <2>4, <2>6 DEF parameter
  <2>9. todo \in Seq(Items) /\ Runs(compilers, todo, a)
    <3>1. PICK s, cs, x1 : s = Tail(todo) /\ cs = compilers /\ x1 = First
      OBVIOUS
    <3>2. x1 \in Items /\ s \in Seq(Items) /\ Follows(cs, a, x1, a) /\ Runs(cs, s, a)
      BY <1>1, <1>2, <3>1, Meeting DEF Met
    <3>3. Runs(cs, <<x1>> \o s, a)
      BY <1>3, <3>2, Before1
    <3>4. todo = <<x1>> \o s
      <4>1. todo \in Seq(Items) /\ todo # <<>> /\ x1 = Head(todo)
        BY <1>1, <3>1, Meeting DEF CodegenOK, First
      <4>2. PICK q : q = todo
        OBVIOUS
      <4>3. q \in Seq(Items) /\ q # <<>> /\ x1 = q[1] /\ s = Tail(q)
        BY <3>1, <4>1, <4>2 DEF First
      <4>4. Len(q) = Len(s) + 1 /\ \A k \in 1 .. Len(s) : q[k + 1] = s[k]
        BY <4>3, HeadTailProperties
      <4> QED BY <3>2, <4>2, <4>3, <4>4, FirstApart
    <3> QED BY <3>1, <3>3, <3>4 DEF CodegenOK
  <2> QED BY <1>1, <1>2, <2>7, <2>8, <2>9, Progress DEF Now, Steady, Met, CodegenOK
<1> QED BY <1>4, <1>5

----------------------------------------------------------------------------
(* Functions. *)

LEMMA NewSound ==
  ASSUME NEW type \in FunctionTypes
  PROVE  /\ NewCompiler(type) \in Sound
         /\ \A a \in Situations : a.depth = 0 /\ a.loops = 0 /\ a.pending = "none" => Fits(NewCompiler(type), a)
<1>1. PICK x \in Identifiers : x = IF type = "function" THEN "" ELSE "this"
  BY DEF Identifiers
<1>2. PICK u : u = [name |-> x, depth |-> 0, isCaptured |-> FALSE]
  OBVIOUS
<1>3. u \in Locals /\ u.depth = 0
  BY <1>2 DEF Locals
<1>4. PICK s, c, p, k : s = <<u>> /\ c = <<>> /\ p = <<>> /\ k = <<>>
  OBVIOUS
<1>5. s \in Seq(Locals) /\ Len(s) = 1 /\ s[1] = u /\ c \in Codes /\ p \in Seq(Loops) /\ k \in Seq(Upvalues)
      /\ Len(p) = 0 /\ Len(k) = 0
  BY <1>3, <1>4, Codes_
<1>6. PICK f : f = NewCompiler(type)
  OBVIOUS
<1>7. f = [type |-> type, code |-> c, arity |-> 0, scopeDepth |-> 0, loops |-> p, upvalues |-> k,
           objectNestingDepth |-> 0, locals |-> s]
  BY <1>1, <1>2, <1>4, <1>6 DEF NewCompiler
<1>8. f.locals = s /\ f.loops = p /\ f.upvalues = k /\ f.scopeDepth = 0
  BY <1>7
<1>9. f \in CompilersTyped
  <2> HIDE DEF FunctionTypes, Codes, Loops, Upvalues, Locals
  <2> QED BY <1>5, <1>7 DEF CompilersTyped
<1>10. Len(f.locals) = 1 /\ Len(f.upvalues) = 0 /\ \A i \in 1 .. Len(f.locals) : f.locals[i].depth = 0 /\ i = 1
  <2>1. Len(s) = 1 /\ s[1] = u /\ Len(k) = 0
    BY <1>5
  <2>2. \A i \in 1 .. Len(s) : s[i].depth = 0 /\ i = 1
    BY <1>3, <2>1
  <2> QED BY <1>8, <2>1, <2>2
<1>11. LocalsOK(f) /\ Len(f.upvalues) <= UPVALUE_MAX
  <2>1. Len(f.locals) = 1 /\ 1 \in 1 .. Len(f.locals) /\ Len(f.upvalues) = 0
    BY <1>10
  <2> QED BY <1>8, <1>10, <2>1, Bytes_ DEF LocalsOK
<1>12. ASSUME NEW a \in Situations, a.depth = 0, a.loops = 0, a.pending = "none" PROVE Fits(f, a)
  <2>1. Len(f.loops) = 0
    BY <1>5, <1>8
  <2>2. \A i \in 1 .. Len(f.locals) : f.locals[i].depth # -1
    BY <1>10
  <2> QED BY <1>8, <1>12, <2>1, <2>2 DEF Fits
<1> QED BY <1>6, <1>9, <1>11, <1>12 DEF Sound

LEMMA ScopeSound ==
  ASSUME NEW f \in Sound
  PROVE  /\ beginScope(f) \in Sound
         /\ \A a \in Situations : Fits(f, a) /\ a.pending = "none" => Fits(beginScope(f), [a EXCEPT !.depth = @ + 1])
<1>1. f \in CompilersTyped /\ LocalsOK(f) /\ Len(f.upvalues) <= UPVALUE_MAX /\ f.scopeDepth \in Nat
  BY DEF Sound, CompilersTyped
<1>2. PICK g : g = beginScope(f)
  OBVIOUS
<1>3. /\ g \in CompilersTyped /\ g.scopeDepth = f.scopeDepth + 1 /\ g.loops = f.loops /\ g.upvalues = f.upvalues
      /\ g.locals = f.locals
  BY <1>1, <1>2 DEF CompilersTyped, beginScope
<1>4. LocalsOK(g)
  BY <1>1, <1>3 DEF LocalsOK
<1>5. ASSUME NEW a \in Situations, Fits(f, a), a.pending = "none"
      PROVE  Fits(g, [a EXCEPT !.depth = @ + 1])
  <2>1. PICK e : e = [a EXCEPT !.depth = @ + 1]
    OBVIOUS
  <2>2. e.depth = a.depth + 1 /\ e.loops = a.loops /\ e.pending = "none"
    BY <1>5, <2>1, Deeper
  <2> QED BY <1>3, <1>5, <2>1, <2>2 DEF Fits
<1> QED BY <1>1, <1>2, <1>3, <1>4, <1>5 DEF Sound

LEMMA functionOK == ASSUME CodegenOK, function PROVE CodegenOK'
<1>1. status = "compiling" /\ First.do = "function" /\ NoRule
  BY DEF function, Doing
<1>2. PICK a, b : Met(a, b)
  BY <1>1, Meeting
<1>3. /\ b = a /\ a \in Situations /\ a.pending # "variable" /\ a.level = Len(compilers) /\ a.level > 0
      /\ a.classes = classes /\ Fits(Current, a) /\ Runs(compilers, Tail(todo), a)
  BY <1>1, <1>2 DEF Met, Follows
<1>4. CASE Len(compilers) = FUNCTION_MAX_NESTING
  BY <1>1, <1>4, FailOK, BudgetKept DEF function
<1>5. CASE Len(compilers) # FUNCTION_MAX_NESTING
  <2>1. PICK type \in FunctionTypes : type = First.name
    BY <1>1, Meeting DEF Items, Details, FunctionTypes
  <2>2. PICK e0 : e0 = [level |-> a.level + 1, depth |-> 0, classes |-> a.classes, loops |-> 0, pending |-> "none"]
    OBVIOUS
  <2>3. /\ e0 \in Situations /\ e0.level = a.level + 1 /\ e0.depth = 0 /\ e0.classes = a.classes
        /\ e0.loops = 0 /\ e0.pending = "none"
    BY <1>3, <2>2 DEF Situations
  <2>4. PICK e : e = [e0 EXCEPT !.depth = @ + 1]
    OBVIOUS
  <2>5. e \in Situations /\ e.level = a.level + 1 /\ e.classes = a.classes /\ e.pending = "none"
    BY <2>3, <2>4, Deeper
  <2>6. PICK g : g = beginScope(NewCompiler(type))
    OBVIOUS
  <2>7. g \in Sound /\ Fits(g, e)
    BY <2>3, <2>4, <2>6, NewSound, ScopeSound
  <2>8. PICK n, cs, ds : n \in Nat /\ n = Len(compilers) /\ cs = compilers /\ ds = compilers'
    BY <1>1, Meeting
  <2>9. cs \in Seq(Sound) /\ Len(cs) = n /\ n > 0 /\ a.level = n
    BY <1>3, <2>8 DEF CodegenOK
  <2>10. ds = Append(cs, g)
    BY <1>5, <2>1, <2>6, <2>8 DEF function
  <2>11. ds \in Seq(Sound) /\ Len(ds) = n + 1 /\ ds[n + 1] = g /\ \A l \in 1 .. n : ds[l] = cs[l]
    BY <2>7, <2>9, <2>10, AppendProperties
  <2>12. \A l \in 1 .. a.level - 1 : Similar(cs[l], ds[l])
    <3>1. TAKE l \in 1 .. a.level - 1
    <3>2. ds[l] = cs[l]
      BY <2>9, <2>11
    <3> QED BY <3>2 DEF Similar
  <2>13. PICK s : s = Tail(todo)
    OBVIOUS
  <2>14. s \in Seq(Items) /\ Runs(cs, s, a)
    BY <1>1, <1>3, <2>8, <2>13, Meeting
  <2>15. Runs(ds, s, a)
    <3>1. cs \in Seq(CompilersTyped) /\ ds \in Seq(CompilersTyped)
      BY <2>9, <2>11, SoundTyped
    <3>2. a.level <= Len(cs) /\ a.level <= Len(ds) + 1
      BY <2>9, <2>11
    <3> QED BY <1>3, <2>12, <2>14, <3>1, <3>2, RunsSimilar
  <2>16. PICK x, y, z : x = Item("parameters") /\ y = Item("block") /\ z = Item("end")
    OBVIOUS
  <2>17. x \in Items /\ x.do \in PlainTasks /\ y \in Items /\ y.do \in PlainTasks /\ z \in Items /\ z.do = "end"
    <3>1. "end" \in Bare
      BY DEF Bare, Tasks, Terminators
    <3>2. z \in Items /\ z.do = "end"
      BY <2>16, <3>1, ItemMade
    <3>3. "parameters" \in PlainTasks /\ "block" \in PlainTasks
      BY DEF PlainTasks
    <3> QED BY <2>16, <3>2, <3>3, PlainMade
  <2>18. Follows(ds, e, x, e) /\ Follows(ds, e, y, e)
    BY <2>5, <2>17, PlainFollows
  <2>19. Follows(ds, e, z, a)
    <3>1. ds[n] = cs[n] /\ Fits(cs[n], a)
      <4>1. n \in 1 .. n
        BY <2>9
      <4> QED BY <1>3, <2>8, <2>11, <4>1 DEF Current
    <3>2. a.level = e.level - 1
      BY <1>3, <2>5, <2>9
    <3> QED BY <2>5, <2>9, <2>17, <3>1, <3>2 DEF Follows, ExpressionTasks, Terminators, PlainTasks, ForTasks
  <2>20. <<x, y, z>> \o s \in Seq(Items) /\ Runs(ds, <<x, y, z>> \o s, e)
    BY <1>3, <2>5, <2>14, <2>15, <2>17, <2>18, <2>19, Before3
  <2>21. todo' = <<x, y, z>> \o s /\ status' = status /\ classes' = classes
    BY <1>5, <2>13, <2>16 DEF function, Continue, Steady
  <2>22. InProgress(ds, todo', classes')
    <3>1. e.level = Len(ds) /\ e.level > 0 /\ e.classes = classes' /\ Fits(ds[Len(ds)], e) /\ Runs(ds, todo', e)
      BY <1>3, <2>5, <2>7, <2>9, <2>11, <2>20, <2>21
    <3> QED BY <2>5, <3>1 DEF InProgress
  <2>23. compilers' \in Seq(Sound) /\ todo' \in Seq(Items) /\ InProgress(compilers', todo', classes')
    BY <2>8, <2>11, <2>20, <2>21, <2>22
  <2>24. budget' \in 0 .. MaxForms
    BY <1>1, BudgetKept
  <2> QED BY <2>21, <2>23, <2>24 DEF CodegenOK
<1> QED BY <1>4, <1>5

LEMMA functionEndsOK == ASSUME CodegenOK, functionEnds PROVE CodegenOK'
<1>1. status = "compiling" /\ First.do = "end" /\ Len(compilers) > 1
  BY DEF functionEnds, Doing
<1>2. PICK a, b : Met(a, b)
  BY <1>1, Meeting
<1>3. /\ b \in Situations /\ b.level = a.level - 1 /\ b.classes = a.classes /\ a.level = Len(compilers)
      /\ a.classes = classes
      /\ b.level > 0 => Fits(compilers[b.level], b)
  BY <1>1, <1>2 DEF Met, Follows, Terminators
<1>4. PICK n \in Nat : n = Len(compilers) - 1
  BY <1>1, Meeting
<1>5. PICK cs, ds : cs = compilers /\ ds = compilers'
  OBVIOUS
<1>6. cs \in Seq(Sound) /\ Len(cs) = n + 1 /\ n > 0 /\ b.level = n
  BY <1>1, <1>3, <1>4, <1>5 DEF CodegenOK
<1>7. PICK f, c : f = cs[n] /\ c = closureCode(Current.upvalues)
  OBVIOUS
<1>8. f \in Sound /\ Fits(f, b)
  <2>1. n \in 1 .. Len(cs)
    BY <1>6
  <2> QED BY <1>3, <1>5, <1>6, <1>7, <2>1, ElementOfSeq
<1>9. c \in Codes
  BY <1>1, <1>7, Meeting, ClosureCodeTyped, Bytes_ DEF CompilersTyped, Sound
<1>10. PICK d \in Codes : emit(f, c) = WithCode(f, d)
  BY <1>8, <1>9, EmitTyped DEF Sound
<1>11. PICK g : g = WithCode(f, d)
  OBVIOUS
<1>12. g \in Sound /\ Fits(g, b)
  BY <1>8, <1>11, Writes
<1>13. PICK p : p = SubSeq(cs, 1, n)
  OBVIOUS
<1>14. p \in Seq(Sound) /\ Len(p) = n /\ \A l \in 1 .. n : p[l] = cs[l]
  <2>1. 1 \in 1 .. Len(cs) + 1 /\ n \in 1 - 1 .. Len(cs)
    BY <1>6
  <2>2. p \in Seq(Sound) /\ Len(p) = (IF 1 <= n THEN n - 1 + 1 ELSE 0) /\ \A l \in 1 .. n - 1 + 1 : p[l] = cs[1 + l - 1]
    BY <1>6, <1>13, <2>1, SubSeqProperties
  <2> QED BY <1>6, <2>2
<1>15. n \in 1 .. n
  BY <1>6
<1>16. ds = [p EXCEPT ![n] = g]
  <2>1. p[n] = f
    BY <1>7, <1>14, <1>15
  <2>2. ds = [p EXCEPT ![n] = emit(@, c)]
    BY <1>4, <1>5, <1>7, <1>13 DEF functionEnds
  <2> QED BY <1>10, <1>11, <2>1, <2>2
<1>17. ds \in Seq(Sound) /\ Len(ds) = n /\ \A l \in 1 .. n : ds[l] = IF l = n THEN g ELSE p[l]
  BY <1>12, <1>14, <1>15, <1>16, ExceptSeq
<1>18. \A l \in 1 .. b.level - 1 : Similar(cs[l], ds[l])
  <2>1. TAKE l \in 1 .. b.level - 1
  <2>2. l \in 1 .. n /\ l # n
    BY <1>6
  <2>3. ds[l] = cs[l]
    BY <1>14, <1>17, <2>2
  <2> QED BY <2>3 DEF Similar
<1>19. PICK s : s = Tail(todo)
  OBVIOUS
<1>20. s \in Seq(Items) /\ Runs(cs, s, b)
  BY <1>1, <1>2, <1>5, <1>19, Meeting DEF Met
<1>21. Runs(ds, s, b)
  <2>1. cs \in Seq(CompilersTyped) /\ ds \in Seq(CompilersTyped)
    BY <1>6, <1>17, SoundTyped
  <2>2. b.level <= Len(cs) /\ b.level <= Len(ds) + 1
    BY <1>6, <1>17
  <2> QED BY <1>3, <1>18, <1>20, <2>1, <2>2, RunsSimilar
<1>22. Continue(<<>>) /\ Same
  BY DEF functionEnds
<1>23. todo' = s
  BY <1>1, <1>19, <1>22, NothingBefore
<1>24. InProgress(ds, s, classes')
  <2>1. b.level = Len(ds) /\ b.level > 0 /\ b.classes = classes' /\ Fits(ds[Len(ds)], b)
    BY <1>3, <1>6, <1>12, <1>15, <1>17, <1>22 DEF Same, Steady
  <2> QED BY <1>3, <1>21, <2>1 DEF InProgress
<1>25. compilers' \in Seq(Sound) /\ todo' \in Seq(Items) /\ InProgress(compilers', todo', classes')
  BY <1>5, <1>17, <1>20, <1>23, <1>24
<1>26. budget' \in 0 .. MaxForms /\ classes' = classes /\ status' = status
  BY <1>22, BudgetKept DEF Same, Steady
<1> QED BY <1>25, <1>26 DEF CodegenOK

----------------------------------------------------------------------------
(* Scopes. *)

LEMMA blockStatementOK == ASSUME CodegenOK, blockStatement PROVE CodegenOK'
<1>1. status = "compiling" /\ First.do \in PlainTasks /\ budget' \in 0 .. MaxForms
  BY StatementTasks, BudgetKept DEF blockStatement
<1>2. PICK a : Met(a, a) /\ a.pending = "none"
  BY <1>1, AtPlain
<1>3. a \in Situations /\ Fits(Current, a) /\ Current \in Sound
  BY <1>1, <1>2, Meeting DEF Met
<1>4. PICK f, e : f = beginScope(Current) /\ e = [a EXCEPT !.depth = @ + 1]
  OBVIOUS
<1>5. f \in Sound /\ Fits(f, e)
  BY <1>2, <1>3, <1>4, ScopeSound
<1>6. /\ e \in Situations /\ e.level = a.level /\ e.classes = a.classes /\ e.depth > 0
      /\ e.pending = "none" /\ [e EXCEPT !.depth = @ - 1] = a
  BY <1>2, <1>3, <1>4, Deeper
<1>7. PICK x, y : x = Item("block") /\ y = Item("endScope")
  OBVIOUS
<1>8. x \in Items /\ x.do \in PlainTasks /\ y \in Items /\ y.do = "endScope"
  <2>1. "endScope" \in Bare /\ "block" \in PlainTasks
    BY DEF Bare, Tasks, PlainTasks
  <2> QED BY <1>7, <2>1, ItemMade, PlainMade
<1>9. Follows(compilers, e, x, e) /\ Follows(compilers, e, y, a)
  <2>1. Follows(compilers, e, y, a)
    BY <1>6, <1>8 DEF Follows, ExpressionTasks, Terminators, PlainTasks, ForTasks
  <2> QED BY <1>6, <1>8, <2>1, PlainFollows
<1>10. Now(f) /\ Continue(<<x, y>>) /\ Steady
  BY <1>4, <1>7 DEF blockStatement
<1>11. todo' \in Seq(Items) /\ Runs(compilers, todo', e)
  BY <1>1, <1>2, <1>3, <1>6, <1>8, <1>9, <1>10, Continues
<1> QED BY <1>1, <1>2, <1>5, <1>6, <1>10, <1>11, Progress DEF Now, Steady, Met, CodegenOK

(* Locals in order of their depths: those of the scopes outside come first. *)
LEMMA Outside ==
  ASSUME NEW f \in Sound, f.scopeDepth > 0, \A i \in 1 .. Len(f.locals) : f.locals[i].depth # -1
  PROVE  \E k \in 1 .. Len(f.locals) :
           /\ Cardinality({i \in DOMAIN f.locals : f.locals[i].depth < f.scopeDepth}) = k
           /\ \A i \in 1 .. k : f.locals[i].depth \in 0 .. f.scopeDepth - 1
<1>1. f \in CompilersTyped /\ LocalsOK(f)
  BY DEF Sound
<1>2. PICK r : r = f.locals /\ r \in Seq(Locals)
  BY <1>1 DEF CompilersTyped
<1>3. PICK n \in Nat : n = Len(r)
  BY <1>2, LenProperties
<1>4. PICK d \in Nat : d = f.scopeDepth
  BY <1>1 DEF CompilersTyped
<1>5. /\ n \in 1 .. LOCAL_MAX /\ r[1].depth = 0 /\ d > 0
      /\ \A i \in 1 .. n : r[i].depth \in 0 .. d /\ \A j \in 1 .. i - 1 : r[j].depth <= r[i].depth
  BY <1>1, <1>2, <1>3, <1>4 DEF LocalsOK
<1>6. PICK out : out = {i \in 1 .. n : r[i].depth < d}
  OBVIOUS
<1>7. PICK k \in 1 .. n : out = 1 .. k
  <2>1. CASE out = 1 .. n
    <3>1. n \in 1 .. n
      BY <1>5
    <3> QED BY <2>1, <3>1
  <2>2. CASE out # 1 .. n
    <3>1. PICK S : S = {i \in 1 .. n : i \notin out}
      OBVIOUS
    <3>2. S \subseteq Nat /\ S # {}
      BY <1>6, <2>2, <3>1
    <3>3. PICK m \in S : \A i \in Nat : i < m => i \notin S
      BY <3>2, Least
    <3>4. m \in 1 .. n /\ m \notin out /\ \A i \in 1 .. m - 1 : i \in out
      BY <3>1, <3>3
    <3>5. 1 \in out
      BY <1>5, <1>6
    <3>6. m - 1 \in 1 .. n
      BY <3>4, <3>5
    <3>7. ASSUME NEW i \in 1 .. n, i > m PROVE i \notin out
      <4>1. m \in 1 .. i - 1 /\ r[m].depth <= r[i].depth
        BY <1>5, <3>4, <3>7
      <4>2. ~(r[m].depth < d) /\ r[m].depth \in 0 .. d /\ r[i].depth \in 0 .. d
        BY <1>5, <1>6, <3>4
      <4> QED BY <1>6, <4>1, <4>2
    <3>8. out = 1 .. m - 1
      <4>1. ASSUME NEW i \in out PROVE i \in 1 .. m - 1
        <5>1. i \in 1 .. n /\ i # m /\ ~(i > m)
          BY <1>6, <3>4, <3>7, <4>1
        <5> QED BY <3>4, <5>1
      <4> QED BY <3>4, <4>1
    <3> QED BY <3>6, <3>8
  <2> QED BY <2>1, <2>2
<1>8. Cardinality(out) = k
  <2>1. Cardinality(1 .. k) = k
    <3>1. 1 \in Int /\ k \in Int /\ ~(1 > k)
      OBVIOUS
    <3>2. Cardinality(1 .. k) = k - 1 + 1
      BY <3>1, FS_Interval
    <3> QED BY <3>2
  <2> QED BY <1>7, <2>1
<1>9. ASSUME NEW i \in 1 .. k PROVE r[i].depth \in 0 .. d - 1
  <2>1. i \in out /\ i \in 1 .. n
    BY <1>7, <1>9
  <2> QED BY <1>5, <1>6, <2>1
<1>10. {i \in DOMAIN f.locals : f.locals[i].depth < f.scopeDepth} = out
  <2>1. DOMAIN r = 1 .. n
    BY <1>2, <1>3, LenProperties
  <2> QED BY <1>2, <1>4, <1>6, <2>1
<1> QED BY <1>2, <1>3, <1>4, <1>7, <1>8, <1>9, <1>10

LEMMA EndSound ==
  ASSUME NEW f \in Sound, NEW a \in Situations, Fits(f, a), a.pending = "none", a.depth > 0
  PROVE  endScope(f) \in Sound /\ Fits(endScope(f), [a EXCEPT !.depth = @ - 1])
<1>1. f \in CompilersTyped /\ LocalsOK(f) /\ Len(f.upvalues) <= UPVALUE_MAX
  BY DEF Sound
<1>2. PICK r : r = f.locals /\ r \in Seq(Locals)
  BY <1>1 DEF CompilersTyped
<1>3. PICK n \in Nat : n = Len(r)
  BY <1>2, LenProperties
<1>4. PICK d \in Nat : d = f.scopeDepth - 1 /\ f.scopeDepth = a.depth
  BY <1>1 DEF CompilersTyped, Fits
<1>5. PICK k \in 1 .. n : /\ Cardinality({i \in DOMAIN f.locals : f.locals[i].depth < f.scopeDepth}) = k
                          /\ \A i \in 1 .. k : r[i].depth \in 0 .. d
  <2>1. f.scopeDepth > 0 /\ \A i \in 1 .. Len(f.locals) : f.locals[i].depth # -1
    BY <1>4 DEF Fits
  <2> QED BY <1>2, <1>3, <1>4, <2>1, Outside
<1>6. PICK s : s = SubSeq(r, 1, k)
  OBVIOUS
<1>7. s \in Seq(Locals) /\ Len(s) = k /\ \A i \in 1 .. k : s[i] = r[i]
  <2>1. 1 \in 1 .. Len(r) + 1 /\ k \in 1 - 1 .. Len(r)
    BY <1>3, <1>5
  <2>2. s \in Seq(Locals) /\ Len(s) = (IF 1 <= k THEN k - 1 + 1 ELSE 0) /\ \A i \in 1 .. k - 1 + 1 : s[i] = r[1 + i - 1]
    BY <1>2, <1>6, <2>1, SubSeqProperties
  <2> QED BY <1>5, <2>2
<1>8. PICK t : t = SubSeq(r, k + 1, Len(r))
  OBVIOUS
<1>9. t \in Seq(Locals)
  <2>1. k + 1 \in 1 .. Len(r) + 1 /\ Len(r) \in (k + 1) - 1 .. Len(r)
    BY <1>3, <1>5
  <2> QED BY <1>2, <1>8, <2>1, SubSeqProperties
<1>10. PICK g : g = [f EXCEPT !.scopeDepth = @ - 1, !.locals = SubSeq(@, 1, k)]
  OBVIOUS
<1>11. /\ g \in CompilersTyped /\ g.scopeDepth = d /\ g.locals = s /\ g.upvalues = f.upvalues
       /\ g.loops = f.loops
  BY <1>1, <1>2, <1>4, <1>6, <1>7, <1>10 DEF CompilersTyped
<1>12. \A i \in 1 .. k : s[i].depth \in 0 .. d /\ \A j \in 1 .. i - 1 : s[j].depth <= s[i].depth
  <2>1. TAKE i \in 1 .. k
  <2>2. i \in 1 .. n /\ s[i] = r[i] /\ r[i].depth \in 0 .. d
    BY <1>5, <1>7
  <2>3. \A j \in 1 .. i - 1 : s[j] = r[j] /\ r[j].depth <= r[i].depth
    BY <1>1, <1>2, <1>3, <1>5, <1>7, <2>2 DEF LocalsOK
  <2> QED BY <2>2, <2>3
<1>13. g \in Sound
  <2>1. 1 \in 1 .. n /\ s[1] = r[1] /\ r[1].depth = 0 /\ n <= LOCAL_MAX
    BY <1>1, <1>2, <1>3, <1>5, <1>7 DEF LocalsOK
  <2>2. LocalsOK(g)
    BY <1>5, <1>7, <1>11, <1>12, <2>1, Bytes_ DEF LocalsOK
  <2> QED BY <1>1, <1>11, <2>2 DEF Sound
<1>14. PICK e : e = [a EXCEPT !.depth = @ - 1]
  OBVIOUS
<1>15. e.depth = d /\ e.loops = a.loops /\ e.pending = "none"
  BY <1>4, <1>14 DEF Situations
<1>16. Fits(g, e)
  <2>1. \A i \in 1 .. Len(g.locals) : g.locals[i].depth # -1
    BY <1>7, <1>11, <1>12
  <2> QED BY <1>11, <1>15, <2>1 DEF Fits
<1>17. Unwind(t) \in Codes
  BY <1>9, UnwindCode
<1>18. PICK c \in Codes : emit(g, Unwind(t)) = WithCode(g, c)
  BY <1>11, <1>17, EmitTyped
<1>19. endScope(f) = WithCode(g, c)
  BY <1>2, <1>5, <1>8, <1>10, <1>18 DEF endScope
<1> QED BY <1>13, <1>14, <1>16, <1>19, Writes

LEMMA endBlockOK == ASSUME CodegenOK, endBlock PROVE CodegenOK'
<1>1. status = "compiling" /\ First.do = "endScope"
  BY DEF endBlock, Doing
<1>2. PICK a, b : Met(a, b)
  BY <1>1, Meeting
<1>3. /\ a \in Situations /\ b \in Situations /\ a.pending = "none" /\ a.depth > 0 /\ b = [a EXCEPT !.depth = @ - 1]
      /\ Fits(Current, a) /\ Current \in Sound
  BY <1>1, <1>2, Meeting DEF Met, Follows
<1>4. b.level = a.level /\ b.classes = a.classes
  BY <1>3 DEF Situations
<1>5. PICK f : f = endScope(Current)
  OBVIOUS
<1>6. f \in Sound /\ Fits(f, b)
  BY <1>3, <1>5, EndSound
<1>7. Now(f) /\ Continue(<<>>) /\ Same
  BY <1>5 DEF endBlock
<1>8. todo' = Tail(todo)
  BY <1>1, <1>7, NothingBefore
<1>9. todo' \in Seq(Items) /\ Runs(compilers, todo', b)
  BY <1>1, <1>2, <1>8, Meeting DEF Met
<1> QED BY <1>1, <1>2, <1>3, <1>4, <1>6, <1>7, <1>9, Progress, BudgetKept DEF Now, Same, Steady, Met, CodegenOK

LEMMA returnStatementOK == ASSUME CodegenOK, returnStatement PROVE CodegenOK'
<1>1. status = "compiling" /\ First.do \in PlainTasks /\ budget' \in 0 .. MaxForms
  BY StatementTasks, BudgetKept DEF returnStatement
<1>2. PICK a : Met(a, a) /\ a.pending = "none"
  BY <1>1, AtPlain
<1>3. a \in Situations /\ Current \in Sound /\ Current \in CompilersTyped
  BY <1>1, <1>2, Meeting DEF Met
<1>4. CASE fail
  BY <1>1, <1>4, FailOK
<1>5. CASE Now(emitReturn(Current)) /\ Continue(<<>>) /\ Steady
  <2>1. <<Op("NIL"), Op("RETURN")>> \in Codes /\ <<Op("GET_LOCAL"), Byte(0), Byte(0), Op("RETURN")>> \in Codes
    <3>1. Op("NIL") \in Cells /\ Op("RETURN") \in Cells /\ Op("GET_LOCAL") \in Cells /\ Byte(0) \in Cells
      BY OpCell, ByteCell, Bytes_ DEF Ops
    <3> QED BY <3>1 DEF Codes
  <2>2. PICK c \in Codes : emitReturn(Current) = WithCode(Current, c)
    BY <1>3, <2>1, EmitTyped DEF emitReturn
  <2>3. Now(WithCode(Current, c)) /\ status' = status /\ classes' = classes
    BY <1>5, <2>2 DEF Steady
  <2>4. todo' = Tail(todo)
    BY <1>1, <1>5, NothingBefore
  <2>5. todo' \in Seq(Items) /\ Runs(compilers, todo', a)
    BY <1>1, <1>2, <2>4, Meeting DEF Met
  <2> QED BY <1>1, <1>2, <2>3, <2>5, Writing
<1>6. CASE Continue(<<Expression, Emit(<<Op("RETURN")>>)>>) /\ Steady /\ compilers' = compilers
  <2>1. PICK x, y : x = Expression /\ y = Emit(<<Op("RETURN")>>)
    OBVIOUS
  <2>2. x \in Items /\ x.do \in ExpressionTasks /\ y \in Items /\ y.do \in ExpressionTasks
    <3>1. <<Op("RETURN")>> \in Codes
      BY OpCode DEF Ops
    <3> QED BY <2>1, <3>1, ExpressionMade, EmitMade DEF ExpressionTasks
  <2>3. Follows(compilers, a, x, a) /\ Follows(compilers, a, y, a)
    BY <2>2, ExpressionFollows
  <2>4. Continue(<<x, y>>)
    BY <1>6, <2>1
  <2>5. todo' \in Seq(Items) /\ Runs(compilers, todo', a)
    BY <1>1, <1>2, <1>3, <2>2, <2>3, <2>4, Continues
  <2> QED BY <1>1, <1>2, <1>6, <2>5, Waiting DEF Steady
<1> QED BY <1>4, <1>5, <1>6 DEF returnStatement

----------------------------------------------------------------------------
(* Loops. *)

LEMMA Pair ==
  ASSUME NEW x \in Items, NEW y \in Items, NEW z \in Items
  PROVE  <<>> \o <<x>> = <<x>> /\ <<x>> \o <<y>> = <<x, y>> /\ <<x, y>> \o <<z>> = <<x, y, z>>
<1>1. \A i \in Items : <<i>> \in Seq(Items) /\ Len(<<i>>) = 1 /\ <<i>>[1] = i
  OBVIOUS
<1>2. <<>> \o <<x>> = <<x>>
  BY <1>1, ConcatEmptySeq
<1>3. \A i, j \in Items : <<i, j>> = <<i>> \o <<j>>
  <2>1. TAKE i, j \in Items
  <2>2. PICK q, r : q = <<i, j>> /\ r = <<j>>
    OBVIOUS
  <2>3. q \in Seq(Items) /\ r \in Seq(Items) /\ Len(q) = 2 /\ Len(r) = 1 /\ q[1] = i /\ q[2] = j /\ r[1] = j
    BY <2>2
  <2>4. Len(q) = Len(r) + 1 /\ \A k \in 1 .. Len(r) : q[k + 1] = r[k]
    BY <2>3
  <2> QED BY <2>2, <2>3, <2>4, FirstApart
<1>4. <<x, y, z>> = <<x>> \o <<y, z>>
  <2>1. PICK q, r : q = <<x, y, z>> /\ r = <<y, z>>
    OBVIOUS
  <2>2. /\ q \in Seq(Items) /\ r \in Seq(Items) /\ Len(q) = 3 /\ Len(r) = 2
        /\ q[1] = x /\ q[2] = y /\ q[3] = z /\ r[1] = y /\ r[2] = z
    BY <2>1
  <2>3. Len(q) = Len(r) + 1 /\ \A k \in 1 .. Len(r) : q[k + 1] = r[k]
    BY <2>2
  <2> QED BY <2>1, <2>2, <2>3, FirstApart
<1>5. <<x, y>> \o <<z>> = <<x>> \o (<<y>> \o <<z>>)
  BY <1>1, Split2
<1>6. <<y, z>> = <<y>> \o <<z>> /\ <<x, y>> = <<x>> \o <<y>>
  BY <1>3
<1> QED BY <1>2, <1>4, <1>5, <1>6

LEMMA ItemTurned ==
  ASSUME NEW i \in Items, NEW do \in Bare
  PROVE  /\ [i EXCEPT !.do = do] \in Items /\ [i EXCEPT !.do = do].do = do
         /\ \A n \in Int : /\ [i EXCEPT !.do = do, !.exit = n] \in Items /\ [i EXCEPT !.do = do, !.exit = n].do = do
                           /\ [i EXCEPT !.do = do, !.at = n, !.code = <<>>] \in Items
                           /\ [i EXCEPT !.do = do, !.at = n, !.code = <<>>].do = do
<1>1. do \in Tasks /\ do \notin {"emit", "access", "forLoop", "named", "function", "shortcut"}
  BY DEF Bare
<1>2. i \in ItemRecords /\ <<>> \in Codes
  BY Codes_ DEF Items
<1> HIDE DEF Codes, Identifiers, FunctionTypes, Ops, Tasks
<1>3. [i EXCEPT !.do = do] \in ItemRecords /\ [i EXCEPT !.do = do].do = do
  BY <1>1, <1>2 DEF ItemRecords
<1>4. ASSUME NEW n \in Int
      PROVE  /\ [i EXCEPT !.do = do, !.exit = n] \in ItemRecords /\ [i EXCEPT !.do = do, !.exit = n].do = do
             /\ [i EXCEPT !.do = do, !.at = n, !.code = <<>>] \in ItemRecords
             /\ [i EXCEPT !.do = do, !.at = n, !.code = <<>>].do = do
  BY <1>1, <1>2 DEF ItemRecords
<1> QED BY <1>1, <1>3, <1>4 DEF Items, Details

LEMMA LoopMade ==
  ASSUME NEW i \in Items, NEW n \in Int
  PROVE  [i EXCEPT !.do = "forLoop", !.code = n] \in Items /\ [i EXCEPT !.do = "forLoop", !.code = n].do = "forLoop"
<1>1. PICK j : j = [i EXCEPT !.do = "forLoop", !.code = n]
  OBVIOUS
<1>2. i \in ItemRecords /\ "forLoop" \in Tasks
  BY DEF Items, Tasks, ForTasks
<1>3. j \in ItemRecords /\ j.do = "forLoop" /\ j.code = n
  <2> HIDE DEF Codes, Identifiers, FunctionTypes, Ops, Tasks
  <2> QED BY <1>1, <1>2 DEF ItemRecords
<1> QED BY <1>1, <1>3 DEF Items, Details

LEMMA ForBare == ForTasks \ {"forLoop"} \subseteq Bare /\ "forEnds" \in Bare
BY DEF ForTasks, Bare, Tasks

(* The tasks of a loop, in the scope of its variables. *)
LEMMA AtLoop ==
  ASSUME CodegenOK, status = "compiling", First.do \in ForTasks
  PROVE  \E a, b : /\ Met(a, b) /\ a \in Situations /\ b \in Situations
                   /\ a.pending = "none" /\ a.depth > 0 /\ b = [a EXCEPT !.depth = @ - 1]
<1>1. PICK a, b : Met(a, b)
  BY Meeting
<1> QED BY <1>1 DEF Met, Follows

LEMMA LoopFollows ==
  ASSUME NEW cs, NEW a, a.pending = "none", a.depth > 0, NEW x, x.do \in ForTasks
  PROVE  Follows(cs, a, x, [a EXCEPT !.depth = @ - 1])
BY DEF Follows, ExpressionTasks, Terminators, PlainTasks, ForTasks

LEMMA forStatementOK == ASSUME CodegenOK, forStatement PROVE CodegenOK'
<1>1. status = "compiling" /\ First.do \in PlainTasks /\ budget' \in 0 .. MaxForms
  BY StatementTasks, BudgetKept DEF forStatement
<1>2. PICK a : Met(a, a) /\ a.pending = "none"
  BY <1>1, AtPlain
<1>3. a \in Situations /\ Fits(Current, a) /\ Current \in Sound
  BY <1>1, <1>2, Meeting DEF Met
<1>4. PICK f, e : f = beginScope(Current) /\ e = [a EXCEPT !.depth = @ + 1]
  OBVIOUS
<1>5. f \in Sound /\ Fits(f, e)
  BY <1>2, <1>3, <1>4, ScopeSound
<1>6. /\ e \in Situations /\ e.level = a.level /\ e.classes = a.classes /\ e.depth > 0
      /\ e.pending = "none" /\ [e EXCEPT !.depth = @ - 1] = a
  BY <1>2, <1>3, <1>4, Deeper
<1>7. PICK v, x, p, c : v = Item("forVariable") /\ x = Expression /\ p = Emit(<<Op("POP")>>) /\ c = Item("forCondition")
  OBVIOUS
<1>8. /\ v \in Items /\ v.do \in PlainTasks /\ c \in Items /\ c.do \in ForTasks
      /\ x \in Items /\ x.do \in ExpressionTasks /\ p \in Items /\ p.do \in ExpressionTasks
  <2>1. "forVariable" \in PlainTasks
    BY DEF PlainTasks
  <2>2. "forCondition" \in Bare /\ "forCondition" \in ForTasks
    BY ForBare DEF ForTasks
  <2>3. c \in Items /\ c.do \in ForTasks
    BY <1>7, <2>2, ItemMade
  <2>4. v \in Items /\ v.do \in PlainTasks
    BY <1>7, <2>1, PlainMade
  <2> QED BY <1>7, <2>3, <2>4, ExpressionMade, PopMade
<1>9. /\ Follows(compilers, e, v, e) /\ Follows(compilers, e, x, e) /\ Follows(compilers, e, p, e)
      /\ Follows(compilers, e, c, a)
  <2>1. Follows(compilers, e, c, a)
    BY <1>6, <1>8, LoopFollows
  <2> QED BY <1>6, <1>8, <2>1, ExpressionFollows, PlainFollows
<1>10. Continue(<<c>>) \/ Continue(<<v, c>>) \/ Continue(<<x, p, c>>)
  <2>1. \E init \in {<<>>, <<v>>, <<x, p>>} : Continue(init \o <<c>>)
    BY <1>7 DEF forStatement
  <2>2. <<>> \o <<c>> = <<c>> /\ <<v>> \o <<c>> = <<v, c>> /\ <<x, p>> \o <<c>> = <<x, p, c>>
    BY <1>8, Pair
  <2> QED BY <2>1, <2>2
<1>11. Now(f) /\ Steady
  BY <1>4 DEF forStatement
<1>12. todo' \in Seq(Items) /\ Runs(compilers, todo', e)
  BY <1>1, <1>2, <1>3, <1>6, <1>8, <1>9, <1>10, Continues
<1> QED BY <1>1, <1>2, <1>5, <1>6, <1>11, <1>12, Progress DEF Now, Steady, Met, CodegenOK

LEMMA forConditionOK == ASSUME CodegenOK, forCondition PROVE CodegenOK'
<1>1. status = "compiling" /\ First.do \in ForTasks
  BY DEF forCondition, Doing, ForTasks
<1>2. PICK a, b : /\ Met(a, b) /\ a \in Situations /\ b \in Situations
                  /\ a.pending = "none" /\ a.depth > 0 /\ b = [a EXCEPT !.depth = @ - 1]
  BY <1>1, AtLoop
<1>3. PICK at \in Int : at = Count(Current)
  BY <1>1, JumpOperands
<1>4. PICK i, x, c : i = [Item("forIncrement") EXCEPT !.at = at] /\ x = Expression /\ c = [Item("forExit") EXCEPT !.at = at]
  OBVIOUS
<1>5. i \in Items /\ i.do \in ForTasks /\ x \in Items /\ x.do \in ExpressionTasks /\ c \in Items /\ c.do \in ForTasks
  <2>1. {"forIncrement", "forExit"} \subseteq Bare /\ {"forIncrement", "forExit"} \subseteq ForTasks
    BY ForBare DEF ForTasks
  <2> QED BY <1>4, <2>1, ItemAt, ExpressionMade
<1>6. Follows(compilers, a, i, b) /\ Follows(compilers, a, x, a) /\ Follows(compilers, a, c, b)
  BY <1>2, <1>5, LoopFollows, ExpressionFollows
<1>7. (Continue(<<i>>) \/ Continue(<<x, c>>)) /\ Same /\ compilers' = compilers
  BY <1>3, <1>4 DEF forCondition
<1>8. todo' \in Seq(Items) /\ Runs(compilers, todo', a)
  BY <1>1, <1>2, <1>5, <1>6, <1>7, Continues
<1> QED BY <1>1, <1>2, <1>7, <1>8, Waiting, BudgetKept DEF Same, Steady

LEMMA forExitOK == ASSUME CodegenOK, forExit PROVE CodegenOK'
<1>1. status = "compiling" /\ First.do \in ForTasks
  BY DEF forExit, Doing, ForTasks
<1>2. PICK a, b : /\ Met(a, b) /\ a \in Situations /\ b \in Situations
                  /\ a.pending = "none" /\ a.depth > 0 /\ b = [a EXCEPT !.depth = @ - 1]
  BY <1>1, AtLoop
<1>3. PICK at \in Int : at = JumpOperand(Current)
  BY <1>1, JumpOperands
<1>4. PICK i : i = [First EXCEPT !.do = "forIncrement", !.exit = at]
  OBVIOUS
<1>5. i \in Items /\ i.do \in ForTasks
  <2>1. "forIncrement" \in Bare /\ "forIncrement" \in ForTasks
    BY ForBare DEF ForTasks
  <2>2. First \in Items
    BY <1>1, Meeting
  <2>3. i \in Items /\ i.do = "forIncrement"
    BY Zenon, <1>4, <2>1, <2>2, ItemTurned
  <2> QED BY <2>1, <2>3
<1>6. Follows(compilers, a, i, b)
  BY <1>2, <1>5, LoopFollows
<1>7. PICK c \in Codes : emitJump(Current, ExitJump) = WithCode(Current, c)
  BY <1>1, Meeting, EmitJumpTyped DEF Ops, ExitJump
<1>8. Continue(<<i>>) /\ Same /\ Now(WithCode(Current, c))
  BY <1>3, <1>4, <1>7 DEF forExit
<1>9. todo' \in Seq(Items) /\ Runs(compilers, todo', a)
  BY <1>1, <1>2, <1>5, <1>6, <1>8, Continues
<1> QED BY <1>1, <1>2, <1>8, <1>9, Writing, BudgetKept DEF Same, Steady

LEMMA forIncrementOK == ASSUME CodegenOK, forIncrement PROVE CodegenOK'
<1>1. status = "compiling" /\ First.do \in ForTasks
  BY DEF forIncrement, Doing, ForTasks
<1>2. PICK a, b : /\ Met(a, b) /\ a \in Situations /\ b \in Situations
                  /\ a.pending = "none" /\ a.depth > 0 /\ b = [a EXCEPT !.depth = @ - 1]
  BY <1>1, AtLoop
<1>3. Same /\ budget' \in 0 .. MaxForms
  BY BudgetKept DEF forIncrement, Same
<1>4. CASE Continue(<<[First EXCEPT !.do = "forBody"]>>) /\ UNCHANGED compilers
  <2>1. PICK i : i = [First EXCEPT !.do = "forBody"]
    OBVIOUS
  <2>2. i \in Items /\ i.do \in ForTasks
    <3>1. "forBody" \in Bare /\ "forBody" \in ForTasks
      BY ForBare DEF ForTasks
    <3> QED BY <1>1, <2>1, <3>1, ItemTurned, Meeting
  <2>3. Follows(compilers, a, i, b) /\ Continue(<<i>>)
    BY <1>2, <1>4, <2>1, <2>2, LoopFollows
  <2>4. todo' \in Seq(Items) /\ Runs(compilers, todo', a)
    BY <1>1, <1>2, <2>2, <2>3, Continues
  <2> QED BY <1>1, <1>2, <1>3, <1>4, <2>4, Waiting DEF Same, Steady
<1>5. CASE /\ Now(emitJump(Current, "JUMP"))
           /\ Continue(<<Expression, Emit(<<Op("POP")>>), [First EXCEPT !.do = "forLoop", !.code = JumpOperand(Current)]>>)
  <2>1. PICK at \in Int : at = JumpOperand(Current)
    BY <1>1, JumpOperands
  <2>2. PICK x, p, i : x = Expression /\ p = Emit(<<Op("POP")>>) /\ i = [First EXCEPT !.do = "forLoop", !.code = at]
    OBVIOUS
  <2>3. x \in Items /\ x.do \in ExpressionTasks /\ p \in Items /\ p.do \in ExpressionTasks /\ i \in Items /\ i.do \in ForTasks
    BY <1>1, <2>2, LoopMade, Meeting, ExpressionMade, PopMade DEF ForTasks
  <2>4. Follows(compilers, a, x, a) /\ Follows(compilers, a, p, a) /\ Follows(compilers, a, i, b)
    BY <1>2, <2>3, LoopFollows, ExpressionFollows
  <2>5. Continue(<<x, p, i>>)
    BY <1>5, <2>1, <2>2
  <2>6. todo' \in Seq(Items) /\ Runs(compilers, todo', a)
    BY <1>1, <1>2, <2>3, <2>4, <2>5, Continues
  <2>7. PICK c \in Codes : emitJump(Current, "JUMP") = WithCode(Current, c)
    BY <1>1, Meeting, EmitJumpTyped DEF Ops
  <2>8. Now(WithCode(Current, c))
    BY <1>5, <2>7
  <2> QED BY <1>1, <1>2, <1>3, <2>6, <2>8, Writing DEF Same, Steady
<1> QED BY <1>4, <1>5 DEF forIncrement

LEMMA forLoopOK == ASSUME CodegenOK, forLoop PROVE CodegenOK'
<1>1. status = "compiling" /\ First.do = "forLoop" /\ First.do \in ForTasks /\ NoRule
  BY DEF forLoop, Doing, ForTasks
<1>2. PICK a, b : /\ Met(a, b) /\ a \in Situations /\ b \in Situations
                  /\ a.pending = "none" /\ a.depth > 0 /\ b = [a EXCEPT !.depth = @ - 1]
  BY <1>1, AtLoop
<1>3. PICK jump \in Int : jump = First.code
  BY <1>1, Meeting DEF Items, Details
<1>4. First \in Items /\ First.at \in Int /\ Current \in CompilersTyped
  BY <1>1, Meeting DEF Items, ItemRecords
<1>5. PICK f : f = emitLoop(Current, First.at)
  OBVIOUS
<1>6. CASE TooFar(LoopDistance(Current, First.at)) \/ TooFar(Distance(f, jump))
  BY <1>1, <1>3, <1>5, <1>6, FailOK, BudgetKept DEF forLoop
<1>7. CASE ~(TooFar(LoopDistance(Current, First.at)) \/ TooFar(Distance(f, jump)))
  <2>1. PICK c \in Codes : f = WithCode(Current, c)
    BY <1>4, <1>5, <1>7, EmitLoopTyped
  <2>2. f \in CompilersTyped
    BY <1>4, <2>1, WithCodeTyped
  <2>3. PICK d \in Codes : patchJump(f, jump) = WithCode(f, d)
    BY <1>7, <2>2, PatchTyped
  <2>4. WithCode(f, d) = WithCode(Current, d)
    BY <1>4, <2>1, WithCodeTyped
  <2>5. PICK at \in Int : at = jump + 2
    OBVIOUS
  <2>6. PICK i : i = [First EXCEPT !.do = "forBody", !.at = at, !.code = <<>>]
    OBVIOUS
  <2>7. i \in Items /\ i.do \in ForTasks
    <3>1. "forBody" \in Bare /\ "forBody" \in ForTasks
      BY ForBare DEF ForTasks
    <3> QED BY <1>4, <2>6, <3>1, ItemTurned
  <2>8. Follows(compilers, a, i, b)
    BY <1>2, <2>7, LoopFollows
  <2>9. Now(WithCode(Current, d)) /\ Continue(<<i>>) /\ Steady
    BY <1>3, <1>5, <1>7, <2>3, <2>4, <2>5, <2>6 DEF forLoop
  <2>10. todo' \in Seq(Items) /\ Runs(compilers, todo', a)
    BY <1>1, <1>2, <2>7, <2>8, <2>9, Continues
  <2> QED BY <1>1, <1>2, <2>9, <2>10, Writing, BudgetKept DEF Steady
<1> QED BY <1>6, <1>7

LEMMA LoopsSound ==
  ASSUME NEW f \in Sound, NEW s \in Seq(Loops)
  PROVE  /\ [f EXCEPT !.loops = s] \in Sound
         /\ [f EXCEPT !.loops = s].loops = s /\ [f EXCEPT !.loops = s].code = f.code
         /\ \A a, e : Fits(f, a) /\ e.depth = a.depth /\ e.pending = a.pending /\ e.loops = Len(s)
                        => Fits([f EXCEPT !.loops = s], e)
<1>1. PICK g : g = [f EXCEPT !.loops = s]
  OBVIOUS
<1>2. f \in CompilersTyped /\ LocalsOK(f) /\ Len(f.upvalues) <= UPVALUE_MAX
  BY DEF Sound
<1>3. /\ g \in CompilersTyped /\ g.scopeDepth = f.scopeDepth /\ g.loops = s /\ g.upvalues = f.upvalues
      /\ g.locals = f.locals /\ g.code = f.code
  BY <1>1, <1>2 DEF CompilersTyped
<1>4. g \in Sound /\ \A a, e : Fits(f, a) /\ e.depth = a.depth /\ e.pending = a.pending /\ e.loops = Len(s) => Fits(g, e)
  BY <1>2, <1>3 DEF Sound, LocalsOK, Fits, Last
<1> QED BY <1>1, <1>3, <1>4

LEMMA forBodyOK == ASSUME CodegenOK, forBody PROVE CodegenOK'
<1>1. status = "compiling" /\ First.do \in ForTasks
  BY DEF forBody, Doing, ForTasks
<1>2. PICK a, b : /\ Met(a, b) /\ a \in Situations /\ b \in Situations
                  /\ a.pending = "none" /\ a.depth > 0 /\ b = [a EXCEPT !.depth = @ - 1]
  BY <1>1, AtLoop
<1>3. First \in Items /\ First.at \in Int /\ Current \in Sound /\ Current \in CompilersTyped /\ Fits(Current, a)
  BY <1>1, <1>2, Meeting DEF Met, Items, ItemRecords
<1>4. PICK n \in Nat : n = Len(Current.locals)
  BY <1>3, LenProperties DEF CompilersTyped
<1>5. PICK u : u = [start |-> First.at, enterParamCount |-> n, breakJumps |-> <<>>]
  OBVIOUS
<1>6. u \in Loops
  BY <1>3, <1>5 DEF Loops
<1>7. PICK r : r = Current.loops /\ r \in Seq(Loops)
  BY <1>3 DEF CompilersTyped
<1>8. PICK s : s = Append(r, u)
  OBVIOUS
<1>9. s \in Seq(Loops) /\ Len(s) = Len(r) + 1
  BY <1>6, <1>7, <1>8, AppendProperties
<1>10. PICK g, e : g = [Current EXCEPT !.loops = s] /\ e = [a EXCEPT !.loops = @ + 1]
  OBVIOUS
<1>11. /\ e \in Situations /\ e.level = a.level /\ e.classes = a.classes /\ e.depth = a.depth
       /\ e.loops = a.loops + 1 /\ e.pending = "none" /\ e.loops > 0
       /\ [e EXCEPT !.depth = @ - 1, !.loops = @ - 1] = b
  BY <1>2, <1>10, Deeper
<1>12. g \in Sound /\ Fits(g, e)
  <2>1. Len(r) = a.loops
    BY <1>3, <1>7 DEF Fits
  <2>2. e.loops = Len(s) /\ e.pending = a.pending
    BY <1>2, <1>9, <1>11, <2>1
  <2> QED BY <1>3, <1>9, <1>10, <1>11, <2>2, LoopsSound
<1>13. PICK x, y : x = Item("statement") /\ y = [First EXCEPT !.do = "forEnds"]
  OBVIOUS
<1>14. x \in Items /\ x.do \in PlainTasks /\ y \in Items /\ y.do = "forEnds"
  <2>1. "statement" \in PlainTasks /\ "forEnds" \in Bare
    BY ForBare DEF PlainTasks
  <2>2. x \in Items /\ x.do \in PlainTasks
    BY <1>13, <2>1, PlainMade
  <2>3. y \in Items /\ y.do = "forEnds"
    BY <1>3, <1>13, <2>1, ItemTurned
  <2> QED BY <2>2, <2>3
<1>15. Follows(compilers, e, x, e) /\ Follows(compilers, e, y, b)
  <2>1. Follows(compilers, e, y, b)
    <3>1. b.level = e.level
      BY <1>2, <1>11 DEF Situations
    <3> QED BY <1>2, <1>11, <1>14, <3>1 DEF Follows, ExpressionTasks, Terminators, PlainTasks, ForTasks
  <2> QED BY <1>11, <1>14, <2>1, PlainFollows
<1>16. Now(g) /\ Continue(<<x, y>>) /\ Same
  BY <1>4, <1>5, <1>7, <1>8, <1>10, <1>13 DEF forBody
<1>17. todo' \in Seq(Items) /\ Runs(compilers, todo', e)
  BY <1>1, <1>2, <1>11, <1>14, <1>15, <1>16, Continues
<1> QED BY <1>1, <1>2, <1>11, <1>12, <1>16, <1>17, Progress, BudgetKept DEF Now, Same, Steady, Met, CodegenOK

LEMMA AtLoops ==
  ASSUME NEW f \in CompilersTyped, f.loops # <<>>
  PROVE  /\ Len(f.loops) \in Nat /\ Len(f.loops) \in 1 .. Len(f.loops)
         /\ f.loops[Len(f.loops)] \in Loops
<1>1. PICK r : r = f.loops /\ r \in Seq(Loops)
  BY DEF CompilersTyped
<1>2. Len(r) \in Nat /\ Len(r) # 0
  BY <1>1, LenProperties, EmptySeq
<1> QED BY <1>1, <1>2, ElementOfSeq

LEMMA LeaveLoopCode ==
  ASSUME CodegenOK, status = "compiling", Current.loops # <<>>
  PROVE  InnermostLoop \in Loops /\ \E c \in Codes : LeaveLoop = WithCode(Current, c)
<1>1. Current \in CompilersTyped
  BY Meeting
<1>2. InnermostLoop \in Loops
  BY <1>1, AtLoops DEF InnermostLoop
<1>3. PICK k \in Int : k = Len(Current.locals) - InnermostLoop.enterParamCount
  <2>1. Len(Current.locals) \in Nat
    BY <1>1, LenProperties DEF CompilersTyped
  <2>2. InnermostLoop.enterParamCount \in Int
    BY <1>2 DEF Loops
  <2> QED BY <2>1, <2>2
<1>4. emitPopCount(k) \in Codes
  BY PopCountCode
<1>5. PICK c \in Codes : emit(Current, emitPopCount(k)) = WithCode(Current, c)
  BY <1>1, <1>4, EmitTyped
<1> QED BY <1>2, <1>3, <1>5 DEF LeaveLoop

LEMMA breakStatementOK == ASSUME CodegenOK, breakStatement PROVE CodegenOK'
<1>1. status = "compiling" /\ First.do \in PlainTasks /\ budget' \in 0 .. MaxForms
  BY StatementTasks, BudgetKept DEF breakStatement
<1>2. PICK a : Met(a, a) /\ a.pending = "none"
  BY <1>1, AtPlain
<1>3. Current \in Sound /\ Current \in CompilersTyped /\ Fits(Current, a) /\ a \in Situations
  BY <1>1, <1>2, Meeting DEF Met
<1>4. CASE Current.loops = <<>>
  BY <1>1, <1>4, FailOK DEF breakStatement
<1>5. CASE Current.loops # <<>>
  <2>1. PICK c \in Codes : LeaveLoop = WithCode(Current, c)
    BY <1>1, <1>5, LeaveLoopCode
  <2>2. PICK f : f = WithCode(Current, c)
    OBVIOUS
  <2>3. f \in CompilersTyped
    BY <1>3, <2>2, WithCodeTyped
  <2>4. PICK d \in Codes : emitJump(f, "JUMP") = WithCode(f, d)
    BY <2>3, EmitJumpTyped DEF Ops
  <2>5. PICK g : g = WithCode(Current, d)
    OBVIOUS
  <2>6. WithCode(f, d) = g /\ g.loops = Current.loops
    BY <1>3, <2>2, <2>5, WithCodeTyped
  <2>7. g \in Sound /\ Fits(g, a)
    BY <1>3, <2>5, Writes
  <2>8. PICK j \in Int : j = JumpOperand(f)
    BY <2>3, Counts DEF JumpOperand
  <2>9. PICK r, n : r = Current.loops /\ n = Len(Current.loops)
    OBVIOUS
  <2>10. r \in Seq(Loops) /\ n = Len(r) /\ n \in 1 .. n /\ r[n] \in Loops
    BY <1>3, <1>5, <2>9, AtLoops DEF CompilersTyped
  <2>11. PICK u : u = [r[n] EXCEPT !.breakJumps = Append(@, j)]
    OBVIOUS
  <2>12. u \in Loops
    <3>1. PICK v, q : v = r[n] /\ q = Append(v.breakJumps, j)
      OBVIOUS
    <3>2. v \in Loops /\ q \in Seq(Int)
      BY <2>10, <3>1, AppendProperties DEF Loops
    <3> QED BY <2>11, <3>1, <3>2 DEF Loops
  <2>13. PICK s : s = [r EXCEPT ![n] = u]
    OBVIOUS
  <2>14. s \in Seq(Loops) /\ Len(s) = n
    BY <2>10, <2>12, <2>13, ExceptSeq
  <2>15. PICK h : h = [g EXCEPT !.loops = s]
    OBVIOUS
  <2>16. h \in Sound /\ Fits(h, a)
    <3>1. a.loops = Len(s)
      BY <1>3, <2>9, <2>14 DEF Fits
    <3> QED BY <2>7, <2>14, <2>15, <3>1, LoopsSound
  <2>17. Now(h) /\ Continue(<<>>) /\ Steady
    <3>1. [emitJump(LeaveLoop, "JUMP") EXCEPT !.loops[Len(Current.loops)].breakJumps = Append(@, JumpOperand(LeaveLoop))] = h
      BY <2>1, <2>2, <2>4, <2>6, <2>8, <2>9, <2>11, <2>13, <2>15
    <3> QED BY <1>5, <3>1 DEF breakStatement
  <2>18. todo' = Tail(todo)
    BY <1>1, <2>17, NothingBefore
  <2>19. todo' \in Seq(Items) /\ Runs(compilers, todo', a)
    BY <1>1, <1>2, <2>18, Meeting DEF Met
  <2> QED BY <1>1, <1>2, <2>16, <2>17, <2>19, Progress DEF Now, Steady, Met, CodegenOK
<1> QED BY <1>4, <1>5

LEMMA continueStatementOK == ASSUME CodegenOK, continueStatement PROVE CodegenOK'
<1>1. status = "compiling" /\ First.do \in PlainTasks /\ budget' \in 0 .. MaxForms
  BY StatementTasks, BudgetKept DEF continueStatement
<1>2. PICK a : Met(a, a) /\ a.pending = "none"
  BY <1>1, AtPlain
<1>3. Current \in Sound /\ Current \in CompilersTyped
  BY <1>1, Meeting
<1>4. CASE Current.loops = <<>> \/ TooFar(LoopDistance(LeaveLoop, InnermostLoop.start))
  BY <1>1, <1>4, FailOK DEF continueStatement
<1>5. CASE ~(Current.loops = <<>> \/ TooFar(LoopDistance(LeaveLoop, InnermostLoop.start)))
  <2>1. PICK c \in Codes : LeaveLoop = WithCode(Current, c)
    BY <1>1, <1>5, LeaveLoopCode
  <2>2. PICK f, start : f = WithCode(Current, c) /\ start = InnermostLoop.start
    OBVIOUS
  <2>3. f \in CompilersTyped /\ start \in Int
    BY <1>1, <1>3, <1>5, <2>2, WithCodeTyped, LeaveLoopCode DEF Loops
  <2>4. PICK d \in Codes : emitLoop(f, start) = WithCode(f, d)
    BY <1>5, <2>1, <2>2, <2>3, EmitLoopTyped
  <2>5. WithCode(f, d) = WithCode(Current, d)
    BY <1>3, <2>2, WithCodeTyped
  <2>6. Now(WithCode(Current, d)) /\ Continue(<<>>) /\ Steady
    BY <1>5, <2>1, <2>2, <2>4, <2>5 DEF continueStatement
  <2>7. todo' = Tail(todo)
    BY <1>1, <2>6, NothingBefore
  <2>8. todo' \in Seq(Items) /\ Runs(compilers, todo', a)
    BY <1>1, <1>2, <2>7, Meeting DEF Met
  <2> QED BY <1>1, <1>2, <2>6, <2>8, Writing DEF Steady
<1> QED BY <1>4, <1>5

LEMMA forEndsIs ==
  ASSUME forEnds
  PROVE  LET n == Len(Current.loops)
             f == emitLoop([Current EXCEPT !.loops = SubSeq(@, 1, n - 1)], First.at)
             breaks == Current.loops[n].breakJumps
             exits == IF First.exit = NoJump THEN breaks ELSE <<First.exit>> \o breaks
         IN  IF \/ TooFar(LoopDistance(Current, First.at))
                \/ \E i \in DOMAIN exits : TooFar(Distance(f, exits[i]))
               THEN fail
               ELSE Now(endScope(Patched(f, exits)[Len(exits)])) /\ Continue(<<>>) /\ Steady
BY Zenon DEF forEnds, Patched, PatchedBy

(* What forEnds leaves when no jump is too far. *)
LoopEnded(s, c) ==
  /\ Len(s) = Len(Current.loops) - 1
  /\ Now(endScope(WithCode([Current EXCEPT !.loops = s], c))) /\ Continue(<<>>) /\ Steady

LEMMA forEndsWrites ==
  ASSUME CodegenOK, forEnds
  PROVE  fail \/ \E s \in Seq(Loops), c \in Codes : LoopEnded(s, c)
<1>1. status = "compiling" /\ First.do = "forEnds"
  BY DEF forEnds, Doing
<1>2. PICK a, b : Met(a, b)
  BY <1>1, Meeting
<1>3. /\ a \in Situations /\ b \in Situations /\ a.pending = "none" /\ a.depth > 0 /\ a.loops > 0
      /\ Fits(Current, a)
  BY <1>1, <1>2 DEF Met, Follows
<1>4. First \in Items /\ First.at \in Int /\ First.exit \in Int /\ Current \in Sound /\ Current \in CompilersTyped
  BY <1>1, Meeting DEF Items, ItemRecords
<1>5. PICK r, n : r = Current.loops /\ n = Len(Current.loops)
  OBVIOUS
<1>6. r \in Seq(Loops) /\ n = Len(r) /\ n = a.loops /\ n \in Nat /\ n > 0 /\ r[n] \in Loops
  <2>1. r \in Seq(Loops)
    BY <1>4, <1>5 DEF CompilersTyped
  <2>2. n = a.loops /\ n \in Nat
    BY <1>3, <1>5 DEF Fits, Situations
  <2>3. n \in 1 .. Len(r)
    BY <1>3, <1>5, <2>2
  <2> QED BY <1>3, <1>5, <2>1, <2>2, <2>3, ElementOfSeq
<1>7. PICK s : s = SubSeq(r, 1, n - 1)
  OBVIOUS
<1>8. s \in Seq(Loops) /\ Len(s) = n - 1
  <2>0. PICK m \in Nat : m = n - 1
    BY <1>6
  <2>1. \A i \in 1 .. m : r[i] \in Loops
    <3>1. TAKE i \in 1 .. m
    <3>2. i \in 1 .. Len(r)
      BY <1>6, <2>0
    <3> QED BY <1>6, <3>2, ElementOfSeq
  <2>2. s = SubSeq(r, 1, m)
    BY <1>7, <2>0
  <2>3. s \in Seq(Loops) /\ Len(s) = (IF 1 <= m THEN m - 1 + 1 ELSE 0)
    BY <1>6, <2>1, <2>2, SubSeqProperties
  <2> QED BY <1>6, <2>0, <2>3
<1>9. PICK h : h = [Current EXCEPT !.loops = s]
  OBVIOUS
<1>10. h \in CompilersTyped /\ h.code = Current.code
  BY <1>4, <1>8, <1>9 DEF CompilersTyped
<1>11. PICK breaks : breaks = r[n].breakJumps /\ breaks \in Seq(Int)
  BY <1>6 DEF Loops
<1>12. PICK exits : exits = IF First.exit = NoJump THEN breaks ELSE <<First.exit>> \o breaks
  OBVIOUS
<1>13. exits \in Seq(Int)
  <2>1. <<First.exit>> \in Seq(Int)
    BY <1>4
  <2> QED BY <1>11, <1>12, <2>1, ConcatProperties
<1>14. PICK f : f = emitLoop(h, First.at)
  OBVIOUS
<1>15. CASE TooFar(LoopDistance(Current, First.at)) \/ \E i \in DOMAIN exits : TooFar(Distance(f, exits[i]))
  BY <1>5, <1>7, <1>9, <1>11, <1>12, <1>14, <1>15 DEF forEnds
<1>16. CASE ~(TooFar(LoopDistance(Current, First.at)) \/ \E i \in DOMAIN exits : TooFar(Distance(f, exits[i])))
  <2>1. LoopDistance(h, First.at) = LoopDistance(Current, First.at)
    BY <1>10 DEF LoopDistance, Count
  <2>2. PICK c \in Codes : f = WithCode(h, c)
    BY <1>4, <1>10, <1>14, <1>16, <2>1, EmitLoopTyped
  <2>3. f \in CompilersTyped
    BY <1>10, <2>2, WithCodeTyped
  <2>4. PICK p : p = Patched(f, exits)[Len(exits)]
    OBVIOUS
  <2>5. p \in Rewritten(f)
    BY <1>13, <1>16, <2>3, <2>4, PatchedTyped
  <2>6. PICK d \in Codes : p = WithCode(f, d)
    BY <2>5 DEF Rewritten
  <2>7. p = WithCode(h, d)
    BY <1>10, <2>2, <2>6, WithCodeTyped
  <2>8. Now(endScope(p)) /\ Continue(<<>>) /\ Steady
    BY <1>5, <1>7, <1>9, <1>11, <1>12, <1>14, <1>16, <2>4, forEndsIs
  <2>9. LoopEnded(s, d)
    BY <1>5, <1>8, <1>9, <2>7, <2>8 DEF LoopEnded
  <2> QED BY <1>8, <2>9
<1> QED BY <1>15, <1>16

LEMMA forEndsOK == ASSUME CodegenOK, forEnds PROVE CodegenOK'
<1>1. status = "compiling" /\ First.do = "forEnds" /\ NoRule
  BY DEF forEnds, Doing
<1>2. PICK a, b : Met(a, b)
  BY <1>1, Meeting
<1>3. /\ a \in Situations /\ b \in Situations /\ a.pending = "none" /\ a.depth > 0 /\ a.loops > 0
      /\ b = [a EXCEPT !.depth = @ - 1, !.loops = @ - 1] /\ Fits(Current, a)
      /\ a.loops = Len(Current.loops) /\ Current \in Sound
  BY <1>1, <1>2, Meeting DEF Met, Follows, Fits
<1>4. CASE fail
  BY <1>1, <1>4, FailOK, BudgetKept
<1>5. CASE ~fail
  <2>1. PICK s \in Seq(Loops), c \in Codes : LoopEnded(s, c)
    BY <1>5, forEndsWrites
  <2>2. PICK h, k : h = [Current EXCEPT !.loops = s] /\ k \in Nat /\ k = a.loops - 1 /\ k = Len(s)
    BY <1>3, <2>1 DEF LoopEnded, Situations
  <2>3. PICK e, d : e = [a EXCEPT !.loops = k] /\ d = a.depth - 1
    OBVIOUS
  <2>4. /\ e \in Situations /\ e.level = a.level /\ e.classes = a.classes /\ e.depth = a.depth
        /\ e.pending = "none" /\ e.loops = k
    BY <1>3, <2>2, <2>3 DEF Situations
  <2>5. [e EXCEPT !.depth = @ - 1] = b
    <3>1. b = [a EXCEPT !.depth = d, !.loops = k]
      BY <1>3, <2>2, <2>3
    <3>2. [e EXCEPT !.depth = d] = b
      BY <1>3, <2>3, <3>1 DEF Situations
    <3> QED BY <2>3, <2>4, <3>2
  <2>6. h \in Sound /\ Fits(h, e)
    <3>1. e.loops = Len(s) /\ e.pending = a.pending
      BY <1>3, <2>2, <2>4
    <3> QED BY <1>3, <2>2, <2>4, <3>1, LoopsSound
  <2>7. PICK p, g : p = WithCode(h, c) /\ g = endScope(p)
    OBVIOUS
  <2>8. p \in Sound /\ Fits(p, e)
    BY <2>6, <2>7, Writes
  <2>9. g \in Sound /\ Fits(g, b)
    BY <1>3, <2>4, <2>5, <2>7, <2>8, EndSound
  <2>10. Now(g) /\ Continue(<<>>) /\ Steady
    BY <2>1, <2>2, <2>7 DEF LoopEnded
  <2>11. todo' = Tail(todo)
    BY <1>1, <2>10, NothingBefore
  <2>12. todo' \in Seq(Items) /\ Runs(compilers, todo', b)
    BY <1>1, <1>2, <2>11, Meeting DEF Met
  <2>13. b.level = a.level /\ b.classes = a.classes
    BY <1>3 DEF Situations
  <2> QED BY <1>1, <1>2, <1>3, <2>9, <2>10, <2>12, <2>13, Progress, BudgetKept DEF Now, Steady, Met, CodegenOK
<1> QED BY <1>4, <1>5

----------------------------------------------------------------------------
(* Resolving names. *)

LEMMA GreatestIs ==
  ASSUME NEW n \in Nat, NEW S, S \subseteq 1 .. n, S # {}
  PROVE  Greatest(S) \in S /\ \A m \in S : m <= Greatest(S)
<1>1. PICK T : T = {k \in 0 .. n : n - k \in S}
  OBVIOUS
<1>2. T \subseteq Nat /\ T # {}
  <2>1. PICK m \in S : m \in 1 .. n
    OBVIOUS
  <2>2. n - m \in 0 .. n /\ n - (n - m) = m
    BY <2>1
  <2>3. n - m \in T
    BY <1>1, <2>1, <2>2
  <2> QED BY <1>1, <2>3
<1>3. PICK k \in T : \A j \in Nat : j < k => j \notin T
  BY <1>2, Least
<1>4. k \in 0 .. n /\ n - k \in S
  BY <1>1, <1>3
<1>5. ASSUME NEW m \in S PROVE m <= n - k
  <2>1. SUFFICES ASSUME m > n - k PROVE FALSE
    BY <1>4
  <2>2. m \in 1 .. n
    OBVIOUS
  <2>3. PICK j \in Nat : j = n - m /\ j \in 0 .. n /\ n - j = m /\ j < k
    BY <1>4, <2>1, <2>2
  <2> QED BY <1>1, <1>3, <2>3
<1>6. \E m \in S : \A j \in S : j <= m
  BY <1>4, <1>5
<1> QED BY <1>6 DEF Greatest

LEMMA NamedIn ==
  ASSUME NEW f \in CompilersTyped, NEW x
  PROVE  LocalsNamed(f, x) \subseteq 1 .. Len(f.locals) /\ Len(f.locals) \in Nat
<1>1. DOMAIN f.locals = 1 .. Len(f.locals) /\ Len(f.locals) \in Nat
  BY LenProperties DEF CompilersTyped
<1> QED BY <1>1 DEF LocalsNamed

LEMMA ResolvedIn ==
  ASSUME NEW f \in CompilersTyped, NEW x, LocalsNamed(f, x) # {}
  PROVE  /\ resolveLocal(f, x) + 1 \in LocalsNamed(f, x) /\ resolveLocal(f, x) \in 0 .. Len(f.locals) - 1
         /\ \A i \in LocalsNamed(f, x) : i <= resolveLocal(f, x) + 1
<1>1. PICK S, n : S = LocalsNamed(f, x) /\ n = Len(f.locals) /\ n \in Nat /\ S \subseteq 1 .. n /\ S # {}
  BY NamedIn
<1>2. Greatest(S) \in S /\ \A m \in S : m <= Greatest(S)
  BY <1>1, GreatestIs
<1>3. PICK g : g = Greatest(S) /\ g \in 1 .. n
  BY <1>1, <1>2
<1>4. resolveLocal(f, x) = g - 1
  BY <1>1, <1>3 DEF resolveLocal
<1>5. resolveLocal(f, x) + 1 = g /\ resolveLocal(f, x) \in 0 .. n - 1
  BY <1>1, <1>3, <1>4
<1> QED BY <1>1, <1>2, <1>3, <1>5

LEMMA OwnerIs ==
  ASSUME NEW x, compilers \in Seq(Sound)
  PROVE  /\ Owner(x) \in 0 .. Len(compilers) /\ Len(compilers) \in Nat
         /\ Owner(x) # 0 => LocalsNamed(compilers[Owner(x)], x) # {}
         /\ \A l \in 1 .. Len(compilers) : l > Owner(x) => LocalsNamed(compilers[l], x) = {}
<1>1. PICK n \in Nat : n = Len(compilers) /\ DOMAIN compilers = 1 .. n
  BY LenProperties
<1>2. PICK levels : levels = {l \in DOMAIN compilers : LocalsNamed(compilers[l], x) # {}}
  OBVIOUS
<1>3. Owner(x) = IF levels = {} THEN 0 ELSE Greatest(levels)
  BY <1>2 DEF Owner
<1>4. CASE levels = {}
  <2>1. Owner(x) = 0 /\ 0 \in 0 .. n
    BY <1>1, <1>3, <1>4
  <2>2. \A l \in 1 .. n : LocalsNamed(compilers[l], x) = {}
    BY <1>1, <1>2, <1>4
  <2> QED BY <1>1, <2>1, <2>2
<1>5. CASE levels # {}
  <2>1. Greatest(levels) \in levels /\ \A l \in levels : l <= Greatest(levels)
    BY <1>1, <1>2, <1>5, GreatestIs
  <2>2. PICK o : o = Greatest(levels) /\ o = Owner(x)
    BY <1>3, <1>5
  <2>3. o \in 1 .. n /\ LocalsNamed(compilers[o], x) # {}
    BY <1>1, <1>2, <2>1, <2>2
  <2>4. ASSUME NEW l \in 1 .. n, l > o PROVE LocalsNamed(compilers[l], x) = {}
    <3>1. l \notin levels
      BY <2>1, <2>2, <2>3, <2>4
    <3> QED BY <1>1, <1>2, <3>1
  <2>5. Owner(x) \in 0 .. n /\ LocalsNamed(compilers[Owner(x)], x) # {}
    BY <2>2, <2>3
  <2>6. \A l \in 1 .. n : l > Owner(x) => LocalsNamed(compilers[l], x) = {}
    BY <2>2, <2>4
  <2> QED BY <1>1, <2>5, <2>6
<1> QED BY <1>4, <1>5

LEMMA IndexIn ==
  ASSUME NEW upvalues \in Seq(Upvalues), NEW u
  PROVE  /\ IndexOf(upvalues, u) \in 0 .. Len(upvalues) /\ Len(upvalues) \in Nat
         /\ IndexOf(upvalues, u) # Len(upvalues) =>
              IndexOf(upvalues, u) + 1 \in 1 .. Len(upvalues) /\ upvalues[IndexOf(upvalues, u) + 1] = u
<1>1. PICK n \in Nat : n = Len(upvalues) /\ DOMAIN upvalues = 1 .. n
  BY LenProperties
<1>2. CASE \E i \in DOMAIN upvalues : upvalues[i] = u
  <2>1. PICK i : i = CHOOSE j \in DOMAIN upvalues : upvalues[j] = u
    OBVIOUS
  <2>2. i \in 1 .. n /\ upvalues[i] = u
    BY <1>1, <1>2, <2>1
  <2>3. IndexOf(upvalues, u) = i - 1
    BY <1>2, <2>1 DEF IndexOf
  <2>4. IndexOf(upvalues, u) + 1 = i /\ IndexOf(upvalues, u) \in 0 .. n
    BY <2>2, <2>3
  <2> QED BY <1>1, <2>2, <2>4
<1>3. CASE ~ \E i \in DOMAIN upvalues : upvalues[i] = u
  BY <1>1, <1>3 DEF IndexOf
<1> QED BY <1>2, <1>3

(* The entries of UpvalueChain. *)
ChainBy(cs, owner, slot, e) ==
  [l \in owner + 1 .. Len(cs) |->
     IF l = owner + 1
       THEN [index |-> slot, isLocal |-> TRUE]
       ELSE [index |-> IndexOf(cs[l - 1].upvalues, e[l - 1]), isLocal |-> FALSE]]
Chain(cs, owner, slot) == CHOOSE e : e = ChainBy(cs, owner, slot, e)

LEMMA UpvalueChainIs ==
  ASSUME NEW x
  PROVE  UpvalueChain(x) = Chain(compilers, Owner(x), resolveLocal(compilers[Owner(x)], x))
BY Zenon DEF UpvalueChain, Chain, ChainBy

LEMMA ChainExists ==
  ASSUME NEW cs \in Seq(Sound), NEW owner \in Nat, owner < Len(cs), NEW slot
  PROVE  Chain(cs, owner, slot) = ChainBy(cs, owner, slot, Chain(cs, owner, slot))
<1>1. PICK n \in Nat : n = Len(cs)
  BY LenProperties
<1>2. PICK m \in Nat : m = n - owner - 1
  <2>1. owner + 1 <= n
    BY <1>1
  <2>2. n - owner - 1 \in Nat
    BY <1>1, <2>1
  <2> QED BY <2>2
<1>3. PICK a, U : a = [index |-> slot, isLocal |-> TRUE]
                  /\ U = {a} \cup {[index |-> k, isLocal |-> FALSE] : k \in Nat}
  OBVIOUS
<1> DEFINE step(i, u) == [index |-> IndexOf(cs[owner + i].upvalues, u), isLocal |-> FALSE]
           F == [i \in 1 .. m |-> [u \in U |-> step(i, u)]]
           V == [i \in 0 .. m |-> U]
<1>4. \A i \in 1 .. m : \A u \in U : step(i, u) \in U
  <2>1. TAKE i \in 1 .. m
  <2>2. TAKE u \in U
  <2>3. owner + i \in 1 .. Len(cs)
    BY <1>1, <1>2
  <2>4. cs[owner + i].upvalues \in Seq(Upvalues)
    BY <2>3, ElementOfSeq DEF Sound, CompilersTyped
  <2>5. IndexOf(cs[owner + i].upvalues, u) \in Nat
    BY <2>4, IndexIn
  <2> QED BY <1>3, <2>5
<1>5. V[0] = U /\ a \in V[0]
  BY <1>2, <1>3
<1>6. \A i \in 1 .. m : \A v \in V[i - 1] : F[i][v] \in V[i]
  <2>1. TAKE i \in 1 .. m
  <2>2. V[i - 1] = U /\ V[i] = U /\ F[i] = [u \in U |-> step(i, u)]
    BY <1>2
  <2> QED BY <1>4, <2>2
<1> HIDE DEF step, V
<1>7. PICK f : Recursive(f, m, V, a, F)
  BY <1>5, <1>6, RecursionExists
<1>8. f[0] = a /\ \A i \in 1 .. m : f[i] = step(i, f[i - 1])
  <2>1. ASSUME NEW i \in 1 .. m PROVE f[i] = step(i, f[i - 1])
    <3>1. i - 1 \in 0 .. m /\ V[i - 1] = U
      BY DEF V
    <3>2. f[i - 1] \in U /\ f[i] = F[i][f[i - 1]]
      BY <1>7, <3>1 DEF Recursive
    <3> QED BY <3>2
  <2> QED BY <1>7, <2>1 DEF Recursive
<1> HIDE DEF F
<1>9. PICK e : e = [l \in owner + 1 .. n |-> f[l - owner - 1]]
  OBVIOUS
<1>10. e = ChainBy(cs, owner, slot, e)
  <2>1. ASSUME NEW l \in owner + 1 .. n
        PROVE  f[l - owner - 1] = IF l = owner + 1 THEN [index |-> slot, isLocal |-> TRUE]
                                  ELSE [index |-> IndexOf(cs[l - 1].upvalues, e[l - 1]), isLocal |-> FALSE]
    <3>1. CASE l = owner + 1
      BY <1>3, <1>8, <3>1
    <3>2. CASE l # owner + 1
      <4>1. PICK i \in Nat : i = l - owner - 1 /\ i \in 1 .. m /\ owner + i = l - 1
        BY <1>2, <3>2
      <4>2. l - 1 \in owner + 1 .. n /\ l - 1 - owner - 1 = i - 1
        BY <3>2, <4>1
      <4>3. e[l - 1] = f[i - 1]
        BY <1>9, <4>2
      <4>4. f[i] = step(i, f[i - 1])
        BY <1>8, <4>1
      <4> QED BY <3>2, <4>1, <4>3, <4>4 DEF step
    <3> QED BY <3>1, <3>2
  <2> QED BY <1>1, <1>9, <2>1 DEF ChainBy
<1> QED BY <1>10 DEF Chain

(* What an entry is when there is room for it. *)
Room(cs, owner, c) == \A l \in owner + 1 .. Len(cs) : IndexOf(cs[l].upvalues, c[l]) # UPVALUE_MAX
Links(cs, owner, slot, c) ==
  /\ c[owner + 1] = [index |-> slot, isLocal |-> TRUE]
  /\ \A l \in owner + 2 .. Len(cs) : c[l] = [index |-> IndexOf(cs[l - 1].upvalues, c[l - 1]), isLocal |-> FALSE]
  /\ \A l \in owner + 1 .. Len(cs) : c[l] \in Upvalues

LEMMA ChainTyped ==
  ASSUME NEW cs \in Seq(Sound), NEW owner \in Nat, owner < Len(cs), NEW slot \in 0 .. Base - 1,
         NEW c, c = Chain(cs, owner, slot), Room(cs, owner, c)
  PROVE  Links(cs, owner, slot, c)
<1>0. \A l \in owner + 1 .. Len(cs) : IndexOf(cs[l].upvalues, c[l]) # UPVALUE_MAX
  BY DEF Room
<1>1. PICK n \in Nat : n = Len(cs) /\ owner < n
  BY LenProperties
<1>2. c = [l \in owner + 1 .. n |->
             IF l = owner + 1
               THEN [index |-> slot, isLocal |-> TRUE]
               ELSE [index |-> IndexOf(cs[l - 1].upvalues, c[l - 1]), isLocal |-> FALSE]]
  BY <1>1, ChainExists DEF ChainBy
<1>3. c[owner + 1] = [index |-> slot, isLocal |-> TRUE]
  <2>1. owner + 1 \in owner + 1 .. n
    BY <1>1
  <2> QED BY <1>2, <2>1
<1>4. ASSUME NEW l \in owner + 2 .. n
      PROVE  c[l] = [index |-> IndexOf(cs[l - 1].upvalues, c[l - 1]), isLocal |-> FALSE] /\ c[l] \in Upvalues
  <2>1. l \in owner + 1 .. n /\ l # owner + 1 /\ l - 1 \in owner + 1 .. n /\ l - 1 \in 1 .. n
    BY <1>1
  <2>2. PICK k : k = IndexOf(cs[l - 1].upvalues, c[l - 1])
    OBVIOUS
  <2>3. c[l] = [index |-> k, isLocal |-> FALSE]
    BY <1>2, <2>1, <2>2
  <2>4. cs[l - 1].upvalues \in Seq(Upvalues) /\ Len(cs[l - 1].upvalues) <= UPVALUE_MAX
    BY <1>1, <2>1, ElementOfSeq DEF Sound, CompilersTyped
  <2>5. k \in Nat /\ k <= UPVALUE_MAX /\ k # UPVALUE_MAX
    <3>1. PICK j : j = l - 1
      OBVIOUS
    <3>2. j \in owner + 1 .. Len(cs)
      BY <1>1, <2>1, <3>1
    <3>3. k = IndexOf(cs[j].upvalues, c[j]) /\ k # UPVALUE_MAX
      BY <1>0, <2>2, <3>1, <3>2
    <3>4. k \in 0 .. Len(cs[j].upvalues) /\ Len(cs[j].upvalues) \in Nat
      BY <2>4, <3>1, <3>3, IndexIn
    <3> QED BY <2>4, <3>1, <3>3, <3>4, Bytes_
  <2>6. k \in 0 .. Base - 1
    BY <2>5, Bytes_
  <2> QED BY <2>2, <2>3, <2>6 DEF Upvalues
<1>5. c[owner + 1] \in Upvalues
  BY <1>3 DEF Upvalues
<1>6. ASSUME NEW l \in owner + 1 .. n PROVE c[l] \in Upvalues
  <2>1. l = owner + 1 \/ l \in owner + 2 .. n
    OBVIOUS
  <2> QED BY <1>4, <1>5, <2>1
<1> QED BY <1>1, <1>3, <1>4, <1>6 DEF Links

LEMMA AddSound ==
  ASSUME NEW f \in Sound, NEW u \in Upvalues, IndexOf(f.upvalues, u) # UPVALUE_MAX
  PROVE  /\ addUpvalue(f, u) \in Sound /\ addUpvalue(f, u).locals = f.locals
         /\ addUpvalue(f, u).code = f.code /\ Similar(f, addUpvalue(f, u))
         /\ Len(addUpvalue(f, u).upvalues) \in Nat /\ Len(f.upvalues) <= Len(addUpvalue(f, u).upvalues)
         /\ \A i \in 1 .. Len(f.upvalues) : addUpvalue(f, u).upvalues[i] = f.upvalues[i]
         /\ \A i \in 1 .. Len(addUpvalue(f, u).upvalues) : i > Len(f.upvalues) => addUpvalue(f, u).upvalues[i] = u
         /\ IndexOf(f.upvalues, u) + 1 \in 1 .. Len(addUpvalue(f, u).upvalues)
         /\ addUpvalue(f, u).upvalues[IndexOf(f.upvalues, u) + 1] = u
<1>1. f \in CompilersTyped /\ LocalsOK(f) /\ Len(f.upvalues) <= UPVALUE_MAX
  BY DEF Sound
<1>2. PICK r, k : r = f.upvalues /\ r \in Seq(Upvalues) /\ k = IndexOf(r, u)
  BY <1>1 DEF CompilersTyped
<1>3. PICK n \in Nat : n = Len(r)
  BY <1>2, LenProperties
<1>4. k \in 0 .. n /\ (k # n => k + 1 \in 1 .. n /\ r[k + 1] = u) /\ k # UPVALUE_MAX
  BY <1>2, <1>3, IndexIn
<1>5. PICK g : g = addUpvalue(f, u)
  OBVIOUS
<1>6. CASE k = n
  <2>1. PICK s : s = Append(r, u)
    OBVIOUS
  <2>2. s \in Seq(Upvalues) /\ Len(s) = n + 1 /\ s[n + 1] = u /\ \A i \in 1 .. n : s[i] = r[i]
    BY <1>2, <1>3, <2>1, AppendProperties
  <2>3. g = [f EXCEPT !.upvalues = s]
    BY <1>2, <1>3, <1>5, <1>6, <2>1 DEF addUpvalue
  <2>4. /\ g \in CompilersTyped /\ g.upvalues = s /\ g.locals = f.locals /\ g.code = f.code /\ g.scopeDepth = f.scopeDepth
        /\ g.loops = f.loops
    BY <1>1, <2>2, <2>3 DEF CompilersTyped
  <2>5. g \in Sound
    <3>1. n + 1 <= UPVALUE_MAX
      BY <1>1, <1>2, <1>3, <1>4, <1>6, Bytes_
    <3> QED BY <1>1, <2>2, <2>4, <3>1 DEF Sound, LocalsOK
  <2>6. Similar(f, g)
    BY <2>4 DEF Similar
  <2>7. \A i \in 1 .. n + 1 : i > n => s[i] = u
    BY <2>2
  <2>8. n + 1 \in 1 .. n + 1
    OBVIOUS
  <2> QED BY <1>2, <1>3, <1>5, <1>6, <2>2, <2>4, <2>5, <2>6, <2>7, <2>8
<1>7. CASE k # n
  <2>1. g = f
    BY <1>2, <1>3, <1>5, <1>7 DEF addUpvalue
  <2>2. Similar(f, f)
    BY DEF Similar
  <2>3. \A i \in 1 .. n : ~(i > n)
    OBVIOUS
  <2> QED BY <1>2, <1>3, <1>4, <1>5, <1>7, <2>1, <2>2, <2>3
<1> QED BY <1>6, <1>7

Captured(f, slot) == [f EXCEPT !.locals[slot + 1].isCaptured = TRUE]

LEMMA CapturedSound ==
  ASSUME NEW f \in Sound, NEW slot \in 0 .. Len(f.locals) - 1
  PROVE  /\ Captured(f, slot) \in Sound /\ Similar(f, Captured(f, slot))
         /\ Captured(f, slot).upvalues = f.upvalues /\ Captured(f, slot).code = f.code
         /\ \A i \in 1 .. Len(f.locals) : Captured(f, slot).locals[i].name = f.locals[i].name
<1>1. f \in CompilersTyped /\ LocalsOK(f) /\ Len(f.upvalues) <= UPVALUE_MAX
  BY DEF Sound
<1>2. PICK r : r = f.locals /\ r \in Seq(Locals)
  BY <1>1 DEF CompilersTyped
<1>3. PICK n \in Nat : n = Len(r)
  BY <1>2, LenProperties
<1>4. PICK k \in 1 .. n : k = slot + 1
  BY <1>2, <1>3
<1>5. PICK u : u = [r[k] EXCEPT !.isCaptured = TRUE]
  OBVIOUS
<1>6. u \in Locals /\ u.depth = r[k].depth /\ u.name = r[k].name
  <2>1. r[k] \in Locals
    BY <1>2, <1>3, ElementOfSeq
  <2> QED BY <1>5, <2>1 DEF Locals
<1>7. PICK s : s = [r EXCEPT ![k] = u]
  OBVIOUS
<1>8. s \in Seq(Locals) /\ Len(s) = n /\ \A i \in 1 .. n : s[i] = IF i = k THEN u ELSE r[i]
  BY <1>2, <1>3, <1>6, <1>7, ExceptSeq
<1>9. PICK g : g = [f EXCEPT !.locals = s]
  OBVIOUS
<1>10. g = Captured(f, slot)
  BY <1>2, <1>4, <1>5, <1>7, <1>9 DEF Captured
<1>11. /\ g \in CompilersTyped /\ g.locals = s /\ g.upvalues = f.upvalues /\ g.code = f.code /\ g.scopeDepth = f.scopeDepth
       /\ g.loops = f.loops
  BY <1>1, <1>8, <1>9 DEF CompilersTyped
<1>12. \A i \in 1 .. n : s[i].depth = r[i].depth /\ s[i].name = r[i].name
  BY <1>6, <1>8
<1>13. LocalsOK(g)
  <2>1. 1 \in 1 .. n
    BY <1>4
  <2>2. \A i \in 1 .. n : \A j \in 1 .. i - 1 : j \in 1 .. n
    OBVIOUS
  <2> QED BY <1>1, <1>2, <1>3, <1>8, <1>11, <1>12, <2>1, <2>2 DEF LocalsOK
<1>14. Similar(f, g)
  BY <1>2, <1>3, <1>8, <1>11, <1>12 DEF Similar
<1> QED BY <1>1, <1>2, <1>3, <1>10, <1>11, <1>12, <1>13, <1>14 DEF Sound

(* What resolveUpvalue leaves, function by function. *)
Resolved(cs, o, slot, c, l) ==
  IF l = o THEN Captured(cs[l], slot) ELSE IF l > o THEN addUpvalue(cs[l], c[l]) ELSE cs[l]

LEMMA UpvaluesResolved ==
  ASSUME compilers \in Seq(Sound), NEW x, ~CannotResolve(x), Owner(x) \notin {0, Len(compilers)},
         NEW o, o = Owner(x), NEW slot, slot = resolveLocal(compilers[o], x), NEW c, c = UpvalueChain(x)
  PROVE  /\ o \in 1 .. Len(compilers) /\ Len(compilers) \in Nat /\ o < Len(compilers)
         /\ slot \in 0 .. Len(compilers[o].locals) - 1 /\ slot \in 0 .. Base - 1
         /\ slot + 1 \in LocalsNamed(compilers[o], x)
         /\ compilers[o].locals[slot + 1].depth # -1
         /\ c[o + 1] = [index |-> slot, isLocal |-> TRUE]
         /\ \A l \in o + 2 .. Len(compilers) :
              c[l] = [index |-> IndexOf(compilers[l - 1].upvalues, c[l - 1]), isLocal |-> FALSE]
         /\ \A l \in o + 1 .. Len(compilers) : c[l] \in Upvalues /\ IndexOf(compilers[l].upvalues, c[l]) # UPVALUE_MAX
         /\ resolveUpvalue(x) \in Seq(Sound) /\ Len(resolveUpvalue(x)) = Len(compilers)
         /\ \A l \in 1 .. Len(compilers) :
              /\ resolveUpvalue(x)[l] = Resolved(compilers, o, slot, c, l)
              /\ Similar(compilers[l], resolveUpvalue(x)[l])
<1>1. PICK cs, ds : cs = compilers /\ ds = resolveUpvalue(x)
  OBVIOUS
<1>2. PICK n \in Nat : n = Len(cs) /\ DOMAIN cs = 1 .. n
  BY <1>1, LenProperties
<1>3. cs \in Seq(Sound) /\ o \in 1 .. n /\ o < n /\ LocalsNamed(cs[o], x) # {} /\ o \in Nat
  BY <1>1, <1>2, OwnerIs
<1>4. \A l \in 1 .. n : cs[l] \in Sound /\ cs[l] \in CompilersTyped
  BY <1>2, <1>3, ElementOfSeq DEF Sound
<1>5. /\ slot + 1 \in LocalsNamed(cs[o], x) /\ slot \in 0 .. Len(cs[o].locals) - 1
  BY <1>1, <1>3, <1>4, ResolvedIn
<1>6. slot \in 0 .. Base - 1
  <2>1. Len(cs[o].locals) \in 1 .. LOCAL_MAX
    BY <1>3, <1>4 DEF Sound, LocalsOK
  <2> QED BY <1>5, <2>1, Bytes_
<1>7. c = Chain(cs, o, slot)
  BY <1>1, UpvalueChainIs
<1>8. /\ compilers[o].locals[slot + 1].depth # -1
      /\ \A l \in o + 1 .. n : IndexOf(cs[l].upvalues, c[l]) # UPVALUE_MAX
  BY <1>1, <1>2 DEF CannotResolve
<1>9. /\ c[o + 1] = [index |-> slot, isLocal |-> TRUE]
      /\ \A l \in o + 2 .. n : c[l] = [index |-> IndexOf(cs[l - 1].upvalues, c[l - 1]), isLocal |-> FALSE]
      /\ \A l \in o + 1 .. n : c[l] \in Upvalues
  <2>1. Room(cs, o, c)
    BY <1>2, <1>8 DEF Room
  <2>2. o \in Nat /\ o < Len(cs) /\ cs \in Seq(Sound)
    BY <1>2, <1>3
  <2>3. Links(cs, o, slot, c)
    BY <1>6, <1>7, <2>1, <2>2, ChainTyped
  <2> QED BY <1>2, <2>3 DEF Links
<1>10. DOMAIN ds = 1 .. n /\ ds = [l \in 1 .. n |-> ds[l]]
  BY <1>1, <1>2 DEF resolveUpvalue
<1>11. ASSUME NEW l \in 1 .. n
       PROVE  ds[l] = Resolved(cs, o, slot, c, l) /\ ds[l] \in Sound /\ Similar(cs[l], ds[l])
  <2>1. CASE l = o
    <3>1. ds[l] = Captured(cs[l], slot)
      BY <1>1, <1>2, <2>1 DEF resolveUpvalue, Captured
    <3>2. Captured(cs[l], slot) \in Sound /\ Similar(cs[l], Captured(cs[l], slot))
      BY <1>4, <1>5, <2>1, CapturedSound
    <3> QED BY <2>1, <3>1, <3>2 DEF Resolved
  <2>2. CASE l # o /\ l > o
    <3>1. ds[l] = addUpvalue(cs[l], c[l])
      BY <1>1, <1>2, <2>2 DEF resolveUpvalue
    <3>2. l \in o + 1 .. n
      BY <1>2, <1>3, <2>2
    <3>3. addUpvalue(cs[l], c[l]) \in Sound /\ Similar(cs[l], addUpvalue(cs[l], c[l]))
      BY <1>4, <1>8, <1>9, <3>2, AddSound
    <3> QED BY <2>2, <3>1, <3>3 DEF Resolved
  <2>3. CASE l # o /\ ~(l > o)
    <3>1. ds[l] = cs[l]
      BY <1>1, <1>2, <2>3 DEF resolveUpvalue
    <3> QED BY <1>4, <2>3, <3>1 DEF Resolved, Similar
  <2> QED BY <2>1, <2>2, <2>3
<1>12. ds \in [1 .. n -> Sound]
  BY <1>10, <1>11
<1>13. ds \in Seq(Sound)
  BY <1>2, <1>12, SeqDef
<1>14. Len(ds) = n
  BY <1>2, <1>10, <1>13, LenProperties
<1> QED BY <1>1, <1>2, <1>3, <1>5, <1>6, <1>8, <1>9, <1>11, <1>13, <1>14

(* The instruction fits into code. *)
LEMMA AccessCode ==
  ASSUME CodegenOK, status = "compiling", NEW verb \in {"get", "set"}, NEW x
  PROVE  Access(verb, x) \in Codes
<1>1. PICK op : op = Instructions[verb]
  OBVIOUS
<1>2. op.global \in Ops /\ op.local \in Ops /\ op.upvalue \in Ops
  BY <1>1 DEF Instructions, Ops
<1>3. PICK n : n = Len(compilers) /\ compilers[n] \in CompilersTyped /\ n \in Nat
  BY Meeting DEF Current
<1>4. CASE Owner(x) = 0
  BY <1>1, <1>2, <1>4, ConstantCode DEF Access
<1>5. CASE Owner(x) # 0 /\ Owner(x) = n
  <2>1. LocalsNamed(compilers[n], x) # {}
    BY <1>3, <1>5, OwnerIs DEF CodegenOK
  <2>2. PICK k \in Int : k = resolveLocal(compilers[n], x)
    BY <1>3, <2>1, ResolvedIn
  <2>3. <<Op(op.local), Byte(k % Base)>> \in Codes
    BY <1>2, OpByteCode, Rest
  <2> QED BY <1>1, <1>3, <1>5, <2>2, <2>3 DEF Access
<1>6. CASE Owner(x) # 0 /\ Owner(x) # n
  <2>1. PICK k \in Int : k = IndexOf(compilers[n].upvalues, UpvalueChain(x)[n])
    <3>1. compilers[n].upvalues \in Seq(Upvalues)
      BY <1>3 DEF CompilersTyped
    <3> QED BY <3>1, IndexIn
  <2>2. <<Op(op.upvalue), Byte(k % Base)>> \in Codes
    BY <1>2, OpByteCode, Rest
  <2> QED BY <1>1, <1>3, <1>6, <2>1, <2>2 DEF Access
<1> QED BY <1>4, <1>5, <1>6

LEMMA AccessMade ==
  ASSUME NEW x \in Identifiers, NEW c \in Codes
  PROVE  /\ [Item("access") EXCEPT !.name = x, !.code = c] \in Items
         /\ [Item("access") EXCEPT !.name = x, !.code = c].do = "access"
         /\ [Item("access") EXCEPT !.name = x, !.code = c].name = x
         /\ [Item("access") EXCEPT !.name = x, !.code = c].code = c
<1>1. Item("access") \in ItemRecords /\ Item("access").do = "access"
  BY ItemFields DEF Tasks, ExpressionTasks
<1>2. PICK i : i = [Item("access") EXCEPT !.name = x]
  OBVIOUS
<1>3. i \in ItemRecords /\ i.do = "access" /\ i.name = x
  BY <1>1, <1>2, ItemChanged
<1>4. PICK j : j = [i EXCEPT !.code = c]
  OBVIOUS
<1>5. j \in ItemRecords /\ j.do = "access" /\ j.name = x /\ j.code = c
  BY <1>3, <1>4, ItemChanged
<1>6. j \in Items
  BY <1>5 DEF Items, Details
<1>7. j = [Item("access") EXCEPT !.name = x, !.code = c]
  BY <1>2, <1>4
<1> QED BY <1>5, <1>6, <1>7

LEMMA namedVariableOK == ASSUME CodegenOK, namedVariable PROVE CodegenOK'
<1>1. status = "compiling" /\ First.do = "named" /\ First.do \in ExpressionTasks /\ NoRule
  BY DEF namedVariable, Doing, ExpressionTasks
<1>2. PICK a : Met(a, a)
  BY <1>1, AtExpression
<1>3. a \in Situations
  BY <1>2 DEF Met
<1>4. PICK x, verb : x = First.name /\ verb = First.code /\ x \in Identifiers /\ verb \in {"get", "set"}
  BY <1>1, Meeting DEF Items, Details
<1>5. CASE CannotResolve(x)
  BY <1>1, <1>4, <1>5, FailOK, BudgetKept DEF namedVariable
<1>6. CASE ~CannotResolve(x)
  <2>1. PICK code \in Codes : code = Access(verb, x)
    BY <1>1, <1>4, AccessCode
  <2>2. PICK y : y = [Item("access") EXCEPT !.name = x, !.code = code]
    OBVIOUS
  <2>3. y \in Items /\ y.do \in ExpressionTasks
    BY <1>4, <2>2, AccessMade DEF ExpressionTasks
  <2>4. PICK e : e = Expression
    OBVIOUS
  <2>5. e \in Items /\ Follows(compilers, a, e, a) /\ Follows(compilers, a, y, a)
    BY <2>3, <2>4, ExpressionMade, ExpressionFollows
  <2>6. Continue(<<e, y>>) \/ Continue(<<y>>)
    BY <1>4, <1>6, <2>1, <2>2, <2>4 DEF namedVariable
  <2>7. todo' \in Seq(Items) /\ Runs(compilers, todo', a)
    BY <1>1, <1>2, <1>3, <2>3, <2>5, <2>6, Continues
  <2>8. budget' \in 0 .. MaxForms /\ Steady
    BY <1>1, <1>4, <1>6, BudgetKept DEF namedVariable
  <2>9. CASE Owner(x) \in {0, Len(compilers)}
    <3>1. compilers' = compilers
      BY <1>4, <1>6, <2>9 DEF namedVariable
    <3> QED BY <1>1, <1>2, <2>7, <2>8, <3>1, Waiting DEF Steady
  <2>10. CASE Owner(x) \notin {0, Len(compilers)}
    <3>1. compilers' = resolveUpvalue(x)
      BY <1>4, <1>6, <2>10 DEF namedVariable
    <3>2. PICK cs, ds, n : cs = compilers /\ ds = compilers' /\ n = Len(compilers)
      OBVIOUS
    <3>3. /\ cs \in Seq(Sound) /\ ds \in Seq(Sound) /\ Len(cs) = n /\ Len(ds) = n /\ n \in Nat
          /\ \A l \in 1 .. n : Similar(cs[l], ds[l])
      BY <1>6, <2>10, <3>1, <3>2, UpvaluesResolved DEF CodegenOK
    <3>4. a.level = n /\ n > 0 /\ a.classes = classes /\ Fits(cs[n], a) /\ n \in 1 .. n
      BY <1>2, <3>2, <3>3 DEF Met, Current
    <3>5. Fits(ds[n], a)
      <4>1. cs[n] \in CompilersTyped /\ ds[n] \in CompilersTyped
        BY <3>3, <3>4, ElementOfSeq DEF Sound
      <4> QED BY <1>3, <3>3, <3>4, <4>1, FitsSimilar
    <3>6. PICK s : s = todo' /\ s \in Seq(Items) /\ Runs(cs, s, a)
      BY <2>7, <3>2
    <3>7. Runs(ds, s, a)
      <4>1. cs \in Seq(CompilersTyped) /\ ds \in Seq(CompilersTyped)
        BY <3>3, SoundTyped
      <4>2. a.level <= Len(cs) /\ a.level <= Len(ds) + 1
        BY <3>3, <3>4
      <4>3. \A l \in 1 .. a.level - 1 : Similar(cs[l], ds[l])
        BY <3>3, <3>4
      <4> QED BY <1>3, <3>6, <4>1, <4>2, <4>3, RunsSimilar
    <3>8. InProgress(ds, s, classes)
      BY <1>3, <3>3, <3>4, <3>5, <3>7 DEF InProgress
    <3>9. compilers' \in Seq(Sound) /\ todo' \in Seq(Items) /\ InProgress(compilers', todo', classes')
      BY <2>8, <3>2, <3>3, <3>6, <3>8 DEF Steady
    <3> QED BY <2>8, <3>9 DEF CodegenOK, Steady
  <2> QED BY <2>9, <2>10
<1> QED BY <1>5, <1>6

----------------------------------------------------------------------------
(* The first state, all steps. *)

LEMMA Begins ==
  ASSUME NEW cs, cs = <<NewCompiler("script")>>, NEW s, s = <<Item("program")>>
  PROVE  cs \in Seq(Sound) /\ s \in Seq(Items) /\ InProgress(cs, s, 0)
<1>1. PICK f : f = NewCompiler("script")
  OBVIOUS
<1>2. f \in Sound /\ \A a \in Situations : a.depth = 0 /\ a.loops = 0 /\ a.pending = "none" => Fits(f, a)
  <2>1. "script" \in FunctionTypes
    BY DEF FunctionTypes
  <2> QED BY <1>1, <2>1, NewSound
<1>3. PICK x : x = Item("program")
  OBVIOUS
<1>4. x \in Items /\ x.do = "program"
  BY <1>3, ItemMade DEF Bare, Tasks, Terminators
<1>5. cs \in Seq(Sound) /\ Len(cs) = 1 /\ cs[1] = f
  BY <1>1, <1>2
<1>6. s \in Seq(Items) /\ Len(s) = 1 /\ s[1] = x
  BY <1>3, <1>4
<1>7. PICK a, b : /\ a = [level |-> 1, depth |-> 0, classes |-> 0, loops |-> 0, pending |-> "none"]
                  /\ b = [level |-> 0, depth |-> 0, classes |-> 0, loops |-> 0, pending |-> "none"]
  OBVIOUS
<1>8. /\ a \in Situations /\ a.level = 1 /\ a.depth = 0 /\ a.classes = 0 /\ a.loops = 0 /\ a.pending = "none"
      /\ b \in Situations /\ b.level = 0 /\ b.classes = 0
  BY <1>7 DEF Situations
<1>9. Fits(f, a)
  BY <1>2, <1>8
<1>10. Follows(cs, a, x, b)
  BY <1>4, <1>8 DEF Follows, ExpressionTasks, PlainTasks, ForTasks, Terminators
<1>11. PICK g : g = [k \in 1 .. 2 |-> IF k = 1 THEN a ELSE b]
  OBVIOUS
<1>12. Path(cs, s, g, a) /\ g[Len(s) + 1].level = 0
  <2>1. g \in [1 .. 2 -> Situations] /\ g[1] = a /\ g[2] = b
    BY <1>8, <1>11
  <2>2. \A j, k \in 1 .. 2 : j <= k => g[k].level <= g[j].level
    <3>1. TAKE j, k \in 1 .. 2
    <3>2. (j = 1 \/ j = 2) /\ (k = 1 \/ k = 2)
      OBVIOUS
    <3> QED BY <1>8, <2>1, <3>2
  <2>3. \A k \in 1 .. 1 : Follows(cs, g[k], s[k], g[k + 1])
    <3>1. TAKE k \in 1 .. 1
    <3>2. k = 1 /\ k + 1 = 2
      OBVIOUS
    <3>3. g[k] = a /\ s[k] = x /\ g[k + 1] = b
      BY <1>6, <2>1, <3>2
    <3> QED BY <1>10, <3>3
  <2>4. Len(s) + 1 = 2 /\ 1 .. Len(s) + 1 = 1 .. 2 /\ 1 .. Len(s) = 1 .. 1
    BY <1>6
  <2> QED BY <1>8, <2>1, <2>2, <2>3, <2>4 DEF Path
<1>13. Runs(cs, s, a)
  BY <1>12 DEF Runs
<1>14. Fits(cs[Len(cs)], a) /\ a.level = Len(cs) /\ a.level > 0 /\ a.classes = 0
  BY <1>5, <1>8, <1>9
<1>15. InProgress(cs, s, 0)
  BY <1>8, <1>13, <1>14 DEF InProgress
<1> QED BY <1>5, <1>6, <1>15

LEMMA InitOK == Init => CodegenOK
<1> SUFFICES ASSUME Init PROVE CodegenOK
  OBVIOUS
<1>1. budget = MaxForms /\ compilers = <<NewCompiler("script")>> /\ todo = <<Item("program")>> /\ classes = 0 /\ status = "compiling"
  BY DEF Init
<1>2. compilers \in Seq(Sound) /\ todo \in Seq(Items) /\ InProgress(compilers, todo, 0)
  BY <1>1, Begins
<1>3. budget \in 0 .. MaxForms
  BY <1>1, CodegenAssumption
<1> QED BY <1>1, <1>2, <1>3 DEF CodegenOK

LEMMA compileOK == ASSUME CodegenOK, compile PROVE CodegenOK'
<1>1. /\ budget' = MaxForms /\ compilers' = <<NewCompiler("script")>> /\ todo' = <<Item("program")>>
      /\ classes' = 0 /\ status' = "compiling"
  BY DEF compile
<1>2. compilers' \in Seq(Sound) /\ todo' \in Seq(Items) /\ InProgress(compilers', todo', 0)
  BY <1>1, Begins
<1>3. budget' \in 0 .. MaxForms
  BY <1>1, CodegenAssumption
<1> QED BY <1>1, <1>2, <1>3 DEF CodegenOK

LEMMA EndsOK == ASSUME CodegenOK, blockEnds \/ variablesEnd \/ parametersEnd PROVE CodegenOK'
<1>1. budget' \in 0 .. MaxForms
  BY BudgetKept DEF blockEnds, variablesEnd, parametersEnd, Same
<1> QED BY <1>1, Dropped DEF blockEnds, variablesEnd, parametersEnd, Doing, Same, Steady

LEMMA StutterOK == ASSUME CodegenOK, UNCHANGED vars PROVE CodegenOK'
BY DEF vars, CodegenOK, InProgress

LEMMA DeclarationsOK == ASSUME CodegenOK, Declarations PROVE CodegenOK'
<1>1. PICK x \in Names : varDeclaration(x) \/ funDeclaration(x) \/ classDeclaration(x) \/ parameter(x)
  BY DEF Declarations
<1> QED BY <1>1, varDeclarationOK, funDeclarationOK, classDeclarationOK, parameterOK

LEMMA StatementsOK == ASSUME CodegenOK, Statements PROVE CodegenOK'
BY expressionStatementOK, blockStatementOK, returnStatementOK, forStatementOK, breakStatementOK,
   continueStatementOK, branchStatementOK DEF Statements

LEMMA ExpressionsOK == ASSUME CodegenOK, ExpressionRules PROVE CodegenOK'
<1>1. CASE literal
  BY <1>1, literalOK
<1>2. CASE \E form \in DOMAIN Shortcut : logical(form)
  BY <1>2, logicalOK
<1>3. CASE \E form \in DOMAIN Operations : operation(form)
  BY <1>3, operationOK
<1>4. CASE \E n \in 0 .. ARGUMENT_MAX + 1 : call(n) \/ invoke(n) \/ arrayLiteral(n) \/ objectLiteral(n)
  BY <1>4, callsOK, objectLiteralOK
<1>5. CASE this_ \/ \E verb \in DOMAIN Instructions, x \in Names : variable(verb, x)
  BY <1>5, variablesOK
<1> QED BY <1>1, <1>2, <1>3, <1>4, <1>5 DEF ExpressionRules

LEMMA ResumeOK == ASSUME CodegenOK, Resume PROVE CodegenOK'
BY declarationsOK, EndsOK, programEndsOK, endScriptOK, emitItemOK, patchItemOK, initializerOK, defineOK,
   classEndsOK, methodOK, functionOK, functionEndsOK, endBlockOK, forConditionOK, forExitOK, forIncrementOK,
   forLoopOK, forBodyOK, forEndsOK, branchCaseStatementOK, caseThenOK, caseElseOK, shortcutOK, objectEndsOK,
   namedVariableOK DEF Resume

LEMMA NextOK == ASSUME CodegenOK, [Next]_vars PROVE CodegenOK'
BY compileOK, DeclarationsOK, StatementsOK, ExpressionsOK, ResumeOK, StutterOK DEF Next

LEMMA CodegenSound == Spec => []CodegenOK
<1>1. Init => CodegenOK
  BY InitOK
<1>2. CodegenOK /\ [Next]_vars => CodegenOK'
  BY NextOK
<1> QED BY <1>1, <1>2, PTL DEF Spec

(* Whatever program is compiled, every function under way has between 1 and  *)
(* LOCAL_MAX locals and no more upvalues than fit, the depths of its locals  *)
(* grow, only the last can be uninitialized, and every cell of its code is a *)
(* byte or a jump not patched yet.                                           *)
THEOREM CompilersAreTyped == Spec => []TypeOK
<1>1. CodegenOK => TypeOK
  BY TypesFollow
<1> QED BY <1>1, CodegenSound, PTL


----------------------------------------------------------------------------
(* What an upvalue stands for. *)

(* The values of Denoted's via. *)
ViaBy(cs, v) ==
  [l \in 1 .. Len(cs) |->
     [i \in DOMAIN cs[l].upvalues |->
        LET u == cs[l].upvalues[i]
        IN  IF u.isLocal THEN <<l - 1, u.index>> ELSE v[l - 1][u.index + 1]]]
Via(cs) == CHOOSE v : v = ViaBy(cs, v)

DenotedIn(cs, v, code) ==
  CASE code[1].op \in {"GET_LOCAL", "SET_LOCAL"} -> <<Len(cs), code[2].byte>>
    [] code[1].op \in {"GET_UPVALUE", "SET_UPVALUE"} -> v[Len(cs)][code[2].byte + 1]
    [] OTHER -> <<0, 0>>

LEMMA DenotedIs ==
  ASSUME NEW code
  PROVE  Denoted(code) = DenotedIn(compilers, Via(compilers), code)
BY Zenon DEF Denoted, DenotedIn, Via, ViaBy

(* An upvalue refers to what the function around has. *)
Refers(cs, l, u) ==
  /\ l > 1
  /\ u.isLocal => u.index + 1 \in 1 .. Len(cs[l - 1].locals)
  /\ ~u.isLocal => u.index + 1 \in 1 .. Len(cs[l - 1].upvalues)
Linked(cs) == \A l \in 1 .. Len(cs) : \A i \in 1 .. Len(cs[l].upvalues) : Refers(cs, l, cs[l].upvalues[i])

LEMMA LevelTyped ==
  ASSUME NEW cs \in Seq(Sound), NEW l \in 1 .. Len(cs)
  PROVE  /\ cs[l] \in CompilersTyped /\ cs[l].upvalues \in Seq(Upvalues) /\ Len(cs[l].upvalues) \in Nat
         /\ DOMAIN cs[l].upvalues = 1 .. Len(cs[l].upvalues)
         /\ \A i \in 1 .. Len(cs[l].upvalues) :
              cs[l].upvalues[i] \in Upvalues /\ cs[l].upvalues[i].index \in Nat /\ cs[l].upvalues[i].isLocal \in BOOLEAN
<1>1. cs[l] \in CompilersTyped
  BY ElementOfSeq DEF Sound
<1>2. PICK r : r = cs[l].upvalues /\ r \in Seq(Upvalues)
  BY <1>1 DEF CompilersTyped
<1>3. Len(r) \in Nat /\ DOMAIN r = 1 .. Len(r)
  BY <1>2, LenProperties
<1>4. ASSUME NEW i \in 1 .. Len(r) PROVE r[i] \in Upvalues /\ r[i].index \in Nat /\ r[i].isLocal \in BOOLEAN
  <2>1. r[i] \in Upvalues
    BY <1>2, ElementOfSeq
  <2> QED BY <2>1, Bytes_ DEF Upvalues
<1> QED BY <1>1, <1>2, <1>3, <1>4

LEMMA ViaExists ==
  ASSUME NEW cs \in Seq(Sound), Linked(cs)
  PROVE  Via(cs) = ViaBy(cs, Via(cs))
<1>1. PICK n \in Nat : n = Len(cs)
  BY LenProperties
<1>2. PICK P : P = Nat \X Nat
  OBVIOUS
<1> DEFINE D(l) == 1 .. Len(cs[l].upvalues)
           step(l, w) == [i \in D(l) |->
                            IF cs[l].upvalues[i].isLocal THEN <<l - 1, cs[l].upvalues[i].index>>
                                                         ELSE w[cs[l].upvalues[i].index + 1]]
           V == [l \in 0 .. n |-> IF l = 0 THEN {<<>>} ELSE [D(l) -> P]]
           F == [l \in 1 .. n |-> [w \in V[l - 1] |-> step(l, w)]]
<1>3. ASSUME NEW l \in 1 .. n, NEW w \in V[l - 1]
      PROVE  step(l, w) \in V[l]
  <2>1. ASSUME NEW i \in D(l)
        PROVE  (IF cs[l].upvalues[i].isLocal THEN <<l - 1, cs[l].upvalues[i].index>>
                                             ELSE w[cs[l].upvalues[i].index + 1]) \in P
    <3>1. PICK u : u = cs[l].upvalues[i]
      OBVIOUS
    <3>2. u.index \in Nat /\ Refers(cs, l, u)
      BY <1>1, <3>1, LevelTyped DEF Linked
    <3>3. l - 1 \in Nat /\ l - 1 \in 1 .. n
      BY <3>2 DEF Refers
    <3>4. CASE u.isLocal
      BY <1>2, <3>1, <3>2, <3>3, <3>4
    <3>5. CASE ~u.isLocal
      <4>1. u.index + 1 \in D(l - 1)
        BY <3>2, <3>5 DEF Refers
      <4>2. V[l - 1] = [D(l - 1) -> P]
        BY <3>3
      <4>3. w[u.index + 1] \in P
        BY <4>1, <4>2
      <4> QED BY <3>1, <3>5, <4>3
    <3> QED BY <3>4, <3>5
  <2>2. V[l] = [D(l) -> P]
    OBVIOUS
  <2> HIDE DEF V, D
  <2> QED BY <2>1, <2>2
<1>4. <<>> \in V[0]
  OBVIOUS
<1>5. \A l \in 1 .. n : \A w \in V[l - 1] : F[l][w] \in V[l]
  <2>1. TAKE l \in 1 .. n
  <2>2. F[l] = [w \in V[l - 1] |-> step(l, w)]
    OBVIOUS
  <2> HIDE DEF V, F, step
  <2> QED BY <1>3, <2>2
<1>6. ASSUME NEW l \in 1 .. n, NEW w \in V[l - 1] PROVE F[l][w] = step(l, w)
  OBVIOUS
<1> HIDE DEF V, F
<1>7. PICK f : Recursive(f, n, V, <<>>, F)
  BY <1>4, <1>5, RecursionExists
<1>8. PICK v : v = [l \in 1 .. n |-> f[l]]
  OBVIOUS
<1>9. v = ViaBy(cs, v)
  <2>1. ASSUME NEW l \in 1 .. n
        PROVE  v[l] = [i \in DOMAIN cs[l].upvalues |->
                         LET u == cs[l].upvalues[i]
                         IN  IF u.isLocal THEN <<l - 1, u.index>> ELSE v[l - 1][u.index + 1]]
    <3>1. f[l] = step(l, f[l - 1])
      <4>1. l - 1 \in 0 .. n
        OBVIOUS
      <4>2. f[l - 1] \in V[l - 1] /\ f[l] = F[l][f[l - 1]]
        BY <1>7, <4>1 DEF Recursive
      <4> QED BY <1>6, <4>2
    <3>2. ASSUME NEW i \in D(l)
          PROVE  (IF cs[l].upvalues[i].isLocal THEN <<l - 1, cs[l].upvalues[i].index>>
                                               ELSE f[l - 1][cs[l].upvalues[i].index + 1])
                 = IF cs[l].upvalues[i].isLocal THEN <<l - 1, cs[l].upvalues[i].index>>
                                                ELSE v[l - 1][cs[l].upvalues[i].index + 1]
      <4>1. l > 1
        BY <1>1 DEF Linked, Refers
      <4>2. l - 1 \in 1 .. n
        BY <4>1
      <4>3. v[l - 1] = f[l - 1]
        BY <1>8, <4>2
      <4> QED BY <4>3
    <3>3. DOMAIN cs[l].upvalues = D(l)
      BY <1>1, LevelTyped
    <3>4. v[l] = f[l]
      BY <1>8
    <3> QED BY <3>1, <3>2, <3>3, <3>4
  <2>2. v = [l \in 1 .. Len(cs) |-> v[l]]
    BY <1>1, <1>8
  <2> HIDE DEF D, step
  <2> QED BY <1>1, <2>1, <2>2 DEF ViaBy
<1> QED BY <1>9 DEF Via

(* One upvalue. *)
ViaOf(cs, v, l, u) == IF u.isLocal THEN <<l - 1, u.index>> ELSE v[l - 1][u.index + 1]

LEMMA ViaIs ==
  ASSUME NEW cs \in Seq(Sound), Linked(cs), NEW l \in 1 .. Len(cs), NEW i \in 1 .. Len(cs[l].upvalues)
  PROVE  /\ Refers(cs, l, cs[l].upvalues[i]) /\ cs[l].upvalues[i].isLocal \in BOOLEAN
         /\ Via(cs)[l][i] = ViaOf(cs, Via(cs), l, cs[l].upvalues[i])
<1>1. DOMAIN cs[l].upvalues = 1 .. Len(cs[l].upvalues) /\ cs[l].upvalues[i].isLocal \in BOOLEAN
  BY LevelTyped
<1>2. PICK v, w : v = Via(cs) /\ w = ViaBy(cs, v) /\ v = w
  BY ViaExists
<1>3. w[l] = [k \in DOMAIN cs[l].upvalues |-> ViaOf(cs, v, l, cs[l].upvalues[k])]
  BY <1>2 DEF ViaBy, ViaOf
<1>4. w[l][i] = ViaOf(cs, v, l, cs[l].upvalues[i])
  BY <1>1, <1>3
<1> QED BY <1>1, <1>2, <1>4 DEF Linked

(* Upvalues are only added. *)
Extends(cs, ds) ==
  /\ Len(ds) = Len(cs)
  /\ \A l \in 1 .. Len(cs) :
       /\ Len(cs[l].upvalues) <= Len(ds[l].upvalues)
       /\ \A i \in 1 .. Len(cs[l].upvalues) : ds[l].upvalues[i] = cs[l].upvalues[i]

LEMMA ViaKept ==
  ASSUME NEW cs \in Seq(Sound), NEW ds \in Seq(Sound), Linked(cs), Linked(ds), Extends(cs, ds)
  PROVE  \A l \in 1 .. Len(cs) : \A i \in 1 .. Len(cs[l].upvalues) : Via(ds)[l][i] = Via(cs)[l][i]
<1>1. PICK n \in Nat : n = Len(cs) /\ n = Len(ds)
  BY LenProperties DEF Extends
<1>2. PICK S : S = {l \in 1 .. n : \E i \in 1 .. Len(cs[l].upvalues) : Via(ds)[l][i] # Via(cs)[l][i]}
  OBVIOUS
<1>3. CASE S = {}
  BY <1>1, <1>2, <1>3
<1>4. CASE S # {}
  <2>1. S \subseteq Nat
    BY <1>2
  <2>2. PICK m \in S : \A k \in Nat : k < m => k \notin S
    BY <1>4, <2>1, Least
  <2>3. m \in 1 .. n
    BY <1>2, <2>2
  <2>4. PICK i \in 1 .. Len(cs[m].upvalues) : Via(ds)[m][i] # Via(cs)[m][i]
    BY <1>2, <2>2
  <2>5. PICK u : u = cs[m].upvalues[i]
    OBVIOUS
  <2>6. i \in 1 .. Len(ds[m].upvalues) /\ u = ds[m].upvalues[i]
    <3>1. Len(cs[m].upvalues) \in Nat /\ Len(ds[m].upvalues) \in Nat
      BY <1>1, <2>3, LevelTyped
    <3> QED BY <1>1, <2>3, <2>4, <2>5, <3>1 DEF Extends
  <2>7. Refers(cs, m, u) /\ u.isLocal \in BOOLEAN /\ Via(cs)[m][i] = ViaOf(cs, Via(cs), m, u)
    <3>1. m \in 1 .. Len(cs)
      BY <1>1, <2>3
    <3> QED BY <2>4, <2>5, <3>1, ViaIs
  <2>8. Via(ds)[m][i] = ViaOf(ds, Via(ds), m, u)
    <3>1. m \in 1 .. Len(ds)
      BY <1>1, <2>3
    <3> QED BY <2>6, <3>1, ViaIs
  <2>9. CASE u.isLocal
    BY <2>4, <2>7, <2>8, <2>9 DEF ViaOf
  <2>10. CASE ~u.isLocal
    <3>1. PICK j : j = m - 1 /\ j \in 1 .. n /\ j \in Nat /\ j < m
      BY <2>3, <2>7 DEF Refers
    <3>2. u.index + 1 \in 1 .. Len(cs[j].upvalues)
      BY <2>7, <2>10, <3>1 DEF Refers
    <3>3. j \notin S
      BY <2>2, <3>1
    <3>4. Via(ds)[j][u.index + 1] = Via(cs)[j][u.index + 1]
      BY <1>2, <3>1, <3>2, <3>3
    <3> QED BY <2>4, <2>7, <2>8, <2>10, <3>1, <3>4 DEF ViaOf
  <2> QED BY <2>7, <2>9, <2>10
<1> QED BY <1>3, <1>4

----------------------------------------------------------------------------
(* Accesses. *)

Declared(cs, x) == UNION {{<<l, i - 1>> : i \in LocalsNamed(cs[l], x)} : l \in DOMAIN cs}

Innermost(where, declared) ==
  /\ where = <<0, 0>> \/ where \in declared
  /\ \A d \in declared : d[1] < where[1] \/ (d[1] = where[1] /\ d[2] <= where[2])

(* What an access that waits for its value will write to. *)
Good(cs, i) ==
  /\ i.code[1].op \in {"GET_UPVALUE", "SET_UPVALUE"} => i.code[2].byte + 1 \in 1 .. Len(cs[Len(cs)].upvalues)
  /\ Innermost(DenotedIn(cs, Via(cs), i.code), Declared(cs, i.name))

SameNames(cs, ds) == \A l \in 1 .. Len(cs) : \A x : LocalsNamed(ds[l], x) = LocalsNamed(cs[l], x)

LEMMA DeclaredKept ==
  ASSUME NEW cs \in Seq(Sound), NEW ds \in Seq(Sound), Len(ds) = Len(cs), SameNames(cs, ds), NEW x
  PROVE  Declared(ds, x) = Declared(cs, x)
<1>1. DOMAIN ds = 1 .. Len(cs) /\ DOMAIN cs = 1 .. Len(cs)
  BY LenProperties
<1>2. \A l \in 1 .. Len(cs) : LocalsNamed(ds[l], x) = LocalsNamed(cs[l], x)
  BY DEF SameNames
<1>3. \A d : d \in Declared(ds, x) <=> \E l \in 1 .. Len(cs) : d \in {<<l, i - 1>> : i \in LocalsNamed(ds[l], x)}
  BY <1>1 DEF Declared
<1>4. \A d : d \in Declared(cs, x) <=> \E l \in 1 .. Len(cs) : d \in {<<l, i - 1>> : i \in LocalsNamed(cs[l], x)}
  BY <1>1 DEF Declared
<1>5. \A d : d \in Declared(ds, x) <=> d \in Declared(cs, x)
  BY <1>2, <1>3, <1>4
<1> QED BY <1>5

LEMMA GoodKept ==
  ASSUME NEW cs \in Seq(Sound), NEW ds \in Seq(Sound), Linked(cs), Linked(ds), Extends(cs, ds), SameNames(cs, ds),
         Len(cs) > 0, NEW i, Good(cs, i)
  PROVE  Good(ds, i)
<1>1. PICK n \in Nat : n = Len(cs) /\ n = Len(ds) /\ n \in 1 .. n
  BY LenProperties DEF Extends
<1>2. Len(cs[n].upvalues) \in Nat /\ Len(ds[n].upvalues) \in Nat /\ Len(cs[n].upvalues) <= Len(ds[n].upvalues)
  BY <1>1, LevelTyped DEF Extends
<1>3. i.code[1].op \in {"GET_UPVALUE", "SET_UPVALUE"} =>
        i.code[2].byte + 1 \in 1 .. Len(cs[n].upvalues) /\ i.code[2].byte + 1 \in 1 .. Len(ds[n].upvalues)
  BY <1>1, <1>2 DEF Good
<1>4. i.code[1].op \in {"GET_UPVALUE", "SET_UPVALUE"} =>
        Via(ds)[n][i.code[2].byte + 1] = Via(cs)[n][i.code[2].byte + 1]
  <2>1. \A l \in 1 .. Len(cs) : \A k \in 1 .. Len(cs[l].upvalues) : Via(ds)[l][k] = Via(cs)[l][k]
    BY ViaKept
  <2>2. PICK k : k = i.code[2].byte + 1
    OBVIOUS
  <2> QED BY <1>1, <1>3, <2>1, <2>2
<1>5. DenotedIn(ds, Via(ds), i.code) = DenotedIn(cs, Via(cs), i.code)
  BY <1>1, <1>4 DEF DenotedIn
<1>6. Declared(ds, i.name) = Declared(cs, i.name)
  BY <1>1, DeclaredKept
<1> QED BY <1>1, <1>3, <1>5, <1>6 DEF Good

LEMMA LinkedNow ==
  ASSUME NEW cs \in Seq(Sound), NEW ds \in Seq(Sound), NEW n, n = Len(cs), n > 0, NEW f, ds = [cs EXCEPT ![n] = f],
         f.upvalues = cs[n].upvalues, Linked(cs)
  PROVE  /\ Linked(ds) /\ Extends(cs, ds) /\ Len(ds) = Len(cs)
         /\ f.locals = cs[n].locals => SameNames(cs, ds)
<1>1. n \in Nat /\ n \in 1 .. n /\ DOMAIN cs = 1 .. n
  BY LenProperties
<1>2. DOMAIN ds = 1 .. n /\ \A l \in 1 .. n : ds[l] = IF l = n THEN f ELSE cs[l]
  BY <1>1
<1>3. Len(ds) = n
  BY <1>1, <1>2, LenProperties
<1>4. \A l \in 1 .. n : ds[l].upvalues = cs[l].upvalues
  BY <1>1, <1>2
<1>5. ASSUME NEW l \in 1 .. n, NEW i \in 1 .. Len(ds[l].upvalues)
      PROVE  Refers(ds, l, ds[l].upvalues[i])
  <2>1. PICK u : u = ds[l].upvalues[i] /\ u = cs[l].upvalues[i] /\ i \in 1 .. Len(cs[l].upvalues)
    BY <1>4
  <2>2. Refers(cs, l, u)
    BY <2>1 DEF Linked
  <2>3. PICK j : j = l - 1 /\ j \in 1 .. n /\ j # n
    BY <1>1, <2>2 DEF Refers
  <2>4. ds[j] = cs[j]
    BY <1>2, <2>3
  <2> QED BY <2>1, <2>2, <2>3, <2>4 DEF Refers
<1>6. Linked(ds)
  BY <1>3, <1>5 DEF Linked
<1>7. \A l \in 1 .. n : Len(cs[l].upvalues) \in Nat
  BY LevelTyped
<1>8. Extends(cs, ds)
  BY <1>3, <1>4, <1>7 DEF Extends
<1>9. ASSUME f.locals = cs[n].locals PROVE SameNames(cs, ds)
  <2>1. \A l \in 1 .. n : ds[l].locals = cs[l].locals
    BY <1>1, <1>2, <1>9
  <2> QED BY <2>1 DEF SameNames, LocalsNamed
<1> QED BY <1>3, <1>6, <1>8, <1>9

(* Between an access and the item the parser is at are parts of expressions. *)
Waits(s) == \A k \in 1 .. Len(s) : s[k].do = "access" => \A j \in 1 .. k - 1 : s[j].do \in ExpressionTasks

AccessOK ==
  status = "compiling" =>
    /\ Linked(compilers)
    /\ Waits(todo)
    /\ \A k \in 1 .. Len(todo) : todo[k].do = "access" => Good(compilers, todo[k])

NewTasks == Tasks \ {"access"}
NewParts == ExpressionTasks \ {"access"}
Quiet(items, T) == \E S : items \in Seq(S) /\ \A i \in S : i.do \in T

LEMMA QuietItems ==
  ASSUME NEW T
  PROVE  /\ Quiet(<<>>, T)
         /\ \A x : x.do \in T => Quiet(<<x>>, T)
         /\ \A x, y : x.do \in T /\ y.do \in T => Quiet(<<x, y>>, T)
         /\ \A x, y, z : x.do \in T /\ y.do \in T /\ z.do \in T => Quiet(<<x, y, z>>, T)
         /\ \A w, x, y, z : w.do \in T /\ x.do \in T /\ y.do \in T /\ z.do \in T => Quiet(<<w, x, y, z>>, T)
<1>2. ASSUME NEW x, x.do \in T PROVE Quiet(<<x>>, T)
  <2>1. PICK S : S = {x}
    OBVIOUS
  <2>2. <<x>> \in Seq(S) /\ \A i \in S : i.do \in T
    BY <1>2, <2>1
  <2> QED BY <2>2 DEF Quiet
<1>3. ASSUME NEW x, NEW y, x.do \in T, y.do \in T PROVE Quiet(<<x, y>>, T)
  <2>1. PICK S : S = {x, y}
    OBVIOUS
  <2>2. <<x, y>> \in Seq(S) /\ \A i \in S : i.do \in T
    BY <1>3, <2>1
  <2> QED BY <2>2 DEF Quiet
<1>4. ASSUME NEW x, NEW y, NEW z, x.do \in T, y.do \in T, z.do \in T PROVE Quiet(<<x, y, z>>, T)
  <2>1. PICK S : S = {x, y, z}
    OBVIOUS
  <2>2. <<x, y, z>> \in Seq(S) /\ \A i \in S : i.do \in T
    BY <1>4, <2>1
  <2> QED BY <2>2 DEF Quiet
<1>5. ASSUME NEW w, NEW x, NEW y, NEW z, w.do \in T, x.do \in T, y.do \in T, z.do \in T PROVE Quiet(<<w, x, y, z>>, T)
  <2>1. PICK S : S = {w, x, y, z}
    OBVIOUS
  <2>2. <<w, x, y, z>> \in Seq(S) /\ \A i \in S : i.do \in T
    BY <1>5, <2>1
  <2> QED BY <2>2 DEF Quiet
<1>6. Quiet(<<>>, T)
  <2>1. PICK S : S = {}
    OBVIOUS
  <2>2. <<>> \in Seq(S) /\ \A i \in S : i.do \in T
    BY <2>1
  <2> QED BY <2>2 DEF Quiet
<1> QED BY <1>2, <1>3, <1>4, <1>5, <1>6

(* t is s after its first item was replaced by m others. *)
Spliced(s, m, T, t) ==
  /\ Len(t) \in Nat /\ Len(s) \in Nat /\ Len(t) = m + Len(s) - 1 /\ Len(s) >= 1
  /\ \A k \in 1 .. m : t[k].do \in T
  /\ \A k \in m + 1 .. Len(t) : k - m + 1 \in 2 .. Len(s) /\ t[k] = s[k - m + 1]

LEMMA Indexed ==
  ASSUME NEW s \in Seq(Items), s # <<>>, NEW T, NEW items, Quiet(items, T), NEW t, t = items \o Tail(s)
  PROVE  \E m \in Nat : Spliced(s, m, T, t)
<1>1. PICK S : items \in Seq(S) /\ \A i \in S : i.do \in T
  BY DEF Quiet
<1>2. PICK r : r = Tail(s)
  OBVIOUS
<1>3. r \in Seq(Items) /\ Len(s) \in Nat /\ Len(s) >= 1 /\ Len(r) = Len(s) - 1 /\ \A i \in 1 .. Len(r) : r[i] = s[i + 1]
  <2>1. Len(s) \in Nat /\ Len(s) >= 1
    BY EmptySeq, LenProperties
  <2> QED BY <1>2, <2>1, HeadTailProperties
<1>4. PICK A : A = S \cup Items
  OBVIOUS
<1>5. items \in Seq(A) /\ r \in Seq(A)
  BY <1>1, <1>3, <1>4, SeqMonotonic
<1>6. PICK m \in Nat : m = Len(items)
  BY <1>1, LenProperties
<1>7. /\ Len(t) = m + Len(r)
      /\ \A i \in 1 .. m + Len(r) : t[i] = IF i <= m THEN items[i] ELSE r[i - m]
  BY <1>2, <1>5, <1>6, ConcatProperties
<1>8. \A k \in 1 .. m : items[k] \in S
  BY <1>1, <1>6, ElementOfSeq
<1>9. ASSUME NEW k \in 1 .. m PROVE t[k] = items[k] /\ t[k].do \in T
  <2>1. k \in 1 .. m + Len(r) /\ k <= m
    BY <1>3
  <2> QED BY <1>1, <1>7, <1>8, <2>1
<1>10. ASSUME NEW k \in m + 1 .. Len(t) PROVE k - m + 1 \in 2 .. Len(s) /\ t[k] = s[k - m + 1]
  <2>1. k \in 1 .. m + Len(r) /\ ~(k <= m) /\ k - m \in 1 .. Len(r)
    BY <1>3, <1>7
  <2>2. PICK j \in 1 .. Len(r) : j = k - m
    BY <2>1
  <2>3. t[k] = r[j] /\ r[j] = s[j + 1]
    BY <1>3, <1>7, <2>1, <2>2
  <2>4. j + 1 = k - m + 1
    BY <1>6, <2>2
  <2> QED BY <1>3, <2>2, <2>3, <2>4
<1>11. Len(t) \in Nat /\ Len(t) = m + Len(s) - 1
  BY <1>3, <1>7
<1> QED BY <1>3, <1>9, <1>10, <1>11 DEF Spliced

(* The accesses of t are some of s. *)
OldAccesses(s, t) == \A k \in 1 .. Len(t) : t[k].do = "access" => \E j \in 1 .. Len(s) : t[k] = s[j]

LEMMA WaitsParts ==
  ASSUME NEW s \in Seq(Items), s # <<>>, Waits(s), NEW items, Quiet(items, NewParts), NEW t, t = items \o Tail(s)
  PROVE  Waits(t) /\ OldAccesses(s, t)
<1>1. PICK m \in Nat : Spliced(s, m, NewParts, t)
  BY Indexed
<1>2. /\ Len(t) \in Nat /\ Len(s) \in Nat /\ Len(t) = m + Len(s) - 1 /\ Len(s) >= 1
      /\ \A k \in 1 .. m : t[k].do \in NewParts
      /\ \A k \in m + 1 .. Len(t) : k - m + 1 \in 2 .. Len(s) /\ t[k] = s[k - m + 1]
  BY <1>1 DEF Spliced
<1>3. ASSUME NEW k \in 1 .. Len(t), t[k].do = "access"
      PROVE  k \in m + 1 .. Len(t)
  <2>1. k \notin 1 .. m
    BY <1>2, <1>3 DEF NewParts
  <2> QED BY <1>2, <2>1
<1>4. ASSUME NEW k \in 1 .. Len(t), t[k].do = "access", NEW j \in 1 .. k - 1
      PROVE  t[j].do \in ExpressionTasks
  <2>1. PICK i \in 2 .. Len(s) : i = k - m + 1 /\ t[k] = s[i]
    BY <1>2, <1>3, <1>4
  <2>2. CASE j \in 1 .. m
    BY <1>2, <2>2 DEF NewParts
  <2>3. CASE j \notin 1 .. m
    <3>1. j \in m + 1 .. Len(t)
      BY <1>2, <2>3
    <3>2. PICK h \in 2 .. Len(s) : h = j - m + 1 /\ t[j] = s[h]
      BY <1>2, <3>1
    <3>3. i \in 1 .. Len(s) /\ h \in 1 .. i - 1
      BY <1>2, <2>1, <3>2
    <3> QED BY <1>4, <2>1, <3>2, <3>3 DEF Waits
  <2> QED BY <2>2, <2>3
<1>5. ASSUME NEW k \in 1 .. Len(t), t[k].do = "access"
      PROVE  \E j \in 1 .. Len(s) : t[k] = s[j]
  <2>1. PICK i \in 2 .. Len(s) : i = k - m + 1 /\ t[k] = s[i]
    BY <1>2, <1>3, <1>5
  <2>2. i \in 1 .. Len(s)
    BY <1>2
  <2> QED BY <2>1, <2>2
<1> QED BY <1>4, <1>5 DEF Waits, OldAccesses

LEMMA WaitsTasks ==
  ASSUME NEW s \in Seq(Items), s # <<>>, Waits(s), s[1].do \notin ExpressionTasks,
         NEW items, Quiet(items, NewTasks), NEW t, t = items \o Tail(s)
  PROVE  Waits(t) /\ \A k \in 1 .. Len(t) : t[k].do # "access"
<1>1. PICK m \in Nat : Spliced(s, m, NewTasks, t)
  BY Indexed
<1>2. /\ Len(t) \in Nat /\ Len(s) \in Nat /\ Len(t) = m + Len(s) - 1 /\ Len(s) >= 1
      /\ \A k \in 1 .. m : t[k].do \in NewTasks
      /\ \A k \in m + 1 .. Len(t) : k - m + 1 \in 2 .. Len(s) /\ t[k] = s[k - m + 1]
  BY <1>1 DEF Spliced
<1>3. ASSUME NEW k \in 1 .. Len(t) PROVE t[k].do # "access"
  <2>1. CASE k \in 1 .. m
    BY <1>2, <2>1 DEF NewTasks
  <2>2. CASE k \notin 1 .. m
    <3>1. k \in m + 1 .. Len(t)
      BY <1>2, <2>2
    <3>2. PICK i \in 2 .. Len(s) : i = k - m + 1 /\ t[k] = s[i]
      BY <1>2, <3>1
    <3>3. i \in 1 .. Len(s) /\ 1 \in 1 .. i - 1
      BY <1>2
    <3> QED BY <3>2, <3>3 DEF Waits
  <2> QED BY <2>1, <2>2
<1> QED BY <1>3 DEF Waits

----------------------------------------------------------------------------
(* Which steps keep what. *)

KeepsUpvalues == compilers' = compilers \/ \E f : Now(f) /\ f.upvalues = Current.upvalues
KeepsNames == compilers' = compilers \/ \E f : Now(f) /\ f.upvalues = Current.upvalues /\ f.locals = Current.locals
Adds(T) == \E items : Quiet(items, T) /\ Continue(items)

LEMMA Adding ==
  ASSUME NEW T
  PROVE  /\ Continue(<<>>) => Adds(T)
         /\ \A x : x.do \in T /\ Continue(<<x>>) => Adds(T)
         /\ \A x, y : x.do \in T /\ y.do \in T /\ Continue(<<x, y>>) => Adds(T)
         /\ \A x, y, z : x.do \in T /\ y.do \in T /\ z.do \in T /\ Continue(<<x, y, z>>) => Adds(T)
         /\ \A w, x, y, z : w.do \in T /\ x.do \in T /\ y.do \in T /\ z.do \in T /\ Continue(<<w, x, y, z>>) => Adds(T)
BY QuietItems DEF Adds

LEMMA CompilersKept ==
  ASSUME CodegenOK, CodegenOK', status = "compiling", KeepsUpvalues, Linked(compilers)
  PROVE  /\ Linked(compilers') /\ Extends(compilers, compilers')
         /\ KeepsNames => SameNames(compilers, compilers')
<1>1. PICK cs, ds, n : cs = compilers /\ ds = compilers' /\ n = Len(compilers)
  OBVIOUS
<1>2. cs \in Seq(Sound) /\ ds \in Seq(Sound) /\ n = Len(cs) /\ n \in Nat /\ n > 0 /\ Linked(cs)
  BY <1>1, Meeting DEF CodegenOK
<1>3. CASE ds = cs
  <2>1. \A l \in 1 .. Len(cs) : Len(cs[l].upvalues) \in Nat
    BY <1>2, LevelTyped
  <2> QED BY <1>1, <1>2, <1>3, <2>1 DEF Extends, SameNames
<1>4. CASE ds # cs
  <2>1. PICK f : ds = [cs EXCEPT ![n] = f] /\ f.upvalues = cs[n].upvalues /\ (KeepsNames => f.locals = cs[n].locals)
    <3>1. CASE KeepsNames
      BY <1>1, <1>4, <3>1 DEF KeepsNames, Now, Current
    <3>2. CASE ~KeepsNames
      BY <1>1, <1>4, <3>2 DEF KeepsUpvalues, Now, Current
    <3> QED BY <3>1, <3>2
  <2>2. Linked(ds) /\ Extends(cs, ds) /\ (f.locals = cs[n].locals => SameNames(cs, ds))
    BY <1>2, <2>1, LinkedNow
  <2> QED BY <1>1, <2>1, <2>2
<1> QED BY <1>3, <1>4

LEMMA TasksKept ==
  ASSUME CodegenOK, CodegenOK', AccessOK, status = "compiling", First.do \notin ExpressionTasks,
         Adds(NewTasks), KeepsUpvalues
  PROVE  AccessOK'
<1>1. Linked(compilers) /\ Waits(todo)
  BY DEF AccessOK
<1>2. Linked(compilers')
  BY <1>1, CompilersKept
<1>3. PICK items : Quiet(items, NewTasks) /\ todo' = items \o Tail(todo)
  BY DEF Adds, Continue
<1>4. PICK s, t : s = todo /\ t = todo'
  OBVIOUS
<1>5. s \in Seq(Items) /\ s # <<>> /\ Waits(s) /\ s[1].do \notin ExpressionTasks /\ t = items \o Tail(s)
  BY <1>1, <1>3, <1>4, Meeting DEF CodegenOK, First
<1>6. Waits(t) /\ \A k \in 1 .. Len(t) : t[k].do # "access"
  BY <1>3, <1>5, WaitsTasks
<1> QED BY <1>2, <1>4, <1>6 DEF AccessOK

LEMMA PartsKept ==
  ASSUME CodegenOK, CodegenOK', AccessOK, status = "compiling", Adds(NewParts), KeepsNames
  PROVE  AccessOK'
<1>1. Linked(compilers) /\ Waits(todo) /\ \A k \in 1 .. Len(todo) : todo[k].do = "access" => Good(compilers, todo[k])
  BY DEF AccessOK
<1>2. KeepsUpvalues
  BY DEF KeepsUpvalues, KeepsNames
<1>3. Linked(compilers') /\ Extends(compilers, compilers') /\ SameNames(compilers, compilers')
  BY <1>1, <1>2, CompilersKept
<1>4. PICK items : Quiet(items, NewParts) /\ todo' = items \o Tail(todo)
  BY DEF Adds, Continue
<1>5. PICK s, t, cs, ds : s = todo /\ t = todo' /\ cs = compilers /\ ds = compilers'
  OBVIOUS
<1>6. /\ s \in Seq(Items) /\ s # <<>> /\ Waits(s) /\ t = items \o Tail(s)
      /\ cs \in Seq(Sound) /\ ds \in Seq(Sound) /\ Len(cs) > 0 /\ Linked(cs) /\ Linked(ds)
      /\ Extends(cs, ds) /\ SameNames(cs, ds)
  BY <1>1, <1>3, <1>4, <1>5, Meeting DEF CodegenOK
<1>7. Waits(t) /\ OldAccesses(s, t)
  BY <1>4, <1>6, WaitsParts
<1>8. ASSUME NEW k \in 1 .. Len(t), t[k].do = "access" PROVE Good(ds, t[k])
  <2>1. PICK i : i = t[k] /\ i.do = "access"
    BY <1>8
  <2>2. Good(cs, i)
    BY <1>1, <1>5, <1>7, <1>8, <2>1 DEF OldAccesses
  <2>3. Good(ds, i)
    BY <1>6, <2>2, GoodKept
  <2> QED BY <2>1, <2>3
<1> QED BY <1>3, <1>5, <1>7, <1>8 DEF AccessOK

LEMMA FailKept == fail => AccessOK'
BY DEF fail, AccessOK

----------------------------------------------------------------------------
(* What changes a function keeps its upvalues and, mostly, its locals. *)

Rec(f) == {"upvalues", "locals"} \subseteq DOMAIN f
Kin(f, g) == Rec(g) /\ g.upvalues = f.upvalues
Twin(f, g) == Rec(g) /\ g.upvalues = f.upvalues /\ g.locals = f.locals

LEMMA CurrentRec == ASSUME CodegenOK, status = "compiling" PROVE Rec(Current)
BY Meeting DEF CompilersTyped, Rec

LEMMA Twins ==
  ASSUME NEW f, Rec(f)
  PROVE  /\ Twin(f, f)
         /\ \A c : Twin(f, emit(f, c))
         /\ \A x : Twin(f, emitJump(f, x)) /\ Twin(f, emitLoop(f, x)) /\ Twin(f, patchJump(f, x))
         /\ Twin(f, emitReturn(f))
         /\ \A s : Twin(f, [f EXCEPT !.loops = s]) /\ Twin(f, [f EXCEPT !.objectNestingDepth = s])
<1>1. \A c : Twin(f, emit(f, c))
  BY DEF Twin, Rec, emit
<1>2. \A x : Twin(f, patchJump(f, x))
  BY DEF Twin, Rec, patchJump
<1>3. \A s : Twin(f, [f EXCEPT !.loops = s]) /\ Twin(f, [f EXCEPT !.objectNestingDepth = s])
  BY DEF Twin, Rec
<1> QED BY <1>1, <1>2, <1>3 DEF emitJump, emitLoop, emitReturn, Twin

LEMMA Kins ==
  ASSUME NEW f, Rec(f)
  PROVE  /\ Kin(f, f) /\ \A g : Twin(f, g) => Kin(f, g)
         /\ \A x : Kin(f, declareVariable(f, x))
         /\ Kin(f, markInitialized(f)) /\ Kin(f, defineVariable(f)) /\ Kin(f, beginScope(f)) /\ Kin(f, endScope(f))
<1>1. \A g : Twin(f, g) => Kin(f, g)
  BY DEF Twin, Kin
<1>2. Kin(f, f)
  BY DEF Kin
<1>3. ASSUME NEW x PROVE Kin(f, declareVariable(f, x))
  BY DEF Kin, Rec, declareVariable
<1>4. Kin(f, markInitialized(f))
  BY DEF Kin, Rec, markInitialized
<1>5. Kin(f, defineVariable(f))
  BY <1>1, <1>4, Twins DEF defineVariable
<1>6. Kin(f, beginScope(f))
  BY DEF Kin, Rec, beginScope
<1>7. Kin(f, endScope(f))
  <2>1. PICK k : k = Cardinality({i \in DOMAIN f.locals : f.locals[i].depth < f.scopeDepth})
    OBVIOUS
  <2>2. PICK g : g = [f EXCEPT !.scopeDepth = @ - 1, !.locals = SubSeq(@, 1, k)]
    OBVIOUS
  <2>3. Kin(f, g)
    BY <2>2 DEF Kin, Rec
  <2>4. PICK c : c = Unwind(SubSeq(f.locals, k + 1, Len(f.locals)))
    OBVIOUS
  <2>5. endScope(f) = emit(g, c)
    BY <2>1, <2>2, <2>4 DEF endScope
  <2>6. Twin(g, emit(g, c))
    BY <2>3, Twins DEF Kin
  <2> QED BY <2>3, <2>5, <2>6 DEF Kin, Twin
<1> QED BY <1>1, <1>2, <1>3, <1>4, <1>5, <1>6, <1>7

LEMMA Turns ==
  ASSUME CodegenOK, status = "compiling"
  PROVE  /\ \A f : Now(f) /\ Twin(Current, f) => KeepsNames
         /\ \A f : Now(f) /\ Kin(Current, f) => KeepsUpvalues
         /\ compilers' = compilers => KeepsNames /\ KeepsUpvalues
BY DEF KeepsNames, KeepsUpvalues, Twin, Kin

----------------------------------------------------------------------------
(* The steps, one by one. *)

LEMMA Does ==
  /\ \A do : Item(do).do = do
  /\ \A do, n : [Item(do) EXCEPT !.at = n].do = do /\ [Item(do) EXCEPT !.name = n].do = do
  /\ \A c : Emit(c).do = "emit" /\ Patch(c).do = "patch" /\ Function(c).do = "function"
  /\ \A verb, x : Named(verb, x).do = "named"
  /\ Expression.do = "expression"
BY DEF Item, Emit, Patch, Function, Named, Expression

LEMMA FirstDoes ==
  ASSUME CodegenOK, status = "compiling"
  PROVE  /\ First.do \in Tasks
         /\ \A do : [First EXCEPT !.do = do].do = do
         /\ \A do, n : [First EXCEPT !.do = do, !.exit = n].do = do
         /\ \A do, n : [First EXCEPT !.do = do, !.code = n].do = do
         /\ \A do, n, c : [First EXCEPT !.do = do, !.at = n, !.code = c].do = do
<1>1. PICK i : i = First /\ i \in Items
  BY Meeting
<1>2. "do" \in DOMAIN i /\ i.do \in Tasks
  BY <1>1 DEF Items, ItemRecords
<1> QED BY <1>1, <1>2

PlainStep ==
  /\ status = "compiling" /\ First.do \notin ExpressionTasks
  /\ fail \/ (Adds(NewTasks) /\ KeepsUpvalues)
PartStep ==
  /\ status = "compiling"
  /\ fail \/ (Adds(NewParts) /\ KeepsNames)

LEMMA PlainKept == ASSUME CodegenOK, CodegenOK', AccessOK, PlainStep PROVE AccessOK'
BY TasksKept, FailKept DEF PlainStep

LEMMA PartKept == ASSUME CodegenOK, CodegenOK', AccessOK, PartStep PROVE AccessOK'
BY PartsKept, FailKept DEF PartStep

LEMMA DeclaresPlain ==
  ASSUME CodegenOK, status = "compiling", First.do \notin ExpressionTasks, NEW x, NEW items, Declare(x, items),
         Quiet(items, NewTasks)
  PROVE  PlainStep
<1>1. CASE CannotDeclare(Current, x)
  BY <1>1 DEF Declare, PlainStep
<1>2. CASE ~CannotDeclare(Current, x)
  <2>1. Now(declareVariable(Current, x)) /\ Continue(items)
    BY <1>2 DEF Declare
  <2>2. Kin(Current, declareVariable(Current, x))
    BY CurrentRec, Kins
  <2>3. KeepsUpvalues
    BY <2>1, <2>2, Turns
  <2>4. Adds(NewTasks)
    BY <2>1 DEF Adds
  <2> QED BY <2>3, <2>4 DEF PlainStep
<1> QED BY <1>1, <1>2

LEMMA varDeclarationPlain == ASSUME CodegenOK, NEW x, varDeclaration(x) PROVE PlainStep
<1>1. status = "compiling" /\ First.do \notin ExpressionTasks
  BY DEF varDeclaration, Doing, ExpressionTasks
<1>2. PICK i, d, c, items : /\ i = Item("initializer") /\ d = Item("define") /\ c = Item("comma")
                            /\ items = <<i, d, c>> /\ Declare(x, items)
  BY DEF varDeclaration
<1>3. i.do \in NewTasks /\ d.do \in NewTasks /\ c.do \in NewTasks
  BY <1>2, Does DEF NewTasks, Tasks, PlainTasks
<1>4. Quiet(items, NewTasks)
  BY <1>2, <1>3, QuietItems
<1> QED BY <1>1, <1>2, <1>4, DeclaresPlain

LEMMA funDeclarationPlain == ASSUME CodegenOK, NEW x, funDeclaration(x) PROVE PlainStep
<1>1. status = "compiling" /\ First.do \notin ExpressionTasks
  BY DEF funDeclaration, Doing, ExpressionTasks
<1>2. CASE CannotDeclare(Current, x)
  BY <1>1, <1>2 DEF funDeclaration, PlainStep
<1>3. CASE ~CannotDeclare(Current, x)
  <2>1. PICK f, g : f = declareVariable(Current, x) /\ g = markInitialized(f)
    OBVIOUS
  <2>2. Kin(Current, f) /\ Kin(f, g)
    BY <1>1, <2>1, CurrentRec, Kins DEF Kin
  <2>3. KeepsUpvalues
    <3>1. Kin(Current, g)
      BY <2>2 DEF Kin
    <3>2. Now(g)
      BY <1>3, <2>1 DEF funDeclaration
    <3> QED BY <1>1, <3>1, <3>2, Turns
  <2>4. PICK i, d : i = Function("function") /\ d = Item("define")
    OBVIOUS
  <2>5. i.do \in NewTasks /\ d.do \in NewTasks /\ Continue(<<i, d>>)
    BY <1>3, <2>4, Does DEF NewTasks, Tasks, funDeclaration
  <2> QED BY <1>1, <2>3, <2>5, Adding DEF PlainStep
<1> QED BY <1>2, <1>3

LEMMA classDeclarationPlain == ASSUME CodegenOK, NEW x, classDeclaration(x) PROVE PlainStep
<1>1. status = "compiling" /\ First.do \notin ExpressionTasks
  BY DEF classDeclaration, Doing, ExpressionTasks
<1>2. CASE CannotDeclare(Current, x)
  BY <1>1, <1>2 DEF classDeclaration, PlainStep
<1>3. CASE ~CannotDeclare(Current, x)
  <2>1. PICK f, c, g, h : /\ f = declareVariable(Current, x) /\ c = emitConstantCommond("CLASS")
                          /\ g = emit(f, c) /\ h = defineVariable(g)
    OBVIOUS
  <2>2. Kin(Current, f) /\ Twin(f, g) /\ Kin(g, h)
    <3>1. Kin(Current, f)
      BY <1>1, <2>1, CurrentRec, Kins
    <3>2. Twin(f, g)
      BY <2>1, <3>1, Twins DEF Kin
    <3> QED BY <2>1, <3>1, <3>2, Kins DEF Twin
  <2>3. KeepsUpvalues
    <3>1. Kin(Current, h)
      BY <2>2 DEF Kin, Twin
    <3>2. Now(h)
      BY <1>3, <2>1 DEF classDeclaration
    <3> QED BY <1>1, <3>1, <3>2, Turns
  <2>4. PICK w, i, y, z : w = Named("get", x) /\ i = Item("methods") /\ y = Emit(<<Op("POP")>>) /\ z = Item("classEnds")
    OBVIOUS
  <2>5. /\ w.do \in NewTasks /\ i.do \in NewTasks /\ y.do \in NewTasks /\ z.do \in NewTasks
        /\ Continue(<<w, i, y, z>>)
    BY <1>3, <2>4, Does DEF NewTasks, Tasks, ExpressionTasks, PlainTasks, classDeclaration
  <2> QED BY <1>1, <2>3, <2>5, Adding DEF PlainStep
<1> QED BY <1>2, <1>3

LEMMA parameterPlain == ASSUME CodegenOK, NEW x, parameter(x) PROVE PlainStep
<1>1. status = "compiling" /\ First.do = "parameters" /\ First.do \notin ExpressionTasks
  BY DEF parameter, Doing, ExpressionTasks
<1>2. CASE fail
  BY <1>1, <1>2 DEF PlainStep
<1>3. CASE ~fail
  <2>1. PICK f, g, h : /\ f = declareVariable(Current, x) /\ g = markInitialized(f) /\ h = [g EXCEPT !.arity = @ + 1]
    OBVIOUS
  <2>2. Kin(Current, f) /\ Kin(f, g) /\ Kin(g, h)
    <3>1. Kin(Current, f)
      BY <1>1, <2>1, CurrentRec, Kins
    <3>2. Kin(f, g)
      BY <2>1, <3>1, Kins DEF Kin
    <3>3. Kin(g, h)
      BY <2>1, <3>2 DEF Kin, Rec
    <3> QED BY <3>1, <3>2, <3>3
  <2>3. KeepsUpvalues
    <3>1. Kin(Current, h)
      BY <2>2 DEF Kin
    <3>2. Now(h)
      BY <1>3, <2>1 DEF parameter
    <3> QED BY <1>1, <3>1, <3>2, Turns
  <2>4. Continue(<<First>>)
    <3>1. PICK s, r : s = todo /\ r = Tail(todo)
      OBVIOUS
    <3>2. s \in Seq(Items) /\ s # <<>> /\ r \in Seq(Items)
      BY <1>1, <3>1, Meeting DEF CodegenOK
    <3>3. Len(s) \in Nat /\ Len(s) >= 1
      BY <3>2, EmptySeq, LenProperties
    <3>4. Len(s) = Len(r) + 1 /\ \A k \in 1 .. Len(r) : s[k + 1] = r[k]
      BY <3>1, <3>2, <3>3, HeadTailProperties
    <3>5. s[1] \in Items
      BY <1>1, <3>1, Meeting DEF First
    <3>6. s = <<s[1]>> \o r
      BY <3>2, <3>4, <3>5, FirstApart
    <3> QED BY <1>3, <3>1, <3>6 DEF Continue, First, parameter
  <2>5. First.do \in NewTasks
    BY <1>1 DEF NewTasks, Tasks, PlainTasks
  <2> QED BY <1>1, <2>3, <2>4, <2>5, Adding DEF PlainStep
<1> QED BY <1>2, <1>3

LEMMA declarationsPlain == ASSUME CodegenOK, declarations PROVE PlainStep
<1>1. status = "compiling" /\ First.do \notin ExpressionTasks /\ First.do \in NewTasks
  BY DEF declarations, Doing, ExpressionTasks, NewTasks, Tasks, Terminators, PlainTasks
<1>2. PICK i, j : i = Item("declaration") /\ j = First
  OBVIOUS
<1>3. i.do \in NewTasks /\ j.do \in NewTasks /\ Continue(<<i, j>>)
  BY <1>1, <1>2, Does DEF declarations, NewTasks, Tasks, PlainTasks
<1>4. KeepsUpvalues
  BY DEF declarations, KeepsUpvalues
<1> QED BY <1>1, <1>3, <1>4, Adding DEF PlainStep

(* The steps that leave the functions alone. *)
LEMMA ClosingPlain ==
  ASSUME CodegenOK, blockEnds \/ variablesEnd \/ parametersEnd \/ classEnds
  PROVE  PlainStep
<1>1. status = "compiling" /\ First.do \notin ExpressionTasks /\ Continue(<<>>) /\ compilers' = compilers
  BY DEF blockEnds, variablesEnd, parametersEnd, classEnds, Doing, ExpressionTasks, Same, Steady
<1>2. KeepsUpvalues
  BY <1>1 DEF KeepsUpvalues
<1> QED BY <1>1, <1>2, Adding DEF PlainStep

LEMMA programEndsPlain == ASSUME CodegenOK, programEnds PROVE PlainStep
<1>1. status = "compiling" /\ First.do \notin ExpressionTasks
  BY DEF programEnds, Doing, ExpressionTasks
<1>2. PICK i : i = Item("end")
  OBVIOUS
<1>3. i.do \in NewTasks /\ Continue(<<i>>)
  BY <1>2, Does DEF programEnds, NewTasks, Tasks, Terminators
<1>4. KeepsUpvalues
  BY DEF programEnds, KeepsUpvalues
<1> QED BY <1>1, <1>3, <1>4, Adding DEF PlainStep

LEMMA initializerPlain == ASSUME CodegenOK, initializer PROVE PlainStep
<1>1. status = "compiling" /\ First.do \notin ExpressionTasks
  BY DEF initializer, Doing, ExpressionTasks
<1>2. PICK rest \in {Expression, Emit(<<Op("NIL")>>)} : Continue(<<rest>>)
  BY DEF initializer
<1>3. rest.do \in NewTasks
  BY <1>2, Does DEF NewTasks, Tasks, ExpressionTasks
<1>4. KeepsUpvalues
  BY DEF initializer, KeepsUpvalues
<1> QED BY <1>1, <1>2, <1>3, <1>4, Adding DEF PlainStep

LEMMA definePlain == ASSUME CodegenOK, define PROVE PlainStep
<1>1. status = "compiling" /\ First.do \notin ExpressionTasks /\ Continue(<<>>) /\ Now(defineVariable(Current))
  BY DEF define, Doing, ExpressionTasks
<1>2. Kin(Current, defineVariable(Current))
  BY <1>1, CurrentRec, Kins
<1>3. KeepsUpvalues
  BY <1>1, <1>2, Turns
<1> QED BY <1>1, <1>3, Adding DEF PlainStep

LEMMA methodPlain == ASSUME CodegenOK, method PROVE PlainStep
<1>1. status = "compiling" /\ First.do \notin ExpressionTasks /\ First.do \in NewTasks
  BY DEF method, Doing, ExpressionTasks, NewTasks, Tasks, PlainTasks
<1>2. KeepsUpvalues
  BY DEF method, KeepsUpvalues
<1>3. CASE Continue(<<>>)
  BY <1>1, <1>2, <1>3, Adding DEF PlainStep
<1>4. CASE ~Continue(<<>>)
  <2>1. PICK type \in MethodTypes : Continue(<<Function(type), Emit(emitConstantCommond("METHOD")), First>>)
    BY <1>4 DEF method
  <2>2. PICK x, y, z : x = Function(type) /\ y = Emit(emitConstantCommond("METHOD")) /\ z = First
    OBVIOUS
  <2>3. x.do \in NewTasks /\ y.do \in NewTasks /\ z.do \in NewTasks
    BY <1>1, <2>2, Does DEF NewTasks, Tasks, ExpressionTasks
  <2> QED BY <1>1, <1>2, <2>1, <2>2, <2>3, Adding DEF PlainStep
<1> QED BY <1>3, <1>4

LEMMA endBlockPlain == ASSUME CodegenOK, endBlock PROVE PlainStep
<1>1. status = "compiling" /\ First.do \notin ExpressionTasks /\ Continue(<<>>) /\ Now(endScope(Current))
  BY DEF endBlock, Doing, ExpressionTasks
<1>2. Kin(Current, endScope(Current))
  BY <1>1, CurrentRec, Kins
<1>3. KeepsUpvalues
  BY <1>1, <1>2, Turns
<1> QED BY <1>1, <1>3, Adding DEF PlainStep

LEMMA AtStatementPlain ==
  ASSUME AtStatement
  PROVE  status = "compiling" /\ First.do \notin ExpressionTasks
BY DEF AtStatement, Doing, ExpressionTasks

LEMMA expressionStatementPlain == ASSUME CodegenOK, expressionStatement PROVE PlainStep
<1>1. AtStatement /\ Continue(<<Expression, Emit(<<Op("POP")>>)>>) /\ compilers' = compilers
  BY DEF expressionStatement
<1>2. Expression.do \in NewTasks /\ Emit(<<Op("POP")>>).do \in NewTasks
  BY Does DEF NewTasks, Tasks, ExpressionTasks
<1>3. KeepsUpvalues
  BY <1>1 DEF KeepsUpvalues
<1> QED BY <1>1, <1>2, <1>3, AtStatementPlain, Adding DEF PlainStep

LEMMA blockStatementPlain == ASSUME CodegenOK, blockStatement PROVE PlainStep
<1>1. AtStatement /\ Continue(<<Item("block"), Item("endScope")>>) /\ Now(beginScope(Current))
  BY DEF blockStatement
<1>2. Item("block").do \in NewTasks /\ Item("endScope").do \in NewTasks
  BY Does DEF NewTasks, Tasks, PlainTasks
<1>3. status = "compiling" /\ Kin(Current, beginScope(Current))
  BY <1>1, AtStatementPlain, CurrentRec, Kins
<1>4. KeepsUpvalues
  BY <1>1, <1>3, Turns
<1> QED BY <1>1, <1>2, <1>4, AtStatementPlain, Adding DEF PlainStep

LEMMA returnStatementPlain == ASSUME CodegenOK, returnStatement PROVE PlainStep
<1>1. AtStatement
  BY DEF returnStatement
<1>2. CASE fail
  BY <1>1, <1>2, AtStatementPlain DEF PlainStep
<1>3. CASE Now(emitReturn(Current)) /\ Continue(<<>>)
  <2>1. status = "compiling" /\ Kin(Current, emitReturn(Current))
    BY <1>1, AtStatementPlain, CurrentRec, Twins, Kins
  <2>2. KeepsUpvalues
    BY <1>3, <2>1, Turns
  <2> QED BY <1>1, <1>3, <2>2, AtStatementPlain, Adding DEF PlainStep
<1>4. CASE Continue(<<Expression, Emit(<<Op("RETURN")>>)>>) /\ compilers' = compilers
  <2>1. Expression.do \in NewTasks /\ Emit(<<Op("RETURN")>>).do \in NewTasks
    BY Does DEF NewTasks, Tasks, ExpressionTasks
  <2>2. KeepsUpvalues
    BY <1>4 DEF KeepsUpvalues
  <2> QED BY <1>1, <1>4, <2>1, <2>2, AtStatementPlain, Adding DEF PlainStep
<1> QED BY <1>2, <1>3, <1>4 DEF returnStatement

LEMMA forStatementPlain == ASSUME CodegenOK, forStatement PROVE PlainStep
<1>1. AtStatement /\ Now(beginScope(Current))
  BY DEF forStatement
<1>2. status = "compiling" /\ Kin(Current, beginScope(Current))
  BY <1>1, AtStatementPlain, CurrentRec, Kins
<1>3. KeepsUpvalues
  BY <1>1, <1>2, Turns
<1>4. PICK w, x, y, z : w = Item("forVariable") /\ x = Expression /\ y = Emit(<<Op("POP")>>) /\ z = Item("forCondition")
  OBVIOUS
<1>5. w.do \in NewTasks /\ x.do \in NewTasks /\ y.do \in NewTasks /\ z.do \in NewTasks
  BY <1>4, Does DEF NewTasks, Tasks, ExpressionTasks, PlainTasks, ForTasks
<1>6. PICK init \in {<<>>, <<w>>, <<x, y>>} : Continue(init \o <<z>>)
  BY <1>4 DEF forStatement
<1>7. Quiet(init \o <<z>>, NewTasks)
  <2>1. PICK S : S = {w, x, y, z}
    OBVIOUS
  <2>2. init \in Seq(S) /\ <<z>> \in Seq(S)
    <3>1. w \in S /\ x \in S /\ y \in S /\ z \in S
      BY <2>1
    <3>2. <<>> \in Seq(S) /\ <<w>> \in Seq(S) /\ <<x, y>> \in Seq(S) /\ <<z>> \in Seq(S)
      BY <3>1
    <3> QED BY <1>6, <3>2
  <2>3. init \o <<z>> \in Seq(S)
    BY <2>2, ConcatProperties
  <2>4. \A i \in S : i.do \in NewTasks
    BY <1>5, <2>1
  <2> QED BY <2>3, <2>4 DEF Quiet
<1> QED BY <1>1, <1>3, <1>6, <1>7, AtStatementPlain DEF PlainStep, Adds

LEMMA breakStatementPlain == ASSUME CodegenOK, breakStatement PROVE PlainStep
<1>1. AtStatement
  BY DEF breakStatement
<1>2. status = "compiling" /\ Rec(Current)
  BY <1>1, AtStatementPlain, CurrentRec
<1>3. CASE fail
  BY <1>1, <1>3, AtStatementPlain DEF PlainStep
<1>4. CASE ~fail
  <2>1. PICK f, g, h : /\ f = LeaveLoop /\ g = emitJump(f, "JUMP")
                       /\ h = [g EXCEPT !.loops[Len(Current.loops)].breakJumps = Append(@, JumpOperand(LeaveLoop))]
    OBVIOUS
  <2>2. Now(h) /\ Continue(<<>>)
    BY <1>4, <2>1 DEF breakStatement
  <2>3. Twin(Current, f)
    BY <1>2, <2>1, Twins DEF LeaveLoop
  <2>4. Twin(f, g)
    BY <2>1, <2>3, Twins DEF Twin
  <2>5. Kin(g, h)
    BY <2>1, <2>4 DEF Twin, Kin, Rec
  <2>6. Kin(Current, h)
    BY <2>3, <2>4, <2>5 DEF Twin, Kin
  <2>7. KeepsUpvalues
    BY <1>2, <2>2, <2>6, Turns
  <2> QED BY <1>1, <2>2, <2>7, AtStatementPlain, Adding DEF PlainStep
<1> QED BY <1>3, <1>4

LEMMA continueStatementPlain == ASSUME CodegenOK, continueStatement PROVE PlainStep
<1>1. AtStatement
  BY DEF continueStatement
<1>2. status = "compiling" /\ Rec(Current)
  BY <1>1, AtStatementPlain, CurrentRec
<1>3. CASE fail
  BY <1>1, <1>3, AtStatementPlain DEF PlainStep
<1>4. CASE ~fail
  <2>1. PICK f, n, g : f = LeaveLoop /\ n = InnermostLoop.start /\ g = emitLoop(f, n)
    OBVIOUS
  <2>2. Now(g) /\ Continue(<<>>)
    BY <1>4, <2>1 DEF continueStatement
  <2>3. Twin(Current, f)
    BY <1>2, <2>1, Twins DEF LeaveLoop
  <2>4. Twin(f, g)
    BY <2>1, <2>3, Twins DEF Twin
  <2>5. Kin(Current, g)
    BY <2>3, <2>4 DEF Twin, Kin
  <2>6. KeepsUpvalues
    BY <1>2, <2>2, <2>5, Turns
  <2> QED BY <1>1, <2>2, <2>6, AtStatementPlain, Adding DEF PlainStep
<1> QED BY <1>3, <1>4

LEMMA branchStatementPlain == ASSUME CodegenOK, branchStatement PROVE PlainStep
<1>1. AtStatement /\ Continue(<<Item("case")>>) /\ compilers' = compilers
  BY DEF branchStatement
<1>2. Item("case").do \in NewTasks
  BY Does DEF NewTasks, Tasks, PlainTasks
<1>3. KeepsUpvalues
  BY <1>1 DEF KeepsUpvalues
<1> QED BY <1>1, <1>2, <1>3, AtStatementPlain, Adding DEF PlainStep

LEMMA branchCaseStatementPlain == ASSUME CodegenOK, branchCaseStatement PROVE PlainStep
<1>1. status = "compiling" /\ First.do \notin ExpressionTasks /\ compilers' = compilers
  BY DEF branchCaseStatement, Doing, ExpressionTasks
<1>2. KeepsUpvalues
  BY <1>1 DEF KeepsUpvalues
<1>3. Continue(<<Item("statement")>>) \/ Continue(<<Expression, Item("then")>>)
  BY DEF branchCaseStatement
<1>4. Item("statement").do \in NewTasks /\ Expression.do \in NewTasks /\ Item("then").do \in NewTasks
  BY Does DEF NewTasks, Tasks, ExpressionTasks, PlainTasks
<1> QED BY <1>1, <1>2, <1>3, <1>4, Adding DEF PlainStep

LEMMA caseThenPlain == ASSUME CodegenOK, caseThen PROVE PlainStep
<1>1. status = "compiling" /\ First.do \notin ExpressionTasks /\ Now(emitJump(Current, "JUMP_IF_FALSE_POP"))
  BY DEF caseThen, Doing, ExpressionTasks
<1>2. Kin(Current, emitJump(Current, "JUMP_IF_FALSE_POP"))
  BY <1>1, CurrentRec, Twins, Kins
<1>3. KeepsUpvalues
  BY <1>1, <1>2, Turns
<1>4. PICK x, y : x = Item("statement") /\ y = [Item("else") EXCEPT !.at = JumpOperand(Current)]
  OBVIOUS
<1>5. x.do \in NewTasks /\ y.do \in NewTasks /\ Continue(<<x, y>>)
  BY <1>4, Does DEF NewTasks, Tasks, PlainTasks, caseThen
<1> QED BY <1>1, <1>3, <1>5, Adding DEF PlainStep

LEMMA caseElsePlain == ASSUME CodegenOK, caseElse PROVE PlainStep
<1>1. status = "compiling" /\ First.do \notin ExpressionTasks
  BY DEF caseElse, Doing, ExpressionTasks
<1>2. CASE fail
  BY <1>1, <1>2 DEF PlainStep
<1>3. CASE ~fail
  <2>1. PICK f, n, g, at : f = emitJump(Current, "JUMP") /\ n = First.at /\ g = patchJump(f, n) /\ at = JumpOperand(Current)
    OBVIOUS
  <2>2. Now(g) /\ (Continue(<<Patch(at)>>) \/ Continue(<<Item("case"), Patch(at)>>))
    BY <1>3, <2>1 DEF caseElse
  <2>3. Twin(Current, f)
    BY <1>1, <2>1, CurrentRec, Twins
  <2>4. Twin(f, g)
    BY <2>1, <2>3, Twins DEF Twin
  <2>5. Kin(Current, g)
    BY <2>3, <2>4 DEF Twin, Kin
  <2>6. KeepsUpvalues
    BY <1>1, <2>2, <2>5, Turns
  <2>7. Patch(at).do \in NewTasks /\ Item("case").do \in NewTasks
    BY Does DEF NewTasks, Tasks, ExpressionTasks, PlainTasks
  <2> QED BY <1>1, <2>2, <2>6, <2>7, Adding DEF PlainStep
<1> QED BY <1>2, <1>3

LEMMA forConditionPlain == ASSUME CodegenOK, forCondition PROVE PlainStep
<1>1. status = "compiling" /\ First.do \notin ExpressionTasks /\ compilers' = compilers
  BY DEF forCondition, Doing, ExpressionTasks
<1>2. KeepsUpvalues
  BY <1>1 DEF KeepsUpvalues
<1>3. PICK n, x, y : /\ n = Count(Current) /\ x = [Item("forIncrement") EXCEPT !.at = n]
                     /\ y = [Item("forExit") EXCEPT !.at = n]
  OBVIOUS
<1>4. Continue(<<x>>) \/ Continue(<<Expression, y>>)
  BY <1>3 DEF forCondition
<1>5. x.do \in NewTasks /\ Expression.do \in NewTasks /\ y.do \in NewTasks
  BY <1>3, Does DEF NewTasks, Tasks, ExpressionTasks, ForTasks
<1> QED BY <1>1, <1>2, <1>4, <1>5, Adding DEF PlainStep

LEMMA forExitPlain == ASSUME CodegenOK, forExit PROVE PlainStep
<1>1. status = "compiling" /\ First.do \notin ExpressionTasks /\ Now(emitJump(Current, ExitJump))
  BY DEF forExit, Doing, ExpressionTasks
<1>2. Kin(Current, emitJump(Current, ExitJump))
  BY <1>1, CurrentRec, Twins, Kins
<1>3. KeepsUpvalues
  BY <1>1, <1>2, Turns
<1>4. PICK x : x = [First EXCEPT !.do = "forIncrement", !.exit = JumpOperand(Current)]
  OBVIOUS
<1>5. x.do = "forIncrement" /\ Continue(<<x>>)
  BY <1>1, <1>4, FirstDoes DEF forExit
<1>6. x.do \in NewTasks
  BY <1>5 DEF NewTasks, Tasks, ForTasks
<1> QED BY <1>1, <1>3, <1>5, <1>6, Adding DEF PlainStep

LEMMA forIncrementPlain == ASSUME CodegenOK, forIncrement PROVE PlainStep
<1>1. status = "compiling" /\ First.do \notin ExpressionTasks
  BY DEF forIncrement, Doing, ExpressionTasks
<1>2. CASE Continue(<<[First EXCEPT !.do = "forBody"]>>) /\ compilers' = compilers
  <2>1. PICK x : x = [First EXCEPT !.do = "forBody"]
    OBVIOUS
  <2>2. x.do = "forBody"
    BY <1>1, <2>1, FirstDoes
  <2>3. x.do \in NewTasks
    BY <2>2 DEF NewTasks, Tasks, ForTasks
  <2>4. KeepsUpvalues
    BY <1>2 DEF KeepsUpvalues
  <2> QED BY <1>1, <1>2, <2>1, <2>3, <2>4, Adding DEF PlainStep
<1>3. CASE ~(Continue(<<[First EXCEPT !.do = "forBody"]>>) /\ compilers' = compilers)
  <2>1. PICK x, y, z : /\ x = Expression /\ y = Emit(<<Op("POP")>>)
                       /\ z = [First EXCEPT !.do = "forLoop", !.code = JumpOperand(Current)]
    OBVIOUS
  <2>2. Now(emitJump(Current, "JUMP")) /\ Continue(<<x, y, z>>)
    BY <1>3, <2>1 DEF forIncrement
  <2>3. z.do = "forLoop"
    BY <1>1, <2>1, FirstDoes
  <2>4. x.do \in NewTasks /\ y.do \in NewTasks /\ z.do \in NewTasks
    BY <2>1, <2>3, Does DEF NewTasks, Tasks, ExpressionTasks, ForTasks
  <2>5. Kin(Current, emitJump(Current, "JUMP"))
    BY <1>1, CurrentRec, Twins, Kins
  <2>6. KeepsUpvalues
    BY <1>1, <2>2, <2>5, Turns
  <2> QED BY <1>1, <2>2, <2>4, <2>6, Adding DEF PlainStep
<1> QED BY <1>2, <1>3

LEMMA forLoopPlain == ASSUME CodegenOK, forLoop PROVE PlainStep
<1>1. status = "compiling" /\ First.do \notin ExpressionTasks
  BY DEF forLoop, Doing, ExpressionTasks
<1>2. CASE fail
  BY <1>1, <1>2 DEF PlainStep
<1>3. CASE ~fail
  <2>1. PICK n, f, m, g, x : /\ n = First.at /\ f = emitLoop(Current, n) /\ m = First.code /\ g = patchJump(f, m)
                             /\ x = [First EXCEPT !.do = "forBody", !.at = m + 2, !.code = <<>>]
    OBVIOUS
  <2>2. Now(g) /\ Continue(<<x>>)
    BY <1>3, <2>1 DEF forLoop
  <2>3. Twin(Current, f)
    BY <1>1, <2>1, CurrentRec, Twins
  <2>4. Twin(f, g)
    BY <2>1, <2>3, Twins DEF Twin
  <2>5. Kin(Current, g)
    BY <2>3, <2>4 DEF Twin, Kin
  <2>6. KeepsUpvalues
    BY <1>1, <2>2, <2>5, Turns
  <2>7. x.do = "forBody"
    BY <1>1, <2>1, FirstDoes
  <2>8. x.do \in NewTasks
    BY <2>7 DEF NewTasks, Tasks, ForTasks
  <2> QED BY <1>1, <2>2, <2>6, <2>8, Adding DEF PlainStep
<1> QED BY <1>2, <1>3

LEMMA forBodyPlain == ASSUME CodegenOK, forBody PROVE PlainStep
<1>1. status = "compiling" /\ First.do \notin ExpressionTasks
  BY DEF forBody, Doing, ExpressionTasks
<1>2. PICK s, f : /\ s = Append(Current.loops, [start |-> First.at, enterParamCount |-> Len(Current.locals), breakJumps |-> <<>>])
                  /\ f = [Current EXCEPT !.loops = s]
  OBVIOUS
<1>3. Now(f)
  BY <1>2 DEF forBody
<1>4. Kin(Current, f)
  <2>1. Rec(Current)
    BY <1>1, CurrentRec
  <2> QED BY <1>2, <2>1 DEF Kin, Rec
<1>5. KeepsUpvalues
  BY <1>1, <1>3, <1>4, Turns
<1>6. PICK x, y : x = Item("statement") /\ y = [First EXCEPT !.do = "forEnds"]
  OBVIOUS
<1>7. y.do = "forEnds" /\ x.do = "statement" /\ Continue(<<x, y>>)
  BY <1>1, <1>6, FirstDoes, Does DEF forBody
<1>8. x.do \in NewTasks /\ y.do \in NewTasks
  BY <1>7 DEF NewTasks, Tasks, PlainTasks
<1> QED BY <1>1, <1>5, <1>7, <1>8, Adding DEF PlainStep

LEMMA forEndsPlain == ASSUME CodegenOK, forEnds PROVE PlainStep
<1>1. status = "compiling" /\ First.do \notin ExpressionTasks
  BY DEF forEnds, Doing, ExpressionTasks
<1>2. CASE fail
  BY <1>1, <1>2 DEF PlainStep
<1>3. CASE ~fail
  <2>1. PICK s \in Seq(Loops), c \in Codes : LoopEnded(s, c)
    BY <1>3, forEndsWrites
  <2>2. PICK h, p, g : h = [Current EXCEPT !.loops = s] /\ p = WithCode(h, c) /\ g = endScope(p)
    OBVIOUS
  <2>3. Now(g) /\ Continue(<<>>)
    BY <2>1, <2>2 DEF LoopEnded
  <2>4. Kin(Current, p)
    <3>1. Rec(Current)
      BY <1>1, CurrentRec
    <3> QED BY <2>2, <3>1 DEF Kin, Rec, WithCode
  <2>5. Kin(p, g)
    BY <2>2, <2>4, Kins DEF Kin
  <2>6. Kin(Current, g)
    BY <2>4, <2>5 DEF Kin
  <2>7. KeepsUpvalues
    BY <1>1, <2>3, <2>6, Turns
  <2> QED BY <1>1, <2>3, <2>7, Adding DEF PlainStep
<1> QED BY <1>2, <1>3

----------------------------------------------------------------------------
(* Functions begin and end. *)

LEMMA LinkedMore ==
  ASSUME NEW cs \in Seq(Sound), Linked(cs), NEW f, f.upvalues = <<>>, NEW ds, ds = Append(cs, f)
  PROVE  Linked(ds)
<1>1. PICK S : S = Sound \cup {f}
  OBVIOUS
<1>2. PICK n \in Nat : n = Len(cs)
  BY LenProperties
<1>3. cs \in Seq(S) /\ f \in S
  BY <1>1, SeqMonotonic
<1>4. Len(ds) = n + 1 /\ ds[n + 1] = f /\ \A l \in 1 .. n : ds[l] = cs[l]
  BY <1>2, <1>3, AppendProperties
<1>5. ASSUME NEW l \in 1 .. n + 1, NEW i \in 1 .. Len(ds[l].upvalues)
      PROVE  Refers(ds, l, ds[l].upvalues[i])
  <2>1. l # n + 1
    BY <1>4
  <2>2. l \in 1 .. n
    BY <2>1
  <2>3. PICK u : u = ds[l].upvalues[i] /\ u = cs[l].upvalues[i] /\ i \in 1 .. Len(cs[l].upvalues)
    BY <1>4, <2>2
  <2>4. Refers(cs, l, u)
    BY <1>2, <2>2, <2>3 DEF Linked
  <2>5. PICK j : j = l - 1 /\ j \in 1 .. n
    BY <2>2, <2>4 DEF Refers
  <2>6. ds[j] = cs[j]
    BY <1>4, <2>5
  <2> QED BY <2>3, <2>4, <2>5, <2>6 DEF Refers
<1> QED BY <1>4, <1>5 DEF Linked

LEMMA LinkedLess ==
  ASSUME NEW cs \in Seq(Sound), Linked(cs), NEW n \in Nat, n < Len(cs), NEW ds, ds = SubSeq(cs, 1, n)
  PROVE  Linked(ds) /\ ds \in Seq(Sound) /\ Len(ds) = n
<1>1. \A i \in 1 .. n : cs[i] \in Sound
  <2>1. TAKE i \in 1 .. n
  <2>2. i \in 1 .. Len(cs)
    BY LenProperties
  <2> QED BY <2>2, ElementOfSeq
<1>2. ds \in Seq(Sound) /\ Len(ds) = n /\ \A l \in 1 .. n : ds[l] = cs[l]
  <2>1. ds \in Seq(Sound) /\ Len(ds) = (IF 1 <= n THEN n - 1 + 1 ELSE 0) /\ \A l \in 1 .. n - 1 + 1 : ds[l] = cs[1 + l - 1]
    BY <1>1, SubSeqProperties
  <2> QED BY <2>1
<1>3. ASSUME NEW l \in 1 .. n, NEW i \in 1 .. Len(ds[l].upvalues)
      PROVE  Refers(ds, l, ds[l].upvalues[i])
  <2>1. PICK u : u = ds[l].upvalues[i] /\ u = cs[l].upvalues[i] /\ i \in 1 .. Len(cs[l].upvalues)
    BY <1>2
  <2>2. l \in 1 .. Len(cs)
    BY LenProperties
  <2>3. Refers(cs, l, u)
    BY <2>1, <2>2 DEF Linked
  <2>4. PICK j : j = l - 1 /\ j \in 1 .. n
    BY <2>3 DEF Refers
  <2>5. ds[j] = cs[j]
    BY <1>2, <2>4
  <2> QED BY <2>1, <2>3, <2>4, <2>5 DEF Refers
<1> QED BY <1>2, <1>3 DEF Linked

(* A step outside expressions: only upvalues are left to look at. *)
LEMMA TasksLinked ==
  ASSUME CodegenOK, AccessOK, status = "compiling", First.do \notin ExpressionTasks,
         Adds(NewTasks), Linked(compilers')
  PROVE  AccessOK'
<1>1. Waits(todo)
  BY DEF AccessOK
<1>2. PICK items : Quiet(items, NewTasks) /\ todo' = items \o Tail(todo)
  BY DEF Adds, Continue
<1>3. PICK s, t : s = todo /\ t = todo'
  OBVIOUS
<1>4. s \in Seq(Items) /\ s # <<>> /\ Waits(s) /\ s[1].do \notin ExpressionTasks /\ t = items \o Tail(s)
  BY <1>1, <1>2, <1>3, Meeting DEF CodegenOK, First
<1>5. Waits(t) /\ \A k \in 1 .. Len(t) : t[k].do # "access"
  BY <1>2, <1>4, WaitsTasks
<1> QED BY <1>3, <1>5 DEF AccessOK

LEMMA functionAccess == ASSUME CodegenOK, AccessOK, function PROVE AccessOK'
<1>1. status = "compiling" /\ First.do \notin ExpressionTasks
  BY DEF function, Doing, ExpressionTasks
<1>2. CASE Len(compilers) = FUNCTION_MAX_NESTING
  BY <1>2, FailKept DEF function
<1>3. CASE Len(compilers) # FUNCTION_MAX_NESTING
  <2>1. PICK f : f = beginScope(NewCompiler(First.name))
    OBVIOUS
  <2>2. f.upvalues = <<>>
    BY <2>1 DEF beginScope, NewCompiler
  <2>3. PICK x, y, z : x = Item("parameters") /\ y = Item("block") /\ z = Item("end")
    OBVIOUS
  <2>4. compilers' = Append(compilers, f) /\ Continue(<<x, y, z>>)
    BY <1>3, <2>1, <2>3 DEF function
  <2>5. x.do \in NewTasks /\ y.do \in NewTasks /\ z.do \in NewTasks
    BY <2>3, Does DEF NewTasks, Tasks, PlainTasks, Terminators
  <2>6. Adds(NewTasks)
    BY <2>4, <2>5, Adding
  <2>7. PICK cs, ds : cs = compilers /\ ds = compilers'
    OBVIOUS
  <2>8. cs \in Seq(Sound) /\ Linked(cs) /\ ds = Append(cs, f)
    BY <1>1, <2>4, <2>7 DEF CodegenOK, AccessOK
  <2>9. Linked(ds)
    BY <2>2, <2>8, LinkedMore
  <2> QED BY <1>1, <2>6, <2>7, <2>9, TasksLinked
<1> QED BY <1>2, <1>3

LEMMA functionEndsAccess == ASSUME CodegenOK, CodegenOK', AccessOK, functionEnds PROVE AccessOK'
<1>1. status = "compiling" /\ First.do \notin ExpressionTasks /\ Len(compilers) > 1 /\ Continue(<<>>)
  BY DEF functionEnds, Doing, ExpressionTasks
<1>2. PICK n \in Nat : n = Len(compilers) - 1
  <2>1. Len(compilers) \in Nat
    BY <1>1, Meeting
  <2> QED BY <1>1, <2>1
<1>3. PICK cs, ds, p : cs = compilers /\ ds = compilers' /\ p = SubSeq(compilers, 1, n)
  OBVIOUS
<1>4. cs \in Seq(Sound) /\ ds \in Seq(Sound) /\ Linked(cs) /\ n < Len(cs) /\ n > 0 /\ Len(compilers) \in Nat
  BY <1>1, <1>2, <1>3, Meeting DEF CodegenOK, AccessOK
<1>5. Linked(p) /\ p \in Seq(Sound) /\ Len(p) = n
  BY <1>3, <1>4, LinkedLess
<1>6. PICK c, f, g : c = closureCode(Current.upvalues) /\ f = p[n] /\ g = emit(f, c)
  OBVIOUS
<1>7. ds = [p EXCEPT ![n] = g]
  BY <1>2, <1>3, <1>6 DEF functionEnds
<1>8. g.upvalues = p[n].upvalues
  <2>1. n \in 1 .. Len(p)
    BY <1>4, <1>5
  <2>2. f \in CompilersTyped
    BY <1>5, <1>6, <2>1, LevelTyped
  <2>3. Rec(f)
    BY <2>2 DEF Rec, CompilersTyped
  <2>4. Twin(f, g)
    BY <1>6, <2>3, Twins
  <2> QED BY <1>6, <2>4 DEF Twin
<1>9. Linked(ds)
  BY <1>4, <1>5, <1>7, <1>8, LinkedNow
<1>10. Adds(NewTasks)
  BY <1>1, Adding
<1> QED BY <1>1, <1>3, <1>9, <1>10, TasksLinked

LEMMA endScriptAccess == endScript => AccessOK'
BY DEF endScript, AccessOK

LEMMA BeginsAccess ==
  ASSUME NEW cs, cs = <<NewCompiler("script")>>, NEW s, s = <<Item("program")>>
  PROVE  Linked(cs) /\ Waits(s) /\ \A k \in 1 .. Len(s) : s[k].do # "access"
<1>1. PICK f, x : f = NewCompiler("script") /\ x = Item("program")
  OBVIOUS
<1>2. f.upvalues = <<>> /\ x.do # "access"
  BY <1>1, Does DEF NewCompiler
<1>3. Len(cs) = 1 /\ cs[1] = f /\ Len(s) = 1 /\ s[1] = x
  BY <1>1
<1>4. Linked(cs)
  BY <1>2, <1>3 DEF Linked
<1>5. \A k \in 1 .. Len(s) : s[k].do # "access"
  BY <1>2, <1>3
<1> QED BY <1>4, <1>5 DEF Waits

LEMMA InitAccess == Init => AccessOK
BY BeginsAccess DEF Init, AccessOK

LEMMA compileAccess == compile => AccessOK'
<1> SUFFICES ASSUME compile PROVE AccessOK'
  OBVIOUS
<1>1. PICK cs, s : cs = compilers' /\ s = todo' /\ cs = <<NewCompiler("script")>> /\ s = <<Item("program")>>
  BY DEF compile
<1>2. Linked(cs) /\ Waits(s) /\ \A k \in 1 .. Len(s) : s[k].do # "access"
  BY <1>1, BeginsAccess
<1> QED BY <1>1, <1>2 DEF AccessOK

----------------------------------------------------------------------------
(* Expressions. *)

LEMMA emitItemPart == ASSUME CodegenOK, emitItem PROVE PartStep
<1>1. status = "compiling" /\ Continue(<<>>)
  BY DEF emitItem, Doing
<1>2. PICK c, f : c = First.code /\ f = emit(Current, c) /\ Now(f)
  BY DEF emitItem
<1>3. Twin(Current, f)
  BY <1>1, <1>2, CurrentRec, Twins
<1> QED BY <1>1, <1>2, <1>3, Turns, Adding DEF PartStep

LEMMA patchItemPart == ASSUME CodegenOK, patchItem PROVE PartStep
<1>1. status = "compiling"
  BY DEF patchItem, Doing
<1>2. CASE fail
  BY <1>1, <1>2 DEF PartStep
<1>3. CASE ~fail
  <2>1. PICK n, f : n = First.at /\ f = patchJump(Current, n)
    OBVIOUS
  <2>2. Now(f) /\ Continue(<<>>)
    BY <1>3, <2>1 DEF patchItem
  <2>3. Twin(Current, f)
    BY <1>1, <2>1, CurrentRec, Twins
  <2> QED BY <1>1, <2>2, <2>3, Turns, Adding DEF PartStep
<1> QED BY <1>2, <1>3

LEMMA literalPart == ASSUME CodegenOK, literal PROVE PartStep
<1>1. status = "compiling" /\ Continue(<<>>)
  BY DEF literal, Doing
<1>2. PICK c : Now(emit(Current, c))
  BY DEF literal
<1>3. PICK f : f = emit(Current, c) /\ Now(f)
  BY <1>2
<1>4. Twin(Current, f)
  BY <1>1, <1>3, CurrentRec, Twins
<1> QED BY <1>1, <1>3, <1>4, Turns, Adding DEF PartStep

LEMMA logicalPart == ASSUME CodegenOK, NEW form, logical(form) PROVE PartStep
<1>1. status = "compiling" /\ compilers' = compilers
  BY DEF logical, Doing
<1>2. PICK n, x, y : n = Shortcut[form] /\ x = Expression /\ y = [Item("shortcut") EXCEPT !.name = n]
  OBVIOUS
<1>3. Continue(<<x, y>>)
  BY <1>2 DEF logical
<1>4. x.do \in NewParts /\ y.do \in NewParts
  BY <1>2, Does DEF NewParts, ExpressionTasks
<1> QED BY <1>1, <1>3, <1>4, Turns, Adding DEF PartStep

LEMMA shortcutPart == ASSUME CodegenOK, shortcut PROVE PartStep
<1>1. status = "compiling"
  BY DEF shortcut, Doing
<1>2. PICK n, f, c, g : n = First.name /\ f = emitJump(Current, n) /\ c = <<Op("POP")>> /\ g = emit(f, c)
  OBVIOUS
<1>3. PICK m, x, y : m = JumpOperand(Current) /\ x = Expression /\ y = Patch(m)
  OBVIOUS
<1>4. Now(g) /\ Continue(<<x, y>>)
  BY <1>2, <1>3 DEF shortcut
<1>5. Twin(Current, f)
  BY <1>1, <1>2, CurrentRec, Twins
<1>6. Twin(f, g)
  BY <1>2, <1>5, Twins DEF Twin
<1>7. Twin(Current, g)
  BY <1>5, <1>6 DEF Twin
<1>8. x.do \in NewParts /\ y.do \in NewParts
  BY <1>3, Does DEF NewParts, ExpressionTasks
<1> QED BY <1>1, <1>4, <1>7, <1>8, Turns, Adding DEF PartStep

LEMMA QuietList ==
  ASSUME NEW n \in Nat, NEW last, last.do \in NewParts
  PROVE  Quiet(Append(Expressions(n), last), NewParts)
<1>1. PICK e, S : e = Expression /\ S = {e, last}
  OBVIOUS
<1>2. e.do \in NewParts
  BY <1>1, Does DEF NewParts, ExpressionTasks
<1>3. PICK s : s = Expressions(n)
  OBVIOUS
<1>4. s \in Seq(S)
  <2>1. s = [k \in 1 .. n |-> e]
    BY <1>1, <1>3 DEF Expressions
  <2>2. s \in [1 .. n -> S]
    BY <1>1, <2>1
  <2> QED BY <2>2, SeqDef
<1>5. Append(s, last) \in Seq(S)
  BY <1>1, <1>4, AppendProperties
<1>6. \A i \in S : i.do \in NewParts
  BY <1>1, <1>2
<1> QED BY <1>3, <1>5, <1>6 DEF Quiet

LEMMA ListPart ==
  ASSUME CodegenOK, status = "compiling", NEW n \in Nat, NEW code, NEW items,
         items = Append(Expressions(n), Emit(code)), Continue(items), compilers' = compilers
  PROVE  PartStep
<1>1. PICK y : y = Emit(code)
  OBVIOUS
<1>2. y.do \in NewParts
  BY <1>1, Does DEF NewParts, ExpressionTasks
<1>3. Quiet(items, NewParts)
  BY <1>1, <1>2, QuietList
<1> QED BY <1>3, Turns DEF PartStep, Adds

LEMMA operationPart == ASSUME CodegenOK, NEW form \in DOMAIN Operations, operation(form) PROVE PartStep
<1>1. status = "compiling" /\ compilers' = compilers
  BY DEF operation, Doing
<1>2. PICK n, code, items : n \in Nat /\ n = Operations[form].operands /\ code = Operations[form].code
                            /\ items = Append(Expressions(n), Emit(code))
  BY OperationsTyped
<1>3. Continue(items)
  BY <1>2 DEF operation
<1> QED BY <1>1, <1>2, <1>3, ListPart

LEMMA ListsPart ==
  ASSUME CodegenOK, status = "compiling", NEW first \in Nat, NEW n \in Nat, NEW code, List(first, n, code)
  PROVE  PartStep
<1>1. CASE n > ARGUMENT_MAX
  BY <1>1 DEF List, PartStep
<1>2. CASE ~(n > ARGUMENT_MAX)
  <2>1. PICK m \in Nat : m = first + n
    OBVIOUS
  <2>2. PICK items : items = Append(Expressions(m), Emit(code))
    OBVIOUS
  <2>3. Continue(items) /\ compilers' = compilers
    BY <1>2, <2>1, <2>2 DEF List
  <2> QED BY <2>2, <2>3, ListPart
<1> QED BY <1>1, <1>2

LEMMA callsPart ==
  ASSUME CodegenOK, NEW n \in 0 .. ARGUMENT_MAX + 1, call(n) \/ invoke(n) \/ arrayLiteral(n)
  PROVE  PartStep
<1>1. n \in Nat /\ 0 \in Nat /\ 1 \in Nat
  BY Bytes_
<1>2. status = "compiling"
  BY DEF call, invoke, arrayLiteral, Doing
<1>3. PICK first, code : first \in Nat /\ List(first, n, code)
  <2>1. CASE call(n)
    <3>1. List(1, n, <<Op("CALL"), Byte(n % Base)>>)
      BY <2>1 DEF call
    <3> QED BY <1>1, <3>1
  <2>2. CASE invoke(n)
    <3>1. List(1, n, Append(emitConstantCommond("INVOKE"), Byte(n % Base)))
      BY <2>2 DEF invoke
    <3> QED BY <1>1, <3>1
  <2>3. CASE arrayLiteral(n)
    <3>1. List(0, n, <<Op("NEW_ARRAY"), Byte(n % Base)>>)
      BY <2>3 DEF arrayLiteral
    <3> QED BY <1>1, <3>1
  <2> QED BY <2>1, <2>2, <2>3
<1> QED BY <1>1, <1>2, <1>3, ListsPart

LEMMA objectLiteralPart == ASSUME CodegenOK, NEW n \in 0 .. ARGUMENT_MAX + 1, objectLiteral(n) PROVE PartStep
<1>1. status = "compiling"
  BY DEF objectLiteral, Doing
<1>2. CASE fail
  BY <1>1, <1>2 DEF PartStep
<1>3. CASE ~fail
  <2>1. PICK d, f, c, g : /\ d = Current.objectNestingDepth + 1 /\ f = [Current EXCEPT !.objectNestingDepth = d]
                          /\ c = <<Op("NEW_OBJECT")>> /\ g = emit(f, c)
    OBVIOUS
  <2>2. PICK e, p, y, S : /\ e = Expression /\ p = Emit(emitConstantCommond("NEW_PROPERTY")) /\ y = Item("objectEnds")
                          /\ S = {e, p, y}
    OBVIOUS
  <2>3. PICK s : s = [i \in 1 .. 2 * n |-> IF i % 2 = 1 THEN e ELSE p]
    OBVIOUS
  <2>4. Now(g) /\ Continue(Append(s, y))
    BY <1>3, <2>1, <2>2, <2>3, Zenon DEF objectLiteral
  <2>5. \A i \in S : i.do \in NewParts
    BY <2>2, Does DEF NewParts, ExpressionTasks
  <2>6. Append(s, y) \in Seq(S)
    <3>1. 2 * n \in Nat
      BY Bytes_
    <3>2. s \in [1 .. 2 * n -> S]
      BY <2>2, <2>3
    <3>3. s \in Seq(S)
      BY <3>1, <3>2, SeqDef
    <3>4. y \in S
      BY <2>2
    <3> QED BY <3>3, <3>4, AppendProperties
  <2>7. Adds(NewParts)
    BY <2>4, <2>5, <2>6 DEF Adds, Quiet
  <2>8. Twin(Current, f)
    BY <1>1, <2>1, CurrentRec, Twins
  <2>9. Twin(f, g)
    <3>1. Rec(f)
      BY <2>8 DEF Twin
    <3>2. Twin(f, emit(f, c))
      BY <3>1, Twins
    <3> QED BY <2>1, <3>2
  <2>10. Twin(Current, g)
    BY <2>8, <2>9 DEF Twin
  <2> QED BY <1>1, <2>4, <2>7, <2>10, Turns DEF PartStep
<1> QED BY <1>2, <1>3

LEMMA objectEndsPart == ASSUME CodegenOK, objectEnds PROVE PartStep
<1>1. status = "compiling" /\ Continue(<<>>)
  BY DEF objectEnds, Doing
<1>2. PICK d, f : d = Current.objectNestingDepth - 1 /\ f = [Current EXCEPT !.objectNestingDepth = d]
  OBVIOUS
<1>3. Now(f)
  BY <1>2 DEF objectEnds
<1>4. Twin(Current, f)
  BY <1>1, <1>2, CurrentRec, Twins
<1> QED BY <1>1, <1>3, <1>4, Turns, Adding DEF PartStep

LEMMA variablePart == ASSUME CodegenOK, NEW verb, NEW x, variable(verb, x) PROVE PartStep
<1>1. status = "compiling" /\ compilers' = compilers
  BY DEF variable, Doing
<1>2. PICK y : y = Named(verb, x)
  OBVIOUS
<1>3. Continue(<<y>>)
  BY <1>2 DEF variable
<1>4. y.do \in NewParts
  BY <1>2, Does DEF NewParts, ExpressionTasks
<1> QED BY <1>1, <1>3, <1>4, Turns, Adding DEF PartStep

LEMMA thisPart == ASSUME CodegenOK, this_ PROVE PartStep
<1>1. status = "compiling"
  BY DEF this_, Doing
<1>2. CASE fail
  BY <1>1, <1>2 DEF PartStep
<1>3. CASE ~fail
  <2>1. PICK y : y = Named("get", "this")
    OBVIOUS
  <2>2. Continue(<<y>>) /\ compilers' = compilers
    BY <1>3, <2>1 DEF this_
  <2>3. y.do \in NewParts
    BY <2>1, Does DEF NewParts, ExpressionTasks
  <2> QED BY <1>1, <2>2, <2>3, Turns, Adding DEF PartStep
<1> QED BY <1>2, <1>3

----------------------------------------------------------------------------
(* Names. *)

LEMMA SmallRest ==
  ASSUME NEW k \in 0 .. Base - 1
  PROVE  k % Base = k
<1>1. PICK b \in Nat : b = Base /\ b >= 2
  BY Bytes_
<1>2. PICK q \in Int, r \in Int : q = k \div b /\ r = k % b
  BY <1>1
<1>3. k = b * q + r /\ 0 <= r /\ r < b /\ k \in 0 .. b - 1
  BY <1>1, <1>2
<1>4. ~(q >= 1)
  <2>1. SUFFICES ASSUME q >= 1 PROVE FALSE
    OBVIOUS
  <2>2. b * q >= b
    BY <1>1, <2>1
  <2> QED BY <1>1, <1>3, <2>2
<1>5. ~(q <= -1)
  <2>1. SUFFICES ASSUME q <= -1 PROVE FALSE
    OBVIOUS
  <2>2. b * q <= -b
    BY <1>1, <2>1
  <2> QED BY <1>1, <1>3, <2>2
<1>6. q = 0
  BY <1>2, <1>4, <1>5
<1> QED BY <1>1, <1>2, <1>3, <1>6

(* ds is cs after the local at slot of function o was captured along c. *)
CapturedAlong(cs, ds, o, slot, c) ==
  /\ o \in 1 .. Len(cs) /\ o < Len(cs) /\ Len(ds) = Len(cs)
  /\ slot \in 0 .. Len(cs[o].locals) - 1
  /\ Links(cs, o, slot, c) /\ Room(cs, o, c)
  /\ \A l \in 1 .. Len(cs) : ds[l] = Resolved(cs, o, slot, c, l)

(* One of its functions. *)
Grown(cs, ds, o, c, l) ==
  /\ Len(cs[l].upvalues) \in Nat /\ Len(ds[l].upvalues) \in Nat /\ Len(cs[l].upvalues) <= Len(ds[l].upvalues)
  /\ Len(ds[l].locals) = Len(cs[l].locals) /\ DOMAIN cs[l].locals = 1 .. Len(cs[l].locals)
  /\ DOMAIN ds[l].locals = 1 .. Len(cs[l].locals)
  /\ \A i \in 1 .. Len(cs[l].locals) : ds[l].locals[i].name = cs[l].locals[i].name
  /\ \A i \in 1 .. Len(cs[l].upvalues) : ds[l].upvalues[i] = cs[l].upvalues[i]
  /\ \A i \in 1 .. Len(ds[l].upvalues) : i > Len(cs[l].upvalues) => l > o /\ ds[l].upvalues[i] = c[l]
  /\ l > o => /\ IndexOf(cs[l].upvalues, c[l]) + 1 \in 1 .. Len(ds[l].upvalues)
              /\ ds[l].upvalues[IndexOf(cs[l].upvalues, c[l]) + 1] = c[l]

LEMMA Growing ==
  ASSUME NEW cs \in Seq(Sound), NEW ds \in Seq(Sound), NEW o, NEW slot, NEW c, CapturedAlong(cs, ds, o, slot, c),
         NEW l \in 1 .. Len(cs)
  PROVE  Grown(cs, ds, o, c, l)
<1>1. PICK n \in Nat : n = Len(cs) /\ n = Len(ds) /\ l \in 1 .. n /\ o \in 1 .. n
  BY LenProperties DEF CapturedAlong
<1>2. PICK f, g : f = cs[l] /\ g = ds[l] /\ g = Resolved(cs, o, slot, c, l)
  BY DEF CapturedAlong
<1>3. f \in Sound /\ g \in Sound
  BY <1>1, <1>2, ElementOfSeq
<1>4. /\ f.upvalues \in Seq(Upvalues) /\ Len(f.upvalues) \in Nat /\ Len(g.upvalues) \in Nat
      /\ Len(f.locals) \in Nat /\ DOMAIN f.locals = 1 .. Len(f.locals) /\ DOMAIN g.locals = 1 .. Len(g.locals)
  BY <1>3, LenProperties DEF Sound, CompilersTyped
<1>5. CASE l = o
  <2>1. slot \in 0 .. Len(f.locals) - 1 /\ g = Captured(f, slot)
    BY <1>2, <1>5 DEF CapturedAlong, Resolved
  <2>2. /\ Similar(f, g) /\ g.upvalues = f.upvalues
        /\ \A i \in 1 .. Len(f.locals) : g.locals[i].name = f.locals[i].name
    BY <1>3, <2>1, CapturedSound
  <2>3. Len(g.locals) = Len(f.locals)
    BY <2>2 DEF Similar
  <2>4. ~(l > o) /\ \A i \in 1 .. Len(f.upvalues) : ~(i > Len(f.upvalues))
    BY <1>1, <1>4, <1>5
  <2> QED BY <1>2, <1>4, <2>2, <2>3, <2>4 DEF Grown
<1>6. CASE l > o
  <2>1. l \in o + 1 .. Len(cs) /\ l # o
    BY <1>1, <1>6
  <2>2. PICK u : u = c[l]
    OBVIOUS
  <2>3. u \in Upvalues /\ IndexOf(f.upvalues, u) # UPVALUE_MAX
    BY <1>2, <2>1, <2>2 DEF CapturedAlong, Links, Room
  <2>4. g = addUpvalue(f, u)
    BY <1>2, <1>6, <2>1, <2>2 DEF Resolved
  <2>5. /\ g.locals = f.locals /\ Len(f.upvalues) <= Len(g.upvalues)
        /\ \A i \in 1 .. Len(f.upvalues) : g.upvalues[i] = f.upvalues[i]
        /\ \A i \in 1 .. Len(g.upvalues) : i > Len(f.upvalues) => g.upvalues[i] = u
        /\ IndexOf(f.upvalues, u) + 1 \in 1 .. Len(g.upvalues)
        /\ g.upvalues[IndexOf(f.upvalues, u) + 1] = u
    BY <1>3, <2>3, <2>4, AddSound
  <2> QED BY <1>2, <1>4, <1>6, <2>2, <2>5 DEF Grown
<1>7. CASE l # o /\ ~(l > o)
  <2>1. g = f
    BY <1>2, <1>7 DEF Resolved
  <2>2. \A i \in 1 .. Len(f.upvalues) : ~(i > Len(f.upvalues))
    BY <1>4
  <2> QED BY <1>2, <1>4, <1>7, <2>1, <2>2 DEF Grown
<1> QED BY <1>5, <1>6, <1>7

LEMMA CapturesExtend ==
  ASSUME NEW cs \in Seq(Sound), NEW ds \in Seq(Sound), NEW o, NEW slot, NEW c, CapturedAlong(cs, ds, o, slot, c)
  PROVE  Extends(cs, ds) /\ SameNames(cs, ds)
<1>1. Len(ds) = Len(cs)
  BY DEF CapturedAlong
<1>2. \A l \in 1 .. Len(cs) : Grown(cs, ds, o, c, l)
  BY Growing
<1>3. Extends(cs, ds)
  BY <1>1, <1>2 DEF Extends, Grown
<1>4. ASSUME NEW l \in 1 .. Len(cs), NEW x PROVE LocalsNamed(ds[l], x) = LocalsNamed(cs[l], x)
  <2>1. PICK m : /\ DOMAIN cs[l].locals = 1 .. m /\ DOMAIN ds[l].locals = 1 .. m
                 /\ \A i \in 1 .. m : ds[l].locals[i].name = cs[l].locals[i].name
    BY <1>2 DEF Grown
  <2> QED BY <2>1 DEF LocalsNamed
<1> QED BY <1>3, <1>4 DEF SameNames

LEMMA CapturesLinked ==
  ASSUME NEW cs \in Seq(Sound), NEW ds \in Seq(Sound), NEW o, NEW slot, NEW c, CapturedAlong(cs, ds, o, slot, c), Linked(cs)
  PROVE  Linked(ds)
<1>1. PICK n \in Nat : n = Len(cs) /\ n = Len(ds) /\ o \in 1 .. n /\ o \in Nat
  BY LenProperties DEF CapturedAlong
<1>2. \A l \in 1 .. n : Grown(cs, ds, o, c, l)
  BY <1>1, Growing
<1>3. ASSUME NEW l \in 1 .. n, NEW i \in 1 .. Len(ds[l].upvalues)
      PROVE  Refers(ds, l, ds[l].upvalues[i])
  <2>1. PICK u, k : u = ds[l].upvalues[i] /\ k = Len(cs[l].upvalues)
    OBVIOUS
  <2>2. CASE i <= k
    <3>1. i \in 1 .. Len(cs[l].upvalues) /\ u = cs[l].upvalues[i]
      BY <1>2, <2>1, <2>2 DEF Grown
    <3>2. Refers(cs, l, u)
      BY <1>1, <3>1 DEF Linked
    <3>3. PICK j : j = l - 1 /\ j \in 1 .. n
      BY <3>2 DEF Refers
    <3>4. /\ Len(ds[j].locals) = Len(cs[j].locals) /\ Len(cs[j].upvalues) \in Nat /\ Len(ds[j].upvalues) \in Nat
          /\ Len(cs[j].upvalues) <= Len(ds[j].upvalues)
      BY <1>2, <3>3 DEF Grown
    <3>5. u.index + 1 \in 1 .. Len(cs[j].upvalues) => u.index + 1 \in 1 .. Len(ds[j].upvalues)
      BY <3>4
    <3> QED BY <2>1, <3>2, <3>3, <3>4, <3>5 DEF Refers
  <2>3. CASE ~(i <= k)
    <3>1. l > o /\ u = c[l]
      BY <1>2, <2>1, <2>3 DEF Grown
    <3>2. PICK j : j = l - 1 /\ j \in 1 .. n /\ j \in Nat
      BY <1>1, <3>1
    <3>3. CASE j = o
      <4>1. u = [index |-> slot, isLocal |-> TRUE]
        <5>1. l = o + 1
          BY <1>1, <3>2, <3>3
        <5> QED BY <3>1, <5>1 DEF CapturedAlong, Links
      <4>2. slot \in 0 .. Len(cs[j].locals) - 1 /\ Len(ds[j].locals) = Len(cs[j].locals)
        BY <1>2, <3>2, <3>3 DEF CapturedAlong, Grown
      <4>3. Len(cs[j].locals) \in Nat
        <5>1. cs[j] \in CompilersTyped
          BY <1>1, <3>2, LevelTyped
        <5> QED BY <5>1, NamedIn
      <4>4. slot + 1 \in 1 .. Len(ds[j].locals)
        BY <4>2, <4>3
      <4> QED BY <1>1, <2>1, <3>1, <3>2, <4>1, <4>4 DEF Refers
    <3>4. CASE j # o
      <4>1. l \in o + 2 .. Len(cs) /\ j > o
        BY <1>1, <3>1, <3>2, <3>4
      <4>2. u = [index |-> IndexOf(cs[j].upvalues, c[j]), isLocal |-> FALSE]
        BY <3>1, <3>2, <4>1 DEF CapturedAlong, Links
      <4>3. IndexOf(cs[j].upvalues, c[j]) + 1 \in 1 .. Len(ds[j].upvalues)
        BY <1>2, <3>2, <4>1 DEF Grown
      <4> QED BY <1>1, <2>1, <3>1, <3>2, <4>2, <4>3 DEF Refers
    <3> QED BY <3>3, <3>4
  <2>4. k \in Nat /\ i \in Nat
    BY <1>2, <2>1 DEF Grown
  <2> QED BY <2>2, <2>3
<1> QED BY <1>1, <1>3 DEF Linked

(* Along the chain every function's entry stands for the captured local. *)
AllDenote(cs, ds, o, slot, c) ==
  \A l \in o + 1 .. Len(cs) : Via(ds)[l][IndexOf(cs[l].upvalues, c[l]) + 1] = <<o, slot>>

LEMMA CapturesDenote ==
  ASSUME NEW cs \in Seq(Sound), NEW ds \in Seq(Sound), NEW o, NEW slot, NEW c, CapturedAlong(cs, ds, o, slot, c), Linked(ds)
  PROVE  AllDenote(cs, ds, o, slot, c)
<1>1. PICK n \in Nat : n = Len(cs) /\ n = Len(ds) /\ o \in 1 .. n /\ o \in Nat
  BY LenProperties DEF CapturedAlong
<1>2. \A l \in 1 .. n : Grown(cs, ds, o, c, l)
  BY <1>1, Growing
<1>3. PICK S : S = {l \in o + 1 .. n : Via(ds)[l][IndexOf(cs[l].upvalues, c[l]) + 1] # <<o, slot>>}
  OBVIOUS
<1>4. CASE S = {}
  BY <1>1, <1>3, <1>4 DEF AllDenote
<1>5. CASE S # {}
  <2>1. S \subseteq Nat
    BY <1>1, <1>3
  <2>2. PICK m \in S : \A k \in Nat : k < m => k \notin S
    BY <1>5, <2>1, Least
  <2>3. m \in o + 1 .. n /\ m \in 1 .. n /\ m > o
    BY <1>1, <1>3, <2>2
  <2>4. PICK i, u : i = IndexOf(cs[m].upvalues, c[m]) + 1 /\ u = c[m]
    OBVIOUS
  <2>5. i \in 1 .. Len(ds[m].upvalues) /\ ds[m].upvalues[i] = u
    BY <1>2, <2>3, <2>4 DEF Grown
  <2>6. Via(ds)[m][i] = ViaOf(ds, Via(ds), m, u)
    <3>1. m \in 1 .. Len(ds)
      BY <1>1, <2>3
    <3> QED BY <2>5, <3>1, ViaIs
  <2>7. Via(ds)[m][i] # <<o, slot>>
    BY <1>3, <2>2, <2>4
  <2>8. PICK j : j = m - 1 /\ j \in Nat /\ j < m
    BY <1>1, <2>3
  <2>9. CASE j = o
    <3>1. u = [index |-> slot, isLocal |-> TRUE]
      <4>1. m = o + 1
        BY <1>1, <2>3, <2>8, <2>9
      <4> QED BY <2>4, <4>1 DEF CapturedAlong, Links
    <3>2. u.isLocal /\ u.index = slot
      BY <3>1
    <3>3. ViaOf(ds, Via(ds), m, u) = <<m - 1, slot>>
      BY <3>2 DEF ViaOf
    <3> QED BY <2>6, <2>7, <2>8, <2>9, <3>3
  <2>10. CASE j # o
    <3>1. m \in o + 2 .. Len(cs) /\ j \in o + 1 .. n
      BY <1>1, <2>3, <2>8, <2>10
    <3>2. u = [index |-> IndexOf(cs[j].upvalues, c[j]), isLocal |-> FALSE]
      BY <2>4, <2>8, <3>1 DEF CapturedAlong, Links
    <3>3. j \notin S
      BY <2>2, <2>8
    <3>4. Via(ds)[j][IndexOf(cs[j].upvalues, c[j]) + 1] = <<o, slot>>
      BY <1>3, <3>1, <3>3
    <3>5. ~u.isLocal /\ u.index = IndexOf(cs[j].upvalues, c[j])
      BY <3>2
    <3>6. ViaOf(ds, Via(ds), m, u) = Via(ds)[j][u.index + 1]
      BY <2>8, <3>5 DEF ViaOf
    <3> QED BY <2>6, <2>7, <3>4, <3>5, <3>6
  <2> QED BY <2>9, <2>10
<1> QED BY <1>4, <1>5

(* What the owner and the slot found for a name are. *)
LEMMA FoundInnermost ==
  ASSUME CodegenOK, NEW x, NEW o, o = Owner(x), NEW slot, slot = resolveLocal(compilers[o], x)
  PROVE  Innermost(IF o = 0 THEN <<0, 0>> ELSE <<o, slot>>, Declared(compilers, x))
<1>1. PICK cs, n : cs = compilers /\ n \in Nat /\ n = Len(cs) /\ cs \in Seq(Sound) /\ DOMAIN cs = 1 .. n
  BY LenProperties DEF CodegenOK
<1>2. /\ o \in 0 .. n
      /\ o # 0 => LocalsNamed(cs[o], x) # {}
      /\ \A l \in 1 .. n : l > o => LocalsNamed(cs[l], x) = {}
  BY <1>1, OwnerIs
<1>3. \A l \in 1 .. n : cs[l] \in CompilersTyped /\ LocalsNamed(cs[l], x) \subseteq Nat
  <2>1. TAKE l \in 1 .. n
  <2>2. cs[l] \in CompilersTyped
    BY <1>1, LevelTyped
  <2> QED BY <2>2, NamedIn
<1>4. PICK D : D = Declared(cs, x)
  OBVIOUS
<1>5. \A d : d \in D <=> \E l \in 1 .. n : \E i \in LocalsNamed(cs[l], x) : d = <<l, i - 1>>
  BY <1>1, <1>4 DEF Declared
<1>6. CASE o = 0
  <2>1. \A d : d \notin D
    BY <1>2, <1>5, <1>6
  <2> QED BY <1>1, <1>4, <1>6, <2>1 DEF Innermost
<1>7. CASE o # 0
  <2>1. o \in 1 .. n
    BY <1>2, <1>7
  <2>2. slot + 1 \in LocalsNamed(cs[o], x) /\ slot \in Int /\ \A i \in LocalsNamed(cs[o], x) : i <= slot + 1
    <3>1. cs[o] \in CompilersTyped /\ LocalsNamed(cs[o], x) # {}
      BY <1>2, <1>3, <1>7, <2>1
    <3> QED BY <1>1, <3>1, ResolvedIn
  <2>3. <<o, slot>> \in D
    <3>1. <<o, slot>> = <<o, (slot + 1) - 1>>
      BY <2>2
    <3> QED BY <1>5, <2>1, <2>2, <3>1
  <2>4. ASSUME NEW d \in D PROVE d[1] < o \/ (d[1] = o /\ d[2] <= slot)
    <3>1. PICK l \in 1 .. n : \E i \in LocalsNamed(cs[l], x) : d = <<l, i - 1>>
      BY <1>5
    <3>2. PICK i \in LocalsNamed(cs[l], x) : d = <<l, i - 1>>
      BY <3>1
    <3>3. l <= o /\ i \in Nat
      <4>1. LocalsNamed(cs[l], x) # {}
        BY <3>2
      <4> QED BY <1>2, <1>3, <2>1, <4>1
    <3>4. l = o => i <= slot + 1
      BY <2>2
    <3>5. d[1] = l /\ d[2] = i - 1
      BY <3>2
    <3>6. l = o => i - 1 <= slot
      BY <2>2, <3>3, <3>4
    <3> QED BY <2>1, <3>3, <3>5, <3>6
  <2> QED BY <1>1, <1>4, <1>7, <2>3, <2>4 DEF Innermost
<1> QED BY <1>6, <1>7

LEMMA ConstantBegins ==
  ASSUME NEW op
  PROVE  emitConstantCommond(op)[1].op = op
<1>1. PICK c, s, S : c = Op(op) /\ s = Short(0) /\ S = {c, Byte(0 % Base), Byte(0 \div Base)}
  OBVIOUS
<1>2. <<c>> \in Seq(S) /\ s \in Seq(S) /\ Len(<<c>>) = 1 /\ <<c>>[1] = c /\ Len(s) = 2
  BY <1>1 DEF Short
<1>3. (<<c>> \o s)[1] = c
  BY <1>2, ConcatProperties
<1> QED BY <1>1, <1>3 DEF emitConstantCommond, Op

(* The accesses of t are y or of s. *)
NewAccess(s, t, y) == \A k \in 1 .. Len(t) : t[k].do = "access" => t[k] = y \/ \E j \in 1 .. Len(s) : t[k] = s[j]

LEMMA WaitsAccess ==
  ASSUME NEW s \in Seq(Items), s # <<>>, Waits(s), NEW e \in Items, NEW y \in Items,
         e.do \in NewParts, y.do = "access", NEW t, t = <<e, y>> \o Tail(s) \/ t = <<y>> \o Tail(s)
  PROVE  Waits(t) /\ NewAccess(s, t, y)
<1>1. PICK r : r = Tail(s)
  OBVIOUS
<1>2. r \in Seq(Items) /\ Len(s) \in Nat /\ Len(s) >= 1 /\ Len(r) = Len(s) - 1 /\ \A i \in 1 .. Len(r) : r[i] = s[i + 1]
  <2>1. Len(s) \in Nat /\ Len(s) >= 1
    BY EmptySeq, LenProperties
  <2> QED BY <1>1, <2>1, HeadTailProperties
<1>3. y.do \in ExpressionTasks /\ e.do \in ExpressionTasks /\ e.do # "access"
  BY DEF ExpressionTasks, NewParts
<1>4. CASE t = <<y>> \o r
  <2>1. <<y>> \in Seq(Items) /\ Len(<<y>>) = 1 /\ <<y>>[1] = y
    OBVIOUS
  <2>2. Len(t) = 1 + Len(r) /\ \A i \in 1 .. 1 + Len(r) : t[i] = IF i <= 1 THEN <<y>>[i] ELSE r[i - 1]
    BY <1>2, <1>4, <2>1, ConcatProperties
  <2>3. Len(t) = Len(s) /\ t[1] = y
    BY <1>2, <2>1, <2>2
  <2>4. ASSUME NEW k \in 2 .. Len(s) PROVE t[k] = s[k]
    <3>1. PICK i \in 1 .. Len(r) : i = k - 1 /\ i + 1 = k
      BY <1>2
    <3> QED BY <1>2, <2>2, <3>1
  <2>5. ASSUME NEW k \in 1 .. Len(t), t[k].do = "access", NEW j \in 1 .. k - 1
        PROVE  t[j].do \in ExpressionTasks
    <3>1. k \in 2 .. Len(s)
      BY <2>3
    <3>2. s[k].do = "access" /\ k \in 1 .. Len(s)
      BY <2>4, <2>5, <3>1
    <3>3. s[j].do \in ExpressionTasks
      BY <3>2 DEF Waits
    <3>4. j = 1 \/ j \in 2 .. Len(s)
      BY <3>1
    <3> QED BY <1>3, <2>3, <2>4, <3>3, <3>4
  <2>6. ASSUME NEW k \in 1 .. Len(t) PROVE t[k] = y \/ \E j \in 1 .. Len(s) : t[k] = s[j]
    <3>1. k = 1 \/ k \in 2 .. Len(s)
      BY <2>3
    <3> QED BY <2>3, <2>4, <3>1
  <2> QED BY <2>5, <2>6 DEF Waits, NewAccess
<1>5. CASE t = <<e, y>> \o r
  <2>1. <<e, y>> \in Seq(Items) /\ Len(<<e, y>>) = 2 /\ <<e, y>>[1] = e /\ <<e, y>>[2] = y
    OBVIOUS
  <2>2. Len(t) = 2 + Len(r) /\ \A i \in 1 .. 2 + Len(r) : t[i] = IF i <= 2 THEN <<e, y>>[i] ELSE r[i - 2]
    BY <1>2, <1>5, <2>1, ConcatProperties
  <2>3. Len(t) = Len(s) + 1 /\ t[1] = e /\ t[2] = y
    BY <1>2, <2>1, <2>2
  <2>4. ASSUME NEW k \in 2 .. Len(s) PROVE t[k + 1] = s[k]
    <3>1. PICK i \in 1 .. Len(r) : i = k - 1 /\ i + 1 = k /\ i + 2 = k + 1
      BY <1>2
    <3>2. i + 2 \in 1 .. 2 + Len(r) /\ ~(i + 2 <= 2) /\ (i + 2) - 2 = i
      BY <1>2
    <3>3. t[i + 2] = r[i]
      BY <2>2, <3>2
    <3> QED BY <1>2, <3>1, <3>3
  <2>5. \A k \in 1 .. Len(t) : k = 1 \/ k = 2 \/ \E i \in 2 .. Len(s) : k = i + 1
    <3>1. TAKE k \in 1 .. Len(t)
    <3>2. PICK i : i = k - 1
      OBVIOUS
    <3>3. k = 1 \/ k = 2 \/ (i \in 2 .. Len(s) /\ k = i + 1)
      BY <1>2, <2>3, <3>2
    <3> QED BY <3>3
  <2>6. ASSUME NEW k \in 1 .. Len(t), t[k].do = "access", NEW j \in 1 .. k - 1
        PROVE  t[j].do \in ExpressionTasks
    <3>1. CASE j = 1 \/ j = 2
      BY <1>3, <2>3, <3>1
    <3>2. CASE ~(j = 1 \/ j = 2)
      <4>1. j \in 1 .. Len(t)
        BY <1>2, <2>3
      <4>2. PICK h \in 2 .. Len(s) : j = h + 1
        BY <2>5, <3>2, <4>1
      <4>3. ~(k = 1 \/ k = 2)
        BY <4>2
      <4>4. PICK i \in 2 .. Len(s) : k = i + 1
        BY <2>5, <4>3
      <4>5. t[k] = s[i] /\ t[j] = s[h] /\ i \in 1 .. Len(s) /\ h \in 1 .. i - 1
        BY <1>2, <2>4, <4>2, <4>4
      <4> QED BY <2>6, <4>5 DEF Waits
    <3> QED BY <3>1, <3>2
  <2>7. ASSUME NEW k \in 1 .. Len(t), t[k].do = "access" PROVE t[k] = y \/ \E j \in 1 .. Len(s) : t[k] = s[j]
    <3>1. k # 1
      BY <1>3, <2>3, <2>7
    <3>2. CASE k = 2
      BY <2>3, <3>2
    <3>3. CASE k # 2
      <4>1. PICK i \in 2 .. Len(s) : k = i + 1
        BY <2>5, <3>1, <3>3
      <4>2. t[k] = s[i] /\ i \in 1 .. Len(s)
        BY <1>2, <2>4, <4>1
      <4> QED BY <4>2
    <3> QED BY <3>2, <3>3
  <2> QED BY <2>6, <2>7 DEF Waits, NewAccess
<1> QED BY <1>1, <1>4, <1>5

(* The instruction made for a name reaches what was found for it. *)
LEMMA AccessReaches ==
  ASSUME CodegenOK, status = "compiling", Linked(compilers), NEW x, ~CannotResolve(x), NEW verb \in {"get", "set"},
         NEW i, i.name = x, i.code = Access(verb, x),
         NEW ds, ds = IF Owner(x) \in {0, Len(compilers)} THEN compilers ELSE resolveUpvalue(x)
  PROVE  /\ ds \in Seq(Sound) /\ Linked(ds) /\ Extends(compilers, ds) /\ SameNames(compilers, ds)
         /\ Good(ds, i)
<1>1. PICK cs, n : cs = compilers /\ n = Len(cs) /\ n \in Nat /\ cs \in Seq(Sound) /\ n \in 1 .. n /\ Linked(cs)
  BY Meeting DEF CodegenOK
<1>2. PICK o, slot : o = Owner(x) /\ slot = resolveLocal(compilers[o], x)
  OBVIOUS
<1>3. PICK where, D : where = (IF o = 0 THEN <<0, 0>> ELSE <<o, slot>>) /\ D = Declared(cs, x) /\ Innermost(where, D)
  BY <1>1, <1>2, FoundInnermost
<1>4. PICK op : op = Instructions[verb]
  OBVIOUS
<1>5. /\ op.global \in {"GET_GLOBAL", "SET_GLOBAL"} /\ op.local \in {"GET_LOCAL", "SET_LOCAL"}
      /\ op.upvalue \in {"GET_UPVALUE", "SET_UPVALUE"}
  BY <1>4 DEF Instructions
<1>6. Extends(cs, cs) /\ SameNames(cs, cs)
  <2>1. \A l \in 1 .. Len(cs) : Len(cs[l].upvalues) \in Nat
    BY <1>1, LevelTyped
  <2> QED BY <2>1 DEF Extends, SameNames
<1>7. CASE o = 0
  <2>1. ds = cs
    BY <1>1, <1>2, <1>7
  <2>2. i.code = emitConstantCommond(op.global)
    BY <1>2, <1>4, <1>7 DEF Access
  <2>3. i.code[1].op = op.global
    BY <2>2, ConstantBegins
  <2>4. i.code[1].op \notin {"GET_LOCAL", "SET_LOCAL", "GET_UPVALUE", "SET_UPVALUE"}
    BY <1>5, <2>3
  <2>5. DenotedIn(cs, Via(cs), i.code) = <<0, 0>>
    BY <2>4 DEF DenotedIn
  <2>6. Good(cs, i)
    BY <1>3, <1>7, <2>4, <2>5 DEF Good
  <2> QED BY <1>1, <1>6, <2>1, <2>6
<1>8. CASE o # 0 /\ o = n
  <2>1. ds = cs
    BY <1>1, <1>2, <1>8
  <2>2. cs[n] \in CompilersTyped /\ LocalsNamed(cs[n], x) # {} /\ Len(cs[n].locals) \in 1 .. LOCAL_MAX
    <3>1. cs[n] \in Sound
      BY <1>1, ElementOfSeq
    <3>2. LocalsNamed(cs[n], x) # {}
      BY <1>1, <1>2, <1>8, OwnerIs
    <3> QED BY <3>1, <3>2 DEF Sound, LocalsOK
  <2>3. slot \in 0 .. Len(cs[n].locals) - 1
    BY <1>1, <1>2, <1>8, <2>2, ResolvedIn
  <2>4. slot \in 0 .. Base - 1
    BY <2>2, <2>3, Bytes_
  <2>5. slot % Base = slot
    BY <2>4, SmallRest
  <2>6. i.code = <<Op(op.local), Byte(slot)>>
    BY <1>1, <1>2, <1>4, <1>8, <2>5 DEF Access
  <2>7. i.code[1].op = op.local /\ i.code[2].byte = slot
    BY <2>6 DEF Op, Byte
  <2>8. i.code[1].op \in {"GET_LOCAL", "SET_LOCAL"} /\ i.code[1].op \notin {"GET_UPVALUE", "SET_UPVALUE"}
    BY <1>5, <2>7
  <2>9. DenotedIn(cs, Via(cs), i.code) = <<o, slot>>
    BY <1>1, <1>8, <2>7, <2>8 DEF DenotedIn
  <2>10. Good(cs, i)
    BY <1>3, <1>8, <2>8, <2>9 DEF Good
  <2> QED BY <1>1, <1>6, <2>1, <2>10
<1>9. CASE o # 0 /\ o # n
  <2>1. ds = resolveUpvalue(x)
    BY <1>1, <1>2, <1>9
  <2>2. PICK c : c = UpvalueChain(x)
    OBVIOUS
  <2>3. Owner(x) \notin {0, Len(compilers)}
    BY <1>1, <1>2, <1>9
  <2>4. /\ o \in 1 .. n /\ o < n /\ slot \in 0 .. Len(cs[o].locals) - 1
        /\ c[o + 1] = [index |-> slot, isLocal |-> TRUE]
        /\ \A l \in o + 2 .. n : c[l] = [index |-> IndexOf(cs[l - 1].upvalues, c[l - 1]), isLocal |-> FALSE]
        /\ \A l \in o + 1 .. n : c[l] \in Upvalues /\ IndexOf(cs[l].upvalues, c[l]) # UPVALUE_MAX
        /\ ds \in Seq(Sound) /\ Len(ds) = n
        /\ \A l \in 1 .. n : ds[l] = Resolved(cs, o, slot, c, l)
    BY <1>1, <1>2, <2>1, <2>2, <2>3, UpvaluesResolved
  <2>5. CapturedAlong(cs, ds, o, slot, c)
    BY <1>1, <2>4 DEF CapturedAlong, Links, Room
  <2>6. Extends(cs, ds) /\ SameNames(cs, ds)
    BY <1>1, <2>4, <2>5, CapturesExtend
  <2>7. Linked(ds)
    BY <1>1, <2>4, <2>5, CapturesLinked
  <2>8. PICK k : k = IndexOf(cs[n].upvalues, c[n])
    OBVIOUS
  <2>9. k + 1 \in 1 .. Len(ds[n].upvalues) /\ k \in 0 .. Base - 1
    <3>1. Grown(cs, ds, o, c, n)
      BY <1>1, <2>4, <2>5, Growing
    <3>2. k + 1 \in 1 .. Len(ds[n].upvalues)
      BY <2>4, <2>8, <3>1 DEF Grown
    <3>3. ds[n] \in Sound
      BY <1>1, <2>4, ElementOfSeq
    <3>4. Len(ds[n].upvalues) <= UPVALUE_MAX /\ Len(ds[n].upvalues) \in Nat
      BY <3>1, <3>3 DEF Sound, Grown
    <3>5. k \in 0 .. Len(cs[n].upvalues)
      <4>1. cs[n].upvalues \in Seq(Upvalues)
        BY <1>1, LevelTyped
      <4> QED BY <2>8, <4>1, IndexIn
    <3> QED BY <3>2, <3>4, <3>5, Bytes_
  <2>10. Via(ds)[n][k + 1] = <<o, slot>>
    <3>1. n \in o + 1 .. Len(cs)
      BY <1>1, <2>4
    <3>2. cs \in Seq(Sound) /\ ds \in Seq(Sound)
      BY <1>1, <2>4
    <3>3. AllDenote(cs, ds, o, slot, c)
      BY <2>5, <2>7, <3>2, CapturesDenote
    <3>4. Via(ds)[n][IndexOf(cs[n].upvalues, c[n]) + 1] = <<o, slot>>
      BY <3>1, <3>3 DEF AllDenote
    <3> QED BY <2>8, <3>4
  <2>11. k % Base = k
    BY <2>9, SmallRest
  <2>12. i.code = <<Op(op.upvalue), Byte(k)>>
    BY <1>1, <1>2, <1>4, <1>9, <2>2, <2>8, <2>11 DEF Access
  <2>13. i.code[1].op = op.upvalue /\ i.code[2].byte = k
    BY <2>12 DEF Op, Byte
  <2>14. i.code[1].op \notin {"GET_LOCAL", "SET_LOCAL"} /\ i.code[1].op \in {"GET_UPVALUE", "SET_UPVALUE"}
    BY <1>5, <2>13
  <2>15. DenotedIn(ds, Via(ds), i.code) = <<o, slot>>
    BY <2>4, <2>10, <2>13, <2>14 DEF DenotedIn
  <2>16. Declared(ds, x) = D
    BY <1>1, <1>3, <2>4, <2>6, DeclaredKept
  <2>17. Good(ds, i)
    BY <1>3, <1>9, <2>4, <2>9, <2>13, <2>15, <2>16 DEF Good
  <2> QED BY <1>1, <2>4, <2>6, <2>7, <2>17
<1> QED BY <1>7, <1>8, <1>9

LEMMA namedVariableAccess == ASSUME CodegenOK, CodegenOK', AccessOK, namedVariable PROVE AccessOK'
<1>1. status = "compiling" /\ First.do = "named"
  BY DEF namedVariable, Doing
<1>2. PICK x, verb : x = First.name /\ verb = First.code /\ x \in Identifiers /\ verb \in {"get", "set"}
  BY <1>1, Meeting DEF Items, Details
<1>3. CASE CannotResolve(x)
  BY <1>2, <1>3, FailKept DEF namedVariable
<1>4. CASE ~CannotResolve(x)
  <2>1. PICK code \in Codes : code = Access(verb, x)
    BY <1>1, <1>2, AccessCode
  <2>2. PICK e, y : e = Expression /\ y = [Item("access") EXCEPT !.name = x, !.code = code]
    OBVIOUS
  <2>3. y \in Items /\ y.do = "access" /\ y.name = x /\ y.code = code
    <3>1. y \in Items
      BY <1>2, <2>2, AccessMade
    <3>2. y.do = "access" /\ y.name = x /\ y.code = code
      BY <2>2 DEF Item
    <3> QED BY <3>1, <3>2
  <2>4. e \in Items /\ e.do \in NewParts
    BY <2>2, ExpressionMade, Does DEF NewParts, ExpressionTasks
  <2>5. Continue(<<e, y>>) \/ Continue(<<y>>)
    BY <1>2, <1>4, <2>1, <2>2 DEF namedVariable
  <2>6. PICK cs, ds, s, t : cs = compilers /\ ds = compilers' /\ s = todo /\ t = todo'
    OBVIOUS
  <2>7. ds = IF Owner(x) \in {0, Len(compilers)} THEN compilers ELSE resolveUpvalue(x)
    BY <1>2, <1>4, <2>6 DEF namedVariable
  <2>8. /\ s \in Seq(Items) /\ s # <<>> /\ Waits(s) /\ cs \in Seq(Sound) /\ Linked(cs) /\ Len(cs) > 0
        /\ \A k \in 1 .. Len(s) : s[k].do = "access" => Good(cs, s[k])
        /\ (t = <<e, y>> \o Tail(s) \/ t = <<y>> \o Tail(s))
    BY <1>1, <2>5, <2>6, Meeting DEF CodegenOK, AccessOK, Continue
  <2>9. ds \in Seq(Sound) /\ Linked(ds) /\ Extends(cs, ds) /\ SameNames(cs, ds) /\ Good(ds, y)
    <3>1. Linked(compilers)
      BY <2>6, <2>8
    <3>2. y.name = x /\ y.code = Access(verb, x)
      BY <2>1, <2>3
    <3> QED BY <1>1, <1>2, <1>4, <2>6, <2>7, <3>1, <3>2, AccessReaches
  <2>10. Waits(t) /\ NewAccess(s, t, y)
    BY <2>3, <2>4, <2>8, WaitsAccess
  <2>11. ASSUME NEW k \in 1 .. Len(t), t[k].do = "access" PROVE Good(ds, t[k])
    <3>1. CASE t[k] = y
      BY <2>9, <3>1
    <3>2. CASE t[k] # y
      <4>1. PICK j \in 1 .. Len(s) : t[k] = s[j]
        BY <2>10, <2>11, <3>2 DEF NewAccess
      <4>2. PICK i : i = s[j] /\ Good(cs, i)
        BY <2>8, <2>11, <4>1
      <4>3. Good(ds, i)
        BY <2>8, <2>9, <4>2, GoodKept
      <4> QED BY <4>1, <4>2, <4>3
    <3> QED BY <3>1, <3>2
  <2> QED BY <2>6, <2>9, <2>10, <2>11 DEF AccessOK
<1> QED BY <1>3, <1>4

----------------------------------------------------------------------------
(* All steps. *)

LEMMA PlainSteps ==
  ASSUME CodegenOK,
         \/ Declarations \/ Statements
         \/ declarations \/ blockEnds \/ programEnds \/ initializer \/ define \/ variablesEnd \/ classEnds \/ method
         \/ parametersEnd \/ endBlock \/ forCondition \/ forExit \/ forIncrement \/ forLoop \/ forBody \/ forEnds
         \/ branchCaseStatement \/ caseThen \/ caseElse
  PROVE  PlainStep
<1>1. CASE Declarations
  <2>1. PICK x : varDeclaration(x) \/ funDeclaration(x) \/ classDeclaration(x) \/ parameter(x)
    BY <1>1 DEF Declarations
  <2> QED BY <2>1, varDeclarationPlain, funDeclarationPlain, classDeclarationPlain, parameterPlain
<1>2. CASE Statements
  BY <1>2, expressionStatementPlain, blockStatementPlain, returnStatementPlain, forStatementPlain, breakStatementPlain,
     continueStatementPlain, branchStatementPlain DEF Statements
<1>3. CASE blockEnds \/ variablesEnd \/ parametersEnd \/ classEnds
  BY <1>3, ClosingPlain
<1>4. CASE \/ declarations \/ programEnds \/ initializer \/ define \/ method \/ endBlock \/ forCondition \/ forExit
           \/ forIncrement \/ forLoop \/ forBody \/ forEnds \/ branchCaseStatement \/ caseThen \/ caseElse
  BY <1>4, declarationsPlain, programEndsPlain, initializerPlain, definePlain, methodPlain, endBlockPlain,
     forConditionPlain, forExitPlain, forIncrementPlain, forLoopPlain, forBodyPlain, forEndsPlain,
     branchCaseStatementPlain, caseThenPlain, caseElsePlain
<1> QED BY <1>1, <1>2, <1>3, <1>4

LEMMA PartSteps ==
  ASSUME CodegenOK, ExpressionRules \/ emitItem \/ patchItem \/ shortcut \/ objectEnds
  PROVE  PartStep
<1>1. CASE emitItem \/ patchItem \/ shortcut \/ objectEnds \/ literal \/ this_
  BY <1>1, emitItemPart, patchItemPart, shortcutPart, objectEndsPart, literalPart, thisPart
<1>2. CASE \E form \in DOMAIN Shortcut : logical(form)
  BY <1>2, logicalPart
<1>3. CASE \E form \in DOMAIN Operations : operation(form)
  BY <1>3, operationPart
<1>4. CASE \E n \in 0 .. ARGUMENT_MAX + 1 : call(n) \/ invoke(n) \/ arrayLiteral(n) \/ objectLiteral(n)
  BY <1>4, callsPart, objectLiteralPart
<1>5. CASE \E verb \in DOMAIN Instructions, x \in Names : variable(verb, x)
  BY <1>5, variablePart
<1> QED BY <1>1, <1>2, <1>3, <1>4, <1>5 DEF ExpressionRules

LEMMA NextAccess == ASSUME CodegenOK, CodegenOK', AccessOK, [Next]_vars PROVE AccessOK'
<1>1. CASE UNCHANGED vars
  BY <1>1 DEF vars, AccessOK
<1>2. CASE compile
  BY <1>2, compileAccess
<1>3. CASE \/ Declarations \/ Statements
           \/ declarations \/ blockEnds \/ programEnds \/ initializer \/ define \/ variablesEnd \/ classEnds \/ method
           \/ parametersEnd \/ endBlock \/ forCondition \/ forExit \/ forIncrement \/ forLoop \/ forBody \/ forEnds
           \/ branchCaseStatement \/ caseThen \/ caseElse
  BY <1>3, PlainSteps, PlainKept
<1>4. CASE ExpressionRules \/ emitItem \/ patchItem \/ shortcut \/ objectEnds
  BY <1>4, PartSteps, PartKept
<1>5. CASE endScript \/ function \/ functionEnds \/ namedVariable
  BY <1>5, endScriptAccess, functionAccess, functionEndsAccess, namedVariableAccess
<1> QED BY <1>1, <1>2, <1>3, <1>4, <1>5 DEF Next, Resume

LEMMA AccessesSound == Spec => [](CodegenOK /\ AccessOK)
<1>1. Init => CodegenOK /\ AccessOK
  BY InitOK, InitAccess
<1>2. CodegenOK /\ AccessOK /\ [Next]_vars => (CodegenOK /\ AccessOK)'
  BY NextOK, NextAccess
<1> QED BY <1>1, <1>2, PTL DEF Spec

(* When the instruction that reads or writes a variable is written, whatever *)
(* was compiled between the name and it, its operand stands for the          *)
(* innermost declaration of the name, by way of the upvalues of the          *)
(* functions between; it is a global's only if no function under way         *)
(* declares the name.                                                        *)
THEOREM NamesResolveInnermost == Spec => []AccessIsInnermost
<1>1. CodegenOK /\ AccessOK => AccessIsInnermost
  <2>1. SUFFICES ASSUME CodegenOK, AccessOK, Doing("access") PROVE AccessIsInnermost
    BY DEF AccessIsInnermost
  <2>2. status = "compiling" /\ First.do = "access"
    BY <2>1 DEF Doing
  <2>3. Good(compilers, First)
    <3>1. PICK s, i : s = todo /\ i = First
      OBVIOUS
    <3>2. s # <<>> /\ s \in Seq(Items)
      BY <2>1, <2>2, <3>1, Meeting DEF CodegenOK
    <3>3. 1 \in 1 .. Len(s)
      BY <3>2, EmptySeq, LenProperties
    <3> QED BY <2>1, <2>2, <3>1, <3>3 DEF AccessOK, First
  <2>4. Innermost(Denoted(First.code), Declared(compilers, First.name))
    BY <2>3, DenotedIs DEF Good
  <2>5. Doing("access") => Innermost(Denoted(First.code), Declared(compilers, First.name))
    BY <2>4
  <2> QED BY <2>5, Zenon DEF AccessIsInnermost, Innermost, Declared
<1> QED BY <1>1, AccessesSound, PTL

----------------------------------------------------------------------------
(* The height of the stack of the machine, as CodegenHeights proves it. *)

(* A map h of a function's code has a height for the start of each of its    *)
(* instructions, and for its end.                                            *)

Forward == {"JUMP", "JUMP_IF_FALSE", "JUMP_IF_FALSE_POP", "JUMP_IF_TRUE"}

(* What CodeExecutes asks of an instruction that finds n values. *)
Whole(code, p) == Decodes(code, p) /\ (code[p].op = "CLOSURE" => ReadShort(code, p + 1) \in Nat)
Executes(f, p, n) ==
  /\ Whole(f.code, p)
  /\ n - Takes(f.code, p) >= 1
  /\ Captures(f.code, p) \subseteq 0 .. n
  /\ f.code[p].op \in {"GET_LOCAL", "SET_LOCAL"} => ReadByte(f.code, p + 1) < n
  /\ f.code[p].op \in {"GET_UPVALUE", "SET_UPVALUE"} => ReadByte(f.code, p + 1) < Len(f.upvalues)

(* Behind a return from an initializer is a byte that is no instruction. *)
Dead(f, p) == f.type = "initializer" /\ f.code[p].op = "operand"

Maps(f, h, p) ==
  \/ Dead(f, p)
  \/ /\ Executes(f, p, h[p])
     /\ \A t \in Targets(f.code, p) : t \in DOMAIN h /\ h[t] = h[p] - Takes(f.code, p) + Leaves(f.code, p)

Mapped(f, h) ==
  /\ DOMAIN h \subseteq 1 .. Count(f) + 1 /\ \A p \in DOMAIN h : h[p] \in Nat
  /\ 1 \in DOMAIN h /\ h[1] = f.arity + 1
  /\ \A p \in DOMAIN h : p <= Count(f) => Maps(f, h, p)
  /\ \A p, q \in DOMAIN h : p < q => p + OperandSize(f.code, p) < q

(* The code so far leaves n values. *)
Ends(f, h, n) == Mapped(f, h) /\ Count(f) + 1 \in DOMAIN h /\ h[Count(f) + 1] = n

(* More code, or the same with jumps patched. *)
Grows(f, h, g, k) ==
  /\ Count(f) <= Count(g)
  /\ \A p \in DOMAIN h : p \in DOMAIN k /\ k[p] = h[p] /\ (p <= Count(f) => g.code[p].op = f.code[p].op)

(* Code counted to be at n values; a jump ahead, with n values where it lands. *)
Starts(h, at, n) == at + 1 \in DOMAIN h /\ h[at + 1] = n
Jumps(f, h, at, n) ==
  /\ at \in DOMAIN h /\ at <= Count(f) /\ f.code[at].op \in Forward
  /\ n = IF f.code[at].op = "JUMP_IF_FALSE_POP" THEN h[at] - 1 ELSE h[at]

(* What the parser knows of a function's stack: its locals (0: not known),   *)
(* whether one has yet no value, the values of expressions above them, how   *)
(* many locals there were when each open scope and loop began.               *)
Pos == Nat \ {0}
Frames ==
  [size : Nat, pending : {"none", "variable", "function", "parameters"}, temps : Nat,
   depth : Nat, sizes : [Nat -> Pos], loops : Nat, floors : [Nat -> Pos]]
Stacks == [level : Nat, frames : [Nat -> Frames]]

Values(t) == IF t.pending \in {"variable", "function"} THEN t.size - 1 ELSE t.size
Height(t) == Values(t) + t.temps

Becomes(t, u, size, pending, temps) ==
  /\ u.size = size /\ u.pending = pending /\ u.temps = temps
  /\ u.depth = t.depth /\ u.loops = t.loops
  /\ \A i \in 1 .. t.depth : u.sizes[i] = t.sizes[i]
  /\ \A i \in 1 .. t.loops : u.floors[i] = t.floors[i]

(* The innermost scope, and loops, end. *)
Leaving(t, u, loops) ==
  /\ t.depth > 0 /\ t.pending = "none"
  /\ u.size = t.sizes[t.depth] /\ u.pending = "none" /\ u.temps = 0
  /\ u.depth = t.depth - 1 /\ u.loops = loops
  /\ \A i \in 1 .. u.depth : u.sizes[i] = t.sizes[i]
  /\ \A i \in 1 .. loops : u.floors[i] = t.floors[i]
  /\ loops > 0 => t.floors[loops] <= u.size

(* Code of one instruction that goes on to the next. *)
Simple(i, t) ==
  /\ Decodes(i.code, 1) /\ Len(i.code) = 1 + OperandSize(i.code, 1)
  /\ i.code[1].op \notin Forward \cup {"LOOP", "CLOSURE"}
  /\ Takes(i.code, 1) <= t.temps
  /\ i.code[1].op \in {"GET_LOCAL", "SET_LOCAL"} => ReadByte(i.code, 2) < Values(t)
  /\ i.do = "emit" => i.code[1].op \notin {"GET_UPVALUE", "SET_UPVALUE"}

(* An item turns a frame t into u. *)
Wild == {"block", "comma", "endScope", "forCondition"}
Closing == {"declaration", "forVariable", "classEnds", "block", "comma"}
Moves(f, h, t, x, u) ==
  /\ x.do \notin Wild => t.size > 0
  /\ t.pending = "parameters" <=> x.do = "parameters"
  /\ x.do \in {"expression", "named", "initializer"} =>
       t.pending # "function" /\ Becomes(t, u, t.size, t.pending, t.temps + 1)
  /\ x.do = "function" => t.pending # "variable" /\ Becomes(t, u, t.size, t.pending, t.temps + 1)
  /\ x.do \in {"emit", "access"} =>
       Simple(x, t) /\ Becomes(t, u, t.size, t.pending, t.temps - Takes(x.code, 1) + Leaves(x.code, 1))
  /\ x.do \in {"objectEnds", "patch", "shortcut", "methods", "statement", "case", "else"} =>
       Becomes(t, u, t.size, t.pending, t.temps)
  /\ x.do = "patch" => Jumps(f, h, x.at, Height(t))
  /\ x.do = "shortcut" => t.temps > 0 /\ t.pending # "function" /\ x.name \in {"JUMP_IF_FALSE", "JUMP_IF_TRUE"}
  /\ x.do = "methods" => t.temps > 0
  /\ x.do \notin {"expression", "named", "initializer", "function", "emit", "access", "objectEnds", "patch", "shortcut",
                  "define", "parameters"} => t.pending = "none"
  /\ x.do \in {"statement", "case", "else", "parameters"} \cup Closing => t.temps = 0
  /\ x.do = "else" => Jumps(f, h, x.at, t.size)
  /\ x.do = "then" => t.temps = 1 /\ Becomes(t, u, t.size, "none", 0)
  /\ x.do \in Closing \cup {"parameters", "define"} => Becomes(t, u, 0, "none", 0)
  /\ x.do = "define" => t.temps = 1 /\ (t.pending = "none" <=> t.depth = 0)
  /\ x.do \in ForTasks \cup {"endScope"} => Leaving(t, u, t.loops)
  /\ x.do = "forEnds" => t.loops > 0 /\ t.floors[t.loops] = t.size /\ Leaving(t, u, t.loops - 1)
  /\ x.do \in ForTasks \cup {"endScope", "forEnds"} => t.temps = IF x.do = "forExit" THEN 1 ELSE 0
  /\ x.do \in {"forExit", "forIncrement", "forLoop", "forBody", "forEnds"} =>
       Starts(h, x.at, t.size) /\ (x.exit # NoJump => Jumps(f, h, x.exit, t.size))
  /\ x.do = "forLoop" => Jumps(f, h, x.code, t.size) /\ Starts(h, x.code + 2, t.size)

(* And a stack of frames: the end of a function leaves a closure below. *)
Leads(cs, hs, a, x, b) ==
  LET n == a.level
  IN  /\ n > 0
      /\ x.do \in Terminators =>
           /\ a.frames[n].temps = 0 /\ a.frames[n].pending = "none"
           /\ b.level = n - 1
           /\ \A l \in 1 .. n - 1 :
                b.frames[l] = IF l = n - 1 THEN [a.frames[l] EXCEPT !.temps = @ + 1] ELSE a.frames[l]
      /\ x.do \notin Terminators =>
           /\ b.level = n
           /\ \A l \in 1 .. n - 1 : b.frames[l] = a.frames[l]
           /\ Moves(cs[n], hs[n], a.frames[n], x, b.frames[n])

(* The rest of the parse, from the stack a. *)
Walk(cs, hs, s, g, a) ==
  /\ g \in [1 .. Len(s) + 1 -> Stacks]
  /\ g[1] = a
  /\ \A j, k \in 1 .. Len(s) + 1 : j <= k => g[k].level <= g[j].level
  /\ \A k \in 1 .. Len(s) : Leads(cs, hs, g[k], s[k], g[k + 1])
Walks(cs, hs, s, a) == \E g : Walk(cs, hs, s, g, a)

(* A frame fits the function; so do its loops. *)
Fitting(f, t) ==
  /\ t.size = Len(f.locals) /\ Values(t) > 0 /\ t.depth = f.scopeDepth
  /\ t.pending = "variable" <=> Last(f).depth = -1
  /\ t.pending = "parameters" => f.code = <<>> /\ f.loops = <<>> /\ f.scopeDepth = 1
  /\ \A d \in 1 .. t.depth :
       /\ t.sizes[d] <= t.size
       /\ \A i \in 1 .. t.size : i <= t.sizes[d] <=> f.locals[i].depth \in 0 .. d - 1
Looping(f, h, t) ==
  /\ t.loops = Len(f.loops)
  /\ \A i \in 1 .. t.loops :
       /\ f.loops[i].enterParamCount = t.floors[i] /\ Starts(h, f.loops[i].start, t.floors[i])
       /\ \A j \in 1 .. Len(f.loops[i].breakJumps) : Jumps(f, h, f.loops[i].breakJumps[j], t.floors[i])
  /\ t.loops > 0 => t.floors[t.loops] <= Values(t)
Holds(f, h, t) == Fitting(f, t) /\ Looping(f, h, t) /\ Ends(f, h, Height(t))

Carried(cs, hs, a) ==
  /\ a \in Stacks /\ a.level = Len(cs) /\ a.level > 0
  /\ \A l \in 1 .. a.level : Holds(cs[l], hs[l], a.frames[l])

HeightOK == status = "compiling" => \E hs, a : Carried(compilers, hs, a) /\ Walks(compilers, hs, todo, a)

(* The first item, and the rest. *)
LEMMA WalksFirst ==
  ASSUME NEW cs, NEW hs, NEW s \in Seq(Items), s # <<>>, NEW a, Walks(cs, hs, s, a)
  PROVE  /\ a \in Stacks
         /\ \E b \in Stacks : Leads(cs, hs, a, s[1], b) /\ Walks(cs, hs, Tail(s), b)
<1>1. PICK g : Walk(cs, hs, s, g, a)
  BY DEF Walks
<1>2. PICK n : n = Len(s) /\ n \in Nat
  BY LenProperties
<1>3. /\ g \in [1 .. n + 1 -> Stacks] /\ g[1] = a
      /\ \A k \in 1 .. n : Leads(cs, hs, g[k], s[k], g[k + 1])
      /\ \A j, k \in 1 .. n + 1 : j <= k => g[k].level <= g[j].level
  BY <1>1, <1>2 DEF Walk
<1>4. n > 0
  <2>1. n = 0 => s = <<>>
    BY <1>2, EmptySeq
  <2> QED BY <1>2, <2>1
<1>5. Len(Tail(s)) = n - 1 /\ \A k \in 1 .. n - 1 : Tail(s)[k] = s[k + 1]
  BY <1>2, <1>4, HeadTailProperties
<1>6. PICK b : b = g[2]
  OBVIOUS
<1>7. a \in Stacks /\ b \in Stacks /\ Leads(cs, hs, a, s[1], b)
  BY <1>2, <1>3, <1>4, <1>6
<1>9. PICK h : h = [k \in 1 .. n |-> g[k + 1]]
  OBVIOUS
<1>10. PICK m : m = Len(Tail(s)) /\ m = n - 1 /\ m \in Nat
  BY <1>2, <1>4, <1>5
<1>11. h \in [1 .. m + 1 -> Stacks] /\ h[1] = b
  BY <1>2, <1>3, <1>4, <1>6, <1>9, <1>10
<1>12. \A k \in 1 .. m : Leads(cs, hs, h[k], Tail(s)[k], h[k + 1])
  <2>1. TAKE k \in 1 .. m
  <2>2. k + 1 \in 1 .. n /\ k \in 1 .. n /\ k + 1 + 1 = k + 2
    BY <1>2, <1>10
  <2>3. h[k] = g[k + 1] /\ h[k + 1] = g[k + 1 + 1] /\ Tail(s)[k] = s[k + 1]
    BY <1>5, <1>9, <1>10, <2>2
  <2> QED BY <1>3, <2>2, <2>3
<1>13. \A j, k \in 1 .. m + 1 : j <= k => h[k].level <= h[j].level
  <2>1. TAKE j, k \in 1 .. m + 1
  <2>2. HAVE j <= k
  <2>3. j + 1 \in 1 .. n + 1 /\ k + 1 \in 1 .. n + 1 /\ j + 1 <= k + 1 /\ j \in 1 .. n /\ k \in 1 .. n
    BY <1>2, <1>10, <2>2
  <2>4. h[k] = g[k + 1] /\ h[j] = g[j + 1]
    BY <1>9, <2>3
  <2> QED BY <1>3, <2>3, <2>4
<1>14. Walk(cs, hs, Tail(s), h, b)
  BY <1>10, <1>11, <1>12, <1>13 DEF Walk
<1> QED BY <1>7, <1>14 DEF Walks

(* Items before others. *)
LEMMA WalksBefore ==
  ASSUME NEW cs, NEW hs, NEW s \in Seq(Items), NEW items \in Seq(Items), NEW g, NEW a, Walk(cs, hs, items, g, a),
         Walks(cs, hs, s, g[Len(items) + 1])
  PROVE  Walks(cs, hs, items \o s, a)
<1>1. PICK b : b = g[Len(items) + 1]
  OBVIOUS
<1>2. PICK h : Walk(cs, hs, s, h, b)
  BY <1>1 DEF Walks
<1>3. PICK m, n : m = Len(items) /\ m \in Nat /\ n = Len(s) /\ n \in Nat
  BY LenProperties
<1>4. PICK r : r = items \o s
  OBVIOUS
<1>5. /\ Len(r) = m + n
      /\ \A k \in 1 .. m : r[k] = items[k]
      /\ \A k \in m + 1 .. m + n : r[k] = s[k - m]
  <2>1. \A k \in 1 .. m + n : r[k] = IF k <= m THEN items[k] ELSE s[k - m]
    BY <1>3, <1>4, ConcatProperties
  <2>2. Len(r) = m + n
    BY <1>3, <1>4, ConcatProperties
  <2> QED BY <1>3, <2>1, <2>2
<1>6. /\ g \in [1 .. m + 1 -> Stacks] /\ g[1] = a /\ g[m + 1] = b
      /\ \A k \in 1 .. m : Leads(cs, hs, g[k], items[k], g[k + 1])
      /\ \A j, k \in 1 .. m + 1 : j <= k => g[k].level <= g[j].level
  BY <1>1, <1>3 DEF Walk
<1>7. /\ h \in [1 .. n + 1 -> Stacks] /\ h[1] = b
      /\ \A k \in 1 .. n : Leads(cs, hs, h[k], s[k], h[k + 1])
      /\ \A j, k \in 1 .. n + 1 : j <= k => h[k].level <= h[j].level
  BY <1>2, <1>3 DEF Walk
<1>8. PICK f : f = [k \in 1 .. m + n + 1 |-> IF k <= m THEN g[k] ELSE h[k - m]]
  OBVIOUS
<1>9. /\ \A k \in 1 .. m + 1 : f[k] = g[k]
      /\ \A k \in m + 1 .. m + n + 1 : f[k] = h[k - m]
  <2>1. \A k \in 1 .. m : f[k] = g[k]
    BY <1>3, <1>8
  <2>2. \A k \in m + 1 .. m + n + 1 : f[k] = h[k - m]
    BY <1>3, <1>8
  <2>3. f[m + 1] = g[m + 1]
    <3>1. PICK e : e = m + 1 /\ e \in m + 1 .. m + n + 1 /\ e - m = 1
      BY <1>3
    <3>2. f[m + 1] = h[1]
      <4>1. f[e] = h[e - m]
        BY <2>2, <3>1
      <4> QED BY <3>1, <4>1
    <3>3. h[1] = b /\ g[m + 1] = b
      BY <1>6, <1>7
    <3> QED BY <3>2, <3>3
  <2> QED BY <1>3, <2>1, <2>2, <2>3
<1>10. f \in [1 .. m + n + 1 -> Stacks]
  <2>1. ASSUME NEW k \in 1 .. m + n + 1 PROVE f[k] \in Stacks
    <3>1. CASE k <= m
      BY <1>3, <1>6, <1>9, <3>1
    <3>2. CASE ~(k <= m)
      <4>1. k \in m + 1 .. m + n + 1 /\ k - m \in 1 .. n + 1
        BY <1>3, <3>2
      <4> QED BY <1>7, <1>9, <4>1
    <3> QED BY <3>1, <3>2
  <2> QED BY <1>8, <2>1
<1>11. f[1] = a
  BY <1>3, <1>6, <1>9
<1>12. ASSUME NEW k \in 1 .. m + n PROVE Leads(cs, hs, f[k], r[k], f[k + 1])
  <2>1. CASE k <= m
    <3>1. k \in 1 .. m /\ k \in 1 .. m + 1 /\ k + 1 \in 1 .. m + 1
      BY <1>3, <2>1
    <3> QED BY <1>5, <1>6, <1>9, <3>1
  <2>2. CASE ~(k <= m)
    <3>1. /\ k \in m + 1 .. m + n /\ k \in m + 1 .. m + n + 1 /\ k + 1 \in m + 1 .. m + n + 1
          /\ k - m \in 1 .. n /\ k + 1 - m = k - m + 1
      BY <1>3, <2>2
    <3>2. f[k] = h[k - m] /\ r[k] = s[k - m]
      BY <1>5, <1>9, <3>1
    <3>3. PICK i : i = k + 1
      OBVIOUS
    <3>4. f[i] = h[i - m]
      BY <1>9, <3>1, <3>3
    <3>5. PICK d : d = k - m /\ d \in 1 .. n /\ i - m = d + 1
      BY <1>3, <3>1, <3>3
    <3>6. Leads(cs, hs, h[d], s[d], h[d + 1])
      BY <1>7, <3>5
    <3> QED BY <3>2, <3>3, <3>4, <3>5, <3>6
  <2> QED BY <2>1, <2>2
<1>13. ASSUME NEW j \in 1 .. m + n + 1, NEW k \in 1 .. m + n + 1, j <= k
       PROVE  f[k].level <= f[j].level
  <2>1. ASSUME NEW i \in 1 .. m + 1 PROVE f[i] = g[i] /\ b.level <= f[i].level
    BY <1>3, <1>6, <1>9
  <2>2. ASSUME NEW i \in m + 1 .. m + n + 1 PROVE f[i] = h[i - m] /\ f[i].level <= b.level /\ i - m \in 1 .. n + 1
    <3>1. i - m \in 1 .. n + 1 /\ 1 \in 1 .. n + 1 /\ 1 <= i - m
      BY <1>3
    <3> QED BY <1>7, <1>9, <3>1
  <2>3. CASE k <= m
    <3>1. k \in 1 .. m + 1 /\ j \in 1 .. m + 1
      BY <1>3, <1>13, <2>3
    <3> QED BY <1>6, <1>9, <1>13, <3>1
  <2>4. CASE j > m
    <3>1. k \in m + 1 .. m + n + 1 /\ j \in m + 1 .. m + n + 1
      BY <1>3, <1>13, <2>4
    <3>2. j - m <= k - m
      BY <1>3, <1>13
    <3> QED BY <1>7, <2>2, <3>1, <3>2
  <2>5. CASE j <= m /\ k > m
    <3>1. k \in m + 1 .. m + n + 1 /\ j \in 1 .. m + 1
      BY <1>3, <2>5
    <3>2. b.level <= f[j].level /\ f[k].level <= b.level
      BY <2>1, <2>2, <3>1
    <3>3. b \in Stacks
      BY <1>3, <1>6
    <3>4. f[j] \in Stacks /\ f[k] \in Stacks
      BY <1>10
    <3>5. b.level \in Nat /\ f[j].level \in Nat /\ f[k].level \in Nat
      BY <3>3, <3>4 DEF Stacks
    <3> QED BY <3>2, <3>5
  <2> QED BY <1>3, <2>3, <2>4, <2>5
<1>14. Walk(cs, hs, r, f, a)
  BY <1>5, <1>10, <1>11, <1>12, <1>13 DEF Walk
<1> QED BY <1>4, <1>14 DEF Walks

(* What an item asks of the code stays so when the code grows. *)
LEMMA JumpsGrow ==
  ASSUME NEW f, NEW h, NEW g, NEW k, Grows(f, h, g, k), Count(f) \in Nat, Count(g) \in Nat
  PROVE  /\ \A n : \A at \in Int : Starts(h, at, n) => Starts(k, at, n)
         /\ \A n : \A at \in Int : Jumps(f, h, at, n) => Jumps(g, k, at, n)
BY DEF Grows, Starts, Jumps

LEMMA MovesGrow ==
  ASSUME NEW f, NEW h, NEW g, NEW k, Grows(f, h, g, k), Count(f) \in Nat, Count(g) \in Nat,
         NEW t, NEW x \in Items, NEW u, Moves(f, h, t, x, u)
  PROVE  Moves(g, k, t, x, u)
<1>1. x.at \in Int /\ x.exit \in Int /\ (x.do = "forLoop" => x.code \in Int)
  BY DEF Items, ItemRecords, Details
<1>2. /\ \A n : \A at \in Int : Starts(h, at, n) => Starts(k, at, n)
      /\ \A n : \A at \in Int : Jumps(f, h, at, n) => Jumps(g, k, at, n)
  BY JumpsGrow
<1>3. x.do = "forLoop" => Starts(k, x.code + 2, t.size) /\ Jumps(g, k, x.code, t.size)
  BY <1>1, <1>2 DEF Moves
<1>4. x.do \in {"forExit", "forIncrement", "forLoop", "forBody", "forEnds"} =>
       Starts(k, x.at, t.size) /\ (x.exit # NoJump => Jumps(g, k, x.exit, t.size))
  BY <1>1, <1>2 DEF Moves
<1>5. /\ x.do = "else" => Jumps(g, k, x.at, t.size)
      /\ x.do = "patch" => Jumps(g, k, x.at, Height(t))
  BY <1>1, <1>2 DEF Moves
<1> QED BY <1>3, <1>4, <1>5 DEF Moves

LEMMA WalksGrow ==
  ASSUME NEW cs, NEW hs, NEW ds, NEW ks, NEW s \in Seq(Items), NEW a, Walks(cs, hs, s, a),
         \A l \in 1 .. a.level : /\ Grows(cs[l], hs[l], ds[l], ks[l])
                                 /\ Count(cs[l]) \in Nat /\ Count(ds[l]) \in Nat
  PROVE  Walks(ds, ks, s, a)
<1>1. PICK g : Walk(cs, hs, s, g, a)
  BY DEF Walks
<1>2. PICK n : n = Len(s) /\ n \in Nat
  BY LenProperties
<1>3. /\ g \in [1 .. n + 1 -> Stacks] /\ g[1] = a
      /\ \A k \in 1 .. n : Leads(cs, hs, g[k], s[k], g[k + 1])
      /\ \A j, k \in 1 .. n + 1 : j <= k => g[k].level <= g[j].level
  BY <1>1, <1>2 DEF Walk
<1>4. ASSUME NEW k \in 1 .. n PROVE Leads(ds, ks, g[k], s[k], g[k + 1])
  <2>1. PICK b, c, x : b = g[k] /\ c = g[k + 1] /\ x = s[k]
    OBVIOUS
  <2>2. Leads(cs, hs, b, x, c) /\ b \in Stacks /\ c \in Stacks /\ b.level <= a.level /\ x \in Items
    <3>1. k \in 1 .. n + 1 /\ k + 1 \in 1 .. n + 1 /\ 1 \in 1 .. n + 1 /\ 1 <= k
      BY <1>2
    <3>2. x \in Items
      BY <1>2, <2>1, ElementOfSeq
    <3> QED BY <1>3, <2>1, <3>1, <3>2
  <2>3. PICK l : l = b.level /\ l \in Nat
    BY <2>2 DEF Stacks
  <2>4. a.level \in Nat /\ l <= a.level
    <3>1. 1 \in 1 .. n + 1
      BY <1>2
    <3>2. a \in Stacks
      BY <1>3, <3>1
    <3> QED BY <2>2, <2>3, <3>2 DEF Stacks
  <2>5. l \in 1 .. a.level
    BY <2>2, <2>3, <2>4 DEF Leads
  <2>6. x.do \notin Terminators => Moves(ds[l], ks[l], b.frames[l], x, c.frames[l])
    <3>1. HAVE x.do \notin Terminators
    <3>2. Moves(cs[l], hs[l], b.frames[l], x, c.frames[l])
      BY <2>2, <2>3, <3>1 DEF Leads
    <3>3. Grows(cs[l], hs[l], ds[l], ks[l]) /\ Count(cs[l]) \in Nat /\ Count(ds[l]) \in Nat
      BY <2>5
    <3> QED BY <2>2, <3>2, <3>3, MovesGrow
  <2> QED BY <2>1, <2>2, <2>3, <2>6 DEF Leads
<1>5. Walk(ds, ks, s, g, a)
  BY <1>2, <1>3, <1>4 DEF Walk
<1> QED BY <1>5 DEF Walks

Settles(u, w) == w \in Frames /\ (w = u \/ (u.size = 0 /\ w = [u EXCEPT !.size = w.size]))

(* Items turn t into w. *)
Steps(f, h, items, t, w) ==
  \E q \in [1 .. Len(items) + 1 -> Frames] :
    /\ q[1] = t /\ q[Len(items) + 1] = w
    /\ \A i \in 1 .. Len(items) : items[i].do \notin Terminators /\ Moves(f, h, q[i], items[i], q[i + 1])

(* The parser is at a frame t of current, and has s to do from u. *)
Meets(h, t, s, u) ==
  \E hs, a, b :
    /\ Carried(compilers, hs, a) /\ h = hs[a.level] /\ t = a.frames[a.level]
    /\ b \in Stacks /\ b.level = a.level /\ u = b.frames[a.level]
    /\ \A l \in 1 .. a.level - 1 : b.frames[l] = a.frames[l]
    /\ Walks(compilers, hs, s, b)

LEMMA WildMoves ==
  ASSUME NEW f, NEW h, NEW t, NEW x, NEW u, Moves(f, h, t, x, u), t.size = 0, t \in Frames, NEW m \in Nat
  PROVE  Moves(f, h, [t EXCEPT !.size = m], x, u)
<1>1. PICK w : w = [t EXCEPT !.size = m]
  OBVIOUS
<1>2. /\ w.pending = t.pending /\ w.temps = t.temps /\ w.depth = t.depth /\ w.sizes = t.sizes
      /\ w.loops = t.loops /\ w.floors = t.floors
  BY <1>1 DEF Frames
<1>3. x.do \in Wild
  BY DEF Moves
<1>4. x.do \in {"block", "comma"} => Becomes(w, u, 0, "none", 0)
  BY <1>2 DEF Moves, Becomes, Closing
<1>5. x.do \in {"endScope", "forCondition"} => Leaving(w, u, w.loops)
  BY <1>2 DEF Moves, Leaving, ForTasks
<1> QED BY <1>1, <1>2, <1>3, <1>4, <1>5 DEF Moves, Wild, Closing, ForTasks

LEMMA StacksTyped ==
  ASSUME NEW b \in Stacks, NEW n \in Nat, NEW w \in Frames, NEW c, c = [b EXCEPT !.frames[n] = w]
  PROVE  /\ c \in Stacks /\ c.level = b.level /\ b.level \in Nat /\ b.frames[n] \in Frames /\ c.frames[n] = w
         /\ \A l \in Nat : l # n => c.frames[l] = b.frames[l]
         /\ w = b.frames[n] => c = b
BY DEF Stacks

LEMMA Resize ==
  ASSUME NEW cs, NEW hs, NEW s \in Seq(Items), NEW b, Walks(cs, hs, s, b), b \in Stacks, b.level > 0,
         NEW w, Settles(b.frames[b.level], w)
  PROVE  Walks(cs, hs, s, [b EXCEPT !.frames[b.level] = w])
<1>1. PICK n, u, c : n = b.level /\ u = b.frames[n] /\ c = [b EXCEPT !.frames[n] = w]
  OBVIOUS
<1>2. n \in Nat /\ w \in Frames /\ n > 0
  BY <1>1 DEF Stacks, Settles
<1>3. /\ c \in Stacks /\ c.level = n /\ c.frames[n] = w /\ u \in Frames
      /\ \A l \in Nat : l # n => c.frames[l] = b.frames[l]
      /\ w = u => c = b
  BY <1>1, <1>2, StacksTyped
<1>4. CASE w = u
  BY <1>1, <1>3, <1>4
<1>5. CASE w # u
  <2>1. u.size = 0 /\ w = [u EXCEPT !.size = w.size] /\ w.size \in Nat
    BY <1>1, <1>2, <1>5 DEF Settles, Frames
  <2>2. PICK g : Walk(cs, hs, s, g, b)
    BY DEF Walks
  <2>3. PICK m : m = Len(s) /\ m \in Nat
    BY LenProperties
  <2>4. /\ g \in [1 .. m + 1 -> Stacks] /\ g[1] = b
        /\ \A k \in 1 .. m : Leads(cs, hs, g[k], s[k], g[k + 1])
        /\ \A j, k \in 1 .. m + 1 : j <= k => g[k].level <= g[j].level
    BY <2>2, <2>3 DEF Walk
  <2>5. PICK h : h = [g EXCEPT ![1] = c]
    OBVIOUS
  <2>6. h \in [1 .. m + 1 -> Stacks] /\ h[1] = c /\ \A k \in 1 .. m + 1 : h[k].level = g[k].level /\ (k # 1 => h[k] = g[k])
    BY <1>1, <1>3, <2>3, <2>4, <2>5
  <2>7. ASSUME NEW k \in 1 .. m PROVE Leads(cs, hs, h[k], s[k], h[k + 1])
    <3>1. PICK x, d : x = s[k] /\ d = g[k + 1]
      OBVIOUS
    <3>2. k \in 1 .. m + 1 /\ k + 1 \in 1 .. m + 1 /\ k + 1 # 1
      BY <2>3
    <3>3. h[k + 1] = d /\ Leads(cs, hs, g[k], x, d)
      BY <2>4, <2>6, <3>1, <3>2
    <3>4. CASE k # 1
      BY <2>6, <3>1, <3>2, <3>3, <3>4
    <3>5. CASE k = 1
      <4>1. Leads(cs, hs, b, x, d) /\ h[k] = c
        BY <2>4, <2>6, <3>3, <3>5
      <4>2. x.do \notin Terminators => Moves(cs[n], hs[n], w, x, d.frames[n])
        <5>1. HAVE x.do \notin Terminators
        <5>2. Moves(cs[n], hs[n], u, x, d.frames[n])
          BY <1>1, <4>1, <5>1 DEF Leads
        <5> QED BY <1>3, <2>1, <5>2, WildMoves
      <4>3. w.temps = u.temps /\ w.pending = u.pending
        BY <1>3, <2>1 DEF Frames
      <4>4. \A l \in 1 .. n - 1 : c.frames[l] = b.frames[l]
        BY <1>2, <1>3
      <4>5. Leads(cs, hs, c, x, d)
        BY <1>1, <1>2, <1>3, <4>1, <4>2, <4>3, <4>4 DEF Leads
      <4> QED BY <3>1, <3>3, <4>1, <4>5
    <3> QED BY <3>4, <3>5
  <2>8. \A j, k \in 1 .. m + 1 : j <= k => h[k].level <= h[j].level
    BY <2>4, <2>6
  <2>9. Walk(cs, hs, s, h, c)
    BY <2>3, <2>6, <2>7, <2>8 DEF Walk
  <2> QED BY <1>1, <2>9 DEF Walks
<1> QED BY <1>4, <1>5

(* Steps of the topmost frame, before the rest. *)
LEMMA StepsBefore ==
  ASSUME NEW cs, NEW hs, NEW s \in Seq(Items), NEW items \in Seq(Items), NEW b \in Stacks, NEW n, n = b.level, n > 0,
         NEW t, NEW w, Steps(cs[n], hs[n], items, t, w), Walks(cs, hs, s, [b EXCEPT !.frames[n] = w])
  PROVE  Walks(cs, hs, items \o s, [b EXCEPT !.frames[n] = t])
<1>1. PICK m : m = Len(items) /\ m \in Nat
  BY LenProperties
<1>2. PICK q \in [1 .. m + 1 -> Frames] :
         /\ q[1] = t /\ q[m + 1] = w
         /\ \A i \in 1 .. m : items[i].do \notin Terminators /\ Moves(cs[n], hs[n], q[i], items[i], q[i + 1])
  BY <1>1 DEF Steps
<1>3. PICK g : g = [i \in 1 .. m + 1 |-> [b EXCEPT !.frames[n] = q[i]]]
  OBVIOUS
<1>4. n \in Nat
  BY DEF Stacks
<1>5. ASSUME NEW i \in 1 .. m + 1
      PROVE  g[i] \in Stacks /\ g[i].level = n /\ g[i].frames[n] = q[i] /\ \A l \in 1 .. n - 1 : g[i].frames[l] = b.frames[l]
  <2>1. PICK v, c : v = q[i] /\ v \in Frames /\ c = [b EXCEPT !.frames[n] = v]
    BY <1>2
  <2>2. c \in Stacks /\ c.level = n /\ c.frames[n] = v /\ \A l \in Nat : l # n => c.frames[l] = b.frames[l]
    BY <1>4, <2>1, StacksTyped
  <2>3. \A l \in 1 .. n - 1 : c.frames[l] = b.frames[l]
    BY <1>4, <2>2
  <2> QED BY <1>3, <2>1, <2>2, <2>3
<1>6. ASSUME NEW i \in 1 .. m PROVE Leads(cs, hs, g[i], items[i], g[i + 1])
  <2>1. i \in 1 .. m + 1 /\ i + 1 \in 1 .. m + 1
    BY <1>1
  <2>2. PICK c, d, x : c = g[i] /\ d = g[i + 1] /\ x = items[i]
    OBVIOUS
  <2>3. /\ c.level = n /\ d.level = n /\ c.frames[n] = q[i] /\ d.frames[n] = q[i + 1]
        /\ \A l \in 1 .. n - 1 : d.frames[l] = c.frames[l]
    BY <1>5, <2>1, <2>2
  <2>4. x.do \notin Terminators /\ Moves(cs[n], hs[n], q[i], x, q[i + 1])
    BY <1>2, <2>2
  <2>5. Leads(cs, hs, c, x, d)
    BY <2>3, <2>4 DEF Leads
  <2> QED BY <2>2, <2>5
<1>7. g \in [1 .. m + 1 -> Stacks] /\ \A j, k \in 1 .. m + 1 : j <= k => g[k].level <= g[j].level
  <2>1. g = [i \in 1 .. m + 1 |-> g[i]]
    BY <1>3
  <2>2. \A i \in 1 .. m + 1 : g[i] \in Stacks
    BY <1>5
  <2>3. \A i \in 1 .. m + 1 : g[i].level = n
    BY <1>5
  <2>4. g \in [1 .. m + 1 -> Stacks]
    BY <2>1, <2>2
  <2> QED BY <1>4, <2>3, <2>4
<1>8. PICK a : a = g[1]
  OBVIOUS
<1>9. Walk(cs, hs, items, g, a)
  BY <1>1, <1>6, <1>7, <1>8 DEF Walk
<1>10. g[m + 1] = [b EXCEPT !.frames[n] = w] /\ g[1] = [b EXCEPT !.frames[n] = t]
  <2>1. PICK e : e = m + 1
    OBVIOUS
  <2>2. e \in 1 .. m + 1 /\ 1 \in 1 .. m + 1 /\ q[e] = w /\ q[1] = t
    BY <1>1, <1>2, <2>1
  <2>3. g[e] = [b EXCEPT !.frames[n] = q[e]] /\ g[1] = [b EXCEPT !.frames[n] = q[1]]
    BY <1>3, <2>2
  <2> QED BY <2>1, <2>2, <2>3
<1>11. Walks(cs, hs, s, g[Len(items) + 1])
  BY <1>1, <1>10
<1>12. Walks(cs, hs, items \o s, a)
  BY <1>9, <1>11, WalksBefore
<1> QED BY <1>8, <1>10, <1>12

LEMMA Arrives ==
  ASSUME CodegenOK, HeightOK, status = "compiling"
  PROVE  \E h, t : /\ t \in Frames /\ Holds(Current, h, t) /\ Meets(h, t, todo, t)
                   /\ First.do \notin Terminators =>
                        \E u \in Frames : Moves(Current, h, t, First, u) /\ Meets(h, t, Tail(todo), u)
<1>1. PICK hs, a : Carried(compilers, hs, a) /\ Walks(compilers, hs, todo, a)
  BY DEF HeightOK
<1>2. PICK n, h, t : n = a.level /\ h = hs[n] /\ t = a.frames[n]
  OBVIOUS
<1>3. a \in Stacks /\ n \in Nat /\ n > 0 /\ n = Len(compilers) /\ t \in Frames
  BY <1>1, <1>2 DEF Carried, Stacks
<1>4. Holds(Current, h, t)
  <2>1. n \in 1 .. a.level
    BY <1>2, <1>3
  <2> QED BY <1>1, <1>2, <1>3, <2>1 DEF Carried, Current
<1>5. Meets(h, t, todo, t)
  BY <1>1, <1>2, <1>3 DEF Meets
<1>6. ASSUME First.do \notin Terminators
      PROVE  \E u \in Frames : Moves(Current, h, t, First, u) /\ Meets(h, t, Tail(todo), u)
  <2>1. todo \in Seq(Items) /\ todo # <<>>
    BY Meeting DEF CodegenOK
  <2>2. PICK b \in Stacks : Leads(compilers, hs, a, First, b) /\ Walks(compilers, hs, Tail(todo), b)
    BY <1>1, <2>1, WalksFirst DEF First
  <2>3. PICK u : u = b.frames[n]
    OBVIOUS
  <2>4. /\ b.level = n /\ Moves(Current, h, t, First, u)
        /\ \A l \in 1 .. n - 1 : b.frames[l] = a.frames[l]
    BY <1>2, <1>3, <1>6, <2>2, <2>3 DEF Leads, Current
  <2>5. u \in Frames
    BY <1>3, <2>3 DEF Stacks
  <2> QED BY <1>1, <1>2, <1>3, <2>2, <2>3, <2>4, <2>5 DEF Meets
<1> QED BY <1>3, <1>4, <1>5, <1>6

LEMMA GrowsSelf ==
  ASSUME NEW f, NEW h, Count(f) \in Nat
  PROVE  Grows(f, h, f, h)
BY DEF Grows

LEMMA Rises ==
  ASSUME CodegenOK, CodegenOK', status = "compiling", status' = "compiling",
         NEW h, NEW t, NEW s \in Seq(Items), NEW u, Meets(h, t, s, u),
         NEW f, compilers' = [compilers EXCEPT ![Len(compilers)] = f], NEW k, Grows(Current, h, f, k),
         NEW v \in Frames, Holds(f, k, v), NEW items \in Seq(Items), NEW w, Steps(f, k, items, v, w), Settles(u, w),
         todo' = items \o s
  PROVE  HeightOK'
<1>1. PICK hs, a, b :
         /\ Carried(compilers, hs, a) /\ h = hs[a.level] /\ t = a.frames[a.level]
         /\ b \in Stacks /\ b.level = a.level /\ u = b.frames[a.level]
         /\ \A l \in 1 .. a.level - 1 : b.frames[l] = a.frames[l]
         /\ Walks(compilers, hs, s, b)
  BY DEF Meets
<1>2. PICK n, cs, ds : n = Len(compilers) /\ cs = compilers /\ ds = compilers'
  OBVIOUS
<1>3. n \in Nat /\ n > 0 /\ a.level = n /\ a \in Stacks /\ cs \in Seq(Sound) /\ n = Len(cs)
  BY <1>1, <1>2, LenProperties DEF Carried, CodegenOK
<1>4. ds \in Seq(Sound) /\ Len(ds) = n /\ \A j \in 1 .. n : ds[j] = IF j = n THEN f ELSE cs[j]
  <2>1. ds \in Seq(Sound)
    BY <1>2 DEF CodegenOK
  <2>2. cs = [i \in 1 .. n |-> cs[i]]
    BY <1>3, LenProperties
  <2>3. ds = [cs EXCEPT ![n] = f]
    BY <1>2
  <2>4. ds = [i \in 1 .. n |-> IF i = n THEN f ELSE cs[i]]
    BY <1>3, <2>2, <2>3
  <2>5. Len(ds) = n
    <3>1. Len(ds) \in Nat /\ DOMAIN ds = 1 .. Len(ds)
      BY <2>1, LenProperties
    <3> QED BY <1>3, <2>4, <3>1
  <2> QED BY <1>3, <2>1, <2>4, <2>5
<1>5. PICK ks : ks = [l \in Nat |-> IF l = n THEN k ELSE hs[l]]
  OBVIOUS
<1>6. ks[n] = k /\ \A l \in 1 .. n : l # n => ks[l] = hs[l]
  BY <1>3, <1>5
<1>7. \A l \in 1 .. b.level : /\ Grows(cs[l], hs[l], ds[l], ks[l])
                              /\ Count(cs[l]) \in Nat /\ Count(ds[l]) \in Nat
  <2>1. TAKE l \in 1 .. b.level
  <2>2. l \in 1 .. n /\ cs[l] \in CompilersTyped /\ ds[l] \in CompilersTyped
    BY <1>1, <1>3, <1>4, LevelTyped
  <2>3. Count(cs[l]) \in Nat /\ Count(ds[l]) \in Nat
    BY <2>2, Counts
  <2>4. CASE l = n
    BY <1>1, <1>2, <1>3, <1>4, <1>6, <2>2, <2>3, <2>4 DEF Current
  <2>5. CASE l # n
    BY <1>4, <1>6, <2>2, <2>3, <2>5, GrowsSelf
  <2> QED BY <2>4, <2>5
<1>8. Walks(ds, ks, s, b)
  BY <1>1, <1>2, <1>7, WalksGrow
<1>9. Walks(ds, ks, s, [b EXCEPT !.frames[n] = w])
  <2>1. Walks(ds, ks, s, [b EXCEPT !.frames[b.level] = w])
    <3>1. b.level > 0 /\ Settles(b.frames[b.level], w)
      BY <1>1, <1>3
    <3> QED BY <1>1, <1>8, <3>1, Resize
  <2> QED BY <1>1, <1>3, <2>1
<1>10. PICK c : c = [b EXCEPT !.frames[n] = v]
  OBVIOUS
<1>11. Walks(ds, ks, items \o s, c)
  <2>1. Steps(ds[n], ks[n], items, v, w)
    BY <1>3, <1>4, <1>6
  <2>2. n = b.level /\ n > 0
    BY <1>1, <1>3
  <2>3. Walks(ds, ks, items \o s, [b EXCEPT !.frames[n] = v])
    BY <1>1, <1>9, <2>1, <2>2, StepsBefore
  <2> QED BY <1>10, <2>3
<1>12. c \in Stacks /\ c.level = n /\ c.frames[n] = v /\ \A l \in 1 .. n : l # n => c.frames[l] = b.frames[l]
  <2>1. /\ c \in Stacks /\ c.level = b.level /\ c.frames[n] = v
        /\ \A l \in Nat : l # n => c.frames[l] = b.frames[l]
    BY <1>1, <1>3, <1>10, StacksTyped
  <2> QED BY <1>1, <1>3, <2>1
<1>13. ASSUME NEW l \in 1 .. n PROVE Holds(ds[l], ks[l], c.frames[l])
  <2>1. CASE l = n
    BY <1>3, <1>4, <1>6, <1>12, <2>1
  <2>2. CASE l # n
    <3>1. l \in 1 .. n - 1 /\ l \in 1 .. a.level
      BY <1>3, <2>2
    <3>2. c.frames[l] = a.frames[l]
      BY <1>1, <1>3, <1>12, <2>2, <3>1
    <3>3. Holds(cs[l], hs[l], a.frames[l])
      BY <1>1, <1>2, <3>1 DEF Carried
    <3> QED BY <1>4, <1>6, <2>2, <3>2, <3>3
  <2> QED BY <2>1, <2>2
<1>14. Carried(ds, ks, c)
  BY <1>3, <1>4, <1>12, <1>13 DEF Carried
<1> QED BY <1>2, <1>11, <1>14 DEF HeightOK

(* Sequences of items, one by one. *)
LEMMA Steps0 ==
  ASSUME NEW f, NEW h, NEW t \in Frames
  PROVE  Steps(f, h, <<>>, t, t)
<1>1. PICK q : q = [i \in 1 .. 1 |-> t]
  OBVIOUS
<1>2. PICK items : items = <<>>
  OBVIOUS
<1>3. Len(items) = 0 /\ q \in [1 .. 0 + 1 -> Frames] /\ q[1] = t
  BY <1>1, <1>2
<1>4. Steps(f, h, items, t, t)
  BY <1>3 DEF Steps
<1> QED BY <1>2, <1>4

LEMMA StepsFirst ==
  ASSUME NEW f, NEW h, NEW x \in Items, x.do \notin Terminators, NEW t \in Frames, NEW u,
         Moves(f, h, t, x, u), NEW s \in Seq(Items), NEW w, Steps(f, h, s, u, w)
  PROVE  Steps(f, h, <<x>> \o s, t, w) /\ <<x>> \o s \in Seq(Items)
<1>1. PICK n : n = Len(s) /\ n \in Nat
  BY LenProperties
<1>2. PICK q \in [1 .. n + 1 -> Frames] :
         /\ q[1] = u /\ q[n + 1] = w
         /\ \A i \in 1 .. n : s[i].do \notin Terminators /\ Moves(f, h, q[i], s[i], q[i + 1])
  BY <1>1 DEF Steps
<1>3. PICK e, r : e = <<x>> /\ r = e \o s
  OBVIOUS
<1>4. e \in Seq(Items) /\ Len(e) = 1 /\ e[1] = x
  BY <1>3
<1>5. r \in Seq(Items) /\ Len(r) = n + 1 /\ r[1] = x /\ \A i \in 1 .. n : r[i + 1] = s[i]
  <2>1. r \in Seq(Items) /\ Len(r) = 1 + n /\ \A i \in 1 .. 1 + n : r[i] = IF i <= 1 THEN e[i] ELSE s[i - 1]
    BY <1>1, <1>3, <1>4, ConcatProperties
  <2>2. ASSUME NEW i \in 1 .. n PROVE r[i + 1] = s[i]
    <3>1. PICK j : j = i + 1 /\ j \in 1 .. 1 + n /\ ~(j <= 1) /\ j - 1 = i
      BY <1>1
    <3> QED BY <2>1, <3>1
  <2> QED BY <1>1, <1>4, <2>1, <2>2
<1>6. PICK p : p = [i \in 1 .. n + 2 |-> IF i = 1 THEN t ELSE q[i - 1]]
  OBVIOUS
<1>7. p \in [1 .. n + 2 -> Frames] /\ p[1] = t
  <2>1. \A i \in 1 .. n + 2 : i # 1 => i - 1 \in 1 .. n + 1
    BY <1>1
  <2> QED BY <1>1, <1>2, <1>6, <2>1
<1>8. \A i \in 1 .. n + 1 : p[i + 1] = q[i]
  <2>1. TAKE i \in 1 .. n + 1
  <2>2. PICK j : j = i + 1 /\ j \in 1 .. n + 2 /\ j # 1 /\ j - 1 = i
    BY <1>1
  <2> QED BY <1>6, <2>2
<1>9. ASSUME NEW i \in 1 .. n + 1 PROVE r[i].do \notin Terminators /\ Moves(f, h, p[i], r[i], p[i + 1])
  <2>1. CASE i = 1
    BY <1>1, <1>2, <1>5, <1>7, <1>8, <2>1
  <2>2. CASE i # 1
    <3>1. PICK j \in 1 .. n : i = j + 1 /\ j \in 1 .. n + 1 /\ j + 1 \in 1 .. n + 1
      BY <1>1, <2>2
    <3>2. p[i] = q[j] /\ p[i + 1] = q[j + 1] /\ r[i] = s[j]
      BY <1>5, <1>8, <3>1
    <3> QED BY <1>2, <3>1, <3>2
  <2> QED BY <2>1, <2>2
<1>10. p[n + 2] = w
  <2>1. PICK j : j = n + 1 /\ j \in 1 .. n + 1 /\ j + 1 = n + 2
    BY <1>1
  <2>2. p[j + 1] = q[j]
    BY <1>8, <2>1
  <2> QED BY <1>2, <2>1, <2>2
<1>11. Steps(f, h, r, t, w)
  <2>1. PICK m : m = Len(r) /\ m = n + 1 /\ m + 1 = n + 2
    BY <1>1, <1>5
  <2> QED BY <1>7, <1>9, <1>10, <2>1 DEF Steps
<1> QED BY <1>3, <1>5, <1>11

LEMMA Steps1 ==
  ASSUME NEW f, NEW h, NEW x \in Items, x.do \notin Terminators, NEW t \in Frames, NEW u \in Frames, Moves(f, h, t, x, u)
  PROVE  Steps(f, h, <<x>>, t, u) /\ <<x>> \in Seq(Items)
<1>1. <<>> \in Seq(Items) /\ <<x>> \in Seq(Items)
  OBVIOUS
<1>2. Steps(f, h, <<x>> \o <<>>, t, u)
  BY <1>1, Steps0, StepsFirst
<1>3. <<x>> \o <<>> = <<x>>
  BY <1>1, ConcatEmptySeq
<1> QED BY <1>1, <1>2, <1>3

LEMMA Steps2 ==
  ASSUME NEW f, NEW h, NEW x \in Items, x.do \notin Terminators, NEW t \in Frames, NEW u \in Frames, Moves(f, h, t, x, u),
         NEW y \in Items, y.do \notin Terminators, NEW v \in Frames, Moves(f, h, u, y, v)
  PROVE  Steps(f, h, <<x, y>>, t, v) /\ <<x, y>> \in Seq(Items)
<1>1. Steps(f, h, <<y>>, u, v) /\ <<y>> \in Seq(Items) /\ <<x, y>> \in Seq(Items)
  BY Steps1
<1>2. Steps(f, h, <<x>> \o <<y>>, t, v)
  BY <1>1, StepsFirst
<1>3. <<x>> \o <<y>> = <<x, y>>
  BY Pair
<1> QED BY <1>1, <1>2, <1>3

LEMMA Joined3 ==
  ASSUME NEW x \in Items, NEW y \in Items, NEW z \in Items
  PROVE  <<x, y, z>> \in Seq(Items) /\ <<x>> \o <<y, z>> = <<x, y, z>>
<1>1. PICK a, b, c : a = <<x>> /\ b = <<y, z>> /\ c = <<x, y, z>>
  OBVIOUS
<1>2. /\ a \in Seq(Items) /\ b \in Seq(Items) /\ c \in Seq(Items) /\ Len(a) = 1 /\ Len(b) = 2 /\ Len(c) = 3
      /\ a[1] = x /\ b[1] = y /\ b[2] = z /\ c[1] = x /\ c[2] = y /\ c[3] = z
  BY <1>1
<1>3. c = a \o b
  <2>1. \A k \in 1 .. Len(b) : c[k + 1] = b[k]
    <3>1. TAKE k \in 1 .. Len(b)
    <3>2. k = 1 \/ k = 2
      BY <1>2
    <3> QED BY <1>2, <3>2
  <2> QED BY <1>1, <1>2, <2>1, FirstApart
<1> QED BY <1>1, <1>2, <1>3

LEMMA Steps3 ==
  ASSUME NEW f, NEW h, NEW x \in Items, x.do \notin Terminators, NEW t \in Frames, NEW u \in Frames, Moves(f, h, t, x, u),
         NEW y \in Items, y.do \notin Terminators, NEW v \in Frames, Moves(f, h, u, y, v),
         NEW z \in Items, z.do \notin Terminators, NEW w \in Frames, Moves(f, h, v, z, w)
  PROVE  Steps(f, h, <<x, y, z>>, t, w) /\ <<x, y, z>> \in Seq(Items)
<1>1. Steps(f, h, <<y, z>>, u, w) /\ <<y, z>> \in Seq(Items)
  BY Steps2
<1>2. Steps(f, h, <<x>> \o <<y, z>>, t, w)
  BY <1>1, StepsFirst
<1> QED BY <1>2, Joined3

----------------------------------------------------------------------------
(* What is emitted keeps a map of the code. *)

LEMMA Sized ==
  ASSUME NEW c, NEW p, Whole(c, p)
  PROVE  /\ OperandSize(c, p) \in Nat
         /\ c[p].op \in Shorts \cup {"CLOSURE", "INVOKE"} => OperandSize(c, p) >= 2
         /\ c[p].op \in Bytes => OperandSize(c, p) = 1
         /\ c[p].op = "INVOKE" => OperandSize(c, p) = 3
<1>1. CASE c[p].op = "CLOSURE"
  <2>1. PICK r \in Nat : r = ReadShort(c, p + 1)
    BY <1>1 DEF Whole
  <2>2. OperandSize(c, p) = 2 + 3 * r
    BY <1>1, <2>1 DEF OperandSize
  <2> QED BY <1>1, <2>1, <2>2 DEF Bytes
<1>2. CASE c[p].op # "CLOSURE"
  BY <1>2 DEF OperandSize, Shorts, Bytes
<1> QED BY <1>1, <1>2

(* The instruction at p, copied to q. *)
Copied(c, p, d, q) == \A i \in 0 .. OperandSize(c, p) : d[q + i] = c[p + i]

LEMMA CopiedReads ==
  ASSUME NEW c, NEW p \in Nat, NEW d, NEW q \in Nat, Whole(c, p), Copied(c, p, d, q)
  PROVE  /\ d[q] = c[p]
         /\ c[p].op \in Bytes \cup Shorts \cup {"CLOSURE", "INVOKE"} =>
              d[q + 1] = c[p + 1] /\ ReadByte(d, q + 1) = ReadByte(c, p + 1)
         /\ c[p].op \in Shorts \cup {"CLOSURE", "INVOKE"} =>
              d[q + 2] = c[p + 2] /\ ReadShort(d, q + 1) = ReadShort(c, p + 1)
         /\ c[p].op = "INVOKE" => ReadByte(d, q + 3) = ReadByte(c, p + 3)
<1>1. PICK m \in Nat : m = OperandSize(c, p)
  BY Sized
<1>2. \A i \in 0 .. m : d[q + i] = c[p + i]
  BY <1>1 DEF Copied
<1>3. d[q + 0] = c[p + 0] /\ q + 0 = q /\ p + 0 = p
  BY <1>1, <1>2
<1>4. m >= 1 => d[q + 1] = c[p + 1]
  BY <1>1, <1>2
<1>5. m >= 2 => d[q + 2] = c[p + 2]
  BY <1>1, <1>2
<1>6. m >= 3 => d[q + 3] = c[p + 3]
  BY <1>1, <1>2
<1>7. /\ c[p].op \in Bytes \cup Shorts \cup {"CLOSURE", "INVOKE"} => m >= 1
      /\ c[p].op \in Shorts \cup {"CLOSURE", "INVOKE"} => m >= 2
      /\ c[p].op = "INVOKE" => m >= 3
  BY <1>1, Sized
<1>8. q + 1 + 1 = q + 2 /\ p + 1 + 1 = p + 2
  OBVIOUS
<1>9. d[q] = c[p]
  BY <1>3
<1>10. m >= 2 => ReadShort(d, q + 1) = ReadShort(c, p + 1)
  <2>1. HAVE m >= 2
  <2>2. d[q + 1 + 1] = c[p + 1 + 1] /\ d[q + 1] = c[p + 1]
    BY <1>1, <1>4, <1>5, <1>8, <2>1
  <2> QED BY <2>2 DEF ReadShort
<1> QED BY <1>4, <1>5, <1>6, <1>7, <1>9, <1>10 DEF ReadByte

LEMMA CopiedRuns ==
  ASSUME NEW c, NEW p \in Nat, NEW d, NEW q \in Nat, Whole(c, p), Copied(c, p, d, q), q + OperandSize(c, p) <= Len(d)
  PROVE  /\ Whole(d, q) /\ OperandSize(d, q) = OperandSize(c, p)
         /\ Takes(d, q) = Takes(c, p) /\ Leaves(d, q) = Leaves(c, p)
<1>1. PICK m \in Nat : m = OperandSize(c, p)
  BY Sized
<1>2. \A i \in 0 .. m : d[q + i] = c[p + i]
  BY <1>1 DEF Copied
<1>3. /\ d[q] = c[p]
      /\ c[p].op \in Bytes \cup Shorts \cup {"CLOSURE", "INVOKE"} => ReadByte(d, q + 1) = ReadByte(c, p + 1)
      /\ c[p].op \in Shorts \cup {"CLOSURE", "INVOKE"} => ReadShort(d, q + 1) = ReadShort(c, p + 1)
      /\ c[p].op = "INVOKE" => ReadByte(d, q + 3) = ReadByte(c, p + 3)
  BY CopiedReads
<1>4. OperandSize(d, q) = OperandSize(c, p)
  BY <1>3 DEF OperandSize
<1>5. Takes(d, q) = Takes(c, p)
  BY <1>3 DEF Takes, Bytes
<1>6. Leaves(d, q) = Leaves(c, p)
  BY <1>3 DEF Leaves
<1>7. \A j \in q + 1 .. q + m : d[j].op = "operand"
  <2>1. TAKE j \in q + 1 .. q + m
  <2>2. PICK i \in 1 .. m : i = j - q /\ j = q + i /\ p + i \in p + 1 .. p + m /\ i \in 0 .. m
    BY <1>1
  <2>3. c[p + i].op = "operand"
    BY <1>1, <2>2 DEF Whole, Decodes
  <2> QED BY <1>2, <2>2, <2>3
<1>8. Whole(d, q)
  <2>1. Decodes(d, q)
    <3>1. c[p].op # "operand"
      BY DEF Whole, Decodes
    <3>2. q <= Len(d)
      <4>1. DOMAIN d = DOMAIN d /\ q + m <= Len(d)
        BY <1>1
      <4> QED BY <1>1, <4>1
    <3> QED BY <1>1, <1>3, <1>4, <1>7, <3>1, <3>2 DEF Decodes
  <2> QED BY <1>3, <2>1 DEF Whole
<1> QED BY <1>4, <1>5, <1>6, <1>8

LEMMA CopiedCaptures ==
  ASSUME NEW c, NEW p \in Nat, NEW d, NEW q \in Nat, Whole(c, p), Copied(c, p, d, q)
  PROVE  Captures(d, q) = Captures(c, p)
<1>1. d[q] = c[p] /\ (c[p].op = "CLOSURE" => ReadShort(d, q + 1) = ReadShort(c, p + 1))
  BY CopiedReads
<1>2. CASE c[p].op # "CLOSURE"
  BY <1>1, <1>2 DEF Captures
<1>3. CASE c[p].op = "CLOSURE"
  <2>1. PICK r \in Nat : r = ReadShort(c, p + 1) /\ r = ReadShort(d, q + 1)
    BY <1>1, <1>3 DEF Whole
  <2>2. PICK m \in Nat : m = OperandSize(c, p) /\ m = 2 + 3 * r
    BY <1>3, <2>1 DEF OperandSize
  <2>3. \A i \in 0 .. m : d[q + i] = c[p + i]
    BY <2>2 DEF Copied
  <2>4. ASSUME NEW i \in 1 .. r
        PROVE  /\ ReadByte(d, q + 3 * i) = ReadByte(c, p + 3 * i)
               /\ ReadShort(d, q + 3 * i + 1) = ReadShort(c, p + 3 * i + 1)
    <3>1. PICK j \in Nat : j = 3 * i /\ j + 2 <= m
      BY <2>1, <2>2
    <3>2. j \in 0 .. m /\ j + 1 \in 0 .. m /\ j + 2 \in 0 .. m
      BY <2>2, <3>1
    <3>3. d[q + j] = c[p + j] /\ d[q + (j + 1)] = c[p + (j + 1)] /\ d[q + (j + 2)] = c[p + (j + 2)]
      BY <2>3, <3>2
    <3>4. q + (j + 1) = q + j + 1 /\ p + (j + 1) = p + j + 1 /\ q + (j + 2) = q + j + 1 + 1 /\ p + (j + 2) = p + j + 1 + 1
      BY <3>1
    <3>5. d[q + j + 1] = c[p + j + 1] /\ d[q + j + 1 + 1] = c[p + j + 1 + 1]
      BY <3>3, <3>4
    <3> QED BY <3>1, <3>3, <3>5 DEF ReadByte, ReadShort
  <2>5. /\ Captures(c, p) = {ReadShort(c, x + 1) : x \in {y \in {p + 3 * i : i \in 1 .. r} : ReadByte(c, y) = 1}}
        /\ Captures(d, q) = {ReadShort(d, x + 1) : x \in {y \in {q + 3 * i : i \in 1 .. r} : ReadByte(d, y) = 1}}
    BY <1>1, <1>3, <2>1 DEF Captures
  <2>6. Captures(c, p) = {ReadShort(c, p + 3 * i + 1) : i \in {j \in 1 .. r : ReadByte(c, p + 3 * j) = 1}}
    BY <2>5
  <2>7. Captures(d, q) = {ReadShort(d, q + 3 * i + 1) : i \in {j \in 1 .. r : ReadByte(d, q + 3 * j) = 1}}
    BY <2>5
  <2> QED BY <2>4, <2>6, <2>7
<1> QED BY <1>2, <1>3

(* Jumps are relative. *)
LEMMA CopiedTargets ==
  ASSUME NEW c, NEW p \in Nat, NEW d, NEW q \in Nat, Whole(c, p), Copied(c, p, d, q), q + OperandSize(c, p) <= Len(d),
         c[p].op \in Forward \cup {"LOOP"} => ReadShort(c, p + 1) \in Int
  PROVE  \A t \in Targets(d, q) : t - q + p \in Targets(c, p)
<1>1. PICK m \in Nat : m = OperandSize(c, p) /\ m = OperandSize(d, q)
  BY Sized, CopiedRuns
<1>2. d[q] = c[p]
  BY CopiedReads
<1>3. CASE c[p].op \in Forward \cup {"LOOP"}
  <2>1. d[q + 1] = c[p + 1] /\ ReadShort(d, q + 1) = ReadShort(c, p + 1)
    BY <1>3, CopiedReads DEF Forward, Shorts
  <2>2. PICK r \in Int : r = ReadShort(c, p + 1) /\ r = ReadShort(d, q + 1)
    BY <1>3, <2>1
  <2>3. ASSUME NEW op, c[p].op = op, op \in Forward \cup {"LOOP"}
        PROVE  /\ Targets(c, p) = IF op = "LOOP" THEN {p + 1 + m - r}
                                 ELSE (IF c[p + 1] = Unpatched THEN {} ELSE {p + 1 + m + r})
                                        \cup (IF op = "JUMP" THEN {} ELSE {p + 1 + m})
               /\ Targets(d, q) = IF op = "LOOP" THEN {q + 1 + m - r}
                                 ELSE (IF c[p + 1] = Unpatched THEN {} ELSE {q + 1 + m + r})
                                        \cup (IF op = "JUMP" THEN {} ELSE {q + 1 + m})
    <3>1. d[q].op = op
      BY <1>2, <2>3
    <3>2. CASE op = "LOOP"
      BY <1>1, <2>1, <2>2, <2>3, <3>1, <3>2 DEF Targets
    <3>3. CASE op = "JUMP"
      BY <1>1, <2>1, <2>2, <2>3, <3>1, <3>3 DEF Targets
    <3>4. CASE op \in {"JUMP_IF_FALSE", "JUMP_IF_FALSE_POP", "JUMP_IF_TRUE"}
      BY <1>1, <2>1, <2>2, <2>3, <3>1, <3>4 DEF Targets
    <3> QED BY <2>3, <3>2, <3>3, <3>4 DEF Forward
  <2>4. ASSUME NEW t \in Targets(d, q) PROVE t - q + p \in Targets(c, p)
    <3>1. PICK op : op = c[p].op
      OBVIOUS
    <3>2. CASE t = q + 1 + m - r /\ op = "LOOP"
      BY <1>1, <1>3, <2>2, <2>3, <3>1, <3>2
    <3>3. CASE t = q + 1 + m + r /\ op # "LOOP" /\ c[p + 1] # Unpatched
      <4>1. p + 1 + m + r \in Targets(c, p)
        BY <1>3, <2>3, <3>1, <3>3
      <4>2. t - q + p = p + 1 + m + r
        BY <1>1, <2>2, <3>3
      <4> QED BY <4>1, <4>2
    <3>4. CASE t = q + 1 + m /\ op \notin {"LOOP", "JUMP"}
      <4>1. p + 1 + m \in Targets(c, p)
        BY <1>3, <2>3, <3>1, <3>4
      <4>2. t - q + p = p + 1 + m
        BY <1>1, <3>4
      <4> QED BY <4>1, <4>2
    <3> QED BY <1>3, <2>3, <2>4, <3>1, <3>2, <3>3, <3>4
  <2> QED BY <2>4
<1>4. CASE c[p].op \notin Forward \cup {"LOOP"}
  BY <1>1, <1>2, <1>4 DEF Targets, Forward
<1> QED BY <1>3, <1>4

LEMMA CellIn ==
  ASSUME NEW f \in CompilersTyped, NEW p \in 1 .. Count(f)
  PROVE  f.code[p] \in Cells /\ f.code[p].byte \in Int /\ f.code[p].op \in Ops
<1>1. f.code \in Seq(Cells) /\ p \in 1 .. Len(f.code)
  BY DEF CompilersTyped, Codes, Count
<1> QED BY <1>1, ElementOfSeq DEF Cells

LEMMA ShortRead ==
  ASSUME NEW f \in CompilersTyped, NEW p \in Nat, p > 0, Whole(f.code, p), OperandSize(f.code, p) >= 2
  PROVE  ReadShort(f.code, p + 1) \in Int
<1>1. PICK m \in Nat : m = OperandSize(f.code, p) /\ p + m <= Count(f) /\ m >= 2
  BY Sized DEF Whole, Decodes, Count
<1>2. Count(f) \in Nat
  BY Counts
<1>3. p + 1 \in 1 .. Count(f) /\ p + 1 + 1 \in 1 .. Count(f)
  BY <1>1, <1>2
<1>4. PICK x \in Int, y \in Int : x = f.code[p + 1].byte /\ y = f.code[p + 1 + 1].byte
  BY <1>3, CellIn
<1>5. Base \in Nat
  BY Bytes_
<1> QED BY <1>4, <1>5 DEF ReadShort

(* An instruction that stays as it is. *)
LEMMA MapsKept ==
  ASSUME NEW f \in CompilersTyped, NEW h, NEW g, NEW k, NEW p \in DOMAIN h, p \in 1 .. Count(f), Maps(f, h, p),
         g.type = f.type, Len(f.upvalues) \in Nat, Len(g.upvalues) \in Nat, Len(f.upvalues) <= Len(g.upvalues),
         Count(f) <= Count(g), Count(g) \in Nat,
         Copied(f.code, p, g.code, p), g.code[p] = f.code[p],
         \A q \in DOMAIN h : q \in DOMAIN k /\ k[q] = h[q]
  PROVE  Maps(g, k, p)
<1>1. CASE Dead(f, p)
  BY <1>1 DEF Dead, Maps
<1>2. CASE ~Dead(f, p)
  <2>1. /\ Executes(f, p, h[p])
        /\ \A t \in Targets(f.code, p) : t \in DOMAIN h /\ h[t] = h[p] - Takes(f.code, p) + Leaves(f.code, p)
    BY <1>2 DEF Maps
  <2>2. PICK c, d : c = f.code /\ d = g.code
    OBVIOUS
  <2>3. Whole(c, p) /\ p \in Nat
    BY <2>1, <2>2 DEF Executes
  <2>4. p + OperandSize(c, p) <= Len(d) /\ OperandSize(c, p) \in Nat
    <3>1. OperandSize(c, p) \in Nat /\ p + OperandSize(c, p) <= Len(c)
      BY <2>3, Sized DEF Whole, Decodes
    <3>2. Len(c) = Count(f) /\ Len(d) = Count(g) /\ Count(f) \in Nat
      BY <2>2, Counts DEF Count
    <3> QED BY <2>3, <3>1, <3>2
  <2>5. /\ Whole(d, p) /\ OperandSize(d, p) = OperandSize(c, p)
        /\ Takes(d, p) = Takes(c, p) /\ Leaves(d, p) = Leaves(c, p) /\ Captures(d, p) = Captures(c, p)
    <3>1. Copied(c, p, d, p)
      BY <2>2
    <3> QED BY <2>3, <2>4, <3>1, CopiedRuns, CopiedCaptures
  <2>6. d[p] = c[p] /\ (c[p].op \in Bytes => ReadByte(d, p + 1) = ReadByte(c, p + 1))
    <3>1. Copied(c, p, d, p)
      BY <2>2
    <3> QED BY <2>3, <3>1, CopiedReads
  <2>7. \A t \in Targets(d, p) : t \in Targets(c, p)
    <3>1. c[p].op \in Forward \cup {"LOOP"} => ReadShort(c, p + 1) \in Int
      <4>1. HAVE c[p].op \in Forward \cup {"LOOP"}
      <4>2. OperandSize(c, p) >= 2
        BY <2>3, <4>1, Sized DEF Forward, Shorts
      <4> QED BY <2>2, <2>3, <4>2, ShortRead
    <3>2. Copied(c, p, d, p)
      BY <2>2
    <3>3. \A t \in Targets(d, p) : t - p + p \in Targets(c, p)
      BY <2>3, <2>4, <3>1, <3>2, CopiedTargets
    <3>4. \A t \in Targets(d, p) : t \in Int
      <4>1. OperandSize(d, p) \in Nat /\ p \in Int
        BY <2>4, <2>5
      <4>2. d[p].op \in Forward \cup {"LOOP"} => ReadShort(d, p + 1) \in Int
        <5>1. HAVE d[p].op \in Forward \cup {"LOOP"}
        <5>2. ReadShort(d, p + 1) = ReadShort(c, p + 1)
          BY <2>3, <2>6, <3>2, <5>1, CopiedReads DEF Forward, Shorts
        <5> QED BY <2>6, <3>1, <5>1, <5>2
      <4>3. PICK next \in Int : next = p + 1 + OperandSize(d, p)
        BY <4>1
      <4>4. CASE d[p].op \in Forward \cup {"LOOP"}
        <5>1. PICK r \in Int : r = ReadShort(d, p + 1)
          BY <4>2, <4>4
        <5> QED BY <4>3, <4>4, <5>1 DEF Targets, Forward
      <4>5. CASE d[p].op \notin Forward \cup {"LOOP"}
        BY <4>3, <4>5 DEF Targets, Forward
      <4> QED BY <4>4, <4>5
    <3> QED BY <2>3, <3>3, <3>4
  <2>8. k[p] = h[p]
    OBVIOUS
  <2>9. Executes(g, p, k[p])
    <3>1. Captures(d, p) \subseteq 0 .. k[p] /\ k[p] - Takes(d, p) >= 1
      BY <2>1, <2>2, <2>5, <2>8 DEF Executes
    <3>2. d[p].op \in {"GET_LOCAL", "SET_LOCAL"} => ReadByte(d, p + 1) < k[p]
      BY <2>1, <2>2, <2>6, <2>8 DEF Executes, Bytes
    <3>3. d[p].op \in {"GET_UPVALUE", "SET_UPVALUE"} => ReadByte(d, p + 1) < Len(g.upvalues)
      <4>1. HAVE d[p].op \in {"GET_UPVALUE", "SET_UPVALUE"}
      <4>2. ReadByte(d, p + 1) = ReadByte(c, p + 1) /\ ReadByte(c, p + 1) < Len(f.upvalues)
        BY <2>1, <2>2, <2>6, <4>1 DEF Executes, Bytes
      <4>3. ReadByte(c, p + 1) \in Int
        <5>1. p + 1 \in 1 .. Count(f)
          <6>1. OperandSize(c, p) = 1 /\ p + OperandSize(c, p) <= Count(f)
            BY <2>2, <2>3, <2>6, <4>1, Sized DEF Bytes, Whole, Decodes, Count
          <6> QED BY <2>3, <6>1, Counts
        <5> QED BY <2>2, <5>1, CellIn DEF ReadByte
      <4> QED BY <4>2, <4>3
    <3> QED BY <2>2, <2>5, <3>1, <3>2, <3>3 DEF Executes
  <2>10. \A t \in Targets(d, p) : t \in DOMAIN k /\ k[t] = k[p] - Takes(d, p) + Leaves(d, p)
    BY <2>1, <2>2, <2>5, <2>7, <2>8
  <2> QED BY <2>2, <2>9, <2>10 DEF Maps
<1> QED BY <1>1, <1>2

(* Where the cells of a mapped instruction are. *)
LEMMA MapsWithin ==
  ASSUME NEW f \in CompilersTyped, NEW h, Mapped(f, h), NEW p \in DOMAIN h, p <= Count(f)
  PROVE  /\ p \in 1 .. Count(f) /\ Maps(f, h, p) /\ h[p] \in Nat
         /\ OperandSize(f.code, p) \in Nat /\ p + OperandSize(f.code, p) <= Count(f)
<1>1. p \in 1 .. Count(f) /\ Maps(f, h, p) /\ h[p] \in Nat /\ Count(f) \in Nat
  BY Counts DEF Mapped
<1>2. CASE Dead(f, p)
  <2>1. OperandSize(f.code, p) = 0
    BY <1>2 DEF Dead, OperandSize, Shorts, Bytes
  <2> QED BY <1>1, <2>1
<1>3. CASE ~Dead(f, p)
  <2>1. Whole(f.code, p)
    BY <1>1, <1>3 DEF Maps, Executes
  <2>2. OperandSize(f.code, p) \in Nat /\ p + OperandSize(f.code, p) <= Len(f.code)
    BY <2>1, Sized DEF Whole, Decodes
  <2> QED BY <1>1, <2>2 DEF Count
<1> QED BY <1>2, <1>3

(* Code behind the code: what was there stays. *)
LEMMA Behind ==
  ASSUME NEW f \in CompilersTyped, NEW cells \in Codes, NEW g, g = emit(f, cells)
  PROVE  /\ g \in CompilersTyped /\ g.code = f.code \o cells /\ g.type = f.type /\ g.arity = f.arity
         /\ g.upvalues = f.upvalues /\ g.locals = f.locals /\ g.loops = f.loops /\ g.scopeDepth = f.scopeDepth
         /\ Len(cells) \in Nat /\ Count(g) = Count(f) + Len(cells) /\ Len(g.code) = Count(g)
         /\ \A i \in 1 .. Count(f) : g.code[i] = f.code[i]
         /\ \A i \in 1 .. Len(cells) : g.code[Count(f) + i] = cells[i]
<1>2. g = WithCode(f, f.code \o cells) /\ f.code \o cells \in Codes /\ f.code \in Codes
  BY EmitTyped DEF CompilersTyped
<1>3. /\ g \in CompilersTyped /\ g.code = f.code \o cells /\ g.type = f.type /\ g.arity = f.arity
      /\ g.upvalues = f.upvalues /\ g.locals = f.locals /\ g.loops = f.loops /\ g.scopeDepth = f.scopeDepth
  <2>1. PICK c \in Codes : c = f.code \o cells
    BY <1>2
  <2>2. g = WithCode(f, c)
    BY <1>2, <2>1
  <2>3. /\ WithCode(f, c) \in CompilersTyped /\ WithCode(f, c).code = c
        /\ WithCode(f, c).type = f.type /\ WithCode(f, c).arity = f.arity
        /\ WithCode(f, c).scopeDepth = f.scopeDepth /\ WithCode(f, c).loops = f.loops
        /\ WithCode(f, c).upvalues = f.upvalues /\ WithCode(f, c).locals = f.locals
    BY WithCodeTyped
  <2> QED BY <2>1, <2>2, <2>3
<1>4. PICK m, n : m = Len(f.code) /\ n = Len(cells) /\ m \in Nat /\ n \in Nat
  BY <1>2, LenProperties DEF Codes
<1>5. PICK c : c = f.code \o cells
  OBVIOUS
<1>6. Len(c) = m + n /\ \A i \in 1 .. m + n : c[i] = IF i <= m THEN f.code[i] ELSE cells[i - m]
  BY <1>2, <1>4, <1>5, ConcatProperties DEF Codes
<1>7. \A i \in 1 .. m : c[i] = f.code[i]
  BY <1>4, <1>6
<1>8. \A i \in 1 .. n : c[m + i] = cells[i]
  <2>1. TAKE i \in 1 .. n
  <2>2. PICK j : j = m + i
    OBVIOUS
  <2>3. j \in 1 .. m + n /\ ~(j <= m) /\ j - m = i
    BY <1>4, <2>2
  <2>4. c[j] = cells[j - m]
    BY <1>6, <2>3
  <2> QED BY <2>2, <2>3, <2>4
<1> QED BY <1>3, <1>4, <1>5, <1>6, <1>7, <1>8 DEF Count

(* One more instruction, and where it leads to. *)
Onward(g, h, p, n, m) ==
  /\ Executes(g, p, n)
  /\ \A t \in Targets(g.code, p) :
       \/ t = Count(g) + 1 /\ m = n - Takes(g.code, p) + Leaves(g.code, p)
       \/ t \in DOMAIN h /\ h[t] = n - Takes(g.code, p) + Leaves(g.code, p)

LEMMA EmitsMore ==
  ASSUME NEW f \in CompilersTyped, NEW h, NEW n, Ends(f, h, n), NEW cells \in Codes, NEW g, g = emit(f, cells),
         NEW p, p = Count(f) + 1, Len(cells) >= 1 + OperandSize(g.code, p), NEW m \in Nat,
         Dead(g, p) \/ Onward(g, h, p, n, m)
  PROVE  \E k : Ends(g, k, m) /\ Grows(f, h, g, k)
<1>0. PICK k : k = [q \in DOMAIN h \cup {Count(g) + 1} |-> IF q = Count(g) + 1 THEN m ELSE h[q]]
  OBVIOUS
<1>1. /\ g \in CompilersTyped /\ g.type = f.type /\ g.arity = f.arity /\ g.upvalues = f.upvalues
      /\ Len(cells) \in Nat /\ Count(g) = Count(f) + Len(cells)
      /\ \A i \in 1 .. Count(f) : g.code[i] = f.code[i]
  BY Behind
<1>2. PICK c, d : c = Count(f) /\ d = Count(g) /\ c \in Nat /\ d \in Nat /\ d = c + Len(cells)
  BY <1>1, Counts
<1>3. PICK z \in Nat : z = OperandSize(g.code, p) /\ d >= c + 1 + z
  <2>2. OperandSize(g.code, p) \in Nat
    <3>1. CASE Dead(g, p)
      BY <3>1 DEF Dead, OperandSize, Shorts, Bytes
    <3>2. CASE Onward(g, h, p, n, m)
      <4>1. Whole(g.code, p)
        BY <3>2 DEF Onward, Executes
      <4> QED BY <4>1, Sized
    <3> QED BY <3>1, <3>2
  <2>3. d >= c + (1 + OperandSize(g.code, p))
    BY <1>1, <1>2, <2>2
  <2> QED BY <1>2, <2>2, <2>3
<1>4. Mapped(f, h) /\ c + 1 \in DOMAIN h /\ h[c + 1] = n
  BY <1>2 DEF Ends
<1>5. DOMAIN k = DOMAIN h \cup {d + 1} /\ k[d + 1] = m
  BY <1>0, <1>2
<1>6. \A q \in DOMAIN h : q \in DOMAIN k /\ k[q] = h[q] /\ q \in 1 .. c + 1
  <2>1. TAKE q \in DOMAIN h
  <2>2. q \in 1 .. c + 1
    BY <1>2, <1>4 DEF Mapped
  <2>3. q # d + 1
    BY <1>2, <1>3, <2>2
  <2> QED BY <1>0, <1>2, <2>2, <2>3
<1>7. ASSUME NEW q \in DOMAIN h, q <= c
      PROVE  Maps(g, k, q) /\ OperandSize(g.code, q) = OperandSize(f.code, q) /\ q + OperandSize(g.code, q) <= c
             /\ OperandSize(g.code, q) \in Nat
  <2>1. /\ q \in 1 .. Count(f) /\ Maps(f, h, q)
        /\ OperandSize(f.code, q) \in Nat /\ q + OperandSize(f.code, q) <= Count(f)
    BY <1>2, <1>4, <1>7, MapsWithin
  <2>2. Copied(f.code, q, g.code, q)
    <3>1. \A i \in 0 .. OperandSize(f.code, q) : q + i \in 1 .. Count(f)
      BY <1>2, <2>1
    <3> QED BY <1>1, <3>1 DEF Copied
  <2>3. g.code[q] = f.code[q]
    BY <1>1, <2>1
  <2>4. Len(f.upvalues) \in Nat
    BY LenProperties DEF CompilersTyped
  <2>5. Count(f) <= Count(g) /\ Count(g) \in Nat
    BY <1>1, <1>2
  <2>6. Maps(g, k, q)
    BY <1>1, <1>6, <2>1, <2>2, <2>3, <2>4, <2>5, MapsKept
  <2>7. OperandSize(g.code, q) = OperandSize(f.code, q)
    <3>1. CASE Dead(f, q)
      BY <2>3, <3>1 DEF Dead, OperandSize, Shorts, Bytes
    <3>2. CASE ~Dead(f, q)
      <4>1. Whole(f.code, q) /\ q \in Nat
        BY <2>1, <3>2 DEF Maps, Executes
      <4>2. q + OperandSize(f.code, q) <= Len(g.code)
        BY <1>2, <2>1, <1>3, <2>5 DEF Count
      <4> QED BY <2>2, <4>1, <4>2, CopiedRuns
    <3> QED BY <3>1, <3>2
  <2> QED BY <1>2, <2>1, <2>6, <2>7
<1>8. Maps(g, k, p)
  <2>1. p \in DOMAIN k /\ k[p] = n
    BY <1>2, <1>4, <1>6
  <2>2. CASE Dead(g, p)
    BY <2>2 DEF Maps
  <2>3. CASE Onward(g, h, p, n, m)
    <3>1. \A t \in Targets(g.code, p) : t \in DOMAIN k /\ k[t] = n - Takes(g.code, p) + Leaves(g.code, p)
      BY <1>2, <1>5, <1>6, <2>3 DEF Onward
    <3> QED BY <2>1, <2>3, <3>1 DEF Maps, Onward
  <2> QED BY <2>2, <2>3
<1>9. \A q \in DOMAIN k : q <= d => Maps(g, k, q)
  <2>1. TAKE q \in DOMAIN k
  <2>2. HAVE q <= d
  <2>3. q \in DOMAIN h
    BY <1>2, <1>5, <2>2
  <2>4. q <= c \/ q = p
    BY <1>2, <1>6, <2>3
  <2> QED BY <1>7, <1>8, <2>3, <2>4
<1>10. ASSUME NEW q \in DOMAIN k, NEW r \in DOMAIN k, q < r PROVE q + OperandSize(g.code, q) < r
  <2>1. r = d + 1 \/ (r \in DOMAIN h /\ r \in 1 .. c + 1)
    BY <1>5, <1>6
  <2>2. q \in DOMAIN h /\ q \in 1 .. c + 1
    <3>1. q \in DOMAIN h \/ q = d + 1
      BY <1>5
    <3>2. q # d + 1
      <4>1. SUFFICES ASSUME q = d + 1 PROVE FALSE
        OBVIOUS
      <4>2. d + 1 < r
        BY <1>10, <4>1
      <4>3. CASE r = d + 1
        BY <1>2, <4>2, <4>3
      <4>4. CASE r \in 1 .. c + 1
        BY <1>2, <1>3, <4>2, <4>4
      <4> QED BY <2>1, <4>3, <4>4
    <3> QED BY <1>6, <3>1, <3>2
  <2>3. CASE q = c + 1
    <3>1. q = p /\ OperandSize(g.code, q) = z
      BY <1>2, <1>3, <2>3
    <3>2. r = d + 1
      BY <1>2, <1>10, <2>1, <2>3
    <3> QED BY <1>2, <1>3, <2>3, <3>1, <3>2
  <2>4. CASE q # c + 1 /\ r = d + 1
    <3>1. q <= c
      BY <1>2, <2>2, <2>4
    <3>2. PICK y \in Nat : y = OperandSize(g.code, q) /\ q + y <= c
      BY <1>7, <2>2, <3>1
    <3>3. q + y < d + 1
      <4>1. q \in Int
        BY <2>2
      <4>2. PICK e \in Int : e = q + y /\ e <= c
        BY <3>2, <4>1
      <4>3. e < d + 1
        BY <1>2, <1>3, <4>2
      <4> QED BY <4>2, <4>3
    <3> QED BY <2>4, <3>2, <3>3
  <2>5. CASE q # c + 1 /\ r # d + 1
    <3>1. q <= c /\ r \in DOMAIN h
      BY <1>2, <2>1, <2>2, <2>5
    <3>2. q + OperandSize(f.code, q) < r
      BY <1>4, <1>10, <2>2, <3>1 DEF Mapped
    <3>3. OperandSize(g.code, q) = OperandSize(f.code, q)
      BY <1>7, <2>2, <3>1
    <3> QED BY <3>2, <3>3
  <2> QED BY <2>3, <2>4, <2>5
<1>11. DOMAIN k \subseteq 1 .. d + 1 /\ \A q \in DOMAIN k : k[q] \in Nat
  <2>1. \A q \in DOMAIN h : h[q] \in Nat
    BY <1>4 DEF Mapped
  <2>2. d + 1 \in 1 .. d + 1 /\ \A q \in 1 .. c + 1 : q \in 1 .. d + 1
    <3>1. d \in Nat /\ c \in Nat /\ c + 1 <= d + 1
      BY <1>2, <1>3
    <3> QED BY <3>1
  <2> QED BY <1>5, <1>6, <2>1, <2>2
<1>12. 1 \in DOMAIN k /\ k[1] = g.arity + 1
  BY <1>1, <1>4, <1>6 DEF Mapped
<1>13. Mapped(g, k)
  BY <1>2, <1>9, <1>10, <1>11, <1>12 DEF Mapped
<1>14. Grows(f, h, g, k)
  <2>1. \A q \in DOMAIN h : q <= c => g.code[q].op = f.code[q].op
    BY <1>1, <1>2, <1>6
  <2> QED BY <1>2, <1>3, <1>6, <2>1 DEF Grows
<1> QED BY <1>2, <1>5, <1>13, <1>14 DEF Ends

LEMMA EmitsWhole ==
  ASSUME NEW f \in CompilersTyped, NEW h, NEW n, Ends(f, h, n), NEW cells \in Codes, NEW g, g = emit(f, cells),
         NEW p, p = Count(f) + 1, Executes(g, p, n), Len(cells) = 1 + OperandSize(g.code, p),
         NEW m \in Nat,
         \A t \in Targets(g.code, p) :
           \/ t = Count(g) + 1 /\ m = n - Takes(g.code, p) + Leaves(g.code, p)
           \/ t \in DOMAIN h /\ h[t] = n - Takes(g.code, p) + Leaves(g.code, p)
  PROVE  \E k : Ends(g, k, m) /\ Grows(f, h, g, k)
<1>1. Onward(g, h, p, n, m)
  BY DEF Onward
<1>2. OperandSize(g.code, p) \in Nat
  BY Sized DEF Executes
<1>3. Len(cells) >= 1 + OperandSize(g.code, p)
  BY <1>2
<1> QED BY <1>1, <1>3, EmitsMore

LEMMA TakesTyped ==
  ASSUME NEW c \in Codes, NEW p \in 1 .. Len(c), Whole(c, p)
  PROVE  Takes(c, p) \in Int /\ Leaves(c, p) \in {0, 1}
<1>1. PICK m \in Nat : m = OperandSize(c, p) /\ p + m <= Len(c)
  BY Sized DEF Whole, Decodes
<1>2. \A i \in 1 .. Len(c) : c[i].byte \in Int
  <2>1. TAKE i \in 1 .. Len(c)
  <2>2. c[i] \in Cells
    BY ElementOfSeq DEF Codes
  <2> QED BY <2>2 DEF Cells
<1>3. Len(c) \in Nat
  BY LenProperties DEF Codes
<1>4. c[p].op \in {"POP_N", "NEW_ARRAY", "CALL"} => c[p + 1].byte \in Int
  <2>1. HAVE c[p].op \in {"POP_N", "NEW_ARRAY", "CALL"}
  <2>2. m = 1
    BY <1>1, <2>1, Sized DEF Bytes
  <2>3. p + 1 \in 1 .. Len(c)
    BY <1>1, <1>3, <2>2
  <2> QED BY <1>2, <2>3
<1>5. c[p].op = "INVOKE" => c[p + 3].byte \in Int
  <2>1. HAVE c[p].op = "INVOKE"
  <2>2. m = 3
    BY <1>1, <2>1, Sized
  <2>3. p + 3 \in 1 .. Len(c)
    BY <1>1, <1>3, <2>2
  <2> QED BY <1>2, <2>3
<1> QED BY <1>4, <1>5 DEF Takes, Leaves, ReadByte

LEMMA EmitsSimple ==
  ASSUME NEW f \in CompilersTyped, NEW h, NEW t \in Frames, Ends(f, h, Height(t)), Values(t) > 0,
         NEW i, i.code \in Codes, Simple(i, t),
         i.code[1].op \in {"GET_UPVALUE", "SET_UPVALUE"} => ReadByte(i.code, 2) < Len(f.upvalues)
  PROVE  LET g == emit(f, i.code)
             temps == t.temps - Takes(i.code, 1) + Leaves(i.code, 1)
         IN  temps \in Nat /\ \E k : Ends(g, k, Values(t) + temps) /\ Grows(f, h, g, k)
<1>1. PICK c, g, p : c = i.code /\ g = emit(f, c) /\ p = Count(f) + 1
  OBVIOUS
<1>2. /\ g \in CompilersTyped /\ g.upvalues = f.upvalues
      /\ Len(c) \in Nat /\ Count(g) = Count(f) + Len(c) /\ Len(g.code) = Count(g)
      /\ \A j \in 1 .. Len(c) : g.code[Count(f) + j] = c[j]
  BY <1>1, Behind
<1>3. /\ Whole(c, 1) /\ Len(c) = 1 + OperandSize(c, 1) /\ c[1].op \notin Forward \cup {"LOOP", "CLOSURE"}
      /\ OperandSize(c, 1) \in Nat
  BY <1>1, Sized DEF Simple, Whole
<1>4. PICK z \in Nat : z = OperandSize(c, 1) /\ Len(c) = 1 + z
  BY <1>3
<1>5. Count(f) \in Nat /\ p \in Nat /\ Count(g) \in Nat /\ Count(g) = p + z
  BY <1>1, <1>2, <1>4, Counts
<1>6. Copied(c, 1, g.code, p)
  <2>1. ASSUME NEW j \in 0 .. z PROVE g.code[p + j] = c[1 + j]
    <3>1. 1 + j \in 1 .. Len(c) /\ Count(f) + (1 + j) = p + j
      <4>1. PICK x \in Nat : x = Count(f) /\ p = x + 1
        BY <1>1, <1>5
      <4>2. x + (1 + j) = x + 1 + j /\ 1 + j \in 1 .. 1 + z
        BY <1>4
      <4> QED BY <1>4, <4>1, <4>2
    <3>2. g.code[Count(f) + (1 + j)] = c[1 + j]
      BY <1>2, <3>1
    <3> QED BY <3>1, <3>2
  <2> QED BY <1>4, <2>1 DEF Copied
<1>7. /\ Whole(g.code, p) /\ OperandSize(g.code, p) = z
      /\ Takes(g.code, p) = Takes(c, 1) /\ Leaves(g.code, p) = Leaves(c, 1) /\ g.code[p] = c[1]
      /\ c[1].op \in Bytes => ReadByte(g.code, p + 1) = ReadByte(c, 1 + 1)
  <2>1. p + OperandSize(c, 1) <= Len(g.code)
    BY <1>2, <1>4, <1>5
  <2>2. 1 \in Nat /\ p \in Nat /\ Whole(c, 1)
    BY <1>3, <1>5
  <2>3. /\ Whole(g.code, p) /\ OperandSize(g.code, p) = OperandSize(c, 1)
        /\ Takes(g.code, p) = Takes(c, 1) /\ Leaves(g.code, p) = Leaves(c, 1)
    BY <1>6, <2>1, <2>2, CopiedRuns
  <2>4. g.code[p] = c[1] /\ (c[1].op \in Bytes => ReadByte(g.code, p + 1) = ReadByte(c, 1 + 1))
    BY <1>6, <2>2, CopiedReads
  <2> QED BY <1>4, <2>3, <2>4
<1>8. PICK taken \in Int, left \in {0, 1} : taken = Takes(c, 1) /\ left = Leaves(c, 1) /\ taken <= t.temps
  <2>1. 1 \in 1 .. Len(c)
    BY <1>4
  <2>2. c \in Codes
    BY <1>1
  <2> QED BY <1>1, <1>3, <2>1, <2>2, TakesTyped DEF Simple
<1>9. Values(t) \in Nat /\ t.temps \in Nat /\ Height(t) = Values(t) + t.temps
  BY DEF Values, Frames, Height
<1>10. PICK n \in Nat : n = Height(t) /\ n = Values(t) + t.temps
  BY <1>9
<1>11. PICK temps \in Nat : temps = t.temps - taken + left
  BY <1>8, <1>9
<1>12. PICK m \in Nat : m = Values(t) + temps /\ m = n - taken + left
  <2>1. PICK x \in Nat, y \in Nat : x = Values(t) /\ y = t.temps
    BY <1>9
  <2>2. n = x + y /\ temps = y - taken + left
    BY <1>10, <1>11, <2>1
  <2>3. x + temps \in Nat /\ x + temps = n - taken + left
    BY <2>2
  <2> QED BY <2>1, <2>3
<1>14. Executes(g, p, n)
  <2>1. n - Takes(g.code, p) >= 1
    BY <1>7, <1>8, <1>9, <1>10
  <2>2. Captures(g.code, p) \subseteq 0 .. n
    BY <1>3, <1>7 DEF Captures
  <2>3. c[1].op \in {"GET_LOCAL", "SET_LOCAL", "GET_UPVALUE", "SET_UPVALUE"} => ReadByte(g.code, p + 1) = ReadByte(c, 2)
    BY <1>7 DEF Bytes
  <2>4. c[1].op \in {"GET_LOCAL", "SET_LOCAL"} => ReadByte(g.code, p + 1) < n
    <3>1. HAVE c[1].op \in {"GET_LOCAL", "SET_LOCAL"}
    <3>2. ReadByte(c, 2) < Values(t)
      BY <1>1, <3>1 DEF Simple
    <3>3. ReadByte(c, 2) \in Int
      <4>1. z = 1 /\ 2 \in 1 .. Len(c)
        BY <1>3, <1>4, <3>1, Sized DEF Bytes
      <4>2. c[2] \in Cells
        BY <1>1, <4>1, ElementOfSeq DEF Codes
      <4> QED BY <4>2 DEF ReadByte, Cells
    <3> QED BY <1>9, <1>10, <2>3, <3>1, <3>2, <3>3
  <2>5. c[1].op \in {"GET_UPVALUE", "SET_UPVALUE"} => ReadByte(g.code, p + 1) < Len(g.upvalues)
    BY <1>1, <1>2, <2>3
  <2> QED BY <1>7, <2>1, <2>2, <2>4, <2>5 DEF Executes
<1>15. \A q \in Targets(g.code, p) :
         \/ q = Count(g) + 1 /\ m = n - Takes(g.code, p) + Leaves(g.code, p)
         \/ q \in DOMAIN h /\ h[q] = n - Takes(g.code, p) + Leaves(g.code, p)
  <2>1. g.code[p].op \notin Forward \cup {"LOOP"}
    BY <1>3, <1>7
  <2>2. Targets(g.code, p) \subseteq {p + 1 + OperandSize(g.code, p)}
    BY <2>1 DEF Targets, Forward
  <2>3. p + 1 + OperandSize(g.code, p) = Count(g) + 1
    BY <1>5, <1>7
  <2> QED BY <1>7, <1>8, <1>12, <2>2, <2>3
<1>16. \E k : Ends(g, k, m) /\ Grows(f, h, g, k)
  <2>1. Ends(f, h, n) /\ Len(c) = 1 + OperandSize(g.code, p) /\ c \in Codes /\ g = emit(f, c) /\ p = Count(f) + 1
    BY <1>1, <1>4, <1>7, <1>10
  <2> QED BY <1>14, <1>15, <2>1, EmitsWhole
<1> QED BY <1>1, <1>8, <1>11, <1>12, <1>16

LEMMA EmitsJump ==
  ASSUME NEW f \in CompilersTyped, NEW h, NEW n \in Nat, Ends(f, h, n), NEW name \in Forward,
         NEW m \in Nat, name = "JUMP" => n >= 1, name # "JUMP" => n >= 2,
         name = "JUMP_IF_FALSE_POP" => m = n - 1, name \in {"JUMP_IF_FALSE", "JUMP_IF_TRUE"} => m = n
  PROVE  LET g == emitJump(f, name)
         IN  \E k : /\ Ends(g, k, m) /\ Grows(f, h, g, k) /\ Count(g) = Count(f) + 3
                    /\ Jumps(g, k, JumpOperand(f), IF name = "JUMP_IF_FALSE_POP" THEN n - 1 ELSE n)
<1>1. PICK c, g, p : c = <<Op(name), Unpatched, Unpatched>> /\ g = emitJump(f, name) /\ p = Count(f) + 1
  OBVIOUS
<1>2. c \in Codes /\ Len(c) = 3 /\ c[1].op = name /\ c[2] = Unpatched /\ c[3] = Unpatched /\ g = emit(f, c)
  <2>1. name \in Ops
    BY DEF Forward, Ops
  <2>2. c \in Codes
    BY <1>1, <2>1, OpCode
  <2> QED BY <1>1, <2>2 DEF Op, emitJump
<1>3. /\ g \in CompilersTyped /\ g.upvalues = f.upvalues
      /\ Count(g) = Count(f) + Len(c) /\ Len(g.code) = Count(g)
      /\ \A j \in 1 .. Len(c) : g.code[Count(f) + j] = c[j]
  <2>1. c \in Codes /\ g = emit(f, c)
    BY <1>2
  <2> QED BY <2>1, Behind
<1>4. Count(f) \in Nat /\ p \in Nat /\ Count(g) = p + 2
  BY <1>1, <1>2, <1>3, Counts
<1>5. g.code[p].op = name /\ g.code[p + 1] = Unpatched /\ g.code[p + 2] = Unpatched
  <2>1. g.code[Count(f) + 1] = c[1] /\ g.code[Count(f) + 2] = c[2] /\ g.code[Count(f) + 3] = c[3]
    BY <1>2, <1>3
  <2>2. Count(f) + 2 = p + 1 /\ Count(f) + 3 = p + 2
    BY <1>1, <1>4
  <2> QED BY <1>1, <1>2, <2>1, <2>2
<1>6. OperandSize(g.code, p) = 2
  BY <1>5 DEF OperandSize, Forward, Shorts
<1>7. Whole(g.code, p)
  <2>1. \A q \in p + 1 .. p + 2 : g.code[q].op = "operand"
    <3>1. \A q \in p + 1 .. p + 2 : q = p + 1 \/ q = p + 2
      BY <1>4
    <3> QED BY <1>5, <3>1 DEF Unpatched, Byte
  <2> QED BY <1>3, <1>4, <1>5, <1>6, <2>1 DEF Whole, Decodes, Forward
<1>8. /\ Takes(g.code, p) = IF name = "JUMP" THEN 0 ELSE 1
      /\ Leaves(g.code, p) = IF name \in {"JUMP", "JUMP_IF_FALSE_POP"} THEN 0 ELSE 1
      /\ Targets(g.code, p) = IF name = "JUMP" THEN {} ELSE {Count(g) + 1}
  <2>1. p + 1 + OperandSize(g.code, p) = Count(g) + 1
    BY <1>4, <1>6
  <2>2. CASE name = "JUMP"
    BY <1>5, <2>1, <2>2 DEF Takes, Leaves, Targets
  <2>3. CASE name # "JUMP"
    BY <1>5, <2>1, <2>3 DEF Takes, Leaves, Targets, Forward
  <2> QED BY <2>2, <2>3
<1>10. Executes(g, p, n)
  <2>1. n - Takes(g.code, p) >= 1
    BY <1>8
  <2> QED BY <1>5, <1>7, <2>1 DEF Executes, Captures, Forward
<1>11. \A q \in Targets(g.code, p) :
         \/ q = Count(g) + 1 /\ m = n - Takes(g.code, p) + Leaves(g.code, p)
         \/ q \in DOMAIN h /\ h[q] = n - Takes(g.code, p) + Leaves(g.code, p)
  <2>1. name # "JUMP" => m = n - Takes(g.code, p) + Leaves(g.code, p)
    BY <1>8 DEF Forward
  <2> QED BY <1>8, <2>1
<1>12. PICK k : Ends(g, k, m) /\ Grows(f, h, g, k)
  <2>1. Len(c) = 1 + OperandSize(g.code, p) /\ p = Count(f) + 1
    BY <1>1, <1>2, <1>6
  <2> QED BY <1>2, <1>10, <1>11, <2>1, EmitsWhole
<1>13. Jumps(g, k, JumpOperand(f), IF name = "JUMP_IF_FALSE_POP" THEN n - 1 ELSE n)
  <2>1. JumpOperand(f) = p
    BY <1>1 DEF JumpOperand
  <2>2. p \in DOMAIN h /\ h[p] = n
    BY <1>1 DEF Ends
  <2>3. p \in DOMAIN k /\ k[p] = n
    BY <1>12, <2>2 DEF Grows
  <2>4. p <= Count(g)
    BY <1>4
  <2> QED BY <1>5, <2>1, <2>3, <2>4 DEF Jumps
<1> QED BY <1>1, <1>2, <1>3, <1>12, <1>13

(* The operand of an instruction reads as what was written. *)
LEMMA ShortReads ==
  ASSUME NEW d \in Nat, ~TooFar(d), NEW c, NEW p \in Int, c[p] = Short(d)[1], c[p + 1] = Short(d)[2]
  PROVE  /\ ReadShort(c, p) = d /\ c[p] # Unpatched
         /\ c[p].op = "operand" /\ c[p + 1].op = "operand"
<1>1. PICK b \in Nat : b = Base /\ b >= 2
  BY Bytes_
<1>2. PICK q \in Int, r \in Int : q = d \div b /\ r = d % b
  BY <1>1
<1>3. d = b * q + r /\ 0 <= r /\ r < b
  BY <1>1, <1>2
<1>4. PICK x, y : x = Byte(r) /\ y = Byte(q)
  OBVIOUS
<1>5. c[p] = x /\ c[p + 1] = y
  BY <1>1, <1>2, <1>4 DEF Short
<1>6. x.op = "operand" /\ y.op = "operand" /\ x.byte = r /\ y.byte = q
  BY <1>4 DEF Byte
<1>7. ReadShort(c, p) = r + b * q
  BY <1>1, <1>5, <1>6 DEF ReadShort
<1>8. x # Unpatched
  <2>1. Unpatched.byte = b
    BY <1>1 DEF Unpatched, Byte
  <2> QED BY <1>3, <1>6, <2>1
<1>9. r + b * q = d
  BY <1>3
<1> QED BY <1>5, <1>6, <1>7, <1>8, <1>9

WithShort(name, d) == <<Op(name)>> \o Short(d)

LEMMA ShortBehind ==
  ASSUME NEW name \in Ops, NEW d \in Int, ~TooFar(d), NEW c, c = WithShort(name, d)
  PROVE  c \in Codes /\ Len(c) = 3 /\ c[1].op = name /\ c[2] = Short(d)[1] /\ c[3] = Short(d)[2]
<1>1. PICK o, s : o = Op(name) /\ s = Short(d)
  OBVIOUS
<1>2. o \in Cells /\ o.op = name /\ <<o>> \in Seq(Cells) /\ Len(<<o>>) = 1 /\ <<o>>[1] = o
  BY <1>1, OpCell
<1>3. s \in Seq(Cells) /\ Len(s) = 2
  BY <1>1, ShortCode DEF Codes
<1>4. c \in Seq(Cells) /\ Len(c) = 3 /\ \A i \in 1 .. 3 : c[i] = IF i <= 1 THEN <<o>>[i] ELSE s[i - 1]
  BY <1>1, <1>2, <1>3, ConcatProperties DEF WithShort
<1>5. ASSUME NEW i \in {2, 3}, NEW j, j = i - 1 PROVE c[i] = s[j]
  BY <1>4, <1>5
<1>6. c[1] = o /\ c[2] = s[1] /\ c[3] = s[2]
  <2>1. c[1] = <<o>>[1]
    BY <1>4
  <2>2. 1 = 2 - 1 /\ 2 = 3 - 1
    OBVIOUS
  <2> QED BY <1>2, <1>5, <2>1, <2>2
<1> QED BY <1>1, <1>2, <1>4, <1>6 DEF Codes

(* Back to the start of a loop; behind it, any height. *)
LEMMA EmitsLoop ==
  ASSUME NEW f \in CompilersTyped, NEW h, NEW n \in Nat, Ends(f, h, n), n >= 1, NEW start \in Int, Starts(h, start, n),
         ~TooFar(LoopDistance(f, start)), NEW m \in Nat, NEW g, g = emitLoop(f, start)
  PROVE  /\ \E k : Ends(g, k, m) /\ Grows(f, h, g, k)
         /\ \E c \in Codes : g = WithCode(f, c)
<1>1. PICK d, c, p : d = LoopDistance(f, start) /\ c = <<Op("LOOP")>> \o Short(d) /\ p = Count(f) + 1
  OBVIOUS
<1>2. PICK z \in Nat : z = Count(f)
  BY Counts
<1>3. d \in Nat /\ d = z + 1 - start + 2 /\ ~TooFar(d)
  <2>1. start + 1 \in 1 .. Count(f) + 1
    BY DEF Starts, Ends, Mapped
  <2>2. d = z + 1 - start + 2
    BY <1>1, <1>2 DEF LoopDistance
  <2> QED BY <1>1, <1>2, <2>1, <2>2
<1>4. "LOOP" \in Ops
  BY DEF Ops
<1>5. c \in Codes /\ Len(c) = 3 /\ c[1].op = "LOOP" /\ c[2] = Short(d)[1] /\ c[3] = Short(d)[2]
  <2>1. d \in Int /\ ~TooFar(d)
    BY <1>1, <1>3
  <2>2. c = WithShort("LOOP", d)
    BY <1>1 DEF WithShort
  <2> QED BY <1>4, <2>1, <2>2, ShortBehind
<1>6. g = emit(f, c)
  BY <1>1 DEF emitLoop
<1>7. /\ g \in CompilersTyped /\ g.upvalues = f.upvalues
      /\ Count(g) = z + 3 /\ Len(g.code) = z + 3
      /\ \A j \in 1 .. 3 : g.code[z + j] = c[j]
  <2>1. /\ g \in CompilersTyped /\ g.upvalues = f.upvalues
        /\ Count(g) = Count(f) + Len(c) /\ Len(g.code) = Count(g)
        /\ \A j \in 1 .. Len(c) : g.code[Count(f) + j] = c[j]
    <3>1. c \in Codes
      BY <1>5
    <3> QED BY <1>6, <3>1, Behind
  <2> QED BY <1>2, <1>5, <2>1
<1>8. p \in Nat /\ p = z + 1
  BY <1>1, <1>2
<1>9. g.code[p].op = "LOOP" /\ g.code[p + 1] = Short(d)[1] /\ g.code[p + 1 + 1] = Short(d)[2]
  <2>1. g.code[z + 1] = c[1] /\ g.code[z + 2] = c[2] /\ g.code[z + 3] = c[3]
    BY <1>7
  <2>2. z + 2 = p + 1 /\ z + 3 = p + 1 + 1
    BY <1>8
  <2> QED BY <1>5, <1>8, <2>1, <2>2
<1>10. /\ ReadShort(g.code, p + 1) = d
       /\ g.code[p + 1].op = "operand" /\ g.code[p + 1 + 1].op = "operand"
  <2>1. p + 1 \in Int
    BY <1>8
  <2> QED BY <1>3, <1>9, <2>1, ShortReads
<1>11. OperandSize(g.code, p) = 2
  BY <1>9 DEF OperandSize, Shorts
<1>12. Whole(g.code, p)
  <2>1. \A q \in p + 1 .. p + 2 : g.code[q].op = "operand"
    <3>1. \A q \in p + 1 .. p + 2 : q = p + 1 \/ q = p + 1 + 1
      BY <1>8
    <3> QED BY <1>10, <3>1
  <2> QED BY <1>7, <1>8, <1>9, <1>11, <2>1 DEF Whole, Decodes
<1>13. Takes(g.code, p) = 0 /\ Leaves(g.code, p) = 0 /\ Targets(g.code, p) = {start + 1}
  <2>1. PICK x, y, next : x = ReadShort(g.code, p + 1) /\ next = p + 1 + OperandSize(g.code, p) /\ y = next - x
    OBVIOUS
  <2>2. Targets(g.code, p) = {y}
    BY <1>9, <2>1 DEF Targets
  <2>3. y = start + 1
    <3>1. next = z + 4 /\ x = z + 1 - start + 2
      BY <1>3, <1>8, <1>10, <1>11, <2>1
    <3> QED BY <2>1, <3>1
  <2> QED BY <1>9, <2>2, <2>3 DEF Takes, Leaves
<1>14. Executes(g, p, n)
  BY <1>9, <1>12, <1>13 DEF Executes, Captures
<1>15. \A q \in Targets(g.code, p) :
         \/ q = Count(g) + 1 /\ m = n - Takes(g.code, p) + Leaves(g.code, p)
         \/ q \in DOMAIN h /\ h[q] = n - Takes(g.code, p) + Leaves(g.code, p)
  BY <1>13 DEF Starts
<1>16. \E k : Ends(g, k, m) /\ Grows(f, h, g, k)
  <2>1. Len(c) = 1 + OperandSize(g.code, p) /\ p = Count(f) + 1
    BY <1>1, <1>5, <1>11
  <2> QED BY <1>5, <1>6, <1>14, <1>15, <2>1, EmitsWhole
<1>17. \E x \in Codes : g = WithCode(f, x)
  BY <1>5, <1>6, EmitTyped
<1> QED BY <1>16, <1>17

(* The cells of a patched jump. *)
LEMMA PatchCells ==
  ASSUME NEW f \in CompilersTyped, NEW at \in Nat, at > 0, at + 2 <= Count(f), NEW d, d = Short(Distance(f, at)),
         ~TooFar(Distance(f, at)), NEW g, g = patchJump(f, at)
  PROVE  /\ \E c \in Codes : g = WithCode(f, c) /\ Len(c) = Len(f.code)
         /\ Len(g.code) = Len(f.code) /\ g.code[at + 1] = d[1] /\ g.code[at + 2] = d[2]
         /\ \A q \in 1 .. Count(f) : q # at + 1 /\ q # at + 2 => g.code[q] = f.code[q]
         /\ g.type = f.type /\ g.arity = f.arity /\ g.upvalues = f.upvalues
<1>1. PICK c \in Codes : g = WithCode(f, c) /\ Len(c) = Len(f.code)
  <2>1. at \in Int
    OBVIOUS
  <2> QED BY <2>1, PatchTyped
<1>2. g.code = c /\ g.type = f.type /\ g.arity = f.arity /\ g.upvalues = f.upvalues
  BY <1>1, WithCodeTyped
<1>3. PICK a, b, x, y : a = at + 1 /\ b = at + 2 /\ x = d[1] /\ y = d[2]
  OBVIOUS
<1>4. c = [[f.code EXCEPT ![a] = x] EXCEPT ![b] = y]
  <2>1. g.code = [f.code EXCEPT ![a] = x, ![b] = y]
    BY <1>3 DEF patchJump, CompilersTyped
  <2> QED BY <1>2, <2>1
<1>5. a # b /\ a \in DOMAIN f.code /\ b \in DOMAIN f.code
  <2>1. Count(f) \in Nat
    BY Counts
  <2>2. DOMAIN f.code = 1 .. Count(f)
    BY LenProperties DEF CompilersTyped, Codes, Count
  <2> QED BY <1>3, <2>1, <2>2
<1>6. c[a] = x /\ c[b] = y /\ \A q \in DOMAIN f.code : q # a /\ q # b => c[q] = f.code[q]
  BY <1>4, <1>5
<1>7. DOMAIN f.code = 1 .. Count(f)
  BY LenProperties DEF CompilersTyped, Codes, Count
<1> QED BY <1>1, <1>2, <1>3, <1>6, <1>7

(* A jump now ends here: what jumped there had this height. *)
LEMMA Patches ==
  ASSUME NEW f \in CompilersTyped, NEW h, NEW n \in Nat, Ends(f, h, n), NEW at, Jumps(f, h, at, n),
         ~TooFar(Distance(f, at)), NEW g, g = patchJump(f, at)
  PROVE  /\ Ends(g, h, n) /\ Grows(f, h, g, h)
         /\ \E c \in Codes : g = WithCode(f, c) /\ Len(c) = Len(f.code)
<1>1. PICK z \in Nat : z = Count(f) /\ z = Len(f.code)
  BY Counts DEF Count
<1>2. at \in DOMAIN h /\ at <= z /\ f.code[at].op \in Forward /\ Mapped(f, h) /\ h[z + 1] = n /\ z + 1 \in DOMAIN h
  BY <1>1 DEF Jumps, Ends
<1>3. at \in 1 .. z /\ Maps(f, h, at) /\ h[at] \in Nat
  <2>1. at <= Count(f)
    BY <1>1, <1>2
  <2> QED BY <1>1, <1>2, <2>1, MapsWithin
<1>4. /\ Executes(f, at, h[at]) /\ Whole(f.code, at) /\ OperandSize(f.code, at) = 2 /\ at + 2 <= z
      /\ \A t \in Targets(f.code, at) : t \in DOMAIN h /\ h[t] = h[at] - Takes(f.code, at) + Leaves(f.code, at)
  <2>1. ~Dead(f, at)
    BY <1>2 DEF Dead, Forward
  <2>2. OperandSize(f.code, at) = 2
    BY <1>2 DEF OperandSize, Forward, Shorts
  <2>3. /\ Executes(f, at, h[at])
        /\ \A t \in Targets(f.code, at) : t \in DOMAIN h /\ h[t] = h[at] - Takes(f.code, at) + Leaves(f.code, at)
    BY <1>3, <2>1 DEF Maps
  <2>4. at + OperandSize(f.code, at) <= z
    BY <1>1, <2>3 DEF Executes, Whole, Decodes
  <2> QED BY <2>2, <2>3, <2>4 DEF Executes
<1>5. PICK d \in Nat : d = Distance(f, at) /\ d = z - at - 2
  <2>1. z - at - 2 \in Nat
    BY <1>3, <1>4
  <2> QED BY <1>1, <2>1 DEF Distance
<1>6. PICK s : s = Short(d)
  OBVIOUS
<1>7. /\ \E c \in Codes : g = WithCode(f, c) /\ Len(c) = Len(f.code)
      /\ Len(g.code) = Len(f.code) /\ g.code[at + 1] = s[1] /\ g.code[at + 2] = s[2]
      /\ \A q \in 1 .. Count(f) : q # at + 1 /\ q # at + 2 => g.code[q] = f.code[q]
      /\ g.type = f.type /\ g.arity = f.arity /\ g.upvalues = f.upvalues
  <2>1. at \in Nat /\ at > 0 /\ at + 2 <= Count(f) /\ s = Short(Distance(f, at))
    BY <1>1, <1>3, <1>4, <1>5, <1>6
  <2> QED BY <2>1, PatchCells
<1>8. Count(g) = z /\ g \in CompilersTyped
  <2>1. PICK c \in Codes : g = WithCode(f, c)
    BY <1>7
  <2>2. g \in CompilersTyped
    BY <2>1, WithCodeTyped
  <2> QED BY <1>1, <1>7, <2>2 DEF Count
<1>9. \A q \in 1 .. z : q # at + 1 /\ q # at + 2 => g.code[q] = f.code[q]
  BY <1>1, <1>7
<1>10. g.code[at] = f.code[at]
  <2>1. at # at + 1 /\ at # at + 2
    BY <1>3
  <2> QED BY <1>3, <1>9, <2>1
<1>11. ASSUME NEW q \in DOMAIN h, q <= z, q # at
       PROVE  Maps(g, h, q) /\ OperandSize(g.code, q) = OperandSize(f.code, q) /\ g.code[q] = f.code[q]
  <2>1. q \in 1 .. z /\ Maps(f, h, q) /\ OperandSize(f.code, q) \in Nat /\ q + OperandSize(f.code, q) <= z
    BY <1>1, <1>2, <1>11, MapsWithin
  <2>2. PICK m \in Nat : m = OperandSize(f.code, q)
    BY <2>1
  <2>3. q + m < at \/ at + 2 < q
    <3>1. q < at \/ at < q
      BY <1>3, <1>11, <2>1
    <3>2. q < at => q + m < at
      BY <1>2, <1>11, <2>2 DEF Mapped
    <3>3. at < q => at + OperandSize(f.code, at) < q
      BY <1>2, <1>11 DEF Mapped
    <3> QED BY <1>4, <3>1, <3>2, <3>3
  <2>4. ASSUME NEW i \in 0 .. m PROVE g.code[q + i] = f.code[q + i]
    <3>1. PICK j \in Int : j = q + i
      BY <2>1, <2>4
    <3>2. j \in 1 .. z
      BY <2>1, <2>2, <3>1
    <3>3. j # at + 1 /\ j # at + 2
      BY <1>3, <2>1, <2>3, <3>1
    <3>4. g.code[j] = f.code[j]
      BY <1>9, <3>2, <3>3
    <3> QED BY <3>1, <3>4
  <2>5. Copied(f.code, q, g.code, q)
    BY <2>2, <2>4 DEF Copied
  <2>6. g.code[q] = f.code[q]
    <3>1. g.code[q + 0] = f.code[q + 0] /\ q + 0 = q
      BY <2>1, <2>4
    <3> QED BY <3>1
  <2>7. Maps(g, h, q)
    <3>1. Len(f.upvalues) \in Nat /\ Count(f) <= Count(g) /\ Count(g) \in Nat /\ q \in 1 .. Count(f)
      BY <1>1, <1>8, <2>1, LenProperties DEF CompilersTyped
    <3> QED BY <1>7, <2>1, <2>5, <2>6, <3>1, MapsKept
  <2>8. OperandSize(g.code, q) = OperandSize(f.code, q)
    <3>1. CASE Dead(f, q)
      BY <2>6, <3>1 DEF Dead, OperandSize, Shorts, Bytes
    <3>2. CASE ~Dead(f, q)
      <4>1. Whole(f.code, q) /\ q \in Nat
        BY <2>1, <3>2 DEF Maps, Executes
      <4>2. q + OperandSize(f.code, q) <= Len(g.code)
        BY <1>1, <1>7, <2>1
      <4> QED BY <2>5, <4>1, <4>2, CopiedRuns
    <3> QED BY <3>1, <3>2
  <2> QED BY <2>6, <2>7, <2>8
<1>12. OperandSize(g.code, at) = 2
  BY <1>2, <1>10 DEF OperandSize, Forward, Shorts
<1>13. ReadShort(g.code, at + 1) = d /\ g.code[at + 1] # Unpatched
       /\ g.code[at + 1].op = "operand" /\ g.code[at + 2].op = "operand"
  <2>1. PICK e \in Int : e = at + 1 /\ e + 1 = at + 2
    BY <1>3
  <2>2. g.code[e] = s[1] /\ g.code[e + 1] = s[2] /\ ~TooFar(d)
    BY <1>5, <1>7, <2>1
  <2>3. /\ ReadShort(g.code, e) = d /\ g.code[e] # Unpatched
        /\ g.code[e].op = "operand" /\ g.code[e + 1].op = "operand"
    BY <1>6, <2>2, ShortReads
  <2> QED BY <2>1, <2>3
<1>14. Whole(g.code, at)
  <2>1. \A q \in at + 1 .. at + 2 : q = at + 1 \/ q = at + 2
    BY <1>3
  <2>2. at <= Len(g.code) /\ at + 2 <= Len(g.code)
    BY <1>1, <1>3, <1>4, <1>7
  <2> QED BY <1>2, <1>10, <1>12, <1>13, <2>1, <2>2 DEF Whole, Decodes, Forward
<1>15. Takes(g.code, at) = Takes(f.code, at) /\ Leaves(g.code, at) = Leaves(f.code, at)
  BY <1>2, <1>10 DEF Takes, Leaves, Forward
<1>16. Executes(g, at, h[at])
  BY <1>2, <1>4, <1>10, <1>14, <1>15 DEF Executes, Captures, Forward
<1>17. h[at] - Takes(f.code, at) + Leaves(f.code, at) = n
  <2>1. PICK x \in Nat : x = h[at]
    BY <1>3
  <2>2. n = IF f.code[at].op = "JUMP_IF_FALSE_POP" THEN x - 1 ELSE x
    BY <2>1 DEF Jumps
  <2>3. CASE f.code[at].op = "JUMP"
    BY <2>1, <2>2, <2>3 DEF Takes, Leaves
  <2>4. CASE f.code[at].op = "JUMP_IF_FALSE_POP"
    BY <2>1, <2>2, <2>4 DEF Takes, Leaves
  <2>5. CASE f.code[at].op \in {"JUMP_IF_FALSE", "JUMP_IF_TRUE"}
    BY <2>1, <2>2, <2>5 DEF Takes, Leaves
  <2> QED BY <1>2, <2>3, <2>4, <2>5 DEF Forward
<1>18. \A t \in Targets(g.code, at) : t \in DOMAIN h /\ h[t] = h[at] - Takes(g.code, at) + Leaves(g.code, at)
  <2>1. PICK next \in Nat : next = at + 1 + 2 /\ next + d = z + 1
    BY <1>3, <1>5
  <2>2. Targets(g.code, at) \subseteq {z + 1} \cup Targets(f.code, at)
    <3>1. PICK x, y : x = OperandSize(g.code, at) /\ y = ReadShort(g.code, at + 1)
      OBVIOUS
    <3>2. at + 1 + x + y = z + 1 /\ at + 1 + x = next /\ at + 1 + OperandSize(f.code, at) = next
      BY <1>4, <1>12, <1>13, <2>1, <3>1
    <3>3. Targets(g.code, at) \subseteq {z + 1} \cup (IF f.code[at].op = "JUMP" THEN {} ELSE {next})
      <4>1. g.code[at].op \in Forward /\ g.code[at].op = f.code[at].op
        BY <1>2, <1>10
      <4> QED BY <1>13, <3>1, <3>2, <4>1 DEF Targets, Forward
    <3>4. f.code[at].op # "JUMP" => next \in Targets(f.code, at)
      BY <1>2, <3>2 DEF Targets, Forward
    <3> QED BY <3>3, <3>4
  <2> QED BY <1>2, <1>4, <1>15, <1>17, <2>2
<1>19. Maps(g, h, at)
  BY <1>16, <1>18 DEF Maps
<1>20. Mapped(g, h)
  <2>1. \A q \in DOMAIN h : q <= z => Maps(g, h, q)
    BY <1>11, <1>19
  <2>2. \A q, r \in DOMAIN h : q < r => q + OperandSize(g.code, q) < r
    <3>1. TAKE q, r \in DOMAIN h
    <3>2. HAVE q < r
    <3>3. q <= z
      <4>1. q \in 1 .. z + 1 /\ r \in 1 .. z + 1
        BY <1>1, <1>2 DEF Mapped
      <4> QED BY <3>2, <4>1
    <3>4. OperandSize(g.code, q) = OperandSize(f.code, q)
      BY <1>4, <1>11, <1>12, <3>3
    <3> QED BY <1>2, <3>2, <3>4 DEF Mapped
  <2>3. DOMAIN h \subseteq 1 .. z + 1 /\ (\A q \in DOMAIN h : h[q] \in Nat) /\ 1 \in DOMAIN h /\ h[1] = f.arity + 1
    BY <1>1, <1>2 DEF Mapped
  <2> QED BY <1>7, <1>8, <2>1, <2>2, <2>3 DEF Mapped
<1>21. Grows(f, h, g, h)
  <2>1. \A q \in DOMAIN h : q <= z => g.code[q].op = f.code[q].op
    BY <1>10, <1>11
  <2> QED BY <1>1, <1>8, <2>1 DEF Grows
<1> QED BY <1>2, <1>7, <1>8, <1>20, <1>21 DEF Ends

(* What the steps of Unwind, the last local first, keep, its result has. *)
LEMMA UnwindWithin ==
  ASSUME NEW locals, NEW n \in Nat, n = Len(locals), NEW V, [code |-> <<>>, pops |-> 0] \in V[0],
         \A j \in 1 .. n : \A v \in V[j - 1] : EndedStep(locals[n - j + 1], v) \in V[j]
  PROVE  \E e \in V[n] : Unwind(locals) = e.code \o emitPopCount(e.pops)
<1> DEFINE none == [code |-> <<>>, pops |-> 0]
           F == [j \in 1 .. n |-> [after \in V[j - 1] |-> EndedStep(locals[n - j + 1], after)]]
<1>3. \A j \in 1 .. n : \A v \in V[j - 1] : F[j][v] \in V[j]
  OBVIOUS
<1>4. PICK f : Recursive(f, n, V, none, F)
  <2>1. none \in V[0]
    OBVIOUS
  <2> HIDE DEF none, F
  <2> QED BY <1>3, <2>1, RecursionExists
<1>5. PICK e : e = [i \in 0 .. n |-> f[n - i]]
  OBVIOUS
<1>6. e = EndedBy(locals, e)
  <2>1. ASSUME NEW i \in 0 .. n
        PROVE  e[i] = IF i = n THEN none ELSE EndedStep(locals[i + 1], e[i + 1])
    <3>1. CASE i = n
      BY <1>4, <1>5, <3>1 DEF Recursive
    <3>2. CASE i # n
      <4>1. n - i \in 1 .. n /\ n - (i + 1) = (n - i) - 1 /\ n - (n - i) + 1 = i + 1 /\ i + 1 \in 0 .. n
            /\ (n - i) - 1 \in 0 .. n
        BY <3>2
      <4>2. f[n - i] = F[n - i][f[(n - i) - 1]] /\ f[(n - i) - 1] \in V[(n - i) - 1]
        BY <1>4, <4>1 DEF Recursive
      <4>3. F[n - i][f[(n - i) - 1]] = EndedStep(locals[n - (n - i) + 1], f[(n - i) - 1])
        BY <4>1, <4>2
      <4>4. e[i] = f[n - i] /\ e[i + 1] = f[n - (i + 1)]
        BY <1>5, <4>1
      <4>5. e[i] = EndedStep(locals[i + 1], e[i + 1])
        BY <4>1, <4>2, <4>3, <4>4
      <4> QED BY <3>2, <4>5
    <3> QED BY <3>1, <3>2
  <2> QED BY <1>5, <2>1 DEF EndedBy
<1>7. PICK g : g = Ended(locals) /\ g = EndedBy(locals, g)
  BY <1>6 DEF Ended
<1>8. PICK h : h = [j \in 0 .. n |-> g[n - j]]
  OBVIOUS
<1>9. h[0] = none
  BY <1>7, <1>8 DEF EndedBy
<1>10. ASSUME NEW j \in 1 .. n, h[j - 1] \in V[j - 1]
       PROVE  h[j] = F[j][h[j - 1]]
  <2>1. n - j \in 0 .. n /\ n - j # n /\ j - 1 \in 0 .. n /\ j \in 0 .. n /\ n - (j - 1) = n - j + 1
    OBVIOUS
  <2>2. g[n - j] = EndedStep(locals[n - j + 1], g[n - j + 1])
    BY <1>7, <2>1 DEF EndedBy
  <2>3. h[j] = EndedStep(locals[n - j + 1], h[j - 1])
    BY <1>8, <2>1, <2>2
  <2> QED BY <1>10, <2>3
<1>11. \A j \in 0 .. n : h[j] = f[j] /\ h[j] \in V[j]
  <2> HIDE DEF none, F
  <2> QED BY <1>4, <1>9, <1>10, Determined
<1>12. g[0] \in V[n]
  <2>1. h[n] = g[n - n] /\ n - n = 0
    BY <1>8
  <2> QED BY <1>11, <2>1
<1> QED BY <1>7, <1>12, UnwindIs

(* And of closureCode. *)
LEMMA OperandsWithin ==
  ASSUME NEW upvalues, NEW n \in Nat, n = Len(upvalues), NEW V, <<>> \in V[0],
         \A i \in 1 .. n : \A v \in V[i - 1] : OperandsStep(upvalues[i], v) \in V[i]
  PROVE  \E o \in V[n] : closureCode(upvalues) = WithShort("CLOSURE", n) \o o
<1> DEFINE F == [i \in 1 .. n |-> [before \in V[i - 1] |-> OperandsStep(upvalues[i], before)]]
<1>3. \A i \in 1 .. n : \A v \in V[i - 1] : F[i][v] \in V[i]
  OBVIOUS
<1>4. PICK f : Recursive(f, n, V, <<>>, F)
  <2> HIDE DEF F
  <2> QED BY <1>3, RecursionExists
<1>5. f = OperandsBy(upvalues, f)
  <2>1. ASSUME NEW i \in 0 .. n
        PROVE  f[i] = IF i = 0 THEN <<>> ELSE OperandsStep(upvalues[i], f[i - 1])
    <3>1. CASE i = 0
      BY <1>4, <3>1 DEF Recursive
    <3>2. CASE i # 0
      <4>1. i \in 1 .. n /\ i - 1 \in 0 .. n
        BY <3>2
      <4>2. f[i] = F[i][f[i - 1]] /\ f[i - 1] \in V[i - 1]
        BY <1>4, <4>1 DEF Recursive
      <4> QED BY <3>2, <4>1, <4>2
    <3> QED BY <3>1, <3>2
  <2>2. f = [i \in 0 .. n |-> f[i]]
    BY <1>4 DEF Recursive
  <2> QED BY <2>1, <2>2 DEF OperandsBy
<1>6. PICK g : g = Operands(upvalues) /\ g = OperandsBy(upvalues, g)
  BY <1>5 DEF Operands
<1>7. g[0] = <<>>
  BY <1>6 DEF OperandsBy
<1>8. ASSUME NEW i \in 1 .. n, g[i - 1] \in V[i - 1]
      PROVE  g[i] = F[i][g[i - 1]]
  <2>1. i \in 0 .. n /\ i - 1 \in 0 .. n /\ i # 0
    OBVIOUS
  <2>2. g[i] = OperandsStep(upvalues[i], g[i - 1])
    BY <1>6, <2>1 DEF OperandsBy
  <2> QED BY <1>8, <2>1, <2>2
<1>9. \A i \in 0 .. n : g[i] = f[i] /\ g[i] \in V[i]
  <2> HIDE DEF F
  <2> QED BY <1>4, <1>7, <1>8, Determined
<1>10. g[n] \in V[n]
  BY <1>9
<1>11. closureCode(upvalues) = WithShort("CLOSURE", n) \o g[n]
  BY <1>6, closureCodeIs DEF WithShort
<1> QED BY <1>10, <1>11

(* One instruction that goes on to the next, above x values that stay. *)
LEMMA EmitsCode ==
  ASSUME NEW f \in CompilersTyped, NEW h, NEW x \in Nat, NEW y \in Nat, Ends(f, h, x + y), x > 0, NEW c \in Codes,
         Decodes(c, 1), Len(c) = 1 + OperandSize(c, 1), c[1].op \notin Forward \cup {"LOOP", "CLOSURE"},
         Takes(c, 1) <= y, c[1].op \in {"GET_LOCAL", "SET_LOCAL"} => ReadByte(c, 2) < x,
         c[1].op \in {"GET_UPVALUE", "SET_UPVALUE"} => ReadByte(c, 2) < Len(f.upvalues),
         NEW g, g = emit(f, c)
  PROVE  /\ y - Takes(c, 1) + Leaves(c, 1) \in Nat
         /\ \E k : Ends(g, k, x + (y - Takes(c, 1) + Leaves(c, 1))) /\ Grows(f, h, g, k)
<1>1. PICK t : t = [size |-> x, pending |-> "none", temps |-> y, depth |-> 0, sizes |-> [d \in Nat |-> 1],
                    loops |-> 0, floors |-> [d \in Nat |-> 1]]
  OBVIOUS
<1>2. [d \in Nat |-> 1] \in [Nat -> Pos]
  BY DEF Pos
<1>3. t \in Frames /\ t.size = x /\ t.temps = y /\ t.pending = "none"
  BY <1>1, <1>2 DEF Frames
<1>4. Values(t) = x /\ Height(t) = x + y
  BY <1>3 DEF Values, Height
<1>5. PICK i : i = [do |-> "access", code |-> c]
  OBVIOUS
<1>6. i.do = "access" /\ i.code = c
  BY <1>5
<1>7. Simple(i, t)
  BY <1>3, <1>4, <1>6 DEF Simple
<1>8. /\ t.temps - Takes(i.code, 1) + Leaves(i.code, 1) \in Nat
      /\ \E k : /\ Ends(emit(f, i.code), k, Values(t) + (t.temps - Takes(i.code, 1) + Leaves(i.code, 1)))
                /\ Grows(f, h, emit(f, i.code), k)
  <2>1. i.code \in Codes /\ Ends(f, h, Height(t)) /\ Values(t) > 0
        /\ (i.code[1].op \in {"GET_UPVALUE", "SET_UPVALUE"} => ReadByte(i.code, 2) < Len(f.upvalues))
    BY <1>4, <1>6
  <2> QED BY <1>3, <1>7, <2>1, EmitsSimple
<1> QED BY <1>3, <1>4, <1>6, <1>8

(* What instructions look like. *)
Lone == Ops \ (Shorts \cup Bytes \cup {"operand", "CLOSURE", "INVOKE"})

LEMMA OneCell ==
  ASSUME NEW name \in Lone, NEW c, c = <<Op(name)>>
  PROVE  c \in Codes /\ c[1].op = name /\ Decodes(c, 1) /\ Len(c) = 1 + OperandSize(c, 1)
<1>1. c \in Codes /\ Len(c) = 1 /\ c[1].op = name
  BY OpCode DEF Lone, Op
<1>2. OperandSize(c, 1) = 0
  BY <1>1 DEF OperandSize, Lone
<1> QED BY <1>1, <1>2 DEF Decodes, Lone

LEMMA TwoCells ==
  ASSUME NEW name \in Bytes, NEW n \in Int, n < Base, NEW c, c = <<Op(name), Byte(n)>>
  PROVE  /\ c \in Codes /\ c[1].op = name /\ Decodes(c, 1) /\ Len(c) = 1 + OperandSize(c, 1) /\ ReadByte(c, 2) = n
         /\ c[1] = Op(name) /\ c[2] = Byte(n)
<1>1. name \in Ops
  BY DEF Bytes, Ops
<1>2. c \in Codes /\ Len(c) = 2 /\ c[1] = Op(name) /\ c[2] = Byte(n)
  BY <1>1, OpByteCode
<1>3. c[1].op = name /\ c[2].op = "operand" /\ c[2].byte = n
  BY <1>2 DEF Op, Byte
<1>4. OperandSize(c, 1) = 1
  BY <1>3 DEF OperandSize, Bytes, Shorts
<1>5. Decodes(c, 1)
  <2>1. \A q \in 1 + 1 .. 1 + 1 : q = 2
    OBVIOUS
  <2> QED BY <1>2, <1>3, <1>4, <2>1 DEF Decodes, Bytes
<1> QED BY <1>2, <1>3, <1>4, <1>5 DEF ReadByte

LEMMA ThreeCells ==
  ASSUME NEW name \in Shorts \ {"CLOSURE"}, NEW c, c = emitConstantCommond(name)
  PROVE  c \in Codes /\ Len(c) = 3 /\ c[1].op = name /\ Decodes(c, 1) /\ Len(c) = 1 + OperandSize(c, 1)
<1>1. name \in Ops
  BY DEF Shorts, Ops
<1>2. 0 \in Nat /\ ~TooFar(0)
  BY Near, Bytes_
<1>3. c = WithShort(name, 0)
  BY DEF WithShort, emitConstantCommond
<1>4. c \in Codes /\ Len(c) = 3 /\ c[1].op = name /\ c[2] = Short(0)[1] /\ c[3] = Short(0)[2]
  BY <1>1, <1>2, <1>3, ShortBehind
<1>5. c[2].op = "operand" /\ c[3].op = "operand"
  <2>1. c[2 + 1] = Short(0)[2]
    BY <1>4
  <2>2. c[2].op = "operand" /\ c[2 + 1].op = "operand"
    BY <1>2, <1>4, <2>1, ShortReads
  <2> QED BY <2>2
<1>6. OperandSize(c, 1) = 2
  BY <1>4 DEF OperandSize, Shorts
<1>7. Decodes(c, 1)
  <2>1. \A q \in 1 + 1 .. 1 + 2 : q = 2 \/ q = 3
    OBVIOUS
  <2> QED BY <1>4, <1>5, <1>6, <2>1 DEF Decodes, Shorts
<1> QED BY <1>4, <1>6, <1>7

LEMMA GrowsOn ==
  ASSUME NEW f \in CompilersTyped, NEW h, Mapped(f, h), NEW g \in CompilersTyped, NEW k, Grows(f, h, g, k),
         NEW e \in CompilersTyped, NEW l, Grows(g, k, e, l)
  PROVE  Grows(f, h, e, l)
<1>1. Count(f) \in Nat /\ Count(g) \in Nat /\ Count(e) \in Nat /\ Count(f) <= Count(g) /\ Count(g) <= Count(e)
  BY Counts DEF Grows
<1>2. ASSUME NEW p \in DOMAIN h PROVE p \in DOMAIN l /\ l[p] = h[p] /\ (p <= Count(f) => e.code[p].op = f.code[p].op)
  <2>1. p \in Int
    BY <1>1 DEF Mapped
  <2>2. p <= Count(f) => p <= Count(g)
    BY <1>1, <2>1
  <2> QED BY <2>2 DEF Grows
<1> QED BY <1>1, <1>2 DEF Grows

LEMMA EmitTwice ==
  ASSUME NEW f \in CompilersTyped, NEW a \in Codes, NEW b \in Codes
  PROVE  /\ emit(emit(f, a), b) = emit(f, a \o b) /\ emit(f, <<>>) = f
         /\ emit(f, a) \in CompilersTyped /\ a \o b \in Codes
<1>1. PICK c : c = f.code /\ c \in Codes
  BY DEF CompilersTyped
<1>2. (c \o a) \o b = c \o (a \o b)
  <2>1. c \in Seq(Cells) /\ a \in Seq(Cells) /\ b \in Seq(Cells)
    BY <1>1 DEF Codes
  <2> QED BY <2>1, ConcatAssociative
<1>3. c \o <<>> = c
  BY <1>1, ConcatEmptySeq DEF Codes
<1>4. c \o a \in Codes /\ a \o b \in Codes
  BY <1>1, Joined
<1>5. emit(f, a) = WithCode(f, c \o a) /\ emit(f, a \o b) = WithCode(f, c \o (a \o b)) /\ emit(f, <<>>) = WithCode(f, c \o <<>>)
  BY <1>1 DEF emit, WithCode
<1>61. PICK x \in Codes : x = c \o a
  BY <1>4
<1>6. PICK g : g = WithCode(f, x)
  OBVIOUS
<1>7. g \in CompilersTyped /\ g.code = x /\ \A d : WithCode(g, d) = WithCode(f, d)
  BY <1>6, WithCodeTyped
<1>8. emit(g, b) = WithCode(g, g.code \o b)
  BY DEF emit, WithCode
<1>9. emit(g, b) = WithCode(f, (c \o a) \o b)
  BY <1>61, <1>7, <1>8
<1>10. WithCode(f, c) = f
  BY <1>1, WithCodeTyped
<1> QED BY <1>2, <1>3, <1>4, <1>5, <1>6, <1>61, <1>7, <1>9, <1>10

LEMMA EmitsPops ==
  ASSUME NEW f \in CompilersTyped, NEW h, NEW x \in Nat, NEW n \in Nat, Ends(f, h, x + n), x > 0, n < Base,
         NEW g, g = emit(f, emitPopCount(n))
  PROVE  /\ g \in CompilersTyped
         /\ \E k : Ends(g, k, x) /\ Grows(f, h, g, k)
<1>0. g \in CompilersTyped
  <2>1. emitPopCount(n) \in Codes
    BY PopCountCode
  <2> QED BY <2>1, EmitTwice
<1>1. CASE n = 0
  <2>1. emitPopCount(n) = <<>>
    BY <1>1 DEF emitPopCount
  <2>2. g = f
    BY <2>1, EmitTwice, Codes_
  <2>3. x + n = x /\ Grows(f, h, f, h)
    BY <1>1, Counts, GrowsSelf
  <2> QED BY <1>0, <2>2, <2>3
<1>2. CASE n = 1
  <2>1. PICK c : c = <<Op("POP")>>
    OBVIOUS
  <2>2. c \in Codes /\ c[1].op = "POP" /\ Decodes(c, 1) /\ Len(c) = 1 + OperandSize(c, 1)
    <3>1. "POP" \in Lone
      BY DEF Lone, Ops, Shorts, Bytes
    <3> QED BY <2>1, <3>1, OneCell
  <2>3. g = emit(f, c)
    BY <1>2, <2>1 DEF emitPopCount
  <2>4. Takes(c, 1) = 1 /\ Leaves(c, 1) = 0
    BY <2>2 DEF Takes, Leaves
  <2>5. c[1].op \notin Forward \cup {"LOOP", "CLOSURE"} /\ c[1].op \notin {"GET_LOCAL", "SET_LOCAL", "GET_UPVALUE", "SET_UPVALUE"}
    BY <2>2 DEF Forward
  <2>6. \E k : Ends(g, k, x + (n - Takes(c, 1) + Leaves(c, 1))) /\ Grows(f, h, g, k)
    <3>1. Takes(c, 1) <= n
      BY <1>2, <2>4
    <3> QED BY <2>2, <2>3, <2>5, <3>1, EmitsCode
  <2>7. x + (n - Takes(c, 1) + Leaves(c, 1)) = x
    BY <1>2, <2>4
  <2> QED BY <1>0, <2>6, <2>7
<1>3. CASE n > 1
  <2>1. PICK c : c = <<Op("POP_N"), Byte(n)>>
    OBVIOUS
  <2>2. /\ c \in Codes /\ c[1].op = "POP_N" /\ Decodes(c, 1) /\ Len(c) = 1 + OperandSize(c, 1)
        /\ ReadByte(c, 2) = n
    <3>1. "POP_N" \in Bytes /\ n \in Int
      BY DEF Bytes
    <3> QED BY <2>1, <3>1, TwoCells
  <2>3. g = emit(f, c)
    <3>1. n % Base = n
      <4>1. n \in 0 .. Base - 1
        BY Bytes_
      <4> QED BY <4>1, SmallRest
    <3> QED BY <1>3, <2>1, <3>1 DEF emitPopCount
  <2>4. Takes(c, 1) = n /\ Leaves(c, 1) = 0
    <3>1. ReadByte(c, 1 + 1) = n
      BY <2>2
    <3> QED BY <2>2, <3>1 DEF Takes, Leaves
  <2>5. c[1].op \notin Forward \cup {"LOOP", "CLOSURE"} /\ c[1].op \notin {"GET_LOCAL", "SET_LOCAL", "GET_UPVALUE", "SET_UPVALUE"}
    BY <2>2 DEF Forward
  <2>6. \E k : Ends(g, k, x + (n - Takes(c, 1) + Leaves(c, 1))) /\ Grows(f, h, g, k)
    <3>1. Takes(c, 1) <= n
      BY <2>4
    <3> QED BY <2>2, <2>3, <2>5, <3>1, EmitsCode
  <2>7. x + (n - Takes(c, 1) + Leaves(c, 1)) = x
    BY <2>4
  <2> QED BY <1>0, <2>6, <2>7
<1> QED BY <1>1, <1>2, <1>3

LEMMA EmitsClose ==
  ASSUME NEW f \in CompilersTyped, NEW h, NEW x \in Nat, Ends(f, h, x + 1), x > 0,
         NEW g, g = emit(f, <<Op("CLOSE_UPVALUE")>>)
  PROVE  g \in CompilersTyped /\ \E k : Ends(g, k, x) /\ Grows(f, h, g, k)
<1>1. PICK c : c = <<Op("CLOSE_UPVALUE")>>
  OBVIOUS
<1>2. c \in Codes /\ c[1].op = "CLOSE_UPVALUE" /\ Decodes(c, 1) /\ Len(c) = 1 + OperandSize(c, 1)
  <2>1. "CLOSE_UPVALUE" \in Lone
    BY DEF Lone, Ops, Shorts, Bytes
  <2> QED BY <1>1, <2>1, OneCell
<1>3. g = emit(f, c)
  BY <1>1
<1>4. Takes(c, 1) = 1 /\ Leaves(c, 1) = 0
  BY <1>2 DEF Takes, Leaves
<1>5. c[1].op \notin Forward \cup {"LOOP", "CLOSURE"} /\ c[1].op \notin {"GET_LOCAL", "SET_LOCAL", "GET_UPVALUE", "SET_UPVALUE"}
  BY <1>2 DEF Forward
<1>6. \E k : Ends(g, k, x + (1 - Takes(c, 1) + Leaves(c, 1))) /\ Grows(f, h, g, k)
  <2>1. Takes(c, 1) <= 1 /\ 1 \in Nat
    BY <1>4
  <2> QED BY <1>2, <1>3, <1>5, <2>1, EmitsCode
<1>7. x + (1 - Takes(c, 1) + Leaves(c, 1)) = x
  BY <1>4
<1> QED BY <1>2, <1>3, <1>6, <1>7, EmitTwice

(* Where left values of those that end are not yet ended. *)
Unwound(f, h, x, left) ==
  {e \in Endings : \E k : Ends(emit(f, e.code), k, x + left + e.pops) /\ Grows(f, h, emit(f, e.code), k)}

LEMMA UnwoundStep ==
  ASSUME NEW f \in CompilersTyped, NEW h, Mapped(f, h), NEW x \in Nat, x > 0, NEW left \in Nat, NEW more, more = left + 1,
         NEW local, NEW e \in Unwound(f, h, x, more), e.pops < Base
  PROVE  EndedStep(local, e) \in Unwound(f, h, x, left)
<1>1. e \in Endings /\ e.code \in Codes /\ e.pops \in Nat
  BY DEF Unwound, Endings
<1>2. PICK c \in Codes, n \in Nat : c = e.code /\ n = e.pops
  BY <1>1
<1>3. PICK g : g = emit(f, c)
  OBVIOUS
<1>4. PICK k : Ends(g, k, x + more + n) /\ Grows(f, h, g, k)
  BY <1>2, <1>3 DEF Unwound
<1>5. g \in CompilersTyped
  BY <1>1, <1>2, <1>3, EmitTwice
<1>6. CASE ~local.isCaptured
  <2>1. PICK d : d = [e EXCEPT !.pops = @ + 1]
    OBVIOUS
  <2>2. d \in Endings /\ d.code = c /\ d.pops = n + 1
    BY <1>1, <1>2, <2>1 DEF Endings
  <2>3. x + more + n = x + left + (n + 1)
    OBVIOUS
  <2>4. Ends(emit(f, d.code), k, x + left + d.pops) /\ Grows(f, h, emit(f, d.code), k)
    BY <1>3, <1>4, <2>2, <2>3
  <2>5. d \in Unwound(f, h, x, left)
    BY <2>2, <2>4 DEF Unwound
  <2> QED BY <1>6, <2>1, <2>5 DEF EndedStep
<1>7. CASE local.isCaptured
  <2>1. PICK p, z : p = emitPopCount(n) /\ z = <<Op("CLOSE_UPVALUE")>>
    OBVIOUS
  <2>2. p \in Codes /\ z \in Codes
    BY <2>1, PopCountCode, OpCode DEF Ops
  <2>3. PICK b : b = emit(g, p)
    OBVIOUS
  <2>4. PICK y \in Nat : y = x + left /\ y > 0
    OBVIOUS
  <2>5. PICK l : b \in CompilersTyped /\ Ends(b, l, y + 1) /\ Grows(g, k, b, l)
    <3>1. PICK w \in Nat : w = y + 1 /\ w > 0 /\ x + more + n = w + n
      BY <2>4
    <3>2. Ends(g, k, w + n) /\ n < Base /\ b = emit(g, emitPopCount(n))
      BY <1>2, <1>4, <2>1, <2>3, <3>1
    <3>3. b \in CompilersTyped /\ \E l : Ends(b, l, w) /\ Grows(g, k, b, l)
      BY <1>5, <3>1, <3>2, EmitsPops
    <3> QED BY <3>1, <3>3
  <2>6. PICK a : a = emit(b, z)
    OBVIOUS
  <2>7. PICK m : a \in CompilersTyped /\ Ends(a, m, y) /\ Grows(b, l, a, m)
    <3>1. a = emit(b, <<Op("CLOSE_UPVALUE")>>)
      BY <2>1, <2>6
    <3> QED BY <2>4, <2>5, <3>1, EmitsClose
  <2>8. Grows(f, h, a, m)
    <3>1. Grows(f, h, b, l)
      BY <1>4, <1>5, <2>5, GrowsOn
    <3> QED BY <2>5, <2>7, <3>1, GrowsOn
  <2>9. a = emit(f, c \o p \o z) /\ c \o p \o z \in Codes
    <3>1. PICK q \in Codes : q = c \o p
      BY <1>1, <1>2, <2>2, EmitTwice
    <3>2. b = emit(f, q)
      BY <1>1, <1>2, <1>3, <2>2, <2>3, <3>1, EmitTwice
    <3>3. a = emit(f, q \o z) /\ q \o z \in Codes
      BY <2>2, <2>6, <3>2, EmitTwice
    <3> QED BY <3>1, <3>3
  <2>10. PICK d : d = [code |-> c \o p \o z, pops |-> 0]
    OBVIOUS
  <2>11. d \in Endings /\ d.code = c \o p \o z /\ d.pops = 0
    BY <2>9, <2>10 DEF Endings
  <2>12. x + left + d.pops = y
    BY <2>4, <2>11
  <2>13. d \in Unwound(f, h, x, left)
    BY <2>7, <2>8, <2>9, <2>11, <2>12 DEF Unwound
  <2> QED BY <1>2, <1>7, <2>1, <2>10, <2>13 DEF EndedStep
<1> QED BY <1>6, <1>7

LEMMA EmitsUnwind ==
  ASSUME NEW f \in CompilersTyped, NEW h, NEW x \in Nat, NEW locals \in Seq(Locals), NEW n \in Nat, n = Len(locals),
         Ends(f, h, x + n), x > 0, n < Base, NEW g, g = emit(f, Unwind(locals))
  PROVE  g \in CompilersTyped /\ \E k : Ends(g, k, x) /\ Grows(f, h, g, k)
<1>1. PICK V : V = [j \in 0 .. n |-> {e \in Unwound(f, h, x, n - j) : e.pops <= j}]
  OBVIOUS
<1>2. Mapped(f, h)
  BY DEF Ends
<1>3. [code |-> <<>>, pops |-> 0] \in V[0]
  <2>1. PICK e : e = [code |-> <<>>, pops |-> 0]
    OBVIOUS
  <2>2. e \in Endings /\ e.code = <<>> /\ e.pops = 0
    BY <2>1, Codes_ DEF Endings
  <2>3. emit(f, e.code) = f
    BY <2>2, Codes_, EmitTwice
  <2>4. Grows(f, h, f, h)
    BY Counts, GrowsSelf
  <2>5. n - 0 = n /\ x + n + e.pops = x + n /\ 0 \in 0 .. n
    BY <2>2
  <2>6. e \in Unwound(f, h, x, n)
    BY <2>2, <2>3, <2>4, <2>5 DEF Unwound
  <2> QED BY <1>1, <2>1, <2>2, <2>5, <2>6
<1>4. ASSUME NEW j \in 1 .. n, NEW e \in V[j - 1] PROVE EndedStep(locals[n - j + 1], e) \in V[j]
  <2>1. PICK i \in 0 .. n : i = j - 1
    OBVIOUS
  <2>2. e \in Unwound(f, h, x, n - i) /\ e.pops <= i
    BY <1>1, <2>1
  <2>31. n - j \in Nat /\ n - i = (n - j) + 1
    BY <2>1
  <2>32. PICK left \in Nat : left = n - j
    BY <2>31
  <2>3. PICK more : left = n - j /\ more = n - i /\ more = left + 1
    BY <2>31, <2>32
  <2>4. e \in Endings /\ e.pops \in Nat
    BY <2>2 DEF Unwound, Endings
  <2>5. e.pops < Base
    BY <2>2, <2>4, Bytes_
  <2>6. EndedStep(locals[n - j + 1], e) \in Unwound(f, h, x, left)
    BY <1>2, <2>2, <2>3, <2>5, UnwoundStep
  <2>7. EndedStep(locals[n - j + 1], e).pops <= j
    <3>1. PICK local : local = locals[n - j + 1]
      OBVIOUS
    <3>2. CASE local.isCaptured
      <4>1. EndedStep(local, e).pops = 0
        BY <3>2 DEF EndedStep
      <4> QED BY <3>1, <4>1
    <3>3. CASE ~local.isCaptured
      <4>1. EndedStep(local, e).pops = e.pops + 1
        BY <2>4, <3>3 DEF EndedStep, Endings
      <4> QED BY <2>1, <2>2, <2>4, <3>1, <4>1
    <3> QED BY <3>2, <3>3
  <2>8. j \in 0 .. n
    OBVIOUS
  <2> QED BY <1>1, <2>3, <2>6, <2>7, <2>8
<1>5. PICK e \in V[n] : Unwind(locals) = e.code \o emitPopCount(e.pops)
  BY <1>3, <1>4, UnwindWithin
<1>6. e \in Unwound(f, h, x, 0) /\ e.pops <= n
  <2>1. n - n = 0 /\ n \in 0 .. n
    OBVIOUS
  <2> QED BY <1>1, <2>1
<1>7. PICK c \in Codes, m \in Nat : c = e.code /\ m = e.pops
  BY <1>6 DEF Unwound, Endings
<1>8. PICK b : b = emit(f, c)
  OBVIOUS
<1>9. PICK k : Ends(b, k, x + m) /\ Grows(f, h, b, k)
  <2>1. x + 0 + m = x + m
    OBVIOUS
  <2> QED BY <1>6, <1>7, <1>8, <2>1 DEF Unwound
<1>10. b \in CompilersTyped
  BY <1>7, <1>8, EmitTwice
<1>11. g = emit(b, emitPopCount(m))
  BY <1>5, <1>7, <1>8, EmitTwice, PopCountCode
<1>12. PICK l : g \in CompilersTyped /\ Ends(g, l, x) /\ Grows(b, k, g, l)
  <2>1. m < Base
    BY <1>6, <1>7, Bytes_
  <2> QED BY <1>9, <1>10, <1>11, <2>1, EmitsPops
<1>13. Grows(f, h, g, l)
  BY <1>2, <1>9, <1>10, <1>12, GrowsOn
<1> QED BY <1>12, <1>13

LEMMA CellsJoined ==
  ASSUME NEW a \in Cells, NEW b \in Cells, NEW c \in Cells, NEW d \in Cells
  PROVE  <<a>> \o <<b>> = <<a, b>> /\ <<a, b>> \o <<c, d>> = <<a, b, c, d>>
<1>1. ASSUME NEW x \in Cells, NEW y \in Cells PROVE <<x>> \o <<y>> = <<x, y>>
  <2>1. PICK q, r : q = <<x, y>> /\ r = <<y>>
    OBVIOUS
  <2>2. q \in Seq(Cells) /\ r \in Seq(Cells) /\ Len(q) = 2 /\ Len(r) = 1 /\ q[1] = x /\ q[2] = y /\ r[1] = y
    BY <2>1
  <2>3. Len(q) = Len(r) + 1 /\ \A k \in 1 .. Len(r) : q[k + 1] = r[k]
    BY <2>2
  <2> QED BY <2>1, <2>2, <2>3, FirstApart
<1>2. PICK p, q, r, x, y : p = <<c, d>> /\ q = <<b, c, d>> /\ r = <<a, b, c, d>> /\ x = <<a>> /\ y = <<b>>
  OBVIOUS
<1>3. /\ p \in Seq(Cells) /\ q \in Seq(Cells) /\ r \in Seq(Cells) /\ Len(p) = 2 /\ Len(q) = 3 /\ Len(r) = 4
      /\ p[1] = c /\ p[2] = d /\ q[1] = b /\ q[2] = c /\ q[3] = d /\ r[1] = a /\ r[2] = b /\ r[3] = c /\ r[4] = d
  BY <1>2
<1>4. x \in Seq(Cells) /\ y \in Seq(Cells)
  BY <1>2
<1>5. q = y \o p
  <2>1. \A k \in 1 .. Len(p) : q[k + 1] = p[k]
    <3>1. TAKE k \in 1 .. Len(p)
    <3>2. k = 1 \/ k = 2
      BY <1>3
    <3> QED BY <1>3, <3>2
  <2> QED BY <1>2, <1>3, <2>1, FirstApart
<1>6. r = x \o q
  <2>1. \A k \in 1 .. Len(q) : r[k + 1] = q[k]
    <3>1. TAKE k \in 1 .. Len(q)
    <3>2. k = 1 \/ k = 2 \/ k = 3
      BY <1>3
    <3> QED BY <1>3, <3>2
  <2> QED BY <1>2, <1>3, <2>1, FirstApart
<1>7. (x \o y) \o p = x \o (y \o p)
  BY <1>3, <1>4, ConcatAssociative
<1>8. x \o y = <<a, b>>
  BY <1>1, <1>2
<1> QED BY <1>2, <1>5, <1>6, <1>7, <1>8

(* RETURN: behind it, any height. *)
LEMMA EmitsRETURN ==
  ASSUME NEW f \in CompilersTyped, NEW h, NEW n \in Nat, Ends(f, h, n), n >= 2, NEW m \in Nat,
         NEW g, g = emit(f, <<Op("RETURN")>>)
  PROVE  g \in CompilersTyped /\ \E k : Ends(g, k, m) /\ Grows(f, h, g, k)
<1>1. PICK c : c = <<Op("RETURN")>>
  OBVIOUS
<1>2. c \in Codes /\ c[1].op = "RETURN" /\ Len(c) = 1
  <2>1. "RETURN" \in Ops
    BY DEF Ops
  <2> QED BY <1>1, <2>1, OpCode DEF Op
<1>3. g = emit(f, c)
  BY <1>1
<1>4. PICK p \in Nat : p = Count(f) + 1
  BY Counts
<1>5. g \in CompilersTyped /\ Len(g.code) = p /\ g.code[p] = c[1]
  <2>1. /\ g \in CompilersTyped
        /\ Count(g) = Count(f) + Len(c) /\ Len(g.code) = Count(g)
        /\ \A j \in 1 .. Len(c) : g.code[Count(f) + j] = c[j]
    <3>1. c \in Codes
      BY <1>2
    <3> QED BY <1>3, <3>1, Behind
  <2> QED BY <1>2, <1>4, <2>1
<1>6. g.code[p].op = "RETURN"
  BY <1>2, <1>5
<1>7. OperandSize(g.code, p) = 0
  BY <1>6 DEF OperandSize, Shorts, Bytes
<1>8. Takes(g.code, p) = 1 /\ Targets(g.code, p) = {}
  BY <1>6 DEF Takes, Targets
<1>9. Whole(g.code, p)
  BY <1>4, <1>5, <1>6, <1>7 DEF Whole, Decodes
<1>10. Executes(g, p, n)
  BY <1>6, <1>8, <1>9 DEF Executes, Captures
<1>11. Onward(g, h, p, n, m)
  BY <1>8, <1>10 DEF Onward
<1>12. Len(c) >= 1 + OperandSize(g.code, p)
  BY <1>2, <1>7
<1>13. \E k : Ends(g, k, m) /\ Grows(f, h, g, k)
  <2>1. c \in Codes
    BY <1>2
  <2> QED BY <1>3, <1>4, <1>11, <1>12, <2>1, EmitsMore
<1> QED BY <1>5, <1>13

LEMMA EmitsReturn ==
  ASSUME NEW f \in CompilersTyped, NEW h, NEW n \in Nat, Ends(f, h, n), n >= 1, NEW m \in Nat, NEW g, g = emitReturn(f)
  PROVE  g \in CompilersTyped /\ \E k : Ends(g, k, m) /\ Grows(f, h, g, k)
<1>0. Mapped(f, h)
  BY DEF Ends
<1>1. CASE f.type # "initializer"
  <2>1. PICK c, d : c = <<Op("NIL")>> /\ d = <<Op("RETURN")>>
    OBVIOUS
  <2>2. c \in Codes /\ c[1].op = "NIL" /\ Decodes(c, 1) /\ Len(c) = 1 + OperandSize(c, 1) /\ d \in Codes
    <3>1. "NIL" \in Lone /\ "RETURN" \in Ops
      BY DEF Lone, Ops, Shorts, Bytes
    <3>2. c \in Codes /\ c[1].op = "NIL" /\ Decodes(c, 1) /\ Len(c) = 1 + OperandSize(c, 1)
      BY <2>1, <3>1, OneCell
    <3> QED BY <2>1, <3>1, <3>2, OpCode
  <2>3. g = emit(f, c \o d)
    <3>1. c \o d = <<Op("NIL"), Op("RETURN")>>
      <4>1. Op("NIL") \in Cells /\ Op("RETURN") \in Cells
        BY OpCell DEF Ops
      <4> QED BY <2>1, <4>1, CellsJoined
    <3> QED BY <1>1, <3>1 DEF emitReturn
  <2>4. PICK b : b = emit(f, c)
    OBVIOUS
  <2>5. b \in CompilersTyped /\ g = emit(b, d)
    BY <2>2, <2>3, <2>4, EmitTwice
  <2>6. Takes(c, 1) = 0 /\ Leaves(c, 1) = 1
    BY <2>2 DEF Takes, Leaves
  <2>7. c[1].op \notin Forward \cup {"LOOP", "CLOSURE"} /\ c[1].op \notin {"GET_LOCAL", "SET_LOCAL", "GET_UPVALUE", "SET_UPVALUE"}
    BY <2>2 DEF Forward
  <2>8. \E k : Ends(b, k, n + (0 - Takes(c, 1) + Leaves(c, 1))) /\ Grows(f, h, b, k)
    <3>1. Takes(c, 1) <= 0 /\ 0 \in Nat /\ n + 0 = n /\ n > 0
      BY <2>6
    <3>2. Ends(f, h, n + 0)
      BY <3>1
    <3> QED BY <2>2, <2>4, <2>7, <3>1, <3>2, EmitsCode
  <2>9. PICK w \in Nat : w = n + (0 - Takes(c, 1) + Leaves(c, 1)) /\ w >= 2
    BY <2>6
  <2>10. PICK k : Ends(b, k, w) /\ Grows(f, h, b, k)
    BY <2>8, <2>9
  <2>11. PICK l : g \in CompilersTyped /\ Ends(g, l, m) /\ Grows(b, k, g, l)
    <3>1. g = emit(b, <<Op("RETURN")>>)
      BY <2>1, <2>5
    <3> QED BY <2>5, <2>9, <2>10, <3>1, EmitsRETURN
  <2> QED BY <1>0, <2>5, <2>10, <2>11, GrowsOn
<1>2. CASE f.type = "initializer"
  <2>1. PICK c, d : c = <<Op("GET_LOCAL"), Byte(0)>> /\ d = <<Byte(0), Op("RETURN")>>
    OBVIOUS
  <2>2. /\ c \in Codes /\ c[1].op = "GET_LOCAL" /\ Decodes(c, 1) /\ Len(c) = 1 + OperandSize(c, 1)
        /\ ReadByte(c, 2) = 0
    <3>1. "GET_LOCAL" \in Bytes /\ 0 \in Int /\ 0 < Base
      BY Bytes_ DEF Bytes
    <3> QED BY <2>1, <3>1, TwoCells
  <2>3. d \in Codes /\ Len(d) = 2 /\ d[1].op = "operand"
    <3>1. Byte(0) \in Cells /\ Op("RETURN") \in Cells /\ Byte(0).op = "operand"
      BY ByteCell, OpCell, Bytes_ DEF Ops
    <3> QED BY <2>1, <3>1, Codes_
  <2>4. g = emit(f, c \o d)
    <3>1. c \o d = <<Op("GET_LOCAL"), Byte(0), Byte(0), Op("RETURN")>>
      <4>1. Op("GET_LOCAL") \in Cells /\ Op("RETURN") \in Cells /\ Byte(0) \in Cells
        BY OpCell, ByteCell, Bytes_ DEF Ops
      <4> QED BY <2>1, <4>1, CellsJoined
    <3> QED BY <1>2, <3>1 DEF emitReturn
  <2>5. PICK b : b = emit(f, c)
    OBVIOUS
  <2>6. b \in CompilersTyped /\ g = emit(b, d) /\ b.type = "initializer"
    <3>1. b.type = f.type
      BY <2>5 DEF emit
    <3> QED BY <1>2, <2>2, <2>3, <2>4, <2>5, <3>1, EmitTwice
  <2>7. Takes(c, 1) = 0 /\ Leaves(c, 1) = 1
    BY <2>2 DEF Takes, Leaves
  <2>8. c[1].op \notin Forward \cup {"LOOP", "CLOSURE"} /\ c[1].op \notin {"GET_UPVALUE", "SET_UPVALUE"}
    BY <2>2 DEF Forward
  <2>9. \E k : Ends(b, k, n + (0 - Takes(c, 1) + Leaves(c, 1))) /\ Grows(f, h, b, k)
    <3>1. Takes(c, 1) <= 0 /\ 0 \in Nat /\ n + 0 = n /\ n > 0
      BY <2>7
    <3>2. Ends(f, h, n + 0)
      BY <3>1
    <3>3. c[1].op \in {"GET_LOCAL", "SET_LOCAL"} => ReadByte(c, 2) < n
      BY <2>2, <3>1
    <3> QED BY <2>2, <2>5, <2>8, <3>1, <3>2, <3>3, EmitsCode
  <2>10. PICK w \in Nat : w = n + (0 - Takes(c, 1) + Leaves(c, 1))
    BY <2>7
  <2>11. PICK k : Ends(b, k, w) /\ Grows(f, h, b, k)
    BY <2>9, <2>10
  <2>12. PICK p \in Nat : p = Count(b) + 1
    BY <2>6, Counts
  <2>13. g \in CompilersTyped /\ g.type = "initializer" /\ g.code[p] = d[1]
    <3>1. /\ g \in CompilersTyped /\ g.type = b.type
          /\ \A j \in 1 .. Len(d) : g.code[Count(b) + j] = d[j]
      <4>1. d \in Codes
        BY <2>3
      <4> QED BY <2>6, <4>1, Behind
    <3> QED BY <2>3, <2>6, <2>12, <3>1
  <2>14. Dead(g, p)
    BY <2>3, <2>13 DEF Dead
  <2>15. OperandSize(g.code, p) = 0
    BY <2>14 DEF Dead, OperandSize, Shorts, Bytes
  <2>16. PICK l : Ends(g, l, m) /\ Grows(b, k, g, l)
    <3>1. Len(d) >= 1 + OperandSize(g.code, p)
      BY <2>3, <2>15
    <3>2. d \in Codes /\ g = emit(b, d) /\ b \in CompilersTyped
      BY <2>3, <2>6
    <3> QED BY <2>11, <2>12, <2>14, <3>1, <3>2, EmitsMore
  <2> QED BY <1>0, <2>6, <2>11, <2>13, <2>16, GrowsOn
<1> QED BY <1>1, <1>2

LEMMA OperandsStepCells ==
  ASSUME NEW s \in Codes, NEW m \in Nat, m = Len(s), NEW u \in Upvalues, NEW t, t = OperandsStep(u, s)
  PROVE  /\ t \in Codes /\ Len(t) = m + 3 /\ \A q \in 1 .. m : t[q] = s[q]
         /\ t[m + 1] = Byte(IF u.isLocal THEN 1 ELSE 0)
         /\ t[m + 2] = Short(u.index)[1] /\ t[m + 3] = Short(u.index)[2]
<1>1. PICK b, d : b = Byte(IF u.isLocal THEN 1 ELSE 0) /\ d = Short(u.index)
  OBVIOUS
<1>2. b \in Cells
  BY <1>1, ByteCell, Bytes_
<1>3. d \in Seq(Cells) /\ Len(d) = 2
  <2>1. u.index \in Int /\ u.index <= Base
    BY Bytes_ DEF Upvalues
  <2> QED BY <1>1, <2>1, Near, ShortCode DEF Codes
<1>41. PICK e : e = <<b>>
  OBVIOUS
<1>4. e = <<b>> /\ e \in Seq(Cells) /\ Len(e) = 1 /\ e[1] = b
  BY <1>2, <1>41
<1>5. PICK r : r = s \o e
  OBVIOUS
<1>6. r \in Seq(Cells) /\ Len(r) = m + 1 /\ \A q \in 1 .. m + 1 : r[q] = IF q <= m THEN s[q] ELSE e[q - m]
  <2>1. s \in Seq(Cells)
    BY DEF Codes
  <2> QED BY <1>4, <1>5, <2>1, ConcatProperties
<1>7. t = r \o d
  BY <1>1, <1>4, <1>5 DEF OperandsStep
<1>8. PICK l \in Nat : l = m + 1
  OBVIOUS
<1>9. t \in Seq(Cells) /\ Len(t) = l + 2 /\ \A q \in 1 .. l + 2 : t[q] = IF q <= l THEN r[q] ELSE d[q - l]
  <2>1. Len(r) = l /\ r \in Seq(Cells)
    BY <1>6, <1>8
  <2>2. /\ r \o d \in Seq(Cells) /\ Len(r \o d) = Len(r) + Len(d)
        /\ \A q \in 1 .. Len(r) + Len(d) : (r \o d)[q] = IF q <= Len(r) THEN r[q] ELSE d[q - Len(r)]
    BY <1>3, <2>1, ConcatProperties
  <2> QED BY <1>3, <1>7, <2>1, <2>2
<1>10. \A q \in 1 .. m : t[q] = s[q]
  BY <1>6, <1>8, <1>9
<1>11. t[l] = b
  <2>1. t[l] = r[l]
    BY <1>8, <1>9
  <2>2. r[l] = e[l - m] /\ l - m = 1
    BY <1>6, <1>8
  <2> QED BY <1>4, <2>1, <2>2
<1>12. ASSUME NEW i \in {1, 2}, NEW j, j = l + i PROVE t[j] = d[i]
  <2>1. j \in 1 .. l + 2 /\ ~(j <= l) /\ j - l = i
    BY <1>12
  <2>2. t[j] = d[j - l]
    BY <1>9, <2>1
  <2> QED BY <2>1, <2>2
<1>13. l + 1 = m + 2 /\ l + 2 = m + 3
  BY <1>8
<1>14. t[m + 2] = d[1] /\ t[m + 3] = d[2]
  <2>1. PICK j : j = l + 1
    OBVIOUS
  <2>2. PICK k : k = l + 2
    OBVIOUS
  <2> QED BY <1>12, <1>13, <2>1, <2>2
<1> QED BY <1>1, <1>8, <1>9, <1>10, <1>11, <1>13, <1>14 DEF Codes

(* The operands of a closure, from the cell before. *)
Listed(s, at, u) ==
  /\ s[at + 1] = Byte(IF u.isLocal THEN 1 ELSE 0)
  /\ s[at + 2] = Short(u.index)[1] /\ s[at + 3] = Short(u.index)[2]

LEMMA ClosureCells ==
  ASSUME NEW upvalues \in Seq(Upvalues), NEW n \in Nat, n = Len(upvalues), n <= UPVALUE_MAX
  PROVE  \E o \in Codes : /\ closureCode(upvalues) = WithShort("CLOSURE", n) \o o /\ Len(o) = 3 * n
                          /\ \A i \in 1 .. n : Listed(o, 3 * (i - 1), upvalues[i])
                          /\ \A q \in 1 .. 3 * n : o[q].op = "operand"
<1>1. PICK V : V = [j \in 0 .. n |-> {s \in Codes : /\ Len(s) = 3 * j /\ \A i \in 1 .. j : Listed(s, 3 * (i - 1), upvalues[i])
                                              /\ \A q \in 1 .. 3 * j : s[q].op = "operand"}]
  OBVIOUS
<1>2. <<>> \in V[0]
  <2>1. <<>> \in Codes /\ Len(<<>>) = 0
    BY Codes_
  <2>2. 0 \in 0 .. n /\ 3 * 0 = 0 /\ 1 .. 0 = {}
    OBVIOUS
  <2> QED BY <1>1, <2>1, <2>2
<1>3. ASSUME NEW j \in 1 .. n, NEW s \in V[j - 1] PROVE OperandsStep(upvalues[j], s) \in V[j]
  <2>1. PICK k \in Nat : k = j - 1 /\ k \in 0 .. n /\ j = k + 1
    OBVIOUS
  <2>2. /\ s \in Codes /\ Len(s) = 3 * k /\ \A i \in 1 .. k : Listed(s, 3 * (i - 1), upvalues[i])
        /\ \A q \in 1 .. 3 * k : s[q].op = "operand"
    BY <1>1, <2>1
  <2>3. PICK m \in Nat : m = 3 * k /\ 3 * j = m + 3 /\ 3 * (j - 1) = m
    BY <2>1
  <2>4. PICK u \in Upvalues : u = upvalues[j]
    BY ElementOfSeq
  <2>5. PICK t : t = OperandsStep(u, s)
    OBVIOUS
  <2>6. /\ t \in Codes /\ Len(t) = m + 3 /\ \A q \in 1 .. m : t[q] = s[q]
        /\ t[m + 1] = Byte(IF u.isLocal THEN 1 ELSE 0)
        /\ t[m + 2] = Short(u.index)[1] /\ t[m + 3] = Short(u.index)[2]
    <3>1. m = Len(s)
      BY <2>2, <2>3
    <3>2. s \in Codes
      BY <2>2
    <3> QED BY <2>5, <3>1, <3>2, OperandsStepCells
  <2>7. ASSUME NEW i \in 1 .. j PROVE Listed(t, 3 * (i - 1), upvalues[i])
    <3>1. CASE i = j
      <4>1. Listed(t, m, u)
        BY <2>6 DEF Listed
      <4> QED BY <2>3, <2>4, <3>1, <4>1
    <3>2. CASE i # j
      <4>1. i \in 1 .. k
        BY <2>1, <3>2
      <4>2. PICK a \in Nat : a = 3 * (i - 1) /\ a + 3 <= m
        BY <2>1, <2>3, <4>1
      <4>3. Listed(s, a, upvalues[i])
        BY <2>2, <4>1, <4>2
      <4>4. a + 1 \in 1 .. m /\ a + 2 \in 1 .. m /\ a + 3 \in 1 .. m
        BY <4>2
      <4>5. t[a + 1] = s[a + 1] /\ t[a + 2] = s[a + 2] /\ t[a + 3] = s[a + 3]
        BY <2>6, <4>4
      <4>6. Listed(t, a, upvalues[i])
        BY <4>3, <4>5 DEF Listed
      <4> QED BY <4>2, <4>6
    <3> QED BY <3>1, <3>2
  <2>9. ASSUME NEW q \in 1 .. m + 3 PROVE t[q].op = "operand"
    <3>1. CASE q \in 1 .. m
      <4>1. t[q] = s[q]
        BY <2>6, <3>1
      <4>2. s[q].op = "operand"
        BY <2>2, <2>3, <3>1
      <4> QED BY <4>1, <4>2
    <3>2. CASE q \notin 1 .. m
      <4>1. q = m + 1 \/ q = m + 2 \/ q = m + 3
        BY <3>2
      <4>2. t[m + 1].op = "operand" /\ t[m + 2].op = "operand" /\ t[m + 3].op = "operand"
        BY <2>6 DEF Short, Byte
      <4> QED BY <4>1, <4>2
    <3> QED BY <3>1, <3>2
  <2>8. t \in V[j]
    <3>1. j \in 0 .. n /\ Len(t) = 3 * j /\ \A q \in 1 .. 3 * j : t[q].op = "operand"
      BY <2>3, <2>6, <2>9
    <3> QED BY <1>1, <2>6, <2>7, <3>1
  <2> QED BY <2>4, <2>5, <2>8
<1>4. PICK o \in V[n] : closureCode(upvalues) = WithShort("CLOSURE", n) \o o
  BY <1>2, <1>3, OperandsWithin
<1>5. /\ o \in Codes /\ Len(o) = 3 * n /\ \A i \in 1 .. n : Listed(o, 3 * (i - 1), upvalues[i])
      /\ \A q \in 1 .. 3 * n : o[q].op = "operand"
  <2>1. n \in 0 .. n
    OBVIOUS
  <2> QED BY <1>1, <2>1
<1> QED BY <1>4, <1>5

LEMMA EmitsClosure ==
  ASSUME NEW f \in CompilersTyped, NEW h, NEW n \in Nat, n >= 1, Ends(f, h, n), NEW upvalues \in Seq(Upvalues),
         Len(upvalues) <= UPVALUE_MAX, \A i \in 1 .. Len(upvalues) : upvalues[i].isLocal => upvalues[i].index <= n,
         NEW g, g = emit(f, closureCode(upvalues))
  PROVE  g \in CompilersTyped /\ \E k : Ends(g, k, n + 1) /\ Grows(f, h, g, k)
<1>1. PICK l \in Nat : l = Len(upvalues) /\ l <= UPVALUE_MAX /\ l <= Base
  BY LenProperties, Bytes_
<1>2. PICK o \in Codes : /\ closureCode(upvalues) = WithShort("CLOSURE", l) \o o /\ Len(o) = 3 * l
                         /\ \A i \in 1 .. l : Listed(o, 3 * (i - 1), upvalues[i])
                         /\ \A q \in 1 .. 3 * l : o[q].op = "operand"
  BY <1>1, ClosureCells
<1>3. ~TooFar(l)
  BY <1>1, Near
<1>4. PICK w : w = WithShort("CLOSURE", l)
  OBVIOUS
<1>5. w \in Codes /\ Len(w) = 3 /\ w[1].op = "CLOSURE" /\ w[2] = Short(l)[1] /\ w[3] = Short(l)[2]
  <2>1. "CLOSURE" \in Ops
    BY DEF Ops
  <2> QED BY <1>3, <1>4, <2>1, ShortBehind
<1>6. PICK c : c = w \o o
  OBVIOUS
<1>7. c \in Codes /\ Len(c) = 3 + 3 * l /\ \A i \in 1 .. 3 + 3 * l : c[i] = IF i <= 3 THEN w[i] ELSE o[i - 3]
  <2>1. w \in Seq(Cells) /\ o \in Seq(Cells)
    BY <1>5 DEF Codes
  <2>2. /\ w \o o \in Seq(Cells) /\ Len(w \o o) = Len(w) + Len(o)
        /\ \A i \in 1 .. Len(w) + Len(o) : (w \o o)[i] = IF i <= Len(w) THEN w[i] ELSE o[i - Len(w)]
    BY <2>1, ConcatProperties
  <2> QED BY <1>2, <1>5, <1>6, <2>2 DEF Codes
<1>8. g = emit(f, c)
  BY <1>2, <1>4, <1>6
<1>9. PICK x \in Nat : x = Count(f)
  BY Counts
<1>10. PICK p \in Nat : p = x + 1
  OBVIOUS
<1>11. /\ g \in CompilersTyped /\ g.upvalues = f.upvalues
       /\ Count(g) = x + (3 + 3 * l) /\ Len(g.code) = x + (3 + 3 * l)
       /\ \A j \in 1 .. 3 + 3 * l : g.code[x + j] = c[j]
  <2>1. /\ g \in CompilersTyped /\ g.upvalues = f.upvalues
        /\ Count(g) = Count(f) + Len(c) /\ Len(g.code) = Count(g)
        /\ \A j \in 1 .. Len(c) : g.code[Count(f) + j] = c[j]
    <3>1. PICK d \in Codes : d = c
      BY <1>7
    <3>2. PICK b : b = emit(f, d)
      OBVIOUS
    <3>3. /\ b \in CompilersTyped /\ b.upvalues = f.upvalues
          /\ Count(b) = Count(f) + Len(d) /\ Len(b.code) = Count(b)
          /\ \A j \in 1 .. Len(d) : b.code[Count(f) + j] = d[j]
      BY <3>2, Behind
    <3>4. b = g
      BY <1>8, <3>1, <3>2
    <3> QED BY <3>1, <3>3, <3>4
  <2> QED BY <1>7, <1>9, <2>1
<1>12. g.code[p] = w[1] /\ g.code[p + 1] = w[2] /\ g.code[p + 1 + 1] = w[3]
  <2>1. g.code[x + 1] = w[1] /\ g.code[x + 2] = w[2] /\ g.code[x + 3] = w[3]
    BY <1>7, <1>11
  <2>2. x + 2 = p + 1 /\ x + 3 = p + 1 + 1
    BY <1>10
  <2> QED BY <1>10, <2>1, <2>2
<1>13. ASSUME NEW q \in 1 .. 3 * l, NEW r, r = p + 2 + q PROVE g.code[r] = o[q]
  <2>1. PICK j \in 1 .. 3 + 3 * l : j = 3 + q /\ ~(j <= 3) /\ j - 3 = q /\ r = x + j
    BY <1>10, <1>13
  <2>2. c[j] = o[j - 3]
    BY <1>7, <2>1
  <2> QED BY <1>11, <2>1, <2>2
<1>14. ReadShort(g.code, p + 1) = l /\ g.code[p + 1].op = "operand" /\ g.code[p + 1 + 1].op = "operand"
  <2>1. PICK y \in Int : y = p + 1
    OBVIOUS
  <2>2. ReadShort(g.code, y) = l /\ g.code[y].op = "operand" /\ g.code[y + 1].op = "operand"
    BY <1>3, <1>5, <1>12, <2>1, ShortReads
  <2> QED BY <2>1, <2>2
<1>15. g.code[p].op = "CLOSURE"
  BY <1>5, <1>12
<1>16. OperandSize(g.code, p) = 2 + 3 * l
  BY <1>14, <1>15 DEF OperandSize
<1>17. Whole(g.code, p)
  <2>1. ASSUME NEW q \in p + 1 .. p + (2 + 3 * l) PROVE g.code[q].op = "operand"
    <3>1. CASE q = p + 1 \/ q = p + 1 + 1
      BY <1>14, <3>1
    <3>2. CASE ~(q = p + 1 \/ q = p + 1 + 1)
      <4>1. PICK i \in 1 .. 3 * l : i = q - p - 2 /\ q = p + 2 + i
        BY <3>2
      <4>2. g.code[q] = o[i]
        BY <1>13, <4>1
      <4> QED BY <1>2, <4>2
    <3> QED BY <3>1, <3>2
  <2>2. p <= Len(g.code) /\ p + (2 + 3 * l) <= Len(g.code)
    BY <1>10, <1>11
  <2> QED BY <1>14, <1>15, <1>16, <2>1, <2>2 DEF Whole, Decodes
<1>18. ASSUME NEW i \in 1 .. l, NEW r, r = p + 3 * i
       PROVE  ReadByte(g.code, r) = 1 => ReadShort(g.code, r + 1) \in 0 .. n
  <2>1. PICK a \in Nat : a = 3 * (i - 1) /\ a + 3 <= 3 * l
    OBVIOUS
  <2>2. Listed(o, a, upvalues[i])
    BY <1>2, <2>1
  <2>3. r \in Int /\ r = p + 2 + (a + 1) /\ r + 1 = p + 2 + (a + 2) /\ r + 1 + 1 = p + 2 + (a + 3)
        /\ a + 1 \in 1 .. 3 * l /\ a + 2 \in 1 .. 3 * l /\ a + 3 \in 1 .. 3 * l
    BY <1>18, <2>1
  <2>4. g.code[r] = o[a + 1] /\ g.code[r + 1] = o[a + 2] /\ g.code[r + 1 + 1] = o[a + 3]
    BY <1>13, <2>3
  <2>5. PICK u \in Upvalues : u = upvalues[i]
    BY <1>1, ElementOfSeq
  <2>6. g.code[r] = Byte(IF u.isLocal THEN 1 ELSE 0) /\ g.code[r + 1] = Short(u.index)[1] /\ g.code[r + 1 + 1] = Short(u.index)[2]
    BY <2>2, <2>4, <2>5 DEF Listed
  <2>7. PICK d \in Nat : d = u.index /\ ~TooFar(d)
    <3>1. u.index \in Nat /\ u.index <= Base
      BY Bytes_ DEF Upvalues
    <3> QED BY <3>1, Near
  <2>8. ReadShort(g.code, r + 1) = d
    <3>1. PICK y \in Int : y = r + 1
      BY <2>3
    <3>2. ReadShort(g.code, y) = d
      BY <2>6, <2>7, <3>1, ShortReads
    <3> QED BY <3>1, <3>2
  <2>9. ReadByte(g.code, r) = 1 => u.isLocal
    BY <2>6 DEF ReadByte, Byte
  <2>10. u.isLocal => d <= n
    BY <1>1, <2>5, <2>7
  <2> QED BY <2>7, <2>8, <2>9, <2>10
<1>19. Captures(g.code, p) \subseteq 0 .. n
  <2>1. \A i \in 1 .. l : ReadByte(g.code, p + 3 * i) = 1 => ReadShort(g.code, p + 3 * i + 1) \in 0 .. n
    <3>1. TAKE i \in 1 .. l
    <3>2. PICK r : r = p + 3 * i
      OBVIOUS
    <3>3. ReadByte(g.code, r) = 1 => ReadShort(g.code, r + 1) \in 0 .. n
      BY <1>18, <3>2
    <3> QED BY <3>2, <3>3
  <2> QED BY <1>14, <1>15, <2>1 DEF Captures
<1>20. Takes(g.code, p) = 0 /\ Leaves(g.code, p) = 1 /\ Targets(g.code, p) = {Count(g) + 1}
  <2>1. p + 1 + OperandSize(g.code, p) = Count(g) + 1
    BY <1>10, <1>11, <1>16
  <2> QED BY <1>15, <2>1 DEF Takes, Leaves, Targets
<1>21. Executes(g, p, n)
  BY <1>15, <1>17, <1>19, <1>20 DEF Executes
<1>22. \E k : Ends(g, k, n + 1) /\ Grows(f, h, g, k)
  <2>1. Onward(g, h, p, n, n + 1)
    <3>1. n + 1 = n - Takes(g.code, p) + Leaves(g.code, p)
      BY <1>20
    <3> QED BY <1>20, <1>21, <3>1 DEF Onward
  <2>2. PICK m \in Nat : m = n + 1
    OBVIOUS
  <2>3. Len(c) >= 1 + OperandSize(g.code, p) /\ p = Count(f) + 1
    BY <1>7, <1>9, <1>10, <1>16
  <2>4. c \in Codes
    BY <1>7
  <2>5. Onward(g, h, p, n, m)
    BY <2>1, <2>2
  <2>6. \E k : Ends(g, k, m) /\ Grows(f, h, g, k)
    BY <1>8, <2>3, <2>4, <2>5, EmitsMore
  <2> QED BY <2>2, <2>6
<1> QED BY <1>11, <1>22

=============================================================================
