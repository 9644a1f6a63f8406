--------------------------- MODULE SessionProofs ----------------------------
(***************************************************************************)
(* Theorems about a session of any length, of any texts: lookups of lines  *)
(* are right, and operands denote what was compiled.  The invariants and   *)
(* what each operation does to them are in LinesProofs and PoolsProofs;    *)
(* here is that every step of the machine is one of those operations, in a *)
(* state where it may happen, or touches neither.  The second part is about*)
(* the REPL: the text interpreted is the text typed.  The third is about   *)
(* the scanner and the parser: what is skipped, the lines they count, that *)
(* tokens are those of the language reference, and what strings mean.      *)
(***************************************************************************)
EXTENDS Session, FiniteSetTheorems, SequenceTheorems, WellFoundedInduction, TLAPS

LP == INSTANCE LinesProofs
PP == INSTANCE PoolsProofs

SessionInv == LP!LinesHold /\ PP!PoolsHold

(* What the user and the REPL do before there is a text. *)
Typing ==
  \/ \E source \in Following \cap Typed : typeText(source)
  \/ \E first \in {"\n", "/help", "/eval"} : typeOther(first)
  \/ readLine

LEMMA InitHolds ==
  ASSUME Init
  PROVE  SessionInv
<1>1. ranges = <<>> /\ capacity = 0 /\ written = <<>> /\ search = LP!Idle
  BY DEF Init, L!Init, L!Idle, LP!Idle, L!NoLine, LP!NoLine
<1>2. PP!Init
  BY DEF Init, P!Init, PP!Init
<1> QED BY <1>1, <1>2, LP!EmptyHolds, PP!EmptyPoolsHold DEF SessionInv

LEMMA StepLines ==
  ASSUME LP!LinesHold, [Next]_vars
  PROVE  LP!LinesHold'
<1>1. CASE UNCHANGED lines
  BY <1>1, LP!StayHolds DEF lines, LP!vars
<1>2. CASE interpretLines \/ \E source \in Following : interpretFile(source)
  <2>1. ranges' = <<>> /\ capacity' = 0 /\ written' = <<>> /\ search' = LP!Idle
    BY <1>2 DEF interpretLines, interpretFile, interpret, L!Idle, LP!Idle, L!NoLine, LP!NoLine
  <2> QED BY <2>1, LP!EmptyLines
  DEF LP!LinesHold, LP!LinesInv, LP!LinesTypeOK, LP!Runs, LP!Searches, LP!RunsSorted, LP!RunsCover,
      LP!Window, LP!LineFound, LP!RunsFit, LP!Idle, LP!NoLine
<1>3. CASE emitByte
  <2>1. LP!chunk_write(previous.line)
    BY <1>3
    DEF emitByte, L!chunk_write, LP!chunk_write, L!Idle, LP!Idle, L!NoLine, LP!NoLine,
        L!lineArray_write, LP!lineArray_write, L!NeedsGrowth, LP!NeedsGrowth,
        L!GROW_CAPACITY, LP!GROW_CAPACITY, L!RunsAfter, LP!RunsAfter, L!LastRun, LP!LastRun
  <2> QED BY <2>1, SessionAssumption, LP!WriteHolds
<1>4. ASSUME NEW offset \in 0 .. Len(written) - 1, runtimeError(offset)
      PROVE  LP!LinesHold'
  <2>1. LP!getLine(offset)
    BY <1>4 DEF runtimeError, L!getLine, LP!getLine, L!Idle, LP!Idle, L!NoLine, LP!NoLine
  <2> QED BY <2>1, LP!LookupHolds
<1>5. CASE getLine
  <2>1. LP!Halve \/ LP!Conclude
    BY <1>5
    DEF getLine, L!Halve, LP!Halve, L!UpTo, LP!UpTo, L!Conclude, LP!Conclude, L!NoLine, LP!NoLine
  <2> QED BY <2>1, LP!LookupHolds
<1>6. CASE advance \/ endCompiler \/ finish \/ \E chars \in Made : newString(chars)
  BY <1>1, <1>6 DEF advance, endCompiler, finish, newString
<1>7. CASE string \/ number \/ function \/ instruction
  BY <1>1, <1>7 DEF string, number, function, instruction, emitBytes, tooManyConstants
<1>8. CASE Typing
  BY <1>1, <1>8 DEF Typing, typeText, typeOther, readLine
<1>9. CASE UNCHANGED vars
  BY <1>1, <1>9 DEF vars
<1> QED BY <1>2, <1>3, <1>4, <1>5, <1>6, <1>7, <1>8, <1>9 DEF Next, Typing

LEMMA StepPools ==
  ASSUME PP!PoolsHold, [Next]_vars
  PROVE  PP!PoolsHold'
<1>1. CASE UNCHANGED pools
  BY <1>1, PP!StayPoolsHold DEF pools, PP!vars
<1>2. PP!Sizes
  BY SessionAssumption DEF PP!Sizes
<1> USE DEF P!MakeConstant, PP!MakeConstant, P!emitConstantCommond, PP!emitConstantCommond,
            P!PooledIndex, PP!PooledIndex, P!MaskedIndex, PP!MaskedIndex, P!addConstant, PP!addConstant,
            P!IsNew, PP!IsNew, P!Intern, PP!Intern, P!With, PP!With, P!Fits, PP!Fits, P!Limit, PP!Limit
<1>3. CASE string
  <2>1. StringValue(previous)[1] = "string" /\ PP!emitString(StringValue(previous))
    BY <1>3 DEF string, StringValue, P!emitString, PP!emitString
  <2> QED BY <1>2, <2>1, PP!EmitHolds
<1>4. CASE number
  <2>1. NumberValue(previous)[1] = "number"
    BY <1>4 DEF number, NumberTypes, NumberValue, strtod, strtol, Number
  <2>2. PP!emitNumber(NumberValue(previous))
    BY <1>4 DEF number, P!emitNumber, PP!emitNumber
  <2> QED BY <1>2, <2>1, <2>2, PP!EmitHolds
<1>5. CASE function
  <2>1. PICK f : f[1] = "function" /\ PP!emitFunction(f)
    BY <1>5 DEF function, P!emitFunction, PP!emitFunction
  <2> QED BY <1>2, <2>1, PP!EmitHolds
<1>6. ASSUME NEW chars \in Made, newString(chars)
      PROVE  PP!PoolsHold'
  <2>1. <<"string", chars>>[1] = "string" /\ PP!copyString(<<"string", chars>>)
    BY <1>6 DEF newString, P!copyString, PP!copyString
  <2> QED BY <1>2, <2>1, PP!EmitHolds
<1>7. CASE \/ Typing \/ interpretLines \/ \E source \in Following : interpretFile(source)
           \/ \E offset \in 0 .. Len(written) - 1 : runtimeError(offset)
           \/ advance \/ emitByte \/ endCompiler \/ getLine \/ finish
  BY <1>1, <1>7
  DEF Typing, typeText, typeOther, readLine, interpretLines, interpretFile, interpret, runtimeError,
      advance, emitByte, endCompiler, getLine, finish
<1>8. CASE instruction
  BY <1>1, <1>8 DEF instruction
<1>9. CASE UNCHANGED vars
  BY <1>1, <1>9 DEF vars
<1> QED BY <1>3, <1>4, <1>5, <1>6, <1>7, <1>8, <1>9 DEF Next, Typing

(* Both invariants hold in every state of a session: the line table is      *)
(* written only while a text is compiled and looked up only after, and only *)
(* values with their kind reach the pools.                                  *)
THEOREM SessionKeeps == Spec => []SessionInv
<1>1. Init => SessionInv
  BY InitHolds
<1>2. SessionInv /\ [Next]_vars => SessionInv'
  BY StepLines, StepPools DEF SessionInv
<1> QED BY <1>1, <1>2, PTL DEF Spec

LEMMA SessionSound ==
  ASSUME SessionInv
  PROVE  LineFound /\ RunsFit /\ OperandsDenote /\ FunctionsDenote /\ Deduplicated
<1>1. LP!LineFound /\ LP!RunsFit
  BY LP!LinesSound DEF SessionInv
<1>2. PP!OperandsDenote /\ PP!FunctionsDenote /\ PP!Deduplicated
  BY PP!PoolsSound DEF SessionInv
<1>3. LineFound /\ RunsFit
  BY <1>1 DEF LineFound, L!LineFound, LP!LineFound, RunsFit, L!RunsFit, LP!RunsFit
<1>4. OperandsDenote /\ FunctionsDenote /\ Deduplicated
  BY <1>2
  DEF OperandsDenote, P!OperandsDenote, PP!OperandsDenote, FunctionsDenote, P!FunctionsDenote,
      PP!FunctionsDenote, Deduplicated, P!Deduplicated, PP!Deduplicated, P!Limit, PP!Limit
<1> QED BY <1>3, <1>4

(* A runtime error names the line the failing byte was written with, in any *)
(* chunk: the binary search of getLine never passes over the run.           *)
THEOREM LinesAreFound == Spec => []LineFound
BY SessionKeeps, SessionSound, PTL

(* The line table never writes a run outside its array. *)
THEOREM LineTableFits == Spec => []RunsFit
BY SessionKeeps, SessionSound, PTL

(* Until the table has more constants than an operand can name, operands    *)
(* denote what was compiled, across texts and strings made at run time.     *)
THEOREM ConstantsDenote == Spec => []OperandsDenote
BY SessionKeeps, SessionSound, PTL

(* A closure's operand denotes its function however many constants there are. *)
THEOREM ClosuresDenote == Spec => []FunctionsDenote
BY SessionKeeps, SessionSound, PTL

(* No string and no number ever gets a second constant. *)
THEOREM NoDuplicates == Spec => []Deduplicated
BY SessionKeeps, SessionSound, PTL

----------------------------------------------------------------------------
(* What is typed for a text. *)

LEMMA UpToN ==
  ASSUME NEW n \in Nat, NEW T,
         \A i \in 1 .. n : (\A k \in 1 .. i - 1 : k \in T) => i \in T
  PROVE  \A i \in 1 .. n : i \in T
<1> DEFINE W == {i \in 1 .. n : i \notin T}
<1>1. SUFFICES ASSUME W # {} PROVE FALSE
  OBVIOUS
<1>2. W \subseteq Nat
  OBVIOUS
<1>3. PICK m \in W : \A k \in W : ~ (<<k, m>> \in OpToRel(<, Nat))
  <2> HIDE DEF W
  <2> QED BY <1>1, <1>2, WFMin, NatLessThanWellFounded
<1>4. m \in 1 .. n /\ m \notin T
  BY <1>3
<1>5. \A k \in 1 .. m - 1 : k \in T
  <2>1. TAKE k \in 1 .. m - 1
  <2>2. k \in Nat /\ k < m /\ k \in 1 .. n /\ m \in Nat
    BY <1>4
  <2>3. k \in W => <<k, m>> \in OpToRel(<, Nat)
    BY <2>2 DEF OpToRel
  <2> QED BY <1>3, <2>2, <2>3
<1> QED BY <1>4, <1>5

(* f tells how far a sequence of sequences has been joined. *)
Joined(f, n, ss) == f = [i \in 1 .. n |-> IF i = 1 THEN ss[i] ELSE f[i - 1] \o ss[i]]

LEMMA JoinedExists ==
  ASSUME NEW n \in Nat, NEW ss
  PROVE  \E f : Joined(f, n, ss)
<1> DEFINE T == {m \in 1 .. n : \E f : Joined(f, m, ss)}
<1>1. ASSUME NEW m \in 1 .. n, \A k \in 1 .. m - 1 : k \in T PROVE m \in T
  <2>1. CASE m = 1
    <3>1. PICK f : f = [i \in 1 .. m |-> ss[i]]
      OBVIOUS
    <3>2. Joined(f, m, ss)
      BY <2>1, <3>1 DEF Joined
    <3> QED BY <3>2
  <2>2. CASE m # 1
    <3>1. m - 1 \in 1 .. m - 1 /\ m - 1 \in 1 .. n
      BY <2>2
    <3>2. PICK f : Joined(f, m - 1, ss)
      BY <1>1, <3>1
    <3>3. PICK v : v = f[m - 1] \o ss[m]
      OBVIOUS
    <3>4. PICK g : g = [i \in 1 .. m |-> IF i = m THEN v ELSE f[i]]
      OBVIOUS
    <3>5. g[m] = v /\ \A i \in 1 .. m - 1 : g[i] = f[i]
      BY <3>4
    <3>6. ASSUME NEW i \in 1 .. m PROVE g[i] = IF i = 1 THEN ss[i] ELSE g[i - 1] \o ss[i]
      <4>1. CASE i = m
        BY <2>2, <3>1, <3>3, <3>5, <4>1
      <4>2. CASE i # m
        <5>1. i \in 1 .. m - 1 /\ (i # 1 => i - 1 \in 1 .. m - 1)
          BY <4>2
        <5>2. f[i] = IF i = 1 THEN ss[i] ELSE f[i - 1] \o ss[i]
          BY <3>2, <5>1 DEF Joined
        <5> QED BY <3>5, <5>1, <5>2
      <4> QED BY <4>1, <4>2
    <3>7. Joined(g, m, ss)
      <4>1. g = [i \in 1 .. m |-> g[i]]
        BY <3>4
      <4> QED BY <3>6, <4>1 DEF Joined
    <3> QED BY <3>7
  <2> QED BY <2>1, <2>2
<1>2. \A m \in 1 .. n : m \in T
  <2> HIDE DEF T
  <2> QED BY <1>1, UpToN
<1>3. CASE n = 0
  <2>1. PICK f : f = [i \in 1 .. n |-> ss[i]]
    OBVIOUS
  <2>2. Joined(f, n, ss)
    BY <1>3, <2>1 DEF Joined
  <2> QED BY <2>2
<1>4. CASE n # 0
  BY <1>2, <1>4
<1> QED BY <1>3, <1>4

LEMMA FlattenJoins ==
  ASSUME NEW ss, Len(ss) \in Nat, Len(ss) # 0
  PROVE  \E f : Joined(f, Len(ss), ss) /\ FlattenSeq(ss) = f[Len(ss)]
<1>1. PICK f : f = CHOOSE g : Joined(g, Len(ss), ss)
  OBVIOUS
<1>2. Joined(f, Len(ss), ss)
  BY <1>1, JoinedExists
<1>3. FlattenSeq(ss) = f[Len(ss)]
  BY <1>1, Zenon DEF FlattenSeq, Joined
<1> QED BY <1>2, <1>3

Stroke(c) == IF c = "\n" THEN <<"\\", "\n">> ELSE <<c>>

LEMMA KeysJoin ==
  ASSUME NEW C, NEW s \in Seq(C), s # <<>>
  PROVE  \E f : /\ \A i \in 1 .. Len(s) : f[i] = IF i = 1 THEN Stroke(s[1]) ELSE f[i - 1] \o Stroke(s[i])
                /\ Keys(s) = f[Len(s)]
<1>1. PICK n : n = Len(s) /\ n \in Nat /\ n # 0 /\ DOMAIN s = 1 .. n
  BY LenProperties, EmptySeq
<1>2. PICK ss : ss = [i \in DOMAIN s |-> IF s[i] = "\n" THEN <<"\\", "\n">> ELSE <<s[i]>>]
  OBVIOUS
<1>3. Keys(s) = FlattenSeq(ss)
  BY <1>2 DEF Keys
<1>4. ss = [i \in 1 .. n |-> Stroke(s[i])] /\ \A i \in 1 .. n : ss[i] = Stroke(s[i])
  BY <1>1, <1>2 DEF Stroke
<1>5. Len(ss) = n
  <2>1. \A i \in 1 .. n : ss[i] \in {Stroke(s[k]) : k \in 1 .. n}
    BY <1>4
  <2>2. ss \in [1 .. n -> {Stroke(s[k]) : k \in 1 .. n}]
    BY <1>4
  <2> QED BY <1>1, <2>2, IsASeq, LenProperties
<1>6. PICK f : Joined(f, n, ss) /\ FlattenSeq(ss) = f[n]
  BY <1>1, <1>5, FlattenJoins
<1>7. \A i \in 1 .. n : f[i] = IF i = 1 THEN ss[i] ELSE f[i - 1] \o ss[i]
  BY <1>6 DEF Joined
<1>8. \A i \in 1 .. n : f[i] = IF i = 1 THEN Stroke(s[1]) ELSE f[i - 1] \o Stroke(s[i])
  BY <1>4, <1>7
<1> QED BY <1>1, <1>3, <1>6, <1>8

LEMMA KeysBegin ==
  ASSUME NEW C, NEW s \in Seq(C), NEW f, NEW n \in 0 .. Len(s), \A i \in 1 .. n : s[i] # "\n",
         \A i \in 1 .. Len(s) : f[i] = IF i = 1 THEN Stroke(s[1]) ELSE f[i - 1] \o Stroke(s[i])
  PROVE  \A i \in 1 .. n : f[i] = SubSeq(s, 1, i)
<1> DEFINE T == {i \in 1 .. n : f[i] = SubSeq(s, 1, i)}
<1>1. Len(s) \in Nat /\ n \in Nat
  BY LenProperties
<1>2. ASSUME NEW i \in 1 .. n, \A k \in 1 .. i - 1 : k \in T PROVE i \in T
  <2>1. i \in 1 .. Len(s) /\ 1 \in 1 .. Len(s) /\ i \in 1 .. Len(s)
    BY <1>1
  <2>2. Stroke(s[i]) = <<s[i]>>
    BY <1>2 DEF Stroke
  <2>3. SubSeq(s, 1, i) = SubSeq(s, 1, i - 1) \o <<s[i]>>
    BY <2>1, SubSeqRecursiveSecond
  <2>4. CASE i = 1
    <3>1. SubSeq(s, 1, i - 1) = <<>>
      BY <2>4, SubSeqEmpty
    <3>2. PICK u : u = <<s[i]>>
      OBVIOUS
    <3>3. s[i] \in C
      BY <2>1, ElementOfSeq
    <3>4. u \in Seq(C)
      BY <3>2, <3>3
    <3>5. <<>> \o u = u
      BY <3>4, ConcatEmptySeq
    <3> QED BY <2>1, <2>2, <2>3, <2>4, <3>1, <3>2, <3>5
  <2>5. CASE i # 1
    <3>1. i - 1 \in 1 .. i - 1
      BY <2>5
    <3>2. f[i - 1] = SubSeq(s, 1, i - 1)
      BY <1>2, <3>1
    <3> QED BY <2>1, <2>2, <2>3, <2>5, <3>2
  <2> QED BY <2>4, <2>5
<1>3. \A i \in 1 .. n : i \in T
  <2> HIDE DEF T
  <2> QED BY <1>1, <1>2, UpToN
<1> QED BY <1>3

(* A line is typed as it is. *)
LEMMA KeysOfLine ==
  ASSUME NEW C, NEW s \in Seq(C), s # <<>>, \A i \in 1 .. Len(s) : s[i] # "\n"
  PROVE  Keys(s) = s
<1>1. PICK f : /\ \A i \in 1 .. Len(s) : f[i] = IF i = 1 THEN Stroke(s[1]) ELSE f[i - 1] \o Stroke(s[i])
               /\ Keys(s) = f[Len(s)]
  BY KeysJoin
<1>2. Len(s) \in 1 .. Len(s) /\ Len(s) \in 0 .. Len(s)
  BY EmptySeq, LenProperties
<1>3. f[Len(s)] = SubSeq(s, 1, Len(s))
  BY <1>1, <1>2, KeysBegin
<1> QED BY <1>1, <1>3, SubSeqFull

Strokes(C) == C \cup {"\\", "\n"}

LEMMA StrokeTyped ==
  ASSUME NEW C, NEW c \in C
  PROVE  Stroke(c) \in Seq(Strokes(C))
<1>1. c \in Strokes(C) /\ "\\" \in Strokes(C) /\ "\n" \in Strokes(C)
  BY DEF Strokes
<1>2. <<c>> \in Seq(Strokes(C)) /\ <<"\\", "\n">> \in Seq(Strokes(C))
  <2> HIDE DEF Strokes
  <2> QED BY <1>1
<1> QED BY <1>2 DEF Stroke

LEMMA KeysTyped ==
  ASSUME NEW C, NEW s \in Seq(C), NEW f,
         \A i \in 1 .. Len(s) : f[i] = IF i = 1 THEN Stroke(s[1]) ELSE f[i - 1] \o Stroke(s[i])
  PROVE  \A i \in 1 .. Len(s) : f[i] \in Seq(Strokes(C))
<1> DEFINE T == {i \in 1 .. Len(s) : f[i] \in Seq(Strokes(C))}
<1>1. Len(s) \in Nat
  BY LenProperties
<1>2. ASSUME NEW i \in 1 .. Len(s), \A k \in 1 .. i - 1 : k \in T PROVE i \in T
  <2>1. Stroke(s[i]) \in Seq(Strokes(C))
    BY ElementOfSeq, StrokeTyped
  <2>2. CASE i = 1
    BY <2>1, <2>2
  <2>3. CASE i # 1
    <3>1. f[i - 1] \in Seq(Strokes(C))
      BY <1>2, <2>3
    <3>2. f[i - 1] \o Stroke(s[i]) \in Seq(Strokes(C))
      BY <2>1, <3>1, ConcatProperties
    <3> QED BY <2>3, <3>2
  <2> QED BY <2>2, <2>3
<1>3. \A i \in 1 .. Len(s) : i \in T
  <2> HIDE DEF T
  <2> QED BY <1>1, <1>2, UpToN
<1> QED BY <1>3

LEMMA ConcatThree ==
  ASSUME NEW D, NEW a \in Seq(D), NEW b \in Seq(D), NEW c \in Seq(D)
  PROVE  (a \o b) \o c = a \o (b \o c)
BY ConcatAssociative

(* The parts of w joined: alone by g, behind q by h. *)
BothJoin(D, n, q, w, g, h) ==
  /\ \A i \in 1 .. n : w[i] \in Seq(D) /\ g[i] \in Seq(D)
  /\ \A i \in 1 .. n : g[i] = IF i = 1 THEN w[1] ELSE g[i - 1] \o w[i]
  /\ h[0] = q /\ \A i \in 1 .. n : h[i] = h[i - 1] \o w[i]

LEMMA JoinedBehind ==
  ASSUME NEW D, NEW n \in Nat, NEW q \in Seq(D), NEW w, NEW g, NEW h, BothJoin(D, n, q, w, g, h)
  PROVE  \A i \in 1 .. n : h[i] = q \o g[i]
<1>1. \A a, b, c \in Seq(D) : (a \o b) \o c = a \o (b \o c)
  BY ConcatThree
<1> DEFINE T == {i \in 1 .. n : h[i] = q \o g[i]}
<1>2. ASSUME NEW i \in 1 .. n, \A k \in 1 .. i - 1 : k \in T PROVE i \in T
  <2>1. CASE i = 1
    <3>1. i - 1 = 0
      BY <2>1
    <3> QED BY <2>1, <3>1 DEF BothJoin
  <2>2. CASE i # 1
    <3>1. i - 1 \in 1 .. i - 1 /\ i - 1 \in 1 .. n
      BY <2>2
    <3>2. h[i - 1] = q \o g[i - 1] /\ g[i] = g[i - 1] \o w[i] /\ h[i] = h[i - 1] \o w[i]
      BY <1>2, <2>2, <3>1 DEF BothJoin
    <3>3. (q \o g[i - 1]) \o w[i] = q \o (g[i - 1] \o w[i])
      <4>1. g[i - 1] \in Seq(D) /\ w[i] \in Seq(D)
        BY <3>1 DEF BothJoin
      <4> QED BY <1>1, <4>1
    <3> QED BY <3>2, <3>3
  <2> QED BY <2>1, <2>2
<1>3. \A i \in 1 .. n : i \in T
  <2> HIDE DEF T
  <2> QED BY <1>2, UpToN
<1> QED BY <1>3

(* A text is typed line after line, with a backslash before each newline. *)
LEMMA KeysOfLines ==
  ASSUME NEW C, NEW s \in Seq(C), NEW p \in 1 .. Len(s) - 1, s[p] = "\n", \A i \in 1 .. p - 1 : s[i] # "\n",
         NEW t \in Seq(C), Len(t) = Len(s) - p, \A i \in 1 .. Len(t) : t[i] = s[p + i]
  PROVE  /\ Keys(t) \in Seq(Strokes(C))
         /\ Keys(s) = (SubSeq(s, 1, p - 1) \o <<"\\", "\n">>) \o Keys(t)
<1>1. /\ Len(s) \in Nat /\ p \in Nat /\ p \in 1 .. Len(s) /\ p - 1 \in 0 .. Len(s) /\ s # <<>>
      /\ \A i \in 1 .. Len(s) : s[i] \in C
  BY LenProperties, EmptySeq, ElementOfSeq
<1>2. t \in Seq(C) /\ Len(t) = Len(s) - p /\ \A i \in 1 .. Len(t) : t[i] = s[p + i]
  OBVIOUS
<1>3. Len(t) \in Nat /\ Len(t) \in 1 .. Len(t) /\ t # <<>>
  <2>1. Len(t) \in Nat /\ Len(t) # 0
    BY <1>1, <1>2
  <2>2. Len(<<>>) = 0
    BY EmptySeq
  <2> QED BY <2>1, <2>2
<1>4. PICK f : /\ \A i \in 1 .. Len(s) : f[i] = IF i = 1 THEN Stroke(s[1]) ELSE f[i - 1] \o Stroke(s[i])
               /\ Keys(s) = f[Len(s)]
  BY <1>1, KeysJoin
<1>5. PICK g : /\ \A i \in 1 .. Len(t) : g[i] = IF i = 1 THEN Stroke(t[1]) ELSE g[i - 1] \o Stroke(t[i])
               /\ Keys(t) = g[Len(t)]
  BY <1>2, <1>3, KeysJoin
<1>6. \A i \in 1 .. Len(t) : g[i] \in Seq(Strokes(C))
  BY <1>2, <1>5, KeysTyped
<1>7. \A i \in 1 .. Len(s) : f[i] \in Seq(Strokes(C))
  BY <1>4, KeysTyped
<1>8. f[p] = SubSeq(s, 1, p - 1) \o <<"\\", "\n">>
  <2>1. Stroke(s[p]) = <<"\\", "\n">>
    BY DEF Stroke
  <2>2. CASE p = 1
    <3>1. SubSeq(s, 1, p - 1) = <<>>
      BY <2>2, SubSeqEmpty
    <3>2. <<"\\", "\n">> \in Seq({"\\", "\n"})
      OBVIOUS
    <3>3. <<>> \o <<"\\", "\n">> = <<"\\", "\n">>
      BY <3>2, ConcatEmptySeq
    <3> QED BY <1>1, <1>4, <2>1, <2>2, <3>1, <3>3
  <2>3. CASE p # 1
    <3>1. p - 1 \in 1 .. p - 1
      BY <1>1, <2>3
    <3>2. f[p - 1] = SubSeq(s, 1, p - 1)
      BY <1>1, <1>4, <3>1, KeysBegin
    <3> QED BY <1>1, <1>4, <2>1, <2>3, <3>2
  <2> QED BY <2>2, <2>3
<1>9. PICK h, w : h = [i \in 0 .. Len(t) |-> f[p + i]] /\ w = [i \in 1 .. Len(t) |-> Stroke(t[i])]
  OBVIOUS
<1>10. \A i \in 1 .. Len(t) : h[i] = f[p] \o g[i]
  <2>1. h[0] = f[p]
    <3>1. 0 \in 0 .. Len(t) /\ p + 0 = p
      BY <1>1, <1>3
    <3> QED BY <1>9, <3>1
  <2>2. ASSUME NEW i \in 1 .. Len(t) PROVE h[i] = h[i - 1] \o w[i]
    <3>1. /\ p + i \in 1 .. Len(s) /\ p + i # 1 /\ (p + i) - 1 = p + (i - 1) /\ s[p + i] = t[i]
          /\ i \in 0 .. Len(t) /\ i - 1 \in 0 .. Len(t)
      BY <1>1, <1>2
    <3>2. f[p + i] = f[(p + i) - 1] \o Stroke(s[p + i])
      BY <1>4, <3>1
    <3>3. h[i] = f[p + i] /\ h[i - 1] = f[p + (i - 1)] /\ w[i] = Stroke(t[i])
      BY <1>9, <3>1
    <3> QED BY <3>1, <3>2, <3>3
  <2>3. ASSUME NEW i \in 1 .. Len(t) PROVE g[i] = IF i = 1 THEN w[1] ELSE g[i - 1] \o w[i]
    <3>1. w[i] = Stroke(t[i])
      BY <1>9
    <3> QED BY <1>5, <3>1
  <2>4. ASSUME NEW i \in 1 .. Len(t) PROVE w[i] \in Seq(Strokes(C)) /\ g[i] \in Seq(Strokes(C))
    BY <1>2, <1>6, <1>9, ElementOfSeq, StrokeTyped
  <2>5. f[p] \in Seq(Strokes(C))
    BY <1>1, <1>7
  <2>6. PICK D, q, n : D = Strokes(C) /\ q = f[p] /\ n = Len(t)
    OBVIOUS
  <2>7. n \in Nat /\ q \in Seq(D) /\ h[0] = q
    BY <1>3, <2>1, <2>5, <2>6
  <2>8. \A i \in 1 .. n : w[i] \in Seq(D) /\ g[i] \in Seq(D)
    BY <2>4, <2>6
  <2>9. \A i \in 1 .. n : g[i] = IF i = 1 THEN w[1] ELSE g[i - 1] \o w[i]
    BY <2>3, <2>6
  <2>10. \A i \in 1 .. n : h[i] = h[i - 1] \o w[i]
    BY <2>2, <2>6
  <2>11. \A i \in 1 .. n : h[i] = q \o g[i]
    <3>1. BothJoin(D, n, q, w, g, h)
      BY <2>7, <2>8, <2>9, <2>10 DEF BothJoin
    <3> QED BY <2>7, <3>1, JoinedBehind
  <2> QED BY <2>6, <2>11
<1>11. f[Len(s)] = f[p] \o g[Len(t)]
  <2>1. Len(t) \in 0 .. Len(t) /\ p + Len(t) = Len(s)
    BY <1>1, <1>2, <1>3
  <2> QED BY <1>3, <1>9, <1>10, <2>1
<1>12. g[Len(t)] \in Seq(Strokes(C))
  BY <1>3, <1>6
<1> QED BY <1>4, <1>5, <1>8, <1>11, <1>12

----------------------------------------------------------------------------
(* The lines of what is typed. *)

LinesFit(source) ==
  \A i, j \in DOMAIN source : j - i >= LineSize - 2 => \E k \in i .. j - 1 : source[k] = "\n"
Proper(source) ==
  source \in Seq(S!Char) /\ source # <<>> /\ source[Len(source)] \notin {"\n", "\\"} /\ LinesFit(source)

Whole(source) == Keys(source) \o <<"\n">>
NoNewline(u) == \A i \in 1 .. Len(u) : u[i] # "\n"

(* The text begins with the line a and goes on with t... *)
Begins(source, a, t) ==
  /\ a \in Seq(S!Char) /\ NoNewline(a) /\ Len(a) + 2 < LineSize
  /\ Proper(t) /\ source = (a \o <<"\n">>) \o t
  /\ Whole(source) = (a \o <<"\\", "\n">>) \o Whole(t)
(* ... or is one line. *)
Alone(source) == NoNewline(source) /\ Len(source) + 1 < LineSize /\ Whole(source) = source \o <<"\n">>

LEMMA FirstNewline ==
  ASSUME NEW s, NEW n \in Nat, NEW i \in 1 .. n, s[i] = "\n"
  PROVE  \E p \in 1 .. n : s[p] = "\n" /\ \A k \in 1 .. p - 1 : s[k] # "\n"
<1> DEFINE T == {p \in 1 .. n : ~(s[p] = "\n")}
<1>1. SUFFICES ASSUME ~ \E p \in 1 .. n : s[p] = "\n" /\ \A k \in 1 .. p - 1 : s[k] # "\n"
               PROVE  FALSE
  OBVIOUS
<1>2. ASSUME NEW p \in 1 .. n, \A k \in 1 .. p - 1 : k \in T PROVE p \in T
  BY <1>1, <1>2
<1>3. \A p \in 1 .. n : p \in T
  <2> HIDE DEF T
  <2> QED BY <1>2, UpToN
<1> QED BY <1>3

LEMMA TailFits ==
  ASSUME NEW C, NEW s \in Seq(C), NEW t \in Seq(C), NEW p \in Nat, Len(t) = Len(s) - p,
         \A i \in 1 .. Len(t) : t[i] = s[p + i], LinesFit(s)
  PROVE  LinesFit(t)
<1>1. DOMAIN s = 1 .. Len(s) /\ DOMAIN t = 1 .. Len(t) /\ Len(s) \in Nat /\ Len(t) \in Nat
  BY LenProperties
<1>2. ASSUME NEW i \in DOMAIN t, NEW j \in DOMAIN t, j - i >= LineSize - 2
      PROVE  \E k \in i .. j - 1 : t[k] = "\n"
  <2>1. /\ p + i \in DOMAIN s /\ p + j \in DOMAIN s /\ (p + j) - (p + i) = j - i
        /\ i \in Nat /\ j \in Nat /\ i \in 1 .. Len(t) /\ j \in 1 .. Len(t)
    BY <1>1
  <2>2. (p + j) - (p + i) >= LineSize - 2
    BY <1>2, <2>1
  <2>3. PICK k \in p + i .. p + j - 1 : s[k] = "\n"
    <3>1. PICK x, y : x = p + i /\ y = p + j
      OBVIOUS
    <3>2. x \in DOMAIN s /\ y \in DOMAIN s /\ y - x >= LineSize - 2
      BY <2>1, <2>2, <3>1
    <3>3. \E k \in x .. y - 1 : s[k] = "\n"
      BY <3>2 DEF LinesFit
    <3> QED BY <3>1, <3>3
  <2>4. PICK m : m = k - p
    OBVIOUS
  <2>5. m \in i .. j - 1 /\ m \in 1 .. Len(t) /\ p + m = k
    BY <1>1, <2>1, <2>4
  <2>6. t[m] = s[p + m]
    BY <2>5
  <2> QED BY <2>3, <2>5, <2>6
<1> QED BY <1>2 DEF LinesFit

LEMMA OneLine ==
  ASSUME NEW s, Proper(s), NoNewline(s)
  PROVE  Alone(s)
<1>1. s \in Seq(S!Char) /\ s # <<>>
  BY DEF Proper
<1>2. Len(s) \in Nat /\ Len(s) # 0 /\ DOMAIN s = 1 .. Len(s)
  BY <1>1, LenProperties, EmptySeq
<1>3. Whole(s) = s \o <<"\n">>
  BY <1>1, KeysOfLine DEF Whole, NoNewline
<1>4. LineSize \in Nat
  BY SessionAssumption
<1>5. Len(s) + 1 < LineSize
  <2>1. SUFFICES ASSUME ~(Len(s) + 1 < LineSize) PROVE FALSE
    OBVIOUS
  <2>2. 1 \in DOMAIN s /\ Len(s) \in DOMAIN s /\ Len(s) - 1 >= LineSize - 2
    BY <1>2, <1>4, <2>1
  <2>3. PICK k \in 1 .. Len(s) - 1 : s[k] = "\n"
    BY <2>2 DEF Proper, LinesFit
  <2> QED BY <1>2, <2>3 DEF NoNewline
<1> QED BY <1>3, <1>5 DEF Alone

LEMMA ManyLines ==
  ASSUME NEW s, Proper(s), NEW p \in 1 .. Len(s), s[p] = "\n", \A k \in 1 .. p - 1 : s[k] # "\n"
  PROVE  \E a, t : Begins(s, a, t)
<1>1. s \in Seq(S!Char) /\ LinesFit(s) /\ s[Len(s)] \notin {"\n", "\\"}
  BY DEF Proper
<1>2. /\ Len(s) \in Nat /\ DOMAIN s = 1 .. Len(s) /\ \A i \in 1 .. Len(s) : s[i] \in S!Char
  BY <1>1, LenProperties, ElementOfSeq
<1>3. p \in Nat /\ p \in 1 .. Len(s) - 1
  <2>1. p # Len(s)
    BY <1>1
  <2>2. PICK n : n = Len(s)
    OBVIOUS
  <2>3. n \in Nat /\ p \in 1 .. n /\ p # n
    BY <1>2, <2>1, <2>2
  <2>4. p \in Nat /\ p \in 1 .. n - 1
    BY <2>3
  <2> QED BY <2>2, <2>4
<1>4. PICK a : a = SubSeq(s, 1, p - 1)
  OBVIOUS
<1>5. PICK t : t = SubSeq(s, p + 1, Len(s))
  OBVIOUS
<1>6. a \in Seq(S!Char) /\ Len(a) = p - 1 /\ \A i \in 1 .. Len(a) : a[i] = s[i]
  <2>1. \A i \in 1 .. p - 1 : s[i] \in S!Char
    BY <1>2, <1>3
  <2>2. /\ a \in Seq(S!Char) /\ Len(a) = IF 1 <= p - 1 THEN p - 1 - 1 + 1 ELSE 0
        /\ \A i \in 1 .. p - 1 - 1 + 1 : a[i] = s[1 + i - 1]
    BY <1>3, <1>4, <2>1, SubSeqProperties
  <2> QED BY <1>3, <2>2
<1>7. t \in Seq(S!Char) /\ Len(t) = Len(s) - p /\ \A i \in 1 .. Len(t) : t[i] = s[p + i]
  <2>1. \A i \in p + 1 .. Len(s) : s[i] \in S!Char
    BY <1>2, <1>3
  <2>2. /\ t \in Seq(S!Char) /\ Len(t) = IF p + 1 <= Len(s) THEN Len(s) - (p + 1) + 1 ELSE 0
        /\ \A i \in 1 .. Len(s) - (p + 1) + 1 : t[i] = s[(p + 1) + i - 1]
    BY <1>2, <1>3, <1>5, <2>1, SubSeqProperties
  <2> QED BY <1>2, <1>3, <2>2
<1>8. NoNewline(a)
  BY <1>3, <1>6 DEF NoNewline
<1>9. Len(a) + 2 < LineSize
  <2>1. LineSize \in Nat
    BY SessionAssumption
  <2>2. SUFFICES ASSUME ~(Len(a) + 2 < LineSize) PROVE FALSE
    OBVIOUS
  <2>3. 1 \in DOMAIN s /\ p \in DOMAIN s /\ p - 1 >= LineSize - 2
    BY <1>2, <1>3, <1>6, <2>1, <2>2
  <2>4. PICK k \in 1 .. p - 1 : s[k] = "\n"
    BY <1>1, <2>3 DEF LinesFit
  <2> QED BY <2>4
<1>10. Proper(t)
  <2>1. LinesFit(t)
    BY <1>1, <1>3, <1>7, TailFits
  <2>2. Len(t) \in 1 .. Len(t) /\ p + Len(t) = Len(s) /\ Len(t) # 0
    <3>1. PICK n, m : n = Len(s) /\ m = Len(t)
      OBVIOUS
    <3>2. n \in Nat /\ p \in 1 .. n - 1 /\ m = n - p
      BY <1>2, <1>3, <1>7, <3>1
    <3>3. m \in 1 .. m /\ p + m = n /\ m # 0
      BY <3>2
    <3> QED BY <3>1, <3>3
  <2>3. t[Len(t)] = s[Len(s)] /\ t # <<>>
    BY <1>7, <2>2, EmptySeq
  <2> QED BY <1>1, <1>7, <2>1, <2>3 DEF Proper
<1>11. s = (a \o <<"\n">>) \o t
  <2>1. SubSeq(s, 1, p) = a \o <<"\n">>
    BY <1>1, <1>2, <1>3, <1>4, SubSeqRecursiveSecond
  <2>2. SubSeq(s, 1, p) \o SubSeq(s, p + 1, Len(s)) = SubSeq(s, 1, Len(s))
    BY <1>1, <1>2, <1>3, ConcatAdjacentSubSeq
  <2> QED BY <1>1, <1>5, <2>1, <2>2, SubSeqFull
<1>12. \A u, v, w \in Seq(Strokes(S!Char)) : (u \o v) \o w = u \o (v \o w)
  BY ConcatThree
<1>13. Whole(s) = (a \o <<"\\", "\n">>) \o Whole(t)
  <2>1. /\ Keys(t) \in Seq(Strokes(S!Char))
        /\ Keys(s) = (a \o <<"\\", "\n">>) \o Keys(t)
    BY <1>1, <1>3, <1>4, <1>7, KeysOfLines
  <2>2. PICK b : b = a \o <<"\\", "\n">> /\ b \in Seq(Strokes(S!Char))
    <3>1. a \in Seq(Strokes(S!Char))
      BY <1>6, SeqMonotonic DEF Strokes
    <3>2. "\\" \in Strokes(S!Char) /\ "\n" \in Strokes(S!Char)
      BY DEF Strokes
    <3>3. <<"\\", "\n">> \in Seq(Strokes(S!Char))
      BY <3>2
    <3> QED BY <3>1, <3>3, ConcatProperties
  <2>3. <<"\n">> \in Seq(Strokes(S!Char))
    <3>1. "\n" \in Strokes(S!Char)
      BY DEF Strokes
    <3> QED BY <3>1
  <2>4. (b \o Keys(t)) \o <<"\n">> = b \o (Keys(t) \o <<"\n">>)
    BY <1>12, <2>1, <2>2, <2>3
  <2> QED BY <2>1, <2>2, <2>4 DEF Whole
<1> QED BY <1>6, <1>8, <1>9, <1>10, <1>11, <1>13 DEF Begins

LEMMA FirstLine ==
  ASSUME NEW s, Proper(s)
  PROVE  Alone(s) \/ \E a, t : Begins(s, a, t)
<1>1. Len(s) \in Nat
  BY LenProperties DEF Proper
<1>2. CASE NoNewline(s)
  BY <1>2, OneLine
<1>3. CASE ~NoNewline(s)
  <2>1. PICK i \in 1 .. Len(s) : s[i] = "\n"
    BY <1>3 DEF NoNewline
  <2>2. PICK p \in 1 .. Len(s) : s[p] = "\n" /\ \A k \in 1 .. p - 1 : s[k] # "\n"
    BY <1>1, <2>1, FirstNewline
  <2> QED BY <2>2, ManyLines
<1> QED BY <1>2, <1>3

LEMMA WholeTyped ==
  ASSUME NEW s, Proper(s)
  PROVE  Whole(s) \in Seq(Strokes(S!Char))
<1>1. s \in Seq(S!Char) /\ s # <<>>
  BY DEF Proper
<1>2. PICK f : /\ \A i \in 1 .. Len(s) : f[i] = IF i = 1 THEN Stroke(s[1]) ELSE f[i - 1] \o Stroke(s[i])
               /\ Keys(s) = f[Len(s)]
  BY <1>1, KeysJoin
<1>3. \A i \in 1 .. Len(s) : f[i] \in Seq(Strokes(S!Char))
  BY <1>1, <1>2, KeysTyped
<1>4. Len(s) \in 1 .. Len(s)
  BY <1>1, EmptySeq, LenProperties
<1>5. Keys(s) \in Seq(Strokes(S!Char))
  BY <1>2, <1>3, <1>4
<1>6. "\n" \in Strokes(S!Char)
  BY DEF Strokes
<1>7. <<"\n">> \in Seq(Strokes(S!Char))
  BY <1>6
<1> QED BY <1>5, <1>7, ConcatProperties DEF Whole

----------------------------------------------------------------------------
(* What the REPL reads. *)

Others == {"\n", "/help", "/eval"}
Keyboard == Strokes(S!Char) \cup Others

LEMMA LineRead ==
  ASSUME NEW x \in Seq(Keyboard), NEW y \in Seq(Keyboard), x # <<>>, Len(x) < LineSize, x[Len(x)] = "\n",
         \A i \in 1 .. Len(x) - 1 : x[i] # "\n", input = x \o y
  PROVE  R!LineLen = Len(x) /\ R!Line = x /\ SubSeq(input, R!LineLen + 1, Len(input)) = y
<1>1. PICK u, m : u = input /\ m = Len(x)
  OBVIOUS
<1>2. m \in Nat /\ m # 0 /\ Len(y) \in Nat
  BY <1>1, EmptySeq, LenProperties
<1>3. /\ u \in Seq(Keyboard) /\ Len(u) = m + Len(y)
      /\ \A i \in 1 .. m + Len(y) : u[i] = IF i <= m THEN x[i] ELSE y[i - m]
  BY <1>1, ConcatProperties
<1>4. m \in 1 .. Len(u) /\ u[m] = "\n" /\ m < LineSize /\ \A i \in 1 .. m - 1 : u[i] # "\n"
  <2>1. m \in 1 .. Len(u) /\ m \in 1 .. m + Len(y) /\ m <= m
    BY <1>2, <1>3
  <2>2. ASSUME NEW i \in 1 .. m - 1 PROVE u[i] # "\n"
    <3>1. i \in 1 .. m + Len(y) /\ i <= m /\ i \in 1 .. Len(x) - 1
      BY <1>1, <1>2
    <3> QED BY <1>3, <3>1
  <2> QED BY <1>1, <1>3, <2>1, <2>2
<1>5. \A n \in 1 .. Len(u) :
        (u[n] = "\n" \/ n = LineSize - 1 \/ n = Len(u)) /\ n < LineSize /\ (\A i \in 1 .. n - 1 : u[i] # "\n") <=> n = m
  <2>1. TAKE n \in 1 .. Len(u)
  <2>2. LineSize \in Nat /\ n \in Nat /\ Len(u) \in Nat
    BY <1>2, <1>3, SessionAssumption
  <2>3. CASE n < m
    <3>1. n \in 1 .. m - 1 /\ n # LineSize - 1 /\ n # Len(u) /\ n # m
      BY <1>2, <1>4, <2>2, <2>3
    <3> QED BY <1>4, <3>1
  <2>4. CASE m < n
    <3>1. m \in 1 .. n - 1 /\ n # m
      BY <1>2, <2>2, <2>4
    <3> QED BY <1>4, <3>1
  <2>5. CASE m = n
    BY <1>4, <2>5
  <2> QED BY <1>2, <2>2, <2>3, <2>4, <2>5
<1>6. R!LineLen = m
  <2>1. R!LineLen = CHOOSE n \in 1 .. Len(u) :
                      /\ u[n] = "\n" \/ n = LineSize - 1 \/ n = Len(u)
                      /\ n < LineSize /\ \A i \in 1 .. n - 1 : u[i] # "\n"
    BY <1>1 DEF R!LineLen
  <2>2. R!LineLen = CHOOSE n \in 1 .. Len(u) : n = m
    BY <1>5, <2>1
  <2> QED BY <1>4, <2>2
<1>7. R!Line = x
  <2>1. SubSeq(x \o y, 1, m) = SubSeq(x, 1, m)
    <3>1. 1 \in 1 .. Len(x) /\ m \in 1 .. Len(x)
      BY <1>1, <1>2
    <3> QED BY <3>1, SubSeqOfConcat1
  <2> QED BY <1>1, <1>6, <2>1, SubSeqFull DEF R!Line
<1>8. SubSeq(u, m + 1, Len(u)) = y
  <2>1. CASE y = <<>>
    <3>1. Len(u) < m + 1
      BY <1>2, <1>3, <2>1, EmptySeq
    <3> QED BY <1>2, <1>3, <2>1, <3>1, SubSeqEmpty
  <2>2. CASE y # <<>>
    <3>1. Len(y) \in Nat \ {0}
      BY <2>2, EmptySeq
    <3>2. PICK k, l : k = m + 1 /\ l = Len(u)
      OBVIOUS
    <3>3. /\ k \in Len(x) + 1 .. Len(x) + Len(y) /\ l \in Len(x) + 1 .. Len(x) + Len(y)
          /\ k - Len(x) = 1 /\ l - Len(x) = Len(y)
      BY <1>1, <1>2, <1>3, <3>1, <3>2
    <3>4. SubSeq(x \o y, k, l) = SubSeq(y, k - Len(x), l - Len(x))
      BY <3>3, SubSeqOfConcat2
    <3>5. SubSeq(x \o y, k, l) = y
      BY <3>3, <3>4, SubSeqFull
    <3> QED BY <1>1, <3>2, <3>5
  <2> QED BY <2>1, <2>2
<1> QED BY <1>1, <1>6, <1>7, <1>8

(* A line that is not of the text. *)
LEMMA OtherRead ==
  ASSUME NEW x \in {<<"\n">>} \cup {<<c, "\n">> : c \in {"/help", "/eval"}}, NEW y \in Seq(Keyboard), input = x \o y
  PROVE  /\ ~R!Continues /\ \A c : R!Is(c) <=> c = x[1]
         /\ SubSeq(input, R!LineLen + 1, Len(input)) = y
<1>1. /\ x \in Seq(Keyboard) /\ x # <<>> /\ x[Len(x)] = "\n" /\ Len(x) \in {1, 2}
      /\ \A i \in 1 .. Len(x) - 1 : x[i] # "\n"
      /\ Len(x) = 2 => x[1] # "\\"
  <2>1. CASE x = <<"\n">>
    BY <2>1 DEF Keyboard, Others
  <2>2. CASE \E c \in {"/help", "/eval"} : x = <<c, "\n">>
    <3>1. PICK c \in {"/help", "/eval"} : x = <<c, "\n">>
      BY <2>2
    <3>2. c \in Keyboard /\ "\n" \in Keyboard /\ c # "\n" /\ c # "\\"
      BY DEF Keyboard, Others
    <3> QED BY <3>1, <3>2
  <2> QED BY <2>1, <2>2
<1>2. Len(x) < LineSize
  BY <1>1, SessionAssumption
<1>3. R!LineLen = Len(x) /\ R!Line = x /\ SubSeq(input, R!LineLen + 1, Len(input)) = y
  BY <1>1, <1>2, LineRead
<1>4. ~R!Continues
  BY <1>1, <1>3 DEF R!Continues
<1> QED BY <1>3, <1>4 DEF R!Is

(* A line that goes on with the next. *)
LEMMA JoinedRead ==
  ASSUME NEW a \in Seq(S!Char), NoNewline(a), Len(a) + 2 < LineSize, NEW y \in Seq(Keyboard),
         input = (a \o <<"\\", "\n">>) \o y
  PROVE  /\ R!Continues /\ R!LineLen = Len(a) + 2 /\ R!Kept = a \o <<"\n">>
         /\ SubSeq(input, R!LineLen + 1, Len(input)) = y
<1>1. PICK e : e = <<"\\", "\n">> /\ Len(e) = 2 /\ e[1] = "\\" /\ e[2] = "\n" /\ e \in Seq(Keyboard)
  <2>1. "\\" \in Keyboard /\ "\n" \in Keyboard
    BY DEF Keyboard, Strokes
  <2>2. PICK e : e = <<"\\", "\n">>
    OBVIOUS
  <2>3. Len(e) = 2 /\ e[1] = "\\" /\ e[2] = "\n"
    BY <2>2
  <2>4. e \in Seq(Keyboard)
    BY <2>1, <2>2
  <2> QED BY <2>2, <2>3, <2>4
<1>2. a \in Seq(Keyboard) /\ Len(a) \in Nat
  <2>1. S!Char \subseteq Keyboard
    BY DEF Keyboard, Strokes
  <2> QED BY <2>1, SeqMonotonic, LenProperties
<1>3. PICK x, n : x = a \o e /\ n = Len(a)
  OBVIOUS
<1>4. /\ x \in Seq(Keyboard) /\ Len(x) = n + 2 /\ n \in Nat
      /\ \A i \in 1 .. n + 2 : x[i] = IF i <= n THEN a[i] ELSE e[i - n]
  BY <1>1, <1>2, <1>3, ConcatProperties
<1>5. x[n + 1] = "\\" /\ x[n + 2] = "\n"
  <2>1. /\ n + 1 \in 1 .. n + 2 /\ n + 2 \in 1 .. n + 2 /\ ~(n + 1 <= n) /\ ~(n + 2 <= n)
        /\ n + 1 - n = 1 /\ n + 2 - n = 2
    BY <1>4
  <2> QED BY <1>1, <1>4, <2>1
<1>6. \A i \in 1 .. Len(x) - 1 : x[i] # "\n"
  <2>1. TAKE i \in 1 .. Len(x) - 1
  <2>2. i \in 1 .. n + 2 /\ (i <= n => i \in 1 .. n) /\ (~(i <= n) => i = n + 1)
    BY <1>4
  <2>3. CASE i <= n
    BY <1>3, <1>4, <2>2, <2>3 DEF NoNewline
  <2>4. CASE ~(i <= n)
    BY <1>5, <2>2, <2>4
  <2> QED BY <2>3, <2>4
<1>7. R!LineLen = Len(x) /\ R!Line = x /\ SubSeq(input, R!LineLen + 1, Len(input)) = y
  <2>1. x # <<>> /\ Len(x) < LineSize /\ x[Len(x)] = "\n" /\ input = x \o y
    BY <1>1, <1>3, <1>4, <1>5, EmptySeq
  <2> QED BY <1>4, <1>6, <2>1, LineRead
<1>8. R!Continues
  <2>1. Len(x) > 1 /\ Len(x) - 1 = n + 1
    BY <1>4
  <2> QED BY <1>5, <1>7, <2>1 DEF R!Continues
<1>9. R!Kept = a \o <<"\n">>
  <2>1. SubSeq(x, 1, Len(x) - 2) = a
    <3>1. Len(x) - 2 = n
      BY <1>4
    <3>2. SubSeq(x, 1, n) = a
      <4>1. CASE n = 0
        <5>1. a = <<>>
          BY <1>2, <1>3, <4>1, EmptySeq
        <5>2. SubSeq(x, 1, 0) = <<>>
          BY SubSeqEmpty
        <5> QED BY <4>1, <5>1, <5>2
      <4>2. CASE n # 0
        <5>1. 1 \in 1 .. Len(a) /\ n \in 1 .. Len(a)
          BY <1>3, <1>4, <4>2
        <5>2. SubSeq(a \o e, 1, n) = SubSeq(a, 1, n)
          BY <1>1, <1>2, <5>1, SubSeqOfConcat1
        <5>3. SubSeq(a, 1, Len(a)) = a
          BY SubSeqFull
        <5> QED BY <1>3, <5>2, <5>3
      <4> QED BY <4>1, <4>2
    <3> QED BY <3>1, <3>2
  <2> QED BY <1>7, <1>8, <2>1 DEF R!Kept
<1> QED BY <1>3, <1>4, <1>7, <1>8, <1>9

(* The last line. *)
LEMMA LastRead ==
  ASSUME NEW s, Proper(s), NoNewline(s), Len(s) + 1 < LineSize, input = s \o <<"\n">>
  PROVE  /\ ~R!Continues /\ R!LineLen = Len(s) + 1 /\ R!Kept = s
         /\ \A c \in Others : ~R!Is(c)
         /\ SubSeq(input, R!LineLen + 1, Len(input)) = <<>>
<1>1. PICK e : e = <<"\n">> /\ Len(e) = 1 /\ e[1] = "\n" /\ e \in Seq(Keyboard)
  <2>1. "\n" \in Keyboard
    BY DEF Keyboard, Strokes
  <2>2. PICK e : e = <<"\n">>
    OBVIOUS
  <2>3. Len(e) = 1 /\ e[1] = "\n"
    BY <2>2
  <2>4. e \in Seq(Keyboard)
    BY <2>1, <2>2
  <2> QED BY <2>2, <2>3, <2>4
<1>2. s \in Seq(S!Char) /\ s # <<>> /\ s[Len(s)] \notin {"\n", "\\"}
  BY DEF Proper
<1>3. s \in Seq(Keyboard)
  <2>1. S!Char \subseteq Keyboard
    BY DEF Keyboard, Strokes
  <2> QED BY <1>2, <2>1, SeqMonotonic
<1>4. PICK x, n : x = s \o e /\ n = Len(s)
  OBVIOUS
<1>5. n \in Nat /\ n # 0
  BY <1>2, <1>4, LenProperties, EmptySeq
<1>6. /\ x \in Seq(Keyboard) /\ Len(x) = n + 1
      /\ \A i \in 1 .. n + 1 : x[i] = IF i <= n THEN s[i] ELSE e[i - n]
  BY <1>1, <1>3, <1>4, ConcatProperties
<1>7. x[n + 1] = "\n" /\ x[n] = s[n] /\ x[1] = s[1]
  <2>1. n + 1 \in 1 .. n + 1 /\ n \in 1 .. n + 1 /\ 1 \in 1 .. n + 1 /\ ~(n + 1 <= n) /\ n <= n /\ 1 <= n /\ n + 1 - n = 1
    BY <1>5
  <2> QED BY <1>1, <1>6, <2>1
<1>8. \A i \in 1 .. Len(x) - 1 : x[i] # "\n"
  <2>1. TAKE i \in 1 .. Len(x) - 1
  <2>2. i \in 1 .. n + 1 /\ i <= n /\ i \in 1 .. n
    BY <1>5, <1>6
  <2> QED BY <1>4, <1>6, <2>2 DEF NoNewline
<1>9. R!LineLen = Len(x) /\ R!Line = x /\ SubSeq(input, R!LineLen + 1, Len(input)) = <<>>
  <2>1. <<>> \in Seq(Keyboard) /\ x \o <<>> = x
    BY <1>6, EmptySeq, ConcatEmptySeq
  <2>2. x # <<>> /\ Len(x) < LineSize /\ x[Len(x)] = "\n" /\ input = x \o <<>>
    BY <1>1, <1>4, <1>5, <1>6, <1>7, <2>1, EmptySeq
  <2> QED BY <1>6, <1>8, <2>1, <2>2, LineRead
<1>10. ~R!Continues
  <2>1. Len(x) - 1 = n
    BY <1>5, <1>6
  <2> QED BY <1>2, <1>4, <1>7, <1>9, <2>1 DEF R!Continues
<1>11. R!Kept = s
  <2>1. 1 \in 1 .. Len(s) /\ n \in 1 .. Len(s) /\ Len(x) - 1 = n
    BY <1>4, <1>5, <1>6
  <2>2. SubSeq(s \o e, 1, n) = SubSeq(s, 1, n)
    BY <1>1, <1>3, <2>1, SubSeqOfConcat1
  <2> QED BY <1>2, <1>4, <1>9, <1>10, <2>1, <2>2, SubSeqFull DEF R!Kept
<1>12. \A c \in Others : ~R!Is(c)
  <2>1. 1 \in 1 .. Len(s)
    BY <1>4, <1>5
  <2>2. s[1] \in S!Char /\ s[1] # "\n"
    BY <1>2, <2>1, ElementOfSeq DEF NoNewline
  <2>3. s[1] \notin Others
    BY <2>2 DEF Others, S!Char, S!Digit, S!Letter, S!Whitespace, S!Escaped
  <2> QED BY <1>7, <1>9, <2>3 DEF R!Is
<1> QED BY <1>4, <1>6, <1>9, <1>10, <1>11, <1>12

----------------------------------------------------------------------------
(* The invariant of the REPL: what has been joined and what is still typed   *)
(* make the text, with at most one other line before the rest of it.         *)

Leads == {<<>>, <<"\n">>} \cup {<<c, "\n">> : c \in Others}
Awaits(chars, full, asTyped, rest, p) ==
  Proper(rest) /\ p \in Leads /\ asTyped = full \o rest /\ chars = p \o Whole(rest)
ReplWaits(chars, full, asTyped) ==
  \/ full = <<>> /\ chars \in {<<>>, <<"/eval", "\n">>}
  \/ \E rest, p : Awaits(chars, full, asTyped, rest, p)

ReplOK ==
  /\ fullLine \in Seq(S!Char) /\ fullLineCapacity \in Nat /\ Len(fullLine) < fullLineCapacity
  /\ ReplWaits(input, fullLine, typed)

LEMMA PrefixKinds ==
  ASSUME NEW p \in Leads
  PROVE  \/ p = <<>>
         \/ \E x \in {<<"\n">>} \cup {<<c, "\n">> : c \in {"/help", "/eval"}}, q \in {<<>>, <<"\n">>} :
              p = x \o q /\ x[1] \in Others
<1>1. CASE p = <<>>
  BY <1>1
<1>2. CASE p = <<"\n">>
  <2>1. <<"\n">> = <<"\n">> \o <<>>
    OBVIOUS
  <2> QED BY <1>2, <2>1 DEF Others
<1>3. CASE \E c \in Others : p = <<c, "\n">>
  <2>1. PICK c \in Others : p = <<c, "\n">>
    BY <1>3
  <2>2. CASE c = "\n"
    <3>1. PICK x : x = <<"\n">>
      OBVIOUS
    <3>2. p = x \o x
      BY <2>1, <2>2, <3>1
    <3>3. x \in {<<"\n">>} \cup {<<d, "\n">> : d \in {"/help", "/eval"}} /\ x \in {<<>>, <<"\n">>}
      BY <3>1
    <3>4. x[1] \in Others
      BY <3>1 DEF Others
    <3> QED BY <3>2, <3>3, <3>4
  <2>3. CASE c # "\n"
    <3>1. c \in {"/help", "/eval"}
      BY <2>3 DEF Others
    <3>2. PICK x : x = <<c, "\n">>
      OBVIOUS
    <3>3. x = x \o <<>> /\ x[1] = c
      BY <3>2
    <3>4. x \in {<<"\n">>} \cup {<<d, "\n">> : d \in {"/help", "/eval"}} /\ <<>> \in {<<>>, <<"\n">>}
      BY <3>1, <3>2
    <3>5. p = x \o <<>> /\ x[1] \in Others
      BY <2>1, <3>2, <3>3
    <3> QED BY <3>4, <3>5
  <2> QED BY <2>2, <2>3
<1> QED BY <1>1, <1>2, <1>3 DEF Leads

LEMMA PrefixTyped ==
  ASSUME NEW p \in Leads
  PROVE  p \in Seq(Keyboard) /\ (p = <<>> \/ (Len(p) > 0 /\ p[1] \in Others))
<1>1. \A c \in Others : c \in Keyboard /\ "\n" \in Keyboard
  BY DEF Keyboard, Others
<1>2. CASE p \in {<<>>, <<"\n">>}
  <2>1. "\n" \in Others
    BY DEF Others
  <2>2. CASE p = <<>>
    BY <2>2, EmptySeq
  <2>3. CASE p = <<"\n">>
    <3>1. "\n" \in Keyboard
      BY <1>1, <2>1
    <3>2. p \in Seq(Keyboard)
      BY <2>3, <3>1
    <3>3. Len(p) > 0 /\ p[1] = "\n"
      BY <2>3
    <3> QED BY <2>1, <3>2, <3>3
  <2> QED BY <1>2, <2>2, <2>3
<1>3. CASE \E c \in Others : p = <<c, "\n">>
  <2>1. PICK c \in Others : p = <<c, "\n">>
    BY <1>3
  <2>2. c \in Keyboard /\ "\n" \in Keyboard
    BY <1>1
  <2>3. p \in Seq(Keyboard)
    BY <2>1, <2>2
  <2>4. Len(p) > 0 /\ p[1] = c
    BY <2>1
  <2> QED BY <2>3, <2>4
<1> QED BY <1>2, <1>3 DEF Leads

LEMMA WholeRead ==
  ASSUME NEW rest, Proper(rest)
  PROVE  Whole(rest) \in Seq(Keyboard) /\ Len(Whole(rest)) > 0
<1>1. Whole(rest) \in Seq(Strokes(S!Char)) /\ Strokes(S!Char) \subseteq Keyboard
  BY WholeTyped DEF Keyboard
<1>2. Whole(rest) \in Seq(Keyboard)
  BY <1>1, SeqMonotonic
<1>3. Alone(rest) \/ \E a, t : Begins(rest, a, t)
  BY FirstLine
<1>4. CASE Alone(rest)
  <2>1. Whole(rest) = rest \o <<"\n">> /\ rest \in Seq(S!Char)
    BY <1>4 DEF Alone, Proper
  <2>2. rest \in Seq(Keyboard) /\ <<"\n">> \in Seq(Keyboard)
    <3>1. S!Char \subseteq Keyboard /\ "\n" \in Keyboard
      BY DEF Keyboard, Strokes
    <3> QED BY <2>1, <3>1, SeqMonotonic
  <2>3. Len(Whole(rest)) = Len(rest) + 1 /\ Len(rest) \in Nat
    BY <2>1, <2>2, ConcatProperties, LenProperties
  <2> QED BY <1>2, <2>3
<1>5. CASE \E a, t : Begins(rest, a, t)
  <2>1. PICK a, t : Begins(rest, a, t)
    BY <1>5
  <2>2. Proper(t) /\ a \in Seq(S!Char) /\ Whole(rest) = (a \o <<"\\", "\n">>) \o Whole(t)
    BY <2>1 DEF Begins
  <2>3. Whole(t) \in Seq(Keyboard)
    BY <1>1, <2>2, WholeTyped, SeqMonotonic
  <2>4. a \in Seq(Keyboard) /\ <<"\\", "\n">> \in Seq(Keyboard)
    <3>1. S!Char \subseteq Keyboard /\ "\n" \in Keyboard /\ "\\" \in Keyboard
      BY DEF Keyboard, Strokes
    <3> QED BY <2>2, <3>1, SeqMonotonic
  <2>5. PICK b : b = a \o <<"\\", "\n">> /\ b \in Seq(Keyboard) /\ Len(b) = Len(a) + 2
    <3>1. PICK e : e = <<"\\", "\n">>
      OBVIOUS
    <3>2. e \in Seq(Keyboard)
      BY <2>4, <3>1
    <3>3. Len(e) = 2
      BY <3>1
    <3>4. a \o e \in Seq(Keyboard) /\ Len(a \o e) = Len(a) + Len(e)
      BY <2>4, <3>2, ConcatProperties
    <3> QED BY <3>1, <3>3, <3>4
  <2>6. Len(Whole(rest)) = Len(b) + Len(Whole(t)) /\ Len(a) \in Nat /\ Len(Whole(t)) \in Nat
    BY <2>2, <2>3, <2>4, <2>5, ConcatProperties, LenProperties
  <2> QED BY <1>2, <2>5, <2>6
<1> QED BY <1>3, <1>4, <1>5

(* What the loop of repl meets. *)
WhatFollows == SubSeq(input, R!LineLen + 1, Len(input))
MeetsOther(c) ==
  /\ c \in Others /\ ~R!Continues /\ \A d : R!Is(d) <=> d = c
  /\ ReplWaits(WhatFollows, fullLine, typed)
MeetsJoined ==
  /\ R!Continues /\ R!LineLen \in Nat /\ R!LineLen < LineSize
  /\ R!Kept \in Seq(S!Char) /\ Len(R!Kept) = R!LineLen - 1
  /\ ReplWaits(WhatFollows, fullLine \o R!Kept, typed)
MeetsLast ==
  /\ ~R!Continues /\ R!LineLen \in Nat /\ R!LineLen < LineSize
  /\ R!Kept \in Seq(S!Char) /\ Len(R!Kept) = R!LineLen - 1
  /\ \A c \in Others : ~R!Is(c)
  /\ WhatFollows = <<>> /\ typed = fullLine \o R!Kept

LEMMA LineMet ==
  ASSUME ReplOK, input # <<>>
  PROVE  MeetsLast \/ MeetsJoined \/ \E c : MeetsOther(c)
<1>1. fullLine \in Seq(S!Char)
  BY DEF ReplOK
<1>2. CASE fullLine = <<>> /\ input \in {<<>>, <<"/eval", "\n">>}
  <2>1. PICK x : x = <<"/eval", "\n">>
    OBVIOUS
  <2>2. x \in Seq(Keyboard)
    <3>1. "/eval" \in Keyboard /\ "\n" \in Keyboard
      BY DEF Keyboard, Others
    <3> QED BY <2>1, <3>1
  <2>3. x \in {<<"\n">>} \cup {<<c, "\n">> : c \in {"/help", "/eval"}} /\ <<>> \in Seq(Keyboard) /\ input = x \o <<>>
    BY <1>2, <2>1, <2>2, EmptySeq, ConcatEmptySeq
  <2>4. ~R!Continues /\ (\A c : R!Is(c) <=> c = x[1]) /\ WhatFollows = <<>>
    BY <2>3, OtherRead DEF WhatFollows
  <2>5. x[1] \in Others
    BY <2>1 DEF Others
  <2>6. MeetsOther(x[1])
    BY <1>2, <2>4, <2>5 DEF MeetsOther, ReplWaits
  <2> QED BY <2>6
<1>3. ASSUME NEW rest, NEW p, Awaits(input, fullLine, typed, rest, p)
      PROVE  MeetsLast \/ MeetsJoined \/ \E c : MeetsOther(c)
  <2>1. Proper(rest) /\ p \in Leads /\ typed = fullLine \o rest /\ input = p \o Whole(rest)
    BY <1>3 DEF Awaits
  <2>2. Whole(rest) \in Seq(Keyboard) /\ rest \in Seq(S!Char)
    BY <2>1, WholeRead DEF Proper
  <2>3. ASSUME NEW x \in {<<"\n">>} \cup {<<c, "\n">> : c \in {"/help", "/eval"}}, NEW q \in {<<>>, <<"\n">>},
               p = x \o q, x[1] \in Others
        PROVE  \E c : MeetsOther(c)
    <3>1. q \in Leads /\ q \in Seq(Keyboard)
      BY PrefixTyped DEF Leads
    <3>2. x \in Seq(Keyboard)
      <4>1. x \in Leads
        BY DEF Leads, Others
      <4> QED BY <4>1, PrefixTyped
    <3>3. PICK y : y = q \o Whole(rest)
      OBVIOUS
    <3>4. y \in Seq(Keyboard) /\ input = x \o y
      <4>1. y \in Seq(Keyboard)
        BY <2>2, <3>1, <3>3, ConcatProperties
      <4>2. (x \o q) \o Whole(rest) = x \o (q \o Whole(rest))
        BY <2>2, <3>1, <3>2, ConcatThree
      <4> QED BY <2>1, <2>3, <3>3, <4>1, <4>2
    <3>5. ~R!Continues /\ (\A c : R!Is(c) <=> c = x[1]) /\ WhatFollows = y
      BY <3>4, OtherRead DEF WhatFollows
    <3>6. Awaits(y, fullLine, typed, rest, q)
      BY <2>1, <3>1, <3>3 DEF Awaits
    <3>7. MeetsOther(x[1])
      BY <2>3, <3>5, <3>6 DEF MeetsOther, ReplWaits
    <3> QED BY <3>7
  <2>4. CASE p = <<>> /\ Alone(rest)
    <3>1. NoNewline(rest) /\ Len(rest) + 1 < LineSize /\ input = rest \o <<"\n">>
      BY <2>1, <2>2, <2>4, ConcatEmptySeq DEF Alone
    <3>2. /\ ~R!Continues /\ R!LineLen = Len(rest) + 1 /\ R!Kept = rest
          /\ \A c \in Others : ~R!Is(c)
          /\ WhatFollows = <<>>
      BY <2>1, <3>1, LastRead DEF WhatFollows
    <3>3. Len(rest) \in Nat
      BY <2>2, LenProperties
    <3>4. MeetsLast
      BY <2>1, <2>2, <3>1, <3>2, <3>3 DEF MeetsLast
    <3> QED BY <3>4
  <2>5. CASE p = <<>> /\ \E a, t : Begins(rest, a, t)
    <3>1. PICK a, t : Begins(rest, a, t)
      BY <2>5
    <3>2. /\ a \in Seq(S!Char) /\ NoNewline(a) /\ Len(a) + 2 < LineSize /\ Proper(t)
          /\ rest = (a \o <<"\n">>) \o t /\ Whole(rest) = (a \o <<"\\", "\n">>) \o Whole(t)
      BY <3>1 DEF Begins
    <3>3. Whole(t) \in Seq(Keyboard) /\ t \in Seq(S!Char)
      BY <3>2, WholeRead DEF Proper
    <3>4. input = (a \o <<"\\", "\n">>) \o Whole(t)
      BY <2>1, <2>2, <2>5, <3>2, ConcatEmptySeq
    <3>5. R!Continues /\ R!LineLen = Len(a) + 2 /\ R!Kept = a \o <<"\n">> /\ WhatFollows = Whole(t)
      BY <3>2, <3>3, <3>4, JoinedRead DEF WhatFollows
    <3>6. PICK k : k = a \o <<"\n">> /\ k \in Seq(S!Char) /\ Len(k) = Len(a) + 1 /\ Len(a) \in Nat
      <4>1. "\n" \in S!Char
        BY DEF S!Char, S!Whitespace
      <4>2. PICK e : e = <<"\n">> /\ Len(e) = 1 /\ e \in Seq(S!Char)
        <5>1. PICK e : e = <<"\n">>
          OBVIOUS
        <5>2. Len(e) = 1
          BY <5>1
        <5>3. e \in Seq(S!Char)
          BY <4>1, <5>1
        <5> QED BY <5>1, <5>2, <5>3
      <4> QED BY <3>2, <4>2, ConcatProperties, LenProperties
    <3>7. (fullLine \o k) \o t = fullLine \o (k \o t)
      BY <1>1, <3>3, <3>6, ConcatThree
    <3>8. <<>> \o Whole(t) = Whole(t)
      BY <3>3, ConcatEmptySeq
    <3>9. Awaits(WhatFollows, fullLine \o R!Kept, typed, t, <<>>)
      BY <2>1, <3>2, <3>5, <3>6, <3>7, <3>8 DEF Awaits, Leads
    <3>10. MeetsJoined
      BY <3>2, <3>5, <3>6, <3>9 DEF MeetsJoined, ReplWaits
    <3> QED BY <3>10
  <2>6. Alone(rest) \/ \E a, t : Begins(rest, a, t)
    BY <2>1, FirstLine
  <2> QED BY <2>1, <2>3, <2>4, <2>5, <2>6, PrefixKinds
<1> QED BY <1>2, <1>3 DEF ReplOK, ReplWaits

----------------------------------------------------------------------------
(* Every step of the REPL. *)

LEMMA InitRepl ==
  ASSUME Init
  PROVE  ReplOK
<1>1. input = <<>> /\ fullLine = <<>> /\ fullLineCapacity = FirstRoom
  BY DEF Init, R!Init
<1>2. ReplWaits(input, fullLine, typed)
  BY <1>1 DEF ReplWaits
<1> QED BY <1>1, <1>2, SessionAssumption, EmptySeq DEF ReplOK

LEMMA RoomMade ==
  ASSUME ReplOK, R!copyLine, R!LineLen \in Nat, R!LineLen < LineSize
  PROVE  fullLineCapacity' \in Nat /\ Len(fullLine) + R!LineLen - 1 < fullLineCapacity' /\ fullLineCapacity' > 0
<1>1. Len(fullLine) \in Nat /\ fullLineCapacity \in Nat /\ Len(fullLine) < fullLineCapacity
  BY LenProperties DEF ReplOK
<1>2. LineSize \in Nat /\ MoreRoom \in Nat /\ MoreRoom >= LineSize
  BY SessionAssumption
<1> QED BY <1>1, <1>2 DEF R!copyLine, R!NeedsRoom

LEMMA TextTyped ==
  ASSUME ReplOK, NEW source \in Typed, typeText(source)
  PROVE  ReplOK'
<1>1. /\ input = <<>> /\ Typable(source) /\ typed' = source
      /\ input' = (Keys(source) \o <<"\n">>) \o input
      /\ fullLine' = fullLine /\ fullLineCapacity' = fullLineCapacity
  BY DEF typeText, R!type
<1>2. fullLine = <<>>
  <2>1. ASSUME NEW rest, NEW p, Awaits(input, fullLine, typed, rest, p) PROVE FALSE
    <3>1. Proper(rest) /\ p \in Leads /\ input = p \o Whole(rest)
      BY <2>1 DEF Awaits
    <3>2. p \in Seq(Keyboard) /\ Whole(rest) \in Seq(Keyboard) /\ Len(Whole(rest)) > 0
      BY <3>1, PrefixTyped, WholeRead
    <3>3. Len(input) = Len(p) + Len(Whole(rest)) /\ Len(p) \in Nat /\ Len(Whole(rest)) \in Nat
      BY <3>1, <3>2, ConcatProperties, LenProperties
    <3> QED BY <1>1, <3>2, <3>3, EmptySeq
  <2> QED BY <2>1 DEF ReplOK, ReplWaits
<1>3. Proper(source)
  BY <1>1, TypedAssumption DEF Proper, Typable, LinesFit
<1>4. input' = <<>> \o Whole(source) /\ typed' = <<>> \o source
  <2>1. Whole(source) \in Seq(Keyboard) /\ source \in Seq(S!Char)
    BY <1>3, WholeRead DEF Proper
  <2>2. Whole(source) \o <<>> = Whole(source) /\ <<>> \o Whole(source) = Whole(source) /\ <<>> \o source = source
    BY <2>1, ConcatEmptySeq
  <2> QED BY <1>1, <2>2 DEF Whole
<1>5. ReplWaits(input', fullLine', typed')
  <2>1. PICK i, f, y : i = input' /\ f = fullLine' /\ y = typed'
    OBVIOUS
  <2>2. Awaits(i, f, y, source, <<>>)
    BY <1>1, <1>2, <1>3, <1>4, <2>1 DEF Awaits, Leads
  <2>3. ReplWaits(i, f, y)
    BY <2>2 DEF ReplWaits
  <2> QED BY <2>1, <2>3
<1> QED BY <1>1, <1>5 DEF ReplOK

LEMMA OtherTyped ==
  ASSUME ReplOK, NEW first \in Others, typeOther(first)
  PROVE  ReplOK'
<1>1. /\ input = <<>> => first = "/eval"
      /\ input # <<>> => input[1] \notin Others
      /\ input' = <<first, "\n">> \o input
      /\ fullLine' = fullLine /\ fullLineCapacity' = fullLineCapacity /\ typed' = typed
  BY DEF typeOther, R!type, asked, Others
<1>2. ReplWaits(input', fullLine, typed)
  <2>1. CASE fullLine = <<>> /\ input \in {<<>>, <<"/eval", "\n">>}
    <3>1. input = <<>>
      <4>1. <<"/eval", "\n">>[1] \in Others
        BY DEF Others
      <4> QED BY <1>1, <2>1, <4>1
    <3>2. input' = <<"/eval", "\n">>
      BY <1>1, <3>1
    <3> QED BY <2>1, <3>2 DEF ReplWaits
  <2>2. ASSUME NEW rest, NEW p, Awaits(input, fullLine, typed, rest, p)
        PROVE  ReplWaits(input', fullLine, typed)
    <3>1. Proper(rest) /\ p \in Leads /\ typed = fullLine \o rest /\ input = p \o Whole(rest)
      BY <2>2 DEF Awaits
    <3>2. p \in Seq(Keyboard) /\ Whole(rest) \in Seq(Keyboard) /\ Len(Whole(rest)) > 0
          /\ (p = <<>> \/ (Len(p) > 0 /\ p[1] \in Others))
      BY <3>1, PrefixTyped, WholeRead
    <3>3. PICK n : n = Len(p) + Len(Whole(rest)) /\ Len(p) \in Nat /\ Len(Whole(rest)) \in Nat /\ Len(input) = n
      BY <3>1, <3>2, ConcatProperties, LenProperties
    <3>4. input # <<>>
      BY <3>2, <3>3, EmptySeq
    <3>5. p = <<>>
      <4>1. SUFFICES ASSUME Len(p) > 0, p[1] \in Others PROVE FALSE
        BY <3>2
      <4>2. 1 \in 1 .. Len(p) + Len(Whole(rest)) /\ 1 <= Len(p)
        BY <3>3, <4>1
      <4>3. (p \o Whole(rest))[1] = p[1]
        BY <3>2, <4>2, ConcatProperties
      <4> QED BY <1>1, <3>1, <3>4, <4>1, <4>3
    <3>6. input = Whole(rest)
      BY <3>1, <3>2, <3>5, ConcatEmptySeq
    <3>7. Awaits(<<first, "\n">> \o input, fullLine, typed, rest, <<first, "\n">>)
      BY <3>1, <3>6 DEF Awaits, Leads
    <3> QED BY <1>1, <3>7 DEF ReplWaits
  <2> QED BY <2>1, <2>2 DEF ReplOK, ReplWaits
<1> QED BY <1>1, <1>2 DEF ReplOK

(* A line that is not of the text is passed over. *)
LEMMA OtherPassed ==
  ASSUME ReplOK, R!fgets, NEW c \in Others, R!Is(c),
         fullLine' = fullLine, fullLineCapacity' = fullLineCapacity, typed' = typed
  PROVE  ReplOK'
<1>1. input # <<>> /\ input' = WhatFollows
  BY DEF R!fgets, WhatFollows
<1>2. ~R!Continues
  BY DEF R!Is
<1>3. PICK d : MeetsOther(d)
  BY <1>1, <1>2, LineMet DEF MeetsLast, MeetsJoined
<1>4. ReplWaits(input', fullLine, typed)
  BY <1>1, <1>3 DEF MeetsOther
<1> QED BY <1>4 DEF ReplOK

LEMMA LineJoined ==
  ASSUME ReplOK, R!joinLine, typed' = typed
  PROVE  ReplOK'
<1>1. /\ input # <<>> /\ input' = WhatFollows /\ R!Continues /\ R!copyLine
      /\ fullLine' = fullLine \o R!Kept
  BY DEF R!joinLine, R!fgets, WhatFollows
<1>2. MeetsJoined
  BY <1>1, LineMet DEF MeetsLast, MeetsOther
<1>3. /\ R!LineLen \in Nat /\ R!LineLen < LineSize /\ R!Kept \in Seq(S!Char) /\ Len(R!Kept) = R!LineLen - 1
      /\ ReplWaits(input', fullLine', typed')
  BY <1>1, <1>2 DEF MeetsJoined
<1>4. fullLine \in Seq(S!Char)
  BY DEF ReplOK
<1>5. fullLine' \in Seq(S!Char) /\ Len(fullLine') = Len(fullLine) + (R!LineLen - 1) /\ Len(fullLine) \in Nat
  BY <1>1, <1>3, <1>4, ConcatProperties, LenProperties
<1>6. fullLineCapacity' \in Nat /\ Len(fullLine) + R!LineLen - 1 < fullLineCapacity'
  BY <1>1, <1>3, RoomMade
<1>7. Len(fullLine') < fullLineCapacity'
  BY <1>3, <1>5, <1>6
<1> QED BY <1>3, <1>5, <1>6, <1>7 DEF ReplOK

LEMMA TextComplete ==
  ASSUME ReplOK, interpretLines
  PROVE  ReplOK' /\ text' = typed /\ Len(text') < fullLineCapacity'
<1>1. /\ input # <<>> /\ input' = WhatFollows /\ ~R!Continues /\ R!copyLine /\ R!IsText
      /\ fullLine' = <<>> /\ text' = fullLine \o R!Kept
  BY DEF interpretLines, interpret, S!scanner_init, R!completeLine, R!Complete, R!fgets, WhatFollows
<1>2. MeetsLast
  <2>1. \A c \in Others : ~R!Is(c)
    BY <1>1 DEF R!IsText, Others
  <2> QED BY <1>1, <2>1, LineMet DEF MeetsJoined, MeetsOther
<1>3. /\ R!LineLen \in Nat /\ R!LineLen < LineSize /\ R!Kept \in Seq(S!Char) /\ Len(R!Kept) = R!LineLen - 1
      /\ input' = <<>> /\ text' = typed
  BY <1>1, <1>2 DEF MeetsLast
<1>4. fullLine \in Seq(S!Char)
  BY DEF ReplOK
<1>5. Len(text') = Len(fullLine) + (R!LineLen - 1) /\ Len(fullLine) \in Nat
  BY <1>1, <1>3, <1>4, ConcatProperties, LenProperties
<1>6. fullLineCapacity' \in Nat /\ Len(fullLine) + R!LineLen - 1 < fullLineCapacity' /\ fullLineCapacity' > 0
  BY <1>1, <1>3, RoomMade
<1>7. Len(text') < fullLineCapacity'
  BY <1>3, <1>5, <1>6
<1>8. ReplWaits(input', fullLine', typed')
  BY <1>1, <1>3 DEF ReplWaits
<1>9. fullLine' \in Seq(S!Char) /\ Len(fullLine') = 0
  BY <1>1, EmptySeq
<1> QED BY <1>3, <1>6, <1>7, <1>8, <1>9 DEF ReplOK

LEMMA StepRepl ==
  ASSUME ReplOK, [Next]_vars
  PROVE  ReplOK'
<1>1. CASE UNCHANGED <<repl, typed>>
  BY <1>1 DEF repl, ReplOK
<1>2. ASSUME NEW source \in Following \cap Typed, typeText(source) PROVE ReplOK'
  BY <1>2, TextTyped
<1>3. ASSUME NEW first \in {"\n", "/help", "/eval"}, typeOther(first) PROVE ReplOK'
  BY <1>3, OtherTyped DEF Others
<1>4. CASE readLine
  <2>1. typed' = typed
    BY <1>4 DEF readLine, asked
  <2>2. CASE R!skipLine
    BY <2>1, <2>2, OtherPassed DEF R!skipLine, Others
  <2>3. CASE R!joinLine
    BY <2>1, <2>3, LineJoined
  <2> QED BY <1>4, <2>2, <2>3 DEF readLine
<1>5. CASE interpretLines
  BY <1>5, TextComplete
<1>6. ASSUME NEW source \in Following, interpretFile(source) PROVE ReplOK'
  <2>1. R!eval /\ typed' = typed
    BY <1>6 DEF interpretFile
  <2> QED BY <2>1, OtherPassed DEF R!eval, Others
<1>7. CASE advance \/ endCompiler \/ emitByte \/ getLine \/ finish \/ instruction
  BY <1>1, <1>7 DEF advance, endCompiler, emitByte, getLine, finish, instruction, emitBytes, asked
<1>8. CASE string \/ number \/ function
  BY <1>1, <1>8 DEF string, number, function, emitBytes, tooManyConstants, asked
<1>9. CASE \/ \E offset \in 0 .. Len(written) - 1 : runtimeError(offset)
           \/ \E chars \in Made : newString(chars)
  BY <1>1, <1>9 DEF runtimeError, newString, asked
<1>10. CASE UNCHANGED vars
  BY <1>1, <1>10 DEF vars, asked
<1> QED BY <1>2, <1>3, <1>4, <1>5, <1>6, <1>7, <1>8, <1>9, <1>10 DEF Next

LEMMA ReplSound == Spec => []ReplOK
<1>1. Init => ReplOK
  BY InitRepl
<1>2. ReplOK /\ [Next]_vars => ReplOK'
  BY StepRepl
<1> QED BY <1>1, <1>2, PTL DEF Spec

(* The text the machine interprets is the one that was typed, of any number  *)
(* of lines that fit the buffer, whatever empty lines, commands and files    *)
(* come between them.                                                        *)
THEOREM TypedIsInterpreted == Spec => TextAsTyped
<1>1. ReplOK /\ [Next]_vars => [interpretLines => text' = typed]_vars
  BY TextComplete
<1> QED BY <1>1, ReplSound, PTL DEF Spec, TextAsTyped

(* The lines joined, and the text they make, fit the buffer with its NUL,    *)
(* however often it had to grow.                                             *)
THEOREM JoinedLinesFit == Spec => FullLineFits
<1>1. ReplOK /\ [Next]_vars =>
        [R!Fits(Len(fullLine))' /\ (interpretLines => R!Fits(Len(text))')]_vars
  <2>1. SUFFICES ASSUME ReplOK, [Next]_vars
                 PROVE  R!Fits(Len(fullLine))' /\ (interpretLines => R!Fits(Len(text))')
    OBVIOUS
  <2>2. Len(fullLine') < fullLineCapacity'
    BY <2>1, StepRepl DEF ReplOK
  <2>3. interpretLines => Len(text') < fullLineCapacity'
    BY <2>1, TextComplete
  <2> QED BY <2>2, <2>3 DEF R!Fits
<1> QED BY <1>1, ReplSound, PTL DEF Spec, FullLineFits

----------------------------------------------------------------------------
(* What the scanner does with a text. *)

LEMMA AtChar ==
  ASSUME text \in Seq(S!Char)
  PROVE  /\ Len(text) \in Nat /\ S!NUL \notin S!Char
         /\ \A i \in 1 .. Len(text) : S!At(i) = text[i] /\ S!At(i) \in S!Char /\ S!At(i) # S!NUL
         /\ \A i \in Int : i > Len(text) => S!At(i) = S!NUL
<1>1. Len(text) \in Nat
  BY LenProperties
<1>2. S!NUL \notin S!Char
  BY DEF S!NUL, S!Char, S!Digit, S!Letter, S!Whitespace, S!Escaped
<1>3. ASSUME NEW i \in 1 .. Len(text) PROVE S!At(i) = text[i] /\ S!At(i) \in S!Char
  <2>1. S!At(i) = text[i]
    BY <1>1, <1>3 DEF S!At
  <2>2. text[i] \in S!Char
    BY ElementOfSeq
  <2> QED BY <2>1, <2>2
<1>4. \A i \in Int : i > Len(text) => S!At(i) = S!NUL
  BY <1>1 DEF S!At
<1> QED BY <1>1, <1>2, <1>3, <1>4

LEMMA FirstOf ==
  ASSUME NEW n \in Int, NEW i \in Int, NEW A, NEW j \in i .. n, j \in A
  PROVE  \E m \in i .. n : m \in A /\ \A k \in i .. m - 1 : k \notin A
<1> DEFINE B == {d \in 1 .. n - i + 1 : \E m \in i .. i + d - 1 : m \in A /\ \A k \in i .. m - 1 : k \notin A}
           T == {d \in 1 .. n - i + 1 : d \in B \/ \A k \in i .. i + d - 1 : k \notin A}
<1>1. n - i + 1 \in Nat
  OBVIOUS
<1>2. ASSUME NEW d \in 1 .. n - i + 1, \A k \in 1 .. d - 1 : k \in T PROVE d \in T
  <2>1. CASE d = 1
    <3>1. i .. i + d - 1 = {i}
      BY <2>1
    <3>2. i \in A => d \in B
      BY <2>1, <3>1
    <3>3. i \notin A => \A k \in i .. i + d - 1 : k \notin A
      BY <3>1
    <3> QED BY <3>2, <3>3
  <2>2. CASE d # 1
    <3>1. d - 1 \in 1 .. d - 1 /\ d - 1 \in T
      BY <1>2, <2>2
    <3>2. CASE d - 1 \in B
      <4>1. PICK m \in i .. i + (d - 1) - 1 : m \in A /\ \A k \in i .. m - 1 : k \notin A
        BY <3>2
      <4>2. m \in i .. i + d - 1
        OBVIOUS
      <4> QED BY <4>1, <4>2
    <3>3. CASE \A k \in i .. i + (d - 1) - 1 : k \notin A
      <4>1. PICK e \in Int : e = i + d - 1
        OBVIOUS
      <4>2. \A k \in i .. e - 1 : k \notin A
        BY <3>3, <4>1
      <4>3. e \in A => d \in B
        BY <2>2, <4>1, <4>2
      <4>4. e \notin A => \A k \in i .. i + d - 1 : k \notin A
        BY <4>1, <4>2
      <4> QED BY <4>3, <4>4
    <3> QED BY <3>1, <3>2, <3>3
  <2> QED BY <2>1, <2>2
<1>3. \A d \in 1 .. n - i + 1 : d \in T
  <2> HIDE DEF T
  <2> QED BY <1>1, <1>2, UpToN
<1>4. PICK e \in 1 .. n - i + 1 : e = j - i + 1
  OBVIOUS
<1>5. j \in i .. i + e - 1
  BY <1>4
<1>6. e \in B
  <2>1. e \in T
    BY <1>3
  <2> QED BY <1>5, <2>1
<1>7. PICK m \in i .. i + e - 1 : m \in A /\ \A k \in i .. m - 1 : k \notin A
  BY <1>6
<1> QED BY <1>4, <1>7

LEMMA AfterStops ==
  ASSUME text \in Seq(S!Char), NEW X, S!NUL \notin X, NEW i \in 1 .. Len(text) + 1
  PROVE  /\ S!After(X, i) \in i .. Len(text) + 1
         /\ S!At(S!After(X, i)) \notin X
         /\ \A k \in i .. S!After(X, i) - 1 : S!At(k) \in X
<1>1. PICK n \in Nat : n = Len(text) /\ S!At(n + 1) = S!NUL
  BY AtChar
<1> DEFINE A == {k \in Int : S!At(k) \notin X}
           Stops(j) == S!At(j) \notin X /\ \A k \in i .. j - 1 : S!At(k) \in X
<1>2. n + 1 \in i .. n + 1 /\ n + 1 \in A
  BY <1>1
<1>3. PICK m \in i .. n + 1 : m \in A /\ \A k \in i .. m - 1 : k \notin A
  <2>1. PICK l \in Int : l = n + 1
    OBVIOUS
  <2>2. l \in i .. l /\ l \in A /\ i \in Int
    BY <1>1, <1>2, <2>1
  <2>3. \E m \in i .. l : m \in A /\ \A k \in i .. m - 1 : k \notin A
    <3> HIDE DEF A
    <3> QED BY <2>2, FirstOf
  <2> QED BY <2>1, <2>3
<1>4. m \in i .. n + 2 /\ Stops(m)
  BY <1>1, <1>3
<1>5. PICK j : j = S!After(X, i)
  OBVIOUS
<1>6. j \in i .. n + 2 /\ Stops(j)
  <2>1. j = CHOOSE k \in i .. n + 2 : Stops(k)
    BY <1>1, <1>5 DEF S!After
  <2> HIDE DEF Stops
  <2> QED BY <1>4, <2>1
<1>7. j # n + 2
  BY <1>1, <1>6
<1> QED BY <1>1, <1>5, <1>6, <1>7

(* Newlines, counted piece by piece. *)
Newlines(i, j) == {k \in i .. j - 1 : S!At(k) = "\n"}

LEMMA SameCardinality ==
  ASSUME NEW A
  PROVE  S!Cardinality(A) = Cardinality(A)
BY Zenon DEF S!Cardinality, Cardinality

LEMMA NewlinesFinite ==
  ASSUME NEW i \in Int, NEW j \in Int
  PROVE  IsFiniteSet(Newlines(i, j)) /\ S!NewlinesIn(i, j) = Cardinality(Newlines(i, j)) /\ S!NewlinesIn(i, j) \in Nat
<1>1. IsFiniteSet(i .. j - 1) /\ Newlines(i, j) \in SUBSET (i .. j - 1)
  BY FS_Interval DEF Newlines
<1>2. IsFiniteSet(Newlines(i, j))
  BY <1>1, FS_Subset
<1>3. S!NewlinesIn(i, j) = Cardinality(Newlines(i, j))
  BY SameCardinality DEF S!NewlinesIn, Newlines
<1> QED BY <1>2, <1>3, FS_CardinalityType

LEMMA NewlinesBound ==
  ASSUME NEW i \in Int, NEW j \in Int, i <= j
  PROVE  S!NewlinesIn(i, j) \in 0 .. j - i
<1>1. PICK e \in Int : e = j - 1
  OBVIOUS
<1>2. IsFiniteSet(i .. e) /\ Cardinality(i .. e) = IF i > e THEN 0 ELSE e - i + 1
  BY FS_Interval
<1>3. Newlines(i, j) \in SUBSET (i .. e)
  BY <1>1 DEF Newlines
<1>4. Cardinality(Newlines(i, j)) <= Cardinality(i .. e)
  BY <1>2, <1>3, FS_Subset
<1>5. S!NewlinesIn(i, j) = Cardinality(Newlines(i, j)) /\ S!NewlinesIn(i, j) \in Nat
  BY NewlinesFinite
<1> QED BY <1>1, <1>2, <1>4, <1>5

LEMMA NewlinesAdd ==
  ASSUME NEW i \in Int, NEW j \in Int, NEW k \in Int, i <= j, j <= k
  PROVE  S!NewlinesIn(i, k) = S!NewlinesIn(i, j) + S!NewlinesIn(j, k)
<1>1. PICK A, B : A = Newlines(i, j) /\ B = Newlines(j, k)
  OBVIOUS
<1>2. A \cup B = Newlines(i, k) /\ A \cap B = {}
  BY <1>1 DEF Newlines
<1>3. IsFiniteSet(A) /\ IsFiniteSet(B) /\ Cardinality(A) \in Nat /\ Cardinality(B) \in Nat
  BY <1>1, NewlinesFinite
<1>4. Cardinality(A \cup B) = Cardinality(A) + Cardinality(B) - Cardinality(A \cap B)
  BY <1>3, FS_Union
<1>5. Cardinality(A \cap B) = 0
  BY <1>2, FS_EmptySet
<1>6. S!NewlinesIn(i, k) = Cardinality(A \cup B)
  BY <1>2, NewlinesFinite
<1>7. S!NewlinesIn(i, j) = Cardinality(A) /\ S!NewlinesIn(j, k) = Cardinality(B)
  BY <1>1, NewlinesFinite
<1> QED BY <1>3, <1>4, <1>5, <1>6, <1>7

LEMMA NoNewlines ==
  ASSUME NEW i \in Int, NEW j \in Int, \A k \in i .. j - 1 : S!At(k) # "\n"
  PROVE  S!NewlinesIn(i, j) = 0
<1>1. Newlines(i, j) = {}
  BY DEF Newlines
<1>2. S!NewlinesIn(i, j) = Cardinality({})
  BY <1>1, NewlinesFinite
<1> QED BY <1>2, FS_EmptySet

LEMMA OneNewline ==
  ASSUME NEW i \in Int, S!At(i) = "\n"
  PROVE  S!NewlinesIn(i, i + 1) = 1
<1>1. Newlines(i, i + 1) = {i}
  BY DEF Newlines
<1>2. S!NewlinesIn(i, i + 1) = Cardinality({i})
  <2>1. PICK j \in Int : j = i + 1
    OBVIOUS
  <2> QED BY <1>1, <2>1, NewlinesFinite
<1> QED BY <1>2, FS_Singleton

LEMMA LinesCounted ==
  ASSUME text \in Seq(S!Char), NEW i \in 1 .. Len(text) + 1
  PROVE  NewlinesBefore(i) = S!NewlinesIn(1, i)
<1>1. {k \in 1 .. i - 1 : text[k] = "\n"} = {k \in 1 .. i - 1 : S!At(k) = "\n"}
  BY AtChar
<1> QED BY <1>1, SameCardinality DEF NewlinesBefore, S!NewlinesIn

(* Functions defined by recursion from the end of the text. *)
Backward(f, n, B, v, next, G) == f = [j \in 1 .. n |-> IF j \in B THEN v[j] ELSE G[j][f[next[j]]]]
Onward(n, B, next) == \A j \in 1 .. n : j \notin B => next[j] \in j + 1 .. n

LEMMA BackwardExists ==
  ASSUME NEW n \in Nat, NEW V, NEW B, NEW v \in [1 .. n -> V], NEW next \in [1 .. n -> Int],
         NEW G \in [1 .. n -> [V -> V]], Onward(n, B, next)
  PROVE  \E f : Backward(f, n, B, v, next, G) /\ f \in [1 .. n -> V]
<1> USE DEF Onward
<1> DEFINE Right(f, m) == \A j \in n + 1 - m .. n : /\ f[j] = IF j \in B THEN v[j] ELSE G[j][f[next[j]]]
                                                    /\ f[j] \in V
           T == {m \in 1 .. n : \E f : Right(f, m)}
<1>1. ASSUME NEW m \in 1 .. n, \A k \in 1 .. m - 1 : k \in T PROVE m \in T
  <2>1. PICK f : Right(f, m - 1)
    <3>1. CASE m = 1
      <4>1. Right(v, m - 1)
        BY <3>1
      <4> QED BY <4>1
    <3>2. CASE m # 1
      <4>1. m - 1 \in 1 .. m - 1
        BY <3>2
      <4> QED BY <1>1, <4>1
    <3> QED BY <3>1, <3>2
  <2>2. PICK l \in 1 .. n : l = n + 1 - m
    OBVIOUS
  <2>3. \A j \in l + 1 .. n : /\ f[j] = IF j \in B THEN v[j] ELSE G[j][f[next[j]]]
                              /\ f[j] \in V
    BY <2>1, <2>2
  <2>4. PICK w : w = IF l \in B THEN v[l] ELSE G[l][f[next[l]]]
    OBVIOUS
  <2>5. w \in V
    <3>1. CASE l \in B
      BY <2>4, <3>1
    <3>2. CASE l \notin B
      <4>1. next[l] \in l + 1 .. n
        BY <3>2
      <4>2. f[next[l]] \in V
        BY <2>3, <4>1
      <4>3. G[l] \in [V -> V]
        OBVIOUS
      <4> QED BY <2>4, <3>2, <4>2, <4>3
    <3> QED BY <3>1, <3>2
  <2>6. PICK g : g = [j \in l .. n |-> IF j = l THEN w ELSE f[j]]
    OBVIOUS
  <2>7. g[l] = w /\ \A j \in l + 1 .. n : g[j] = f[j]
    BY <2>6
  <2>8. ASSUME NEW j \in l .. n
        PROVE  g[j] = (IF j \in B THEN v[j] ELSE G[j][g[next[j]]]) /\ g[j] \in V
    <3>1. j \in 1 .. n /\ (j \notin B => next[j] \in l + 1 .. n)
      <4>1. j \in 1 .. n
        OBVIOUS
      <4>2. j \notin B => next[j] \in j + 1 .. n
        BY <4>1
      <4> QED BY <4>1, <4>2
    <3>2. j \notin B => g[next[j]] = f[next[j]]
      BY <2>7, <3>1
    <3>3. CASE j = l
      BY <2>4, <2>5, <2>7, <3>2, <3>3
    <3>4. CASE j # l
      <4>1. j \in l + 1 .. n
        BY <3>4
      <4> QED BY <2>3, <2>7, <3>2, <4>1
    <3> QED BY <3>3, <3>4
  <2>9. Right(g, m)
    BY <2>2, <2>8
  <2> QED BY <2>9
<1>2. \A m \in 1 .. n : m \in T
  <2> HIDE DEF T
  <2> QED BY <1>1, UpToN
<1>3. PICK f : Right(f, n)
  <2>1. CASE n = 0
    <3>1. Right(v, n)
      BY <2>1
    <3> QED BY <3>1
  <2>2. CASE n # 0
    <3>1. n \in 1 .. n
      BY <2>2
    <3> QED BY <1>2, <3>1
  <2> QED BY <2>1, <2>2
<1>4. \A j \in 1 .. n : f[j] = (IF j \in B THEN v[j] ELSE G[j][f[next[j]]]) /\ f[j] \in V
  BY <1>3
<1>5. PICK g : g = [j \in 1 .. n |-> f[j]]
  OBVIOUS
<1>6. \A j \in 1 .. n : g[j] = (IF j \in B THEN v[j] ELSE G[j][g[next[j]]]) /\ g[j] \in V
  <2>1. TAKE j \in 1 .. n
  <2>2. j \notin B => next[j] \in 1 .. n
    <3>1. j \notin B => next[j] \in j + 1 .. n
      OBVIOUS
    <3> QED BY <3>1
  <2>3. j \notin B => g[next[j]] = f[next[j]]
    BY <1>5, <2>2
  <2> QED BY <1>4, <1>5, <2>3
<1>7. g = [j \in 1 .. n |-> IF j \in B THEN v[j] ELSE G[j][g[next[j]]]]
  <2>1. g = [j \in 1 .. n |-> g[j]]
    BY <1>5
  <2> QED BY <1>6, <2>1
<1>8. g \in [1 .. n -> V]
  BY <1>5, <1>6
<1> QED BY <1>7, <1>8 DEF Backward

LEMMA DownFromN ==
  ASSUME NEW n \in Nat, NEW T, \A j \in 1 .. n : (\A k \in j + 1 .. n : k \in T) => j \in T
  PROVE  \A j \in 1 .. n : j \in T
<1> DEFINE W == {m \in 1 .. n : n + 1 - m \in T}
<1>1. ASSUME NEW m \in 1 .. n, \A k \in 1 .. m - 1 : k \in W PROVE m \in W
  <2>1. PICK j \in 1 .. n : j = n + 1 - m
    OBVIOUS
  <2>2. ASSUME NEW k \in j + 1 .. n PROVE k \in T
    <3>1. PICK l \in 1 .. m - 1 : l = n + 1 - k
      BY <2>1
    <3>2. l \in W /\ n + 1 - l = k
      BY <1>1, <2>1, <3>1
    <3> QED BY <3>2
  <2>3. j \in T
    BY <2>2
  <2> QED BY <2>1, <2>3
<1>2. \A m \in 1 .. n : m \in W
  <2> HIDE DEF W
  <2> QED BY <1>1, UpToN
<1>3. TAKE j \in 1 .. n
<1>4. PICK m \in 1 .. n : m = n + 1 - j
  OBVIOUS
<1>5. m \in W /\ n + 1 - m = j
  BY <1>2, <1>4
<1> QED BY <1>5

(* Parts of parts of the text. *)
LEMMA PartIs ==
  ASSUME text \in Seq(S!Char), NEW p \in 1 .. Len(text) + 1, NEW q \in p - 1 .. Len(text)
  PROVE  /\ SubSeq(text, p, q) \in Seq(S!Char) /\ Len(SubSeq(text, p, q)) = q - p + 1
         /\ \A i \in 1 .. q - p + 1 : SubSeq(text, p, q)[i] = S!At(p + i - 1)
         /\ SubSeq(text, p, q) = [i \in 1 .. q - p + 1 |-> S!At(p + i - 1)]
<1>1. PICK n \in Nat : n = Len(text) /\ \A i \in 1 .. n : S!At(i) = text[i] /\ S!At(i) \in S!Char
  BY AtChar
<1>2. SubSeq(text, p, q) = [i \in 1 .. q - p + 1 |-> text[p + i - 1]]
  <2>1. p \in Int /\ q \in Int
    BY <1>1
  <2> QED BY <2>1 DEF SubSeq
<1>3. ASSUME NEW i \in 1 .. q - p + 1 PROVE text[p + i - 1] = S!At(p + i - 1) /\ S!At(p + i - 1) \in S!Char
  <2>1. PICK k \in 1 .. n : k = p + i - 1
    BY <1>1
  <2> QED BY <1>1, <2>1
<1>4. SubSeq(text, p, q) = [i \in 1 .. q - p + 1 |-> S!At(p + i - 1)]
  BY <1>2, <1>3
<1>5. q - p + 1 \in Nat
  BY <1>1
<1>6. [i \in 1 .. q - p + 1 |-> S!At(p + i - 1)] \in [1 .. q - p + 1 -> S!Char]
  BY <1>3
<1>7. SubSeq(text, p, q) \in Seq(S!Char) /\ Len(SubSeq(text, p, q)) = q - p + 1
  BY <1>4, <1>5, <1>6, IsASeq, LenProperties
<1> QED BY <1>4, <1>7

LEMMA PartOfPart ==
  ASSUME text \in Seq(S!Char), NEW p \in 1 .. Len(text) + 1, NEW q \in p - 1 .. Len(text),
         NEW a \in 1 .. q - p + 2, NEW b \in a - 1 .. q - p + 1
  PROVE  SubSeq(SubSeq(text, p, q), a, b) = SubSeq(text, p + a - 1, p + b - 1)
<1>1. PICK n \in Nat : n = Len(text)
  BY AtChar
<1>2. PICK u : u = SubSeq(text, p, q) /\ \A i \in 1 .. q - p + 1 : u[i] = S!At(p + i - 1)
  BY PartIs
<1>3. PICK c \in 1 .. n + 1 : c = p + a - 1
  BY <1>1
<1>4. PICK d \in c - 1 .. n : d = p + b - 1
  BY <1>1, <1>3
<1>5. SubSeq(text, c, d) = [i \in 1 .. d - c + 1 |-> S!At(c + i - 1)]
  BY <1>1, PartIs
<1>6. SubSeq(u, a, b) = [i \in 1 .. b - a + 1 |-> u[a + i - 1]]
  <2>1. a \in Int /\ b \in Int
    BY <1>1
  <2> QED BY <2>1 DEF SubSeq
<1>7. ASSUME NEW i \in 1 .. b - a + 1 PROVE u[a + i - 1] = S!At(c + i - 1)
  <2>1. PICK k \in 1 .. q - p + 1 : k = a + i - 1
    BY <1>1
  <2>2. p + k - 1 = c + i - 1
    BY <1>1, <1>3, <2>1
  <2> QED BY <1>2, <2>1, <2>2
<1>8. b - a + 1 = d - c + 1
  BY <1>1, <1>3, <1>4
<1> QED BY <1>2, <1>3, <1>4, <1>5, <1>6, <1>7, <1>8

(* What a blank is put together of, and how far it goes. *)
Odd == {<<"/", "*", "/">>}
IsPiece(u) == u \in {<<w>> : w \in S!Whitespace} \cup Odd \/ S!IsComment(u)
Cuts(u, f) ==
  f = [n \in 0 .. Len(u) |-> n = 0 \/ \E m \in 0 .. n - 1 : f[m] /\ IsPiece(SubSeq(u, m + 1, n))]

Chained(u, l, f) ==
  /\ f[0]
  /\ \A n \in 1 .. l : f[n] <=> \E m \in 0 .. n - 1 : f[m] /\ IsPiece(SubSeq(u, m + 1, n))

LEMMA CutsExist ==
  ASSUME NEW u, NEW l \in Nat, l = Len(u)
  PROVE  \E f : Cuts(u, f)
<1> DEFINE Closed(W) == 0 \in W /\ \A n \in 0 .. l : \A m \in 0 .. n - 1 : m \in W /\ IsPiece(SubSeq(u, m + 1, n)) => n \in W
<1>1. PICK A : A = {n \in 0 .. l : \A W \in SUBSET (0 .. l) : Closed(W) => n \in W}
  OBVIOUS
<1>2. Closed(A)
  <2>1. 0 \in A
    BY <1>1
  <2>2. ASSUME NEW n \in 0 .. l, NEW m \in 0 .. n - 1, m \in A, IsPiece(SubSeq(u, m + 1, n))
        PROVE  n \in A
    <3>1. ASSUME NEW W \in SUBSET (0 .. l), Closed(W) PROVE n \in W
      <4>1. m \in W
        BY <1>1, <2>2, <3>1
      <4> QED BY <2>2, <3>1, <4>1
    <3> HIDE DEF Closed
    <3> QED BY <1>1, <3>1
  <2> QED BY <2>1, <2>2
<1>3. ASSUME NEW n \in A, n # 0 PROVE \E m \in 0 .. n - 1 : m \in A /\ IsPiece(SubSeq(u, m + 1, n))
  <2>1. SUFFICES ASSUME ~ \E m \in 0 .. n - 1 : m \in A /\ IsPiece(SubSeq(u, m + 1, n)) PROVE FALSE
    OBVIOUS
  <2>2. PICK W : W = A \ {n}
    OBVIOUS
  <2>3. Closed(W)
    <3>1. 0 \in W
      BY <1>2, <1>3, <2>2
    <3>2. ASSUME NEW k \in 0 .. l, NEW m \in 0 .. k - 1, m \in W, IsPiece(SubSeq(u, m + 1, k))
          PROVE  k \in W
      <4>1. m \in A
        BY <2>2, <3>2
      <4>2. k \in A
        BY <1>2, <3>2, <4>1
      <4>3. k # n
        BY <2>1, <3>2, <4>1
      <4> QED BY <2>2, <4>2, <4>3
    <3> QED BY <3>1, <3>2
  <2>4. W \in SUBSET (0 .. l)
    BY <1>1, <2>2
  <2>5. n \in W
    <3> HIDE DEF Closed
    <3> QED BY <1>1, <1>3, <2>3, <2>4
  <2> QED BY <2>2, <2>5
<1>4. PICK f : f = [n \in 0 .. l |-> n \in A]
  OBVIOUS
<1>5. ASSUME NEW n \in 0 .. l
      PROVE  f[n] = (n = 0 \/ \E m \in 0 .. n - 1 : f[m] /\ IsPiece(SubSeq(u, m + 1, n)))
  <2>1. \A m \in 0 .. n - 1 : f[m] = (m \in A) /\ m \in 0 .. l
    BY <1>4
  <2>2. f[n] = (n \in A)
    BY <1>4
  <2>3. n \in A => n = 0 \/ \E m \in 0 .. n - 1 : f[m] /\ IsPiece(SubSeq(u, m + 1, n))
    BY <1>3, <2>1
  <2>4. (n = 0 \/ \E m \in 0 .. n - 1 : f[m] /\ IsPiece(SubSeq(u, m + 1, n))) => n \in A
    BY <1>2, <2>1
  <2> QED BY <2>2, <2>3, <2>4
<1>6. f = [n \in 0 .. l |-> n = 0 \/ \E m \in 0 .. n - 1 : f[m] /\ IsPiece(SubSeq(u, m + 1, n))]
  <2>1. f = [n \in 0 .. l |-> f[n]]
    BY <1>4
  <2> QED BY <1>5, <2>1
<1> QED BY <1>6 DEF Cuts

LEMMA BlankCuts ==
  ASSUME NEW u, NEW l \in Nat, l = Len(u)
  PROVE  \E f : S!IsBlank(u, Odd) = f[l] /\ Chained(u, l, f)
<1>1. PICK f : f = CHOOSE g : Cuts(u, g)
  OBVIOUS
<1>2. Cuts(u, f)
  BY <1>1, CutsExist
<1>3. S!IsBlank(u, Odd) = f[Len(u)]
  BY <1>1, Zenon DEF S!IsBlank, Cuts, IsPiece
<1>4. f = [n \in 0 .. l |-> n = 0 \/ \E m \in 0 .. n - 1 : f[m] /\ IsPiece(SubSeq(u, m + 1, n))]
  BY <1>2 DEF Cuts
<1>5. ASSUME NEW n \in 0 .. l
      PROVE  f[n] = (n = 0 \/ \E m \in 0 .. n - 1 : f[m] /\ IsPiece(SubSeq(u, m + 1, n)))
  BY <1>4, Zenon
<1>6. 0 \in 0 .. l
  OBVIOUS
<1>7. f[0]
  BY <1>5, <1>6, Zenon
<1>8. ASSUME NEW n \in 1 .. l
      PROVE  f[n] <=> \E m \in 0 .. n - 1 : f[m] /\ IsPiece(SubSeq(u, m + 1, n))
  <2>1. n \in 0 .. l /\ n # 0
    OBVIOUS
  <2> QED BY <1>5, <2>1, Zenon
<1>9. Chained(u, l, f)
  BY <1>7, <1>8, Zenon DEF Chained
<1> QED BY <1>3, <1>9

LEMMA NothingIsBlank == S!IsBlank(<<>>, Odd)
<1>1. PICK u : u = <<>>
  OBVIOUS
<1>2. PICK l \in Nat : l = Len(u) /\ l = 0
  BY <1>1
<1>3. PICK f : S!IsBlank(u, Odd) = f[l] /\ Chained(u, l, f)
  BY <1>2, BlankCuts
<1>4. f[0]
  BY <1>3 DEF Chained
<1>5. S!IsBlank(u, Odd)
  BY <1>2, <1>3, <1>4
<1> QED BY <1>1, <1>5

(* A blank goes on. *)
LEMMA BlankBefore ==
  ASSUME text \in Seq(S!Char), NEW i \in 1 .. Len(text) + 1, NEW j \in i + 1 .. Len(text) + 1, NEW k \in j .. Len(text) + 1,
         IsPiece(SubSeq(text, i, j - 1)), S!IsBlank(SubSeq(text, j, k - 1), Odd)
  PROVE  S!IsBlank(SubSeq(text, i, k - 1), Odd)
<1>1. PICK n \in Nat : n = Len(text)
  BY AtChar
<1>2. PICK d \in Nat, e \in Nat : d = j - i /\ e = k - j /\ d > 0
  BY <1>1
<1>3. PICK p \in Int, q \in Int : p = j - 1 /\ q = k - 1
  BY <1>1
<1>4. PICK u, v : u = SubSeq(text, i, q) /\ v = SubSeq(text, j, q)
  OBVIOUS
<1>5. Len(u) = d + e /\ Len(v) = e
  <2>1. q \in i - 1 .. n /\ q \in j - 1 .. n /\ j \in 1 .. n + 1 /\ i \in 1 .. n + 1
    BY <1>1, <1>3
  <2>2. Len(u) = q - i + 1 /\ Len(v) = q - j + 1
    BY <1>1, <1>4, <2>1, PartIs
  <2> QED BY <1>1, <1>2, <1>3, <2>2
<1>6. PICK g : S!IsBlank(v, Odd) = g[e] /\ Chained(v, e, g)
  BY <1>5, BlankCuts
<1>7. PICK l \in Nat : l = d + e
  BY <1>2
<1>8. PICK f : S!IsBlank(u, Odd) = f[l] /\ Chained(u, l, f)
  BY <1>5, <1>7, BlankCuts
<1>9. f[d]
  <2>1. f[0]
    BY <1>8 DEF Chained
  <2>2. SubSeq(u, 1, d) = SubSeq(text, i, p)
    <3>1. q \in i - 1 .. n /\ 1 \in 1 .. q - i + 2 /\ d \in 1 - 1 .. q - i + 1 /\ i \in 1 .. n + 1
      BY <1>1, <1>2, <1>3
    <3>2. SubSeq(SubSeq(text, i, q), 1, d) = SubSeq(text, i + 1 - 1, i + d - 1)
      BY <1>1, <3>1, PartOfPart
    <3>3. i + 1 - 1 = i /\ i + d - 1 = p
      BY <1>1, <1>2, <1>3
    <3> QED BY <1>4, <3>2, <3>3
  <2>3. PICK z : z = 0 /\ z + 1 = 1
    OBVIOUS
  <2>4. IsPiece(SubSeq(u, z + 1, d))
    BY <1>3, <2>2, <2>3
  <2>5. z \in 0 .. d - 1 /\ d \in 1 .. l /\ f[z]
    BY <1>2, <1>7, <2>1, <2>3
  <2> QED BY <1>8, <2>4, <2>5 DEF Chained
<1> DEFINE T == {x \in 1 .. e : g[x] => f[d + x]}
<1>10. ASSUME NEW x \in 1 .. e, \A y \in 1 .. x - 1 : y \in T PROVE x \in T
  <2>1. SUFFICES ASSUME g[x] PROVE f[d + x]
    OBVIOUS
  <2>2. PICK m \in 0 .. x - 1 : g[m] /\ IsPiece(SubSeq(v, m + 1, x))
    BY <1>6, <2>1 DEF Chained
  <2>3. f[d + m]
    <3>1. CASE m = 0
      BY <1>2, <1>9, <3>1
    <3>2. CASE m # 0
      <4>1. m \in T
        BY <1>10, <3>2
      <4> QED BY <2>2, <4>1
    <3> QED BY <3>1, <3>2
  <2>4. PICK a \in Int, b \in Int : a = d + m /\ b = d + x
    BY <1>2
  <2>5. SubSeq(v, m + 1, x) = SubSeq(u, a + 1, b)
    <3>1. PICK r \in Int : r = m + 1
      OBVIOUS
    <3>2. q \in i - 1 .. n /\ q \in j - 1 .. n /\ j \in 1 .. n + 1 /\ i \in 1 .. n + 1
      BY <1>1, <1>3
    <3>3. r \in 1 .. q - j + 2 /\ x \in r - 1 .. q - j + 1
      BY <1>1, <1>2, <1>3, <3>1
    <3>4. SubSeq(SubSeq(text, j, q), r, x) = SubSeq(text, j + r - 1, j + x - 1)
      BY <1>1, <3>2, <3>3, PartOfPart
    <3>5. PICK s \in Int : s = a + 1
      OBVIOUS
    <3>6. s \in 1 .. q - i + 2 /\ b \in s - 1 .. q - i + 1
      BY <1>1, <1>2, <1>3, <2>4, <3>5
    <3>7. SubSeq(SubSeq(text, i, q), s, b) = SubSeq(text, i + s - 1, i + b - 1)
      BY <1>1, <3>2, <3>6, PartOfPart
    <3>8. j + r - 1 = i + s - 1 /\ j + x - 1 = i + b - 1
      BY <1>1, <1>2, <2>4, <3>1, <3>5
    <3> QED BY <1>4, <3>1, <3>4, <3>5, <3>7, <3>8
  <2>6. /\ f[a] /\ IsPiece(SubSeq(u, a + 1, b))
        /\ a \in 0 .. b - 1 /\ b \in 1 .. l
    <3>1. f[a]
      BY <2>3, <2>4
    <3>2. IsPiece(SubSeq(u, a + 1, b))
      BY <2>2, <2>5
    <3>3. a \in 0 .. b - 1 /\ b \in 1 .. l
      BY <1>2, <1>7, <2>4
    <3> QED BY <3>1, <3>2, <3>3
  <2>7. f[b]
    BY <1>8, <2>6 DEF Chained
  <2> QED BY <2>4, <2>7
<1>11. \A x \in 1 .. e : x \in T
  <2> HIDE DEF T
  <2> QED BY <1>10, UpToN
<1>12. f[l]
  <2>1. CASE e = 0
    BY <1>2, <1>7, <1>9, <2>1
  <2>2. CASE e # 0
    <3>1. e \in 1 .. e /\ e \in T
      BY <1>11, <2>2
    <3>2. S!IsBlank(v, Odd)
      BY <1>3, <1>4
    <3> QED BY <1>6, <1>7, <3>1, <3>2
  <2> QED BY <2>1, <2>2
<1> QED BY <1>3, <1>4, <1>8, <1>12

LEMMA LineComment ==
  ASSUME text \in Seq(S!Char), NEW i \in 1 .. Len(text) + 1, S!At(i) = "/", S!At(i + 1) = "/",
         NEW m, m = S!After(S!Range(text) \ {"\n"}, i)
  PROVE  m \in i + 1 .. Len(text) + 1 /\ S!IsComment(SubSeq(text, i, m - 1))
<1>1. PICK n \in Nat : /\ n = Len(text) /\ S!NUL \notin S!Char /\ \A k \in Int : k > n => S!At(k) = S!NUL
                       /\ \A k \in 1 .. n : S!At(k) = text[k] /\ S!At(k) \in S!Char
  BY AtChar
<1>2. DOMAIN text = 1 .. n
  BY <1>1, LenProperties
<1>3. PICK X : X = S!Range(text) \ {"\n"}
  OBVIOUS
<1>4. S!Range(text) = {S!At(k) : k \in 1 .. n}
  BY <1>1, <1>2 DEF S!Range
<1>5. S!NUL \notin X /\ \A k \in 1 .. n : S!At(k) # "\n" => S!At(k) \in X
  BY <1>1, <1>3, <1>4
<1>6. m \in i .. n + 1 /\ S!At(m) \notin X /\ \A k \in i .. m - 1 : S!At(k) \in X
  BY <1>1, <1>3, <1>5, AfterStops
<1>7. i \in 1 .. n /\ i + 1 \in 1 .. n
  <2>1. S!NUL # "/"
    BY DEF S!NUL
  <2>2. ~(i > n) /\ ~(i + 1 > n)
    BY <1>1, <2>1
  <2> QED BY <1>1, <2>2
<1>8. m \in i + 2 .. n + 1
  <2>1. S!At(i) \in X /\ S!At(i + 1) \in X
    BY <1>5, <1>7
  <2>2. m # i /\ m # i + 1
    BY <1>6, <2>1
  <2> QED BY <1>6, <1>7, <2>2
<1>9. PICK q \in Int : q = m - 1
  BY <1>8
<1>10. PICK u : u = SubSeq(text, i, q)
  OBVIOUS
<1>11. u \in Seq(S!Char) /\ Len(u) = q - i + 1 /\ \A k \in 1 .. q - i + 1 : u[k] = S!At(i + k - 1)
  <2>1. i \in 1 .. n + 1 /\ q \in i - 1 .. n
    BY <1>1, <1>7, <1>8, <1>9
  <2> QED BY <1>1, <1>10, <2>1, PartIs
<1>12. Len(u) > 1 /\ u[1] = "/" /\ u[2] = "/"
  <2>1. 1 \in 1 .. q - i + 1 /\ 2 \in 1 .. q - i + 1
    BY <1>7, <1>8, <1>9
  <2>2. u[1] = S!At(i + 1 - 1) /\ u[2] = S!At(i + 2 - 1)
    BY <1>11, <2>1
  <2>3. i + 1 - 1 = i /\ i + 2 - 1 = i + 1
    BY <1>7
  <2> QED BY <1>7, <1>8, <1>9, <1>11, <2>2, <2>3
<1>13. "\n" \notin S!Range(u)
  <2>1. DOMAIN u = 1 .. q - i + 1
    BY <1>11, LenProperties
  <2>2. ASSUME NEW k \in 1 .. q - i + 1 PROVE u[k] # "\n"
    <3>1. i + k - 1 \in i .. m - 1
      BY <1>7, <1>8, <1>9
    <3> QED BY <1>3, <1>6, <1>11, <3>1
  <2> QED BY <2>1, <2>2 DEF S!Range
<1>14. S!IsComment(u)
  BY <1>12, <1>13 DEF S!IsComment
<1> QED BY <1>1, <1>7, <1>8, <1>9, <1>10, <1>14

LEMMA BlockComment ==
  ASSUME text \in Seq(S!Char), NEW i \in 1 .. Len(text) + 1, S!At(i) = "/", S!At(i + 1) = "*",
         NEW j, j = i + 1, ~S!Unterminated(j), NEW m, m = S!AfterComment(j)
  PROVE  m \in i + 1 .. Len(text) + 1 /\ IsPiece(SubSeq(text, i, m - 1))
<1>1. PICK n \in Nat : /\ n = Len(text) /\ S!NUL \notin S!Char /\ \A k \in Int : k > n => S!At(k) = S!NUL
                       /\ \A k \in 1 .. n : S!At(k) = text[k] /\ S!At(k) \in S!Char
  BY AtChar
<1>2. S!NUL # "/" /\ S!NUL # "*"
  BY DEF S!NUL
<1>3. i \in 1 .. n /\ j \in 1 .. n /\ i \in Int /\ j \in Int
  <2>1. ~(i > n) /\ ~(i + 1 > n)
    BY <1>1, <1>2
  <2> QED BY <1>1, <2>1
<1> DEFINE A == {k \in j .. n : S!At(k) = "*" /\ S!At(k + 1) = "/"}
<1>4. PICK c \in j .. n : c \in A
  BY <1>1 DEF S!Unterminated
<1>5. PICK l \in j .. n : l \in A /\ \A k \in j .. l - 1 : k \notin A
  <2>1. j \in Int /\ n \in Int /\ c \in j .. n /\ c \in A
    BY <1>1, <1>3, <1>4
  <2> HIDE DEF A
  <2> QED BY <2>1, FirstOf
<1>6. \A k \in A : l <= k
  <2>1. TAKE k \in A
  <2>2. k \in j .. n /\ k \notin j .. l - 1
    BY <1>5
  <2> QED BY <1>3, <2>2
<1>7. PICK e : e = CHOOSE k \in A : \A x \in A : k <= x
  OBVIOUS
<1>8. e \in A /\ \A x \in A : e <= x
  <2> HIDE DEF A
  <2> QED BY <1>5, <1>6, <1>7
<1>9. e = l
  BY <1>3, <1>5, <1>6, <1>8
<1>10. A # {}
  BY <1>4
<1>11. m = e + 2
  BY <1>1, <1>7, <1>10 DEF S!AfterComment
<1>12. l \in Int /\ m = l + 2 /\ l + 1 \in 1 .. n
  <2>1. S!At(l + 1) = "/" /\ l \in Int
    BY <1>3, <1>5
  <2>2. ~(l + 1 > n)
    BY <1>1, <1>2, <2>1
  <2> QED BY <1>3, <1>5, <1>9, <1>11, <2>1, <2>2
<1>13. m \in i + 3 .. n + 1
  BY <1>1, <1>3, <1>5, <1>12
<1>14. PICK q \in Int, h \in Nat : q = m - 1 /\ h = q - i + 1 /\ h > 2
  BY <1>3, <1>13
<1>15. PICK u : u = SubSeq(text, i, q)
  OBVIOUS
<1>16. u \in Seq(S!Char) /\ Len(u) = h /\ \A k \in 1 .. h : u[k] = S!At(i + k - 1)
  <2>1. i \in 1 .. n + 1 /\ q \in i - 1 .. n
    BY <1>1, <1>3, <1>13, <1>14
  <2> QED BY <1>1, <1>14, <1>15, <2>1, PartIs
<1>17. Len(u) > 1 /\ u[1] = "/" /\ u[2] = "*"
  <2>1. 1 \in 1 .. h /\ 2 \in 1 .. h
    BY <1>14
  <2>2. u[1] = S!At(i + 1 - 1) /\ u[2] = S!At(i + 2 - 1)
    BY <1>16, <2>1
  <2>3. i + 1 - 1 = i /\ i + 2 - 1 = j
    BY <1>3
  <2> QED BY <1>14, <1>16, <2>2, <2>3
<1>18. ASSUME NEW k \in 2 .. h - 1 PROVE u[k] = S!At(i + k - 1) /\ u[k + 1] = S!At(i + k)
  <2>1. k \in 1 .. h /\ k + 1 \in 1 .. h
    BY <1>14
  <2>2. u[k] = S!At(i + k - 1) /\ u[k + 1] = S!At(i + (k + 1) - 1)
    BY <1>16, <2>1
  <2>3. i + (k + 1) - 1 = i + k
    BY <1>3
  <2> QED BY <2>2, <2>3
<1>19. {k \in 2 .. h - 1 : u[k] = "*" /\ u[k + 1] = "/"} = {h - 1}
  <2>1. ASSUME NEW k \in 2 .. h - 1, u[k] = "*", u[k + 1] = "/" PROVE k = h - 1
    <3>1. PICK x \in j .. n : x = i + k - 1 /\ x + 1 = i + k
      BY <1>1, <1>3, <1>13, <1>14
    <3>2. x \in A
      BY <1>18, <2>1, <3>1
    <3>3. l <= x
      BY <1>6, <3>2
    <3> QED BY <1>3, <1>12, <1>14, <3>1, <3>3
  <2>2. PICK k \in 2 .. h - 1 : k = h - 1
    BY <1>14
  <2>3. i + k - 1 = l /\ i + k = l + 1
    BY <1>3, <1>12, <1>14, <2>2
  <2>4. u[k] = "*" /\ u[k + 1] = "/"
    BY <1>5, <1>18, <2>3
  <2> QED BY <2>1, <2>2, <2>4
<1>20. ASSUME h = 3 PROVE IsPiece(u)
  <2>1. u[3] = "/"
    <3>1. 2 \in {k \in 2 .. h - 1 : u[k] = "*" /\ u[k + 1] = "/"}
      BY <1>19, <1>20
    <3> QED BY <3>1
  <2>2. u = <<"/", "*", "/">>
    BY <1>16, <1>17, <1>20, <2>1
  <2>3. u \in {<<w>> : w \in S!Whitespace} \cup Odd
    BY <2>2, Zenon DEF Odd
  <2> QED BY <2>3, Zenon DEF IsPiece
<1>21. ASSUME h # 3 PROVE IsPiece(u)
  <2>1. ~(u[2] = "*" /\ u[2 + 1] = "/")
    <3>1. 2 \notin {k \in 2 .. h - 1 : u[k] = "*" /\ u[k + 1] = "/"} /\ 2 \in 2 .. h - 1
      BY <1>14, <1>19, <1>21
    <3> QED BY <3>1
  <2>2. {k \in 3 .. h - 1 : u[k] = "*" /\ u[k + 1] = "/"} = {k \in 2 .. h - 1 : u[k] = "*" /\ u[k + 1] = "/"}
    <3>1. \A k \in 2 .. h - 1 : k = 2 \/ k \in 3 .. h - 1
      BY <1>14
    <3>2. \A k \in 3 .. h - 1 : k \in 2 .. h - 1
      BY <1>14
    <3> QED BY <2>1, <3>1, <3>2
  <2>3. S!IsComment(u)
    BY <1>16, <1>17, <1>19, <2>2 DEF S!IsComment
  <2> QED BY <2>3, Zenon DEF IsPiece
<1>22. IsPiece(u)
  BY <1>20, <1>21, Zenon
<1> QED BY <1>1, <1>3, <1>13, <1>14, <1>15, <1>22

(* skipWhitespace: what each turn of its loop does. *)
LineStarts(j) == S!At(j) = "/" /\ S!At(j + 1) = "/"
BlockStarts(j) == S!At(j) = "/" /\ S!At(j + 1) = "*"
Skips(f) ==
  f = [j \in 1 .. Len(text) + 2 |->
        IF S!At(j) \in S!Whitespace THEN f[j + 1]
        ELSE IF S!At(j) = "/" /\ S!At(j + 1) = "/" THEN f[S!After(S!Range(text) \ {"\n"}, j)]
        ELSE IF S!At(j) = "/" /\ S!At(j + 1) = "*" /\ S!Unterminated(j + 1)
          THEN S!Found("UNTERMINATED_COMMENT", Len(text) + 1)
        ELSE IF S!At(j) = "/" /\ S!At(j + 1) = "*" THEN f[S!AfterComment(j + 1)]
        ELSE S!Found("IGNORE", j)]
Skipped(j) ==
  IF S!At(j) \in S!Whitespace THEN j + 1
  ELSE IF LineStarts(j) THEN S!After(S!Range(text) \ {"\n"}, j)
  ELSE S!AfterComment(j + 1)
Stops(j) ==
  S!At(j) \notin S!Whitespace /\ ~LineStarts(j) /\ (BlockStarts(j) => S!Unterminated(j + 1))
StopsWith(j) ==
  IF BlockStarts(j) THEN S!Found("UNTERMINATED_COMMENT", Len(text) + 1) ELSE S!Found("IGNORE", j)

LEMMA SkippedPiece ==
  ASSUME text \in Seq(S!Char), NEW j \in 1 .. Len(text) + 1, ~Stops(j)
  PROVE  Skipped(j) \in j + 1 .. Len(text) + 1 /\ IsPiece(SubSeq(text, j, Skipped(j) - 1))
<1>1. PICK n \in Nat : /\ n = Len(text) /\ S!NUL \notin S!Char /\ \A k \in Int : k > n => S!At(k) = S!NUL
                       /\ \A k \in 1 .. n : S!At(k) = text[k] /\ S!At(k) \in S!Char
  BY AtChar
<1>2. CASE S!At(j) \in S!Whitespace
  <2>1. S!Whitespace \subseteq S!Char
    BY DEF S!Char
  <2>2. j \in 1 .. n
    BY <1>1, <1>2, <2>1
  <2>3. Skipped(j) = j + 1
    BY <1>2 DEF Skipped
  <2>4. PICK q \in Int : q = j + 1 - 1 /\ q = j
    BY <2>2
  <2>5. PICK u : u = SubSeq(text, j, q)
    OBVIOUS
  <2>6. u = <<S!At(j)>>
    <3>1. j \in 1 .. n + 1 /\ q \in j - 1 .. n
      BY <2>2, <2>4
    <3>2. u = [i \in 1 .. q - j + 1 |-> S!At(j + i - 1)]
      BY <1>1, <2>5, <3>1, PartIs
    <3>3. 1 .. q - j + 1 = {1} /\ j + 1 - 1 = j
      BY <2>2, <2>4
    <3>4. DOMAIN u = {1} /\ u[1] = S!At(j)
      BY <3>2, <3>3
    <3>5. PICK x : x = S!At(j)
      OBVIOUS
    <3>6. u = [i \in {1} |-> x]
      <4>1. u = [i \in {1} |-> S!At(j + i - 1)]
        BY <3>2, <3>3
      <4>2. \A i \in {1} : S!At(j + i - 1) = x
        BY <3>3, <3>5
      <4> QED BY <4>1, <4>2
    <3>7. <<x>> = [i \in {1} |-> x]
      OBVIOUS
    <3> QED BY <3>5, <3>6, <3>7
  <2>7. IsPiece(u)
    BY <1>2, <2>6 DEF IsPiece
  <2> QED BY <1>1, <2>2, <2>3, <2>4, <2>5, <2>7
<1>3. CASE S!At(j) \notin S!Whitespace /\ LineStarts(j)
  <2>1. PICK m : m = Skipped(j)
    OBVIOUS
  <2>2. m = S!After(S!Range(text) \ {"\n"}, j)
    BY <1>3, <2>1 DEF Skipped
  <2>3. S!At(j) = "/" /\ S!At(j + 1) = "/"
    BY <1>3 DEF LineStarts
  <2>4. m \in j + 1 .. Len(text) + 1 /\ S!IsComment(SubSeq(text, j, m - 1))
    BY <2>2, <2>3, LineComment
  <2> QED BY <2>1, <2>4 DEF IsPiece
<1>4. CASE S!At(j) \notin S!Whitespace /\ ~LineStarts(j)
  <2>1. PICK m, c : m = Skipped(j) /\ c = j + 1
    OBVIOUS
  <2>2. m = S!AfterComment(c)
    BY <1>4, <2>1 DEF Skipped
  <2>3. S!At(j) = "/" /\ S!At(j + 1) = "*" /\ ~S!Unterminated(c)
    BY <1>4, <2>1 DEF BlockStarts, Stops
  <2>4. m \in j + 1 .. Len(text) + 1 /\ IsPiece(SubSeq(text, j, m - 1))
    BY <2>1, <2>2, <2>3, BlockComment
  <2> QED BY <2>1, <2>4
<1> QED BY <1>2, <1>3, <1>4

LEMMA SkipsExist ==
  ASSUME text \in Seq(S!Char)
  PROVE  \E f : Skips(f)
<1>1. PICK n \in Nat : /\ n = Len(text) /\ S!NUL \notin S!Char /\ \A k \in Int : k > n => S!At(k) = S!NUL
  BY AtChar
<1>2. PICK l \in Nat : l = n + 2
  OBVIOUS
<1>3. PICK V : V = [type : {"IGNORE", "UNTERMINATED_COMMENT"}, end : Int]
  OBVIOUS
<1>4. PICK B : B = {j \in 1 .. l : Stops(j)}
  OBVIOUS
<1>5. PICK v : v = [j \in 1 .. l |-> StopsWith(j)]
  OBVIOUS
<1>6. v \in [1 .. l -> V]
  <2>1. \A j \in 1 .. l : StopsWith(j) \in V
    BY <1>1, <1>3 DEF StopsWith, S!Found
  <2> QED BY <1>5, <2>1
<1>7. ASSUME NEW j \in 1 .. l, j \notin B PROVE Skipped(j) \in j + 1 .. l
  <2>1. ~Stops(j)
    BY <1>4, <1>7
  <2>2. j \in 1 .. n + 1
    <3>1. SUFFICES ASSUME j = n + 2 PROVE FALSE
      BY <1>2
    <3>2. S!At(j) = S!NUL
      BY <1>1, <3>1
    <3>3. S!NUL \notin S!Whitespace /\ S!NUL # "/"
      BY DEF S!NUL, S!Whitespace
    <3> QED BY <2>1, <3>2, <3>3 DEF Stops, LineStarts, BlockStarts
  <2>3. Skipped(j) \in j + 1 .. n + 1
    BY <1>1, <2>1, <2>2, SkippedPiece
  <2> QED BY <1>2, <2>3
<1>8. PICK next : next = [j \in 1 .. l |-> IF j \in B THEN 0 ELSE Skipped(j)]
  OBVIOUS
<1>9. next \in [1 .. l -> Int]
  <2>1. \A j \in 1 .. l : (IF j \in B THEN 0 ELSE Skipped(j)) \in Int
    BY <1>7
  <2> QED BY <1>8, <2>1
<1>10. PICK G : G = [j \in 1 .. l |-> [x \in V |-> x]]
  OBVIOUS
<1>11. G \in [1 .. l -> [V -> V]]
  BY <1>10
<1>12. \A j \in 1 .. l : j \notin B => next[j] \in j + 1 .. l
  BY <1>7, <1>8
<1>13. PICK f : Backward(f, l, B, v, next, G) /\ f \in [1 .. l -> V]
  <2>1. l \in Nat /\ v \in [1 .. l -> V] /\ next \in [1 .. l -> Int] /\ G \in [1 .. l -> [V -> V]]
    BY <1>6, <1>9, <1>11
  <2>2. Onward(l, B, next)
    BY <1>12 DEF Onward
  <2> QED BY <2>1, <2>2, BackwardExists
<1>14. ASSUME NEW j \in 1 .. l
       PROVE  f[j] = IF j \in B THEN StopsWith(j) ELSE f[Skipped(j)]
  <2>1. CASE j \in B
    BY <1>5, <1>13, <2>1 DEF Backward
  <2>2. CASE j \notin B
    <3>1. next[j] = Skipped(j) /\ next[j] \in 1 .. l
      <4>1. next[j] \in j + 1 .. l
        BY <1>12, <2>2
      <4>2. next[j] = Skipped(j)
        BY <1>8, <2>2
      <4> QED BY <4>1, <4>2
    <3>2. f[next[j]] \in V
      BY <1>13, <3>1
    <3>3. G[j][f[next[j]]] = f[next[j]]
      BY <1>10, <3>2
    <3>4. f[j] = G[j][f[next[j]]]
      BY <1>13, <2>2 DEF Backward
    <3> QED BY <2>2, <3>1, <3>3, <3>4
  <2> QED BY <2>1, <2>2
<1>15. f = [j \in 1 .. l |-> IF j \in B THEN StopsWith(j) ELSE f[Skipped(j)]]
  <2>1. f = [j \in 1 .. l |-> f[j]]
    BY <1>13
  <2> QED BY <1>14, <2>1
<1>16. ASSUME NEW j \in 1 .. l
       PROVE  (IF j \in B THEN StopsWith(j) ELSE f[Skipped(j)])
              = (IF S!At(j) \in S!Whitespace THEN f[j + 1]
                 ELSE IF S!At(j) = "/" /\ S!At(j + 1) = "/" THEN f[S!After(S!Range(text) \ {"\n"}, j)]
                 ELSE IF S!At(j) = "/" /\ S!At(j + 1) = "*" /\ S!Unterminated(j + 1)
                   THEN S!Found("UNTERMINATED_COMMENT", Len(text) + 1)
                 ELSE IF S!At(j) = "/" /\ S!At(j + 1) = "*" THEN f[S!AfterComment(j + 1)]
                 ELSE S!Found("IGNORE", j))
  <2>1. j \in B <=> Stops(j)
    BY <1>4
  <2> QED BY <2>1, Zenon DEF Stops, StopsWith, Skipped, LineStarts, BlockStarts
<1>17. l = Len(text) + 2
  BY <1>1, <1>2
<1>18. Skips(f)
  BY <1>15, <1>16, <1>17 DEF Skips
<1> QED BY <1>18

Blank(j, r) ==
  /\ r.end \in j .. Len(text) + 1
  /\ r.type = "IGNORE" => /\ S!At(r.end) \notin S!Whitespace
                          /\ S!IsBlank(SubSeq(text, j, r.end - 1), Odd)
  /\ r.type # "IGNORE" => r.type = "UNTERMINATED_COMMENT" /\ r.end = Len(text) + 1

(* Where the scanner stops, only blanks and comments lie behind it. *)
LEMMA SkipsBlanks ==
  ASSUME text \in Seq(S!Char), NEW i \in 1 .. Len(text) + 1
  PROVE  Blank(i, S!skipWhitespace(i))
<1>1. PICK n \in Nat : n = Len(text)
  BY AtChar
<1>2. PICK l \in Nat : l = n + 1
  OBVIOUS
<1>3. PICK f : f = CHOOSE g : Skips(g)
  OBVIOUS
<1>4. Skips(f)
  BY <1>3, SkipsExist
<1>5. S!skipWhitespace(i) = f[i]
  BY <1>3, Zenon DEF S!skipWhitespace, Skips
<1>6. ASSUME NEW j \in 1 .. l
      PROVE  f[j] = IF Stops(j) THEN StopsWith(j) ELSE f[Skipped(j)]
  <2>1. j \in 1 .. Len(text) + 2
    BY <1>1, <1>2
  <2>2. f[j] = (IF S!At(j) \in S!Whitespace THEN f[j + 1]
                ELSE IF S!At(j) = "/" /\ S!At(j + 1) = "/" THEN f[S!After(S!Range(text) \ {"\n"}, j)]
                ELSE IF S!At(j) = "/" /\ S!At(j + 1) = "*" /\ S!Unterminated(j + 1)
                  THEN S!Found("UNTERMINATED_COMMENT", Len(text) + 1)
                ELSE IF S!At(j) = "/" /\ S!At(j + 1) = "*" THEN f[S!AfterComment(j + 1)]
                ELSE S!Found("IGNORE", j))
    BY <1>4, <2>1, Zenon DEF Skips
  <2> QED BY <2>2, Zenon DEF Stops, StopsWith, Skipped, LineStarts, BlockStarts
<1> DEFINE T == {j \in 1 .. l : Blank(j, f[j])}
<1>7. ASSUME NEW j \in 1 .. l, \A k \in j + 1 .. l : k \in T PROVE j \in T
  <2>1. j \in 1 .. Len(text) + 1
    BY <1>1, <1>2
  <2>2. CASE Stops(j)
    <3>1. f[j] = StopsWith(j)
      BY <1>6, <2>2
    <3>2. CASE BlockStarts(j)
      <4>1. f[j].type = "UNTERMINATED_COMMENT" /\ f[j].end = Len(text) + 1
        BY <3>1, <3>2 DEF StopsWith, S!Found
      <4>2. f[j].end \in j .. Len(text) + 1
        BY <1>1, <2>1, <4>1
      <4> QED BY <4>1, <4>2 DEF Blank
    <3>3. CASE ~BlockStarts(j)
      <4>1. f[j].type = "IGNORE" /\ f[j].end = j
        BY <3>1, <3>3 DEF StopsWith, S!Found
      <4>2. PICK q \in Int : q = j - 1
        BY <2>1
      <4>3. SubSeq(text, j, q) = <<>>
        <5>1. j \in 1 .. n + 1 /\ q \in j - 1 .. n
          BY <1>1, <2>1, <4>2
        <5>2. Len(SubSeq(text, j, q)) = q - j + 1 /\ SubSeq(text, j, q) \in Seq(S!Char)
          BY <1>1, <5>1, PartIs
        <5>3. q - j + 1 = 0
          BY <5>1, <4>2
        <5> QED BY <5>2, <5>3, EmptySeq
      <4>4. S!IsBlank(SubSeq(text, j, f[j].end - 1), Odd)
        BY <4>1, <4>2, <4>3, NothingIsBlank
      <4>5. S!At(f[j].end) \notin S!Whitespace
        BY <2>2, <4>1 DEF Stops
      <4>6. f[j].end \in j .. Len(text) + 1
        BY <1>1, <2>1, <4>1
      <4> QED BY <4>1, <4>4, <4>5, <4>6 DEF Blank
    <3> QED BY <3>2, <3>3
  <2>3. CASE ~Stops(j)
    <3>1. PICK m : m = Skipped(j)
      OBVIOUS
    <3>2. m \in j + 1 .. Len(text) + 1 /\ IsPiece(SubSeq(text, j, m - 1))
      BY <2>1, <2>3, <3>1, SkippedPiece
    <3>3. f[j] = f[m]
      BY <1>6, <2>3, <3>1
    <3>4. m \in j + 1 .. l
      BY <1>1, <1>2, <3>2
    <3>5. Blank(m, f[m])
      BY <1>7, <3>4
    <3>6. PICK r, k : r = f[m] /\ k = r.end
      OBVIOUS
    <3>7. k \in m .. Len(text) + 1
      BY <3>5, <3>6 DEF Blank
    <3>8. k \in j .. Len(text) + 1
      BY <1>1, <2>1, <3>2, <3>7
    <3>9. ASSUME r.type = "IGNORE" PROVE S!At(k) \notin S!Whitespace /\ S!IsBlank(SubSeq(text, j, k - 1), Odd)
      <4>1. S!IsBlank(SubSeq(text, m, k - 1), Odd) /\ S!At(k) \notin S!Whitespace
        BY <3>5, <3>6, <3>9 DEF Blank
      <4>2. S!IsBlank(SubSeq(text, j, k - 1), Odd)
        BY <2>1, <3>2, <3>7, <4>1, BlankBefore
      <4> QED BY <4>1, <4>2
    <3>10. r.type # "IGNORE" => r.type = "UNTERMINATED_COMMENT" /\ k = Len(text) + 1
      BY <3>5, <3>6 DEF Blank
    <3>11. Blank(j, r)
      BY <3>6, <3>8, <3>9, <3>10 DEF Blank
    <3> QED BY <3>3, <3>6, <3>11
  <2> QED BY <2>2, <2>3
<1>8. \A j \in 1 .. l : j \in T
  <2> HIDE DEF T
  <2> QED BY <1>7, DownFromN
<1>9. i \in 1 .. l
  BY <1>1, <1>2
<1> QED BY <1>5, <1>8, <1>9

(* string: how its loop goes on. *)
Closes(j) == S!At(j) \in {"\"", S!NUL}
ClosesWith(j) == [end |-> j, lines |-> 0, escape |-> FALSE]
Taken(j) == IF S!At(j) = "\\" THEN j + 2 ELSE j + 1
GoesOn(j, r) ==
  IF S!At(j) = "\\" THEN [r EXCEPT !.escape = @ \/ S!At(j + 1) \in S!Escaped]
  ELSE [r EXCEPT !.lines = @ + IF S!At(j) = "\n" THEN 1 ELSE 0]
Body(f) ==
  f = [j \in 1 .. Len(text) + 2 |->
        IF S!At(j) \in {"\"", S!NUL} THEN [end |-> j, lines |-> 0, escape |-> FALSE]
        ELSE IF S!At(j) = "\\" THEN [f[j + 2] EXCEPT !.escape = @ \/ S!At(j + 1) \in S!Escaped]
        ELSE [f[j + 1] EXCEPT !.lines = @ + IF S!At(j) = "\n" THEN 1 ELSE 0]]

LEMMA BodyExists ==
  ASSUME text \in Seq(S!Char), text # <<>> => text[Len(text)] # "\\"
  PROVE  \E f : Body(f)
<1>1. PICK n \in Nat : n = Len(text) /\ \A k \in Int : k > n => S!At(k) = S!NUL
  BY AtChar
<1>2. PICK l \in Nat : l = n + 2
  OBVIOUS
<1>3. PICK V : V = [end : Int, lines : Int, escape : BOOLEAN]
  OBVIOUS
<1>4. PICK B : B = {j \in 1 .. l : Closes(j)}
  OBVIOUS
<1>5. PICK v : v = [j \in 1 .. l |-> ClosesWith(j)]
  OBVIOUS
<1>6. v \in [1 .. l -> V]
  <2>1. \A j \in 1 .. l : ClosesWith(j) \in V
    BY <1>3 DEF ClosesWith
  <2> QED BY <1>5, <2>1
<1>7. ASSUME NEW j \in 1 .. l, j \notin B PROVE Taken(j) \in j + 1 .. l
  <2>1. ~Closes(j)
    BY <1>4, <1>7
  <2>2. j \in 1 .. n
    <3>1. SUFFICES ASSUME j > n PROVE FALSE
      BY <1>2
    <3>2. S!At(j) = S!NUL
      BY <1>1, <3>1
    <3> QED BY <2>1, <3>2 DEF Closes
  <2> QED BY <1>2, <2>2 DEF Taken
<1>8. PICK next : next = [j \in 1 .. l |-> Taken(j)]
  OBVIOUS
<1>9. next \in [1 .. l -> Int]
  <2>1. \A j \in 1 .. l : Taken(j) \in Int
    BY DEF Taken
  <2> QED BY <1>8, <2>1
<1>10. PICK G : G = [j \in 1 .. l |-> [r \in V |-> GoesOn(j, r)]]
  OBVIOUS
<1>11. G \in [1 .. l -> [V -> V]]
  <2>1. ASSUME NEW j \in 1 .. l, NEW r \in V PROVE GoesOn(j, r) \in V
    <3>1. r.lines \in Int /\ (r.lines + IF S!At(j) = "\n" THEN 1 ELSE 0) \in Int
      BY <1>3
    <3>2. PICK m \in Int : m = r.lines + IF S!At(j) = "\n" THEN 1 ELSE 0
      BY <3>1
    <3>3. [r EXCEPT !.lines = @ + IF S!At(j) = "\n" THEN 1 ELSE 0] = [end |-> r.end, lines |-> m, escape |-> r.escape]
      BY <1>3, <3>2
    <3>4. PICK b \in BOOLEAN : b = (r.escape \/ S!At(j + 1) \in S!Escaped)
      BY Zenon
    <3>5. [r EXCEPT !.escape = @ \/ S!At(j + 1) \in S!Escaped] = [end |-> r.end, lines |-> r.lines, escape |-> b]
      <4>1. r = [end |-> r.end, lines |-> r.lines, escape |-> r.escape]
        BY <1>3
      <4>2. [r EXCEPT !.escape = @ \/ S!At(j + 1) \in S!Escaped] = [r EXCEPT !.escape = b]
        BY <3>4, Zenon
      <4>3. [r EXCEPT !.escape = b] = [end |-> r.end, lines |-> r.lines, escape |-> b]
        BY <4>1
      <4> QED BY <4>2, <4>3
    <3> QED BY <1>3, <3>3, <3>5 DEF GoesOn
  <2> QED BY <1>10, <2>1
<1>12. Onward(l, B, next)
  <2>1. \A j \in 1 .. l : j \notin B => next[j] \in j + 1 .. l
    BY <1>7, <1>8
  <2> QED BY <2>1 DEF Onward
<1>13. PICK f : Backward(f, l, B, v, next, G) /\ f \in [1 .. l -> V]
  BY <1>6, <1>9, <1>11, <1>12, BackwardExists
<1>14. ASSUME NEW j \in 1 .. l
       PROVE  f[j] = IF Closes(j) THEN ClosesWith(j) ELSE GoesOn(j, f[Taken(j)])
  <2>1. j \in B <=> Closes(j)
    BY <1>4
  <2>2. CASE j \in B
    BY <1>5, <1>13, <2>1, <2>2 DEF Backward
  <2>3. CASE j \notin B
    <3>1. next[j] = Taken(j) /\ next[j] \in 1 .. l
      <4>1. next[j] \in j + 1 .. l
        BY <1>12, <2>3 DEF Onward
      <4> QED BY <1>8, <4>1
    <3>2. f[next[j]] \in V
      BY <1>13, <3>1
    <3>3. G[j][f[next[j]]] = GoesOn(j, f[next[j]])
      BY <1>10, <3>2
    <3>4. f[j] = G[j][f[next[j]]]
      BY <1>13, <2>3 DEF Backward
    <3> QED BY <2>1, <2>3, <3>1, <3>3, <3>4
  <2> QED BY <2>2, <2>3
<1>15. f = [j \in 1 .. l |-> IF Closes(j) THEN ClosesWith(j) ELSE GoesOn(j, f[Taken(j)])]
  <2>1. f = [j \in 1 .. l |-> f[j]]
    BY <1>13
  <2> QED BY <1>14, <2>1
<1>16. ASSUME NEW j \in 1 .. l
       PROVE  (IF Closes(j) THEN ClosesWith(j) ELSE GoesOn(j, f[Taken(j)]))
              = (IF S!At(j) \in {"\"", S!NUL} THEN [end |-> j, lines |-> 0, escape |-> FALSE]
                 ELSE IF S!At(j) = "\\" THEN [f[j + 2] EXCEPT !.escape = @ \/ S!At(j + 1) \in S!Escaped]
                 ELSE [f[j + 1] EXCEPT !.lines = @ + IF S!At(j) = "\n" THEN 1 ELSE 0])
  BY Zenon DEF Closes, ClosesWith, GoesOn, Taken
<1>17. l = Len(text) + 2
  BY <1>1, <1>2
<1>18. Body(f)
  BY <1>15, <1>16, <1>17 DEF Body
<1> QED BY <1>18

ReadString(j, r) ==
  /\ r = [end |-> r.end, lines |-> r.lines, escape |-> r.escape]
  /\ r.end \in j .. Len(text) + 1 /\ S!At(r.end) \in {"\"", S!NUL}
  /\ r.lines \in 0 .. r.end - j
  /\ NoNewlineTaken => r.lines = S!NewlinesIn(j, r.end)

(* A string ends at a quote or with the text, and its newlines are counted. *)
LEMMA StringRead ==
  ASSUME text \in Seq(S!Char), text # <<>> => text[Len(text)] # "\\", NEW i \in 1 .. Len(text) + 1
  PROVE  ReadString(i, S!string(i))
<1>1. PICK n \in Nat : /\ n = Len(text) /\ S!NUL \notin S!Char /\ \A k \in Int : k > n => S!At(k) = S!NUL
                       /\ \A k \in 1 .. n : S!At(k) = text[k] /\ S!At(k) \in S!Char
  BY AtChar
<1>2. PICK l \in Nat : l = n + 1
  OBVIOUS
<1>3. PICK f : f = CHOOSE g : Body(g)
  OBVIOUS
<1>4. Body(f)
  BY <1>3, BodyExists
<1>5. S!string(i) = f[i]
  BY <1>3, Zenon DEF S!string, Body
<1>6. ASSUME NEW j \in 1 .. l
      PROVE  f[j] = IF Closes(j) THEN ClosesWith(j) ELSE GoesOn(j, f[Taken(j)])
  <2>1. j \in 1 .. Len(text) + 2
    BY <1>1, <1>2
  <2>2. f[j] = (IF S!At(j) \in {"\"", S!NUL} THEN [end |-> j, lines |-> 0, escape |-> FALSE]
                ELSE IF S!At(j) = "\\" THEN [f[j + 2] EXCEPT !.escape = @ \/ S!At(j + 1) \in S!Escaped]
                ELSE [f[j + 1] EXCEPT !.lines = @ + IF S!At(j) = "\n" THEN 1 ELSE 0])
    BY <1>4, <2>1, Zenon DEF Body
  <2> QED BY <2>2, Zenon DEF Closes, ClosesWith, GoesOn, Taken
<1> DEFINE T == {j \in 1 .. l : ReadString(j, f[j])}
<1>7. ASSUME NEW j \in 1 .. l, \A k \in j + 1 .. l : k \in T PROVE j \in T
  <2>1. CASE Closes(j)
    <3>1. PICK r : r = f[j] /\ r = [end |-> j, lines |-> 0, escape |-> FALSE]
      BY <1>6, <2>1 DEF ClosesWith
    <3>2. S!NewlinesIn(j, j) = 0
      <4>1. \A k \in j .. j - 1 : S!At(k) # "\n"
        OBVIOUS
      <4> QED BY <4>1, NoNewlines
    <3>3. ReadString(j, r)
      <4>1. r.end = j /\ r.lines = 0 /\ j \in j .. Len(text) + 1 /\ 0 \in 0 .. j - j
        BY <1>1, <1>2, <3>1
      <4>3. r = [end |-> r.end, lines |-> r.lines, escape |-> r.escape]
        BY <3>1
      <4>2. S!At(j) \in {"\"", S!NUL}
        BY <2>1 DEF Closes
      <4> QED BY <3>2, <4>1, <4>2, <4>3 DEF ReadString
    <3> QED BY <3>1, <3>3
  <2>2. CASE ~Closes(j)
    <3>1. PICK m : m = Taken(j)
      OBVIOUS
    <3>2. PICK r : r = f[m]
      OBVIOUS
    <3>3. f[j] = GoesOn(j, r)
      BY <1>6, <2>2, <3>1, <3>2
    <3>4. j \in 1 .. n
      <4>1. j \in Int /\ (j > n => S!At(j) = S!NUL)
        BY <1>1
      <4>2. ~(j > n)
        BY <2>2, <4>1 DEF Closes
      <4> QED BY <1>2, <4>2
    <3>5. m \in j + 1 .. l
      <4>1. j = n => S!At(j) # "\\"
        <5>1. n > 0 => text # <<>>
          BY <1>1
        <5> QED BY <1>1, <3>4, <5>1
      <4> QED BY <1>2, <3>1, <3>4, <4>1 DEF Taken
    <3>6. ReadString(m, r)
      BY <1>7, <3>2, <3>5
    <3>7. PICK e, q : e = r.end /\ q = r.lines
      OBVIOUS
    <3>12. r = [end |-> e, lines |-> q, escape |-> r.escape] /\ e \in m .. l /\ S!At(e) \in {"\"", S!NUL}
      BY <1>1, <1>2, <3>6, <3>7 DEF ReadString
    <3>16. r = [end |-> r.end, lines |-> r.lines, escape |-> r.escape]
      BY <3>6 DEF ReadString
    <3>13. m \in Int /\ e \in Int /\ m <= e /\ e <= l /\ j < m /\ j \in Int
      <4>1. e \in m .. l
        BY <3>12
      <4> QED BY <1>2, <3>5, <4>1
    <3>14. q \in 0 .. e - m
      BY <3>6, <3>7 DEF ReadString
    <3>15. NoNewlineTaken => q = S!NewlinesIn(m, e)
      BY <3>6, <3>7 DEF ReadString
    <3>9. S!NewlinesIn(j, e) = S!NewlinesIn(j, m) + S!NewlinesIn(m, e)
      BY <3>13, NewlinesAdd
    <3>10. CASE S!At(j) = "\\"
      <4>1. m = j + 2
        BY <3>1, <3>10 DEF Taken
      <4>2. f[j] = [r EXCEPT !.escape = @ \/ S!At(j + 1) \in S!Escaped]
        BY <3>3, <3>10, Zenon DEF GoesOn
      <4>3. PICK b : b = (r.escape \/ S!At(j + 1) \in S!Escaped)
        BY Zenon
      <4>4. f[j] = [r EXCEPT !.escape = b]
        BY <4>2, <4>3, Zenon
      <4>5. f[j] = [end |-> e, lines |-> q, escape |-> b]
        <5>1. f[j] = [end |-> r.end, lines |-> r.lines, escape |-> b]
          BY <3>16, <4>4
        <5> QED BY <3>7, <5>1
      <4>6. NoNewlineTaken => S!NewlinesIn(j, m) = 0
        <5>1. SUFFICES ASSUME NoNewlineTaken PROVE S!NewlinesIn(j, m) = 0
          OBVIOUS
        <5>2. j \in 1 .. n - 1 /\ j + 1 \in 1 .. n
          BY <1>2, <3>5, <4>1
        <5>3. text[j + 1] = "\n" => text[j] # "\\"
          BY <1>1, <5>1, <5>2 DEF NoNewlineTaken
        <5>4. S!At(j + 1) # "\n"
          BY <1>1, <3>4, <3>10, <5>2, <5>3
        <5>5. \A k \in j .. m - 1 : S!At(k) # "\n"
          BY <3>10, <4>1, <5>4
        <5> QED BY <3>13, <5>5, NoNewlines
      <4>7. PICK s : s = f[j] /\ s.end = e /\ s.lines = q /\ s.escape = b
        BY <4>5
      <4>8. ReadString(j, s)
        <5>1. s = [end |-> s.end, lines |-> s.lines, escape |-> s.escape]
          BY <4>5, <4>7
        <5>2. s.end \in j .. Len(text) + 1 /\ S!At(s.end) \in {"\"", S!NUL} /\ s.lines \in 0 .. s.end - j
          <6>1. e \in j .. Len(text) + 1
            BY <1>1, <1>2, <3>13
          <6>2. q \in 0 .. e - j
            BY <3>13, <3>14
          <6> QED BY <3>12, <4>7, <6>1, <6>2
        <5>3. NoNewlineTaken => s.lines = S!NewlinesIn(j, s.end)
          BY <3>9, <3>13, <3>14, <3>15, <4>6, <4>7
        <5> QED BY <5>1, <5>2, <5>3 DEF ReadString
      <4> QED BY <4>7, <4>8
    <3>11. CASE S!At(j) # "\\"
      <4>1. m = j + 1
        BY <3>1, <3>11 DEF Taken
      <4>2. f[j] = [r EXCEPT !.lines = @ + IF S!At(j) = "\n" THEN 1 ELSE 0]
        BY <3>3, <3>11, Zenon DEF GoesOn
      <4>3. PICK c \in Int : c = q + (IF S!At(j) = "\n" THEN 1 ELSE 0)
        BY <3>14
      <4>4. f[j] = [end |-> e, lines |-> c, escape |-> r.escape]
        <5>1. f[j] = [r EXCEPT !.lines = c]
          BY <3>7, <4>2, <4>3, Zenon
        <5>2. f[j] = [end |-> r.end, lines |-> c, escape |-> r.escape]
          BY <3>16, <5>1
        <5> QED BY <3>7, <5>2
      <4>5. S!NewlinesIn(j, m) = IF S!At(j) = "\n" THEN 1 ELSE 0
        <5>1. CASE S!At(j) = "\n"
          BY <4>1, <5>1, OneNewline
        <5>2. CASE S!At(j) # "\n"
          <6>1. \A k \in j .. m - 1 : S!At(k) # "\n"
            BY <4>1, <5>2
          <6>2. S!NewlinesIn(j, m) = 0
            BY <3>13, <6>1, NoNewlines
          <6> QED BY <5>2, <6>2
        <5> QED BY <5>1, <5>2
      <4>6. PICK s : s = f[j] /\ s.end = e /\ s.lines = c /\ s.escape = r.escape
        BY <4>4
      <4>7. ReadString(j, s)
        <5>1. s = [end |-> s.end, lines |-> s.lines, escape |-> s.escape]
          BY <4>4, <4>6
        <5>2. s.end \in j .. Len(text) + 1 /\ S!At(s.end) \in {"\"", S!NUL} /\ s.lines \in 0 .. s.end - j
          <6>1. e \in j .. Len(text) + 1
            BY <1>1, <1>2, <3>13
          <6>2. c \in 0 .. e - j
            BY <3>13, <3>14, <4>1, <4>3
          <6> QED BY <3>12, <4>6, <6>1, <6>2
        <5>3. NoNewlineTaken => s.lines = S!NewlinesIn(j, s.end)
          <6>1. PICK a \in Int : a = IF S!At(j) = "\n" THEN 1 ELSE 0
            OBVIOUS
          <6>2. c = q + a /\ S!NewlinesIn(j, m) = a
            BY <3>7, <4>3, <4>5, <6>1
          <6>3. q \in Int
            BY <3>13, <3>14
          <6>4. NoNewlineTaken => S!NewlinesIn(j, e) = c
            BY <3>9, <3>15, <6>1, <6>2, <6>3
          <6> QED BY <4>6, <6>4
        <5> QED BY <5>1, <5>2, <5>3 DEF ReadString
      <4> QED BY <4>6, <4>7
    <3> QED BY <3>10, <3>11
  <2> QED BY <2>1, <2>2
<1>8. \A j \in 1 .. l : j \in T
  <2> HIDE DEF T
  <2> QED BY <1>7, DownFromN
<1>9. i \in 1 .. l
  BY <1>1, <1>2
<1> QED BY <1>5, <1>8, <1>9

(* A token from i on, up to its end, has no newline of which NoNewlineTaken  *)
(* knows nothing.                                                            *)
Clean(i, e) == e \in i .. Len(text) + 1 /\ \A k \in i .. e - 1 : S!At(k) # "\n"
Reads(i, t) ==
  /\ t.end \in i .. Len(text) + 1
  /\ NoNewlineTaken /\ t.type # "ERROR" => Clean(i, t.end)

LEMMA CleanOne ==
  ASSUME text \in Seq(S!Char), NEW i \in 1 .. Len(text) + 1, S!At(i) # S!NUL
  PROVE  i \in 1 .. Len(text) /\ i + 1 \in 1 .. Len(text) + 1 /\ (S!At(i) # "\n" => Clean(i, i + 1))
<1>1. PICK n \in Nat : n = Len(text) /\ \A k \in Int : k > n => S!At(k) = S!NUL
  BY AtChar
<1>2. i \in 1 .. n
  BY <1>1
<1>3. i + 1 \in i .. n + 1 /\ i + 1 \in 1 .. n + 1
  BY <1>1, <1>2
<1>4. ASSUME S!At(i) # "\n" PROVE \A k \in i .. (i + 1) - 1 : S!At(k) # "\n"
  BY <1>2, <1>4
<1> QED BY <1>1, <1>2, <1>3, <1>4 DEF Clean

LEMMA CleanOn ==
  ASSUME text \in Seq(S!Char), NEW i \in 1 .. Len(text) + 1, NEW j \in 1 .. Len(text) + 1, NEW e, Clean(i, j), Clean(j, e)
  PROVE  Clean(i, e)
<1>1. PICK n \in Nat : n = Len(text)
  BY AtChar
<1>2. j \in i .. n + 1 /\ e \in j .. n + 1
  BY <1>1 DEF Clean
<1>3. e \in i .. n + 1 /\ \A k \in i .. e - 1 : k \in i .. j - 1 \/ k \in j .. e - 1
  BY <1>1, <1>2
<1> QED BY <1>1, <1>3 DEF Clean

LEMMA CleanAfter ==
  ASSUME text \in Seq(S!Char), NEW i \in 1 .. Len(text) + 1, NEW X, X \subseteq S!Letter \cup S!Digit
  PROVE  Clean(i, S!After(X, i)) /\ S!After(X, i) \in 1 .. Len(text) + 1
<1>1. PICK n \in Nat : n = Len(text)
  BY AtChar
<1>2. S!NUL \notin X /\ "\n" \notin X
  BY DEF S!NUL, S!Letter, S!Digit
<1>3. S!After(X, i) \in i .. n + 1 /\ \A k \in i .. S!After(X, i) - 1 : S!At(k) \in X
  BY <1>1, <1>2, AfterStops
<1>4. S!After(X, i) \in 1 .. n + 1
  BY <1>1, <1>3
<1> QED BY <1>1, <1>2, <1>3, <1>4 DEF Clean

(* number, its first digit at i. *)
LEMMA NumberReads ==
  ASSUME ReadInside(text), NEW i \in 1 .. Len(text), S!At(i) \in S!Digit
  PROVE  Reads(i, S!number(i + 1))
<1>1. /\ text \in Seq(S!Char)
      /\ Len(text) > 1 /\ text[Len(text) - 1] \in S!Digit => text[Len(text)] \notin {"b", "x"}
  BY DEF ReadInside
<1>2. PICK n \in Nat : /\ n = Len(text) /\ S!NUL \notin S!Char /\ \A k \in Int : k > n => S!At(k) = S!NUL
                       /\ \A k \in 1 .. n : S!At(k) = text[k] /\ S!At(k) \in S!Char
  BY <1>1, AtChar
<1>3. PICK j \in 1 .. n + 1 : j = i + 1 /\ j - 1 = i
  BY <1>2
<1>4. S!NUL \notin S!Digit /\ "\n" \notin S!Digit /\ S!NUL \notin S!HexDigit /\ S!NUL \notin S!BinDigit
      /\ S!NUL \notin {".", "e", "b", "x", "+"} /\ S!BinDigit \subseteq S!Letter \cup S!Digit
      /\ S!HexDigit \subseteq S!Letter \cup S!Digit
  BY DEF S!NUL, S!Digit, S!HexDigit, S!BinDigit, S!Letter
<1>5. Clean(i, j)
  <2>1. i \in 1 .. Len(text) + 1 /\ S!At(i) # S!NUL /\ S!At(i) # "\n"
    BY <1>2, <1>4
  <2> QED BY <1>1, <1>3, <2>1, CleanOne
<1>6. ASSUME NEW type, NEW digits \in {S!BinDigit, S!HexDigit}, S!At(j) \in {"b", "x"},
             NEW r, r = S!BaseNumber(type, digits, j)
      PROVE  Reads(i, r)
  <2>1. j \in 1 .. n
    <3>1. S!At(j) # S!NUL
      BY <1>4, <1>6
    <3>2. j > n => S!At(j) = S!NUL
      BY <1>2, <1>3
    <3> QED BY <1>2, <1>3, <3>1, <3>2
  <2>2. j \in 1 .. n - 1
    <3>1. SUFFICES ASSUME j = n PROVE FALSE
      BY <1>2, <2>1
    <3>2. Len(text) > 1 /\ Len(text) - 1 = i
      BY <1>2, <1>3, <3>1
    <3>3. text[i] \in S!Digit /\ text[Len(text)] \in {"b", "x"}
      BY <1>2, <1>6, <2>1, <3>1
    <3> QED BY <1>1, <3>2, <3>3
  <2>3. PICK k, l : k = j + 1 /\ l = j + 2
    OBVIOUS
  <2>4. k \in 1 .. n /\ l \in 1 .. n + 1 /\ l = k + 1 /\ k - 1 = j
    BY <1>2, <2>2, <2>3
  <2>5. NoNewlineTaken => Clean(i, l)
    <3>1. SUFFICES ASSUME NoNewlineTaken PROVE Clean(i, l)
      OBVIOUS
    <3>2. S!At(k) # "\n"
      <4>1. j > 1 /\ text[j - 1] \in S!Digit /\ text[j] \in {"b", "x"}
        BY <1>2, <1>3, <1>6, <2>1
      <4>2. j \in 1 .. Len(text) - 1
        BY <1>2, <2>2
      <4>3. text[j + 1] # "\n"
        BY <3>1, <4>1, <4>2 DEF NoNewlineTaken
      <4> QED BY <1>2, <2>3, <2>4, <4>3
    <3>3. Clean(j, k)
      <4>1. S!At(j) # "\n" /\ S!At(j) # S!NUL
        BY <1>4, <1>6
      <4>2. j \in 1 .. Len(text) + 1
        BY <1>2
      <4> QED BY <1>1, <2>3, <4>1, <4>2, CleanOne
    <3>4. Clean(k, l)
      <4>1. k \in 1 .. Len(text) + 1 /\ S!At(k) # S!NUL
        BY <1>2, <2>4
      <4> QED BY <1>1, <2>4, <3>2, <4>1, CleanOne
    <3>5. i \in 1 .. Len(text) + 1 /\ j \in 1 .. Len(text) + 1 /\ k \in 1 .. Len(text) + 1 /\ l \in 1 .. Len(text) + 1
      BY <1>2, <2>4
    <3>6. Clean(i, k)
      BY <1>1, <1>5, <3>3, <3>5, CleanOn
    <3> QED BY <1>1, <3>4, <3>5, <3>6, CleanOn
  <2>6. CASE S!At(l) \in digits
    <3>1. r = S!Found(type, S!After(digits, l))
      BY <1>6, <2>3, <2>6 DEF S!BaseNumber
    <3>2. PICK e : e = S!After(digits, l)
      OBVIOUS
    <3>3. l \in 1 .. Len(text) + 1 /\ i \in 1 .. Len(text) + 1
      BY <1>2, <2>4
    <3>4. Clean(l, e)
      BY <1>1, <1>4, <1>6, <3>2, <3>3, CleanAfter
    <3>5. NoNewlineTaken => Clean(i, e)
      BY <1>1, <2>5, <3>3, <3>4, CleanOn
    <3>6. e \in i .. Len(text) + 1
      <4>1. e \in l .. n + 1
        BY <1>2, <3>4 DEF Clean
      <4> QED BY <1>2, <1>3, <2>3, <4>1
    <3>7. r.end = e
      BY <3>1, <3>2 DEF S!Found
    <3> QED BY <3>5, <3>6, <3>7 DEF Reads
  <2>7. CASE S!At(l) \notin digits
    <3>1. r = S!Found("ERROR", l)
      BY <1>6, <2>3, <2>7 DEF S!BaseNumber
    <3>2. l \in i .. Len(text) + 1
      BY <1>2, <1>3, <2>3, <2>4
    <3> QED BY <3>1, <3>2 DEF S!Found, Reads
  <2> QED BY <2>6, <2>7
<1>7. ASSUME NEW p \in 1 .. n + 1, Clean(i, p) PROVE Clean(i, S!Fraction(p)) /\ S!Fraction(p) \in 1 .. n + 1
  <2>1. CASE S!At(p) = "." /\ S!At(p + 1) \in S!Digit
    <3>1. PICK q : q = p + 1
      OBVIOUS
    <3>2. p \in 1 .. Len(text) + 1 /\ S!At(p) # S!NUL /\ S!At(p) # "\n" /\ i \in 1 .. Len(text) + 1
      BY <1>2, <1>4, <2>1
    <3>3. Clean(p, q) /\ q \in 1 .. Len(text) + 1
      BY <1>1, <3>1, <3>2, CleanOne
    <3>4. Clean(q, S!After(S!Digit, q)) /\ S!After(S!Digit, q) \in 1 .. Len(text) + 1
      BY <1>1, <3>3, CleanAfter
    <3>5. Clean(i, q)
      BY <1>1, <1>7, <3>2, <3>3, CleanOn
    <3>6. Clean(i, S!After(S!Digit, q))
      BY <1>1, <3>2, <3>3, <3>4, <3>5, CleanOn
    <3> QED BY <1>2, <2>1, <3>1, <3>4, <3>6 DEF S!Fraction
  <2>2. CASE ~(S!At(p) = "." /\ S!At(p + 1) \in S!Digit)
    BY <1>7, <2>2 DEF S!Fraction
  <2> QED BY <2>1, <2>2
<1>8. ASSUME NEW p \in 1 .. n + 1, Clean(i, p) PROVE Reads(i, S!Exponent(p))
  <2>1. p \in i .. n + 1 /\ p \in 1 .. Len(text) + 1 /\ i \in 1 .. Len(text) + 1
    BY <1>2, <1>8 DEF Clean
  <2>2. CASE S!At(p) # "e"
    <3>1. S!Exponent(p) = S!Found("NUMBER", p)
      BY <2>2 DEF S!Exponent
    <3> QED BY <1>2, <1>8, <2>1, <3>1 DEF S!Found, Reads
  <2>3. CASE S!At(p) = "e"
    <3>1. PICK q : q = p + 1
      OBVIOUS
    <3>2. Clean(p, q) /\ q \in 1 .. Len(text) + 1
      <4>1. S!At(p) # S!NUL /\ S!At(p) # "\n"
        BY <1>4, <2>3
      <4> QED BY <1>1, <2>1, <3>1, <4>1, CleanOne
    <3>3. Clean(i, q)
      BY <1>1, <1>8, <2>1, <3>2, CleanOn
    <3>4. PICK sign : sign = IF S!At(q) = "+" THEN p + 2 ELSE q
      OBVIOUS
    <3>5. Clean(i, sign) /\ sign \in 1 .. Len(text) + 1
      <4>1. CASE S!At(q) = "+"
        <5>1. sign = q + 1
          BY <2>1, <3>1, <3>4, <4>1
        <5>2. S!At(q) # S!NUL /\ S!At(q) # "\n"
          BY <1>4, <4>1
        <5>3. Clean(q, sign) /\ sign \in 1 .. Len(text) + 1
          BY <1>1, <3>2, <5>1, <5>2, CleanOne
        <5> QED BY <1>1, <2>1, <3>2, <3>3, <5>3, CleanOn
      <4>2. CASE S!At(q) # "+"
        BY <3>2, <3>3, <3>4, <4>2
      <4> QED BY <4>1, <4>2
    <3>6. CASE S!At(sign) \notin S!Digit
      <4>1. S!Exponent(p) = S!Found("ERROR", sign)
        BY <2>3, <3>1, <3>4, <3>6, Zenon DEF S!Exponent
      <4>2. sign \in i .. Len(text) + 1
        BY <3>5 DEF Clean
      <4> QED BY <4>1, <4>2 DEF S!Found, Reads
    <3>7. CASE S!At(sign) \in S!Digit
      <4>1. S!Exponent(p) = S!Found("NUMBER", S!After(S!Digit, sign))
        BY <2>3, <3>1, <3>4, <3>7, Zenon DEF S!Exponent
      <4>2. PICK e : e = S!After(S!Digit, sign)
        OBVIOUS
      <4>3. Clean(sign, e)
        BY <1>1, <3>5, <4>2, CleanAfter
      <4>4. Clean(i, e)
        BY <1>1, <2>1, <3>5, <4>3, CleanOn
      <4>5. e \in i .. Len(text) + 1
        BY <4>4 DEF Clean
      <4> QED BY <4>1, <4>2, <4>4, <4>5 DEF S!Found, Reads
    <3> QED BY <3>6, <3>7
  <2> QED BY <2>2, <2>3
<1>9. CASE S!At(j) = "b"
  <2>1. S!number(j) = S!BaseNumber("NUMBER_BIN", S!BinDigit, j)
    BY <1>9 DEF S!number
  <2> QED BY <1>3, <1>6, <1>9, <2>1
<1>10. CASE S!At(j) = "x"
  <2>1. S!number(j) = S!BaseNumber("NUMBER_HEX", S!HexDigit, j)
    BY <1>10 DEF S!number
  <2> QED BY <1>3, <1>6, <1>10, <2>1
<1>11. CASE S!At(j) \notin {"b", "x"}
  <2>1. S!number(j) = S!Exponent(S!Fraction(S!After(S!Digit, j)))
    BY <1>11 DEF S!number
  <2>2. j \in 1 .. Len(text) + 1 /\ i \in 1 .. Len(text) + 1
    BY <1>2
  <2>3. PICK p : p = S!After(S!Digit, j)
    OBVIOUS
  <2>4. Clean(j, p) /\ p \in 1 .. n + 1
    BY <1>1, <1>2, <2>2, <2>3, CleanAfter
  <2>5. Clean(i, p)
    BY <1>1, <1>5, <2>2, <2>4, CleanOn
  <2>6. PICK q : q = S!Fraction(p)
    OBVIOUS
  <2>7. Clean(i, q) /\ q \in 1 .. n + 1
    BY <1>7, <2>4, <2>5, <2>6
  <2> QED BY <1>3, <1>8, <2>1, <2>3, <2>6, <2>7
<1> QED BY <1>9, <1>10, <1>11

(* Any token but a string. *)
LEMMA TokenReads ==
  ASSUME ReadInside(text), NEW i \in 1 .. Len(text) + 1, S!At(i) \notin S!Whitespace
  PROVE  Reads(i, S!TokenAt(i))
<1>1. text \in Seq(S!Char)
  BY DEF ReadInside
<1>2. PICK n \in Nat : /\ n = Len(text) /\ S!NUL \notin S!Char /\ \A k \in Int : k > n => S!At(k) = S!NUL
                       /\ \A k \in 1 .. n : S!At(k) = text[k] /\ S!At(k) \in S!Char
  BY <1>1, AtChar
<1>3. S!NUL \notin {"@", ">", "="} \cup S!Letter \cup S!Digit /\ "\n" \notin {"@", ">", "="} \cup S!Letter \cup S!Digit
  BY DEF S!NUL, S!Letter, S!Digit
<1>4. PICK t, c : t = S!TokenAt(i) /\ c = S!At(i)
  OBVIOUS
<1>5. CASE c = S!NUL
  <2>1. t = S!Found("EOF", i)
    BY <1>4, <1>5 DEF S!TokenAt
  <2>2. i \in i .. n + 1 /\ \A k \in i .. i - 1 : FALSE
    BY <1>2
  <2>3. Clean(i, i)
    BY <1>2, <2>2 DEF Clean
  <2> QED BY <1>2, <1>4, <2>1, <2>2, <2>3 DEF S!Found, Reads
<1>6. ASSUME c # S!NUL PROVE Reads(i, t)
  <2>1. PICK j : j = i + 1
    OBVIOUS
  <2>2. i \in 1 .. n /\ j \in 1 .. n + 1 /\ Clean(i, j)
    <3>1. "\n" \in S!Whitespace
      BY DEF S!Whitespace
    <3> QED BY <1>1, <1>2, <1>4, <1>6, <2>1, <3>1, CleanOne
  <2>3. ASSUME NEW e, Clean(i, e), NEW type, t = S!Found(type, e) PROVE Reads(i, t)
    <3>1. e \in i .. Len(text) + 1
      BY <2>3 DEF Clean
    <3> QED BY <2>3, <3>1 DEF S!Found, Reads
  <2>4. ASSUME NEW p \in 1 .. n + 1, Clean(i, p), S!At(p) # S!NUL, S!At(p) # "\n", NEW q, q = p + 1
        PROVE  Clean(i, q) /\ q \in 1 .. n + 1
    <3>1. p \in 1 .. Len(text) + 1
      BY <1>2
    <3>2. Clean(p, q) /\ q \in 1 .. n + 1
      BY <1>1, <1>2, <2>4, <3>1, CleanOne
    <3> QED BY <1>1, <2>4, <3>1, <3>2, CleanOn
  <2>5. Clean(i, S!After(S!Letter \cup S!Digit, j))
    <3>1. j \in 1 .. Len(text) + 1
      BY <1>2, <2>2
    <3>2. Clean(j, S!After(S!Letter \cup S!Digit, j))
      BY <1>1, <3>1, CleanAfter
    <3> QED BY <1>1, <2>2, <3>1, <3>2, CleanOn
  <2>6. CASE c \in S!Letter
    <3>1. t = S!identifier(i, j)
      BY <1>4, <1>6, <2>1, <2>6 DEF S!TokenAt
    <3>2. \E type : t = S!Found(type, S!After(S!Letter \cup S!Digit, j))
      BY <3>1 DEF S!identifier
    <3> QED BY <2>3, <2>5, <3>2
  <2>7. CASE c \in S!Digit
    <3>1. t = S!number(j)
      <4>1. c \notin S!Letter
        BY <2>7 DEF S!Letter, S!Digit
      <4> QED BY <1>4, <1>6, <2>1, <2>7, <4>1 DEF S!TokenAt
    <3>2. i \in 1 .. Len(text)
      BY <1>2, <2>2
    <3> QED BY <1>4, <2>1, <2>7, <3>1, <3>2, NumberReads
  <2>8. CASE c = "@"
    <3>1. t = IF S!At(j) \in S!Letter THEN S!mention(i, j) ELSE S!Found("ERROR", j)
      <4>1. c \notin S!Letter /\ c \notin S!Digit
        BY <2>8 DEF S!Letter, S!Digit
      <4> QED BY <1>4, <1>6, <2>1, <2>8, <4>1 DEF S!TokenAt
    <3>2. CASE S!At(j) \in S!Letter
      <4>1. \E type : t = S!Found(type, S!After(S!Letter \cup S!Digit, j))
        BY <3>1, <3>2 DEF S!mention
      <4> QED BY <2>3, <2>5, <4>1
    <3>3. CASE S!At(j) \notin S!Letter
      BY <2>2, <2>3, <3>1, <3>3
    <3> QED BY <3>2, <3>3
  <2>9. CASE c = ">"
    <3>1. t = S!greater(j)
      <4>1. c \notin S!Letter /\ c \notin S!Digit /\ c # "@"
        BY <2>9 DEF S!Letter, S!Digit
      <4> QED BY <1>4, <1>6, <2>1, <2>9, <4>1 DEF S!TokenAt
    <3>2. PICK k : k = j + 1
      OBVIOUS
    <3>3. k + 1 = j + 2
      BY <2>2, <3>2
    <3>4. CASE S!At(j) # ">"
      <4>1. CASE S!At(j) = "="
        <5>1. Clean(i, k)
          BY <1>3, <2>2, <2>4, <3>2, <4>1
        <5>2. t = S!Found("GREATER_EQUAL", k)
          BY <3>1, <3>2, <3>4, <4>1 DEF S!greater
        <5> QED BY <2>3, <5>1, <5>2
      <4>2. CASE S!At(j) # "="
        <5>1. t = S!Found("GREATER", j)
          BY <3>1, <3>4, <4>2 DEF S!greater
        <5> QED BY <2>2, <2>3, <5>1
      <4> QED BY <4>1, <4>2
    <3>5. CASE S!At(j) = ">"
      <4>1. Clean(i, k) /\ k \in 1 .. n + 1
        BY <1>3, <2>2, <2>4, <3>2, <3>5
      <4>2. CASE S!At(k) = ">"
        <5>1. PICK m : m = k + 1
          OBVIOUS
        <5>2. Clean(i, m)
          BY <1>3, <2>4, <4>1, <4>2, <5>1
        <5>3. t = S!Found("BIT_SHR", m)
          BY <3>1, <3>2, <3>3, <3>5, <4>2, <5>1 DEF S!greater
        <5> QED BY <2>3, <5>2, <5>3
      <4>3. CASE S!At(k) # ">"
        <5>1. t = S!Found("BIT_SAR", k)
          BY <3>1, <3>2, <3>5, <4>3 DEF S!greater
        <5> QED BY <2>3, <4>1, <5>1
      <4> QED BY <4>2, <4>3
    <3> QED BY <3>4, <3>5
  <2>10. CASE c = "="
    <3>1. t = IF S!At(j) = "=" THEN S!Found("EQUAL_EQUAL", i + 2) ELSE S!Found("EQUAL", j)
      <4>1. c \notin S!Letter /\ c \notin S!Digit /\ c # "@" /\ c # ">"
        BY <2>10 DEF S!Letter, S!Digit
      <4> QED BY <1>4, <1>6, <2>1, <2>10, <4>1 DEF S!TokenAt
    <3>2. CASE S!At(j) = "="
      <4>1. PICK k : k = i + 2 /\ k = j + 1
        BY <2>1, <2>2
      <4>2. Clean(i, k)
        BY <1>3, <2>2, <2>4, <3>2, <4>1
      <4> QED BY <2>3, <3>1, <3>2, <4>1, <4>2
    <3>3. CASE S!At(j) # "="
      BY <2>2, <2>3, <3>1, <3>3
    <3> QED BY <3>2, <3>3
  <2>11. CASE c \notin {"@", ">", "="} \cup S!Letter \cup S!Digit
    <3>1. t = S!other(c, j)
      BY <1>4, <1>6, <2>1, <2>11 DEF S!TokenAt
    <3>2. CASE c \in {".", "+", "*", "/", ","}
      <4>1. t = S!Found(c, j)
        BY <3>1, <3>2 DEF S!other
      <4> QED BY <2>2, <2>3, <4>1
    <3>3. CASE c \notin {".", "+", "*", "/", ","} /\ S!At(j) = S!NUL
      <4>1. t = S!Found("EOF", j)
        BY <3>1, <3>3 DEF S!other
      <4> QED BY <2>2, <2>3, <4>1
    <3>4. CASE c \notin {".", "+", "*", "/", ","} /\ S!At(j) # S!NUL
      <4>1. t = S!Found("ERROR", j + 1)
        BY <3>1, <3>4 DEF S!other
      <4>2. j \in 1 .. n
        <5>1. j \in Int /\ (j > n => S!At(j) = S!NUL)
          BY <1>2, <2>2
        <5>2. ~(j > n)
          BY <3>4, <5>1
        <5>3. n \in Int /\ j \in 1 .. n + 1
          BY <1>2, <2>2
        <5> QED BY <5>1, <5>2, <5>3
      <4>3. j + 1 \in i .. Len(text) + 1
        BY <1>2, <2>1, <4>2
      <4> QED BY <4>1, <4>3 DEF S!Found, Reads
    <3> QED BY <3>2, <3>3, <3>4
  <2> QED BY <2>6, <2>7, <2>8, <2>9, <2>10, <2>11
<1> QED BY <1>4, <1>5, <1>6

(* scanToken, from i on in line l. *)
Scanned(i, l) ==
  LET blank == S!skipWhitespace(i)
      start == blank.end
      before == l + S!NewlinesIn(i, start)
      s == S!string(start + 1)
      found == S!TokenAt(start)
  IN  IF blank.type = "UNTERMINATED_COMMENT" THEN S!makeToken("ERROR", start, start, before)
      ELSE IF S!At(start) = "\""
        THEN S!makeToken(S!StringType(s), start, IF S!At(s.end) = S!NUL THEN s.end ELSE s.end + 1,
                         before + s.lines)
      ELSE S!makeToken(found.type, start, found.end, before)

LEMMA ScanIs ==
  ASSUME S!scanToken
  PROVE  token' = Scanned(current, line) /\ current' = token'.end /\ line' = token'.line /\ text' = text
BY Zenon DEF S!scanToken, Scanned

(* The token t, scanned from i on in line l. *)
Follows(i, l, t) ==
  /\ t.start \in i .. Len(text) + 1 /\ t.end \in t.start .. Len(text) + 1
  /\ t.line \in l .. t.end
  /\ t.type # "ERROR" => S!IsBlank(SubSeq(text, i, t.start - 1), Odd)
  /\ t.type # "ERROR" /\ NoNewlineTaken => t.line = l + S!NewlinesIn(i, t.end)

LEMMA ScanFollows ==
  ASSUME ReadInside(text), NEW i \in 1 .. Len(text) + 1, NEW l \in 1 .. i
  PROVE  Follows(i, l, Scanned(i, l))
<1>1. text \in Seq(S!Char) /\ (text # <<>> => text[Len(text)] # "\\")
  BY DEF ReadInside
<1>2. PICK n \in Nat : /\ n = Len(text) /\ S!NUL \notin S!Char /\ \A k \in Int : k > n => S!At(k) = S!NUL
                       /\ \A k \in 1 .. n : S!At(k) = text[k] /\ S!At(k) \in S!Char
  BY <1>1, AtChar
<1>3. PICK blank : blank = S!skipWhitespace(i)
  OBVIOUS
<1>4. PICK a : a = blank.end
  OBVIOUS
<1>5. PICK before : before = l + S!NewlinesIn(i, a)
  OBVIOUS
<1>6. PICK s : s = S!string(a + 1)
  OBVIOUS
<1>7. PICK found : found = S!TokenAt(a)
  OBVIOUS
<1>8. PICK t : t = Scanned(i, l)
  OBVIOUS
<1>9. t = IF blank.type = "UNTERMINATED_COMMENT" THEN S!makeToken("ERROR", a, a, before)
          ELSE IF S!At(a) = "\""
            THEN S!makeToken(S!StringType(s), a, IF S!At(s.end) = S!NUL THEN s.end ELSE s.end + 1,
                             before + s.lines)
          ELSE S!makeToken(found.type, a, found.end, before)
  BY <1>3, <1>4, <1>5, <1>6, <1>7, <1>8, Zenon DEF Scanned
<1>10. Blank(i, blank)
  BY <1>1, <1>3, SkipsBlanks
<1>11. a \in i .. n + 1
  BY <1>2, <1>4, <1>10 DEF Blank
<1>12. a \in Int /\ i \in Int /\ l \in Int /\ a \in 1 .. n + 1 /\ i <= a /\ a <= n + 1 /\ l <= i /\ 1 <= l
  BY <1>2, <1>11
<1>13. PICK c \in Int : c = S!NewlinesIn(i, a) /\ 0 <= c /\ c <= a - i /\ before = l + c
  <2>1. S!NewlinesIn(i, a) \in 0 .. a - i
    BY <1>12, NewlinesBound
  <2> QED BY <1>5, <1>12, <2>1
<1>14. CASE blank.type = "UNTERMINATED_COMMENT"
  <2>1. t = [type |-> "ERROR", start |-> a, end |-> a, line |-> before]
    BY <1>9, <1>14 DEF S!makeToken
  <2>2. t.type = "ERROR" /\ t.start = a /\ t.end = a /\ t.line = before
    BY <2>1
  <2>3. a \in i .. Len(text) + 1 /\ a \in a .. Len(text) + 1 /\ before \in l .. a
    BY <1>2, <1>12, <1>13
  <2>4. Follows(i, l, t)
    BY <2>2, <2>3 DEF Follows
  <2> QED BY <1>8, <2>4
<1>15. ASSUME blank.type # "UNTERMINATED_COMMENT"
       PROVE  S!At(a) \notin S!Whitespace /\ S!IsBlank(SubSeq(text, i, a - 1), Odd)
  BY <1>4, <1>10, <1>15 DEF Blank
<1>16. CASE blank.type # "UNTERMINATED_COMMENT" /\ S!At(a) = "\""
  <2>1. a \in 1 .. n /\ a + 1 \in 1 .. Len(text) + 1
    <3>1. S!NUL # "\""
      BY DEF S!NUL
    <3>2. ~(a > n)
      BY <1>2, <1>12, <1>16, <3>1
    <3> QED BY <1>2, <1>12, <3>2
  <2>2. PICK b : b = a + 1
    OBVIOUS
  <2>3. ReadString(b, s)
    BY <1>1, <1>6, <2>1, <2>2, StringRead
  <2>4. PICK e, q : e = s.end /\ q = s.lines
    OBVIOUS
  <2>5. e \in b .. n + 1 /\ S!At(e) \in {"\"", S!NUL}
    BY <1>2, <2>3, <2>4 DEF ReadString
  <2>6. q \in 0 .. e - b
    BY <2>3, <2>4 DEF ReadString
  <2>7. NoNewlineTaken => q = S!NewlinesIn(b, e)
    BY <2>3, <2>4 DEF ReadString
  <2>8. PICK d : d = IF S!At(e) = S!NUL THEN e ELSE e + 1
    OBVIOUS
  <2>9. b \in Int /\ e \in Int /\ d \in Int /\ q \in Int /\ b = a + 1 /\ b <= e /\ e <= d /\ d <= n + 1 /\ 0 <= q /\ q <= e - b
    <3>1. b \in Int /\ e \in Int /\ b = a + 1 /\ b <= e /\ e <= n + 1
      <4>1. e \in b .. n + 1
        BY <2>5
      <4>3. n \in Int
        BY <1>2
      <4>2. b \in Int /\ b = a + 1
        BY <1>12, <2>2
      <4> QED BY <4>1, <4>2, <4>3
    <3>2. S!At(e) # S!NUL => e <= n
      BY <1>2, <3>1
    <3> QED BY <1>2, <2>6, <2>8, <3>1, <3>2
  <2>10. PICK y : y = S!StringType(s)
    OBVIOUS
  <2>11. t = [type |-> y, start |-> a, end |-> d, line |-> before + q]
    BY <1>9, <1>16, <2>4, <2>8, <2>10 DEF S!makeToken
  <2>12. t.type = y /\ t.start = a /\ t.end = d /\ t.line = before + q
    BY <2>11
  <2>13. a \in i .. Len(text) + 1 /\ d \in a .. Len(text) + 1 /\ before + q \in l .. d
    BY <1>2, <1>12, <1>13, <2>9
  <2>14. S!IsBlank(SubSeq(text, i, a - 1), Odd)
    BY <1>15, <1>16
  <2>15. NoNewlineTaken => before + q = l + S!NewlinesIn(i, d)
    <3>1. SUFFICES ASSUME NoNewlineTaken PROVE before + q = l + S!NewlinesIn(i, d)
      OBVIOUS
    <3>2. S!NewlinesIn(a, b) = 0
      <4>1. \A k \in a .. b - 1 : k = a
        BY <1>12, <2>9
      <4>2. S!At(a) # "\n"
        BY <1>16
      <4>3. \A k \in a .. b - 1 : S!At(k) # "\n"
        BY <4>1, <4>2
      <4> QED BY <1>12, <2>9, <4>3, NoNewlines
    <3>3. S!NewlinesIn(e, d) = 0
      <4>1. \A k \in e .. d - 1 : k = e /\ S!At(e) # S!NUL
        BY <2>8, <2>9
      <4>2. \A k \in e .. d - 1 : S!At(k) # "\n"
        BY <2>5, <4>1
      <4> QED BY <2>9, <4>2, NoNewlines
    <3>4. S!NewlinesIn(i, d) = S!NewlinesIn(i, a) + S!NewlinesIn(a, d)
      BY <1>12, <2>9, NewlinesAdd
    <3>5. S!NewlinesIn(a, d) = S!NewlinesIn(a, b) + S!NewlinesIn(b, d)
      BY <1>12, <2>9, NewlinesAdd
    <3>6. S!NewlinesIn(b, d) = S!NewlinesIn(b, e) + S!NewlinesIn(e, d)
      BY <2>9, NewlinesAdd
    <3>7. S!NewlinesIn(b, e) = q
      BY <2>7, <3>1
    <3>8. S!NewlinesIn(i, d) = c + q
      BY <1>13, <2>9, <3>2, <3>3, <3>4, <3>5, <3>6, <3>7
    <3> QED BY <1>12, <1>13, <2>9, <3>8
  <2>16. Follows(i, l, t)
    BY <2>12, <2>13, <2>14, <2>15 DEF Follows
  <2> QED BY <1>8, <2>16
<1>17. CASE blank.type # "UNTERMINATED_COMMENT" /\ S!At(a) # "\""
  <2>1. a \in 1 .. Len(text) + 1
    BY <1>2, <1>12
  <2>2. Reads(a, found)
    BY <1>7, <1>15, <1>17, <2>1, TokenReads
  <2>3. PICK y, d : y = found.type /\ d = found.end
    OBVIOUS
  <2>4. d \in a .. Len(text) + 1 /\ (NoNewlineTaken /\ y # "ERROR" => Clean(a, d))
    BY <2>2, <2>3 DEF Reads
  <2>5. d \in Int /\ a <= d /\ d <= n + 1
    BY <1>2, <1>12, <2>4
  <2>6. t = [type |-> y, start |-> a, end |-> d, line |-> before]
    BY <1>9, <1>17, <2>3 DEF S!makeToken
  <2>7. t.type = y /\ t.start = a /\ t.end = d /\ t.line = before
    BY <2>6
  <2>8. a \in i .. Len(text) + 1 /\ before \in l .. d
    BY <1>2, <1>12, <1>13, <2>5
  <2>9. S!IsBlank(SubSeq(text, i, a - 1), Odd)
    BY <1>15, <1>17
  <2>10. y # "ERROR" /\ NoNewlineTaken => before = l + S!NewlinesIn(i, d)
    <3>1. SUFFICES ASSUME y # "ERROR", NoNewlineTaken PROVE before = l + S!NewlinesIn(i, d)
      OBVIOUS
    <3>2. S!NewlinesIn(a, d) = 0
      <4>1. \A k \in a .. d - 1 : S!At(k) # "\n"
        BY <2>4, <3>1 DEF Clean
      <4> QED BY <1>12, <2>5, <4>1, NoNewlines
    <3>3. S!NewlinesIn(i, d) = S!NewlinesIn(i, a) + S!NewlinesIn(a, d)
      BY <1>12, <2>5, NewlinesAdd
    <3> QED BY <1>13, <3>2, <3>3
  <2>11. Follows(i, l, t)
    BY <2>4, <2>7, <2>8, <2>9, <2>10 DEF Follows
  <2> QED BY <1>8, <2>11
<1> QED BY <1>14, <1>16, <1>17

(* Where the scanner and the parser are in the text. *)
Positions ==
  /\ current \in 1 .. Len(text) + 1 /\ line \in 1 .. current
  /\ token.end = current /\ token.line = line /\ token.start \in 1 .. current
  /\ previous.start \in 1 .. Len(text) + 1 /\ previous.end \in previous.start .. Len(text) + 1
  /\ previous.line \in 1 .. line

Modes ==
  /\ phase \in {"idle", "compiling", "running"} /\ hadError \in BOOLEAN /\ used \in BOOLEAN /\ pending \in 0 .. 3
  /\ origins \in Seq(1 .. Len(text) + 1) /\ Len(origins) = Len(written)

(* A text with an error does not run, and lines are looked up in one that has. *)
Errors ==
  /\ token.type = "ERROR" => hadError
  /\ phase = "running" => ~hadError
  /\ search # L!Idle => ~hadError /\ phase # "compiling" /\ search.offset \in 0 .. Len(written) - 1

(* Until there is an error, the lines are those of the text... *)
LineAt(i) == 1 + S!NewlinesIn(1, i)
Counted ==
  ~hadError /\ NoNewlineTaken =>
    /\ line = LineAt(current) /\ previous.line = LineAt(previous.end)
    /\ \A i \in 1 .. Len(written) : written[i] = LineAt(origins[i])

(* ... and nothing lies between two tokens. *)
Blanks == ~hadError /\ token.type # "NONE" => S!IsBlank(SubSeq(text, previous.end, token.start - 1), Odd)

ScanOK ==
  ReadInside(text) /\ Positions /\ Modes /\ Errors /\ Counted /\ Blanks /\ LP!LinesInv(Nat)

LEMMA NothingInside == ReadInside(<<>>)
<1>1. PICK u : u = <<>>
  OBVIOUS
<1>2. u \in Seq(S!Char) /\ Len(u) = 0
  BY <1>1, EmptySeq
<1>3. ReadInside(u)
  BY <1>1, <1>2 DEF ReadInside
<1> QED BY <1>1, <1>3

LEMMA LineAtStart == LineAt(1) = 1
<1>1. \A k \in 1 .. 1 - 1 : S!At(k) # "\n"
  OBVIOUS
<1>2. S!NewlinesIn(1, 1) = 0
  BY <1>1, NoNewlines
<1> QED BY <1>2 DEF LineAt

(* At the start of any text. *)
LEMMA TextBegins ==
  ASSUME ReadInside(text), current = 1, line = 1, token = S!None, previous = S!None, hadError = FALSE,
         phase \in {"idle", "compiling"}, pending = 0, used = TRUE, origins = <<>>,
         ranges = <<>>, capacity = 0, written = <<>>, search = L!Idle
  PROVE  ScanOK
<1>1. PICK n \in Nat : n = Len(text)
  BY AtChar DEF ReadInside
<1>2. token.start = 1 /\ token.end = 1 /\ token.line = 1 /\ token.type = "NONE" /\ previous = token
  BY DEF S!None, S!makeToken
<1>3. Positions
  BY <1>1, <1>2 DEF Positions
<1>4. Len(written) = 0 /\ Len(origins) = 0 /\ origins \in Seq(1 .. Len(text) + 1)
  BY EmptySeq
<1>5. Modes
  <2>1. hadError \in BOOLEAN /\ used \in BOOLEAN
    BY Zenon
  <2>2. pending \in 0 .. 3 /\ phase \in {"idle", "compiling", "running"}
    OBVIOUS
  <2> QED BY <1>4, <2>1, <2>2 DEF Modes
<1>6. Errors
  BY <1>2 DEF Errors
<1>7. Counted
  BY <1>2, <1>4, LineAtStart DEF Counted
<1>8. Blanks
  BY <1>2 DEF Blanks
<1>9. LP!LinesInv(Nat)
  <2>1. search = LP!Idle
    BY DEF L!Idle, LP!Idle, L!NoLine, LP!NoLine
  <2> QED BY <2>1, LP!EmptyLines
<1> QED BY <1>3, <1>5, <1>6, <1>7, <1>8, <1>9 DEF ScanOK

LEMMA InterpretHolds ==
  ASSUME NEW source, ReadInside(source), interpret(source)
  PROVE  ScanOK'
<1>1. /\ text' = source /\ current' = 1 /\ line' = 1 /\ token' = S!None /\ previous' = S!None
      /\ hadError' = FALSE /\ phase' = "compiling" /\ pending' = 0 /\ used' = TRUE /\ origins' = <<>>
      /\ ranges' = <<>> /\ capacity' = 0 /\ written' = <<>> /\ search' = L!Idle
  BY DEF interpret, S!scanner_init
<1>2. PICK n \in Nat : n = Len(text')
  BY <1>1, LenProperties DEF ReadInside
<1>0. PICK t : t = S!None
  OBVIOUS
<1>3. t.start = 1 /\ t.end = 1 /\ t.line = 1 /\ t.type = "NONE"
  BY <1>0 DEF S!None, S!makeToken
<1>4. token' = t /\ previous' = t
  BY <1>0, <1>1
<1>5. Positions'
  BY <1>1, <1>2, <1>3, <1>4 DEF Positions
<1>6. Len(written') = 0 /\ Len(origins') = 0 /\ origins' \in Seq(1 .. Len(text') + 1)
  BY <1>1, EmptySeq
<1>7. Modes'
  <2>1. hadError' \in BOOLEAN /\ used' \in BOOLEAN
    BY <1>1, Zenon
  <2>2. pending' \in 0 .. 3 /\ phase' \in {"idle", "compiling", "running"}
    BY <1>1
  <2> QED BY <1>6, <2>1, <2>2 DEF Modes
<1>8. Errors'
  BY <1>1, <1>3, <1>4 DEF Errors, L!Idle, L!NoLine
<1>9. Counted'
  <2>1. LineAt(1)' = 1
    <3>1. {k \in 1 .. 1 - 1 : S!At(k)' = "\n"} = {}
      OBVIOUS
    <3>2. S!NewlinesIn(1, 1)' = S!Cardinality({k \in 1 .. 1 - 1 : S!At(k)' = "\n"})
      BY DEF S!NewlinesIn
    <3>3. S!NewlinesIn(1, 1)' = Cardinality({})
      BY <3>1, <3>2, SameCardinality
    <3>4. S!NewlinesIn(1, 1)' = 0
      BY <3>3, FS_EmptySet
    <3> QED BY <3>4 DEF LineAt
  <2> QED BY <1>1, <1>3, <1>4, <1>6, <2>1 DEF Counted
<1>10. Blanks'
  BY <1>3, <1>4 DEF Blanks
<1>11. LP!LinesInv(Nat)'
  <2>1. search' = LP!Idle
    BY <1>1 DEF L!Idle, LP!Idle, L!NoLine, LP!NoLine
  <2> QED BY <1>1, <2>1, LP!EmptyLines
    DEF LP!LinesInv, LP!LinesTypeOK, LP!Runs, LP!Searches, LP!RunsSorted, LP!RunsCover,
        LP!Window, LP!LineFound, LP!RunsFit, LP!Idle, LP!NoLine
<1>12. ReadInside(text)'
  BY <1>1 DEF ReadInside
<1> QED BY <1>5, <1>7, <1>8, <1>9, <1>10, <1>11, <1>12 DEF ScanOK

LEMMA ScanStays ==
  ASSUME ScanOK, UNCHANGED <<scanner, lines, parser, phase>>
  PROVE  ScanOK'
<1>1. /\ text' = text /\ current' = current /\ line' = line /\ token' = token /\ previous' = previous
      /\ hadError' = hadError /\ phase' = phase /\ pending' = pending /\ used' = used /\ origins' = origins
      /\ ranges' = ranges /\ capacity' = capacity /\ written' = written /\ search' = search
  BY DEF scanner, lines, parser
<1>2. ReadInside(text)'
  BY <1>1 DEF ScanOK, ReadInside
<1>3. Positions' /\ Modes' /\ Errors'
  BY <1>1 DEF ScanOK, Positions, Modes, Errors, L!Idle, L!NoLine
<1>4. Counted' /\ Blanks'
  BY <1>1 DEF ScanOK, Counted, Blanks, NoNewlineTaken, LineAt, S!NewlinesIn, S!At
<1>5. LP!LinesInv(Nat)'
  BY <1>1 DEF ScanOK, LP!LinesInv, LP!LinesTypeOK, LP!RunsSorted, LP!RunsCover, LP!Window, LP!LineFound, LP!RunsFit
<1> QED BY <1>2, <1>3, <1>4, <1>5 DEF ScanOK

LEMMA AdvanceHolds ==
  ASSUME ScanOK, advance
  PROVE  ScanOK'
<1>1. /\ Parsing /\ S!scanToken /\ previous' = Behind /\ hadError' = (hadError \/ token'.type = "ERROR")
      /\ used' = (token.type = "ERROR" /\ used)
      /\ UNCHANGED <<lines, phase, pending, origins>>
  BY DEF advance
<1>2. /\ ReadInside(text) /\ Positions /\ Modes /\ Errors /\ Counted /\ Blanks /\ LP!LinesInv(Nat)
      /\ ranges' = ranges /\ capacity' = capacity /\ written' = written /\ search' = search
  BY <1>1 DEF ScanOK, lines
<1>3. PICK n \in Nat : n = Len(text)
  BY <1>2, AtChar DEF ReadInside
<1>4. /\ current \in 1 .. n + 1 /\ line \in 1 .. current
      /\ token.end = current /\ token.line = line /\ token.start \in 1 .. current
      /\ previous.start \in 1 .. n + 1 /\ previous.end \in previous.start .. n + 1
      /\ previous.line \in 1 .. line
  BY <1>2, <1>3 DEF Positions
<1>5. PICK t, i, l : t = Scanned(current, line) /\ i = current /\ l = line
  OBVIOUS
<1>6. token' = t /\ current' = t.end /\ line' = t.line /\ text' = text
  BY <1>1, <1>5, ScanIs
<1>7. i \in 1 .. n + 1 /\ l \in 1 .. i /\ i \in Int /\ l \in Int
  BY <1>3, <1>4, <1>5
<1>8. Follows(i, l, t)
  BY <1>2, <1>3, <1>5, <1>7, ScanFollows
<1>9. PICK a, b, m : a = t.start /\ b = t.end /\ m = t.line
  OBVIOUS
<1>10. a \in i .. n + 1 /\ b \in a .. n + 1 /\ m \in l .. b
  BY <1>3, <1>8, <1>9 DEF Follows
<1>11. a \in Int /\ b \in Int /\ m \in Int /\ i <= a /\ a <= b /\ b <= n + 1 /\ l <= m /\ m <= b
  BY <1>3, <1>7, <1>10
<1>12. PICK p : p = previous'
  OBVIOUS
<1>13. IF token.type = "ERROR" THEN p = previous ELSE p = token
  BY <1>1, <1>12 DEF Behind
<1>14. p.start \in 1 .. n + 1 /\ p.end \in p.start .. n + 1 /\ p.line \in 1 .. m
  <2>1. CASE token.type = "ERROR"
    <3>1. p = previous
      BY <1>13, <2>1
    <3>2. previous.line \in 1 .. l
      BY <1>4, <1>5
    <3>3. previous.line \in 1 .. m
      BY <1>7, <1>11, <3>2
    <3> QED BY <1>4, <3>1, <3>3
  <2>2. CASE token.type # "ERROR"
    <3>1. p = token
      BY <1>13, <2>2
    <3>2. token.end = i /\ token.line = l /\ token.start \in 1 .. i
      BY <1>4, <1>5
    <3>3. PICK s : s = token.start
      OBVIOUS
    <3>4. s \in 1 .. n + 1 /\ i \in s .. n + 1 /\ l \in 1 .. m
      BY <1>3, <1>7, <1>11, <3>2, <3>3
    <3> QED BY <3>1, <3>2, <3>3, <3>4
  <2> QED BY <2>1, <2>2
<1>15. Positions'
  <2>1. b \in 1 .. n + 1 /\ m \in 1 .. b /\ a \in 1 .. b
    BY <1>3, <1>7, <1>11
  <2>2. text' = text /\ current' = b /\ line' = m /\ token'.end = b /\ token'.line = m /\ token'.start = a
    BY <1>6, <1>9
  <2> QED BY <1>3, <1>12, <1>14, <2>1, <2>2 DEF Positions
<1>16. Modes'
  <2>1. hadError' \in BOOLEAN /\ used' \in BOOLEAN
    BY <1>1, Zenon
  <2> QED BY <1>1, <1>2, <1>6, <2>1 DEF Modes
<1>17. search = L!Idle /\ phase = "compiling"
  BY <1>1, <1>2 DEF Parsing, Errors
<1>18. (hadError' <=> hadError \/ t.type = "ERROR")
  BY <1>1, <1>6, Zenon
<1>19. Errors'
  <2>1. token'.type = "ERROR" => hadError'
    BY <1>6, <1>18
  <2>2. search' = L!Idle' /\ phase' # "running"
    BY <1>1, <1>2, <1>17 DEF L!Idle, L!NoLine
  <2> QED BY <2>1, <2>2 DEF Errors
<1>20. ASSUME ~hadError'
       PROVE  ~hadError /\ t.type # "ERROR" /\ p = token /\ p.end = i /\ p.line = l
  <2>1. ~hadError /\ t.type # "ERROR"
    BY <1>18, <1>20
  <2>2. token.type # "ERROR"
    BY <1>2, <2>1 DEF Errors
  <2> QED BY <1>4, <1>5, <1>13, <2>1, <2>2
<1>21. Counted'
  <2>1. NoNewlineTaken' = NoNewlineTaken /\ \A k : LineAt(k)' = LineAt(k)
    BY <1>6 DEF NoNewlineTaken, LineAt, S!NewlinesIn, S!At
  <2>2. SUFFICES ASSUME ~hadError', NoNewlineTaken
                 PROVE  /\ line' = LineAt(current') /\ previous'.line = LineAt(previous'.end)
                        /\ \A k \in 1 .. Len(written') : written'[k] = LineAt(origins'[k])
    <3>1. ASSUME ~hadError', NoNewlineTaken'
          PROVE  /\ line' = LineAt(current)' /\ previous'.line = LineAt(previous.end)'
                 /\ \A k \in 1 .. Len(written') : written'[k] = LineAt(origins[k])'
      <4>1. NoNewlineTaken
        BY <2>1, <3>1
      <4>2. /\ line' = LineAt(current') /\ previous'.line = LineAt(previous'.end)
            /\ \A k \in 1 .. Len(written') : written'[k] = LineAt(origins'[k])
        BY <2>2, <3>1, <4>1
      <4>3. LineAt(current)' = LineAt(current') /\ LineAt(previous.end)' = LineAt(previous'.end)
            /\ \A k : LineAt(origins[k])' = LineAt(origins'[k])
        BY <1>6 DEF LineAt, S!NewlinesIn, S!At
      <4> QED BY <4>2, <4>3
    <3> QED BY <3>1 DEF Counted
  <2>3. ~hadError /\ t.type # "ERROR" /\ p.end = i /\ p.line = l
    BY <1>20, <2>2
  <2>4. l = LineAt(i) /\ \A k \in 1 .. Len(written) : written[k] = LineAt(origins[k])
    BY <1>2, <1>5, <2>2, <2>3 DEF Counted
  <2>5. m = l + S!NewlinesIn(i, b)
    BY <1>8, <1>9, <2>2, <2>3 DEF Follows
  <2>6. m = LineAt(b)
    <3>1. PICK o \in Int : o = 1
      OBVIOUS
    <3>2. o <= i /\ i <= b
      BY <1>7, <1>11, <3>1
    <3>3. S!NewlinesIn(o, b) = S!NewlinesIn(o, i) + S!NewlinesIn(i, b)
      BY <1>7, <1>11, <3>2, NewlinesAdd
    <3>4. S!NewlinesIn(o, i) \in Nat /\ S!NewlinesIn(i, b) \in Nat
      BY <1>7, <1>11, NewlinesFinite
    <3>5. l = 1 + S!NewlinesIn(o, i)
      BY <2>4, <3>1 DEF LineAt
    <3>6. m = 1 + S!NewlinesIn(o, b)
      BY <2>5, <3>3, <3>4, <3>5
    <3> QED BY <3>1, <3>6 DEF LineAt
  <2>7. line' = LineAt(current')
    BY <1>6, <1>9, <2>6
  <2>8. previous'.line = LineAt(previous'.end)
    BY <1>12, <2>3, <2>4
  <2>9. \A k \in 1 .. Len(written') : written'[k] = LineAt(origins'[k])
    BY <1>1, <1>2, <2>4
  <2> QED BY <2>7, <2>8, <2>9
<1>22. Blanks'
  <2>1. SUFFICES ASSUME ~hadError' PROVE S!IsBlank(SubSeq(text', previous'.end, token'.start - 1), Odd)
    BY <1>6 DEF Blanks
  <2>2. t.type # "ERROR" /\ p.end = i
    BY <1>20, <2>1
  <2>3. S!IsBlank(SubSeq(text, i, t.start - 1), Odd)
    BY <1>8, <2>2 DEF Follows
  <2> QED BY <1>6, <1>12, <2>2, <2>3
<1>23. LP!LinesInv(Nat)'
  BY <1>2 DEF LP!LinesInv, LP!LinesTypeOK, LP!RunsSorted, LP!RunsCover, LP!Window, LP!LineFound, LP!RunsFit
<1>24. ReadInside(text)'
  BY <1>2, <1>6 DEF ReadInside
<1> QED BY <1>15, <1>16, <1>19, <1>21, <1>22, <1>23, <1>24 DEF ScanOK

(* The parser emits, or finds fault. *)
LEMMA ParserHolds ==
  ASSUME ScanOK, Parsing, UNCHANGED <<scanner, lines, phase, previous, origins>>,
         pending' \in 0 .. 3, used' = TRUE, hadError' \in {hadError, TRUE}
  PROVE  ScanOK'
<1>1. /\ ReadInside(text) /\ Positions /\ Modes /\ Errors /\ Counted /\ Blanks /\ LP!LinesInv(Nat)
      /\ text' = text /\ current' = current /\ line' = line /\ token' = token
      /\ ranges' = ranges /\ capacity' = capacity /\ written' = written /\ search' = search
  BY DEF ScanOK, scanner, lines
<1>2. ReadInside(text)' /\ Positions'
  BY <1>1 DEF ReadInside, Positions
<1>3. hadError => hadError'
  BY Zenon
<1>4. Modes'
  <2>1. hadError' \in BOOLEAN /\ used' \in BOOLEAN
    <3>1. hadError \in BOOLEAN
      BY <1>1 DEF Modes
    <3> QED BY <3>1, Zenon
  <2> QED BY <1>1, <2>1 DEF Modes
<1>5. Errors'
  <2>1. search = L!Idle /\ phase = "compiling"
    BY <1>1 DEF Parsing, Errors
  <2>2. search' = L!Idle' /\ phase' # "running"
    BY <1>1, <2>1 DEF L!Idle, L!NoLine
  <2>3. token'.type = "ERROR" => hadError'
    BY <1>1, <1>3 DEF Errors
  <2> QED BY <2>2, <2>3 DEF Errors
<1>6. Counted' /\ Blanks'
  BY <1>1, <1>3 DEF Counted, Blanks, NoNewlineTaken, LineAt, S!NewlinesIn, S!At
<1>7. LP!LinesInv(Nat)'
  BY <1>1 DEF LP!LinesInv, LP!LinesTypeOK, LP!RunsSorted, LP!RunsCover, LP!Window, LP!LineFound, LP!RunsFit
<1> QED BY <1>2, <1>4, <1>5, <1>6, <1>7 DEF ScanOK

LEMMA ByteHolds ==
  ASSUME ScanOK, emitByte
  PROVE  ScanOK'
<1>1. /\ pending > 0 /\ L!chunk_write(previous.line) /\ pending' = pending - 1
      /\ origins' = Append(origins, previous.end)
      /\ UNCHANGED <<scanner, phase, previous, hadError, used>>
  BY DEF emitByte
<1>2. /\ ReadInside(text) /\ Positions /\ Modes /\ Errors /\ Counted /\ Blanks /\ LP!LinesInv(Nat)
      /\ text' = text /\ current' = current /\ line' = line /\ token' = token
      /\ previous' = previous /\ hadError' = hadError /\ used' = used /\ phase' = phase
  BY <1>1 DEF ScanOK, scanner
<1>3. search = L!Idle /\ search' = search /\ written' = Append(written, previous.line)
  BY <1>1 DEF L!chunk_write
<1>4. PICK n \in Nat : n = Len(text)
  BY <1>2, AtChar DEF ReadInside
<1>5. PICK v, e : v = previous.line /\ e = previous.end
  OBVIOUS
<1>6. v \in Nat /\ e \in 1 .. n + 1
  <2>1. line \in 1 .. current /\ current \in 1 .. n + 1
    BY <1>2, <1>4 DEF Positions
  <2>2. v \in 1 .. line
    BY <1>2, <1>5 DEF Positions
  <2>3. previous.start \in 1 .. n + 1 /\ e \in previous.start .. n + 1
    BY <1>2, <1>4, <1>5 DEF Positions
  <2>4. v \in Nat
    BY <2>1, <2>2
  <2>5. e \in 1 .. n + 1
    BY <2>3
  <2> QED BY <2>4, <2>5
<1>7. PICK l \in Nat : l = Len(written)
  BY <1>2, LenProperties DEF LP!LinesInv, LP!LinesTypeOK
<1>8. written \in Seq(Nat) /\ origins \in Seq(1 .. n + 1) /\ Len(origins) = l
  BY <1>2, <1>4, <1>7 DEF LP!LinesInv, LP!LinesTypeOK, Modes
<1>9. written' = Append(written, v) /\ origins' = Append(origins, e)
  BY <1>1, <1>3, <1>5
<1>10. Len(written') = l + 1 /\ written'[l + 1] = v /\ \A k \in 1 .. l : written'[k] = written[k]
  BY <1>6, <1>7, <1>8, <1>9, AppendProperties
<1>11. /\ origins' \in Seq(1 .. n + 1) /\ Len(origins') = l + 1
       /\ origins'[l + 1] = e /\ \A k \in 1 .. l : origins'[k] = origins[k]
  BY <1>6, <1>8, <1>9, AppendProperties
<1>12. ReadInside(text)' /\ Positions'
  BY <1>2 DEF ReadInside, Positions
<1>13. Modes'
  <2>1. pending' \in 0 .. 3
    <3>1. pending \in 0 .. 3
      BY <1>2 DEF Modes
    <3> QED BY <1>1, <3>1
  <2> QED BY <1>2, <1>4, <1>10, <1>11, <2>1 DEF Modes
<1>14. Errors'
  <2>1. search' = L!Idle'
    BY <1>3 DEF L!Idle, L!NoLine
  <2> QED BY <1>2, <2>1 DEF Errors
<1>15. Counted'
  <2>1. SUFFICES ASSUME ~hadError, NoNewlineTaken
                 PROVE  /\ line = LineAt(current) /\ previous.line = LineAt(previous.end)
                        /\ \A k \in 1 .. Len(written') : written'[k] = LineAt(origins'[k])
    BY <1>2 DEF Counted, NoNewlineTaken, LineAt, S!NewlinesIn, S!At
  <2>2. /\ line = LineAt(current) /\ previous.line = LineAt(previous.end)
        /\ \A k \in 1 .. Len(written) : written[k] = LineAt(origins[k])
    BY <1>2, <2>1 DEF Counted
  <2>3. ASSUME NEW k \in 1 .. l + 1 PROVE written'[k] = LineAt(origins'[k])
    <3>1. CASE k = l + 1
      BY <1>5, <1>10, <1>11, <2>2, <3>1
    <3>2. CASE k # l + 1
      <4>1. k \in 1 .. l
        BY <3>2
      <4> QED BY <1>7, <1>10, <1>11, <2>2, <4>1
    <3> QED BY <3>1, <3>2
  <2> QED BY <1>10, <2>2, <2>3
<1>16. Blanks'
  BY <1>2 DEF Blanks
<1>17. LP!LinesInv(Nat)'
  <2>1. LP!chunk_write(v)
    BY <1>1, <1>5
    DEF L!chunk_write, LP!chunk_write, L!Idle, LP!Idle, L!NoLine, LP!NoLine,
        L!lineArray_write, LP!lineArray_write, L!NeedsGrowth, LP!NeedsGrowth,
        L!GROW_CAPACITY, LP!GROW_CAPACITY, L!RunsAfter, LP!RunsAfter, L!LastRun, LP!LastRun
  <2> QED BY <1>2, <1>6, <2>1, SessionAssumption, LP!WriteKeeps
<1> QED BY <1>12, <1>13, <1>14, <1>15, <1>16, <1>17 DEF ScanOK

(* Between compiling, running and waiting. *)
LEMMA PhaseHolds ==
  ASSUME ScanOK, UNCHANGED <<scanner, lines, parser>>, phase = "compiling" \/ phase' = "idle",
         phase' \in {"idle"} \cup (IF hadError THEN {} ELSE {"running"})
  PROVE  ScanOK'
<1>1. /\ ReadInside(text) /\ Positions /\ Modes /\ Errors /\ Counted /\ Blanks /\ LP!LinesInv(Nat)
      /\ text' = text /\ current' = current /\ line' = line /\ token' = token /\ previous' = previous
      /\ hadError' = hadError /\ pending' = pending /\ used' = used /\ origins' = origins
      /\ ranges' = ranges /\ capacity' = capacity /\ written' = written /\ search' = search
  BY DEF ScanOK, scanner, lines, parser
<1>2. phase' = "idle" \/ (phase' = "running" /\ ~hadError)
  BY Zenon
<1>3. ReadInside(text)' /\ Positions'
  BY <1>1 DEF ReadInside, Positions
<1>4. Modes' /\ Errors'
  BY <1>1, <1>2 DEF Modes, Errors, L!Idle, L!NoLine
<1>5. Counted' /\ Blanks'
  BY <1>1 DEF Counted, Blanks, NoNewlineTaken, LineAt, S!NewlinesIn, S!At
<1>6. LP!LinesInv(Nat)'
  BY <1>1 DEF LP!LinesInv, LP!LinesTypeOK, LP!RunsSorted, LP!RunsCover, LP!Window, LP!LineFound, LP!RunsFit
<1> QED BY <1>3, <1>4, <1>5, <1>6 DEF ScanOK

(* A line is looked up. *)
LEMMA SearchHolds ==
  ASSUME ScanOK, UNCHANGED <<scanner, parser, phase>>,
         \/ phase = "running" /\ \E offset \in 0 .. Len(written) - 1 : L!getLine(offset)
         \/ L!Halve \/ L!Conclude
  PROVE  ScanOK'
<1>1. /\ ReadInside(text) /\ Positions /\ Modes /\ Errors /\ Counted /\ Blanks /\ LP!LinesInv(Nat)
      /\ text' = text /\ current' = current /\ line' = line /\ token' = token /\ previous' = previous
      /\ hadError' = hadError /\ phase' = phase /\ pending' = pending /\ used' = used /\ origins' = origins
  BY DEF ScanOK, scanner, parser
<1>2. ranges' = ranges /\ capacity' = capacity /\ written' = written
  BY DEF L!getLine, L!Halve, L!Conclude
<1>3. ~hadError /\ phase # "compiling" /\ search'.offset \in 0 .. Len(written) - 1
  <2>1. ASSUME phase = "running", NEW offset \in 0 .. Len(written) - 1, L!getLine(offset)
        PROVE  ~hadError /\ phase # "compiling" /\ search'.offset \in 0 .. Len(written) - 1
    BY <1>1, <2>1 DEF L!getLine, Errors, L!Idle
  <2>2. CASE L!Halve \/ L!Conclude
    <3>1. search.state = "searching" /\ search # L!Idle
      BY <2>2 DEF L!Halve, L!Conclude, L!Idle
    <3>2. search \in LP!Searches(Nat)
      BY <1>1 DEF LP!LinesInv, LP!LinesTypeOK
    <3>3. search'.offset = search.offset
      <4>1. CASE L!Halve
        BY <3>2, <4>1 DEF L!Halve, LP!Searches
      <4>2. CASE L!Conclude
        BY <3>2, <4>2 DEF L!Conclude, LP!Searches
      <4> QED BY <2>2, <4>1, <4>2
    <3> QED BY <1>1, <3>1, <3>3 DEF Errors
  <2> QED BY <2>1, <2>2
<1>4. ReadInside(text)' /\ Positions' /\ Modes'
  BY <1>1, <1>2 DEF ReadInside, Positions, Modes
<1>5. Errors'
  BY <1>1, <1>2, <1>3 DEF Errors
<1>6. Counted' /\ Blanks'
  BY <1>1, <1>2 DEF Counted, Blanks, NoNewlineTaken, LineAt, S!NewlinesIn, S!At
<1>7. LP!LinesInv(Nat)'
  <2>1. ASSUME NEW offset \in 0 .. Len(written) - 1, L!getLine(offset) PROVE LP!LinesInv(Nat)'
    <3>1. LP!getLine(offset)
      BY <2>1 DEF L!getLine, LP!getLine, L!Idle, LP!Idle, L!NoLine, LP!NoLine
    <3> QED BY <1>1, <3>1, LP!SearchBegins
  <2>2. CASE L!Halve
    <3>1. LP!Halve
      BY <2>2 DEF L!Halve, LP!Halve, L!UpTo, LP!UpTo
    <3> QED BY <1>1, <3>1, LP!HalveKeeps
  <2>3. CASE L!Conclude
    <3>1. LP!Conclude
      BY <2>3 DEF L!Conclude, LP!Conclude, L!NoLine, LP!NoLine
    <3> QED BY <1>1, <3>1, LP!ConcludeKeeps
  <2> QED BY <2>1, <2>2, <2>3
<1> QED BY <1>4, <1>5, <1>6, <1>7 DEF ScanOK

(* What is being typed. *)
TypingOK == texts \in 0 .. MaxTexts /\ ReadInside(typed)
ReadOK == ScanOK /\ TypingOK

LEMMA InitRead ==
  ASSUME Init
  PROVE  ReadOK
<1>1. ReadInside(text) /\ ReadInside(typed)
  BY NothingInside DEF Init
<1>2. ScanOK
  <2>1. /\ current = 1 /\ line = 1 /\ token = S!None /\ previous = S!None /\ hadError = FALSE
        /\ phase \in {"idle", "compiling"} /\ pending = 0 /\ used = TRUE /\ origins = <<>>
        /\ ranges = <<>> /\ capacity = 0 /\ written = <<>> /\ search = L!Idle
    BY DEF Init, L!Init
  <2> QED BY <1>1, <2>1, TextBegins
<1>3. texts \in 0 .. MaxTexts
  BY SessionAssumption DEF Init
<1> QED BY <1>1, <1>2, <1>3 DEF ReadOK, TypingOK

LEMMA TextFollows ==
  ASSUME ReadOK, NEW source \in Following
  PROVE  ReadInside(source) /\ texts + 1 \in 0 .. MaxTexts
<1>1. MaxTexts \in Nat \ {0} /\ texts \in 0 .. MaxTexts
  BY SessionAssumption DEF ReadOK, TypingOK
<1>2. source \in Texts \cup Repeated /\ (texts = 0 \/ texts < MaxTexts)
  BY DEF Following
<1> QED BY <1>1, <1>2, TextsAssumption

LEMMA StepRead ==
  ASSUME ReadOK, ReplOK, [Next]_vars
  PROVE  ReadOK'
<1>1. ScanOK /\ TypingOK
  BY DEF ReadOK
<1>2. CASE UNCHANGED <<scanner, lines, parser, phase>> /\ UNCHANGED asked
  BY <1>1, <1>2, ScanStays DEF ReadOK, TypingOK, ReadInside, asked
<1>3. ASSUME NEW source \in Following \cap Typed, typeText(source) PROVE ReadOK'
  <2>1. ReadInside(source) /\ texts + 1 \in 0 .. MaxTexts
    BY TextFollows
  <2>2. texts' = texts + 1 /\ typed' = source /\ UNCHANGED <<scanner, lines, parser, phase>>
    BY <1>3 DEF typeText
  <2>3. ScanOK'
    BY <1>1, <2>2, ScanStays
  <2> QED BY <2>1, <2>2, <2>3 DEF ReadOK, TypingOK, ReadInside
<1>4. CASE interpretLines
  <2>1. text' = typed
    BY <1>4, TextComplete
  <2>2. ReadInside(typed)
    BY <1>1 DEF TypingOK
  <2>3. PICK source : source = R!Complete
    OBVIOUS
  <2>4. interpret(source) /\ typed' = <<>> /\ texts' = texts
    BY <1>4, <2>3 DEF interpretLines
  <2>5. text' = source
    BY <2>4 DEF interpret, S!scanner_init
  <2>6. ReadInside(source)
    BY <2>1, <2>2, <2>5
  <2>7. ScanOK'
    BY <2>4, <2>6, InterpretHolds
  <2>8. PICK u : u = <<>> /\ ReadInside(u)
    BY NothingInside
  <2>9. ReadInside(typed)'
    <3>1. typed' = u
      BY <2>4, <2>8
    <3> QED BY <2>8, <3>1 DEF ReadInside
  <2> QED BY <1>1, <2>4, <2>7, <2>9 DEF ReadOK, TypingOK
<1>5. ASSUME NEW source \in Following, interpretFile(source) PROVE ReadOK'
  <2>1. ReadInside(source) /\ texts + 1 \in 0 .. MaxTexts
    BY TextFollows
  <2>2. interpret(source) /\ texts' = texts + 1 /\ typed' = typed
    BY <1>5 DEF interpretFile
  <2>3. ScanOK'
    BY <2>1, <2>2, InterpretHolds
  <2> QED BY <1>1, <2>1, <2>2, <2>3 DEF ReadOK, TypingOK, ReadInside
<1>6. CASE advance
  BY <1>1, <1>6, AdvanceHolds DEF advance, asked, ReadOK, TypingOK, ReadInside
<1>7. CASE emitByte
  BY <1>1, <1>7, ByteHolds DEF emitByte, asked, ReadOK, TypingOK, ReadInside
<1>8. ASSUME NEW n \in 0 .. 3, emitBytes(n) PROVE ReadOK'
  <2>1. /\ Parsing /\ UNCHANGED <<scanner, lines, phase, previous, origins>>
        /\ pending' \in 0 .. 3 /\ used' = TRUE /\ hadError' \in {hadError, TRUE} /\ UNCHANGED asked
    BY <1>8 DEF emitBytes
  <2>2. ScanOK'
    BY <1>1, <2>1, ParserHolds
  <2> QED BY <1>1, <2>1, <2>2 DEF asked, ReadOK, TypingOK, ReadInside
<1>9. CASE tooManyConstants
  <2>1. /\ Parsing /\ UNCHANGED <<scanner, lines, phase, previous, origins>>
        /\ pending' = pending /\ used' = TRUE /\ hadError' \in {hadError, TRUE} /\ UNCHANGED asked
    BY <1>9 DEF tooManyConstants
  <2>2. pending' \in 0 .. 3
    BY <1>1, <2>1 DEF ScanOK, Modes
  <2>3. ScanOK'
    BY <1>1, <2>1, <2>2, ParserHolds
  <2> QED BY <1>1, <2>1, <2>3 DEF asked, ReadOK, TypingOK, ReadInside
<1>10. CASE string \/ number \/ function \/ instruction
  <2>1. 1 \in 0 .. 3 /\ 2 \in 0 .. 3 /\ 3 \in 0 .. 3
    OBVIOUS
  <2>2. CASE string \/ number
    BY <1>8, <2>1, <2>2 DEF string, number
  <2>3. CASE function
    BY <1>8, <1>9, <2>1, <2>3 DEF function
  <2>4. CASE instruction
    BY <1>8, <2>1, <2>4 DEF instruction
  <2> QED BY <1>10, <2>2, <2>3, <2>4
<1>11. CASE endCompiler
  <2>1. /\ UNCHANGED <<scanner, lines, parser>> /\ UNCHANGED asked /\ phase = "compiling"
        /\ phase' \in {"idle"} \cup (IF hadError THEN {} ELSE {"running"})
    BY <1>11 DEF endCompiler, Parsing
  <2>2. ScanOK'
    BY <1>1, <2>1, PhaseHolds
  <2> QED BY <1>1, <2>1, <2>2 DEF asked, ReadOK, TypingOK, ReadInside
<1>12. CASE finish
  <2>1. UNCHANGED <<scanner, lines, parser>> /\ UNCHANGED asked /\ phase' = "idle"
    BY <1>12 DEF finish
  <2>2. ScanOK'
    BY <1>1, <2>1, PhaseHolds
  <2> QED BY <1>1, <2>1, <2>2 DEF asked, ReadOK, TypingOK, ReadInside
<1>13. ASSUME getLine \/ \E offset \in 0 .. Len(written) - 1 : runtimeError(offset) PROVE ReadOK'
  <2>1. UNCHANGED <<scanner, parser, phase>> /\ UNCHANGED asked
    BY <1>13 DEF getLine, runtimeError
  <2>2. \/ phase = "running" /\ \E offset \in 0 .. Len(written) - 1 : L!getLine(offset)
        \/ L!Halve \/ L!Conclude
    BY <1>13 DEF getLine, runtimeError
  <2>3. ScanOK'
    BY <1>1, <2>1, <2>2, SearchHolds
  <2> QED BY <1>1, <2>1, <2>3 DEF asked, ReadOK, TypingOK, ReadInside
<1>14. CASE \/ \E first \in {"\n", "/help", "/eval"} : typeOther(first)
            \/ readLine \/ \E chars \in Made : newString(chars)
  BY <1>2, <1>14 DEF typeOther, readLine, newString
<1>15. CASE UNCHANGED vars
  BY <1>2, <1>15 DEF vars
<1> QED BY <1>3, <1>4, <1>5, <1>6, <1>7, <1>10, <1>11, <1>12, <1>13, <1>14, <1>15 DEF Next

(* In any session of texts that end before the scanner would read on: every  *)
(* token lies in the text, errors keep a text from running, and until there  *)
(* is one every line kept is the line of the text.                           *)
THEOREM TextsAreRead == Spec => []ReadOK
<1>1. Init => ReadOK
  BY InitRead
<1>2. ReadOK /\ ReplOK /\ [Next]_vars => ReadOK'
  BY StepRead
<1> QED BY <1>1, <1>2, ReplSound, PTL DEF Spec

LEMMA ReadSound ==
  ASSUME ReadOK, ReplOK, SessionInv
  PROVE  TypeOK /\ OnlyBlanksSkipped /\ LineReported
<1>1. /\ ReadInside(text) /\ Positions /\ Modes /\ Errors /\ Counted /\ Blanks /\ LP!LinesInv(Nat)
      /\ texts \in 0 .. MaxTexts /\ ReadInside(typed)
  BY DEF ReadOK, ScanOK, TypingOK
<1>2. PICK n \in Nat : n = Len(text)
  BY <1>1, AtChar DEF ReadInside
<1>3. /\ current \in 1 .. n + 1 /\ line \in 1 .. current
      /\ token.end = current /\ token.line = line /\ token.start \in 1 .. current
      /\ previous.start \in 1 .. n + 1 /\ previous.end \in previous.start .. n + 1
      /\ previous.line \in 1 .. line
  BY <1>1, <1>2 DEF Positions
<1>4. TypeOK
  <2>1. line \in 1 .. n + 1 /\ token.start \in 1 .. n + 1 /\ token.end \in token.start .. n + 1 /\ token.line \in 1 .. line
    BY <1>2, <1>3
  <2>2. L!TypeOK
    <3>1. ranges \in Seq(LP!Runs(Nat)) /\ capacity \in Nat /\ written \in Seq(Nat) /\ search \in LP!Searches(Nat)
      BY <1>1 DEF LP!LinesInv, LP!LinesTypeOK
    <3> QED BY <3>1 DEF L!TypeOK, LP!Runs, LP!Searches, L!NoLine, LP!NoLine
  <2>3. P!TypeOK
    <3>1. PICK V : PP!PoolsInv(V)
      BY DEF SessionInv, PP!PoolsHold
    <3>2. PP!TypeOK
      BY <3>1 DEF PP!PoolsInv
    <3> QED BY <3>2 DEF P!TypeOK, PP!TypeOK
  <2>4. text \in Seq(S!Char) /\ typed \in Seq(S!Char) /\ fullLineCapacity \in Nat
    BY <1>1 DEF ReadInside, ReplOK
  <2>5. \A t \in {token, previous} :
          t.start \in 1 .. Len(text) + 1 /\ t.end \in t.start .. Len(text) + 1 /\ t.line \in 1 .. line
    BY <1>2, <1>3, <2>1
  <2> QED BY <1>1, <1>2, <1>3, <2>1, <2>2, <2>3, <2>4, <2>5 DEF TypeOK, Modes
<1>5. OnlyBlanksSkipped
  BY <1>1 DEF Blanks, OnlyBlanksSkipped, Gap, Odd
<1>6. ASSUME search.state = "found", NoNewlineTaken PROVE search.line = 1 + NewlinesBefore(origins[search.offset + 1])
  <2>1. search # L!Idle
    BY <1>6 DEF L!Idle
  <2>2. ~hadError /\ search.offset \in 0 .. Len(written) - 1
    BY <1>1, <2>1 DEF Errors
  <2>3. PICK l \in Nat : l = Len(written) /\ l = Len(origins)
    BY <1>1, LenProperties DEF LP!LinesInv, LP!LinesTypeOK, Modes
  <2>4. PICK k \in 1 .. l : k = search.offset + 1
    BY <2>2, <2>3
  <2>5. search.line = written[k]
    <3>1. L!LineFound
      BY SessionSound DEF LineFound
    <3> QED BY <1>6, <2>4, <3>1 DEF L!LineFound
  <2>6. written[k] = LineAt(origins[k])
    BY <1>1, <1>6, <2>2, <2>3, <2>4 DEF Counted
  <2>7. PICK o \in 1 .. Len(text) + 1 : o = origins[k]
    <3>1. origins \in Seq(1 .. Len(text) + 1)
      BY <1>1 DEF Modes
    <3> QED BY <2>3, <2>4, <3>1, ElementOfSeq
  <2>8. LineAt(o) = 1 + NewlinesBefore(o)
    BY <1>1, <2>7, LinesCounted DEF LineAt, ReadInside
  <2> QED BY <2>4, <2>5, <2>6, <2>7, <2>8
<1>7. LineReported
  BY <1>6 DEF LineReported
<1> QED BY <1>4, <1>5, <1>7

(* The types of the session. *)
THEOREM SessionTypes == Spec => []TypeOK
BY TextsAreRead, ReplSound, SessionKeeps, ReadSound, PTL

(* Nothing but blanks and comments is ever passed over between two tokens, in *)
(* a text without errors, of any length.                                     *)
THEOREM NothingIsLost == Spec => []OnlyBlanksSkipped
BY TextsAreRead, ReplSound, SessionKeeps, ReadSound, PTL

(* The line of an error message is that of the token whose code failed: from *)
(* the scanner that counts lines to the search in the line table.            *)
THEOREM ErrorsNameTheirLines == Spec => []LineReported
BY TextsAreRead, ReplSound, SessionKeeps, ReadSound, PTL
----------------------------------------------------------------------------
(* What tokens are spelled with, said of positions of the text. *)

All(X, p, q) == \A i \in p .. q : S!At(i) \in X
DigitsAt(p, q) == p <= q /\ All(S!Digit, p, q)
Scientific(a, q) ==
  \E k \in a .. q :
    /\ DigitsAt(a, k)
    /\ \E m \in k .. q :
         /\ m = k \/ (S!At(k + 1) = "." /\ DigitsAt(k + 2, m))
         /\ m = q \/ (S!At(m + 1) = "e" /\ (DigitsAt(m + 2, q)
                                             \/ (q > m + 1 /\ S!At(m + 2) = "+" /\ DigitsAt(m + 3, q))))
Prefixed(a, q, letter, X) == q - a > 1 /\ S!At(a) = "0" /\ S!At(a + 1) = letter /\ All(X, a + 2, q)
Word(a, q) == a <= q /\ S!At(a) \in S!Letter /\ All(S!Letter \cup S!Digit, a, q)

(* A part of the text. *)
IsPart(u, a, q) ==
  u \in Seq(S!Char) /\ Len(u) = q - a + 1 /\ \A i \in 1 .. q - a + 1 : u[i] = S!At(a + i - 1)
Within(a, q) == text \in Seq(S!Char) /\ a \in 1 .. Len(text) + 1 /\ q \in a - 1 .. Len(text)

LEMMA PartOf ==
  ASSUME NEW a, NEW q, Within(a, q)
  PROVE  IsPart(SubSeq(text, a, q), a, q) /\ a \in Int /\ q \in Int /\ a - 1 <= q
<1>1. text \in Seq(S!Char) /\ a \in 1 .. Len(text) + 1 /\ q \in a - 1 .. Len(text)
  BY DEF Within
<1>2. PICK n \in Nat : n = Len(text)
  BY <1>1, AtChar
<1>3. IsPart(SubSeq(text, a, q), a, q)
  BY <1>1, PartIs DEF IsPart
<1>4. a \in Int /\ q \in Int /\ a - 1 <= q
  BY <1>1, <1>2
<1> QED BY <1>3, <1>4

LEMMA AllInPart ==
  ASSUME NEW a, NEW q, Within(a, q), NEW X
  PROVE  S!AllIn(X, SubSeq(text, a, q)) <=> All(X, a, q)
<1>1. PICK u : u = SubSeq(text, a, q)
  OBVIOUS
<1>2. IsPart(u, a, q) /\ a \in Int /\ q \in Int /\ a - 1 <= q
  BY <1>1, PartOf
<1>3. DOMAIN u = 1 .. q - a + 1 /\ \A i \in 1 .. q - a + 1 : u[i] = S!At(a + i - 1)
  BY <1>2, LenProperties DEF IsPart
<1>4. ASSUME S!AllIn(X, u) PROVE All(X, a, q)
  <2>1. ASSUME NEW i \in a .. q PROVE S!At(i) \in X
    <3>1. PICK k \in 1 .. q - a + 1 : k = i - a + 1 /\ a + k - 1 = i
      BY <1>2
    <3> QED BY <1>3, <1>4, <3>1 DEF S!AllIn
  <2> QED BY <2>1 DEF All
<1>5. ASSUME All(X, a, q) PROVE S!AllIn(X, u)
  <2>1. ASSUME NEW k \in 1 .. q - a + 1 PROVE u[k] \in X
    <3>1. PICK i \in a .. q : i = a + k - 1
      BY <1>2
    <3>2. S!At(i) \in X
      BY <1>5, <3>1 DEF All
    <3> QED BY <1>3, <3>1, <3>2
  <2> QED BY <1>3, <2>1 DEF S!AllIn
<1> QED BY <1>1, <1>4, <1>5

LEMMA DigitsInPart ==
  ASSUME NEW a, NEW q, Within(a, q)
  PROVE  S!IsDigits(SubSeq(text, a, q)) <=> DigitsAt(a, q)
<1>1. PICK u : u = SubSeq(text, a, q)
  OBVIOUS
<1>2. IsPart(u, a, q) /\ a \in Int /\ q \in Int /\ a - 1 <= q
  BY <1>1, PartOf
<1>3. u # <<>> <=> a <= q
  <2>1. u \in Seq(S!Char) /\ Len(u) = q - a + 1
    BY <1>2 DEF IsPart
  <2>2. u # <<>> <=> Len(u) # 0
    BY <2>1, EmptySeq
  <2> QED BY <1>2, <2>1, <2>2
<1>4. S!AllIn(S!Digit, u) <=> All(S!Digit, a, q)
  BY <1>1, AllInPart
<1> QED BY <1>1, <1>3, <1>4 DEF S!IsDigits, DigitsAt

(* The part of a part, in positions of the text. *)
LEMMA DigitsInside ==
  ASSUME NEW a, NEW q, Within(a, q), NEW i \in 1 .. q - a + 2, NEW j \in i - 1 .. q - a + 1, NEW c, NEW d, c = a + i - 1, d = a + j - 1
  PROVE  S!IsDigits(SubSeq(SubSeq(text, a, q), i, j)) <=> DigitsAt(c, d)
<1>1. text \in Seq(S!Char) /\ a \in 1 .. Len(text) + 1 /\ q \in a - 1 .. Len(text)
  BY DEF Within
<1>2. PICK n \in Nat : n = Len(text)
  BY <1>1, AtChar
<1>3. SubSeq(SubSeq(text, a, q), i, j) = SubSeq(text, a + i - 1, a + j - 1)
  BY <1>1, PartOfPart
<1>4. c \in 1 .. n + 1 /\ d \in c - 1 .. n
  BY <1>1, <1>2
<1>5. Within(c, d)
  BY <1>1, <1>2, <1>4 DEF Within
<1>6. SubSeq(SubSeq(text, a, q), i, j) = SubSeq(text, c, d)
  BY <1>3, Zenon
<1>7. S!IsDigits(SubSeq(text, c, d)) <=> DigitsAt(c, d)
  BY <1>5, DigitsInPart
<1> QED BY <1>6, <1>7, Zenon

LEMMA ScientificIs ==
  ASSUME NEW a, NEW q, Within(a, q)
  PROVE  S!IsScientific(SubSeq(text, a, q)) <=> Scientific(a, q)
<1>1. PICK u : u = SubSeq(text, a, q)
  OBVIOUS
<1>2. IsPart(u, a, q) /\ a \in Int /\ q \in Int /\ a - 1 <= q
  BY <1>1, PartOf
<1>3. PICK h \in Nat : h = q - a + 1
  BY <1>2
<1>4. Len(u) = h /\ \A i \in 1 .. h : u[i] = S!At(a + i - 1)
  BY <1>2, <1>3 DEF IsPart
<1> DEFINE Middle(k, m) == m = k \/ (u[k + 1] = "." /\ S!IsDigits(SubSeq(u, k + 2, m)))
           Ending(m) ==
             m = h \/ (u[m + 1] = "e" /\ (S!IsDigits(SubSeq(u, m + 2, h))
                                           \/ (h > m + 1 /\ u[m + 2] = "+" /\ S!IsDigits(SubSeq(u, m + 3, h)))))
           MiddleAt(x, y) == y = x \/ (S!At(x + 1) = "." /\ DigitsAt(x + 2, y))
           EndingAt(y) ==
             y = q \/ (S!At(y + 1) = "e" /\ (DigitsAt(y + 2, q)
                                              \/ (q > y + 1 /\ S!At(y + 2) = "+" /\ DigitsAt(y + 3, q))))
<1>5. S!IsScientific(u) <=>
        \E k \in 1 .. h : S!IsDigits(SubSeq(u, 1, k)) /\ \E m \in k .. h : Middle(k, m) /\ Ending(m)
  BY <1>4, Zenon DEF S!IsScientific, S!From
<1>6. Scientific(a, q) <=>
        \E x \in a .. q : DigitsAt(a, x) /\ \E y \in x .. q : MiddleAt(x, y) /\ EndingAt(y)
  BY Zenon DEF Scientific
<1>7. ASSUME NEW k \in 1 .. h, NEW x, x = a + k - 1
      PROVE  S!IsDigits(SubSeq(u, 1, k)) <=> DigitsAt(a, x)
  <2>1. 1 \in 1 .. q - a + 2 /\ k \in 1 - 1 .. q - a + 1 /\ a = a + 1 - 1
    BY <1>2, <1>3
  <2> QED BY <1>1, <1>7, <2>1, DigitsInside
<1>8. ASSUME NEW k \in 1 .. h, NEW m \in k .. h, NEW x, NEW y, x = a + k - 1, y = a + m - 1
      PROVE  Middle(k, m) <=> MiddleAt(x, y)
  <2>1. m = k <=> y = x
    BY <1>2, <1>8
  <2>2. CASE m # k
    <3>1. PICK l \in 1 .. h : l = k + 1 /\ a + l - 1 = x + 1
      BY <1>2, <1>3, <1>8, <2>2
    <3>2. u[k + 1] = S!At(x + 1)
      BY <1>4, <3>1
    <3>3. PICK i, c : i = k + 2 /\ c = x + 2
      OBVIOUS
    <3>4. i \in 1 .. q - a + 2 /\ m \in i - 1 .. q - a + 1 /\ c = a + i - 1
      BY <1>2, <1>3, <1>8, <2>2, <3>3
    <3>5. S!IsDigits(SubSeq(u, i, m)) <=> DigitsAt(c, y)
      BY <1>1, <1>8, <3>4, DigitsInside
    <3> QED BY <2>1, <3>2, <3>3, <3>5
  <2> QED BY <2>1, <2>2
<1>9. ASSUME NEW m \in 1 .. h, NEW y, y = a + m - 1
      PROVE  Ending(m) <=> EndingAt(y)
  <2>1. m = h <=> y = q
    BY <1>2, <1>3, <1>9
  <2>2. CASE m # h
    <3>1. PICK l \in 1 .. h : l = m + 1 /\ a + l - 1 = y + 1
      BY <1>2, <1>3, <1>9, <2>2
    <3>2. u[m + 1] = S!At(y + 1)
      BY <1>4, <3>1
    <3>3. PICK i, c : i = m + 2 /\ c = y + 2
      OBVIOUS
    <3>4. i \in 1 .. q - a + 2 /\ h \in i - 1 .. q - a + 1 /\ c = a + i - 1 /\ q = a + h - 1
      BY <1>2, <1>3, <1>9, <2>2, <3>3
    <3>5. S!IsDigits(SubSeq(u, i, h)) <=> DigitsAt(c, q)
      BY <1>1, <3>4, DigitsInside
    <3>6. h > m + 1 <=> q > y + 1
      BY <1>2, <1>3, <1>9
    <3>7. ASSUME h > m + 1
          PROVE  u[m + 2] = S!At(y + 2) /\ (S!IsDigits(SubSeq(u, m + 3, h)) <=> DigitsAt(y + 3, q))
      <4>1. i \in 1 .. h /\ a + i - 1 = c
        BY <1>2, <1>3, <1>9, <3>3, <3>7
      <4>2. u[i] = S!At(c)
        BY <1>4, <4>1
      <4>3. PICK j, d : j = m + 3 /\ d = y + 3
        OBVIOUS
      <4>4. j \in 1 .. q - a + 2 /\ h \in j - 1 .. q - a + 1 /\ d = a + j - 1
        BY <1>2, <1>3, <1>9, <3>7, <4>3
      <4>5. S!IsDigits(SubSeq(u, j, h)) <=> DigitsAt(d, q)
        BY <1>1, <3>4, <4>4, DigitsInside
      <4> QED BY <3>3, <4>2, <4>3, <4>5
    <3> QED BY <2>1, <3>2, <3>3, <3>5, <3>6, <3>7
  <2> QED BY <2>1, <2>2
<1> HIDE DEF Middle, Ending, MiddleAt, EndingAt
<1>10. ASSUME S!IsScientific(u) PROVE Scientific(a, q)
  <2>1. PICK k \in 1 .. h : S!IsDigits(SubSeq(u, 1, k)) /\ \E m \in k .. h : Middle(k, m) /\ Ending(m)
    BY <1>5, <1>10
  <2>2. PICK m \in k .. h : Middle(k, m) /\ Ending(m)
    BY <2>1
  <2>3. PICK x, y : x = a + k - 1 /\ y = a + m - 1
    OBVIOUS
  <2>4. m \in 1 .. h /\ x \in a .. q /\ y \in x .. q
    BY <1>2, <1>3, <2>3
  <2>5. DigitsAt(a, x)
    BY <1>7, <2>1, <2>3
  <2>6. MiddleAt(x, y) /\ EndingAt(y)
    BY <1>8, <1>9, <2>2, <2>3, <2>4
  <2> QED BY <1>6, <2>4, <2>5, <2>6
<1>11. ASSUME Scientific(a, q) PROVE S!IsScientific(u)
  <2>1. PICK x \in a .. q : DigitsAt(a, x) /\ \E y \in x .. q : MiddleAt(x, y) /\ EndingAt(y)
    BY <1>6, <1>11
  <2>2. PICK y \in x .. q : MiddleAt(x, y) /\ EndingAt(y)
    BY <2>1
  <2>3. PICK k, m : k = x - a + 1 /\ m = y - a + 1
    OBVIOUS
  <2>4. k \in 1 .. h /\ m \in k .. h /\ m \in 1 .. h /\ x = a + k - 1 /\ y = a + m - 1
    BY <1>2, <1>3, <2>3
  <2>5. S!IsDigits(SubSeq(u, 1, k))
    BY <1>7, <2>1, <2>4
  <2>6. Middle(k, m) /\ Ending(m)
    BY <1>8, <1>9, <2>2, <2>4
  <2> QED BY <1>5, <2>4, <2>5, <2>6
<1> QED BY <1>1, <1>10, <1>11

LEMMA PrefixedIs ==
  ASSUME NEW a, NEW q, Within(a, q), NEW letter, NEW X
  PROVE  S!IsPrefixed(SubSeq(text, a, q), letter, X) <=> Prefixed(a, q, letter, X)
<1>1. PICK u : u = SubSeq(text, a, q)
  OBVIOUS
<1>2. IsPart(u, a, q) /\ a \in Int /\ q \in Int /\ a - 1 <= q
  BY <1>1, PartOf
<1>3. Len(u) = q - a + 1 /\ \A i \in 1 .. q - a + 1 : u[i] = S!At(a + i - 1)
  BY <1>2 DEF IsPart
<1>4. CASE q - a > 1
  <2>1. 1 \in 1 .. q - a + 1 /\ 2 \in 1 .. q - a + 1 /\ a + 1 - 1 = a /\ a + 2 - 1 = a + 1
    BY <1>2, <1>4
  <2>2. u[1] = S!At(a) /\ u[2] = S!At(a + 1)
    BY <1>3, <2>1
  <2>3. text \in Seq(S!Char) /\ a \in 1 .. Len(text) + 1 /\ q \in a - 1 .. Len(text)
    BY DEF Within
  <2>4. 3 \in 1 .. q - a + 2 /\ q - a + 1 \in 3 - 1 .. q - a + 1
    BY <1>2, <1>4
  <2>5. SubSeq(SubSeq(text, a, q), 3, q - a + 1) = SubSeq(text, a + 3 - 1, a + (q - a + 1) - 1)
    BY <2>3, <2>4, PartOfPart
  <2>6. a + 3 - 1 = a + 2 /\ a + (q - a + 1) - 1 = q
    BY <1>2
  <2>7. S!From(u, 3) = SubSeq(text, a + 2, q)
    BY <1>1, <1>3, <2>5, <2>6 DEF S!From
  <2>8. PICK b : b = a + 2
    OBVIOUS
  <2>9. Within(b, q)
    BY <1>2, <1>4, <2>3, <2>8 DEF Within
  <2>10. S!AllIn(X, SubSeq(text, b, q)) <=> All(X, b, q)
    BY <2>9, AllInPart
  <2>11. Len(u) > 2
    BY <1>2, <1>3, <1>4
  <2> QED BY <1>1, <1>4, <2>2, <2>7, <2>8, <2>10, <2>11 DEF S!IsPrefixed, Prefixed
<1>5. CASE ~(q - a > 1)
  <2>1. ~(Len(u) > 2)
    BY <1>2, <1>3, <1>5
  <2> QED BY <1>1, <1>5, <2>1 DEF S!IsPrefixed, Prefixed
<1> QED BY <1>4, <1>5

LEMMA WordIs ==
  ASSUME NEW a, NEW q, Within(a, q)
  PROVE  S!IsWord(SubSeq(text, a, q)) <=> Word(a, q)
<1>1. PICK u : u = SubSeq(text, a, q)
  OBVIOUS
<1>2. IsPart(u, a, q) /\ a \in Int /\ q \in Int /\ a - 1 <= q
  BY <1>1, PartOf
<1>3. u \in Seq(S!Char) /\ Len(u) = q - a + 1 /\ \A i \in 1 .. q - a + 1 : u[i] = S!At(a + i - 1)
  BY <1>2 DEF IsPart
<1>4. u # <<>> <=> a <= q
  <2>1. u # <<>> <=> Len(u) # 0
    BY <1>3, EmptySeq
  <2> QED BY <1>2, <1>3, <2>1
<1>5. ASSUME a <= q PROVE u[1] = S!At(a)
  <2>1. 1 \in 1 .. q - a + 1 /\ a + 1 - 1 = a
    BY <1>2, <1>5
  <2> QED BY <1>3, <2>1
<1>6. S!AllIn(S!Letter \cup S!Digit, SubSeq(text, a, q)) <=> All(S!Letter \cup S!Digit, a, q)
  BY AllInPart
<1> QED BY <1>1, <1>4, <1>5, <1>6, Zenon DEF S!IsWord, Word

(* Parts of few characters. *)
LEMMA PartOfOne ==
  ASSUME NEW a, NEW q, Within(a, q), NEW b
  PROVE  SubSeq(text, a, q) = <<b>> <=> q = a /\ S!At(a) = b
<1>1. PICK u : u = SubSeq(text, a, q)
  OBVIOUS
<1>2. IsPart(u, a, q) /\ a \in Int /\ q \in Int /\ a - 1 <= q
  BY <1>1, PartOf
<1>3. PICK h \in Nat : h = q - a + 1
  BY <1>2
<1>4. u \in Seq(S!Char) /\ Len(u) = h /\ \A i \in 1 .. h : u[i] = S!At(a + i - 1)
  BY <1>2, <1>3 DEF IsPart
<1>5. u = [i \in 1 .. h |-> u[i]]
  BY <1>4, LenProperties
<1>6. h = 1 => u[1] = S!At(a)
  BY <1>2, <1>4
<1>7. ASSUME h = 1, S!At(a) = b PROVE u = <<b>>
  BY <1>5, <1>6, <1>7
<1>8. ASSUME u = <<b>> PROVE h = 1 /\ S!At(a) = b
  <2>1. Len(<<b>>) = 1 /\ <<b>>[1] = b
    OBVIOUS
  <2> QED BY <1>4, <1>6, <1>8, <2>1
<1>9. h = 1 <=> q = a
  BY <1>2, <1>3
<1> QED BY <1>1, <1>7, <1>8, <1>9

LEMMA PartOfTwo ==
  ASSUME NEW a, NEW q, Within(a, q), NEW b, NEW c
  PROVE  SubSeq(text, a, q) = <<b, c>> <=> q = a + 1 /\ S!At(a) = b /\ S!At(a + 1) = c
<1>1. PICK u : u = SubSeq(text, a, q)
  OBVIOUS
<1>2. IsPart(u, a, q) /\ a \in Int /\ q \in Int /\ a - 1 <= q
  BY <1>1, PartOf
<1>3. PICK h \in Nat : h = q - a + 1
  BY <1>2
<1>4. u \in Seq(S!Char) /\ Len(u) = h /\ \A i \in 1 .. h : u[i] = S!At(a + i - 1)
  BY <1>2, <1>3 DEF IsPart
<1>5. u = [i \in 1 .. h |-> u[i]]
  BY <1>4, LenProperties
<1>6. h = 2 => u[1] = S!At(a) /\ u[2] = S!At(a + 1)
  <2>1. a + 1 - 1 = a /\ a + 2 - 1 = a + 1
    BY <1>2
  <2> QED BY <1>4, <2>1
<1>7. ASSUME h = 2, S!At(a) = b, S!At(a + 1) = c PROVE u = <<b, c>>
  BY <1>5, <1>6, <1>7
<1>8. ASSUME u = <<b, c>> PROVE h = 2 /\ S!At(a) = b /\ S!At(a + 1) = c
  <2>1. Len(<<b, c>>) = 2 /\ <<b, c>>[1] = b /\ <<b, c>>[2] = c
    OBVIOUS
  <2> QED BY <1>4, <1>6, <1>8, <2>1
<1>9. h = 2 <=> q = a + 1
  BY <1>2, <1>3
<1> QED BY <1>1, <1>7, <1>8, <1>9

LEMMA PartOfThree ==
  ASSUME NEW a, NEW q, Within(a, q), NEW b, NEW c, NEW d
  PROVE  SubSeq(text, a, q) = <<b, c, d>> <=> q = a + 2 /\ S!At(a) = b /\ S!At(a + 1) = c /\ S!At(a + 2) = d
<1>1. PICK u : u = SubSeq(text, a, q)
  OBVIOUS
<1>2. IsPart(u, a, q) /\ a \in Int /\ q \in Int /\ a - 1 <= q
  BY <1>1, PartOf
<1>3. PICK h \in Nat : h = q - a + 1
  BY <1>2
<1>4. u \in Seq(S!Char) /\ Len(u) = h /\ \A i \in 1 .. h : u[i] = S!At(a + i - 1)
  BY <1>2, <1>3 DEF IsPart
<1>5. u = [i \in 1 .. h |-> u[i]]
  BY <1>4, LenProperties
<1>6. h = 3 => u[1] = S!At(a) /\ u[2] = S!At(a + 1) /\ u[3] = S!At(a + 2)
  <2>1. a + 1 - 1 = a /\ a + 2 - 1 = a + 1 /\ a + 3 - 1 = a + 2
    BY <1>2
  <2> QED BY <1>4, <2>1
<1>7. ASSUME h = 3, S!At(a) = b, S!At(a + 1) = c, S!At(a + 2) = d PROVE u = <<b, c, d>>
  BY <1>5, <1>6, <1>7
<1>8. ASSUME u = <<b, c, d>> PROVE h = 3 /\ S!At(a) = b /\ S!At(a + 1) = c /\ S!At(a + 2) = d
  <2>1. Len(<<b, c, d>>) = 3 /\ <<b, c, d>>[1] = b /\ <<b, c, d>>[2] = c /\ <<b, c, d>>[3] = d
    OBVIOUS
  <2> QED BY <1>4, <1>6, <1>8, <2>1
<1>9. h = 3 <=> q = a + 2
  BY <1>2, <1>3
<1> QED BY <1>1, <1>7, <1>8, <1>9

ModuleAt(a, q) == q = a + 3 /\ S!At(a) = "@" /\ S!At(a + 1) = "s" /\ S!At(a + 2) = "y" /\ S!At(a + 3) = "s"

LEMMA ModuleIs ==
  ASSUME NEW a, NEW q, Within(a, q)
  PROVE  SubSeq(text, a, q) \in S!Module <=> ModuleAt(a, q)
<1>1. PICK u : u = SubSeq(text, a, q)
  OBVIOUS
<1>2. IsPart(u, a, q) /\ a \in Int /\ q \in Int /\ a - 1 <= q
  BY <1>1, PartOf
<1>3. PICK h \in Nat : h = q - a + 1
  BY <1>2
<1>4. u \in Seq(S!Char) /\ Len(u) = h /\ \A i \in 1 .. h : u[i] = S!At(a + i - 1)
  BY <1>2, <1>3 DEF IsPart
<1>5. u = [i \in 1 .. h |-> u[i]]
  BY <1>4, LenProperties
<1>6. h = 4 => u[1] = S!At(a) /\ u[2] = S!At(a + 1) /\ u[3] = S!At(a + 2) /\ u[4] = S!At(a + 3)
  <2>1. a + 1 - 1 = a /\ a + 2 - 1 = a + 1 /\ a + 3 - 1 = a + 2 /\ a + 4 - 1 = a + 3
    BY <1>2
  <2> QED BY <1>4, <2>1
<1>7. ASSUME h = 4, ModuleAt(a, q) PROVE u = <<"@", "s", "y", "s">>
  BY <1>5, <1>6, <1>7 DEF ModuleAt
<1>8. ASSUME u = <<"@", "s", "y", "s">> PROVE h = 4 /\ ModuleAt(a, q)
  <2>1. /\ Len(<<"@", "s", "y", "s">>) = 4
        /\ <<"@", "s", "y", "s">>[1] = "@" /\ <<"@", "s", "y", "s">>[2] = "s"
        /\ <<"@", "s", "y", "s">>[3] = "y" /\ <<"@", "s", "y", "s">>[4] = "s"
    OBVIOUS
  <2>2. h = 4
    BY <1>4, <1>8, <2>1
  <2>3. q = a + 3
    BY <1>2, <1>3, <2>2
  <2> QED BY <1>6, <1>8, <2>1, <2>2, <2>3 DEF ModuleAt
<1>9. ModuleAt(a, q) => h = 4
  BY <1>2, <1>3 DEF ModuleAt
<1> QED BY <1>1, <1>7, <1>8, <1>9 DEF S!Module

Singles == {".", "+", "*", "/", ","}
(* What each first character may be the first of. *)
IsTokenAt(a, q) ==
  \/ S!At(a) \in S!Digit /\ (Scientific(a, q) \/ Prefixed(a, q, "b", S!BinDigit) \/ Prefixed(a, q, "x", S!HexDigit))
  \/ S!At(a) \in S!Letter /\ Word(a, q)
  \/ S!At(a) = "\"" /\ S!IsDelimited(SubSeq(text, a, q))
  \/ S!At(a) = "@" /\ ModuleAt(a, q)
  \/ S!At(a) = ">" /\ (\/ q = a
                       \/ q = a + 1 /\ S!At(a + 1) \in {"=", ">"}
                       \/ q = a + 2 /\ S!At(a + 1) = ">" /\ S!At(a + 2) = ">")
  \/ S!At(a) = "=" /\ (q = a \/ (q = a + 1 /\ S!At(a + 1) = "="))
  \/ S!At(a) \in Singles /\ q = a

LEMMA QuotedBegins ==
  ASSUME NEW a, NEW q, Within(a, q), S!IsDelimited(SubSeq(text, a, q))
  PROVE  a <= q /\ a < q /\ S!At(a) = "\""
<1>1. PICK u : u = SubSeq(text, a, q)
  OBVIOUS
<1>2. IsPart(u, a, q) /\ a \in Int /\ q \in Int /\ a - 1 <= q
  BY <1>1, PartOf
<1>3. Len(u) = q - a + 1 /\ \A i \in 1 .. q - a + 1 : u[i] = S!At(a + i - 1)
  BY <1>2 DEF IsPart
<1>4. Len(u) > 1 /\ u[1] = "\""
  BY <1>1, Zenon DEF S!IsDelimited
<1>8. q - a + 1 > 1
  BY <1>3, <1>4
<1>5. a < q /\ a <= q
  BY <1>2, <1>8
<1>6. 1 \in 1 .. q - a + 1 /\ a + 1 - 1 = a
  BY <1>2, <1>5
<1>7. u[1] = S!At(a)
  BY <1>3, <1>6
<1> QED BY <1>4, <1>5, <1>7

LEMMA KeywordIs ==
  ASSUME NEW a, NEW q, Within(a, q), SubSeq(text, a, q) \in S!Keyword
  PROVE  Word(a, q)
<1>1. SubSeq(text, a, q) = <<"f", "u", "n">>
  BY DEF S!Keyword
<1>2. q = a + 2 /\ S!At(a) = "f" /\ S!At(a + 1) = "u" /\ S!At(a + 2) = "n"
  BY <1>1, PartOfThree
<1>3. a \in Int
  BY PartOf
<1>4. \A i \in a .. q : i = a \/ i = a + 1 \/ i = a + 2
  BY <1>2, <1>3
<1>5. {"f", "u", "n"} \subseteq S!Letter
  BY DEF S!Letter
<1>6. All(S!Letter \cup S!Digit, a, q)
  BY <1>2, <1>4, <1>5 DEF All
<1> QED BY <1>2, <1>3, <1>5, <1>6 DEF Word

LEMMA SpelledIs ==
  ASSUME NEW u
  PROVE  /\ S!Spelled("NUMBER", u) <=> S!IsScientific(u)
         /\ S!Spelled("NUMBER_BIN", u) <=> S!IsPrefixed(u, "b", S!BinDigit)
         /\ S!Spelled("NUMBER_HEX", u) <=> S!IsPrefixed(u, "x", S!HexDigit)
         /\ S!Spelled("STRING", u) <=> S!IsQuoted(u) /\ ~S!HasEscape(u)
         /\ S!Spelled("STRING_ESCAPE", u) <=> S!IsQuoted(u) /\ S!HasEscape(u)
         /\ S!Spelled("KEYWORD", u) <=> u \in S!Keyword
         /\ S!Spelled("IDENTIFIER", u) <=> S!IsWord(u) /\ u \notin S!Keyword
         /\ S!Spelled("MODULE", u) <=> u \in S!Module
         /\ S!Spelled("GREATER", u) <=> u = <<">">>
         /\ S!Spelled("GREATER_EQUAL", u) <=> u = <<">", "=">>
         /\ S!Spelled("BIT_SAR", u) <=> u = <<">", ">">>
         /\ S!Spelled("BIT_SHR", u) <=> u = <<">", ">", ">">>
         /\ S!Spelled("EQUAL", u) <=> u = <<"=">>
         /\ S!Spelled("EQUAL_EQUAL", u) <=> u = <<"=", "=">>
         /\ \A c \in Singles : S!Spelled(c, u) <=> u = <<c>>
<1>1. PICK p : p = <<S!IsScientific(u), S!IsPrefixed(u, "b", S!BinDigit), S!IsPrefixed(u, "x", S!HexDigit),
                     S!IsQuoted(u), S!HasEscape(u), S!IsWord(u)>>
  OBVIOUS
<1>2. S!Spelled("NUMBER", u) <=> S!IsScientific(u)
  BY DEF S!Spelled
<1>3. S!Spelled("NUMBER_BIN", u) <=> S!IsPrefixed(u, "b", S!BinDigit)
  BY DEF S!Spelled
<1>4. S!Spelled("NUMBER_HEX", u) <=> S!IsPrefixed(u, "x", S!HexDigit)
  BY DEF S!Spelled
<1>5. S!Spelled("STRING", u) <=> S!IsQuoted(u) /\ ~S!HasEscape(u)
  BY DEF S!Spelled
<1>6. S!Spelled("STRING_ESCAPE", u) <=> S!IsQuoted(u) /\ S!HasEscape(u)
  BY DEF S!Spelled
<1>7. S!Spelled("KEYWORD", u) <=> u \in S!Keyword
  BY DEF S!Spelled
<1>8. S!Spelled("IDENTIFIER", u) <=> S!IsWord(u) /\ u \notin S!Keyword
  BY DEF S!Spelled
<1>9. S!Spelled("MODULE", u) <=> u \in S!Module
  BY DEF S!Spelled
<1>10. S!Spelled("GREATER", u) <=> u = <<">">>
  BY DEF S!Spelled
<1>11. S!Spelled("GREATER_EQUAL", u) <=> u = <<">", "=">>
  BY DEF S!Spelled
<1>12. S!Spelled("BIT_SAR", u) <=> u = <<">", ">">>
  BY DEF S!Spelled
<1>13. S!Spelled("BIT_SHR", u) <=> u = <<">", ">", ">">>
  BY DEF S!Spelled
<1>14. S!Spelled("EQUAL", u) <=> u = <<"=">>
  BY DEF S!Spelled
<1>15. S!Spelled("EQUAL_EQUAL", u) <=> u = <<"=", "=">>
  BY DEF S!Spelled
<1>16. ASSUME NEW c \in Singles PROVE S!Spelled(c, u) <=> u = <<c>>
  BY <1>16 DEF S!Spelled, Singles
<1> QED BY <1>2, <1>3, <1>4, <1>5, <1>6, <1>7, <1>8, <1>9, <1>10, <1>11, <1>12, <1>13, <1>14, <1>15, <1>16

(* A token of the language reference is known by its first character. *)
LEMMA TokenBegins ==
  ASSUME NEW a, NEW q, Within(a, q), S!IsToken(SubSeq(text, a, q))
  PROVE  a <= q /\ IsTokenAt(a, q)
<1>1. PICK u : u = SubSeq(text, a, q)
  OBVIOUS
<1>2. PICK type \in S!Types : S!Spelled(type, u)
  BY <1>1 DEF S!IsToken
<1>3. a \in Int /\ q \in Int
  BY PartOf
<1>4. CASE type = "NUMBER"
  <2>1. Scientific(a, q)
    BY <1>1, <1>2, <1>4, SpelledIs, ScientificIs
  <2>2. PICK k \in a .. q : DigitsAt(a, k)
    BY <2>1, Zenon DEF Scientific
  <2>3. a <= q /\ S!At(a) \in S!Digit
    BY <1>3, <2>2 DEF DigitsAt, All
  <2> QED BY <2>1, <2>3 DEF IsTokenAt
<1>5. ASSUME NEW letter, NEW X, S!IsPrefixed(u, letter, X)
      PROVE  Prefixed(a, q, letter, X) /\ a <= q /\ S!At(a) \in S!Digit
  <2>1. Prefixed(a, q, letter, X)
    BY <1>1, <1>5, PrefixedIs
  <2>2. a <= q
    BY <1>3, <2>1 DEF Prefixed
  <2> QED BY <2>1, <2>2 DEF Prefixed, S!Digit
<1>6. CASE type = "NUMBER_BIN"
  <2>1. S!IsPrefixed(u, "b", S!BinDigit)
    BY <1>2, <1>6, SpelledIs
  <2>2. Prefixed(a, q, "b", S!BinDigit) /\ a <= q /\ S!At(a) \in S!Digit
    BY <1>5, <2>1
  <2> QED BY <2>2 DEF IsTokenAt
<1>7. CASE type = "NUMBER_HEX"
  <2>1. S!IsPrefixed(u, "x", S!HexDigit)
    BY <1>2, <1>7, SpelledIs
  <2>2. Prefixed(a, q, "x", S!HexDigit) /\ a <= q /\ S!At(a) \in S!Digit
    BY <1>5, <2>1
  <2> QED BY <2>2 DEF IsTokenAt
<1>8. CASE type \in {"STRING", "STRING_ESCAPE"}
  <2>1. S!IsDelimited(u)
    BY <1>2, <1>8, SpelledIs DEF S!IsQuoted
  <2>2. S!At(a) = "\""
    BY <1>1, <2>1, QuotedBegins
  <2>3. a <= q
    BY <1>1, <2>1, QuotedBegins
  <2> QED BY <1>1, <2>1, <2>2, <2>3, Zenon DEF IsTokenAt
<1>9. CASE type \in {"KEYWORD", "IDENTIFIER"}
  <2>1. u \in S!Keyword \/ S!IsWord(u)
    BY <1>2, <1>9, SpelledIs
  <2>2. Word(a, q)
    BY <1>1, <2>1, KeywordIs, WordIs
  <2> QED BY <2>2 DEF IsTokenAt, Word
<1>10. CASE type = "MODULE"
  <2>1. u \in S!Module
    BY <1>2, <1>10, SpelledIs
  <2>2. ModuleAt(a, q)
    BY <1>1, <2>1, ModuleIs
  <2>3. S!At(a) = "@" /\ a <= q
    BY <1>3, <2>2 DEF ModuleAt
  <2> QED BY <2>2, <2>3 DEF IsTokenAt
<1>11. CASE type = "GREATER"
  <2>1. u = <<">">>
    BY <1>2, <1>11, SpelledIs
  <2>3. SubSeq(text, a, q) = <<">">>
    BY <1>1, <2>1
  <2>2. q = a /\ S!At(a) = ">"
    BY <2>3, PartOfOne, Zenon
  <2> QED BY <1>3, <2>2 DEF IsTokenAt
<1>12. CASE type = "GREATER_EQUAL"
  <2>1. u = <<">", "=">>
    BY <1>2, <1>12, SpelledIs
  <2>3. SubSeq(text, a, q) = <<">", "=">>
    BY <1>1, <2>1
  <2>4. PICK b, c : b = ">" /\ c = "="
    OBVIOUS
  <2>5. SubSeq(text, a, q) = <<b, c>>
    BY <2>3, <2>4
  <2>6. SubSeq(text, a, q) = <<b, c>> <=> q = a + 1 /\ S!At(a) = b /\ S!At(a + 1) = c
    BY PartOfTwo
  <2>2. q = a + 1 /\ S!At(a) = b /\ S!At(a + 1) = c
    BY <2>5, <2>6, Zenon
  <2> QED BY <1>3, <2>2, <2>4 DEF IsTokenAt
<1>13. CASE type = "BIT_SAR"
  <2>1. u = <<">", ">">>
    BY <1>2, <1>13, SpelledIs
  <2>3. SubSeq(text, a, q) = <<">", ">">>
    BY <1>1, <2>1
  <2>2. q = a + 1 /\ S!At(a) = ">" /\ S!At(a + 1) = ">"
    BY <2>3, PartOfTwo, Zenon
  <2> QED BY <1>3, <2>2 DEF IsTokenAt
<1>14. CASE type = "BIT_SHR"
  <2>1. u = <<">", ">", ">">>
    BY <1>2, <1>14, SpelledIs
  <2>2. PICK b, c, d : b = ">" /\ c = ">" /\ d = ">"
    OBVIOUS
  <2>3. SubSeq(text, a, q) = <<b, c, d>>
    BY <1>1, <2>1, <2>2
  <2>4. SubSeq(text, a, q) = <<b, c, d>> <=> q = a + 2 /\ S!At(a) = b /\ S!At(a + 1) = c /\ S!At(a + 2) = d
    BY PartOfThree
  <2>5. q = a + 2 /\ S!At(a) = b /\ S!At(a + 1) = c /\ S!At(a + 2) = d
    BY <2>3, <2>4, Zenon
  <2> QED BY <1>3, <2>2, <2>5 DEF IsTokenAt
<1>15. CASE type = "EQUAL"
  <2>1. u = <<"=">>
    BY <1>2, <1>15, SpelledIs
  <2>3. SubSeq(text, a, q) = <<"=">>
    BY <1>1, <2>1
  <2>2. q = a /\ S!At(a) = "="
    BY <2>3, PartOfOne, Zenon
  <2> QED BY <1>3, <2>2 DEF IsTokenAt
<1>16. CASE type = "EQUAL_EQUAL"
  <2>1. u = <<"=", "=">>
    BY <1>2, <1>16, SpelledIs
  <2>3. SubSeq(text, a, q) = <<"=", "=">>
    BY <1>1, <2>1
  <2>2. q = a + 1 /\ S!At(a) = "=" /\ S!At(a + 1) = "="
    BY <2>3, PartOfTwo, Zenon
  <2> QED BY <1>3, <2>2 DEF IsTokenAt
<1>17. CASE type \in Singles
  <2>1. u = <<type>>
    BY <1>2, <1>17, SpelledIs
  <2>3. SubSeq(text, a, q) = <<type>>
    BY <1>1, <2>1
  <2>2. q = a /\ S!At(a) = type
    BY <2>3, PartOfOne, Zenon
  <2>4. S!At(a) \in Singles /\ q = a
    BY <1>17, <2>2
  <2>5. a <= q
    BY <1>3, <2>4
  <2> QED BY <2>4, <2>5, Zenon DEF IsTokenAt
<1>18. type \in {"NUMBER", "NUMBER_BIN", "NUMBER_HEX", "STRING", "STRING_ESCAPE", "KEYWORD", "IDENTIFIER",
                 "MODULE", "GREATER", "GREATER_EQUAL", "BIT_SAR", "BIT_SHR", "EQUAL", "EQUAL_EQUAL"} \cup Singles
  BY <1>2 DEF S!Types, Singles
<1> QED BY <1>4, <1>6, <1>7, <1>8, <1>9, <1>10, <1>11, <1>12, <1>13, <1>14, <1>15, <1>16, <1>17, <1>18

(* The digits of a decimal number go to d, with its fraction to f. *)
Mantissa(i, d, f) ==
  /\ i <= d /\ d <= f /\ DigitsAt(i, d) /\ S!At(d + 1) \notin S!Digit
  /\ \/ f = d /\ ~(S!At(d + 1) = "." /\ S!At(d + 2) \in S!Digit)
     \/ S!At(d + 1) = "." /\ DigitsAt(d + 2, f) /\ S!At(f + 1) \notin S!Digit
ExponentAt(f, n) ==
  S!At(f + 1) = "e" /\ (DigitsAt(f + 2, n) \/ (n > f + 1 /\ S!At(f + 2) = "+" /\ DigitsAt(f + 3, n)))

LEMMA NoDigits == {".", "e", "+", "b", "x", S!NUL} \cap S!Digit = {}
BY DEF S!Digit, S!NUL

LEMMA MantissaRead ==
  ASSUME text \in Seq(S!Char), NEW i \in 1 .. Len(text), S!At(i) \in S!Digit
  PROVE  \E d, f \in i .. Len(text) : Mantissa(i, d, f) /\ f + 1 = S!Fraction(S!After(S!Digit, i + 1))
<1>1. PICK n \in Nat : n = Len(text)
  BY AtChar
<1>2. S!NUL \notin S!Digit
  BY NoDigits
<1>3. PICK j : j = i + 1
  OBVIOUS
<1>4. j \in 1 .. Len(text) + 1
  BY <1>1, <1>3
<1>5. PICK k : k = S!After(S!Digit, j)
  OBVIOUS
<1>6. k \in j .. Len(text) + 1 /\ S!At(k) \notin S!Digit /\ \A m \in j .. k - 1 : S!At(m) \in S!Digit
  BY <1>2, <1>4, <1>5, AfterStops
<1>7. PICK d \in Int : d = k - 1
  BY <1>1, <1>3, <1>6
<1>8. d \in i .. n /\ d + 1 = k
  BY <1>1, <1>3, <1>6, <1>7
<1>9. DigitsAt(i, d)
  <2>1. \A m \in i .. d : m = i \/ m \in j .. k - 1
    BY <1>1, <1>3, <1>6, <1>7
  <2>2. \A m \in i .. d : S!At(m) \in S!Digit
    BY <1>6, <2>1
  <2> QED BY <1>8, <2>2 DEF DigitsAt, All
<1>10. CASE ~(S!At(k) = "." /\ S!At(k + 1) \in S!Digit)
  <2>1. S!Fraction(k) = k
    BY <1>10 DEF S!Fraction
  <2>2. k + 1 = d + 2
    BY <1>8
  <2>3. Mantissa(i, d, d)
    BY <1>6, <1>8, <1>9, <1>10, <2>2 DEF Mantissa
  <2> QED BY <1>1, <1>3, <1>5, <1>8, <2>1, <2>3
<1>11. CASE S!At(k) = "." /\ S!At(k + 1) \in S!Digit
  <2>1. PICK l : l = S!After(S!Digit, k + 1)
    OBVIOUS
  <2>2. S!Fraction(k) = l
    BY <1>11, <2>1 DEF S!Fraction
  <2>3. k + 1 \in Int /\ k \in Int
    BY <1>8
  <2>4. ~(k + 1 > Len(text))
    BY <1>2, <1>11, <2>3, AtChar
  <2>5. PICK p \in 1 .. Len(text) + 1 : p = k + 1 /\ p <= n
    BY <1>1, <1>8, <2>3, <2>4
  <2>6. l \in p .. Len(text) + 1 /\ S!At(l) \notin S!Digit /\ \A m \in p .. l - 1 : S!At(m) \in S!Digit
    BY <1>2, <2>1, <2>5, AfterStops
  <2>7. l # p
    BY <1>11, <2>5, <2>6
  <2>8. PICK f \in Int : f = l - 1
    BY <1>1, <2>5, <2>6
  <2>9. f \in i .. n /\ f + 1 = l /\ d + 2 = p /\ p <= f /\ d <= f
    BY <1>1, <1>8, <2>5, <2>6, <2>7, <2>8
  <2>10. DigitsAt(p, f)
    BY <2>6, <2>8, <2>9 DEF DigitsAt, All
  <2>11. Mantissa(i, d, f)
    BY <1>6, <1>8, <1>9, <1>11, <2>6, <2>9, <2>10 DEF Mantissa
  <2> QED BY <1>1, <1>3, <1>5, <1>8, <2>2, <2>9, <2>11
<1> QED BY <1>10, <1>11

(* A decimal number that goes further has an exponent. *)
LEMMA MantissaOnly ==
  ASSUME NEW i \in Int, NEW d \in Int, NEW f \in Int, NEW n \in Int, Mantissa(i, d, f), n > f, Scientific(i, n)
  PROVE  ExponentAt(f, n)
<1>1. /\ i <= d /\ d <= f /\ S!At(d + 1) \notin S!Digit /\ \A k \in i .. d : S!At(k) \in S!Digit
      /\ \/ f = d /\ ~(S!At(d + 1) = "." /\ S!At(d + 2) \in S!Digit)
         \/ S!At(d + 1) = "." /\ DigitsAt(d + 2, f) /\ S!At(f + 1) \notin S!Digit
  BY DEF Mantissa, DigitsAt, All
<1>2. PICK k \in i .. n :
        /\ DigitsAt(i, k)
        /\ \E m \in k .. n :
             /\ m = k \/ (S!At(k + 1) = "." /\ DigitsAt(k + 2, m))
             /\ m = n \/ (S!At(m + 1) = "e" /\ (DigitsAt(m + 2, n)
                                                 \/ (n > m + 1 /\ S!At(m + 2) = "+" /\ DigitsAt(m + 3, n))))
  BY Zenon DEF Scientific
<1>3. PICK m \in k .. n :
             /\ m = k \/ (S!At(k + 1) = "." /\ DigitsAt(k + 2, m))
             /\ m = n \/ (S!At(m + 1) = "e" /\ (DigitsAt(m + 2, n)
                                                 \/ (n > m + 1 /\ S!At(m + 2) = "+" /\ DigitsAt(m + 3, n))))
  BY <1>2
<1>4. "." \notin S!Digit /\ "e" \notin S!Digit
  BY NoDigits
<1>5. k = d
  <2>1. CASE k < d
    <3>1. k + 1 \in i .. d
      BY <2>1
    <3>2. S!At(k + 1) \in S!Digit
      BY <1>1, <3>1
    <3>3. m = k /\ m # n
      BY <1>1, <1>3, <1>4, <2>1, <3>2
    <3> QED BY <1>3, <1>4, <3>2, <3>3
  <2>2. CASE k > d
    <3>1. d + 1 \in i .. k
      BY <1>1, <2>2
    <3> QED BY <1>1, <1>2, <3>1 DEF DigitsAt, All
  <2> QED BY <1>2, <2>1, <2>2
<1>6. m = f
  <2>1. CASE m = d
    <3>1. m # n
      BY <1>1, <2>1
    <3>2. S!At(d + 1) = "e"
      BY <1>3, <2>1, <3>1
    <3> QED BY <1>1, <2>1, <3>2
  <2>2. CASE m # d
    <3>1. S!At(d + 1) = "." /\ DigitsAt(d + 2, m)
      BY <1>3, <1>5, <2>2
    <3>2. d + 2 <= m /\ \A p \in d + 2 .. m : S!At(p) \in S!Digit
      BY <3>1 DEF DigitsAt, All
    <3>3. S!At(d + 2) \in S!Digit
      BY <1>3, <3>2
    <3>4. DigitsAt(d + 2, f) /\ S!At(f + 1) \notin S!Digit
      BY <1>1, <3>1, <3>3
    <3>5. d + 2 <= f /\ \A p \in d + 2 .. f : S!At(p) \in S!Digit
      BY <3>4 DEF DigitsAt, All
    <3>6. ~(m < f)
      <4>1. SUFFICES ASSUME m < f PROVE FALSE
        OBVIOUS
      <4>2. m + 1 \in d + 2 .. f
        BY <1>3, <3>2, <4>1
      <4>3. S!At(m + 1) \in S!Digit
        BY <3>5, <4>2
      <4>4. m # n
        BY <1>3, <4>1
      <4> QED BY <1>3, <1>4, <4>3, <4>4
    <3>7. ~(m > f)
      <4>1. SUFFICES ASSUME m > f PROVE FALSE
        OBVIOUS
      <4>2. f + 1 \in d + 2 .. m
        BY <1>3, <3>5, <4>1
      <4> QED BY <3>2, <3>4, <4>2
    <3> QED BY <1>3, <3>6, <3>7
  <2> QED BY <2>1, <2>2
<1>7. m # n
  BY <1>6
<1> QED BY <1>3, <1>6, <1>7, Zenon DEF ExponentAt

(* The token that begins at i, or the error: there is none that goes on. *)
IsTokenTo(i, n) == S!IsToken(SubSeq(text, i, n))
Longest(i, n) == \A m \in n .. Len(text) : ~IsTokenTo(i, m)
Matches(i, t) ==
  /\ t.type \notin {"NONE", "EOF", "ERROR"} =>
       S!Spelled(t.type, SubSeq(text, i, t.end - 1)) /\ Longest(i, t.end)
  /\ t.type = "ERROR" => Longest(i, t.end - 1)

LEMMA MatchesFound ==
  ASSUME NEW i, NEW type, type \notin {"NONE", "EOF", "ERROR"}, NEW e, NEW q, q = e - 1,
         S!Spelled(type, SubSeq(text, i, q)), Longest(i, e)
  PROVE  Matches(i, S!Found(type, e))
<1>1. S!Found(type, e).type = type /\ S!Found(type, e).end = e
  BY DEF S!Found
<1> QED BY <1>1, Zenon DEF Matches

LEMMA MatchesError ==
  ASSUME NEW i, NEW e, NEW q, q = e - 1, Longest(i, q)
  PROVE  Matches(i, S!Found("ERROR", e))
<1>1. S!Found("ERROR", e).type = "ERROR" /\ S!Found("ERROR", e).end = e
  BY DEF S!Found
<1>2. Longest(i, e - 1)
  BY Zenon
<1> QED BY <1>1, <1>2 DEF Matches

LEMMA DigitBegins ==
  ASSUME NEW a, NEW q, Within(a, q), IsTokenTo(a, q), S!At(a) \in S!Digit
  PROVE  Scientific(a, q) \/ Prefixed(a, q, "b", S!BinDigit) \/ Prefixed(a, q, "x", S!HexDigit)
<1>1. IsTokenAt(a, q)
  BY TokenBegins DEF IsTokenTo
<1>2. S!At(a) \notin S!Letter \cup Singles \cup {"\"", "@", ">", "="}
  BY DEF S!Digit, S!Letter, Singles
<1> QED BY <1>1, <1>2, Zenon DEF IsTokenAt

SignOf(f) == IF S!At(f + 2) = "+" THEN f + 3 ELSE f + 2

LEMMA ExponentSign ==
  ASSUME NEW f \in Int, NEW n \in Int, ExponentAt(f, n)
  PROVE  S!At(f + 1) = "e" /\ DigitsAt(SignOf(f), n)
<1>1. "+" \notin S!Digit
  BY NoDigits
<1>2. CASE DigitsAt(f + 2, n)
  <2>1. S!At(f + 2) \in S!Digit
    BY <1>2 DEF DigitsAt, All
  <2> QED BY <1>1, <1>2, <2>1 DEF ExponentAt, SignOf
<1>3. CASE S!At(f + 2) = "+" /\ DigitsAt(f + 3, n)
  BY <1>3 DEF ExponentAt, SignOf
<1> QED BY <1>2, <1>3 DEF ExponentAt

LEMMA MantissaScientific ==
  ASSUME NEW i \in Int, NEW d \in Int, NEW f \in Int, NEW q \in Int, Mantissa(i, d, f), f <= q,
         q = f \/ (S!At(f + 1) = "e" /\ DigitsAt(SignOf(f), q))
  PROVE  Scientific(i, q)
<1>1. /\ d \in i .. q /\ DigitsAt(i, d) /\ f \in d .. q
      /\ f = d \/ (S!At(d + 1) = "." /\ DigitsAt(d + 2, f))
  BY DEF Mantissa
<1>2. q = f \/ (S!At(f + 1) = "e" /\ (DigitsAt(f + 2, q)
                                       \/ (q > f + 1 /\ S!At(f + 2) = "+" /\ DigitsAt(f + 3, q))))
  <2>1. DigitsAt(f + 3, q) => q > f + 1
    BY DEF DigitsAt
  <2> QED BY <2>1 DEF SignOf
<1> QED BY <1>1, <1>2, Zenon DEF Scientific

LEMMA DecimalMatches ==
  ASSUME text \in Seq(S!Char), NEW i \in 1 .. Len(text), S!At(i) \in S!Digit, S!At(i + 1) \notin {"b", "x"}
  PROVE  Matches(i, S!Exponent(S!Fraction(S!After(S!Digit, i + 1))))
<1>1. PICK l \in Nat : l = Len(text) /\ \A k \in Int : k > l => S!At(k) = S!NUL
  BY AtChar
<1>2. PICK d, f \in i .. Len(text) : Mantissa(i, d, f) /\ f + 1 = S!Fraction(S!After(S!Digit, i + 1))
  BY MantissaRead
<1>3. i \in Int /\ d \in Int /\ f \in Int /\ i <= f /\ f <= l /\ i >= 1
  BY <1>1, <1>2
<1>4. PICK p : p = S!Fraction(S!After(S!Digit, i + 1)) /\ p = f + 1
  BY <1>2
<1>5. ASSUME NEW n \in Int, n > f, n <= l, IsTokenTo(i, n)
      PROVE  S!At(p) = "e" /\ DigitsAt(SignOf(f), n)
  <2>1. Within(i, n)
    BY <1>1, <1>3, <1>5 DEF Within
  <2>2. Scientific(i, n) \/ Prefixed(i, n, "b", S!BinDigit) \/ Prefixed(i, n, "x", S!HexDigit)
    BY <1>5, <2>1, DigitBegins
  <2>3. Scientific(i, n)
    BY <2>2 DEF Prefixed
  <2>4. ExponentAt(f, n)
    BY <1>2, <1>3, <1>5, <2>3, MantissaOnly
  <2> QED BY <1>3, <1>4, <2>4, ExponentSign
<1>6. PICK s : s = IF S!At(p + 1) = "+" THEN p + 2 ELSE p + 1
  OBVIOUS
<1>7. s = SignOf(f) /\ s \in Int /\ s > f + 1
  <2>1. p + 1 = f + 2 /\ p + 2 = f + 3
    BY <1>3, <1>4
  <2>2. f + 2 \in Int /\ f + 3 \in Int /\ f + 2 > f + 1 /\ f + 3 > f + 1
    BY <1>3
  <2> QED BY <1>6, <2>1, <2>2 DEF SignOf
<1>8. CASE S!At(p) # "e"
  <2>1. S!Exponent(p) = S!Found("NUMBER", p)
    BY <1>8, Zenon DEF S!Exponent
  <2>2. Scientific(i, f)
    BY <1>2, <1>3, MantissaScientific
  <2>3. Within(i, f)
    BY <1>1, <1>3 DEF Within
  <2>4. S!Spelled("NUMBER", SubSeq(text, i, f))
    BY <2>2, <2>3, ScientificIs, SpelledIs
  <2>5. Longest(i, p)
    <3>1. \A m \in p .. Len(text) : m \in Int /\ m > f /\ m <= l
      BY <1>1, <1>3, <1>4
    <3> QED BY <1>5, <1>8, <3>1 DEF Longest
  <2>6. f = p - 1
    BY <1>3, <1>4
  <2>7. "NUMBER" \notin {"NONE", "EOF", "ERROR"}
    OBVIOUS
  <2>8. Matches(i, S!Found("NUMBER", p))
    BY <2>4, <2>5, <2>6, <2>7, MatchesFound
  <2> QED BY <1>4, <2>1, <2>8, Zenon
<1>9. CASE S!At(p) = "e" /\ S!At(s) \notin S!Digit
  <2>1. S!Exponent(p) = S!Found("ERROR", s)
    BY <1>6, <1>9, Zenon DEF S!Exponent
  <2>2. PICK q \in Int : q = s - 1
    BY <1>7
  <2>3. Longest(i, q)
    <3>1. ASSUME NEW m \in q .. Len(text), IsTokenTo(i, m) PROVE FALSE
      <4>1. m \in Int /\ m > f /\ m <= l
        BY <1>1, <1>3, <1>7, <2>2, <3>1
      <4>2. DigitsAt(s, m)
        BY <1>5, <1>7, <3>1, <4>1
      <4>3. S!At(s) \in S!Digit
        BY <1>7, <4>1, <4>2 DEF DigitsAt, All
      <4> QED BY <1>9, <4>3
    <3> QED BY <3>1 DEF Longest
  <2>4. Matches(i, S!Found("ERROR", s))
    BY <2>2, <2>3, MatchesError
  <2> QED BY <1>4, <2>1, <2>4, Zenon
<1>10. CASE S!At(p) = "e" /\ S!At(s) \in S!Digit
  <2>1. PICK e : e = S!After(S!Digit, s)
    OBVIOUS
  <2>2. S!Exponent(p) = S!Found("NUMBER", e)
    BY <1>6, <1>10, <2>1, Zenon DEF S!Exponent
  <2>3. S!NUL \notin S!Digit
    BY NoDigits
  <2>4. ~(s > l)
    BY <1>1, <1>7, <1>10, <2>3
  <2>5. s \in 1 .. Len(text) + 1
    BY <1>1, <1>3, <1>7, <2>4
  <2>6. e \in s .. Len(text) + 1 /\ S!At(e) \notin S!Digit /\ \A k \in s .. e - 1 : S!At(k) \in S!Digit
    BY <2>1, <2>3, <2>5, AfterStops
  <2>7. e # s
    BY <1>10, <2>6
  <2>8. PICK q \in Int : q = e - 1
    BY <1>1, <1>7, <2>6
  <2>9. e \in Int /\ s <= q /\ q <= l /\ f <= q
    BY <1>1, <1>3, <1>7, <2>6, <2>7, <2>8
  <2>10. DigitsAt(s, q)
    BY <2>6, <2>8, <2>9 DEF DigitsAt, All
  <2>11. Scientific(i, q)
    <3>1. S!At(f + 1) = "e" /\ DigitsAt(SignOf(f), q)
      BY <1>4, <1>7, <1>10, <2>10
    <3> QED BY <1>2, <1>3, <2>9, <3>1, MantissaScientific
  <2>12. Within(i, q)
    BY <1>1, <1>3, <2>9 DEF Within
  <2>13. S!Spelled("NUMBER", SubSeq(text, i, q))
    BY <2>11, <2>12, ScientificIs, SpelledIs
  <2>14. Longest(i, e)
    <3>1. ASSUME NEW m \in e .. Len(text), IsTokenTo(i, m) PROVE FALSE
      <4>1. m \in Int /\ m > f /\ m <= l /\ e \in s .. m
        BY <1>1, <1>3, <1>7, <2>6, <2>8, <2>9, <3>1
      <4>2. DigitsAt(s, m)
        BY <1>5, <1>7, <3>1, <4>1
      <4>3. S!At(e) \in S!Digit
        BY <4>1, <4>2 DEF DigitsAt, All
      <4> QED BY <2>6, <4>3
    <3> QED BY <3>1 DEF Longest
  <2>15. "NUMBER" \notin {"NONE", "EOF", "ERROR"}
    OBVIOUS
  <2>16. Matches(i, S!Found("NUMBER", e))
    BY <2>8, <2>13, <2>14, <2>15, MatchesFound
  <2> QED BY <1>4, <2>2, <2>16, Zenon
<1> QED BY <1>8, <1>9, <1>10

LEMMA ScientificGoesOn ==
  ASSUME NEW a \in Int, NEW q \in Int, Scientific(a, q), q > a
  PROVE  S!At(a + 1) \in S!Digit \cup {".", "e"}
<1>1. PICK k \in a .. q :
        /\ DigitsAt(a, k)
        /\ \E m \in k .. q :
             /\ m = k \/ (S!At(k + 1) = "." /\ DigitsAt(k + 2, m))
             /\ m = q \/ (S!At(m + 1) = "e" /\ (DigitsAt(m + 2, q)
                                                 \/ (q > m + 1 /\ S!At(m + 2) = "+" /\ DigitsAt(m + 3, q))))
  BY Zenon DEF Scientific
<1>2. PICK m \in k .. q :
             /\ m = k \/ (S!At(k + 1) = "." /\ DigitsAt(k + 2, m))
             /\ m = q \/ (S!At(m + 1) = "e" /\ (DigitsAt(m + 2, q)
                                                 \/ (q > m + 1 /\ S!At(m + 2) = "+" /\ DigitsAt(m + 3, q))))
  BY <1>1
<1>3. CASE k = a
  BY <1>2, <1>3
<1>4. CASE k # a
  <2>1. a + 1 \in a .. k
    BY <1>1, <1>4
  <2> QED BY <1>1, <2>1 DEF DigitsAt, All
<1> QED BY <1>3, <1>4

Bases == {<<"NUMBER_BIN", "b", S!BinDigit>>, <<"NUMBER_HEX", "x", S!HexDigit>>}

LEMMA BaseMatches ==
  ASSUME text \in Seq(S!Char), NEW i \in 1 .. Len(text), NEW base \in Bases, NEW type, NEW letter, NEW X,
         base = <<type, letter, X>>, S!At(i) \in S!Digit, S!At(i + 1) = letter, PrefixShows(i, letter, X),
         NEW j, j = i + 1
  PROVE  Matches(i, S!BaseNumber(type, X, j))
<1>1. PICK l \in Nat : l = Len(text) /\ \A k \in Int : k > l => S!At(k) = S!NUL
  BY AtChar
<1>2. i \in Int /\ i >= 1 /\ i <= l
  BY <1>1
<1>3. \/ type = "NUMBER_BIN" /\ letter = "b" /\ X = S!BinDigit
      \/ type = "NUMBER_HEX" /\ letter = "x" /\ X = S!HexDigit
  BY DEF Bases
<1>4. S!NUL \notin X /\ type \notin {"NONE", "EOF", "ERROR"}
  BY <1>3 DEF S!BinDigit, S!HexDigit, S!Digit, S!NUL
<1>5. S!At(i + 3) \in X <=> S!At(i) = "0" /\ S!At(i + 2) \in X
  BY DEF PrefixShows
<1>6. ASSUME NEW n \in Int, n > i, n <= l, IsTokenTo(i, n)
      PROVE  Prefixed(i, n, letter, X)
  <2>1. Within(i, n)
    BY <1>1, <1>2, <1>6 DEF Within
  <2>2. Scientific(i, n) \/ Prefixed(i, n, "b", S!BinDigit) \/ Prefixed(i, n, "x", S!HexDigit)
    BY <1>6, <2>1, DigitBegins
  <2>3. ~Scientific(i, n)
    <3>1. letter \notin S!Digit \cup {".", "e"}
      BY <1>3, NoDigits
    <3> QED BY <1>2, <1>6, <3>1, ScientificGoesOn
  <2>4. Prefixed(i, n, "b", S!BinDigit) => letter = "b"
    BY DEF Prefixed
  <2>5. Prefixed(i, n, "x", S!HexDigit) => letter = "x"
    BY DEF Prefixed
  <2> QED BY <1>3, <2>2, <2>3, <2>4, <2>5
<1>7. PICK s \in Int : s = i + 3
  BY <1>2
<1>8. j + 2 = s
  BY <1>2, <1>7
<1>9. CASE S!At(s) \notin X
  <2>1. S!BaseNumber(type, X, j) = S!Found("ERROR", s)
    BY <1>8, <1>9 DEF S!BaseNumber
  <2>2. PICK q \in Int : q = s - 1 /\ q = i + 2
    BY <1>2, <1>7
  <2>3. Longest(i, q)
    <3>1. ASSUME NEW m \in q .. Len(text), IsTokenTo(i, m) PROVE FALSE
      <4>1. m \in Int /\ m > i /\ m <= l /\ i + 2 \in i + 2 .. m
        BY <1>1, <1>2, <2>2, <3>1
      <4>2. Prefixed(i, m, letter, X)
        BY <1>6, <3>1, <4>1
      <4>3. S!At(i) = "0" /\ S!At(i + 2) \in X
        BY <4>1, <4>2 DEF Prefixed, All
      <4> QED BY <1>5, <1>7, <1>9, <4>3
    <3> QED BY <3>1 DEF Longest
  <2>4. Matches(i, S!Found("ERROR", s))
    BY <2>2, <2>3, MatchesError
  <2> QED BY <2>1, <2>4, Zenon
<1>10. CASE S!At(s) \in X
  <2>1. PICK e : e = S!After(X, s)
    OBVIOUS
  <2>2. S!BaseNumber(type, X, j) = S!Found(type, e)
    BY <1>8, <1>10, <2>1 DEF S!BaseNumber
  <2>4. ~(s > l)
    BY <1>1, <1>4, <1>7, <1>10
  <2>5. s \in 1 .. Len(text) + 1
    BY <1>1, <1>2, <1>7, <2>4
  <2>6. e \in s .. Len(text) + 1 /\ S!At(e) \notin X /\ \A k \in s .. e - 1 : S!At(k) \in X
    BY <1>4, <2>1, <2>5, AfterStops
  <2>7. e # s
    BY <1>10, <2>6
  <2>8. PICK q \in Int : q = e - 1
    BY <1>1, <1>7, <2>6
  <2>9. e \in Int /\ s <= q /\ q <= l /\ i + 2 <= q /\ q - i > 1
    BY <1>1, <1>2, <1>7, <2>6, <2>7, <2>8
  <2>10. S!At(i) = "0" /\ S!At(i + 2) \in X
    BY <1>5, <1>7, <1>10
  <2>11. \A k \in i + 2 .. q : k = i + 2 \/ k \in s .. e - 1
    BY <1>2, <1>7, <2>8, <2>9
  <2>12. Prefixed(i, q, letter, X)
    BY <2>6, <2>9, <2>10, <2>11 DEF Prefixed, All
  <2>13. Within(i, q)
    BY <1>1, <1>2, <2>9 DEF Within
  <2>14. S!IsPrefixed(SubSeq(text, i, q), letter, X)
    BY <2>12, <2>13, PrefixedIs
  <2>15. S!Spelled(type, SubSeq(text, i, q))
    BY <1>3, <2>14, SpelledIs
  <2>16. Longest(i, e)
    <3>1. ASSUME NEW m \in e .. Len(text), IsTokenTo(i, m) PROVE FALSE
      <4>1. m \in Int /\ m > i /\ m <= l /\ e \in i + 2 .. m
        BY <1>1, <1>2, <2>8, <2>9, <3>1
      <4>2. Prefixed(i, m, letter, X)
        BY <1>6, <3>1, <4>1
      <4>3. S!At(e) \in X
        BY <4>1, <4>2 DEF Prefixed, All
      <4> QED BY <2>6, <4>3
    <3> QED BY <3>1 DEF Longest
  <2>17. Matches(i, S!Found(type, e))
    BY <1>4, <2>8, <2>15, <2>16, MatchesFound
  <2> QED BY <2>2, <2>17, Zenon
<1> QED BY <1>9, <1>10

LEMMA NumberMatches ==
  ASSUME text \in Seq(S!Char), NEW i \in 1 .. Len(text), S!At(i) \in S!Digit, PrefixRead(i)
  PROVE  Matches(i, S!number(i + 1))
<1>1. CASE S!At(i + 1) = "b"
  <2>1. S!number(i + 1) = S!BaseNumber("NUMBER_BIN", S!BinDigit, i + 1)
    BY <1>1, Zenon DEF S!number
  <2>2. PrefixShows(i, "b", S!BinDigit)
    BY DEF PrefixRead
  <2>3. PICK base \in Bases : base = <<"NUMBER_BIN", "b", S!BinDigit>>
    BY DEF Bases
  <2>4. Matches(i, S!BaseNumber("NUMBER_BIN", S!BinDigit, i + 1))
    BY <1>1, <2>2, <2>3, BaseMatches, Zenon
  <2> QED BY <2>1, <2>4, Zenon
<1>2. CASE S!At(i + 1) = "x"
  <2>1. S!number(i + 1) = S!BaseNumber("NUMBER_HEX", S!HexDigit, i + 1)
    <3>1. S!At(i + 1) # "b"
      BY <1>2
    <3> QED BY <1>2, <3>1, Zenon DEF S!number
  <2>2. PrefixShows(i, "x", S!HexDigit)
    BY DEF PrefixRead
  <2>3. PICK base \in Bases : base = <<"NUMBER_HEX", "x", S!HexDigit>>
    BY DEF Bases
  <2>4. Matches(i, S!BaseNumber("NUMBER_HEX", S!HexDigit, i + 1))
    BY <1>2, <2>2, <2>3, BaseMatches, Zenon
  <2> QED BY <2>1, <2>4, Zenon
<1>3. CASE S!At(i + 1) \notin {"b", "x"}
  <2>1. S!number(i + 1) = S!Exponent(S!Fraction(S!After(S!Digit, i + 1)))
    <3>1. S!At(i + 1) # "b" /\ S!At(i + 1) # "x"
      BY <1>3
    <3> QED BY <3>1, Zenon DEF S!number
  <2>2. Matches(i, S!Exponent(S!Fraction(S!After(S!Digit, i + 1))))
    BY <1>3, DecimalMatches
  <2> QED BY <2>1, <2>2, Zenon
<1> QED BY <1>1, <1>2, <1>3

LEMMA WordMatches ==
  ASSUME text \in Seq(S!Char), NEW i \in 1 .. Len(text), S!At(i) \in S!Letter
  PROVE  Matches(i, S!identifier(i, i + 1))
<1>1. PICK l \in Nat : l = Len(text)
  BY AtChar
<1>2. i \in Int /\ i >= 1 /\ i <= l /\ i + 1 \in 1 .. Len(text) + 1 /\ i + 1 - 1 = i
  BY <1>1
<1>3. PICK X : X = S!Letter \cup S!Digit
  OBVIOUS
<1>4. S!NUL \notin X
  BY <1>3 DEF S!NUL, S!Letter, S!Digit
<1>5. PICK e : e = S!After(X, i + 1)
  OBVIOUS
<1>6. e \in i + 1 .. Len(text) + 1 /\ S!At(e) \notin X /\ \A k \in i + 1 .. e - 1 : S!At(k) \in X
  BY <1>2, <1>4, <1>5, AfterStops
<1>7. PICK q \in Int : q = e - 1
  BY <1>1, <1>2, <1>6
<1>8. e \in Int /\ i <= q /\ q <= l
  BY <1>1, <1>2, <1>6, <1>7
<1>9. Within(i, q)
  BY <1>1, <1>2, <1>8 DEF Within
<1>10. Word(i, q)
  <2>1. \A k \in i .. q : k = i \/ k \in i + 1 .. e - 1
    BY <1>2, <1>7, <1>8
  <2> QED BY <1>3, <1>6, <1>8, <2>1 DEF Word, All
<1>11. S!IsWord(SubSeq(text, i, q))
  BY <1>9, <1>10, WordIs
<1>12. PICK type : type = IF SubSeq(text, i, q) \in S!Keyword THEN "KEYWORD" ELSE "IDENTIFIER"
  OBVIOUS
<1>13. type \in {"KEYWORD", "IDENTIFIER"} /\ S!Spelled(type, SubSeq(text, i, q))
  <2>1. CASE SubSeq(text, i, q) \in S!Keyword
    <3>1. type = "KEYWORD"
      BY <1>12, <2>1
    <3>2. S!Spelled("KEYWORD", SubSeq(text, i, q))
      BY <2>1, SpelledIs
    <3> QED BY <3>1, <3>2
  <2>2. CASE SubSeq(text, i, q) \notin S!Keyword
    <3>1. type = "IDENTIFIER"
      BY <1>12, <2>2
    <3>2. S!Spelled("IDENTIFIER", SubSeq(text, i, q))
      BY <1>11, <2>2, SpelledIs
    <3> QED BY <3>1, <3>2
  <2> QED BY <2>1, <2>2
<1>14. S!identifier(i, i + 1) = S!Found(type, e)
  <2>1. S!Lexeme(i, e) = SubSeq(text, i, q)
    BY <1>7 DEF S!Lexeme
  <2> QED BY <1>3, <1>5, <1>12, <2>1, Zenon DEF S!identifier
<1>15. Longest(i, e)
  <2>1. ASSUME NEW m \in e .. Len(text), IsTokenTo(i, m) PROVE FALSE
    <3>1. m \in Int /\ m <= l /\ i <= m /\ e \in i .. m
      BY <1>1, <1>2, <1>7, <1>8, <2>1
    <3>2. Within(i, m)
      BY <1>1, <1>2, <3>1 DEF Within
    <3>3. IsTokenAt(i, m)
      BY <2>1, <3>2, TokenBegins DEF IsTokenTo
    <3>4. S!At(i) \notin S!Digit \cup Singles \cup {"\"", "@", ">", "="}
      BY DEF S!Digit, S!Letter, Singles
    <3>5. Word(i, m)
      BY <3>3, <3>4, Zenon DEF IsTokenAt
    <3>6. S!At(e) \in X
      BY <1>3, <3>1, <3>5 DEF Word, All
    <3> QED BY <1>6, <3>6
  <2> QED BY <2>1 DEF Longest
<1>16. type \notin {"NONE", "EOF", "ERROR"}
  BY <1>13
<1>17. Matches(i, S!Found(type, e))
  BY <1>7, <1>13, <1>15, <1>16, MatchesFound
<1> QED BY <1>14, <1>17, Zenon

LEMMA MentionBegins ==
  ASSUME text \in Seq(S!Char), NEW i \in 1 .. Len(text), S!At(i) = "@",
         NEW m \in i - 1 .. Len(text), IsTokenTo(i, m)
  PROVE  ModuleAt(i, m)
<1>1. PICK l \in Nat : l = Len(text)
  BY AtChar
<1>2. Within(i, m)
  BY <1>1 DEF Within
<1>3. IsTokenAt(i, m)
  BY <1>2, TokenBegins DEF IsTokenTo
<1>4. S!At(i) \notin S!Digit \cup S!Letter \cup Singles \cup {"\"", ">", "="}
  BY DEF S!Digit, S!Letter, Singles
<1> QED BY <1>3, <1>4, Zenon DEF IsTokenAt

LEMMA MentionMatches ==
  ASSUME text \in Seq(S!Char), NEW i \in 1 .. Len(text), S!At(i) = "@", S!At(i + 1) \in S!Letter
  PROVE  Matches(i, S!mention(i, i + 1))
<1>1. PICK l \in Nat : l = Len(text)
  BY AtChar
<1>2. i \in Int /\ i >= 1 /\ i <= l /\ i + 1 \in 1 .. Len(text) + 1 /\ i + 1 - 1 = i
  BY <1>1
<1>3. PICK X : X = S!Letter \cup S!Digit
  OBVIOUS
<1>4. S!NUL \notin X
  BY <1>3 DEF S!NUL, S!Letter, S!Digit
<1>5. PICK e : e = S!After(X, i + 1)
  OBVIOUS
<1>6. e \in i + 1 .. Len(text) + 1 /\ S!At(e) \notin X /\ \A k \in i + 1 .. e - 1 : S!At(k) \in X
  BY <1>2, <1>4, <1>5, AfterStops
<1>7. PICK q \in Int : q = e - 1
  BY <1>1, <1>2, <1>6
<1>8. e \in Int /\ i <= q /\ q <= l /\ e # i + 1
  <2>1. e # i + 1
    BY <1>3, <1>6
  <2> QED BY <1>1, <1>2, <1>6, <1>7, <2>1
<1>9. Within(i, q)
  BY <1>1, <1>2, <1>8 DEF Within
<1>10. S!Lexeme(i, e) = SubSeq(text, i, q)
  BY <1>7 DEF S!Lexeme
<1>11. ASSUME NEW m \in Int, m <= l, m >= i, ModuleAt(i, m)
       PROVE  m = i + 3 /\ ~(e <= m)
  <2>1. m = i + 3 /\ S!At(i + 2) \in X /\ S!At(i + 3) \in X
    BY <1>3, <1>11 DEF ModuleAt, S!Letter
  <2>2. e # i + 2 /\ e # i + 3
    BY <1>6, <2>1
  <2> QED BY <1>2, <1>6, <1>8, <2>1, <2>2
<1>12. CASE SubSeq(text, i, q) \in S!Module
  <2>1. S!mention(i, i + 1) = S!Found("MODULE", e)
    BY <1>3, <1>5, <1>10, <1>12, Zenon DEF S!mention
  <2>2. S!Spelled("MODULE", SubSeq(text, i, q))
    BY <1>12, SpelledIs
  <2>3. Longest(i, e)
    <3>1. ASSUME NEW m \in e .. Len(text), IsTokenTo(i, m) PROVE FALSE
      <4>1. m \in Int /\ m <= l /\ m >= i /\ e <= m /\ m \in i - 1 .. Len(text)
        BY <1>1, <1>2, <1>7, <1>8, <3>1
      <4>2. ModuleAt(i, m)
        BY <3>1, <4>1, MentionBegins
      <4> QED BY <1>11, <4>1, <4>2
    <3> QED BY <3>1 DEF Longest
  <2>4. "MODULE" \notin {"NONE", "EOF", "ERROR"}
    OBVIOUS
  <2>5. Matches(i, S!Found("MODULE", e))
    BY <1>7, <2>2, <2>3, <2>4, MatchesFound
  <2> QED BY <2>1, <2>5, Zenon
<1>13. CASE SubSeq(text, i, q) \notin S!Module
  <2>1. S!mention(i, i + 1) = S!Found("ERROR", e)
    BY <1>3, <1>5, <1>10, <1>13, Zenon DEF S!mention
  <2>2. Longest(i, q)
    <3>1. ASSUME NEW m \in q .. Len(text), IsTokenTo(i, m) PROVE FALSE
      <4>1. m \in Int /\ m <= l /\ m >= i /\ q <= m /\ m \in i - 1 .. Len(text)
        BY <1>1, <1>2, <1>7, <1>8, <3>1
      <4>2. ModuleAt(i, m)
        BY <3>1, <4>1, MentionBegins
      <4>3. ~(e <= m)
        BY <1>11, <4>1, <4>2
      <4>4. m = q
        BY <1>7, <1>8, <4>1, <4>3
      <4>5. ModuleAt(i, q)
        BY <4>2, <4>4
      <4>6. SubSeq(text, i, q) \in S!Module
        BY <1>9, <4>5, ModuleIs
      <4> QED BY <1>13, <4>6
    <3> QED BY <3>1 DEF Longest
  <2>3. Matches(i, S!Found("ERROR", e))
    BY <1>7, <2>2, MatchesError
  <2> QED BY <2>1, <2>3, Zenon
<1> QED BY <1>12, <1>13

LEMMA AloneMatches ==
  ASSUME text \in Seq(S!Char), NEW i \in 1 .. Len(text), S!At(i) = "@", S!At(i + 1) \notin S!Letter
  PROVE  Matches(i, S!Found("ERROR", i + 1))
<1>1. PICK l \in Nat : l = Len(text)
  BY AtChar
<1>2. i = (i + 1) - 1 /\ i \in Int
  BY <1>1
<1>3. Longest(i, i)
  <2>1. ASSUME NEW m \in i .. Len(text), IsTokenTo(i, m) PROVE FALSE
    <3>1. m \in i - 1 .. Len(text)
      BY <1>1, <2>1
    <3>2. ModuleAt(i, m)
      BY <2>1, <3>1, MentionBegins
    <3> QED BY <3>2 DEF ModuleAt, S!Letter
  <2> QED BY <2>1 DEF Longest
<1> QED BY <1>2, <1>3, MatchesError

Quote == "\""

LEMMA MadeOfTwo ==
  ASSUME NEW a, NEW q, Within(a, q), NEW b, NEW c, q = a + 1, S!At(a) = b, S!At(a + 1) = c
  PROVE  SubSeq(text, a, q) = <<b, c>>
<1>1. SubSeq(text, a, q) = <<b, c>> <=> q = a + 1 /\ S!At(a) = b /\ S!At(a + 1) = c
  BY PartOfTwo
<1> QED BY <1>1, Zenon

LEMMA MadeOfThree ==
  ASSUME NEW a, NEW q, Within(a, q), NEW b, NEW c, NEW d, q = a + 2,
         S!At(a) = b, S!At(a + 1) = c, S!At(a + 2) = d
  PROVE  SubSeq(text, a, q) = <<b, c, d>>
<1>1. SubSeq(text, a, q) = <<b, c, d>> <=> q = a + 2 /\ S!At(a) = b /\ S!At(a + 1) = c /\ S!At(a + 2) = d
  BY PartOfThree
<1> QED BY <1>1, Zenon

(* The longest token at i: no other that begins there reaches as far. *)
LEMMA LongestAt ==
  ASSUME text \in Seq(S!Char), NEW i \in 1 .. Len(text), NEW e \in Int, e >= i,
         \A m \in Int : m >= e /\ m <= Len(text) => ~IsTokenAt(i, m)
  PROVE  Longest(i, e)
<1>1. PICK l \in Nat : l = Len(text)
  BY AtChar
<1>2. ASSUME NEW m \in e .. Len(text), IsTokenTo(i, m) PROVE FALSE
  <2>1. m \in Int /\ m >= e /\ m <= Len(text)
    BY <1>1, <1>2
  <2>2. Within(i, m)
    BY <1>1, <2>1 DEF Within
  <2>3. IsTokenAt(i, m)
    BY <1>2, <2>2, TokenBegins DEF IsTokenTo
  <2> QED BY <2>1, <2>3
<1> QED BY <1>2 DEF Longest

LEMMA SignMatches ==
  ASSUME text \in Seq(S!Char), NEW i \in 1 .. Len(text), NEW type, type \notin {"NONE", "EOF", "ERROR"},
         NEW e \in Int, NEW q \in Int, q = e - 1, e > i,
         S!Spelled(type, SubSeq(text, i, q)),
         \A m \in Int : m >= e /\ m <= Len(text) => ~IsTokenAt(i, m)
  PROVE  Matches(i, S!Found(type, e))
<1>1. Longest(i, e)
  <2>1. e >= i
    OBVIOUS
  <2> QED BY <2>1, LongestAt
<1> QED BY <1>1, MatchesFound

LEMMA GreaterMatches ==
  ASSUME text \in Seq(S!Char), NEW i \in 1 .. Len(text), S!At(i) = ">"
  PROVE  Matches(i, S!greater(i + 1))
<1>1. PICK l \in Nat : /\ l = Len(text)
                       /\ \A k \in Int : k > l => S!At(k) = S!NUL
  BY AtChar
<1>2. i \in Int /\ i >= 1 /\ i <= l
  BY <1>1
<1>3. S!NUL \notin {"=", ">"}
  BY DEF S!NUL
<1>4. PICK b, c : b = S!At(i + 1) /\ c = S!At(i + 2)
  OBVIOUS
<1>5. PICK j : j = i + 1
  OBVIOUS
<1>6. j + 1 = i + 2 /\ j + 2 = i + 3
  BY <1>2, <1>5
<1>7. ASSUME NEW m \in Int, IsTokenAt(i, m)
      PROVE  m = i \/ (m = i + 1 /\ b \in {"=", ">"}) \/ (m = i + 2 /\ b = ">" /\ c = ">")
  <2>1. S!At(i) \notin S!Digit \cup S!Letter \cup Singles \cup {"\"", "@", "="}
    BY DEF S!Digit, S!Letter, Singles
  <2>2. (\/ m = i
         \/ m = i + 1 /\ S!At(i + 1) \in {"=", ">"}
         \/ m = i + 2 /\ S!At(i + 1) = ">" /\ S!At(i + 2) = ">")
    BY <1>7, <2>1, Zenon DEF IsTokenAt
  <2> QED BY <1>4, <2>2
<1>8. ASSUME b # S!NUL PROVE i + 1 <= l
  BY <1>1, <1>2, <1>4, <1>8
<1>9. ASSUME c # S!NUL PROVE i + 2 <= l
  BY <1>1, <1>2, <1>4, <1>9
<1>10. CASE b \notin {"=", ">"}
  <2>1. S!greater(j) = S!Found("GREATER", j)
    BY <1>4, <1>5, <1>10, Zenon DEF S!greater
  <2>2. Within(i, i)
    BY <1>1 DEF Within
  <2>3. SubSeq(text, i, i) = <<">">>
    <3>1. SubSeq(text, i, i) = <<">">> <=> i = i /\ S!At(i) = ">"
      BY <2>2, PartOfOne
    <3> QED BY <3>1
  <2>4. S!Spelled("GREATER", SubSeq(text, i, i))
    BY <2>3, SpelledIs
  <2>5. \A m \in Int : m >= j /\ m <= Len(text) => ~IsTokenAt(i, m)
    BY <1>2, <1>5, <1>7, <1>10
  <2>6. j \in Int /\ i \in Int /\ i = j - 1 /\ j > i
    BY <1>2, <1>5
  <2>7. "GREATER" \notin {"NONE", "EOF", "ERROR"}
    OBVIOUS
  <2>8. Matches(i, S!Found("GREATER", j))
    BY <2>4, <2>5, <2>6, <2>7, SignMatches
  <2> QED BY <1>5, <2>1, <2>8, Zenon
<1>11. CASE b = "="
  <2>1. S!greater(j) = S!Found("GREATER_EQUAL", j + 1)
    BY <1>4, <1>5, <1>11, Zenon DEF S!greater
  <2>2. PICK q \in Int, e \in Int : q = i + 1 /\ e = i + 2 /\ q = e - 1 /\ e > i /\ e = j + 1
    BY <1>2, <1>6
  <2>3. Within(i, q)
    BY <1>1, <1>2, <1>3, <1>8, <1>11, <2>2 DEF Within
  <2>4. SubSeq(text, i, q) = <<">", "=">>
    <3>1. PICK x, y : x = ">" /\ y = "="
      OBVIOUS
    <3>2. q = i + 1 /\ S!At(i) = x /\ S!At(i + 1) = y
      BY <1>4, <1>11, <2>2, <3>1
    <3>3. SubSeq(text, i, q) = <<x, y>>
      BY <2>3, <3>2, MadeOfTwo, Zenon
    <3> QED BY <3>1, <3>3
  <2>5. S!Spelled("GREATER_EQUAL", SubSeq(text, i, q))
    BY <2>4, SpelledIs
  <2>6. \A m \in Int : m >= e /\ m <= Len(text) => ~IsTokenAt(i, m)
    BY <1>2, <1>7, <1>11, <2>2
  <2>7. "GREATER_EQUAL" \notin {"NONE", "EOF", "ERROR"}
    OBVIOUS
  <2>8. Matches(i, S!Found("GREATER_EQUAL", e))
    BY <2>2, <2>5, <2>6, <2>7, SignMatches
  <2> QED BY <1>5, <2>1, <2>2, <2>8, Zenon
<1>12. CASE b = ">" /\ c # ">"
  <2>1. S!greater(j) = S!Found("BIT_SAR", j + 1)
    <3>1. S!At(j) = ">" /\ S!At(j + 1) # ">"
      BY <1>4, <1>5, <1>6, <1>12
    <3> QED BY <3>1, Zenon DEF S!greater
  <2>2. PICK q \in Int, e \in Int : q = i + 1 /\ e = i + 2 /\ q = e - 1 /\ e > i /\ e = j + 1
    BY <1>2, <1>6
  <2>3. Within(i, q)
    BY <1>1, <1>2, <1>3, <1>8, <1>12, <2>2 DEF Within
  <2>4. SubSeq(text, i, q) = <<">", ">">>
    <3>1. PICK x, y : x = ">" /\ y = ">"
      OBVIOUS
    <3>2. q = i + 1 /\ S!At(i) = x /\ S!At(i + 1) = y
      BY <1>4, <1>12, <2>2, <3>1
    <3>3. SubSeq(text, i, q) = <<x, y>>
      BY <2>3, <3>2, MadeOfTwo, Zenon
    <3> QED BY <3>1, <3>3
  <2>5. S!Spelled("BIT_SAR", SubSeq(text, i, q))
    BY <2>4, SpelledIs
  <2>6. \A m \in Int : m >= e /\ m <= Len(text) => ~IsTokenAt(i, m)
    BY <1>2, <1>7, <1>12, <2>2
  <2>7. "BIT_SAR" \notin {"NONE", "EOF", "ERROR"}
    OBVIOUS
  <2>8. Matches(i, S!Found("BIT_SAR", e))
    BY <2>2, <2>5, <2>6, <2>7, SignMatches
  <2> QED BY <1>5, <2>1, <2>2, <2>8, Zenon
<1>13. CASE b = ">" /\ c = ">"
  <2>1. S!greater(j) = S!Found("BIT_SHR", j + 2)
    <3>1. S!At(j) = ">" /\ S!At(j + 1) = ">"
      BY <1>4, <1>5, <1>6, <1>13
    <3> QED BY <3>1, Zenon DEF S!greater
  <2>2. PICK q \in Int, e \in Int : q = i + 2 /\ e = i + 3 /\ q = e - 1 /\ e > i /\ e = j + 2
    BY <1>2, <1>6
  <2>3. Within(i, q)
    BY <1>1, <1>2, <1>3, <1>9, <1>13, <2>2 DEF Within
  <2>4. SubSeq(text, i, q) = <<">", ">", ">">>
    <3>1. PICK x, y, z : x = ">" /\ y = ">" /\ z = ">"
      OBVIOUS
    <3>2. q = i + 2 /\ S!At(i) = x /\ S!At(i + 1) = y /\ S!At(i + 2) = z
      BY <1>4, <1>13, <2>2, <3>1
    <3>3. SubSeq(text, i, q) = <<x, y, z>>
      BY <2>3, <3>2, MadeOfThree, Zenon
    <3> QED BY <3>1, <3>3
  <2>5. S!Spelled("BIT_SHR", SubSeq(text, i, q))
    BY <2>4, SpelledIs
  <2>6. \A m \in Int : m >= e /\ m <= Len(text) => ~IsTokenAt(i, m)
    BY <1>2, <1>7, <2>2
  <2>7. "BIT_SHR" \notin {"NONE", "EOF", "ERROR"}
    OBVIOUS
  <2>8. Matches(i, S!Found("BIT_SHR", e))
    BY <2>2, <2>5, <2>6, <2>7, SignMatches
  <2> QED BY <1>5, <2>1, <2>2, <2>8, Zenon
<1> QED BY <1>10, <1>11, <1>12, <1>13

LEMMA EqualMatches ==
  ASSUME text \in Seq(S!Char), NEW i \in 1 .. Len(text), S!At(i) = "="
  PROVE  /\ S!At(i + 1) = "=" => Matches(i, S!Found("EQUAL_EQUAL", i + 2))
         /\ S!At(i + 1) # "=" => Matches(i, S!Found("EQUAL", i + 1))
<1>1. PICK l \in Nat : /\ l = Len(text)
                       /\ \A k \in Int : k > l => S!At(k) = S!NUL
  BY AtChar
<1>2. i \in Int /\ i >= 1 /\ i <= l
  BY <1>1
<1>3. S!NUL # "="
  BY DEF S!NUL
<1>4. PICK b : b = S!At(i + 1)
  OBVIOUS
<1>7. ASSUME NEW m \in Int, IsTokenAt(i, m)
      PROVE  m = i \/ (m = i + 1 /\ b = "=")
  <2>1. S!At(i) \notin S!Digit \cup S!Letter \cup Singles \cup {"\"", "@", ">"}
    BY DEF S!Digit, S!Letter, Singles
  <2>2. m = i \/ (m = i + 1 /\ S!At(i + 1) = "=")
    BY <1>7, <2>1, Zenon DEF IsTokenAt
  <2> QED BY <1>4, <2>2
<1>10. ASSUME b # "=" PROVE Matches(i, S!Found("EQUAL", i + 1))
  <2>1. PICK j \in Int : j = i + 1 /\ i = j - 1 /\ j > i
    BY <1>2
  <2>2. Within(i, i)
    BY <1>1 DEF Within
  <2>3. SubSeq(text, i, i) = <<"=">>
    <3>1. SubSeq(text, i, i) = <<"=">> <=> i = i /\ S!At(i) = "="
      BY <2>2, PartOfOne
    <3> QED BY <3>1
  <2>4. S!Spelled("EQUAL", SubSeq(text, i, i))
    BY <2>3, SpelledIs
  <2>5. \A m \in Int : m >= j /\ m <= Len(text) => ~IsTokenAt(i, m)
    BY <1>2, <1>7, <1>10, <2>1
  <2>7. "EQUAL" \notin {"NONE", "EOF", "ERROR"}
    OBVIOUS
  <2>8. Matches(i, S!Found("EQUAL", j))
    BY <2>1, <2>4, <2>5, <2>7, SignMatches
  <2> QED BY <2>1, <2>8
<1>11. ASSUME b = "=" PROVE Matches(i, S!Found("EQUAL_EQUAL", i + 2))
  <2>2. PICK q \in Int, e \in Int : q = i + 1 /\ e = i + 2 /\ q = e - 1 /\ e > i
    BY <1>2
  <2>1. i + 1 <= l
    BY <1>1, <1>2, <1>3, <1>4, <1>11
  <2>3. Within(i, q)
    BY <1>1, <1>2, <2>1, <2>2 DEF Within
  <2>4. SubSeq(text, i, q) = <<"=", "=">>
    <3>1. PICK x, y : x = "=" /\ y = "="
      OBVIOUS
    <3>2. q = i + 1 /\ S!At(i) = x /\ S!At(i + 1) = y
      BY <1>4, <1>11, <2>2, <3>1
    <3>3. SubSeq(text, i, q) = <<x, y>>
      BY <2>3, <3>2, MadeOfTwo, Zenon
    <3> QED BY <3>1, <3>3
  <2>5. S!Spelled("EQUAL_EQUAL", SubSeq(text, i, q))
    BY <2>4, SpelledIs
  <2>6. \A m \in Int : m >= e /\ m <= Len(text) => ~IsTokenAt(i, m)
    BY <1>2, <1>7, <2>2
  <2>7. "EQUAL_EQUAL" \notin {"NONE", "EOF", "ERROR"}
    OBVIOUS
  <2>8. Matches(i, S!Found("EQUAL_EQUAL", e))
    BY <2>2, <2>5, <2>6, <2>7, SignMatches
  <2> QED BY <2>2, <2>8
<1> QED BY <1>4, <1>10, <1>11

LEMMA OtherMatches ==
  ASSUME text \in Seq(S!Char), NEW i \in 1 .. Len(text),
         S!At(i) \notin S!Letter \cup S!Digit \cup {Quote, "@", ">", "="}
  PROVE  Matches(i, S!other(S!At(i), i + 1))
<1>1. PICK l \in Nat : l = Len(text)
  BY AtChar
<1>2. PICK c, j : c = S!At(i) /\ j = i + 1
  OBVIOUS
<1>3. i \in Int /\ j \in Int /\ i = j - 1 /\ j > i /\ i >= 1
  <2>1. i \in Int /\ i >= 1
    BY <1>1
  <2> QED BY <1>2, <2>1
<1>4. ASSUME NEW m \in Int, IsTokenAt(i, m)
      PROVE  c \in Singles /\ m = i
  <2>1. \/ S!At(i) \in S!Digit \cup S!Letter \cup {Quote, "@", ">", "="}
        \/ S!At(i) \in Singles /\ m = i
    BY <1>4, Zenon DEF IsTokenAt, Quote
  <2>2. S!At(i) \in Singles /\ m = i
    BY <2>1
  <2> QED BY <1>2, <2>2
<1>5. CASE c \in Singles
  <2>1. S!other(c, j) = S!Found(c, j)
    BY <1>5 DEF S!other, Singles
  <2>2. Within(i, i)
    BY <1>1 DEF Within
  <2>3. SubSeq(text, i, i) = <<c>>
    <3>1. SubSeq(text, i, i) = <<c>> <=> i = i /\ S!At(i) = c
      BY <2>2, PartOfOne
    <3> QED BY <1>2, <3>1
  <2>4. S!Spelled(c, SubSeq(text, i, i))
    BY <1>5, <2>3, SpelledIs
  <2>5. \A m \in Int : m >= j /\ m <= Len(text) => ~IsTokenAt(i, m)
    <3>1. \A m \in Int : m >= j => m # i
      BY <1>3
    <3> QED BY <1>4, <3>1
  <2>7. c \notin {"NONE", "EOF", "ERROR"}
    BY <1>5 DEF Singles
  <2>8. Matches(i, S!Found(c, j))
    BY <1>3, <2>4, <2>5, <2>7, SignMatches
  <2> QED BY <1>2, <2>1, <2>8, Zenon
<1>6. CASE c \notin Singles /\ S!At(j) = S!NUL
  <2>1. S!other(c, j) = S!Found("EOF", j)
    BY <1>6, Zenon DEF S!other, Singles
  <2>2. S!Found("EOF", j).type = "EOF"
    BY DEF S!Found
  <2>3. Matches(i, S!Found("EOF", j))
    BY <2>2 DEF Matches
  <2> QED BY <1>2, <2>1, <2>3, Zenon
<1>7. CASE c \notin Singles /\ S!At(j) # S!NUL
  <2>1. S!other(c, j) = S!Found("ERROR", j + 1)
    BY <1>7, Zenon DEF S!other, Singles
  <2>2. PICK e \in Int : e = j + 1 /\ j = e - 1
    BY <1>3
  <2>3. \A m \in Int : m >= j /\ m <= Len(text) => ~IsTokenAt(i, m)
    BY <1>4, <1>7
  <2>4. Longest(i, j)
    <3>1. j >= i
      BY <1>3
    <3> QED BY <1>3, <2>3, <3>1, LongestAt
  <2>5. Matches(i, S!Found("ERROR", e))
    BY <2>2, <2>4, MatchesError
  <2> QED BY <1>2, <2>1, <2>2, <2>5, Zenon
<1> QED BY <1>5, <1>6, <1>7

(* Every token but a string is one of the language reference. *)
LEMMA TokenMatches ==
  ASSUME text \in Seq(S!Char), NEW i \in 1 .. Len(text) + 1, S!At(i) # Quote, PrefixRead(i)
  PROVE  Matches(i, S!TokenAt(i))
<1>1. PICK l \in Nat : /\ l = Len(text)
                       /\ \A k \in Int : k > l => S!At(k) = S!NUL
  BY AtChar
<1>2. CASE S!At(i) = S!NUL
  <2>1. S!TokenAt(i) = S!Found("EOF", i)
    BY <1>2, Zenon DEF S!TokenAt
  <2>2. S!Found("EOF", i).type = "EOF"
    BY DEF S!Found
  <2> QED BY <2>1, <2>2 DEF Matches
<1>3. CASE S!At(i) # S!NUL
  <2>1. i \in 1 .. Len(text)
    <3>1. i \in 1 .. l + 1
      BY <1>1
    <3>2. ~(i > l)
      BY <1>1, <1>3, <3>1
    <3>3. i \in 1 .. l
      BY <3>1, <3>2
    <3> QED BY <1>1, <3>3
  <2>2. CASE S!At(i) \in S!Letter
    <3>1. S!TokenAt(i) = S!identifier(i, i + 1)
      BY <1>3, <2>2, Zenon DEF S!TokenAt
    <3>2. Matches(i, S!identifier(i, i + 1))
      BY <2>1, <2>2, WordMatches
    <3> QED BY <3>1, <3>2, Zenon
  <2>3. CASE S!At(i) \in S!Digit
    <3>1. S!At(i) \notin S!Letter
      BY <2>3 DEF S!Digit, S!Letter
    <3>2. S!TokenAt(i) = S!number(i + 1)
      BY <1>3, <2>3, <3>1, Zenon DEF S!TokenAt
    <3>3. Matches(i, S!number(i + 1))
      BY <2>1, <2>3, NumberMatches
    <3> QED BY <3>2, <3>3, Zenon
  <2>4. CASE S!At(i) = "@"
    <3>1. S!At(i) \notin S!Letter /\ S!At(i) \notin S!Digit
      BY <2>4 DEF S!Digit, S!Letter
    <3>2. CASE S!At(i + 1) \in S!Letter
      <4>1. S!TokenAt(i) = S!mention(i, i + 1)
        BY <1>3, <2>4, <3>1, <3>2, Zenon DEF S!TokenAt
      <4>2. Matches(i, S!mention(i, i + 1))
        BY <2>1, <2>4, <3>2, MentionMatches
      <4> QED BY <4>1, <4>2, Zenon
    <3>3. CASE S!At(i + 1) \notin S!Letter
      <4>1. S!TokenAt(i) = S!Found("ERROR", i + 1)
        BY <1>3, <2>4, <3>1, <3>3, Zenon DEF S!TokenAt
      <4>2. Matches(i, S!Found("ERROR", i + 1))
        BY <2>1, <2>4, <3>3, AloneMatches
      <4> QED BY <4>1, <4>2, Zenon
    <3> QED BY <3>2, <3>3
  <2>5. CASE S!At(i) = ">"
    <3>1. S!At(i) \notin S!Letter /\ S!At(i) \notin S!Digit /\ S!At(i) # "@"
      BY <2>5 DEF S!Digit, S!Letter
    <3>2. S!TokenAt(i) = S!greater(i + 1)
      BY <1>3, <2>5, <3>1, Zenon DEF S!TokenAt
    <3>3. Matches(i, S!greater(i + 1))
      BY <2>1, <2>5, GreaterMatches
    <3> QED BY <3>2, <3>3, Zenon
  <2>6. CASE S!At(i) = "="
    <3>1. S!At(i) \notin S!Letter /\ S!At(i) \notin S!Digit /\ S!At(i) # "@" /\ S!At(i) # ">"
      BY <2>6 DEF S!Digit, S!Letter
    <3>2. /\ S!At(i + 1) = "=" => Matches(i, S!Found("EQUAL_EQUAL", i + 2))
          /\ S!At(i + 1) # "=" => Matches(i, S!Found("EQUAL", i + 1))
      BY <2>1, <2>6, EqualMatches
    <3>3. CASE S!At(i + 1) = "="
      <4>1. S!TokenAt(i) = S!Found("EQUAL_EQUAL", i + 2)
        BY <1>3, <2>6, <3>1, <3>3, Zenon DEF S!TokenAt
      <4> QED BY <3>2, <3>3, <4>1, Zenon
    <3>4. CASE S!At(i + 1) # "="
      <4>1. S!TokenAt(i) = S!Found("EQUAL", i + 1)
        BY <1>3, <2>6, <3>1, <3>4, Zenon DEF S!TokenAt
      <4> QED BY <3>2, <3>4, <4>1, Zenon
    <3> QED BY <3>3, <3>4
  <2>7. CASE S!At(i) \notin S!Letter \cup S!Digit \cup {"@", ">", "="}
    <3>1. S!TokenAt(i) = S!other(S!At(i), i + 1)
      BY <1>3, <2>7, Zenon DEF S!TokenAt
    <3>2. S!At(i) \notin S!Letter \cup S!Digit \cup {Quote, "@", ">", "="}
      BY <2>7
    <3>3. Matches(i, S!other(S!At(i), i + 1))
      BY <2>1, <3>2, OtherMatches
    <3> QED BY <3>1, <3>3, Zenon
  <2> QED BY <2>2, <2>3, <2>4, <2>5, <2>6, <2>7
<1> QED BY <1>2, <1>3

(* The characters of a string that a backslash has taken. *)
Marks(t, u) == t = [i \in 1 .. Len(u) |-> i > 2 /\ u[i - 1] = "\\" /\ ~t[i - 1]]

LEMMA MarksExist ==
  ASSUME NEW u, NEW l \in Nat, l = Len(u)
  PROVE  \E t : Marks(t, u)
<1> DEFINE Goes(i) == i > 2 /\ u[i - 1] = "\\"
<1>1. PICK V : V = {0, 1}
  OBVIOUS
<1>2. PICK B : B = {j \in 1 .. l : ~Goes(l + 1 - j)}
  OBVIOUS
<1>3. PICK v : v = [j \in 1 .. l |-> 0]
  OBVIOUS
<1>4. PICK next : next = [j \in 1 .. l |-> j + 1]
  OBVIOUS
<1>5. PICK G : G = [j \in 1 .. l |-> [r \in V |-> 1 - r]]
  OBVIOUS
<1>6. v \in [1 .. l -> V] /\ next \in [1 .. l -> Int]
  BY <1>1, <1>3, <1>4
<1>7. G \in [1 .. l -> [V -> V]]
  <2>1. [r \in V |-> 1 - r] \in [V -> V]
    BY <1>1
  <2> QED BY <1>5, <2>1
<1>8. Onward(l, B, next)
  <2>1. ASSUME NEW j \in 1 .. l, j \notin B PROVE next[j] \in j + 1 .. l
    <3>1. l + 1 - j > 2
      BY <1>2, <2>1
    <3> QED BY <1>4, <3>1
  <2> QED BY <2>1 DEF Onward
<1>9. PICK g : Backward(g, l, B, v, next, G) /\ g \in [1 .. l -> V]
  BY <1>6, <1>7, <1>8, BackwardExists
<1>10. PICK t : t = [i \in 1 .. l |-> g[l + 1 - i] = 1]
  OBVIOUS
<1>11. ASSUME NEW i \in 1 .. l PROVE t[i] <=> g[l + 1 - i] = 1
  BY <1>10, Zenon
<1>12. ASSUME NEW i \in 1 .. l
       PROVE  t[i] <=> i > 2 /\ u[i - 1] = "\\" /\ ~t[i - 1]
  <2>1. PICK j \in 1 .. l : j = l + 1 - i /\ i = l + 1 - j
    OBVIOUS
  <2>2. t[i] <=> g[j] = 1
    BY <1>11, <2>1
  <2>3. CASE Goes(i)
    <3>1. j \notin B
      BY <1>2, <2>1, <2>3
    <3>2. g[j] = G[j][g[next[j]]]
      BY <1>9, <3>1 DEF Backward
    <3>3. PICK k \in 1 .. l : k = i - 1 /\ j + 1 = l + 1 - k /\ j + 1 \in 1 .. l
      BY <2>1, <2>3
    <3>4. next[j] = j + 1
      BY <1>4
    <3>5. PICK r \in V : r = g[j + 1]
      BY <1>9, <3>3
    <3>6. G[j][r] = 1 - r
      BY <1>5
    <3>7. g[j] = 1 - r
      BY <3>2, <3>4, <3>5, <3>6
    <3>8. g[j] = 1 <=> ~(r = 1)
      BY <1>1, <3>5, <3>7
    <3>9. t[k] <=> g[l + 1 - k] = 1
      BY <1>11
    <3>10. t[i - 1] <=> r = 1
      BY <3>3, <3>5, <3>9
    <3> QED BY <2>2, <2>3, <3>8, <3>10
  <2>4. CASE ~Goes(i)
    <3>1. j \in B
      BY <1>2, <2>1, <2>4
    <3>2. g[j] = 0
      BY <1>3, <1>9, <3>1 DEF Backward
    <3> QED BY <2>2, <2>4, <3>2
  <2> QED BY <2>3, <2>4
<1>13. t = [i \in 1 .. l |-> t[i]] /\ \A i \in 1 .. l : t[i] = TRUE \/ t[i] = FALSE
  <2>1. ASSUME NEW i \in 1 .. l PROVE t[i] = (g[l + 1 - i] = 1)
    BY <1>10, Zenon
  <2>2. ASSUME NEW i \in 1 .. l PROVE (g[l + 1 - i] = 1) = TRUE \/ (g[l + 1 - i] = 1) = FALSE
    BY Zenon
  <2>3. \A i \in 1 .. l : t[i] = TRUE \/ t[i] = FALSE
    BY <2>1, <2>2, Zenon
  <2>4. t = [i \in 1 .. l |-> t[i]]
    BY <1>10
  <2> QED BY <2>3, <2>4
<1>14. ASSUME NEW i \in 1 .. l
       PROVE  t[i] = (i > 2 /\ u[i - 1] = "\\" /\ ~t[i - 1])
  BY <1>12, <1>13, Zenon
<1>15. t = [i \in 1 .. l |-> i > 2 /\ u[i - 1] = "\\" /\ ~t[i - 1]]
  BY <1>13, <1>14, Zenon
<1> QED BY <1>15 DEF Marks

LEMMA MarksOf ==
  ASSUME NEW u, NEW l \in Nat, l = Len(u)
  PROVE  \A i \in 1 .. l : S!IsTaken(u)[i] <=> i > 2 /\ u[i - 1] = "\\" /\ ~S!IsTaken(u)[i - 1]
<1>1. PICK t : t = CHOOSE f : Marks(f, u)
  OBVIOUS
<1>2. Marks(t, u)
  BY <1>1, MarksExist
<1>3. S!IsTaken(u) = t
  BY <1>1, Zenon DEF S!IsTaken, Marks
<1>4. t = [i \in 1 .. l |-> i > 2 /\ u[i - 1] = "\\" /\ ~t[i - 1]]
  BY <1>2 DEF Marks
<1>5. ASSUME NEW i \in 1 .. l PROVE t[i] <=> i > 2 /\ u[i - 1] = "\\" /\ ~t[i - 1]
  BY <1>4, Zenon
<1> QED BY <1>3, <1>5, Zenon

(* Of the text from a on: a backslash has taken the character at p. *)
TakenAt(a, p) == S!IsTaken(SubSeq(text, a, Len(text)))[p - a + 1]

LEMMA TakenFollows ==
  ASSUME text \in Seq(S!Char), NEW a \in 1 .. Len(text), NEW p \in a .. Len(text)
  PROVE  TakenAt(a, p) <=> p > a + 1 /\ S!At(p - 1) = "\\" /\ ~TakenAt(a, p - 1)
<1>1. PICK n \in Nat : n = Len(text)
  BY AtChar
<1>2. a \in Int /\ p \in Int /\ a >= 1 /\ a <= p /\ p <= n
  BY <1>1
<1>3. PICK u : u = SubSeq(text, a, Len(text))
  OBVIOUS
<1>4. Within(a, Len(text))
  BY <1>1, <1>2 DEF Within
<1>5. PICK l \in Nat : l = n - a + 1
  BY <1>2
<1>6. IsPart(u, a, Len(text))
  BY <1>3, <1>4, PartOf
<1>7. Len(u) = l /\ \A i \in 1 .. l : u[i] = S!At(a + i - 1)
  BY <1>1, <1>5, <1>6 DEF IsPart
<1>8. \A i \in 1 .. l : S!IsTaken(u)[i] <=> i > 2 /\ u[i - 1] = "\\" /\ ~S!IsTaken(u)[i - 1]
  BY <1>7, MarksOf
<1>9. PICK i \in 1 .. l : i = p - a + 1
  BY <1>2, <1>5
<1>10. i - 1 = p - 1 - a + 1 /\ (i > 2 <=> p > a + 1)
  BY <1>2, <1>9
<1>11. i > 2 => u[i - 1] = S!At(p - 1)
  <2>1. SUFFICES ASSUME i > 2 PROVE u[i - 1] = S!At(p - 1)
    OBVIOUS
  <2>2. PICK k \in 1 .. l : k = i - 1 /\ a + k - 1 = p - 1
    BY <1>2, <1>9, <2>1
  <2> QED BY <1>7, <2>2
<1>12. TakenAt(a, p) <=> S!IsTaken(u)[i]
  BY <1>3, <1>9 DEF TakenAt
<1>13. TakenAt(a, p - 1) <=> S!IsTaken(u)[i - 1]
  BY <1>3, <1>10 DEF TakenAt
<1> QED BY <1>8, <1>10, <1>11, <1>12, <1>13

LEMMA TakenInPart ==
  ASSUME text \in Seq(S!Char), NEW a \in 1 .. Len(text), NEW q \in a .. Len(text), NEW l \in Nat, l = q - a + 1
  PROVE  \A i \in 1 .. l : S!IsTaken(SubSeq(text, a, q))[i] <=> TakenAt(a, a + i - 1)
<1>1. PICK n \in Nat : n = Len(text)
  BY AtChar
<1>2. a \in Int /\ q \in Int /\ a >= 1 /\ a <= q /\ q <= n
  BY <1>1
<1>3. PICK u : u = SubSeq(text, a, q)
  OBVIOUS
<1>4. Within(a, q)
  BY <1>1, <1>2 DEF Within
<1>5. IsPart(u, a, q)
  BY <1>3, <1>4, PartOf
<1>6. Len(u) = l /\ \A i \in 1 .. l : u[i] = S!At(a + i - 1)
  BY <1>5 DEF IsPart
<1>7. \A i \in 1 .. l : S!IsTaken(u)[i] <=> i > 2 /\ u[i - 1] = "\\" /\ ~S!IsTaken(u)[i - 1]
  BY <1>6, MarksOf
<1> DEFINE T == {i \in 1 .. l : S!IsTaken(u)[i] <=> TakenAt(a, a + i - 1)}
<1>8. ASSUME NEW i \in 1 .. l, \A k \in 1 .. i - 1 : k \in T PROVE i \in T
  <2>1. PICK p \in a .. Len(text) : p = a + i - 1
    BY <1>1, <1>2
  <2>2. TakenAt(a, p) <=> p > a + 1 /\ S!At(p - 1) = "\\" /\ ~TakenAt(a, p - 1)
    BY TakenFollows
  <2>3. i > 2 <=> p > a + 1
    BY <1>2, <2>1
  <2>4. ASSUME i > 2
        PROVE  u[i - 1] = S!At(p - 1) /\ (S!IsTaken(u)[i - 1] <=> TakenAt(a, p - 1))
    <3>1. PICK k \in 1 .. l : k = i - 1 /\ a + k - 1 = p - 1 /\ k \in 1 .. i - 1
      BY <1>2, <2>1, <2>4
    <3>2. u[k] = S!At(p - 1)
      BY <1>6, <3>1
    <3>3. S!IsTaken(u)[k] <=> TakenAt(a, p - 1)
      BY <1>8, <3>1
    <3> QED BY <3>1, <3>2, <3>3
  <2>5. S!IsTaken(u)[i] <=> i > 2 /\ u[i - 1] = "\\" /\ ~S!IsTaken(u)[i - 1]
    BY <1>7
  <2>6. S!IsTaken(u)[i] <=> TakenAt(a, p)
    BY <2>2, <2>3, <2>4, <2>5, Zenon
  <2> QED BY <2>1, <2>6
<1>9. \A i \in 1 .. l : i \in T
  <2> HIDE DEF T
  <2> QED BY <1>8, UpToN
<1>10. ASSUME NEW i \in 1 .. l PROVE S!IsTaken(u)[i] <=> TakenAt(a, a + i - 1)
  BY <1>9
<1> QED BY <1>3, <1>10, Zenon

(* A quoted part ends at the first quote that no backslash has taken. *)
QuotedAt(a, q) ==
  /\ q > a /\ S!At(a) = Quote /\ S!At(q) = Quote /\ ~TakenAt(a, q)
  /\ \A p \in a + 1 .. q - 1 : S!At(p) = Quote => TakenAt(a, p)

LEMMA QuotedIs ==
  ASSUME text \in Seq(S!Char), NEW a \in 1 .. Len(text), NEW q \in a .. Len(text)
  PROVE  S!IsDelimited(SubSeq(text, a, q)) <=> QuotedAt(a, q)
<1>1. PICK n \in Nat : n = Len(text)
  BY AtChar
<1>2. a \in Int /\ q \in Int /\ a >= 1 /\ a <= q /\ q <= n
  BY <1>1
<1>3. PICK u, t : u = SubSeq(text, a, q) /\ t = S!IsTaken(u)
  OBVIOUS
<1>4. Within(a, q)
  BY <1>1, <1>2 DEF Within
<1>5. PICK l \in Nat : l = q - a + 1
  BY <1>2
<1>6. IsPart(u, a, q)
  BY <1>3, <1>4, PartOf
<1>7. Len(u) = l /\ \A i \in 1 .. l : u[i] = S!At(a + i - 1)
  BY <1>5, <1>6 DEF IsPart
<1>8. \A i \in 1 .. l : t[i] <=> TakenAt(a, a + i - 1)
  BY <1>3, <1>5, TakenInPart, Zenon
<1>9. PICK F : F = {i \in 2 .. l : u[i] = Quote /\ ~t[i]}
  OBVIOUS
<1>10. S!IsDelimited(u) <=> l > 1 /\ u[1] = Quote /\ u[l] = Quote /\ F = {l}
  BY <1>3, <1>7, <1>9, Zenon DEF S!IsDelimited, Quote
<1>11. ASSUME NEW i \in 1 .. l, NEW p, p = a + i - 1
       PROVE  u[i] = S!At(p) /\ (t[i] <=> TakenAt(a, p))
  BY <1>7, <1>8, <1>11
<1>12. ASSUME l > 1 PROVE u[1] = S!At(a) /\ u[l] = S!At(q) /\ (t[l] <=> TakenAt(a, q))
  <2>1. 1 \in 1 .. l /\ a = a + 1 - 1 /\ l \in 1 .. l /\ q = a + l - 1
    BY <1>2, <1>5, <1>12
  <2> QED BY <1>11, <2>1
<1>13. l > 1 <=> q > a
  BY <1>2, <1>5
<1>14. ASSUME l > 1, F = {l} PROVE ~t[l] /\ \A p \in a + 1 .. q - 1 : S!At(p) = Quote => TakenAt(a, p)
  <2>1. ~t[l]
    <3>1. l \in F
      BY <1>14
    <3> QED BY <1>9, <3>1
  <2>2. ASSUME NEW p \in a + 1 .. q - 1, S!At(p) = Quote PROVE TakenAt(a, p)
    <3>1. PICK i \in 2 .. l : i = p - a + 1 /\ p = a + i - 1 /\ i # l
      BY <1>2, <1>5
    <3>2. i \notin F
      BY <1>14, <3>1
    <3>3. u[i] = S!At(p) /\ (t[i] <=> TakenAt(a, p))
      BY <1>11, <3>1
    <3> QED BY <1>9, <2>2, <3>1, <3>2, <3>3
  <2> QED BY <2>1, <2>2
<1>15. ASSUME l > 1, u[l] = Quote, ~t[l], \A p \in a + 1 .. q - 1 : S!At(p) = Quote => TakenAt(a, p) PROVE F = {l}
  <2>1. l \in F
    BY <1>9, <1>15
  <2>2. ASSUME NEW i \in F PROVE i = l
    <3>1. i \in 2 .. l /\ u[i] = Quote /\ ~t[i]
      BY <1>9
    <3>2. SUFFICES ASSUME i # l PROVE FALSE
      OBVIOUS
    <3>3. PICK p \in a + 1 .. q - 1 : p = a + i - 1
      BY <1>2, <1>5, <3>1, <3>2
    <3>4. u[i] = S!At(p) /\ (t[i] <=> TakenAt(a, p))
      BY <1>11, <3>1, <3>3
    <3> QED BY <1>15, <3>1, <3>3, <3>4
  <2> QED BY <2>1, <2>2
<1>16. S!IsDelimited(u) <=> QuotedAt(a, q)
  BY <1>10, <1>12, <1>13, <1>14, <1>15 DEF QuotedAt
<1> QED BY <1>3, <1>16

LEMMA EscapeIs ==
  ASSUME text \in Seq(S!Char), NEW a \in 1 .. Len(text), NEW q \in a .. Len(text)
  PROVE  S!HasEscape(SubSeq(text, a, q)) <=> \E p \in a .. q : TakenAt(a, p) /\ S!At(p) \in S!Escaped
<1>1. PICK n \in Nat : n = Len(text)
  BY AtChar
<1>2. a \in Int /\ q \in Int /\ a >= 1 /\ a <= q /\ q <= n
  BY <1>1
<1>3. PICK u, t : u = SubSeq(text, a, q) /\ t = S!IsTaken(u)
  OBVIOUS
<1>4. Within(a, q)
  BY <1>1, <1>2 DEF Within
<1>5. PICK l \in Nat : l = q - a + 1
  BY <1>2
<1>6. IsPart(u, a, q)
  BY <1>3, <1>4, PartOf
<1>7. u \in Seq(S!Char) /\ Len(u) = l /\ \A i \in 1 .. l : u[i] = S!At(a + i - 1)
  BY <1>5, <1>6 DEF IsPart
<1>8. \A i \in 1 .. l : t[i] <=> TakenAt(a, a + i - 1)
  BY <1>3, <1>5, TakenInPart, Zenon
<1>9. DOMAIN u = 1 .. l
  BY <1>7, LenProperties
<1>10. S!HasEscape(u) <=> \E i \in 1 .. l : t[i] /\ u[i] \in S!Escaped
  BY <1>3, <1>9, Zenon DEF S!HasEscape
<1>11. ASSUME NEW i \in 1 .. l, t[i], u[i] \in S!Escaped
       PROVE  \E p \in a .. q : TakenAt(a, p) /\ S!At(p) \in S!Escaped
  <2>1. PICK p \in a .. q : p = a + i - 1
    BY <1>2, <1>5
  <2>2. TakenAt(a, p) /\ S!At(p) \in S!Escaped
    BY <1>7, <1>8, <1>11, <2>1
  <2> QED BY <2>2
<1>12. ASSUME NEW p \in a .. q, TakenAt(a, p), S!At(p) \in S!Escaped
       PROVE  \E i \in 1 .. l : t[i] /\ u[i] \in S!Escaped
  <2>1. PICK i \in 1 .. l : p = a + i - 1
    <3>1. p - a + 1 \in 1 .. l /\ p = a + (p - a + 1) - 1
      BY <1>2, <1>5
    <3> QED BY <3>1
  <2>2. t[i] /\ u[i] \in S!Escaped
    BY <1>7, <1>8, <1>12, <2>1
  <2> QED BY <2>2
<1>13. S!HasEscape(u) <=> \E p \in a .. q : TakenAt(a, p) /\ S!At(p) \in S!Escaped
  BY <1>10, <1>11, <1>12, Zenon
<1> QED BY <1>3, <1>13, Zenon

LEMMA StringIs ==
  ASSUME text \in Seq(S!Char), text # <<>> => text[Len(text)] # "\\", NEW j \in 1 .. Len(text) + 1
  PROVE  S!string(j) = IF Closes(j) THEN ClosesWith(j) ELSE GoesOn(j, S!string(Taken(j)))
<1>1. PICK n \in Nat : n = Len(text)
  BY AtChar
<1>2. PICK f : f = CHOOSE g : Body(g)
  OBVIOUS
<1>3. Body(f)
  BY <1>2, BodyExists
<1>4. \A k : S!string(k) = f[k]
  BY <1>2, Zenon DEF S!string, Body
<1>5. j \in 1 .. Len(text) + 2
  BY <1>1
<1>6. f[j] = (IF S!At(j) \in {"\"", S!NUL} THEN [end |-> j, lines |-> 0, escape |-> FALSE]
              ELSE IF S!At(j) = "\\" THEN [f[j + 2] EXCEPT !.escape = @ \/ S!At(j + 1) \in S!Escaped]
              ELSE [f[j + 1] EXCEPT !.lines = @ + IF S!At(j) = "\n" THEN 1 ELSE 0])
  BY <1>3, <1>5, Zenon DEF Body
<1>7. f[j] = IF Closes(j) THEN ClosesWith(j) ELSE GoesOn(j, f[Taken(j)])
  BY <1>6, Zenon DEF Closes, ClosesWith, GoesOn, Taken
<1> QED BY <1>4, <1>7, Zenon

LEMMA StringGoes ==
  ASSUME text \in Seq(S!Char), text # <<>> => text[Len(text)] # "\\", NEW j \in 1 .. Len(text),
         ~Closes(j), NEW m \in 1 .. Len(text) + 1, m = Taken(j), NEW s, NEW r, s = S!string(j), r = S!string(m)
  PROVE  /\ s.end = r.end
         /\ s.escape <=> r.escape \/ (S!At(j) = "\\" /\ S!At(j + 1) \in S!Escaped)
<1>1. PICK n \in Nat : n = Len(text)
  BY AtChar
<1>2. j \in 1 .. Len(text) + 1
  BY <1>1
<1>3. S!string(j) = IF Closes(j) THEN ClosesWith(j) ELSE GoesOn(j, S!string(Taken(j)))
  BY <1>2, StringIs
<1>4. s = GoesOn(j, r)
  BY <1>3, Zenon
<1>5. ReadString(m, r)
  BY StringRead
<1>6. r = [end |-> r.end, lines |-> r.lines, escape |-> r.escape]
  BY <1>5 DEF ReadString
<1>7. CASE S!At(j) = "\\"
  <2>1. s = [r EXCEPT !.escape = @ \/ S!At(j + 1) \in S!Escaped]
    BY <1>4, <1>7, Zenon DEF GoesOn
  <2>2. PICK b : b = (r.escape \/ S!At(j + 1) \in S!Escaped)
    BY Zenon
  <2>3. s = [r EXCEPT !.escape = b]
    BY <2>1, <2>2, Zenon
  <2>4. s = [end |-> r.end, lines |-> r.lines, escape |-> b]
    BY <1>6, <2>3
  <2>5. s.end = r.end /\ s.escape = b
    BY <2>4
  <2> QED BY <1>7, <2>2, <2>5, Zenon
<1>8. CASE S!At(j) # "\\"
  <2>1. s = [r EXCEPT !.lines = @ + IF S!At(j) = "\n" THEN 1 ELSE 0]
    BY <1>4, <1>8, Zenon DEF GoesOn
  <2>2. PICK c : c = r.lines + IF S!At(j) = "\n" THEN 1 ELSE 0
    OBVIOUS
  <2>3. s = [r EXCEPT !.lines = c]
    BY <2>1, <2>2, Zenon
  <2>4. s = [end |-> r.end, lines |-> c, escape |-> r.escape]
    BY <1>6, <2>3
  <2>5. s.end = r.end /\ s.escape = r.escape
    BY <2>4
  <2> QED BY <1>8, <2>5, Zenon
<1> QED BY <1>7, <1>8

(* What string finds from j on, in a string that begins at a. *)
FindsQuote(a, j, s) ==
  /\ s.end <= Len(text) => S!At(s.end) = Quote /\ ~TakenAt(a, s.end)
  /\ \A p \in j .. s.end - 1 : S!At(p) = Quote => TakenAt(a, p)
  /\ s.escape <=> \E p \in j .. s.end - 1 : TakenAt(a, p) /\ S!At(p) \in S!Escaped

LEMMA StringFinds ==
  ASSUME text \in Seq(S!Char), text # <<>> => text[Len(text)] # "\\", NEW a \in 1 .. Len(text)
  PROVE  FindsQuote(a, a + 1, S!string(a + 1))
<1>1. PICK n \in Nat : /\ n = Len(text) /\ \A k \in Int : k > n => S!At(k) = S!NUL
                       /\ \A k \in 1 .. n : S!At(k) = text[k] /\ S!At(k) # S!NUL
  BY AtChar
<1>2. PICK l \in Nat : l = n + 1
  OBVIOUS
<1>3. a \in Int /\ a >= 1 /\ a <= n
  BY <1>1
<1> DEFINE T == {j \in 1 .. l : j > a /\ (j <= n => ~TakenAt(a, j)) => FindsQuote(a, j, S!string(j))}
<1>4. ASSUME NEW j \in 1 .. l, \A k \in j + 1 .. l : k \in T, j > a, j <= n => ~TakenAt(a, j)
      PROVE  FindsQuote(a, j, S!string(j))
  <2>1. PICK s, e : s = S!string(j) /\ e = s.end
    OBVIOUS
  <2>2. j \in 1 .. Len(text) + 1
    BY <1>1, <1>2
  <2>3. ReadString(j, s)
    BY <2>1, <2>2, StringRead
  <2>4. e \in j .. l /\ S!At(e) \in {Quote, S!NUL} /\ e \in Int
    <3>1. e \in j .. Len(text) + 1
      BY <2>1, <2>3, Zenon DEF ReadString
    <3>2. S!At(e) \in {Quote, S!NUL}
      BY <2>1, <2>3, Zenon DEF ReadString, Quote
    <3>3. e \in j .. l /\ e \in Int
      BY <1>1, <1>2, <3>1
    <3> QED BY <3>2, <3>3
  <2>5. CASE Closes(j)
    <3>1. s = [end |-> j, lines |-> 0, escape |-> FALSE]
      <4>1. S!string(j) = IF Closes(j) THEN ClosesWith(j) ELSE GoesOn(j, S!string(Taken(j)))
        BY <2>2, StringIs
      <4> QED BY <2>1, <2>5, <4>1, Zenon DEF ClosesWith
    <3>2. e = j /\ s.end = j /\ ~s.escape
      BY <2>1, <3>1
    <3>3. \A p : p \notin j .. j - 1
      OBVIOUS
    <3>4. j <= n => S!At(j) = Quote
      BY <1>1, <2>4, <3>2
    <3> QED BY <1>1, <1>4, <2>1, <3>2, <3>3, <3>4 DEF FindsQuote
  <2>6. CASE ~Closes(j)
    <3>1. S!At(j) # Quote /\ S!At(j) # S!NUL
      BY <2>6, Zenon DEF Closes, Quote
    <3>2. j \in 1 .. n /\ ~TakenAt(a, j)
      <4>1. ~(j > n)
        BY <1>1, <3>1
      <4> QED BY <1>2, <1>4, <4>1
    <3>3. PICK m : m = Taken(j)
      OBVIOUS
    <3>4. S!At(j) = "\\" => j + 1 <= n
      <4>1. SUFFICES ASSUME S!At(j) = "\\", j = n PROVE FALSE
        BY <3>2
      <4>2. text # <<>>
        BY <1>1, <3>2
      <4> QED BY <1>1, <3>2, <4>1, <4>2
    <3>5. m \in j + 1 .. l /\ m \in Int
      BY <1>2, <3>2, <3>3, <3>4 DEF Taken
    <3>6. PICK r : r = S!string(m)
      OBVIOUS
    <3>7. s.end = r.end /\ (s.escape <=> r.escape \/ (S!At(j) = "\\" /\ S!At(j + 1) \in S!Escaped))
      <4>1. j \in 1 .. Len(text) /\ m \in 1 .. Len(text) + 1
        BY <1>1, <1>2, <3>2, <3>5
      <4> QED BY <2>1, <2>6, <3>3, <3>6, <4>1, StringGoes
    <3>8. ASSUME NEW p \in a .. n PROVE TakenAt(a, p) <=> p > a + 1 /\ S!At(p - 1) = "\\" /\ ~TakenAt(a, p - 1)
      <4>1. p \in a .. Len(text)
        BY <1>1
      <4> QED BY <4>1, TakenFollows
    <3>9. ASSUME j + 1 <= n
          PROVE  TakenAt(a, j + 1) <=> S!At(j) = "\\"
      <4>1. PICK p \in a .. n : p = j + 1 /\ p > a + 1 /\ p - 1 = j
        BY <1>3, <1>4, <3>2, <3>9
      <4>2. TakenAt(a, p) <=> p > a + 1 /\ S!At(p - 1) = "\\" /\ ~TakenAt(a, p - 1)
        BY <3>8
      <4>3. TakenAt(a, p) <=> S!At(j) = "\\" /\ ~TakenAt(a, j)
        BY <4>1, <4>2
      <4> QED BY <3>2, <4>1, <4>3
    <3>10. ASSUME m <= n PROVE ~TakenAt(a, m)
      <4>1. CASE S!At(j) = "\\"
        <5>1. PICK p \in a .. n : p = j + 2 /\ p - 1 = j + 1 /\ p = m
          BY <1>3, <1>4, <3>2, <3>3, <3>10, <4>1 DEF Taken
        <5>2. TakenAt(a, p) <=> p > a + 1 /\ S!At(p - 1) = "\\" /\ ~TakenAt(a, p - 1)
          BY <3>8
        <5>3. TakenAt(a, j + 1)
          BY <3>4, <3>9, <4>1
        <5> QED BY <5>1, <5>2, <5>3
      <4>2. CASE S!At(j) # "\\"
        <5>1. m = j + 1
          BY <3>3, <4>2 DEF Taken
        <5> QED BY <3>9, <3>10, <4>2, <5>1
      <4> QED BY <4>1, <4>2
    <3>11. FindsQuote(a, m, r)
      <4>1. m \in T /\ m > a
        BY <1>3, <1>4, <3>5
      <4> QED BY <3>6, <3>10, <4>1
    <3>12. ReadString(m, r)
      <4>1. m \in 1 .. Len(text) + 1
        BY <1>1, <1>2, <3>5
      <4> QED BY <3>6, <4>1, StringRead
    <3>13. e = r.end /\ e \in m .. l
      <4>1. r.end \in m .. l
        BY <1>1, <1>2, <3>12 DEF ReadString
      <4> QED BY <2>1, <3>7, <4>1
    <3>14. \A p \in j .. e - 1 : p = j \/ (p = j + 1 /\ S!At(j) = "\\") \/ p \in m .. e - 1
      <4>1. CASE S!At(j) = "\\"
        <5>1. m = j + 2
          BY <3>3, <4>1 DEF Taken
        <5> QED BY <2>4, <3>5, <3>13, <4>1, <5>1
      <4>2. CASE S!At(j) # "\\"
        <5>1. m = j + 1
          BY <3>3, <4>2 DEF Taken
        <5> QED BY <2>4, <3>5, <3>13, <5>1
      <4> QED BY <4>1, <4>2
    <3>15. S!At(j) = "\\" => TakenAt(a, j + 1) /\ j + 1 \in j .. e - 1
      <4>1. SUFFICES ASSUME S!At(j) = "\\" PROVE TakenAt(a, j + 1) /\ j + 1 \in j .. e - 1
        OBVIOUS
      <4>2. m = j + 2
        BY <3>3, <4>1 DEF Taken
      <4>3. j + 1 \in j .. e - 1
        BY <2>4, <3>2, <3>13, <4>2
      <4>4. TakenAt(a, j + 1)
        BY <3>4, <3>9, <4>1
      <4> QED BY <4>3, <4>4
    <3>16. e <= n => S!At(e) = Quote /\ ~TakenAt(a, e)
      BY <1>1, <3>11, <3>13 DEF FindsQuote
    <3>17. \A p \in m .. e - 1 : S!At(p) = Quote => TakenAt(a, p)
      BY <3>11, <3>13 DEF FindsQuote
    <3>18. r.escape <=> \E p \in m .. e - 1 : TakenAt(a, p) /\ S!At(p) \in S!Escaped
      BY <3>11, <3>13 DEF FindsQuote
    <3>19. \A p \in m .. e - 1 : p \in j .. e - 1
      BY <3>2, <3>5
    <3>20. \A p \in j .. e - 1 : S!At(p) = Quote => TakenAt(a, p)
      BY <3>1, <3>14, <3>15, <3>17
    <3>21. s.escape <=> \E p \in j .. e - 1 : TakenAt(a, p) /\ S!At(p) \in S!Escaped
      <4>1. ASSUME s.escape PROVE \E p \in j .. e - 1 : TakenAt(a, p) /\ S!At(p) \in S!Escaped
        <5>1. CASE r.escape
          BY <3>18, <3>19, <5>1
        <5>2. CASE S!At(j) = "\\" /\ S!At(j + 1) \in S!Escaped
          BY <3>15, <5>2
        <5> QED BY <3>7, <4>1, <5>1, <5>2
      <4>2. ASSUME NEW p \in j .. e - 1, TakenAt(a, p), S!At(p) \in S!Escaped PROVE s.escape
        <5>1. p # j
          BY <3>2, <4>2
        <5>2. CASE p = j + 1 /\ S!At(j) = "\\"
          BY <3>7, <4>2, <5>2
        <5>3. CASE p \in m .. e - 1
          <6>1. r.escape
            BY <3>18, <4>2, <5>3
          <6> QED BY <3>7, <6>1
        <5> QED BY <3>14, <5>1, <5>2, <5>3
      <4> QED BY <4>1, <4>2
    <3>22. FindsQuote(a, j, s)
      BY <1>1, <2>1, <3>16, <3>20, <3>21 DEF FindsQuote
    <3> QED BY <2>1, <3>22
  <2> QED BY <2>5, <2>6
<1>5. ASSUME NEW j \in 1 .. l, \A k \in j + 1 .. l : k \in T PROVE j \in T
  BY <1>4, <1>5
<1>6. \A j \in 1 .. l : j \in T
  <2> HIDE DEF T
  <2> QED BY <1>5, DownFromN
<1>7. PICK b \in 1 .. l : b = a + 1 /\ b > a
  BY <1>2, <1>3
<1>8. b <= n => ~TakenAt(a, b)
  <2>1. SUFFICES ASSUME b <= n PROVE ~TakenAt(a, b)
    OBVIOUS
  <2>2. b \in a .. Len(text) /\ ~(b > a + 1)
    BY <1>1, <1>3, <1>7, <2>1
  <2>3. TakenAt(a, b) <=> b > a + 1 /\ S!At(b - 1) = "\\" /\ ~TakenAt(a, b - 1)
    BY <2>2, TakenFollows
  <2> QED BY <2>2, <2>3
<1>9. b \in T
  BY <1>6
<1>10. FindsQuote(a, b, S!string(b))
  BY <1>7, <1>8, <1>9
<1> QED BY <1>7, <1>10

LEMMA QuoteOnly ==
  ASSUME text \in Seq(S!Char), NEW a \in 1 .. Len(text), S!At(a) = Quote,
         NEW m \in a - 1 .. Len(text), IsTokenTo(a, m)
  PROVE  m \in a .. Len(text) /\ QuotedAt(a, m)
<1>1. PICK n \in Nat : n = Len(text)
  BY AtChar
<1>2. Within(a, m)
  BY <1>1 DEF Within
<1>3. S!IsToken(SubSeq(text, a, m))
  BY DEF IsTokenTo
<1>4. a <= m /\ IsTokenAt(a, m)
  BY <1>2, <1>3, TokenBegins
<1>5. m \in a .. Len(text)
  BY <1>1, <1>4
<1>6. Quote \notin S!Digit \cup S!Letter \cup Singles \cup {"@", ">", "="}
  BY DEF Quote, S!Digit, S!Letter, Singles
<1>7. S!IsDelimited(SubSeq(text, a, m))
  BY <1>4, <1>6, Zenon DEF IsTokenAt
<1>8. QuotedAt(a, m)
  BY <1>5, <1>7, QuotedIs
<1> QED BY <1>5, <1>8

(* A string ends where it should; a newline no backslash takes may be in it. *)
Raw(i, t) == t.type \in StringTypes /\ S!HasNewline(SubSeq(text, i, t.end - 1))
Delimited(i, t) ==
  t.type \in StringTypes => /\ S!IsDelimited(SubSeq(text, i, t.end - 1))
                            /\ t.type = "STRING" => ~S!HasEscape(SubSeq(text, i, t.end - 1))

LEMMA StringMatches ==
  ASSUME text \in Seq(S!Char), text # <<>> => text[Len(text)] # "\\", NEW a \in 1 .. Len(text), S!At(a) = Quote,
         NEW s, s = S!string(a + 1), NEW d, d = IF S!At(s.end) = S!NUL THEN s.end ELSE s.end + 1
  PROVE  /\ Matches(a, S!Found(S!StringType(s), d)) <=> ~Raw(a, S!Found(S!StringType(s), d))
         /\ Delimited(a, S!Found(S!StringType(s), d))
<1>1. PICK n \in Nat : /\ n = Len(text) /\ \A k \in Int : k > n => S!At(k) = S!NUL
                       /\ \A k \in 1 .. n : S!At(k) = text[k] /\ S!At(k) # S!NUL
  BY AtChar
<1>2. a \in Int /\ a >= 1 /\ a <= n
  BY <1>1
<1>3. PICK b \in 1 .. Len(text) + 1 : b = a + 1
  BY <1>1, <1>2
<1>4. ReadString(b, s)
  BY <1>3, StringRead
<1>5. PICK e : e = s.end
  OBVIOUS
<1>6. e \in b .. Len(text) + 1 /\ S!At(e) \in {Quote, S!NUL}
  BY <1>4, <1>5, Zenon DEF ReadString, Quote
<1>7. e \in Int /\ a + 1 <= e /\ e <= n + 1
  BY <1>1, <1>2, <1>3, <1>6
<1>8. FindsQuote(a, b, s)
  BY <1>3, StringFinds
<1>9. \A p \in a + 1 .. e - 1 : S!At(p) = Quote => TakenAt(a, p)
  BY <1>3, <1>5, <1>8 DEF FindsQuote
<1>10. s.escape <=> \E p \in a + 1 .. e - 1 : TakenAt(a, p) /\ S!At(p) \in S!Escaped
  BY <1>3, <1>5, <1>8 DEF FindsQuote
<1>11. e <= n => S!At(e) = Quote /\ ~TakenAt(a, e)
  BY <1>1, <1>5, <1>8 DEF FindsQuote
<1>12. CASE S!At(e) = S!NUL
  <2>1. e = n + 1
    BY <1>1, <1>2, <1>7, <1>12
  <2>2. S!StringType(s) = "ERROR" /\ d = e
    BY <1>5, <1>12, Zenon DEF S!StringType
  <2>3. PICK q \in Int : q = e - 1 /\ q = n
    BY <1>7, <2>1
  <2>4. Longest(a, q)
    <3>1. ASSUME NEW m \in q .. Len(text), IsTokenTo(a, m) PROVE FALSE
      <4>1. m = n /\ m \in a - 1 .. Len(text)
        BY <1>1, <1>2, <2>3, <3>1
      <4>2. QuotedAt(a, m)
        BY <3>1, <4>1, QuoteOnly
      <4>3. m > a /\ S!At(m) = Quote /\ ~TakenAt(a, m)
        BY <4>2 DEF QuotedAt
      <4>4. m \in a + 1 .. e - 1
        BY <1>2, <2>1, <4>1, <4>3
      <4> QED BY <1>9, <4>3, <4>4
    <3> QED BY <3>1 DEF Longest
  <2>5. Matches(a, S!Found("ERROR", e))
    BY <2>3, <2>4, MatchesError
  <2>6. ~Raw(a, S!Found("ERROR", e)) /\ Delimited(a, S!Found("ERROR", e))
    BY DEF Raw, Delimited, StringTypes, S!Found
  <2> QED BY <2>2, <2>5, <2>6, Zenon
<1>13. CASE S!At(e) # S!NUL
  <2>1. e <= n /\ S!At(e) = Quote /\ ~TakenAt(a, e)
    <3>1. ~(e > n)
      BY <1>1, <1>7, <1>13
    <3>2. e <= n
      BY <1>7, <3>1
    <3> QED BY <1>11, <3>2
  <2>2. d = e + 1
    BY <1>5, <1>13, Zenon
  <2>3. PICK type : type = IF s.escape THEN "STRING_ESCAPE" ELSE "STRING"
    OBVIOUS
  <2>4. S!StringType(s) = type
    BY <1>5, <1>13, <2>3, Zenon DEF S!StringType
  <2>5. e \in a .. Len(text) /\ e > a
    BY <1>1, <1>2, <1>7, <2>1
  <2>6. QuotedAt(a, e)
    BY <1>9, <2>1, <2>5 DEF QuotedAt
  <2>7. S!IsDelimited(SubSeq(text, a, e))
    BY <2>5, <2>6, QuotedIs
  <2>8. S!HasEscape(SubSeq(text, a, e)) <=> \E p \in a .. e : TakenAt(a, p) /\ S!At(p) \in S!Escaped
    BY <2>5, EscapeIs
  <2>9. ~TakenAt(a, a)
    <3>1. a \in a .. Len(text) /\ ~(a > a + 1)
      BY <1>1, <1>2
    <3>2. TakenAt(a, a) <=> a > a + 1 /\ S!At(a - 1) = "\\" /\ ~TakenAt(a, a - 1)
      BY <3>1, TakenFollows
    <3> QED BY <3>1, <3>2
  <2>10. s.escape <=> S!HasEscape(SubSeq(text, a, e))
    <3>1. \A p \in a .. e : p = a \/ p = e \/ p \in a + 1 .. e - 1
      BY <1>2, <1>7
    <3>2. \A p \in a + 1 .. e - 1 : p \in a .. e
      BY <1>2, <1>7
    <3>3. ASSUME NEW p \in a .. e, TakenAt(a, p), S!At(p) \in S!Escaped PROVE s.escape
      <4>1. p # a /\ p # e
        BY <2>1, <2>9, <3>3
      <4>2. p \in a + 1 .. e - 1
        BY <3>1, <4>1
      <4> QED BY <1>10, <3>3, <4>2
    <3>4. ASSUME s.escape PROVE \E p \in a .. e : TakenAt(a, p) /\ S!At(p) \in S!Escaped
      BY <1>10, <3>2, <3>4
    <3> QED BY <2>8, <3>3, <3>4
  <2>11. /\ type \in StringTypes /\ (type = "STRING" => ~S!HasEscape(SubSeq(text, a, e)))
         /\ S!Spelled(type, SubSeq(text, a, e)) <=> ~S!HasNewline(SubSeq(text, a, e))
    <3>1. S!IsQuoted(SubSeq(text, a, e)) <=> ~S!HasNewline(SubSeq(text, a, e))
      BY <2>7, Zenon DEF S!IsQuoted
    <3>2. CASE s.escape
      <4>1. type = "STRING_ESCAPE"
        BY <2>3, <3>2
      <4>2. S!Spelled("STRING_ESCAPE", SubSeq(text, a, e)) <=> ~S!HasNewline(SubSeq(text, a, e))
        BY <2>10, <3>1, <3>2, SpelledIs
      <4> QED BY <4>1, <4>2 DEF StringTypes
    <3>3. CASE ~s.escape
      <4>1. type = "STRING"
        BY <2>3, <3>3
      <4>2. S!Spelled("STRING", SubSeq(text, a, e)) <=> ~S!HasNewline(SubSeq(text, a, e))
        BY <2>10, <3>1, <3>3, SpelledIs
      <4> QED BY <2>10, <3>3, <4>1, <4>2 DEF StringTypes
    <3> QED BY <3>2, <3>3
  <2>12. PICK f \in Int : f = e + 1 /\ e = f - 1
    BY <1>7
  <2>13. Longest(a, f)
    <3>1. ASSUME NEW m \in f .. Len(text), IsTokenTo(a, m) PROVE FALSE
      <4>1. m \in a - 1 .. Len(text) /\ e \in a + 1 .. m - 1
        BY <1>1, <1>2, <1>7, <2>12, <3>1
      <4>2. QuotedAt(a, m)
        BY <3>1, <4>1, QuoteOnly
      <4> QED BY <2>1, <4>1, <4>2 DEF QuotedAt
    <3> QED BY <3>1 DEF Longest
  <2>14. type \notin {"NONE", "EOF", "ERROR"}
    BY <2>11 DEF StringTypes
  <2>15. PICK t : t = S!Found(type, f)
    OBVIOUS
  <2>16. t.type = type /\ t.end = f
    BY <2>15 DEF S!Found
  <2>17. Matches(a, t) <=> S!Spelled(type, SubSeq(text, a, e))
    BY <2>12, <2>13, <2>14, <2>16 DEF Matches
  <2>18. Raw(a, t) <=> S!HasNewline(SubSeq(text, a, e))
    BY <2>11, <2>12, <2>16 DEF Raw
  <2>19. Delimited(a, t)
    BY <2>7, <2>11, <2>12, <2>16 DEF Delimited
  <2>20. S!Found(S!StringType(s), d) = t
    BY <2>2, <2>4, <2>12, <2>15, Zenon
  <2> QED BY <2>11, <2>17, <2>18, <2>19, <2>20, Zenon
<1> QED BY <1>12, <1>13

LEMMA MatchesToken ==
  ASSUME NEW i, NEW type, NEW e, NEW l, NEW u, u = S!Found(type, e), NEW t, t = S!makeToken(type, i, e, l)
  PROVE  /\ Matches(i, t) <=> Matches(i, u)
         /\ Raw(i, t) <=> Raw(i, u)
         /\ Delimited(i, t) <=> Delimited(i, u)
<1>1. u.type = type /\ u.end = e /\ t.type = type /\ t.end = e
  BY DEF S!Found, S!makeToken
<1>2. Matches(i, t) <=> Matches(i, u)
  BY <1>1 DEF Matches
<1>3. Raw(i, t) <=> Raw(i, u)
  BY <1>1 DEF Raw
<1>4. Delimited(i, t) <=> Delimited(i, u)
  BY <1>1 DEF Delimited
<1> QED BY <1>2, <1>3, <1>4

(* Only a quote begins a string. *)
LEMMA NoString ==
  ASSUME NEW a \in 1 .. Len(text) + 1, S!At(a) # Quote, Matches(a, S!TokenAt(a)), text \in Seq(S!Char),
         NEW t, t = S!TokenAt(a), t.end \in a .. Len(text) + 1
  PROVE  t.type \notin StringTypes
<1>1. SUFFICES ASSUME t.type \in StringTypes PROVE FALSE
  OBVIOUS
<1>2. t.type \notin {"NONE", "EOF", "ERROR"}
  BY <1>1 DEF StringTypes
<1>3. S!Spelled(t.type, SubSeq(text, a, t.end - 1))
  BY <1>2 DEF Matches
<1>4. S!IsDelimited(SubSeq(text, a, t.end - 1))
  BY <1>1, <1>3, SpelledIs DEF StringTypes, S!IsQuoted
<1>5. Within(a, t.end - 1)
  BY AtChar DEF Within
<1> QED BY <1>4, <1>5, QuotedBegins DEF Quote

(* What a call of scanToken returns is a token of the language reference, if *)
(* it is not a string with a newline in it.                                  *)
LEMMA ScanMatches ==
  ASSUME ReadInside(text), NEW i \in 1 .. Len(text) + 1, NEW l, NEW t, t = Scanned(i, l), PrefixRead(t.start)
  PROVE  (Matches(t.start, t) <=> ~Raw(t.start, t)) /\ Delimited(t.start, t)
<1>1. text \in Seq(S!Char) /\ (text # <<>> => text[Len(text)] # "\\")
  BY DEF ReadInside
<1>2. PICK n \in Nat : /\ n = Len(text) /\ \A k \in Int : k > n => S!At(k) = S!NUL
  BY <1>1, AtChar
<1>3. PICK blank : blank = S!skipWhitespace(i)
  OBVIOUS
<1>4. PICK a, s, found : a = blank.end /\ s = S!string(a + 1) /\ found = S!TokenAt(a)
  OBVIOUS
<1>5. PICK before : before = l + S!NewlinesIn(i, a)
  OBVIOUS
<1>6. PICK d : d = IF S!At(s.end) = S!NUL THEN s.end ELSE s.end + 1
  OBVIOUS
<1>7. t = IF blank.type = "UNTERMINATED_COMMENT" THEN S!makeToken("ERROR", a, a, before)
          ELSE IF S!At(a) = Quote
            THEN S!makeToken(S!StringType(s), a, d, before + s.lines)
          ELSE S!makeToken(found.type, a, found.end, before)
  BY <1>3, <1>4, <1>5, <1>6, Zenon DEF Scanned, Quote
<1>8. Blank(i, blank)
  BY <1>1, <1>3, SkipsBlanks
<1>9. a \in i .. n + 1
  BY <1>2, <1>4, <1>8 DEF Blank
<1>10. a \in 1 .. n + 1 /\ a \in Int
  BY <1>2, <1>9
<1>11. PICK type, e, x : t = S!makeToken(type, a, e, x)
  <2>1. CASE blank.type = "UNTERMINATED_COMMENT"
    BY <1>7, <2>1
  <2>2. CASE blank.type # "UNTERMINATED_COMMENT" /\ S!At(a) = Quote
    BY <1>7, <2>2
  <2>3. CASE blank.type # "UNTERMINATED_COMMENT" /\ S!At(a) # Quote
    BY <1>7, <2>3
  <2> QED BY <2>1, <2>2, <2>3
<1>12. t.start = a
  BY <1>11 DEF S!makeToken
<1>13. CASE blank.type = "UNTERMINATED_COMMENT"
  <2>1. t = S!makeToken("ERROR", a, a, before)
    BY <1>7, <1>13
  <2>2. a = n + 1
    <3>1. blank.type # "IGNORE"
      BY <1>13
    <3> QED BY <1>2, <1>4, <1>8, <3>1 DEF Blank
  <2>3. PICK q \in Int : q = a - 1 /\ q = n
    BY <1>2, <2>2
  <2>4. Longest(a, q)
    <3>1. ASSUME NEW m \in q .. Len(text), IsTokenTo(a, m) PROVE FALSE
      <4>1. m = n /\ m \in Int
        BY <1>2, <2>3, <3>1
      <4>2. Within(a, m)
        BY <1>1, <1>2, <2>2, <4>1 DEF Within
      <4>3. S!IsToken(SubSeq(text, a, m))
        BY <3>1 DEF IsTokenTo
      <4>4. a <= m
        BY <4>2, <4>3, TokenBegins
      <4> QED BY <1>2, <2>2, <4>1, <4>4
    <3> QED BY <3>1 DEF Longest
  <2>5. Matches(a, S!Found("ERROR", a))
    BY <2>3, <2>4, MatchesError
  <2>6. PICK u : u = S!Found("ERROR", a)
    OBVIOUS
  <2>7. Matches(a, u) /\ ~Raw(a, u) /\ Delimited(a, u)
    BY <2>5, <2>6 DEF Raw, Delimited, StringTypes, S!Found
  <2>8. Matches(a, t) /\ ~Raw(a, t) /\ Delimited(a, t)
    BY <2>1, <2>6, <2>7, MatchesToken, Zenon
  <2> QED BY <1>12, <2>8
<1>14. CASE blank.type # "UNTERMINATED_COMMENT" /\ S!At(a) = Quote
  <2>1. t = S!makeToken(S!StringType(s), a, d, before + s.lines)
    BY <1>7, <1>14
  <2>2. a \in 1 .. Len(text)
    <3>1. S!NUL # Quote
      BY DEF S!NUL, Quote
    <3>2. ~(a > n)
      BY <1>2, <1>10, <1>14, <3>1
    <3> QED BY <1>2, <1>10, <3>2
  <2>3. PICK u : u = S!Found(S!StringType(s), d)
    OBVIOUS
  <2>4. (Matches(a, u) <=> ~Raw(a, u)) /\ Delimited(a, u)
    BY <1>1, <1>4, <1>6, <1>14, <2>2, <2>3, StringMatches
  <2>5. (Matches(a, t) <=> Matches(a, u)) /\ (Raw(a, t) <=> Raw(a, u)) /\ (Delimited(a, t) <=> Delimited(a, u))
    BY <2>1, <2>3, MatchesToken, Zenon
  <2> QED BY <1>12, <2>4, <2>5
<1>15. CASE blank.type # "UNTERMINATED_COMMENT" /\ S!At(a) # Quote
  <2>1. t = S!makeToken(found.type, a, found.end, before)
    BY <1>7, <1>15
  <2>2. a \in 1 .. Len(text) + 1 /\ S!At(a) # Quote /\ PrefixRead(a)
    BY <1>2, <1>10, <1>12, <1>15
  <2>3. Matches(a, found)
    BY <1>1, <1>4, <2>2, TokenMatches
  <2>4. S!At(a) \notin S!Whitespace
    <3>1. blank.type = "IGNORE"
      BY <1>8, <1>15 DEF Blank
    <3> QED BY <1>4, <1>8, <3>1 DEF Blank
  <2>5. found.end \in a .. Len(text) + 1
    BY <1>4, <2>2, <2>4, TokenReads DEF Reads
  <2>6. found.type \notin StringTypes
    BY <1>1, <1>4, <2>2, <2>3, <2>5, NoString
  <2>7. t.type = found.type /\ t.end = found.end
    BY <2>1 DEF S!makeToken
  <2>8. Matches(a, t)
    BY <2>3, <2>7 DEF Matches
  <2>9. ~Raw(a, t) /\ Delimited(a, t)
    BY <2>6, <2>7 DEF Raw, Delimited
  <2> QED BY <1>12, <2>8, <2>9
<1> QED BY <1>13, <1>14, <1>15

(* Where the scanner is mistaken about a prefix, the token is no literal, or *)
(* the error one.                                                            *)
LEMMA BaseMissed ==
  ASSUME text \in Seq(S!Char), NEW i \in 1 .. Len(text), NEW base \in Bases, NEW type, NEW letter, NEW X,
         base = <<type, letter, X>>, S!At(i) \in S!Digit, S!At(i + 1) = letter, ~PrefixShows(i, letter, X),
         NEW j, j = i + 1
  PROVE  ~Matches(i, S!BaseNumber(type, X, j))
<1>1. PICK l \in Nat : l = Len(text) /\ \A k \in Int : k > l => S!At(k) = S!NUL
  BY AtChar
<1>2. i \in Int /\ i >= 1 /\ i <= l
  BY <1>1
<1>3. \/ type = "NUMBER_BIN" /\ letter = "b" /\ X = S!BinDigit
      \/ type = "NUMBER_HEX" /\ letter = "x" /\ X = S!HexDigit
  BY DEF Bases
<1>4. S!NUL \notin X /\ type \notin {"NONE", "EOF", "ERROR"} /\ type \in S!Types
  BY <1>3 DEF S!BinDigit, S!HexDigit, S!Digit, S!NUL, S!Types
<1>5. ~(S!At(i + 3) \in X <=> S!At(i) = "0" /\ S!At(i + 2) \in X)
  BY DEF PrefixShows
<1>6. ASSUME NEW u PROVE S!Spelled(type, u) <=> S!IsPrefixed(u, letter, X)
  BY <1>3, SpelledIs
<1>7. PICK s \in Int : s = i + 3
  BY <1>2
<1>8. j + 2 = s
  BY <1>2, <1>7
<1>9. CASE S!At(s) \in X
  <2>1. PICK e : e = S!After(X, s)
    OBVIOUS
  <2>2. PICK t : t = S!BaseNumber(type, X, j)
    OBVIOUS
  <2>3. t.type = type /\ t.end = e
    BY <1>8, <1>9, <2>1, <2>2 DEF S!BaseNumber, S!Found
  <2>4. ~(s > l)
    BY <1>1, <1>4, <1>7, <1>9
  <2>5. s \in 1 .. Len(text) + 1
    BY <1>1, <1>2, <1>7, <2>4
  <2>6. e \in s .. Len(text) + 1 /\ S!At(e) \notin X
    BY <1>4, <2>1, <2>5, AfterStops
  <2>7. e # s
    BY <1>9, <2>6
  <2>8. PICK q \in Int : q = e - 1
    BY <1>1, <1>7, <2>6
  <2>9. e \in Int /\ s <= q /\ q <= l /\ i + 2 \in i + 2 .. q
    BY <1>1, <1>2, <1>7, <2>6, <2>7, <2>8
  <2>10. Within(i, q)
    BY <1>1, <1>2, <1>7, <2>9 DEF Within
  <2>11. ASSUME Matches(i, t) PROVE FALSE
    <3>1. S!Spelled(type, SubSeq(text, i, q))
      BY <1>4, <2>3, <2>8, <2>11 DEF Matches
    <3>2. S!IsPrefixed(SubSeq(text, i, q), letter, X)
      BY <1>6, <3>1
    <3>3. Prefixed(i, q, letter, X)
      BY <2>10, <3>2, PrefixedIs
    <3>4. S!At(i) = "0" /\ S!At(i + 2) \in X
      BY <2>9, <3>3 DEF Prefixed, All
    <3> QED BY <1>5, <1>7, <1>9, <3>4
  <2> QED BY <2>2, <2>11
<1>10. CASE S!At(s) \notin X
  <2>1. S!At(i) = "0" /\ S!At(i + 2) \in X
    BY <1>5, <1>7, <1>10
  <2>2. PICK t : t = S!BaseNumber(type, X, j)
    OBVIOUS
  <2>3. t.type = "ERROR" /\ t.end = s
    BY <1>8, <1>10, <2>2 DEF S!BaseNumber, S!Found
  <2>4. PICK q \in Int : q = i + 2 /\ q = s - 1
    BY <1>2, <1>7
  <2>5. q <= l
    BY <1>1, <1>4, <2>1, <2>4
  <2>6. Within(i, q)
    BY <1>1, <1>2, <2>4, <2>5 DEF Within
  <2>7. Prefixed(i, q, letter, X)
    <3>1. \A k \in i + 2 .. q : k = i + 2
      BY <1>2, <2>4
    <3>2. q - i > 1
      BY <1>2, <2>4
    <3> QED BY <2>1, <3>1, <3>2 DEF Prefixed, All
  <2>8. S!IsPrefixed(SubSeq(text, i, q), letter, X)
    BY <2>6, <2>7, PrefixedIs
  <2>9. S!Spelled(type, SubSeq(text, i, q))
    BY <1>6, <2>8
  <2>10. IsTokenTo(i, q)
    BY <1>4, <2>9, Zenon DEF IsTokenTo, S!IsToken
  <2>11. ASSUME Matches(i, t) PROVE FALSE
    <3>1. Longest(i, q)
      BY <2>3, <2>4, <2>11 DEF Matches
    <3>2. q \in q .. Len(text)
      BY <1>1, <2>5
    <3> QED BY <2>10, <3>1, <3>2 DEF Longest
  <2> QED BY <2>2, <2>11
<1> QED BY <1>9, <1>10

LEMMA NumberMissed ==
  ASSUME text \in Seq(S!Char), NEW i \in 1 .. Len(text), ~PrefixRead(i)
  PROVE  S!At(i) \in S!Digit /\ ~Matches(i, S!number(i + 1)) /\ S!number(i + 1).type \notin StringTypes
<1>0. ASSUME NEW type \in {"NUMBER_BIN", "NUMBER_HEX"}, NEW X, NEW j PROVE S!BaseNumber(type, X, j).type \notin StringTypes
  <2>1. PICK t : t = S!BaseNumber(type, X, j)
    OBVIOUS
  <2>2. t.type \in {type, "ERROR"}
    BY <2>1 DEF S!BaseNumber, S!Found
  <2> QED BY <2>1, <2>2 DEF StringTypes
<1>1. CASE ~PrefixShows(i, "b", S!BinDigit)
  <2>1. S!At(i) \in S!Digit /\ S!At(i + 1) = "b"
    BY <1>1 DEF PrefixShows
  <2>2. S!number(i + 1) = S!BaseNumber("NUMBER_BIN", S!BinDigit, i + 1)
    BY <2>1, Zenon DEF S!number
  <2>3. PICK base \in Bases : base = <<"NUMBER_BIN", "b", S!BinDigit>>
    BY DEF Bases
  <2>4. ~Matches(i, S!BaseNumber("NUMBER_BIN", S!BinDigit, i + 1))
    BY <1>1, <2>1, <2>3, BaseMissed, Zenon
  <2>5. S!BaseNumber("NUMBER_BIN", S!BinDigit, i + 1).type \notin StringTypes
    BY <1>0
  <2> QED BY <2>1, <2>2, <2>4, <2>5, Zenon
<1>2. CASE ~PrefixShows(i, "x", S!HexDigit)
  <2>1. S!At(i) \in S!Digit /\ S!At(i + 1) = "x"
    BY <1>2 DEF PrefixShows
  <2>2. S!number(i + 1) = S!BaseNumber("NUMBER_HEX", S!HexDigit, i + 1)
    <3>1. S!At(i + 1) # "b"
      BY <2>1
    <3> QED BY <2>1, <3>1, Zenon DEF S!number
  <2>3. PICK base \in Bases : base = <<"NUMBER_HEX", "x", S!HexDigit>>
    BY DEF Bases
  <2>4. ~Matches(i, S!BaseNumber("NUMBER_HEX", S!HexDigit, i + 1))
    BY <1>2, <2>1, <2>3, BaseMissed, Zenon
  <2>5. S!BaseNumber("NUMBER_HEX", S!HexDigit, i + 1).type \notin StringTypes
    BY <1>0
  <2> QED BY <2>1, <2>2, <2>4, <2>5, Zenon
<1> QED BY <1>1, <1>2 DEF PrefixRead

LEMMA ScanMisses ==
  ASSUME ReadInside(text), NEW i \in 1 .. Len(text) + 1, NEW l, NEW t, t = Scanned(i, l), ~PrefixRead(t.start)
  PROVE  ~Matches(t.start, t) /\ t.type \notin StringTypes
<1>1. text \in Seq(S!Char) /\ (text # <<>> => text[Len(text)] # "\\")
  BY DEF ReadInside
<1>2. PICK n \in Nat : /\ n = Len(text) /\ \A k \in Int : k > n => S!At(k) = S!NUL
  BY <1>1, AtChar
<1>3. PICK blank : blank = S!skipWhitespace(i)
  OBVIOUS
<1>4. PICK a, s, found : a = blank.end /\ s = S!string(a + 1) /\ found = S!TokenAt(a)
  OBVIOUS
<1>5. PICK before : before = l + S!NewlinesIn(i, a)
  OBVIOUS
<1>6. PICK d : d = IF S!At(s.end) = S!NUL THEN s.end ELSE s.end + 1
  OBVIOUS
<1>7. t = IF blank.type = "UNTERMINATED_COMMENT" THEN S!makeToken("ERROR", a, a, before)
          ELSE IF S!At(a) = Quote
            THEN S!makeToken(S!StringType(s), a, d, before + s.lines)
          ELSE S!makeToken(found.type, a, found.end, before)
  BY <1>3, <1>4, <1>5, <1>6, Zenon DEF Scanned, Quote
<1>8. Blank(i, blank)
  BY <1>1, <1>3, SkipsBlanks
<1>9. a \in i .. n + 1
  BY <1>2, <1>4, <1>8 DEF Blank
<1>10. a \in 1 .. n + 1 /\ a \in Int
  BY <1>2, <1>9
<1>11. PICK type, e, x : t = S!makeToken(type, a, e, x)
  <2>1. CASE blank.type = "UNTERMINATED_COMMENT"
    BY <1>7, <2>1
  <2>2. CASE blank.type # "UNTERMINATED_COMMENT" /\ S!At(a) = Quote
    BY <1>7, <2>2
  <2>3. CASE blank.type # "UNTERMINATED_COMMENT" /\ S!At(a) # Quote
    BY <1>7, <2>3
  <2> QED BY <2>1, <2>2, <2>3
<1>12. t.start = a
  BY <1>11 DEF S!makeToken
<1>13. S!At(a) \in S!Digit
  <2>1. ~PrefixRead(a)
    BY <1>12
  <2> QED BY <2>1 DEF PrefixRead, PrefixShows
<1>14. S!At(a) # S!NUL /\ S!At(a) \notin S!Letter /\ S!At(a) # Quote
  BY <1>13 DEF S!Digit, S!NUL, S!Letter, Quote
<1>15. a <= n
  <2>1. ~(a > n)
    BY <1>2, <1>10, <1>14
  <2> QED BY <1>2, <1>10, <2>1
<1>16. blank.type # "UNTERMINATED_COMMENT"
  <2>1. SUFFICES ASSUME blank.type # "IGNORE" PROVE FALSE
    OBVIOUS
  <2>2. a = n + 1
    BY <1>2, <1>4, <1>8, <2>1 DEF Blank
  <2> QED BY <1>2, <1>15, <2>2
<1>17. t = S!makeToken(found.type, a, found.end, before)
  BY <1>7, <1>14, <1>16
<1>18. t.type = found.type /\ t.end = found.end
  BY <1>17 DEF S!makeToken
<1>19. S!TokenAt(a) = S!number(a + 1)
  BY <1>13, <1>14, Zenon DEF S!TokenAt
<1>20. ~Matches(a, found) /\ found.type \notin StringTypes
  <2>1. a \in 1 .. Len(text)
    BY <1>2, <1>10, <1>15
  <2>2. ~PrefixRead(a)
    BY <1>12
  <2>3. ~Matches(a, S!number(a + 1)) /\ S!number(a + 1).type \notin StringTypes
    BY <1>1, <2>1, <2>2, NumberMissed
  <2> QED BY <1>4, <1>19, <2>3
<1> QED BY <1>12, <1>18, <1>20 DEF Matches

(* The token is one of the language reference, except for a literal with the *)
(* prefix of a base of which the scanner sees another character and for a    *)
(* string with a newline in it.                                              *)
Matched ==
  /\ token.type # "NONE" =>
       (Matches(token.start, token) <=> PrefixRead(token.start) /\ ~Raw(token.start, token))
  /\ Delimited(token.start, token)

LEMMA StepMatched ==
  ASSUME Matched, ReadOK, ReplOK, [Next]_vars
  PROVE  Matched'
<1>1. ASSUME UNCHANGED scanner PROVE Matched'
  <2>1. text' = text /\ token' = token
    BY <1>1 DEF scanner
  <2> QED BY <2>1 DEF Matched, Matches, Longest, IsTokenTo, PrefixRead, PrefixShows, S!At, Raw, Delimited
<1>2. ASSUME NEW source, interpret(source) PROVE Matched'
  <2>1. token' = S!None
    BY <1>2 DEF interpret, S!scanner_init
  <2>2. S!None.type = "NONE"
    BY DEF S!None, S!makeToken
  <2> QED BY <2>1, <2>2 DEF Matched, Delimited, StringTypes
<1>3. CASE advance
  <2>1. S!scanToken
    BY <1>3 DEF advance
  <2>2. ReadInside(text) /\ current \in 1 .. Len(text) + 1
    BY DEF ReadOK, ScanOK, Positions
  <2>3. PICK t : t = Scanned(current, line)
    OBVIOUS
  <2>4. token' = t /\ text' = text
    BY <2>1, <2>3, ScanIs
  <2>5. PrefixRead(t.start) => (Matches(t.start, t) <=> ~Raw(t.start, t)) /\ Delimited(t.start, t)
    BY <2>2, <2>3, ScanMatches
  <2>6. ~PrefixRead(t.start) => ~Matches(t.start, t) /\ t.type \notin StringTypes
    BY <2>2, <2>3, ScanMisses
  <2>7. Delimited(t.start, t) /\ (Matches(t.start, t) <=> PrefixRead(t.start) /\ ~Raw(t.start, t))
    BY <2>5, <2>6 DEF Delimited
  <2> QED BY <2>4, <2>7
          DEF Matched, Matches, Longest, IsTokenTo, PrefixRead, PrefixShows, S!At, Raw, Delimited
<1>4. CASE interpretLines
  BY <1>2, <1>4 DEF interpretLines
<1>5. ASSUME NEW source \in Following, interpretFile(source) PROVE Matched'
  BY <1>2, <1>5 DEF interpretFile
<1>6. ASSUME NEW source, typeText(source) PROVE Matched'
  BY <1>1, <1>6 DEF typeText
<1>7. ASSUME NEW n, emitBytes(n) PROVE Matched'
  BY <1>1, <1>7 DEF emitBytes
<1>8. CASE tooManyConstants
  BY <1>1, <1>8 DEF tooManyConstants
<1>9. CASE string \/ number \/ function \/ instruction
  BY <1>7, <1>8, <1>9 DEF string, number, function, instruction
<1>10. CASE emitByte \/ endCompiler \/ finish \/ getLine \/ \E offset \in 0 .. Len(written) - 1 : runtimeError(offset)
  BY <1>1, <1>10 DEF emitByte, endCompiler, finish, getLine, runtimeError
<1>11. CASE \/ \E first \in {"\n", "/help", "/eval"} : typeOther(first)
            \/ readLine \/ \E chars \in Made : newString(chars)
  BY <1>1, <1>11 DEF typeOther, readLine, newString
<1>12. CASE UNCHANGED vars
  BY <1>1, <1>12 DEF vars
<1> QED BY <1>3, <1>4, <1>5, <1>6, <1>9, <1>10, <1>11, <1>12 DEF Next

(* The scanner's tokens are those of the language reference, as long as can  *)
(* be, and its errors are at what begins none, in texts of any length, with  *)
(* two exceptions, which are exact: of a literal that begins with the prefix *)
(* of a base the scanner sees the second character behind it, not the first, *)
(* and a string may go on over a newline.                                    *)
THEOREM TokensAreOfGrammar == Spec => []MismatchesKnown
<1>1. Init => Matched
  BY DEF Init, S!None, S!makeToken, Matched, Delimited, StringTypes
<1>2. Matched /\ ReadOK /\ ReplOK /\ [Next]_vars => Matched'
  BY StepMatched
<1>3. Matched => MismatchesKnown
  <2>1. TokensMatchGrammar <=> Matches(token.start, token)
    BY Zenon DEF TokensMatchGrammar, Matches, Longest, IsTokenTo, Lexeme, S!Lexeme
  <2>2. Raw(token.start, token) <=> token.type \in StringTypes /\ S!HasNewline(Lexeme(token))
    BY DEF Raw, Lexeme, S!Lexeme
  <2> QED BY <2>1, <2>2 DEF Matched, MismatchesKnown
<1> QED BY <1>1, <1>2, <1>3, TextsAreRead, ReplSound, PTL DEF Spec

----------------------------------------------------------------------------
(* What string literals mean. *)

(* How much of a literal's content is written: the characters at K, in order. *)
Upto(K, i) == Cardinality({j \in K : j <= i})
Denotes(w, K, u) ==
  /\ w \in Seq(S!Char) /\ IsFiniteSet(K) /\ K \subseteq Int /\ Cardinality(K) = Len(w)
  /\ \A i \in K : w[Upto(K, i)] = u[i]

LEMMA Before ==
  ASSUME NEW c \in S!Char, NEW w \in Seq(S!Char)
  PROVE  /\ <<c>> \o w \in Seq(S!Char) /\ Len(<<c>> \o w) = Len(w) + 1 /\ (<<c>> \o w)[1] = c
         /\ \A m \in 1 .. Len(w) : (<<c>> \o w)[m + 1] = w[m]
<1>1. PICK v : v = <<c>>
  OBVIOUS
<1>2. v \in Seq(S!Char) /\ Len(v) = 1 /\ v[1] = c
  BY <1>1
<1>3. v \o w \in Seq(S!Char) /\ Len(v \o w) = Len(v) + Len(w)
  BY <1>2, ConcatProperties
<1>4. Len(w) \in Nat
  BY LenProperties
<1>5. (v \o w)[1] = c
  BY <1>2, <1>4, ConcatProperties
<1>6. ASSUME NEW m \in 1 .. Len(w) PROVE (v \o w)[m + 1] = w[m]
  <2>1. PICK k \in Int : k = m + 1 /\ k - 1 = m /\ k \in 1 .. Len(v) + Len(w) /\ ~(k <= Len(v))
    BY <1>2, <1>4
  <2>2. \A j \in 1 .. Len(v) + Len(w) : (v \o w)[j] = IF j <= Len(v) THEN v[j] ELSE w[j - Len(v)]
    BY <1>2, ConcatProperties
  <2> QED BY <1>2, <2>1, <2>2
<1> QED BY <1>1, <1>2, <1>3, <1>4, <1>5, <1>6

LEMMA UptoIn ==
  ASSUME NEW K, IsFiniteSet(K), K \subseteq Int, NEW i \in K
  PROVE  /\ IsFiniteSet({j \in K : j <= i}) /\ Upto(K, i) \in 1 .. Cardinality(K)
<1>1. PICK D : D = {j \in K : j <= i}
  OBVIOUS
<1>2. D \in SUBSET K /\ i \in D
  BY <1>1
<1>3. IsFiniteSet(D) /\ Cardinality(D) <= Cardinality(K)
  BY <1>2, FS_Subset
<1>4. Cardinality(D) \in Nat /\ Cardinality(K) \in Nat
  BY <1>3, FS_CardinalityType
<1>5. Cardinality(D) # 0
  BY <1>2, <1>3, FS_EmptySet
<1>6. Upto(K, i) = Cardinality(D)
  BY <1>1 DEF Upto
<1> QED BY <1>1, <1>3, <1>4, <1>5, <1>6

LEMMA Prepend ==
  ASSUME NEW w, NEW K, NEW u, Denotes(w, K, u), NEW p \in Int, \A i \in K : p < i, NEW c \in S!Char, c = u[p]
  PROVE  Denotes(<<c>> \o w, K \cup {p}, u)
<1>1. /\ w \in Seq(S!Char) /\ IsFiniteSet(K) /\ K \subseteq Int /\ Cardinality(K) = Len(w)
      /\ \A i \in K : w[Upto(K, i)] = u[i]
  BY DEF Denotes
<1>2. PICK x : x = <<c>> \o w
  OBVIOUS
<1>3. /\ x \in Seq(S!Char) /\ Len(x) = Len(w) + 1 /\ x[1] = c
      /\ \A m \in 1 .. Len(w) : x[m + 1] = w[m]
  BY <1>1, <1>2, Before
<1>4. PICK N : N = K \cup {p}
  OBVIOUS
<1>5. p \notin K
  BY <1>1
<1>6. IsFiniteSet(N) /\ Cardinality(N) = Cardinality(K) + 1 /\ N \subseteq Int
  BY <1>1, <1>4, <1>5, FS_AddElement
<1>7. x[Upto(N, p)] = u[p]
  <2>1. {j \in N : j <= p} = {p}
    <3>1. \A j \in N : j <= p <=> j = p
      <4>1. ASSUME NEW j \in K PROVE ~(j <= p)
        <5>1. p < j /\ j \in Int
          BY <1>1
        <5> QED BY <5>1
      <4> QED BY <1>4, <1>5, <4>1
    <3>2. p \in N
      BY <1>4
    <3> QED BY <3>1, <3>2, Zenon
  <2>2. Upto(N, p) = 1
    BY <2>1, FS_Singleton DEF Upto
  <2> QED BY <1>3, <2>2
<1>8. ASSUME NEW i \in K PROVE x[Upto(N, i)] = u[i]
  <2>1. PICK D : D = {j \in K : j <= i}
    OBVIOUS
  <2>2. {j \in N : j <= i} = D \cup {p}
    BY <1>1, <1>4, <2>1
  <2>3. IsFiniteSet(D) /\ Upto(K, i) \in 1 .. Len(w) /\ Upto(K, i) = Cardinality(D) /\ p \notin D
    BY <1>1, <1>5, <2>1, UptoIn DEF Upto
  <2>4. Upto(N, i) = Cardinality(D) + 1
    BY <2>2, <2>3, FS_AddElement DEF Upto
  <2>5. PICK m \in 1 .. Len(w) : m = Upto(K, i) /\ Upto(N, i) = m + 1
    BY <2>3, <2>4
  <2> QED BY <1>1, <1>3, <2>5
<1>9. Denotes(x, N, u)
  BY <1>1, <1>3, <1>4, <1>6, <1>7, <1>8 DEF Denotes
<1> QED BY <1>2, <1>4, <1>9

LEMMA DenotesNothing ==
  ASSUME NEW u
  PROVE  Denotes(<<>>, {}, u)
<1>1. PICK w : w = <<>>
  OBVIOUS
<1>2. w \in Seq(S!Char) /\ Len(w) = 0
  BY <1>1, EmptySeq
<1>3. Denotes(w, {}, u)
  BY <1>2, FS_EmptySet DEF Denotes
<1> QED BY <1>1, <1>3

(* A backslash that an escape drops is all that does not stay. *)
Stays(u, i) == ~(u[i] = "\\" /\ ~S!IsTaken(u)[i] /\ u[i + 1] \in S!Escaped)
Meant(u, k, l) == {i \in k .. l - 1 : Stays(u, i)}

LEMMA InsideIs ==
  ASSUME NEW u \in Seq(S!Char), NEW l \in Nat, l = Len(u), l > 1
  PROVE  /\ Inside(u) \in Seq(S!Char) /\ Len(Inside(u)) = l - 2
         /\ \A i \in 1 .. l - 2 : Inside(u)[i] = u[i + 1]
<1>1. PICK w : w = Inside(u)
  OBVIOUS
<1>2. w = SubSeq(u, 2, l - 1)
  BY <1>1 DEF Inside
<1>3. w = [i \in 1 .. l - 2 |-> u[i + 1]]
  <2>1. SubSeq(u, 2, l - 1) = [i \in 1 .. (l - 1) - 2 + 1 |-> u[2 + i - 1]]
    BY DEF SubSeq
  <2>2. (l - 1) - 2 + 1 = l - 2
    OBVIOUS
  <2>3. \A i \in 1 .. l - 2 : 2 + i - 1 = i + 1
    OBVIOUS
  <2> QED BY <1>2, <2>1, <2>2, <2>3
<1>4. \A i \in 1 .. l - 2 : i + 1 \in 1 .. l
  OBVIOUS
<1>5. \A i \in 1 .. l : u[i] \in S!Char
  BY ElementOfSeq
<1>6. w \in [1 .. l - 2 -> S!Char]
  BY <1>3, <1>4, <1>5
<1>7. l - 2 \in Nat
  OBVIOUS
<1>8. w \in Seq(S!Char) /\ Len(w) = l - 2 /\ \A i \in 1 .. l - 2 : w[i] = u[i + 1]
  BY <1>3, <1>6, <1>7, IsASeq, LenProperties
<1> QED BY <1>1, <1>8

(* Without an escape all characters stay. *)
LEMMA AllDenoted ==
  ASSUME NEW u \in Seq(S!Char), NEW l \in Nat, l = Len(u), l > 1, ~S!HasEscape(u)
  PROVE  Denotes(Inside(u), Meant(u, 2, l), u)
<1>1. \A i \in 1 .. l : S!IsTaken(u)[i] <=> i > 2 /\ u[i - 1] = "\\" /\ ~S!IsTaken(u)[i - 1]
  BY MarksOf
<1>2. DOMAIN u = 1 .. l
  BY LenProperties
<1>3. \A i \in 1 .. l : ~(S!IsTaken(u)[i] /\ u[i] \in S!Escaped)
  BY <1>2, Zenon DEF S!HasEscape
<1>4. ASSUME NEW i \in 2 .. l - 1 PROVE Stays(u, i)
  <2>1. SUFFICES ASSUME u[i] = "\\", ~S!IsTaken(u)[i], u[i + 1] \in S!Escaped PROVE FALSE
    BY DEF Stays
  <2>2. PICK k \in 1 .. l : k = i + 1 /\ k - 1 = i /\ k > 2
    OBVIOUS
  <2>3. S!IsTaken(u)[k]
    BY <1>1, <2>1, <2>2
  <2> QED BY <1>3, <2>1, <2>2, <2>3
<1>5. PICK K : K = 2 .. l - 1
  OBVIOUS
<1>6. Meant(u, 2, l) = K
  BY <1>4, <1>5 DEF Meant
<1>7. PICK w : w = Inside(u)
  OBVIOUS
<1>8. w \in Seq(S!Char) /\ Len(w) = l - 2 /\ \A i \in 1 .. l - 2 : w[i] = u[i + 1]
  BY <1>7, InsideIs
<1>9. IsFiniteSet(K) /\ Cardinality(K) = l - 2 /\ K \subseteq Int
  <2>1. 2 \in Int /\ l - 1 \in Int
    OBVIOUS
  <2>2. IsFiniteSet(2 .. l - 1) /\ Cardinality(2 .. l - 1) = IF 2 > l - 1 THEN 0 ELSE l - 1 - 2 + 1
    BY <2>1, FS_Interval
  <2> QED BY <1>5, <2>2
<1>10. ASSUME NEW i \in K PROVE w[Upto(K, i)] = u[i]
  <2>1. i \in Int /\ 2 \in Int /\ 2 <= i /\ i <= l - 1
    BY <1>5
  <2>2. {j \in K : j <= i} = 2 .. i
    BY <1>5, <2>1
  <2>3. Cardinality(2 .. i) = IF 2 > i THEN 0 ELSE i - 2 + 1
    BY <2>1, FS_Interval
  <2>4. Upto(K, i) = i - 1
    <3>1. Upto(K, i) = Cardinality(2 .. i)
      BY <2>2, Zenon DEF Upto
    <3> QED BY <2>1, <2>3, <3>1
  <2>5. PICK m \in 1 .. l - 2 : m = i - 1 /\ m + 1 = i
    BY <2>1
  <2> QED BY <1>8, <2>4, <2>5
<1>11. Denotes(w, K, u)
  BY <1>8, <1>9, <1>10 DEF Denotes
<1> QED BY <1>6, <1>7, <1>11

(* unescaped and actualLength: how their loops go on. *)
Pair(c) == (IF c \in S!Escaped THEN <<>> ELSE <<"\\">>) \o <<c>>
Written(f, chars) ==
  f = [i \in 1 .. Len(chars) + 1 |->
        IF i <= Len(chars) /\ chars[i] # "\\" THEN <<chars[i]>> \o f[i + 1]
        ELSE IF i >= Len(chars) THEN <<>>
        ELSE (IF chars[i + 1] \in S!Escaped THEN <<>> ELSE <<"\\">>) \o <<chars[i + 1]>> \o f[i + 2]]
Counts(f, chars) ==
  f = [i \in 1 .. Len(chars) + 1 |->
        IF i > Len(chars) THEN 0
        ELSE IF chars[i] = "\\" /\ i < Len(chars) THEN PairLength(chars[i + 1]) + f[i + 2]
        ELSE 1 + f[i + 1]]

LEMMA PairTyped ==
  ASSUME NEW c \in S!Char
  PROVE  <<c>> \in Seq(S!Char) /\ Pair(c) \in Seq(S!Char)
<1>1. "\\" \in S!Char
  BY DEF S!Char, S!Escaped
<1>2. PICK b \in S!Char : b = "\\"
  BY <1>1
<1>3. PICK v, e : v = <<b>> /\ e = <<>>
  OBVIOUS
<1>4. v \in Seq(S!Char) /\ e \in Seq(S!Char) /\ <<c>> \in Seq(S!Char)
  BY <1>3
<1>5. Pair(c) = e \o <<c>> \/ Pair(c) = v \o <<c>>
  BY <1>2, <1>3, Zenon DEF Pair
<1>6. e \o <<c>> \in Seq(S!Char) /\ v \o <<c>> \in Seq(S!Char)
  BY <1>4, ConcatProperties
<1> QED BY <1>4, <1>5, <1>6

LEMMA WrittenExists ==
  ASSUME NEW chars \in Seq(S!Char)
  PROVE  \E f : Written(f, chars)
<1>1. PICK n \in Nat : n = Len(chars) /\ \A i \in 1 .. n : chars[i] \in S!Char
  BY LenProperties, ElementOfSeq
<1>2. PICK l \in Nat : l = n + 1
  OBVIOUS
<1>3. PICK V : V = Seq(S!Char)
  OBVIOUS
<1> DEFINE Ends(i) == ~(i <= n /\ chars[i] # "\\") /\ i >= n
           Piece(i) == IF chars[i] # "\\" THEN <<chars[i]>> ELSE Pair(chars[i + 1])
           To(i) == IF chars[i] # "\\" THEN i + 1 ELSE i + 2
<1>4. PICK B : B = {i \in 1 .. l : Ends(i)}
  OBVIOUS
<1>5. PICK v : v = [i \in 1 .. l |-> <<>>]
  OBVIOUS
<1>6. v \in [1 .. l -> V]
  BY <1>3, <1>5, EmptySeq
<1>7. PICK next : next = [i \in 1 .. l |-> To(i)]
  OBVIOUS
<1>8. next \in [1 .. l -> Int]
  BY <1>7
<1>9. ASSUME NEW i \in 1 .. l, i \notin B
      PROVE  To(i) \in i + 1 .. l /\ Piece(i) \in V
  <2>1. i <= n /\ (chars[i] # "\\" \/ i < n)
    BY <1>2, <1>4, <1>9
  <2>2. To(i) \in i + 1 .. l
    BY <1>2, <2>1
  <2>3. CASE chars[i] # "\\"
    <3>1. PICK c \in S!Char : c = chars[i]
      BY <1>1, <2>1
    <3>2. Piece(i) = <<c>>
      BY <2>3, <3>1
    <3> QED BY <1>3, <2>2, <3>2, PairTyped
  <2>4. CASE chars[i] = "\\"
    <3>1. i + 1 \in 1 .. n
      BY <2>1, <2>4
    <3>2. PICK c \in S!Char : c = chars[i + 1]
      BY <1>1, <3>1
    <3>3. Piece(i) = Pair(c)
      BY <2>4, <3>2
    <3> QED BY <1>3, <2>2, <3>3, PairTyped
  <2> QED BY <2>3, <2>4
<1>10. PICK G : G = [i \in 1 .. l |-> [r \in V |-> IF i \in B THEN r ELSE Piece(i) \o r]]
  OBVIOUS
<1>11. G \in [1 .. l -> [V -> V]]
  <2>1. ASSUME NEW i \in 1 .. l, NEW r \in V PROVE (IF i \in B THEN r ELSE Piece(i) \o r) \in V
    <3>1. CASE i \in B
      BY <3>1
    <3>2. CASE i \notin B
      <4>1. PICK w \in V : w = Piece(i)
        BY <1>9, <3>2
      <4>2. w \o r \in V
        BY <1>3, ConcatProperties
      <4> QED BY <3>2, <4>1, <4>2
    <3> QED BY <3>1, <3>2
  <2> HIDE DEF Piece
  <2> QED BY <1>10, <2>1
<1>12. Onward(l, B, next)
  <2>1. \A j \in 1 .. l : j \notin B => next[j] \in j + 1 .. l
    BY <1>7, <1>9
  <2> QED BY <2>1 DEF Onward
<1>13. PICK f : Backward(f, l, B, v, next, G) /\ f \in [1 .. l -> V]
  BY <1>6, <1>8, <1>11, <1>12, BackwardExists
<1>14. ASSUME NEW i \in 1 .. l
       PROVE  f[i] = IF i <= n /\ chars[i] # "\\" THEN <<chars[i]>> \o f[i + 1]
                     ELSE IF i >= n THEN <<>>
                     ELSE Pair(chars[i + 1]) \o f[i + 2]
  <2>1. CASE i \in B
    <3>1. f[i] = <<>>
      BY <1>5, <1>13, <2>1 DEF Backward
    <3>2. ~(i <= n /\ chars[i] # "\\") /\ i >= n
      BY <1>4, <2>1
    <3> QED BY <3>1, <3>2, Zenon
  <2>2. CASE i \notin B
    <3>0. To(i) \in i + 1 .. l
      BY <1>9, <2>2
    <3>1. To(i) \in 1 .. l
      <4> HIDE DEF To
      <4> QED BY <3>0
    <3>2. PICK r \in V : r = f[To(i)]
      BY <1>13, <3>1
    <3>3. f[i] = G[i][f[next[i]]]
      BY <1>13, <2>2 DEF Backward
    <3>4. next[i] = To(i)
      BY <1>7
    <3>5. G[i][r] = Piece(i) \o r
      BY <1>10, <2>2
    <3>6. f[i] = Piece(i) \o f[To(i)]
      BY <3>2, <3>3, <3>4, <3>5, Zenon
    <3>7. i <= n /\ (chars[i] = "\\" => ~(i >= n))
      BY <1>2, <1>4, <2>2
    <3> QED BY <3>6, <3>7, Zenon
  <2> QED BY <2>1, <2>2
<1>15. f = [i \in 1 .. l |-> f[i]]
  BY <1>13
<1>16. f = [i \in 1 .. l |-> IF i <= n /\ chars[i] # "\\" THEN <<chars[i]>> \o f[i + 1]
                             ELSE IF i >= n THEN <<>>
                             ELSE Pair(chars[i + 1]) \o f[i + 2]]
  BY <1>14, <1>15, Zenon
<1>17. Written(f, chars)
  BY <1>1, <1>2, <1>16, Zenon DEF Written, Pair
<1> QED BY <1>17

LEMMA WrittenIs ==
  ASSUME NEW chars \in Seq(S!Char), NEW n \in Nat, n = Len(chars)
  PROVE  \E f : /\ unescaped(chars) = f[1] /\ f[n + 1] = <<>>
                /\ \A i \in 1 .. n : chars[i] # "\\" => f[i] = <<chars[i]>> \o f[i + 1]
                /\ \A i \in 1 .. n - 1 : chars[i] = "\\" => f[i] = Pair(chars[i + 1]) \o f[i + 2]
<1>1. PICK f : f = CHOOSE g : Written(g, chars)
  OBVIOUS
<1>2. Written(f, chars)
  BY <1>1, WrittenExists
<1>3. unescaped(chars) = f[1]
  BY <1>1, Zenon DEF unescaped, Written
<1>4. f = [i \in 1 .. n + 1 |-> IF i <= n /\ chars[i] # "\\" THEN <<chars[i]>> \o f[i + 1]
                             ELSE IF i >= n THEN <<>>
                             ELSE Pair(chars[i + 1]) \o f[i + 2]]
  BY <1>2, Zenon DEF Written, Pair
<1>5. ASSUME NEW i \in 1 .. n + 1
      PROVE  f[i] = IF i <= n /\ chars[i] # "\\" THEN <<chars[i]>> \o f[i + 1]
                             ELSE IF i >= n THEN <<>>
                             ELSE Pair(chars[i + 1]) \o f[i + 2]
  BY <1>4, Zenon
<1>6. f[n + 1] = <<>>
  <2>1. n + 1 \in 1 .. n + 1 /\ ~(n + 1 <= n) /\ n + 1 >= n
    OBVIOUS
  <2> QED BY <1>5, <2>1, Zenon
<1>7. ASSUME NEW i \in 1 .. n, chars[i] # "\\" PROVE f[i] = <<chars[i]>> \o f[i + 1]
  <2>1. i \in 1 .. n + 1 /\ i <= n
    OBVIOUS
  <2> QED BY <1>5, <1>7, <2>1, Zenon
<1>8. ASSUME NEW i \in 1 .. n - 1, chars[i] = "\\" PROVE f[i] = Pair(chars[i + 1]) \o f[i + 2]
  <2>1. i \in 1 .. n + 1 /\ ~(i >= n)
    OBVIOUS
  <2> QED BY <1>5, <1>8, <2>1, Zenon
<1> QED BY <1>3, <1>6, <1>7, <1>8, Zenon

LEMMA CountsExist ==
  ASSUME NEW chars, NEW n \in Nat, n = Len(chars)
  PROVE  \E f : Counts(f, chars)
<1>2. PICK l \in Nat : l = n + 1
  OBVIOUS
<1> DEFINE Twice(i) == chars[i] = "\\" /\ i < n
           Piece(i) == IF Twice(i) THEN PairLength(chars[i + 1]) ELSE 1
           To(i) == IF Twice(i) THEN i + 2 ELSE i + 1
<1>4. PICK B : B = {i \in 1 .. l : i > n}
  OBVIOUS
<1>5. PICK v : v = [i \in 1 .. l |-> 0]
  OBVIOUS
<1>6. v \in [1 .. l -> Nat]
  BY <1>5
<1>7. PICK next : next = [i \in 1 .. l |-> To(i)]
  OBVIOUS
<1>8. next \in [1 .. l -> Int]
  BY <1>7
<1>9. ASSUME NEW i \in 1 .. l, i \notin B PROVE To(i) \in i + 1 .. l
  BY <1>2, <1>4, <1>9
<1>91. ASSUME NEW i PROVE Piece(i) \in Nat
  BY DEF PairLength
<1>10. PICK G : G = [i \in 1 .. l |-> [r \in Nat |-> Piece(i) + r]]
  OBVIOUS
<1>11. G \in [1 .. l -> [Nat -> Nat]]
  <2>1. ASSUME NEW i \in 1 .. l, NEW r \in Nat PROVE Piece(i) + r \in Nat
    BY <1>91
  <2> HIDE DEF Piece
  <2> QED BY <1>10, <2>1
<1>12. Onward(l, B, next)
  <2>1. \A j \in 1 .. l : j \notin B => next[j] \in j + 1 .. l
    BY <1>7, <1>9
  <2> QED BY <2>1 DEF Onward
<1>13. PICK f : Backward(f, l, B, v, next, G) /\ f \in [1 .. l -> Nat]
  BY <1>6, <1>8, <1>11, <1>12, BackwardExists
<1>14. ASSUME NEW i \in 1 .. l
       PROVE  f[i] = IF i > n THEN 0
                     ELSE IF chars[i] = "\\" /\ i < n THEN PairLength(chars[i + 1]) + f[i + 2]
                     ELSE 1 + f[i + 1]
  <2>1. CASE i \in B
    <3>1. f[i] = 0
      BY <1>5, <1>13, <2>1 DEF Backward
    <3>2. i > n
      BY <1>4, <2>1
    <3> QED BY <3>1, <3>2, Zenon
  <2>2. CASE i \notin B
    <3>0. To(i) \in i + 1 .. l
      BY <1>9, <2>2
    <3>1. To(i) \in 1 .. l
      <4> HIDE DEF To
      <4> QED BY <3>0
    <3>2. PICK r \in Nat : r = f[To(i)]
      BY <1>13, <3>1
    <3>3. f[i] = G[i][f[next[i]]]
      BY <1>13, <2>2 DEF Backward
    <3>4. next[i] = To(i)
      BY <1>7
    <3>5. G[i][r] = Piece(i) + r
      BY <1>10, <2>2
    <3>6. f[i] = Piece(i) + f[To(i)]
      BY <3>2, <3>3, <3>4, <3>5, Zenon
    <3>7. ~(i > n)
      BY <1>4, <2>2
    <3> QED BY <3>6, <3>7, Zenon
  <2> QED BY <2>1, <2>2
<1>15. f = [i \in 1 .. l |-> f[i]]
  BY <1>13
<1>16. f = [i \in 1 .. l |-> IF i > n THEN 0
                     ELSE IF chars[i] = "\\" /\ i < n THEN PairLength(chars[i + 1]) + f[i + 2]
                     ELSE 1 + f[i + 1]]
  BY <1>14, <1>15, Zenon
<1>17. Counts(f, chars)
  BY <1>2, <1>16, Zenon DEF Counts
<1> QED BY <1>17

LEMMA CountsAre ==
  ASSUME NEW chars, NEW n \in Nat, n = Len(chars)
  PROVE  \E f : /\ actualLength(chars) = f[1] /\ f[n + 1] = 0
                /\ \A i \in 1 .. n : chars[i] # "\\" => f[i] = 1 + f[i + 1]
                /\ \A i \in 1 .. n - 1 : chars[i] = "\\" => f[i] = PairLength(chars[i + 1]) + f[i + 2]
<1>1. PICK f : f = CHOOSE g : Counts(g, chars)
  OBVIOUS
<1>2. Counts(f, chars)
  BY <1>1, CountsExist
<1>3. actualLength(chars) = f[1]
  BY <1>1, Zenon DEF actualLength, Counts
<1>4. f = [i \in 1 .. n + 1 |-> IF i > n THEN 0
                     ELSE IF chars[i] = "\\" /\ i < n THEN PairLength(chars[i + 1]) + f[i + 2]
                     ELSE 1 + f[i + 1]]
  BY <1>2, Zenon DEF Counts
<1>5. ASSUME NEW i \in 1 .. n + 1
      PROVE  f[i] = IF i > n THEN 0
                     ELSE IF chars[i] = "\\" /\ i < n THEN PairLength(chars[i + 1]) + f[i + 2]
                     ELSE 1 + f[i + 1]
  BY <1>4, Zenon
<1>6. f[n + 1] = 0
  <2>1. n + 1 \in 1 .. n + 1 /\ n + 1 > n
    OBVIOUS
  <2> QED BY <1>5, <2>1, Zenon
<1>7. ASSUME NEW i \in 1 .. n, chars[i] # "\\" PROVE f[i] = 1 + f[i + 1]
  <2>1. i \in 1 .. n + 1 /\ ~(i > n)
    OBVIOUS
  <2> QED BY <1>5, <1>7, <2>1, Zenon
<1>8. ASSUME NEW i \in 1 .. n - 1, chars[i] = "\\" PROVE f[i] = PairLength(chars[i + 1]) + f[i + 2]
  <2>1. i \in 1 .. n + 1 /\ ~(i > n) /\ i < n
    OBVIOUS
  <2> QED BY <1>5, <1>8, <2>1, Zenon
<1> QED BY <1>3, <1>6, <1>7, <1>8, Zenon

LEMMA MeantFrom ==
  ASSUME NEW u, NEW l \in Int, NEW k \in Int, k < l
  PROVE  /\ \A i \in Meant(u, k + 1, l) : k < i
         /\ Stays(u, k) => Meant(u, k, l) = Meant(u, k + 1, l) \cup {k}
         /\ ~Stays(u, k) => Meant(u, k, l) = Meant(u, k + 1, l)
<1>1. ASSUME NEW i PROVE i \in k .. l - 1 <=> i \in k + 1 .. l - 1 \/ i = k
  OBVIOUS
<1>2. ASSUME NEW i, NEW j PROVE i \in Meant(u, j, l) <=> i \in j .. l - 1 /\ Stays(u, i)
  BY DEF Meant
<1>3. \A i \in Meant(u, k + 1, l) : k < i
  BY <1>2
<1>4. ASSUME Stays(u, k) PROVE Meant(u, k, l) = Meant(u, k + 1, l) \cup {k}
  <2>1. ASSUME NEW i PROVE i \in Meant(u, k, l) <=> i \in Meant(u, k + 1, l) \cup {k}
    BY <1>1, <1>2, <1>4, Zenon
  <2> QED BY <2>1, Zenon
<1>5. ASSUME ~Stays(u, k) PROVE Meant(u, k, l) = Meant(u, k + 1, l)
  <2>1. ASSUME NEW i PROVE i \in Meant(u, k, l) <=> i \in Meant(u, k + 1, l)
    BY <1>1, <1>2, <1>5, Zenon
  <2> QED BY <2>1, Zenon
<1> QED BY <1>3, <1>4, <1>5

(* A backslash that takes the next character. *)
Takes(u, k) == u[k] = "\\" /\ ~S!IsTaken(u)[k] /\ S!IsTaken(u)[k + 1]

PairAt(u, l, k, w, c) ==
  /\ l \in Int /\ k \in Int /\ k + 1 < l /\ c \in S!Char /\ c = u[k + 1] /\ Takes(u, k)
  /\ Denotes(w, Meant(u, k + 2, l), u)

LEMMA PairDenotes ==
  ASSUME NEW u, NEW l, NEW k, NEW w, NEW c, PairAt(u, l, k, w, c)
  PROVE  Denotes(Pair(c) \o w, Meant(u, k, l), u) /\ Len(Pair(c) \o w) = PairLength(c) + Len(w)
<1>a. /\ l \in Int /\ k \in Int /\ k + 1 < l /\ c \in S!Char /\ c = u[k + 1] /\ Takes(u, k)
      /\ Denotes(w, Meant(u, k + 2, l), u)
  BY DEF PairAt
<1>0. w \in Seq(S!Char) /\ Len(w) \in Nat
  BY <1>a, LenProperties DEF Denotes
<1>1. PICK p \in Int : p = k + 1 /\ p + 1 = k + 2 /\ p < l /\ k < l
  BY <1>a
<1>2. Stays(u, p)
  BY <1>a, <1>1 DEF Stays, Takes
<1>3. PICK x : x = <<c>> \o w
  OBVIOUS
<1>4. Denotes(x, Meant(u, p, l), u)
  <2>1. Denotes(w, Meant(u, p + 1, l), u)
    BY <1>a, <1>1
  <2>2. \A i \in Meant(u, p + 1, l) : p < i
    BY <1>a, <1>1, MeantFrom
  <2>3. Denotes(<<c>> \o w, Meant(u, p + 1, l) \cup {p}, u)
    BY <1>a, <1>1, <2>1, <2>2, Prepend
  <2>4. Meant(u, p, l) = Meant(u, p + 1, l) \cup {p}
    BY <1>a, <1>1, <1>2, MeantFrom
  <2> QED BY <1>a, <1>3, <2>3, <2>4
<1>5. x \in Seq(S!Char) /\ Len(x) = Len(w) + 1
  BY <1>a, <1>0, <1>3, Before
<1>6. <<c>> \in Seq(S!Char)
  BY <1>a, PairTyped
<1>7. PICK b \in S!Char : b = "\\"
  BY DEF S!Char, S!Escaped
<1>8. CASE c \in S!Escaped
  <2>1. PICK e : e = <<>>
    OBVIOUS
  <2>2. e \in Seq(S!Char)
    BY <1>a, <2>1
  <2>3. Pair(c) = e \o <<c>>
    BY <1>a, <1>8, <2>1, Zenon DEF Pair
  <2>4. e \o <<c>> = <<c>>
    BY <1>a, <1>6, <2>1, ConcatEmptySeq
  <2>5. Pair(c) \o w = x
    BY <1>a, <1>3, <2>3, <2>4
  <2>6. ~Stays(u, k)
    BY <1>a, <1>8 DEF Stays, Takes
  <2>7. Meant(u, k, l) = Meant(u, p, l)
    BY <1>a, <1>1, <2>6, MeantFrom
  <2>8. PairLength(c) = 1
    BY <1>a, <1>8 DEF PairLength
  <2> QED BY <1>a, <1>0, <1>4, <1>5, <2>5, <2>7, <2>8
<1>9. CASE c \notin S!Escaped
  <2>1. PICK v : v = <<b>>
    OBVIOUS
  <2>2. v \in Seq(S!Char)
    BY <1>a, <2>1
  <2>3. Pair(c) = v \o <<c>>
    BY <1>a, <1>7, <1>9, <2>1, Zenon DEF Pair
  <2>4. (v \o <<c>>) \o w = v \o x
    BY <1>a, <1>0, <1>3, <1>6, <2>2, ConcatThree
  <2>5. Pair(c) \o w = <<b>> \o x
    BY <1>a, <2>1, <2>3, <2>4
  <2>6. Stays(u, k)
    BY <1>a, <1>9 DEF Stays, Takes
  <2>7. \A i \in Meant(u, p, l) : k < i
    BY <1>a, <1>1, MeantFrom
  <2>8. Denotes(<<b>> \o x, Meant(u, p, l) \cup {k}, u)
    <3>1. b = u[k]
      BY <1>a, <1>7 DEF Takes
    <3> QED BY <1>a, <1>4, <2>7, <3>1, Prepend
  <2>9. Meant(u, k, l) = Meant(u, p, l) \cup {k}
    BY <1>a, <1>1, <2>6, MeantFrom
  <2>10. Len(<<b>> \o x) = Len(x) + 1
    BY <1>a, <1>5, Before
  <2>11. PairLength(c) = 2
    BY <1>a, <1>9 DEF PairLength
  <2> QED BY <1>a, <1>0, <1>5, <2>5, <2>8, <2>9, <2>10, <2>11
<1> QED BY <1>a, <1>8, <1>9

LEMMA EscapesDenote ==
  ASSUME NEW u \in Seq(S!Char), NEW l \in Nat, l = Len(u), l > 1, ~S!IsTaken(u)[l]
  PROVE  /\ Denotes(unescaped(Inside(u)), Meant(u, 2, l), u)
         /\ actualLength(Inside(u)) = Len(unescaped(Inside(u)))
<1>1. PICK t : t = S!IsTaken(u)
  OBVIOUS
<1>2. \A i \in 1 .. l : t[i] <=> i > 2 /\ u[i - 1] = "\\" /\ ~t[i - 1]
  <2>1. \A i \in 1 .. l : S!IsTaken(u)[i] <=> i > 2 /\ u[i - 1] = "\\" /\ ~S!IsTaken(u)[i - 1]
    BY MarksOf
  <2> QED BY <1>1, <2>1, Zenon
<1>0. PICK n \in Nat : n = l - 2
  OBVIOUS
<1>3. PICK chars : chars = Inside(u)
  OBVIOUS
<1>4. chars \in Seq(S!Char) /\ n = Len(chars) /\ \A i \in 1 .. n : chars[i] = u[i + 1]
  BY <1>0, <1>3, InsideIs
<1>5. PICK f : /\ unescaped(chars) = f[1] /\ f[n + 1] = <<>>
               /\ \A i \in 1 .. n : chars[i] # "\\" => f[i] = <<chars[i]>> \o f[i + 1]
               /\ \A i \in 1 .. n - 1 : chars[i] = "\\" => f[i] = Pair(chars[i + 1]) \o f[i + 2]
  BY <1>4, WrittenIs
<1>6. PICK g : /\ actualLength(chars) = g[1] /\ g[n + 1] = 0
               /\ \A i \in 1 .. n : chars[i] # "\\" => g[i] = 1 + g[i + 1]
               /\ \A i \in 1 .. n - 1 : chars[i] = "\\" => g[i] = PairLength(chars[i + 1]) + g[i + 2]
  BY <1>4, CountsAre
<1>7. PICK m \in Nat : m = n + 1 /\ l = m + 1
  BY <1>0
<1>8. \A i \in 1 .. l : u[i] \in S!Char
  BY ElementOfSeq
<1> DEFINE Right(k) == Denotes(f[k], Meant(u, k + 1, l), u) /\ g[k] = Len(f[k])
           T == {k \in 1 .. m : ~t[k + 1] => Right(k)}
<1>9. ASSUME NEW k \in 1 .. m, \A j \in k + 1 .. m : j \in T, ~t[k + 1] PROVE Right(k)
  <2>1. CASE k = m
    <3>1. PICK w : w = <<>>
      OBVIOUS
    <3>2. f[k] = w /\ g[k] = 0 /\ Len(w) = 0
      BY <1>5, <1>6, <1>7, <2>1, <3>1, EmptySeq
    <3>3. Meant(u, k + 1, l) = {}
      BY <1>7, <2>1 DEF Meant
    <3>4. Denotes(w, {}, u)
      BY <3>1, DenotesNothing
    <3> QED BY <3>2, <3>3, <3>4
  <2>2. CASE k # m /\ chars[k] # "\\"
    <3>1. k \in 1 .. n /\ k + 1 \in k + 1 .. m /\ k + 1 \in 1 .. l /\ k + 2 \in 1 .. l
      BY <1>7, <2>2
    <3>2. PICK c \in S!Char : c = chars[k] /\ c = u[k + 1]
      BY <1>4, <1>8, <3>1
    <3>3. PICK j \in Int : j = k + 1 /\ j + 1 = k + 2
      OBVIOUS
    <3>4. ~t[j + 1]
      <4>1. t[j + 1] <=> j + 1 > 2 /\ u[j + 1 - 1] = "\\" /\ ~t[j + 1 - 1]
        BY <1>2, <3>1, <3>3
      <4>2. j + 1 - 1 = j
        OBVIOUS
      <4>3. u[j] # "\\"
        BY <2>2, <3>2, <3>3
      <4> QED BY <4>1, <4>2, <4>3
    <3>5. j \in T
      BY <1>9, <3>1, <3>3
    <3>6. Denotes(f[j], Meant(u, j + 1, l), u) /\ g[j] = Len(f[j])
      BY <3>4, <3>5
    <3>7. PICK w : w = f[j]
      OBVIOUS
    <3>8. f[k] = <<c>> \o w /\ g[k] = 1 + Len(w)
      BY <1>5, <1>6, <2>2, <3>1, <3>2, <3>3, <3>6, <3>7
    <3>9. w \in Seq(S!Char) /\ Denotes(w, Meant(u, j + 1, l), u)
      BY <3>6, <3>7 DEF Denotes
    <3>10. Len(<<c>> \o w) = Len(w) + 1 /\ Len(w) \in Nat
      BY <3>9, Before, LenProperties
    <3>11. j < l /\ c = u[j] /\ Stays(u, j)
      <4>1. j < l /\ c = u[j]
        BY <1>7, <3>1, <3>2, <3>3
      <4> QED BY <2>2, <3>2, <4>1 DEF Stays
    <3>12. (\A i \in Meant(u, j + 1, l) : j < i) /\ Meant(u, j, l) = Meant(u, j + 1, l) \cup {j}
      BY <3>11, MeantFrom
    <3>13. Denotes(<<c>> \o w, Meant(u, j + 1, l) \cup {j}, u)
      BY <3>9, <3>11, <3>12, Prepend
    <3>14. PICK x : x = <<c>> \o w
      OBVIOUS
    <3>15. f[k] = x /\ g[k] = Len(x)
      BY <3>8, <3>10, <3>14
    <3>16. Denotes(x, Meant(u, k + 1, l), u)
      BY <3>3, <3>12, <3>13, <3>14
    <3> QED BY <3>15, <3>16
  <2>3. CASE k # m /\ chars[k] = "\\"
    <3>1. k \in 1 .. n
      BY <1>7, <2>3
    <3>2. PICK p \in Int : p = k + 1 /\ p - 1 = k
      OBVIOUS
    <3>3. u[p] = "\\" /\ ~t[p]
      BY <1>4, <1>9, <2>3, <3>1, <3>2
    <3>4. PICK q \in Int : q = p + 1 /\ q - 1 = p /\ q = k + 2
      BY <3>2
    <3>5. q \in 1 .. l /\ q > 2
      BY <1>7, <3>1, <3>4
    <3>6. t[q]
      BY <1>2, <3>3, <3>4, <3>5
    <3>7. q # l
      BY <1>1, <3>6
    <3>8. k \in 1 .. n - 1 /\ p \in 1 .. n /\ q \in k + 1 .. m /\ q + 1 \in 1 .. l /\ p + 1 < l
      BY <1>7, <3>1, <3>2, <3>4, <3>5, <3>7
    <3>9. PICK c \in S!Char : c = chars[p] /\ c = u[p + 1]
      BY <1>4, <1>8, <3>4, <3>5, <3>8
    <3>10. ~t[q + 1]
      <4>1. t[q + 1] <=> q + 1 > 2 /\ u[q + 1 - 1] = "\\" /\ ~t[q + 1 - 1]
        BY <1>2, <3>8
      <4>2. q + 1 - 1 = q
        OBVIOUS
      <4> QED BY <3>6, <4>1, <4>2
    <3>11. q \in T
      BY <1>9, <3>8
    <3>12. PICK w : w = f[q]
      OBVIOUS
    <3>13. Denotes(w, Meant(u, q + 1, l), u) /\ g[q] = Len(w)
      BY <3>10, <3>11, <3>12
    <3>14. f[k] = Pair(c) \o w /\ g[k] = PairLength(c) + Len(w)
      BY <1>5, <1>6, <2>3, <3>2, <3>4, <3>8, <3>9, <3>12, <3>13
    <3>15. q + 1 = p + 2 /\ Denotes(w, Meant(u, p + 2, l), u)
      BY <3>4, <3>13
    <3>16. Takes(u, p)
      BY <1>1, <3>3, <3>4, <3>6 DEF Takes
    <3>17. l \in Int /\ p \in Int /\ p + 1 < l /\ c \in S!Char /\ c = u[p + 1]
      BY <3>8, <3>9
    <3>22. PairAt(u, l, p, w, c)
      BY <3>15, <3>16, <3>17 DEF PairAt
    <3>18. Denotes(Pair(c) \o w, Meant(u, p, l), u) /\ Len(Pair(c) \o w) = PairLength(c) + Len(w)
      BY <3>22, PairDenotes
    <3>19. PICK x : x = Pair(c) \o w
      OBVIOUS
    <3>20. f[k] = x /\ g[k] = Len(x)
      BY <3>14, <3>18, <3>19
    <3>21. Denotes(x, Meant(u, k + 1, l), u)
      BY <3>2, <3>18, <3>19
    <3> QED BY <3>20, <3>21
  <2> QED BY <2>1, <2>2, <2>3
<1>10. \A k \in 1 .. m : k \in T
  <2>1. ASSUME NEW k \in 1 .. m, \A j \in k + 1 .. m : j \in T PROVE k \in T
    BY <1>9, <2>1
  <2> HIDE DEF T
  <2> QED BY <2>1, DownFromN
<1>11. ~t[2]
  <2>1. 2 \in 1 .. l
    OBVIOUS
  <2> QED BY <1>2, <2>1
<1>12. Right(1)
  <2>1. 1 \in 1 .. m
    BY <1>7
  <2>2. 1 \in T
    BY <1>10, <2>1
  <2>3. ~t[1 + 1] => Right(1)
    BY <2>2
  <2> QED BY <1>11, <2>3
<1> QED BY <1>3, <1>5, <1>6, <1>12

LEMMA LiteralMeans ==
  ASSUME ReadOK, previous.type \in StringTypes, Delimited(previous.start, previous)
  PROVE  StringsKeepMeaning
<1>1. text \in Seq(S!Char) /\ Positions
  BY DEF ReadOK, ScanOK, ReadInside
<1>2. PICK n \in Nat : n = Len(text)
  BY <1>1, AtChar
<1>3. PICK a, e : a = previous.start /\ e = previous.end
  OBVIOUS
<1>4. a \in 1 .. Len(text) + 1 /\ e \in a .. Len(text) + 1
  BY <1>1, <1>3 DEF Positions
<1>5. PICK q \in a - 1 .. Len(text) : q = e - 1
  BY <1>2, <1>4
<1>6. PICK u : u = Lexeme(previous)
  OBVIOUS
<1>7. u = SubSeq(text, a, q)
  BY <1>3, <1>5, <1>6 DEF Lexeme, S!Lexeme
<1>8. u \in Seq(S!Char)
  BY <1>1, <1>4, <1>7, PartIs
<1>9. PICK l \in Nat : l = Len(u)
  BY <1>8, LenProperties
<1>10. PICK type : type = previous.type
  OBVIOUS
<1>11. u = SubSeq(text, previous.start, previous.end - 1)
  BY <1>3, <1>5, <1>7
<1>12. S!IsDelimited(u) /\ (type = "STRING" => ~S!HasEscape(u))
  BY <1>10, <1>11 DEF Delimited
<1>13. l > 1 /\ ~S!IsTaken(u)[l]
  <2>1. l > 1 /\ {i \in 2 .. l : u[i] = Quote /\ ~S!IsTaken(u)[i]} = {l}
    BY <1>9, <1>12, Zenon DEF S!IsDelimited, Quote
  <2>2. l \in {i \in 2 .. l : u[i] = Quote /\ ~S!IsTaken(u)[i]}
    BY <2>1
  <2> QED BY <2>1, <2>2
<1>14. PICK K : K = Meant(u, 2, l)
  OBVIOUS
<1>15. PICK chars : chars = IF type = "STRING" THEN Inside(u) ELSE unescaped(Inside(u))
  OBVIOUS
<1>16. StringValue(previous)[2] = chars
  <2>1. StringValue(previous) = <<"string", chars>>
    BY <1>6, <1>10, <1>15 DEF StringValue
  <2> QED BY <2>1
<1>17. Denotes(chars, K, u) /\ (type # "STRING" => actualLength(Inside(u)) = Len(chars))
  <2>1. CASE type = "STRING"
    BY <1>8, <1>9, <1>12, <1>13, <1>14, <1>15, <2>1, AllDenoted
  <2>2. CASE type # "STRING"
    BY <1>8, <1>9, <1>13, <1>14, <1>15, <2>2, EscapesDenote
  <2> QED BY <2>1, <2>2
<1>18. Len(chars) = Cardinality(K)
  BY <1>17 DEF Denotes
<1>19. \A i \in K : chars[Cardinality({j \in K : j <= i})] = u[i]
  BY <1>17, Zenon DEF Denotes, Upto
<1>20. type = "STRING_ESCAPE" => actualLength(Inside(u)) = Cardinality(K)
  BY <1>17, <1>18
<1>21. K = {i \in 2 .. Len(u) - 1 : ~(u[i] = "\\" /\ ~S!IsTaken(u)[i] /\ u[i + 1] \in S!Escaped)}
  BY <1>9, <1>14, Zenon DEF Meant, Stays
<1> QED BY <1>6, <1>10, <1>16, <1>18, <1>19, <1>20, <1>21, Zenon DEF StringsKeepMeaning

(* The token behind, if a string, ends where it should. *)
Literal == Delimited(previous.start, previous)

LEMMA StepLiteral ==
  ASSUME Literal, Matched, [Next]_vars
  PROVE  Literal'
<1>1. ASSUME UNCHANGED <<text, previous>> PROVE Literal'
  BY <1>1 DEF Literal, Delimited
<1>2. ASSUME NEW source, interpret(source) PROVE Literal'
  <2>1. previous' = S!None
    BY <1>2 DEF interpret
  <2>2. S!None.type = "NONE"
    BY DEF S!None, S!makeToken
  <2> QED BY <2>1, <2>2 DEF Literal, Delimited, StringTypes
<1>3. CASE advance
  <2>1. text' = text /\ previous' \in {token, previous}
    BY <1>3 DEF advance, S!scanToken, Behind
  <2>2. CASE previous' = previous
    BY <1>1, <2>1, <2>2
  <2>3. CASE previous' = token
    BY <2>1, <2>3 DEF Literal, Matched, Delimited
  <2> QED BY <2>1, <2>2, <2>3
<1>4. CASE interpretLines
  BY <1>2, <1>4 DEF interpretLines
<1>5. ASSUME NEW source \in Following, interpretFile(source) PROVE Literal'
  BY <1>2, <1>5 DEF interpretFile
<1>6. ASSUME UNCHANGED scanner, UNCHANGED previous PROVE Literal'
  BY <1>1, <1>6 DEF scanner
<1>7. ASSUME NEW source, typeText(source) PROVE Literal'
  BY <1>6, <1>7 DEF typeText, parser
<1>8. ASSUME NEW n, emitBytes(n) PROVE Literal'
  BY <1>6, <1>8 DEF emitBytes
<1>9. CASE tooManyConstants
  BY <1>6, <1>9 DEF tooManyConstants
<1>10. CASE string \/ number \/ function \/ instruction
  BY <1>8, <1>9, <1>10 DEF string, number, function, instruction
<1>11. CASE emitByte \/ endCompiler \/ finish \/ getLine \/ \E offset \in 0 .. Len(written) - 1 : runtimeError(offset)
  BY <1>6, <1>11 DEF emitByte, endCompiler, finish, getLine, runtimeError, parser
<1>12. CASE \/ \E first \in {"\n", "/help", "/eval"} : typeOther(first)
            \/ readLine \/ \E chars \in Made : newString(chars)
  BY <1>6, <1>12 DEF typeOther, readLine, newString, parser
<1>13. CASE UNCHANGED vars
  BY <1>6, <1>13 DEF vars, parser
<1> QED BY <1>3, <1>4, <1>5, <1>7, <1>10, <1>11, <1>12, <1>13 DEF Next

(* Every string literal means its characters but for the backslashes that an *)
(* escape drops, in their order, and the memory counted for them is what is  *)
(* written, in literals of any length.                                       *)
THEOREM StringsMean == Spec => []StringsKeepMeaning
<1>1. Init => Matched /\ Literal
  BY DEF Init, S!None, S!makeToken, Matched, Literal, Delimited, StringTypes
<1>2. Matched /\ Literal /\ ReadOK /\ ReplOK /\ [Next]_vars => Matched' /\ Literal'
  BY StepMatched, StepLiteral
<1>3. Literal /\ ReadOK => StringsKeepMeaning
  <2>1. SUFFICES ASSUME Literal, ReadOK PROVE StringsKeepMeaning
    OBVIOUS
  <2>2. CASE previous.type \in StringTypes
    BY <2>1, <2>2, LiteralMeans DEF Literal
  <2>3. CASE previous.type \notin StringTypes
    BY <2>3, Zenon DEF StringsKeepMeaning
  <2> QED BY <2>2, <2>3
<1> QED BY <1>1, <1>2, <1>3, TextsAreRead, ReplSound, PTL DEF Spec
=============================================================================
