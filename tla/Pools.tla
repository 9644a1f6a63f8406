-------------------------------- MODULE Pools -------------------------------
(***************************************************************************)
(* The constant table that all functions share, and the pools of strings   *)
(* and numbers that keep it free of duplicates: makeConstant and           *)
(* emitConstantCommond of src/compiler.c, addConstant of src/vm.c,         *)
(* copyString of src/object.c, tableGetNumberEntry of src/table.c.         *)
(*                                                                         *)
(* A pool is a function; Table.tla says how such a table is stored.  The   *)
(* index of a constant starts at 0.  `operands` is what the code emitted   *)
(* so far refers to, with the value the compiler meant.  A value is        *)
(* <<kind, ...>>, of kind "string", "number" or "function".                *)
(***************************************************************************)
EXTENDS Naturals, Sequences

CONSTANTS UINT16_MAX,     \* the largest operand of an instruction
          NotAConstant,   \* VAL_BOOL(true), UINT32_MAX: in a pool only
          MaxConstants    \* bound of the model

VARIABLES
  strings,    \* vm.strings: for each interned string, the index of its constant
  numbers,    \* vm.numbers: for each number seen, the index of its constant
  constants,  \* vm.constants
  operands    \* [value, index] for each OP_CONSTANT or OP_CLOSURE emitted

vars == <<strings, numbers, constants, operands>>

Limit == UINT16_MAX + 1
With(pool, v, index) == [w \in DOMAIN pool \cup {v} |-> IF w = v THEN index ELSE pool[w]]

(* A mutant: interning forgets what is known of the string. *)
InternAgain(pool, v) == With(pool, v, NotAConstant)

(* copyString, getNumberEntryInPool: the value is in the pool afterwards. *)
Intern(pool, v) == IF v \in DOMAIN pool THEN pool ELSE With(pool, v, NotAConstant)

(* A mutant: the index of the constant is taken before it is written. *)
IndexTooSmall == IF constants = <<>> THEN 0 ELSE Len(constants) - 1

(* addConstant: the index it returns, and what it writes. *)
addConstant == Len(constants)

(* makeConstant of a string or number: the index in the pool, or a new one, *)
(* masked to 16 bits.                                                        *)
MaskedIndex == addConstant % Limit
PooledIndex(pool, v) ==
  IF v \in DOMAIN pool /\ pool[v] # NotAConstant THEN pool[v] ELSE MaskedIndex
IsNew(pool, v) == v \notin DOMAIN pool \/ pool[v] = NotAConstant

(* A mutant: the function's index is masked as well. *)
AlwaysFits(index) == TRUE

(* emitConstantCommond: an index that does not fit is a compile error. *)
Fits(index) == index <= UINT16_MAX
emitConstantCommond(v, index) ==
  operands' = IF Fits(index) THEN operands \cup {[value |-> v, index |-> index % Limit]} ELSE operands

----------------------------------------------------------------------------
Init ==
  /\ strings = [s \in {} |-> 0] /\ numbers = [n \in {} |-> 0]
  /\ constants = <<>>
  /\ operands = {}

(* A string is made at run time, by concatenation or charAt. *)
copyString(s) ==
  /\ strings' = Intern(strings, s)
  /\ UNCHANGED <<numbers, constants, operands>>

MakeConstant(v, new) ==
  /\ new => Len(constants) < MaxConstants
  /\ constants' = IF new THEN Append(constants, v) ELSE constants

emitString(s) ==
  /\ MakeConstant(s, IsNew(strings, s))
  /\ strings' = With(Intern(strings, s), s, PooledIndex(strings, s))
  /\ emitConstantCommond(s, PooledIndex(strings, s))
  /\ UNCHANGED numbers

emitNumber(n) ==
  /\ MakeConstant(n, IsNew(numbers, n))
  /\ numbers' = With(Intern(numbers, n), n, PooledIndex(numbers, n))
  /\ emitConstantCommond(n, PooledIndex(numbers, n))
  /\ UNCHANGED strings

(* A function is a new object each time: nothing is shared, nothing masked. *)
emitFunction(f) ==
  /\ MakeConstant(f, TRUE)
  /\ emitConstantCommond(f, addConstant)
  /\ UNCHANGED <<strings, numbers>>

----------------------------------------------------------------------------
(* Properties. *)

TypeOK ==
  /\ \A s \in DOMAIN strings : s[1] = "string" /\ strings[s] \in Nat \cup {NotAConstant}
  /\ \A n \in DOMAIN numbers : n[1] = "number" /\ numbers[n] \in Nat \cup {NotAConstant}
  /\ \A i \in 1 .. Len(constants) : constants[i][1] \in {"string", "number", "function"}
  /\ \A o \in operands : o = [value |-> o.value, index |-> o.index] /\ o.index \in 0 .. UINT16_MAX

(* Until the table has more constants than an operand can name, the operand *)
(* of every instruction ever emitted names the value that was compiled,     *)
(* whichever program or pool it came from (compiler.c:154).                 *)
OperandsDenote ==
  Len(constants) <= Limit => \A o \in operands : o.index < Len(constants) /\ constants[o.index + 1] = o.value

(* The operand of OP_CLOSURE names its function however many constants there *)
(* are: when its index does not fit, compiling fails (compiler.c:117).       *)
FunctionsDenote ==
  \A o \in operands :
    o.value[1] = "function" => o.index < Len(constants) /\ constants[o.index + 1] = o.value

(* "Constant deduplication: For both numbers and strings" (README.md:116).   *)
Deduplicated ==
  \A i, j \in DOMAIN constants : constants[i] = constants[j] /\ constants[i][1] # "function" => i = j
=============================================================================
