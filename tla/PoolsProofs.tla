---------------------------- MODULE PoolsProofs -----------------------------
(***************************************************************************)
(* Lemmas about the pools and the constant table, for any values and any   *)
(* size of operands: each action keeps the invariant PoolsInv, from which  *)
(* it follows that operands denote what was compiled and that no string or *)
(* number has two constants.  SessionProofs uses them.                     *)
(***************************************************************************)
EXTENDS Pools, SequenceTheorems, TLAPS

Sizes == UINT16_MAX \in Nat /\ NotAConstant \notin Nat

Indexed(pool, v) == v \in DOMAIN pool /\ pool[v] # NotAConstant

(* As long as every index fits, the pools point to their values. *)
Denotes(pool, table) ==
  Len(table) <= Limit =>
    \A v \in DOMAIN pool : Indexed(pool, v) => pool[v] < Len(table) /\ table[pool[v] + 1] = v

(* A string or number in the table has its index in its pool. *)
Recorded ==
  \A i \in 1 .. Len(constants) :
    \/ constants[i][1] = "function"
    \/ Indexed(strings, constants[i]) \/ Indexed(numbers, constants[i])

(* The table holds values of S: they come from recursive definitions and are *)
(* members of no set that could be given.                                    *)
PoolsInv(S) ==
  /\ TypeOK /\ constants \in Seq(S)
  /\ Denotes(strings, constants) /\ Denotes(numbers, constants)
  /\ Recorded
  /\ OperandsDenote /\ FunctionsDenote /\ Deduplicated

PoolsHold == \E S : PoolsInv(S)

----------------------------------------------------------------------------
LEMMA EmptyPoolsHold ==
  ASSUME Init
  PROVE  PoolsHold
<1>1. constants = <<>> /\ Len(constants) = 0 /\ constants \in Seq({})
  BY DEF Init
<1>2. DOMAIN strings = {} /\ DOMAIN numbers = {} /\ operands = {}
  BY DEF Init
<1>3. PoolsInv({})
  BY <1>1, <1>2 DEF PoolsInv, TypeOK, Denotes, Recorded, OperandsDenote, FunctionsDenote, Deduplicated
<1> QED BY <1>3 DEF PoolsHold

LEMMA MoreValues ==
  ASSUME NEW S, PoolsInv(S), NEW T, S \subseteq T
  PROVE  PoolsInv(T)
<1>1. Seq(S) \subseteq Seq(T)
  OBVIOUS
<1> QED BY <1>1 DEF PoolsInv

(* The table after a value is made a constant that may be new. *)
LEMMA Grown ==
  ASSUME NEW S, NEW table \in Seq(S), NEW v \in S
  PROVE  /\ Append(table, v) \in Seq(S)
         /\ Len(table) \in Nat
         /\ Len(Append(table, v)) = Len(table) + 1
         /\ Append(table, v)[Len(table) + 1] = v
         /\ \A i \in 1 .. Len(table) : Append(table, v)[i] = table[i]
BY AppendProperties

(* Making a constant of v keeps its pool, and any other, pointing right. *)
LEMMA OthersDenote ==
  ASSUME Sizes, NEW S, NEW table \in Seq(S), NEW v \in S, NEW pool,
         \A w \in DOMAIN pool : pool[w] \in Nat \cup {NotAConstant},
         Denotes(pool, table)
  PROVE  Denotes(pool, Append(table, v))
BY Grown DEF Sizes, Denotes, Indexed, Limit

LEMMA SmallModulus ==
  ASSUME NEW n \in Nat, NEW m \in Nat, n < m
  PROVE  n % m = n
OBVIOUS

LEMMA ModulusBound ==
  ASSUME NEW n \in Nat, NEW m \in Nat \ {0}
  PROVE  n % m \in 0 .. m - 1
OBVIOUS

LEMMA ItselfDenotes ==
  ASSUME Sizes, NEW S, NEW table \in Seq(S), NEW v \in S, NEW pool,
         \A w \in DOMAIN pool : pool[w] \in Nat \cup {NotAConstant},
         Denotes(pool, table)
  PROVE  Denotes(With(Intern(pool, v), v, Len(table) % Limit), Append(table, v))
<1> DEFINE index == Len(table) % Limit
           after == With(Intern(pool, v), v, index)
           grown == Append(table, v)
<1>1. /\ Len(table) \in Nat /\ Len(grown) = Len(table) + 1 /\ grown[Len(table) + 1] = v
      /\ Denotes(pool, grown)
  BY Grown, OthersDenote
<1>2. /\ DOMAIN after = DOMAIN pool \cup {v} /\ after[v] = index
      /\ \A w \in DOMAIN pool : w # v => after[w] = pool[w]
  BY DEF With, Intern
<1>3. Len(grown) <= Limit => index = Len(table)
  <2>1. Limit \in Nat /\ (Len(grown) <= Limit => Len(table) < Limit)
    BY <1>1 DEF Sizes, Limit
  <2>2. Len(table) < Limit => Len(table) % Limit = Len(table)
    BY <1>1, <2>1, SmallModulus, Zenon
  <2> QED BY <2>1, <2>2, Zenon
<1> HIDE DEF index, after, grown
<1>4. Denotes(after, grown)
  BY <1>1, <1>2, <1>3 DEF Denotes, Indexed
<1> QED BY <1>4 DEF after, grown, index

----------------------------------------------------------------------------
(* What makeConstant of a string or number does, whichever pool it uses. *)
Pooled(pool, after, v) ==
  /\ after = With(Intern(pool, v), v, PooledIndex(pool, v))
  /\ MakeConstant(v, IsNew(pool, v))
  /\ emitConstantCommond(v, PooledIndex(pool, v))

(* A value without a constant: it is written behind all others. *)
LEMMA NewConstant ==
  ASSUME Sizes, NEW S, PoolsInv(S), NEW v \in S, NEW pool, NEW after,
         \A w \in DOMAIN pool : pool[w] \in Nat \cup {NotAConstant},
         Denotes(pool, constants),
         Pooled(pool, after, v), IsNew(pool, v)
  PROVE  /\ constants' = Append(constants, v)
         /\ PooledIndex(pool, v) = Len(constants) % Limit
         /\ Denotes(after, Append(constants, v))
         /\ Indexed(after, v)
<1>1. constants' = Append(constants, v) /\ PooledIndex(pool, v) = Len(constants) % Limit
  BY DEF Pooled, MakeConstant, PooledIndex, IsNew, MaskedIndex, addConstant
<1>2. constants \in Seq(S) /\ Len(constants) \in Nat
  BY DEF PoolsInv
<1>3. Denotes(after, Append(constants, v))
  BY <1>1, <1>2, ItselfDenotes DEF Pooled
<1>4. Len(constants) % Limit \in Nat
  <2>1. Limit \in Nat \ {0}
    BY DEF Sizes, Limit
  <2>2. Len(constants) % Limit \in 0 .. Limit - 1
    BY <1>2, <2>1, ModulusBound, Zenon
  <2> QED BY <2>1, <2>2
<1>5. Indexed(after, v)
  BY <1>1, <1>4 DEF Pooled, Indexed, Sizes, With, Intern
<1> QED BY <1>1, <1>3, <1>5

(* A value that has its constant: nothing is written, its index is used. *)
LEMMA OldConstant ==
  ASSUME NEW S, PoolsInv(S), NEW v, NEW pool, NEW after,
         Denotes(pool, constants),
         Pooled(pool, after, v), ~IsNew(pool, v)
  PROVE  /\ constants' = constants
         /\ PooledIndex(pool, v) = pool[v] /\ Indexed(pool, v)
         /\ DOMAIN after = DOMAIN pool
         /\ \A w \in DOMAIN pool : after[w] = pool[w]
<1>1. /\ constants' = constants /\ PooledIndex(pool, v) = pool[v] /\ Indexed(pool, v)
  BY DEF Pooled, MakeConstant, PooledIndex, IsNew, Indexed
<1>2. /\ DOMAIN after = DOMAIN pool \cup {v} /\ after[v] = pool[v]
      /\ \A w \in DOMAIN pool : w # v => after[w] = pool[w]
  BY <1>1 DEF Pooled, With, Intern
<1> QED BY <1>1, <1>2 DEF Indexed

----------------------------------------------------------------------------
(* What the invariant says of the table and of the code emitted, apart from *)
(* the pools.                                                               *)
TableOK(S) ==
  /\ constants \in Seq(S)
  /\ \A i \in 1 .. Len(constants) : constants[i][1] \in {"string", "number", "function"}
  /\ \A o \in operands : o = [value |-> o.value, index |-> o.index] /\ o.index \in 0 .. UINT16_MAX
  /\ OperandsDenote /\ FunctionsDenote /\ Deduplicated

LEMMA TableGrows ==
  ASSUME Sizes, NEW S, PoolsInv(S), NEW v \in S, NEW index \in Nat,
         constants' = Append(constants, v), emitConstantCommond(v, index),
         v[1] \in {"string", "number", "function"},
         v[1] = "function" => index = Len(constants),
         v[1] # "function" => /\ index = Len(constants) % Limit
                              /\ \A i \in 1 .. Len(constants) : constants[i] # v
  PROVE  TableOK(S)'
<1> DEFINE new == [value |-> v, index |-> index % Limit]
<1>1. TableOK(S)
  BY DEF PoolsInv, TypeOK, TableOK
<1>2. /\ constants' \in Seq(S) /\ Len(constants) \in Nat /\ Len(constants') = Len(constants) + 1
      /\ constants'[Len(constants) + 1] = v
      /\ \A i \in 1 .. Len(constants) : constants'[i] = constants[i]
  <2>1. constants \in Seq(S)
    BY <1>1 DEF TableOK
  <2> QED BY <2>1, Grown
<1>3. Limit \in Nat /\ Limit = UINT16_MAX + 1 /\ UINT16_MAX \in Nat
  BY DEF Sizes, Limit
<1>4. /\ operands' \subseteq operands \cup {new}
      /\ new \in operands' \ operands => index <= UINT16_MAX
  BY DEF emitConstantCommond, Fits
<1>5. index <= UINT16_MAX => index % Limit = index
  <2>1. index <= UINT16_MAX => index < Limit
    BY <1>3
  <2> QED BY <1>3, <2>1, SmallModulus, Zenon
<1>6. index % Limit \in 0 .. UINT16_MAX
  <2>1. Limit \in Nat \ {0} /\ Limit - 1 = UINT16_MAX
    BY <1>3
  <2>2. index % Limit \in 0 .. Limit - 1
    BY <2>1, ModulusBound, Zenon
  <2> QED BY <2>1, <2>2, Zenon
<1>7. new.value = v /\ new.index = index % Limit
  OBVIOUS
<1> HIDE DEF new
<1>8. ASSUME NEW o \in operands'
      PROVE  o = [value |-> o.value, index |-> o.index] /\ o.index \in 0 .. UINT16_MAX
  BY <1>1, <1>4, <1>6, <1>7 DEF TableOK, new
<1>9. \A i \in 1 .. Len(constants') : constants'[i][1] \in {"string", "number", "function"}
  <2>1. \A i \in 1 .. Len(constants) : constants[i][1] \in {"string", "number", "function"}
    BY <1>1 DEF TableOK
  <2>2. \A i \in 1 .. Len(constants') : i \in 1 .. Len(constants) \/ i = Len(constants) + 1
    BY <1>2
  <2> QED BY <1>2, <2>1, <2>2
<1>10. OperandsDenote'
  <2>1. ASSUME Len(constants') <= Limit, NEW o \in operands'
        PROVE  o.index < Len(constants') /\ constants'[o.index + 1] = o.value
    <3>1. CASE o \in operands
      <4>1. o.index \in Nat /\ o.index < Len(constants) /\ constants[o.index + 1] = o.value
        BY <1>1, <1>2, <1>3, <2>1, <3>1 DEF TableOK, OperandsDenote
      <4> QED BY <1>2, <4>1
    <3>2. CASE o = new
      <4>1. Len(constants) < Limit
        BY <1>2, <1>3, <2>1
      <4>2. Len(constants) % Limit = Len(constants)
        BY <1>2, <1>3, <4>1, SmallModulus, Zenon
      <4>3. o.index = Len(constants)
        BY <3>2, <4>1, <4>2, <1>2, <1>3, <1>5, <1>7
      <4> QED BY <1>2, <1>7, <3>2, <4>3
    <3> QED BY <1>4, <3>1, <3>2
  <2> QED BY <2>1 DEF OperandsDenote, Limit
<1>11. FunctionsDenote'
  <2>1. ASSUME NEW o \in operands', o.value[1] = "function"
        PROVE  o.index < Len(constants') /\ constants'[o.index + 1] = o.value
    <3>1. CASE o \in operands
      <4>1. o.index \in Nat /\ o.index < Len(constants) /\ constants[o.index + 1] = o.value
        BY <1>1, <2>1, <3>1 DEF TableOK, FunctionsDenote
      <4> QED BY <1>2, <4>1
    <3>2. CASE o \notin operands
      <4>1. o = new /\ index <= UINT16_MAX /\ index = Len(constants)
        BY <1>4, <1>7, <2>1, <3>2
      <4> QED BY <1>2, <1>5, <1>7, <4>1
    <3> QED BY <3>1, <3>2
  <2> QED BY <2>1 DEF FunctionsDenote
<1>12. Deduplicated'
  <2>1. ASSUME NEW i \in 1 .. Len(constants'), NEW j \in 1 .. Len(constants'),
               constants'[i] = constants'[j], constants'[i][1] # "function"
        PROVE  i = j
    <3>1. /\ i \in 1 .. Len(constants) \/ i = Len(constants) + 1
          /\ j \in 1 .. Len(constants) \/ j = Len(constants) + 1
      BY <1>2
    <3>2. CASE i \in 1 .. Len(constants) /\ j \in 1 .. Len(constants)
      <4>1. DOMAIN constants = 1 .. Len(constants)
        BY <1>1 DEF TableOK
      <4> QED BY <1>1, <1>2, <2>1, <3>2, <4>1 DEF TableOK, Deduplicated
    <3> QED BY <1>2, <2>1, <3>1, <3>2
  <2>2. DOMAIN constants' = 1 .. Len(constants')
    BY <1>2
  <2> QED BY <2>1, <2>2 DEF Deduplicated
<1> QED BY <1>2, <1>8, <1>9, <1>10, <1>11, <1>12 DEF TableOK

LEMMA TableStays ==
  ASSUME Sizes, NEW S, PoolsInv(S), NEW v, NEW index \in Nat,
         constants' = constants, emitConstantCommond(v, index),
         v[1] # "function",
         Len(constants) <= Limit => index < Len(constants) /\ constants[index + 1] = v
  PROVE  TableOK(S)'
<1> DEFINE new == [value |-> v, index |-> index % Limit]
<1>1. TableOK(S)
  BY DEF PoolsInv, TypeOK, TableOK
<1>2. Limit \in Nat /\ Limit = UINT16_MAX + 1 /\ UINT16_MAX \in Nat
  BY DEF Sizes, Limit
<1>3. operands' \subseteq operands \cup {new}
  BY DEF emitConstantCommond
<1>4. index % Limit \in 0 .. UINT16_MAX /\ (index < Limit => index % Limit = index)
  <2>1. Limit \in Nat \ {0} /\ Limit - 1 = UINT16_MAX
    BY <1>2
  <2>2. index % Limit \in 0 .. Limit - 1
    BY <2>1, ModulusBound, Zenon
  <2>3. index < Limit => index % Limit = index
    BY <1>2, SmallModulus, Zenon
  <2> QED BY <2>1, <2>2, <2>3, Zenon
<1>5. new.value = v /\ new.index = index % Limit
  OBVIOUS
<1> HIDE DEF new
<1>6. ASSUME NEW o \in operands'
      PROVE  o = [value |-> o.value, index |-> o.index] /\ o.index \in 0 .. UINT16_MAX
  BY <1>1, <1>3, <1>4, <1>5 DEF TableOK, new
<1>7. OperandsDenote'
  <2>1. ASSUME Len(constants) <= Limit, NEW o \in operands'
        PROVE  o.index < Len(constants) /\ constants[o.index + 1] = o.value
    <3>1. CASE o \in operands
      BY <1>1, <2>1, <3>1 DEF TableOK, OperandsDenote
    <3>2. CASE o = new
      <4>1. Len(constants) \in Nat
        BY <1>1 DEF TableOK
      <4>2. o.index = index
        BY <1>2, <1>4, <1>5, <2>1, <3>2, <4>1
      <4> QED BY <1>5, <2>1, <3>2, <4>2
    <3> QED BY <1>3, <3>1, <3>2
  <2> QED BY <2>1 DEF OperandsDenote, Limit
<1>8. FunctionsDenote'
  BY <1>1, <1>3, <1>5 DEF TableOK, FunctionsDenote
<1> QED BY <1>1, <1>6, <1>7, <1>8 DEF TableOK, Deduplicated

LEMMA StringKeeps ==
  ASSUME Sizes, NEW S, PoolsInv(S), NEW s \in S, s[1] = "string", emitString(s)
  PROVE  PoolsInv(S)'
<1>1. /\ constants \in Seq(S)
      /\ \A w \in DOMAIN strings : w[1] = "string" /\ strings[w] \in Nat \cup {NotAConstant}
      /\ \A n \in DOMAIN numbers : n[1] = "number" /\ numbers[n] \in Nat \cup {NotAConstant}
      /\ Denotes(strings, constants) /\ Denotes(numbers, constants) /\ Recorded
  BY DEF PoolsInv, TypeOK
<1>2. Pooled(strings, strings', s) /\ numbers' = numbers
  BY DEF emitString, Pooled
<1>3. /\ DOMAIN strings' = DOMAIN strings \cup {s} /\ strings'[s] = PooledIndex(strings, s)
      /\ \A w \in DOMAIN strings : w # s => strings'[w] = strings[w]
  BY <1>2 DEF Pooled, With, Intern
<1>4. emitConstantCommond(s, PooledIndex(strings, s))
  BY <1>2 DEF Pooled
<1>5. CASE IsNew(strings, s)
  <2>1. /\ constants' = Append(constants, s)
        /\ PooledIndex(strings, s) = Len(constants) % Limit
        /\ Denotes(strings', Append(constants, s))
        /\ Indexed(strings', s)
    BY <1>1, <1>2, <1>5, NewConstant
  <2>2. PooledIndex(strings, s) \in Nat
    BY <1>1, <2>1 DEF Sizes, Limit
  <2>3. TableOK(S)'
    <3>1. \A i \in 1 .. Len(constants) : constants[i] # s
      BY <1>1, <1>5 DEF Recorded, Indexed, IsNew
    <3> QED BY <1>4, <2>1, <2>2, <3>1, TableGrows
  <2>4. Denotes(numbers, Append(constants, s))
    BY <1>1, OthersDenote
  <2>5. Recorded'
    <3>1. /\ Len(constants) \in Nat /\ Len(constants') = Len(constants) + 1 /\ constants'[Len(constants) + 1] = s
          /\ \A i \in 1 .. Len(constants) : constants'[i] = constants[i]
      BY <1>1, <2>1, Grown
    <3>2. \A w : Indexed(strings, w) => Indexed(strings', w)
      BY <1>3, <1>5 DEF Indexed, IsNew
    <3>3. \A i \in 1 .. Len(constants') : i \in 1 .. Len(constants) \/ i = Len(constants) + 1
      BY <3>1
    <3> QED BY <1>1, <1>2, <2>1, <3>1, <3>2, <3>3 DEF Recorded, Indexed
  <2>6. \A w \in DOMAIN strings' : w[1] = "string" /\ strings'[w] \in Nat \cup {NotAConstant}
    BY <1>1, <1>3, <2>2
  <2>7. /\ \A w \in DOMAIN numbers' : w[1] = "number" /\ numbers'[w] \in Nat \cup {NotAConstant}
        /\ Denotes(strings, constants)' /\ Denotes(numbers, constants)'
    BY <1>1, <1>2, <2>1, <2>4
  <2> QED BY <2>3, <2>5, <2>6, <2>7 DEF PoolsInv, TypeOK, TableOK
<1>6. CASE ~IsNew(strings, s)
  <2>1. /\ constants' = constants
        /\ PooledIndex(strings, s) = strings[s] /\ Indexed(strings, s)
        /\ DOMAIN strings' = DOMAIN strings
        /\ \A w \in DOMAIN strings : strings'[w] = strings[w]
    BY <1>1, <1>2, <1>6, OldConstant
  <2>2. /\ PooledIndex(strings, s) \in Nat
        /\ Len(constants) <= Limit =>
             PooledIndex(strings, s) < Len(constants) /\ constants[PooledIndex(strings, s) + 1] = s
    BY <1>1, <2>1 DEF Indexed, Denotes
  <2>3. TableOK(S)'
    BY <1>4, <2>1, <2>2, TableStays
  <2> QED BY <1>1, <1>2, <2>1, <2>3 DEF PoolsInv, TypeOK, TableOK, Denotes, Recorded, Indexed
<1> QED BY <1>5, <1>6

LEMMA NumberKeeps ==
  ASSUME Sizes, NEW S, PoolsInv(S), NEW n \in S, n[1] = "number", emitNumber(n)
  PROVE  PoolsInv(S)'
<1>1. /\ constants \in Seq(S)
      /\ \A w \in DOMAIN strings : w[1] = "string" /\ strings[w] \in Nat \cup {NotAConstant}
      /\ \A w \in DOMAIN numbers : w[1] = "number" /\ numbers[w] \in Nat \cup {NotAConstant}
      /\ Denotes(strings, constants) /\ Denotes(numbers, constants) /\ Recorded
  BY DEF PoolsInv, TypeOK
<1>2. Pooled(numbers, numbers', n) /\ strings' = strings
  BY DEF emitNumber, Pooled
<1>3. /\ DOMAIN numbers' = DOMAIN numbers \cup {n} /\ numbers'[n] = PooledIndex(numbers, n)
      /\ \A w \in DOMAIN numbers : w # n => numbers'[w] = numbers[w]
  BY <1>2 DEF Pooled, With, Intern
<1>4. emitConstantCommond(n, PooledIndex(numbers, n))
  BY <1>2 DEF Pooled
<1>5. CASE IsNew(numbers, n)
  <2>1. /\ constants' = Append(constants, n)
        /\ PooledIndex(numbers, n) = Len(constants) % Limit
        /\ Denotes(numbers', Append(constants, n))
        /\ Indexed(numbers', n)
    BY <1>1, <1>2, <1>5, NewConstant
  <2>2. PooledIndex(numbers, n) \in Nat
    BY <1>1, <2>1 DEF Sizes, Limit
  <2>3. TableOK(S)'
    <3>1. \A i \in 1 .. Len(constants) : constants[i] # n
      BY <1>1, <1>5 DEF Recorded, Indexed, IsNew
    <3> QED BY <1>4, <2>1, <2>2, <3>1, TableGrows
  <2>4. Denotes(strings, Append(constants, n))
    BY <1>1, OthersDenote
  <2>5. Recorded'
    <3>1. /\ Len(constants) \in Nat /\ Len(constants') = Len(constants) + 1 /\ constants'[Len(constants) + 1] = n
          /\ \A i \in 1 .. Len(constants) : constants'[i] = constants[i]
      BY <1>1, <2>1, Grown
    <3>2. \A w : Indexed(numbers, w) => Indexed(numbers', w)
      BY <1>3, <1>5 DEF Indexed, IsNew
    <3>3. \A i \in 1 .. Len(constants') : i \in 1 .. Len(constants) \/ i = Len(constants) + 1
      BY <3>1
    <3> QED BY <1>1, <1>2, <2>1, <3>1, <3>2, <3>3 DEF Recorded, Indexed
  <2>6. \A w \in DOMAIN numbers' : w[1] = "number" /\ numbers'[w] \in Nat \cup {NotAConstant}
    BY <1>1, <1>3, <2>2
  <2>7. /\ \A w \in DOMAIN strings' : w[1] = "string" /\ strings'[w] \in Nat \cup {NotAConstant}
        /\ Denotes(numbers, constants)' /\ Denotes(strings, constants)'
    BY <1>1, <1>2, <2>1, <2>4
  <2> QED BY <2>3, <2>5, <2>6, <2>7 DEF PoolsInv, TypeOK, TableOK
<1>6. CASE ~IsNew(numbers, n)
  <2>1. /\ constants' = constants
        /\ PooledIndex(numbers, n) = numbers[n] /\ Indexed(numbers, n)
        /\ DOMAIN numbers' = DOMAIN numbers
        /\ \A w \in DOMAIN numbers : numbers'[w] = numbers[w]
    BY <1>1, <1>2, <1>6, OldConstant
  <2>2. /\ PooledIndex(numbers, n) \in Nat
        /\ Len(constants) <= Limit =>
             PooledIndex(numbers, n) < Len(constants) /\ constants[PooledIndex(numbers, n) + 1] = n
    BY <1>1, <2>1 DEF Indexed, Denotes
  <2>3. TableOK(S)'
    BY <1>4, <2>1, <2>2, TableStays
  <2> QED BY <1>1, <1>2, <2>1, <2>3 DEF PoolsInv, TypeOK, TableOK, Denotes, Recorded, Indexed
<1> QED BY <1>5, <1>6

LEMMA FunctionKeeps ==
  ASSUME Sizes, NEW S, PoolsInv(S), NEW f \in S, f[1] = "function", emitFunction(f)
  PROVE  PoolsInv(S)'
<1>1. /\ constants \in Seq(S) /\ Len(constants) \in Nat
      /\ \A w \in DOMAIN strings : w[1] = "string" /\ strings[w] \in Nat \cup {NotAConstant}
      /\ \A w \in DOMAIN numbers : w[1] = "number" /\ numbers[w] \in Nat \cup {NotAConstant}
      /\ Denotes(strings, constants) /\ Denotes(numbers, constants) /\ Recorded
  BY DEF PoolsInv, TypeOK
<1>2. /\ constants' = Append(constants, f) /\ emitConstantCommond(f, Len(constants))
      /\ strings' = strings /\ numbers' = numbers
  BY DEF emitFunction, MakeConstant, addConstant
<1>3. TableOK(S)'
  BY <1>1, <1>2, TableGrows
<1>4. Denotes(strings, Append(constants, f)) /\ Denotes(numbers, Append(constants, f))
  BY <1>1, OthersDenote
<1>5. Recorded'
  <2>1. /\ Len(constants') = Len(constants) + 1 /\ constants'[Len(constants) + 1] = f
        /\ \A i \in 1 .. Len(constants) : constants'[i] = constants[i]
    BY <1>1, <1>2, Grown
  <2>2. \A i \in 1 .. Len(constants') : i \in 1 .. Len(constants) \/ i = Len(constants) + 1
    BY <1>1, <2>1
  <2> QED BY <1>1, <1>2, <2>1, <2>2 DEF Recorded, Indexed
<1>6. /\ \A w \in DOMAIN strings' : w[1] = "string" /\ strings'[w] \in Nat \cup {NotAConstant}
      /\ \A w \in DOMAIN numbers' : w[1] = "number" /\ numbers'[w] \in Nat \cup {NotAConstant}
      /\ Denotes(strings, constants)' /\ Denotes(numbers, constants)'
  BY <1>1, <1>2, <1>4
<1> QED BY <1>3, <1>5, <1>6 DEF PoolsInv, TypeOK, TableOK

LEMMA CopyKeeps ==
  ASSUME Sizes, NEW S, PoolsInv(S), NEW s, s[1] = "string", copyString(s)
  PROVE  PoolsInv(S)'
<1>1. /\ \A w \in DOMAIN strings : w[1] = "string" /\ strings[w] \in Nat \cup {NotAConstant}
      /\ Denotes(strings, constants) /\ Recorded
  BY DEF PoolsInv, TypeOK
<1>2. constants' = constants /\ numbers' = numbers /\ operands' = operands
  BY DEF copyString
<1>3. /\ \A w \in DOMAIN strings' : w[1] = "string" /\ strings'[w] \in Nat \cup {NotAConstant}
      /\ \A w : Indexed(strings', w) = Indexed(strings, w)
      /\ \A w : Indexed(strings, w) => strings'[w] = strings[w]
  BY <1>1 DEF copyString, Intern, With, Indexed
<1>4. Denotes(strings', constants') /\ Recorded'
  BY <1>1, <1>2, <1>3 DEF Denotes, Recorded, Indexed
<1> QED
  BY <1>2, <1>3, <1>4 DEF PoolsInv, TypeOK, Denotes, OperandsDenote, FunctionsDenote, Deduplicated

----------------------------------------------------------------------------
(* Each action, whatever set the values are in. *)
LEMMA EmitHolds ==
  ASSUME Sizes, PoolsHold, NEW v,
         \/ v[1] = "string" /\ (emitString(v) \/ copyString(v))
         \/ v[1] = "number" /\ emitNumber(v)
         \/ v[1] = "function" /\ emitFunction(v)
  PROVE  PoolsHold'
<1>1. PICK S : PoolsInv(S)
  BY DEF PoolsHold
<1>2. PICK T : T = S \cup {v}
  OBVIOUS
<1>3. PoolsInv(T) /\ v \in T
  BY <1>1, <1>2, MoreValues
<1>4. PoolsInv(T)'
  BY <1>3, StringKeeps, NumberKeeps, FunctionKeeps, CopyKeeps
<1> QED BY <1>4 DEF PoolsHold

LEMMA StayPoolsHold ==
  ASSUME PoolsHold, UNCHANGED vars
  PROVE  PoolsHold'
<1>1. PICK S : PoolsInv(S)
  BY DEF PoolsHold
<1>2. PoolsInv(S)'
  BY <1>1
  DEF vars, PoolsInv, TypeOK, Denotes, Recorded, Indexed, OperandsDenote, FunctionsDenote, Deduplicated
<1> QED BY <1>2 DEF PoolsHold

LEMMA PoolsSound ==
  ASSUME PoolsHold
  PROVE  OperandsDenote /\ FunctionsDenote /\ Deduplicated
BY DEF PoolsHold, PoolsInv
=============================================================================
