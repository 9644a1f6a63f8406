# FliteLang, specified in TLA+

FliteLang (`src/`) is a small dynamic language: a single-pass compiler emits
bytecode, a stack machine runs it, a tracing collector reclaims its objects.
This directory models the parts of the program whose correctness depends on
long sequences of steps, checks them with TLC on small instances and proves,
with TLAPS and for instances of any size, the invariants of the hash table, the
stack machine, the collector, the compiler and the code it writes, the scanner,
the line table, the constant table and the REPL.

## The system

The program is one thread. Nothing is persisted, so there is no crash recovery,
and nothing is sent, so nothing is lost. What interleaves is the program being
run and the collector: every request for memory may run a whole collection.

| Part | State | Operations | Talks to |
|---|---|---|---|
| scanner (`scanner.c`) | a position in the text | `scanToken` | called by the compiler |
| compiler (`compiler.c`, `chunk.c`) | a chain of `Compiler` (locals, scope depth, loops, upvalues), the code of each function, `hadError`, `panicMode` | one function per grammar rule | scanner, constant table, pools |
| line table (`lineArray.c`) | runs of code offsets per line | `lineArray_write`, `getLine` | written with each byte, read by `runtimeError` |
| constants and pools (`value.c`, `object.c`, `table.c`, `vm.c`) | `vm.constants`, `vm.strings`, `vm.numbers` | `makeConstant`, `copyString`, `addConstant` | compiler, stack machine |
| stack machine (`vm.c`) | value stack, frames, list of open upvalues | one case of `run` per instruction, `call`, `captureUpvalue`, `closeUpvalues`, `runtimeError` | tables, collector, natives |
| hash table (`table.c`) | entries, count, capacity; the `symbol` cached in each string | `tableGet`, `tableSet`, `tableDelete` | globals, instances, built-in modules, classes |
| collector (`gc.c`, `memory.c`) | marks, the meaning of the mark, gray stack, list of objects | `markRoots`, `traceReferences`, `sweep`, the flip | run by `reallocate` at any allocation, and by `@sys.gc` |
| objects (`object.c`) | the heap | constructors | allocate through `reallocate` |
| built-in modules (`native*.c`) | sealed tables of natives | `@array`, `@string`, `@sys` | called through `call_native` |
| REPL and main (`entrance.c`, `main.c`) | the lines joined so far and their buffer; one machine for all texts | `repl`, `interpret`, `interpret_repl` | compiler, stack machine |
| disassembler (`debug.c`) | none | printing | |

What makes each part correct, and what is hard about it:

- **Hash table.** It must behave as a dictionary. Open addressing with
  tombstones, growth by re-insertion, a table that becomes read-only, and a
  bucket number cached in each string that instructions use without probing.
  The hazards are sequences: a tombstone before its key, a table that fills up
  with tombstones, a cached bucket that outlives a growth, an assignment that
  is undone.
- **Stack machine.** A local variable must be one cell, whoever shares it and
  however long it lives. Raw pointers into a stack that moves, a sorted list of
  open upvalues, scopes and frames that end in several ways (block end, loop
  exit, return, runtime error).
- **Collector.** It frees what cannot be reached and nothing else. A collection
  can start between any two steps of an instruction that allocates twice; the
  mark changes its meaning with each collection and is never cleared.
- **Compiler.** The count of locals it keeps must be the height of the stack
  when the code runs, on every path; jumps must land on instructions; a name
  must mean its innermost declaration through chains of upvalues.
- **Scanner.** Tokens are those of the grammar, as long as can be; what lies
  between them is blank. Lookahead in literals, comments and escapes, and lines
  counted in three places.
- **Line table.** A byte of code has the line it was written with. Runs are found
  by a binary search with bounds on both sides, in an array that grows.
- **Constants and pools.** An operand names the value that was compiled, for as
  long as the machine lives. A pool entry says `true` or the index of a constant,
  and texts, failed texts and running programs add entries in any order.
- **REPL.** The text interpreted is the text typed: lines are joined with
  commands and files between them, in a buffer that grows by steps.

The complete list of hazards, with their lines, is in `PROJECT.json`.

## Plan

Modules in the order they were written (all but the last step is done):

1. `Dict`, `Table`: the hash table and the dictionary it implements.
2. `Lexical`, `Vm`: the stack machine and the lexical variables it implements.
3. `Gc`: the collector and the instructions that allocate.
4. `TableProofs`: the theorems about the table.
5. `Codegen`: the code the compiler emits, checked by interpreting it abstractly.
6. `Lines`, `Pools`, `Scanner`, `Repl`, and `Session`, which composes the four.
7. `LinesProofs`, `PoolsProofs`, `SessionProofs`: a written line is found, an
   operand keeps its meaning, the text typed is the text interpreted, in any session.
8. `VmProofs`: the invariants of the stack machine, and that it implements `Lexical`.
9. `GcProofs`: the invariants of the collector, for any heap. Reachability is
   defined by closed sets, so that no induction is needed.
10. `CodegenProofs`: the types of the compilers, and that a name means its
    innermost declaration, for programs of any size and nesting.
11. `CodegenHeights`: the heights of the stack on every path through the code of
    programs of any size, and that every finished function runs.
12. The third part of `SessionProofs`: what the scanner does with texts of any length.
13. Left: a proof of `CapturedAreClosed`.

`Codegen` and `Vm` meet at the layout of a frame: `Codegen` shows that the code
of a function keeps the stack as its locals say, which is what the actions of
`Vm` (`DeclareLocal`, `endScope`, `LeaveLoop`) presuppose.
`Session` composes `Repl`, `Scanner`, `Lines` and `Pools`: a text goes from the
keyboard through tokens to code, lines and constants, and the next text meets
what it left. `Vm` composes nothing but refines `Lexical`; `Table` refines `Dict`; `Gc`
repeats of `Vm` only what decides which objects are roots.

## Modules and code

**Table** has one bucket array, `entries`, whose `type` says whether it is the
table of globals, the fields of an instance or a built-in module.
`findEntry(es, cap, k)` is the probe loop, defined by the set of distances at
which it can stop; `Cached` is its side effect on `key->symbol`. A call of
`tableSet` is several steps (`phase`): the choice to grow, one `MoveEntry` per
bucket of `adjustCapacity`, `InstallFresh`, `Store`, and for an assignment to an
undefined global `UndoAssign`. Between the steps no other operation runs, as in
the code; they are separate so that invariants hold in the middle of a growth.
`GetGlobal` and `SetGlobal` are the instructions with their fast path.

**Dict** is what the table promises: a function from keys to values, the answer
of the last operation, and a seal.

**Vm** is the stack machine as the compiler drives it. `frames` holds what
`CallFrame` holds and, beside it, what the compiler knows at that point of the
code: the number of locals and the scopes. An action is an instruction; `Running`
and `AtStatement` say when the compiler emits it. Values are `Nil` or `Object`,
enough to see who wrote what. A pointer into the stack is a position and the
block of memory it belongs to. Garbage upvalues leave the model (`InUse`).
`Allowed` names five behaviours that break the machine. Where a property needs one
of them to be absent, its run leaves that one out and the theorem says so as a hypothesis.
After an error of `bitInstruction` or the overflow of `stack_push` the loop of `run`
goes on (`inRun` stays) with no frame: the model shows that state and takes no
instruction from it, since what `run` reads then is undefined. The overflow in the
padding of missing arguments, inside `call`, is left out.

**Lexical** says what variables mean: cells, environments, closures as lists of
cells. `Vm` maps an activation's locals to cells: the upvalue of a captured slot,
the slot otherwise. A slot that becomes captured is a `Move` of its cell.

**Gc** keeps for every address a kind, one link, a set of references and a mark.
An instruction that allocates is split at each request: `Begin...` asks
(`Request`, after which a collection may run), and the second action uses the
memory. `Referents` is the test for objects that marking makes. `Reachable` is
defined from the roots and pointers, apart from what the collector traverses. Only
`OP_CLOSE_UPVALUE` and `OP_RETURN` close upvalues, as in the code. A pop may leave
an open upvalue on a slot above the top (`Allowed`, as in `Vm`): then `left` keeps what
the slot holds, a closure with that upvalue still reads it (`LeftTo`), and no root marks
it. An error takes the open upvalues off the list and closes none (`loose`). A store through
an upvalue to a slot above the top is left out.

**Codegen** compiles. The program text is left to chance: where the parser looks
at a token, an action picks a rule. The parser's own call stack is `todo`, a
sequence of items, and an action is the part of a parsing function between two
calls of others: `forStatement`, `forCondition`, `forExit`, `forIncrement`,
`forLoop`, `forBody` and `forEnds` are the one function `forStatement`.
`compilers` is the chain of `Compiler`s with the code each has emitted, cell by
cell. An error ends the compilation (`fail`), since `compile` then returns NULL.
The second half of the module reads that code: `Flow` follows every path through
a function from the first instruction, with the height of its part of the stack
and the slots that have an open upvalue; `Takes`, `Leaves`, `OperandSize` and
`Targets` are taken from the cases of `run`, not from the compiler. So an operand
that one side writes with two bytes and the other reads with one shows.

**Scanner** is `scanToken`. A text is a sequence of characters, one for each class
that the scanner tells apart, and of the keywords, modules and operators those
stay whose spellings interact (`fun`, `@sys`, `>` and `>=`). Every kind of token
is an operator that says how far the token goes from where it starts. The second
half of the module is the lexical grammar of `src/README.md:19`: `IsToken`,
`IsBlank`, `Spelled`, defined by what a string of characters is and not by how it
is read. It is strict where the scanner is not: a string literal (`IsQuoted`) has no
newline but one that a backslash takes (`"\\" .` of `src/README.md:30`), and the end of a block
comment (`IsComment`) does not use the star that opens it.

**Lines** is the line table of one chunk. `chunk_write` writes a byte with its line
and starts a run if the line differs; `getLine` is a search of several steps
(`Halve`, `Conclude`). `written` is what was written, byte by byte, and exists for
the properties only.

**Pools** is what `makeConstant`, `copyString` and `addConstant` do with the pools of
strings and numbers and the constant table; an entry holds `NotAConstant` or an
index, and `operands` remembers what each emitted operand was meant to name.

**Repl** is the loop of `repl`: `fgets`, the lines joined, the buffer that grows, the
commands. A command is one character; typing is an action, so that anything can
be typed between two lines of a text.

**Session** is one machine through several texts. `interpret` starts a scanner and a
chunk; `advance` is the parser's, with `previous` and `current`; the rules of the
parser are left to chance, except that a literal emits its constant and `fun` a
closure; each byte is written with the line of the token behind. `NumberValue` converts as
`strtod` and `strtol` do, from where the token begins and not only as far as it goes: the
token `1` of `1.e1` becomes 10; `strtol` saturates at `LONG_MAX`. (That `strtol` of C23
reads `0b` itself is not modelled.) It decides which constants are equal; no property is
about the value of a literal. When a text
compiles it runs, and may make strings or end in an error that looks up a line.
Every text has its own lines, and the pools belong to all.

## Runs

| Run | Instance | Shows |
|---|---|---|
| `table` | 3 strings with colliding hashes, capacities 2, 4, 8, 2 values | six invariants and `DictSpec` |
| `vm` | 3 frames, stack of 5, growth at 3, one upvalue per closure, 2 closures, errors of all kinds but with captured locals | types, `RoomForPush`, `FramesNested`, `OpenListExact`, `OpenPointsToLocal` |
| `lexical` | 2 frames, stack of 4, nested scopes | `LexicalSpec`, and the machine does not stop |
| `gc` | classes and methods: 4 objects, stack of 2; closures: 3 objects, 2 upvalues each, stack of 3; arrays, object literals and a module: 2 objects | five invariants |
| `gc_data` | arrays: 2, of 2 elements, stack of 3; object literals: 3, stack of 2; both: 2, each referring to 2 | `NoDangling`, `GarbageCollected`, `CollectionEnds` |
| `gc_break` | closures as in `gc`, captured locals popped by a break | `NoDangling` violated |
| `codegen` | 15 sets of rules, up to 5 uses, 2 names, 5 values of a byte, 4 locals, functions 2 deep | `TypeOK`, `CodeExecutes`, `HeightIsLocalCount`, `AccessIsInnermost`, `CapturedAreClosed` |
| `codegen_init` | the same, with initializers | `CodeExecutes` violated |
| `session` | about 9,000 texts: up to 6 characters over one of 7 alphabets, literals with a prefix, up to 4 words, two texts in a session, tables and buffers of few cells | tokens, lines, strings, line table, constants, `TextAsTyped`, `FullLineFits` |
| `vm_growth`, `vm_error` | as `vm`, one behaviour allowed | `PointersFresh`, `OpenPointsToLocal` violated |
| `vm_errors` | 2 frames, the two errors after which `run` goes on | `RunHasFrame` violated |

Why the bounds are enough. `table`: three keys that share a home bucket make
every shape of chain (key, tombstone and hole in any order, wrapping), capacity
goes through two growths, and a second value distinguishes old from new. `vm`:
three frames give a caller below, a callee above and a frame between them; the
stack grows on the way; two closures share an upvalue. `gc`: each kind of program has its
`Size`. Four objects are a class, its method (which captures nothing: programs with "upvalue" are those that capture), an instance and a bound method. Three and
a stack of three are two locals and the closure that captures both, one upvalue after the other with a
collection possible between them, and a closure that shares one of them. A module keeps the
mark of the collection that last reached it while the flips go on, and its table is sealed.
`codegen`: each set of rules (`MCPrograms`) holds
the rules whose code interacts, twice where they nest: loops with breaks and
continues in nested scopes, a local captured inside a loop body, functions
within functions with the same name declared in several, methods that capture `this`.
A jump of 25 bytes, a fifth local, a third argument, a third object inside two
and a third function inside two are already errors, and each of these errors
occurs. The limit of upvalues does not: it takes three variables captured by one
function. Sets with `break` or `continue` have no functions: that combination is
`gc_break`. Bounds are named in the modules (`MaxStack`,
`MaxRefs`, `MaxFrames`, `MaxScopes`, `MaxCaptures`, `MaxTemporaries`,
`MaxCapacity`, `MaxForms`, `Programs`, `Size`); the constants of the code that are made smaller are
`FRAMES_MAX`, `STACK_INITIAL_SIZE`, the initial capacity, and in `Codegen` the
limits of compiler.h and the size of a byte.


`session`: each alphabet of `MCTexts` has the characters that one part of the
scanner tells apart (numbers; comments; strings; modules; operators; characters
that begin no token; lines), with enough length for two tokens and what is
between them; `Programs(4)` has four of four words (number, number and newline,
string, function), which is more constants than an operand of the model can
name. `MCRepeated` are the texts that may follow one another, `MCTyped` those that
are typed line by line. `UINT16_MAX` is 2, so that indices wrap with the fourth
constant; `FirstCapacity` of the line table is 2, so that it grows twice;
`LineSize`, `FirstRoom` and `MoreRoom` make the longest typed line fit exactly and
the buffer grow. `Made` is a string that is also a literal. Texts that end in a
backslash within a string, or in a character that begins no token, are left out
(`EndsCleanly`, see below), and a hexadecimal literal is followed by a blank.

Symmetry is used in `gc`, in `codegen` (of names) and in the runs of `Vm` that check invariants only.

Fairness. Only `gc_data` states any: `WF_vars(Collector)`. It is justified
because `garbageCollect` is an ordinary call that runs to its end before the
instruction that caused it goes on. Nothing obliges the program to continue.

## Proofs

`TableProofs` proves the invariants of the run `table` for any set of strings,
any hash function, any values and any growth. The inductive invariant is
`IInv == TypeOK /\ Structure`: types; at most three quarters of the buckets
taken (so a hole exists and every probe stops), the count exact, no key twice,
no hole between a key and its home, and, while a table grows, the same facts of
the array being filled together with what it holds so far. None of the six
invariants is inductive alone: that a chain is unbroken after a store needs a
hole to exist, which needs the count to be exact, which during growth needs that
no key occurs twice. Lemmas about `findEntry` (it stops, at the key if it is
there, and otherwise at a bucket whose filling breaks no chain) carry the steps.

`TableProofs` ends with `Spec => DictSpec`, from that invariant: each action maps
to one operation of the dictionary or to a stutter.

The assumptions are those of `TableAssumption`: hashes and capacities are
naturals, nil differs from true, the NULL key is no string.

`LinesProofs` proves that every action of the line table keeps `LinesInv`: the
offsets of the runs rise and end at the last byte of code (`RunsSorted`), the first
run that reaches a byte has its line (`RunsCover`), and a search in progress has
not left the run it looks for out of `low .. high` (`Window`). `PoolsProofs` does so
for `PoolsInv`: while the indices fit, an entry with an index names the constant of
its value (`Denotes`), and every string and number in the table has an entry that
says where (`Recorded`); operands keep their meaning because of the first, and none
has two constants because of the second. Both invariants say that some set holds
the lines, or the values (`PoolsHold == \E S : PoolsInv(S)`): the values come from
recursive readings of the text, which the provers cannot type. `SessionProofs`
carries both through `Session`, where each step is a step of `Lines`, of `Pools` or of
neither; for these, nothing of the scanner is used. Assumptions:
`SessionAssumption`.

`SessionProofs` goes on with the REPL and proves `TextAsTyped` and `FullLineFits` for
texts of any number of lines. The invariant is `ReplOK`: the buffer has room for the
NUL behind what it holds, and there is a rest of the text such that what has been
joined and the rest make the text typed, and what is still to be read is the rest as
keys, behind at most one line that is not of the text (`ReplWaits`). Each reading of
`fgets` meets one of three lines (`LineMet`): one that is not of the text, one that
goes on, or the last. That a text as keys begins with its first line, a backslash and
the keys of its other lines (`KeysOfLines`) is shown for the recursive
`FlattenSeq`, whose function exists by a least counterexample (`JoinedExists`,
`UpToN`). `TypedAssumption` says which texts are typed: their lines fit the buffer of
`fgets` and the last line does not end in a backslash, since both would make other
texts of them; TLC evaluates it on the texts of the runs.

`VmProofs` proves `TypeOK`, `RoomForPush` and `FramesNested` from
`MachineOK == StackOK /\ FramesOK /\ HeapOK`: the stack has a free slot, each
activation's locals end where the next begins and the last ones below the top
(`Fit`), and closures and frames refer to upvalues and closures that are there
(`Held`). It assumes `VmAssumption`, with `Arity[c] <= InitialStack`: missing
arguments are padded after a single growth (at most 255 of them, in a stack of
1024). None of these needs a hypothesis about errors: after any of them no frame is left.
That `run` has a frame as long as it goes on (`RunKeepsFrame`) is proved for programs that
meet neither an error of `bitInstruction` nor the overflow of `stack_push` (`ErrorsStop`);
the run `vm_errors` shows that it needs this. `VmProofs` goes on with `Listed` (the list is sorted and complete) for
`OpenListExact`, and `Placed` (an open upvalue lies on a local of some frame) for
`OpenPointsToLocal`. These two assume what the runs `vm_error` and `gc_break` show to
be needed: `ErrorsSpare` (no runtime error while an upvalue is open) for both and
`BreaksSpare` (no break out of a scope with a captured local) for the second; with
`Allowed = {"captured break"}` the run `vm` finds an open upvalue above the top too.

The second half of `VmProofs` proves `Spec => LexicalSpec` under the same two assumptions; they
are needed, since both disagreements make a variable change its value. What a
variable is follows from three parts of the state, so the mapping is stated
anew with each of them as an argument (`EnvOf`, `CapturedOf`, `Read`, `InUseBy`): then the
cells of two states can be compared without primes. The central fact is
`CellsDiffer`: two variables never share a cell, because frames do not overlap, an
open upvalue is the only one of its slot (`Single`), and a closed one has a cell of
its own. From it follow three ways for an instruction to relate to `Lexical`: no
cell in use changes (`Kept`: pushes, pops, calls of natives, a closure asked for, an
upvalue shared), cells go out of use and the rest keep their values (block end,
loop exit, return, error), or one cell changes, is added or moves (assignment,
declaration, call, the capture of a slot). An upvalue that is closed keeps cell
and value; that is where `OpenListExact` is used: the list is cut exactly where the
scope ends. The invariant adds to `PlacedOK` only `BuildingOK`: while a closure is
being made no frame runs it, what it has captured so far its creator can name, and
the new local a function is declared as has been captured by nothing else. The proof has a lemma for each
action (`CallEnters`, `ReturnLeaves`, `CaptureLocalMoves`, ...).

`GcProofs` proves the five invariants of the run `gc` from
`GcOK == Marks /\ HeapOK /\ CollectorOK`. `HeapOK` is about the program: whatever
exists, and whatever a root is, refers only to what exists, and an object that the
code takes for one of a kind without a test is of that kind (methods are closures,
closures hold upvalues; `GraphOK`, `RootsOK`), and an instruction that waits for
memory finds on the stack what it will use after it (`SiteOK`). Without the last
part `NoDangling` would not be inductive: it is what an action after a collection
relies on. `CollectorOK` is about marks: none between collections; during one, the
roots marked, what is marked and not gray pointing to what is marked, and only
what is in reach marked. That what is left after a sweep is still in reach is
shown by cutting any closed set with the set of marked objects. Assumptions:
`GcAssumption`; `MaxStack`, `MaxRefs`, `MaxFrames` and the sizes are any naturals.

All five speak of programs in which no break, no `continue` and no error drops a local that
an open upvalue points to (`ClosedInTime`). `Settled` is what follows from that:
an open upvalue lies on a slot below the top, nothing above it is read, and no upvalue
is off the list and open. Without it nothing that a closure reads above the top is safe: `gc_break`
is such a program, a closure in a global that captured a local, `break`, a collection.

`CodegenProofs` proves `TypeOK` and `AccessIsInnermost` of the compiler, for
programs, nesting and limits of any size. The limits are those of the code
(`LOCAL_MAX`, `UPVALUE_MAX`, ...), as parameters; assumptions: `CodegenAssumption`.

Types need to know where the parser is. `todo` is the call stack of the parser, and
what an item may assume (how deep the scope is, whether a loop is open, whether the
last local waits to be initialized, how many functions are around) is
what the items before it leave. So the invariant `CodegenOK` says that there is a
path through `todo` (`InProgress`): a situation before each item and after it, which
begins with what the innermost compiler is now (`Fits`), agrees between each item and the
next (`Follows`) and ends where no function is open. A step replaces the first item
by others that lead from the same situation to the same. With it goes `Sound`: the depths
of the locals grow, only the last can be uninitialized, upvalues
fit. Everything recursive in the module is a recursive function, whose existence
is shown once (`RecursionExists`, from the least counterexample).

For `AccessIsInnermost`, `AccessOK` is added. Every upvalue of every
function refers to something the function around it has (`Linked`). Every access that is waiting to
be written, behind the value that is being compiled, already denotes the
innermost declaration of its name (`Good`). And only parts of expressions stand
before such an access (`Waits`): no declaration can come between a name
and its access, and a function compiled in between is over when the access is
written. A function adds upvalues to those around it, and never
changes any (`Extends`), so what an operand denotes stays. The step that matters is
`namedVariable`: `resolveUpvalue` adds an upvalue to each function between the use and
the owner, or finds one there. That the chain it makes leads to the
local it found is `CapturesDenote`, shown level by level, and that no
function nearer declares the name makes it the innermost.

`CodegenHeights` proves what that code does when it runs: `HeightIsLocalCount`, and
`CodeExecutes` of every function but an initializer. `Flow` follows all paths, which
no induction here can do; the proof works with a map instead, a height for each
position where an instruction begins (`Maps`), and shows that `Flow` cannot
leave it. The map of a function under way
grows with its code: an emission adds to it, a patch redirects a jump to a
position that is mapped already, and a jump not yet patched has the height it will arrive with
(`Jumps`), whether for the end of a condition, a loop or a break. What the map must
say is what the parser knows: a frame (`Frames`) has the number of locals, the
temporaries above them, for each scope and each open loop the locals it started with, and
whether a declaration is half done. The invariant `HeightOK` says that each function around has a map
and a frame that fit it (`Holds`), and that the items of `todo` one after
another turn these frames into those of the functions' ends (`Walks`): the temporaries of an
expression that waits are counted in the frame, so whatever is compiled in between
finds the stack at the height the rest was planned for. With it, `HeightIsLocalCount` is read
off the frame of a statement, and a finished function's map makes its code run:
instructions decode whole, jumps land on mapped positions, operands name
slots below the height there and upvalues the function has, and the code does
not run off its end. An initializer ends in an operand that the machine does not
read (`codegen_init`), hence `FunctionsExecute` excepts it; `CodeRuns` is the plain invariant
for programs without initializers.

The third part of `SessionProofs` is about the scanner: `TypeOK`, `OnlyBlanksSkipped` and
`LineReported` of `Session`, for texts of any length over the modelled characters. The
invariant `ReadOK` says where tokens lie (`Positions`), what the parser's modes exclude
(`Modes`, `Errors`), that the line of a position is one plus the newlines before it
(`Counted`), and that what lies between the token behind and the next is blank
(`Blanks`). It uses the invariant of the line table with the lines a text can have.
Much of the proof is about one call: `SkipsBlanks` (`skipWhitespace` passes over a
sequence of blanks and comments, or stops in a comment without an end),
`StringRead` and `TokenReads` (where a token ends, and the newlines in it), and
`ScanFollows`, which puts them together. The loops are
recursive functions from the end of the text; they exist because each step goes forward
(`BackwardExists`), and what they return follows from the end backwards (`DownFromN`).
`TextsAssumption` leaves out the texts that the scanner reads past their end: those that end in a
backslash, or in a digit and the letter of a base (see below). Of texts in which a newline is skipped with a
backslash or the letter of a base (`NoNewlineTaken`) `LineReported` says nothing: there the code counts a line too few.

`TokensAreOfGrammar` adds what the tokens are. `TokensMatchGrammar`, which says that they are those of
`src/README.md:19-46`, does not hold. `MismatchesKnown` says when: exactly in the states in which the
scanner took the character after `0b` or `0x` for a digit without being one, or
the reverse (`PrefixRead`), and in those with a string literal that has a newline no backslash takes (`HasNewline`).
It is an equivalence, so both disagreements are part of what is checked and proved. The proof says of each spelling of the grammar which
positions of the text it means; the first character decides which can
match; what the scanner does gives the end, and no longer token fits. That a
string ends where the grammar says follows by induction from the end of the text, on the characters that a
backslash takes with it.

`StringsMean` shows `StringsKeepMeaning`, for literals of any length: that the token is a
string of the grammar comes from the above (the exception is about numbers); then, from the end
of the literal, at every character that no backslash has taken, what `copyString` still writes denotes
the characters still to come (`Denotes`) and is as long as what it has counted. `unescaped` and
`actualLength` are two loops in the code, and the first would not end at a lone backslash: the closing quote,
which no backslash has taken, is why no literal has one there.

Only model-checked: `PointersFresh` (it is violated); `CapturedAreClosed` of `Codegen`, which follows
open upvalues along all paths beside the heights, and
speaks of two functions at once. Liveness (`CollectionEnds`) and facts that need induction over
data are outside what the provers here can do and stay with TLC.

## Disagreements found

- `gc_break`: `break` and `continue` pop captured locals without closing them. What
  such a slot holds is marked by nothing, and freed while a closure still reads it.
- `vm_errors`: after an error of `bitInstruction` (`vm.c:1005`), or the overflow of
  `stack_push` (`vm.c:88`), `run` goes on with a reset stack and no frame. TLC shows the first;
  with `Allowed = {"overflow"}` it shows the second.
- `vm_growth`: growing the stack leaves frames and open upvalues behind.
- `vm_error`: a runtime error forgets open upvalues that closures still use. With
  `Allowed = {"captured error"}` the property `NoDangling` of `Gc` fails for it too, once the
  next line has filled the slot and emptied it again.
- `codegen_init`: the return at the end of an initializer has an operand of two
  bytes, the machine reads one, so every class with `init` runs into the rest.

Two more are in the run `session`, which checks that there are no others (`MismatchesKnown`):

- The grammar has `"0" [bB] BinDigit+` (`src/README.md:34`); the scanner skips the first
  digit after the prefix without a look (`scanner.c:254`), so `0b1` is an error.
- The grammar excludes a newline from both kinds of string (`src/README.md:30-31`); `string`
  counts it and goes on (`scanner.c:330`).

Met while modelling, and plain enough to need no run:

- The grammar writes a parenthesis after the name of a method (`src/README.md:57`),
  which `function` (`compiler.c:521`) consumes for plain functions only: a method
  so written is an error, one without the parenthesis is accepted. `Codegen` starts
  behind the header, where both are alike.
- `resize` of an array to length 0 ends the program (`nativeArray.c:89`);
  `src/README.md:131` says that excess elements are discarded.
- The digit skipped after a prefix may be anything: `0bx1` is a number for the
  scanner. The same advance passes the terminating NUL of a text that ends in `0b` or
  `0x`, as does the pair of a backslash and the last character of a text that ends
  in a string after a backslash: the scanner then reads on behind the text.
- `/*/` is a whole comment for the scanner: the star that opens it closes it
  (`scanner.c:104`). `OnlyBlanksSkipped` names it beside the comments of `src/README.md:108`.
- A character that begins no token is reported by the token after it; as the last
  character of a text it ends the text silently.
- A newline after a backslash in a string is not counted as a line.
- A number is converted from the source and not from its token (`compiler.c:1008`):
  where a token ends before the text that `strtod` reads, as in `1.e1`, what comes after is read twice.
- The message for an unknown module names `@system` (`scanner.c:230`); it is `@sys`.
- Operands of constants wrap beyond 65536 constants without an error, except for
  functions (`OperandsDenote` speaks of sessions with fewer).
- REPL: the help announces 512 characters per line (`entrance.c:20`), the buffer
  has 256; a longer line is interpreted in parts, each without its last character.
  `/mem` is announced (`entrance.c:15`) and not handled. An empty line does not end a
  text that is to be continued.

## Not modelled

Precedence and panic-mode recovery of the parser: `Codegen` picks rules and stops at
the first error, `Session` lets any rule follow any token. Of the limits in
`Codegen` the number of breaks in a loop (65535) is left out, and constants are one
constant; `Pools` has them.

Scanner: the keywords and operators whose spellings interact with no other, carriage
returns and tabs, letters beyond those of the modelled
words; texts that the scanner reads past the end of (`ReadInside`: those that end in a backslash,
or in a digit and the letter of a base). Decimal numbers are exact.

Hash table: indices are taken modulo the capacity (`Home`), where the code masks with
`capacity - 1`. That a capacity is a power of two is not checked; its bound is.

Line table: a program has the lines of one text in their order. A line that
comes back after a later one does not occur.

REPL: lines that do not fit the buffer, `/exit`, files that cannot be read.

Formatting, printing, the disassembler, reading files: I/O without state of
interest. What `run` does after `vm_errors`: it is undefined. Hash values and floating point: abstract. The
index arithmetic of arrays and strings. Strings and functions are never collected
in this program, so `Gc` leaves them out.
