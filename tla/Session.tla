------------------------------ MODULE Session -------------------------------
(***************************************************************************)
(* One machine interprets text after text (interpret_repl of src/vm.c,     *)
(* compile of src/compiler.c): the REPL joins lines to a text or takes that*)
(* of a file, the scanner gives tokens to the parser, the parser writes    *)
(* code with the line of the token behind it and constants through the     *)
(* pools, and a runtime error prints lines.  The code and its lines belong *)
(* to one text, pools and constants to all of them.                        *)
(*                                                                         *)
(* Composes Repl, Scanner, Lines and Pools.  The rules of the parser are   *)
(* left to chance: at any token that is not a literal it may emit a byte,  *)
(* and it may find fault with any text.                                    *)
(***************************************************************************)
EXTENDS Integers, Sequences, FiniteSets, SequencesExt

CONSTANTS Texts,          \* what may be interpreted
          Typed,          \* bound of the model: those of them that are typed, not in a file
          Repeated,       \* bound of the model: those of them that may follow one another
          MaxTexts,       \* bound of the model: texts in a session
          Made,           \* strings a program can make while it runs
          LineSize, FirstRoom, MoreRoom,
          MaxCode, FirstCapacity, UINT16_MAX, NotAConstant, MaxConstants,
          LONG_MAX         \* the largest long, that strtol ends at

ASSUME SessionAssumption ==
  /\ FirstCapacity \in Nat \ {0} /\ MaxTexts \in Nat \ {0}
  /\ UINT16_MAX \in Nat /\ MaxConstants \in Nat /\ LONG_MAX \in Nat
  /\ NotAConstant \notin Nat
  /\ LineSize \in Nat /\ LineSize > 2 /\ FirstRoom \in Nat \ {0}
  /\ MoreRoom \in Nat /\ MoreRoom >= LineSize

VARIABLES
  input, fullLine, fullLineCapacity,         \* Repl
  text, current, line, token,                \* Scanner; token is parser.current
  ranges, capacity, written, search,         \* Lines
  strings, numbers, constants, operands,     \* Pools
  texts,     \* how many texts there have been, with the one being typed
  typed,     \* the text being typed
  phase,     \* "idle", "compiling" or "running"
  previous,  \* parser.previous
  hadError,  \* parser.hadError, for errors of the scanner
  pending,   \* bytes of the instruction being emitted that are still to be written
  used,      \* code for parser.previous has been emitted
  origins    \* for each byte of code, the end of the token it was emitted at

repl == <<input, fullLine, fullLineCapacity>>
scanner == <<text, current, line, token>>
lines == <<ranges, capacity, written, search>>
pools == <<strings, numbers, constants, operands>>
parser == <<previous, hadError, pending, used, origins>>
asked == <<texts, typed>>
vars == <<repl, scanner, lines, pools, parser, asked, phase>>

R == INSTANCE Repl
S == INSTANCE Scanner
L == INSTANCE Lines

(* Typed are texts whose lines fit the buffer: no LineSize - 1 characters    *)
(* without a newline before the last of them.  A last line that ends in a    *)
(* backslash would not be the last.                                          *)
ASSUME TypedAssumption ==
  \A source \in Typed :
    /\ source \in Seq(S!Char)
    /\ source # <<>> => source[Len(source)] # "\\"
    /\ \A i, j \in DOMAIN source : j - i >= LineSize - 2 => \E k \in i .. j - 1 : source[k] = "\n"

(* The scanner reads on behind the NUL of a text that ends in a backslash or *)
(* in a digit and the letter of a base: what it finds there is not modelled. *)
(* (It does not where a hexadecimal literal ends so; no program ends in one.)*)
ReadInside(source) ==
  /\ source \in Seq(S!Char)
  /\ source # <<>> => source[Len(source)] # "\\"
  /\ Len(source) > 1 /\ source[Len(source) - 1] \in S!Digit => source[Len(source)] \notin {"b", "x"}

ASSUME TextsAssumption == \A source \in Texts \cup Repeated : ReadInside(source)

(* The values of literals: a number is <<"number", m, e>> for m * 10^e, with *)
(* m no multiple of 10, a string <<"string", its characters>>.               *)
DigitValue == [c \in S!HexDigit |-> CASE c = "0" -> 0 [] c = "1" -> 1 [] c = "7" -> 7 [] c = "b" -> 11 [] OTHER -> 14]
InBase(base, u) == FoldLeft(LAMBDA n, c : base * n + DigitValue[c], 0, u)
Number(m, e) ==
  LET zeros == CHOOSE k \in 0 .. m : m % 10^k = 0 /\ m % 10^(k + 1) # 0
  IN  IF m = 0 THEN <<"number", 0, 0>> ELSE <<"number", m \div 10^zeros, e + zeros>>

(* strtod and strtol convert what they find from i on, whatever the token is *)
(* that begins there.                                                        *)
strtod(i) ==
  LET point == S!After(S!Digit, i)
      e == IF S!At(point) = "." THEN S!After(S!Digit, point + 1) ELSE point
      sign == IF S!At(e + 1) = "+" THEN e + 2 ELSE e + 1
      end == IF S!At(e) = "e" /\ S!At(sign) \in S!Digit THEN S!After(S!Digit, sign) ELSE e
      whole == S!Lexeme(i, point)
      fraction == S!Lexeme(point + 1, e)
  IN  Number(InBase(10, whole \o fraction), InBase(10, S!Lexeme(sign, end)) - Len(fraction))

Least(m, n) == IF m < n THEN m ELSE n
strtol(i, base, digits) ==
  LET blank == S!After(S!Whitespace, i)
      sign == IF S!At(blank) = "+" THEN blank + 1 ELSE blank
      again == base = 16 /\ S!At(sign) = "0" /\ S!At(sign + 1) = "x" /\ S!At(sign + 2) \in digits
      first == IF again THEN sign + 2 ELSE sign
  IN  Number(Least(InBase(base, S!Lexeme(first, S!After(digits, first))), LONG_MAX), 0)

(* A mutant: a backslash that stays is not counted. *)
StaysUncounted(c) == 1

(* The characters a backslash and c stand for. *)
PairLength(c) == IF c \in S!Escaped THEN 1 ELSE 2

(* copyString(chars, true): how many characters it allocates... *)
actualLength(chars) ==
  LET length[i \in 1 .. Len(chars) + 1] ==
        IF i > Len(chars) THEN 0
        ELSE IF chars[i] = "\\" /\ i < Len(chars) THEN PairLength(chars[i + 1]) + length[i + 2]
        ELSE 1 + length[i + 1]
  IN  length[1]

(* ... and which ones it writes.  A backslash that is the last character     *)
(* would keep its loop going for ever: no literal has one.                   *)
unescaped(chars) ==
  LET rest[i \in 1 .. Len(chars) + 1] ==
        IF i <= Len(chars) /\ chars[i] # "\\" THEN <<chars[i]>> \o rest[i + 1]
        ELSE IF i >= Len(chars) THEN <<>>
        ELSE (IF chars[i + 1] \in S!Escaped THEN <<>> ELSE <<"\\">>) \o <<chars[i + 1]>> \o rest[i + 2]
  IN  rest[1]

Lexeme(t) == S!Lexeme(t.start, t.end)
Inside(u) == SubSeq(u, 2, Len(u) - 1)
StringTypes == {"STRING", "STRING_ESCAPE"}
NumberTypes == {"NUMBER", "NUMBER_BIN", "NUMBER_HEX"}

StringValue(t) ==
  <<"string", IF t.type = "STRING" THEN Inside(Lexeme(t)) ELSE unescaped(Inside(Lexeme(t)))>>
NumberValue(t) ==
  CASE t.type = "NUMBER" -> strtod(t.start)
    [] t.type = "NUMBER_BIN" -> strtol(t.start + 2, 2, S!BinDigit)
    [] t.type = "NUMBER_HEX" -> strtol(t.start + 2, 16, S!HexDigit)

P == INSTANCE Pools

----------------------------------------------------------------------------
Init ==
  /\ R!Init
  /\ text = <<>> /\ current = 1 /\ line = 1 /\ token = S!None
  /\ L!Init
  /\ P!Init
  /\ texts = 0 /\ typed = <<>> /\ phase = "idle"
  /\ previous = S!None /\ hadError = FALSE
  /\ pending = 0 /\ used = TRUE /\ origins = <<>>

(* compile, up to its first advance: a scanner and a chunk of its own. *)
interpret(source) ==
  /\ phase' = "compiling"
  /\ S!scanner_init(source)
  /\ ranges' = <<>> /\ capacity' = 0 /\ written' = <<>> /\ search' = L!Idle
  /\ previous' = S!None /\ hadError' = FALSE
  /\ pending' = 0 /\ used' = TRUE /\ origins' = <<>>
  /\ UNCHANGED pools

(* Bound of the model: what may be interpreted next. *)
Following ==
  IF texts = 0 THEN Texts
  ELSE IF texts < MaxTexts /\ (IF input = <<>> THEN text ELSE typed) \in Repeated THEN Repeated
  ELSE {}

(* How the user types a text: its last line must not be empty. *)
Typable(source) == source # <<>> /\ source[Len(source)] # "\n"
Keys(source) == FlattenSeq([i \in DOMAIN source |-> IF source[i] = "\n" THEN <<"\\", "\n">> ELSE <<source[i]>>])

typeText(source) ==
  /\ phase = "idle" /\ input = <<>> /\ Typable(source)
  /\ R!type(Keys(source) \o <<"\n">>)
  /\ texts' = texts + 1 /\ typed' = source
  /\ UNCHANGED <<scanner, lines, pools, parser, phase>>

(* A line that is not of the text, before any line of it. *)
typeOther(first) ==
  /\ phase = "idle"
  /\ IF first = "/eval" THEN Following # {} ELSE input # <<>>
  /\ input # <<>> => input[1] \notin {"\n", "/help", "/eval"}
  /\ R!type(<<first, "\n">>)
  /\ UNCHANGED <<scanner, lines, pools, parser, asked, phase>>

(* The loop of repl reads a line. *)
readLine ==
  /\ phase = "idle"
  /\ R!skipLine \/ R!joinLine
  /\ UNCHANGED <<scanner, lines, pools, parser, asked, phase>>

interpretLines ==
  /\ phase = "idle"
  /\ R!completeLine
  /\ interpret(R!Complete)
  /\ typed' = <<>>
  /\ UNCHANGED texts

interpretFile(source) ==
  /\ phase = "idle"
  /\ R!eval
  /\ interpret(source)
  /\ texts' = texts + 1
  /\ UNCHANGED typed

Parsing == phase = "compiling" /\ pending = 0

(* The token behind: errors of the scanner are reported and passed over. *)
Behind == IF token.type = "ERROR" THEN previous ELSE token

(* The rule of a literal emits its constant before it looks further; after an *)
(* error the parser may pass over tokens.                                    *)
Parsed == used \/ hadError \/ previous.type \notin StringTypes \cup NumberTypes

(* advance(), one call of scanToken: also past the end, which match() does. *)
advance ==
  /\ Parsing /\ previous.type # "EOF" /\ Parsed
  /\ S!scanToken
  /\ previous' = Behind
  /\ hadError' = (hadError \/ token'.type = "ERROR")
  /\ used' = (token.type = "ERROR" /\ used)
  /\ UNCHANGED <<repl, lines, pools, asked, phase, pending, origins>>

(* emitBytes(n, ...) for the token behind. *)
emitBytes(n) ==
  /\ Parsing /\ ~used /\ token.type # "ERROR"
  /\ pending' = n /\ used' = TRUE
  /\ UNCHANGED <<repl, scanner, lines, asked, phase, previous, hadError, origins>>

(* string(), string_escape(). *)
string == previous.type \in StringTypes /\ emitBytes(3) /\ P!emitString(StringValue(previous))

(* number(), number_bin(), number_hex(). *)
number == previous.type \in NumberTypes /\ emitBytes(3) /\ P!emitNumber(NumberValue(previous))

(* error(), of an index that does not fit. *)
tooManyConstants ==
  /\ Parsing /\ ~used /\ token.type # "ERROR"
  /\ hadError' = TRUE /\ used' = TRUE
  /\ UNCHANGED <<repl, scanner, lines, asked, phase, previous, pending, origins>>

(* function(): the closure of a declaration that `fun` begins. *)
function ==
  /\ previous.type = "KEYWORD"
  /\ IF P!Fits(P!addConstant) THEN emitBytes(3) ELSE tooManyConstants
  /\ P!emitFunction(<<"function", Cardinality({i \in DOMAIN constants : constants[i][1] = "function"})>>)

(* A rule with an instruction of one byte; emitReturn at the end of the text. *)
instruction ==
  /\ previous.type \notin StringTypes \cup NumberTypes \cup {"KEYWORD", "NONE"}
  /\ emitBytes(IF previous.type = "EOF" THEN 2 ELSE 1)
  /\ UNCHANGED pools

emitByte ==
  /\ pending > 0
  /\ L!chunk_write(previous.line)
  /\ pending' = pending - 1
  /\ origins' = Append(origins, previous.end)
  /\ UNCHANGED <<repl, scanner, pools, asked, phase, previous, hadError, used>>

(* compile returns: with NULL if there was an error, of the scanner or other. *)
endCompiler ==
  /\ Parsing /\ previous.type = "EOF" /\ used
  /\ phase' \in {"idle"} \cup (IF hadError THEN {} ELSE {"running"})
  /\ UNCHANGED <<repl, scanner, lines, pools, parser, asked>>

(* runtimeError, once the byte at offset has been read. *)
runtimeError(offset) ==
  /\ phase = "running"
  /\ L!getLine(offset)
  /\ UNCHANGED <<repl, scanner, pools, parser, asked, phase>>

getLine ==
  /\ L!Halve \/ L!Conclude
  /\ UNCHANGED <<repl, scanner, pools, parser, asked, phase>>

(* A string is made by concatenation or by a method: interned, no constant. *)
newString(chars) ==
  /\ phase = "running" /\ search.state # "searching"
  /\ P!copyString(<<"string", chars>>)
  /\ UNCHANGED <<repl, scanner, lines, parser, asked, phase>>

(* The program has ended, or its error has been printed. *)
finish ==
  /\ phase = "running" /\ search.state # "searching"
  /\ phase' = "idle"
  /\ UNCHANGED <<repl, scanner, lines, pools, parser, asked>>

Next ==
  \/ \E source \in Following \cap Typed : typeText(source)
  \/ \E first \in {"\n", "/help", "/eval"} : typeOther(first)
  \/ readLine
  \/ interpretLines
  \/ \E source \in Following : interpretFile(source)
  \/ advance \/ string \/ number \/ function \/ instruction \/ emitByte \/ endCompiler
  \/ \E offset \in 0 .. Len(written) - 1 : runtimeError(offset)
  \/ \E chars \in Made : newString(chars)
  \/ getLine \/ finish

Spec == Init /\ [][Next]_vars

----------------------------------------------------------------------------
(* Properties. *)

TypeOK ==
  /\ text \in Seq(S!Char)
  /\ current \in 1 .. Len(text) + 1 /\ line \in 1 .. Len(text) + 1
  /\ \A t \in {token, previous} :
       t.start \in 1 .. Len(text) + 1 /\ t.end \in t.start .. Len(text) + 1 /\ t.line \in 1 .. line
  /\ L!TypeOK /\ P!TypeOK
  /\ fullLineCapacity \in Nat /\ typed \in Seq(S!Char)
  /\ texts \in 0 .. MaxTexts /\ phase \in {"idle", "compiling", "running"}
  /\ hadError \in BOOLEAN /\ used \in BOOLEAN /\ pending \in 0 .. 3
  /\ origins \in Seq(1 .. Len(text) + 1) /\ Len(origins) = Len(written)

(* What a token of the language reference is is one for the scanner, as long *)
(* as can be; where it reports an error no token could begin that reaches as *)
(* far (README.md:19-46; scanner.c:251).                                     *)
TokensMatchGrammar ==
  LET from(t, n) == SubSeq(text, t.start, n)
  IN  /\ token.type \notin {"NONE", "EOF", "ERROR"} =>
           /\ S!Spelled(token.type, Lexeme(token))
           /\ \A n \in token.end .. Len(text) : ~S!IsToken(from(token, n))
      /\ token.type = "ERROR" => \A n \in token.end - 1 .. Len(text) : ~S!IsToken(from(token, n))

(* The scanner looks at the second character behind the prefix of a base     *)
(* only: it is a digit of that base exactly if the literal is one.           *)
PrefixShows(i, letter, digits) ==
  S!At(i) \in S!Digit /\ S!At(i + 1) = letter
    => (S!At(i + 3) \in digits <=> S!At(i) = "0" /\ S!At(i + 2) \in digits)
PrefixRead(i) == PrefixShows(i, "b", S!BinDigit) /\ PrefixShows(i, "x", S!HexDigit)

(* Tokens and errors are those of the language reference except in two cases,*)
(* and never in these: where the character behind the prefix of a base, that *)
(* nobody looks at, is not what the one after it lets expect, and in a string*)
(* with a newline no backslash takes (scanner.c:249 and 330).                *)
MismatchesKnown ==
  token.type # "NONE" =>
    (TokensMatchGrammar
       <=> PrefixRead(token.start) /\ ~(token.type \in StringTypes /\ S!HasNewline(Lexeme(token))))

Gap == SubSeq(text, previous.end, token.start - 1)

(* Between one token and the next, and before the end, lie blanks, comments  *)
(* and /*/, which is none for the language reference and one for the scanner *)
(* (scanner.c:104), and nothing else: no character is lost (scanner.c:72).   *)
OnlyBlanksSkipped ==
  ~hadError /\ token.type # "NONE" => S!IsBlank(Gap, {<<"/", "*", "/">>})

NewlinesBefore(n) == Cardinality({i \in 1 .. n - 1 : text[i] = "\n"})
NoNewlineTaken ==
  \A i \in 1 .. Len(text) - 1 :
    text[i + 1] = "\n" => text[i] # "\\" /\ ~(i > 1 /\ text[i - 1] \in S!Digit /\ text[i] \in {"b", "x"})

(* The line an error message names is the line where the token ends whose    *)
(* code failed, also across comments, strings and lines without code; only a *)
(* newline that a backslash or the prefix of a base takes with it is not     *)
(* counted (scanner.c:83, vm.c:65).                                          *)
LineReported ==
  search.state = "found" /\ NoNewlineTaken => search.line = 1 + NewlinesBefore(origins[search.offset + 1])

(* A string literal means its characters, with backslashes before a quote or *)
(* a backslash dropped, and the memory allocated for it is filled exactly    *)
(* (object.c:202).                                                           *)
StringsKeepMeaning ==
  previous.type \in StringTypes =>
    LET u == Lexeme(previous)
        taken == S!IsTaken(u)
        meant == {i \in 2 .. Len(u) - 1 : ~(u[i] = "\\" /\ ~taken[i] /\ u[i + 1] \in S!Escaped)}
        chars == StringValue(previous)[2]
    IN  /\ Len(chars) = Cardinality(meant)
        /\ \A i \in meant : chars[Cardinality({j \in meant : j <= i})] = u[i]
        /\ previous.type = "STRING_ESCAPE" => actualLength(Inside(u)) = Cardinality(meant)

(* The text interpreted is the one typed, whatever empty lines, commands and *)
(* files come between its lines (entrance.c:143).                            *)
TextAsTyped == [][interpretLines => text' = typed]_vars

(* The lines joined so far lie in their buffer, and so does the text they    *)
(* make (entrance.c:179).                                                    *)
FullLineFits ==
  [][R!Fits(Len(fullLine))' /\ (interpretLines => R!Fits(Len(text))')]_vars

LineFound == L!LineFound
RunsFit == L!RunsFit
OperandsDenote == P!OperandsDenote
FunctionsDenote == P!FunctionsDenote
Deduplicated == P!Deduplicated
=============================================================================
