------------------------------- MODULE Scanner ------------------------------
(***************************************************************************)
(* The scanner (src/scanner.c).  A text is a sequence of characters; one   *)
(* character stands for each class the scanner tells apart.  Positions     *)
(* start at 1, and the terminating NUL is at Len(text) + 1.  An action is  *)
(* a call of scanToken.                                                    *)
(***************************************************************************)
EXTENDS Naturals, Sequences, FiniteSets, Functions

VARIABLES
  text,     \* the source
  current,  \* scanner.current
  line,     \* scanner.line
  token     \* the token returned last: its type, first position, and the
            \* position and line after it

vars == <<text, current, line, token>>

NUL == "NUL"
Digit == {"0", "1", "7"}
BinDigit == {"0", "1"}
HexDigit == Digit \cup {"b", "e"}
Letter == {"b", "e", "f", "n", "s", "u", "x", "y"}
Whitespace == {" ", "\n"}
Escaped == {"\"", "\\"}
Char == Digit \cup Letter \cup Whitespace \cup Escaped \cup {".", "+", "*", "/", ",", "@", ">", "=", "#"}

(* Spellings of which the keywords and the modules have more. *)
Keyword == {<<"f", "u", "n">>}
Module == {<<"@", "s", "y", "s">>}

At(i) == IF i <= Len(text) THEN text[i] ELSE NUL
Lexeme(i, j) == SubSeq(text, i, j - 1)

(* while (peek() is in S) advance(): the first position from i on not in S. *)
After(S, i) == CHOOSE j \in i .. Len(text) + 2 : At(j) \notin S /\ \A k \in i .. j - 1 : At(k) \in S

Found(type, end) == [type |-> type, end |-> end]

(* A mutant: newlines in comments are not counted. *)
NewlinesOutside(i, j) ==
  Cardinality({k \in i .. j - 1 : At(k) = "\n" /\ \A m \in i .. k : At(m) \in Whitespace})

(* The newlines passed on the way from i to j. *)
NewlinesIn(i, j) == Cardinality({k \in i .. j - 1 : At(k) = "\n"})

(* A mutant: the star that opens a comment cannot close it, and closing one   *)
(* looks at every other character only.                                       *)
EveryOther(i) ==
  LET closing == {k \in i .. Len(text) : (k - i) % 2 = 0 /\ At(k) = "*" /\ At(k + 1) = "/"}
  IN  IF closing = {} THEN Len(text) + 1 ELSE (CHOOSE k \in closing : \A m \in closing : k <= m) + 2

(* Past the block comment whose opening star is at i: the star may close it   *)
(* too.  Without an end it reaches to the end of the text.                    *)
AfterComment(i) ==
  LET closing == {k \in i .. Len(text) : At(k) = "*" /\ At(k + 1) = "/"}
  IN  IF closing = {} THEN Len(text) + 1 ELSE (CHOOSE k \in closing : \A m \in closing : k <= m) + 2

Unterminated(i) == \A k \in i .. Len(text) : ~(At(k) = "*" /\ At(k + 1) = "/")

(* skipWhitespace from i: where it stops, and whether in an open comment. *)
skipWhitespace(i) ==
  LET skip[j \in 1 .. Len(text) + 2] ==
        IF At(j) \in Whitespace THEN skip[j + 1]
        ELSE IF At(j) = "/" /\ At(j + 1) = "/" THEN skip[After(Range(text) \ {"\n"}, j)]
        ELSE IF At(j) = "/" /\ At(j + 1) = "*" /\ Unterminated(j + 1)
          THEN Found("UNTERMINATED_COMMENT", Len(text) + 1)
        ELSE IF At(j) = "/" /\ At(j + 1) = "*" THEN skip[AfterComment(j + 1)]
        ELSE Found("IGNORE", j)
  IN  skip[i]

(* identifierType, builtinType. *)
identifier(start, i) ==
  LET end == After(Letter \cup Digit, i)
  IN  Found(IF Lexeme(start, end) \in Keyword THEN "KEYWORD" ELSE "IDENTIFIER", end)

mention(start, i) ==
  LET end == After(Letter \cup Digit, i)
  IN  Found(IF Lexeme(start, end) \in Module THEN "MODULE" ELSE "ERROR", end)

(* A number with a base prefix: the prefix letter and the character after it  *)
(* are skipped unseen.                                                        *)
BaseNumber(type, digits, i) ==
  IF At(i + 2) \in digits THEN Found(type, After(digits, i + 2)) ELSE Found("ERROR", i + 2)

(* A mutant: a point is part of the number without a digit after it. *)
PointAlone(i) == IF At(i) = "." THEN After(Digit, i + 1) ELSE i

Fraction(i) == IF At(i) = "." /\ At(i + 1) \in Digit THEN After(Digit, i + 1) ELSE i

Exponent(i) ==
  LET sign == IF At(i + 1) = "+" THEN i + 2 ELSE i + 1
  IN  IF At(i) # "e" THEN Found("NUMBER", i)
      ELSE IF At(sign) \notin Digit THEN Found("ERROR", sign)
      ELSE Found("NUMBER", After(Digit, sign))

(* number(), its first digit behind it. *)
number(i) ==
  IF At(i) = "b" THEN BaseNumber("NUMBER_BIN", BinDigit, i)
  ELSE IF At(i) = "x" THEN BaseNumber("NUMBER_HEX", HexDigit, i)
  ELSE Exponent(Fraction(After(Digit, i)))

(* string(): a backslash takes the next character with it, newline or quote. *)
string(i) ==
  LET body[j \in 1 .. Len(text) + 2] ==
        IF At(j) \in {"\"", NUL} THEN [end |-> j, lines |-> 0, escape |-> FALSE]
        ELSE IF At(j) = "\\" THEN [body[j + 2] EXCEPT !.escape = @ \/ At(j + 1) \in Escaped]
        ELSE [body[j + 1] EXCEPT !.lines = @ + IF At(j) = "\n" THEN 1 ELSE 0]
  IN  body[i]

StringType(s) ==
  IF At(s.end) = NUL THEN "ERROR" ELSE IF s.escape THEN "STRING_ESCAPE" ELSE "STRING"

(* match(): the longer operator if the next character completes it. *)
greater(i) ==
  IF At(i) # ">" THEN (IF At(i) = "=" THEN Found("GREATER_EQUAL", i + 1) ELSE Found("GREATER", i))
  ELSE IF At(i + 1) = ">" THEN Found("BIT_SHR", i + 2) ELSE Found("BIT_SAR", i + 1)

(* Any other character begins a token of its own, or none does: then the one  *)
(* after it is skipped too, and at the end of the text nothing is reported.   *)
other(c, i) ==
  IF c \in {".", "+", "*", "/", ","} THEN Found(c, i)
  ELSE IF At(i) = NUL THEN Found("EOF", i) ELSE Found("ERROR", i + 1)

(* The token that begins at i. *)
TokenAt(i) ==
  LET c == At(i)
  IN  IF c = NUL THEN Found("EOF", i)
      ELSE IF c \in Letter THEN identifier(i, i + 1)
      ELSE IF c \in Digit THEN number(i + 1)
      ELSE IF c = "@" THEN (IF At(i + 1) \in Letter THEN mention(i, i + 1) ELSE Found("ERROR", i + 1))
      ELSE IF c = ">" THEN greater(i + 1)
      ELSE IF c = "=" THEN (IF At(i + 1) = "=" THEN Found("EQUAL_EQUAL", i + 2) ELSE Found("EQUAL", i + 1))
      ELSE other(c, i + 1)

makeToken(type, start, end, l) == [type |-> type, start |-> start, end |-> end, line |-> l]

(* scanToken(). *)
scanToken ==
  LET blank == skipWhitespace(current)
      start == blank.end
      before == line + NewlinesIn(current, start)
      s == string(start + 1)
      found == TokenAt(start)
  IN  /\ token' =
           IF blank.type = "UNTERMINATED_COMMENT" THEN makeToken("ERROR", start, start, before)
           ELSE IF At(start) = "\""
             THEN makeToken(StringType(s), start, IF At(s.end) = NUL THEN s.end ELSE s.end + 1,
                            before + s.lines)
           ELSE makeToken(found.type, start, found.end, before)
      /\ current' = token'.end
      /\ line' = token'.line
      /\ UNCHANGED text

None == makeToken("NONE", 1, 1, 1)

(* A mutant: lines go on counting from one text to the next. *)
LinesGoOn(source) ==
  /\ text' = source
  /\ current' = 1 /\ line' = line
  /\ token' = makeToken("NONE", 1, 1, line)

(* scanner_init. *)
scanner_init(source) ==
  /\ text' = source
  /\ current' = 1 /\ line' = 1
  /\ token' = None

----------------------------------------------------------------------------
(* What the language reference says (README.md:18-46 and 108), as predicates *)
(* on what a token or a blank is spelled with; a quote ends a string unless  *)
(* a backslash takes it, and a newline is in one only if a backslash does.   *)

AllIn(S, u) == \A i \in DOMAIN u : u[i] \in S
From(u, n) == SubSeq(u, n, Len(u))

IsDigits(u) == u # <<>> /\ AllIn(Digit, u)
IsScientific(u) ==
  \E n \in 1 .. Len(u) :
    /\ IsDigits(SubSeq(u, 1, n))
    /\ \E m \in n .. Len(u) :
         /\ m = n \/ (u[n + 1] = "." /\ IsDigits(SubSeq(u, n + 2, m)))
         /\ m = Len(u) \/ (u[m + 1] = "e" /\ (IsDigits(From(u, m + 2))
                                               \/ (Len(u) > m + 1 /\ u[m + 2] = "+" /\ IsDigits(From(u, m + 3)))))
IsPrefixed(u, letter, digits) ==
  Len(u) > 2 /\ u[1] = "0" /\ u[2] = letter /\ AllIn(digits, From(u, 3))
IsWord(u) == u # <<>> /\ u[1] \in Letter /\ AllIn(Letter \cup Digit, u)
(* The positions of a string that a backslash before them has taken. *)
IsTaken(u) ==
  LET taken[i \in 1 .. Len(u)] == i > 2 /\ u[i - 1] = "\\" /\ ~taken[i - 1]
  IN  taken
IsDelimited(u) ==
  /\ Len(u) > 1 /\ u[1] = "\"" /\ u[Len(u)] = "\""
  /\ LET taken == IsTaken(u)
     IN  {i \in 2 .. Len(u) : u[i] = "\"" /\ ~taken[i]} = {Len(u)}
HasEscape(u) == LET taken == IsTaken(u) IN \E i \in DOMAIN u : taken[i] /\ u[i] \in Escaped
HasNewline(u) == LET taken == IsTaken(u) IN \E i \in DOMAIN u : ~taken[i] /\ u[i] = "\n"
IsQuoted(u) == IsDelimited(u) /\ ~HasNewline(u)

(* What a token of each type can be spelled with. *)
Spelled(type, u) ==
  CASE type = "NUMBER" -> IsScientific(u)
    [] type = "NUMBER_BIN" -> IsPrefixed(u, "b", BinDigit)
    [] type = "NUMBER_HEX" -> IsPrefixed(u, "x", HexDigit)
    [] type = "STRING" -> IsQuoted(u) /\ ~HasEscape(u)
    [] type = "STRING_ESCAPE" -> IsQuoted(u) /\ HasEscape(u)
    [] type = "KEYWORD" -> u \in Keyword
    [] type = "IDENTIFIER" -> IsWord(u) /\ u \notin Keyword
    [] type = "MODULE" -> u \in Module
    [] type = "GREATER" -> u = <<">">>
    [] type = "GREATER_EQUAL" -> u = <<">", "=">>
    [] type = "BIT_SAR" -> u = <<">", ">">>
    [] type = "BIT_SHR" -> u = <<">", ">", ">">>
    [] type = "EQUAL" -> u = <<"=">>
    [] type = "EQUAL_EQUAL" -> u = <<"=", "=">>
    [] OTHER -> u = <<type>>
Types ==
  {"NUMBER", "NUMBER_BIN", "NUMBER_HEX", "STRING", "STRING_ESCAPE", "KEYWORD", "IDENTIFIER",
   "MODULE", "GREATER", "GREATER_EQUAL", "BIT_SAR", "BIT_SHR", "EQUAL", "EQUAL_EQUAL",
   ".", "+", "*", "/", ","}
IsToken(u) == \E type \in Types : Spelled(type, u)

IsComment(u) ==
  /\ Len(u) > 1 /\ u[1] = "/"
  /\ \/ u[2] = "/" /\ "\n" \notin Range(u)
     \/ u[2] = "*" /\ {i \in 3 .. Len(u) - 1 : u[i] = "*" /\ u[i + 1] = "/"} = {Len(u) - 1}
(* Blanks, comments and members of others, one after another. *)
IsBlank(u, others) ==
  LET blank[n \in 0 .. Len(u)] ==
        n = 0 \/ \E m \in 0 .. n - 1 :
                   /\ blank[m]
                   /\ \/ SubSeq(u, m + 1, n) \in {<<w>> : w \in Whitespace} \cup others
                      \/ IsComment(SubSeq(u, m + 1, n))
  IN  blank[Len(u)]
=============================================================================
