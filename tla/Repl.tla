-------------------------------- MODULE Repl --------------------------------
(***************************************************************************)
(* How the REPL (repl of src/entrance.c) makes texts of the lines it reads:*)
(* a line that ends in a backslash is joined with the next one, an empty   *)
(* line is passed over, a command is obeyed on the way.  Session interprets*)
(* the texts.                                                              *)
(*                                                                         *)
(* A command is one character here: "/help" stands for those that print,   *)
(* "/eval" for the one that interprets a file.  "/exit" ends the program.  *)
(***************************************************************************)
EXTENDS Integers, Sequences

CONSTANTS LineSize,   \* sizeof(line)
          FirstRoom,  \* the first fullLineCapacity
          MoreRoom    \* what it grows by

VARIABLES
  input,            \* what has been typed and not been read
  fullLine,         \* the lines joined so far, fullLineLength characters
  fullLineCapacity

Init == input = <<>> /\ fullLine = <<>> /\ fullLineCapacity = FirstRoom

(* fgets: up to a newline, as far as the buffer goes. *)
LineLen ==
  CHOOSE n \in 1 .. Len(input) :
    /\ input[n] = "\n" \/ n = LineSize - 1 \/ n = Len(input)
    /\ n < LineSize /\ \A i \in 1 .. n - 1 : input[i] # "\n"
Line == SubSeq(input, 1, LineLen)

Continues == LineLen > 1 /\ Line[LineLen - 1] = "\\"
Is(command) == ~Continues /\ Line[1] = command

(* A mutant: the characters of the line are counted with their terminator. *)
KeepsNewline == Line

(* What is copied: without the newline, or with it in place of a backslash. *)
Kept == IF Continues THEN SubSeq(Line, 1, LineLen - 2) \o <<"\n">> ELSE SubSeq(Line, 1, LineLen - 1)

(* A mutant: the line to come is not reckoned with. *)
FullOnly == Len(fullLine) + 1 >= fullLineCapacity

NeedsRoom == Len(fullLine) + LineLen + 1 >= fullLineCapacity

----------------------------------------------------------------------------
(* What is typed is read later; a command may be typed before the next line. *)
type(chars) ==
  /\ input' = chars \o input
  /\ UNCHANGED <<fullLine, fullLineCapacity>>

fgets == input # <<>> /\ input' = SubSeq(input, LineLen + 1, Len(input))

(* An empty line, "/help" or "/clear". *)
skipLine ==
  /\ fgets
  /\ Is("\n") \/ Is("/help")
  /\ UNCHANGED <<fullLine, fullLineCapacity>>

eval ==
  /\ fgets
  /\ Is("/eval")
  /\ UNCHANGED <<fullLine, fullLineCapacity>>

IsText == \A c \in {"\n", "/help", "/eval"} : ~Is(c)
copyLine ==
  fullLineCapacity' = IF NeedsRoom THEN fullLineCapacity + MoreRoom ELSE fullLineCapacity

(* The line goes on with the next one... *)
joinLine ==
  /\ fgets
  /\ Continues
  /\ copyLine
  /\ fullLine' = fullLine \o Kept

(* ... or the text is complete: it is interpreted, and the next begins. *)
Complete == fullLine \o Kept
completeLine ==
  /\ fgets
  /\ IsText /\ ~Continues
  /\ copyLine
  /\ fullLine' = <<>>

----------------------------------------------------------------------------
(* Characters so many, and the NUL behind them, fit the buffer. *)
Fits(n) == n < fullLineCapacity
=============================================================================
