----------------------------- MODULE MCSession ------------------------------
(***************************************************************************)
(* Texts over small alphabets, each with the characters that interact, and *)
(* programs of literals to fill the constant table.                        *)
(***************************************************************************)
EXTENDS Session, TLC

Over(chars, n) == UNION {[1 .. m -> chars] : m \in 0 .. n}

Words == {<<"1", " ">>, <<"7", "\n">>, <<"\"", "b", "\"">>, <<"f", "u", "n", " ">>}
Programs(n) == {FlattenSeq(w) : w \in Over(Words, n)}

(* Texts that end inside a string after a backslash are read past their end, *)
(* and a last character that begins no token is not reported.                *)
EndsCleanly(t) == t = <<>> \/ t[Len(t)] \notin {"\\", "#"}

(* A digit, the letter of a base and what follows, also too little of it. *)
Prefixed == {<<d, base>> \o t : d \in {"0", "7"}, base \in {"b", "x"}, t \in Over({"0", "7", " "}, 3) \ {<<>>}}

MCTexts ==
  {t \in Over({"1", ".", "e", "+"}, 5)
      \cup Over({"/", "*", "\n", "1"}, 5)
      \cup Over({"\"", "\\", "b", "\n"}, 6)
      \cup Over({"@", "s", "y"}, 5)
      \cup Over({">", "=", " "}, 3)
      \cup Over({"#", "1", "\n"}, 4)
      \cup Over({"1", "\n"}, 6)
      \cup Prefixed
      \cup Programs(4) : EndsCleanly(t)}
MCRepeated == Programs(2)
(* The longest line just fits its buffer. *)
MCTyped == {<<"7", "\n">> \o w : w \in Words} \cup Over({"1", "\n"}, 4) \cup {FlattenSeq([i \in 1 .. 4 |-> <<"f", "u", "n", " ">>])}
MCMade == {<<"b">>}
=============================================================================
