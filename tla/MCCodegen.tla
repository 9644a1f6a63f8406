----------------------------- MODULE MCCodegen ------------------------------
(***************************************************************************)
(* Small programs for Codegen: for each, the rules it may use and how      *)
(* often.  No program breaks out of a loop from behind a closure.          *)
(***************************************************************************)
EXTENDS Codegen, TLC

MCPrograms ==
  {[block |-> 2, var |-> 2, for |-> 1, break |-> 1, continue |-> 1],
   [for |-> 2, comma |-> 1, break |-> 1, continue |-> 1],
   [block |-> 1, for |-> 1, fun |-> 1, var |-> 1, get |-> 1],
   [block |-> 1, fun |-> 3, var |-> 1, get |-> 1, set |-> 1],
   [fun |-> 2, parameter |-> 2, get |-> 2],
   [fun |-> 1, parameter |-> 3, block |-> 1, var |-> 2],
   [block |-> 1, class |-> 1, method |-> 1, this |-> 1, fun |-> 1, return |-> 1],
   [branch |-> 2, case |-> 2, block |-> 1, var |-> 1],
   [branch |-> 1, case |-> 1, and |-> 1, or |-> 1],
   [unary |-> 1, binary |-> 1, bitwise |-> 1, module |-> 0, constant |-> 0],
   [getProperty |-> 1, setProperty |-> 1, getSubscript |-> 1, setSubscript |-> 1],
   [call |-> 1, invoke |-> 1, array |-> 1, object |-> 1],
   [branch |-> 1, case |-> 1, object |-> 2],
   [for |-> 1, object |-> 2],
   [object |-> 3]}

MCSymmetry == Permutations(Names)
=============================================================================
