-------------------------------- MODULE MCGc --------------------------------
(***************************************************************************)
(* A handful of addresses, and the two kinds of static objects.            *)
(***************************************************************************)
EXTENDS Gc, TLC

CONSTANTS a1, a2, a3, a4, module

MCClasses == {"class", "closure"}
MCClosures == {"closure", "upvalue"}
MCArrays == {"array"}
MCObjects == {"instance"}
MCMixed == {"array", "instance"}
MCModules == {"array", "instance", "module"}
MCPrograms == {MCClasses, MCClosures, MCModules}
MCData == {MCArrays, MCObjects, MCMixed}
MCShared == {MCClosures}

(* A class, its method, an instance and a bound method; two locals and the   *)
(* closure that captures both; an array of two elements; three objects in a  *)
(* cycle; an array and an object that each refer to two.                     *)
MCSize ==
  [p \in {MCClasses, MCClosures, MCArrays, MCObjects, MCMixed, MCModules} |->
     CASE p = MCClasses   -> [objects |-> 4, slots |-> 2, refs |-> 1]
       [] p = MCClosures  -> [objects |-> 3, slots |-> 3, refs |-> 2]
       [] p = MCArrays    -> [objects |-> 2, slots |-> 3, refs |-> 2]
       [] p = MCObjects   -> [objects |-> 3, slots |-> 2, refs |-> 1]
       [] p = MCMixed     -> [objects |-> 2, slots |-> 2, refs |-> 2]
       [] p = MCModules   -> [objects |-> 2, slots |-> 2, refs |-> 1]]
MCSymmetry == Permutations(Addresses)
=============================================================================
