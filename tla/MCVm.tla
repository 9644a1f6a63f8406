-------------------------------- MODULE MCVm --------------------------------
(***************************************************************************)
(* A script and two functions of one parameter each; one value beside nil. *)
(***************************************************************************)
EXTENDS Vm, TLC

CONSTANTS f, g, nil, object, script

MCArity == [c \in {f, g} |-> 1]
MCSymmetry == Permutations({f, g})
=============================================================================
