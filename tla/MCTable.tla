------------------------------ MODULE MCTable -------------------------------
(***************************************************************************)
(* Three strings on tables of two, four and eight buckets.  In the small   *)
(* tables all three share their home, the last bucket, in the large one    *)
(* still two, so probes collide and wrap; the hashes exceed the capacity,  *)
(* so masking matters.                                                     *)
(***************************************************************************)
EXTENDS Table

CONSTANTS k1, k2, k3, nil, true

MCKeys == {k1, k2, k3}
MCHash == [k \in MCKeys |-> CASE k = k1 -> 7 [] k = k2 -> 15 [] k = k3 -> 11]
MCValues == {nil, true}
=============================================================================
