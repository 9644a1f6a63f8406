-------------------------------- MODULE Dict --------------------------------
(***************************************************************************)
(* What a table of FliteLang promises the virtual machine: a partial map   *)
(* from interned strings to values.  A global is defined, assigned (an     *)
(* undefined name is refused and stays undefined) and read; a field is     *)
(* put, removed and read; the table of a built-in module is sealed, after  *)
(* which nothing changes it.  Table.tla implements it.                     *)
(***************************************************************************)
CONSTANTS Keys,      \* the interned strings used as keys
          Values,    \* the values a key can be bound to
          Absent     \* marks a key that is bound to nothing

VARIABLES dict,      \* the map
          sealed,    \* TRUE once the table belongs to a built-in module
          answer     \* what the last completed operation returned

vars == <<dict, sealed, answer>>

Bound(k) == dict[k] # Absent

Init ==
  /\ dict = [k \in Keys |-> Absent]
  /\ sealed = FALSE
  /\ answer = [said |-> "none", value |-> Absent]

Reply(said, value) == answer' = [said |-> said, value |-> value]

(* Bind k to v; the answer tells whether k is new. *)
Put(k, v) ==
  /\ ~sealed
  /\ dict' = [dict EXCEPT ![k] = v]
  /\ Reply(IF Bound(k) THEN "old" ELSE "new", Absent)
  /\ UNCHANGED sealed

(* Assign to a name that must already be bound. *)
Assign(k, v) ==
  /\ ~sealed
  /\ Bound(k)
  /\ dict' = [dict EXCEPT ![k] = v]
  /\ Reply("old", Absent)
  /\ UNCHANGED sealed

AssignUndefined(k) ==
  /\ ~sealed
  /\ ~Bound(k)
  /\ Reply("undefined", Absent)
  /\ UNCHANGED <<dict, sealed>>

Delete(k) ==
  /\ ~sealed
  /\ dict' = [dict EXCEPT ![k] = Absent]
  /\ Reply(IF Bound(k) THEN "deleted" ELSE "missing", Absent)
  /\ UNCHANGED sealed

Refuse ==
  /\ sealed
  /\ Reply("refused", Absent)
  /\ UNCHANGED <<dict, sealed>>

Get(k) ==
  /\ Reply(IF Bound(k) THEN "found" ELSE "missing", dict[k])
  /\ UNCHANGED <<dict, sealed>>

Seal ==
  /\ ~sealed
  /\ sealed' = TRUE
  /\ UNCHANGED <<dict, answer>>

Next ==
  \/ \E k \in Keys, v \in Values : Put(k, v) \/ Assign(k, v)
  \/ \E k \in Keys : AssignUndefined(k) \/ Delete(k) \/ Get(k)
  \/ Refuse
  \/ Seal

Spec == Init /\ [][Next]_vars
=============================================================================
