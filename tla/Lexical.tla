------------------------------- MODULE Lexical ------------------------------
(***************************************************************************)
(* What FliteLang's variables mean to a program.  A local variable is a    *)
(* cell of its own; an activation of a function has a list of cells, those *)
(* of its locals in scope; a closure has a list of cells, those of the     *)
(* variables it captured.  Reading a variable gives the value last         *)
(* assigned to its cell, by whatever activation or closure, and whether or *)
(* not the activation that declared it has ended.  Vm.tla implements it on *)
(* a stack.                                                                *)
(***************************************************************************)
EXTENDS Naturals, Sequences

CONSTANT Script       \* the closure of top-level code, which captures nothing

VARIABLES env,        \* per activation: the closure it runs and its locals' cells
          captured,   \* captured[c]: the cells of closure c, for the closures that exist
          store       \* the values of the cells in use

vars == <<env, captured, store>>

Elements(s) == {s[i] : i \in DOMAIN s}
Used ==
  (UNION {Elements(env[i].cells) : i \in DOMAIN env})
    \cup (UNION {Elements(captured[c]) : c \in DOMAIN captured})

Top == env[Len(env)]
(* What the running code can name: its locals, and what its closure captured. *)
Visible ==
  Elements(Top.cells) \cup (IF Top.closure = Script THEN {} ELSE Elements(captured[Top.closure]))

(* The store keeps the cells in use; only the given ones may change. *)
StoreKeepsBut(cells) ==
  /\ DOMAIN store' = Used'
  /\ \A x \in Used' \ cells : x \in Used /\ store'[x] = store[x]

Init ==
  /\ env = <<>>
  /\ captured = [c \in {} |-> <<>>]
  /\ store = [x \in {} |-> 0]

(* A function or a script starts, with fresh cells for `this` and parameters. *)
Enter ==
  /\ Len(env') = Len(env) + 1
  /\ env = SubSeq(env', 1, Len(env))
  /\ LET cells == Top'.cells
     IN  /\ Top' = [closure |-> Top'.closure, cells |-> cells]
         /\ Top'.closure \in IF env = <<>> THEN {Script} ELSE DOMAIN captured
         /\ Elements(cells) \cap Used = {}
         /\ \A i, j \in DOMAIN cells : cells[i] = cells[j] => i = j
         /\ StoreKeepsBut(Elements(cells))
  /\ UNCHANGED captured

(* One more local in the running activation, the last one. *)
OneMoreLocal ==
  /\ env # <<>> /\ env' # <<>>
  /\ Len(Top'.cells) = Len(Top.cells) + 1

Declare ==
  /\ OneMoreLocal
  /\ LET x == Top'.cells[Len(Top.cells) + 1]
     IN  /\ x \notin Used
         /\ env' = [env EXCEPT ![Len(env)].cells = Append(@, x)]
         /\ StoreKeepsBut({x})
  /\ UNCHANGED captured

(* A scope, or the scopes inside a loop, end: the first n locals remain. *)
EndScope(n) ==
  /\ env' = [env EXCEPT ![Len(env)].cells = SubSeq(@, 1, n)]
  /\ StoreKeepsBut({})
  /\ UNCHANGED captured

(* The running activation ends, or a runtime error ends all of them. *)
Leave ==
  /\ env # <<>>
  /\ env' = SubSeq(env, 1, Len(env) - 1) \/ env' = <<>>
  /\ StoreKeepsBut({})
  /\ UNCHANGED captured

NewClosure(c) ==
  /\ c \notin DOMAIN captured
  /\ DOMAIN captured' = DOMAIN captured \cup {c}
  /\ \A d \in DOMAIN captured : captured'[d] = captured[d]

(* A new closure captures variables its creator can name. *)
MakeClosure(c) ==
  /\ env # <<>>
  /\ NewClosure(c)
  /\ Elements(captured'[c]) \subseteq Visible
  /\ StoreKeepsBut({})
  /\ UNCHANGED env

(* A local function is a new local; the function may capture that one too. *)
DeclareFunction(c) ==
  /\ OneMoreLocal
  /\ NewClosure(c)
  /\ LET x == Top'.cells[Len(Top.cells) + 1]
     IN  /\ x \notin Used
         /\ env' = [env EXCEPT ![Len(env)].cells = Append(@, x)]
         /\ Elements(captured'[c]) \subseteq Visible \cup {x}
         /\ StoreKeepsBut({x})

(* The program drops its last reference to a closure. *)
Forget(c) ==
  /\ \A i \in DOMAIN env : env[i].closure # c
  /\ captured' = [d \in DOMAIN captured \ {c} |-> captured[d]]
  /\ StoreKeepsBut({})
  /\ UNCHANGED env

Assign(x) ==
  /\ StoreKeepsBut({x})
  /\ UNCHANGED <<env, captured>>

(* Programs cannot see what a cell is: a local variable may move to another. *)
Move(x, y) ==
  LET moved(cells) == [j \in DOMAIN cells |-> IF cells[j] = x THEN y ELSE cells[j]]
  IN  /\ env' = [i \in DOMAIN env |-> [env[i] EXCEPT !.cells = moved(@)]]
      /\ captured' = [c \in DOMAIN captured |-> moved(captured[c])]
      /\ store' = [z \in Used' |-> IF z = y THEN store[x] ELSE store[z]]

Next ==
  \/ Enter \/ Declare \/ Leave
  \/ env # <<>> /\ \E n \in 0 .. Len(Top.cells) - 1 : EndScope(n)
  \/ \E c \in DOMAIN captured' : MakeClosure(c) \/ DeclareFunction(c)
  \/ \E c \in DOMAIN captured : Forget(c)
  \/ env # <<>> /\ \E x \in Visible : Assign(x) \/ \E y \in Used' \ Used : Move(x, y)

Spec == Init /\ [][Next]_vars
=============================================================================
