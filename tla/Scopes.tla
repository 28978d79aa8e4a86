------------------------------- MODULE Scopes -------------------------------
(***************************************************************************)
(* The scopes of prsl as a value: what an Environment and the parents it   *)
(* is linked to look like from the scope the program is in.                *)
(*                                                                         *)
(* The code never captures an environment (FuncObj keeps the declaration   *)
(* only), so the environments that can still be reached at any moment form *)
(* one stack: the scopes opened and not yet left, innermost last.  A       *)
(* function body runs in a scope without a parent; it hides everything     *)
(* below it.  EnvironmentManager.tla models the pointers themselves and is *)
(* shown to implement this view; Semantics.tla and Interpreter.tla, which  *)
(* instantiate the C++ template with bool and PrslObject, use it.          *)
(***************************************************************************)
EXTENDS Naturals, Sequences

CONSTANTS Name,     \* the identifiers of the program
          Absent    \* marks a name a scope has no binding for

\* The member objects of an Environment<Value>.
Objects(Value) == [Name -> Value \cup {Absent}]
Empty == [x \in Name |-> Absent]

\* global: parentEnv = nullptr, the scope starts a new chain.
Scope(Value) == [objects : Objects(Value), global : BOOLEAN]
Opened(isGlobal) == [objects |-> Empty, global |-> isGlobal]

\* The scopes a lookup that starts in the innermost scope can reach.
\* Mutant: a function does not hide what is outside.
VisibleThrough(s) == DOMAIN s
Visible(s) == {i \in DOMAIN s : \A k \in (i + 1)..Len(s) : ~s[k].global}

\* The reachable scopes that bind x, and the one the walk finds first.
Holders(s, x) == {i \in Visible(s) : s[i].objects[x] # Absent}
Holder(s, x) == CHOOSE i \in Holders(s, x) : \A j \in Holders(s, x) : j <= i

contains(s, x) == Holders(s, x) # {}
get(s, x) == s[Holder(s, x)].objects[x]
Bind(s, i, x, v) == [s EXCEPT ![i] = [@ EXCEPT !.objects[x] = v]]
assign(s, x, v) == Bind(s, Holder(s, x), x, v)
defineOrAssign(s, x, v) ==
  IF contains(s, x) THEN assign(s, x, v) ELSE Bind(s, Len(s), x, v)

\* withNewEnviron before and after the action it runs.
Enter(s, isGlobal) == Append(s, Opened(isGlobal))
\* Mutant: the scope stays.
LeaveNothing(s) == s
Leave(s) == SubSeq(s, 1, Len(s) - 1)

=============================================================================
