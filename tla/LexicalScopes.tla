---------------------------- MODULE LexicalScopes ----------------------------
(***************************************************************************)
(* What EnvironmentManager promises to the three visitors that own one:    *)
(* block structure with lexical lookup, every operation a single step.     *)
(***************************************************************************)
EXTENDS Scopes

CONSTANT Value     \* what a variable is bound to (the parameter VarValue)

VARIABLES scopes,   \* the open scopes, innermost last
          result    \* what the last operation returned to the visitor

vars == <<scopes, result>>

Done == <<"done">>
Undef == <<"undef">>    \* UndefVarAccess left the manager: the program is over
Results ==
  {Done, Undef} \cup ({"value"} \X Value) \cup ({"bool"} \X BOOLEAN)

TypeOK ==
  /\ scopes \in Seq(Scope(Value))
  /\ Len(scopes) > 0
  /\ result \in Results

Init ==
  /\ scopes = <<Opened(TRUE)>>
  /\ result = Done

\* The exception is never caught before the visitor is destroyed.
Alive == result # Undef

Get(x) ==
  /\ result' = IF contains(scopes, x) THEN <<"value", get(scopes, x)>> ELSE Undef
  /\ UNCHANGED scopes

Contains(x) ==
  /\ result' = <<"bool", contains(scopes, x)>>
  /\ UNCHANGED scopes

Assign(x, v) ==
  IF contains(scopes, x)
    THEN /\ scopes' = assign(scopes, x, v)
         /\ result' = Done
    ELSE /\ result' = Undef
         /\ UNCHANGED scopes

Define(x, v) ==
  /\ scopes' = defineOrAssign(scopes, x, v)
  /\ result' = Done

EnterScope(isGlobal) ==
  /\ scopes' = Enter(scopes, isGlobal)
  /\ result' = Done

LeaveScope ==
  /\ Len(scopes) > 1
  /\ scopes' = Leave(scopes)
  /\ result' = Done

Next ==
  /\ Alive
  /\ \/ \E x \in Name : Get(x) \/ Contains(x)
     \/ \E x \in Name, v \in Value : Assign(x, v) \/ Define(x, v)
     \/ \E isGlobal \in BOOLEAN : EnterScope(isGlobal)
     \/ LeaveScope

Spec == Init /\ [][Next]_vars

=============================================================================
