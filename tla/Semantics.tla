------------------------------ MODULE Semantics ------------------------------
(***************************************************************************)
(* prsl/Semantics: the resolver, a TreeWalkerVisitor that checks, before   *)
(* anything is executed, that variables are assigned before they are read, *)
(* that functions are known where they are called, that ++ and -- apply to *)
(* variables and that nothing returns from top-level code.                 *)
(*                                                                         *)
(* One action visits one node, or runs the rest of a visit once the nodes  *)
(* below it are done.  A name is bound to FALSE while its first            *)
(* initializer is being resolved and to TRUE afterwards.                   *)
(***************************************************************************)
EXTENDS TreeWalker

CONSTANT Absent     \* marks a name a scope has no binding for

ASSUME AbsentNoBoolean == Absent \notin BOOLEAN

VARIABLES
  program,      \* the root given to visitStmt
  todo,         \* what the visitor has still to do
  scopes,       \* envManager: EnvironmentManager<bool>
  functions,    \* functionsManager: the names declared so far
  inFunction,
  verdict       \* how the walk ended, or that it has not

vars == <<program, todo, scopes, functions, inFunction, verdict>>

Env == INSTANCE Scopes

Running == "running"
Accepted == "accepted"
UndefVariable == "Attempt to access an undef variable"
OwnInitializer == "Can't read variable in its own initializer"
IllegalPostfix == "Illegal postfix expression"
UndefFunction == "Attempt to access an undef function"
TopLevelReturn == "Can't return from top-level code"
Errors ==
  {UndefVariable, OwnInitializer, IllegalPostfix, UndefFunction, TopLevelReturn}

TypeOK ==
  /\ program \in Program
  /\ todo \in Seq(Item)
  /\ scopes \in Seq(Env!Scope(BOOLEAN))
  /\ scopes # <<>>
  /\ functions \subseteq Name
  /\ inFunction \in BOOLEAN
  /\ verdict \in {Running, Accepted} \cup Errors

\* A resolver made for the program root.
InitWith(root) ==
  /\ program = root
  /\ todo = <<Visit(root)>>
  /\ scopes = <<Env!Opened(TRUE)>>
  /\ functions = {}
  /\ inFunction = FALSE
  /\ verdict = Running

Init == \E root \in Program : InitWith(root)

-----------------------------------------------------------------------------
At(phase, kinds) ==
  /\ verdict = Running
  /\ todo # <<>>
  /\ todo[1].phase = phase
  /\ todo[1].node.kind \in kinds
node == todo[1].node
Continue(items) == todo' = items \o Tail(todo)

\* throw reportRuntimeError(...): the walk stops where it is.
Reject(error) ==
  /\ verdict' = error
  /\ UNCHANGED <<todo, scopes, functions, inFunction>>

\* The nodes whose TreeWalkerVisitor method is not overridden.
Descend ==
  /\ At("visit", {"Literal", "Grouping", "Input", "Unary", "Binary", "If",
                  "While", "Print", "ExprStmt", "Function", "Null"})
  /\ Continue(VisitAll(node.kids))
  /\ UNCHANGED <<scopes, functions, inFunction, verdict>>

\* Mutant: only a missing binding is an error.
VarErrorLax == IF ~Env!contains(scopes, node.name) THEN UndefVariable ELSE Running
VarError ==
  IF ~Env!contains(scopes, node.name) THEN UndefVariable
  ELSE IF Env!get(scopes, node.name) = FALSE THEN OwnInitializer
  ELSE Running

VisitVarExpr ==
  /\ At("visit", {"Var"})
  /\ IF VarError # Running
       THEN Reject(VarError)
       ELSE /\ Continue(<<>>)
            /\ UNCHANGED <<scopes, functions, inFunction, verdict>>

\* The scopes once the name is defined, unless it can be found already.  Mutants:
\* it is not defined; it is defined in the outermost scope.
UndefinedYet == scopes
DefinedOutermost ==
  IF Env!contains(scopes, node.name) THEN scopes ELSE Env!Bind(scopes, 1, node.name, FALSE)
Defined ==
  IF Env!contains(scopes, node.name)
    THEN scopes
    ELSE Env!defineOrAssign(scopes, node.name, FALSE)

\* visitAssignmentExpr and visitVarStmt
VisitAssignment ==
  /\ At("visit", {"Assignment", "VarStmt"})
  /\ scopes' = Defined
  /\ Continue(VisitAll(node.kids) \o <<Resume(node)>>)
  /\ UNCHANGED <<functions, inFunction, verdict>>

ResumeAssignment ==
  /\ At("resume", {"Assignment", "VarStmt"})
  /\ scopes' = Env!assign(scopes, node.name, TRUE)
  /\ Continue(<<>>)
  /\ UNCHANGED <<functions, inFunction, verdict>>

VisitPostfixExpr ==
  /\ At("visit", {"Postfix"})
  /\ IF node.kids[1].kind \notin {"Var", "Assignment"}
       THEN Reject(IllegalPostfix)
       ELSE /\ Continue(VisitAll(node.kids))
            /\ UNCHANGED <<scopes, functions, inFunction, verdict>>

\* visitScopeExpr and visitBlockStmt
VisitBlock ==
  /\ At("visit", {"Scope", "Block"})
  /\ scopes' = Env!Enter(scopes, FALSE)
  /\ Continue(VisitAll(node.kids) \o <<Leaving(node)>>)
  /\ UNCHANGED <<functions, inFunction, verdict>>

\* Mutant: the scope stays open.
LeaveBlockOpen ==
  /\ At("leave", {"Scope", "Block"})
  /\ Continue(<<>>)
  /\ UNCHANGED <<scopes, functions, inFunction, verdict>>
LeaveBlock ==
  /\ At("leave", {"Scope", "Block"})
  /\ scopes' = Env!Leave(scopes)
  /\ Continue(<<>>)
  /\ UNCHANGED <<functions, inFunction, verdict>>

\* The scope of the parameters.
Parameters == {node.params[i] : i \in DOMAIN node.params}
Bound == [x \in Name |-> IF x \in Parameters THEN TRUE ELSE Absent]
FunctionScope == [objects |-> Bound, global |-> TRUE]

\* The name the function declares, if it has one.  Mutant: nobody asks.
DeclaredAnyway == {node.name}
Declared == {node.name} \ {NoName}

VisitFuncExpr ==
  /\ At("visit", {"Func"})
  /\ functions' = functions \cup Declared
  /\ scopes' = Append(scopes, FunctionScope)
  /\ inFunction' = TRUE
  /\ Continue(VisitAll(node.kids) \o <<LeavingWith(node, inFunction)>>)
  /\ UNCHANGED verdict

\* Mutant: inFunction is not restored.
LeaveFuncExprInside ==
  /\ At("leave", {"Func"})
  /\ scopes' = Env!Leave(scopes)
  /\ Continue(<<>>)
  /\ UNCHANGED <<functions, inFunction, verdict>>
LeaveFuncExpr ==
  /\ At("leave", {"Func"})
  /\ scopes' = Env!Leave(scopes)
  /\ inFunction' = todo[1].saved
  /\ Continue(<<>>)
  /\ UNCHANGED <<functions, verdict>>

VisitCallExpr ==
  /\ At("visit", {"Call"})
  /\ IF node.name \notin functions /\ ~Env!contains(scopes, node.name)
       THEN Reject(UndefFunction)
       ELSE /\ Continue(VisitAll(node.kids))
            /\ UNCHANGED <<scopes, functions, inFunction, verdict>>

\* The value is visited by TreeWalkerVisitor::visitReturnStmt and once more.
\* Mutant: visitReturnStmt visits the statement again instead of the value.
VisitReturnAgain ==
  /\ At("visit", {"Return"})
  /\ Continue(VisitAll(node.kids) \o <<Visit(node)>>)
  /\ UNCHANGED <<scopes, functions, inFunction, verdict>>
VisitReturnStmt ==
  /\ At("visit", {"Return"})
  /\ IF ~inFunction /\ node.isFunction
       THEN Reject(TopLevelReturn)
       ELSE /\ Continue(VisitAll(node.kids) \o VisitAll(node.kids))
            /\ UNCHANGED <<scopes, functions, inFunction, verdict>>

\* resolve(stmt, logger) returns.
Finish ==
  /\ verdict = Running
  /\ todo = <<>>
  /\ verdict' = Accepted
  /\ UNCHANGED <<todo, scopes, functions, inFunction>>

Next ==
  /\ UNCHANGED program
  /\ \/ Descend
     \/ VisitVarExpr
     \/ VisitAssignment \/ ResumeAssignment
     \/ VisitPostfixExpr
     \/ VisitBlock \/ LeaveBlock
     \/ VisitFuncExpr \/ LeaveFuncExpr
     \/ VisitCallExpr
     \/ VisitReturnStmt
     \/ Finish

Spec == Init /\ [][Next]_vars

\* The resolver is a sequential program: it runs until it returns or throws.
FairSpec == Spec /\ WF_vars(Next)

-----------------------------------------------------------------------------
(***************************************************************************)
(* Properties.                                                             *)
(***************************************************************************)

\* Every withNewEnviron in progress has exactly one scope, opened for the node
\* that will leave it: function scopes hide what is outside, block scopes do
\* not.  inFunction, saved and restored by hand, says whether one of them is a
\* function's.  A visit that misses its exit, or leaves twice, breaks this for the
\* rest of the program.
ScopesMatchVisits ==
  /\ ScopesNested(todo, scopes, {"Func"})
  /\ inFunction <=> \E p \in DOMAIN todo :
                      todo[p].phase = "leave" /\ todo[p].node.kind = "Func"

\* The assign that ends an initializer relies on the definition made before it:
\* whatever the initializer opened, left and defined, the name is still found
\* (else the resolver would blame a correct program).
InitializerStillBound ==
  At("resume", {"Assignment", "VarStmt"}) => Env!contains(scopes, node.name)

\* A nested scope never changes what its enclosing function boundary hides:
\* resolving a function body leaves the state of every outer variable alone.
OuterStateKept ==
  [][\A i \in DOMAIN scopes \cap DOMAIN scopes' :
       (\E k \in (i + 1)..Len(scopes) : scopes[k].global)
         => scopes'[i] = scopes[i]]_vars

\* The resolver answers for every program.
Terminates == <>(verdict # Running)

=============================================================================
