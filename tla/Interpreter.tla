---------------------------- MODULE Interpreter ----------------------------
(***************************************************************************)
(* prsl/Compiler/Interpreter: the tree-walking executor.  One action       *)
(* visits one node or runs the rest of a visit; the results of the         *)
(* expressions visited (the local variables lhs, rhs, obj, args of the     *)
(* visits in progress) are kept on a stack of values.                      *)
(*                                                                         *)
(* A return statement pushes its value on returnStack; the statement loop  *)
(* of evaluateScope, and nothing else, looks there.                        *)
(***************************************************************************)
EXTENDS Objects

CONSTANTS
  MaxDepth,     \* the nesting of visits that the native stack can hold
  MaxReturns,   \* the length at which returnStack cannot grow
  MaxPrinted    \* bound: how much output is followed

ASSUME InterpreterAssumption ==
  /\ Absent \notin PrslObject
  /\ {MaxDepth, MaxReturns, MaxPrinted} \subseteq Nat \ {0}
  /\ \A n \in Node : n.val \in Ints

VARIABLES
  program,      \* the root given to visitStmt
  todo,         \* what the visitor has still to do
  values,       \* the results that visits in progress hold, latest last
  scopes,       \* envManager: EnvironmentManager<PrslObject>
  functions,    \* functionsManager
  returnStack,
  printed,      \* what was written to std::cout
  status        \* how the execution ended, or that it has not

vars == <<program, todo, values, scopes, functions, returnStack, printed, status>>

Env == INSTANCE Scopes

Running == "running"
Finished == "finished"
UndefVariable == "Attempt to access an undef variable"
NotAFunction == "Not a function"
WrongArguments == "Wrong number of arguments"
RuntimeErrors ==
  {UndefVariable, NonNumeric, DivisionByZero, IllegalOperator, NotAFunction,
   WrongArguments}
\* The process dies: an exception nobody catches, a signal.
Terminated == "terminated"
Signalled == "signalled"

TypeOK ==
  /\ program \in Program
  /\ todo \in Seq(Item)
  /\ values \in Seq(PrslObject)
  /\ scopes \in Seq(Env!Scope(PrslObject))
  /\ scopes # <<>>
  /\ functions \in [Name -> PrslObject \cup {Absent}]
  /\ \A x \in Name : functions[x] # Absent => IsFunc(functions[x])
  /\ returnStack \in Seq(PrslObject)
  /\ printed \in Seq(Printable)
  /\ status \in {Running, Finished, Terminated, Signalled} \cup RuntimeErrors

InitWith(root) ==
  /\ program = root
  /\ todo = <<Visit(root)>>
  /\ values = <<>>
  /\ scopes = <<Env!Opened(TRUE)>>
  /\ functions = [x \in Name |-> Absent]
  /\ returnStack = <<>>
  /\ printed = <<>>
  /\ status = Running

Init == \E root \in Program : InitWith(root)

-----------------------------------------------------------------------------
At(phase, kinds) ==
  /\ status = Running
  /\ todo # <<>>
  /\ todo[1].phase = phase
  /\ todo[1].node.kind \in kinds
node == todo[1].node
Continue(items) == todo' = items \o Tail(todo)

Below(s, n) == SubSeq(s, 1, Len(s) - n)
Result == values[Len(values)]
Push(obj) == values' = Append(values, obj)
Pop == values' = Below(values, 1)

Stop(how) ==
  /\ status' = how
  /\ UNCHANGED <<todo, values, scopes, functions, returnStack, printed>>

\* What most actions leave alone.
state == <<scopes, functions, returnStack, printed, status>>

-----------------------------------------------------------------------------
\* Expressions.

VisitLeaf ==
  /\ At("visit", {"Literal", "Input"})
  /\ \/ node.kind = "Literal" /\ Push(IntObj(node.val))
     \/ node.kind = "Input" /\ \E n \in Ints : Push(IntObj(n))
  /\ Continue(<<>>)
  /\ UNCHANGED state

VisitVarExpr ==
  /\ At("visit", {"Var"})
  /\ IF ~Env!contains(scopes, node.name)
       THEN Stop(UndefVariable)
       ELSE /\ Push(Env!get(scopes, node.name))
            /\ Continue(<<>>)
            /\ UNCHANGED state

\* The nodes that only visit what is below them.
Descend ==
  /\ At("visit", {"Grouping", "Function", "Null"})
  /\ Continue(VisitAll(node.kids))
  /\ UNCHANGED <<values, state>>

\* The nodes that visit their operands (of an if or a while, the condition) and
\* then do something with the results.
VisitOperands ==
  /\ At("visit", {"Assignment", "Unary", "Binary", "Postfix", "VarStmt", "If",
                  "While", "Print", "ExprStmt", "Return"})
  /\ LET operands == IF node.kind \in {"If", "While"} THEN <<node.kids[1]>>
                                                      ELSE node.kids
     IN  Continue(VisitAll(operands) \o <<Resume(node)>>)
  /\ UNCHANGED <<values, state>>

\* visitAssignmentExpr yields the value assigned, visitVarStmt nothing.
ResumeAssignment ==
  /\ At("resume", {"Assignment", "VarStmt"})
  /\ scopes' = Env!defineOrAssign(scopes, node.name, Result)
  /\ IF node.kind = "VarStmt" THEN Pop ELSE UNCHANGED values
  /\ Continue(<<>>)
  /\ UNCHANGED <<functions, returnStack, printed, status>>

ResumeUnary ==
  /\ At("resume", {"Unary"})
  /\ IF ~IsInt(Result)
       THEN Stop(NonNumeric)
       ELSE /\ values' = Append(Below(values, 1), IntObj(Wrap(-Result[2])))
            /\ Continue(<<>>)
            /\ UNCHANGED state

Lhs == values[Len(values) - 1]
Rhs == Result

ResumeBinary ==
  /\ At("resume", {"Binary"})
  /\ IF BinaryError(node.op, Lhs, Rhs) # NoError
       THEN Stop(BinaryError(node.op, Lhs, Rhs))
       ELSE \/ /\ values' = Append(Below(values, 2), BinaryResult(node.op, Lhs, Rhs))
               /\ Continue(<<>>)
               /\ UNCHANGED state
            \/ Traps(node.op, Lhs, Rhs) /\ Stop(Signalled)

\* ++ and -- change a variable and yield what it was before; the value of any
\* other operand is passed on, whatever it is.
ResumePostfix ==
  /\ At("resume", {"Postfix"})
  /\ IF node.kids[1].kind # "Var"
       THEN Continue(<<>>) /\ UNCHANGED <<values, state>>
       ELSE IF ~IsInt(Result)
              THEN Stop(IllegalOperator)
              ELSE /\ scopes' = Env!assign(scopes, node.kids[1].name,
                                          Stepped(node.op, Result[2]))
                   /\ Continue(<<>>)
                   /\ UNCHANGED <<values, functions, returnStack, printed, status>>

-----------------------------------------------------------------------------
\* Scopes.

VisitBlock ==
  /\ At("visit", {"Scope", "Block"})
  /\ IF Len(scopes) = MaxDepth
       THEN Stop(Signalled)
       ELSE /\ scopes' = Env!Enter(scopes, FALSE)
            /\ LET body == IF node.kind = "Scope" THEN <<ResumeAt(node, 0)>>
                                                  ELSE VisitAll(node.kids)
               IN  Continue(body \o <<Leaving(node)>>)
            /\ UNCHANGED <<values, functions, returnStack, printed, status>>

Leave ==
  /\ At("leave", {"Scope", "Block", "Call"})
  /\ scopes' = Env!Leave(scopes)
  /\ Continue(<<>>)
  /\ UNCHANGED <<values, functions, returnStack, printed, status>>

\* evaluateScope: index statements are done.  Mutant: returnStack is looked at when
\* all of them are.
ReturnedLast == todo[1].index = Len(node.kids) /\ returnStack # <<>>
Returned == todo[1].index > 0 /\ returnStack # <<>>
Exhausted == todo[1].index = Len(node.kids)

ScopeContinues ==
  /\ At("resume", {"Scope"})
  /\ ~Returned
  /\ ~Exhausted
  /\ LET i == todo[1].index + 1 IN
     Continue(<<Visit(node.kids[i]), ResumeAt(node, i)>>)
  /\ UNCHANGED <<values, state>>

\* The value of the scope; nullptr if none of its statements returned.
ScopeEnds ==
  /\ At("resume", {"Scope"})
  /\ Returned \/ Exhausted
  /\ IF Returned
       THEN /\ Push(returnStack[Len(returnStack)])
            /\ returnStack' = Below(returnStack, 1)
       ELSE /\ Push(Nil)
            /\ UNCHANGED returnStack
  /\ Continue(<<>>)
  /\ UNCHANGED <<scopes, functions, printed, status>>

-----------------------------------------------------------------------------
\* Functions.

\* FunctionsResolver walks the body before the function's own name is set.
VisitFuncExpr ==
  /\ At("visit", {"Func"})
  /\ Push(FuncObj(node))
  /\ Continue(<<Register(node.kids[1]), Resume(node)>>)
  /\ UNCHANGED state

ResumeFuncExpr ==
  /\ At("resume", {"Func"})
  /\ functions' = IF node.name = NoName THEN functions
                  ELSE [functions EXCEPT ![node.name] = FuncObj(node)]
  /\ Continue(<<>>)
  /\ UNCHANGED <<values, scopes, returnStack, printed, status>>

RegisterBelow ==
  /\ At("register", (ExprKind \cup StmtKind) \ {"Func"})
  /\ Continue(RegisterAll(node.kids))
  /\ UNCHANGED <<values, state>>

\* A function directly inside the body, but not what is inside that.  Without a
\* name, expr->name-> reads an empty optional: the bytes found there name no
\* function of the program, or the read faults.
RegisterFunction ==
  /\ At("register", {"Func"})
  /\ \/ /\ functions' = IF node.name = NoName THEN functions
                        ELSE [functions EXCEPT ![node.name] = FuncObj(node)]
        /\ Continue(<<>>)
        /\ UNCHANGED <<values, scopes, returnStack, printed, status>>
     \/ node.name = NoName /\ Stop(Signalled)

\* The object called: a named function first, then a variable.
Known == functions[node.name] # Absent
Bound == Env!contains(scopes, node.name)
\* Mutant: a variable first.
CalleeVariable == IF Bound THEN Env!get(scopes, node.name) ELSE functions[node.name]
Callee == IF Known THEN functions[node.name] ELSE Env!get(scopes, node.name)

VisitCallExpr ==
  /\ At("visit", {"Call"})
  /\ IF ~Known /\ ~Bound
       THEN Stop(Terminated)    \* std::get throws bad_variant_access
     ELSE IF ~IsFunc(Callee)
       THEN Stop(NotAFunction)
     ELSE IF Len(Callee[2].params) # Len(node.kids)
       THEN Stop(WrongArguments)
     ELSE /\ Push(Callee)
          /\ Continue(VisitAll(node.kids) \o <<Resume(node)>>)
          /\ UNCHANGED state

ResumeCallExpr ==
  /\ At("resume", {"Call"})
  /\ IF Len(scopes) = MaxDepth
       THEN Stop(Signalled)
       ELSE LET count == Len(node.kids)
                func == values[Len(values) - count][2]
                args == SubSeq(values, Len(values) - count + 1, Len(values))
            IN  /\ scopes' = Append(scopes, ArgumentScope(func.params, args))
                /\ values' = Below(values, count + 1)
                /\ Continue(<<ResumeAt(func.kids[1], 0), Leaving(node)>>)
                /\ UNCHANGED <<functions, returnStack, printed, status>>

-----------------------------------------------------------------------------
\* Statements.

\* The statement or loop that a condition selects.
Selected ==
  IF node.kind = "While"
    THEN IF isTrue(Result) THEN <<Visit(node.kids[2]), Visit(node)>> ELSE <<>>
    ELSE IF isTrue(Result) THEN <<Visit(node.kids[2])>>
         ELSE IF Len(node.kids) = 3 THEN <<Visit(node.kids[3])>> ELSE <<>>

ResumeCondition ==
  /\ At("resume", {"If", "While"})
  /\ Continue(Selected)
  /\ Pop
  /\ UNCHANGED state

ResumePrintStmt ==
  /\ At("resume", {"Print"})
  /\ Len(printed) < MaxPrinted
  /\ printed' = Append(printed, toString(Result))
  /\ Pop
  /\ Continue(<<>>)
  /\ UNCHANGED <<scopes, functions, returnStack, status>>

ResumeExprStmt ==
  /\ At("resume", {"ExprStmt"})
  /\ Pop
  /\ Continue(<<>>)
  /\ UNCHANGED state

ResumeReturnStmt ==
  /\ At("resume", {"Return"})
  /\ IF Len(returnStack) = MaxReturns
       THEN Stop(Terminated)    \* std::bad_alloc
       ELSE /\ returnStack' = Append(returnStack, Result)
            /\ Pop
            /\ Continue(<<>>)
            /\ UNCHANGED <<scopes, functions, printed, status>>

\* visitStmt of the program returns.
Finish ==
  /\ status = Running
  /\ todo = <<>>
  /\ status' = Finished
  /\ UNCHANGED <<todo, values, scopes, functions, returnStack, printed>>

Next ==
  /\ UNCHANGED program
  /\ \/ VisitLeaf \/ VisitVarExpr \/ Descend \/ VisitOperands
     \/ ResumeAssignment \/ ResumeUnary \/ ResumeBinary \/ ResumePostfix
     \/ VisitBlock \/ Leave \/ ScopeContinues \/ ScopeEnds
     \/ VisitFuncExpr \/ ResumeFuncExpr \/ RegisterBelow \/ RegisterFunction
     \/ VisitCallExpr \/ ResumeCallExpr
     \/ ResumeCondition \/ ResumePrintStmt \/ ResumeExprStmt \/ ResumeReturnStmt
     \/ Finish

Spec == Init /\ [][Next]_vars

\* The interpreter is a sequential program: it runs until it ends.
FairSpec == Spec /\ WF_vars(Next)

-----------------------------------------------------------------------------
(***************************************************************************)
(* Properties.                                                             *)
(***************************************************************************)

\* Every withNewEnviron in progress has exactly one scope: that of a call hides
\* the caller's, that of a block or a scope expression does not.  A return that
\* skipped the end of a scope it is in would break this.
ScopesMatchVisits == ScopesNested(todo, scopes, {"Call"})

\* While a function runs, the variables of its callers and of the top-level code
\* keep their values, whatever it assigns, defines or increments.
CallersKept ==
  [][\A i \in DOMAIN scopes \cap DOMAIN scopes' :
       (\E k \in (i + 1)..Len(scopes) : scopes[k].global)
         => scopes'[i] = scopes[i]]_vars

\* A return ends the statements around it, up to its scope expression or function
\* body: as long as its value is on returnStack no statement starts, and no
\* second value joins it.  (The loop of evaluateScope is the only one to check.)
ReturnEndsScope ==
  returnStack # <<>> =>
    /\ Len(returnStack) = 1
    /\ todo # <<>>
    /\ ~(todo[1].phase = "visit" /\ todo[1].node.kind \in StmtKind)

\* The programs it holds for: "returning" has the statements that may return to the
\* scope around them, and each is the last of its statement list, or directly in the
\* scope.  A loop or the program itself never returns: neither looks at returnStack.
ReturnsEndLists(returning) ==
  /\ returning \subseteq {n \in Node : n.kind \in {"Return", "If", "Block"}}
  /\ Program \cap returning = {}
  /\ \A n \in Node :
       /\ n.kind = "Return" => n \in returning
       /\ \A i \in DOMAIN n.kids : n.kids[i] \in returning =>
            \/ n.kind = "Scope"
            \/ n \in returning /\ (n.kind = "Block" => i = Len(n.kids))

=============================================================================
