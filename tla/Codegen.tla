------------------------------ MODULE Codegen ------------------------------
(***************************************************************************)
(* prsl/Compiler/Codegen: the executor that translates the tree to LLVM    *)
(* IR.  One action visits one node or runs the rest of a visit, as in      *)
(* Interpreter; what the local variables of the visits hold are values of  *)
(* the module under construction, not of the program.                      *)
(*                                                                         *)
(* Both branches of an if are translated, and every loop body once.  A     *)
(* return that was translated leaves its value on returnStack for the      *)
(* statement around it, be that a scope, an if or a while.                 *)
(***************************************************************************)
EXTENDS IR

\* parse() makes every program a FunctionStmt; ++ and -- are translated with a 1.
ASSUME CodegenAssumption ==
  /\ Absent \notin Binding
  /\ \A n \in Node : n.val \in Ints
  /\ \A root \in Program : root.kind = "Function"
  /\ 1 \in Ints

VARIABLES
  program,      \* the root given to visitStmt
  todo,         \* what the visitor has still to do
  values,       \* the Value* that visits in progress hold, latest last
  scopes,       \* envManager: EnvironmentManager<Value *>
  functions,    \* functionsManager: FunctionsManager<Function *>
  returnStack,  \* the values of RetVal (its isFunction is never read)
  ir,           \* context, module and builder
  status        \* how the translation ended, or that it has not

vars == <<program, todo, values, scopes, functions, returnStack, ir, status>>

Env == INSTANCE Scopes

Running == "running"
Finished == "finished"
NotAFunction == "Not a function"
WrongArguments == "Wrong number of arguments"
RuntimeErrors == {NotAFunction, WrongArguments}
Signalled == "signalled"    \* nullptr was dereferenced

\* index is the first of the blocks a visit has made, or the one to come back to.
ItemAt(phase, n, b) == [AnItem(phase, n) EXCEPT !.index = b]

InitWith(root) ==
  /\ program = root
  /\ todo = <<Visit(root)>>
  /\ values = <<>>
  /\ scopes = <<Env!Opened(TRUE)>>
  /\ functions = [x \in Name |-> Absent]
  /\ returnStack = <<>>
  /\ ir = EmptyModule
  /\ status = Running

Init == \E root \in Program : InitWith(root)

TypeOK ==
  /\ program \in Program
  /\ todo \in Seq(Item)
  /\ values \in Seq(Value)
  /\ scopes \in Seq(Env!Scope(Binding))
  /\ scopes # <<>>
  /\ functions \in [Name -> ({"func"} \X Nat) \cup {Absent}]
  /\ returnStack \in Seq(Value)
  /\ ir \in ModuleState
  /\ status \in {Running, Finished, Signalled} \cup RuntimeErrors

-----------------------------------------------------------------------------
At(phase, kinds) ==
  /\ status = Running
  /\ todo # <<>>
  /\ todo[1].phase = phase
  /\ todo[1].node.kind \in kinds
node == todo[1].node
block == todo[1].index
Continue(items) == todo' = items \o Tail(todo)

Below(s, n) == SubSeq(s, 1, Len(s) - n)
Result == values[Len(values)]
Push(v) == values' = Append(values, v)
Replace(n, v) == values' = Append(Below(values, n), v)
Pop == values' = Below(values, 1)

Stop(how) ==
  /\ status' = how
  /\ UNCHANGED <<todo, values, scopes, functions, returnStack, ir>>

\* What most actions leave alone.
environment == <<scopes, functions, returnStack, status>>

\* A variable of the function that is being translated: allocVar puts it first in the
\* entry block.  Mutant: where the code now goes.
allocVarHere(m) == Emit(m, "alloca", <<>>)
allocVar(m) == EmitFirst(m, m.funcs[Parent(m)].entry, "alloca", <<>>)
\* The cast to AllocaInst is unchecked: a Function is taken for one.
getAllocVar(x) == IF Env!contains(scopes, x) THEN Env!get(scopes, x) ELSE NullPtr

\* Mutant: the innermost scope gets a variable of its own.
StoreInOwn(x, v) ==
  LET m == allocVar(ir) IN
  /\ ir' = Emit(m, "store", <<v, Slot(m.count)>>)
  /\ scopes' = Env!Bind(scopes, Len(scopes), x, Slot(m.count))
\* Code that stores v in x, which is defined here if it is not known.
StoreIn(x, v) ==
  IF getAllocVar(x) # NullPtr
    THEN ir' = Emit(ir, "store", <<v, getAllocVar(x)>>) /\ UNCHANGED scopes
    ELSE LET m == allocVar(ir) IN
         /\ ir' = Emit(m, "store", <<v, Slot(m.count)>>)
         /\ scopes' = Env!Bind(scopes, Len(scopes), x, Slot(m.count))

-----------------------------------------------------------------------------
\* Expressions.

VisitLiteralExpr ==
  /\ At("visit", {"Literal"})
  /\ Push(IntObj(node.val))
  /\ Continue(<<>>)
  /\ UNCHANGED <<environment, ir>>

VisitVarExpr ==
  /\ At("visit", {"Var"})
  /\ IF getAllocVar(node.name) = NullPtr
       THEN Stop(Signalled)
       ELSE LET m == Emit(ir, "load", <<getAllocVar(node.name)>>) IN
            /\ ir' = m
            /\ Push(Latest(m, "i32"))
            /\ Continue(<<>>)
            /\ UNCHANGED environment

\* module->getFunction, or else Function::Create.
Library(m, name, params) ==
  IF FunctionsNamed(m, name) = {} THEN Declare(m, name, params) ELSE m
CallNamed(m, name, args) ==
  Emit(m, "call", <<FunctionAt(CHOOSE f \in FunctionsNamed(m, name) : TRUE)>> \o args)

VisitInputExpr ==
  /\ At("visit", {"Input"})
  /\ LET variable == allocVar(Library(ir, Scanf, 0))
         called == CallNamed(variable, Scanf, <<Format, Slot(variable.count)>>)
         m == Emit(called, "load", <<Slot(variable.count)>>)
     IN  ir' = m /\ Push(Latest(m, "i32"))
  /\ Continue(<<>>)
  /\ UNCHANGED environment

\* The nodes that only visit what is below them.
Descend ==
  /\ At("visit", {"Grouping", "Null"})
  /\ Continue(VisitAll(node.kids))
  /\ UNCHANGED <<values, environment, ir>>

\* The nodes that visit their operands (of an if, the condition) and then do
\* something with the results.
VisitOperands ==
  /\ At("visit", {"Assignment", "Unary", "Binary", "Postfix", "VarStmt", "If",
                  "Print", "ExprStmt", "Return"})
  /\ LET operands == IF node.kind = "If" THEN <<node.kids[1]>> ELSE node.kids
     IN  Continue(VisitAll(operands) \o <<Resume(node)>>)
  /\ UNCHANGED <<values, environment, ir>>

ResumeAssignment ==
  /\ At("resume", {"Assignment"})
  /\ StoreIn(node.name, Result)
  /\ Continue(<<>>)
  /\ UNCHANGED <<values, functions, returnStack, status>>

ResumeUnary ==
  /\ At("resume", {"Unary"})
  /\ IF Result[1] = "int"
       THEN Replace(1, IntObj(Wrap(-Result[2]))) /\ UNCHANGED ir
       ELSE LET m == Emit(ir, "neg", <<Result>>) IN
            ir' = m /\ Replace(1, Latest(m, TypeOfValue(Result)))
  /\ Continue(<<>>)
  /\ UNCHANGED environment

ResumeBinary ==
  /\ At("resume", {"Binary"})
  /\ LET lhs == values[Len(values) - 1]
         m == Emit(ir, node.op, <<lhs, Result>>)
     IN  IF NullPtr \in {lhs, Result}
           THEN Replace(2, NullPtr) /\ UNCHANGED ir
         ELSE IF Folds(node.op, lhs, Result)
           THEN Replace(2, Folded(node.op, lhs, Result)) /\ UNCHANGED ir
         ELSE Replace(2, Latest(m, ResultType(node.op))) /\ ir' = m
  /\ Continue(<<>>)
  /\ UNCHANGED environment

\* The old value of a variable stays the result.
ResumePostfix ==
  /\ At("resume", {"Postfix"})
  /\ IF node.kids[1].kind # "Var" THEN UNCHANGED ir
     ELSE LET m == Emit(ir, IF node.op = "++" THEN "+" ELSE "-", <<Result, IntObj(1)>>)
          IN  ir' = Emit(m, "store", <<Latest(m, "i32"), getAllocVar(node.kids[1].name)>>)
  /\ Continue(<<>>)
  /\ UNCHANGED <<values, environment>>

-----------------------------------------------------------------------------
\* Scopes.

\* Mutant: the scopes around are not seen.
VisitBlockAlone ==
  /\ At("visit", {"Scope", "Block"})
  /\ scopes' = Env!Enter(scopes, TRUE)
  /\ Continue((IF node.kind = "Scope" THEN <<ResumeAt(node, 0)>> ELSE VisitAll(node.kids))
              \o <<Leaving(node)>>)
  /\ UNCHANGED <<values, functions, returnStack, ir, status>>
VisitBlock ==
  /\ At("visit", {"Scope", "Block"})
  /\ scopes' = Env!Enter(scopes, FALSE)
  /\ Continue((IF node.kind = "Scope" THEN <<ResumeAt(node, 0)>> ELSE VisitAll(node.kids))
              \o <<Leaving(node)>>)
  /\ UNCHANGED <<values, functions, returnStack, ir, status>>

\* Mutant: the environment is restored here and by withNewEnviron.
LeaveTwice ==
  /\ At("leave", {"Scope", "Block"})
  /\ scopes' = Env!Leave(Env!Leave(scopes))
  /\ Continue(<<>>)
  /\ UNCHANGED <<values, functions, returnStack, ir, status>>
Leave ==
  /\ At("leave", {"Scope", "Block"})
  /\ scopes' = Env!Leave(scopes)
  /\ Continue(<<>>)
  /\ UNCHANGED <<values, functions, returnStack, ir, status>>

\* evaluateScope: index statements are translated.
Returned == todo[1].index > 0 /\ returnStack # <<>>
Exhausted == todo[1].index = Len(node.kids)

ScopeContinues ==
  /\ At("resume", {"Scope"})
  /\ ~Returned
  /\ ~Exhausted
  /\ LET i == todo[1].index + 1 IN
     Continue(<<Visit(node.kids[i]), ResumeAt(node, i)>>)
  /\ UNCHANGED <<values, environment, ir>>

ScopeEnds ==
  /\ At("resume", {"Scope"})
  /\ Returned \/ Exhausted
  /\ IF Returned
       THEN /\ Push(returnStack[Len(returnStack)])
            /\ returnStack' = Below(returnStack, 1)
       ELSE Push(NullPtr) /\ UNCHANGED returnStack
  /\ Continue(<<>>)
  /\ UNCHANGED <<scopes, functions, ir, status>>

-----------------------------------------------------------------------------
\* Functions.

\* The name is known inside the body.  Mutant: so is what is around it.
VisitFuncExprOpen ==
  /\ At("visit", {"Func"})
  /\ ir' = Define(ir, node.name, Len(node.params))
  /\ functions' = IF node.name = NoName THEN functions
                  ELSE [functions EXCEPT ![node.name] = FunctionAt(Len(ir.funcs) + 1)]
  /\ scopes' = Env!Enter(scopes, FALSE)
  /\ Continue(<<ItemAt("param", node, 1), ResumeAt(node.kids[1], 0),
                ItemAt("leave", node, ir.insert)>>)
  /\ UNCHANGED <<values, returnStack, status>>
VisitFuncExpr ==
  /\ At("visit", {"Func"})
  /\ ir' = Define(ir, node.name, Len(node.params))
  /\ functions' = IF node.name = NoName THEN functions
                  ELSE [functions EXCEPT ![node.name] = FunctionAt(Len(ir.funcs) + 1)]
  /\ scopes' = Env!Enter(scopes, TRUE)
  /\ Continue(<<ItemAt("param", node, 1), ResumeAt(node.kids[1], 0),
                ItemAt("leave", node, ir.insert)>>)
  /\ UNCHANGED <<values, returnStack, status>>

\* The loop over the parameters: the next one.
DefineParameter ==
  /\ At("param", {"Func"})
  /\ LET i == todo[1].index IN
     IF i > Len(node.params) THEN Continue(<<>>) /\ UNCHANGED <<scopes, ir>>
     ELSE LET m == allocVar(ir) IN
          /\ ir' = Emit(m, "store", <<Argument(Parent(ir), i), Slot(m.count)>>)
          /\ scopes' = Env!Bind(scopes, Len(scopes), node.params[i], Slot(m.count))
          /\ Continue(<<ItemAt("param", node, i + 1)>>)
  /\ UNCHANGED <<values, functions, returnStack, status>>

\* Code goes on where it was; the value of the body is dropped, as is what
\* verifyFunction says.
LeaveFunction ==
  /\ At("leave", {"Func"})
  /\ scopes' = Env!Leave(scopes)
  /\ ir' = SetInsertPoint(ir, block)
  /\ Replace(1, FunctionAt(Parent(ir)))
  /\ Continue(<<>>)
  /\ UNCHANGED <<functions, returnStack, status>>

\* The function called: by its name, or the variable's if it has a function.
Known == functions[node.name] # Absent
Variable == getAllocVar(node.name)
Callee ==
  IF Known THEN functions[node.name]
  ELSE IF IsFunctionValue(Variable) THEN Variable ELSE NullPtr

VisitCallExpr ==
  /\ At("visit", {"Call"})
  /\ IF Callee = NullPtr
       THEN Stop(NotAFunction)
     ELSE IF ir.funcs[Callee[2]].params # Len(node.kids)
       THEN Stop(WrongArguments)
     ELSE /\ Push(Callee)
          /\ Continue(VisitAll(node.kids) \o <<Resume(node)>>)
          /\ UNCHANGED <<environment, ir>>

ResumeCallExpr ==
  /\ At("resume", {"Call"})
  /\ LET count == Len(node.kids) + 1
         m == Emit(ir, "call", SubSeq(values, Len(values) - count + 1, Len(values)))
     IN  ir' = m /\ Replace(count, Latest(m, "i32"))
  /\ Continue(<<>>)
  /\ UNCHANGED environment

-----------------------------------------------------------------------------
\* Statements.

\* A function is bound as it is, where the name is found or else in the innermost
\* scope.  Mutant: in the innermost scope in any case.
ResumeVarStmtInOwn ==
  /\ At("resume", {"VarStmt"})
  /\ IF IsFunctionValue(Result)
       THEN scopes' = Env!Bind(scopes, Len(scopes), node.name, Result) /\ UNCHANGED ir
       ELSE StoreIn(node.name, Result)
  /\ Pop
  /\ Continue(<<>>)
  /\ UNCHANGED <<functions, returnStack, status>>
ResumeVarStmt ==
  /\ At("resume", {"VarStmt"})
  /\ IF IsFunctionValue(Result)
       THEN scopes' = Env!defineOrAssign(scopes, node.name, Result) /\ UNCHANGED ir
       ELSE StoreIn(node.name, Result)
  /\ Pop
  /\ Continue(<<>>)
  /\ UNCHANGED <<functions, returnStack, status>>

\* Comparison of a condition with false; branch on it.
TestOf(v) ==
  IF v[1] = "bool" THEN [ir |-> ir, val |-> v]
  ELSE LET m == Emit(ir, "!=", <<v, BoolObj(FALSE)>>) IN [ir |-> m, val |-> Latest(m, "i1")]
Branch(test, then, else) == Emit(test.ir, "condbr", <<test.val, BlockAt(then), BlockAt(else)>>)

\* The blocks then, ifcont and else, in the order in which they are made.
ResumeIfStmt ==
  /\ At("resume", {"If"})
  /\ LET then == Len(ir.blocks) + 1
         f == Parent(ir)
         branched == Branch(TestOf(Result), then,
                            IF Len(node.kids) = 3 THEN then + 2 ELSE then + 1)
         m == NewBlock(NewBlock(branched, f), f)
     IN  /\ ir' = SetInsertPoint(IF Len(node.kids) = 3 THEN NewBlock(m, f) ELSE m, then)
         /\ Continue(<<Visit(node.kids[2]), ItemAt("then", node, then)>>)
  /\ Pop
  /\ UNCHANGED environment

\* After a branch or a body: a value on returnStack says that it has returned.
\* Mutant: the code goes on to b in any case.
GoOnAnyway(b) ==
  /\ ir' = SetInsertPoint(Emit(ir, "br", <<BlockAt(b[1])>>), b[2])
  /\ returnStack' = IF returnStack = <<>> THEN <<>> ELSE Below(returnStack, 1)
GoOnTo(b) ==
  /\ ir' = SetInsertPoint(IF returnStack # <<>> THEN ir ELSE Emit(ir, "br", <<BlockAt(b[1])>>), b[2])
  /\ returnStack' = IF returnStack = <<>> THEN <<>> ELSE Below(returnStack, 1)

AfterThen ==
  /\ At("then", {"If"})
  /\ IF Len(node.kids) = 3
       THEN /\ GoOnTo(<<block + 1, block + 2>>)
            /\ Continue(<<Visit(node.kids[3]), ItemAt("else", node, block)>>)
       ELSE GoOnTo(<<block + 1, block + 1>>) /\ Continue(<<>>)
  /\ UNCHANGED <<values, scopes, functions, status>>

AfterElse ==
  /\ At("else", {"If"})
  /\ GoOnTo(<<block + 1, block + 1>>)
  /\ Continue(<<>>)
  /\ UNCHANGED <<values, scopes, functions, status>>

\* The blocks condition, loop and afterloop.
VisitWhileStmt ==
  /\ At("visit", {"While"})
  /\ LET b == Len(ir.blocks) + 1
         f == Parent(ir)
     IN  /\ ir' = SetInsertPoint(
                    NewBlock(NewBlock(NewBlock(Emit(ir, "br", <<BlockAt(b)>>), f), f), f), b)
         /\ Continue(<<Visit(node.kids[1]), ItemAt("resume", node, b)>>)
  /\ UNCHANGED <<values, environment>>

ResumeWhileStmt ==
  /\ At("resume", {"While"})
  /\ ir' = SetInsertPoint(Branch(TestOf(Result), block + 1, block + 2), block + 1)
  /\ Continue(<<Visit(node.kids[2]), ItemAt("body", node, block)>>)
  /\ Pop
  /\ UNCHANGED environment

AfterBody ==
  /\ At("body", {"While"})
  /\ GoOnTo(<<block, block + 2>>)
  /\ Continue(<<>>)
  /\ UNCHANGED <<values, scopes, functions, status>>

ResumePrintStmt ==
  /\ At("resume", {"Print"})
  /\ ir' = CallNamed(Library(ir, Printf, 2), Printf, <<Format, Result>>)
  /\ Pop
  /\ Continue(<<>>)
  /\ UNCHANGED environment

ResumeExprStmt ==
  /\ At("resume", {"ExprStmt"})
  /\ Pop
  /\ Continue(<<>>)
  /\ UNCHANGED <<environment, ir>>

ResumeReturnStmt ==
  /\ At("resume", {"Return"})
  /\ ir' = IF node.isFunction THEN Emit(ir, "ret", <<Result>>) ELSE ir
  /\ returnStack' = Append(returnStack, Result)
  /\ Pop
  /\ Continue(<<>>)
  /\ UNCHANGED <<scopes, functions, status>>

\* The program is the function main, which returns 0.
VisitFunctionStmt ==
  /\ At("visit", {"Function"})
  /\ ir' = Define(ir, Main, 0)
  /\ Continue(VisitAll(node.kids) \o <<Resume(node)>>)
  /\ UNCHANGED <<values, environment>>

ResumeFunctionStmt ==
  /\ At("resume", {"Function"})
  /\ ir' = Emit(ir, "ret", <<IntObj(0)>>)
  /\ Continue(<<>>)
  /\ UNCHANGED <<values, environment>>

\* visitStmt of the program returns.
Finish ==
  /\ status = Running
  /\ todo = <<>>
  /\ status' = Finished
  /\ UNCHANGED <<todo, values, scopes, functions, returnStack, ir>>

Next ==
  /\ UNCHANGED program
  /\ \/ VisitLiteralExpr \/ VisitVarExpr \/ VisitInputExpr \/ Descend \/ VisitOperands
     \/ ResumeAssignment \/ ResumeUnary \/ ResumeBinary \/ ResumePostfix
     \/ VisitBlock \/ Leave \/ ScopeContinues \/ ScopeEnds
     \/ VisitFuncExpr \/ DefineParameter \/ LeaveFunction
     \/ VisitCallExpr \/ ResumeCallExpr
     \/ ResumeVarStmt \/ ResumeIfStmt \/ AfterThen \/ AfterElse
     \/ VisitWhileStmt \/ ResumeWhileStmt \/ AfterBody
     \/ ResumePrintStmt \/ ResumeExprStmt \/ ResumeReturnStmt
     \/ VisitFunctionStmt \/ ResumeFunctionStmt \/ Finish

Spec == Init /\ [][Next]_vars

\* One thread walks the tree to its end.
FairSpec == Spec /\ WF_vars(Next)

-----------------------------------------------------------------------------
(***************************************************************************)
(* Properties.                                                             *)
(***************************************************************************)

\* What code of the function f may use: results of instructions of f, parameters of f,
\* blocks of f, and everything that belongs to no function.
UsableIn(m, f, v) ==
  /\ v[1] \in {"reg", "slot"} =>
       \E b \in DOMAIN m.blocks :
         /\ m.blocks[b].func = f
         /\ \E k \in DOMAIN m.blocks[b].code : m.blocks[b].code[k].id = v[2]
  /\ v[1] = "arg" => v[2] = f
  /\ v[1] = "block" => v[2] \in DOMAIN m.blocks /\ m.blocks[v[2]].func = f
LocalCode(m) ==
  \A b \in DOMAIN m.blocks : \A k \in DOMAIN m.blocks[b].code :
    \A i \in DOMAIN m.blocks[b].code[k].args :
      UsableIn(m, m.blocks[b].func, m.blocks[b].code[k].args[i])

\* No instruction uses what another function computes: code goes on where it was
\* when a function has been translated, and names of the functions around it are
\* not seen inside it.  (The resolver sees to neither.)
LocalOperands == LocalCode(ir)

\* The programs it holds for.  The parser makes one FunctionStmt, the program.  A scope,
\* an if and a while take the value of one return off returnStack after each of their
\* statements, a block does not: "returning" has the blocks that leave one there, and in
\* each of them it is the last statement that does.
ReturnsEndBlocks(returning) ==
  /\ returning \subseteq {n \in Node : n.kind \in {"Return", "Block"}}
  /\ \A n \in Node :
       /\ n.kind = "Return" => n \in returning
       /\ \A i \in DOMAIN n.kids :
            /\ n.kids[i].kind # "Function"
            /\ n.kids[i] \in returning =>
                 \/ n.kind \in {"Scope", "If", "While"}
                 \/ n \in returning /\ i = Len(n.kids)

=============================================================================
