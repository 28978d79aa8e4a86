-------------------------------- MODULE AST --------------------------------
(***************************************************************************)
(* prsl/AST/NodeTypes: the nodes the parser builds.  A node is one record  *)
(* whatever its kind; "kids" are its sub-nodes in the order in which       *)
(* TreeWalkerVisitor visits them.                                          *)
(***************************************************************************)
EXTENDS Integers, Sequences

CONSTANTS Name,     \* the identifiers of the program
          NoName    \* std::nullopt for the name of a function

ASSUME NoNameAssumption == NoName \notin Name

ExprKind ==
  {"Literal", "Grouping", "Var", "Input", "Assignment", "Unary", "Binary",
   "Postfix", "Scope", "Func", "Call"}
StmtKind ==
  {"VarStmt", "If", "While", "Print", "ExprStmt", "Function", "Block",
   "Return", "Null"}
Operators ==
  {"+", "-", "*", "/", "!=", "==", "<", "<=", ">", ">=", "++", "--"}

AstNode(kind, kids) ==
  [kind |-> kind, kids |-> kids, name |-> NoName, params |-> <<>>,
   op |-> "+", val |-> 0, isFunction |-> FALSE]
Named(node, x) == [node EXCEPT !.name = x]
WithOp(node, op) == [node EXCEPT !.op = op]

Literal(n) == [AstNode("Literal", <<>>) EXCEPT !.val = n]
Grouping(e) == AstNode("Grouping", <<e>>)
Var(x) == Named(AstNode("Var", <<>>), x)
Input == AstNode("Input", <<>>)
Assignment(x, e) == Named(AstNode("Assignment", <<e>>), x)
Unary(op, e) == WithOp(AstNode("Unary", <<e>>), op)
Binary(lhs, op, rhs) == WithOp(AstNode("Binary", <<lhs, rhs>>), op)
Postfix(e, op) == WithOp(AstNode("Postfix", <<e>>), op)
ScopeExpr(stmts) == AstNode("Scope", stmts)
Func(x, params, body) ==
  Named([AstNode("Func", <<body>>) EXCEPT !.params = params], x)
Call(f, args) == Named(AstNode("Call", args), f)

VarStmt(x, e) == Named(AstNode("VarStmt", <<e>>), x)
If(c, then) == AstNode("If", <<c, then>>)
IfElse(c, then, else) == AstNode("If", <<c, then, else>>)
While(c, body) == AstNode("While", <<c, body>>)
PrintStmt(e) == AstNode("Print", <<e>>)
ExprStmt(e) == AstNode("ExprStmt", <<e>>)
FunctionStmt(stmts) == AstNode("Function", stmts)
Block(stmts) == AstNode("Block", stmts)
Return(e, isFunction) ==
  [AstNode("Return", <<e>>) EXCEPT !.isFunction = isFunction]
Null == AstNode("Null", <<>>)

\* How Parser::scopeExpr ends a scope: its last expression becomes a return, a
\* scope without any return gets a return of 0.  isFunction tells whether a
\* function is being parsed.  Mutant: a scope without a value keeps none.
EndScopeBare(stmts, isFunction) ==
  LET last == stmts[Len(stmts)] IN
  IF stmts # <<>> /\ last.kind = "ExprStmt"
    THEN [stmts EXCEPT ![Len(stmts)] = Return(last.kids[1], isFunction)]
    ELSE stmts
EndScope(stmts, isFunction) ==
  LET last == stmts[Len(stmts)] IN
  IF stmts # <<>> /\ last.kind = "ExprStmt"
    THEN [stmts EXCEPT ![Len(stmts)] = Return(last.kids[1], isFunction)]
    ELSE IF \E i \in DOMAIN stmts : stmts[i].kind = "Return"
           THEN stmts
           ELSE Append(stmts, Return(Literal(0), isFunction))
\* The last expression of a scope may not be a function.
ReturnsFunction(stmts) ==
  LET last == stmts[Len(stmts)] IN
  stmts # <<>> /\ last.kind = "ExprStmt" /\ last.kids[1].kind = "Func"
Scoped(stmts, isFunction) == ScopeExpr(EndScope(stmts, isFunction))

\* What the i-th sub-node of a node is: an ExprPtrVariant or a StmtPtrVariant.
KidKind(n, i) ==
  IF \/ n.kind \in {"Scope", "Function", "Block"}
     \/ n.kind \in {"If", "While"} /\ i > 1
    THEN StmtKind
    ELSE ExprKind

\* The shape the parser guarantees, kind by kind, of a node whose sub-nodes are
\* among nodes.
WellFormed(n, nodes) ==
  /\ n \in [kind : ExprKind \cup StmtKind, kids : Seq(nodes),
            name : Name \cup {NoName}, params : Seq(Name), op : Operators,
            val : Int, isFunction : BOOLEAN]
  /\ n.kind \in {"Literal", "Var", "Input", "Null"} => n.kids = <<>>
  /\ n.kind \in {"Grouping", "Assignment", "Unary", "Postfix", "Func",
                 "VarStmt", "Print", "ExprStmt", "Return"} => Len(n.kids) = 1
  /\ n.kind \in {"Binary", "While"} => Len(n.kids) = 2
  /\ n.kind = "If" => Len(n.kids) \in {2, 3}
  /\ n.kind = "Func" => n.kids[1].kind = "Scope"
  /\ n.kind \in {"Var", "Assignment", "VarStmt", "Call"} => n.name \in Name
  /\ n.kind = "Binary" => n.op \notin {"++", "--"}
  /\ \A i \in DOMAIN n.kids : n.kids[i].kind \in KidKind(n, i)

\* A scope has a return among its own statements: whoever runs it to its end
\* without another return still gets a value.
EndsWithValue(n) ==
  n.kind = "Scope" => \E i \in DOMAIN n.kids : n.kids[i].kind = "Return"

=============================================================================
