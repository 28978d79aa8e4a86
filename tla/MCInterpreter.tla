--------------------------- MODULE MCInterpreter ---------------------------
(***************************************************************************)
(* The interpreter on the programs of a small grammar that the resolver    *)
(* accepts: x is set, two statements that compute, branch, loop, open      *)
(* scopes, define and call functions, then x is printed.  Return stands    *)
(* where it ends the statement list it is in (Structured), so that nothing *)
(* is left to be skipped but by evaluateScope.                             *)
(***************************************************************************)
EXTENDS Interpreter, MCPrograms, ScopingRules

M == INSTANCE Meaning

Operands == {Lit, X, F}
Ops == {"+", "-", "*", "/", "<", ">", ">=", "<=", "==", "!="}
Values ==
  {Binary(X, op, Literal(2)) : op \in Ops}
  \cup {Binary(e1, op, e2) : op \in {"/", "=="}, e1 \in {Lit, F}, e2 \in {X, F}}
  \cup {Unary("-", e) : e \in {X, F}}
  \cup {Postfix(X, op) : op \in {"++", "--"}} \cup {Postfix(Assignment("x", Lit), "++")}
  \cup {Assignment("x", Grouping(Literal(3))), F, Call("f", <<Postfix(X, "++")>>)}

\* Bodies of scopes and functions.
Bodies ==
  {<<SetX(Lit)>>, <<ExprStmt(Assignment("x", Literal(3)))>>,
   <<If(X, Return(Literal(2), TRUE)), PrintStmt(X)>>,
   <<If(Binary(X, ">", Lit), Block(<<SetX(Lit), Return(Postfix(X, "++"), TRUE)>>)), ExprStmt(X)>>,
   <<Return(X, TRUE), PrintStmt(X)>>,
   <<While(X, ExprStmt(Postfix(X, "--"))), ExprStmt(X)>>,
   <<If(X, ExprStmt(Call("f", <<Postfix(X, "--")>>))), PrintStmt(X)>>,
   <<ExprStmt(Func("f", <<"x">>, Scoped(<<ExprStmt(X)>>, TRUE))), PrintStmt(Call("f", <<Lit>>))>>}

Functions == {Func("f", ps, Scoped(b, TRUE)) : ps \in {<<>>, <<"x">>}, b \in Bodies}
             \cup {Func(NoName, <<"x", "x">>, Scoped(b, TRUE)) : b \in Bodies}
Scopings == {Scoped(b, FALSE) : b \in Bodies}

First == {VarStmt("f", fun) : fun \in Functions}
         \cup {PrintStmt(e) : e \in Scopings \cup Functions}
         \cup {ExprStmt(e) : e \in Scopings \cup Functions}
Second ==
  {PrintStmt(e) : e \in Values \cup {Scoped(<<PrintStmt(F)>>, FALSE)}}
  \cup {IfElse(e, SetX(Literal(2)), Null) : e \in {X, F}}
  \cup {Block(<<VarStmt("x", F), PrintStmt(X)>>), PrintStmt(Call("f", <<X, Literal(3)>>)),
        While(Binary(X, "<", Literal(3)), ExprStmt(Postfix(X, "++")))}

Start == {<<SetX(Literal(2))>>, <<SetX(Literal(0))>>}
Candidates == {FunctionStmt(st \o <<s1, s2, PrintStmt(X)>>) :
                 st \in Start, s1 \in First, s2 \in Second}
WellScopedOnes == {p \in Candidates : WellScoped(p)}
AllNodes == Candidates \cup UNION {SubNodes(s) : s \in First \cup Second \cup {PrintStmt(X)}
                                                 \cup {st[1] : st \in Start}}

\* The values of Program and Node; TLC evaluates the sets they name once.
Programs == WellScopedOnes
Nodes == AllNodes

\* Returns end their statement lists in all of these programs.
Returning == {n \in AllNodes : /\ n.kind \in {"Return", "If", "Block"}
                              /\ \E m \in SubNodes(n) : m.kind = "Return"}
ASSUME Structured == ReturnsEndLists(Returning)
\* Scopes end as the parser ends them.
ASSUME ScopesReturn == \A n \in AllNodes : EndsWithValue(n)

\* A program that ends has printed what it means, and ends how it should: every
\* value went where it belongs through scopes, calls, shadowing and returns.
\* (Deep recursion and the unnamed inner function end in a signal; neither has a
\* meaning to compare with.)
AgreesWithMeaning ==
  status \notin {Running, Signalled} =>
    LET m == M!Do(program, M!Start) IN
    /\ printed = m.out
    /\ status = Finished <=> m.end = M!Going
    /\ status = Terminated <=> m.end = M!Unknown
    /\ status \in RuntimeErrors => m.end = status

\* Without a loop or a call every program ends.
Repeats(n) == \E m \in SubNodes(n) : m.kind \in {"While", "Call"}
Terminates == ~Repeats(program) => <>(status # Running)

=============================================================================
