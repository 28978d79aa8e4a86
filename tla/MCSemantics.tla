---------------------------- MODULE MCSemantics ----------------------------
(***************************************************************************)
(* The resolver on every program of a small grammar: two statements, the   *)
(* names x and f, expressions that read, assign, call, open a scope or a   *)
(* function, nested so that a scope can close, or a function hide, a name  *)
(* that is used next.                                                      *)
(***************************************************************************)
EXTENDS Semantics, MCPrograms, ScopingRules

Atoms == {Literal(1), Var("x"), Call("f", <<>>)}
Simple == {Postfix(e, "++") : e \in {Literal(1), Var("x")}}
          \cup {Assignment("x", e) : e \in {Literal(1), Var("x")}}
          \cup Atoms
\* Statements at the bottom; inF: inside a function.
Bottom == {ExprStmt(e) : e \in Simple} \cup {VarStmt("x", e) : e \in Atoms}
Returns == {Return(Var("x"), TRUE)}
Bodies == {<<s>> : s \in Bottom \cup Returns}
          \cup {<<VarStmt("x", e), ExprStmt(Var("x"))>> : e \in Atoms}
Scopings == {Scoped(b, FALSE) : b \in Bodies}
Nested == {<<ExprStmt(Func(NoName, <<"x">>, Scoped(<<ExprStmt(Var("x"))>>, TRUE))), s>> :
             s \in Returns \cup {ExprStmt(Var("x"))}}
Functions == {Func(f, ps, Scoped(b, TRUE)) : f \in {"f", NoName},
                                             ps \in {<<>>, <<"x">>},
                                             b \in Bodies \cup Nested}
Compound == Scopings \cup Functions \cup {Binary(s, "+", Var("x")) : s \in Scopings}
Statements ==
  Bottom \cup Returns
  \cup {VarStmt(x, e) : x \in {"x", "f"}, e \in Compound}
  \cup {PrintStmt(e) : e \in Scopings} \cup {ExprStmt(e) : e \in Functions}
  \cup {Block(<<s>>) : s \in Bottom}
  \cup {While(Var("x"), ExprStmt(Assignment("x", Literal(1)))),
        IfElse(Literal(1), Block(<<VarStmt("x", Literal(1))>>), ExprStmt(Var("x")))}

\* What the second statement finds of the first.
Uses == {ExprStmt(e) : e \in Atoms} \cup {VarStmt("x", Scoped(<<ExprStmt(Var("x"))>>, FALSE)),
         ExprStmt(Func(NoName, <<>>, Scoped(<<ExprStmt(Var("x"))>>, TRUE)))}
AllPrograms == {FunctionStmt(<<s1, s2>>) : s1 \in Statements, s2 \in Uses}

AllNodes == AllPrograms \cup UNION {SubNodes(s) : s \in Statements \cup Uses}

\* The values of Program and Node; TLC evaluates the sets they name once.
Programs == AllPrograms
Nodes == AllNodes

\* The resolver accepts exactly the well-scoped programs.  Among others this says
\* that visiting a returned value twice, defining and assigning in two steps and
\* keeping the functions in one global table change no verdict.
VerdictFollowsRules ==
  verdict # Running => (verdict = Accepted <=> WellScoped(program))

=============================================================================
