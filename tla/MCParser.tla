------------------------------ MODULE MCParser ------------------------------
(***************************************************************************)
(* The parser on every text of MaxTokens tokens and on the texts of a set  *)
(* of trees, whole and with one token missing; each written token by       *)
(* token, so that all their beginnings are parsed too.                     *)
(***************************************************************************)
EXTENDS Parser, Grammar, MCPrograms, SequencesExt

CONSTANTS MaxTokens,  \* the length of the arbitrary texts
          MaxCut,     \* how far into a text a token is left out
          MaxLength   \* of a text

Good(n) == \A m \in SubNodes(n) : Precedence(m)

Atoms == {Lit, X, Grouping(X), Input, Call("f", <<X, Lit>>)}
Small == Atoms \cup {Unary("-", e) : e \in Atoms} \cup {Postfix(X, "++"), F}
         \cup {Binary(X, op, Lit) : op \in {"<", "+", "-", "*", "/"}}
         \cup {Assignment("x", Binary(X, "==", Lit))}
Medium == Small \cup {Binary(e1, op, e2) : e1 \in Small, op \in {">=", "-"}, e2 \in {Unary("-", X), Binary(X, "*", Lit)}}
          \cup {Unary("-", e) : e \in Small} \cup {Postfix(e, "--") : e \in Small}
          \cup {Assignment("x", e) : e \in Small} \cup {Call("f", <<e, X>>) : e \in Small}
Exprs == {e \in Medium : Good(e)}

Ends(inF) == {ExprStmt(X), ExprStmt(Lit), Return(Lit, TRUE), VarStmt("x", Lit), Null,
              If(X, Return(Lit, TRUE)), PrintStmt(Scoped(<<>>, inF))}
Bodies(inF) == {<<>>} \cup {<<s>> : s \in Ends(inF)}
               \cup {<<s, t>> : s \in {Return(X, TRUE), ExprStmt(X), Null}, t \in Ends(inF)}
Scopings(inF) == {Scoped(b, inF) : b \in Bodies(inF)}
Inner == Func("f", <<>>, Scoped(<<>>, TRUE))
Functions == {Func(f, ps, s) : f \in {"f", NoName}, ps \in {<<>>, <<"x", "f">>},
                               s \in Scopings(TRUE)}
             \cup {Func("f", <<>>, Scoped(<<SetX(Inner), PrintStmt(Scoped(<<>>, TRUE))>>, TRUE))}

\* A statement cannot start with a scope: "{" starts a block there.
Tails == {ExprStmt(X), ExprStmt(Assignment("x", X)), Block(<<ExprStmt(X)>>), Null,
          If(X, PrintStmt(X)), IfElse(X, If(X, Null), PrintStmt(X)), IfElse(X, Null, Null)}
Statements ==
  {VarStmt("x", e) : e \in Scopings(FALSE) \cup Functions \cup Exprs}
  \cup {PrintStmt(Binary(s, "+", Lit)) : s \in Scopings(FALSE)}
  \cup {ExprStmt(e) : e \in Functions \cup {d \in Small : d.kind # "Assignment"}}
  \cup {Block(b) : b \in Bodies(FALSE)} \cup {Return(X, TRUE), Null}
  \cup {While(X, s) : s \in Tails} \cup {If(X, s) : s \in Tails}
  \cup {IfElse(X, t, u) : t \in Tails, u \in Tails}
\* After a function the text is outside of it again: in a later scope, and in the
\* rest of the scope that the function stands in.
AfterFunctions ==
  {<<SetX(Inner), PrintStmt(Scoped(b, FALSE))>> : b \in {<<>>, <<ExprStmt(X)>>}}
  \cup {<<SetX(Scoped(<<SetX(Inner)>> \o b, FALSE))>> : b \in {<<>>, <<ExprStmt(X)>>}}
Trees == {FunctionStmt(<<s, PrintStmt(X)>>) : s \in {t \in Statements : Good(t)}}
         \cup {FunctionStmt(b) : b \in AfterFunctions}

\* Every spelling of every tree; no text spells two.
Spelled == UNION {{<<t, p>> : t \in Texts(p, FALSE)} : p \in Trees}
Spellings == {d[1] : d \in Spelled}
ASSUME SpellingsDiffer == Cardinality(Spelled) = Cardinality(Spellings)

Without(t, i) == IF i \in DOMAIN t THEN RemoveAt(t, i) ELSE t
Damaged == {Without(t, i) : t \in Spellings, i \in 1..MaxCut}
Tokens ==
  {<<"ident", x>> : x \in Name} \cup {<<"number", n>> : n \in {0, 1, 3, MaxLiteral + 1}}
  \cup {<<t>> : t \in {"=", "+", "-", "*", "/", "++", "--", "<", ">=", "==", "(", ")", "{", "}",
                       ";", ",", ":", "?", "if", "else", "while", "print", "return", "func",
                       "unknown"}}
Written == Spellings \cup Damaged \cup [1..MaxTokens -> Tokens]
Beginnings ==
  {IF i \in DOMAIN t THEN SubSeq(t, 1, i) ELSE <<>> : t \in Written, i \in 1..MaxLength}

-----------------------------------------------------------------------------
VARIABLE source     \* the tokens in the file so far

\* What parse makes of every beginning.
Results == [t \in Beginnings |-> parse(t)] @@ <<>>
Outcome == Results[source]

Init == source = <<>>
Write(token) == source' = Append(source, token) /\ source' \in Beginnings
Next == \E token \in Tokens : Write(token)
Spec == Init /\ [][Next]_source

-----------------------------------------------------------------------------
(***************************************************************************)
(* Properties.                                                             *)
(***************************************************************************)

Accepted == Outcome.errors = 0
Tree == SubNodes(Outcome.val)

\* An accepted text is one of the spellings of the tree built from it: no token
\* was dropped, moved or invented, and a scope returns what the text says,
\* marked as a function's return exactly inside functions.
TextKept == Accepted => source \in Texts(Outcome.val, FALSE)

\* The tree has the shape the precedence of the operators asks for.
PrecedenceKept == \A n \in Tree : Precedence(n)

\* What Semantics and Interpreter rely on in a tree (AstAssumption): every node
\* has the sub-nodes of its kind, and every scope ends with a value; also in what
\* is left of a program with an error.  The names of parameters are another
\* question (ParametersAreNames).
TreeIsWhole ==
  LET nodes == Tree IN
  \A n \in nodes : WellFormed([n EXCEPT !.params = <<>>], nodes) /\ EndsWithValue(n)

\* A spelled tree is parsed back, from any of its spellings.
ParsedBack ==
  source \in Spellings => <<source, Outcome.val>> \in Spelled /\ Accepted

\* What follows an error does not change what is reported or built.
ErrorStays ==
  [][Len(Outcome.errorAt) > 1 =>
       /\ Outcome'.errors = 1
       /\ Outcome'.val = Outcome.val
       /\ Len(Outcome'.errorAt) = Len(Outcome.errorAt) + 1]_source

=============================================================================
