----------------------------- MODULE MCPrograms -----------------------------
(***************************************************************************)
(* What the MC modules share to build programs.  Operators with inF make   *)
(* what the parser makes inside a function (TRUE) or outside (FALSE).      *)
(***************************************************************************)
EXTENDS AST

Lit == Literal(1)
X == Var("x")
F == Call("f", <<>>)
SetX(e) == VarStmt("x", e)

RECURSIVE SubNodes(_)
SubNodes(n) == {n} \cup UNION {SubNodes(n.kids[i]) : i \in DOMAIN n.kids}
=============================================================================
