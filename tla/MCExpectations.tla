--------------------------- MODULE MCExpectations ---------------------------
(***************************************************************************)
(* What the tests and the comments of the code say of the interpreter, on  *)
(* programs that the resolver accepts and that go one step beyond what the *)
(* tests try: a return in a block or a loop with statements behind it, and *)
(* a call of a function whose definition was resolved but not evaluated.   *)
(***************************************************************************)
EXTENDS Interpreter, MCPrograms, ScopingRules

Bodies ==
  {<<If(X, Return(X, TRUE)), Return(Unary("-", X), TRUE)>>,
   <<If(X, Block(<<Return(X, TRUE), PrintStmt(Lit)>>)), Return(Lit, TRUE)>>,
   <<While(X, Return(X, TRUE)), Return(Lit, TRUE)>>,
   <<Block(<<Return(X, TRUE)>>), PrintStmt(X)>>}
Declared == {Func("f", <<"x">>, Scoped(b, TRUE)) : b \in Bodies}
Defining == {ExprStmt(d) : d \in Declared} \cup {If(Literal(0), ExprStmt(d)) : d \in Declared}
Roots == {p \in {FunctionStmt(<<s, PrintStmt(Call("f", <<e>>))>>) :
                   s \in Defining, e \in {Literal(0), Literal(2)}} : WellScoped(p)}
AllNodes == UNION {SubNodes(p) : p \in Roots}

\* The values of Program and Node; TLC evaluates the sets they name once.
Programs == Roots
Nodes == AllNodes

\* "Initialize obj, it can be in functionsManager or envManager" (Interpreter.cpp:178)
\* names the two cases of a call, and the resolver has made sure of one of them:
\* the function called is found in one of the two.
CalleeKnown == At("visit", {"Call"}) => Known \/ Bound

=============================================================================
