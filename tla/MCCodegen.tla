----------------------------- MODULE MCCodegen -----------------------------
(***************************************************************************)
(* The code generator on the programs of a small grammar that the resolver *)
(* accepts, and then the module it made, run: x is set, a function or a    *)
(* scope, a statement that computes, calls, branches or loops, then x is   *)
(* printed.                                                                *)
(***************************************************************************)
EXTENDS Codegen, MCPrograms, ScopingRules

CONSTANT MaxFrames      \* as in Machine

VARIABLES frames, printed, outcome

machine == <<frames, printed, outcome>>
compiler == <<program, todo, values, scopes, functions, returnStack, status>>

Run == INSTANCE Machine
M == INSTANCE Meaning

MCInit == Init /\ Run!Init
MCNext ==
  \/ Next /\ UNCHANGED machine
  \/ status = Finished /\ Run!Next /\ UNCHANGED compiler
MCSpec == MCInit /\ [][MCNext]_<<vars, machine>> /\ WF_<<vars, machine>>(MCNext)

-----------------------------------------------------------------------------
\* The programs.

Test(op, n) == Binary(X, op, Literal(n))
Step(op) == ExprStmt(Postfix(X, op))
Inner(name) == Func(name, <<"x">>, Scoped(<<ExprStmt(Binary(X, "*", X))>>, TRUE))

Bodies ==
  {<<SetX(Lit)>>, <<SetX(Input), ExprStmt(X)>>,
   <<If(Test(">", 1), Return(Lit, TRUE)), PrintStmt(X)>>,
   <<If(Test(">", 1), Block(<<SetX(Lit), Return(Postfix(X, "++"), TRUE)>>)), ExprStmt(X)>>,
   <<Return(X, TRUE), PrintStmt(X)>>,
   <<While(Test(">", 0), Step("--")), ExprStmt(X)>>,
   <<While(Test(">", 0), Block(<<Step("--"), If(Test("==", 1), Return(Literal(3), TRUE))>>)),
     ExprStmt(X)>>,
   <<If(Test(">", 0), ExprStmt(Call("f", <<Binary(X, "-", Lit)>>))), PrintStmt(X)>>,
   <<ExprStmt(Call("f", <<X>>))>>,
   <<IfElse(Test("<=", 1), Return(Lit, TRUE), Return(Unary("-", X), TRUE))>>,
   <<VarStmt("g", Inner(NoName)), ExprStmt(Binary(X, "+", Call("g", <<X>>)))>>,
   <<IfElse(Test(">", 1), VarStmt("g", Lit), VarStmt("g", X)), ExprStmt(Var("g"))>>,
   <<ExprStmt(Inner("g")), SetX(Call("g", <<X>>)), ExprStmt(X)>>}

Functions == {Func(f, ps, Scoped(b, TRUE)) :
                f \in {"f", NoName}, ps \in {<<>>, <<"x">>, <<"x", "x">>}, b \in Bodies}
Scopings == {Scoped(b, FALSE) : b \in {<<>>, <<SetX(Lit), ExprStmt(X)>>,
               <<VarStmt("g", X), Block(<<SetX(Lit), VarStmt("g", Lit)>>), ExprStmt(Var("g"))>>,
               <<While(Test(">", 0), Step("--"))>>}}

\* f is bound to another function, in a block or in a branch.
Rebindings == {Block(<<VarStmt("f", Inner(NoName))>>),
               If(Test(">", 1), VarStmt("f", Inner(NoName)))}

First == {VarStmt("f", fun) : fun \in Functions}
         \cup {ExprStmt(fun) : fun \in Functions} \cup {SetX(e) : e \in Scopings}
Second ==
  {PrintStmt(e) : e \in {F, Call("f", <<Binary(X, "/", X)>>), Call("f", <<Lit, Assignment("x", Literal(2))>>),
                         Test("<", 1), Binary(Binary(Lit, "<", Lit), "==", Test(">=", 2)),
                         Grouping(Unary("-", Literal(2))), X}}
  \cup {IfElse(Test("!=", 0), SetX(Call("f", <<X>>)), Null),
        While(Test("<", 3), SetX(Binary(X, "+", Lit))),
        Block(<<VarStmt("g", Call("f", <<X>>)), PrintStmt(Var("g"))>>)}
  \cup {PrintStmt(Scoped(<<s, ExprStmt(Call("f", <<X>>))>>, FALSE)) : s \in Rebindings}

Start == {<<SetX(Literal(2))>>, <<SetX(Literal(0))>>}
Candidates == {FunctionStmt(st \o <<s1, s2, PrintStmt(X)>>) :
                 st \in Start, s1 \in First, s2 \in Second}
\* A scope in a function, not as its body.
ScopeInFunction ==
  FunctionStmt(<<VarStmt("f", Func(NoName, <<"x">>, Scoped(
                   <<SetX(Scoped(<<ExprStmt(Literal(3))>>, TRUE)), ExprStmt(Binary(X, "+", X))>>, TRUE))),
                 PrintStmt(Call("f", <<Lit>>))>>)
WellScopedOnes == {p \in Candidates : WellScoped(p)}
AllNodes == SubNodes(ScopeInFunction) \cup Candidates
            \cup UNION {SubNodes(s) : s \in First \cup Second \cup {PrintStmt(X)}
                                            \cup {st[1] : st \in Start}}

\* The values of Program and Node; TLC evaluates the sets they name once.
Programs == WellScopedOnes
Nested == {ScopeInFunction}
Nodes == AllNodes

\* Scopes end as the parser ends them.
ASSUME ScopesReturn == \A n \in AllNodes : EndsWithValue(n)

\* A return is the last statement of the blocks it is in.
ReturningNodes ==
  {n \in AllNodes :
     \/ n.kind = "Return"
     \/ n.kind = "Block" /\ \E i \in DOMAIN n.kids : n.kids[i].kind = "Return"}
ASSUME Structured == ReturnsEndBlocks(ReturningNodes)

-----------------------------------------------------------------------------
\* What Codegen is not made for, node by node: a condition that is a number, a
\* comparison or a function used like one, a variable that holds a function used for
\* anything but calls, two functions of one name, a function in a branch or a loop (what
\* a name is bound to is decided while translating, whatever branch runs).
IsTest(n) == n.kind = "Binary" /\ n.op \in Comparisons
HoldsFunction(root, x) ==
  \E n \in SubNodes(root) : n.kind = "VarStmt" /\ n.name = x /\ n.kids[1].kind = "Func"
Simple(root) ==
  \A n \in SubNodes(root) :
    /\ \A i \in DOMAIN n.kids :
         LET kid == n.kids[i]
             condition == n.kind \in {"If", "While"} /\ i = 1
         IN  /\ condition => IsTest(kid)
             /\ IsTest(kid) =>
                  \/ condition
                  \/ n.kind = "Print"
                  \/ n.kind = "Binary" /\ n.op \in {"==", "!="}
                       /\ IsTest(n.kids[1]) /\ IsTest(n.kids[2])
             /\ kid.kind = "Func" => n.kind \in {"VarStmt", "ExprStmt"}
    /\ n.kind \in {"Var", "Assignment"} => ~HoldsFunction(root, n.name)
    /\ n.kind = "VarStmt" /\ n.kids[1].kind # "Func" => ~HoldsFunction(root, n.name)
    /\ n.kind = "Func" => \A m \in SubNodes(root) :
         m.kind = "Func" /\ m.name = n.name /\ n.name # NoName => m = n
    /\ n.kind \in {"If", "While"} => \A m \in SubNodes(n) : m.kind # "Func"

\* The operands of i have the types that it needs.
WellTyped(i) ==
  LET type(k) == TypeOfValue(i.args[k]) IN
  CASE i.op \in Arithmetic \cup {"store", "ret", "neg"} -> type(1) = "i32"
    [] i.op \in Comparisons -> type(1) = type(2)
    [] i.op = "condbr" -> type(1) = "i1"
    [] OTHER -> TRUE

\* A program without scopes in functions becomes IR that LLVM's verifier accepts:
\* visitIfStmt and visitWhileStmt drop the branch at the end of what has returned,
\* and it is returnStack that tells them, pushed by visitReturnStmt any number of
\* visits below and popped by the first evaluateScope, if or while that looks.
\* verifyFunction is asked (Codegen.cpp:334) but not listened to.
Verifies ==
  status = Finished /\ Simple(program) =>
    \A b \in DOMAIN ir.blocks :
      LET code == ir.blocks[b].code IN
      /\ code # <<>> /\ code[Len(code)].op \in Terminators
      /\ \A k \in DOMAIN code : WellTyped(code[k]) /\ (code[k].op \in Terminators => k = Len(code))

\* What the resolver accepts is translated, or refused for a call: the variables it
\* has seen defined are the ones Codegen has a slot for.
AcceptedTranslates == status # Signalled /\ NullPtr \notin {values[i] : i \in DOMAIN values}

\* The compiled program prints what the program means, as the tests expect that
\* run both (test/pass/pass_5.prsl:1-4).
NoInput(root) == \A n \in SubNodes(root) : n.kind # "Input"
SameOutput ==
  LET m == M!Do(program, M!Start) IN
  m.end = M!Going => outcome = Run!Exited /\ printed = m.out
Ended == outcome \in {Run!Exited, Run!Undefined}
CompiledMeansSame == Ended /\ Simple(program) /\ NoInput(program) => SameOutput
\* The same of every program.
CodegenAgrees == Ended /\ NoInput(program) => SameOutput

\* Translation ends, and so do the programs considered: none loops for ever.
Terminates == <>(status \notin {Running, Finished} \/ outcome \notin {Run!Waiting, Run!Executing})

=============================================================================
