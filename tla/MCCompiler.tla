---------------------------- MODULE MCCompiler ----------------------------
(***************************************************************************)
(* Small programs through the whole pipeline: the texts of pairs of        *)
(* statements, and what is left of each when one token is missing.         *)
(***************************************************************************)
EXTENDS Compiler, Parser, MCPrograms, Grammar, SequencesExt, FiniteSetsExt

\* The statements; what each does on its own is well known, what the second
\* finds of the first is the point.
First == {SetX(Input), SetX(Literal(0)), SetX(Func(NoName, <<>>, Scoped(<<ExprStmt(Lit)>>, TRUE))),
          VarStmt("f", Func("f", <<"x">>, Scoped(<<Return(X, TRUE)>>, TRUE))),
          ExprStmt(Func("f", <<>>, Scoped(<<If(Input, Return(Lit, TRUE))>>, TRUE))),
          SetX(Scoped(<<SetX(Literal(2)), ExprStmt(X)>>, FALSE)),
          Block(<<SetX(Lit)>>), If(Literal(0), ExprStmt(Assignment("x", Lit))), Null,
          Return(Lit, TRUE)}
Second == {PrintStmt(X), PrintStmt(F), PrintStmt(Call("f", <<Lit>>)),
           PrintStmt(Binary(Literal(2), "/", Input)),
           PrintStmt(Scoped(<<SetX(Lit)>>, FALSE)),
           PrintStmt(Scoped(<<Block(<<SetX(Lit)>>), ExprStmt(X)>>, FALSE)),
           PrintStmt(Unary("-", X)), PrintStmt(Postfix(X, "++")), PrintStmt(Postfix(Lit, "++")),
           While(X, ExprStmt(Postfix(X, "--"))),
           PrintStmt(Assignment("x", Binary(X, "+", X)))}
Trees == {FunctionStmt(<<s, u, PrintStmt(X)>>) : s \in First, u \in Second}
         \cup {FunctionStmt(<<s, u>>) : s \in First,
                 u \in {PrintStmt(F), PrintStmt(Call("f", <<Lit>>))}}

Longest(texts) == CHOOSE t \in texts : \A u \in texts : Len(u) <= Len(t)
Spellings == {Longest(Texts(p, FALSE)) : p \in Trees}
Missing == {2, 5}
Whole == Spellings \cup {RemoveAt(s, i) : s \in Spellings, i \in Missing} \cup {<<>>}
ParsedTexts == [t \in Whole |-> parse(t)] @@ <<>>
Roots == {parse(t).val : t \in Whole}
AllNodes == UNION {SubNodes(p) : p \in Roots}

\* Each mode with a source; otherwise what main or Codegen refuses.
File == "inputs" :> "source.prsl"
Compile == File @@ "codegen" :> ""
Lines ==
  {File, File @@ "parse" :> "", File @@ "interpret" :> "",
   Compile @@ "filetype" :> "obj", Compile @@ "target" :> "unknown",
   File @@ "parse" :> "" @@ "interpret" :> "", Compile @@ "parse" :> "",
   Compile @@ "interpret" :> "", File @@ "filetype" :> "elf", File @@ "-O" :> 4,
   File @@ "--output-file" :> "source.ll", File @@ "help" :> "", "version" :> "",
   "-O" :> 1, Compile @@ "reloc" :> "dynamic" @@ "-O" :> 3}

\* The values of Parsed, Program and Node; TLC evaluates what they name once.
Parses == ParsedTexts
Programs == Roots
Nodes == AllNodes

\* What Parsed has is the parser's work; the largest literal is the largest int.
ASSUME ParserAssumption ==
  /\ MaxLiteral = MaxInt
  /\ \A s \in DOMAIN Parsed : Parsed[s] = parse(s)

-----------------------------------------------------------------------------
\* Without a branch not taken, a loop or a function, and unless a variable is read
\* in the expression that first gives it a value, the resolver's order is the
\* order of execution: what it accepts finds its variables, and only arithmetic
\* can fail.
Initializes(n) == n.kind \in {"Assignment", "VarStmt"}
Straight(root) ==
  \A n \in SubNodes(root) :
    /\ n.kind \notin {"If", "While", "Func", "Call"}
    /\ Initializes(n) => \A m \in SubNodes(n.kids[1]) : ~Initializes(m) /\ m.kind # "Var"
AcceptedFindsVariables ==
  stage \in Ends /\ rVerdict = R!Accepted /\ Straight(tree) =>
    status \in {I!Running, I!Finished, NonNumeric, DivisionByZero, IllegalOperator, I!Signalled}

=============================================================================
