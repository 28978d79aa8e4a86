------------------------------- MODULE Parser -------------------------------
(***************************************************************************)
(* prsl/Parser/Parser: recursive descent over the tokens of the scanner.   *)
(*                                                                         *)
(* A token is <<type>> or <<type, lexeme>>; types are written as the text  *)
(* of the token except "ident", "number" and "eof"; the lexeme of a number *)
(* is the number.  Most operators are one method of the class: they take   *)
(* the parser at the call and give the parser at the return, with the      *)
(* method's result in val.  A ParseError sets thrown, which no method but  *)
(* program() clears.                                                       *)
(***************************************************************************)
EXTENDS AST

CONSTANT MaxLiteral     \* the largest number that fits an int

\* The parser p: what is left of tokens from currentIter on, whether it is in a
\* function, whether it is throwing; how many errors the logger has counted, and
\* what was left when the last of them was found.
ParserOf(tokens) ==
  [rest |-> tokens, isFunction |-> FALSE, thrown |-> FALSE,
   errors |-> 0, errorAt |-> <<>>, val |-> <<>>]

Type(p) == p.rest[1][1]
Lexeme(p) == LET t == p.rest[1] IN t[Len(t)]

advance(p) == IF Type(p) = "eof" THEN p ELSE [p EXCEPT !.rest = Tail(@)]
Throw(p) ==
  [p EXCEPT !.thrown = TRUE, !.errors = @ + 1, !.errorAt = p.rest]
\* Mutant: the token may be missing.
consumeIfThere(p, type) == IF ~p.thrown /\ Type(p) = type THEN advance(p) ELSE p
consumeOrError(p, type) ==
  IF p.thrown THEN p ELSE IF Type(p) = type THEN advance(p) ELSE Throw(p)
\* Mutant: the token has to be there.
skipRequired(p, type) == consumeOrError(p, type)
skipOver(p, type) == IF ~p.thrown /\ Type(p) = type THEN advance(p) ELSE p

\* A method's result: val; what make makes of the result there is.
Give(p, val) == IF p.thrown THEN p ELSE [p EXCEPT !.val = val]
Make(p, make(_)) == Give(p, make(p.val))

RECURSIVE decl(_), stmt(_), decls(_, _), assignmentExpr(_), binaryExpr(_, _),
          operands(_, _), arguments(_, _), primaryExpr(_), parameters(_, _)

expr(p) == IF p.thrown THEN p ELSE assignmentExpr(p)

-----------------------------------------------------------------------------
\* Statements.

matchNext(p, type) == Type(p) # "eof" /\ p.rest[2][1] = type

decl(p) ==
  IF Type(p) = "ident" /\ matchNext(p, "=")
    THEN skipOver(Make(expr(advance(advance(p))), LAMBDA e : VarStmt(Lexeme(p), e)), ";")
    ELSE stmt(p)

\* The loop of blockStmt and scopeExpr; done are the statements before.
declsAfter(d, done) == decls(d, Append(done, d.val))
decls(p, done) ==
  IF p.thrown \/ Type(p) \in {"}", "eof"} THEN Give(p, done)
  ELSE declsAfter(decl(p), done)

blockStmt(p) == Make(consumeOrError(decls(advance(p), <<>>), "}"), Block)

\* "(" <expr> ")" <stmt>, of ifStmt and whileStmt: the condition and the body.
guardedBy(condition) ==
  IF condition.thrown THEN condition
  ELSE Make(stmt(condition), LAMBDA body : <<condition.val, body>>)
guarded(p) == guardedBy(consumeOrError(expr(consumeOrError(advance(p), "(")), ")"))

elseBranch(if) ==
  IF if.thrown THEN if
  ELSE IF Type(if) = "else"
    THEN Make(stmt(advance(if)), LAMBDA else : IfElse(if.val[1], if.val[2], else))
    ELSE Give(if, If(if.val[1], if.val[2]))
ifStmt(p) == elseBranch(guarded(p))

whileStmt(p) == Make(guarded(p), LAMBDA loop : While(loop[1], loop[2]))

\* <expr> ";", which ends these three.
ended(p) == consumeOrError(expr(p), ";")
printStmt(p) == Make(ended(advance(p)), PrintStmt)
returnStmt(p) == Make(ended(advance(p)), LAMBDA e : Return(e, TRUE))
exprStmt(p) == Make(ended(p), ExprStmt)

stmt(p) ==
  CASE Type(p) = "if" -> ifStmt(p)
    [] Type(p) = "{" -> blockStmt(p)
    [] Type(p) = "while" -> whileStmt(p)
    [] Type(p) = "print" -> printStmt(p)
    [] Type(p) = "return" -> returnStmt(p)
    [] Type(p) = ";" -> Give(advance(p), Null)
    [] OTHER -> exprStmt(p)

-----------------------------------------------------------------------------
\* Expressions.

assigned(target) ==
  IF target.thrown \/ Type(target) # "=" THEN target
  ELSE IF target.val.kind # "Var" THEN Throw(advance(target))
  ELSE Make(assignmentExpr(advance(target)), LAMBDA e : Assignment(target.val.name, e))
assignmentExpr(p) == assigned(binaryExpr(p, 1))

\* comparisonExpr, additionExpr, multiplicationExpr.  Mutant: the last two swapped.
LevelSwapped == <<{">", ">=", "<", "<=", "==", "!="}, {"*", "/"}, {"+", "-"}>>
Level == <<{">", ">=", "<", "<=", "==", "!="}, {"+", "-"}, {"*", "/"}>>

called(callee) ==
  IF callee.thrown \/ Type(callee) # "(" THEN callee
  ELSE IF callee.val.kind # "Var" THEN Throw(callee)
  ELSE Make(consumeOrError(arguments(advance(callee), <<>>), ")"),
            LAMBDA args : Call(callee.val.name, args))
callExpr(p) == called(primaryExpr(p))

postfixed(operand) ==
  IF ~operand.thrown /\ Type(operand) \in {"++", "--"}
    THEN Give(advance(operand), Postfix(operand.val, Type(operand)))
    ELSE operand
postfixExpr(p) == postfixed(callExpr(p))

unaryExpr(p) ==
  IF Type(p) = "-"
    THEN Make(postfixExpr(advance(p)), LAMBDA e : Unary("-", e))
    ELSE postfixExpr(p)

binaryExpr(p, level) ==
  IF level > Len(Level) THEN unaryExpr(p)
  ELSE operands(binaryExpr(p, level + 1), level)

operands(lhs, level) ==
  IF lhs.thrown \/ Type(lhs) \notin Level[level] THEN lhs
  ELSE operands(Make(binaryExpr(advance(lhs), level + 1),
                     LAMBDA e : Binary(lhs.val, Type(lhs), e)), level)

\* The arguments of a call, if there are any; done are those before.
argumentsAfter(arg, args) ==
  IF ~arg.thrown /\ Type(arg) = "," THEN arguments(advance(arg), args)
  ELSE Give(arg, args)
argument(arg, done) == argumentsAfter(arg, Append(done, arg.val))
arguments(p, done) ==
  IF done = <<>> /\ Type(p) = ")" THEN Give(p, done)
  ELSE argument(assignmentExpr(p), done)

literalExpr(p) ==
  IF Lexeme(p) <= MaxLiteral THEN Give(advance(p), Literal(Lexeme(p)))
  ELSE Throw(advance(p))

groupingExpr(p) == Make(consumeOrError(expr(advance(p)), ")"), Grouping)

\* The scope of the statements in body.  Mutant: it is left as it was written.
scopedAsIs(body) ==
  IF body.thrown THEN body ELSE Make(consumeOrError(body, "}"), ScopeExpr)
scoped(body) ==
  IF body.thrown THEN body
  ELSE IF ReturnsFunction(body.val) THEN Throw(body)
  ELSE Make(consumeOrError(body, "}"),
            LAMBDA stmts : ScopeExpr(EndScope(stmts, body.isFunction)))
scopeExpr(p) == scoped(decls(advance(p), <<>>))

\* After a comma any token is taken for a parameter.
parameters(p, done) ==
  IF Type(p) = ","
    THEN LET name == advance(p) IN parameters(advance(name), Append(done, Lexeme(name)))
    ELSE Give(p, done)

\* ":" <ident>, which may be missing: the parameters and the name.
functionName(p) ==
  LET colon == skipOver(p, ":")
      named == consumeOrError(colon, "ident")
  IN  IF p.thrown \/ Type(p) # ":" THEN Give(p, <<p.val, NoName>>)
      ELSE Give(named, <<p.val, Lexeme(colon)>>)

\* Behind its body the parser is where it was before the function.  Mutant: it goes
\* on as if it were inside.
RestoredNever(p, before) == p
Restored(p, before) == IF p.thrown THEN p ELSE [p EXCEPT !.isFunction = before]
functionBody(p, before) ==
  IF p.thrown THEN p
  ELSE IF Type(p) # "{" THEN Throw(p)
  ELSE Restored(Make(scopeExpr([p EXCEPT !.isFunction = TRUE]),
                     LAMBDA body : Func(p.val[2], p.val[1], body)), before)

funcExpr(p) ==
  LET open == consumeOrError(advance(p), "(")
      params == IF open.thrown \/ Type(open) # "ident" THEN Give(open, <<>>)
                ELSE parameters(advance(open), <<Lexeme(open)>>)
  IN  functionBody(functionName(consumeOrError(params, ")")), p.isFunction)

primaryExpr(p) ==
  CASE Type(p) = "number" -> literalExpr(p)
    [] Type(p) = "(" -> groupingExpr(p)
    [] Type(p) = "ident" -> Give(advance(p), Var(Lexeme(p)))
    [] Type(p) = "?" -> Give(advance(p), Input)
    [] Type(p) = "func" -> funcExpr(p)
    [] Type(p) = "{" -> scopeExpr(p)
    [] OTHER -> Throw(p)

-----------------------------------------------------------------------------
\* synchronize() stops at the first of these.
Starts == {"while", "if", "print", "eof"}
RECURSIVE synchronize(_)
synchronize(p) == IF Type(p) \in Starts THEN p ELSE synchronize(advance(p))

\* The loop is not resumed after synchronize(): what was parsed before the error
\* is the program.
RECURSIVE parseProgram(_, _)
\* Mutant: it is.
programResumed(d, done) ==
  IF d.thrown THEN parseProgram([synchronize(d) EXCEPT !.thrown = FALSE], done)
  ELSE parseProgram(d, Append(done, d.val))
programAfter(d, done) ==
  IF d.thrown THEN [synchronize(d) EXCEPT !.thrown = FALSE, !.val = FunctionStmt(done)]
  ELSE parseProgram(d, Append(done, d.val))
parseProgram(p, done) ==
  IF Type(p) = "eof" THEN Give(p, FunctionStmt(done)) ELSE programAfter(decl(p), done)

\* What Compiler's parse() makes of the tokens before the EOF.
parse(tokens) == parseProgram(ParserOf(Append(tokens, <<"eof">>)), <<>>)

=============================================================================
