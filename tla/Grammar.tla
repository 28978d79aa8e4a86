------------------------------ MODULE Grammar ------------------------------
(***************************************************************************)
(* What the parser must build, said from the tree to the text: the token   *)
(* sequences that spell a node, and the trees that follow the precedence   *)
(* of the operators.  Parser.tla, which goes from the text to the tree, is *)
(* checked against it.                                                     *)
(***************************************************************************)
EXTENDS AST, FiniteSets

\* Texts that follow one another; a text is one of a set of spellings.
RECURSIVE Concat(_)
Concat(texts) ==
  IF texts = <<>> THEN {<<>>}
  ELSE {a \o b : a \in Head(texts), b \in Concat(Tail(texts))}
Token(t) == {<<t>>}
Mark(type) == Token(<<type>>)
Ident(x) == Token(<<"ident", x>>)
Optional(text) == text \cup {<<>>}
Separated(texts) ==
  Concat([i \in DOMAIN texts |->
            IF i = 1 THEN texts[i] ELSE Concat(<<Mark(","), texts[i]>>)])

\* The spellings of n; inF: in a function.
RECURSIVE Texts(_, _)
Texts(n, inF) ==
  LET text == [i \in DOMAIN n.kids |-> Texts(n.kids[i], inF \/ n.kind = "Func")]
      last == n.kids[Len(n.kids)]
      returns == {i \in DOMAIN n.kids : n.kids[i].kind = "Return"}
      \* The last return of a scope may be spelled without the keyword, or, if it
      \* returns 0 and is the only one, not at all.
      value == IF last.kids[1].kind = "Func" THEN {}
               ELSE Concat(<<Texts(last.kids[1], inF), Mark(";")>>)
      nothing == IF last.kids[1] # Literal(0) \/ Len(n.kids) \notin returns
                      \/ Cardinality(returns) > 1
                   THEN {}
                 ELSE IF Len(n.kids) > 1 /\ n.kids[Len(n.kids) - 1].kind = "ExprStmt"
                   THEN {}
                 ELSE {<<>>}
      implicit == IF last.isFunction = inF /\ last.kind = "Return"
                    THEN value \cup nothing ELSE {}
  IN
  CASE n.kind = "Literal" -> Token(<<"number", n.val>>)
    [] n.kind = "Grouping" -> Concat(<<Mark("("), text[1], Mark(")")>>)
    [] n.kind = "Var" -> Ident(n.name)
    [] n.kind = "Input" -> Mark("?")
    [] n.kind = "Assignment" -> Concat(<<Ident(n.name), Mark("="), text[1]>>)
    [] n.kind = "Unary" -> Concat(<<Mark(n.op), text[1]>>)
    [] n.kind = "Binary" -> Concat(<<text[1], Mark(n.op), text[2]>>)
    [] n.kind = "Postfix" -> Concat(<<text[1], Mark(n.op)>>)
    [] n.kind = "Call" ->
         Concat(<<Ident(n.name), Mark("("), Separated(text), Mark(")")>>)
    [] n.kind = "Scope" ->
         Concat(<<Mark("{")>> \o SubSeq(text, 1, Len(text) - 1)
                \o <<implicit \cup text[Len(text)], Mark("}")>>)
    [] n.kind = "Func" ->
         Concat(<<Mark("func"), Mark("("),
                  Separated([i \in DOMAIN n.params |-> Ident(n.params[i])]), Mark(")"),
                  IF n.name = NoName THEN {<<>>} ELSE Concat(<<Mark(":"), Ident(n.name)>>),
                  text[1]>>)
    [] n.kind = "VarStmt" ->
         Concat(<<Ident(n.name), Mark("="), text[1], Optional(Mark(";"))>>)
    [] n.kind = "If" ->
         Concat(<<Mark("if"), Mark("("), text[1], Mark(")"), text[2]>>
                \o IF Len(n.kids) = 3 THEN <<Mark("else"), text[3]>> ELSE <<>>)
    [] n.kind = "While" -> Concat(<<Mark("while"), Mark("("), text[1], Mark(")"), text[2]>>)
    [] n.kind = "Print" -> Concat(<<Mark("print"), text[1], Mark(";")>>)
    [] n.kind = "ExprStmt" -> Concat(<<text[1], Mark(";")>>)
    [] n.kind = "Return" ->
         IF n.isFunction THEN Concat(<<Mark("return"), text[1], Mark(";")>>) ELSE {}
    [] n.kind = "Block" -> Concat(<<Mark("{")>> \o text \o <<Mark("}")>>)
    [] n.kind = "Function" -> Concat(text)
    [] n.kind = "Null" -> Mark(";")

-----------------------------------------------------------------------------
\* How tightly an expression binds.
Strength(e) ==
  CASE e.kind = "Assignment" -> 0
    [] e.kind = "Binary" -> IF e.op \in {"*", "/"} THEN 3
                            ELSE IF e.op \in {"+", "-"} THEN 2 ELSE 1
    [] e.kind = "Unary" -> 4
    [] e.kind = "Postfix" -> 5
    [] OTHER -> 6

\* A statement that an else written behind it would belong to.
RECURSIVE TakesElse(_)
TakesElse(n) ==
  \/ n.kind = "If" /\ (Len(n.kids) = 2 \/ TakesElse(n.kids[3]))
  \/ n.kind = "While" /\ TakesElse(n.kids[2])

\* Binary operators associate to the left, the stronger ones first; - applies to
\* a postfix expression, ++ and -- to a call or something simpler; an else
\* belongs to the nearest if.
Precedence(n) ==
  /\ n.kind = "Binary" => /\ Strength(n.kids[1]) >= Strength(n)
                          /\ Strength(n.kids[2]) > Strength(n)
  /\ n.kind = "Unary" => Strength(n.kids[1]) > Strength(n)
  /\ n.kind = "Postfix" => Strength(n.kids[1]) > Strength(n)
  /\ n.kind = "If" /\ Len(n.kids) = 3 => ~TakesElse(n.kids[2])

=============================================================================
