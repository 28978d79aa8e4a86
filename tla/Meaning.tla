------------------------------ MODULE Meaning ------------------------------
(***************************************************************************)
(* The meaning of a program, node by node, as a function of the state it   *)
(* starts in.  Interpreter.tla is checked against it.                      *)
(*                                                                         *)
(* It differs from the code in one place, on purpose: a return statement   *)
(* is an end like an error is, up to the scope expression or the function  *)
(* body around it.  That is what the tests expect of return (pass_13.prsl, *)
(* pass_20.prsl), and what the code arranges with a stack that only        *)
(* evaluateScope looks at.                                                 *)
(***************************************************************************)
EXTENDS Objects

Env == INSTANCE Scopes

Going == "going"
Return_ == "return"
Unknown == "unknown function"

Start == [env |-> <<Env!Opened(TRUE)>>, funs |-> [x \in Name |-> Absent],
          out |-> <<>>, val |-> Nil, end |-> Going]

End(st, how) == [st EXCEPT !.end = how]
Yield(st, obj) == IF st.end = Going THEN [st EXCEPT !.val = obj] ELSE st
Store(st, x, obj) ==
  IF st.end = Going THEN [st EXCEPT !.env = Env!defineOrAssign(@, x, obj), !.val = obj]
                    ELSE st
Called(st, f) ==
  IF st.funs[f] # Absent THEN st.funs[f]
  ELSE IF Env!contains(st.env, f) THEN Env!get(st.env, f) ELSE Absent

\* The functions directly inside n, in the order of the text.
RECURSIVE FunctionsIn(_)
FunctionsIn(n) ==
  IF n.kind = "Func" THEN <<n>>
  ELSE LET RECURSIVE Below(_)
           Below(i) == IF i > Len(n.kids) THEN <<>>
                       ELSE FunctionsIn(n.kids[i]) \o Below(i + 1)
       IN  Below(1)
RECURSIVE NameAll(_, _)
NameAll(funs, decls) ==
  IF decls = <<>> THEN funs
  ELSE NameAll(IF Head(decls).name = NoName THEN funs
               ELSE [funs EXCEPT ![Head(decls).name] = FuncObj(Head(decls))],
               Tail(decls))

RECURSIVE Do(_, _), DoAll(_, _), Args(_, _, _)

DoAll(nodes, st) ==
  IF nodes = <<>> THEN st ELSE DoAll(Tail(nodes), Do(Head(nodes), st))

\* The statements in a scope of their own.
Inside(scope, stmts, st) ==
  LET after == DoAll(stmts, [st EXCEPT !.env = Append(@, scope)])
  IN  [after EXCEPT !.env = Env!Leave(@)]

\* A return ends here.
Valued(st) ==
  IF st.end = Return_ THEN End(st, Going) ELSE Yield(st, Nil)

\* The arguments from the left; done are those evaluated before.
Args(nodes, done, st) ==
  IF nodes = <<>> \/ st.end # Going THEN [st |-> st, args |-> done]
  ELSE LET s == Do(Head(nodes), st) IN Args(Tail(nodes), Append(done, s.val), s)

Do(n, st) ==
  LET a == Do(n.kids[1], st)    \* after the first operand
      b == Do(n.kids[2], a)     \* and after the second
  IN
  IF st.end # Going THEN st ELSE
  CASE n.kind = "Literal" -> Yield(st, IntObj(n.val))
    [] n.kind = "Var" ->
         IF Env!contains(st.env, n.name) THEN Yield(st, Env!get(st.env, n.name))
         ELSE End(st, "Attempt to access an undef variable")
    [] n.kind \in {"Grouping", "ExprStmt"} -> a
    [] n.kind \in {"Assignment", "VarStmt"} -> Store(a, n.name, a.val)
    [] n.kind = "Unary" ->
         IF a.end # Going \/ IsInt(a.val) THEN Yield(a, IntObj(Wrap(-a.val[2])))
         ELSE End(a, NonNumeric)
    [] n.kind = "Binary" ->
         IF b.end # Going \/ BinaryError(n.op, a.val, b.val) = NoError
           THEN Yield(b, BinaryResult(n.op, a.val, b.val))
           ELSE End(b, BinaryError(n.op, a.val, b.val))
    [] n.kind = "Postfix" ->
         IF n.kids[1].kind # "Var" \/ a.end # Going THEN a
         ELSE IF IsInt(a.val)
           THEN Yield(Store(a, n.kids[1].name, Stepped(n.op, a.val[2])), a.val)
           ELSE End(a, IllegalOperator)
    [] n.kind = "Scope" -> Valued(Inside(Env!Opened(FALSE), n.kids, st))
    [] n.kind = "Block" -> Inside(Env!Opened(FALSE), n.kids, st)
    [] n.kind = "Function" -> DoAll(n.kids, st)
    [] n.kind = "Null" -> st
    [] n.kind = "Func" ->
         Yield([st EXCEPT !.funs = NameAll(@, FunctionsIn(n.kids[1]) \o <<n>>)],
               FuncObj(n))
    [] n.kind = "Call" ->
         LET f == Called(st, n.name)
             e == Args(n.kids, <<>>, st)
         IN  IF f = Absent THEN End(st, Unknown)
             ELSE IF ~IsFunc(f) THEN End(st, "Not a function")
             ELSE IF Len(f[2].params) # Len(n.kids)
               THEN End(st, "Wrong number of arguments")
             ELSE IF e.st.end # Going THEN e.st
             ELSE Valued(Inside(ArgumentScope(f[2].params, e.args),
                                f[2].kids[1].kids, e.st))
    [] n.kind = "If" ->
         IF a.end # Going THEN a
         ELSE IF isTrue(a.val) THEN b
         ELSE IF Len(n.kids) = 3 THEN Do(n.kids[3], a) ELSE a
    [] n.kind = "While" ->
         IF a.end # Going \/ ~isTrue(a.val) THEN a ELSE Do(n, b)
    [] n.kind = "Print" ->
         IF a.end = Going THEN [a EXCEPT !.out = Append(@, toString(a.val))] ELSE a
    [] n.kind = "Return" -> IF a.end = Going THEN End(a, Return_) ELSE a

=============================================================================
