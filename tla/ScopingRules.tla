---------------------------- MODULE ScopingRules ----------------------------
(***************************************************************************)
(* When a program is well scoped, said without a walk that keeps state: by *)
(* quantifying over the positions of the program text.  Semantics.tla is   *)
(* checked against it.                                                     *)
(*                                                                         *)
(* Text lists, in the order of the text, what matters to scoping: names    *)
(* whose initializer starts ("declare") and ends ("assign"), names read    *)
(* and called, functions with their parameters, returns, and operands of   *)
(* ++ and --; each with the scopes it stands in, outermost first.          *)
(***************************************************************************)
EXTENDS AST

LOCAL INSTANCE SequencesExt

RECURSIVE Text(_, _, _)
Text(n, path, outside) ==
  LET scope == [path |-> path, function |-> n.kind = "Func"]
      inside == IF n.kind \in {"Scope", "Block", "Func"}
                  THEN Append(outside, scope) ELSE outside
      mark(is) == <<[is |-> is, of |-> n, in |-> inside]>>
      kids == FlattenSeq([i \in DOMAIN n.kids |->
                            Text(n.kids[i], Append(path, i), inside)])
  IN  CASE n.kind \in {"Assignment", "VarStmt"} -> mark("declare") \o kids \o mark("assign")
        [] n.kind = "Var" -> mark("read")
        [] n.kind = "Call" -> mark("call") \o kids
        [] n.kind = "Postfix" -> mark("postfix") \o kids
        [] n.kind = "Return" -> mark("return") \o kids
        [] n.kind = "Func" -> mark("function") \o kids
        [] OTHER -> kids

\* What is introduced at q can be seen at p: the scope it belongs to is open and
\* no function starts in between.
Seen(t, q, p) ==
  /\ q < p
  /\ IsPrefix(t[q].in, t[p].in)
  /\ \A i \in (Len(t[q].in) + 1)..Len(t[p].in) : ~t[p].in[i].function

Parameter(t, q, x) ==
  t[q].is = "function" /\ \E i \in DOMAIN t[q].of.params : t[q].of.params[i] = x
Introduces(t, q, x) ==
  Parameter(t, q, x) \/ (t[q].is = "declare" /\ t[q].of.name = x)

\* A name is read after the end of an initializer that gave it its value.
ReadOK(t, p) ==
  LET x == t[p].of.name IN
  \E q \in 1..(p - 1) :
    /\ Introduces(t, q, x)
    /\ Seen(t, q, p)
    /\ \/ Parameter(t, q, x)
       \/ \E r \in (q + 1)..(p - 1) :
            t[r].is = "assign" /\ t[r].of.name = x /\ Seen(t, q, r)

\* A function is called after it was named anywhere, or through a variable.
CallOK(t, p) ==
  LET f == t[p].of.name IN
  \E q \in 1..(p - 1) :
    \/ t[q].is = "function" /\ t[q].of.name = f
    \/ (Introduces(t, q, f) /\ Seen(t, q, p))

ReturnOK(t, p) ==
  t[p].of.isFunction => \E i \in DOMAIN t[p].in : t[p].in[i].function
PostfixOK(t, p) == t[p].of.kids[1].kind \in {"Var", "Assignment"}

WellScoped(root) ==
  LET t == Text(root, <<>>, <<>>) IN
  \A p \in DOMAIN t :
    /\ t[p].is = "read" => ReadOK(t, p)
    /\ t[p].is = "call" => CallOK(t, p)
    /\ t[p].is = "return" => ReturnOK(t, p)
    /\ t[p].is = "postfix" => PostfixOK(t, p)

=============================================================================
