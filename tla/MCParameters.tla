---------------------------- MODULE MCParameters ----------------------------
(***************************************************************************)
(* Function expressions with any tokens for parameters, written token by   *)
(* token.                                                                  *)
(***************************************************************************)
EXTENDS Parser, MCPrograms

Mark(type) == <<<<type>>>>
Ident(x) == <<<<"ident", x>>>>
Separators == {",", ")", ":"}
Texts ==
  {Mark("func") \o Mark("(") \o Ident("x") \o Mark(s1) \o t \o Mark(s2) \o Mark("{")
     \o Mark("}") \o Mark(";") :
   s1 \in Separators, s2 \in Separators, t \in {Ident("f"), Mark(";"), Mark(")")}}

VARIABLE source     \* the tokens in the file so far

Init == source = <<>>
Write(token) ==
  /\ source' = Append(source, token)
  /\ \E t \in Texts : Len(source') <= Len(t) /\ SubSeq(t, 1, Len(source')) = source'
Next == \E t \in Texts : \E i \in DOMAIN t : Write(t[i])
Spec == Init /\ [][Next]_source

\* The grammar of funcExpr in the README and at Parser.cpp:396 has an <ident> for
\* each parameter: the parameters of an accepted function are names.
ParametersAreNames ==
  LET result == parse(source) IN
  result.errors = 0 =>
    \A n \in SubNodes(result.val) : \A i \in DOMAIN n.params : n.params[i] \in Name

=============================================================================
