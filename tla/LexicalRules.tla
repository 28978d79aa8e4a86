---------------------------- MODULE LexicalRules ----------------------------
(***************************************************************************)
(* What a scanner of prsl promises, as a relation between a text and its   *)
(* tokens: blanks and comments separate, otherwise the longest lexeme at   *)
(* hand is the next token, and what begins no lexeme is an error.          *)
(*                                                                         *)
(* A token is [type, first, after]: the half-open piece of the text it was *)
(* made from, (0, 0) for the tokens that show none.                        *)
(***************************************************************************)
EXTENDS Tokens

VARIABLES text, pos, tokens, ended

vars == <<text, pos, tokens, ended>>

Piece(first, after) == SubSeq(text, first, after - 1)
Ends == Len(text) + 1

\* The lexemes: symbols, words, numbers.
IsLexeme(word) ==
  /\ word # <<>>
  /\ \/ word \in {<<c>> : c \in Single} \cup {entry[2] : entry \in Pair}
     \/ word[1] \in Letter /\ \A i \in DOMAIN word : word[i] \in Letter \cup Digit
     \/ \A i \in DOMAIN word : word[i] \in Digit
LexemeType(word) ==
  IF Len(word) = 1 /\ word[1] \in Single THEN word[1]
  ELSE TypeOf(Pair \cup keywords, word, IF word[1] \in Digit THEN "number" ELSE "ident")

\* A comment opens at pos, and it is this piece.  The newline is no part of a //
\* comment; what opens a /* comment is no part of what ends it.
Opens(second) == pos < Len(text) /\ Piece(pos, pos + 2) = <<"/", second>>
LineComment(after) ==
  /\ Opens("/")
  /\ after = Ends \/ text[after] = "\n"
  /\ \A i \in pos..(after - 1) : text[i] # "\n"
Closed(after) == after - 2 >= pos + 2 /\ Piece(after - 2, after) = <<"*", "/">>
BlockComment(after) ==
  Opens("*") /\ Closed(after) /\ \A i \in pos..(after - 1) : ~Closed(i)

Init == pos = 1 /\ tokens = <<>> /\ ended = FALSE

Emit(type, first, after) ==
  tokens' = Append(tokens, [type |-> type, first |-> first, after |-> after])

\* after is where the text goes on.
Skip(after) ==
  /\ \/ after = pos + 1 /\ text[pos] \in Blank
     \/ LineComment(after)
     \/ BlockComment(after)
  /\ pos' = after
  /\ UNCHANGED <<text, tokens, ended>>

Take(after) ==
  /\ ~Opens("/") /\ ~Opens("*")
  /\ IsLexeme(Piece(pos, after))
  /\ \A i \in (after + 1)..Ends : ~IsLexeme(Piece(pos, i))
  /\ pos' = after
  /\ Emit(LexemeType(Piece(pos, after)), pos, after)
  /\ UNCHANGED <<text, ended>>

\* One character is given up, or a comment without an end.  A number that begins
\* with 0 may be refused here (NumbersAccepted in Scanner says when it must not be).
Refuse(after) ==
  /\ text[pos] \notin Blank
  /\ \A i \in (pos + 1)..Ends : ~BlockComment(i) /\ ~LineComment(i)
  /\ IF Opens("*") THEN after = Ends
     ELSE /\ after = pos + 1
          /\ text[pos] # "0" => \A i \in after..Ends : ~IsLexeme(Piece(pos, i))
  /\ pos' = after
  /\ Emit("error", 0, 0)
  /\ UNCHANGED <<text, ended>>

\* The end of the text is one EOF token, and another one before it if blanks or a
\* comment end the text.
End ==
  /\ pos = Ends
  /\ ~ended
  /\ \/ Emit("eof", 0, 0) /\ ended' = TRUE
     \/ /\ tokens # <<>> => tokens[Len(tokens)].type # "eof" /\ tokens[Len(tokens)].after # pos
        /\ pos > 1
        /\ Emit("eof", pos, pos)
        /\ UNCHANGED ended
  /\ UNCHANGED <<text, pos>>

Next == End \/ \E after \in (pos + 1)..Ends : Skip(after) \/ Take(after) \/ Refuse(after)

Spec == Init /\ [][Next]_vars
=============================================================================
