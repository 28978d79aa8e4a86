------------------------------- MODULE Tokens -------------------------------
(***************************************************************************)
(* prsl/Parser/Token: the tokens of the language.  A text is a sequence of *)
(* characters, a type is written as the text of the token except "ident",  *)
(* "number", "error" and "eof".                                            *)
(***************************************************************************)
EXTENDS Integers, Sequences

CONSTANTS Letter, Digit     \* the characters isalpha and isdigit know

Nul == "\\0"     \* behind the last character
Blank == {" ", "\r", "\t", "\n"}
\* The types of one character, of two, and the keywords, each with its spelling.
Single == {"=", ",", ":", ";", "(", ")", "+", "-", "*", "/", ">", "<", "{", "}", "?"}
Pair == {<<"==", <<"=", "=">>>>, <<"++", <<"+", "+">>>>, <<"--", <<"-", "-">>>>,
         <<">=", <<">", "=">>>>, <<"<=", <<"<", "=">>>>, <<"!=", <<"!", "=">>>>}
keywords ==
  {<<"if", <<"i", "f">>>>, <<"else", <<"e", "l", "s", "e">>>>,
   <<"while", <<"w", "h", "i", "l", "e">>>>, <<"print", <<"p", "r", "i", "n", "t">>>>,
   <<"func", <<"f", "u", "n", "c">>>>, <<"return", <<"r", "e", "t", "u", "r", "n">>>>}

SpelledBy(table, word) == {entry[1] : entry \in {e \in table : e[2] = word}}
TypeOf(table, word, default) ==
  IF SpelledBy(table, word) = {} THEN default
  ELSE CHOOSE type \in SpelledBy(table, word) : TRUE

Type ==
  Single \cup {entry[1] : entry \in Pair \cup keywords}
  \cup {"ident", "number", "error", "eof"}

ASSUME CharacterAssumption ==
  /\ Letter \cap Digit = {}
  /\ (Letter \cup Digit) \cap (Blank \cup Single \cup {"!", Nul}) = {}
  /\ \A entry \in keywords : entry[2][1] \notin Digit
=============================================================================
