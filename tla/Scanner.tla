------------------------------- MODULE Scanner -------------------------------
(***************************************************************************)
(* prsl/Parser/Scanner: from the characters of a file to tokens, one step  *)
(* for each character that a loop looks at.  Places in the text are        *)
(* numbered from 1; behind the last character is the '\0' that c_str ends  *)
(* with.                                                                   *)
(***************************************************************************)
EXTENDS Tokens, FiniteSets

CONSTANT Text       \* the texts considered: of a file, what is before the first '\0'

ASSUME TextAssumption == Text \subseteq Seq(STRING \ {Nul})

VARIABLES
  text,
  start,      \* where the token being made begins
  current,    \* the character looked at
  line, col,
  tokens,     \* of tokenize()
  at          \* the loop or the choice that the scanner is in

vars == <<text, start, current, line, col, tokens, at>>

CharAt(i) == IF i \in DOMAIN text THEN text[i] ELSE Nul
peek == CharAt(current)
isEOL == peek = Nul
peekNext == IF isEOL THEN Nul ELSE CharAt(current + 1)

\* A token: its lexeme is a view of the text from first up to after; the lexemes of
\* errors and of the last EOF are not in the text.
Token == [type : Type, first : Nat, after : Nat, line : Int, col : Int]
Locations == {"tokenize", "blanks", "lexeme", "ident", "number", "line", "block", "done"}

TypeOK ==
  /\ text \in Text
  /\ start \in 1..(Len(text) + 1)
  /\ current \in start..(Len(text) + 1)
  /\ line \in 1..(Len(text) + 1)
  /\ col \in -1..(Len(text) + 1)
  /\ tokens \in Seq(Token)
  /\ at \in Locations

Init ==
  /\ text \in Text
  /\ start = 1 /\ current = 1
  /\ line = 1 /\ col = -1
  /\ tokens = <<>>
  /\ at = "tokenize"

advance(n) == current' = current + n /\ col' = col + n
Put(token) == tokens' = Append(tokens, token) /\ at' = "tokenize"
\* With n characters of the lexeme still to advance over.
makeToken(type, n) ==
  /\ advance(n)
  /\ Put([type |-> type, first |-> start, after |-> current + n,
          line |-> line, col |-> col - (current - start)])
makeError(n) ==
  /\ advance(n)
  /\ Put([type |-> "error", first |-> 0, after |-> 0, line |-> line, col |-> col + n])

-----------------------------------------------------------------------------
\* tokenize() and the start of tokenizeOne().

\* Mutant: without the EOF token behind the loop.
TokenizeNoEof ==
  /\ at = "tokenize"
  /\ at' = IF isEOL THEN "done" ELSE "blanks"
  /\ UNCHANGED <<text, start, current, line, col, tokens>>
Tokenize ==
  /\ at = "tokenize"
  /\ IF isEOL
       THEN /\ tokens' = Append(tokens, [type |-> "eof", first |-> 0, after |-> 0,
                                         line |-> -1, col |-> -1])
            /\ at' = "done"
       ELSE at' = "blanks" /\ UNCHANGED tokens
  /\ UNCHANGED <<text, start, current, line, col>>

SkipWhitespace ==
  /\ at = "blanks"
  /\ peek \in Blank
  /\ current' = current + 1
  /\ IF peek = "\n" THEN line' = line + 1 /\ col' = 1
                    ELSE col' = col + 1 /\ UNCHANGED line
  /\ UNCHANGED <<text, start, tokens, at>>

BeginToken ==
  /\ at = "blanks"
  /\ peek \notin Blank
  /\ start' = current
  /\ IF isEOL
       THEN Put([type |-> "eof", first |-> current, after |-> current,
                 line |-> line, col |-> col])
       ELSE at' = "lexeme" /\ UNCHANGED tokens
  /\ UNCHANGED <<text, current, line, col>>

-----------------------------------------------------------------------------
\* The switch: the character c = peek, and what match() finds behind it.

PairType(table) == TypeOf(table, <<peek, peekNext>>, "error")

ScanSymbol ==
  /\ at = "lexeme"
  /\ peek \in Single \cup {"!"}
  /\ peek = "/" => peekNext \notin {"/", "*"}
  /\ IF PairType(Pair) # "error" THEN makeToken(PairType(Pair), 2)
     ELSE IF peek = "!" THEN makeError(1) ELSE makeToken(peek, 1)
  /\ UNCHANGED <<text, start, line>>

BeginComment ==
  /\ at = "lexeme"
  /\ peek = "/"
  /\ peekNext \in {"/", "*"}
  /\ advance(2)
  /\ at' = IF peekNext = "/" THEN "line" ELSE "block"
  /\ UNCHANGED <<text, start, line, tokens>>

\* c has been taken when peekNext is asked: it is the second character behind the 0.
LooksLikeNumber ==
  peek # "0" \/ current + 1 \notin DOMAIN text \/ CharAt(current + 2) \notin Digit

BeginWord ==
  /\ at = "lexeme"
  /\ peek \in Letter \/ (peek \in Digit /\ LooksLikeNumber)
  /\ advance(1)
  /\ at' = IF peek \in Letter THEN "ident" ELSE "number"
  /\ UNCHANGED <<text, start, line, tokens>>

UnknownCharacter ==
  /\ at = "lexeme"
  /\ peek \notin Single \cup {"!"} \cup Letter
  /\ ~(peek \in Digit /\ LooksLikeNumber)
  /\ makeError(1)
  /\ UNCHANGED <<text, start, line>>

-----------------------------------------------------------------------------
\* The loops.

\* Mutant: a word is letters only.
InLetters == IF at = "ident" THEN Letter ELSE Digit
InWord == IF at = "ident" THEN Letter \cup Digit ELSE Digit

ScanWord ==
  /\ at \in {"ident", "number"}
  /\ IF peek \in InWord
       THEN advance(1) /\ UNCHANGED <<tokens, at>>
       ELSE makeToken(IF at = "number" THEN "number"
                      ELSE TypeOf(keywords, SubSeq(text, start, current - 1), "ident"), 0)
  /\ UNCHANGED <<text, start, line>>

\* A comment has no token: tokenizeOne() starts again behind it.  Mutant: not without
\* a newline.
ScanLineCommentToNewline ==
  /\ at = "line"
  /\ ~isEOL
  /\ IF peek # "\n" THEN advance(1) /\ UNCHANGED at
                    ELSE at' = "blanks" /\ UNCHANGED <<current, col>>
  /\ UNCHANGED <<text, start, line, tokens>>
ScanLineComment ==
  /\ at = "line"
  /\ IF peek # "\n" /\ ~isEOL
       THEN advance(1) /\ UNCHANGED at
       ELSE at' = "blanks" /\ UNCHANGED <<current, col>>
  /\ UNCHANGED <<text, start, line, tokens>>

\* A newline in the comment does not reset col.  Mutants: lines are not counted; the
\* end of the text is not seen.
ScanBlockCommentLine ==
  /\ at = "block"
  /\ IF isEOL THEN makeError(0)
     ELSE IF peek = "*" /\ peekNext = "/"
       THEN advance(2) /\ at' = "blanks" /\ UNCHANGED tokens
       ELSE advance(1) /\ UNCHANGED <<tokens, at>>
  /\ UNCHANGED <<text, start, line>>
ScanBlockCommentOn ==
  /\ at = "block"
  /\ IF peek = "*" /\ peekNext = "/"
       THEN advance(2) /\ at' = "blanks" /\ UNCHANGED line
       ELSE /\ advance(1)
            /\ line' = IF peek = "\n" THEN line + 1 ELSE line
            /\ UNCHANGED at
  /\ UNCHANGED <<text, start, tokens>>
ScanBlockComment ==
  /\ at = "block"
  /\ IF isEOL THEN makeError(0) /\ UNCHANGED line
     ELSE IF peek = "*" /\ peekNext = "/"
       THEN advance(2) /\ at' = "blanks" /\ UNCHANGED <<line, tokens>>
       ELSE /\ advance(1)
            /\ line' = IF peek = "\n" THEN line + 1 ELSE line
            /\ UNCHANGED <<tokens, at>>
  /\ UNCHANGED <<text, start>>

Next ==
  \/ Tokenize \/ SkipWhitespace \/ BeginToken
  \/ ScanSymbol \/ BeginComment \/ BeginWord \/ UnknownCharacter
  \/ ScanWord \/ ScanLineComment \/ ScanBlockComment

Spec == Init /\ [][Next]_vars
FairSpec == Spec /\ WF_vars(Next)

-----------------------------------------------------------------------------
(***************************************************************************)
(* Properties.                                                             *)
(***************************************************************************)

\* The scanner implements the lexical rules: nothing of the text is lost, taken
\* twice or cut short, whatever is next to what.
Position == IF at \in {"tokenize", "blanks", "done"} THEN current ELSE start
Pieces ==
  [i \in DOMAIN tokens |->
     [type |-> tokens[i].type, first |-> tokens[i].first, after |-> tokens[i].after]]
Rules == INSTANCE LexicalRules WITH pos <- Position, tokens <- Pieces, ended <- (at = "done")
FollowsRules == Rules!Spec

\* The parser reads up to the first EOF token and never behind the last one: the
\* last token is an EOF, only the one before it may be another.
EndsWithEof ==
  /\ at = "done" => tokens # <<>> /\ tokens[Len(tokens)].type = "eof"
  /\ \A i \in DOMAIN tokens :
       tokens[i].type = "eof" => i >= Len(tokens) - (IF at = "done" THEN 1 ELSE 0)

\* Where a diagnostic points to: the line of the token, also behind comments of
\* several lines; the column counts from 1 on every line but the first, which
\* starts at col{-1}, and but behind a /* comment that began on another line.
Newlines(upto) == {i \in 1..(upto - 1) : text[i] = "\n"}
LineStart(i) == IF Newlines(i) = {} THEN 0
                ELSE CHOOSE n \in Newlines(i) : \A m \in Newlines(i) : m <= n
PointsToToken ==
  \A i \in DOMAIN tokens :
    LET t == tokens[i] IN
    t.first # 0 =>
      /\ t.line = 1 + Cardinality(Newlines(t.first))
      /\ \/ t.col = t.first - LineStart(t.first) - (IF t.line = 1 THEN 2 ELSE 0)
         \/ \E k \in (LineStart(t.first) + 2)..(t.first - 1) :
              <<text[k - 1], text[k]>> = <<"*", "/">>

\* The integers of the grammar (README.md:131-133), separated by symbols and blanks,
\* are numbers: <integer> ::= "0" | [1-9] [0-9]?
DigitsAt(i, j) == \A k \in i..j : k \in DOMAIN text /\ text[k] \in Digit
OnlyIntegers ==
  \A i \in DOMAIN text :
    /\ text[i] \in Digit \cup Blank \cup {";"}
    /\ DigitsAt(i, i + 1) => text[i] # "0" \/ (i > 1 /\ DigitsAt(i - 1, i))
    /\ ~DigitsAt(i, i + 2)
NumbersAccepted ==
  at = "done" /\ OnlyIntegers => \A i \in DOMAIN tokens : tokens[i].type # "error"

\* Every text is read to its end, unterminated comments included.
Terminates == <>(at = "done")

=============================================================================
