--------------------------- MODULE ScannerProofs ---------------------------
(***************************************************************************)
(* Proofs about Scanner, for any set of texts of any length.               *)
(***************************************************************************)
EXTENDS Scanner, FiniteSetTheorems, TLAPS

-----------------------------------------------------------------------------
(***************************************************************************)
(* Tokens.                                                                 *)
(***************************************************************************)

\* What a table gives is one of its types, or the default.
LEMMA TableType ==
  ASSUME NEW table \in SUBSET (Pair \cup keywords), NEW word, NEW default
  PROVE  \/ TypeOf(table, word, default) = default
         \/ \E entry \in table : entry[1] = TypeOf(table, word, default) /\ entry[2] = word
<1>1. CASE SpelledBy(table, word) = {}
  BY <1>1 DEF TypeOf
<1>2. CASE SpelledBy(table, word) # {}
  <2>1. TypeOf(table, word, default) \in SpelledBy(table, word)
    BY <1>2 DEF TypeOf
  <2> QED
    BY <2>1 DEF SpelledBy
<1> QED
  BY <1>1, <1>2

\* No table has a token that the scanner makes itself.
LEMMA EntryType ==
  ASSUME NEW entry \in Pair \cup keywords
  PROVE  entry[1] \in Type \ {"eof", "error"}
BY DEF Pair, keywords, Type

LEMMA OwnTypes == {"ident", "number", "error", "eof"} \subseteq Type /\ Single \subseteq Type
BY DEF Type

\* A symbol of two characters has its second one in the text.
LEMMA PairSecond ==
  ASSUME NEW entry \in Pair, NEW c, NEW d, entry[2] = <<c, d>>
  PROVE  d # Nul
BY DEF Pair, Nul

LEMMA SymbolType ==
  /\ PairType(Pair) \in Type \ {"eof"}
  /\ PairType(Pair) # "error" => peekNext # Nul
<1>1. Pair \in SUBSET (Pair \cup keywords)
  OBVIOUS
<1>2. CASE PairType(Pair) = "error"
  BY <1>2, OwnTypes
<1>3. CASE PairType(Pair) # "error"
  <2>1. PICK entry \in Pair : entry[1] = PairType(Pair) /\ entry[2] = <<peek, peekNext>>
    BY <1>1, <1>3, TableType DEF PairType
  <2> QED
    BY <2>1, EntryType, PairSecond
<1> QED
  BY <1>2, <1>3

\* A word is a keyword or an identifier.
LEMMA WordType ==
  ASSUME NEW word
  PROVE  TypeOf(keywords, word, "ident") \in Type \ {"eof"}
<1>1. keywords \in SUBSET (Pair \cup keywords)
  OBVIOUS
<1> QED
  BY <1>1, TableType, EntryType, OwnTypes

-----------------------------------------------------------------------------
(***************************************************************************)
(* The cursor stays in the text.                                           *)
(***************************************************************************)

\* What TypeOK rests on: a line has at least one character; the switch is on a
\* character of the text, the first of the token.
CursorInv ==
  /\ line <= current
  /\ col <= current
  /\ at = "lexeme" => ~isEOL /\ start = current

TInv == TypeOK /\ CursorInv

\* A character that is not the terminating zero is one of the text.
LEMMA InText ==
  ASSUME TypeOK
  PROVE  /\ Len(text) \in Nat
         /\ DOMAIN text = 1..Len(text)
         /\ current \in Nat /\ start \in Nat /\ line \in Nat /\ col \in Int
         /\ ~isEOL => current \in 1..Len(text)
         /\ peekNext # Nul => current \in 1..Len(text) /\ current + 1 \in 1..Len(text)
<1>1. text \in Seq(STRING)
  BY TextAssumption DEF TypeOK
<1>2. Len(text) \in Nat /\ DOMAIN text = 1..Len(text)
  BY <1>1
<1>3. current \in Nat /\ start \in Nat /\ line \in Nat /\ col \in Int
  BY <1>2 DEF TypeOK
<1> QED
  BY <1>2, <1>3 DEF isEOL, peek, peekNext, CharAt

LEMMA TypeInit == Init => TInv
<1> SUFFICES ASSUME Init PROVE TInv
  OBVIOUS
<1>1. Len(text) \in Nat
  BY TextAssumption DEF Init
<1> QED
  BY <1>1 DEF Init, TInv, TypeOK, CursorInv, Locations

\* Advancing inside the text keeps the cursor and the column in their bounds; so
\* does a token made on the way.
LEMMA AdvanceType ==
  ASSUME TInv, NEW n \in 0..2, n > 0 => ~isEOL, n = 2 => peekNext # Nul,
         advance(n), UNCHANGED <<text, start>>
  PROVE  /\ current' \in start'..(Len(text') + 1)
         /\ col' \in -1..(Len(text') + 1)
         /\ col' <= current'
         /\ current <= current'
BY InText DEF TInv, TypeOK, CursorInv, advance

LEMMA TokenType ==
  ASSUME TInv, NEW type \in Type, NEW n \in 0..2, makeToken(type, n) \/ makeError(n)
  PROVE  tokens' \in Seq(Token) /\ at' = "tokenize" /\ advance(n)
<1>1. TypeOK /\ tokens \in Seq(Token)
  BY DEF TInv, TypeOK
<1>2. start \in Nat /\ current \in Nat /\ current + n \in Nat /\ line \in Nat
      /\ col - (current - start) \in Int /\ col + n \in Int
  BY <1>1, InText
<1>3. CASE makeToken(type, n)
  BY <1>1, <1>2, <1>3 DEF makeToken, Put, Token
<1>4. CASE makeError(n)
  <2>1. "error" \in Type
    BY OwnTypes
  <2> QED
    BY <1>1, <1>2, <1>4, <2>1 DEF makeError, Put, Token
<1> QED
  BY <1>3, <1>4

\* Every step keeps the types and the cursor.
LEMMA TypeNext == TInv /\ [Next]_vars => TInv'
<1> SUFFICES ASSUME TInv, [Next]_vars PROVE TInv'
  OBVIOUS
<1>t. TypeOK /\ Len(text) \in Nat
  BY InText DEF TInv
<1>1. CASE Tokenize
  <2>1. tokens' \in Seq(Token)
    <3>1. [type |-> "eof", first |-> 0, after |-> 0, line |-> -1, col |-> -1] \in Token
      BY OwnTypes DEF Token
    <3>2. tokens \in Seq(Token)
      BY <1>t DEF TypeOK
    <3> QED
      BY SMTT(30), <1>1, <3>1, <3>2 DEF Tokenize
  <2> QED
    BY <1>1, <2>1 DEF Tokenize, TInv, TypeOK, CursorInv, Locations
<1>2. CASE SkipWhitespace
  <2>1. ~isEOL
    BY <1>2 DEF SkipWhitespace, isEOL, Blank, Nul
  <2> QED
    BY <1>2, <1>t, <2>1, InText DEF SkipWhitespace, TInv, TypeOK, CursorInv
<1>3. CASE BeginToken
  <2>1. tokens' \in Seq(Token) /\ at' \in Locations
    <3>1. [type |-> "eof", first |-> current, after |-> current,
            line |-> line, col |-> col] \in Token
      BY <1>t, InText, OwnTypes DEF Token
    <3>2. tokens \in Seq(Token)
      BY <1>t DEF TypeOK
    <3> QED
      BY <1>3, <3>1, <3>2 DEF BeginToken, Put, Locations
  <2>2. at' = "lexeme" => ~isEOL'
    BY <1>3 DEF BeginToken, Put, isEOL, peek, CharAt
  <2> QED
    BY <1>3, <1>t, <2>1, <2>2, InText DEF BeginToken, TInv, TypeOK, CursorInv
<1>4. CASE ScanSymbol
  <2>2. PICK type \in Type, n \in 1..2 :
          /\ makeToken(type, n) \/ makeError(n)
          /\ n = 2 => peekNext # Nul
    BY <1>4, OwnTypes, SymbolType DEF ScanSymbol
  <2>3. ~isEOL
    BY <1>4 DEF ScanSymbol, TInv, CursorInv
  <2>4. advance(n) /\ tokens' \in Seq(Token) /\ at' = "tokenize"
    BY <2>2, TokenType
  <2>5. /\ current' \in start'..(Len(text') + 1) /\ col' \in -1..(Len(text') + 1)
        /\ col' <= current' /\ current <= current'
    BY <1>4, <2>2, <2>3, <2>4, AdvanceType DEF ScanSymbol
  <2> QED
    BY <1>4, <1>t, <2>4, <2>5, InText DEF ScanSymbol, TInv, TypeOK, CursorInv, Locations
<1>5. CASE BeginComment
  <2>1. ~isEOL /\ peekNext # Nul /\ advance(2)
    BY <1>5 DEF BeginComment, TInv, CursorInv, Nul
  <2>2. /\ current' \in start'..(Len(text') + 1) /\ col' \in -1..(Len(text') + 1)
        /\ col' <= current' /\ current <= current'
    BY <1>5, <2>1, AdvanceType DEF BeginComment
  <2> QED
    BY <1>5, <1>t, <2>2, InText DEF BeginComment, TInv, TypeOK, CursorInv, Locations
<1>6. CASE BeginWord
  <2>1. ~isEOL /\ advance(1)
    BY <1>6 DEF BeginWord, TInv, CursorInv
  <2>2. /\ current' \in start'..(Len(text') + 1) /\ col' \in -1..(Len(text') + 1)
        /\ col' <= current' /\ current <= current'
    BY <1>6, <2>1, AdvanceType DEF BeginWord
  <2> QED
    BY <1>6, <1>t, <2>2, InText DEF BeginWord, TInv, TypeOK, CursorInv, Locations
<1>7. CASE UnknownCharacter
  <2>1. ~isEOL /\ "error" \in Type
    BY <1>7, OwnTypes DEF UnknownCharacter, TInv, CursorInv
  <2>2. advance(1) /\ tokens' \in Seq(Token) /\ at' = "tokenize"
    BY <1>7, <2>1, TokenType DEF UnknownCharacter
  <2>3. /\ current' \in start'..(Len(text') + 1) /\ col' \in -1..(Len(text') + 1)
        /\ col' <= current' /\ current <= current'
    BY <1>7, <2>1, <2>2, AdvanceType DEF UnknownCharacter
  <2> QED
    BY <1>7, <1>t, <2>2, <2>3, InText DEF UnknownCharacter, TInv, TypeOK, CursorInv, Locations
<1>8. CASE ScanWord
  <2>1. CASE peek \in InWord
    <3>1. ~isEOL /\ advance(1)
      BY <1>8, <2>1, CharacterAssumption DEF ScanWord, InWord, isEOL
    <3>2. /\ current' \in start'..(Len(text') + 1) /\ col' \in -1..(Len(text') + 1)
          /\ col' <= current' /\ current <= current'
      BY <1>8, <3>1, AdvanceType DEF ScanWord
    <3> QED
      BY <1>8, <1>t, <2>1, <3>2, InText DEF ScanWord, TInv, TypeOK, CursorInv
  <2>2. CASE peek \notin InWord
    <3>1. PICK type \in Type : makeToken(type, 0)
      BY <1>8, <2>2, WordType, OwnTypes DEF ScanWord
    <3>2. advance(0) /\ tokens' \in Seq(Token) /\ at' = "tokenize"
      BY <3>1, TokenType
    <3>3. /\ current' \in start'..(Len(text') + 1) /\ col' \in -1..(Len(text') + 1)
          /\ col' <= current' /\ current <= current'
      BY <1>8, <3>2, AdvanceType DEF ScanWord
    <3> QED
      BY <1>8, <1>t, <3>2, <3>3, InText DEF ScanWord, TInv, TypeOK, CursorInv, Locations
  <2> QED
    BY <2>1, <2>2
<1>9. CASE ScanLineComment
  <2>1. CASE peek # "\n" /\ ~isEOL
    <3>1. /\ current' \in start'..(Len(text') + 1) /\ col' \in -1..(Len(text') + 1)
          /\ col' <= current' /\ current <= current'
      BY <1>9, <2>1, AdvanceType DEF ScanLineComment
    <3> QED
      BY <1>9, <1>t, <2>1, <3>1, InText DEF ScanLineComment, TInv, TypeOK, CursorInv
  <2>2. CASE ~(peek # "\n" /\ ~isEOL)
    BY <1>9, <1>t, <2>2 DEF ScanLineComment, TInv, TypeOK, CursorInv, Locations
  <2> QED
    BY <2>1, <2>2
<1>10. CASE ScanBlockComment
  <2>1. CASE isEOL
    <3>1. "error" \in Type
      BY OwnTypes
    <3>2. advance(0) /\ tokens' \in Seq(Token) /\ at' = "tokenize"
      BY <1>10, <2>1, <3>1, TokenType DEF ScanBlockComment
    <3>3. /\ current' \in start'..(Len(text') + 1) /\ col' \in -1..(Len(text') + 1)
          /\ col' <= current' /\ current <= current'
      BY <1>10, <3>2, AdvanceType DEF ScanBlockComment
    <3> QED
      BY <1>10, <1>t, <2>1, <3>2, <3>3, InText
         DEF ScanBlockComment, TInv, TypeOK, CursorInv, Locations
  <2>2. CASE ~isEOL /\ peek = "*" /\ peekNext = "/"
    <3>1. peekNext # Nul /\ advance(2)
      BY <1>10, <2>2 DEF ScanBlockComment, Nul
    <3>2. /\ current' \in start'..(Len(text') + 1) /\ col' \in -1..(Len(text') + 1)
          /\ col' <= current' /\ current <= current'
      BY <1>10, <2>2, <3>1, AdvanceType DEF ScanBlockComment
    <3> QED
      BY <1>10, <1>t, <2>2, <3>2, InText
         DEF ScanBlockComment, TInv, TypeOK, CursorInv, Locations
  <2>3. CASE ~isEOL /\ ~(peek = "*" /\ peekNext = "/")
    <3>1. advance(1)
      BY <1>10, <2>3 DEF ScanBlockComment
    <3>2. /\ current' \in start'..(Len(text') + 1) /\ col' \in -1..(Len(text') + 1)
          /\ col' <= current'
      BY <1>10, <2>3, <3>1, AdvanceType DEF ScanBlockComment
    <3>3. current' = current + 1 /\ line' \in {line, line + 1}
      BY <1>10, <2>3, <3>1 DEF ScanBlockComment, advance
    <3>4. UNCHANGED <<text, start, tokens, at>> /\ at = "block"
      BY <1>10, <2>3 DEF ScanBlockComment
    <3> QED
      BY <1>t, <2>3, <3>2, <3>3, <3>4, InText DEF TInv, TypeOK, CursorInv
  <2> QED
    BY <2>1, <2>2, <2>3
<1>11. CASE UNCHANGED vars
  BY <1>11 DEF vars, TInv, TypeOK, CursorInv, isEOL, peek, CharAt
<1> QED
  BY <1>1, <1>2, <1>3, <1>4, <1>5, <1>6, <1>7, <1>8, <1>9, <1>10, <1>11 DEF Next

\* The tokens are well typed and the cursor is inside the text or at its end, for
\* every text: comments without an end, a sign at the end, /*/ included.
THEOREM TypeCorrect == Spec => []TypeOK
<1>1. TInv => TypeOK
  BY DEF TInv
<1> QED
  BY TypeInit, TypeNext, <1>1, PTL DEF Spec

-----------------------------------------------------------------------------
(***************************************************************************)
(* The end of the text.                                                    *)
(***************************************************************************)

IsEof(i) == tokens[i].type = "eof"

\* While the text is read, an EOF token is only made at its end, and then nothing is
\* done but to go back to tokenize.
EofInv ==
  /\ \A i \in DOMAIN tokens : IsEof(i) => i >= Len(tokens) - (IF at = "done" THEN 1 ELSE 0)
  /\ at = "done" => tokens # <<>> /\ IsEof(Len(tokens))
  /\ at # "done" /\ tokens # <<>> /\ IsEof(Len(tokens)) => at = "tokenize" /\ isEOL

EInv == TInv /\ EofInv

\* A step that makes no token, of one of the loops or at a choice.
LEMMA EofKept ==
  ASSUME EInv, UNCHANGED tokens, at # "done", at' # "done",
         at # "tokenize" \/ ~isEOL
  PROVE  EofInv'
BY DEF EInv, EofInv, IsEof

\* A step that makes the next token.
LEMMA EofAppended ==
  ASSUME EInv, NEW type \in Type, at \notin {"tokenize", "done"}, at' = "tokenize",
         NEW t \in Token, t.type = type, tokens' = Append(tokens, t), type = "eof" => isEOL'
  PROVE  EofInv'
<1>1. tokens \in Seq(Token)
  BY DEF EInv, TInv, TypeOK
<1>2. /\ DOMAIN tokens = 1..Len(tokens) /\ Len(tokens) \in Nat
      /\ Len(tokens') = Len(tokens) + 1 /\ DOMAIN tokens' = 1..(Len(tokens) + 1)
      /\ tokens'[Len(tokens) + 1] = t
      /\ \A i \in DOMAIN tokens : tokens'[i] = tokens[i]
  BY <1>1
<1>3. \A i \in DOMAIN tokens : ~IsEof(i)
  BY <1>2 DEF EInv, EofInv, IsEof
<1>4. \A i \in DOMAIN tokens' : IsEof(i)' => i = Len(tokens')
  BY <1>2, <1>3 DEF IsEof
<1>5. IsEof(Len(tokens))' => type = "eof"
  BY <1>2 DEF IsEof
<1> QED
  BY <1>2, <1>4, <1>5 DEF EofInv

LEMMA EofMade ==
  ASSUME EInv, NEW type \in Type \ {"eof"}, NEW n \in 0..2,
         at \notin {"tokenize", "done"}, makeToken(type, n) \/ makeError(n)
  PROVE  EofInv'
<1>1. /\ start \in Nat /\ current + n \in Nat /\ line \in Nat
      /\ col - (current - start) \in Int /\ col + n \in Int
  BY InText DEF EInv, TInv
<1>2. CASE makeToken(type, n)
  <2> DEFINE t == [type |-> type, first |-> start, after |-> current + n,
                   line |-> line, col |-> col - (current - start)]
  <2>1. t \in Token /\ t.type = type
    BY <1>1 DEF Token
  <2>2. tokens' = Append(tokens, t) /\ at' = "tokenize"
    BY <1>2 DEF makeToken, Put
  <2> QED
    BY <2>1, <2>2, EofAppended
<1>3. CASE makeError(n)
  <2> DEFINE t == [type |-> "error", first |-> 0, after |-> 0, line |-> line, col |-> col + n]
  <2>1. t \in Token /\ t.type = "error" /\ "error" \in Type
    BY <1>1, OwnTypes DEF Token
  <2>2. tokens' = Append(tokens, t) /\ at' = "tokenize"
    BY <1>3 DEF makeError, Put
  <2> QED
    BY <2>1, <2>2, EofAppended
<1> QED
  BY <1>2, <1>3

LEMMA EofInit == Init => EInv
BY TypeInit DEF Init, EInv, EofInv

LEMMA EofNext == EInv /\ [Next]_vars => EInv'
<1> SUFFICES ASSUME EInv, [Next]_vars PROVE EofInv'
  BY TypeNext DEF EInv
<1>1. CASE Tokenize
  <2>1. CASE isEOL
    <3> DEFINE t == [type |-> "eof", first |-> 0, after |-> 0, line |-> -1, col |-> -1]
    <3>1. t \in Token /\ t.type = "eof" /\ tokens \in Seq(Token)
      BY OwnTypes DEF Token, EInv, TInv, TypeOK
    <3>2. tokens' = Append(tokens, t) /\ at' = "done" /\ at = "tokenize"
      BY <1>1, <2>1 DEF Tokenize
    <3>3. /\ DOMAIN tokens = 1..Len(tokens) /\ Len(tokens) \in Nat
          /\ Len(tokens') = Len(tokens) + 1 /\ DOMAIN tokens' = 1..(Len(tokens) + 1)
          /\ tokens'[Len(tokens) + 1] = t
          /\ \A i \in DOMAIN tokens : tokens'[i] = tokens[i]
      BY <3>1, <3>2
    <3>4. \A i \in DOMAIN tokens : IsEof(i) => i >= Len(tokens)
      BY <3>2, <3>3 DEF EInv, EofInv
    <3>5. \A i \in DOMAIN tokens' : IsEof(i)' => i >= Len(tokens') - 1
      BY <3>3, <3>4 DEF IsEof
    <3>6. tokens' # <<>> /\ IsEof(Len(tokens))'
      BY <3>1, <3>3 DEF IsEof
    <3> QED
      BY <3>2, <3>5, <3>6 DEF EofInv
  <2>2. CASE ~isEOL
    BY <1>1, <2>2, EofKept DEF Tokenize
  <2> QED
    BY <2>1, <2>2
<1>2. CASE SkipWhitespace
  BY <1>2, EofKept DEF SkipWhitespace
<1>3. CASE BeginToken
  <2>1. CASE isEOL
    <3> DEFINE t == [type |-> "eof", first |-> current, after |-> current,
                     line |-> line, col |-> col]
    <3>1. t \in Token /\ t.type = "eof" /\ "eof" \in Type
      BY InText, OwnTypes DEF Token, EInv, TInv
    <3>2. tokens' = Append(tokens, t) /\ at' = "tokenize" /\ at = "blanks" /\ isEOL'
      BY <1>3, <2>1 DEF BeginToken, Put, isEOL, peek, CharAt
    <3> QED
      BY <3>1, <3>2, EofAppended
  <2>2. CASE ~isEOL
    BY <1>3, <2>2, EofKept DEF BeginToken
  <2> QED
    BY <2>1, <2>2
<1>4. CASE ScanSymbol
  <2>1. Single \subseteq Type \ {"eof"}
    BY OwnTypes DEF Single
  <2>2. PICK type \in Type \ {"eof"}, n \in 1..2 : makeToken(type, n) \/ makeError(n)
    BY <1>4, <2>1, OwnTypes, SymbolType DEF ScanSymbol
  <2> QED
    BY <1>4, <2>2, EofMade DEF ScanSymbol
<1>5. CASE BeginComment
  BY <1>5, EofKept DEF BeginComment
<1>6. CASE BeginWord
  BY <1>6, EofKept DEF BeginWord
<1>7. CASE UnknownCharacter
  <2>1. "error" \in Type \ {"eof"}
    BY OwnTypes
  <2> QED
    BY <1>7, <2>1, EofMade DEF UnknownCharacter
<1>8. CASE ScanWord
  <2>1. CASE peek \in InWord
    BY <1>8, <2>1, EofKept DEF ScanWord
  <2>2. CASE peek \notin InWord
    <3>1. PICK type \in Type \ {"eof"} : makeToken(type, 0)
      BY <1>8, <2>2, WordType, OwnTypes DEF ScanWord
    <3> QED
      BY <1>8, <3>1, EofMade DEF ScanWord
  <2> QED
    BY <2>1, <2>2
<1>9. CASE ScanLineComment
  BY <1>9, EofKept DEF ScanLineComment
<1>10. CASE ScanBlockComment
  <2>1. CASE isEOL
    <3>1. "error" \in Type \ {"eof"}
      BY OwnTypes
    <3> QED
      BY <1>10, <2>1, <3>1, EofMade DEF ScanBlockComment
  <2>2. CASE ~isEOL
    BY <1>10, <2>2, EofKept DEF ScanBlockComment
  <2> QED
    BY <2>1, <2>2
<1>11. CASE UNCHANGED vars
  BY <1>11 DEF vars, EInv, EofInv, IsEof, isEOL, peek, CharAt
<1> QED
  BY <1>1, <1>2, <1>3, <1>4, <1>5, <1>6, <1>7, <1>8, <1>9, <1>10, <1>11 DEF Next

\* The parser finds an EOF token at the end of the tokens of every text, and before
\* it at most one other, with nothing in between.
THEOREM EndCorrect == Spec => []EndsWithEof
<1>1. EInv => EndsWithEof
  BY DEF EInv, EofInv, IsEof, EndsWithEof
<1> QED
  BY EofInit, EofNext, <1>1, PTL DEF Spec

-----------------------------------------------------------------------------
(***************************************************************************)
(* Lexemes.                                                                *)
(***************************************************************************)

\* The rules speak of the same tokens.
LEMMA SameTokens ==
  /\ Rules!Single = Single /\ Rules!Pair = Pair /\ Rules!keywords = keywords
  /\ Rules!Blank = Blank
BY DEF Rules!Single, Single, Rules!Pair, Pair, Rules!keywords, keywords, Rules!Blank, Blank

\* The text has no zero, the one behind it is found at its end only.
LEMMA TextFacts ==
  ASSUME TypeOK
  PROVE  /\ text \in Seq(STRING) /\ Len(text) \in Nat /\ DOMAIN text = 1..Len(text)
         /\ \A i \in 1..Len(text) : text[i] # Nul
         /\ isEOL <=> current = Len(text) + 1
         /\ ~isEOL => current \in 1..Len(text) /\ peek = text[current]
         /\ peekNext # Nul => /\ current \in 1..Len(text) /\ current + 1 \in 1..Len(text)
                              /\ peekNext = text[current + 1]
         /\ peekNext = Nul => current >= Len(text)
<1>1. text \in Seq(STRING \ {Nul}) /\ text \in Seq(STRING)
  BY TextAssumption DEF TypeOK
<1>2. /\ Len(text) \in Nat /\ DOMAIN text = 1..Len(text)
      /\ \A i \in 1..Len(text) : text[i] # Nul
  BY <1>1
<1>3. current \in 1..(Len(text) + 1)
  BY <1>2 DEF TypeOK
<1> QED
  BY <1>1, <1>2, <1>3 DEF isEOL, peek, peekNext, CharAt

\* A piece of the text.
LEMMA PieceFacts ==
  ASSUME TypeOK, NEW a \in 1..(Len(text) + 1), NEW b \in a..(Len(text) + 1)
  PROVE  /\ Rules!Piece(a, b) \in Seq(STRING)
         /\ Len(Rules!Piece(a, b)) = b - a
         /\ DOMAIN Rules!Piece(a, b) = 1..(b - a)
         /\ \A k \in a..(b - 1) : Rules!Piece(a, b)[k - a + 1] = text[k]
         /\ a < b => Rules!Piece(a, b) # <<>> /\ Rules!Piece(a, b)[1] = text[a]
<1> DEFINE piece == SubSeq(text, a, b - 1)
<1>1. text \in Seq(STRING) /\ Len(text) \in Nat
  BY TextFacts
<1>2. /\ piece \in Seq(STRING) /\ Len(piece) = b - a /\ DOMAIN piece = 1..(b - a)
      /\ \A k \in 1..(b - a) : piece[k] = text[a + k - 1]
  BY <1>1
<1>3. Rules!Piece(a, b) = piece
  BY DEF Rules!Piece
<1> HIDE DEF piece
<1>4. ASSUME NEW k \in a..(b - 1) PROVE piece[k - a + 1] = text[k]
  <2>1. k - a + 1 \in 1..(b - a) /\ a + (k - a + 1) - 1 = k
    BY <1>1
  <2> QED
    BY <1>2, <2>1
<1>5. a < b => piece # <<>> /\ piece[1] = text[a]
  <2>1. a < b => 1 \in 1..(b - a) /\ a + 1 - 1 = a
    BY <1>1
  <2> QED
    BY <1>2, <2>1
<1> QED
  BY <1>2, <1>3, <1>4, <1>5

Sign == Single \cup {"!"}

\* Symbols of two characters, and keywords.
LEMMA TableFacts ==
  /\ \A entry \in Pair : /\ Len(entry[2]) = 2
                         /\ entry[2][1] \in Sign
                         /\ entry[1] # "error"
  /\ \A entry \in keywords : entry[2][1] \notin Sign
<1>1. ASSUME NEW entry \in Pair
      PROVE  Len(entry[2]) = 2 /\ entry[2][1] \in Sign /\ entry[1] # "error"
  <2>1. /\ entry[1] \in {"==", "++", "--", ">=", "<=", "!="}
        /\ \E c, d \in {"=", "+", "-", ">", "<", "!"} : entry[2] = <<c, d>>
    BY DEF Pair
  <2>2. PICK c, d \in {"=", "+", "-", ">", "<", "!"} : entry[2] = <<c, d>>
    BY <2>1
  <2>3. c \in Sign
    BY DEF Sign, Single
  <2> QED
    BY <2>1, <2>2, <2>3
<1>2. ASSUME NEW entry \in keywords
      PROVE  entry[2][1] \notin Sign
  <2>1. entry[2][1] \in {"i", "e", "w", "p", "f", "r"}
    BY DEF keywords
  <2> QED
    BY <2>1 DEF Sign, Single
<1> QED
  BY <1>1, <1>2

\* The four kinds of characters that can begin a lexeme do not overlap.
LEMMA Kinds ==
  /\ Letter \cap Digit = {} /\ Letter \cap Sign = {} /\ Digit \cap Sign = {}
  /\ Blank \cap (Letter \cup Digit \cup Sign) = {}
  /\ Nul \notin Letter \cup Digit \cup Sign \cup Blank
BY CharacterAssumption DEF Sign, Blank, Single, Nul

\* What the first character says of a lexeme.
LEMMA FirstCharacter ==
  ASSUME NEW word \in Seq(STRING), Rules!IsLexeme(word)
  PROVE  /\ word[1] \in Sign \cup Letter \cup Digit
         /\ word[1] \in Sign =>
              \/ word = <<word[1]>> /\ word[1] \in Single
              \/ \E entry \in Pair : entry[2] = word
         /\ word[1] \in Letter => \A i \in DOMAIN word : word[i] \in Letter \cup Digit
         /\ word[1] \in Digit => \A i \in DOMAIN word : word[i] \in Digit
<1>1. word # <<>> /\ 1 \in DOMAIN word
  BY DEF Rules!IsLexeme
<1>2. CASE \E c \in Single : word = <<c>>
  <2>1. PICK c \in Single : word = <<c>>
    BY <1>2
  <2>2. word[1] = c /\ c \in Sign /\ word = <<word[1]>> /\ word[1] \in Single
    BY <2>1 DEF Sign
  <2>3. word[1] \notin Letter /\ word[1] \notin Digit
    BY <2>2, Kinds
  <2> QED
    BY <2>2, <2>3
<1>3. CASE \E entry \in Pair : entry[2] = word
  <2>1. word[1] \in Sign
    BY <1>3, TableFacts
  <2>2. word[1] \notin Letter /\ word[1] \notin Digit
    BY <2>1, Kinds
  <2> QED
    BY <1>3, <2>1, <2>2
<1>4. CASE word[1] \in Letter /\ \A i \in DOMAIN word : word[i] \in Letter \cup Digit
  BY <1>4, Kinds
<1>5. CASE \A i \in DOMAIN word : word[i] \in Digit
  <2>1. word[1] \in Digit
    BY <1>1, <1>5
  <2>2. word[1] \notin Letter /\ word[1] \notin Sign
    BY <2>1, Kinds
  <2> QED
    BY <1>5, <2>1, <2>2
<1>6. \/ \E c \in Single : word = <<c>>
      \/ \E entry \in Pair : entry[2] = word
      \/ word[1] \in Letter /\ \A i \in DOMAIN word : word[i] \in Letter \cup Digit
      \/ \A i \in DOMAIN word : word[i] \in Digit
  BY SameTokens DEF Rules!IsLexeme
<1> QED
  BY <1>2, <1>3, <1>4, <1>5, <1>6

\* What the rules call the type of a word, without the names of the instance.
LEMMA LexemeTypeIs ==
  ASSUME NEW word
  PROVE  /\ Len(word) = 1 /\ word[1] \in Single => Rules!LexemeType(word) = word[1]
         /\ ~(Len(word) = 1 /\ word[1] \in Single) =>
              Rules!LexemeType(word) = TypeOf(Pair \cup keywords, word,
                                              IF word[1] \in Digit THEN "number" ELSE "ident")
BY Zenon DEF Rules!LexemeType, Rules!Single, Single, Rules!Pair, Pair, Rules!keywords, keywords,
       Rules!TypeOf, TypeOf, Rules!SpelledBy, SpelledBy

Any(types) == CHOOSE type \in types : TRUE

\* Two tables give the same type to what they spell the same.
LEMMA SameTypes ==
  ASSUME NEW table, NEW other, NEW word, NEW default,
         SpelledBy(table, word) = SpelledBy(other, word)
  PROVE  TypeOf(table, word, default) = TypeOf(other, word, default)
<1>1. \A t : TypeOf(t, word, default) = IF SpelledBy(t, word) = {} THEN default
                                       ELSE Any(SpelledBy(t, word))
  BY Zenon DEF TypeOf, Any
<1> QED
  BY <1>1

\* The type of a symbol of two characters, of a word and of a number.
LEMMA TypeOfLexeme ==
  ASSUME NEW word
  PROVE  /\ (\E entry \in Pair : entry[2] = word)
            => /\ Rules!IsLexeme(word)
               /\ TypeOf(Pair, word, "error") # "error"
               /\ Rules!LexemeType(word) = TypeOf(Pair, word, "error")
         /\ word[1] \in Letter /\ word # <<>>
              => Rules!LexemeType(word) = TypeOf(keywords, word, "ident")
         /\ word[1] \in Digit => Rules!LexemeType(word) = "number"
<1>2. ASSUME NEW entry \in Pair, entry[2] = word
      PROVE  /\ Rules!IsLexeme(word)
             /\ TypeOf(Pair, word, "error") # "error"
             /\ Rules!LexemeType(word) = TypeOf(Pair, word, "error")
  <2>1. Len(word) = 2 /\ word[1] \in Sign
    BY <1>2, TableFacts
  <2>2. word \in {e[2] : e \in Pair} /\ word # <<>>
    <3>1. Len(<<>>) = 0
      OBVIOUS
    <3>2. word # <<>>
      BY <2>1, <3>1
    <3> QED
      BY <1>2, <3>2
  <2>3. SpelledBy(Pair, word) # {} /\ \A type \in SpelledBy(Pair, word) : type # "error"
    BY <1>2, TableFacts DEF SpelledBy
  <2>4. SpelledBy(Pair \cup keywords, word) = SpelledBy(Pair, word)
    <3>1. \A e \in keywords : e[2] # word
      BY <2>1, TableFacts
    <3> QED
      BY <3>1 DEF SpelledBy
  <2>5. TypeOf(Pair, word, "error") \in SpelledBy(Pair, word)
    BY <2>3 DEF TypeOf
  <2>6. \A default : TypeOf(Pair \cup keywords, word, default) = TypeOf(Pair, word, "error")
    <3>1. \A default : TypeOf(Pair, word, default) = TypeOf(Pair, word, "error")
      BY <2>3 DEF TypeOf
    <3>2. \A default : TypeOf(Pair \cup keywords, word, default) = TypeOf(Pair, word, default)
      BY <2>4, SameTypes
    <3> QED
      BY <3>1, <3>2
  <2>7. Rules!LexemeType(word) = TypeOf(Pair, word, "error")
    BY <2>1, <2>6, LexemeTypeIs
  <2> QED
    BY <2>2, <2>3, <2>5, <2>7, SameTokens DEF Rules!IsLexeme
<1>3. ASSUME word[1] \in Letter, word # <<>>
      PROVE  Rules!LexemeType(word) = TypeOf(keywords, word, "ident")
  <2>1. word[1] \notin Single /\ word[1] \notin Digit /\ word[1] \notin Sign
    BY <1>3, Kinds DEF Sign
  <2>2. \A e \in Pair : e[2] # word
    BY <2>1, TableFacts
  <2>3. SpelledBy(Pair \cup keywords, word) = SpelledBy(keywords, word)
    BY <2>2 DEF SpelledBy
  <2>4. TypeOf(Pair \cup keywords, word, "ident") = TypeOf(keywords, word, "ident")
    BY <2>3, SameTypes
  <2> QED
    BY <2>1, <2>4, LexemeTypeIs
<1>4. ASSUME word[1] \in Digit PROVE Rules!LexemeType(word) = "number"
  <2>1. word[1] \notin Single /\ word[1] \notin Sign
    BY <1>4, Kinds DEF Sign
  <2>2. \A e \in Pair \cup keywords : e[2] # word
    BY <1>4, <2>1, TableFacts, CharacterAssumption
  <2>3. SpelledBy(Pair \cup keywords, word) = {}
    BY <2>2 DEF SpelledBy
  <2>4. TypeOf(Pair \cup keywords, word, "number") = "number"
    BY <2>3 DEF TypeOf
  <2> QED
    BY <1>4, <2>1, <2>4, LexemeTypeIs
<1> QED
  BY <1>2, <1>3, <1>4

-----------------------------------------------------------------------------
(***************************************************************************)
(* The scanner implements the rules.                                       *)
(***************************************************************************)

\* What each loop has read since start.
WordRead ==
  at \in {"ident", "number"} =>
    /\ start < current
    /\ \A k \in start..(current - 1) : text[k] \in InWord
    /\ at = "ident" => text[start] \in Letter
CommentRead ==
  at \in {"line", "block"} =>
    /\ start + 2 <= current
    /\ text[start] = "/"
    /\ text[start + 1] = IF at = "line" THEN "/" ELSE "*"
\* No newline, and no end of the comment, not even one that ends with the next
\* character.
NotYetOver ==
  /\ at = "line" => \A k \in start..(current - 1) : text[k] # "\n"
  /\ at = "block" => \A k \in (start + 2)..(current - 1) :
                       ~(text[k] = "*" /\ k + 1 <= Len(text) /\ text[k + 1] = "/")
\* The choice of a token begins with what is not blank; the end of the text was not
\* there when tokenize began.
Begun ==
  /\ at = "lexeme" => peek \notin Blank
  /\ tokens # <<>> => tokens[Len(tokens)].after <= Position
  /\ at = "blanks" /\ isEOL =>
       current > 1 /\ (tokens # <<>> => tokens[Len(tokens)].after < current)

RInv == EInv /\ WordRead /\ CommentRead /\ NotYetOver /\ Begun

\* What TypeOK says of the places in the text and of the characters there.
LEMMA Places ==
  ASSUME RInv
  PROVE  /\ TypeOK /\ TInv /\ EInv
         /\ Len(text) \in Nat /\ start \in 1..(Len(text) + 1)
         /\ current \in start..(Len(text) + 1) /\ tokens \in Seq(Token)
         /\ Position \in 1..(Len(text) + 1) /\ Position <= current
         /\ at = "lexeme" => start = current /\ ~isEOL
<1>1. TypeOK /\ TInv /\ EInv
  BY DEF RInv, EInv, TInv
<1>2. /\ Len(text) \in Nat /\ start \in 1..(Len(text) + 1)
      /\ current \in start..(Len(text) + 1) /\ tokens \in Seq(Token)
  BY <1>1, TextFacts DEF TypeOK
<1>3. Position \in {start, current}
  BY DEF Position
<1>4. at = "lexeme" => start = current /\ ~isEOL
  BY <1>1 DEF TInv, CursorInv
<1> QED
  BY <1>1, <1>2, <1>3, <1>4

LEMMA SamePlace ==
  ASSUME UNCHANGED <<text, current>>
  PROVE  peek' = peek /\ isEOL' = isEOL
BY DEF peek, isEOL, CharAt

\* With the next token nothing has been read, and the token is behind the cursor.
LEMMA ReadNothing ==
  ASSUME RInv, NEW t \in Token, tokens' = Append(tokens, t), at' \in {"tokenize", "done"},
         t.after <= current'
  PROVE  WordRead' /\ CommentRead' /\ NotYetOver' /\ Begun'
<1>1. tokens' # <<>> /\ tokens'[Len(tokens')] = t
  BY Places
<1>2. Position' = current'
  BY DEF Position
<1> QED
  BY <1>1, <1>2 DEF WordRead, CommentRead, NotYetOver, Begun

LEMMA MadeNothing ==
  ASSUME RInv, NEW type \in Type, NEW n \in 0..2, makeToken(type, n) \/ makeError(n)
  PROVE  WordRead' /\ CommentRead' /\ NotYetOver' /\ Begun'
<1>1. /\ start \in Nat /\ current \in Nat /\ current + n \in Nat /\ line \in Nat
      /\ col - (current - start) \in Int /\ col + n \in Int /\ current' = current + n
  BY SMTT(30), Places, InText DEF makeToken, makeError, advance
<1>2. CASE makeToken(type, n)
  <2> DEFINE t == [type |-> type, first |-> start, after |-> current + n,
                   line |-> line, col |-> col - (current - start)]
  <2>1. t \in Token /\ t.after <= current'
    BY <1>1 DEF Token
  <2>2. tokens' = Append(tokens, t) /\ at' = "tokenize"
    BY <1>2 DEF makeToken, Put
  <2> QED
    BY <2>1, <2>2, ReadNothing
<1>3. CASE makeError(n)
  <2> DEFINE t == [type |-> "error", first |-> 0, after |-> 0, line |-> line, col |-> col + n]
  <2>1. t \in Token /\ t.after <= current'
    BY <1>1, OwnTypes DEF Token
  <2>2. tokens' = Append(tokens, t) /\ at' = "tokenize"
    BY <1>3 DEF makeError, Put
  <2> QED
    BY <2>1, <2>2, ReadNothing
<1> QED
  BY <1>2, <1>3

\* The next cursor is a number too.
LEMMA NextPlaces ==
  ASSUME EInv'
  PROVE  current' \in Int /\ start' \in Int /\ Position' \in Int
<1>1. text' \in Text /\ start' \in 1..(Len(text') + 1) /\ current' \in start'..(Len(text') + 1)
  BY DEF EInv, TInv, TypeOK
<1>2. Len(text') \in Nat
  BY <1>1, TextAssumption
<1>3. Position' = current' \/ Position' = start'
  BY DEF Position
<1> QED
  BY <1>1, <1>2, <1>3

\* Without a token, and not at the end of the blanks, Begun is about the cursor only.
LEMMA StillBegun ==
  ASSUME RInv, EInv', UNCHANGED tokens, Position <= Position', at' # "lexeme",
         at' = "blanks" /\ isEOL' => Position < current'
  PROVE  Begun'
<1>1. tokens # <<>> => tokens[Len(tokens)].after \in Nat
  <2>1. tokens # <<>> => tokens[Len(tokens)] \in Token
    BY Places
  <2> QED
    BY <2>1 DEF Token
<1>2. Position \in 1..(Len(text) + 1) /\ Len(text) \in Nat
  BY Places
<1>3. Position' \in Int /\ current' \in Int
  BY NextPlaces
<1>4. tokens # <<>> => tokens[Len(tokens)].after <= Position
  BY DEF RInv, Begun
<1>5. tokens # <<>> => tokens[Len(tokens)].after <= Position'
  BY <1>1, <1>2, <1>3, <1>4
<1>6. at' = "blanks" /\ isEOL' =>
        current' > 1 /\ (tokens # <<>> => tokens[Len(tokens)].after < current')
  BY <1>1, <1>2, <1>3, <1>4
<1> QED
  BY <1>5, <1>6 DEF Begun

LEMMA ReadNext == RInv /\ [Next]_vars => RInv'
<1> SUFFICES ASSUME RInv, [Next]_vars
             PROVE  WordRead' /\ CommentRead' /\ NotYetOver' /\ Begun'
  BY EofNext DEF RInv
<1>e. EInv'
  BY EofNext DEF RInv
<1>t. /\ TypeOK /\ Len(text) \in Nat /\ start \in 1..(Len(text) + 1)
      /\ current \in start..(Len(text) + 1) /\ tokens \in Seq(Token)
      /\ Position \in 1..(Len(text) + 1) /\ Position <= current
      /\ at = "lexeme" => start = current /\ ~isEOL
  BY Places
<1>c. /\ DOMAIN text = 1..Len(text)
      /\ ~isEOL => current \in 1..Len(text) /\ peek = text[current]
      /\ isEOL <=> current = Len(text) + 1
  BY <1>t, TextFacts
<1>1. CASE Tokenize
  <2>1. CASE isEOL
    <3> DEFINE t == [type |-> "eof", first |-> 0, after |-> 0, line |-> -1, col |-> -1]
    <3>1. t \in Token /\ t.after <= current'
      BY <1>1, <1>t, OwnTypes DEF Token, Tokenize
    <3>2. tokens' = Append(tokens, t) /\ at' = "done"
      BY <1>1, <2>1 DEF Tokenize
    <3> QED
      BY <3>1, <3>2, ReadNothing
  <2>2. CASE ~isEOL
    <3>1. at' = "blanks" /\ UNCHANGED <<tokens, text, current>> /\ Position' = Position
          /\ ~isEOL'
      BY <1>1, <2>2, SamePlace DEF Tokenize, Position
    <3>2. Begun'
      BY <1>t, <3>1, <1>e, StillBegun
    <3> QED
      BY <3>1, <3>2 DEF WordRead, CommentRead, NotYetOver
  <2> QED
    BY <2>1, <2>2
<1>2. CASE SkipWhitespace
  <2>1. at' = "blanks" /\ UNCHANGED tokens /\ Position = current /\ Position' = current + 1
        /\ current' = current + 1
    BY <1>2 DEF SkipWhitespace, Position
  <2>2. Begun'
    BY <1>t, <2>1, <1>e, StillBegun
  <2> QED
    BY <2>1, <2>2 DEF WordRead, CommentRead, NotYetOver
<1>3. CASE BeginToken
  <2>1. CASE isEOL
    <3> DEFINE t == [type |-> "eof", first |-> current, after |-> current,
                     line |-> line, col |-> col]
    <3>1. t \in Token /\ t.after <= current'
      BY <1>3, <1>t, InText, OwnTypes DEF Token, BeginToken
    <3>2. tokens' = Append(tokens, t) /\ at' = "tokenize"
      BY <1>3, <2>1 DEF BeginToken, Put
    <3> QED
      BY <3>1, <3>2, ReadNothing
  <2>2. CASE ~isEOL
    <3>1. at' = "lexeme" /\ UNCHANGED <<tokens, text, current>> /\ Position' = Position
          /\ peek' \notin Blank
      BY <1>3, <2>2, SamePlace DEF BeginToken, Position
    <3>2. Begun'
      BY <3>1 DEF Begun, RInv
    <3> QED
      BY <3>1, <3>2 DEF WordRead, CommentRead, NotYetOver
  <2> QED
    BY <2>1, <2>2
<1>4. CASE ScanSymbol
  <2>1. PICK type \in Type, n \in 1..2 : makeToken(type, n) \/ makeError(n)
    BY <1>4, OwnTypes, SymbolType DEF ScanSymbol
  <2> QED
    BY <2>1, MadeNothing
<1>5. CASE BeginComment
  <2>1. /\ current' = start + 2 /\ start' = start /\ current = start
        /\ UNCHANGED <<text, tokens>> /\ at' \in {"line", "block"}
        /\ Position = start /\ Position' = start
    BY <1>5, <1>t DEF BeginComment, advance, Position
  <2>2. peekNext # Nul
    BY <1>5 DEF BeginComment, Nul
  <2>3. /\ text[start] = "/"
        /\ text[start + 1] = IF at' = "line" THEN "/" ELSE "*"
    BY <1>5, <1>t, <1>c, <2>1, <2>2, TextFacts DEF BeginComment
  <2>4. CommentRead' /\ WordRead'
    BY <1>t, <2>1, <2>3 DEF CommentRead, WordRead
  <2>5. NotYetOver'
    <3>1. at' = "line" => \A k \in start'..(current' - 1) : text'[k] # "\n"
      <4>1. \A k \in start'..(current' - 1) : k = start \/ k = start + 1
        BY <1>t, <2>1
      <4> QED
        BY <2>1, <2>3, <4>1
    <3>2. (start' + 2)..(current' - 1) = {}
      BY <1>t, <2>1
    <3> QED
      BY <2>1, <3>1, <3>2 DEF NotYetOver
  <2>6. Begun'
    BY <1>t, <2>1, <1>e, StillBegun
  <2> QED
    BY <2>4, <2>5, <2>6
<1>6. CASE BeginWord
  <2>1. /\ current' = start + 1 /\ start' = start /\ current = start
        /\ UNCHANGED <<text, tokens>> /\ at' \in {"ident", "number"}
        /\ Position = start /\ Position' = start
    BY <1>6, <1>t DEF BeginWord, advance, Position
  <2>2. /\ text[start] \in InWord'
        /\ at' = "ident" => text[start] \in Letter
    BY <1>6, <1>t, <1>c, <2>1 DEF BeginWord, InWord
  <2>3. WordRead' /\ CommentRead' /\ NotYetOver'
    BY <1>t, <2>1, <2>2 DEF CommentRead, WordRead, NotYetOver
  <2>4. Begun'
    BY <1>t, <2>1, <1>e, StillBegun
  <2> QED
    BY <2>3, <2>4
<1>7. CASE UnknownCharacter
  <2>1. "error" \in Type /\ makeError(1)
    BY <1>7, OwnTypes DEF UnknownCharacter
  <2> QED
    BY <2>1, MadeNothing
<1>8. CASE ScanWord
  <2>1. CASE peek \in InWord
    <3>1. /\ current' = current + 1
          /\ UNCHANGED <<text, start, tokens, at>> /\ at \in {"ident", "number"}
          /\ Position = start /\ Position' = start /\ InWord' = InWord
      BY <1>8, <2>1 DEF ScanWord, advance, Position, InWord
    <3>2. ~isEOL
      BY <1>8, <2>1, Kinds DEF ScanWord, InWord, isEOL
    <3>3. \A k \in start..(current + 1 - 1) : text[k] \in InWord
      BY <1>t, <1>c, <2>1, <3>1, <3>2 DEF RInv, WordRead
    <3>4. WordRead' /\ CommentRead' /\ NotYetOver'
      BY <1>t, <3>1, <3>3 DEF RInv, CommentRead, WordRead, NotYetOver
    <3>5. Begun'
      BY <1>t, <3>1, <1>e, StillBegun
    <3> QED
      BY <3>4, <3>5
  <2>2. CASE peek \notin InWord
    <3>1. PICK type \in Type : makeToken(type, 0)
      BY <1>8, <2>2, WordType, OwnTypes DEF ScanWord
    <3> QED
      BY <3>1, MadeNothing
  <2> QED
    BY <2>1, <2>2
<1>9. CASE ScanLineComment
  <2>1. /\ UNCHANGED <<text, start, tokens>> /\ at = "line" /\ Position = start
        /\ start + 2 <= current
    BY <1>9 DEF ScanLineComment, Position, RInv, CommentRead
  <2>2. CASE peek # "\n" /\ ~isEOL
    <3>1. at' = "line" /\ current' = current + 1 /\ Position' = start
      BY <1>9, <2>1, <2>2 DEF ScanLineComment, advance, Position
    <3>2. \A k \in start..(current + 1 - 1) : text[k] # "\n"
      BY <1>t, <1>c, <2>1, <2>2 DEF RInv, NotYetOver
    <3>3. WordRead' /\ CommentRead' /\ NotYetOver'
      BY <1>t, <2>1, <3>1, <3>2 DEF RInv, CommentRead, WordRead, NotYetOver
    <3>4. Begun'
      BY <1>t, <2>1, <3>1, <1>e, StillBegun
    <3> QED
      BY <3>3, <3>4
  <2>3. CASE ~(peek # "\n" /\ ~isEOL)
    <3>1. at' = "blanks" /\ current' = current /\ Position' = current
      BY <1>9, <2>1, <2>3 DEF ScanLineComment, Position
    <3>2. Begun'
      BY <1>t, <2>1, <3>1, <1>e, StillBegun
    <3> QED
      BY <3>1, <3>2 DEF WordRead, CommentRead, NotYetOver
  <2> QED
    BY <2>2, <2>3
<1>10. CASE ScanBlockComment
  <2>1. /\ UNCHANGED <<text, start>> /\ at = "block" /\ Position = start
        /\ start + 2 <= current
    BY <1>10 DEF ScanBlockComment, Position, RInv, CommentRead
  <2>2. CASE isEOL
    <3>1. "error" \in Type /\ makeError(0)
      BY <1>10, <2>2, OwnTypes DEF ScanBlockComment
    <3> QED
      BY <3>1, MadeNothing
  <2>3. CASE ~isEOL /\ peek = "*" /\ peekNext = "/"
    <3>1. at' = "blanks" /\ current' = current + 2 /\ Position' = current' /\ UNCHANGED tokens
      BY <1>10, <2>1, <2>3 DEF ScanBlockComment, Position, advance
    <3>2. Begun'
      BY <1>t, <2>1, <3>1, <1>e, StillBegun
    <3> QED
      BY <3>1, <3>2 DEF WordRead, CommentRead, NotYetOver
  <2>4. CASE ~isEOL /\ ~(peek = "*" /\ peekNext = "/")
    <3>1. at' = "block" /\ current' = current + 1 /\ Position' = start /\ UNCHANGED tokens
      BY <1>10, <2>1, <2>4 DEF ScanBlockComment, Position, advance
    <3>2. ~(text[current] = "*" /\ current + 1 <= Len(text) /\ text[current + 1] = "/")
      <4>1. current + 1 <= Len(text) => peekNext = text[current + 1]
        BY <1>t, <1>c, <2>4 DEF peekNext, CharAt
      <4> QED
        BY <1>c, <2>4, <4>1
    <3>3. \A k \in (start + 2)..(current + 1 - 1) :
            ~(text[k] = "*" /\ k + 1 <= Len(text) /\ text[k + 1] = "/")
      BY <1>t, <2>1, <3>2 DEF RInv, NotYetOver
    <3>4. WordRead' /\ CommentRead' /\ NotYetOver'
      BY <1>t, <2>1, <3>1, <3>3 DEF RInv, CommentRead, WordRead, NotYetOver
    <3>5. Begun'
      BY <1>t, <2>1, <3>1, <1>e, StillBegun
    <3> QED
      BY <3>4, <3>5
  <2> QED
    BY <2>2, <2>3, <2>4
<1>11. CASE UNCHANGED vars
  BY <1>11, SamePlace
     DEF vars, RInv, WordRead, CommentRead, NotYetOver, Begun, Position, InWord
<1> QED
  BY <1>1, <1>2, <1>3, <1>4, <1>5, <1>6, <1>7, <1>8, <1>9, <1>10, <1>11 DEF Next

LEMMA ReadInit == Init => RInv
BY EofInit DEF Init, RInv, WordRead, CommentRead, NotYetOver, Begun


\* A piece of two characters.
LEMMA TwoCharacters ==
  ASSUME TypeOK, NEW a \in 1..(Len(text) - 1), NEW c, NEW d
  PROVE  Rules!Piece(a, a + 2) = <<c, d>> <=> text[a] = c /\ text[a + 1] = d
<1> DEFINE piece == Rules!Piece(a, a + 2)
           two == <<c, d>>
<1>1. Len(text) \in Nat /\ a \in 1..(Len(text) + 1) /\ a + 2 \in a..(Len(text) + 1)
  BY TextFacts
<1>2. /\ piece \in Seq(STRING) /\ Len(piece) = (a + 2) - a
      /\ \A k \in a..((a + 2) - 1) : piece[k - a + 1] = text[k]
  BY <1>1, PieceFacts
<1>3. Len(piece) = 2 /\ piece[1] = text[a] /\ piece[2] = text[a + 1]
  <2>1. a \in a..((a + 2) - 1) /\ a + 1 \in a..((a + 2) - 1)
        /\ a - a + 1 = 1 /\ a + 1 - a + 1 = 2 /\ (a + 2) - a = 2
    BY <1>1
  <2>2. piece[a - a + 1] = text[a] /\ piece[a + 1 - a + 1] = text[a + 1]
    BY <1>2, <2>1
  <2> QED
    BY <1>2, <2>1, <2>2
<1>4. two \in Seq({c, d}) /\ Len(two) = 2 /\ two[1] = c /\ two[2] = d
  OBVIOUS
<1>5. piece = two => piece[1] = two[1] /\ piece[2] = two[2]
  OBVIOUS
<1>6. piece[1] = two[1] /\ piece[2] = two[2] => piece = two
  <2>1. piece \in [1..2 -> STRING] /\ two \in [1..2 -> {c, d}]
    BY <1>2, <1>3, <1>4
  <2>2. \A k \in 1..2 : k = 1 \/ k = 2
    OBVIOUS
  <2> HIDE DEF piece, two
  <2> QED
    BY <2>1, <2>2
<1> QED
  BY <1>3, <1>4, <1>5, <1>6

\* What opens a comment at a place.
LEMMA OpensAt ==
  ASSUME RInv, NEW second
  PROVE  /\ Rules!Opens(second) => /\ Position + 1 \in 1..Len(text)
                                   /\ text[Position] = "/" /\ text[Position + 1] = second
         /\ Position < Len(text) /\ text[Position] = "/" /\ text[Position + 1] = second
              => Rules!Opens(second)
<1>1. TypeOK /\ Len(text) \in Nat /\ Position \in 1..(Len(text) + 1)
  BY Places
<1>2. Position < Len(text) =>
        (Rules!Piece(Position, Position + 2) = <<"/", second>>
           <=> text[Position] = "/" /\ text[Position + 1] = second)
  <2> DEFINE p == Position
  <2> HIDE DEF p
  <2>1. ASSUME p \in 1..(Len(text) - 1)
        PROVE  Rules!Piece(p, p + 2) = <<"/", second>> <=> text[p] = "/" /\ text[p + 1] = second
    BY <1>1, <2>1, TwoCharacters
  <2>2. Position < Len(text) => p \in 1..(Len(text) - 1)
    BY <1>1 DEF p
  <2> QED
    BY <2>1, <2>2 DEF p
<1>3. Rules!Opens(second) <=> /\ Position < Len(text)
                              /\ Rules!Piece(Position, Position + 2) = <<"/", second>>
  BY DEF Rules!Opens
<1> QED
  BY <1>1, <1>2, <1>3

\* The tokens as the rules see them.
LEMMA PiecesFacts ==
  ASSUME RInv
  PROVE  /\ Len(Pieces) = Len(tokens) /\ (Pieces = <<>> <=> tokens = <<>>)
         /\ tokens # <<>> => /\ Pieces[Len(Pieces)].type = tokens[Len(tokens)].type
                             /\ Pieces[Len(Pieces)].after = tokens[Len(tokens)].after
<1>1. tokens \in Seq(Token) /\ Len(tokens) \in Nat /\ DOMAIN tokens = 1..Len(tokens)
  BY Places
<1>2. Pieces \in Seq([type : Type, first : Nat, after : Nat]) /\ Len(Pieces) = Len(tokens)
  <2> DEFINE piece(i) == [type |-> tokens[i].type, first |-> tokens[i].first,
                          after |-> tokens[i].after]
  <2>1. \A i \in 1..Len(tokens) : piece(i) \in [type : Type, first : Nat, after : Nat]
    <3>1. \A i \in 1..Len(tokens) : tokens[i] \in Token
      BY <1>1
    <3> QED
      BY <3>1 DEF Token
  <2>2. Pieces = [i \in 1..Len(tokens) |-> piece(i)]
    BY <1>1 DEF Pieces
  <2> HIDE DEF piece
  <2> QED
    BY <1>1, <2>1, <2>2
<1>3. tokens # <<>> => Len(tokens) \in DOMAIN tokens
  BY <1>1
<1> QED
  BY <1>1, <1>2, <1>3 DEF Pieces

LEMMA PiecesAppend ==
  ASSUME RInv, NEW t \in Token, tokens' = Append(tokens, t)
  PROVE  Pieces' = Append(Pieces, [type |-> t.type, first |-> t.first, after |-> t.after])
<1> DEFINE piece(u) == [type |-> u.type, first |-> u.first, after |-> u.after]
           more == Append(tokens, t)
<1>1. tokens \in Seq(Token) /\ Len(tokens) \in Nat /\ DOMAIN tokens = 1..Len(tokens)
  BY Places
<1>2. /\ more \in Seq(Token) /\ Len(more) = Len(tokens) + 1
      /\ DOMAIN more = 1..(Len(tokens) + 1)
      /\ \A i \in 1..Len(tokens) : more[i] = tokens[i]
      /\ more[Len(tokens) + 1] = t
  BY <1>1
<1>3. Pieces' = [i \in DOMAIN more |-> piece(more[i])]
  BY DEF Pieces
<1>4. Pieces = [i \in DOMAIN tokens |-> piece(tokens[i])]
  BY DEF Pieces
<1>5. \A u \in Token : piece(u) \in [type : Type, first : Nat, after : Nat]
  BY DEF Token
<1> HIDE DEF piece, more
<1>6. Pieces \in Seq([type : Type, first : Nat, after : Nat]) /\ Len(Pieces) = Len(tokens)
  BY <1>1, <1>4, <1>5
<1>7. Append(Pieces, piece(t)) = [i \in 1..(Len(tokens) + 1) |->
                                    IF i = Len(tokens) + 1 THEN piece(t) ELSE Pieces[i]]
  <2> DEFINE Q == [type : Type, first : Nat, after : Nat]
             q == Pieces
             p == piece(t)
             added == Append(q, p)
             n == Len(tokens)
  <2>1. q \in Seq(Q) /\ Len(q) = n /\ p \in Q /\ n \in Nat
    BY <1>1, <1>5, <1>6
  <2> HIDE DEF Q, q, p, n
  <2>2. /\ added \in Seq(Q) /\ Len(added) = n + 1
        /\ \A i \in 1..n : added[i] = q[i]
        /\ added[n + 1] = p
    BY <2>1
  <2> HIDE DEF added
  <2>3. added = [i \in 1..(n + 1) |-> added[i]]
    BY <2>1, <2>2
  <2>4. \A i \in 1..(n + 1) : added[i] = IF i = n + 1 THEN p ELSE q[i]
    BY <2>1, <2>2
  <2>5. added = [i \in 1..(n + 1) |-> IF i = n + 1 THEN p ELSE q[i]]
    BY <2>3, <2>4
  <2> QED
    BY <2>5 DEF q, p, n, added
<1>8. \A i \in 1..(Len(tokens) + 1) :
        piece(more[i]) = IF i = Len(tokens) + 1 THEN piece(t) ELSE Pieces[i]
  BY <1>1, <1>2, <1>4
<1>9. Pieces' = Append(Pieces, piece(t))
  BY <1>2, <1>3, <1>7, <1>8
<1> QED
  BY <1>9 DEF piece

\* A step that the rules do not see.
LEMMA Unseen ==
  ASSUME UNCHANGED <<text, tokens, Position>>, at # "done", at' # "done"
  PROVE  UNCHANGED Rules!vars
BY DEF Rules!vars, Pieces

\* A token or an error as the rules emit it.
LEMMA Emitted ==
  ASSUME RInv, NEW type \in Type, NEW n \in 0..2
  PROVE  /\ makeToken(type, n) => /\ Rules!Emit(type, start, current + n)
                                  /\ Position' = current + n /\ at' # "done"
         /\ makeError(n) => /\ Rules!Emit("error", 0, 0)
                            /\ Position' = current + n /\ at' # "done"
<1>1. /\ start \in Nat /\ current \in Nat /\ current + n \in Nat /\ line \in Nat
      /\ col - (current - start) \in Int /\ col + n \in Int
  BY SMTT(30), Places, InText
<1>2. ASSUME makeToken(type, n)
      PROVE  Rules!Emit(type, start, current + n) /\ Position' = current + n /\ at' # "done"
  <2> DEFINE t == [type |-> type, first |-> start, after |-> current + n,
                   line |-> line, col |-> col - (current - start)]
  <2>1. t \in Token
    BY <1>1 DEF Token
  <2>2. tokens' = Append(tokens, t) /\ at' = "tokenize" /\ current' = current + n
    BY <1>2 DEF makeToken, Put, advance
  <2>3. Pieces' = Append(Pieces, [type |-> t.type, first |-> t.first, after |-> t.after])
    BY <2>1, <2>2, PiecesAppend
  <2> QED
    BY <2>2, <2>3 DEF Rules!Emit, Position
<1>3. ASSUME makeError(n)
      PROVE  Rules!Emit("error", 0, 0) /\ Position' = current + n /\ at' # "done"
  <2> DEFINE t == [type |-> "error", first |-> 0, after |-> 0, line |-> line, col |-> col + n]
  <2>1. t \in Token
    BY <1>1, OwnTypes DEF Token
  <2>2. tokens' = Append(tokens, t) /\ at' = "tokenize" /\ current' = current + n
    BY <1>3 DEF makeError, Put, advance
  <2>3. Pieces' = Append(Pieces, [type |-> t.type, first |-> t.first, after |-> t.after])
    BY <2>1, <2>2, PiecesAppend
  <2> QED
    BY <2>2, <2>3 DEF Rules!Emit, Position
<1> QED
  BY <1>2, <1>3

\* The choices of the switch that make a token are the longest lexeme, or an error.
LEMMA SymbolStep ==
  ASSUME RInv, ScanSymbol
  PROVE  Rules!Next
<1>t. /\ TypeOK /\ Len(text) \in Nat /\ tokens \in Seq(Token)
      /\ current \in 1..Len(text) /\ start = current /\ Position = start
      /\ peek = text[current] /\ at # "done" /\ UNCHANGED text
      /\ peek \in Sign
  BY Places, TextFacts DEF ScanSymbol, Position, Sign
<1>n. /\ peekNext # Nul => current + 1 \in 1..Len(text) /\ peekNext = text[current + 1]
      /\ peekNext = Nul => current >= Len(text)
  BY <1>t, TextFacts
<1>o. ~Rules!Opens("/") /\ ~Rules!Opens("*")
  <2>1. ASSUME NEW second \in {"/", "*"}, Rules!Opens(second) PROVE FALSE
    <3>1. current + 1 \in 1..Len(text) /\ peek = "/" /\ text[current + 1] = second
      BY <1>t, <2>1, OpensAt
    <3>2. peekNext = second
      BY <1>t, <1>n, <3>1
    <3> QED
      BY <2>1, <3>1, <3>2 DEF ScanSymbol
  <2> QED
    BY <2>1
<1> DEFINE piece(i) == Rules!Piece(current, i)
           two == <<peek, peekNext>>
<1>p. ASSUME NEW i \in (current + 1)..(Len(text) + 1)
      PROVE  piece(i) \in Seq(STRING) /\ Len(piece(i)) = i - current /\ piece(i)[1] = peek
  <2>1. current \in 1..(Len(text) + 1) /\ i \in current..(Len(text) + 1) /\ current < i
    BY <1>t
  <2> QED
    BY <1>t, <2>1, PieceFacts
<1>q. peekNext # Nul => piece(current + 2) = two
  <2>1. peekNext # Nul => current \in 1..(Len(text) - 1) /\ text[current + 1] = peekNext
    BY <1>t, <1>n
  <2> QED
    BY <1>t, <2>1, TwoCharacters
<1> HIDE DEF two, piece
<1>l. ASSUME NEW i \in (current + 1)..(Len(text) + 1), Rules!IsLexeme(piece(i))
      PROVE  \/ i = current + 1 /\ peek \in Single
             \/ i = current + 2 /\ \E entry \in Pair : entry[2] = piece(i)
  <2>1. \/ piece(i) = <<peek>> /\ peek \in Single
        \/ \E entry \in Pair : entry[2] = piece(i)
    BY <1>t, <1>p, <1>l, FirstCharacter
  <2>2. Len(piece(i)) = i - current /\ Len(<<peek>>) = 1
    BY <1>p
  <2>3. CASE piece(i) = <<peek>> /\ peek \in Single
    <3>1. Len(piece(i)) = 1
      BY <2>2, <2>3
    <3> QED
      BY <1>t, <2>2, <2>3, <3>1
  <2>4. CASE \E entry \in Pair : entry[2] = piece(i)
    <3>1. Len(piece(i)) = 2
      BY <2>4, TableFacts
    <3> QED
      <4>1. i - current = 2
        BY <2>2, <3>1
      <4>2. i = current + 2
        BY <1>t, <4>1
      <4> QED
        BY <2>4, <4>2
  <2> QED
    BY <2>1, <2>3, <2>4
<1>1. CASE PairType(Pair) # "error"
  <2>1. PICK entry \in Pair : entry[1] = PairType(Pair) /\ entry[2] = two
    <3>1. Pair \in SUBSET (Pair \cup keywords)
      OBVIOUS
    <3> QED
      BY <1>1, <3>1, TableType DEF PairType, two
  <2>2. peekNext # Nul
    BY <1>1, SymbolType
  <2>3. piece(current + 2) = two /\ current + 2 \in (current + 1)..(Len(text) + 1)
    BY <1>t, <1>n, <1>q, <2>2
  <2>4. /\ Rules!IsLexeme(two) /\ Rules!LexemeType(two) = TypeOf(Pair, two, "error")
    BY <2>1, TypeOfLexeme
  <2>5. Rules!LexemeType(two) = PairType(Pair)
    BY <2>4 DEF PairType, two
  <2>6. \A i \in (current + 2 + 1)..(Len(text) + 1) : ~Rules!IsLexeme(piece(i))
    BY <1>t, <1>l
  <2>7. makeToken(PairType(Pair), 2) /\ PairType(Pair) \in Type
    BY <1>1, SymbolType DEF ScanSymbol
  <2>8. Rules!Emit(PairType(Pair), current, current + 2) /\ Position' = current + 2 /\ at' # "done"
    BY <1>t, <2>7, Emitted
  <2>9. Rules!Take(current + 2)
    BY <1>t, <1>o, <2>3, <2>4, <2>5, <2>6, <2>8 DEF Rules!Take, Rules!Ends, piece
  <2> QED
    BY <1>t, <2>3, <2>9 DEF Rules!Next, Rules!Ends
<1>2. CASE PairType(Pair) = "error"
  <2>1. ASSUME NEW i \in (current + 2)..(Len(text) + 1) PROVE ~Rules!IsLexeme(piece(i))
    <3>1. SUFFICES ASSUME i = current + 2, NEW entry \in Pair, entry[2] = piece(i) PROVE FALSE
      BY <1>t, <1>l
    <3>2. peekNext # Nul
      BY <1>t, <1>n, <3>1
    <3>3. entry[2] = two
      BY <1>q, <3>1, <3>2
    <3>4. TypeOf(Pair, two, "error") # "error"
      BY <3>3, TypeOfLexeme
    <3> QED
      BY <1>2, <3>4 DEF PairType, two
  <2>2. current + 1 \in (current + 1)..(Len(text) + 1)
    BY <1>t
  <2>3. CASE peek = "!"
    <3>1. peek \notin Single /\ peek \notin Blank /\ "error" \in Type
      BY <2>3, OwnTypes DEF Single, Blank
    <3>2. \A i \in (current + 1)..(Len(text) + 1) : ~Rules!IsLexeme(piece(i))
      BY <1>t, <1>l, <2>1, <3>1
    <3>3. makeError(1)
      BY <1>2, <2>3 DEF ScanSymbol
    <3>4. Rules!Emit("error", 0, 0) /\ Position' = current + 1 /\ at' # "done"
      BY <1>t, <3>1, <3>3, Emitted
    <3>5. \A i : ~Rules!BlockComment(i) /\ ~Rules!LineComment(i)
      BY <1>o DEF Rules!BlockComment, Rules!LineComment
    <3>6. Rules!Refuse(current + 1)
      BY <1>t, <1>o, <3>1, <3>2, <3>4, <3>5, SameTokens DEF Rules!Refuse, Rules!Ends, piece
    <3> QED
      BY <1>t, <2>2, <3>6 DEF Rules!Next, Rules!Ends
  <2>4. CASE peek # "!"
    <3>1. peek \in Single /\ peek \in Type
      BY <1>t, <2>4, OwnTypes DEF Sign
    <3>2. piece(current + 1) = <<peek>>
      <4> DEFINE word == piece(current + 1)
      <4>1. word \in Seq(STRING) /\ Len(word) = 1 /\ word[1] = peek
        <5>1. Len(word) = (current + 1) - current
          BY <1>p, <2>2
        <5> QED
          BY <1>p, <1>t, <2>2, <5>1
      <4> HIDE DEF word
      <4>2. word = <<peek>>
        BY <4>1
      <4> QED
        BY <4>2 DEF word
    <3>3. Rules!IsLexeme(<<peek>>)
      BY <3>1, SameTokens DEF Rules!IsLexeme
    <3>4. Rules!LexemeType(<<peek>>) = peek
      <4>1. Len(<<peek>>) = 1 /\ <<peek>>[1] = peek
        OBVIOUS
      <4> QED
        BY <3>1, <4>1, LexemeTypeIs
    <3>5. makeToken(peek, 1)
      BY <1>2, <2>4 DEF ScanSymbol
    <3>6. Rules!Emit(peek, current, current + 1) /\ Position' = current + 1 /\ at' # "done"
      BY <1>t, <3>1, <3>5, Emitted
    <3>7. \A i \in (current + 1 + 1)..(Len(text) + 1) : ~Rules!IsLexeme(piece(i))
      BY <1>t, <2>1
    <3>8. Rules!Take(current + 1)
      BY <1>t, <1>o, <3>2, <3>3, <3>4, <3>6, <3>7 DEF Rules!Take, Rules!Ends, piece
    <3> QED
      BY <1>t, <2>2, <3>8 DEF Rules!Next, Rules!Ends
  <2> QED
    BY <2>3, <2>4
<1> QED
  BY <1>1, <1>2

\* What begins no lexeme is an error; a number behind a 0 may be.
LEMMA UnknownStep ==
  ASSUME RInv, UnknownCharacter
  PROVE  Rules!Next
<1>t. /\ TypeOK /\ Len(text) \in Nat
      /\ current \in 1..Len(text) /\ start = current /\ Position = start
      /\ peek = text[current] /\ at # "done" /\ UNCHANGED text
      /\ peek \notin Sign /\ peek \notin Letter /\ peek \notin Blank
  BY Places, TextFacts DEF UnknownCharacter, Position, Sign, RInv, Begun
<1>o. ~Rules!Opens("/") /\ ~Rules!Opens("*")
  <2>1. "/" \in Sign
    BY DEF Sign, Single
  <2> QED
    BY <1>t, <2>1, OpensAt
<1>1. ASSUME peek # "0", NEW i \in (current + 1)..(Len(text) + 1),
             Rules!IsLexeme(Rules!Piece(current, i))
      PROVE  FALSE
  <2>1. Rules!Piece(current, i) \in Seq(STRING) /\ Rules!Piece(current, i)[1] = peek
    <3>1. current \in 1..(Len(text) + 1) /\ i \in current..(Len(text) + 1) /\ current < i
      BY <1>t
    <3> QED
      BY <1>t, <3>1, PieceFacts
  <2>2. peek \in Digit
    BY <1>t, <1>1, <2>1, FirstCharacter
  <2> QED
    BY <1>1, <2>2 DEF UnknownCharacter, LooksLikeNumber
<1>2. "error" \in Type /\ makeError(1)
  BY OwnTypes DEF UnknownCharacter
<1>3. Rules!Emit("error", 0, 0) /\ Position' = current + 1 /\ at' # "done"
  BY <1>t, <1>2, Emitted
<1>4. \A i : ~Rules!BlockComment(i) /\ ~Rules!LineComment(i)
  BY <1>o DEF Rules!BlockComment, Rules!LineComment
<1>5. Rules!Refuse(current + 1)
  BY <1>t, <1>o, <1>1, <1>3, <1>4, SameTokens DEF Rules!Refuse, Rules!Ends
<1>6. current + 1 \in (current + 1)..(Len(text) + 1)
  BY <1>t
<1> QED
  BY <1>t, <1>5, <1>6 DEF Rules!Next, Rules!Ends

\* A word ends where the next character is none of it.
LEMMA WordStep ==
  ASSUME RInv, ScanWord
  PROVE  Rules!Next \/ UNCHANGED Rules!vars
<1>t. /\ TypeOK /\ Len(text) \in Nat
      /\ start \in 1..(Len(text) + 1) /\ current \in (start + 1)..(Len(text) + 1)
      /\ Position = start /\ at \in {"ident", "number"} /\ at # "done"
      /\ UNCHANGED <<text, start>>
  BY Places DEF ScanWord, Position, RInv, WordRead
<1>r. /\ \A k \in start..(current - 1) : text[k] \in InWord
      /\ at = "ident" => text[start] \in Letter
      /\ at = "number" => text[start] \in Digit
  <2>1. /\ \A k \in start..(current - 1) : text[k] \in InWord
        /\ at = "ident" => text[start] \in Letter
    BY <1>t DEF RInv, WordRead
  <2>2. start \in start..(current - 1)
    BY <1>t
  <2> QED
    BY <2>1, <2>2 DEF InWord
<1>1. CASE peek \in InWord
  <2>1. at' = at /\ UNCHANGED tokens /\ Position' = Position
    BY <1>1, <1>t DEF ScanWord, Position
  <2> QED
    BY <1>t, <2>1, Unseen
<1>2. CASE peek \notin InWord
  <2> DEFINE word == Rules!Piece(start, current)
             type == IF at = "number" THEN "number" ELSE TypeOf(keywords, word, "ident")
  <2>1. makeToken(type, 0)
    BY <1>2 DEF ScanWord, Rules!Piece
  <2>2. type \in Type
    BY WordType, OwnTypes
  <2>3. /\ word \in Seq(STRING) /\ Len(word) = current - start /\ DOMAIN word = 1..(current - start)
        /\ \A k \in start..(current - 1) : word[k - start + 1] = text[k]
        /\ word # <<>> /\ word[1] = text[start]
    <3>1. current \in start..(Len(text) + 1) /\ start < current
      BY <1>t
    <3> QED
      BY <1>t, <3>1, PieceFacts
  <2>4. \A j \in DOMAIN word : word[j] \in InWord
    <3>1. ASSUME NEW j \in 1..(current - start) PROVE word[j] \in InWord
      <4>1. start + j - 1 \in start..(current - 1) /\ (start + j - 1) - start + 1 = j
        BY <1>t
      <4>2. word[(start + j - 1) - start + 1] = text[start + j - 1]
        BY <2>3, <4>1
      <4> HIDE DEF word
      <4> QED
        BY <1>r, <4>1, <4>2
    <3> QED
      BY <2>3, <3>1
  <2>5. Rules!LexemeType(word) = type
    <3>1. CASE at = "ident"
      <4>1. word[1] \in Letter /\ at # "number"
        BY <3>1, <1>r, <2>3
      <4> QED
        BY <4>1, <2>3, TypeOfLexeme
    <3>2. CASE at = "number"
      BY <3>2, <1>r, <2>3, TypeOfLexeme
    <3> QED
      BY <1>t, <3>1, <3>2
  <2>6. Rules!IsLexeme(word)
    <3> HIDE DEF word
    <3>1. CASE at = "ident"
      BY <3>1, <1>r, <2>3, <2>4 DEF Rules!IsLexeme, InWord
    <3>2. CASE at = "number"
      BY <3>2, <2>3, <2>4 DEF Rules!IsLexeme, InWord
    <3> QED
      BY <1>t, <3>1, <3>2
  <2>7. ASSUME NEW i \in (current + 1)..(Len(text) + 1), Rules!IsLexeme(Rules!Piece(start, i))
        PROVE  FALSE
    <3> DEFINE longer == Rules!Piece(start, i)
    <3>1. /\ longer \in Seq(STRING) /\ DOMAIN longer = 1..(i - start)
          /\ \A k \in start..(i - 1) : longer[k - start + 1] = text[k]
          /\ longer[1] = text[start]
      <4>1. i \in start..(Len(text) + 1) /\ start < i
        BY <1>t
      <4> QED
        BY <1>t, <4>1, PieceFacts
    <3>2. peek = text[current]
      <4>1. current # Len(text) + 1
        BY <1>t
      <4> QED
        BY <1>t, <4>1, TextFacts
    <3>3. longer[current - start + 1] = peek /\ current - start + 1 \in DOMAIN longer
      <4>1. current \in start..(i - 1) /\ current - start + 1 \in 1..(i - start)
        BY <1>t
      <4>2. longer[current - start + 1] = text[current]
        BY <3>1, <4>1
      <4> HIDE DEF longer
      <4> QED
        BY <3>1, <3>2, <4>1, <4>2
    <3>4. Rules!IsLexeme(longer)
      BY <2>7
    <3> HIDE DEF longer
    <3>5. \A j \in DOMAIN longer : longer[j] \in InWord
      <4>1. CASE at = "ident"
        <5>1. longer[1] \in Letter
          BY <1>r, <3>1, <4>1
        <5> QED
          BY <3>1, <3>4, <4>1, <5>1, FirstCharacter DEF InWord
      <4>2. CASE at = "number"
        <5>1. longer[1] \in Digit
          BY <1>r, <3>1, <4>2
        <5> QED
          BY <3>1, <3>4, <4>2, <5>1, FirstCharacter DEF InWord
      <4> QED
        BY <1>t, <4>1, <4>2
    <3> QED
      BY <1>2, <3>3, <3>5
  <2>8. ~Rules!Opens("/") /\ ~Rules!Opens("*")
    <3>1. text[start] # "/"
      <4>1. text[start] \in Letter \cup Digit /\ "/" \in Sign
        BY <1>t, <1>r DEF Sign, Single
      <4> QED
        BY <4>1, Kinds
    <3> QED
      BY <1>t, <3>1, OpensAt
  <2> HIDE DEF type
  <2>9. Rules!Emit(type, start, current) /\ Position' = current /\ at' # "done"
    <3>1. Rules!Emit(type, start, current + 0) /\ Position' = current + 0 /\ at' # "done"
      BY <2>1, <2>2, Emitted
    <3>2. current + 0 = current
      BY <1>t
    <3> QED
      BY <3>1, <3>2
  <2>10. Rules!Take(current)
    BY <1>t, <2>5, <2>6, <2>7, <2>8, <2>9 DEF Rules!Take, Rules!Ends
  <2>11. current \in (start + 1)..(Len(text) + 1)
    BY <1>t
  <2> QED
    BY <1>t, <2>10, <2>11 DEF Rules!Next, Rules!Ends
<1> QED
  BY <1>1, <1>2

\* Where a comment is closed, and how the kinds of comments exclude each other.
LEMMA ClosedAt ==
  ASSUME RInv, at = "block", NEW i \in Int
  PROVE  Rules!Closed(i) /\ i <= Len(text) + 1
           <=> /\ i - 2 \in (start + 2)..(Len(text) - 1)
               /\ text[i - 2] = "*" /\ text[i - 1] = "/"
<1>t. TypeOK /\ Len(text) \in Nat /\ start \in 1..(Len(text) + 1) /\ Position = start
  BY Places DEF Position
<1>1. Rules!Closed(i) <=> /\ i - 2 >= start + 2
                          /\ Rules!Piece(i - 2, i) = <<"*", "/">>
  BY <1>t DEF Rules!Closed
<1>2. ASSUME i - 2 \in (start + 2)..(Len(text) - 1)
      PROVE  Rules!Piece(i - 2, i) = <<"*", "/">> <=> text[i - 2] = "*" /\ text[i - 1] = "/"
  <2>1. i - 2 \in 1..(Len(text) - 1) /\ (i - 2) + 2 = i /\ (i - 2) + 1 = i - 1
    BY <1>t, <1>2
  <2>2. Rules!Piece(i - 2, (i - 2) + 2) = <<"*", "/">>
          <=> text[i - 2] = "*" /\ text[(i - 2) + 1] = "/"
    <3> DEFINE k == i - 2
    <3>1. k \in 1..(Len(text) - 1)
      BY <2>1
    <3> HIDE DEF k
    <3>2. Rules!Piece(k, k + 2) = <<"*", "/">> <=> text[k] = "*" /\ text[k + 1] = "/"
      BY <1>t, <3>1, TwoCharacters
    <3> QED
      BY <3>2 DEF k
  <2> QED
    BY <2>1, <2>2
<1>3. i - 2 >= start + 2 /\ i <= Len(text) + 1 <=> i - 2 \in (start + 2)..(Len(text) - 1)
  BY <1>t
<1> QED
  BY <1>1, <1>2, <1>3

LEMMA LineCommentStep ==
  ASSUME RInv, ScanLineComment
  PROVE  Rules!Next \/ UNCHANGED Rules!vars
<1>t. /\ TypeOK /\ Len(text) \in Nat
      /\ start \in 1..(Len(text) + 1) /\ current \in (start + 2)..(Len(text) + 1)
      /\ Position = start /\ at = "line" /\ at # "done"
      /\ UNCHANGED <<text, start, tokens>>
      /\ text[start] = "/" /\ text[start + 1] = "/"
      /\ \A k \in start..(current - 1) : text[k] # "\n"
  BY Places DEF ScanLineComment, Position, RInv, CommentRead, NotYetOver
<1>1. CASE peek # "\n" /\ ~isEOL
  <2>1. at' = at /\ Position' = Position
    BY <1>1, <1>t DEF ScanLineComment, Position
  <2> QED
    BY <1>t, <2>1, Unseen
<1>2. CASE ~(peek # "\n" /\ ~isEOL)
  <2>1. at' = "blanks" /\ Position' = current /\ UNCHANGED Pieces
    BY <1>2, <1>t DEF ScanLineComment, Position, Pieces
  <2>2. Rules!Opens("/")
    BY <1>t, OpensAt
  <2>3. current = Len(text) + 1 \/ text[current] = "\n"
    BY <1>2, <1>t, TextFacts
  <2>4. Rules!LineComment(current)
    BY <1>t, <2>2, <2>3 DEF Rules!LineComment, Rules!Ends
  <2>5. Rules!Skip(current)
    BY <1>t, <2>1, <2>4 DEF Rules!Skip
  <2>6. current \in (start + 1)..(Len(text) + 1)
    BY <1>t
  <2> QED
    BY <1>t, <2>5, <2>6 DEF Rules!Next, Rules!Ends
<1> QED
  BY <1>1, <1>2

LEMMA BlockCommentStep ==
  ASSUME RInv, ScanBlockComment
  PROVE  Rules!Next \/ UNCHANGED Rules!vars
<1>t. /\ TypeOK /\ Len(text) \in Nat
      /\ start \in 1..(Len(text) + 1) /\ current \in (start + 2)..(Len(text) + 1)
      /\ Position = start /\ at = "block" /\ at # "done"
      /\ UNCHANGED <<text, start>>
      /\ text[start] = "/" /\ text[start + 1] = "*"
      /\ \A k \in (start + 2)..(current - 1) :
           ~(text[k] = "*" /\ k + 1 <= Len(text) /\ text[k + 1] = "/")
  BY Places DEF ScanBlockComment, Position, RInv, CommentRead, NotYetOver
<1>o. Rules!Opens("*") /\ ~Rules!Opens("/")
  BY <1>t, OpensAt
<1>n. ASSUME NEW i \in Int, i <= current + 1, i <= Len(text) + 1, Rules!Closed(i)
      PROVE  FALSE
  <2>1. /\ i - 2 \in (start + 2)..(Len(text) - 1)
        /\ text[i - 2] = "*" /\ text[i - 1] = "/"
    BY <1>t, <1>n, ClosedAt
  <2>2. i - 2 \in (start + 2)..(current - 1) /\ (i - 2) + 1 = i - 1 /\ i - 1 <= Len(text)
    BY <1>t, <1>n, <2>1
  <2> QED
    BY <1>t, <2>1, <2>2
<1>1. CASE isEOL
  <2>1. makeError(0) /\ "error" \in Type /\ current = Len(text) + 1
    BY <1>1, <1>t, OwnTypes, TextFacts DEF ScanBlockComment
  <2>2. Rules!Emit("error", 0, 0) /\ Position' = Len(text) + 1 /\ at' # "done"
    <3>1. Rules!Emit("error", 0, 0) /\ Position' = current + 0 /\ at' # "done"
      BY <2>1, Emitted
    <3>2. current + 0 = Len(text) + 1
      BY <1>t, <2>1
    <3> QED
      BY <3>1, <3>2
  <2>3. \A i \in (start + 1)..(Len(text) + 1) : ~Rules!BlockComment(i) /\ ~Rules!LineComment(i)
    <3>1. \A i \in (start + 1)..(Len(text) + 1) : ~Rules!Closed(i)
      BY <1>t, <1>n, <2>1
    <3> QED
      BY <1>o, <3>1 DEF Rules!BlockComment, Rules!LineComment
  <2>4. text[start] \notin Rules!Blank
    BY <1>t, SameTokens DEF Blank
  <2>5. Rules!Refuse(Len(text) + 1)
    BY <1>t, <1>o, <2>2, <2>3, <2>4 DEF Rules!Refuse, Rules!Ends
  <2>6. Len(text) + 1 \in (start + 1)..(Len(text) + 1)
    BY <1>t
  <2> QED
    BY <1>t, <2>5, <2>6 DEF Rules!Next, Rules!Ends
<1>2. CASE ~isEOL /\ peek = "*" /\ peekNext = "/"
  <2>1. at' = "blanks" /\ Position' = current + 2 /\ UNCHANGED Pieces
    BY <1>2, <1>t DEF ScanBlockComment, Position, Pieces, advance
  <2>2. current + 1 \in 1..Len(text) /\ text[current] = "*" /\ text[current + 1] = "/"
    <3>1. peekNext # Nul
      BY <1>2 DEF Nul
    <3> QED
      BY <1>2, <1>t, <3>1, TextFacts
  <2>3. Rules!Closed(current + 2)
    <3>1. current + 2 \in Int /\ (current + 2) - 2 = current /\ (current + 2) - 1 = current + 1
          /\ current \in (start + 2)..(Len(text) - 1)
      BY <1>t, <2>2
    <3>2. /\ (current + 2) - 2 \in (start + 2)..(Len(text) - 1)
          /\ text[(current + 2) - 2] = "*" /\ text[(current + 2) - 1] = "/"
      BY <2>2, <3>1
    <3> QED
      BY <1>t, <3>1, <3>2, ClosedAt
  <2>4. \A i \in start..((current + 2) - 1) : ~Rules!Closed(i)
    <3>1. ASSUME NEW i \in start..((current + 2) - 1) PROVE ~Rules!Closed(i)
      <4>1. i \in Int /\ i <= current + 1 /\ i <= Len(text) + 1
        BY <1>t, <2>2
      <4> QED
        BY <1>n, <4>1
    <3> QED
      BY <3>1
  <2>5. Rules!BlockComment(current + 2)
    BY <1>t, <1>o, <2>3, <2>4 DEF Rules!BlockComment
  <2>6. Rules!Skip(current + 2)
    BY <1>t, <2>1, <2>5 DEF Rules!Skip
  <2>7. current + 2 \in (start + 1)..(Len(text) + 1)
    BY <1>t, <2>2
  <2> QED
    BY <1>t, <2>6, <2>7 DEF Rules!Next, Rules!Ends
<1>3. CASE ~isEOL /\ ~(peek = "*" /\ peekNext = "/")
  <2>1. at' = at /\ Position' = Position /\ UNCHANGED tokens
    BY <1>3, <1>t DEF ScanBlockComment, Position
  <2> QED
    BY <1>t, <2>1, Unseen
<1> QED
  BY <1>1, <1>2, <1>3

\* Blanks are skipped, and the end of the text is one token or two.
LEMMA BlankStep ==
  ASSUME RInv, SkipWhitespace
  PROVE  Rules!Next
<1>t. /\ TypeOK /\ Len(text) \in Nat /\ Position = current /\ at # "done" /\ at' # "done"
      /\ UNCHANGED <<text, tokens, Pieces>> /\ Position' = current + 1
      /\ peek \in Blank
  BY Places DEF SkipWhitespace, Position, Pieces
<1>1. current \in 1..Len(text) /\ text[current] \in Rules!Blank
  <2>1. ~isEOL
    BY <1>t, Kinds DEF isEOL
  <2> QED
    BY <1>t, <2>1, TextFacts, SameTokens
<1>2. Rules!Skip(current + 1)
  BY <1>t, <1>1 DEF Rules!Skip
<1>3. current + 1 \in (current + 1)..(Len(text) + 1)
  BY <1>t, <1>1
<1> QED
  BY <1>t, <1>2, <1>3 DEF Rules!Next, Rules!Ends

LEMMA EndStep ==
  ASSUME RInv, Tokenize \/ BeginToken
  PROVE  Rules!Next \/ UNCHANGED Rules!vars
<1>t. /\ TypeOK /\ Len(text) \in Nat /\ current \in 1..(Len(text) + 1) /\ Position = current
      /\ at # "done" /\ UNCHANGED <<text, current>> /\ Position' = current
  <2>1. Position = current /\ Position' = current /\ UNCHANGED <<text, current>> /\ at # "done"
    BY DEF Tokenize, BeginToken, Put, Position
  <2> QED
    BY <2>1, Places
<1>1. CASE ~isEOL
  <2>1. UNCHANGED tokens /\ at' # "done"
    BY <1>1 DEF Tokenize, BeginToken
  <2> QED
    BY <1>t, <2>1, Unseen
<1>2. CASE isEOL /\ Tokenize
  <2> DEFINE t == [type |-> "eof", first |-> 0, after |-> 0, line |-> -1, col |-> -1]
  <2>1. t \in Token /\ tokens' = Append(tokens, t) /\ at' = "done"
    BY <1>2, OwnTypes DEF Token, Tokenize
  <2>2. Pieces' = Append(Pieces, [type |-> t.type, first |-> t.first, after |-> t.after])
    BY <2>1, PiecesAppend
  <2>3. Rules!Emit("eof", 0, 0)
    BY <2>2 DEF Rules!Emit
  <2>4. current = Len(text) + 1
    BY <1>t, <1>2, TextFacts
  <2> QED
    BY <1>t, <2>1, <2>3, <2>4 DEF Rules!Next, Rules!End, Rules!Ends
<1>3. CASE isEOL /\ BeginToken
  <2> DEFINE t == [type |-> "eof", first |-> current, after |-> current,
                   line |-> line, col |-> col]
  <2>1. t \in Token /\ tokens' = Append(tokens, t) /\ at' = "tokenize" /\ at = "blanks"
    BY <1>3, <1>t, InText, OwnTypes DEF Token, BeginToken, Put
  <2>2. Pieces' = Append(Pieces, [type |-> t.type, first |-> t.first, after |-> t.after])
    BY <2>1, PiecesAppend
  <2>3. Rules!Emit("eof", current, current)
    BY <2>2 DEF Rules!Emit
  <2>4. current = Len(text) + 1
    BY <1>t, <1>3, TextFacts
  <2>5. current > 1 /\ (tokens # <<>> => tokens[Len(tokens)].after < current)
    BY <1>3, <2>1 DEF RInv, Begun
  <2>6. tokens # <<>> => tokens[Len(tokens)].type # "eof"
    BY <1>3, <2>1, Places DEF EInv, EofInv, IsEof
  <2>7. Pieces # <<>> => /\ Pieces[Len(Pieces)].type # "eof"
                         /\ Pieces[Len(Pieces)].after # current
    <3>1. tokens # <<>> => tokens[Len(tokens)].after \in Nat
      <4>1. tokens # <<>> => tokens[Len(tokens)] \in Token
        BY Places
      <4> QED
        BY <4>1 DEF Token
    <3>2. tokens # <<>> => tokens[Len(tokens)].after # current
      BY <1>t, <2>5, <3>1
    <3> QED
      BY <2>6, <3>2, PiecesFacts
  <2> QED
    BY <1>t, <2>1, <2>3, <2>4, <2>5, <2>7 DEF Rules!Next, Rules!End, Rules!Ends
<1> QED
  BY <1>1, <1>2, <1>3

\* A comment that opens and a word that begins are of no rule yet.
LEMMA BeginStep ==
  ASSUME RInv, BeginComment \/ BeginWord
  PROVE  UNCHANGED Rules!vars
<1>1. /\ UNCHANGED <<text, tokens>> /\ Position' = start /\ at # "done" /\ at' # "done"
      /\ at = "lexeme"
  BY DEF BeginComment, BeginWord, Position
<1>2. Position = start
  BY <1>1 DEF Position
<1> QED
  BY <1>1, <1>2, Unseen

LEMMA RuleNext == RInv /\ [Next]_vars => [Rules!Next]_Rules!vars
<1> SUFFICES ASSUME RInv, [Next]_vars PROVE Rules!Next \/ UNCHANGED Rules!vars
  OBVIOUS
<1>1. CASE Tokenize \/ BeginToken
  BY <1>1, EndStep
<1>2. CASE SkipWhitespace
  BY <1>2, BlankStep
<1>3. CASE ScanSymbol
  BY <1>3, SymbolStep
<1>4. CASE BeginComment \/ BeginWord
  BY <1>4, BeginStep
<1>5. CASE UnknownCharacter
  BY <1>5, UnknownStep
<1>6. CASE ScanWord
  BY <1>6, WordStep
<1>7. CASE ScanLineComment
  BY <1>7, LineCommentStep
<1>8. CASE ScanBlockComment
  BY <1>8, BlockCommentStep
<1>9. CASE UNCHANGED vars
  BY <1>9 DEF vars, Rules!vars, Position, Pieces
<1> QED
  BY <1>1, <1>2, <1>3, <1>4, <1>5, <1>6, <1>7, <1>8, <1>9 DEF Next

LEMMA RuleInit == Init => Rules!Init
<1> SUFFICES ASSUME Init PROVE Rules!Init
  OBVIOUS
<1>1. tokens = <<>> /\ Position = 1 /\ at # "done"
  BY DEF Init, Position
<1>2. Pieces = <<>>
  BY <1>1 DEF Pieces
<1> QED
  BY <1>1, <1>2 DEF Rules!Init

\* The scanner implements the lexical rules of the language, whatever the text: what
\* it takes is the longest lexeme at hand, of the type the rules give it, comments
\* and blanks are passed over, what is refused begins no lexeme, and nothing is lost.
THEOREM Refinement == Spec => FollowsRules
BY ReadInit, ReadNext, RuleInit, RuleNext, PTL DEF Spec, FollowsRules, Rules!Spec

-----------------------------------------------------------------------------
(***************************************************************************)
(* Where diagnostics point to.                                             *)
(***************************************************************************)

\* The column that is due at a place, on a line that is the first or not: exact, but
\* behind the end of a comment on that line.
Due(i, c, l) ==
  \/ c = i - LineStart(i) - (IF l = 1 THEN 2 ELSE 0)
  \/ \E k \in (LineStart(i) + 2)..(i - 1) : <<text[k - 1], text[k]>> = <<"*", "/">>
PointsTo(t) ==
  t.first # 0 => t.line = 1 + Cardinality(Newlines(t.first)) /\ Due(t.first, t.col, t.line)

\* Lines are counted everywhere; columns are right but inside a comment of several
\* lines and behind one without an end.
LineInv ==
  line = 1 + Cardinality(Newlines(current)) /\ LineStart(current) \in 0..(current - 1)
ColumnInv ==
  /\ at \in {"blanks", "lexeme", "line"} \/ (at = "tokenize" /\ ~isEOL) => Due(current, col, line)
  /\ at \in {"ident", "number"} => Due(start, col - (current - start), line)

PInv == RInv /\ LineInv /\ ColumnInv /\ PointsToToken

LEMMA PointsToIs == PointsToToken <=> \A i \in DOMAIN tokens : PointsTo(tokens[i])
BY DEF PointsToToken, PointsTo, Due

\* What a newline does to the lines.
LEMMA NewLine ==
  ASSUME TypeOK, NEW i \in 1..Len(text), text[i] = "\n"
  PROVE  /\ Cardinality(Newlines(i + 1)) = Cardinality(Newlines(i)) + 1
         /\ Cardinality(Newlines(i)) \in Nat
         /\ LineStart(i + 1) = i
<1>1. Len(text) \in Nat
  BY TextFacts
<1>2. IsFiniteSet(Newlines(i))
  <2>1. IsFiniteSet(1..(i - 1)) /\ Newlines(i) \in SUBSET (1..(i - 1))
    <3>1. 1 \in Int /\ i - 1 \in Int
      BY <1>1
    <3>2. IsFiniteSet(1..(i - 1))
      BY <3>1, FS_Interval
    <3> QED
      BY <1>1, <3>2 DEF Newlines
  <2> QED
    BY <2>1, FS_Subset
<1>3. Newlines(i + 1) = Newlines(i) \cup {i} /\ i \notin Newlines(i)
  BY <1>1 DEF Newlines
<1>4. LineStart(i + 1) = i
  <2>1. \A n \in Newlines(i + 1) : (\A m \in Newlines(i + 1) : m <= n) <=> n = i
    <3>1. \A n \in Newlines(i + 1) : n \in Int /\ n <= i
      BY <1>1 DEF Newlines
    <3> QED
      BY <1>1, <1>3, <3>1
  <2>2. i \in Newlines(i + 1) /\ Newlines(i + 1) # {}
    BY <1>3
  <2> QED
    BY <2>1, <2>2 DEF LineStart
<1> QED
  BY <1>2, <1>3, <1>4, FS_AddElement, FS_CardinalityType

\* Without a newline in between, two places are on the same line.
LEMMA SameLine ==
  ASSUME TypeOK, NEW i \in 1..(Len(text) + 1), NEW j \in i..(Len(text) + 1),
         \A k \in i..(j - 1) : text[k] # "\n"
  PROVE  Newlines(j) = Newlines(i) /\ LineStart(j) = LineStart(i)
<1>1. Len(text) \in Nat
  BY TextFacts
<1>2. Newlines(j) = Newlines(i)
  BY <1>1 DEF Newlines
<1> QED
  BY <1>2 DEF LineStart

\* On the same line, a column that is due stays due.
LEMMA DueOnward ==
  ASSUME TypeOK, NEW i \in 1..(Len(text) + 1), NEW j \in i..(Len(text) + 1),
         \A k \in i..(j - 1) : text[k] # "\n",
         NEW c \in Int, NEW l, LineStart(i) \in Nat, Due(i, c, l)
  PROVE  Due(j, c + (j - i), l)
<1>1. Len(text) \in Nat /\ LineStart(i) \in Nat
  BY TextFacts
<1>2. LineStart(j) = LineStart(i)
  BY SameLine
<1>3. CASE c = i - LineStart(i) - (IF l = 1 THEN 2 ELSE 0)
  <2> DEFINE d == IF l = 1 THEN 2 ELSE 0
  <2>1. d \in Int
    OBVIOUS
  <2> HIDE DEF d
  <2>2. c = i - LineStart(i) - d
    BY <1>3 DEF d
  <2>3. c + (j - i) = j - LineStart(i) - d
    BY <1>1, <2>1, <2>2
  <2> QED
    BY <1>2, <2>3 DEF Due, d
<1>4. CASE \E k \in (LineStart(i) + 2)..(i - 1) : <<text[k - 1], text[k]>> = <<"*", "/">>
  <2>1. PICK k \in (LineStart(i) + 2)..(i - 1) : <<text[k - 1], text[k]>> = <<"*", "/">>
    BY <1>4
  <2>2. k \in (LineStart(j) + 2)..(j - 1)
    BY <1>1, <1>2, <2>1
  <2> QED
    BY <2>1, <2>2 DEF Due
<1> QED
  BY <1>3, <1>4 DEF Due

\* Advancing over n characters of one line keeps the line, and the column that is due.
LEMMA SameLineStep ==
  ASSUME PInv, NEW n \in 0..2, advance(n), UNCHANGED <<text, line>>,
         \A k \in current..(current + n - 1) : text[k] # "\n",
         current + n <= Len(text) + 1
  PROVE  /\ LineInv'
         /\ Due(current, col, line) => Due(current, col, line)'
<1>t. /\ TypeOK /\ Len(text) \in Nat /\ current \in 1..(Len(text) + 1)
      /\ current' = current + n /\ col' = col + n /\ col \in Int
      /\ current + n \in current..(Len(text) + 1)
  BY SMTT(30), Places, InText DEF PInv, advance
<1>i. /\ line = 1 + Cardinality(Newlines(current)) /\ LineStart(current) \in 0..(current - 1)
  BY DEF PInv, LineInv
<1>1. \A i : Newlines(i)' = Newlines(i) /\ LineStart(i)' = LineStart(i)
  BY DEF Newlines, LineStart
<1>2. Newlines(current') = Newlines(current) /\ LineStart(current') = LineStart(current)
  BY <1>t, SameLine
<1>3. LineInv'
  <2>1. Newlines(current)' = Newlines(current) /\ LineStart(current)' = LineStart(current)
    BY <1>2 DEF Newlines, LineStart
  <2> QED
    BY <1>t, <1>i, <2>1 DEF LineInv
<1>4. Due(current, col, line) => Due(current', col', line)
  <2>1. col + (current' - current) = col'
    BY <1>t
  <2> QED
    BY <1>t, <1>i, <2>1, DueOnward
<1>5. Due(current', col', line) => Due(current, col, line)'
  BY DEF Due, Newlines, LineStart
<1> QED
  BY <1>3, <1>4, <1>5

\* Going over a newline.
LEMMA NewLineStep ==
  ASSUME PInv, current \in 1..Len(text), text[current] = "\n",
         current' = current + 1, line' = line + 1, UNCHANGED text
  PROVE  LineInv' /\ (col' = 1 => Due(current, col, line)')
<1>t. /\ TypeOK /\ Len(text) \in Nat /\ line \in 1..(Len(text) + 1)
  BY Places DEF PInv, TypeOK
<1>1. /\ Cardinality(Newlines(current + 1)) = Cardinality(Newlines(current)) + 1
      /\ Cardinality(Newlines(current)) \in Nat
      /\ LineStart(current + 1) = current
  BY <1>t, NewLine
<1>2. Newlines(current)' = Newlines(current + 1) /\ LineStart(current)' = LineStart(current + 1)
  BY DEF Newlines, LineStart
<1>3. line = 1 + Cardinality(Newlines(current))
  BY DEF PInv, LineInv
<1>4. LineInv'
  BY <1>1, <1>2, <1>3 DEF LineInv
<1>5. line' # 1 /\ 1 = (current + 1) - current - 0
  BY <1>t
<1>6. col' = 1 => col' = current' - LineStart(current)' - (IF line' = 1 THEN 2 ELSE 0)
  BY <1>1, <1>2, <1>5
<1>7. col' = 1 => Due(current, col, line)'
  BY <1>6 DEF Due
<1> QED
  BY <1>4, <1>7

LEMMA Unmoved ==
  ASSUME PInv, UNCHANGED <<text, current, line, col>>
  PROVE  LineInv' /\ (Due(current, col, line) => Due(current, col, line)')
BY DEF PInv, LineInv, Due, Newlines, LineStart

\* The tokens that are there point where they did; a new one has to be shown.
LEMMA PointsKept ==
  ASSUME PInv, UNCHANGED <<text, tokens>>
  PROVE  PointsToToken'
<1>1. \A i : Newlines(i)' = Newlines(i) /\ LineStart(i)' = LineStart(i)
  BY DEF Newlines, LineStart
<1> QED
  BY <1>1 DEF PInv, PointsToToken

LEMMA PointsAppend ==
  ASSUME PInv, UNCHANGED text, NEW t \in Token, tokens' = Append(tokens, t), PointsTo(t)
  PROVE  PointsToToken'
<1>1. tokens \in Seq(Token) /\ Len(tokens) \in Nat
  BY Places DEF PInv
<1>2. /\ DOMAIN tokens' = 1..(Len(tokens) + 1) /\ tokens'[Len(tokens) + 1] = t
      /\ \A i \in 1..Len(tokens) : tokens'[i] = tokens[i] /\ i \in DOMAIN tokens
  BY <1>1
<1>3. \A u : PointsTo(u)' <=> PointsTo(u)
  BY DEF PointsTo, Due, Newlines, LineStart
<1>4. \A i \in DOMAIN tokens : PointsTo(tokens[i])
  BY PointsToIs DEF PInv
<1>5. ASSUME NEW i \in DOMAIN tokens' PROVE PointsTo(tokens'[i])
  <2>1. i = Len(tokens) + 1 \/ i \in 1..Len(tokens)
    BY <1>1, <1>2
  <2> QED
    BY <1>2, <1>4, <2>1
<1>6. PointsToToken' <=> \A i \in DOMAIN tokens' : PointsTo(tokens[i])'
  BY DEF PointsToToken, PointsTo, Due
<1>7. \A i \in DOMAIN tokens' : PointsTo(tokens[i])'
  <2>1. \A i : Newlines(i)' = Newlines(i) /\ LineStart(i)' = LineStart(i)
    BY DEF Newlines, LineStart
  <2> QED
    BY <1>5, <2>1 DEF PointsTo, Due
<1> QED
  BY <1>6, <1>7

\* A token that the scanner makes points to where it begins, an error to nothing.
LEMMA PointsMade ==
  ASSUME PInv, UNCHANGED text, NEW type \in Type, NEW n \in 0..2,
         \/ /\ makeToken(type, n)
            /\ line = 1 + Cardinality(Newlines(start))
            /\ Due(start, col - (current - start), line)
         \/ makeError(n)
  PROVE  PointsToToken'
<1>1. /\ start \in Nat /\ current \in Nat /\ current + n \in Nat /\ line \in Nat
      /\ col - (current - start) \in Int /\ col + n \in Int
  BY SMTT(30), Places, InText DEF PInv
<1>2. CASE /\ makeToken(type, n)
           /\ line = 1 + Cardinality(Newlines(start))
           /\ Due(start, col - (current - start), line)
  <2> DEFINE t == [type |-> type, first |-> start, after |-> current + n,
                   line |-> line, col |-> col - (current - start)]
  <2>1. t \in Token /\ tokens' = Append(tokens, t)
    BY <1>1, <1>2 DEF Token, makeToken, Put
  <2>2. PointsTo(t)
    BY <1>2 DEF PointsTo
  <2> QED
    BY <2>1, <2>2, PointsAppend
<1>3. CASE makeError(n)
  <2> DEFINE t == [type |-> "error", first |-> 0, after |-> 0, line |-> line, col |-> col + n]
  <2>1. t \in Token /\ tokens' = Append(tokens, t)
    BY <1>1, <1>3, OwnTypes DEF Token, makeError, Put
  <2>2. PointsTo(t)
    BY DEF PointsTo
  <2> QED
    BY <2>1, <2>2, PointsAppend
<1> QED
  BY <1>2, <1>3

LEMMA PointsNext == PInv /\ [Next]_vars => PInv'
<1> SUFFICES ASSUME PInv, [Next]_vars
             PROVE  LineInv' /\ ColumnInv' /\ PointsToToken'
  BY ReadNext DEF PInv
<1>t. /\ RInv /\ TypeOK /\ Len(text) \in Nat /\ start \in 1..(Len(text) + 1)
      /\ current \in start..(Len(text) + 1) /\ col \in Int
      /\ at = "lexeme" => start = current /\ ~isEOL
  BY Places, InText DEF PInv
<1>c. /\ ~isEOL => current \in 1..Len(text) /\ peek = text[current]
      /\ isEOL <=> current = Len(text) + 1
      /\ peekNext # Nul => current + 1 \in 1..Len(text) /\ peekNext = text[current + 1]
  BY <1>t, TextFacts
<1>l. LineInv /\ ColumnInv /\ PointsToToken
  BY DEF PInv
<1>z. /\ current..(current + 0 - 1) = {} /\ current + 1 - 1 = current
      /\ \A k \in current..(current + 2 - 1) : (k = current \/ k = current + 1)
      /\ \A k \in current..(current + 1 - 1) : k = current
  BY <1>t
<1>1. CASE Tokenize
  <2>1. UNCHANGED <<text, current, line, col>>
    BY <1>1 DEF Tokenize
  <2>2. CASE isEOL
    <3> DEFINE t == [type |-> "eof", first |-> 0, after |-> 0, line |-> -1, col |-> -1]
    <3>1. t \in Token /\ tokens' = Append(tokens, t) /\ at' = "done"
      BY <1>1, <2>2, OwnTypes DEF Token, Tokenize
    <3>2. PointsTo(t)
      BY DEF PointsTo
    <3>3. PointsToToken'
      BY <2>1, <3>1, <3>2, PointsAppend
    <3> QED
      BY <2>1, <3>1, <3>3, Unmoved DEF ColumnInv
  <2>3. CASE ~isEOL
    <3>1. at = "tokenize" /\ at' = "blanks" /\ UNCHANGED tokens
      BY <1>1, <2>3 DEF Tokenize
    <3>2. LineInv' /\ Due(current, col, line)'
      BY <1>l, <2>1, <2>3, <3>1, Unmoved DEF ColumnInv
    <3> QED
      BY <2>1, <3>1, <3>2, PointsKept DEF ColumnInv
  <2> QED
    BY <2>2, <2>3
<1>2. CASE SkipWhitespace
  <2>1. /\ at = "blanks" /\ at' = "blanks" /\ UNCHANGED <<text, tokens>> /\ current' = current + 1
        /\ Due(current, col, line)
    BY <1>2, <1>l DEF SkipWhitespace, ColumnInv
  <2>2. current \in 1..Len(text) /\ peek = text[current]
    BY <1>2, <1>c, Kinds DEF SkipWhitespace, isEOL
  <2>3. CASE peek = "\n"
    <3>1. line' = line + 1 /\ col' = 1
      BY <1>2, <2>3 DEF SkipWhitespace
    <3>2. LineInv' /\ Due(current, col, line)'
      BY <2>1, <2>2, <2>3, <3>1, NewLineStep
    <3> QED
      BY <2>1, <3>2, PointsKept DEF ColumnInv
  <2>4. CASE peek # "\n"
    <3>1. advance(1) /\ UNCHANGED line
      BY <1>2, <2>4 DEF SkipWhitespace, advance
    <3>2. LineInv' /\ Due(current, col, line)'
      BY <1>t, <1>z, <2>1, <2>2, <2>4, <3>1, SameLineStep
    <3> QED
      BY <2>1, <3>2, PointsKept DEF ColumnInv
  <2> QED
    BY <2>3, <2>4
<1>3. CASE BeginToken
  <2>1. UNCHANGED <<text, current, line, col>> /\ Due(current, col, line)
    BY <1>3, <1>l DEF BeginToken, ColumnInv
  <2>2. LineInv' /\ Due(current, col, line)'
    BY <2>1, Unmoved
  <2>3. CASE isEOL
    <3> DEFINE t == [type |-> "eof", first |-> current, after |-> current,
                     line |-> line, col |-> col]
    <3>1. t \in Token /\ tokens' = Append(tokens, t) /\ at' = "tokenize"
      BY <1>3, <1>t, <2>3, InText, OwnTypes DEF Token, BeginToken, Put
    <3>2. PointsTo(t)
      BY <1>l, <2>1 DEF PointsTo, LineInv
    <3>3. PointsToToken'
      BY <2>1, <3>1, <3>2, PointsAppend
    <3> QED
      BY <2>2, <3>1, <3>3 DEF ColumnInv
  <2>4. CASE ~isEOL
    <3>1. at' = "lexeme" /\ UNCHANGED tokens
      BY <1>3, <2>4 DEF BeginToken
    <3> QED
      BY <2>1, <2>2, <3>1, PointsKept DEF ColumnInv
  <2> QED
    BY <2>3, <2>4
<1>4. CASE ScanSymbol
  <2>1. PICK type \in Type, n \in 1..2 :
          /\ makeToken(type, n) \/ makeError(n)
          /\ n = 2 => peekNext # Nul /\ PairType(Pair) # "error"
    BY <1>4, OwnTypes, SymbolType DEF ScanSymbol
  <2>2. /\ advance(n) /\ at' = "tokenize" /\ UNCHANGED <<text, line>> /\ start = current
        /\ current \in 1..Len(text) /\ peek = text[current]
        /\ Due(current, col, line)
    BY <1>4, <1>t, <1>c, <1>l, <2>1
       DEF ScanSymbol, makeToken, makeError, Put, ColumnInv
  <2>3. text[current] # "\n" /\ (n = 2 => text[current + 1] # "\n")
    <3>1. peek # "\n"
      BY <1>4 DEF ScanSymbol, Single
    <3>2. n = 2 => peekNext # "\n"
      <4>1. ASSUME PairType(Pair) # "error" PROVE peekNext # "\n"
        <5>1. Pair \in SUBSET (Pair \cup keywords)
          OBVIOUS
        <5>2. PICK entry \in Pair : entry[2] = <<peek, peekNext>>
          BY <4>1, <5>1, TableType DEF PairType
        <5> QED
          BY <5>2 DEF Pair
      <4> QED
        BY <2>1, <4>1
    <3> QED
      BY <1>c, <2>1, <2>2, <3>1, <3>2
  <2>4. LineInv' /\ Due(current, col, line)'
    <3>1. current + n <= Len(text) + 1
      BY <1>t, <1>c, <2>1, <2>2
    <3>2. \A k \in current..(current + n - 1) : text[k] # "\n"
      <4>1. CASE n = 1
        <5>1. \A k \in current..(current + n - 1) : k = current
          BY <1>t, <4>1
        <5> QED
          BY <2>3, <5>1
      <4>2. CASE n = 2
        BY <1>z, <2>3, <4>2
      <4> QED
        BY <4>1, <4>2
    <3> QED
      BY <2>2, <3>1, <3>2, SameLineStep
  <2>5. PointsToToken'
    <3>1. col - (current - start) = col
      BY <1>t, <2>2
    <3>2. line = 1 + Cardinality(Newlines(start)) /\ Due(start, col - (current - start), line)
      BY <1>l, <2>2, <3>1 DEF LineInv
    <3> QED
      BY <2>1, <2>2, <3>2, PointsMade
  <2> QED
    BY <2>2, <2>4, <2>5 DEF ColumnInv
<1>5. CASE BeginComment
  <2>1. /\ advance(2) /\ at' \in {"line", "block"} /\ UNCHANGED <<text, line, tokens>>
        /\ Due(current, col, line) /\ peek = "/" /\ peekNext \in {"/", "*"}
    BY <1>5, <1>l DEF BeginComment, ColumnInv
  <2>2. peekNext # Nul /\ ~isEOL
    BY <1>5, <1>t DEF BeginComment, Nul
  <2>3. current + 2 <= Len(text) + 1 /\ \A k \in current..(current + 2 - 1) : text[k] # "\n"
    BY <1>t, <1>c, <1>z, <2>1, <2>2
  <2>4. LineInv' /\ Due(current, col, line)'
    BY <2>1, <2>3, SameLineStep
  <2> QED
    BY <2>1, <2>4, PointsKept DEF ColumnInv
<1>6. CASE BeginWord
  <2>1. /\ advance(1) /\ at' \in {"ident", "number"} /\ UNCHANGED <<text, line, tokens, start>>
        /\ Due(current, col, line) /\ start = current /\ ~isEOL
        /\ peek \in Letter \cup Digit
    BY <1>6, <1>t, <1>l DEF BeginWord, ColumnInv
  <2>2. peek # "\n"
    BY <2>1, Kinds DEF Blank
  <2>3. LineInv'
    BY <1>t, <1>c, <1>z, <2>1, <2>2, SameLineStep
  <2>4. Due(start, col - (current - start), line)'
    <3>1. col' - (current' - start') = col
      BY <1>t, <2>1 DEF advance
    <3>2. Due(start', col, line')
      BY <2>1
    <3>3. \A i : Newlines(i)' = Newlines(i) /\ LineStart(i)' = LineStart(i)
      BY <2>1 DEF Newlines, LineStart
    <3> QED
      BY <2>1, <3>1, <3>2, <3>3 DEF Due
  <2> QED
    BY <2>1, <2>3, <2>4, PointsKept DEF ColumnInv
<1>7. CASE UnknownCharacter
  <2>1. /\ makeError(1) /\ advance(1) /\ at' = "tokenize" /\ UNCHANGED <<text, line>>
        /\ Due(current, col, line) /\ ~isEOL /\ peek \notin Blank /\ "error" \in Type
    BY <1>7, <1>t, <1>l, OwnTypes DEF UnknownCharacter, makeError, Put, ColumnInv, RInv, Begun
  <2>2. peek # "\n"
    BY <2>1 DEF Blank
  <2>3. LineInv' /\ Due(current, col, line)'
    BY <1>t, <1>c, <1>z, <2>1, <2>2, SameLineStep
  <2>4. PointsToToken'
    BY <2>1, PointsMade
  <2> QED
    BY <2>1, <2>3, <2>4 DEF ColumnInv
<1>8. CASE ScanWord
  <2>1. /\ at \in {"ident", "number"} /\ UNCHANGED <<text, start, line>>
        /\ start < current /\ \A k \in start..(current - 1) : text[k] \in InWord
        /\ Due(start, col - (current - start), line)
    BY <1>8, <1>t, <1>l DEF ScanWord, RInv, WordRead, ColumnInv
  <2>n. "\n" \notin InWord /\ Nul \notin InWord
    BY Kinds DEF InWord, Blank
  <2>2. CASE peek \in InWord
    <3>1. advance(1) /\ UNCHANGED <<tokens, at>> /\ ~isEOL /\ peek # "\n"
      BY <1>8, <2>2, <2>n DEF ScanWord, isEOL
    <3>2. LineInv'
      BY <1>t, <1>c, <1>z, <2>1, <3>1, SameLineStep
    <3>3. Due(start, col - (current - start), line)'
      <4>1. col' - (current' - start') = col - (current - start)
        BY <1>t, <2>1, <3>1 DEF advance
      <4>2. Due(start', col' - (current' - start'), line')
        BY <2>1, <4>1
      <4>3. \A i : Newlines(i)' = Newlines(i) /\ LineStart(i)' = LineStart(i)
        BY <2>1 DEF Newlines, LineStart
      <4> QED
        BY <2>1, <4>2, <4>3 DEF Due
    <3> QED
      BY <2>1, <3>1, <3>2, <3>3, PointsKept DEF ColumnInv
  <2>3. CASE peek \notin InWord
    <3>1. PICK type \in Type : makeToken(type, 0)
      BY <1>8, <2>3, WordType, OwnTypes DEF ScanWord
    <3>2. at' = "tokenize" /\ UNCHANGED <<text, current, line, col>>
      BY <1>t, <2>1, <3>1 DEF makeToken, advance, Put
    <3>3. Newlines(current) = Newlines(start) /\ LineStart(current) = LineStart(start)
      BY <1>t, <2>1, <2>n, SameLine
    <3>4. PointsToToken'
      <4>1. line = 1 + Cardinality(Newlines(start))
        BY <1>l, <3>3 DEF LineInv
      <4> QED
        BY <2>1, <3>1, <4>1, PointsMade
    <3>5. Due(current, col, line)
      <4> DEFINE c == col - (current - start)
      <4>1. c \in Int /\ c + (current - start) = col
        BY <1>t
      <4>2. LineStart(start) \in Nat
        BY <1>t, <1>l, <3>3 DEF LineInv
      <4> HIDE DEF c
      <4>3. Due(start, c, line)
        BY <2>1 DEF c
      <4>4. \A k \in start..(current - 1) : text[k] # "\n"
        BY <2>1, <2>n
      <4>5. Due(current, c + (current - start), line)
        BY <1>t, <4>1, <4>2, <4>3, <4>4, DueOnward
      <4> QED
        BY <4>1, <4>5
    <3>6. LineInv' /\ Due(current, col, line)'
      BY <3>2, <3>5, Unmoved
    <3> QED
      BY <3>2, <3>4, <3>6 DEF ColumnInv
  <2> QED
    BY <2>2, <2>3
<1>9. CASE ScanLineComment
  <2>1. /\ at = "line" /\ UNCHANGED <<text, line, tokens>>
        /\ Due(current, col, line)
    BY <1>9, <1>l DEF ScanLineComment, ColumnInv
  <2>2. CASE peek # "\n" /\ ~isEOL
    <3>1. advance(1) /\ at' = at
      BY <1>9, <2>2 DEF ScanLineComment
    <3>2. LineInv' /\ Due(current, col, line)'
      BY <1>t, <1>c, <1>z, <2>1, <2>2, <3>1, SameLineStep
    <3> QED
      BY <2>1, <3>1, <3>2, PointsKept DEF ColumnInv
  <2>3. CASE ~(peek # "\n" /\ ~isEOL)
    <3>1. at' = "blanks" /\ UNCHANGED <<current, col>>
      BY <1>9, <2>3 DEF ScanLineComment
    <3>2. LineInv' /\ Due(current, col, line)'
      BY <2>1, <3>1, Unmoved
    <3> QED
      BY <2>1, <3>1, <3>2, PointsKept DEF ColumnInv
  <2> QED
    BY <2>2, <2>3
<1>10. CASE ScanBlockComment
  <2>1. at = "block" /\ UNCHANGED text
    BY <1>10 DEF ScanBlockComment
  <2>2. CASE isEOL
    <3>1. makeError(0) /\ UNCHANGED line /\ "error" \in Type
      BY <1>10, <2>2, OwnTypes DEF ScanBlockComment
    <3>2. at' = "tokenize" /\ UNCHANGED <<current, col>>
      BY <1>t, <3>1 DEF makeError, advance, Put
    <3>3. LineInv' /\ isEOL'
      BY <2>1, <2>2, <3>1, <3>2, Unmoved, SamePlace
    <3>4. PointsToToken'
      BY <2>1, <3>1, PointsMade
    <3> QED
      BY <3>2, <3>3, <3>4 DEF ColumnInv
  <2>3. CASE ~isEOL /\ peek = "*" /\ peekNext = "/"
    <3>1. advance(2) /\ at' = "blanks" /\ UNCHANGED <<line, tokens>>
      BY <1>10, <2>3 DEF ScanBlockComment
    <3>2. current + 1 \in 1..Len(text) /\ text[current] = "*" /\ text[current + 1] = "/"
      <4>1. peekNext # Nul
        BY <2>3 DEF Nul
      <4> QED
        BY <1>c, <2>3, <4>1
    <3>3. current + 2 <= Len(text) + 1 /\ \A k \in current..(current + 2 - 1) : text[k] # "\n"
      BY <1>t, <1>z, <3>2
    <3>4. LineInv'
      BY <2>1, <3>1, <3>3, SameLineStep
    <3>5. Due(current, col, line)'
      <4>1. LineStart(current)' = LineStart(current) /\ LineStart(current) \in 0..(current - 1)
        <5>1. current' \in current..(Len(text) + 1) /\ current' = current + 2
              /\ current \in 1..(Len(text) + 1)
          BY <1>t, <3>1, <3>3 DEF advance
        <5>2. LineStart(current') = LineStart(current)
          BY <1>t, <3>3, <5>1, SameLine
        <5> QED
          BY <1>l, <2>1, <5>2 DEF LineInv, LineStart, Newlines
      <4>2. (current + 1) \in (LineStart(current)' + 2)..(current' - 1)
            /\ (current + 1) - 1 = current
        BY <1>t, <3>1, <4>1 DEF advance
      <4>3. <<text'[(current + 1) - 1], text'[current + 1]>> = <<"*", "/">>
        BY <2>1, <3>2, <4>2
      <4> QED
        BY <4>2, <4>3 DEF Due
    <3> QED
      BY <2>1, <3>1, <3>4, <3>5, PointsKept DEF ColumnInv
  <2>4. CASE ~isEOL /\ ~(peek = "*" /\ peekNext = "/")
    <3>1. advance(1) /\ at' = "block" /\ UNCHANGED tokens
      BY <1>10, <2>1, <2>4 DEF ScanBlockComment
    <3>2. LineInv'
      <4>1. CASE peek = "\n"
        <5>1. line' = line + 1 /\ current' = current + 1
          BY <1>10, <2>4, <4>1 DEF ScanBlockComment, advance
        <5> QED
          BY <1>c, <2>1, <2>4, <4>1, <5>1, NewLineStep
      <4>2. CASE peek # "\n"
        <5>1. line' = line
          BY <1>10, <2>4, <4>2 DEF ScanBlockComment
        <5> QED
          BY <1>t, <1>c, <1>z, <2>1, <2>4, <3>1, <4>2, <5>1, SameLineStep
      <4> QED
        BY <4>1, <4>2
    <3> QED
      BY <2>1, <3>1, <3>2, PointsKept DEF ColumnInv
  <2> QED
    BY <2>2, <2>3, <2>4
<1>11. CASE UNCHANGED vars
  <2>1. UNCHANGED <<text, start, current, line, col, tokens, at>>
    BY <1>11 DEF vars
  <2>2. LineInv' /\ PointsToToken'
    BY <2>1, Unmoved, PointsKept
  <2>3. \A i : Newlines(i)' = Newlines(i) /\ LineStart(i)' = LineStart(i)
    BY <2>1 DEF Newlines, LineStart
  <2>4. ColumnInv'
    BY <1>l, <2>1, <2>3, SamePlace DEF ColumnInv, Due
  <2> QED
    BY <2>2, <2>4
<1> QED
  BY <1>1, <1>2, <1>3, <1>4, <1>5, <1>6, <1>7, <1>8, <1>9, <1>10, <1>11 DEF Next

LEMMA PointsInit == Init => PInv
<1> SUFFICES ASSUME Init PROVE PInv
  OBVIOUS
<1>1. Newlines(1) = {} /\ LineStart(1) = 0
  BY DEF Newlines, LineStart
<1>2. LineInv
  BY SMTT(30), <1>1, FS_EmptySet DEF Init, LineInv
<1>3. Due(current, col, line)
  BY <1>1 DEF Init, Due
<1>4. ColumnInv /\ PointsToToken
  BY <1>3 DEF Init, ColumnInv, PointsToToken
<1> QED
  BY <1>2, <1>4, ReadInit DEF PInv

\* Every token knows its line, and its column but behind a comment of several lines.
THEOREM DiagnosticsPoint == Spec => []PointsToToken
<1>1. PInv => PointsToToken
  BY DEF PInv
<1> QED
  BY PointsInit, PointsNext, <1>1, PTL DEF Spec

=============================================================================
