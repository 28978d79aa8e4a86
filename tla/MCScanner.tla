------------------------------ MODULE MCScanner ------------------------------
(***************************************************************************)
(* The scanner on every short text over a few characters of each kind.     *)
(***************************************************************************)
EXTENDS Scanner

CONSTANTS MaxText,      \* the length of the texts over all characters
          MaxComment,   \* of those that are mostly comments
          MaxNumber     \* of those that are mostly numbers

Letters == {"i", "f"}
Digits == {"0", "1"}
UpTo(chars, n) == UNION {[1..k -> chars] : k \in 0..n}
Texts ==
  UpTo({"i", "f", "0", "1", " ", "\n", "/", "*", "=", "!", "-", ";", "$"}, MaxText)
  \cup UpTo({"/", "*", "\n", "i"}, MaxComment)
  \cup UpTo({"0", "1", ";"}, MaxNumber)
=============================================================================
