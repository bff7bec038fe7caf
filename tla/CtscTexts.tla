------------------------------ MODULE CtscTexts ------------------------------
(***************************************************************************)
(* The texts of CTSC documents, and the numbers they spell: a word, a      *)
(* decimal numeral (canonical or zero-padded) or a symbolic double.        *)
(***************************************************************************)

Symbols == {"NaN", "Infinity", "-Infinity"}
Word(w)   == <<"word", w>>
Digits(n) == <<"digits", n>>    \* to_string() of an integer
Padded(n) == <<"padded", n>>    \* a numeral with a leading zero
Symbol(s) == <<"symbol", s>>

IsNumeral(text) == text[1] \in {"digits", "padded"}
=============================================================================
