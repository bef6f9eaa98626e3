----------------------------- MODULE MCLibrary ------------------------------
(* Lines of spaces, tabs, newlines, bars, ampersands and a letter; formats *)
(* of percent signs, digits, letters of conversions and backslashes.       *)
EXTENDS Library

LineAlphabet == {Space, TabChar, NewlineChar, Bar, Amp, 97}
FormatAlphabet == {Percent, Backslash, Minus, 49, LetterL, 100}
TwoAlphabets == {LineAlphabet, FormatAlphabet}

=============================================================================
