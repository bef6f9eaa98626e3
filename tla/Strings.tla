------------------------------ MODULE Strings ------------------------------
(***************************************************************************)
(* The string and memory functions of Kernel/lib/lib.c and of the user's   *)
(* stdLibrary.c.  A C string is the sequence of its character codes up to  *)
(* the terminator, a block of memory a sequence of bytes.                  *)
(***************************************************************************)
EXTENDS Integers, Sequences, FiniteSets, SequencesExt, FiniteSetsExt

Nul == 0
TabChar == 9
NewlineChar == 10
Space == 32
Amp == 38
Minus == 45
Plus == 43
Digit0 == 48
Bar == 124

Blanks == {Space, TabChar, NewlineChar}

\* The character at i, the terminator after the last one.
at(s, i) == IF i \in DOMAIN s THEN s[i] ELSE Nul

\* The first position from i on where a while loop over the string stops.
first_from(s, i, Stop(_)) == Min({j \in i .. Len(s) + 1 : j = Len(s) + 1 \/ Stop(s[j])})

str_cmp(s, t) ==
  LET n == Min({i \in 1 .. Len(s) + 1 : at(s, i) = Nul \/ at(t, i) = Nul \/ s[i] # t[i]})
  IN at(s, n) - at(t, n)

\* The position of c, 0 when it does not occur.
str_chr(s, c) ==
  LET n == first_from(s, 1, LAMBDA x : x = c) IN IF n <= Len(s) \/ c = Nul THEN n ELSE 0

\* The user's str_ncpy; the kernel's fills up with terminators, which as a
\* string is the same.
str_ncpy(s, n) == SubSeq(s, 1, IF Len(s) < n THEN Len(s) ELSE n)

trim_left(s) == SubSeq(s, first_from(s, 1, LAMBDA c : c \notin Blanks), Len(s))

trim(s) ==
  LET a == first_from(s, 1, LAMBDA c : c \notin Blanks)
      b == Max({a - 1} \cup {i \in a .. Len(s) : s[i] \notin Blanks})
  IN SubSeq(s, a, b)

\* str_tok(s, delim), then str_tok(NULL, delim) until it returns NULL: the
\* static pointer last is the rest of the string.
RECURSIVE str_tok_all(_, _)
str_tok_all(last, delim) ==
  LET start == first_from(last, 1, LAMBDA c : c \notin delim)
      end == first_from(last, start, LAMBDA c : c \in delim)
  IN IF start > Len(last) THEN << >>
     ELSE <<SubSeq(last, start, end - 1)>> \o str_tok_all(SubSeq(last, end + 1, Len(last)), delim)

=============================================================================
