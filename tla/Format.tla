------------------------------- MODULE Format -------------------------------
(***************************************************************************)
(* The two formatters: printf of the user's stdLibrary.c and vprintk of    *)
(* Kernel/lib/logger.c.  Both walk over the format with an index of their  *)
(* own.  The output is a sequence of records: a character printed as it    *)
(* is, an argument taken (how a number is written is in module Numbers),   *)
(* or a read behind the terminator.                                        *)
(***************************************************************************)
EXTENDS Strings

Percent == 37
Backslash == 92
Conversions == {100, 117, 120, 115, 99}  \* d u x s c
LetterL == 108
LetterN == 110
LetterT == 116

chr(c) == [kind |-> "char", what |-> c]
arg(conv, width, left) == [kind |-> "arg", what |-> conv, width |-> width, left |-> left]
overrun == [kind |-> "overrun"]

\* printf from position i on: '%', a flag, a width and a conversion, or a
\* backslash and a character.  An unknown conversion is printed with its '%';
\* a character is not padded.
RECURSIVE printf(_, _)
printf(s, i) ==
  IF i > Len(s) + 1 THEN <<overrun>>
  ELSE IF i = Len(s) + 1 THEN << >>
  ELSE IF s[i] = Percent
    THEN LET left == at(s, i + 1) = Minus
             w == IF left THEN i + 2 ELSE i + 1
             c == first_from(s, w, LAMBDA x : x \notin Digit0 .. Digit0 + 9)
             width == FoldLeft(LAMBDA n, x : n * 10 + x - Digit0, 0, SubSeq(s, w, c - 1))
         IN (IF at(s, c) \in Conversions
               THEN <<arg(at(s, c), IF at(s, c) = 99 THEN 0 ELSE width, left)>>
               ELSE <<chr(Percent), chr(at(s, c))>>)
            \o printf(s, c + 1)
  ELSE IF s[i] = Backslash
    THEN (CASE at(s, i + 1) = LetterN -> <<chr(NewlineChar)>>
            [] at(s, i + 1) = LetterT -> <<chr(TabChar)>>
            [] OTHER -> <<chr(Backslash), chr(at(s, i + 1))>>)
         \o printf(s, i + 2)
  ELSE <<chr(s[i])>> \o printf(s, i + 1)

\* The conversions of vprintk (c, s, d, b, x, p), and those after an l.
Simple == {99, 115, 100, 98, 120, 112}
Long == {120, 100}

directive_forwards(s, i) ==
  IF at(s, i + 1) \in Simple THEN [out |-> <<arg(at(s, i + 1), 0, FALSE)>>, next |-> i + 2]
  ELSE IF at(s, i + 1) # LetterL THEN [out |-> <<chr(Percent)>>, next |-> i + 2]
  ELSE IF at(s, i + 2) \in Long THEN [out |-> <<arg(at(s, i + 2), 0, FALSE)>>, next |-> i + 3]
  ELSE [out |-> <<chr(LetterL)>>, next |-> i + 3]

\* One directive at i, and where the format goes on.  What it does not know is
\* printed as the character before, and read again: the '%', or the l alone.
directive(s, i) ==
  IF at(s, i + 1) \in Simple THEN [out |-> <<arg(at(s, i + 1), 0, FALSE)>>, next |-> i + 2]
  ELSE IF at(s, i + 1) # LetterL THEN [out |-> <<chr(Percent)>>, next |-> i + 1]
  ELSE IF at(s, i + 2) \in Long THEN [out |-> <<arg(at(s, i + 2), 0, FALSE)>>, next |-> i + 3]
  ELSE [out |-> <<chr(LetterL)>>, next |-> i + 2]

RECURSIVE vprintk(_, _)
vprintk(s, i) ==
  IF i > Len(s) + 1 THEN <<overrun>>
  ELSE IF i = Len(s) + 1 THEN << >>
  ELSE LET d == IF s[i] = Percent THEN directive(s, i) ELSE [out |-> <<chr(s[i])>>, next |-> i + 1]
       IN d.out \o vprintk(s, d.next)

=============================================================================
