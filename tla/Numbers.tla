------------------------------ MODULE Numbers ------------------------------
(***************************************************************************)
(* The conversions between numbers and text: stdLibrary.c, test_util.c,    *)
(* and the kernel's utils.c, logger.c, videoDriver.c and time_rtc.c.  An   *)
(* int has INT_BITS bits and an unsigned number HEXA_MAX hexadecimal       *)
(* digits.  The case of the letters above 9 is left out.                   *)
(***************************************************************************)
EXTENDS Strings

CONSTANTS INT_BITS, HEXA_MAX

ASSUME NumbersAssumption ==
  INT_BITS \in Nat \ {0} /\ HEXA_MAX \in Nat /\ HEXA_MAX > 1 /\ 16 ^ HEXA_MAX >= 2 ^ INT_BITS

INT_MIN == -(2 ^ (INT_BITS - 1))

\* A result as an int: the overflow wraps around.
as_int(n) == ((n - INT_MIN) % 2 ^ INT_BITS) + INT_MIN

digit(d) == IF d < 10 THEN Digit0 + d ELSE 55 + d

\* The digits from the last one on, as the loops find them.
RECURSIVE reversed_digits(_, _)
reversed_digits(value, base) ==
  IF value <= 0 THEN << >>
  ELSE <<digit(value % base)>> \o reversed_digits(value \div base, base)

\* utoa, xtoa and utoa(value, buffer, base) of the video driver; putud, putul
\* and putx of the log; uint_to_base, which reverses the text in place.
utoa(value, base) ==
  IF value = 0 THEN <<Digit0>> ELSE Reverse(reversed_digits(value, base))

\* Exactly n digits, the lowest ones: putlx and putb of the log, and put_hex.
RECURSIVE fixed_digits(_, _, _)
fixed_digits(value, base, n) ==
  IF n = 0 THEN << >> ELSE fixed_digits(value \div base, base, n - 1) \o <<digit(value % base)>>

putlx(value) == fixed_digits(value, 16, HEXA_MAX)
putb(value) == fixed_digits(value % 256, 2, 8)
put_hex(value) == fixed_digits(value, 16, HEXA_MAX - 1)

\* itoa and itos.  The negation of INT_MIN is INT_MIN.
itoa_sign_lost(value) == utoa(IF value < 0 THEN -value ELSE value, 10)

itoa(value) ==
  IF value = 0 THEN <<Digit0>>
  ELSE IF value < 0 THEN <<Minus>> \o Reverse(reversed_digits(as_int(-value), 10))
  ELSE Reverse(reversed_digits(value, 10))

\* put_int and put_uint call one another.  The remainder has the sign of m, as
\* in C: it is negative for INT_MIN only.
RECURSIVE put_int(_)
put_int(n) ==
  LET m == IF n < 0 THEN as_int(-n) ELSE n
  IN (IF n < 0 THEN <<Minus>> ELSE << >>)
     \o (IF m \div 10 > 0 THEN put_int(m \div 10) ELSE << >>) \o <<Digit0 + (IF m < 0 THEN -((-m) % 10) ELSE m % 10)>>

is_digit(c) == c \in Digit0 .. Digit0 + 9

read_digits(s) == FoldLeft(LAMBDA res, c : as_int(res * 10 + c - Digit0), 0, s)

atoi(str) ==
  LET s == trim_left(str)
      body == IF at(s, 1) \in {Minus, Plus} THEN Tail(s) ELSE s
      n == read_digits(SubSeq(body, 1, first_from(body, 1, LAMBDA c : ~is_digit(c)) - 1))
  IN IF at(s, 1) = Minus THEN as_int(-n) ELSE n

\* satoi of test_util.c: anything that is not a digit makes it 0.
satoi(s) ==
  LET body == IF at(s, 1) = Minus THEN Tail(s) ELSE s
  IN IF \E i \in DOMAIN body : ~is_digit(body[i]) THEN 0
     ELSE IF at(s, 1) = Minus THEN as_int(-read_digits(body)) ELSE read_digits(body)

bcd_to_dec(n) == (n \div 16) * 10 + (n % 16)

=============================================================================
