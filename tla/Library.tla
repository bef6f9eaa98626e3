------------------------------ MODULE Library -------------------------------
(***************************************************************************)
(* The functions without state of their own, each against a definition of  *)
(* what it should compute, the table of programs and the kernel log.  A    *)
(* text is typed character by character, a number counted up, the table    *)
(* loaded and unloaded, the log written: four enumerations that share one  *)
(* specification, of which one moves.                                      *)
(***************************************************************************)
EXTENDS Numbers, CommandLine, Format, Programs, KernelLog

CONSTANTS Alphabets, MaxText, \* the characters of a line and of a format
          MaxNumber,          \* the numbers that are converted
          StackTop            \* the address of a fresh stack

ASSUME LibraryAssumption ==
  /\ \A A \in Alphabets : A \subseteq 1 .. 127
  /\ MaxText \in Nat
  /\ MaxNumber \in Nat /\ MaxNumber < 16 ^ HEXA_MAX /\ StackTop \in Nat

VARIABLES text, num

libraryVars == <<text, num, fs, program, kmsg, logged>>

LibraryInit == text = << >> /\ num = 0 /\ ProgramsInit /\ LogInit

TypeChar ==
  /\ num = 0 /\ fs = << >> /\ logged = << >>
  /\ Len(text) < MaxText
  /\ \E A \in Alphabets : ToSet(text) \subseteq A /\ \E c \in A : text' = Append(text, c)
  /\ UNCHANGED <<num, programVars, logVars>>

Count ==
  /\ text = << >> /\ fs = << >> /\ logged = << >>
  /\ num < MaxNumber
  /\ num' = num + 1
  /\ UNCHANGED <<text, programVars, logVars>>

UseTable ==
  /\ text = << >> /\ num = 0 /\ logged = << >>
  /\ ProgramsNext
  /\ UNCHANGED <<text, num, logVars>>

WriteLog ==
  /\ text = << >> /\ num = 0 /\ fs = << >>
  /\ putc
  /\ UNCHANGED <<text, num, programVars>>

LibraryNext == TypeChar \/ Count \/ UseTable \/ WriteLog

LibrarySpec == LibraryInit /\ [][LibraryNext]_libraryVars

-----------------------------------------------------------------------------
(* A program that reads a text: wc.                                        *)

wc_step_forgetful(st, c) ==
  LET blank == c \in Blanks
  IN [lines |-> st.lines + (IF c = NewlineChar THEN 1 ELSE 0),
      words |-> st.words + (IF blank THEN 1 ELSE 0),
      chars |-> st.chars + 1, in_word |-> ~blank]

wc_step(st, c) ==
  LET blank == c \in Blanks
  IN [lines |-> st.lines + (IF c = NewlineChar THEN 1 ELSE 0),
      words |-> st.words + (IF blank /\ st.in_word THEN 1 ELSE 0),
      chars |-> st.chars + 1, in_word |-> ~blank]

\* The buffers that read returns, one after the other; in_word survives them.
wc_main(buffers) ==
  LET st == FoldLeft(LAMBDA s, buffer : FoldLeft(wc_step, s, buffer),
                     [lines |-> 0, words |-> 0, chars |-> 0, in_word |-> FALSE], buffers)
  IN <<st.lines, st.words + (IF st.in_word THEN 1 ELSE 0), st.chars>>

-----------------------------------------------------------------------------
(* References.                                                             *)

\* The maximal runs of characters that are not separators, from left to right.
Runs(s, separators) ==
  LET inside(i) == i \in DOMAIN s /\ s[i] \notin separators
      starts == {i \in DOMAIN s : inside(i) /\ ~inside(i - 1)}
      stop(i) == Min({j \in i .. Len(s) : ~inside(j + 1)})
  IN [n \in 1 .. Cardinality(starts) |->
        LET i == CHOOSE x \in starts : Cardinality({y \in starts : y <= x}) = n
        IN SubSeq(s, i, stop(i))]

\* What stands between the first and the last character that is no blank.
Trimmed(s) ==
  LET ink == {i \in DOMAIN s : s[i] \notin Blanks}
  IN IF ink = {} THEN << >> ELSE SubSeq(s, Min(ink), Max(ink))

Value(digits, base) ==
  FoldLeft(LAMBDA n, c : n * base + (IF c > 64 THEN c - 55 ELSE c - Digit0), 0, digits)

AsString(mem, a) ==
  LET end == Min({x \in a .. StackTop - 1 : mem[x] = Nul})
  IN [i \in 1 .. end - a |-> mem[a + i - 1]]

\* The positions of a format that a directive takes up.
InDirective(s) ==
  UNION {CASE at(s, i + 1) \in Simple -> {i, i + 1}
           [] at(s, i + 1) = LetterL /\ at(s, i + 2) \in Long -> {i, i + 1, i + 2}
           [] at(s, i + 1) = LetterL /\ at(s, i + 2) \notin Long -> {i}
           [] OTHER -> {} : i \in {j \in DOMAIN s : s[j] = Percent}}

Shortened(words) == [i \in DOMAIN words |-> str_ncpy(words[i], MAX_PARAM_LEN - 1)]

-----------------------------------------------------------------------------
(* Properties.                                                             *)

\* Whatever blanks surround and separate them, the words of a command become
\* its name and its parameters, in order, cut at MAX_PARAM_LEN - 1 and at
\* MAX_PARAMS of them; trim, str_tok and the & at the end agree with it, and
\* str_cmp, which finds the command, takes no prefix for the whole word.
WordsParsed ==
  /\ \A n \in 0 .. Len(text) :
       LET prefix == SubSeq(text, 1, n)
       IN /\ (str_cmp(prefix, text) = 0) = (n = Len(text))
          /\ (str_cmp(text, prefix) = 0) = (n = Len(text))
  /\ trim(text) = Trimmed(text)
  /\ str_tok_all(text, {Space, Bar}) = Runs(text, {Space, Bar})
  /\ LET words == Shortened(Runs(Trimmed(text), {Space}))
     IN final_argv(parse_command(text)) =
          IF words = << >> THEN <<<< >>>>
          ELSE SubSeq(words, 1, IF Len(words) < MAX_PARAMS + 1 THEN Len(words) ELSE MAX_PARAMS + 1)
  /\ LET line == shell_line(text)
         body == Trimmed(get_input(text))
     IN /\ line.background = (body # << >> /\ Last(body) = Amp)
        /\ line.pipe = (Bar \in ToSet(body))
        /\ ~line.pipe => line.left = parse_command(IF line.background THEN Front(body) ELSE body)

\* The new process finds its arguments where argv points: laying the strings,
\* the aligned array of pointers, argc, argv and the first frame out on the
\* stack overwrites none of them, and the registers carry argc and argv.
ArgumentsOnStack ==
  LET args == final_argv(parse_command(text))
      st == execv(StackTop, args)
      argc == st.mem[st.sp + 9 * POINTER]
      argv == st.mem[st.sp + 8 * POINTER]
  IN /\ argc = Len(args) /\ argv % POINTER = 0 /\ st.sp % POINTER = 0
     /\ \A i \in 1 .. argc : AsString(st.mem, st.mem[argv + (i - 1) * POINTER]) = args[i]
     /\ st.mem[argv + argc * POINTER] = Nul
     /\ st.mem[argv - POINTER] = argv /\ st.mem[argv - 2 * POINTER] = argc

\* wc counts lines, maximal runs of non-blank characters and characters, however
\* the pipe or the terminal cuts the text into reads.
CountsIndependentOfReads ==
  \A cut \in 0 .. Len(text) :
    wc_main(<<SubSeq(text, 1, cut), SubSeq(text, cut + 1, Len(text))>>) =
      <<Cardinality({i \in DOMAIN text : text[i] = NewlineChar}), Len(Runs(text, Blanks)), Len(text)>>

\* Every number but INT_MIN survives being written and read again, in every
\* base and by every one of the converters, and is written without a leading 0.
NumbersReadBack ==
  LET signed == as_int(num)
  IN /\ signed # INT_MIN =>
          /\ atoi(itoa(signed)) = signed /\ satoi(itoa(signed)) = signed
          /\ put_int(signed) = itoa(signed)
     /\ \A base \in {2, 10, 16} :
          /\ Value(utoa(num, base), base) = num
          /\ num # 0 => Head(utoa(num, base)) # Digit0
     /\ Value(putlx(num), 16) = num /\ Len(putlx(num)) = HEXA_MAX
     /\ Value(putb(num), 2) = num % 256
     /\ Value(put_hex(num), 16) = num % 16 ^ (HEXA_MAX - 1)
     /\ \A d \in 0 .. 99 : bcd_to_dec((d \div 10) * 16 + (d % 10)) = d

\* vprintk never reads behind the terminator of its format, whatever it ends in,
\* and prints every character that is not part of a directive once and in order;
\* of an unknown long directive it loses the '%'.  printf reads on only behind a
\* format that ends inside a directive or an escape.
FormatsStayInside ==
  LET out == vprintk(text, 1)
      printed == printf(text, 1)
  IN /\ \A i \in DOMAIN out : out[i] # overrun
     /\ SelectSeq(out, LAMBDA x : x.kind = "char") =
          LET kept == SetToSortSeq(DOMAIN text \ InDirective(text), <)
          IN [n \in DOMAIN kept |-> chr(text[kept[n]])]
     /\ overrun \in ToSet(printed)
          => Last(text) \in {Percent, Backslash, Minus} \cup Digit0 .. Digit0 + 9

=============================================================================
