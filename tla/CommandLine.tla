---------------------------- MODULE CommandLine ----------------------------
(***************************************************************************)
(* The line the user types, from read to argv: get_input, parse_command    *)
(* and shell_main of core/shell.c, and execv of Kernel/proc/exec.c, which  *)
(* lays the arguments out on the stack of the new process.                 *)
(***************************************************************************)
EXTENDS Strings

CONSTANTS BUFF_SIZE, MAX_PARAMS, MAX_PARAM_LEN,
          POINTER  \* sizeof(char *), also the alignment of the stack

ASSUME CommandLineAssumption ==
  /\ BUFF_SIZE \in Nat \ {0} /\ MAX_PARAMS \in Nat /\ MAX_PARAM_LEN \in Nat \ {0}
  /\ POINTER \in Nat \ {0}

\* get_input, given what read returned: at most BUFF_SIZE characters.
get_input(typed) ==
  LET n == IF Len(typed) >= BUFF_SIZE THEN BUFF_SIZE - 1 ELSE Len(typed)
  IN SubSeq(typed, 1, IF n > 0 /\ typed[n] = NewlineChar THEN n - 1 ELSE n)

\* A word ends at a space (a tab is part of it); what follows the space is left.
word_end(s) == first_from(s, 1, LAMBDA c : c = Space)
first_word(s) == str_ncpy(SubSeq(s, 1, word_end(s) - 1), MAX_PARAM_LEN - 1)
after_word(s) == SubSeq(s, word_end(s) + 1, Len(s))
skip_spaces(s) == SubSeq(s, first_from(s, 1, LAMBDA c : c # Space), Len(s))

RECURSIVE parse_params_blank(_, _)
parse_params_blank(input, params) ==
  IF input = << >> \/ Len(params) >= MAX_PARAMS THEN params
  ELSE parse_params_blank(after_word(input), Append(params, first_word(input)))

RECURSIVE parse_params(_, _)
parse_params(input, params) ==
  LET s == skip_spaces(input)
  IN IF s = << >> \/ Len(params) >= MAX_PARAMS THEN params
     ELSE parse_params(after_word(s), Append(params, first_word(s)))

\* parsed_input_t.  The command is empty for an empty line.
parse_command(line) ==
  LET s == trim(line)
  IN IF s = << >> THEN [cmd |-> << >>, params |-> << >>]
     ELSE [cmd |-> first_word(s), params |-> parse_params(after_word(s), << >>)]

\* What shell_main makes of a line: a trailing & asks for the background, a bar
\* splits a pipeline; right is empty when there is no bar.
shell_line(typed) ==
  LET whole == trim(get_input(typed))
      background == whole # << >> /\ Last(whole) = Amp
      line == IF background THEN trim(Front(whole)) ELSE whole
      bar == str_chr(line, Bar)
  IN IF bar = 0
       THEN [background |-> background, left |-> parse_command(line), pipe |-> FALSE,
             right |-> parse_command(<< >>)]
       ELSE [background |-> background, left |-> parse_command(SubSeq(line, 1, bar - 1)),
             pipe |-> TRUE, right |-> parse_command(SubSeq(line, bar + 1, Len(line)))]

\* final_argv of shell_main.
final_argv(parsed) == <<parsed.cmd>> \o parsed.params

-----------------------------------------------------------------------------
(* execv.  mem maps the addresses below the top of the stack to the bytes  *)
(* and the machine words that were written there last.                     *)

InWord == -1   \* an address inside a word
SS == -2
RFLAGS == -3
CS == -4
process_wrapper == -5

put_bytes(mem, a, bytes) ==
  [x \in DOMAIN mem |-> IF x \in a .. a + Len(bytes) - 1 THEN bytes[x - a + 1] ELSE mem[x]]

\* A word takes POINTER addresses; its value is read at the first one.
put_word(mem, a, value) ==
  put_bytes(mem, a, [i \in 1 .. POINTER |-> IF i = 1 THEN value ELSE InWord])

push_string(st, arg) ==
  LET a == st.sp - (Len(arg) + 1)
  IN [mem |-> put_bytes(st.mem, a, Append(arg, Nul)), sp |-> a, argv |-> Append(st.argv, a)]

prepare_argv_on_stack(st, args) == FoldLeft(push_string, st, args)

copy_argv_ptr_array_unaligned(st) ==
  LET ptrs == Append(st.argv, Nul)
      base == st.sp - Len(ptrs) * POINTER
  IN [st EXCEPT !.sp = base,
                !.mem = FoldLeft(LAMBDA m, i : put_word(m, base + (i - 1) * POINTER, ptrs[i]),
                                 @, [i \in 1 .. Len(ptrs) |-> i])]

copy_argv_ptr_array_to_stack(st) ==
  LET ptrs == Append(st.argv, Nul)
      base == (st.sp - (st.sp % POINTER)) - Len(ptrs) * POINTER
  IN [st EXCEPT !.sp = base,
                !.mem = FoldLeft(LAMBDA m, i : put_word(m, base + (i - 1) * POINTER, ptrs[i]),
                                 @, [i \in 1 .. Len(ptrs) |-> i])]

push(st, value) ==
  [st EXCEPT !.sp = @ - POINTER, !.mem = put_word(@, st.sp - POINTER, value)]

\* argv and argc, the frame of iretq (SS, RSP, RFLAGS, CS, RIP) and the fifteen
\* registers, of which the sixth and the seventh carry argc and argv.
push_argc_argv_to_stack(st, argc, argv) == push(push(st, argv), argc)

setup_initial_stack_frame(st, argc, argv) ==
  FoldLeft(push, st,
           <<SS, st.sp, RFLAGS, CS, process_wrapper>>
             \o [i \in 1 .. 15 |-> IF i = 6 THEN argc ELSE IF i = 7 THEN argv ELSE 0])

execv(top, args) ==
  LET st == copy_argv_ptr_array_to_stack(
              prepare_argv_on_stack([mem |-> [a \in 0 .. top - 1 |-> 0], sp |-> top, argv |-> << >>],
                                    args))
  IN setup_initial_stack_frame(push_argc_argv_to_stack(st, Len(args), st.sp), Len(args), st.sp)

=============================================================================
