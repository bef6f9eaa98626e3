----------------------------- MODULE MCKeyboard -----------------------------
(***************************************************************************)
(* Two users for Keyboard.  The first one fills the buffer, goes round it  *)
(* and uses the control keys; the second one edits lines in a buffer that  *)
(* does not wrap.                                                          *)
(***************************************************************************)
EXTENDS Keyboard

TwoUsers ==
  {[keys |-> {"x", "tab", "newline", "ctrl", "ctrl_up", "d", "c"},
    modes |-> BOOLEAN, limit |-> 5, start |-> KBUFF_SIZE - 2],
   [keys |-> {"x", "newline", "backspace", "tab", "arrow"},
    modes |-> {TRUE}, limit |-> KBUFF_SIZE - 1, start |-> 0]}
=============================================================================
