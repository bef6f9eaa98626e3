----------------------------- MODULE MCConsole -----------------------------
(* The console on a screen of 8 x 8 characters, that is 4 x 4 and 2 x 2    *)
(* characters at the two larger sizes.                                     *)
EXTENDS Console

=============================================================================
