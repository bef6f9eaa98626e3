------------------------------ MODULE MCShell -------------------------------
(***************************************************************************)
(* Instances of Shell for TLC; the constants are in the .cfg files.        *)
(***************************************************************************)
EXTENDS Shell, KernelProps
=============================================================================
