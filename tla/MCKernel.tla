------------------------------ MODULE MCKernel ------------------------------
(***************************************************************************)
(* Instances of Kernel for TLC; the constants are in the .cfg files.       *)
(***************************************************************************)
EXTENDS KernelProps
=============================================================================
