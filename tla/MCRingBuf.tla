----------------------------- MODULE MCRingBuf ------------------------------
(***************************************************************************)
(* Instances of RingBuf for TLC.                                           *)
(***************************************************************************)
EXTENDS RingBuf
=============================================================================
