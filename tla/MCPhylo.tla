------------------------------ MODULE MCPhylo ------------------------------
(* Three philosophers, a fourth one that joins and leaves, and the end.    *)
EXTENDS Phylo

=============================================================================
