--------------------------- MODULE MCRepaintLoop ---------------------------
(* RepaintLoop on the model values of the configurations. *)
EXTENDS RepaintLoop, TLC

Symmetry == Permutations(Outputs)
=============================================================================
