--------------------------- MODULE MCSubsurface ---------------------------
(* Surfaces are interchangeable; no property singles one out, and none is  *)
(* a liveness property.                                                    *)
EXTENDS Subsurface

Symmetry == Permutations(Surfaces)
=============================================================================
