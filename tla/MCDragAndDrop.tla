--------------------------- MODULE MCDragAndDrop ---------------------------
(* Instances of DragAndDrop.                                               *)
EXTENDS DragAndDrop

CONSTANTS t1, t2, t3
=============================================================================
