---------------------------- MODULE MCDrmRepaint ----------------------------
(* Instances of DrmRepaint.                                                *)
EXTENDS DrmRepaint
=============================================================================
