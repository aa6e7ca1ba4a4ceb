---------------------------- MODULE MCXwmWindow ----------------------------
(* Instances of XwmWindow.                                                 *)
EXTENDS XwmWindow, TLC

CONSTANTS w1, w2
=============================================================================
