---------------------------- MODULE MCShellLock ----------------------------
(* Instances of ShellLock.                                                 *)
EXTENDS ShellLock

CONSTANTS o1, o2
=============================================================================
