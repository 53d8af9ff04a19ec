----------------------------- MODULE MCLauncher -----------------------------
(***************************************************************************)
(* Instances of Launcher for TLC.                                          *)
(***************************************************************************)
EXTENDS Launcher

CONSTANTS root, child, f1, f2
=============================================================================
