-------------------------- MODULE MCDesktopResume --------------------------
(* An instance of DesktopResume for TLC.  It is checked for liveness, so   *)
(* without symmetry.                                                       *)
EXTENDS DesktopResume
=============================================================================
