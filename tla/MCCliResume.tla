---------------------------- MODULE MCCliResume ----------------------------
(* Instances of CliResume for TLC.  Processes, shells and keys are         *)
(* interchangeable, but one of its runs checks liveness, for which         *)
(* symmetry is not sound.                                                  *)
EXTENDS CliResume
=============================================================================
