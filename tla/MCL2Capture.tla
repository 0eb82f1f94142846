---------------------------- MODULE MCL2Capture ----------------------------
(***************************************************************************)
(* Instances of L2Capture.  Two symbols run without symmetry: the run      *)
(* checks a liveness property.                                             *)
(***************************************************************************)
EXTENDS CapturedFeatures

=============================================================================
