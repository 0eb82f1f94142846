---------------------------- MODULE MCWorkstation ----------------------------
(* Three sessions and two trainings. *)
EXTENDS Workstation
=============================================================================
