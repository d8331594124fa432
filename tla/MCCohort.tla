------------------------------ MODULE MCCohort ------------------------------
(* Instances of Cohort for TLC. *)
EXTENDS Cohort
=============================================================================
