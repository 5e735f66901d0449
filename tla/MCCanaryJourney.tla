-------------------------- MODULE MCCanaryJourney --------------------------
(* CanaryJourney on small bounds.                                          *)
EXTENDS CanaryJourney
=============================================================================
