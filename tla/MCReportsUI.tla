---------------------------- MODULE MCReportsUI ----------------------------
(* ReportsUI on small bounds.                                              *)
EXTENDS ReportsUI
=============================================================================
