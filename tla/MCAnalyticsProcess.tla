------------------------ MODULE MCAnalyticsProcess ------------------------
(* AnalyticsProcess with two requests, one of them for /readyz.            *)
EXTENDS AnalyticsProcess
=============================================================================
