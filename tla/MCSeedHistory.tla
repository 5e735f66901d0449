--------------------------- MODULE MCSeedHistory ---------------------------
(* SeedHistory; its cfgs take it apart by question.                        *)
EXTENDS SeedHistory
=============================================================================
