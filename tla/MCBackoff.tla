------------------------------ MODULE MCBackoff ------------------------------
(* Backoff with 16-bit durations and a shift of at most 7: every base up   *)
(* to the limit of 512, from which on products come around, and a choice   *)
(* of larger ones.                                                         *)
EXTENDS Backoff

MCBases == -32768..-32767 \cup -1..600 \cup {1000 + 257 * k : k \in 0..122} \cup {32766, 32767}
=============================================================================
