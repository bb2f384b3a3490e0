---------------------------- MODULE MCRunMetrics ----------------------------
(* An instance of RunMetrics for TLC.                                      *)
EXTENDS RunMetrics
=============================================================================
