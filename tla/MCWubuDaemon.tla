---------------------------- MODULE MCWubuDaemon ----------------------------
(* Small instances of WubuDaemon for TLC.                                  *)
EXTENDS WubuDaemon, TLC

CONSTANTS d1, d2, d3, m1
=============================================================================
