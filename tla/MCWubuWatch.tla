---------------------------- MODULE MCWubuWatch ----------------------------
(* Small instances of WubuWatch for TLC.                                   *)
EXTENDS WubuWatch
=============================================================================
