----------------------------- MODULE MCWubuSica -----------------------------
(* Small instances of WubuSica for TLC.                                    *)
EXTENDS WubuSica

CONSTANTS old, new
=============================================================================
