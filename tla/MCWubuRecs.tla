----------------------------- MODULE MCWubuRecs -----------------------------
(* Small instances of WubuRecs for TLC.                                    *)
EXTENDS WubuRecs

CONSTANTS u, a, b, c, x, y

\* a is like b
TwoKinds == (a :> {x}) @@ (b :> {x}) @@ (c :> {y})
=============================================================================
