----------------------------- MODULE MCWubuObs -----------------------------
(* Two scenes, and two repetitions of a request.                            *)
EXTENDS WubuObs
=============================================================================
