----------------------------- MODULE MCWubuRlm -----------------------------
(* Small instances of WubuRlm for TLC.                                     *)
EXTENDS WubuRlm, TLC

CONSTANTS p1, p2, p3, c1, c2

\* every process opens the context c1
OneContext == [p \in Procs |-> c1]

\* two processes share a context and the third has one of its own
SharedAndOwn == [p \in Procs |-> IF p = p3 THEN c2 ELSE c1]

\* the two processes that share c1 may be exchanged
SharingSymmetry == Permutations({p1, p2})

\* a short message and one that alone exceeds the threshold
ShortAndLong == {1, 3}
=============================================================================
