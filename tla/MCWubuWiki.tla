---------------------------- MODULE MCWubuWiki ----------------------------
(* Small instances of WubuWiki for TLC.                                    *)
EXTENDS WubuWiki, TLC

CONSTANTS p1, p2, s1, s2, k1, k2, k3, h1, h2

\* content k1 mentions both slugs, content k2 only the second
SomeMentions == {<<k1, s1>>, <<k1, s2>>, <<k2, s2>>} \intersect (Contents \X Slugs)

\* the contents k1 and k3 have one hash
SomeCollide == [k \in Contents |-> IF k = k2 THEN h2 ELSE h1]

\* the processes are interchangeable; no property is a liveness property
ProcSymmetry == Permutations(Procs)
===========================================================================
