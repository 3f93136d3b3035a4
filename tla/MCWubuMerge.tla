---------------------------- MODULE MCWubuMerge ----------------------------
(* Small federations for TLC: a runs this program, b is foreign.            *)
EXTENDS WubuMerge, TLC

CONSTANTS a, b, p1, p2, fine, foul

\* Two processes at a time on one node
MCTogether == (p1 :> a) @@ (p2 :> a)

\* Each owner has a fact of their own under the same key; only b's may be taken.
MCBefore ==
  LET fact(value) == [k \in Keys |-> <<[value |-> value, source |-> "notes"]>>]
  IN (a :> fact(foul)) @@ (b :> fact(fine))

\* The two processes of a may change places: neither is named anywhere.
MCSymmetry == Permutations({p1, p2})
=============================================================================
