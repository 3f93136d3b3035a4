----------------------------- MODULE RlmMemory -----------------------------
(***************************************************************************)
(* What the two-tier conversation memory of wubu_rlm promises its callers. *)
(* A message that add_exchange accepted is in short-term memory (live); it *)
(* may be listed in a stored summary (archived); and it may leave the      *)
(* short-term memory only once it is archived.                             *)
(***************************************************************************)

CONSTANT Messages        \* message identities

VARIABLES
  accepted,              \* messages whose add_exchange went through
  live,                  \* messages in short-term memory
  archived               \* messages listed by a stored summary

vars == <<accepted, live, archived>>

Init ==
  /\ accepted = {}
  /\ live = {}
  /\ archived = {}

Remember(m) ==
  /\ m \notin accepted
  /\ accepted' = accepted \union {m}
  /\ live' = live \union {m}
  /\ UNCHANGED archived

Archive(S) ==
  /\ S \subseteq live
  /\ archived' = archived \union S
  /\ UNCHANGED <<accepted, live>>

Forget(S) ==
  /\ S \subseteq live \intersect archived
  /\ live' = live \ S
  /\ UNCHANGED <<accepted, archived>>

Next ==
  \/ \E m \in Messages : Remember(m)
  \/ \E S \in SUBSET Messages : Archive(S) \/ Forget(S)

Spec == Init /\ [][Next]_vars
=============================================================================
