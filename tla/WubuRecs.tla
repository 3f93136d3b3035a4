------------------------------ MODULE WubuRecs ------------------------------
(***************************************************************************)
(* The recommendation pipeline of wubu_recs.c: candidates that share a tag *)
(* with what the user reacted well to, a weighted score from everybody's   *)
(* events, a re-ranking meant to mix low and high scores, a minimum score. *)
(* Each step is a query or a call of its own: events are logged between    *)
(* them.                                                                   *)
(*                                                                         *)
(* Points are tenths (the weights of wubu_recs.h, rounded); a play is one  *)
(* to the end.  With fewer than eleven tags in all, a Jaccard similarity   *)
(* of 0.1 is one shared tag, which is worth one point.                     *)
(***************************************************************************)
EXTENDS Integers, FiniteSets, SequencesExt

CONSTANTS
  Users, Items,
  TagsOf,           \* the tags of each content
  EventTypes,       \* the events users log in this instance
  Limits,           \* the limits callers pass
  MaxHalf,          \* 50: the most wubu_recs_rerank takes from each end
  MaxEvents,        \* bound on the events logged
  MaxClock,         \* bound on the seconds that pass
  Junk              \* what a candidate holds that nothing was written to

\* Points of one event; like_w, share_w, save_w, comment_w and
\* total_completion_weight are all added to the score.
Weight == [LIKE |-> 1612, COMMENT |-> 3500, SHARE |-> 7486, SAVE |-> 7486, FOLLOW |-> 3000,
           COMPLETE |-> 4000, REWATCH |-> 5000, SKIP |-> -3000, UNLIKE |-> -5000,
           VIEW |-> 0, WATCH |-> 0, PLAY |-> 0]
PlaytimeWeight == 7806
MinScore == 1000

Positive == {"LIKE", "COMMENT", "SHARE", "SAVE", "FOLLOW"}

ASSUME RecsAssumption ==
  /\ EventTypes \subseteq DOMAIN Weight
  /\ IsFiniteSet(Users) /\ IsFiniteSet(Items)
  /\ \A s \in Items : IsFiniteSet(TagsOf[s])
  /\ {MaxHalf, MaxEvents, MaxClock} \subseteq Nat \ {0}
  /\ Limits \subseteq Nat \ {0}
  /\ Junk \notin Items

VARIABLES
  created,          \* when each content was registered last; 0: never
  events,           \* how often each user logged each event on each content
  now, logged,      \* the clock; events so far
  stage,            \* the next step of the call
  request,          \* its user and limit
  liked,            \* tags of the contents its user reacted well to
  list              \* its candidates, in order

catalogVars == <<created, events, logged>>
recsVars == <<catalogVars, now, stage, request, liked, list>>

Cell == Users \X Items \X EventTypes

RecsInit ==
  /\ created \in [Items -> 0..1]
  /\ events = [c \in Cell |-> 0]
  /\ now = 1
  /\ logged = 0
  /\ stage = "idle"
  /\ request \in Users \X Limits
  /\ liked = {}
  /\ list = <<>>

-----------------------------------------------------------------------------
(* The catalog and the event log *)

Tick ==
  /\ now < MaxClock
  /\ now' = now + 1
  /\ UNCHANGED <<catalogVars, stage, request, liked, list>>

\* INSERT OR REPLACE INTO content
Register(s) ==
  /\ created' = [created EXCEPT ![s] = now]
  /\ UNCHANGED <<events, logged, now, stage, request, liked, list>>

LogEvent(c) ==
  /\ logged < MaxEvents
  /\ logged' = logged + 1
  /\ events' = [events EXCEPT ![c] = @ + 1]
  /\ UNCHANGED <<created, now, stage, request, liked, list>>

-----------------------------------------------------------------------------
(* Stage 1: candidates *)

Count(U, s, T) == SumFunctionOnSet(events, U \X {s} \X (T \intersect EventTypes))
Registered == {s \in Items : created[s] > 0}

\* The sequences of the elements of S in descending order of Key; equal ones come
\* in any order.
Descending(S, Key(_)) ==
  {s \in SetToSeqs(S) : \A i \in 1..Len(s) - 1 : Key(s[i]) >= Key(s[i + 1])}

\* mutant: count <= limit
Prefix_OneMore(s, n) == SubSeq(s, 1, IF Len(s) <= n THEN Len(s) ELSE n + 1)

Prefix(s, n) == SubSeq(s, 1, IF Len(s) < n THEN Len(s) ELSE n)

\* Tags of up to three registered contents the user reacted well to
Liked(u) ==
  LET P == {s \in Registered : Count({u}, s, Positive) > 0}
  IN {UNION {TagsOf[s] : s \in T} :
        T \in {T \in SUBSET P : Cardinality(T) = IF Cardinality(P) < 3 THEN Cardinality(P) ELSE 3}}

Related(s, tags) == TagsOf[s] \intersect tags # {}

\* mutant: if (sim < 0.1 && count > 1) continue
Kept_FirstTwo(rows, tags, limit) ==
  LET kept[i \in 0..Len(rows)] ==
        IF i = 0 THEN <<>>
        ELSE IF Len(kept[i - 1]) < limit /\ (Len(kept[i - 1]) < 2 \/ Related(rows[i], tags))
        THEN Append(kept[i - 1], rows[i])
        ELSE kept[i - 1]
  IN  kept[Len(rows)]

\* if (sim < 0.1 && count > 0) continue: the first row is always taken.
Kept(rows, tags, limit) ==
  LET kept[i \in 0..Len(rows)] ==
        IF i = 0 THEN <<>>
        ELSE IF Len(kept[i - 1]) < limit /\ (kept[i - 1] = <<>> \/ Related(rows[i], tags))
        THEN Append(kept[i - 1], rows[i])
        ELSE kept[i - 1]
  IN  kept[Len(rows)]

\* No reaction yet: the most watched, the newest first.
Popular(limit) ==
  LET Views(s) == Count(Users, s, {"WATCH", "PLAY"}) * (MaxClock + 1) + created[s]
  IN {Prefix(s, limit) : s \in Descending(Registered, Views)}

\* The newest contents the user does not follow, of 3 * limit rows
Similar(u, tags, limit) ==
  LET Age(s) == created[s]
      followed == {s \in Items : Count({u}, s, {"FOLLOW"}) > 0}
  IN {Kept(Prefix(rows, 3 * limit), tags, limit) :
        rows \in Descending(Registered \ followed, Age)}

Retrieve(u, limit) ==
  /\ stage = "idle"
  /\ request' = <<u, limit>>
  /\ liked' \in Liked(u)
  /\ \E slugs \in (IF liked' = {} THEN Popular(limit) ELSE Similar(u, liked', limit)) :
       list' = [i \in DOMAIN slugs |-> [slug |-> slugs[i], score |-> 0]]
  /\ stage' = IF list' = <<>> THEN "idle" ELSE "rank"
  /\ UNCHANGED <<catalogVars, now>>

-----------------------------------------------------------------------------
(* Stage 2: ranking *)

Points(s) ==
  LET earned == [c \in Cell |-> Weight[c[3]] * events[c]]
  IN (IF Related(s, liked) THEN 1 ELSE 0)
     + SumFunctionOnSet(earned, Users \X {s} \X EventTypes)
     + (IF Count(Users, s, {"PLAY"}) > 0 THEN PlaytimeWeight ELSE 0)

\* Content that was retrieved with its text is scaled by 1 + sin(address) / 10.
Freshness == IF liked = {} THEN {10} ELSE {9, 11}

\* The orders qsort may leave of candidates, by score
Sorted(cands) ==
  {[i \in DOMAIN cands |-> cands[p[i]]] :
     p \in {p \in SetToSeqs(DOMAIN cands) :
              \A i \in 1..Len(p) - 1 : cands[p[i]].score >= cands[p[i + 1]].score}}

Rank ==
  /\ stage = "rank"
  /\ stage' = "rerank"
  /\ \E factor \in [DOMAIN list -> Freshness] :
       list' \in Sorted([i \in DOMAIN list |->
                           [list[i] EXCEPT !.score = factor[i] * Points(list[i].slug)]])
  /\ UNCHANGED <<catalogVars, now, request, liked>>

-----------------------------------------------------------------------------
(* Stage 3: re-ranking, limit and minimum *)

Least(a, b) == IF a < b THEN a ELSE b

Half(n) == IF n \div 2 \in 1..MaxHalf THEN n \div 2 ELSE Least(n, MaxHalf)

\* mutant: the bottom half starts one entry late
Diverse_Shifted(asc) ==
  LET n == Len(asc)
      half == Half(n)
  IN [i \in 1..Least(n, 2 * half) |->
        IF i % 2 = 1 THEN asc[n - half + (i + 1) \div 2] ELSE asc[Least(n, i \div 2 + 1)]]

\* One from the top half, one from the bottom half, in ascending order; where
\* the halves do not meet, what is between them is not copied and as many
\* entries at the end are not written.  The loop that should fill them starts
\* its reads past the end.
Diverse(asc) ==
  LET n == Len(asc)
      half == Half(n)
  IN [i \in 1..Least(n, 2 * half) |->
        IF i % 2 = 1 THEN asc[n - half + (i + 1) \div 2] ELSE asc[i \div 2]]

Unwritten == [slug : {Junk}, score : {0, 10 * MinScore}]

\* The blended scores are overwritten by the copy, and the last sort undoes the
\* order the copy was in.
Reranked(cands) ==
  UNION {LET kept == Diverse(Reverse(desc))
         IN UNION {Sorted(kept \o junk) : junk \in [1..(Len(cands) - Len(kept)) -> Unwritten]} :
         desc \in Sorted(cands)}

Enough(c) == c.score >= 10 * MinScore

\* if (n > limit) n = limit, and what has the minimum score moves down
Filtered(cands, limit) ==
  LET n == Least(Len(cands), limit)
      final[i \in 0..n] ==
        IF i = 0 THEN <<>>
        ELSE IF Enough(cands[i]) THEN Append(final[i - 1], cands[i]) ELSE final[i - 1]
  IN  final[n]

Rerank ==
  /\ stage = "rerank"
  /\ stage' = "done"
  /\ \E cands \in Reranked(list) : list' = Filtered(cands, request[2])
  /\ UNCHANGED <<catalogVars, now, request, liked>>

\* The caller takes the result.
TakeResult ==
  /\ stage = "done"
  /\ stage' = "idle"
  /\ list' = <<>>
  /\ liked' = {}
  /\ UNCHANGED <<catalogVars, now, request>>

RecsNext ==
  \/ Tick \/ Rank \/ Rerank \/ TakeResult
  \/ \E s \in Items : Register(s)
  \/ \E c \in Cell : LogEvent(c)
  \/ \E u \in Users, limit \in Limits : Retrieve(u, limit)

RecsSpec == RecsInit /\ [][RecsNext]_recsVars

-----------------------------------------------------------------------------
(* Properties *)

\* The database, the step and the candidates keep their shapes.
RecsTypeOK ==
  /\ created \in [Items -> 0..MaxClock]
  /\ events \in [Cell -> 0..MaxEvents]
  /\ now \in 1..MaxClock
  /\ logged \in 0..MaxEvents
  /\ stage \in {"idle", "rank", "rerank", "done"}
  /\ request \in Users \X Limits
  /\ Len(list) <= request[2]
  /\ \A i \in DOMAIN list : list[i].slug \in Registered \union {Junk} /\ list[i].score \in Int

\* The re-ranking against what it amounts to: the candidates, best first, without
\* the middle ones (one for an odd number of three or more, and all beyond twice
\* MaxHalf), each replaced by an entry nobody wrote, and without those below the
\* minimum.  The diversity it is for never shows.
RerankMatchesReference ==
  [][stage = "rerank" /\ stage' = "done" =>
       LET n == Len(list)
           lost == IF n < 2 THEN 0 ELSE n - 2 * Least(n \div 2, MaxHalf)
           middle == (n - lost) \div 2 + 1 .. (n + lost) \div 2
           good == {k \in DOMAIN list' : list'[k].slug # Junk}
       IN /\ \A i \in 1..Len(list') - 1 : list'[i].score >= list'[i + 1].score
          /\ Len(list') - Cardinality(good) <= lost
          /\ {list'[k] : k \in good} \subseteq ToSet(list)
          /\ \A i \in 1..n :
               Cardinality({k \in good : list'[k].score = list[i].score})
                 = Cardinality({k \in (1..n) \ middle : Enough(list[k]) /\ list[k].score = list[i].score})]_recsVars

\* Whatever is logged meanwhile: of the contents returned to a user with a
\* history, all but the one first retrieved share a tag with it.
AtMostOneUnrelated ==
  stage # "idle" /\ liked # {} =>
    Cardinality({i \in DOMAIN list : list[i].slug # Junk /\ ~Related(list[i].slug, liked)}) <= 1
=============================================================================
