------------------------- MODULE WubuWikiRecs_proofs ------------------------
(***************************************************************************)
(* Theorems about the two components over SQLite tables: WubuWiki, for     *)
(* every set of processes, slugs and contents, every hash and every number *)
(* of calls, and WubuRecs, for every catalog, event log and limit.  They   *)
(* share the induction their loops and sorted lists need.                  *)
(***************************************************************************)
EXTENDS WubuWiki, WubuRecs, FiniteSetTheorems, TLAPS

\* The steps of a call that was given a slug and a content.
GivenSteps == {"check", "delete", "insert", "checkpoint", "facts", "put"}

\* The part of TypeOK that upserts depend on.
UpsertTypes ==
  /\ checkpoints \in [Slugs -> Hashes \union {NoHash}]
  /\ facts \in [Slugs -> Maybe]
  /\ latest \in [Slugs -> Maybe]
  /\ pc \in [Procs -> Steps]
  /\ DOMAIN call = Procs
  /\ \A p \in Procs : pc[p] \in GivenSteps => Arg(p) \in Upserts
  /\ crashes \in Nat

\* Init establishes UpsertTypes.
LEMMA InitUpsertTypes == Init => UpsertTypes
  BY DEF Init, UpsertTypes, Nothing, Maybe, Steps, GivenSteps

\* The first step of a call, and the only write of the calls that have one.
Starts(p) ==
  \/ \E u \in Upserts : Upsert(p, u) \/ PutFact(p, u)
  \/ \E pair \in Slugs \X Slugs : Link(p, pair)
  \/ ClearLinks(p)
  \/ ReadArticles(p)

Writes(p) == WriteFact(p) \/ WriteLink(p) \/ WriteClear(p) \/ WriteLinks(p)

\* A step of the system is one of a process.
LEMMA NextSteps ==
  ASSUME [Next]_vars
  PROVE  \/ UNCHANGED vars
         \/ \E p \in Procs :
              \/ Starts(p) \/ Writes(p) \/ Crash(p)
              \/ CheckCheckpoint(p) \/ DeleteArticle(p) \/ InsertArticle(p)
              \/ SaveCheckpoint(p) \/ StoreFacts(p)
  BY DEF Next, Starts, Writes

\* A call that has returned has no effect on the other processes' calls.
LEMMA ReturnsAlone ==
  ASSUME UpsertTypes, NEW p \in Procs, Return(p)
  PROVE  /\ pc' \in [Procs -> Steps] /\ pc'[p] = "idle" /\ DOMAIN call' = Procs
         /\ \A q \in Procs : q # p => pc'[q] = pc[q] /\ call'[q] = call[q]
  BY DEF Return, Goto, UpsertTypes, Steps

\* A call that begins changes no table.
LEMMA StartsAlone ==
  ASSUME UpsertTypes, NEW p \in Procs, Starts(p)
  PROVE  /\ pc[p] = "idle" /\ pc'[p] \in {"check", "put", "relate", "unlink", "link"}
         /\ pc'[p] \in {"check", "put"} => Arg(p)' \in Upserts
         /\ \A q \in Procs : q # p => pc'[q] = pc[q] /\ call'[q] = call[q]
         /\ pc' \in [Procs -> Steps] /\ DOMAIN call' = Procs /\ Begin(p)
         /\ UNCHANGED <<articles, checkpoints, facts, links, crashes, latest, unsettled>>
  <1>1. ASSUME NEW locals, NEW step \in {"check", "put", "relate", "unlink"},
               Start(p, locals, step),
               step \in {"check", "put"} => \E u \in Upserts : locals.given = <<u>>
        PROVE  /\ pc[p] = "idle" /\ pc'[p] \in {"check", "put", "relate", "unlink", "link"}
               /\ pc'[p] \in {"check", "put"} => Arg(p)' \in Upserts
               /\ \A q \in Procs : q # p => pc'[q] = pc[q] /\ call'[q] = call[q]
               /\ pc' \in [Procs -> Steps] /\ DOMAIN call' = Procs /\ Begin(p)
               /\ UNCHANGED <<articles, checkpoints, facts, links, crashes, latest, unsettled>>
    <2>1. pc'[p] = step /\ call'[p] = locals
      BY <1>1 DEF Start, Goto, UpsertTypes
    <2>2. step \in {"check", "put"} => Arg(p)' \in Upserts
      BY <1>1, <2>1 DEF Arg
    <2> QED
      BY <1>1, <2>1, <2>2 DEF Start, Goto, UpsertTypes, Steps, WriteSteps, dbVars
  <1>2. ASSUME NEW u \in Upserts
        PROVE  [NoCall EXCEPT !.given = <<u>>].given = <<u>>
    BY DEF NoCall
  <1>3. CASE \E u \in Upserts : Upsert(p, u)
    BY <1>1, <1>2, <1>3 DEF Upsert
  <1>4. CASE \E u \in Upserts : PutFact(p, u)
    BY <1>1, <1>2, <1>4 DEF PutFact
  <1>5. CASE ClearLinks(p) \/ \E pair \in Slugs \X Slugs : Link(p, pair)
    BY <1>1, <1>5 DEF Link, ClearLinks
  <1>6. CASE ReadArticles(p)
    BY <1>6 DEF ReadArticles, Goto, UpsertTypes, Steps, WriteSteps, dbVars
  <1> QED
    BY <1>3, <1>4, <1>5, <1>6 DEF Starts

\* A call that is one write leaves articles and checkpoints alone and removes no fact.
LEMMA WritesAlone ==
  ASSUME UpsertTypes, NEW p \in Procs, Writes(p)
  PROVE  /\ pc[p] \in {"put", "relate", "unlink", "link"} /\ Return(p)
         /\ UNCHANGED <<articles, checkpoints, crashes, latest, unsettled, overlaps>>
         /\ facts' \in [Slugs -> Maybe]
         /\ \A s \in Slugs : facts[s] # NoContent => facts'[s] # NoContent
  <1>1. CASE WriteFact(p)
    <2>1. Arg(p) \in Upserts
      BY <1>1 DEF WriteFact, UpsertTypes, GivenSteps
    <2> QED
      BY <1>1, <2>1, WikiAssumption DEF WriteFact, UpsertTypes, Upserts, Maybe
  <1>2. CASE WriteLink(p) \/ WriteClear(p) \/ WriteLinks(p)
    BY <1>2 DEF WriteLink, WriteClear, WriteLinks, UpsertTypes
  <1> QED
    BY <1>1, <1>2 DEF Writes

(* Every step keeps UpsertTypes.                                           *)
LEMMA NextUpsertTypes == UpsertTypes /\ [Next]_vars => UpsertTypes'
  <1> SUFFICES ASSUME UpsertTypes, [Next]_vars PROVE UpsertTypes'
    OBVIOUS
  <1>0. CASE UNCHANGED vars
    BY <1>0 DEF vars, dbVars, UpsertTypes, Arg
  <1>1. ASSUME NEW p \in Procs, Starts(p) PROVE UpsertTypes'
    BY <1>1, StartsAlone DEF UpsertTypes, Arg, GivenSteps
  <1>2. ASSUME NEW p \in Procs, CheckCheckpoint(p) PROVE UpsertTypes'
    <2>1. CASE Unchanged(Arg(p))
      <3>1. Arg(p) \in Upserts
        BY <1>2 DEF CheckCheckpoint, UpsertTypes, GivenSteps
      <3>2. latest' \in [Slugs -> Maybe]
        BY <1>2, <2>1, <3>1 DEF CheckCheckpoint, UpsertTypes, Upserts, Maybe
      <3> QED
        BY <1>2, <2>1, <3>2, ReturnsAlone DEF CheckCheckpoint, UpsertTypes, dbVars, Arg, GivenSteps
    <2>2. CASE ~Unchanged(Arg(p))
      BY <1>2, <2>2
         DEF CheckCheckpoint, Goto, UpsertTypes, dbVars, Arg, Steps, WriteSteps, GivenSteps
    <2> QED
      BY <2>1, <2>2
  <1>3. ASSUME NEW p \in Procs, DeleteArticle(p) PROVE UpsertTypes'
    BY <1>3 DEF DeleteArticle, Goto, UpsertTypes, Arg, Steps, WriteSteps, GivenSteps
  <1>4. ASSUME NEW p \in Procs, InsertArticle(p) PROVE UpsertTypes'
    <2>1. CASE Return(p)
      BY <1>4, <2>1, ReturnsAlone DEF InsertArticle, UpsertTypes, Arg, GivenSteps
    <2>2. CASE Goto(p, "checkpoint") /\ UNCHANGED call
      BY <1>4, <2>2 DEF InsertArticle, Goto, UpsertTypes, Arg, Steps, WriteSteps, GivenSteps
    <2> QED
      BY <1>4, <2>1, <2>2 DEF InsertArticle
  <1>5. ASSUME NEW p \in Procs, SaveCheckpoint(p) PROVE UpsertTypes'
    <2>1. Arg(p) \in Upserts
      BY <1>5 DEF SaveCheckpoint, UpsertTypes, GivenSteps
    <2>2. Replaced(Arg(p)) \in [Slugs -> Hashes \union {NoHash}]
      <3>1. \A s \in Slugs :
              Replaced(Arg(p))[s] \in {HashOf[Arg(p).content], NoHash, checkpoints[s]}
        BY DEF Replaced
      <3>2. HashOf[Arg(p).content] \in Hashes
        BY <2>1, WikiAssumption DEF Upserts
      <3> QED
        BY <3>1, <3>2 DEF Replaced, UpsertTypes
    <2>3. checkpoints' \in [Slugs -> Hashes \union {NoHash}]
      BY <1>5, <2>2 DEF SaveCheckpoint, UpsertTypes
    <2> QED
      BY <1>5, <2>3 DEF SaveCheckpoint, Goto, UpsertTypes, Arg, Steps, WriteSteps, GivenSteps
  <1>6. ASSUME NEW p \in Procs, StoreFacts(p) PROVE UpsertTypes'
    <2>1. Arg(p) \in Upserts
      BY <1>6 DEF StoreFacts, UpsertTypes, GivenSteps
    <2>2. latest' \in [Slugs -> Maybe] /\ facts' \in [Slugs -> Maybe]
      BY <1>6, <2>1 DEF StoreFacts, UpsertTypes, Upserts, Maybe
    <2> QED
      BY <1>6, <2>2, ReturnsAlone DEF StoreFacts, UpsertTypes, Arg, GivenSteps
  <1>7. ASSUME NEW p \in Procs, Writes(p) PROVE UpsertTypes'
    BY <1>7, WritesAlone, ReturnsAlone DEF UpsertTypes, Arg, GivenSteps
  <1>8. ASSUME NEW p \in Procs, Crash(p) PROVE UpsertTypes'
    BY <1>8, ReturnsAlone DEF Crash, UpsertTypes, dbVars, Arg, GivenSteps
  <1> QED
    BY <1>0, <1>1, <1>2, <1>3, <1>4, <1>5, <1>6, <1>7, <1>8, NextSteps

-----------------------------------------------------------------------------
(* Calls that do not overlap.                                              *)

\* A call that nothing disturbed has every other process idle, and until calls
\* overlap nothing is disturbed.
Undisturbed ==
  /\ \A p \in Procs \ disturbed : pc[p] # "idle" => \A q \in Procs \ {p} : pc[q] = "idle"
  /\ ~overlapped => disturbed = {}

\* Init establishes Undisturbed.
LEMMA InitUndisturbed == Init => Undisturbed
  BY DEF Init, Undisturbed

\* A call that begins leaves the calls in progress, and itself, disturbed.
LEMMA BeginUndisturbed ==
  ASSUME UpsertTypes, Undisturbed, NEW p \in Procs, pc[p] = "idle", Begin(p),
         \A q \in Procs : q # p => pc'[q] = pc[q]
  PROVE  Undisturbed'
  <1> DEFINE active == {q \in Procs \ {p} : pc[q] # "idle"}
  <1>1. /\ overlapped' = (overlapped \/ active # {})
        /\ disturbed' = IF active = {} THEN {} ELSE disturbed \union active \union {p}
    BY DEF Begin
  <1>2. CASE active = {}
    BY <1>1, <1>2 DEF Undisturbed
  <1>3. CASE active # {}
    <2>1. \A q \in Procs \ disturbed' : pc'[q] = "idle"
      BY <1>1, <1>3
    <2> QED
      BY <1>1, <1>3, <2>1 DEF Undisturbed
  <1> QED
    BY <1>2, <1>3

(* Every step keeps Undisturbed, and calls that overlapped have overlapped. *)
LEMMA NextUndisturbed ==
  ASSUME UpsertTypes, Undisturbed, [Next]_vars
  PROVE  Undisturbed' /\ (overlapped => overlapped')
  <1>1. ASSUME NEW p \in Procs, Starts(p)
        PROVE  Undisturbed' /\ (overlapped => overlapped')
    BY <1>1, StartsAlone, BeginUndisturbed DEF Begin
  <1>2. ASSUME UNCHANGED overlaps,
               \A q \in Procs : pc'[q] # "idle" => pc[q] # "idle"
        PROVE  Undisturbed' /\ (overlapped => overlapped')
    BY <1>2 DEF Undisturbed, overlaps
  <1>3. CASE UNCHANGED vars
    BY <1>2, <1>3 DEF vars
  <1>4. ASSUME NEW p \in Procs,
               \/ CheckCheckpoint(p) \/ DeleteArticle(p) \/ InsertArticle(p)
               \/ SaveCheckpoint(p) \/ StoreFacts(p) \/ Crash(p)
        PROVE  Undisturbed' /\ (overlapped => overlapped')
    <2>1. UNCHANGED overlaps /\ pc[p] # "idle"
      BY <1>4 DEF CheckCheckpoint, DeleteArticle, InsertArticle, SaveCheckpoint,
         StoreFacts, Crash
    <2>2. \A q \in Procs : q # p => pc'[q] = pc[q]
      BY <1>4 DEF CheckCheckpoint, DeleteArticle, InsertArticle, SaveCheckpoint,
         StoreFacts, Crash, Return, Goto, UpsertTypes
    <2> QED
      BY <1>2, <2>1, <2>2
  <1>5. ASSUME NEW p \in Procs, Writes(p)
        PROVE  Undisturbed' /\ (overlapped => overlapped')
    <2>1. UNCHANGED overlaps /\ Return(p)
      BY <1>5, WritesAlone
    <2> QED
      BY <1>2, <2>1, ReturnsAlone
  <1> QED
    BY <1>1, <1>3, <1>4, <1>5, NextSteps

\* No write of another process is in the way of an undisturbed call.
LEMMA NeverBusy ==
  ASSUME Undisturbed, NEW p \in Procs, p \notin disturbed, pc[p] # "idle"
  PROVE  ~Busy(p)
  BY DEF Undisturbed, Busy, WriteSteps

-----------------------------------------------------------------------------
(* What an undisturbed upsert leaves.                                      *)

\* The slug of an undisturbed upsert has no row when its INSERT comes, and
\* exactly the row it inserted afterwards.
LoneRows ==
  \A p \in Procs \ disturbed :
    /\ pc[p] = "insert" => Rows(Arg(p).slug) = {}
    /\ pc[p] \in {"checkpoint", "facts"} =>
         \E a \in articles : a.content = Arg(p).content /\ Rows(Arg(p).slug) = {a}

\* Init establishes LoneRows.
LEMMA InitLoneRows == Init => LoneRows
  BY DEF Init, LoneRows

\* Every step keeps LoneRows.
LEMMA NextLoneRows ==
  ASSUME UpsertTypes, Undisturbed, LoneRows, [Next]_vars
  PROVE  LoneRows'
  \* the steps that touch no article and bring no upsert past its DELETE
  <1>0. ASSUME UNCHANGED articles,
               \A q \in Procs \ disturbed' :
                 pc'[q] \in {"insert", "checkpoint", "facts"} =>
                   /\ q \notin disturbed /\ call'[q] = call[q]
                   /\ \/ pc'[q] = pc[q]
                      \/ pc[q] = "checkpoint" /\ pc'[q] = "facts"
        PROVE  LoneRows'
    BY <1>0 DEF LoneRows, Rows, Arg
  <1>1. CASE UNCHANGED vars
    BY <1>0, <1>1 DEF vars, dbVars, overlaps
  <1>2. ASSUME NEW p \in Procs, Starts(p) PROVE LoneRows'
    <2>1. /\ articles' = articles /\ pc'[p] \notin {"insert", "checkpoint", "facts"} /\ Begin(p)
          /\ \A q \in Procs : q # p => pc'[q] = pc[q] /\ call'[q] = call[q]
      BY <1>2, StartsAlone
    <2>2. \A q \in Procs \ disturbed' : q # p => q \notin disturbed \/ pc[q] = "idle"
      BY <2>1 DEF Begin
    <2> QED
      BY <1>0, <2>1, <2>2
  <1>3. ASSUME NEW p \in Procs, DeleteArticle(p) PROVE LoneRows'
    <2>1. /\ pc[p] = "delete" /\ pc'[p] = "insert" /\ call' = call /\ UNCHANGED overlaps
          /\ \A q \in Procs : q # p => pc'[q] = pc[q]
      BY <1>3 DEF DeleteArticle, Goto, UpsertTypes
    <2>2. CASE p \notin disturbed
      <3>1. articles' = articles \ Rows(Arg(p).slug)
        BY <1>3, <2>1, <2>2, NeverBusy DEF DeleteArticle
      <3>2. \A q \in Procs \ {p} : pc'[q] = "idle"
        BY <2>1, <2>2 DEF Undisturbed
      <3> QED
        BY <2>1, <3>1, <3>2 DEF LoneRows, Rows, Arg
    <2>3. CASE p \in disturbed
      <3>1. \A q \in Procs \ disturbed : pc'[q] = "idle"
        BY <2>1, <2>3 DEF Undisturbed
      <3> QED
        BY <2>1, <3>1 DEF LoneRows, overlaps
    <2> QED
      BY <2>2, <2>3
  <1>4. ASSUME NEW p \in Procs, InsertArticle(p) PROVE LoneRows'
    <2> DEFINE row == [id |-> NextRowid, slug |-> Arg(p).slug, content |-> Arg(p).content]
    <2>1. /\ pc[p] = "insert" /\ UNCHANGED overlaps
          /\ \A q \in Procs : q # p => pc'[q] = pc[q]
      BY <1>4 DEF InsertArticle, Return, Goto, UpsertTypes
    <2>2. CASE p \notin disturbed
      <3>1. articles' = articles \union {row} /\ pc'[p] = "checkpoint" /\ call' = call
        BY <1>4, <2>1, <2>2, NeverBusy DEF InsertArticle, Goto, UpsertTypes
      <3>2. \A q \in Procs \ {p} : pc'[q] = "idle"
        BY <2>1, <2>2 DEF Undisturbed
      <3>3. Rows(row.slug) = {} /\ row.slug = Arg(p).slug
        BY <2>1, <2>2 DEF LoneRows
      <3>4. Rows(row.slug)' = {row}
        BY <3>1, <3>3 DEF Rows, Arg
      <3>5. Rows(Arg(p).slug)' = {row} /\ row.content = Arg(p)'.content /\ row \in articles'
        BY <3>1, <3>4 DEF Arg, Rows
      <3> QED
        BY <2>1, <3>1, <3>2, <3>5 DEF LoneRows
    <2>3. CASE p \in disturbed
      <3>1. \A q \in Procs \ disturbed : pc'[q] = "idle"
        BY <2>1, <2>3 DEF Undisturbed
      <3> QED
        BY <2>1, <3>1 DEF LoneRows, overlaps
    <2> QED
      BY <2>2, <2>3
  <1>5. ASSUME NEW p \in Procs, SaveCheckpoint(p) PROVE LoneRows'
    <2>1. /\ articles' = articles /\ call' = call /\ UNCHANGED overlaps
          /\ pc[p] = "checkpoint" /\ pc'[p] = "facts"
          /\ \A q \in Procs : q # p => pc'[q] = pc[q]
      BY <1>5 DEF SaveCheckpoint, Goto, UpsertTypes
    <2> QED
      BY <1>0, <2>1 DEF overlaps
  <1>6. ASSUME NEW p \in Procs, CheckCheckpoint(p) \/ StoreFacts(p) \/ Crash(p)
        PROVE  LoneRows'
    <2>1. /\ articles' = articles /\ UNCHANGED overlaps
          /\ pc'[p] \in {"idle", "delete"}
          /\ \A q \in Procs : q # p => pc'[q] = pc[q] /\ call'[q] = call[q]
      BY <1>6 DEF CheckCheckpoint, StoreFacts, Crash, Return, Goto, UpsertTypes, dbVars
    <2> QED
      BY <1>0, <2>1 DEF overlaps
  <1>7. ASSUME NEW p \in Procs, Writes(p) PROVE LoneRows'
    <2>1. /\ articles' = articles /\ UNCHANGED overlaps /\ pc'[p] = "idle"
          /\ \A q \in Procs : q # p => pc'[q] = pc[q] /\ call'[q] = call[q]
      BY <1>7, WritesAlone, ReturnsAlone
    <2> QED
      BY <1>0, <2>1 DEF overlaps
  <1> QED
    BY <1>1, <1>2, <1>3, <1>4, <1>5, <1>6, <1>7, NextSteps

\* A step that ends an upsert at its facts is that step, or a crash.
LEMMA FactsEnd ==
  ASSUME UpsertTypes, [Next]_vars, crashes' = crashes, NEW p \in Procs,
         pc[p] = "facts", pc'[p] = "idle"
  PROVE  StoreFacts(p)
  <1>1. pc'[p] # pc[p] /\ crashes \in Nat
    BY DEF UpsertTypes
  <1>2. ASSUME NEW q \in Procs, Starts(q) \/ Writes(q) PROVE FALSE
    BY <1>1, <1>2, StartsAlone, WritesAlone, ReturnsAlone
  <1>3. ASSUME NEW q \in Procs,
               \/ CheckCheckpoint(q) \/ DeleteArticle(q) \/ InsertArticle(q)
               \/ SaveCheckpoint(q) \/ Crash(q)
        PROVE  FALSE
    BY <1>1, <1>3 DEF CheckCheckpoint, DeleteArticle, InsertArticle, SaveCheckpoint, Crash,
       Return, Goto, UpsertTypes
  <1>4. ASSUME NEW q \in Procs, StoreFacts(q) PROVE q = p
    BY <1>1, <1>4, ReturnsAlone DEF StoreFacts
  <1> QED
    BY <1>1, <1>2, <1>3, <1>4, NextSteps DEF vars

(* Whatever overlapping calls, refused writes and crashes have left behind *)
(* an upsert that runs alone from its check to its end leaves one row for  *)
(* its slug, with its content, and its fact.                               *)
THEOREM LoneUpsertAlwaysHeals == Spec => LoneUpsertHeals
  <1>1. Init => UpsertTypes /\ Undisturbed /\ LoneRows
    BY InitUpsertTypes, InitUndisturbed, InitLoneRows
  <1>2. UpsertTypes /\ Undisturbed /\ LoneRows /\ [Next]_vars =>
          (UpsertTypes /\ Undisturbed /\ LoneRows)'
    BY NextUpsertTypes, NextUndisturbed, NextLoneRows
  <1>3. UpsertTypes /\ Undisturbed /\ LoneRows /\ [Next]_vars =>
          [\A p \in Procs \ disturbed :
             pc[p] = "facts" /\ pc'[p] = "idle" /\ crashes' = crashes =>
               /\ \E a \in articles : a.content = Arg(p).content /\ Rows(Arg(p).slug) = {a}
               /\ Arg(p).content \in HasFact => facts'[Arg(p).slug] # NoContent]_vars
    <2> SUFFICES ASSUME UpsertTypes, Undisturbed, LoneRows, [Next]_vars,
                        NEW p \in Procs \ disturbed,
                        pc[p] = "facts", pc'[p] = "idle", crashes' = crashes
                 PROVE  /\ \E a \in articles : a.content = Arg(p).content /\ Rows(Arg(p).slug) = {a}
                        /\ Arg(p).content \in HasFact => facts'[Arg(p).slug] # NoContent
      OBVIOUS
    <2>1. StoreFacts(p) /\ ~Busy(p) /\ Arg(p) \in Upserts
      BY FactsEnd, NeverBusy DEF UpsertTypes, GivenSteps
    <2>2. Arg(p).content \in HasFact => facts'[Arg(p).slug] # NoContent
      BY <2>1, WikiAssumption DEF StoreFacts, UpsertTypes, Upserts
    <2> QED
      BY <2>2 DEF LoneRows
  <1> QED
    BY <1>1, <1>2, <1>3, PTL DEF Spec, LoneUpsertHeals

-----------------------------------------------------------------------------
(* One article per slug.                                                   *)

OneRow == \A a, b \in articles : a.slug = b.slug => a = b

(* A step of an undisturbed call inserts only where the DELETE left none.  *)
LEMMA NextOneRow ==
  ASSUME UpsertTypes, Undisturbed, LoneRows, disturbed = {}, OneRow, [Next]_vars
  PROVE  OneRow'
  <1>1. CASE UNCHANGED articles
    BY <1>1 DEF OneRow
  <1>2. ASSUME NEW p \in Procs, DeleteArticle(p) PROVE OneRow'
    BY <1>2 DEF DeleteArticle, OneRow
  <1>3. ASSUME NEW p \in Procs, InsertArticle(p) PROVE OneRow'
    <2> DEFINE row == [id |-> NextRowid, slug |-> Arg(p).slug, content |-> Arg(p).content]
    <2>1. articles' = articles \union {row} \/ articles' = articles
      BY <1>3 DEF InsertArticle
    <2>2. \A a \in articles : a.slug # row.slug
      BY <1>3 DEF InsertArticle, LoneRows, Rows
    <2> QED
      BY <2>1, <2>2 DEF OneRow
  <1>4. ASSUME NEW p \in Procs,
               \/ Starts(p) \/ Writes(p) \/ Crash(p) \/ CheckCheckpoint(p)
               \/ SaveCheckpoint(p) \/ StoreFacts(p)
        PROVE  UNCHANGED articles
    BY <1>4, StartsAlone, WritesAlone
       DEF Crash, CheckCheckpoint, SaveCheckpoint, StoreFacts, dbVars
  <1> QED
    BY <1>1, <1>2, <1>3, <1>4, NextSteps DEF vars, dbVars

(* However often processes crash inside an upsert and start over, calls    *)
(* that do not overlap never leave two articles with one slug, although    *)
(* nothing in the schema forbids it.                                       *)
THEOREM SerialOneArticle == Spec => []OneArticlePerSlug
  <1> DEFINE Inv == UpsertTypes /\ Undisturbed /\ LoneRows /\ OneArticlePerSlug
  <1>1. Init => Inv
    BY InitUpsertTypes, InitUndisturbed, InitLoneRows DEF Init, OneArticlePerSlug
  <1>2. Inv /\ [Next]_vars => Inv'
    <2> SUFFICES ASSUME Inv, [Next]_vars PROVE Inv'
      OBVIOUS
    <2>1. UpsertTypes' /\ Undisturbed' /\ LoneRows' /\ (overlapped => overlapped')
      BY NextUpsertTypes, NextUndisturbed, NextLoneRows
    <2>2. ASSUME ~overlapped PROVE OneRow'
      <3>1. disturbed = {} /\ OneRow
        BY <2>2 DEF Undisturbed, OneArticlePerSlug, OneRow
      <3> QED
        BY <3>1, NextOneRow
    <2> QED
      BY <2>1, <2>2 DEF OneArticlePerSlug, OneRow
  <1>3. Inv => OneArticlePerSlug
    OBVIOUS
  <1> QED
    BY <1>1, <1>2, <1>3, PTL DEF Spec

-----------------------------------------------------------------------------
(* Settled slugs.                                                          *)

\* The upserts that are past their DELETE.
Past == {"insert", "checkpoint", "facts"}

\* What the tables hold of a slug that is settled.
SettledSlug(s) ==
  /\ latest[s] = NoContent => Rows(s) = {} /\ checkpoints[s] = NoHash
  /\ latest[s] # NoContent =>
       Holds(s, latest[s]) /\ checkpoints[s] \in {NoHash, HashOf[latest[s]]}
  /\ \A a \in Rows(s) : a.content \in HasFact => facts[s] # NoContent

\* An upsert past its DELETE has unsettled its slug; one that has met nobody has
\* also saved its checkpoint when it comes to its facts.
Settled ==
  /\ \A p \in Procs : pc[p] \in Past => Arg(p).slug \in unsettled
  /\ \A s \in Slugs \ unsettled : SettledSlug(s)
  /\ \A p \in Procs \ disturbed :
       pc[p] = "facts" => checkpoints[Arg(p).slug] = HashOf[Arg(p).content]

\* Init establishes Settled.
LEMMA InitSettled == Init => Settled
  BY DEF Init, Settled, SettledSlug, Rows, Nothing, Past

\* A slug whose rows, checkpoint and content have not changed stays settled.
LEMMA StaysSettled ==
  ASSUME NEW s \in Slugs, SettledSlug(s),
         Rows(s)' = Rows(s), latest'[s] = latest[s],
         checkpoints'[s] \in {checkpoints[s], NoHash},
         facts[s] # NoContent => facts'[s] # NoContent
  PROVE  SettledSlug(s)'
  <1>1. ASSUME Holds(s, latest[s]) PROVE Holds(s, latest[s])'
    <2>1. PICK a \in articles : Rows(s) = {a} /\ Alike(a.content, latest[s])
      BY <1>1 DEF Holds
    <2>2. a \in articles'
      BY <2>1 DEF Rows
    <2>3. Alike(a.content, latest[s])' = Alike(a.content, latest[s])
      BY DEF Alike
    <2> QED
      BY <2>1, <2>2, <2>3 DEF Holds
  <1> QED
    BY <1>1 DEF SettledSlug

\* On a settled slug an upsert that finds its hash finds its article.
LEMMA SettledFinds ==
  ASSUME UpsertTypes, NEW u \in Upserts, SettledSlug(u.slug), Unchanged(u)
  PROVE  latest[u.slug] # NoContent /\ Alike(latest[u.slug], u.content) /\ Holds(u.slug, u.content)
  <1>1. checkpoints[u.slug] = HashOf[u.content] /\ HashOf[u.content] # NoHash
    BY WikiAssumption DEF Unchanged, Upserts
  <1>2. latest[u.slug] # NoContent /\ Alike(latest[u.slug], u.content) /\ Holds(u.slug, latest[u.slug])
    BY <1>1 DEF SettledSlug, Alike
  <1> QED
    BY <1>2 DEF Holds, Alike

(* Every step keeps Settled.                                               *)
LEMMA NextSettled ==
  ASSUME UpsertTypes, Undisturbed, LoneRows, Settled, [Next]_vars
  PROVE  Settled'
  <1>a. NoContent \notin Contents
    BY WikiAssumption
  \* the steps that leave the tables, and the upserts past their DELETE, alone
  <1>0. ASSUME UNCHANGED <<articles, checkpoints, latest, unsettled>>,
               \A s \in Slugs : facts[s] # NoContent => facts'[s] # NoContent,
               \A q \in Procs :
                 pc'[q] \in Past =>
                   /\ pc'[q] = pc[q] /\ call'[q] = call[q]
                   /\ q \notin disturbed' => q \notin disturbed
        PROVE  Settled'
    <2>1. \A s \in Slugs \ unsettled : SettledSlug(s)'
      BY <1>0, StaysSettled DEF Settled, Rows
    <2>2. \A q \in Procs : pc'[q] \in Past =>
            pc'[q] = pc[q] /\ Arg(q)' = Arg(q) /\ (q \notin disturbed' => q \notin disturbed)
      BY <1>0 DEF Arg
    <2> QED
      BY <1>0, <2>1, <2>2 DEF Settled, Past
  <1>1. CASE UNCHANGED vars
    BY <1>0, <1>1 DEF vars, dbVars, overlaps
  <1>2. ASSUME NEW p \in Procs, Starts(p) PROVE Settled'
    <2>1. /\ UNCHANGED <<articles, checkpoints, facts, latest, unsettled>>
          /\ pc'[p] \notin Past /\ Begin(p) /\ pc[p] = "idle"
          /\ \A q \in Procs : q # p => pc'[q] = pc[q] /\ call'[q] = call[q]
      BY <1>2, StartsAlone DEF Past
    <2>2. \A q \in Procs \ disturbed' : q # p => q \notin disturbed \/ pc[q] = "idle"
      BY <2>1 DEF Begin
    <2> QED
      BY <1>0, <2>1, <2>2 DEF Past
  <1>3. ASSUME NEW p \in Procs, CheckCheckpoint(p) PROVE Settled'
    <2>1. /\ Arg(p) \in Upserts /\ pc[p] = "check" /\ pc'[p] \in {"idle", "delete"}
          /\ UNCHANGED <<articles, checkpoints, facts, unsettled, disturbed>>
          /\ \A q \in Procs : q # p => pc'[q] = pc[q] /\ call'[q] = call[q]
      BY <1>3 DEF CheckCheckpoint, Return, Goto, UpsertTypes, GivenSteps, dbVars, overlaps
    <2>2. CASE ~Unchanged(Arg(p))
      <3>1. latest' = latest
        BY <1>3, <2>2 DEF CheckCheckpoint
      <3> QED
        BY <1>0, <2>1, <3>1 DEF Past
    <2>3. CASE Unchanged(Arg(p))
      <3>1. latest' = [latest EXCEPT ![Arg(p).slug] = Arg(p).content]
        BY <1>3, <2>3 DEF CheckCheckpoint
      <3>2. \A q \in Procs : pc'[q] \in Past => pc'[q] = pc[q] /\ Arg(q)' = Arg(q)
        BY <2>1 DEF Past, Arg
      <3>3. ASSUME NEW s \in Slugs \ unsettled PROVE SettledSlug(s)'
        <4>1. CASE s # Arg(p).slug
          <5>1. latest'[s] = latest[s]
            BY <2>1, <3>1, <4>1 DEF UpsertTypes, Upserts
          <5> QED
            BY <2>1, <5>1, StaysSettled DEF Settled, Rows
        <4>2. CASE s = Arg(p).slug
          <5>1. latest'[s] = Arg(p).content /\ Arg(p).content # NoContent
            BY <2>1, <3>1, <4>2, <1>a DEF UpsertTypes, Upserts
          <5>2. SettledSlug(s) /\ checkpoints[s] = HashOf[Arg(p).content]
            BY <2>3, <4>2 DEF Settled, Unchanged
          <5>3. Holds(s, Arg(p).content)
            BY <2>1, <2>3, <4>2, <5>2, SettledFinds
          <5>4. Holds(s, latest[s])' /\ Rows(s)' = Rows(s)
            BY <2>1, <5>1, <5>3 DEF Holds, Rows, Alike
          <5> QED
            BY <2>1, <5>1, <5>2, <5>4 DEF SettledSlug
        <4> QED
          BY <4>1, <4>2
      <3> QED
        BY <2>1, <3>2, <3>3 DEF Settled, Past
    <2> QED
      BY <2>2, <2>3
  <1>4. ASSUME NEW p \in Procs, DeleteArticle(p) PROVE Settled'
    <2>1. /\ Arg(p) \in Upserts /\ pc[p] = "delete" /\ pc'[p] = "insert"
          /\ unsettled' = unsettled \union {Arg(p).slug}
          /\ UNCHANGED <<checkpoints, facts, latest, call, disturbed>>
          /\ \A q \in Procs : q # p => pc'[q] = pc[q]
      BY <1>4 DEF DeleteArticle, Goto, UpsertTypes, GivenSteps, overlaps
    <2>2. \A s \in Slugs \ unsettled' : Rows(s)' = Rows(s)
      BY <1>4, <2>1 DEF DeleteArticle, Rows
    <2>3. \A q \in Procs : Arg(q)' = Arg(q)
      BY <2>1 DEF Arg
    <2>4. \A s \in Slugs \ unsettled' : SettledSlug(s)'
      BY <2>1, <2>2, StaysSettled DEF Settled
    <2> QED
      BY <2>1, <2>3, <2>4 DEF Settled, Past
  <1>5. ASSUME NEW p \in Procs, InsertArticle(p) PROVE Settled'
    <2>1. /\ pc[p] = "insert" /\ pc'[p] \in {"checkpoint", "idle"}
          /\ UNCHANGED <<checkpoints, facts, latest, unsettled, disturbed>>
          /\ pc'[p] = "checkpoint" => call'[p] = call[p]
          /\ \A q \in Procs : q # p => pc'[q] = pc[q] /\ call'[q] = call[q]
      BY <1>5 DEF InsertArticle, Return, Goto, UpsertTypes, overlaps
    <2>2. Arg(p).slug \in unsettled
      BY <2>1 DEF Settled, Past
    <2>3. \A s \in Slugs \ unsettled : Rows(s)' = Rows(s)
      BY <1>5, <2>2 DEF InsertArticle, Rows
    <2>4. \A q \in Procs : q # p \/ pc'[p] = "checkpoint" => Arg(q)' = Arg(q)
      BY <2>1 DEF Arg
    <2>5. \A s \in Slugs \ unsettled' : SettledSlug(s)'
      BY <2>1, <2>3, StaysSettled DEF Settled
    <2> QED
      BY <2>1, <2>2, <2>4, <2>5 DEF Settled, Past
  <1>6. ASSUME NEW p \in Procs, SaveCheckpoint(p) PROVE Settled'
    <2>1. /\ pc[p] = "checkpoint" /\ pc'[p] = "facts"
          /\ UNCHANGED <<articles, facts, latest, unsettled, disturbed, call>>
          /\ \A q \in Procs : q # p => pc'[q] = pc[q]
          /\ Arg(p) \in Upserts
      BY <1>6 DEF SaveCheckpoint, Goto, UpsertTypes, GivenSteps, overlaps
    <2>2. Arg(p).slug \in unsettled
      BY <2>1 DEF Settled, Past
    <2>3. \A s \in Slugs : s # Arg(p).slug => checkpoints'[s] \in {checkpoints[s], NoHash}
      BY <1>6 DEF SaveCheckpoint, Replaced
    <2>4. \A s \in Slugs \ unsettled' : SettledSlug(s)'
      BY <2>1, <2>2, <2>3, StaysSettled DEF Settled, Rows
    <2>5. \A q \in Procs : Arg(q)' = Arg(q)
      BY <2>1 DEF Arg
    <2>6. CASE p \notin disturbed
      <3>1. checkpoints' = Replaced(Arg(p)) /\ \A q \in Procs \ {p} : pc[q] = "idle"
        BY <1>6, <2>1, <2>6, NeverBusy DEF SaveCheckpoint, Undisturbed
      <3>2. checkpoints'[Arg(p).slug] = HashOf[Arg(p).content]
        BY <2>1, <3>1 DEF Replaced, Upserts
      <3> QED
        BY <2>1, <2>2, <2>4, <2>5, <3>1, <3>2 DEF Settled, Past
    <2>7. CASE p \in disturbed
      <3>1. \A q \in Procs \ disturbed : pc'[q] = "idle"
        BY <2>1, <2>7 DEF Undisturbed
      <3> QED
        BY <2>1, <2>2, <2>4, <2>5, <3>1 DEF Settled, Past
    <2> QED
      BY <2>6, <2>7
  <1>7. ASSUME NEW p \in Procs, StoreFacts(p) PROVE Settled'
    <2>1. /\ pc[p] = "facts" /\ pc'[p] = "idle" /\ Arg(p) \in Upserts
          /\ UNCHANGED <<articles, checkpoints, disturbed>>
          /\ latest' = [latest EXCEPT ![Arg(p).slug] = Arg(p).content]
          /\ unsettled' = IF p \in disturbed THEN unsettled ELSE unsettled \ {Arg(p).slug}
          /\ \A q \in Procs : q # p => pc'[q] = pc[q] /\ call'[q] = call[q]
      BY <1>7, ReturnsAlone DEF StoreFacts, UpsertTypes, GivenSteps, overlaps
    <2>2. Arg(p).slug \in unsettled
      BY <2>1 DEF Settled, Past
    <2>3. \A s \in Slugs : facts[s] # NoContent => facts'[s] # NoContent
      BY <1>7, <2>1, <1>a DEF StoreFacts, UpsertTypes, Upserts
    <2>4. \A s \in Slugs : s # Arg(p).slug => latest'[s] = latest[s]
      BY <2>1 DEF UpsertTypes, Upserts
    <2>5. \A s \in Slugs \ unsettled : SettledSlug(s)'
      BY <2>1, <2>2, <2>3, <2>4, StaysSettled DEF Settled, Rows
    <2>6. \A q \in Procs : q # p => Arg(q)' = Arg(q)
      BY <2>1 DEF Arg
    <2>7. CASE p \in disturbed
      BY <2>1, <2>5, <2>6, <2>7 DEF Settled, Past
    <2>8. CASE p \notin disturbed
      <3>1. ~Busy(p) /\ \A q \in Procs : pc'[q] = "idle"
        BY <2>1, <2>8, NeverBusy DEF Undisturbed
      <3>2. Arg(p).content \in HasFact => facts'[Arg(p).slug] # NoContent
        BY <1>7, <2>1, <3>1, <1>a DEF StoreFacts, UpsertTypes, Upserts
      <3>3. latest'[Arg(p).slug] = Arg(p).content /\ Arg(p).content # NoContent
        BY <2>1, <1>a DEF UpsertTypes, Upserts
      <3>4. PICK a \in articles : a.content = Arg(p).content /\ Rows(Arg(p).slug) = {a}
        BY <2>1, <2>8 DEF LoneRows
      <3>5. checkpoints[Arg(p).slug] = HashOf[Arg(p).content]
        BY <2>1, <2>8 DEF Settled
      <3>6. \A s \in Slugs : s = Arg(p).slug => SettledSlug(s)'
        <4> SUFFICES ASSUME NEW s \in Slugs, s = Arg(p).slug PROVE SettledSlug(s)'
          OBVIOUS
        <4>1. Rows(s)' = {a} /\ a \in articles'
          BY <2>1, <3>4 DEF Rows
        <4>2. Holds(s, latest[s])'
          BY <3>3, <3>4, <4>1 DEF Holds, Alike
        <4> QED
          BY <2>1, <3>2, <3>3, <3>4, <3>5, <4>1, <4>2 DEF SettledSlug
      <3>7. \A s \in Slugs \ unsettled' : SettledSlug(s)'
        BY <2>1, <2>5, <3>6
      <3> QED
        BY <3>1, <3>7 DEF Settled, Past
    <2> QED
      BY <2>7, <2>8
  <1>8. ASSUME NEW p \in Procs, Writes(p) PROVE Settled'
    <2>1. /\ UNCHANGED <<articles, checkpoints, latest, unsettled, disturbed>> /\ pc'[p] = "idle"
          /\ \A s \in Slugs : facts[s] # NoContent => facts'[s] # NoContent
          /\ \A q \in Procs : q # p => pc'[q] = pc[q] /\ call'[q] = call[q]
      BY <1>8, WritesAlone, ReturnsAlone DEF overlaps
    <2> QED
      BY <1>0, <2>1 DEF Past
  <1>9. ASSUME NEW p \in Procs, Crash(p) PROVE Settled'
    <2>1. /\ UNCHANGED <<articles, checkpoints, facts, latest, unsettled, disturbed>>
          /\ pc'[p] = "idle"
          /\ \A q \in Procs : q # p => pc'[q] = pc[q] /\ call'[q] = call[q]
      BY <1>9, ReturnsAlone DEF Crash, dbVars, overlaps
    <2> QED
      BY <1>0, <2>1 DEF Past
  <1> QED
    BY <1>1, <1>2, <1>3, <1>4, <1>5, <1>6, <1>7, <1>8, <1>9, NextSteps

WikiInv == UpsertTypes /\ Undisturbed /\ LoneRows /\ Settled

LEMMA WikiInvariant == Spec => []WikiInv
  <1>1. Init => WikiInv
    BY InitUpsertTypes, InitUndisturbed, InitLoneRows, InitSettled DEF WikiInv
  <1>2. WikiInv /\ [Next]_vars => WikiInv'
    BY NextUpsertTypes, NextUndisturbed, NextLoneRows, NextSettled DEF WikiInv
  <1> QED
    BY <1>1, <1>2, PTL DEF Spec

(* Once an upsert of a slug has run alone the store holds, until the next  *)
(* DELETE of that slug, what it was last given, up to the hash, and its    *)
(* fact, whatever crashes, refused writes and overlapping calls do to      *)
(* other slugs, although the tables are written by four statements.        *)
THEOREM SettledStoreIsLatest == Spec => []StoreIsLatest
  <1>1. WikiInv => StoreIsLatest
    BY DEF WikiInv, Settled, SettledSlug, StoreIsLatest
  <1> QED
    BY <1>1, WikiInvariant, PTL

(* On such a slug the early return finds the article, up to the hash.      *)
THEOREM SettledUnchangedIsStored == Spec => UnchangedIsStored
  <1>1. WikiInv /\ [Next]_vars =>
          [\A p \in Procs :
             ReturnsUnchanged(p) /\ Arg(p).slug \notin unsettled =>
               Holds(Arg(p).slug, Arg(p).content)]_vars
    <2> SUFFICES ASSUME WikiInv, [Next]_vars, NEW p \in Procs,
                        ReturnsUnchanged(p), Arg(p).slug \notin unsettled
                 PROVE  Holds(Arg(p).slug, Arg(p).content)
      OBVIOUS
    <2> USE DEF WikiInv
    <2>1. pc[p] = "check" /\ pc'[p] = "idle" /\ crashes' = crashes /\ crashes \in Nat
      BY DEF ReturnsUnchanged, UpsertTypes
    <2>2. ASSUME NEW q \in Procs, Starts(q) \/ Writes(q) PROVE FALSE
      BY <2>1, <2>2, StartsAlone, WritesAlone, ReturnsAlone
    <2>3. ASSUME NEW q \in Procs,
                 \/ DeleteArticle(q) \/ InsertArticle(q) \/ SaveCheckpoint(q)
                 \/ StoreFacts(q) \/ Crash(q)
          PROVE  FALSE
      BY <2>1, <2>3 DEF DeleteArticle, InsertArticle, SaveCheckpoint, StoreFacts, Crash,
         Return, Goto, UpsertTypes
    <2>4. ASSUME NEW q \in Procs, CheckCheckpoint(q) PROVE q = p
      BY <2>1, <2>4 DEF CheckCheckpoint, Return, Goto, UpsertTypes
    <2>5. CheckCheckpoint(p)
      BY <2>1, <2>2, <2>3, <2>4, NextSteps DEF vars
    <2>6. Unchanged(Arg(p)) /\ Arg(p) \in Upserts
      BY <2>1, <2>5 DEF CheckCheckpoint, Goto, UpsertTypes, GivenSteps
    <2> QED
      BY <2>6, SettledFinds DEF Settled, Upserts
  <1> QED
    BY <1>1, WikiInvariant, PTL DEF Spec, UnchangedIsStored

-----------------------------------------------------------------------------
(* Numbers and finite sets                                                 *)

(* A nonempty set of numbers has a least element.                          *)
LEMMA LeastNumber ==
  ASSUME NEW T \in SUBSET Nat, T # {}
  PROVE  \E n \in T : \A m \in T : n <= m
  <1> DEFINE R == {ss \in Nat \X Nat : ss[1] < ss[2]}
  <1>1. IsWellFoundedOn(R, Nat)
    BY NatLessThanWellFounded, Zenon DEF OpToRel
  <1> HIDE DEF R
  <1>2. PICK n \in T : \A m \in T : <<m, n>> \notin R
    BY <1>1, WFMin, Zenon
  <1>3. \A m \in T : ~(m < n)
    BY <1>2 DEF R
  <1> QED
    BY <1>3

(* Induction, for a set of numbers.                                        *)
LEMMA Induction ==
  ASSUME NEW T, 0 \in T, \A n \in Nat : n \in T => n + 1 \in T
  PROVE  \A n \in Nat : n \in T
  <1> DEFINE Rest == Nat \ T
  <1> SUFFICES ASSUME Rest # {} PROVE FALSE
    OBVIOUS
  <1>1. Rest \in SUBSET Nat
    OBVIOUS
  <1> HIDE DEF Rest
  <1>2. PICK n \in Rest : \A m \in Rest : n <= m
    BY <1>1, LeastNumber
  <1>3. n # 0 /\ n \in Nat /\ n - 1 \in Nat
    BY <1>2 DEF Rest
  <1>4. n - 1 \in T
    BY <1>2, <1>3 DEF Rest
  <1> QED
    BY <1>2, <1>3, <1>4 DEF Rest

(* A finite nonempty set of numbers has a greatest element, which Max is.  *)
LEMMA MaxOfFinite ==
  ASSUME NEW S \in SUBSET Nat, IsFiniteSet(S), S # {}
  PROVE  Max(S) \in S /\ \A x \in S : x <= Max(S)
  <1> DEFINE Greatest(X) == \E x \in X : \A y \in X : y <= x
             T == {n \in Nat : \A X \in SUBSET Nat : IsFiniteSet(X) /\ Cardinality(X) = n + 1 => Greatest(X)}
  <1>1. 0 \in T
    <2> SUFFICES ASSUME NEW X \in SUBSET Nat, IsFiniteSet(X), Cardinality(X) = 1
                 PROVE  Greatest(X)
      OBVIOUS
    <2>0. Cardinality(X) # 0
      OBVIOUS
    <2>1. PICK x \in X : TRUE
      BY <2>0, FS_EmptySet, Zenon
    <2>2. /\ IsFiniteSet(X \ {x}) /\ Cardinality(X \ {x}) = 0
      BY <2>1, FS_RemoveElement
    <2>3. X \ {x} = {}
      BY <2>2, FS_EmptySet
    <2> QED
      BY <2>1, <2>3
  <1>2. \A n \in Nat : n \in T => n + 1 \in T
    <2> SUFFICES ASSUME NEW n \in Nat, n \in T,
                        NEW X \in SUBSET Nat, IsFiniteSet(X), Cardinality(X) = n + 2
                 PROVE  Greatest(X)
      OBVIOUS
    <2>0. Cardinality(X) # 0
      OBVIOUS
    <2>1. PICK x \in X : TRUE
      BY <2>0, FS_EmptySet, Zenon
    <2>2. IsFiniteSet(X \ {x}) /\ Cardinality(X \ {x}) = n + 1
      BY <2>1, FS_RemoveElement
    <2>3. PICK y \in X \ {x} : \A z \in X \ {x} : z <= y
      BY <2>2
    <2>4. x \in Nat /\ y \in Nat
      BY <2>1, <2>3
    <2>5. CASE x <= y
      BY <2>3, <2>5
    <2>6. CASE y <= x
      BY <2>1, <2>3, <2>4, <2>6
    <2> QED
      BY <2>4, <2>5, <2>6
  <1>3. Cardinality(S) \in Nat /\ Cardinality(S) # 0
    BY FS_CardinalityType, FS_EmptySet
  <1>4. Cardinality(S) - 1 \in T
    <2> HIDE DEF T
    <2>1. \A n \in Nat : n \in T
      BY <1>1, <1>2, Induction
    <2> QED
      BY <1>3, <2>1
  <1>5. PICK x \in S : \A y \in S : y <= x
    BY <1>3, <1>4
  <1>6. x \in S /\ \A y \in S : x >= y
    BY <1>5
  <1> QED
    BY <1>6 DEF Max

-----------------------------------------------------------------------------
(* The order in which auto_links looks at articles                         *)

\* Rows as the table holds them: finitely many, told apart by their rowids.
Numbered(R) ==
  /\ IsFiniteSet(R)
  /\ R \subseteq ArticleRows
  /\ \A a, b \in R : a.id = b.id => a = b

ById(a) == \A i, j \in DOMAIN a : i < j => a[i].id < a[j].id

(* The rows of a table can be put in the order of their rowids: the row    *)
(* with the least one first, then the others.                              *)
LEMMA CanBeSorted ==
  ASSUME NEW R, Numbered(R)
  PROVE  \E a \in [1..Cardinality(R) -> R] : ById(a)
  <1> DEFINE T == {n \in Nat : \A Q \in SUBSET R :
                     Cardinality(Q) = n => \E a \in [1..n -> Q] : ById(a)}
  <1>0. \A r \in R : r.id \in Nat
    BY DEF Numbered, ArticleRows
  <1>1. 0 \in T
    <2> SUFFICES ASSUME NEW Q \in SUBSET R PROVE \E a \in [1..0 -> Q] : ById(a)
      OBVIOUS
    <2>1. [i \in 1..0 |-> i] \in [1..0 -> Q] /\ ById([i \in 1..0 |-> i])
      BY DEF ById
    <2> QED
      BY <2>1
  <1>2. \A n \in Nat : n \in T => n + 1 \in T
    <2> SUFFICES ASSUME NEW n \in Nat, n \in T, NEW Q \in SUBSET R, Cardinality(Q) = n + 1
                 PROVE  \E a \in [1..(n + 1) -> Q] : ById(a)
      OBVIOUS
    <2>1. IsFiniteSet(Q)
      BY FS_Subset DEF Numbered
    <2>2. Q # {}
      <3>1. Cardinality(Q) # 0
        OBVIOUS
      <3> QED
        BY <3>1, FS_EmptySet, Zenon
    <2>3. {q.id : q \in Q} \in SUBSET Nat /\ {q.id : q \in Q} # {}
      BY <1>0, <2>2
    <2>4. PICK r \in Q : \A q \in Q : r.id <= q.id
      <3>1. PICK m \in {q.id : q \in Q} : \A k \in {q.id : q \in Q} : m <= k
        BY <2>3, LeastNumber
      <3> QED
        BY <3>1
    <2>5. Cardinality(Q \ {r}) = n
      BY <2>1, FS_RemoveElement
    <2>6. PICK b \in [1..n -> Q \ {r}] : ById(b)
      BY <2>5
    <2> DEFINE a == [i \in 1..(n + 1) |-> IF i = 1 THEN r ELSE b[i - 1]]
    <2>7. \A i \in 1..(n + 1) : i # 1 => i - 1 \in 1..n /\ a[i] = b[i - 1] /\ a[i] \in Q \ {r}
      BY <2>6
    <2>8. a[1] = r /\ DOMAIN a = 1..(n + 1)
      OBVIOUS
    <2>9. a \in [1..(n + 1) -> Q]
      BY <2>7, <2>8
    <2> HIDE DEF a
    <2>10. \A q \in Q \ {r} : r.id < q.id
      <3>1. \A q \in Q \ {r} : r.id # q.id
        BY <2>4 DEF Numbered
      <3> QED
        BY <1>0, <2>4, <3>1
    <2>11. ById(a)
      <3> SUFFICES ASSUME NEW i \in 1..(n + 1), NEW j \in 1..(n + 1), i < j
                   PROVE  a[i].id < a[j].id
        BY <2>8 DEF ById
      <3>1. j # 1 /\ a[j] = b[j - 1] /\ a[j] \in Q \ {r} /\ j - 1 \in 1..n
        BY <2>7
      <3>2. CASE i = 1
        BY <2>8, <2>10, <3>1, <3>2
      <3>3. CASE i # 1
        <4>1. a[i] = b[i - 1] /\ i - 1 \in 1..n /\ i - 1 < j - 1
          BY <2>7, <3>3
        <4> QED
          BY <2>6, <3>1, <4>1 DEF ById
      <3> QED
        BY <3>2, <3>3
    <2> QED
      BY <2>9, <2>11
  <1>3. Cardinality(R) \in T
    <2> HIDE DEF T
    <2>1. \A n \in Nat : n \in T
      BY <1>1, <1>2, Induction
    <2> QED
      BY <2>1, FS_CardinalityType DEF Numbered
  <1> QED
    BY <1>3

(* auto_links looks at every row that it has read, and at each once.       *)
LEMMA RowidOrder ==
  ASSUME NEW R, Numbered(R)
  PROVE  /\ Len(InRowidOrder(R)) \in Nat
         /\ InRowidOrder(R) \in [1..Len(InRowidOrder(R)) -> R]
         /\ \A r \in R : \E i \in 1..Len(InRowidOrder(R)) : InRowidOrder(R)[i] = r
  <1> DEFINE n == Cardinality(R)
             a == InRowidOrder(R)
  <1>0. n \in Nat
    BY FS_CardinalityType DEF Numbered
  <1>1. PICK b \in [1..n -> R] : ById(b)
    BY CanBeSorted
  <1>2. b \in SetToSeqs(R) /\ \A i, j \in DOMAIN b : i < j => b[i].id < b[j].id
    <2>1. \A r \in R : r.id \in Nat
      BY DEF Numbered, ArticleRows
    <2>2. \A i, j \in 1..n : i # j => i < j \/ j < i
      BY <1>0
    <2>3. \A i, j \in 1..n : i # j => b[i] # b[j]
      BY <1>1, <2>1, <2>2 DEF ById
    <2> QED
      BY <1>1, <2>3 DEF SetToSeqs, ById
  <1>3. a \in SetToSeqs(R)
    BY <1>2 DEF InRowidOrder
  <1> HIDE DEF a
  <1>4. a \in [1..n -> R] /\ \A i, j \in 1..n : i # j => a[i] # a[j]
    BY <1>3 DEF SetToSeqs
  <1>5. a \in Injection(1..n, R)
    BY <1>4 DEF Injection, IsInjective
  <1>6. IsFiniteSet(1..n) /\ Cardinality(1..n) = n
    BY <1>0, FS_Interval
  <1>7. a \in Surjection(1..n, R)
    BY <1>5, <1>6, FS_Injection DEF Numbered
  <1>8. Len(a) = n
    BY <1>0, <1>4
  <1> QED
    BY <1>0, <1>4, <1>7, <1>8 DEF a, Surjection

-----------------------------------------------------------------------------
(* What the two loops of auto_links have computed when they have looked at *)
(* the pairs D of articles <<to, from>>                                    *)

ReferencesAmong(D) ==
  {<<pair[2].slug, pair[1].slug>> : pair \in
    {ab \in D : ab[1] # ab[2] /\ <<ab[2].content, ab[1].slug>> \in Mentions}}

Reversed(refs) == {<<r[2], r[1]>> : r \in refs}

\* The ends of references, the two directions being one.
Ends(refs) == {{r[1], r[2]} : r \in refs}

LinkedFor(acc, have, D) ==
  LET missing == ReferencesAmong(D) \ have
  IN  /\ acc = [links |-> have \union missing \union Reversed(missing),
                new |-> Cardinality(Ends(missing))]
      /\ IsFiniteSet(Ends(missing))

(* One more pair is one more reference, or none.                           *)
LEMMA OneMorePair ==
  ASSUME NEW D, NEW to, NEW from
  PROVE  ReferencesAmong(D \union {<<to, from>>}) =
           IF to # from /\ <<from.content, to.slug>> \in Mentions
           THEN ReferencesAmong(D) \union {<<from.slug, to.slug>>}
           ELSE ReferencesAmong(D)
  <1> DEFINE Is(ab) == ab[1] # ab[2] /\ <<ab[2].content, ab[1].slug>> \in Mentions
             Ref(ab) == <<ab[2].slug, ab[1].slug>>
             x == <<to, from>>
  <1>1. \A X : ReferencesAmong(X) = {Ref(ab) : ab \in {y \in X : Is(y)}}
    BY DEF ReferencesAmong
  <1>2. /\ Is(x) <=> to # from /\ <<from.content, to.slug>> \in Mentions
        /\ Ref(x) = <<from.slug, to.slug>>
    OBVIOUS
  <1> HIDE DEF Is, Ref, x
  <1>3. {y \in D \union {x} : Is(y)} = {y \in D : Is(y)} \union (IF Is(x) THEN {x} ELSE {})
    OBVIOUS
  <1>4. CASE Is(x)
    <2>1. {Ref(ab) : ab \in {y \in D : Is(y)} \union {x}} =
            {Ref(ab) : ab \in {y \in D : Is(y)}} \union {Ref(x)}
      OBVIOUS
    <2> QED
      BY <1>1, <1>2, <1>3, <1>4, <2>1 DEF x
  <1>5. CASE ~Is(x)
    <2>1. {y \in D \union {x} : Is(y)} = {y \in D : Is(y)}
      BY <1>3, <1>5
    <2> QED
      BY <1>1, <1>2, <1>5, <2>1 DEF x
  <1> QED
    BY <1>4, <1>5

(* One more reference has one more reverse and one more pair of ends.      *)
LEMMA OneMoreReference ==
  ASSUME NEW M, NEW r
  PROVE  /\ Reversed(M \union {r}) = Reversed(M) \union {<<r[2], r[1]>>}
         /\ Ends(M \union {r}) = Ends(M) \union {{r[1], r[2]}}
  <1> DEFINE R(x) == <<x[2], x[1]>>
             E(x) == {x[1], x[2]}
  <1>1. /\ \A X : Reversed(X) = {R(x) : x \in X}
        /\ \A X : Ends(X) = {E(x) : x \in X}
    BY DEF Reversed, Ends
  <1>2. R(r) = <<r[2], r[1]>> /\ E(r) = {r[1], r[2]}
    OBVIOUS
  <1> HIDE DEF R, E
  <1>3. {R(x) : x \in M \union {r}} = {R(x) : x \in M} \union {R(r)}
    OBVIOUS
  <1>4. {E(x) : x \in M \union {r}} = {E(x) : x \in M} \union {E(r)}
    OBVIOUS
  <1> QED
    BY <1>1, <1>2, <1>3, <1>4

\* A reference is a pair of slugs.
LEMMA ReferenceIsPair ==
  ASSUME NEW D
  PROVE  \A m \in ReferencesAmong(D) : m = <<m[1], m[2]>>
  <1> SUFFICES ASSUME NEW m \in ReferencesAmong(D) PROVE m = <<m[1], m[2]>>
    OBVIOUS
  <1>1. PICK ab \in D : m = <<ab[2].slug, ab[1].slug>>
    BY DEF ReferencesAmong
  <1> QED
    BY <1>1

LEMMA LinkPairAdds ==
  ASSUME NEW acc, NEW have, NEW D, NEW to, NEW from, LinkedFor(acc, have, D)
  PROVE  LinkedFor(LinkPair(acc, to, from), have, D \union {<<to, from>>})
  <1> DEFINE r == <<from.slug, to.slug>>
             back == <<to.slug, from.slug>>
             missing == ReferencesAmong(D) \ have
             after == ReferencesAmong(D \union {<<to, from>>}) \ have
             is == to # from /\ <<from.content, to.slug>> \in Mentions
  <1>1. /\ acc.links = have \union missing \union Reversed(missing)
        /\ acc.new = Cardinality(Ends(missing))
        /\ acc = [links |-> have \union missing \union Reversed(missing),
                  new |-> Cardinality(Ends(missing))]
        /\ IsFiniteSet(Ends(missing))
    BY DEF LinkedFor
  <1>2. LinkPair(acc, to, from) =
          IF is /\ r \notin acc.links
          THEN [links |-> acc.links \union {r, back}, new |-> acc.new + 1]
          ELSE acc
    BY DEF LinkPair
  <1>3. \A m \in missing : m = <<m[1], m[2]>>
    BY ReferenceIsPair
  <1> HIDE DEF missing, after, is
  <1>4. after = IF is /\ r \notin have THEN missing \union {r} ELSE missing
    <2>1. ReferencesAmong(D \union {<<to, from>>}) =
            IF is THEN ReferencesAmong(D) \union {r} ELSE ReferencesAmong(D)
      BY OneMorePair DEF is
    <2> HIDE DEF r, back
    <2> QED
      BY <2>1 DEF after, missing
  <1>5. r[1] = from.slug /\ r[2] = to.slug /\ back = <<r[2], r[1]>> /\ r = <<r[1], r[2]>>
    OBVIOUS
  <1> HIDE DEF r, back
  <1>6. /\ Reversed(missing \union {r}) = Reversed(missing) \union {back}
        /\ Ends(missing \union {r}) = Ends(missing) \union {{r[1], r[2]}}
    BY <1>5, OneMoreReference
  <1>7. r \in Reversed(missing) <=> back \in missing
    BY <1>3, <1>5 DEF Reversed
  <1>8. CASE after = missing /\ ~(is /\ r \notin acc.links)
    BY <1>1, <1>2, <1>8 DEF LinkedFor, after, missing
  <1>9. CASE is /\ r \notin have /\ r \notin acc.links
    <2>1. r \notin missing /\ back \notin missing
      BY <1>1, <1>7, <1>9
    <2>2. {r[1], r[2]} \notin Ends(missing)
      <3> SUFFICES ASSUME NEW m \in missing, {r[1], r[2]} = {m[1], m[2]}
                   PROVE  FALSE
        BY DEF Ends
      <3>1. (m[1] = r[1] /\ m[2] = r[2]) \/ (m[1] = r[2] /\ m[2] = r[1])
        OBVIOUS
      <3> QED
        BY <1>3, <1>5, <2>1, <3>1
    <2>3. /\ IsFiniteSet(Ends(missing \union {r}))
          /\ Cardinality(Ends(missing \union {r})) = Cardinality(Ends(missing)) + 1
      <3> DEFINE E == Ends(missing)
                 e == {r[1], r[2]}
      <3>1. IsFiniteSet(E) /\ e \notin E
        BY <1>1, <2>2
      <3>2. Ends(missing \union {r}) = E \union {e}
        BY <1>6
      <3> HIDE DEF E, e
      <3>3. IsFiniteSet(E \union {e}) /\ Cardinality(E \union {e}) = Cardinality(E) + 1
        BY <3>1, FS_AddElement
      <3> QED
        BY <3>2, <3>3 DEF E
    <2>4. LinkPair(acc, to, from) =
            [links |-> acc.links \union {r, back}, new |-> acc.new + 1]
      BY <1>2, <1>9
    <2>5. acc.links \union {r, back} =
            have \union (missing \union {r}) \union Reversed(missing \union {r})
      BY <1>1, <1>6
    <2>6. after = missing \union {r}
      BY <1>4, <1>9
    <2>7. LinkPair(acc, to, from) =
            [links |-> have \union after \union Reversed(after), new |-> Cardinality(Ends(after))]
      BY <1>1, <2>3, <2>4, <2>5, <2>6
    <2> QED
      BY <2>3, <2>6, <2>7 DEF LinkedFor, after
  <1>10. CASE is /\ r \notin have /\ r \in acc.links
    <2>1. r \in missing \/ back \in missing
      BY <1>1, <1>7, <1>10
    <2>2. /\ have \union missing \union Reversed(missing) =
               have \union (missing \union {r}) \union Reversed(missing \union {r})
          /\ Ends(missing \union {r}) = Ends(missing)
      <3>1. r \in missing \/ r \in Reversed(missing)
        BY <1>7, <2>1
      <3>2. back \in missing \/ back \in Reversed(missing)
        BY <1>5, <2>1 DEF Reversed
      <3>3. {r[1], r[2]} \in Ends(missing)
        <4>1. back[1] = r[2] /\ back[2] = r[1]
          BY <1>5
        <4> QED
          BY <2>1, <4>1 DEF Ends
      <3> QED
        BY <1>6, <3>1, <3>2, <3>3
    <2>3. LinkPair(acc, to, from) = acc /\ after = missing \union {r}
      BY <1>2, <1>4, <1>10
    <2> QED
      BY <1>1, <2>2, <2>3 DEF LinkedFor, after
  <1>11. r \in have => r \in acc.links
    BY <1>1
  <1> QED
    BY <1>4, <1>8, <1>9, <1>10, <1>11

-----------------------------------------------------------------------------
(* The two loops of auto_links                                             *)

\* The states of the inner loop, one after each of the first n articles
InnerStates(acc, to, a, n, f) ==
  f = [j \in 0..n |-> IF j = 0 THEN acc ELSE LinkPair(f[j - 1], to, a[j])]

(* The inner loop is well defined.                                         *)
LEMMA LinkToDefined ==
  ASSUME NEW acc, NEW to, NEW a, NEW n \in Nat
  PROVE  \E f : InnerStates(acc, to, a, n, f)
  <1> DEFINE T == {k \in Nat : \E f :
                     f = [j \in 0..k |-> IF j = 0 THEN acc ELSE LinkPair(f[j - 1], to, a[j])]}
  <1>1. 0 \in T
    <2> DEFINE f == [j \in 0..0 |-> acc]
    <2>1. f = [j \in 0..0 |-> IF j = 0 THEN acc ELSE LinkPair(f[j - 1], to, a[j])]
      OBVIOUS
    <2> QED
      BY <2>1
  <1>2. \A k \in Nat : k \in T => k + 1 \in T
    <2> HIDE DEF T
    <2> SUFFICES ASSUME NEW k \in Nat, k \in T PROVE k + 1 \in T
      OBVIOUS
    <2>0. PICK f : f = [j \in 0..k |-> IF j = 0 THEN acc ELSE LinkPair(f[j - 1], to, a[j])]
      BY DEF T
    <2> DEFINE g == [j \in 0..(k + 1) |-> IF j = 0 THEN acc ELSE LinkPair(f[j - 1], to, a[j])]
    <2>1. \A j \in 0..k : f[j] = IF j = 0 THEN acc ELSE LinkPair(f[j - 1], to, a[j])
      BY <2>0
    <2>2. \A j \in 0..(k + 1) : j # 0 => j - 1 \in 0..k /\ j - 1 \in 0..(k + 1)
      OBVIOUS
    <2>3. \A j \in 0..k : g[j] = f[j]
      BY <2>1
    <2>4. \A j \in 0..(k + 1) : j # 0 => g[j - 1] = f[j - 1]
      BY <2>2, <2>3
    <2>5. g = [j \in 0..(k + 1) |-> IF j = 0 THEN acc ELSE LinkPair(g[j - 1], to, a[j])]
      BY <2>4
    <2>6. k + 1 \in Nat
      OBVIOUS
    <2> HIDE DEF g
    <2> QED
      BY <2>5, <2>6, Zenon DEF T
  <1>3. n \in T
    <2> HIDE DEF T
    <2> QED
      BY <1>1, <1>2, Induction
  <1> QED
    BY <1>3 DEF InnerStates

LEMMA LinkToAdds ==
  ASSUME NEW acc, NEW have, NEW D, NEW to, NEW a, Len(a) \in Nat, LinkedFor(acc, have, D)
  PROVE  LinkedFor(LinkTo(acc, to, a), have, D \union {<<to, a[j]>> : j \in 1..Len(a)})
  <1> DEFINE n == Len(a)
             f == CHOOSE f : f = [j \in 0..n |->
                                    IF j = 0 THEN acc ELSE LinkPair(f[j - 1], to, a[j])]
             Seen(k) == D \union {<<to, a[j]>> : j \in 1..k}
             T == {k \in Nat : k <= n => LinkedFor(f[k], have, Seen(k))}
  <1>1. LinkTo(acc, to, a) = f[n]
    BY DEF LinkTo
  <1>2. f = [j \in 0..n |-> IF j = 0 THEN acc ELSE LinkPair(f[j - 1], to, a[j])]
    <2>1. n \in Nat
      OBVIOUS
    <2> HIDE DEF n
    <2>2. PICK g : InnerStates(acc, to, a, n, g)
      BY <2>1, LinkToDefined
    <2>3. g = [j \in 0..n |-> IF j = 0 THEN acc ELSE LinkPair(g[j - 1], to, a[j])]
      BY <2>2 DEF InnerStates
    <2> QED
      BY <2>3
  <1> HIDE DEF f
  <1>3. f[0] = acc /\ \A k \in Nat : k + 1 <= n => f[k + 1] = LinkPair(f[k], to, a[k + 1])
    BY <1>2
  <1>4. 0 \in T
    <2>1. Seen(0) = D
      OBVIOUS
    <2> HIDE DEF Seen
    <2> QED
      BY <1>3, <2>1
  <1>5. \A k \in Nat : k \in T => k + 1 \in T
    <2> HIDE DEF Seen
    <2> SUFFICES ASSUME NEW k \in Nat, k + 1 <= n, LinkedFor(f[k], have, Seen(k))
                 PROVE  LinkedFor(f[k + 1], have, Seen(k + 1))
      OBVIOUS
    <2>1. 1..(k + 1) = 1..k \union {k + 1}
      OBVIOUS
    <2>2. Seen(k + 1) = Seen(k) \union {<<to, a[k + 1]>>}
      BY <2>1 DEF Seen
    <2> QED
      BY <1>3, <2>2, LinkPairAdds
  <1>6. n \in T
    <2> HIDE DEF T
    <2> QED
      BY <1>4, <1>5, Induction
  <1> QED
    BY <1>1, <1>6

\* The states of the outer loop
OuterStates(have, a, n, f) ==
  f = [i \in 0..n |-> IF i = 0 THEN [links |-> have, new |-> 0] ELSE LinkTo(f[i - 1], a[i], a)]

(* So is the outer loop.                                                   *)
LEMMA LinkAllDefined ==
  ASSUME NEW have, NEW a, NEW n \in Nat
  PROVE  \E f : OuterStates(have, a, n, f)
  <1> DEFINE start == [links |-> have, new |-> 0]
  <1> HIDE DEF start
  <1> DEFINE T == {k \in Nat : \E f :
                     f = [i \in 0..k |-> IF i = 0 THEN start ELSE LinkTo(f[i - 1], a[i], a)]}
  <1>1. 0 \in T
    <2> DEFINE f == [i \in 0..0 |-> start]
    <2>1. f = [i \in 0..0 |-> IF i = 0 THEN start ELSE LinkTo(f[i - 1], a[i], a)]
      OBVIOUS
    <2> QED
      BY <2>1
  <1>2. \A k \in Nat : k \in T => k + 1 \in T
    <2> HIDE DEF T
    <2> SUFFICES ASSUME NEW k \in Nat, k \in T PROVE k + 1 \in T
      OBVIOUS
    <2>0. PICK f : f = [i \in 0..k |-> IF i = 0 THEN start ELSE LinkTo(f[i - 1], a[i], a)]
      BY DEF T
    <2> DEFINE g == [i \in 0..(k + 1) |-> IF i = 0 THEN start ELSE LinkTo(f[i - 1], a[i], a)]
    <2>1. \A i \in 0..k : f[i] = IF i = 0 THEN start ELSE LinkTo(f[i - 1], a[i], a)
      BY <2>0
    <2>2. \A i \in 0..(k + 1) : i # 0 => i - 1 \in 0..k /\ i - 1 \in 0..(k + 1)
      OBVIOUS
    <2>3. \A i \in 0..k : g[i] = f[i]
      BY <2>1
    <2>4. \A i \in 0..(k + 1) : i # 0 => g[i - 1] = f[i - 1]
      BY <2>2, <2>3
    <2>5. g = [i \in 0..(k + 1) |-> IF i = 0 THEN start ELSE LinkTo(g[i - 1], a[i], a)]
      BY <2>4
    <2>6. k + 1 \in Nat
      OBVIOUS
    <2> HIDE DEF g
    <2> QED
      BY <2>5, <2>6, Zenon DEF T
  <1>3. n \in T
    <2> HIDE DEF T
    <2> QED
      BY <1>1, <1>2, Induction
  <1> QED
    BY <1>3 DEF start, OuterStates

LEMMA LinkAllLinks ==
  ASSUME NEW have, NEW a, Len(a) \in Nat
  PROVE  LinkedFor(LinkAll(have, a), have, {<<a[i], a[j]>> : i \in 1..Len(a), j \in 1..Len(a)})
  <1> DEFINE n == Len(a)
             start == [links |-> have, new |-> 0]
             f == CHOOSE f : f = [i \in 0..n |->
                                    IF i = 0 THEN start ELSE LinkTo(f[i - 1], a[i], a)]
             Seen(k) == {<<a[i], a[j]>> : i \in 1..k, j \in 1..n}
             T == {k \in Nat : k <= n => LinkedFor(f[k], have, Seen(k))}
  <1>1. LinkAll(have, a) = f[n]
    BY DEF LinkAll
  <1>2. f = [i \in 0..n |-> IF i = 0 THEN start ELSE LinkTo(f[i - 1], a[i], a)]
    <2>1. n \in Nat
      OBVIOUS
    <2> HIDE DEF n
    <2>2. PICK g : OuterStates(have, a, n, g)
      BY <2>1, LinkAllDefined
    <2>3. g = [i \in 0..n |-> IF i = 0 THEN start ELSE LinkTo(g[i - 1], a[i], a)]
      BY <2>2 DEF OuterStates
    <2> QED
      BY <2>3
  <1> HIDE DEF f
  <1>3. f[0] = start /\ \A k \in Nat : k + 1 <= n => f[k + 1] = LinkTo(f[k], a[k + 1], a)
    BY <1>2
  <1>4. 0 \in T
    <2>1. Seen(0) = {}
      OBVIOUS
    <2>2. LinkedFor(start, have, {})
      <3>1. ReferencesAmong({}) = {}
        BY DEF ReferencesAmong
      <3>2. Reversed({}) = {} /\ Ends({}) = {}
        BY DEF Reversed, Ends
      <3>3. ReferencesAmong({}) \ have = {} /\ have \union {} \union {} = have
        BY <3>1
      <3> QED
        BY <3>2, <3>3, FS_EmptySet DEF LinkedFor
    <2> HIDE DEF Seen
    <2> QED
      BY <1>3, <2>1, <2>2
  <1>5. \A k \in Nat : k \in T => k + 1 \in T
    <2> HIDE DEF Seen
    <2> SUFFICES ASSUME NEW k \in Nat, k + 1 <= n, LinkedFor(f[k], have, Seen(k))
                 PROVE  LinkedFor(f[k + 1], have, Seen(k + 1))
      OBVIOUS
    <2>1. 1..(k + 1) = 1..k \union {k + 1}
      OBVIOUS
    <2>2. Seen(k + 1) = Seen(k) \union {<<a[k + 1], a[j]>> : j \in 1..n}
      BY <2>1 DEF Seen
    <2> QED
      BY <1>3, <2>2, LinkToAdds
  <1>6. n \in T
    <2> HIDE DEF T
    <2> QED
      BY <1>4, <1>5, Induction
  <1> QED
    BY <1>1, <1>6

(* Whatever the order of the rows: auto_links links what they reference.   *)
LEMMA AutoLinkedIs ==
  ASSUME NEW R, Numbered(R), NEW have
  PROVE  LinkedFor(AutoLinked(R, have), have, R \X R)
  <1> DEFINE a == InRowidOrder(R)
             D == {<<a[i], a[j]>> : i \in 1..Len(a), j \in 1..Len(a)}
  <1>1. /\ Len(a) \in Nat /\ a \in [1..Len(a) -> R]
        /\ \A r \in R : \E i \in 1..Len(a) : a[i] = r
    BY RowidOrder
  <1>2. AutoLinked(R, have) = LinkAll(have, a)
    BY DEF AutoLinked
  <1> HIDE DEF a
  <1>3. D = R \X R
    <2>1. \A i, j \in 1..Len(a) : a[i] \in R /\ a[j] \in R
      BY <1>1
    <2>2. D \subseteq R \X R
      BY <2>1
    <2>3. ASSUME NEW x \in R \X R PROVE x \in D
      <3>1. x = <<x[1], x[2]>> /\ x[1] \in R /\ x[2] \in R
        OBVIOUS
      <3>2. PICK i \in 1..Len(a), j \in 1..Len(a) : a[i] = x[1] /\ a[j] = x[2]
        BY <1>1, <3>1
      <3> QED
        BY <3>1, <3>2
    <2> QED
      BY <2>2, <2>3
  <1> QED
    BY <1>1, <1>2, <1>3, LinkAllLinks

-----------------------------------------------------------------------------
(* The shapes of the tables and of the locals                              *)

CallShapes == [given : {<<>>} \union {<<u>> : u \in Upserts},
               pair : {<<>>} \union (Slugs \X Slugs),
               rows : SUBSET ArticleRows]

\* The locals of a call at some step.
Fitting(locals, step) ==
  /\ locals \in CallShapes
  /\ (locals.given = <<>>) <=> step \in {"idle", "relate", "unlink", "link"}
  /\ (locals.pair = <<>>) <=> step # "relate"
  /\ Numbered(locals.rows)

\* The processes: a call has its arguments, auto_links the rows it has read.
Calls ==
  /\ pc \in [Procs -> Steps]
  /\ call \in [Procs -> CallShapes]
  /\ \A p \in Procs : Fitting(call[p], pc[p])

Tables ==
  /\ Numbered(articles)
  /\ checkpoints \in [Slugs -> Hashes \union {NoHash}]
  /\ facts \in [Slugs -> Maybe]
  /\ latest \in [Slugs -> Maybe]
  /\ links \subseteq Slugs \X Slugs

Counts ==
  /\ writes \in 0..MaxWrites
  /\ crashes \in 0..MaxCrashes
  /\ unsettled \subseteq Slugs
  /\ overlapped \in BOOLEAN
  /\ disturbed \subseteq Procs

Shapes == Calls /\ Tables /\ Counts

(* The arguments of a call.                                                *)
LEMMA ArgIsUpsert ==
  ASSUME Calls, NEW p \in Procs, pc[p] \in GivenSteps
  PROVE  Arg(p) \in Upserts
  <1>1. call[p] \in CallShapes /\ call[p].given # <<>>
    BY DEF Calls, Fitting, GivenSteps
  <1>2. call[p].given \in {<<u>> : u \in Upserts}
    BY <1>1 DEF CallShapes
  <1>3. PICK u \in Upserts : call[p].given = <<u>>
    BY <1>2
  <1> QED
    BY <1>3 DEF Arg

LEMMA PairIsSlugs ==
  ASSUME Calls, NEW p \in Procs, pc[p] = "relate"
  PROVE  call[p].pair \in Slugs \X Slugs
  <1>1. call[p] \in CallShapes /\ call[p].pair # <<>>
    BY DEF Calls, Fitting
  <1> QED
    BY <1>1 DEF CallShapes

LEMMA EmptyNumbered == Numbered({})
  BY FS_EmptySet DEF Numbered

\* NoCall fits the steps of a call without arguments.
LEMMA NoCallShape ==
  /\ NoCall \in CallShapes /\ NoCall.given = <<>> /\ NoCall.pair = <<>> /\ NoCall.rows = {}
  /\ Fitting(NoCall, "idle") /\ Fitting(NoCall, "unlink")
  BY EmptyNumbered DEF NoCall, CallShapes, Fitting

(* A step of one process to locals that fit its next step.                 *)
LEMMA CallChanges ==
  ASSUME Calls, NEW p \in Procs, NEW locals, NEW step \in Steps, Fitting(locals, step),
         Goto(p, step), call' = [call EXCEPT ![p] = locals]
  PROVE  Calls'
  <1>1. pc' \in [Procs -> Steps] /\ call' \in [Procs -> CallShapes]
    BY DEF Calls, Goto, Fitting
  <1>2. \A q \in Procs : IF q = p THEN pc'[q] = step /\ call'[q] = locals
                         ELSE pc'[q] = pc[q] /\ call'[q] = call[q]
    BY DEF Calls, Goto
  <1>3. \A q \in Procs : Fitting(call'[q], pc'[q])
    <2>1. ASSUME NEW q \in Procs, q = p PROVE Fitting(call'[q], pc'[q])
      <3>1. call'[q] = locals /\ pc'[q] = step
        BY <1>2, <2>1
      <3> QED
        BY <3>1
    <2>2. ASSUME NEW q \in Procs, q # p PROVE Fitting(call'[q], pc'[q])
      <3>1. call'[q] = call[q] /\ pc'[q] = pc[q]
        BY <1>2, <2>2
      <3> QED
        BY <3>1 DEF Calls
    <2> QED
      BY <2>1, <2>2
  <1> QED
    BY <1>1, <1>3 DEF Calls, Fitting

(* A call that returns, and a statement that is not the last one.          *)
LEMMA ReturnCalls ==
  ASSUME Calls, NEW p \in Procs, Return(p)
  PROVE  Calls'
  BY CallChanges, NoCallShape DEF Return, Steps

LEMMA GotoCalls ==
  ASSUME Calls, NEW p \in Procs, pc[p] \in GivenSteps, call' = call,
         NEW s \in GivenSteps, Goto(p, s)
  PROVE  Calls'
  <1>1. call' = [call EXCEPT ![p] = call[p]]
    BY DEF Calls
  <1>2. s \in Steps /\ Fitting(call[p], s)
    BY DEF Calls, Fitting, Steps, WriteSteps, GivenSteps
  <1> QED
    BY <1>1, <1>2, CallChanges

(* What a bounded call starts with.                                        *)
LEMMA StartCalls ==
  ASSUME Calls, NEW p \in Procs, Starts(p), ~ReadArticles(p)
  PROVE  Calls' /\ writes < MaxWrites /\ writes' = writes + 1
  <1>1. ASSUME NEW u \in Upserts, NEW step \in {"check", "put"},
               Start(p, [NoCall EXCEPT !.given = <<u>>], step)
        PROVE  Calls'
    <2> DEFINE c == [NoCall EXCEPT !.given = <<u>>]
    <2>1. c \in CallShapes /\ c.given = <<u>> /\ c.pair = <<>> /\ c.rows = {}
      BY DEF NoCall, CallShapes
    <2>2. <<u>> # <<>>
      OBVIOUS
    <2> HIDE DEF c
    <2>3. Fitting(c, step) /\ step \in Steps
      BY <2>1, <2>2, EmptyNumbered DEF Fitting, Steps, WriteSteps
    <2>4. Goto(p, step) /\ call' = [call EXCEPT ![p] = c]
      BY <1>1 DEF Start, c
    <2> QED
      BY <2>3, <2>4, CallChanges
  <1>2. ASSUME NEW pair \in Slugs \X Slugs, Link(p, pair) PROVE Calls'
    <2> DEFINE c == [NoCall EXCEPT !.pair = pair]
    <2>1. c \in CallShapes /\ c.given = <<>> /\ c.pair = pair /\ c.rows = {}
      BY DEF NoCall, CallShapes
    <2>2. pair # <<>>
      OBVIOUS
    <2> HIDE DEF c
    <2>3. Fitting(c, "relate") /\ "relate" \in Steps
      BY <2>1, <2>2, EmptyNumbered DEF Fitting, Steps, WriteSteps
    <2>4. Goto(p, "relate") /\ call' = [call EXCEPT ![p] = c]
      BY <1>2 DEF Link, Start, c
    <2> QED
      BY <2>3, <2>4, CallChanges
  <1>3. ASSUME ClearLinks(p) PROVE Calls'
    <2>1. Goto(p, "unlink") /\ call' = [call EXCEPT ![p] = NoCall] /\ "unlink" \in Steps
      BY <1>3 DEF ClearLinks, Start, Steps, WriteSteps
    <2>2. Fitting(NoCall, "unlink")
      BY NoCallShape
    <2> QED
      BY <2>1, <2>2, CallChanges
  <1>4. writes < MaxWrites /\ writes' = writes + 1
    BY DEF Starts, Upsert, PutFact, Link, ClearLinks, Start
  <1> QED
    BY <1>1, <1>2, <1>3, <1>4 DEF Starts, Upsert, PutFact

(* The rows that auto_links reads are rows of the table.                   *)
LEMMA FirstRowsNumbered ==
  ASSUME Numbered(articles), NEW n
  PROVE  Numbered(FirstRows(n)) /\ FirstRows(n) \subseteq ArticleRows
  <1>1. FirstRows(n) \in SUBSET articles
    BY DEF FirstRows
  <1> QED
    BY <1>1, FS_Subset DEF Numbered

LEMMA ReadCalls ==
  ASSUME Calls, Tables, NEW p \in Procs, ReadArticles(p)
  PROVE  Calls'
  <1> DEFINE c == [call[p] EXCEPT !.rows = FirstRows(WIKI_MAX_AUTO)]
  <1>1. pc[p] = "idle" /\ Goto(p, "link") /\ call' = [call EXCEPT ![p] = c]
    BY DEF ReadArticles
  <1>2. call[p] \in CallShapes /\ call[p].given = <<>> /\ call[p].pair = <<>>
    BY <1>1 DEF Calls, Fitting
  <1>3. Numbered(FirstRows(WIKI_MAX_AUTO)) /\ FirstRows(WIKI_MAX_AUTO) \subseteq ArticleRows
    BY FirstRowsNumbered DEF Tables
  <1>4. c \in CallShapes /\ c.given = <<>> /\ c.pair = <<>> /\ Numbered(c.rows)
    BY <1>2, <1>3 DEF CallShapes
  <1> HIDE DEF c
  <1>5. Fitting(c, "link") /\ "link" \in Steps
    BY <1>4 DEF Fitting, Steps, WriteSteps
  <1> QED
    BY <1>1, <1>5, CallChanges

(* A new row gets a rowid that no row has.                                 *)
LEMMA InsertNumbered ==
  ASSUME Numbered(articles), NEW u \in Upserts
  PROVE  Numbered(articles \union {[id |-> NextRowid, slug |-> u.slug, content |-> u.content]})
  <1> DEFINE ids == {0} \union {a.id : a \in articles}
             row == [id |-> NextRowid, slug |-> u.slug, content |-> u.content]
  <1>1. \A a \in articles : a.id \in Nat
    BY DEF Numbered, ArticleRows
  <1>2. ids \in SUBSET Nat /\ ids # {}
    BY <1>1
  <1>3. IsFiniteSet(ids)
    <2>1. IsFiniteSet({a.id : a \in articles})
      <3> DEFINE f == [a \in articles |-> a.id]
      <3>1. {a.id : a \in articles} = Range(f)
        BY DEF Range
      <3>2. f \in Surjection(articles, Range(f))
        BY DEF Surjection, Range
      <3> HIDE DEF f
      <3> QED
        BY <3>1, <3>2, FS_Surjection DEF Numbered
    <2> HIDE DEF ids
    <2>2. ids = {a.id : a \in articles} \union {0}
      BY DEF ids
    <2> QED
      BY <2>1, <2>2, FS_AddElement
  <1> HIDE DEF ids
  <1>4. Max(ids) \in Nat /\ \A i \in ids : i <= Max(ids)
    BY <1>2, <1>3, MaxOfFinite
  <1>5. NextRowid = 1 + Max(ids)
    BY DEF NextRowid, ids
  <1>6. \A a \in articles : a.id \in ids
    BY DEF ids
  <1>7. row \in ArticleRows /\ row.id = NextRowid
    BY <1>4, <1>5 DEF ArticleRows, Upserts
  <1>8. \A a \in articles : a.id # row.id
    BY <1>1, <1>4, <1>5, <1>6, <1>7
  <1> HIDE DEF row
  <1>9. IsFiniteSet(articles \union {row})
    BY FS_AddElement DEF Numbered
  <1> QED
    BY <1>7, <1>8, <1>9 DEF Numbered, row

(* auto_links links slugs.                                                 *)
LEMMA AutoLinkedSlugs ==
  ASSUME NEW R, Numbered(R), NEW have \in SUBSET (Slugs \X Slugs)
  PROVE  AutoLinked(R, have).links \subseteq Slugs \X Slugs
  <1> DEFINE missing == ReferencesAmong(R \X R) \ have
  <1>1. AutoLinked(R, have).links = have \union missing \union Reversed(missing)
    BY AutoLinkedIs DEF LinkedFor
  <1>2. \A r \in R : r.slug \in Slugs
    BY DEF Numbered, ArticleRows
  <1>3. missing \subseteq Slugs \X Slugs
    <2> SUFFICES ASSUME NEW m \in ReferencesAmong(R \X R) PROVE m \in Slugs \X Slugs
      OBVIOUS
    <2>1. PICK ab \in R \X R : m = <<ab[2].slug, ab[1].slug>>
      BY DEF ReferencesAmong
    <2> QED
      BY <1>2, <2>1
  <1> HIDE DEF missing
  <1>4. Reversed(missing) \subseteq Slugs \X Slugs
    BY <1>3 DEF Reversed
  <1> QED
    BY <1>1, <1>3, <1>4

LEMMA InitShapes == Init => Shapes
  <1> SUFFICES ASSUME Init PROVE Shapes
    OBVIOUS
  <1>1. Calls
    <2>1. pc \in [Procs -> Steps] /\ call \in [Procs -> CallShapes]
      BY NoCallShape DEF Init, Steps
    <2>2. \A p \in Procs : pc[p] = "idle" /\ call[p] = NoCall
      BY DEF Init
    <2> QED
      BY <2>1, <2>2, NoCallShape DEF Calls
  <1>2. Tables
    BY EmptyNumbered DEF Init, Tables, Nothing, Maybe
  <1>3. Counts
    <2>1. writes \in 0..MaxWrites /\ crashes \in 0..MaxCrashes
      BY WikiAssumption DEF Init
    <2>2. overlapped \in BOOLEAN /\ disturbed \subseteq Procs /\ unsettled \subseteq Slugs
      BY DEF Init
    <2> QED
      BY <2>1, <2>2 DEF Counts
  <1> QED
    BY <1>1, <1>2, <1>3 DEF Shapes

LEMMA BeginCounts ==
  ASSUME Counts, NEW p \in Procs, Begin(p)
  PROVE  overlapped' \in BOOLEAN /\ disturbed' \subseteq Procs
  BY DEF Begin, Counts

LEMMA NextShapes == Shapes /\ [Next]_vars => Shapes'
  <1> SUFFICES ASSUME Shapes, [Next]_vars PROVE Shapes'
    OBVIOUS
  <1> USE DEF Shapes
  <1>0. CASE UNCHANGED vars
    BY <1>0 DEF vars, dbVars, overlaps, Calls, Tables, Counts
  <1>1. ASSUME NEW p \in Procs, Starts(p), ~ReadArticles(p) PROVE Shapes'
    <2>1. UNCHANGED <<dbVars, latest, crashes, unsettled>> /\ Begin(p)
      BY <1>1 DEF Starts, Upsert, PutFact, Link, ClearLinks, Start
    <2>2. Tables'
      BY <2>1 DEF dbVars, Tables
    <2>3. Calls' /\ writes < MaxWrites /\ writes' = writes + 1
      BY <1>1, StartCalls
    <2>4. Counts'
      BY <2>1, <2>3, BeginCounts, WikiAssumption DEF Counts
    <2> QED
      BY <2>2, <2>3, <2>4
  <1>2. ASSUME NEW p \in Procs, CheckCheckpoint(p) PROVE Shapes'
    <2>1. Counts'
      BY <1>2 DEF CheckCheckpoint, Counts, overlaps
    <2>2. CASE Unchanged(Arg(p))
      <3>1. Arg(p) \in Upserts
        BY <1>2, ArgIsUpsert DEF CheckCheckpoint, GivenSteps
      <3>2. latest' \in [Slugs -> Maybe]
        BY <1>2, <2>2, <3>1 DEF CheckCheckpoint, Tables, Upserts, Maybe
      <3>3. Tables'
        BY <1>2, <3>2 DEF CheckCheckpoint, Tables, dbVars
      <3> QED
        BY <1>2, <2>1, <2>2, <3>3, ReturnCalls DEF CheckCheckpoint
    <2>3. CASE ~Unchanged(Arg(p))
      <3>1. Tables'
        BY <1>2, <2>3 DEF CheckCheckpoint, Tables, dbVars
      <3>2. Goto(p, "delete") /\ call' = call /\ pc[p] \in GivenSteps /\ "delete" \in GivenSteps
        BY <1>2, <2>3 DEF CheckCheckpoint, GivenSteps
      <3> QED
        BY <2>1, <3>1, <3>2, GotoCalls
    <2> QED
      BY <2>2, <2>3
  <1>3. ASSUME NEW p \in Procs, DeleteArticle(p) PROVE Shapes'
    <2>0. Arg(p) \in Upserts
      BY <1>3, ArgIsUpsert DEF DeleteArticle, GivenSteps
    <2>1. Counts'
      BY <1>3, <2>0 DEF DeleteArticle, Counts, overlaps, Upserts
    <2>2. articles' \in SUBSET articles
      BY <1>3 DEF DeleteArticle
    <2>3. Numbered(articles')
      BY <2>2, FS_Subset DEF Tables, Numbered
    <2>4. Tables'
      BY <1>3, <2>3 DEF DeleteArticle, Tables, Numbered
    <2>5. Goto(p, "insert") /\ call' = call /\ pc[p] \in GivenSteps /\ "insert" \in GivenSteps
      BY <1>3 DEF DeleteArticle, GivenSteps
    <2> QED
      BY <2>1, <2>4, <2>5, GotoCalls
  <1>4. ASSUME NEW p \in Procs, InsertArticle(p) PROVE Shapes'
    <2>1. Counts'
      BY <1>4 DEF InsertArticle, Counts, overlaps
    <2>2. Arg(p) \in Upserts
      BY <1>4, ArgIsUpsert DEF InsertArticle, GivenSteps
    <2>3. Numbered(articles')
      BY <1>4, <2>2, InsertNumbered DEF InsertArticle, Tables
    <2>4. Tables'
      BY <1>4, <2>3 DEF InsertArticle, Tables, Numbered
    <2>5. CASE Return(p)
      BY <2>1, <2>4, <2>5, ReturnCalls
    <2>6. CASE Goto(p, "checkpoint") /\ call' = call
      <3>1. "checkpoint" \in GivenSteps /\ pc[p] \in GivenSteps
        BY <1>4 DEF GivenSteps, InsertArticle
      <3> QED
        BY <2>1, <2>4, <2>6, <3>1, GotoCalls
    <2> QED
      BY <1>4, <2>5, <2>6 DEF InsertArticle
  <1>5. ASSUME NEW p \in Procs, SaveCheckpoint(p) PROVE Shapes'
    <2>1. Counts'
      BY <1>5 DEF SaveCheckpoint, Counts, overlaps
    <2>2. Arg(p) \in Upserts
      BY <1>5, ArgIsUpsert DEF SaveCheckpoint, GivenSteps
    <2>3. Replaced(Arg(p)) \in [Slugs -> Hashes \union {NoHash}]
      <3>1. \A s \in Slugs :
              Replaced(Arg(p))[s] \in {HashOf[Arg(p).content], NoHash, checkpoints[s]}
        BY DEF Replaced
      <3>2. HashOf[Arg(p).content] \in Hashes
        BY <2>2, WikiAssumption DEF Upserts
      <3> QED
        BY <3>1, <3>2 DEF Replaced, Tables
    <2>4. Tables'
      BY <1>5, <2>3 DEF SaveCheckpoint, Tables
    <2>5. Goto(p, "facts") /\ call' = call /\ pc[p] \in GivenSteps /\ "facts" \in GivenSteps
      BY <1>5 DEF SaveCheckpoint, GivenSteps
    <2> QED
      BY <2>1, <2>4, <2>5, GotoCalls
  <1>6. ASSUME NEW p \in Procs, StoreFacts(p) PROVE Shapes'
    <2>1. Counts'
      BY <1>6 DEF StoreFacts, Counts, overlaps
    <2>2. Arg(p) \in Upserts
      BY <1>6, ArgIsUpsert DEF StoreFacts, GivenSteps
    <2>3. facts' \in [Slugs -> Maybe] /\ latest' \in [Slugs -> Maybe]
      BY <1>6, <2>2 DEF StoreFacts, Tables, Upserts, Maybe
    <2>4. Tables'
      BY <1>6, <2>3 DEF StoreFacts, Tables
    <2> QED
      BY <1>6, <2>1, <2>4, ReturnCalls DEF StoreFacts
  <1>7. ASSUME NEW p \in Procs, WriteFact(p) PROVE Shapes'
    <2>1. Counts'
      BY <1>7 DEF WriteFact, Counts, overlaps
    <2>2. Arg(p) \in Upserts
      BY <1>7, ArgIsUpsert DEF WriteFact, GivenSteps
    <2>3. facts' \in [Slugs -> Maybe]
      BY <1>7, <2>2 DEF WriteFact, Tables, Upserts, Maybe
    <2>4. Tables'
      BY <1>7, <2>3 DEF WriteFact, Tables
    <2> QED
      BY <1>7, <2>1, <2>4, ReturnCalls DEF WriteFact
  <1>8. ASSUME NEW p \in Procs, ReadArticles(p) PROVE Shapes'
    <2>1. Counts'
      BY <1>8, BeginCounts DEF ReadArticles, Counts
    <2>2. Tables'
      BY <1>8 DEF ReadArticles, Tables, dbVars
    <2> QED
      BY <1>8, <2>1, <2>2, ReadCalls
  <1>9. ASSUME NEW p \in Procs, WriteLink(p) \/ WriteClear(p) \/ WriteLinks(p) PROVE Shapes'
    <2>1. Counts'
      BY <1>9 DEF WriteLink, WriteClear, WriteLinks, Counts, overlaps
    <2>2. links' \subseteq Slugs \X Slugs
      BY <1>9, PairIsSlugs, AutoLinkedSlugs
         DEF WriteLink, WriteClear, WriteLinks, Tables, Calls, Fitting
    <2>3. Tables'
      BY <1>9, <2>2 DEF WriteLink, WriteClear, WriteLinks, Tables
    <2> QED
      BY <1>9, <2>1, <2>3, ReturnCalls DEF WriteLink, WriteClear, WriteLinks
  <1>10. ASSUME NEW p \in Procs, Crash(p) PROVE Shapes'
    <2>1. Counts'
      BY <1>10, WikiAssumption DEF Crash, Counts, overlaps
    <2>2. Tables'
      BY <1>10 DEF Crash, Tables, dbVars
    <2> QED
      BY <1>10, <2>1, <2>2, ReturnCalls DEF Crash
  <1> QED
    BY <1>0, <1>1, <1>2, <1>3, <1>4, <1>5, <1>6, <1>7, <1>8, <1>9, <1>10, NextSteps DEF Writes

LEMMA ShapesInvariant == Spec => []Shapes
  BY InitShapes, NextShapes, PTL DEF Spec

(* The tables and the locals keep their shapes: what auto_links writes is   *)
(* a set of pairs of slugs, whatever rows it has read.                     *)
THEOREM TypeCorrect == Spec => []TypeOK
  <1>1. Shapes => TypeOK
    BY DEF Shapes, Calls, Fitting, Tables, Counts, TypeOK, CallShapes, Numbered
  <1> QED
    BY <1>1, ShapesInvariant, PTL

(* For any number of articles and any links there are when it writes, the  *)
(* two loops of auto_links, which look up and add links one by one, link   *)
(* each missing reference both ways and count each pair of slugs once.     *)
THEOREM AutoLinksComputeReference == Spec => []AutoLinksMatchReference
  <1>1. Shapes => AutoLinksMatchReference
    <2> SUFFICES ASSUME Shapes, NEW p \in Procs
                 PROVE  LET missing == References(call[p].rows) \ links
                        IN  AutoLinked(call[p].rows, links) =
                              [links |-> links \union missing \union {<<r[2], r[1]>> : r \in missing},
                               new |-> Cardinality({{r[1], r[2]} : r \in missing})]
      BY DEF AutoLinksMatchReference
    <2>1. LinkedFor(AutoLinked(call[p].rows, links), links, call[p].rows \X call[p].rows)
      BY AutoLinkedIs DEF Shapes, Calls, Fitting
    <2>2. References(call[p].rows) = ReferencesAmong(call[p].rows \X call[p].rows)
      BY DEF References, ReferencesAmong
    <2> QED
      BY <2>1, <2>2 DEF LinkedFor, Reversed, Ends
  <1> QED
    BY <1>1, ShapesInvariant, PTL

-----------------------------------------------------------------------------
(* The operators of WubuRecs                                               *)

(* A sum over a finite set is defined, whatever order it is added up in,   *)
(* and is a number when its terms are.                                     *)
LEMMA SumIsInt ==
  ASSUME NEW f, NEW S, IsFiniteSet(S), \A x \in S : f[x] \in Int
  PROVE  SumFunctionOnSet(f, S) \in Int
  <1> DEFINE pick(s) == CHOOSE x \in s : TRUE
             Small(k) == {s \in SUBSET S : Cardinality(s) <= k}
             sum == CHOOSE g : g = [s \in SUBSET S |->
                                      IF s = {} THEN 0 ELSE f[pick(s)] + g[s \ {pick(s)}]]
  <1>1. SumFunctionOnSet(f, S) = sum[S]
    BY DEF SumFunctionOnSet, FoldFunctionOnSet, MapThenFoldSet
  <1>2. \A s \in SUBSET S : IsFiniteSet(s) /\ Cardinality(s) \in Nat
    BY FS_Subset, FS_CardinalityType
  <1>3. \A s \in SUBSET S : s # {} =>
          /\ pick(s) \in s /\ s \ {pick(s)} \in SUBSET S
          /\ Cardinality(s \ {pick(s)}) = Cardinality(s) - 1
    <2> SUFFICES ASSUME NEW s \in SUBSET S, s # {}
                 PROVE  /\ pick(s) \in s /\ s \ {pick(s)} \in SUBSET S
                        /\ Cardinality(s \ {pick(s)}) = Cardinality(s) - 1
      OBVIOUS
    <2>1. pick(s) \in s
      OBVIOUS
    <2> HIDE DEF pick
    <2> QED
      BY <1>2, <2>1, FS_RemoveElement
  <1> HIDE DEF pick
  <1>4. \E g : g = [s \in SUBSET S |-> IF s = {} THEN 0 ELSE f[pick(s)] + g[s \ {pick(s)}]]
    <2> DEFINE T == {k \in Nat : \E g : g = [s \in Small(k) |->
                        IF s = {} THEN 0 ELSE f[pick(s)] + g[s \ {pick(s)}]]}
    <2>0. \A s \in SUBSET S : Cardinality(s) = 0 <=> s = {}
      BY <1>2, FS_EmptySet
    <2>1. 0 \in T
      <3> DEFINE g == [s \in Small(0) |-> 0]
      <3>1. \A s \in Small(0) : s = {}
        BY <1>2, <2>0
      <3> HIDE DEF Small
      <3>2. g = [s \in Small(0) |-> IF s = {} THEN 0 ELSE f[pick(s)] + g[s \ {pick(s)}]]
        BY <3>1
      <3> QED
        BY <3>2
    <2>2. \A k \in Nat : k \in T => k + 1 \in T
      <3> HIDE DEF T
      <3> SUFFICES ASSUME NEW k \in Nat, k \in T PROVE k + 1 \in T
        OBVIOUS
      <3>1. PICK g : g = [s \in Small(k) |->
                            IF s = {} THEN 0 ELSE f[pick(s)] + g[s \ {pick(s)}]]
        BY DEF T
      <3> DEFINE h == [s \in Small(k + 1) |->
                         IF s = {} THEN 0 ELSE f[pick(s)] + g[s \ {pick(s)}]]
      <3>2. \A s \in Small(k + 1) : s # {} => s \ {pick(s)} \in Small(k)
        BY <1>2, <1>3
      <3>3. \A s \in Small(k) : s \in Small(k + 1)
        BY <1>2
      <3> HIDE DEF Small
      <3>4. \A s \in Small(k) : g[s] = IF s = {} THEN 0 ELSE f[pick(s)] + g[s \ {pick(s)}]
        BY <3>1
      <3>5. \A s \in Small(k) : h[s] = g[s]
        BY <3>3, <3>4
      <3>6. \A s \in Small(k + 1) : s # {} => h[s \ {pick(s)}] = g[s \ {pick(s)}]
        BY <3>2, <3>5
      <3>7. h = [s \in Small(k + 1) |-> IF s = {} THEN 0 ELSE f[pick(s)] + h[s \ {pick(s)}]]
        BY <3>6
      <3>8. k + 1 \in Nat
        OBVIOUS
      <3> HIDE DEF h
      <3> QED
        BY <3>7, <3>8, Zenon DEF T
    <2>3. Cardinality(S) \in T
      <3> HIDE DEF T
      <3>1. \A k \in Nat : k \in T
        BY <2>1, <2>2, Induction
      <3> QED
        BY <1>2, <3>1
    <2>4. Small(Cardinality(S)) = SUBSET S
      BY FS_Subset
    <2> HIDE DEF Small
    <2> QED
      BY <2>3, <2>4
  <1>5. sum = [s \in SUBSET S |-> IF s = {} THEN 0 ELSE f[pick(s)] + sum[s \ {pick(s)}]]
    BY <1>4
  <1> HIDE DEF sum
  <1> DEFINE N == {k \in Nat : \A s \in SUBSET S : Cardinality(s) = k => sum[s] \in Int}
  <1>6. \A s \in SUBSET S : sum[s] = IF s = {} THEN 0 ELSE f[pick(s)] + sum[s \ {pick(s)}]
    BY <1>5
  <1>7. 0 \in N
    <2> SUFFICES ASSUME NEW s \in SUBSET S, Cardinality(s) = 0 PROVE sum[s] \in Int
      OBVIOUS
    <2>1. s = {}
      BY <1>2, FS_EmptySet
    <2>2. sum[{}] = 0
      BY <1>6, Zenon
    <2> QED
      BY <2>1, <2>2
  <1>8. \A k \in Nat : k \in N => k + 1 \in N
    <2> SUFFICES ASSUME NEW k \in Nat, k \in N, NEW s \in SUBSET S, Cardinality(s) = k + 1
                 PROVE  sum[s] \in Int
      OBVIOUS
    <2>1. s # {}
      BY <1>2, FS_EmptySet
    <2>2. sum[s \ {pick(s)}] \in Int /\ f[pick(s)] \in Int
      BY <1>3, <2>1
    <2>3. sum[s] = f[pick(s)] + sum[s \ {pick(s)}]
      BY <1>6, <2>1
    <2> QED
      BY <2>2, <2>3
  <1>9. Cardinality(S) \in N
    <2> HIDE DEF N
    <2>1. \A k \in Nat : k \in N
      BY <1>7, <1>8, Induction
    <2> QED
      BY <1>2, <2>1
  <1> QED
    BY <1>1, <1>9

(* The first step: the first row and those that are like what the user     *)
(* reacted to, up to the limit.                                            *)
LEMMA KeptFits ==
  ASSUME NEW S, NEW rows \in Seq(S), NEW tags, NEW limit \in Nat
  PROVE  /\ Kept(rows, tags, limit) \in Seq(S)
         /\ Len(Kept(rows, tags, limit)) <= limit
         /\ \A i \in 2..Len(Kept(rows, tags, limit)) : Related(Kept(rows, tags, limit)[i], tags)
  <1> DEFINE n == Len(rows)
             Step(k, i) == IF Len(k) < limit /\ (k = <<>> \/ Related(rows[i], tags))
                           THEN Append(k, rows[i]) ELSE k
             kept == CHOOSE f : f = [i \in 0..n |-> IF i = 0 THEN <<>> ELSE Step(f[i - 1], i)]
             Fits(k) == k \in Seq(S) /\ Len(k) <= limit /\ \A i \in 2..Len(k) : Related(k[i], tags)
  <1>1. Kept(rows, tags, limit) = kept[n]
    BY DEF Kept
  <1>2. n \in Nat /\ \A i \in 1..n : rows[i] \in S
    OBVIOUS
  <1>3. \A k, i : Fits(k) /\ i \in 1..n => Fits(Step(k, i))
    <2> SUFFICES ASSUME NEW k, NEW i \in 1..n, Fits(k) PROVE Fits(Step(k, i))
      OBVIOUS
    <2>1. CASE Len(k) < limit /\ (k = <<>> \/ Related(rows[i], tags))
      <3> DEFINE m == Append(k, rows[i])
      <3>1. m \in Seq(S) /\ Len(m) = Len(k) + 1 /\ m[Len(k) + 1] = rows[i]
            /\ \A j \in 1..Len(k) : m[j] = k[j]
        BY <1>2
      <3>2. Len(k) \in Nat
        OBVIOUS
      <3>3. Step(k, i) = m
        BY <2>1
      <3>4. ASSUME NEW j \in 2..Len(m) PROVE Related(m[j], tags)
        <4> HIDE DEF m
        <4>1. CASE j = Len(k) + 1
          <5>1. k # <<>>
            BY <4>1
          <5> QED
            BY <2>1, <3>1, <4>1, <5>1
        <4>2. CASE j # Len(k) + 1
          <5>1. j \in 2..Len(k)
            BY <3>1, <3>2, <4>2
          <5> QED
            BY <3>1, <5>1
        <4> QED
          BY <4>1, <4>2
      <3> HIDE DEF m
      <3>5. Len(m) <= limit
        BY <2>1, <3>1, <3>2
      <3> HIDE DEF Step
      <3> QED
        BY <3>1, <3>3, <3>4, <3>5
    <2>2. CASE ~(Len(k) < limit /\ (k = <<>> \/ Related(rows[i], tags)))
      BY <2>2
    <2> QED
      BY <2>1, <2>2
  <1>4. Fits(<<>>)
    OBVIOUS
  <1> HIDE DEF Step, Fits, n
  <1>5. \E f : f = [i \in 0..n |-> IF i = 0 THEN <<>> ELSE Step(f[i - 1], i)]
    <2> DEFINE T == {k \in Nat : \E f :
                       f = [i \in 0..k |-> IF i = 0 THEN <<>> ELSE Step(f[i - 1], i)]}
    <2>1. 0 \in T
      <3> DEFINE f == [i \in 0..0 |-> <<>>]
      <3>1. f = [i \in 0..0 |-> IF i = 0 THEN <<>> ELSE Step(f[i - 1], i)]
        OBVIOUS
      <3> QED
        BY <3>1
    <2>2. \A k \in Nat : k \in T => k + 1 \in T
      <3> HIDE DEF T
      <3> SUFFICES ASSUME NEW k \in Nat, k \in T PROVE k + 1 \in T
        OBVIOUS
      <3>1. PICK f : f = [i \in 0..k |-> IF i = 0 THEN <<>> ELSE Step(f[i - 1], i)]
        BY DEF T
      <3> DEFINE g == [i \in 0..(k + 1) |-> IF i = 0 THEN <<>> ELSE Step(f[i - 1], i)]
      <3>2. \A i \in 0..k : f[i] = IF i = 0 THEN <<>> ELSE Step(f[i - 1], i)
        BY <3>1
      <3>3. \A i \in 0..(k + 1) : i # 0 => i - 1 \in 0..k /\ i - 1 \in 0..(k + 1)
        OBVIOUS
      <3>4. \A i \in 0..k : g[i] = f[i]
        BY <3>2
      <3>5. \A i \in 0..(k + 1) : i # 0 => g[i - 1] = f[i - 1]
        BY <3>3, <3>4
      <3>6. g = [i \in 0..(k + 1) |-> IF i = 0 THEN <<>> ELSE Step(g[i - 1], i)]
        BY <3>5
      <3>7. k + 1 \in Nat
        OBVIOUS
      <3> HIDE DEF g
      <3> QED
        BY <3>6, <3>7, Zenon DEF T
    <2>3. n \in T
      <3> HIDE DEF T
      <3> QED
        BY <1>2, <2>1, <2>2, Induction
    <2> QED
      BY <2>3
  <1>6. kept = [i \in 0..n |-> IF i = 0 THEN <<>> ELSE Step(kept[i - 1], i)]
    BY <1>5
  <1> HIDE DEF kept
  <1>7. kept[0] = <<>> /\ \A k \in Nat : k + 1 <= n => kept[k + 1] = Step(kept[k], k + 1)
    BY <1>2, <1>6
  <1> DEFINE T == {k \in Nat : k <= n => Fits(kept[k])}
  <1>8. 0 \in T
    BY <1>4, <1>7
  <1>9. \A k \in Nat : k \in T => k + 1 \in T
    <2> SUFFICES ASSUME NEW k \in Nat, k + 1 <= n, Fits(kept[k])
                 PROVE  Fits(kept[k + 1])
      BY <1>2
    <2>1. k + 1 \in 1..n
      BY <1>2
    <2> QED
      BY <1>3, <1>7, <2>1
  <1>10. n \in T
    <2> HIDE DEF T
    <2> QED
      BY <1>2, <1>8, <1>9, Induction
  <1>11. Fits(kept[n])
    BY <1>2, <1>10
  <1> QED
    BY <1>1, <1>11 DEF Fits

\* k is, in their order, those of the first b candidates that have the minimum
\* score; m tells where each was.
Taken(k, cands, b, m) ==
  /\ m \in [1..Len(k) -> 1..b]
  /\ \A i, j \in 1..Len(k) : i < j => m[i] < m[j]
  /\ \A i \in 1..Len(k) : k[i] = cands[m[i]] /\ Enough(cands[m[i]])
  /\ \A c \in 1..b : Enough(cands[c]) => \E i \in 1..Len(k) : m[i] = c

(* The last step: of the first candidates those with the minimum score, in *)
(* their order.                                                            *)
LEMMA FilteredIs ==
  ASSUME NEW S, NEW cands \in Seq(S), NEW limit \in Nat
  PROVE  /\ Filtered(cands, limit) \in Seq(S)
         /\ \E m : Taken(Filtered(cands, limit), cands, Least(Len(cands), limit), m)
  <1> DEFINE n == Least(Len(cands), limit)
             Step(k, i) == IF Enough(cands[i]) THEN Append(k, cands[i]) ELSE k
             final == CHOOSE f : f = [i \in 0..n |-> IF i = 0 THEN <<>> ELSE Step(f[i - 1], i)]
             Fits(k, b) == k \in Seq(S) /\ \E m : Taken(k, cands, b, m)
  <1>1. Filtered(cands, limit) = final[n]
    BY DEF Filtered
  <1>2. n \in Nat /\ \A i \in 1..n : cands[i] \in S
    BY DEF Least
  <1>3. \A k, b : b \in Nat /\ b + 1 <= n /\ Fits(k, b) => Fits(Step(k, b + 1), b + 1)
    <2> SUFFICES ASSUME NEW k, NEW b \in Nat, b + 1 <= n, Fits(k, b)
                 PROVE  Fits(Step(k, b + 1), b + 1)
      OBVIOUS
    <2>1. PICK m : Taken(k, cands, b, m)
      OBVIOUS
    <2>2. k \in Seq(S) /\ Len(k) \in Nat /\ cands[b + 1] \in S
      BY <1>2
    <2>3. CASE Enough(cands[b + 1])
      <3> DEFINE q == Append(k, cands[b + 1])
                 l == Len(k)
                 w == [i \in 1..(l + 1) |-> IF i = l + 1 THEN b + 1 ELSE m[i]]
      <3>1. q \in Seq(S) /\ Len(q) = l + 1 /\ q[l + 1] = cands[b + 1] /\ \A i \in 1..l : q[i] = k[i]
        BY <2>2
      <3>2. Step(k, b + 1) = q
        BY <2>3
      <3>3. l \in Nat /\ 1..(l + 1) = 1..l \union {l + 1}
        BY <2>2
      <3>4. w[l + 1] = b + 1 /\ (\A i \in 1..l : w[i] = m[i] /\ m[i] \in 1..b) /\ DOMAIN w = 1..(l + 1)
        BY <2>1, <3>3 DEF Taken
      <3>a. \A i \in 1..l : i # l + 1
        BY <3>3
      <3>5. w \in [1..(l + 1) -> 1..(b + 1)]
        <4>1. \A i \in 1..(l + 1) : (IF i = l + 1 THEN b + 1 ELSE m[i]) \in 1..(b + 1)
          <5>1. \A i \in 1..l : m[i] \in 1..b
            BY <2>1 DEF Taken
          <5>2. \A i \in 1..(l + 1) : i # l + 1 => m[i] \in 1..(b + 1)
            BY <3>3, <5>1
          <5> QED
            BY <5>2
        <4> QED
          BY <4>1
      <3> HIDE DEF w, q
      <3>6. \A i, j \in 1..(l + 1) : i < j => w[i] < w[j]
        <4> SUFFICES ASSUME NEW i \in 1..(l + 1), NEW j \in 1..(l + 1), i < j
                     PROVE  w[i] < w[j]
          OBVIOUS
        <4>1. i \in 1..l
          BY <3>3
        <4>2. CASE j = l + 1
          BY <3>4, <4>1, <4>2
        <4>3. CASE j # l + 1
          BY <2>1, <3>3, <3>4, <4>1, <4>3 DEF Taken
        <4> QED
          BY <4>2, <4>3
      <3>7. \A i \in 1..(l + 1) : q[i] = cands[w[i]] /\ Enough(cands[w[i]])
        BY <2>1, <2>3, <3>1, <3>3, <3>4 DEF Taken
      <3>8. \A c \in 1..(b + 1) : Enough(cands[c]) => \E i \in 1..(l + 1) : w[i] = c
        <4> SUFFICES ASSUME NEW c \in 1..(b + 1), Enough(cands[c])
                     PROVE  \E i \in 1..(l + 1) : w[i] = c
          OBVIOUS
        <4>1. CASE c = b + 1
          BY <3>3, <3>4, <4>1
        <4>2. CASE c # b + 1
          <5>1. c \in 1..b
            BY <4>2
          <5>2. PICK i \in 1..l : m[i] = c
            BY <2>1, <5>1 DEF Taken
          <5> QED
            BY <3>3, <3>4, <5>2
        <4> QED
          BY <4>1, <4>2
      <3>9. Taken(q, cands, b + 1, w)
        BY <3>1, <3>5, <3>6, <3>7, <3>8 DEF Taken
      <3> HIDE DEF Step
      <3> QED
        BY <3>1, <3>2, <3>9
    <2>4. CASE ~Enough(cands[b + 1])
      <3>1. Step(k, b + 1) = k
        BY <2>4
      <3>2. \A c \in 1..(b + 1) : c # b + 1 => c \in 1..b
        OBVIOUS
      <3>3. m \in [1..Len(k) -> 1..(b + 1)]
        BY <2>1 DEF Taken
      <3>4. Taken(k, cands, b + 1, m)
        BY <2>1, <2>4, <3>2, <3>3 DEF Taken
      <3> HIDE DEF Step
      <3> QED
        BY <2>2, <3>1, <3>4
    <2> QED
      BY <2>3, <2>4
  <1>4. Fits(<<>>, 0)
    <2>1. Taken(<<>>, cands, 0, <<>>)
      BY DEF Taken
    <2>2. <<>> \in Seq(S)
      OBVIOUS
    <2> QED
      BY <2>1, <2>2
  <1> HIDE DEF Step, Fits, n
  <1>5. \E f : f = [i \in 0..n |-> IF i = 0 THEN <<>> ELSE Step(f[i - 1], i)]
    <2> DEFINE T == {k \in Nat : \E f :
                       f = [i \in 0..k |-> IF i = 0 THEN <<>> ELSE Step(f[i - 1], i)]}
    <2>1. 0 \in T
      <3> DEFINE f == [i \in 0..0 |-> <<>>]
      <3>1. f = [i \in 0..0 |-> IF i = 0 THEN <<>> ELSE Step(f[i - 1], i)]
        OBVIOUS
      <3> QED
        BY <3>1
    <2>2. \A k \in Nat : k \in T => k + 1 \in T
      <3> HIDE DEF T
      <3> SUFFICES ASSUME NEW k \in Nat, k \in T PROVE k + 1 \in T
        OBVIOUS
      <3>1. PICK f : f = [i \in 0..k |-> IF i = 0 THEN <<>> ELSE Step(f[i - 1], i)]
        BY DEF T
      <3> DEFINE g == [i \in 0..(k + 1) |-> IF i = 0 THEN <<>> ELSE Step(f[i - 1], i)]
      <3>2. \A i \in 0..k : f[i] = IF i = 0 THEN <<>> ELSE Step(f[i - 1], i)
        BY <3>1
      <3>3. \A i \in 0..(k + 1) : i # 0 => i - 1 \in 0..k /\ i - 1 \in 0..(k + 1)
        OBVIOUS
      <3>4. \A i \in 0..k : g[i] = f[i]
        BY <3>2
      <3>5. \A i \in 0..(k + 1) : i # 0 => g[i - 1] = f[i - 1]
        BY <3>3, <3>4
      <3>6. g = [i \in 0..(k + 1) |-> IF i = 0 THEN <<>> ELSE Step(g[i - 1], i)]
        BY <3>5
      <3>7. k + 1 \in Nat
        OBVIOUS
      <3> HIDE DEF g
      <3> QED
        BY <3>6, <3>7, Zenon DEF T
    <2>3. n \in T
      <3> HIDE DEF T
      <3> QED
        BY <1>2, <2>1, <2>2, Induction
    <2> QED
      BY <2>3
  <1>6. final = [i \in 0..n |-> IF i = 0 THEN <<>> ELSE Step(final[i - 1], i)]
    BY <1>5
  <1> HIDE DEF final
  <1>7. final[0] = <<>> /\ \A k \in Nat : k + 1 <= n => final[k + 1] = Step(final[k], k + 1)
    BY <1>2, <1>6
  <1> DEFINE T == {k \in Nat : k <= n => Fits(final[k], k)}
  <1>8. 0 \in T
    BY <1>4, <1>7
  <1>9. \A k \in Nat : k \in T => k + 1 \in T
    <2> SUFFICES ASSUME NEW k \in Nat, k + 1 <= n, Fits(final[k], k)
                 PROVE  Fits(final[k + 1], k + 1)
      BY <1>2
    <2> QED
      BY <1>3, <1>7
  <1>10. n \in T
    <2> HIDE DEF T
    <2> QED
      BY <1>2, <1>8, <1>9, Induction
  <1>11. Fits(final[n], n)
    BY <1>2, <1>10
  <1>12. PICK m : Taken(final[n], cands, n, m)
    BY <1>11 DEF Fits
  <1>13. final[n] \in Seq(S)
    BY <1>11 DEF Fits
  <1> QED
    BY <1>1, <1>12, <1>13 DEF n

-----------------------------------------------------------------------------
(* The orders of a list                                                    *)

\* p is an order in which to take a list of n.
Order(p, n) ==
  /\ p \in [1..n -> 1..n]
  /\ \A i, j \in 1..n : i # j => p[i] # p[j]
  /\ \A k \in 1..n : \E i \in 1..n : p[i] = k

\* q is the list l of n in another order, by score.
SortOf(q, l, n) ==
  /\ DOMAIN q = 1..n /\ q = [i \in 1..n |-> q[i]]
  /\ \A i \in 1..n - 1 : q[i].score >= q[i + 1].score
  /\ \E p : Order(p, n) /\ \A i \in 1..n : q[i] = l[p[i]]

(* What qsort leaves: the same candidates in another order, by score.      *)
LEMMA SortedIs ==
  ASSUME NEW n \in Nat, NEW l, DOMAIN l = 1..n, NEW q \in Sorted(l)
  PROVE  SortOf(q, l, n)
  <1>1. IsFiniteSet(1..n) /\ Cardinality(1..n) = n
    BY FS_Interval
  <1>2. PICK p \in SetToSeqs(1..n) :
          /\ \A i \in 1..Len(p) - 1 : l[p[i]].score >= l[p[i + 1]].score
          /\ q = [i \in 1..n |-> l[p[i]]]
    BY DEF Sorted
  <1>3. p \in [1..n -> 1..n] /\ \A i, j \in 1..n : i # j => p[i] # p[j]
    BY <1>1 DEF SetToSeqs
  <1>4. p \in Injection(1..n, 1..n)
    BY <1>3 DEF Injection, IsInjective
  <1>5. p \in Surjection(1..n, 1..n)
    BY <1>1, <1>4, FS_Injection
  <1>6. Order(p, n)
    BY <1>3, <1>5 DEF Order, Surjection
  <1>7. Len(p) = n
    BY <1>3
  <1>8. \A i \in 1..n : q[i] = l[p[i]]
    BY <1>2
  <1>9. \A i \in 1..n - 1 : i \in 1..n /\ i + 1 \in 1..n
    OBVIOUS
  <1>10. \A i \in 1..n - 1 : q[i].score >= q[i + 1].score
    BY <1>2, <1>7, <1>8, <1>9
  <1> QED
    BY <1>2, <1>6, <1>8, <1>10 DEF SortOf

(* The most that is taken from each end never meets the other end, but for *)
(* a single candidate.                                                     *)
LEMMA HalfIs ==
  ASSUME NEW n \in Nat
  PROVE  /\ n < 2 => Half(n) = n
         /\ n >= 2 => Half(n) = Least(n \div 2, MaxHalf) /\ Half(n) \in 1..n /\ 2 * Half(n) <= n
         /\ Half(n) \in Nat
  <1>1. MaxHalf \in Nat /\ MaxHalf >= 1
    BY RecsAssumption
  <1>2. CASE n = 0
    BY <1>1, <1>2 DEF Half, Least
  <1>3. CASE n = 1
    BY <1>1, <1>3 DEF Half, Least
  <1>4. CASE n >= 2
    <2>1. n \div 2 \in Nat /\ n \div 2 >= 1 /\ 2 * (n \div 2) <= n /\ n \div 2 < n
      BY <1>4
    <2> DEFINE h == n \div 2
    <2> HIDE DEF h
    <2>2. h \in Nat /\ h >= 1 /\ 2 * h <= n /\ h < n
      BY <2>1 DEF h
    <2>3. Half(n) = IF h \in 1..MaxHalf THEN h ELSE Least(n, MaxHalf)
      BY DEF Half, h
    <2>4. Half(n) = Least(h, MaxHalf)
      BY <1>1, <2>2, <2>3 DEF Least
    <2>5. Half(n) \in 1..n /\ 2 * Half(n) <= n
      BY <1>1, <2>2, <2>4 DEF Least
    <2> QED
      BY <1>4, <2>4, <2>5 DEF h
  <1> QED
    BY <1>2, <1>3, <1>4

\* Where the i-th entry of the mixed list comes from
Place(n, i) == IF i % 2 = 1 THEN n - Half(n) + (i + 1) \div 2 ELSE i \div 2

\* What lies between the two halves
Middle(n) == Half(n) + 1 .. n - Half(n)

(* The mixed list takes each entry of the two halves once and nothing of   *)
(* what lies between them.                                                 *)
LEMMA PlacesAre ==
  ASSUME NEW n \in Nat
  PROVE  LET k == Least(n, 2 * Half(n))
         IN  /\ k \in Nat /\ k <= n
             /\ \A i \in 1..k : Place(n, i) \in (1..n) \ Middle(n)
             /\ \A i, j \in 1..k : i # j => Place(n, i) # Place(n, j)
             /\ \A p \in (1..n) \ Middle(n) : \E i \in 1..k : Place(n, i) = p
  <1> DEFINE h == Half(n)
             k == Least(n, 2 * h)
  <1>1. CASE n = 0
    <2>1. k = 0
      BY <1>1, HalfIs DEF Least
    <2> QED
      BY <1>1, <2>1
  <1>2. CASE n = 1
    <2>1. h = 1 /\ k = 1 /\ Middle(n) = 2..0
      BY <1>2, HalfIs DEF Least, Middle
    <2>2. Place(n, 1) = 1
      BY <1>2, <2>1 DEF Place
    <2> QED
      BY <1>2, <2>1, <2>2
  <1>3. CASE n >= 2
    <2>1. h \in 1..n /\ 2 * h <= n /\ h \in Nat
      BY <1>3, HalfIs
    <2>2. k = 2 * h
      BY <2>1 DEF Least
    <2>3. \A i \in 1..k : Place(n, i) = IF i % 2 = 1 THEN n - h + (i + 1) \div 2 ELSE i \div 2
      BY DEF Place
    <2>4. Middle(n) = h + 1 .. n - h
      BY DEF Middle
    <2> HIDE DEF h, k
    <2>5. \A i \in 1..k : \/ i % 2 = 1 /\ \E c \in 1..h : i = 2 * c - 1 /\ Place(n, i) = n - h + c
                          \/ i % 2 = 0 /\ \E c \in 1..h : i = 2 * c /\ Place(n, i) = c
      <3> SUFFICES ASSUME NEW i \in 1..k
                   PROVE  \/ i % 2 = 1 /\ \E c \in 1..h : i = 2 * c - 1 /\ Place(n, i) = n - h + c
                          \/ i % 2 = 0 /\ \E c \in 1..h : i = 2 * c /\ Place(n, i) = c
        OBVIOUS
      <3>1. CASE i % 2 = 1
        <4> DEFINE c == (i + 1) \div 2
        <4>1. c \in 1..h /\ i = 2 * c - 1
          BY <2>1, <2>2, <3>1
        <4>2. Place(n, i) = n - h + c
          BY <2>3, <3>1
        <4> QED
          BY <3>1, <4>1, <4>2
      <3>2. CASE i % 2 = 0
        <4> DEFINE c == i \div 2
        <4>1. c \in 1..h /\ i = 2 * c
          BY <2>1, <2>2, <3>2
        <4>2. Place(n, i) = c
          BY <2>3, <3>2
        <4> QED
          BY <3>2, <4>1, <4>2
      <3>3. i % 2 \in 0..1
        BY <2>1, <2>2
      <3> QED
        BY <3>1, <3>2, <3>3
    <2>6. \A i \in 1..k : Place(n, i) \in (1..n) \ Middle(n)
      BY <2>1, <2>4, <2>5
    <2>7. \A i, j \in 1..k : i # j => Place(n, i) # Place(n, j)
      BY <2>1, <2>2, <2>5
    <2>8. \A p \in (1..n) \ Middle(n) : \E i \in 1..k : Place(n, i) = p
      <3> SUFFICES ASSUME NEW p \in (1..n) \ Middle(n) PROVE \E i \in 1..k : Place(n, i) = p
        OBVIOUS
      <3>1. CASE p <= h
        <4> DEFINE i == 2 * p
        <4>1. i \in 1..k /\ i % 2 = 0 /\ i \div 2 = p
          BY <2>1, <2>2, <3>1
        <4>2. Place(n, i) = p
          BY <2>3, <4>1
        <4> QED
          BY <4>1, <4>2
      <3>2. CASE p > h
        <4> DEFINE c == p - n + h
                   i == 2 * c - 1
        <4>1. c \in 1..h
          BY <2>1, <2>4, <3>2
        <4>2. i \in 1..k /\ i % 2 = 1 /\ (i + 1) \div 2 = c
          <5> HIDE DEF c
          <5> QED
            BY <2>1, <2>2, <4>1
        <4>3. Place(n, i) = n - h + c
          BY <2>3, <4>2
        <4>4. n - h + c = p
          BY <2>1
        <4> HIDE DEF c, i
        <4> QED
          BY <4>2, <4>3, <4>4
      <3> QED
        BY <2>1, <3>1, <3>2
    <2>9. k \in Nat /\ k <= n
      BY <2>1, <2>2
    <2> QED
      BY <2>6, <2>7, <2>8, <2>9 DEF k, h
  <1> QED
    BY <1>1, <1>2, <1>3

(* From neighbour to neighbour, the whole list is in descending order.     *)
LEMMA DescendingAll ==
  ASSUME NEW n \in Nat, NEW q, \A i \in 1..n : q[i].score \in Int,
         \A i \in 1..n - 1 : q[i].score >= q[i + 1].score
  PROVE  \A i, j \in 1..n : i < j => q[i].score >= q[j].score
  <1> DEFINE T == {c \in Nat : \A i \in 1..n : i + c <= n => q[i].score >= q[i + c].score}
  <1>1. 0 \in T
    OBVIOUS
  <1>2. \A c \in Nat : c \in T => c + 1 \in T
    <2> SUFFICES ASSUME NEW c \in Nat, c \in T, NEW i \in 1..n, i + (c + 1) <= n
                 PROVE  q[i].score >= q[i + (c + 1)].score
      OBVIOUS
    <2>1. i + c \in 1..n - 1 /\ i + c \in 1..n /\ (i + c) + 1 \in 1..n /\ i + (c + 1) = (i + c) + 1
      OBVIOUS
    <2>2. q[i].score >= q[i + c].score
      BY <2>1
    <2>3. q[i + c].score >= q[(i + c) + 1].score
      BY <2>1
    <2> HIDE DEF T
    <2> QED
      BY <2>1, <2>2, <2>3
  <1>3. \A c \in Nat : c \in T
    <2> HIDE DEF T
    <2> QED
      BY <1>1, <1>2, Induction
  <1> SUFFICES ASSUME NEW i \in 1..n, NEW j \in 1..n, i < j PROVE q[i].score >= q[j].score
    OBVIOUS
  <1>4. j - i \in Nat /\ i + (j - i) = j
    OBVIOUS
  <1>5. j - i \in T
    BY <1>3, <1>4
  <1> QED
    BY <1>4, <1>5

\* q is the list d, best first, without what lies between the halves, in another
\* order; src tells where each entry comes from, 0 being nowhere.
Mixed(q, d, src, n) ==
  /\ DOMAIN q = 1..n /\ q = [i \in 1..n |-> q[i]]
  /\ \A i \in 1..n - 1 : q[i].score >= q[i + 1].score
  /\ src \in [1..n -> 0..n]
  /\ \A i \in 1..n : src[i] = 0 => q[i] \in Unwritten
  /\ \A i \in 1..n : src[i] # 0 => src[i] \in (1..n) \ Middle(n) /\ q[i] = d[src[i]]
  /\ \A i, j \in 1..n : src[i] # 0 /\ src[i] = src[j] => i = j
  /\ \A p \in (1..n) \ Middle(n) : \E i \in 1..n : src[i] = p

(* The re-ranking leaves the two halves, and as many entries that nobody   *)
(* wrote as there were candidates between them.                            *)
LEMMA RerankedIs ==
  ASSUME NEW n \in Nat, NEW S, NEW l \in [1..n -> S], NEW q \in Reranked(l)
  PROVE  \E d \in Sorted(l) : \E src : Mixed(q, d, src, n)
  <1>1. PICK d \in Sorted(l) :
          LET kept == Diverse(Reverse(d))
          IN  q \in UNION {Sorted(kept \o junk) : junk \in [1..(Len(l) - Len(kept)) -> Unwritten]}
    BY DEF Reranked
  <1> DEFINE kept == Diverse(Reverse(d))
             k == Least(n, 2 * Half(n))
  <1>2. Len(l) = n /\ DOMAIN l = 1..n
    OBVIOUS
  <1>3. /\ DOMAIN d = 1..n /\ d = [i \in 1..n |-> d[i]]
        /\ \E p : Order(p, n) /\ \A i \in 1..n : d[i] = l[p[i]]
    <2>1. SortOf(d, l, n)
      BY <1>2, SortedIs
    <2> QED
      BY <2>1 DEF SortOf
  <1>4. d \in [1..n -> S] /\ Len(d) = n
    <2>1. \A i \in 1..n : d[i] \in S
      BY <1>3 DEF Order
    <2> QED
      BY <1>3, <2>1
  <1>5. /\ k \in Nat /\ k <= n
        /\ \A i \in 1..k : Place(n, i) \in (1..n) \ Middle(n)
        /\ \A i, j \in 1..k : i # j => Place(n, i) # Place(n, j)
        /\ \A p \in (1..n) \ Middle(n) : \E i \in 1..k : Place(n, i) = p
    BY PlacesAre
  <1>6. /\ kept \in [1..k -> S]
        /\ \A i \in 1..k : kept[i] = d[n - Place(n, i) + 1]
    <2> DEFINE asc == Reverse(d)
    <2>1. Len(asc) = n /\ \A p \in 1..n : asc[p] = d[n - p + 1] /\ n - p + 1 \in 1..n
      BY <1>4 DEF Reverse
    <2> HIDE DEF asc
    <2>2. Diverse(asc) = [i \in 1..k |-> asc[Place(n, i)]]
      BY <2>1 DEF Diverse, Place
    <2>3. \A i \in 1..k : asc[Place(n, i)] = d[n - Place(n, i) + 1] /\ asc[Place(n, i)] \in S
      BY <1>4, <1>5, <2>1
    <2>4. kept = Diverse(asc)
      BY DEF asc
    <2> HIDE DEF k, kept
    <2> QED
      BY <2>2, <2>3, <2>4
  <1>7. \A p \in 1..n : n - p + 1 \in 1..n /\ (p \in Middle(n) <=> n - p + 1 \in Middle(n))
    BY HalfIs DEF Middle
  <1>8. PICK junk \in [1..(n - k) -> Unwritten] : q \in Sorted(kept \o junk)
    <2>1. Len(kept) = k
      BY <1>5, <1>6
    <2> QED
      BY <1>1, <1>2, <2>1
  <1> HIDE DEF kept, k
  <1> DEFINE all == kept \o junk
  <1>a. q \in Sorted(all)
    BY <1>8
  <1>9. /\ DOMAIN all = 1..n
        /\ \A i \in 1..k : all[i] = kept[i]
        /\ \A i \in 1..n : i > k => all[i] = junk[i - k] /\ i - k \in 1..(n - k)
    <2> DEFINE U == S \union Unwritten
    <2>0. kept \in [1..k -> U] /\ junk \in [1..(n - k) -> U]
      BY <1>6, <1>8
    <2> HIDE DEF U
    <2>1. kept \in Seq(U) /\ Len(kept) = k /\ junk \in Seq(U) /\ Len(junk) = n - k
      BY <1>5, <2>0
    <2>2. Len(all) = n /\ Len(all) \in Nat /\ DOMAIN all = 1..Len(all)
      BY <1>5, <2>1
    <2>3. \A i \in 1..n : i > k => i - k \in 1..(n - k)
      BY <1>5
    <2>4. /\ \A i \in 1..Len(kept) : all[i] = kept[i]
          /\ \A i \in Len(kept) + 1 .. n : all[i] = junk[i - Len(kept)]
      BY <1>5, <2>1
    <2>5. \A i \in 1..k : i \in 1..n
      BY <1>5
    <2> HIDE DEF all
    <2>6. \A i \in 1..n : i > k => i \in Len(kept) + 1 .. n
      BY <1>5, <2>1
    <2>7. \A i \in 1..n : i > k => all[i] = junk[i - k]
      BY <2>1, <2>4, <2>6
    <2>8. \A i \in 1..k : all[i] = kept[i]
      BY <2>1, <2>4
    <2> QED
      BY <2>2, <2>3, <2>7, <2>8
  <1> HIDE DEF all
  <1>10. PICK p : /\ DOMAIN q = 1..n /\ q = [i \in 1..n |-> q[i]]
                  /\ \A i \in 1..n - 1 : q[i].score >= q[i + 1].score
                  /\ Order(p, n) /\ \A i \in 1..n : q[i] = all[p[i]]
    <2>1. SortOf(q, all, n)
      BY <1>a, <1>9, SortedIs
    <2> QED
      BY <2>1 DEF SortOf
  <1> DEFINE src == [i \in 1..n |-> IF p[i] <= k THEN n - Place(n, p[i]) + 1 ELSE 0]
  <1>11. p \in [1..n -> 1..n]
    BY <1>10 DEF Order
  <1>12. \A i \in 1..n : p[i] <= k =>
           p[i] \in 1..k /\ src[i] = n - Place(n, p[i]) + 1 /\ src[i] \in (1..n) \ Middle(n)
    <2> SUFFICES ASSUME NEW i \in 1..n, p[i] <= k
                 PROVE  /\ p[i] \in 1..k /\ src[i] = n - Place(n, p[i]) + 1
                        /\ src[i] \in (1..n) \ Middle(n)
      OBVIOUS
    <2>1. p[i] \in 1..k
      BY <1>5, <1>11
    <2>2. Place(n, p[i]) \in (1..n) \ Middle(n)
      BY <1>5, <2>1
    <2>3. src[i] = n - Place(n, p[i]) + 1
      OBVIOUS
    <2> HIDE DEF src
    <2> QED
      BY <1>7, <2>1, <2>2, <2>3
  <1>13. \A i \in 1..n : ~(p[i] <= k) => src[i] = 0
    OBVIOUS
  <1>14. src \in [1..n -> 0..n]
    <2>1. DOMAIN src = 1..n /\ src = [i \in 1..n |-> src[i]]
      OBVIOUS
    <2>2. \A i \in 1..n : src[i] \in 0..n
      <3> HIDE DEF src
      <3> QED
        BY <1>12, <1>13
    <2> HIDE DEF src
    <2> QED
      BY <2>1, <2>2
  <1> HIDE DEF src
  <1>15. \A i \in 1..n : src[i] = 0 => q[i] \in Unwritten
    <2> SUFFICES ASSUME NEW i \in 1..n, src[i] = 0 PROVE q[i] \in Unwritten
      OBVIOUS
    <2>1. ~(p[i] <= k)
      BY <1>12
    <2>2. p[i] \in 1..n /\ p[i] > k
      BY <1>5, <1>11, <2>1
    <2> QED
      BY <1>8, <1>9, <1>10, <2>2
  <1>16. \A i \in 1..n : src[i] # 0 => src[i] \in (1..n) \ Middle(n) /\ q[i] = d[src[i]]
    BY <1>6, <1>9, <1>10, <1>12, <1>13
  <1>17. \A i, j \in 1..n : src[i] # 0 /\ src[i] = src[j] => i = j
    <2> SUFFICES ASSUME NEW i \in 1..n, NEW j \in 1..n, src[i] # 0, src[i] = src[j] PROVE i = j
      OBVIOUS
    <2>1. /\ p[i] \in 1..k /\ src[i] = n - Place(n, p[i]) + 1
          /\ p[j] \in 1..k /\ src[j] = n - Place(n, p[j]) + 1
      BY <1>12, <1>13
    <2>2. Place(n, p[i]) = Place(n, p[j])
      <3>1. Place(n, p[i]) \in Int /\ Place(n, p[j]) \in Int
        BY <1>5, <2>1
      <3>2. n - Place(n, p[i]) + 1 = n - Place(n, p[j]) + 1
        BY <2>1
      <3> QED
        BY <3>1, <3>2
    <2>3. p[i] = p[j]
      BY <1>5, <2>1, <2>2
    <2> QED
      BY <1>10, <2>3 DEF Order
  <1>18. \A c \in (1..n) \ Middle(n) : \E i \in 1..n : src[i] = c
    <2> SUFFICES ASSUME NEW c \in (1..n) \ Middle(n) PROVE \E i \in 1..n : src[i] = c
      OBVIOUS
    <2>1. n - c + 1 \in (1..n) \ Middle(n)
      BY <1>7
    <2>2. PICK j \in 1..k : Place(n, j) = n - c + 1
      BY <1>5, <2>1
    <2>3. j \in 1..n
      BY <1>5
    <2>4. PICK i \in 1..n : p[i] = j
      BY <1>10, <2>3 DEF Order
    <2>5. p[i] <= k
      BY <1>5, <2>4
    <2>6. src[i] = n - (n - c + 1) + 1
      BY <1>12, <2>2, <2>4, <2>5
    <2> QED
      BY <2>6
  <1>19. Mixed(q, d, src, n)
    BY <1>10, <1>14, <1>15, <1>16, <1>17, <1>18 DEF Mixed
  <1> QED
    BY <1>19

-----------------------------------------------------------------------------
(* What is retrieved, and its points                                       *)

LEMMA RowsOf ==
  ASSUME NEW S, IsFiniteSet(S), NEW rows \in SetToSeqs(S)
  PROVE  rows \in Seq(S)
  <1>1. Cardinality(S) \in Nat
    BY FS_CardinalityType
  <1>2. rows \in [1..Cardinality(S) -> S]
    BY DEF SetToSeqs
  <1> QED
    BY <1>1, <1>2

LEMMA PrefixFits ==
  ASSUME NEW S, NEW s \in Seq(S), NEW n \in Nat
  PROVE  Prefix(s, n) \in Seq(S) /\ Len(Prefix(s, n)) <= n
  <1> DEFINE k == IF Len(s) < n THEN Len(s) ELSE n
  <1>1. k \in Nat /\ k <= Len(s) /\ k <= n /\ Len(s) \in Nat
    OBVIOUS
  <1>2. Prefix(s, n) = SubSeq(s, 1, k)
    BY DEF Prefix
  <1> HIDE DEF k
  <1>3. SubSeq(s, 1, k) \in Seq(S) /\ Len(SubSeq(s, 1, k)) = k
    BY <1>1
  <1> QED
    BY <1>1, <1>2, <1>3

\* The contents of a table: finitely many are registered.
LEMMA RegisteredFinite ==
  \A T \in SUBSET Registered : IsFiniteSet(T)
  BY RecsAssumption, FS_Subset DEF Registered

(* Without a history: contents that are registered, up to the limit.       *)
LEMMA PopularFits ==
  ASSUME NEW limit \in Nat, NEW slugs \in Popular(limit)
  PROVE  slugs \in Seq(Registered) /\ Len(slugs) <= limit
  <1>1. PICK s \in SetToSeqs(Registered) : slugs = Prefix(s, limit)
    BY DEF Popular, Descending
  <1>2. s \in Seq(Registered)
    BY RegisteredFinite, RowsOf
  <1> QED
    BY <1>1, <1>2, PrefixFits

(* With a history: of those all but the first are like it.                 *)
LEMMA SimilarFits ==
  ASSUME NEW u, NEW tags, NEW limit \in Nat, NEW slugs \in Similar(u, tags, limit)
  PROVE  /\ slugs \in Seq(Registered) /\ Len(slugs) <= limit
         /\ \A i \in 2..Len(slugs) : Related(slugs[i], tags)
  <1> DEFINE rest == Registered \ {s \in Items : Count({u}, s, {"FOLLOW"}) > 0}
  <1>1. PICK rows \in SetToSeqs(rest) : slugs = Kept(Prefix(rows, 3 * limit), tags, limit)
    BY DEF Similar, Descending
  <1>2. rest \in SUBSET Registered
    OBVIOUS
  <1> HIDE DEF rest
  <1>3. rows \in Seq(rest)
    BY <1>2, RegisteredFinite, RowsOf
  <1>4. Prefix(rows, 3 * limit) \in Seq(rest)
    BY <1>3, PrefixFits
  <1>5. /\ slugs \in Seq(rest) /\ Len(slugs) <= limit
        /\ \A i \in 2..Len(slugs) : Related(slugs[i], tags)
    BY <1>1, <1>4, KeptFits
  <1>6. Seq(rest) \subseteq Seq(Registered)
    BY <1>2
  <1> QED
    BY <1>5, <1>6

\* The database, the clock and the request keep their shapes.
Catalog ==
  /\ created \in [Items -> 0..MaxClock]
  /\ events \in [Cell -> Nat]
  /\ \A c \in Cell : events[c] <= logged
  /\ now \in 1..MaxClock
  /\ logged \in 0..MaxEvents
  /\ stage \in {"idle", "rank", "rerank", "done"}
  /\ request \in Users \X Limits

(* Points are whole numbers of tenths.                                     *)
LEMMA PointsAreNumbers ==
  ASSUME Catalog, NEW s \in Items
  PROVE  Points(s) \in Int
  <1> DEFINE earned == [c \in Cell |-> Weight[c[3]] * events[c]]
             S == Users \X {s} \X EventTypes
  <1>1. IsFiniteSet(S)
    <2>1. IsFiniteSet(EventTypes)
      <3>1. DOMAIN Weight = {"LIKE", "COMMENT", "SHARE", "SAVE", "FOLLOW", "COMPLETE",
                             "REWATCH", "SKIP", "UNLIKE", "VIEW", "WATCH", "PLAY"}
        BY DEF Weight
      <3>2. IsFiniteSet({"LIKE", "COMMENT", "SHARE", "SAVE", "FOLLOW", "COMPLETE",
                         "REWATCH", "SKIP", "UNLIKE", "VIEW", "WATCH", "PLAY"})
        <4> DEFINE A == {"LIKE", "COMMENT", "SHARE"}
                   B == {"SAVE", "FOLLOW", "COMPLETE"}
                   C == {"REWATCH", "SKIP", "UNLIKE"}
                   D == {"VIEW", "WATCH", "PLAY"}
        <4>1. \A x, y, z : IsFiniteSet({x, y, z})
          <5> SUFFICES ASSUME NEW x, NEW y, NEW z PROVE IsFiniteSet({x, y, z})
            OBVIOUS
          <5>1. IsFiniteSet({x}) /\ IsFiniteSet({x} \union {y})
            BY FS_Singleton, FS_AddElement
          <5>2. IsFiniteSet(({x} \union {y}) \union {z})
            BY <5>1, FS_AddElement
          <5>3. {x, y, z} = ({x} \union {y}) \union {z}
            OBVIOUS
          <5> QED
            BY <5>2, <5>3
        <4>2. IsFiniteSet(A) /\ IsFiniteSet(B) /\ IsFiniteSet(C) /\ IsFiniteSet(D)
          BY <4>1, Zenon
        <4> HIDE DEF A, B, C, D
        <4>3. IsFiniteSet((A \union B) \union (C \union D))
          BY <4>2, FS_Union
        <4>4. {"LIKE", "COMMENT", "SHARE", "SAVE", "FOLLOW", "COMPLETE",
               "REWATCH", "SKIP", "UNLIKE", "VIEW", "WATCH", "PLAY"}
                = (A \union B) \union (C \union D)
          BY DEF A, B, C, D
        <4> QED
          BY <4>3, <4>4
      <3> QED
        BY <3>1, <3>2, RecsAssumption, FS_Subset
    <2>2. IsFiniteSet(Users \X EventTypes)
      BY <2>1, RecsAssumption, FS_Product
    <2> DEFINE f == [ue \in Users \X EventTypes |-> <<ue[1], s, ue[2]>>]
    <2>3. f \in Surjection(Users \X EventTypes, S)
      <3>1. f \in [Users \X EventTypes -> S]
        OBVIOUS
      <3>2. ASSUME NEW t \in S PROVE \E ue \in Users \X EventTypes : f[ue] = t
        <4>1. t = f[<<t[1], t[3]>>] /\ <<t[1], t[3]>> \in Users \X EventTypes
          OBVIOUS
        <4> QED
          BY <4>1
      <3> HIDE DEF f, S
      <3> QED
        BY <3>1, <3>2 DEF Surjection
    <2> HIDE DEF f, S
    <2> QED
      BY <2>2, <2>3, FS_Surjection
  <1>2. \A c \in S : earned[c] \in Int
    <2> SUFFICES ASSUME NEW c \in S PROVE earned[c] \in Int
      OBVIOUS
    <2>1. c \in Cell /\ c[3] \in EventTypes
      BY DEF Cell
    <2>2. events[c] \in Int
      BY <2>1 DEF Catalog
    <2>3. \A e \in DOMAIN Weight : Weight[e] \in Int
      BY DEF Weight
    <2>4. Weight[c[3]] \in Int
      BY <2>1, <2>3, RecsAssumption
    <2>5. earned[c] = Weight[c[3]] * events[c]
      BY <2>1
    <2> HIDE DEF earned
    <2> QED
      BY <2>2, <2>4, <2>5
  <1> HIDE DEF earned, S
  <1>3. SumFunctionOnSet(earned, S) \in Int
    BY <1>1, <1>2, SumIsInt
  <1>4. Points(s) = (IF Related(s, liked) THEN 1 ELSE 0) + SumFunctionOnSet(earned, S)
                    + (IF Count(Users, s, {"PLAY"}) > 0 THEN PlaytimeWeight ELSE 0)
    BY DEF Points, earned, S
  <1> HIDE DEF Related, Count
  <1> QED
    BY <1>3, <1>4 DEF PlaytimeWeight

-----------------------------------------------------------------------------
(* The candidates of a call                                                *)

Candidates == [slug : Items \union {Junk}, score : Int]

\* A content that is unlike what the user reacted to
Stray(slug, tags) == slug # Junk /\ ~Related(slug, tags)

\* The candidates of a call: none between calls, none that nobody wrote before the
\* re-ranking, the best first when it comes to that, one stray at most.
Proposal ==
  /\ list \in Seq(Candidates)
  /\ Len(list) <= request[2]
  /\ \A i \in 1..Len(list) : list[i].slug \in Registered \union {Junk}
  /\ stage = "idle" => list = <<>>
  /\ stage \in {"rank", "rerank"} => \A i \in 1..Len(list) : list[i].slug # Junk
  /\ stage = "rerank" => \A i \in 1..Len(list) - 1 : list[i].score >= list[i + 1].score
  /\ liked # {} => \A i, j \in 1..Len(list) :
                     Stray(list[i].slug, liked) /\ Stray(list[j].slug, liked) => i = j

LEMMA InitRecs == RecsInit => Catalog /\ Proposal
  <1> SUFFICES ASSUME RecsInit PROVE Catalog /\ Proposal
    OBVIOUS
  <1>1. {MaxEvents, MaxClock} \subseteq Nat \ {0} /\ Limits \subseteq Nat
    BY RecsAssumption
  <1>2. created \in [Items -> 0..MaxClock]
    BY <1>1 DEF RecsInit
  <1>3. events = [c \in Cell |-> 0] /\ now = 1 /\ logged = 0 /\ stage = "idle"
        /\ request \in Users \X Limits /\ list = <<>>
    BY DEF RecsInit
  <1>4. Catalog
    BY <1>1, <1>2, <1>3 DEF Catalog
  <1>5. request[2] \in Nat
    BY <1>1, <1>3
  <1>6. Proposal
    BY <1>3, <1>5 DEF Proposal
  <1> QED
    BY <1>4, <1>6

\* A step that is none of a call's leaves its candidates as they were; what was
\* registered stays registered.
LEMMA ProposalStays ==
  ASSUME Proposal, UNCHANGED <<stage, request, liked, list>>,
         \A s \in Items : created[s] > 0 => created'[s] > 0
  PROVE  Proposal'
  <1>1. Registered \subseteq Registered'
    BY DEF Registered
  <1> HIDE DEF Registered
  <1>2. /\ list' = list /\ stage' = stage /\ request' = request /\ liked' = liked
    OBVIOUS
  <1>3. \A i \in 1..Len(list) : list[i].slug \in Registered' \union {Junk}
    BY <1>1 DEF Proposal
  <1> QED
    BY <1>2, <1>3 DEF Proposal

LEMMA RetrieveKeeps ==
  ASSUME Catalog, Proposal, NEW u \in Users, NEW limit \in Limits, Retrieve(u, limit)
  PROVE  Catalog' /\ Proposal'
  <1>1. limit \in Nat
    BY RecsAssumption
  <1>2. PICK slugs \in (IF liked' = {} THEN Popular(limit) ELSE Similar(u, liked', limit)) :
          list' = [i \in DOMAIN slugs |-> [slug |-> slugs[i], score |-> 0]]
    BY DEF Retrieve
  <1>3. /\ slugs \in Seq(Registered) /\ Len(slugs) <= limit
        /\ liked' # {} => \A i \in 2..Len(slugs) : Related(slugs[i], liked')
    BY <1>1, <1>2, PopularFits, SimilarFits
  <1>4. /\ stage' = IF list' = <<>> THEN "idle" ELSE "rank"
        /\ request' = <<u, limit>> /\ request'[2] = limit
        /\ UNCHANGED <<created, events, logged, now>>
    BY DEF Retrieve, catalogVars
  <1>5. Registered' = Registered /\ Registered \subseteq Items /\ Junk \notin Registered
    BY <1>4, RecsAssumption DEF Registered
  <1> HIDE DEF Registered
  <1> DEFINE n == Len(slugs)
  <1>6. n \in Nat /\ DOMAIN slugs = 1..n /\ \A i \in 1..n : slugs[i] \in Registered
    BY <1>3
  <1> HIDE DEF n
  <1>7. /\ DOMAIN list' = 1..n
        /\ \A i \in 1..n : list'[i] = [slug |-> slugs[i], score |-> 0]
    BY <1>2, <1>6
  <1>8. list' \in [1..n -> Candidates]
    <2>1. \A i \in 1..n : [slug |-> slugs[i], score |-> 0] \in Candidates
      BY <1>5, <1>6 DEF Candidates
    <2> QED
      BY <1>2, <1>6, <2>1
  <1>9. list' \in Seq(Candidates) /\ Len(list') = n
    BY <1>6, <1>8
  <1>10. Catalog'
    BY <1>4 DEF Catalog
  <1>11. \A i \in 1..n : list'[i].slug = slugs[i]
    BY <1>7
  <1>12. \A i \in 1..n : list'[i].slug \in Registered' \union {Junk} /\ list'[i].slug # Junk
    BY <1>5, <1>6, <1>11
  <1>13. liked' # {} => \A i, j \in 1..n :
                          Stray(list'[i].slug, liked') /\ Stray(list'[j].slug, liked') => i = j
    <2> SUFFICES ASSUME liked' # {}, NEW i \in 1..n, Stray(list'[i].slug, liked') PROVE i = 1
      OBVIOUS
    <2>1. ~Related(slugs[i], liked')
      BY <1>11 DEF Stray
    <2>2. i \notin 2..n
      BY <1>3, <2>1 DEF n
    <2> QED
      BY <1>6, <2>2
  <1>14. Len(list') <= request'[2]
    BY <1>3, <1>4, <1>9 DEF n
  <1>15. stage' # "rerank" /\ (stage' = "idle" => list' = <<>>)
    BY <1>4
  <1> QED
    BY <1>9, <1>10, <1>12, <1>13, <1>14, <1>15 DEF Proposal

LEMMA RankKeeps ==
  ASSUME Catalog, Proposal, Rank
  PROVE  Catalog' /\ Proposal'
  <1> DEFINE n == Len(list)
  <1>1. n \in Nat /\ list \in [1..n -> Candidates] /\ n <= request[2]
    BY DEF Proposal
  <1>2. PICK factor \in [DOMAIN list -> Freshness] :
          list' \in Sorted([i \in DOMAIN list |->
                              [list[i] EXCEPT !.score = factor[i] * Points(list[i].slug)]])
    BY DEF Rank
  <1> DEFINE l == [i \in DOMAIN list |->
                     [list[i] EXCEPT !.score = factor[i] * Points(list[i].slug)]]
  <1>3. /\ stage = "rank" /\ stage' = "rerank"
        /\ UNCHANGED <<created, events, logged, now, request, liked>>
    BY DEF Rank, catalogVars
  <1>4. \A i \in 1..n : list[i] \in Candidates /\ list[i].slug # Junk /\ list[i].slug \in Registered
    BY <1>1, <1>3 DEF Proposal
  <1>5. Registered' = Registered /\ Registered \subseteq Items /\ Junk \notin Registered
    BY <1>3, RecsAssumption DEF Registered
  <1> HIDE DEF Registered, n
  <1>6. /\ DOMAIN l = 1..n
        /\ \A i \in 1..n : l[i] = [list[i] EXCEPT !.score = factor[i] * Points(list[i].slug)]
    BY <1>1
  <1>a. list' \in Sorted(l)
    BY <1>2
  <1> HIDE DEF l
  <1>7. \A i \in 1..n : l[i] \in Candidates /\ l[i].slug = list[i].slug
    <2> SUFFICES ASSUME NEW i \in 1..n PROVE l[i] \in Candidates /\ l[i].slug = list[i].slug
      OBVIOUS
    <2>1. factor[i] \in Int
      BY <1>1, <1>2 DEF Freshness
    <2>2. Points(list[i].slug) \in Int
      BY <1>4, <1>5, PointsAreNumbers
    <2> DEFINE pts == Points(list[i].slug)
               k == factor[i]
    <2>3. pts \in Int /\ k \in Int
      BY <2>1, <2>2
    <2>4. l[i] = [list[i] EXCEPT !.score = k * pts]
      BY <1>6
    <2> HIDE DEF pts, k
    <2>5. k * pts \in Int
      BY <2>3
    <2> QED
      BY <1>4, <2>4, <2>5 DEF Candidates
  <1>8. /\ DOMAIN list' = 1..n /\ list' = [i \in 1..n |-> list'[i]]
        /\ \A i \in 1..n - 1 : list'[i].score >= list'[i + 1].score
        /\ \E p : Order(p, n) /\ \A i \in 1..n : list'[i] = l[p[i]]
    <2>1. SortOf(list', l, n)
      BY <1>1, <1>6, <1>a, SortedIs
    <2> QED
      BY <2>1 DEF SortOf
  <1>9. PICK p : Order(p, n) /\ \A i \in 1..n : list'[i] = l[p[i]]
    BY <1>8
  <1>10. \A i \in 1..n : p[i] \in 1..n /\ list'[i] \in Candidates /\ list'[i].slug = list[p[i]].slug
    BY <1>7, <1>9 DEF Order
  <1>11. list' \in [1..n -> Candidates]
    BY <1>8, <1>10
  <1>12. list' \in Seq(Candidates) /\ Len(list') = n
    BY <1>1, <1>11
  <1>13. \A i \in 1..n : list'[i].slug \in Registered' \union {Junk} /\ list'[i].slug # Junk
    BY <1>4, <1>5, <1>10
  <1>14. liked' # {} => \A i, j \in 1..n :
                          Stray(list'[i].slug, liked') /\ Stray(list'[j].slug, liked') => i = j
    <2> SUFFICES ASSUME liked # {}, NEW i \in 1..n, NEW j \in 1..n,
                        Stray(list'[i].slug, liked), Stray(list'[j].slug, liked)
                 PROVE  i = j
      BY <1>3
    <2>1. p[i] = p[j]
      BY <1>10 DEF Proposal, n
    <2> QED
      BY <1>9, <2>1 DEF Order
  <1>15. Catalog'
    BY <1>3 DEF Catalog
  <1>16. Len(list') <= request'[2]
    BY <1>1, <1>3, <1>12
  <1>17. stage' = "rerank"
    BY <1>3
  <1> QED
    BY <1>8, <1>12, <1>13, <1>14, <1>15, <1>16, <1>17 DEF Proposal

\* Where the entries of a result come from in the list d: each from another
\* place, all good places but those between the halves being among them; those that
\* come from nowhere are in the place of what lay between the halves.
ComesFrom(from, d, n) ==
  /\ from \in [1..Len(list') -> 0..n]
  /\ \A i \in 1..Len(list') : from[i] = 0 => list'[i] \in Unwritten
  /\ \A i \in 1..Len(list') :
       from[i] # 0 => /\ from[i] \in (1..n) \ Middle(n)
                      /\ list'[i] = d[from[i]] /\ Enough(list'[i])
  /\ \A i, j \in 1..Len(list') : from[i] # 0 /\ from[i] = from[j] => i = j
  /\ \A p \in (1..n) \ Middle(n) : Enough(d[p]) => \E i \in 1..Len(list') : from[i] = p
  /\ Cardinality({i \in 1..Len(list') : from[i] = 0}) <= Cardinality(Middle(n))

(* As many entries come from nowhere as there are candidates between the   *)
(* halves.                                                                 *)
LEMMA JunkCount ==
  ASSUME NEW n \in Nat, NEW q, NEW d, NEW src, Mixed(q, d, src, n)
  PROVE  /\ IsFiniteSet({i \in 1..n : src[i] = 0})
         /\ Cardinality({i \in 1..n : src[i] = 0}) = Cardinality(Middle(n))
  <1> DEFINE N == 1..n
             Z == {i \in N : src[i] = 0}
             M == Middle(n)
             f == [i \in N \ Z |-> src[i]]
  <1>1. IsFiniteSet(N) /\ Cardinality(N) = n
    BY FS_Interval
  <1>2. M \in SUBSET N
    BY HalfIs DEF Middle
  <1>3. Z \in SUBSET N
    OBVIOUS
  <1>4. f \in Bijection(N \ Z, N \ M)
    <2>1. \A i \in N \ Z : f[i] \in N \ M /\ f[i] = src[i] /\ f[i] # 0
      BY DEF Mixed
    <2>2. f \in [N \ Z -> N \ M]
      BY <2>1
    <2>3. DOMAIN f = N \ Z
      OBVIOUS
    <2>a. \A i, j \in N : src[i] # 0 /\ src[i] = src[j] => i = j
      BY DEF Mixed
    <2>b. \A p \in N \ M : \E i \in N : src[i] = p
      BY DEF Mixed
    <2>c. 0 \notin N /\ \A i \in N : i \in N \ Z <=> src[i] # 0
      OBVIOUS
    <2> HIDE DEF f, Z, M, N
    <2>4. \A i, j \in N \ Z : f[i] = f[j] => i = j
      BY <2>1, <2>a
    <2>5. \A p \in N \ M : \E i \in N \ Z : f[i] = p
      BY <2>1, <2>b, <2>c
    <2> QED
      BY <2>2, <2>3, <2>4, <2>5 DEF Bijection, Injection, IsInjective, Surjection
  <1> HIDE DEF N, Z, M, f
  <1>5. IsFiniteSet(Z) /\ IsFiniteSet(M) /\ IsFiniteSet(N \ Z)
    BY <1>1, <1>2, <1>3, FS_Subset
  <1>6. Cardinality(N \ M) = Cardinality(N \ Z)
    BY <1>4, <1>5, FS_Bijection DEF ExistsBijection
  <1>7. /\ Cardinality(N \ Z) = Cardinality(N) - Cardinality(Z)
        /\ Cardinality(N \ M) = Cardinality(N) - Cardinality(M)
    <2>1. N \intersect Z = Z /\ N \intersect M = M
      BY <1>2, <1>3
    <2>2. Cardinality(N \ Z) = Cardinality(N) - Cardinality(N \intersect Z)
      BY <1>1, FS_Difference
    <2>3. Cardinality(N \ M) = Cardinality(N) - Cardinality(N \intersect M)
      BY <1>1, FS_Difference
    <2> QED
      BY <2>1, <2>2, <2>3
  <1>8. Cardinality(Z) \in Nat /\ Cardinality(M) \in Nat
    BY <1>5, FS_CardinalityType
  <1> QED
    BY <1>1, <1>5, <1>6, <1>7, <1>8 DEF Z, N, M

(* The re-ranking, the limit and the minimum together.                     *)
LEMMA RerankIs ==
  ASSUME Catalog, Proposal, Rerank
  PROVE  /\ list' \in Seq(Candidates) /\ Len(list') <= Len(list)
         /\ \A i \in 1..Len(list') - 1 : list'[i].score >= list'[i + 1].score
         /\ \E d \in Sorted(list) : \E from : ComesFrom(from, d, Len(list))
  <1> DEFINE n == Len(list)
             limit == request[2]
  <1>1. n \in Nat /\ list \in [1..n -> Candidates] /\ n <= limit
    BY DEF Proposal
  <1>2. limit \in Nat
    BY RecsAssumption DEF Catalog
  <1>3. PICK q \in Reranked(list) : list' = Filtered(q, limit)
    BY DEF Rerank
  <1>c. PICK d \in Sorted(list) : \E src : Mixed(q, d, src, n)
    BY <1>1, <1>3, RerankedIs
  <1>4. PICK src : Mixed(q, d, src, n)
    BY <1>c
  <1> HIDE DEF n, limit
  <1>5. /\ DOMAIN d = 1..n
        /\ \A i \in 1..n : d[i] \in Candidates
    <2>1. DOMAIN list = 1..n
      BY <1>1
    <2>2. DOMAIN d = 1..n /\ \E p : Order(p, n) /\ \A i \in 1..n : d[i] = list[p[i]]
      <3>1. SortOf(d, list, n)
        BY <1>1, <2>1, SortedIs
      <3> QED
        BY <3>1 DEF SortOf
    <2> QED
      BY <1>1, <2>2 DEF Order
  <1>6. Unwritten \subseteq Candidates
    BY DEF Unwritten, Candidates, MinScore
  <1>7. q \in Seq(Candidates) /\ Len(q) = n
    <2>1. \A i \in 1..n : q[i] \in Candidates
      <3> SUFFICES ASSUME NEW i \in 1..n PROVE q[i] \in Candidates
        OBVIOUS
      <3>1. CASE src[i] = 0
        BY <1>4, <1>6, <3>1 DEF Mixed
      <3>2. CASE src[i] # 0
        <4>1. src[i] \in 1..n /\ q[i] = d[src[i]]
          BY <1>4, <3>2 DEF Mixed
        <4> QED
          BY <1>5, <4>1
      <3> QED
        BY <3>1, <3>2
    <2>2. q \in [1..n -> Candidates]
      BY <1>4, <2>1 DEF Mixed
    <2> QED
      BY <1>1, <2>2
  <1>8. Least(Len(q), limit) = n
    BY <1>1, <1>2, <1>7 DEF Least
  <1> DEFINE g == Len(list')
  <1>9. list' \in Seq(Candidates) /\ \E m : Taken(list', q, n, m)
    BY <1>2, <1>3, <1>7, <1>8, FilteredIs
  <1>b. PICK m : Taken(list', q, n, m)
    BY <1>9
  <1>10. /\ m \in [1..g -> 1..n]
         /\ \A i, j \in 1..g : i < j => m[i] < m[j]
         /\ \A i \in 1..g : list'[i] = q[m[i]] /\ Enough(q[m[i]])
         /\ \A k \in 1..n : Enough(q[k]) => \E i \in 1..g : m[i] = k
    BY <1>b DEF Taken
  <1>11. g \in Nat
    BY <1>9
  <1> HIDE DEF g
  <1>12. \A i, j \in 1..g : i # j => m[i] # m[j]
    <2>1. \A i, j \in 1..g : i # j => i < j \/ j < i
      BY <1>11
    <2>2. \A i \in 1..g : m[i] \in Int
      BY <1>10
    <2> QED
      BY <1>10, <2>1, <2>2
  <1>13. m \in Injection(1..g, 1..n)
    BY <1>10, <1>12 DEF Injection, IsInjective
  <1>14. g <= n
    <2>1. IsFiniteSet(1..n) /\ Cardinality(1..n) = n /\ Cardinality(1..g) = g
      BY <1>1, <1>11, FS_Interval
    <2> QED
      BY <1>13, <2>1, FS_Injection
  <1>15. \A i \in 1..g - 1 : list'[i].score >= list'[i + 1].score
    <2>a. \A i \in 1..n : q[i] \in Candidates
      BY <1>7
    <2>0. \A i \in 1..n : q[i].score \in Int
      BY <2>a DEF Candidates
    <2>1. \A i, j \in 1..n : i < j => q[i].score >= q[j].score
      BY <1>1, <1>4, <2>0, DescendingAll DEF Mixed
    <2>2. \A i \in 1..g - 1 : i \in 1..g /\ i + 1 \in 1..g /\ i < i + 1
      BY <1>11
    <2> QED
      BY <1>10, <2>1, <2>2
  <1> DEFINE from == [i \in 1..g |-> src[m[i]]]
  <1>16. ComesFrom(from, d, n)
    <2>1. \A i \in 1..g : from[i] = src[m[i]] /\ m[i] \in 1..n
      BY <1>10
    <2>2. from \in [1..g -> 0..n]
      BY <1>10, <1>4 DEF Mixed
    <2>c. DOMAIN from = 1..g
      OBVIOUS
    <2> HIDE DEF from
    <2>3. \A i \in 1..g : from[i] = 0 => list'[i] \in Unwritten
      <3>1. \A k \in 1..n : src[k] = 0 => q[k] \in Unwritten
        BY <1>4 DEF Mixed
      <3> QED
        BY <1>10, <2>1, <3>1
    <2>4. \A i \in 1..g : from[i] # 0 => /\ from[i] \in (1..n) \ Middle(n)
                                        /\ list'[i] = d[from[i]] /\ Enough(list'[i])
      <3> SUFFICES ASSUME NEW i \in 1..g, from[i] # 0
                   PROVE  /\ from[i] \in (1..n) \ Middle(n)
                          /\ list'[i] = d[from[i]] /\ Enough(list'[i])
        OBVIOUS
      <3>1. src[m[i]] \in (1..n) \ Middle(n) /\ q[m[i]] = d[src[m[i]]]
        BY <1>4, <2>1 DEF Mixed
      <3>2. list'[i] = q[m[i]] /\ Enough(q[m[i]])
        BY <1>10
      <3> QED
        BY <2>1, <3>1, <3>2
    <2>5. \A i, j \in 1..g : from[i] # 0 /\ from[i] = from[j] => i = j
      <3> SUFFICES ASSUME NEW i \in 1..g, NEW j \in 1..g, from[i] # 0, from[i] = from[j]
                   PROVE  i = j
        OBVIOUS
      <3>1. m[i] = m[j]
        BY <1>4, <2>1 DEF Mixed
      <3> QED
        BY <1>12, <3>1
    <2>6. \A p \in (1..n) \ Middle(n) : Enough(d[p]) => \E i \in 1..g : from[i] = p
      <3> SUFFICES ASSUME NEW p \in (1..n) \ Middle(n), Enough(d[p])
                   PROVE  \E i \in 1..g : from[i] = p
        OBVIOUS
      <3>1. PICK k \in 1..n : src[k] = p
        BY <1>4 DEF Mixed
      <3>2. q[k] = d[p]
        <4>1. p # 0
          OBVIOUS
        <4> QED
          BY <1>4, <3>1, <4>1 DEF Mixed
      <3>3. PICK i \in 1..g : m[i] = k
        BY <1>10, <3>2
      <3> QED
        BY <2>1, <3>1, <3>3
    <2>7. Cardinality({i \in 1..g : from[i] = 0}) <= Cardinality(Middle(n))
      <3> DEFINE Y == {i \in 1..g : from[i] = 0}
                 Z == {i \in 1..n : src[i] = 0}
                 r == [i \in Y |-> m[i]]
      <3>1. IsFiniteSet(Z) /\ Cardinality(Z) = Cardinality(Middle(n))
        BY <1>1, <1>4, JunkCount
      <3>2. r \in [Y -> Z]
        BY <2>1
      <3>3. \A i, j \in Y : r[i] = r[j] => i = j
        BY <1>12
      <3> HIDE DEF r, Y, Z
      <3>4. r \in Injection(Y, Z)
        BY <3>2, <3>3 DEF Injection, IsInjective
      <3>5. Cardinality(Y) <= Cardinality(Z)
        BY <3>1, <3>4, FS_Injection
      <3> QED
        BY <3>1, <3>5 DEF Y
    <2> QED
      BY <2>2, <2>3, <2>4, <2>5, <2>6, <2>7 DEF ComesFrom, g
  <1> QED
    BY <1>9, <1>14, <1>15, <1>16 DEF n, g

LEMMA RerankKeeps ==
  ASSUME Catalog, Proposal, Rerank
  PROVE  Catalog' /\ Proposal'
  <1> DEFINE n == Len(list)
             g == Len(list')
  <1>1. n \in Nat /\ list \in [1..n -> Candidates] /\ n <= request[2]
    BY DEF Proposal
  <1>2. /\ list' \in Seq(Candidates) /\ g <= n
        /\ \A i \in 1..g - 1 : list'[i].score >= list'[i + 1].score
        /\ \E d \in Sorted(list) : \E from : ComesFrom(from, d, n)
    BY RerankIs
  <1>d. PICK d \in Sorted(list) : \E from : ComesFrom(from, d, n)
    BY <1>2
  <1>3. PICK from : ComesFrom(from, d, n)
    BY <1>d
  <1>4. PICK p : Order(p, n) /\ \A i \in 1..n : d[i] = list[p[i]]
    <2>1. DOMAIN list = 1..n
      BY <1>1
    <2>2. SortOf(d, list, n)
      BY <1>1, <2>1, SortedIs
    <2> QED
      BY <2>2 DEF SortOf
  <1>5. /\ stage = "rerank" /\ stage' = "done"
        /\ UNCHANGED <<created, events, logged, now, request, liked>>
    BY DEF Rerank, catalogVars
  <1>6. Registered' = Registered
    BY <1>5 DEF Registered
  <1> HIDE DEF Registered
  <1>7. g \in Nat
    BY <1>2
  <1> HIDE DEF n, g
  <1>8. \A i \in 1..g : from[i] = 0 => list'[i].slug = Junk
    BY <1>3 DEF ComesFrom, Unwritten, g
  <1>9. \A i \in 1..g : from[i] # 0 => p[from[i]] \in 1..n /\ list'[i] = list[p[from[i]]]
    BY <1>3, <1>4 DEF ComesFrom, g, Order
  <1>10. \A i \in 1..g : list'[i].slug \in Registered' \union {Junk}
    <2>1. \A k \in 1..n : list[k].slug \in Registered \union {Junk}
      BY DEF Proposal, n
    <2> QED
      BY <1>6, <1>8, <1>9, <2>1
  <1>11. liked' # {} => \A i, j \in 1..g :
                          Stray(list'[i].slug, liked') /\ Stray(list'[j].slug, liked') => i = j
    <2> SUFFICES ASSUME liked # {}, NEW i \in 1..g, NEW j \in 1..g,
                        Stray(list'[i].slug, liked), Stray(list'[j].slug, liked)
                 PROVE  i = j
      BY <1>5
    <2>1. from[i] # 0 /\ from[j] # 0
      BY <1>8 DEF Stray
    <2>2. p[from[i]] = p[from[j]]
      BY <1>9, <2>1 DEF Proposal, n
    <2>3. from[i] = from[j]
      BY <1>3, <1>4, <2>1, <2>2 DEF ComesFrom, g, Order
    <2> QED
      BY <1>3, <2>1, <2>3 DEF ComesFrom, g
  <1>12. Catalog'
    BY <1>5 DEF Catalog
  <1>13. g <= request'[2]
    <2>1. request[2] \in Nat
      BY RecsAssumption DEF Catalog
    <2> QED
      BY <1>1, <1>2, <1>5, <1>7, <2>1 DEF g
  <1> QED
    BY <1>2, <1>5, <1>10, <1>11, <1>12, <1>13 DEF Proposal, g

-----------------------------------------------------------------------------
(* Theorems about WubuRecs                                                 *)

\* Every step keeps both.
LEMMA NextRecs ==
  ASSUME Catalog, Proposal, [RecsNext]_recsVars
  PROVE  Catalog' /\ Proposal'
  <1>0. /\ {MaxEvents, MaxClock} \subseteq Nat \ {0}
        /\ created \in [Items -> 0..MaxClock] /\ now \in 1..MaxClock /\ logged \in 0..MaxEvents
        /\ events \in [Cell -> Nat]
    BY RecsAssumption DEF Catalog
  <1>1. CASE UNCHANGED recsVars
    <2>1. Catalog'
      BY <1>1 DEF recsVars, catalogVars, Catalog
    <2> QED
      BY <1>1, <2>1, ProposalStays DEF recsVars, catalogVars
  <1>2. CASE Tick
    <2>1. Catalog'
      BY <1>0, <1>2 DEF Tick, catalogVars, Catalog
    <2> QED
      BY <1>2, <2>1, ProposalStays DEF Tick, catalogVars
  <1>3. ASSUME NEW s \in Items, Register(s) PROVE Catalog' /\ Proposal'
    <2>1. created' \in [Items -> 0..MaxClock] /\ \A t \in Items : created'[t] \in {created[t], now}
      BY <1>0, <1>3 DEF Register
    <2>2. Catalog'
      BY <1>3, <2>1 DEF Register, Catalog
    <2>3. \A t \in Items : created[t] > 0 => created'[t] > 0
      BY <1>0, <2>1
    <2> QED
      BY <1>3, <2>2, <2>3, ProposalStays DEF Register
  <1>4. ASSUME NEW c \in Cell, LogEvent(c) PROVE Catalog' /\ Proposal'
    <2>1. events' \in [Cell -> Nat] /\ logged' = logged + 1 /\ logged' \in 0..MaxEvents
      BY <1>0, <1>4 DEF LogEvent
    <2>2. \A b \in Cell : events'[b] <= logged'
      <3> SUFFICES ASSUME NEW b \in Cell PROVE events'[b] <= logged'
        OBVIOUS
      <3>1. events[b] \in Nat /\ events[b] <= logged /\ events[c] \in Nat
        BY DEF Catalog
      <3>2. events'[b] \in {events[b], events[b] + 1}
        BY <1>0, <1>4 DEF LogEvent
      <3> QED
        BY <1>0, <2>1, <3>1, <3>2
    <2>3. Catalog'
      BY <1>4, <2>1, <2>2 DEF LogEvent, Catalog
    <2> QED
      BY <1>4, <2>3, ProposalStays DEF LogEvent
  <1>5. ASSUME NEW u \in Users, NEW limit \in Limits, Retrieve(u, limit)
        PROVE  Catalog' /\ Proposal'
    BY <1>5, RetrieveKeeps
  <1>6. CASE Rank
    BY <1>6, RankKeeps
  <1>7. CASE Rerank
    BY <1>7, RerankKeeps
  <1>8. CASE TakeResult
    <2>1. Catalog'
      BY <1>8 DEF TakeResult, catalogVars, Catalog
    <2>2. list' = <<>> /\ request' = request /\ request[2] \in Nat /\ stage' = "idle"
      BY <1>8, RecsAssumption DEF TakeResult, Catalog
    <2>3. Proposal'
      BY <2>2 DEF Proposal
    <2> QED
      BY <2>1, <2>3
  <1> QED
    BY <1>1, <1>2, <1>3, <1>4, <1>5, <1>6, <1>7, <1>8 DEF RecsNext

(* Whatever is registered and logged between the steps of a call, the      *)
(* candidates are registered contents or entries nobody wrote, never more  *)
(* than were asked for, and the scores are numbers.                        *)
THEOREM RecsTypeCorrect == RecsSpec => []RecsTypeOK
  <1>1. Catalog /\ Proposal => RecsTypeOK
    <2> SUFFICES ASSUME Catalog, Proposal PROVE RecsTypeOK
      OBVIOUS
    <2>1. events \in [Cell -> 0..MaxEvents]
      <3>1. \A c \in Cell : events[c] \in 0..MaxEvents
        BY RecsAssumption DEF Catalog
      <3> QED
        BY <3>1 DEF Catalog
    <2>2. \A i \in DOMAIN list : list[i].slug \in Registered \union {Junk} /\ list[i].score \in Int
      <3>1. DOMAIN list = 1..Len(list) /\ \A i \in 1..Len(list) : list[i] \in Candidates
        BY DEF Proposal
      <3> QED
        BY <3>1 DEF Proposal, Candidates
    <2> QED
      BY <2>1, <2>2 DEF RecsTypeOK, Catalog, Proposal
  <1> QED
    BY <1>1, InitRecs, NextRecs, PTL DEF RecsSpec

(* The one content that need not be like what the user reacted to is the   *)
(* one first retrieved: neither sort, nor the mixing of high and low       *)
(* scores, nor the filter makes a second copy of it.                       *)
THEOREM OnlyOneUnrelated == RecsSpec => []AtMostOneUnrelated
  <1>1. Catalog /\ Proposal => AtMostOneUnrelated
    <2> SUFFICES ASSUME Proposal, stage # "idle", liked # {}
                 PROVE  Cardinality({i \in DOMAIN list : Stray(list[i].slug, liked)}) <= 1
      BY DEF AtMostOneUnrelated, Stray
    <2> DEFINE S == {i \in DOMAIN list : Stray(list[i].slug, liked)}
    <2>1. \A i, j \in S : i = j
      BY DEF Proposal
    <2> HIDE DEF S
    <2>2. S = {} \/ \E i : S = {i}
      BY <2>1
    <2>3. Cardinality(S) \in {0, 1}
      BY <2>2, FS_EmptySet, FS_Singleton
    <2> QED
      BY <2>3 DEF S
  <1> QED
    BY <1>1, InitRecs, NextRecs, PTL DEF RecsSpec

\* Scores that never rise from one place of a list of n to the next
Falls(l, n) ==
  /\ \A i \in 1..n : l[i].score \in Int
  /\ \A i \in 1..n - 1 : l[i].score >= l[i + 1].score

\* d is the list l of n, in the order p.
Reorders(d, l, p, n) == Order(p, n) /\ \A i \in 1..n : d[i] = l[p[i]]

(* Two lists of the same candidates that are both in descending order have *)
(* the same scores in the same places: otherwise the entries before, or    *)
(* after, such a place would have to come from fewer places.               *)
LEMMA SameScores ==
  ASSUME NEW n \in Nat, NEW l, NEW d, NEW p, Reorders(d, l, p, n), Falls(l, n), Falls(d, n)
  PROVE  \A i \in 1..n : d[i].score = l[i].score
  <1>1. p \in [1..n -> 1..n] /\ \A i, j \in 1..n : i # j => p[i] # p[j]
    BY DEF Reorders, Order
  <1>2. \A i \in 1..n : /\ d[i].score = l[p[i]].score /\ d[i].score \in Int /\ p[i] \in 1..n
                        /\ l[i].score \in Int
    BY <1>1 DEF Reorders, Falls
  <1>a. \A i, j \in 1..n : i < j => l[i].score >= l[j].score
    BY DescendingAll DEF Falls
  <1>b. \A i, j \in 1..n : i < j => d[i].score >= d[j].score
    BY <1>2, DescendingAll DEF Falls
  <1>c. \A i, j \in 1..n : i <= j => i = j \/ i < j
    OBVIOUS
  <1>d. \A x \in Int : x >= x
    OBVIOUS
  <1>3. \A i, j \in 1..n : i <= j => l[i].score >= l[j].score
    BY <1>2, <1>a, <1>c, <1>d
  <1>4. \A i, j \in 1..n : i <= j => d[i].score >= d[j].score
    BY <1>b, <1>c, <1>d, <1>2
  <1> SUFFICES ASSUME NEW i \in 1..n PROVE d[i].score = l[i].score
    OBVIOUS
  <1>5. CASE d[i].score > l[i].score
    <2>1. \A j \in 1..i : p[j] \in 1..i - 1
      <3> SUFFICES ASSUME NEW j \in 1..i PROVE p[j] < i
        BY <1>2
      <3>1. j \in 1..n /\ d[j].score >= d[i].score
        BY <1>2, <1>4
      <3>2. l[p[j]].score > l[i].score /\ p[j] \in 1..n
        BY <1>2, <1>5, <3>1
      <3>3. ~(i <= p[j])
        BY <1>2, <1>3, <3>2
      <3> QED
        BY <3>2, <3>3
    <2> DEFINE f == [j \in 1..i |-> p[j]]
    <2>2. f \in [1..i -> 1..i - 1]
      BY <2>1
    <2>3. /\ IsFiniteSet(1..i) /\ Cardinality(1..i) = i
          /\ IsFiniteSet(1..i - 1) /\ Cardinality(1..i - 1) = i - 1
      BY FS_Interval
    <2>4. \A x, y \in 1..i : f[x] = p[x] /\ f[y] = p[y] /\ x \in 1..n /\ y \in 1..n
      OBVIOUS
    <2> HIDE DEF f
    <2>5. \A x, y \in 1..i : f[x] = f[y] => x = y
      BY <1>1, <2>4
    <2>6. f \in Injection(1..i, 1..i - 1)
      BY <2>2, <2>5 DEF Injection, IsInjective
    <2>7. Cardinality(1..i) <= Cardinality(1..i - 1)
      BY <2>3, <2>6, FS_Injection
    <2> QED
      BY <2>3, <2>7
  <1>6. CASE d[i].score < l[i].score
    <2>1. \A j \in i..n : p[j] \in i + 1..n
      <3> SUFFICES ASSUME NEW j \in i..n PROVE p[j] > i
        BY <1>2
      <3>1. j \in 1..n /\ d[i].score >= d[j].score
        BY <1>2, <1>4
      <3>2. l[p[j]].score < l[i].score /\ p[j] \in 1..n
        BY <1>2, <1>6, <3>1
      <3>3. ~(p[j] <= i)
        BY <1>2, <1>3, <3>2
      <3> QED
        BY <3>2, <3>3
    <2> DEFINE f == [j \in i..n |-> p[j]]
    <2>2. f \in [i..n -> i + 1..n]
      BY <2>1
    <2>3. /\ IsFiniteSet(i..n) /\ Cardinality(i..n) = n - i + 1
          /\ IsFiniteSet(i + 1..n) /\ Cardinality(i + 1..n) = n - i
      BY FS_Interval
    <2>4. \A x, y \in i..n : f[x] = p[x] /\ f[y] = p[y] /\ x \in 1..n /\ y \in 1..n
      OBVIOUS
    <2> HIDE DEF f
    <2>5. \A x, y \in i..n : f[x] = f[y] => x = y
      BY <1>1, <2>4
    <2>6. f \in Injection(i..n, i + 1..n)
      BY <2>2, <2>5 DEF Injection, IsInjective
    <2>7. Cardinality(i..n) <= Cardinality(i + 1..n)
      BY <2>3, <2>6, FS_Injection
    <2> QED
      BY <2>3, <2>7
  <1>7. d[i].score \in Int /\ l[i].score \in Int
    BY <1>2
  <1> QED
    BY <1>5, <1>6, <1>7

(* What lies between the halves is what the reference leaves out.          *)
LEMMA MiddleIs ==
  ASSUME NEW n \in Nat
  PROVE  LET lost == IF n < 2 THEN 0 ELSE n - 2 * Least(n \div 2, MaxHalf)
         IN  /\ (n - lost) \div 2 + 1 .. (n + lost) \div 2 = Middle(n)
             /\ Cardinality(Middle(n)) <= lost /\ lost \in Int
             /\ IsFiniteSet(Middle(n)) /\ Cardinality(Middle(n)) \in Nat
  <1> DEFINE lost == IF n < 2 THEN 0 ELSE n - 2 * Least(n \div 2, MaxHalf)
             h == Half(n)
  <1>0. IsFiniteSet(Middle(n)) /\ Cardinality(Middle(n)) \in Nat
    <2>1. h + 1 \in Int /\ n - h \in Int
      BY HalfIs
    <2> HIDE DEF h
    <2>2. IsFiniteSet(h + 1..n - h)
      BY <2>1, FS_Interval
    <2>3. IsFiniteSet(Middle(n))
      BY <2>2 DEF Middle, h
    <2> QED
      BY <2>3, FS_CardinalityType
  <1>1. CASE n < 2
    <2>1. n \in {0, 1} /\ h = n /\ lost = 0
      BY <1>1, HalfIs
    <2>2. Middle(n) = n + 1..0
      BY <2>1 DEF Middle
    <2>3. Middle(n) = {} /\ n \div 2 + 1 .. n \div 2 = {}
      BY <2>1, <2>2
    <2>4. (n - lost) \div 2 + 1 .. (n + lost) \div 2 = n \div 2 + 1 .. n \div 2
      BY <2>1
    <2>5. Cardinality(Middle(n)) = 0
      BY <2>3, FS_EmptySet
    <2> QED
      BY <1>0, <2>1, <2>3, <2>4, <2>5
  <1>2. CASE n >= 2
    <2>1. h \in 1..n /\ 2 * h <= n /\ lost = n - 2 * h
      BY <1>2, HalfIs
    <2>a. Middle(n) = h + 1 .. n - h
      BY DEF Middle
    <2>b. lost \in Int
      BY <2>1
    <2> HIDE DEF h, lost
    <2>2. (n - lost) \div 2 = h /\ (n + lost) \div 2 = n - h
      <3>1. n - lost = 2 * h /\ n + lost = 2 * (n - h)
        BY <2>1
      <3>2. (2 * h) \div 2 = h /\ (2 * (n - h)) \div 2 = n - h
        BY <2>1
      <3> QED
        BY <3>1, <3>2
    <2>3. Cardinality(Middle(n)) = n - 2 * h
      <3>1. h + 1 \in Int /\ n - h \in Int
        BY <2>1
      <3>2. Cardinality(h + 1 .. n - h) = IF h + 1 > n - h THEN 0 ELSE (n - h) - (h + 1) + 1
        BY <3>1, FS_Interval
      <3> QED
        BY <2>1, <2>a, <3>2
    <2> QED
      BY <1>0, <2>1, <2>2, <2>3, <2>a, <2>b DEF h, lost
  <1> QED
    BY <1>1, <1>2

(* A re-ranking against its reference: the result is in descending order,  *)
(* nothing but the middle of the candidates is replaced, and the others    *)
(* that have the minimum score are all there, as often as before.          *)
LEMMA RerankMatches ==
  ASSUME Catalog, Proposal, Rerank
  PROVE  LET n == Len(list)
             good == {k \in DOMAIN list' : list'[k].slug # Junk}
         IN  /\ \A i \in 1..Len(list') - 1 : list'[i].score >= list'[i + 1].score
             /\ Len(list') - Cardinality(good) <= Cardinality(Middle(n))
             /\ {list'[k] : k \in good} \subseteq ToSet(list)
             /\ \A i \in 1..n :
                  Cardinality({k \in good : list'[k].score = list[i].score})
                    = Cardinality({k \in (1..n) \ Middle(n) :
                                     Enough(list[k]) /\ list[k].score = list[i].score})
  <1> DEFINE n == Len(list)
             g == Len(list')
             good == {k \in DOMAIN list' : list'[k].slug # Junk}
  <1>1. n \in Nat /\ list \in [1..n -> Candidates]
    BY DEF Proposal
  <1>2. /\ list' \in Seq(Candidates) /\ g <= n
        /\ \A i \in 1..g - 1 : list'[i].score >= list'[i + 1].score
        /\ \E d \in Sorted(list) : \E from : ComesFrom(from, d, n)
    BY RerankIs
  <1>d. PICK d \in Sorted(list) : \E from : ComesFrom(from, d, n)
    BY <1>2
  <1>3. PICK from : ComesFrom(from, d, n)
    BY <1>d
  <1>4. /\ DOMAIN d = 1..n
        /\ \A i \in 1..n - 1 : d[i].score >= d[i + 1].score
        /\ \E p : Order(p, n) /\ \A i \in 1..n : d[i] = list[p[i]]
    <2>1. DOMAIN list = 1..n
      BY <1>1
    <2>2. SortOf(d, list, n)
      BY <1>1, <2>1, SortedIs
    <2> QED
      BY <2>2 DEF SortOf
  <1>5. PICK p : Order(p, n) /\ \A i \in 1..n : d[i] = list[p[i]]
    BY <1>4
  <1>6. /\ \A i \in 1..n : list[i].slug # Junk
        /\ \A i \in 1..n - 1 : list[i].score >= list[i + 1].score
    BY DEF Proposal, Rerank
  <1>7. g \in Nat /\ DOMAIN list' = 1..g
    BY <1>2
  <1> HIDE DEF n, g
  <1>8. \A i \in 1..n : list[i] \in Candidates /\ list[i].score \in Int
    BY <1>1 DEF Candidates
  <1>a. Falls(list, n)
    BY <1>6, <1>8 DEF Falls
  <1>b. Falls(d, n)
    <2>1. \A i \in 1..n : d[i].score \in Int
      BY <1>5, <1>8 DEF Order
    <2> QED
      BY <1>4, <2>1 DEF Falls
  <1>c. Reorders(d, list, p, n)
    BY <1>5 DEF Reorders
  <1>9. \A i \in 1..n : d[i].score = list[i].score
    BY <1>1, <1>a, <1>b, <1>c, SameScores
  <1>10. \A i \in 1..g : from[i] = 0 => list'[i].slug = Junk
    BY <1>3 DEF ComesFrom, Unwritten, g
  <1>11. \A i \in 1..g : from[i] # 0 =>
           /\ from[i] \in (1..n) \ Middle(n) /\ list'[i] = d[from[i]] /\ Enough(list'[i])
           /\ p[from[i]] \in 1..n /\ list'[i] = list[p[from[i]]] /\ list'[i].slug # Junk
    BY <1>3, <1>5, <1>6 DEF ComesFrom, g, Order
  <1>12. good = {i \in 1..g : from[i] # 0}
    BY <1>7, <1>10, <1>11
  <1>13. {list'[k] : k \in good} \subseteq ToSet(list)
    <2>1. \A k \in 1..n : list[k] \in ToSet(list)
      BY <1>1 DEF ToSet
    <2> QED
      BY <1>11, <1>12, <2>1
  <1> HIDE DEF good
  <1>14. g - Cardinality(good) <= Cardinality(Middle(n))
    <2> DEFINE Z == {i \in 1..g : from[i] = 0}
    <2>1. IsFiniteSet(1..g) /\ Cardinality(1..g) = g
      BY <1>7, FS_Interval
    <2>2. good = (1..g) \ Z /\ (1..g) \intersect Z = Z
      BY <1>12
    <2>3. Cardinality((1..g) \ Z) = Cardinality(1..g) - Cardinality((1..g) \intersect Z)
      BY <2>1, FS_Difference
    <2>4. Cardinality(Z) <= Cardinality(Middle(n))
      BY <1>3 DEF ComesFrom, g
    <2>5. IsFiniteSet(Z)
      BY <2>1, FS_Subset
    <2> HIDE DEF Z
    <2>6. Cardinality(Z) \in Nat
      BY <2>5, FS_CardinalityType
    <2>7. IsFiniteSet(Middle(n)) /\ Cardinality(Middle(n)) \in Nat
      BY <1>1, MiddleIs
    <2>8. Cardinality(good) = g - Cardinality(Z)
      BY <2>1, <2>2, <2>3
    <2> QED
      BY <1>7, <2>4, <2>6, <2>7, <2>8
  <1>15. \A i \in 1..n :
           Cardinality({k \in good : list'[k].score = list[i].score})
             = Cardinality({k \in (1..n) \ Middle(n) :
                              Enough(list[k]) /\ list[k].score = list[i].score})
    <2> SUFFICES ASSUME NEW i \in 1..n
                 PROVE  Cardinality({k \in good : list'[k].score = list[i].score})
                          = Cardinality({k \in (1..n) \ Middle(n) :
                                           Enough(list[k]) /\ list[k].score = list[i].score})
      OBVIOUS
    <2> DEFINE A == {k \in good : list'[k].score = list[i].score}
               B == {k \in (1..n) \ Middle(n) : Enough(list[k]) /\ list[k].score = list[i].score}
               f == [k \in A |-> from[k]]
    <2>1. \A k \in A : k \in 1..g /\ from[k] # 0 /\ f[k] = from[k]
      BY <1>12
    <2>a. \A k \in 1..n : Enough(d[k]) <=> Enough(list[k])
      BY <1>9 DEF Enough
    <2>2. \A k \in A : from[k] \in B
      <3> SUFFICES ASSUME NEW k \in A PROVE from[k] \in B
        OBVIOUS
      <3>1. k \in 1..g /\ from[k] # 0 /\ list'[k].score = list[i].score
        BY <2>1
      <3>2. from[k] \in (1..n) \ Middle(n) /\ list'[k] = d[from[k]] /\ Enough(d[from[k]])
        BY <1>11, <3>1
      <3>3. list[from[k]].score = list[i].score /\ Enough(list[from[k]])
        BY <1>9, <2>a, <3>1, <3>2
      <3> QED
        BY <3>2, <3>3
    <2>3. f \in [A -> B]
      BY <2>2
    <2>4. \A k, m \in A : f[k] = f[m] => k = m
      <3> SUFFICES ASSUME NEW k \in A, NEW m \in A, f[k] = f[m] PROVE k = m
        OBVIOUS
      <3>1. k \in 1..g /\ m \in 1..g /\ from[k] # 0 /\ from[k] = from[m]
        BY <2>1
      <3> QED
        BY <1>3, <3>1 DEF ComesFrom, g
    <2>5. \A b \in B : \E k \in A : f[k] = b
      <3> SUFFICES ASSUME NEW b \in B PROVE \E k \in A : f[k] = b
        OBVIOUS
      <3>1. b \in (1..n) \ Middle(n) /\ Enough(list[b]) /\ list[b].score = list[i].score
        OBVIOUS
      <3>2. Enough(d[b])
        BY <2>a, <3>1
      <3>3. PICK k \in 1..g : from[k] = b
        BY <1>3, <3>1, <3>2 DEF ComesFrom, g
      <3>4. from[k] # 0
        BY <3>1, <3>3
      <3>5. list'[k].score = list[i].score
        BY <1>9, <1>11, <3>1, <3>3, <3>4
      <3>6. k \in A
        BY <1>12, <3>4, <3>5
      <3> QED
        BY <2>1, <3>3, <3>6
    <2>6. IsFiniteSet(A)
      <3>1. IsFiniteSet(1..g) /\ A \in SUBSET (1..g)
        BY <1>7, <1>12, FS_Interval
      <3> QED
        BY <3>1, FS_Subset
    <2> HIDE DEF f, A, B
    <2>7. f \in Bijection(A, B)
      BY <2>3, <2>4, <2>5 DEF Bijection, Injection, IsInjective, Surjection
    <2>8. Cardinality(B) = Cardinality(A)
      BY <2>6, <2>7, FS_Bijection DEF ExistsBijection
    <2> QED
      BY <2>8 DEF A, B
  <1> QED
    BY <1>2, <1>13, <1>14, <1>15 DEF n, g, good

(* In every call and whatever happened before it, the re-ranking loses     *)
(* exactly the middle of the candidates and what is below the minimum.     *)
THEOREM RerankIsReference == RecsSpec => RerankMatchesReference
  <1> DEFINE Matches ==
               LET n == Len(list)
                   lost == IF n < 2 THEN 0 ELSE n - 2 * Least(n \div 2, MaxHalf)
                   middle == (n - lost) \div 2 + 1 .. (n + lost) \div 2
                   good == {k \in DOMAIN list' : list'[k].slug # Junk}
               IN /\ \A i \in 1..Len(list') - 1 : list'[i].score >= list'[i + 1].score
                  /\ Len(list') - Cardinality(good) <= lost
                  /\ {list'[k] : k \in good} \subseteq ToSet(list)
                  /\ \A i \in 1..n :
                       Cardinality({k \in good : list'[k].score = list[i].score})
                         = Cardinality({k \in (1..n) \ middle :
                                          Enough(list[k]) /\ list[k].score = list[i].score})
  <1>1. ASSUME Catalog, Proposal, Rerank PROVE Matches
    <2> DEFINE n == Len(list)
               good == {k \in DOMAIN list' : list'[k].slug # Junk}
               lost == IF n < 2 THEN 0 ELSE n - 2 * Least(n \div 2, MaxHalf)
               middle == (n - lost) \div 2 + 1 .. (n + lost) \div 2
    <2>1. /\ \A i \in 1..Len(list') - 1 : list'[i].score >= list'[i + 1].score
          /\ Len(list') - Cardinality(good) <= Cardinality(Middle(n))
          /\ {list'[k] : k \in good} \subseteq ToSet(list)
          /\ \A i \in 1..n :
               Cardinality({k \in good : list'[k].score = list[i].score})
                 = Cardinality({k \in (1..n) \ Middle(n) :
                                  Enough(list[k]) /\ list[k].score = list[i].score})
      BY <1>1, RerankMatches
    <2>2. n \in Nat /\ Len(list') \in Nat /\ DOMAIN list' = 1..Len(list')
      BY <1>1, RerankIs DEF Proposal
    <2>3. middle = Middle(n) /\ Cardinality(Middle(n)) <= lost /\ lost \in Int
      BY <2>2, MiddleIs
    <2>4. Cardinality(Middle(n)) \in Int /\ Cardinality(good) \in Int
      <3>1. IsFiniteSet(Middle(n))
        BY <2>2, MiddleIs
      <3>2. IsFiniteSet(1..Len(list')) /\ good \in SUBSET (1..Len(list'))
        BY <2>2, FS_Interval
      <3>3. IsFiniteSet(good)
        BY <3>2, FS_Subset
      <3> HIDE DEF good
      <3> QED
        BY <3>1, <3>3, FS_CardinalityType
    <2>5. Len(list') - Cardinality(good) <= lost
      <3> HIDE DEF lost, good, n
      <3> QED
        BY <2>1, <2>2, <2>3, <2>4
    <2> HIDE DEF n, good, lost, middle
    <2>6. \A i \in 1..n :
            Cardinality({k \in good : list'[k].score = list[i].score})
              = Cardinality({k \in (1..n) \ middle :
                               Enough(list[k]) /\ list[k].score = list[i].score})
      BY <2>1, <2>3
    <2> QED
      BY <2>1, <2>5, <2>6 DEF n, good, lost, middle
  <1> HIDE DEF Matches
  <1>2. ASSUME Catalog, Proposal, [RecsNext]_recsVars, stage = "rerank", stage' = "done"
        PROVE  Matches
    <2>1. Rerank
      BY <1>2 DEF RecsNext, recsVars, Tick, Register, LogEvent, Retrieve, Rank, TakeResult
    <2> QED
      BY <1>1, <1>2, <2>1
  <1>3. Catalog /\ Proposal /\ [RecsNext]_recsVars =>
          [stage = "rerank" /\ stage' = "done" => Matches]_recsVars
    BY <1>2
  <1> USE DEF Matches
  <1> QED
    BY <1>3, InitRecs, NextRecs, PTL DEF RecsSpec, RerankMatchesReference
=============================================================================
