----------------------------- MODULE WubuWiki -----------------------------
(***************************************************************************)
(* wubu_wiki.c: the knowledge base.  wubu_wiki_upsert runs four kinds of   *)
(* statement outside any transaction, so each is an action of its own and  *)
(* a crash, or another process, may come between them; auto_links reads    *)
(* the articles, then writes its links in one transaction.                 *)
(*                                                                         *)
(* A content stands for its text, the slugs it mentions and the fact its   *)
(* caller extracts from it; HashOf is its djb2 hash, which collides easily.*)
(* Titles, tags, sources and timestamps are left out; searches and listings*)
(* only read.                                                              *)
(***************************************************************************)
EXTENDS Integers, FiniteSets, SequencesExt

CONSTANTS
  Procs,         \* processes that open the database file
  Slugs,
  Contents,
  NoContent,     \* absence of a content
  Hashes,        \* 16 hexadecimal digits
  HashOf,        \* wubu_hash of each content
  NoHash,        \* absence of a checkpoint
  Mentions,      \* <<content, slug>>: the content contains the slug's core name
  HasFact,       \* contents upserted together with a fact
  WIKI_MAX_AUTO, \* articles auto_links looks at
  MaxWrites,     \* bound on calls of upsert, put_fact, link and clear
  MaxCrashes     \* bound on crashes

ASSUME WikiAssumption ==
  /\ NoContent \notin Contents
  /\ HashOf \in [Contents -> Hashes]
  /\ NoHash \notin Hashes
  /\ Mentions \subseteq Contents \X Slugs
  /\ HasFact \subseteq Contents
  /\ WIKI_MAX_AUTO \in Nat
  /\ MaxWrites \in Nat
  /\ MaxCrashes \in Nat

VARIABLES
  articles,      \* FTS5 table: rows, slug not unique
  checkpoints,   \* table checkpoints: the hash of each slug, UNIQUE
  facts,         \* table facts: the fact of each slug
  links,         \* table links, kind 'related'
  pc,            \* the next statement of each process
  call,          \* the arguments and locals of each process's call
  writes,        \* such calls made so far
  crashes,       \* crashes so far
  latest,        \* history: content of the last upsert of each slug
  unsettled,     \* history: slugs whose last DELETE no lone upsert has finished after
  overlapped,    \* history: some call began during another process's call
  disturbed      \* history: processes whose last call overlapped another

dbVars == <<articles, checkpoints, facts, links>>
overlaps == <<overlapped, disturbed>>
vars == <<dbVars, pc, call, writes, crashes, latest, unsettled, overlaps>>

Maybe == Contents \union {NoContent}

Nothing == [s \in Slugs |-> NoContent]

Upserts == [slug : Slugs, content : Contents]

\* what upsert or put_fact was given, the pair of link, the rows of auto_links
NoCall == [given |-> <<>>, pair |-> <<>>, rows |-> {}]

-----------------------------------------------------------------------------
Init ==
  /\ articles = {}
  /\ checkpoints = [s \in Slugs |-> NoHash]
  /\ facts = Nothing
  /\ links = {}
  /\ pc = [p \in Procs |-> "idle"]
  /\ call = [p \in Procs |-> NoCall]
  /\ writes = 0
  /\ crashes = 0
  /\ latest = Nothing
  /\ unsettled = {}
  /\ overlapped = FALSE
  /\ disturbed = {}

WriteSteps ==
  {"delete", "insert", "checkpoint", "facts", "put", "relate", "unlink", "link"}

\* Another process is executing a write: with no busy timeout set this
\* process's write fails with SQLITE_BUSY.
Busy(p) == \E q \in Procs \ {p} : pc[q] \in WriteSteps

\* A call begins: the calls in progress and this one overlap.
Begin(p) ==
  LET active == {q \in Procs \ {p} : pc[q] # "idle"}
  IN  /\ overlapped' = (overlapped \/ active # {})
      /\ disturbed' = IF active = {} THEN {} ELSE disturbed \union active \union {p}

Goto(p, step) == pc' = [pc EXCEPT ![p] = step]

Return(p) == Goto(p, "idle") /\ call' = [call EXCEPT ![p] = NoCall]

Arg(p) == call[p].given[1]

Rows(s) == {a \in articles : a.slug = s}

Alike(c, d) == HashOf[c] = HashOf[d]

\* One of the bounded calls begins.
Start(p, locals, step) ==
  /\ pc[p] = "idle"
  /\ writes < MaxWrites
  /\ writes' = writes + 1
  /\ call' = [call EXCEPT ![p] = locals]
  /\ Goto(p, step)
  /\ Begin(p)
  /\ UNCHANGED <<dbVars, crashes, latest, unsettled>>

\* wubu_wiki_upsert is called
Upsert(p, u) == Start(p, [NoCall EXCEPT !.given = <<u>>], "check")

\* mutant: the check forgets the slug
Unchanged_AnySlug(u) == \E s \in Slugs : checkpoints[s] = HashOf[u.content]

Unchanged(u) == checkpoints[u.slug] = HashOf[u.content]

CheckCheckpoint(p) ==
  /\ pc[p] = "check"
  /\ IF Unchanged(Arg(p))
     THEN /\ Return(p)
          /\ latest' = [latest EXCEPT ![Arg(p).slug] = Arg(p).content]
     ELSE Goto(p, "delete") /\ UNCHANGED <<call, latest>>
  /\ UNCHANGED <<dbVars, writes, crashes, unsettled, overlaps>>

\* mutant: the old article is not deleted
DeleteArticle_Skipped(p) ==
  /\ pc[p] = "delete"
  /\ Goto(p, "insert")
  /\ unsettled' = unsettled \union {Arg(p).slug}
  /\ UNCHANGED <<dbVars, call, writes, crashes, latest, overlaps>>

DeleteArticle(p) ==
  /\ pc[p] = "delete"
  /\ \/ articles' = articles \ Rows(Arg(p).slug)
     \/ Busy(p) /\ UNCHANGED articles
  /\ unsettled' = unsettled \union {Arg(p).slug}
  /\ Goto(p, "insert")
  /\ UNCHANGED <<checkpoints, facts, links, call, writes, crashes, latest, overlaps>>

NextRowid == 1 + Max({0} \union {a.id : a \in articles})

InsertArticle(p) ==
  /\ pc[p] = "insert"
  /\ \/ /\ articles' = articles \union
             {[id |-> NextRowid, slug |-> Arg(p).slug, content |-> Arg(p).content]}
        /\ Goto(p, "checkpoint")
        /\ UNCHANGED call
     \/ Busy(p) /\ UNCHANGED articles /\ Return(p)          \* return -1
  /\ UNCHANGED <<checkpoints, facts, links, writes, crashes, latest, unsettled, overlaps>>

\* INSERT OR REPLACE: the rows that conflict on slug or on hash go away
Replaced(u) ==
  [s \in Slugs |-> IF s = u.slug THEN HashOf[u.content]
                   ELSE IF checkpoints[s] = HashOf[u.content] THEN NoHash
                   ELSE checkpoints[s]]

SaveCheckpoint(p) ==
  /\ pc[p] = "checkpoint"
  /\ \/ checkpoints' = Replaced(Arg(p))
     \/ Busy(p) /\ UNCHANGED checkpoints
  /\ Goto(p, "facts")
  /\ UNCHANGED <<articles, facts, links, call, writes, crashes, latest, unsettled, overlaps>>

StoreFacts(p) ==
  /\ pc[p] = "facts"
  /\ \/ /\ Arg(p).content \in HasFact
        /\ facts' = [facts EXCEPT ![Arg(p).slug] = Arg(p).content]
     \/ Arg(p).content \notin HasFact /\ UNCHANGED facts
     \/ Busy(p) /\ UNCHANGED facts
  /\ latest' = [latest EXCEPT ![Arg(p).slug] = Arg(p).content]
  /\ unsettled' = IF p \in disturbed THEN unsettled ELSE unsettled \ {Arg(p).slug}
  /\ Return(p)
  /\ UNCHANGED <<articles, checkpoints, links, writes, crashes, overlaps>>

\* wubu_wiki_put_fact
PutFact(p, u) == Start(p, [NoCall EXCEPT !.given = <<u>>], "put")

WriteFact(p) ==
  /\ pc[p] = "put"
  /\ \/ facts' = [facts EXCEPT ![Arg(p).slug] = Arg(p).content]
     \/ Busy(p) /\ UNCHANGED facts
  /\ Return(p)
  /\ UNCHANGED <<articles, checkpoints, links, writes, crashes, latest, unsettled, overlaps>>

\* wubu_wiki_link
Link(p, pair) == Start(p, [NoCall EXCEPT !.pair = pair], "relate")

WriteLink(p) ==
  /\ pc[p] = "relate"
  /\ \/ links' = links \union {call[p].pair}
     \/ Busy(p) /\ UNCHANGED links
  /\ Return(p)
  /\ UNCHANGED <<articles, checkpoints, facts, writes, crashes, latest, unsettled, overlaps>>

ClearLinks(p) == Start(p, NoCall, "unlink")

WriteClear(p) ==
  /\ pc[p] = "unlink"
  /\ \/ links' = {}
     \/ Busy(p) /\ UNCHANGED links
  /\ Return(p)
  /\ UNCHANGED <<articles, checkpoints, facts, writes, crashes, latest, unsettled, overlaps>>

-----------------------------------------------------------------------------
(* wubu_wiki_auto_links *)

InRowidOrder(rows) ==
  CHOOSE a \in SetToSeqs(rows) : \A i, j \in DOMAIN a : i < j => a[i].id < a[j].id

\* mutant: the links are stored by rowid
LinkPair_Rowids(acc, to, from) ==
  IF /\ to # from
     /\ <<from.content, to.slug>> \in Mentions
     /\ <<from.id, to.id>> \notin acc.links
  THEN [links |-> acc.links \union {<<from.id, to.id>>, <<to.id, from.id>>}, new |-> acc.new + 1]
  ELSE acc

\* One turn of the two nested loops, article i = to, j = from: the article from
\* mentions to, and is not linked to it yet.
LinkPair(acc, to, from) ==
  IF /\ to # from
     /\ <<from.content, to.slug>> \in Mentions
     /\ <<from.slug, to.slug>> \notin acc.links
  THEN [links |-> acc.links \union {<<from.slug, to.slug>>, <<to.slug, from.slug>>},
        new |-> acc.new + 1]
  ELSE acc

\* mutant: the inner loop starts after i
LinkTo_HalfLoop(acc, to, a) ==
  LET linked[j \in 0..Len(a)] ==
        IF j = 0 THEN acc
        ELSE IF a[j].id > to.id THEN LinkPair(linked[j - 1], to, a[j])
        ELSE linked[j - 1]
  IN  linked[Len(a)]

\* the inner loop, over j
LinkTo(acc, to, a) ==
  LET linked[j \in 0..Len(a)] ==
        IF j = 0 THEN acc ELSE LinkPair(linked[j - 1], to, a[j])
  IN  linked[Len(a)]

\* the outer loop, over i
LinkAll(have, a) ==
  LET linked[i \in 0..Len(a)] ==
        IF i = 0 THEN [links |-> have, new |-> 0] ELSE LinkTo(linked[i - 1], a[i], a)
  IN  linked[Len(a)]

AutoLinked(rows, have) == LinkAll(have, InRowidOrder(rows))

\* The first WIKI_MAX_AUTO rows are read.
FirstRows(n) == {a \in articles : Cardinality({b \in articles : b.id < a.id}) < n}

ReadArticles(p) ==
  /\ pc[p] = "idle"
  /\ call' = [call EXCEPT ![p].rows = FirstRows(WIKI_MAX_AUTO)]
  /\ Goto(p, "link")
  /\ Begin(p)
  /\ UNCHANGED <<dbVars, writes, crashes, latest, unsettled>>

WriteLinks(p) ==
  /\ pc[p] = "link"
  /\ \/ links' = AutoLinked(call[p].rows, links).links
     \/ Busy(p) /\ UNCHANGED links
  /\ Return(p)
  /\ UNCHANGED <<articles, checkpoints, facts, writes, crashes, latest, unsettled, overlaps>>

-----------------------------------------------------------------------------
\* The process dies and is started again; what was committed stays.
Crash(p) ==
  /\ pc[p] # "idle"
  /\ crashes < MaxCrashes
  /\ crashes' = crashes + 1
  /\ Return(p)
  /\ UNCHANGED <<dbVars, writes, latest, unsettled, overlaps>>

Next ==
  \E p \in Procs :
    \/ \E u \in Upserts : Upsert(p, u)
    \/ CheckCheckpoint(p) \/ DeleteArticle(p) \/ InsertArticle(p)
    \/ SaveCheckpoint(p) \/ StoreFacts(p)
    \/ \E u \in Upserts : PutFact(p, u)
    \/ \E pair \in Slugs \X Slugs : Link(p, pair)
    \/ ClearLinks(p) \/ WriteFact(p) \/ WriteLink(p) \/ WriteClear(p)
    \/ ReadArticles(p) \/ WriteLinks(p)
    \/ Crash(p)

Spec == Init /\ [][Next]_vars

-----------------------------------------------------------------------------
(* Properties *)

ArticleRows == [id : Nat \ {0}, slug : Slugs, content : Contents]

Steps == WriteSteps \union {"idle", "check"}

\* The tables and the locals keep their shapes; a call has its arguments.
TypeOK ==
  /\ articles \subseteq ArticleRows
  /\ checkpoints \in [Slugs -> Hashes \union {NoHash}]
  /\ facts \in [Slugs -> Maybe]
  /\ links \subseteq Slugs \X Slugs
  /\ pc \in [Procs -> Steps]
  /\ call \in [Procs -> [given : {<<>>} \union {<<u>> : u \in Upserts},
                         pair : {<<>>} \union (Slugs \X Slugs),
                         rows : SUBSET ArticleRows]]
  /\ \A p \in Procs :
       /\ (call[p].given = <<>>) <=> pc[p] \in {"idle", "relate", "unlink", "link"}
       /\ (call[p].pair = <<>>) <=> pc[p] # "relate"
  /\ writes \in 0..MaxWrites
  /\ crashes \in 0..MaxCrashes
  /\ latest \in [Slugs -> Maybe]
  /\ unsettled \subseteq Slugs
  /\ overlapped \in BOOLEAN
  /\ disturbed \subseteq Procs

\* The articles table has no unique slug: only the DELETE before each INSERT
\* keeps one article per slug, whatever crashes cut an upsert short, as long
\* as no two processes' calls overlap.
OneArticlePerSlug ==
  ~overlapped => \A a, b \in articles : a.slug = b.slug => a = b

\* The store holds one article of slug s, with content c or one of its hash.
Holds(s, c) == \E a \in articles : Rows(s) = {a} /\ Alike(a.content, c)

\* A slug is settled once an upsert of it ran alone from its DELETE to its facts.
\* From then until the next DELETE the store holds what the slug was last given,
\* up to the hash, and its fact if it has one, whatever crashes, refused writes
\* and overlapping calls do to other slugs, to links and to facts meanwhile.
StoreIsLatest ==
  \A s \in Slugs \ unsettled :
    /\ latest[s] = NoContent => Rows(s) = {}
    /\ latest[s] # NoContent => Holds(s, latest[s])
    /\ \A a \in Rows(s) : a.content \in HasFact => facts[s] # NoContent

\* The step with which an upsert returns as "Unchanged" (wubu_wiki.c:234).
ReturnsUnchanged(p) == pc[p] = "check" /\ pc'[p] = "idle" /\ crashes' = crashes

\* On a settled slug an upsert that does nothing because the content is
\* unchanged finds its article, up to the hash, also while others write.
UnchangedIsStored ==
  [][\A p \in Procs :
       ReturnsUnchanged(p) /\ Arg(p).slug \notin unsettled =>
         Holds(Arg(p).slug, Arg(p).content)]_vars

\* Two overlapping upserts of a slug may both DELETE and then both INSERT, and
\* a DELETE refused with SQLITE_BUSY (its result is ignored) leaves the old row
\* beside the new one.  Whatever such calls and crashes have left behind, an
\* upsert that runs alone and gets past its check leaves its content as its
\* slug's only row, with its fact.  (One that returns at the check leaves things
\* as they are.)
LoneUpsertHeals ==
  [][\A p \in Procs \ disturbed :
       pc[p] = "facts" /\ pc'[p] = "idle" /\ crashes' = crashes =>
         /\ \E a \in articles : a.content = Arg(p).content /\ Rows(Arg(p).slug) = {a}
         /\ Arg(p).content \in HasFact => facts'[Arg(p).slug] # NoContent]_vars


\* The references that auto_links finds among some rows: <<from, to>>.
References(rows) ==
  {<<pair[2].slug, pair[1].slug>> : pair \in
    {ab \in rows \X rows : ab[1] # ab[2] /\ <<ab[2].content, ab[1].slug>> \in Mentions}}

\* What auto_links' nested loops compute, said without an order: every missing
\* reference is linked both ways and each pair of articles counts once.
AutoLinksMatchReference ==
  \A p \in Procs : pc[p] = "link" =>
    LET missing == References(call[p].rows) \ links
    IN  AutoLinked(call[p].rows, links) =
          [links |-> links \union missing \union {<<r[2], r[1]>> : r \in missing},
           new |-> Cardinality({{r[1], r[2]} : r \in missing})]
=============================================================================
