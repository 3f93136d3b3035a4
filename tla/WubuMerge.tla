----------------------------- MODULE WubuMerge -----------------------------
(***************************************************************************)
(* wubu_merge.py: the federation of several AGIs.  Every invocation of the *)
(* program is a process of its own: it loads the file of known peers, adds *)
(* a peer (by hand, from a HELLO or from a bundle file), or fetches a      *)
(* peer's facts and puts those that pass the Devil's Advocate into its own *)
(* wiki, and writes the whole file of peers back.  Facts travel from wiki  *)
(* to wiki that way, by answers of the peer's gateway and by bundle files, *)
(* which may be imported late or repeatedly, also by who exported them.    *)
(*                                                                         *)
(* Some of the AGIs are other implementations of the protocol, of which    *)
(* only what they send is modelled.                                        *)
(*                                                                         *)
(* A slug is the node it names.  Trust and scores are in thousandths.  A   *)
(* hash is the packet it was made of.  An article is merged in one step:   *)
(* its statements are WubuWiki's.                                          *)
(***************************************************************************)
EXTENDS Integers, Sequences, SequencesExt, FiniteSets

CONSTANTS
  Nodes,            \* the AGIs
  Foreign,          \* those that are other implementations
  Strict,           \* those whose identity has the hard rules of this one
  Procs,            \* processes of this program that may run at a time
  Home,             \* the node a process runs on
  Keys,             \* keys of facts, slugs of articles
  Values,           \* values of facts, contents of articles
  Banned,           \* the values with one of the rule's terms in them
  Before,           \* the facts their owners have put into the wikis before
  Sources,          \* where the owner's facts and articles come from
  MaxCalls,         \* bound on invocations
  MaxPuts,          \* bound on facts and articles put by the owners
  MaxEdits          \* bound on bundles and edits of files

ASSUME MergeAssumption ==
  /\ Home \in [Procs -> Nodes \ Foreign]
  /\ Strict \subseteq Nodes /\ Nodes \ Foreign \subseteq Strict
  /\ Banned \subseteq Values
  /\ IsFiniteSet(Keys)
  /\ Before \in [Nodes -> [Keys -> {<<>>} \union {<<f>> : f \in [value : Values, source : Sources]}]]
  /\ "peer" \notin Sources /\ "bundle" \notin Sources
  /\ MaxCalls \in Nat /\ MaxPuts \in Nat /\ MaxEdits \in Nat

VARIABLES
  file,             \* merge_peers.json of every node: <<peers>>, <<>> when truncated
  wiki,             \* the facts of every node's wiki: <<fact>>, <<>> for none
  articles,         \* its articles, in the same form
  bundles,          \* bundle files
  proc,             \* the processes
  known,            \* history: peers added and saved
  reachable,        \* history: peers whose endpoint was set since they were added
  vouched,          \* history: peers once added with a signature that fitted
  earned,           \* history: syncs with accepted facts, per node and peer
  others,           \* history: keys of the node that others wrote since the fetch
  disturbed,        \* history: two processes met on the node, or one died writing
  calls, puts, edits    \* bounds

history == <<known, reachable, vouched, earned, disturbed>>
vars == <<file, wiki, articles, bundles, proc, history, others, calls, puts, edits>>

-----------------------------------------------------------------------------
(* Identities and peers *)

VeryLow == 200
Low == 400
Medium == 600
High == 800
Full == 1000

Identity(n) == [node |-> n, strict |-> n \in Strict, stamped |-> FALSE]

\* An identity as it is, without a signature or with one that fits it
Plain(n) == [identity |-> Identity(n), signature |-> <<>>]
Signed(n) == [identity |-> Identity(n), signature |-> <<Identity(n)>>]

\* hello: signed first, then stamped with the time, so the signature never fits.
Hello(n) == [identity |-> [Identity(n) EXCEPT !.stamped = TRUE], signature |-> <<Identity(n)>>]

\* --add-peer: an identity with the rules of this program, unsigned
ByHand(slug) ==
  [identity |-> [node |-> slug, strict |-> TRUE, stamped |-> FALSE], signature |-> <<>>]

\* What others hand on as their identity
Offers(n) == IF n \in Foreign THEN {Plain(n), Signed(n), Hello(n)} ELSE {Plain(n), Hello(n)}

\* mutant: whoever is added counts as signed
NewPeer_Signed(packet) ==
  [trust |-> Medium, endpoint |-> FALSE, strict |-> packet.identity.strict]

NewPeer(packet) ==
  [trust |-> IF packet.signature # <<>> THEN Medium ELSE Low, endpoint |-> FALSE,
   strict |-> packet.identity.strict]

NoPeers == [slug \in Nodes |-> <<>>]

WithTrust(peers, slug, new) == [peers EXCEPT ![slug] = <<[@[1] EXCEPT !.trust = new]>>]
WithEndpoint(peers, slug) == [peers EXCEPT ![slug] = <<[@[1] EXCEPT !.endpoint = TRUE]>>]

\* _load_peers: a file that is no JSON counts as none.
Loaded(n) == IF file[n] = <<>> THEN NoPeers ELSE file[n][1]

-----------------------------------------------------------------------------
(* The Devil's Advocate *)

Weight ==
  [boss |-> 1000, repo |-> 950, tool |-> 900, verified |-> 800, research |-> 600,
   unverified |-> 300]

Base(source) == IF source \in DOMAIN Weight THEN Weight[source] ELSE Medium

Least(a, b) == IF a < b THEN a ELSE b
Greatest(a, b) == IF a > b THEN a ELSE b

\* Of the hard rules one is looked at, in the value only: no rule has the word
\* "doxxing" in it, and the key of a fact is not searched.  A conflict halves the
\* score, which does not bring it to 0.
Score(n, claim, trust) ==
  LET stored == wiki[n][claim.key]
      weighed == (Base(claim.source) * trust) \div 1000
  IN IF claim.value \in Banned THEN 0
     ELSE IF stored = <<>> THEN weighed
     ELSE IF stored[1].value # claim.value THEN weighed \div 2
     ELSE Least(Full, weighed + 200)

\* GET /api/wiki/facts, and the facts and articles of a bundle
Listed(store) ==
  LET stored == {k \in Keys : store[k] # <<>>}
  IN [i \in 1..Cardinality(stored) |->
        LET k == SetToSeq(stored)[i]
        IN [key |-> k, value |-> store[k][1].value, source |-> store[k][1].source]]

-----------------------------------------------------------------------------
Idle ==
  [pc |-> "idle", op |-> "none", mem |-> NoPeers, slug |-> <<>>, packet |-> <<>>, todo |-> <<>>,
   facts |-> <<>>, articles |-> <<>>, accepted |-> 0, rejected |-> 0, left |-> {}]

Init ==
  /\ file = [n \in Nodes |-> <<NoPeers>>]
  /\ wiki = Before
  /\ articles = [n \in Nodes |-> [k \in Keys |-> <<>>]]
  /\ bundles = {}
  /\ proc = [p \in Procs |-> Idle]
  /\ known = [n \in Nodes |-> {}]
  /\ reachable = [n \in Nodes |-> {}]
  /\ vouched = [n \in Nodes |-> {}]
  /\ earned = [n \in Nodes |-> [slug \in Nodes |-> 0]]
  /\ disturbed = [n \in Nodes |-> FALSE]
  /\ others = [p \in Procs |-> {}]
  /\ calls = 0 /\ puts = 0 /\ edits = 0

Busy(n) == \E p \in Procs : Home[p] = n /\ proc[p].pc # "idle"

\* The program is started: the peers are loaded first.
Start(p, call) ==
  /\ proc[p].pc = "idle"
  /\ calls < MaxCalls /\ calls' = calls + 1
  /\ proc' = [proc EXCEPT ![p] = [call EXCEPT !.mem = Loaded(Home[p])]]
  /\ disturbed' = [disturbed EXCEPT ![Home[p]] = @ \/ Busy(Home[p])]
  /\ UNCHANGED <<file, wiki, articles, bundles, known, reachable, vouched, earned, others,
                 puts, edits>>

\* add_peer takes a peer typed by the operator or the packet of a HELLO.
StartAdd(p) ==
  \E slug \in Nodes :
    \E packet \in {ByHand(slug)} \union Offers(slug) :
      Start(p, [Idle EXCEPT !.pc = "add", !.op = "add", !.slug = <<slug>>,
                            !.packet = <<packet>>])

\* import_bundle: the signature of the identity, with what signature may be inside
\* it, is compared before anything is done.
StartImport(p) ==
  \E bundle \in bundles :
    /\ bundle.signature = <<bundle.packet>>
    /\ Start(p, [Idle EXCEPT !.pc = "add", !.op = "import", !.slug = <<bundle.slug>>,
                             !.packet = <<bundle.packet>>, !.todo = bundle.facts,
                             !.articles = bundle.articles])

StartSync(p) ==
  \E slug \in Nodes, op \in {"sync", "merge"} :
    Start(p, [Idle EXCEPT !.pc = "fetch", !.op = op, !.slug = <<slug>>])

\* --sync without a slug: all peers, one after the other
StartSyncAll(p) ==
  LET peers == {slug \in Nodes : Loaded(Home[p])[slug] # <<>>}
  IN Start(p, [Idle EXCEPT !.pc = "synced", !.op = "sync", !.left = peers])

Slug(p) == proc[p].slug[1]

Set(p, new) == proc' = [proc EXCEPT ![p] = new]

-----------------------------------------------------------------------------
(* add_peer *)

\* A signature that does not fit the identity: the peer is rejected, and an import
\* goes on without it.
RejectPeer(p) ==
  LET packet == proc[p].packet[1]
  IN /\ proc[p].pc = "add"
     /\ packet.signature # <<>> /\ packet.signature # <<packet.identity>>
     /\ Set(p, IF proc[p].op = "import" THEN [proc[p] EXCEPT !.pc = "facts"] ELSE Idle)
     /\ UNCHANGED <<file, wiki, articles, bundles, history, others, calls, puts, edits>>

AddPeer(p) ==
  LET packet == proc[p].packet[1]
  IN /\ proc[p].pc = "add"
     /\ packet.signature \in {<<>>, <<packet.identity>>}
     /\ Set(p, [proc[p] EXCEPT !.mem[Slug(p)] = <<NewPeer(packet)>>, !.pc = "open"])
     /\ vouched' = IF packet.signature # <<>>
                   THEN [vouched EXCEPT ![Home[p]] = @ \union {Slug(p)}] ELSE vouched
     /\ UNCHANGED <<file, wiki, articles, bundles, known, reachable, earned, disturbed, others,
                    calls, puts, edits>>

-----------------------------------------------------------------------------
(* _save_peers: open(PEERS_FILE, "w") truncates, the dump follows.         *)

OpenFile(p) ==
  /\ proc[p].pc = "open"
  /\ file' = [file EXCEPT ![Home[p]] = <<>>]
  /\ Set(p, [proc[p] EXCEPT !.pc = "dump"])
  /\ UNCHANGED <<wiki, articles, bundles, history, others, calls, puts, edits>>

\* What follows the save in each operation
AfterSave(p) ==
  CASE proc[p].op = "add" -> Idle
    [] proc[p].op = "import" -> [proc[p] EXCEPT !.pc = "facts"]
    [] proc[p].op = "sync" -> [proc[p] EXCEPT !.pc = "synced"]
    [] OTHER -> [proc[p] EXCEPT !.pc = "persona"]

\* mutant: only the peer at hand is written
DumpPeers_OnlyOne(p) ==
  LET n == Home[p]
      adds == proc[p].op \in {"add", "import"}
  IN /\ proc[p].pc = "dump"
     /\ file' = [file EXCEPT ![n] = <<[NoPeers EXCEPT ![Slug(p)] = proc[p].mem[Slug(p)]]>>]
     /\ Set(p, AfterSave(p))
     /\ known' = IF adds THEN [known EXCEPT ![n] = @ \union {Slug(p)}] ELSE known
     /\ reachable' = IF adds THEN [reachable EXCEPT ![n] = @ \ {Slug(p)}] ELSE reachable
     /\ UNCHANGED <<wiki, articles, bundles, vouched, earned, disturbed, others, calls, puts,
                    edits>>

DumpPeers(p) ==
  LET n == Home[p]
      adds == proc[p].op \in {"add", "import"}
  IN /\ proc[p].pc = "dump"
     /\ file' = [file EXCEPT ![n] = <<proc[p].mem>>]
     /\ Set(p, AfterSave(p))
     /\ known' = IF adds THEN [known EXCEPT ![n] = @ \union {Slug(p)}] ELSE known
     /\ reachable' = IF adds THEN [reachable EXCEPT ![n] = @ \ {Slug(p)}] ELSE reachable
     /\ UNCHANGED <<wiki, articles, bundles, vouched, earned, disturbed, others, calls, puts,
                    edits>>

-----------------------------------------------------------------------------
(* sync_with_peer *)

UnknownPeer(p) ==
  /\ proc[p].pc = "fetch"
  /\ proc[p].mem[Slug(p)] = <<>>
  /\ Set(p, Idle)
  /\ UNCHANGED <<file, wiki, articles, bundles, history, others, calls, puts, edits>>

\* The peer's gateway answers with all its facts.
Fetch(p) ==
  /\ proc[p].pc = "fetch"
  /\ proc[p].mem[Slug(p)] # <<>> /\ proc[p].mem[Slug(p)][1].endpoint
  /\ Set(p, [proc[p] EXCEPT !.todo = Listed(wiki[Slug(p)]), !.facts = Listed(wiki[Slug(p)]),
                            !.accepted = 0,
                            !.rejected = 0, !.pc = "facts"])
  /\ others' = [others EXCEPT ![p] = {}]
  /\ UNCHANGED <<file, wiki, articles, bundles, history, calls, puts, edits>>

\* The peer does not answer, or nobody ever gave its endpoint.
FetchNothing(p) ==
  /\ proc[p].pc = "fetch"
  /\ proc[p].mem[Slug(p)] # <<>>
  /\ Set(p, [proc[p] EXCEPT !.facts = <<>>, !.accepted = 0, !.rejected = 0, !.pc = "facts"])
  /\ others' = [others EXCEPT ![p] = {}]
  /\ UNCHANGED <<file, wiki, articles, bundles, history, calls, puts, edits>>

\* The trust claims are weighed with
Credit(p) == IF proc[p].op = "import" THEN High ELSE proc[p].mem[Slug(p)][1].trust

Label(p) == IF proc[p].op = "import" THEN "bundle" ELSE "peer"

\* Whoever else on the node is putting facts in is noted the key written.
Written(writers, n, key) ==
  others' = [q \in Procs |-> IF q \notin writers /\ Home[q] = n /\ proc[q].pc = "facts"
                             THEN others[q] \union {key} ELSE others[q]]

\* mutant: what is known is not overwritten
TakeFact_OnlyNew(p) ==
  LET claim == Head(proc[p].todo)
      n == Home[p]
  IN /\ proc[p].pc = "facts" /\ proc[p].todo # <<>>
     /\ Score(n, claim, Credit(p)) > 0
     /\ wiki' = [wiki EXCEPT ![n][claim.key] =
                   IF @ = <<>> THEN <<[value |-> claim.value, source |-> Label(p)]>> ELSE @]
     /\ Set(p, [proc[p] EXCEPT !.todo = Tail(@), !.accepted = @ + 1])
     /\ Written({p}, n, claim.key)
     /\ UNCHANGED <<file, articles, bundles, history, calls, puts, edits>>

\* INSERT OR REPLACE: whatever is known of the key.  The score was read over
\* another connection, but only the value and the trust decide whether it is 0,
\* so what others write in between does not matter.
TakeFact(p) ==
  LET claim == Head(proc[p].todo)
      n == Home[p]
  IN /\ proc[p].pc = "facts" /\ proc[p].todo # <<>>
     /\ Score(n, claim, Credit(p)) > 0
     /\ wiki' = [wiki EXCEPT ![n][claim.key] = <<[value |-> claim.value, source |-> Label(p)]>>]
     /\ Set(p, [proc[p] EXCEPT !.todo = Tail(@), !.accepted = @ + 1])
     /\ Written({p}, n, claim.key)
     /\ UNCHANGED <<file, articles, bundles, history, calls, puts, edits>>

\* The score is 0, or the database refuses (_insert_fact returns False).
RejectFact(p) ==
  /\ proc[p].pc = "facts" /\ proc[p].todo # <<>>
  /\ Set(p, [proc[p] EXCEPT !.todo = Tail(@), !.rejected = @ + 1])
  /\ UNCHANGED <<file, wiki, articles, bundles, history, others, calls, puts, edits>>

Adjusted(trust, accepted, rejected) ==
  IF accepted > 0 THEN Least(Full, trust + (50 * accepted) \div (accepted + rejected))
  ELSE IF rejected > 0 THEN Greatest(VeryLow, trust - 100)
  ELSE trust

FactsDone(p) ==
  LET n == Home[p]
      new == Adjusted(proc[p].mem[Slug(p)][1].trust, proc[p].accepted, proc[p].rejected)
  IN /\ proc[p].pc = "facts" /\ proc[p].todo = <<>>
     /\ IF proc[p].op = "import"
        THEN Set(p, [proc[p] EXCEPT !.pc = "articles"]) /\ UNCHANGED earned
        ELSE /\ Set(p, [proc[p] EXCEPT !.mem = WithTrust(@, Slug(p), new), !.facts = <<>>,
                                      !.pc = "open"])
             /\ earned' = IF proc[p].accepted > 0 THEN [earned EXCEPT ![n][Slug(p)] = @ + 1]
                                                  ELSE earned
     /\ others' = [others EXCEPT ![p] = {}]
     /\ UNCHANGED <<file, wiki, articles, bundles, known, reachable, vouched, disturbed, calls,
                    puts, edits>>

\* upsert leaves an article that is the same, unless another slug with the same
\* content has taken its checkpoint.
Upserts(n, key, value, source) ==
  LET new == [articles EXCEPT ![n][key] = <<[value |-> value, source |-> source]>>]
      same == {k \in Keys : articles[n][k] # <<>> /\ articles[n][k][1].value = value}
  IN IF key \notin same THEN {new} ELSE IF same = {key} THEN {articles} ELSE {articles, new}

\* The articles of a bundle: no score is taken.
MergeArticle(p) ==
  LET claim == Head(proc[p].articles)
  IN /\ proc[p].pc = "articles" /\ proc[p].articles # <<>>
     /\ articles' \in Upserts(Home[p], claim.key, claim.value, "bundle")
     /\ Set(p, [proc[p] EXCEPT !.articles = Tail(@)])
     /\ UNCHANGED <<file, wiki, bundles, history, others, calls, puts, edits>>

ImportEnds(p) ==
  /\ proc[p].pc = "articles" /\ proc[p].articles = <<>>
  /\ Set(p, Idle)
  /\ UNCHANGED <<file, wiki, articles, bundles, history, others, calls, puts, edits>>

\* The next peer, with the peers in memory
SyncNext(p) ==
  /\ proc[p].pc = "synced"
  /\ \E slug \in proc[p].left :
       Set(p, [proc[p] EXCEPT !.slug = <<slug>>, !.left = @ \ {slug}, !.pc = "fetch"])
  /\ UNCHANGED <<file, wiki, articles, bundles, history, others, calls, puts, edits>>

SyncEnds(p) ==
  /\ proc[p].pc = "synced" /\ proc[p].left = {}
  /\ Set(p, Idle)
  /\ UNCHANGED <<file, wiki, articles, bundles, history, others, calls, puts, edits>>

-----------------------------------------------------------------------------
(* merge_peer, after its sync: _merge_persona changes the trust in memory. *)

\* mutant: the floor is forgotten
Aligned_NoFloor(peer) == IF ~peer.strict THEN peer.trust - 200 ELSE Least(Full, peer.trust + 100)

Aligned(peer) ==
  IF ~peer.strict THEN Greatest(VeryLow, peer.trust - 200) ELSE Least(Full, peer.trust + 100)

MergePersona(p) ==
  /\ proc[p].pc = "persona"
  /\ Set(p, [proc[p] EXCEPT !.mem = WithTrust(@, Slug(p), Aligned(@[Slug(p)][1])),
                            !.pc = "merged"])
  /\ UNCHANGED <<file, wiki, articles, bundles, history, others, calls, puts, edits>>

\* The commit goes to the journal, and the process ends.
Commit(p) ==
  /\ proc[p].pc = "merged"
  /\ Set(p, Idle)
  /\ UNCHANGED <<file, wiki, articles, bundles, history, others, calls, puts, edits>>

-----------------------------------------------------------------------------
(* What others do *)

\* The process is killed.
Kill(p) ==
  /\ proc[p].pc # "idle"
  /\ Set(p, Idle)
  /\ disturbed' = [disturbed EXCEPT ![Home[p]] = @ \/ proc[p].pc = "dump"]
  /\ others' = [others EXCEPT ![p] = {}]
  /\ UNCHANGED <<file, wiki, articles, bundles, known, reachable, vouched, earned, calls, puts,
                 edits>>

\* The owner's program puts a fact or an article into the wiki.
Put(n) ==
  /\ puts < MaxPuts /\ puts' = puts + 1
  /\ \E key \in Keys, value \in Values, source \in Sources :
       /\ wiki' = [wiki EXCEPT ![n][key] = <<[value |-> value, source |-> source]>>]
       /\ Written({}, n, key)
  /\ UNCHANGED <<file, articles, bundles, proc, history, calls, edits>>

PutArticle(n) ==
  /\ puts < MaxPuts /\ puts' = puts + 1
  /\ \E key \in Keys, value \in Values, source \in Sources :
       articles' \in Upserts(n, key, value, source)
  /\ UNCHANGED <<file, wiki, bundles, proc, history, others, calls, edits>>

\* add_peer knows no endpoint: somebody writes it into the file.
SetEndpoint(n) ==
  /\ ~Busy(n) /\ file[n] # <<>>
  /\ edits < MaxEdits /\ edits' = edits + 1
  /\ \E slug \in Nodes :
       /\ file[n][1][slug] # <<>>
       /\ file' = [file EXCEPT ![n] = <<WithEndpoint(@[1], slug)>>]
       /\ reachable' = [reachable EXCEPT ![n] = @ \union {slug}]
  /\ UNCHANGED <<wiki, articles, bundles, proc, known, vouched, earned, disturbed, others,
                 calls, puts>>

\* export_bundle.  This program signs a plain identity; the slug is the caller's.
\* Another implementation may sign what it likes, or nothing.
Export(n) ==
  /\ edits < MaxEdits /\ edits' = edits + 1
  /\ \E slug \in Nodes, packet \in Offers(n) :
     \E signature \in {<<packet>>} \union (IF n \in Foreign THEN {<<>>} ELSE {}) :
       /\ n \notin Foreign => packet = Plain(n)
       /\ bundles' = bundles \union
            {[slug |-> slug, packet |-> packet, signature |-> signature,
              facts |-> Listed(wiki[n]), articles |-> Listed(articles[n])]}
  /\ UNCHANGED <<file, wiki, articles, proc, history, others, calls, puts>>

-----------------------------------------------------------------------------
Step(p) ==
  \/ StartAdd(p) \/ StartImport(p) \/ StartSync(p) \/ StartSyncAll(p)
  \/ RejectPeer(p) \/ AddPeer(p) \/ OpenFile(p) \/ DumpPeers(p)
  \/ UnknownPeer(p) \/ Fetch(p) \/ FetchNothing(p)
  \/ TakeFact(p) \/ RejectFact(p) \/ FactsDone(p) \/ SyncNext(p) \/ SyncEnds(p)
  \/ MergeArticle(p) \/ ImportEnds(p)
  \/ MergePersona(p) \/ Commit(p)
  \/ Kill(p)

Next ==
  \/ \E p \in Procs : Step(p)
  \/ \E n \in Nodes : Put(n) \/ PutArticle(n) \/ SetEndpoint(n) \/ Export(n)

Spec == Init /\ [][Next]_vars

-----------------------------------------------------------------------------
(* Properties *)

Stored == [value : Values, source : Sources \union {"peer", "bundle"}]
Claims == [key : Keys, value : Values, source : Sources \union {"peer", "bundle"}]
Peers == [trust : VeryLow..Full, endpoint : BOOLEAN, strict : BOOLEAN]
PeerFiles == [Nodes -> Seq(Peers)]

\* The files, wikis and processes keep their shapes, and the trust of a peer,
\* in a file or in memory, is never below "very low" or above 1.
TypeOK ==
  /\ \A n \in Nodes : file[n] = <<>> \/ file[n][1] \in PeerFiles
  /\ \A n \in Nodes, k \in Keys :
       /\ wiki[n][k] = <<>> \/ wiki[n][k][1] \in Stored
       /\ articles[n][k] = <<>> \/ articles[n][k][1] \in Stored
  /\ \A p \in Procs :
       /\ proc[p].mem \in PeerFiles
       /\ proc[p].todo \in Seq(Claims) /\ proc[p].facts \in Seq(Claims)
       /\ proc[p].articles \in Seq(Claims)
  /\ known \in [Nodes -> SUBSET Nodes] /\ reachable \in [Nodes -> SUBSET Nodes]
  /\ vouched \in [Nodes -> SUBSET Nodes]
  /\ disturbed \in [Nodes -> BOOLEAN]

\* Trust above the level a peer enters with, which is higher when its packet was
\* signed, is earned by syncs with accepted facts, 0.05 each at most, whatever is
\* added again, merged, imported, or written back from an older copy.
TrustEarned ==
  \A n \in Nodes, slug \in Nodes :
    file[n] # <<>> /\ file[n][1][slug] # <<>>
      => file[n][1][slug][1].trust <=
           (IF slug \in vouched[n] THEN Medium ELSE Low) + 50 * earned[n][slug]

\* As long as no two processes met on a node and none died while it wrote the
\* file, every peer ever added is in the file, with the endpoint somebody gave
\* it since; and the file is whole unless it is being written.
PeersSurvive ==
  \A n \in Nodes :
    ~disturbed[n] =>
      IF file[n] = <<>> THEN \E p \in Procs : Home[p] = n /\ proc[p].pc = "dump"
      ELSE \A slug \in known[n] :
             /\ file[n][1][slug] # <<>>
             /\ slug \in reachable[n] => file[n][1][slug][1].endpoint

\* A sync that had nothing rejected leaves the node with every fact the peer's
\* gateway answered with, also where the node knew better, except for keys
\* that somebody else on the node wrote since.
SyncAdopts ==
  \A p \in Procs :
    /\ proc[p].pc = "facts" /\ proc[p].op # "import"
    /\ proc[p].todo = <<>> /\ proc[p].rejected = 0
    => \A i \in DOMAIN proc[p].facts :
         LET claim == proc[p].facts[i]
         IN \/ claim.key \in others[p]
            \/ wiki[Home[p]][claim.key] = <<[value |-> claim.value, source |-> "peer"]>>
=============================================================================
