# WuBuMedia in TLA+

WuBuMedia is a stream cohost: a Python process that listens, thinks and speaks,
an overlay page that shows its face, C stores for its memory and its knowledge,
a C daemon that serves them, and small programs around these (desk loop,
watchdog, OBS control, schedulers, federation with other cohosts). This
directory models the parts whose correctness depends on the order of steps:
several processes on one SQLite file, crashes between statements, threads that
share a file name, clients that come and go. TLC checks small instances of every
module; TLAPS proves what matters most for every value of the constants.

    tlc -workers 2 -config rlm_calls.cfg MCWubuRlm       # one run
    tlapm WubuRlm_proofs.tla                             # one proof module

`PROJECT.json` lists the runs, for each property a mutation of the model that
breaks it, the source lines of each definition, the disagreements found, the
hazards and the theorems.

## The system

| component | state | operations | talks to |
|---|---|---|---|
| conversation memory, `wubu_rlm.c` (and `wubu_rlm.py`) | tables exchanges, summaries, facts, context, mood | open, add_exchange (with summary and trim), get_context, recall, close | buddy, cohost, agent (calls); other processes (the file) |
| knowledge base, `wubu_wiki.c` (and `wubu_wiki.py`) | articles (FTS5), checkpoints, facts, links | upsert, put_fact, link, clear_links, auto_links, searches | daemon, cohost, self-check, federation |
| command daemon, `wubu_daemon.c` | run flag, one client, the global mood | run, handle_command, stop | clients on a socket, the wiki |
| overlay state, `face/face_state.json` | one JSON file and one temporary name | push_face, set_speaking, obs_push, edits in place | gateway, speech process, desk loop, and the cohost's threads as written; read by overlay, watchdog, WebSocket server |
| cohost loop, `wubu_cohost.py` with ears, listen, voice, twitch | utterance queue, touch file, chat buffer | the loop, on_heard, on_chat, watch_touch | brain (HTTP), voice, face |
| desk loop, `wubudesk_loop.py` | perception files, touch file | perceive, think, quip, speak | brain, speech process, face |
| watchdog, `wubu_watch.py` | the child's pid, its pipe, the restart delay | poll, memory check, read, restart, SIGTERM | cohost process |
| schedulers, `wubu_self.c`, `wubu_sica.c` | run flag, cycle count, the git tree | cycle, stop | git, the test suite |
| buddy, cohost, agent (C) | personality, mood, counters | forward to memory, wiki, face | the two stores |
| federation, `wubu_merge.py` | peers, trust, one JSON file | hello, add_peer, sync, merge, bundles | gateways of other nodes, the Python wiki |
| recommendations, `wubu_recs.c` | contents with tags, events | register, log, candidates, rank, rerank | cohost, agent (calls) |
| servers, `wubu_gateway.*`, `wubu_wss.*`, `wubu_face.py` | clients | serve, broadcast | overlay |
| OBS control, `wubu_obs.py` | connection, request ids | call with retry | OBS |
| brain, persona, context, safety filter, vision, voice conversion, desktop tools, browser bridge, pages | none that outlives a call, or floating-point signal data | | |

What is hard here is never inside one function: nothing takes a transaction or
a lock where two statements, two threads or two processes meet. Each SQL
statement commits alone and its result is ignored; the overlay's file is read,
merged and written by five writers; a socket is served by one thread that also
waits for its client; stop flags are looked at between blocking calls. The
hazards in `PROJECT.json` name the lines.

What makes each part correct, in a sentence: the memory never loses a message it
accepted, stays under its budget and archives before it deletes; the knowledge
base has one article per slug and never claims to have stored what it has not;
the daemon answers each client its own request and lets every client go; the
overlay reads whole states and a push loses no other field; the watchdog replaces
a cohost when it is gone and takes it along when it goes; a scheduler told to stop
returns; no peer gets trust it has neither earned by syncs nor entered with, and
peers are not lost; what an OBS call returned for is so, and every call ends.

## The modules

| module | models |
|---|---|
| `RlmMemory` | what the memory promises: remember, archive, forget only what is archived |
| `WubuRlm` | `wubu_rlm.c`, add_exchange statement by statement |
| `WubuWiki` | `wubu_wiki.c`, upsert statement by statement, facts, links |
| `WubuDaemon` | `wubu_daemon.c`, the Unix run loop and its clients |
| `FaceState` | `face_state.json` and everybody who writes it |
| `WubuSica` | `wubu_sica.c` and `wubu_self.c`: the two schedulers, git, developers in the same tree |
| `WubuRecs` | `wubu_recs.c`: a recommendation, step by step, while events are logged |
| `WubuWatch` | `wubu_watch.py`, the watchdog's loop, and the cohosts it starts |
| `WubuMerge` | `wubu_merge.py` on several nodes, their peers, wikis and bundle files |
| `WubuObs` | `wubu_obs.py`, a call with its retries, over OBS and the network |
| `..._proofs` | the theorems about each of them; `WubuWikiRecs_proofs` holds those of `WubuWiki` and `WubuRecs`, which share an induction over loops |
| `MC...` | the instances TLC explores |

**WubuRlm.** Variables are the tables (`exchanges`, `summaries` with their row
ids), the clock in seconds and, for each process, the statement it is at (`pc`)
and its locals (`call`). One action per SQL statement: `InsertExchange`,
`CheckThreshold` (the SUM of tokens), `Collect` (the SELECT that feeds the
summary), `StoreSummary`, `ClearExchanges` (DELETE by context, not by the
collected ids), `RankSummaries`, `TrimSummaries`, `Return`. `Busy` is a
write refused because another process is writing: the code goes on as if it had
been done. `Crash` ends a process at any statement. A message is a number and a
token estimate.

The SELECT's loop writes ids into `malloc(1024)` and texts into `malloc(65536)`
and never looks at the room left. `Listed` and `Buffered` are what fits of a
batch: the stored list and the summarized text end at the first entry that does
not, and the DELETE takes all the rows all the same. (The loop also overruns the
heap then; a process that dies of it is a `Crash`.) `accepted`, `archived` and
`digested` are history: what was inserted, what a stored summary lists, what its
text really covers (the built-in summarizer's nested `strtok` stops after the
first message). `WubuRlm` implements `RlmMemory` through `INSTANCE ... WITH`: the
messages in the table are what is remembered, those listed in stored summaries
what is archived. `cut` says that some batch did not fit, `overlapped` that some
call began during another process's, `disturbed` whose last call did: SQLite
refuses a write during another's, and the code ignores that. The promises of the
memory end at an overlap or a cut; those of a call that runs alone come back
with it.

**WubuWiki.** `articles` have FTS5 row ids and may repeat a slug; checkpoints
have two unique columns (so `INSERT OR REPLACE` may remove another slug's row:
`Replaced`); facts and directed links are sets. `Upsert`, `CheckCheckpoint`,
`DeleteArticle`, `InsertArticle`, `SaveCheckpoint`, `StoreFacts` are the
statements of `wubu_wiki_upsert`; `Unchanged` is the test of its early return,
which compares hashes. `HashOf` is that hash, djb2: a function from contents to
hashes of which nothing is assumed, and in the runs two of three contents share
one. Every other writer has a beginning and a write of its own too: `PutFact` and
`WriteFact`, `Link` and `WriteLink`, `ClearLinks` and `WriteClear`,
`ReadArticles` and `WriteLinks` (`wubu_wiki_auto_links`). Each of these writes may
be refused because another process is writing (`Busy`), may make another's be
refused, and counts as an overlap. The nested loops of auto_links are recursive
functions over the rows in the order the query gave them (`InRowidOrder`;
`LinkTo` is the inner loop, `LinkAll` the outer, `LinkPair` the body); `FirstRows`
is the limit `WIKI_MAX_AUTO`. `overlapped` and `disturbed` are as in `WubuRlm`.
`latest` is what a slug was last given; `unsettled` are the slugs that some upsert
has deleted since one ran alone to its end.

**WubuDaemon.** `loop` is the place in `wubu_daemon_run`: the flag, `accept`,
one `read`, the dispatcher, two `write`s (answer and newline), `close`. Clients
connect (to a bounded backlog), send their line whole or in two parts, hang up;
`Stop` is another thread. `AcceptFails` is the error of `accept` that leaves the
loop. `BrokenPipe` is SIGPIPE, which nothing handles; `BadFree` is the end of the
process in `handle_wiki_fact`, which frees a `WikiFact` nobody initialised when
the fact asked for is not there. A request is what the dispatcher tells apart:
the other wiki commands only read and are one request.

**FaceState.** A name points to a file, a descriptor to the file it was opened
on: opening the temporary name truncates whatever it points to, `os.replace`
moves the name. `Load` (push_face, set_speaking) reads and merges, `OpenTmp`,
`Flush`, `Replace` publish; `PushInPlace` and `EditInPlace` are the writers that
truncate the live file (`OpenLive`). `Refused` is a failing `os.replace`, whose
exception is dropped; `Kill` ends all the threads of a process. A field's value
is the number of the push that set it. `disturbed` and the flag `alone` of a
call are history: they say when the code is on its own. The gateway, the speech process
and the desk loop are the writers of the runs; the cohost's threads are a fourth
in the source, but `Cohost()` cannot be constructed at this commit (see below).

**WubuSica.** `head` is what git last committed, `tree` the tracked files,
`extra` whether there are untracked ones. `Clean`, `Edit`, `UndoEdit` and `Sleep`
are the statements of `wubu_sica_run_cycle` and of its loop between which a shell
command runs. A command called with `out = NULL` has its pipe closed unread, so
that it dies of SIGPIPE if it writes later than that: `GitRollback` may reset the
tracked files and not clean the others, and the status of the rebuild is never 0
(`Edit`). So no cycle gets to Validate, Commit or the counting of cycles at this
commit, and these are not in the model. `Sleep` counts the seconds between cycles and looks at the flag
each second (`Awake`); `SelfCheck` and `Nap` are the second scheduler. `Develop`
is everybody else who edits, adds files and commits in that tree. The text of
reports is left out.

**WubuRecs.** `events` counts what each user logged on each content, `list` is
the array of candidates that `Retrieve`, `Rank` and `Rerank` pass on; other
users log (`LogEvent`) and contents are registered between these steps. Scores
are the weights of the header in tenths. `Kept` and `Filtered` are the loops that
fill the list and that cut it down. `Sorted` gives every order `qsort` may
leave; `Freshness` is a factor that depends on an address; entries that nobody
wrote are `Unwritten`.

**WubuWatch.** `pc` is the place in `monitor`; `proc`, `pid`, `crash_reason`,
`exit_code` and `restart_delay` are its locals. `Spawn` and `AssignPid` are apart
because the signal handler (`Stop`) may run between them. `ReadLine` blocks on an
empty pipe as long as the cohost or a process it started holds the other end
(`StartHelper`: the speech process). Cohosts print, fill the pipe, grow and exit
when they like. `abandoned` is history: the cohosts still alive when the next one
was started, which the break on the memory limit leaves behind.

**WubuMerge.** An invocation of the program is a process on its node: it loads
`merge_peers.json` (`mem`), adds a peer or fetches a peer's facts, scores them
one after the other, and writes the file back in two steps (`OpenFile`
truncates, `DumpPeers` writes). Nodes in `Foreign` run another implementation of
the protocol; only what they send is modelled. A signature is what was hashed
(the hash has no key), so that `add_peer` can compare it with the identity it is
given. `Offers` are the identities a node hands on: this program's are unsigned
or, by HELLO, signed before the time is added, so that they never fit; a foreign
one may fit. Claims travel over gateways (`Fetch`) and bundle files (`Export`,
`StartImport`), whose slug is the exporter's choice and which may be imported
late, again, or where they came from. The articles of a bundle are put into the
wiki with no score taken (`MergeArticle`). `Score` has the one rule that can fire:
values are searched for a rule's terms, keys are not, and the rule on "doxxing"
looks for a word its own text does not have. Trust and scores are in thousandths.
`Kill` ends a process anywhere; `disturbed` says that two processes met on a node
or one died while the file was truncated; `vouched` are peers once added with a
hash that fitted; `earned` and `others` count what a property needs of the past.

**WubuObs.** The client is in `_call` (`send`), in `_recv` (`recv`) or idle; every
action of `InCall` is a branch of `_call`, `_recv` or `_reconnect`. OBS serves
requests in the order they came, those of a connection that is closed too, or
drops these. `TimeOut` is the socket's, which keeps the connection;
`DeadlinePassed` is the deadline of `_recv`, which is looked at between two
messages only and leads to a new connection. `Crash` and `Die` break the
connection with requests and answers in flight; `ws` is then "dead" and stays so.
The hotkey toggles the mute, so that a repetition is visible.

## The runs

| run | instance | shows |
|---|---|---|
| `rlm_calls` | 3 processes, 2 sharing a context, 3 calls, messages that exceed the threshold, both summarizers, cap 1, lists of 2 ids, 2 clock values, crashes and refused writes | `NothingForgotten`, refinement of `RlmMemory`, `ReturnsWithinBudget`, `TrimRestoresCap`, `ClearsOnlyCollected`, `TrimLeavesCap` |
| `rlm_summary_segments` | 1 process | the summary does not cover its batch (**violation**) |
| `wiki_calls` | 2 processes, 2 slugs, 3 contents of which 2 share a hash, 3 writes of any kind, a crash | `OneArticlePerSlug`, `StoreIsLatest`, `UnchangedIsStored`, `LoneUpsertHeals`, `AutoLinksMatchReference` |
| `wiki_after_overlap` | 2 processes, 1 content | two rows are taken for the article and stay (**violation**) |
| `daemon_serves` | 2 clients, backlog 2, a stopping thread | `ReplyAnswersOwnRequest`, `ClientsReleased`, `StopWithClientEndsRun` |
| `face_pushes` | gateway, speech process, desk loop, 2 fields, 4 calls, kills | `UndisturbedIsReadable`, `LonePushMerges` |
| `face_half_written` | gateway, speech process | the overlay reads a truncated file (**violation**) |
| `sica_cycles` | 2 contents, 3 cycles, 2 seconds between them, 3 edits by developers, 2 starts | `StopEndsSchedulers` |
| `recs_pipeline` | 1 user, 3 contents of 2 kinds, limits 2 and 3, 2 events, 2 clock values | `AtMostOneUnrelated`, `RerankMatchesReference` |
| `watch_restarts` | 2 cohosts, a pipe of 2 lines, delays from 4 to 9 | `ReplacesOnlyTheDead`, `StopLeavesNone`, `CleanRunShortens`, `DeadIsReplaced` |
| `merge_sync` | 2 processes on one node, a foreign node, 2 values of which 1 forbidden, another stored at each node, 3 invocations, 1 put, 1 bundle or endpoint, kills | `TrustEarned`, `PeersSurvive`, `SyncAdopts` |
| `obs_calls` | 2 scenes, 2 calls, 2 repetitions each, 1 crash or broken connection | `ReturnedHolds`, `RepeatsAreExplained`, `CallEnds` |

Every passing run also checks its module's `TypeOK` (`RecsTypeOK` for `WubuRecs`). `rlm_calls`, `wiki_calls` and
`merge_sync` exchange processes that no definition names (symmetry); none of
their properties is a liveness property.

The bounds. In `rlm_calls` every message is above the threshold, so each of the
three calls summarizes: the second exceeds the cap of one summary, and the third
finds what a crash or an overlap of the first two left; three processes are two
that race and one that must not be touched. A batch that a crash or a refused
write lets grow to three is longer than its list and its buffer. Two slugs and three
contents give an upsert something to replace, something that is taken for it by
its hash, and auto_links a pair to link in both directions; three writes are a
crash or an overlap, a retry and a change. Two clients are one served and one
waiting. Four pushes are two that meet, the one that finds what they left and one
more. Three cycles are one before a stop, one during it and one after the second
start. Two cohosts are one that is replaced and its successor, delays from 4 to 9
reach the cap in two steps and are cut there. Three invocations are a peer added,
synced, and whatever meets or follows that; of two values one is forbidden, and
the nodes start with a different one each (`Before`), so that what is fetched
meets something else that is stored, and what the owner puts may be rejected by
the other. Two OBS calls are one that is given up and one that must not suffer from
it, two repetitions are one that fails like the first and one that does not.
Three candidates are the shortest list with a middle that rerank drops; events of
one user stand for everybody's, since scores sum over all.

Scaled down: `RLM_SUMMARY_THRESHOLD` (400 tokens) to 2, `RLM_MAX_SUMMARIES` and
the batch of the trim, `exchange_ids` and `buffer` to lists of 2 ids and 8 tokens,
the 256 articles of auto_links (`WIKI_MAX_AUTO`) to 2.
Ties within one second need no more than two clock values.

Fairness is assumed where a run checks liveness (`FairSpec`). For the daemon:
its thread is scheduled, and a client that connected sends its line or hangs up. Without the second, one
silent client blocks every other for ever, which is how the code is
(`read` has no timeout). Nobody has to connect, and nobody has to stop.
For the schedulers: each thread is scheduled, and the shell commands it waits for
end; nothing makes git or a test succeed, nor anybody stop. For the watchdog: its
thread is scheduled, `Popen` does not fail for ever and a helper ends with its
sentence; nothing makes a cohost print or exit. For OBS control: the caller's
thread is scheduled, and the socket's timeout is one of its steps; OBS need not
answer, run, or send the events that let a deadline pass.

Deadlock is checked where the model cannot stop by reaching a bound; the daemon
and the watchdog end by design, and the calls of the other runs are bounded.

## What is proved

Every theorem holds for any finite or infinite set of processes, contexts,
slugs, fields, clients, nodes or scenes and for any capacities and bounds, under
the named assumption of its module (types of the constants; for `WubuMerge` also
that the keys of facts are finitely many, for `WubuRecs` that users, contents and
their tags are, and for `WubuObs` that no scene is named like a command). Every
safety and every action property of every passing run is stated by a theorem.

- `TypeCorrect` in `WubuRlm_proofs`, `FaceState_proofs`, `WubuSica_proofs`,
  `WubuDaemon_proofs`, `WubuWatch_proofs`, `WubuMerge_proofs`, `WubuObs_proofs`,
  `WubuWikiRecs_proofs` (there also `RecsTypeCorrect`): types. In `WubuWatch` that includes that the delay stays between its limits, in
  `WubuMerge` that trust stays between "very low" and 1, in `WubuObs` that no id
  is used before it is given and no call tries more than `max_retries` + 1 times, in `WubuRecs`
  that no list is longer than was asked for and every score, a sum over all users'
  events, is a number.
- `WubuRlm_proofs!NothingForgottenUntilOverlap`: until calls overlap or a batch
  outgrows its list or buffer, whatever statement a process dies at, each accepted
  message is in the table or listed by a stored summary. The invariant adds what
  the process between the summary's INSERT and the DELETE knows: that what it is
  about to delete is archived.
- `WubuRlm_proofs!SerialCallsImplementMemory`: with the same invariant, and as
  long, every step is a step of `RlmMemory` or a stutter.
- `WubuRlm_proofs!AloneClearsOnlyCollected`: with any number of processes, one
  that is alone in its context deletes only what it collected
  (`CollectedCovers`).
- `WubuRlm_proofs!TrimsLeaveTheCap`: several processes may trim one context at
  once, each with the ranks it read before. `PendingTrims`: a row a process is
  about to delete has at least `RLM_MAX_SUMMARIES` rows of its context ahead of it.
  So no trim, however stale, takes one of the newest that many (`TrimKeepsNewest`),
  and those stay ahead of whatever another process is about to delete.
- `WubuRlm_proofs!LoneCallsReturnWithinBudget`: `Lone` says that a call that
  met nobody has its context empty past its DELETE; one that returns earlier found
  the SUM within the threshold and nobody added to it since.
- `WubuRlm_proofs!LoneTrimsRestoreTheCap`: what is ranked behind the cap is
  counted exactly (`NewestAtMost`, `NewestAtLeast`), and one batch takes all of a
  surplus no larger than itself (`BatchTakesAll`).
- `WubuWikiRecs_proofs!SerialOneArticle`: never two articles of a slug until calls
  of any kind, of put_fact, link, clear_links and auto_links too, overlap.
- `WubuWikiRecs_proofs!SettledStoreIsLatest`, `SettledUnchangedIsStored`: for any
  hash function. From the end of an upsert that ran alone until the next DELETE of
  its slug the slug has one article, which has the hash of what the slug was last
  given, and its fact, whatever crashes and overlaps meanwhile; an early return on
  it finds that. The invariant follows one upsert from its DELETE to its facts and
  says what the store holds at each statement.
- `WubuWikiRecs_proofs!LoneUpsertAlwaysHeals`: whatever was left before, an upsert
  that runs alone and passes its check leaves its content as the only row of its
  slug, and its fact: after its DELETE no row has the slug, after its INSERT one.
  That an upsert may return at its check although it should not is what
  `wiki_after_overlap` shows.
- `WubuWikiRecs_proofs!AutoLinksComputeReference`: any number of articles and any
  links already there. The rows are numbered apart (`Numbered`, part of the
  invariant `Shapes`), so there is one order to read them in (`RowidOrder`). Both
  loops keep one invariant, `LinkedFor`: of the pairs of rows they have passed,
  each missing reference is linked both ways and each two slugs counted once
  (`LinkToAdds`, `LinkAllLinks`). That is why the result does not depend on the
  order, although a link one pair adds may keep a later pair from adding its own.
- `WubuWikiRecs_proofs!OnlyOneUnrelated`: any number of candidates, any events
  logged between the steps. `Proposal`: at most one candidate is a stray
  (`KeptFits`), and later steps only reorder, drop, or replace by entries nobody
  wrote: each place of the result is a place of the list, no place twice
  (`RerankIs`), so none can double it.
- `WubuWikiRecs_proofs!RerankIsReference`: any length, any ties. Which candidates
  survive is a bijection of places (`PlacesAre`, `MiddleIs`); that two sorts of one
  list agree in the score at each place, whatever they do with ties, is a
  pigeonhole argument (`SameScores`).
- `WubuDaemon_proofs!EveryReplyAnswersItsRequest`: any clients. The invariant ties
  the line, the response and the client of the loop to each other at each of its
  places, so that nothing of the client before is left when the next is read.
- `FaceState_proofs!UndisturbedReadable`, `LonePushPublishes`: any writers and
  processes. That the published file is whole needs more than types: the
  temporary name never points to the live file (`Apart`, which needs a fresh
  number for each pending open), a call flagged alone is the only one open
  (`Alone`), and such a call's file is the temporary one, empty before its
  flush and its draft after (`LonePush`).
- `WubuWatch_proofs!OnlyTheDeadAreReplaced`, `StopTakesTheCohostDown`,
  `CleanRunsDoNotLengthen`: any number of restarts. The invariant says which
  cohosts may be alive at each place of the loop (the newest, and those left
  behind over the memory limit) and when `crash_reason` belongs to the run that
  just ended.
- `WubuMerge_proofs!TrustIsEarned`: `Ceiling`, the level a peer can have entered
  with (medium if it was ever vouched for by a hash that fitted, else low) and 50
  for each sync that earned something, bounds the trust in the file and, with the
  credit that is still to be written, in the copy of every process
  (`TrustBounded`), but for the copy that `MergePersona` aligned, which is never
  written. The hash has no key, so that "vouched" means that whoever made the
  packet knew how to compute it, and no more.
- `WubuMerge_proofs!PeersAreKept`: `Kept`, by node: the file is whole or the only
  process on the node is in its dump, and its copy covers what the file had.
- `WubuMerge_proofs!CleanSyncAdopts`: `Progress`, a loop invariant: what is to do
  is the rest of what was fetched, and everything before it is in the wiki or
  was rejected or overwritten.
- `WubuObs_proofs!WhatReturnedHolds`: order. Ids grow along the queue (`InOrder`)
  and what is answered came before what is not (`AnsweredFirst`), so when the
  answer to the newest id is there, nothing is left that could undo its effect,
  whatever was sent before and given up.
- `WubuObs_proofs!RepeatsExplained`: `Explained` weighs what OBS carried out for
  this call together with what still waits in its queue (`Load`): at most one more
  than the timeouts and lost connections, and no more than these when the client
  is about to send again or the newest attempt was refused.

On induction. The library's induction theorems take an operator as a parameter,
which the provers cannot instantiate. That every nonempty set of numbers has a
least one (`LeastNumber`) needs no such parameter, and gives induction over *sets*
of numbers (`Induction`): the loops above are recursive functions over the first
n entries, and the set is that of the n at which the loop's invariant holds.
`SelectSeq` and `SortSeq` say nothing to the provers, so that no model that is
proved about uses them.

Only model-checked: liveness under fairness, which is out of TLAPS's reach:
`ClientsReleased`, `StopWithClientEndsRun`, `StopEndsSchedulers`, `DeadIsReplaced`,
`CallEnds`. Of `WubuSica` the types alone are proved: its other property is one of
these.

## What the models found

Checked by a run, with the quoted sentences in `PROJECT.json`:

- `rlm_summary_segments`: only the first message of a batch reaches the summary.
- `wiki_after_overlap`: two upserts of one content at once leave two rows and a
  checkpoint, and every later upsert of that content returns as unchanged.
- `face_half_written`: two writers share one temporary name.

Seen while modelling, without a run of their own:

- A batch of the memory may outgrow `exchange_ids` (`wubu_rlm.c:382`): some 280 ids of a
  young database fit, and the threshold of 400 tokens lets 401 short messages gather.
  The list is cut, the heap overrun, and all the rows are deleted.
- A message that one process inserts between another's SELECT and its DELETE by
  context (`wubu_rlm.c:412`) is deleted and in no summary.
- An upsert also returns as unchanged, although its content is not what is stored,
  when the contents have one hash (djb2: "Ez" and "FY" in the same place), and
  after a crash between DELETE and INSERT, which leaves the checkpoint of an
  article that is gone.
- A write refused as busy is lost without notice: a message of the memory, the
  DELETE of an upsert, a fact, a link.
- `ORDER BY timestamp` in whole seconds: within one second the trim may drop the
  newest summary and get_context may return messages reversed.
- Two slugs with one content: the second upsert removes the first's checkpoint.
- A forward link added by hand keeps auto_links from adding the reverse one.
- `wubu_daemon.h` lets a caller free the daemon after stop, but
  `wubu_daemon_run` frees it itself. `CMD_WIKI_UPSERT` is declared and not
  dispatched. A response above 8192 bytes is cut.
- A crash between an upsert's checkpoint and its facts: the retry finds the
  checkpoint, returns as unchanged and never stores the facts.
- `handle_wiki_fact` (`wubu_daemon.c:483`) frees a `WikiFact` on its stack that
  nobody initialised when the fact is not found.
- `Cohost()` reads `wubu_rlm.Memory` and `wubu_rlm.Reflector`
  (`wubu_cohost.py:208-209`), which do not exist at this commit: it raises.
- `wubu_sica_run_isolated` with no output asked for closes the pipe at once: `git
  reset` may die of its own message, and `git clean` is not run although
  `wubu_sica.c:83` says "Discard all changes"; `tail -3` dies of the rebuild's last
  lines, and every cycle is given up as "Edit stage failed", whatever the rebuild
  did. Such a cycle is not counted, and
  `max_iterations` is never read; `auto_commit` and `auto_rollback` given as 0 are
  set to 1. Behind the edit, `sica_validate` does not look at whether the tests
  pass and the cycle reports success when `git commit` failed; neither is reached.
  `wubu_self_check` always returns 0: its fifth and sixth checks are never set.
- Rerank drops the middle candidate of an odd number of three or more and returns
  an entry nobody wrote in its place; its blended scores are overwritten and its
  order is undone by the last sort, so the diversity never shows. The contents
  left out of retrieval are those followed, not those skipped.
- `wubu_daemon_stop` clears a flag that the blocking `accept` does not look at:
  until somebody connects the run goes on, although `wubu_daemon.h:43` says "Shut
  down gracefully. Safe to call from another thread."
- Federation: no code sets an endpoint, and adding a peer again forgets the one
  somebody wrote into the file. `hello` signs before it adds the time, so
  `add_peer` rejects every HELLO of this program, and the identity in its bundles
  has no signature, so that its peer enters with the low trust however well the
  bundle was verified; a foreign packet with its own hash enters with the medium
  one. `merge_peer` says "COMMIT" (`wubu_merge.py:353`) but changes the trust after
  the save. A score is compared with 0 only: a claim that conflicts with the wiki
  always overwrites it, and trust changes nothing. The rule on "doxxing" looks for
  a word its own text does not have, keys are not searched, and the articles of a
  bundle get no score, although `wubu_merge.py:23` says "Every incoming claim is
  checked against the Devil's-Advocate system before being accepted". A torn file counts
  as no peers, and the next save makes that so.
- `wubu_watch.py:92` says "restart it on crash/OOM"; over the memory limit (`:138`)
  the watchdog starts a second cohost beside the first, which nobody ends. A
  cohost that prints nothing is never looked at again.
- OBS control: the docstring of `_call` promises backoff and a new connection "if
  the socket died" (`wubu_obs.py:119-120`), but the sleep at line 161 cannot be
  reached, and an exception of a dead socket is no `ObsError`: the socket stays,
  `connect()` says it is connected, and every call fails until `close()`. The
  errors "permanent" by the comment at line 143 are repeated like the others:
  `raise err` is caught two lines below. `_recv` takes no lock, so two threads
  would drop each other's answers, although line 51 says "Thread-safe". After a
  timeout a hotkey may be triggered twice, and `start_record` may raise because
  its first attempt did begin the recording.
- `wubu_rlm.c:654` says neuroticism slows the decay of a mood; the code makes it
  faster. `wubu_buddy.c:54` writes the neutral personality over the stored one at
  every open, under the comment "Load persisted personality/mood", and the mood is
  written back at close only: of two processes the last to close wins.
- `os.replace` fails on Windows while a reader has the file open: that push is
  dropped.

## Not modelled

For good: signal processing and GPU kernels, HTTP calls to language models,
regular expressions over text, drawing, device and desktop calls.

- `tmp_msvc/sqlite3.*` is a vendored copy of SQLite, 237,717 lines, more than
  nine tenths of the code in the repository. It is third-party code and appears in the models
  as the statements that are run on it, so the lines the models stand for are a
  small share of the whole and a large one of the program's own stateful parts.
- The Python cohost loop. At this commit it cannot start: `Cohost.__init__` builds
  `wubu_rlm.Memory` and `wubu_rlm.Reflector` (`wubu_cohost.py:208-209`), which
  `wubu_rlm.py` does not define. What it expects of its neighbours is not there
  either: `react_to_chat` is called with a keyword it does not have and returns a
  tuple (`:452`); the overlay posts touches to `/buddy` (`face/index.html:262`)
  while `wubu_face.py:150` handles `/buddy_interaction.json` only, without the `ts`
  that `wubudesk_loop.py:306` needs; `start_cohost.bat` passes an option that the
  desk loop does not know. A model of the loop would be of a program that does not
  run; `push_face` alone is in `FaceState`.
- The WebSocket server (`wubu_wss.py`) never pushes: `_clients -= dead` makes the
  name local to `broadcast`, so the loop above it raises, which `state_watcher`
  swallows; the watcher is scheduled before the event loop it should run in is
  made; and the accept key is the base64 of a hexadecimal digest, which a browser
  refuses. The HTTP gateways have the accept loop of the daemon and keep no state.
- The Python stores (`wubu_rlm.py`, `wubu_wiki.py`): the statements of the C stores
  under one lock and with one commit per call. The models follow the C versions,
  which have neither, and so all of their interleavings.
- Mood and personality (`wubu_rlm.c`, `wubu_buddy.c`, `wubu_cohost.c`,
  `wubu_agent.c`): single statements on tables of their own, and calls passed on.
  What is wrong with them is listed above and needs no interleaving.
- The Windows pipe loop of the daemon, the contents of answers, the journal, the
  stages of a SICA cycle that are not reached, the layouts of `wubu_stage.py`, and the OBS requests that
  differ from those modelled in their arguments only.

What could follow: the stages of SICA behind the edit, once a cycle reaches them;
the cohost loop, once it starts.
