------------------------------ MODULE WubuRlm ------------------------------
(***************************************************************************)
(* wubu_rlm.c: the two-tier conversation memory.  Every SQL statement of   *)
(* wubu_rlm_add_exchange commits on its own (there is no BEGIN), so each   *)
(* is one action: a process may crash between any two of them, and other   *)
(* processes that opened the same database file interleave with them.      *)
(* sqlite3_step's result is ignored and no busy timeout is set, so a write *)
(* that meets another process's write is silently not done.                *)
(*                                                                         *)
(* A message's text is abstracted to its number and token estimate.  Left  *)
(* out: the context table (written, never read), the facts and the mood.   *)
(***************************************************************************)
EXTENDS Integers, FiniteSets, FiniteSetsExt

CONSTANTS
  Procs,                  \* processes that open the database file
  Contexts,               \* context slugs
  CtxOf,                  \* the slug each process opens with
  TokenSizes,             \* values of rlm_estimate_tokens
  Summarizers,            \* summary_fn given by the caller or not
  RLM_SUMMARY_THRESHOLD,
  RLM_MAX_SUMMARIES,
  TrimBatch,              \* int ids[100] of the trim
  ListSize,               \* ids that fit exchange_ids, malloc(1024)
  BufferSize,             \* tokens whose text fits buffer, malloc(65536)
  MaxCalls,               \* bound on add_exchange calls
  MaxClock                \* bound on the wall clock, in seconds

ASSUME RlmAssumption ==
  /\ CtxOf \in [Procs -> Contexts]
  /\ TokenSizes \subseteq Nat \ {0}
  /\ Summarizers \subseteq {"auto", "callback"}
  /\ RLM_SUMMARY_THRESHOLD \in Nat
  /\ RLM_MAX_SUMMARIES \in Nat
  /\ TrimBatch \in Nat \ {0}
  /\ ListSize \in Nat \ {0}
  /\ BufferSize \in Nat
  /\ MaxCalls \in Nat
  /\ MaxClock \in Nat

VARIABLES
  now,                    \* time(NULL): whole seconds
  calls,                  \* add_exchange calls past their INSERT
  exchanges,              \* table exchanges
  summaries,              \* table summaries
  nextSummary,            \* AUTOINCREMENT of summaries
  pc,                     \* the next statement of each process
  call,                   \* the locals of each process's add_exchange
  accepted,               \* history: messages past their INSERT
  archived,               \* history: messages listed by a stored summary
  digested,               \* history: messages whose text is in a summary
  cut,                    \* history: some batch did not fit its list or its buffer
  overlapped,             \* history: some call began during another process's call
  disturbed               \* history: processes whose last call overlapped another

dbVars == <<exchanges, summaries, nextSummary>>
history == <<accepted, archived, digested, cut>>
overlaps == <<overlapped, disturbed>>
vars == <<now, calls, dbVars, pc, call, history, overlaps>>

NoCall == [tokens |-> 0, at |-> 0, rows |-> {}, victims |-> {}]

Ids(S) == {r.id : r \in S}

-----------------------------------------------------------------------------
(* Queries. Every ORDER BY timestamp of the module breaks ties by rowid,   *)
(* ascending, whichever way it sorts the timestamp: SQLite scans the       *)
(* context index in rowid order and its sort is stable.                    *)

\* mutant: the WHERE context_slug=? is dropped
RowsOf_AnyContext(table, c) == table

RowsOf(table, c) == {r \in table : r.ctx = c}

NewestFirst(a, b) ==
  \/ a.timestamp > b.timestamp
  \/ a.timestamp = b.timestamp /\ a.id < b.id

OldestFirst(a, b) ==
  \/ a.timestamp < b.timestamp
  \/ a.timestamp = b.timestamp /\ a.id < b.id

\* the first n rows under ORDER BY timestamp DESC LIMIT n
Newest(S, n) == {r \in S : Cardinality({s \in S : NewestFirst(s, r)}) < n}

TokensIn(S) == MapThenSumSet(LAMBDA e : e.tokens, S)

TotalTokens(c) == TokensIn(RowsOf(exchanges, c))

OverBudget(c) == TotalTokens(c) > RLM_SUMMARY_THRESHOLD

\* rlm_auto_summarize splits the buffer into lines with strtok and, inside
\* that loop, the words of a line with strtok: the inner calls overwrite the
\* outer position, so only the first line's segment reaches the summary.
AutoSummarize(S) == {e \in S : \A f \in S : ~OldestFirst(f, e)}

Summarize(how, S) == IF how = "auto" THEN AutoSummarize(S) ELSE S

\* The loop of the SELECT appends each row's id to exchange_ids and its text to
\* buffer with snprintf, and adds what snprintf would have written without
\* looking at the room left: the first id (text) that does not fit is cut, and
\* the later ones are written behind the allocation.  If the process survives
\* that (Crash covers the case that it does not), the string ends at the cut.
Before(S, r) == {s \in S : OldestFirst(s, r)}

Listed(S) == {r \in S : Cardinality(Before(S, r)) < ListSize}

Buffered(S) == {r \in S : TokensIn(Before(S, r) \union {r}) <= BufferSize}

Fits(S) == Listed(S) = S /\ Buffered(S) = S

-----------------------------------------------------------------------------
(* Another process is executing a write statement at this moment.          *)
WriteSteps == {"insert", "store", "clear", "trim"}

Busy(p) == \E q \in Procs \ {p} : pc[q] \in WriteSteps

Goto(p, step) == pc' = [pc EXCEPT ![p] = step]

Return(p) == Goto(p, "idle") /\ call' = [call EXCEPT ![p] = NoCall]

Init ==
  /\ now = 0
  /\ calls = 0
  /\ exchanges = {}
  /\ summaries = {}
  /\ nextSummary = 1
  /\ pc = [p \in Procs |-> "idle"]
  /\ call = [p \in Procs |-> NoCall]
  /\ accepted = {}
  /\ archived = {}
  /\ digested = {}
  /\ cut = FALSE
  /\ overlapped = FALSE
  /\ disturbed = {}

\* A call begins: the calls in progress and this one overlap.
Begin(p) ==
  LET active == {q \in Procs \ {p} : pc[q] # "idle"}
  IN  /\ overlapped' = (overlapped \/ active # {})
      /\ disturbed' = IF active = {} THEN {} ELSE disturbed \union active \union {p}

\* The call reads the clock and estimates the tokens.
Call(p, tokens) ==
  /\ pc[p] = "idle"
  /\ calls < MaxCalls
  /\ call' = [call EXCEPT ![p] = [NoCall EXCEPT !.tokens = tokens, !.at = now]]
  /\ Goto(p, "insert")
  /\ Begin(p)
  /\ UNCHANGED <<now, calls, dbVars, history>>

\* mutant: rlm_estimate_tokens without its + 1
ExchangeOf_NoPlusOne(p) == [id |-> calls + 1, ctx |-> CtxOf[p],
                            tokens |-> call[p].tokens - 1, timestamp |-> call[p].at]

\* A message's number grows with its rowid.
ExchangeOf(p) == [id |-> calls + 1, ctx |-> CtxOf[p],
                  tokens |-> call[p].tokens, timestamp |-> call[p].at]

InsertExchange(p) ==
  /\ pc[p] = "insert"
  /\ calls < MaxCalls
  /\ calls' = calls + 1
  /\ \/ exchanges' = exchanges \union {ExchangeOf(p)}
     \/ Busy(p) /\ UNCHANGED exchanges
  /\ accepted' = accepted \union {calls + 1}
  /\ Goto(p, "sum")
  /\ UNCHANGED <<now, summaries, nextSummary, call, archived, digested, cut, overlaps>>

CheckThreshold(p) ==
  /\ pc[p] = "sum"
  /\ IF OverBudget(CtxOf[p])
     THEN Goto(p, "collect") /\ UNCHANGED call
     ELSE Return(p)
  /\ UNCHANGED <<now, calls, dbVars, history, overlaps>>

\* The call collects rows; the list and the buffer may be too small for them.
CollectRows(p, rows) ==
  /\ pc[p] = "collect"
  /\ call' = [call EXCEPT ![p].rows = rows]
  /\ cut' = (cut \/ ~Fits(rows))
  /\ Goto(p, "store")
  /\ UNCHANGED <<now, calls, dbVars, accepted, archived, digested, overlaps>>

\* mutant: the cursor is stepped once before the loop, so the first row is skipped
Collect_SkipsFirst(p) ==
  LET mine == RowsOf(exchanges, CtxOf[p])
  IN  CollectRows(p, mine \ AutoSummarize(mine))

Collect(p) == CollectRows(p, RowsOf(exchanges, CtxOf[p]))

\* mutant: the INSERT of the summary is forgotten
StoreSummary_NotStored(p) ==
  /\ pc[p] = "store"
  /\ Goto(p, "clear")
  /\ UNCHANGED <<now, calls, dbVars, call, history, overlaps>>

StoreSummary(p) ==
  /\ pc[p] = "store"
  /\ \/ \E how \in Summarizers :
          /\ summaries' = summaries \union
               {[id |-> nextSummary, ctx |-> CtxOf[p], timestamp |-> call[p].at]}
          /\ nextSummary' = nextSummary + 1
          /\ archived' = archived \union Ids(Listed(call[p].rows))
          /\ digested' = digested \union Ids(Summarize(how, Buffered(call[p].rows)))
     \/ Busy(p) /\ UNCHANGED <<summaries, nextSummary, archived, digested>>
  /\ Goto(p, "clear")
  /\ UNCHANGED <<now, calls, exchanges, call, accepted, cut, overlaps>>

\* mutant: the rows are summarized and never cleared
ClearExchanges_Skipped(p) ==
  /\ pc[p] = "clear"
  /\ Goto(p, "rank")
  /\ UNCHANGED <<now, calls, dbVars, call, history, overlaps>>

ClearExchanges(p) ==
  /\ pc[p] = "clear"
  /\ \/ exchanges' = exchanges \ RowsOf(exchanges, CtxOf[p])
     \/ Busy(p) /\ UNCHANGED exchanges
  /\ Goto(p, "rank")
  /\ UNCHANGED <<now, calls, summaries, nextSummary, call, history, overlaps>>

\* SELECT ... ORDER BY timestamp DESC LIMIT -1 OFFSET RLM_MAX_SUMMARIES
\* mutants: the OFFSET is off by one, either way
Surplus_TooFew(c) ==
  LET mine == RowsOf(summaries, c)
  IN  mine \ Newest(mine, RLM_MAX_SUMMARIES + 1)

Surplus_TooMany(c) ==
  LET mine == RowsOf(summaries, c)
  IN  mine \ Newest(mine, RLM_MAX_SUMMARIES - 1)

Surplus(c) ==
  LET mine == RowsOf(summaries, c)
  IN  mine \ Newest(mine, RLM_MAX_SUMMARIES)

RankSummaries(p) ==
  /\ pc[p] = "rank"
  /\ LET victims == Newest(Surplus(CtxOf[p]), TrimBatch)
     IN  IF victims = {}
         THEN Return(p)
         ELSE /\ call' = [call EXCEPT ![p].victims = Ids(victims)]
              /\ Goto(p, "trim")
  /\ UNCHANGED <<now, calls, dbVars, history, overlaps>>

TrimSummaries(p) ==
  /\ pc[p] = "trim"
  /\ \/ summaries' = {s \in summaries : s.id \notin call[p].victims}
     \/ Busy(p) /\ UNCHANGED summaries
  /\ Return(p)
  /\ UNCHANGED <<now, calls, exchanges, nextSummary, history, overlaps>>

\* The process dies and is started again; what was committed stays.
Crash(p) ==
  /\ pc[p] # "idle"
  /\ Return(p)
  /\ UNCHANGED <<now, calls, dbVars, history, overlaps>>

Tick ==
  /\ now < MaxClock
  /\ now' = now + 1
  /\ UNCHANGED <<calls, dbVars, pc, call, history, overlaps>>

Step(p) ==
  \/ \E t \in TokenSizes : Call(p, t)
  \/ InsertExchange(p) \/ CheckThreshold(p) \/ Collect(p)
  \/ StoreSummary(p) \/ ClearExchanges(p)
  \/ RankSummaries(p) \/ TrimSummaries(p)
  \/ Crash(p)

Next == Tick \/ \E p \in Procs : Step(p)

Spec == Init /\ [][Next]_vars

-----------------------------------------------------------------------------
(* Properties *)

ExchangeRows ==
  [id : 1..MaxCalls, ctx : Contexts, tokens : TokenSizes, timestamp : 0..MaxClock]

SummaryRows == [id : Nat, ctx : Contexts, timestamp : 0..MaxClock]

Locals == [tokens : TokenSizes \union {0}, at : 0..MaxClock,
           rows : SUBSET ExchangeRows, victims : SUBSET Nat]

Steps == {"idle", "insert", "sum", "collect", "store", "clear", "rank", "trim"}

\* The tables, the program counters and the locals keep their shapes.
TypeOK ==
  /\ now \in 0..MaxClock
  /\ calls \in 0..MaxCalls
  /\ exchanges \subseteq ExchangeRows
  /\ summaries \subseteq SummaryRows
  /\ nextSummary \in Nat
  /\ pc \in [Procs -> Steps]
  /\ call \in [Procs -> Locals]
  /\ \A p \in Procs : pc[p] = "insert" => call[p].tokens \in TokenSizes
  /\ accepted \subseteq 1..MaxCalls
  /\ archived \subseteq 1..MaxCalls
  /\ digested \subseteq 1..MaxCalls
  /\ cut \in BOOLEAN
  /\ overlapped \in BOOLEAN
  /\ disturbed \subseteq Procs

\* Short-term rows are cleared because they are "long-term now in summary"
\* (wubu_rlm.c:410).  Every message add_exchange went through for is either
\* still in the table or listed by a stored summary, wherever crashes cut a call
\* short, until two calls overlap (a write that overlaps another's may be refused,
\* and the refusal is ignored) or a batch is too long for its list or its buffer
\* (the list is cut then, the DELETE is not).
NothingForgotten == ~overlapped /\ ~cut => accepted \subseteq Ids(exchanges) \union archived

\* The same promise step by step: until calls overlap or a batch is cut,
\* add_exchange remembers, archives what is in short-term memory and only then
\* forgets it, whichever process calls it and wherever crashes cut it short.
Memory == INSTANCE RlmMemory WITH
  Messages <- 1..MaxCalls,
  live <- Ids(exchanges)

ImplementsMemory ==
  Memory!Init /\ [][Memory!Next \/ overlapped' \/ cut']_(Memory!vars)

\* The step with which a call of add_exchange returns (a crash ends it too).
Returns(p) ==
  pc'[p] = "idle" /\ (CheckThreshold(p) \/ RankSummaries(p) \/ TrimSummaries(p))

\* Whatever crashes and overlapping calls have left in the table, a call that
\* runs alone to its end brings its context back within the token budget: the
\* buffer does not keep growing.
ReturnsWithinBudget ==
  [][\A p \in Procs \ disturbed :
       Returns(p) => ~OverBudget(CtxOf[p])']_vars

\* A trim in a call that runs alone brings the context's summaries back to
\* the cap, whatever crashes and overlapping calls left before it (up to one
\* batch).
TrimRestoresCap ==
  [][\A p \in Procs \ disturbed :
       /\ pc[p] \in {"rank", "trim"} /\ Returns(p)
       /\ Cardinality(RowsOf(summaries, CtxOf[p])) <= RLM_MAX_SUMMARIES + TrimBatch
       => Cardinality(RowsOf(summaries, CtxOf[p])') <= RLM_MAX_SUMMARIES]_vars

\* However many processes trim the same context at once, a summary is deleted
\* only while RLM_MAX_SUMMARIES others of its context remain.
TrimLeavesCap ==
  [][\A c \in Contexts :
       RowsOf(summaries, c) \ RowsOf(summaries, c)' # {}
         => Cardinality(RowsOf(summaries, c)') >= RLM_MAX_SUMMARIES]_vars

\* The DELETE removes by context, not by the ids it collected.  As long as no
\* other process has the context open, what it removes is what this call has
\* just summarized ("long-term now in summary", wubu_rlm.c:410); a process that
\* shares the context may insert between the SELECT and the DELETE and lose it.
AloneInContext(p) == \A q \in Procs : CtxOf[q] = CtxOf[p] => q = p

ClearsOnlyCollected ==
  [][\A p \in Procs :
       AloneInContext(p) /\ pc[p] = "clear" /\ pc'[p] = "rank"
         => exchanges \ exchanges' \subseteq call[p].rows]_vars

\* rlm_auto_summarize builds the summary "for each "Speaker: message" segment"
\* (wubu_rlm.c:110): the text of every message a stored summary lists is in it.
EverySegmentDigested == archived \subseteq digested
=============================================================================
