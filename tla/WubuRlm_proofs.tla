--------------------------- MODULE WubuRlm_proofs ---------------------------
(***************************************************************************)
(* Theorems about WubuRlm, for every number of messages, every capacity    *)
(* and every set of processes.                                             *)
(***************************************************************************)
EXTENDS WubuRlm, FiniteSetTheorems, TLAPS

(* Rows that leave a table leave its ids; rows that are selected are rows. *)
LEMMA RowsAreRows ==
  ASSUME NEW S, NEW c, NEW n
  PROVE  /\ RowsOf(S, c) \subseteq S
         /\ Newest(S, n) \subseteq S
         /\ AutoSummarize(S) \subseteq S
  BY DEF RowsOf, Newest, AutoSummarize

(* Ids is monotone. *)
LEMMA IdsMonotone ==
  ASSUME NEW S, NEW T, S \subseteq T
  PROVE  Ids(S) \subseteq Ids(T)
  BY DEF Ids

(* Whichever summarizer runs, it digests only rows it was given. *)
LEMMA SummarizeIsPart ==
  ASSUME NEW how, NEW S
  PROVE  Summarize(how, S) \subseteq S
  BY RowsAreRows DEF Summarize

(* What is listed, and what is buffered, was collected.                    *)
LEMMA CutIsPart ==
  ASSUME NEW S
  PROVE  Listed(S) \subseteq S /\ Buffered(S) \subseteq S
  BY DEF Listed, Buffered

LEMMA NoCallIsLocals == ASSUME TypeOK PROVE NoCall \in Locals
  <1>1. MaxClock \in Nat
    BY RlmAssumption
  <1> QED
    BY <1>1 DEF NoCall, Locals

(* The initial state is well typed. *)
LEMMA InitTypeOK == Init => TypeOK
  <1> SUFFICES ASSUME Init PROVE TypeOK
    OBVIOUS
  <1>1. MaxClock \in Nat /\ MaxCalls \in Nat
    BY RlmAssumption
  <1>2. NoCall \in Locals
    BY <1>1 DEF NoCall, Locals
  <1>3. cut \in BOOLEAN /\ overlapped \in BOOLEAN /\ disturbed \subseteq Procs
    BY DEF Init
  <1> QED
    BY <1>1, <1>2, <1>3 DEF Init, TypeOK, Steps

(* Every step keeps the types. *)
LEMMA NextTypeOK == TypeOK /\ [Next]_vars => TypeOK'
  <1> SUFFICES ASSUME TypeOK, [Next]_vars PROVE TypeOK'
    OBVIOUS
  <1> USE DEF TypeOK
  <1>a. MaxClock \in Nat /\ MaxCalls \in Nat /\ CtxOf \in [Procs -> Contexts]
    BY RlmAssumption
  <1>b. NoCall \in Locals
    BY NoCallIsLocals
  <1>0. CASE UNCHANGED vars
    BY <1>0 DEF vars, dbVars, history, overlaps
  <1>1. CASE Tick
    <2>1. now' \in 0..MaxClock
      BY <1>1, <1>a DEF Tick
    <2> QED
      BY <1>1, <2>1 DEF Tick, dbVars, history, overlaps
  <1>2. ASSUME NEW p \in Procs, Step(p) PROVE TypeOK'
    <2>0. call[p] \in Locals
      OBVIOUS
    <2>2. ASSUME NEW t \in TokenSizes, Call(p, t) PROVE TypeOK'
      <3>1. [NoCall EXCEPT !.tokens = t, !.at = now] \in Locals
        BY <1>b DEF Locals, NoCall
      <3>2. call' \in [Procs -> Locals] /\ call'[p].tokens = t
        BY <2>2, <3>1 DEF Call, NoCall
      <3>3. \A q \in Procs : pc'[q] = "insert" => call'[q].tokens \in TokenSizes
        BY <2>2, <3>2 DEF Call, Goto
      <3>4. pc' \in [Procs -> Steps]
        BY <2>2 DEF Call, Goto, Steps
      <3>5. overlapped' \in BOOLEAN /\ disturbed' \subseteq Procs
        BY <2>2 DEF Call, Begin
      <3> QED
        BY <2>2, <3>2, <3>3, <3>4, <3>5 DEF Call, dbVars, history
    <2>3. CASE InsertExchange(p)
      <3>1. calls + 1 \in 1..MaxCalls /\ calls' = calls + 1
        BY <2>3, <1>a DEF InsertExchange
      <3>2. ExchangeOf(p) \in ExchangeRows
        BY <2>0, <2>3, <3>1, <1>a DEF ExchangeOf, ExchangeRows, Locals, InsertExchange
      <3>3. exchanges' \subseteq ExchangeRows
        BY <2>3, <3>2 DEF InsertExchange
      <3>4. pc' \in [Procs -> Steps] /\ \A q \in Procs : pc'[q] = "insert" => pc[q] = "insert"
        BY <2>3 DEF InsertExchange, Goto, Steps
      <3>5. accepted' \subseteq 1..MaxCalls /\ calls' \in 0..MaxCalls
        BY <2>3, <3>1, <1>a DEF InsertExchange
      <3> QED
        BY <2>3, <3>3, <3>4, <3>5 DEF InsertExchange, overlaps
    <2>4. CASE CheckThreshold(p)
      <3>1. call' \in [Procs -> Locals]
        BY <2>4, <1>b DEF CheckThreshold, Return
      <3>2. pc' \in [Procs -> Steps] /\ \A q \in Procs : pc'[q] = "insert" => pc[q] = "insert" /\ q # p
        BY <2>4 DEF CheckThreshold, Return, Goto, Steps
      <3>3. \A q \in Procs : q # p => call'[q] = call[q]
        BY <2>4 DEF CheckThreshold, Return
      <3> QED
        BY <2>4, <3>1, <3>2, <3>3 DEF CheckThreshold, dbVars, history, overlaps
    <2>5. CASE Collect(p)
      <3>1. [call[p] EXCEPT !.rows = RowsOf(exchanges, CtxOf[p])] \in Locals
        BY <2>0, RowsAreRows DEF Locals
      <3>2. call' \in [Procs -> Locals]
        BY <2>5, <3>1 DEF Collect, CollectRows
      <3>3. pc' \in [Procs -> Steps] /\ \A q \in Procs : pc'[q] = "insert" => pc[q] = "insert" /\ q # p
        BY <2>5 DEF Collect, CollectRows, Goto, Steps
      <3>4. \A q \in Procs : q # p => call'[q] = call[q]
        BY <2>5 DEF Collect, CollectRows
      <3>5. cut' \in BOOLEAN
        BY <2>5 DEF Collect, CollectRows
      <3> QED
        BY <2>5, <3>2, <3>3, <3>4, <3>5 DEF Collect, CollectRows, dbVars, overlaps
    <2>6. CASE StoreSummary(p)
      <3>1. pc' \in [Procs -> Steps] /\ \A q \in Procs : pc'[q] = "insert" => pc[q] = "insert"
        BY <2>6 DEF StoreSummary, Goto, Steps
      <3>2. /\ Ids(Listed(call[p].rows)) \subseteq Ids(call[p].rows)
            /\ Ids(call[p].rows) \subseteq 1..MaxCalls
        BY <2>0, CutIsPart, IdsMonotone DEF Ids, Locals, ExchangeRows
      <3>3. \A how \in Summarizers :
              Ids(Summarize(how, Buffered(call[p].rows))) \subseteq Ids(call[p].rows)
        <4>1. \A how \in Summarizers : Summarize(how, Buffered(call[p].rows)) \subseteq call[p].rows
          BY SummarizeIsPart, CutIsPart
        <4> QED
          BY <4>1, IdsMonotone
      <3>4. archived' \subseteq 1..MaxCalls /\ digested' \subseteq 1..MaxCalls
        BY <2>6, <3>2, <3>3 DEF StoreSummary
      <3>5. [id |-> nextSummary, ctx |-> CtxOf[p], timestamp |-> call[p].at] \in SummaryRows
        BY <2>0, <1>a DEF SummaryRows, Locals
      <3>6. summaries' \subseteq SummaryRows /\ nextSummary' \in Nat
        BY <2>6, <3>5 DEF StoreSummary
      <3> QED
        BY <2>6, <3>1, <3>4, <3>6 DEF StoreSummary, overlaps
    <2>7. CASE ClearExchanges(p)
      <3>1. exchanges' \subseteq ExchangeRows
        BY <2>7 DEF ClearExchanges
      <3>2. pc' \in [Procs -> Steps] /\ \A q \in Procs : pc'[q] = "insert" => pc[q] = "insert"
        BY <2>7 DEF ClearExchanges, Goto, Steps
      <3> QED
        BY <2>7, <3>1, <3>2 DEF ClearExchanges, history, overlaps
    <2>8. CASE RankSummaries(p)
      <3> DEFINE victims == Newest(Surplus(CtxOf[p]), TrimBatch)
      <3>1. Ids(victims) \subseteq Nat
        <4>1. victims \subseteq summaries
          BY RowsAreRows DEF Surplus
        <4> QED
          BY <4>1 DEF Ids, SummaryRows
      <3>2. [call[p] EXCEPT !.victims = Ids(victims)] \in Locals
        BY <2>0, <3>1 DEF Locals
      <3> HIDE DEF victims
      <3>3. call' = [call EXCEPT ![p] = NoCall] \/ call' = [call EXCEPT ![p].victims = Ids(victims)]
        BY <2>8 DEF RankSummaries, Return, victims
      <3>4. call' \in [Procs -> Locals] /\ \A q \in Procs : q # p => call'[q] = call[q]
        BY <3>2, <3>3, <1>b
      <3>5. pc' \in [Procs -> Steps] /\ \A q \in Procs : pc'[q] = "insert" => pc[q] = "insert" /\ q # p
        BY <2>8 DEF RankSummaries, Return, Goto, Steps
      <3> QED
        BY <2>8, <3>4, <3>5 DEF RankSummaries, dbVars, history, overlaps
    <2>9. CASE TrimSummaries(p)
      <3>1. summaries' \subseteq SummaryRows
        BY <2>9 DEF TrimSummaries
      <3>2. call' \in [Procs -> Locals] /\ \A q \in Procs : q # p => call'[q] = call[q]
        BY <2>9, <1>b DEF TrimSummaries, Return
      <3>3. pc' \in [Procs -> Steps] /\ \A q \in Procs : pc'[q] = "insert" => pc[q] = "insert" /\ q # p
        BY <2>9 DEF TrimSummaries, Return, Goto, Steps
      <3> QED
        BY <2>9, <3>1, <3>2, <3>3 DEF TrimSummaries, history, overlaps
    <2>10. CASE Crash(p)
      <3>1. call' \in [Procs -> Locals] /\ \A q \in Procs : q # p => call'[q] = call[q]
        BY <2>10, <1>b DEF Crash, Return
      <3>2. pc' \in [Procs -> Steps] /\ \A q \in Procs : pc'[q] = "insert" => pc[q] = "insert" /\ q # p
        BY <2>10 DEF Crash, Return, Goto, Steps
      <3> QED
        BY <2>10, <3>1, <3>2 DEF Crash, dbVars, history, overlaps
    <2> QED
      BY <1>2, <2>2, <2>3, <2>4, <2>5, <2>6, <2>7, <2>8, <2>9, <2>10 DEF Step
  <1> QED
    BY <1>0, <1>1, <1>2 DEF Next

(* TypeOK holds in every reachable state: the tables, the statement each   *)
(* process is at and its locals keep their shapes.                         *)
THEOREM TypeCorrect == Spec => []TypeOK
  BY InitTypeOK, NextTypeOK, PTL DEF Spec

-----------------------------------------------------------------------------
(* A context of one's own.                                                 *)

\* What a process alone in its context collected still covers the context
\* when it comes to clear it.
CollectedCovers ==
  \A p \in Procs :
    AloneInContext(p) /\ pc[p] \in {"store", "clear"}
      => RowsOf(exchanges, CtxOf[p]) \subseteq call[p].rows

\* Init establishes CollectedCovers.
LEMMA InitCollectedCovers == Init => CollectedCovers
  BY DEF Init, CollectedCovers

(* The only step that adds rows to a context is its own process's INSERT,  *)
(* which that process does not run between its SELECT and its DELETE.      *)
LEMMA NextCollectedCovers ==
  ASSUME TypeOK, CollectedCovers, [Next]_vars
  PROVE  CollectedCovers'
  <1> USE DEF CollectedCovers, RowsOf
  <1>0. CASE UNCHANGED vars
    BY <1>0 DEF vars, dbVars
  <1>1. CASE Tick
    BY <1>1 DEF Tick, dbVars
  <1>2. ASSUME NEW p \in Procs, Step(p) PROVE CollectedCovers'
    <2>a. pc \in [Procs -> Steps] /\ call \in [Procs -> Locals]
      BY DEF TypeOK
    <2>1. ASSUME exchanges' \subseteq exchanges,
                 \A q \in Procs : /\ q # p => pc'[q] = pc[q] /\ call'[q] = call[q]
                                  /\ pc'[q] \in {"store", "clear"} =>
                                       \/ pc[q] \in {"store", "clear"} /\ call'[q] = call[q]
                                       \/ call'[q].rows = RowsOf(exchanges, CtxOf[q])
          PROVE  CollectedCovers'
      BY <2>1
    <2>2. CASE InsertExchange(p)
      <3>1. \A e \in exchanges' : e \in exchanges \/ e.ctx = CtxOf[p]
        BY <2>2 DEF InsertExchange, ExchangeOf
      <3>2. pc'[p] = "sum" /\ call' = call /\ \A q \in Procs : q # p => pc'[q] = pc[q]
        BY <2>2, <2>a DEF InsertExchange, Goto
      <3> QED
        BY <3>1, <3>2 DEF AloneInContext
    <2>3. CASE Crash(p)
      BY <2>1, <2>3, <2>a DEF Crash, Return, Goto, dbVars
    <2>4. ASSUME NEW t \in TokenSizes, Call(p, t) PROVE CollectedCovers'
      BY <2>1, <2>4, <2>a DEF Call, Goto, dbVars
    <2>5. CASE CheckThreshold(p) \/ RankSummaries(p) \/ TrimSummaries(p)
      <3>1. /\ \A q \in Procs : q # p => pc'[q] = pc[q] /\ call'[q] = call[q]
            /\ pc'[p] \in {"idle", "collect", "trim"}
        BY <2>5, <2>a DEF CheckThreshold, RankSummaries, TrimSummaries, Return, Goto
      <3>2. exchanges' = exchanges
        BY <2>5 DEF CheckThreshold, RankSummaries, TrimSummaries, dbVars
      <3> QED
        BY <2>1, <3>1, <3>2
    <2>6. CASE Collect(p)
      <3>1. /\ call'[p].rows = RowsOf(exchanges, CtxOf[p])
            /\ \A q \in Procs : q # p => pc'[q] = pc[q] /\ call'[q] = call[q]
        BY <2>6, <2>a DEF Collect, CollectRows, Goto, Locals
      <3> QED
        BY <2>1, <2>6, <3>1 DEF Collect, CollectRows, dbVars
    <2>7. CASE StoreSummary(p)
      BY <2>1, <2>7, <2>a DEF StoreSummary, Goto
    <2>8. CASE ClearExchanges(p)
      BY <2>1, <2>8, <2>a DEF ClearExchanges, Goto
    <2> QED
      BY <1>2, <2>2, <2>3, <2>4, <2>5, <2>6, <2>7, <2>8 DEF Step
  <1> QED
    BY <1>0, <1>1, <1>2 DEF Next

(* A DELETE that starts from CollectedCovers deletes only collected rows.  *)
LEMMA CoversClears ==
  ASSUME TypeOK, CollectedCovers, [Next]_vars
  PROVE  \A p \in Procs :
           AloneInContext(p) /\ pc[p] = "clear" /\ pc'[p] = "rank"
             => exchanges \ exchanges' \subseteq call[p].rows
  <1> SUFFICES ASSUME NEW p \in Procs, AloneInContext(p), pc[p] = "clear", pc'[p] = "rank"
               PROVE  exchanges \ exchanges' \subseteq call[p].rows
    OBVIOUS
  <1>a. pc \in [Procs -> Steps]
    BY DEF TypeOK
  <1>1. PICK q \in Procs : Step(q)
    BY DEF Next, Tick, vars
  <1>2. q = p
    BY <1>1, <1>a DEF Step, Call, InsertExchange, CheckThreshold, Collect, CollectRows,
       StoreSummary, ClearExchanges, RankSummaries, TrimSummaries, Crash, Return, Goto
  <1>3. ClearExchanges(p)
    BY <1>1, <1>2, <1>a DEF Step, Call, InsertExchange, CheckThreshold, Collect, CollectRows,
       StoreSummary, RankSummaries, TrimSummaries, Crash, Return, Goto
  <1> QED
    BY <1>3 DEF ClearExchanges, CollectedCovers

(* A process that has its context to itself never deletes a message that   *)
(* the same call has not put into its summary's list, however many others  *)
(* share the database file and whichever of them crash.                    *)
THEOREM AloneClearsOnlyCollected == Spec => ClearsOnlyCollected
  <1>1. Init => TypeOK /\ CollectedCovers
    BY InitTypeOK, InitCollectedCovers
  <1>2. TypeOK /\ CollectedCovers /\ [Next]_vars => (TypeOK /\ CollectedCovers)'
    BY NextTypeOK, NextCollectedCovers
  <1>3. TypeOK /\ CollectedCovers /\ [Next]_vars =>
          [\A p \in Procs :
             AloneInContext(p) /\ pc[p] = "clear" /\ pc'[p] = "rank"
               => exchanges \ exchanges' \subseteq call[p].rows]_vars
    BY CoversClears
  <1> QED
    BY <1>1, <1>2, <1>3, PTL DEF Spec, ClearsOnlyCollected

-----------------------------------------------------------------------------
(* Calls that do not overlap.                                              *)

\* At most one process is in a call; messages are numbered without gaps; what
\* was collected is still exactly the context's rows and fits its buffers, and
\* those rows are archived when the call comes to clear.
Serial ==
  /\ \A p, q \in Procs : pc[p] # "idle" /\ pc[q] # "idle" => p = q
  /\ accepted \subseteq 1..calls
  /\ Ids(exchanges) \subseteq accepted
  /\ accepted \subseteq Ids(exchanges) \union archived
  /\ \A p \in Procs :
       /\ pc[p] \in {"store", "clear"} =>
            call[p].rows = RowsOf(exchanges, CtxOf[p]) /\ Fits(call[p].rows)
       /\ pc[p] = "clear" => Ids(call[p].rows) \subseteq archived

Inductive == ~overlapped /\ ~cut => Serial

\* Init establishes Inductive.
LEMMA InitInductive == Init => Inductive
  BY DEF Init, Inductive, Serial, Ids

\* Calls that have overlapped have overlapped for good, and so with the cuts.
LEMMA OverlapStays ==
  ASSUME [Next]_vars, ~overlapped', ~cut' PROVE ~overlapped /\ ~cut
  <1>1. ASSUME NEW p \in Procs, NEW t \in TokenSizes, Call(p, t) PROVE ~overlapped /\ ~cut
    <2>1. ~overlapped
      BY <1>1 DEF Call, Begin
    <2>2. cut' = cut
      BY <1>1 DEF Call, history
    <2> QED
      BY <2>1, <2>2
  <1>2. ASSUME NEW p \in Procs, Collect(p) PROVE ~overlapped /\ ~cut
    <2>1. ~cut
      BY <1>2 DEF Collect, CollectRows
    <2>2. overlapped' = overlapped
      BY <1>2 DEF Collect, CollectRows, overlaps
    <2> QED
      BY <2>1, <2>2
  <1>3. CASE UNCHANGED <<overlapped, cut>>
    BY <1>3
  <1>4. CASE UNCHANGED vars \/ Tick
    BY <1>3, <1>4 DEF Tick, vars, overlaps, history
  <1>5. ASSUME NEW p \in Procs, Step(p) PROVE ~overlapped /\ ~cut
    BY <1>1, <1>2, <1>3, <1>5 DEF Step, InsertExchange, CheckThreshold, StoreSummary,
       ClearExchanges, RankSummaries, TrimSummaries, Crash, overlaps, history
  <1> QED
    BY <1>4, <1>5 DEF Next

\* While calls do not overlap, the processes other than the acting one are idle.
LEMMA OthersIdle ==
  ASSUME TypeOK, Serial, NEW p \in Procs, Step(p), ~overlapped'
  PROVE  \A q \in Procs : q # p => pc[q] = "idle" /\ pc'[q] = "idle"
  <1>a. pc \in [Procs -> Steps]
    BY DEF TypeOK
  <1>1. ASSUME NEW t \in TokenSizes, Call(p, t)
        PROVE  \A q \in Procs : q # p => pc[q] = "idle" /\ pc'[q] = "idle"
    BY <1>1, <1>a DEF Call, Begin, Goto
  <1>2. CASE pc[p] # "idle"
    <2>1. \A q \in Procs : q # p => pc[q] = "idle"
      BY <1>2 DEF Serial
    <2>2. \A q \in Procs : q # p => pc'[q] = pc[q]
      BY <1>a DEF Step, Call, InsertExchange, CheckThreshold, Collect, CollectRows, StoreSummary, ClearExchanges,
         RankSummaries, TrimSummaries, Crash, Return, Goto
    <2> QED
      BY <2>1, <2>2
  <1> QED
    BY <1>1, <1>2 DEF Step, InsertExchange, CheckThreshold, Collect, CollectRows, StoreSummary, ClearExchanges,
       RankSummaries, TrimSummaries, Crash

\* When the others are idle no write of theirs is in the way.
LEMMA NeverBusy ==
  ASSUME NEW p \in Procs, \A q \in Procs : q # p => pc[q] = "idle" PROVE ~Busy(p)
  BY DEF Busy, WriteSteps

(* What one step does to the three histories, while calls do not overlap:  *)
(* it is a step of RlmMemory or changes none of them.                      *)
LEMMA StepIsMemoryStep ==
  ASSUME TypeOK, Serial, [Next]_vars, ~overlapped', ~cut'
  PROVE  Serial' /\ [Memory!Next]_(Memory!vars)
  <1> DEFINE live == Ids(exchanges)
  <1>a. /\ pc \in [Procs -> Steps] /\ call \in [Procs -> Locals]
        /\ MaxCalls \in Nat /\ calls \in 0..MaxCalls
        /\ accepted \subseteq 1..MaxCalls /\ archived \subseteq 1..MaxCalls
    BY RlmAssumption DEF TypeOK
  <1>c. ~cut'
    OBVIOUS
  <1>0. CASE UNCHANGED vars
    <2>1. Serial'
      BY <1>0 DEF vars, dbVars, history, Serial, RowsOf
    <2> QED
      BY <1>0, <2>1 DEF vars, dbVars, history, Memory!vars
  <1>1. CASE Tick
    <2>1. Serial'
      BY <1>1 DEF Tick, dbVars, history, Serial, RowsOf
    <2> QED
      BY <1>1, <2>1 DEF Tick, dbVars, history, Memory!vars
  <1>2. ASSUME NEW p \in Procs, Step(p)
        PROVE  Serial' /\ [Memory!Next]_(Memory!vars)
    <2>a. \A q \in Procs : q # p => pc[q] = "idle" /\ pc'[q] = "idle"
      BY <1>2, OthersIdle
    <2>b. ~Busy(p)
      BY <2>a, NeverBusy
    \* the steps that touch neither the exchanges nor the histories
    <2>1. ASSUME UNCHANGED <<exchanges, calls, accepted, archived>>,
                 pc'[p] \notin {"store", "clear"} \/ Collect(p)
          PROVE  Serial' /\ [Memory!Next]_(Memory!vars)
      <3>1. pc'[p] \in {"store", "clear"} =>
              /\ pc'[p] = "store" /\ call'[p].rows = RowsOf(exchanges, CtxOf[p])
              /\ Fits(call'[p].rows)
        BY <2>1, <1>a, <1>c DEF Collect, CollectRows, Goto, Locals
      <3>2. Serial'
        BY <2>1, <2>a, <3>1 DEF Serial, RowsOf
      <3> QED
        BY <2>1, <3>2 DEF Memory!vars
    <2>2. CASE InsertExchange(p)
      <3>1. /\ exchanges' = exchanges \union {ExchangeOf(p)}
            /\ calls' = calls + 1 /\ calls + 1 \in 1..MaxCalls
            /\ accepted' = accepted \union {calls + 1}
            /\ archived' = archived
            /\ pc'[p] = "sum"
        BY <2>2, <2>b, <1>a DEF InsertExchange, Goto
      <3>2. live' = live \union {calls + 1}
        <4>1. Ids(exchanges \union {ExchangeOf(p)}) = Ids(exchanges) \union {ExchangeOf(p).id}
          BY DEF Ids
        <4>2. ExchangeOf(p).id = calls + 1
          BY DEF ExchangeOf
        <4>3. live' = Ids(exchanges')
          BY DEF Ids
        <4> QED
          BY <3>1, <4>1, <4>2, <4>3
      <3>3. Serial'
        <4>1. accepted' \subseteq 1..calls'
          BY <3>1, <1>a DEF Serial
        <4>2. Ids(exchanges)' \subseteq accepted' /\ (accepted \subseteq Ids(exchanges) \union archived)'
          BY <3>1, <3>2 DEF Serial
        <4> QED
          BY <4>1, <4>2, <3>1, <2>a DEF Serial
      <3>4. calls + 1 \notin accepted
        BY <1>a DEF Serial
      <3>5. Memory!Remember(calls + 1)
        BY <3>1, <3>2, <3>4 DEF Memory!Remember
      <3> QED
        BY <3>1, <3>3, <3>5 DEF Memory!Next
    <2>3. CASE StoreSummary(p)
      <3>1. /\ archived' = archived \union Ids(call[p].rows)
            /\ UNCHANGED <<exchanges, calls, accepted, call>>
            /\ pc[p] = "store" /\ pc'[p] = "clear"
        BY <2>3, <2>b, <1>a DEF StoreSummary, Goto, Serial, Fits
      <3>2. Ids(call[p].rows) \subseteq live
        BY <3>1, RowsAreRows, IdsMonotone DEF Serial
      <3>3. Serial'
        BY <3>1, <2>a DEF Serial, RowsOf
      <3>4. live \subseteq 1..MaxCalls
        BY <1>a DEF Serial
      <3>5. Memory!Archive(Ids(call[p].rows)) /\ Ids(call[p].rows) \in SUBSET (1..MaxCalls)
        BY <3>1, <3>2, <3>4 DEF Memory!Archive
      <3> QED
        BY <3>3, <3>5 DEF Memory!Next
    <2>4. CASE ClearExchanges(p)
      <3> DEFINE gone == live \ live'
      <3>1. /\ exchanges' = exchanges \ RowsOf(exchanges, CtxOf[p])
            /\ UNCHANGED <<calls, accepted, archived>>
            /\ pc[p] = "clear" /\ pc'[p] = "rank"
        BY <2>4, <2>b, <1>a DEF ClearExchanges, Goto, history
      <3>2. live' \subseteq live
        BY <3>1, IdsMonotone
      <3>3. gone \subseteq Ids(RowsOf(exchanges, CtxOf[p]))
        BY <3>1 DEF Ids
      <3>4. gone \subseteq archived
        BY <3>1, <3>3 DEF Serial
      <3>5. Serial'
        <4>1. (accepted \subseteq Ids(exchanges) \union archived)' /\ Ids(exchanges)' \subseteq accepted'
          BY <3>1, <3>2, <3>4 DEF Serial
        <4> QED
          BY <4>1, <3>1, <2>a DEF Serial
      <3>6. Memory!Forget(gone) /\ gone \in SUBSET (1..MaxCalls)
        BY <3>1, <3>2, <3>4, <1>a DEF Memory!Forget
      <3> QED
        BY <3>5, <3>6 DEF Memory!Next
    <2>5. CASE Crash(p)
      BY <2>1, <2>5, <1>a DEF Crash, Return, Goto, dbVars, history
    <2>6. ASSUME NEW t \in TokenSizes, Call(p, t)
          PROVE  Serial' /\ [Memory!Next]_(Memory!vars)
      BY <2>1, <2>6, <1>a DEF Call, Goto, dbVars, history
    <2>7. CASE CheckThreshold(p) \/ RankSummaries(p) \/ TrimSummaries(p)
      <3>1. pc'[p] \in {"idle", "collect", "trim"}
        BY <2>7, <1>a DEF CheckThreshold, RankSummaries, TrimSummaries, Return, Goto
      <3>2. UNCHANGED <<exchanges, calls, accepted, archived>>
        BY <2>7 DEF CheckThreshold, RankSummaries, TrimSummaries, dbVars, history
      <3> QED
        BY <2>1, <3>1, <3>2
    <2>8. CASE Collect(p)
      BY <2>1, <2>8 DEF Collect, CollectRows, dbVars
    <2> QED
      BY <1>2, <2>2, <2>3, <2>4, <2>5, <2>6, <2>7, <2>8 DEF Step
  <1> QED
    BY <1>0, <1>1, <1>2 DEF Next

(* Every step keeps Inductive.                                             *)
LEMMA NextInductive == ASSUME TypeOK, Inductive, [Next]_vars PROVE Inductive'
  BY OverlapStays, StepIsMemoryStep DEF Inductive

(* Until calls overlap or a batch is too long for its list and buffer, a   *)
(* message that add_exchange went through for is never lost, whatever its  *)
(* size, the capacities, the number of processes that take turns, and the  *)
(* statement at which one of them dies.                                    *)
THEOREM NothingForgottenUntilOverlap == Spec => []NothingForgotten
  <1>1. Init => TypeOK /\ Inductive
    BY InitTypeOK, InitInductive
  <1>2. TypeOK /\ Inductive /\ [Next]_vars => (TypeOK /\ Inductive)'
    BY NextTypeOK, NextInductive
  <1>3. Inductive => NothingForgotten
    BY DEF Inductive, Serial, NothingForgotten
  <1> QED
    BY <1>1, <1>2, <1>3, PTL DEF Spec

(* Until calls overlap or a batch is cut, the statements of add_exchange   *)
(* implement the abstract memory: remember, archive what is live, forget   *)
(* only what is archived.                                                  *)
THEOREM SerialCallsImplementMemory == Spec => ImplementsMemory
  <1>1. Init => TypeOK /\ Inductive
    BY InitTypeOK, InitInductive
  <1>2. TypeOK /\ Inductive /\ [Next]_vars => (TypeOK /\ Inductive)'
    BY NextTypeOK, NextInductive
  <1>3. TypeOK /\ Inductive /\ [Next]_vars => [Memory!Next \/ overlapped' \/ cut']_(Memory!vars)
    BY OverlapStays, StepIsMemoryStep DEF Inductive
  <1>4. Init => Memory!Init
    BY DEF Init, Memory!Init, Ids
  <1> QED
    BY <1>1, <1>2, <1>3, <1>4, PTL DEF Spec, ImplementsMemory

-----------------------------------------------------------------------------
(* The order of the rows: what ORDER BY timestamp DESC LIMIT n counts.     *)

(* Every set of naturals with an element has a least one.                  *)
LEMMA LeastNatural ==
  ASSUME NEW T \in SUBSET Nat, T # {}
  PROVE  \E n \in T : \A m \in T : n <= m
  <1> DEFINE R == {ss \in Nat \X Nat : ss[1] < ss[2]}
  <1>1. IsWellFoundedOn(R, Nat)
    BY NatLessThanWellFounded, Zenon DEF OpToRel
  <1> HIDE DEF R
  <1>2. PICK n \in T : \A m \in T : <<m, n>> \notin R
    BY <1>1, WFMin, Zenon
  <1>3. \A m \in T : ~ (m < n)
    BY <1>2 DEF R
  <1> QED
    BY <1>3

\* The rows of S that the query lists before r.
Ahead(S, r) == {s \in S : NewestFirst(s, r)}

\* Rows as the table holds them: finitely many, told apart by their ids.
Table(S) ==
  /\ IsFiniteSet(S)
  /\ S \subseteq SummaryRows
  /\ \A s, t \in S : s.id = t.id => s = t

(* The rows before one row are finitely many.                              *)
LEMMA AheadFinite ==
  ASSUME NEW S, IsFiniteSet(S), NEW r
  PROVE  IsFiniteSet(Ahead(S, r)) /\ Cardinality(Ahead(S, r)) \in Nat
  <1>1. Ahead(S, r) \in SUBSET S
    BY DEF Ahead
  <1> QED
    BY <1>1, FS_Subset, FS_CardinalityType

(* NewestFirst puts the rows of a table in one line.                       *)
LEMMA NewestFirstTotal ==
  ASSUME NEW S, Table(S)
  PROVE  /\ \A r \in S : ~NewestFirst(r, r)
         /\ \A r, t \in S : r # t => NewestFirst(r, t) \/ NewestFirst(t, r)
         /\ \A r, s, t \in S : NewestFirst(r, s) /\ NewestFirst(s, t) => NewestFirst(r, t)
  <1>1. \A r \in S : r.id \in Nat /\ r.timestamp \in Int
    BY RlmAssumption DEF Table, SummaryRows
  <1> QED
    BY <1>1 DEF NewestFirst, Table

(* A row has more rows before it than any row before it.                   *)
LEMMA AheadGrows ==
  ASSUME NEW S, Table(S), NEW r \in S, NEW t \in S, NewestFirst(t, r)
  PROVE  Cardinality(Ahead(S, t)) < Cardinality(Ahead(S, r))
  <1>1. Ahead(S, t) \in SUBSET Ahead(S, r) /\ t \in Ahead(S, r) /\ t \notin Ahead(S, t)
    BY NewestFirstTotal DEF Ahead
  <1>2. IsFiniteSet(Ahead(S, r))
    BY AheadFinite DEF Table
  <1>3. Cardinality(Ahead(S, t)) <= Cardinality(Ahead(S, r))
    BY <1>1, <1>2, FS_Subset
  <1>4. Cardinality(Ahead(S, t)) # Cardinality(Ahead(S, r))
    BY <1>1, <1>2, FS_Subset
  <1> QED
    BY <1>2, <1>3, <1>4, AheadFinite DEF Table

(* LIMIT n selects at most n rows.                                         *)
LEMMA NewestAtMost ==
  ASSUME NEW S, Table(S), NEW n \in Nat
  PROVE  Cardinality(Newest(S, n)) <= n
  <1> DEFINE N == Newest(S, n)
             T == {n - Cardinality(Ahead(S, r)) : r \in N}
  <1>1. N \in SUBSET S /\ IsFiniteSet(N)
    BY RowsAreRows, FS_Subset DEF Table
  <1>2. \A r \in N : Cardinality(Ahead(S, r)) \in Nat /\ Cardinality(Ahead(S, r)) < n
    BY <1>1, AheadFinite DEF Newest, Ahead, Table
  <1>3. CASE N = {}
    BY <1>3, FS_EmptySet
  <1>4. CASE N # {}
    <2>1. T \in SUBSET Nat /\ T # {}
      BY <1>2, <1>4
    <2>2. PICK k \in T : \A m \in T : k <= m
      <3> HIDE DEF T
      <3> QED
        BY <2>1, LeastNatural
    <2>3. PICK r \in N : \A t \in N : Cardinality(Ahead(S, t)) <= Cardinality(Ahead(S, r))
      <3>1. PICK r \in N : k = n - Cardinality(Ahead(S, r))
        BY <2>2
      <3>2. \A t \in N : n - Cardinality(Ahead(S, r)) <= n - Cardinality(Ahead(S, t))
        BY <2>2, <3>1
      <3> QED
        BY <3>2, <1>2
    \* r is the last of them: the others are before it
    <2>4. N \ {r} \in SUBSET Ahead(S, r)
      <3>1. ASSUME NEW t \in N, t # r PROVE t \in Ahead(S, r)
        <4>1. ~NewestFirst(r, t)
          BY <1>1, <1>2, <2>3, AheadGrows
        <4> QED
          BY <1>1, <3>1, <4>1, NewestFirstTotal DEF Ahead
      <3> QED
        BY <3>1
    <2>5. Cardinality(N \ {r}) <= Cardinality(Ahead(S, r))
      BY <2>4, AheadFinite, FS_Subset DEF Table
    <2>6. Cardinality(N \ {r}) = Cardinality(N) - 1 /\ Cardinality(N) \in Nat
      BY <1>1, FS_RemoveElement, FS_CardinalityType
    <2> QED
      BY <2>5, <2>6, <1>2
  <1> QED
    BY <1>3, <1>4

(* If LIMIT n leaves a row out, it selects no fewer than n.                *)
LEMMA NewestAtLeast ==
  ASSUME NEW S, Table(S), NEW n \in Nat, NEW r \in S \ Newest(S, n)
  PROVE  Cardinality(Newest(S, n)) >= n
  <1> DEFINE D == S \ Newest(S, n)
             T == {Cardinality(Ahead(S, t)) : t \in D}
  <1>1. T \in SUBSET Nat /\ T # {}
    BY AheadFinite DEF Table
  <1>2. PICK t \in D : \A s \in D : Cardinality(Ahead(S, t)) <= Cardinality(Ahead(S, s))
    <2>1. PICK k \in T : \A m \in T : k <= m
      <3> HIDE DEF T
      <3> QED
        BY <1>1, LeastNatural
    <2> QED
      BY <2>1
  \* t is the first that is left out
  <1>3. Ahead(S, t) \in SUBSET Newest(S, n)
    <2>1. ASSUME NEW s \in Ahead(S, t), s \notin Newest(S, n) PROVE FALSE
      <3>1. s \in D /\ NewestFirst(s, t)
        BY <2>1 DEF Ahead
      <3>2. Cardinality(Ahead(S, s)) < Cardinality(Ahead(S, t))
        BY <3>1, AheadGrows
      <3>3. Cardinality(Ahead(S, s)) \in Nat /\ Cardinality(Ahead(S, t)) \in Nat
        BY AheadFinite DEF Table
      <3> QED
        BY <1>2, <3>1, <3>2, <3>3
    <2> QED
      BY <2>1
  <1>4. IsFiniteSet(Newest(S, n)) /\ Cardinality(Newest(S, n)) \in Nat
    BY RowsAreRows, FS_Subset, FS_CardinalityType DEF Table
  <1>5. Cardinality(Ahead(S, t)) <= Cardinality(Newest(S, n))
    BY <1>3, <1>4, FS_Subset
  <1>6. ~ (Cardinality(Ahead(S, t)) < n) /\ Cardinality(Ahead(S, t)) \in Nat
    BY AheadFinite DEF Newest, Ahead, Table
  <1> QED
    BY <1>4, <1>5, <1>6

-----------------------------------------------------------------------------
(* Overlapping trims.                                                      *)

\* Summaries are numbered, and what a process is about to trim are rows of its
\* context, each behind RLM_MAX_SUMMARIES others that stay.
PendingTrims ==
  /\ Table(summaries)
  /\ \A s \in summaries : s.id < nextSummary
  /\ \A p \in Procs : \A i \in call[p].victims : i < nextSummary
  /\ \A p \in Procs, s \in summaries :
       s.id \in call[p].victims =>
         /\ s.ctx = CtxOf[p]
         /\ Cardinality(Ahead(RowsOf(summaries, s.ctx), s)) >= RLM_MAX_SUMMARIES

\* Init establishes PendingTrims.
LEMMA InitPendingTrims == Init => PendingTrims
  BY FS_EmptySet DEF Init, PendingTrims, Table, NoCall

(* The rows of a context are a table.                                      *)
LEMMA ContextIsTable ==
  ASSUME NEW S, Table(S), NEW c
  PROVE  Table(RowsOf(S, c))
  <1>1. RowsOf(S, c) \in SUBSET S
    BY RowsAreRows
  <1> QED
    BY <1>1, FS_Subset DEF Table

(* What the query with the OFFSET returns is behind that many rows.        *)
LEMMA SurplusIsBehind ==
  ASSUME Table(summaries), NEW c, NEW s \in Surplus(c)
  PROVE  /\ s \in summaries /\ s.ctx = c
         /\ Cardinality(Ahead(RowsOf(summaries, c), s)) >= RLM_MAX_SUMMARIES
  <1>1. s \in RowsOf(summaries, c) /\ s \notin Newest(RowsOf(summaries, c), RLM_MAX_SUMMARIES)
    BY DEF Surplus
  <1>2. Cardinality(Ahead(RowsOf(summaries, c), s)) \in Nat
    BY ContextIsTable, AheadFinite DEF Table
  <1> QED
    BY <1>1, <1>2, RlmAssumption DEF Newest, Ahead, RowsOf

(* The DELETE of a trim removes nothing from the newest of any context.    *)
LEMMA TrimKeepsNewest ==
  ASSUME TypeOK, PendingTrims, NEW p \in Procs, TrimSummaries(p), NEW c
  PROVE  Newest(RowsOf(summaries, c), RLM_MAX_SUMMARIES) \subseteq RowsOf(summaries', c)
  <1> SUFFICES ASSUME NEW s \in Newest(RowsOf(summaries, c), RLM_MAX_SUMMARIES),
                      s \notin RowsOf(summaries', c)
               PROVE  FALSE
    OBVIOUS
  <1>1. s \in summaries /\ s.ctx = c
    BY RowsAreRows DEF RowsOf
  <1>2. s.id \in call[p].victims
    BY <1>1 DEF TrimSummaries, RowsOf
  <1>3. Cardinality(Ahead(RowsOf(summaries, c), s)) >= RLM_MAX_SUMMARIES
    BY <1>1, <1>2 DEF PendingTrims
  <1>4. Cardinality(Ahead(RowsOf(summaries, c), s)) < RLM_MAX_SUMMARIES
    BY DEF Newest, Ahead
  <1>5. Cardinality(Ahead(RowsOf(summaries, c), s)) \in Nat
    BY ContextIsTable, AheadFinite DEF PendingTrims, Table
  <1> QED
    BY <1>3, <1>4, <1>5, RlmAssumption

(* While more rows come, and none before r goes, no fewer are before r.    *)
LEMMA AheadStays ==
  ASSUME NEW S, IsFiniteSet(S), NEW T, IsFiniteSet(T), NEW r, Ahead(S, r) \subseteq T
  PROVE  Cardinality(Ahead(S, r)) <= Cardinality(Ahead(T, r))
  <1>1. Ahead(S, r) \in SUBSET Ahead(T, r)
    BY DEF Ahead
  <1> QED
    BY <1>1, AheadFinite, FS_Subset

(* A row that has n rows before it has the first n of the list before it.  *)
LEMMA NewestAreAhead ==
  ASSUME NEW S, Table(S), NEW n \in Nat, NEW r \in S, Cardinality(Ahead(S, r)) >= n
  PROVE  /\ Newest(S, n) \subseteq Ahead(S, r)
         /\ Cardinality(Newest(S, n)) >= n
  <1>1. Cardinality(Ahead(S, r)) \in Nat
    BY AheadFinite DEF Table
  <1>2. r \notin Newest(S, n)
    BY <1>1 DEF Newest, Ahead
  <1>3. ASSUME NEW s \in Newest(S, n) PROVE s \in Ahead(S, r)
    <2>1. s \in S /\ Cardinality(Ahead(S, s)) < n /\ Cardinality(Ahead(S, s)) \in Nat
      BY AheadFinite DEF Newest, Ahead, Table
    <2>2. ~NewestFirst(r, s)
      <3>1. SUFFICES ASSUME NewestFirst(r, s) PROVE FALSE
        OBVIOUS
      <3>2. Cardinality(Ahead(S, r)) < Cardinality(Ahead(S, s))
        BY <2>1, <3>1, AheadGrows
      <3> QED
        BY <1>1, <2>1, <3>2
    <2> QED
      BY <1>2, <2>1, <2>2, NewestFirstTotal DEF Ahead
  <1> QED
    BY <1>2, <1>3, NewestAtLeast

(* Every step keeps PendingTrims.                                          *)
LEMMA NextPendingTrims ==
  ASSUME TypeOK, PendingTrims, [Next]_vars
  PROVE  PendingTrims'
  <1>a. /\ pc \in [Procs -> Steps] /\ call \in [Procs -> Locals] /\ nextSummary \in Nat
        /\ RLM_MAX_SUMMARIES \in Nat /\ CtxOf \in [Procs -> Contexts]
    BY RlmAssumption DEF TypeOK
  <1>b. \A c : Table(RowsOf(summaries, c))
    BY ContextIsTable DEF PendingTrims
  <1>0. ASSUME summaries' = summaries, nextSummary' = nextSummary,
               \A p \in Procs : call'[p].victims \subseteq call[p].victims
        PROVE  PendingTrims'
    BY <1>0 DEF PendingTrims, Table, RowsOf, Ahead
  <1>1. CASE UNCHANGED vars
    BY <1>0, <1>1 DEF vars, dbVars
  <1>2. CASE Tick
    BY <1>0, <1>2 DEF Tick, dbVars
  <1>3. ASSUME NEW p \in Procs, Step(p) PROVE PendingTrims'
    <2>1. CASE StoreSummary(p) /\ UNCHANGED <<summaries, nextSummary>>
      BY <1>0, <2>1 DEF StoreSummary
    <2>2. CASE StoreSummary(p) /\ ~UNCHANGED <<summaries, nextSummary>>
      <3> DEFINE new == [id |-> nextSummary, ctx |-> CtxOf[p], timestamp |-> call[p].at]
      <3>1. summaries' = summaries \union {new} /\ nextSummary' = nextSummary + 1 /\ call' = call
        BY <2>2 DEF StoreSummary
      <3>2. new \in SummaryRows /\ new.id = nextSummary
        BY <1>a DEF SummaryRows, Locals
      <3> HIDE DEF new
      <3>3. \A s \in summaries : s.id \in Nat /\ s.id < nextSummary
        BY DEF PendingTrims, Table, SummaryRows
      <3>4. Table(summaries')
        <4>1. IsFiniteSet(summaries')
          BY <3>1, FS_AddElement DEF PendingTrims, Table
        <4>2. \A s, t \in summaries' : s.id = t.id => s = t
          BY <3>1, <3>2, <3>3 DEF PendingTrims, Table
        <4> QED
          BY <4>1, <4>2, <3>1, <3>2 DEF PendingTrims, Table
      <3>5. \A s \in summaries' : s.id < nextSummary'
        BY <1>a, <3>1, <3>2, <3>3
      <3>6. \A q \in Procs : call[q].victims \subseteq Nat
        BY <1>a DEF Locals
      <3>7. \A q \in Procs : \A i \in call'[q].victims : i < nextSummary'
        BY <1>a, <3>1, <3>6 DEF PendingTrims
      <3>8. ASSUME NEW q \in Procs, NEW s \in summaries', s.id \in call'[q].victims
            PROVE  /\ s.ctx = CtxOf[q]
                   /\ Cardinality(Ahead(RowsOf(summaries', s.ctx), s)) >= RLM_MAX_SUMMARIES
        <4>1. s \in summaries
          <5>1. s.id \in Nat /\ s.id < nextSummary
            BY <3>1, <3>6, <3>8 DEF PendingTrims
          <5> QED
            BY <1>a, <3>1, <3>2, <5>1
        <4>2. /\ s.ctx = CtxOf[q]
              /\ Cardinality(Ahead(RowsOf(summaries, s.ctx), s)) >= RLM_MAX_SUMMARIES
          BY <3>1, <3>8, <4>1 DEF PendingTrims
        <4>3. IsFiniteSet(RowsOf(summaries', s.ctx))
          BY <3>4, ContextIsTable DEF Table
        <4>4. Ahead(RowsOf(summaries, s.ctx), s) \subseteq RowsOf(summaries', s.ctx)
          BY <3>1 DEF Ahead, RowsOf
        <4>5. Cardinality(Ahead(RowsOf(summaries, s.ctx), s))
                <= Cardinality(Ahead(RowsOf(summaries', s.ctx), s))
          BY <1>b, <4>3, <4>4, AheadStays DEF Table
        <4> QED
          BY <1>a, <1>b, <4>2, <4>3, <4>5, AheadFinite DEF Table
      <3> QED
        BY <3>4, <3>5, <3>7, <3>8 DEF PendingTrims
    <2>3. CASE RankSummaries(p)
      <3> DEFINE victims == Newest(Surplus(CtxOf[p]), TrimBatch)
      <3>1. /\ summaries' = summaries /\ nextSummary' = nextSummary
            /\ \A q \in Procs : q # p => call'[q] = call[q]
            /\ call'[p].victims \subseteq Ids(victims)
        BY <2>3, <1>a DEF RankSummaries, Return, NoCall, Locals, dbVars
      <3>2. victims \subseteq Surplus(CtxOf[p])
        BY RowsAreRows
      <3> HIDE DEF victims
      <3>3. ASSUME NEW i \in Ids(victims) PROVE i < nextSummary
        BY <3>2, <3>3, SurplusIsBehind DEF Ids, PendingTrims
      <3>4. ASSUME NEW s \in summaries, s.id \in Ids(victims)
            PROVE  /\ s.ctx = CtxOf[p]
                   /\ Cardinality(Ahead(RowsOf(summaries, s.ctx), s)) >= RLM_MAX_SUMMARIES
        <4>1. PICK t \in victims : s.id = t.id
          BY <3>4 DEF Ids
        <4>2. t \in Surplus(CtxOf[p]) /\ t \in summaries
          BY <3>2, <4>1, SurplusIsBehind DEF PendingTrims
        <4>3. s = t
          BY <4>1, <4>2 DEF PendingTrims, Table
        <4> QED
          BY <4>2, <4>3, SurplusIsBehind DEF PendingTrims
      <3>5. \A q \in Procs : \A i \in call'[q].victims :
              i \in call[q].victims \/ (q = p /\ i \in Ids(victims))
        BY <3>1
      <3> QED
        BY <3>1, <3>3, <3>4, <3>5 DEF PendingTrims, Table, RowsOf, Ahead
    <2>4. CASE TrimSummaries(p)
      <3>1. /\ summaries' \subseteq summaries /\ nextSummary' = nextSummary
            /\ \A q \in Procs : call'[q].victims \subseteq call[q].victims
        BY <2>4, <1>a DEF TrimSummaries, Return, NoCall, Locals
      <3>2. Table(summaries')
        BY <3>1, FS_Subset DEF PendingTrims, Table
      <3>3. ASSUME NEW q \in Procs, NEW s \in summaries', s.id \in call'[q].victims
            PROVE  /\ s.ctx = CtxOf[q]
                   /\ Cardinality(Ahead(RowsOf(summaries', s.ctx), s)) >= RLM_MAX_SUMMARIES
        <4> DEFINE mine == RowsOf(summaries, s.ctx)
                   N == Newest(mine, RLM_MAX_SUMMARIES)
        <4>1. s.ctx = CtxOf[q] /\ Cardinality(Ahead(mine, s)) >= RLM_MAX_SUMMARIES /\ s \in mine
          BY <3>1, <3>3 DEF PendingTrims, RowsOf
        <4>2. N \subseteq Ahead(mine, s) /\ Cardinality(N) >= RLM_MAX_SUMMARIES
          <5> HIDE DEF mine
          <5> QED
            BY <1>a, <1>b, <4>1, NewestAreAhead DEF mine
        <4>3. N \subseteq RowsOf(summaries', s.ctx)
          BY <2>4, TrimKeepsNewest
        <4>4. N \in SUBSET Ahead(RowsOf(summaries', s.ctx), s)
          BY <4>2, <4>3 DEF Ahead
        <4>5. /\ IsFiniteSet(Ahead(RowsOf(summaries', s.ctx), s))
              /\ Cardinality(Ahead(RowsOf(summaries', s.ctx), s)) \in Nat
          BY <3>2, ContextIsTable, AheadFinite DEF Table
        <4>6. Cardinality(N) <= Cardinality(Ahead(RowsOf(summaries', s.ctx), s))
              /\ Cardinality(N) \in Nat
          BY <4>4, <4>5, FS_Subset, FS_CardinalityType
        <4> QED
          BY <1>a, <4>1, <4>2, <4>5, <4>6
      <3> QED
        BY <3>1, <3>2, <3>3 DEF PendingTrims
    <2>5. ASSUME NEW t \in TokenSizes, Call(p, t) PROVE PendingTrims'
      <3>1. call'[p].victims = {} /\ \A q \in Procs : q # p => call'[q] = call[q]
        BY <2>5, <1>a DEF Call, NoCall
      <3> QED
        BY <1>0, <2>5, <3>1 DEF Call, dbVars
    <2>6. CASE CheckThreshold(p) \/ Crash(p)
      BY <1>0, <2>6, <1>a DEF CheckThreshold, Crash, Return, NoCall, dbVars
    <2>7. CASE Collect(p)
      BY <1>0, <2>7, <1>a DEF Collect, CollectRows, Locals, dbVars
    <2>8. CASE InsertExchange(p) \/ ClearExchanges(p)
      BY <1>0, <2>8 DEF InsertExchange, ClearExchanges
    <2> QED
      BY <1>3, <2>1, <2>2, <2>3, <2>4, <2>5, <2>6, <2>7, <2>8 DEF Step
  <1> QED
    BY <1>1, <1>2, <1>3 DEF Next

(* A step that removes a summary of a context leaves it the newest ones.   *)
LEMMA TrimLeavesNewest ==
  ASSUME TypeOK, PendingTrims, [Next]_vars, NEW c \in Contexts,
         RowsOf(summaries, c) \ RowsOf(summaries, c)' # {}
  PROVE  Cardinality(RowsOf(summaries, c)') >= RLM_MAX_SUMMARIES
  <1>1. PICK p \in Procs : TrimSummaries(p)
    <2>1. summaries \ summaries' # {}
      BY DEF RowsOf
    <2> QED
      BY <2>1 DEF Next, Step, Tick, Call, InsertExchange, CheckThreshold, Collect, CollectRows, StoreSummary,
         ClearExchanges, RankSummaries, Crash, dbVars, vars
  <1>2. PICK s \in RowsOf(summaries, c) : s \notin RowsOf(summaries', c)
    BY DEF RowsOf
  <1>3. s \in summaries /\ s.ctx = c /\ s.id \in call[p].victims
    BY <1>1, <1>2 DEF RowsOf, TrimSummaries
  <1>4. Cardinality(Ahead(RowsOf(summaries, c), s)) >= RLM_MAX_SUMMARIES
    BY <1>3 DEF PendingTrims
  <1>5. Cardinality(Newest(RowsOf(summaries, c), RLM_MAX_SUMMARIES)) >= RLM_MAX_SUMMARIES
    BY <1>2, <1>4, RlmAssumption, ContextIsTable, NewestAreAhead DEF PendingTrims
  <1>6. Newest(RowsOf(summaries, c), RLM_MAX_SUMMARIES) \in SUBSET RowsOf(summaries', c)
    BY <1>1, TrimKeepsNewest
  <1>7. IsFiniteSet(RowsOf(summaries', c))
    BY NextPendingTrims, ContextIsTable DEF PendingTrims, Table
  <1>8. /\ Cardinality(Newest(RowsOf(summaries, c), RLM_MAX_SUMMARIES)) <= Cardinality(RowsOf(summaries', c))
        /\ Cardinality(Newest(RowsOf(summaries, c), RLM_MAX_SUMMARIES)) \in Nat
        /\ Cardinality(RowsOf(summaries', c)) \in Nat
    BY <1>6, <1>7, FS_Subset, FS_CardinalityType
  <1>9. RowsOf(summaries, c)' = RowsOf(summaries', c)
    BY DEF RowsOf
  <1> QED
    BY <1>5, <1>8, <1>9, RlmAssumption

(* However many processes trim a context at once, whatever they read before *)
(* others wrote, no summary goes unless RLM_MAX_SUMMARIES of its context    *)
(* stay.                                                                   *)
THEOREM TrimsLeaveTheCap == Spec => TrimLeavesCap
  <1>1. Init => TypeOK /\ PendingTrims
    BY InitTypeOK, InitPendingTrims
  <1>2. TypeOK /\ PendingTrims /\ [Next]_vars => (TypeOK /\ PendingTrims)'
    BY NextTypeOK, NextPendingTrims
  <1>3. TypeOK /\ PendingTrims /\ [Next]_vars =>
          [\A c \in Contexts :
             RowsOf(summaries, c) \ RowsOf(summaries, c)' # {}
               => Cardinality(RowsOf(summaries, c)') >= RLM_MAX_SUMMARIES]_vars
    BY TrimLeavesNewest
  <1> QED
    BY <1>1, <1>2, <1>3, PTL DEF Spec, TrimLeavesCap

-----------------------------------------------------------------------------
(* Calls that run alone.                                                   *)

\* A call that nothing disturbed has every other process idle.
Undisturbed ==
  \A p \in Procs \ disturbed : pc[p] # "idle" => \A q \in Procs \ {p} : pc[q] = "idle"

\* Past its DELETE such a call has its context empty, and what it is about to
\* trim is what is surplus now.
LoneRows ==
  \A p \in Procs \ disturbed :
    /\ pc[p] \in {"rank", "trim"} => RowsOf(exchanges, CtxOf[p]) = {}
    /\ pc[p] = "trim" => call[p].victims = Ids(Newest(Surplus(CtxOf[p]), TrimBatch))

Lone == Undisturbed /\ LoneRows

\* Init establishes Lone.
LEMMA InitLone == Init => Lone
  BY DEF Init, Lone, Undisturbed, LoneRows

(* A call that begins leaves the calls in progress, and itself, disturbed. *)
LEMMA CallKeepsLone ==
  ASSUME TypeOK, Lone, NEW p \in Procs, NEW t \in TokenSizes, Call(p, t)
  PROVE  Lone'
  <1> DEFINE active == {q \in Procs \ {p} : pc[q] # "idle"}
  <1>1. /\ pc[p] = "idle" /\ pc'[p] = "insert"
        /\ \A q \in Procs : q # p => pc'[q] = pc[q]
        /\ disturbed' = IF active = {} THEN {} ELSE disturbed \union active \union {p}
    BY DEF Call, Goto, Begin, TypeOK
  <1>2. \A q \in Procs \ disturbed' : pc'[q] \notin {"rank", "trim"}
    BY <1>1
  <1>3. Undisturbed'
    <2>1. CASE active = {}
      BY <1>1, <2>1 DEF Undisturbed
    <2>2. CASE active # {}
      <3>1. \A q \in Procs \ disturbed' : pc'[q] = "idle"
        BY <1>1, <2>2
      <3> QED
        BY <3>1 DEF Undisturbed
    <2> QED
      BY <2>1, <2>2
  <1> QED
    BY <1>2, <1>3 DEF Lone, LoneRows

(* What a step of a call does beside its own process: nothing begins.      *)
LEMMA StepInCall ==
  ASSUME TypeOK, NEW p \in Procs, Step(p), ~ \E t \in TokenSizes : Call(p, t)
  PROVE  /\ pc[p] # "idle" /\ UNCHANGED overlaps
         /\ \A q \in Procs : q # p => pc'[q] = pc[q] /\ call'[q] = call[q]
  <1>1. pc \in [Procs -> Steps] /\ call \in [Procs -> Locals]
    BY DEF TypeOK
  <1> QED
    BY <1>1 DEF Step, InsertExchange, CheckThreshold, Collect, CollectRows, StoreSummary, ClearExchanges,
       RankSummaries, TrimSummaries, Crash, Return, Goto

(* Every step keeps Lone.                                                  *)
LEMMA NextLone ==
  ASSUME TypeOK, Lone, [Next]_vars
  PROVE  Lone'
  <1>a. pc \in [Procs -> Steps] /\ call \in [Procs -> Locals]
    BY DEF TypeOK
  <1>1. ASSUME UNCHANGED <<exchanges, summaries, pc, call, overlaps>> PROVE Lone'
    BY <1>1 DEF Lone, Undisturbed, LoneRows, RowsOf, Surplus, overlaps
  <1>2. CASE UNCHANGED vars
    BY <1>1, <1>2 DEF vars, dbVars
  <1>3. CASE Tick
    BY <1>1, <1>3 DEF Tick, dbVars
  <1>4. ASSUME NEW p \in Procs, Step(p), ~ \E t \in TokenSizes : Call(p, t) PROVE Lone'
    <2>1. /\ pc[p] # "idle" /\ disturbed' = disturbed
          /\ \A q \in Procs : q # p => pc'[q] = pc[q] /\ call'[q] = call[q]
      BY <1>4, StepInCall DEF overlaps
    <2>2. Undisturbed'
      BY <2>1 DEF Lone, Undisturbed
    <2>3. \A q \in Procs \ disturbed : q # p => pc[q] = "idle"
      BY <2>1 DEF Lone, Undisturbed
    <2>4. SUFFICES ASSUME p \notin disturbed, pc'[p] \in {"rank", "trim"}
                   PROVE  /\ RowsOf(exchanges', CtxOf[p]) = {}
                          /\ pc'[p] = "trim" => call'[p].victims = Ids(Newest(Surplus(CtxOf[p])', TrimBatch))
      BY <2>1, <2>2, <2>3 DEF Lone, LoneRows, RowsOf
    <2>5. ~Busy(p)
      BY <2>1, <2>4, NeverBusy DEF Lone, Undisturbed
    <2>6. CASE ClearExchanges(p)
      BY <2>5, <2>6, <1>a DEF ClearExchanges, Goto, RowsOf
    <2>7. CASE RankSummaries(p)
      <3>1. exchanges' = exchanges /\ summaries' = summaries /\ pc[p] = "rank"
        BY <2>7 DEF RankSummaries, dbVars
      <3>2. Surplus(CtxOf[p])' = Surplus(CtxOf[p])
        BY <3>1 DEF Surplus, RowsOf
      <3>3. call'[p].victims = Ids(Newest(Surplus(CtxOf[p]), TrimBatch))
        BY <2>4, <2>7, <1>a DEF RankSummaries, Return, Goto, Locals
      <3> QED
        BY <2>4, <3>1, <3>2, <3>3 DEF Lone, LoneRows, RowsOf
    <2>8. ClearExchanges(p) \/ RankSummaries(p)
      BY <1>4, <2>4, <1>a DEF Step, InsertExchange, CheckThreshold, Collect, CollectRows, StoreSummary,
         TrimSummaries, Crash, Return, Goto
    <2> QED
      BY <2>6, <2>7, <2>8
  <1> QED
    BY <1>2, <1>3, <1>4, CallKeepsLone DEF Next, Step

(* The sum over no rows is 0.                                              *)
LEMMA EmptyContextWithinBudget ==
  ASSUME NEW c, RowsOf(exchanges', c) = {}
  PROVE  ~OverBudget(c)'
  <1> DEFINE Folds(g) == g = [s \in SUBSET {} |->
                                IF s = {} THEN 0
                                ELSE LET x == CHOOSE x \in s : TRUE
                                     IN  x.tokens + g[s \ {x}]]
             sum == [s \in SUBSET {} |-> 0]
  <1>1. Folds(sum)
    OBVIOUS
  <1>2. (CHOOSE g : Folds(g))[{}] = 0
    <2>1. Folds(CHOOSE g : Folds(g))
      BY <1>1, Zenon
    <2> QED
      BY <2>1
  <1>3. TotalTokens(c)' = 0
    BY <1>2 DEF TotalTokens, TokensIn, MapThenSumSet, MapThenFoldSet, RowsOf
  <1> QED
    BY <1>3, RlmAssumption DEF OverBudget

(* A lone call that returns is within the budget: it found that, or it has *)
(* emptied its context.                                                    *)
LEMMA ReturnIsWithinBudget ==
  ASSUME TypeOK, Lone, NEW p \in Procs \ disturbed, Returns(p)
  PROVE  ~OverBudget(CtxOf[p])'
  <1>a. pc \in [Procs -> Steps]
    BY DEF TypeOK
  <1>1. CASE CheckThreshold(p)
    <2>1. ~OverBudget(CtxOf[p]) /\ exchanges' = exchanges
      BY <1>1, <1>a DEF Returns, CheckThreshold, Goto, dbVars
    <2>2. OverBudget(CtxOf[p])' = OverBudget(CtxOf[p])
      BY <2>1 DEF OverBudget, TotalTokens, TokensIn, MapThenSumSet, MapThenFoldSet, RowsOf
    <2> QED
      BY <2>1, <2>2
  <1>2. CASE RankSummaries(p) \/ TrimSummaries(p)
    <2>1. RowsOf(exchanges', CtxOf[p]) = {}
      BY <1>2 DEF RankSummaries, TrimSummaries, Lone, LoneRows, RowsOf, dbVars
    <2> QED
      BY <2>1, EmptyContextWithinBudget
  <1> QED
    BY <1>1, <1>2 DEF Returns

(* Whatever was left in the table before, by crashes, by refused writes or *)
(* by calls that overlapped, a call that runs alone leaves its context     *)
(* within the budget.                                                      *)
THEOREM LoneCallsReturnWithinBudget == Spec => ReturnsWithinBudget
  <1>1. Init => TypeOK /\ Lone
    BY InitTypeOK, InitLone
  <1>2. TypeOK /\ Lone /\ [Next]_vars => (TypeOK /\ Lone)'
    BY NextTypeOK, NextLone
  <1>3. TypeOK /\ Lone /\ [Next]_vars =>
          [\A p \in Procs \ disturbed : Returns(p) => ~OverBudget(CtxOf[p])']_vars
    BY ReturnIsWithinBudget
  <1> QED
    BY <1>1, <1>2, <1>3, PTL DEF Spec, ReturnsWithinBudget

(* One batch is enough for a surplus of that size.                         *)
LEMMA BatchTakesAll ==
  ASSUME NEW S, Table(S), NEW n \in Nat, Cardinality(S) <= n
  PROVE  Newest(S, n) = S
  <1>1. ASSUME NEW r \in S PROVE Cardinality(Ahead(S, r)) < n
    <2>1. Ahead(S, r) \in SUBSET (S \ {r})
      BY NewestFirstTotal DEF Ahead
    <2>2. IsFiniteSet(S \ {r}) /\ Cardinality(S \ {r}) = Cardinality(S) - 1
      BY FS_RemoveElement DEF Table
    <2>3. Cardinality(Ahead(S, r)) <= Cardinality(S \ {r})
      BY <2>1, <2>2, FS_Subset
    <2> QED
      BY <2>2, <2>3, AheadFinite, FS_CardinalityType DEF Table
  <1> QED
    BY <1>1 DEF Newest, Ahead

(* If it takes none, there is no surplus.                                  *)
LEMMA BatchTakesSome ==
  ASSUME NEW S, Table(S), NEW n \in Nat \ {0}, Newest(S, n) = {}
  PROVE  S = {}
  <1> SUFFICES ASSUME NEW r \in S PROVE FALSE
    OBVIOUS
  <1>1. Cardinality(Newest(S, n)) >= n
    BY NewestAtLeast
  <1> QED
    BY <1>1, FS_EmptySet

(* A lone call that trims, or finds nothing to trim, leaves at most        *)
(* RLM_MAX_SUMMARIES summaries of its context.                             *)
LEMMA TrimIsWithinCap ==
  ASSUME TypeOK, Lone, PendingTrims, [Next]_vars, NEW p \in Procs \ disturbed,
         pc[p] \in {"rank", "trim"}, Returns(p),
         Cardinality(RowsOf(summaries, CtxOf[p])) <= RLM_MAX_SUMMARIES + TrimBatch
  PROVE  Cardinality(RowsOf(summaries, CtxOf[p])') <= RLM_MAX_SUMMARIES
  <1> DEFINE mine == RowsOf(summaries, CtxOf[p])
             top == Newest(mine, RLM_MAX_SUMMARIES)
             rest == Surplus(CtxOf[p])
  <1>a. /\ pc \in [Procs -> Steps] /\ RLM_MAX_SUMMARIES \in Nat /\ TrimBatch \in Nat \ {0}
        /\ Table(mine)
    BY RlmAssumption, ContextIsTable DEF TypeOK, PendingTrims
  <1>b. rest = mine \ top /\ top \in SUBSET mine
    BY RowsAreRows DEF Surplus
  <1>c. Table(rest)
    <2>1. rest \in SUBSET mine
      BY <1>b
    <2> QED
      BY <1>a, <2>1, FS_Subset DEF Table
  <1>d. Cardinality(top) <= RLM_MAX_SUMMARIES /\ IsFiniteSet(top) /\ Cardinality(top) \in Nat
    <2> HIDE DEF mine
    <2> QED
      BY <1>a, <1>b, NewestAtMost, FS_Subset, FS_CardinalityType DEF Table
  <1>1. SUFFICES RowsOf(summaries', CtxOf[p]) \subseteq top
    <2>1. RowsOf(summaries', CtxOf[p]) \in SUBSET top
      BY <1>1
    <2>2. /\ Cardinality(RowsOf(summaries', CtxOf[p])) <= Cardinality(top)
          /\ Cardinality(RowsOf(summaries', CtxOf[p])) \in Nat
      BY <2>1, <1>d, FS_Subset, FS_CardinalityType
    <2>3. RowsOf(summaries, CtxOf[p])' = RowsOf(summaries', CtxOf[p])
      BY DEF RowsOf
    <2> QED
      BY <2>2, <2>3, <1>a, <1>d
  <1>2. CASE RankSummaries(p)
    <2>1. Newest(rest, TrimBatch) = {} /\ summaries' = summaries
      BY <1>2, <1>a DEF Returns, RankSummaries, Goto, dbVars
    <2>2. rest = {}
      <3> HIDE DEF rest
      <3> QED
        BY <1>a, <1>c, <2>1, BatchTakesSome
    <2> QED
      BY <1>b, <2>1, <2>2
  <1>3. CASE TrimSummaries(p)
    <2>1. Cardinality(rest) <= TrimBatch
      <3>1. CASE rest = {}
        BY <1>a, <3>1, FS_EmptySet
      <3>2. CASE rest # {}
        <4>1. PICK r \in mine : r \notin top
          BY <3>2, <1>b
        <4>2. Cardinality(top) >= RLM_MAX_SUMMARIES
          <5> HIDE DEF mine
          <5> QED
            BY <1>a, <4>1, NewestAtLeast
        <4>3. mine \cap top = top
          BY <1>b
        <4>4. Cardinality(rest) = Cardinality(mine) - Cardinality(top) /\ Cardinality(mine) \in Nat
          <5> HIDE DEF mine, rest, top
          <5> QED
            BY <1>a, <1>b, <4>3, FS_Difference, FS_CardinalityType DEF Table
        <4> QED
          BY <4>2, <4>4, <1>a, <1>d
      <3> QED
        BY <3>1, <3>2
    <2>2. Newest(rest, TrimBatch) = rest
      <3> HIDE DEF rest
      <3> QED
        BY <1>a, <1>c, <2>1, BatchTakesAll
    <2>3. call[p].victims = Ids(rest)
      BY <1>3, <2>2 DEF TrimSummaries, Lone, LoneRows
    <2>4. ~Busy(p)
      BY <1>3, NeverBusy DEF TrimSummaries, Lone, Undisturbed
    <2>5. summaries' = {s \in summaries : s.id \notin Ids(rest)}
      BY <1>3, <2>3, <2>4 DEF TrimSummaries
    <2> QED
      BY <1>b, <2>5 DEF Ids, RowsOf
  <1>4. ~CheckThreshold(p)
    BY DEF CheckThreshold
  <1> QED
    BY <1>2, <1>3, <1>4 DEF Returns

(* Whatever crashes and overlapping calls left before it, a lone trim      *)
(* brings up to one batch too many back to the cap.                        *)
THEOREM LoneTrimsRestoreTheCap == Spec => TrimRestoresCap
  <1>1. Init => TypeOK /\ Lone /\ PendingTrims
    BY InitTypeOK, InitLone, InitPendingTrims
  <1>2. TypeOK /\ Lone /\ PendingTrims /\ [Next]_vars => (TypeOK /\ Lone /\ PendingTrims)'
    BY NextTypeOK, NextLone, NextPendingTrims
  <1>3. TypeOK /\ Lone /\ PendingTrims /\ [Next]_vars =>
          [\A p \in Procs \ disturbed :
             /\ pc[p] \in {"rank", "trim"} /\ Returns(p)
             /\ Cardinality(RowsOf(summaries, CtxOf[p])) <= RLM_MAX_SUMMARIES + TrimBatch
             => Cardinality(RowsOf(summaries, CtxOf[p])') <= RLM_MAX_SUMMARIES]_vars
    BY TrimIsWithinCap
  <1> QED
    BY <1>1, <1>2, <1>3, PTL DEF Spec, TrimRestoresCap
=============================================================================
