--------------------------- MODULE WubuObs_proofs ---------------------------
(***************************************************************************)
(* For any scenes, any number of repetitions, calls, crashes and deaths: a *)
(* call that returned was carried out and its effect stays.  The argument  *)
(* is one about order: OBS serves requests in the order of their ids, so   *)
(* when the answer to the newest id is there, nothing is left in the queue *)
(* that could undo it, whatever was sent before and given up.              *)
(***************************************************************************)
EXTENDS WubuObs, SequenceTheorems, FiniteSetTheorems, TLAPS

RequestsUpTo(n) == [id : 1..n, what : Requests, open : BOOLEAN]
AnswersUpTo(n) == [id : 1..n, ok : BOOLEAN]

\* The part of the state that the bounds and the order of ids are about.
Typed ==
  /\ up \in BOOLEAN /\ scene \in Scenes /\ muted \in BOOLEAN /\ recording \in BOOLEAN
  /\ msgId \in Nat
  /\ queue \in Seq(RequestsUpTo(msgId))
  /\ inbox \in Seq(AnswersUpTo(msgId))
  /\ ws \in {"none", "open", "dead"}
  /\ pc \in {"idle", "send", "recv"}
  /\ request \in Requests
  /\ attempt \in 0..(MaxRetries + 1)
  /\ since \in 0..msgId
  /\ carried \in Nat
  /\ last \in Seq(Requests) /\ lost \in BOOLEAN

\* An answer is awaited only for a request of this call, within its attempts.
Awaiting == pc = "recv" => since < msgId /\ attempt <= MaxRetries

\* OBS looks at requests in the order of their ids.
InOrder == \A i, j \in DOMAIN queue : i < j => queue[i].id < queue[j].id

\* What is answered came before what is not.
AnsweredFirst ==
  \A i \in DOMAIN inbox, j \in DOMAIN queue : inbox[i].id < queue[j].id

\* The newest id is that of the request the client waits for.
NewestIsAwaited ==
  pc = "recv" => \A j \in DOMAIN queue : queue[j].id = msgId => queue[j].what = request

\* Once the awaited request is granted, it is carried out.
GrantedHolds ==
  pc = "recv" =>
    \A i \in DOMAIN inbox :
      inbox[i].id = msgId /\ inbox[i].ok => carried > 0 /\ (lost \/ Holds(request))

\* Between a return and the next call nothing is left to serve.
Settled ==
  last # <<>> => /\ pc = "idle" /\ queue = <<>>
                 /\ carried > 0 /\ (lost \/ Holds(last[1]))

IInv ==
  /\ Typed /\ Awaiting /\ InOrder /\ AnsweredFirst
  /\ NewestIsAwaited /\ GrantedHolds /\ Settled

-----------------------------------------------------------------------------
(* Sequences of requests and answers *)

LEMMA SeqSuperset ==
  ASSUME NEW S, NEW T, S \subseteq T, NEW q \in Seq(S)
  PROVE  q \in Seq(T)
  BY SMT

LEMMA MoreIds ==
  ASSUME NEW n \in Nat
  PROVE  /\ Seq(RequestsUpTo(n)) \subseteq Seq(RequestsUpTo(n + 1))
         /\ Seq(AnswersUpTo(n)) \subseteq Seq(AnswersUpTo(n + 1))
  <1>1. 1..n \subseteq 1..(n + 1)
    OBVIOUS
  <1>2. RequestsUpTo(n) \subseteq RequestsUpTo(n + 1) /\ AnswersUpTo(n) \subseteq AnswersUpTo(n + 1)
    BY <1>1 DEF RequestsUpTo, AnswersUpTo
  <1> QED
    BY <1>2, SeqSuperset

LEMMA IdsGiven ==
  ASSUME Typed
  PROVE  /\ \A j \in DOMAIN queue : queue[j].id \in Int /\ queue[j].id <= msgId
         /\ \A i \in DOMAIN inbox : inbox[i].id \in Int /\ inbox[i].id <= msgId
  <1>1. msgId \in Nat
    BY DEF Typed
  <1>2. \A j \in DOMAIN queue : queue[j] \in RequestsUpTo(msgId)
    BY DEF Typed
  <1>3. \A i \in DOMAIN inbox : inbox[i] \in AnswersUpTo(msgId)
    BY DEF Typed
  <1>4. \A x \in 1..msgId : x \in Int /\ x <= msgId
    BY <1>1
  <1>5. \A r \in RequestsUpTo(msgId) : r.id \in 1..msgId
    BY DEF RequestsUpTo
  <1>6. \A a \in AnswersUpTo(msgId) : a.id \in 1..msgId
    BY DEF AnswersUpTo
  <1> QED
    BY <1>2, <1>3, <1>4, <1>5, <1>6

LEMMA OrphanedKeepsRequests ==
  ASSUME NEW n \in Nat, NEW q \in Seq(RequestsUpTo(n))
  PROVE  /\ Orphaned(q) \in Seq(RequestsUpTo(n))
         /\ DOMAIN Orphaned(q) = DOMAIN q
         /\ \A i \in DOMAIN q : Orphaned(q)[i].id = q[i].id /\ Orphaned(q)[i].what = q[i].what
         /\ q = <<>> => Orphaned(q) = <<>>
  <1>1. \A i \in DOMAIN q : q[i] \in RequestsUpTo(n)
    OBVIOUS
  <1>2. \A i \in DOMAIN q :
          /\ Orphaned(q)[i] \in RequestsUpTo(n)
          /\ Orphaned(q)[i].id = q[i].id /\ Orphaned(q)[i].what = q[i].what
    BY <1>1 DEF Orphaned, RequestsUpTo
  <1>3. DOMAIN q = 1..Len(q) /\ Len(q) \in Nat /\ DOMAIN Orphaned(q) = DOMAIN q
    BY DEF Orphaned
  <1>4. Orphaned(q) = [i \in 1..Len(q) |-> Orphaned(q)[i]]
    BY <1>3 DEF Orphaned
  <1>5. Orphaned(q) \in Seq(RequestsUpTo(n)) /\ Len(Orphaned(q)) = Len(q)
    BY <1>2, <1>3, <1>4
  <1>6. q = <<>> => Orphaned(q) = <<>>
    BY <1>3, <1>5
  <1> QED
    BY <1>2, <1>3, <1>5, <1>6

-----------------------------------------------------------------------------
(* The invariant is inductive *)

LEMMA InitIInv == Init => IInv
  <1> SUFFICES ASSUME Init PROVE IInv
    OBVIOUS
  <1>1. Typed
    <2>1. /\ queue \in Seq(RequestsUpTo(msgId)) /\ inbox \in Seq(AnswersUpTo(msgId))
          /\ last \in Seq(Requests)
      BY DEF Init
    <2>2. up \in BOOLEAN /\ muted \in BOOLEAN /\ recording \in BOOLEAN /\ lost \in BOOLEAN
      BY DEF Init
    <2>3. request \in Requests /\ scene \in Scenes
      BY DEF Init, Requests, Commands
    <2>4. msgId \in Nat /\ attempt \in 0..(MaxRetries + 1) /\ since \in 0..msgId /\ carried \in Nat
      BY ObsAssumption DEF Init
    <2> QED
      BY <2>1, <2>2, <2>3, <2>4 DEF Init, Typed
  <1>2. DOMAIN queue = {} /\ DOMAIN inbox = {}
    BY DEF Init
  <1> QED
    BY <1>1, <1>2 DEF Init, IInv, Awaiting, InOrder, AnsweredFirst, NewestIsAwaited,
      GrantedHolds, Settled

\* The connection goes: what the invariant says of queue and inbox stays, as
\* far as there is something left of them.
Narrowed ==
  /\ queue' \in Seq(RequestsUpTo(msgId)) /\ inbox' \in Seq(AnswersUpTo(msgId))
  /\ DOMAIN queue' \subseteq DOMAIN queue /\ DOMAIN inbox' \subseteq DOMAIN inbox
  /\ \A j \in DOMAIN queue' : queue'[j].id = queue[j].id /\ queue'[j].what = queue[j].what
  /\ \A i \in DOMAIN inbox' : inbox'[i] = inbox[i]
  /\ queue = <<>> => queue' = <<>>

LEMMA ReconnectNarrows ==
  ASSUME Typed, NEW done \in BOOLEAN, Reconnect(done)
  PROVE  Narrowed /\ ws' \in {"none", "open"}
  <1>1. queue' = Orphaned(queue) /\ inbox' = <<>> /\ ws' \in {"none", "open"}
    BY DEF Reconnect
  <1>2. inbox' \in Seq(AnswersUpTo(msgId)) /\ DOMAIN inbox' = {}
    BY <1>1
  <1> QED
    BY <1>1, <1>2, OrphanedKeepsRequests DEF Typed, Narrowed

LEMMA BrokenNarrows ==
  ASSUME Typed, Broken, queue' = Orphaned(queue) \/ queue' = <<>>
  PROVE  Narrowed /\ ws' \in {"none", "dead"}
  <1>1. PICK n \in 0..Len(inbox) : inbox' = SubSeq(inbox, 1, n)
    BY DEF Broken
  <1>2. /\ inbox' \in Seq(AnswersUpTo(msgId)) /\ DOMAIN inbox' \subseteq DOMAIN inbox
        /\ \A i \in DOMAIN inbox' : inbox'[i] = inbox[i]
    BY <1>1 DEF Typed
  <1>3. CASE queue' = Orphaned(queue)
    BY <1>2, <1>3, OrphanedKeepsRequests DEF Broken, Typed, Narrowed
  <1>4. CASE queue' = <<>>
    <2>1. queue' \in Seq(RequestsUpTo(msgId)) /\ DOMAIN queue' = {}
      BY <1>4
    <2> QED
      BY <1>2, <1>4, <2>1 DEF Broken, Narrowed
  <1> QED
    BY <1>3, <1>4

\* A step that only narrows the connection, and repeats or waits.
LEMMA NarrowedKeeps ==
  ASSUME IInv, Narrowed,
         UNCHANGED <<scene, muted, recording, msgId, request, since, carried, last, lost>>,
         up' \in BOOLEAN, ws' \in {"none", "open", "dead"},
         \/ UNCHANGED <<pc, attempt>>
         \/ Retry /\ pc # "idle" /\ attempt <= MaxRetries
  PROVE  IInv'
  <1>1. /\ pc' \in {"idle", "send", "recv"} /\ attempt' \in 0..(MaxRetries + 1)
        /\ pc' = "recv" => pc = "recv" /\ attempt' = attempt
        /\ pc = "idle" => pc' = "idle"
    BY ObsAssumption DEF IInv, Typed, Retry
  <1>2. Typed'
    BY <1>1 DEF IInv, Typed, Narrowed
  <1>3. Awaiting' /\ NewestIsAwaited'
    BY <1>1 DEF IInv, Awaiting, NewestIsAwaited, Narrowed
  <1>4. InOrder' /\ AnsweredFirst'
    BY DEF IInv, InOrder, AnsweredFirst, Narrowed
  <1>5. GrantedHolds'
    BY <1>1 DEF IInv, GrantedHolds, Narrowed, Holds
  <1>6. Settled'
    BY <1>1 DEF IInv, Settled, Narrowed, Holds
  <1> QED
    BY <1>2, <1>3, <1>4, <1>5, <1>6 DEF IInv

LEMMA BeginKeeps == IInv /\ Begin => IInv'
  <1> SUFFICES ASSUME IInv, Begin PROVE IInv'
    OBVIOUS
  <1>1. pc' = "send" /\ last' = <<>> /\ UNCHANGED <<queue, inbox, msgId>>
    BY DEF Begin, obsVars
  <1>2. request' \in Requests /\ attempt' \in 0..(MaxRetries + 1)
    BY ObsAssumption DEF Begin, Requests, Commands
  <1>3. since' \in 0..msgId' /\ carried' \in Nat /\ lost' \in BOOLEAN /\ last' \in Seq(Requests)
    <2>1. msgId \in Nat /\ since' = msgId /\ msgId' = msgId /\ carried' = 0
      BY <1>1 DEF Begin, IInv, Typed
    <2>2. since' \in 0..msgId' /\ carried' \in Nat
      BY <2>1
    <2>3. lost' \in BOOLEAN
      BY DEF Begin
    <2>4. last' \in Seq(Requests)
      BY <1>1
    <2> QED
      BY <2>2, <2>3, <2>4
  <1>4. Typed'
    BY <1>1, <1>2, <1>3 DEF Begin, IInv, Typed, obsVars
  <1> QED
    BY <1>1, <1>4 DEF IInv, Awaiting, InOrder, AnsweredFirst, NewestIsAwaited, GrantedHolds, Settled

LEMMA SendKeeps == IInv /\ Send => IInv'
  <1> SUFFICES ASSUME IInv, Send PROVE IInv'
    OBVIOUS
  <1> DEFINE r == [id |-> msgId + 1, what |-> request, open |-> TRUE]
  <1>1. /\ pc = "send" /\ pc' = "recv" /\ msgId' = msgId + 1 /\ attempt <= MaxRetries
        /\ UNCHANGED <<up, scene, muted, recording, ws, inbox, request, attempt, since, carried, last, lost>>
        /\ queue' = Append(queue, r) \/ queue' = queue
    BY DEF Send, history
  <1>2. r \in RequestsUpTo(msgId + 1) /\ r.id = msgId + 1 /\ r.what = request
    BY DEF IInv, Typed, RequestsUpTo
  <1>3. queue \in Seq(RequestsUpTo(msgId + 1)) /\ inbox \in Seq(AnswersUpTo(msgId + 1))
    BY MoreIds DEF IInv, Typed
  <1>4. /\ Append(queue, r) \in Seq(RequestsUpTo(msgId + 1))
        /\ DOMAIN Append(queue, r) = 1..(Len(queue) + 1)
        /\ \A j \in 1..Len(queue) : Append(queue, r)[j] = queue[j]
        /\ Append(queue, r)[Len(queue) + 1] = r
    BY <1>2, <1>3
  <1>5. Len(queue) \in Nat /\ DOMAIN queue = 1..Len(queue)
    BY <1>3
  <1>6. \A j \in DOMAIN queue : queue[j].id \in Int /\ queue[j].id <= msgId
    BY IdsGiven DEF IInv
  <1>7. \A i \in DOMAIN inbox : inbox[i].id \in Int /\ inbox[i].id <= msgId
    BY IdsGiven DEF IInv
  <1>8. msgId \in Nat /\ since \in 0..msgId
    BY DEF IInv, Typed
  <1> HIDE DEF r
  <1>9. \A j \in DOMAIN queue' :
          \/ j \in DOMAIN queue /\ queue'[j] = queue[j]
          \/ j = Len(queue) + 1 /\ queue'[j] = r
    BY <1>1, <1>4, <1>5
  <1>10. Typed'
    <2>1. queue' \in Seq(RequestsUpTo(msgId')) /\ inbox' \in Seq(AnswersUpTo(msgId'))
      BY <1>1, <1>3, <1>4
    <2>2. msgId' \in Nat /\ since' \in 0..msgId'
      BY <1>1, <1>8
    <2> QED
      BY <1>1, <2>1, <2>2 DEF IInv, Typed
  <1>11. Awaiting'
    BY <1>1, <1>8 DEF Awaiting
  <1>12. InOrder'
    BY <1>2, <1>5, <1>6, <1>8, <1>9 DEF IInv, InOrder
  <1>13. AnsweredFirst'
    BY <1>1, <1>2, <1>7, <1>8, <1>9 DEF IInv, AnsweredFirst
  <1>14. NewestIsAwaited'
    BY <1>1, <1>2, <1>6, <1>8, <1>9 DEF NewestIsAwaited
  <1>15. GrantedHolds'
    BY <1>1, <1>7, <1>8 DEF GrantedHolds
  <1>16. Settled'
    BY <1>1 DEF IInv, Settled
  <1> QED
    BY <1>10, <1>11, <1>12, <1>13, <1>14, <1>15, <1>16 DEF IInv

LEMMA SendFailsKeeps == IInv /\ SendFails => IInv'
  <1> SUFFICES ASSUME IInv, SendFails PROVE IInv'
    OBVIOUS
  <1>1. /\ pc = "send" /\ pc' = "send" /\ attempt' = attempt + 1 /\ attempt <= MaxRetries
        /\ msgId' = msgId + 1
        /\ UNCHANGED <<up, scene, muted, recording, queue, ws, inbox, request, since, carried, last, lost>>
    BY DEF SendFails, Retry, history, obsVars
  <1>2. queue \in Seq(RequestsUpTo(msgId + 1)) /\ inbox \in Seq(AnswersUpTo(msgId + 1))
    BY MoreIds DEF IInv, Typed
  <1>3. attempt' \in 0..(MaxRetries + 1) /\ since' \in 0..msgId'
    BY <1>1, ObsAssumption DEF IInv, Typed
  <1>4. Typed'
    BY <1>1, <1>2, <1>3 DEF IInv, Typed
  <1> QED
    BY <1>1, <1>4 DEF IInv, Awaiting, InOrder, AnsweredFirst, NewestIsAwaited, GrantedHolds, Settled

LEMMA ReceiveKeeps == IInv /\ Receive => IInv'
  <1> SUFFICES ASSUME IInv, Receive PROVE IInv'
    OBVIOUS
  <1> DEFINE answer == Head(inbox)
  <1>1. /\ pc = "recv" /\ inbox # <<>> /\ inbox' = Tail(inbox)
        /\ UNCHANGED <<up, scene, muted, recording, queue, ws, msgId>>
        /\ Unanswered(answer) \/ Continue(answer) \/ Return(answer)
    BY DEF Receive, obsVars
  <1>2. /\ inbox \in Seq(AnswersUpTo(msgId)) /\ Len(inbox) \in Nat \ {0}
        /\ DOMAIN inbox = 1..Len(inbox) /\ answer = inbox[1]
        /\ inbox' \in Seq(AnswersUpTo(msgId)) /\ DOMAIN inbox' = 1..(Len(inbox) - 1)
        /\ \A i \in 1..(Len(inbox) - 1) : inbox'[i] = inbox[i + 1]
    BY <1>1 DEF IInv, Typed
  <1>3. 1 \in DOMAIN inbox /\ \A i \in DOMAIN inbox' : i + 1 \in DOMAIN inbox
    BY <1>2
  <1> HIDE DEF answer
  <1>4. /\ pc' \in {"idle", "send", "recv"}
        /\ pc' = "recv" => UNCHANGED <<request, attempt, since, carried, lost, last>>
    BY <1>1 DEF Unanswered, Ignore, Refused, Continue, Return, Retry, history, IInv, Typed
  <1>5. attempt <= MaxRetries /\ since < msgId /\ last = <<>>
    BY <1>1 DEF IInv, Awaiting, Settled
  <1>6. /\ request' \in Requests /\ attempt' \in 0..(MaxRetries + 1)
        /\ since' \in 0..msgId /\ carried' \in Nat /\ lost' \in BOOLEAN /\ last' \in Seq(Requests)
    <2>1. /\ request \in Requests /\ attempt \in 0..(MaxRetries + 1) /\ msgId \in Nat
          /\ since \in 0..msgId /\ carried \in Nat /\ lost \in BOOLEAN /\ last \in Seq(Requests)
      BY DEF IInv, Typed
    <2>2. attempt + 1 \in 0..(MaxRetries + 1) /\ 0 \in 0..(MaxRetries + 1) /\ msgId \in 0..msgId
      BY <2>1, <1>5, ObsAssumption
    <2>3. CASE Unanswered(answer)
      BY <2>1, <2>2, <2>3 DEF Unanswered, Ignore, Refused, Retry, history
    <2>4. CASE Continue(answer)
      <3>1. request' \in Requests
        BY <2>4 DEF Continue, Requests, Commands
      <3>2. /\ attempt' = 0 /\ since' = msgId /\ carried' = 0 /\ lost' = FALSE /\ last' = last
        BY <2>4 DEF Continue
      <3> QED
        BY <2>1, <2>2, <3>1, <3>2
    <2>5. CASE Return(answer)
      <3>1. /\ last' = <<request>>
            /\ UNCHANGED <<request, attempt, since, carried, lost>>
        BY <2>5 DEF Return
      <3>2. last' \in Seq(Requests)
        BY <2>1, <3>1
      <3> QED
        BY <2>1, <3>1, <3>2
    <2> QED
      BY <1>1, <2>3, <2>4, <2>5
  <1>7. Typed'
    BY <1>1, <1>2, <1>4, <1>6 DEF IInv, Typed
  <1>8. Awaiting' /\ InOrder' /\ NewestIsAwaited'
    BY <1>1, <1>4, <1>5 DEF IInv, Awaiting, InOrder, NewestIsAwaited
  <1>9. AnsweredFirst'
    BY <1>1, <1>2, <1>3 DEF IInv, AnsweredFirst
  <1>10. GrantedHolds'
    BY <1>1, <1>2, <1>3, <1>4 DEF IInv, GrantedHolds, Holds
  <1>11. Settled'
    <2>1. CASE Return(answer)
      <3>1. /\ answer.id = msgId /\ answer.ok /\ pc' = "idle" /\ last' = <<request>>
            /\ UNCHANGED <<carried, lost>>
        BY <2>1 DEF Return, Expected
      <3>2. carried > 0 /\ (lost \/ Holds(request))
        BY <1>1, <1>2, <1>3, <3>1 DEF IInv, GrantedHolds
      <3>3. \A j \in DOMAIN queue : FALSE
        BY <1>2, <1>3, <3>1, IdsGiven DEF IInv, AnsweredFirst
      <3>4. queue = <<>>
        <4>1. queue \in Seq(RequestsUpTo(msgId)) /\ Len(queue) \in Nat /\ DOMAIN queue = 1..Len(queue)
          BY DEF IInv, Typed
        <4>2. Len(queue) = 0
          BY <3>3, <4>1
        <4> QED
          BY <4>1, <4>2
      <3>5. last'[1] = request
        BY <3>1
      <3> QED
        BY <1>1, <3>1, <3>2, <3>4, <3>5 DEF Settled, Holds
    <2>2. CASE Unanswered(answer) \/ Continue(answer)
      <3>1. last' = last
        BY <2>2 DEF Unanswered, Continue, history
      <3> QED
        BY <1>5, <3>1 DEF Settled
    <2> QED
      BY <1>1, <2>1, <2>2
  <1> QED
    BY <1>7, <1>8, <1>9, <1>10, <1>11 DEF IInv

\* What OBS carries out holds.
LEMMA EffectHolds ==
  ASSUME NEW what \in Requests, Effect(what), Typed
  PROVE  /\ Holds(what)'
         /\ scene' \in Scenes /\ muted' \in BOOLEAN /\ recording' \in BOOLEAN
  <1>1. what \notin Scenes \/ what \notin Commands
    BY ObsAssumption
  <1>2. scene' \in Scenes /\ muted' \in BOOLEAN /\ recording' \in BOOLEAN
    BY DEF Effect, Typed
  <1> QED
    BY <1>1, <1>2 DEF Effect, Holds, Commands

LEMMA ServeKeeps == IInv /\ Serve => IInv'
  <1> SUFFICES ASSUME IInv, Serve PROVE IInv'
    OBVIOUS
  <1> DEFINE r == Head(queue)
             ok == Accepts(r.what)
             answer == [id |-> r.id, ok |-> ok]
  <1>1. /\ queue # <<>> /\ queue' = Tail(queue)
        /\ UNCHANGED <<up, ws, msgId, pc, request, attempt, since, last, lost>>
        /\ Effect(r.what)
        /\ carried' = IF ok /\ r.id > since THEN carried + 1 ELSE carried
        /\ inbox' = IF r.open THEN Append(inbox, answer) ELSE inbox
    BY DEF Serve, clientVars
  <1>2. /\ queue \in Seq(RequestsUpTo(msgId)) /\ Len(queue) \in Nat \ {0}
        /\ DOMAIN queue = 1..Len(queue) /\ r = queue[1]
        /\ queue' \in Seq(RequestsUpTo(msgId)) /\ DOMAIN queue' = 1..(Len(queue) - 1)
        /\ \A j \in 1..(Len(queue) - 1) : queue'[j] = queue[j + 1]
    BY <1>1 DEF IInv, Typed
  <1>3. 1 \in DOMAIN queue /\ \A j \in DOMAIN queue' : j + 1 \in DOMAIN queue /\ 1 < j + 1
    BY <1>2
  <1>4. r \in RequestsUpTo(msgId)
    BY <1>2, <1>3
  <1>5. r.what \in Requests /\ r.id \in 1..msgId /\ r.open \in BOOLEAN
    BY <1>4 DEF RequestsUpTo
  <1>6. ok \in BOOLEAN
    BY DEF Accepts, IInv, Typed
  <1>7. /\ Len(inbox) \in Nat /\ DOMAIN inbox = 1..Len(inbox)
        /\ answer \in AnswersUpTo(msgId) /\ answer.id = r.id /\ answer.ok = ok
    BY <1>5, <1>6 DEF IInv, Typed, AnswersUpTo
  <1>8. carried \in Nat /\ carried' \in Nat /\ carried' >= carried
    BY <1>1 DEF IInv, Typed
  <1> HIDE DEF r, ok, answer
  <1>9. /\ inbox' \in Seq(AnswersUpTo(msgId))
        /\ \A i \in DOMAIN inbox' :
             \/ i \in DOMAIN inbox /\ inbox'[i] = inbox[i]
             \/ inbox'[i] = answer
    <2>1. CASE inbox' = Append(inbox, answer)
      BY <1>7, <2>1 DEF IInv, Typed
    <2>2. CASE inbox' = inbox
      BY <2>2 DEF IInv, Typed
    <2> QED
      BY <1>1, <2>1, <2>2
  <1>10. Typed'
    <2>1. scene' \in Scenes /\ muted' \in BOOLEAN /\ recording' \in BOOLEAN
      BY <1>1, <1>5, EffectHolds DEF IInv
    <2> QED
      BY <1>1, <1>2, <1>8, <1>9, <2>1 DEF IInv, Typed
  <1>11. Awaiting'
    BY <1>1 DEF IInv, Awaiting
  <1>12. InOrder'
    BY <1>2, <1>3 DEF IInv, InOrder
  <1>13. AnsweredFirst'
    <2>1. \A j \in DOMAIN queue' : r.id < queue'[j].id
      BY <1>2, <1>3 DEF IInv, InOrder
    <2>2. \A i \in DOMAIN inbox, j \in DOMAIN queue' : inbox[i].id < queue'[j].id
      BY <1>2, <1>3 DEF IInv, AnsweredFirst
    <2> QED
      BY <1>7, <1>9, <2>1, <2>2 DEF AnsweredFirst
  <1>14. NewestIsAwaited'
    BY <1>1, <1>2, <1>3 DEF IInv, NewestIsAwaited
  <1>15. GrantedHolds'
    <2> SUFFICES ASSUME pc = "recv", NEW i \in DOMAIN inbox', inbox'[i].id = msgId, inbox'[i].ok
                 PROVE  carried' > 0 /\ (lost' \/ Holds(request)')
      BY <1>1 DEF GrantedHolds
    <2>1. \A k \in DOMAIN inbox : inbox[k].id < r.id /\ r.id <= msgId
      BY <1>2, <1>3, <1>5 DEF IInv, AnsweredFirst
    <2>2. inbox'[i] = answer
      BY <1>5, <1>9, <2>1, IdsGiven DEF IInv
    <2>3. r.id = msgId /\ ok /\ r.what = request
      BY <1>2, <1>3, <1>7, <2>2 DEF IInv, NewestIsAwaited
    <2>4. carried' = carried + 1
      BY <1>1, <2>3 DEF IInv, Awaiting
    <2>5. Holds(request)'
      BY <1>1, <1>5, <2>3, EffectHolds DEF IInv, Holds
    <2> QED
      BY <1>8, <2>4, <2>5
  <1>16. Settled'
    BY <1>1 DEF IInv, Settled
  <1> QED
    BY <1>10, <1>11, <1>12, <1>13, <1>14, <1>15, <1>16 DEF IInv

LEMMA CrashKeeps == IInv /\ Crash => IInv'
  <1> SUFFICES ASSUME IInv, Crash PROVE IInv'
    OBVIOUS
  <1>1. /\ Narrowed /\ queue' = <<>> /\ ws' \in {"none", "open", "dead"}
        /\ lost' /\ lost' \in BOOLEAN
        /\ up' \in BOOLEAN /\ scene' \in Scenes /\ muted' \in BOOLEAN /\ recording' \in BOOLEAN
        /\ UNCHANGED <<msgId, pc, request, attempt, since, carried, last>>
    BY BrokenNarrows DEF Crash, IInv, clientVars
  <1>2. Typed'
    BY <1>1 DEF IInv, Typed, Narrowed
  <1>3. DOMAIN queue' = {}
    BY <1>1
  <1>4. Awaiting' /\ InOrder' /\ AnsweredFirst' /\ NewestIsAwaited'
    BY <1>1, <1>3 DEF IInv, Awaiting, InOrder, AnsweredFirst, NewestIsAwaited
  <1>5. GrantedHolds' /\ Settled'
    BY <1>1 DEF IInv, GrantedHolds, Settled, Narrowed
  <1> QED
    BY <1>2, <1>4, <1>5 DEF IInv

\* OBS drops the oldest request, of a connection that is closed.
LEMMA DropKeeps == IInv /\ Drop => IInv'
  <1> SUFFICES ASSUME IInv, Drop PROVE IInv'
    OBVIOUS
  <1>1. /\ queue # <<>> /\ queue' = Tail(queue)
        /\ UNCHANGED <<up, scene, muted, recording, ws, inbox, msgId, pc, request, attempt,
                       since, carried, last, lost>>
    BY DEF Drop, clientVars, history
  <1>2. /\ queue' \in Seq(RequestsUpTo(msgId)) /\ Len(queue) \in Nat \ {0}
        /\ DOMAIN queue = 1..Len(queue) /\ DOMAIN queue' = 1..(Len(queue) - 1)
        /\ \A j \in 1..(Len(queue) - 1) : queue'[j] = queue[j + 1]
    BY <1>1 DEF IInv, Typed
  <1>3. \A j \in DOMAIN queue' : j \in Int /\ j + 1 \in DOMAIN queue
    BY <1>2
  <1>4. Typed'
    BY <1>1, <1>2 DEF IInv, Typed
  <1>5. Awaiting' /\ InOrder' /\ AnsweredFirst' /\ NewestIsAwaited'
    BY <1>1, <1>2, <1>3 DEF IInv, Awaiting, InOrder, AnsweredFirst, NewestIsAwaited
  <1>6. GrantedHolds' /\ Settled'
    BY <1>1 DEF IInv, GrantedHolds, Settled, Holds
  <1> QED
    BY <1>4, <1>5, <1>6 DEF IInv

\* Steps that do nothing but close, open, break or time out.
LEMMA ConnectionKeeps ==
  ASSUME IInv, \/ Connect \/ Close \/ SendUnconnected \/ GiveUp \/ TimeOut
               \/ DeadlinePassed \/ ReceiveFails \/ Die \/ ComeUp
  PROVE  IInv'
  <1> DEFINE Same == UNCHANGED <<scene, muted, recording, msgId, request, since, carried, last, lost>>
             Goes == \/ UNCHANGED <<pc, attempt>>
                     \/ Retry /\ pc # "idle" /\ attempt <= MaxRetries
  <1>0. queue' = queue /\ inbox' = inbox => Narrowed
    BY DEF Narrowed, IInv, Typed
  <1>a. up \in BOOLEAN /\ ws \in {"none", "open", "dead"}
    BY DEF IInv, Typed
  <1>b. pc = "recv" => attempt <= MaxRetries
    BY DEF IInv, Awaiting
  <1>1. CASE Connect \/ Close
    BY <1>1, <1>a, ReconnectNarrows, NarrowedKeeps DEF Connect, Close, clientVars, history, IInv
  <1>2. CASE SendUnconnected
    <2>1. Narrowed /\ ws' \in {"none", "open"}
      BY <1>2, ReconnectNarrows DEF SendUnconnected, IInv
    <2>2. Same /\ Goes /\ up' = up
      BY <1>2 DEF SendUnconnected, history
    <2> QED
      BY <1>a, <2>1, <2>2, NarrowedKeeps
  <1>3. CASE GiveUp
    <2>1. /\ pc' = "idle" /\ last = <<>>
          /\ UNCHANGED <<up, scene, muted, recording, queue, ws, inbox, msgId, request, attempt,
                         since, carried, last, lost>>
      BY <1>3 DEF GiveUp, obsVars, history, IInv, Settled
    <2>2. Typed'
      BY <2>1 DEF IInv, Typed
    <2> QED
      BY <2>1, <2>2 DEF IInv, Awaiting, InOrder, AnsweredFirst, NewestIsAwaited, GrantedHolds, Settled
  <1>4. CASE TimeOut \/ ReceiveFails
    <2>1. Same /\ Goes /\ UNCHANGED <<up, ws, queue, inbox>>
      BY <1>4, <1>b DEF TimeOut, ReceiveFails, obsVars
    <2> QED
      BY <1>0, <1>a, <2>1, NarrowedKeeps
  <1>5. CASE DeadlinePassed
    <2>1. Narrowed /\ ws' \in {"none", "open"}
      BY <1>5, ReconnectNarrows DEF DeadlinePassed, IInv
    <2>2. Same /\ Goes /\ up' = up
      BY <1>5, <1>b DEF DeadlinePassed
    <2> QED
      BY <1>a, <2>1, <2>2, NarrowedKeeps
  <1>6. CASE Die
    <2>1. Narrowed /\ ws' \in {"none", "dead"}
      BY <1>6, BrokenNarrows DEF Die, IInv
    <2>2. Same /\ Goes /\ up' = up
      BY <1>6 DEF Die, clientVars, history
    <2> QED
      BY <1>a, <2>1, <2>2, NarrowedKeeps
  <1>7. CASE ComeUp
    <2>1. Same /\ Goes /\ up' \in BOOLEAN /\ UNCHANGED <<ws, queue, inbox>>
      BY <1>7 DEF ComeUp, clientVars, history
    <2> QED
      BY <1>0, <1>a, <2>1, NarrowedKeeps
  <1> QED
    BY <1>1, <1>2, <1>3, <1>4, <1>5, <1>6, <1>7

LEMMA NextIInv == IInv /\ [Next]_vars => IInv'
  <1> SUFFICES ASSUME IInv, [Next]_vars PROVE IInv'
    OBVIOUS
  <1>1. CASE UNCHANGED vars
    <2>1. UNCHANGED <<up, scene, muted, recording, queue, ws, inbox, msgId, pc, request, attempt,
                      since, carried, last, lost>>
      BY <1>1 DEF vars, obsVars, clientVars, history
    <2>2. Typed'
      BY <2>1 DEF IInv, Typed
    <2> QED
      BY <2>1, <2>2 DEF IInv, Awaiting, InOrder, AnsweredFirst, NewestIsAwaited, GrantedHolds,
        Settled, Holds
  <1>2. CASE Next
    BY <1>2, BeginKeeps, SendKeeps, SendFailsKeeps, ReceiveKeeps, ServeKeeps, CrashKeeps,
      DropKeeps, ConnectionKeeps DEF Next, InCall
  <1> QED
    BY <1>1, <1>2

LEMMA Invariant == Spec => []IInv
  <1> QED
    BY InitIInv, NextIInv, PTL DEF Spec

-----------------------------------------------------------------------------
\* OBS, the connection and the client keep their shapes: no request and no
\* answer has an id the client has not given, and no call tries more often than
\* max_retries + 1 times, whatever fails.
THEOREM TypeCorrect == Spec => []TypeOK
  <1>1. IInv => TypeOK
    BY DEF IInv, Typed, TypeOK, RequestsUpTo, AnswersUpTo
  <1> QED
    BY <1>1, Invariant, PTL

\* A call that returned was carried out and holds: no earlier attempt and no
\* call given up before it is carried out afterwards, however late OBS is.
THEOREM WhatReturnedHolds == Spec => []ReturnedHolds
  <1>1. IInv => ReturnedHolds
    BY DEF IInv, Settled, ReturnedHolds
  <1> QED
    BY <1>1, Invariant, PTL

-----------------------------------------------------------------------------
(* Repetitions.  What may still be carried out for this call is what is     *)
(* queued under its ids; every attempt but the first one has a timeout, a   *)
(* lost connection or a refusal to explain it.                              *)

\* The ids of this call that OBS has not looked at, and the times the call is
\* or may yet be carried out because of them.
Pending == {queue[j].id : j \in {i \in DOMAIN queue : queue[i].id > since}}
Load == carried + Cardinality(Pending)

\* The newest attempt was refused, and its answer is on its way.
NewestRefused == \E i \in DOMAIN inbox : inbox[i].id = msgId /\ ~inbox[i].ok

Explained ==
  /\ carried \in Nat /\ troubles \in Nat
  /\ Load <= 1 + troubles
  /\ pc = "send" => Load <= troubles
  /\ pc = "recv" /\ NewestRefused => Load <= troubles

LEMMA PendingFinite ==
  ASSUME IInv
  PROVE  IsFiniteSet(Pending) /\ Cardinality(Pending) \in Nat
  <1>1. \A j \in DOMAIN queue : queue[j] \in RequestsUpTo(msgId)
    BY DEF IInv, Typed
  <1>2. Pending \subseteq 1..msgId
    BY <1>1 DEF Pending, RequestsUpTo
  <1>3. IsFiniteSet(1..msgId)
    BY FS_Interval DEF IInv, Typed
  <1> QED
    BY <1>2, <1>3, FS_Subset, FS_CardinalityType

\* A step that queues nothing and carries nothing out adds nothing.
LEMMA LoadFalls ==
  ASSUME IInv, Pending' \subseteq Pending, UNCHANGED carried
  PROVE  Load' <= Load /\ Load \in Nat /\ Load' \in Nat
  <1>1. IsFiniteSet(Pending) /\ Cardinality(Pending) \in Nat /\ carried \in Nat
    BY PendingFinite DEF IInv, Typed
  <1>2. Cardinality(Pending') <= Cardinality(Pending) /\ Cardinality(Pending') \in Nat
    BY <1>1, FS_Subset, FS_CardinalityType
  <1> QED
    BY <1>1, <1>2 DEF Load

\* A new request starts with nothing pending: all ids given are older.
LEMMA NothingPending ==
  ASSUME IInv, since' = msgId, queue' = queue, carried' = 0
  PROVE  Load' = 0
  <1>1. \A j \in DOMAIN queue : queue[j].id \in Int /\ queue[j].id <= msgId
    BY IdsGiven DEF IInv
  <1>2. Pending' = {}
    BY <1>1 DEF Pending, IInv, Typed
  <1>3. Cardinality(Pending') = 0
    BY <1>2, FS_EmptySet
  <1> QED
    BY <1>3 DEF Load

\* The connection may go, and the call goes on as it was, or again for a
\* trouble, or because the newest attempt was refused.
LEMMA GoesOnExplained ==
  ASSUME IInv, Explained, UNCHANGED <<carried, since, msgId>>,
         Pending' \subseteq Pending,
         NewestRefused' => NewestRefused,
         \/ pc' = pc /\ troubles' = troubles
         \/ pc' = "idle" /\ troubles' = troubles
         \/ pc' = "send" /\ troubles' = troubles + 1
         \/ pc' = "send" /\ troubles' = troubles /\ pc = "recv" /\ NewestRefused
  PROVE  Explained'
  <1>1. Load' <= Load /\ Load \in Nat /\ Load' \in Nat
    BY LoadFalls
  <1>2. carried' \in Nat /\ troubles \in Nat /\ troubles' \in Nat
    BY DEF Explained
  <1>3. /\ Load <= 1 + troubles
        /\ pc = "send" => Load <= troubles
        /\ pc = "recv" /\ NewestRefused => Load <= troubles
    BY DEF Explained
  <1>4. CASE troubles' = troubles + 1 /\ pc' = "send"
    <2>1. Load' <= 1 + troubles' /\ Load' <= troubles'
      BY <1>1, <1>2, <1>3, <1>4
    <2> QED
      BY <1>2, <1>4, <2>1 DEF Explained
  <1>5. CASE troubles' = troubles /\ pc' = "idle"
    <2>1. Load' <= 1 + troubles'
      BY <1>1, <1>2, <1>3, <1>5
    <2> QED
      BY <1>2, <1>5, <2>1 DEF Explained
  <1>6. CASE troubles' = troubles /\ (pc' = pc \/ (pc' = "send" /\ pc = "recv" /\ NewestRefused))
    <2>1. Load' <= 1 + troubles'
      BY <1>1, <1>2, <1>3, <1>6
    <2>2. pc' = "send" \/ (pc' = "recv" /\ NewestRefused') => Load <= troubles
      BY <1>3, <1>6
    <2>3. Load <= troubles => Load' <= troubles'
      BY <1>1, <1>2, <1>6
    <2> QED
      BY <1>2, <2>1, <2>2, <2>3 DEF Explained
  <1> QED
    BY <1>4, <1>5, <1>6

LEMMA NarrowedPending ==
  ASSUME Narrowed, since' = since, msgId' = msgId
  PROVE  Pending' \subseteq Pending /\ (NewestRefused' => NewestRefused)
  <1>1. Pending' \subseteq Pending
    BY DEF Narrowed, Pending
  <1>2. NewestRefused' => NewestRefused
    BY DEF Narrowed, NewestRefused
  <1> QED
    BY <1>1, <1>2

LEMMA ConnectionExplained ==
  ASSUME IInv, Explained,
         \/ Connect \/ Close \/ SendUnconnected \/ GiveUp \/ TimeOut
         \/ DeadlinePassed \/ ReceiveFails \/ Die \/ ComeUp \/ Crash
  PROVE  Explained'
  <1>1. UNCHANGED <<carried, since, msgId>>
    BY DEF Connect, Close, SendUnconnected, GiveUp, TimeOut, DeadlinePassed, ReceiveFails, Die,
      ComeUp, Crash, clientVars, history
  <1>2. Narrowed
    <2>0. queue' = queue /\ inbox' = inbox => Narrowed
      BY DEF Narrowed, IInv, Typed
    <2>1. CASE \E done \in BOOLEAN : Reconnect(done)
      BY <2>1, ReconnectNarrows DEF IInv
    <2>2. CASE Die \/ Crash
      BY <2>2, BrokenNarrows DEF Die, Crash, IInv
    <2>3. CASE GiveUp \/ TimeOut \/ ReceiveFails \/ ComeUp
      BY <2>0, <2>3 DEF GiveUp, TimeOut, ReceiveFails, ComeUp, obsVars
    <2> QED
      BY <2>1, <2>2, <2>3 DEF Connect, Close, SendUnconnected, DeadlinePassed
  <1>3. \/ pc' = pc /\ troubles' = troubles
        \/ pc' = "idle" /\ troubles' = troubles
        \/ pc' = "send" /\ troubles' = troubles + 1
    BY DEF Connect, Close, SendUnconnected, GiveUp, TimeOut, DeadlinePassed, ReceiveFails, Die,
      ComeUp, Crash, clientVars, history, Retry
  <1> QED
    BY <1>1, <1>2, <1>3, NarrowedPending, GoesOnExplained

LEMMA DropExplained == IInv /\ Explained /\ Drop => Explained'
  <1> SUFFICES ASSUME IInv, Explained, Drop PROVE Explained'
    OBVIOUS
  <1>1. /\ queue # <<>> /\ queue' = Tail(queue)
        /\ UNCHANGED <<inbox, msgId, pc, since, carried, troubles>>
    BY DEF Drop, clientVars, history
  <1>2. /\ DOMAIN queue' = 1..(Len(queue) - 1) /\ Len(queue) \in Nat
        /\ DOMAIN queue = 1..Len(queue)
        /\ \A j \in 1..(Len(queue) - 1) : queue'[j] = queue[j + 1]
    BY <1>1 DEF IInv, Typed
  <1>3. Pending' \subseteq Pending
    BY <1>1, <1>2 DEF Pending
  <1> QED
    BY <1>1, <1>3, GoesOnExplained DEF NewestRefused

LEMMA BeginExplained == IInv /\ Begin => Explained'
  <1> SUFFICES ASSUME IInv, Begin PROVE Explained'
    OBVIOUS
  <1>1. pc' = "send" /\ carried' = 0 /\ troubles' = 0 /\ since' = msgId /\ queue' = queue
    BY DEF Begin, obsVars
  <1>2. Load' = 0
    BY <1>1, NothingPending
  <1> QED
    BY <1>1, <1>2 DEF Explained

LEMMA SendExplained == IInv /\ Explained /\ Send => Explained'
  <1> SUFFICES ASSUME IInv, Explained, Send PROVE Explained'
    OBVIOUS
  <1> DEFINE r == [id |-> msgId + 1, what |-> request, open |-> TRUE]
  <1>1. /\ pc = "send" /\ pc' = "recv" /\ msgId' = msgId + 1
        /\ UNCHANGED <<inbox, since, carried, troubles>>
        /\ queue' = Append(queue, r) \/ queue' = queue
    BY DEF Send, history
  <1>2. /\ DOMAIN Append(queue, r) = 1..(Len(queue) + 1)
        /\ Len(queue) \in Nat /\ DOMAIN queue = 1..Len(queue)
        /\ \A j \in 1..Len(queue) : Append(queue, r)[j] = queue[j]
        /\ Append(queue, r)[Len(queue) + 1].id = msgId + 1
    BY DEF IInv, Typed
  <1>3. \A j \in DOMAIN queue' :
          \/ j \in DOMAIN queue /\ queue'[j] = queue[j]
          \/ queue'[j].id = msgId + 1
    BY <1>1, <1>2
  <1>4. Pending' \subseteq Pending \union {msgId + 1}
    BY <1>1, <1>3 DEF Pending
  <1>5. IsFiniteSet(Pending) /\ Cardinality(Pending) \in Nat
    BY PendingFinite
  <1>6. /\ IsFiniteSet(Pending \union {msgId + 1})
        /\ Cardinality(Pending \union {msgId + 1}) <= Cardinality(Pending) + 1
    BY <1>5, FS_AddElement
  <1>7. /\ Cardinality(Pending') <= Cardinality(Pending \union {msgId + 1})
        /\ Cardinality(Pending') \in Nat
    BY <1>4, <1>6, FS_Subset, FS_CardinalityType
  <1>8. /\ Cardinality(Pending \union {msgId + 1}) \in Nat
        /\ carried \in Nat /\ troubles \in Nat /\ Load <= troubles
    BY <1>1, <1>6, FS_CardinalityType DEF Explained
  <1>9. Load' <= 1 + troubles
    BY <1>1, <1>5, <1>6, <1>7, <1>8 DEF Load
  <1>10. ~NewestRefused'
    <2>1. \A i \in DOMAIN inbox : inbox[i].id \in Int /\ inbox[i].id <= msgId
      BY IdsGiven DEF IInv
    <2>2. msgId \in Nat
      BY DEF IInv, Typed
    <2> QED
      BY <1>1, <2>1, <2>2 DEF NewestRefused
  <1> QED
    BY <1>1, <1>8, <1>9, <1>10 DEF Explained

LEMMA SendFailsExplained == IInv /\ Explained /\ SendFails => Explained'
  <1> SUFFICES ASSUME IInv, Explained, SendFails PROVE Explained'
    OBVIOUS
  <1>1. pc = "send" /\ pc' = "send" /\ UNCHANGED <<queue, since, carried, troubles>>
    BY DEF SendFails, Retry, history, obsVars
  <1>2. Pending' \subseteq Pending
    BY <1>1 DEF Pending
  <1>3. Load' <= Load /\ Load \in Nat /\ Load' \in Nat
    BY <1>1, <1>2, LoadFalls
  <1> QED
    BY <1>1, <1>3 DEF Explained

LEMMA ReceiveExplained == IInv /\ Explained /\ Receive => Explained'
  <1> SUFFICES ASSUME IInv, Explained, Receive PROVE Explained'
    OBVIOUS
  <1> DEFINE answer == Head(inbox)
  <1>1. /\ pc = "recv" /\ inbox # <<>> /\ inbox' = Tail(inbox)
        /\ queue' = queue /\ msgId' = msgId
        /\ Unanswered(answer) \/ Continue(answer) \/ Return(answer)
    BY DEF Receive, obsVars
  <1>2. /\ Len(inbox) \in Nat \ {0} /\ DOMAIN inbox = 1..Len(inbox) /\ answer = inbox[1]
        /\ DOMAIN inbox' = 1..(Len(inbox) - 1)
        /\ \A i \in 1..(Len(inbox) - 1) : inbox'[i] = inbox[i + 1]
    BY <1>1 DEF IInv, Typed
  <1>3. 1 \in DOMAIN inbox /\ \A i \in DOMAIN inbox' : i + 1 \in DOMAIN inbox
    BY <1>2
  <1> HIDE DEF answer
  <1>4. NewestRefused' => NewestRefused
    BY <1>1, <1>2, <1>3 DEF NewestRefused
  <1>5. CASE Unanswered(answer)
    <2>1. UNCHANGED <<since, carried, troubles>>
      BY <1>5 DEF Unanswered, history
    <2>2. Pending' \subseteq Pending
      BY <1>1, <2>1 DEF Pending
    <2>3. pc' = pc \/ (pc' = "send" /\ NewestRefused)
      BY <1>2, <1>3, <1>5 DEF Unanswered, Ignore, Refused, Expected, Retry, NewestRefused
    <2> QED
      BY <1>1, <1>4, <2>1, <2>2, <2>3, GoesOnExplained
  <1>6. CASE Continue(answer)
    <2>1. pc' = "send" /\ carried' = 0 /\ troubles' = 0 /\ since' = msgId
      BY <1>6 DEF Continue
    <2>2. Load' = 0
      BY <1>1, <2>1, NothingPending
    <2> QED
      BY <2>1, <2>2 DEF Explained
  <1>7. CASE Return(answer)
    <2>1. pc' = "idle" /\ UNCHANGED <<since, carried, troubles>>
      BY <1>7 DEF Return
    <2>2. Pending' \subseteq Pending
      BY <1>1, <2>1 DEF Pending
    <2> QED
      BY <1>1, <1>4, <2>1, <2>2, GoesOnExplained
  <1> QED
    BY <1>1, <1>5, <1>6, <1>7

LEMMA ServeExplained == IInv /\ Explained /\ Serve => Explained'
  <1> SUFFICES ASSUME IInv, Explained, Serve PROVE Explained'
    OBVIOUS
  <1> DEFINE r == Head(queue)
             ok == Accepts(r.what)
             answer == [id |-> r.id, ok |-> ok]
  <1>1. /\ queue # <<>> /\ queue' = Tail(queue)
        /\ UNCHANGED <<msgId, pc, since, troubles>>
        /\ carried' = IF ok /\ r.id > since THEN carried + 1 ELSE carried
        /\ inbox' = IF r.open THEN Append(inbox, answer) ELSE inbox
    BY DEF Serve, clientVars
  <1>2. /\ Len(queue) \in Nat \ {0} /\ DOMAIN queue = 1..Len(queue) /\ r = queue[1]
        /\ DOMAIN queue' = 1..(Len(queue) - 1)
        /\ \A j \in 1..(Len(queue) - 1) : queue'[j] = queue[j + 1]
    BY <1>1 DEF IInv, Typed
  <1>3. 1 \in DOMAIN queue /\ \A j \in DOMAIN queue' : j + 1 \in DOMAIN queue /\ 1 < j + 1
    BY <1>2
  <1>4. /\ \A i \in DOMAIN inbox' :
             (i \in DOMAIN inbox /\ inbox'[i] = inbox[i]) \/ inbox'[i] = answer
        /\ answer.id = r.id /\ answer.ok = ok
    BY <1>1 DEF IInv, Typed
  <1>5. /\ r.id \in Int /\ since \in Nat /\ msgId \in Nat
        /\ carried \in Nat /\ troubles \in Nat
    BY <1>2, <1>3, IdsGiven DEF IInv, Typed, Explained
  <1> HIDE DEF r, ok, answer
  <1>6. \A j \in DOMAIN queue' : queue'[j].id # r.id /\ queue'[j].id \in {queue[k].id : k \in DOMAIN queue}
    <2>1. \A j \in DOMAIN queue : queue[j].id \in Int
      BY IdsGiven DEF IInv
    <2>2. \A j \in DOMAIN queue' : r.id < queue'[j].id
      BY <1>2, <1>3 DEF IInv, InOrder
    <2> QED
      BY <1>2, <1>3, <1>5, <2>1, <2>2
  <1>7. Pending' \subseteq Pending \ {r.id}
    BY <1>1, <1>2, <1>3, <1>6 DEF Pending
  <1>8. IsFiniteSet(Pending) /\ Cardinality(Pending) \in Nat
    BY PendingFinite
  <1>9. /\ IsFiniteSet(Pending \ {r.id})
        /\ Cardinality(Pending \ {r.id}) =
             IF r.id \in Pending THEN Cardinality(Pending) - 1 ELSE Cardinality(Pending)
    BY <1>8, FS_RemoveElement
  <1>10. /\ Cardinality(Pending') <= Cardinality(Pending \ {r.id})
         /\ Cardinality(Pending') \in Nat
    BY <1>7, <1>9, FS_Subset, FS_CardinalityType
  <1>11. r.id > since => r.id \in Pending
    BY <1>2, <1>3 DEF Pending
  <1>12. Load' <= Load /\ Load \in Nat /\ Load' \in Nat
    BY <1>1, <1>5, <1>8, <1>9, <1>10, <1>11 DEF Load
  <1>13. ~ok /\ r.id > since => Load' <= Load - 1
    BY <1>1, <1>5, <1>8, <1>9, <1>10, <1>11 DEF Load
  <1>14. pc = "recv" /\ NewestRefused' => Load' <= troubles
    <2> SUFFICES ASSUME pc = "recv", NEW i \in DOMAIN inbox', inbox'[i].id = msgId, ~inbox'[i].ok
                 PROVE  Load' <= troubles
      BY <1>1 DEF NewestRefused
    <2>1. CASE i \in DOMAIN inbox /\ inbox'[i] = inbox[i]
      BY <1>5, <1>12, <2>1 DEF Explained, NewestRefused
    <2>2. CASE inbox'[i] = answer
      <3>1. r.id > since /\ ~ok
        BY <1>4, <1>5, <2>2 DEF IInv, Awaiting
      <3> QED
        BY <1>5, <1>12, <1>13, <3>1 DEF Explained
    <2> QED
      BY <1>4, <2>1, <2>2
  <1>15. carried' \in Nat
    BY <1>1, <1>5
  <1> QED
    BY <1>1, <1>5, <1>12, <1>14, <1>15 DEF Explained

LEMMA InitExplained == Init => Explained
  <1> SUFFICES ASSUME Init PROVE Explained
    OBVIOUS
  <1>1. Pending = {}
    BY DEF Init, Pending
  <1>2. Cardinality(Pending) = 0
    BY <1>1, FS_EmptySet
  <1> QED
    BY <1>2 DEF Init, Explained, Load

LEMMA NextExplained == IInv /\ Explained /\ [Next]_vars => Explained'
  <1> SUFFICES ASSUME IInv, Explained, [Next]_vars PROVE Explained'
    OBVIOUS
  <1>1. CASE UNCHANGED vars
    <2>1. UNCHANGED <<queue, inbox, msgId, pc, since, carried, troubles>>
      BY <1>1 DEF vars, obsVars, clientVars, history
    <2> QED
      BY <2>1 DEF Explained, Load, Pending, NewestRefused
  <1>2. CASE Next
    BY <1>2, ConnectionExplained, DropExplained, BeginExplained, SendExplained,
      SendFailsExplained, ReceiveExplained, ServeExplained DEF Next, InCall
  <1> QED
    BY <1>1, <1>2

\* OBS carries a request out again only for a timeout or a lost connection
\* each: a refusal and a late answer to an earlier attempt set off no further
\* one, whatever is still queued under the old ids.
THEOREM RepeatsExplained == Spec => []RepeatsAreExplained
  <1>1. IInv /\ Explained => RepeatsAreExplained
    <2> SUFFICES ASSUME IInv, Explained PROVE RepeatsAreExplained
      OBVIOUS
    <2>1. Cardinality(Pending) \in Nat /\ carried \in Nat /\ troubles \in Nat
      BY PendingFinite DEF Explained
    <2> QED
      BY <2>1 DEF Explained, Load, RepeatsAreExplained
  <1>2. Spec => []Explained
    BY InitExplained, NextExplained, Invariant, PTL DEF Spec
  <1> QED
    BY <1>1, <1>2, Invariant, PTL
=============================================================================
