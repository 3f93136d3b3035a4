------------------------- MODULE WubuDaemon_proofs --------------------------
(***************************************************************************)
(* Theorems about WubuDaemon, for every set of clients and moods and every *)
(* size of the backlog.                                                    *)
(***************************************************************************)
EXTENDS WubuDaemon, TLAPS

Serving == loop \in {"read", "handle", "reply", "newline", "close"}

\* A client that has not connected has sent nothing; what is handled is the whole
\* line of the client served, or is rejected; what is written answers the line.
Exchange ==
  /\ \A c \in Clients : link[c] = "new" => sent[c] = "nothing"
  /\ \A c \in Clients : link[c] # "new" => request[c] \in Requests
  /\ \A i \in 1..Len(backlog) : link[backlog[i]] # "new"
  /\ Serving => serving \in Clients /\ link[serving] # "new"
  /\ loop \in {"handle", "reply", "newline"} =>
       line = Malformed \/ (sent[serving] = "all" /\ line = request[serving])
  /\ loop = "handle" => line \in Requests
  /\ loop = "reply" => line # Malformed /\ response \in AnswersTo(line)

Inductive == TypeOK /\ Exchange /\ ReplyAnswersOwnRequest

\* Init establishes Inductive.
LEMMA InitInductive == Init => Inductive
  <1> SUFFICES ASSUME Init PROVE Inductive
    OBVIOUS
  <1>1. backlog \in Seq(Clients) /\ Len(backlog) = 0 /\ 1..Len(backlog) = {} /\ 0 <= Backlog
    BY DaemonAssumption DEF Init
  <1>2. TypeOK
    BY <1>1 DEF Init, TypeOK
  <1>3. Exchange
    BY <1>1 DEF Init, Exchange, Serving
  <1>4. ReplyAnswersOwnRequest
    BY DEF Init, ReplyAnswersOwnRequest
  <1> QED
    BY <1>2, <1>3, <1>4 DEF Inductive

\* What each request is answered with, case by case.
LEMMA AnswersByCase ==
  /\ AnswersTo(Ping) = {Text("ok")}
  /\ AnswersTo(Query) = {Text("data")}
  /\ AnswersTo(Fact) = {Text("data"), Text("error")}
  /\ AnswersTo(Quit) = {Text("quit")}
  /\ AnswersTo(Get) = [text : {"mood"}, old : {None}, new : Moods \union {Neutral}]
  /\ AnswersTo(SetNothing) = {Text("error")}
  /\ AnswersTo(Unknown) = {Text("error")}
  /\ \A l : l.mood # None =>
       AnswersTo(l) = [text : {"mood"}, old : Moods \union {Neutral}, new : {l.mood}]
  <1>1. /\ Ping # Query /\ Ping # Get /\ Ping # Quit /\ Ping # SetNothing /\ Ping # Unknown
        /\ Query # Get /\ Query # Quit /\ Query # SetNothing /\ Query # Unknown
        /\ Get # Quit /\ Get # SetNothing /\ Get # Unknown
        /\ Quit # SetNothing /\ Quit # Unknown /\ SetNothing # Unknown
        /\ Fact # Ping /\ Fact # Query /\ Fact # Get /\ Fact # Quit
        /\ Fact # SetNothing /\ Fact # Unknown
    BY DEF Ping, Query, Fact, Get, Quit, SetNothing, Unknown
  <1>2. \A r \in {Ping, Query, Fact, Get, Quit, SetNothing, Unknown} : r.mood = None
    BY DEF Ping, Query, Fact, Get, Quit, SetNothing, Unknown
  <1>3. AnswersTo(Ping) = {Text("ok")}
    BY <1>1, <1>2, Zenon DEF AnswersTo
  <1>4. AnswersTo(Query) = {Text("data")}
    BY <1>1, <1>2, Zenon DEF AnswersTo
  <1>5. AnswersTo(Quit) = {Text("quit")}
    BY <1>1, <1>2, Zenon DEF AnswersTo
  <1>6. AnswersTo(Get) = [text : {"mood"}, old : {None}, new : Moods \union {Neutral}]
    BY <1>1, <1>2, Zenon DEF AnswersTo
  <1>7. AnswersTo(SetNothing) = {Text("error")}
    BY <1>1, <1>2, Zenon DEF AnswersTo
  <1>8. AnswersTo(Unknown) = {Text("error")}
    BY <1>1, <1>2, Zenon DEF AnswersTo
  <1>9. ASSUME NEW l, l.mood # None
        PROVE  AnswersTo(l) = [text : {"mood"}, old : Moods \union {Neutral}, new : {l.mood}]
    <2>1. l \notin {Ping, Query, Fact, Get, Quit, SetNothing, Unknown}
      BY <1>2, <1>9
    <2> QED
      BY <1>9, <2>1, Zenon DEF AnswersTo
  <1>10. AnswersTo(Fact) = {Text("data"), Text("error")}
    BY <1>1, <1>2, Zenon DEF AnswersTo
  <1> QED
    BY <1>3, <1>4, <1>5, <1>6, <1>7, <1>8, <1>9, <1>10

\* The dispatcher answers the line it is given.
LEMMA HandleAnswers ==
  ASSUME NEW l \in Requests, mood \in Moods \union {Neutral}, line = l, l # Malformed,
         \/ SetMood
         \/ QuitCommand
         \/ /\ line \in {Ping, Query, Fact, Get, SetNothing, Unknown, Malformed}
            /\ response' \in Answers
  PROVE  response' \in Replies /\ response' \in AnswersTo(l)
  <1>1. CASE SetMood
    <2>1. l.mood \in Moods /\ l.mood # None
      BY <1>1 DEF SetMood, Requests, Ping, Query, Fact, Get, SetNothing, Unknown, Quit, Malformed
    <2>2. AnswersTo(l) = [text : {"mood"}, old : Moods \union {Neutral}, new : {l.mood}]
      BY <2>1, AnswersByCase, Zenon
    <2>3. response' = [text |-> "mood", old |-> mood, new |-> l.mood]
      BY <1>1 DEF SetMood
    <2>4. response' \in [text : {"mood"}, old : Moods \union {Neutral}, new : {l.mood}]
      BY <2>3
    <2>5. response' \in Replies
      BY <2>1, <2>3 DEF Replies
    <2> QED
      BY <2>2, <2>4, <2>5
  <1>2. CASE QuitCommand
    <2>1. response' = Text("quit") /\ l = Quit
      BY <1>2 DEF QuitCommand
    <2> QED
      BY <2>1, AnswersByCase DEF Replies
  <1>3. CASE /\ line \in {Ping, Query, Fact, Get, SetNothing, Unknown}
             /\ response' \in Answers
    <2>1. CASE l = Ping
      <3>1. response' = Text("ok")
        BY <1>3, <2>1 DEF Answers, Ping, Query, Fact, Get, SetNothing, Unknown, Malformed
      <3> QED
        BY <2>1, <3>1, AnswersByCase DEF Replies
    <2>2. CASE l = Query
      <3>1. response' = Text("data")
        BY <1>3, <2>2 DEF Answers, Ping, Query, Fact, Get, SetNothing, Unknown, Malformed
      <3> QED
        BY <2>2, <3>1, AnswersByCase DEF Replies
    <2>3. CASE l = Get
      <3>1. response' = [text |-> "mood", old |-> None, new |-> mood]
        BY <1>3, <2>3 DEF Answers, Ping, Query, Fact, Get, SetNothing, Unknown, Malformed
      <3>2. response' \in [text : {"mood"}, old : {None}, new : Moods \union {Neutral}]
        BY <3>1
      <3>3. response' \in Replies
        BY <3>1 DEF Replies
      <3> QED
        BY <2>3, <3>2, <3>3, AnswersByCase
    <2>4. CASE l = SetNothing \/ l = Unknown
      <3>1. response' = Text("error")
        BY <1>3, <2>4 DEF Answers, Ping, Query, Fact, Get, SetNothing, Unknown, Malformed
      <3> QED
        BY <2>4, <3>1, AnswersByCase DEF Replies
    <2>5. CASE l = Fact
      <3>1. response' \in {Text("data"), Text("error")}
        BY <1>3, <2>5 DEF Answers, Ping, Query, Fact, Get, SetNothing, Unknown, Malformed
      <3> QED
        BY <2>5, <3>1, AnswersByCase DEF Replies
    <2> QED
      BY <1>3, <2>1, <2>2, <2>3, <2>4, <2>5
  <1> QED
    BY <1>1, <1>2, <1>3

\* The clients' steps: nobody connects twice, a line only grows.
LEMMA ClientInductive ==
  ASSUME Inductive, NEW c \in Clients, Client(c)
  PROVE  Inductive'
  <1>1. ASSUME NEW r \in Requests, Connect(c, r) PROVE Inductive'
    <2>1. sent[c] = "nothing" /\ reply[c] = None /\ link[c] = "new"
      BY <1>1 DEF Connect, Inductive, Exchange, ReplyAnswersOwnRequest
    <2>2. /\ Append(backlog, c) \in Seq(Clients) /\ Len(Append(backlog, c)) = Len(backlog) + 1
          /\ Len(backlog) \in Nat
          /\ \A i \in 1..Len(Append(backlog, c)) :
               Append(backlog, c)[i] = c \/ (i \in 1..Len(backlog) /\ Append(backlog, c)[i] = backlog[i])
      BY DEF Inductive, TypeOK
    <2>3. TypeOK'
      BY <1>1, <2>2, DaemonAssumption DEF Connect, Inductive, TypeOK
    <2>4. /\ \A d \in Clients : link'[d] = IF d = c THEN "open" ELSE link[d]
          /\ \A d \in Clients : request'[d] = IF d = c THEN r ELSE request[d]
      BY <1>1 DEF Connect, Inductive, TypeOK
    <2>5. \A i \in 1..Len(backlog') : link'[backlog'[i]] # "new"
      <3>1. \A i \in 1..Len(backlog) : backlog[i] \in Clients
        BY DEF Inductive, TypeOK
      <3> QED
        BY <1>1, <2>2, <2>4, <3>1 DEF Connect, Inductive, Exchange
    <2>6. Exchange'
      BY <1>1, <2>1, <2>4, <2>5 DEF Connect, Inductive, Exchange, Serving, AnswersTo
    <2>7. ReplyAnswersOwnRequest'
      <3>1. \A d \in Clients : reply'[d] # None => d # c /\ reply'[d] \in AnswersTo(request'[d])
        BY <1>1, <2>1, <2>4 DEF Connect, Inductive, ReplyAnswersOwnRequest
      <3>2. UNCHANGED <<sent, reply>>
        BY <1>1 DEF Connect
      <3> QED
        BY <3>1, <3>2 DEF Inductive, ReplyAnswersOwnRequest, AnswersTo
    <2> QED
      BY <2>3, <2>6, <2>7 DEF Inductive
  <1>2. CASE Send(c) \/ SendPart(c)
    <2>1. /\ UNCHANGED <<daemonVars, link, request, reply, stopped>>
          /\ link[c] = "open"
          /\ \E s \in {"all", "part"} : sent' = [sent EXCEPT ![c] = s]
          /\ sent[c] = "all" => sent' = sent
      BY <1>2 DEF Send, SendPart
    <2>2. TypeOK'
      BY <2>1 DEF daemonVars, Inductive, TypeOK
    <2>3. Exchange' /\ ReplyAnswersOwnRequest'
      BY <1>2, <2>1 DEF Send, SendPart, daemonVars, Inductive, TypeOK, Exchange, Serving,
         ReplyAnswersOwnRequest, AnswersTo
    <2> QED
      BY <2>2, <2>3 DEF Inductive
  <1>3. CASE HangUp(c)
    <2>1. link' \in [Clients -> {"new", "open", "gone", "closed"}]
          /\ \A d \in Clients : link'[d] = "new" <=> link[d] = "new"
      BY <1>3 DEF HangUp, Inductive, TypeOK
    <2>2. \A i \in 1..Len(backlog) : backlog[i] \in Clients
      BY DEF Inductive, TypeOK
    <2> QED
      BY <1>3, <2>1, <2>2 DEF HangUp, daemonVars, Inductive, TypeOK, Exchange, Serving,
         ReplyAnswersOwnRequest, AnswersTo
  <1> QED
    BY <1>1, <1>2, <1>3 DEF Client

\* The steps of the loop that answer.
LEMMA AnswerInductive ==
  ASSUME Inductive, Handle \/ Reply PROVE Inductive'
  <1>1. CASE Handle
    <2>1. loop = "handle" /\ line \in Requests /\ serving \in Clients /\ link[serving] # "new"
      BY <1>1 DEF Handle, Inductive, Exchange, Serving
    <2>2. UNCHANGED <<backlog, serving, line, link, request, sent, reply, stopped>>
      BY <1>1 DEF Handle, clientVars
    <2>3. CASE line = Malformed
      <3>1. loop' = "close" /\ response' = Text("error") /\ UNCHANGED <<running, mood>>
        BY <1>1, <2>3 DEF Handle, SetMood, QuitCommand, Answers, Malformed, Quit, Ping, Query, Fact,
           Get, SetNothing, Unknown
      <3>2. response' \in Replies
        BY <3>1 DEF Replies, Text
      <3> QED
        BY <2>1, <2>2, <3>1, <3>2 DEF Inductive, TypeOK, Exchange, Serving, ReplyAnswersOwnRequest,
           AnswersTo
    <2>4. CASE line # Malformed
      <3>1. loop' = "reply"
        BY <1>1, <2>4 DEF Handle
      <3>2. response' \in Replies /\ response' \in AnswersTo(line)
        BY <1>1, <2>1, <2>4, HandleAnswers DEF Handle, Inductive, TypeOK
      <3>3. running' \in BOOLEAN /\ mood' \in Moods \union {Neutral}
        <4>1. line.mood = None \/ line.mood \in Moods
          BY <2>1 DEF Requests, Ping, Query, Fact, Get, SetNothing, Unknown, Quit, Malformed
        <4> QED
          BY <1>1, <4>1 DEF Handle, SetMood, QuitCommand, Inductive, TypeOK
      <3>4. TypeOK'
        BY <2>2, <3>1, <3>2, <3>3 DEF Inductive, TypeOK
      <3>5. Exchange' /\ ReplyAnswersOwnRequest'
        BY <2>1, <2>2, <2>4, <3>1, <3>2 DEF Inductive, Exchange, Serving, ReplyAnswersOwnRequest,
           AnswersTo
      <3> QED
        BY <3>4, <3>5 DEF Inductive
    <2> QED
      BY <2>3, <2>4
  <1>2. CASE Reply
    <2>1. /\ serving \in Clients /\ link[serving] # "new" /\ line # Malformed
          /\ sent[serving] = "all" /\ line = request[serving] /\ response \in AnswersTo(line)
      BY <1>2 DEF Reply, Inductive, Exchange, Serving
    <2>2. reply' \in [Clients -> Replies \union {None}]
          /\ \A c \in Clients : reply'[c] = IF c = serving THEN response ELSE reply[c]
      BY <1>2, <2>1 DEF Reply, Inductive, TypeOK
    <2>3. TypeOK'
      BY <1>2, <2>2 DEF Reply, Inductive, TypeOK
    <2>4. Exchange' /\ ReplyAnswersOwnRequest'
      BY <1>2, <2>1, <2>2 DEF Reply, Inductive, Exchange, Serving, ReplyAnswersOwnRequest, AnswersTo
    <2> QED
      BY <2>3, <2>4 DEF Inductive
  <1> QED
    BY <1>1, <1>2

\* The other steps of the loop, and stop.
LEMMA LoopInductive ==
  ASSUME Inductive,
         \/ CheckRunning \/ Accept \/ AcceptFails \/ Read \/ EndLine
         \/ BrokenPipe \/ BadFree \/ CloseClient \/ Leave \/ Stop
  PROVE  Inductive'
  <1>1. CASE CheckRunning
    BY <1>1 DEF CheckRunning, clientVars, Inductive, TypeOK, Exchange, Serving,
       ReplyAnswersOwnRequest, AnswersTo
  <1>2. CASE Accept
    <2>1. /\ Head(backlog) \in Clients /\ Head(backlog) = backlog[1] /\ 1 \in 1..Len(backlog)
          /\ Tail(backlog) \in Seq(Clients) /\ Len(Tail(backlog)) <= Backlog
          /\ \A i \in 1..Len(Tail(backlog)) :
               i + 1 \in 1..Len(backlog) /\ Tail(backlog)[i] = backlog[i + 1]
      BY <1>2, DaemonAssumption DEF Accept, Inductive, TypeOK
    <2>2. TypeOK'
      BY <1>2, <2>1 DEF Accept, clientVars, Inductive, TypeOK
    <2>3. link[Head(backlog)] # "new"
      BY <2>1 DEF Inductive, Exchange
    <2>4. \A i \in 1..Len(backlog') : link[backlog'[i]] # "new"
      BY <1>2, <2>1 DEF Accept, Inductive, Exchange
    <2>5. /\ loop' \in {"read", "close"} /\ serving' = Head(backlog)
          /\ UNCHANGED <<clientVars, line, response>>
      BY <1>2 DEF Accept
    <2>6. Exchange'
      BY <2>1, <2>3, <2>4, <2>5 DEF clientVars, Inductive, Exchange, Serving
    <2>7. ReplyAnswersOwnRequest'
      BY <2>5 DEF clientVars, Inductive, ReplyAnswersOwnRequest, AnswersTo
    <2> QED
      BY <2>2, <2>6, <2>7 DEF Inductive
  <1>3. CASE Read
    <2>1. serving \in Clients /\ link[serving] # "new" /\ request[serving] \in Requests
      BY <1>3 DEF Read, Inductive, Exchange, Serving
    <2>2. /\ Arrived(serving) \in Requests \union {None}
          /\ Arrived(serving) # None =>
               Arrived(serving) = Malformed
                 \/ (sent[serving] = "all" /\ Arrived(serving) = request[serving])
      BY <2>1 DEF Arrived, Requests
    <2>3. TypeOK'
      BY <1>3, <2>2 DEF Read, clientVars, Inductive, TypeOK
    <2>4. Exchange' /\ ReplyAnswersOwnRequest'
      BY <1>3, <2>1, <2>2 DEF Read, clientVars, Inductive, Exchange, Serving,
         ReplyAnswersOwnRequest, AnswersTo
    <2> QED
      BY <2>3, <2>4 DEF Inductive
  <1>4. CASE AcceptFails \/ EndLine \/ Stop
    BY <1>4 DEF AcceptFails, EndLine, Stop, clientVars, Inductive, TypeOK, Exchange, Serving,
       ReplyAnswersOwnRequest, AnswersTo
  <1>5. CASE BrokenPipe \/ BadFree \/ CloseClient \/ Leave
    <2>1. /\ link' \in [Clients -> {"new", "open", "gone", "closed"}]
          /\ \A c \in Clients : link'[c] = "new" <=> link[c] = "new"
      BY <1>5 DEF BrokenPipe, BadFree, Killed, CloseClient, Leave, Disconnected, Inductive, TypeOK
    <2>2. \/ backlog' = <<>>
          \/ backlog' = backlog
      BY <1>5 DEF BrokenPipe, BadFree, Killed, CloseClient, Leave
    <2>3. \A i \in 1..Len(backlog) : backlog[i] \in Clients
      BY DEF Inductive, TypeOK
    <2>4. backlog' \in Seq(Clients) /\ Len(backlog') <= Backlog
      <3>1. <<>> \in Seq(Clients) /\ Len(<<>>) <= Backlog
        BY DaemonAssumption
      <3> QED
        BY <2>2, <3>1 DEF Inductive, TypeOK
    <2>5. /\ loop' \in {"killed", "check", "ended"} /\ serving' \in {None, serving}
          /\ UNCHANGED <<running, line, response, mood, request, sent, reply, stopped>>
      BY <1>5 DEF BrokenPipe, BadFree, Killed, CloseClient, Leave
    <2>6. TypeOK'
      BY <2>1, <2>4, <2>5 DEF Inductive, TypeOK
    <2>7. \A i \in 1..Len(backlog') : link'[backlog'[i]] # "new"
      BY <2>1, <2>2, <2>3 DEF Inductive, Exchange
    <2>8. Exchange' /\ ReplyAnswersOwnRequest'
      BY <2>1, <2>5, <2>7 DEF Inductive, Exchange, Serving, ReplyAnswersOwnRequest, AnswersTo
    <2> QED
      BY <2>6, <2>8 DEF Inductive
  <1> QED
    BY <1>1, <1>2, <1>3, <1>4, <1>5

\* Every step keeps Inductive.
LEMMA NextInductive == ASSUME Inductive, [Next]_vars PROVE Inductive'
  <1>1. CASE UNCHANGED vars
    BY <1>1 DEF vars, daemonVars, clientVars, Inductive, TypeOK, Exchange, Serving,
       ReplyAnswersOwnRequest, AnswersTo
  <1>2. CASE Next
    BY <1>2, ClientInductive, AnswerInductive, LoopInductive DEF Next, Run
  <1> QED
    BY <1>1, <1>2

(* The server's and the clients' state keep their shapes: in particular    *)
(* accept and close leave no more than the backlog's connections waiting.  *)
THEOREM TypeCorrect == Spec => []TypeOK
  <1>1. Inductive => TypeOK
    BY DEF Inductive
  <1> QED
    BY <1>1, InitInductive, NextInductive, PTL DEF Spec

(* Any number of clients, sending their lines whole or in parts, hanging   *)
(* up at any point: each is told what answers its own whole line.          *)
THEOREM EveryReplyAnswersItsRequest == Spec => []ReplyAnswersOwnRequest
  <1>1. Inductive => ReplyAnswersOwnRequest
    BY DEF Inductive
  <1> QED
    BY <1>1, InitInductive, NextInductive, PTL DEF Spec
=============================================================================
