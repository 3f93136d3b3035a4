----------------------------- MODULE WubuDaemon -----------------------------
(***************************************************************************)
(* wubu_daemon.c: the command server on its Unix domain socket.  One       *)
(* thread accepts a client, reads once, handles what that read returned as *)
(* one JSON line, answers and closes.  Clients connect, send their line in *)
(* one piece or two, wait or hang up; another thread may call              *)
(* wubu_daemon_stop.                                                       *)
(*                                                                         *)
(* A request is abstracted to what the dispatcher tells apart.  The wiki   *)
(* commands only read (CMD_WIKI_UPSERT is declared, not dispatched) and    *)
(* are the request Query, but for wiki_fact, which frees what it found.    *)
(***************************************************************************)
EXTENDS Integers, Sequences

CONSTANTS
  Clients,
  Moods,            \* mood names a client may set
  Neutral,          \* the mood the daemon starts with
  Backlog,          \* listen(sock_fd, 5)
  None              \* no client, no request, no reply

ASSUME DaemonAssumption ==
  /\ Neutral \notin Moods
  /\ Backlog \in Nat \ {0}
  /\ None \notin Clients

VARIABLES
  running,          \* d->running
  loop,             \* where wubu_daemon_run is
  backlog,          \* connections the kernel holds for accept
  serving,          \* the client whose descriptor the loop holds
  line,             \* what handle_command is given
  response,         \* what it left in the buffer
  mood,             \* g_emotion.mood, which decides arousal and valence
  link,             \* each client's connection, as the client sees it
  request,          \* the line each client sends
  sent,             \* how much of it has been sent
  reply,            \* what each client has received
  stopped           \* wubu_daemon_stop has been called

daemonVars == <<running, loop, backlog, serving, line, response, mood>>
clientVars == <<link, request, sent, reply>>
vars == <<daemonVars, clientVars, stopped>>

Ping == [cmd |-> "ping", mood |-> None]
Query == [cmd |-> "query", mood |-> None]
Fact == [cmd |-> "wiki_fact", mood |-> None]        \* with a key
Get == [cmd |-> "emotion_get", mood |-> None]
SetNothing == [cmd |-> "emotion_set", mood |-> None]
Unknown == [cmd |-> "unknown", mood |-> None]
Quit == [cmd |-> "quit", mood |-> None]
Malformed == [cmd |-> "malformed", mood |-> None]   \* not JSON, or no "cmd"

Requests ==
  {Ping, Query, Fact, Get, SetNothing, Unknown, Quit, Malformed}
    \union {[cmd |-> "emotion_set", mood |-> m] : m \in Moods}

Text(t) == [text |-> t, old |-> None, new |-> None]

Replies ==
  {Text(t) : t \in {"ok", "error", "quit", "data"}}
    \union [text : {"mood"}, old : Moods \union {Neutral, None}, new : Moods \union {Neutral}]

-----------------------------------------------------------------------------
Init ==
  /\ running = TRUE
  /\ loop = "check"
  /\ backlog = <<>>
  /\ serving = None
  /\ line = None
  /\ response = None
  /\ mood = Neutral
  /\ link = [c \in Clients |-> "new"]
  /\ request = [c \in Clients |-> None]
  /\ sent = [c \in Clients |-> "nothing"]
  /\ reply = [c \in Clients |-> None]
  /\ stopped = FALSE

(* Clients *)

Connect(c, r) ==
  /\ link[c] = "new"
  /\ loop \notin {"ended", "killed"}
  /\ Len(backlog) < Backlog
  /\ backlog' = Append(backlog, c)
  /\ link' = [link EXCEPT ![c] = "open"]
  /\ request' = [request EXCEPT ![c] = r]
  /\ UNCHANGED <<running, loop, serving, line, response, mood, sent, reply, stopped>>

\* The client's write: all of the line, or the rest of it.
Send(c) ==
  /\ link[c] = "open"
  /\ sent[c] # "all"
  /\ sent' = [sent EXCEPT ![c] = "all"]
  /\ UNCHANGED <<daemonVars, link, request, reply, stopped>>

\* Only the first bytes of the line have arrived.
SendPart(c) ==
  /\ link[c] = "open"
  /\ sent[c] = "nothing"
  /\ sent' = [sent EXCEPT ![c] = "part"]
  /\ UNCHANGED <<daemonVars, link, request, reply, stopped>>

HangUp(c) ==
  /\ link[c] = "open"
  /\ link' = [link EXCEPT ![c] = "gone"]
  /\ UNCHANGED <<daemonVars, request, sent, reply, stopped>>

\* wubu_daemon_stop, from a thread that knows d is still there
Stop ==
  /\ loop \notin {"ended", "killed"}
  /\ ~stopped
  /\ stopped' = TRUE
  /\ running' = FALSE
  /\ UNCHANGED <<loop, backlog, serving, line, response, mood, clientVars>>

-----------------------------------------------------------------------------
(* wubu_daemon_run *)

\* mutant: while (1)
CheckRunning_Forever ==
  /\ loop = "check"
  /\ loop' = "accept"
  /\ UNCHANGED <<running, backlog, serving, line, response, mood, clientVars, stopped>>

CheckRunning ==
  /\ loop = "check"
  /\ loop' = IF running THEN "accept" ELSE "leave"
  /\ UNCHANGED <<running, backlog, serving, line, response, mood, clientVars, stopped>>

Accept ==
  /\ loop = "accept"
  /\ backlog # <<>>
  /\ serving' = Head(backlog)
  /\ backlog' = Tail(backlog)
  /\ loop' = IF running THEN "read" ELSE "close"        \* while (d->running)
  /\ UNCHANGED <<running, line, response, mood, clientVars, stopped>>

\* accept fails for another reason than a signal: the loop is left.
AcceptFails ==
  /\ loop = "accept"
  /\ loop' = "leave"
  /\ UNCHANGED <<running, backlog, serving, line, response, mood, clientVars, stopped>>

\* mutant: the first bytes are taken for the line
Arrived_PartIsLine(c) == IF sent[c] = "nothing" THEN None ELSE request[c]

\* read returns what has arrived, or 0 when the client has hung up.
Arrived(c) ==
  CASE sent[c] = "all"  -> request[c]
    [] sent[c] = "part" -> Malformed
    [] OTHER            -> None

Read ==
  /\ loop = "read"
  /\ sent[serving] # "nothing" \/ link[serving] = "gone"
  /\ line' = Arrived(serving)
  /\ response' = None                                   \* response[0] = '\0'
  /\ loop' = IF Arrived(serving) = None THEN "close" ELSE "handle"
  /\ UNCHANGED <<running, backlog, serving, mood, clientVars, stopped>>

\* mutant: a missing mood is not noticed
SetMood_Unchecked ==
  /\ line.cmd = "emotion_set"
  /\ mood' = line.mood
  /\ response' = [text |-> "mood", old |-> mood, new |-> line.mood]
  /\ UNCHANGED running

\* handle_emotion_set, emotion_set
SetMood ==
  /\ line.cmd = "emotion_set" /\ line.mood # None
  /\ mood' = line.mood
  /\ response' = [text |-> "mood", old |-> mood, new |-> line.mood]
  /\ UNCHANGED running

QuitCommand ==
  /\ line = Quit
  /\ running' = FALSE
  /\ response' = Text("quit")
  /\ UNCHANGED mood

\* handle_ping, handle_stats, handle_wiki_*, handle_facts_all, handle_emotion_get
Answers ==
  CASE line = Ping       -> {Text("ok")}
    [] line = Query      -> {Text("data")}
    [] line = Fact       -> {Text("data"), Text("error")}
    [] line = Get        -> {[text |-> "mood", old |-> None, new |-> mood]}
    [] line = SetNothing -> {Text("error")}
    [] line = Unknown    -> {Text("error")}
    [] line = Malformed  -> {Text("error")}

Handle ==
  /\ loop = "handle"
  /\ \/ SetMood
     \/ QuitCommand
     \/ /\ line \in {Ping, Query, Fact, Get, SetNothing, Unknown, Malformed}
        /\ response' \in Answers
        /\ UNCHANGED <<running, mood>>
  /\ loop' = IF line = Malformed THEN "close" ELSE "reply"       \* rc == 0
  /\ UNCHANGED <<backlog, serving, line, clientVars, stopped>>

\* write(client_fd, response, rlen)
Reply ==
  /\ loop = "reply"
  /\ link[serving] = "open"
  /\ reply' = [reply EXCEPT ![serving] = response]
  /\ loop' = "newline"
  /\ UNCHANGED <<running, backlog, serving, line, response, mood,
                 link, request, sent, stopped>>

\* write(client_fd, "\n", 1)
EndLine ==
  /\ loop = "newline"
  /\ link[serving] = "open"
  /\ loop' = "close"
  /\ UNCHANGED <<running, backlog, serving, line, response, mood, clientVars, stopped>>

Disconnected(c) == IF link[c] = "open" THEN "closed" ELSE link[c]

\* The process dies and the kernel closes every connection.
Killed ==
  /\ loop' = "killed"
  /\ backlog' = <<>>
  /\ link' = [c \in Clients |-> Disconnected(c)]
  /\ UNCHANGED <<running, serving, line, response, mood, request, sent, reply, stopped>>

\* SIGPIPE is not handled: writing to a client that has hung up, be it only the
\* newline after an answer it has read, ends the process.
BrokenPipe ==
  /\ loop \in {"reply", "newline"}
  /\ link[serving] = "gone"
  /\ Killed

\* handle_wiki_fact frees its WikiFact also when the fact was not found and
\* nothing has been stored in it: what free does with such pointers may end the
\* process, or not (then Handle has answered with an error).
BadFree ==
  /\ loop = "handle"
  /\ line = Fact
  /\ Killed

\* mutant: the client's descriptor is not closed
CloseClient_Leaks ==
  /\ loop = "close"
  /\ serving' = None
  /\ loop' = "check"
  /\ UNCHANGED <<running, backlog, line, response, mood, clientVars, stopped>>

CloseClient ==
  /\ loop = "close"
  /\ link' = [link EXCEPT ![serving] = Disconnected(serving)]
  /\ serving' = None
  /\ loop' = "check"
  /\ UNCHANGED <<running, backlog, line, response, mood, request, sent, reply, stopped>>

\* close(sock_fd), unlink, wubu_daemon_free
Leave ==
  /\ loop = "leave"
  /\ backlog' = <<>>
  /\ link' = [c \in Clients |-> Disconnected(c)]
  /\ loop' = "ended"
  /\ UNCHANGED <<running, serving, line, response, mood, request, sent, reply, stopped>>

Run ==
  \/ CheckRunning \/ Accept \/ Read \/ Handle \/ Reply \/ EndLine \/ BrokenPipe \/ BadFree
  \/ CloseClient \/ Leave

Client(c) == (\E r \in Requests : Connect(c, r)) \/ Send(c) \/ SendPart(c) \/ HangUp(c)

Next == Run \/ AcceptFails \/ Stop \/ \E c \in Clients : Client(c)

Spec == Init /\ [][Next]_vars

\* The daemon's thread is scheduled, and a client that has connected sends its
\* line or hangs up; nobody has to connect, to hang up once its line is sent, or
\* to stop the daemon, and accept need not fail.
FairSpec ==
  /\ Spec
  /\ WF_vars(Run)
  /\ \A c \in Clients : WF_vars(Send(c) \/ (sent[c] # "all" /\ HangUp(c)))

-----------------------------------------------------------------------------
(* Properties *)

\* The server's and the clients' state keep their shapes.
TypeOK ==
  /\ running \in BOOLEAN
  /\ loop \in {"check", "accept", "read", "handle", "reply", "newline", "close", "leave", "ended", "killed"}
  /\ backlog \in Seq(Clients) /\ Len(backlog) <= Backlog
  /\ serving \in Clients \union {None}
  /\ line \in Requests \union {None}
  /\ response \in Replies \union {None}
  /\ mood \in Moods \union {Neutral}
  /\ link \in [Clients -> {"new", "open", "gone", "closed"}]
  /\ request \in [Clients -> Requests \union {None}]
  /\ sent \in [Clients -> {"nothing", "part", "all"}]
  /\ reply \in [Clients -> Replies \union {None}]
  /\ stopped \in BOOLEAN

\* What a client that sent request r may be told.
AnswersTo(r) ==
  CASE r = Ping                      -> {Text("ok")}
    [] r = Query                     -> {Text("data")}
    [] r = Fact                      -> {Text("data"), Text("error")}
    [] r = Quit                      -> {Text("quit")}
    [] r = Get                       -> [text : {"mood"}, old : {None}, new : Moods \union {Neutral}]
    [] r.mood # None                 -> [text : {"mood"}, old : Moods \union {Neutral}, new : {r.mood}]
    [] r \in {SetNothing, Unknown}   -> {Text("error")}
    [] OTHER                         -> {}

\* A reply goes to the client whose whole line it answers: never to a line cut
\* by the single read, never to the client served before.
ReplyAnswersOwnRequest ==
  \A c \in Clients :
    reply[c] # None => sent[c] = "all" /\ reply[c] \in AnswersTo(request[c])

\* A client never waits for ever: it is answered, or its connection is closed
\* without an answer (a line that is not a command, a daemon that ends).
ClientsReleased == \A c \in Clients : link[c] = "open" ~> link[c] # "open"

Down == loop \in {"ended", "killed"}

\* wubu_daemon_stop works when a connection is waiting: the loop closes it
\* unanswered and looks at the flag.
StopWithClientEndsRun == (stopped /\ backlog # <<>>) ~> Down
=============================================================================
