------------------------------ MODULE WubuObs ------------------------------
(***************************************************************************)
(* wubu_obs.py: ObsCohost, the client that drives OBS Studio.  A call      *)
(* sends its request and waits for the answer with the same id; on a       *)
(* timeout, an error or a refusal it sends the request again under a new   *)
(* id, up to max_retries times, and after some of them it connects anew.   *)
(* OBS may answer late, refuse, crash and come back, and the connection    *)
(* may die with requests and answers in flight.                            *)
(*                                                                         *)
(* OBS is external.  It serves requests one after the other in the order   *)
(* they arrive ("OBS serialises requests on its end anyway", wubu_obs.py:  *)
(* 51), also those of a connection that is closed by now, or it drops      *)
(* these.  Of its state there is what the requests below tell apart; the   *)
(* hotkey is one that toggles the mute.                                    *)
(***************************************************************************)
EXTENDS Integers, Sequences, SequencesExt

CONSTANTS
  Scenes,           \* names of scenes, each also the request to switch to it
  MaxRetries,       \* max_retries
  MaxCalls,         \* bound on calls
  MaxDeaths         \* bound on crashes of OBS and deaths of the connection

Commands == {"start", "stop", "hotkey", "read", "mute", "unmute"}

ASSUME ObsAssumption ==
  /\ Scenes \intersect Commands = {}
  /\ MaxRetries \in Nat /\ MaxCalls \in Nat /\ MaxDeaths \in Nat

VARIABLES
  up,               \* OBS runs
  scene,            \* the program scene
  muted,            \* the input is muted
  recording,        \* OBS records
  queue,            \* requests OBS has not looked at
  ws,               \* _ws: "none", "open", or "dead" when the peer is gone
  inbox,            \* answers that arrived on the connection
  msgId,            \* _msg_id
  pc,               \* where the client is: "idle", "send" or "recv"
  request,          \* the request of the call
  attempt,          \* the attempt in _call
  calls, deaths,    \* bounds
  since,            \* history: _msg_id when the request was first sent
  carried,          \* history: times OBS carried the request out
  troubles,         \* history: timeouts and dead connections in the call
  last,             \* history: the request that returned last
  lost              \* history: OBS crashed since the request was first sent

obsVars == <<up, scene, muted, recording, queue>>
history == <<since, carried, troubles, last, lost>>
clientVars == <<msgId, pc, request, attempt>>
vars == <<obsVars, ws, inbox, clientVars, calls, deaths, history>>

Init ==
  /\ up \in BOOLEAN /\ scene \in Scenes /\ muted = FALSE /\ recording = FALSE
  /\ queue = <<>> /\ ws = "none" /\ inbox = <<>>
  /\ msgId = 0 /\ pc = "idle" /\ request = "read" /\ attempt = 0
  /\ calls = 0 /\ deaths = 0
  /\ since = 0 /\ carried = 0 /\ troubles = 0 /\ last = <<>> /\ lost = FALSE

-----------------------------------------------------------------------------
(* Connections *)

\* Requests whose connection is closed will not be answered.
Orphaned(q) == [i \in DOMAIN q |-> [q[i] EXCEPT !.open = FALSE]]

\* _reconnect: the old connection is closed; max_retries attempts later there
\* is a new one or none.
Reconnect(done) ==
  /\ done => up
  /\ ws' = IF done THEN "open" ELSE "none"
  /\ inbox' = <<>>
  /\ queue' = Orphaned(queue)

\* connect: nothing is done as long as there is a socket, dead or not.
Connect ==
  /\ pc = "idle" /\ ws = "none"
  /\ \E done \in BOOLEAN : Reconnect(done)
  /\ UNCHANGED <<up, scene, muted, recording, clientVars, calls, deaths, history>>

Close ==
  /\ pc = "idle" /\ ws # "none"
  /\ Reconnect(FALSE)
  /\ UNCHANGED <<up, scene, muted, recording, clientVars, calls, deaths, history>>

-----------------------------------------------------------------------------
(* _call *)

\* set_scene, start_record, stop_record, trigger_hotkey, and the first half of
\* mute_source
Begin ==
  /\ pc = "idle"
  /\ calls < MaxCalls /\ calls' = calls + 1
  /\ request' \in Scenes \union {"start", "stop", "hotkey", "read"}
  /\ pc' = "send" /\ attempt' = 0
  /\ since' = msgId /\ carried' = 0 /\ troubles' = 0 /\ last' = <<>> /\ lost' = FALSE
  /\ UNCHANGED <<obsVars, ws, inbox, msgId, deaths>>

Retry == pc' = "send" /\ attempt' = attempt + 1

\* No socket: one attempt to get one, and another in the handler of the error
\* that the first one raises.
SendUnconnected ==
  /\ pc = "send" /\ attempt <= MaxRetries /\ ws = "none"
  /\ \/ Reconnect(TRUE) /\ UNCHANGED <<pc, attempt>>
     \/ \E done \in BOOLEAN : Reconnect(done) /\ Retry
  /\ UNCHANGED <<up, scene, muted, recording, msgId, request, calls, deaths, history>>

\* What is written into a dead connection may be lost without an error.
Send ==
  /\ pc = "send" /\ attempt <= MaxRetries /\ ws # "none"
  /\ msgId' = msgId + 1
  /\ queue' = IF ws = "open"
              THEN Append(queue, [id |-> msgId + 1, what |-> request, open |-> TRUE])
              ELSE queue
  /\ pc' = "recv"
  /\ UNCHANGED <<up, scene, muted, recording, ws, inbox, request, attempt, calls, deaths, history>>

\* mutant: a send that fails is repeated without end
SendFails_Forever ==
  /\ pc = "send" /\ ws = "dead"
  /\ msgId' = msgId + 1
  /\ Retry
  /\ UNCHANGED <<obsVars, ws, inbox, request, calls, deaths, history>>

\* The socket raises; nobody replaces it.
SendFails ==
  /\ pc = "send" /\ attempt <= MaxRetries /\ ws = "dead"
  /\ msgId' = msgId + 1
  /\ Retry
  /\ UNCHANGED <<obsVars, ws, inbox, request, calls, deaths, history>>

\* The last error is raised.
GiveUp ==
  /\ pc = "send" /\ attempt > MaxRetries
  /\ pc' = "idle"
  /\ UNCHANGED <<obsVars, ws, inbox, msgId, request, attempt, calls, deaths, history>>

\* mutant: the next answer is taken for the answer
Expected_Any(answer) == TRUE

Expected(answer) == answer.id = msgId

\* mutant: an answer to an earlier attempt is an error
Ignore_Retries(answer) == ~Expected(answer) /\ Retry

\* _recv goes on reading.
Ignore(answer) == ~Expected(answer) /\ UNCHANGED <<pc, attempt>>

\* Whatever the code of the error: the exception that is to end the call is
\* caught like any other (wubu_obs.py:152).
Refused(answer) == Expected(answer) /\ ~answer.ok /\ Retry

Unanswered(answer) ==
  /\ Ignore(answer) \/ Refused(answer)
  /\ UNCHANGED <<request, history>>

\* mute_source, having read the mute, sets its opposite, or what it was asked
\* for, with a second call.
Continue(answer) ==
  /\ Expected(answer) /\ answer.ok /\ request = "read"
  /\ request' \in {"mute", "unmute"}
  /\ pc' = "send" /\ attempt' = 0
  /\ since' = msgId /\ carried' = 0 /\ troubles' = 0 /\ lost' = FALSE /\ UNCHANGED last

Return(answer) ==
  /\ Expected(answer) /\ answer.ok /\ request # "read"
  /\ pc' = "idle" /\ last' = <<request>>
  /\ UNCHANGED <<request, attempt, since, carried, troubles, lost>>

Receive ==
  /\ pc = "recv" /\ inbox # <<>>
  /\ inbox' = Tail(inbox)
  /\ LET answer == Head(inbox)
     IN Unanswered(answer) \/ Continue(answer) \/ Return(answer)
  /\ UNCHANGED <<obsVars, ws, msgId, calls, deaths>>

\* mutant: the socket has no timeout
TimeOut_Unset ==
  /\ pc = "recv" /\ ws = "open" /\ inbox # <<>>
  /\ Retry
  /\ troubles' = troubles + 1
  /\ UNCHANGED <<obsVars, ws, inbox, msgId, request, calls, deaths, since, carried, last, lost>>

\* Nothing came: the timeout of the socket is not an ObsError, and the
\* connection is kept.
TimeOut ==
  /\ pc = "recv" /\ ws = "open" /\ inbox = <<>>
  /\ Retry
  /\ troubles' = troubles + 1
  /\ UNCHANGED <<obsVars, ws, inbox, msgId, request, calls, deaths, since, carried, last, lost>>

\* The deadline is looked at between two messages only: events of a running
\* OBS, or answers to earlier attempts, came until it was over.
DeadlinePassed ==
  /\ pc = "recv"
  /\ \/ up /\ ws = "open"
     \/ inbox # <<>> /\ ~Expected(Head(inbox))
  /\ \E done \in BOOLEAN : Reconnect(done)
  /\ Retry
  /\ troubles' = troubles + 1
  /\ UNCHANGED <<up, scene, muted, recording, msgId, request, calls, deaths, since, carried, last, lost>>

ReceiveFails ==
  /\ pc = "recv" /\ ws = "dead" /\ inbox = <<>>
  /\ Retry
  /\ troubles' = troubles + 1
  /\ UNCHANGED <<obsVars, ws, inbox, msgId, request, calls, deaths, since, carried, last, lost>>

-----------------------------------------------------------------------------
(* OBS and the network *)

Accepts(what) == CASE what = "start" -> ~recording [] what = "stop" -> recording [] OTHER -> TRUE

Effect(what) ==
  /\ scene' = IF what \in Scenes THEN what ELSE scene
  /\ muted' = IF what = "hotkey" THEN ~muted ELSE what = "mute" \/ (muted /\ what # "unmute")
  /\ recording' = (what = "start" \/ (recording /\ what # "stop"))

\* The request that came first is served; a refusal changes nothing.
Serve ==
  /\ up /\ queue # <<>>
  /\ LET r == Head(queue)
         ok == Accepts(r.what)
     IN /\ Effect(r.what)
        /\ carried' = IF ok /\ r.id > since THEN carried + 1 ELSE carried
        /\ inbox' = IF r.open
                    THEN Append(inbox, [id |-> r.id, ok |-> ok])
                    ELSE inbox
  /\ queue' = Tail(queue)
  /\ UNCHANGED <<up, ws, clientVars, calls, deaths, since, troubles, last, lost>>

\* A request of a closed connection is dropped.
Drop ==
  /\ queue # <<>> /\ ~Head(queue).open
  /\ queue' = Tail(queue)
  /\ UNCHANGED <<up, scene, muted, recording, ws, inbox, clientVars, calls, deaths, history>>

\* The connection breaks with answers on their way.
Broken ==
  /\ ws' = IF ws = "none" THEN "none" ELSE "dead"
  /\ \E n \in 0..Len(inbox) : inbox' = SubSeq(inbox, 1, n)

Die ==
  /\ ws = "open"
  /\ deaths < MaxDeaths /\ deaths' = deaths + 1
  /\ Broken
  /\ queue' = Orphaned(queue)
  /\ UNCHANGED <<up, scene, muted, recording, clientVars, calls, history>>

\* OBS will come back with the scene and the mute it saved some time before.
Crash ==
  /\ up
  /\ deaths < MaxDeaths /\ deaths' = deaths + 1
  /\ up' = FALSE /\ queue' = <<>>
  /\ scene' \in Scenes /\ muted' \in BOOLEAN /\ recording' = FALSE
  /\ Broken
  /\ lost' = TRUE
  /\ UNCHANGED <<clientVars, calls, since, carried, troubles, last>>

ComeUp ==
  /\ ~up /\ up' = TRUE
  /\ UNCHANGED <<scene, muted, recording, queue, ws, inbox, clientVars, calls, deaths, history>>

-----------------------------------------------------------------------------
InCall ==
  \/ SendUnconnected \/ Send \/ SendFails \/ GiveUp
  \/ Receive \/ TimeOut \/ ReceiveFails

Next ==
  \/ Connect \/ Close \/ Begin \/ InCall \/ DeadlinePassed
  \/ Serve \/ Drop \/ Die \/ Crash \/ ComeUp

Spec == Init /\ [][Next]_vars

\* The client's thread is scheduled.  OBS need not answer, nor run, nor send
\* the events that let a deadline pass.
FairSpec == Spec /\ WF_vars(InCall)

-----------------------------------------------------------------------------
(* Properties *)

Requests == Scenes \union Commands

\* OBS, the connection and the client keep their shapes: no request and no
\* answer has an id the client has not given, and no call tries more often than
\* max_retries + 1 times.
TypeOK ==
  /\ up \in BOOLEAN /\ scene \in Scenes /\ muted \in BOOLEAN /\ recording \in BOOLEAN
  /\ queue \in Seq([id : 1..msgId, what : Requests, open : BOOLEAN])
  /\ inbox \in Seq([id : 1..msgId, ok : BOOLEAN])
  /\ ws \in {"none", "open", "dead"}
  /\ pc \in {"idle", "send", "recv"}
  /\ request \in Requests
  /\ attempt \in 0..(MaxRetries + 1)
  /\ since \in 0..msgId
  /\ last \in Seq(Requests) /\ lost \in BOOLEAN

Holds(what) ==
  /\ what \in Scenes => scene = what
  /\ what = "mute" => muted
  /\ what = "unmute" => ~muted
  /\ what = "start" => recording
  /\ what = "stop" => ~recording

\* A call that returns was carried out, and until the next call (or a crash of
\* OBS) its effect stays: no request of an earlier attempt or of a call that
\* was given up is served late and undoes it.
ReturnedHolds == last # <<>> => carried > 0 /\ (lost \/ Holds(last[1]))

\* OBS carries a request out again (the hotkey is triggered twice) only for a
\* timeout or a lost connection each: late answers to earlier attempts do not
\* set off further ones.
RepeatsAreExplained == carried <= 1 + troubles

\* Every call returns or raises, though OBS may never answer or never run.
CallEnds == pc # "idle" ~> pc = "idle"
=============================================================================
