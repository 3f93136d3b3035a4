----------------------------- MODULE FaceState -----------------------------
(***************************************************************************)
(* face/face_state.json, the file the overlay polls.  push_face            *)
(* (wubu_cohost.py, called by the gateway's handlers and by the cohost's   *)
(* loop and ears threads) and set_speaking (wubu_speak.py, a process per   *)
(* spoken line) read it, merge their fields, write one                     *)
(* shared temporary name and os.replace it.  obs_push (wubudesk_loop.py)   *)
(* and the screen reader (wubu_see.py) truncate and write it in place.     *)
(* Nobody takes a lock.                                                    *)
(*                                                                         *)
(* A name points to a file (inode); a descriptor keeps the file it was     *)
(* opened on.  The file a push creates carries the push's number, and so   *)
(* does the value of each field the push sets.                             *)
(***************************************************************************)
EXTENDS Naturals

CONSTANTS
  Processes,        \* a partition of the writers: a process ends with all its threads
  Pushers,          \* writers that call push_face
  Speakers,         \* writers that call set_speaking
  Overwriters,      \* writers that write in place
  Fields,           \* text, mood, heard, speaking, ...
  DeskFields,       \* the fields obs_push writes
  MaxPushes,        \* bound on the calls
  Empty,            \* a file just truncated
  Torn,             \* the tail of a longer text after a shorter one
  None              \* no file, no descriptor

Writers == Pushers \union Speakers \union Overwriters

ASSUME FaceAssumption ==
  /\ MaxPushes \in Nat
  /\ UNION Processes = Writers
  /\ Overwriters \intersect (Pushers \union Speakers) = {}
  /\ DeskFields \subseteq Fields
  /\ None \notin Nat

VARIABLES
  file,             \* what each file contains
  live,             \* the file face_state.json names
  tmp,              \* the file face_state.json.tmp names
  pc,               \* each writer's next step
  call,             \* the locals of its call
  fd,               \* the file it has open
  pushes,           \* calls so far
  disturbed         \* calls met, or a file was written in place, since a call alone published

fileVars == <<file, live, tmp>>
callVars == <<pc, call, fd, pushes>>
vars == <<fileVars, callVars, disturbed>>

Files == 0..MaxPushes
States == [Fields -> 0..MaxPushes]
Readable(i) == file[i] \in States
Blank == [f \in Fields |-> 0]

\* draft: the state about to be written; kw: the fields the call sets; num: its
\* number; alone (history): nobody else has been in a call during this one
Calls == [draft : States, kw : SUBSET Fields, num : 0..MaxPushes, alone : BOOLEAN]
NoCall == [draft |-> Blank, kw |-> {}, num |-> 0, alone |-> FALSE]

Init ==
  /\ file = [i \in Files |-> IF i = 0 THEN Blank ELSE Empty]
  /\ live = 0
  /\ tmp = None
  /\ pc = [w \in Writers |-> "idle"]
  /\ call = [w \in Writers |-> NoCall]
  /\ fd = [w \in Writers |-> None]
  /\ pushes = 0
  /\ disturbed = FALSE

-----------------------------------------------------------------------------
Merge(state, fields, n) == [f \in Fields |-> IF f \in fields THEN n ELSE state[f]]

\* mutant: state = {}; state.update(kw)
Loaded_Forgets(fields, n) == Merge(Blank, fields, n)

\* json.load of the file, or {} if it cannot be read; state.update(kw)
Loaded(fields, n) == Merge(IF Readable(live) THEN file[live] ELSE Blank, fields, n)

Others(w) == {v \in Writers : v # w /\ pc[v] # "idle"}

\* A call of w that writes the fields K begins and will go on at step.
Begin(w, K, state, step, inPlace) ==
  /\ pc[w] = "idle"
  /\ pushes < MaxPushes
  /\ pushes' = pushes + 1
  /\ call' = [v \in Writers |->
                IF v # w THEN [call[v] EXCEPT !.alone = FALSE]
                ELSE [draft |-> state, kw |-> K, num |-> pushes', alone |-> Others(w) = {}]]
  /\ pc' = [pc EXCEPT ![w] = step]
  /\ disturbed' = (disturbed \/ Others(w) # {} \/ inPlace)
  /\ UNCHANGED <<fileVars, fd>>

End(w) ==
  /\ pc' = [pc EXCEPT ![w] = "idle"]
  /\ call' = [call EXCEPT ![w] = NoCall]

\* push_face; set_speaking, where an unreadable file raises out of the call
Load(w, K) ==
  /\ w \in Pushers \/ (w \in Speakers /\ Readable(live))
  /\ Begin(w, K, Loaded(K, pushes + 1), "open_tmp", FALSE)

\* obs_push: a new object with its own fields only
PushInPlace(w) ==
  /\ w \in Overwriters
  /\ Begin(w, DeskFields, Merge(Blank, DeskFields, pushes + 1), "open_live", TRUE)

\* wubu_see.py and speak's deferred line: merged, then written in place
EditInPlace(w, K) ==
  /\ w \in Overwriters
  /\ Readable(live)
  /\ Begin(w, K, Loaded(K, pushes + 1), "open_live", TRUE)

\* mutant: open(tmp, "a")
OpenTmp_Appends(w) ==
  /\ pc[w] = "open_tmp"
  /\ tmp' = IF tmp = None THEN call[w].num ELSE tmp
  /\ fd' = [fd EXCEPT ![w] = tmp']
  /\ pc' = [pc EXCEPT ![w] = "write"]
  /\ UNCHANGED <<file, live, call, pushes, disturbed>>

\* open(tmp, "w") creates the file or truncates the one of that name.
OpenTmp(w) ==
  /\ pc[w] = "open_tmp"
  /\ tmp' = IF tmp = None THEN call[w].num ELSE tmp
  /\ file' = [file EXCEPT ![tmp'] = Empty]
  /\ fd' = [fd EXCEPT ![w] = tmp']
  /\ pc' = [pc EXCEPT ![w] = "write"]
  /\ UNCHANGED <<live, call, pushes, disturbed>>

OpenLive(w) ==
  /\ pc[w] = "open_live"
  /\ file' = [file EXCEPT ![live] = Empty]
  /\ fd' = [fd EXCEPT ![w] = live]
  /\ pc' = [pc EXCEPT ![w] = "write"]
  /\ UNCHANGED <<live, tmp, call, pushes, disturbed>>

\* The buffered text reaches the file when it is closed: over an empty file it
\* is the draft, over a text another writer put there it may leave its tail.
Flush(w) ==
  /\ pc[w] = "write"
  /\ \E text \in {call[w].draft} \union (IF file[fd[w]] = Empty THEN {} ELSE {Torn}) :
       file' = [file EXCEPT ![fd[w]] = text]
  /\ fd' = [fd EXCEPT ![w] = None]
  /\ IF w \in Overwriters
       THEN End(w)
       ELSE pc' = [pc EXCEPT ![w] = "replace"] /\ UNCHANGED call
  /\ UNCHANGED <<live, tmp, pushes, disturbed>>

\* mutant: os.replace of a name that is gone is not noticed
Replace_Unchecked(w) ==
  /\ pc[w] = "replace"
  /\ live' = tmp
  /\ tmp' = None
  /\ End(w)
  /\ disturbed' = (disturbed /\ ~call[w].alone)
  /\ UNCHANGED <<file, fd, pushes>>

\* os.replace(tmp, path)
Replace(w) ==
  /\ pc[w] = "replace"
  /\ tmp # None
  /\ live' = tmp
  /\ tmp' = None
  /\ End(w)
  /\ disturbed' = (disturbed /\ ~call[w].alone)
  /\ UNCHANGED <<file, fd, pushes>>

\* os.replace fails and the exception is dropped: another writer has taken the
\* temporary name, or somebody has a file open where that forbids it (Windows).
Refused(w) ==
  /\ pc[w] = "replace"
  /\ End(w)
  /\ UNCHANGED <<fileVars, fd, pushes, disturbed>>

\* The watchdog's restart, a crash, or wubudesk_loop.py ending wubu_speak.py
\* mid-line: every thread of the process stops, its descriptors close.
Kill(P) ==
  /\ \E w \in P : pc[w] # "idle"
  /\ pc' = [w \in Writers |-> IF w \in P THEN "idle" ELSE pc[w]]
  /\ call' = [w \in Writers |-> IF w \in P THEN NoCall ELSE call[w]]
  /\ fd' = [w \in Writers |-> IF w \in P THEN None ELSE fd[w]]
  /\ UNCHANGED <<fileVars, pushes, disturbed>>

Step(w) ==
  \/ \E K \in SUBSET Fields \ {{}} : Load(w, K) \/ EditInPlace(w, K)
  \/ PushInPlace(w)
  \/ OpenTmp(w) \/ OpenLive(w) \/ Flush(w) \/ Replace(w) \/ Refused(w)

Next == (\E w \in Writers : Step(w)) \/ (\E P \in Processes : Kill(P))

Spec == Init /\ [][Next]_vars

-----------------------------------------------------------------------------
(* Properties *)

\* Files, names and calls keep their shapes.
TypeOK ==
  /\ file \in [Files -> States \union {Empty, Torn}]
  /\ live \in Files
  /\ tmp \in Files \union {None}
  /\ pc \in [Writers -> {"idle", "open_tmp", "open_live", "write", "replace"}]
  /\ call \in [Writers -> Calls]
  /\ fd \in [Writers -> Files \union {None}]
  /\ pushes \in 0..MaxPushes
  /\ disturbed \in BOOLEAN

\* Whatever the writers did before, whoever was killed and whatever it left
\* under the temporary name: once a push ran alone and was published, the
\* overlay reads whole states until calls meet again or a file is written in
\* place.
UndisturbedIsReadable == ~disturbed => Readable(live)

\* A push that nobody met publishes the state of the moment with its fields
\* set: no other field is lost and none of its own.
LonePushMerges ==
  [][\A w \in Writers :
       Replace(w) /\ call[w].alone =>
         file[tmp] = Merge(IF Readable(live) THEN file[live] ELSE Blank, call[w].kw, call[w].num)]_vars

\* "atomic: overlay never reads a half-written file" (wubu_cohost.py:134)
NeverHalfWritten == Readable(live)
=============================================================================
