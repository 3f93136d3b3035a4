------------------------------ MODULE WubuSica ------------------------------
(***************************************************************************)
(* The two improvement schedulers of the C core.  wubu_sica.c: every       *)
(* interval, reset the repository, rebuild it, validate and commit, or     *)
(* roll back.  wubu_self.c: every interval, run six health checks.  Each   *)
(* runs in a thread of its own until its running flag is cleared.          *)
(*                                                                         *)
(* Every git and build command is a shell that runs while developers work  *)
(* in the same tree, and that may fail.  A command whose output nobody     *)
(* asked for (out = NULL) writes it to a pipe that has been closed and     *)
(* dies of SIGPIPE: so the rebuild's status is never 0 and no cycle gets   *)
(* to the stages Validate and Commit, nor to the counting of cycles, which *)
(* are left out here.  What the reports say is printed and dropped.        *)
(***************************************************************************)
EXTENDS Integers

CONSTANTS
  Contents,         \* what the tracked files may contain
  Interval,         \* seconds between two cycles
  MaxCycles,        \* bound on the cycles SICA begins
  MaxEdits,         \* bound on what the developers do
  MaxStarts         \* bound on the starts of each scheduler

ASSUME SicaAssumption ==
  /\ Contents # {}
  /\ Interval \in Nat \ {0}
  /\ MaxCycles \in Nat /\ MaxEdits \in Nat /\ MaxStarts \in Nat

Schedulers == {"sica", "self"}

VARIABLES
  head,             \* the content of the commit HEAD names
  tree,             \* the tracked files of the working tree
  extra,            \* the working tree holds untracked files
  running,          \* each scheduler's flag
  pc,               \* each scheduler's next step
  remaining,        \* seconds SICA has still to sleep
  begun, edits, starts, stopped    \* bounds; schedulers told to stop while they ran

repoVars == <<head, tree, extra>>
loopVars == <<running, pc, remaining>>
boundVars == <<begun, edits, starts, stopped>>
vars == <<repoVars, loopVars, boundVars>>

Init ==
  /\ head \in Contents
  /\ tree = head
  /\ extra = FALSE
  /\ running = [s \in Schedulers |-> FALSE]
  /\ pc = [s \in Schedulers |-> "idle"]
  /\ remaining = 0
  /\ begun = 0
  /\ edits = 0
  /\ starts = [s \in Schedulers |-> 0]
  /\ stopped = [s \in Schedulers |-> FALSE]

Goto(s, step) == pc' = [pc EXCEPT ![s] = step]

-----------------------------------------------------------------------------
(* The flags and the loops *)

\* run_scheduler sets its flag itself.
Start(s) ==
  /\ pc[s] = "idle"
  /\ starts[s] < MaxStarts
  /\ starts' = [starts EXCEPT ![s] = @ + 1]
  /\ running' = [running EXCEPT ![s] = TRUE]
  /\ stopped' = [stopped EXCEPT ![s] = FALSE]
  /\ Goto(s, "loop")
  /\ UNCHANGED <<repoVars, remaining, begun, edits>>

\* wubu_sica_stop, wubu_self_stop, from another thread
Stop(s) ==
  /\ running' = [running EXCEPT ![s] = FALSE]
  /\ stopped' = [stopped EXCEPT ![s] = pc[s] # "idle"]
  /\ UNCHANGED <<repoVars, pc, remaining, begun, edits, starts>>

\* mutant: while (1)
GoesOn_Always(s) == TRUE

GoesOn(s) == running[s]

\* while (s->running): the next cycle, or return
Loop(s) ==
  /\ pc[s] = "loop"
  /\ IF GoesOn(s)
       THEN /\ s = "sica" => begun < MaxCycles
            /\ begun' = IF s = "sica" THEN begun + 1 ELSE begun
            /\ Goto(s, IF s = "sica" THEN "clean" ELSE "check")
       ELSE Goto(s, "idle") /\ UNCHANGED begun
  /\ UNCHANGED <<repoVars, running, remaining, edits, starts, stopped>>

-----------------------------------------------------------------------------
(* A cycle of SICA *)

Step(from, to) == pc["sica"] = from /\ Goto("sica", to)

\* git reset --hard HEAD && git clean -fd; its result is ignored.  The reset may
\* fail, and when it succeeds it says so, into the closed pipe: the clean runs only
\* when that message got out before the pipe was closed.
GitRollback ==
  /\ UNCHANGED head
  /\ \/ UNCHANGED <<tree, extra>>
     \/ tree' = head /\ extra' \in {extra, FALSE}

Clean ==
  /\ Step("clean", "edit")
  /\ GitRollback
  /\ UNCHANGED <<running, remaining, boundVars>>

\* Capture, analyze and edit: tests and a rebuild, which leave the tree alone.
\* "tail -3" has the rebuild's last lines to write when the pipe has long been
\* closed: the status is SIGPIPE's whether the rebuild succeeded or not.
Edit ==
  /\ Step("edit", "undo_edit")
  /\ UNCHANGED <<repoVars, running, remaining, boundVars>>

\* The early return: rolled back, and the cycle is not counted.
UndoEdit ==
  /\ Step("undo_edit", "sleep")
  /\ GitRollback
  /\ remaining' = Interval
  /\ UNCHANGED <<running, boundVars>>

\* mutant: while (remaining >= 0 && s->running)
Awake_OneMore == remaining < 0 \/ ~running["sica"]

\* while (remaining > 0 && s->running)
Awake == remaining = 0 \/ ~running["sica"]

Sleep ==
  /\ pc["sica"] = "sleep"
  /\ IF Awake THEN Goto("sica", "loop") /\ UNCHANGED remaining
     ELSE remaining' = remaining - 1 /\ UNCHANGED pc
  /\ UNCHANGED <<repoVars, running, boundVars>>

-----------------------------------------------------------------------------
(* A cycle of the self-check, and the developers *)

\* The six checks; the scheduler drops their report.
SelfCheck ==
  /\ pc["self"] = "check"
  /\ Goto("self", "nap")
  /\ UNCHANGED <<repoVars, running, remaining, boundVars>>

\* One sleep of the whole interval.
Nap ==
  /\ pc["self"] = "nap"
  /\ Goto("self", "loop")
  /\ UNCHANGED <<repoVars, running, remaining, boundVars>>

Develop ==
  /\ edits < MaxEdits
  /\ edits' = edits + 1
  /\ \/ tree' \in Contents /\ UNCHANGED <<head, extra>>
     \/ extra' = ~extra /\ UNCHANGED <<head, tree>>
     \/ head' = tree /\ UNCHANGED <<tree, extra>>
  /\ UNCHANGED <<loopVars, begun, starts, stopped>>

SicaCycle == Clean \/ Edit \/ UndoEdit \/ Sleep

Next ==
  \/ SicaCycle \/ SelfCheck \/ Nap \/ Develop
  \/ \E s \in Schedulers : Start(s) \/ Stop(s) \/ Loop(s)

Spec == Init /\ [][Next]_vars

\* Each thread is scheduled and its shell commands end.
FairSpec == Spec /\ WF_vars(SicaCycle \/ Loop("sica")) /\ WF_vars(SelfCheck \/ Nap \/ Loop("self"))
-----------------------------------------------------------------------------
(* Properties *)

\* Repository, flags and steps keep their shapes.
TypeOK ==
  /\ head \in Contents /\ tree \in Contents
  /\ extra \in BOOLEAN
  /\ running \in [Schedulers -> BOOLEAN]
  /\ pc \in [Schedulers -> {"idle", "loop", "clean", "edit", "undo_edit", "sleep", "check", "nap"}]
  /\ remaining \in 0..Interval
  /\ begun \in 0..MaxCycles
  /\ edits \in 0..MaxEdits
  /\ starts \in [Schedulers -> 0..MaxStarts]
  /\ stopped \in [Schedulers -> BOOLEAN]

\* A scheduler told to stop while it runs returns, wherever in its cycle it was.
StopEndsSchedulers == \A s \in Schedulers : stopped[s] ~> pc[s] = "idle"
=============================================================================
