----------------------------- MODULE WubuWatch -----------------------------
(***************************************************************************)
(* wubu_watch.py, monitor: the watchdog that starts the cohost, reads its  *)
(* output through a pipe, looks at its memory and starts it again with a   *)
(* growing delay when it ends.  The cohost runs, prints, grows, starts     *)
(* helper processes that inherit its pipe, and exits when it likes.        *)
(*                                                                         *)
(* Cohosts are numbered in the order they were started; a number stands    *)
(* for the Popen object and for its process id.  A line is ordinary or has *)
(* "Traceback" or "Error" in it.  Prints and the stale-overlay warning are *)
(* left out.                                                               *)
(***************************************************************************)
EXTENDS Integers, Sequences

CONSTANTS
  MinDelay,         \* 5 s
  MAX_RESTART_DELAY,
  PipeSize,         \* lines a pipe holds
  MaxLaunches       \* bound on the cohosts started

ASSUME WatchAssumption ==
  /\ MinDelay \in Nat \ {0}
  /\ MAX_RESTART_DELAY \in Nat /\ MAX_RESTART_DELAY >= MinDelay
  /\ PipeSize \in Nat \ {0}
  /\ MaxLaunches \in Nat

Cohosts == 1..MaxLaunches

VARIABLES
  launched,         \* cohosts started so far
  running,          \* those whose process lives
  over,             \* those that have grown over the memory limit
  clean,            \* those that exited with code 0
  helpers,          \* those with a helper process that holds their pipe open
  lines,            \* unread lines in the pipe of proc
  pc,               \* where monitor is
  proc,             \* local proc
  pid,              \* local pid, 0 for None
  crash_reason,     \* a crash_reason is set
  exit_code,        \* the code read after the inner loop is 0
  restart_delay,
  memDue,           \* more than CHECK_INTERVAL * 6 since last_mem_check
  complained,       \* history: cohosts that printed an error line
  abandoned         \* history: cohosts alive when their successor was started

cohostVars == <<launched, running, over, clean, helpers>>
localVars == <<proc, pid, crash_reason, exit_code, restart_delay>>
vars == <<cohostVars, lines, pc, localVars, memDue, complained, abandoned>>

Init ==
  /\ launched = 0
  /\ running = {} /\ over = {} /\ clean = {} /\ helpers = {}
  /\ lines = <<>>
  /\ pc = "start"
  /\ proc = 0 /\ pid = 0
  /\ crash_reason = FALSE /\ exit_code = FALSE
  /\ restart_delay = MinDelay
  /\ memDue = TRUE
  /\ complained = {} /\ abandoned = {}

AtMost(a, b) == IF a < b THEN a ELSE b
AtLeast(a, b) == IF a > b THEN a ELSE b

\* mutant: without the min
Longer_Uncapped(d) == d + d \div 2

\* restart_delay * 1.5 and * 0.5, in whole units of time
Longer(d) == AtMost(d + d \div 2, MAX_RESTART_DELAY)
Shorter(d) == AtLeast(MinDelay, d \div 2)

Goto(step) == pc' = step

-----------------------------------------------------------------------------
(* The watchdog                                                            *)

\* Popen; binding proc again closes the pipe of the previous cohost.
Spawn ==
  /\ pc = "start"
  /\ launched < MaxLaunches
  /\ launched' = launched + 1
  /\ proc' = launched + 1
  /\ running' = running \union {launched + 1}
  /\ lines' = <<>>
  /\ abandoned' = abandoned \union running
  /\ Goto("spawned")
  /\ UNCHANGED <<over, clean, helpers, pid, crash_reason, exit_code, restart_delay, memDue,
                 complained>>

SpawnFails ==
  /\ pc = "start"
  /\ restart_delay' = Longer(restart_delay)
  /\ UNCHANGED <<cohostVars, lines, pc, proc, pid, crash_reason, exit_code, memDue,
                 complained, abandoned>>

\* mutant: crash_reason is set to None once, before the outer loop
AssignPid_KeepsReason ==
  /\ pc = "spawned"
  /\ pid' = proc
  /\ Goto("poll")
  /\ UNCHANGED <<cohostVars, lines, proc, crash_reason, exit_code, restart_delay, memDue,
                 complained, abandoned>>

AssignPid ==
  /\ pc = "spawned"
  /\ pid' = proc
  /\ crash_reason' = FALSE
  /\ Goto("poll")
  /\ UNCHANGED <<cohostVars, lines, proc, exit_code, restart_delay, memDue, complained, abandoned>>

\* while proc.poll() is None
Poll ==
  /\ pc = "poll"
  /\ Goto(IF proc \in running THEN "memory" ELSE "exited")
  /\ UNCHANGED <<cohostVars, lines, localVars, memDue, complained, abandoned>>

\* Over the limit: break.  A process that has just died has no memory to read.
CheckMemory ==
  /\ pc = "memory"
  /\ IF memDue /\ proc \in running \intersect over
     THEN crash_reason' = TRUE /\ Goto("exited") /\ UNCHANGED memDue
     ELSE memDue' = FALSE /\ Goto("read") /\ UNCHANGED crash_reason
  /\ UNCHANGED <<cohostVars, lines, proc, pid, exit_code, restart_delay, complained, abandoned>>

\* mutant: a line with an error in it ends the loop
ReadLine_BreaksOnError ==
  /\ pc = "read"
  /\ \/ /\ lines # <<>>
        /\ lines' = Tail(lines)
        /\ crash_reason' = (crash_reason \/ Head(lines) = "error")
        /\ Goto(IF Head(lines) = "error" THEN "exited" ELSE "poll")
     \/ /\ lines = <<>> /\ proc \notin running \union helpers
        /\ Goto("poll")
        /\ UNCHANGED <<lines, crash_reason>>
  /\ UNCHANGED <<cohostVars, proc, pid, exit_code, restart_delay, memDue, complained, abandoned>>

\* mutant: the end of the output does not wake the reader
ReadLine_NoEnd ==
  /\ pc = "read"
  /\ lines # <<>>
  /\ lines' = Tail(lines)
  /\ crash_reason' = (crash_reason \/ Head(lines) = "error")
  /\ Goto("poll")
  /\ UNCHANGED <<cohostVars, proc, pid, exit_code, restart_delay, memDue, complained, abandoned>>

\* proc.stdout.readline(): a line, or the end of the output once nobody holds
\* the pipe; it waits for as long as neither is there.
ReadLine ==
  /\ pc = "read"
  /\ \/ /\ lines # <<>>
        /\ lines' = Tail(lines)
        /\ crash_reason' = (crash_reason \/ Head(lines) = "error")
     \/ /\ lines = <<>> /\ proc \notin running \union helpers
        /\ UNCHANGED <<lines, crash_reason>>
  /\ Goto("poll")
  /\ UNCHANGED <<cohostVars, proc, pid, exit_code, restart_delay, memDue, complained, abandoned>>

\* The inner loop is over: exit_code = proc.poll()
ReadExitCode ==
  /\ pc = "exited"
  /\ exit_code' = (proc \in clean)
  /\ Goto("sleep")
  /\ UNCHANGED <<cohostVars, lines, proc, pid, crash_reason, restart_delay, memDue,
                 complained, abandoned>>

\* The sleep of the old delay is over.
Wake ==
  /\ pc = "sleep"
  /\ restart_delay' = IF crash_reason \/ ~exit_code THEN Longer(restart_delay)
                                                    ELSE Shorter(restart_delay)
  /\ pid' = 0
  /\ Goto("start")
  /\ UNCHANGED <<cohostVars, lines, proc, crash_reason, exit_code, memDue, complained, abandoned>>

\* mutant: the handler signals the pid only while the inner loop runs
Stop_InLoopOnly ==
  /\ pc # "stopped"
  /\ running' = IF pc \in {"poll", "memory", "read"} THEN running \ {pid} ELSE running
  /\ Goto("stopped")
  /\ UNCHANGED <<launched, over, clean, helpers, lines, localVars, memDue, complained, abandoned>>

\* signal_handler, on SIGTERM or SIGINT: it may run between any two steps and
\* cuts the sleep and the read short.
Stop ==
  /\ pc # "stopped"
  /\ running' = running \ {pid}
  /\ Goto("stopped")
  /\ UNCHANGED <<launched, over, clean, helpers, lines, localVars, memDue, complained, abandoned>>

MemoryInterval ==
  /\ ~memDue
  /\ memDue' = TRUE
  /\ UNCHANGED <<cohostVars, lines, pc, localVars, complained, abandoned>>

-----------------------------------------------------------------------------
(* The cohosts                                                             *)

\* A full pipe blocks the cohost; what a replaced cohost prints is not read.
PrintLine(c) ==
  /\ c \in running /\ c = proc
  /\ Len(lines) < PipeSize
  /\ \/ lines' = Append(lines, "plain") /\ UNCHANGED complained
     \/ lines' = Append(lines, "error") /\ complained' = complained \union {c}
  /\ UNCHANGED <<cohostVars, pc, localVars, memDue, abandoned>>

Grow(c) ==
  /\ c \in running \ over
  /\ over' = over \union {c}
  /\ UNCHANGED <<launched, running, clean, helpers, lines, pc, localVars, memDue,
                 complained, abandoned>>

Exit(c) ==
  /\ c \in running
  /\ running' = running \ {c}
  /\ clean' \in {clean, clean \union {c}}
  /\ UNCHANGED <<launched, over, helpers, lines, pc, localVars, memDue, complained, abandoned>>

\* The speech process that wubudesk_loop.py starts inherits standard output.
StartHelper(c) ==
  /\ c \in running \ helpers
  /\ helpers' = helpers \union {c}
  /\ UNCHANGED <<launched, running, over, clean, lines, pc, localVars, memDue,
                 complained, abandoned>>

HelperEnds(c) ==
  /\ c \in helpers
  /\ helpers' = helpers \ {c}
  /\ UNCHANGED <<launched, running, over, clean, lines, pc, localVars, memDue,
                 complained, abandoned>>

Monitor ==
  Spawn \/ AssignPid \/ Poll \/ CheckMemory \/ ReadLine \/ ReadExitCode \/ Wake

Next ==
  \/ Monitor \/ SpawnFails \/ Stop \/ MemoryInterval
  \/ \E c \in Cohosts :
       PrintLine(c) \/ Grow(c) \/ Exit(c) \/ StartHelper(c) \/ HelperEnds(c)

Spec == Init /\ [][Next]_vars

\* The watchdog's thread runs, Popen does not fail for ever and a helper ends
\* when its sentence is spoken.  Nothing makes a cohost print or exit.
FairSpec ==
  /\ Spec
  /\ WF_vars(Monitor)
  /\ \A c \in Cohosts : WF_vars(HelperEnds(c))

-----------------------------------------------------------------------------
(* Properties *)

Places == {"start", "spawned", "poll", "memory", "read", "exited", "sleep", "stopped"}

\* The monitor's locals, the pipe and the sets of cohosts keep their shapes,
\* and the delay stays between its two limits.
TypeOK ==
  /\ launched \in 0..MaxLaunches
  /\ running \subseteq 1..launched
  /\ over \subseteq 1..launched
  /\ clean \subseteq 1..launched
  /\ helpers \subseteq 1..launched
  /\ complained \subseteq 1..launched
  /\ abandoned \subseteq 1..launched
  /\ lines \in Seq({"plain", "error"}) /\ Len(lines) <= PipeSize
  /\ pc \in Places
  /\ proc \in 0..launched
  /\ pid \in 0..launched
  /\ {crash_reason, exit_code, memDue} \subseteq BOOLEAN
  /\ restart_delay \in MinDelay..MAX_RESTART_DELAY

\* A second cohost is started beside a living one only after a break on the
\* memory limit: whatever a cohost prints, and however long the watchdog hangs
\* in readline, the one it replaces is dead otherwise.
ReplacesOnlyTheDead == abandoned \subseteq over

\* SIGTERM takes the cohost down with the watchdog, also while it reads, and
\* while it waits to replace one that grew too big: what it leaves alive was
\* abandoned before.  Between "pid = None" and the next "pid = proc.pid"
\* (wubu_watch.py:181, 121) it has no pid to signal.
StopLeavesNone ==
  [][pc # "stopped" /\ pc' = "stopped" /\ pc \notin {"start", "spawned"} => running' \subseteq abandoned]_vars

\* A run that exits with code 0, never printed an error and never grew over
\* the limit does not lengthen the next delay, whatever earlier runs did.
CleanRunShortens ==
  [][pc = "sleep" /\ restart_delay' > restart_delay
       => proc \notin clean \/ proc \in complained \union over]_vars

\* Auto-restart (wubu_watch.py:12): "if the cohost dies, restart it with
\* backoff": the watchdog does not hang on a dead cohost's pipe.
DeadIsReplaced ==
  \A c \in Cohosts :
    (proc = c /\ c \notin running) ~> (launched > c \/ pc = "stopped" \/ c = MaxLaunches)
=============================================================================
