-------------------------- MODULE WubuWatch_proofs --------------------------
(***************************************************************************)
(* Theorems about WubuWatch, for every pipe size, every pair of delays and *)
(* every number of restarts.                                               *)
(***************************************************************************)
EXTENDS WubuWatch, TLAPS

\* The parts of TypeOK that the arguments use.
WatchTypes ==
  /\ launched \in Nat
  /\ running \subseteq 1..launched
  /\ proc \in 0..launched
  /\ pc \in Places
  /\ lines \in Seq({"plain", "error"})
  /\ crash_reason \in BOOLEAN
  /\ restart_delay \in MinDelay..MAX_RESTART_DELAY

\* Every living cohost is the one the watchdog holds, or was abandoned.
OthersWereAbandoned == running \subseteq {proc} \union abandoned

InLoop == pc \in {"poll", "memory", "read", "exited", "sleep"}

\* What the monitor knows of the cohost it holds: its pid is right as long as
\* the inner loop and the sleep last; a cohost it gives up is dead or over the
\* limit; a reason to call it crashed is the cohost's own; and an exit code it
\* goes by is the one the cohost ended with.
Knowledge ==
  /\ OthersWereAbandoned
  /\ ReplacesOnlyTheDead
  /\ InLoop => pid = proc
  /\ pc \in {"start", "exited", "sleep"} => proc \notin running \/ proc \in over
  /\ \A i \in DOMAIN lines : lines[i] = "error" => proc \in complained
  /\ InLoop /\ crash_reason => proc \in complained \union over
  /\ pc \in {"exited", "sleep"} /\ ~crash_reason => proc \notin running
  /\ pc = "sleep" /\ ~crash_reason => (exit_code <=> proc \in clean)

Inductive == WatchTypes /\ Knowledge

\* Init establishes Inductive.
LEMMA InitInductive == Init => Inductive
  <1> SUFFICES ASSUME Init PROVE Inductive
    OBVIOUS
  <1>1. restart_delay \in MinDelay..MAX_RESTART_DELAY
    BY WatchAssumption DEF Init
  <1>2. crash_reason \in BOOLEAN /\ lines = <<>> /\ running = {} /\ abandoned = {} /\ pc = "start"
    BY DEF Init
  <1>3. WatchTypes
    BY <1>1, <1>2 DEF Init, WatchTypes, Places
  <1>4. Knowledge
    BY <1>2 DEF Knowledge, InLoop, OthersWereAbandoned, ReplacesOnlyTheDead
  <1> QED
    BY <1>3, <1>4 DEF Inductive

\* The two new delays stay within the limits.
LEMMA DelayBounds ==
  ASSUME NEW d \in MinDelay..MAX_RESTART_DELAY
  PROVE  /\ Longer(d) \in MinDelay..MAX_RESTART_DELAY
         /\ Shorter(d) \in MinDelay..d
  BY WatchAssumption DEF Longer, Shorter, AtMost, AtLeast

\* A new cohost starts with an empty pipe beside none but abandoned ones.
LEMMA SpawnInductive == ASSUME Inductive, Spawn PROVE Inductive'
  <1>1. WatchTypes'
    BY DEF Inductive, WatchTypes, Spawn, Goto, Places
  <1>2. OthersWereAbandoned' /\ ReplacesOnlyTheDead'
    BY DEF Inductive, Knowledge, Spawn, OthersWereAbandoned, ReplacesOnlyTheDead
  <1>3. lines' = <<>> /\ pc' = "spawned"
    BY DEF Spawn, Goto
  <1> QED
    BY <1>1, <1>2, <1>3 DEF Inductive, Knowledge, InLoop

\* Reading a line: an error line is the cohost's own.
LEMMA ReadLineInductive == ASSUME Inductive, ReadLine PROVE Inductive'
  <1>1. CASE lines # <<>> /\ lines' = Tail(lines)
             /\ crash_reason' = (crash_reason \/ Head(lines) = "error")
    <2>1. /\ Tail(lines) \in Seq({"plain", "error"})
          /\ 1 \in DOMAIN lines /\ Head(lines) = lines[1]
          /\ \A i \in DOMAIN Tail(lines) : i + 1 \in DOMAIN lines /\ Tail(lines)[i] = lines[i + 1]
      BY <1>1 DEF Inductive, WatchTypes
    <2>2. /\ pc = "read" /\ pc' = "poll"
          /\ UNCHANGED <<launched, running, over, clean, proc, pid, exit_code, restart_delay,
                         complained, abandoned>>
      BY DEF ReadLine, Goto, cohostVars
    <2>3. WatchTypes'
      <3>1. crash_reason' \in BOOLEAN
        BY <1>1
      <3> QED
        BY <1>1, <2>1, <2>2, <3>1 DEF Inductive, WatchTypes, Places
    <2>4. \A i \in DOMAIN lines' : lines'[i] = "error" => proc \in complained
      BY <1>1, <2>1 DEF Inductive, Knowledge
    <2>5. crash_reason' => proc \in complained \union over
      BY <1>1, <2>1, <2>2 DEF Inductive, Knowledge, InLoop
    <2> QED
      BY <2>2, <2>3, <2>4, <2>5 DEF Inductive, Knowledge, InLoop, OthersWereAbandoned,
         ReplacesOnlyTheDead
  <1>2. CASE UNCHANGED <<lines, crash_reason>>
    BY <1>2 DEF ReadLine, Goto, cohostVars, Inductive, WatchTypes, Knowledge, InLoop, Places,
       OthersWereAbandoned, ReplacesOnlyTheDead
  <1> QED
    BY <1>1, <1>2 DEF ReadLine

\* A printed line ends up in the pipe of the cohost that printed it.
LEMMA PrintLineInductive ==
  ASSUME Inductive, NEW c \in Cohosts, PrintLine(c) PROVE Inductive'
  <1>1. PICK l \in {"plain", "error"} :
          lines' = Append(lines, l) /\ complained \subseteq complained'
          /\ (l = "error" => proc \in complained')
    BY DEF PrintLine
  <1>2. /\ Append(lines, l) \in Seq({"plain", "error"})
        /\ \A i \in DOMAIN Append(lines, l) :
             Append(lines, l)[i] = l \/ (i \in DOMAIN lines /\ Append(lines, l)[i] = lines[i])
    BY DEF Inductive, WatchTypes
  <1>3. UNCHANGED <<launched, running, over, clean, pc, proc, pid, crash_reason, exit_code,
                   restart_delay, abandoned>>
    BY DEF PrintLine, cohostVars, localVars
  <1>4. \A i \in DOMAIN lines' : lines'[i] = "error" => proc' \in complained'
    BY <1>1, <1>2, <1>3 DEF Inductive, Knowledge
  <1>5. WatchTypes'
    BY <1>1, <1>2, <1>3 DEF Inductive, WatchTypes
  <1> QED
    BY <1>1, <1>3, <1>4, <1>5 DEF Inductive, Knowledge, InLoop, OthersWereAbandoned,
       ReplacesOnlyTheDead

\* The other steps of the watchdog.
LEMMA MonitorInductive ==
  ASSUME Inductive,
         SpawnFails \/ AssignPid \/ Poll \/ CheckMemory \/ ReadExitCode \/ Wake \/ Stop
           \/ MemoryInterval
  PROVE  Inductive'
  <1> USE DEF Inductive, WatchTypes, Knowledge, InLoop, Places, Goto, OthersWereAbandoned,
              ReplacesOnlyTheDead, cohostVars, localVars
  <1>1. CASE SpawnFails
    BY <1>1, DelayBounds DEF SpawnFails
  <1>2. CASE AssignPid
    BY <1>2 DEF AssignPid
  <1>3. CASE Poll
    <2>1. pc = "poll" /\ pc' = (IF proc \in running THEN "memory" ELSE "exited")
      BY <1>3 DEF Poll
    <2> QED
      BY <1>3, <2>1 DEF Poll
  <1>4. CASE CheckMemory
    BY <1>4 DEF CheckMemory
  <1>5. CASE ReadExitCode
    BY <1>5 DEF ReadExitCode
  <1>6. CASE Wake
    <2>1. restart_delay' \in MinDelay..MAX_RESTART_DELAY
      <3>1. /\ restart_delay' \in {Longer(restart_delay), Shorter(restart_delay)}
            /\ Longer(restart_delay) \in MinDelay..MAX_RESTART_DELAY
            /\ Shorter(restart_delay) \in MinDelay..restart_delay
        BY <1>6, DelayBounds DEF Wake
      <3> QED
        BY <3>1, WatchAssumption
    <2>2. /\ pc = "sleep" /\ pc' = "start" /\ crash_reason' = crash_reason
          /\ UNCHANGED <<launched, running, over, proc, lines, complained, abandoned>>
      BY <1>6 DEF Wake
    <2> QED
      BY <2>1, <2>2
  <1>7. CASE Stop
    BY <1>7 DEF Stop
  <1>8. CASE MemoryInterval
    BY <1>8 DEF MemoryInterval
  <1> QED
    BY <1>1, <1>2, <1>3, <1>4, <1>5, <1>6, <1>7, <1>8

\* What the cohosts do by themselves.
LEMMA CohostInductive ==
  ASSUME Inductive, NEW c \in Cohosts,
         Grow(c) \/ Exit(c) \/ StartHelper(c) \/ HelperEnds(c)
  PROVE  Inductive'
  <1> USE DEF Inductive, WatchTypes, Knowledge, InLoop, OthersWereAbandoned,
              ReplacesOnlyTheDead, localVars
  <1>1. CASE Grow(c)
    BY <1>1 DEF Grow
  <1>2. CASE Exit(c)
    BY <1>2 DEF Exit
  <1>3. CASE StartHelper(c) \/ HelperEnds(c)
    <2>1. UNCHANGED <<launched, running, over, clean, lines, pc, proc, pid, crash_reason, exit_code,
                      restart_delay, complained, abandoned>>
      BY <1>3 DEF StartHelper, HelperEnds
    <2> QED
      BY <2>1
  <1> QED
    BY <1>1, <1>2, <1>3

\* Every step keeps Inductive.
LEMMA NextInductive == ASSUME Inductive, [Next]_vars PROVE Inductive'
  <1>1. CASE UNCHANGED vars
    BY <1>1 DEF vars, cohostVars, localVars, Inductive, WatchTypes, Knowledge, InLoop,
       OthersWereAbandoned, ReplacesOnlyTheDead
  <1>2. CASE Next
    BY <1>2, SpawnInductive, ReadLineInductive, PrintLineInductive, MonitorInductive,
       CohostInductive DEF Next, Monitor
  <1> QED
    BY <1>1, <1>2

\* The rest of TypeOK, which Inductive does not say.
Rest ==
  /\ launched \in 0..MaxLaunches
  /\ over \subseteq 1..launched /\ clean \subseteq 1..launched
  /\ helpers \subseteq 1..launched /\ complained \subseteq 1..launched
  /\ abandoned \subseteq 1..launched
  /\ Len(lines) <= PipeSize
  /\ pid \in 0..launched
  /\ exit_code \in BOOLEAN /\ memDue \in BOOLEAN

\* A step of the watchdog starts at most one cohost and keeps the rest.
LEMMA MonitorRest ==
  ASSUME Inductive, Rest,
         SpawnFails \/ Monitor \/ Stop \/ MemoryInterval
  PROVE  Rest'
  <1> USE DEF Rest, Inductive, WatchTypes, cohostVars, localVars
  <1>1. CASE Spawn
    <2>1. /\ launched \in Nat /\ launched + 1 \in 0..MaxLaunches
          /\ 1..launched \subseteq 1..(launched + 1) /\ pid \in 0..(launched + 1)
      BY <1>1, WatchAssumption DEF Spawn
    <2>2. Len(lines') <= PipeSize
      BY <1>1, WatchAssumption DEF Spawn
    <2>3. abandoned' \subseteq 1..launched /\ launched' = launched + 1
      BY <1>1 DEF Spawn
    <2>4. UNCHANGED <<over, clean, helpers, pid, exit_code, memDue, complained>>
      BY <1>1 DEF Spawn
    <2> QED
      BY <2>1, <2>2, <2>3, <2>4
  <1>2. CASE ReadLine
    <2>1. Len(lines') <= PipeSize
      <3>1. CASE lines # <<>> /\ lines' = Tail(lines)
        <4>1. Len(Tail(lines)) = Len(lines) - 1 /\ Len(lines) \in Nat
          BY <3>1
        <4> QED
          BY <3>1, <4>1, WatchAssumption
      <3>2. CASE lines' = lines
        BY <3>2
      <3> QED
        BY <1>2, <3>1, <3>2 DEF ReadLine
    <2> QED
      BY <1>2, <2>1 DEF ReadLine
  <1>3. CASE ReadExitCode
    <2>1. exit_code' \in BOOLEAN
      BY <1>3 DEF ReadExitCode
    <2> QED
      BY <1>3, <2>1 DEF ReadExitCode
  <1>4. CASE AssignPid \/ Wake
    <2>1. pid' \in 0..launched
      BY <1>4 DEF AssignPid, Wake
    <2> QED
      BY <1>4, <2>1 DEF AssignPid, Wake
  <1>5. CASE CheckMemory \/ MemoryInterval
    <2>1. memDue' \in BOOLEAN
      BY <1>5 DEF CheckMemory, MemoryInterval
    <2> QED
      BY <1>5, <2>1 DEF CheckMemory, MemoryInterval
  <1>6. CASE Poll \/ SpawnFails
    BY <1>6 DEF Poll, SpawnFails
  <1>7. CASE Stop
    BY <1>7 DEF Stop
  <1> QED
    BY <1>1, <1>2, <1>3, <1>4, <1>5, <1>6, <1>7 DEF Monitor

\* A cohost that does something was started before.
LEMMA CohostRest ==
  ASSUME Inductive, Rest, NEW c \in Cohosts,
         PrintLine(c) \/ Grow(c) \/ Exit(c) \/ StartHelper(c) \/ HelperEnds(c)
  PROVE  Rest'
  <1> USE DEF Rest, Inductive, WatchTypes, cohostVars, localVars
  <1>1. CASE PrintLine(c)
    <2>1. PICK l \in {"plain", "error"} :
            lines' = Append(lines, l) /\ complained' \subseteq complained \union {c}
      BY <1>1 DEF PrintLine
    <2>2. Len(Append(lines, l)) = Len(lines) + 1 /\ Len(lines) \in Nat
      OBVIOUS
    <2>3. Len(lines') <= PipeSize
      BY <1>1, <2>1, <2>2, WatchAssumption DEF PrintLine
    <2>4. c \in 1..launched
      BY <1>1 DEF PrintLine
    <2> QED
      BY <1>1, <2>1, <2>3, <2>4 DEF PrintLine
  <1>2. CASE Grow(c) \/ StartHelper(c)
    <2>1. c \in 1..launched
      BY <1>2 DEF Grow, StartHelper
    <2> QED
      BY <1>2, <2>1 DEF Grow, StartHelper
  <1>3. CASE Exit(c) \/ HelperEnds(c)
    <2>1. clean' \subseteq 1..launched /\ helpers' \subseteq 1..launched
      BY <1>3 DEF Exit, HelperEnds
    <2> QED
      BY <1>3, <2>1 DEF Exit, HelperEnds
  <1> QED
    BY <1>1, <1>2, <1>3

(* Locals, pipe and cohosts keep their shapes, and however often the       *)
(* cohost is replaced or cannot be started, the delay stays in its limits. *)
THEOREM TypeCorrect == Spec => []TypeOK
  <1>1. Init => Rest
    <2> SUFFICES ASSUME Init PROVE Rest
      OBVIOUS
    <2>1. exit_code \in BOOLEAN /\ memDue \in BOOLEAN
      BY DEF Init
    <2>2. Len(lines) <= PipeSize /\ launched \in 0..MaxLaunches /\ pid \in 0..launched
      BY WatchAssumption DEF Init
    <2> QED
      BY <2>1, <2>2 DEF Init, Rest
  <1>2. Inductive /\ Rest /\ [Next]_vars => Rest'
    <2> SUFFICES ASSUME Inductive, Rest, [Next]_vars PROVE Rest'
      OBVIOUS
    <2>1. CASE UNCHANGED vars
      BY <2>1 DEF vars, cohostVars, localVars, Rest
    <2>2. CASE Next
      BY <2>2, MonitorRest, CohostRest DEF Next
    <2> QED
      BY <2>1, <2>2
  <1>3. Inductive /\ Rest => TypeOK
    BY DEF Inductive, WatchTypes, Rest, TypeOK
  <1> QED
    BY <1>1, <1>2, <1>3, InitInductive, NextInductive, PTL DEF Spec

(* A second cohost is started beside a living one only after a break on    *)
(* the memory limit, however often the cohost has been restarted.          *)
THEOREM OnlyTheDeadAreReplaced == Spec => []ReplacesOnlyTheDead
  <1>1. Inductive => ReplacesOnlyTheDead
    BY DEF Inductive, Knowledge
  <1> QED
    BY <1>1, InitInductive, NextInductive, PTL DEF Spec

(* SIGTERM leaves no cohost alive that was not abandoned before.           *)
THEOREM StopTakesTheCohostDown == Spec => StopLeavesNone
  <1>1. ASSUME Inductive, [Next]_vars
        PROVE  [pc # "stopped" /\ pc' = "stopped" /\ pc \notin {"start", "spawned"}
                  => running' \subseteq abandoned]_vars
    <2> SUFFICES ASSUME pc # "stopped", pc' = "stopped", pc \notin {"start", "spawned"}
                 PROVE  running' \subseteq abandoned
      OBVIOUS
    <2>1. Stop
      BY <1>1 DEF Next, Monitor, Spawn, SpawnFails, AssignPid, Poll, CheckMemory, ReadLine,
         ReadExitCode, Wake, MemoryInterval, PrintLine, Grow, Exit, StartHelper, HelperEnds,
         Goto, vars
    <2>2. InLoop
      BY <1>1 DEF Inductive, WatchTypes, Places, InLoop
    <2> QED
      BY <1>1, <2>1, <2>2 DEF Stop, Inductive, Knowledge, OthersWereAbandoned
  <1> QED
    BY <1>1, InitInductive, NextInductive, PTL DEF Spec, StopLeavesNone

(* Only a run with a fault of its own lengthens the delay after it.        *)
THEOREM CleanRunsDoNotLengthen == Spec => CleanRunShortens
  <1>1. ASSUME Inductive, [Next]_vars
        PROVE  [pc = "sleep" /\ restart_delay' > restart_delay
                  => proc \notin clean \/ proc \in complained \union over]_vars
    <2> SUFFICES ASSUME pc = "sleep", restart_delay' > restart_delay, proc \in clean,
                        proc \notin complained \union over
                 PROVE  FALSE
      OBVIOUS
    <2>1. ~crash_reason /\ exit_code
      BY <1>1 DEF Inductive, Knowledge, InLoop
    <2>2. /\ restart_delay \in MinDelay..MAX_RESTART_DELAY
          /\ Shorter(restart_delay) \in MinDelay..restart_delay
      BY <1>1, DelayBounds DEF Inductive, WatchTypes
    <2>3. restart_delay' # restart_delay
      BY <2>2, WatchAssumption
    <2>4. Wake
      BY <1>1, <2>3 DEF Next, Monitor, Spawn, SpawnFails, AssignPid, Poll, CheckMemory, ReadLine,
         ReadExitCode, Stop, MemoryInterval, PrintLine, Grow, Exit, StartHelper, HelperEnds,
         vars, localVars
    <2>5. restart_delay' = Shorter(restart_delay)
      BY <2>1, <2>4 DEF Wake
    <2> QED
      BY <2>2, <2>5, WatchAssumption
  <1> QED
    BY <1>1, InitInductive, NextInductive, PTL DEF Spec, CleanRunShortens
=============================================================================
