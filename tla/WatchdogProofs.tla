---- MODULE WatchdogProofs ----
(***************************************************************************)
(* What the manager of GoodbyeDPI knows of its processes, what the         *)
(* counters of connections say, and that a loop is left, for any number of *)
(* starts, processes and connections: theorems about Watchdog.             *)
(***************************************************************************)
EXTENDS Watchdog, FiniteSetTheorems, TLAPS

\* The manager knows the newest process or none; whatever else is alive is stray, and so
\* is all of it while the proxy is off.
ProcInv ==
    /\ GdpiTypeOK
    /\ running \in BOOLEAN
    /\ waiting \subseteq 1..spawned
    /\ EveryProcessWatched
    /\ RunningIffProc
    /\ proc \in {NoProc, spawned}
    /\ alive \subseteq stray \cup {proc}
    /\ NoStrayProcess

\* What ConnsCounted bounds: the counter is too low by the older connections that ended.
ConnsInv ==
    /\ conn \in [Conns -> {"idle", "open", "old"}]
    /\ active \in Int /\ device \in Int /\ gone \in Nat
    /\ active = Cardinality(Open) - gone
    /\ device = Cardinality(Busy)

----------------------------------------------------------------------------
(* Processes *)

LEMMA ProcInitially == Init => ProcInv
<1> SUFFICES ASSUME Init PROVE ProcInv
  OBVIOUS
<1>1. proc = NoProc /\ spawned = 0 /\ alive = {} /\ waiting = {} /\ stray = {}
  BY Zenon DEF Init, GdpiInit
<1>2. gdpiRunning = FALSE /\ running = FALSE
  BY Zenon DEF Init, GdpiInit
<1>3. spawned \in 0..MaxProcs /\ proc \in Procs \cup {NoProc} /\ proc \in {NoProc, spawned}
  BY <1>1, MaxProcsAssumption DEF NoProc
<1>4. /\ alive \subseteq Procs /\ waiting \subseteq Procs /\ waiting \subseteq 1..spawned
      /\ alive \subseteq waiting /\ alive \subseteq stray \cup {proc} /\ alive \subseteq stray
  BY <1>1
<1>5. gdpiRunning \in BOOLEAN /\ running \in BOOLEAN /\ RunningIffProc
  BY <1>1, <1>2, Zenon DEF RunningIffProc
<1> QED
  BY <1>3, <1>4, <1>5 DEF ProcInv, GdpiTypeOK, EveryProcessWatched, NoStrayProcess

\* What a step of the program does to the processes.
LEMMA ProcSteps ==
    [Next]_vars =>
        \/ UNCHANGED procVars /\ (running' = running \/ running' = TRUE)
        \/ GdpiStart /\ Late /\ UNCHANGED running
        \/ TakeDown
        \/ (\E p \in Procs : Waited(p)) /\ UNCHANGED running
        \/ \E p \in Procs : Dies(p) /\ UNCHANGED running
<1> SUFFICES ASSUME [Next]_vars
    PROVE \/ UNCHANGED procVars /\ (running' = running \/ running' = TRUE)
          \/ GdpiStart /\ Late /\ UNCHANGED running
          \/ TakeDown
          \/ (\E p \in Procs : Waited(p)) /\ UNCHANGED running
          \/ \E p \in Procs : Dies(p) /\ UNCHANGED running
  OBVIOUS
<1>1. CASE Start \/ Reset \/ WatchdogStop \/ WatchdogStart \/ Resolve
  BY <1>1 DEF Start, Reset, WatchdogStop, WatchdogStart, Resolve
<1>2. CASE Launch
  BY <1>2 DEF Launch
<1>3. CASE Stop \/ Restart
  BY <1>3 DEF Stop, Restart
<1>4. ASSUME NEW l \in Starts, Loop(l)
      PROVE \/ UNCHANGED procVars /\ running' = running
            \/ GdpiStart /\ Late /\ UNCHANGED running
  BY <1>4 DEF Loop, Select, Tick, Told, DialFails, DialWorks, Relaunch, appVars
<1>5. ASSUME NEW c \in Conns, Enter(c) \/ Leave(c)
      PROVE UNCHANGED procVars /\ running' = running
  BY <1>5 DEF Enter, Leave, appVars
<1>6. ASSUME NEW p \in Procs, Waited(p) \/ Dies(p)
      PROVE (Waited(p) \/ Dies(p)) /\ UNCHANGED running
  BY <1>6 DEF Waited, Dies, appVars
<1>7. CASE UNCHANGED vars
  BY <1>7 DEF vars, appVars
<1> QED
  BY <1>1, <1>2, <1>3, <1>4, <1>5, <1>6, <1>7 DEF Next

LEMMA ProcKept == ProcInv /\ [Next]_vars => ProcInv'
<1> SUFFICES ASSUME ProcInv, [Next]_vars PROVE ProcInv'
  OBVIOUS
<1> USE DEF ProcInv, GdpiTypeOK, EveryProcessWatched, RunningIffProc, NoStrayProcess, Procs, NoProc
<1>1. CASE UNCHANGED procVars /\ (running' = running \/ running' = TRUE)
  BY <1>1 DEF procVars, gdpiVars
<1>2. CASE GdpiStart /\ Late /\ UNCHANGED running
  <2>1. CASE UNCHANGED gdpiVars
    BY <1>2, <2>1 DEF Late, gdpiVars
  <2>2. CASE GdpiSpawn
    <3>1. proc = 0 /\ proc' = spawned' /\ spawned' = spawned + 1 /\ spawned' \in 1..MaxProcs
      BY <2>2, MaxProcsAssumption DEF GdpiSpawn
    <3>2. alive' = alive \cup {proc'} /\ waiting' = waiting \cup {proc'} /\ gdpiRunning' = TRUE
      BY <2>2 DEF GdpiSpawn
    <3>3. alive \subseteq stray /\ alive \subseteq waiting
      BY <3>1
    <3>4. IF running THEN stray' = stray ELSE stray' = stray \cup (alive' \ alive)
      BY <1>2 DEF Late
    <3>5. waiting' \subseteq 1..spawned'
      BY <3>1, <3>2
    <3>6. alive' \subseteq stray' \cup {proc'} /\ (~running => alive' \subseteq stray')
      BY <3>2, <3>3, <3>4
    <3>7. running' = running
      BY <1>2
    <3> QED
      BY <3>1, <3>2, <3>3, <3>5, <3>6, <3>7
  <2> QED
    BY <1>2, <2>1, <2>2 DEF GdpiStart
<1>3. CASE TakeDown
  <2>1. running' = FALSE
    BY <1>3 DEF TakeDown
  <2>2. CASE gdpiRunning
    BY <1>3, <2>1, <2>2 DEF TakeDown, GdpiStop
  <2>3. CASE ~gdpiRunning
    <3>1. UNCHANGED procVars /\ proc = 0
      BY <1>3, <2>3 DEF TakeDown
    <3>2. alive \subseteq stray
      BY <3>1
    <3> QED
      BY <2>1, <3>1, <3>2 DEF procVars, gdpiVars
  <2> QED
    BY <2>2, <2>3
<1>4. ASSUME NEW p \in Procs, Waited(p), UNCHANGED running PROVE ProcInv'
  BY <1>4 DEF Waited, GdpiWaitDone
<1>5. ASSUME NEW p \in Procs, Dies(p), UNCHANGED running PROVE ProcInv'
  BY <1>5 DEF Dies, GdpiDies
<1> QED
  BY <1>1, <1>2, <1>3, <1>4, <1>5, ProcSteps

LEMMA ProcAlways == Spec => []ProcInv
BY ProcInitially, ProcKept, PTL DEF Spec

\* The fields of the manager never disagree, and a live process always has the goroutine
\* that will notice its death (goodbyedpi.go).
THEOREM ManagerSound == Spec => [](GdpiTypeOK /\ RunningIffProc /\ EveryProcessWatched)
<1>1. ProcInv => GdpiTypeOK /\ RunningIffProc /\ EveryProcessWatched
  BY DEF ProcInv
<1> QED
  BY <1>1, ProcAlways, PTL

\* While the proxy is off every GoodbyeDPI that still runs was launched late, or lost
\* sight of (stop, gdpi.Stop).
THEOREM NoneLeftRunning == Spec => []NoStrayProcess
<1>1. ProcInv => NoStrayProcess
  BY DEF ProcInv
<1> QED
  BY <1>1, ProcAlways, PTL

\* The manager loses sight of a live process only to the wait goroutine of an earlier one
\* (GDPIManager.Start).
THEOREM DisownedByWaiter == Spec => DisownedOnlyByOldWaiter
<1>1. ProcInv /\ [Next]_vars => [proc # proc' /\ proc \in alive' =>
                                    \E p \in waiting \ waiting' : p < proc]_gdpiVars
  <2> SUFFICES ASSUME ProcInv, [Next]_vars, proc # proc', proc \in alive'
      PROVE \E p \in waiting \ waiting' : p < proc
    OBVIOUS
  <2> USE DEF ProcInv, GdpiTypeOK, EveryProcessWatched, RunningIffProc, Procs, NoProc
  <2>1. ~UNCHANGED procVars
    BY DEF procVars, gdpiVars
  <2>2. ~GdpiStart
    BY MaxProcsAssumption DEF GdpiStart, GdpiSpawn, gdpiVars
  <2>3. ~TakeDown
    BY <2>1 DEF TakeDown, GdpiStop
  <2>4. ASSUME NEW p \in Procs PROVE ~Dies(p)
    BY DEF Dies, GdpiDies
  <2>5. PICK p \in Procs : Waited(p)
    BY <2>1, <2>2, <2>3, <2>4, ProcSteps
  <2>6. p \in waiting \ waiting' /\ p \notin alive /\ alive' = alive
    BY <2>5 DEF Waited, GdpiWaitDone
  <2>7. p # proc /\ p \in 1..spawned /\ proc = spawned
    BY <2>6
  <2> QED
    BY <2>6, <2>7
<1> QED
  BY <1>1, ProcAlways, PTL DEF Spec, DisownedOnlyByOldWaiter

----------------------------------------------------------------------------
(* Counters *)

LEMMA ConnsInitially == Init => ConnsInv
<1> SUFFICES ASSUME Init PROVE ConnsInv
  OBVIOUS
<1>1. active = 0 /\ device = 0 /\ gone = 0 /\ conn = [c \in Conns |-> "idle"]
  BY Zenon DEF Init
<1>2. Open = {} /\ Busy = {}
  BY <1>1 DEF Open, Busy
<1>3. conn \in [Conns -> {"idle", "open", "old"}]
  BY <1>1
<1>4. Cardinality(Open) = 0 /\ Cardinality(Busy) = 0
  BY <1>2, FS_EmptySet
<1> QED
  BY <1>1, <1>3, <1>4 DEF ConnsInv

LEMMA FiniteConns == IsFiniteSet(Open) /\ IsFiniteSet(Busy)
BY ConnsAssumption, FS_Subset DEF Open, Busy

LEMMA FiniteConnsNext == IsFiniteSet(Open') /\ IsFiniteSet(Busy')
BY ConnsAssumption, FS_Subset DEF Open, Busy

\* What a step of the program does to the counters.
LEMMA ConnSteps ==
    [Next]_vars => \/ UNCHANGED statVars
                   \/ Reset
                   \/ \E c \in Conns : Enter(c) \/ Leave(c)
<1> SUFFICES ASSUME [Next]_vars
    PROVE UNCHANGED statVars \/ Reset \/ \E c \in Conns : Enter(c) \/ Leave(c)
  OBVIOUS
<1>1. CASE Start \/ WatchdogStop \/ WatchdogStart \/ Resolve \/ Launch
  BY <1>1 DEF Start, WatchdogStop, WatchdogStart, Resolve, Launch
<1>2. CASE Stop \/ Restart
  BY <1>2 DEF Stop, Restart, TakeDown
<1>3. ASSUME NEW l \in Starts, Loop(l) PROVE UNCHANGED statVars
  BY <1>3 DEF Loop, Select, Tick, Told, DialFails, DialWorks, Relaunch
<1>4. ASSUME NEW p \in Procs, Waited(p) \/ Dies(p) PROVE UNCHANGED statVars
  BY <1>4 DEF Waited, Dies
<1> QED
  BY <1>1, <1>2, <1>3, <1>4 DEF Next, vars

LEMMA ConnsKept == ConnsInv /\ [Next]_vars => ConnsInv'
<1> SUFFICES ASSUME ConnsInv, [Next]_vars PROVE ConnsInv'
  OBVIOUS
<1>0. /\ Cardinality(Open) \in Nat /\ Cardinality(Busy) \in Nat
      /\ Cardinality(Open') \in Nat /\ Cardinality(Busy') \in Nat
  BY FiniteConns, FiniteConnsNext, FS_CardinalityType
<1>1. CASE UNCHANGED statVars
  <2>1. Open' = Open /\ Busy' = Busy
    BY <1>1 DEF Open, Busy, statVars
  <2> QED
    BY <1>1, <2>1 DEF ConnsInv, statVars
<1>2. CASE Reset
  <2>1. conn' = [c \in Conns |-> IF conn[c] = "open" THEN "old" ELSE conn[c]]
    BY <1>2 DEF Reset
  <2>2. conn' \in [Conns -> {"idle", "open", "old"}]
    BY <2>1 DEF ConnsInv
  <2>3. Open' = {} /\ Busy' = Busy
    BY <2>1 DEF Open, Busy
  <2>4. active' = 0 /\ gone' = 0 /\ device' = device
    BY <1>2 DEF Reset
  <2>5. Cardinality(Open') = 0
    BY <2>3, FS_EmptySet
  <2> QED
    BY <2>2, <2>3, <2>4, <2>5 DEF ConnsInv
<1>3. ASSUME NEW c \in Conns, Enter(c) PROVE ConnsInv'
  <2>1. conn[c] = "idle" /\ conn' = [conn EXCEPT ![c] = "open"]
    BY <1>3 DEF Enter
  <2>2. conn' \in [Conns -> {"idle", "open", "old"}]
    BY <2>1 DEF ConnsInv
  <2>3. Open' = Open \cup {c} /\ Busy' = Busy \cup {c} /\ c \notin Open /\ c \notin Busy
    BY <2>1 DEF ConnsInv, Open, Busy
  <2>4. Cardinality(Open') = Cardinality(Open) + 1 /\ Cardinality(Busy') = Cardinality(Busy) + 1
    BY <2>3, FiniteConns, FS_AddElement
  <2>5. active' = active + 1 /\ device' = device + 1 /\ gone' = gone
    BY <1>3 DEF Enter
  <2> QED
    BY <1>0, <2>2, <2>4, <2>5 DEF ConnsInv
<1>4. ASSUME NEW c \in Conns, Leave(c) PROVE ConnsInv'
  <2>1. conn[c] # "idle" /\ conn' = [conn EXCEPT ![c] = "idle"]
    BY <1>4 DEF Leave
  <2>2. conn' \in [Conns -> {"idle", "open", "old"}]
    BY <2>1 DEF ConnsInv
  <2>3. Busy' = Busy \ {c} /\ c \in Busy
    BY <2>1 DEF ConnsInv, Busy
  <2>4. Cardinality(Busy') = Cardinality(Busy) - 1
    BY <2>3, FiniteConns, FS_RemoveElement
  <2>5. active' = active - 1 /\ device' = device - 1
    BY <1>4 DEF Leave
  <2>6. CASE conn[c] = "old"
    <3>1. Open' = Open
      BY <2>1, <2>6 DEF ConnsInv, Open
    <3>2. gone' = gone + 1
      BY <1>4, <2>6 DEF Leave
    <3> QED
      BY <1>0, <2>2, <2>4, <2>5, <3>1, <3>2 DEF ConnsInv
  <2>7. CASE conn[c] = "open"
    <3>1. Open' = Open \ {c} /\ c \in Open
      BY <2>1, <2>7 DEF ConnsInv, Open
    <3>2. gone' = gone
      BY <1>4, <2>7 DEF Leave
    <3>3. Cardinality(Open') = Cardinality(Open) - 1
      BY <3>1, FiniteConns, FS_RemoveElement
    <3> QED
      BY <1>0, <2>2, <2>4, <2>5, <3>2, <3>3 DEF ConnsInv
  <2> QED
    BY <2>1, <2>6, <2>7 DEF ConnsInv
<1> QED
  BY <1>1, <1>2, <1>3, <1>4, ConnSteps

\* The counter of connections is never too high, and too low by the connections of earlier
\* starts at most; the device's is exact (reset, incConn, decConn).
THEOREM CountsHold == Spec => []ConnsCounted
<1>1. ASSUME ConnsInv PROVE ConnsCounted
  <2>1. Open \subseteq Busy
    BY DEF Open, Busy
  <2>2. /\ Cardinality(Open) \in Nat /\ Cardinality(Busy) \in Nat
        /\ Cardinality(Open) <= Cardinality(Busy)
    BY <2>1, FiniteConns, FS_CardinalityType, FS_Subset
  <2> QED
    BY <1>1, <2>2 DEF ConnsInv, ConnsCounted
<1> QED
  BY <1>1, ConnsInitially, ConnsKept, PTL DEF Spec

----------------------------------------------------------------------------
(* Loops *)

Places == {"none", "top", "select", "check", "relaunch", "ended"}

\* Every channel but the newest is closed, and that one only between Stop and Start; a loop
\* waits for its own channel or for a newer one, so it has ended only when its own is closed.
LoopInv ==
    /\ starts \in 0..MaxStarts /\ stop \in 0..MaxStarts
    /\ phase \in {"idle", "reset", "stop", "start"}
    /\ stop = (IF phase = "idle" THEN starts ELSE starts - 1)
    /\ closed = 1..(IF phase = "start" THEN stop ELSE stop - 1)
    /\ at \in [Starts -> Places]
    /\ on \in [Starts -> 0..MaxStarts]
    /\ \A l \in Starts : at[l] = "none" <=> l > stop
    /\ \A l \in Starts : at[l] = "select" => l <= on[l] /\ on[l] <= stop
    /\ \A l \in Starts : at[l] = "ended" => l \in closed

LEMMA LoopsInitially == Init => LoopInv
<1> SUFFICES ASSUME Init PROVE LoopInv
  OBVIOUS
<1>1. /\ starts = 0 /\ stop = 0 /\ phase = "idle" /\ closed = {}
      /\ at = [l \in Starts |-> "none"] /\ on = [l \in Starts |-> 0]
  BY Zenon DEF Init
<1>2. closed = 1..(0 - 1)
  BY <1>1
<1>3. at \in [Starts -> Places] /\ on \in [Starts -> 0..MaxStarts]
  BY <1>1, MaxStartsAssumption DEF Places
<1>4. \A l \in Starts : at[l] = "none" /\ l > 0
  BY <1>1, MaxStartsAssumption DEF Starts
<1> QED
  BY <1>1, <1>2, <1>3, <1>4, MaxStartsAssumption DEF LoopInv

\* What a step of the program does to the channels and the loops.
LEMMA LoopSteps ==
    [Next]_vars =>
        \/ UNCHANGED <<phase, starts, loopVars>>
        \/ Start \/ Reset \/ WatchdogStop \/ WatchdogStart
        \/ \E l \in Starts : Loop(l) /\ UNCHANGED <<phase, starts, stop, closed>>
<1> SUFFICES ASSUME [Next]_vars
    PROVE \/ UNCHANGED <<phase, starts, loopVars>>
          \/ Start \/ Reset \/ WatchdogStop \/ WatchdogStart
          \/ \E l \in Starts : Loop(l) /\ UNCHANGED <<phase, starts, stop, closed>>
  OBVIOUS
<1>1. CASE Resolve \/ Launch
  BY <1>1, Zenon DEF Resolve, Launch
<1>2. CASE Stop \/ Restart
  BY <1>2, Zenon DEF Stop, Restart, TakeDown
<1>3. ASSUME NEW l \in Starts, Loop(l) PROVE UNCHANGED <<phase, starts, stop, closed>>
  BY <1>3 DEF Loop, Select, Tick, Told, DialFails, DialWorks, Relaunch, appVars
<1>4. ASSUME NEW c \in Conns, Enter(c) \/ Leave(c) PROVE UNCHANGED <<phase, starts, loopVars>>
  BY <1>4 DEF Enter, Leave, appVars
<1>5. ASSUME NEW p \in Procs, Waited(p) \/ Dies(p) PROVE UNCHANGED <<phase, starts, loopVars>>
  BY <1>5 DEF Waited, Dies, appVars
<1>6. CASE UNCHANGED vars
  BY <1>6 DEF vars, appVars
<1> QED
  BY <1>1, <1>2, <1>3, <1>4, <1>5, <1>6 DEF Next

\* A step of a loop.
LEMMA LoopStepKeeps ==
    ASSUME LoopInv, NEW l \in Starts, Loop(l), UNCHANGED <<phase, starts, stop, closed>>
    PROVE  LoopInv'
<1> USE DEF LoopInv, Starts, Places
<1>1. CASE Select(l)
  <2>1. l <= stop /\ at' = [at EXCEPT ![l] = "select"] /\ on' = [on EXCEPT ![l] = stop]
    BY <1>1 DEF Select, Go
  <2> QED
    BY <2>1
<1>2. CASE Told(l)
  <2>1. at[l] = "select" /\ on[l] \in closed /\ at' = [at EXCEPT ![l] = "ended"] /\ on' = on
    BY <1>2 DEF Told, Go
  <2>2. l \in closed /\ l <= stop
    BY <2>1
  <2> QED
    BY <2>1, <2>2
<1>3. CASE Tick(l) \/ DialFails(l) \/ DialWorks(l) \/ Relaunch(l)
  <2>1. PICK place \in {"top", "check", "relaunch"} : at' = [at EXCEPT ![l] = place]
    BY <1>3 DEF Tick, DialFails, DialWorks, Relaunch, Go
  <2>2. l <= stop /\ on' = on
    BY <1>3 DEF Tick, DialFails, DialWorks, Relaunch
  <2> QED
    BY <2>1, <2>2
<1> QED
  BY <1>1, <1>2, <1>3 DEF Loop

LEMMA LoopsKept == LoopInv /\ [Next]_vars => LoopInv'
<1> SUFFICES ASSUME LoopInv, [Next]_vars PROVE LoopInv'
  OBVIOUS
<1> USE DEF LoopInv, Starts, Places
<1>1. CASE UNCHANGED <<phase, starts, loopVars>>
  BY <1>1 DEF loopVars
<1>2. CASE Start
  <2>1. phase = "idle" /\ phase' = "reset" /\ starts' = starts + 1 /\ starts' \in 0..MaxStarts
    BY <1>2, MaxStartsAssumption DEF Start
  <2>2. UNCHANGED loopVars
    BY <1>2 DEF Start
  <2> QED
    BY <2>1, <2>2 DEF loopVars
<1>3. CASE Reset
  <2>1. phase = "reset" /\ phase' = "stop" /\ UNCHANGED <<starts, loopVars>>
    BY <1>3 DEF Reset
  <2> QED
    BY <2>1 DEF loopVars
<1>4. CASE WatchdogStop
  <2>1. /\ phase = "stop" /\ phase' = "start" /\ UNCHANGED <<starts, stop, at, on>>
        /\ closed' = closed \cup ({stop} \ {0})
    BY <1>4 DEF WatchdogStop, statVars
  <2>2. closed' = 1..stop
    BY <2>1
  <2> QED
    BY <2>1, <2>2
<1>5. CASE WatchdogStart
  <2>1. /\ phase = "start" /\ phase' = "idle" /\ stop' = starts /\ UNCHANGED <<starts, closed, on>>
        /\ at' = [at EXCEPT ![starts] = "top"]
    BY <1>5 DEF WatchdogStart
  <2>2. starts = stop + 1 /\ starts \in 1..MaxStarts /\ closed = 1..stop
    BY <2>1
  <2> QED
    BY <2>1, <2>2
<1> QED
  BY <1>1, <1>2, <1>3, <1>4, <1>5, LoopSteps, LoopStepKeeps

\* watchdog.go: however stops, starts and restarts fall between the steps of older loops,
\* which read the channel of the newest start as they find it, the loop spawned with the
\* last start is at work whenever no start is under way.
NewestLoopWorks == phase = "idle" /\ starts > 0 => at[starts] \notin {"none", "ended"}

\* watchdog.Start: no order of starts, stops and restarts leaves the program without a loop.
THEOREM ALoopIsLeft == Spec => []NewestLoopWorks
<1>1. LoopInv => NewestLoopWorks
  BY DEF LoopInv, NewestLoopWorks, Starts
<1> QED
  BY <1>1, LoopsInitially, LoopsKept, PTL DEF Spec

----------------------------------------------------------------------------
(* Types *)

Unresolved == dpiSource = ""

\* Every start launches once at most, and one that has resolved nothing has not launched.
LaunchInv ==
    /\ running \in BOOLEAN
    /\ dpiSource \in {"", "manual", "other"}
    /\ launching \in 0..starts
    /\ running /\ Unresolved => launching < starts
    /\ ~running => Unresolved

LEMMA LaunchesInitially == Init => LaunchInv
<1> SUFFICES ASSUME Init PROVE LaunchInv
  OBVIOUS
<1>1. running = FALSE /\ Unresolved /\ dpiSource \in {"", "manual", "other"}
  BY Zenon DEF Init, Unresolved
<1>2. launching = 0 /\ starts = 0
  BY Zenon DEF Init
<1>3. launching \in 0..starts
  BY <1>2
<1> QED
  BY <1>1, <1>3, Zenon DEF LaunchInv

\* What a step of the program does to the source of the process.
LEMMA SourceSteps ==
    [Next]_vars =>
        \/ UNCHANGED <<running, dpiSource, starts, launching>>
        \/ Start \/ Resolve \/ Launch \/ TakeDown
<1> SUFFICES ASSUME [Next]_vars
    PROVE \/ UNCHANGED <<running, dpiSource, starts, launching>>
          \/ Start \/ Resolve \/ Launch \/ TakeDown
  OBVIOUS
<1>1. CASE Reset \/ WatchdogStop \/ WatchdogStart
  BY <1>1, Zenon DEF Reset, WatchdogStop, WatchdogStart
<1>2. CASE Stop \/ Restart
  BY <1>2, Zenon DEF Stop, Restart
<1>3. ASSUME NEW l \in Starts, Loop(l) PROVE UNCHANGED <<running, dpiSource, starts, launching>>
  BY <1>3, Zenon DEF Loop, Select, Tick, Told, DialFails, DialWorks, Relaunch, appVars
<1>4. ASSUME NEW c \in Conns, Enter(c) \/ Leave(c)
      PROVE  UNCHANGED <<running, dpiSource, starts, launching>>
  BY <1>4, Zenon DEF Enter, Leave, appVars
<1>5. ASSUME NEW p \in Procs, Waited(p) \/ Dies(p)
      PROVE  UNCHANGED <<running, dpiSource, starts, launching>>
  BY <1>5, Zenon DEF Waited, Dies, appVars
<1>6. CASE UNCHANGED vars
  BY <1>6, Zenon DEF vars, appVars
<1> QED
  BY <1>1, <1>2, <1>3, <1>4, <1>5, <1>6, Zenon DEF Next

LEMMA LaunchesKept == LoopInv /\ LaunchInv /\ [Next]_vars => LaunchInv'
<1> SUFFICES ASSUME LoopInv, LaunchInv, [Next]_vars PROVE LaunchInv'
  OBVIOUS
<1>0. /\ launching \in 0..starts /\ starts \in Nat
      /\ running /\ Unresolved => launching < starts
      /\ ~running => Unresolved
  <2>1. starts \in 0..MaxStarts
    BY Zenon DEF LoopInv
  <2>2. starts \in Nat
    BY <2>1
  <2> QED
    BY <2>2, Zenon DEF LaunchInv
<1>1. CASE UNCHANGED <<running, dpiSource, starts, launching>>
  BY <1>1, Zenon DEF LaunchInv, Unresolved
<1>2. CASE Start
  <2>1. ~running /\ running' = TRUE /\ dpiSource' = dpiSource
    BY <1>2, Zenon DEF Start
  <2>2. starts' = starts + 1 /\ launching' = launching
    BY <1>2, Zenon DEF Start
  <2>3. launching' \in 0..starts' /\ launching' < starts'
    BY <1>0, <2>2
  <2> QED
    BY <2>1, <2>3, Zenon DEF LaunchInv, Unresolved
<1>3. CASE Resolve
  <2>1. /\ running /\ Unresolved /\ running' = running /\ ~Unresolved'
        /\ dpiSource' \in {"", "manual", "other"}
    BY <1>3, Zenon DEF Resolve, Unresolved
  <2>2. starts' = starts /\ (launching' = launching \/ launching' = launching + 1)
    BY <1>3, Zenon DEF Resolve
  <2>3. launching < starts
    BY <1>0, <2>1, Zenon
  <2>4. launching' \in 0..starts'
    BY <1>0, <2>2, <2>3
  <2> QED
    BY <2>1, <2>4, Zenon DEF LaunchInv
<1>4. CASE Launch
  <2>1. running' = running /\ dpiSource' = dpiSource
    BY <1>4, Zenon DEF Launch
  <2>2. launching > 0 /\ launching' = launching - 1 /\ starts' = starts
    BY <1>4, Zenon DEF Launch
  <2>3. launching' \in 0..starts' /\ (running /\ Unresolved => launching' < starts')
    BY <1>0, <2>2
  <2> QED
    BY <2>1, <2>3, Zenon DEF LaunchInv, Unresolved
<1>5. CASE TakeDown
  <2>1. running' = FALSE /\ Unresolved' /\ launching' = launching /\ starts' = starts
    BY <1>5, Zenon DEF TakeDown, Unresolved
  <2> QED
    BY <2>1, Zenon DEF LaunchInv, Unresolved
<1> QED
  BY <1>1, <1>2, <1>3, <1>4, <1>5, SourceSteps, Zenon

Restarting == restarting \in BOOLEAN
StrayProcs == stray \subseteq Procs

LEMMA RestartingKept == Restarting /\ [Next]_vars => Restarting'
<1> SUFFICES ASSUME restarting \in BOOLEAN, [Next]_vars PROVE restarting' \in BOOLEAN
  BY Zenon DEF Restarting
<1>1. CASE Start \/ Reset \/ WatchdogStop \/ WatchdogStart \/ Resolve \/ Launch \/ Stop \/ Restart
  BY <1>1, Zenon
     DEF Start, Reset, WatchdogStop, WatchdogStart, Resolve, Launch, Stop, Restart
<1>2. ASSUME NEW l \in Starts, Loop(l) PROVE restarting' \in BOOLEAN
  BY <1>2, Zenon DEF Loop, Select, Tick, Told, DialFails, DialWorks, Relaunch, appVars
<1>3. ASSUME NEW c \in Conns, Enter(c) \/ Leave(c) PROVE restarting' \in BOOLEAN
  BY <1>3, Zenon DEF Enter, Leave, appVars
<1>4. ASSUME NEW p \in Procs, Waited(p) \/ Dies(p) PROVE restarting' \in BOOLEAN
  BY <1>4, Zenon DEF Waited, Dies, appVars
<1>5. CASE UNCHANGED vars
  BY <1>5, Zenon DEF vars, appVars
<1> QED
  BY <1>1, <1>2, <1>3, <1>4, <1>5, Zenon DEF Next

LEMMA StrayKept == ProcInv /\ StrayProcs /\ [Next]_vars => StrayProcs'
<1> SUFFICES ASSUME ProcInv, stray \subseteq Procs, [Next]_vars PROVE stray' \subseteq Procs
  BY DEF StrayProcs, Procs
<1>1. alive \subseteq Procs /\ alive' \subseteq Procs
  BY ProcKept, Zenon DEF ProcInv, GdpiTypeOK, Procs
<1>2. stray' \subseteq stray \cup alive \cup alive'
  <2>1. CASE UNCHANGED procVars
    BY <2>1 DEF procVars
  <2>2. CASE Late
    BY <2>2 DEF Late
  <2>3. CASE TakeDown
    BY <2>3, Zenon DEF TakeDown, procVars
  <2>4. ASSUME NEW p \in Procs, Waited(p) PROVE stray' \subseteq stray \cup alive
    BY <2>4 DEF Waited
  <2>5. ASSUME NEW p \in Procs, Dies(p) PROVE stray' = stray
    BY <2>5 DEF Dies
  <2> QED
    BY <2>1, <2>2, <2>3, <2>4, <2>5, ProcSteps
<1> QED
  BY <1>1, <1>2

\* Every variable keeps its type, and no start launches more than once.
THEOREM WatchdogTypes == Spec => [](WatchdogTypeOK /\ launching <= starts)
<1>1. Init => Restarting /\ StrayProcs
  <2> SUFFICES ASSUME Init PROVE Restarting /\ StrayProcs
    OBVIOUS
  <2>1. restarting = FALSE /\ stray = {}
    BY Zenon DEF Init
  <2> QED
    BY <2>1 DEF Restarting, StrayProcs
<1>2. ASSUME ProcInv, ConnsInv, LoopInv, LaunchInv, Restarting, StrayProcs
      PROVE  WatchdogTypeOK /\ launching <= starts
  <2>1. LoopInv
    BY <1>2, Zenon
  <2>2. /\ starts \in 0..MaxStarts /\ stop \in 0..MaxStarts
        /\ phase \in {"idle", "reset", "stop", "start"}
        /\ at \in [Starts -> {"none", "top", "select", "check", "relaunch", "ended"}]
        /\ on \in [Starts -> 0..MaxStarts]
    BY <2>1, Zenon DEF LoopInv, Places
  <2>3. closed \subseteq Starts
    BY <2>1, MaxStartsAssumption DEF LoopInv, Starts
  <2>4. launching \in 0..starts
    BY <1>2, Zenon DEF LaunchInv
  <2>5. launching \in 0..MaxStarts /\ launching <= starts
    BY <2>2, <2>4, MaxStartsAssumption
  <2>6. GdpiTypeOK
    BY <1>2, Zenon DEF ProcInv
  <2>7. /\ active \in Int /\ device \in Int /\ gone \in Nat
        /\ conn \in [Conns -> {"idle", "open", "old"}]
    BY <1>2, Zenon DEF ConnsInv
  <2>8. /\ running \in BOOLEAN /\ dpiSource \in {"", "manual", "other"}
        /\ restarting \in BOOLEAN /\ stray \subseteq Procs
    BY <1>2, Zenon DEF LaunchInv, Restarting, StrayProcs
  <2> QED
    BY <2>2, <2>3, <2>5, <2>6, <2>7, <2>8, Zenon DEF WatchdogTypeOK
<1> QED
  BY <1>1, <1>2, ProcInitially, ProcKept, ConnsInitially, ConnsKept, LoopsInitially, LoopsKept,
     LaunchesInitially, LaunchesKept, RestartingKept, StrayKept, PTL DEF Spec

====
