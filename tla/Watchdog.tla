---- MODULE Watchdog ----
(***************************************************************************)
(* The watchdog's loops, the process they relaunch, and the counters of    *)
(* watchdog.go and proxy.go, while the proxy is started and stopped.       *)
(*                                                                         *)
(* start holds a.mu, but the loops do not: they read running, dpiSource    *)
(* and w.stop as they find them.  A stop channel is named by the start     *)
(* that made it, and so is the loop spawned with it.                       *)
(***************************************************************************)
EXTENDS GDPIManager, Integers

CONSTANTS
    MaxStarts,      \* bound on the number of starts
    Conns           \* bound: the requests being handled at a time

ASSUME MaxStartsAssumption == MaxStarts \in Nat
ASSUME ConnsAssumption == IsFiniteSet(Conns)

VARIABLES
    running,        \* a.running
    dpiSource,      \* a.dpiSource: "manual" if the program launches GoodbyeDPI, or "other"
    phase,          \* how far start is, which holds a.mu unless "idle"
    starts,         \* how many starts there were
    launching,      \* the DPI goroutines of starts that are past their check of the generation
    restarting,     \* a restart asked for by the watchdog is under way
    stop,           \* w.stop: the channel, or 0 for nil
    closed,         \* the channels that are closed
    at,             \* where each loop is
    on,             \* the channel each loop's select waits for
    active,         \* stats.activeConns
    device,         \* deviceEntry.ActiveConns of the one device there is
    conn,           \* each handler: "idle", "open", or "old" if stats was reset since it began
    gone,           \* history: old handlers that ended since the last reset
    stray           \* history: processes launched while the proxy was off, or lost sight of

procVars == <<gdpiVars, stray>>
appVars == <<running, dpiSource, phase, starts, launching, restarting>>
loopVars == <<stop, closed, at, on>>
statVars == <<active, device, conn, gone>>
vars == <<procVars, appVars, loopVars, statVars>>

Starts == 1..MaxStarts

WatchdogTypeOK ==
    /\ GdpiTypeOK
    /\ running \in BOOLEAN /\ restarting \in BOOLEAN
    /\ dpiSource \in {"", "manual", "other"}
    /\ phase \in {"idle", "reset", "stop", "start"}
    /\ starts \in 0..MaxStarts /\ launching \in 0..MaxStarts /\ stop \in 0..MaxStarts
    /\ closed \subseteq Starts
    /\ at \in [Starts -> {"none", "top", "select", "check", "relaunch", "ended"}]
    /\ on \in [Starts -> 0..MaxStarts]
    /\ active \in Int /\ device \in Int /\ gone \in Nat
    /\ conn \in [Conns -> {"idle", "open", "old"}]
    /\ stray \subseteq Procs

Init ==
    /\ GdpiInit
    /\ running = FALSE /\ dpiSource = "" /\ phase = "idle" /\ starts = 0
    /\ launching = 0 /\ restarting = FALSE
    /\ stop = 0 /\ closed = {}
    /\ at = [l \in Starts |-> "none"] /\ on = [l \in Starts |-> 0]
    /\ active = 0 /\ device = 0 /\ gone = 0
    /\ conn = [c \in Conns |-> "idle"]
    /\ stray = {}

----------------------------------------------------------------------------
(* start, stop and restart *)

Start ==
    /\ phase = "idle" /\ ~running /\ starts < MaxStarts
    /\ running' = TRUE
    /\ phase' = "reset"
    /\ starts' = starts + 1
    /\ UNCHANGED <<procVars, dpiSource, launching, restarting, loopVars, statVars>>

\* stats.reset, with tunnels of earlier starts still open.
Reset ==
    /\ phase = "reset"
    /\ phase' = "stop"
    /\ active' = 0
    /\ gone' = 0
    /\ conn' = [c \in Conns |-> IF conn[c] = "open" THEN "old" ELSE conn[c]]
    /\ UNCHANGED <<procVars, running, dpiSource, starts, launching, restarting, loopVars, device>>

\* Mutant: Start comes before Stop, which then closes the new channel.
WatchdogStopLate ==
    /\ phase = "stop"
    /\ phase' = "start"
    /\ closed' = closed \cup {starts}
    /\ UNCHANGED <<procVars, running, dpiSource, starts, launching, restarting,
                   stop, at, on, statVars>>

\* watchdog.Stop.
WatchdogStop ==
    /\ phase = "stop"
    /\ phase' = "start"
    /\ closed' = closed \cup ({stop} \ {0})
    /\ UNCHANGED <<procVars, running, dpiSource, starts, launching, restarting,
                   stop, at, on, statVars>>

\* watchdog.Start; start returns.
WatchdogStart ==
    /\ phase = "start"
    /\ phase' = "idle"
    /\ stop' = starts
    /\ at' = [at EXCEPT ![starts] = "top"]
    /\ UNCHANGED <<procVars, running, dpiSource, starts, launching, restarting, closed, on, statVars>>

\* The DPI goroutine of the running start: ResolveDPI is done and the generation is its own.
Resolve ==
    /\ phase = "idle" /\ running /\ dpiSource = ""
    /\ \/ dpiSource' = "other" /\ UNCHANGED launching
       \/ dpiSource' = "manual" /\ launching' = launching + 1
    /\ UNCHANGED <<procVars, running, phase, starts, restarting, loopVars, statVars>>

\* What gdpi.Start may launch now is launched for a proxy that is off.
Late == stray' = IF running THEN stray ELSE stray \cup (alive' \ alive)

\* It launches GoodbyeDPI, without a.mu.
Launch ==
    /\ launching > 0
    /\ launching' = launching - 1
    /\ GdpiStart /\ Late
    /\ UNCHANGED <<running, dpiSource, phase, starts, restarting, loopVars, statVars>>

\* stop, and the first half of restart, under a.mu.
TakeDown ==
    /\ phase = "idle" /\ running
    /\ running' = FALSE
    /\ dpiSource' = ""
    /\ IF gdpiRunning THEN GdpiStop /\ UNCHANGED stray ELSE UNCHANGED procVars
    /\ UNCHANGED <<phase, starts, launching, loopVars, statVars>>

Stop == TakeDown /\ UNCHANGED restarting

\* The restart of the watchdog gets a.mu; its second half is a Start.
Restart ==
    /\ restarting
    /\ restarting' = FALSE
    /\ \/ TakeDown
       \/ phase = "idle" /\ ~running
          /\ UNCHANGED <<procVars, running, dpiSource, phase, starts, launching, loopVars, statVars>>

----------------------------------------------------------------------------
(* loop and check *)

Go(l, place) == at' = [at EXCEPT ![l] = place]

\* The select evaluates w.stop.
Select(l) ==
    /\ at[l] = "top"
    /\ on' = [on EXCEPT ![l] = stop]
    /\ Go(l, "select")
    /\ UNCHANGED <<procVars, appVars, stop, closed, statVars>>

\* Five seconds are over.
Tick(l) ==
    /\ at[l] = "select"
    /\ Go(l, IF running THEN "check" ELSE "top")
    /\ UNCHANGED <<procVars, appVars, stop, closed, on, statVars>>

Told(l) ==
    /\ at[l] = "select"
    /\ on[l] \in closed
    /\ Go(l, "ended")
    /\ UNCHANGED <<procVars, appVars, stop, closed, on, statVars>>

\* The port does not answer: restart, in a goroutine of its own.
DialFails(l) ==
    /\ at[l] = "check"
    /\ restarting' = TRUE
    /\ Go(l, "top")
    /\ UNCHANGED <<procVars, running, dpiSource, phase, starts, launching,
                   stop, closed, on, statVars>>

DialWorks(l) ==
    /\ at[l] = "check"
    /\ Go(l, IF ~gdpiRunning /\ dpiSource = "manual" THEN "relaunch" ELSE "top")
    /\ UNCHANGED <<procVars, appVars, stop, closed, on, statVars>>

\* ResolveDPI and gdpi.Start, whatever has happened since.
Relaunch(l) ==
    /\ at[l] = "relaunch"
    /\ Go(l, "top")
    /\ GdpiStart /\ Late
    /\ UNCHANGED <<appVars, stop, closed, on, statVars>>

Loop(l) == Select(l) \/ Tick(l) \/ Told(l) \/ DialFails(l) \/ DialWorks(l) \/ Relaunch(l)

----------------------------------------------------------------------------
(* handleConnect and handleHTTP *)

\* incConn, incDeviceConn.
Enter(c) ==
    /\ starts > 0
    /\ conn[c] = "idle"
    /\ conn' = [conn EXCEPT ![c] = "open"]
    /\ active' = active + 1
    /\ device' = device + 1
    /\ UNCHANGED <<procVars, appVars, loopVars, gone>>

\* Mutant: a handler returns before it has deferred decConn.
LeaveForgets(c) ==
    /\ conn[c] # "idle"
    /\ conn' = [conn EXCEPT ![c] = "idle"]
    /\ device' = device - 1
    /\ gone' = IF conn[c] = "old" THEN gone + 1 ELSE gone
    /\ UNCHANGED <<procVars, appVars, loopVars, active>>

\* The deferred decDeviceConn, decConn.
Leave(c) ==
    /\ conn[c] # "idle"
    /\ conn' = [conn EXCEPT ![c] = "idle"]
    /\ active' = active - 1
    /\ device' = device - 1
    /\ gone' = IF conn[c] = "old" THEN gone + 1 ELSE gone
    /\ UNCHANGED <<procVars, appVars, loopVars>>

\* The wait goroutine of a process, which may take the one that runs for its own.
Waited(p) ==
    /\ GdpiWaitDone(p)
    /\ stray' = stray \cup ({proc} \cap alive)
    /\ UNCHANGED <<appVars, loopVars, statVars>>

Dies(p) == GdpiDies(p) /\ UNCHANGED <<stray, appVars, loopVars, statVars>>

Next ==
    \/ Start \/ Reset \/ WatchdogStop \/ WatchdogStart \/ Resolve \/ Launch \/ Stop \/ Restart
    \/ \E l \in Starts : Loop(l)
    \/ \E c \in Conns : Enter(c) \/ Leave(c)
    \/ \E p \in Procs : Waited(p) \/ Dies(p)

\* Goroutines that can go on do; the ticker ticks.  Nothing is assumed of the user, of
\* connections, or of when a process dies.
Fairness ==
    /\ WF_vars(Reset \/ WatchdogStop \/ WatchdogStart) /\ WF_vars(Restart)
    /\ \A l \in Starts : WF_vars(Loop(l))
    /\ \A p \in Procs : WF_vars(Waited(p))

Spec == Init /\ [][Next]_vars /\ Fairness

----------------------------------------------------------------------------
(* Properties *)

\* The connections begun since the last reset, and all there are.
Open == {c \in Conns : conn[c] = "open"}
Busy == {c \in Conns : conn[c] # "idle"}

\* While the proxy runs with a GoodbyeDPI of its own, the death of that process is noticed
\* and some loop of the watchdog comes to relaunch it: stops, starts and restarts, however
\* they fall between the steps of older loops, never leave the program without a loop
\* (WaitDone, watchdog.Stop and Start, check).
DeathRelaunched ==
    (running /\ dpiSource = "manual" /\ proc \notin alive)
        ~> (\/ \E l \in Starts : at[l] = "relaunch"
            \/ proc \in alive \/ ~running \/ dpiSource # "manual")

\* While the proxy is off no GoodbyeDPI of this program is left running, unless it was
\* launched late, by a start-up goroutine or a check that stop came in between of, or the
\* wait goroutine of an earlier process made the manager lose sight of it (stop, gdpi.Stop).
NoStrayProcess == ~running => alive \subseteq stray

\* The number of connections shown is never above those there are, and below them by no
\* more than the connections of earlier starts, still open or ended since the reset: with
\* none of these it is exact.  That of a device always is (reset, incConn, decConn,
\* incDeviceConn, decDeviceConn).
ConnsCounted ==
    /\ active \in (Cardinality(Open) - gone)..Cardinality(Busy)
    /\ device = Cardinality(Busy)

====
