---- MODULE GDPIManager ----
(***************************************************************************)
(* The manager of the external GoodbyeDPI process, goodbyedpi.go.          *)
(*                                                                         *)
(* Start, Stop and the body of the wait goroutine each hold m.mu, so each  *)
(* is one step.  What is not under the lock is the death of the process    *)
(* and the moment its wait goroutine gets the lock.  Processes are         *)
(* numbered in the order they are spawned; MaxProcs bounds how many.       *)
(***************************************************************************)
EXTENDS Naturals, FiniteSets

CONSTANT MaxProcs

ASSUME MaxProcsAssumption == MaxProcs \in Nat

VARIABLES
    proc,           \* m.proc: the process the manager knows, or NoProc
    gdpiRunning,    \* m.running
    spawned,        \* how many processes Start has created
    alive,          \* the processes the operating system is running
    waiting         \* the processes whose wait goroutine has not finished

gdpiVars == <<proc, gdpiRunning, spawned, alive, waiting>>

NoProc == 0
Procs == 1..MaxProcs

GdpiTypeOK ==
    /\ proc \in Procs \cup {NoProc}
    /\ gdpiRunning \in BOOLEAN
    /\ spawned \in 0..MaxProcs
    /\ alive \subseteq Procs
    /\ waiting \subseteq Procs

GdpiInit ==
    /\ proc = NoProc
    /\ gdpiRunning = FALSE
    /\ spawned = 0
    /\ alive = {}
    /\ waiting = {}

----------------------------------------------------------------------------

\* Start past every early return: the process runs and its wait goroutine waits.
GdpiSpawn ==
    /\ ~gdpiRunning
    /\ spawned < MaxProcs
    /\ spawned' = spawned + 1
    /\ proc' = spawned + 1
    /\ gdpiRunning' = TRUE
    /\ alive' = alive \cup {spawned + 1}
    /\ waiting' = waiting \cup {spawned + 1}

\* Start: already running, no such file, CreateProcess refused, or spawned.
GdpiStart == GdpiSpawn \/ UNCHANGED gdpiVars

\* Mutant: the process is forgotten but not killed.
GdpiStopForgets ==
    /\ proc' = NoProc
    /\ gdpiRunning' = FALSE
    /\ UNCHANGED <<spawned, alive, waiting>>

\* Stop: the known process is killed and forgotten.
GdpiStop ==
    /\ alive' = alive \ {proc}
    /\ proc' = NoProc
    /\ gdpiRunning' = FALSE
    /\ UNCHANGED <<spawned, waiting>>

\* Mutant: the goroutine takes a live process for a dead one.
GdpiWaitDoneEarly(p) ==
    /\ p \in waiting
    /\ waiting' = waiting \ {p}
    /\ gdpiRunning' = FALSE
    /\ proc' = NoProc
    /\ UNCHANGED <<spawned, alive>>

\* cmd.Wait of process p returned: its goroutine clears running and proc,
\* whichever process they now stand for.
GdpiWaitDone(p) ==
    /\ p \in waiting \ alive
    /\ waiting' = waiting \ {p}
    /\ gdpiRunning' = FALSE
    /\ proc' = NoProc
    /\ UNCHANGED <<spawned, alive>>

\* The process exits by itself: a crash, or it is killed from outside.
GdpiDies(p) ==
    /\ p \in alive
    /\ alive' = alive \ {p}
    /\ UNCHANGED <<proc, gdpiRunning, spawned, waiting>>

----------------------------------------------------------------------------
(* Properties *)

\* A live process always has the goroutine that will notice its death, even
\* one the manager has lost sight of.
EveryProcessWatched == alive \subseteq waiting

\* The two fields of the manager never disagree, whoever wrote them last.
RunningIffProc == gdpiRunning <=> proc # NoProc

\* The manager loses sight of a live process only when the wait goroutine of
\* an earlier process finishes late; a Stop never does.
DisownedOnlyByOldWaiter ==
    [][proc # proc' /\ proc \in alive' => \E p \in waiting \ waiting' : p < proc]_gdpiVars

====
