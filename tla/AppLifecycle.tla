---- MODULE AppLifecycle ----
(***************************************************************************)
(* The life cycle of the proxy: start, stop, restart and shutdown of       *)
(* main.go, with the goroutines that call them (tray and window toggles,   *)
(* saved settings, the watchdog, the exit of the window) and the           *)
(* goroutines they leave behind (the delayed shutdown of a stopped proxy,  *)
(* the DPI start-up of a generation, the closer of a broken WinDivert      *)
(* session).                                                               *)
(*                                                                         *)
(* A section of code under a.mu is one step, unless it shuts the PAC       *)
(* server down: that Shutdown has no deadline, so its goroutine keeps a.mu *)
(* until the last PAC request ends, if it ever does.  Everything a         *)
(* goroutine does outside a.mu is a step of its own.  Every successful     *)
(* start increments a.gen, so the HTTP server that start created is named  *)
(* by its generation.  The pushes to the router, the DNS and the Windows proxy    *)
(* settings, which start and stop hand to other goroutines, read nothing   *)
(* of this state afterwards and are not part of this module.               *)
(***************************************************************************)
EXTENDS GDPIManager

CONSTANTS
    Threads,    \* goroutines that call start, stop and restart
    Ports,      \* TCP ports a listener can be configured on
    None,       \* no port
    Direct,     \* the PAC body that sends everything DIRECT
    Configs,    \* the port settings a user can save: proxy and PAC port
    MaxGen      \* bound on the number of successful starts

ASSUME ThreadsAssumption == None \notin Threads
ASSUME PortsAssumption == None \notin Ports /\ Direct \notin Ports
ASSUME ConfigsAssumption == Configs \subseteq [proxy : Ports, pac : Ports] /\ None \notin Configs
ASSUME MaxGenAssumption == MaxGen \in Nat

VARIABLES
    running,        \* a.running
    gen,            \* a.gen
    proxySrv,       \* a.proxySrv, by generation, or 0 for nil
    bound,          \* per generation, the port its HTTP server listens on, or None
    stopCancel,     \* a.stopCancel and a.stopDone: the stop goroutine they belong to, or 0
    stopper,        \* per generation, where the goroutine that closes its server is
    pacBody,        \* pacBody of pac.go: Direct, or the proxy port it names
    pacSrv,         \* a.pacSrv and a.pacPort: the port of the PAC server, or None
    dpiSource,      \* a.dpiSource
    dpi,            \* per generation, where its DPI start-up goroutine is
    divert,         \* the generation that opened the WinDivert handles, or 0 if closed
    faulted,        \* generations whose divertLoop failed and whose closer is pending
    config,         \* the configured ports
    moving,         \* the ports of the start that waits, its proxy bound, for the old
                    \* PAC server to shut down, or None
    pc,             \* per thread, what it does next
    arg,            \* per thread, the generation it waits for or shuts down, or 0
    toggler,        \* the thread that holds toggleBusy, or None
    exiter,         \* the thread that runs the exit of the window, or None
    exited          \* os.Exit was called

appVars == <<running, gen, proxySrv, bound, stopCancel, stopper, pacBody, pacSrv,
             dpiSource, dpi, divert, faulted, config, moving, pc, arg, toggler, exiter, exited>>
vars == <<appVars, gdpiVars>>

Gens == 1..MaxGen
\* "manual" stands for manual and bundle, whose process this program launches;
\* "service" for service, process and disabled, which it leaves alone;
\* "unset" is the empty string, no source.
Sources == {"unset", "none", "internal", "manual", "service"}
StopperStates == {"none", "push", "grace", "drain", "done"}
DpiStates == {"none", "resolve", "divert", "launch", "done"}
ThreadStates == {"idle", "start", "wait", "stop", "restart", "shut", "reload",
                 "dial", "relaunch", "movepac", "closepac", "closingpac", "exit"}
\* A thread is here while it holds a.mu over a Shutdown of the PAC server.
Holding == {"movepac", "closingpac"}

TypeOK ==
    /\ GdpiTypeOK
    /\ running \in BOOLEAN
    /\ gen \in 0..MaxGen
    /\ proxySrv \in 0..MaxGen
    /\ bound \in [Gens -> Ports \cup {None}]
    /\ stopCancel \in 0..MaxGen
    /\ stopper \in [Gens -> StopperStates]
    /\ pacBody \in Ports \cup {Direct}
    /\ pacSrv \in Ports \cup {None}
    /\ dpiSource \in Sources
    /\ dpi \in [Gens -> DpiStates]
    /\ divert \in 0..MaxGen
    /\ faulted \subseteq Gens
    /\ config \in Configs
    /\ moving \in Configs \cup {None}
    /\ pc \in [Threads -> ThreadStates]
    /\ arg \in [Threads -> 0..MaxGen]
    /\ toggler \in Threads \cup {None}
    /\ exiter \in Threads \cup {None}
    /\ exited \in BOOLEAN

\* main starts the PAC server, if its port is free, and the proxy, if so configured.
Init ==
    /\ GdpiInit
    /\ running = FALSE
    /\ gen = 0
    /\ proxySrv = 0
    /\ bound = [n \in Gens |-> None]
    /\ stopCancel = 0
    /\ stopper = [n \in Gens |-> "none"]
    /\ pacBody = Direct
    /\ config \in Configs
    /\ pacSrv \in {config.pac, None}
    /\ moving = None
    /\ dpiSource = "unset"
    /\ dpi = [n \in Gens |-> "none"]
    /\ divert = 0
    /\ faulted = {}
    /\ \/ pc = [t \in Threads |-> "idle"]
       \/ \E main \in Threads : pc = [t \in Threads |-> IF t = main THEN "start" ELSE "idle"]
    /\ arg = [t \in Threads |-> 0]
    /\ toggler = None
    /\ exiter = None
    /\ exited = FALSE

----------------------------------------------------------------------------
(* Helpers *)

\* a.current: does generation n still own the running proxy?
current(n) == running /\ gen = n

\* Nobody holds a.mu.
MuFree == \A t \in Threads : pc[t] \notin Holding

\* The ports this process listens on.
Held == (({bound[n] : n \in Gens} \cup {pacSrv}) \ {None})
           \cup (IF moving = None THEN {} ELSE {moving.proxy})

Goto(t, label) == pc' = [pc EXCEPT ![t] = label]

\* The goroutine of thread t ends; a toggle gives toggleBusy back.
Return(t) ==
    /\ Goto(t, "idle")
    /\ arg' = [arg EXCEPT ![t] = 0]
    /\ toggler' = IF toggler = t THEN None ELSE toggler

\* What start, stop and restart leave alone.
UnchangedApp == UNCHANGED <<running, gen, proxySrv, bound, pacBody, pacSrv, dpiSource,
                            dpi, divert, moving>>

----------------------------------------------------------------------------
(* start *)

\* The proxy port is taken, by this process or by another one: start fails.
StartBindFails(t) ==
    /\ Return(t)
    /\ UnchangedApp

\* The PAC server must move to another port: with the new proxy listening, the
\* old PAC server stops listening, and start waits under a.mu for its requests.
StartMovesPac(t) ==
    /\ pacSrv \notin {config.pac, None}
    /\ pacSrv' = None
    /\ moving' = config
    /\ Goto(t, "movepac")
    /\ UNCHANGED <<running, gen, proxySrv, bound, pacBody, dpiSource, dpi, divert, arg, toggler>>

\* Mutant: ps.Close() is forgotten.
StartPacFailsLeaks(t, c) ==
    /\ pacSrv = None
    /\ moving' = None
    /\ bound' = [bound EXCEPT ![gen + 1] = c.proxy]
    /\ Return(t)
    /\ UNCHANGED <<running, gen, proxySrv, pacBody, pacSrv, dpiSource, dpi, divert>>

\* There is no PAC server and its port cannot be bound: the new proxy listener
\* is closed again.
StartPacFails(t, c) ==
    /\ pacSrv = None
    /\ moving' = None
    /\ Return(t)
    /\ UNCHANGED <<running, gen, proxySrv, bound, pacBody, pacSrv, dpiSource, dpi, divert>>

\* The PAC server is kept or could be started: a new generation runs.
StartSucceeds(t, c) ==
    /\ gen < MaxGen
    /\ \/ pacSrv = c.pac
       \/ pacSrv = None /\ c.pac \notin Held \cup {c.proxy}
    /\ pacSrv' = c.pac
    /\ pacBody' = c.proxy
    /\ moving' = None
    /\ gen' = gen + 1
    /\ bound' = [bound EXCEPT ![gen + 1] = c.proxy]
    /\ dpi' = [dpi EXCEPT ![gen + 1] = "resolve"]
    /\ proxySrv' = gen + 1
    /\ running' = TRUE
    /\ Return(t)
    /\ UNCHANGED <<dpiSource, divert>>

StartBody(t) ==
    \/ running /\ Return(t) /\ UnchangedApp
    \/ ~running /\ StartBindFails(t)
    \/ /\ ~running
       /\ config.proxy \notin Held
       /\ StartMovesPac(t) \/ StartPacFails(t, config) \/ StartSucceeds(t, config)

\* start takes a.mu: a pending stop goroutine is cancelled and waited for.
Start(t) ==
    /\ pc[t] = "start"
    /\ MuFree
    /\ \/ /\ running \/ stopCancel = 0
          /\ StartBody(t)
          /\ UNCHANGED stopCancel
       \/ /\ ~running /\ stopCancel # 0
          /\ stopCancel' = 0
          /\ Goto(t, "wait")
          /\ arg' = [arg EXCEPT ![t] = stopCancel]
          /\ UNCHANGED toggler
          /\ UnchangedApp
    /\ UNCHANGED <<gdpiVars, stopper, faulted, config, exiter, exited>>

\* The stop goroutine closed its done channel: start takes a.mu again.
StartResumes(t) ==
    /\ pc[t] = "wait"
    /\ stopper[arg[t]] = "done"
    /\ MuFree
    /\ StartBody(t)
    /\ UNCHANGED <<gdpiVars, stopCancel, stopper, faulted, config, exiter, exited>>

\* The old PAC server's last request has ended: start goes on with the ports it read.
PacMoved(t) ==
    /\ pc[t] = "movepac"
    /\ StartPacFails(t, moving) \/ StartSucceeds(t, moving)
    /\ UNCHANGED <<gdpiVars, stopCancel, stopper, faulted, config, exiter, exited>>

----------------------------------------------------------------------------
(* stop, restart and shutdown *)

\* Mutant: a.proxySrv is not reset.
TakeDownKeepsServer ==
    /\ running' = FALSE
    /\ pacBody' = Direct
    /\ dpiSource' = "unset"
    /\ divert' = 0
    /\ IF gdpiRunning THEN GdpiStop ELSE UNCHANGED gdpiVars
    /\ UNCHANGED <<proxySrv, gen, bound, pacSrv, dpi, moving>>

\* Mutant: setPACDirect is forgotten.
TakeDownKeepsPac ==
    /\ running' = FALSE
    /\ proxySrv' = 0
    /\ dpiSource' = "unset"
    /\ divert' = 0
    /\ IF gdpiRunning THEN GdpiStop ELSE UNCHANGED gdpiVars
    /\ UNCHANGED <<gen, bound, pacBody, pacSrv, dpi, moving>>

\* What stop and restart both do under a.mu.
TakeDown ==
    /\ running' = FALSE
    /\ proxySrv' = 0
    /\ pacBody' = Direct
    /\ dpiSource' = "unset"
    /\ divert' = 0
    /\ IF gdpiRunning THEN GdpiStop ELSE UNCHANGED gdpiVars
    /\ UNCHANGED <<gen, bound, pacSrv, dpi, moving>>

\* stop returns, to shutdown if the window is closing the program.
StopReturns(t) ==
    IF exiter = t THEN Goto(t, "closepac") /\ UNCHANGED <<arg, toggler>> ELSE Return(t)

\* stop: the server it takes out of service goes to a goroutine that closes it.
Stop(t) ==
    /\ pc[t] = "stop"
    /\ MuFree
    /\ StopReturns(t)
    /\ \/ /\ ~running
          /\ UnchangedApp
          /\ UNCHANGED <<gdpiVars, stopCancel, stopper>>
       \/ /\ running
          /\ TakeDown
          /\ stopCancel' = proxySrv
          /\ stopper' = [stopper EXCEPT ![proxySrv] = "push"]
    /\ UNCHANGED <<faulted, config, exiter, exited>>

\* restart under a.mu: start if the proxy is off, else take it down at once.
Restart(t) ==
    /\ pc[t] = "restart"
    /\ MuFree
    /\ \/ /\ ~running
          /\ Goto(t, "start")
          /\ UnchangedApp
          /\ UNCHANGED <<gdpiVars, stopCancel, arg>>
       \/ /\ running
          /\ TakeDown
          /\ stopCancel' = 0
          /\ Goto(t, "shut")
          /\ arg' = [arg EXCEPT ![t] = proxySrv]
    /\ UNCHANGED <<toggler, stopper, faulted, config, exiter, exited>>

\* Mutant: the server is shut down only if the port is to change.
RestartShutsLater(t) ==
    /\ pc[t] = "shut"
    /\ bound' = [bound EXCEPT ![arg[t]] = IF @ = config.proxy THEN @ ELSE None]
    /\ Goto(t, "start")
    /\ arg' = [arg EXCEPT ![t] = 0]
    /\ UNCHANGED <<gdpiVars, running, gen, proxySrv, stopCancel, stopper, pacBody, pacSrv,
                   dpiSource, dpi, divert, faulted, config, moving, toggler, exiter, exited>>

\* restart outside a.mu: the old server is shut down, then start is called.
RestartShuts(t) ==
    /\ pc[t] = "shut"
    /\ bound' = [bound EXCEPT ![arg[t]] = None]
    /\ Goto(t, "start")
    /\ arg' = [arg EXCEPT ![t] = 0]
    /\ UNCHANGED <<gdpiVars, running, gen, proxySrv, stopCancel, stopper, pacBody, pacSrv,
                   dpiSource, dpi, divert, faulted, config, moving, toggler, exiter, exited>>

\* shutdown after its stop takes a.mu again and closes the PAC server's listener,
\* if there is one.
ClosePac(t) ==
    /\ pc[t] = "closepac"
    /\ MuFree
    /\ pacSrv' = None
    /\ Goto(t, IF pacSrv = None THEN "exit" ELSE "closingpac")
    /\ UNCHANGED <<gdpiVars, running, gen, proxySrv, bound, stopCancel, stopper, pacBody,
                   dpiSource, dpi, divert, faulted, config, moving, arg, toggler, exiter, exited>>

\* The last PAC request has ended: shutdown gives a.mu back.
PacClosed(t) ==
    /\ pc[t] = "closingpac"
    /\ Goto(t, "exit")
    /\ UNCHANGED <<gdpiVars, running, gen, proxySrv, bound, stopCancel, stopper, pacBody, pacSrv,
                   dpiSource, dpi, divert, faulted, config, moving, arg, toggler, exiter, exited>>

----------------------------------------------------------------------------
(* The goroutine stop leaves behind for the server of generation n *)

StopperMoves(n, from, to) ==
    /\ stopper[n] = from
    /\ stopper' = [stopper EXCEPT ![n] = to]
    /\ UNCHANGED <<gdpiVars, running, gen, proxySrv, stopCancel, pacBody, pacSrv, dpiSource,
                   dpi, divert, faulted, config, moving, pc, arg, toggler, exiter, exited>>

\* pushRouterPAC returned, whether or not the router answered.
Pushed(n) == StopperMoves(n, "push", "grace") /\ UNCHANGED bound

\* Mutant: the goroutine reads a.proxySrv when it closes, not when it is created.
EndGraceReadsLate(n) ==
    /\ StopperMoves(n, "grace", "drain")
    /\ bound' = [bound EXCEPT ![IF proxySrv = 0 THEN n ELSE proxySrv] = None]

\* Five seconds are over or the stop was cancelled: Shutdown closes the listener.
EndGrace(n) ==
    /\ StopperMoves(n, "grace", "drain")
    /\ bound' = [bound EXCEPT ![n] = None]

\* Mutant: the goroutine ends without closing its done channel.
DrainedSilently(n) == StopperMoves(n, "drain", "none") /\ UNCHANGED bound

\* Shutdown returned: the done channel is closed.
Drained(n) == StopperMoves(n, "drain", "done") /\ UNCHANGED bound

----------------------------------------------------------------------------
(* The DPI start-up goroutine of generation n, and WinDivert *)

DpiMoves(n, from, to) ==
    /\ dpi[n] = from
    /\ dpi' = [dpi EXCEPT ![n] = to]
    /\ UNCHANGED <<running, gen, proxySrv, bound, stopCancel, stopper, pacBody, pacSrv,
                   faulted, config, moving, pc, arg, toggler, exiter, exited>>

\* What follows ResolveDPI: the WinDivert scopes, the launch of a process, or nothing.
NextDpi(src) ==
    CASE src = "internal" -> {"divert", "done"}
      [] src = "manual"   -> {"launch"}
      [] OTHER            -> {"done"}

\* ResolveDPI returned: under a.mu the source is recorded, if n is still current.
Resolve(n) ==
    /\ MuFree
    /\ UNCHANGED <<gdpiVars, divert>>
    /\ \/ ~current(n) /\ DpiMoves(n, "resolve", "done") /\ UNCHANGED dpiSource
       \/ /\ current(n)
          /\ \E src \in Sources \ {"unset"} :
                /\ dpiSource' = src
                /\ \E to \in NextDpi(src) : DpiMoves(n, "resolve", to)

\* Mutant: the generation is not checked again before WinDivert is opened.
StartDivertUnchecked(n) ==
    /\ MuFree
    /\ DpiMoves(n, "divert", "done")
    /\ divert' \in {n, 0}
    /\ UNCHANGED <<gdpiVars, dpiSource>>

\* startDivert under a.mu, if n is still current; it closes what is open first.
StartDivert(n) ==
    /\ MuFree
    /\ DpiMoves(n, "divert", "done")
    /\ IF current(n) THEN divert' \in {n, 0} ELSE UNCHANGED divert
    /\ UNCHANGED <<gdpiVars, dpiSource>>

\* gdpi.Start, not under a.mu.
Launch(n) ==
    /\ DpiMoves(n, "launch", "done")
    /\ GdpiStart
    /\ UNCHANGED <<dpiSource, divert>>

\* divertLoop fails to read while its handle is open and leaves the closing to a goroutine.
DivertFault(n) ==
    /\ divert = n
    /\ n \notin faulted
    /\ faulted' = faulted \cup {n}
    /\ UNCHANGED <<gdpiVars, running, gen, proxySrv, bound, stopCancel, stopper, pacBody, pacSrv,
                   dpiSource, dpi, divert, config, moving, pc, arg, toggler, exiter, exited>>

\* That goroutine's stopDivert: it closes whatever is open by now.
DivertCloser(n) ==
    /\ n \in faulted
    /\ faulted' = faulted \ {n}
    /\ divert' = 0
    /\ UNCHANGED <<gdpiVars, running, gen, proxySrv, bound, stopCancel, stopper, pacBody, pacSrv,
                   dpiSource, dpi, config, moving, pc, arg, toggler, exiter, exited>>

----------------------------------------------------------------------------
(* The callers *)

UnchangedByCaller ==
    /\ UnchangedApp
    /\ UNCHANGED <<stopCancel, stopper, faulted, exited>>

\* A click in the tray or the window: toggleProxy starts or stops in a goroutine.
Toggle(t) ==
    /\ pc[t] = "idle"
    /\ toggler = None
    /\ toggler' = t
    /\ \E call \in {"start", "stop"} : Goto(t, call)
    /\ UnchangedByCaller
    /\ UNCHANGED <<gdpiVars, config, arg, exiter>>

\* saveSettings: the new ports are stored; a goroutine restarts what runs.
SaveSettings(t) ==
    /\ pc[t] = "idle"
    /\ config' \in Configs
    /\ running \/ config' # config
    /\ Goto(t, "reload")
    /\ UnchangedByCaller
    /\ UNCHANGED <<gdpiVars, arg, toggler, exiter>>

\* The goroutine of saveSettings reads running, without the lock.
Reload(t) ==
    /\ pc[t] = "reload"
    /\ Goto(t, IF running THEN "restart" ELSE "idle")
    /\ UnchangedByCaller
    /\ UNCHANGED <<gdpiVars, config, arg, toggler, exiter>>

\* Watchdog.check read running, without the lock, and dials the proxy port.
WatchdogCheck(t) ==
    /\ pc[t] = "idle"
    /\ running
    /\ Goto(t, "dial")
    /\ UnchangedByCaller
    /\ UNCHANGED <<gdpiVars, config, arg, toggler, exiter>>

\* No answer within two seconds: a goroutine restarts the proxy.
DialFails(t) ==
    /\ pc[t] = "dial"
    /\ Goto(t, "restart")
    /\ UnchangedByCaller
    /\ UNCHANGED <<gdpiVars, config, arg, toggler, exiter>>

\* An answer: the process this program launched is relaunched if it is not running.
DialAnswers(t) ==
    /\ pc[t] = "dial"
    /\ Goto(t, IF ~gdpiRunning /\ dpiSource = "manual" THEN "relaunch" ELSE "idle")
    /\ UnchangedByCaller
    /\ UNCHANGED <<gdpiVars, config, arg, toggler, exiter>>

Relaunch(t) ==
    /\ pc[t] = "relaunch"
    /\ GdpiStart
    /\ Goto(t, "idle")
    /\ UnchangedByCaller
    /\ UNCHANGED <<config, arg, toggler, exiter>>

\* windowExit calls shutdown, whose first step is stop.
WindowExit(t) ==
    /\ pc[t] = "idle"
    /\ exiter = None
    /\ exiter' = t
    /\ Goto(t, "stop")
    /\ UnchangedByCaller
    /\ UNCHANGED <<gdpiVars, config, arg, toggler>>

\* os.Exit, after shutdown or from the tray's quit item.
Exit ==
    /\ exited' = TRUE
    /\ UNCHANGED <<gdpiVars, running, gen, proxySrv, bound, stopCancel, stopper, pacBody, pacSrv,
                   dpiSource, dpi, divert, faulted, config, moving, pc, arg, toggler, exiter>>

----------------------------------------------------------------------------
(* The specification *)

ThreadStep(t) ==
    \/ Start(t) \/ StartResumes(t) \/ Stop(t) \/ Restart(t) \/ RestartShuts(t) \/ ClosePac(t)
    \/ Reload(t) \/ DialFails(t) \/ DialAnswers(t) \/ Relaunch(t)

\* A Shutdown of the PAC server returns; a client that stalls keeps it from that.
PacShutdownReturns(t) == PacMoved(t) \/ PacClosed(t)

CallerBegins(t) == Toggle(t) \/ SaveSettings(t) \/ WatchdogCheck(t) \/ WindowExit(t)

StopperStep(n) == Pushed(n) \/ EndGrace(n) \/ Drained(n)
DpiStep(n) == Resolve(n) \/ StartDivert(n) \/ Launch(n)

GdpiStep == (\E p \in Procs : GdpiWaitDone(p) \/ GdpiDies(p)) /\ UNCHANGED appVars

Terminated == exited /\ UNCHANGED vars

Next ==
    \/ /\ ~exited
       /\ \/ \E t \in Threads : ThreadStep(t) \/ PacShutdownReturns(t) \/ CallerBegins(t)
          \/ \E n \in Gens : StopperStep(n) \/ DpiStep(n) \/ DivertFault(n) \/ DivertCloser(n)
          \/ GdpiStep
          \/ Exit
    \/ Terminated

Spec == Init /\ [][Next]_vars

\* Every goroutine that can run does, sooner or later, and a.mu starves nobody
\* who asks for it; clicks, dial failures, crashes and exits need not happen,
\* and a Shutdown of the PAC server need not return.
Fairness ==
    /\ \A t \in Threads : SF_vars(~exited /\ ThreadStep(t))
    /\ \A n \in Gens : /\ WF_vars(~exited /\ StopperStep(n))
                       /\ SF_vars(~exited /\ DpiStep(n))
                       /\ WF_vars(~exited /\ DivertCloser(n))

FairSpec == Spec /\ Fairness


----------------------------------------------------------------------------
(* Properties *)

\* The servers that some goroutine is about to shut down: the stop goroutines'
\* that have not closed theirs, and the ones restart took out of service.
StopPending == {n \in Gens : stopper[n] \in {"push", "grace"}}
Shutting == {arg[t] : t \in {u \in Threads : pc[u] = "shut"}}

\* The proxy that is said to run accepts connections: no goroutine left over
\* from an earlier stop or restart closes the server of the present generation.
RunningProxyListens == running => proxySrv = gen /\ gen \in Gens /\ bound[gen] # None

\* Every open listener is the running proxy's, or is about to be closed by a
\* goroutine, or is that of the start that waits for the PAC server: no path
\* through start, stop and restart leaks a port.
NoListenerLeaks ==
    /\ \A n \in Gens : bound[n] # None => n = proxySrv \/ n \in StopPending \cup Shutting
    /\ moving # None => \E t \in Threads : pc[t] = "movepac"

\* No server is shut down by two goroutines, and none that is in service is
\* (the comment in stop: the same proxy must not be closed twice).
ClosedOnce ==
    /\ StopPending \cap Shutting = {}
    /\ proxySrv \notin StopPending \cup Shutting
    /\ \A t, u \in Threads : pc[t] = "shut" /\ pc[u] = "shut" /\ arg[t] = arg[u] => t = u

\* The PAC file sends the phones to the port the running proxy listens on, and
\* DIRECT when no proxy runs, whatever the saved configuration says meanwhile.
PacNamesLiveProxy == pacBody = IF running THEN bound[gen] ELSE Direct

\* WinDivert is open only for the generation that runs: a start-up goroutine
\* that lost its race against stop or restart opens nothing.
DivertOnlyForCurrent == divert # 0 => current(divert)

\* A stopped proxy has no DPI source, and the goroutine that sets one belongs
\* to the generation that runs.
DpiSourceOnlyForCurrent ==
    [][/\ ~running' => dpiSource' = "unset"
       /\ dpiSource' \notin {dpiSource, "unset"} => current(gen') /\ dpi[gen] = "resolve"]_vars

\* A start only ever waits for a goroutine that exists, and so does the start
\* that will find stopCancel set.
WaitsForStopper ==
    /\ stopCancel # 0 => stopper[stopCancel] # "none"
    /\ \A t \in Threads : pc[t] = "wait" => arg[t] # 0 /\ stopper[arg[t]] # "none"

\* A start that waits for a stop goroutine gets its turn, unless the lock it then
\* needs is lost for good to a Shutdown of the PAC server that never returns
\* (start and shutdown call it under a.mu, without a deadline).
StartNotStuck ==
    \A t \in Threads : pc[t] = "wait" ~> (pc[t] # "wait" \/ exited \/ []~MuFree)

\* A port that is no longer served is given back.
PortsFreed == \A n \in Gens : (bound[n] # None /\ n # proxySrv) ~> (bound[n] = None \/ exited)

----------------------------------------------------------------------------
(* The abstract service this implements *)

Service == INSTANCE ProxyService WITH
    latest <- gen, serving <- proxySrv, port <- bound, advert <- pacBody, engine <- divert

\* Whatever the goroutines of main.go do, the devices see the abstract service.
ImplementsService == Service!Spec

====
