---- MODULE AppLifecycleProofs ----
(***************************************************************************)
(* Proofs about AppLifecycle: its types, the inductive invariant behind    *)
(* its safety properties, and that it implements ProxyService, for any     *)
(* threads, ports and number of generations.                               *)
(***************************************************************************)
EXTENDS AppLifecycle, TLAPS

----------------------------------------------------------------------------
(* Types *)

\* The manager's own steps keep its types.
LEMMA GdpiTypes ==
    ASSUME GdpiTypeOK,
           \/ GdpiStart \/ GdpiStop \/ UNCHANGED gdpiVars
           \/ \E p \in Procs : GdpiWaitDone(p) \/ GdpiDies(p)
    PROVE  GdpiTypeOK'
<1> USE MaxProcsAssumption DEF GdpiTypeOK, Procs, NoProc, gdpiVars
<1>1. CASE GdpiSpawn
  <2>1. spawned + 1 \in Procs /\ spawned + 1 \in 0..MaxProcs
    BY <1>1 DEF GdpiSpawn
  <2> QED BY <1>1, <2>1 DEF GdpiSpawn
<1>2. CASE GdpiStop
  BY <1>2 DEF GdpiStop
<1>3. CASE UNCHANGED gdpiVars
  BY <1>3
<1>4. CASE \E p \in Procs : GdpiWaitDone(p) \/ GdpiDies(p)
  BY <1>4 DEF GdpiWaitDone, GdpiDies
<1> QED BY <1>1, <1>2, <1>3, <1>4 DEF GdpiStart

\* Init gives every variable a value of its type.
LEMMA InitTypes == Init => TypeOK
<1> SUFFICES ASSUME Init PROVE TypeOK
  OBVIOUS
<1> USE MaxGenAssumption, MaxProcsAssumption
<1>1. GdpiTypeOK
  <2>1. GdpiInit
    BY DEF Init
  <2>2. gdpiRunning \in BOOLEAN
    BY <2>1 DEF GdpiInit
  <2>3. proc \in Procs \cup {NoProc} /\ spawned \in 0..MaxProcs
    BY <2>1 DEF GdpiInit
  <2>4. alive \subseteq Procs /\ waiting \subseteq Procs
    BY <2>1 DEF GdpiInit
  <2> QED BY <2>2, <2>3, <2>4 DEF GdpiTypeOK
<1>2. pc \in [Threads -> ThreadStates]
  BY DEF Init, ThreadStates
<1>3. config \in Configs /\ pacSrv \in Ports \cup {None}
  <2>1. config \in Configs /\ pacSrv \in {config.pac, None}
    BY DEF Init
  <2>2. config.pac \in Ports
    BY <2>1, ConfigsAssumption
  <2> QED BY <2>1, <2>2
<1>4. bound \in [Gens -> Ports \cup {None}] /\ arg \in [Threads -> 0..MaxGen]
  <2>1. bound = [n \in Gens |-> None] /\ arg = [t \in Threads |-> 0]
    BY DEF Init
  <2> QED BY <2>1
<1>5. stopper \in [Gens -> StopperStates] /\ dpi \in [Gens -> DpiStates] /\ dpiSource \in Sources
  BY DEF Init, StopperStates, DpiStates, Sources
<1>6. running \in BOOLEAN /\ exited \in BOOLEAN
  BY DEF Init
<1>7. /\ gen \in 0..MaxGen /\ proxySrv \in 0..MaxGen /\ stopCancel \in 0..MaxGen
      /\ divert \in 0..MaxGen /\ pacBody \in Ports \cup {Direct}
      /\ toggler \in Threads \cup {None} /\ exiter \in Threads \cup {None}
      /\ moving \in Configs \cup {None}
  <2>1. /\ moving = None
        /\ gen = 0 /\ proxySrv = 0 /\ stopCancel = 0 /\ divert = 0
        /\ pacBody = Direct /\ toggler = None /\ exiter = None
    BY DEF Init
  <2> QED BY <2>1
<1>8. faulted \subseteq Gens
  BY DEF Init
<1> QED BY <1>1, <1>2, <1>3, <1>4, <1>5, <1>6, <1>7, <1>8 DEF TypeOK

\* The end of a goroutine keeps the types of its thread's variables.
LEMMA ReturnTypes ==
    ASSUME NEW t \in Threads, TypeOK, Return(t)
    PROVE  /\ pc' \in [Threads -> ThreadStates]
           /\ arg' \in [Threads -> 0..MaxGen]
           /\ toggler' \in Threads \cup {None}
BY MaxGenAssumption DEF Return, Goto, TypeOK, ThreadStates

\* A successful start, with the ports c, keeps all types, and so does a failed one.
LEMMA StartEndsTypes ==
    ASSUME NEW t \in Threads, NEW c \in Configs, TypeOK,
           StartPacFails(t, c) \/ StartSucceeds(t, c),
           UNCHANGED <<gdpiVars, stopper, faulted, config, exiter, exited>>,
           stopCancel' \in 0..MaxGen
    PROVE  TypeOK'
<1> USE MaxGenAssumption
<1>1. GdpiTypeOK'
  BY GdpiTypes DEF TypeOK
<1>2. /\ pc' \in [Threads -> ThreadStates]
      /\ arg' \in [Threads -> 0..MaxGen]
      /\ toggler' \in Threads \cup {None}
  BY ReturnTypes DEF StartPacFails, StartSucceeds
<1>3. CASE StartSucceeds(t, c)
  <2>1. gen + 1 \in Gens /\ c.proxy \in Ports /\ c.pac \in Ports
    BY <1>3, ConfigsAssumption DEF StartSucceeds, TypeOK, Gens
  <2>2. /\ bound' \in [Gens -> Ports \cup {None}]
        /\ dpi' \in [Gens -> DpiStates]
        /\ stopper' \in [Gens -> StopperStates]
    BY <1>3, <2>1 DEF StartSucceeds, TypeOK, DpiStates
  <2>3. gen' \in 0..MaxGen /\ proxySrv' \in 0..MaxGen
    BY <1>3, <2>1 DEF StartSucceeds, TypeOK, Gens
  <2> QED BY <1>1, <1>2, <1>3, <2>1, <2>2, <2>3 DEF StartSucceeds, TypeOK
<1>4. CASE StartPacFails(t, c)
  BY <1>1, <1>2, <1>4 DEF StartPacFails, TypeOK
<1> QED BY <1>3, <1>4

\* Every outcome of start under the lock keeps all types.
LEMMA StartTypes ==
    ASSUME NEW t \in Threads, TypeOK, StartBody(t),
           UNCHANGED <<gdpiVars, stopper, faulted, config, exiter, exited>>,
           stopCancel' \in 0..MaxGen
    PROVE  TypeOK'
<1>1. CASE StartPacFails(t, config) \/ StartSucceeds(t, config)
  BY <1>1, StartEndsTypes DEF TypeOK
<1>2. CASE StartMovesPac(t)
  <2>1. GdpiTypeOK' /\ pc' \in [Threads -> ThreadStates]
    BY <1>2, GdpiTypes DEF StartMovesPac, Goto, TypeOK, ThreadStates
  <2> QED BY <1>2, <2>1 DEF StartMovesPac, TypeOK
<1>3. CASE Return(t) /\ UnchangedApp
  BY <1>3, ReturnTypes, GdpiTypes DEF UnchangedApp, TypeOK
<1> QED BY <1>1, <1>2, <1>3 DEF StartBody, StartBindFails

\* What stop and restart do under the lock keeps the types it touches.
LEMMA TakeDownTypes ==
    ASSUME TypeOK, TakeDown
    PROVE  /\ GdpiTypeOK'
           /\ running' \in BOOLEAN /\ gen' \in 0..MaxGen /\ proxySrv' \in 0..MaxGen
           /\ bound' \in [Gens -> Ports \cup {None}]
           /\ pacBody' \in Ports \cup {Direct} /\ pacSrv' \in Ports \cup {None}
           /\ dpiSource' \in Sources /\ dpi' \in [Gens -> DpiStates] /\ divert' \in 0..MaxGen
           /\ moving' \in Configs \cup {None}
<1>1. GdpiTypeOK'
  BY GdpiTypes DEF TypeOK, TakeDown
<1>2. running' \in BOOLEAN
  BY DEF TakeDown
<1>3. /\ proxySrv' \in 0..MaxGen /\ divert' \in 0..MaxGen
      /\ pacBody' \in Ports \cup {Direct} /\ dpiSource' \in Sources
  <2>1. proxySrv' = 0 /\ divert' = 0 /\ pacBody' = Direct
    BY DEF TakeDown
  <2>2. dpiSource' \in Sources
    BY DEF TakeDown, Sources
  <2> QED BY <2>1, <2>2, MaxGenAssumption
<1>4. UNCHANGED <<gen, bound, pacSrv, dpi, moving>>
  BY DEF TakeDown
<1> QED BY <1>1, <1>2, <1>3, <1>4 DEF TypeOK

\* At most one thread keeps a.mu over a Shutdown; the one in start has bound its
\* proxy port and put nothing into service yet.
LockHeld ==
    /\ \A t, u \in Threads : pc[t] \in Holding /\ pc[u] \in Holding => t = u
    /\ \A t \in Threads : pc[t] = "movepac" =>
          ~running /\ moving # None /\ \A n \in Gens : bound[n] # moving.proxy
    /\ moving # None => \E t \in Threads : pc[t] = "movepac"

\* Every step keeps the types; that of a start which waited for the PAC server
\* because its ports are those it read.
LEMMA StepKeepsTypes == TypeOK /\ LockHeld /\ [Next]_vars => TypeOK'
<1> SUFFICES ASSUME TypeOK, LockHeld, [Next]_vars PROVE TypeOK'
  OBVIOUS
<1> USE MaxGenAssumption
<1>1. ASSUME NEW t \in Threads, Start(t) PROVE TypeOK'
  <2>1. CASE StartBody(t) /\ UNCHANGED stopCancel
    BY <1>1, <2>1, StartTypes DEF Start, TypeOK
  <2>2. CASE ~(StartBody(t) /\ UNCHANGED stopCancel)
    <3>1. GdpiTypeOK'
      BY <1>1, GdpiTypes DEF Start, TypeOK
    <3> QED BY <1>1, <2>2, <3>1 DEF Start, Goto, UnchangedApp, TypeOK, ThreadStates
  <2> QED BY <2>1, <2>2
<1>2. ASSUME NEW t \in Threads, StartResumes(t) PROVE TypeOK'
  BY <1>2, StartTypes DEF StartResumes, TypeOK
<1>3. ASSUME NEW t \in Threads, Stop(t) PROVE TypeOK'
  <2>1. /\ pc' \in [Threads -> ThreadStates]
        /\ arg' \in [Threads -> 0..MaxGen]
        /\ toggler' \in Threads \cup {None}
    BY <1>3, ReturnTypes DEF Stop, StopReturns, Goto, TypeOK, ThreadStates
  <2>2. CASE running
    BY <1>3, <2>1, <2>2, TakeDownTypes DEF Stop, TypeOK, StopperStates
  <2>3. CASE ~running
    BY <1>3, <2>1, <2>3, GdpiTypes DEF Stop, UnchangedApp, TypeOK
  <2> QED BY <2>2, <2>3
<1>4. ASSUME NEW t \in Threads, Restart(t) PROVE TypeOK'
  <2>1. CASE running
    BY <1>4, <2>1, TakeDownTypes DEF Restart, Goto, TypeOK, ThreadStates
  <2>2. CASE ~running
    BY <1>4, <2>2, GdpiTypes DEF Restart, Goto, UnchangedApp, TypeOK, ThreadStates
  <2> QED BY <2>1, <2>2
<1>5. ASSUME NEW t \in Threads,
             \/ RestartShuts(t) \/ ClosePac(t) \/ PacClosed(t)
             \/ Reload(t) \/ DialFails(t) \/ DialAnswers(t)
      PROVE  TypeOK'
  BY <1>5, GdpiTypes
     DEF RestartShuts, ClosePac, PacClosed, Reload, DialFails, DialAnswers, Goto, UnchangedByCaller,
         UnchangedApp, TypeOK, ThreadStates
<1>6. ASSUME NEW t \in Threads, Relaunch(t) PROVE TypeOK'
  BY <1>6, GdpiTypes DEF Relaunch, Goto, UnchangedByCaller, UnchangedApp, TypeOK, ThreadStates
<1>7. ASSUME NEW t \in Threads, CallerBegins(t) PROVE TypeOK'
  BY <1>7, GdpiTypes
     DEF CallerBegins, Toggle, SaveSettings, WatchdogCheck, WindowExit, Goto,
         UnchangedByCaller, UnchangedApp, TypeOK, ThreadStates
<1>8. ASSUME NEW n \in Gens, StopperStep(n) PROVE TypeOK'
  BY <1>8, GdpiTypes
     DEF StopperStep, Pushed, EndGrace, Drained, StopperMoves, TypeOK, StopperStates
<1>9. ASSUME NEW n \in Gens, Resolve(n) PROVE TypeOK'
  BY <1>9, GdpiTypes DEF Resolve, DpiMoves, NextDpi, TypeOK, DpiStates
<1>10. ASSUME NEW n \in Gens, StartDivert(n) \/ Launch(n) PROVE TypeOK'
  <2>1. GdpiTypeOK'
    BY <1>10, GdpiTypes DEF StartDivert, Launch, TypeOK
  <2>2. divert' \in 0..MaxGen
    BY <1>10 DEF StartDivert, Launch, TypeOK, Gens
  <2> QED BY <1>10, <2>1, <2>2 DEF StartDivert, Launch, DpiMoves, TypeOK, DpiStates
<1>11. ASSUME NEW n \in Gens, DivertFault(n) \/ DivertCloser(n) PROVE TypeOK'
  BY <1>11, GdpiTypes DEF DivertFault, DivertCloser, TypeOK
<1>12. ASSUME GdpiStep PROVE TypeOK'
  BY <1>12, GdpiTypes DEF GdpiStep, appVars, TypeOK
<1>13. ASSUME Exit \/ UNCHANGED vars PROVE TypeOK'
  BY <1>13, GdpiTypes DEF Exit, vars, appVars, TypeOK
<1>14. ASSUME NEW t \in Threads, PacMoved(t) PROVE TypeOK'
  BY <1>14, StartEndsTypes DEF PacMoved, TypeOK, LockHeld
<1> QED
  BY <1>1, <1>2, <1>3, <1>4, <1>5, <1>6, <1>7, <1>8, <1>9, <1>10, <1>11, <1>12, <1>13, <1>14
     DEF Next, ThreadStep, PacShutdownReturns, DpiStep, Terminated

\* A step that leaves the lock where it is, and at most closes listeners.
LEMMA LockFrame ==
    ASSUME TypeOK, LockHeld, UNCHANGED <<running, moving>>,
           \A u \in Threads : pc[u] \in Holding \/ pc'[u] \in Holding => pc'[u] = pc[u],
           \A n \in Gens : bound'[n] \in {bound[n], None}
    PROVE  LockHeld'
<1>1. moving # None => moving.proxy # None
  BY ConfigsAssumption, PortsAssumption DEF TypeOK
<1>2. \A t \in Threads : pc'[t] = "movepac" <=> pc[t] = "movepac"
  BY DEF Holding
<1> QED BY <1>1, <1>2 DEF LockHeld

\* A step after which no thread holds the lock and no start waits for the PAC server.
LEMMA LockLeft ==
    ASSUME \A u \in Threads : pc'[u] \notin Holding, moving' = None
    PROVE  LockHeld'
BY DEF LockHeld, Holding

\* With the lock free, no start waits for the PAC server.
LEMMA FreeMovesNothing ==
    ASSUME LockHeld, MuFree PROVE moving = None
BY DEF LockHeld, MuFree, Holding

\* Start takes the lock over the Shutdown of the PAC server, or gives it back.
LEMMA StartBodyKeepsLock ==
    ASSUME TypeOK, LockHeld, NEW t \in Threads, MuFree, StartBody(t)
    PROVE  LockHeld'
<1>1. moving = None
  BY FreeMovesNothing
<1>2. CASE StartMovesPac(t)
  <2>1. /\ ~running' /\ moving' = config /\ bound' = bound
        /\ pc'[t] = "movepac" /\ \A u \in Threads \ {t} : pc'[u] = pc[u]
    BY <1>2 DEF StartBody, StartMovesPac, StartBindFails, StartPacFails, StartSucceeds, Goto,
                UnchangedApp, TypeOK
  <2>2. config # None /\ config.proxy # None
    BY ConfigsAssumption, PortsAssumption DEF TypeOK
  <2>3. \A n \in Gens : bound'[n] # moving'.proxy
    BY <1>1, <1>2, <2>1, <2>2 DEF StartBody, StartMovesPac, StartBindFails, Return, Goto, Held,
                                 TypeOK
  <2>4. \A u \in Threads : pc'[u] \in Holding => u = t
    BY <2>1 DEF MuFree
  <2> QED BY <2>1, <2>2, <2>3, <2>4 DEF LockHeld, Holding
<1>3. CASE ~StartMovesPac(t)
  <2>1. Return(t) /\ moving' = None
    BY <1>1, <1>3 DEF StartBody, StartBindFails, StartPacFails, StartSucceeds, UnchangedApp
  <2>2. \A u \in Threads : pc'[u] \notin Holding
    BY <2>1 DEF Return, Goto, MuFree, Holding, TypeOK
  <2> QED BY <2>1, <2>2, LockLeft
<1> QED BY <1>2, <1>3

\* Every step keeps what is said about the lock.
LEMMA StepKeepsLock == TypeOK /\ LockHeld /\ [Next]_vars => LockHeld'
<1> SUFFICES ASSUME TypeOK, LockHeld, [Next]_vars PROVE LockHeld'
  OBVIOUS
<1>1. ASSUME NEW t \in Threads, Start(t) \/ StartResumes(t) PROVE LockHeld'
  <2>1. CASE StartBody(t)
    BY <1>1, <2>1, StartBodyKeepsLock DEF Start, StartResumes
  <2>2. CASE ~StartBody(t)
    <3>1. moving' = None
      BY <1>1, <2>2, FreeMovesNothing DEF Start, StartResumes, UnchangedApp
    <3>2. \A u \in Threads : pc'[u] \notin Holding
      BY <1>1, <2>2 DEF Start, StartResumes, Goto, MuFree, Holding, TypeOK
    <3> QED BY <3>1, <3>2, LockLeft
  <2> QED BY <2>1, <2>2
<1>2. ASSUME NEW t \in Threads, Stop(t) \/ Restart(t) PROVE LockHeld'
  <2>1. moving' = None
    BY <1>2, FreeMovesNothing DEF Stop, Restart, TakeDown, UnchangedApp
  <2>2. \A u \in Threads : pc'[u] \notin Holding
    BY <1>2 DEF Stop, StopReturns, Return, Restart, Goto, MuFree, Holding, TypeOK
  <2> QED BY <2>1, <2>2, LockLeft
<1>3. ASSUME NEW t \in Threads, ClosePac(t) PROVE LockHeld'
  <2>1. moving' = None
    BY <1>3, FreeMovesNothing DEF ClosePac
  <2>2. /\ pc'[t] \in {"exit", "closingpac"}
        /\ \A u \in Threads \ {t} : pc'[u] \notin Holding
    BY <1>3 DEF ClosePac, Goto, MuFree, TypeOK
  <2> QED BY <2>1, <2>2 DEF LockHeld, Holding
<1>4. ASSUME NEW t \in Threads, PacMoved(t) \/ PacClosed(t) PROVE LockHeld'
  <2>1. pc[t] \in Holding /\ \A u \in Threads \ {t} : pc[u] \notin Holding
    BY <1>4 DEF PacMoved, PacClosed, LockHeld, Holding
  <2>2. moving' = None
    <3>1. CASE PacMoved(t)
      BY <3>1 DEF PacMoved, StartPacFails, StartSucceeds
    <3>2. CASE PacClosed(t)
      BY <3>2, <2>1 DEF PacClosed, LockHeld, Holding
    <3> QED BY <1>4, <3>1, <3>2
  <2>3. pc'[t] \in {"idle", "exit"} /\ \A u \in Threads \ {t} : pc'[u] = pc[u]
    BY <1>4 DEF PacMoved, StartPacFails, StartSucceeds, Return, PacClosed, Goto, TypeOK
  <2>4. \A u \in Threads : pc'[u] \notin Holding
    BY <2>1, <2>3 DEF Holding
  <2> QED BY <2>2, <2>4, LockLeft
<1>5. ASSUME NEW t \in Threads,
             \/ RestartShuts(t) \/ Reload(t) \/ DialFails(t) \/ DialAnswers(t) \/ Relaunch(t)
             \/ CallerBegins(t)
      PROVE  LockHeld'
  <2>1. UNCHANGED <<running, moving>> /\ \A n \in Gens : bound'[n] \in {bound[n], None}
    BY <1>5 DEF RestartShuts, Reload, DialFails, DialAnswers, Relaunch, CallerBegins, Toggle,
                SaveSettings, WatchdogCheck, WindowExit, UnchangedByCaller, UnchangedApp, TypeOK
  <2>2. \A u \in Threads : pc[u] \in Holding \/ pc'[u] \in Holding => pc'[u] = pc[u]
    BY <1>5 DEF RestartShuts, Reload, DialFails, DialAnswers, Relaunch, CallerBegins, Toggle,
                SaveSettings, WatchdogCheck, WindowExit, Goto, Holding, TypeOK
  <2> QED BY <2>1, <2>2, LockFrame
<1>6. ASSUME NEW n \in Gens, StopperStep(n) \/ DpiStep(n) \/ DivertFault(n) \/ DivertCloser(n)
      PROVE  LockHeld'
  <2>1. UNCHANGED <<running, moving, pc>> /\ \A k \in Gens : bound'[k] \in {bound[k], None}
    BY <1>6 DEF StopperStep, Pushed, EndGrace, Drained, StopperMoves, DpiStep, Resolve,
                StartDivert, Launch, DpiMoves, DivertFault, DivertCloser, TypeOK
  <2> QED BY <2>1, LockFrame
<1>7. ASSUME GdpiStep \/ Exit \/ UNCHANGED vars PROVE LockHeld'
  <2>1. UNCHANGED <<running, moving, pc, bound>>
    BY <1>7 DEF GdpiStep, Exit, vars, appVars
  <2> QED BY <2>1, LockFrame
<1> QED
  BY <1>1, <1>2, <1>3, <1>4, <1>5, <1>6, <1>7
     DEF Next, ThreadStep, PacShutdownReturns, Terminated

\* Types and lock hold at the start, and so always.
LEMMA LockCorrect == Spec => [](TypeOK /\ LockHeld)
<1>1. Init => LockHeld
  BY DEF Init, LockHeld, Holding
<1>2. TypeOK /\ LockHeld /\ [Next]_vars => (TypeOK /\ LockHeld)'
  BY StepKeepsTypes, StepKeepsLock
<1> QED BY <1>1, <1>2, InitTypes, PTL DEF Spec

\* Every variable always has its type.
THEOREM TypeCorrect == Spec => []TypeOK
BY LockCorrect, PTL

----------------------------------------------------------------------------
(* The inductive invariant *)

\* The server in service is the newest one, nobody is about to close it, and
\* generations to come have no server and no goroutine yet.
ServerInService ==
    /\ running => gen \in Gens /\ proxySrv = gen /\ bound[gen] # None /\ stopper[gen] = "none"
    /\ ~running => proxySrv = 0
    /\ \A n \in Gens : n > gen => bound[n] = None /\ stopper[n] = "none"

\* A server that restart is shutting down is an old one, of no other goroutine.
ServersShutting ==
    /\ \A t \in Threads : pc[t] = "shut" =>
          /\ arg[t] \in Gens /\ arg[t] <= gen /\ arg[t] # proxySrv
          /\ stopper[arg[t]] = "none"
    /\ \A t, u \in Threads : pc[t] = "shut" /\ pc[u] = "shut" /\ arg[t] = arg[u] => t = u

\* Strengthens the safety properties to an inductive invariant: each names only
\* what the program shows, these parts say which goroutine owns which server.
IInv ==
    /\ TypeOK
    /\ LockHeld
    /\ ServerInService
    /\ ServersShutting
    /\ NoListenerLeaks
    /\ PacNamesLiveProxy
    /\ DivertOnlyForCurrent
    /\ WaitsForStopper
    /\ ~running => dpiSource = "unset"

\* Steps that leave the servers alone, and the threads that own one, keep IInv.
LEMMA FrameKeepsIInv ==
    ASSUME IInv, TypeOK', LockHeld',
           UNCHANGED <<running, gen, proxySrv, bound, stopCancel, stopper, pacBody>>,
           \A u \in Threads : pc[u] = "shut" \/ pc'[u] \in {"shut", "wait"}
                                 => pc'[u] = pc[u] /\ arg'[u] = arg[u],
           divert' # 0 => current(divert'),
           ~running => dpiSource' = "unset"
    PROVE  IInv'
<1> USE DEF IInv
<1>1. ServerInService'
  BY DEF ServerInService
<1>2. ServersShutting'
  BY DEF ServersShutting
<1>3. NoListenerLeaks'
  <2>1. Shutting \subseteq Shutting'
    BY DEF Shutting
  <2> QED BY <2>1 DEF NoListenerLeaks, StopPending, LockHeld
<1>4. PacNamesLiveProxy'
  BY DEF PacNamesLiveProxy
<1>5. DivertOnlyForCurrent'
  BY DEF DivertOnlyForCurrent, current
<1>6. WaitsForStopper'
  BY DEF WaitsForStopper
<1> QED BY <1>1, <1>2, <1>3, <1>4, <1>5, <1>6

\* A successful start, from either section of start, keeps IInv.
LEMMA StartSucceedsKeepsIInv ==
    ASSUME IInv, TypeOK', LockHeld', NEW t \in Threads, NEW c \in Configs,
           ~running, StartSucceeds(t, c), pc[t] \in {"start", "wait", "movepac"},
           UNCHANGED <<stopCancel, stopper>>
    PROVE  IInv'
<1> USE MaxGenAssumption DEF IInv
<1> DEFINE m == gen + 1
<1>1. /\ m \in Gens /\ gen' = m /\ proxySrv' = m /\ running'
      /\ bound' = [bound EXCEPT ![m] = c.proxy]
      /\ pacBody' = c.proxy /\ divert' = divert
  BY DEF StartSucceeds, TypeOK, Gens
<1>2. c.proxy \in Ports /\ c.proxy # None
  BY ConfigsAssumption, PortsAssumption
<1>3. bound \in [Gens -> Ports \cup {None}] /\ stopper[m] = "none" /\ bound[m] = None
  BY <1>1 DEF TypeOK, ServerInService, Gens
<1>4. /\ \A u \in Threads \ {t} : pc'[u] = pc[u] /\ arg'[u] = arg[u]
      /\ pc'[t] = "idle"
  BY DEF StartSucceeds, Return, Goto, TypeOK
<1>5. ServerInService'
  <2>1. bound'[m] # None
    BY <1>1, <1>2, <1>3
  <2>2. \A n \in Gens : n > m => bound'[n] = None /\ stopper[n] = "none"
    BY <1>1, <1>3 DEF ServerInService, Gens, TypeOK
  <2> QED BY <1>1, <1>3, <2>1, <2>2 DEF ServerInService
<1>6. ServersShutting'
  <2>1. ASSUME NEW u \in Threads, pc'[u] = "shut"
        PROVE  u # t /\ pc[u] = "shut" /\ arg'[u] = arg[u]
    BY <2>1, <1>4
  <2>2. ASSUME NEW u \in Threads, pc'[u] = "shut"
        PROVE  arg'[u] \in Gens /\ arg'[u] <= m /\ arg'[u] # m /\ stopper[arg'[u]] = "none"
    BY <2>1, <2>2 DEF ServersShutting, TypeOK, Gens
  <2> QED BY <1>1, <2>1, <2>2 DEF ServersShutting
<1>7. NoListenerLeaks'
  <2>1. Shutting \subseteq Shutting'
    BY <1>4 DEF Shutting
  <2>2. ASSUME NEW n \in Gens, bound'[n] # None, n # m
        PROVE  n \in StopPending \cup Shutting
    BY <2>2, <1>1, <1>3 DEF NoListenerLeaks, ServerInService, Gens
  <2> QED BY <1>1, <2>1, <2>2 DEF NoListenerLeaks, StopPending, LockHeld
<1>8. PacNamesLiveProxy'
  BY <1>1, <1>3 DEF PacNamesLiveProxy
<1>9. DivertOnlyForCurrent'
  BY <1>1 DEF DivertOnlyForCurrent, current
<1>10. WaitsForStopper'
  BY <1>4 DEF WaitsForStopper
<1> QED BY <1>1, <1>5, <1>6, <1>7, <1>8, <1>9, <1>10

\* So does any other outcome of start.
LEMMA StartBodyKeepsIInv ==
    ASSUME IInv, TypeOK', LockHeld', NEW t \in Threads, StartBody(t), pc[t] \in {"start", "wait"},
           UNCHANGED <<stopCancel, stopper>>
    PROVE  IInv'
<1>1. CASE ~running /\ StartSucceeds(t, config)
  BY <1>1, StartSucceedsKeepsIInv DEF IInv, TypeOK
<1>2. CASE ~(~running /\ StartSucceeds(t, config))
  <2>1. /\ UNCHANGED <<running, gen, proxySrv, bound, pacBody, dpiSource, divert>>
        /\ Return(t) \/ (Goto(t, "movepac") /\ UNCHANGED arg)
    BY <1>2 DEF StartBody, StartBindFails, StartMovesPac, StartPacFails, UnchangedApp
  <2>2. \A u \in Threads : pc[u] = "shut" \/ pc'[u] \in {"shut", "wait"}
                              => pc'[u] = pc[u] /\ arg'[u] = arg[u]
    BY <2>1 DEF Return, Goto, IInv, TypeOK
  <2> QED BY <2>1, <2>2, FrameKeepsIInv DEF IInv, DivertOnlyForCurrent, current
<1> QED BY <1>1, <1>2

\* Taking the proxy down, for a stop goroutine or for restart to shut it.
LEMMA TakeDownKeepsIInv ==
    ASSUME IInv, TypeOK', LockHeld', NEW t \in Threads, running, TakeDown, pc[t] # "shut",
           \A u \in Threads \ {t} : pc'[u] = pc[u] /\ arg'[u] = arg[u],
           \/ /\ stopper' = [stopper EXCEPT ![proxySrv] = "push"]
              /\ stopCancel' = proxySrv
              /\ pc'[t] \notin {"shut", "wait"}
           \/ /\ UNCHANGED stopper
              /\ stopCancel' = 0
              /\ pc'[t] = "shut" /\ arg'[t] = proxySrv
    PROVE  IInv'
<1> USE MaxGenAssumption DEF IInv
<1>1. /\ proxySrv = gen /\ gen \in Gens /\ stopper[gen] = "none"
      /\ ~running' /\ proxySrv' = 0 /\ pacBody' = Direct /\ divert' = 0
      /\ dpiSource' = "unset" /\ gen' = gen /\ bound' = bound
  BY DEF ServerInService, TakeDown
<1>2. /\ stopper \in [Gens -> StopperStates]
      /\ \A n \in Gens \ {gen} : stopper'[n] = stopper[n]
  BY <1>1 DEF TypeOK
<1>3. ServerInService'
  <2>1. \A n \in Gens : n > gen => bound[n] = None /\ stopper'[n] = "none"
    BY <1>1, <1>2 DEF ServerInService, Gens
  <2> QED BY <1>1, <2>1 DEF ServerInService
<1>4. ServersShutting'
  <2>1. ASSUME NEW u \in Threads, pc'[u] = "shut", u # t
        PROVE  /\ pc[u] = "shut" /\ arg'[u] = arg[u]
               /\ arg[u] \in Gens /\ arg[u] <= gen /\ arg[u] # gen /\ stopper'[arg[u]] = "none"
    BY <2>1, <1>1, <1>2 DEF ServersShutting
  <2>2. pc'[t] = "shut" => arg'[t] = gen /\ stopper'[gen] = "none"
    BY <1>1
  <2>3. gen # 0 /\ gen <= gen
    BY <1>1 DEF Gens
  <2>4. ASSUME NEW u \in Threads, pc'[u] = "shut"
        PROVE  arg'[u] \in Gens /\ arg'[u] <= gen /\ arg'[u] # 0 /\ stopper'[arg'[u]] = "none"
    <3>1. CASE u = t
      BY <3>1, <2>4, <2>2, <2>3, <1>1
    <3>2. CASE u # t
      BY <3>2, <2>4, <2>1 DEF Gens
    <3> QED BY <3>1, <3>2
  <2>5. ASSUME NEW u \in Threads, NEW v \in Threads,
               pc'[u] = "shut", pc'[v] = "shut", arg'[u] = arg'[v]
        PROVE  u = v
    <3>1. CASE u # t /\ v # t
      BY <3>1, <2>5, <2>1 DEF ServersShutting
    <3>2. CASE u = t \/ v = t
      BY <3>2, <2>5, <2>1, <2>2
    <3> QED BY <3>1, <3>2
  <2> QED BY <1>1, <2>4, <2>5 DEF ServersShutting
<1>5. NoListenerLeaks'
  <2>1. Shutting \subseteq Shutting'
    BY DEF Shutting
  <2>2. gen \in StopPending' \cup Shutting'
    BY <1>1, <1>2 DEF StopPending, Shutting
  <2>3. StopPending \ {gen} \subseteq StopPending'
    BY <1>2 DEF StopPending
  <2> QED BY <1>1, <2>1, <2>2, <2>3 DEF NoListenerLeaks, LockHeld
<1>6. PacNamesLiveProxy' /\ DivertOnlyForCurrent'
  BY <1>1 DEF PacNamesLiveProxy, DivertOnlyForCurrent
<1>7. WaitsForStopper'
  <2>1. \A n \in Gens : stopper[n] # "none" => stopper'[n] # "none"
    BY <1>1, <1>2
  <2>2. stopCancel' # 0 => stopper'[stopCancel'] # "none"
    BY <1>1, <1>2
  <2>3. ASSUME NEW u \in Threads, pc'[u] = "wait"
        PROVE  arg'[u] # 0 /\ stopper'[arg'[u]] # "none"
    <3>1. u # t /\ pc[u] = "wait" /\ arg'[u] = arg[u]
      BY <2>3
    <3>2. arg[u] \in Gens /\ stopper[arg[u]] # "none"
      BY <3>1 DEF WaitsForStopper, TypeOK, Gens
    <3> QED BY <2>1, <3>1, <3>2 DEF Gens
  <2> QED BY <2>2, <2>3 DEF WaitsForStopper
<1> QED BY <1>1, <1>3, <1>4, <1>5, <1>6, <1>7

\* Shutting down the server restart took out of service.
LEMMA RestartShutsKeepsIInv ==
    ASSUME IInv, TypeOK', LockHeld', NEW t \in Threads, RestartShuts(t)
    PROVE  IInv'
<1> USE MaxGenAssumption DEF IInv
<1> DEFINE k == arg[t]
<1>1. /\ k \in Gens /\ k <= gen /\ k # proxySrv /\ stopper[k] = "none"
      /\ bound' = [bound EXCEPT ![k] = None]
      /\ UNCHANGED <<running, gen, proxySrv, stopCancel, stopper, pacBody, dpiSource, divert>>
  BY DEF RestartShuts, ServersShutting
<1>2. /\ \A u \in Threads \ {t} : pc'[u] = pc[u] /\ arg'[u] = arg[u]
      /\ pc[t] = "shut" /\ pc'[t] = "start"
  BY DEF RestartShuts, Goto, TypeOK
<1>3. \A n \in Gens : bound'[n] = IF n = k THEN None ELSE bound[n]
  BY <1>1 DEF TypeOK
<1>4. ServerInService'
  BY <1>1, <1>3 DEF ServerInService
<1>5. ServersShutting'
  BY <1>1, <1>2 DEF ServersShutting
<1>6. NoListenerLeaks'
  <2>1. Shutting \ {k} \subseteq Shutting'
    BY <1>2 DEF Shutting
  <2> QED BY <1>1, <1>3, <2>1 DEF NoListenerLeaks, StopPending, LockHeld
<1>7. PacNamesLiveProxy'
  BY <1>1, <1>3 DEF PacNamesLiveProxy, ServerInService
<1>8. DivertOnlyForCurrent' /\ WaitsForStopper'
  BY <1>1, <1>2 DEF DivertOnlyForCurrent, current, WaitsForStopper
<1> QED BY <1>1, <1>4, <1>5, <1>6, <1>7, <1>8

\* The goroutine stop left behind, at work on the server it was given.
LEMMA StopperKeepsIInv ==
    ASSUME IInv, TypeOK', LockHeld', NEW n \in Gens, StopperStep(n)
    PROVE  IInv'
<1> USE MaxGenAssumption DEF IInv
<1>1. /\ stopper[n] # "none" /\ n # proxySrv
      /\ UNCHANGED <<running, gen, proxySrv, stopCancel, pacBody, dpiSource, divert, pc, arg>>
  BY DEF StopperStep, Pushed, EndGrace, Drained, StopperMoves, ServerInService, Gens
<1>2. /\ stopper \in [Gens -> StopperStates]
      /\ stopper'[n] # "none"
      /\ \A k \in Gens \ {n} : stopper'[k] = stopper[k]
  BY DEF StopperStep, Pushed, EndGrace, Drained, StopperMoves, TypeOK
<1>3. \/ stopper'[n] = "grace" /\ UNCHANGED bound
      \/ /\ stopper'[n] = "drain"
         /\ \A k \in Gens : bound'[k] = IF k = n THEN None ELSE bound[k]
      \/ stopper[n] = "drain" /\ UNCHANGED bound
  BY DEF StopperStep, Pushed, EndGrace, Drained, StopperMoves, TypeOK
<1>4. \A k \in Gens : bound'[k] = bound[k] \/ (k = n /\ bound'[k] = None)
  BY <1>3
<1>5. ServerInService'
  BY <1>1, <1>2, <1>4 DEF ServerInService
<1>6. ServersShutting'
  BY <1>1, <1>2 DEF ServersShutting
<1>7. NoListenerLeaks'
  <2>1. Shutting' = Shutting
    BY <1>1 DEF Shutting
  <2>2. \A k \in Gens \ {n} : k \in StopPending <=> k \in StopPending'
    BY <1>2 DEF StopPending
  <2>3. bound'[n] # None => n \in StopPending' \cup Shutting
    <3>1. CASE stopper'[n] = "grace"
      BY <3>1 DEF StopPending
    <3>2. CASE stopper[n] = "drain" /\ UNCHANGED bound
      BY <3>2, <1>1 DEF NoListenerLeaks, StopPending, LockHeld
    <3> QED BY <3>1, <3>2, <1>3
  <2> QED BY <1>1, <1>4, <2>1, <2>2, <2>3 DEF NoListenerLeaks, LockHeld
<1>8. PacNamesLiveProxy'
  BY <1>1, <1>4 DEF PacNamesLiveProxy, ServerInService
<1>9. DivertOnlyForCurrent'
  BY <1>1 DEF DivertOnlyForCurrent, current
<1>10. WaitsForStopper'
  <2>1. \A k \in Gens : stopper[k] # "none" => stopper'[k] # "none"
    BY <1>1, <1>2
  <2>2. stopCancel # 0 => stopper'[stopCancel] # "none"
    BY <2>1 DEF WaitsForStopper, TypeOK, Gens
  <2>3. ASSUME NEW u \in Threads, pc[u] = "wait"
        PROVE  arg[u] # 0 /\ stopper'[arg[u]] # "none"
    BY <2>1, <2>3 DEF WaitsForStopper, TypeOK, Gens
  <2> QED BY <1>1, <2>2, <2>3 DEF WaitsForStopper
<1> QED BY <1>1, <1>5, <1>6, <1>7, <1>8, <1>9, <1>10

\* A start that must first wait for a stop goroutine.
LEMMA StartWaitsKeepsIInv ==
    ASSUME IInv, TypeOK', LockHeld', NEW t \in Threads, Start(t), ~running, stopCancel # 0
    PROVE  IInv'
<1> USE DEF IInv
<1>1. /\ stopCancel' = 0 /\ pc[t] = "start" /\ pc'[t] = "wait" /\ arg'[t] = stopCancel
      /\ \A u \in Threads \ {t} : pc'[u] = pc[u] /\ arg'[u] = arg[u]
      /\ UNCHANGED <<running, gen, proxySrv, bound, stopper, pacBody, dpiSource, divert>>
  BY DEF Start, Goto, UnchangedApp, TypeOK
<1>2. ServerInService' /\ PacNamesLiveProxy' /\ DivertOnlyForCurrent'
  BY <1>1 DEF ServerInService, PacNamesLiveProxy, DivertOnlyForCurrent, current
<1>3. ServersShutting'
  BY <1>1 DEF ServersShutting
<1>4. NoListenerLeaks'
  <2>1. Shutting \subseteq Shutting'
    BY <1>1 DEF Shutting
  <2> QED BY <1>1, <2>1 DEF NoListenerLeaks, StopPending, LockHeld
<1>5. WaitsForStopper'
  BY <1>1 DEF WaitsForStopper
<1> QED BY <1>1, <1>2, <1>3, <1>4, <1>5

\* Every step keeps the inductive invariant.
LEMMA StepKeepsIInv == IInv /\ TypeOK' /\ LockHeld' /\ [Next]_vars => IInv'
<1> SUFFICES ASSUME IInv, TypeOK', LockHeld', [Next]_vars PROVE IInv'
  OBVIOUS
<1> USE DEF IInv
<1>1. ASSUME NEW t \in Threads, Start(t) PROVE IInv'
  <2>1. CASE running \/ stopCancel = 0
    BY <1>1, <2>1, StartBodyKeepsIInv DEF Start
  <2>2. CASE ~running /\ stopCancel # 0
    BY <1>1, <2>2, StartWaitsKeepsIInv
  <2> QED BY <2>1, <2>2
<1>2. ASSUME NEW t \in Threads, StartResumes(t) PROVE IInv'
  BY <1>2, StartBodyKeepsIInv DEF StartResumes
<1>3. ASSUME NEW t \in Threads, Stop(t) PROVE IInv'
  <2>1. /\ pc[t] = "stop" /\ pc'[t] \in {"idle", "closepac"}
        /\ \A u \in Threads \ {t} : pc'[u] = pc[u] /\ arg'[u] = arg[u]
    BY <1>3 DEF Stop, StopReturns, Return, Goto, TypeOK
  <2>2. CASE running
    BY <1>3, <2>1, <2>2, TakeDownKeepsIInv DEF Stop
  <2>3. CASE ~running
    BY <1>3, <2>1, <2>3, FrameKeepsIInv DEF Stop, UnchangedApp, DivertOnlyForCurrent, current
  <2> QED BY <2>2, <2>3
<1>4. ASSUME NEW t \in Threads, Restart(t) PROVE IInv'
  <2>1. CASE running
    <3>1. /\ pc[t] = "restart" /\ pc'[t] = "shut" /\ arg'[t] = proxySrv
          /\ \A u \in Threads \ {t} : pc'[u] = pc[u] /\ arg'[u] = arg[u]
      BY <1>4, <2>1 DEF Restart, Goto, TypeOK
    <3> QED BY <1>4, <2>1, <3>1, TakeDownKeepsIInv DEF Restart
  <2>2. CASE ~running
    <3>1. /\ pc[t] = "restart" /\ pc'[t] = "start" /\ arg' = arg
          /\ \A u \in Threads \ {t} : pc'[u] = pc[u]
      BY <1>4, <2>2 DEF Restart, Goto, TypeOK
    <3> QED BY <1>4, <2>2, <3>1, FrameKeepsIInv
            DEF Restart, UnchangedApp, DivertOnlyForCurrent, current
  <2> QED BY <2>1, <2>2
<1>5. ASSUME NEW t \in Threads, RestartShuts(t) PROVE IInv'
  BY <1>5, RestartShutsKeepsIInv
<1>6. ASSUME NEW t \in Threads,
             \/ ClosePac(t) \/ PacClosed(t) \/ Reload(t) \/ DialFails(t) \/ DialAnswers(t)
             \/ Relaunch(t) \/ CallerBegins(t)
      PROVE  IInv'
  <2>1. /\ UNCHANGED <<running, gen, proxySrv, bound, stopCancel, stopper, pacBody, dpiSource,
                       divert, arg>>
        /\ \A u \in Threads : pc[u] = "shut" \/ pc'[u] \in {"shut", "wait"} => pc'[u] = pc[u]
    BY <1>6 DEF ClosePac, PacClosed, Reload, DialFails, DialAnswers, Relaunch, CallerBegins, Toggle,
                SaveSettings, WatchdogCheck, WindowExit, Goto, UnchangedByCaller, UnchangedApp,
                TypeOK
  <2> QED BY <2>1, FrameKeepsIInv DEF DivertOnlyForCurrent, current
<1>7. ASSUME NEW n \in Gens, StopperStep(n) PROVE IInv'
  BY <1>7, StopperKeepsIInv
<1>8. ASSUME NEW n \in Gens, DpiStep(n) \/ DivertFault(n) \/ DivertCloser(n) PROVE IInv'
  <2>1. UNCHANGED <<running, gen, proxySrv, bound, stopCancel, stopper, pacBody, pc, arg>>
    BY <1>8 DEF DpiStep, Resolve, StartDivert, Launch, DpiMoves, DivertFault, DivertCloser
  <2>2. divert' # 0 => current(divert')
    BY <1>8 DEF DpiStep, Resolve, StartDivert, Launch, DivertFault, DivertCloser,
                DivertOnlyForCurrent, current
  <2>3. ~running => dpiSource' = "unset"
    BY <1>8 DEF DpiStep, Resolve, StartDivert, Launch, DivertFault, DivertCloser, current
  <2> QED BY <2>1, <2>2, <2>3, FrameKeepsIInv
<1>9. ASSUME GdpiStep \/ Exit \/ UNCHANGED vars PROVE IInv'
  <2>1. UNCHANGED <<running, gen, proxySrv, bound, stopCancel, stopper, pacBody, dpiSource,
                    divert, pc, arg>>
    BY <1>9 DEF GdpiStep, Exit, vars, appVars
  <2> QED BY <2>1, FrameKeepsIInv DEF DivertOnlyForCurrent, current
<1>10. ASSUME NEW t \in Threads, PacMoved(t) PROVE IInv'
  <2>1. ~running /\ moving \in Configs
    BY <1>10 DEF PacMoved, LockHeld, TypeOK
  <2>2. CASE StartSucceeds(t, moving)
    BY <1>10, <2>1, <2>2, StartSucceedsKeepsIInv DEF PacMoved
  <2>3. CASE StartPacFails(t, moving)
    <3>1. /\ UNCHANGED <<running, gen, proxySrv, bound, pacBody, dpiSource, divert>>
          /\ UNCHANGED <<stopCancel, stopper>>
          /\ \A u \in Threads : pc[u] = "shut" \/ pc'[u] \in {"shut", "wait"}
                                => pc'[u] = pc[u] /\ arg'[u] = arg[u]
      BY <1>10, <2>3 DEF PacMoved, StartPacFails, Return, Goto, TypeOK
    <3> QED BY <3>1, FrameKeepsIInv DEF DivertOnlyForCurrent, current
  <2> QED BY <1>10, <2>2, <2>3 DEF PacMoved
<1> QED
  BY <1>1, <1>2, <1>3, <1>4, <1>5, <1>6, <1>7, <1>8, <1>9, <1>10
     DEF Next, ThreadStep, PacShutdownReturns, Terminated

\* Init establishes it.
LEMMA InitIInv == Init => IInv
<1> SUFFICES ASSUME Init PROVE IInv
  OBVIOUS
<1>1. /\ ~running /\ gen = 0 /\ proxySrv = 0 /\ stopCancel = 0 /\ divert = 0
      /\ pacBody = Direct /\ dpiSource = "unset"
      /\ \A n \in Gens : bound[n] = None /\ stopper[n] = "none"
  BY DEF Init
<1>2. \A t \in Threads : pc[t] \notin {"shut", "wait", "movepac", "closingpac"}
  BY DEF Init
<1>3. LockHeld /\ moving = None
  BY <1>2 DEF Init, LockHeld, Holding
<1> QED
  BY <1>1, <1>2, <1>3, InitTypes
     DEF IInv, ServerInService, ServersShutting, NoListenerLeaks, PacNamesLiveProxy,
         DivertOnlyForCurrent, WaitsForStopper

\* The inductive invariant, on which the theorems below rest, always holds of
\* start, stop, restart and the goroutines they leave behind.
THEOREM Invariance == Spec => []IInv
<1>1. IInv /\ (TypeOK /\ LockHeld)' /\ [Next]_vars => IInv'
  BY StepKeepsIInv
<1> QED BY <1>1, InitIInv, LockCorrect, PTL DEF Spec

----------------------------------------------------------------------------
(* The safety properties *)

\* A proxy that is said to run listens: no goroutine left over from an earlier
\* stop or restart can close the server of the present generation.
THEOREM RunningListens == Spec => []RunningProxyListens
<1>1. IInv => RunningProxyListens
  BY DEF IInv, ServerInService, RunningProxyListens
<1> QED BY <1>1, Invariance, PTL

\* No sequence of calls leaks a listener.
THEOREM NoLeaks == Spec => []NoListenerLeaks
<1>1. IInv => NoListenerLeaks
  BY DEF IInv
<1> QED BY <1>1, Invariance, PTL

\* Every server is closed by one goroutine at most, and none in service is.
THEOREM ClosesOnce == Spec => []ClosedOnce
<1>1. ASSUME IInv PROVE ClosedOnce
  <2> USE <1>1 DEF IInv
  <2>1. StopPending \cap Shutting = {}
    BY DEF ServersShutting, StopPending, Shutting
  <2>2. proxySrv \notin Shutting
    BY DEF ServersShutting, Shutting
  <2>3. proxySrv \notin StopPending
    BY DEF ServerInService, StopPending, Gens
  <2> QED BY <2>1, <2>2, <2>3 DEF ClosedOnce, ServersShutting
<1> QED BY <1>1, Invariance, PTL

\* The PAC file names the port of the proxy that runs, and nothing otherwise.
THEOREM PacTruthful == Spec => []PacNamesLiveProxy
<1>1. IInv => PacNamesLiveProxy
  BY DEF IInv
<1> QED BY <1>1, Invariance, PTL

\* WinDivert is never open for a generation that was stopped.
THEOREM DivertCurrent == Spec => []DivertOnlyForCurrent
<1>1. IInv => DivertOnlyForCurrent
  BY DEF IInv
<1> QED BY <1>1, Invariance, PTL

\* A start waits only for a stop goroutine that exists.
THEOREM WaitsForSomebody == Spec => []WaitsForStopper
<1>1. IInv => WaitsForStopper
  BY DEF IInv
<1> QED BY <1>1, Invariance, PTL

\* Only the start-up goroutine of the running generation sets the DPI source.
THEOREM SourceCurrent == Spec => DpiSourceOnlyForCurrent
<1> DEFINE A == /\ ~running' => dpiSource' = "unset"
                /\ dpiSource' \notin {dpiSource, "unset"}
                      => current(gen') /\ dpi[gen] = "resolve"
<1>1. ASSUME IInv, IInv', [Next]_vars PROVE A
  <2>1. ~running' => dpiSource' = "unset"
    BY <1>1 DEF IInv
  <2>2. ASSUME NEW n \in Gens, Resolve(n), dpiSource' # dpiSource
        PROVE  current(gen') /\ dpi[gen] = "resolve"
    BY <2>2 DEF Resolve, DpiMoves, current
  <2>3. ASSUME dpiSource' \notin {dpiSource, "unset"}
        PROVE  \E n \in Gens : Resolve(n)
    BY <1>1, <2>3
       DEF Next, Terminated, ThreadStep, CallerBegins, StopperStep, DpiStep, GdpiStep, Exit,
           Start, StartResumes, StartBody, StartBindFails, StartMovesPac, StartPacFails,
           StartSucceeds, PacShutdownReturns, PacMoved, PacClosed, Stop, Restart, TakeDown, RestartShuts, ClosePac, Reload, DialFails, DialAnswers, Relaunch,
           Toggle, SaveSettings, WatchdogCheck, WindowExit, UnchangedByCaller, UnchangedApp,
           Pushed, EndGrace, Drained, StopperMoves, StartDivert, Launch, DivertFault,
           DivertCloser, vars, appVars
  <2> QED BY <2>1, <2>2, <2>3
<1> QED BY <1>1, Invariance, PTL DEF Spec, DpiSourceOnlyForCurrent

----------------------------------------------------------------------------
(* The refinement *)

\* Taking the proxy down is the service's TurnOff.
LEMMA TakeDownTurnsOff ==
    ASSUME IInv, running, TakeDown
    PROVE  Service!TurnOff
BY DEF TakeDown, IInv, ServerInService, Gens, Service!TurnOff

\* A successful start is its TurnOn.
LEMMA StartTurnsOn ==
    ASSUME IInv, NEW t \in Threads, NEW c \in Configs, ~running, StartSucceeds(t, c),
           \A n \in Gens : bound[n] # c.proxy
    PROVE  \E p \in Ports : Service!TurnOn(p)
<1>1. c.proxy \in Ports
  BY ConfigsAssumption
<1>2. \A n \in 1..MaxGen : bound[n] # c.proxy
  BY DEF Gens
<1>3. Service!TurnOn(c.proxy)
  BY <1>2 DEF StartSucceeds, IInv, ServerInService, Service!TurnOn
<1> QED BY <1>1, <1>3

\* A server that is out of service and stops listening is its Release.
LEMMA ClosingReleases ==
    ASSUME IInv, NEW n \in Gens, n # proxySrv, bound' = [bound EXCEPT ![n] = None],
           UNCHANGED <<gen, proxySrv, pacBody, divert>>
    PROVE  Service!Next \/ UNCHANGED Service!service
<1>1. CASE bound[n] = None
  <2>1. bound' = bound
    BY <1>1 DEF IInv, TypeOK
  <2> QED BY <2>1 DEF Service!service
<1>2. CASE bound[n] # None
  BY <1>2 DEF Service!Next, Service!Release, Gens
<1> QED BY <1>1, <1>2

\* AppLifecycle implements ProxyService: every step is one of the service's, or
\* is invisible to it.
THEOREM Refinement == Spec => ImplementsService
<1>1. Init => Service!Init
  BY DEF Init, Service!Init, Gens
<1>2. ASSUME IInv, [Next]_vars PROVE [Service!Next]_(Service!service)
  <2> USE <1>2
  <2>1. ASSUME NEW t \in Threads, StartBody(t) PROVE [Service!Next]_(Service!service)
    <3>1. CASE ~running /\ config.proxy \notin Held /\ StartSucceeds(t, config)
      <4>1. config \in Configs /\ \A n \in Gens : bound[n] # config.proxy
        BY <3>1, ConfigsAssumption, PortsAssumption DEF IInv, TypeOK, Held
      <4> QED BY <3>1, <4>1, StartTurnsOn DEF Service!Next
    <3>2. CASE ~(~running /\ config.proxy \notin Held /\ StartSucceeds(t, config))
      BY <2>1, <3>2
         DEF StartBody, StartBindFails, StartMovesPac, StartPacFails, UnchangedApp,
             Service!service
    <3> QED BY <3>1, <3>2
  <2>2. ASSUME NEW t \in Threads, Start(t) \/ StartResumes(t)
        PROVE  [Service!Next]_(Service!service)
    BY <2>1, <2>2 DEF Start, StartResumes, UnchangedApp, Service!service
  <2>3. ASSUME NEW t \in Threads, Stop(t) \/ Restart(t)
        PROVE  [Service!Next]_(Service!service)
    <3>1. CASE running
      <4>1. TakeDown
        BY <2>3, <3>1 DEF Stop, Restart
      <4> QED BY <3>1, <4>1, TakeDownTurnsOff DEF Service!Next
    <3>2. CASE ~running
      BY <2>3, <3>2 DEF Stop, Restart, UnchangedApp, Service!service
    <3> QED BY <3>1, <3>2
  <2>4. ASSUME NEW t \in Threads, RestartShuts(t) PROVE [Service!Next]_(Service!service)
    <3>1. arg[t] \in Gens /\ arg[t] # proxySrv
      BY <2>4 DEF RestartShuts, IInv, ServersShutting
    <3> QED BY <2>4, <3>1, ClosingReleases DEF RestartShuts
  <2>5. ASSUME NEW n \in Gens, StopperStep(n) PROVE [Service!Next]_(Service!service)
    <3>1. n # proxySrv
      BY <2>5 DEF StopperStep, Pushed, EndGrace, Drained, StopperMoves, IInv, ServerInService, Gens
    <3>2. CASE EndGrace(n)
      BY <3>1, <3>2, ClosingReleases DEF EndGrace, StopperMoves
    <3>3. CASE Pushed(n) \/ Drained(n)
      BY <3>3 DEF Pushed, Drained, StopperMoves, Service!service
    <3> QED BY <2>5, <3>2, <3>3 DEF StopperStep
  <2>6. ASSUME NEW n \in Gens, StartDivert(n) PROVE [Service!Next]_(Service!service)
    <3>1. UNCHANGED <<gen, proxySrv, bound, pacBody>>
      BY <2>6 DEF StartDivert, DpiMoves
    <3>2. CASE current(n)
      <4>1. divert' \in {proxySrv, 0}
        BY <2>6, <3>2 DEF StartDivert, current, IInv, ServerInService
      <4> QED BY <3>1, <4>1 DEF Service!Next, Service!Engine
    <3>3. CASE ~current(n)
      BY <2>6, <3>1, <3>3 DEF StartDivert, Service!service
    <3> QED BY <3>2, <3>3
  <2>7. ASSUME NEW n \in Gens, DivertCloser(n) PROVE [Service!Next]_(Service!service)
    BY <2>7 DEF DivertCloser, Service!Next, Service!Engine
  <2>8. ASSUME NEW n \in Gens, Resolve(n) \/ Launch(n) \/ DivertFault(n)
        PROVE  [Service!Next]_(Service!service)
    BY <2>8 DEF Resolve, Launch, DpiMoves, DivertFault, Service!service
  <2>9. ASSUME NEW t \in Threads,
               \/ ClosePac(t) \/ PacClosed(t) \/ Reload(t) \/ DialFails(t) \/ DialAnswers(t)
               \/ Relaunch(t) \/ CallerBegins(t)
        PROVE  [Service!Next]_(Service!service)
    BY <2>9 DEF ClosePac, PacClosed, Reload, DialFails, DialAnswers, Relaunch, CallerBegins, Toggle,
                SaveSettings, WatchdogCheck, WindowExit, UnchangedByCaller, UnchangedApp,
                Service!service
  <2>10. ASSUME GdpiStep \/ Exit \/ UNCHANGED vars PROVE [Service!Next]_(Service!service)
    BY <2>10 DEF GdpiStep, Exit, vars, appVars, Service!service
  <2>11. ASSUME NEW t \in Threads, PacMoved(t) PROVE [Service!Next]_(Service!service)
    <3>1. /\ ~running /\ moving \in Configs
          /\ \A n \in Gens : bound[n] # moving.proxy
      BY <2>11 DEF PacMoved, IInv, LockHeld, TypeOK
    <3>2. CASE StartSucceeds(t, moving)
      BY <3>1, <3>2, StartTurnsOn DEF Service!Next
    <3>3. CASE StartPacFails(t, moving)
      BY <3>3 DEF StartPacFails, Service!service
    <3> QED BY <2>11, <3>2, <3>3 DEF PacMoved
  <2> QED
    BY <2>2, <2>3, <2>4, <2>5, <2>6, <2>7, <2>8, <2>9, <2>10, <2>11
       DEF Next, ThreadStep, PacShutdownReturns, DpiStep, Terminated
<1> QED BY <1>1, <1>2, Invariance, PTL DEF Spec, ImplementsService, Service!Spec

====
