---- MODULE Divert ----
(***************************************************************************)
(* The sessions of the WinDivert engine (dpi_divert.go).  A session is a   *)
(* pair of handles, a goroutine that reads packets from the first and one  *)
(* that tests strategies; a reader that fails leaves a closer behind.      *)
(* start, stop and restart come here under a.mu, one at a time; closers    *)
(* and tests take no part in that.                                         *)
(*                                                                         *)
(* Windows reuses the values of closed handles.  Of the second handle only *)
(* opening and closing matter here.                                        *)
(***************************************************************************)
EXTENDS Naturals, FiniteSets

CONSTANTS
    Handles,      \* the values a handle can have
    Hosts,        \* the number of probeHosts
    Strategies,   \* the number of divertStrategies
    MaxSessions   \* bound on the number of sessions

ASSUME BoundsAssumption ==
    /\ Hosts \in Nat \ {0} /\ Strategies \in Nat \ {0}
    /\ MaxSessions \in Nat

VARIABLES
    open,         \* the handles open in WinDivert
    session,      \* divertHandles
    sessions,     \* the number of sessions there have been
    stop,         \* where each goroutine in stopDivert is, and the handles it has
                  \* taken; 0 is the one under a.mu, which may go on in startDivert
    starts,       \* the one under a.mu does
    loop,         \* each session's divertLoop, and its handle
    test,         \* each session's selectDivertStrategy; of its generation, whether
                  \* divertGen still is the same
    probing,      \* divertProbing
    strategy,     \* divertStrategy: an index of divertStrategies, 0 for "none"
    crossed       \* history: another session got in the way of the last one's test

handleVars == <<open, session, sessions, stop, starts, loop>>
testVars == <<test, probing, strategy, crossed>>
vars == <<handleVars, testVars>>

Sessions == 1..MaxSessions
Stoppers == 0..MaxSessions
Idle == [at |-> "idle", held |-> {}]

TypeOK ==
    /\ open \subseteq Handles /\ session \subseteq Handles
    /\ sessions \in 0..MaxSessions
    /\ stop \in [Stoppers -> [at : {"idle", "take", "cancel", "close", "open", "open2",
                                    "publish", "launch"},
                              held : SUBSET Handles]]
    /\ starts \in BOOLEAN
    /\ loop \in [Sessions -> [at : {"none", "reads", "fails", "gone"}, on : Handles \cup {0}]]
    /\ test \in [Sessions -> [at : {"none", "begin", "check", "store", "probe", "set", "end",
                                    "over"},
                              current : BOOLEAN, host : 1..Hosts, try : 0..Strategies,
                              proven : 0..Strategies, choice : 1..Strategies, late : Nat]]
    /\ probing \in BOOLEAN
    /\ strategy \in 0..Strategies
    /\ crossed \in BOOLEAN

Init ==
    /\ open = {} /\ session = {}
    /\ sessions = 0
    /\ stop = [p \in Stoppers |-> Idle] /\ starts = FALSE
    /\ loop = [n \in Sessions |-> [at |-> "none", on |-> 0]]
    /\ test = [n \in Sessions |-> [at |-> "none", current |-> FALSE, host |-> 1, try |-> 0,
                                   proven |-> 0, choice |-> 1, late |-> 0]]
    /\ probing = FALSE
    /\ strategy = 1
    /\ crossed = FALSE

----------------------------------------------------------------------------
(* startDivert and stopDivert *)

Moves(p, to) == stop' = [stop EXCEPT ![p].at = to]

\* stop, restart, or the start-up goroutine come in under a.mu.
CallStop ==
    /\ stop[0].at = "idle"
    /\ Moves(0, "take") /\ starts' = FALSE
    /\ UNCHANGED <<open, session, sessions, loop, testVars>>

CallStart ==
    /\ stop[0].at = "idle"
    /\ sessions < MaxSessions
    /\ Moves(0, "take") /\ starts' = TRUE
    /\ UNCHANGED <<open, session, sessions, loop, testVars>>

\* The handles are taken under divertMu.
Take(p) ==
    /\ stop[p].at = "take"
    /\ stop' = [stop EXCEPT ![p] = [at |-> "cancel", held |-> session]]
    /\ session' = {}
    /\ UNCHANGED <<open, sessions, starts, loop, testVars>>

\* divertGen grows, whoever's session is published by now.
Cancel(p) ==
    /\ stop[p].at = "cancel"
    /\ test' = [n \in Sessions |-> [test[n] EXCEPT !.current = FALSE]]
    /\ crossed' = (crossed \/ session # {})
    /\ Moves(p, "close")
    /\ UNCHANGED <<open, session, sessions, starts, loop, probing, strategy>>

\* The handles are closed; startDivert goes on, unless it may not (not elevated) or
\* cannot load the library.
Close(p) ==
    /\ stop[p].at = "close"
    /\ open' = open \ stop[p].held
    /\ \/ stop' = [stop EXCEPT ![p] = Idle]
       \/ p = 0 /\ starts /\ stop' = [stop EXCEPT ![p] = [at |-> "open", held |-> {}]]
    /\ starts' = (starts /\ p # 0)
    /\ UNCHANGED <<session, sessions, loop, testVars>>

OpenFails ==
    /\ stop[0].at = "open"
    /\ Moves(0, "idle")
    /\ UNCHANGED <<open, session, sessions, starts, loop, testVars>>

Open(h) ==
    /\ stop[0].at = "open"
    /\ h \notin open
    /\ open' = open \cup {h}
    /\ stop' = [stop EXCEPT ![0] = [at |-> "open2", held |-> {h}]]
    /\ loop' = [loop EXCEPT ![sessions + 1].on = h]
    /\ UNCHANGED <<session, sessions, starts, testVars>>

\* Mutant: the first handle is not closed.
OpenRstFailsLeaks ==
    /\ stop[0].at = "open2"
    /\ stop' = [stop EXCEPT ![0] = Idle]
    /\ UNCHANGED <<open, session, sessions, starts, loop, testVars>>

OpenRstFails ==
    /\ stop[0].at = "open2"
    /\ open' = open \ stop[0].held
    /\ stop' = [stop EXCEPT ![0] = Idle]
    /\ UNCHANGED <<session, sessions, starts, loop, testVars>>

OpenRst(h) ==
    /\ stop[0].at = "open2"
    /\ h \notin open
    /\ open' = open \cup {h}
    /\ stop' = [stop EXCEPT ![0] = [at |-> "publish", held |-> @.held \cup {h}]]
    /\ UNCHANGED <<session, sessions, starts, loop, testVars>>

Publish ==
    /\ stop[0].at = "publish"
    /\ session' = stop[0].held
    /\ stop' = [stop EXCEPT ![0] = [at |-> "launch", held |-> {}]]
    /\ UNCHANGED <<open, sessions, starts, loop, testVars>>

\* The goroutines of the session, the test with the generation it is to watch.
Launch ==
    /\ stop[0].at = "launch"
    /\ sessions' = sessions + 1
    /\ loop' = [loop EXCEPT ![sessions'].at = "reads"]
    /\ test' = [n \in Sessions |->
                   IF n = sessions' THEN [test[n] EXCEPT !.at = "begin", !.current = TRUE]
                   ELSE [test[n] EXCEPT !.current = FALSE]]
    /\ crossed' = \E n \in 1..sessions : test[n].at # "over"
    /\ stop' = [stop EXCEPT ![0] = Idle]
    /\ UNCHANGED <<open, session, starts, probing, strategy>>

----------------------------------------------------------------------------
(* divertLoop *)

Reads(n) == loop[n].at = "reads" /\ loop[n].on \in open

\* divertRecv fails, always on a closed handle.
LoopFails(n) ==
    /\ loop[n].at = "reads"
    /\ loop' = [loop EXCEPT ![n].at = "fails"]
    /\ UNCHANGED <<open, session, sessions, stop, starts, testVars>>

\* Mutant: nobody closes the session.
LoopEndsQuietly(n) ==
    /\ loop[n].at = "fails"
    /\ loop' = [loop EXCEPT ![n] = [at |-> "gone", on |-> 0]]
    /\ UNCHANGED <<open, session, sessions, stop, starts, testVars>>

\* divertHandleOpen: if a session has this handle, that session is closed.
LoopEnds(n) ==
    /\ loop[n].at = "fails"
    /\ loop' = [loop EXCEPT ![n] = [at |-> "gone", on |-> 0]]
    /\ IF loop[n].on \in session THEN Moves(n, "take") ELSE UNCHANGED stop
    /\ UNCHANGED <<open, session, sessions, starts, testVars>>

----------------------------------------------------------------------------
(* selectDivertStrategy and pickStrategy *)

Test(n, at) == test[n].at = at /\ UNCHANGED <<handleVars, crossed>>

TestBegins(n) ==
    /\ Test(n, "begin")
    /\ test' = [test EXCEPT ![n].at = "check"]
    /\ probing' = TRUE
    /\ UNCHANGED strategy

\* errProbeAborted, which pickStrategy passes on.
TestChecks(n) ==
    /\ Test(n, "check")
    /\ test' = [test EXCEPT ![n].at = IF test[n].current THEN "store" ELSE "end"]
    /\ UNCHANGED <<probing, strategy>>

TestStores(n) ==
    /\ Test(n, "store")
    /\ strategy' = test[n].try
    /\ test' = [test EXCEPT ![n].at = "probe",
                            ![n].late = IF test[n].current THEN @ ELSE @ + 1]
    /\ UNCHANGED probing

\* The strategy the engine applies to a probe: none without a reader and, once
\* probing is off, none to one for a host that is not on the blocked list.
InForce == IF \E n \in Sessions : Reads(n)
           THEN IF probing THEN {strategy} ELSE {strategy, 0}
           ELSE {0}

\* probeTLS gets through: without any strategy the next host is to be tested,
\* and after the last one the default is chosen; with one, that one is.
ProbeSucceeds(n) ==
    LET t == test[n] IN
    /\ Test(n, "probe")
    /\ session # {} => \E m \in Sessions : Reads(m)
    /\ \E s \in InForce :
        test' = [test EXCEPT ![n] =
                    IF t.try > 0 THEN [t EXCEPT !.at = "set", !.choice = t.try, !.proven = s]
                    ELSE IF t.host < Hosts THEN [t EXCEPT !.at = "check", !.host = @ + 1]
                    ELSE [t EXCEPT !.at = "set", !.choice = 1]]
    /\ UNCHANGED <<probing, strategy>>

\* Mutant: without a strategy that works nothing is chosen.
ProbeFailsForGood(n) ==
    LET t == test[n] IN
    /\ Test(n, "probe")
    /\ test' = [test EXCEPT ![n] =
                    IF t.try < Strategies THEN [t EXCEPT !.at = "check", !.try = @ + 1]
                    ELSE [t EXCEPT !.at = "end"]]
    /\ UNCHANGED <<probing, strategy>>

\* The next strategy is tried; after the last one the default is chosen.
ProbeFails(n) ==
    LET t == test[n] IN
    /\ Test(n, "probe")
    /\ test' = [test EXCEPT ![n] =
                    IF t.try < Strategies THEN [t EXCEPT !.at = "check", !.try = @ + 1]
                    ELSE [t EXCEPT !.at = "set", !.choice = 1]]
    /\ UNCHANGED <<probing, strategy>>

TestSets(n) ==
    /\ Test(n, "set")
    /\ strategy' = test[n].choice
    /\ test' = [test EXCEPT ![n].at = "end"]
    /\ UNCHANGED probing

\* The deferred Store; of the test only what it has proven still matters.
TestEnds(n) ==
    /\ Test(n, "end")
    /\ probing' = FALSE
    /\ test' = [test EXCEPT ![n] = [@ EXCEPT !.at = "over", !.host = 1, !.try = 0, !.choice = 1]]
    /\ UNCHANGED strategy

----------------------------------------------------------------------------

Next ==
    \/ CallStop \/ CallStart
    \/ OpenFails \/ OpenRstFails \/ Publish \/ Launch
    \/ \E h \in Handles : Open(h) \/ OpenRst(h)
    \/ \E p \in Stoppers : Take(p) \/ Cancel(p) \/ Close(p)
    \/ \E n \in Sessions : LoopFails(n) \/ LoopEnds(n)
    \/ \E n \in Sessions : \/ TestBegins(n) \/ TestChecks(n) \/ TestStores(n)
                           \/ ProbeSucceeds(n) \/ ProbeFails(n) \/ TestSets(n) \/ TestEnds(n)

Spec == Init /\ [][Next]_vars

----------------------------------------------------------------------------
(* Properties *)

Held == UNION {stop[p].held : p \in Stoppers}

\* Every handle open in WinDivert is in divertHandles or with exactly one
\* goroutine, which will close or publish it: none leaks, and none is closed by
\* two, however the values are reused and whoever comes first.
OneOwner ==
    /\ open = session \cup Held
    /\ \A p \in Stoppers : stop[p].held \cap session = {}
    /\ \A p, q \in Stoppers : p # q => stop[p].held \cap stop[q].held = {}

\* A session whose packets nobody reads is about to be closed: WinDivert would
\* hold the packets back for ever (divertLoop, go stopDivert).
SessionIsRead ==
    session # {} /\ stop[0].at # "launch" =>
        \/ loop[sessions].at \in {"reads", "fails"}
        \/ \E n \in Sessions : stop[n].at = "take"

\* Once divertGen has moved on, a test puts at most one more strategy in force
\* (selectDivertStrategy).
StaleTestTriesOnce == \A n \in Sessions : test[n].late <= 1

\* When its test is over, an open session uses the strategy that got the probe
\* through, or the default, and never none; unless the test of an earlier session
\* was still at work, or a closer of one came late.
SettledStrategy ==
    session # {} /\ stop[0].at # "launch" /\ test[sessions].at = "over" /\ ~crossed =>
        strategy # 0 /\ strategy \in {1, test[sessions].proven}

====
