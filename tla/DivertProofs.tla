---- MODULE DivertProofs ----
(***************************************************************************)
(* Theorems about the WinDivert engine, with their proofs: what holds of   *)
(* Divert for any number of handles, hosts, strategies and sessions, and,  *)
(* at the end, of DivertTraffic.  The two specifications share no names.   *)
(***************************************************************************)
EXTENDS Divert, DivertTraffic, TLAPS

EngineStep ==
    \/ CallStop \/ CallStart \/ OpenFails \/ OpenRstFails \/ Publish
    \/ \E h \in Handles : Open(h) \/ OpenRst(h)
    \/ \E p \in Stoppers : Take(p) \/ Close(p)
    \/ \E n \in Sessions : LoopFails(n) \/ LoopEnds(n)

TestStep(n) ==
    \/ TestBegins(n) \/ TestChecks(n) \/ TestStores(n)
    \/ ProbeSucceeds(n) \/ ProbeFails(n) \/ TestSets(n) \/ TestEnds(n)

\* What the stages of startDivert and stopDivert say of each other: only the
\* goroutine under a.mu starts sessions, with none published meanwhile, and the next
\* session's goroutines do not exist yet.
Shape ==
    /\ (starts \/ stop[0].at \in {"open", "open2", "publish", "launch"}) => sessions < MaxSessions
    /\ stop[0].at \in {"idle", "open", "open2", "publish", "launch"} => ~starts
    /\ \A p \in Sessions : stop[p].at \in {"idle", "take", "cancel", "close"}
    /\ \A p \in Stoppers : stop[p].at \in {"idle", "take", "open", "launch"} => stop[p].held = {}
    /\ stop[0].at \in {"cancel", "close", "open", "open2", "publish"} => session = {}
    /\ \A n \in Sessions : loop[n].at # "gone" => stop[n] = Idle
    /\ \A n \in Sessions : n > sessions =>
          loop[n].at = "none" /\ test[n].at = "none" /\ test[n].late = 0 /\ ~test[n].current

\* OneOwner, handle by handle.
Owners ==
    /\ \A h \in open : h \in session \/ \E p \in Stoppers : h \in stop[p].held
    /\ session \subseteq open
    /\ \A p \in Stoppers : stop[p].held \subseteq open \ session
    /\ \A p, q \in Stoppers : p # q => stop[p].held \cap stop[q].held = {}

\* The reader of a session has one of its handles, from before it is published.
Readers ==
    /\ stop[0].at \in {"open2", "publish"} => loop[sessions + 1].on \in stop[0].held
    /\ session # {} /\ stop[0].at = "launch" => loop[sessions + 1].on \in session
    /\ session # {} /\ stop[0].at # "launch" =>
          /\ sessions > 0
          /\ \/ loop[sessions].at \in {"reads", "fails"} /\ loop[sessions].on \in session
             \/ \E n \in Sessions : stop[n].at = "take"

\* A test that has been cancelled and stored a strategy is past its last check.
Stale ==
    \A n \in Sessions :
        /\ test[n].late > 0 => test[n].late = 1 /\ ~test[n].current
                               /\ test[n].at \in {"probe", "check", "set", "end", "over"}
        /\ test[n].late \in Nat

\* A test nobody crosses is the only one, keeps its generation, and has its way.
Settled ==
    session # {} /\ stop[0].at # "launch" /\ ~crossed =>
        LET t == test[sessions] IN
        /\ sessions > 0
        /\ \A n \in 1..(sessions - 1) : test[n].at = "over"
        /\ t.current /\ t.at # "none"
        /\ t.at \in {"check", "store", "probe", "set"} => probing
        /\ t.at = "probe" => strategy = t.try
        /\ t.at = "set" => t.choice # 0 /\ t.choice \in {1, t.proven}
        /\ t.at \in {"end", "over"} => strategy # 0 /\ strategy \in {1, t.proven}

DivertInv == TypeOK /\ Shape /\ Owners /\ Readers /\ Stale /\ Settled

----------------------------------------------------------------------------

\* The types, for the proofs.
StopRec == [at : {"idle", "take", "cancel", "close", "open", "open2", "publish", "launch"},
            held : SUBSET Handles]
LoopRec == [at : {"none", "reads", "fails", "gone"}, on : Handles \cup {0}]
TestRec == [at : {"none", "begin", "check", "store", "probe", "set", "end", "over"},
            current : BOOLEAN, host : 1..Hosts, try : 0..Strategies,
            proven : 0..Strategies, choice : 1..Strategies, late : Nat]

HandleTypes ==
    /\ open \subseteq Handles /\ session \subseteq Handles
    /\ sessions \in 0..MaxSessions
    /\ stop \in [Stoppers -> StopRec]
    /\ loop \in [Sessions -> LoopRec]

LEMMA DivertInit == Init => DivertInv
<1> SUFFICES ASSUME Init PROVE DivertInv
  OBVIOUS
<1> USE DEF Init
<1>0. 0 \in Stoppers /\ 0 \in 0..Strategies /\ 1 \in 1..Strategies /\ 1 \in 1..Hosts
  BY BoundsAssumption DEF Stoppers
<1>1. TypeOK
  <2>1. stop \in [Stoppers -> StopRec]
    BY DEF Idle, StopRec
  <2>2. loop \in [Sessions -> LoopRec]
    BY DEF LoopRec
  <2>3. test \in [Sessions -> TestRec]
    BY <1>0 DEF TestRec
  <2>4. sessions \in 0..MaxSessions
    BY BoundsAssumption
  <2>5. strategy \in 0..Strategies
    BY BoundsAssumption
  <2>6. starts \in BOOLEAN /\ probing \in BOOLEAN /\ crossed \in BOOLEAN
    OBVIOUS
  <2> QED
    BY <2>1, <2>2, <2>3, <2>4, <2>5, <2>6 DEF TypeOK, StopRec, LoopRec, TestRec
<1>2. Shape
  BY <1>0 DEF Shape, Idle, Sessions, Stoppers
<1>3. Owners /\ Readers
  BY <1>0 DEF Owners, Readers, Idle
<1>4. Stale /\ Settled
  BY DEF Stale, Settled
<1> QED
  BY <1>1, <1>2, <1>3, <1>4 DEF DivertInv

\* A step is one of the engine, of a test, or moves divertGen.
LEMMA StepKinds ==
    Next <=> EngineStep \/ Launch \/ (\E p \in Stoppers : Cancel(p)) \/ \E n \in Sessions : TestStep(n)
BY DEF Next, EngineStep, TestStep

LEMMA EngineLeavesTests == EngineStep => UNCHANGED testVars
BY DEF EngineStep, CallStop, CallStart, OpenFails, OpenRstFails, Publish, Open, OpenRst, Take,
       Close, LoopFails, LoopEnds

LEMMA TestsLeaveEngine == ASSUME NEW n, TestStep(n) PROVE UNCHANGED <<handleVars, crossed>>
BY DEF TestStep, Test, TestBegins, TestChecks, TestStores, ProbeSucceeds, ProbeFails, TestSets,
       TestEnds

\* Launch and Cancel without what they say of crossed.
LaunchFacts ==
    /\ stop[0].at = "launch" /\ sessions' = sessions + 1
    /\ loop' = [loop EXCEPT ![sessions + 1].at = "reads"]
    /\ test' = [n \in Sessions |->
                    IF n = sessions + 1
                    THEN [test[n] EXCEPT !.at = "begin", !.current = TRUE]
                    ELSE [test[n] EXCEPT !.current = FALSE]]
    /\ stop' = [stop EXCEPT ![0] = Idle]
    /\ UNCHANGED <<open, session, starts, probing, strategy>>

LEMMA LaunchDoes == Launch => LaunchFacts
<1> SUFFICES ASSUME Launch PROVE LaunchFacts
  OBVIOUS
<1>1. /\ stop[0].at = "launch" /\ sessions' = sessions + 1
      /\ stop' = [stop EXCEPT ![0] = Idle]
      /\ UNCHANGED <<open, session, starts, probing, strategy>>
  BY Zenon DEF Launch
<1>2. loop' = [loop EXCEPT ![sessions'].at = "reads"]
  BY Zenon DEF Launch
<1>3. test' = [n \in Sessions |->
                   IF n = sessions' THEN [test[n] EXCEPT !.at = "begin", !.current = TRUE]
                   ELSE [test[n] EXCEPT !.current = FALSE]]
  BY Zenon DEF Launch
<1> QED
  BY <1>1, <1>2, <1>3, Zenon DEF LaunchFacts

CancelFacts(p) ==
    /\ stop[p].at = "cancel" /\ stop' = [stop EXCEPT ![p].at = "close"]
    /\ test' = [n \in Sessions |-> [test[n] EXCEPT !.current = FALSE]]
    /\ UNCHANGED <<open, session, sessions, starts, loop, probing, strategy>>

LEMMA CancelDoes == ASSUME NEW p PROVE Cancel(p) => CancelFacts(p)
BY Zenon DEF Cancel, Moves, CancelFacts

LEMMA CrossedIsBoolean ==
    ASSUME Launch \/ \E p \in Stoppers : Cancel(p)
    PROVE  crossed' \in BOOLEAN
BY Zenon DEF Launch, Cancel

\* What ProbeSucceeds makes of the test's record.
Succeeds(n, s) ==
    IF test[n].try > 0
    THEN [test[n] EXCEPT !.at = "set", !.choice = test[n].try, !.proven = s]
    ELSE IF test[n].host < Hosts
    THEN [test[n] EXCEPT !.at = "check", !.host = test[n].host + 1]
    ELSE [test[n] EXCEPT !.at = "set", !.choice = 1]

LEMMA SucceedsDoes ==
    ASSUME NEW n, ProbeSucceeds(n)
    PROVE  \E s \in InForce : test' = [test EXCEPT ![n] = Succeeds(n, s)]
BY Zenon DEF ProbeSucceeds, Succeeds

\* What a step of a test may do to the record of that test.
LEMMA TestRecords ==
    ASSUME TypeOK, NEW n \in Sessions, TestStep(n)
    PROVE  /\ test' \in [Sessions -> TestRec]
           /\ \A m \in Sessions : m # n => test'[m] = test[m]
           /\ test[n].at \notin {"none", "over"}
           /\ test'[n].current = test[n].current
           /\ strategy' \in 0..Strategies /\ probing' \in BOOLEAN
<1> USE DEF TypeOK, TestRec
<1>0. test[n] \in TestRec /\ 1 \in 1..Strategies /\ 1 \in 1..Hosts /\ 0 \in 0..Strategies
  BY BoundsAssumption
<1>1. CASE TestBegins(n)
  BY <1>0, <1>1 DEF TestBegins, Test
<1>2. CASE TestChecks(n)
  BY <1>0, <1>2 DEF TestChecks, Test
<1>3. CASE TestStores(n)
  <2>1. test' = [test EXCEPT ![n] = [test[n] EXCEPT !.at = "probe",
                    !.late = IF test[n].current THEN test[n].late ELSE test[n].late + 1]]
    BY <1>0, <1>3 DEF TestStores
  <2>2. test'[n] \in TestRec /\ test'[n].current = test[n].current
    <3>1. (IF test[n].current THEN test[n].late ELSE test[n].late + 1) \in Nat
      BY <1>0
    <3> QED
      BY <1>0, <2>1, <3>1
  <2>3. strategy' \in 0..Strategies /\ probing' \in BOOLEAN
    BY <1>0, <1>3 DEF TestStores
  <2> QED
    BY <1>3, <2>1, <2>2, <2>3 DEF TestStores, Test
<1>4. CASE ProbeSucceeds(n)
  <2>1. PICK s \in InForce : test' = [test EXCEPT ![n] = Succeeds(n, s)]
    BY <1>4, SucceedsDoes
  <2>2. s \in 0..Strategies
    BY <1>0 DEF InForce
  <2>3. test[n].try > 0 => test[n].try \in 1..Strategies
    BY <1>0, BoundsAssumption
  <2>4. test[n].host < Hosts => test[n].host + 1 \in 1..Hosts
    BY <1>0, BoundsAssumption
  <2>5. test'[n] \in TestRec
    BY <1>0, <2>1, <2>2, <2>3, <2>4 DEF Succeeds
  <2>6. test'[n].current = test[n].current
    BY <1>0, <2>1 DEF Succeeds
  <2> QED
    BY <1>4, <2>1, <2>5, <2>6 DEF ProbeSucceeds, Test
<1>5. CASE ProbeFails(n)
  <2>1. test[n].try < Strategies => test[n].try + 1 \in 0..Strategies
    BY <1>0, BoundsAssumption
  <2> QED
    BY <1>0, <1>5, <2>1 DEF ProbeFails, Test
<1>6. CASE TestSets(n)
  BY <1>0, <1>6, BoundsAssumption DEF TestSets, Test
<1>7. CASE TestEnds(n)
  BY <1>0, <1>7 DEF TestEnds, Test
<1> QED
  BY <1>1, <1>2, <1>3, <1>4, <1>5, <1>6, <1>7 DEF TestStep


LEMMA TypesKept == TypeOK /\ Shape /\ [Next]_vars => TypeOK'
<1> SUFFICES ASSUME TypeOK, Shape, [Next]_vars PROVE TypeOK'
  OBVIOUS
<1> USE DEF TypeOK, StopRec, LoopRec
<1>0. 0 \in Stoppers /\ Sessions \subseteq Stoppers
  BY BoundsAssumption DEF Stoppers, Sessions
<1>1. CASE EngineStep
  <2>1. UNCHANGED testVars
    BY <1>1, EngineLeavesTests
  <2>2. HandleTypes'
    <3> USE DEF HandleTypes
    <3>1. CASE CallStop \/ CallStart \/ OpenFails
      <4>1. /\ UNCHANGED <<open, session, sessions, loop>>
            /\ \/ stop' = [stop EXCEPT ![0].at = "take"]
               \/ stop' = [stop EXCEPT ![0].at = "idle"]
        BY <3>1, Zenon DEF CallStop, CallStart, OpenFails, Moves
      <4> QED
        BY <1>0, <4>1
    <3>2. CASE OpenRstFails \/ Publish
      <4>1. UNCHANGED <<sessions, loop>>
        BY <3>2, Zenon DEF OpenRstFails, Publish
      <4>2. open' \subseteq Handles /\ session' \subseteq Handles
        BY <1>0, <3>2 DEF OpenRstFails, Publish
      <4>3. \/ stop' = [stop EXCEPT ![0] = [at |-> "idle", held |-> {}]]
            \/ stop' = [stop EXCEPT ![0] = [at |-> "launch", held |-> {}]]
        BY <3>2, Zenon DEF OpenRstFails, Publish, Idle
      <4>4. stop' \in [Stoppers -> StopRec]
        BY <1>0, <4>3
      <4> QED
        BY <4>1, <4>2, <4>4
    <3>3. ASSUME NEW h \in Handles, Open(h) PROVE HandleTypes'
      <4>1. sessions + 1 \in Sessions
        BY <3>3, BoundsAssumption DEF Open, Shape, Sessions
      <4> QED
        BY <1>0, <3>3, <4>1 DEF Open
    <3>4. ASSUME NEW h \in Handles, OpenRst(h) PROVE HandleTypes'
      BY <1>0, <3>4 DEF OpenRst
    <3>5. ASSUME NEW p \in Stoppers, Take(p) \/ Close(p) PROVE HandleTypes'
      BY <3>5 DEF Take, Close, Idle
    <3>6. ASSUME NEW n \in Sessions, LoopFails(n) \/ LoopEnds(n)
          PROVE HandleTypes'
      <4>1. CASE LoopFails(n)
        BY <1>0, <4>1 DEF LoopFails
      <4>2. CASE LoopEnds(n)
        <5>1. stop' = stop \/ stop' = [stop EXCEPT ![n].at = "take"]
          BY <4>2 DEF LoopEnds, Moves
        <5>2. stop' \in [Stoppers -> StopRec]
          BY <1>0, <5>1
        <5> QED
          BY <4>2, <5>2 DEF LoopEnds
      <4> QED
        BY <3>6, <4>1, <4>2
    <3> QED
      BY <1>1, <3>1, <3>2, <3>3, <3>4, <3>5, <3>6 DEF EngineStep
  <2>3. starts' \in BOOLEAN
    BY <1>1 DEF EngineStep, CallStop, CallStart, OpenFails, OpenRstFails, Publish, Open, OpenRst,
                Take, Close, LoopFails, LoopEnds
  <2> QED
    BY <2>1, <2>2, <2>3 DEF testVars, HandleTypes
<1>2. CASE Launch
  <2>0. LaunchFacts
    BY <1>2, LaunchDoes
  <2>a. stop[0].at = "launch" /\ sessions' = sessions + 1
    BY <2>0 DEF LaunchFacts
  <2>1. sessions + 1 \in Sessions
    BY <2>a, BoundsAssumption DEF Shape, Sessions
  <2>2. sessions' \in 0..MaxSessions
    BY <2>a, <2>1, BoundsAssumption DEF Sessions
  <2>3. stop' \in [Stoppers -> StopRec] /\ loop' \in [Sessions -> LoopRec]
    <3>1. /\ stop' = [stop EXCEPT ![0] = [at |-> "idle", held |-> {}]]
          /\ loop' = [loop EXCEPT ![sessions + 1].at = "reads"]
      BY <2>0, Zenon DEF LaunchFacts, Idle
    <3>2. stop' \in [Stoppers -> StopRec]
      BY <1>0, <3>1
    <3>3. loop' \in [Sessions -> LoopRec]
      BY <2>1, <3>1
    <3> QED
      BY <3>2, <3>3
  <2>4. test' \in [Sessions -> TestRec]
    <3>1. \A n \in Sessions : test[n] \in TestRec
      BY DEF TestRec
    <3>2. test' = [n \in Sessions |->
                      IF n = sessions + 1
                      THEN [test[n] EXCEPT !.at = "begin", !.current = TRUE]
                      ELSE [test[n] EXCEPT !.current = FALSE]]
      BY <2>0, Zenon DEF LaunchFacts
    <3>3. ASSUME NEW n \in Sessions
          PROVE  /\ [test[n] EXCEPT !.at = "begin", !.current = TRUE] \in TestRec
                 /\ [test[n] EXCEPT !.current = FALSE] \in TestRec
      BY <3>1 DEF TestRec
    <3> QED
      BY <3>2, <3>3, Zenon
  <2>5. crossed' \in BOOLEAN
    BY <1>2, CrossedIsBoolean
  <2>6. UNCHANGED <<open, session, starts, probing, strategy>>
    BY <2>0 DEF LaunchFacts
  <2> QED
    BY <2>2, <2>3, <2>4, <2>5, <2>6 DEF TestRec
<1>3. ASSUME NEW p \in Stoppers, Cancel(p) PROVE TypeOK'
  <2>0. CancelFacts(p)
    BY <1>3, CancelDoes
  <2>1. stop' \in [Stoppers -> StopRec]
    <3>1. stop' = [stop EXCEPT ![p].at = "close"]
      BY <2>0, Zenon DEF CancelFacts
    <3> QED
      BY <3>1
  <2>2. test' \in [Sessions -> TestRec]
    <3>1. \A n \in Sessions : test[n] \in TestRec
      BY DEF TestRec
    <3>2. test' = [n \in Sessions |-> [test[n] EXCEPT !.current = FALSE]]
      BY <2>0, Zenon DEF CancelFacts
    <3>3. ASSUME NEW n \in Sessions PROVE [test[n] EXCEPT !.current = FALSE] \in TestRec
      BY <3>1 DEF TestRec
    <3> QED
      BY <3>2, <3>3, Zenon
  <2>3. crossed' \in BOOLEAN
    BY <1>3, CrossedIsBoolean
  <2> QED
    BY <2>0, <2>1, <2>2, <2>3 DEF CancelFacts, TestRec
<1>4. ASSUME NEW n \in Sessions, TestStep(n) PROVE TypeOK'
  <2>1. UNCHANGED <<handleVars, crossed>>
    BY <1>4, TestsLeaveEngine
  <2>2. test' \in [Sessions -> TestRec] /\ strategy' \in 0..Strategies /\ probing' \in BOOLEAN
    BY <1>4, TestRecords
  <2> QED
    BY <2>1, <2>2 DEF handleVars, TestRec
<1>5. CASE UNCHANGED vars
  BY <1>5 DEF vars, handleVars, testVars
<1> QED
  BY <1>1, <1>2, <1>3, <1>4, <1>5, StepKinds

LEMMA ShapeKept == TypeOK /\ Shape /\ [Next]_vars => Shape'
<1> SUFFICES ASSUME TypeOK, Shape, [Next]_vars PROVE Shape'
  OBVIOUS
<1>0. /\ 0 \in Stoppers /\ Sessions \subseteq Stoppers /\ 0 \notin Sessions
      /\ sessions \in Nat /\ MaxSessions \in Nat
  BY BoundsAssumption DEF Stoppers, Sessions, TypeOK
<1>a. stop \in [Stoppers -> StopRec] /\ loop \in [Sessions -> LoopRec]
  BY DEF TypeOK, StopRec, LoopRec
<1>b. test \in [Sessions -> TestRec]
  BY DEF TypeOK, TestRec
<1>1. CASE EngineStep
  <2>0. UNCHANGED test
    BY <1>1, EngineLeavesTests DEF testVars
  <2>1. CASE CallStop \/ CallStart \/ OpenFails
    BY <1>0, <1>a, <2>0, <2>1 DEF CallStop, CallStart, OpenFails, Moves, Shape, StopRec
  <2>2. CASE OpenRstFails
    BY <1>0, <1>a, <2>0, <2>2 DEF OpenRstFails, Shape, Idle
  <2>3. CASE Publish
    BY <1>0, <1>a, <2>0, <2>3 DEF Publish, Shape
  <2>4. ASSUME NEW h \in Handles, Open(h) PROVE Shape'
    <3>1. sessions + 1 \in Sessions
      BY <1>0, <2>4 DEF Open, Shape, Sessions
    <3> QED
      BY <1>0, <1>a, <2>0, <2>4, <3>1 DEF Open, Shape, LoopRec
  <2>5. ASSUME NEW h \in Handles, OpenRst(h) PROVE Shape'
    BY <1>0, <1>a, <2>0, <2>5 DEF OpenRst, Shape
  <2>6. ASSUME NEW p \in Stoppers, Take(p) PROVE Shape'
    BY <1>0, <1>a, <2>0, <2>6 DEF Take, Shape, Idle
  <2>7. ASSUME NEW p \in Stoppers, Close(p) PROVE Shape'
    <3>1. /\ UNCHANGED <<session, sessions, loop>> /\ stop[p].at = "close"
          /\ starts' => starts /\ p # 0
          /\ \/ stop' = [stop EXCEPT ![p] = Idle]
             \/ p = 0 /\ starts /\ stop' = [stop EXCEPT ![p] = [at |-> "open", held |-> {}]]
      BY <2>7, Zenon DEF Close
    <3> QED
      BY <1>0, <1>a, <2>0, <3>1 DEF Shape, Idle
  <2>8. ASSUME NEW n \in Sessions, LoopFails(n) \/ LoopEnds(n) PROVE Shape'
    BY <1>0, <1>a, <2>0, <2>8 DEF LoopFails, LoopEnds, Moves, Shape, Idle
  <2> QED
    BY <1>1, <2>1, <2>2, <2>3, <2>4, <2>5, <2>6, <2>7, <2>8 DEF EngineStep
<1>2. CASE Launch
  <2>0. LaunchFacts
    BY <1>2, LaunchDoes
  <2>a. /\ stop[0].at = "launch" /\ sessions' = sessions + 1
        /\ loop' = [loop EXCEPT ![sessions + 1].at = "reads"]
        /\ stop' = [stop EXCEPT ![0] = Idle]
        /\ UNCHANGED session
    BY <2>0 DEF LaunchFacts
  <2>b. starts' => starts
    BY <2>0, Zenon DEF LaunchFacts
  <2>1. sessions + 1 \in Sessions
    BY <1>0, <2>a DEF Shape, Sessions
  <2>2. \A n \in Sessions : n > sessions' => loop'[n] = loop[n] /\ n > sessions /\ n # sessions'
    BY <1>0, <1>a, <2>a DEF Sessions
  <2>3. \A n \in Sessions : n > sessions' =>
            loop'[n].at = "none" /\ test'[n].at = "none" /\ test'[n].late = 0 /\ ~test'[n].current
    <3> SUFFICES ASSUME NEW n \in Sessions, n > sessions'
                 PROVE  /\ loop'[n].at = "none" /\ test'[n].at = "none"
                        /\ test'[n].late = 0 /\ ~test'[n].current
      OBVIOUS
    <3>1. test[n] \in TestRec
      BY <1>b
    <3>2. test'[n] = [test[n] EXCEPT !.current = FALSE]
      BY <2>0, <2>2 DEF LaunchFacts
    <3> QED
      BY <2>2, <3>1, <3>2 DEF Shape, TestRec
  <2> QED
    BY <1>0, <1>a, <2>a, <2>b, <2>1, <2>3 DEF Shape, Idle
<1>3. ASSUME NEW p \in Stoppers, Cancel(p) PROVE Shape'
  <2>0. CancelFacts(p)
    BY <1>3, CancelDoes
  <2>a. /\ stop[p].at = "cancel" /\ stop' = [stop EXCEPT ![p].at = "close"]
        /\ UNCHANGED <<session, sessions, loop>>
    BY <2>0 DEF CancelFacts
  <2>b. starts' <=> starts
    BY <2>0, Zenon DEF CancelFacts
  <2>1. \A n \in Sessions : test'[n].at = test[n].at /\ test'[n].late = test[n].late
                             /\ ~test'[n].current
    <3> SUFFICES ASSUME NEW n \in Sessions
                 PROVE  test'[n].at = test[n].at /\ test'[n].late = test[n].late
                        /\ ~test'[n].current
      OBVIOUS
    <3>1. test[n] \in TestRec
      BY <1>b
    <3> QED
      BY <2>0, <3>1 DEF CancelFacts, TestRec
  <2> QED
    BY <1>0, <1>a, <2>a, <2>b, <2>1 DEF Shape, Idle
<1>4. ASSUME NEW n \in Sessions, TestStep(n) PROVE Shape'
  <2>1. UNCHANGED handleVars
    BY <1>4, TestsLeaveEngine
  <2>2. (\A m \in Sessions : m # n => test'[m] = test[m]) /\ test[n].at # "none"
    BY <1>4, TestRecords
  <2> QED
    BY <2>1, <2>2 DEF handleVars, Shape
<1>5. CASE UNCHANGED vars
  BY <1>5 DEF vars, handleVars, testVars, Shape
<1> QED
  BY <1>1, <1>2, <1>3, <1>4, <1>5, StepKinds


\* What Launch, Cancel and the tests leave alone.
LEMMA OwnersFrame ==
    ASSUME TypeOK, Shape, [Next]_vars, ~EngineStep
    PROVE  /\ UNCHANGED <<open, session>>
           /\ \A p \in Stoppers : stop'[p].held = stop[p].held
<1>0. 0 \in Stoppers /\ stop \in [Stoppers -> StopRec]
  BY BoundsAssumption DEF TypeOK, StopRec, Stoppers
<1>1. CASE Launch
  <2>1. /\ stop[0].at = "launch" /\ stop' = [stop EXCEPT ![0] = Idle]
        /\ UNCHANGED <<open, session>>
    BY <1>1, LaunchDoes DEF LaunchFacts
  <2> QED
    BY <1>0, <2>1 DEF Shape, Idle
<1>2. ASSUME NEW p \in Stoppers, Cancel(p)
      PROVE  UNCHANGED <<open, session>> /\ \A q \in Stoppers : stop'[q].held = stop[q].held
  <2>0. CancelFacts(p)
    BY <1>2, CancelDoes
  <2>1. stop' = [stop EXCEPT ![p].at = "close"] /\ UNCHANGED <<open, session>>
    BY <2>0 DEF CancelFacts
  <2> QED
    BY <1>0, <2>1 DEF StopRec
<1>3. CASE UNCHANGED <<handleVars, crossed>>
  BY <1>3 DEF handleVars
<1> QED
  BY <1>1, <1>2, <1>3, StepKinds, TestsLeaveEngine DEF vars, testVars

LEMMA OwnersKept == TypeOK /\ Shape /\ Owners /\ [Next]_vars => Owners'
<1> SUFFICES ASSUME TypeOK, Shape, Owners, [Next]_vars PROVE Owners'
  OBVIOUS
<1>0. 0 \in Stoppers /\ Sessions \subseteq Stoppers /\ stop \in [Stoppers -> StopRec]
  BY BoundsAssumption DEF TypeOK, StopRec, Stoppers, Sessions
<1>1. CASE CallStop \/ CallStart \/ OpenFails
  <2>1. /\ UNCHANGED <<open, session>>
        /\ \/ stop' = [stop EXCEPT ![0].at = "take"]
           \/ stop' = [stop EXCEPT ![0].at = "idle"]
    BY <1>1, Zenon DEF CallStop, CallStart, OpenFails, Moves
  <2> QED
    BY <1>0, <2>1 DEF Owners, StopRec
<1>2. CASE OpenRstFails
  BY <1>0, <1>2 DEF OpenRstFails, Owners, Idle
<1>3. CASE Publish
  BY <1>0, <1>3 DEF Publish, Owners, Shape
<1>4. ASSUME NEW h \in Handles, Open(h) PROVE Owners'
  <2>1. /\ stop[0].at = "open" /\ h \notin open /\ open' = open \cup {h}
        /\ stop' = [stop EXCEPT ![0] = [at |-> "open2", held |-> {h}]] /\ session' = session
    BY <1>4 DEF Open
  <2>2. stop[0].held = {}
    BY <1>0, <2>1 DEF Shape
  <2> QED
    BY <1>0, <2>1, <2>2 DEF Owners
<1>5. ASSUME NEW h \in Handles, OpenRst(h) PROVE Owners'
  BY <1>0, <1>5 DEF OpenRst, Owners
<1>6. ASSUME NEW p \in Stoppers, Take(p) PROVE Owners'
  BY <1>0, <1>6 DEF Take, Owners, Shape
<1>7. ASSUME NEW p \in Stoppers, Close(p) PROVE Owners'
  <2>1. /\ open' = open \ stop[p].held /\ session' = session
        /\ \/ stop' = [stop EXCEPT ![p] = Idle]
           \/ stop' = [stop EXCEPT ![p] = [at |-> "open", held |-> {}]]
    BY <1>7, Zenon DEF Close
  <2> QED
    BY <1>0, <2>1 DEF Owners, Idle
<1>8. ASSUME NEW n \in Sessions, LoopFails(n) \/ LoopEnds(n) PROVE Owners'
  <2>1. UNCHANGED <<open, session>> /\ (stop' = stop \/ stop' = [stop EXCEPT ![n].at = "take"])
    BY <1>8 DEF LoopFails, LoopEnds, Moves
  <2> QED
    BY <1>0, <2>1 DEF Owners, StopRec
<1>9. CASE ~EngineStep
  BY <1>9, OwnersFrame DEF Owners
<1> QED
  BY <1>1, <1>2, <1>3, <1>4, <1>5, <1>6, <1>7, <1>8, <1>9 DEF EngineStep

LEMMA ReadersKept == TypeOK /\ Shape /\ Owners /\ Readers /\ [Next]_vars => Readers'
<1> SUFFICES ASSUME TypeOK, Shape, Owners, Readers, [Next]_vars PROVE Readers'
  OBVIOUS
<1>0. /\ 0 \in Stoppers /\ Sessions \subseteq Stoppers /\ stop \in [Stoppers -> StopRec]
      /\ 0 \notin Sessions
      /\ loop \in [Sessions -> LoopRec] /\ sessions \in Nat /\ sessions <= MaxSessions
      /\ MaxSessions \in Nat
  BY BoundsAssumption DEF TypeOK, StopRec, LoopRec, Stoppers, Sessions
<1>1. CASE CallStop \/ CallStart \/ OpenFails
  <2>1. /\ UNCHANGED <<session, sessions, loop>>
        /\ \/ stop[0].at = "idle" /\ stop' = [stop EXCEPT ![0].at = "take"]
           \/ stop[0].at = "open" /\ stop' = [stop EXCEPT ![0].at = "idle"]
    BY <1>1, Zenon DEF CallStop, CallStart, OpenFails, Moves
  <2> QED
    BY <1>0, <2>1 DEF Readers, Shape, StopRec
<1>2. CASE OpenRstFails
  BY <1>0, <1>2 DEF OpenRstFails, Readers, Idle, Shape
<1>3. CASE Publish
  BY <1>0, <1>3 DEF Publish, Readers, Shape
<1>4. ASSUME NEW h \in Handles, Open(h) PROVE Readers'
  <2>1. sessions + 1 \in Sessions
    BY <1>0, <1>4 DEF Open, Shape, Sessions
  <2> QED
    BY <1>0, <1>4, <2>1 DEF Open, Readers, Shape
<1>5. ASSUME NEW h \in Handles, OpenRst(h) PROVE Readers'
  BY <1>0, <1>5 DEF OpenRst, Readers, Shape
<1>6. ASSUME NEW p \in Stoppers, Take(p) PROVE Readers'
  BY <1>0, <1>6 DEF Take, Readers, Shape
<1>7. ASSUME NEW p \in Stoppers, Close(p) PROVE Readers'
  <2>1. /\ UNCHANGED <<session, sessions, loop>> /\ stop[p].at = "close"
        /\ \/ stop' = [stop EXCEPT ![p] = Idle]
           \/ p = 0 /\ stop' = [stop EXCEPT ![p] = [at |-> "open", held |-> {}]]
    BY <1>7, Zenon DEF Close
  <2> QED
    BY <1>0, <2>1 DEF Readers, Shape, Idle
<1>8. ASSUME NEW n \in Sessions, LoopFails(n) PROVE Readers'
  BY <1>0, <1>8 DEF LoopFails, Readers, LoopRec
<1>9. ASSUME NEW n \in Sessions, LoopEnds(n) PROVE Readers'
  <2>1. /\ loop[n].at = "fails" /\ loop' = [loop EXCEPT ![n] = [at |-> "gone", on |-> 0]]
        /\ UNCHANGED <<session, sessions>>
        /\ loop[n].on \in session => stop' = [stop EXCEPT ![n].at = "take"]
        /\ loop[n].on \notin session => stop' = stop
    BY <1>9 DEF LoopEnds, Moves
  <2>2. n <= sessions /\ stop[n] = Idle
    BY <1>0, <2>1 DEF Shape, Sessions
  <2>3. /\ \A m \in Stoppers : stop[m].at = "take" => stop'[m].at = "take"
        /\ stop'[0] = stop[0]
        /\ loop[n].on \in session => stop'[n].at = "take"
    BY <1>0, <2>1, <2>2 DEF Idle, StopRec
  <2>4. \A m : m # n => loop'[m] = loop[m]
    BY <1>0, <2>1
  <2>5. n # sessions + 1
    BY <1>0, <2>2 DEF Sessions
  <2> QED
    BY <1>0, <2>1, <2>3, <2>4, <2>5 DEF Readers
<1>10. CASE Launch
  <2>0. LaunchFacts
    BY <1>10, LaunchDoes
  <2>1. /\ stop[0].at = "launch" /\ sessions' = sessions + 1
        /\ loop' = [loop EXCEPT ![sessions + 1].at = "reads"]
        /\ stop' = [stop EXCEPT ![0] = Idle]
        /\ UNCHANGED session
    BY <2>0, Zenon DEF LaunchFacts
  <2>2. sessions + 1 \in Sessions
    BY <1>0, <2>1 DEF Shape, Sessions
  <2> QED
    BY <1>0, <2>1, <2>2 DEF Readers, Idle, LoopRec
<1>11. ASSUME NEW p \in Stoppers, Cancel(p) PROVE Readers'
  <2>0. CancelFacts(p)
    BY <1>11, CancelDoes
  <2>1. /\ stop[p].at = "cancel" /\ stop' = [stop EXCEPT ![p].at = "close"]
        /\ UNCHANGED <<session, sessions, loop>>
    BY <2>0 DEF CancelFacts
  <2> QED
    BY <1>0, <2>1 DEF Readers
<1>12. CASE UNCHANGED <<handleVars, crossed>>
  BY <1>12 DEF handleVars, Readers
<1> QED
  BY <1>1, <1>2, <1>3, <1>4, <1>5, <1>6, <1>7, <1>8, <1>9, <1>10, <1>11, <1>12, StepKinds,
     TestsLeaveEngine DEF EngineStep, vars, testVars


LEMMA StaleKept == TypeOK /\ Shape /\ Stale /\ [Next]_vars => Stale'
<1> SUFFICES ASSUME TypeOK, Shape, Stale, [Next]_vars PROVE Stale'
  OBVIOUS
<1>0. test \in [Sessions -> TestRec] /\ sessions \in Nat
  BY BoundsAssumption DEF TypeOK, TestRec
<1>1. CASE EngineStep
  BY <1>1, EngineLeavesTests DEF testVars, Stale
<1>2. CASE Launch
  <2>0. LaunchFacts
    BY <1>2, LaunchDoes
  <2>1. ASSUME NEW n \in Sessions, n # sessions + 1
        PROVE  /\ test'[n].late = test[n].late /\ test'[n].at = test[n].at
               /\ ~test'[n].current
    <3>1. test[n] \in TestRec
      BY <1>0
    <3>2. test'[n] = [test[n] EXCEPT !.current = FALSE]
      BY <2>0, <2>1, Zenon DEF LaunchFacts
    <3> QED
      BY <3>1, <3>2 DEF TestRec
  <2>2. ASSUME NEW n \in Sessions, n = sessions + 1
        PROVE  test'[n].late = 0
    <3>1. test[n] \in TestRec
      BY <1>0
    <3>2. test'[n] = [test[n] EXCEPT !.at = "begin", !.current = TRUE]
      BY <2>0, <2>2, Zenon DEF LaunchFacts
    <3>3. test'[n].late = test[n].late
      BY <3>1, <3>2, Zenon DEF TestRec
    <3> QED
      BY <1>0, <2>2, <3>3 DEF Shape
  <2> QED
    BY <2>1, <2>2 DEF Stale
<1>3. ASSUME NEW p \in Stoppers, Cancel(p) PROVE Stale'
  <2>0. CancelFacts(p)
    BY <1>3, CancelDoes
  <2>1. ASSUME NEW n \in Sessions
        PROVE  /\ test'[n].late = test[n].late /\ test'[n].at = test[n].at
               /\ ~test'[n].current
    <3>1. test[n] \in TestRec
      BY <1>0
    <3> QED
      BY <2>0, <3>1 DEF CancelFacts, TestRec
  <2> QED
    BY <2>1 DEF Stale
<1>4. ASSUME NEW n \in Sessions, TestStep(n) PROVE Stale'
  <2>1. \A m \in Sessions : m # n => test'[m] = test[m]
    BY <1>4, TestRecords
  <2>2. test'[n].current = test[n].current
    BY <1>4, TestRecords
  <2>3. test[n] \in TestRec
    BY <1>0
  <2>4. CASE TestStores(n)
    <3>1. /\ test[n].at = "store"
          /\ test' = [test EXCEPT ![n] = [test[n] EXCEPT !.at = "probe",
                        !.late = IF test[n].current THEN test[n].late ELSE test[n].late + 1]]
      BY <1>0, <2>3, <2>4 DEF TestStores, Test
    <3>2. test[n].late = 0
      BY <3>1 DEF Stale
    <3>3. test'[n].at = "probe"
      BY <1>0, <2>3, <3>1 DEF TestRec
    <3>4. test'[n].late = IF test[n].current THEN test[n].late ELSE test[n].late + 1
      BY <1>0, <2>3, <3>1, Zenon DEF TestRec
    <3>5. test[n].current => test'[n].late = 0
      BY <3>2, <3>4
    <3>6. ~test[n].current => test'[n].late = 1
      BY <3>2, <3>4
    <3> QED
      BY <2>1, <2>2, <3>3, <3>5, <3>6 DEF Stale
  <2>5. CASE ~TestStores(n)
    <3>1. /\ test'[n].late = test[n].late
          /\ test'[n].at \in {"probe", "check", "set", "end", "over"} \/ test'[n].at = "store"
          /\ test'[n].at = "store" => test[n].at = "check" /\ test[n].current
      <4>1. CASE TestBegins(n)
        BY <1>0, <2>3, <4>1 DEF TestBegins, Test, TestRec
      <4>2. CASE TestChecks(n)
        BY <1>0, <2>3, <4>2 DEF TestChecks, Test, TestRec
      <4>3. CASE ProbeSucceeds(n)
        <5>1. PICK s \in InForce : test' = [test EXCEPT ![n] = Succeeds(n, s)]
          BY <4>3, SucceedsDoes
        <5> QED
          BY <1>0, <2>3, <5>1 DEF TestRec, Succeeds
      <4>4. CASE ProbeFails(n)
        BY <1>0, <2>3, <4>4 DEF ProbeFails, Test, TestRec
      <4>5. CASE TestSets(n)
        BY <1>0, <2>3, <4>5 DEF TestSets, Test, TestRec
      <4>6. CASE TestEnds(n)
        BY <1>0, <2>3, <4>6 DEF TestEnds, Test, TestRec
      <4> QED
        BY <1>4, <2>5, <4>1, <4>2, <4>3, <4>4, <4>5, <4>6 DEF TestStep
    <3> QED
      BY <2>1, <2>2, <3>1 DEF Stale
  <2> QED
    BY <2>4, <2>5
<1>5. CASE UNCHANGED vars
  BY <1>5 DEF vars, testVars, Stale
<1> QED
  BY <1>1, <1>2, <1>3, <1>4, <1>5, StepKinds

\* A session the engine leaves published had been launched.
LEMMA EngineKeepsSession ==
    ASSUME TypeOK, Shape, EngineStep, session' # {}, stop'[0].at # "launch"
    PROVE  UNCHANGED <<session, sessions>> /\ stop[0].at # "launch"
<1>0. 0 \in Stoppers /\ 0 \notin Sessions /\ Sessions \subseteq Stoppers /\ stop \in [Stoppers -> StopRec]
  BY BoundsAssumption DEF TypeOK, StopRec, Stoppers, Sessions
<1>1. CASE CallStop \/ CallStart \/ OpenFails
  <2>1. /\ UNCHANGED <<session, sessions>> /\ stop[0].at \in {"idle", "open"}
    BY <1>1, Zenon DEF CallStop, CallStart, OpenFails
  <2> QED
    BY <2>1
<1>2. CASE OpenRstFails \/ Publish
  BY <1>0, <1>2 DEF OpenRstFails, Publish
<1>3. ASSUME NEW h \in Handles, Open(h) \/ OpenRst(h)
      PROVE  UNCHANGED <<session, sessions>> /\ stop[0].at # "launch"
  BY <1>3 DEF Open, OpenRst
<1>4. ASSUME NEW p \in Stoppers, Take(p)
      PROVE  UNCHANGED <<session, sessions>> /\ stop[0].at # "launch"
  BY <1>4 DEF Take
<1>5. ASSUME NEW p \in Stoppers, Close(p)
      PROVE  UNCHANGED <<session, sessions>> /\ stop[0].at # "launch"
  <2>1. /\ UNCHANGED <<session, sessions>> /\ stop[p].at = "close"
        /\ \/ stop' = [stop EXCEPT ![p] = Idle]
           \/ p = 0 /\ stop' = [stop EXCEPT ![p] = [at |-> "open", held |-> {}]]
    BY <1>5, Zenon DEF Close
  <2> QED
    BY <1>0, <2>1
<1>6. ASSUME NEW n \in Sessions, LoopFails(n) \/ LoopEnds(n)
      PROVE  UNCHANGED <<session, sessions>> /\ stop[0].at # "launch"
  <2>1. /\ UNCHANGED <<session, sessions>>
        /\ stop' = stop \/ stop' = [stop EXCEPT ![n].at = "take"]
    BY <1>6 DEF LoopFails, LoopEnds, Moves
  <2> QED
    BY <1>0, <2>1
<1> QED
  BY <1>1, <1>2, <1>3, <1>4, <1>5, <1>6 DEF EngineStep

LEMMA LaunchUncrossed ==
    ASSUME Launch, ~crossed'
    PROVE  \A n \in 1..sessions : test[n].at = "over"
<1>1. crossed' = \E n \in 1..sessions : test[n].at # "over"
  BY Zenon DEF Launch
<1> QED
  BY <1>1, Zenon

LEMMA CancelCrosses ==
    ASSUME NEW p, Cancel(p), ~crossed'
    PROVE  session' = {}
<1>1. crossed' = (crossed \/ session # {}) /\ session' = session
  BY Zenon DEF Cancel
<1> QED
  BY <1>1, Zenon

LEMMA SettledKept == TypeOK /\ Shape /\ Owners /\ Readers /\ Settled /\ [Next]_vars => Settled'
<1> SUFFICES ASSUME TypeOK, Shape, Owners, Readers, Settled, [Next]_vars,
                    session' # {}, stop'[0].at # "launch", ~crossed'
             PROVE  Settled'
  BY DEF Settled
<1>0. test \in [Sessions -> TestRec] /\ sessions \in Nat /\ 0 \in Stoppers
  BY BoundsAssumption DEF TypeOK, TestRec, Stoppers
<1>1. CASE EngineStep
  <2>1. UNCHANGED testVars
    BY <1>1, EngineLeavesTests
  <2>2. UNCHANGED <<session, sessions>> /\ stop[0].at # "launch"
    BY <1>1, EngineKeepsSession
  <2> QED
    BY <2>1, <2>2, Zenon DEF testVars, Settled
<1>2. CASE Launch
  <2>0. LaunchFacts
    BY <1>2, LaunchDoes
  <2>1. \A n \in 1..sessions : test[n].at = "over"
    BY <1>2, LaunchUncrossed
  <2>2. stop[0].at = "launch" /\ sessions' = sessions + 1
    BY <2>0, Zenon DEF LaunchFacts
  <2>3. sessions + 1 \in Sessions
    BY <1>0, <2>2, BoundsAssumption DEF Shape, Sessions
  <2>4. \A n \in 1..(sessions' - 1) : test'[n].at = "over"
    <3> SUFFICES ASSUME NEW n \in 1..(sessions' - 1) PROVE test'[n].at = "over"
      OBVIOUS
    <3>1. n \in 1..sessions /\ n \in Sessions /\ n # sessions + 1
      BY <1>0, <2>2, <2>3, BoundsAssumption DEF Sessions
    <3>2. test'[n] = [test[n] EXCEPT !.current = FALSE]
      BY <2>0, <3>1, Zenon DEF LaunchFacts
    <3>3. test[n] \in TestRec
      BY <1>0, <3>1
    <3> QED
      BY <2>1, <3>1, <3>2, <3>3 DEF TestRec
  <2>5. test'[sessions'].at = "begin" /\ test'[sessions'].current
    <3>1. test[sessions + 1] \in TestRec
      BY <1>0, <2>3
    <3>2. test'[sessions + 1] = [test[sessions + 1] EXCEPT !.at = "begin", !.current = TRUE]
      BY <2>0, <2>3, Zenon DEF LaunchFacts
    <3> QED
      BY <2>2, <3>1, <3>2, Zenon DEF TestRec
  <2>6. sessions' > 0
    BY <1>0, <2>2
  <2> QED
    BY <2>4, <2>5, <2>6 DEF Settled
<1>3. ASSUME NEW p \in Stoppers, Cancel(p) PROVE Settled'
  BY <1>3, CancelCrosses
<1>4. ASSUME NEW n \in Sessions, TestStep(n) PROVE Settled'
  <2>0. UNCHANGED <<handleVars, crossed>>
    BY <1>4, TestsLeaveEngine
  <2>1. /\ session # {} /\ stop[0].at # "launch" /\ ~crossed
        /\ UNCHANGED <<session, sessions, stop>>
    BY <2>0 DEF handleVars
  <2>2. sessions > 0 /\ (\A m \in 1..(sessions - 1) : test[m].at = "over")
    BY <2>1 DEF Settled
  <2>3. n = sessions
    <3>1. test[n].at \notin {"none", "over"}
      BY <1>4, TestRecords
    <3> QED
      BY <1>0, <2>2, <3>1 DEF Shape, Sessions
  <2>4. /\ \A m \in Sessions : m # n => test'[m] = test[m]
        /\ test'[n].current = test[n].current
    BY <1>4, TestRecords
  <2>5. \A m \in 1..(sessions - 1) : test'[m].at = "over"
    BY <1>0, <2>2, <2>3, <2>4, BoundsAssumption DEF Sessions
  <2>6. LET t == test[n] IN
        /\ t.current
        /\ t.at \in {"check", "store", "probe", "set"} => probing
        /\ t.at = "probe" => strategy = t.try
        /\ t.at = "set" => t.choice # 0 /\ t.choice \in {1, t.proven}
        /\ t.at \in {"end", "over"} => strategy # 0 /\ strategy \in {1, t.proven}
    BY <2>1, <2>3 DEF Settled
  <2>7. test[n] \in TestRec
    BY <1>0
  <2> DEFINE Good ==
        LET t == test[n]' IN
        /\ t.at # "none"
        /\ t.at \in {"check", "store", "probe", "set"} => probing'
        /\ t.at = "probe" => strategy' = t.try
        /\ t.at = "set" => t.choice # 0 /\ t.choice \in {1, t.proven}
        /\ t.at \in {"end", "over"} => strategy' # 0 /\ strategy' \in {1, t.proven}
  <2>8. Good
    <3>1. CASE TestBegins(n)
      BY <1>0, <2>7, <3>1 DEF TestBegins, Test, TestRec
    <3>2. CASE TestChecks(n)
      <4>1. /\ test[n].at = "check" /\ UNCHANGED <<probing, strategy>>
            /\ test' = [test EXCEPT ![n] = [test[n] EXCEPT !.at = IF test[n].current
                                                                 THEN "store" ELSE "end"]]
        BY <3>2, Zenon DEF TestChecks, Test
      <4>2. test'[n].at = "store" /\ probing'
        BY <1>0, <2>6, <2>7, <4>1, Zenon DEF TestRec
      <4> QED
        BY <4>2
    <3>3. CASE TestStores(n)
      BY <1>0, <2>6, <2>7, <3>3 DEF TestStores, Test, TestRec
    <3>4. CASE ProbeSucceeds(n)
      <4>1. /\ test[n].at = "probe" /\ UNCHANGED <<probing, strategy>>
            /\ session # {} => \E m \in Sessions : Reads(m)
        BY <3>4, Zenon DEF ProbeSucceeds, Test
      <4>2. PICK s \in InForce : test' = [test EXCEPT ![n] = Succeeds(n, s)]
        BY <3>4, SucceedsDoes
      <4>3. probing /\ strategy = test[n].try
        BY <2>6, <4>1
      <4>4. s = strategy
        BY <2>1, <4>1, <4>3 DEF InForce
      <4>5. test'[n] = Succeeds(n, s)
        BY <1>0, <4>2, Zenon
      <4>6. test[n].try \in Nat
        BY <2>7, BoundsAssumption DEF TestRec
      <4> QED
        BY <2>7, <4>1, <4>3, <4>4, <4>5, <4>6 DEF Succeeds, TestRec
    <3>5. CASE ProbeFails(n)
      BY <1>0, <2>6, <2>7, <3>5 DEF ProbeFails, Test, TestRec
    <3>6. CASE TestSets(n)
      BY <1>0, <2>6, <2>7, <3>6 DEF TestSets, Test, TestRec
    <3>7. CASE TestEnds(n)
      BY <1>0, <2>6, <2>7, <3>7 DEF TestEnds, Test, TestRec
    <3> QED
      BY <1>4, <3>1, <3>2, <3>3, <3>4, <3>5, <3>6, <3>7 DEF TestStep
  <2>9. test'[n].current
    BY <2>4, <2>6
  <2> QED
    BY <2>1, <2>2, <2>3, <2>5, <2>8, <2>9 DEF Settled
<1>5. CASE UNCHANGED vars
  BY <1>5, Zenon DEF vars, handleVars, testVars, Settled
<1> QED
  BY <1>1, <1>2, <1>3, <1>4, <1>5, StepKinds

----------------------------------------------------------------------------

LEMMA DivertInvariance == Spec => []DivertInv
<1>1. DivertInv /\ [Next]_vars => DivertInv'
  BY TypesKept, ShapeKept, OwnersKept, ReadersKept, StaleKept, SettledKept DEF DivertInv
<1> QED
  BY DivertInit, <1>1, PTL DEF Spec

\* Every step of every goroutine keeps the types of the state.
THEOREM DivertTypes == Spec => []TypeOK
<1>1. DivertInv => TypeOK
  BY DEF DivertInv
<1> QED
  BY DivertInvariance, <1>1, PTL

\* However many sessions there have been and however WinDivert reuses the values of
\* handles: every open handle is published or with exactly one goroutine, so that
\* stopDivert leaks none and closes none that is another session's.
THEOREM EveryHandleHasOneOwner == Spec => []OneOwner
<1>1. DivertInv => OneOwner
  <2> SUFFICES ASSUME DivertInv PROVE OneOwner
    OBVIOUS
  <2>1. Owners
    BY DEF DivertInv
  <2>2. \A h \in Held : h \in open
    BY <2>1 DEF Held, Owners
  <2>3. \A h \in open : h \in session \cup Held
    BY <2>1 DEF Held, Owners
  <2>4. open = session \cup Held
    BY <2>1, <2>2, <2>3 DEF Owners
  <2>5. \A p \in Stoppers : stop[p].held \cap session = {}
    BY <2>1 DEF Owners
  <2> QED
    BY <2>1, <2>4, <2>5 DEF OneOwner, Owners
<1> QED
  BY DivertInvariance, <1>1, PTL

\* A published session that divertLoop no longer reads is about to be closed.
THEOREM SessionsAreRead == Spec => []SessionIsRead
<1>1. DivertInv => SessionIsRead
  BY DEF DivertInv, Readers, SessionIsRead
<1> QED
  BY DivertInvariance, <1>1, PTL

\* A test whose generation is over stores at most one more strategy to try.
THEOREM StaleTestsStop == Spec => []StaleTestTriesOnce
<1>1. DivertInv => StaleTestTriesOnce
  BY DEF DivertInv, Stale, StaleTestTriesOnce
<1> QED
  BY DivertInvariance, <1>1, PTL

\* A test that no other session crosses leaves the strategy it found, or the default.
THEOREM TestsSettle == Spec => []SettledStrategy
<1>1. DivertInv => SettledStrategy
  BY DEF DivertInv, Settled, SettledStrategy
<1> QED
  BY DivertInvariance, <1>1, PTL

----------------------------------------------------------------------------
(***************************************************************************)
(* DivertTraffic, for any number of hosts, ports and goroutines.           *)
(***************************************************************************)

\* A goroutine that confirms something has the name of a host.
Confirming == \A c \in Confirmers : confirm[c].at # "idle" => confirm[c].sni \in Names

\* Queries under way since the addresses were cleared are for hosts that may be
\* remembered when they are answered.
Remembered ==
    /\ AddressesAreListed
    /\ \A h \in Names : <<h, "fresh">> \in asking => h \in list \cup excused

\* What is measured belongs to the connection from its first packet on, until its port
\* has another's; and the fake of an earlier one is forgotten with it.
Measured ==
    /\ MeasuredHere
    /\ \A e \in Ends :
          /\ conn[e] = None => faked[e] = None
          /\ conn[e] # None /\ e \notin blind \cup overtaken => synackTTL[Port(e)] = conn[e]

TrafficInv == TrafficTypeOK /\ Confirming /\ Remembered /\ Measured /\ OneProber

EngineActs == Start \/ StopClears \/ StopCloses
ListActs == \E h \in Names : EditList(h) \/ Query(h) \/ \E when \in {"fresh", "late"} : Answer(h, when)
EndActs(e) == HelloListed(e) \/ HelloUnlisted(e) \/ HangUp(e) \/ \E h \in Names : SynAck(e, h)
LateActs == \E p \in Ports, h \in Names : LateSynAck(p, h)
ConfirmActs(c) == Confirm(c) \/ \E p \in Ports : Reset(p, c)

\* The steps by what they work on.
LEMMA TrafficSteps ==
    ASSUME TrafficNext
    PROVE  EngineActs \/ ListActs \/ (\E e \in Ends : EndActs(e)) \/ LateActs
           \/ \E c \in Confirmers : ConfirmActs(c)
BY DEF TrafficNext, EngineActs, ListActs, EndActs, LateActs, ConfirmActs

\* Sessions and what stopDivert clears.
LEMMA EngineActsKeep ==
    ASSUME TrafficInv, EngineActs
    PROVE  TrafficInv'
<1>1. UNCHANGED <<list, portVars, confirming, confirm>> /\ engine' \in {"open", "cleared", "closed"}
  BY DEF EngineActs, Start, StopClears, StopCloses
<1>2. \/ blocked' = {} /\ excused' = {} /\ asking' = {<<q[1], "late">> : q \in asking}
      \/ UNCHANGED <<blocked, asking, excused>>
  BY DEF EngineActs, Start, StopClears, StopCloses, ClearIPs
<1>3. TrafficTypeOK'
  BY <1>1, <1>2 DEF TrafficInv, TrafficTypeOK, portVars
<1>4. Remembered'
  BY <1>1, <1>2 DEF TrafficInv, Remembered, AddressesAreListed
<1>5. Confirming' /\ Measured' /\ OneProber'
  BY <1>1 DEF TrafficInv, Confirming, Measured, MeasuredHere, OneProber, portVars
<1> QED
  BY <1>3, <1>4, <1>5 DEF TrafficInv

\* The list and the DNS queries.
LEMMA ListActsKeep ==
    ASSUME TrafficInv, ListActs
    PROVE  TrafficInv'
<1>1. UNCHANGED <<engine, portVars, confirming, confirm>>
  BY DEF ListActs, EditList, Query, Answer
<1>2. PICK h \in Names : EditList(h) \/ Query(h) \/ \E when \in {"fresh", "late"} : Answer(h, when)
  BY DEF ListActs
<1>3. TrafficTypeOK'
  BY <1>1, <1>2 DEF TrafficInv, TrafficTypeOK, portVars, EditList, Query, Answer
<1>4. Remembered'
  <2>1. CASE EditList(h)
    BY <2>1 DEF EditList, TrafficInv, Remembered, AddressesAreListed
  <2>2. CASE Query(h)
    BY <2>2 DEF Query, TrafficInv, Remembered, AddressesAreListed
  <2>3. CASE \E when \in {"fresh", "late"} : Answer(h, when)
    BY <2>3 DEF Answer, TrafficInv, Remembered, AddressesAreListed
  <2> QED
    BY <1>2, <2>1, <2>2, <2>3
<1>5. Confirming' /\ Measured' /\ OneProber'
  BY <1>1 DEF TrafficInv, Confirming, Measured, MeasuredHere, OneProber, portVars
<1> QED
  BY <1>3, <1>4, <1>5 DEF TrafficInv

\* An end has the number of a port.
LEMMA PortOfEnd == ASSUME NEW e \in Ends PROVE Port(e) \in Ports
BY DEF Ends, Port

\* The packets of a connection.
LEMMA EndActsKeep ==
    ASSUME TrafficInv, NEW e \in Ends, EndActs(e)
    PROVE  TrafficInv'
<1>1. UNCHANGED <<list, tableVars, confirming, confirm>>
  BY DEF EndActs, HelloListed, HelloUnlisted, HangUp, SynAck
<1>2. Confirming' /\ Remembered' /\ OneProber'
  BY <1>1 DEF TrafficInv, Confirming, Remembered, AddressesAreListed, OneProber, tableVars
<1>3. TrafficTypeOK'
  BY <1>1, PortOfEnd DEF EndActs, HelloListed, HelloUnlisted, HangUp, SynAck, Live, TrafficInv,
              TrafficTypeOK, tableVars
<1>4. Measured'
  BY PortOfEnd DEF EndActs, HelloListed, HelloUnlisted, HangUp, SynAck, Live, TrafficInv,
         TrafficTypeOK, Measured, MeasuredHere
<1> QED
  BY <1>2, <1>3, <1>4 DEF TrafficInv

\* A SYN-ACK that no connection waits for.
LEMMA LateActsKeep ==
    ASSUME TrafficInv, LateActs
    PROVE  TrafficInv'
<1>1. /\ UNCHANGED <<list, tableVars, confirming, confirm>>
      /\ UNCHANGED <<conn, faked, recentCH, blind>>
  BY DEF LateActs, LateSynAck
<1>2. Confirming' /\ Remembered' /\ OneProber'
  BY <1>1 DEF TrafficInv, Confirming, Remembered, AddressesAreListed, OneProber, tableVars
<1>3. TrafficTypeOK'
  BY <1>1 DEF LateActs, LateSynAck, Live, TrafficInv, TrafficTypeOK, tableVars
<1>4. Measured'
  BY <1>1, PortOfEnd DEF LateActs, LateSynAck, Live, TrafficInv, TrafficTypeOK, Measured,
         MeasuredHere
<1> QED
  BY <1>2, <1>3, <1>4 DEF TrafficInv

\* Resets and the goroutines they start.
LEMMA ConfirmActsKeep ==
    ASSUME TrafficInv, NEW c \in Confirmers, ConfirmActs(c)
    PROVE  TrafficInv'
<1> USE DEF Confirm, ConfirmActs, Reset, ConfirmBegins, PlainProbe, BypassProbe, ConfirmEnds, Goto
<1>1. UNCHANGED <<conn, synackTTL, faked, blind, overtaken, tableVars>> /\ list \subseteq list'
  BY DEF portVars
<1>2. Remembered' /\ Measured'
  BY <1>1 DEF TrafficInv, Measured, MeasuredHere, Remembered, AddressesAreListed, tableVars
<1>3. TrafficTypeOK'
  BY <1>1 DEF TrafficInv, TrafficTypeOK, Confirming, portVars, tableVars, NoProbe
<1>4. Confirming'
  BY DEF TrafficInv, TrafficTypeOK, Confirming, NoProbe
<1>5. OneProber'
  BY DEF TrafficInv, TrafficTypeOK, OneProber, NoProbe
<1> QED
  BY <1>2, <1>3, <1>4, <1>5 DEF TrafficInv

\* The inductive invariant.
LEMMA TrafficSound == TrafficSpec => []TrafficInv
<1>1. TrafficInit => TrafficInv
  BY DEF TrafficInit, TrafficInv, TrafficTypeOK, Confirming, Remembered, AddressesAreListed,
         Measured, MeasuredHere, OneProber, NoProbe
<1>2. TrafficInv /\ [TrafficNext]_trafficVars => TrafficInv'
  <2> SUFFICES ASSUME TrafficInv, [TrafficNext]_trafficVars PROVE TrafficInv'
    OBVIOUS
  <2>1. CASE TrafficNext
    BY <2>1, TrafficSteps, EngineActsKeep, ListActsKeep, EndActsKeep, LateActsKeep,
       ConfirmActsKeep
  <2>2. CASE UNCHANGED trafficVars
    BY <2>2 DEF trafficVars, TrafficInv, TrafficTypeOK, Confirming, Remembered,
                AddressesAreListed, Measured, MeasuredHere, OneProber
  <2> QED
    BY <2>1, <2>2
<1> QED
  BY <1>1, <1>2, PTL DEF TrafficSpec

\* Every packet, query, probe and session keeps the types of the tables.
THEOREM TrafficTypes == TrafficSpec => []TrafficTypeOK
<1>1. TrafficInv => TrafficTypeOK
  BY DEF TrafficInv
<1> QED
  BY TrafficSound, <1>1, PTL

\* Whatever the order of queries, their answers, edits of the list and sessions: an
\* address is treated only while its host is on the list, or for one of the two
\* reasons that excused names (handleDivertDNS, stopDivert).
THEOREM OnlyListedAddresses == TrafficSpec => []AddressesAreListed
<1>1. TrafficInv => AddressesAreListed
  BY DEF TrafficInv, Remembered
<1> QED
  BY TrafficSound, <1>1, PTL

\* However ports are reused and shared by local addresses, and sessions come and go in
\* between, the fake hello of a connection has a TTL measured on it, unless it began while
\* no session was open, or another's SYN-ACK has come to its port since (synackTTL).
THEOREM MeasuredOnConnection == TrafficSpec => []MeasuredHere
<1>1. TrafficInv => MeasuredHere
  BY DEF TrafficInv, Measured
<1> QED
  BY TrafficSound, <1>1, PTL

\* However many resets come from however many ports: one goroutine probes a host, and
\* no mark outlives it (confirmBlocked).
THEOREM OneProberEach == TrafficSpec => []OneProber
<1>1. TrafficInv => OneProber
  BY DEF TrafficInv
<1> QED
  BY TrafficSound, <1>1, PTL

====
