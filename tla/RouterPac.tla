---- MODULE RouterPac ----
(***************************************************************************)
(* The PAC file a router serves for the phones of the network: the pushes  *)
(* and heartbeats the program sends it (pac.go, router.go) and the scripts *)
(* it answers with (router_setup.go).                                      *)
(*                                                                         *)
(* A body or a proxy address is named by the start that produced it.  Time *)
(* advances in ticks of ten seconds, the period of the heartbeat; a push   *)
(* may take any time, because each of its attempts can time out.           *)
(***************************************************************************)
EXTENDS Naturals

CONSTANTS
    MaxGen,     \* bound on the number of successful starts
    Tries,      \* attempts of a push
    MaxMissed   \* how many heartbeats in a row the network may lose

ASSUME MaxGenAssumption == MaxGen \in Nat
ASSUME TriesAssumption == Tries \in Nat \ {0}

VARIABLES
    running,    \* a.running
    gen,        \* a.gen
    hbStop,     \* hbStop of router.go: the heartbeat goroutine it stops, or 0
    beating,    \* the heartbeat goroutines that have not returned
    told,       \* those whose stop channel is closed
    due,        \* those that have not sent the heartbeat of this tick
    pushes,     \* the pushes under way
    confirmed,  \* the starts whose stop the router has confirmed and whose proxy is to be closed
    pacJs,      \* /tmp/lunaproxy_pac_js on the router: whose body, or 0 if there is none
    px,         \* /tmp/lunaproxy_proxy on the router: whose address, or 0
    age,        \* ticks since /tmp/lunaproxy_hb was written
    missed,     \* heartbeats lost since one arrived
    heard,      \* history: lunaproxy_hb was written since the last start
    arrived,    \* history: the last start's own body was stored on the router
    overtaken   \* history: after that, so was the body of an earlier start

app == <<running, gen, hbStop, told, confirmed>>
routerVars == <<pacJs, px, age>>
bodies == <<arrived, overtaken>>
vars == <<app, beating, due, pushes, routerVars, missed, heard, bodies>>

Gens == 1..MaxGen
Expired == 3            \* 30 seconds

ASSUME MaxMissedAssumption == MaxMissed \in Nat /\ MaxMissed + 1 < Expired

Kinds == {"body", "proxy", "direct"}
Pushes == [kind : Kinds, gen : Gens, left : 1..Tries]

TypeOK ==
    /\ running \in BOOLEAN
    /\ gen \in 0..MaxGen
    /\ hbStop \in 0..MaxGen
    /\ beating \subseteq Gens /\ told \subseteq beating /\ due \subseteq beating
    /\ pushes \subseteq Pushes
    /\ confirmed \subseteq Gens
    /\ pacJs \in 0..MaxGen
    /\ px \in 0..MaxGen
    /\ age \in 0..Expired
    /\ missed \in 0..MaxMissed
    /\ heard \in BOOLEAN /\ arrived \in BOOLEAN /\ overtaken \in BOOLEAN

\* The program has just been installed on the router.
Init ==
    /\ running = FALSE
    /\ gen = 0
    /\ hbStop = 0
    /\ beating = {} /\ told = {} /\ due = {}
    /\ pushes = {}
    /\ confirmed = {}
    /\ pacJs = 0 /\ px = 0
    /\ age = Expired
    /\ missed = 0
    /\ heard = FALSE /\ arrived = FALSE /\ overtaken = FALSE

----------------------------------------------------------------------------
(* The scripts on the router *)

\* proxy.pac: whose proxy the phones are sent to; 0 stands for DIRECT.
Served == IF age = Expired THEN 0 ELSE IF pacJs # 0 THEN pacJs ELSE px

\* update_pac.sh stores the body it is sent.
update_pac(n) == pacJs' = n /\ UNCHANGED <<px, age>>

\* update.sh stores the proxy's address and counts as a heartbeat, or removes the address.
update(kind, n) ==
    \/ kind = "proxy" /\ px' = n /\ age' = 0 /\ UNCHANGED pacJs
    \/ kind = "direct" /\ px' = 0 /\ UNCHANGED <<pacJs, age>>

\* The script behind a push runs.
Serve(q) == IF q.kind = "body" THEN update_pac(q.gen) ELSE update(q.kind, q.gen)

----------------------------------------------------------------------------
(* start, stop and restart as far as the router can tell *)

Push(kind, n) == [kind |-> kind, gen |-> n, left |-> Tries]

\* Mutant: hb.sh is called once, no ticker.
startRouterHeartbeatOnce(n) ==
    /\ hbStop' = n
    /\ told' = told \cup ({hbStop, n} \ {0})
    /\ beating' = beating \cup {n}
    /\ due' = due \cup {n}

\* startRouterHeartbeat: a goroutine of its own, after telling the last to stop.
startRouterHeartbeat(n) ==
    /\ hbStop' = n
    /\ told' = told \cup ({hbStop} \ {0})
    /\ beating' = beating \cup {n}
    /\ due' = due \cup {n}

\* Mutant: the channel is forgotten, not closed.
stopRouterHeartbeatForgets ==
    /\ hbStop' = 0
    /\ UNCHANGED told

stopRouterHeartbeat ==
    /\ told' = told \cup ({hbStop} \ {0})
    /\ hbStop' = 0

\* start, past its last error: the body and the address are pushed, each by a
\* goroutine of its own.  A goroutine that stop left behind may still be at work:
\* start waits for it, unless another start does so already.
Start ==
    /\ ~running
    /\ gen < MaxGen
    /\ running' = TRUE
    /\ gen' = gen + 1
    /\ startRouterHeartbeat(gen + 1)
    /\ pushes' = pushes \cup {Push("body", gen + 1), Push("proxy", gen + 1)}
    /\ heard' = FALSE /\ arrived' = FALSE /\ overtaken' = FALSE
    /\ UNCHANGED <<confirmed, routerVars, missed>>

\* stop: the router is told by the goroutine that closes the proxy afterwards.
Stop ==
    /\ running
    /\ running' = FALSE
    /\ stopRouterHeartbeat
    /\ pushes' = pushes \cup {Push("direct", gen)}
    /\ UNCHANGED <<gen, beating, due, confirmed, routerVars, missed, heard, bodies>>

\* restart until it calls start: the router is told nothing.
RestartStops ==
    /\ running
    /\ running' = FALSE
    /\ stopRouterHeartbeat
    /\ UNCHANGED <<gen, beating, due, pushes, confirmed, routerVars, missed, heard, bodies>>

\* The program is killed or quits; it may be run again.
Crash ==
    /\ running' = FALSE
    /\ hbStop' = 0
    /\ beating' = {} /\ told' = {} /\ due' = {}
    /\ pushes' = {} /\ confirmed' = {}
    /\ UNCHANGED <<gen, routerVars, missed, heard, bodies>>

----------------------------------------------------------------------------
(* The goroutines *)

\* The attempt got no answer of status 200: the next one, if there is one left.
AttemptFails(q) ==
    pushes' = (pushes \ {q}) \cup (IF q.left > 1 THEN {[q EXCEPT !.left = @ - 1]} ELSE {})

\* The script behind a push runs, and it is noted whose body it stored.
Arrives(q) ==
    /\ Serve(q)
    /\ arrived' = (arrived \/ (q.kind = "body" /\ q.gen = gen))
    /\ overtaken' = (overtaken \/ (arrived /\ q.kind = "body" /\ q.gen # gen))

\* An attempt of a push: the script may run although its answer is lost.
Attempt(q) ==
    /\ \/ /\ Arrives(q)
          /\ pushes' = pushes \ {q}
          /\ confirmed' = confirmed \cup (IF q.kind = "direct" THEN {q.gen} ELSE {})
       \/ /\ Arrives(q) \/ UNCHANGED <<routerVars, bodies>>
          /\ AttemptFails(q)
          /\ UNCHANGED confirmed
    /\ heard' = (heard \/ age' < age)
    /\ UNCHANGED <<running, gen, hbStop, told, beating, due, missed>>

\* The grace period of a confirmed stop is over or cut short: the goroutine
\* closes the proxy.
Close(n) ==
    /\ n \in confirmed
    /\ confirmed' = confirmed \ {n}
    /\ UNCHANGED <<running, gen, hbStop, told, beating, due, pushes, routerVars, missed, heard, bodies>>

\* sendHeartbeat and hb.sh, or the heartbeat is lost.
Beat(n) ==
    /\ n \in due
    /\ due' = due \ {n}
    /\ \/ age' = 0 /\ missed' = 0 /\ heard' = TRUE
       \/ missed < MaxMissed /\ missed' = missed + 1 /\ UNCHANGED <<age, heard>>
    /\ UNCHANGED <<app, beating, pushes, pacJs, px, bodies>>

\* The goroutine finds its stop channel closed.
HbReturns(n) ==
    /\ n \in beating \cap told
    /\ beating' = beating \ {n}
    /\ due' = due \ {n}
    /\ told' = told \ {n}
    /\ UNCHANGED <<running, gen, hbStop, confirmed, pushes, routerVars, missed, heard, bodies>>

\* Ten seconds pass, and every ticker fires.
Tick ==
    /\ due = {}
    /\ due' = beating
    /\ age' = IF age = Expired THEN age ELSE age + 1
    /\ UNCHANGED <<app, beating, pushes, pacJs, px, missed, heard, bodies>>

Next ==
    \/ Start \/ Stop \/ RestartStops \/ Crash
    \/ \E q \in pushes : Attempt(q)
    \/ \E n \in Gens : Close(n) \/ Beat(n) \/ HbReturns(n)
    \/ Tick

Spec == Init /\ [][Next]_vars

\* Time passes, requests end and goroutines run; calls and crashes need not come.
FairSpec ==
    /\ Spec
    /\ WF_vars(Tick)
    /\ \A n \in Gens : WF_vars(Beat(n)) /\ WF_vars(HbReturns(n))
    /\ \A k \in Kinds, n \in Gens :
          WF_vars(\E q \in pushes : q.kind = k /\ q.gen = n /\ Attempt(q))

----------------------------------------------------------------------------
(* Properties *)

\* At most one heartbeat goroutine goes on beating, and only for a proxy that
\* runs: start, stop and restart in any order leave none behind.
OneHeartbeat == beating \ told = IF running THEN {gen} ELSE {}

\* Once the router has the body of the present run and has heard of it, its phones
\* are sent to the proxy that runs, as long as it does: heartbeats come often
\* enough for the thirty seconds proxy.pac grants, with one of them lost. The
\* exception is a body of an earlier start that comes later than this one's:
\* pushes are goroutines with retries, and nothing in pac.go orders them.
RouterKeepsProxy == running /\ heard /\ arrived /\ ~overtaken => Served = gen

\* If the proxy stays off for good, by a stop, a failed restart or a crash, the
\* router ends up sending its phones DIRECT for good, whatever pushes were late.
RouterLetsGo == <>[]~running => <>[](Served = 0)

====
