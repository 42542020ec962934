---- MODULE RouterProofs ----
(***************************************************************************)
(* Proofs about RouterPac, for any number of starts, of attempts of a push *)
(* and of heartbeats lost in a row that leaves a tick to spare: no         *)
(* heartbeat goroutine is left behind, and the phones of a running proxy   *)
(* stay on it.  At the end, proofs about RouterInstall, for any number of  *)
(* installations and reboots.  The two specifications share no names.      *)
(***************************************************************************)
EXTENDS RouterPac, RouterInstall, TLAPS

----------------------------------------------------------------------------
(* The inductive invariant *)

\* hbStop names the goroutine of the proxy that runs, and no goroutine is of a
\* start to come: only so does the channel that start or stop closes belong to
\* the one goroutine that must end.
Registered ==
    /\ hbStop = IF running THEN gen ELSE 0
    /\ \A n \in beating : n <= gen
    /\ running => gen \in Gens

HbInv == TypeOK /\ Registered /\ OneHeartbeat

\* The router's clock is behind by the heartbeats lost and the one now due.
AgeBound == running /\ heard => age <= missed + (IF gen \in due THEN 1 ELSE 0)

----------------------------------------------------------------------------
(* The scripts and the pushes *)

\* The scripts keep the types of the router's files.
LEMMA ServeTypes ==
    ASSUME NEW q \in Pushes, Serve(q), pacJs \in 0..MaxGen, px \in 0..MaxGen,
           age \in 0..Expired
    PROVE  pacJs' \in 0..MaxGen /\ px' \in 0..MaxGen /\ age' \in 0..Expired
<1>1. q.gen \in 0..MaxGen /\ 0 \in 0..MaxGen /\ 0 \in 0..Expired
  BY MaxGenAssumption DEF Pushes, Gens, Expired
<1>2. CASE q.kind = "body"
  BY <1>1, <1>2 DEF Serve, update_pac
<1>3. CASE q.kind # "body"
  <2>1. update(q.kind, q.gen)
    BY <1>3 DEF Serve
  <2>2. CASE px' = q.gen /\ age' = 0 /\ pacJs' = pacJs
    BY <1>1, <2>2
  <2>3. CASE px' = 0 /\ pacJs' = pacJs /\ age' = age
    BY <1>1, <2>3
  <2> QED BY <2>1, <2>2, <2>3 DEF update
<1> QED BY <1>2, <1>3

\* A script resets the router's clock or leaves it alone.
LEMMA ServeAge ==
    ASSUME NEW q \in Pushes, Serve(q)
    PROVE  age' = 0 \/ age' = age
<1>1. CASE q.kind = "body"
  BY <1>1 DEF Serve, update_pac
<1>2. CASE q.kind # "body"
  BY <1>2 DEF Serve, update
<1> QED BY <1>1, <1>2

\* What is left of the pushes after an attempt.
LEMMA AttemptTypes ==
    ASSUME NEW q \in pushes, pushes \subseteq Pushes,
           pushes' = pushes \ {q} \/ AttemptFails(q)
    PROVE  pushes' \subseteq Pushes
<1>1. q \in Pushes
  OBVIOUS
<1>2. q.left > 1 => [q EXCEPT !.left = @ - 1] \in Pushes
  BY <1>1, TriesAssumption DEF Pushes
<1> QED BY <1>2 DEF AttemptFails

----------------------------------------------------------------------------
(* The steps *)

\* Before the first start nothing beats.
LEMMA InitHbInv == Init => HbInv
<1> SUFFICES ASSUME Init PROVE HbInv
  OBVIOUS
<1>1. running \in BOOLEAN /\ heard \in BOOLEAN /\ arrived \in BOOLEAN /\ overtaken \in BOOLEAN
  BY DEF Init
<1>2. TypeOK
  BY <1>1, MaxGenAssumption, MaxMissedAssumption DEF Init, TypeOK, Expired
<1> QED BY <1>2 DEF Init, HbInv, Registered, OneHeartbeat

\* start: no goroutine was beating on, and the new one is of no earlier start.
LEMMA StartHbInv == HbInv /\ Start => HbInv'
<1> SUFFICES ASSUME HbInv, Start PROVE HbInv'
  OBVIOUS
<1> USE MaxGenAssumption DEF HbInv, TypeOK
<1>1. gen + 1 \in Gens /\ gen + 1 \in 0..MaxGen /\ gen' = gen + 1
  BY DEF Start, Gens
<1>2. Push("body", gen + 1) \in Pushes /\ Push("proxy", gen + 1) \in Pushes
  BY <1>1, TriesAssumption DEF Push, Pushes, Kinds
<1>3. running' = TRUE /\ heard' = FALSE /\ pushes' \subseteq Pushes
  BY <1>2 DEF Start
<1>4. /\ running' \in BOOLEAN /\ heard' \in BOOLEAN
      /\ arrived' \in BOOLEAN /\ overtaken' \in BOOLEAN
  BY <1>3 DEF Start
<1>5. UNCHANGED <<pacJs, px, age, missed, confirmed>>
  BY DEF Start, routerVars
<1>6. told' = told
  BY DEF Start, startRouterHeartbeat, Registered
<1>7. hbStop' = gen + 1 /\ beating' = beating \cup {gen + 1} /\ due' = due \cup {gen + 1}
  BY DEF Start, startRouterHeartbeat
<1>8. TypeOK'
  BY <1>1, <1>3, <1>4, <1>5, <1>6, <1>7
<1>9. \A n \in beating : n <= gen /\ n # gen + 1
  BY DEF Registered, Gens
<1>10. Registered'
  <2>1. \A n \in beating' : n <= gen'
    BY <1>1, <1>7, <1>9 DEF Gens
  <2> QED BY <1>1, <1>3, <1>7, <2>1 DEF Registered, Gens
<1>11. OneHeartbeat'
  <2>1. beating \ told = {}
    BY DEF OneHeartbeat, Start
  <2>2. gen + 1 \notin told
    BY <1>9
  <2> QED BY <1>1, <1>3, <1>6, <1>7, <2>1, <2>2 DEF OneHeartbeat
<1> QED BY <1>8, <1>10, <1>11

\* stop and restart close the channel of the goroutine that beats.
LEMMA StopHbInv == HbInv /\ (Stop \/ RestartStops) => HbInv'
<1> SUFFICES ASSUME HbInv, Stop \/ RestartStops PROVE HbInv'
  OBVIOUS
<1> USE MaxGenAssumption DEF HbInv, TypeOK
<1>1. running = TRUE /\ running' = FALSE /\ hbStop' = 0
  BY DEF Stop, RestartStops, stopRouterHeartbeat
<1>2. UNCHANGED <<gen, beating, due, confirmed, pacJs, px, age, missed, heard,
                  arrived, overtaken>>
  BY DEF Stop, RestartStops, routerVars, bodies
<1>3. gen \in Gens /\ hbStop = gen /\ gen # 0
  BY <1>1 DEF Registered, Gens
<1>4. Push("direct", gen) \in Pushes
  BY <1>3, TriesAssumption DEF Push, Pushes, Kinds
<1>5. pushes' \subseteq Pushes
  BY <1>4 DEF Stop, RestartStops
<1>6. told' = told \cup {gen}
  BY <1>3 DEF Stop, RestartStops, stopRouterHeartbeat
<1>7. beating \ told = {gen}
  BY <1>1 DEF OneHeartbeat
<1>8. running' \in BOOLEAN
  BY <1>1
<1>9. TypeOK'
  BY <1>1, <1>2, <1>5, <1>6, <1>7, <1>8
<1>10. Registered'
  BY <1>1, <1>2 DEF Registered
<1>11. OneHeartbeat'
  BY <1>1, <1>2, <1>6, <1>7 DEF OneHeartbeat
<1> QED BY <1>9, <1>10, <1>11

\* A crash ends every goroutine.
LEMMA CrashHbInv == HbInv /\ Crash => HbInv'
<1> SUFFICES ASSUME HbInv, Crash PROVE HbInv'
  OBVIOUS
<1> USE MaxGenAssumption DEF HbInv, TypeOK
<1>1. running' = FALSE /\ running' \in BOOLEAN
  BY DEF Crash
<1>2. UNCHANGED <<gen, pacJs, px, age, missed, heard, arrived, overtaken>>
  BY DEF Crash, routerVars, bodies
<1>3. /\ hbStop' = 0 /\ beating' = {} /\ told' = {} /\ due' = {}
      /\ pushes' = {} /\ confirmed' = {}
  BY DEF Crash
<1> QED BY <1>1, <1>2, <1>3 DEF Registered, OneHeartbeat

\* An attempt of a push touches no goroutine of the heartbeat.
LEMMA AttemptHbInv ==
    ASSUME HbInv, NEW q \in pushes, Attempt(q)
    PROVE  HbInv'
<1> USE MaxGenAssumption DEF HbInv, TypeOK
<1>1. q \in Pushes /\ q.gen \in Gens
  BY DEF Pushes
<1>2. pushes' \subseteq Pushes
  BY AttemptTypes DEF Attempt
<1>3. pacJs' \in 0..MaxGen /\ px' \in 0..MaxGen /\ age' \in 0..Expired
  <2>1. Serve(q) \/ UNCHANGED routerVars
    BY DEF Attempt, Arrives
  <2>2. CASE Serve(q)
    BY <1>1, <2>2, ServeTypes
  <2>3. CASE UNCHANGED routerVars
    BY <2>3 DEF routerVars
  <2> QED BY <2>1, <2>2, <2>3
<1>4. confirmed' \subseteq Gens
  BY <1>1 DEF Attempt
<1>5. heard' \in BOOLEAN /\ arrived' \in BOOLEAN /\ overtaken' \in BOOLEAN
  <2>1. heard' \in BOOLEAN
    BY DEF Attempt
  <2>2. CASE Arrives(q)
    BY <2>1, <2>2 DEF Arrives
  <2>3. CASE ~Arrives(q)
    <3>1. arrived' = arrived /\ overtaken' = overtaken
      BY <2>3 DEF Attempt, bodies
    <3> QED BY <2>1, <3>1
  <2> QED BY <2>2, <2>3
<1>6. UNCHANGED <<running, gen, hbStop, told, beating, due, missed>>
  BY DEF Attempt
<1>7. TypeOK'
  BY <1>2, <1>3, <1>4, <1>5, <1>6
<1> QED BY <1>6, <1>7 DEF Registered, OneHeartbeat

\* Only a goroutine whose channel is closed returns, which no goroutine that
\* beats on is.
LEMMA GoroutineHbInv ==
    ASSUME HbInv, NEW n \in Gens, Close(n) \/ HbReturns(n)
    PROVE  HbInv'
<1> USE DEF HbInv, TypeOK
<1>1. UNCHANGED <<running, gen, hbStop, pushes, pacJs, px, age, missed, heard, arrived,
                  overtaken>>
  BY DEF Close, HbReturns, routerVars, bodies
<1>2. /\ confirmed' \subseteq Gens /\ beating' \subseteq beating
      /\ told' \subseteq beating' /\ due' \subseteq beating'
  BY DEF Close, HbReturns
<1>3. beating' \ told' = beating \ told
  BY DEF Close, HbReturns
<1>4. TypeOK'
  BY <1>1, <1>2
<1> QED BY <1>1, <1>2, <1>3, <1>4 DEF Registered, OneHeartbeat

\* A heartbeat and the passing of time leave the goroutines as they are.
LEMMA BeatHbInv ==
    ASSUME HbInv, NEW n \in Gens, Beat(n)
    PROVE  HbInv'
<1> USE MaxMissedAssumption DEF HbInv, TypeOK
<1>1. UNCHANGED <<running, gen, hbStop, told, confirmed, beating, pushes, pacJs, px, arrived,
                  overtaken>>
  BY DEF Beat, app, bodies
<1>2. due' \subseteq beating
  BY DEF Beat
<1>3. heard' \in BOOLEAN
  BY DEF Beat
<1>4. age' \in 0..Expired /\ missed' \in 0..MaxMissed
  <2>1. CASE age' = 0 /\ missed' = 0
    BY <2>1 DEF Expired
  <2>2. CASE missed < MaxMissed /\ missed' = missed + 1 /\ age' = age
    BY <2>2
  <2> QED BY <2>1, <2>2 DEF Beat
<1>5. TypeOK'
  BY <1>1, <1>2, <1>3, <1>4
<1> QED BY <1>1, <1>5 DEF Registered, OneHeartbeat

LEMMA TickHbInv == HbInv /\ Tick => HbInv'
<1> SUFFICES ASSUME HbInv, Tick PROVE HbInv'
  OBVIOUS
<1> USE DEF HbInv, TypeOK
<1>1. UNCHANGED <<running, gen, hbStop, told, confirmed, beating, pushes, pacJs, px,
                  missed, heard, arrived, overtaken>>
  BY DEF Tick, app, bodies
<1>2. due' = beating /\ age' \in 0..Expired
  BY DEF Tick, Expired
<1>3. TypeOK'
  BY <1>1, <1>2
<1> QED BY <1>1, <1>3 DEF Registered, OneHeartbeat

----------------------------------------------------------------------------
(* The theorems *)

\* HbInv is an invariant.
LEMMA HbInvariance == Spec => []HbInv
<1>1. Init => HbInv
  BY InitHbInv
<1>2. HbInv /\ [Next]_vars => HbInv'
  <2> SUFFICES ASSUME HbInv, [Next]_vars PROVE HbInv'
    OBVIOUS
  <2>1. CASE UNCHANGED vars
    BY <2>1 DEF vars, app, routerVars, bodies, HbInv, TypeOK, Registered, OneHeartbeat
  <2>2. CASE Next
    BY <2>2, StartHbInv, StopHbInv, CrashHbInv, AttemptHbInv, GoroutineHbInv,
       BeatHbInv, TickHbInv DEF Next
  <2> QED BY <2>1, <2>2
<1> QED BY <1>1, <1>2, PTL DEF Spec

\* Every variable keeps its type; in particular no channel is closed and no
\* heartbeat is due of a goroutine that does not exist (router.go).
THEOREM RouterTypes == Spec => []TypeOK
<1>1. HbInv => TypeOK
  BY DEF HbInv
<1> QED BY <1>1, HbInvariance, PTL

\* start, stop and restart, in whatever order and however late a goroutine
\* returns, leave no heartbeat goroutine behind (router.go, app.go).
THEOREM NoHeartbeatLeft == Spec => []OneHeartbeat
<1>1. HbInv => OneHeartbeat
  BY DEF HbInv
<1> QED BY <1>1, HbInvariance, PTL

\* The router's clock lags behind the heartbeats by at most one tick.
LEMMA AgeBoundStep == HbInv /\ AgeBound /\ [Next]_vars => AgeBound'
<1> SUFFICES ASSUME HbInv, AgeBound, [Next]_vars, running', heard'
             PROVE  age' <= missed' + (IF gen' \in due' THEN 1 ELSE 0)
  BY DEF AgeBound
<1> USE MaxMissedAssumption DEF HbInv, TypeOK
<1>1. CASE Start
  BY <1>1 DEF Start
<1>2. CASE Stop \/ RestartStops \/ Crash
  BY <1>2 DEF Stop, RestartStops, Crash
<1>3. ASSUME NEW q \in pushes, Attempt(q)
      PROVE  age' <= missed' + (IF gen' \in due' THEN 1 ELSE 0)
  <2>1. UNCHANGED <<running, gen, due, missed>>
    BY <1>3 DEF Attempt
  <2>2. age' = 0 \/ age' = age
    BY <1>3, ServeAge DEF Attempt, Arrives, routerVars
  <2>3. CASE age' = 0
    BY <2>1, <2>3
  <2>4. CASE age' = age
    <3>1. heard
      <4>1. ~(age' < age)
        BY <2>4
      <4> QED BY <1>3, <4>1 DEF Attempt
    <3> QED BY <2>1, <2>4, <3>1 DEF AgeBound
  <2> QED BY <2>2, <2>3, <2>4
<1>4. ASSUME NEW n \in Gens, Close(n)
      PROVE  age' <= missed' + (IF gen' \in due' THEN 1 ELSE 0)
  BY <1>4 DEF Close, routerVars, AgeBound
<1>5. ASSUME NEW n \in Gens, HbReturns(n)
      PROVE  age' <= missed' + (IF gen' \in due' THEN 1 ELSE 0)
  <2>1. UNCHANGED <<running, gen, age, missed, heard>> /\ due' = due \ {n} /\ n \in told
    BY <1>5 DEF HbReturns, routerVars
  <2>2. gen \notin told
    BY <2>1 DEF OneHeartbeat
  <2> QED BY <2>1, <2>2 DEF AgeBound
<1>6. ASSUME NEW n \in Gens, Beat(n)
      PROVE  age' <= missed' + (IF gen' \in due' THEN 1 ELSE 0)
  <2>1. UNCHANGED <<running, gen>> /\ due' = due \ {n}
    BY <1>6 DEF Beat, app
  <2>2. CASE age' = 0 /\ missed' = 0
    BY <2>2
  <2>3. CASE missed' = missed + 1 /\ age' = age /\ heard' = heard
    BY <2>1, <2>3 DEF AgeBound
  <2> QED BY <1>6, <2>2, <2>3 DEF Beat
<1>7. CASE Tick
  <2>1. UNCHANGED <<running, gen, missed, heard>> /\ due = {} /\ due' = beating
    BY <1>7 DEF Tick, app
  <2>2. age' <= age + 1
    BY <1>7 DEF Tick, Expired
  <2>3. gen' \in due'
    BY <2>1 DEF OneHeartbeat
  <2>4. age <= missed
    BY <2>1 DEF AgeBound
  <2>5. age \in Nat /\ missed \in Nat /\ age' \in Nat
    BY <1>7 DEF Tick, Expired
  <2>6. age' <= missed + 1
    BY <2>2, <2>4, <2>5
  <2> QED BY <2>1, <2>3, <2>6
<1>8. CASE UNCHANGED vars
  BY <1>8 DEF vars, app, routerVars, AgeBound
<1> QED BY <1>1, <1>2, <1>3, <1>4, <1>5, <1>6, <1>7, <1>8 DEF Next

\* The body stored last is the present run's own.
BodyIsOwn == running /\ arrived /\ ~overtaken => pacJs = gen

LEMMA BodyIsOwnStep == HbInv /\ BodyIsOwn /\ [Next]_vars => BodyIsOwn'
<1> SUFFICES ASSUME HbInv, BodyIsOwn, [Next]_vars, running', arrived', ~overtaken'
             PROVE  pacJs' = gen'
  BY DEF BodyIsOwn
<1>1. CASE Start \/ Stop \/ RestartStops \/ Crash
  BY <1>1 DEF Start, Stop, RestartStops, Crash
<1>2. ASSUME NEW q \in pushes, Attempt(q) PROVE pacJs' = gen'
  <2>1. gen' = gen /\ running
    BY <1>2 DEF Attempt
  <2>2. CASE Arrives(q) /\ q.kind = "body"
    <3>1. pacJs' = q.gen
      BY <2>2 DEF Arrives, Serve, update_pac
    <3>2. q.gen = gen
      BY <2>2 DEF Arrives
    <3> QED BY <2>1, <3>1, <3>2
  <2>3. CASE Arrives(q) /\ q.kind # "body"
    <3>1. pacJs' = pacJs
      BY <2>3 DEF Arrives, Serve, update
    <3>2. arrived /\ ~overtaken
      BY <2>3 DEF Arrives
    <3> QED BY <2>1, <3>1, <3>2 DEF BodyIsOwn
  <2>4. CASE ~Arrives(q)
    BY <1>2, <2>1, <2>4 DEF Attempt, routerVars, bodies, BodyIsOwn
  <2> QED BY <2>2, <2>3, <2>4
<1>3. ASSUME NEW n \in Gens, Close(n) \/ Beat(n) \/ HbReturns(n) PROVE pacJs' = gen'
  BY <1>3 DEF Close, Beat, HbReturns, app, routerVars, bodies, BodyIsOwn
<1>4. CASE Tick \/ UNCHANGED vars
  BY <1>4 DEF Tick, vars, app, routerVars, bodies, BodyIsOwn
<1> QED BY <1>1, <1>2, <1>3, <1>4 DEF Next

\* Once the router has the body of the present run and has heard of it, its phones
\* are sent to the proxy that runs, whichever heartbeats are lost, until a body of
\* an earlier start comes late (proxy.pac, pac.go).
THEOREM KeepsProxy == Spec => []RouterKeepsProxy
<1>1. Init => AgeBound /\ BodyIsOwn
  BY DEF Init, AgeBound, BodyIsOwn
<1>2. HbInv /\ AgeBound /\ BodyIsOwn => RouterKeepsProxy
  <2> SUFFICES ASSUME HbInv, AgeBound, BodyIsOwn, running, heard, arrived, ~overtaken
               PROVE  Served = gen
    BY DEF RouterKeepsProxy
  <2>1. age <= MaxMissed + 1
    BY MaxMissedAssumption DEF HbInv, TypeOK, AgeBound, Expired
  <2>2. age # Expired
    BY <2>1, MaxMissedAssumption DEF HbInv, TypeOK, Expired
  <2>3. pacJs = gen /\ gen # 0
    BY DEF BodyIsOwn, HbInv, Registered, Gens
  <2> QED BY <2>2, <2>3 DEF Served
<1> QED BY <1>1, <1>2, HbInvariance, AgeBoundStep, BodyIsOwnStep, PTL DEF Spec

----------------------------------------------------------------------------
(***************************************************************************)
(* RouterInstall: its inductive invariant.                                 *)
(***************************************************************************)

\* Where an installation that is at work is.
Working == {"write", "kill", "start", "probe"}
Resting == {"idle", "ok", "error"}

\* The directory everything is installed in.
Dir == IF router.entware THEN Opt ELSE "/tmp/pac"

InstallTypeOK ==
    /\ router \in Routers
    /\ files \in [Places -> {"none", "torn", "whole"}]
    /\ at \in [Installs -> Working \cup Resting \cup {"choose"}]
    /\ kind \in [Installs -> WebServers \cup {"none", "lighttpd"}]
    /\ todo \in [Installs -> Seq(Places)]
    /\ reboots \in Nat
    /\ quiet \subseteq Installs
    /\ kept \in BOOLEAN

Entries(s) == {s[n] : n \in DOMAIN s}

\* Nothing is ever written into the directory of the other sort of router.
OneDir ==
    /\ \A p \in Places : p[1] \in Dirs \ {Dir} => files[p] = "none"
    /\ \A i \in Installs : \A f \in Entries(todo[i]) : f[1] \notin Dirs \ {Dir}

\* lighttpd serves /opt; another server the directory it was started with, and there is
\* none on a Keenetic.
Servers ==
    /\ \/ server = NoServer
       \/ server = [kind |-> "lighttpd", dir |-> Opt]
       \/ ~router.keenetic /\ server \in [kind : WebServers, dir : {Dir}]
    /\ \A i \in Installs :
          /\ at[i] = "choose" => ~router.keenetic
          /\ router.keenetic => kind[i] \in {"none", "lighttpd"}

\* What has to be on the router for heartbeats, and for a reboot.
Scripts == <<Dir, IF router.keenetic THEN "*.sh" ELSE "cgi-bin/*.sh">>
ForBoot == {Init_d, <<Opt, "lighttpd.conf">>}
Needed(i) == {Scripts} \cup
             (IF ~router.keenetic /\ router.entware /\ kind[i] = "lighttpd" THEN ForBoot ELSE {})

\* An installation that has the router to itself finds what it has written.
Quiet ==
    \A i \in quiet :
        /\ Alone(i)
        /\ at[i] \in Working =>
              \A f \in Needed(i) :
                  files[f] = "whole" \/ (at[i] = "write" /\ f \in Entries(todo[i]))

\* What a reboot finds as long as nobody else installs anything.
Kept ==
    kept =>
        /\ router.sbin
        /\ \A f \in ForBoot : files[f] = "whole"
        /\ server = [kind |-> "lighttpd", dir |-> Opt]
        /\ files[<<Opt, "pac">>] = "whole" \/ files[<<Opt, "proxy.pac">>] = "whole"
        /\ \A i \in Installs : at[i] \in Resting

InstallInv == InstallTypeOK /\ OneDir /\ Servers /\ Quiet /\ Kept

----------------------------------------------------------------------------
(* Files *)

\* Where files may be.
LEMMA PlacesHave ==
    ASSUME NEW dir \in Dirs
    PROVE  /\ \A path \in {"pac", "proxy.pac", "*.sh", "cgi-bin/proxy.pac", "cgi-bin/*.sh",
                           "lighttpd.conf"} : <<dir, path>> \in Places
           /\ Init_d \in Places /\ Init_d[1] \notin Dirs
BY DEF Places, Dirs, Init_d

\* Both are directories of the router.
LEMMA DirIsOne == Dir \in Dirs /\ Opt \in Dirs
BY DEF Dir, Dirs, Opt

\* A list of files put together from two.
LEMMA EntriesOfConcat ==
    ASSUME NEW S, NEW s \in Seq(S), NEW t \in Seq(S)
    PROVE  s \o t \in Seq(S) /\ Entries(s \o t) = Entries(s) \cup Entries(t)
<1>1. /\ s \o t \in Seq(S) /\ Len(s \o t) = Len(s) + Len(t) /\ Len(s) \in Nat /\ Len(t) \in Nat
      /\ DOMAIN (s \o t) = 1..(Len(s) + Len(t)) /\ DOMAIN s = 1..Len(s) /\ DOMAIN t = 1..Len(t)
  OBVIOUS
<1>2. \A n \in DOMAIN s : n \in DOMAIN (s \o t) /\ (s \o t)[n] = s[n]
  BY <1>1
<1>3. \A n \in DOMAIN t : Len(s) + n \in DOMAIN (s \o t) /\ (s \o t)[Len(s) + n] = t[n]
  BY <1>1
<1>4. \A n \in DOMAIN (s \o t) :
         \/ n \in DOMAIN s /\ (s \o t)[n] = s[n]
         \/ n - Len(s) \in DOMAIN t /\ (s \o t)[n] = t[n - Len(s)]
  BY <1>1
<1>5. Entries(s) \subseteq Entries(s \o t) /\ Entries(t) \subseteq Entries(s \o t)
  BY <1>2, <1>3, Zenon DEF Entries
<1>6. ASSUME NEW n \in DOMAIN (s \o t)
      PROVE  (s \o t)[n] \in Entries(s) \cup Entries(t)
  BY <1>4, <1>6, Zenon DEF Entries
<1>7. Entries(s \o t) \subseteq Entries(s) \cup Entries(t)
  BY <1>6, Zenon DEF Entries
<1> QED
  BY <1>1, <1>5, <1>7

\* The files of an installation: all in its directory, except the script for the boot.
LEMMA FilesForHas ==
    ASSUME NEW k
    PROVE  /\ FilesFor(k) \in Seq(Places)
           /\ Entries(FilesFor(k)) =
                 {<<Dir, "pac">>, <<Dir, "cgi-bin/proxy.pac">>, <<Dir, "cgi-bin/*.sh">>}
                 \cup (IF k = "lighttpd" THEN {<<Dir, "lighttpd.conf">>} ELSE {})
                 \cup (IF router.entware THEN {Init_d} ELSE {})
<1> DEFINE base == <<<<Dir, "pac">>, <<Dir, "cgi-bin/proxy.pac">>, <<Dir, "cgi-bin/*.sh">>>>
<1> DEFINE conf == IF k = "lighttpd" THEN <<<<Dir, "lighttpd.conf">>>> ELSE <<>>
<1> DEFINE boot == IF router.entware THEN <<Init_d>> ELSE <<>>
<1>1. FilesFor(k) = (base \o conf) \o boot
  BY DEF FilesFor, Dir
<1>2. base \in Seq(Places) /\ conf \in Seq(Places) /\ boot \in Seq(Places)
  <2>1. /\ <<Dir, "pac">> \in Places /\ <<Dir, "cgi-bin/proxy.pac">> \in Places
        /\ <<Dir, "cgi-bin/*.sh">> \in Places /\ <<Dir, "lighttpd.conf">> \in Places
        /\ Init_d \in Places
    BY PlacesHave, DirIsOne
  <2> QED
    BY <2>1
<1>3. /\ Entries(base) = {<<Dir, "pac">>, <<Dir, "cgi-bin/proxy.pac">>, <<Dir, "cgi-bin/*.sh">>}
      /\ Entries(conf) = IF k = "lighttpd" THEN {<<Dir, "lighttpd.conf">>} ELSE {}
      /\ Entries(boot) = IF router.entware THEN {Init_d} ELSE {}
  BY DEF Entries
<1> DEFINE most == base \o conf
<1> HIDE DEF base, conf, boot
<1>4. most \in Seq(Places) /\ Entries(most) = Entries(base) \cup Entries(conf)
  BY <1>2, EntriesOfConcat
<1>5. FilesFor(k) = most \o boot
  BY <1>1
<1> HIDE DEF most
<1>6. most \o boot \in Seq(Places) /\ Entries(most \o boot) = Entries(most) \cup Entries(boot)
  BY <1>2, <1>4, EntriesOfConcat
<1> QED
  BY <1>3, <1>4, <1>5, <1>6

\* What is written off the list of files is the first of them.
LEMMA TodoShrinks ==
    ASSUME NEW s \in Seq(Places), s # <<>>
    PROVE  /\ Head(s) \in Places /\ Tail(s) \in Seq(Places)
           /\ Entries(s) = {Head(s)} \cup Entries(Tail(s))
<1>1. /\ Head(s) \in Places /\ Tail(s) \in Seq(Places) /\ Len(s) \in Nat /\ Len(s) > 0
      /\ DOMAIN s = 1..Len(s) /\ DOMAIN Tail(s) = 1..(Len(s) - 1)
  OBVIOUS
<1>2. s[1] = Head(s) /\ 1 \in DOMAIN s
  BY <1>1
<1>3. \A n \in DOMAIN s : n = 1 \/ (n - 1 \in DOMAIN Tail(s) /\ Tail(s)[n - 1] = s[n])
  BY <1>1
<1>4. \A m \in DOMAIN Tail(s) : m + 1 \in DOMAIN s /\ Tail(s)[m] = s[m + 1]
  BY <1>1
<1> QED
  BY <1>1, <1>2, <1>3, <1>4 DEF Entries

----------------------------------------------------------------------------
(* The steps of an installation *)

\* Nobody else has the router to himself while an installation is at work.
LEMMA AtWork ==
    ASSUME InstallInv, NEW i \in Installs, at[i] \notin Resting
    PROVE  quiet \subseteq {i} /\ ~kept
BY DEF InstallInv, InstallTypeOK, Quiet, Kept, Alone, Resting

\* A step of an installation leaves the others where they are.
LEMMA AloneKept ==
    ASSUME InstallTypeOK, NEW i \in Installs, NEW step, Go(i, step), Alone(i)
    PROVE  Alone(i)'
BY DEF InstallTypeOK, Go, Alone

\* The firmware is looked at; on a Keenetic, all files are listed at once.
LEMMA BeginKeeps ==
    ASSUME InstallInv, NEW i \in Installs, Begin(i)
    PROVE  InstallInv'
<1> DEFINE list == <<<<Opt, "pac">>, <<Opt, "proxy.pac">>, <<Opt, "*.sh">>, <<Opt, "lighttpd.conf">>>>
<1>1. list \in Seq(Places)
  <2>1. /\ <<Opt, "pac">> \in Places /\ <<Opt, "proxy.pac">> \in Places
        /\ <<Opt, "*.sh">> \in Places /\ <<Opt, "lighttpd.conf">> \in Places
    BY PlacesHave, DirIsOne
  <2> QED
    BY <2>1
<1>2. Entries(list) = {<<Opt, "pac">>, <<Opt, "proxy.pac">>, <<Opt, "*.sh">>, <<Opt, "lighttpd.conf">>}
  BY DEF Entries
<1>3. /\ kept' = FALSE /\ UNCHANGED <<router, files, server, reboots>>
      /\ quiet' = IF Alone(i) THEN {i} ELSE {}
      /\ \/ Go(i, "error") /\ UNCHANGED <<kind, todo>>
         \/ ~router.keenetic /\ Go(i, "choose") /\ UNCHANGED <<kind, todo>>
         \/ /\ router.keenetic /\ router.entware /\ Go(i, "write")
            /\ kind' = [kind EXCEPT ![i] = "lighttpd"] /\ todo' = [todo EXCEPT ![i] = list]
  BY DEF Begin, Fails
<1> HIDE DEF list
<1>4. InstallTypeOK'
  BY <1>1, <1>3 DEF InstallInv, InstallTypeOK, Go, Working, Resting
<1>5. OneDir'
  <2>1. Dir' = Dir
    BY <1>3 DEF Dir
  <2>2. router.entware => Dir = Opt
    BY DEF Dir
  <2>3. \A f \in Entries(list) : f[1] = Opt
    BY <1>2
  <2>4. ASSUME NEW j \in Installs, NEW f \in Entries(todo'[j])
        PROVE  f \in Entries(todo[j]) \/ (router.entware /\ f[1] = Opt)
    BY <1>3, <2>3, <2>4 DEF InstallInv, InstallTypeOK
  <2> QED
    BY <2>1, <2>2, <2>4, <1>3 DEF InstallInv, OneDir
<1>6. Servers' /\ Kept'
  BY <1>3 DEF InstallInv, InstallTypeOK, Servers, Kept, Dir, Go
<1>7. Quiet'
  <2> SUFFICES ASSUME Alone(i), quiet' = {i}
               PROVE  /\ Alone(i)'
                      /\ at'[i] \in Working => \A f \in Needed(i)' :
                            files'[f] = "whole" \/ (at'[i] = "write" /\ f \in Entries(todo'[i]))
    BY <1>3 DEF Quiet
  <2>1. Alone(i)'
    BY <1>3, AloneKept DEF InstallInv
  <2>2. ASSUME at'[i] \in Working, NEW f \in Needed(i)'
        PROVE  at'[i] = "write" /\ f \in Entries(todo'[i])
    <3>1. router.keenetic /\ router.entware /\ at'[i] = "write" /\ todo'[i] = list
      BY <1>3, <2>2 DEF InstallInv, InstallTypeOK, Go, Working
    <3>2. f = <<Opt, "*.sh">>
      BY <1>3, <2>2, <3>1 DEF Needed, Scripts, Dir
    <3> QED
      BY <3>1, <3>2, <1>2
  <2> QED
    BY <2>1, <2>2
<1> QED
  BY <1>4, <1>5, <1>6, <1>7 DEF InstallInv

\* The server is chosen, and with it the files.
LEMMA ChooseKeeps ==
    ASSUME InstallInv, NEW i \in Installs, Choose(i)
    PROVE  InstallInv'
<1>1. quiet \subseteq {i} /\ ~kept
  BY AtWork DEF Choose, Resting
<1>2. UNCHANGED <<files, server, reboots, quiet, kept>> /\ ~router.keenetic
  BY DEF Choose, InstallInv, Servers
<1>3. /\ router' \in Routers
      /\ router'.entware = router.entware /\ router'.keenetic = router.keenetic
  <2>1. \/ UNCHANGED router
        \/ router' = [router EXCEPT !.sbin = TRUE]
    BY DEF Choose
  <2> QED
    BY <2>1 DEF InstallInv, InstallTypeOK, Routers
<1>4. Dir' = Dir
  BY <1>3 DEF Dir
<1>5. \/ Go(i, "error") /\ UNCHANGED <<kind, todo>>
      \/ \E k \in WebServers \cup {"lighttpd"} : Chosen(i, k)
  <2>1. router.web \in WebServers \cup {"none"}
    BY DEF InstallInv, InstallTypeOK, Routers
  <2> QED
    BY <2>1 DEF Choose, Fails
<1>6. InstallTypeOK'
  <2>1. CASE Go(i, "error") /\ UNCHANGED <<kind, todo>>
    BY <1>2, <1>3, <2>1 DEF InstallInv, InstallTypeOK, Go, Working, Resting
  <2>2. ASSUME NEW k \in WebServers \cup {"lighttpd"}, Chosen(i, k) PROVE InstallTypeOK'
    <3>1. FilesFor(k) \in Seq(Places)
      BY FilesForHas
    <3> QED
      BY <1>2, <1>3, <2>2, <3>1 DEF InstallInv, InstallTypeOK, Go, Chosen, Working, Resting
  <2> QED
    BY <1>5, <2>1, <2>2
<1>7. ASSUME NEW k, NEW f \in Entries(FilesFor(k)) PROVE f[1] \notin Dirs \ {Dir}
  <2>1. f[1] = Dir \/ f = Init_d
    BY <1>7, FilesForHas
  <2> QED
    BY <2>1, PlacesHave, DirIsOne
<1>8. OneDir'
  BY <1>2, <1>4, <1>5, <1>7 DEF InstallInv, InstallTypeOK, OneDir, Chosen
<1>9. Servers' /\ Kept'
  BY <1>1, <1>2, <1>3, <1>4, <1>5
     DEF InstallInv, InstallTypeOK, Servers, Kept, Go, Chosen, NoServer
<1>10. Quiet'
  <2> SUFFICES ASSUME i \in quiet
               PROVE  /\ Alone(i)'
                      /\ at'[i] \in Working => \A f \in Needed(i)' :
                            files'[f] = "whole" \/ (at'[i] = "write" /\ f \in Entries(todo'[i]))
    BY <1>1, <1>2 DEF Quiet
  <2>1. Alone(i)'
    BY <1>5, AloneKept DEF InstallInv, Quiet, Chosen
  <2>2. ASSUME at'[i] \in Working, NEW f \in Needed(i)'
        PROVE  at'[i] = "write" /\ f \in Entries(todo'[i])
    <3>1. PICK k \in WebServers \cup {"lighttpd"} : Chosen(i, k)
      BY <1>5, <2>2 DEF InstallInv, InstallTypeOK, Go, Working
    <3>2. at'[i] = "write" /\ kind'[i] = k /\ todo'[i] = FilesFor(k)
      BY <3>1 DEF InstallInv, InstallTypeOK, Go, Chosen
    <3>3. \/ f = <<Dir, "cgi-bin/*.sh">>
          \/ router.entware /\ k = "lighttpd" /\ f \in {Init_d, <<Dir, "lighttpd.conf">>}
      BY <1>2, <1>3, <1>4, <2>2, <3>2 DEF Needed, Scripts, ForBoot, Dir
    <3> QED
      BY <3>2, <3>3, FilesForHas
  <2> QED
    BY <2>1, <2>2
<1> QED
  BY <1>6, <1>8, <1>9, <1>10 DEF InstallInv

\* A file is written, or torn.
LEMMA WriteKeeps ==
    ASSUME InstallInv, NEW i \in Installs, Write(i)
    PROVE  InstallInv'
<1>1. quiet \subseteq {i} /\ ~kept
  BY AtWork DEF Write, Resting
<1>2. UNCHANGED <<router, server, kind, reboots, quiet, kept>> /\ at[i] = "write" /\ todo[i] # <<>>
  BY DEF Write
<1> DEFINE f == Head(todo[i])
<1>3. /\ f \in Places /\ Tail(todo[i]) \in Seq(Places)
      /\ Entries(todo[i]) = {f} \cup Entries(Tail(todo[i]))
  BY <1>2, TodoShrinks DEF InstallInv, InstallTypeOK
<1>4. \/ /\ files' = [files EXCEPT ![f] = "whole"]
         /\ todo' = [todo EXCEPT ![i] = Tail(todo[i])]
         /\ \/ todo'[i] = <<>> /\ Go(i, "kill")
            \/ UNCHANGED at
      \/ /\ files' \in {files, [files EXCEPT ![f] = "torn"], [files EXCEPT ![f] = "whole"]}
         /\ Go(i, "error") /\ UNCHANGED todo
  BY DEF Write, Fails
<1> HIDE DEF f
<1>5. InstallTypeOK'
  BY <1>2, <1>3, <1>4 DEF InstallInv, InstallTypeOK, Go, Working, Resting
<1>6. OneDir'
  <2>1. Dir' = Dir /\ f[1] \notin Dirs \ {Dir}
    BY <1>2, <1>3 DEF Dir, InstallInv, OneDir
  <2>2. \A p \in Places : p # f => files'[p] = files[p]
    BY <1>3, <1>4 DEF InstallInv, InstallTypeOK
  <2>3. \A j \in Installs : Entries(todo'[j]) \subseteq Entries(todo[j])
    BY <1>3, <1>4 DEF InstallInv, InstallTypeOK
  <2> QED
    BY <2>1, <2>2, <2>3 DEF InstallInv, OneDir
<1>7. Servers' /\ Kept'
  BY <1>1, <1>2, <1>4 DEF InstallInv, InstallTypeOK, Servers, Kept, Dir, Go
<1>8. Quiet'
  <2> SUFFICES ASSUME i \in quiet
               PROVE  /\ Alone(i)'
                      /\ at'[i] \in Working => \A g \in Needed(i)' :
                            files'[g] = "whole" \/ (at'[i] = "write" /\ g \in Entries(todo'[i]))
    BY <1>1, <1>2 DEF Quiet
  <2>1. Alone(i)'
    <3>1. Alone(i)
      BY DEF InstallInv, Quiet
    <3>2. CASE UNCHANGED at
      BY <3>1, <3>2 DEF Alone
    <3>3. CASE \E step : Go(i, step)
      BY <3>1, <3>3, AloneKept DEF InstallInv
    <3> QED
      BY <1>4, <3>2, <3>3
  <2>2. ASSUME at'[i] \in Working, NEW g \in Needed(i)'
        PROVE  files'[g] = "whole" \/ (at'[i] = "write" /\ g \in Entries(todo'[i]))
    <3>1. /\ files' = [files EXCEPT ![f] = "whole"]
          /\ todo'[i] = Tail(todo[i])
          /\ (todo'[i] = <<>>) \/ at'[i] = "write"
      BY <1>2, <1>4, <2>2 DEF InstallInv, InstallTypeOK, Go, Working
    <3>2. g \in Needed(i) /\ g \in Places
      BY <1>2, PlacesHave, DirIsOne, <2>2 DEF Needed, Scripts, ForBoot, Dir
    <3>3. files[g] = "whole" \/ g \in Entries(todo[i])
      BY <1>2, <3>2 DEF InstallInv, Quiet, Working
    <3>4. CASE g = f \/ files[g] = "whole"
      BY <3>1, <3>2, <3>4 DEF InstallInv, InstallTypeOK
    <3>5. CASE g \in Entries(Tail(todo[i]))
      <4>1. todo'[i] # <<>>
        BY <3>1, <3>5 DEF Entries
      <4> QED
        BY <3>1, <3>5, <4>1
    <3> QED
      BY <1>3, <3>3, <3>4, <3>5
  <2> QED
    BY <2>1, <2>2
<1> QED
  BY <1>5, <1>6, <1>7, <1>8 DEF InstallInv

\* Steps that write no file.
LEMMA ServerStepsKeep ==
    ASSUME InstallInv, NEW i \in Installs, Kill(i) \/ StartLighttpd(i) \/ StartWeb(i)
    PROVE  InstallInv'
<1>1. /\ UNCHANGED <<router, files, kind, todo, reboots, quiet, kept>>
      /\ at[i] \in {"kill", "start"}
  BY DEF Kill, StartLighttpd, StartWeb
<1>2. quiet \subseteq {i} /\ ~kept
  BY <1>1, AtWork DEF Resting
<1>3. PICK step \in {"start", "probe", "error"} : Go(i, step)
  BY DEF Kill, StartLighttpd, StartWeb, Fails
<1>4. InstallTypeOK'
  BY <1>1, <1>3 DEF InstallInv, InstallTypeOK, Go, Working, Resting
<1>5. OneDir' /\ Kept'
  BY <1>1, <1>2 DEF InstallInv, OneDir, Kept, Dir
<1>6. Servers'
  <2>1. \/ server' = server \/ server' = NoServer
        \/ server' = [kind |-> "lighttpd", dir |-> Opt]
        \/ kind[i] \in WebServers /\ server' = [kind |-> kind[i], dir |-> Dir]
    BY DEF Kill, StartLighttpd, StartWeb, Dir
  <2>2. kind[i] \in WebServers => ~router.keenetic
    BY DEF InstallInv, Servers, WebServers
  <2>3. Dir' = Dir
    BY <1>1 DEF Dir
  <2> QED
    BY <1>1, <1>3, <2>1, <2>2, <2>3 DEF InstallInv, InstallTypeOK, Servers, Go
<1>7. Quiet'
  <2> SUFFICES ASSUME i \in quiet
               PROVE  /\ Alone(i)'
                      /\ at'[i] \in Working => \A f \in Needed(i)' : files'[f] = "whole"
    BY <1>1, <1>2 DEF Quiet
  <2>1. Alone(i)'
    BY <1>3, AloneKept DEF InstallInv, Quiet
  <2>2. Needed(i)' = Needed(i)
    BY <1>1 DEF Needed, Scripts, Dir
  <2> QED
    BY <1>1, <2>1, <2>2 DEF InstallInv, Quiet, Working
<1> QED
  BY <1>4, <1>5, <1>6, <1>7 DEF InstallInv

\* The path of a PAC that lighttpd serves.
LEMMA PhoneHasPac ==
    ASSUME InstallInv
    PROVE  Phone = "pac" <=>
             /\ server = [kind |-> "lighttpd", dir |-> Opt]
             /\ files[<<Opt, "pac">>] = "whole" \/ files[<<Opt, "proxy.pac">>] = "whole"
<1>1. /\ files[<<Opt, "pac">>] \in {"none", "torn", "whole"}
      /\ files[<<Opt, "proxy.pac">>] \in {"none", "torn", "whole"}
  BY PlacesHave, DirIsOne DEF InstallInv, InstallTypeOK
<1>2. CASE server = [kind |-> "lighttpd", dir |-> Opt]
  BY <1>1, <1>2 DEF Phone, Get, NoServer
<1>3. CASE server = NoServer
  BY <1>3 DEF Phone, Get, NoServer
<1>4. CASE server.kind \in WebServers
  BY <1>4 DEF Phone, Get, WebServers
<1> QED
  BY <1>2, <1>3, <1>4 DEF InstallInv, Servers

\* The installation is verified, or not.
LEMMA ProbeKeeps ==
    ASSUME InstallInv, NEW i \in Installs, Probe(i)
    PROVE  InstallInv'
<1>1. /\ UNCHANGED <<router, files, server, kind, todo, reboots, quiet>> /\ at[i] = "probe"
      /\ Go(i, "ok") \/ Go(i, "error")
  BY DEF Probe
<1>2. quiet \subseteq {i}
  BY <1>1, AtWork DEF Resting
<1>3. kept' \in BOOLEAN
  BY DEF Probe
<1>4. InstallTypeOK'
  BY <1>1, <1>3 DEF InstallInv, InstallTypeOK, Go, Working, Resting
<1>5. OneDir' /\ Servers'
  BY <1>1 DEF InstallInv, InstallTypeOK, OneDir, Servers, Dir, Go
<1>6. Quiet'
  <2>1. at'[i] \notin Working
    BY <1>1 DEF InstallInv, InstallTypeOK, Go, Working
  <2>2. i \in quiet => Alone(i)'
    BY <1>1, AloneKept DEF InstallInv, Quiet
  <2> QED
    BY <1>1, <1>2, <2>1, <2>2 DEF Quiet
<1>7. Kept'
  <2> SUFFICES ASSUME kept' PROVE Kept'
    BY DEF Kept
  <2>1. /\ Phone = "pac" /\ i \in quiet /\ ~router.keenetic /\ router.sbin
        /\ kind[i] = "lighttpd" /\ router.entware
    BY DEF Probe
  <2>2. \A f \in ForBoot : files[f] = "whole"
    BY <1>1, <2>1 DEF InstallInv, Quiet, Working, Needed
  <2>3. \A j \in Installs : at'[j] \in Resting
    BY <1>1, <2>1 DEF InstallInv, InstallTypeOK, Quiet, Alone, Go, Resting
  <2> QED
    BY <1>1, <2>1, <2>2, <2>3, PhoneHasPac DEF Kept
<1> QED
  BY <1>4, <1>5, <1>6, <1>7 DEF InstallInv

\* /tmp is lost, and S80lunaproxy runs where it can.
LEMMA RebootKeeps ==
    ASSUME InstallInv, Reboot
    PROVE  InstallInv'
<1>1. /\ UNCHANGED <<router, kind, todo, quiet>> /\ reboots' \in Nat
      /\ kept' = (kept /\ router.rcCommon)
      /\ files' = [p \in Places |-> IF p[1] = "/tmp/pac" THEN "none" ELSE files[p]]
      /\ at' = [i \in Installs |-> IF at[i] \in {"idle", "ok"} THEN at[i] ELSE "error"]
  BY DEF Reboot, InstallInv, InstallTypeOK
<1>2. server' = IF /\ router.rcCommon /\ router.sbin
                   /\ files[Init_d] = "whole" /\ files[<<Opt, "lighttpd.conf">>] = "whole"
                THEN [kind |-> "lighttpd", dir |-> Opt] ELSE NoServer
  BY DEF Reboot
<1>3. \A p \in Places : files'[p] = files[p] \/ files'[p] = "none"
  BY <1>1
<1>4. \A p \in {Init_d, <<Opt, "lighttpd.conf">>, <<Opt, "pac">>, <<Opt, "proxy.pac">>} :
         p \in Places /\ files'[p] = files[p]
  <2>1. \A p \in {Init_d, <<Opt, "lighttpd.conf">>, <<Opt, "pac">>, <<Opt, "proxy.pac">>} :
           p \in Places /\ p[1] # "/tmp/pac"
    BY PlacesHave, DirIsOne DEF Opt, Dirs
  <2> QED
    BY <1>1, <2>1
<1>5. \A i \in Installs : at'[i] \in Resting
  BY <1>1 DEF Resting
<1>6. InstallTypeOK'
  <2>1. kept' \in BOOLEAN
    BY <1>1, Zenon DEF InstallInv, InstallTypeOK, Routers
  <2> QED
    BY <1>1, <1>5, <2>1 DEF InstallInv, InstallTypeOK, Resting
<1>7. OneDir'
  BY <1>1, <1>3 DEF InstallInv, OneDir, Dir
<1>8. Servers'
  BY <1>1, <1>2 DEF InstallInv, InstallTypeOK, Servers
<1>9. Quiet'
  BY <1>1, <1>5 DEF Quiet, Alone, InstallInv, InstallTypeOK, Working, Resting
<1>10. Kept'
  <2> SUFFICES ASSUME kept, router.rcCommon PROVE Kept'
    BY <1>1, Zenon DEF Kept
  <2>1. /\ router.sbin /\ files[Init_d] = "whole" /\ files[<<Opt, "lighttpd.conf">>] = "whole"
        /\ files[<<Opt, "pac">>] = "whole" \/ files[<<Opt, "proxy.pac">>] = "whole"
    BY DEF InstallInv, Kept, ForBoot
  <2> QED
    BY <1>1, <1>2, <1>4, <1>5, <2>1 DEF Kept, ForBoot
<1> QED
  BY <1>6, <1>7, <1>8, <1>9, <1>10 DEF InstallInv

\* The inductive invariant.
LEMMA InstallSound == InstallSpec => []InstallInv
<1>1. InstallInit => InstallInv
  <2> SUFFICES ASSUME InstallInit PROVE InstallInv
    OBVIOUS
  <2>1. InstallTypeOK
    <3>1. router \in Routers /\ files \in [Places -> {"none", "torn", "whole"}]
          /\ at \in [Installs -> Working \cup Resting \cup {"choose"}]
          /\ kind \in [Installs -> WebServers \cup {"none", "lighttpd"}]
      BY DEF InstallInit, Resting
    <3>2. todo \in [Installs -> Seq(Places)]
      BY DEF InstallInit
    <3> QED
      BY <3>1, <3>2 DEF InstallInit, InstallTypeOK
  <2>2. OneDir
    <3>1. \A i \in Installs : Entries(todo[i]) = {}
      BY DEF InstallInit, Entries
    <3> QED
      BY <3>1 DEF InstallInit, OneDir
  <2>3. Servers /\ Quiet /\ Kept
    BY DEF InstallInit, Servers, Quiet, Kept
  <2> QED
    BY <2>1, <2>2, <2>3 DEF InstallInv
<1>2. InstallInv /\ [InstallNext]_installVars => InstallInv'
  <2> SUFFICES ASSUME InstallInv, [InstallNext]_installVars PROVE InstallInv'
    OBVIOUS
  <2>1. CASE InstallNext
    BY <2>1, BeginKeeps, ChooseKeeps, WriteKeeps, ServerStepsKeep, ProbeKeeps, RebootKeeps
       DEF InstallNext
  <2>2. CASE UNCHANGED installVars
    BY <2>2 DEF installVars, InstallInv, InstallTypeOK, OneDir, Servers, Quiet, Kept, Alone,
                Needed, Scripts, Dir
  <2> QED
    BY <2>1, <2>2
<1> QED
  BY <1>1, <1>2, PTL DEF InstallSpec

\* Commands and uploads that fail at any point leave the state well typed.
THEOREM InstallTypes == InstallSpec => []InstallTypeOK
<1>1. InstallInv => InstallTypeOK
  BY DEF InstallInv
<1> QED
  BY InstallSound, <1>1, PTL

\* A verified installation with Entware's lighttpd goes on serving the PAC until another one
\* begins: on a router that runs scripts like S80lunaproxy however often it reboots, and up
\* to its first reboot on any other.
THEOREM ServesThroughReboots == InstallSpec => []KeepsServing
<1>1. InstallInv => KeepsServing
  BY PhoneHasPac DEF KeepsServing, InstallInv, Kept
<1> QED
  BY InstallSound, <1>1, PTL

\* Where the answer that verified a quiet installation came from.
LEMMA VerifiedBeats ==
    ASSUME InstallInv, NEW i \in Installs, i \in quiet, at[i] = "probe", Phone # "404"
    PROVE  Beats
<1>1. server # NoServer
  <2>1. ASSUME server = NoServer PROVE Get("proxy.pac") = "404" /\ Get("pac") = "404"
    BY <2>1 DEF Get, NoServer
  <2> QED
    BY <2>1 DEF Phone
<1>2. files[<<server.dir, "proxy.pac">>] # "none" \/ files[<<server.dir, "pac">>] # "none"
  BY <1>1 DEF Phone, Get
<1>3. server.dir \in Dirs
  BY <1>1, DirIsOne DEF InstallInv, Servers
<1>4. server.dir = Dir
  BY <1>2, <1>3, PlacesHave DEF InstallInv, OneDir
<1>5. files[Scripts] = "whole"
  BY DEF InstallInv, Quiet, Working, Needed
<1>6. router.keenetic => server.kind = "lighttpd"
  BY <1>1 DEF InstallInv, Servers
<1> QED
  BY <1>1, <1>4, <1>5, <1>6 DEF Beats, Scripts

\* What is worth in the moment of its success that an installation was verified,
\* whatever has failed and whoever else was installing (RouterInstall, probeRouterPAC).
THEOREM VerifiedInstallations == InstallSpec => VerifiedServes
<1>1. ASSUME InstallInv, [InstallNext]_installVars, NEW i \in Installs,
             at[i] # "ok", at'[i] = "ok"
      PROVE  (server.kind = "lighttpd" => Phone = "pac") /\ (i \in quiet => Beats)
  <2>1. PICK j \in Installs : Probe(j)
    <3>1. InstallNext
      BY <1>1 DEF installVars
    <3>2. \A j \in Installs : ~(\E step \in {"idle", "choose", "write", "kill", "start", "probe", "error"} : Go(j, step))
             /\ ~UNCHANGED at
      BY <1>1 DEF InstallInv, InstallTypeOK, Go
    <3>3. ~Reboot
      BY <1>1 DEF Reboot
    <3> QED
      BY <3>1, <3>2, <3>3 DEF InstallNext, Begin, Choose, Chosen, Write, Kill, StartLighttpd,
                              StartWeb, Fails
  <2>2. i = j /\ at[i] = "probe" /\ Phone # "404"
    BY <1>1, <2>1 DEF InstallInv, InstallTypeOK, Probe, Go
  <2>3. ASSUME server.kind = "lighttpd" PROVE Phone = "pac"
    <3>1. server = [kind |-> "lighttpd", dir |-> Opt]
      BY <1>1, <2>3 DEF InstallInv, Servers, NoServer, WebServers
    <3>2. /\ files[<<Opt, "pac">>] \in {"none", "torn", "whole"}
          /\ files[<<Opt, "proxy.pac">>] \in {"none", "torn", "whole"}
      BY <1>1, PlacesHave, DirIsOne DEF InstallInv, InstallTypeOK
    <3>3. Get("proxy.pac") \in {"404", "500", "pac"} /\ Get("pac") \in {"404", "500", "pac"}
      BY <3>1, <3>2 DEF Get, NoServer
    <3> QED
      BY <2>2, <3>3 DEF Phone
  <2> QED
    BY <1>1, <2>2, <2>3, VerifiedBeats
<1>2. InstallInv /\ [InstallNext]_installVars =>
        [\A i \in Installs : at[i] # "ok" /\ at'[i] = "ok" =>
          /\ server.kind = "lighttpd" => Phone = "pac"
          /\ i \in quiet => Beats]_installVars
  BY <1>1
<1> QED
  BY InstallSound, <1>2, PTL DEF InstallSpec, VerifiedServes

====
