---- MODULE SystemSettings ----
(***************************************************************************)
(* What the program changes in Windows and has to put back: the system     *)
(* proxy (sentinel.go) and the DNS servers of a network adapter (dns.go).  *)
(*                                                                         *)
(* start, stop and restart change the proxy under a.mu or in a goroutine,  *)
(* the DNS servers always in a goroutine.  The registry's three values are *)
(* one here and are written at once; the keys of the user can be opened.   *)
(***************************************************************************)
EXTENDS Naturals

CONSTANTS
    Adapters,   \* the network adapters of the machine
    MaxGen      \* bound on the number of successful starts

ASSUME MaxGenAssumption == MaxGen \in Nat

VARIABLES
    up,         \* the program runs
    started,    \* start has succeeded since then
    running,    \* a.running
    gen,        \* a.gen
    opt,        \* SetSystemProxy, and whether DNSMode names a provider
    reg,        \* the proxy settings of Windows
    snapshot,   \* origSystemProxy, or "none" before proxyBackedUp
    sets,       \* the goroutines of starts that are to run SetSystemProxy
    dns,        \* the DNS servers of each adapter
    active,     \* the adapter that leads to the internet
    origDNS,    \* origDNSAdapter and origDNSServers, or NoBackup
    applies,    \* the goroutines in ApplyDNS
    restores,   \* the goroutines in RestoreDNS
    original,   \* history: the proxy settings when the program had come up
    proxyLost,  \* history: an event the code does not undo hit the proxy settings
    dnsLost     \* history: or the DNS servers

life == <<up, started, running, gen>>
proxyVars == <<reg, snapshot, sets, original, proxyLost>>
dnsVars == <<dns, origDNS, applies, restores, dnsLost>>
vars == <<life, opt, active, proxyVars, dnsVars>>

Gens == 1..MaxGen
Options == [proxy : BOOLEAN, dns : BOOLEAN]
\* The user's settings, this program's address, and disabled.
Proxies == {"user", "luna", "off"}
\* The user's servers, the chosen provider's, and automatic ones.
Servers == {"user", "luna", "auto"}
NoBackup == [on |-> "none", servers |-> "none"]

TypeOK ==
    /\ up \in BOOLEAN /\ started \in BOOLEAN /\ running \in BOOLEAN
    /\ gen \in 0..MaxGen
    /\ opt \in Options
    /\ reg \in Proxies
    /\ snapshot \in Proxies \cup {"none"}
    /\ sets \subseteq Gens
    /\ original \in Proxies
    /\ dns \in [Adapters -> Servers]
    /\ active \in Adapters
    /\ origDNS \in [on : Adapters, servers : Servers] \cup {NoBackup}
    /\ applies \subseteq [gen : Gens, at : {"find", "backup", "set"}, on : Adapters]
    /\ restores \subseteq [gen : Gens, at : {"read", "set"}]
    /\ proxyLost \in BOOLEAN /\ dnsLost \in BOOLEAN

\* The program has never run; the settings are the user's.
Init ==
    /\ up = FALSE /\ started = FALSE /\ running = FALSE
    /\ gen = 0
    /\ opt \in Options
    /\ reg = "user" /\ original = "user" /\ snapshot = "none" /\ sets = {}
    /\ dns = [a \in Adapters |-> "user"]
    /\ active \in Adapters
    /\ origDNS = NoBackup
    /\ applies = {} /\ restores = {}
    /\ proxyLost = FALSE /\ dnsLost = FALSE

----------------------------------------------------------------------------
(* sentinel.go *)

\* Mutant: the snapshot is taken only once SetSystemProxy may have run.
BackupSystemProxyLate == snapshot' \in {reg, "luna"}

\* The settings as they are, at every start.
BackupSystemProxy == snapshot' = reg

\* Without a snapshot the proxy is disabled, whoever set it.
RestoreSystemProxy == reg' = IF snapshot = "none" THEN "off" ELSE snapshot

\* Mutant: the dial's verdict is taken the wrong way round.
SentinelCheckInverted ==
    \/ UNCHANGED <<reg, proxyLost>>
    \/ reg = "user" /\ reg' = "off" /\ proxyLost' = TRUE

\* A proxy that does not answer is disabled: this program's, which does not
\* run yet, and the user's own, should it be down.
SentinelCheck ==
    \/ reg = "luna" /\ reg' = "off" /\ UNCHANGED proxyLost
    \/ reg # "luna" /\ UNCHANGED <<reg, proxyLost>>
    \/ reg = "user" /\ reg' = "off" /\ proxyLost' = TRUE

\* SetSystemProxy, in the goroutine of start n.
SetSystemProxy(n) ==
    /\ n \in sets
    /\ sets' = sets \ {n}
    /\ reg' = "luna"
    /\ UNCHANGED <<life, opt, active, snapshot, original, proxyLost, dnsVars>>

----------------------------------------------------------------------------
(* dns.go *)

ApplyMoves(r, to) == applies' = (applies \ {r}) \cup {[r EXCEPT !.at = to]}
ApplyEnds(r) == applies' = applies \ {r}

\* getActiveAdapterName: without one ApplyDNS ends.
ApplyFinds(r) ==
    /\ r.at = "find"
    /\ \/ ApplyEnds(r)
       \/ applies' = (applies \ {r}) \cup {[r EXCEPT !.at = "backup", !.on = active]}
    /\ UNCHANGED <<life, opt, active, proxyVars, dns, origDNS, restores, dnsLost>>

\* Mutant: the last backup is not looked for.
BackupDNSAgain(a) == origDNS' = [on |-> a, servers |-> dns[a]] /\ UNCHANGED dnsLost

\* BackupDNS under dnsMu, once in the life of the program; if the query fails the
\* servers are to be automatic.
BackupDNS(a) ==
    \/ origDNS # NoBackup /\ UNCHANGED <<origDNS, dnsLost>>
    \/ /\ origDNS = NoBackup
       /\ \/ origDNS' = [on |-> a, servers |-> dns[a]] /\ UNCHANGED dnsLost
          \/ origDNS' = [on |-> a, servers |-> "auto"] /\ dnsLost' = TRUE

ApplyBacksUp(r) ==
    /\ r.at = "backup"
    /\ BackupDNS(r.on)
    /\ ApplyMoves(r, "set")
    /\ UNCHANGED <<life, opt, active, proxyVars, dns, restores>>

\* The provider's servers are set, or the command fails.
ApplySets(r) ==
    /\ r.at = "set"
    /\ \/ /\ dns' = [dns EXCEPT ![r.on] = "luna"]
          /\ dnsLost' = (dnsLost \/ r.on # origDNS.on)
       \/ UNCHANGED <<dns, dnsLost>>
    /\ ApplyEnds(r)
    /\ UNCHANGED <<life, opt, active, proxyVars, origDNS, restores>>

\* RestoreDNS reads the backup, which no one changes any more, under dnsMu.
RestoreReads(r) ==
    /\ r.at = "read"
    /\ restores' = (restores \ {r})
                   \cup (IF origDNS = NoBackup THEN {} ELSE {[r EXCEPT !.at = "set"]})
    /\ UNCHANGED <<life, opt, active, proxyVars, dns, origDNS, applies, dnsLost>>

\* Mutant: the servers go to the adapter now in use.
RestoreSetsActive(r) ==
    /\ r.at = "set"
    /\ dns' = [dns EXCEPT ![active] = origDNS.servers]
    /\ restores' = restores \ {r}
    /\ UNCHANGED <<life, opt, active, proxyVars, origDNS, applies, dnsLost>>

RestoreSets(r) ==
    /\ r.at = "set"
    /\ \/ /\ dns' = [dns EXCEPT ![origDNS.on] = origDNS.servers]
          /\ UNCHANGED dnsLost
       \/ dnsLost' = TRUE /\ UNCHANGED dns
    /\ restores' = restores \ {r}
    /\ UNCHANGED <<life, opt, active, proxyVars, origDNS, applies>>

----------------------------------------------------------------------------
(* The life cycle, as far as the settings can tell *)

\* start that will not fail, from where it reads the option.  It holds a.mu until running is
\* set, but saveSettings needs no lock: for a change of the option the proxy runs from here on.
Start ==
    /\ up /\ ~running
    /\ gen < MaxGen
    /\ running' = TRUE /\ started' = TRUE
    /\ gen' = gen + 1
    /\ IF opt.dns
       THEN applies' = applies \cup {[gen |-> gen + 1, at |-> "find", on |-> active]}
       ELSE UNCHANGED applies
    /\ IF opt.proxy
       THEN BackupSystemProxy /\ sets' = sets \cup {gen + 1}
       ELSE UNCHANGED <<snapshot, sets>>
    /\ UNCHANGED <<up, opt, active, reg, original, proxyLost, dns, origDNS, restores, dnsLost>>

\* stop, and restart before it calls start: what is put back is what is
\* configured by now.
Stop ==
    /\ running
    /\ running' = FALSE
    /\ IF opt.dns
       THEN restores' = restores \cup {[gen |-> gen, at |-> "read"]}
       ELSE UNCHANGED restores
    /\ IF opt.proxy THEN RestoreSystemProxy ELSE UNCHANGED reg
    /\ proxyLost' = (proxyLost \/ sets # {})
    /\ dnsLost' = (dnsLost \/ applies # {})
    /\ UNCHANGED <<up, started, gen, opt, active, snapshot, sets, original, dns, origDNS,
                   applies>>

\* saveSettings; the restart it leads to is a Stop and a Start.
SaveSettings ==
    /\ up
    /\ opt' \in Options \ {opt}
    /\ proxyLost' = (proxyLost \/ (running /\ opt'.proxy # opt.proxy))
    /\ dnsLost' = (dnsLost \/ (running /\ opt.dns /\ ~opt'.dns))
    /\ UNCHANGED <<life, active, reg, snapshot, sets, original, dns, origDNS, applies, restores>>

\* main: SentinelCheck, before anything else.
Boot ==
    /\ ~up
    /\ up' = TRUE /\ started' = FALSE
    /\ SentinelCheck
    /\ original' = reg'
    /\ UNCHANGED <<running, gen, opt, active, snapshot, sets, dnsVars>>

\* The process ends: a crash, the tray's quit item, or os.Exit after shutdown,
\* which waits for no goroutine.
Exit ==
    /\ up
    /\ up' = FALSE /\ running' = FALSE
    /\ snapshot' = "none" /\ sets' = {}
    /\ origDNS' = NoBackup /\ applies' = {} /\ restores' = {}
    /\ proxyLost' = (proxyLost \/ running \/ sets # {})
    /\ dnsLost' = (dnsLost \/ running \/ applies # {} \/ restores # {})
    /\ UNCHANGED <<started, gen, opt, active, reg, original, dns>>

\* The user moves to another network.
SwitchAdapter ==
    /\ active' \in Adapters \ {active}
    /\ UNCHANGED <<life, opt, proxyVars, dnsVars>>

Next ==
    \/ Boot \/ Start \/ Stop \/ SaveSettings \/ Exit \/ SwitchAdapter
    \/ \E n \in Gens : SetSystemProxy(n)
    \/ \E r \in applies : ApplyFinds(r) \/ ApplyBacksUp(r) \/ ApplySets(r)
    \/ \E r \in restores : RestoreReads(r) \/ RestoreSets(r)

Spec == Init /\ [][Next]_vars

----------------------------------------------------------------------------
(* Properties *)

\* With the proxy off and SetSystemProxy done, Windows has the user's own proxy
\* settings again, over any number of starts, stops and runs of the program,
\* unless a stop overtook a SetSystemProxy, the option was changed after a start had
\* read it, which it does well before it sets running, and while that proxy ran, the
\* program ended while it ran, or the user's own proxy was down.
ProxySettingsBack == ~running /\ sets = {} /\ ~proxyLost => reg = "user"

\* Likewise for the DNS servers of every adapter, unless a stop overtook an
\* ApplyDNS, the option was switched off after a start had read it and while that proxy
\* ran, another adapter was in use than at the first start, a command failed, or the
\* program ended before the servers were back.
DnsServersBack ==
    ~running /\ applies = {} /\ restores = {} /\ ~dnsLost => \A a \in Adapters : dns[a] = "user"

\* The backup of the DNS servers is the user's, even with ApplyDNS and RestoreDNS
\* of several starts and stops at work at the same time.
DnsBackupIsUsers == origDNS # NoBackup /\ ~dnsLost => origDNS.servers = "user"

\* Whatever an earlier run of the program left behind, Windows is off its dead proxy
\* once the program is up again, before and without any start (SentinelCheck).
SentinelFrees == up /\ ~started => reg # "luna"

====
