# LunaProxy: a verification project

LunaProxy is a Windows program that runs an HTTP proxy for the devices of a
network, gives them a PAC file, and defeats deep packet inspection with an engine
of its own, with WinDivert or with GoodbyeDPI. This directory holds TLA+ models of
its Go code, the TLC configurations that check them, and proofs that TLAPS checks.
Paths are relative to the repository; comments of the code are quoted in Turkish.

Run from this directory, for instance:

    tlc -workers 2 -config MC_AppLifecycle.cfg MC_AppLifecycle
    tlapm AppLifecycleProofs.tla

`PROJECT.json` lists components, runs, mutants, the lines each definition models,
findings, hazards and theorems.

## 1. The system

### Components

| Component | State | Operations | Talks to |
|---|---|---|---|
| Life cycle, `main.go` | `app`: running, gen, proxySrv, pacSrv, pacPort, dpiSource, stopCancel, stopDone, under `a.mu` | start, stop, restart, shutdown | everything below |
| Callers: `tray.go`, `ipc.go` | toggleBusy | toggleProxy, saveSettings, windowExit, quit | the life cycle, each in a goroutine |
| Watchdog, `watchdog.go` | w.stop; the counters of `stats` | Start, Stop, loop, check, reset | life cycle, GoodbyeDPI, proxy engine |
| GoodbyeDPI, `goodbyedpi.go` | proc, running, under `m.mu`; the processes themselves | Start, Stop, wait goroutine | life cycle, watchdog |
| DPI source, `dpi_priority.go` | none | ResolveDPI, seconds of queries | start-up goroutine of a generation |
| WinDivert engine, `dpi_divert.go` | handles, scope, apps, session number, strategy, probing, tables of addresses | startDivert, stopDivert, four loops and their goroutines | life cycle, DoH, configuration |
| Proxy engine, `proxy.go`, `dpi_engine.go` | strategy, automatic list, counters | handleConnect(DPI), pickStrategy, confirm a block | DoH, WinDivert, configuration |
| DoH, `doh.go` | cache | dohResolve | three providers in parallel |
| PAC, `pac.go` | pacBody | setPACRunning, setPACDirect, PAC server | phones, router |
| Router, `router.go`, `router_setup.go` | hbStop; on the router four files in /tmp | pushes with retries, heartbeat goroutines, CGI scripts | life cycle |
| Router installation, `router_setup.go`, `network.go` | none; the router's disks, its web server | RouterInstall, one SSH command or upload after the other, probe | the window, each call in a goroutine |
| Windows proxy and sentinel, `sentinel.go` | backup; the registry | backup, set, restore, SentinelCheck | life cycle, `main` |
| DNS, `dns.go` | backup once | apply, restore, each in a goroutine | life cycle |
| Configuration, `config.go` | current, under cfgMu; the file | update, save, load | everyone |
| Log and window, `logs.go`, `ipc.go` | 500 entries; lastLogSent | Add, pushLogs, clearLogs, messages | everyone |
| Packets, `dpi_packet.go`, `tls_parse.go` | none | segments, records, fake hello, TTL guess | WinDivert and proxy engine |
| Status, mDNS, Tailscale, updater, tray icons | snapshots | display, downloads | - |

### What is hard

* **Locks given up halfway.** `start` waits for a stop goroutine without `a.mu`;
  `restart` shuts the old server down without it; the start-up goroutine of a
  generation resolves its source, opens WinDivert and launches GoodbyeDPI seconds
  after `start` returned; `running` is read without the lock by the watchdog and by
  `saveSettings`.
* **Goroutines that outlive their reason**: the goroutine of `stop` closes its server
  up to eleven seconds later; the wait goroutine of a killed process, the closer
  of a broken WinDivert session, the pushes to the router and the DNS and proxy
  settings act when something else may be current.
* **A router that must be told**, over a network that loses and delays requests, by a
  program that may be killed: a heartbeat with a time limit is the last resort.
* **Positions, tables and backups that go stale**: `lastLogSent` in a trimmed buffer, the backup
  of the Windows proxy taken while this program's own address is set, addresses and TTLs
  remembered of a list and of connections that are no more, a form that is saved whole
  long after it was filled, a file written outside the lock.
* **Handlers with many exits**: a CONNECT may fail at each of a dozen places with up to three
  connections in its hands, and its first data may be sent a second time.
* **Waits without a deadline**: the Shutdown of the PAC server, called under `a.mu`, and every
  write of a handler last as long as the other side likes.
* **An installation that may stop anywhere**, over SSH, on routers of several kinds.

What makes the components correct: a proxy that is said to run listens, and one that
is not gives its port back; no listener is leaked or closed twice; PAC, DPI source
and WinDivert follow the running generation; a wait is for ever only where a peer makes it
so; GoodbyeDPI is
never unwatched; the router sends phones to the running proxy and lets go of one that is gone; the
log reaches the window once and in order; a handler leaves nothing open and sends the hello
once on what it keeps; a host is listed only on evidence; what the server reads is the
client's hello; the next run finds the list this one had; a verified installation serves.

## 2. The modules

| Module | Models | Role |
|---|---|---|
| `GDPIManager` | `goodbyedpi.go` | the process manager; EXTENDed by `AppLifecycle` and `Watchdog` |
| `AppLifecycle` | `main.go` and the callers, the PAC server and body, sessions of WinDivert | component |
| `ProxyService` | nothing in particular: what devices may rely on | abstract specification |
| `MC_AppLifecycle` | - | instances for TLC |
| `Watchdog` | `watchdog.go`, and what start, stop and the handlers of `proxy.go` do with it | component; composes the loops, GoodbyeDPI and the counters |
| `Divert` | the sessions of `dpi_divert.go`, the strategy test of `dpi_engine.go` | component; inside `AppLifecycle` a session is one value |
| `MC_Divert` | - | instance for TLC |
| `DivertTraffic` | the tables of `dpi_divert.go`: addresses, TTLs, hellos, hosts under confirmation | component |
| `MC_DivertTraffic` | - | instance for TLC |
| `Segments` | what `dpi_packet.go`, `tls_parse.go`, handleDivertTLS and desyncConn send for a hello; the network; the server's TCP | component |
| `DohResolver` | `doh.go` | component; EXTENDed by `ConnectDPI` |
| `ConnectDPI` | handleConnect and pipeConns of `proxy.go`, handleConnectDPI and dialBypass of `dpi_engine.go` | component; composes the handlers, the resolver and the list |
| `RouterPac` | `pac.go` (pushes), `router.go`, the scripts of `router_setup.go` | component |
| `RouterInstall` | RouterInstall, routerInstallKeenetic and their helpers, `router_setup.go`; the probes | component |
| `SystemSettings` | `sentinel.go`, `dns.go`, what start, stop, saveSettings and `main` do with them | component |
| `ConfigStore` | `config.go`, addBlockedHost, the settings form and the scripts queued for it | component |
| `LogStream` | `logs.go`, pushLogs and clearLogs of `ipc.go` | component |
| `AppLifecycleProofs`, `WatchdogProofs`, `SystemSettingsProofs`, `ConfigStoreProofs`, `LogStreamProofs` | - | theorems about the module each is named for |
| `DivertProofs` | - | theorems about `Divert` and `DivertTraffic` |
| `ConnectDPIProofs` | - | theorems about `ConnectDPI` with `DohResolver`, and `Segments` |
| `RouterProofs` | - | theorems about `RouterPac` and `RouterInstall` |

The last three modules EXTEND two components each. `DivertTraffic`, `Segments` and `RouterInstall`
therefore carry their own name in front of what every specification has (`TrafficInit`,
`SegmentsNext`, `InstallSpec`, `routerVars`, ...). Their state is disjoint from the other component's;
nothing is claimed of the two together.

### AppLifecycle

*State.* One variable per field of `app`, except that a server is named by the
generation of the start that created it (`a.gen` grows by one with each) and
`bound[n]` is the port it listens on; `stopCancel` and `stopDone` are always set
together and are one variable, the generation of the server their goroutine is to close.
`stopper[n]` and `dpi[n]` are the program counters of the goroutines that stop and start
leave behind for generation n. `pc[t]` and `arg[t]` belong to the threads of a pool:
each thread is one goroutine that calls into the life cycle (a toggle, the restart of
saved settings, a check of the watchdog with the restart it spawns, the exit of the
window, `main` with autostart) and becomes a new one when it is idle.

*Steps.* A section of code under `a.mu` is one step: nobody else sees its middle. The one
exception is a section that shuts the PAC server down, because that Shutdown has no deadline
(main.go:140, 296): `StartMovesPac` and `ClosePac` begin it, with the old PAC server no
longer listening, `PacMoved` and `PacClosed` are its return, and in between the thread
holds `a.mu` (`Holding`), which the steps of all others need (`MuFree`). In `moving` are the ports the
start that moves the PAC server has read: a save may change the configuration meanwhile, and its
proxy port is bound although it does not run yet.
Everything outside is a step of its own: the unlocked wait in `start` (`Start`, then
`StartResumes`), the two halves of `restart` (`Restart`, `RestartShuts`, then
`Start`), the three stages of the stop goroutine (`Pushed`, `EndGrace`, `Drained`),
the stages of the start-up goroutine (`Resolve`, `StartDivert`, `Launch`). The two
branches of the select in the stop goroutine are one step: cancelling it only makes
the step come sooner, and nothing in the model depends on how soon.

*Failures.* Binding a port fails if this process holds it (`Held`) and may fail at any
time otherwise, because another program has it; `StartPacFails` is the path that has
bound the proxy and has no PAC server in the end. ResolveDPI returns any source or fails;
opening WinDivert may fail; GoodbyeDPI may not be found, may refuse to start, may die.

*Merged.* "manual" stands for the two sources with a process of our own, "service" for
the three that are left alone, "unset" for the empty string. The watchdog's reads of
IsRunning and dpiSource, and its second ResolveDPI, are one step with what follows.
What start and stop hand to other goroutines and never look at again (pushes, DNS, the
Windows proxy) is in `RouterPac` and `SystemSettings`.

*Exit* is os.Exit, from the window after `shutdown`, from the tray without it, or from
the updater; nothing happens after it.

### GDPIManager

Start, Stop and the body of the wait goroutine hold `m.mu` and are one step each;
processes are numbered; `alive` is what Windows runs, `waiting` the wait goroutines that
have not finished. In `AppLifecycle` and `Watchdog` Start is called by the start-up goroutine and
the watchdog, Stop by stop and restart.

### Watchdog

`AppLifecycle` has a check of the watchdog as one of its callers; here are the loops that make the
checks. A stop channel is named by the start that made it, and so is the loop started with it:
`at[l]` is its program counter, `on[l]` the channel its select waits for, read anew from
`stop` (`w.stop`) at every turn, as the code does. So a loop that is in check while start
calls Stop and Start goes on with the new channel; the model has it, and the properties
allow it. start holds `a.mu` but the loops and the DPI goroutine do not, so start is four
steps (`Start`, `Reset`, `WatchdogStop`, `WatchdogStart`); stop and the first half of restart
are one. `launching` counts start-up goroutines past their last check of the generation. The
counters are integers and do go below zero. `ConnsCounted` says what the number shown ought to be
and how far the code may miss it: never more than the connections there are, and less by those of
earlier starts at most. A reset that left the counter alone would satisfy it with nothing missed.
What a late launch or an old wait goroutine
leaves behind is in the history variable `stray`, which `NoStrayProcess` excepts.

### ProxyService

At most one proxy is in service; the PAC file names its port exactly as long as it is;
the WinDivert engine works for it alone; a proxy out of service gives its port back and
never returns; nobody listens on a port twice. The refinement mapping is
`latest <- gen, serving <- proxySrv, port <- bound, advert <- pacBody, engine <- divert`.

### Divert

A session of WinDivert is a pair of handles, a goroutine that reads (`loop[n]`) and one that
tests strategies (`test[n]`). `stop[p]` is the program counter of a goroutine in stopDivert
with the handles it has taken out of `divertHandles` (`session`): `stop[0]` is the one that
start, stop and restart run under `a.mu`, which may go on into startDivert (`Open`, `OpenRst`,
`Publish`, `Launch` and the failures of each), `stop[n]` the closer the reader of session n
leaves behind when it fails. Stopping is three steps: take the handles under `divertMu`, let
divertGen grow, close them. Windows reuses the values of closed handles, and divertLoop
compares values: `Open` may return any value that is not open.

A test is the loop of selectDivertStrategy in pickStrategy, one step per access to shared
state: look at divertGen, store the strategy to try, probe, store the choice, switch probing
off. Instead of numbers, each test knows whether divertGen still is its own (`current`). A probe
succeeds or fails as it likes, except that it cannot succeed while a session is open that
nobody reads; `InForce` is what the engine applies to it. `proven` records which strategy was in force when
a probe with a trial strategy got through.

`SettledStrategy` has one exception, `crossed`: a test of an earlier session not yet over when
this one is launched, or a late closer that lets divertGen grow under a published
session. Both are real, and the first one is listed below. Scope and applications are left out;
the tables of addresses and ports are in `DivertTraffic`.

### DivertTraffic

`engine` is the session: open, cleared (stopDivert has cleared blockedIPs and has yet to close the handles;
packets go on being read) or closed. An address is named by the host it was resolved for, a
measured TTL by the server it was measured of, so that the properties can say whose they are.
`asking` are the DoH queries taken over from the client, and whether blockedIPs was
cleared since; `confirm[c]` are the goroutines of confirmBlocked. Packets that read the
tables and change nothing are left out. The tables know a connection by the number of its local
port; Windows gives one number to connections over IPv4 and IPv6, and from several local
addresses. So an end of a connection is a port with a local address (`Ends`), several may be
connected at a time, and each SYN-ACK, also one for a connect that was given up (`LateSynAck`),
takes the place of what was measured for the others. The history variables hold the
exceptions: `excused`, hosts taken off the list or answered late since the last clearing;
`blind`, ends whose connection began while no session was open; `overtaken`, ends whose port has
had another's SYN-ACK since their own.

### Segments

`flow` is chosen at the start and fixed: length, place of the name, sequence number, way to the
server, strategy. A byte is its number; one header byte stands for the five of a TLS record.
`Send` emits what the packet engine or desyncConn emits, `Resend` what the
client's TCP sends again (the whole hello goes through the engine once more, the rest of one
does not), and the packets may arrive in any order, repeatedly or never. A packet whose TTL does not
outlast the routers, or with a wrong checksum, does not count. `buffer` is what the server
keeps: the first byte to arrive for each position. `FakeMayReach` names the ways
too short for the guess, which are in the findings. `ReadsAs` says what a TLS client makes of a
stream: its contents are in one record or in two.

### DohResolver and ConnectDPI

A call of dohResolve is named by the handler that makes it. `asking[q]` counts the goroutines
of providers still at work, also after the call has returned; `channel[q]` is its buffered
channel. Receiving and the timer are the two branches of the select. The cache maps a host to
an answer, a failure or nothing; `overtaken` is history. It expires at any moment.

A handler is a program counter, the connections it has open to the host (one direct, one
bypass, at most), whether the client's connection is its own to close, and the variables of
the functions it runs. Each dial, send, wait and takeover is a step that succeeds or fails;
`Finish` is the return of the handler, with the deferred closes of handleConnectDPI and no
others. A tunnel is the set of its two copy goroutines; one that ends closes the side it
writes to. Dials and reads have deadlines, writes have none: `stalled` holds the peers a
handler is writing to that do not read (`Stall`, `Resume`), and no step behind such a write is
taken meanwhile: not the one after the 200 (`Reply`), after the hello (`DirectSend`,
`BypassSend` and their failures), after the first answer (`SendFirst`), nor the end of the copy.
`list` changes at any time under the handlers.

### ConfigStore

Only the list of domains is modelled of the configuration, in its three places: memory, the file and
the form. updateConfig changes memory under the lock (`Update`), then encodes it
(`SaveReads`), truncates the file and writes it, each a step that others may come between; two
writers may leave a torn file, which loadConfig ignores as a whole. The program may end at
any step (`Boot`). The window's thread handles one message, then runs queued scripts in order.
`clean`, `missed`, `removed` are history and are the exceptions of the two properties, with
`Untold`, the hosts whose finder has yet to tell the window.

### RouterPac

The router's files are `pacJs`, `px` and the age of the heartbeat file; `Served` is
proxy.pac. A push is a record with the attempts it has left; in an attempt the script
may run and be answered, run and not be answered (so it will run again), or not run.
Bodies and addresses are named by the start that produced them. Time advances in ticks of
ten seconds, the heartbeat's period, with every ticker firing at each; a heartbeat is
sent and answered within a tick (its two requests time out after three seconds each).
`missed` counts lost heartbeats in a row and is the assumption about the network:
`MaxMissed + 1 < Expired`, that is, at most one.

`heard`, `arrived` and `overtaken` are history: what has reached the router of the start that runs,
and whether a body of an earlier one came after its own, which is the exception of
`RouterKeepsProxy`. That property asks for the very proxy that runs: an old address is as bad
for the phones as DIRECT, or worse.

`Start` here does not wait for the goroutine of an earlier stop: the code waits, unless
another start is already waiting, so this allows what the code does and more.

### RouterInstall

`router` is the kind of router (Keenetic or not, Entware, lighttpd in /opt/sbin or /opt/bin, the first other
web server, fuser, and `rcCommon`), `files` what each place holds: nothing, a torn file or a whole one. An
installation is a program counter, the server it has chosen and the files it has yet to write;
each upload and command may fail, after which it is over and the router stays as it is. The user
may start another one at any time (each is a goroutine). A reboot loses /tmp, and S80lunaproxy
brings lighttpd back only on routers with `rcCommon`: those that run the scripts of /opt/etc/init.d, have
an /etc/rc.common for its first line to name, and one that does not put its own start() in the
place of the script's because USE_PROCD is set. The installation asks for none of this (isOpenWrt only
picks a message), so the model's routers have it or not, and `kept` ends with the first reboot
of one that has not. `Get` is what the server answers for a path:
lighttpd runs scripts everywhere, the others only under cgi-bin and serve the rest as text.
`quiet` and `kept` are history.

### LogStream

`entries` and `lastLogSent` are the code's; pushLogs is three steps (copy, load and
compare, store and send), clearLogs two. `sent` and `raced` are history. The capacity of
500 is the constant `maxLogEntries`.

### SystemSettings

The proxy settings of Windows are one value, `reg`: the user's, this program's address, or
disabled; the three registry values are written at once and the key can be opened. DNS
servers are kept per adapter, and the adapter in use may change at any time. `opt` is the
part of the configuration that start, stop and restart read: the user changes it while the
proxy runs or not. `sets` are the goroutines about to run SetSystemProxy; `applies` and
`restores` those in ApplyDNS and RestoreDNS, with the place they have reached. The process
may end at any moment and boot again: the settings stay, the backups are gone. Servers
count as the user's if the addresses are; whether they came by DHCP is not told apart.

Some events the code does not undo at all. The history variables `proxyLost` and `dnsLost`
record them, and the properties promise nothing after one: a stop that overtakes a
SetSystemProxy or an ApplyDNS, an option changed while the proxy runs (start reads it at
main.go:119 and sets running at 218; here both are the step `Start`, and "runs" is meant from the
reading on), a second adapter
(BackupDNS keeps one), a failing PowerShell command, an end of the process while something
is set, a proxy of the user's that is down when SentinelCheck dials it. What the
properties do promise is that nothing else loses a setting.

## 3. The runs

| Run | Question | Bounds | Distinct states |
|---|---|---|---|
| lifecycle_safety | Do three goroutines keep listeners, PAC, source and engine consistent, and implement ProxyService? | 3 threads, 2 generations, 2 configurations of 2 ports each, 1 process | 3.3 million (with symmetry) |
| lifecycle_live | Does a waiting start get its turn, and a stopped proxy give back its port? | 2 threads, 2 generations, 1 configuration, no process | 130 thousand |
| watchdog | Who notices a death, what does a stop leave behind, what are the counters worth? | 2 starts, 3 processes, 2 connections | 1.0 million |
| divert_sessions | Who owns a handle, who reads a session, which strategy is left when sessions and their tests overlap? | 3 handles, 2 hosts, 2 strategies, 2 sessions | 5.2 million (with symmetry) |
| divert_traffic | Which addresses are treated, whose TTL is used, who confirms a host? | 2 hosts, 1 port number on 2 local addresses, 2 goroutines of confirmBlocked, `Apart` | 1.8 million (with symmetry) |
| segments | What does the server read, and who sees the name? | every strategy; hellos of 4 and 5 bytes, ways of 0 to 30 routers, sequence numbers modulo 12, 1 retransmission | 300 thousand |
| connect | Which connection carries the hello, what stays open, who is listed, does all of it end? | 2 handlers, 2 hosts (one an address), 2 providers | 420 thousand |
| router_pac | Does the router keep a running proxy and let go of a dead one? | 2 starts, 2 attempts per push, 1 lost heartbeat | 740 thousand |
| router_install | What is a verified installation worth? | 2 installations, 2 reboots, every kind of router | 550 thousand |
| system_settings | When does the user get proxy settings and DNS servers back? | 2 adapters, 2 starts, any number of boots, stops and changes of options | 540 thousand |
| config_store | Which list does the next run load, and which does the form show? | 2 hosts, 1 finder, 2 scripts in the queue | 4.2 million |
| log_stream | What does a position in a trimmed buffer guarantee? | 3 entries, 7 logged, 2 clears | 130 thousand |

All twelve hold. Behaviour the code has against its comments is not hidden in them: each property names it as
an exception, by a history variable or an operator, and the list of findings below says what it is.

*Why the bounds are enough.* The longest interplay in the life cycle has three actors: a
start that waits for a stop goroutine, a second start or restart that overtakes it on
another port, and a stop or another restart; two generations give the old server, the
new one and goroutines of both. The two configurations share no port, so the new proxy can
run while the old one still drains; with the old configuration again, its port is still
taken. A port that one configuration uses for the proxy and the other for the PAC server
makes a start fail, which it may do anyway (another program has the port); the proofs cover
every set of configurations. One process is enough there because
`Watchdog` has the manager with three: one that dies, its successor, and one launched
beside it. `Start` always may fail to bind, so
`gen = MaxGen` is no dead end. Threads are interchangeable and so are the two
configurations: symmetry is used for safety only. Two starts give the
router two bodies to reorder; two attempts, one to repeat. Seven entries fill a buffer of
three, trim it, and fill it again after a clear. Two starts let the goroutines of a stop
meet those of the next start, two adapters one without a backup. Two sessions are an old and
a new one with a closer each, besides the goroutine under `a.mu`; three handle values are
one more than a session needs, so that a value may be reused or not; two hosts and two strategies
have a next and a last. Two starts of the watchdog are an old loop and a new one. One
port number is enough for `DivertTraffic`, whose port numbers share nothing but the list; it is reused by
connections to either host, and with two local addresses connections to both have it at a time. The
run keeps these connections and the goroutines of
confirmBlocked apart (`Apart` of `MC_DivertTraffic`): they have only the list in
common, which changes freely, so the combinations it leaves out are the product of two state spaces
it explores; the proofs have no such bound. In `Segments` a length of 4 cuts in the middle and one
of 5 behind the first letter, 12
sequence numbers wrap around within the hello that begins at 9, and the ways are shorter than, as long as
and longer than each guess of a TTL. Two handlers share the cache and the list, and one may time out
while the other is answered; an address is the host that is neither resolved nor listed.
Two installations may overlap or follow each other; a second reboot finds what the first left.
In `ConfigStore` one finder and the window's thread are the two writers of a torn
file, two scripts a load and an addition in either order. The proofs cover any number of handles,
sessions, starts, processes, connections, handlers, hosts, finders and log entries.

*Symmetry and refinement.* `lifecycle_safety` checks two formulas of the form
`[][A]_v` and `Init /\ [][A]_v`; both are safety and invariant under the permutations.

*Fairness.* `FairSpec` of `AppLifecycle`: every goroutine that can go on does, which is what Go's
scheduler gives and what the timeouts in the code bound (a push ends, the Shutdown of a proxy server
has a deadline, a dial has one). The goroutines that need `a.mu` are strongly fair: it is free
again and again, and sync.Mutex passes over nobody who waits for it for long. The Shutdown of the PAC server
has no deadline and no fairness; `StartNotStuck` therefore excepts, and only excepts, a lock
that is never given back. Clicks, dial failures, deaths and exits are not
fair. `Spec` of `Watchdog`: each loop, the rest of a start, a restart that was asked for and the wait
goroutine of a dead process go on; users, connections and deaths are free. `FairSpec` of
`RouterPac`: time passes, requests end, goroutines see closed channels. `ConnectDPI`: goroutines of
providers end with their request's timeout. The dials and reads of a handler have deadlines (5 seconds
for the hello, 6 for an answer, 2 for the resolver, dial timeouts), and a copy that reads from a
closed connection ends; their writes have none, so a handler is strongly fair: a write whose peer
reads again and again ends. At any moment only one of its steps can be fair, so one formula a
handler is enough. No peer has to read: `TunnelsEnd` excepts a handler that writes to one that never
does again. Stuttering for ever after an exit is allowed (`Terminated`).

CHECK_DEADLOCK is off where the system may stop: `Segments` (everything has arrived, is lost or was
sent again), `RouterInstall` (the installations are over), `Watchdog` (starts, processes and
connections are used up).

*Properties and mutants.* Every property of a passing run has a mutant in the modules, a
plausible bug in the code that makes TLC report a violation.

### Findings

Met while modelling, with the exception under which the property holds; the lines of the comments are in
`PROJECT.json`.

1. main.go:209: a stop between the check of the generation and `gdpi.Start` kills nothing, and GoodbyeDPI is
   launched for a proxy that is off (`stray` in `NoStrayProcess`).
2. goodbyedpi.go:60: the wait goroutine of a killed process clears the fields that by then stand for its
   successor, which is then neither stopped nor seen. `DisownedOnlyByOldWaiter` shows that this is the only
   way to lose a process.
3. watchdog.go:119: `check` dials for up to two seconds; the user stops the proxy; the restart then finds it
   off and starts it. watchdog.go:101: a loop busy during Stop and Start goes on beside the new one.
4. watchdog.go:25: reset zeroes the number of connections while tunnels are open; each of them is subtracted
   when it ends, and the number shown is too low (the lower bound in `ConnsCounted`).
5. main.go:139: moving the PAC server to a port that is taken leaves none (`StartPacFails`).
6. router_setup.go:94: update.sh removes the address and leaves the pushed PAC body, which proxy.pac prefers
   until the last heartbeat is 30 seconds old; the proxy is closed 5 seconds after the push. `RouterLetsGo` shows
   that the phones get DIRECT in the end.
7. router_setup.go:516: the probe takes the text of a script for the PAC on servers that run scripts only
   under cgi-bin, and phones are given that address (the condition on lighttpd in `VerifiedServes`).
   router_setup.go:216: a lighttpd in /opt/sbin is not looked for.
8. sentinel.go:98, main.go:329: an option changed while the proxy runs; the proxy the user had is disabled and
   saved as the original, or this program's settings stay (`proxyLost`, `dnsLost`).
9. dpi_divert.go:357: a strategy test of an old session, between its check of divertGen and its
store, overwrites what
   the new session's test has chosen, even with the trial "none" (`crossed` in `SettledStrategy`;
   `StaleTestTriesOnce` bounds the damage to one store of a trial).
10. dpi_divert.go:292: a DoH answer that comes after the clearing puts addresses of the old list back
    (`excused` in `AddressesAreListed`).
11. dpi_divert.go:194: autoFakeTTL never guesses less than 3, and 8 when nothing was measured: on a shorter way
    the server gets the fake hello (`FakeMayReach`).
12. ipc.go:44: a host added after the form was read, or while the settings were being collected, is lost with
    the next save (`Untold`, `missed` in `ListedAreShown`).
13. config.go:196: the file is written outside the lock; two saves may leave the older list or a torn file, and a
    file torn by a crash resets every setting (`clean` in `NextRunHasList`).
14. ipc.go:264: once the buffer is full its length no longer grows, pushLogs compares lengths, and the window
    gets nothing more until the log is cleared (`NoGapBeforeFull` ends there).
15. main.go:140, 296: the PAC server is shut down under `a.mu` without a deadline, and has no timeouts of its
    own (pac.go:78): a request that does not end holds every start, stop and restart (`Holding`, the
    exception of `StartNotStuck`).
16. pac.go:86: nothing orders the pushes of two starts; a body of the earlier one that comes last sends the
    phones to its address until the next start (`overtaken` in `RouterKeepsProxy`).
17. proxy.go:257: no write of a handler has a deadline, and a copy that ends closes only the side it writes to:
    a peer that reads no more keeps a tunnel whose other side has gone (`stalled` in `TunnelsEnd`).
18. dpi_divert.go:161: measurements are kept by port number, which connections of both families and of several
    local addresses share; a fake may go out with the TTL for another server (`overtaken` in `MeasuredHere`).
19. router_setup.go:99: the init script needs OpenWrt's rc.common from before procd; other routers are
    verified and serve nothing after a reboot (`rcCommon` in `KeepsServing`).

## 4. The proofs

`AppLifecycleProofs` proves, for any threads, ports, configurations and bounds, from the
assumptions named in the modules (None is no thread and no port, Direct is no port,
configurations are pairs of ports, bounds are natural numbers):

* `TypeCorrect`: types.
* `Invariance`: the inductive invariant `IInv`. The safety properties are not inductive: that
  the running proxy listens depends on who may still close it. `IInv` adds where every
  server is: the one in service has the latest generation, listens, and has no stop
  goroutine; a server that restart is to shut belongs to one thread, has no stop goroutine,
  and is older than the one in service; generations that have not started have neither port nor goroutine;
  and while a thread holds `a.mu` to move the PAC server, it alone does, nothing runs, and its new port is
  nobody else's (`LockHeld`).
* `RunningListens`, `NoLeaks`, `ClosesOnce`, `PacTruthful`, `DivertCurrent`,
  `WaitsForSomebody`, `SourceCurrent`: the safety properties of the run, from `IInv`.
* `Refinement`: every step is a step of `ProxyService` or invisible to it. Only what `IInv` says
  of servers makes the closing of a listener a `Release`, and the binding of a port
  needs `NoListenerLeaks` and `Held`.

The proof has one lemma per kind of step: start that succeeds, start that waits or fails,
taking the proxy down, the second half of restart, the stop goroutine, and a frame
lemma for the steps that leave the servers alone.

`WatchdogProofs` proves the safety properties of the run for any number of starts, processes and
connections. `ProcInv`: the manager knows the newest process or none, and whatever else is
alive is stray; that the newest is meant makes a disowning the work of an older wait
goroutine. `ConnsInv`: the two counters are cardinalities of sets of handlers, the first less those
that have gone.

`WatchdogTypes` is the type invariant, and that no start launches more than one process. `ALoopIsLeft` is the
safe half of `DeathRelaunched`: the loop spawned with the last start is at work whenever no start is under
way (`NewestLoopWorks`). `LoopInv` says why, although loops read `w.stop` as they find it and an older one may come
to wait for a newer channel: every channel but the newest is closed, that one only between Stop and Start,
and a loop waits for its own channel or a newer one, so it has ended only when its own is closed.

`ConnectDPIProofs` proves four of the six properties of `connect`. `ConnInv` says for each place of
a handler what it
has open (`Holds`), whether the client's connection is its own (`Takes`), what was sent where (`Sends`)
and which hosts may have been refused (`Refuses`); each step touches one handler (`OthersStay`).
`CacheInv`: a call under way for a host that has an answer was overtaken by it, which makes the loss of
an answer a race (`OnlyRacesLoseAnswers`). Its assumptions are those of the constants.
Two theorems go with them: the types of all variables (`ConnectTypes`), and `EveryReplyCounts`: while a call to the
DoH providers is under way, the results in its channel, those still to come and the failures it
has read are together as many as there are providers (`RepliesAddUp`, of which `Asking` is the inductive
form). So no provider ever finds the buffered channel full, and no call waits when nobody is left
to answer: the safe half of `ProvidersFinish`, whose other half is fairness.

`ConfigStoreProofs` proves both properties of `config_store`. `LoneSave`: in a run of saves that do
not meet, the file is what the one at work has made of it. `FormInv`: every load that
waits shows the list together with what waits behind it, so does the form once filled, and between the
press on save and the handling of the message nothing replaces the form.

`LogStreamProofs` proves the properties of `log_stream` and its types for any capacity. `BufferInv`: the buffer
holds the newest entries without a gap. `OrderInv`: what was sent is older than what stands behind the
position, in the buffer and in the copy pushLogs works on. `GapInv`: until the buffer is full
positions are entries.

`RouterProofs` proves for any number of starts and attempts `RouterTypes`,
`NoHeartbeatLeft` (`OneHeartbeat`) and `KeepsProxy` (`RouterKeepsProxy`). The last one rests on
`AgeBound`: while the present run has been heard, the age of the heartbeat file is at
most the heartbeats lost in a row, plus one if the next one is due; and on `BodyIsOwn`: the body
of the present start, once there and not overtaken, is the one the router serves.

Of `RouterInstall` it proves, for any number of installations and reboots, `InstallTypes`,
`ServesThroughReboots` (`KeepsServing`) and `VerifiedInstallations` (`VerifiedServes`). Neither
property is inductive: that the scripts are whole when the probe succeeds depends on what
has been written long before, and on what an installation that failed has left. `InstallInv` adds that
every file on the router and every file still to be written is in the one directory a
router of its kind uses (`OneDir`), which servers can be running there (`Servers`: on a Keenetic only
lighttpd), that what the undisturbed installation needs is whole or still on its list
(`Quiet`), and that what a reboot needs to start lighttpd again, on a router that will, is whole
once it has been verified (`Kept`).

`SystemSettingsProofs` proves for any adapters and any number of starts the types and all four
properties of the run. `SettingsInv` says where the user's settings are: in the snapshot while the proxy runs with
the option on, in Windows otherwise; in the one backup and on every other adapter, with a restore
under way or due wherever the provider's servers are still set; and what a program
that is not up, or has not started, cannot have under way.

`DivertProofs` proves the types, the three properties of `divert_sessions` and
`StaleTestTriesOnce` for any number of handles, hosts, strategies and sessions. `DivertInv` adds to
them what the stages of startDivert and stopDivert
say of each other (`Shape`: only the goroutine under `a.mu` opens, with nothing published
meanwhile), ownership handle by handle (`Owners`), the reader's handle from before the
session is published (`Readers`: otherwise a reused value could send the closer of the
only reader away empty-handed), that a cancelled test has passed its last check
(`Stale`), and that an uncrossed test is the only one and in force at every stage (`Settled`).

Of `DivertTraffic` it proves, for any names, ports, local addresses and goroutines of
confirmBlocked, `TrafficTypes` and the
three properties of `divert_traffic`. `TrafficInv` adds what the properties leave out: a
query taken over from the client is for a listed name, or the table was cleared or the name excused since
(`Remembered`); what is measured of a connection is of its server from the first packet on, whether or
not a fake goes out, until another one's SYN-ACK, and an end without a connection has sent none
(`Measured`); a goroutine at work has a host (`Confirming`).

The second half of `ConnectDPIProofs` is about `Segments`, for every strategy, hellos of any length that
is less than half the sequence space, any place of the name, ways of up to 63 routers, and first sequence
numbers from anywhere, so that every way of wrapping around is covered: `OnlyTheHello` (`ServerReadsHello`),
`RecordsRead` (`RecordsGiveHello`) and `NameStaysCut` (`NameNeverWhole`). The inductive invariant
`SegmentsInv` says that every packet ever sent is one of the two parts at the sequence
number of its place, or a fake, and that a part is in the server's buffer whole or not at all. Why a
retransmission keeps it: what has been acknowledged is then nothing, the first part or everything
(`AckedShape`), and the rest behind the first part is the second one (`RestIsSecond`). Why an
arrival does: `FakeReachesExactly`, which rests on `AutoFakeReach` (the guess reaches the server exactly when
two routers or fewer are in between, so that `FakeMayReach` excuses no more than it must), and
`PartLands`, which is the arithmetic of `Wraps`. `PartsCutWell` has what the
engine is for: of a name of two letters or more, the first part lacks the last letter and the second part the
first, whichever way the hello is cut. The one assumption that is about more than types is that a hello is
less than half the sequence space; in the code it is at most one packet, and the space is 2^32.

Of the 40 properties of the runs, 34 are theorems: every invariant and every action
property. Only model-checked are the six liveness properties (`StartNotStuck`, `PortsFreed`,
`DeathRelaunched`, `RouterLetsGo`, `TunnelsEnd`, `ProvidersFinish`), which need fairness and
ENABLED and are out of the prover's reach. No module has a RECURSIVE operator.

## 5. Not modelled, and why

* *Byte layouts*: the parsers of IP, TCP, DNS and TLS headers, checksums, the search for the name in a
  hello. `Segments` begins where they end. A model of them would be their text once more.
* *Queries of Windows*: which application owns a port, which services and processes exist, the DoH template of an
  adapter. Their outcome is a choice in the models.
* *Display*: the rest of `status.go`, the device list, bandwidth history, icons, notifications, QR codes, the
  window itself, most messages of `ipc.go`; snapshots without state of their own.
* handleHTTP, which forwards one plain request; the set-up pages of the PAC server.
* mDNS, Tailscale, the updater's download, the vendored systray library: input and output that share no state
  with the rest. That the updater ends the process is in `AppLifecycle`.

What could be added next: a composition of `ConfigStore` with `DivertTraffic`, which now has its own
list, and abstract specifications for the router and the settings as `ProxyService` is one for the
life cycle.
