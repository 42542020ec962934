---- MODULE ProxyService ----
(***************************************************************************)
(* What the program promises to the devices that use it, whatever its      *)
(* goroutines do: there is at most one proxy in service; the PAC file      *)
(* names its port exactly as long as it is in service; the WinDivert       *)
(* engine works for it alone; a proxy taken out of service gives its port  *)
(* back and never returns; a port is listened on by one proxy at a time.   *)
(***************************************************************************)
EXTENDS Naturals

CONSTANTS Ports, None, Direct, MaxGen

VARIABLES
    latest,     \* how many proxies have been put into service
    serving,    \* the one in service, or 0
    port,       \* the port each proxy listens on, or None
    advert,     \* what the PAC file says: a port, or Direct
    engine      \* the proxy the WinDivert engine works for, or 0

service == <<latest, serving, port, advert, engine>>

Init ==
    /\ latest = 0
    /\ serving = 0
    /\ port = [n \in 1..MaxGen |-> None]
    /\ advert = Direct
    /\ engine = 0

\* A new proxy goes into service on a port nobody listens on.
TurnOn(p) ==
    /\ serving = 0
    /\ latest < MaxGen
    /\ \A n \in 1..MaxGen : port[n] # p
    /\ latest' = latest + 1
    /\ serving' = latest + 1
    /\ port' = [port EXCEPT ![latest + 1] = p]
    /\ advert' = p
    /\ UNCHANGED engine

\* The proxy goes out of service: at once for the PAC file and the engine.
TurnOff ==
    /\ serving # 0
    /\ serving' = 0
    /\ advert' = Direct
    /\ engine' = 0
    /\ UNCHANGED <<latest, port>>

\* A proxy out of service stops listening.
Release(n) ==
    /\ n # serving
    /\ port[n] # None
    /\ port' = [port EXCEPT ![n] = None]
    /\ UNCHANGED <<latest, serving, advert, engine>>

\* The engine starts for the proxy in service, or stops.
Engine ==
    /\ engine' \in {serving, 0}
    /\ UNCHANGED <<latest, serving, port, advert>>

Next ==
    \/ \E p \in Ports : TurnOn(p)
    \/ TurnOff
    \/ \E n \in 1..MaxGen : Release(n)
    \/ Engine

Spec == Init /\ [][Next]_service

====
