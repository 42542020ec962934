---- MODULE DivertTraffic ----
(***************************************************************************)
(* What the WinDivert engine remembers of the packets it sees              *)
(* (dpi_divert.go): addresses that listed hosts resolved to, the TTL of    *)
(* the last SYN-ACK and the last unlisted client hello of each local port, *)
(* and the hosts whose blocking is being confirmed.                        *)
(*                                                                         *)
(* The tables know a connection by the number of its local port alone,     *)
(* which connections over IPv4 and IPv6, and from several local addresses, *)
(* may share.  An end of a connection is that number with its address.     *)
(*                                                                         *)
(* An address is named by its host, a measured TTL by the host measured.   *)
(* Packets that read the tables and change nothing are left out: a QUIC    *)
(* packet or a hello without a visible name is treated by its address.     *)
(* Divert has the sessions themselves, Segments what is sent for a hello.  *)
(***************************************************************************)
EXTENDS FiniteSets

CONSTANTS
    Names,          \* the names in queries and client hellos
    Ports,          \* numbers of local ports
    Locals,         \* the local addresses, of either family
    Confirmers      \* bound: the goroutines of confirmBlocked at a time

VARIABLES
    list,           \* Config.BypassDomains
    engine,         \* "open", "cleared" when stopDivert is at work on it, or "closed"
    blocked,        \* blockedIPs
    asking,         \* the hosts handleDivertDNS has DoH queries under way for; "late" are
                    \* those since which blockedIPs was cleared
    conn,           \* the server each end is connected to
    synackTTL,      \* the server each port's measurement is of
    faked,          \* whose measurement the fake hello of a connection was sent with
    recentCH,       \* the name in the last unlisted hello of each port
    confirming,     \* the names that are being confirmed
    confirm,        \* where each goroutine of confirmBlocked is, and its name
    blind,          \* history: ends whose connection began while no session was open
    overtaken,      \* history: those whose port has had another's SYN-ACK since their own
    excused         \* history: hosts taken off the list, or answered late, since the clearing

trafficVars == <<list, engine, blocked, asking, conn, synackTTL, faked, recentCH,
          confirming, confirm, blind, overtaken, excused>>
portVars == <<conn, synackTTL, faked, recentCH, blind, overtaken>>
tableVars == <<engine, blocked, asking, excused>>

None == "none"
Default == "default"
Ends == Ports \X Locals
Port(e) == e[1]
NoProbe == [at |-> "idle", sni |-> None]

TrafficTypeOK ==
    /\ list \subseteq Names
    /\ engine \in {"open", "cleared", "closed"}
    /\ blocked \subseteq Names
    /\ asking \subseteq Names \X {"fresh", "late"}
    /\ conn \in [Ends -> Names \cup {None}]
    /\ synackTTL \in [Ports -> Names \cup {None}]
    /\ faked \in [Ends -> Names \cup {None, Default}]
    /\ recentCH \in [Ports -> Names \cup {None}]
    /\ confirming \subseteq Names
    /\ confirm \in [Confirmers -> [at : {"idle", "begin", "plain", "bypass", "end"},
                                   sni : Names \cup {None}]]
    /\ blind \subseteq Ends
    /\ overtaken \subseteq Ends
    /\ excused \subseteq Names

TrafficInit ==
    /\ list \in SUBSET Names
    /\ engine = "closed"
    /\ blocked = {}
    /\ asking = {}
    /\ conn = [e \in Ends |-> None]
    /\ synackTTL = [p \in Ports |-> None]
    /\ faked = [e \in Ends |-> None]
    /\ recentCH = [p \in Ports |-> None]
    /\ confirming = {}
    /\ confirm = [c \in Confirmers |-> NoProbe]
    /\ blind = {}
    /\ overtaken = {}
    /\ excused = {}

----------------------------------------------------------------------------
(* Sessions and the list *)

\* Mutant: the addresses are kept.
KeepIPs ==
    /\ UNCHANGED blocked
    /\ excused' = {}
    /\ asking' = {<<q[1], "late">> : q \in asking}

\* stopDivert clears the addresses; queries under way are not told.
ClearIPs ==
    /\ blocked' = {}
    /\ excused' = {}
    /\ asking' = {<<q[1], "late">> : q \in asking}

\* startDivert begins with a stopDivert.
Start ==
    /\ engine = "closed"
    /\ engine' = "open"
    /\ ClearIPs
    /\ UNCHANGED <<list, portVars, confirming, confirm>>

\* Packets go on being read until the handles are closed.
StopClears ==
    /\ engine = "open"
    /\ engine' = "cleared"
    /\ ClearIPs
    /\ UNCHANGED <<list, portVars, confirming, confirm>>

StopCloses ==
    /\ engine = "cleared"
    /\ engine' = "closed"
    /\ UNCHANGED <<list, blocked, asking, excused, portVars, confirming, confirm>>

\* saveSettings.  The restart that follows comes here as StopClears and Start.
EditList(h) ==
    /\ \/ h \in list /\ list' = list \ {h} /\ excused' = excused \cup {h}
       \/ h \notin list /\ list' = list \cup {h} /\ UNCHANGED excused
    /\ UNCHANGED <<engine, blocked, asking, portVars, confirming, confirm>>

----------------------------------------------------------------------------
(* handleDivertDNS *)

Sees == engine # "closed"

\* A query for a listed host is taken over by a goroutine.
Query(h) ==
    /\ Sees
    /\ h \in list
    /\ asking' = asking \cup {<<h, "fresh">>}
    /\ UNCHANGED <<list, engine, blocked, excused, portVars, confirming, confirm>>

\* Its addresses are remembered; or there are none, and the query itself is let through.
Answer(h, when) ==
    /\ <<h, when>> \in asking
    /\ asking' = asking \ {<<h, when>>}
    /\ \/ /\ blocked' = blocked \cup {h}
          /\ excused' = IF when = "late" THEN excused \cup {h} ELSE excused
       \/ UNCHANGED <<blocked, excused>>
    /\ UNCHANGED <<list, engine, portVars, confirming, confirm>>

----------------------------------------------------------------------------
(* handleDivertTLS *)

Live(p) == {e \in Ends : Port(e) = p /\ conn[e] # None}

\* Mutant: the first measurement of a port stays.
SynAckKeepsFirst(e, h) ==
    /\ conn[e] = None
    /\ conn' = [conn EXCEPT ![e] = h]
    /\ IF Sees
       THEN /\ synackTTL' = [synackTTL EXCEPT ![Port(e)] = IF @ = None THEN h ELSE @]
            /\ overtaken' = overtaken \cup Live(Port(e))
            /\ UNCHANGED blind
       ELSE blind' = blind \cup {e} /\ UNCHANGED <<synackTTL, overtaken>>
    /\ UNCHANGED <<faked, recentCH, list, tableVars, confirming, confirm>>

\* A SYN-ACK is measured before it is let through to the client.  It takes the place of
\* the measurement of any connection that has the port's number on another address.
SynAck(e, h) ==
    /\ conn[e] = None
    /\ conn' = [conn EXCEPT ![e] = h]
    /\ IF Sees
       THEN /\ synackTTL' = [synackTTL EXCEPT ![Port(e)] = h]
            /\ overtaken' = overtaken \cup Live(Port(e))
            /\ UNCHANGED blind
       ELSE blind' = blind \cup {e} /\ UNCHANGED <<synackTTL, overtaken>>
    /\ UNCHANGED <<faked, recentCH, list, tableVars, confirming, confirm>>

\* So does one that answers a connect the application has given up.
LateSynAck(p, h) ==
    /\ Sees
    /\ synackTTL' = [synackTTL EXCEPT ![p] = h]
    /\ overtaken' = overtaken \cup Live(p)
    /\ UNCHANGED <<conn, faked, recentCH, blind, list, tableVars, confirming, confirm>>

\* The hello of a listed host (or of a test), under fakeauto: the measurement of the port.
HelloListed(e) ==
    /\ Sees /\ conn[e] # None
    /\ conn[e] \in list
    /\ LET ttl == synackTTL[Port(e)] IN
       faked' = [faked EXCEPT ![e] = IF ttl = None THEN Default ELSE ttl]
    /\ UNCHANGED <<conn, synackTTL, recentCH, blind, overtaken, list, tableVars, confirming, confirm>>

\* The hello of another host, whose application is covered.
HelloUnlisted(e) ==
    /\ Sees /\ conn[e] # None
    /\ conn[e] \notin list
    /\ recentCH' = [recentCH EXCEPT ![Port(e)] = conn[e]]
    /\ UNCHANGED <<conn, synackTTL, faked, blind, overtaken, list, tableVars, confirming, confirm>>

\* The connection ends; what is remembered of its port stays.
HangUp(e) ==
    /\ conn[e] # None
    /\ conn' = [conn EXCEPT ![e] = None]
    /\ faked' = [faked EXCEPT ![e] = None]
    /\ blind' = blind \ {e}
    /\ overtaken' = overtaken \ {e}
    /\ UNCHANGED <<synackTTL, recentCH, list, tableVars, confirming, confirm>>

----------------------------------------------------------------------------
(* rstLoop and confirmBlocked *)

\* A reset within three seconds of an unlisted hello of its port: is the host blocked?
\* One that comes too late is forgotten with the hello.
Reset(p, c) ==
    /\ Sees /\ recentCH[p] # None
    /\ recentCH' = [recentCH EXCEPT ![p] = None]
    /\ \/ /\ confirm[c] = NoProbe
          /\ confirm' = [confirm EXCEPT ![c] = [at |-> "begin", sni |-> recentCH[p]]]
       \/ UNCHANGED confirm
    /\ UNCHANGED <<conn, synackTTL, faked, blind, overtaken, list, tableVars, confirming>>

Goto(c, place) == confirm' = [confirm EXCEPT ![c].at = place]

\* Mutant: looked up now, stored later.
ConfirmBeginsUnmarked(c) ==
    /\ confirm[c].at = "begin"
    /\ \/ confirm[c].sni \in confirming /\ confirm' = [confirm EXCEPT ![c] = NoProbe]
       \/ confirm[c].sni \notin confirming /\ Goto(c, "plain")
    /\ UNCHANGED <<confirming, list, portVars, tableVars>>

\* LoadOrStore: one goroutine a host.
ConfirmBegins(c) ==
    /\ confirm[c].at = "begin"
    /\ \/ /\ confirm[c].sni \in confirming
          /\ confirm' = [confirm EXCEPT ![c] = NoProbe]
          /\ UNCHANGED confirming
       \/ /\ confirm[c].sni \notin confirming
          /\ confirming' = confirming \cup {confirm[c].sni}
          /\ Goto(c, "plain")
    /\ UNCHANGED <<list, portVars, tableVars>>

\* The host answers without bypass, or may not be listed: that is all.  Otherwise
\* the bypass is tried.
PlainProbe(c) ==
    /\ confirm[c].at = "plain"
    /\ Goto(c, "bypass") \/ Goto(c, "end")
    /\ UNCHANGED <<confirming, list, portVars, tableVars>>

\* With the bypass it answers and is listed (addBlockedHost); or it does not.
BypassProbe(c) ==
    /\ confirm[c].at = "bypass"
    /\ list' = list \cup {confirm[c].sni} \/ UNCHANGED list
    /\ Goto(c, "end")
    /\ UNCHANGED <<confirming, portVars, tableVars>>

\* The deferred Delete.
ConfirmEnds(c) ==
    /\ confirm[c].at = "end"
    /\ confirming' = confirming \ {confirm[c].sni}
    /\ confirm' = [confirm EXCEPT ![c] = NoProbe]
    /\ UNCHANGED <<list, portVars, tableVars>>

----------------------------------------------------------------------------

Confirm(c) == ConfirmBegins(c) \/ PlainProbe(c) \/ BypassProbe(c) \/ ConfirmEnds(c)

TrafficNext ==
    \/ Start \/ StopClears \/ StopCloses
    \/ \E h \in Names : EditList(h) \/ Query(h) \/ \E when \in {"fresh", "late"} : Answer(h, when)
    \/ \E e \in Ends :
          \/ HelloListed(e) \/ HelloUnlisted(e) \/ HangUp(e)
          \/ \E h \in Names : SynAck(e, h)
    \/ \E p \in Ports :
          \/ \E h \in Names : LateSynAck(p, h)
          \/ \E c \in Confirmers : Reset(p, c)
    \/ \E c \in Confirmers : Confirm(c)

TrafficSpec == TrafficInit /\ [][TrafficNext]_trafficVars

----------------------------------------------------------------------------
(* Properties *)

\* Packets are treated by address only for hosts on the list, for hosts taken off it
\* whose restart is still to come, and for hosts whose query was under way when
\* stopDivert cleared the addresses.
AddressesAreListed == blocked \subseteq list \cup excused

\* A fake hello that must not reach the server carries a TTL measured on this very
\* connection or the default, however ports are reused, unless no session was open when
\* the connection began, or its port has since had a SYN-ACK of another connection.
MeasuredHere ==
    \A e \in Ends : faked[e] \in {None, Default, conn[e]} \/ e \in blind \cup overtaken

\* Resets come in bursts and from several ports: a host is probed by one goroutine at a
\* time, and marked exactly as long as that: a mark left behind would bar it for good.
OneProber ==
    LET probing == {c \in Confirmers : confirm[c].at \in {"plain", "bypass", "end"}}
    IN /\ confirming = {confirm[c].sni : c \in probing}
       /\ \A c, d \in probing : confirm[c].sni = confirm[d].sni => c = d

====
