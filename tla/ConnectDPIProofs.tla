---- MODULE ConnectDPIProofs ----
(***************************************************************************)
(* Theorems about a CONNECT, with their proofs: what it leaves open, what  *)
(* its tunnel has been sent, which hosts come on the list and when the     *)
(* cache loses an answer, for any handlers, hosts and providers            *)
(* (ConnectDPI), and what becomes of the hello it sends in two parts, for  *)
(* hellos of any length (Segments).  The two share no names.               *)
(***************************************************************************)
EXTENDS ConnectDPI, Segments, SequenceTheorems, TLAPS

ConnTypes ==
    /\ pc \in [Conns -> Places]
    /\ host \in [Conns -> Hosts \cup {"none"}]
    /\ hello \in [Conns -> {"plain", "unread", "silent", "tls", "other"}]
    /\ taken \in [Conns -> BOOLEAN]
    /\ open \in [Conns -> SUBSET Kinds]
    /\ refused \in [Conns -> BOOLEAN]
    /\ got \in [Conns -> SUBSET Kinds]
    /\ kept \in [Conns -> Kinds]
    /\ copies \in [Conns -> SUBSET {"up", "down"}]
    /\ stalled \in [Conns -> SUBSET Peers]

\* What a handler has open to the host at each place.
Holds(c) ==
    /\ pc[c] \in {"new", "dial", "takeOver", "hello", "directDial", "resolve", "bypassDial", "done"}
          => open[c] = {}
    /\ pc[c] \in {"hijack", "directSend"} => open[c] = {"direct"}
    /\ pc[c] = "reply" => open[c] = IF hello[c] = "plain" THEN {"direct"} ELSE {}
    /\ pc[c] = "bypassSend" => open[c] = {"bypass"}
    /\ pc[c] = "answer" => open[c] = {kept[c]}
    /\ pc[c] = "pipe" => open[c] \subseteq {kept[c]} /\ ("up" \notin copies[c] => open[c] = {})

\* Whether the connection of its client is its own to close.
Takes(c) ==
    /\ pc[c] \in {"new", "dial", "hijack", "takeOver", "done"} => ~taken[c]
    /\ pc[c] = "pipe" /\ "down" \notin copies[c] => ~taken[c]
    /\ pc[c] # "pipe" => copies[c] = {}

\* What the client has sent, and where it was written.
Sends(c) ==
    /\ pc[c] \in {"new", "dial", "hijack"} => hello[c] = "plain"
    /\ pc[c] \in {"takeOver", "hello"} => hello[c] = "unread"
    /\ pc[c] = "reply" => hello[c] \in {"plain", "unread"}
    /\ pc[c] = "directDial" => hello[c] \in {"silent", "tls", "other"}
    /\ pc[c] = "directSend" => hello[c] \in {"tls", "other"}
    /\ pc[c] \in {"resolve", "bypassDial", "bypassSend", "answer"} => hello[c] = "tls"
    /\ pc[c] \notin {"answer", "pipe"} => got[c] = {}
    /\ pc[c] \in {"answer", "pipe"} => got[c] = IF hello[c] \in {"tls", "other"} THEN {kept[c]} ELSE {}

\* A refusal is one of a host that may be listed, and comes before the bypass.
Refuses(c) ==
    refused[c] => /\ host[c] \notin Singles
                  /\ pc[c] \in {"resolve", "bypassDial", "bypassSend", "answer", "pipe"}

Handler(c) == Holds(c) /\ Takes(c) /\ Sends(c) /\ Refuses(c)

ConnInv == ConnTypes /\ \A c \in Conns : Handler(c)

----------------------------------------------------------------------------
(* Handlers *)

LEMMA ConnInitially == Init => ConnInv
BY DEF Init, ConnInv, ConnTypes, Handler, Holds, Takes, Sends, Refuses, Kinds, Places, Peers

\* The steps of a handler, those of its copies, and what the peers do to it.
Step(c) ==
    \/ \E h \in Hosts : Connect(c, h)
    \/ Handle(c) \/ UpEnds(c) \/ DownEnds(c)
    \/ \E p \in Peers : Stall(c, p) \/ Resume(c, p)

\* The variables of one handler: each step leaves those of the others alone.
Same(d) ==
    /\ pc'[d] = pc[d] /\ host'[d] = host[d] /\ hello'[d] = hello[d] /\ taken'[d] = taken[d]
    /\ open'[d] = open[d] /\ refused'[d] = refused[d] /\ got'[d] = got[d] /\ kept'[d] = kept[d]
    /\ copies'[d] = copies[d]

LEMMA SameKeeps == ASSUME NEW d \in Conns, Handler(d), Same(d) PROVE Handler(d)'
BY DEF Handler, Holds, Takes, Sends, Refuses, Same

LEMMA OthersStay ==
    ASSUME ConnTypes, NEW c \in Conns, Step(c), NEW d \in Conns, d # c
    PROVE  Same(d)
<1> USE DEF ConnTypes, Same, Goto, Finish, Pipe, Answered, Opens, Closes
<1>1. CASE \E h \in Hosts : Connect(c, h)
  BY <1>1 DEF Connect
<1>2. CASE PlainDial(c) \/ PlainDialFails(c)
  BY <1>2 DEF PlainDial, PlainDialFails
<1>3. CASE Hijack(c) \/ HijackFails(c)
  BY <1>3 DEF Hijack, HijackFails
<1>4. CASE Reply(c) \/ TakeOverFails(c)
  BY <1>4 DEF Reply, TakeOverFails
<1>5. CASE ReadHello(c)
  BY <1>5 DEF ReadHello
<1>6. CASE DirectDial(c) \/ DirectDialFails(c)
  BY <1>6 DEF DirectDial, DirectDialFails
<1>7. CASE DirectSend(c)
  BY <1>7 DEF DirectSend
<1>8. CASE DirectRefused(c) \/ DirectSendFails(c)
  BY <1>8 DEF DirectRefused, DirectSendFails
<1>9. CASE Resolve(c)
  BY <1>9 DEF Resolve
<1>10. CASE BypassDial(c) \/ BypassDialFails(c)
  BY <1>10 DEF BypassDial, BypassDialFails
<1>11. CASE BypassSend(c)
  BY <1>11 DEF BypassSend
<1>12. CASE BypassSendFails(c)
  BY <1>12 DEF BypassSendFails
<1>13. CASE PipeEnds(c)
  BY <1>13 DEF PipeEnds
<1>14. CASE UpEnds(c) \/ DownEnds(c)
  BY <1>14 DEF UpEnds, DownEnds
<1>15. CASE SendFirst(c)
  BY <1>15 DEF SendFirst
<1>16. CASE \E p \in Peers : Stall(c, p) \/ Resume(c, p)
  BY <1>16 DEF Stall, Resume
<1> QED
  BY <1>1, <1>2, <1>3, <1>4, <1>5, <1>6, <1>7, <1>8, <1>9, <1>10, <1>11, <1>12, <1>13, <1>14,
     <1>15, <1>16
     DEF Step, Handle

LEMMA FinishTypes ==
    ASSUME ConnTypes, NEW c \in Conns, Finish(c), open' \in [Conns -> SUBSET Kinds]
    PROVE  ConnTypes'
<1>1. taken' \in [Conns -> BOOLEAN]
  <2>1. taken \in [Conns -> BOOLEAN] /\ (taken[c] /\ hello[c] = "plain") \in BOOLEAN
    BY Zenon DEF ConnTypes
  <2>2. taken' = [taken EXCEPT ![c] = taken[c] /\ hello[c] = "plain"]
    BY DEF Finish
  <2> QED
    BY <2>1, <2>2, Zenon
<1>2. /\ pc' \in [Conns -> Places] /\ host' \in [Conns -> Hosts \cup {"none"}]
      /\ hello' \in [Conns -> {"plain", "unread", "silent", "tls", "other"}]
  BY DEF ConnTypes, Finish, Goto, Places
<1>3. /\ refused' \in [Conns -> BOOLEAN] /\ got' \in [Conns -> SUBSET Kinds]
      /\ kept' \in [Conns -> Kinds] /\ copies' \in [Conns -> SUBSET {"up", "down"}]
      /\ stalled' \in [Conns -> SUBSET Peers]
  BY DEF ConnTypes, Finish, Kinds
<1> QED
  BY <1>1, <1>2, <1>3 DEF ConnTypes

LEMMA TypesKept ==
    ASSUME ConnTypes, NEW c \in Conns, Step(c)
    PROVE  ConnTypes'
<1> USE DEF ConnTypes, Goto, Pipe, Answered, Opens, Closes, Places, Kinds
<1>1. CASE \E h \in Hosts : Connect(c, h)
  BY <1>1 DEF Connect
<1>2. CASE PlainDial(c)
  BY <1>2 DEF PlainDial
<1>3. CASE PlainDialFails(c)
  BY <1>3, FinishTypes DEF PlainDialFails
<1>4. CASE Hijack(c)
  BY <1>4 DEF Hijack
<1>5. CASE HijackFails(c)
  BY <1>5, FinishTypes DEF HijackFails
<1>6. CASE Reply(c)
  BY <1>6 DEF Reply
<1>7. CASE TakeOverFails(c)
  BY <1>7, FinishTypes DEF TakeOverFails
<1>8. CASE ReadHello(c)
  BY <1>8 DEF ReadHello
<1>9. CASE DirectDial(c)
  BY <1>9 DEF DirectDial
<1>10. CASE DirectDialFails(c)
  BY <1>10, FinishTypes DEF DirectDialFails
<1>11. CASE DirectSend(c)
  BY <1>11 DEF DirectSend
<1>12. CASE DirectRefused(c)
  BY <1>12 DEF DirectRefused
<1>13. CASE DirectSendFails(c)
  BY <1>13, FinishTypes DEF DirectSendFails
<1>14. CASE Resolve(c)
  BY <1>14 DEF Resolve
<1>15. CASE BypassDial(c)
  BY <1>15 DEF BypassDial
<1>16. CASE BypassDialFails(c)
  BY <1>16, FinishTypes DEF BypassDialFails
<1>17. CASE BypassSend(c)
  BY <1>17 DEF BypassSend
<1>18. CASE BypassSendFails(c)
  BY <1>18, FinishTypes DEF BypassSendFails
<1>19. CASE PipeEnds(c)
  BY <1>19, FinishTypes DEF PipeEnds
<1>20. CASE UpEnds(c)
  BY <1>20 DEF UpEnds
<1>21. CASE DownEnds(c)
  <2>1. copies' \in [Conns -> SUBSET {"up", "down"}]
    BY <1>21 DEF DownEnds
  <2>2. taken' \in [Conns -> BOOLEAN]
    BY <1>21, Zenon DEF DownEnds
  <2> QED
    BY <1>21, <2>1, <2>2 DEF DownEnds
<1>22. CASE SendFirst(c)
  BY <1>22 DEF SendFirst
<1>23. CASE \E p \in Peers : Stall(c, p) \/ Resume(c, p)
  BY <1>23 DEF Stall, Resume
<1> QED
  BY <1>1, <1>2, <1>3, <1>4, <1>5, <1>6, <1>7, <1>8, <1>9, <1>10, <1>11, <1>12, <1>13, <1>14,
     <1>15, <1>16, <1>17, <1>18, <1>19, <1>20, <1>21, <1>22, <1>23
     DEF Step, Handle

LEMMA FinishKeeps ==
    ASSUME ConnTypes, NEW c \in Conns, Finish(c), open'[c] = {}, copies[c] = {},
           ~taken[c] \/ hello[c] # "plain"
    PROVE  Handler(c)'
<1>1. /\ pc'[c] = "done" /\ hello'[c] = "plain" /\ got'[c] = {} /\ copies'[c] = {}
  BY DEF ConnTypes, Finish, Goto
<1>2. ~taken'[c] /\ ~refused'[c]
  BY Zenon DEF ConnTypes, Finish
<1> QED
  BY <1>1, <1>2 DEF Handler, Holds, Takes, Sends, Refuses

LEMMA HandlerKept ==
    ASSUME ConnTypes, NEW c \in Conns, Handler(c), Step(c)
    PROVE  Handler(c)'
<1> DEFINE Rest == Holds(c)' /\ Takes(c)' /\ Sends(c)' /\ Refuses(c)'
<1> SUFFICES Rest
  BY DEF Handler
<1>a. Finish(c) /\ open'[c] = {} /\ copies[c] = {} /\ (~taken[c] \/ hello[c] # "plain") => Rest
  BY FinishKeeps DEF Handler
<1> HIDE DEF Rest
<1> USE DEF ConnTypes, Goto, Pipe, Answered, Opens, Closes, Handler, Holds, Takes, Sends, Refuses
<1>1. CASE \E h \in Hosts : Connect(c, h)
  BY <1>1 DEF Connect, Rest
<1>2. CASE PlainDial(c)
  BY <1>2 DEF PlainDial, Rest
<1>3. CASE PlainDialFails(c)
  BY <1>3, <1>a DEF PlainDialFails
<1>4. CASE Hijack(c)
  BY <1>4 DEF Hijack, Rest
<1>5. CASE HijackFails(c)
  BY <1>5, <1>a DEF HijackFails
<1>6. CASE Reply(c)
  BY <1>6 DEF Reply, Rest
<1>7. CASE TakeOverFails(c)
  BY <1>7, <1>a DEF TakeOverFails
<1>8. CASE ReadHello(c)
  BY <1>8 DEF ReadHello, Rest
<1>9. CASE DirectDial(c)
  BY <1>9 DEF DirectDial, Rest
<1>10. CASE DirectDialFails(c)
  BY <1>10, <1>a DEF DirectDialFails
<1>11. CASE DirectSend(c)
  BY <1>11 DEF DirectSend, Rest
<1>12. CASE DirectRefused(c)
  BY <1>12 DEF DirectRefused, Suspect, Rest
<1>13. CASE DirectSendFails(c)
  BY <1>13, <1>a DEF DirectSendFails
<1>14. CASE Resolve(c)
  BY <1>14 DEF Resolve, Rest
<1>15. CASE BypassDial(c)
  BY <1>15 DEF BypassDial, Rest
<1>16. CASE BypassDialFails(c)
  BY <1>16, <1>a DEF BypassDialFails
<1>17. CASE BypassSend(c)
  BY <1>17 DEF BypassSend, Rest
<1>18. CASE BypassSendFails(c)
  BY <1>18, <1>a DEF BypassSendFails
<1>19. CASE PipeEnds(c)
  BY <1>19, <1>a DEF PipeEnds
<1>20. CASE UpEnds(c)
  BY <1>20 DEF UpEnds, Rest
<1>21. CASE DownEnds(c)
  BY <1>21 DEF DownEnds, Rest
<1>22. CASE SendFirst(c)
  BY <1>22 DEF SendFirst, Rest
<1>23. CASE \E p \in Peers : Stall(c, p) \/ Resume(c, p)
  BY <1>23 DEF Stall, Resume, Rest
<1> QED
  BY <1>1, <1>2, <1>3, <1>4, <1>5, <1>6, <1>7, <1>8, <1>9, <1>10, <1>11, <1>12, <1>13, <1>14,
     <1>15, <1>16, <1>17, <1>18, <1>19, <1>20, <1>21, <1>22, <1>23 DEF Step, Handle

LEMMA ConnKept == ConnInv /\ [Next]_vars => ConnInv'
<1> SUFFICES ASSUME ConnInv, [Next]_vars PROVE ConnInv'
  OBVIOUS
<1>1. CASE \E c \in Conns : Step(c)
  <2>1. PICK c \in Conns : Step(c)
    BY <1>1
  <2>2. ConnTypes'
    BY <2>1, TypesKept DEF ConnInv
  <2>3. ASSUME NEW d \in Conns PROVE Handler(d)'
    <3>1. CASE d = c
      BY <3>1, <2>1, HandlerKept DEF ConnInv
    <3>2. CASE d # c
      <4>1. Same(d)
        BY <3>2, <2>1, OthersStay DEF ConnInv
      <4> QED
        BY <4>1, SameKeeps DEF ConnInv
    <3> QED
      BY <3>1, <3>2
  <2> QED
    BY <2>2, <2>3 DEF ConnInv
<1>2. CASE UNCHANGED connVars
  BY <1>2 DEF connVars, ConnInv, ConnTypes, Handler, Holds, Takes, Sends, Refuses
<1>3. (\E c \in Conns : Step(c)) \/ UNCHANGED connVars
  BY Zenon DEF Next, Step, DohWorks, EditList, vars
<1> QED
  BY <1>1, <1>2, <1>3

\* The places, connections and answers of the handlers fit together at every moment.
THEOREM HandlersSound == Spec => []ConnInv
BY ConnInitially, ConnKept, PTL DEF Spec

\* proxy.go:101, dpi_engine.go:180: a tunnel is to the one connection that has had the
\* client's first data, and that is the only one its handler has open.
THEOREM HelloSentOnce == Spec => []HelloOnKeptConnection
<1>1. ConnInv => HelloOnKeptConnection
  BY DEF ConnInv, Handler, Holds, Sends, HelloOnKeptConnection
<1> QED
  BY <1>1, HandlersSound, PTL

\* dpi_engine.go:140: whatever fails, a handler that has returned has closed what it opened.
THEOREM EverythingClosed == Spec => []NothingLeftOpen
<1>1. ConnInv => NothingLeftOpen
  BY DEF ConnInv, Handler, Holds, Takes, NothingLeftOpen
<1> QED
  BY <1>1, HandlersSound, PTL

\* dpi_engine.go:225: a host comes on the list when its own refused hello is answered
\* through the bypass, never before and never for a single label or an address.
THEOREM ListedByEvidence == Spec => ListedOnlyIfBypassHelps
<1> DEFINE Earned ==
      \A h \in list' \ list : pc' # pc =>
        /\ h \notin Singles
        /\ \E c \in Conns : /\ host[c] = h /\ hello[c] = "tls" /\ refused[c]
                             /\ pc'[c] = "answer" /\ kept'[c] = "bypass"
<1>1. ASSUME ConnInv, [Next]_vars PROVE [Earned]_vars
  <2> SUFFICES ASSUME NEW h \in list' \ list, pc' # pc
               PROVE  /\ h \notin Singles
                      /\ \E c \in Conns : /\ host[c] = h /\ hello[c] = "tls" /\ refused[c]
                                           /\ pc'[c] = "answer" /\ kept'[c] = "bypass"
    OBVIOUS
  <2>1. PICK c \in Conns : BypassSend(c)
    <3>1. list' # list
      OBVIOUS
    <3>2. (\E c \in Conns : Step(c)) \/ UNCHANGED connVars
      BY <1>1, Zenon DEF Next, Step, DohWorks, EditList, vars
    <3>3. PICK c \in Conns : Step(c)
      BY <3>2 DEF connVars
    <3> QED
      BY <3>1, <3>3, Zenon
         DEF Step, Handle, Connect, PlainDial, PlainDialFails, Hijack, HijackFails, Reply,
             TakeOverFails, ReadHello, DirectDial, DirectDialFails, DirectSend, DirectRefused,
             DirectSendFails, Resolve, BypassDial, BypassDialFails, BypassSendFails, SendFirst,
             PipeEnds, UpEnds, DownEnds, Stall, Resume
  <2>2. ConnTypes /\ Handler(c)
    BY <1>1, Zenon DEF ConnInv
  <2>3. refused[c] /\ host[c] = h
    BY <2>1 DEF BypassSend, AddBlockedHost
  <2>4. h \notin Singles /\ hello[c] = "tls"
    BY <2>1, <2>2, <2>3 DEF BypassSend, Handler, Sends, Refuses
  <2>5. pc'[c] = "answer" /\ kept'[c] = "bypass"
    BY <2>1, <2>2, <2>3 DEF BypassSend, Answered, Goto, ConnTypes
  <2> QED
    BY <2>3, <2>4, <2>5
<1> QED
  BY <1>1, HandlersSound, PTL DEF Spec, ListedOnlyIfBypassHelps

----------------------------------------------------------------------------
(* The cache of the resolver *)

\* What the argument needs to know of the types of the resolver's variables.
CallTypes ==
    /\ cache \in [Hosts -> {"none", "ips", "failed"}]
    /\ call \in [Conns -> [pc : {"idle", "waiting", "answered", "failed"},
                           name : Hosts \cup {"none"}, failures : Nat, overtaken : BOOLEAN]]

\* A call under way for a host that has an answer was under way when the answer came.
OthersOvertaken ==
    \A h \in Hosts : cache[h] = "ips" => \A q \in UnderWay(h) : call[q].overtaken

CacheInv == CallTypes /\ OthersOvertaken

LEMMA CacheInitially == Init => CacheInv
BY DEF Init, DohInit, CacheInv, CallTypes, OthersOvertaken, UnderWay, Returned

LEMMA AskKeeps ==
    ASSUME CacheInv, NEW q \in Conns, NEW h \in Hosts \cup {"none"}, Ask(q, h)
    PROVE  CacheInv'
<1> USE DEF CacheInv, CallTypes, OthersOvertaken, UnderWay, Returned
<1>1. CASE call' = [call EXCEPT ![q] = Returned("answered")]
  BY <1>1 DEF Ask
<1>2. CASE call' = [call EXCEPT ![q] = Returned("failed")]
  BY <1>2 DEF Ask
<1>3. CASE cache[h] = "none" /\ call' = [call EXCEPT ![q].pc = "waiting", ![q].name = h]
  BY <1>3 DEF Ask
<1> QED
  BY <1>1, <1>2, <1>3 DEF Ask

LEMMA ReturnKeeps ==
    ASSUME CacheInv, NEW q \in Conns, call[q].pc = "waiting", NEW place, NEW entry,
           Return(q, place, entry), <<place, entry>> \in {<<"answered", "ips">>, <<"failed", "failed">>}
    PROVE  CacheInv'
<1> USE DEF CacheInv, CallTypes, OthersOvertaken, UnderWay, Returned
<1>1. CallTypes'
  BY DEF Return
<1>2. OthersOvertaken'
  BY DEF Return
<1> QED
  BY <1>1, <1>2

LEMMA ForgetKeeps ==
    ASSUME CacheInv, NEW q \in Conns, Forget(q)
    PROVE  CacheInv'
BY DEF Forget, CacheInv, CallTypes, OthersOvertaken, UnderWay, Returned

LEMMA ReceiveKeeps ==
    ASSUME CacheInv, NEW q \in Conns, Receive(q)
    PROVE  CacheInv'
<1>1. CASE Return(q, "answered", "ips") \/ Return(q, "failed", "failed")
  BY <1>1, ReturnKeeps DEF Receive
<1>2. CASE call' = [call EXCEPT ![q].failures = @ + 1] /\ UNCHANGED cache
  BY <1>2 DEF CacheInv, CallTypes, OthersOvertaken, UnderWay
<1> QED
  BY <1>1, <1>2 DEF Receive

\* A step of Next is one of the resolver, the beginning or the end of a call, or leaves it be.
LEMMA ResolverSteps ==
    ASSUME [Next]_vars
    PROVE  \/ \E q \in Conns : Receive(q) \/ TimesOut(q) \/ ProviderReplies(q) \/ Forget(q)
                                \/ Ask(q, host[q])
           \/ \E h \in Hosts : Expires(h)
           \/ UNCHANGED dohVars
<1>1. CASE DohWorks
  BY <1>1, Zenon DEF DohWorks, DohStep, Resolving
<1>2. CASE \E c \in Conns : Step(c)
  <2>1. PICK c \in Conns : Step(c)
    BY <1>2
  <2>2. Finish(c) => Forget(c)
    BY DEF Finish
  <2> HIDE DEF Finish
  <2>3. Forget(c) \/ Ask(c, host[c]) \/ UNCHANGED dohVars
    BY <2>1, <2>2, Zenon
       DEF Step, Handle, Connect, PlainDial, PlainDialFails, Hijack, HijackFails, Reply,
           TakeOverFails, ReadHello, DirectDial, DirectDialFails, DirectSend, DirectRefused,
           DirectSendFails, Resolve, BypassDial, BypassDialFails, BypassSend, BypassSendFails,
           SendFirst, PipeEnds, UpEnds, DownEnds, Stall, Resume
  <2> QED
    BY <2>3
<1>3. CASE EditList \/ UNCHANGED vars
  BY <1>3, Zenon DEF EditList, vars
<1> QED
  BY <1>1, <1>2, <1>3, Zenon DEF Next, Step

LEMMA CacheKept == ConnInv /\ CacheInv /\ [Next]_vars => CacheInv'
<1> SUFFICES ASSUME ConnInv, CacheInv, [Next]_vars PROVE CacheInv'
  OBVIOUS
<1>1. ASSUME NEW q \in Conns, Receive(q) \/ TimesOut(q) PROVE CacheInv'
  BY <1>1, ReceiveKeeps, ReturnKeeps DEF TimesOut
<1>2. ASSUME NEW q \in Conns, ProviderReplies(q) PROVE CacheInv'
  BY <1>2 DEF ProviderReplies, CacheInv, CallTypes, OthersOvertaken, UnderWay
<1>3. ASSUME NEW q \in Conns, Ask(q, host[q]) PROVE CacheInv'
  <2>1. host[q] \in Hosts \cup {"none"}
    BY DEF ConnInv, ConnTypes
  <2> QED
    BY <1>3, <2>1, AskKeeps
<1>4. ASSUME NEW h \in Hosts, Expires(h) PROVE CacheInv'
  BY <1>4 DEF Expires, CacheInv, CallTypes, OthersOvertaken, UnderWay
<1>5. CASE UNCHANGED dohVars
  BY <1>5 DEF dohVars, CacheInv, CallTypes, OthersOvertaken, UnderWay
<1> QED
  BY <1>1, <1>2, <1>3, <1>4, <1>5, ResolverSteps, ForgetKeeps

\* The resolver's answers and the calls that are late for them, beside the handlers.
THEOREM ResolverSound == Spec => [](ConnInv /\ CacheInv)
BY ConnInitially, ConnKept, CacheInitially, CacheKept, PTL DEF Spec

\* doh.go:62: a failure takes the place of an answer only when it ends a call that
\* was under way as the answer was stored.
THEOREM OnlyRacesLoseAnswers == Spec => AnswerLostOnlyToRace
<1> DEFINE Raced ==
      \A h \in Hosts :
        cache[h] = "ips" /\ cache'[h] = "failed" =>
            \E q \in UnderWay(h) : call[q].overtaken /\ call'[q].pc = "failed"
<1>1. ASSUME ConnInv, CacheInv, [Next]_vars PROVE [Raced]_dohVars
  <2> SUFFICES ASSUME NEW h \in Hosts, cache[h] = "ips", cache'[h] = "failed"
               PROVE  \E q \in UnderWay(h) : call[q].overtaken /\ call'[q].pc = "failed"
    OBVIOUS
  <2>1. PICK q \in Conns : call[q].pc = "waiting" /\ Return(q, "failed", "failed")
    <3>1. \E q \in Conns : Receive(q) \/ TimesOut(q)
      BY <1>1, ResolverSteps
         DEF ProviderReplies, Forget, Ask, Expires, dohVars, CacheInv, CallTypes
    <3>2. PICK q \in Conns : Receive(q) \/ TimesOut(q)
      BY <3>1
    <3> QED
      BY <3>2, <1>1 DEF Receive, TimesOut, Return, CacheInv, CallTypes
  <2>2. call[q].name = h
    BY <1>1, <2>1 DEF Return, CacheInv, CallTypes
  <2>3. call'[q].pc = "failed"
    BY <2>1 DEF Return, Returned
  <2> QED
    BY <1>1, <2>1, <2>2, <2>3 DEF CacheInv, OthersOvertaken, UnderWay
<1> QED
  BY <1>1, ResolverSound, PTL DEF Spec, AnswerLostOnlyToRace

----------------------------------------------------------------------------
(* The replies of the providers *)

\* What the providers of a call have sent, have yet to send, and the failures it has read.
Counted(q) ==
    /\ call[q].pc = "waiting" => /\ asking[q] + Len(channel[q]) + call[q].failures = Providers
                                 /\ call[q].failures < Providers
    /\ call[q].pc # "waiting" => channel[q] = <<>> /\ call[q].failures = 0

\* The inductive invariant of the calls, with the types it needs.
ReplyInv ==
    /\ channel \in [Conns -> Seq(Results)]
    /\ asking \in [Conns -> 0..Providers]
    /\ \A q \in Conns : Counted(q)

\* A request has a host until its handler returns.
Named == \A c \in Conns : pc[c] \notin {"new", "done"} => host[c] \in Hosts

\* A step that leaves a call's own part of the resolver alone.
Unmoved(q) ==
    /\ call'[q].pc = call[q].pc /\ call'[q].failures = call[q].failures
    /\ asking'[q] = asking[q] /\ channel'[q] = channel[q]

\* Then its counts stand.
LEMMA UnmovedCounted ==
    ASSUME NEW q, Counted(q), Unmoved(q)
    PROVE  Counted(q)'
BY DEF Counted, Unmoved

\* A step that moves one call keeps the invariant if it keeps that call's counts.
LEMMA MovedOne ==
    ASSUME ReplyInv, NEW q \in Conns, Counted(q)',
           channel' \in [Conns -> Seq(Results)], asking' \in [Conns -> 0..Providers],
           \A x \in Conns : x # q => Unmoved(x)
    PROVE  ReplyInv'
BY UnmovedCounted DEF ReplyInv

\* Ask sends every provider off, for a call that has read nothing.
LEMMA AskCounts ==
    ASSUME CallTypes, ReplyInv, NEW q \in Conns, NEW h, Ask(q, h)
    PROVE  ReplyInv'
<1>1. Providers \in Nat \ {0}
  BY DohAssumption
<1>2. call[q].pc = "idle" /\ channel[q] = <<>> /\ call[q].failures = 0 /\ channel' = channel
  BY DEF Ask, ReplyInv, Counted
<1>3. \A x \in Conns : x # q => Unmoved(x)
  BY DEF Ask, CallTypes, ReplyInv, Unmoved
<1>4. CASE call'[q].pc # "waiting" /\ call'[q].failures = 0 /\ asking' = asking
  BY <1>2, <1>3, <1>4, MovedOne DEF ReplyInv, Counted
<1>5. CASE /\ call'[q].pc = "waiting" /\ call'[q].failures = 0
           /\ asking' = [asking EXCEPT ![q] = Providers]
  <2>1. asking' \in [Conns -> 0..Providers] /\ asking'[q] = Providers
    BY <1>1, <1>5 DEF ReplyInv
  <2>2. Len(channel'[q]) = 0
    BY <1>2
  <2>3. Counted(q)'
    BY <1>1, <1>5, <2>1, <2>2 DEF Counted
  <2> QED
    BY <1>2, <1>3, <2>1, <2>3, MovedOne DEF ReplyInv
<1>6. \/ call'[q].pc # "waiting" /\ call'[q].failures = 0 /\ asking' = asking
      \/ /\ call'[q].pc = "waiting" /\ call'[q].failures = 0
         /\ asking' = [asking EXCEPT ![q] = Providers]
  BY <1>2 DEF Ask, CallTypes, Returned
<1> QED
  BY <1>4, <1>5, <1>6

\* A call that returns leaves nothing to read.
LEMMA ReturnCounts ==
    ASSUME CallTypes, ReplyInv, NEW q \in Conns, NEW entry, NEW place \in {"answered", "failed"},
           Return(q, place, entry), UNCHANGED asking
    PROVE  ReplyInv'
<1>1. channel' = [channel EXCEPT ![q] = <<>>] /\ call'[q] = Returned(place)
  BY DEF Return
<1>2. \A x \in Conns : x # q => Unmoved(x)
  BY DEF Return, CallTypes, ReplyInv, Unmoved
<1>3. channel' \in [Conns -> Seq(Results)] /\ channel'[q] = <<>>
  BY <1>1 DEF ReplyInv
<1>4. Counted(q)'
  BY <1>1, <1>3 DEF Counted, Returned
<1> QED
  BY <1>2, <1>3, <1>4, MovedOne DEF ReplyInv

\* What Receive takes from the channel is a failure more, or the end of the call.
LEMMA ReceiveCounts ==
    ASSUME CallTypes, ReplyInv, NEW q \in Conns, Receive(q)
    PROVE  ReplyInv'
<1>1. CASE Return(q, "answered", "ips") \/ Return(q, "failed", "failed")
  BY <1>1, ReturnCounts DEF Receive
<1>2. CASE /\ call[q].failures + 1 # Providers
           /\ call' = [call EXCEPT ![q].failures = @ + 1]
           /\ channel' = [channel EXCEPT ![q] = Tail(@)]
  <2>1. call[q].pc = "waiting" /\ channel[q] # <<>> /\ asking' = asking
    BY DEF Receive
  <2>2. channel[q] \in Seq(Results) /\ call[q].failures \in Nat /\ asking[q] \in 0..Providers
    BY DEF CallTypes, ReplyInv
  <2>3. /\ asking[q] + Len(channel[q]) + call[q].failures = Providers
        /\ call[q].failures < Providers
    BY <2>1 DEF ReplyInv, Counted
  <2>4. Tail(channel[q]) \in Seq(Results) /\ Len(Tail(channel[q])) = Len(channel[q]) - 1
    BY <2>1, <2>2
  <2>5. /\ call'[q].pc = "waiting" /\ call'[q].failures = call[q].failures + 1
        /\ \A x \in Conns : x # q => call'[x] = call[x]
    BY <1>2, <2>1 DEF CallTypes
  <2>6. channel' \in [Conns -> Seq(Results)] /\ channel'[q] = Tail(channel[q])
    BY <1>2, <2>4 DEF ReplyInv
  <2>7. \A x \in Conns : x # q => Unmoved(x)
    BY <1>2, <2>1, <2>5 DEF ReplyInv, Unmoved
  <2>8. asking'[q] + Len(channel'[q]) + call'[q].failures = Providers /\ call'[q].failures < Providers
    <3>1. Providers \in Nat \ {0} /\ Len(channel[q]) \in Nat
      BY <2>2, DohAssumption
    <3>2. Len(channel'[q]) = Len(channel[q]) - 1 /\ asking'[q] = asking[q]
      BY <2>1, <2>4, <2>6
    <3> DEFINE a == asking[q]
               l == Len(channel[q])
               f == call[q].failures
    <3>3. /\ asking'[q] + Len(channel'[q]) + call'[q].failures = a + (l - 1) + (f + 1)
          /\ call'[q].failures = f + 1
      BY <2>5, <3>2
    <3>4. a \in Nat /\ l \in Nat /\ f \in Nat /\ a + l + f = Providers /\ f < Providers /\ f + 1 # Providers
      BY <1>2, <2>2, <2>3, <3>1
    <3> HIDE DEF a, l, f
    <3> QED
      BY <3>1, <3>3, <3>4
  <2>9. Counted(q)'
    BY <2>5, <2>8 DEF Counted
  <2> QED
    BY <2>1, <2>6, <2>7, <2>9, MovedOne DEF ReplyInv
<1> QED
  BY <1>1, <1>2 DEF Receive

\* A reply comes into the channel, or to nobody.
LEMMA RepliesCount ==
    ASSUME CallTypes, ReplyInv, NEW q \in Conns, ProviderReplies(q)
    PROVE  ReplyInv'
<1>1. /\ asking[q] > 0 /\ asking' = [asking EXCEPT ![q] = @ - 1] /\ call' = call
      /\ \/ call[q].pc = "waiting" /\ \E r \in Results : channel' = [channel EXCEPT ![q] = Append(@, r)]
         \/ call[q].pc # "waiting" /\ channel' = channel
  BY DEF ProviderReplies
<1>2. channel[q] \in Seq(Results) /\ asking[q] \in 0..Providers
  BY DEF ReplyInv
<1>3. asking' \in [Conns -> 0..Providers] /\ asking'[q] = asking[q] - 1
  <2>1. asking[q] - 1 \in 0..Providers
    BY <1>1, <1>2, DohAssumption
  <2> QED
    BY <1>1, <2>1 DEF ReplyInv
<1>4. CASE call[q].pc # "waiting" /\ channel' = channel
  <2>1. Counted(q)'
    BY <1>1, <1>4 DEF ReplyInv, Counted
  <2>2. \A x \in Conns : x # q => Unmoved(x)
    BY <1>1, <1>4 DEF ReplyInv, Unmoved
  <2> QED
    BY <1>3, <1>4, <2>1, <2>2, MovedOne DEF ReplyInv
<1>5. CASE call[q].pc = "waiting" /\ \E r \in Results : channel' = [channel EXCEPT ![q] = Append(@, r)]
  <2>1. PICK r \in Results : channel' = [channel EXCEPT ![q] = Append(@, r)]
    BY <1>5
  <2>2. Append(channel[q], r) \in Seq(Results) /\ Len(Append(channel[q], r)) = Len(channel[q]) + 1
    BY <1>2
  <2>3. channel' \in [Conns -> Seq(Results)] /\ channel'[q] = Append(channel[q], r)
    BY <2>1, <2>2 DEF ReplyInv
  <2>4. /\ asking[q] + Len(channel[q]) + call[q].failures = Providers
        /\ call[q].failures < Providers /\ call[q].failures \in Nat
    BY <1>5 DEF ReplyInv, Counted, CallTypes
  <2>5. asking'[q] + Len(channel'[q]) + call'[q].failures = Providers
    BY <1>1, <1>2, <1>3, <2>2, <2>3, <2>4
  <2>6. Counted(q)'
    BY <1>1, <1>5, <2>4, <2>5 DEF Counted
  <2>7. \A x \in Conns : x # q => Unmoved(x)
    BY <1>1, <2>1 DEF ReplyInv, Unmoved
  <2> QED
    BY <1>3, <2>3, <2>6, <2>7, MovedOne DEF ReplyInv
<1> QED
  BY <1>1, <1>4, <1>5

\* The handler takes the result.
LEMMA ForgetCounts ==
    ASSUME CallTypes, ReplyInv, NEW q \in Conns, call[q].pc # "waiting", Forget(q)
    PROVE  ReplyInv'
<1>1. call' = [call EXCEPT ![q] = Returned("idle")] /\ UNCHANGED <<asking, channel>>
  BY DEF Forget
<1>2. Counted(q)'
  BY <1>1 DEF ReplyInv, Counted, CallTypes, Returned
<1>3. \A x \in Conns : x # q => Unmoved(x)
  BY <1>1 DEF CallTypes, Unmoved
<1> QED
  BY <1>1, <1>2, <1>3, MovedOne DEF ReplyInv

\* A handler makes its one call of dohResolve between "resolve" and "bypassDial".
Early == {"new", "dial", "hijack", "takeOver", "reply", "hello",
          "directDial", "directSend", "resolve"}

Calls(c) ==
    /\ pc[c] # "bypassDial" => call[c].pc = "idle"
    /\ pc[c] \in Early => asking[c] = 0

Asking == ReplyInv /\ Named /\ list \subseteq Hosts /\ \A c \in Conns : Calls(c)

LEMMA AskingInitially == Init => Asking
<1> SUFFICES ASSUME Init PROVE Asking
  OBVIOUS
<1>1. ReplyInv
  BY DohAssumption DEF Init, DohInit, ReplyInv, Counted, Returned
<1>2. Named /\ list \subseteq Hosts /\ \A c \in Conns : Calls(c)
  BY DEF Init, DohInit, Named, Calls, Returned
<1> QED
  BY <1>1, <1>2 DEF Asking

\* What a step of a handler does to its call.
LEMMA StepKinds ==
    ASSUME ConnTypes, NEW c \in Conns, Step(c)
    PROVE  \/ Finish(c) /\ (pc[c] = "bypassDial" => Resolved(c))
           \/ Resolve(c)
           \/ BypassDial(c)
           \/ /\ UNCHANGED dohVars
              /\ pc'[c] = "bypassDial" <=> pc[c] = "bypassDial"
              /\ pc'[c] \in Early => pc[c] \in Early
<1>1. CASE \E h \in Hosts : Connect(c, h)
  BY <1>1 DEF Connect, ConnTypes, Goto, Early
<1>2. CASE PlainDial(c) \/ Hijack(c) \/ Reply(c)
  BY <1>2 DEF PlainDial, Hijack, Reply, Pipe, ConnTypes, Goto, Early
<1>3. CASE ReadHello(c)
  BY <1>3 DEF ReadHello, ConnTypes, Goto, Early
<1>4. CASE DirectDial(c)
  BY <1>4 DEF DirectDial, Pipe, ConnTypes, Goto, Early
<1>5. CASE DirectSend(c) \/ DirectRefused(c)
  BY <1>5 DEF DirectSend, DirectRefused, Answered, Pipe, ConnTypes, Goto, Early
<1>6. CASE BypassSend(c) \/ SendFirst(c)
  BY <1>6 DEF BypassSend, SendFirst, Answered, Pipe, ConnTypes, Goto, Early
<1>7. CASE UpEnds(c) \/ DownEnds(c) \/ \E p \in Peers : Stall(c, p) \/ Resume(c, p)
  BY <1>7 DEF UpEnds, DownEnds, Stall, Resume
<1>8. CASE Resolve(c) \/ BypassDial(c)
  BY <1>8
<1>9. CASE \/ PlainDialFails(c) \/ HijackFails(c) \/ TakeOverFails(c) \/ DirectDialFails(c)
           \/ DirectSendFails(c) \/ BypassDialFails(c) \/ BypassSendFails(c) \/ PipeEnds(c)
  <2> HIDE DEF Finish
  <2> QED
    BY <1>9 DEF PlainDialFails, HijackFails, TakeOverFails, DirectDialFails, DirectSendFails,
            BypassDialFails, BypassSendFails, PipeEnds
<1> QED
  BY <1>1, <1>2, <1>3, <1>4, <1>5, <1>6, <1>7, <1>8, <1>9 DEF Step, Handle

\* Whose host a handler works for, and what it may put on the list.
LEMMA StepHosts ==
    ASSUME ConnTypes, Named, list \subseteq Hosts, NEW c \in Conns, Step(c)
    PROVE  /\ pc'[c] \notin {"new", "done"} => host'[c] \in Hosts
           /\ list' \subseteq Hosts
<1>1. CASE \E h \in Hosts : Connect(c, h)
  BY <1>1 DEF Connect, ConnTypes
<1>2. CASE BypassSend(c)
  BY <1>2 DEF BypassSend, AddBlockedHost, Named
<1>3. CASE /\ UNCHANGED <<host, list>>
           /\ pc[c] \in {"new", "done"} => pc' = pc
  BY <1>3 DEF Named
<1>4. CASE Finish(c) /\ UNCHANGED list
  BY <1>4 DEF Finish, Goto, ConnTypes
<1>5. \/ \E h \in Hosts : Connect(c, h)
      \/ BypassSend(c)
      \/ UNCHANGED <<host, list>> /\ (pc[c] \in {"new", "done"} => pc' = pc)
      \/ Finish(c) /\ UNCHANGED list
  <2> HIDE DEF Finish
  <2> QED
    BY DEF Step, Handle, PlainDial, PlainDialFails, Hijack, HijackFails, Reply,
           TakeOverFails, ReadHello, DirectDial, DirectDialFails, DirectSend, DirectRefused,
           DirectSendFails, Resolve, BypassDial, BypassDialFails, BypassSendFails,
           SendFirst, PipeEnds, UpEnds, DownEnds, Stall, Resume
<1> QED
  BY <1>1, <1>2, <1>3, <1>4, <1>5

\* The steps of the handlers.
LEMMA HandlersAsk ==
    ASSUME ConnInv, CallTypes, Asking, NEW c \in Conns, Step(c)
    PROVE  Asking'
<1>1. ConnTypes /\ ReplyInv /\ Named /\ list \subseteq Hosts /\ Calls(c)
  BY DEF ConnInv, Asking
<1>2. \A d \in Conns : d # c => Same(d)
  BY <1>1, OthersStay
<1>3. list' \subseteq Hosts /\ Named'
  BY <1>1, <1>2, StepHosts DEF Named, Same
<1>4. CASE Finish(c) /\ (pc[c] = "bypassDial" => Resolved(c))
  <2>1. Forget(c) /\ pc'[c] = "done" /\ call[c].pc # "waiting"
    BY <1>1, <1>4 DEF Finish, Goto, ConnTypes, Calls, Resolved
  <2>2. ReplyInv'
    BY <1>1, <2>1, ForgetCounts
  <2>3. call' = [call EXCEPT ![c] = Returned("idle")] /\ asking' = asking
    BY <2>1 DEF Forget
  <2>4. ASSUME NEW d \in Conns PROVE Calls(d)'
    BY <1>2, <2>1, <2>3 DEF Asking, Calls, Same, CallTypes, Returned, Early
  <2> QED
    BY <1>3, <2>2, <2>4 DEF Asking
<1>5. CASE Resolve(c)
  <2>1. Ask(c, host[c]) /\ pc'[c] = "bypassDial"
    BY <1>1, <1>5 DEF Resolve, Goto, ConnTypes
  <2>2. ReplyInv'
    BY <1>1, <2>1, AskCounts
  <2>3. ASSUME NEW d \in Conns, d # c PROVE call'[d] = call[d] /\ asking'[d] = asking[d]
    BY <1>1, <2>1, <2>3 DEF Ask, CallTypes, ReplyInv
  <2>4. ASSUME NEW d \in Conns PROVE Calls(d)'
    BY <1>2, <2>1, <2>3 DEF Asking, Calls, Same, Early
  <2> QED
    BY <1>3, <2>2, <2>4 DEF Asking
<1>6. CASE BypassDial(c)
  <2>1. Forget(c) /\ pc'[c] = "bypassSend" /\ call[c].pc # "waiting"
    BY <1>1, <1>6 DEF BypassDial, Goto, ConnTypes, Resolved
  <2>2. ReplyInv'
    BY <1>1, <2>1, ForgetCounts
  <2>3. call' = [call EXCEPT ![c] = Returned("idle")] /\ asking' = asking
    BY <2>1 DEF Forget
  <2>4. ASSUME NEW d \in Conns PROVE Calls(d)'
    BY <1>2, <2>1, <2>3 DEF Asking, Calls, Same, CallTypes, Returned, Early
  <2> QED
    BY <1>3, <2>2, <2>4 DEF Asking
<1>7. CASE /\ UNCHANGED dohVars
           /\ pc'[c] = "bypassDial" <=> pc[c] = "bypassDial"
           /\ pc'[c] \in Early => pc[c] \in Early
  <2>1. ReplyInv'
    BY <1>1, <1>7 DEF dohVars, ReplyInv, Counted
  <2>2. ASSUME NEW d \in Conns PROVE Calls(d)'
    BY <1>2, <1>7 DEF Asking, Calls, Same, dohVars
  <2> QED
    BY <1>3, <2>1, <2>2 DEF Asking
<1> QED
  BY <1>1, <1>4, <1>5, <1>6, <1>7, StepKinds

\* The resolver by itself neither begins a call nor ends one that is not under way.
LEMMA ResolverAsks ==
    ASSUME CallTypes, Asking, DohWorks
    PROVE  Asking'
<1>1. UNCHANGED connVars /\ UNCHANGED list
  BY DEF DohWorks
<1>2. Named' /\ list' \subseteq Hosts
  BY <1>1 DEF Asking, Named, connVars
<1>3. CASE \E q \in Conns : Receive(q) \/ TimesOut(q) \/ ProviderReplies(q)
  <2>1. PICK q \in Conns : Receive(q) \/ TimesOut(q) \/ ProviderReplies(q)
    BY <1>3
  <2>2. ReplyInv'
    BY <2>1, ReceiveCounts, ReturnCounts, RepliesCount DEF Asking, TimesOut
  <2>3. ASSUME NEW d \in Conns
        PROVE  /\ call[d].pc = "idle" => call'[d].pc = "idle"
               /\ asking[d] = 0 => asking'[d] = 0
    <3>1. CASE ProviderReplies(q)
      BY <3>1 DEF ProviderReplies, Asking, ReplyInv
    <3>2. CASE Receive(q) \/ TimesOut(q)
      <4>1. call[q].pc = "waiting" /\ UNCHANGED asking
        BY <3>2 DEF Receive, TimesOut
      <4>2. CASE Return(q, "answered", "ips") \/ Return(q, "failed", "failed")
        BY <4>1, <4>2 DEF Return, CallTypes
      <4>3. CASE call' = [call EXCEPT ![q].failures = @ + 1]
        BY <4>1, <4>3 DEF CallTypes
      <4> QED
        BY <3>2, <4>2, <4>3 DEF Receive, TimesOut
    <3> QED
      BY <2>1, <3>1, <3>2
  <2>4. ASSUME NEW d \in Conns PROVE Calls(d)'
    BY <1>1, <2>3 DEF Asking, Calls, connVars
  <2> QED
    BY <1>2, <2>2, <2>4 DEF Asking
<1>4. CASE \E h \in Hosts : Expires(h)
  <2>1. UNCHANGED <<call, asking, channel>>
    BY <1>4 DEF Expires
  <2>2. ReplyInv' /\ \A d \in Conns : Calls(d)'
    BY <1>1, <2>1 DEF Asking, ReplyInv, Counted, Calls, connVars
  <2> QED
    BY <1>2, <2>2 DEF Asking
<1> QED
  BY <1>3, <1>4 DEF DohWorks, DohStep, Resolving

LEMMA AskingKept == ConnInv /\ CacheInv /\ Asking /\ [Next]_vars => Asking'
<1> SUFFICES ASSUME ConnInv, CacheInv, Asking, [Next]_vars PROVE Asking'
  OBVIOUS
<1>1. CASE \E c \in Conns : Step(c)
  BY <1>1, HandlersAsk DEF CacheInv
<1>2. CASE DohWorks
  BY <1>2, ResolverAsks DEF CacheInv
<1>3. CASE EditList
  BY <1>3 DEF EditList, dohVars, connVars, Asking, ReplyInv, Counted, Calls, Named
<1>4. CASE UNCHANGED vars
  BY <1>4 DEF vars, dohVars, connVars, Asking, ReplyInv, Counted, Calls, Named
<1> QED
  BY <1>1, <1>2, <1>3, <1>4, Zenon DEF Next, Step

\* doh.go:40: results sent, results to come and failures read always make up the number of
\* providers, so that the buffer of the channel is never full before a send, and a call
\* under way never waits for nobody.
RepliesAddUp ==
    \A q \in Conns : call[q].pc = "waiting" =>
        /\ asking[q] + Len(channel[q]) + call[q].failures = Providers
        /\ asking[q] > 0 \/ channel[q] # <<>>

\* doh.go:40: the three counts of a call under way always add up, for any number of providers.
THEOREM EveryReplyCounts == Spec => []RepliesAddUp
<1>1. ASSUME CallTypes, Asking PROVE RepliesAddUp
  <2> SUFFICES ASSUME NEW q \in Conns, call[q].pc = "waiting"
               PROVE  /\ asking[q] + Len(channel[q]) + call[q].failures = Providers
                      /\ asking[q] > 0 \/ channel[q] # <<>>
    BY DEF RepliesAddUp
  <2>1. /\ asking[q] + Len(channel[q]) + call[q].failures = Providers
        /\ call[q].failures < Providers
    BY <1>1 DEF Asking, ReplyInv, Counted
  <2>2. asking[q] \in Nat /\ call[q].failures \in Nat /\ channel[q] \in Seq(Results)
    BY <1>1, DohAssumption DEF Asking, ReplyInv, CallTypes
  <2>3. channel[q] = <<>> => Len(channel[q]) = 0
    OBVIOUS
  <2>4. asking[q] > 0 \/ channel[q] # <<>>
    BY <2>1, <2>2, <2>3
  <2> QED
    BY <2>1, <2>4
<1> QED
  BY <1>1, ResolverSound, AskingInitially, AskingKept, PTL DEF Spec, CacheInv

\* Handlers, calls and channels keep their types, no channel ever holds more than its buffer.
THEOREM ConnectTypes == Spec => []TypeOK
<1>1. ASSUME ConnInv, CallTypes, Asking PROVE TypeOK
  <2>1. ASSUME NEW q \in Conns PROVE /\ call[q].failures \in 0..Providers
                                     /\ channel[q] \in Seq(Results) /\ Len(channel[q]) <= Providers
    <3>1. /\ channel[q] \in Seq(Results) /\ asking[q] \in 0..Providers /\ call[q].failures \in Nat
          /\ Counted(q)
      BY <1>1 DEF CallTypes, Asking, ReplyInv
    <3>2. Providers \in Nat /\ Len(channel[q]) \in Nat
      BY <3>1, DohAssumption
    <3>3. CASE call[q].pc = "waiting"
      BY <3>1, <3>2, <3>3 DEF Counted
    <3>4. CASE call[q].pc # "waiting"
      BY <3>1, <3>2, <3>4 DEF Counted
    <3> QED
      BY <3>1, <3>3, <3>4
  <2>2. call \in [Conns -> [pc : {"idle", "waiting", "answered", "failed"},
                            name : Hosts \cup {"none"}, failures : 0..Providers,
                            overtaken : BOOLEAN]]
    BY <1>1, <2>1 DEF CallTypes
  <2>3. DohTypeOK
    BY <1>1, <2>1, <2>2 DEF DohTypeOK, CallTypes, Asking, ReplyInv
  <2> QED
    BY <1>1, <2>3 DEF TypeOK, ConnInv, ConnTypes, Asking
<1> QED
  BY <1>1, ResolverSound, AskingInitially, AskingKept, PTL DEF Spec, CacheInv

----------------------------------------------------------------------------
(* The packets of a hello: theorems about Segments, for hellos of any length, servers at *)
(* any distance and sequence numbers from anywhere.                                    *)

\* Max and Min of FiniteSetsExt, on two numbers, as autoFakeTTL uses them.
LEMMA MaxOfTwo ==
    ASSUME NEW a \in Int, NEW b \in Int
    PROVE  Max({a, b}) = IF a >= b THEN a ELSE b
<1> DEFINE m == IF a >= b THEN a ELSE b
<1>1. m \in {a, b} /\ \A y \in {a, b} : m >= y
  OBVIOUS
<1>2. \A x \in {a, b} : (\A y \in {a, b} : x >= y) => x = m
  OBVIOUS
<1> QED
  BY <1>1, <1>2 DEF Max

LEMMA MinOfTwo ==
    ASSUME NEW a \in Int, NEW b \in Int
    PROVE  Min({a, b}) = IF a <= b THEN a ELSE b
<1> DEFINE m == IF a <= b THEN a ELSE b
<1>1. m \in {a, b} /\ \A y \in {a, b} : m =< y
  OBVIOUS
<1>2. \A x \in {a, b} : (\A y \in {a, b} : x =< y) => x = m
  OBVIOUS
<1> QED
  BY <1>1, <1>2 DEF Min

\* dpi_divert.go:185: the TTL guessed from a SYN-ACK reaches a server behind two routers or
\* fewer, and no other: hops is the way, whatever TTL the server's system starts from.
THEOREM AutoFakeReach ==
    ASSUME NEW r \in 0..63, NEW s \in {64, 128, 255}
    PROVE  autoFakeTTL(s - r) \in 3..20 /\ (autoFakeTTL(s - r) > r <=> r < 3)
<1> DEFINE hops == (IF s - r > 128 THEN 255 ELSE IF s - r > 64 THEN 128 ELSE 64) - (s - r)
<1>1. hops = r
  OBVIOUS
<1>2. autoFakeTTL(s - r) = Max({3, Min({hops - 2, 20})})
  BY DEF autoFakeTTL
<1>3. Min({hops - 2, 20}) = IF r - 2 <= 20 THEN r - 2 ELSE 20
  BY <1>1, MinOfTwo
<1> HIDE DEF hops
<1> DEFINE n == Min({hops - 2, 20})
<1>4. n \in Int /\ n <= 20 /\ n <= r - 2 /\ (r <= 22 => n = r - 2)
  BY <1>3
<1> HIDE DEF n
<1>5. Max({3, n}) = IF 3 >= n THEN 3 ELSE n
  BY <1>4, MaxOfTwo
<1> QED
  BY <1>2, <1>4, <1>5 DEF n

\* Where a position is, seen from a segment further on: sequence numbers wrap around.
LEMMA Wraps ==
    ASSUME NEW S \in Nat \ {0}, NEW i \in 0..(S - 1), NEW off \in 0..(S - 1), NEW q \in 0..(S - 1)
    PROVE  (i + q - ((q + off) % S)) % S = IF i >= off THEN i - off ELSE i - off + S
<1>1. (q + off) % S = IF q + off < S THEN q + off ELSE q + off - S
  OBVIOUS
<1>2. i + q - ((q + off) % S) \in {i - off, i - off + S}
  BY <1>1
<1> QED
  BY <1>2

----------------------------------------------------------------------------
(* The parts of a hello *)

\* What a connection is made of: the types of its fields, and its name within its hello.
LEMMA HelloShape ==
    ASSUME NEW c \in Hellos, Treated(c)
    PROVE  /\ c.length \in Nat /\ c.length >= 4 /\ 2 * c.length < SeqSpace
           /\ c.name \in Nat /\ c.nameEnd \in Nat /\ c.name <= c.nameEnd /\ c.nameEnd < c.length
           /\ SeqSpace \in Nat \ {0} /\ c.seq \in 0..(SeqSpace - 1) /\ c.routers \in 0..63
           /\ c.serverTTL \in {64, 128, 255} /\ c.measured \in BOOLEAN
           /\ c.strategy \in divertStrategies \cup dpiStrategies
<1>1. c.length \in Lengths /\ c.seq \in FirstSeqs /\ c.routers \in Routes
      /\ c.serverTTL \in {64, 128, 255} /\ c.measured \in BOOLEAN
      /\ c.strategy \in divertStrategies \cup dpiStrategies
  BY DEF Hellos
<1>2. c.name \in UNION {NoName..n : n \in Lengths} /\ c.nameEnd \in UNION {NoName..n : n \in Lengths}
  BY DEF Hellos
<1>3. c.name \in Nat /\ c.nameEnd \in Nat
  BY <1>2, SegmentsAssumption DEF NoName
<1>4. c.length \in Nat /\ c.length >= 4 /\ 2 * c.length < SeqSpace
  <2>1. Lengths \subseteq Nat \ (0..3) /\ \A n \in Lengths : 2 * n < SeqSpace
    BY SegmentsAssumption, Zenon
  <2>2. \A n \in Lengths : n \in Nat /\ n >= 4
    BY <2>1
  <2>3. c.length \in Lengths
    BY <1>1
  <2> QED
    BY <2>1, <2>2, <2>3
<1>5. c.seq \in 0..(SeqSpace - 1) /\ c.routers \in 0..63 /\ SeqSpace \in Nat \ {0}
  <2>1. FirstSeqs \subseteq 0..(SeqSpace - 1) /\ Routes \subseteq 0..63 /\ SeqSpace \in Nat \ {0}
    BY SegmentsAssumption, Zenon
  <2>2. c.seq \in FirstSeqs /\ c.routers \in Routes
    BY <1>1
  <2> QED
    BY <2>1, <2>2
<1>6. c.name <= c.nameEnd /\ c.nameEnd < c.length
  BY DEF Treated
<1> QED
  BY <1>1, <1>3, <1>4, <1>5, <1>6

\* A hello is its header, and after it every byte at its own number.
LEMMA BytesShape ==
    ASSUME NEW n \in Nat, n >= 1
    PROVE  /\ Bytes(n) \in Seq(Int) /\ Len(Bytes(n)) = n
           /\ Bytes(n)[1] = Header(n - 1)
           /\ \A k \in 2..n : Bytes(n)[k] = k - 1
<1> DEFINE body == [i \in 1..(n - 1) |-> i]
<1> DEFINE head == <<Header(n - 1)>>
<1>1. body \in Seq(Int) /\ Len(body) = n - 1 /\ \A k \in 1..(n - 1) : body[k] = k
  OBVIOUS
<1>2. head \in Seq(Int) /\ Len(head) = 1 /\ head[1] = Header(n - 1)
  BY DEF Header
<1>3. Bytes(n) = head \o body
  BY DEF Bytes
<1> HIDE DEF body, head
<1>4. /\ head \o body \in Seq(Int) /\ Len(head \o body) = Len(head) + Len(body)
      /\ \A i \in 1..(Len(head) + Len(body)) :
            (head \o body)[i] = IF i <= Len(head) THEN head[i] ELSE body[i - Len(head)]
  BY <1>1, <1>2, ConcatProperties
<1> QED
  BY <1>1, <1>2, <1>3, <1>4

\* A sequence cut in two.
LEMMA CutShape ==
    ASSUME NEW s \in Seq(Int), NEW at \in 0..Len(s)
    PROVE  /\ SubSeq(s, 1, at) \in Seq(Int) /\ Len(SubSeq(s, 1, at)) = at
           /\ \A k \in 1..at : SubSeq(s, 1, at)[k] = s[k]
           /\ SubSeq(s, at + 1, Len(s)) \in Seq(Int)
           /\ Len(SubSeq(s, at + 1, Len(s))) = Len(s) - at
           /\ \A k \in 1..(Len(s) - at) : SubSeq(s, at + 1, Len(s))[k] = s[at + k]
  OBVIOUS

\* A header in front.
LEMMA HeaderShape ==
    ASSUME NEW h \in Nat, NEW s \in Seq(Int)
    PROVE  /\ <<Header(h)>> \o s \in Seq(Int) /\ Len(<<Header(h)>> \o s) = Len(s) + 1
           /\ (<<Header(h)>> \o s)[1] < Nothing
           /\ \A k \in 1..Len(s) : (<<Header(h)>> \o s)[k + 1] = s[k]
<1> DEFINE head == <<Header(h)>>
<1>1. head \in Seq(Int) /\ Len(head) = 1 /\ head[1] = -2 - h
  BY DEF Header
<1> HIDE DEF head
<1>2. /\ head \o s \in Seq(Int) /\ Len(head \o s) = Len(head) + Len(s)
      /\ \A i \in 1..(Len(head) + Len(s)) :
            (head \o s)[i] = IF i <= Len(head) THEN head[i] ELSE s[i - Len(head)]
  BY <1>1, ConcatProperties
<1>3. (head \o s)[1] < Nothing /\ Len(head \o s) = Len(s) + 1
  BY <1>1, <1>2 DEF Nothing
<1>4. \A k \in 1..Len(s) : (head \o s)[k + 1] = s[k]
  BY <1>1, <1>2
<1> QED
  BY <1>2, <1>3, <1>4 DEF head

\* What is sent: two parts, neither of which has both the first and the last letter of
\* the name.
CutWell(n, name, nameEnd, p, q) ==
    /\ p \in Seq(Int) /\ q \in Seq(Int)
    /\ Len(p) >= 1 /\ Len(p) + Len(q) <= n + 1
    /\ \A k \in 1..Len(p) : p[k] # Nothing
    /\ \A k \in 1..Len(q) : q[k] # Nothing
    /\ name < nameEnd =>
          /\ \A k \in 1..Len(p) : p[k] # nameEnd
          /\ \A k \in 1..Len(q) : q[k] # name

\* dpi_divert.go:243 and dpi_engine.go:109: the two parts of one record.
LEMMA HalvesCutWell ==
    ASSUME NEW n \in Nat \ {0}, NEW name \in Nat, NEW nameEnd \in Nat, NEW at \in 1..n,
           name < nameEnd => at = name + 1
    PROVE  CutWell(n, name, nameEnd, SubSeq(Bytes(n), 1, at), SubSeq(Bytes(n), at + 1, n))
<1> DEFINE b == Bytes(n)
           p == SubSeq(b, 1, at)
           q == SubSeq(b, at + 1, n)
<1>1. b \in Seq(Int) /\ Len(b) = n /\ b[1] = -2 - (n - 1) /\ \A k \in 2..n : b[k] = k - 1
  BY BytesShape DEF Header
<1> HIDE DEF b
<1>2. /\ p \in Seq(Int) /\ Len(p) = at /\ \A k \in 1..at : p[k] = b[k]
      /\ q \in Seq(Int) /\ Len(q) = n - at /\ \A k \in 1..(n - at) : q[k] = b[at + k]
  BY <1>1
<1> HIDE DEF p, q
<1>3. ASSUME NEW k \in 1..at PROVE p[k] # Nothing /\ p[k] < at
  <2>1. CASE k = 1
    BY <1>1, <1>2, <2>1 DEF Nothing
  <2>2. CASE k \in 2..n
    BY <1>1, <1>2, <2>2 DEF Nothing
  <2> QED
    BY <2>1, <2>2
<1>4. ASSUME NEW k \in 1..(n - at) PROVE q[k] = at + k - 1
  <2>1. at + k \in 2..n
    OBVIOUS
  <2> QED
    BY <1>1, <1>2, <2>1
<1>5. ASSUME NEW k \in 1..Len(p), name < nameEnd PROVE p[k] # nameEnd
  BY <1>2, <1>3, <1>5
<1>6. ASSUME NEW k \in 1..Len(q) PROVE q[k] # Nothing /\ (name < nameEnd => q[k] # name)
  BY <1>2, <1>4 DEF Nothing
<1>7. CutWell(n, name, nameEnd, p, q)
  BY <1>2, <1>3, <1>5, <1>6 DEF CutWell
<1> QED
  BY <1>7 DEF p, q, b

\* tls_parse.go:50: one record made two.
LEMMA RecordsCutWell ==
    ASSUME NEW n \in Nat \ {0}, NEW name \in Nat, NEW nameEnd \in Nat, name < n
    PROVE  CutWell(n, name, nameEnd, splitTLSRecord(Bytes(n), name + 1)[1],
                                     splitTLSRecord(Bytes(n), name + 1)[2])
<1> DEFINE at == name + 1
           s == SubSeq(Bytes(n), 2, at)
           t == SubSeq(Bytes(n), at + 1, n)
           p == <<Header(at - 1)>> \o s
           q == <<Header(n - at)>> \o t
<1>1. /\ Bytes(n) \in Seq(Int) /\ Len(Bytes(n)) = n
      /\ \A k \in 2..n : Bytes(n)[k] = k - 1
  BY BytesShape
<1>2. splitTLSRecord(Bytes(n), name + 1)[1] = p /\ splitTLSRecord(Bytes(n), name + 1)[2] = q
  BY <1>1 DEF splitTLSRecord
<1>3. at \in 1..n /\ at - 1 \in Nat /\ n - at \in Nat /\ at = name + 1
  OBVIOUS
<1> HIDE DEF at
<1>4. s \in Seq(Int) /\ Len(s) = at - 1 /\ \A k \in 1..(at - 1) : s[k] = k
  BY <1>1, <1>3
<1>5. t \in Seq(Int) /\ Len(t) = n - at /\ \A k \in 1..(n - at) : t[k] = at + k - 1
  BY <1>1, <1>3
<1> HIDE DEF s, t
<1>6. /\ p \in Seq(Int) /\ Len(p) = Len(s) + 1 /\ p[1] < Nothing
      /\ \A k \in 1..Len(s) : p[k + 1] = s[k]
  BY <1>3, <1>4, HeaderShape
<1>7. /\ q \in Seq(Int) /\ Len(q) = Len(t) + 1 /\ q[1] < Nothing
      /\ \A k \in 1..Len(t) : q[k + 1] = t[k]
  BY <1>3, <1>5, HeaderShape
<1> HIDE DEF p, q
<1>8. ASSUME NEW k \in 1..Len(p) PROVE p[k] # Nothing /\ p[k] < at
  <2>1. CASE k = 1
    BY <1>3, <1>6, <2>1 DEF Nothing
  <2>2. CASE k > 1
    <3>1. k - 1 \in 1..Len(s) /\ (k - 1) + 1 = k
      BY <1>3, <1>4, <1>6, <2>2
    <3>2. p[k] = s[k - 1]
      BY <1>6, <3>1
    <3> QED
      BY <1>3, <1>4, <3>1, <3>2 DEF Nothing
  <2> QED
    BY <2>1, <2>2, <1>4, <1>6
<1>9. ASSUME NEW k \in 1..Len(q) PROVE q[k] # Nothing /\ (q[k] < Nothing \/ q[k] >= at)
  <2>1. CASE k = 1
    BY <1>3, <1>7, <2>1 DEF Nothing
  <2>2. CASE k > 1
    <3>1. k - 1 \in 1..Len(t) /\ (k - 1) + 1 = k
      BY <1>3, <1>5, <1>7, <2>2
    <3>2. q[k] = t[k - 1]
      BY <1>7, <3>1
    <3> QED
      BY <1>3, <1>5, <3>1, <3>2 DEF Nothing
  <2> QED
    BY <2>1, <2>2, <1>5, <1>7
<1>10. Len(p) >= 1 /\ Len(p) + Len(q) <= n + 1
  BY <1>3, <1>4, <1>5, <1>6, <1>7
<1>11. ASSUME name < nameEnd, NEW k \in 1..Len(p) PROVE p[k] # nameEnd
  BY <1>3, <1>6, <1>8, <1>11
<1>12. ASSUME NEW k \in 1..Len(q) PROVE q[k] # name
  BY <1>3, <1>7, <1>9, <1>12 DEF Nothing
<1> QED
  BY <1>2, <1>6, <1>7, <1>8, <1>9, <1>10, <1>11, <1>12 DEF CutWell

\* Whatever the strategy, the two parts are cut well.
LEMMA PartsCutWell ==
    ASSUME NEW c \in Hellos, Treated(c)
    PROVE  CutWell(c.length, c.name, c.nameEnd, Parts(c)[1], Parts(c)[2])
<1>1. /\ c.length \in Nat \ {0} /\ c.name \in Nat /\ c.nameEnd \in Nat
      /\ c.length >= 4 /\ c.name <= c.nameEnd /\ c.nameEnd < c.length /\ c.name < c.length
  <2>1. /\ c.length \in Nat /\ c.name \in Nat /\ c.nameEnd \in Nat
        /\ c.length >= 4 /\ c.name <= c.nameEnd /\ c.nameEnd < c.length
    BY HelloShape
  <2> QED
    BY <2>1
<1>2. Len(Bytes(c.length)) = c.length
  BY <1>1, BytesShape
<1>3. CASE c.strategy.side # "proxy"
  <2>1. /\ CutAt(c.length, c.name) \in 1..c.length
        /\ c.name < c.nameEnd => CutAt(c.length, c.name) = c.name + 1
    BY <1>1 DEF CutAt
  <2>2. /\ Parts(c)[1] = SubSeq(Bytes(c.length), 1, CutAt(c.length, c.name))
        /\ Parts(c)[2] = SubSeq(Bytes(c.length), CutAt(c.length, c.name) + 1, c.length)
    BY <1>2, <1>3 DEF Parts
  <2> QED
    BY <1>1, <2>1, <2>2, HalvesCutWell
<1>4. CASE c.strategy.side = "proxy" /\ ~c.strategy.tlsrec
  <2>1. c.name + 1 \in 1..c.length /\ (c.name + 1) + 1 = c.name + 2
    BY <1>1
  <2>2. /\ Parts(c)[1] = SubSeq(Bytes(c.length), 1, c.name + 1)
        /\ Parts(c)[2] = SubSeq(Bytes(c.length), (c.name + 1) + 1, c.length)
    BY <1>2, <1>4, <2>1 DEF Parts
  <2> QED
    BY <1>1, <2>1, <2>2, HalvesCutWell
<1>5. CASE c.strategy.side = "proxy" /\ c.strategy.tlsrec
  <2>1. Parts(c) = splitTLSRecord(Bytes(c.length), c.name + 1)
    BY <1>5 DEF Parts
  <2> QED
    BY <1>1, <2>1, RecordsCutWell
<1> QED
  BY <1>3, <1>4, <1>5

----------------------------------------------------------------------------
(* What is under way and what has arrived *)

\* A packet of one of the parts.
Offset(c, j) == IF j = 1 THEN 0 ELSE Len(Parts(c)[1])

IsPart(c, p) ==
    \E j \in {1, 2} : p.bytes = Parts(c)[j] /\ p.seq = (c.seq + Offset(c, j)) % SeqSpace

\* Where a part goes in the stream.
Place(c, j) == Offset(c, j)..(Offset(c, j) + Len(Parts(c)[j]) - 1)

\* Each part arrives whole or not at all, at its place.
Received ==
    /\ buffer \in [0..(SeqSpace - 1) -> Int]
    /\ \A i \in 0..(SeqSpace - 1) : i >= Len(Stream(flow)) => buffer[i] = Nothing
    /\ \A j \in {1, 2} :
          \/ \A i \in Place(flow, j) : buffer[i] = Nothing
          \/ \A i \in Place(flow, j) : buffer[i] = Stream(flow)[i + 1]

\* The inductive invariant: what is sent and what flies is a part, or the fake.
SegmentsInv ==
    /\ flow \in Hellos /\ Treated(flow)
    /\ ~FakeMayReach(flow) =>
          /\ Received
          /\ \A p \in seen : IsPart(flow, p)
          /\ \A p \in flying : IsPart(flow, p) \/ (flow.strategy.fake # "none" /\ p = FakeHello(flow))

\* The stream is its parts, one after the other.
LEMMA StreamShape ==
    ASSUME NEW c \in Hellos, Treated(c)
    PROVE  /\ Stream(c) \in Seq(Int) /\ Len(Stream(c)) = Len(Parts(c)[1]) + Len(Parts(c)[2])
           /\ Len(Parts(c)[1]) \in Nat /\ Len(Parts(c)[2]) \in Nat
           /\ Len(Stream(c)) \in 1..(SeqSpace - 1) /\ Len(Parts(c)[1]) >= 1
           /\ \A j \in {1, 2} : Offset(c, j) \in 0..(SeqSpace - 1)
           /\ \A j \in {1, 2} : \A k \in 1..Len(Parts(c)[j]) :
                 /\ Offset(c, j) + k \in 1..Len(Stream(c))
                 /\ Stream(c)[Offset(c, j) + k] = Parts(c)[j][k]
                 /\ Parts(c)[j][k] # Nothing
           /\ \A i \in 1..Len(Stream(c)) : Stream(c)[i] # Nothing
<1> DEFINE p == Parts(c)[1]
           q == Parts(c)[2]
<1>1. /\ p \in Seq(Int) /\ q \in Seq(Int) /\ Len(p) >= 1 /\ Len(p) + Len(q) <= c.length + 1
      /\ \A k \in 1..Len(p) : p[k] # Nothing
      /\ \A k \in 1..Len(q) : q[k] # Nothing
  BY PartsCutWell DEF CutWell
<1>2. c.length \in Nat /\ c.length >= 4 /\ 2 * c.length < SeqSpace /\ SeqSpace \in Nat \ {0}
  BY HelloShape
<1>3. Stream(c) = p \o q
  BY DEF Stream
<1>4. Offset(c, 1) = 0 /\ Offset(c, 2) = Len(p)
  BY DEF Offset
<1> HIDE DEF p, q
<1>5. /\ p \o q \in Seq(Int) /\ Len(p \o q) = Len(p) + Len(q)
      /\ \A i \in 1..(Len(p) + Len(q)) :
            (p \o q)[i] = IF i <= Len(p) THEN p[i] ELSE q[i - Len(p)]
  BY <1>1, ConcatProperties
<1>6. Len(p) \in Nat /\ Len(q) \in Nat /\ Len(p) + Len(q) \in 1..(SeqSpace - 1)
  BY <1>1, <1>2
<1>7. ASSUME NEW k \in 1..Len(p) PROVE k \in 1..(Len(p) + Len(q)) /\ (p \o q)[0 + k] = p[k]
  BY <1>5, <1>6
<1>8. ASSUME NEW k \in 1..Len(q)
      PROVE  Len(p) + k \in 1..(Len(p) + Len(q)) /\ (p \o q)[Len(p) + k] = q[k]
  BY <1>5, <1>6
<1>9. ASSUME NEW i \in 1..(Len(p) + Len(q)) PROVE (p \o q)[i] # Nothing
  <2>1. CASE i <= Len(p)
    BY <1>1, <1>5, <1>6, <2>1
  <2>2. CASE i > Len(p)
    <3>1. i - Len(p) \in 1..Len(q) /\ (p \o q)[i] = q[i - Len(p)]
      BY <1>5, <1>6, <2>2
    <3> QED
      BY <1>1, <3>1
  <2> QED
    BY <2>1, <2>2, <1>6
<1>10. \A j \in {1, 2} : \A k \in 1..Len(Parts(c)[j]) :
                 /\ Offset(c, j) + k \in 1..Len(Stream(c))
                 /\ Stream(c)[Offset(c, j) + k] = Parts(c)[j][k]
                 /\ Parts(c)[j][k] # Nothing
  <2>1. ASSUME NEW k \in 1..Len(p)
        PROVE  0 + k \in 1..(Len(p) + Len(q)) /\ (p \o q)[0 + k] = p[k] /\ p[k] # Nothing
    BY <1>1, <1>6, <1>7
  <2>2. ASSUME NEW k \in 1..Len(q)
        PROVE  Len(p) + k \in 1..(Len(p) + Len(q)) /\ (p \o q)[Len(p) + k] = q[k] /\ q[k] # Nothing
    BY <1>1, <1>6, <1>8
  <2> QED
    BY <1>3, <1>4, <1>5, <2>1, <2>2, Zenon DEF p, q
<1>11. \A j \in {1, 2} : Offset(c, j) \in 0..(SeqSpace - 1)
  BY <1>1, <1>2, <1>4, <1>6
<1>12. /\ Stream(c) \in Seq(Int) /\ Len(Stream(c)) = Len(p) + Len(q)
       /\ Len(Stream(c)) \in 1..(SeqSpace - 1)
       /\ \A i \in 1..Len(Stream(c)) : Stream(c)[i] # Nothing
  BY <1>3, <1>5, <1>6, <1>9
<1> QED
  BY <1>1, <1>6, <1>10, <1>11, <1>12 DEF p, q

\* The places of the two parts make up the stream and do not overlap.
LEMMA PlaceShape ==
    ASSUME NEW c \in Hellos, Treated(c)
    PROVE  /\ Place(c, 1) = 0..(Len(Parts(c)[1]) - 1)
           /\ Place(c, 2) = Len(Parts(c)[1])..(Len(Stream(c)) - 1)
           /\ \A j \in {1, 2} : \A i \in Place(c, j) : i \in 0..(SeqSpace - 1) /\ i < Len(Stream(c))
           /\ \A i \in 0..(Len(Stream(c)) - 1) : i \in Place(c, 1) \/ i \in Place(c, 2)
           /\ \A i \in Place(c, 1) : i \notin Place(c, 2)
           /\ 0 \in Place(c, 1)
<1> DEFINE p == Len(Parts(c)[1])
           q == Len(Parts(c)[2])
           l == Len(Stream(c))
<1>1. l = p + q /\ p \in Nat /\ q \in Nat /\ l \in 1..(SeqSpace - 1) /\ p >= 1
  BY StreamShape
<1>2. SeqSpace \in Nat \ {0}
  BY HelloShape
<1>3. Offset(c, 1) = 0 /\ Offset(c, 2) = p
  BY DEF Offset
<1>4. Place(c, 1) = Offset(c, 1)..(Offset(c, 1) + p - 1) /\ Place(c, 2) = Offset(c, 2)..(Offset(c, 2) + q - 1)
  BY DEF Place
<1> HIDE DEF p, q, l
<1>5. Place(c, 1) = 0..(p - 1) /\ Place(c, 2) = p..(l - 1)
  BY <1>1, <1>3, <1>4
<1>6. \A j \in {1, 2} : \A i \in Place(c, j) : i \in 0..(SeqSpace - 1) /\ i < l
  BY <1>1, <1>2, <1>5
<1>7. /\ \A i \in 0..(l - 1) : i \in Place(c, 1) \/ i \in Place(c, 2)
      /\ \A i \in Place(c, 1) : i \notin Place(c, 2)
      /\ 0 \in Place(c, 1)
  BY <1>1, <1>5
<1> QED
  BY <1>5, <1>6, <1>7 DEF p, l

\* tcpSegment gives a part the sequence number of its place.
LEMMA SegmentIsPart ==
    ASSUME NEW c, NEW j \in {1, 2}, NEW ttl
    PROVE  IsPart(c, Segment(c, j, ttl))
<1>1. /\ Segment(c, j, ttl).bytes = Parts(c)[j]
      /\ Segment(c, j, ttl).seq = (c.seq + Offset(c, j)) % SeqSpace
  BY DEF Segment, tcpSegment, Offset
<1> QED
  BY <1>1 DEF IsPart

\* So does all that goes out for a hello.
LEMMA EmittedAreParts ==
    ASSUME NEW c, NEW p \in Emitted(c)
    PROVE  IsPart(c, p)
<1>1. \E j \in {1, 2} : \E ttl : p = Segment(c, j, ttl)
  BY DEF Emitted
<1> QED
  BY <1>1, SegmentIsPart

\* dpi_divert.go:246: FakeMayReach, the exception of the three properties, excuses no more
\* than it must: it holds of just those connections whose fake lives long enough to reach
\* the server and is valid there.
THEOREM FakeReachesExactly ==
    ASSUME NEW c \in Hellos, Treated(c), c.strategy.fake # "none"
    PROVE  FakeMayReach(c) <=> FakeHello(c).ttl > c.routers /\ FakeHello(c).valid
<1>1. /\ c.routers \in 0..63 /\ c.serverTTL \in {64, 128, 255} /\ c.measured \in BOOLEAN
      /\ c.strategy \in divertStrategies \cup dpiStrategies
  BY HelloShape
<1>2. /\ c.strategy.fake \in {"fixed", "auto", "corrupt"}
      /\ c.strategy.fake = "fixed" => c.strategy.ttl \in Nat
  BY <1>1 DEF divertStrategies, dpiStrategies, Packets
<1>3. FakeHello(c).ttl = FakeTTL(c) /\ (FakeHello(c).valid <=> c.strategy.fake # "corrupt")
  BY DEF FakeHello
<1>4. CASE c.strategy.fake = "fixed"
  BY <1>1, <1>3, <1>4 DEF FakeTTL, FakeMayReach
<1>5. CASE c.strategy.fake = "auto" /\ ~c.measured
  <2>1. FakeTTL(c) = 8
    BY <1>5 DEF FakeTTL
  <2>2. FakeMayReach(c) <=> c.routers < 8
    BY <1>5 DEF FakeMayReach
  <2> QED
    BY <1>1, <1>3, <1>5, <2>1, <2>2
<1>6. CASE c.strategy.fake = "auto" /\ c.measured
  <2>1. FakeTTL(c) = autoFakeTTL(c.serverTTL - c.routers)
    BY <1>6 DEF FakeTTL
  <2>2. FakeMayReach(c) <=> c.routers < 3
    BY <1>6 DEF FakeMayReach
  <2>3. autoFakeTTL(c.serverTTL - c.routers) > c.routers <=> c.routers < 3
    BY <1>1, AutoFakeReach
  <2> QED
    BY <1>3, <1>6, <2>1, <2>2, <2>3
<1>7. CASE c.strategy.fake = "corrupt"
  BY <1>3, <1>7 DEF FakeMayReach
<1> QED
  BY <1>1, <1>2, <1>4, <1>5, <1>6, <1>7

\* What the server has acknowledged is nothing, the first part, or all.
LEMMA AckedShape ==
    ASSUME flow \in Hellos, Treated(flow), Received
    PROVE  Acked \in {0, Len(Parts(flow)[1]), Len(Stream(flow))}
<1> DEFINE n == Len(Parts(flow)[1])
           l == Len(Stream(flow))
           IsAcked(k) == buffer[k] = Nothing /\ \A j \in 0..(k - 1) : buffer[j] # Nothing
<1>1. n \in Nat /\ n >= 1 /\ l \in 1..(SeqSpace - 1) /\ n <= l /\ SeqSpace \in Nat \ {0}
  <2> DEFINE q == Len(Parts(flow)[2])
  <2>1. l = n + q /\ n \in Nat /\ q \in Nat /\ l \in 1..(SeqSpace - 1) /\ n >= 1
    BY StreamShape
  <2>2. SeqSpace \in Nat \ {0}
    BY HelloShape
  <2> HIDE DEF n, l, q
  <2> QED
    BY <2>1, <2>2
<1>2. /\ Place(flow, 1) = 0..(n - 1) /\ Place(flow, 2) = n..(l - 1)
  BY PlaceShape
<1>3. /\ \A i \in l..(SeqSpace - 1) : buffer[i] = Nothing
      /\ (\A i \in 0..(n - 1) : buffer[i] = Nothing) \/ (\A i \in 0..(n - 1) : buffer[i] # Nothing)
      /\ (\A i \in n..(l - 1) : buffer[i] = Nothing) \/ (\A i \in n..(l - 1) : buffer[i] # Nothing)
  <2>1. \A i \in 1..l : Stream(flow)[i] # Nothing
    BY StreamShape
  <2>2. \A i \in 0..(l - 1) : Stream(flow)[i + 1] # Nothing
    BY <1>1, <2>1
  <2>3. /\ \A i \in 0..(SeqSpace - 1) : i >= l => buffer[i] = Nothing
        /\ \A j \in {1, 2} :
              \/ \A i \in Place(flow, j) : buffer[i] = Nothing
              \/ \A i \in Place(flow, j) : buffer[i] = Stream(flow)[i + 1]
    BY DEF Received
  <2> HIDE DEF n, l
  <2>4. \A i \in l..(SeqSpace - 1) : buffer[i] = Nothing
    BY <1>1, <2>3
  <2>5. (\A i \in 0..(n - 1) : buffer[i] = Nothing) \/ (\A i \in 0..(n - 1) : buffer[i] = Stream(flow)[i + 1])
    BY <1>2, <2>3
  <2>6. (\A i \in n..(l - 1) : buffer[i] = Nothing) \/ (\A i \in n..(l - 1) : buffer[i] = Stream(flow)[i + 1])
    BY <1>2, <2>3
  <2>7. (\A i \in 0..(n - 1) : i \in 0..(l - 1)) /\ (\A i \in n..(l - 1) : i \in 0..(l - 1))
    BY <1>1
  <2> QED
    BY <2>2, <2>4, <2>5, <2>6, <2>7
<1>4. Acked = CHOOSE k \in 0..(SeqSpace - 1) : IsAcked(k)
  BY DEF Acked
<1> HIDE DEF n, l
<1>5. \E k \in {0, n, l} : k \in 0..(SeqSpace - 1) /\ IsAcked(k)
  <2>1. CASE \A i \in 0..(n - 1) : buffer[i] = Nothing
    BY <1>1, <2>1
  <2>2. CASE (\A i \in 0..(n - 1) : buffer[i] # Nothing) /\ n < l /\ \A i \in n..(l - 1) : buffer[i] = Nothing
    BY <1>1, <2>2
  <2>3. CASE (\A i \in 0..(n - 1) : buffer[i] # Nothing) /\ \A i \in n..(l - 1) : buffer[i] # Nothing
    BY <1>1, <1>3, <2>3
  <2> QED
    BY <1>1, <1>3, <2>1, <2>2, <2>3
<1>6. \A j, k \in 0..(SeqSpace - 1) : IsAcked(j) /\ IsAcked(k) => j = k
  BY <1>1
<1> HIDE DEF IsAcked
<1> QED
  BY <1>4, <1>5, <1>6 DEF n, l

\* What the client's TCP sends again behind the first part is the second.
LEMMA RestIsSecond ==
    ASSUME NEW c \in Hellos, Treated(c)
    PROVE  SubSeq(Stream(c), Len(Parts(c)[1]) + 1, Len(Stream(c))) = Parts(c)[2]
<1> DEFINE p == Parts(c)[1]
           q == Parts(c)[2]
<1>1. p \in Seq(Int) /\ q \in Seq(Int)
  BY PartsCutWell DEF CutWell
<1>2. Stream(c) = p \o q
  BY DEF Stream
<1> HIDE DEF p, q
<1>3. SubSeq(p \o q, Len(p) + 1, Len(p) + Len(q)) = q
  BY <1>1, SubSeqOfConcat2, SubSeqFull
<1>4. Len(p \o q) = Len(p) + Len(q)
  BY <1>1, ConcatProperties
<1> QED
  BY <1>2, <1>3, <1>4 DEF p, q

\* Send puts parts, and a fake, in the air.
LEMMA SendKeeps ==
    ASSUME SegmentsInv, Send
    PROVE  SegmentsInv'
<1>1. UNCHANGED <<flow, buffer>>
  BY DEF Send
<1>2. \A p \in seen' : IsPart(flow, p)
  BY EmittedAreParts DEF Send
<1>3. \A p \in flying' : IsPart(flow, p) \/ (flow.strategy.fake # "none" /\ p = FakeHello(flow))
  BY <1>2 DEF Send
<1>4. Received => Received'
  BY <1>1 DEF Received
<1> QED
  BY <1>1, <1>2, <1>3, <1>4 DEF SegmentsInv

\* So does Resend: what is sent again is the whole, a part, or the second part as the rest.
LEMMA ResendKeeps ==
    ASSUME SegmentsInv, Resend
    PROVE  SegmentsInv'
<1> DEFINE n == Len(Parts(flow)[1])
           rest == SubSeq(Stream(flow), Acked + 1, Len(Stream(flow)))
           again == IF flow.strategy.side = "proxy" THEN
                        {Segment(flow, IF Acked < n THEN 1 ELSE 2, 128)}
                    ELSE IF Acked = 0 THEN Emitted(flow)
                    ELSE {tcpSegment(flow, Acked, rest, 128)}
<1>1. UNCHANGED <<flow, buffer>>
  BY DEF Resend
<1>2. /\ Acked < Len(Stream(flow))
      /\ seen' = seen \cup again
      /\ flying' = flying \cup again
                     \cup (IF flow.strategy.fake = "none" \/ Acked # 0 THEN {}
                           ELSE {FakeHello(flow)})
  BY DEF Resend
<1>3. flow \in Hellos /\ Treated(flow)
  BY DEF SegmentsInv
<1>4. CASE ~FakeMayReach(flow)
  <2>1. /\ Received
        /\ \A p \in seen : IsPart(flow, p)
        /\ \A p \in flying : IsPart(flow, p) \/ (flow.strategy.fake # "none" /\ p = FakeHello(flow))
    BY <1>4 DEF SegmentsInv
  <2>2. Acked \in {0, n}
    <3>1. Acked \in {0, n, Len(Stream(flow))}
      BY <1>3, <2>1, AckedShape
    <3>2. Len(Stream(flow)) \in Nat
      BY <1>3, StreamShape
    <3> QED
      BY <1>2, <3>1, <3>2
  <2>3. ASSUME NEW p \in again PROVE IsPart(flow, p)
    <3>1. CASE flow.strategy.side = "proxy"
      <4>1. \E j \in {1, 2} : p = Segment(flow, j, 128)
        BY <3>1
      <4> QED
        BY <4>1, SegmentIsPart
    <3>2. CASE flow.strategy.side # "proxy" /\ Acked = 0
      BY <3>2, EmittedAreParts
    <3>3. CASE flow.strategy.side # "proxy" /\ Acked # 0
      <4>1. Acked = n /\ p = tcpSegment(flow, n, SubSeq(Stream(flow), n + 1, Len(Stream(flow))), 128)
        BY <2>2, <3>3
      <4>2. SubSeq(Stream(flow), n + 1, Len(Stream(flow))) = Parts(flow)[2]
        BY <1>3, RestIsSecond
      <4>3. p.bytes = Parts(flow)[2] /\ p.seq = (flow.seq + Offset(flow, 2)) % SeqSpace
        <5>1. Offset(flow, 2) = n
          BY DEF Offset
        <5>2. p.bytes = SubSeq(Stream(flow), n + 1, Len(Stream(flow))) /\ p.seq = (flow.seq + n) % SeqSpace
          BY <4>1 DEF tcpSegment
        <5> HIDE DEF n
        <5> QED
          BY <4>2, <5>1, <5>2
      <4> QED
        BY <4>3 DEF IsPart
    <3> QED
      BY <3>1, <3>2, <3>3
  <2> HIDE DEF again
  <2>4. \A p \in seen' : IsPart(flow, p)
    BY <1>2, <2>1, <2>3
  <2>5. \A p \in flying' : IsPart(flow, p) \/ (flow.strategy.fake # "none" /\ p = FakeHello(flow))
    BY <1>2, <2>1, <2>3
  <2>6. Received'
    BY <1>1, <2>1 DEF Received
  <2> QED
    BY <1>1, <1>3, <2>4, <2>5, <2>6 DEF SegmentsInv
<1>5. CASE FakeMayReach(flow)
  BY <1>1, <1>3, <1>5 DEF SegmentsInv
<1> QED
  BY <1>4, <1>5

\* A part lands at its place, whole, or finds it taken.
LEMMA PartLands ==
    ASSUME NEW c \in Hellos, Treated(c), NEW p, NEW j \in {1, 2},
           p.bytes = Parts(c)[j], p.seq = (c.seq + Offset(c, j)) % SeqSpace,
           NEW i \in 0..(SeqSpace - 1)
    PROVE  LET k == (i + c.seq - p.seq) % SeqSpace
           IN /\ k < Len(p.bytes) <=> i \in Place(c, j)
              /\ i \in Place(c, j) => p.bytes[k + 1] = Stream(c)[i + 1]
<1> DEFINE k == (i + c.seq - p.seq) % SeqSpace
           off == Offset(c, j)
           m == Len(Parts(c)[j])
           l == Len(Stream(c))
<1>1. SeqSpace \in Nat \ {0} /\ c.seq \in 0..(SeqSpace - 1)
  BY HelloShape
<1>2. off \in 0..(SeqSpace - 1) /\ m \in Nat /\ l \in 1..(SeqSpace - 1)
  BY StreamShape
<1>3. \A h \in 1..m : off + h \in 1..l /\ Stream(c)[off + h] = Parts(c)[j][h]
  BY StreamShape
<1>4. (i + c.seq - ((c.seq + off) % SeqSpace)) % SeqSpace = IF i >= off THEN i - off ELSE i - off + SeqSpace
  BY <1>1, <1>2, Wraps
<1>5. Place(c, j) = off..(off + m - 1)
  BY DEF Place
<1>6. k = IF i >= off THEN i - off ELSE i - off + SeqSpace
  BY <1>4
<1> HIDE DEF k, off, m, l
<1>7. off + m <= l \/ m = 0
  BY <1>2, <1>3
<1>8. k < m <=> i \in off..(off + m - 1)
  BY <1>1, <1>2, <1>6, <1>7
<1>9. ASSUME i \in off..(off + m - 1) PROVE Parts(c)[j][k + 1] = Stream(c)[i + 1]
  <2>1. k + 1 \in 1..m /\ off + (k + 1) = i + 1
    BY <1>1, <1>2, <1>6, <1>9
  <2> QED
    BY <1>3, <2>1
<1> QED
  BY <1>5, <1>8, <1>9 DEF k, m

\* A packet that arrives is a part: a fake does not get so far.
LEMMA ArriveKeeps ==
    ASSUME SegmentsInv, Arrive
    PROVE  SegmentsInv'
<1> PICK p \in flying :
          /\ p.ttl > flow.routers
          /\ p.valid
          /\ buffer' = [i \in DOMAIN buffer |->
                LET k == (i + flow.seq - p.seq) % SeqSpace
                IN IF buffer[i] = Nothing /\ k < Len(p.bytes) THEN p.bytes[k + 1] ELSE buffer[i]]
  BY DEF Arrive
<1>1. UNCHANGED <<flow, flying, seen>>
  BY DEF Arrive
<1>2. flow \in Hellos /\ Treated(flow)
  BY DEF SegmentsInv
<1>3. CASE ~FakeMayReach(flow)
  <2>1. /\ Received
        /\ \A x \in seen : IsPart(flow, x)
        /\ \A x \in flying : IsPart(flow, x) \/ (flow.strategy.fake # "none" /\ x = FakeHello(flow))
    BY <1>3 DEF SegmentsInv
  <2>2. IsPart(flow, p)
    BY <1>2, <1>3, <2>1, FakeReachesExactly
  <2>3. PICK j \in {1, 2} : p.bytes = Parts(flow)[j] /\ p.seq = (flow.seq + Offset(flow, j)) % SeqSpace
    BY <2>2 DEF IsPart
  <2>4. /\ buffer \in [0..(SeqSpace - 1) -> Int]
        /\ \A i \in 0..(SeqSpace - 1) : i >= Len(Stream(flow)) => buffer[i] = Nothing
        /\ \A h \in {1, 2} :
              \/ \A i \in Place(flow, h) : buffer[i] = Nothing
              \/ \A i \in Place(flow, h) : buffer[i] = Stream(flow)[i + 1]
    BY <2>1 DEF Received
  <2>5. ASSUME NEW i \in 0..(SeqSpace - 1)
        PROVE  buffer'[i] = IF buffer[i] = Nothing /\ i \in Place(flow, j) THEN Stream(flow)[i + 1] ELSE buffer[i]
    <3> DEFINE k == (i + flow.seq - p.seq) % SeqSpace
    <3>1. (k < Len(p.bytes) <=> i \in Place(flow, j)) /\ (i \in Place(flow, j) => p.bytes[k + 1] = Stream(flow)[i + 1])
      BY <1>2, <2>3, PartLands
    <3>2. buffer'[i] = IF buffer[i] = Nothing /\ k < Len(p.bytes) THEN p.bytes[k + 1] ELSE buffer[i]
      BY <2>4
    <3> HIDE DEF k
    <3> QED
      BY <3>1, <3>2
  <2>6. DOMAIN buffer' = 0..(SeqSpace - 1)
    BY <2>4
  <2>7. /\ \A h \in {1, 2} : \A i \in Place(flow, h) : i \in 0..(SeqSpace - 1) /\ i < Len(Stream(flow))
        /\ \A i \in Place(flow, 1) : i \notin Place(flow, 2)
    BY <1>2, PlaceShape
  <2>8. /\ Len(Stream(flow)) \in Nat
        /\ \A i \in 1..Len(Stream(flow)) : Stream(flow)[i] # Nothing /\ Stream(flow)[i] \in Int
    <3>1. Stream(flow) \in Seq(Int) /\ \A i \in 1..Len(Stream(flow)) : Stream(flow)[i] # Nothing
      BY <1>2, StreamShape
    <3> QED
      BY <3>1
  <2>9. \A h \in {1, 2} : \A i \in Place(flow, h) : Stream(flow)[i + 1] # Nothing /\ Stream(flow)[i + 1] \in Int
    <3>1. SeqSpace \in Nat \ {0}
      BY <1>2, HelloShape
    <3>2. \A h \in {1, 2} : \A i \in Place(flow, h) : i + 1 \in 1..Len(Stream(flow))
      BY <2>7, <2>8, <3>1
    <3> QED
      BY <2>8, <3>2
  <2>10. buffer' \in [0..(SeqSpace - 1) -> Int]
    <3>1. \A i \in 0..(SeqSpace - 1) : buffer'[i] \in Int
      BY <2>4, <2>5, <2>9
    <3>2. buffer' = [i \in 0..(SeqSpace - 1) |-> buffer'[i]]
      BY <2>4
    <3> QED
      BY <3>1, <3>2
  <2>11. ASSUME NEW i \in 0..(SeqSpace - 1), i >= Len(Stream(flow)) PROVE buffer'[i] = Nothing
    <3>1. i \notin Place(flow, j)
      BY <2>7, <2>8, <2>11
    <3> QED
      BY <2>4, <2>5, <2>11, <3>1
  <2>12. ASSUME NEW h \in {1, 2}
         PROVE  \/ \A i \in Place(flow, h) : buffer'[i] = Nothing
                \/ \A i \in Place(flow, h) : buffer'[i] = Stream(flow)[i + 1]
    <3>1. CASE h = j
      <4>1. CASE \A i \in Place(flow, j) : buffer[i] = Nothing
        BY <2>5, <2>7, <3>1, <4>1
      <4>2. CASE \A i \in Place(flow, j) : buffer[i] = Stream(flow)[i + 1]
        BY <2>5, <2>7, <2>9, <3>1, <4>2
      <4> QED
        BY <2>4, <4>1, <4>2
    <3>2. CASE h # j
      <4>1. \A i \in Place(flow, h) : i \notin Place(flow, j)
        BY <2>7, <3>2
      <4>2. \A i \in Place(flow, h) : buffer'[i] = buffer[i]
        BY <2>5, <2>7, <4>1
      <4> QED
        BY <2>4, <4>2
    <3> QED
      BY <3>1, <3>2
  <2>13. Received'
    BY <1>1, <2>10, <2>11, <2>12 DEF Received
  <2> QED
    BY <1>1, <1>2, <2>1, <2>13 DEF SegmentsInv
<1>4. CASE FakeMayReach(flow)
  BY <1>1, <1>2, <1>4 DEF SegmentsInv
<1> QED
  BY <1>3, <1>4

\* The network takes packets away.
LEMMA LoseKeeps ==
    ASSUME SegmentsInv, Lose
    PROVE  SegmentsInv'
<1>1. UNCHANGED <<flow, buffer, seen>> /\ flying' \subseteq flying
  BY DEF Lose
<1>2. Received => Received'
  BY <1>1 DEF Received
<1> QED
  BY <1>1, <1>2 DEF SegmentsInv

\* SegmentsInv holds at every moment, for any lengths, ways and sequence numbers.
THEOREM SegmentsSound == SegmentsSpec => []SegmentsInv
<1>1. ASSUME SegmentsInit PROVE SegmentsInv
  <2>1. flow \in Hellos /\ Treated(flow) /\ seen = {} /\ flying = {}
    BY <1>1 DEF SegmentsInit
  <2>2. buffer = [i \in 0..(SeqSpace - 1) |-> Nothing]
    BY <1>1 DEF SegmentsInit
  <2>3. \A h \in {1, 2} : \A i \in Place(flow, h) : i \in 0..(SeqSpace - 1)
    BY <2>1, PlaceShape
  <2>4. Received
    BY <2>2, <2>3 DEF Received, Nothing
  <2> QED
    BY <2>1, <2>4 DEF SegmentsInv
<1>2. ASSUME SegmentsInv, [SegmentsNext]_segmentsVars PROVE SegmentsInv'
  <2>1. CASE UNCHANGED segmentsVars
    BY <1>2, <2>1 DEF SegmentsInv, Received, segmentsVars
  <2> QED
    BY <1>2, <2>1, SendKeeps, ResendKeeps, ArriveKeeps, LoseKeeps DEF SegmentsNext
<1> QED
  BY <1>1, <1>2, PTL DEF SegmentsSpec

----------------------------------------------------------------------------
(* What the server reads *)

\* dpi_packet.go:73: whatever is lost, repeated or overtaken, every byte the server has is
\* the hello's at its place, unless a fake can reach it.
THEOREM OnlyTheHello == SegmentsSpec => []ServerReadsHello
<1>1. ASSUME SegmentsInv PROVE ServerReadsHello
  <2> SUFFICES ASSUME ~FakeMayReach(flow), NEW i \in DOMAIN buffer, buffer[i] # Nothing
               PROVE  i < Len(Stream(flow)) /\ buffer[i] = Stream(flow)[i + 1]
    BY DEF ServerReadsHello
  <2>1. flow \in Hellos /\ Treated(flow) /\ Received
    BY <1>1 DEF SegmentsInv
  <2>2. /\ DOMAIN buffer = 0..(SeqSpace - 1)
        /\ \A k \in 0..(SeqSpace - 1) : k >= Len(Stream(flow)) => buffer[k] = Nothing
        /\ \A j \in {1, 2} :
              \/ \A k \in Place(flow, j) : buffer[k] = Nothing
              \/ \A k \in Place(flow, j) : buffer[k] = Stream(flow)[k + 1]
    BY <2>1 DEF Received
  <2>3. /\ Len(Stream(flow)) \in 1..(SeqSpace - 1)
        /\ \A k \in 0..(Len(Stream(flow)) - 1) : k \in Place(flow, 1) \/ k \in Place(flow, 2)
    BY <2>1, StreamShape, PlaceShape
  <2>4. SeqSpace \in Nat \ {0}
    BY <2>1, HelloShape
  <2>5. i \in 0..(Len(Stream(flow)) - 1)
    BY <2>2, <2>3, <2>4
  <2> QED
    BY <2>2, <2>3, <2>5
<1> QED
  BY <1>1, SegmentsSound, PTL

\* The stream is the hello, in one TLS record or in two.
LEMMA StreamReads ==
    ASSUME NEW c \in Hellos, Treated(c)
    PROVE  ReadsAs(Stream(c), [i \in 1..(c.length - 1) |-> i])
<1> DEFINE n == c.length
           name == c.name
           b == Bytes(n)
           contents == [i \in 1..(n - 1) |-> i]
<1>1. n \in Nat /\ n >= 4 /\ name \in Nat /\ name < n
  <2>1. n \in Nat /\ n >= 4 /\ name \in Nat /\ c.nameEnd \in Nat /\ name <= c.nameEnd /\ c.nameEnd < n
    BY HelloShape
  <2> HIDE DEF n, name
  <2> QED
    BY <2>1
<1>2. /\ Parts(c) = <<Parts(c)[1], Parts(c)[2]>>
      /\ Stream(c) = Parts(c)[1] \o Parts(c)[2]
  BY DEF Parts, splitTLSRecord, Stream
<1>3. b = <<Header(n - 1)>> \o contents
  BY DEF Bytes
<1>4. Len(b) = n
  BY <1>1, BytesShape
<1>12. ASSUME c.strategy.side # "proxy"
       PROVE  /\ Parts(c)[1] = SubSeq(b, 1, CutAt(n, name))
              /\ Parts(c)[2] = SubSeq(b, CutAt(n, name) + 1, n)
  BY <1>4, <1>12 DEF Parts
<1>13. ASSUME c.strategy.side = "proxy", ~c.strategy.tlsrec
       PROVE  Parts(c)[1] = SubSeq(b, 1, name + 1) /\ Parts(c)[2] = SubSeq(b, name + 2, n)
  BY <1>4, <1>13 DEF Parts
<1>14. ASSUME c.strategy.side = "proxy", c.strategy.tlsrec
       PROVE  /\ Parts(c)[1] = <<Header((name + 1) - 1)>> \o SubSeq(b, 2, name + 1)
              /\ Parts(c)[2] = <<Header(n - (name + 1))>> \o SubSeq(b, (name + 1) + 1, n)
  <2>1. Parts(c) = splitTLSRecord(b, name + 1)
    BY <1>14 DEF Parts
  <2> HIDE DEF b, n, name
  <2>2. /\ splitTLSRecord(b, name + 1)[1] = <<Header((name + 1) - 1)>> \o SubSeq(b, 2, name + 1)
        /\ splitTLSRecord(b, name + 1)[2] = <<Header(Len(b) - (name + 1))>> \o SubSeq(b, (name + 1) + 1, Len(b))
    BY DEF splitTLSRecord
  <2> QED
    BY <1>4, <2>1, <2>2
<1> HIDE DEF n, name
<1>5. b \in Seq(Int) /\ Len(b) = n /\ \A k \in 2..n : b[k] = k - 1
  BY <1>1, BytesShape
<1>6. contents \in Seq(Int) /\ Len(contents) = n - 1 /\ \A k \in 1..(n - 1) : contents[k] = k
  BY <1>1
<1>7. b = Record(contents)
  BY <1>3, <1>6 DEF Record
<1> HIDE DEF b, contents
<1>8. ASSUME NEW at \in 0..n PROVE SubSeq(b, 1, at) \o SubSeq(b, at + 1, Len(b)) = b
  <2>1. 1 \in 1..(Len(b) + 1) /\ at \in (1 - 1)..Len(b) /\ Len(b) \in at..Len(b)
    BY <1>1, <1>5
  <2>2. SubSeq(b, 1, at) \o SubSeq(b, at + 1, Len(b)) = SubSeq(b, 1, Len(b))
    BY <1>5, <2>1, ConcatAdjacentSubSeq
  <2> QED
    BY <1>5, <2>2, SubSeqFull
<1>9. CASE c.strategy.side # "proxy"
  <2>1. CutAt(n, name) \in 0..n
    BY <1>1 DEF CutAt
  <2>2. Stream(c) = b
    BY <1>2, <1>12, <1>5, <1>8, <1>9, <2>1
  <2> QED
    BY <1>7, <2>2 DEF ReadsAs, contents, n
<1>10. CASE c.strategy.side = "proxy" /\ ~c.strategy.tlsrec
  <2>1. name + 1 \in 0..n /\ (name + 1) + 1 = name + 2
    BY <1>1
  <2>2. SubSeq(b, 1, name + 1) \o SubSeq(b, name + 2, Len(b)) = b
    BY <1>8, <2>1
  <2>3. Stream(c) = b
    BY <1>2, <1>13, <1>5, <1>10, <2>2
  <2> QED
    BY <1>7, <2>3 DEF ReadsAs, contents, n
<1>11. CASE c.strategy.side = "proxy" /\ c.strategy.tlsrec
  <2> DEFINE p == SubSeq(b, 2, name + 1)
             q == SubSeq(b, name + 2, n)
             u == SubSeq(contents, 1, name)
             v == SubSeq(contents, name + 1, n - 1)
  <2>1. /\ Parts(c)[1] = <<Header(name)>> \o p
        /\ Parts(c)[2] = <<Header(n - (name + 1))>> \o q
    <3>1. (name + 1) + 1 = name + 2 /\ (name + 1) - 1 = name
      BY <1>1
    <3> QED
      BY <1>14, <1>11, <3>1
  <2>2. /\ p \in Seq(Int) /\ Len(p) = name /\ \A k \in 1..name : p[k] = k
        /\ q \in Seq(Int) /\ Len(q) = n - (name + 1) /\ \A k \in 1..(n - (name + 1)) : q[k] = name + k
    BY <1>1, <1>5
  <2>3. /\ u \in Seq(Int) /\ Len(u) = name /\ \A k \in 1..name : u[k] = k
        /\ v \in Seq(Int) /\ Len(v) = n - (name + 1) /\ \A k \in 1..(n - (name + 1)) : v[k] = name + k
    BY <1>1, <1>6
  <2>4. Len(contents) = n - 1 /\ name \in 0..Len(contents)
    BY <1>1, <1>6
  <2> HIDE DEF p, q, u, v
  <2>5. p = u /\ q = v
    BY <2>2, <2>3, SeqEqual
  <2>6. Stream(c) = Record(u) \o Record(v)
    BY <1>2, <2>1, <2>3, <2>5 DEF Record
  <2>7. \E k \in 0..Len(contents) :
           Stream(c) = Record(SubSeq(contents, 1, k)) \o Record(SubSeq(contents, k + 1, Len(contents)))
    BY <2>4, <2>6 DEF u, v
  <2> QED
    BY <2>7 DEF ReadsAs, contents, n
<1> QED
  BY <1>9, <1>10, <1>11

\* tls_parse.go:50: what the server has at the end reads, as TLS records, as the hello of
\* the client.
THEOREM RecordsRead == SegmentsSpec => []RecordsGiveHello
<1>1. ASSUME SegmentsInv, ServerReadsHello PROVE RecordsGiveHello
  <2> DEFINE n == Len(Stream(flow))
             read == [i \in 1..n |-> buffer[i - 1]]
  <2> SUFFICES ASSUME ~FakeMayReach(flow), \A i \in 1..n : read[i] # Nothing
               PROVE  ReadsAs(read, [i \in 1..(flow.length - 1) |-> i])
    BY DEF RecordsGiveHello
  <2>1. flow \in Hellos /\ Treated(flow) /\ Received
    BY <1>1 DEF SegmentsInv
  <2>2. n \in 1..(SeqSpace - 1) /\ SeqSpace \in Nat \ {0} /\ Stream(flow) \in Seq(Int)
    BY <2>1, StreamShape, HelloShape
  <2>3. buffer \in [0..(SeqSpace - 1) -> Int]
    BY <2>1 DEF Received
  <2>4. \A i \in DOMAIN buffer : buffer[i] # Nothing => buffer[i] = Stream(flow)[i + 1]
    BY <1>1 DEF ServerReadsHello
  <2>5. ASSUME NEW i \in 1..n PROVE read[i] = Stream(flow)[i] /\ read[i] \in Int
    <3>1. i - 1 \in 0..(SeqSpace - 1) /\ (i - 1) + 1 = i
      BY <2>2
    <3>2. read[i] = buffer[i - 1] /\ read[i] # Nothing
      OBVIOUS
    <3> HIDE DEF n, read
    <3>3. buffer[i - 1] = Stream(flow)[(i - 1) + 1] /\ buffer[i - 1] \in Int
      BY <2>3, <2>4, <3>1, <3>2
    <3> QED
      BY <3>1, <3>2, <3>3
  <2>6. n = Len(Stream(flow))
    OBVIOUS
  <2>7. read = [i \in 1..n |-> read[i]]
    OBVIOUS
  <2> HIDE DEF n, read
  <2>8. read \in Seq(Int) /\ Len(read) = n
    <3>1. read \in [1..n -> Int] /\ n \in Nat
      BY <2>2, <2>5, <2>7
    <3> QED
      BY <3>1
  <2>9. read = Stream(flow)
    BY <2>2, <2>5, <2>6, <2>8, SeqEqual
  <2> QED
    BY <2>1, <2>9, StreamReads
<1> QED
  BY <1>1, SegmentsSound, OnlyTheHello, PTL

\* dpi_divert.go:236: no packet ever sent, again or for the first time, has the whole name.
THEOREM NameStaysCut == SegmentsSpec => []NameNeverWhole
<1>1. ASSUME SegmentsInv PROVE NameNeverWhole
  <2> SUFFICES ASSUME flow.name < flow.nameEnd, ~FakeMayReach(flow), NEW p \in seen,
                      flow.name..flow.nameEnd \subseteq {p.bytes[i] : i \in DOMAIN p.bytes}
               PROVE  FALSE
    BY DEF NameNeverWhole
  <2>1. flow \in Hellos /\ Treated(flow) /\ IsPart(flow, p)
    BY <1>1 DEF SegmentsInv
  <2>2. PICK j \in {1, 2} : p.bytes = Parts(flow)[j]
    BY <2>1 DEF IsPart
  <2>3. flow.name \in Nat /\ flow.nameEnd \in Nat
    BY <2>1, HelloShape
  <2>4. flow.name \in flow.name..flow.nameEnd /\ flow.nameEnd \in flow.name..flow.nameEnd
    BY <2>3
  <2>5. /\ \E i \in DOMAIN p.bytes : p.bytes[i] = flow.name
        /\ \E i \in DOMAIN p.bytes : p.bytes[i] = flow.nameEnd
    BY <2>4
  <2>6. /\ Parts(flow)[1] \in Seq(Int) /\ Parts(flow)[2] \in Seq(Int)
        /\ \A k \in 1..Len(Parts(flow)[1]) : Parts(flow)[1][k] # flow.nameEnd
        /\ \A k \in 1..Len(Parts(flow)[2]) : Parts(flow)[2][k] # flow.name
    BY <2>1, PartsCutWell DEF CutWell
  <2>7. /\ DOMAIN Parts(flow)[1] = 1..Len(Parts(flow)[1])
        /\ DOMAIN Parts(flow)[2] = 1..Len(Parts(flow)[2])
    BY <2>6
  <2> QED
    BY <2>2, <2>5, <2>6, <2>7
<1> QED
  BY <1>1, SegmentsSound, PTL

====
