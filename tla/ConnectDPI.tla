---- MODULE ConnectDPI ----
(***************************************************************************)
(* The proxy's handlers, proxy.go and dpi_engine.go: a CONNECT from the    *)
(* request to the end of its tunnel.                                       *)
(*                                                                         *)
(* With the internal engine on, the handler takes the client's connection  *)
(* over, reads the client hello, and sends it either through dialBypass,   *)
(* which splits it, or directly; when a direct hello is met with a reset   *)
(* or silence it is sent once more through dialBypass, and a host that     *)
(* answers then is put on the list.  A handler is a goroutine; it has at   *)
(* most one direct and one bypass connection.  Its dials and reads have    *)
(* deadlines, its writes have none: a peer that stops reading keeps it.    *)
(*                                                                         *)
(* Left out: which strategy splits the hello (Segments has that) and       *)
(* the counters (Watchdog has them).  The user edits the list at any time. *)
(***************************************************************************)
EXTENDS DohResolver

CONSTANTS
    Singles         \* hosts validAutoHost refuses: single labels and addresses

ASSUME SinglesAssumption == Literals \subseteq Singles /\ Singles \subseteq Hosts

VARIABLES
    pc,             \* the place of each handler
    host,           \* the host of its request
    hello,          \* what the client sent first; "plain" in a handler without the engine
    taken,          \* its client's connection is taken over from the server and not closed
    open,           \* the handler's open connections to the host
    refused,        \* its direct connection was given up for the bypass
    got,            \* the first data was written, and answered where an answer is awaited
    kept,           \* the connection it tunnels to
    copies,         \* the copy goroutines of its tunnel: up to the host, down to the client
    stalled,        \* the peers it writes to that read no more
    list            \* Config.BypassDomains

connVars == <<pc, host, hello, taken, open, refused, got, kept, copies, stalled>>
vars == <<dohVars, connVars, list>>

Kinds == {"direct", "bypass"}
Peers == {"client", "host"}
Places == {"new", "dial", "hijack", "takeOver", "reply", "hello", "directDial", "directSend",
           "resolve", "bypassDial", "bypassSend", "answer", "pipe", "done"}

TypeOK ==
    /\ DohTypeOK
    /\ pc \in [Conns -> Places]
    /\ host \in [Conns -> Hosts \cup {"none"}]
    /\ hello \in [Conns -> {"plain", "unread", "silent", "tls", "other"}]
    /\ taken \in [Conns -> BOOLEAN]
    /\ open \in [Conns -> SUBSET Kinds]
    /\ refused \in [Conns -> BOOLEAN]
    /\ got \in [Conns -> SUBSET Kinds]
    /\ kept \in [Conns -> Kinds]
    /\ copies \in [Conns -> SUBSET {"up", "down"}]
    /\ stalled \in [Conns -> SUBSET Peers]
    /\ list \subseteq Hosts

Init ==
    /\ DohInit
    /\ pc = [c \in Conns |-> "new"]
    /\ host = [c \in Conns |-> "none"]
    /\ hello = [c \in Conns |-> "plain"]
    /\ taken = [c \in Conns |-> FALSE]
    /\ open = [c \in Conns |-> {}]
    /\ refused = [c \in Conns |-> FALSE]
    /\ got = [c \in Conns |-> {}]
    /\ kept = [c \in Conns |-> "direct"]
    /\ copies = [c \in Conns |-> {}]
    /\ stalled = [c \in Conns |-> {}]
    /\ list \in SUBSET Hosts

Goto(c, place) == pc' = [pc EXCEPT ![c] = place]

\* The handler returns: src.Close() of handleConnectDPI is deferred, and its variables
\* end.  What it has opened and not closed stays open.
Finish(c) ==
    /\ Goto(c, "done")
    /\ taken' = [taken EXCEPT ![c] = @ /\ hello[c] = "plain"]
    /\ host' = [host EXCEPT ![c] = "none"]
    /\ hello' = [hello EXCEPT ![c] = "plain"]
    /\ refused' = [refused EXCEPT ![c] = FALSE]
    /\ got' = [got EXCEPT ![c] = {}]
    /\ kept' = [kept EXCEPT ![c] = "direct"]
    /\ Forget(c)
    /\ UNCHANGED <<copies, stalled>>

\* pipeConns: the tunnel to connection k begins.
Pipe(c, k) ==
    /\ Goto(c, "pipe")
    /\ kept' = [kept EXCEPT ![c] = k]
    /\ copies' = [copies EXCEPT ![c] = {"up", "down"}]

\* A write of the handler, or of a copy, that is under way: a Write has no deadline.
WritesTo(c) ==
    CASE pc[c] \in {"reply", "answer"} -> {"client"}
      [] pc[c] \in {"directSend", "bypassSend"} -> {"host"}
      [] pc[c] = "pipe" -> {p \in Peers : (IF p = "host" THEN "up" ELSE "down") \in copies[c]}
      [] OTHER -> {}

Reads(c, p) == p \notin stalled[c]

\* The host's first bytes are there on connection k, for the client.
Answered(c, k) ==
    /\ Goto(c, "answer")
    /\ kept' = [kept EXCEPT ![c] = k]
    /\ UNCHANGED copies

Opens(c, k) == open' = [open EXCEPT ![c] = @ \cup {k}]
Closes(c, k) == open' = [open EXCEPT ![c] = @ \ {k}]

----------------------------------------------------------------------------
(* handleConnect *)

\* A CONNECT goes to the engine if it is on and the port is 443.
Connect(c, h) ==
    /\ pc[c] = "new"
    /\ host' = [host EXCEPT ![c] = h]
    /\ \/ Goto(c, "takeOver") /\ hello' = [hello EXCEPT ![c] = "unread"]
       \/ Goto(c, "dial") /\ UNCHANGED hello
    /\ UNCHANGED <<dohVars, taken, open, refused, got, kept, copies, stalled, list>>

\* Without the engine: the host is dialled while the client waits for its 200.
PlainDial(c) ==
    /\ pc[c] = "dial"
    /\ Opens(c, "direct")
    /\ Goto(c, "hijack")
    /\ UNCHANGED <<dohVars, host, hello, taken, refused, got, kept, copies, stalled, list>>

PlainDialFails(c) ==
    /\ pc[c] = "dial"
    /\ Finish(c)
    /\ UNCHANGED <<open, list>>

\* Then its connection is taken over, as it is with the engine before anything is dialled.
Hijack(c) ==
    /\ pc[c] \in {"hijack", "takeOver"}
    /\ taken' = [taken EXCEPT ![c] = TRUE]
    /\ Goto(c, "reply")
    /\ UNCHANGED <<dohVars, host, hello, open, refused, got, kept, copies, stalled, list>>

\* The 200 is written: the tunnel begins, or the engine waits for the hello.
Reply(c) ==
    /\ pc[c] = "reply" /\ Reads(c, "client")
    /\ \/ hello[c] = "plain" /\ Pipe(c, "direct")
       \/ hello[c] = "unread" /\ Goto(c, "hello") /\ UNCHANGED <<kept, copies>>
    /\ UNCHANGED <<dohVars, host, hello, taken, open, refused, got, stalled, list>>

HijackFails(c) ==
    /\ pc[c] = "hijack"
    /\ Closes(c, "direct")
    /\ Finish(c)
    /\ UNCHANGED list

\* With the engine: the connection cannot be taken over; or later, the client has gone or cut its first record short.
TakeOverFails(c) ==
    /\ pc[c] \in {"takeOver", "hello"}
    /\ Finish(c)
    /\ UNCHANGED <<open, list>>

----------------------------------------------------------------------------
(* handleConnectDPI *)

\* readClientHello, with a deadline of five seconds, and the choice of a path.
ReadHello(c) ==
    /\ pc[c] = "hello"
    /\ \E first \in {"silent", "tls", "other"} :
          /\ hello' = [hello EXCEPT ![c] = first]
          /\ Goto(c, IF first = "tls" /\ host[c] \in list THEN "resolve" ELSE "directDial")
    /\ UNCHANGED <<dohVars, host, taken, open, refused, got, kept, copies, stalled, list>>

\* A client that waits for the server to speak gets its tunnel as soon as the host is dialled.
DirectDial(c) ==
    /\ pc[c] = "directDial"
    /\ Opens(c, "direct")
    /\ \/ hello[c] = "silent" /\ Pipe(c, "direct")
       \/ hello[c] # "silent" /\ Goto(c, "directSend") /\ UNCHANGED <<kept, copies>>
    /\ UNCHANGED <<dohVars, host, hello, taken, refused, got, stalled, list>>

DirectDialFails(c) ==
    /\ pc[c] = "directDial"
    /\ Finish(c)
    /\ UNCHANGED <<open, list>>

\* writeAwait: the hello is written and, if it is TLS, answered within six seconds.
DirectSend(c) ==
    /\ pc[c] = "directSend" /\ Reads(c, "host")
    /\ got' = [got EXCEPT ![c] = @ \cup {"direct"}]
    /\ IF hello[c] = "tls" THEN Answered(c, "direct") ELSE Pipe(c, "direct")
    /\ UNCHANGED <<dohVars, host, hello, taken, open, refused, stalled, list>>

\* Blocking is suspected, and the host is one that may be listed.
Suspect(c) == hello[c] = "tls" /\ host[c] \notin Singles

\* Mutant: the suspected connection stays open beside the bypass.
DirectRefusedOpen(c) ==
    /\ pc[c] = "directSend" /\ Reads(c, "host") /\ Suspect(c)
    /\ refused' = [refused EXCEPT ![c] = TRUE]
    /\ Goto(c, "resolve")
    /\ UNCHANGED <<dohVars, host, hello, taken, open, got, kept, copies, stalled, list>>

\* The hello could not be written, or a reset or silence was the answer: the bypass is tried.
DirectRefused(c) ==
    /\ pc[c] = "directSend" /\ Reads(c, "host") /\ Suspect(c)
    /\ refused' = [refused EXCEPT ![c] = TRUE]
    /\ Closes(c, "direct")
    /\ Goto(c, "resolve")
    /\ UNCHANGED <<dohVars, host, hello, taken, got, kept, copies, stalled, list>>

DirectSendFails(c) ==
    /\ pc[c] = "directSend" /\ Reads(c, "host") /\ ~Suspect(c)
    /\ Closes(c, "direct")
    /\ Finish(c)
    /\ UNCHANGED list

\* dialBypass: the host is resolved over DoH, or failing that by Windows, and dialled.
Resolve(c) ==
    /\ pc[c] = "resolve"
    /\ Ask(c, host[c])
    /\ Goto(c, "bypassDial")
    /\ UNCHANGED <<host, hello, taken, open, refused, got, kept, copies, stalled, list>>

Resolved(c) == call[c].pc \in {"answered", "failed"}

BypassDial(c) ==
    /\ pc[c] = "bypassDial" /\ Resolved(c)
    /\ Opens(c, "bypass")
    /\ Goto(c, "bypassSend")
    /\ Forget(c)
    /\ UNCHANGED <<host, hello, taken, refused, got, kept, copies, stalled, list>>

BypassDialFails(c) ==
    /\ pc[c] = "bypassDial" /\ Resolved(c)
    /\ Finish(c)
    /\ UNCHANGED <<open, list>>

\* addBlockedHost.
AddBlockedHost(h) == list' = list \cup {h}

\* The split hello is written.  After a refusal its answer is awaited, and the host goes
\* on the list; a host already listed gets its tunnel at once.
BypassSend(c) ==
    /\ pc[c] = "bypassSend" /\ Reads(c, "host")
    /\ got' = [got EXCEPT ![c] = @ \cup {"bypass"}]
    /\ \/ refused[c] /\ AddBlockedHost(host[c]) /\ Answered(c, "bypass")
       \/ ~refused[c] /\ UNCHANGED list /\ Pipe(c, "bypass")
    /\ UNCHANGED <<dohVars, host, hello, taken, open, refused, stalled>>

\* Mutant: the host is listed before the answer is there.
BypassSendFailsListed(c) ==
    /\ pc[c] = "bypassSend" /\ Reads(c, "host")
    /\ IF refused[c] THEN AddBlockedHost(host[c]) ELSE UNCHANGED list
    /\ Closes(c, "bypass")
    /\ Finish(c)

\* Mutant: the variable still names the direct connection, and that is closed.
BypassSendFailsLeaks(c) ==
    /\ pc[c] = "bypassSend" /\ Reads(c, "host")
    /\ Closes(c, "direct")
    /\ Finish(c)
    /\ UNCHANGED list

BypassSendFails(c) ==
    /\ pc[c] = "bypassSend" /\ Reads(c, "host")
    /\ Closes(c, "bypass")
    /\ Finish(c)
    /\ UNCHANGED list

\* The host's first bytes are written to the client, and the tunnel begins.
SendFirst(c) ==
    /\ pc[c] = "answer" /\ Reads(c, "client")
    /\ Pipe(c, kept[c])
    /\ UNCHANGED <<dohVars, host, hello, taken, open, refused, got, stalled, list>>

----------------------------------------------------------------------------
(* pipeConns *)

\* One direction ends: its end of file, an error, or a connection closed by the other.
\* It closes the connection it writes to.  While that one's peer does not read it may sit
\* in a Write; what it reads from is then closed without its knowledge.
UpEnds(c) ==
    /\ "up" \in copies[c] /\ Reads(c, "host")
    /\ copies' = [copies EXCEPT ![c] = @ \ {"up"}]
    /\ Closes(c, kept[c])
    /\ UNCHANGED <<dohVars, pc, host, hello, taken, refused, got, kept, stalled, list>>

\* Mutant: the client's connection is left to somebody else to close.
DownEndsQuietly(c) ==
    /\ "down" \in copies[c] /\ Reads(c, "client")
    /\ copies' = [copies EXCEPT ![c] = @ \ {"down"}]
    /\ UNCHANGED <<dohVars, pc, host, hello, taken, open, refused, got, kept, stalled, list>>

DownEnds(c) ==
    /\ "down" \in copies[c] /\ Reads(c, "client")
    /\ copies' = [copies EXCEPT ![c] = @ \ {"down"}]
    /\ taken' = [taken EXCEPT ![c] = FALSE]
    /\ UNCHANGED <<dohVars, pc, host, hello, open, refused, got, kept, stalled, list>>

PipeEnds(c) ==
    /\ pc[c] = "pipe" /\ copies[c] = {}
    /\ Finish(c)
    /\ UNCHANGED <<open, list>>

----------------------------------------------------------------------------
(* Around the handlers *)

\* A peer that is written to stops reading, and its window fills.
Stall(c, p) ==
    /\ p \in WritesTo(c) \ stalled[c]
    /\ stalled' = [stalled EXCEPT ![c] = @ \cup {p}]
    /\ UNCHANGED <<dohVars, pc, host, hello, taken, open, refused, got, kept, copies, list>>

\* It reads again, or is gone.
Resume(c, p) ==
    /\ p \in stalled[c]
    /\ stalled' = [stalled EXCEPT ![c] = @ \ {p}]
    /\ UNCHANGED <<dohVars, pc, host, hello, taken, open, refused, got, kept, copies, list>>

\* The user saves another list.
EditList ==
    /\ \E l \in SUBSET Hosts : list' = l
    /\ UNCHANGED <<dohVars, connVars>>

DohWorks == DohStep /\ UNCHANGED <<connVars, list>>

\* What a handler does by itself: its dials and reads are bounded by deadlines.
Handle(c) ==
    \/ PlainDial(c) \/ PlainDialFails(c) \/ Hijack(c) \/ HijackFails(c)
    \/ Reply(c) \/ TakeOverFails(c) \/ ReadHello(c)
    \/ DirectDial(c) \/ DirectDialFails(c)
    \/ DirectSend(c) \/ DirectRefused(c) \/ DirectSendFails(c)
    \/ Resolve(c) \/ BypassDial(c) \/ BypassDialFails(c)
    \/ BypassSend(c) \/ BypassSendFails(c)
    \/ SendFirst(c) \/ PipeEnds(c)

Next ==
    \/ \E c \in Conns :
          \/ \E h \in Hosts : Connect(c, h)
          \/ Handle(c) \/ UpEnds(c) \/ DownEnds(c)
          \/ \E p \in Peers : Stall(c, p) \/ Resume(c, p)
    \/ DohWorks \/ EditList

Spec == Init /\ [][Next]_vars

\* The call of dohResolve a handler waits in; and the end of a copy that reads from what
\* the other one has closed.
Waits(c) == Resolving(c) /\ UNCHANGED <<connVars, list>>
CopyFollows(c) == (UpEnds(c) /\ ~taken[c]) \/ (DownEnds(c) /\ kept[c] \notin open[c])

\* Deadlines end every dial, read and query of a handler; a write of so many bytes ends if
\* its peer reads again and again.  No peer has to read.  The goroutines of providers end
\* with their requests.
FairSpec ==
    /\ Spec
    /\ DohFairness
    /\ \A c \in Conns : SF_vars(Handle(c) \/ Waits(c) \/ CopyFollows(c))

----------------------------------------------------------------------------
(* Properties *)

\* A tunnel has received the client's first data on the connection that is kept, and
\* no other connection of its handler is open: the hello refused there is not answered
\* a second time.
HelloOnKeptConnection ==
    \A c \in Conns : pc[c] \in {"answer", "pipe"} =>
        /\ got[c] = IF hello[c] \in {"tls", "other"} THEN {kept[c]} ELSE {}
        /\ open[c] \subseteq {kept[c]}

\* A handler that has returned leaves no connection open, whichever of its
\* steps failed: neither to the host nor one it took over from the server.
NothingLeftOpen ==
    \A c \in Conns : pc[c] = "done" => ~taken[c] /\ open[c] = {}

\* The engine lists a host only when one and the same request was refused directly
\* and is answered through the bypass, and never a single label or an address.
ListedOnlyIfBypassHelps ==
    [][\A h \in list' \ list : pc' # pc =>
         /\ h \notin Singles
         /\ \E c \in Conns : /\ host[c] = h /\ hello[c] = "tls" /\ refused[c]
                              /\ pc'[c] = "answer" /\ kept'[c] = "bypass"]_vars

\* A handler at rest: not begun, over, or with a tunnel both ways.
AtRest(c) == pc[c] \in {"new", "done"} \/ copies[c] = {"up", "down"}

\* A handler comes to its tunnel or its end, and a tunnel one of whose directions has
\* ended comes down, whatever the client and the host do except one thing: a peer that is
\* written to and never reads again holds it for ever, as no write has a deadline.
TunnelsEnd == \A c \in Conns : []<>AtRest(c) \/ <>[](stalled[c] # {})

====
