---- MODULE Segments ----
(***************************************************************************)
(* What the engine sends for one client hello, and what becomes of it: the *)
(* two segments and the fake hello of handleDivertTLS (dpi_divert.go,      *)
(* dpi_packet.go), the two writes of desyncConn (dpi_engine.go), a network *)
(* that loses, repeats and reorders, and the server's TCP.                 *)
(*                                                                         *)
(* A byte of the hello is its number; one header byte stands for the five  *)
(* of a TLS record and says how long the record is.  Sequence numbers wrap *)
(* around at SeqSpace, 2^32 in the code.                                   *)
(***************************************************************************)
EXTENDS Integers, Sequences, FiniteSetsExt

CONSTANTS
    Lengths,        \* the lengths of a hello, its header byte included
    FakeLen,        \* the length of fakeClientHello()
    Routes,         \* the number of routers on the way to a server
    SeqSpace,       \* sequence numbers are modulo this
    FirstSeqs,      \* the sequence numbers a connection may begin with
    MaxResends      \* bound on retransmissions

ASSUME SegmentsAssumption ==
    /\ Lengths \subseteq Nat \ (0..3) /\ FakeLen \in Nat /\ Routes \subseteq 0..63
    /\ SeqSpace \in Nat \ {0} /\ FirstSeqs \subseteq 0..(SeqSpace - 1)
    /\ \A n \in Lengths \cup {FakeLen} : 2 * n < SeqSpace

VARIABLES
    flow,           \* the connection: length of the hello, place of the name, way, strategy
    flying,         \* the packets that may still arrive, once more or at all
    buffer,         \* what the server has accepted for each position of the stream
    resends,        \* retransmissions so far
    seen            \* history: every packet with real data that was sent

segmentsVars == <<flow, flying, buffer, resends, seen>>

Nothing == -1
Fake == 0
Header(n) == -2 - n
NoName == 0

----------------------------------------------------------------------------
(* Strategies *)

Packets(fake, ttl, disorder) ==
    [side |-> "packets", tlsrec |-> FALSE, fake |-> fake, ttl |-> ttl, disorder |-> disorder]

divertStrategies ==
    {Packets("auto", 0, TRUE), Packets("auto", 0, FALSE), Packets("none", 0, FALSE),
     Packets("none", 0, TRUE), Packets("corrupt", 0, TRUE)}
    \cup {Packets("fixed", ttl, TRUE) : ttl \in {4, 6, 8, 10}}

dpiStrategies ==
    {[side |-> "proxy", tlsrec |-> t, fake |-> "none", ttl |-> 0, disorder |-> d] :
        t \in BOOLEAN, d \in BOOLEAN}

\* The distance of a server, from the TTL its SYN-ACK arrives with, less two.
autoFakeTTL(recv) ==
    LET hops == (IF recv > 128 THEN 255 ELSE IF recv > 64 THEN 128 ELSE 64) - recv
    IN Max({3, Min({hops - 2, 20})})

FakeTTL(c) ==
    CASE c.strategy.fake = "fixed" -> c.strategy.ttl
      [] c.strategy.fake = "auto" -> IF c.measured THEN autoFakeTTL(c.serverTTL - c.routers) ELSE 8
      [] OTHER -> 128

----------------------------------------------------------------------------
(* Bytes *)

Bytes(n) == <<Header(n - 1)>> \o [i \in 1..(n - 1) |-> i]

\* Mutant: in front of the name.
CutInFront(n, off) == IF off + 1 >= n THEN n \div 2 ELSE Max({off, 1})

\* handleDivertTLS: behind the first letter of the name, or in the middle.
CutAt(n, off) == IF off + 1 >= n THEN n \div 2 ELSE off + 1

\* Mutant: the header is not counted off.
splitTLSRecordLong(rec, at) ==
    << <<Header(at)>> \o SubSeq(rec, 2, at),
       <<Header(Len(rec) - at)>> \o SubSeq(rec, at + 1, Len(rec)) >>

\* One TLS record becomes two.
splitTLSRecord(rec, at) ==
    << <<Header(at - 1)>> \o SubSeq(rec, 2, at),
       <<Header(Len(rec) - at)>> \o SubSeq(rec, at + 1, Len(rec)) >>

\* The two parts the hello is sent in.
Parts(c) ==
    LET b == Bytes(c.length) IN
    IF c.strategy.side = "proxy" THEN
        IF c.strategy.tlsrec THEN splitTLSRecord(b, c.name + 1)
        ELSE <<SubSeq(b, 1, c.name + 1), SubSeq(b, c.name + 2, Len(b))>>
    ELSE LET at == CutAt(c.length, c.name)
         IN <<SubSeq(b, 1, at), SubSeq(b, at + 1, Len(b))>>

Stream(c) == Parts(c)[1] \o Parts(c)[2]

\* Mutant: the sequence number of the second segment is not moved on.
tcpSegmentSameSeq(c, from, bytes, ttl) ==
    [seq |-> c.seq, bytes |-> bytes, ttl |-> ttl, valid |-> TRUE]

\* tcpSegment: the headers of the packet, and part of its payload.
tcpSegment(c, from, bytes, ttl) ==
    [seq |-> (c.seq + from) % SeqSpace, bytes |-> bytes, ttl |-> ttl, valid |-> TRUE]

Segment(c, i, ttl) == tcpSegment(c, IF i = 1 THEN 0 ELSE Len(Parts(c)[1]), Parts(c)[i], ttl)

\* The fake hello: too short-lived, or with a wrong checksum.
FakeHello(c) ==
    [seq |-> c.seq, bytes |-> [i \in 1..FakeLen |-> Fake], ttl |-> FakeTTL(c),
     valid |-> c.strategy.fake # "corrupt"]

----------------------------------------------------------------------------

\* A hello with a name the engine treats, or (packets only) a part of one without a name,
\* which is cut without a fake.
Hellos ==
    [length : Lengths, name : UNION {NoName..n : n \in Lengths}, nameEnd : UNION {NoName..n : n \in Lengths},
     routers : Routes, seq : FirstSeqs, serverTTL : {64, 128, 255}, measured : BOOLEAN,
     strategy : divertStrategies \cup dpiStrategies]

\* What a strategy does not look at does not vary.
Treated(c) ==
    /\ c.name <= c.nameEnd /\ c.nameEnd < c.length
    /\ c.name = NoName => c.nameEnd = NoName /\ c.strategy = Packets("none", 0, FALSE)
    /\ c.measured => c.strategy.fake = "auto"
    /\ c.serverTTL # 64 => c.measured

SegmentsInit ==
    /\ flow \in {c \in Hellos : Treated(c)}
    /\ flying = {}
    /\ buffer = [i \in 0..(SeqSpace - 1) |-> Nothing]
    /\ resends = 0
    /\ seen = {}

\* handleDivertTLS, and the first transmission of desyncConn's two writes.
Emitted(c) ==
    IF c.strategy.side = "proxy"
    THEN {Segment(c, 1, IF c.strategy.disorder THEN 1 ELSE 128), Segment(c, 2, 128)}
    ELSE {Segment(c, 1, 128), Segment(c, 2, 128)}

Send ==
    /\ seen = {}
    /\ seen' = Emitted(flow)
    /\ flying' = seen' \cup (IF flow.strategy.fake = "none" THEN {} ELSE {FakeHello(flow)})
    /\ UNCHANGED <<flow, buffer, resends>>

\* How much of the stream the server has acknowledged.
Acked == CHOOSE k \in 0..(SeqSpace - 1) :
            buffer[k] = Nothing /\ \A j \in 0..(k - 1) : buffer[j] # Nothing

\* The client's TCP sends again.  The whole hello comes through the engine again; the
\* rest of one does not match its filter.  The parts written by the proxy remain parts.
Resend ==
    /\ seen # {}
    /\ resends < MaxResends
    /\ resends' = resends + 1
    /\ LET n == Len(Parts(flow)[1])
           rest == SubSeq(Stream(flow), Acked + 1, Len(Stream(flow)))
           again == IF flow.strategy.side = "proxy" THEN
                        {Segment(flow, IF Acked < n THEN 1 ELSE 2, 128)}
                    ELSE IF Acked = 0 THEN Emitted(flow)
                    ELSE {tcpSegment(flow, Acked, rest, 128)}
       IN /\ Acked < Len(Stream(flow))
          /\ seen' = seen \cup again
          /\ flying' = flying \cup again
                         \cup (IF flow.strategy.fake = "none" \/ Acked # 0 THEN {}
                               ELSE {FakeHello(flow)})
    /\ UNCHANGED <<flow, buffer>>

\* A packet that lives long enough reaches the server, which keeps what is new to it.
Arrive ==
    /\ \E p \in flying :
          /\ p.ttl > flow.routers
          /\ p.valid
          /\ buffer' = [i \in DOMAIN buffer |->
                LET k == (i + flow.seq - p.seq) % SeqSpace
                IN IF buffer[i] = Nothing /\ k < Len(p.bytes) THEN p.bytes[k + 1] ELSE buffer[i]]
    /\ UNCHANGED <<flow, flying, resends, seen>>

Lose ==
    /\ \E p \in flying : flying' = flying \ {p}
    /\ UNCHANGED <<flow, buffer, resends, seen>>

SegmentsNext == Send \/ Resend \/ Arrive \/ Lose

SegmentsSpec == SegmentsInit /\ [][SegmentsNext]_segmentsVars

----------------------------------------------------------------------------
(* Properties *)

\* Where the fake does reach the server: a TTL that is fixed, or a guess of 8 or 3, and a
\* way that is shorter.
FakeMayReach(c) ==
    \/ c.strategy.fake = "fixed" /\ c.strategy.ttl > c.routers
    \/ c.strategy.fake = "auto" /\ c.routers < (IF c.measured THEN 3 ELSE 8)

\* Whatever is lost, repeated or overtaken, every byte the server has is the hello's, at
\* the place the client's TCP gives it: the second segment's sequence number wraps
\* around, the fake takes the place of real bytes only if it can reach the server, and
\* a measured one cannot from the third router on (tcpSegment, autoFakeTTL).
ServerReadsHello ==
    ~FakeMayReach(flow) =>
        \A i \in DOMAIN buffer :
            buffer[i] # Nothing => i < Len(Stream(flow)) /\ buffer[i] = Stream(flow)[i + 1]

Record(contents) == <<Header(Len(contents))>> \o contents

\* A TLS client reads these contents: they are in one record, or in two.
ReadsAs(s, contents) ==
    \/ s = Record(contents)
    \/ \E k \in 0..Len(contents) :
          s = Record(SubSeq(contents, 1, k)) \o Record(SubSeq(contents, k + 1, Len(contents)))

\* Read as TLS records, what the server has at the end is the hello of the client, also
\* when one record was made two (splitTLSRecord).
RecordsGiveHello ==
    LET n == Len(Stream(flow))
        got == [i \in 1..n |-> buffer[i - 1]]
    IN ~FakeMayReach(flow) /\ (\A i \in 1..n : got[i] # Nothing)
        => ReadsAs(got, [i \in 1..(flow.length - 1) |-> i])

\* No packet carries the whole of a name of two letters or more, retransmissions
\* included: this is what the engine is for (handleDivertTLS, desyncConn.Write).
NameNeverWhole ==
    flow.name < flow.nameEnd /\ ~FakeMayReach(flow) =>
        \A p \in seen : ~(flow.name..flow.nameEnd \subseteq {p.bytes[i] : i \in DOMAIN p.bytes})

====
