---- MODULE LogStreamProofs ----
(***************************************************************************)
(* What a position in a buffer that is trimmed and cleared still says of   *)
(* the entries it counts, for any capacity of the buffer and any number of *)
(* entries: theorems about LogStream, with their proofs.                   *)
(***************************************************************************)
EXTENDS LogStream, SequenceTheorems, TLAPS

Entries == 1..MaxAdds

\* How many entries came before those in the buffer.
Before == added - Len(entries)

\* The buffer holds the newest entries, without a gap.
BufferInv ==
    /\ Len(entries) <= added
    /\ \A i \in 1..Len(entries) : entries[i] = Before + i
    /\ \A i \in 1..Len(all) - 1 : all[i] < all[i + 1]
    /\ \A j \in 1..Len(sent) : sent[j] <= added
    /\ \A i \in 1..Len(all) : all[i] <= added
    /\ pushing = "loaded" => last < Len(all)

\* Everything sent is older than what stands after the position, in the buffer as in the
\* copy that pushLogs is at work on.
OrderInv ==
    ~raced =>
        /\ \A i \in 1..Len(sent) - 1 : sent[i] < sent[i + 1]
        /\ \A j \in 1..Len(sent) : sent[j] <= Before + lastLogSent
        /\ clearing => pushing = "idle" /\ \A j \in 1..Len(sent) : sent[j] <= Before
        /\ pushing # "idle" =>
              \A i \in 1..Len(all) :
                  /\ all[i] <= Before + i
                  /\ i > lastLogSent => \A j \in 1..Len(sent) : sent[j] < all[i]
        /\ pushing = "loaded" => last = lastLogSent

\* Before the first clearing, and before the buffer has been full, positions are entries.
GapInv ==
    /\ clearing => clears > 0
    /\ clears = 0 /\ added <= maxLogEntries =>
        /\ Len(entries) = added
        /\ Len(sent) = lastLogSent /\ Len(sent) <= added
        /\ \A j \in 1..Len(sent) : sent[j] = j
        /\ pushing # "idle" => Len(all) <= added /\ \A i \in 1..Len(all) : all[i] = i
        /\ pushing = "loaded" => last = lastLogSent

LogInv == TypeOK /\ BufferInv /\ OrderInv /\ GapInv

----------------------------------------------------------------------------
(* Sequences *)

\* The newest elements are a sequence again, and keep their order.
LEMMA NewestElements ==
    ASSUME NEW S, NEW s \in Seq(S), NEW n \in Nat
    PROVE  /\ Newest(s, n) \in Seq(S)
           /\ Len(Newest(s, n)) = IF Len(s) < n THEN Len(s) ELSE n
           /\ \A i \in 1..Len(Newest(s, n)) : Newest(s, n)[i] = s[Len(s) - Len(Newest(s, n)) + i]
<1> DEFINE k == IF Len(s) < n THEN Len(s) ELSE n
           first == Len(s) - k + 1
<1>1. k \in Nat /\ k <= Len(s) /\ first \in Int /\ first >= 1 /\ Len(s) \in Int
  OBVIOUS
<1>2. \A i \in first..Len(s) : s[i] \in S
  BY <1>1
<1> HIDE DEF k
<1>3. /\ SubSeq(s, first, Len(s)) \in Seq(S)
      /\ Len(SubSeq(s, first, Len(s))) = IF first <= Len(s) THEN Len(s) - first + 1 ELSE 0
      /\ \A i \in 1..Len(s) - first + 1 : SubSeq(s, first, Len(s))[i] = s[first + i - 1]
  BY <1>1, <1>2, SubSeqProperties
<1>4. Newest(s, n) = SubSeq(s, first, Len(s))
  BY DEF Newest, k
<1>5. Len(Newest(s, n)) = k
  BY <1>1, <1>3, <1>4
<1>6. \A i \in 1..k : Newest(s, n)[i] = s[Len(s) - k + i]
  BY <1>1, <1>3, <1>4
<1> QED
  BY <1>3, <1>4, <1>5, <1>6 DEF k

\* What the window has been sent once the rest of a copy is added.
LEMMA SentElements ==
    ASSUME NEW S, NEW s \in Seq(S), NEW t \in Seq(S), NEW n \in Nat, n < Len(t)
    PROVE  LET r == s \o SubSeq(t, n + 1, Len(t)) IN
           /\ r \in Seq(S)
           /\ Len(r) = Len(s) + Len(t) - n
           /\ \A i \in 1..Len(r) : r[i] = IF i <= Len(s) THEN s[i] ELSE t[n + i - Len(s)]
<1> DEFINE u == SubSeq(t, n + 1, Len(t))
<1>1. \A i \in (n + 1)..Len(t) : t[i] \in S
  OBVIOUS
<1>2. /\ u \in Seq(S)
      /\ Len(u) = Len(t) - n
      /\ \A i \in 1..Len(t) - n : u[i] = t[n + i]
  <2>1. Len(t) \in Int /\ n + 1 \in Int /\ n + 1 <= Len(t)
    OBVIOUS
  <2>2. /\ u \in Seq(S)
        /\ Len(u) = IF n + 1 <= Len(t) THEN Len(t) - (n + 1) + 1 ELSE 0
        /\ \A i \in 1..Len(t) - (n + 1) + 1 : u[i] = t[(n + 1) + i - 1]
    BY <1>1, <2>1, SubSeqProperties
  <2> QED
    BY <2>1, <2>2
<1> HIDE DEF u
<1>3. /\ s \o u \in Seq(S)
      /\ Len(s \o u) = Len(s) + Len(u)
      /\ \A i \in 1..Len(s) + Len(u) : (s \o u)[i] = IF i <= Len(s) THEN s[i] ELSE u[i - Len(s)]
  BY <1>2, ConcatProperties
<1>4. \A i \in 1..Len(s \o u) : (s \o u)[i] = IF i <= Len(s) THEN s[i] ELSE t[n + i - Len(s)]
  <2> SUFFICES ASSUME NEW i \in 1..Len(s \o u), i > Len(s) PROVE u[i - Len(s)] = t[n + i - Len(s)]
    BY <1>3
  <2>1. i - Len(s) \in 1..Len(t) - n
    BY <1>2, <1>3
  <2> QED
    BY <1>2, <2>1
<1>5. Len(s \o u) = Len(s) + Len(t) - n
  BY <1>2, <1>3
<1> QED
  BY <1>3, <1>4, <1>5 DEF u

----------------------------------------------------------------------------
(* The invariant *)

LEMMA Types ==
    ASSUME LogInv
    PROVE  /\ entries \in Seq(Entries) /\ all \in Seq(Entries) /\ sent \in Seq(Entries)
           /\ Len(entries) \in Nat /\ Len(all) \in Nat /\ Len(sent) \in Nat
           /\ Len(entries) <= maxLogEntries /\ Len(all) <= maxLogEntries
           /\ added \in Nat /\ lastLogSent \in Nat /\ last \in Nat /\ clears \in Nat
           /\ maxLogEntries \in Nat /\ Before \in Int
           /\ \A i \in 1..Len(all) : all[i] \in Int
           /\ \A i \in 1..Len(sent) : sent[i] \in Int
<1>1. /\ entries \in Seq(Entries) /\ all \in Seq(Entries) /\ sent \in Seq(Entries)
      /\ Len(entries) <= maxLogEntries /\ Len(all) <= maxLogEntries
      /\ added \in 0..MaxAdds /\ lastLogSent \in 0..maxLogEntries /\ last \in 0..maxLogEntries
      /\ clears \in 0..MaxClears
  BY DEF LogInv, TypeOK, Entries
<1>2. Len(entries) \in Nat /\ Len(all) \in Nat /\ Len(sent) \in Nat
  BY <1>1
<1>3. added \in Nat /\ lastLogSent \in Nat /\ last \in Nat /\ clears \in Nat /\ maxLogEntries \in Nat
  BY <1>1, BoundsAssumption
<1>4. \A i \in 1..Len(all) : all[i] \in Int
  <2>1. \A i \in 1..Len(all) : all[i] \in Entries
    BY <1>1, ElementOfSeq
  <2> QED
    BY <2>1 DEF Entries
<1>5. \A i \in 1..Len(sent) : sent[i] \in Int
  <2>1. \A i \in 1..Len(sent) : sent[i] \in Entries
    BY <1>1, ElementOfSeq
  <2> QED
    BY <2>1 DEF Entries
<1>6. Before \in Int
  BY <1>2, <1>3 DEF Before
<1> QED
  BY <1>1, <1>2, <1>3, <1>4, <1>5, <1>6

\* The parts of the invariant that are not about positions.
LEMMA Flags ==
    ASSUME LogInv
    PROVE  pushing \in {"idle", "read", "loaded"} /\ clearing \in BOOLEAN /\ raced \in BOOLEAN
BY Zenon DEF LogInv, TypeOK

LEMMA LogInitially == Init => LogInv
<1> SUFFICES ASSUME Init PROVE LogInv
  OBVIOUS
<1>1. /\ entries = <<>> /\ added = 0 /\ lastLogSent = 0 /\ all = <<>> /\ last = 0
      /\ clears = 0 /\ sent = <<>>
  BY DEF Init
<1>2. pushing = "idle" /\ clearing = FALSE /\ raced = FALSE
  BY Zenon DEF Init
<1>3. TypeOK
  <2>1. /\ entries \in Seq(1..MaxAdds) /\ all \in Seq(1..MaxAdds) /\ sent \in Seq(1..MaxAdds)
        /\ Len(entries) = 0 /\ Len(all) = 0
    BY <1>1
  <2>2. /\ added \in 0..MaxAdds /\ clears \in 0..MaxClears
        /\ lastLogSent \in 0..maxLogEntries /\ last \in 0..maxLogEntries /\ 0 <= maxLogEntries
    BY <1>1, BoundsAssumption
  <2>3. pushing \in {"idle", "read", "loaded"} /\ clearing \in BOOLEAN /\ raced \in BOOLEAN
    BY <1>2
  <2> QED
    BY <2>1, <2>2, <2>3 DEF TypeOK
<1>4. BufferInv
  BY <1>1, <1>2 DEF BufferInv
<1>5. OrderInv
  BY <1>1, <1>2 DEF OrderInv
<1>6. GapInv
  BY <1>1, <1>2 DEF GapInv
<1> QED
  BY <1>3, <1>4, <1>5, <1>6 DEF LogInv

\* An entry is added: what is trimmed is the oldest.
LEMMA AddKeeps == LogInv /\ Add => LogInv'
<1> SUFFICES ASSUME LogInv, Add PROVE LogInv'
  OBVIOUS
<1> USE BoundsAssumption
<1> DEFINE longer == Append(entries, added + 1)
<1>1. /\ added' = added + 1 /\ added + 1 \in Entries
      /\ entries' = Newest(longer, maxLogEntries)
      /\ UNCHANGED <<lastLogSent, all, last, pushing, clearing, clears, sent, raced>>
  BY DEF Add, LogInv, TypeOK, Entries
<1>2. /\ entries \in Seq(Entries) /\ Len(entries) <= maxLogEntries /\ added \in Nat
      /\ Len(entries) \in Nat /\ maxLogEntries \in Nat
  BY Types
<1>3. /\ longer \in Seq(Entries) /\ Len(longer) = Len(entries) + 1
      /\ \A i \in 1..Len(longer) : longer[i] = Before + i
  <2>1. /\ longer \in Seq(Entries) /\ Len(longer) = Len(entries) + 1
        /\ \A i \in 1..Len(entries) : longer[i] = entries[i]
        /\ longer[Len(entries) + 1] = added + 1
    BY <1>1, <1>2, AppendProperties
  <2>2. \A i \in 1..Len(entries) : entries[i] = Before + i
    BY DEF LogInv, BufferInv
  <2>3. Before + (Len(entries) + 1) = added + 1
    BY <1>2 DEF Before
  <2> HIDE DEF longer
  <2>4. \A i \in 1..Len(entries) + 1 : i \in 1..Len(entries) \/ i = Len(entries) + 1
    BY <1>2
  <2> QED
    BY <2>1, <2>2, <2>3, <2>4
<1> HIDE DEF longer
<1>4. /\ entries' \in Seq(Entries)
      /\ Len(entries') = IF Len(longer) < maxLogEntries THEN Len(longer) ELSE maxLogEntries
      /\ \A i \in 1..Len(entries') : entries'[i] = longer[Len(longer) - Len(entries') + i]
  <2>1. LET r == Newest(longer, maxLogEntries) IN
        /\ r \in Seq(Entries)
        /\ Len(r) = IF Len(longer) < maxLogEntries THEN Len(longer) ELSE maxLogEntries
        /\ \A i \in 1..Len(r) : r[i] = longer[Len(longer) - Len(r) + i]
    BY <1>2, <1>3, NewestElements
  <2>2. entries' = Newest(longer, maxLogEntries)
    BY <1>1
  <2> QED
    BY <2>1, <2>2, Zenon
<1>5. Len(entries') \in Nat /\ Len(entries') <= Len(entries) + 1 /\ Len(entries') <= maxLogEntries
  BY <1>2, <1>3, <1>4
<1>6. Before' \in Int /\ Before \in Int /\ Before' >= Before
  BY <1>1, <1>2, <1>5 DEF Before
<1>7. \A i \in 1..Len(entries') : entries'[i] = Before' + i
  <2> SUFFICES ASSUME NEW i \in 1..Len(entries') PROVE entries'[i] = Before' + i
    OBVIOUS
  <2>1. Len(longer) - Len(entries') + i \in 1..Len(longer)
    BY <1>2, <1>3, <1>5
  <2>2. entries'[i] = Before + (Len(longer) - Len(entries') + i)
    BY <1>3, <1>4, <2>1
  <2> QED
    BY <1>1, <1>2, <1>3, <1>5, <2>2 DEF Before
<1>8. TypeOK'
  BY <1>1, <1>4, <1>5 DEF LogInv, TypeOK, Entries
<1>9. BufferInv'
  <2>1. Len(entries') <= added'
    BY <1>1, <1>2, <1>5 DEF LogInv, BufferInv
  <2>2. \A j \in 1..Len(sent) : sent[j] <= added + 1
    BY <1>2, Types DEF LogInv, BufferInv
  <2>3. \A i \in 1..Len(all) : all[i] <= added + 1
    BY <1>2, Types DEF LogInv, BufferInv
  <2> QED
    BY <1>1, <1>7, <2>1, <2>2, <2>3 DEF LogInv, BufferInv
<1>10. OrderInv'
  <2> SUFFICES ASSUME ~raced PROVE OrderInv'
    BY <1>1 DEF OrderInv
  <2>1. /\ lastLogSent \in Nat /\ sent \in Seq(Entries) /\ all \in Seq(Entries)
    BY DEF LogInv, TypeOK, Entries
  <2>2. \A j \in 1..Len(sent) : sent[j] \in Int /\ sent[j] <= Before' + lastLogSent
    BY <1>6, <2>1 DEF LogInv, OrderInv, Entries
  <2>3. clearing => pushing = "idle" /\ \A j \in 1..Len(sent) : sent[j] <= Before'
    BY <1>6, <2>2 DEF LogInv, OrderInv
  <2>4. pushing # "idle" => \A i \in 1..Len(all) : all[i] <= Before' + i
    BY <1>6, <2>1 DEF LogInv, OrderInv, Entries
  <2> QED
    BY <1>1, <2>2, <2>3, <2>4 DEF LogInv, OrderInv
<1>11. GapInv'
  <2> SUFFICES ASSUME clears = 0, added + 1 <= maxLogEntries
      PROVE /\ Len(entries') = added + 1
            /\ Len(sent) <= added + 1
            /\ pushing # "idle" => Len(all) <= added + 1
    BY <1>1, <1>2 DEF LogInv, GapInv
  <2>1. Len(entries) = added /\ Len(sent) <= added /\ (pushing # "idle" => Len(all) <= added)
    BY <1>2 DEF LogInv, GapInv
  <2>2. Len(sent) \in Nat /\ Len(all) \in Nat
    BY DEF LogInv, TypeOK
  <2> QED
    BY <1>2, <1>3, <1>4, <2>1, <2>2
<1> QED
  BY <1>8, <1>9, <1>10, <1>11 DEF LogInv

LEMMA PushReadsKeeps == LogInv /\ PushReads => LogInv'
<1> SUFFICES ASSUME LogInv, PushReads PROVE LogInv'
  OBVIOUS
<1>1. /\ pushing = "idle" /\ pushing' = "read" /\ all' = entries
      /\ UNCHANGED <<entries, added, lastLogSent, last, clearing, clears, sent>>
  BY DEF PushReads
<1>2. (raced' <=> raced \/ clearing) /\ raced' \in BOOLEAN
  BY Zenon DEF PushReads, LogInv, TypeOK
<1>3. /\ entries \in Seq(Entries) /\ added \in Nat /\ lastLogSent \in Nat /\ Len(entries) \in Nat
      /\ Len(entries) <= added /\ \A i \in 1..Len(entries) : entries[i] = Before + i
  BY Types DEF LogInv, BufferInv
<1>4. Before \in Int /\ Before' = Before
  BY <1>1, <1>3 DEF Before
<1>5. TypeOK'
  BY <1>1, <1>2 DEF LogInv, TypeOK
<1>6. BufferInv'
  <2>1. ASSUME NEW i \in 1..Len(entries) - 1 PROVE entries[i] < entries[i + 1]
    <3>1. i \in 1..Len(entries) /\ i + 1 \in 1..Len(entries) /\ i \in Int
      BY <1>3
    <3>2. entries[i] = Before + i /\ entries[i + 1] = Before + (i + 1)
      BY <1>3, <3>1
    <3> QED
      BY <1>4, <3>1, <3>2
  <2>2. ASSUME NEW i \in 1..Len(entries) PROVE entries[i] <= added
    BY <1>3 DEF Before
  <2>3. pushing' # "loaded"
    BY <1>1
  <2> QED
    BY <1>1, <1>4, <2>1, <2>2, <2>3 DEF LogInv, BufferInv
<1>7. OrderInv'
  <2> SUFFICES ASSUME ~raced, ~clearing PROVE OrderInv'
    BY <1>2 DEF OrderInv
  <2>1. \A j \in 1..Len(sent) : sent[j] \in Int /\ sent[j] <= Before + lastLogSent
    BY Types DEF LogInv, OrderInv
  <2>2. \A i \in 1..Len(entries) :
            /\ entries[i] <= Before + i
            /\ i > lastLogSent => \A j \in 1..Len(sent) : sent[j] < entries[i]
    BY <1>3, <1>4, <2>1
  <2>3. \A i \in 1..Len(sent) - 1 : sent[i] < sent[i + 1]
    BY DEF LogInv, OrderInv
  <2> QED
    BY <1>1, <1>4, <2>1, <2>2, <2>3 DEF OrderInv
<1>8. GapInv'
  <2> SUFFICES ASSUME clears = 0, added <= maxLogEntries
      PROVE Len(entries) <= added /\ \A i \in 1..Len(entries) : entries[i] = i
    BY <1>1 DEF LogInv, GapInv
  <2>1. Len(entries) = added
    BY DEF LogInv, GapInv
  <2> QED
    BY <1>3, <2>1 DEF Before
<1> QED
  BY <1>5, <1>6, <1>7, <1>8 DEF LogInv

LEMMA PushLoadsKeeps == LogInv /\ PushLoads => LogInv'
<1> SUFFICES ASSUME LogInv, PushLoads PROVE LogInv'
  OBVIOUS
<1>1. /\ pushing = "read" /\ last' = lastLogSent
      /\ UNCHANGED <<entries, added, lastLogSent, all, clearing, clears, sent, raced>>
  BY DEF PushLoads
<1>2. \/ pushing' = "idle"
      \/ pushing' = "loaded" /\ ~(Len(all) <= lastLogSent)
  BY DEF PushLoads
<1>3. Before' = Before
  BY <1>1 DEF Before
<1>4. TypeOK'
  BY <1>1, <1>2 DEF LogInv, TypeOK
<1>5. BufferInv'
  <2>1. Len(all) \in Nat /\ lastLogSent \in Nat
    BY Types
  <2> QED
    BY <1>1, <1>2, <1>3, <2>1 DEF LogInv, BufferInv
<1>6. OrderInv'
  BY <1>1, <1>2, <1>3 DEF LogInv, OrderInv
<1>7. GapInv'
  BY <1>1, <1>2 DEF LogInv, GapInv
<1> QED
  BY <1>4, <1>5, <1>6, <1>7 DEF LogInv

\* The rest of the copy goes to the window: it is newer than all it has.
LEMMA PushSendsKeeps == LogInv /\ PushSends => LogInv'
<1> SUFFICES ASSUME LogInv, PushSends PROVE LogInv'
  OBVIOUS
<1>1. /\ pushing = "loaded" /\ pushing' = "idle" /\ lastLogSent' = Len(all)
      /\ sent' = sent \o SubSeq(all, last + 1, Len(all))
      /\ UNCHANGED <<entries, added, all, last, clearing, clears, raced>>
  BY DEF PushSends
<1>2. /\ all \in Seq(Entries) /\ sent \in Seq(Entries) /\ last \in Nat /\ last < Len(all)
      /\ Len(all) \in Nat /\ Len(all) <= maxLogEntries /\ Len(sent) \in Nat
      /\ entries \in Seq(Entries) /\ added \in Nat /\ lastLogSent \in Nat
  BY <1>1, Types DEF LogInv, BufferInv
<1>3. /\ sent' \in Seq(Entries)
      /\ Len(sent') = Len(sent) + Len(all) - last
      /\ \A i \in 1..Len(sent') :
            sent'[i] = IF i <= Len(sent) THEN sent[i] ELSE all[last + i - Len(sent)]
  <2>1. \A s, t \in Seq(Entries) : \A n \in Nat : n < Len(t) =>
          LET r == s \o SubSeq(t, n + 1, Len(t)) IN
          /\ r \in Seq(Entries)
          /\ Len(r) = Len(s) + Len(t) - n
          /\ \A i \in 1..Len(r) : r[i] = IF i <= Len(s) THEN s[i] ELSE t[n + i - Len(s)]
    BY SentElements
  <2> QED
    BY <1>1, <1>2, <2>1
<1>4. Before \in Int /\ Before' = Before
  BY <1>1, Types DEF Before
<1>5. TypeOK'
  BY <1>1, <1>2, <1>3 DEF LogInv, TypeOK, Entries
<1>6. BufferInv'
  <2>1. \A j \in 1..Len(sent') : sent'[j] <= added
    <3> SUFFICES ASSUME NEW j \in 1..Len(sent') PROVE sent'[j] <= added
      OBVIOUS
    <3>1. CASE j <= Len(sent)
      BY <1>2, <1>3, <3>1 DEF LogInv, BufferInv
    <3>2. CASE j > Len(sent)
      <4>1. last + j - Len(sent) \in 1..Len(all)
        BY <1>2, <1>3, <3>2
      <4>2. all[last + j - Len(sent)] <= added
        BY <4>1 DEF LogInv, BufferInv
      <4>3. ~(j <= Len(sent))
        BY <1>2, <3>2
      <4> QED
        BY <1>3, <4>2, <4>3
    <3> QED
      BY <1>2, <3>1, <3>2
  <2>2. pushing' # "loaded"
    BY <1>1
  <2> QED
    BY <1>1, <1>4, <2>1, <2>2 DEF LogInv, BufferInv
<1>7. OrderInv'
  <2> SUFFICES ASSUME ~raced PROVE OrderInv'
    BY <1>1 DEF OrderInv
  <2>1. /\ last = lastLogSent /\ ~clearing
        /\ \A i \in 1..Len(all) :
              /\ all[i] \in Int /\ all[i] <= Before + i
              /\ i > last => \A j \in 1..Len(sent) : sent[j] \in Int /\ sent[j] < all[i]
        /\ \A i \in 1..Len(sent) - 1 : sent[i] < sent[i + 1]
        /\ \A i \in 1..Len(all) - 1 : all[i] < all[i + 1]
    <3>1. last = lastLogSent /\ ~clearing
      BY <1>1 DEF LogInv, OrderInv
    <3>2. \A i \in 1..Len(all) : all[i] \in Int /\ all[i] <= Before + i
      BY <1>1, Types DEF LogInv, OrderInv
    <3>3. \A i \in 1..Len(all) : i > last => \A j \in 1..Len(sent) : sent[j] < all[i]
      BY <1>1, <3>1 DEF LogInv, OrderInv
    <3>4. \A j \in 1..Len(sent) : sent[j] \in Int
      BY Types
    <3>5. \A i \in 1..Len(sent) - 1 : sent[i] < sent[i + 1]
      BY DEF LogInv, OrderInv
    <3>6. \A i \in 1..Len(all) - 1 : all[i] < all[i + 1]
      BY DEF LogInv, BufferInv
    <3> QED
      BY <3>1, <3>2, <3>3, <3>4, <3>5, <3>6
  <2>2. \A i \in 1..Len(sent') - 1 : sent'[i] < sent'[i + 1]
    <3> SUFFICES ASSUME NEW i \in 1..Len(sent') - 1 PROVE sent'[i] < sent'[i + 1]
      OBVIOUS
    <3>0. i \in 1..Len(sent') /\ i + 1 \in 1..Len(sent')
      BY <1>2, <1>3
    <3>1. CASE i + 1 <= Len(sent)
      <4>1. i \in 1..Len(sent) - 1 /\ i <= Len(sent)
        BY <1>2, <3>1
      <4> QED
        BY <1>3, <2>1, <3>0, <3>1, <4>1
    <3>2. CASE i = Len(sent)
      <4>1. sent'[i] = sent[i] /\ sent'[i + 1] = all[last + 1]
        <5>1. i <= Len(sent) /\ ~(i + 1 <= Len(sent)) /\ last + (i + 1) - Len(sent) = last + 1
          BY <1>2, <3>2
        <5> QED
          BY <1>3, <3>0, <5>1
      <4>2. last + 1 \in 1..Len(all) /\ i \in 1..Len(sent)
        BY <1>2, <3>2
      <4> QED
        BY <1>2, <2>1, <4>1, <4>2
    <3>3. CASE i > Len(sent)
      <4>1. sent'[i] = all[last + i - Len(sent)] /\ sent'[i + 1] = all[last + (i + 1) - Len(sent)]
        BY <1>2, <1>3, <3>0, <3>3
      <4>2. last + i - Len(sent) \in 1..Len(all) - 1
        BY <1>2, <1>3, <3>3
      <4>3. last + (i + 1) - Len(sent) = (last + i - Len(sent)) + 1
        BY <1>2
      <4> QED
        BY <2>1, <4>1, <4>2, <4>3
    <3> QED
      BY <1>2, <3>1, <3>2, <3>3
  <2>3. \A j \in 1..Len(sent') : sent'[j] <= Before + Len(all)
    <3> SUFFICES ASSUME NEW j \in 1..Len(sent') PROVE sent'[j] <= Before + Len(all)
      OBVIOUS
    <3>1. CASE j <= Len(sent)
      <4>1. last + 1 \in 1..Len(all) /\ j \in 1..Len(sent) /\ sent'[j] = sent[j]
        BY <1>2, <1>3, <3>1
      <4>2. sent[j] < all[last + 1] /\ all[last + 1] <= Before + (last + 1) /\ sent[j] \in Int
            /\ all[last + 1] \in Int
        BY <1>2, <2>1, <4>1
      <4> QED
        BY <1>2, <1>4, <4>1, <4>2
    <3>2. CASE j > Len(sent)
      <4>1. sent'[j] = all[last + j - Len(sent)] /\ last + j - Len(sent) \in 1..Len(all)
        <5>1. ~(j <= Len(sent)) /\ last + j - Len(sent) \in 1..Len(all)
          BY <1>2, <1>3, <3>2
        <5> QED
          BY <1>3, <5>1
      <4>2. all[last + j - Len(sent)] \in Int
            /\ all[last + j - Len(sent)] <= Before + (last + j - Len(sent))
        BY <2>1, <4>1
      <4> QED
        BY <1>2, <1>4, <4>1, <4>2
    <3> QED
      BY <1>2, <3>1, <3>2
  <2> QED
    BY <1>1, <1>4, <2>1, <2>2, <2>3 DEF OrderInv
<1>8. GapInv'
  <2> SUFFICES ASSUME clears = 0, added <= maxLogEntries
      PROVE Len(sent') = Len(all) /\ Len(all) <= added /\ \A j \in 1..Len(sent') : sent'[j] = j
    BY <1>1 DEF LogInv, GapInv
  <2>1. /\ last = Len(sent) /\ Len(all) <= added
        /\ \A j \in 1..Len(sent) : sent[j] = j
        /\ \A i \in 1..Len(all) : all[i] = i
    BY <1>1, <1>2 DEF LogInv, GapInv
  <2> QED
    BY <1>2, <1>3, <2>1
<1> QED
  BY <1>5, <1>6, <1>7, <1>8 DEF LogInv

LEMMA ClearBeginsKeeps == LogInv /\ ClearBegins => LogInv'
<1> SUFFICES ASSUME LogInv, ClearBegins PROVE LogInv'
  OBVIOUS
<1>1. /\ entries' = <<>> /\ clearing' = TRUE /\ clears' = clears + 1 /\ clears < MaxClears
      /\ UNCHANGED <<added, lastLogSent, all, last, pushing, sent>>
  BY DEF ClearBegins
<1>2. (raced' <=> raced \/ pushing # "idle") /\ raced' \in BOOLEAN
  BY Zenon DEF ClearBegins, LogInv, TypeOK
<1>3. /\ added \in Nat /\ lastLogSent \in Nat /\ clears \in Nat /\ maxLogEntries \in Nat
  BY Types
<1>4. Before' = added
  BY <1>1, <1>3 DEF Before
<1>5. TypeOK'
  <2>1. clears' \in 0..MaxClears /\ entries' \in Seq(1..MaxAdds) /\ Len(entries') <= maxLogEntries
    BY <1>1, <1>3, BoundsAssumption
  <2> QED
    BY <1>1, <1>2, <2>1 DEF LogInv, TypeOK
<1>6. BufferInv'
  BY <1>1, <1>3, <1>4 DEF LogInv, BufferInv
<1>7. OrderInv'
  <2> SUFFICES ASSUME ~raced, pushing = "idle" PROVE OrderInv'
    BY <1>2 DEF OrderInv
  <2>1. \A j \in 1..Len(sent) : sent[j] \in Int /\ sent[j] <= added /\ sent[j] <= added + lastLogSent
    BY <1>3, Types DEF LogInv, BufferInv
  <2>2. \A i \in 1..Len(sent) - 1 : sent[i] < sent[i + 1]
    BY DEF LogInv, OrderInv
  <2>3. pushing' = "idle"
    BY <1>1
  <2> QED
    BY <1>1, <1>4, <2>1, <2>2, <2>3 DEF OrderInv
<1>8. GapInv'
  BY <1>1, <1>3 DEF GapInv
<1> QED
  BY <1>5, <1>6, <1>7, <1>8 DEF LogInv

LEMMA ClearEndsKeeps == LogInv /\ ClearEnds => LogInv'
<1> SUFFICES ASSUME LogInv, ClearEnds PROVE LogInv'
  OBVIOUS
<1>1. /\ clearing /\ clearing' = FALSE /\ lastLogSent' = 0
      /\ UNCHANGED <<entries, added, all, last, pushing, clears, sent, raced>>
  BY DEF ClearEnds
<1>2. added \in Nat /\ Before \in Int /\ Before' = Before
  BY <1>1, Types DEF Before
<1>3. TypeOK'
  <2>1. lastLogSent' \in 0..maxLogEntries
    BY <1>1, BoundsAssumption
  <2>2. clearing' \in BOOLEAN
    BY <1>1
  <2> QED
    BY <1>1, <2>1, <2>2 DEF LogInv, TypeOK
<1>4. BufferInv'
  BY <1>1, <1>2 DEF LogInv, BufferInv
<1>5. OrderInv'
  BY <1>1, <1>2 DEF LogInv, OrderInv
<1>6. GapInv'
  <2>1. clears > 0 /\ ~(clears = 0)
    BY <1>1, Types DEF LogInv, GapInv
  <2> QED
    BY <1>1, <2>1 DEF GapInv
<1> QED
  BY <1>3, <1>4, <1>5, <1>6 DEF LogInv

LEMMA LogKept == LogInv /\ [Next]_vars => LogInv'
<1> SUFFICES ASSUME LogInv, [Next]_vars PROVE LogInv'
  OBVIOUS
<1>1. CASE UNCHANGED vars
  BY <1>1 DEF vars, LogInv, TypeOK, BufferInv, OrderInv, GapInv, Before
<1> QED
  BY <1>1, AddKeeps, PushReadsKeeps, PushLoadsKeeps, PushSendsKeeps, ClearBeginsKeeps,
     ClearEndsKeeps DEF Next

LEMMA LogAlways == Spec => []LogInv
BY LogInitially, LogKept, PTL DEF Spec

\* Every variable keeps its type: positions never pass the capacity of the buffer.
THEOREM LogTypes == Spec => []TypeOK
<1>1. LogInv => TypeOK
  BY DEF LogInv
<1> QED
  BY <1>1, LogAlways, PTL

\* The window is sent every entry at most once and in order, unless the log is cleared in
\* the middle of pushLogs (pushLogs, clearLogs).
THEOREM SentInOrder == Spec => []ShownOnceInOrder
<1>1. LogInv => ShownOnceInOrder
  BY DEF LogInv, OrderInv, ShownOnceInOrder
<1> QED
  BY <1>1, LogAlways, PTL

\* Until the buffer has been full, what was sent and what stands in the buffer after it
\* are all the entries there were (logBuffer.Add, pushLogs).
THEOREM NothingSkipped == Spec => []NoGapBeforeFull
<1>1. LogInv => NoGapBeforeFull
  <2> SUFFICES ASSUME LogInv, clears = 0, added <= maxLogEntries
      PROVE sent \o SubSeq(entries, Len(sent) + 1, Len(entries)) = [i \in 1..added |-> i]
    BY DEF NoGapBeforeFull
  <2> DEFINE r == sent \o SubSeq(entries, Len(sent) + 1, Len(entries))
  <2>1. /\ sent \in Seq(Nat) /\ entries \in Seq(Nat) /\ Len(sent) \in Nat /\ added \in Nat
        /\ Len(entries) = added /\ Len(sent) <= added
        /\ \A j \in 1..Len(sent) : sent[j] = j
        /\ \A j \in 1..Len(entries) : entries[j] = j
    <3>1. /\ sent \in Seq(Entries) /\ entries \in Seq(Entries) /\ Len(sent) \in Nat /\ added \in Nat
      BY Types
    <3>2. Seq(Entries) \subseteq Seq(Nat)
      <4>1. Entries \subseteq Nat
        BY DEF Entries
      <4> QED
        BY <4>1, SeqMonotonic
    <3>3. /\ Len(entries) = added /\ Len(sent) <= added
          /\ \A j \in 1..Len(sent) : sent[j] = j
      BY DEF LogInv, GapInv
    <3>4. \A j \in 1..Len(entries) : entries[j] = j
      BY <3>1, <3>3 DEF LogInv, BufferInv, Before
    <3> QED
      BY <3>1, <3>2, <3>3, <3>4
  <2>2. r \in Seq(Nat) /\ Len(r) = added /\ \A i \in 1..added : r[i] = i
    <3>1. CASE Len(sent) < Len(entries)
      <4>1. /\ r \in Seq(Nat)
            /\ Len(r) = Len(sent) + Len(entries) - Len(sent)
            /\ \A i \in 1..Len(r) :
                  r[i] = IF i <= Len(sent) THEN sent[i] ELSE entries[Len(sent) + i - Len(sent)]
        <5> HIDE DEF r
        <5>1. LET q == sent \o SubSeq(entries, Len(sent) + 1, Len(entries)) IN
              /\ q \in Seq(Nat)
              /\ Len(q) = Len(sent) + Len(entries) - Len(sent)
              /\ \A i \in 1..Len(q) :
                    q[i] = IF i <= Len(sent) THEN sent[i] ELSE entries[Len(sent) + i - Len(sent)]
          BY <2>1, <3>1, SentElements
        <5> QED
          BY <5>1, Zenon DEF r
      <4> QED
        BY <2>1, <4>1
    <3>2. CASE Len(sent) = Len(entries)
      <4>1. SubSeq(entries, Len(sent) + 1, Len(entries)) = <<>>
        BY <2>1, <3>2, SubSeqEmpty
      <4>2. r = sent
        BY <2>1, <4>1, ConcatEmptySeq
      <4> QED
        BY <2>1, <3>2, <4>2
    <3> QED
      BY <2>1, <3>1, <3>2
  <2> HIDE DEF r
  <2>3. r = [i \in 1..added |-> i]
    BY <2>1, <2>2
  <2> QED
    BY <2>3 DEF r
<1> QED
  BY <1>1, LogAlways, PTL

====
