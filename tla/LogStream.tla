---- MODULE LogStream ----
(***************************************************************************)
(* The log on its way to the window: the bounded buffer of logs.go, and    *)
(* pushLogs and clearLogs of ipc.go, which agree on what the window has    *)
(* been sent through lastLogSent alone, a position in that buffer.         *)
(*                                                                         *)
(* Entries are numbered in the order they are added.  One goroutine, the   *)
(* ticker's, runs pushLogs; one thread, the window's, runs clearLogs.      *)
(***************************************************************************)
EXTENDS Integers, Sequences

CONSTANTS
    maxLogEntries,  \* capacity of the buffer: 500 in the code
    MaxAdds,        \* bound on the number of entries logged
    MaxClears       \* bound on the number of times the user clears the log

ASSUME BoundsAssumption == /\ maxLogEntries \in Nat \ {0}
                           /\ MaxAdds \in Nat /\ MaxClears \in Nat

VARIABLES
    entries,        \* appLog.entries
    added,          \* how many entries have been logged
    lastLogSent,
    all, last,      \* the local variables of pushLogs
    pushing,        \* where pushLogs is
    clearing,       \* clearLogs has emptied the buffer and not yet reset lastLogSent
    clears,         \* how often the user has cleared the log
    sent,           \* history: every entry handed to the window, in order
    raced           \* history: the log was cleared while pushLogs was at work

vars == <<entries, added, lastLogSent, all, last, pushing, clearing, clears, sent, raced>>

TypeOK ==
    /\ entries \in Seq(1..MaxAdds) /\ Len(entries) <= maxLogEntries
    /\ added \in 0..MaxAdds
    /\ lastLogSent \in 0..maxLogEntries
    /\ all \in Seq(1..MaxAdds) /\ Len(all) <= maxLogEntries
    /\ last \in 0..maxLogEntries
    /\ pushing \in {"idle", "read", "loaded"}
    /\ clearing \in BOOLEAN
    /\ clears \in 0..MaxClears
    /\ sent \in Seq(1..MaxAdds)
    /\ raced \in BOOLEAN

Init ==
    /\ entries = <<>>
    /\ added = 0
    /\ lastLogSent = 0
    /\ all = <<>> /\ last = 0
    /\ pushing = "idle"
    /\ clearing = FALSE
    /\ clears = 0
    /\ sent = <<>>
    /\ raced = FALSE

----------------------------------------------------------------------------

\* The last n elements of a sequence, or all of them if there are fewer.
Newest(s, n) == SubSeq(s, Len(s) - (IF Len(s) < n THEN Len(s) ELSE n) + 1, Len(s))

\* logBuffer.Add, from any goroutine: the oldest entry makes room.
Add ==
    /\ added < MaxAdds
    /\ added' = added + 1
    /\ entries' = Newest(Append(entries, added + 1), maxLogEntries)
    /\ UNCHANGED <<lastLogSent, all, last, pushing, clearing, clears, sent, raced>>

\* pushLogs copies the buffer.
PushReads ==
    /\ pushing = "idle"
    /\ pushing' = "read"
    /\ all' = entries
    /\ raced' = (raced \/ clearing)
    /\ UNCHANGED <<entries, added, lastLogSent, last, clearing, clears, sent>>

\* It loads the position and returns if it has nothing past it.
PushLoads ==
    /\ pushing = "read"
    /\ last' = lastLogSent
    /\ pushing' = IF Len(all) <= lastLogSent THEN "idle" ELSE "loaded"
    /\ UNCHANGED <<entries, added, lastLogSent, all, clearing, clears, sent, raced>>

\* Mutant: the position is that of the first new entry.
PushSendsAgain ==
    /\ pushing = "loaded"
    /\ pushing' = "idle"
    /\ lastLogSent' = Len(all) - 1
    /\ sent' = sent \o SubSeq(all, last + 1, Len(all))
    /\ UNCHANGED <<entries, added, all, last, clearing, clears, raced>>

\* Mutant: the first new entry is left out.
PushSendsSkips ==
    /\ pushing = "loaded"
    /\ pushing' = "idle"
    /\ lastLogSent' = Len(all)
    /\ sent' = sent \o SubSeq(all, last + 2, Len(all))
    /\ UNCHANGED <<entries, added, all, last, clearing, clears, raced>>

\* It stores the new position and hands the new entries to the window.
PushSends ==
    /\ pushing = "loaded"
    /\ pushing' = "idle"
    /\ lastLogSent' = Len(all)
    /\ sent' = sent \o SubSeq(all, last + 1, Len(all))
    /\ UNCHANGED <<entries, added, all, last, clearing, clears, raced>>

\* clearLogs empties the buffer ...
ClearBegins ==
    /\ ~clearing
    /\ clears < MaxClears
    /\ entries' = <<>>
    /\ clearing' = TRUE
    /\ clears' = clears + 1
    /\ raced' = (raced \/ pushing # "idle")
    /\ UNCHANGED <<added, lastLogSent, all, last, pushing, sent>>

\* ... and resets the position.
ClearEnds ==
    /\ clearing
    /\ clearing' = FALSE
    /\ lastLogSent' = 0
    /\ UNCHANGED <<entries, added, all, last, pushing, clears, sent, raced>>

Next ==
    \/ Add
    \/ PushReads \/ PushLoads \/ PushSends
    \/ ClearBegins \/ ClearEnds

Spec == Init /\ [][Next]_vars

----------------------------------------------------------------------------
(* Properties *)

\* The window is sent every entry at most once, in the order they were logged,
\* although trimming shifts the positions lastLogSent counts; only a log cleared
\* in the middle of pushLogs can make it repeat itself.
ShownOnceInOrder ==
    ~raced => \A i \in 1..Len(sent) - 1 : sent[i] < sent[i + 1]

\* Until the buffer has been full, nothing is skipped that has not been cleared.
NoGapBeforeFull ==
    ~raced /\ clears = 0 /\ added <= maxLogEntries =>
        sent \o SubSeq(entries, Len(sent) + 1, Len(entries)) = [i \in 1..added |-> i]

====
