---- MODULE DohResolver ----
(***************************************************************************)
(* DNS over HTTPS, doh.go: dohResolve asks all providers at once, takes    *)
(* the first answer, and remembers answers and failures in a cache that    *)
(* calls read and write without a common lock.                             *)
(*                                                                         *)
(* A call of dohResolve is named by the connection that makes it; it makes *)
(* one at most.  Addresses are not told apart; an expired entry of the     *)
(* cache counts as none.                                                   *)
(***************************************************************************)
EXTENDS Naturals, Sequences

CONSTANTS
    Conns,          \* the connections, one call of dohResolve each
    Hosts,          \* what they may ask for
    Literals,       \* those that are addresses already
    Providers       \* how many dohServers there are

ASSUME DohAssumption ==
    /\ Literals \subseteq Hosts
    /\ Providers \in Nat \ {0}

VARIABLES
    cache,          \* dohCache: "none", "ips" or "failed" for each host
    call,           \* the state of each call, its host and the failures it has read; as
                    \* history, whether another call has stored an answer meanwhile
    asking,         \* how many of its goroutines are still in dohQuery
    channel         \* the results sent to a call under way and not read; the channel is
                    \* buffered for as many as there are providers, so none waits to send

dohVars == <<cache, call, asking, channel>>

Results == {"ips", "error"}

DohTypeOK ==
    /\ cache \in [Hosts -> {"none", "ips", "failed"}]
    /\ call \in [Conns -> [pc : {"idle", "waiting", "answered", "failed"},
                           name : Hosts \cup {"none"}, failures : 0..Providers,
                           overtaken : BOOLEAN]]
    /\ asking \in [Conns -> 0..Providers]
    /\ \A q \in Conns : channel[q] \in Seq(Results) /\ Len(channel[q]) <= Providers

\* A call that is not under way has no variables.
Returned(place) == [pc |-> place, name |-> "none", failures |-> 0, overtaken |-> FALSE]

DohInit ==
    /\ cache = [h \in Hosts |-> "none"]
    /\ call = [q \in Conns |-> Returned("idle")]
    /\ asking = [q \in Conns |-> 0]
    /\ channel = [q \in Conns |-> <<>>]

UnderWay(h) == {q \in Conns : call[q].pc = "waiting" /\ call[q].name = h}

\* The call stores what it has found and returns; the others do not learn of it.
Return(q, place, entry) ==
    LET h == call[q].name
        others == UnderWay(h) \ {q}
    IN
    /\ cache' = [cache EXCEPT ![h] = entry]
    /\ channel' = [channel EXCEPT ![q] = <<>>]
    /\ call' = [x \in Conns |->
          IF x = q THEN Returned(place)
          ELSE IF x \in others /\ entry = "ips" THEN [call[x] EXCEPT !.overtaken = TRUE]
          ELSE call[x]]

----------------------------------------------------------------------------

\* Mutant: the cache is not looked at.
AskAnyway(q, h) ==
    /\ call[q].pc = "idle"
    /\ call' = [call EXCEPT ![q].pc = "waiting", ![q].name = h]
    /\ asking' = [asking EXCEPT ![q] = Providers]
    /\ UNCHANGED <<cache, channel>>

\* The host is an address, or remembered either way, or every provider is asked.
Ask(q, h) ==
    /\ call[q].pc = "idle"
    /\ \/ /\ h \in Literals \/ cache[h] = "ips"
          /\ call' = [call EXCEPT ![q] = Returned("answered")]
          /\ UNCHANGED asking
       \/ /\ h \notin Literals /\ cache[h] = "failed"
          /\ call' = [call EXCEPT ![q] = Returned("failed")]
          /\ UNCHANGED asking
       \/ /\ h \notin Literals /\ cache[h] = "none"
          /\ call' = [call EXCEPT ![q].pc = "waiting", ![q].name = h]
          /\ asking' = [asking EXCEPT ![q] = Providers]
    /\ UNCHANGED <<cache, channel>>

\* Mutant: the channel has no buffer.
ProviderRepliesUnbuffered(q) ==
    /\ asking[q] > 0
    /\ call[q].pc = "waiting" /\ channel[q] = <<>>
    /\ asking' = [asking EXCEPT ![q] = @ - 1]
    /\ \E r \in Results : channel' = [channel EXCEPT ![q] = Append(@, r)]
    /\ UNCHANGED <<cache, call>>

\* A provider answers with addresses; or it fails, is too slow, or has no A record.
ProviderReplies(q) ==
    /\ asking[q] > 0
    /\ asking' = [asking EXCEPT ![q] = @ - 1]
    /\ \/ /\ call[q].pc = "waiting"
          /\ \E r \in Results : channel' = [channel EXCEPT ![q] = Append(@, r)]
       \/ call[q].pc # "waiting" /\ UNCHANGED channel     \* buffered, and never read
    /\ UNCHANGED <<cache, call>>

\* The call reads a result: the first answer ends it, the last failure does too.
Receive(q) ==
    /\ call[q].pc = "waiting"
    /\ channel[q] # <<>>
    /\ LET last == call[q].failures + 1 = Providers IN
       \/ Head(channel[q]) = "ips" /\ Return(q, "answered", "ips")
       \/ Head(channel[q]) = "error" /\ last /\ Return(q, "failed", "failed")
       \/ /\ Head(channel[q]) = "error" /\ ~last
          /\ call' = [call EXCEPT ![q].failures = @ + 1]
          /\ channel' = [channel EXCEPT ![q] = Tail(@)]
          /\ UNCHANGED cache
    /\ UNCHANGED asking

\* Two seconds are over.  Results that arrived with the timer lose or win the select.
TimesOut(q) ==
    /\ call[q].pc = "waiting"
    /\ Return(q, "failed", "failed")
    /\ UNCHANGED asking

\* The entry of a host passes its time.
Expires(h) ==
    /\ cache[h] # "none"
    /\ cache' = [cache EXCEPT ![h] = "none"]
    /\ UNCHANGED <<call, asking, channel>>

Resolving(q) == Receive(q) \/ TimesOut(q)

\* The caller has what it asked for; goroutines of the call may still be at work.
Forget(q) ==
    /\ call' = [call EXCEPT ![q] = Returned("idle")]
    /\ UNCHANGED <<cache, asking, channel>>

DohStep ==
    \/ \E q \in Conns : Resolving(q) \/ ProviderReplies(q)
    \/ \E h \in Hosts : Expires(h)

DohFairness == \A q \in Conns : WF_dohVars(ProviderReplies(q))

----------------------------------------------------------------------------
(* Properties *)

\* A remembered answer gives way to a failure only in a race: the call that
\* failed was under way when the answer was stored.  No later call overwrites
\* an answer that has not expired.
AnswerLostOnlyToRace ==
    [][\A h \in Hosts :
         cache[h] = "ips" /\ cache'[h] = "failed" =>
             \E q \in UnderWay(h) : call[q].overtaken /\ call'[q].pc = "failed"]_dohVars

\* The goroutine of every provider comes to its end, also when the call has
\* long returned and nobody reads what it sends.
ProvidersFinish == \A q \in Conns : []<>(asking[q] = 0)

====
