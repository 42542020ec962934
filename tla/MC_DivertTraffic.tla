---- MODULE MC_DivertTraffic ----
(* DivertTraffic for TLC: hosts are alike, and so are local addresses and goroutines. *)
EXTENDS DivertTraffic, TLC

Alike == Permutations(Names) \cup Permutations(Locals) \cup Permutations(Confirmers)

\* Bound: while a host is being confirmed one connection at most is open, begun under a
\* session, and no fake hello has been sent on it.  The goroutines of confirmBlocked and
\* the measurements have only the list in common, which may change at any time, so each
\* is explored in full without the product of the two.
Apart ==
    (\E c \in Confirmers : confirm[c] # NoProbe)
        => /\ Cardinality({e \in Ends : conn[e] # None}) \in {0, 1}
           /\ \A e \in Ends : faked[e] = None
           /\ blind = {} /\ overtaken = {}

====
