---- MODULE MC_AppLifecycle ----
(***************************************************************************)
(* Small instances of AppLifecycle: threads are interchangeable, and so    *)
(* are the two configurations of ports.                                    *)
(***************************************************************************)
EXTENDS AppLifecycle, TLC

CONSTANTS p1, p2, p3, p4

Symmetry ==
    Permutations(Threads)
    \cup {[p \in Ports |-> CASE p = p1 -> p2 [] p = p2 -> p1 [] p = p3 -> p4 [] p = p4 -> p3]}

\* The user may move both servers to other ports and back.
MovingConfigs == {[proxy |-> p1, pac |-> p3], [proxy |-> p2, pac |-> p4]}

\* Ports as installed, never edited.
OneConfig == {[proxy |-> p1, pac |-> p3]}

====
