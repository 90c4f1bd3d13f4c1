--------------------------- MODULE MCSystemTimers ---------------------------
(* An instance of SystemTimers for TLC: two processes of one administrator    *)
(* with a thread each, and two timers of one name beside a third.             *)
EXTENDS SystemTimers, TLC

CONSTANTS c1, c2, t1, t2, admin, i1, i2, i3, n1, n2

OneAdmin == [c \in Clients |-> admin]
OneThread == t1 :> c1 @@ t2 :> c2
TwoNames == i1 :> n1 @@ i2 :> n1 @@ i3 :> n2

(* The processes are exchanged with their threads. *)
Symmetry ==
    Permutations({i1, i2}) \cup {c1 :> c2 @@ c2 :> c1 @@ t1 :> t2 @@ t2 :> t1}
=============================================================================
