----------------------------- MODULE MCSessions -----------------------------
(* Instances of Sessions for TLC: two requests at a time, two logins, and     *)
(* enough rows for one of them to rotate twice.                               *)
EXTENDS Sessions, TLC

Symmetry == Permutations(Proc) \cup Permutations(Family) \cup Permutations(Row)

\* Which unused id or family a request takes makes no difference: one will do.
TakenInOrder ==
    /\ \A n \in Row : UnusedRow(n) /\ ~UnusedRow(n)' =>
          n = CHOOSE r \in Row : UnusedRow(r)
    /\ \A f \in Family : ~Opened(f) /\ Opened(f)' =>
          f = CHOOSE g \in Family : ~Opened(g)

\* FairSpec without the environment, which nobody waits for: it only keeps
\* requests from starting, or sends them the way of a removed member.
StillSpec == Init /\ [][Requests /\ TakenInOrder]_vars /\ Fairness
=============================================================================
