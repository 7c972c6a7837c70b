------------------------------ MODULE MCSseHub ------------------------------
(***************************************************************************)
(* Small instances of SseHub for TLC.                                      *)
(***************************************************************************)
EXTENDS SseHub, TLC

CONSTANTS c1, c2, p1, p2, p3, d1, t1, t2

\* Two dashboards and three broadcasts of one tenant: enough to fill a channel
\* of capacity 1, find it full twice at once and have a healthy neighbour.
OneTenant == [x \in Clients \union Broadcasters |-> t1]

\* A dashboard and three broadcasts of one tenant, a dashboard of another.
TwoTenants ==
  [x \in Clients \union Broadcasters |-> IF x \in {c2, p3} THEN t2 ELSE t1]

Symmetric == Permutations({c1, c2}) \union Permutations({p1, p2})
=============================================================================
