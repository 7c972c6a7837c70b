----------------------------- MODULE MCIngest ------------------------------
(***************************************************************************)
(* Small instances of Ingest.                                              *)
(***************************************************************************)
EXTENDS Ingest

CONSTANTS p1, p2, p3, x1, d1, t1, t2

\* p1, p2 and the DELETE belong to one tenant, p3 is posted with a key of the
\* other but claims to be of t1.
TwoTenants == [x \in Posts \union Clears \union Dashboards |-> IF x = p3 THEN t2 ELSE t1]

Claims == [p \in Posts |-> IF p = p1 THEN NoTenant ELSE t1]

\* p1 triggers the AI under every level but "none", p2 under "all" only.
Severe == [p \in Posts |-> IF p = p2 THEN "info" ELSE "error"]
=============================================================================
