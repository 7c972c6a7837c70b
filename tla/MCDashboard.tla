---------------------------- MODULE MCDashboard ----------------------------
(***************************************************************************)
(* A small instance of Dashboard: two alerts of the same second, on a page *)
(* that has no room for all the entries they can have.                     *)
(***************************************************************************)
EXTENDS Dashboard

CONSTANTS a1, a2

Seconds == [a \in Alerts |-> 1]
=============================================================================
