---------------------------- MODULE MCAiService ----------------------------
(***************************************************************************)
(* A small instance of AiService: one alert that triggers the AI, one      *)
(* request that asks it anything, two models and a crash.                  *)
(***************************************************************************)
EXTENDS AiService

CONSTANTS p1, x1, t1, h1, m1, m2

OneTenant == [x \in Posts \union Clears \union Dashboards |-> t1]
OwnTenant == [p \in Posts |-> NoTenant]
Errors == [p \in Posts |-> "error"]
AllCalls == Posts \union Queries
QueryTenants == [h \in Queries |-> t1]

\* The primary model is one of the fallbacks, as it is by default.
Models == <<m1, m2>>
=============================================================================
