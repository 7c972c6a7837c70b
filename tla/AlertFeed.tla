----------------------------- MODULE AlertFeed -----------------------------
(***************************************************************************)
(* What the control plane promises to a dashboard that follows             *)
(* GET /api/events: a subscriber is offered every alert of its own tenant  *)
(* whose broadcast starts while it is subscribed, each of them once and in *)
(* the order in which they were queued for it, until the subscription is   *)
(* cut; what was queued before the cut can still be taken.  A broadcast    *)
(* completes only when no subscriber that is still live is owed it.        *)
(*                                                                         *)
(* The module knows nothing of locks, of Go channels that may be closed or *)
(* of panics: SseHub implements it.                                        *)
(***************************************************************************)
EXTENDS Naturals, Sequences

CONSTANTS Clients,   \* dashboards
          Alerts,    \* one element per broadcast of an alert
          TenantOf,  \* the tenant of each client and of each alert
          Cap        \* how many alerts wait for one client

VARIABLES sub,       \* sub[c]: "off" before the subscription, "live", "cut"
          inbox,     \* inbox[c]: alerts queued for c
          got,       \* got[c]: alerts c has taken, in order
          phase,     \* phase[a]: "idle", "out", "done", "aborted"
          owed       \* owed[a]: live clients that were not offered a yet

vars == <<sub, inbox, got, phase, owed>>

Init == /\ sub = [c \in Clients |-> "off"]
        /\ inbox = [c \in Clients |-> <<>>]
        /\ got = [c \in Clients |-> <<>>]
        /\ phase = [a \in Alerts |-> "idle"]
        /\ owed = [a \in Alerts |-> {}]

Join(c) == /\ sub[c] = "off"
           /\ sub' = [sub EXCEPT ![c] = "live"]
           /\ UNCHANGED <<inbox, got, phase, owed>>

\* The client left, or the hub gave it up as too slow: it is owed nothing more.
Cut(c) == /\ sub[c] = "live"
          /\ sub' = [sub EXCEPT ![c] = "cut"]
          /\ owed' = [a \in Alerts |-> owed[a] \ {c}]
          /\ UNCHANGED <<inbox, got, phase>>

Publish(a) == /\ phase[a] = "idle"
              /\ phase' = [phase EXCEPT ![a] = "out"]
              /\ owed' = [owed EXCEPT ![a] =
                    {c \in Clients : sub[c] = "live" /\ TenantOf[c] = TenantOf[a]}]
              /\ UNCHANGED <<sub, inbox, got>>

Offer(a, c) == /\ c \in owed[a]
               /\ Len(inbox[c]) < Cap
               /\ inbox' = [inbox EXCEPT ![c] = Append(@, a)]
               /\ owed' = [owed EXCEPT ![a] = @ \ {c}]
               /\ UNCHANGED <<sub, got, phase>>

Complete(a) == /\ phase[a] = "out"
               /\ owed[a] = {}
               /\ phase' = [phase EXCEPT ![a] = "done"]
               /\ UNCHANGED <<sub, inbox, got, owed>>

\* The broadcaster stops half way: the only way a live client misses an alert.
Abort(a) == /\ phase[a] = "out"
            /\ phase' = [phase EXCEPT ![a] = "aborted"]
            /\ owed' = [owed EXCEPT ![a] = {}]
            /\ UNCHANGED <<sub, inbox, got>>

Take(c) == /\ inbox[c] # <<>>
           /\ sub[c] # "off"
           /\ got' = [got EXCEPT ![c] = Append(@, Head(inbox[c]))]
           /\ inbox' = [inbox EXCEPT ![c] = Tail(@)]
           /\ UNCHANGED <<sub, phase, owed>>

Next == \/ \E c \in Clients : Join(c) \/ Cut(c) \/ Take(c)
        \/ \E a \in Alerts : \/ Publish(a) \/ Complete(a) \/ Abort(a)
                             \/ \E c \in Clients : Offer(a, c)

Spec == Init /\ [][Next]_vars
=============================================================================
