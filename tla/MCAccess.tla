------------------------------ MODULE MCAccess ------------------------------
(***************************************************************************)
(* Small instances of Access, of the limiter alone and of Webhook, for one *)
(* run.  The webhook shares no state with the rest of the control plane,   *)
(* and the limiter alone is Access without the chain, so a behaviour is of *)
(* one part and leaves the others where they are.  Two keys, one of them   *)
(* with a limit of its own; a namespace of users and one of the system.    *)
(***************************************************************************)
EXTENDS Access, Webhook, TLC

CONSTANTS k1, k2, r1, r2,
          ChainTime   \* bound: the clock of the limiter in the chain

VARIABLE part  \* the part this behaviour is of

Limits == [k \in Keys |-> IF k = k1 THEN 2 ELSE 0]

Symmetry == Permutations(Requests)

ClusterNamespaces == {"shop", "sniffit"}

ContainerNames == {"app", Sidecar}

PodLists == {<<"app">>, <<"app", Sidecar>>, <<Sidecar, "app">>}

\* Where the webhook stays while another part moves; any state of it will do.
AtRest ==
  /\ nsLevel = FALSE /\ labelled = FALSE /\ home = "shop"
  /\ pod = [namespace |-> "shop", inject |-> "absent", containers |-> <<"app">>]
  /\ sent = pod /\ due = Hooks

MCInit == /\ AccessInit
          /\ \/ part \in {"chain", "limiter"} /\ AtRest
             \/ part = "webhook" /\ WebhookInit

Chained == part = "chain" /\ AccessNext /\ now' <= ChainTime

Limited == part = "limiter" /\ Next /\ UNCHANGED <<db, process, req, touching>>

MCNext == \/ (Chained \/ Limited) /\ UNCHANGED <<webhookVars, part>>
          \/ part = "webhook" /\ WebhookNext /\ UNCHANGED <<accessVars, part>>

MCSpec == MCInit /\ [][MCNext]_<<accessVars, webhookVars, part>>
=============================================================================
