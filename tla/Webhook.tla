------------------------------ MODULE Webhook ------------------------------
(***************************************************************************)
(* The mutating admission webhook: HandleMutate (webhook/mutator.go) and   *)
(* the hooks the chart registers for it (webhook.yaml), while the API      *)
(* server admits one pod.  The hooks whose selectors the pod matches are   *)
(* called one after the other, in any order; each call is HandleMutate.    *)
(* An admitted pod may be sent again, as it was stored, to be created      *)
(* anew: the webhook is called on every CREATE.                            *)
(***************************************************************************)
EXTENDS Naturals, Sequences, FiniteSets

CONSTANTS Namespaces,  \* the namespaces of the cluster
          NoName,      \* an object that leaves its namespace out
          Names,       \* names of containers, that of the sidecar among them
          Lists        \* the lists of containers a pod is sent with

SystemNamespaces == {"kube-system", "kube-public", "kube-node-lease", "sniffit"}

Sidecar == "sniffit-sidecar"

SidecarsIn(list) == {i \in DOMAIN list : list[i] = Sidecar}

\* The API server wants the names of a pod's containers to be different.
ASSUME WebhookAssumption ==
  /\ NoName \notin Namespaces \union SystemNamespaces
  /\ Sidecar \in Names /\ Lists \subseteq Seq(Names)
  /\ \A list \in Lists : Cardinality(SidecarsIn(list)) \in {0, 1}

VARIABLES nsLevel,   \* NAMESPACE_LEVEL_INJECTION: the chart sets it with its hooks
          home,      \* the namespace the pod is created in
          labelled,  \* that one is labelled sniffit/inject=true
          sent,      \* history: the pod as it was sent
          pod,       \* the pod as the hooks called so far have left it
          due        \* the hooks the API server has still to look at

cluster == <<nsLevel, home, labelled>>
webhookVars == <<cluster, sent, pod, due>>

Hooks == {"namespace", "pod"}

\* Of the label sniffit/inject, the pods' hook sees one value and the code none.
Pod(lists) == [namespace : Namespaces \union {NoName},
               inject : {"absent", "true", "false"}, containers : lists]

Has(p) == SidecarsIn(p.containers) # {}

WebhookInit ==
  /\ nsLevel \in BOOLEAN /\ home \in Namespaces /\ labelled \in BOOLEAN
  /\ pod \in Pod(Lists) /\ pod.namespace \in {home, NoName}
  /\ sent = pod /\ due = Hooks

-----------------------------------------------------------------------------
\* Mutant: the containers are not looked at.
NeedsInjectionAgain(p) ==
  /\ p.namespace \notin SystemNamespaces
  /\ p.inject # "absent" \/ nsLevel

\* needsInjection, shouldSkipNamespace: the label counts whatever its value.
NeedsInjection(p) ==
  /\ ~Has(p)
  /\ p.namespace \notin SystemNamespaces
  /\ p.inject # "absent" \/ nsLevel

Injected(p) == [p EXCEPT !.containers = Append(@, Sidecar)]

\* HandleMutate: the patch adds one container, or there is no patch.
HandleMutate(p) == IF NeedsInjection(p) THEN Injected(p) ELSE p

\* The hooks of the chart.  Each is called for a pod that matches its selector.
Matches(hook, p) == \/ hook = "namespace" /\ nsLevel /\ labelled
                    \/ hook = "pod" /\ p.inject = "true"

CallHook(hook) ==
  /\ hook \in due
  /\ due' = due \ {hook}
  /\ pod' = IF Matches(hook, pod) THEN HandleMutate(pod) ELSE pod
  /\ UNCHANGED <<cluster, sent>>

Admitted == due = {}

\* Whoever copied the admitted pod creates it again, there or in another namespace,
\* which the copy names or leaves out; labels and mode may have changed since.
CreateAgain ==
  /\ Admitted
  /\ nsLevel' \in BOOLEAN /\ home' \in Namespaces /\ labelled' \in BOOLEAN
  /\ \E name \in {home', NoName} : pod' = [pod EXCEPT !.namespace = name]
  /\ sent' = pod' /\ due' = Hooks

\* A call that is not answered refuses the pod: it may be sent again, as it was.
RefusePod ==
  /\ ~Admitted
  /\ pod' = sent /\ due' = Hooks
  /\ UNCHANGED <<cluster, sent>>

WebhookNext == (\E hook \in Hooks : CallHook(hook)) \/ CreateAgain \/ RefusePod

WebhookSpec == WebhookInit /\ [][WebhookNext]_webhookVars

-----------------------------------------------------------------------------
(* Properties *)

\* A pod asks itself, or by its namespace in the namespace mode (values.yaml:46).
Asks == sent.inject = "true" \/ (nsLevel /\ labelled)

\* "already injected", "idempotent" (mutator.go:47-50): whatever the order of its
\* hooks, and however often it is refused or created again, an admitted pod has one
\* sidecar when it had one before or asks in a namespace that is not a system
\* namespace, and none otherwise.  Nothing is said of a pod that leaves its
\* namespace out in a system namespace: the guard does not see that it is in one.
InjectionIsExact ==
  Admitted /\ (home \in SystemNamespaces => sent.namespace = home)
    => Cardinality(SidecarsIn(pod.containers)) =
         IF Has(sent) \/ (Asks /\ home \notin SystemNamespaces) THEN 1 ELSE 0

-----------------------------------------------------------------------------
(* The inductive invariant *)

WebhookTypeOK ==
  /\ nsLevel \in BOOLEAN /\ labelled \in BOOLEAN
  /\ home \in Namespaces /\ due \subseteq Hooks
  /\ sent \in Pod(Seq(Names)) /\ sent.namespace \in {home, NoName}
  /\ Cardinality(SidecarsIn(sent.containers)) \in {0, 1}

\* The hooks called so far leave the pod as it was sent or injected once, and have
\* injected it when one of them matched and the object names no system namespace.
CallsSoFar ==
  pod = IF /\ ~Has(sent) /\ sent.namespace \notin SystemNamespaces
           /\ \E hook \in Hooks \ due : Matches(hook, sent)
          THEN Injected(sent) ELSE sent

WebhookInv == WebhookTypeOK /\ CallsSoFar
=============================================================================
