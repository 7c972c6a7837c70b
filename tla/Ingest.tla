------------------------------- MODULE Ingest -------------------------------
(***************************************************************************)
(* The life of an alert in the control plane (internal/controlplane/       *)
(* server.go over internal/store): requests that post alerts, requests     *)
(* that clear them, the goroutines that fetch AI diagnoses, the dashboards *)
(* that follow the event stream, and the crash and restart of the process, *)
(* which keeps the database and loses everything else.                     *)
(*                                                                         *)
(* A handler is a sequence of steps, each one database statement or one    *)
(* section under a mutex; between them any other actor may step (the       *)
(* database has one connection, so statements do not overlap).  What       *)
(* SseHub shows of a broadcast is used here as one step: every dashboard   *)
(* of the tenant that is live gets the alert, or the broadcaster panics    *)
(* and some of them do; a dashboard may be cut at any time.                *)
(***************************************************************************)
EXTENDS Naturals, Sequences, FiniteSets

CONSTANTS Posts,        \* POST /api/alerts requests
          Clears,       \* DELETE /api/alerts requests
          Dashboards,   \* GET /api/events requests
          Tenants,
          TenantOf,     \* tenant of the API key of each request
          Claimed,      \* tenant_id in the body of each post, or NoTenant
          Severity,     \* severity of each posted alert
          NoTenant,
          SavedLevels,  \* the levels that dashboards save: bound of the model
          MaxCrashes    \* bound of the model

Severities == {"info", "warn", "error"}
Levels == {"absent", "all", "warn", "error", "none"}

ASSUME IngestAssumption ==
  /\ NoTenant \notin Tenants
  /\ TenantOf \in [Posts \union Clears \union Dashboards -> Tenants]
  /\ Claimed \in [Posts -> Tenants \union {NoTenant}]
  /\ Severity \in [Posts -> Severities]
  /\ SavedLevels \subseteq Levels \ {"absent"}
  /\ MaxCrashes \in Nat

VARIABLES
  rows,     \* the alerts table: records [id, alert, tenant, diagnosis]
  lastId,   \* the table's AUTOINCREMENT sequence
  level,    \* settings.ai_trigger_level of each tenant, "absent" without a row
  topo,     \* s.topology: the posts each tenant's entry was updated from
  live,     \* dashboards that are registered with the hub
  inbox,    \* inbox[d]: alerts queued for dashboard d, as pointers
  seen,     \* seen[d]: what d was shown: <<post, diagnosed>>
  told,     \* alerts whose AIDiagnosis field is set in memory
  pc,       \* pc[p]: where handlePostAlert is for p
  idOf,     \* idOf[p]: alert.ID, 0 before the insert
  dpc,      \* dpc[p]: where the goroutine of triggerAI is for p
  cpc,      \* cpc[x]: where handleDeleteAlerts is for x
  cleared,  \* history: posts whose row a DELETE has removed
  up,       \* the process runs
  crashes

store    == <<rows, lastId, level>>
hub      == <<live, inbox, seen>>
requests == <<pc, idOf, dpc, cpc>>
vars == <<rows, lastId, level, topo, live, inbox, seen, told, pc, idOf, dpc,
          cpc, cleared, up, crashes>>

Running == {"checked", "stored", "mapped", "sent"}
Answered == {"refused", "failed", "accepted"}
PostStates == {"new", "aborted", "lost"} \union Running \union Answered
DiagStates == {"none", "asking", "answered", "saved", "ended"}

Init ==
  /\ rows = {} /\ lastId = 0
  /\ level = [t \in Tenants |-> "absent"]
  /\ topo = [t \in Tenants |-> {}]
  /\ live = {}
  /\ inbox = [d \in Dashboards |-> <<>>]
  /\ seen = [d \in Dashboards |-> <<>>]
  /\ told = {}
  /\ pc = [p \in Posts |-> "new"]
  /\ idOf = [p \in Posts |-> 0]
  /\ dpc = [p \in Posts |-> "none"]
  /\ cpc = [x \in Clears |-> "new"]
  /\ cleared = {}
  /\ up = TRUE
  /\ crashes = 0

\* alert.TenantID after the first lines of handlePostAlert.
AlertTenant(p) == IF Claimed[p] = NoTenant THEN TenantOf[p] ELSE Claimed[p]

Row(p, id) == [id |-> id, alert |-> p, tenant |-> AlertTenant(p), diagnosis |-> {}]

Listeners(p) == {d \in live : TenantOf[d] = AlertTenant(p)}

Queue(p, S) == [d \in Dashboards |-> IF d \in S THEN Append(inbox[d], p) ELSE inbox[d]]

-----------------------------------------------------------------------------
(* Mutants: forms of the actions below with a bug that the properties at the *)
(* end of the module are there to exclude.  No specification uses them.      *)

\* The tenant in the body is believed.
CheckTenantTrusts(p) ==
  /\ up /\ pc[p] = "new"
  /\ pc' = [pc EXCEPT ![p] = "checked"]
  /\ UNCHANGED <<store, hub, topo, told, idOf, dpc, cpc, cleared, up, crashes>>

\* A rowid without AUTOINCREMENT: the largest in the table plus one.
InsertReusesIds(p) ==
  /\ up /\ pc[p] = "checked"
  /\ LET id == 1 + Cardinality(rows) IN
       /\ rows' = rows \union {Row(p, id)}
       /\ idOf' = [idOf EXCEPT ![p] = id]
  /\ pc' = [pc EXCEPT ![p] = "stored"]
  /\ UNCHANGED <<lastId, level, hub, topo, told, dpc, cpc, cleared, up, crashes>>

\* The error of the insert is only logged.
InsertFailsGoesOn(p) ==
  /\ up /\ pc[p] = "checked"
  /\ pc' = [pc EXCEPT ![p] = "stored"]
  /\ UNCHANGED <<store, hub, topo, told, idOf, dpc, cpc, cleared, up, crashes>>

\* The broadcast is made again when the settings cannot be read.
TriggerRetries(p) ==
  /\ up /\ pc[p] = "sent"
  /\ pc' = [pc EXCEPT ![p] = "mapped"]
  /\ UNCHANGED <<store, hub, topo, told, idOf, dpc, cpc, cleared, up, crashes>>

\* The diagnosis is broadcast although it could not be saved.
UpdateFailsGoesOn(p) ==
  /\ up /\ dpc[p] = "answered"
  /\ dpc' = [dpc EXCEPT ![p] = "saved"]
  /\ UNCHANGED <<store, hub, topo, told, pc, idOf, cpc, cleared, up, crashes>>

\* A diagnosis that could not be saved is asked for again, without end.
UpdateFailsAsksAgain(p) ==
  /\ up /\ dpc[p] = "answered"
  /\ dpc' = [dpc EXCEPT ![p] = "asking"]
  /\ UNCHANGED <<store, hub, topo, told, pc, idOf, cpc, cleared, up, crashes>>

-----------------------------------------------------------------------------
(* handlePostAlert *)

\* A probe speaks for the tenant of its key, whatever the body leaves out.
CheckTenant(p) ==
  /\ up /\ pc[p] = "new"
  /\ pc' = [pc EXCEPT ![p] =
              IF Claimed[p] \in {NoTenant, TenantOf[p]} THEN "checked" ELSE "refused"]
  /\ UNCHANGED <<store, hub, topo, told, idOf, dpc, cpc, cleared, up, crashes>>

InsertAlert(p) ==
  /\ up /\ pc[p] = "checked"
  /\ lastId' = lastId + 1
  /\ rows' = rows \union {Row(p, lastId + 1)}
  /\ idOf' = [idOf EXCEPT ![p] = lastId + 1]
  /\ pc' = [pc EXCEPT ![p] = "stored"]
  /\ UNCHANGED <<level, hub, topo, told, dpc, cpc, cleared, up, crashes>>

\* The database fails, or the probe hung up (the statement runs under the
\* request's context): 500.
InsertFails(p) ==
  /\ up /\ pc[p] = "checked"
  /\ pc' = [pc EXCEPT ![p] = "failed"]
  /\ UNCHANGED <<store, hub, topo, told, idOf, dpc, cpc, cleared, up, crashes>>

\* updateTopologyFromAlert, under topoMu.
UpdateTopology(p) ==
  /\ up /\ pc[p] = "stored"
  /\ topo' = [topo EXCEPT ![AlertTenant(p)] = @ \union {p}]
  /\ pc' = [pc EXCEPT ![p] = "mapped"]
  /\ UNCHANGED <<store, hub, told, idOf, dpc, cpc, cleared, up, crashes>>

Broadcast(p) ==
  /\ up /\ pc[p] = "mapped"
  /\ inbox' = Queue(p, Listeners(p))
  /\ pc' = [pc EXCEPT ![p] = "sent"]
  /\ UNCHANGED <<store, live, seen, topo, told, idOf, dpc, cpc, cleared, up, crashes>>

\* broadcastAlert panics in the request's goroutine (SseHub): the connection is
\* closed without an answer, and triggerAI is not reached.
BroadcastPanics(p) ==
  /\ up /\ pc[p] = "mapped"
  /\ \E S \in SUBSET Listeners(p) : inbox' = Queue(p, S)
  /\ pc' = [pc EXCEPT ![p] = "aborted"]
  /\ UNCHANGED <<store, live, seen, topo, told, idOf, dpc, cpc, cleared, up, crashes>>

\* The switch of triggerAI ("all" stands for "info" too, "none" for any other
\* value); without a row GetSettings answers "error".
Triggers(l, s) == \/ l = "all"
                  \/ l = "warn" /\ s \in {"warn", "error"}
                  \/ l \in {"error", "absent"} /\ s = "error"

TriggerAI(p) ==
  /\ up /\ pc[p] = "sent"
  /\ dpc' = [dpc EXCEPT ![p] =
               IF Triggers(level[AlertTenant(p)], Severity[p]) THEN "asking" ELSE "ended"]
  /\ pc' = [pc EXCEPT ![p] = "accepted"]
  /\ UNCHANGED <<store, hub, topo, told, idOf, cpc, cleared, up, crashes>>

\* GetSettings fails (the row does not scan, or the probe hung up): no diagnosis,
\* and the post is accepted all the same.
TriggerSkipped(p) ==
  /\ up /\ pc[p] = "sent"
  /\ dpc' = [dpc EXCEPT ![p] = "ended"]
  /\ pc' = [pc EXCEPT ![p] = "accepted"]
  /\ UNCHANGED <<store, hub, topo, told, idOf, cpc, cleared, up, crashes>>

-----------------------------------------------------------------------------
(* The goroutine of triggerAI *)

\* aiAgent.Diagnose answers, or gives up after its timeouts and fallbacks.
Diagnose(p) ==
  /\ up /\ dpc[p] = "asking"
  /\ \E next \in {"answered", "ended"} : dpc' = [dpc EXCEPT ![p] = next]
  /\ UNCHANGED <<store, hub, topo, told, pc, idOf, cpc, cleared, up, crashes>>

\* UPDATE alerts ... WHERE tenant_id = ? AND id = ?: no row is no error.
UpdateAlertDiagnosis(p) ==
  /\ up /\ dpc[p] = "answered"
  /\ rows' = {IF r.tenant = AlertTenant(p) /\ r.id = idOf[p]
                THEN [r EXCEPT !.diagnosis = {p}] ELSE r : r \in rows}
  /\ dpc' = [dpc EXCEPT ![p] = "saved"]
  /\ UNCHANGED <<lastId, level, hub, topo, told, pc, idOf, cpc, cleared, up, crashes>>

UpdateFails(p) ==
  /\ up /\ dpc[p] = "answered"
  /\ dpc' = [dpc EXCEPT ![p] = "ended"]
  /\ UNCHANGED <<store, hub, topo, told, pc, idOf, cpc, cleared, up, crashes>>

\* alert.AIDiagnosis = diagnosis; broadcastAlert(alert).  A queued pointer to the
\* alert shows the diagnosis too.
Rebroadcast(p) ==
  /\ up /\ dpc[p] = "saved"
  /\ told' = told \union {p}
  /\ inbox' = Queue(p, Listeners(p))
  /\ dpc' = [dpc EXCEPT ![p] = "ended"]
  /\ UNCHANGED <<store, live, seen, topo, pc, idOf, cpc, cleared, up, crashes>>

-----------------------------------------------------------------------------
(* handleDeleteAlerts, handleTopologyClear, handleSettings *)

DeleteAllAlerts(x) ==
  /\ up /\ cpc[x] = "new"
  /\ rows' = {r \in rows : r.tenant # TenantOf[x]}
  /\ cleared' = cleared \union {r.alert : r \in rows \ rows'}
  /\ cpc' = [cpc EXCEPT ![x] = "deleted"]
  /\ UNCHANGED <<lastId, level, hub, topo, told, pc, idOf, dpc, up, crashes>>

\* The failure is logged; the handler goes on and answers 200.
DeleteFails(x) ==
  /\ up /\ cpc[x] = "new"
  /\ cpc' = [cpc EXCEPT ![x] = "deleted"]
  /\ UNCHANGED <<store, hub, topo, told, pc, idOf, dpc, cleared, up, crashes>>

ClearCache(x) ==
  /\ up /\ cpc[x] = "deleted"
  /\ topo' = [topo EXCEPT ![TenantOf[x]] = {}]
  /\ cpc' = [cpc EXCEPT ![x] = "done"]
  /\ UNCHANGED <<store, hub, told, pc, idOf, dpc, cleared, up, crashes>>

TopologyClear(t) ==
  /\ up
  /\ topo' = [topo EXCEPT ![t] = {}]
  /\ UNCHANGED <<store, hub, told, requests, cleared, up, crashes>>

UpsertSettings(t) ==
  /\ up
  /\ \E l \in SavedLevels : level' = [level EXCEPT ![t] = l]
  /\ UNCHANGED <<rows, lastId, hub, topo, told, requests, cleared, up, crashes>>

-----------------------------------------------------------------------------
(* Dashboards, and the process *)

\* A dashboard's EventSource connects, and reconnects after a cut.
Subscribe(d) ==
  /\ up /\ d \notin live
  /\ live' = live \union {d}
  /\ UNCHANGED <<store, inbox, seen, topo, told, requests, cleared, up, crashes>>

\* The dashboard left, or was dropped as slow.
Cut(d) ==
  /\ up /\ d \in live
  /\ live' = live \ {d}
  /\ inbox' = [inbox EXCEPT ![d] = <<>>]
  /\ UNCHANGED <<store, seen, topo, told, requests, cleared, up, crashes>>

\* The alert behind the pointer is marshalled when it is taken from the channel.
Show(d) ==
  /\ up /\ d \in live /\ inbox[d] # <<>>
  /\ seen' = [seen EXCEPT ![d] = Append(@, <<Head(inbox[d]), Head(inbox[d]) \in told>>)]
  /\ inbox' = [inbox EXCEPT ![d] = Tail(@)]
  /\ UNCHANGED <<store, live, topo, told, requests, cleared, up, crashes>>

\* The process ends (a crash, or a signal: main does not drain anything).
Crash ==
  /\ up /\ crashes < MaxCrashes
  /\ up' = FALSE
  /\ crashes' = crashes + 1
  /\ topo' = [t \in Tenants |-> {}]
  /\ live' = {}
  /\ inbox' = [d \in Dashboards |-> <<>>]
  /\ pc' = [p \in Posts |-> IF pc[p] \in Running THEN "lost" ELSE pc[p]]
  /\ dpc' = [p \in Posts |-> IF dpc[p] = "none" THEN "none" ELSE "ended"]
  /\ cpc' = [x \in Clears |-> IF cpc[x] = "deleted" THEN "lost" ELSE cpc[x]]
  /\ UNCHANGED <<store, seen, told, idOf, cleared>>

\* main and NewServer: the database is reopened, the maps start empty.
Restart ==
  /\ ~up
  /\ up' = TRUE
  /\ UNCHANGED <<store, hub, topo, told, requests, cleared, crashes>>

-----------------------------------------------------------------------------
PostStep(p) == \/ CheckTenant(p) \/ InsertAlert(p) \/ InsertFails(p)
               \/ UpdateTopology(p) \/ Broadcast(p) \/ BroadcastPanics(p)
               \/ TriggerAI(p) \/ TriggerSkipped(p)

DiagStep(p) == \/ Diagnose(p) \/ UpdateAlertDiagnosis(p) \/ UpdateFails(p)
               \/ Rebroadcast(p)

ClearStep(x) == DeleteAllAlerts(x) \/ DeleteFails(x) \/ ClearCache(x)

Next == \/ \E p \in Posts : PostStep(p) \/ DiagStep(p)
        \/ \E x \in Clears : ClearStep(x)
        \/ \E t \in Tenants : TopologyClear(t) \/ UpsertSettings(t)
        \/ \E d \in Dashboards : Subscribe(d) \/ Cut(d) \/ Show(d)
        \/ Crash \/ Restart

\* Statements and mutex sections end, and the AI calls have timeouts.  Nothing is
\* assumed of probes before they post, of dashboards or of the operator.
Fairness ==
  /\ \A p \in Posts : WF_vars(PostStep(p) /\ pc[p] # "new") /\ WF_vars(DiagStep(p))
  /\ \A x \in Clears : WF_vars(ClearCache(x))

Spec == Init /\ [][Next]_vars
FairSpec == Spec /\ Fairness
-----------------------------------------------------------------------------
(* Properties *)

TypeOK ==
  /\ rows \subseteq [id : 1 .. lastId, alert : Posts, tenant : Tenants,
                    diagnosis : SUBSET Posts]
  /\ lastId \in Nat
  /\ level \in [Tenants -> Levels]
  /\ topo \in [Tenants -> SUBSET Posts]
  /\ live \in SUBSET Dashboards
  /\ inbox \in [Dashboards -> Seq(Posts)]
  /\ seen \in [Dashboards -> Seq(Posts \X BOOLEAN)]
  /\ told \in SUBSET Posts
  /\ pc \in [Posts -> PostStates]
  /\ idOf \in [Posts -> 0 .. lastId]
  /\ dpc \in [Posts -> DiagStates]
  /\ cpc \in [Clears -> {"new", "deleted", "done", "lost"}]
  /\ cleared \in SUBSET Posts
  /\ up \in BOOLEAN
  /\ crashes \in 0 .. MaxCrashes

Stored(p) == {r \in rows : r.alert = p}

\* Ids name alerts: a diagnosis that arrives late, after the alert was deleted
\* and others were inserted, never lands on another alert's row.
DiagnosisOnOwnRow == \A r \in rows : r.diagnosis \subseteq {r.alert}

\* An alert answered with 202 is in the database, over every crash and whatever
\* the AI does, until a DELETE removes it.
AcceptedDurable ==
  \A p \in Posts : pc[p] = "accepted" => Stored(p) # {} \/ p \in cleared

\* What a dashboard was shown it can find in the history: the alert is stored,
\* with its diagnosis if it was shown with one, unless a DELETE removed it.
ShownIsDurable ==
  \A d \in Dashboards : \A i \in DOMAIN seen[d] :
     LET p == seen[d][i][1] IN
       \/ p \in cleared
       \/ \E r \in Stored(p) : seen[d][i][2] => r.diagnosis # {}

\* Nothing a probe posts reaches the rows, the topology or the dashboards of a
\* tenant other than its key's.
TenantWalls ==
  /\ \A r \in rows : r.tenant = TenantOf[r.alert]
  /\ \A t \in Tenants : \A p \in topo[t] : TenantOf[p] = t
  /\ \A d \in Dashboards :
       /\ \A i \in DOMAIN inbox[d] : TenantOf[inbox[d][i]] = TenantOf[d]
       /\ \A i \in DOMAIN seen[d] : TenantOf[seen[d][i][1]] = TenantOf[d]

\* A post the control plane has begun to handle is answered, or its connection
\* ends with the panic or the process.
PostEnds ==
  \A p \in Posts : pc[p] = "checked" ~> pc[p] \in Answered \union {"aborted", "lost"}

\* A diagnosis that was asked for is shown or given up.
DiagnosisEnds == \A p \in Posts : dpc[p] = "asking" ~> dpc[p] = "ended"

-----------------------------------------------------------------------------
(* The inductive invariant *)

\* An alert is stored until a DELETE removes it; so is its diagnosis.
Kept(p) == Stored(p) # {} \/ p \in cleared

DiagnosisKept(p) == p \in cleared \/ \E r \in Stored(p) : r.diagnosis # {}

\* An id names one alert, of which the row has the id and the tenant.
RowsNamed ==
  \A r \in rows : /\ r.id = idOf[r.alert]
                  /\ r.tenant = AlertTenant(r.alert)
                  /\ r.diagnosis \subseteq {r.alert}

IdsDistinct == \A p, q \in Posts : idOf[p] = idOf[q] => idOf[p] = 0 \/ p = q

\* What the handler of a post and its goroutine have behind them.
PostShape ==
  \A p \in Posts :
    /\ pc[p] \in {"new", "checked"} => idOf[p] = 0
    /\ pc[p] \notin {"new", "refused"} => AlertTenant(p) = TenantOf[p]
    /\ pc[p] \in {"stored", "mapped", "sent", "accepted"} => Kept(p)
    /\ dpc[p] # "none" => pc[p] = "accepted"
    /\ dpc[p] = "saved" => DiagnosisKept(p)

\* Nothing is on its way to a dashboard that the database has not had.
QueuedKept ==
  /\ \A d \in Dashboards : \A i \in DOMAIN inbox[d] : Kept(inbox[d][i])
  /\ \A p \in told : DiagnosisKept(p)

IngestInv == /\ TypeOK /\ RowsNamed /\ IdsDistinct /\ PostShape
             /\ QueuedKept /\ ShownIsDurable /\ TenantWalls

-----------------------------------------------------------------------------
(* What the repository says of the program, and the code does not do *)

Idle(t) == \A x \in Clears : TenantOf[x] = t => cpc[x] # "deleted"

\* "Clear all alert history and topology? This cannot be undone." (App.tsx:376):
\* an alert that was cleared is not sent to a dashboard again.
ClearedStaysCleared ==
  [][\A p \in cleared, d \in Dashboards :
       Idle(AlertTenant(p)) /\ Rebroadcast(p) => inbox'[d] = inbox[d]]_vars
=============================================================================
