---------------------------- MODULE IngestProofs ----------------------------
(***************************************************************************)
(* Proofs about Ingest, for any number of posts, clears, dashboards and    *)
(* tenants and any number of crashes: the invariant IngestInv is           *)
(* inductive.  With it an id names one alert, what was accepted or shown   *)
(* is stored until it is deleted, and tenants do not see each other.       *)
(***************************************************************************)
EXTENDS Ingest, TLAPS

-----------------------------------------------------------------------------
(* Facts about the operators *)

LEMMA AlertTenantType == \A p \in Posts : AlertTenant(p) \in Tenants
BY IngestAssumption DEF AlertTenant

LEMMA ListenersType == \A p : Listeners(p) \subseteq live
BY DEF Listeners

\* A broadcast puts the alert behind what is queued, for those it is sent to.
LEMMA QueueAppends ==
  ASSUME inbox \in [Dashboards -> Seq(Posts)], NEW p \in Posts, NEW S
  PROVE  /\ Queue(p, S) \in [Dashboards -> Seq(Posts)]
         /\ \A d \in Dashboards : \A i \in DOMAIN Queue(p, S)[d] :
              \/ d \in S /\ Queue(p, S)[d][i] = p
              \/ i \in DOMAIN inbox[d] /\ Queue(p, S)[d][i] = inbox[d][i]
<1>1. ASSUME NEW d \in Dashboards
      PROVE  /\ Queue(p, S)[d] \in Seq(Posts)
             /\ \A i \in DOMAIN Queue(p, S)[d] :
                  \/ d \in S /\ Queue(p, S)[d][i] = p
                  \/ i \in DOMAIN inbox[d] /\ Queue(p, S)[d][i] = inbox[d][i]
  <2>1. inbox[d] \in Seq(Posts)
    OBVIOUS
  <2>2. CASE d \in S
    <3>1. Queue(p, S)[d] = Append(inbox[d], p)
      BY <2>2 DEF Queue
    <3> QED
      BY <2>1, <2>2, <3>1
  <2>3. CASE d \notin S
    BY <2>1, <2>3 DEF Queue
  <2> QED
    BY <2>2, <2>3
<1>2. Queue(p, S) = [d \in Dashboards |-> Queue(p, S)[d]]
  BY DEF Queue
<1> QED
  BY <1>1, <1>2

\* Showing an alert takes it off the queue and puts it behind what was seen.
LEMMA ShowMoves ==
  ASSUME TypeOK, NEW d \in Dashboards, inbox[d] # <<>>,
         NEW s, s = <<Head(inbox[d]), Head(inbox[d]) \in told>>
  PROVE  /\ Tail(inbox[d]) \in Seq(Posts)
         /\ \A i \in DOMAIN Tail(inbox[d]) :
              i + 1 \in DOMAIN inbox[d] /\ Tail(inbox[d])[i] = inbox[d][i + 1]
         /\ 1 \in DOMAIN inbox[d] /\ Head(inbox[d]) = inbox[d][1]
         /\ Head(inbox[d]) \in Posts
         /\ Append(seen[d], s) \in Seq(Posts \X BOOLEAN)
         /\ \A i \in DOMAIN Append(seen[d], s) :
              \/ Append(seen[d], s)[i] = s
              \/ i \in DOMAIN seen[d] /\ Append(seen[d], s)[i] = seen[d][i]
<1>1. inbox[d] \in Seq(Posts) /\ seen[d] \in Seq(Posts \X BOOLEAN)
  BY DEF TypeOK
<1>2. Head(inbox[d]) \in Posts
  BY <1>1
<1>3. s \in Posts \X BOOLEAN
  <2>1. (Head(inbox[d]) \in told) \in BOOLEAN
    OBVIOUS
  <2> QED
    BY <1>2, <2>1
<1> QED
  BY <1>1, <1>2, <1>3

\* A diagnosis is put into a row and changes nothing else of it.
LEMMA DiagnosedRow ==
  ASSUME NEW I, NEW r \in [id : I, alert : Posts, tenant : Tenants,
                          diagnosis : SUBSET Posts], NEW p \in Posts
  PROVE  LET q == [r EXCEPT !.diagnosis = {p}] IN
           /\ q \in [id : I, alert : Posts, tenant : Tenants, diagnosis : SUBSET Posts]
           /\ q.id = r.id /\ q.alert = r.alert /\ q.tenant = r.tenant
           /\ q.diagnosis = {p}
OBVIOUS

\* The UPDATE of a diagnosis keeps every row, and touches those of one id.
LEMMA UpdatedRows ==
  ASSUME TypeOK, NEW p \in Posts, UpdateAlertDiagnosis(p)
  PROVE  /\ rows' \subseteq [id : 1 .. lastId, alert : Posts, tenant : Tenants,
                            diagnosis : SUBSET Posts]
         /\ \A q \in rows' : \E r \in rows :
              /\ q.id = r.id /\ q.alert = r.alert /\ q.tenant = r.tenant
              /\ q.diagnosis = r.diagnosis \/ (r.id = idOf[p] /\ q.diagnosis = {p})
         /\ \A r \in rows : \E q \in rows' :
              /\ q.alert = r.alert
              /\ r.diagnosis # {} => q.diagnosis # {}
              /\ r.tenant = AlertTenant(p) /\ r.id = idOf[p] => q.diagnosis = {p}
<1> DEFINE R == [id : 1 .. lastId, alert : Posts, tenant : Tenants, diagnosis : SUBSET Posts]
           D(r) == [r EXCEPT !.diagnosis = {p}]
           Hit(r) == r.tenant = AlertTenant(p) /\ r.id = idOf[p]
           new == {IF Hit(r) THEN D(r) ELSE r : r \in rows}
<1>1. rows \subseteq R
  BY DEF TypeOK
<1>2. rows' = new
  BY DEF UpdateAlertDiagnosis
<1>3. ASSUME NEW r \in rows
      PROVE  /\ D(r) \in R /\ D(r).id = r.id /\ D(r).alert = r.alert
             /\ D(r).tenant = r.tenant /\ D(r).diagnosis = {p}
  BY <1>1, DiagnosedRow
<1> HIDE DEF D, R
<1>4. ASSUME NEW q \in new
      PROVE  /\ q \in R
             /\ \E r \in rows :
                  /\ q.id = r.id /\ q.alert = r.alert /\ q.tenant = r.tenant
                  /\ q.diagnosis = r.diagnosis \/ (r.id = idOf[p] /\ q.diagnosis = {p})
  <2>1. PICK r \in rows : q = IF Hit(r) THEN D(r) ELSE r
    OBVIOUS
  <2>2. CASE Hit(r)
    BY <1>3, <2>1, <2>2
  <2>3. CASE ~Hit(r)
    BY <1>1, <2>1, <2>3
  <2> QED
    BY <2>2, <2>3
<1>5. ASSUME NEW r \in rows
      PROVE  \E q \in new : /\ q.alert = r.alert
                            /\ r.diagnosis # {} => q.diagnosis # {}
                            /\ Hit(r) => q.diagnosis = {p}
  <2>1. (IF Hit(r) THEN D(r) ELSE r) \in new
    OBVIOUS
  <2>2. CASE Hit(r)
    BY <1>3, <2>1, <2>2
  <2>3. CASE ~Hit(r)
    BY <2>1, <2>3
  <2> QED
    BY <2>2, <2>3
<1> HIDE DEF new
<1>6. rows' \subseteq R
  BY <1>2, <1>4
<1> QED
  BY <1>2, <1>4, <1>5, <1>6 DEF R

-----------------------------------------------------------------------------
(* Types *)

LEMMA TypeInit == Init => TypeOK
BY IngestAssumption DEF Init, TypeOK, Levels, PostStates, DiagStates

LEMMA TypePost ==
  ASSUME TypeOK, NEW p \in Posts, PostStep(p) PROVE TypeOK'
<1> USE IngestAssumption DEF TypeOK, store, hub, PostStates, Running, Answered, DiagStates
<1>1. CASE CheckTenant(p)
  BY <1>1 DEF CheckTenant
<1>2. CASE InsertAlert(p)
  <2>1. Row(p, lastId + 1) = [id |-> lastId + 1, alert |-> p, tenant |-> AlertTenant(p),
                             diagnosis |-> {}]
    BY DEF Row
  <2>2. rows' \subseteq [id : 1 .. lastId', alert : Posts, tenant : Tenants,
                        diagnosis : SUBSET Posts]
    BY <1>2, <2>1, AlertTenantType DEF InsertAlert
  <2>3. idOf' \in [Posts -> 0 .. lastId'] /\ lastId' \in Nat
    BY <1>2 DEF InsertAlert
  <2> QED
    BY <1>2, <2>2, <2>3 DEF InsertAlert
<1>3. CASE InsertFails(p)
  BY <1>3 DEF InsertFails
<1>4. CASE UpdateTopology(p)
  BY <1>4, AlertTenantType DEF UpdateTopology
<1>5. CASE Broadcast(p)
  BY <1>5, QueueAppends DEF Broadcast
<1>6. CASE BroadcastPanics(p)
  BY <1>6, QueueAppends DEF BroadcastPanics
<1>7. CASE TriggerAI(p)
  BY <1>7 DEF TriggerAI
<1>8. CASE TriggerSkipped(p)
  BY <1>8 DEF TriggerSkipped
<1> QED
  BY <1>1, <1>2, <1>3, <1>4, <1>5, <1>6, <1>7, <1>8 DEF PostStep

LEMMA TypeDiag ==
  ASSUME TypeOK, NEW p \in Posts, DiagStep(p) PROVE TypeOK'
<1> USE IngestAssumption DEF TypeOK, store, hub, DiagStates
<1>1. CASE Diagnose(p)
  BY <1>1 DEF Diagnose
<1>2. CASE UpdateAlertDiagnosis(p)
  <2>1. rows' \subseteq [id : 1 .. lastId, alert : Posts, tenant : Tenants,
                        diagnosis : SUBSET Posts]
    BY <1>2, UpdatedRows
  <2> QED
    BY <1>2, <2>1 DEF UpdateAlertDiagnosis
<1>3. CASE UpdateFails(p)
  BY <1>3 DEF UpdateFails
<1>4. CASE Rebroadcast(p)
  BY <1>4, QueueAppends DEF Rebroadcast
<1> QED
  BY <1>1, <1>2, <1>3, <1>4 DEF DiagStep

LEMMA TypeClear ==
  ASSUME TypeOK, NEW x \in Clears, ClearStep(x) PROVE TypeOK'
<1> USE IngestAssumption DEF TypeOK, store, hub
<1>1. CASE DeleteAllAlerts(x)
  BY <1>1 DEF DeleteAllAlerts
<1>2. CASE DeleteFails(x)
  BY <1>2 DEF DeleteFails
<1>3. CASE ClearCache(x)
  BY <1>3 DEF ClearCache
<1> QED
  BY <1>1, <1>2, <1>3 DEF ClearStep

LEMMA TypeDashboard ==
  ASSUME TypeOK, NEW d \in Dashboards, Subscribe(d) \/ Cut(d) \/ Show(d) PROVE TypeOK'
<1> USE IngestAssumption DEF TypeOK, store, requests
<1>1. CASE Subscribe(d)
  BY <1>1 DEF Subscribe
<1>2. CASE Cut(d)
  <2>1. inbox' \in [Dashboards -> Seq(Posts)]
    BY <1>2 DEF Cut
  <2> QED
    BY <1>2, <2>1 DEF Cut
<1>3. CASE Show(d)
  <2>1. inbox' \in [Dashboards -> Seq(Posts)] /\ seen' \in [Dashboards -> Seq(Posts \X BOOLEAN)]
    BY <1>3, ShowMoves DEF Show
  <2> QED
    BY <1>3, <2>1 DEF Show
<1> QED
  BY <1>1, <1>2, <1>3

LEMMA TypeStep == TypeOK /\ [Next]_vars => TypeOK'
<1> SUFFICES ASSUME TypeOK, [Next]_vars PROVE TypeOK'
  OBVIOUS
<1>1. CASE \E p \in Posts : PostStep(p) \/ DiagStep(p)
  BY <1>1, TypePost, TypeDiag
<1>2. CASE \E x \in Clears : ClearStep(x)
  BY <1>2, TypeClear
<1>3. CASE \E t \in Tenants : TopologyClear(t) \/ UpsertSettings(t)
  BY <1>3, IngestAssumption
     DEF TypeOK, TopologyClear, UpsertSettings, store, hub, requests
<1>4. CASE \E d \in Dashboards : Subscribe(d) \/ Cut(d) \/ Show(d)
  BY <1>4, TypeDashboard
<1>5. CASE Crash
  <2>1. topo' \in [Tenants -> SUBSET Posts] /\ inbox' \in [Dashboards -> Seq(Posts)]
        /\ live' \in SUBSET Dashboards /\ crashes' \in 0 .. MaxCrashes
    BY <1>5, IngestAssumption DEF Crash, TypeOK
  <2>2. pc' \in [Posts -> PostStates] /\ dpc' \in [Posts -> DiagStates]
        /\ cpc' \in [Clears -> {"new", "deleted", "done", "lost"}]
    BY <1>5 DEF Crash, TypeOK, PostStates, DiagStates
  <2> QED
    BY <1>5, <2>1, <2>2 DEF Crash, TypeOK, store
<1>6. CASE Restart
  BY <1>6 DEF TypeOK, Restart, store, hub, requests
<1>7. CASE UNCHANGED vars
  BY <1>7 DEF TypeOK, vars
<1> QED
  BY <1>1, <1>2, <1>3, <1>4, <1>5, <1>6, <1>7 DEF Next

-----------------------------------------------------------------------------
(* The alerts table *)

\* The steps that change the table.
LEMMA TableSteps ==
  ASSUME [Next]_vars
  PROVE  \/ UNCHANGED <<rows, lastId, idOf, cleared>>
         \/ \E p \in Posts : InsertAlert(p) \/ UpdateAlertDiagnosis(p)
         \/ \E x \in Clears : DeleteAllAlerts(x)
<1> USE DEF store, hub, requests
<1>1. ASSUME NEW p \in Posts, PostStep(p)
      PROVE  InsertAlert(p) \/ UNCHANGED <<rows, lastId, idOf, cleared>>
  BY <1>1 DEF PostStep, CheckTenant, InsertFails, UpdateTopology, Broadcast,
              BroadcastPanics, TriggerAI, TriggerSkipped
<1>2. ASSUME NEW p \in Posts, DiagStep(p)
      PROVE  UpdateAlertDiagnosis(p) \/ UNCHANGED <<rows, lastId, idOf, cleared>>
  BY <1>2 DEF DiagStep, Diagnose, UpdateFails, Rebroadcast
<1>3. ASSUME NEW x \in Clears, ClearStep(x)
      PROVE  DeleteAllAlerts(x) \/ UNCHANGED <<rows, lastId, idOf, cleared>>
  BY <1>3 DEF ClearStep, DeleteFails, ClearCache
<1>4. ASSUME NEW t \in Tenants, TopologyClear(t) \/ UpsertSettings(t)
      PROVE  UNCHANGED <<rows, lastId, idOf, cleared>>
  BY <1>4 DEF TopologyClear, UpsertSettings
<1>5. ASSUME NEW d \in Dashboards, Subscribe(d) \/ Cut(d) \/ Show(d)
      PROVE  UNCHANGED <<rows, lastId, idOf, cleared>>
  BY <1>5 DEF Subscribe, Cut, Show
<1>6. ASSUME Crash \/ Restart \/ UNCHANGED vars
      PROVE  UNCHANGED <<rows, lastId, idOf, cleared>>
  BY <1>6 DEF Crash, Restart, vars
<1> QED
  BY <1>1, <1>2, <1>3, <1>4, <1>5, <1>6 DEF Next

\* No step takes an alert, or its diagnosis, out of the database but a DELETE.
LEMMA KeptStays ==
  ASSUME IngestInv, [Next]_vars
  PROVE  /\ \A p \in Posts : Kept(p) => Kept(p)'
         /\ \A p \in Posts : DiagnosisKept(p) => DiagnosisKept(p)'
<1>1. /\ cleared \subseteq cleared'
      /\ \A r \in rows : \/ r.alert \in cleared'
                        \/ \E q \in rows' : /\ q.alert = r.alert
                                            /\ r.diagnosis # {} => q.diagnosis # {}
  <2>1. CASE UNCHANGED <<rows, lastId, idOf, cleared>>
    BY <2>1
  <2>2. CASE \E p \in Posts : InsertAlert(p)
    BY <2>2 DEF InsertAlert
  <2>3. CASE \E p \in Posts : UpdateAlertDiagnosis(p)
    BY <2>3, UpdatedRows, ZenonT(60) DEF IngestInv, UpdateAlertDiagnosis
  <2>4. CASE \E x \in Clears : DeleteAllAlerts(x)
    BY <2>4 DEF DeleteAllAlerts
  <2> QED
    BY <2>1, <2>2, <2>3, <2>4, TableSteps
<1> QED
  BY <1>1 DEF Kept, DiagnosisKept, Stored

\* The rows keep their names and the names stay distinct: a new id is larger than all
\* that were given out, and a diagnosis goes to the row of its id.
LEMMA RowsKeepNames ==
  ASSUME IngestInv, [Next]_vars PROVE RowsNamed' /\ IdsDistinct'
<1>1. TypeOK /\ RowsNamed /\ IdsDistinct /\ PostShape
  BY DEF IngestInv
<1>2. CASE UNCHANGED <<rows, lastId, idOf, cleared>>
  BY <1>1, <1>2 DEF RowsNamed, IdsDistinct, AlertTenant
<1>3. ASSUME NEW p \in Posts, InsertAlert(p) PROVE RowsNamed' /\ IdsDistinct'
  <2>1. /\ idOf[p] = 0 /\ lastId \in Nat /\ idOf \in [Posts -> 0 .. lastId]
        /\ idOf' = [idOf EXCEPT ![p] = lastId + 1]
        /\ rows' = rows \union {Row(p, lastId + 1)}
    BY <1>1, <1>3 DEF InsertAlert, TypeOK, PostShape
  <2>2. \A r \in rows : r.id # 0 /\ r.alert \in Posts /\ r.id = idOf[r.alert]
    BY <1>1 DEF TypeOK, RowsNamed
  <2>3. \A r \in rows : r.id = idOf'[r.alert]
    BY <2>1, <2>2
  <2>4. RowsNamed'
    BY <1>1, <2>1, <2>3 DEF RowsNamed, Row, AlertTenant
  <2>5. IdsDistinct'
    BY <1>1, <2>1 DEF IdsDistinct
  <2> QED
    BY <2>4, <2>5
<1>4. ASSUME NEW p \in Posts, UpdateAlertDiagnosis(p) PROVE RowsNamed' /\ IdsDistinct'
  <2>1. idOf' = idOf
    BY <1>4 DEF UpdateAlertDiagnosis
  <2>2. ASSUME NEW q \in rows'
        PROVE  /\ q.id = idOf'[q.alert] /\ q.tenant = AlertTenant(q.alert)
               /\ q.diagnosis \subseteq {q.alert}
    <3>1. PICK r \in rows :
            /\ q.id = r.id /\ q.alert = r.alert /\ q.tenant = r.tenant
            /\ q.diagnosis = r.diagnosis \/ (r.id = idOf[p] /\ q.diagnosis = {p})
      BY <1>1, <1>4, UpdatedRows
    <3>2. /\ r.id = idOf[r.alert] /\ r.tenant = AlertTenant(r.alert) /\ r.alert \in Posts
          /\ r.diagnosis \subseteq {r.alert} /\ r.id # 0
      BY <1>1 DEF RowsNamed, TypeOK
    <3>3. r.id = idOf[p] => r.alert = p
      BY <1>1, <3>2 DEF IdsDistinct
    <3> QED
      BY <2>1, <3>1, <3>2, <3>3
  <2> QED
    BY <1>1, <2>1, <2>2 DEF RowsNamed, IdsDistinct, AlertTenant
<1>5. ASSUME NEW x \in Clears, DeleteAllAlerts(x) PROVE RowsNamed' /\ IdsDistinct'
  BY <1>1, <1>5 DEF DeleteAllAlerts, RowsNamed, IdsDistinct, AlertTenant
<1> QED
  BY <1>2, <1>3, <1>4, <1>5, TableSteps

-----------------------------------------------------------------------------
(* The handlers and the goroutines of triggerAI *)

\* A step of a post: where it goes, and what it has done by then.
LEMMA PostStepShape ==
  ASSUME IngestInv, NEW p \in Posts, PostStep(p)
  PROVE  /\ dpc' = dpc \/ (pc[p] = "sent" /\ \E d \in {"asking", "ended"} : dpc' = [dpc EXCEPT ![p] = d])
         /\ \E next \in PostStates :
              /\ pc' = [pc EXCEPT ![p] = next]
              /\ next \notin {"new"} /\ pc[p] \in {"new"} \union Running
              /\ next \in {"checked", "refused"} <=> pc[p] = "new"
              /\ next = "checked" => AlertTenant(p) = TenantOf[p]
              /\ next = "stored" => InsertAlert(p)
              /\ next \in {"mapped", "sent", "accepted"} => pc[p] \in {"stored", "mapped", "sent"}
              /\ next = "accepted" <=> pc[p] = "sent"
         /\ idOf' = idOf \/ InsertAlert(p)
<1> USE DEF PostStates, Running, Answered, store, hub, requests
<1>1. CASE CheckTenant(p)
  <2>1. Claimed[p] \in {NoTenant, TenantOf[p]} => AlertTenant(p) = TenantOf[p]
    BY DEF AlertTenant
  <2>2. CASE Claimed[p] \in {NoTenant, TenantOf[p]}
    <3>1. pc' = [pc EXCEPT ![p] = "checked"] /\ pc[p] = "new" /\ dpc' = dpc /\ idOf' = idOf
      BY <1>1, <2>2 DEF CheckTenant
    <3> QED
      BY <2>1, <2>2, <3>1
  <2>3. CASE Claimed[p] \notin {NoTenant, TenantOf[p]}
    <3>1. pc' = [pc EXCEPT ![p] = "refused"] /\ pc[p] = "new" /\ dpc' = dpc /\ idOf' = idOf
      BY <1>1, <2>3 DEF CheckTenant
    <3> QED
      BY <3>1
  <2> QED
    BY <2>2, <2>3
<1>2. CASE InsertAlert(p)
  BY <1>2 DEF InsertAlert
<1>3. CASE InsertFails(p)
  BY <1>3 DEF InsertFails
<1>4. CASE UpdateTopology(p)
  BY <1>4 DEF UpdateTopology
<1>5. CASE Broadcast(p)
  BY <1>5 DEF Broadcast
<1>6. CASE BroadcastPanics(p)
  BY <1>6 DEF BroadcastPanics
<1>7. CASE TriggerAI(p)
  BY <1>7 DEF TriggerAI
<1>8. CASE TriggerSkipped(p)
  BY <1>8 DEF TriggerSkipped
<1> QED
  BY <1>1, <1>2, <1>3, <1>4, <1>5, <1>6, <1>7, <1>8 DEF PostStep

\* A step of the goroutine of triggerAI.
LEMMA DiagStepShape ==
  ASSUME NEW p \in Posts, DiagStep(p)
  PROVE  /\ UNCHANGED <<pc, idOf>> /\ dpc[p] # "none"
         /\ \E next \in DiagStates : /\ dpc' = [dpc EXCEPT ![p] = next]
                                     /\ next = "saved" => UpdateAlertDiagnosis(p)
<1> USE DEF DiagStates
<1>1. CASE Diagnose(p)
  BY <1>1 DEF Diagnose
<1>2. CASE UpdateAlertDiagnosis(p)
  BY <1>2 DEF UpdateAlertDiagnosis
<1>3. CASE UpdateFails(p)
  BY <1>3 DEF UpdateFails
<1>4. CASE Rebroadcast(p)
  BY <1>4 DEF Rebroadcast
<1> QED
  BY <1>1, <1>2, <1>3, <1>4 DEF DiagStep

\* A diagnosis that was saved is kept: the alert has its row, unless it was deleted.
LEMMA SavedIsKept ==
  ASSUME IngestInv, NEW p \in Posts, UpdateAlertDiagnosis(p) PROVE DiagnosisKept(p)'
<1>1. Kept(p) /\ cleared' = cleared
  BY DEF IngestInv, PostShape, UpdateAlertDiagnosis
<1>2. CASE p \in cleared
  BY <1>1, <1>2 DEF DiagnosisKept
<1>3. CASE p \notin cleared
  <2>1. PICK r \in rows : r.alert = p
    BY <1>1, <1>3 DEF Kept, Stored
  <2>2. r.id = idOf[p] /\ r.tenant = AlertTenant(p)
    BY <2>1 DEF IngestInv, RowsNamed
  <2>3. \A o \in rows : \E q \in rows' :
          q.alert = o.alert /\ (o.tenant = AlertTenant(p) /\ o.id = idOf[p] => q.diagnosis = {p})
    <3>1. TypeOK
      BY DEF IngestInv
    <3> QED
      BY <3>1, UpdatedRows
  <2>4. \E q \in rows' : q.alert = p /\ q.diagnosis = {p}
    BY <2>1, <2>2, <2>3
  <2> QED
    BY <2>4 DEF DiagnosisKept, Stored
<1> QED
  BY <1>2, <1>3

LEMMA InsertedIsKept ==
  ASSUME NEW p \in Posts, InsertAlert(p) PROVE Kept(p)'
<1>1. Row(p, lastId + 1).alert = p
  BY DEF Row
<1>2. Row(p, lastId + 1) \in rows'
  BY DEF InsertAlert
<1> QED
  BY <1>1, <1>2 DEF Kept, Stored

LEMMA PostsKeepShape ==
  ASSUME IngestInv, [Next]_vars PROVE PostShape'
<1>1. TypeOK /\ PostShape /\ TypeOK'
  BY TypeStep DEF IngestInv
<1>2. \A p \in Posts : /\ Kept(p) => Kept(p)'
                       /\ DiagnosisKept(p) => DiagnosisKept(p)'
  BY KeptStays
<1>3. \A p \in Posts : AlertTenant(p)' = AlertTenant(p)
  BY DEF AlertTenant
<1>4. CASE UNCHANGED <<pc, dpc, idOf>>
  BY <1>1, <1>2, <1>3, <1>4 DEF PostShape
<1>5. ASSUME NEW p \in Posts, PostStep(p) PROVE PostShape'
  <2>1. /\ \A q \in Posts : q # p => pc'[q] = pc[q] /\ idOf'[q] = idOf[q] /\ dpc'[q] = dpc[q]
    <3>1. idOf' = idOf \/ idOf' = [idOf EXCEPT ![p] = lastId + 1]
      BY <1>5, PostStepShape DEF InsertAlert
    <3>2. dpc' = dpc \/ \E d : dpc' = [dpc EXCEPT ![p] = d]
      BY <1>5, PostStepShape
    <3>3. \E next : pc' = [pc EXCEPT ![p] = next]
      BY <1>5, PostStepShape
    <3> QED
      BY <1>1, <3>1, <3>2, <3>3 DEF TypeOK
  <2>2. /\ pc'[p] = "checked" => idOf'[p] = 0
        /\ pc'[p] \notin {"new", "refused"} => AlertTenant(p) = TenantOf[p]
        /\ pc'[p] # "new"
    <3>1. pc'[p] = "checked" => idOf' = idOf
      BY <1>1, <1>5, PostStepShape DEF InsertAlert, TypeOK
    <3>2. PICK next \in PostStates :
            /\ pc' = [pc EXCEPT ![p] = next] /\ next # "new"
            /\ next \in {"checked", "refused"} <=> pc[p] = "new"
            /\ next = "checked" => AlertTenant(p) = TenantOf[p]
      BY <1>5, PostStepShape
    <3>3. pc'[p] = next
      BY <1>1, <3>2 DEF TypeOK
    <3>4. next = "checked" => idOf'[p] = 0
      BY <1>1, <3>1, <3>2, <3>3 DEF PostShape
    <3>5. next \notin {"new", "refused"} => AlertTenant(p) = TenantOf[p]
      <4>1. pc[p] # "refused" \/ next = "refused"
        BY <1>5, PostStepShape DEF Running
      <4> QED
        BY <1>1, <3>2, <4>1 DEF PostShape
    <3> QED
      BY <3>2, <3>3, <3>4, <3>5
  <2>3. pc'[p] \in {"stored", "mapped", "sent", "accepted"} => Kept(p)'
    <3>1. pc'[p] = "stored" => Kept(p)'
      BY <1>1, <1>5, PostStepShape, InsertedIsKept DEF TypeOK
    <3>2. pc'[p] \in {"mapped", "sent", "accepted"} => Kept(p)
      BY <1>1, <1>5, PostStepShape DEF PostShape, TypeOK
    <3> QED
      BY <1>2, <3>1, <3>2
  <2>4. /\ dpc'[p] # "none" => pc'[p] = "accepted"
        /\ dpc'[p] = "saved" => dpc[p] = "saved"
    <3>1. dpc[p] # "none" => pc[p] \notin {"new"} \union Running
      BY <1>1 DEF PostShape, Running
    <3> QED
      BY <1>1, <1>5, <3>1, PostStepShape DEF TypeOK
  <2> QED
    BY <1>1, <1>2, <1>3, <2>1, <2>2, <2>3, <2>4 DEF PostShape
<1>6. ASSUME NEW p \in Posts, DiagStep(p) PROVE PostShape'
  <2>1. /\ pc' = pc /\ idOf' = idOf /\ dpc[p] # "none"
        /\ \A q \in Posts : q # p => dpc'[q] = dpc[q]
    BY <1>1, <1>6, DiagStepShape DEF TypeOK
  <2>2. dpc'[p] = "saved" => DiagnosisKept(p)'
    BY <1>1, <1>6, DiagStepShape, SavedIsKept DEF TypeOK
  <2> QED
    BY <1>1, <1>2, <1>3, <2>1, <2>2 DEF PostShape
<1>7. CASE Crash
  <2>1. ASSUME NEW p \in Posts
        PROVE  /\ pc'[p] = IF pc[p] \in Running THEN "lost" ELSE pc[p]
               /\ dpc'[p] = IF dpc[p] = "none" THEN "none" ELSE "ended"
               /\ idOf'[p] = idOf[p]
    BY <1>7 DEF Crash
  <2> QED
    BY <1>1, <1>2, <1>3, <2>1 DEF PostShape, Running
<1>8. CASE \/ \E x \in Clears : ClearStep(x)
           \/ \E t \in Tenants : TopologyClear(t) \/ UpsertSettings(t)
           \/ \E d \in Dashboards : Subscribe(d) \/ Cut(d) \/ Show(d)
           \/ Restart \/ UNCHANGED vars
  <2>1. UNCHANGED <<pc, dpc, idOf>>
    BY <1>8 DEF ClearStep, DeleteAllAlerts, DeleteFails, ClearCache, TopologyClear,
                UpsertSettings, Subscribe, Cut, Show, Restart, requests, vars
  <2> QED
    BY <1>4, <2>1
<1> QED
  BY <1>5, <1>6, <1>7, <1>8 DEF Next

-----------------------------------------------------------------------------
(* What the dashboards have queued and were shown *)

\* The steps that change it.  What is sent to a dashboard was posted by its tenant and is
\* stored, with its diagnosis if that is set in memory, unless it was deleted.
LEMMA HubSteps ==
  ASSUME IngestInv, [Next]_vars
  PROVE  \/ UNCHANGED <<inbox, seen, told>>
         \/ \E p \in Posts : \E S \in SUBSET Listeners(p) :
              /\ inbox' = Queue(p, S) /\ seen' = seen
              /\ told' = told \/ (told' = told \union {p} /\ DiagnosisKept(p))
              /\ Kept(p) /\ AlertTenant(p) = TenantOf[p]
         \/ \E d \in Dashboards : Show(d)
         \/ /\ \A d \in Dashboards : inbox'[d] = inbox[d] \/ inbox'[d] = <<>>
            /\ UNCHANGED <<seen, told>>
<1> DEFINE Sent(p) == \E S \in SUBSET Listeners(p) :
                        /\ inbox' = Queue(p, S) /\ seen' = seen
                        /\ told' = told \/ (told' = told \union {p} /\ DiagnosisKept(p))
                        /\ Kept(p) /\ AlertTenant(p) = TenantOf[p]
<1> USE DEF store, hub, requests
<1>1. TypeOK /\ PostShape
  BY DEF IngestInv
<1>2. ASSUME NEW p \in Posts, PostStep(p) PROVE UNCHANGED <<inbox, seen, told>> \/ Sent(p)
  <2>1. pc[p] = "mapped" => Kept(p) /\ AlertTenant(p) = TenantOf[p]
    BY <1>1 DEF PostShape
  <2>2. CASE Broadcast(p)
    BY <2>1, <2>2 DEF Broadcast
  <2>3. CASE BroadcastPanics(p)
    BY <2>1, <2>3 DEF BroadcastPanics
  <2>4. CASE ~Broadcast(p) /\ ~BroadcastPanics(p)
    <3> HIDE DEF Sent
    <3> QED
      BY <1>2, <2>4 DEF PostStep, CheckTenant, InsertAlert, InsertFails, UpdateTopology,
                        TriggerAI, TriggerSkipped
  <2> QED
    BY <2>2, <2>3, <2>4
<1>3. ASSUME NEW p \in Posts, DiagStep(p) PROVE UNCHANGED <<inbox, seen, told>> \/ Sent(p)
  <2>1. dpc[p] = "saved" => Kept(p) /\ DiagnosisKept(p) /\ AlertTenant(p) = TenantOf[p]
    BY <1>1 DEF PostShape
  <2>2. CASE Rebroadcast(p)
    BY <2>1, <2>2 DEF Rebroadcast
  <2>3. CASE ~Rebroadcast(p)
    <3> HIDE DEF Sent
    <3> QED
      BY <1>3, <2>3 DEF DiagStep, Diagnose, UpdateAlertDiagnosis, UpdateFails
  <2> QED
    BY <2>2, <2>3
<1>4. ASSUME NEW x \in Clears, ClearStep(x) PROVE UNCHANGED <<inbox, seen, told>>
  BY <1>4 DEF ClearStep, DeleteAllAlerts, DeleteFails, ClearCache
<1>5. ASSUME NEW t \in Tenants, TopologyClear(t) \/ UpsertSettings(t)
      PROVE  UNCHANGED <<inbox, seen, told>>
  BY <1>5 DEF TopologyClear, UpsertSettings
<1>6. ASSUME NEW d \in Dashboards, Subscribe(d) \/ Cut(d)
      PROVE  /\ \A e \in Dashboards : inbox'[e] = inbox[e] \/ inbox'[e] = <<>>
             /\ UNCHANGED <<seen, told>>
  BY <1>1, <1>6 DEF Subscribe, Cut, TypeOK
<1>7. ASSUME Crash
      PROVE  /\ \A d \in Dashboards : inbox'[d] = <<>>
             /\ UNCHANGED <<seen, told>>
  BY <1>7 DEF Crash
<1>8. ASSUME Restart \/ UNCHANGED vars PROVE UNCHANGED <<inbox, seen, told>>
  BY <1>8 DEF Restart, vars
<1> HIDE DEF Sent
<1>9. \/ UNCHANGED <<inbox, seen, told>>
      \/ \E p \in Posts : Sent(p)
      \/ \E d \in Dashboards : Show(d)
      \/ /\ \A d \in Dashboards : inbox'[d] = inbox[d] \/ inbox'[d] = <<>>
         /\ UNCHANGED <<seen, told>>
  BY <1>2, <1>3, <1>4, <1>5, <1>6, <1>7, <1>8 DEF Next
<1> QED
  BY <1>9 DEF Sent

\* Show(d) element by element: what is queued was queued, and what was seen was seen or
\* is the head of the queue, with what the memory says of its diagnosis.
LEMMA ShowSteps ==
  ASSUME TypeOK, NEW d \in Dashboards, Show(d)
  PROVE  /\ told' = told
         /\ \A e \in Dashboards : \A i \in DOMAIN inbox'[e] :
              \E j \in DOMAIN inbox[e] : inbox'[e][i] = inbox[e][j]
         /\ \A e \in Dashboards : \A i \in DOMAIN seen'[e] :
              \/ \E j \in DOMAIN seen[e] : seen'[e][i] = seen[e][j]
              \/ \E j \in DOMAIN inbox[e] :
                   seen'[e][i] = <<inbox[e][j], inbox[e][j] \in told>>
<1> DEFINE s == <<Head(inbox[d]), Head(inbox[d]) \in told>>
<1>1. /\ told' = told /\ inbox[d] # <<>>
      /\ inbox' = [inbox EXCEPT ![d] = Tail(@)]
      /\ seen' = [seen EXCEPT ![d] = Append(@, s)]
      /\ inbox \in [Dashboards -> Seq(Posts)]
      /\ seen \in [Dashboards -> Seq(Posts \X BOOLEAN)]
  BY DEF Show, TypeOK
<1>2. /\ inbox'[d] = Tail(inbox[d]) /\ seen'[d] = Append(seen[d], s)
      /\ \A e \in Dashboards \ {d} : inbox'[e] = inbox[e] /\ seen'[e] = seen[e]
  BY <1>1
<1>3. /\ \A i \in DOMAIN Tail(inbox[d]) :
           i + 1 \in DOMAIN inbox[d] /\ Tail(inbox[d])[i] = inbox[d][i + 1]
      /\ 1 \in DOMAIN inbox[d] /\ Head(inbox[d]) = inbox[d][1]
      /\ \A i \in DOMAIN Append(seen[d], s) :
           \/ Append(seen[d], s)[i] = s
           \/ i \in DOMAIN seen[d] /\ Append(seen[d], s)[i] = seen[d][i]
  BY <1>1, ShowMoves
<1>4. s = <<inbox[d][1], inbox[d][1] \in told>>
  BY <1>3
<1> HIDE DEF s
<1>5. \A i \in DOMAIN inbox'[d] : \E j \in DOMAIN inbox[d] : inbox'[d][i] = inbox[d][j]
  BY <1>2, <1>3
<1>6. \A i \in DOMAIN seen'[d] :
        \/ \E j \in DOMAIN seen[d] : seen'[d][i] = seen[d][j]
        \/ \E j \in DOMAIN inbox[d] : seen'[d][i] = <<inbox[d][j], inbox[d][j] \in told>>
  BY <1>2, <1>3, <1>4
<1>7. ASSUME NEW e \in Dashboards, e # d
      PROVE  inbox'[e] = inbox[e] /\ seen'[e] = seen[e]
  BY <1>2, <1>7
<1>8. ASSUME NEW e \in Dashboards, NEW i \in DOMAIN inbox'[e]
      PROVE  \E j \in DOMAIN inbox[e] : inbox'[e][i] = inbox[e][j]
  BY <1>5, <1>7
<1>9. ASSUME NEW e \in Dashboards, NEW i \in DOMAIN seen'[e]
      PROVE  \/ \E j \in DOMAIN seen[e] : seen'[e][i] = seen[e][j]
             \/ \E j \in DOMAIN inbox[e] :
                  seen'[e][i] = <<inbox[e][j], inbox[e][j] \in told>>
  BY <1>6, <1>7
<1> QED
  BY <1>1, <1>8, <1>9

\* What is on its way to a dashboard, and what a dashboard was shown, is stored.
LEMMA SentIsKept ==
  ASSUME IngestInv, [Next]_vars PROVE QueuedKept' /\ ShownIsDurable'
<1>1. TypeOK /\ QueuedKept /\ ShownIsDurable
  BY DEF IngestInv
<1>2. /\ \A p \in Posts : Kept(p) => Kept(p)'
      /\ \A p \in Posts : DiagnosisKept(p) => DiagnosisKept(p)'
  BY KeptStays
<1>3. \A p \in Posts : /\ Kept(p)' <=> (p \in cleared' \/ \E r \in Stored(p)' : TRUE)
                       /\ Kept(p) <=> (p \in cleared \/ \E r \in Stored(p) : TRUE)
  BY DEF Kept
<1> DEFINE Shown(e, i) == /\ Kept(seen[e][i][1])
                          /\ seen[e][i][2] => DiagnosisKept(seen[e][i][1])
<1>4. ShownIsDurable <=> \A e \in Dashboards : \A i \in DOMAIN seen[e] : Shown(e, i)
  BY DEF ShownIsDurable, Kept, DiagnosisKept
<1>5. ShownIsDurable' <=> \A e \in Dashboards : \A i \in DOMAIN seen'[e] : Shown(e, i)'
  BY DEF ShownIsDurable, Kept, DiagnosisKept
<1>6. \A e \in Dashboards : /\ \A i \in DOMAIN inbox[e] : inbox[e][i] \in Posts
                            /\ \A i \in DOMAIN seen[e] : seen[e][i][1] \in Posts
  <2> SUFFICES ASSUME NEW e \in Dashboards
               PROVE  /\ \A i \in DOMAIN inbox[e] : inbox[e][i] \in Posts
                      /\ \A i \in DOMAIN seen[e] : seen[e][i][1] \in Posts
    OBVIOUS
  <2>1. inbox[e] \in Seq(Posts) /\ seen[e] \in Seq(Posts \X BOOLEAN)
    BY <1>1 DEF TypeOK
  <2> QED
    BY <2>1
<1>7. CASE UNCHANGED <<inbox, seen, told>>
  <2>1. QueuedKept'
    BY <1>1, <1>2, <1>6, <1>7 DEF QueuedKept, TypeOK
  <2>2. ShownIsDurable'
    BY <1>1, <1>2, <1>4, <1>5, <1>6, <1>7
  <2> QED
    BY <2>1, <2>2
<1>8. ASSUME NEW p \in Posts, NEW S \in SUBSET Listeners(p),
             inbox' = Queue(p, S), seen' = seen, Kept(p),
             told' = told \/ (told' = told \union {p} /\ DiagnosisKept(p))
      PROVE  QueuedKept' /\ ShownIsDurable'
  <2>1. \A e \in Dashboards : \A i \in DOMAIN inbox'[e] :
          inbox'[e][i] = p \/ (i \in DOMAIN inbox[e] /\ inbox'[e][i] = inbox[e][i])
    BY <1>1, <1>8, QueueAppends DEF TypeOK
  <2>2. \A e \in Dashboards : \A i \in DOMAIN inbox'[e] : Kept(inbox[e][i])'
    BY <1>1, <1>2, <1>6, <1>8, <2>1 DEF QueuedKept
  <2>3. \A q \in told' : DiagnosisKept(q)'
    BY <1>1, <1>2, <1>8 DEF QueuedKept, TypeOK
  <2>4. ShownIsDurable'
    BY <1>1, <1>2, <1>4, <1>5, <1>6, <1>8
  <2> QED
    BY <2>2, <2>3, <2>4 DEF QueuedKept
<1>9. ASSUME NEW d \in Dashboards, Show(d) PROVE QueuedKept' /\ ShownIsDurable'
  <2>1. /\ told' = told
        /\ \A e \in Dashboards : \A i \in DOMAIN inbox'[e] :
             \E j \in DOMAIN inbox[e] : inbox'[e][i] = inbox[e][j]
        /\ \A e \in Dashboards : \A i \in DOMAIN seen'[e] :
             \/ \E j \in DOMAIN seen[e] : seen'[e][i] = seen[e][j]
             \/ \E j \in DOMAIN inbox[e] :
                  seen'[e][i] = <<inbox[e][j], inbox[e][j] \in told>>
    BY <1>1, <1>9, ShowSteps
  <2>2. QueuedKept'
    <3>1. \A e \in Dashboards : \A i \in DOMAIN inbox'[e] : Kept(inbox[e][i])'
      BY <1>1, <1>2, <1>6, <2>1 DEF QueuedKept
    <3>2. \A q \in told' : DiagnosisKept(q)'
      BY <1>1, <1>2, <2>1 DEF QueuedKept, TypeOK
    <3> QED
      BY <3>1, <3>2 DEF QueuedKept
  <2>3. ASSUME NEW e \in Dashboards, NEW i \in DOMAIN seen'[e] PROVE Shown(e, i)'
    <3>1. CASE \E j \in DOMAIN seen[e] : seen'[e][i] = seen[e][j]
      BY <1>1, <1>2, <1>4, <1>6, <3>1
    <3>2. CASE \E j \in DOMAIN inbox[e] :
                 seen'[e][i] = <<inbox[e][j], inbox[e][j] \in told>>
      <4>1. PICK q \in Posts, b \in BOOLEAN :
              /\ seen'[e][i] = <<q, b>> /\ Kept(q)
              /\ b => DiagnosisKept(q)
        <5>1. PICK j \in DOMAIN inbox[e] :
                seen'[e][i] = <<inbox[e][j], inbox[e][j] \in told>>
          BY <3>2
        <5>2. inbox[e][j] \in Posts /\ (inbox[e][j] \in told) \in BOOLEAN /\ Kept(inbox[e][j])
              /\ (inbox[e][j] \in told => DiagnosisKept(inbox[e][j]))
          BY <1>1, <1>6 DEF QueuedKept
        <5> QED
          BY <5>1, <5>2
      <4>2. Kept(q)' /\ (b => DiagnosisKept(q)')
        BY <1>2, <4>1
      <4>3. (seen[e][i][1])' = q /\ (seen[e][i][2])' = b
        BY <4>1
      <4>4. Kept(seen[e][i][1])' /\ ((seen[e][i][2])' => DiagnosisKept(seen[e][i][1])')
        <5>1. Kept(seen[e][i][1])' <=> Kept(q)'
          BY <4>3 DEF Kept, Stored
        <5>2. DiagnosisKept(seen[e][i][1])' <=> DiagnosisKept(q)'
          BY <4>3 DEF DiagnosisKept, Stored
        <5> QED
          BY <4>2, <4>3, <5>1, <5>2
      <4> QED
        BY <4>4
    <3> QED
      BY <2>1, <3>1, <3>2
  <2> HIDE DEF Shown
  <2>4. ShownIsDurable'
    BY <1>5, <2>3
  <2> QED
    BY <2>2, <2>4
<1>10. ASSUME \A d \in Dashboards : inbox'[d] = inbox[d] \/ inbox'[d] = <<>>,
              UNCHANGED <<seen, told>>
       PROVE  QueuedKept' /\ ShownIsDurable'
  <2>1. \A e \in Dashboards : \A i \in DOMAIN inbox'[e] :
          i \in DOMAIN inbox[e] /\ inbox'[e][i] = inbox[e][i]
    BY <1>10
  <2>2. QueuedKept'
    BY <1>1, <1>2, <1>6, <1>10, <2>1 DEF QueuedKept, TypeOK
  <2>3. ShownIsDurable'
    BY <1>1, <1>2, <1>4, <1>5, <1>6, <1>10
  <2> QED
    BY <2>2, <2>3
<1> HIDE DEF Shown
<1> QED
  BY <1>7, <1>8, <1>9, <1>10, HubSteps

-----------------------------------------------------------------------------
(* Tenants *)

\* The steps that change the topology put an alert into the entry of its tenant, or
\* empty an entry.
LEMMA TopologySteps ==
  ASSUME IngestInv, [Next]_vars
  PROVE  \A t \in Tenants : \A p \in topo'[t] :
           p \in topo[t] \/ (p \in Posts /\ AlertTenant(p) = TenantOf[p] /\ t = TenantOf[p])
<1> USE DEF store, hub, requests
<1> DEFINE Grown == \A t \in Tenants : \A p \in topo'[t] :
                     \/ p \in topo[t]
                     \/ p \in Posts /\ AlertTenant(p) = TenantOf[p] /\ t = TenantOf[p]
<1>1. TypeOK /\ PostShape /\ topo \in [Tenants -> SUBSET Posts]
  BY DEF IngestInv, TypeOK
<1>2. ASSUME NEW p \in Posts, PostStep(p) PROVE Grown
  <2>1. CASE UpdateTopology(p)
    <3>1. AlertTenant(p) = TenantOf[p]
      BY <1>1, <2>1 DEF UpdateTopology, PostShape
    <3> QED
      BY <1>1, <2>1, <3>1 DEF UpdateTopology
  <2>2. CASE ~UpdateTopology(p)
    <3>1. topo' = topo
      BY <1>2, <2>2 DEF PostStep, CheckTenant, InsertAlert, InsertFails, Broadcast,
                        BroadcastPanics, TriggerAI, TriggerSkipped
    <3> QED
      BY <3>1
  <2> QED
    BY <2>1, <2>2
<1>3. ASSUME NEW p \in Posts, DiagStep(p) PROVE Grown
  BY <1>3 DEF DiagStep, Diagnose, UpdateAlertDiagnosis, UpdateFails, Rebroadcast
<1>4. ASSUME NEW x \in Clears, ClearStep(x) PROVE Grown
  BY <1>1, <1>4 DEF ClearStep, DeleteAllAlerts, DeleteFails, ClearCache
<1>5. ASSUME NEW t \in Tenants, TopologyClear(t) \/ UpsertSettings(t) PROVE Grown
  BY <1>1, <1>5 DEF TopologyClear, UpsertSettings
<1>6. ASSUME NEW d \in Dashboards, Subscribe(d) \/ Cut(d) \/ Show(d) PROVE Grown
  BY <1>6 DEF Subscribe, Cut, Show
<1>7. ASSUME Crash \/ Restart \/ UNCHANGED vars PROVE Grown
  BY <1>7 DEF Crash, Restart, vars
<1> HIDE DEF Grown
<1>8. Grown
  BY <1>2, <1>3, <1>4, <1>5, <1>6, <1>7 DEF Next
<1> QED
  BY <1>8 DEF Grown

\* A row has the tenant of the key its alert was posted with.
LEMMA RowsOfTenants ==
  ASSUME IngestInv, [Next]_vars PROVE \A r \in rows' : r.tenant = TenantOf[r.alert]
<1>1. TypeOK /\ PostShape /\ \A r \in rows : r.tenant = TenantOf[r.alert]
  BY DEF IngestInv, TenantWalls
<1>2. ASSUME NEW p \in Posts, InsertAlert(p)
      PROVE  \A r \in rows' : r.tenant = TenantOf[r.alert]
  <2>1. AlertTenant(p) = TenantOf[p]
    BY <1>1, <1>2 DEF InsertAlert, PostShape
  <2> QED
    BY <1>1, <1>2, <2>1 DEF InsertAlert, Row
<1>3. ASSUME NEW p \in Posts, UpdateAlertDiagnosis(p)
      PROVE  \A r \in rows' : r.tenant = TenantOf[r.alert]
  BY <1>1, <1>3, UpdatedRows
<1>4. ASSUME NEW x \in Clears, DeleteAllAlerts(x)
      PROVE  \A r \in rows' : r.tenant = TenantOf[r.alert]
  BY <1>1, <1>4 DEF DeleteAllAlerts
<1> QED
  BY <1>1, <1>2, <1>3, <1>4, TableSteps

LEMMA WallsStand ==
  ASSUME IngestInv, [Next]_vars PROVE TenantWalls'
<1>1. TypeOK /\ TenantWalls
  BY DEF IngestInv
<1>2. \A t \in Tenants : \A p \in topo'[t] : TenantOf[p] = t
  BY <1>1, TopologySteps DEF TenantWalls
<1> DEFINE Own(d) == /\ \A i \in DOMAIN inbox[d] : TenantOf[inbox[d][i]] = TenantOf[d]
                     /\ \A i \in DOMAIN seen[d] : TenantOf[seen[d][i][1]] = TenantOf[d]
<1>3. \A d \in Dashboards : Own(d)
  BY <1>1 DEF TenantWalls
<1>4. \A d \in Dashboards : Own(d)'
  <2>1. CASE UNCHANGED <<inbox, seen, told>>
    BY <1>3, <2>1
  <2>2. ASSUME NEW p \in Posts, NEW S \in SUBSET Listeners(p), AlertTenant(p) = TenantOf[p],
               inbox' = Queue(p, S), seen' = seen
        PROVE  \A d \in Dashboards : Own(d)'
    <3>1. \A d \in S : TenantOf[d] = TenantOf[p]
      BY <2>2 DEF Listeners
    <3>2. \A d \in Dashboards : \A i \in DOMAIN inbox'[d] :
            \/ d \in S /\ inbox'[d][i] = p
            \/ i \in DOMAIN inbox[d] /\ inbox'[d][i] = inbox[d][i]
      BY <1>1, <2>2, QueueAppends DEF TypeOK
    <3>3. \A d \in Dashboards : \A i \in DOMAIN inbox'[d] : TenantOf[inbox'[d][i]] = TenantOf[d]
      BY <1>3, <3>1, <3>2
    <3> QED
      BY <1>3, <2>2, <3>3
  <2>3. ASSUME NEW d \in Dashboards, Show(d) PROVE \A e \in Dashboards : Own(e)'
    <3>1. /\ \A e \in Dashboards : \A i \in DOMAIN inbox'[e] :
               \E j \in DOMAIN inbox[e] : inbox'[e][i] = inbox[e][j]
          /\ \A e \in Dashboards : \A i \in DOMAIN seen'[e] :
               \/ \E j \in DOMAIN seen[e] : seen'[e][i] = seen[e][j]
               \/ \E j \in DOMAIN inbox[e] :
                    seen'[e][i] = <<inbox[e][j], inbox[e][j] \in told>>
      BY <1>1, <2>3, ShowSteps
    <3>2. ASSUME NEW e \in Dashboards, NEW i \in DOMAIN inbox'[e]
          PROVE  TenantOf[inbox'[e][i]] = TenantOf[e]
      BY <1>3, <3>1
    <3>3. ASSUME NEW e \in Dashboards, NEW i \in DOMAIN seen'[e]
          PROVE  TenantOf[seen'[e][i][1]] = TenantOf[e]
      <4>1. CASE \E j \in DOMAIN seen[e] : seen'[e][i] = seen[e][j]
        BY <1>3, <4>1
      <4>2. CASE \E j \in DOMAIN inbox[e] :
                   seen'[e][i] = <<inbox[e][j], inbox[e][j] \in told>>
        BY <1>3, <4>2
      <4> QED
        BY <3>1, <4>1, <4>2
    <3> QED
      BY <3>2, <3>3
  <2>4. CASE (\A d \in Dashboards : inbox'[d] = inbox[d] \/ inbox'[d] = <<>>) /\ seen' = seen
    BY <1>3, <2>4
  <2> HIDE DEF Own
  <2> QED
    BY <2>1, <2>2, <2>3, <2>4, HubSteps
<1> QED
  BY <1>2, <1>4, RowsOfTenants DEF TenantWalls

-----------------------------------------------------------------------------
(* The inductive invariant, and what follows from it *)

LEMMA IngestInit == Init => IngestInv
<1> SUFFICES ASSUME Init PROVE IngestInv
  OBVIOUS
<1>1. TypeOK
  BY TypeInit
<1>2. RowsNamed /\ IdsDistinct /\ PostShape
  BY DEF Init, RowsNamed, IdsDistinct, PostShape
<1>3. QueuedKept /\ ShownIsDurable /\ TenantWalls
  BY DEF Init, QueuedKept, ShownIsDurable, TenantWalls
<1> QED
  BY <1>1, <1>2, <1>3 DEF IngestInv

LEMMA IngestKeeps == IngestInv /\ [Next]_vars => IngestInv'
<1> SUFFICES ASSUME IngestInv, [Next]_vars PROVE IngestInv'
  OBVIOUS
<1>1. TypeOK
  BY DEF IngestInv
<1> QED
  BY <1>1, TypeStep, RowsKeepNames, PostsKeepShape, SentIsKept, WallsStand DEF IngestInv

\* The invariant holds of every behaviour: of any interleaving of requests, goroutines and
\* dashboards, with the process killed between any two of their statements.
THEOREM IngestCorrect == Spec => []IngestInv
<1>1. Init => IngestInv
  BY IngestInit
<1>2. IngestInv /\ [Next]_vars => IngestInv'
  BY IngestKeeps
<1> QED
  BY <1>1, <1>2, PTL DEF Spec

\* The types of the tables and of the process's memory.
THEOREM IngestTypes == Spec => []TypeOK
<1>1. IngestInv => TypeOK
  BY DEF IngestInv
<1> QED
  BY <1>1, IngestCorrect, PTL

\* A diagnosis is only ever in the row of the alert it was asked for, however late the
\* UPDATE comes: ids are not used again (AUTOINCREMENT), so it finds that row or none.
THEOREM DiagnosesFindTheirRow == Spec => []DiagnosisOnOwnRow
<1>1. IngestInv => DiagnosisOnOwnRow
  BY DEF IngestInv, RowsNamed, DiagnosisOnOwnRow
<1> QED
  BY <1>1, IngestCorrect, PTL

\* What was answered with 202 is in the database until a DELETE removes it, whatever
\* crashes and whatever the AI agent does.
THEOREM AcceptedIsStored == Spec => []AcceptedDurable
<1>1. IngestInv => AcceptedDurable
  BY DEF IngestInv, PostShape, Kept, AcceptedDurable
<1> QED
  BY <1>1, IngestCorrect, PTL

\* What a dashboard was shown is in the database, with its diagnosis, until a DELETE
\* removes it: each broadcast comes after the statement that saves what it sends.
THEOREM ShownIsStored == Spec => []ShownIsDurable
<1>1. IngestInv => ShownIsDurable
  BY DEF IngestInv
<1> QED
  BY <1>1, IngestCorrect, PTL

\* Rows, topology, queues and dashboards hold only what their own tenant's probes posted.
THEOREM TenantsAreApart == Spec => []TenantWalls
<1>1. IngestInv => TenantWalls
  BY DEF IngestInv
<1> QED
  BY <1>1, IngestCorrect, PTL

=============================================================================
