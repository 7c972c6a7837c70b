----------------------------- MODULE AiService -----------------------------
(***************************************************************************)
(* Ingest composed with AiAgent: the goroutine of triggerAI waits for a    *)
(* completion, call by call, and the requests that ask the agent           *)
(* (handleAIHealth, handleAIStreamAnalysis, handleAIChat, handleAnalyze)   *)
(* read the stored alerts, wait for a completion of their own, and answer. *)
(*                                                                         *)
(* Every behaviour is one of Ingest, which only has that a diagnosis is    *)
(* answered or given up (RefinesIngest).                                   *)
(***************************************************************************)
EXTENDS Ingest, AiAgent

CONSTANTS Queries,      \* requests to /api/ai/... and /api/analyze
          QueryTenant,  \* the tenant of the API key of each
          MaxListed     \* rows that one ListAlerts reads, 500

ASSUME ServiceAssumption ==
  /\ Calls = Posts \union Queries
  /\ Posts \intersect Queries = {}
  /\ QueryTenant \in [Queries -> Tenants]
  /\ MaxListed \in Nat \ {0}

VARIABLES qpc,    \* qpc[h]: "new", the kind of a request that waits, "replied", "lost"
          stats,  \* stats[h]: what h asks, and how many alerts it has read
          reply   \* reply[h]: the answer, None before it

queryVars == <<qpc, stats, reply>>
allVars == <<vars, agentVars, queryVars>>

Kinds == {"health", "stream", "chat", "analyze"}

None  == [code |-> 0]
Error == [code |-> 500]
Text  == [code |-> 200]
Summary(s) == [code |-> 200, health |-> s]

ServiceInit == /\ Init /\ AgentInit
               /\ qpc = [h \in Queries |-> "new"]
               /\ stats = [h \in Queries |-> [kind |-> "none", all |-> 0, errors |-> 0, warns |-> 0]]
               /\ reply = [h \in Queries |-> None]

-----------------------------------------------------------------------------
(* The goroutine of triggerAI, with its completion *)

\* Mutant: a completion that has ended is answered again.
DiagnosedAgain(p) ==
  /\ up /\ dpc[p] # "none" /\ ask[p] \in {"ok", "failed"}
  /\ dpc' = [dpc EXCEPT ![p] = IF ask[p] = "ok" THEN "answered" ELSE "ended"]
  /\ UNCHANGED <<store, hub, topo, told, pc, idOf, cpc, cleared, up, crashes>>
  /\ UNCHANGED <<agentVars, queryVars>>

AskDiagnosis(p) == /\ up /\ dpc[p] = "asking"
                   /\ Ask(p)
                   /\ UNCHANGED <<vars, queryVars>>

Diagnosed(p) ==
  /\ up /\ dpc[p] = "asking" /\ ask[p] \in {"ok", "failed"}
  /\ dpc' = [dpc EXCEPT ![p] = IF ask[p] = "ok" THEN "answered" ELSE "ended"]
  /\ UNCHANGED <<store, hub, topo, told, pc, idOf, cpc, cleared, up, crashes>>
  /\ UNCHANGED <<agentVars, queryVars>>

-----------------------------------------------------------------------------
(* The handlers of the queries *)

Count(S, sev) == Cardinality({r \in S : Severity[r.alert] = sev})

Healthy == [score |-> 100, status |-> "healthy", heuristic |-> FALSE]

\* Mutant: the alerts are read again for the answer.
HealthOfNow(h) == LET now == {r \in rows : r.tenant = QueryTenant[h]}
                  IN  Summary(Heuristic(Count(now, "error"), Count(now, "warn")))

HealthOf(h) == Summary(Heuristic(stats[h].errors, stats[h].warns))

Answer(h, r) == /\ reply' = [reply EXCEPT ![h] = r]
                /\ qpc' = [qpc EXCEPT ![h] = "replied"]

\* ORDER BY timestamp DESC LIMIT 500: the newest rows of the tenant.  The time is the
\* probe's, and a late post has an old one, so that it can be any of them.
Lists(tenant) ==
  LET all == {r \in rows : r.tenant = tenant}
  IN  {S \in SUBSET all :
         \/ S = all /\ Cardinality(S) <= MaxListed
         \/ Cardinality(S) = MaxListed}

\* ListAlerts (but for "analyze"), and what is decided before a model is called.
\* The key is empty in local mode too.
Begin(h, kind) ==
  /\ up /\ qpc[h] = "new"
  /\ \E mine \in IF kind = "analyze" THEN {{}} ELSE Lists(QueryTenant[h]) :
     LET e == Count(mine, "error")
         w == Count(mine, "warn")
     IN  /\ stats' = [stats EXCEPT ![h] =
              [kind |-> kind, all |-> Cardinality(mine), errors |-> e, warns |-> w]]
         /\ \/ /\ kind = "health" /\ mine = {}
               /\ Answer(h, Summary(Healthy))
               /\ UNCHANGED agentVars
            \/ /\ kind = "health" /\ mine # {} /\ mode # "cloud"
               /\ Answer(h, Summary(Heuristic(e, w)))
               /\ UNCHANGED agentVars
            \/ /\ kind = "stream" /\ mine = {}
               /\ Answer(h, Error)
               /\ UNCHANGED agentVars
            \/ /\ \/ kind \in {"chat", "analyze"}
                  \/ kind = "stream" /\ mine # {}
                  \/ kind = "health" /\ mine # {} /\ mode = "cloud"
               /\ Ask(h)
               /\ qpc' = [qpc EXCEPT ![h] = kind]
               /\ UNCHANGED reply
  /\ UNCHANGED vars

\* The database fails, or the client has left.
ListFails(h) == /\ up /\ qpc[h] = "new"
                /\ Answer(h, Error)
                /\ UNCHANGED <<vars, agentVars, stats>>

\* The score in the JSON of the model's answer, 0 when it cannot be read; the
\* status is whatever the model said.
Parsed == {-1, 0, 55, 101}

Scored(h, score) ==
  IF score = 0 THEN HealthOf(h)
  ELSE Summary([score |-> Clamp(score), status |-> "said", heuristic |-> FALSE])

Finish(h) ==
  /\ up /\ qpc[h] \in Kinds
  /\ \/ /\ qpc[h] = "health" /\ ask[h] = "ok"
        /\ \E score \in Parsed : Answer(h, Scored(h, score))
     \/ /\ qpc[h] = "health" /\ ask[h] = "failed"
        /\ Answer(h, HealthOf(h))
     \/ /\ qpc[h] # "health" /\ ask[h] \in {"ok", "failed"}
        /\ Answer(h, IF ask[h] = "ok" THEN Text ELSE Error)
  /\ UNCHANGED <<vars, agentVars, stats>>

-----------------------------------------------------------------------------
CrashAll ==
  /\ Crash
  /\ AgentCrash({q \in Calls : ask[q] \in {"calling", "resting"}})
  /\ qpc' = [h \in Queries |-> IF qpc[h] \in Kinds THEN "lost" ELSE qpc[h]]
  /\ UNCHANGED <<mode, stats, reply>>

\* NewAgent reads its environment again.
RestartAll == /\ Restart
              /\ UNCHANGED <<agentVars, queryVars>>

IngestStep ==
  /\ \/ \E p \in Posts : \/ PostStep(p) \/ UpdateAlertDiagnosis(p)
                         \/ UpdateFails(p) \/ Rebroadcast(p)
     \/ \E x \in Clears : ClearStep(x)
     \/ \E t \in Tenants : TopologyClear(t) \/ UpsertSettings(t)
     \/ \E d \in Dashboards : Subscribe(d) \/ Cut(d) \/ Show(d)
  /\ UNCHANGED <<agentVars, queryVars>>

AgentStep(q) == up /\ Complete(q) /\ UNCHANGED <<vars, queryVars>>

ServiceNext ==
  \/ IngestStep \/ CrashAll \/ RestartAll
  \/ \E p \in Posts : AskDiagnosis(p) \/ Diagnosed(p)
  \/ \E q \in Calls : AgentStep(q)
  \/ \E h \in Queries : \/ \E kind \in Kinds : Begin(h, kind)
                        \/ ListFails(h) \/ Finish(h)

\* A call of a model has a timeout, so it ends; the rest are steps of goroutines.
ServiceFairness ==
  /\ \A p \in Posts :
       /\ WF_allVars(PostStep(p) /\ pc[p] # "new" /\ UNCHANGED <<agentVars, queryVars>>)
       /\ WF_allVars((UpdateAlertDiagnosis(p) \/ UpdateFails(p) \/ Rebroadcast(p))
                       /\ UNCHANGED <<agentVars, queryVars>>)
       /\ WF_allVars(AskDiagnosis(p) \/ Diagnosed(p))
  /\ \A x \in Clears : WF_allVars(ClearCache(x) /\ UNCHANGED <<agentVars, queryVars>>)
  /\ \A q \in Calls : WF_allVars(AgentStep(q))
  /\ \A h \in Queries : WF_allVars(Finish(h))

ServiceSpec == ServiceInit /\ [][ServiceNext]_allVars /\ ServiceFairness
-----------------------------------------------------------------------------
(* Properties *)

\* The composition does what Ingest says, and keeps what Ingest is fair about: a
\* completion with all its calls is one step that answers or gives up, and one of the
\* two comes, whatever crash or query comes in between.
RefinesIngest == FairSpec

\* A query that waits for the model is answered, or ends with the process.
QueryEnds == \A h \in Queries : qpc[h] \in Kinds ~> qpc[h] \in {"replied", "lost"}

\* "Returns a heuristic score if the AI API is unavailable" (agent.go:168): once
\* the alerts are read, health is always answered, in range, and without a word
\* of the model it is what those alerts give, also when they were cleared since.
HealthAlwaysGiven ==
  \A h \in Queries : qpc[h] = "replied" /\ stats[h].kind = "health" =>
    /\ reply[h].code = 200
    /\ reply[h].health.score \in 0 .. 100
    /\ ask[h] # "ok" => reply[h].health = IF stats[h].all = 0 THEN Healthy
                            ELSE Heuristic(stats[h].errors, stats[h].warns)

\* Severity is respected where it decides something, by the agent of every process
\* that is up: in what the model is shown, and in what is said without it.
SeverityRespected == up => FilterKeepsWorst /\ HeuristicIsMonotone

-----------------------------------------------------------------------------
(* The inductive invariant *)

\* A query that waits has read what it will answer from, and has a completion of its
\* own, which is over when the query is.
QueryShape ==
  \A h \in Queries :
    /\ qpc[h] = "new" => ask[h] = "idle" /\ stats[h].kind = "none"
    /\ qpc[h] \in Kinds => stats[h].kind = qpc[h]
    /\ qpc[h] = "health" => stats[h].all # 0
    /\ qpc[h] = "replied" => ask[h] \in {"idle", "ok", "failed"}

QueryTypeOK == /\ qpc \in [Queries -> {"new", "replied", "lost"} \union Kinds]
               /\ DOMAIN reply = Queries
               /\ stats \in [Queries -> [kind : Kinds \union {"none"}, all : Nat,
                                        errors : Nat, warns : Nat]]

ServiceInv == /\ IngestInv /\ IsFiniteSet(rows) /\ AgentInv
              /\ QueryTypeOK /\ QueryShape /\ HealthAlwaysGiven
=============================================================================
