------------------------------ MODULE AiAgent ------------------------------
(***************************************************************************)
(* The AI agent (internal/ai/agent.go): how one completion is obtained     *)
(* from the providers (completeWithMessages and callAPI), and the parts of *)
(* its callers that decide something: which alerts the model is shown      *)
(* (filterSignificant) and the health summary that is given with or        *)
(* without the model (GenerateHealthSummary, heuristicHealth).  Prompts    *)
(* and texts are left out.                                                 *)
(*                                                                         *)
(* A completion is a goroutine of its own: a call of a model ends with     *)
(* content, or with one of the errors of callAPI (network, timeout,        *)
(* status, decoding, empty answer), which all mean the next model.         *)
(***************************************************************************)
EXTENDS Integers, Sequences

CONSTANTS Calls,      \* completions that are asked for
          Primary,    \* OPENROUTER_MODEL or OLLAMA_MODEL
          Fallbacks   \* fallbackModels, in order, each one once

Configured == {Primary} \union {Fallbacks[i] : i \in DOMAIN Fallbacks}

ASSUME AgentAssumption ==
  /\ Fallbacks \in Seq(Configured)
  /\ \A i, j \in DOMAIN Fallbacks : Fallbacks[i] = Fallbacks[j] => i = j

VARIABLES mode,   \* "local" (Ollama), "cloud", or "nokey": fixed by NewAgent
          ask,    \* ask[q]: where completeWithMessages is for q
          tried   \* tried[q]: the models that were called for q, in order

agentVars == <<mode, ask, tried>>

Modes == {"local", "cloud", "nokey"}
AskStates == {"idle", "calling", "resting", "ok", "failed"}

AgentInit == /\ mode \in Modes
             /\ ask = [q \in Calls |-> "idle"]
             /\ tried = [q \in Calls |-> <<>>]

Members(s) == {s[i] : i \in DOMAIN s}

\* The loops that pick out of a list: SelectSeq for a set, and a recursive function,
\* as the proofs need it.
Only(s, T) ==
  LET only[n \in 0 .. Len(s)] == IF n = 0 THEN <<>>
                                 ELSE IF s[n] \in T THEN Append(only[n - 1], s[n])
                                                   ELSE only[n - 1]
  IN  only[Len(s)]

-----------------------------------------------------------------------------
(* Mutants: plausible bugs the properties exclude; no specification uses them. *)

\* The primary model is not taken out of the fallbacks.
CandidatesTwice == <<Primary>> \o Fallbacks

\* After a failure the completion is as before its first call, and nothing calls again.
CallFailsForever(q) ==
  /\ ask[q] = "calling"
  /\ ask' = [ask EXCEPT ![q] = "idle"]
  /\ UNCHANGED <<mode, tried>>

\* The first alerts are shown, whatever they are.
FilterSignificantNot(alerts, max) ==
  SubSeq(alerts, 1, IF Len(alerts) < max THEN Len(alerts) ELSE max)

-----------------------------------------------------------------------------
(* completeWithMessages, callAPI *)

Candidates == <<Primary>> \o Only(Fallbacks, Configured \ {Primary})

\* Without a key there is no call at all.
Ask(q) ==
  /\ ask[q] = "idle"
  /\ IF mode = "nokey"
       THEN /\ ask' = [ask EXCEPT ![q] = "failed"]
            /\ UNCHANGED tried
       ELSE /\ ask' = [ask EXCEPT ![q] = "calling"]
            /\ tried' = [tried EXCEPT ![q] = <<Primary>>]
  /\ UNCHANGED mode

CallAnswers(q) ==
  /\ ask[q] = "calling"
  /\ ask' = [ask EXCEPT ![q] = "ok"]
  /\ UNCHANGED <<mode, tried>>

\* Local mode has one candidate; in cloud mode the loop sleeps between two.
CallFails(q) ==
  /\ ask[q] = "calling"
  /\ ask' = [ask EXCEPT ![q] =
       IF mode = "local" \/ Len(tried[q]) = Len(Candidates) THEN "failed" ELSE "resting"]
  /\ UNCHANGED <<mode, tried>>

NextModel(q) ==
  /\ ask[q] = "resting"
  /\ ask' = [ask EXCEPT ![q] = "calling"]
  /\ tried' = [tried EXCEPT ![q] = Append(@, Candidates[Len(@) + 1])]
  /\ UNCHANGED mode

Complete(q) == CallAnswers(q) \/ CallFails(q) \/ NextModel(q)

\* The goroutines of a process that ends.
AgentCrash(S) ==
  /\ ask' = [q \in Calls |-> IF q \in S THEN "idle" ELSE ask[q]]
  /\ tried' = [q \in Calls |-> IF q \in S THEN <<>> ELSE tried[q]]

-----------------------------------------------------------------------------
(* filterSignificant: errors, then warnings, then the rest, up to max. *)
FilterSignificant(alerts, max) ==
  LET errors == {a \in Members(alerts) : a.severity = "error"}
      warns  == {a \in Members(alerts) : a.severity = "warn"}
      all    == Only(alerts, errors) \o Only(alerts, warns)
                  \o Only(alerts, Members(alerts) \ (errors \union warns))
  IN  SubSeq(all, 1, IF Len(all) < max THEN Len(all) ELSE max)

\* heuristicHealth
HeuristicScore(e, w) == LET s == 100 - 15 * e - 4 * w IN IF s < 0 THEN 0 ELSE s

HeuristicStatus(score, e) == IF score < 40 \/ e >= 3 THEN "critical"
                             ELSE IF score < 70 \/ e >= 1 THEN "warning" ELSE "healthy"

Heuristic(e, w) == [score |-> HeuristicScore(e, w),
                    status |-> HeuristicStatus(HeuristicScore(e, w), e),
                    heuristic |-> TRUE]

Clamp(score) == IF score < 0 THEN 0 ELSE IF score > 100 THEN 100 ELSE score

-----------------------------------------------------------------------------
(* Properties *)

\* A completion that failed has really tried every model that was configured,
\* and none of them twice; a local one has asked its one model.
FailoverIsComplete ==
  \A q \in Calls :
    /\ \A i, j \in DOMAIN tried[q] : tried[q][i] = tried[q][j] => i = j
    /\ ask[q] = "failed" =>
         CASE mode = "cloud" -> Members(tried[q]) = Configured
           [] mode = "local" -> tried[q] = <<Primary>>
           [] mode = "nokey" -> tried[q] = <<>>

Rank(a) == CASE a.severity = "error" -> 1 [] a.severity = "warn" -> 2 [] OTHER -> 3

AlertSeverities == {"error", "warn", "info"}

Listed(n, sev) == [i \in 1 .. n |-> [at |-> i, severity |-> sev[i]]]

Before(a, b) == Rank(a) < Rank(b) \/ (Rank(a) = Rank(b) /\ a.at < b.at)

\* Of n alerts the first max in this order are shown.
KeepsWorst(n, max, sev) ==
  LET shown == FilterSignificant(Listed(n, sev), max) IN
    /\ Len(shown) = IF n < max THEN n ELSE max
    /\ \A i, j \in DOMAIN shown : i < j => Before(shown[i], shown[j])
    /\ \A a \in Members(Listed(n, sev)) \ Members(shown) :
         \A b \in Members(shown) : Before(b, a)

\* "EVENTS (most critical first)" (agent.go:128): what the model is not shown is
\* never more severe than what it is shown, nor earlier at the same severity.
FilterKeepsWorst ==
  \A n \in 0 .. 4, max \in 0 .. 3 : \A sev \in [1 .. n -> AlertSeverities] : KeepsWorst(n, max, sev)

StatusRank(s) == CASE s = "healthy" -> 0 [] s = "warning" -> 1 [] s = "critical" -> 2

Worsens(h, worse) == /\ worse.score <= h.score
                     /\ StatusRank(worse.status) >= StatusRank(h.status)

MoreIsWorse(e, w) ==
  /\ Heuristic(e, w).score \in 0 .. 100
  /\ Worsens(Heuristic(e, w), Heuristic(e + 1, w))
  /\ Worsens(Heuristic(e, w), Heuristic(e, w + 1))
  /\ Heuristic(e + 1, w).status # "healthy"

\* More trouble never reads better: another error or warning neither raises the
\* heuristic score nor improves its status, and an error is never "healthy".
HeuristicIsMonotone == \A e \in 0 .. 7, w \in 0 .. 26 : MoreIsWorse(e, w)

-----------------------------------------------------------------------------
(* The inductive invariant of the completions *)

AgentTypeOK == /\ mode \in Modes
               /\ ask \in [Calls -> AskStates]
               /\ tried \in [Calls -> Seq(Configured)]

\* What has been tried is the beginning of the candidates: one where there is no
\* fail-over, all of them where a completion failed.
TriedShape ==
  \A q \in Calls :
    /\ Len(tried[q]) <= Len(Candidates)
    /\ \A i \in DOMAIN tried[q] : tried[q][i] = Candidates[i]
    /\ ask[q] = "idle" => tried[q] = <<>>
    /\ ask[q] \in {"calling", "resting", "ok"} => tried[q] # <<>> /\ mode # "nokey"
    /\ ask[q] = "resting" => mode = "cloud" /\ Len(tried[q]) < Len(Candidates)
    /\ mode = "local" => Len(tried[q]) <= 1
    /\ ask[q] = "failed" => Len(tried[q]) = CASE mode = "cloud" -> Len(Candidates)
                                             [] mode = "local" -> 1
                                             [] mode = "nokey" -> 0

AgentInv == AgentTypeOK /\ TriedShape
=============================================================================
