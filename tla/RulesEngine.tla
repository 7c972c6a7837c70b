----------------------------- MODULE RulesEngine -----------------------------
(***************************************************************************)
(* What the rules engine (internal/rules/engine.go) makes of one AMQP      *)
(* method, or of one message of the management API: an alert, or nothing.  *)
(*                                                                         *)
(* A method is what the decoder (internal/amqp/decoder.go) gives the       *)
(* engine: its name, whether its arguments could be parsed, the queue,     *)
(* exchange or tag it names, a number (reply code, heartbeat or HTTP       *)
(* status), and its marks: the bits that are set and the words the engine  *)
(* looks for in its texts.  Of an alert's sentence (Layman) what remains   *)
(* is what updateTopologyFromAlert finds in it again: marks for            *)
(* "durable=true" and the like, and the consumer tag after "tag=", if any. *)
(***************************************************************************)
EXTENDS Integers, Sequences

CONSTANTS NoName   \* the empty string, where a name could be

Plain(name) == [name |-> name, parsed |-> TRUE, entity |-> NoName,
                tag |-> NoName, marks |-> {}, code |-> 0]

Named(name, entity) == [Plain(name) EXCEPT !.entity = entity]

Coded(name, code, words) == [Plain(name) EXCEPT !.code = code, !.marks = words]

Alert(severity, id, rule) ==
  [severity |-> severity, id |-> id, rule |-> rule,
   entity |-> NoName, tag |-> {}, marks |-> {}]

NoAlert == Alert("none", "none", "none")

(***************************************************************************)
(* The methods whose severity and rule do not depend on their arguments,   *)
(* parsed or not.                                                          *)
(***************************************************************************)
ConnectionRules ==
  { <<"connection.start", "info", "0.1", "connection_negotiation">>,
    <<"connection.open", "info", "0.3", "connection_opened">>,
    <<"connection.open-ok", "info", "0.3", "connection_opened">>,
    <<"connection.close-ok", "info", "0.4", "connection_closed_ok">>,
    <<"connection.unblocked", "info", "2.0", "connection_unblocked">>,
    <<"channel.open", "info", "0.5", "channel_opened">>,
    <<"channel.open-ok", "info", "0.5", "channel_opened">>,
    <<"channel.close-ok", "info", "0.6", "channel_closed_ok">> }

EntityRules ==
  { <<"exchange.declare", "info", "0.7", "exchange_declare">>,
    <<"exchange.declare-ok", "info", "0.7", "exchange_declare">>,
    <<"exchange.delete", "warn", "0.8", "exchange_deleted">>,
    <<"exchange.delete-ok", "info", "0.8", "exchange_deleted">>,
    <<"exchange.bind", "info", "0.9", "exchange_bind">>,
    <<"exchange.unbind", "info", "0.9", "exchange_unbind">>,
    <<"queue.declare", "info", "0.10", "queue_declare">>,
    <<"queue.declare-ok", "info", "0.10", "queue_declare">>,
    <<"queue.bind", "info", "0.11", "queue_bind">>,
    <<"queue.bind-ok", "info", "0.11", "queue_bind">>,
    <<"queue.unbind", "info", "0.11", "queue_unbind">>,
    <<"queue.purge", "warn", "0.12", "queue_purged">>,
    <<"queue.purge-ok", "info", "0.12", "queue_purged">>,
    <<"queue.delete", "warn", "0.13", "queue_deleted">> }

BasicRules ==
  { <<"basic.qos", "info", "0.14", "basic_qos">>,
    <<"basic.consume", "info", "0.15", "consumer_registered">>,
    <<"basic.consume-ok", "info", "0.15", "consumer_registered">>,
    <<"basic.cancel", "warn", "0.16", "consumer_cancelled">>,
    <<"basic.publish", "info", "0.17", "message_published">>,
    <<"basic.reject", "warn", "4.3", "message_rejected">>,
    <<"basic.nack", "warn", "4.4", "message_nacked">>,
    <<"tx.select", "info", "0.20", "tx_begin">>,
    <<"tx.commit", "info", "0.20", "tx_commit">>,
    <<"tx.rollback", "warn", "0.21", "tx_rollback">> }

FixedRules == ConnectionRules \cup EntityRules \cup BasicRules
FixedNames == {r[1] : r \in FixedRules}

RowAlert(row) == Alert(row[2], row[3], row[4])

FixedRule(name) == RowAlert(CHOOSE row \in FixedRules : row[1] = name)

\* The methods whose alert names what they are about.
Naming == {"exchange.declare", "exchange.delete", "queue.declare",
           "queue.purge", "queue.delete", "basic.consume", "basic.cancel",
           "basic.publish", "basic.return"}

(***************************************************************************)
(* The flags that updateTopologyFromAlert can find in the sentence.  The   *)
(* sentence about an exchange says "durable", never "durable=true", and    *)
(* that about a passive declaration gives no flags.                        *)
(***************************************************************************)
FlagsIn(m) ==
  CASE m.name = "queue.declare" /\ "passive" \notin m.marks ->
         m.marks \cap {"durable", "exclusive", "auto-delete"}
    [] m.name = "basic.consume" -> m.marks \cap {"exclusive"}
    [] OTHER -> {}

(***************************************************************************)
(* The evaluators of single methods are ladders of conditions: the first   *)
(* that holds decides.  A rung gives its alert when its condition holds.   *)
(***************************************************************************)
When(condition, alert) == IF condition THEN {alert} ELSE {}

IsFirst(i, ladder) == ladder[i] # {} /\ \A j \in 1..(i - 1) : ladder[j] = {}

FirstMatch(ladder) ==
  CHOOSE alert \in ladder[CHOOSE i \in DOMAIN ladder : IsFirst(i, ladder)] : TRUE

Unclassified(m, id, rule) ==
  Alert(IF m.code >= 500 THEN "error" ELSE "warn", id, rule)

\* Mutant: any close with code 320 is taken for missed heartbeats.
ConnectionCloseAny320(m) ==
  IF m.code = 320 THEN Alert("error", "1.2", "missed_heartbeats")
                  ELSE NoAlert

ConnectionCloseRungs(m) == <<
  When(~m.parsed, Alert("warn", "0.x", "connection_close_unparseable")),
  When(m.code = 403, Alert("error", "1.1", "authentication_refused")),
  When(m.code = 320 /\ "heartbeat" \in m.marks,
    Alert("error", "1.2", "missed_heartbeats")),
  When(m.code = 320 /\ "connection_limit" \in m.marks,
    Alert("error", "1.3", "connection_limit_exceeded")),
  When(m.code = 501, Alert("error", "3.4", "frame_size_exceeded")),
  When(m.code = 406 /\ "delivery_acknowledgement" \in m.marks,
    Alert("error", "4.1", "consumer_acknowledgement_timeout")),
  When(m.code = 200, Alert("info", "0.4", "connection_closed_cleanly")),
  When(TRUE, Unclassified(m, "1.x", "connection_closed_unexpectedly")) >>

ConnectionClose(m) == FirstMatch(ConnectionCloseRungs(m))

ChannelCloseRungs(m) == <<
  When(~m.parsed, Alert("warn", "0.x", "channel_close_unparseable")),
  When(m.code = 503, Alert("error", "2.3", "channel_limit_exceeded")),
  When(m.code = 406, Alert("error", "3.1", "topology_mismatch")),
  When(m.code = 405, Alert("error", "2.4", "resource_locked")),
  When(m.code = 404, Alert("error", "3.3", "entity_not_found")),
  When(m.code = 501, Alert("error", "3.4", "frame_size_exceeded")),
  When(m.code = 406 /\ "delivery_acknowledgement" \in m.marks,
    Alert("error", "4.1", "consumer_acknowledgement_timeout")),
  When(m.code = 200, Alert("info", "0.6", "channel_closed_cleanly")),
  When(TRUE, Unclassified(m, "3.x", "channel_closed_unexpectedly")) >>

ChannelClose(m) == FirstMatch(ChannelCloseRungs(m))

ConnectionTune(m) == IF m.parsed /\ m.code > 60
  THEN Alert("warn", "1.4", "connection_tune_override")
  ELSE Alert("info", "0.2", "connection_tune")

ConnectionBlockedRungs(m) == <<
  When(~m.parsed, Alert("warn", "2.0", "connection_blocked")),
  When("memory" \in m.marks, Alert("warn", "2.1", "memory_watermark_alarm")),
  When("disk" \in m.marks, Alert("warn", "2.2", "disk_watermark_alarm")),
  When(TRUE, Alert("warn", "2.0", "connection_blocked")) >>

ConnectionBlocked(m) == FirstMatch(ConnectionBlockedRungs(m))

ChannelFlowRungs(m) == <<
  When(~m.parsed, Alert("warn", "2.5", "channel_flow_unparseable")),
  When("active" \in m.marks, Alert("info", "2.5", "channel_flow_resumed")),
  When(TRUE, Alert("error", "2.5", "channel_flow_throttled")) >>

ChannelFlow(m) == FirstMatch(ChannelFlowRungs(m))

BasicReturnRungs(m) == <<
  When(~m.parsed, Alert("error", "3.2", "unroutable_message")),
  When(m.code \in {312, 313}, Alert("warn", "3.2", "unroutable_message")),
  When(TRUE, Alert("warn", "3.2", "message_returned")) >>

BasicReturn(m) == FirstMatch(BasicReturnRungs(m))

\* Rule and severity of a method; most are silent or fixed.
RuleOf(m) ==
  CASE m.name = "connection.close" -> ConnectionClose(m)
    [] m.name = "connection.tune" -> ConnectionTune(m)
    [] m.name = "connection.blocked" -> ConnectionBlocked(m)
    [] m.name = "channel.close" -> ChannelClose(m)
    [] m.name = "channel.flow" -> ChannelFlow(m)
    [] m.name = "basic.return" -> BasicReturn(m)
    [] m.name \in FixedNames -> FixedRule(m.name)
    [] OTHER -> NoAlert

EvaluateMethod(m) == IF ~m.parsed THEN RuleOf(m) ELSE
  [RuleOf(m) EXCEPT !.entity = IF m.name \in Naming THEN m.entity ELSE NoName,
                    !.tag = IF m.name = "basic.consume" THEN {m.tag} ELSE {},
                    !.marks = FlagsIn(m)]

\* A response of the management API.
ResponseRungs(m) == <<
  When(m.code \in {401, 403}, Alert("error", "5.1", "management_auth_failure")),
  When(m.code >= 400, Alert("warn", "5.2", "management_api_error")),
  When(TRUE, NoAlert) >>

EvaluateHTTPResponse(m) == FirstMatch(ResponseRungs(m))

(***************************************************************************)
(* A request: its marks are the HTTP method and the parts of the path that *)
(* are looked for; its entity is the last part, or, before "/publish", the *)
(* last but one.                                                           *)
(***************************************************************************)
RequestRungs(m) == <<
  When(m.marks \cap {"PUT", "POST"} # {} /\ "/api/queues/" \in m.marks,
    [Alert("warn", "5.3", "management_resource_created")
       EXCEPT !.entity = m.entity]),
  When({"POST", "/api/exchanges/", "/publish"} \subseteq m.marks,
    [Alert("warn", "5.4", "management_message_published")
       EXCEPT !.entity = m.entity]),
  When(TRUE, NoAlert) >>

EvaluateHTTPRequest(m) == FirstMatch(RequestRungs(m))

\* What the stream's goroutine asks of the engine.
Evaluate(m) == CASE m.name = "http.request" -> EvaluateHTTPRequest(m)
                 [] m.name = "http.response" -> EvaluateHTTPResponse(m)
                 [] OTHER -> EvaluateMethod(m)
=============================================================================
