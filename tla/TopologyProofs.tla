--------------------------- MODULE TopologyProofs ---------------------------
(***************************************************************************)
(* Proofs about RulesEngine and Topology, for every broker, every number   *)
(* of connections, every notice, and any bounds.  First what the ladders   *)
(* of the rules engine decide, and with it the dashboard's catalogue; then *)
(* that TopologyInv is inductive, and so that the topology agrees with the *)
(* broker on entities, consumers and connections.                          *)
(***************************************************************************)
EXTENDS Topology, SequenceTheorems, FiniteSetTheorems, NaturalsInduction,
        WellFoundedInduction, TLAPS

-----------------------------------------------------------------------------
(* What the ladders of the rules engine decide *)

\* A ladder has one first rung that gives something, and it decides.
LEMMA FirstDecides ==
  ASSUME NEW n \in Nat, NEW ladder, DOMAIN ladder = 1..n,
         NEW i \in 1..n, IsFirst(i, ladder),
         NEW a, ladder[i] = {a}
  PROVE  FirstMatch(ladder) = a
<1>1. \A k \in DOMAIN ladder : IsFirst(k, ladder) => k = i
  <2>1. SUFFICES ASSUME NEW k \in DOMAIN ladder, IsFirst(k, ladder), k # i
                 PROVE  FALSE
    OBVIOUS
  <2>2. k < i \/ i < k
    BY <2>1
  <2>3. k \in 1..(i - 1) \/ i \in 1..(k - 1)
    BY <2>2
  <2> QED
    BY <2>1, <2>3 DEF IsFirst
<1>2. (CHOOSE k \in DOMAIN ladder : IsFirst(k, ladder)) = i
  BY <1>1
<1> QED
  BY <1>2 DEF FirstMatch

\* What evaluateConnectionClose decides of the codes it knows.
LEMMA ConnectionCloseDecides ==
  ASSUME NEW m, m.parsed
  PROVE  /\ m.code = 403 =>
              ConnectionClose(m) = Alert("error", "1.1", "authentication_refused")
         /\ m.code = 320 /\ "heartbeat" \in m.marks =>
              ConnectionClose(m) = Alert("error", "1.2", "missed_heartbeats")
         /\ m.code = 320 /\ "connection_limit" \in m.marks /\ "heartbeat" \notin m.marks =>
              ConnectionClose(m) = Alert("error", "1.3", "connection_limit_exceeded")
         /\ m.code = 501 =>
              ConnectionClose(m) = Alert("error", "3.4", "frame_size_exceeded")
         /\ m.code = 406 /\ "delivery_acknowledgement" \in m.marks =>
              ConnectionClose(m) = Alert("error", "4.1", "consumer_acknowledgement_timeout")
         /\ m.code = 200 =>
              ConnectionClose(m) = Alert("info", "0.4", "connection_closed_cleanly")
<1>0. DOMAIN ConnectionCloseRungs(m) = 1..8
  BY DEF ConnectionCloseRungs
<1>1. ASSUME m.code = 403
      PROVE  ConnectionClose(m) = Alert("error", "1.1", "authentication_refused")
  <2>1. IsFirst(2, ConnectionCloseRungs(m)) /\ ConnectionCloseRungs(m)[2] = {Alert("error", "1.1", "authentication_refused")}
    BY <1>1 DEF ConnectionCloseRungs, IsFirst, When
  <2>2. FirstMatch(ConnectionCloseRungs(m)) = Alert("error", "1.1", "authentication_refused")
    BY <1>0, <2>1, FirstDecides, 2 \in 1..8, 8 \in Nat
  <2> QED
    BY <2>2 DEF ConnectionClose
<1>2. ASSUME m.code = 320 /\ "heartbeat" \in m.marks
      PROVE  ConnectionClose(m) = Alert("error", "1.2", "missed_heartbeats")
  <2>1. IsFirst(3, ConnectionCloseRungs(m)) /\ ConnectionCloseRungs(m)[3] = {Alert("error", "1.2", "missed_heartbeats")}
    BY <1>2 DEF ConnectionCloseRungs, IsFirst, When
  <2>2. FirstMatch(ConnectionCloseRungs(m)) = Alert("error", "1.2", "missed_heartbeats")
    BY <1>0, <2>1, FirstDecides, 3 \in 1..8, 8 \in Nat
  <2> QED
    BY <2>2 DEF ConnectionClose
<1>3. ASSUME m.code = 320 /\ "connection_limit" \in m.marks /\ "heartbeat" \notin m.marks
      PROVE  ConnectionClose(m) = Alert("error", "1.3", "connection_limit_exceeded")
  <2>1. IsFirst(4, ConnectionCloseRungs(m)) /\ ConnectionCloseRungs(m)[4] = {Alert("error", "1.3", "connection_limit_exceeded")}
    BY <1>3 DEF ConnectionCloseRungs, IsFirst, When
  <2>2. FirstMatch(ConnectionCloseRungs(m)) = Alert("error", "1.3", "connection_limit_exceeded")
    BY <1>0, <2>1, FirstDecides, 4 \in 1..8, 8 \in Nat
  <2> QED
    BY <2>2 DEF ConnectionClose
<1>4. ASSUME m.code = 501
      PROVE  ConnectionClose(m) = Alert("error", "3.4", "frame_size_exceeded")
  <2>1. IsFirst(5, ConnectionCloseRungs(m)) /\ ConnectionCloseRungs(m)[5] = {Alert("error", "3.4", "frame_size_exceeded")}
    BY <1>4 DEF ConnectionCloseRungs, IsFirst, When
  <2>2. FirstMatch(ConnectionCloseRungs(m)) = Alert("error", "3.4", "frame_size_exceeded")
    BY <1>0, <2>1, FirstDecides, 5 \in 1..8, 8 \in Nat
  <2> QED
    BY <2>2 DEF ConnectionClose
<1>5. ASSUME m.code = 406 /\ "delivery_acknowledgement" \in m.marks
      PROVE  ConnectionClose(m) = Alert("error", "4.1", "consumer_acknowledgement_timeout")
  <2>1. IsFirst(6, ConnectionCloseRungs(m)) /\ ConnectionCloseRungs(m)[6] = {Alert("error", "4.1", "consumer_acknowledgement_timeout")}
    BY <1>5 DEF ConnectionCloseRungs, IsFirst, When
  <2>2. FirstMatch(ConnectionCloseRungs(m)) = Alert("error", "4.1", "consumer_acknowledgement_timeout")
    BY <1>0, <2>1, FirstDecides, 6 \in 1..8, 8 \in Nat
  <2> QED
    BY <2>2 DEF ConnectionClose
<1>6. ASSUME m.code = 200
      PROVE  ConnectionClose(m) = Alert("info", "0.4", "connection_closed_cleanly")
  <2>1. IsFirst(7, ConnectionCloseRungs(m)) /\ ConnectionCloseRungs(m)[7] = {Alert("info", "0.4", "connection_closed_cleanly")}
    BY <1>6 DEF ConnectionCloseRungs, IsFirst, When
  <2>2. FirstMatch(ConnectionCloseRungs(m)) = Alert("info", "0.4", "connection_closed_cleanly")
    BY <1>0, <2>1, FirstDecides, 7 \in 1..8, 8 \in Nat
  <2> QED
    BY <2>2 DEF ConnectionClose
<1> QED
  BY <1>1, <1>2, <1>3, <1>4, <1>5, <1>6

\* What evaluateChannelClose decides of the codes in the catalogue.
LEMMA ChannelCloseDecides ==
  ASSUME NEW m, m.parsed
  PROVE  /\ m.code = 503 =>
              ChannelClose(m) = Alert("error", "2.3", "channel_limit_exceeded")
         /\ m.code = 406 =>
              ChannelClose(m) = Alert("error", "3.1", "topology_mismatch")
         /\ m.code = 404 =>
              ChannelClose(m) = Alert("error", "3.3", "entity_not_found")
         /\ m.code = 501 =>
              ChannelClose(m) = Alert("error", "3.4", "frame_size_exceeded")
<1>0. DOMAIN ChannelCloseRungs(m) = 1..9
  BY DEF ChannelCloseRungs
<1>1. ASSUME m.code = 503
      PROVE  ChannelClose(m) = Alert("error", "2.3", "channel_limit_exceeded")
  <2>1. IsFirst(2, ChannelCloseRungs(m)) /\ ChannelCloseRungs(m)[2] = {Alert("error", "2.3", "channel_limit_exceeded")}
    BY <1>1 DEF ChannelCloseRungs, IsFirst, When
  <2>2. FirstMatch(ChannelCloseRungs(m)) = Alert("error", "2.3", "channel_limit_exceeded")
    BY <1>0, <2>1, FirstDecides, 2 \in 1..9, 9 \in Nat
  <2> QED
    BY <2>2 DEF ChannelClose
<1>2. ASSUME m.code = 406
      PROVE  ChannelClose(m) = Alert("error", "3.1", "topology_mismatch")
  <2>1. IsFirst(3, ChannelCloseRungs(m)) /\ ChannelCloseRungs(m)[3] = {Alert("error", "3.1", "topology_mismatch")}
    BY <1>2 DEF ChannelCloseRungs, IsFirst, When
  <2>2. FirstMatch(ChannelCloseRungs(m)) = Alert("error", "3.1", "topology_mismatch")
    BY <1>0, <2>1, FirstDecides, 3 \in 1..9, 9 \in Nat
  <2> QED
    BY <2>2 DEF ChannelClose
<1>3. ASSUME m.code = 404
      PROVE  ChannelClose(m) = Alert("error", "3.3", "entity_not_found")
  <2>1. IsFirst(5, ChannelCloseRungs(m)) /\ ChannelCloseRungs(m)[5] = {Alert("error", "3.3", "entity_not_found")}
    BY <1>3 DEF ChannelCloseRungs, IsFirst, When
  <2>2. FirstMatch(ChannelCloseRungs(m)) = Alert("error", "3.3", "entity_not_found")
    BY <1>0, <2>1, FirstDecides, 5 \in 1..9, 9 \in Nat
  <2> QED
    BY <2>2 DEF ChannelClose
<1>4. ASSUME m.code = 501
      PROVE  ChannelClose(m) = Alert("error", "3.4", "frame_size_exceeded")
  <2>1. IsFirst(6, ChannelCloseRungs(m)) /\ ChannelCloseRungs(m)[6] = {Alert("error", "3.4", "frame_size_exceeded")}
    BY <1>4 DEF ChannelCloseRungs, IsFirst, When
  <2>2. FirstMatch(ChannelCloseRungs(m)) = Alert("error", "3.4", "frame_size_exceeded")
    BY <1>0, <2>1, FirstDecides, 6 \in 1..9, 9 \in Nat
  <2> QED
    BY <2>2 DEF ChannelClose
<1> QED
  BY <1>1, <1>2, <1>3, <1>4

\* What evaluateConnectionBlocked decides.
LEMMA ConnectionBlockedDecides ==
  ASSUME NEW m, m.parsed
  PROVE  /\ "memory" \in m.marks =>
              ConnectionBlocked(m) = Alert("warn", "2.1", "memory_watermark_alarm")
         /\ "disk" \in m.marks /\ "memory" \notin m.marks =>
              ConnectionBlocked(m) = Alert("warn", "2.2", "disk_watermark_alarm")
<1>0. DOMAIN ConnectionBlockedRungs(m) = 1..4
  BY DEF ConnectionBlockedRungs
<1>1. ASSUME "memory" \in m.marks
      PROVE  ConnectionBlocked(m) = Alert("warn", "2.1", "memory_watermark_alarm")
  <2>1. IsFirst(2, ConnectionBlockedRungs(m)) /\ ConnectionBlockedRungs(m)[2] = {Alert("warn", "2.1", "memory_watermark_alarm")}
    BY <1>1 DEF ConnectionBlockedRungs, IsFirst, When
  <2>2. FirstMatch(ConnectionBlockedRungs(m)) = Alert("warn", "2.1", "memory_watermark_alarm")
    BY <1>0, <2>1, FirstDecides, 2 \in 1..4, 4 \in Nat
  <2> QED
    BY <2>2 DEF ConnectionBlocked
<1>2. ASSUME "disk" \in m.marks /\ "memory" \notin m.marks
      PROVE  ConnectionBlocked(m) = Alert("warn", "2.2", "disk_watermark_alarm")
  <2>1. IsFirst(3, ConnectionBlockedRungs(m)) /\ ConnectionBlockedRungs(m)[3] = {Alert("warn", "2.2", "disk_watermark_alarm")}
    BY <1>2 DEF ConnectionBlockedRungs, IsFirst, When
  <2>2. FirstMatch(ConnectionBlockedRungs(m)) = Alert("warn", "2.2", "disk_watermark_alarm")
    BY <1>0, <2>1, FirstDecides, 3 \in 1..4, 4 \in Nat
  <2> QED
    BY <2>2 DEF ConnectionBlocked
<1> QED
  BY <1>1, <1>2

\* What evaluateBasicReturn decides of a message without a route.
LEMMA BasicReturnDecides ==
  ASSUME NEW m, m.parsed
  PROVE  /\ m.code = 312 =>
              BasicReturn(m) = Alert("warn", "3.2", "unroutable_message")
<1>0. DOMAIN BasicReturnRungs(m) = 1..3
  BY DEF BasicReturnRungs
<1>1. ASSUME m.code = 312
      PROVE  BasicReturn(m) = Alert("warn", "3.2", "unroutable_message")
  <2>1. IsFirst(2, BasicReturnRungs(m)) /\ BasicReturnRungs(m)[2] = {Alert("warn", "3.2", "unroutable_message")}
    BY <1>1 DEF BasicReturnRungs, IsFirst, When
  <2>2. FirstMatch(BasicReturnRungs(m)) = Alert("warn", "3.2", "unroutable_message")
    BY <1>0, <2>1, FirstDecides, 2 \in 1..3, 3 \in Nat
  <2> QED
    BY <2>2 DEF BasicReturn
<1> QED
  BY <1>1

\* What EvaluateHTTPResponse decides of a refusal.
LEMMA EvaluateHTTPResponseDecides ==
  ASSUME NEW m
  PROVE  /\ m.code = 401 \/ m.code = 403 =>
              EvaluateHTTPResponse(m) = Alert("error", "5.1", "management_auth_failure")
<1>0. DOMAIN ResponseRungs(m) = 1..3
  BY DEF ResponseRungs
<1>1. ASSUME m.code = 401 \/ m.code = 403
      PROVE  EvaluateHTTPResponse(m) = Alert("error", "5.1", "management_auth_failure")
  <2>1. IsFirst(1, ResponseRungs(m)) /\ ResponseRungs(m)[1] = {Alert("error", "5.1", "management_auth_failure")}
    BY <1>1 DEF ResponseRungs, IsFirst, When
  <2>2. FirstMatch(ResponseRungs(m)) = Alert("error", "5.1", "management_auth_failure")
    BY <1>0, <2>1, FirstDecides, 1 \in 1..3, 3 \in Nat
  <2> QED
    BY <2>2 DEF EvaluateHTTPResponse
<1> QED
  BY <1>1

\* The methods with a ladder of their own.
LEMMA RuleByName ==
  ASSUME NEW m
  PROVE  /\ m.name = "connection.close" => RuleOf(m) = ConnectionClose(m)
         /\ m.name = "connection.blocked" => RuleOf(m) = ConnectionBlocked(m)
         /\ m.name = "channel.close" => RuleOf(m) = ChannelClose(m)
         /\ m.name = "basic.return" => RuleOf(m) = BasicReturn(m)
<1>1. \A x \in FixedRules : x[1] \notin {"connection.close", "connection.blocked",
                                        "channel.close", "basic.return"}
  BY DEF FixedRules, ConnectionRules, EntityRules, BasicRules
<1>2. FixedNames \cap {"connection.close", "connection.blocked", "channel.close",
                       "basic.return"} = {}
  BY <1>1 DEF FixedNames
<1> QED
  BY <1>2 DEF RuleOf

\* The alert has the rule and the severity that RuleOf gives.
LEMMA AlertOfRule ==
  ASSUME NEW m, m.parsed, m.name \notin {"http.request", "http.response"},
         NEW s, NEW i, NEW r, RuleOf(m) = Alert(s, i, r)
  PROVE  Evaluate(m).id = i /\ Evaluate(m).severity = s
<1>1. Evaluate(m) = EvaluateMethod(m)
  BY DEF Evaluate
<1> QED
  BY <1>1 DEF EvaluateMethod, Alert

\* The two rules of the catalogue whose methods are not looked into.
LEMMA RejectionRules ==
  ASSUME NEW m
  PROVE  /\ m.name = "basic.reject" => RuleOf(m) = Alert("warn", "4.3", "message_rejected")
         /\ m.name = "basic.nack" => RuleOf(m) = Alert("warn", "4.4", "message_nacked")
<1>1. \A x \in FixedRules : x[1] = "basic.reject" =>
        x = <<"basic.reject", "warn", "4.3", "message_rejected">>
  BY DEF FixedRules, ConnectionRules, EntityRules, BasicRules
<1>2. \A x \in FixedRules : x[1] = "basic.nack" =>
        x = <<"basic.nack", "warn", "4.4", "message_nacked">>
  BY DEF FixedRules, ConnectionRules, EntityRules, BasicRules
<1>3. /\ <<"basic.reject", "warn", "4.3", "message_rejected">> \in FixedRules
      /\ <<"basic.nack", "warn", "4.4", "message_nacked">> \in FixedRules
  BY DEF FixedRules, BasicRules
<1>4. ASSUME m.name = "basic.reject"
      PROVE  RuleOf(m) = Alert("warn", "4.3", "message_rejected")
  <2>1. (CHOOSE row \in FixedRules : row[1] = m.name)
          = <<"basic.reject", "warn", "4.3", "message_rejected">>
    BY <1>1, <1>3, <1>4
  <2>2. FixedRule(m.name) = RowAlert(<<"basic.reject", "warn", "4.3", "message_rejected">>)
    BY <2>1, Zenon DEF FixedRule
  <2>3. RowAlert(<<"basic.reject", "warn", "4.3", "message_rejected">>) = Alert("warn", "4.3", "message_rejected")
    BY DEF RowAlert
  <2>4. m.name \in FixedNames
    BY <1>3, <1>4 DEF FixedNames
  <2> QED
    BY <1>4, <2>2, <2>3, <2>4 DEF RuleOf
<1>5. ASSUME m.name = "basic.nack"
      PROVE  RuleOf(m) = Alert("warn", "4.4", "message_nacked")
  <2>1. (CHOOSE row \in FixedRules : row[1] = m.name)
          = <<"basic.nack", "warn", "4.4", "message_nacked">>
    BY <1>2, <1>3, <1>5
  <2>2. FixedRule(m.name) = RowAlert(<<"basic.nack", "warn", "4.4", "message_nacked">>)
    BY <2>1, Zenon DEF FixedRule
  <2>3. RowAlert(<<"basic.nack", "warn", "4.4", "message_nacked">>) = Alert("warn", "4.4", "message_nacked")
    BY DEF RowAlert
  <2>4. m.name \in FixedNames
    BY <1>3, <1>5 DEF FixedNames
  <2> QED
    BY <1>5, <2>2, <2>3, <2>4 DEF RuleOf
<1> QED
  BY <1>4, <1>5

\* Every trigger in the dashboard's catalogue raises the rule and the severity
\* that the catalogue gives it, whatever else the method says.
LEMMA CatalogueOfRules ==
  ASSUME NEW m, NEW row \in Catalogue, Triggers(row, m)
  PROVE  Evaluate(m).id = row[4] /\ Evaluate(m).severity = row[5]
<1>0. m.parsed /\ m.name = row[1] /\ m.code = row[2] /\ (row[3] # "" => m.marks = {row[3]})
  BY DEF Triggers
<1>1. CASE row = <<"connection.close", 403, "", "1.1", "error">>
  <2>1. m.parsed /\ m.name = "connection.close" /\ m.code = 403
    BY <1>0, <1>1
  <2>2. ConnectionClose(m) = Alert("error", "1.1", "authentication_refused")
    BY <2>1, ConnectionCloseDecides
  <2>3. RuleOf(m) = Alert("error", "1.1", "authentication_refused")
    BY <2>1, <2>2, RuleByName
  <2>4. Evaluate(m).id = "1.1" /\ Evaluate(m).severity = "error"
    BY <2>1, <2>3, AlertOfRule
  <2> QED
    BY <1>1, <2>4
<1>2. CASE row = <<"connection.close", 320, "heartbeat", "1.2", "error">>
  <2>1. m.parsed /\ m.name = "connection.close" /\ m.code = 320 /\ m.marks = {"heartbeat"}
    BY <1>0, <1>2
  <2>2. ConnectionClose(m) = Alert("error", "1.2", "missed_heartbeats")
    BY <2>1, ConnectionCloseDecides
  <2>3. RuleOf(m) = Alert("error", "1.2", "missed_heartbeats")
    BY <2>1, <2>2, RuleByName
  <2>4. Evaluate(m).id = "1.2" /\ Evaluate(m).severity = "error"
    BY <2>1, <2>3, AlertOfRule
  <2> QED
    BY <1>2, <2>4
<1>3. CASE row = <<"connection.close", 320, "connection_limit", "1.3", "error">>
  <2>1. m.parsed /\ m.name = "connection.close" /\ m.code = 320 /\ m.marks = {"connection_limit"}
    BY <1>0, <1>3
  <2>2. ConnectionClose(m) = Alert("error", "1.3", "connection_limit_exceeded")
    BY <2>1, ConnectionCloseDecides
  <2>3. RuleOf(m) = Alert("error", "1.3", "connection_limit_exceeded")
    BY <2>1, <2>2, RuleByName
  <2>4. Evaluate(m).id = "1.3" /\ Evaluate(m).severity = "error"
    BY <2>1, <2>3, AlertOfRule
  <2> QED
    BY <1>3, <2>4
<1>4. CASE row = <<"connection.blocked", 0, "memory", "2.1", "warn">>
  <2>1. m.parsed /\ m.name = "connection.blocked" /\ m.code = 0 /\ m.marks = {"memory"}
    BY <1>0, <1>4
  <2>2. ConnectionBlocked(m) = Alert("warn", "2.1", "memory_watermark_alarm")
    BY <2>1, ConnectionBlockedDecides
  <2>3. RuleOf(m) = Alert("warn", "2.1", "memory_watermark_alarm")
    BY <2>1, <2>2, RuleByName
  <2>4. Evaluate(m).id = "2.1" /\ Evaluate(m).severity = "warn"
    BY <2>1, <2>3, AlertOfRule
  <2> QED
    BY <1>4, <2>4
<1>5. CASE row = <<"connection.blocked", 0, "disk", "2.2", "warn">>
  <2>1. m.parsed /\ m.name = "connection.blocked" /\ m.code = 0 /\ m.marks = {"disk"}
    BY <1>0, <1>5
  <2>2. ConnectionBlocked(m) = Alert("warn", "2.2", "disk_watermark_alarm")
    BY <2>1, ConnectionBlockedDecides
  <2>3. RuleOf(m) = Alert("warn", "2.2", "disk_watermark_alarm")
    BY <2>1, <2>2, RuleByName
  <2>4. Evaluate(m).id = "2.2" /\ Evaluate(m).severity = "warn"
    BY <2>1, <2>3, AlertOfRule
  <2> QED
    BY <1>5, <2>4
<1>6. CASE row = <<"channel.close", 406, "", "3.1", "error">>
  <2>1. m.parsed /\ m.name = "channel.close" /\ m.code = 406
    BY <1>0, <1>6
  <2>2. ChannelClose(m) = Alert("error", "3.1", "topology_mismatch")
    BY <2>1, ChannelCloseDecides
  <2>3. RuleOf(m) = Alert("error", "3.1", "topology_mismatch")
    BY <2>1, <2>2, RuleByName
  <2>4. Evaluate(m).id = "3.1" /\ Evaluate(m).severity = "error"
    BY <2>1, <2>3, AlertOfRule
  <2> QED
    BY <1>6, <2>4
<1>7. CASE row = <<"channel.close", 404, "", "3.3", "error">>
  <2>1. m.parsed /\ m.name = "channel.close" /\ m.code = 404
    BY <1>0, <1>7
  <2>2. ChannelClose(m) = Alert("error", "3.3", "entity_not_found")
    BY <2>1, ChannelCloseDecides
  <2>3. RuleOf(m) = Alert("error", "3.3", "entity_not_found")
    BY <2>1, <2>2, RuleByName
  <2>4. Evaluate(m).id = "3.3" /\ Evaluate(m).severity = "error"
    BY <2>1, <2>3, AlertOfRule
  <2> QED
    BY <1>7, <2>4
<1>8. CASE row = <<"basic.return", 312, "", "3.2", "warn">>
  <2>1. m.parsed /\ m.name = "basic.return" /\ m.code = 312
    BY <1>0, <1>8
  <2>2. BasicReturn(m) = Alert("warn", "3.2", "unroutable_message")
    BY <2>1, BasicReturnDecides
  <2>3. RuleOf(m) = Alert("warn", "3.2", "unroutable_message")
    BY <2>1, <2>2, RuleByName
  <2>4. Evaluate(m).id = "3.2" /\ Evaluate(m).severity = "warn"
    BY <2>1, <2>3, AlertOfRule
  <2> QED
    BY <1>8, <2>4
<1>9. CASE row = <<"channel.close", 501, "", "3.4", "error">>
  <2>1. m.parsed /\ m.name = "channel.close" /\ m.code = 501
    BY <1>0, <1>9
  <2>2. ChannelClose(m) = Alert("error", "3.4", "frame_size_exceeded")
    BY <2>1, ChannelCloseDecides
  <2>3. RuleOf(m) = Alert("error", "3.4", "frame_size_exceeded")
    BY <2>1, <2>2, RuleByName
  <2>4. Evaluate(m).id = "3.4" /\ Evaluate(m).severity = "error"
    BY <2>1, <2>3, AlertOfRule
  <2> QED
    BY <1>9, <2>4
<1>10. CASE row = <<"connection.close", 501, "", "3.4", "error">>
  <2>1. m.parsed /\ m.name = "connection.close" /\ m.code = 501
    BY <1>0, <1>10
  <2>2. ConnectionClose(m) = Alert("error", "3.4", "frame_size_exceeded")
    BY <2>1, ConnectionCloseDecides
  <2>3. RuleOf(m) = Alert("error", "3.4", "frame_size_exceeded")
    BY <2>1, <2>2, RuleByName
  <2>4. Evaluate(m).id = "3.4" /\ Evaluate(m).severity = "error"
    BY <2>1, <2>3, AlertOfRule
  <2> QED
    BY <1>10, <2>4
<1>11. CASE row = <<"connection.close", 406, "delivery_acknowledgement", "4.1", "error">>
  <2>1. m.parsed /\ m.name = "connection.close" /\ m.code = 406 /\ m.marks = {"delivery_acknowledgement"}
    BY <1>0, <1>11
  <2>2. ConnectionClose(m) = Alert("error", "4.1", "consumer_acknowledgement_timeout")
    BY <2>1, ConnectionCloseDecides
  <2>3. RuleOf(m) = Alert("error", "4.1", "consumer_acknowledgement_timeout")
    BY <2>1, <2>2, RuleByName
  <2>4. Evaluate(m).id = "4.1" /\ Evaluate(m).severity = "error"
    BY <2>1, <2>3, AlertOfRule
  <2> QED
    BY <1>11, <2>4
<1>12. CASE row = <<"basic.reject", 0, "", "4.3", "warn">>
  <2>1. m.parsed /\ m.name = "basic.reject" /\ m.code = 0
    BY <1>0, <1>12
  <2>3. RuleOf(m) = Alert("warn", "4.3", "message_rejected")
    BY <2>1, RejectionRules
  <2>4. Evaluate(m).id = "4.3" /\ Evaluate(m).severity = "warn"
    BY <2>1, <2>3, AlertOfRule
  <2> QED
    BY <1>12, <2>4
<1>13. CASE row = <<"basic.nack", 0, "", "4.4", "warn">>
  <2>1. m.parsed /\ m.name = "basic.nack" /\ m.code = 0
    BY <1>0, <1>13
  <2>3. RuleOf(m) = Alert("warn", "4.4", "message_nacked")
    BY <2>1, RejectionRules
  <2>4. Evaluate(m).id = "4.4" /\ Evaluate(m).severity = "warn"
    BY <2>1, <2>3, AlertOfRule
  <2> QED
    BY <1>13, <2>4
<1>14. CASE row = <<"http.response", 401, "", "5.1", "error">>
  <2>1. m.parsed /\ m.name = "http.response" /\ m.code = 401
    BY <1>0, <1>14
  <2>2. EvaluateHTTPResponse(m) = Alert("error", "5.1", "management_auth_failure")
    BY <2>1, EvaluateHTTPResponseDecides
  <2>3. Evaluate(m) = Alert("error", "5.1", "management_auth_failure")
    BY <2>1, <2>2 DEF Evaluate
  <2>4. Evaluate(m).id = "5.1" /\ Evaluate(m).severity = "error"
    BY <2>3 DEF Alert
  <2> QED
    BY <1>14, <2>4
<1>15. CASE row = <<"http.response", 403, "", "5.1", "error">>
  <2>1. m.parsed /\ m.name = "http.response" /\ m.code = 403
    BY <1>0, <1>15
  <2>2. EvaluateHTTPResponse(m) = Alert("error", "5.1", "management_auth_failure")
    BY <2>1, EvaluateHTTPResponseDecides
  <2>3. Evaluate(m) = Alert("error", "5.1", "management_auth_failure")
    BY <2>1, <2>2 DEF Evaluate
  <2>4. Evaluate(m).id = "5.1" /\ Evaluate(m).severity = "error"
    BY <2>3 DEF Alert
  <2> QED
    BY <1>15, <2>4
<1>16. ASSUME row \in ConnectionRows
      PROVE  \/ row = <<"connection.close", 403, "", "1.1", "error">>
             \/ row = <<"connection.close", 320, "heartbeat", "1.2", "error">>
             \/ row = <<"connection.close", 320, "connection_limit", "1.3", "error">>
             \/ row = <<"connection.blocked", 0, "memory", "2.1", "warn">>
             \/ row = <<"connection.blocked", 0, "disk", "2.2", "warn">>
             \/ row = <<"connection.close", 501, "", "3.4", "error">>
             \/ row = <<"connection.close", 406, "delivery_acknowledgement", "4.1", "error">>
  BY <1>16, Zenon DEF ConnectionRows
<1>17. ASSUME row \in ChannelRows
      PROVE  \/ row = <<"channel.close", 406, "", "3.1", "error">>
             \/ row = <<"channel.close", 404, "", "3.3", "error">>
             \/ row = <<"channel.close", 501, "", "3.4", "error">>
  BY <1>17, Zenon DEF ChannelRows
<1>18. ASSUME row \in OtherRows
      PROVE  \/ row = <<"basic.return", 312, "", "3.2", "warn">>
             \/ row = <<"basic.reject", 0, "", "4.3", "warn">>
             \/ row = <<"basic.nack", 0, "", "4.4", "warn">>
             \/ row = <<"http.response", 401, "", "5.1", "error">>
             \/ row = <<"http.response", 403, "", "5.1", "error">>
  BY <1>18, Zenon DEF OtherRows
<1>19. row \in ConnectionRows \/ row \in ChannelRows \/ row \in OtherRows
  BY DEF Catalogue
<1>20. CASE row \in ConnectionRows
  BY <1>20, <1>16, <1>1, <1>2, <1>3, <1>4, <1>5, <1>10, <1>11
<1>21. CASE row \in ChannelRows
  BY <1>21, <1>17, <1>6, <1>7, <1>9
<1>22. CASE row \in OtherRows
  BY <1>22, <1>18, <1>8, <1>12, <1>13, <1>14, <1>15
<1> QED
  BY <1>19, <1>20, <1>21, <1>22

\* Whatever the broker and its clients do, what is in flight is reported under
\* the rule and the severity that the dashboard's catalogue gives.
THEOREM CatalogueKept == Spec => []CatalogueHolds
<1>1. CatalogueHolds
  BY CatalogueOfRules DEF CatalogueHolds
<1> QED
  BY <1>1, PTL

-----------------------------------------------------------------------------
(* Which rules change the topology                                         *)

\* A ladder that has a rung for everything gives an alert of one of its rungs.
LEMMA SomeRungDecides ==
  ASSUME NEW n \in Nat, NEW ladder, DOMAIN ladder = 1..n, n # 0, ladder[n] # {}
  PROVE  \E i \in 1..n : FirstMatch(ladder) \in ladder[i]
<1> DEFINE S == {i \in 1..n : ladder[i] # {}}
<1>1. S \in SUBSET Nat /\ S # {}
  OBVIOUS
<1>2. PICK i \in S : \A j \in S : ~(<<j, i>> \in OpToRel(<, Nat))
  BY <1>1, WFMin, NatLessThanWellFounded, Zenon
<1>3. \A j \in S : ~(j < i)
  BY <1>1, <1>2, Zenon DEF OpToRel
<1>4. IsFirst(i, ladder)
  BY <1>3 DEF IsFirst
<1> DEFINE k == CHOOSE j \in DOMAIN ladder : IsFirst(j, ladder)
<1>5. k \in 1..n /\ IsFirst(k, ladder)
  BY <1>4
<1> HIDE DEF k
<1>6. (CHOOSE alert \in ladder[k] : TRUE) \in ladder[k]
  BY <1>5 DEF IsFirst
<1> QED
  BY <1>5, <1>6 DEF FirstMatch, k

\* Without its entity, tag and marks an alert is that of a rule.
OfRule(a, r) == \E s, i : a = Alert(s, i, r)

ShapingRules == {"queue_declare", "exchange_declare", "queue_deleted", "exchange_deleted",
                 "consumer_registered", "consumer_cancelled", "connection_opened"}

\* Of the ladders only that for connection.close gives a rule that changes the topology.
LEMMA LadderRules ==
  ASSUME NEW m
  PROVE  /\ \E r : r \notin ShapingRules /\ OfRule(ConnectionClose(m), r)
         /\ \E r : /\ r \notin ShapingRules \cup ClosingRules
                  /\ OfRule(ConnectionTune(m), r)
         /\ \E r : /\ r \notin ShapingRules \cup ClosingRules
                  /\ OfRule(ConnectionBlocked(m), r)
         /\ \E r : /\ r \notin ShapingRules \cup ClosingRules
                  /\ OfRule(ChannelClose(m), r)
         /\ \E r : /\ r \notin ShapingRules \cup ClosingRules
                  /\ OfRule(ChannelFlow(m), r)
         /\ \E r : /\ r \notin ShapingRules \cup ClosingRules
                  /\ OfRule(BasicReturn(m), r)
<1>1. \E r : r \notin ShapingRules /\ OfRule(ConnectionClose(m), r)
  <2>1. PICK i \in 1..8 : ConnectionClose(m) \in ConnectionCloseRungs(m)[i]
    <3>1. DOMAIN ConnectionCloseRungs(m) = 1..8 /\ ConnectionCloseRungs(m)[8] # {}
      BY DEF ConnectionCloseRungs, When
    <3> QED
      BY <3>1, SomeRungDecides, 8 \in Nat, 8 # 0 DEF ConnectionClose
  <2>2. \E s, t, r : r \notin ShapingRules /\ ConnectionClose(m) = Alert(s, t, r)
    BY <2>1 DEF ConnectionCloseRungs, When, Unclassified, ShapingRules
  <2> QED
    BY <2>2, Zenon DEF OfRule
<1>2. \E r : r \notin ShapingRules \cup ClosingRules /\ OfRule(ConnectionTune(m), r)
  <2>1. \E s, t, r : /\ r \notin ShapingRules \cup ClosingRules
                    /\ ConnectionTune(m) = Alert(s, t, r)
    BY DEF ConnectionTune, ShapingRules, ClosingRules
  <2> QED
    BY <2>1, Zenon DEF OfRule
<1>3. \E r : r \notin ShapingRules \cup ClosingRules /\ OfRule(ConnectionBlocked(m), r)
  <2>1. PICK i \in 1..4 : ConnectionBlocked(m) \in ConnectionBlockedRungs(m)[i]
    <3>1. DOMAIN ConnectionBlockedRungs(m) = 1..4 /\ ConnectionBlockedRungs(m)[4] # {}
      BY DEF ConnectionBlockedRungs, When
    <3> QED
      BY <3>1, SomeRungDecides, 4 \in Nat, 4 # 0 DEF ConnectionBlocked
  <2>2. \E s, t, r : /\ r \notin ShapingRules \cup ClosingRules
                    /\ ConnectionBlocked(m) = Alert(s, t, r)
    BY <2>1 DEF ConnectionBlockedRungs, When, ShapingRules, ClosingRules
  <2> QED
    BY <2>2, Zenon DEF OfRule
<1>4. \E r : r \notin ShapingRules \cup ClosingRules /\ OfRule(ChannelClose(m), r)
  <2>1. PICK i \in 1..9 : ChannelClose(m) \in ChannelCloseRungs(m)[i]
    <3>1. DOMAIN ChannelCloseRungs(m) = 1..9 /\ ChannelCloseRungs(m)[9] # {}
      BY DEF ChannelCloseRungs, When
    <3> QED
      BY <3>1, SomeRungDecides, 9 \in Nat, 9 # 0 DEF ChannelClose
  <2>2. \E s, t, r : /\ r \notin ShapingRules \cup ClosingRules
                    /\ ChannelClose(m) = Alert(s, t, r)
    BY <2>1 DEF ChannelCloseRungs, When, Unclassified, ShapingRules, ClosingRules
  <2> QED
    BY <2>2, Zenon DEF OfRule
<1>5. \E r : r \notin ShapingRules \cup ClosingRules /\ OfRule(ChannelFlow(m), r)
  <2>1. PICK i \in 1..3 : ChannelFlow(m) \in ChannelFlowRungs(m)[i]
    <3>1. DOMAIN ChannelFlowRungs(m) = 1..3 /\ ChannelFlowRungs(m)[3] # {}
      BY DEF ChannelFlowRungs, When
    <3> QED
      BY <3>1, SomeRungDecides, 3 \in Nat, 3 # 0 DEF ChannelFlow
  <2>2. \E s, t, r : /\ r \notin ShapingRules \cup ClosingRules
                    /\ ChannelFlow(m) = Alert(s, t, r)
    BY <2>1 DEF ChannelFlowRungs, When, ShapingRules, ClosingRules
  <2> QED
    BY <2>2, Zenon DEF OfRule
<1>6. \E r : r \notin ShapingRules \cup ClosingRules /\ OfRule(BasicReturn(m), r)
  <2>1. PICK i \in 1..3 : BasicReturn(m) \in BasicReturnRungs(m)[i]
    <3>1. DOMAIN BasicReturnRungs(m) = 1..3 /\ BasicReturnRungs(m)[3] # {}
      BY DEF BasicReturnRungs, When
    <3> QED
      BY <3>1, SomeRungDecides, 3 \in Nat, 3 # 0 DEF BasicReturn
  <2>2. \E s, t, r : /\ r \notin ShapingRules \cup ClosingRules
                    /\ BasicReturn(m) = Alert(s, t, r)
    BY <2>1 DEF BasicReturnRungs, When, ShapingRules, ClosingRules
  <2> QED
    BY <2>2, Zenon DEF OfRule
<1> QED
  BY <1>1, <1>2, <1>3, <1>4, <1>5, <1>6

\* The rows of the methods that change the topology.
LEMMA ShapingRows ==
  /\ \A row \in FixedRules :
       /\ row[4] \in {"queue_declare", "exchange_declare"} =>
            row[1] \in Declaring \cup {"queue.declare-ok", "exchange.declare-ok"}
       /\ row[4] \in {"queue_deleted", "exchange_deleted"} =>
            row[1] \in Deleting \cup {"exchange.delete-ok"}
       /\ row[4] = "consumer_registered" => row[1] \in {"basic.consume", "basic.consume-ok"}
       /\ row[4] = "consumer_cancelled" => row[1] = "basic.cancel"
       /\ row[4] \notin ClosingRules
  /\ \A row \in FixedRules :
       /\ row[1] \in Declaring => row[4] \in {"queue_declare", "exchange_declare"}
       /\ row[1] \in Deleting => row[4] \in {"queue_deleted", "exchange_deleted"}
       /\ row[1] = "basic.consume" => row[4] = "consumer_registered"
       /\ row[1] = "basic.cancel" => row[4] = "consumer_cancelled"
       /\ row[1] = "connection.open" => row[4] = "connection_opened"
  /\ Stating \cup {"connection.open"} \subseteq FixedNames
<1>1. \A row \in FixedRules :
       /\ row[4] \in {"queue_declare", "exchange_declare"} =>
            row[1] \in Declaring \cup {"queue.declare-ok", "exchange.declare-ok"}
       /\ row[4] \in {"queue_deleted", "exchange_deleted"} =>
            row[1] \in Deleting \cup {"exchange.delete-ok"}
       /\ row[4] = "consumer_registered" => row[1] \in {"basic.consume", "basic.consume-ok"}
       /\ row[4] = "consumer_cancelled" => row[1] = "basic.cancel"
       /\ row[4] \notin ClosingRules
  BY DEF FixedRules, ConnectionRules, EntityRules, BasicRules, Declaring, Deleting,
         ClosingRules
<1>2. \A row \in FixedRules :
       /\ row[1] \in Declaring => row[4] \in {"queue_declare", "exchange_declare"}
       /\ row[1] \in Deleting => row[4] \in {"queue_deleted", "exchange_deleted"}
       /\ row[1] = "basic.consume" => row[4] = "consumer_registered"
       /\ row[1] = "basic.cancel" => row[4] = "consumer_cancelled"
       /\ row[1] = "connection.open" => row[4] = "connection_opened"
  BY DEF FixedRules, ConnectionRules, EntityRules, BasicRules, Declaring, Deleting
<1>3. Stating \cup {"connection.open"} \subseteq FixedNames
  <2>1. /\ <<"connection.open", "info", "0.3", "connection_opened">> \in FixedRules
        /\ <<"exchange.declare", "info", "0.7", "exchange_declare">> \in FixedRules
        /\ <<"exchange.delete", "warn", "0.8", "exchange_deleted">> \in FixedRules
        /\ <<"queue.declare", "info", "0.10", "queue_declare">> \in FixedRules
        /\ <<"queue.delete", "warn", "0.13", "queue_deleted">> \in FixedRules
        /\ <<"basic.consume", "info", "0.15", "consumer_registered">> \in FixedRules
        /\ <<"basic.cancel", "warn", "0.16", "consumer_cancelled">> \in FixedRules
    BY DEF FixedRules, ConnectionRules, EntityRules, BasicRules
  <2> QED
    BY <2>1 DEF FixedNames, Stating, Declaring, Deleting
<1> QED
  BY <1>1, <1>2, <1>3

\* The rule of a method with a row is that of the row.
LEMMA RuleOfRow ==
  ASSUME NEW m, m.name \in FixedNames
  PROVE  \E row \in FixedRules : row[1] = m.name /\ OfRule(RuleOf(m), row[4])
<1>1. \A x \in FixedRules : x[1] \notin {"connection.close", "connection.tune",
         "connection.blocked", "channel.close", "channel.flow", "basic.return"}
  BY DEF FixedRules, ConnectionRules, EntityRules, BasicRules
<1>2. RuleOf(m) = FixedRule(m.name)
  BY <1>1 DEF FixedNames, RuleOf
<1>3. PICK row : row = CHOOSE x \in FixedRules : x[1] = m.name
  OBVIOUS
<1>4. row \in FixedRules /\ row[1] = m.name
  BY <1>3 DEF FixedNames
<1>5. RuleOf(m) = Alert(row[2], row[3], row[4])
  BY <1>2, <1>3, Zenon DEF FixedRule, RowAlert
<1> QED
  BY <1>4, <1>5, Zenon DEF OfRule

LEMMA RuleOfAny ==
  ASSUME NEW m
  PROVE  \E r : /\ OfRule(RuleOf(m), r)
               /\ \/ r \notin ShapingRules \cup ClosingRules
                  \/ m.name = "connection.close" /\ r \notin ShapingRules
                  \/ \E row \in FixedRules : row[1] = m.name /\ r = row[4]
<1>1. CASE m.name \in FixedNames
  BY <1>1, RuleOfRow
<1>2. CASE m.name \notin FixedNames
  <2>1. \E r : r \notin ShapingRules \cup ClosingRules /\ OfRule(NoAlert, r)
    <3>1. "none" \notin ShapingRules \cup ClosingRules /\ OfRule(NoAlert, "none")
      BY DEF NoAlert, OfRule, ShapingRules, ClosingRules
    <3> QED
      BY <3>1
  <2>2. \/ RuleOf(m) = ConnectionClose(m) /\ m.name = "connection.close"
        \/ RuleOf(m) = ConnectionTune(m)
        \/ RuleOf(m) = ConnectionBlocked(m)
        \/ RuleOf(m) = ChannelClose(m)
        \/ RuleOf(m) = ChannelFlow(m)
        \/ RuleOf(m) = BasicReturn(m)
        \/ RuleOf(m) = NoAlert
    BY <1>2 DEF RuleOf
  <2> QED
    BY <2>1, <2>2, LadderRules
<1> QED
  BY <1>1, <1>2

\* What the alert of a method says, and of what.
LEMMA MethodAlert ==
  ASSUME NEW m, m.name \notin {"http.request", "http.response"}
  PROVE  /\ \E r : /\ OfRule(RuleOf(m), r) /\ Evaluate(m).rule = r
                  /\ \/ r \notin ShapingRules \cup ClosingRules
                     \/ m.name = "connection.close" /\ r \notin ShapingRules
                     \/ \E row \in FixedRules : row[1] = m.name /\ r = row[4]
         /\ m.parsed => /\ Evaluate(m).entity = IF m.name \in Naming THEN m.entity ELSE NoName
                        /\ Evaluate(m).tag = IF m.name = "basic.consume" THEN {m.tag} ELSE {}
                        /\ Evaluate(m).marks = FlagsIn(m)
         /\ ~m.parsed => /\ Evaluate(m).entity = NoName
                         /\ Evaluate(m).tag = {} /\ Evaluate(m).marks = {}
<1>1. Evaluate(m) = EvaluateMethod(m)
  BY DEF Evaluate
<1>2. PICK r : /\ OfRule(RuleOf(m), r)
               /\ \/ r \notin ShapingRules \cup ClosingRules
                  \/ m.name = "connection.close" /\ r \notin ShapingRules
                  \/ \E row \in FixedRules : row[1] = m.name /\ r = row[4]
  BY RuleOfAny
<1>3. PICK s, i : RuleOf(m) = Alert(s, i, r)
  BY <1>2 DEF OfRule
<1>4. ASSUME m.parsed
      PROVE  /\ Evaluate(m).rule = r
             /\ Evaluate(m).entity = IF m.name \in Naming THEN m.entity ELSE NoName
             /\ Evaluate(m).tag = IF m.name = "basic.consume" THEN {m.tag} ELSE {}
             /\ Evaluate(m).marks = FlagsIn(m)
  BY <1>1, <1>3, <1>4 DEF EvaluateMethod, Alert
<1>5. ASSUME ~m.parsed
      PROVE  /\ Evaluate(m).rule = r /\ Evaluate(m).entity = NoName
             /\ Evaluate(m).tag = {} /\ Evaluate(m).marks = {}
  BY <1>1, <1>3, <1>5 DEF EvaluateMethod, Alert
<1> QED
  BY <1>2, <1>4, <1>5

LEMMA ManagementAlert ==
  ASSUME NEW m, m.name \in {"http.request", "http.response"}
  PROVE  Evaluate(m).rule \notin ShapingRules \cup ClosingRules
<1>1. ASSUME m.name = "http.request"
      PROVE  Evaluate(m).rule \notin ShapingRules \cup ClosingRules
  <2>1. PICK i \in 1..3 : EvaluateHTTPRequest(m) \in RequestRungs(m)[i]
    <3>1. DOMAIN RequestRungs(m) = 1..3 /\ RequestRungs(m)[3] # {}
      BY DEF RequestRungs, When
    <3> QED
      BY <3>1, SomeRungDecides, 3 \in Nat, 3 # 0 DEF EvaluateHTTPRequest
  <2>2. EvaluateHTTPRequest(m).rule \in {"management_resource_created",
                                        "management_message_published", "none"}
    BY <2>1 DEF RequestRungs, When, Alert, NoAlert
  <2> QED
    BY <1>1, <2>2 DEF Evaluate, ShapingRules, ClosingRules
<1>2. ASSUME m.name = "http.response"
      PROVE  Evaluate(m).rule \notin ShapingRules \cup ClosingRules
  <2>1. PICK i \in 1..3 : EvaluateHTTPResponse(m) \in ResponseRungs(m)[i]
    <3>1. DOMAIN ResponseRungs(m) = 1..3 /\ ResponseRungs(m)[3] # {}
      BY DEF ResponseRungs, When
    <3> QED
      BY <3>1, SomeRungDecides, 3 \in Nat, 3 # 0 DEF EvaluateHTTPResponse
  <2>2. EvaluateHTTPResponse(m).rule \in {"management_auth_failure", "management_api_error",
                                         "none"}
    BY <2>1 DEF ResponseRungs, When, Alert, NoAlert
  <2> QED
    BY <1>2, <2>2 DEF Evaluate, ShapingRules, ClosingRules
<1> QED
  BY <1>1, <1>2

\* Of all methods, only those that state something change entities or consumers, and
\* only closes close.
LEMMA OnlyStated ==
  ASSUME NEW m
  PROVE  LET a == Evaluate(m) IN
         /\ a.rule \in {"queue_declare", "exchange_declare"} /\ m.name \notin Declaring =>
              a.entity = NoName
         /\ a.rule \in {"queue_deleted", "exchange_deleted"} /\ m.name \notin Deleting =>
              a.entity = NoName
         /\ a.rule = "consumer_registered" /\ m.name # "basic.consume" =>
              a.entity = NoName /\ a.tag = {}
         /\ a.rule = "consumer_cancelled" => m.name = "basic.cancel"
         /\ a.rule \in ClosingRules => m.name = "connection.close"
<1>1. CASE m.name \in {"http.request", "http.response"}
  BY <1>1, ManagementAlert DEF ShapingRules
<1>2. CASE m.name \notin {"http.request", "http.response"}
  <2>1. PICK r : /\ Evaluate(m).rule = r
                 /\ \/ r \notin ShapingRules \cup ClosingRules
                    \/ m.name = "connection.close" /\ r \notin ShapingRules
                    \/ \E row \in FixedRules : row[1] = m.name /\ r = row[4]
    BY <1>2, MethodAlert
  <2>5. /\ m.name \notin Naming => Evaluate(m).entity = NoName
        /\ m.name # "basic.consume" => Evaluate(m).tag = {}
    BY <1>2, MethodAlert
  <2>2. CASE r \notin ShapingRules \cup ClosingRules
    BY <2>1, <2>2 DEF ShapingRules
  <2>3. CASE m.name = "connection.close" /\ r \notin ShapingRules
    BY <2>1, <2>3 DEF ShapingRules
  <2>4. CASE \E row \in FixedRules : row[1] = m.name /\ r = row[4]
    <3>1. /\ r \in {"queue_declare", "exchange_declare"} =>
               m.name \in Declaring \cup {"queue.declare-ok", "exchange.declare-ok"}
          /\ r \in {"queue_deleted", "exchange_deleted"} =>
               m.name \in Deleting \cup {"exchange.delete-ok"}
          /\ r = "consumer_registered" => m.name \in {"basic.consume", "basic.consume-ok"}
          /\ r = "consumer_cancelled" => m.name = "basic.cancel"
          /\ r \notin ClosingRules
      BY <2>4, ShapingRows
    <3>2. {"queue.declare-ok", "exchange.declare-ok", "exchange.delete-ok",
           "basic.consume-ok"} \cap Naming = {}
      BY DEF Naming
    <3> QED
      BY <2>5, <2>1, <3>1, <3>2
  <2> QED
    BY <2>1, <2>2, <2>3, <2>4
<1> QED
  BY <1>1, <1>2

\* What is stated is passed on.
LEMMA StatedIsTold ==
  ASSUME NEW m, m.name \in Stating => m.parsed
  PROVE  LET a == Evaluate(m) IN
         /\ m.name \in Declaring => a.rule \in {"queue_declare", "exchange_declare"}
         /\ m.name \in Deleting => a.rule \in {"queue_deleted", "exchange_deleted"}
         /\ m.name = "basic.consume" => a.rule = "consumer_registered" /\ a.tag = {m.tag}
         /\ m.name = "basic.cancel" => a.rule = "consumer_cancelled"
         /\ m.name \in Stating => a.entity = m.entity /\ a.marks = FlagsIn(m)
         /\ m.name = "connection.open" => a.rule = "connection_opened"
<1>1. ASSUME m.name \in Stating \cup {"connection.open"}
      PROVE  LET a == Evaluate(m) IN
             /\ m.name \in Declaring => a.rule \in {"queue_declare", "exchange_declare"}
             /\ m.name \in Deleting => a.rule \in {"queue_deleted", "exchange_deleted"}
             /\ m.name = "basic.consume" => a.rule = "consumer_registered"
             /\ m.name = "basic.cancel" => a.rule = "consumer_cancelled"
             /\ m.name = "connection.open" => a.rule = "connection_opened"
  <2>1. m.name \in FixedNames /\ m.name \notin {"http.request", "http.response"}
    BY <1>1, ShapingRows DEF Stating, Declaring, Deleting
  <2>2. PICK row \in FixedRules : row[1] = m.name /\ OfRule(RuleOf(m), row[4])
    BY <2>1, RuleOfRow
  <2>3. PICK r : OfRule(RuleOf(m), r) /\ Evaluate(m).rule = r
    BY <2>1, MethodAlert
  <2>4. r = row[4]
    BY <2>2, <2>3 DEF OfRule, Alert
  <2> QED
    BY <2>2, <2>3, <2>4, ShapingRows
<1>2. ASSUME m.name \in Stating
      PROVE  /\ Evaluate(m).entity = m.entity /\ Evaluate(m).marks = FlagsIn(m)
             /\ m.name = "basic.consume" => Evaluate(m).tag = {m.tag}
  <2>1. m.parsed /\ m.name \notin {"http.request", "http.response"} /\ m.name \in Naming
    BY <1>2 DEF Stating, Declaring, Deleting, Naming
  <2> QED
    BY <2>1, MethodAlert
<1> QED
  BY <1>1, <1>2 DEF Stating

-----------------------------------------------------------------------------
(* What an operation says                                                  *)

LEMMA KindsApart ==
  \A e \in Entities : IF e \in Queues THEN e \notin Exchanges ELSE e \in Exchanges
<1>1. Queues \cap Exchanges = {}
  BY TopologyAssumption, Zenon
<1> QED
  BY <1>1 DEF Entities

LEMMA MethodIs ==
  ASSUME NEW e \in Entities
  PROVE  /\ Method(e, "declare") = IF e \in Queues THEN Named("queue.declare", e)
                                                   ELSE Named("exchange.declare", e)
         /\ Method(e, "delete") = IF e \in Queues THEN Named("queue.delete", e)
                                                  ELSE Named("exchange.delete", e)
BY KindsApart DEF Method

\* What states nothing about a queue, an exchange or a consumer.
LEMMA IdleMeans ==
  ASSUME NEW m \in Idle
  PROVE  m \in Sayable /\ m.name \notin Stating /\ Subject(m) = NoName
<1>1. m.name \notin Stating
  <2>1. CASE m \in Notices \cup Faults
    BY <2>1, TopologyAssumption DEF Stating, Declaring, Deleting
  <2>2. CASE \E name \in {"connection.open", "connection.open-ok", "connection.close-ok",
                          "queue.declare-ok", "queue.delete-ok", "exchange.declare-ok",
                          "exchange.delete-ok", "basic.consume-ok", "basic.cancel-ok"} :
               m = Plain(name)
    BY <2>2 DEF Plain, Stating, Declaring, Deleting
  <2>3. CASE m = Coded("connection.close", 200, {})
    BY <2>3 DEF Coded, Plain, Stating, Declaring, Deleting
  <2>4. CASE \E code \in {404, 406} : m = Coded("channel.close", code, {})
    BY <2>4 DEF Coded, Plain, Stating, Declaring, Deleting
  <2>5. CASE \E q \in Queues :
               m = [Named("http.request", q) EXCEPT !.marks = {"PUT", "/api/queues/"}]
    BY <2>5 DEF Named, Plain, Stating, Declaring, Deleting
  <2>6. \/ m \in Notices \cup Faults
        \/ m \in {Plain(name) : name \in {"connection.open", "connection.open-ok",
                     "connection.close-ok", "queue.declare-ok", "queue.delete-ok",
                     "exchange.declare-ok", "exchange.delete-ok", "basic.consume-ok",
                     "basic.cancel-ok"}}
        \/ m \in {Coded("connection.close", 200, {})}
        \/ m \in {Coded("channel.close", code, {}) : code \in {404, 406}}
        \/ m \in {[Named("http.request", q) EXCEPT !.marks = {"PUT", "/api/queues/"}] :
                     q \in Queues}
    BY Zenon DEF Idle
  <2> QED
    BY <2>1, <2>2, <2>3, <2>4, <2>5, <2>6, ZenonT(60)
<1>2. m.name # "basic.consume" /\ Subject(m) = NoName
  BY <1>1 DEF Subject, Stating
<1> QED
  BY <1>1, <1>2 DEF Sayable

LEMMA DeclareSayable ==
  ASSUME NEW e \in Entities, NEW marks \in Flagged \cup {{"passive"}}
  PROVE  LET m == [Method(e, "declare") EXCEPT !.marks = marks] IN
         /\ m \in Sayable /\ m.parsed /\ m.entity = e /\ m.name \in Declaring
         /\ Subject(m) = e /\ m.marks = marks /\ (e \in Queues => m.name = "queue.declare")
<1> DEFINE m == [Method(e, "declare") EXCEPT !.marks = marks]
<1>1. m \in Sayable
  <2>1. m \in {[Method(x, "declare") EXCEPT !.marks = f] :
                 x \in Entities, f \in Flagged \cup {{"passive"}}}
    OBVIOUS
  <2> HIDE DEF m
  <2> QED
    BY <2>1 DEF Sayable
<1>2. /\ m.name \in Declaring /\ (e \in Queues => m.name = "queue.declare")
      /\ m.parsed /\ m.entity = e /\ m.marks = marks
  <2>1. CASE e \in Queues
    BY <2>1, MethodIs DEF Named, Plain, Declaring
  <2>2. CASE e \notin Queues
    BY <2>2, MethodIs DEF Named, Plain, Declaring
  <2> QED
    BY <2>1, <2>2
<1> HIDE DEF m
<1>3. Subject(m) = e
  BY <1>2 DEF Subject, Stating, Declaring
<1> QED
  BY <1>1, <1>2, <1>3 DEF m

LEMMA DeleteSayable ==
  ASSUME NEW e \in Entities
  PROVE  LET m == Method(e, "delete") IN
         m \in Sayable /\ m.parsed /\ m.entity = e /\ m.name \in Deleting /\ Subject(m) = e
<1> DEFINE m == Method(e, "delete")
<1>1. m \in Sayable
  <2>1. m \in {Method(x, "delete") : x \in Entities}
    OBVIOUS
  <2> HIDE DEF m
  <2> QED
    BY <2>1 DEF Sayable
<1>2. m.name \in Deleting /\ m.parsed /\ m.entity = e
  BY MethodIs DEF Named, Plain, Deleting
<1> HIDE DEF m
<1>3. Subject(m) = e
  BY <1>2 DEF Subject, Stating, Deleting
<1> QED
  BY <1>1, <1>2, <1>3 DEF m

LEMMA ConsumeSayable ==
  ASSUME NEW q \in Queues, NEW t \in Tags
  PROVE  LET m == [Named("basic.consume", q) EXCEPT !.tag = t] IN
         /\ m \in Sayable /\ m.parsed /\ m.entity = q /\ m.tag = t /\ m.name = "basic.consume"
         /\ Subject(m) = t
<1> DEFINE m == [Named("basic.consume", q) EXCEPT !.tag = t]
<1>1. m \in Sayable
  <2>1. m \in {[Named("basic.consume", x) EXCEPT !.tag = y] : x \in Queues, y \in Tags}
    OBVIOUS
  <2> HIDE DEF m
  <2> QED
    BY <2>1 DEF Sayable
<1>2. m.name = "basic.consume" /\ m.parsed /\ m.entity = q /\ m.tag = t
  BY DEF Named, Plain
<1> HIDE DEF m
<1>3. Subject(m) = t
  BY <1>2 DEF Subject
<1> QED
  BY <1>1, <1>2, <1>3 DEF m

LEMMA CancelSayable ==
  ASSUME NEW t \in Tags
  PROVE  LET m == Named("basic.cancel", t) IN
         m \in Sayable /\ m.parsed /\ m.entity = t /\ m.name = "basic.cancel" /\ Subject(m) = t
<1> DEFINE m == Named("basic.cancel", t)
<1>1. m \in Sayable
  <2>1. m \in {Named("basic.cancel", x) : x \in Tags}
    OBVIOUS
  <2> HIDE DEF m
  <2> QED
    BY <2>1 DEF Sayable
<1>2. m.name = "basic.cancel" /\ m.parsed /\ m.entity = t
  BY DEF Named, Plain
<1> HIDE DEF m
<1>3. Subject(m) = t
  BY <1>2 DEF Subject, Stating
<1> QED
  BY <1>1, <1>2, <1>3 DEF m

\* What states something is understood, and about what the broker may have.
LEMMA SayableMeans ==
  ASSUME NEW m \in Sayable
  PROVE  /\ m.name \in Stating => m.parsed
         /\ m.name \in Declaring \cup Deleting => m.entity \in Entities
         /\ m.name = "basic.consume" => m.tag \in Tags /\ m.entity \in Queues
         /\ m.name = "basic.cancel" => m.entity \in Tags
<1>1. CASE m \in Idle
  BY <1>1, IdleMeans DEF Stating
<1>2. CASE \E e \in Entities, marks \in Flagged \cup {{"passive"}} :
             m = [Method(e, "declare") EXCEPT !.marks = marks]
  <2>1. m.parsed /\ m.entity \in Entities /\ m.name \in Declaring
    BY <1>2, DeclareSayable
  <2> QED
    BY <2>1 DEF Declaring
<1>3. CASE \E e \in Entities : m = Method(e, "delete")
  <2>1. m.parsed /\ m.entity \in Entities /\ m.name \in Deleting
    BY <1>3, DeleteSayable
  <2> QED
    BY <2>1 DEF Deleting
<1>4. CASE \E q \in Queues, t \in Tags : m = [Named("basic.consume", q) EXCEPT !.tag = t]
  <2>1. m.parsed /\ m.entity \in Queues /\ m.tag \in Tags /\ m.name = "basic.consume"
    BY <1>4, ConsumeSayable
  <2> QED
    BY <2>1 DEF Declaring, Deleting
<1>5. CASE \E t \in Tags : m = Named("basic.cancel", t)
  <2>1. m.parsed /\ m.entity \in Tags /\ m.name = "basic.cancel"
    BY <1>5, CancelSayable
  <2> QED
    BY <2>1 DEF Declaring, Deleting
<1> QED
  BY <1>1, <1>2, <1>3, <1>4, <1>5 DEF Sayable

LEMMA ConfirmIdle ==
  ASSUME NEW e \in Entities
  PROVE  /\ Confirm(e, "declare") \in Idle /\ Confirm(e, "declare").name # "connection.close"
         /\ Confirm(e, "delete") \in Idle /\ Confirm(e, "delete").name # "connection.close"
<1>1. ASSUME NEW name \in {"queue.declare-ok", "queue.delete-ok", "exchange.declare-ok",
                           "exchange.delete-ok"}
      PROVE  Plain(name) \in Idle /\ Plain(name).name # "connection.close"
  <2>1. Plain(name) \in Idle
    BY DEF Idle
  <2>2. Plain(name).name = name
    BY DEF Plain
  <2> QED
    BY <2>1, <2>2
<1>2. /\ Confirm(e, "declare") = IF e \in Queues THEN Plain("queue.declare-ok")
                                                 ELSE Plain("exchange.declare-ok")
      /\ Confirm(e, "delete") = IF e \in Queues THEN Plain("queue.delete-ok")
                                                ELSE Plain("exchange.delete-ok")
  BY KindsApart DEF Confirm
<1> QED
  BY <1>1, <1>2

-----------------------------------------------------------------------------
(* What handling a method does to the tables                               *)

Entry == [active : BOOLEAN, marks : Flagged]
ConsumerEntry == [active : BOOLEAN, queue : Queues \cup {NoName}, exclusive : BOOLEAN]

LEMMA FlagsInType == \A m : FlagsIn(m) \in Flagged
BY DEF FlagsIn, Flagged

LEMMA DeclaredTable ==
  ASSUME NEW known \in SUBSET Entities, NEW t \in [known -> Entry],
         NEW a, a.entity \in Entities, a.marks \in Flagged
  PROVE  /\ Declared(a, t) \in [known \cup {a.entity} -> Entry]
         /\ Declared(a, t)[a.entity].active
         /\ a.marks \subseteq Declared(a, t)[a.entity].marks
<1> DEFINE old == IF a.entity \in known THEN t[a.entity].marks ELSE {}
           new == [active |-> TRUE, marks |-> a.marks \cup old]
           d == [e \in known \cup {a.entity} |-> IF e # a.entity THEN t[e] ELSE new]
<1>1. Declared(a, t) = d
  <2>1. DOMAIN t = known
    OBVIOUS
  <2> QED
    BY <2>1 DEF Declared
<1>2. old \in Flagged
  BY DEF Entry, Flagged
<1>3. new \in Entry /\ new.active /\ a.marks \subseteq new.marks
  <2> HIDE DEF old
  <2> QED
    BY <1>2 DEF Entry, Flagged
<1> HIDE DEF new
<1>4. d \in [known \cup {a.entity} -> Entry] /\ d[a.entity] = new
  BY <1>3
<1> QED
  BY <1>1, <1>3, <1>4

LEMMA DeclaredElse ==
  ASSUME NEW known, NEW t, DOMAIN t = known, NEW a, NEW e \in known, e # a.entity
  PROVE  Declared(a, t)[e] = t[e]
BY DEF Declared

\* Of entries with the field active, whatever the others are.
LEMMA GoneTable ==
  ASSUME NEW t, t = [e \in DOMAIN t |-> t[e]], NEW name
  PROVE  /\ DOMAIN Gone(name, t) = DOMAIN t
         /\ Gone(name, t) = [e \in DOMAIN t |-> Gone(name, t)[e]]
         /\ name \in DOMAIN t => Gone(name, t)[name] = [t[name] EXCEPT !.active = FALSE]
         /\ \A e \in DOMAIN t : e # name => Gone(name, t)[e] = t[e]
         /\ name \notin DOMAIN t => Gone(name, t) = t
BY DEF Gone

LEMMA EntitiesStep ==
  ASSUME TypeOK, NEW m \in Sayable
  PROVE  LET n == NextEntities(Evaluate(m)) IN
         /\ \E known \in SUBSET Entities : n \in [known -> Entry]
         /\ m.name \in Declaring => Shown(m.entity, n) /\ FlagsIn(m) \subseteq n[m.entity].marks
         /\ m.name \in Deleting => ~Shown(m.entity, n)
         /\ \A e \in Entities : e # Subject(m) =>
              /\ e \in DOMAIN n <=> e \in DOMAIN entities
              /\ e \in DOMAIN n => n[e] = entities[e]
<1> DEFINE a == Evaluate(m)
           n == NextEntities(a)
<1>1. PICK known \in SUBSET Entities : entities \in [known -> Entry]
  BY DEF TypeOK, Entry
<1>2. /\ m.name \in Stating => m.parsed
      /\ m.name \in Declaring \cup Deleting => m.entity \in Entities
  BY SayableMeans
<1>3. NoName \notin Entities
  BY TopologyAssumption
<1>4. /\ m.name \in Declaring => a.rule \in {"queue_declare", "exchange_declare"}
      /\ m.name \in Deleting => a.rule \in {"queue_deleted", "exchange_deleted"}
      /\ m.name \in Stating => a.entity = m.entity /\ a.marks = FlagsIn(m)
  BY <1>2, StatedIsTold
<1>5. /\ a.rule \in {"queue_declare", "exchange_declare"} /\ m.name \notin Declaring =>
           a.entity = NoName
      /\ a.rule \in {"queue_deleted", "exchange_deleted"} /\ m.name \notin Deleting =>
           a.entity = NoName
  BY OnlyStated
<1>6. n = CASE a.rule \in {"queue_declare", "exchange_declare"} /\ a.entity # NoName
                 -> Declared(a, entities)
            [] a.rule \in {"queue_deleted", "exchange_deleted"} -> Gone(a.entity, entities)
            [] OTHER -> entities
  BY DEF NextEntities
<1> HIDE DEF a, n
<1>7. CASE m.name \in Declaring
  <2>1. /\ a.entity = m.entity /\ a.marks = FlagsIn(m) /\ Subject(m) = m.entity
        /\ m.entity \in Entities /\ m.name \notin Deleting
    BY <1>2, <1>4, <1>7 DEF Stating, Subject, Declaring, Deleting
  <2>2. n = Declared(a, entities)
    BY <1>3, <1>4, <1>6, <1>7, <2>1
  <2>3. /\ n \in [known \cup {a.entity} -> Entry]
        /\ n[a.entity].active /\ a.marks \subseteq n[a.entity].marks
        /\ \A e \in known : e # a.entity => n[e] = entities[e]
    <3>1. a.marks \in Flagged /\ a.entity \in Entities
      BY <2>1, FlagsInType
    <3>2. /\ Declared(a, entities) \in [known \cup {a.entity} -> Entry]
          /\ Declared(a, entities)[a.entity].active
          /\ a.marks \subseteq Declared(a, entities)[a.entity].marks
          /\ \A e \in known : e # a.entity => Declared(a, entities)[e] = entities[e]
      <4>1. ASSUME NEW e \in known, e # a.entity PROVE Declared(a, entities)[e] = entities[e]
        BY <1>1, <3>1, <4>1, DeclaredElse
      <4> QED
        BY <1>1, <3>1, <4>1, DeclaredTable
    <3> QED
      BY <2>2, <3>2
  <2>4. DOMAIN n = known \cup {a.entity} /\ DOMAIN entities = known
    BY <1>1, <2>3
  <2> QED
    BY <1>1, <2>1, <2>3, <2>4 DEF Shown, n, a
<1>8. CASE m.name \notin Declaring
  <2>1. DOMAIN entities = known /\ entities = [e \in known |-> entities[e]]
    BY <1>1
  <2>2. n = Gone(a.entity, entities) \/ n = entities
    BY <1>5, <1>6, <1>8
  <2>3. m.name \notin Deleting => n = entities
    <3>1. a.entity \notin known => Gone(a.entity, entities) = entities
      BY <2>1, GoneTable
    <3> QED
      BY <1>3, <1>5, <1>6, <1>8, <3>1
  <2>4. CASE m.name \in Deleting
    <3>1. a.entity = m.entity /\ Subject(m) = m.entity
      BY <1>4, <2>4 DEF Stating, Subject, Deleting
    <3>2. n = Gone(a.entity, entities)
      BY <1>4, <1>6, <2>4
    <3>3. /\ DOMAIN n = known /\ n = [e \in known |-> n[e]]
          /\ a.entity \in known => n[a.entity] = [entities[a.entity] EXCEPT !.active = FALSE]
          /\ \A e \in known : e # a.entity => n[e] = entities[e]
      <4>1. /\ DOMAIN Gone(a.entity, entities) = known
            /\ Gone(a.entity, entities) = [e \in known |-> Gone(a.entity, entities)[e]]
            /\ a.entity \in known =>
                 Gone(a.entity, entities)[a.entity] = [entities[a.entity] EXCEPT !.active = FALSE]
            /\ \A e \in known : e # a.entity => Gone(a.entity, entities)[e] = entities[e]
        BY <2>1, GoneTable
      <4> QED
        BY <3>2, <4>1
    <3>4. a.entity \in known => n[a.entity] \in Entry /\ n[a.entity].active = FALSE
      BY <1>1, <3>3 DEF Entry
    <3>5. n \in [known -> Entry]
      BY <1>1, <3>3, <3>4
    <3> QED
      BY <1>1, <1>8, <2>1, <3>1, <3>3, <3>4, <3>5 DEF Shown, n, a
  <2>5. CASE m.name \notin Deleting
    BY <1>1, <1>8, <2>3, <2>5 DEF n, a
  <2> QED
    BY <2>4, <2>5
<1> QED
  BY <1>7, <1>8

LEMMA RegisteredTable ==
  ASSUME NEW known \in SUBSET ConsumerKeys, NEW t \in [known -> ConsumerEntry], NEW a,
         ConsumerKey(a) \in ConsumerKeys, a.entity \in Queues \cup {NoName}
  PROVE  /\ Registered(a, t) \in [known \cup {ConsumerKey(a)} -> ConsumerEntry]
         /\ Registered(a, t)[ConsumerKey(a)].active
         /\ Registered(a, t)[ConsumerKey(a)].queue = a.entity
<1> DEFINE k == ConsumerKey(a)
           new == [active |-> TRUE, queue |-> a.entity, exclusive |-> "exclusive" \in a.marks]
           r == [j \in known \cup {k} |-> IF j # k THEN t[j] ELSE new]
<1>1. Registered(a, t) = r
  <2>1. DOMAIN t = known
    OBVIOUS
  <2> QED
    BY <2>1 DEF Registered, Consumer
<1>2. new \in ConsumerEntry /\ new.active /\ new.queue = a.entity
  <2>1. ("exclusive" \in a.marks) \in BOOLEAN
    OBVIOUS
  <2> QED
    BY <2>1 DEF ConsumerEntry
<1> HIDE DEF new, k
<1>3. r \in [known \cup {k} -> ConsumerEntry] /\ r[k] = new
  BY <1>2
<1> QED
  BY <1>1, <1>2, <1>3 DEF k

LEMMA RegisteredElse ==
  ASSUME NEW t, NEW a, NEW j, j # ConsumerKey(a)
  PROVE  /\ j \in DOMAIN Registered(a, t) <=> j \in DOMAIN t
         /\ j \in DOMAIN t => Registered(a, t)[j] = t[j]
BY DEF Registered

LEMMA ConsumersStep ==
  ASSUME TypeOK, NEW m \in Sayable
  PROVE  LET n == NextConsumers(Evaluate(m)) IN
         /\ \E known \in SUBSET ConsumerKeys : n \in [known -> ConsumerEntry]
         /\ m.name = "basic.consume" => Shown(m.tag, n) /\ n[m.tag].queue = m.entity
         /\ \A t \in Tags : t # Subject(m) =>
              /\ t \in DOMAIN n <=> t \in DOMAIN consumers
              /\ t \in DOMAIN n => n[t] = consumers[t]
<1> DEFINE a == Evaluate(m)
           n == NextConsumers(a)
<1>1. PICK known \in SUBSET ConsumerKeys : consumers \in [known -> ConsumerEntry]
  BY DEF TypeOK, ConsumerEntry
<1>2. /\ m.name \in Stating => m.parsed
      /\ m.name = "basic.consume" => m.tag \in Tags /\ m.entity \in Queues
  BY SayableMeans
<1>3. Unnamed(NoName) \notin Tags
  BY TopologyAssumption
<1>4. /\ m.name = "basic.consume" => a.rule = "consumer_registered" /\ a.tag = {m.tag}
      /\ m.name = "basic.cancel" => a.rule = "consumer_cancelled"
      /\ m.name \in Stating => a.entity = m.entity
  BY <1>2, StatedIsTold
<1>5. /\ a.rule = "consumer_registered" /\ m.name # "basic.consume" =>
           a.entity = NoName /\ a.tag = {}
      /\ a.rule = "consumer_cancelled" => m.name = "basic.cancel"
  BY OnlyStated
<1>6. n = CASE a.rule = "consumer_registered" -> Registered(a, consumers)
            [] a.rule = "consumer_cancelled" -> Gone(a.entity, consumers)
            [] OTHER -> consumers
  BY DEF NextConsumers
<1> HIDE DEF a, n
<1>7. CASE a.rule = "consumer_registered"
  <2>1. n = Registered(a, consumers)
    BY <1>6, <1>7
  <2>2. m.name = "basic.consume" =>
          ConsumerKey(a) = m.tag /\ a.entity = m.entity /\ Subject(m) = m.tag
    BY <1>4 DEF ConsumerKey, Subject, Stating
  <2>3. m.name # "basic.consume" => ConsumerKey(a) = Unnamed(NoName) /\ a.entity = NoName
    BY <1>5, <1>7 DEF ConsumerKey
  <2>4. ConsumerKey(a) \in ConsumerKeys /\ a.entity \in Queues \cup {NoName}
    BY <1>2, <2>2, <2>3 DEF ConsumerKeys
  <2>5. /\ n \in [known \cup {ConsumerKey(a)} -> ConsumerEntry]
        /\ n[ConsumerKey(a)].active /\ n[ConsumerKey(a)].queue = a.entity
    BY <1>1, <2>1, <2>4, RegisteredTable
  <2>6. known \cup {ConsumerKey(a)} \in SUBSET ConsumerKeys
    BY <2>4
  <2>7. ASSUME NEW t \in Tags, t # Subject(m)
        PROVE  /\ t \in DOMAIN n <=> t \in DOMAIN consumers
               /\ t \in DOMAIN n => n[t] = consumers[t]
    <3>1. t # ConsumerKey(a)
      BY <1>3, <2>2, <2>3, <2>7
    <3> QED
      BY <2>1, <3>1, RegisteredElse
  <2>8. m.name = "basic.consume" => Shown(m.tag, n) /\ n[m.tag].queue = m.entity
    BY <2>2, <2>5 DEF Shown
  <2> QED
    BY <2>5, <2>6, <2>7, <2>8 DEF n, a
<1>8. CASE a.rule # "consumer_registered"
  <2>1. m.name # "basic.consume"
    BY <1>4, <1>8
  <2>2. CASE a.rule = "consumer_cancelled"
    <3>1. m.name = "basic.cancel" /\ a.entity = m.entity /\ Subject(m) = m.entity
      BY <1>4, <1>5, <2>2 DEF Stating, Subject
    <3>2. n = Gone(a.entity, consumers)
      BY <1>6, <2>2
    <3>3. DOMAIN consumers = known /\ consumers = [j \in DOMAIN consumers |-> consumers[j]]
      BY <1>1
    <3>4. /\ DOMAIN n = known /\ n = [j \in known |-> n[j]]
          /\ a.entity \in known => n[a.entity] = [consumers[a.entity] EXCEPT !.active = FALSE]
      BY <3>2, <3>3 DEF Gone
    <3>5. \A j \in known : j # a.entity => n[j] = consumers[j]
      BY <3>2, <3>3 DEF Gone
    <3>6. a.entity \in known => n[a.entity] \in ConsumerEntry
      BY <1>1, <3>4 DEF ConsumerEntry
    <3>7. n \in [known -> ConsumerEntry]
      BY <1>1, <3>4, <3>5, <3>6
    <3> QED
      BY <2>1, <3>1, <3>3, <3>4, <3>5, <3>7 DEF n, a
  <2>3. CASE a.rule # "consumer_cancelled"
    <3>1. n = consumers
      BY <1>6, <1>8, <2>3
    <3> QED
      BY <1>1, <2>1, <3>1 DEF n, a
  <2> QED
    BY <2>2, <2>3
<1> QED
  BY <1>7, <1>8

-----------------------------------------------------------------------------
(* What is sent, and what is the last word                                 *)

\* Every stream s gets w[s] behind what it has.
Sends(w) == /\ w \in [Streams -> Seq(Sayable)]
            /\ pipe' = [s \in Streams |-> pipe[s] \o w[s]]

\* Only the streams of c get something.
Both(c, f, b) == [s \in Streams |-> IF s = Client(c) THEN f
                                    ELSE IF s = Broker(c) THEN b ELSE <<>>]

Nothing == [s \in Streams |-> <<>>]

LEMMA SendSends ==
  ASSUME WorldTypeOK, NEW out, Send(out),
         NEW w \in [Streams -> Seq(Sayable)],
         \A s \in Streams : w[s] = IF s \in DOMAIN out THEN out[s] ELSE <<>>
  PROVE  Sends(w)
<1>1. pipe \in [Streams -> Seq(Sayable)]
  BY DEF WorldTypeOK
<1>2. \A p \in Seq(Sayable) : p \o <<>> = p
  OBVIOUS
<1>3. \A s \in Streams : (IF s \in DOMAIN out THEN pipe[s] \o out[s] ELSE pipe[s]) = pipe[s] \o w[s]
  BY <1>1, <1>2
<1> QED
  BY <1>3 DEF Sends, Send

LEMMA ClientAndBroker ==
  \A c, d \in Conns : /\ Client(c) \in Streams /\ Broker(c) \in Streams
                      /\ Client(c) # Broker(d)
                      /\ Client(c) = Client(d) => c = d
                      /\ Broker(c) = Broker(d) => c = d
BY DEF Client, Broker, Streams

LEMMA ExchangedSends ==
  ASSUME WorldTypeOK, NEW c \in Conns, NEW f \in Seq(Sayable), NEW b \in Seq(Sayable),
         Exchanged(c, f, b)
  PROVE  Sends(Both(c, f, b))
<1> DEFINE out == [s \in {Client(c), Broker(c)} |-> IF s = Client(c) THEN f ELSE b]
<1>1. Send(out)
  BY DEF Exchanged
<1>2. Both(c, f, b) \in [Streams -> Seq(Sayable)]
  BY DEF Both
<1>3. \A s \in Streams : Both(c, f, b)[s] = IF s \in DOMAIN out THEN out[s] ELSE <<>>
  BY DEF Both
<1> HIDE DEF out
<1> QED
  BY <1>1, <1>2, <1>3, SendSends

LEMMA NothingSends ==
  ASSUME WorldTypeOK, UNCHANGED pipe PROVE Sends(Nothing)
<1>1. pipe \in [Streams -> Seq(Sayable)]
  BY DEF WorldTypeOK
<1>2. \A s \in Streams : pipe[s] \o <<>> = pipe[s]
  BY <1>1
<1> QED
  BY <1>1, <1>2 DEF Sends, Nothing

\* Where the methods of a stream come from.
LEMMA OldStays ==
  ASSUME WorldTypeOK, NEW w, Sends(w), NEW s \in Streams, NEW i \in DOMAIN pipe[s]
  PROVE  i \in DOMAIN pipe'[s] /\ pipe'[s][i] = pipe[s][i]
<1> DEFINE p == pipe[s]
           q == w[s]
<1>1. /\ p \in Seq(Sayable) /\ q \in Seq(Sayable) /\ pipe'[s] = p \o q
      /\ i \in DOMAIN p
  BY DEF WorldTypeOK, Sends
<1> HIDE DEF p, q
<1>2. i \in DOMAIN (p \o q) /\ (p \o q)[i] = p[i]
  BY <1>1
<1> QED
  BY <1>1, <1>2 DEF p

LEMMA SentIsLater ==
  ASSUME WorldTypeOK, NEW w, Sends(w), NEW s \in Streams, NEW k \in DOMAIN w[s]
  PROVE  /\ Len(pipe[s]) + k \in DOMAIN pipe'[s] /\ pipe'[s][Len(pipe[s]) + k] = w[s][k]
         /\ \A i \in DOMAIN pipe[s] : Len(pipe[s]) + k > i
<1> DEFINE p == pipe[s]
           q == w[s]
<1>1. p \in Seq(Sayable) /\ q \in Seq(Sayable) /\ pipe'[s] = p \o q /\ k \in DOMAIN q
  BY DEF WorldTypeOK, Sends
<1> HIDE DEF p, q
<1>2. /\ Len(p) + k \in DOMAIN (p \o q) /\ (p \o q)[Len(p) + k] = q[k]
      /\ \A i \in DOMAIN p : Len(p) + k > i
  BY <1>1
<1> QED
  BY <1>1, <1>2 DEF p, q

LEMMA NewIsSent ==
  ASSUME WorldTypeOK, NEW w, Sends(w), NEW s \in Streams,
         NEW i \in DOMAIN pipe'[s], i \notin DOMAIN pipe[s]
  PROVE  \E k \in DOMAIN w[s] : i = Len(pipe[s]) + k /\ pipe'[s][i] = w[s][k]
<1> DEFINE p == pipe[s]
           q == w[s]
<1>1. /\ p \in Seq(Sayable) /\ q \in Seq(Sayable) /\ pipe'[s] = p \o q
      /\ i \in DOMAIN (p \o q) /\ i \notin DOMAIN p
  BY DEF WorldTypeOK, Sends
<1> HIDE DEF p, q
<1>2. \E k \in DOMAIN q : i = Len(p) + k /\ (p \o q)[i] = q[k]
  <2>1. i - Len(p) \in DOMAIN q /\ (p \o q)[i] = q[i - Len(p)] /\ i = Len(p) + (i - Len(p))
    BY <1>1
  <2> QED
    BY <2>1
<1> QED
  BY <1>1, <1>2 DEF p, q

\* The last word of a stream is what was sent last, or what it was.
LEMMA LastWordSent ==
  ASSUME WorldTypeOK, NEW w, Sends(w), NEW s \in Streams, NEW x,
         NEW i \in DOMAIN pipe'[s], LastWord(x, s, i)'
  PROVE  \/ \E k \in DOMAIN w[s] : Subject(w[s][k]) = x /\ pipe'[s][i] = w[s][k]
         \/ /\ i \in DOMAIN pipe[s] /\ pipe'[s][i] = pipe[s][i] /\ LastWord(x, s, i)
            /\ \A k \in DOMAIN w[s] : Subject(w[s][k]) # x
<1>1. Subject(pipe'[s][i]) = x /\ \A j \in DOMAIN pipe'[s] : j > i => Subject(pipe'[s][j]) # x
  BY DEF LastWord, Subject
<1>2. CASE i \notin DOMAIN pipe[s]
  <2>1. \E k \in DOMAIN w[s] : pipe'[s][i] = w[s][k]
    BY <1>2, NewIsSent
  <2> QED
    BY <1>1, <2>1
<1>3. CASE i \in DOMAIN pipe[s]
  <2>1. pipe'[s][i] = pipe[s][i]
    BY <1>3, OldStays
  <2>2. ASSUME NEW j \in DOMAIN pipe[s], j > i PROVE Subject(pipe[s][j]) # x
    <3>1. j \in DOMAIN pipe'[s] /\ pipe'[s][j] = pipe[s][j]
      BY OldStays
    <3> QED
      BY <1>1, <2>2, <3>1
  <2>3. LastWord(x, s, i)
    BY <1>1, <2>1, <2>2 DEF LastWord
  <2>4. ASSUME NEW k \in DOMAIN w[s] PROVE Subject(w[s][k]) # x
    <3>1. /\ Len(pipe[s]) + k \in DOMAIN pipe'[s] /\ pipe'[s][Len(pipe[s]) + k] = w[s][k]
          /\ Len(pipe[s]) + k > i
      BY <1>3, SentIsLater
    <3> QED
      BY <1>1, <3>1
  <2> QED
    BY <1>3, <2>1, <2>3, <2>4
<1> QED
  BY <1>2, <1>3

\* What is said stays said, until it is said again.
LEMMA SaidBefore ==
  ASSUME WorldTypeOK, NEW w, Sends(w), NEW x, Said(x)'
  PROVE  /\ Said(x)
         /\ \A s \in Streams : \A k \in DOMAIN w[s] : Subject(w[s][k]) # x
<1>1. \A s \in Streams : \A i \in DOMAIN pipe'[s] : Subject(pipe'[s][i]) # x
  BY DEF Said, Awaited, Subject
<1>2. ASSUME NEW s \in Streams, NEW i \in DOMAIN pipe[s] PROVE Subject(pipe[s][i]) # x
  <2>1. i \in DOMAIN pipe'[s] /\ pipe'[s][i] = pipe[s][i]
    BY OldStays
  <2> QED
    BY <1>1, <2>1
<1>3. ASSUME NEW s \in Streams, NEW k \in DOMAIN w[s] PROVE Subject(w[s][k]) # x
  <2>1. Len(pipe[s]) + k \in DOMAIN pipe'[s] /\ pipe'[s][Len(pipe[s]) + k] = w[s][k]
    BY SentIsLater
  <2> QED
    BY <1>1, <2>1
<1> QED
  BY <1>2, <1>3 DEF Said, Awaited

-----------------------------------------------------------------------------
(* What the world does leaves each name settled                            *)

EntityKept(e) ==
  /\ \A s \in Streams : \A i \in DOMAIN pipe[s] : LastWord(e, s, i) => SaysEntity(pipe[s][i], e)
  /\ Said(e) => /\ Shown(e, entities) => e \in DOMAIN exists
                /\ e \in DOMAIN exists /\ ~cleared =>
                     Shown(e, entities) /\ (e \in Queues => exists[e] \subseteq entities[e].marks)

ConsumersKept(t) ==
  /\ \A s \in Streams : \A i \in DOMAIN pipe[s] : LastWord(t, s, i) => SaysConsumers(pipe[s][i], t)
  /\ \A k \in consuming : k.tag = t /\ Said(t) /\ ~cleared =>
       Shown(t, consumers) /\ consumers[t].queue = k.queue

LEMMA EachIsKept ==
  /\ EntityWordsHold /\ EntitiesAgree <=> \A e \in Entities \ unsure : EntityKept(e)
  /\ WorldTypeOK =>
       (ConsumerWordsHold /\ ConsumersShown <=> \A t \in Tags \ unsure : ConsumersKept(t))
<1>1. EntityWordsHold /\ EntitiesAgree <=> \A e \in Entities \ unsure : EntityKept(e)
  BY Zenon DEF EntityWordsHold, EntitiesAgree, EntityKept
<1>2. WorldTypeOK => \A k \in consuming : k.tag \in Tags
  BY DEF WorldTypeOK, Consumers
<1>3. ASSUME WorldTypeOK
      PROVE  ConsumerWordsHold /\ ConsumersShown <=> \A t \in Tags \ unsure : ConsumersKept(t)
  BY <1>2, <1>3 DEF ConsumerWordsHold, ConsumersShown, ConsumersKept
<1> QED
  BY <1>1, <1>3

\* Of e nothing is said and nothing changes.
LEMMA QuietEntity ==
  ASSUME WorldTypeOK, NEW w, Sends(w), NEW e, EntityKept(e),
         \A s \in Streams : \A k \in DOMAIN w[s] : Subject(w[s][k]) # e,
         e \in DOMAIN exists' <=> e \in DOMAIN exists,
         e \in DOMAIN exists => exists'[e] = exists[e],
         UNCHANGED <<entities, cleared>>
  PROVE  EntityKept(e)'
<1>1. ASSUME NEW s \in Streams, NEW i \in DOMAIN pipe'[s], LastWord(e, s, i)'
      PROVE  SaysEntity(pipe[s][i], e)'
  <2>1. i \in DOMAIN pipe[s] /\ pipe'[s][i] = pipe[s][i] /\ LastWord(e, s, i)
    BY <1>1, LastWordSent
  <2>2. SaysEntity(pipe[s][i], e)
    BY <2>1 DEF EntityKept
  <2> QED
    BY <2>1, <2>2 DEF SaysEntity
<1>2. Said(e)' => Said(e)
  BY SaidBefore
<1>3. Said(e)' => (/\ Shown(e, entities) => e \in DOMAIN exists
                   /\ e \in DOMAIN exists /\ ~cleared =>
                        /\ Shown(e, entities)
                        /\ e \in Queues => exists[e] \subseteq entities[e].marks)'
  BY <1>2 DEF EntityKept, Shown
<1> QED
  BY <1>1, <1>3 DEF EntityKept

\* Of e only stream s has something to say, and it has just stated what e is.
LEMMA SettledEntity ==
  ASSUME WorldTypeOK, NEW w, Sends(w), NEW e, NEW s \in Streams, NEW m,
         w[s] = <<m>>, Subject(m) = e, SaysEntity(m, e)',
         \A t \in Streams \ {s} : ~Awaited(e, t),
         \A t \in Streams \ {s} : \A k \in DOMAIN w[t] : Subject(w[t][k]) # e
  PROVE  EntityKept(e)'
<1>1. ASSUME NEW t \in Streams, NEW i \in DOMAIN pipe'[t], LastWord(e, t, i)'
      PROVE  SaysEntity(pipe[t][i], e)'
  <2>1. CASE t # s
    BY <1>1, <2>1, LastWordSent DEF Awaited, LastWord
  <2>2. CASE t = s
    <3>1. 1 \in DOMAIN w[s] /\ \A k \in DOMAIN w[s] : w[s][k] = m
      OBVIOUS
    <3>2. pipe'[t][i] = m
      BY <1>1, <2>2, <3>1, LastWordSent
    <3> QED
      BY <3>2 DEF SaysEntity
  <2> QED
    BY <2>1, <2>2
<1>2. ~Said(e)'
  <2>1. 1 \in DOMAIN w[s] /\ Subject(w[s][1]) = e
    OBVIOUS
  <2> QED
    BY <2>1, SaidBefore
<1> QED
  BY <1>1, <1>2 DEF EntityKept

LEMMA QuietTag ==
  ASSUME WorldTypeOK, NEW w, Sends(w), NEW t, ConsumersKept(t),
         \A s \in Streams : \A k \in DOMAIN w[s] : Subject(w[s][k]) # t,
         \A k \in consuming' : k.tag = t => k \in consuming,
         UNCHANGED <<consumers, cleared>>
  PROVE  ConsumersKept(t)'
<1>1. ASSUME NEW s \in Streams, NEW i \in DOMAIN pipe'[s], LastWord(t, s, i)'
      PROVE  SaysConsumers(pipe[s][i], t)'
  <2>1. i \in DOMAIN pipe[s] /\ pipe'[s][i] = pipe[s][i] /\ LastWord(t, s, i)
    BY <1>1, LastWordSent
  <2>2. SaysConsumers(pipe[s][i], t)
    BY <2>1 DEF ConsumersKept
  <2> QED
    BY <2>1, <2>2 DEF SaysConsumers
<1>2. Said(t)' => Said(t)
  BY SaidBefore
<1> QED
  BY <1>1, <1>2 DEF ConsumersKept, Shown

LEMMA SettledTag ==
  ASSUME WorldTypeOK, NEW w, Sends(w), NEW t, NEW s \in Streams, NEW m,
         w[s] = <<m>>, Subject(m) = t, SaysConsumers(m, t)',
         \A r \in Streams \ {s} : ~Awaited(t, r),
         \A r \in Streams \ {s} : \A k \in DOMAIN w[r] : Subject(w[r][k]) # t
  PROVE  ConsumersKept(t)'
<1>1. ASSUME NEW r \in Streams, NEW i \in DOMAIN pipe'[r], LastWord(t, r, i)'
      PROVE  SaysConsumers(pipe[r][i], t)'
  <2>1. CASE r # s
    BY <1>1, <2>1, LastWordSent DEF Awaited, LastWord
  <2>2. CASE r = s
    <3>1. \A k \in DOMAIN w[s] : w[s][k] = m
      OBVIOUS
    <3>2. pipe'[r][i] = m
      BY <1>1, <2>2, <3>1, LastWordSent
    <3> QED
      BY <3>2 DEF SaysConsumers
  <2> QED
    BY <2>1, <2>2
<1>2. ~Said(t)'
  <2>1. 1 \in DOMAIN w[s] /\ Subject(w[s][1]) = t
    OBVIOUS
  <2> QED
    BY <2>1, SaidBefore
<1> QED
  BY <1>1, <1>2 DEF ConsumersKept

-----------------------------------------------------------------------------
(* Handling the next method                                                *)

\* Behind the head of its stream a method is one place back.
LEMMA HandledIsTail ==
  ASSUME WorldTypeOK, NEW s \in Streams, Handle(s)
  PROVE  /\ pipe' \in [Streams -> Seq(Sayable)]
         /\ 1 \in DOMAIN pipe[s] /\ pipe[s][1] \in Sayable /\ Head(pipe[s]) = pipe[s][1]
         /\ \A i \in DOMAIN pipe'[s] : i + 1 \in DOMAIN pipe[s] /\ pipe'[s][i] = pipe[s][i + 1]
         /\ \A i \in DOMAIN pipe[s] : i = 1 \/ i - 1 \in DOMAIN pipe'[s]
         /\ \A i \in DOMAIN pipe[s] : i \in Nat /\ i >= 1
         /\ \A t \in Streams : t # s => pipe'[t] = pipe[t]
<1> DEFINE p == pipe[s]
<1>1. /\ p \in Seq(Sayable) /\ p # <<>> /\ pipe'[s] = Tail(p)
      /\ \A t \in Streams : t # s => pipe'[t] = pipe[t]
  BY DEF WorldTypeOK, Handle
<1> HIDE DEF p
<1>2. /\ Tail(p) \in Seq(Sayable)
      /\ 1 \in DOMAIN p /\ p[1] \in Sayable /\ Head(p) = p[1]
      /\ \A i \in DOMAIN Tail(p) : i + 1 \in DOMAIN p /\ Tail(p)[i] = p[i + 1]
      /\ \A i \in DOMAIN p : i = 1 \/ i - 1 \in DOMAIN Tail(p)
      /\ \A i \in DOMAIN p : i \in Nat /\ i >= 1
  BY <1>1
<1>3. pipe' \in [Streams -> Seq(Sayable)]
  BY <1>1, <1>2 DEF WorldTypeOK, Handle, p
<1> QED
  BY <1>1, <1>2, <1>3 DEF p

\* What was the last word of a stream stays it until it is handled.
LEMMA LastWordHandled ==
  ASSUME WorldTypeOK, NEW s \in Streams, Handle(s), NEW x, NEW t \in Streams,
         NEW i \in DOMAIN pipe'[t], LastWord(x, t, i)'
  PROVE  \E j \in DOMAIN pipe[t] : LastWord(x, t, j) /\ pipe[t][j] = pipe'[t][i]
<1>1. Subject(pipe'[t][i]) = x /\ \A j \in DOMAIN pipe'[t] : j > i => Subject(pipe'[t][j]) # x
  BY DEF LastWord, Subject
<1>2. CASE t # s
  <2>1. pipe'[t] = pipe[t]
    BY <1>2, HandledIsTail
  <2> QED
    BY <1>1, <2>1 DEF LastWord
<1>3. CASE t = s
  <2>1. i + 1 \in DOMAIN pipe[s] /\ pipe'[s][i] = pipe[s][i + 1]
    BY <1>3, HandledIsTail
  <2>2. ASSUME NEW j \in DOMAIN pipe[s], j > i + 1 PROVE Subject(pipe[s][j]) # x
    <3>1. j \in Nat /\ i \in Nat /\ j # 1
      <4>1. j \in Nat /\ i + 1 \in Nat /\ i + 1 >= 1 /\ i \in Nat
        <5>1. i \in Nat
          <6>1. pipe'[s] \in Seq(Sayable)
            BY HandledIsTail
          <6> QED
            BY <1>3, <6>1
        <5> QED
          BY <2>1, <5>1, HandledIsTail
      <4> QED
        BY <2>2, <4>1
    <3>2. j - 1 \in DOMAIN pipe'[s] /\ j - 1 > i
      BY <2>2, <3>1, HandledIsTail
    <3>3. pipe'[s][j - 1] = pipe[s][(j - 1) + 1]
      BY <3>2, HandledIsTail
    <3>4. (j - 1) + 1 = j
      BY <3>1
    <3> QED
      BY <1>1, <1>3, <3>2, <3>3, <3>4
  <2> QED
    BY <1>1, <1>3, <2>1, <2>2 DEF LastWord
<1> QED
  BY <1>2, <1>3

\* Once all is said of x, the method just handled was the last word, or of something else.
LEMMA SaidHandled ==
  ASSUME WorldTypeOK, NEW s \in Streams, Handle(s), NEW x, Said(x)'
  PROVE  \/ Subject(pipe[s][1]) = x /\ LastWord(x, s, 1)
         \/ Subject(pipe[s][1]) # x /\ Said(x)
<1>1. \A t \in Streams : \A i \in DOMAIN pipe'[t] : Subject(pipe'[t][i]) # x
  BY DEF Said, Awaited, Subject
<1>2. ASSUME NEW j \in DOMAIN pipe[s], j # 1 PROVE Subject(pipe[s][j]) # x
  <2>1. j - 1 \in DOMAIN pipe'[s] /\ j \in Nat
    BY <1>2, HandledIsTail
  <2>2. pipe'[s][j - 1] = pipe[s][(j - 1) + 1] /\ (j - 1) + 1 = j
    BY <2>1, HandledIsTail
  <2> QED
    BY <1>1, <2>1, <2>2
<1>3. \A t \in Streams : t # s => \A i \in DOMAIN pipe[t] : Subject(pipe[t][i]) # x
  BY <1>1, HandledIsTail
<1>4. CASE Subject(pipe[s][1]) = x
  BY <1>2, <1>4 DEF LastWord
<1>5. CASE Subject(pipe[s][1]) # x
  BY <1>2, <1>3, <1>5 DEF Said, Awaited
<1> QED
  BY <1>4, <1>5

LEMMA HandleKeepsEntity ==
  ASSUME TypeOK, WorldTypeOK, NEW s \in Streams, Handle(s), NEW e \in Entities, EntityKept(e)
  PROVE  EntityKept(e)'
<1> DEFINE m == pipe[s][1]
<1>1. m \in Sayable /\ 1 \in DOMAIN pipe[s]
  BY HandledIsTail
<1>2. entities' = NextEntities(Evaluate(m)) /\ UNCHANGED <<exists, cleared>>
  BY HandledIsTail DEF Handle, broker
<1>3. /\ m.name \in Declaring => Shown(m.entity, entities') /\ FlagsIn(m) \subseteq entities'[m.entity].marks
      /\ m.name \in Deleting => ~Shown(m.entity, entities')
      /\ e # Subject(m) => /\ e \in DOMAIN entities' <=> e \in DOMAIN entities
                           /\ e \in DOMAIN entities' => entities'[e] = entities[e]
  BY <1>1, <1>2, EntitiesStep
<1>4. ASSUME NEW t \in Streams, NEW i \in DOMAIN pipe'[t], LastWord(e, t, i)'
      PROVE  SaysEntity(pipe[t][i], e)'
  <2>1. PICK j \in DOMAIN pipe[t] : LastWord(e, t, j) /\ pipe[t][j] = pipe'[t][i]
    BY <1>4, LastWordHandled
  <2>2. SaysEntity(pipe[t][j], e)
    BY <2>1 DEF EntityKept
  <2> QED
    BY <1>2, <2>1, <2>2 DEF SaysEntity
<1>5. ASSUME Said(e)'
      PROVE  /\ Shown(e, entities') => e \in DOMAIN exists
             /\ e \in DOMAIN exists /\ ~cleared =>
                  /\ Shown(e, entities')
                  /\ e \in Queues => exists[e] \subseteq entities'[e].marks
  <2>1. CASE Subject(m) # e
    <3>1. Said(e)
      BY <1>5, <2>1, SaidHandled
    <3>2. /\ e \in DOMAIN entities' <=> e \in DOMAIN entities
          /\ e \in DOMAIN entities' => entities'[e] = entities[e]
      BY <1>3, <2>1
    <3>3. /\ Shown(e, entities) => e \in DOMAIN exists
          /\ e \in DOMAIN exists /\ ~cleared =>
               Shown(e, entities) /\ (e \in Queues => exists[e] \subseteq entities[e].marks)
      BY <3>1 DEF EntityKept
    <3> QED
      BY <3>2, <3>3 DEF Shown
  <2>2. CASE Subject(m) = e /\ LastWord(e, s, 1)
    <3>1. SaysEntity(m, e)
      BY <1>1, <2>2 DEF EntityKept
    <3>2. m.entity = e
      BY <2>2, <3>1, TopologyAssumption DEF Subject, SaysEntity, Stating, Declaring, Deleting
    <3>3. CASE e \in DOMAIN exists
      <4>1. m.name \in Declaring /\ (e \in Queues => m.name = "queue.declare" /\ m.marks = exists[e])
        BY <3>1, <3>3 DEF SaysEntity
      <4>2. e \in Queues => exists[e] \subseteq FlagsIn(m)
        <5>1. exists[e] \in Flagged
          BY <3>3 DEF WorldTypeOK
        <5> QED
          BY <4>1, <5>1 DEF FlagsIn, Flagged
      <4> QED
        BY <1>3, <3>2, <3>3, <4>1, <4>2
    <3>4. CASE e \notin DOMAIN exists
      BY <1>3, <3>1, <3>2, <3>4 DEF SaysEntity
    <3> QED
      BY <3>3, <3>4
  <2> QED
    BY <1>5, <2>1, <2>2, SaidHandled
<1>6. Said(e)' => (/\ Shown(e, entities) => e \in DOMAIN exists
                   /\ e \in DOMAIN exists /\ ~cleared =>
                        /\ Shown(e, entities)
                        /\ e \in Queues => exists[e] \subseteq entities[e].marks)'
  BY <1>2, <1>5 DEF Shown
<1> QED
  BY <1>4, <1>6 DEF EntityKept

LEMMA HandleKeepsTag ==
  ASSUME TypeOK, WorldTypeOK, NEW s \in Streams, Handle(s), NEW t \in Tags, ConsumersKept(t)
  PROVE  ConsumersKept(t)'
<1> DEFINE m == pipe[s][1]
<1>1. m \in Sayable /\ 1 \in DOMAIN pipe[s]
  BY HandledIsTail
<1>2. consumers' = NextConsumers(Evaluate(m)) /\ UNCHANGED <<consuming, cleared>>
  BY HandledIsTail DEF Handle, broker
<1>3. /\ m.name = "basic.consume" => Shown(m.tag, consumers') /\ consumers'[m.tag].queue = m.entity
      /\ t # Subject(m) => /\ t \in DOMAIN consumers' <=> t \in DOMAIN consumers
                           /\ t \in DOMAIN consumers' => consumers'[t] = consumers[t]
  BY <1>1, <1>2, ConsumersStep
<1>4. ASSUME NEW r \in Streams, NEW i \in DOMAIN pipe'[r], LastWord(t, r, i)'
      PROVE  SaysConsumers(pipe[r][i], t)'
  <2>1. PICK j \in DOMAIN pipe[r] : LastWord(t, r, j) /\ pipe[r][j] = pipe'[r][i]
    BY <1>4, LastWordHandled
  <2>2. SaysConsumers(pipe[r][j], t)
    BY <2>1 DEF ConsumersKept
  <2> QED
    BY <1>2, <2>1, <2>2 DEF SaysConsumers
<1>5. ASSUME Said(t)', NEW k \in consuming, k.tag = t, ~cleared
      PROVE  Shown(t, consumers') /\ consumers'[t].queue = k.queue
  <2>1. CASE Subject(m) # t
    <3>1. Said(t)
      BY <1>5, <2>1, SaidHandled
    <3>2. /\ t \in DOMAIN consumers' <=> t \in DOMAIN consumers
          /\ t \in DOMAIN consumers' => consumers'[t] = consumers[t]
      BY <1>3, <2>1
    <3>3. Shown(t, consumers) /\ consumers[t].queue = k.queue
      BY <1>5, <3>1 DEF ConsumersKept
    <3> QED
      BY <3>2, <3>3 DEF Shown
  <2>2. CASE Subject(m) = t /\ LastWord(t, s, 1)
    <3>1. SaysConsumers(m, t)
      BY <1>1, <2>2 DEF ConsumersKept
    <3>2. m.name = "basic.consume" /\ m.entity = k.queue
      BY <1>5, <3>1 DEF SaysConsumers
    <3>3. m.tag = t
      BY <2>2, <3>2 DEF Subject
    <3> QED
      BY <1>3, <3>2, <3>3
  <2> QED
    BY <1>5, <2>1, <2>2, SaidHandled
<1>6. (\A k \in consuming : k.tag = t /\ Said(t) /\ ~cleared =>
         Shown(t, consumers) /\ consumers[t].queue = k.queue)'
  BY <1>2, <1>5 DEF Shown
<1> QED
  BY <1>4, <1>6 DEF ConsumersKept

-----------------------------------------------------------------------------
(* An operation and the names                                              *)

LEMMA BothSay ==
  ASSUME NEW c \in Conns, NEW m, NEW n
  PROVE  /\ Both(c, <<m>>, <<n>>)[Client(c)] = <<m>>
         /\ Both(c, <<m>>, <<n>>)[Broker(c)] = <<n>>
         /\ \A s \in Streams : \A k \in DOMAIN Both(c, <<m>>, <<n>>)[s] :
              \/ s = Client(c) /\ k = 1 /\ Both(c, <<m>>, <<n>>)[s][k] = m
              \/ s = Broker(c) /\ k = 1 /\ Both(c, <<m>>, <<n>>)[s][k] = n
<1>1. Client(c) \in Streams /\ Broker(c) \in Streams /\ Client(c) # Broker(c)
  BY ClientAndBroker
<1>2. ASSUME NEW s \in Streams, NEW k \in DOMAIN Both(c, <<m>>, <<n>>)[s]
      PROVE  \/ s = Client(c) /\ k = 1 /\ Both(c, <<m>>, <<n>>)[s][k] = m
             \/ s = Broker(c) /\ k = 1 /\ Both(c, <<m>>, <<n>>)[s][k] = n
  <2>1. CASE s = Client(c)
    BY <1>1, <1>2, <2>1 DEF Both
  <2>2. CASE s = Broker(c)
    BY <1>1, <1>2, <2>2 DEF Both
  <2>3. CASE s # Client(c) /\ s # Broker(c)
    BY <1>1, <1>2, <2>3 DEF Both
  <2> QED
    BY <2>1, <2>2, <2>3
<1> QED
  BY <1>1, <1>2 DEF Both

LEMMA SendsInType == ASSUME WorldTypeOK, NEW w, Sends(w) PROVE pipe' \in [Streams -> Seq(Sayable)]
BY DEF WorldTypeOK, Sends

NamesHold == EntityWordsHold /\ EntitiesAgree /\ ConsumerWordsHold /\ ConsumersShown

CloseFree(w) == \A s \in Streams : \A k \in DOMAIN w[s] : w[s][k].name # "connection.close"

\* An operation about x leaves the others as they were.
LEMMA OthersKept ==
  ASSUME WorldTypeOK, WorldTypeOK', NamesHold, NEW w, Sends(w), NEW x,
         UNCHANGED <<entities, consumers, cleared>>, unsure \ {x} \subseteq unsure',
         \A s \in Streams : \A k \in DOMAIN w[s] : Subject(w[s][k]) \in {x, NoName} \cup unsure',
         \A e \in Entities \ {x} : /\ e \in DOMAIN exists' <=> e \in DOMAIN exists
                                   /\ e \in DOMAIN exists => exists'[e] = exists[e],
         \A k \in consuming' : k \notin consuming => k.tag = x,
         x \in Entities \ unsure' => EntityKept(x)',
         x \in Tags \ unsure' => ConsumersKept(x)'
  PROVE  NamesHold'
<1>1. /\ \A e \in Entities \ unsure : EntityKept(e)
      /\ \A t \in Tags \ unsure : ConsumersKept(t)
  BY EachIsKept DEF NamesHold
<1>2. NoName \notin Entities \cup Tags
  BY TopologyAssumption
<1>3. ASSUME NEW e \in Entities \ unsure' PROVE EntityKept(e)'
  <2>1. CASE e # x
    <3>1. EntityKept(e)
      BY <1>1, <2>1
    <3>2. \A s \in Streams : \A k \in DOMAIN w[s] : Subject(w[s][k]) # e
      BY <1>2, <1>3, <2>1
    <3>3. /\ e \in DOMAIN exists' <=> e \in DOMAIN exists
          /\ e \in DOMAIN exists => exists'[e] = exists[e]
      BY <2>1
    <3> QED
      BY <3>1, <3>2, <3>3, QuietEntity
  <2> QED
    BY <2>1
<1>4. ASSUME NEW t \in Tags \ unsure' PROVE ConsumersKept(t)'
  <2>1. CASE t # x
    <3>1. ConsumersKept(t)
      BY <1>1, <2>1
    <3>2. \A s \in Streams : \A k \in DOMAIN w[s] : Subject(w[s][k]) # t
      BY <1>2, <1>4, <2>1
    <3>3. \A k \in consuming' : k.tag = t => k \in consuming
      BY <2>1
    <3> QED
      BY <3>1, <3>2, <3>3, QuietTag
  <2> QED
    BY <2>1
<1>5. (EntityWordsHold /\ EntitiesAgree)'
  BY <1>3 DEF EntityWordsHold, EntitiesAgree, EntityKept
<1>6. (ConsumerWordsHold /\ ConsumersShown)'
  <2>1. \A k \in consuming' : k.tag \in Tags
    BY DEF WorldTypeOK, Consumers
  <2> QED
    BY <1>4, <2>1 DEF ConsumerWordsHold, ConsumersShown, ConsumersKept
<1> QED
  BY <1>5, <1>6 DEF NamesHold

LEMMA Settled ==
  ASSUME NEW x, NEW s, NEW decisive \in BOOLEAN, Settles(x, s, decisive)
  PROVE  /\ unsure \ {x} \subseteq unsure'
         /\ x \notin unsure' => decisive /\ \A t \in Streams \ {s} : ~Awaited(x, t)
BY DEF Settles

\* An operation of a client about x, and the broker's reply.
LEMMA ExchangeKeeps ==
  ASSUME WorldTypeOK, WorldTypeOK', NamesHold, NEW c \in Conns, NEW x,
         NEW m \in Sayable, NEW n \in Idle, Exchanged(c, <<m>>, <<n>>), Subject(m) = x,
         NEW decisive \in BOOLEAN, Settles(x, Client(c), decisive),
         UNCHANGED <<entities, consumers, cleared>>,
         \A e \in Entities \ {x} : /\ e \in DOMAIN exists' <=> e \in DOMAIN exists
                                   /\ e \in DOMAIN exists => exists'[e] = exists[e],
         \A k \in consuming' : k \notin consuming => k.tag = x,
         decisive /\ x \in Entities => SaysEntity(m, x)',
         decisive /\ x \in Tags => SaysConsumers(m, x)'
  PROVE  NamesHold'
<1> DEFINE w == Both(c, <<m>>, <<n>>)
<1>1. n \in Sayable /\ Subject(n) = NoName
  BY IdleMeans
<1>2. Sends(w)
  <2>1. <<m>> \in Seq(Sayable) /\ <<n>> \in Seq(Sayable)
    BY <1>1
  <2> QED
    BY <2>1, ExchangedSends
<1>3. /\ w[Client(c)] = <<m>> /\ Client(c) \in Streams
      /\ \A s \in Streams : \A k \in DOMAIN w[s] : (s = Client(c) /\ w[s][k] = m) \/ w[s][k] = n
  <2>1. ASSUME NEW s \in Streams, NEW k \in DOMAIN w[s]
        PROVE  (s = Client(c) /\ w[s][k] = m) \/ w[s][k] = n
    BY BothSay
  <2>2. w[Client(c)] = <<m>>
    BY ClientAndBroker DEF Both
  <2> QED
    BY <2>1, <2>2, ClientAndBroker
<1> HIDE DEF w
<1>4. /\ unsure \ {x} \subseteq unsure'
      /\ x \notin unsure' => decisive /\ \A t \in Streams \ {Client(c)} : ~Awaited(x, t)
  BY Settled
<1>5. \A s \in Streams : \A k \in DOMAIN w[s] : Subject(w[s][k]) \in {x, NoName} \cup unsure'
  BY <1>1, <1>3
<1>6. NoName \notin Entities \cup Tags
  BY TopologyAssumption
<1>7. x \in Entities \cup Tags => 
        \A s \in Streams \ {Client(c)} : \A k \in DOMAIN w[s] : Subject(w[s][k]) # x
  BY <1>1, <1>3, <1>6
<1>8. x \in Entities \ unsure' => EntityKept(x)'
  BY <1>2, <1>3, <1>4, <1>7, SettledEntity
<1>9. x \in Tags \ unsure' => ConsumersKept(x)'
  BY <1>2, <1>3, <1>4, <1>7, SettledTag
<1> QED
  BY <1>2, <1>4, <1>5, <1>8, <1>9, OthersKept

\* The broker's reply to a client closes nothing.
LEMMA ExchangeSends ==
  ASSUME WorldTypeOK, NEW c \in Conns, NEW m \in Sayable, NEW n \in Idle,
         Exchanged(c, <<m>>, <<n>>), m.name # "connection.close", n.name # "connection.close"
  PROVE  /\ \E w : Sends(w) /\ CloseFree(w)
         /\ pipe' \in [Streams -> Seq(Sayable)]
<1> DEFINE w == Both(c, <<m>>, <<n>>)
<1>1. <<m>> \in Seq(Sayable) /\ <<n>> \in Seq(Sayable)
  BY IdleMeans
<1>2. Sends(w)
  BY <1>1, ExchangedSends
<1>3. CloseFree(w)
  BY BothSay DEF CloseFree
<1> HIDE DEF w
<1> QED
  BY <1>2, <1>3, SendsInType

LEMMA RefusedIdle ==
  ASSUME NEW code \in {404, 406}
  PROVE  /\ Refused(code) = <<Coded("channel.close", code, {})>>
         /\ Coded("channel.close", code, {}) \in Idle
         /\ Coded("channel.close", code, {}).name # "connection.close"
<1>1. Coded("channel.close", code, {}) \in Idle
  BY DEF Idle
<1>2. Coded("channel.close", code, {}).name # "connection.close"
  BY DEF Coded, Plain
<1> QED
  BY <1>1, <1>2 DEF Refused

WorldKeeps == WorldTypeOK' /\ NamesHold' /\ \E w : Sends(w) /\ CloseFree(w)

LEMMA DeclareKeeps ==
  ASSUME WorldTypeOK, NamesHold, NEW c \in Conns, NEW e \in Entities, NEW flags \in Flagged,
         Declare(c, e, flags)
  PROVE  WorldKeeps
<1> DEFINE agreed == e \in DOMAIN exists => exists[e] = flags
           m == [Method(e, "declare") EXCEPT !.marks = flags]
           n == IF agreed THEN Confirm(e, "declare") ELSE Coded("channel.close", 406, {})
<1>1. /\ m \in Sayable /\ m.name \in Declaring /\ Subject(m) = e /\ m.marks = flags
      /\ e \in Queues => m.name = "queue.declare"
      /\ m.name # "connection.close"
  <2>1. /\ m \in Sayable /\ m.name \in Declaring /\ Subject(m) = e /\ m.marks = flags
        /\ e \in Queues => m.name = "queue.declare"
    BY DeclareSayable
  <2> QED
    BY <2>1 DEF Declaring
<1>2. n \in Idle /\ n.name # "connection.close"
  BY ConfirmIdle, RefusedIdle
<1>3. Exchanged(c, <<m>>, <<n>>)
  BY RefusedIdle DEF Declare
<1>4. /\ exists' = IF agreed THEN [x \in DOMAIN exists \cup {e} |->
                                     IF x = e THEN flags ELSE exists[x]] ELSE exists
      /\ Settles(e, Client(c), agreed) /\ agreed \in BOOLEAN
      /\ UNCHANGED <<up, opened, consuming, entities, consumers, cleared>>
  BY DEF Declare, Operation, topo
<1> HIDE DEF agreed, m, n
<1>5. /\ pipe' \in [Streams -> Seq(Sayable)] /\ \E w : Sends(w) /\ CloseFree(w)
  BY <1>1, <1>2, <1>3, ExchangeSends
<1>6. PICK known \in SUBSET Entities : exists \in [known -> Flagged]
  BY DEF WorldTypeOK
<1>7. \E k \in SUBSET Entities : exists' \in [k -> Flagged]
  <2>1. CASE agreed
    <3>1. exists' \in [known \cup {e} -> Flagged]
      BY <1>4, <1>6, <2>1
    <3> QED
      BY <3>1
  <2>2. CASE ~agreed
    BY <1>4, <1>6, <2>2
  <2> QED
    BY <2>1, <2>2
<1>8. WorldTypeOK'
  BY <1>4, <1>5, <1>7 DEF WorldTypeOK
<1>9. \A x \in Entities \ {e} : /\ x \in DOMAIN exists' <=> x \in DOMAIN exists
                                /\ x \in DOMAIN exists => exists'[x] = exists[x]
  BY <1>4
<1>10. agreed => SaysEntity(m, e)'
  <2>1. agreed => e \in DOMAIN exists' /\ exists'[e] = flags
    BY <1>4
  <2> QED
    BY <1>1, <2>1 DEF SaysEntity
<1>11. e \notin Tags
  BY TopologyAssumption
<1>12. NamesHold'
  BY <1>1, <1>2, <1>3, <1>4, <1>8, <1>9, <1>10, <1>11, ExchangeKeeps
<1> QED
  BY <1>5, <1>8, <1>12 DEF WorldKeeps

LEMMA CheckKeeps ==
  ASSUME WorldTypeOK, NamesHold, NEW c \in Conns, NEW q \in Queues, Check(c, q)
  PROVE  WorldKeeps
<1> DEFINE m == [Method(q, "declare") EXCEPT !.marks = {"passive"}]
           n == IF q \in DOMAIN exists THEN Confirm(q, "declare")
                                       ELSE Coded("channel.close", 404, {})
<1>1. q \in Entities
  BY DEF Entities
<1>2. m \in Sayable /\ Subject(m) = q /\ m.name # "connection.close"
  <2>1. {"passive"} \in Flagged \cup {{"passive"}}
    OBVIOUS
  <2>2. m \in Sayable /\ Subject(m) = q /\ m.name \in Declaring
    BY <1>1, <2>1, DeclareSayable
  <2> QED
    BY <2>2 DEF Declaring
<1>3. n \in Idle /\ n.name # "connection.close"
  BY <1>1, ConfirmIdle, RefusedIdle
<1>4. Exchanged(c, <<m>>, <<n>>)
  BY RefusedIdle DEF Check
<1>5. /\ Settles(q, Client(c), FALSE)
      /\ UNCHANGED <<up, opened, exists, consuming, entities, consumers, cleared>>
  BY DEF Check, Operation, topo
<1> HIDE DEF m, n
<1>6. /\ pipe' \in [Streams -> Seq(Sayable)] /\ \E w : Sends(w) /\ CloseFree(w)
  BY <1>2, <1>3, <1>4, ExchangeSends
<1>7. WorldTypeOK'
  BY <1>5, <1>6 DEF WorldTypeOK
<1>8. NamesHold'
  BY <1>2, <1>3, <1>4, <1>5, <1>7, ExchangeKeeps
<1> QED
  BY <1>6, <1>7, <1>8 DEF WorldKeeps

LEMMA RefuseDeleteKeeps ==
  ASSUME WorldTypeOK, NamesHold, NEW c \in Conns, NEW e \in Entities, RefuseDelete(c, e)
  PROVE  WorldKeeps
<1> DEFINE m == Method(e, "delete")
           n == Coded("channel.close", 406, {})
<1>1. m \in Sayable /\ Subject(m) = e /\ m.name # "connection.close"
  <2>1. m \in Sayable /\ Subject(m) = e /\ m.name \in Deleting
    BY DeleteSayable
  <2> QED
    BY <2>1 DEF Deleting
<1>2. n \in Idle /\ n.name # "connection.close"
  BY RefusedIdle
<1>3. Exchanged(c, <<m>>, <<n>>)
  BY RefusedIdle DEF RefuseDelete
<1>4. /\ Settles(e, Client(c), FALSE)
      /\ UNCHANGED <<up, opened, exists, consuming, entities, consumers, cleared>>
  BY DEF RefuseDelete, Operation, topo
<1> HIDE DEF m, n
<1>5. /\ pipe' \in [Streams -> Seq(Sayable)] /\ \E w : Sends(w) /\ CloseFree(w)
  BY <1>1, <1>2, <1>3, ExchangeSends
<1>6. WorldTypeOK'
  BY <1>4, <1>5 DEF WorldTypeOK
<1>7. NamesHold'
  BY <1>1, <1>2, <1>3, <1>4, <1>6, ExchangeKeeps
<1> QED
  BY <1>5, <1>6, <1>7 DEF WorldKeeps

LEMMA ConsumeKeeps ==
  ASSUME WorldTypeOK, NamesHold, NEW c \in Conns, NEW q \in Queues, NEW t \in Tags,
         Consume(c, q, t)
  PROVE  WorldKeeps
<1> DEFINE m == [Named("basic.consume", q) EXCEPT !.tag = t]
           n == Plain("basic.consume-ok")
           new == [conn |-> c, tag |-> t, queue |-> q]
           free == \A k \in consuming : k.tag # t
<1>1. m \in Sayable /\ Subject(m) = t /\ m.name = "basic.consume" /\ m.entity = q
  BY ConsumeSayable
<1>2. n \in Idle /\ n.name # "connection.close"
  BY DEF Idle, Plain
<1>3. Exchanged(c, <<m>>, <<n>>)
  BY DEF Consume
<1>4. /\ consuming' = consuming \cup {new}
      /\ Settles(t, Client(c), free) /\ free \in BOOLEAN
      /\ UNCHANGED <<up, opened, exists, entities, consumers, cleared>>
  BY DEF Consume, Operation, topo
<1>5. new \in Consumers /\ new.tag = t /\ new.queue = q
  BY DEF Consumers
<1>6. free => SaysConsumers(m, t)'
  BY <1>1, <1>4, <1>5 DEF SaysConsumers
<1> HIDE DEF m, n, new, free
<1>7. /\ pipe' \in [Streams -> Seq(Sayable)] /\ \E w : Sends(w) /\ CloseFree(w)
  BY <1>1, <1>2, <1>3, ExchangeSends
<1>8. consuming' \subseteq Consumers /\ IsFiniteSet(consuming')
  BY <1>4, <1>5, FS_AddElement DEF WorldTypeOK
<1>9. WorldTypeOK'
  BY <1>4, <1>7, <1>8 DEF WorldTypeOK
<1>10. t \notin Entities
  BY TopologyAssumption
<1>11. \A k \in consuming' : k \notin consuming => k.tag = t
  BY <1>4, <1>5
<1>12. NamesHold'
  BY <1>1, <1>2, <1>3, <1>4, <1>6, <1>9, <1>10, <1>11, ExchangeKeeps
<1> QED
  BY <1>7, <1>9, <1>12 DEF WorldKeeps

LEMMA CancelKeeps ==
  ASSUME WorldTypeOK, NamesHold, NEW c \in Conns, NEW t \in Tags, Cancel(c, t)
  PROVE  WorldKeeps
<1> DEFINE m == Named("basic.cancel", t)
           n == Plain("basic.cancel-ok")
           own == \A k \in consuming : k.tag = t => k.conn = c
<1>1. m \in Sayable /\ Subject(m) = t /\ m.name = "basic.cancel"
  BY CancelSayable
<1>2. n \in Idle /\ n.name # "connection.close"
  BY DEF Idle, Plain
<1>3. Exchanged(c, <<m>>, <<n>>)
  BY DEF Cancel
<1>4. /\ consuming' = {k \in consuming : ~(k.conn = c /\ k.tag = t)}
      /\ Settles(t, Client(c), own) /\ own \in BOOLEAN
      /\ UNCHANGED <<up, opened, exists, entities, consumers, cleared>>
  BY DEF Cancel, Operation, topo
<1>5. own => SaysConsumers(m, t)'
  BY <1>4 DEF SaysConsumers
<1> HIDE DEF m, n, own
<1>6. /\ pipe' \in [Streams -> Seq(Sayable)] /\ \E w : Sends(w) /\ CloseFree(w)
  BY <1>1, <1>2, <1>3, ExchangeSends
<1>7. consuming' \subseteq consuming
  BY <1>4
<1>8. WorldTypeOK'
  BY <1>4, <1>6, <1>7, FS_Subset DEF WorldTypeOK
<1>9. t \notin Entities
  BY TopologyAssumption
<1>10. NamesHold'
  BY <1>1, <1>2, <1>3, <1>4, <1>5, <1>7, <1>8, <1>9, ExchangeKeeps
<1> QED
  BY <1>6, <1>8, <1>10 DEF WorldKeeps

\* The broker cancels each consumer of the queue once.
LEMMA CancelledSays ==
  ASSUME WorldTypeOK, NEW q, NEW d
  PROVE  /\ Cancelled(q, d) \in Seq(Sayable)
         /\ \A k \in DOMAIN Cancelled(q, d) :
              /\ Cancelled(q, d)[k].name # "connection.close"
              /\ \E l \in consuming : l.queue = q /\ Subject(Cancelled(q, d)[k]) = l.tag
<1> DEFINE K == {l \in consuming : l.queue = q /\ l.conn = d}
           S == {Named("basic.cancel", l.tag) : l \in K}
           f == [l \in K |-> Named("basic.cancel", l.tag)]
           r == SetToSeq(S)
<1>1. Cancelled(q, d) = r
  BY DEF Cancelled
<1>2. IsFiniteSet(K)
  BY FS_Subset DEF WorldTypeOK
<1>3. f \in Surjection(K, S)
  BY DEF Surjection
<1>4. IsFiniteSet(S)
  BY <1>2, <1>3, FS_Surjection
<1>5. \E g \in [1..Cardinality(S) -> S] : IsInjective(g)
  <2>1. PICK g : g \in Bijection(1..Cardinality(S), S)
    BY <1>4, FS_CardinalityType DEF ExistsBijection
  <2> QED
    BY <2>1 DEF Bijection, Injection, IsInjective
<1>6. r \in [1..Cardinality(S) -> S]
  BY <1>5 DEF SetToSeq
<1>7. \A m \in S : /\ m \in Sayable /\ m.name # "connection.close"
                   /\ \E l \in consuming : l.queue = q /\ Subject(m) = l.tag
  <2>1. ASSUME NEW l \in K
        PROVE  LET m == Named("basic.cancel", l.tag) IN
               m \in Sayable /\ m.name # "connection.close" /\ Subject(m) = l.tag
    <3>1. l.tag \in Tags
      BY DEF WorldTypeOK, Consumers
    <3> QED
      BY <3>1, CancelSayable
  <2> QED
    BY <2>1
<1>8. Cardinality(S) \in Nat
  BY <1>4, FS_CardinalityType
<1> HIDE DEF S, r
<1>9. r \in Seq(Sayable) /\ \A k \in DOMAIN r : r[k] \in S
  BY <1>6, <1>7, <1>8
<1> QED
  BY <1>1, <1>7, <1>9

LEMMA DeleteKeeps ==
  ASSUME WorldTypeOK, NamesHold, NEW c \in Conns, NEW e \in Entities, Delete(c, e)
  PROVE  WorldKeeps
<1> DEFINE m == Method(e, "delete")
           n == Confirm(e, "delete")
           told(s) == Cancelled(e, s[1]) \o (IF s = Broker(c) THEN <<n>> ELSE <<>>)
           out == [s \in {Client(c)} \cup (up \X {"broker"}) |->
                     IF s = Client(c) THEN <<m>> ELSE told(s)]
           w == [s \in Streams |-> IF s = Client(c) THEN <<m>>
                                   ELSE IF s \in up \X {"broker"} THEN told(s) ELSE <<>>]
           silenced == {k.tag : k \in {l \in consuming : l.queue = e}}
           overlap == \E s \in Streams \ {Client(c)} : Awaited(e, s)
<1>1. m \in Sayable /\ Subject(m) = e /\ m.name \in Deleting /\ m.name # "connection.close"
  <2>1. m \in Sayable /\ Subject(m) = e /\ m.name \in Deleting
    BY DeleteSayable
  <2> QED
    BY <2>1 DEF Deleting
<1>2. n \in Sayable /\ Subject(n) = NoName /\ n.name # "connection.close"
  BY ConfirmIdle, IdleMeans
<1>3. Send(out)
  BY DEF Delete
<1>4. /\ exists' = [x \in DOMAIN exists \ {e} |-> exists[x]]
      /\ consuming' = {k \in consuming : k.queue # e}
      /\ unsure' = silenced \cup (IF overlap THEN unsure \cup {e} ELSE unsure \ {e})
      /\ UNCHANGED <<up, opened, entities, consumers, cleared>>
  BY DEF Delete, Operation, topo
<1>5. ASSUME NEW s \in Streams
      PROVE  /\ told(s) \in Seq(Sayable)
             /\ \A k \in DOMAIN told(s) : /\ told(s)[k].name # "connection.close"
                                          /\ Subject(told(s)[k]) \in silenced \cup {NoName}
  <2> DEFINE a == Cancelled(e, s[1])
             b == IF s = Broker(c) THEN <<n>> ELSE <<>>
  <2>1. /\ a \in Seq(Sayable)
        /\ \A k \in DOMAIN a : a[k].name # "connection.close" /\ Subject(a[k]) \in silenced
    BY CancelledSays
  <2>2. /\ b \in Seq(Sayable)
        /\ \A k \in DOMAIN b : b[k].name # "connection.close" /\ Subject(b[k]) = NoName
    BY <1>2
  <2> HIDE DEF a, b, silenced
  <2>3. /\ a \o b \in Seq(Sayable)
        /\ \A k \in DOMAIN (a \o b) : \/ k \in DOMAIN a /\ (a \o b)[k] = a[k]
                                      \/ k - Len(a) \in DOMAIN b /\ (a \o b)[k] = b[k - Len(a)]
    BY <2>1, <2>2
  <2>4. \A k \in DOMAIN (a \o b) : /\ (a \o b)[k].name # "connection.close"
                                   /\ Subject((a \o b)[k]) \in silenced \cup {NoName}
    BY <2>1, <2>2, <2>3
  <2> QED
    BY <2>3, <2>4 DEF a, b
<1>6. <<m>> \in Seq(Sayable) /\ <<>> \in Seq(Sayable)
  BY <1>1
<1> HIDE DEF m, n, told, silenced, overlap
<1>7. w \in [Streams -> Seq(Sayable)]
  BY <1>5, <1>6
<1>8. \A s \in Streams : w[s] = IF s \in DOMAIN out THEN out[s] ELSE <<>>
  OBVIOUS
<1>9. ASSUME NEW s \in Streams, NEW k \in DOMAIN w[s]
      PROVE  /\ w[s][k].name # "connection.close"
             /\ s = Client(c) => Subject(w[s][k]) = e
             /\ s # Client(c) => Subject(w[s][k]) \in silenced \cup {NoName}
  <2>1. CASE s = Client(c)
    <3>1. w[s] = <<m>>
      BY <2>1
    <3> HIDE DEF w
    <3>2. w[s][k] = m
      BY <1>9, <3>1
    <3> QED
      BY <1>1, <2>1, <3>2
  <2>2. CASE s # Client(c) /\ s \in up \X {"broker"}
    <3>1. w[s] = told(s)
      BY <2>2
    <3> HIDE DEF w
    <3> QED
      BY <1>5, <1>9, <2>2, <3>1
  <2>3. CASE s # Client(c) /\ s \notin up \X {"broker"}
    <3>1. w[s] = <<>>
      BY <2>3
    <3> HIDE DEF w
    <3> QED
      BY <1>9, <3>1
  <2> QED
    BY <2>1, <2>2, <2>3
<1>10. w[Client(c)] = <<m>> /\ Client(c) \in Streams
  BY ClientAndBroker
<1> HIDE DEF w, out
<1>11. Sends(w)
  BY <1>3, <1>7, <1>8, SendSends
<1>12. CloseFree(w)
  BY <1>9 DEF CloseFree
<1>13. WorldTypeOK'
  <2>1. consuming' \subseteq consuming
    BY <1>4
  <2>2. PICK known \in SUBSET Entities : exists \in [known -> Flagged]
    BY DEF WorldTypeOK
  <2>3. exists' \in [known \ {e} -> Flagged] /\ known \ {e} \in SUBSET Entities
    BY <1>4, <2>2
  <2>4. pipe' \in [Streams -> Seq(Sayable)]
    BY <1>11, SendsInType
  <2>5. consuming' \subseteq Consumers /\ IsFiniteSet(consuming')
    BY <2>1, FS_Subset DEF WorldTypeOK
  <2>6. (up \subseteq opened /\ opened \subseteq Conns /\ IsFiniteSet(opened))'
    BY <1>4 DEF WorldTypeOK
  <2>7. \E k \in SUBSET Entities : exists' \in [k -> Flagged]
    BY <2>3
  <2> QED
    BY <2>4, <2>5, <2>6, <2>7 DEF WorldTypeOK
<1>14. silenced \subseteq Tags /\ e \notin Tags /\ e # NoName
  <2>1. silenced \subseteq Tags
    BY DEF silenced, WorldTypeOK, Consumers
  <2> QED
    BY <2>1, TopologyAssumption
<1>15. e \notin unsure' => EntityKept(e)'
  <2>1. ASSUME e \notin unsure' PROVE \A s \in Streams \ {Client(c)} : ~Awaited(e, s)
    BY <1>4, <2>1 DEF overlap
  <2>2. \A s \in Streams \ {Client(c)} : \A k \in DOMAIN w[s] : Subject(w[s][k]) # e
    BY <1>9, <1>14
  <2>3. SaysEntity(m, e)'
    BY <1>1, <1>4 DEF SaysEntity
  <2> QED
    BY <1>1, <1>10, <1>11, <2>1, <2>2, <2>3, SettledEntity
<1>16. NamesHold'
  <2>1. \A s \in Streams : \A k \in DOMAIN w[s] : Subject(w[s][k]) \in {e, NoName} \cup unsure'
    BY <1>4, <1>9
  <2>2. \A x \in Entities \ {e} : /\ x \in DOMAIN exists' <=> x \in DOMAIN exists
                                  /\ x \in DOMAIN exists => exists'[x] = exists[x]
    BY <1>4
  <2>3. \A k \in consuming' : k \notin consuming => k.tag = e
    BY <1>4
  <2>4. unsure \ {e} \subseteq unsure'
    BY <1>4
  <2> QED
    BY <1>4, <1>11, <1>13, <1>14, <1>15, <2>1, <2>2, <2>3, <2>4, OthersKept
<1> QED
  BY <1>11, <1>12, <1>13, <1>16 DEF WorldKeeps

\* Only stream s gets something.
One(s, m) == [t \in Streams |-> IF t = s THEN <<m>> ELSE <<>>]

LEMMA OneSends ==
  ASSUME WorldTypeOK, NEW s \in Streams, NEW m \in Idle, Send([t \in {s} |-> <<m>>])
  PROVE  /\ Sends(One(s, m))
         /\ \A t \in Streams : \A k \in DOMAIN One(s, m)[t] : One(s, m)[t][k] = m
<1>1. m \in Sayable
  BY IdleMeans
<1>2. <<m>> \in Seq(Sayable) /\ <<>> \in Seq(Sayable)
  BY <1>1
<1>3. One(s, m) \in [Streams -> Seq(Sayable)]
  BY <1>2 DEF One
<1> DEFINE out == [t \in {s} |-> <<m>>]
<1>4. \A t \in Streams : One(s, m)[t] = IF t \in DOMAIN out THEN out[t] ELSE <<>>
  BY DEF One
<1>5. Send(out)
  OBVIOUS
<1> HIDE DEF out
<1>6. Sends(One(s, m))
  BY <1>3, <1>4, <1>5, SendSends
<1>7. \A t \in Streams : \A k \in DOMAIN One(s, m)[t] : One(s, m)[t][k] = m
  BY DEF One
<1> QED
  BY <1>6, <1>7

LEMMA ManageKeeps ==
  ASSUME WorldTypeOK, NamesHold, NEW q \in Queues, Manage(q)
  PROVE  WorldKeeps
<1> DEFINE m == [Named("http.request", q) EXCEPT !.marks = {"PUT", "/api/queues/"}]
           w == One(Api, m)
<1>1. m \in Idle /\ m.name # "connection.close" /\ Subject(m) = NoName
  <2>1. m \in Idle
    BY DEF Idle
  <2>2. m.name # "connection.close"
    BY DEF Named, Plain
  <2> QED
    BY <2>1, <2>2, IdleMeans
<1>2. Api \in Streams
  BY DEF Streams
<1>3. Send([t \in {Api} |-> <<m>>])
  BY DEF Manage
<1>4. /\ exists' = [x \in DOMAIN exists \cup {q} |->
                      IF x \in DOMAIN exists THEN exists[x] ELSE {}]
      /\ Settles(q, Api, FALSE)
      /\ UNCHANGED <<up, opened, consuming, entities, consumers, cleared>>
  BY DEF Manage, Operation, topo
<1> HIDE DEF m
<1>5. Sends(w) /\ \A s \in Streams : \A k \in DOMAIN w[s] : w[s][k] = m
  BY <1>1, <1>2, <1>3, OneSends
<1> HIDE DEF w
<1>6. WorldTypeOK'
  <2>1. PICK known \in SUBSET Entities : exists \in [known -> Flagged]
    BY DEF WorldTypeOK
  <2>2. {} \in Flagged
    BY DEF Flagged
  <2>3. exists' \in [known \cup {q} -> Flagged] /\ known \cup {q} \in SUBSET Entities
    BY <1>4, <2>1, <2>2 DEF Entities
  <2>4. pipe' \in [Streams -> Seq(Sayable)]
    BY <1>5, SendsInType
  <2>5. \E k \in SUBSET Entities : exists' \in [k -> Flagged]
    BY <2>3
  <2> QED
    BY <1>4, <2>4, <2>5 DEF WorldTypeOK
<1>7. unsure \ {q} \subseteq unsure' /\ q \in unsure'
  BY <1>4 DEF Settles
<1>8. \A e \in Entities \ {q} : /\ e \in DOMAIN exists' <=> e \in DOMAIN exists
                                /\ e \in DOMAIN exists => exists'[e] = exists[e]
  BY <1>4
<1>9. \A s \in Streams : \A k \in DOMAIN w[s] : Subject(w[s][k]) \in {q, NoName} \cup unsure'
  BY <1>1, <1>5
<1>10. NamesHold'
  BY <1>4, <1>5, <1>6, <1>7, <1>8, <1>9, OthersKept
<1>11. CloseFree(w)
  BY <1>1, <1>5 DEF CloseFree
<1> QED
  BY <1>5, <1>6, <1>10, <1>11 DEF WorldKeeps

LEMMA NoticeKeeps ==
  ASSUME WorldTypeOK, NamesHold, NEW s \in Streams, NEW m \in Notices, Notice(s, m)
  PROVE  WorldKeeps
<1> DEFINE w == One(s, m)
<1>1. m \in Idle /\ m.name # "connection.close" /\ Subject(m) = NoName
  <2>1. m \in Idle
    BY DEF Idle
  <2>2. m.name # "connection.close"
    BY TopologyAssumption
  <2> QED
    BY <2>1, <2>2, IdleMeans
<1>2. Send([t \in {s} |-> <<m>>])
  BY DEF Notice
<1>3. UNCHANGED <<up, opened, exists, consuming, unsure, entities, consumers, cleared>>
  BY DEF Notice, Operation, topo
<1>4. Sends(w) /\ \A t \in Streams : \A k \in DOMAIN w[t] : w[t][k] = m
  BY <1>1, <1>2, OneSends
<1> HIDE DEF w
<1>5. WorldTypeOK'
  BY <1>3, <1>4, SendsInType DEF WorldTypeOK
<1>6. \A t \in Streams : \A k \in DOMAIN w[t] : Subject(w[t][k]) \in {NoName} \cup unsure'
  BY <1>1, <1>4
<1>7. NoName \notin Entities \cup Tags
  BY TopologyAssumption
<1>8. NamesHold'
  BY <1>3, <1>4, <1>5, <1>6, <1>7, OthersKept
<1>9. CloseFree(w)
  BY <1>1, <1>4 DEF CloseFree
<1> QED
  BY <1>4, <1>5, <1>8, <1>9 DEF WorldKeeps

-----------------------------------------------------------------------------
(* Connections that open and end                                           *)

\* Consumers may go, but what is said is of no queue, exchange or consumer.
LEMMA IdleKeeps ==
  ASSUME WorldTypeOK, WorldTypeOK', NamesHold, NEW w, Sends(w),
         \A s \in Streams : \A k \in DOMAIN w[s] : Subject(w[s][k]) = NoName,
         UNCHANGED <<exists, unsure, entities, consumers, cleared>>, consuming' \subseteq consuming
  PROVE  NamesHold'
<1>1. NoName \notin Entities \cup Tags
  BY TopologyAssumption
<1>2. \A s \in Streams : \A k \in DOMAIN w[s] : Subject(w[s][k]) \in {NoName} \cup unsure'
  OBVIOUS
<1> QED
  BY <1>1, <1>2, OthersKept

LEMMA OpenKeeps ==
  ASSUME WorldTypeOK, NamesHold, NEW c \in Conns, Open(c)
  PROVE  /\ WorldTypeOK' /\ NamesHold'
         /\ \E w : /\ Sends(w) /\ CloseFree(w)
                   /\ \E k \in DOMAIN w[Client(c)] : w[Client(c)][k].name = "connection.open"
<1> DEFINE m == Plain("connection.open")
           n == Plain("connection.open-ok")
           w == Both(c, <<m>>, <<n>>)
<1>1. m \in Idle /\ n \in Idle
  BY DEF Idle
<1>2. m.name = "connection.open" /\ n.name # "connection.close" 
  BY DEF Plain
<1>3. Exchanged(c, <<m>>, <<n>>)
  BY DEF Open
<1>4. /\ up' = up \cup {c} /\ opened' = opened \cup {c}
      /\ UNCHANGED <<exists, consuming, unsure, entities, consumers, cleared>>
  BY DEF Open, topo
<1>5. /\ m \in Sayable /\ Subject(m) = NoName
      /\ n \in Sayable /\ Subject(n) = NoName
  BY <1>1, IdleMeans
<1> HIDE DEF m, n
<1>6. Sends(w)
  <2>1. <<m>> \in Seq(Sayable) /\ <<n>> \in Seq(Sayable)
    BY <1>5
  <2> QED
    BY <1>3, <2>1, ExchangedSends
<1>7. ASSUME NEW s \in Streams, NEW k \in DOMAIN w[s] PROVE w[s][k] = m \/ w[s][k] = n
  BY BothSay
<1>8. 1 \in DOMAIN w[Client(c)] /\ w[Client(c)][1] = m
  BY ClientAndBroker DEF Both
<1> HIDE DEF w
<1>9. WorldTypeOK'
  BY <1>4, <1>6, SendsInType, FS_AddElement DEF WorldTypeOK
<1>10. NamesHold'
  <2>1. \A s \in Streams : \A k \in DOMAIN w[s] : Subject(w[s][k]) = NoName
    BY <1>5, <1>7
  <2> QED
    BY <1>4, <1>6, <1>9, <2>1, IdleKeeps
<1>11. CloseFree(w)
  BY <1>2, <1>7 DEF CloseFree
<1> QED
  BY <1>2, <1>6, <1>8, <1>9, <1>10, <1>11

\* At most one side of c says that it is closed, and once.
ClosesOnly(w, c) ==
  \E t \in {Client(c), Broker(c)} : \A s \in Streams : \A k \in DOMAIN w[s] :
    w[s][k].name = "connection.close" => s = t /\ k = 1

EndKeeps(c) == WorldTypeOK' /\ NamesHold' /\ \E w : Sends(w) /\ ClosesOnly(w, c)

LEMMA EndsKeeps ==
  ASSUME WorldTypeOK, NamesHold, NEW c \in Conns, Ends(c), NEW w, Sends(w),
         \A s \in Streams : \A k \in DOMAIN w[s] : Subject(w[s][k]) = NoName
  PROVE  WorldTypeOK' /\ NamesHold'
<1>1. /\ up' = up \ {c} /\ consuming' \subseteq consuming
      /\ UNCHANGED <<opened, exists, unsure, entities, consumers, cleared>>
  BY DEF Ends, Operation, topo
<1>2. WorldTypeOK'
  BY <1>1, SendsInType, FS_Subset DEF WorldTypeOK
<1> QED
  BY <1>1, <1>2, IdleKeeps

LEMMA CloseKeeps ==
  ASSUME WorldTypeOK, NamesHold, NEW c \in Conns, NEW m \in Idle, NEW n \in Idle,
         Ends(c), Exchanged(c, <<m>>, <<n>>),
         m.name # "connection.close" \/ n.name # "connection.close"
  PROVE  EndKeeps(c)
<1> DEFINE w == Both(c, <<m>>, <<n>>)
<1>1. /\ m \in Sayable /\ Subject(m) = NoName
      /\ n \in Sayable /\ Subject(n) = NoName
  BY IdleMeans
<1>2. Sends(w)
  <2>1. <<m>> \in Seq(Sayable) /\ <<n>> \in Seq(Sayable)
    BY <1>1
  <2> QED
    BY <2>1, ExchangedSends
<1>3. ASSUME NEW s \in Streams, NEW k \in DOMAIN w[s]
      PROVE  \/ s = Client(c) /\ k = 1 /\ w[s][k] = m
             \/ s = Broker(c) /\ k = 1 /\ w[s][k] = n
  BY BothSay
<1> HIDE DEF w
<1>4. \A s \in Streams : \A k \in DOMAIN w[s] : Subject(w[s][k]) = NoName
  BY <1>1, <1>3
<1>5. ClosesOnly(w, c)
  <2>1. CASE n.name # "connection.close"
    BY <1>3, <2>1 DEF ClosesOnly
  <2>2. CASE m.name # "connection.close"
    BY <1>3, <2>2 DEF ClosesOnly
  <2> QED
    BY <2>1, <2>2
<1> QED
  BY <1>2, <1>4, <1>5, EndsKeeps DEF EndKeeps

LEMMA EndingKeeps ==
  ASSUME WorldTypeOK, NamesHold, NEW c \in Conns,
         Close(c) \/ Drop(c) \/ \E m \in Faults : Fault(c, m)
  PROVE  EndKeeps(c)
<1>1. CASE Close(c)
  <2>1. /\ Coded("connection.close", 200, {}) \in Idle
        /\ Plain("connection.close-ok") \in Idle
    BY DEF Idle
  <2>2. Plain("connection.close-ok").name # "connection.close"
    BY DEF Plain
  <2>3. /\ Ends(c)
        /\ Exchanged(c, <<Coded("connection.close", 200, {})>>,
                     <<Plain("connection.close-ok")>>)
    BY <1>1 DEF Close
  <2> QED
    BY <2>1, <2>2, <2>3, CloseKeeps
<1>2. CASE Drop(c)
  <2>1. Ends(c) /\ Sends(Nothing)
    BY <1>2, NothingSends DEF Drop
  <2>2. \A s \in Streams : \A k \in DOMAIN Nothing[s] : FALSE
    BY DEF Nothing
  <2>3. ClosesOnly(Nothing, c)
    BY <2>2 DEF ClosesOnly
  <2> QED
    BY <2>1, <2>2, <2>3, EndsKeeps DEF EndKeeps
<1>3. CASE \E m \in Faults : Fault(c, m)
  <2>1. PICK m \in Faults : Fault(c, m)
    BY <1>3
  <2>2. m \in Idle /\ Plain("connection.close-ok") \in Idle
    BY DEF Idle
  <2>3. Plain("connection.close-ok").name # "connection.close"
    BY DEF Plain
  <2>4. Ends(c) /\ Exchanged(c, <<Plain("connection.close-ok")>>, <<m>>)
    BY <2>1 DEF Fault
  <2> QED
    BY <2>2, <2>3, <2>4, CloseKeeps
<1> QED
  BY <1>1, <1>2, <1>3

-----------------------------------------------------------------------------
(* What the world does to the count of connections                         *)

\* A close that is said now was said before, or has just been sent.
LEMMA ClosesSent ==
  ASSUME WorldTypeOK, NEW w, Sends(w), NEW s \in Streams, NEW i \in DOMAIN pipe'[s],
         pipe'[s][i].name = "connection.close"
  PROVE  \/ i \in DOMAIN pipe[s] /\ pipe[s][i].name = "connection.close"
         \/ \E k \in DOMAIN w[s] : /\ i = Len(pipe[s]) + k
                                   /\ w[s][k].name = "connection.close"
<1>1. CASE i \in DOMAIN pipe[s]
  BY <1>1, OldStays
<1>2. CASE i \notin DOMAIN pipe[s]
  <2>1. PICK k \in DOMAIN w[s] : i = Len(pipe[s]) + k /\ pipe'[s][i] = w[s][k]
    BY <1>2, NewIsSent
  <2> QED
    BY <2>1
<1> QED
  BY <1>1, <1>2

LEMMA NoneClosed ==
  ASSUME WorldTypeOK, NEW w, Sends(w), CloseFree(w), NEW c, NEW s \in Streams, NEW i
  PROVE  Closes(c, s, i)' <=> Closes(c, s, i)
<1>1. ASSUME Closes(c, s, i)' PROVE Closes(c, s, i)
  <2>1. /\ s \in {Client(c), Broker(c)} /\ i \in DOMAIN pipe'[s]
        /\ pipe'[s][i].name = "connection.close"
    BY <1>1 DEF Closes, Client, Broker
  <2>2. i \in DOMAIN pipe[s] /\ pipe[s][i].name = "connection.close"
    BY <2>1, ClosesSent DEF CloseFree
  <2> QED
    BY <2>1, <2>2 DEF Closes
<1>2. ASSUME Closes(c, s, i) PROVE Closes(c, s, i)'
  <2>1. /\ s \in {Client(c), Broker(c)} /\ i \in DOMAIN pipe[s]
        /\ pipe[s][i].name = "connection.close"
    BY <1>2 DEF Closes
  <2>2. i \in DOMAIN pipe'[s] /\ pipe'[s][i] = pipe[s][i]
    BY <2>1, OldStays
  <2> QED
    BY <2>1, <2>2 DEF Closes, Client, Broker
<1> QED
  BY <1>1, <1>2

LEMMA OnceIfNoneClosed ==
  ASSUME WorldTypeOK, WorldTypeOK', ClosedOnce, NEW w, Sends(w), CloseFree(w),
         opened \ up \subseteq opened' \ up'
  PROVE  ClosedOnce'
<1>1. ASSUME NEW i \in DOMAIN pipe'[Api], pipe'[Api][i].name = "connection.close"
      PROVE  FALSE
  <2>1. Api \in Streams
    BY DEF Streams
  <2> QED
    BY <1>1, <2>1, ClosesSent DEF CloseFree, ClosedOnce
<1>2. ASSUME NEW c \in Conns, NEW s \in Streams, NEW t \in Streams,
             NEW i \in DOMAIN pipe'[s], NEW j \in DOMAIN pipe'[t],
             Closes(c, s, i)', Closes(c, t, j)'
      PROVE  c \in opened' \ up' /\ s = t /\ i = j
  <2>1. Closes(c, s, i) /\ Closes(c, t, j)
    BY <1>2, NoneClosed
  <2>2. i \in DOMAIN pipe[s] /\ j \in DOMAIN pipe[t]
    BY <2>1 DEF Closes
  <2>3. c \in opened \ up /\ s = t /\ i = j
    BY <2>1, <2>2 DEF ClosedOnce
  <2> QED
    BY <2>3
<1> QED
  BY <1>1, <1>2 DEF ClosedOnce

LEMMA OpeningStays ==
  ASSUME WorldTypeOK, NEW w, Sends(w), opened \subseteq opened'
  PROVE  Opening \subseteq Opening'
<1>1. ASSUME NEW c \in Opening PROVE c \in Opening'
  <2>1. PICK i \in DOMAIN pipe[Client(c)] : pipe[Client(c)][i].name = "connection.open"
    BY DEF Opening
  <2>2. c \in Conns /\ c \in opened' /\ Client(c) \in Streams
    BY ClientAndBroker DEF Opening, WorldTypeOK
  <2>3. i \in DOMAIN pipe'[Client(c)] /\ pipe'[Client(c)][i] = pipe[Client(c)][i]
    BY <2>2, OldStays
  <2> QED
    BY <2>1, <2>2, <2>3 DEF Opening, Client
<1> QED
  BY <1>1

LEMMA ListFinite ==
  ASSUME NEW list \in Seq(BOOLEAN)
  PROVE  /\ IsFiniteSet({i \in DOMAIN list : ~list[i]})
         /\ Cardinality({i \in DOMAIN list : ~list[i]}) \in Nat /\ Len(list) \in Nat
<1>1. Len(list) \in Nat /\ DOMAIN list = 1 .. Len(list)
  OBVIOUS
<1>2. IsFiniteSet(1 .. Len(list))
  BY <1>1, FS_Interval
<1>3. IsFiniteSet({i \in DOMAIN list : ~list[i]})
  BY <1>1, <1>2, FS_Subset
<1> QED
  BY <1>1, <1>3, FS_CardinalityType

Within(S, T) == /\ IsFiniteSet(S) /\ Cardinality(S) \in Nat /\ Cardinality(T) \in Nat
                /\ Cardinality(S) <= Cardinality(T)

LEMMA SubsetWithin ==
  ASSUME NEW T, IsFiniteSet(T), NEW S, S \subseteq T
  PROVE  Within(S, T)
BY FS_Subset, FS_CardinalityType DEF Within

LEMMA WorldKeepsCount ==
  ASSUME TypeOK, WorldTypeOK, WorldTypeOK', ClosedOnce, EntriesCount, NEW w, Sends(w), CloseFree(w),
         UNCHANGED <<up, opened, connections, cleared>>
  PROVE  ClosedOnce' /\ EntriesCount'
<1>1. ClosedOnce'
  BY OnceIfNoneClosed
<1>2. Closing' = Closing
  <2>1. \A c \in opened : (\E s \in Streams : \E i \in DOMAIN pipe'[s] : Closes(c, s, i)')
                          <=> \E s \in Streams : \E i \in DOMAIN pipe[s] : Closes(c, s, i)
    <3>1. ASSUME NEW c \in opened, NEW s \in Streams, NEW i \in DOMAIN pipe'[s], Closes(c, s, i)'
          PROVE  i \in DOMAIN pipe[s] /\ Closes(c, s, i)
      BY <3>1, NoneClosed DEF Closes
    <3>2. ASSUME NEW c \in opened, NEW s \in Streams, NEW i \in DOMAIN pipe[s], Closes(c, s, i)
          PROVE  i \in DOMAIN pipe'[s] /\ Closes(c, s, i)'
      BY <3>2, NoneClosed, OldStays
    <3> QED
      BY <3>1, <3>2
  <2> QED
    BY <2>1 DEF Closing
<1>3. Within(Opening, Opening')
  <2>1. Opening \subseteq Opening'
    BY OpeningStays
  <2>2. Opening' \subseteq opened' /\ IsFiniteSet(opened')
    BY DEF Opening, WorldTypeOK
  <2> QED
    BY <2>1, <2>2, SubsetWithin, FS_Subset
<1>4. Cardinality(opened) \in Nat /\ connections \in Seq(BOOLEAN) /\ Len(connections) \in Nat
  BY FS_CardinalityType DEF WorldTypeOK, TypeOK
<1>5. EntriesCount'
  BY <1>2, <1>3, <1>4 DEF EntriesCount, Within
<1> QED
  BY <1>1, <1>5

LEMMA OpenKeepsCount ==
  ASSUME TypeOK, WorldTypeOK, WorldTypeOK', ClosedOnce, EntriesCount, NEW w, Sends(w), CloseFree(w),
         NEW c \in Conns, Open(c),
         \E k \in DOMAIN w[Client(c)] : w[Client(c)][k].name = "connection.open"
  PROVE  ClosedOnce' /\ EntriesCount'
<1>1. /\ up' = up \cup {c} /\ opened' = opened \cup {c} /\ c \notin opened
      /\ UNCHANGED <<connections, cleared>>
  BY DEF Open, topo
<1>2. ClosedOnce'
  BY <1>1, OnceIfNoneClosed
<1>3. Within(Closing', Closing)
  <2>1. ASSUME NEW d \in Closing' PROVE d \in Closing
    <3>1. PICK s \in Streams : \E i \in DOMAIN pipe'[s] : Closes(d, s, i)'
      BY DEF Closing
    <3>2. PICK i \in DOMAIN pipe'[s] : Closes(d, s, i)'
      BY <3>1
    <3>3. Closes(d, s, i) /\ i \in DOMAIN pipe[s]
      BY <3>2, NoneClosed DEF Closes
    <3>4. d \in Conns
      BY DEF Closing, WorldTypeOK
    <3>5. d \in opened
      BY <3>3, <3>4 DEF ClosedOnce
    <3> QED
      BY <3>3, <3>5 DEF Closing
  <2>2. Closing \subseteq opened /\ IsFiniteSet(opened)
    BY DEF Closing, WorldTypeOK
  <2> QED
    BY <2>1, <2>2, SubsetWithin, FS_Subset
<1>4. /\ Cardinality(Opening) + 1 <= Cardinality(Opening')
      /\ Cardinality(Opening) \in Nat /\ Cardinality(Opening') \in Nat
  <2>1. Opening \subseteq Opening'
    BY <1>1, OpeningStays
  <2>2. c \in Opening'
    <3>1. PICK k \in DOMAIN w[Client(c)] : w[Client(c)][k].name = "connection.open"
      OBVIOUS
    <3>2. /\ Len(pipe[Client(c)]) + k \in DOMAIN pipe'[Client(c)]
          /\ pipe'[Client(c)][Len(pipe[Client(c)]) + k].name = "connection.open"
      BY <3>1, SentIsLater, ClientAndBroker
    <3> QED
      BY <1>1, <3>2 DEF Opening, Client
  <2>3. Opening' \subseteq opened' /\ IsFiniteSet(opened') /\ Opening \subseteq opened
    BY DEF Opening, WorldTypeOK
  <2>4. IsFiniteSet(Opening) /\ IsFiniteSet(Opening') /\ IsFiniteSet(opened)
    BY <2>3, FS_Subset DEF WorldTypeOK
  <2>5. c \notin Opening /\ Opening \cup {c} \subseteq Opening'
    BY <1>1, <2>1, <2>2, <2>3
  <2>6. Cardinality(Opening \cup {c}) = Cardinality(Opening) + 1
    BY <2>4, <2>5, FS_AddElement
  <2>7. Within(Opening \cup {c}, Opening')
    BY <2>4, <2>5, SubsetWithin
  <2> QED
    BY <2>4, <2>6, <2>7, FS_CardinalityType DEF Within
<1>5. /\ Cardinality(opened') = Cardinality(opened) + 1 /\ Cardinality(opened) \in Nat
      /\ Cardinality(up') = Cardinality(up) + 1 /\ Cardinality(up) \in Nat
  <2>1. IsFiniteSet(opened) /\ IsFiniteSet(up) /\ c \notin up
    BY <1>1, FS_Subset DEF WorldTypeOK
  <2> QED
    BY <1>1, <2>1, FS_AddElement, FS_CardinalityType
<1>6. /\ connections \in Seq(BOOLEAN) /\ Len(connections) \in Nat
      /\ Cardinality({i \in DOMAIN connections : ~connections[i]}) \in Nat
  BY ListFinite DEF TypeOK
<1>7. EntriesCount'
  <2> DEFINE inactive == Cardinality({i \in DOMAIN connections : ~connections[i]})
  <2>1. inactive' = inactive
    BY <1>1
  <2>2. inactive + Cardinality(Closing) + Cardinality(up) <= Cardinality(opened)
    BY DEF EntriesCount
  <2> HIDE DEF inactive
  <2>3. inactive' + Cardinality(Closing') + Cardinality(up') <= Cardinality(opened')
    BY <1>3, <1>5, <1>6, <2>1, <2>2 DEF Within, inactive
  <2>4. \/ cleared' \/ Len(connections') = MaxShown
        \/ Cardinality(opened') <= Len(connections') + Cardinality(Opening')
    BY <1>1, <1>4, <1>5, <1>6 DEF EntriesCount
  <2> QED
    BY <2>3, <2>4 DEF EntriesCount, inactive
<1> QED
  BY <1>2, <1>7

LEMMA EndKeepsCount ==
  ASSUME TypeOK, WorldTypeOK, WorldTypeOK', ClosedOnce, EntriesCount,
         NEW c \in Conns, NEW w, Sends(w), ClosesOnly(w, c), Ends(c)
  PROVE  ClosedOnce' /\ EntriesCount'
<1>1. /\ c \in up /\ up' = up \ {c} /\ UNCHANGED <<opened, connections, cleared>>
  BY DEF Ends, Operation, topo
<1>2. PICK b \in {Client(c), Broker(c)} : \A s \in Streams : \A k \in DOMAIN w[s] :
         w[s][k].name = "connection.close" => s = b /\ k = 1
  BY DEF ClosesOnly
<1>3. c \in Conns /\ c \in opened /\ b \in Streams /\ b # Api
  <2>1. "api" # c
    BY TopologyAssumption
  <2>2. b # Api
    BY <1>2, <2>1 DEF Api, Client, Broker
  <2> QED
    BY <1>1, <1>2, <2>2, ClientAndBroker DEF WorldTypeOK
<1>4. ASSUME NEW d \in Conns, NEW s \in Streams, NEW i \in DOMAIN pipe'[s], Closes(d, s, i)'
      PROVE  \/ d # c /\ i \in DOMAIN pipe[s] /\ Closes(d, s, i)
             \/ d = c /\ s = b /\ i = Len(pipe[s]) + 1
  <2>1. s \in {Client(d), Broker(d)} /\ pipe'[s][i].name = "connection.close"
    BY <1>4 DEF Closes, Client, Broker
  <2>2. CASE i \in DOMAIN pipe[s] /\ pipe[s][i].name = "connection.close"
    <3>1. Closes(d, s, i)
      BY <2>1, <2>2 DEF Closes
    <3>2. d \in opened \ up
      BY <2>2, <3>1 DEF ClosedOnce
    <3> QED
      BY <1>1, <2>2, <3>1, <3>2
  <2>3. CASE \E k \in DOMAIN w[s] : i = Len(pipe[s]) + k /\ w[s][k].name = "connection.close"
    <3>1. s = b /\ i = Len(pipe[s]) + 1
      BY <1>2, <2>3
    <3>2. d = c
      BY <1>2, <2>1, <3>1, ClientAndBroker
    <3> QED
      BY <3>1, <3>2
  <2> QED
    BY <2>1, <2>2, <2>3, ClosesSent
<1>5. ClosedOnce'
  <2>1. ASSUME NEW i \in DOMAIN pipe'[Api], pipe'[Api][i].name = "connection.close"
        PROVE  FALSE
    <3>1. Api \in Streams
      BY DEF Streams
    <3>2. i \in DOMAIN pipe[Api] => pipe[Api][i].name # "connection.close"
      BY DEF ClosedOnce
    <3>3. \A k \in DOMAIN w[Api] : w[Api][k].name # "connection.close"
      BY <1>2, <1>3, <3>1
    <3> QED
      BY <2>1, <3>1, <3>2, <3>3, ClosesSent
  <2>2. ASSUME NEW d \in Conns, NEW s \in Streams, NEW t \in Streams,
               NEW i \in DOMAIN pipe'[s], NEW j \in DOMAIN pipe'[t],
               Closes(d, s, i)', Closes(d, t, j)'
        PROVE  d \in opened' \ up' /\ s = t /\ i = j
    <3>1. CASE d = c
      BY <1>1, <1>3, <1>4, <2>2, <3>1
    <3>2. CASE d # c
      <4>1. /\ i \in DOMAIN pipe[s] /\ Closes(d, s, i)
            /\ j \in DOMAIN pipe[t] /\ Closes(d, t, j)
        BY <1>4, <2>2, <3>2
      <4>2. d \in opened \ up /\ s = t /\ i = j
        BY <4>1 DEF ClosedOnce
      <4> QED
        BY <1>1, <4>2
    <3> QED
      BY <3>1, <3>2
  <2> QED
    BY <2>1, <2>2 DEF ClosedOnce
<1>6. /\ Cardinality(Closing') <= Cardinality(Closing) + 1
      /\ Cardinality(Closing) \in Nat /\ Cardinality(Closing') \in Nat
  <2>1. ASSUME NEW d \in Closing' PROVE d \in Closing \cup {c}
    <3>1. d \in opened /\ d \in Conns
      BY <1>1 DEF Closing, WorldTypeOK
    <3>2. PICK s \in Streams : \E i \in DOMAIN pipe'[s] : Closes(d, s, i)'
      BY DEF Closing
    <3>3. PICK i \in DOMAIN pipe'[s] : Closes(d, s, i)'
      BY <3>2
    <3>4. d = c \/ (i \in DOMAIN pipe[s] /\ Closes(d, s, i))
      BY <1>4, <3>1, <3>3
    <3> QED
      BY <3>1, <3>4 DEF Closing
  <2>2. IsFiniteSet(Closing)
    BY FS_Subset DEF Closing, WorldTypeOK
  <2>3. /\ IsFiniteSet(Closing \cup {c}) /\ Cardinality(Closing) \in Nat
        /\ Cardinality(Closing \cup {c}) <= Cardinality(Closing) + 1
    <3>1. Cardinality(Closing) \in Nat
      BY <2>2, FS_CardinalityType
    <3>2. /\ IsFiniteSet(Closing \cup {c})
          /\ Cardinality(Closing \cup {c}) = IF c \in Closing THEN Cardinality(Closing)
                                                              ELSE Cardinality(Closing) + 1
      BY <2>2, FS_AddElement
    <3> QED
      BY <3>1, <3>2
  <2>4. Within(Closing', Closing \cup {c})
    BY <2>1, <2>3, SubsetWithin
  <2> QED
    BY <2>3, <2>4 DEF Within
<1>7. /\ Cardinality(up') = Cardinality(up) - 1 /\ Cardinality(up) \in Nat
      /\ Cardinality(opened) \in Nat
  <2>1. IsFiniteSet(opened) /\ IsFiniteSet(up)
    BY FS_Subset DEF WorldTypeOK
  <2> QED
    BY <1>1, <2>1, FS_RemoveElement, FS_CardinalityType
<1>8. /\ Cardinality(Opening) <= Cardinality(Opening')
      /\ Cardinality(Opening) \in Nat /\ Cardinality(Opening') \in Nat
  <2>1. Opening \subseteq Opening'
    BY <1>1, OpeningStays
  <2>2. Opening' \subseteq opened' /\ IsFiniteSet(opened')
    BY DEF Opening, WorldTypeOK
  <2> QED
    BY <2>1, <2>2, SubsetWithin, FS_Subset DEF Within
<1>9. /\ connections \in Seq(BOOLEAN) /\ Len(connections) \in Nat
      /\ Cardinality({i \in DOMAIN connections : ~connections[i]}) \in Nat
  BY ListFinite DEF TypeOK
<1>10. EntriesCount'
  <2> DEFINE inactive == Cardinality({i \in DOMAIN connections : ~connections[i]})
  <2>1. inactive' = inactive
    BY <1>1
  <2>2. inactive + Cardinality(Closing) + Cardinality(up) <= Cardinality(opened)
    BY DEF EntriesCount
  <2> HIDE DEF inactive
  <2>3. inactive' + Cardinality(Closing') + Cardinality(up') <= Cardinality(opened')
    BY <1>1, <1>6, <1>7, <1>9, <2>1, <2>2 DEF inactive
  <2>4. \/ cleared' \/ Len(connections') = MaxShown
        \/ Cardinality(opened') <= Len(connections') + Cardinality(Opening')
    BY <1>1, <1>7, <1>8, <1>9 DEF EntriesCount
  <2> QED
    BY <2>3, <2>4 DEF EntriesCount, inactive
<1> QED
  BY <1>5, <1>10

-----------------------------------------------------------------------------
(* What handling a method does to the count of connections                 *)

Inactive(list) == {i \in DOMAIN list : ~list[i]}

\* Of a full list the oldest entry goes.
LEMMA KeptCounts ==
  ASSUME NEW list \in Seq(BOOLEAN), Len(list) <= MaxShown
  PROVE  LET n == Kept(Append(list, TRUE)) IN
         /\ n \in Seq(BOOLEAN) /\ Len(n) <= MaxShown
         /\ Len(n) = MaxShown \/ Len(n) = Len(list) + 1
         /\ Cardinality(Inactive(n)) \in Nat
         /\ Cardinality(Inactive(n)) <= Cardinality(Inactive(list))
<1> DEFINE more == Append(list, TRUE)
           n == Kept(more)
<1>1. MaxShown \in Nat \ {0}
  BY TopologyAssumption
<1>2. /\ more \in Seq(BOOLEAN) /\ Len(more) = Len(list) + 1 /\ Len(list) \in Nat
      /\ DOMAIN list = 1 .. Len(list) /\ DOMAIN more = 1 .. Len(list) + 1
      /\ more[Len(list) + 1] /\ \A i \in 1 .. Len(list) : more[i] = list[i]
  OBVIOUS
<1>3. n = IF Len(more) <= MaxShown THEN more
          ELSE SubSeq(more, Len(more) - MaxShown + 1, Len(more))
  BY Zenon DEF Kept
<1>4. Len(list) \in Nat /\ Len(more) = Len(list) + 1
  BY <1>2
<1>5. IsFiniteSet(Inactive(list)) /\ Cardinality(Inactive(list)) \in Nat
  BY ListFinite DEF Inactive
<1> HIDE DEF more, n
<1>6. CASE Len(list) + 1 <= MaxShown
  <2>1. n = more
    BY <1>3, <1>6, <1>4
  <2>2. Inactive(more) = Inactive(list)
    <3>1. \A i \in 1 .. Len(list) + 1 : i \in 1 .. Len(list) \/ i = Len(list) + 1
      BY <1>2
    <3> QED
      BY <1>2, <3>1 DEF Inactive
  <2>3. /\ n \in Seq(BOOLEAN) /\ Len(n) <= MaxShown /\ Len(n) = Len(list) + 1
        /\ Cardinality(Inactive(n)) \in Nat
        /\ Cardinality(Inactive(n)) <= Cardinality(Inactive(list))
    <3>1. n \in Seq(BOOLEAN) /\ Len(n) <= MaxShown /\ Len(n) = Len(list) + 1
      BY <1>2, <1>6, <2>1
    <3>2. Inactive(n) = Inactive(list)
      BY <2>1, <2>2
    <3> QED
      BY <1>5, <3>1, <3>2
  <2> QED
    BY <2>3 DEF n, more
<1>7. CASE ~(Len(list) + 1 <= MaxShown)
  <2>1. Len(list) = MaxShown
    BY <1>1, <1>7, <1>4
  <2>2. n = SubSeq(more, 2, MaxShown + 1)
    <3>1. Len(more) = MaxShown + 1 /\ Len(more) - MaxShown + 1 = 2 /\ ~(Len(more) <= MaxShown)
      BY <1>1, <1>4, <2>1
    <3> QED
      BY <1>3, <3>1
  <2>3. /\ n \in Seq(BOOLEAN) /\ Len(n) = MaxShown /\ DOMAIN n = 1 .. MaxShown
        /\ \A i \in 1 .. MaxShown : n[i] = more[i + 1]
    BY <1>1, <1>2, <2>1, <2>2
  <2> DEFINE f == [i \in Inactive(n) |-> i + 1]
  <2>4. ASSUME NEW i \in Inactive(n) PROVE i + 1 \in Inactive(list) /\ i \in Nat
    <3>1. i \in 1 .. MaxShown /\ ~more[i + 1]
      BY <2>3 DEF Inactive
    <3>2. i + 1 # MaxShown + 1
      BY <1>2, <2>1, <3>1
    <3>3. i + 1 \in 1 .. Len(list)
      BY <1>1, <2>1, <3>1, <3>2
    <3> QED
      BY <1>2, <3>1, <3>3 DEF Inactive
  <2>5. f \in Injection(Inactive(n), Inactive(list))
    <3>1. f \in [Inactive(n) -> Inactive(list)]
      BY <2>4
    <3>2. \A i, j \in Inactive(n) : f[i] = f[j] => i = j
      BY <2>4
    <3> QED
      BY <3>1, <3>2 DEF Injection, IsInjective
  <2> HIDE DEF f
  <2>6. IsFiniteSet(Inactive(n)) /\ Cardinality(Inactive(n)) <= Cardinality(Inactive(list))
    BY <1>5, <2>5, FS_Injection
  <2>7. Cardinality(Inactive(n)) \in Nat
    BY <2>6, FS_CardinalityType
  <2>8. Len(n) <= MaxShown
    BY <1>1, <2>3
  <2> QED
    BY <2>3, <2>6, <2>7, <2>8 DEF n, more
<1> QED
  BY <1>6, <1>7

\* A close makes one entry inactive at most.
LEMMA NewestClosedCounts ==
  ASSUME NEW list \in Seq(BOOLEAN)
  PROVE  /\ NewestClosed(list) \in Seq(BOOLEAN) /\ Len(NewestClosed(list)) = Len(list)
         /\ Cardinality(Inactive(NewestClosed(list))) \in Nat
         /\ Cardinality(Inactive(NewestClosed(list))) <= Cardinality(Inactive(list)) + 1
<1> DEFINE later(i) == \E j \in DOMAIN list : j > i /\ list[j]
           n == NewestClosed(list)
<1>1. Len(list) \in Nat /\ DOMAIN list = 1 .. Len(list)
  OBVIOUS
<1>2. DOMAIN n = DOMAIN list /\ \A i \in DOMAIN list : n[i] = (list[i] /\ later(i))
  BY DEF NewestClosed
<1>3. n \in [1 .. Len(list) -> BOOLEAN]
  <2>1. n = [i \in 1 .. Len(list) |-> list[i] /\ later(i)]
    BY <1>1 DEF NewestClosed
  <2>2. \A i \in 1 .. Len(list) : (list[i] /\ later(i)) \in BOOLEAN
    OBVIOUS
  <2> QED
    BY <2>1, <2>2
<1>4. IsFiniteSet(Inactive(list)) /\ Cardinality(Inactive(list)) \in Nat
  BY ListFinite DEF Inactive
<1> HIDE DEF n
<1>5. n \in Seq(BOOLEAN) /\ Len(n) = Len(list)
  BY <1>1, <1>3
<1>6. Cardinality(Inactive(n)) \in Nat /\ Cardinality(Inactive(n)) <= Cardinality(Inactive(list)) + 1
  <2>1. CASE Inactive(n) \subseteq Inactive(list)
    BY <1>4, <2>1, SubsetWithin DEF Within
  <2>2. CASE ~(Inactive(n) \subseteq Inactive(list))
    <3>1. PICK k \in Inactive(n) : k \notin Inactive(list)
      BY <2>2
    <3>2. k \in DOMAIN list /\ list[k] /\ ~later(k)
      BY <1>2, <3>1 DEF Inactive
    <3>3. ASSUME NEW i \in Inactive(n), i \notin Inactive(list) PROVE i = k
      <4>1. i \in DOMAIN list /\ list[i] /\ ~later(i)
        BY <1>2, <3>3 DEF Inactive
      <4>2. ~(i > k) /\ ~(k > i)
        BY <3>2, <4>1
      <4> QED
        BY <1>1, <3>2, <4>1, <4>2
    <3>4. Inactive(n) \subseteq Inactive(list) \cup {k}
      BY <3>3
    <3>5. /\ IsFiniteSet(Inactive(list) \cup {k})
          /\ Cardinality(Inactive(list) \cup {k}) = Cardinality(Inactive(list)) + 1
      BY <1>4, <3>1, FS_AddElement
    <3>6. Within(Inactive(n), Inactive(list) \cup {k})
      BY <3>4, <3>5, SubsetWithin
    <3> QED
      BY <1>4, <3>5, <3>6 DEF Within
  <2> QED
    BY <2>1, <2>2
<1> QED
  BY <1>5, <1>6 DEF n

LEMMA IndexNat ==
  ASSUME NEW p \in [Streams -> Seq(Sayable)], NEW t \in Streams, NEW i \in DOMAIN p[t]
  PROVE  i \in Nat /\ i >= 1
<1>1. p[t] \in Seq(Sayable)
  OBVIOUS
<1> QED
  BY <1>1

\* A close that is said after a method has been handled was said before.
LEMMA ClosesBefore ==
  ASSUME WorldTypeOK, NEW s \in Streams, Handle(s), NEW c, NEW t \in Streams,
         NEW i \in DOMAIN pipe'[t], Closes(c, t, i)'
  PROVE  /\ i \in Nat /\ i >= 1
         /\ IF t = s THEN i + 1 \in DOMAIN pipe[t] /\ Closes(c, t, i + 1)
                     ELSE i \in DOMAIN pipe[t] /\ Closes(c, t, i)
<1>1. t \in {Client(c), Broker(c)} /\ pipe'[t][i].name = "connection.close"
  BY DEF Closes, Client, Broker
<1>2. i \in Nat /\ i >= 1
  BY HandledIsTail, IndexNat
<1>3. CASE t = s
  <2>1. i + 1 \in DOMAIN pipe[t] /\ pipe'[t][i] = pipe[t][i + 1]
    BY <1>3, HandledIsTail
  <2> QED
    BY <1>1, <1>2, <1>3, <2>1 DEF Closes
<1>4. CASE t # s
  <2>1. pipe'[t] = pipe[t]
    BY <1>4, HandledIsTail
  <2> QED
    BY <1>1, <1>2, <1>4, <2>1 DEF Closes
<1> QED
  BY <1>3, <1>4

LEMMA HandleKeepsOnce ==
  ASSUME WorldTypeOK, ClosedOnce, NEW s \in Streams, Handle(s)
  PROVE  ClosedOnce'
<1>1. UNCHANGED <<up, opened>>
  BY DEF Handle, broker
<1>2. ASSUME NEW i \in DOMAIN pipe'[Api] PROVE pipe'[Api][i].name # "connection.close"
  <2>1. Api \in Streams
    BY DEF Streams
  <2>2. CASE s = Api
    <3>1. i + 1 \in DOMAIN pipe[Api] /\ pipe'[Api][i] = pipe[Api][i + 1]
      BY <2>2, HandledIsTail
    <3> QED
      BY <3>1 DEF ClosedOnce
  <2>3. CASE s # Api
    <3>1. pipe'[Api] = pipe[Api]
      BY <2>1, <2>3, HandledIsTail
    <3> QED
      BY <3>1 DEF ClosedOnce
  <2> QED
    BY <2>2, <2>3
<1>3. ASSUME NEW c \in Conns, NEW t \in Streams, NEW r \in Streams,
             NEW i \in DOMAIN pipe'[t], NEW j \in DOMAIN pipe'[r],
             Closes(c, t, i)', Closes(c, r, j)'
      PROVE  c \in opened \ up /\ t = r /\ i = j
  <2>1. PICK k \in DOMAIN pipe[t] : Closes(c, t, k) /\ k = IF t = s THEN i + 1 ELSE i
    BY <1>3, ClosesBefore
  <2>2. PICK l \in DOMAIN pipe[r] : Closes(c, r, l) /\ l = IF r = s THEN j + 1 ELSE j
    BY <1>3, ClosesBefore
  <2>3. c \in opened \ up /\ t = r /\ k = l
    BY <2>1, <2>2 DEF ClosedOnce
  <2>4. i \in Nat /\ j \in Nat
    BY <1>3, ClosesBefore
  <2> QED
    BY <2>1, <2>2, <2>3, <2>4
<1> QED
  BY <1>1, <1>2, <1>3 DEF ClosedOnce

LEMMA HandledClose ==
  ASSUME WorldTypeOK, ClosedOnce, NEW s \in Streams, Handle(s)
  PROVE  /\ Cardinality(Closing) \in Nat /\ Cardinality(Closing') \in Nat
         /\ Cardinality(Closing') <= Cardinality(Closing)
         /\ pipe[s][1].name = "connection.close" =>
              Cardinality(Closing') + 1 <= Cardinality(Closing)
<1>1. UNCHANGED <<up, opened>> /\ 1 \in DOMAIN pipe[s]
  BY HandledIsTail DEF Handle, broker
<1>2. IsFiniteSet(Closing) /\ Cardinality(Closing) \in Nat
  BY FS_Subset, FS_CardinalityType DEF Closing, WorldTypeOK
<1>3. Closing' \subseteq Closing
  <2>1. ASSUME NEW c \in Closing' PROVE c \in Closing
    <3>1. PICK t \in Streams : \E i \in DOMAIN pipe'[t] : Closes(c, t, i)'
      BY DEF Closing
    <3>2. PICK i \in DOMAIN pipe'[t] : Closes(c, t, i)'
      BY <3>1
    <3>3. \E k \in DOMAIN pipe[t] : Closes(c, t, k)
      BY <3>2, ClosesBefore
    <3> QED
      BY <1>1, <3>3 DEF Closing
  <2> QED
    BY <2>1
<1>4. ASSUME pipe[s][1].name = "connection.close"
      PROVE  \E c \in Closing : c \notin Closing'
  <2>1. s # Api
    BY <1>1, <1>4 DEF ClosedOnce
  <2>2. PICK c \in Conns : s \in {Client(c), Broker(c)}
    BY <2>1 DEF Streams, Client, Broker
  <2>3. Closes(c, s, 1)
    BY <1>1, <1>4, <2>2 DEF Closes
  <2>4. c \in opened /\ c \in Closing
    BY <1>1, <2>3 DEF ClosedOnce, Closing
  <2>5. ASSUME NEW t \in Streams, NEW i \in DOMAIN pipe'[t], Closes(c, t, i)' PROVE FALSE
    <3>1. PICK k \in DOMAIN pipe[t] : Closes(c, t, k) /\ k = IF t = s THEN i + 1 ELSE i
      BY <2>5, ClosesBefore
    <3>2. t = s /\ k = 1
      BY <1>1, <2>3, <3>1 DEF ClosedOnce
    <3> QED
      BY <2>5, <3>1, <3>2, ClosesBefore
  <2> QED
    BY <2>4, <2>5 DEF Closing
<1>5. Within(Closing', Closing)
  BY <1>2, <1>3, SubsetWithin
<1>6. ASSUME pipe[s][1].name = "connection.close"
      PROVE  Cardinality(Closing') + 1 <= Cardinality(Closing)
  <2>1. PICK c \in Closing : c \notin Closing'
    BY <1>4, <1>6
  <2>2. /\ IsFiniteSet(Closing \ {c}) /\ Cardinality(Closing \ {c}) = Cardinality(Closing) - 1
    BY <1>2, FS_RemoveElement
  <2>3. Within(Closing', Closing \ {c})
    BY <1>3, <2>1, <2>2, SubsetWithin
  <2> QED
    BY <1>2, <2>2, <2>3 DEF Within
<1> QED
  BY <1>2, <1>5, <1>6 DEF Within

LEMMA HandledOpen ==
  ASSUME WorldTypeOK, NEW s \in Streams, Handle(s)
  PROVE  /\ Cardinality(Opening) \in Nat /\ Cardinality(Opening') \in Nat
         /\ Cardinality(Opening) <= Cardinality(Opening') + 1
         /\ pipe[s][1].name # "connection.open" =>
              Cardinality(Opening) <= Cardinality(Opening')
<1>1. UNCHANGED opened
  BY DEF Handle, broker
<1>2. ASSUME NEW c \in Opening, c \notin Opening'
      PROVE  s = Client(c) /\ pipe[s][1].name = "connection.open"
  <2>1. PICK i \in DOMAIN pipe[Client(c)] : pipe[Client(c)][i].name = "connection.open"
    BY DEF Opening
  <2>2. c \in opened /\ Client(c) \in Streams
    BY ClientAndBroker DEF Opening, WorldTypeOK
  <2>3. ~\E j \in DOMAIN pipe'[Client(c)] : pipe'[Client(c)][j].name = "connection.open"
    BY <1>1, <1>2, <2>2 DEF Opening, Client
  <2>4. s = Client(c)
    <3>1. s # Client(c) => pipe'[Client(c)] = pipe[Client(c)]
      BY <2>2, HandledIsTail
    <3> QED
      BY <2>1, <2>3, <3>1
  <2>5. i = 1
    <3>1. i = 1 \/ i - 1 \in DOMAIN pipe'[s]
      BY <2>1, <2>4, HandledIsTail
    <3>2. i - 1 \in DOMAIN pipe'[s] => pipe'[s][i - 1] = pipe[s][(i - 1) + 1]
      BY HandledIsTail
    <3>3. (i - 1) + 1 = i
      BY <2>1, <2>4, HandledIsTail
    <3> QED
      BY <2>1, <2>3, <2>4, <3>1, <3>2, <3>3
  <2> QED
    BY <2>1, <2>4, <2>5
<1>3. /\ IsFiniteSet(Opening) /\ Cardinality(Opening) \in Nat
      /\ IsFiniteSet(Opening') /\ Cardinality(Opening') \in Nat
  <2>1. Opening \subseteq opened /\ Opening' \subseteq opened /\ IsFiniteSet(opened)
    BY <1>1 DEF Opening, WorldTypeOK
  <2> QED
    BY <2>1, FS_Subset, FS_CardinalityType
<1>4. CASE Opening \subseteq Opening'
  BY <1>3, <1>4, SubsetWithin DEF Within
<1>5. CASE ~(Opening \subseteq Opening')
  <2>1. PICK c \in Opening : c \notin Opening'
    BY <1>5
  <2>2. pipe[s][1].name = "connection.open"
    BY <1>2, <2>1
  <2>3. Opening \subseteq Opening' \cup {c}
    <3>1. \A d \in Opening : d \in Conns
      BY DEF Opening, WorldTypeOK
    <3>2. \A d \in Opening : d \notin Opening' => d = c
      BY <1>2, <2>1, <3>1, ClientAndBroker
    <3> QED
      BY <3>2
  <2>4. /\ IsFiniteSet(Opening' \cup {c})
        /\ Cardinality(Opening' \cup {c}) = Cardinality(Opening') + 1
    BY <1>3, <2>1, FS_AddElement
  <2>5. Within(Opening, Opening' \cup {c})
    BY <2>3, <2>4, SubsetWithin
  <2> QED
    BY <1>3, <2>2, <2>4, <2>5 DEF Within
<1> QED
  BY <1>4, <1>5

LEMMA ListStep ==
  ASSUME NEW a
  PROVE  /\ a.rule = "connection_opened" =>
              NextConnections(a) = Kept(Append(connections, TRUE))
         /\ a.rule \in ClosingRules => NextConnections(a) = NewestClosed(connections)
         /\ a.rule \notin ClosingRules \cup {"connection_opened"} =>
              NextConnections(a) = connections
<1>1. "connection_opened" \notin ClosingRules
  BY DEF ClosingRules
<1>2. ASSUME a.rule = "connection_opened"
      PROVE  NextConnections(a) = Kept(Append(connections, TRUE))
  <2> DEFINE kept == Kept(Append(connections, TRUE))
  <2>1. NextConnections(a) = CASE a.rule = "connection_opened" -> kept
                               [] a.rule \in ClosingRules -> NewestClosed(connections)
                               [] OTHER -> connections
    BY DEF NextConnections
  <2> HIDE DEF kept
  <2>2. NextConnections(a) = kept
    BY <1>1, <1>2, <2>1
  <2> QED
    BY <2>2 DEF kept
<1>3. ASSUME a.rule \in ClosingRules
      PROVE  NextConnections(a) = NewestClosed(connections)
  BY <1>1, <1>3 DEF NextConnections
<1>4. ASSUME a.rule \notin ClosingRules \cup {"connection_opened"}
      PROVE  NextConnections(a) = connections
  BY <1>4 DEF NextConnections
<1> QED
  BY <1>2, <1>3, <1>4

LEMMA HandleKeepsTypes ==
  ASSUME TypeOK, WorldTypeOK, NEW s \in Streams, Handle(s)
  PROVE  TypeOK' /\ WorldTypeOK'
<1> DEFINE m == pipe[s][1]
<1>1. m \in Sayable /\ pipe' \in [Streams -> Seq(Sayable)]
  BY HandledIsTail
<1>2. /\ entities' = NextEntities(Evaluate(m)) /\ consumers' = NextConsumers(Evaluate(m))
      /\ connections' = NextConnections(Evaluate(m))
      /\ UNCHANGED <<up, opened, exists, consuming, ops, unsure, cleared>>
  BY HandledIsTail DEF Handle, broker
<1> HIDE DEF m
<1>3. \E known \in SUBSET Entities : entities' \in [known -> Entry]
  BY <1>1, <1>2, EntitiesStep
<1>4. \E known \in SUBSET ConsumerKeys : consumers' \in [known -> ConsumerEntry]
  BY <1>1, <1>2, ConsumersStep
<1>5. connections' \in Seq(BOOLEAN) /\ Len(connections') <= MaxShown
  <2>1. connections \in Seq(BOOLEAN) /\ Len(connections) <= MaxShown
    BY DEF TypeOK
  <2>2. \/ connections' = Kept(Append(connections, TRUE))
        \/ connections' = NewestClosed(connections)
        \/ connections' = connections
    BY <1>2, ListStep
  <2>3. /\ Kept(Append(connections, TRUE)) \in Seq(BOOLEAN)
        /\ Len(Kept(Append(connections, TRUE))) <= MaxShown
    BY <2>1, KeptCounts
  <2>4. /\ NewestClosed(connections) \in Seq(BOOLEAN)
        /\ Len(NewestClosed(connections)) <= MaxShown
    BY <2>1, NewestClosedCounts
  <2> QED
    BY <2>1, <2>2, <2>3, <2>4
<1>6. TypeOK'
  BY <1>3, <1>4, <1>5 DEF TypeOK, Entry, ConsumerEntry
<1> QED
  BY <1>1, <1>2, <1>6 DEF WorldTypeOK

LEMMA HandleKeepsCount ==
  ASSUME TypeOK, WorldTypeOK, ClosedOnce, EntriesCount, NEW s \in Streams, Handle(s)
  PROVE  EntriesCount'
<1> DEFINE m == pipe[s][1]
           a == Evaluate(m)
           was == Cardinality(Inactive(connections))
           is == Cardinality(Inactive(connections'))
<1>1. /\ connections' = NextConnections(a) /\ m \in Sayable
      /\ UNCHANGED <<up, opened, cleared>>
  BY HandledIsTail DEF Handle, broker
<1>2. /\ connections \in Seq(BOOLEAN) /\ Len(connections) <= MaxShown
      /\ Len(connections) \in Nat /\ was \in Nat
  BY ListFinite DEF TypeOK, Inactive
<1>3. MaxShown \in Nat
  BY TopologyAssumption
<1>4. /\ m.name = "connection.open" => a.rule = "connection_opened"
      /\ a.rule \in ClosingRules => m.name = "connection.close"
  BY <1>1, SayableMeans, StatedIsTold, OnlyStated
<1>5. /\ Cardinality(Closing) \in Nat /\ Cardinality(Closing') \in Nat
      /\ Cardinality(Closing') <= Cardinality(Closing)
      /\ m.name = "connection.close" => Cardinality(Closing') + 1 <= Cardinality(Closing)
  BY HandledClose
<1>6. /\ Cardinality(Opening) \in Nat /\ Cardinality(Opening') \in Nat
      /\ Cardinality(Opening) <= Cardinality(Opening') + 1
      /\ m.name # "connection.open" => Cardinality(Opening) <= Cardinality(Opening')
  BY HandledOpen
<1>7. Cardinality(up) \in Nat /\ Cardinality(opened) \in Nat
  BY FS_Subset, FS_CardinalityType DEF WorldTypeOK
<1>8. /\ was + Cardinality(Closing) + Cardinality(up) <= Cardinality(opened)
      /\ \/ cleared \/ Len(connections) = MaxShown
         \/ Cardinality(opened) <= Len(connections) + Cardinality(Opening)
  BY DEF EntriesCount, Inactive
<1> HIDE DEF m, a
<1>9. /\ is \in Nat /\ Len(connections') \in Nat
      /\ is + Cardinality(Closing') <= was + Cardinality(Closing)
      /\ \/ Len(connections') = MaxShown
         \/ Len(connections') + Cardinality(Opening') >= Len(connections) + Cardinality(Opening)
  <2>1. CASE a.rule = "connection_opened"
    <3>1. connections' = Kept(Append(connections, TRUE))
      BY <1>1, <2>1, ListStep
    <3>2. /\ connections' \in Seq(BOOLEAN)
          /\ Len(connections') = MaxShown \/ Len(connections') = Len(connections) + 1
          /\ is \in Nat /\ is <= was
      BY <1>2, <3>1, KeptCounts
    <3>3. Len(connections') \in Nat
      BY <3>2
    <3> HIDE DEF is, was
    <3> QED
      BY <1>2, <1>5, <1>6, <3>2, <3>3
  <2>2. CASE a.rule \in ClosingRules
    <3>1. connections' = NewestClosed(connections)
      BY <1>1, <2>2, ListStep
    <3>2. Len(connections') = Len(connections) /\ is \in Nat /\ is <= was + 1
      BY <1>2, <3>1, NewestClosedCounts
    <3>3. m.name = "connection.close" /\ m.name # "connection.open"
      BY <1>4, <2>2
    <3> HIDE DEF is, was
    <3> QED
      BY <1>2, <1>5, <1>6, <3>2, <3>3
  <2>3. CASE a.rule # "connection_opened" /\ a.rule \notin ClosingRules
    <3>1. connections' = connections
      BY <1>1, <2>3, ListStep
    <3>2. is = was
      BY <3>1
    <3>3. m.name # "connection.open"
      BY <1>4, <2>3
    <3> HIDE DEF is, was
    <3> QED
      BY <1>2, <1>5, <1>6, <3>1, <3>2, <3>3
  <2> QED
    BY <2>1, <2>2, <2>3
<1> HIDE DEF is, was
<1>10. is + Cardinality(Closing') + Cardinality(up') <= Cardinality(opened')
  BY <1>1, <1>2, <1>5, <1>7, <1>8, <1>9
<1>11. \/ cleared' \/ Len(connections') = MaxShown
       \/ Cardinality(opened') <= Len(connections') + Cardinality(Opening')
  <2>1. CASE cleared \/ Len(connections') = MaxShown
    BY <1>1, <2>1
  <2>2. CASE Len(connections) = MaxShown /\ Len(connections') # MaxShown
    <3>1. Len(connections') = MaxShown
      <4>1. \/ connections' = Kept(Append(connections, TRUE))
            \/ connections' = NewestClosed(connections)
            \/ connections' = connections
        BY <1>1, ListStep
      <4>2. \/ Len(Kept(Append(connections, TRUE))) = MaxShown
            \/ Len(Kept(Append(connections, TRUE))) = MaxShown + 1
        BY <1>2, <2>2, KeptCounts
      <4>3. Len(Kept(Append(connections, TRUE))) <= MaxShown
        BY <1>2, KeptCounts
      <4>4. Len(NewestClosed(connections)) = MaxShown
        BY <1>2, <2>2, NewestClosedCounts
      <4>5. Len(Kept(Append(connections, TRUE))) = MaxShown
        <5> DEFINE k == Len(Kept(Append(connections, TRUE)))
        <5>1. (k = MaxShown \/ k = MaxShown + 1) /\ k <= MaxShown
          BY <4>2, <4>3
        <5> HIDE DEF k
        <5>2. k = MaxShown
          BY <1>3, <5>1
        <5> QED
          BY <5>2 DEF k
      <4> QED
        BY <2>2, <4>1, <4>4, <4>5
    <3> QED
      BY <2>2, <3>1
  <2>3. CASE Cardinality(opened) <= Len(connections) + Cardinality(Opening)
    <3>1. \/ Len(connections') = MaxShown
          \/ Cardinality(opened) <= Len(connections') + Cardinality(Opening')
      BY <1>2, <1>6, <1>7, <1>9, <2>3
    <3> QED
      BY <1>1, <3>1
  <2> QED
    BY <1>8, <2>1, <2>2, <2>3
<1> QED
  BY <1>10, <1>11 DEF EntriesCount, is, Inactive

-----------------------------------------------------------------------------
(* The inductive invariant                                                 *)

\* The invariant, with its parts about names as one.
LEMMA InvariantParts ==
  TopologyInv <=> TypeOK /\ WorldTypeOK /\ ClosedOnce /\ EntriesCount /\ NamesHold
BY DEF TopologyInv, NamesHold

LEMMA TopologyInit ==
  ASSUME Init
  PROVE  TopologyInv
<1>1. TypeOK
  <2>1. entities \in [{} -> Entry] /\ consumers \in [{} -> ConsumerEntry]
    BY DEF Init
  <2>2. connections \in Seq(BOOLEAN) /\ Len(connections) <= MaxShown
    BY TopologyAssumption DEF Init
  <2>3. {} \in SUBSET Entities /\ {} \in SUBSET ConsumerKeys
    OBVIOUS
  <2>4. \E known \in SUBSET Entities : entities \in [known -> Entry]
    BY <2>1, <2>3
  <2>5. \E known \in SUBSET ConsumerKeys : consumers \in [known -> ConsumerEntry]
    BY <2>1, <2>3
  <2> QED
    BY <2>2, <2>4, <2>5 DEF TypeOK, Entry, ConsumerEntry
<1>2. \A s \in Streams : pipe[s] = <<>> /\ DOMAIN pipe[s] = {}
  BY DEF Init
<1>3. WorldTypeOK
  <2>1. pipe \in [Streams -> Seq(Sayable)]
    BY DEF Init
  <2>2. exists \in [unsure -> Flagged] /\ unsure \in SUBSET Entities
    BY DEF Init, Flagged
  <2>3. \E known \in SUBSET Entities : exists \in [known -> Flagged]
    BY <2>2
  <2> QED
    BY <2>1, <2>3, FS_EmptySet DEF Init, WorldTypeOK
<1>4. ClosedOnce
  BY <1>2 DEF ClosedOnce, Streams
<1>5. EntriesCount
  <2>1. Opening = {} /\ Closing = {} /\ {i \in DOMAIN connections : ~connections[i]} = {}
    BY DEF Init, Opening, Closing
  <2>2. Len(connections) = 0 /\ Cardinality({}) = 0 /\ up = {} /\ opened = {}
    BY FS_EmptySet DEF Init
  <2> QED
    BY <2>1, <2>2 DEF EntriesCount
<1>6. EntityWordsHold /\ ConsumerWordsHold
  BY <1>2 DEF EntityWordsHold, ConsumerWordsHold
<1>7. EntitiesAgree /\ ConsumersShown
  <2>1. DOMAIN entities = {} /\ DOMAIN exists = unsure /\ consuming = {}
    BY DEF Init
  <2> QED
    BY <2>1 DEF EntitiesAgree, ConsumersShown, Shown
<1> QED
  BY <1>1, <1>3, <1>4, <1>5, <1>6, <1>7 DEF TopologyInv

LEMMA HandleKeeps ==
  ASSUME TopologyInv, NEW s \in Streams, Handle(s)
  PROVE  TopologyInv'
<1>1. TypeOK /\ WorldTypeOK /\ ClosedOnce /\ EntriesCount /\ NamesHold
  BY InvariantParts
<1>2. TypeOK' /\ WorldTypeOK'
  BY <1>1, HandleKeepsTypes
<1>3. UNCHANGED unsure
  BY DEF Handle, broker
<1>4. (EntityWordsHold /\ EntitiesAgree)'
  <2>1. \A e \in Entities \ unsure : EntityKept(e)
    BY <1>1, EachIsKept DEF NamesHold
  <2>2. \A e \in Entities \ unsure : EntityKept(e)'
    BY <1>1, <2>1, HandleKeepsEntity
  <2> QED
    BY <1>3, <2>2 DEF EntityWordsHold, EntitiesAgree, EntityKept
<1>5. (ConsumerWordsHold /\ ConsumersShown)'
  <2>1. \A t \in Tags \ unsure : ConsumersKept(t)
    BY <1>1, EachIsKept DEF NamesHold
  <2>2. \A t \in Tags \ unsure : ConsumersKept(t)'
    BY <1>1, <2>1, HandleKeepsTag
  <2>3. \A k \in consuming' : k.tag \in Tags
    BY <1>2 DEF WorldTypeOK, Consumers
  <2> QED
    BY <1>3, <2>2, <2>3 DEF ConsumerWordsHold, ConsumersShown, ConsumersKept
<1>6. ClosedOnce' /\ EntriesCount'
  BY <1>1, HandleKeepsOnce, HandleKeepsCount
<1> QED
  BY <1>2, <1>4, <1>5, <1>6 DEF TopologyInv

LEMMA ClearKeeps ==
  ASSUME TopologyInv, Clear
  PROVE  TopologyInv'
<1>1. /\ entities' = <<>> /\ consumers' = <<>> /\ connections' = <<>> /\ cleared'
      /\ UNCHANGED <<up, opened, exists, consuming, ops, unsure, pipe>>
  BY DEF Clear, broker
<1>2. TypeOK'
  <2>1. entities' \in [{} -> Entry] /\ consumers' \in [{} -> ConsumerEntry]
    BY <1>1
  <2>2. connections' \in Seq(BOOLEAN) /\ Len(connections') <= MaxShown
    BY <1>1, TopologyAssumption
  <2>3. {} \in SUBSET Entities /\ {} \in SUBSET ConsumerKeys
    OBVIOUS
  <2>4. \E known \in SUBSET Entities : entities' \in [known -> Entry]
    BY <2>1, <2>3
  <2>5. \E known \in SUBSET ConsumerKeys : consumers' \in [known -> ConsumerEntry]
    BY <2>1, <2>3
  <2> QED
    BY <2>2, <2>4, <2>5 DEF TypeOK, Entry, ConsumerEntry
<1>3. WorldTypeOK' /\ ClosedOnce' /\ EntityWordsHold' /\ ConsumerWordsHold'
  <2>1. WorldTypeOK'
    BY <1>1 DEF TopologyInv, WorldTypeOK
  <2>2. ClosedOnce'
    BY <1>1 DEF TopologyInv, ClosedOnce, Closes
  <2>3. EntityWordsHold'
    BY <1>1 DEF TopologyInv, EntityWordsHold, LastWord, SaysEntity
  <2>4. ConsumerWordsHold'
    BY <1>1 DEF TopologyInv, ConsumerWordsHold, LastWord, SaysConsumers
  <2> QED
    BY <2>1, <2>2, <2>3, <2>4
<1>4. EntriesCount'
  <2>1. Closing' = Closing
    BY <1>1 DEF Closing, Closes
  <2>2. /\ Cardinality({i \in DOMAIN connections : ~connections[i]}) \in Nat
        /\ Cardinality({i \in DOMAIN connections' : ~connections'[i]}) = 0
    <3>1. {i \in DOMAIN connections' : ~connections'[i]} = {}
      BY <1>1
    <3> QED
      BY <3>1, ListFinite, FS_EmptySet DEF TopologyInv, TypeOK
  <2>3. Cardinality(Closing) \in Nat /\ Cardinality(up) \in Nat /\ Cardinality(opened) \in Nat
    BY FS_Subset, FS_CardinalityType DEF TopologyInv, WorldTypeOK, Closing
  <2>4. Cardinality({i \in DOMAIN connections : ~connections[i]}) + Cardinality(Closing)
          + Cardinality(up) <= Cardinality(opened)
    BY DEF TopologyInv, EntriesCount
  <2>5. 0 + Cardinality(Closing') + Cardinality(up') <= Cardinality(opened')
    BY <1>1, <2>1, <2>2, <2>3, <2>4
  <2> QED
    BY <1>1, <2>2, <2>5 DEF EntriesCount
<1>5. EntitiesAgree' /\ ConsumersShown'
  BY <1>1 DEF EntitiesAgree, ConsumersShown, Shown
<1> QED
  BY <1>2, <1>3, <1>4, <1>5 DEF TopologyInv

LEMMA WorldStepKeeps ==
  ASSUME TopologyInv, World
  PROVE  TopologyInv'
<1>1. TypeOK /\ WorldTypeOK /\ ClosedOnce /\ EntriesCount /\ NamesHold
  BY InvariantParts
<1>2. ASSUME WorldKeeps, UNCHANGED <<up, opened, topo, cleared>> PROVE TopologyInv'
  <2>1. PICK w : Sends(w) /\ CloseFree(w)
    BY <1>2 DEF WorldKeeps
  <2>2. WorldTypeOK' /\ NamesHold'
    BY <1>2 DEF WorldKeeps
  <2>3. ClosedOnce' /\ EntriesCount'
    BY <1>1, <1>2, <2>1, <2>2, WorldKeepsCount DEF topo
  <2>4. TypeOK'
    BY <1>1, <1>2 DEF TypeOK, topo
  <2> QED
    BY <2>2, <2>3, <2>4 DEF TopologyInv, NamesHold
<1>3. ASSUME NEW c \in Conns, Open(c) PROVE TopologyInv'
  <2>1. WorldTypeOK' /\ NamesHold'
    BY <1>1, <1>3, OpenKeeps
  <2>2. PICK w : /\ Sends(w) /\ CloseFree(w)
                 /\ \E k \in DOMAIN w[Client(c)] : w[Client(c)][k].name = "connection.open"
    BY <1>1, <1>3, OpenKeeps
  <2>3. ClosedOnce' /\ EntriesCount'
    BY <1>1, <1>3, <2>1, <2>2, OpenKeepsCount
  <2>4. TypeOK'
    BY <1>1, <1>3 DEF TypeOK, Open, topo
  <2> QED
    BY <2>1, <2>3, <2>4 DEF TopologyInv, NamesHold
<1>4. ASSUME NEW c \in Conns, Close(c) \/ Drop(c) \/ \E m \in Faults : Fault(c, m)
      PROVE  TopologyInv'
  <2>1. EndKeeps(c)
    BY <1>1, <1>4, EndingKeeps
  <2>2. PICK w : Sends(w) /\ ClosesOnly(w, c)
    BY <2>1 DEF EndKeeps
  <2>3. Ends(c) /\ WorldTypeOK' /\ NamesHold'
    BY <1>4, <2>1 DEF EndKeeps, Close, Drop, Fault
  <2>4. ClosedOnce' /\ EntriesCount'
    BY <1>1, <2>2, <2>3, EndKeepsCount
  <2>5. TypeOK'
    BY <1>1, <2>3 DEF TypeOK, Ends, Operation, topo
  <2> QED
    BY <2>3, <2>4, <2>5 DEF TopologyInv, NamesHold
<1>5. ASSUME NEW c \in Conns, NEW e \in Entities, Delete(c, e) \/ RefuseDelete(c, e)
      PROVE  TopologyInv'
  <2>1. WorldKeeps
    BY <1>1, <1>5, DeleteKeeps, RefuseDeleteKeeps
  <2>2. UNCHANGED <<up, opened, topo, cleared>>
    BY <1>5 DEF Delete, RefuseDelete, Operation
  <2> QED
    BY <1>2, <2>1, <2>2
<1>6. ASSUME NEW c \in Conns, NEW e \in Entities, NEW flags \in Flagged, Declare(c, e, flags)
      PROVE  TopologyInv'
  <2>1. WorldKeeps
    BY <1>1, <1>6, DeclareKeeps
  <2>2. UNCHANGED <<up, opened, topo, cleared>>
    BY <1>6 DEF Declare, Operation
  <2> QED
    BY <1>2, <2>1, <2>2
<1>7. ASSUME NEW c \in Conns, NEW q \in Queues, Check(c, q) PROVE TopologyInv'
  <2>1. WorldKeeps
    BY <1>1, <1>7, CheckKeeps
  <2>2. UNCHANGED <<up, opened, topo, cleared>>
    BY <1>7 DEF Check, Operation
  <2> QED
    BY <1>2, <2>1, <2>2
<1>8. ASSUME NEW c \in Conns, NEW q \in Queues, NEW t \in Tags, Consume(c, q, t)
      PROVE  TopologyInv'
  <2>1. WorldKeeps
    BY <1>1, <1>8, ConsumeKeeps
  <2>2. UNCHANGED <<up, opened, topo, cleared>>
    BY <1>8 DEF Consume, Operation
  <2> QED
    BY <1>2, <2>1, <2>2
<1>9. ASSUME NEW c \in Conns, NEW t \in Tags, Cancel(c, t) PROVE TopologyInv'
  <2>1. WorldKeeps
    BY <1>1, <1>9, CancelKeeps
  <2>2. UNCHANGED <<up, opened, topo, cleared>>
    BY <1>9 DEF Cancel, Operation
  <2> QED
    BY <1>2, <2>1, <2>2
<1>10. ASSUME NEW q \in Queues, Manage(q) PROVE TopologyInv'
  <2>1. WorldKeeps
    BY <1>1, <1>10, ManageKeeps
  <2>2. UNCHANGED <<up, opened, topo, cleared>>
    BY <1>10 DEF Manage, Operation
  <2> QED
    BY <1>2, <2>1, <2>2
<1>11. ASSUME NEW s \in Streams, NEW m \in Notices, Notice(s, m) PROVE TopologyInv'
  <2>1. WorldKeeps
    BY <1>1, <1>11, NoticeKeeps
  <2>2. UNCHANGED <<up, opened, topo, cleared>>
    BY <1>11 DEF Notice, Operation
  <2> QED
    BY <1>2, <2>1, <2>2
<1>12. Flags \subseteq Flagged /\ {} \in Flagged /\ Exchanges \subseteq Entities /\ Queues \subseteq Entities
  BY TopologyAssumption DEF Flagged, Entities
<1>13. ASSUME NEW c \in Conns, ClientStep(c) PROVE TopologyInv'
  BY <1>3, <1>4, <1>5, <1>6, <1>7, <1>8, <1>9, <1>12, <1>13 DEF ClientStep
<1> QED
  BY <1>10, <1>11, <1>13 DEF World

\* Whatever the broker, its clients and the streams do, the invariant holds.
THEOREM TopologyCorrect == Spec => []TopologyInv
<1>1. TopologyInv /\ [Next]_vars => TopologyInv'
  <2> SUFFICES ASSUME TopologyInv, [Next]_vars PROVE TopologyInv'
    OBVIOUS
  <2>1. CASE \E s \in Streams : Handle(s)
    BY <2>1, HandleKeeps
  <2>2. CASE Clear
    BY <2>2, ClearKeeps
  <2>3. CASE World
    BY <2>3, WorldStepKeeps
  <2>4. CASE UNCHANGED vars
    BY <2>4 DEF TopologyInv, TypeOK, WorldTypeOK, ClosedOnce, Closes, EntriesCount, Closing, Opening,
                EntityWordsHold, EntitiesAgree, ConsumerWordsHold, ConsumersShown, LastWord,
                SaysEntity, SaysConsumers, Said, Awaited, vars, broker, topo
  <2> QED
    BY <2>1, <2>2, <2>3, <2>4 DEF Next, ControlPlane
<1> QED
  BY <1>1, TopologyInit, PTL DEF Spec

\* Entries have names and flags, consumers a tag, and the list of connections its limit
\* (updateTopologyFromAlert).
THEOREM TopologyTypes == Spec => []TypeOK
<1>1. TopologyInv => TypeOK
  BY DEF TopologyInv
<1> QED
  BY <1>1, TopologyCorrect, PTL

\* Queues and exchanges are shown as the broker has them, once all that was said of them
\* is handled, in whatever order the streams are.
THEOREM EntitiesAreAgreed == Spec => []EntitiesAgree
<1>1. TopologyInv => EntitiesAgree
  BY DEF TopologyInv
<1> QED
  BY <1>1, TopologyCorrect, PTL

\* A consumer that the broker has is shown on its queue.
THEOREM ConsumersAreShown == Spec => []ConsumersShown
<1>1. TopologyInv => ConsumersShown
  BY DEF TopologyInv
<1> QED
  BY <1>1, TopologyCorrect, PTL

\* With nothing left to handle, the counts of entries and of connections that have been
\* opened and ended leave no open connection without an active entry.
LEMMA CountCovers ==
  ASSUME TopologyInv
  PROVE  ConnectionsCovered
<1> DEFINE inactive == {i \in DOMAIN connections : ~connections[i]}
           active == {i \in DOMAIN connections : connections[i]}
<1> SUFFICES ASSUME \A s \in Streams : pipe[s] = <<>>, ~cleared, Cardinality(opened) <= MaxShown
             PROVE  Cardinality(up) <= Cardinality(active)
  BY DEF ConnectionsCovered
<1>1. WorldTypeOK /\ connections \in Seq(BOOLEAN) /\ EntriesCount
  BY DEF TopologyInv, TypeOK
<1>2. Closing = {} /\ Opening = {}
  <2>1. \A s \in Streams : DOMAIN pipe[s] = {}
    OBVIOUS
  <2>2. \A c \in opened : Client(c) \in Streams
    BY <1>1, ClientAndBroker DEF WorldTypeOK
  <2> QED
    BY <2>1, <2>2 DEF Closing, Opening
<1>3. Cardinality(Closing) = 0 /\ Cardinality(Opening) = 0
  BY <1>2, FS_EmptySet
<1>4. /\ IsFiniteSet(inactive) /\ Cardinality(inactive) \in Nat
      /\ IsFiniteSet(active) /\ Cardinality(active) \in Nat
      /\ Cardinality(active) + Cardinality(inactive) = Len(connections) /\ Len(connections) \in Nat
  <2>1. Len(connections) \in Nat /\ DOMAIN connections = 1 .. Len(connections)
    BY <1>1
  <2>2. IsFiniteSet(1 .. Len(connections)) /\ Cardinality(1 .. Len(connections)) = Len(connections)
    BY <2>1, FS_Interval
  <2>3. active = (1 .. Len(connections)) \ inactive /\ inactive \subseteq 1 .. Len(connections)
    BY <2>1
  <2>4. IsFiniteSet(inactive) /\ Cardinality(inactive) \in Nat
    BY <2>2, <2>3, FS_Subset, FS_CardinalityType
  <2> HIDE DEF inactive, active
  <2>5. (1 .. Len(connections)) \cap inactive = inactive
    BY <2>3
  <2>6. /\ IsFiniteSet(active)
        /\ Cardinality(active) = Cardinality(1 .. Len(connections)) - Cardinality(inactive)
    <3> DEFINE all == 1 .. Len(connections)
    <3>1. IsFiniteSet(all)
      BY <2>2
    <3> HIDE DEF all
    <3>2. IsFiniteSet(all \ inactive) /\ Cardinality(all \ inactive) =
                                            Cardinality(all) - Cardinality(all \cap inactive)
      BY <3>1, FS_Difference
    <3> QED
      BY <2>3, <2>5, <3>2 DEF all
  <2>7. Cardinality(active) \in Nat
    BY <2>6, FS_CardinalityType
  <2> QED
    BY <2>1, <2>2, <2>4, <2>6, <2>7
<1>5. Cardinality(up) \in Nat /\ Cardinality(opened) \in Nat /\ MaxShown \in Nat
  BY <1>1, FS_Subset, FS_CardinalityType, TopologyAssumption DEF WorldTypeOK
<1>6. /\ Cardinality(inactive) + Cardinality(Closing) + Cardinality(up) <= Cardinality(opened)
      /\ \/ Len(connections) = MaxShown
         \/ Cardinality(opened) <= Len(connections) + Cardinality(Opening)
  BY <1>1 DEF EntriesCount
<1> HIDE DEF inactive, active
<1>7. Cardinality(opened) <= Len(connections)
  BY <1>3, <1>4, <1>5, <1>6
<1> QED
  BY <1>3, <1>4, <1>5, <1>6, <1>7

\* A close names no connection, but the list never shows fewer active connections than
\* are open.
THEOREM ConnectionsAreCovered == Spec => []ConnectionsCovered
BY CountCovers, TopologyCorrect, PTL
=============================================================================
