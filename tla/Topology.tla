------------------------------- MODULE Topology -------------------------------
(***************************************************************************)
(* The topology of one tenant: what updateTopologyFromAlert                *)
(* (internal/controlplane/server.go) makes of the alerts about a broker,   *)
(* against what that broker really has.                                    *)
(*                                                                         *)
(* The broker and its clients are outside of the program.  An operation of *)
(* theirs changes the broker and sends methods; each direction of a        *)
(* connection is a stream of its own, and so are the requests to the       *)
(* management API.  The goroutine of a stream evaluates its methods and    *)
(* posts the alerts one by one (module Probe: in order, as long as no POST *)
(* times out), so a stream is a queue here; alerts of different streams    *)
(* come in any order.                                                      *)
(***************************************************************************)
EXTENDS RulesEngine, FiniteSets, SequencesExt

CONSTANTS Conns,         \* connections, each opened at most once
          Queues, Exchanges,
          Tags,          \* consumer tags
          Flags,         \* the sets of flags that queues are declared with
          Notices,       \* methods that change nothing at the broker
          Faults,        \* connection.close methods of the broker
          MaxShown,      \* connections listed; 50 in the code
          MaxOps,        \* bound: operations of clients and broker
          MaxBehind      \* bound: methods unhandled when an operation starts

Entities == Queues \cup Exchanges
Api == <<"api", "client">>
Streams == (Conns \X {"client", "broker"}) \cup {Api}
Consumers == [conn : Conns, tag : Tags, queue : Queues]

(***************************************************************************)
(* The methods that state something about a queue, an exchange or a        *)
(* consumer, and what they are about.                                      *)
(***************************************************************************)
Declaring == {"queue.declare", "exchange.declare"}
Deleting == {"queue.delete", "exchange.delete"}
Stating == Declaring \cup Deleting \cup {"basic.consume", "basic.cancel"}

Subject(m) == CASE m.name = "basic.consume" -> m.tag
                [] m.name \in Stating \ {"basic.consume"} -> m.entity
                [] OTHER -> NoName

Methods == [name : STRING, parsed : BOOLEAN, entity : Entities \cup Tags \cup {NoName},
            tag : Tags \cup {NoName}, marks : SUBSET STRING, code : Nat]

Unnamed(entity) == <<"consumer@", entity>>   \* key of a consumer without a tag

ASSUME TopologyAssumption ==
  /\ MaxShown \in Nat \ {0}
  /\ MaxOps \in Nat /\ MaxBehind \in Nat
  /\ Queues \cap Exchanges = {} /\ Entities \cap Tags = {}
  /\ "api" \notin Conns /\ NoName \notin Entities \cup Tags /\ Unnamed(NoName) \notin Tags
  /\ Flags \subseteq SUBSET {"durable", "exclusive", "auto-delete"}
  /\ Notices \subseteq Methods
  /\ \A m \in Notices : m.name \notin Stating \cup {"connection.close"}
  /\ Faults \subseteq Methods /\ \A m \in Faults : m.name = "connection.close"

VARIABLES
  up,          \* the open connections
  opened,      \* those that have ever been opened
  exists,      \* flags of each queue and exchange that exists
  consuming,   \* the consumers the broker has
  pipe,        \* per stream, the methods not yet handled
  ops,         \* operations so far
  entities,    \* topo.Queues and topo.Exchanges: known name -> entry
  consumers,   \* topo.Consumers: key -> entry
  connections, \* topo.Connections: Active of each
  cleared,     \* history: whether the topology was ever cleared
  unsure       \* history: names of which the streams do not settle the state

broker == <<up, opened, exists, consuming, ops, unsure>>
topo == <<entities, consumers, connections>>
vars == <<broker, pipe, topo, cleared>>

-----------------------------------------------------------------------------
(* The control plane.                                                      *)

ConsumerKeys == Tags \cup {NoName, Unnamed(NoName)}

\* Mutant: declaring a known name does not make it active again.
DeclaredOnce(a, shown) ==
  [e \in DOMAIN shown \cup {a.entity} |->
     IF e \in DOMAIN shown THEN shown[e]
                           ELSE [active |-> TRUE, marks |-> a.marks]]

Declared(a, shown) ==
  [e \in DOMAIN shown \cup {a.entity} |->
     IF e # a.entity THEN shown[e] ELSE
       [active |-> TRUE,
        marks |-> a.marks \cup IF e \in DOMAIN shown THEN shown[e].marks
                                                     ELSE {}]]

\* Marks an entry as gone; a name without an entry gets none.
Gone(name, shown) ==
  [e \in DOMAIN shown |->
     IF e = name THEN [shown[e] EXCEPT !.active = FALSE] ELSE shown[e]]

NextEntities(a) ==
  CASE a.rule \in {"queue_declare", "exchange_declare"} /\ a.entity # NoName
         -> Declared(a, entities)
    [] a.rule \in {"queue_deleted", "exchange_deleted"}
         -> Gone(a.entity, entities)
    [] OTHER -> entities

ConsumerKey(a) == IF a.tag = {} THEN Unnamed(a.entity)
                                ELSE CHOOSE t \in a.tag : TRUE

Consumer(a) == [active |-> TRUE, queue |-> a.entity,
                exclusive |-> "exclusive" \in a.marks]

\* Mutant: the entry of a known tag is kept.
RegisteredOnce(a, shown) ==
  [k \in DOMAIN shown \cup {ConsumerKey(a)} |->
     IF k \in DOMAIN shown THEN shown[k] ELSE Consumer(a)]

Registered(a, shown) ==
  [k \in DOMAIN shown \cup {ConsumerKey(a)} |->
     IF k # ConsumerKey(a) THEN shown[k] ELSE Consumer(a)]

NextConsumers(a) ==
  CASE a.rule = "consumer_registered" -> Registered(a, consumers)
    [] a.rule = "consumer_cancelled" -> Gone(a.entity, consumers)
    [] OTHER -> consumers

\* Mutant: the list grows without end.
KeptAll(list) == list

\* The newest MaxShown entries.
Kept(list) == IF Len(list) <= MaxShown THEN list
              ELSE SubSeq(list, Len(list) - MaxShown + 1, Len(list))

\* Mutant: the loop over the list does not stop at the newest active entry.
AllClosed(list) == [i \in DOMAIN list |-> FALSE]

\* A close names no connection: the newest active entry is closed.
NewestClosed(list) ==
  [i \in DOMAIN list |->
     /\ list[i]
     /\ \E j \in DOMAIN list : j > i /\ list[j]]

ClosingRules == {"connection_closed_cleanly", "connection_closed_unexpectedly",
                 "connection_close_unparseable"}

NextConnections(a) ==
  CASE a.rule = "connection_opened" -> Kept(Append(connections, TRUE))
    [] a.rule \in ClosingRules -> NewestClosed(connections)
    [] OTHER -> connections

(***************************************************************************)
(* The next method of a stream is evaluated, posted, and its alert put     *)
(* into the topology, under topoMu.  A method without a rule is dropped.   *)
(***************************************************************************)
Handle(s) ==
  /\ pipe[s] # <<>>
  /\ LET a == Evaluate(Head(pipe[s])) IN
       /\ entities' = NextEntities(a)
       /\ consumers' = NextConsumers(a)
       /\ connections' = NextConnections(a)
  /\ pipe' = [pipe EXCEPT ![s] = Tail(@)]
  /\ UNCHANGED <<broker, cleared>>

\* POST /api/topology/clear, or the end of a DELETE of the alerts.
Clear ==
  /\ entities' = <<>>
  /\ consumers' = <<>>
  /\ connections' = <<>>
  /\ cleared' = TRUE
  /\ UNCHANGED <<broker, pipe>>

-----------------------------------------------------------------------------
(* The broker and its clients.                                             *)

\* Whether stream s still has something to say about x.
Awaited(x, s) == \E i \in DOMAIN pipe[s] : Subject(pipe[s][i]) = x

Client(c) == <<c, "client">>
Broker(c) == <<c, "broker">>

\* The methods that an operation sends, given per stream.
Send(out) == pipe' = [s \in Streams |->
                        IF s \in DOMAIN out THEN pipe[s] \o out[s] ELSE pipe[s]]

Exchanged(c, fromClient, fromBroker) ==
  Send([s \in {Client(c), Broker(c)} |->
          IF s = Client(c) THEN fromClient ELSE fromBroker])

(***************************************************************************)
(* What an operation on x, sent on stream s, does to unsure.  If it states *)
(* the new state of x and no other stream has something to say about x,    *)
(* the order of handling cannot matter any more.                           *)
(***************************************************************************)
Settles(x, s, decisive) ==
  unsure' = IF decisive /\ \A t \in Streams \ {s} : ~Awaited(x, t)
              THEN unsure \ {x} ELSE unsure \cup {x}

\* The number of methods not yet handled.
Behind == FoldFunction(+, 0, [s \in Streams |-> Len(pipe[s])])

Operation ==
  /\ ops < MaxOps
  /\ ops' = ops + 1
  /\ Behind <= MaxBehind
  /\ UNCHANGED <<topo, cleared>>

Open(c) ==
  /\ c \notin opened
  /\ Behind <= MaxBehind
  /\ up' = up \cup {c}
  /\ opened' = opened \cup {c}
  /\ Exchanged(c, <<Plain("connection.open")>>, <<Plain("connection.open-ok")>>)
  /\ UNCHANGED <<exists, consuming, unsure, ops, topo, cleared>>

Method(e, verb) ==
  CASE e \in Queues /\ verb = "declare" -> Named("queue.declare", e)
    [] e \in Queues /\ verb = "delete" -> Named("queue.delete", e)
    [] e \in Exchanges /\ verb = "declare" -> Named("exchange.declare", e)
    [] e \in Exchanges /\ verb = "delete" -> Named("exchange.delete", e)

Confirm(e, verb) ==
  CASE e \in Queues /\ verb = "declare" -> Plain("queue.declare-ok")
    [] e \in Queues /\ verb = "delete" -> Plain("queue.delete-ok")
    [] e \in Exchanges /\ verb = "declare" -> Plain("exchange.declare-ok")
    [] e \in Exchanges /\ verb = "delete" -> Plain("exchange.delete-ok")

Refused(code) == <<Coded("channel.close", code, {})>>

\* Declaring what exists with other flags is refused and changes nothing.
Declare(c, e, flags) ==
  /\ Operation
  /\ c \in up
  /\ LET agreed == e \in DOMAIN exists => exists[e] = flags IN
       /\ exists' = IF agreed THEN [x \in DOMAIN exists \cup {e} |->
                                      IF x = e THEN flags ELSE exists[x]]
                              ELSE exists
       /\ Exchanged(c, <<[Method(e, "declare") EXCEPT !.marks = flags]>>,
                    IF agreed THEN <<Confirm(e, "declare")>> ELSE Refused(406))
       /\ Settles(e, Client(c), agreed)
  /\ UNCHANGED <<up, opened, consuming>>

\* A passive declaration asks whether a queue exists.
Check(c, q) ==
  /\ Operation
  /\ c \in up
  /\ Exchanged(c, <<[Method(q, "declare") EXCEPT !.marks = {"passive"}]>>,
               IF q \in DOMAIN exists THEN <<Confirm(q, "declare")>>
                                      ELSE Refused(404))
  /\ Settles(q, Client(c), FALSE)
  /\ UNCHANGED <<up, opened, exists, consuming>>

\* The broker tells the consumers of a deleted queue.
Cancelled(q, c) ==
  SetToSeq({Named("basic.cancel", k.tag) : k \in {l \in consuming :
                                             l.queue = q /\ l.conn = c}})

Delete(c, e) ==
  /\ Operation
  /\ c \in up
  /\ exists' = [x \in DOMAIN exists \ {e} |-> exists[x]]
  /\ consuming' = {k \in consuming : k.queue # e}
  /\ Send([s \in {Client(c)} \cup (up \X {"broker"}) |->
             IF s = Client(c) THEN <<Method(e, "delete")>>
             ELSE Cancelled(e, s[1]) \o
                  (IF s = Broker(c) THEN <<Confirm(e, "delete")>> ELSE <<>>)])
  /\ LET silenced == {k.tag : k \in {l \in consuming : l.queue = e}}
         overlap == \E s \in Streams \ {Client(c)} : Awaited(e, s)
     IN  unsure' = silenced \cup
                   (IF overlap THEN unsure \cup {e} ELSE unsure \ {e})
  /\ UNCHANGED <<up, opened>>

\* A deletion "if unused" of what is in use.
RefuseDelete(c, e) ==
  /\ Operation
  /\ c \in up
  /\ e \in DOMAIN exists
  /\ Exchanged(c, <<Method(e, "delete")>>, Refused(406))
  /\ Settles(e, Client(c), FALSE)
  /\ UNCHANGED <<up, opened, exists, consuming>>

\* Tags are the channel's: another connection may have a consumer of the same.
Consume(c, q, t) ==
  /\ Operation
  /\ c \in up
  /\ q \in DOMAIN exists
  /\ \A k \in consuming : ~(k.conn = c /\ k.tag = t)
  /\ consuming' = consuming \cup {[conn |-> c, tag |-> t, queue |-> q]}
  /\ Exchanged(c, <<[Named("basic.consume", q) EXCEPT !.tag = t]>>,
               <<Plain("basic.consume-ok")>>)
  /\ Settles(t, Client(c), \A k \in consuming : k.tag # t)
  /\ UNCHANGED <<up, opened, exists>>

Cancel(c, t) ==
  /\ Operation
  /\ c \in up
  /\ \E k \in consuming : k.conn = c /\ k.tag = t
  /\ consuming' = {k \in consuming : ~(k.conn = c /\ k.tag = t)}
  /\ Exchanged(c, <<Named("basic.cancel", t)>>, <<Plain("basic.cancel-ok")>>)
  /\ Settles(t, Client(c), \A k \in consuming : k.tag = t => k.conn = c)
  /\ UNCHANGED <<up, opened, exists>>

\* A connection ends, and its consumers with it.
Ends(c) ==
  /\ Operation
  /\ c \in up
  /\ up' = up \ {c}
  /\ consuming' = {k \in consuming : k.conn # c}
  /\ UNCHANGED <<opened, exists, unsure>>

Close(c) ==
  /\ Ends(c)
  /\ Exchanged(c, <<Coded("connection.close", 200, {})>>,
               <<Plain("connection.close-ok")>>)

Fault(c, m) ==
  /\ Ends(c)
  /\ Exchanged(c, <<Plain("connection.close-ok")>>, <<m>>)

\* The TCP connection breaks.
Drop(c) == Ends(c) /\ UNCHANGED pipe

\* A queue is created in the management UI.
Manage(q) ==
  /\ Operation
  /\ exists' = [x \in DOMAIN exists \cup {q} |->
                  IF x \in DOMAIN exists THEN exists[x] ELSE {}]
  /\ Send([s \in {Api} |-> <<[Named("http.request", q)
                                EXCEPT !.marks = {"PUT", "/api/queues/"}]>>])
  /\ Settles(q, Api, FALSE)
  /\ UNCHANGED <<up, opened, consuming>>

\* Who says a method or message that changes nothing at the broker.  The probe tells
\* the streams apart by their port: methods are only looked for on connections, and
\* requests and responses only at the management API.
OfApi == {"http.request", "http.response"}
OfBroker(m) == \/ m.name \in {"connection.start", "connection.tune", "connection.blocked",
                              "connection.unblocked", "basic.return"}
               \/ m.name = "channel.close" /\ m.code # 200

Says(s, m) == IF m.name \in OfApi THEN s = Api
              ELSE \E c \in up : s = Broker(c) \/ (s = Client(c) /\ ~OfBroker(m))

\* Anything else that is said.  To bound the states, it is said when all before it
\* has been handled.
Notice(s, m) ==
  /\ Operation
  /\ Behind = 0
  /\ Says(s, m)
  /\ Send([t \in {s} |-> <<m>>])
  /\ UNCHANGED <<up, opened, exists, consuming, unsure>>

-----------------------------------------------------------------------------
\* The broker may have queues and exchanges before the probe starts.
Init ==
  /\ up = {} /\ opened = {} /\ consuming = {}
  /\ unsure \in SUBSET Entities
  /\ exists = [e \in unsure |-> {}]
  /\ pipe = [s \in Streams |-> <<>>]
  /\ ops = 0
  /\ entities = <<>> /\ consumers = <<>> /\ connections = <<>>
  /\ cleared = FALSE

ControlPlane == Clear \/ \E s \in Streams : Handle(s)

ClientStep(c) ==
  \/ Open(c) \/ Close(c) \/ Drop(c)
  \/ \E m \in Faults : Fault(c, m)
  \/ \E e \in Entities : Delete(c, e) \/ RefuseDelete(c, e)
  \/ \E q \in Queues, flags \in Flags : Declare(c, q, flags)
  \/ \E x \in Exchanges : Declare(c, x, {})
  \/ \E q \in Queues : Check(c, q) \/ \E t \in Tags : Consume(c, q, t)
  \/ \E t \in Tags : Cancel(c, t)

World ==
  \/ \E c \in Conns : ClientStep(c)
  \/ \E q \in Queues : Manage(q)
  \/ \E s \in Streams, m \in Notices : Notice(s, m)

Next == ControlPlane \/ World
Spec == Init /\ [][Next]_vars

-----------------------------------------------------------------------------
(* Properties.                                                             *)

Flagged == SUBSET {"durable", "exclusive", "auto-delete"}

\* Entries have names and flags, consumers have a tag or the key made up
\* for want of one, and at most MaxShown connections are listed.
TypeOK ==
  /\ \E known \in SUBSET Entities :
       entities \in [known -> [active : BOOLEAN, marks : Flagged]]
  /\ \E known \in SUBSET ConsumerKeys :
       consumers \in [known -> [active : BOOLEAN, queue : Queues \cup {NoName},
                                exclusive : BOOLEAN]]
  /\ connections \in Seq(BOOLEAN) /\ Len(connections) <= MaxShown

Shown(x, table) == x \in DOMAIN table /\ table[x].active
Said(x) == \A s \in Streams : ~Awaited(x, s)

\* What the broker deleted is not shown, and what it has is shown with its
\* flags, once all that was said about it is handled: through deletions,
\* new declarations and refusals, in any order of the streams that the
\* broker's own order does not exclude.  (updateTopologyFromAlert.)
EntitiesAgree ==
  \A e \in Entities \ unsure : Said(e) =>
    /\ Shown(e, entities) => e \in DOMAIN exists
    /\ e \in DOMAIN exists /\ ~cleared =>
         Shown(e, entities) /\ (e \in Queues => exists[e] \subseteq entities[e].marks)

\* A consumer that the broker has is shown active, on its queue, also when
\* its tag was used, cancelled or taken over from a connection that ended.
ConsumersShown ==
  \A k \in consuming : k.tag \notin unsure /\ Said(k.tag) /\ ~cleared =>
    /\ Shown(k.tag, consumers)
    /\ consumers[k.tag].queue = k.queue

\* The list never shows fewer active connections than are open, although a
\* close names none, as long as no more were opened than are listed.
ConnectionsCovered ==
  /\ \A s \in Streams : pipe[s] = <<>>
  /\ ~cleared
  /\ Cardinality(opened) <= MaxShown
  => Cardinality(up) <= Cardinality({i \in DOMAIN connections : connections[i]})

\* The dashboard's catalogue of rules (App.tsx, RULES): trigger, id, severity.
\* Rule 2.3 is left out: its trigger is another reply code than the engine's.
ConnectionRows ==
  { <<"connection.close", 403, "", "1.1", "error">>,
    <<"connection.close", 320, "heartbeat", "1.2", "error">>,
    <<"connection.close", 320, "connection_limit", "1.3", "error">>,
    <<"connection.blocked", 0, "memory", "2.1", "warn">>,
    <<"connection.blocked", 0, "disk", "2.2", "warn">>,
    <<"connection.close", 501, "", "3.4", "error">>,
    <<"connection.close", 406, "delivery_acknowledgement", "4.1", "error">> }

ChannelRows ==
  { <<"channel.close", 406, "", "3.1", "error">>,
    <<"channel.close", 404, "", "3.3", "error">>,
    <<"channel.close", 501, "", "3.4", "error">> }

OtherRows ==
  { <<"basic.return", 312, "", "3.2", "warn">>,
    <<"basic.reject", 0, "", "4.3", "warn">>,
    <<"basic.nack", 0, "", "4.4", "warn">>,
    <<"http.response", 401, "", "5.1", "error">>,
    <<"http.response", 403, "", "5.1", "error">> }

Catalogue == ConnectionRows \cup ChannelRows \cup OtherRows

Triggers(row, m) ==
  /\ m.parsed /\ m.name = row[1] /\ m.code = row[2]
  /\ row[3] # "" => m.marks = {row[3]}

InFlight == UNION {{pipe[s][i] : i \in DOMAIN pipe[s]} : s \in Streams}

\* What the dashboard's catalogue says triggers a rule raises that rule, at
\* the severity the catalogue gives it, whatever other rule might match.
CatalogueHolds ==
  \A m \in InFlight, row \in Catalogue : Triggers(row, m) =>
    Evaluate(m).id = row[4] /\ Evaluate(m).severity = row[5]

\* A consumer that took too long to acknowledge is reported under rule 4.1
\* also when the broker closes the channel for it (engine.go:481).
AckTimeoutNamed ==
  \A m \in InFlight :
    m.name = "channel.close" /\ m.code = 406 /\ "delivery_acknowledgement" \in m.marks
    => Evaluate(m).id = "4.1"
-----------------------------------------------------------------------------
(* The inductive invariant                                                 *)

\* What the operations say that states nothing about an entity or a consumer.
Idle ==
  Notices \cup Faults
  \cup {Plain(name) : name \in {"connection.open", "connection.open-ok", "connection.close-ok",
                                "queue.declare-ok", "queue.delete-ok", "exchange.declare-ok",
                                "exchange.delete-ok", "basic.consume-ok", "basic.cancel-ok"}}
  \cup {Coded("connection.close", 200, {})}
  \cup {Coded("channel.close", code, {}) : code \in {404, 406}}
  \cup {[Named("http.request", q) EXCEPT !.marks = {"PUT", "/api/queues/"}] : q \in Queues}

\* All that is ever said.
Sayable ==
  Idle
  \cup {[Method(e, "declare") EXCEPT !.marks = marks] :
          e \in Entities, marks \in Flagged \cup {{"passive"}}}
  \cup {Method(e, "delete") : e \in Entities}
  \cup {[Named("basic.consume", q) EXCEPT !.tag = t] : q \in Queues, t \in Tags}
  \cup {Named("basic.cancel", t) : t \in Tags}

WorldTypeOK ==
  /\ up \subseteq opened /\ opened \subseteq Conns /\ IsFiniteSet(opened)
  /\ \E known \in SUBSET Entities : exists \in [known -> Flagged]
  /\ consuming \subseteq Consumers /\ IsFiniteSet(consuming)
  /\ pipe \in [Streams -> Seq(Sayable)]

\* The i-th method of stream s is the last of it about x.
LastWord(x, s, i) ==
  /\ Subject(pipe[s][i]) = x
  /\ \A j \in DOMAIN pipe[s] : j > i => Subject(pipe[s][j]) # x

SaysEntity(m, e) ==
  IF e \in DOMAIN exists
    THEN m.name \in Declaring /\ (e \in Queues => m.name = "queue.declare" /\ m.marks = exists[e])
    ELSE m.name \in Deleting

SaysConsumers(m, t) ==
  \A k \in consuming : k.tag = t => m.name = "basic.consume" /\ m.entity = k.queue

\* Whichever stream is handled last, it ends with what the broker has.
EntityWordsHold ==
  \A e \in Entities \ unsure, s \in Streams : \A i \in DOMAIN pipe[s] :
    LastWord(e, s, i) => SaysEntity(pipe[s][i], e)

ConsumerWordsHold ==
  \A t \in Tags \ unsure, s \in Streams : \A i \in DOMAIN pipe[s] :
    LastWord(t, s, i) => SaysConsumers(pipe[s][i], t)

Opening == {c \in opened : \E i \in DOMAIN pipe[Client(c)] :
                              pipe[Client(c)][i].name = "connection.open"}

\* The i-th method of stream s closes the connection c.
Closes(c, s, i) == /\ s \in {Client(c), Broker(c)} /\ i \in DOMAIN pipe[s]
                   /\ pipe[s][i].name = "connection.close"

Closing == {c \in opened : \E s \in Streams : \E i \in DOMAIN pipe[s] : Closes(c, s, i)}

\* A connection is closed at most once, by a method of either side.
ClosedOnce ==
  /\ \A i \in DOMAIN pipe[Api] : pipe[Api][i].name # "connection.close"
  /\ \A c \in Conns : \A s, t \in Streams : \A i \in DOMAIN pipe[s], j \in DOMAIN pipe[t] :
       Closes(c, s, i) /\ Closes(c, t, j) => c \in opened \ up /\ s = t /\ i = j

\* No entry is inactive without a connection that has ended, and the list is as long
\* as it can be with what has been opened.
EntriesCount ==
  /\ Cardinality({i \in DOMAIN connections : ~connections[i]}) + Cardinality(Closing)
       + Cardinality(up) <= Cardinality(opened)
  /\ \/ cleared \/ Len(connections) = MaxShown
     \/ Cardinality(opened) <= Len(connections) + Cardinality(Opening)

TopologyInv == /\ TypeOK /\ WorldTypeOK /\ ClosedOnce /\ EntriesCount
               /\ EntityWordsHold /\ EntitiesAgree
               /\ ConsumerWordsHold /\ ConsumersShown
=============================================================================
