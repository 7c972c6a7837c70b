----------------------------- MODULE MCTopology -----------------------------
(* Small brokers for Topology.                                             *)
EXTENDS Topology, TLC

CONSTANTS c1, c2, q1, x1, t1

FlagSets == {{}, {"durable"}}

\* The closes of the catalogue of rules, and one that it does not have.
CloseMethods == {Coded("connection.close", 541, {}),
                 Coded("connection.close", 403, {}),
                 Coded("connection.close", 320, {"heartbeat"}),
                 Coded("connection.close", 320, {"connection_limit"}),
                 Coded("connection.close", 501, {}),
                 Coded("connection.close", 406, {"delivery_acknowledgement"})}

\* The other methods and responses of the catalogue.
Reported == {Coded("connection.blocked", 0, {"memory"}),
             Coded("connection.blocked", 0, {"disk"}),
             Coded("channel.close", 406, {}),
             Coded("channel.close", 404, {}),
             Coded("channel.close", 501, {}),
             Coded("basic.return", 312, {}),
             Plain("basic.reject"),
             Plain("basic.nack"),
             Coded("http.response", 401, {}),
             Coded("http.response", 403, {})}

\* RabbitMQ closes a channel whose consumer did not acknowledge in time.
AckTimeout == {Coded("channel.close", 406, {"delivery_acknowledgement"})}

Symmetry == Permutations(Conns)
=============================================================================
