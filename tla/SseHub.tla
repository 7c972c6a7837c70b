------------------------------- MODULE SseHub -------------------------------
(***************************************************************************)
(* The server-sent-events hub of the control plane                         *)
(* (internal/controlplane/server.go): the goroutines of handleEventsSSE,   *)
(* one per dashboard, and the goroutines that call broadcastAlert, share   *)
(* the map s.clients under the RWMutex s.clientsMu, and one buffered Go    *)
(* channel per dashboard.                                                  *)
(*                                                                         *)
(* Every step that another goroutine can see is an action of its own.      *)
(* A broadcaster only holds the read lock, so several are in the loop at   *)
(* once; the code nevertheless closes channels and deletes map entries     *)
(* there.  External pieces are modelled by what Go promises of them:       *)
(*  - sync.RWMutex: a waiting writer keeps new readers out (writer);       *)
(*  - close of a closed channel, send on a closed channel: panic, deferred *)
(*    calls run; net/http recovers a panic of a request's goroutine, and a *)
(*    panic of any other goroutine ends the process;                       *)
(*  - a map written while another goroutine iterates over or writes it:    *)
(*    a data race, either unnoticed or a fatal error of the process.       *)
(***************************************************************************)
EXTENDS Naturals, Sequences

CONSTANTS Clients,     \* one element per GET /api/events request
          Posters,     \* broadcasts made by a request's goroutine
          Diagnosers,  \* broadcasts made by the goroutine triggerAI starts
          Tenants,
          TenantOf,    \* tenant of each client and of each broadcast alert
          Cap,         \* capacity of a client's channel (100 in the code)
          NoClient

Broadcasters == Posters \union Diagnosers

ASSUME HubAssumption ==
  /\ NoClient \notin Clients
  /\ Posters \intersect Diagnosers = {}
  /\ TenantOf \in [Clients \union Broadcasters -> Tenants]
  /\ Cap \in Nat \ {0}

VARIABLES
  registered,  \* keys of s.clients
  buf,         \* buf[c]: what waits in c's channel
  closed,      \* closed[c]: c's channel is closed
  handler,     \* handler[c]: where handleEventsSSE is for c
  got,         \* got[c]: what the handler of c has taken from the channel
  writer,      \* the handler whose clientsMu.Lock() is pending
  readers,     \* broadcasters that hold clientsMu.RLock()
  bpc,         \* bpc[b]: where broadcastAlert is for b
  todo,        \* todo[b]: keys the range loop of b has not visited
  at,          \* at[b]: the key b is working on
  targets,     \* history: the clients of its tenant when b took the lock
  crashed      \* the process was ended by the Go runtime

clientVars == <<handler, got>>
castVars   == <<bpc, todo, at, targets>>
vars == <<registered, buf, closed, handler, got, writer, readers,
          bpc, todo, at, targets, crashed>>

HandlerStates == {"new", "opening", "serving", "leaving", "closing",
                  "done", "panicked"}
CastStates == {"idle", "loop", "select", "full", "dropping", "done", "panicked"}

\* Broadcasters between RLock and the deferred RUnlock.
InLoop == {"loop", "select", "full", "dropping"}

SameTenant(b) == {c \in Clients : TenantOf[c] = TenantOf[b]}

Init ==
  /\ registered = {}
  /\ buf = [c \in Clients |-> <<>>]
  /\ closed = [c \in Clients |-> FALSE]
  /\ handler = [c \in Clients |-> "new"]
  /\ got = [c \in Clients |-> <<>>]
  /\ writer = NoClient
  /\ readers = {}
  /\ bpc = [b \in Broadcasters |-> "idle"]
  /\ todo = [b \in Broadcasters |-> {}]
  /\ at = [b \in Broadcasters |-> NoClient]
  /\ targets = [b \in Broadcasters |-> {}]
  /\ crashed = FALSE

-----------------------------------------------------------------------------
(* Mutants: forms of the actions below with a bug that the properties at the *)
(* end of the module are there to exclude.  No specification uses them.      *)

\* A handler leaves the map without the write lock.
UnregisterUnlocked(c) ==
  /\ ~crashed /\ handler[c] = "leaving" /\ writer = c
  /\ registered' = registered \ {c}
  /\ handler' = [handler EXCEPT ![c] = "closing"]
  /\ writer' = NoClient
  /\ UNCHANGED <<buf, closed, got, readers, castVars, crashed>>

\* The tenant test of the loop is missing.
StartBroadcastAnyTenant(b) ==
  /\ ~crashed /\ bpc[b] = "idle" /\ writer = NoClient
  /\ readers' = readers \union {b}
  /\ bpc' = [bpc EXCEPT ![b] = "loop"]
  /\ todo' = [todo EXCEPT ![b] = registered]
  /\ targets' = [targets EXCEPT ![b] = registered]
  /\ UNCHANGED <<registered, buf, closed, clientVars, writer, at, crashed>>

\* The channel has no bound.
SendUnbounded(b) ==
  /\ ~crashed /\ bpc[b] = "select" /\ ~closed[at[b]]
  /\ buf' = [buf EXCEPT ![at[b]] = Append(@, b)]
  /\ bpc' = [bpc EXCEPT ![b] = "loop"]
  /\ at' = [at EXCEPT ![b] = NoClient]
  /\ UNCHANGED <<registered, closed, clientVars, writer, readers, todo, targets, crashed>>

\* The alert a full channel has no room for is skipped, the client kept.
FindFullSkips(b) ==
  /\ ~crashed /\ bpc[b] = "select" /\ ~closed[at[b]] /\ Len(buf[at[b]]) = Cap
  /\ bpc' = [bpc EXCEPT ![b] = "loop"]
  /\ at' = [at EXCEPT ![b] = NoClient]
  /\ UNCHANGED <<registered, buf, closed, clientVars, writer, readers, todo,
                 targets, crashed>>

\* The loop tries the full channel again until it has room.
FindFullRetries(b) ==
  /\ ~crashed /\ bpc[b] = "select" /\ ~closed[at[b]] /\ Len(buf[at[b]]) = Cap
  /\ bpc' = [bpc EXCEPT ![b] = "loop"]
  /\ todo' = [todo EXCEPT ![b] = @ \union {at[b]}]
  /\ at' = [at EXCEPT ![b] = NoClient]
  /\ UNCHANGED <<registered, buf, closed, clientVars, writer, readers, targets, crashed>>

\* Any waiting alert counts as a full channel, even none.
FindFullEarly(b) ==
  /\ ~crashed /\ bpc[b] = "select" /\ ~closed[at[b]]
  /\ bpc' = [bpc EXCEPT ![b] = "full"]
  /\ UNCHANGED <<registered, buf, closed, clientVars, writer, readers, todo, at,
                 targets, crashed>>

\* The slow client is closed and stays a key of the map.
RemoveSlowForgets(b) ==
  /\ ~crashed /\ bpc[b] = "dropping"
  /\ bpc' = [bpc EXCEPT ![b] = "loop"]
  /\ at' = [at EXCEPT ![b] = NoClient]
  /\ UNCHANGED <<registered, buf, closed, clientVars, writer, readers, todo,
                 targets, crashed>>

-----------------------------------------------------------------------------
(* handleEventsSSE *)

\* A dashboard opens the stream; the handler makes its channel.
Connect(c) ==
  /\ ~crashed
  /\ handler[c] = "new"
  /\ handler' = [handler EXCEPT ![c] = "opening"]
  /\ UNCHANGED <<registered, buf, closed, got, writer, readers, castVars, crashed>>

\* clientsMu.Lock(), to register or, in the deferred function, to unregister.
Lock(c) ==
  /\ ~crashed
  /\ handler[c] \in {"opening", "leaving"}
  /\ writer = NoClient
  /\ writer' = c
  /\ UNCHANGED <<registered, buf, closed, clientVars, readers, castVars, crashed>>

Register(c) ==
  /\ ~crashed
  /\ writer = c /\ readers = {}
  /\ handler[c] = "opening"
  /\ registered' = registered \union {c}
  /\ handler' = [handler EXCEPT ![c] = "serving"]
  /\ writer' = NoClient
  /\ UNCHANGED <<buf, closed, got, readers, castVars, crashed>>

\* An alert is taken from the channel and written to the dashboard.  The write
\* has no deadline: it may never return, so this step has no fairness.
Receive(c) ==
  /\ ~crashed
  /\ handler[c] = "serving"
  /\ buf[c] # <<>>
  /\ got' = [got EXCEPT ![c] = Append(@, Head(buf[c]))]
  /\ buf' = [buf EXCEPT ![c] = Tail(@)]
  /\ UNCHANGED <<registered, closed, handler, writer, readers, castVars, crashed>>

\* alert, ok := <-clientChan with ok false: closed, and drained.
ObserveClosed(c) ==
  /\ ~crashed
  /\ handler[c] = "serving"
  /\ closed[c] /\ buf[c] = <<>>
  /\ handler' = [handler EXCEPT ![c] = "leaving"]
  /\ UNCHANGED <<registered, buf, closed, got, writer, readers, castVars, crashed>>

\* The request's context is done.
Disconnect(c) ==
  /\ ~crashed
  /\ handler[c] = "serving"
  /\ handler' = [handler EXCEPT ![c] = "leaving"]
  /\ UNCHANGED <<registered, buf, closed, got, writer, readers, castVars, crashed>>

Unregister(c) ==
  /\ ~crashed
  /\ writer = c /\ readers = {}
  /\ handler[c] = "leaving"
  /\ registered' = registered \ {c}
  /\ handler' = [handler EXCEPT ![c] = "closing"]
  /\ writer' = NoClient
  /\ UNCHANGED <<buf, closed, got, readers, castVars, crashed>>

\* The deferred close(clientChan), after the lock is released.
CloseOwn(c) ==
  /\ ~crashed
  /\ handler[c] = "closing"
  /\ closed' = [closed EXCEPT ![c] = TRUE]
  /\ handler' = [handler EXCEPT ![c] = IF closed[c] THEN "panicked" ELSE "done"]
  /\ UNCHANGED <<registered, buf, got, writer, readers, castVars, crashed>>

-----------------------------------------------------------------------------
(* broadcastAlert *)

\* clientsMu.RLock(), and the range over s.clients starts.
StartBroadcast(b) ==
  /\ ~crashed
  /\ bpc[b] = "idle"
  /\ writer = NoClient
  /\ readers' = readers \union {b}
  /\ bpc' = [bpc EXCEPT ![b] = "loop"]
  /\ todo' = [todo EXCEPT ![b] = registered \intersect SameTenant(b)]
  /\ targets' = [targets EXCEPT ![b] = registered \intersect SameTenant(b)]
  /\ UNCHANGED <<registered, buf, closed, clientVars, writer, at, crashed>>

\* The loop takes its next key; an entry deleted before it was reached is not
\* produced.
Visit(b) ==
  /\ ~crashed
  /\ bpc[b] = "loop"
  /\ \E c \in todo[b] \intersect registered :
       /\ at' = [at EXCEPT ![b] = c]
       /\ todo' = [todo EXCEPT ![b] = @ \ {c}]
  /\ bpc' = [bpc EXCEPT ![b] = "select"]
  /\ UNCHANGED <<registered, buf, closed, clientVars, writer, readers, targets, crashed>>

\* case ch <- alert
Send(b) ==
  /\ ~crashed
  /\ bpc[b] = "select"
  /\ ~closed[at[b]] /\ Len(buf[at[b]]) < Cap
  /\ buf' = [buf EXCEPT ![at[b]] = Append(@, b)]
  /\ bpc' = [bpc EXCEPT ![b] = "loop"]
  /\ at' = [at EXCEPT ![b] = NoClient]
  /\ UNCHANGED <<registered, closed, clientVars, writer, readers, todo, targets, crashed>>

\* default: the channel is full.
FindFull(b) ==
  /\ ~crashed
  /\ bpc[b] = "select"
  /\ ~closed[at[b]] /\ Len(buf[at[b]]) = Cap
  /\ bpc' = [bpc EXCEPT ![b] = "full"]
  /\ UNCHANGED <<registered, buf, closed, clientVars, writer, readers, todo, at,
                 targets, crashed>>

\* close(ch) of an open channel.  Nothing stopped the dashboard from draining
\* the channel since it was found full.
CloseSlow(b) ==
  /\ ~crashed
  /\ bpc[b] = "full"
  /\ ~closed[at[b]]
  /\ closed' = [closed EXCEPT ![at[b]] = TRUE]
  /\ bpc' = [bpc EXCEPT ![b] = "dropping"]
  /\ UNCHANGED <<registered, buf, clientVars, writer, readers, todo, at, targets, crashed>>

\* delete(s.clients, ch)
RemoveSlow(b) ==
  /\ ~crashed
  /\ bpc[b] = "dropping"
  /\ registered' = registered \ {at[b]}
  /\ bpc' = [bpc EXCEPT ![b] = "loop"]
  /\ at' = [at EXCEPT ![b] = NoClient]
  /\ UNCHANGED <<buf, closed, clientVars, writer, readers, todo, targets, crashed>>

\* The same delete, noticed by the runtime as a concurrent map access.
MapRace(b) ==
  /\ ~crashed
  /\ bpc[b] = "dropping"
  /\ \E o \in readers \ {b} : bpc[o] \in {"loop", "dropping"}
  /\ crashed' = TRUE
  /\ UNCHANGED <<registered, buf, closed, clientVars, writer, readers, castVars>>

\* Send on, or close of, a channel that another broadcaster has closed.  The
\* deferred RUnlock runs; only a request's goroutine is recovered.
Panic(b) ==
  /\ ~crashed
  /\ bpc[b] \in {"select", "full"}
  /\ closed[at[b]]
  /\ bpc' = [bpc EXCEPT ![b] = "panicked"]
  /\ at' = [at EXCEPT ![b] = NoClient]
  /\ todo' = [todo EXCEPT ![b] = {}]
  /\ readers' = readers \ {b}
  /\ crashed' = (b \in Diagnosers)
  /\ UNCHANGED <<registered, buf, closed, clientVars, writer, targets>>

\* The range ends; the deferred RUnlock runs.
Finish(b) ==
  /\ ~crashed
  /\ bpc[b] = "loop"
  /\ todo[b] \intersect registered = {}
  /\ bpc' = [bpc EXCEPT ![b] = "done"]
  /\ todo' = [todo EXCEPT ![b] = {}]
  /\ readers' = readers \ {b}
  /\ UNCHANGED <<registered, buf, closed, clientVars, writer, at, targets, crashed>>

\* Nothing is left to do: every goroutine of the model has ended, or the
\* process has.  Any other state without a step is a deadlock.
Terminated ==
  /\ \/ crashed
     \/ /\ \A c \in Clients : handler[c] \in {"done", "panicked"}
        /\ \A b \in Broadcasters : bpc[b] \in {"done", "panicked"}
  /\ UNCHANGED vars

-----------------------------------------------------------------------------
LockStep(c) == Lock(c) \/ Register(c) \/ Unregister(c) \/ CloseOwn(c)

CastStep(b) == \/ StartBroadcast(b) \/ Visit(b) \/ Send(b) \/ FindFull(b)
               \/ CloseSlow(b) \/ RemoveSlow(b) \/ MapRace(b) \/ Panic(b)
               \/ Finish(b)

Next == \/ \E c \in Clients : \/ Connect(c) \/ Receive(c) \/ ObserveClosed(c)
                              \/ Disconnect(c) \/ LockStep(c)
        \/ \E b \in Broadcasters : CastStep(b)
        \/ Terminated

\* The Go scheduler runs every goroutine that can run.  Dashboards owe nothing:
\* they may never connect, read or leave.
Fairness == /\ \A c \in Clients : WF_vars(LockStep(c))
            /\ \A b \in Broadcasters : WF_vars(CastStep(b))

Spec == Init /\ [][Next]_vars
FairSpec == Spec /\ Fairness
-----------------------------------------------------------------------------
(* Properties *)

\* What has reached client c: taken by its handler, or waiting in its channel.
Offered(c) == got[c] \o buf[c]

OfferedTo(c) == {Offered(c)[i] : i \in DOMAIN Offered(c)}

\* Types, and the bound that make(chan *rules.Alert, 100) puts on a channel.
TypeOK ==
  /\ registered \in SUBSET Clients
  /\ buf \in [Clients -> Seq(Broadcasters)]
  /\ \A c \in Clients : Len(buf[c]) <= Cap
  /\ closed \in [Clients -> BOOLEAN]
  /\ handler \in [Clients -> HandlerStates]
  /\ got \in [Clients -> Seq(Broadcasters)]
  /\ writer \in Clients \union {NoClient}
  /\ readers \in SUBSET Broadcasters
  /\ bpc \in [Broadcasters -> CastStates]
  /\ todo \in [Broadcasters -> SUBSET Clients]
  /\ at \in [Broadcasters -> Clients \union {NoClient}]
  /\ targets \in [Broadcasters -> SUBSET Clients]
  /\ crashed \in BOOLEAN

\* The read lock is held by exactly the broadcasters inside the range loop,
\* those that panicked included in neither, and a pending Lock() belongs to a
\* handler that is entering or leaving the map.
LockDiscipline ==
  /\ readers = {b \in Broadcasters : bpc[b] \in InLoop}
  /\ writer # NoClient => handler[writer] \in {"opening", "leaving"}

\* A client's channel only ever holds alerts of the client's tenant, whichever
\* broadcasters and registrations interleave.
TenantIsolation ==
  \A c \in Clients : \A b \in OfferedTo(c) : TenantOf[b] = TenantOf[c]

\* A channel that a broadcaster has closed is only still a key of s.clients
\* while that broadcaster is between close(ch) and delete(s.clients, ch).
ClosedRegistered ==
  \A c \in registered : closed[c] =>
     \E b \in readers : bpc[b] = "dropping" /\ at[b] = c

\* A broadcast that ran to the end has reached every client of its tenant that
\* was registered when it took the lock, except those that left or were dropped.
NoSilentLoss ==
  \A b \in Broadcasters : bpc[b] = "done" =>
     \A c \in targets[b] : b \in OfferedTo(c) \/ closed[c] \/ c \notin registered

\* A client whose handler is still serving it is only dropped after a whole
\* channel of alerts was queued for it.
DropOnlyAfterFull ==
  \A c \in Clients : handler[c] = "serving" /\ closed[c] => Len(Offered(c)) >= Cap

\* Every broadcast ends, whatever the dashboards do: no dashboard that stops
\* reading can hold up the request or the diagnosis that broadcasts.
BroadcastEnds ==
  \A b \in Broadcasters : <>(bpc[b] \in {"done", "panicked"} \/ crashed)

\* A handler that wants to leave gets the write lock and ends.
HandlerExits ==
  \A c \in Clients : handler[c] = "leaving" ~>
                        (handler[c] \in {"done", "panicked"} \/ crashed)

\* The hub implements the promise of AlertFeed: a client is live while its
\* channel is registered and open; what a broadcaster still owes is what it has
\* not visited and what it is working on, of the clients whose channel is open.
FeedSub == [c \in Clients |->
  IF closed[c] \/ handler[c] = "closing" THEN "cut"
  ELSE IF c \in registered THEN "live" ELSE "off"]

FeedPhase == [b \in Broadcasters |->
  CASE bpc[b] \in InLoop    -> "out"
    [] bpc[b] = "panicked"  -> "aborted"
    [] OTHER                -> bpc[b]]

FeedOwed == [b \in Broadcasters |->
  {c \in Clients : /\ ~closed[c]
                   /\ c \in todo[b] \/ (bpc[b] \in {"select", "full"} /\ at[b] = c)}]

Feed == INSTANCE AlertFeed WITH
          Alerts <- Broadcasters, sub <- FeedSub, inbox <- buf,
          phase <- FeedPhase, owed <- FeedOwed

RefinesFeed == Feed!Spec

\* "broadcastAlert sends an alert to all SSE clients in the same tenant"
\* (server.go:326): once the call is over, however it ended, every client of
\* the tenant that was registered then and still is has been sent the alert.
AllClientsSent ==
  \A b \in Broadcasters : bpc[b] \in {"done", "panicked"} =>
     \A c \in targets[b] : b \in OfferedTo(c) \/ closed[c] \/ c \notin registered
-----------------------------------------------------------------------------
(* The inductive invariant behind the safety properties *)

\* The clients a broadcaster still has to deal with.
Pending(b) == todo[b] \union ({at[b]} \ {NoClient})

\* A broadcaster works on a key exactly in the body of its loop, and has nothing
\* to visit outside it.
LoopShape ==
  \A b \in Broadcasters :
     /\ (at[b] # NoClient) <=> (bpc[b] \in {"select", "full", "dropping"})
     /\ bpc[b] \notin InLoop => todo[b] = {}
     /\ at[b] \notin todo[b]
     /\ Pending(b) \subseteq targets[b]
     /\ targets[b] \subseteq SameTenant(b)

\* Where the handler of a client is decides whether its channel is in the map
\* and whether it is open.
HandlerShape ==
  \A c \in Clients :
     /\ handler[c] \in {"new", "opening"} => c \notin registered /\ ~closed[c]
     /\ handler[c] \in {"serving", "leaving"} => c \in registered \/ closed[c]
     /\ handler[c] = "closing" => c \notin registered
     /\ handler[c] \in {"done", "panicked"} => c \notin registered /\ closed[c]

\* The write lock keeps a handler from unregistering or closing a channel that
\* some broadcaster has still to deal with.
PendingShape ==
  \A b \in Broadcasters :
     /\ \A c \in Pending(b) : handler[c] \in {"serving", "leaving"}
     /\ \A c \in targets[b] : handler[c] \notin {"new", "opening"}
     /\ bpc[b] = "dropping" => closed[at[b]]
     /\ bpc[b] = "full" => Len(Offered(at[b])) >= Cap

\* NoSilentLoss for the broadcasts that are under way.
NothingSkipped ==
  \A b \in Broadcasters : bpc[b] \in InLoop \union {"done"} =>
     \A c \in targets[b] : \/ c \in Pending(b)
                           \/ b \in OfferedTo(c)
                           \/ closed[c]
                           \/ c \notin registered

HubInv == /\ TypeOK
          /\ LockDiscipline
          /\ LoopShape
          /\ HandlerShape
          /\ PendingShape
          /\ ClosedRegistered
          /\ NothingSkipped
          /\ TenantIsolation
          /\ DropOnlyAfterFull
=============================================================================
