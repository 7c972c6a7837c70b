---------------------------- MODULE SseHubProofs ----------------------------
(***************************************************************************)
(* Proofs about SseHub, for every number of dashboards and broadcasters    *)
(* and every capacity.                                                     *)
(***************************************************************************)
EXTENDS SseHub, TLAPS

USE HubAssumption DEF HubAssumption

-----------------------------------------------------------------------------
(* Types and the lock *)

\* Every reachable state has the types of TypeOK; in particular no channel of
\* handleEventsSSE ever holds more than its capacity.
LEMMA TypeInit == Init => TypeOK
<1> SUFFICES ASSUME Init PROVE TypeOK
  OBVIOUS
<1> USE DEF Init, HandlerStates, CastStates
<1>1. <<>> \in Seq(Broadcasters) /\ Len(<<>>) = 0 /\ 0 <= Cap
  OBVIOUS
<1>2. buf \in [Clients -> Seq(Broadcasters)] /\ got \in [Clients -> Seq(Broadcasters)]
  BY <1>1
<1>3. \A c \in Clients : Len(buf[c]) <= Cap
  BY <1>1
<1> QED
  BY <1>2, <1>3 DEF TypeOK

\* TypeOK is inductive by itself.
LEMMA TypeStep == TypeOK /\ [Next]_vars => TypeOK'
<1> SUFFICES ASSUME TypeOK, [Next]_vars PROVE TypeOK'
  OBVIOUS
<1> USE DEF TypeOK, HandlerStates, CastStates, clientVars, castVars, Broadcasters
<1>1. ASSUME NEW c \in Clients, Connect(c) PROVE TypeOK'
  BY <1>1 DEF Connect
<1>2. ASSUME NEW c \in Clients, Lock(c) PROVE TypeOK'
  BY <1>2 DEF Lock
<1>3. ASSUME NEW c \in Clients, Register(c) PROVE TypeOK'
  BY <1>3 DEF Register
<1>4. ASSUME NEW c \in Clients, Receive(c) PROVE TypeOK'
  <2>1. /\ Head(buf[c]) \in Broadcasters
        /\ Tail(buf[c]) \in Seq(Broadcasters)
        /\ Len(Tail(buf[c])) <= Cap
    BY <1>4 DEF Receive
  <2>2. got' \in [Clients -> Seq(Broadcasters)]
    BY <1>4, <2>1 DEF Receive
  <2>3. /\ buf' \in [Clients -> Seq(Broadcasters)]
        /\ \A x \in Clients : Len(buf'[x]) <= Cap
    BY <1>4, <2>1 DEF Receive
  <2> QED
    BY <1>4, <2>2, <2>3 DEF Receive
<1>5. ASSUME NEW c \in Clients, ObserveClosed(c) PROVE TypeOK'
  BY <1>5 DEF ObserveClosed
<1>6. ASSUME NEW c \in Clients, Disconnect(c) PROVE TypeOK'
  BY <1>6 DEF Disconnect
<1>7. ASSUME NEW c \in Clients, Unregister(c) PROVE TypeOK'
  BY <1>7 DEF Unregister
<1>8. ASSUME NEW c \in Clients, CloseOwn(c) PROVE TypeOK'
  BY <1>8 DEF CloseOwn
<1>9. ASSUME NEW b \in Broadcasters, StartBroadcast(b) PROVE TypeOK'
  BY <1>9 DEF StartBroadcast, SameTenant
<1>10. ASSUME NEW b \in Broadcasters, Visit(b) PROVE TypeOK'
  BY <1>10 DEF Visit
<1>11. ASSUME NEW b \in Broadcasters, Send(b) PROVE TypeOK'
  <2>1. ASSUME NEW x \in Clients
        PROVE  /\ buf'[x] \in Seq(Broadcasters)
               /\ Len(buf'[x]) <= Cap
    <3>1. CASE x = at[b]
      <4>1. buf'[x] = Append(buf[x], b) /\ Len(buf[x]) < Cap
        BY <1>11, <3>1 DEF Send
      <4>2. Append(buf[x], b) \in Seq(Broadcasters)
            /\ Len(Append(buf[x], b)) = Len(buf[x]) + 1
        OBVIOUS
      <4> QED
        BY <4>1, <4>2
    <3>2. CASE x # at[b]
      BY <1>11, <3>2 DEF Send
    <3> QED
      BY <3>1, <3>2
  <2>2. buf' \in [Clients -> Seq(Broadcasters)]
    BY <1>11, <2>1 DEF Send
  <2> QED
    BY <1>11, <2>1, <2>2 DEF Send
<1>12. ASSUME NEW b \in Broadcasters, FindFull(b) PROVE TypeOK'
  BY <1>12 DEF FindFull
<1>13. ASSUME NEW b \in Broadcasters, CloseSlow(b) PROVE TypeOK'
  BY <1>13 DEF CloseSlow
<1>14. ASSUME NEW b \in Broadcasters, RemoveSlow(b) PROVE TypeOK'
  BY <1>14 DEF RemoveSlow
<1>15. ASSUME NEW b \in Broadcasters, MapRace(b) PROVE TypeOK'
  BY <1>15 DEF MapRace
<1>16. ASSUME NEW b \in Broadcasters, Panic(b) PROVE TypeOK'
  BY <1>16 DEF Panic
<1>17. ASSUME NEW b \in Broadcasters, Finish(b) PROVE TypeOK'
  BY <1>17 DEF Finish
<1>18. ASSUME UNCHANGED vars PROVE TypeOK'
  BY <1>18 DEF vars
<1> QED
  BY <1>1, <1>2, <1>3, <1>4, <1>5, <1>6, <1>7, <1>8, <1>9, <1>10, <1>11, <1>12,
     <1>13, <1>14, <1>15, <1>16, <1>17, <1>18
     DEF Next, LockStep, CastStep, Terminated

THEOREM TypeCorrect == Spec => []TypeOK
  BY TypeInit, TypeStep, PTL DEF Spec
-----------------------------------------------------------------------------
(* The inductive invariant *)

\* Taking the head of a channel moves an alert without losing or reordering it.
LEMMA TakeKeeps ==
  ASSUME NEW S, NEW s \in Seq(S), NEW t \in Seq(S), t # <<>>
  PROVE  Append(s, Head(t)) \o Tail(t) = s \o t
  OBVIOUS

\* A send puts the alert after everything its client was offered before.
LEMMA AppendLast ==
  ASSUME NEW S, NEW s \in Seq(S), NEW t \in Seq(S), NEW e \in S
  PROVE  s \o Append(t, e) = Append(s \o t, e)
  OBVIOUS

\* What a client was offered only changes when an alert is sent to it, and then
\* grows by that alert.
LEMMA OfferedStep ==
  ASSUME TypeOK, [Next]_vars, NEW c \in Clients
  PROVE  \/ Offered(c)' = Offered(c)
         \/ \E b \in Broadcasters : /\ Send(b) /\ at[b] = c
                                    /\ Offered(c)' = Append(Offered(c), b)
<1> USE DEF TypeOK, Offered
<1>1. ASSUME NEW x \in Clients, Receive(x) PROVE Offered(c)' = Offered(c)
  <2>1. CASE x = c
    <3>1. got'[c] = Append(got[c], Head(buf[c])) /\ buf'[c] = Tail(buf[c]) /\ buf[c] # <<>>
      BY <1>1, <2>1 DEF Receive
    <3>2. got[c] \in Seq(Broadcasters) /\ buf[c] \in Seq(Broadcasters)
      OBVIOUS
    <3>3. Append(got[c], Head(buf[c])) \o Tail(buf[c]) = got[c] \o buf[c]
      BY <3>1, <3>2, TakeKeeps, SMTT(30)
    <3> QED
      BY <3>1, <3>3
  <2>2. CASE x # c
    BY <1>1, <2>2 DEF Receive
  <2> QED
    BY <2>1, <2>2
<1>2. ASSUME NEW b \in Broadcasters, Send(b), at[b] = c
      PROVE  Offered(c)' = Append(Offered(c), b)
  <2>1. got'[c] = got[c] /\ buf'[c] = Append(buf[c], b)
    BY <1>2 DEF Send, clientVars
  <2> QED
    BY <2>1, AppendLast
<1>3. ASSUME NEW b \in Broadcasters, Send(b), at[b] # c
      PROVE  Offered(c)' = Offered(c)
  BY <1>3 DEF Send, clientVars
<1>4. ASSUME UNCHANGED <<buf, got>> PROVE Offered(c)' = Offered(c)
  BY <1>4
<1>5. \/ \E x \in Clients : Receive(x)
      \/ \E b \in Broadcasters : Send(b)
      \/ UNCHANGED <<buf, got>>
  BY DEF Next, LockStep, CastStep, Terminated, vars, clientVars, Connect, Lock,
         Register, ObserveClosed, Disconnect, Unregister, CloseOwn, StartBroadcast,
         Visit, FindFull, CloseSlow, RemoveSlow, MapRace, Panic, Finish
<1> QED
  BY <1>1, <1>2, <1>3, <1>4, <1>5

\* So nothing that a client was offered is ever taken back.
LEMMA OfferedGrows ==
  ASSUME TypeOK, TypeOK', [Next]_vars, NEW c \in Clients
  PROVE  /\ Offered(c) \in Seq(Broadcasters) /\ Offered(c)' \in Seq(Broadcasters)
         /\ Len(Offered(c)) <= Len(Offered(c)')
         /\ OfferedTo(c) \subseteq OfferedTo(c)'
<1>1. Offered(c) \in Seq(Broadcasters) /\ Offered(c)' \in Seq(Broadcasters)
  BY DEF TypeOK, Offered
<1>2. ASSUME NEW b \in Broadcasters, Offered(c)' = Append(Offered(c), b)
      PROVE  /\ Len(Offered(c)) <= Len(Offered(c)')
             /\ OfferedTo(c) \subseteq OfferedTo(c)'
  BY <1>1, <1>2 DEF OfferedTo
<1>3. ASSUME Offered(c)' = Offered(c)
      PROVE  /\ Len(Offered(c)) <= Len(Offered(c)')
             /\ OfferedTo(c) \subseteq OfferedTo(c)'
  BY <1>1, <1>3 DEF OfferedTo
<1> QED
  BY <1>1, <1>2, <1>3, OfferedStep

\* The set of what a client was offered grows at most by the alert being sent.
LEMMA OfferedToStep ==
  ASSUME TypeOK, TypeOK', [Next]_vars, NEW c \in Clients
  PROVE  \/ OfferedTo(c)' = OfferedTo(c)
         \/ \E b \in Broadcasters : /\ Send(b) /\ at[b] = c
                                    /\ OfferedTo(c)' = OfferedTo(c) \union {b}
<1>1. Offered(c) \in Seq(Broadcasters)
  BY OfferedGrows
<1>2. ASSUME NEW b \in Broadcasters, Offered(c)' = Append(Offered(c), b)
      PROVE  OfferedTo(c)' = OfferedTo(c) \union {b}
  BY <1>1, <1>2 DEF OfferedTo
<1>3. ASSUME Offered(c)' = Offered(c) PROVE OfferedTo(c)' = OfferedTo(c)
  BY <1>3 DEF OfferedTo
<1> QED
  BY <1>2, <1>3, OfferedStep

\* The facts about types, offers and tenants that every step below uses.
LEMMA Common ==
  ASSUME HubInv, [Next]_vars
  PROVE  /\ TypeOK'
         /\ TenantIsolation'
         /\ \A c \in Clients : /\ OfferedTo(c) \subseteq OfferedTo(c)'
                               /\ Len(Offered(c)) \in Nat /\ Len(Offered(c)') \in Nat
                               /\ Len(Offered(c)) <= Len(Offered(c)')
<1>1. TypeOK /\ TypeOK'
  BY TypeStep DEF HubInv
<1>2. ASSUME NEW c \in Clients
      PROVE  /\ OfferedTo(c) \subseteq OfferedTo(c)'
             /\ Len(Offered(c)) \in Nat /\ Len(Offered(c)') \in Nat
             /\ Len(Offered(c)) <= Len(Offered(c)')
  BY <1>1, OfferedGrows
<1>3. ASSUME NEW b \in Broadcasters, NEW c \in Clients, Send(b), at[b] = c
      PROVE  TenantOf[b] = TenantOf[c]
  BY <1>3 DEF HubInv, LoopShape, Pending, SameTenant
<1>4. TenantIsolation'
  BY <1>1, <1>3, OfferedToStep DEF HubInv, TenantIsolation
<1> QED
  BY <1>1, <1>2, <1>4

\* A new stream touches neither the map nor a channel.
LEMMA ConnectInv ==
  ASSUME HubInv, NEW c \in Clients, Connect(c) PROVE HubInv'
<1>1. /\ TypeOK' /\ TenantIsolation'
      /\ \A x \in Clients : /\ OfferedTo(x) \subseteq OfferedTo(x)'
                            /\ Len(Offered(x)) \in Nat /\ Len(Offered(x)') \in Nat
                            /\ Len(Offered(x)) <= Len(Offered(x)')
  BY Common DEF Next, LockStep, CastStep
<1> USE DEF HubInv, TypeOK, Connect, clientVars, castVars
<1>2. LockDiscipline'
  BY <1>1 DEF LockDiscipline, InLoop
<1>3. LoopShape'
  BY <1>1 DEF LoopShape, Pending, InLoop, CastStates
<1>4. HandlerShape'
  BY <1>1 DEF HandlerShape
<1>5. PendingShape'
  BY <1>1 DEF PendingShape, Pending, LoopShape, HandlerShape, LockDiscipline,
     InLoop, CastStates
<1>6. ClosedRegistered'
  BY <1>1 DEF ClosedRegistered, LoopShape, LockDiscipline, HandlerShape, InLoop
<1>7. NothingSkipped'
  BY <1>1 DEF NothingSkipped, LoopShape, PendingShape, HandlerShape, Pending,
     InLoop, CastStates
<1>8. DropOnlyAfterFull'
  BY <1>1 DEF DropOnlyAfterFull, PendingShape, HandlerShape
<1> QED
  BY <1>1, <1>2, <1>3, <1>4, <1>5, <1>6, <1>7, <1>8

\* A pending Lock() belongs to a handler that is opening or leaving.
LEMMA LockInv ==
  ASSUME HubInv, NEW c \in Clients, Lock(c) PROVE HubInv'
<1>1. /\ TypeOK' /\ TenantIsolation'
      /\ \A x \in Clients : /\ OfferedTo(x) \subseteq OfferedTo(x)'
                            /\ Len(Offered(x)) \in Nat /\ Len(Offered(x)') \in Nat
                            /\ Len(Offered(x)) <= Len(Offered(x)')
  BY Common DEF Next, LockStep, CastStep
<1> USE DEF HubInv, TypeOK, Lock, clientVars, castVars
<1>2. LockDiscipline'
  BY <1>1 DEF LockDiscipline, InLoop
<1>3. LoopShape'
  BY <1>1 DEF LoopShape, Pending, InLoop, CastStates
<1>4. HandlerShape'
  BY <1>1 DEF HandlerShape
<1>5. PendingShape'
  BY <1>1 DEF PendingShape, Pending, LoopShape, HandlerShape, LockDiscipline,
     InLoop, CastStates
<1>6. ClosedRegistered'
  BY <1>1 DEF ClosedRegistered, LoopShape, LockDiscipline, HandlerShape, InLoop
<1>7. NothingSkipped'
  BY <1>1 DEF NothingSkipped, LoopShape, PendingShape, HandlerShape, Pending,
     InLoop, CastStates
<1>8. DropOnlyAfterFull'
  BY <1>1 DEF DropOnlyAfterFull, PendingShape, HandlerShape
<1> QED
  BY <1>1, <1>2, <1>3, <1>4, <1>5, <1>6, <1>7, <1>8

\* No broadcaster is in its loop when a client enters the map.
LEMMA RegisterInv ==
  ASSUME HubInv, NEW c \in Clients, Register(c) PROVE HubInv'
<1>1. /\ TypeOK' /\ TenantIsolation'
      /\ \A x \in Clients : /\ OfferedTo(x) \subseteq OfferedTo(x)'
                            /\ Len(Offered(x)) \in Nat /\ Len(Offered(x)') \in Nat
                            /\ Len(Offered(x)) <= Len(Offered(x)')
  BY Common DEF Next, LockStep, CastStep
<1> USE DEF HubInv, TypeOK, Register, clientVars, castVars
<1>2. LockDiscipline'
  BY <1>1 DEF LockDiscipline, InLoop
<1>3. LoopShape'
  BY <1>1 DEF LoopShape, Pending, InLoop, CastStates
<1>4. HandlerShape'
  BY <1>1 DEF HandlerShape
<1>5. PendingShape'
  BY <1>1 DEF PendingShape, Pending, LoopShape, HandlerShape, LockDiscipline,
     InLoop, CastStates
<1>6. ClosedRegistered'
  BY <1>1 DEF ClosedRegistered, LoopShape, LockDiscipline, HandlerShape, InLoop
<1>7. NothingSkipped'
  BY <1>1 DEF NothingSkipped, LoopShape, PendingShape, HandlerShape, Pending,
     InLoop, CastStates
<1>8. DropOnlyAfterFull'
  BY <1>1 DEF DropOnlyAfterFull, PendingShape, HandlerShape
<1> QED
  BY <1>1, <1>2, <1>3, <1>4, <1>5, <1>6, <1>7, <1>8

\* Draining a channel offers nothing and takes nothing back.
LEMMA ReceiveInv ==
  ASSUME HubInv, NEW c \in Clients, Receive(c) PROVE HubInv'
<1>1. /\ TypeOK' /\ TenantIsolation'
      /\ \A x \in Clients : /\ OfferedTo(x) \subseteq OfferedTo(x)'
                            /\ Len(Offered(x)) \in Nat /\ Len(Offered(x)') \in Nat
                            /\ Len(Offered(x)) <= Len(Offered(x)')
  BY Common DEF Next, LockStep, CastStep
<1> USE DEF HubInv, TypeOK, Receive, clientVars, castVars
<1>2. LockDiscipline'
  BY <1>1 DEF LockDiscipline, InLoop
<1>3. LoopShape'
  BY <1>1 DEF LoopShape, Pending, InLoop, CastStates
<1>4. HandlerShape'
  BY <1>1 DEF HandlerShape
<1>5. PendingShape'
  BY <1>1 DEF PendingShape, Pending, LoopShape, HandlerShape, LockDiscipline,
     InLoop, CastStates
<1>6. ClosedRegistered'
  BY <1>1 DEF ClosedRegistered, LoopShape, LockDiscipline, HandlerShape, InLoop
<1>7. NothingSkipped'
  BY <1>1 DEF NothingSkipped, LoopShape, PendingShape, HandlerShape, Pending,
     InLoop, CastStates
<1>8. DropOnlyAfterFull'
  BY <1>1 DEF DropOnlyAfterFull, PendingShape, HandlerShape
<1> QED
  BY <1>1, <1>2, <1>3, <1>4, <1>5, <1>6, <1>7, <1>8

\* A handler that sees its channel closed is about to leave.
LEMMA ObserveClosedInv ==
  ASSUME HubInv, NEW c \in Clients, ObserveClosed(c) PROVE HubInv'
<1>1. /\ TypeOK' /\ TenantIsolation'
      /\ \A x \in Clients : /\ OfferedTo(x) \subseteq OfferedTo(x)'
                            /\ Len(Offered(x)) \in Nat /\ Len(Offered(x)') \in Nat
                            /\ Len(Offered(x)) <= Len(Offered(x)')
  BY Common DEF Next, LockStep, CastStep
<1> USE DEF HubInv, TypeOK, ObserveClosed, clientVars, castVars
<1>2. LockDiscipline'
  BY <1>1 DEF LockDiscipline, InLoop
<1>3. LoopShape'
  BY <1>1 DEF LoopShape, Pending, InLoop, CastStates
<1>4. HandlerShape'
  BY <1>1 DEF HandlerShape
<1>5. PendingShape'
  BY <1>1 DEF PendingShape, Pending, LoopShape, HandlerShape, LockDiscipline,
     InLoop, CastStates
<1>6. ClosedRegistered'
  BY <1>1 DEF ClosedRegistered, LoopShape, LockDiscipline, HandlerShape, InLoop
<1>7. NothingSkipped'
  BY <1>1 DEF NothingSkipped, LoopShape, PendingShape, HandlerShape, Pending,
     InLoop, CastStates
<1>8. DropOnlyAfterFull'
  BY <1>1 DEF DropOnlyAfterFull, PendingShape, HandlerShape
<1> QED
  BY <1>1, <1>2, <1>3, <1>4, <1>5, <1>6, <1>7, <1>8

\* A handler may leave while broadcasters are still sending to it.
LEMMA DisconnectInv ==
  ASSUME HubInv, NEW c \in Clients, Disconnect(c) PROVE HubInv'
<1>1. /\ TypeOK' /\ TenantIsolation'
      /\ \A x \in Clients : /\ OfferedTo(x) \subseteq OfferedTo(x)'
                            /\ Len(Offered(x)) \in Nat /\ Len(Offered(x)') \in Nat
                            /\ Len(Offered(x)) <= Len(Offered(x)')
  BY Common DEF Next, LockStep, CastStep
<1> USE DEF HubInv, TypeOK, Disconnect, clientVars, castVars
<1>2. LockDiscipline'
  BY <1>1 DEF LockDiscipline, InLoop
<1>3. LoopShape'
  BY <1>1 DEF LoopShape, Pending, InLoop, CastStates
<1>4. HandlerShape'
  BY <1>1 DEF HandlerShape
<1>5. PendingShape'
  BY <1>1 DEF PendingShape, Pending, LoopShape, HandlerShape, LockDiscipline,
     InLoop, CastStates
<1>6. ClosedRegistered'
  BY <1>1 DEF ClosedRegistered, LoopShape, LockDiscipline, HandlerShape, InLoop
<1>7. NothingSkipped'
  BY <1>1 DEF NothingSkipped, LoopShape, PendingShape, HandlerShape, Pending,
     InLoop, CastStates
<1>8. DropOnlyAfterFull'
  BY <1>1 DEF DropOnlyAfterFull, PendingShape, HandlerShape
<1> QED
  BY <1>1, <1>2, <1>3, <1>4, <1>5, <1>6, <1>7, <1>8

\* No broadcaster has anything to do with a client that leaves the map.
LEMMA UnregisterInv ==
  ASSUME HubInv, NEW c \in Clients, Unregister(c) PROVE HubInv'
<1>1. /\ TypeOK' /\ TenantIsolation'
      /\ \A x \in Clients : /\ OfferedTo(x) \subseteq OfferedTo(x)'
                            /\ Len(Offered(x)) \in Nat /\ Len(Offered(x)') \in Nat
                            /\ Len(Offered(x)) <= Len(Offered(x)')
  BY Common DEF Next, LockStep, CastStep
<1> USE DEF HubInv, TypeOK, Unregister, clientVars, castVars
<1>2. LockDiscipline'
  BY <1>1 DEF LockDiscipline, InLoop
<1>3. LoopShape'
  BY <1>1 DEF LoopShape, Pending, InLoop, CastStates
<1>4. HandlerShape'
  BY <1>1 DEF HandlerShape
<1>5. PendingShape'
  BY <1>1 DEF PendingShape, Pending, LoopShape, HandlerShape, LockDiscipline,
     InLoop, CastStates
<1>6. ClosedRegistered'
  BY <1>1 DEF ClosedRegistered, LoopShape, LockDiscipline, HandlerShape, InLoop
<1>7. NothingSkipped'
  BY <1>1 DEF NothingSkipped, LoopShape, PendingShape, HandlerShape, Pending,
     InLoop, CastStates
<1>8. DropOnlyAfterFull'
  BY <1>1 DEF DropOnlyAfterFull, PendingShape, HandlerShape
<1> QED
  BY <1>1, <1>2, <1>3, <1>4, <1>5, <1>6, <1>7, <1>8

\* The handler closes a channel that no broadcaster can still reach.
LEMMA CloseOwnInv ==
  ASSUME HubInv, NEW c \in Clients, CloseOwn(c) PROVE HubInv'
<1>1. /\ TypeOK' /\ TenantIsolation'
      /\ \A x \in Clients : /\ OfferedTo(x) \subseteq OfferedTo(x)'
                            /\ Len(Offered(x)) \in Nat /\ Len(Offered(x)') \in Nat
                            /\ Len(Offered(x)) <= Len(Offered(x)')
  BY Common DEF Next, LockStep, CastStep
<1> USE DEF HubInv, TypeOK, CloseOwn, clientVars, castVars
<1>2. LockDiscipline'
  BY <1>1 DEF LockDiscipline, InLoop
<1>3. LoopShape'
  BY <1>1 DEF LoopShape, Pending, InLoop, CastStates
<1>4. HandlerShape'
  BY <1>1 DEF HandlerShape
<1>5. PendingShape'
  BY <1>1 DEF PendingShape, Pending, LoopShape, HandlerShape, LockDiscipline,
     InLoop, CastStates
<1>6. ClosedRegistered'
  BY <1>1 DEF ClosedRegistered, LoopShape, LockDiscipline, HandlerShape, InLoop
<1>7. NothingSkipped'
  BY <1>1 DEF NothingSkipped, LoopShape, PendingShape, HandlerShape, Pending,
     InLoop, CastStates
<1>8. DropOnlyAfterFull'
  BY <1>1 DEF DropOnlyAfterFull, PendingShape, HandlerShape
<1> QED
  BY <1>1, <1>2, <1>3, <1>4, <1>5, <1>6, <1>7, <1>8

\* A new loop owes its alert to the registered clients of its tenant.
LEMMA StartBroadcastInv ==
  ASSUME HubInv, NEW b \in Broadcasters, StartBroadcast(b) PROVE HubInv'
<1>1. /\ TypeOK' /\ TenantIsolation'
      /\ \A x \in Clients : /\ OfferedTo(x) \subseteq OfferedTo(x)'
                            /\ Len(Offered(x)) \in Nat /\ Len(Offered(x)') \in Nat
                            /\ Len(Offered(x)) <= Len(Offered(x)')
  BY Common DEF Next, LockStep, CastStep
<1> USE DEF HubInv, TypeOK, StartBroadcast, clientVars, castVars
<1>2. LockDiscipline'
  BY <1>1 DEF LockDiscipline, InLoop
<1>3. LoopShape'
  BY <1>1 DEF LoopShape, Pending, InLoop, CastStates, SameTenant
<1>4. HandlerShape'
  BY <1>1 DEF HandlerShape
<1>5. PendingShape'
  BY <1>1 DEF PendingShape, Pending, LoopShape, HandlerShape, LockDiscipline,
     InLoop, CastStates, HandlerStates
<1>6. ClosedRegistered'
  BY <1>1 DEF ClosedRegistered, LoopShape, LockDiscipline, HandlerShape, InLoop
<1>7. NothingSkipped'
  BY <1>1 DEF NothingSkipped, LoopShape, PendingShape, HandlerShape, Pending,
     InLoop, CastStates
<1>8. DropOnlyAfterFull'
  BY <1>1 DEF DropOnlyAfterFull, PendingShape, HandlerShape
<1> QED
  BY <1>1, <1>2, <1>3, <1>4, <1>5, <1>6, <1>7, <1>8

\* Moving to the next key skips only clients that are gone.
LEMMA VisitInv ==
  ASSUME HubInv, NEW b \in Broadcasters, Visit(b) PROVE HubInv'
<1>1. /\ TypeOK' /\ TenantIsolation'
      /\ \A x \in Clients : /\ OfferedTo(x) \subseteq OfferedTo(x)'
                            /\ Len(Offered(x)) \in Nat /\ Len(Offered(x)') \in Nat
                            /\ Len(Offered(x)) <= Len(Offered(x)')
  BY Common DEF Next, LockStep, CastStep
<1> USE DEF HubInv, TypeOK, Visit, clientVars, castVars
<1>2. LockDiscipline'
  BY <1>1 DEF LockDiscipline, InLoop
<1>3. LoopShape'
  BY <1>1 DEF LoopShape, Pending, InLoop, CastStates
<1>4. HandlerShape'
  BY <1>1 DEF HandlerShape
<1>5. PendingShape'
  BY <1>1 DEF PendingShape, Pending, LoopShape, HandlerShape, LockDiscipline,
     InLoop, CastStates
<1>6. ClosedRegistered'
  BY <1>1 DEF ClosedRegistered, LoopShape, LockDiscipline, HandlerShape, InLoop
<1>7. NothingSkipped'
  BY <1>1 DEF NothingSkipped, LoopShape, PendingShape, HandlerShape, Pending,
     InLoop, CastStates
<1>8. DropOnlyAfterFull'
  BY <1>1 DEF DropOnlyAfterFull, PendingShape, HandlerShape
<1> QED
  BY <1>1, <1>2, <1>3, <1>4, <1>5, <1>6, <1>7, <1>8

\* A send settles what is owed to one client.
LEMMA SendInv ==
  ASSUME HubInv, NEW b \in Broadcasters, Send(b) PROVE HubInv'
<1>1. /\ TypeOK' /\ TenantIsolation'
      /\ \A x \in Clients : /\ OfferedTo(x) \subseteq OfferedTo(x)'
                            /\ Len(Offered(x)) \in Nat /\ Len(Offered(x)') \in Nat
                            /\ Len(Offered(x)) <= Len(Offered(x)')
  BY Common DEF Next, LockStep, CastStep
<1> USE DEF HubInv, TypeOK, Send, clientVars, castVars
<1>2. LockDiscipline'
  BY <1>1 DEF LockDiscipline, InLoop
<1>3. LoopShape'
  BY <1>1 DEF LoopShape, Pending, InLoop, CastStates
<1>4. HandlerShape'
  BY <1>1 DEF HandlerShape
<1>5. PendingShape'
  BY <1>1 DEF PendingShape, Pending, LoopShape, HandlerShape, LockDiscipline,
     InLoop, CastStates
<1>6. ClosedRegistered'
  BY <1>1 DEF ClosedRegistered, LoopShape, LockDiscipline, HandlerShape, InLoop
<1>20. ASSUME NEW x \in Clients, x = at[b] PROVE b \in OfferedTo(x)'
  <2>1. got[x] \in Seq(Broadcasters) /\ buf[x] \in Seq(Broadcasters)
    OBVIOUS
  <2>2. buf'[x] = Append(buf[x], b) /\ got'[x] = got[x]
    BY <1>20
  <2>3. Offered(x)' = Append(Offered(x), b)
    BY <2>1, <2>2, AppendLast DEF Offered
  <2>4. Offered(x) \in Seq(Broadcasters)
    BY <2>1 DEF Offered
  <2>5. /\ Len(Offered(x)) + 1 \in DOMAIN Append(Offered(x), b)
        /\ Append(Offered(x), b)[Len(Offered(x)) + 1] = b
    BY <2>4
  <2> QED
    BY <2>3, <2>5 DEF OfferedTo
<1>7. NothingSkipped'
  <2> SUFFICES ASSUME NEW d \in Broadcasters, bpc'[d] \in InLoop \union {"done"},
                      NEW x \in Clients, x \in targets'[d]
               PROVE  \/ x \in Pending(d)'
                      \/ d \in OfferedTo(x)'
                      \/ closed'[x]
                      \/ x \notin registered'
    BY DEF NothingSkipped
  <2>1. \/ x \in Pending(d)
        \/ d \in OfferedTo(x)'
        \/ closed[x]
        \/ x \notin registered
    BY <1>1 DEF NothingSkipped, InLoop
  <2>2. CASE d = b /\ x = at[b]
    BY <1>20, <2>2
  <2>3. CASE d = b /\ x # at[b]
    BY <2>1, <2>3 DEF Pending
  <2>4. CASE d # b
    BY <2>1, <2>4 DEF Pending
  <2> QED
    BY <2>2, <2>3, <2>4
<1>8. DropOnlyAfterFull'
  BY <1>1 DEF DropOnlyAfterFull, PendingShape, HandlerShape
<1> QED
  BY <1>1, <1>2, <1>3, <1>4, <1>5, <1>6, <1>7, <1>8

\* A channel found full was offered at least its capacity.
LEMMA FindFullInv ==
  ASSUME HubInv, NEW b \in Broadcasters, FindFull(b) PROVE HubInv'
<1>1. /\ TypeOK' /\ TenantIsolation'
      /\ \A x \in Clients : /\ OfferedTo(x) \subseteq OfferedTo(x)'
                            /\ Len(Offered(x)) \in Nat /\ Len(Offered(x)') \in Nat
                            /\ Len(Offered(x)) <= Len(Offered(x)')
  BY Common DEF Next, LockStep, CastStep
<1> USE DEF HubInv, TypeOK, FindFull, clientVars, castVars
<1>2. LockDiscipline'
  BY <1>1 DEF LockDiscipline, InLoop
<1>3. LoopShape'
  BY <1>1 DEF LoopShape, Pending, InLoop, CastStates
<1>4. HandlerShape'
  BY <1>1 DEF HandlerShape
<1>5. PendingShape'
  BY <1>1 DEF PendingShape, Pending, LoopShape, HandlerShape, LockDiscipline,
     InLoop, CastStates, Offered
<1>6. ClosedRegistered'
  BY <1>1 DEF ClosedRegistered, LoopShape, LockDiscipline, HandlerShape, InLoop
<1>7. NothingSkipped'
  BY <1>1 DEF NothingSkipped, LoopShape, PendingShape, HandlerShape, Pending,
     InLoop, CastStates
<1>8. DropOnlyAfterFull'
  BY <1>1 DEF DropOnlyAfterFull, PendingShape, HandlerShape
<1> QED
  BY <1>1, <1>2, <1>3, <1>4, <1>5, <1>6, <1>7, <1>8

\* Closing a slow client's channel excuses every broadcaster from it.
LEMMA CloseSlowInv ==
  ASSUME HubInv, NEW b \in Broadcasters, CloseSlow(b) PROVE HubInv'
<1>1. /\ TypeOK' /\ TenantIsolation'
      /\ \A x \in Clients : /\ OfferedTo(x) \subseteq OfferedTo(x)'
                            /\ Len(Offered(x)) \in Nat /\ Len(Offered(x)') \in Nat
                            /\ Len(Offered(x)) <= Len(Offered(x)')
  BY Common DEF Next, LockStep, CastStep
<1> USE DEF HubInv, TypeOK, CloseSlow, clientVars, castVars
<1>2. LockDiscipline'
  BY <1>1 DEF LockDiscipline, InLoop
<1>3. LoopShape'
  BY <1>1 DEF LoopShape, Pending, InLoop, CastStates
<1>4. HandlerShape'
  BY <1>1 DEF HandlerShape, PendingShape, LoopShape, Pending
<1>5. PendingShape'
  BY <1>1 DEF PendingShape, Pending, LoopShape, HandlerShape, LockDiscipline,
     InLoop, CastStates
<1>6. ClosedRegistered'
  BY <1>1 DEF ClosedRegistered, LoopShape, LockDiscipline, HandlerShape, InLoop
<1>7. NothingSkipped'
  BY <1>1 DEF NothingSkipped, LoopShape, PendingShape, HandlerShape, Pending,
     InLoop, CastStates
<1>8. DropOnlyAfterFull'
  BY <1>1 DEF DropOnlyAfterFull, PendingShape, HandlerShape
<1> QED
  BY <1>1, <1>2, <1>3, <1>4, <1>5, <1>6, <1>7, <1>8

\* After the delete no closed channel of this broadcaster is in the map.
LEMMA RemoveSlowInv ==
  ASSUME HubInv, NEW b \in Broadcasters, RemoveSlow(b) PROVE HubInv'
<1>1. /\ TypeOK' /\ TenantIsolation'
      /\ \A x \in Clients : /\ OfferedTo(x) \subseteq OfferedTo(x)'
                            /\ Len(Offered(x)) \in Nat /\ Len(Offered(x)') \in Nat
                            /\ Len(Offered(x)) <= Len(Offered(x)')
  BY Common DEF Next, LockStep, CastStep
<1> USE DEF HubInv, TypeOK, RemoveSlow, clientVars, castVars
<1>2. LockDiscipline'
  BY <1>1 DEF LockDiscipline, InLoop
<1>3. LoopShape'
  BY <1>1 DEF LoopShape, Pending, InLoop, CastStates
<1>4. HandlerShape'
  BY <1>1 DEF HandlerShape, PendingShape, LoopShape, Pending
<1>5. PendingShape'
  BY <1>1 DEF PendingShape, Pending, LoopShape, HandlerShape, LockDiscipline,
     InLoop, CastStates
<1>6. ClosedRegistered'
  BY <1>1 DEF ClosedRegistered, LoopShape, LockDiscipline, HandlerShape, InLoop
<1>7. NothingSkipped'
  BY <1>1 DEF NothingSkipped, LoopShape, PendingShape, HandlerShape, Pending,
     InLoop, CastStates
<1>8. DropOnlyAfterFull'
  BY <1>1 DEF DropOnlyAfterFull, PendingShape, HandlerShape
<1> QED
  BY <1>1, <1>2, <1>3, <1>4, <1>5, <1>6, <1>7, <1>8

\* The crash changes nothing but the process.
LEMMA MapRaceInv ==
  ASSUME HubInv, NEW b \in Broadcasters, MapRace(b) PROVE HubInv'
<1>1. /\ TypeOK' /\ TenantIsolation'
      /\ \A x \in Clients : /\ OfferedTo(x) \subseteq OfferedTo(x)'
                            /\ Len(Offered(x)) \in Nat /\ Len(Offered(x)') \in Nat
                            /\ Len(Offered(x)) <= Len(Offered(x)')
  BY Common DEF Next, LockStep, CastStep
<1> USE DEF HubInv, TypeOK, MapRace, clientVars, castVars
<1>2. LockDiscipline'
  BY <1>1 DEF LockDiscipline, InLoop
<1>3. LoopShape'
  BY <1>1 DEF LoopShape, Pending, InLoop, CastStates
<1>4. HandlerShape'
  BY <1>1 DEF HandlerShape
<1>5. PendingShape'
  BY <1>1 DEF PendingShape, Pending, LoopShape, HandlerShape, LockDiscipline,
     InLoop, CastStates
<1>6. ClosedRegistered'
  BY <1>1 DEF ClosedRegistered, LoopShape, LockDiscipline, HandlerShape, InLoop
<1>7. NothingSkipped'
  BY <1>1 DEF NothingSkipped, LoopShape, PendingShape, HandlerShape, Pending,
     InLoop, CastStates
<1>8. DropOnlyAfterFull'
  BY <1>1 DEF DropOnlyAfterFull, PendingShape, HandlerShape
<1> QED
  BY <1>1, <1>2, <1>3, <1>4, <1>5, <1>6, <1>7, <1>8

\* A panicking broadcaster gives its read lock back.
LEMMA PanicInv ==
  ASSUME HubInv, NEW b \in Broadcasters, Panic(b) PROVE HubInv'
<1>1. /\ TypeOK' /\ TenantIsolation'
      /\ \A x \in Clients : /\ OfferedTo(x) \subseteq OfferedTo(x)'
                            /\ Len(Offered(x)) \in Nat /\ Len(Offered(x)') \in Nat
                            /\ Len(Offered(x)) <= Len(Offered(x)')
  BY Common DEF Next, LockStep, CastStep
<1> USE DEF HubInv, TypeOK, Panic, clientVars, castVars
<1>2. LockDiscipline'
  BY <1>1 DEF LockDiscipline, InLoop
<1>3. LoopShape'
  BY <1>1 DEF LoopShape, Pending, InLoop, CastStates
<1>4. HandlerShape'
  BY <1>1 DEF HandlerShape
<1>5. PendingShape'
  BY <1>1 DEF PendingShape, Pending, LoopShape, HandlerShape, LockDiscipline,
     InLoop, CastStates
<1>6. ClosedRegistered'
  BY <1>1 DEF ClosedRegistered, LoopShape, LockDiscipline, HandlerShape, InLoop
<1>7. NothingSkipped'
  BY <1>1 DEF NothingSkipped, LoopShape, PendingShape, HandlerShape, Pending,
     InLoop, CastStates
<1>8. DropOnlyAfterFull'
  BY <1>1 DEF DropOnlyAfterFull, PendingShape, HandlerShape
<1> QED
  BY <1>1, <1>2, <1>3, <1>4, <1>5, <1>6, <1>7, <1>8

\* A loop that ends owes nothing to a client that is still there.
LEMMA FinishInv ==
  ASSUME HubInv, NEW b \in Broadcasters, Finish(b) PROVE HubInv'
<1>1. /\ TypeOK' /\ TenantIsolation'
      /\ \A x \in Clients : /\ OfferedTo(x) \subseteq OfferedTo(x)'
                            /\ Len(Offered(x)) \in Nat /\ Len(Offered(x)') \in Nat
                            /\ Len(Offered(x)) <= Len(Offered(x)')
  BY Common DEF Next, LockStep, CastStep
<1> USE DEF HubInv, TypeOK, Finish, clientVars, castVars
<1>2. LockDiscipline'
  BY <1>1 DEF LockDiscipline, InLoop
<1>3. LoopShape'
  BY <1>1 DEF LoopShape, Pending, InLoop, CastStates
<1>4. HandlerShape'
  BY <1>1 DEF HandlerShape
<1>5. PendingShape'
  BY <1>1 DEF PendingShape, Pending, LoopShape, HandlerShape, LockDiscipline,
     InLoop, CastStates
<1>6. ClosedRegistered'
  BY <1>1 DEF ClosedRegistered, LoopShape, LockDiscipline, HandlerShape, InLoop
<1>7. NothingSkipped'
  BY <1>1 DEF NothingSkipped, LoopShape, PendingShape, HandlerShape, Pending,
     InLoop, CastStates
<1>8. DropOnlyAfterFull'
  BY <1>1 DEF DropOnlyAfterFull, PendingShape, HandlerShape
<1> QED
  BY <1>1, <1>2, <1>3, <1>4, <1>5, <1>6, <1>7, <1>8

\* The invariant holds initially and is kept by every step.
LEMMA HubInvInit == Init => HubInv
<1> SUFFICES ASSUME Init PROVE HubInv
  OBVIOUS
<1>1. TypeOK
  BY TypeInit
<1>2. \A c \in Clients : OfferedTo(c) = {}
  <2>1. ASSUME NEW c \in Clients PROVE Offered(c) = <<>>
    BY DEF Init, Offered
  <2>2. DOMAIN <<>> = {}
    OBVIOUS
  <2> QED
    BY <2>1, <2>2 DEF OfferedTo
<1>3. LockDiscipline /\ LoopShape /\ HandlerShape /\ PendingShape
  BY DEF Init, LockDiscipline, LoopShape, HandlerShape, PendingShape, Pending, InLoop
<1>4. ClosedRegistered /\ NothingSkipped /\ TenantIsolation /\ DropOnlyAfterFull
  BY <1>2 DEF Init, ClosedRegistered, NothingSkipped, TenantIsolation,
              DropOnlyAfterFull, InLoop
<1> QED
  BY <1>1, <1>3, <1>4 DEF HubInv

\* Every step keeps the invariant: one lemma above per action.
LEMMA HubInvStep == HubInv /\ [Next]_vars => HubInv'
<1> SUFFICES ASSUME HubInv, [Next]_vars PROVE HubInv'
  OBVIOUS
<1>1. ASSUME NEW c \in Clients, LockStep(c) PROVE HubInv'
  BY <1>1, LockInv, RegisterInv, UnregisterInv, CloseOwnInv DEF LockStep
<1>2. ASSUME NEW c \in Clients,
             Connect(c) \/ Receive(c) \/ ObserveClosed(c) \/ Disconnect(c)
      PROVE  HubInv'
  BY <1>2, ConnectInv, ReceiveInv, ObserveClosedInv, DisconnectInv
<1>3. ASSUME NEW b \in Broadcasters, CastStep(b) PROVE HubInv'
  BY <1>3, StartBroadcastInv, VisitInv, SendInv, FindFullInv, CloseSlowInv,
     RemoveSlowInv, MapRaceInv, PanicInv, FinishInv DEF CastStep
<1>4. ASSUME UNCHANGED vars PROVE HubInv'
  BY <1>4 DEF vars, HubInv, TypeOK, LockDiscipline, LoopShape, HandlerShape,
     PendingShape, ClosedRegistered, NothingSkipped, TenantIsolation,
     DropOnlyAfterFull, Pending, Offered, OfferedTo
<1> QED
  BY <1>1, <1>2, <1>3, <1>4 DEF Next, Terminated

\* HubInv is an inductive invariant of the hub.
THEOREM HubCorrect == Spec => []HubInv
  BY HubInvInit, HubInvStep, PTL DEF Spec

\* The read lock is held by exactly the goroutines inside the loop of
\* broadcastAlert, whichever of them panicked.
THEOREM LockCorrect == Spec => []LockDiscipline
  BY HubCorrect, PTL DEF HubInv

\* No dashboard is ever sent an alert of another tenant.
THEOREM TenantsIsolated == Spec => []TenantIsolation
  BY HubCorrect, PTL DEF HubInv

\* A closed channel is a key of s.clients only between the close and the delete
\* of the broadcaster that gave the client up.
THEOREM ClosedNotRegistered == Spec => []ClosedRegistered
  BY HubCorrect, PTL DEF HubInv

\* A broadcast that ends without a panic has reached every client that was
\* registered when it began, unless that client was dropped or left.
THEOREM NothingLost == Spec => []NoSilentLoss
<1>1. HubInv => NoSilentLoss
  BY DEF HubInv, NoSilentLoss, NothingSkipped, LoopShape, Pending, InLoop, TypeOK
<1> QED
  BY <1>1, HubCorrect, PTL

\* A client that is still being served is dropped only after a whole channel of
\* alerts was queued for it.
THEOREM DropsJustified == Spec => []DropOnlyAfterFull
  BY HubCorrect, PTL DEF HubInv
-----------------------------------------------------------------------------
(* The hub implements AlertFeed *)

\* The initial state of the hub maps to the initial state of the feed.
LEMMA FeedInit == Init => Feed!Init
  BY DEF Init, Feed!Init, FeedSub, FeedPhase, FeedOwed, InLoop

\* Every step of the hub maps to a step of the feed or changes nothing there.
LEMMA FeedStep == HubInv /\ HubInv' /\ [Next]_vars => [Feed!Next]_(Feed!vars)
<1> SUFFICES ASSUME HubInv, HubInv', [Next]_vars PROVE [Feed!Next]_(Feed!vars)
  OBVIOUS
<1> USE DEF HubInv, TypeOK, FeedSub, FeedPhase, FeedOwed, InLoop, clientVars, castVars,
            HandlerShape, Feed!vars
<1>1. ASSUME NEW c \in Clients, Connect(c) PROVE UNCHANGED Feed!vars
  BY <1>1 DEF Connect, LoopShape, PendingShape, Pending
<1>2. ASSUME NEW c \in Clients, Lock(c) PROVE UNCHANGED Feed!vars
  BY <1>2 DEF Lock, LoopShape, PendingShape, Pending
<1>3. ASSUME NEW c \in Clients, Register(c) PROVE Feed!Join(c)
  <2>1. FeedSub[c] = "off" /\ FeedSub' = [FeedSub EXCEPT ![c] = "live"]
    BY <1>3 DEF Register
  <2>2. FeedPhase' = FeedPhase /\ FeedOwed' = FeedOwed
    BY <1>3 DEF Register
  <2> QED
    BY <1>3, <2>1, <2>2 DEF Register, Feed!Join
<1>4. ASSUME NEW c \in Clients, Receive(c) PROVE Feed!Take(c)
  BY <1>4 DEF Receive, Feed!Take, LoopShape, PendingShape, Pending
<1>5. ASSUME NEW c \in Clients, ObserveClosed(c) PROVE UNCHANGED Feed!vars
  BY <1>5 DEF ObserveClosed, LoopShape, PendingShape, Pending
<1>6. ASSUME NEW c \in Clients, Disconnect(c) PROVE UNCHANGED Feed!vars
  BY <1>6 DEF Disconnect, LoopShape, PendingShape, Pending
<1>7. ASSUME NEW c \in Clients, Unregister(c) PROVE Feed!Cut(c) \/ UNCHANGED Feed!vars
  <2>1. \A b \in Broadcasters : bpc[b] \notin {"loop", "select", "full", "dropping"}
    BY <1>7 DEF Unregister, LockDiscipline
  <2>2. \A b \in Broadcasters : FeedOwed[b] = {} /\ FeedOwed'[b] = {}
    BY <1>7, <2>1 DEF Unregister, LoopShape
  <2>3. FeedPhase' = FeedPhase
    BY <1>7 DEF Unregister
  <2>4. CASE closed[c]
    <3>1. FeedSub' = FeedSub
      BY <1>7, <2>4 DEF Unregister
    <3>2. FeedOwed' = FeedOwed
      BY <1>7, <2>2 DEF Unregister
    <3> QED
      BY <1>7, <2>3, <3>1, <3>2 DEF Unregister
  <2>5. CASE ~closed[c]
    <3>1. FeedSub[c] = "live" /\ FeedSub' = [FeedSub EXCEPT ![c] = "cut"]
      BY <1>7, <2>5 DEF Unregister
    <3>2. FeedOwed' = [b \in Broadcasters |-> FeedOwed[b] \ {c}]
      BY <1>7, <2>2 DEF Unregister
    <3> QED
      BY <1>7, <2>3, <3>1, <3>2 DEF Unregister, Feed!Cut
  <2> QED
    BY <2>4, <2>5
<1>8. ASSUME NEW c \in Clients, CloseOwn(c) PROVE UNCHANGED Feed!vars
  BY <1>8 DEF CloseOwn, LoopShape, PendingShape, Pending
<1>9. ASSUME NEW b \in Broadcasters, StartBroadcast(b) PROVE Feed!Publish(b)
  <2>1. FeedSub' = FeedSub
    BY <1>9 DEF StartBroadcast
  <2>2. FeedPhase[b] = "idle" /\ FeedPhase' = [FeedPhase EXCEPT ![b] = "out"]
    BY <1>9 DEF StartBroadcast
  <2>3. FeedOwed'[b] = {c \in Clients : FeedSub[c] = "live" /\ TenantOf[c] = TenantOf[b]}
    BY <1>9 DEF StartBroadcast, SameTenant, LoopShape
  <2>4. FeedOwed' = [FeedOwed EXCEPT ![b] =
             {c \in Clients : FeedSub[c] = "live" /\ TenantOf[c] = TenantOf[b]}]
    <3>1. \A a \in Broadcasters : a # b => FeedOwed'[a] = FeedOwed[a]
      BY <1>9 DEF StartBroadcast
    <3> QED
      BY <2>3, <3>1
  <2> QED
    BY <1>9, <2>1, <2>2, <2>4 DEF StartBroadcast, Feed!Publish
<1>10. ASSUME NEW b \in Broadcasters, Visit(b) PROVE UNCHANGED Feed!vars
  BY <1>10 DEF Visit, LoopShape, PendingShape, Pending
<1>11. ASSUME NEW b \in Broadcasters, Send(b) PROVE Feed!Offer(b, at[b])
  <2>1. at[b] \in Clients /\ at[b] \in FeedOwed[b]
    BY <1>11 DEF Send, LoopShape
  <2>2. FeedSub' = FeedSub
    BY <1>11 DEF Send
  <2>3. FeedPhase' = FeedPhase
    BY <1>11 DEF Send
  <2>4. FeedOwed' = [FeedOwed EXCEPT ![b] = @ \ {at[b]}]
    <3>1. FeedOwed'[b] = FeedOwed[b] \ {at[b]}
      BY <1>11, <2>1 DEF Send, LoopShape
    <3>2. \A a \in Broadcasters : a # b => FeedOwed'[a] = FeedOwed[a]
      BY <1>11 DEF Send
    <3> QED
      BY <3>1, <3>2
  <2> QED
    BY <1>11, <2>1, <2>2, <2>3, <2>4 DEF Send, Feed!Offer
<1>12. ASSUME NEW b \in Broadcasters, FindFull(b) PROVE UNCHANGED Feed!vars
  BY <1>12 DEF FindFull, LoopShape, PendingShape, Pending
<1>13. ASSUME NEW b \in Broadcasters, CloseSlow(b) PROVE Feed!Cut(at[b])
  <2>1. at[b] \in Clients /\ at[b] \in registered /\ handler[at[b]] \in {"serving", "leaving"}
    BY <1>13 DEF CloseSlow, LoopShape, PendingShape, Pending
  <2>2. FeedSub[at[b]] = "live" /\ FeedSub' = [FeedSub EXCEPT ![at[b]] = "cut"]
    BY <1>13, <2>1 DEF CloseSlow
  <2>3. FeedPhase' = FeedPhase
    BY <1>13 DEF CloseSlow
  <2>4. FeedOwed' = [a \in Broadcasters |-> FeedOwed[a] \ {at[b]}]
    <3>1. ASSUME NEW a \in Broadcasters PROVE FeedOwed'[a] = FeedOwed[a] \ {at[b]}
      BY <1>13, <2>1 DEF CloseSlow
    <3> QED
      BY <3>1
  <2> QED
    BY <1>13, <2>1, <2>2, <2>3, <2>4 DEF CloseSlow, Feed!Cut
<1>14. ASSUME NEW b \in Broadcasters, RemoveSlow(b) PROVE UNCHANGED Feed!vars
  BY <1>14 DEF RemoveSlow, LoopShape, PendingShape, Pending
<1>15. ASSUME NEW b \in Broadcasters, MapRace(b) PROVE UNCHANGED Feed!vars
  BY <1>15 DEF MapRace, LoopShape, PendingShape, Pending
<1>16. ASSUME NEW b \in Broadcasters, Panic(b) PROVE Feed!Abort(b)
  <2>1. FeedSub' = FeedSub
    BY <1>16 DEF Panic
  <2>2. FeedPhase[b] = "out" /\ FeedPhase' = [FeedPhase EXCEPT ![b] = "aborted"]
    BY <1>16 DEF Panic
  <2>3. FeedOwed' = [FeedOwed EXCEPT ![b] = {}]
    <3>1. FeedOwed'[b] = {}
      BY <1>16 DEF Panic
    <3>2. \A a \in Broadcasters : a # b => FeedOwed'[a] = FeedOwed[a]
      BY <1>16 DEF Panic
    <3> QED
      BY <3>1, <3>2
  <2> QED
    BY <1>16, <2>1, <2>2, <2>3 DEF Panic, Feed!Abort
<1>17. ASSUME NEW b \in Broadcasters, Finish(b) PROVE Feed!Complete(b)
  <2>1. FeedSub' = FeedSub
    BY <1>17 DEF Finish
  <2>2. FeedPhase[b] = "out" /\ FeedPhase' = [FeedPhase EXCEPT ![b] = "done"]
    BY <1>17 DEF Finish
  <2>3. FeedOwed[b] = {}
    BY <1>17 DEF Finish, PendingShape, Pending
  <2>4. FeedOwed' = FeedOwed
    <3>1. FeedOwed'[b] = {}
      BY <1>17 DEF Finish
    <3> QED
      BY <1>17, <2>3, <3>1 DEF Finish
  <2> QED
    BY <1>17, <2>1, <2>2, <2>3, <2>4 DEF Finish, Feed!Complete
<1>18. ASSUME UNCHANGED vars PROVE UNCHANGED Feed!vars
  BY <1>18 DEF vars
<1>19. \A b \in Broadcasters : Send(b) \/ CloseSlow(b) => at[b] \in Clients
  BY DEF LoopShape, Send, CloseSlow
<1> HIDE DEF HubInv, TypeOK, FeedSub, FeedPhase, FeedOwed, HandlerShape, Feed!vars
<1> QED
  BY <1>19, <1>1, <1>2, <1>3, <1>4, <1>5, <1>6, <1>7, <1>8, <1>9, <1>10, <1>11,
     <1>12, <1>13, <1>14, <1>15, <1>16, <1>17, <1>18
     DEF Next, LockStep, CastStep, Terminated, Feed!Next

\* Whatever the interleaving of handlers and broadcasters, dashboards see a feed
\* that AlertFeed allows.
THEOREM HubImplementsFeed == Spec => RefinesFeed
  BY FeedInit, FeedStep, HubCorrect, PTL DEF Spec, RefinesFeed, Feed!Spec
=============================================================================
