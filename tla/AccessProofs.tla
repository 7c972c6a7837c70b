---------------------------- MODULE AccessProofs ----------------------------
(***************************************************************************)
(* Proofs about Access, for every set of keys and of requests and any      *)
(* number of statements: the invariant AccessInv is inductive, and with it *)
(* a schema is whole before it is used, and no handler is reached with a   *)
(* key that could not be used.  The limiter keeps its promises in the      *)
(* chain, where several requests ask it at once.  The last part is about   *)
(* the webhook, which the same process serves: what its hooks make of any  *)
(* pod, in any namespaces.                                                 *)
(***************************************************************************)
EXTENDS Access, Webhook, RateLimiterProofs, FiniteSetTheorems, TLAPS

\* A free slot is a request that knows nothing and is owed nothing.
LEMMA FreeIsRequest ==
  /\ Free \in Request /\ ~Usable(Free.key) /\ Free.code # 200 /\ ~Free.tenant
  /\ Free.todo = <<>>
BY AccessAssumption DEF Free, Ended, Request, Todos, Usable

LEMMA KnowingIsRequest ==
  ASSUME NEW q \in Request PROVE [q EXCEPT !.could = TRUE] \in Request
BY ZenonT(60) DEF Request

LEMMA InitInv == AccessInit => AccessInv
<1> SUFFICES ASSUME AccessInit PROVE AccessInv
  OBVIOUS
<1> USE AccessAssumption, FreeIsRequest DEF AccessInit
<1>1. AccessTypeOK
  <2>1. req \in [Requests -> Request]
    BY Zenon
  <2>2. 0 \in 0 .. Statements
    BY DEF AccessAssumption
  <2> QED
    BY <2>1, <2>2 DEF AccessTypeOK, Boots
<1>2. SchemaComplete /\ AppliedIsMade
  BY DEF SchemaComplete, AppliedIsMade
<1>3. RequestKnows /\ ServedCouldPass
  BY DEF RequestKnows, ServedCouldPass, Usable
<1> QED
  BY <1>1, <1>2, <1>3 DEF AccessInv

\* The start of the process touches no request and lets in no key but the first.
LEMMA StartKeepsInv == AccessInv /\ Start => AccessInv'
<1> SUFFICES ASSUME AccessInv, Start PROVE AccessInv'
  OBVIOUS
<1> USE AccessAssumption
    DEF AccessInv, AccessTypeOK, SchemaComplete, AppliedIsMade,
        RequestKnows, ServedCouldPass, Boots, Usable
<1>1. CASE OpenDb
  BY <1>1, SMTT(30) DEF OpenDb, db, limiter, Free, Ended
<1>2. CASE ReadApplied
  BY <1>2 DEF ReadApplied, db
<1>3. CASE ApplyStatement
  BY <1>3 DEF ApplyStatement
<1>4. CASE RecordMigration
  <2>1. made = Statements
    BY <1>4 DEF RecordMigration
  <2>2. recorded' \in BOOLEAN /\ boot' = "tenant"
    BY <1>4 DEF RecordMigration
  <2> QED
    BY <1>4, <2>1, <2>2 DEF RecordMigration
<1>5. CASE CountKeys
  BY <1>5 DEF CountKeys, db
<1>6. CASE SeedKey
  BY <1>6 DEF SeedKey, Free, Ended
<1> QED
  BY <1>1, <1>2, <1>3, <1>4, <1>5, <1>6 DEF Start

\* A crash leaves the database, and no request.
LEMMA ExitKeepsInv == AccessInv /\ Exit => AccessInv'
<1> SUFFICES ASSUME AccessInv, Exit PROVE AccessInv'
  OBVIOUS
<1> USE AccessAssumption, FreeIsRequest DEF AccessInv, Exit, db
<1>1. AccessTypeOK'
  <2>1. req' \in [Requests -> Request]
    BY Zenon
  <2>2. 0 \in 0 .. Statements
    BY DEF AccessAssumption
  <2> QED
    BY <2>1, <2>2 DEF AccessTypeOK, Boots
<1>2. SchemaComplete' /\ AppliedIsMade'
  BY DEF SchemaComplete, AppliedIsMade
<1>3. RequestKnows' /\ ServedCouldPass'
  BY DEF RequestKnows, ServedCouldPass, Usable
<1> QED
  BY <1>1, <1>2, <1>3

\* The operator and the goroutines that touch keys.
LEMMA KeysKeepInv ==
  ASSUME NEW k \in Keys, AccessInv,
         InsertKey(k) \/ DeleteKey(k) \/ ExpireKey(k) \/ TouchAPIKey(k)
  PROVE  AccessInv'
<1> USE AccessAssumption
    DEF AccessInv, AccessTypeOK, SchemaComplete, AppliedIsMade,
        RequestKnows, ServedCouldPass, Usable, process
<1>1. CASE InsertKey(k)
  <2>1. /\ req' \in [Requests -> Request]
        /\ \A r \in Requests :
             /\ req'[r].todo = req[r].todo /\ req'[r].code = req[r].code
             /\ req'[r].tenant = req[r].tenant /\ req'[r].key = req[r].key
             /\ (req[r].could \/ req[r].key = k) => req'[r].could
             /\ req[r].key = k \/ req'[r] = req[r]
    <3>1. req' = [r \in Requests |-> IF req[r].key = k
                                     THEN [req[r] EXCEPT !.could = TRUE] ELSE req[r]]
      BY <1>1 DEF InsertKey
    <3>2. \A r \in Requests : req[r] \in Request
      OBVIOUS
    <3>3. \A r \in Requests : req'[r] = IF req[r].key = k
                                     THEN [req[r] EXCEPT !.could = TRUE] ELSE req[r]
      BY <3>1
    <3>4. ASSUME NEW r \in Requests PROVE req'[r] \in Request
      <4>1. [req[r] EXCEPT !.could = TRUE] \in Request
        BY <3>2, KnowingIsRequest
      <4> QED
        BY <3>2, <3>3, <4>1
    <3>5. req' \in [Requests -> Request]
      BY <3>1, <3>4
    <3> QED
      BY <3>2, <3>3, <3>5 DEF Request
  <2>2. AccessTypeOK' /\ SchemaComplete' /\ AppliedIsMade'
    BY <1>1, <2>1 DEF InsertKey, Tables
  <2>3. RequestKnows'
    <3>1. Free.key # k
      BY DEF Free, Ended
    <3>2. ASSUME NEW r \in Requests
          PROVE  /\ Usable(req[r].key)' => req'[r].could
                 /\ boot' # "serving" => req'[r] = Free
      BY <1>1, <2>1, <3>1 DEF InsertKey
    <3> QED
      BY <1>1, <2>1, <3>2 DEF InsertKey
  <2>4. ServedCouldPass'
    BY <1>1, <2>1 DEF InsertKey
  <2> QED
    BY <2>2, <2>3, <2>4
<1>2. CASE DeleteKey(k)
  BY <1>2 DEF DeleteKey
<1>3. CASE ExpireKey(k)
  BY <1>3 DEF ExpireKey
<1>4. CASE TouchAPIKey(k)
  BY <1>4 DEF TouchAPIKey, db
<1> QED
  BY <1>1, <1>2, <1>3, <1>4

\* One step of a chain: by its head, what is left of it.
LEMMA Tails ==
  ASSUME NEW t \in Todos, t # <<>>
  PROVE  /\ Tail(t) \in Todos
         /\ Head(t) = "admin" => Tail(t) = <<"auth", "handler">>
         /\ Head(t) = "auth" => Tail(t) = <<"handler">>
         /\ Head(t) = "limit" => /\ t = <<"limit", "handler">>
                                 /\ Tail(t) = <<"handler">>
         /\ Head(t) = "handler" => t = <<"handler">>
<1>1. CASE t = <<"login">>
  BY <1>1 DEF Todos
<1>2. CASE t = <<"admin", "auth", "handler">>
  BY <1>2 DEF Todos
<1>3. CASE t = <<"auth", "handler">>
  BY <1>3 DEF Todos
<1>4. CASE t = <<"limit", "handler">>
  BY <1>4 DEF Todos
<1>5. CASE t = <<"handler">>
  BY <1>5 DEF Todos
<1> QED
  BY <1>1, <1>2, <1>3, <1>4, <1>5 DEF Todos

\* What a step of a request has to leave behind for the invariant to hold.
Sound(q) ==
  /\ q \in Request
  /\ Usable(q.key) => q.could
  /\ authOn => \/ q.could
               \/ /\ q.code # 200 /\ ~q.tenant
                  /\ q.todo \notin {<<"limit", "handler">>, <<"handler">>}

LEMMA RequestStep ==
  ASSUME AccessInv, NEW r \in Requests, boot = "serving",
         Sound(req'[r]), req' = [req EXCEPT ![r] = req'[r]],
         touching' \subseteq Keys, UNCHANGED <<db, process>>
  PROVE  AccessInv'
BY DEF Sound, AccessInv, AccessTypeOK, SchemaComplete, AppliedIsMade,
       RequestKnows, ServedCouldPass, Usable, db, process, Boots

\* What the invariant says of one request.
LEMMA RequestIsSound ==
  ASSUME AccessInv, NEW r \in Requests PROVE Sound(req[r])
BY DEF Sound, AccessInv, AccessTypeOK, RequestKnows, ServedCouldPass

LEMMA FreeIsSound == Sound(Free)
BY AccessAssumption DEF Sound, Free, Ended, Request, Todos, Usable

LEMMA AnsweredIsSound ==
  ASSUME NEW r \in Requests, NEW code \in {200, 403}, Sound(req[r]),
         authOn /\ code = 200 => req[r].could
  PROVE  Sound(Done(r, code))
BY AccessAssumption DEF Sound, Done, Ended, Request, Todos, Usable

LEMMA GoesOnIsSound ==
  ASSUME NEW r \in Requests, Sound(req[r]), NEW q \in Request,
         q.key = req[r].key, q.could = req[r].could, q.code = req[r].code,
         authOn /\ (q.tenant \/ q.todo \in {<<"limit", "handler">>, <<"handler">>})
           => req[r].could
  PROVE  Sound(q)
BY DEF Sound

\* The two ways a request goes on, field by field.
LEMMA NextTodo ==
  ASSUME NEW q \in Request, NEW t \in Todos
  PROVE  /\ [q EXCEPT !.todo = t] \in Request
         /\ [q EXCEPT !.todo = t].key = q.key /\ [q EXCEPT !.todo = t].todo = t
         /\ [q EXCEPT !.todo = t].tenant = q.tenant
         /\ [q EXCEPT !.todo = t].could = q.could
         /\ [q EXCEPT !.todo = t].code = q.code
BY DEF Request

LEMMA NextTenant ==
  ASSUME NEW q \in Request, NEW b \in BOOLEAN
  PROVE  /\ [q EXCEPT !.tenant = b] \in Request
         /\ [q EXCEPT !.tenant = b].key = q.key /\ [q EXCEPT !.tenant = b].todo = q.todo
         /\ [q EXCEPT !.tenant = b].tenant = b
         /\ [q EXCEPT !.tenant = b].could = q.could
         /\ [q EXCEPT !.tenant = b].code = q.code
BY DEF Request

LEMMA ArrivedIsSound ==
  ASSUME NEW route \in Routes, NEW k \in Keys
  PROVE  Sound([key |-> k, todo |-> Chain(route), tenant |-> FALSE,
                could |-> Usable(k), code |-> 0])
<1> DEFINE q == [key |-> k, todo |-> Chain(route), tenant |-> FALSE,
                 could |-> Usable(k), code |-> 0]
<1>1. Chain(route) \in Todos \ {<<"limit", "handler">>, <<"handler">>}
  BY DEF Chain, Routes, Todos
<1>2. Usable(k) \in BOOLEAN
  BY DEF Usable
<1>3. q \in Request
  BY <1>1, <1>2 DEF Request
<1>4. /\ q.key = k /\ q.todo = Chain(route) /\ q.tenant = FALSE
      /\ q.could = Usable(k) /\ q.code = 0
  OBVIOUS
<1> HIDE DEF q
<1>5. Sound(q)
  BY <1>1, <1>2, <1>3, <1>4 DEF Sound
<1> QED
  BY <1>5 DEF q

LEMMA PassStep ==
  ASSUME NEW r \in Requests, Sound(req[r]), NEW t \in Todos, Tail(req[r].todo) = t
  PROVE  /\ Pass(r) \in Request /\ Pass(r).key = req[r].key /\ Pass(r).todo = t
         /\ Pass(r).tenant = req[r].tenant /\ Pass(r).could = req[r].could
         /\ Pass(r).code = req[r].code
<1>1. req[r] \in Request
  BY DEF Sound
<1>2. Pass(r) = [req[r] EXCEPT !.todo = t]
  BY DEF Pass
<1> QED
  BY <1>1, <1>2, NextTodo

\* The steps of the chain that leave a request sound keep the invariant.
LEMMA SlotStep ==
  ASSUME AccessInv, NEW r \in Requests, NEW q, Sound(q), req' = [req EXCEPT ![r] = q],
         boot = "serving", touching' \subseteq Keys, UNCHANGED <<db, process>>
  PROVE  AccessInv'
<1>1. req'[r] = q /\ req' = [req EXCEPT ![r] = req'[r]]
  BY DEF AccessInv, AccessTypeOK
<1> QED
  BY <1>1, RequestStep

\* What the invariant says of a request that is at a step of its chain.
LEMMA AtStepFacts ==
  ASSUME AccessInv, NEW r \in Requests, NEW step, AtStep(r, step)
  PROVE  /\ boot = "serving" /\ Sound(req[r]) /\ touching \subseteq Keys
         /\ req[r].todo \in Todos /\ req[r].todo # <<>> /\ Head(req[r].todo) = step
BY RequestIsSound DEF AtStep, AccessInv, AccessTypeOK, Sound, Request

LEMMA ArriveKeepsInv ==
  ASSUME AccessInv, NEW r \in Requests, NEW route \in Routes, NEW k \in Keys,
         Arrive(r, route, k)
  PROVE  AccessInv'
<1>1. Sound([key |-> k, todo |-> Chain(route), tenant |-> FALSE,
             could |-> Usable(k), code |-> 0])
  BY ArrivedIsSound
<1>2. touching' \subseteq Keys
  BY DEF Arrive, AccessInv, AccessTypeOK
<1> QED
  BY <1>1, <1>2, SlotStep DEF Arrive

LEMMA AdminOnlyKeepsInv ==
  ASSUME AccessInv, NEW r \in Requests, AdminOnly(r) PROVE AccessInv'
<1>1. /\ boot = "serving" /\ Sound(req[r]) /\ touching \subseteq Keys
      /\ req[r].todo \in Todos /\ req[r].todo # <<>> /\ Head(req[r].todo) = "admin"
  BY AtStepFacts DEF AdminOnly
<1>2. Tail(req[r].todo) = <<"auth", "handler">> /\ Tail(req[r].todo) \in Todos
  BY <1>1, Tails
<1>3. CASE req[r].tenant
  <2>1. Sound(Pass(r))
    <3>1. authOn => req[r].could
      BY <1>1, <1>3 DEF Sound
    <3> QED
      BY <1>1, <1>2, <3>1, PassStep, GoesOnIsSound
  <2> QED
    BY <1>1, <1>3, <2>1, SlotStep DEF AdminOnly
<1>4. CASE ~req[r].tenant
  <2>1. Sound(Done(r, 403))
    BY <1>1, AnsweredIsSound
  <2> QED
    BY <1>1, <1>4, <2>1, SlotStep DEF AdminOnly
<1> QED
  BY <1>3, <1>4

LEMMA HandleKeepsInv ==
  ASSUME AccessInv, NEW r \in Requests, Handle(r) PROVE AccessInv'
<1>1. /\ boot = "serving" /\ Sound(req[r]) /\ touching \subseteq Keys
      /\ req[r].todo \in Todos /\ req[r].todo # <<>> /\ Head(req[r].todo) = "handler"
  BY AtStepFacts DEF Handle
<1>2. authOn => req[r].could
  BY <1>1, Tails DEF Sound
<1>3. Sound(Done(r, 200))
  BY <1>1, <1>2, AnsweredIsSound
<1> QED
  BY <1>1, <1>3, SlotStep DEF Handle

\* A key that validates is known to have been usable.
LEMMA ValidKey ==
  ASSUME NEW r \in Requests, Sound(req[r]), NEW ok \in BOOLEAN, ValidateBearer(r, ok),
         touching \subseteq Keys
  PROVE  (ok => req[r].could) /\ touching' \subseteq Keys
BY DEF ValidateBearer, Usable, Sound

LEMMA HandleLoginKeepsInv ==
  ASSUME AccessInv, NEW r \in Requests, HandleLogin(r) PROVE AccessInv'
<1>1. boot = "serving" /\ Sound(req[r]) /\ touching \subseteq Keys
  BY AtStepFacts DEF HandleLogin
<1>2. PICK ok \in BOOLEAN :
        /\ ValidateBearer(r, ok)
        /\ req' = [req EXCEPT ![r] = IF ok THEN Done(r, 200) ELSE Free]
  BY DEF HandleLogin
<1>3. (ok => req[r].could) /\ touching' \subseteq Keys
  BY <1>1, <1>2, ValidKey
<1>4. CASE ok
  <2>1. Sound(Done(r, 200))
    BY <1>1, <1>3, <1>4, AnsweredIsSound
  <2> QED
    BY <1>1, <1>2, <1>3, <1>4, <2>1, SlotStep DEF HandleLogin
<1>5. CASE ~ok
  BY <1>1, <1>2, <1>3, <1>5, FreeIsSound, SlotStep DEF HandleLogin
<1> QED
  BY <1>4, <1>5

LEMMA CheckLimitKeepsInv ==
  ASSUME AccessInv, NEW r \in Requests, CheckLimit(r) PROVE AccessInv'
<1>1. /\ boot = "serving" /\ Sound(req[r]) /\ touching \subseteq Keys
      /\ req[r].todo \in Todos /\ req[r].todo # <<>> /\ Head(req[r].todo) = "limit"
  BY AtStepFacts DEF CheckLimit
<1>2. /\ req[r].todo = <<"limit", "handler">>
      /\ Tail(req[r].todo) = <<"handler">> /\ Tail(req[r].todo) \in Todos
  BY <1>1, Tails
<1>3. authOn => req[r].could
  BY <1>1, <1>2 DEF Sound
<1>4. Sound([Pass(r) EXCEPT !.tenant = TRUE])
  <2>1. Pass(r) \in Request /\ Pass(r).key = req[r].key
        /\ Pass(r).could = req[r].could /\ Pass(r).code = req[r].code
    BY <1>1, <1>2, PassStep
  <2> DEFINE q == [Pass(r) EXCEPT !.tenant = TRUE]
  <2>2. /\ q \in Request /\ q.key = req[r].key
        /\ q.could = req[r].could /\ q.code = req[r].code
    BY <2>1, NextTenant
  <2> HIDE DEF q
  <2>3. Sound(q)
    BY <1>1, <1>3, <2>2, GoesOnIsSound
  <2> QED
    BY <2>3 DEF q
<1>5. touching' \subseteq Keys
  BY <1>1 DEF CheckLimit
<1>6. CASE granted' = granted
  BY <1>1, <1>5, <1>6, FreeIsSound, SlotStep DEF CheckLimit
<1>7. CASE granted' # granted
  BY <1>1, <1>4, <1>5, <1>7, SlotStep DEF CheckLimit
<1> QED
  BY <1>6, <1>7

LEMMA AuthMiddlewareKeepsInv ==
  ASSUME AccessInv, NEW r \in Requests, AuthMiddleware(r) PROVE AccessInv'
<1>1. /\ boot = "serving" /\ Sound(req[r]) /\ touching \subseteq Keys
      /\ req[r].todo \in Todos /\ req[r].todo # <<>> /\ Head(req[r].todo) = "auth"
  BY AtStepFacts DEF AuthMiddleware
<1>2. Tail(req[r].todo) = <<"handler">> /\ Tail(req[r].todo) \in Todos
  BY <1>1, Tails
<1>3. UNCHANGED <<db, process>>
  BY DEF AuthMiddleware
<1>4. CASE req' = [req EXCEPT ![r] = Free] /\ UNCHANGED touching
  BY <1>1, <1>3, <1>4, FreeIsSound, SlotStep
<1>5. CASE /\ ~authOn /\ req' = [req EXCEPT ![r] = [Pass(r) EXCEPT !.tenant = TRUE]]
           /\ UNCHANGED touching
  <2>1. Pass(r) \in Request /\ Pass(r).key = req[r].key
        /\ Pass(r).could = req[r].could /\ Pass(r).code = req[r].code
    BY <1>1, <1>2, PassStep
  <2>2. Sound([Pass(r) EXCEPT !.tenant = TRUE])
    <3> DEFINE q == [Pass(r) EXCEPT !.tenant = TRUE]
    <3>1. /\ q \in Request /\ q.key = req[r].key
          /\ q.could = req[r].could /\ q.code = req[r].code
      BY <2>1, NextTenant
    <3> HIDE DEF q
    <3>2. Sound(q)
      BY <1>1, <1>5, <3>1, GoesOnIsSound
    <3> QED
      BY <3>2 DEF q
  <2> QED
    BY <1>1, <1>3, <1>5, <2>2, SlotStep
<1>6. ASSUME NEW ok \in BOOLEAN, ValidateBearer(r, ok),
             req' = [req EXCEPT ![r] =
                  IF ok THEN [@ EXCEPT !.todo = <<"limit", "handler">>] ELSE Free]
      PROVE  AccessInv'
  <2>1. (ok => req[r].could) /\ touching' \subseteq Keys
    BY <1>1, <1>6, ValidKey
  <2>2. CASE ok
    <3>2. <<"limit", "handler">> \in Todos
      BY DEF Todos
    <3>3. Sound([req[r] EXCEPT !.todo = <<"limit", "handler">>])
      <4>1. req[r] \in Request
        BY <1>1 DEF Sound
      <4> QED
        BY <1>1, <2>1, <2>2, <3>2, <4>1, NextTodo, GoesOnIsSound
    <3>4. req' = [req EXCEPT ![r] = [req[r] EXCEPT !.todo = <<"limit", "handler">>]]
      BY <1>6, <2>2
    <3> QED
      BY <1>1, <1>3, <2>1, <3>3, <3>4, SlotStep
  <2>3. CASE ~ok
    BY <1>1, <1>3, <1>6, <2>1, <2>3, FreeIsSound, SlotStep
  <2> QED
    BY <2>2, <2>3
<1> QED
  BY <1>4, <1>5, <1>6 DEF AuthMiddleware

\* Every step keeps the invariant.
LEMMA StepKeepsInv == AccessInv /\ [AccessNext]_accessVars => AccessInv'
<1> SUFFICES ASSUME AccessInv, [AccessNext]_accessVars PROVE AccessInv'
  OBVIOUS
<1>1. CASE Start
  BY <1>1, StartKeepsInv
<1>2. CASE Exit
  BY <1>2, ExitKeepsInv
<1>3. CASE \E r \in Requests : Serve(r)
  BY <1>3, ArriveKeepsInv, AdminOnlyKeepsInv, AuthMiddlewareKeepsInv,
     CheckLimitKeepsInv, HandleKeepsInv, HandleLoginKeepsInv DEF Serve
<1>4. CASE \E k \in Keys : InsertKey(k) \/ DeleteKey(k) \/ ExpireKey(k) \/ TouchAPIKey(k)
  BY <1>4, KeysKeepInv
<1>5. CASE Clock \/ UNCHANGED accessVars
  <2>1. UNCHANGED <<db, process, req, touching>>
    BY <1>5 DEF Clock, accessVars
  <2> QED
    BY <2>1 DEF AccessInv, AccessTypeOK, SchemaComplete, AppliedIsMade,
                RequestKnows, ServedCouldPass, Usable, db, process
<1> QED
  BY <1>1, <1>2, <1>3, <1>4, <1>5 DEF AccessNext

LEMMA AccessInvariant == AccessSpec => []AccessInv
BY InitInv, StepKeepsInv, PTL DEF AccessSpec

\* Whatever statement a migration was cut off at and however often the process was
\* started again, what comes after the migration finds the whole schema.
THEOREM SchemaIsComplete == AccessSpec => []SchemaComplete
<1>1. AccessInv => SchemaComplete
  BY DEF AccessInv
<1> QED
  BY <1>1, AccessInvariant, PTL

\* However requests, deletions, expiries and restarts interleave, with
\* authentication on nothing is served without a key that could be used while the
\* request was under way.
THEOREM OnlyKeysPass == AccessSpec => []ServedCouldPass
<1>1. AccessInv => ServedCouldPass
  BY DEF AccessInv
<1> QED
  BY <1>1, AccessInvariant, PTL
-----------------------------------------------------------------------------
(* The limiter in the chain *)

\* Every request that is on its way has a key the limiter knows.
LEMMA HeldBySlot ==
  ASSUME KeysHeld, req \in [Requests -> Request], NEW r \in Requests, NEW q,
         q.todo # <<>> => q.key \in Keys, req' = [req EXCEPT ![r] = q]
  PROVE  KeysHeld'
<1> SUFFICES ASSUME NEW x \in Requests, req'[x].todo # <<>> PROVE req'[x].key \in Keys
  BY DEF KeysHeld
<1>1. CASE x = r
  BY <1>1
<1>2. CASE x # r
  BY <1>2 DEF KeysHeld
<1> QED
  BY <1>1, <1>2

LEMMA KeysHeldStep == AccessInv /\ KeysHeld /\ [AccessNext]_accessVars => KeysHeld'
<1> SUFFICES ASSUME AccessInv, KeysHeld, [AccessNext]_accessVars PROVE KeysHeld'
  OBVIOUS
<1>1. req \in [Requests -> Request] /\ \A r \in Requests : Sound(req[r])
  BY RequestIsSound DEF AccessInv, AccessTypeOK
<1>2. CASE UNCHANGED req
  BY <1>2 DEF KeysHeld
<1>3. CASE Exit
  BY <1>3, FreeIsRequest DEF Exit, KeysHeld
<1>4. ASSUME NEW k \in Keys, InsertKey(k) PROVE KeysHeld'
  <2>1. ASSUME NEW r \in Requests
        PROVE  req'[r].todo = req[r].todo /\ req'[r].key = req[r].key
    <3>1. req[r] \in Request
      BY <1>1
    <3> QED
      BY <1>4, <3>1 DEF InsertKey, Request
  <2> QED
    BY <2>1 DEF KeysHeld
<1>5. ASSUME NEW r \in Requests, Serve(r) PROVE KeysHeld'
  <2>1. Free.todo = <<>> /\ \A code : Done(r, code).todo = <<>>
    BY DEF Free, Done, Ended
  <2>2. Pass(r).key = req[r].key /\ [Pass(r) EXCEPT !.tenant = TRUE].key = req[r].key
    <3>1. req[r] \in Request
      BY <1>1
    <3> QED
      BY <3>1 DEF Pass, Request
  <2>3. ASSUME NEW step, AtStep(r, step)
        PROVE  req[r].key \in Keys
    BY <2>3 DEF AtStep, KeysHeld
  <2>4. CASE \E route \in Routes, k \in Keys : Arrive(r, route, k)
    <3>1. PICK route \in Routes, k \in Keys : Arrive(r, route, k)
      BY <2>4
    <3> DEFINE q == [key |-> k, todo |-> Chain(route), tenant |-> FALSE,
                     could |-> Usable(k), code |-> 0]
    <3>2. q.key \in Keys /\ req' = [req EXCEPT ![r] = q]
      BY <3>1 DEF Arrive
    <3> HIDE DEF q
    <3> QED
      BY <1>1, <3>2, HeldBySlot
  <2>5. CASE AdminOnly(r)
    <3>1. PICK q : q \in {Pass(r), Done(r, 403)} /\ req' = [req EXCEPT ![r] = q]
      BY <2>5 DEF AdminOnly
    <3>2. req[r].key \in Keys
      BY <2>3, <2>5 DEF AdminOnly
    <3>3. q.todo # <<>> => q.key \in Keys
      BY <2>1, <2>2, <3>1, <3>2
    <3> QED
      BY <1>1, <3>1, <3>3, HeldBySlot
  <2>6. CASE AuthMiddleware(r)
    <3> DEFINE next == [req[r] EXCEPT !.todo = <<"limit", "handler">>]
    <3>1. PICK q : /\ q \in {Free, [Pass(r) EXCEPT !.tenant = TRUE], next}
                   /\ req' = [req EXCEPT ![r] = q]
      <4>1. [req EXCEPT ![r] = [@ EXCEPT !.todo = <<"limit", "handler">>]]
              = [req EXCEPT ![r] = next]
        OBVIOUS
      <4> HIDE DEF next
      <4> QED
        BY <1>1, <2>6, <4>1 DEF AuthMiddleware
    <3>2. next.key = req[r].key
      <4>1. req[r] \in Request
        BY <1>1
      <4> QED
        BY <4>1 DEF Request
    <3> HIDE DEF next
    <3>3. req[r].key \in Keys
      BY <2>3, <2>6 DEF AuthMiddleware
    <3> QED
      BY <1>1, <2>1, <2>2, <3>1, <3>2, <3>3, HeldBySlot
  <2>7. CASE CheckLimit(r)
    <3>1. PICK q : /\ q \in {Free, [Pass(r) EXCEPT !.tenant = TRUE]}
                   /\ req' = [req EXCEPT ![r] = q]
      BY <2>7 DEF CheckLimit
    <3> QED
      BY <1>1, <2>1, <2>2, <2>3, <2>7, <3>1, HeldBySlot DEF CheckLimit
  <2>8. CASE Handle(r)
    BY <1>1, <2>1, <2>8, HeldBySlot DEF Handle
  <2>9. CASE HandleLogin(r)
    <3>1. PICK q : q \in {Free, Done(r, 200)} /\ req' = [req EXCEPT ![r] = q]
      BY <2>9 DEF HandleLogin
    <3> QED
      BY <1>1, <2>1, <3>1, HeldBySlot
  <2> QED
    BY <1>5, <2>4, <2>5, <2>6, <2>7, <2>8, <2>9 DEF Serve
<1>6. ASSUME NEW k \in Keys, DeleteKey(k) \/ ExpireKey(k) \/ TouchAPIKey(k)
      PROVE  UNCHANGED req
  BY <1>6 DEF DeleteKey, ExpireKey, TouchAPIKey
<1>7. Start \/ Clock \/ UNCHANGED accessVars => UNCHANGED req
  BY DEF Start, OpenDb, ReadApplied, ApplyStatement, RecordMigration, CountKeys, SeedKey,
         Clock, accessVars
<1> QED
  BY <1>2, <1>3, <1>4, <1>5, <1>6, <1>7 DEF AccessNext

\* The limiter is ticked, asked, or starts again with its process.
LEMMA LimiterInChain ==
  AccessInv /\ KeysHeld /\ LimiterInv /\ [AccessNext]_accessVars => LimiterInv'
<1> SUFFICES ASSUME AccessInv, KeysHeld, LimiterInv, [AccessNext]_accessVars
             PROVE  LimiterInv'
  OBVIOUS
<1>1. CASE UNCHANGED vars
  BY <1>1, LimiterStep
<1>2. CASE Clock
  BY <1>2, TickInv DEF Clock
<1>3. CASE Exit
  <2>1. Init' => LimiterInv'
    BY LimiterInit, PTL
  <2>2. Init'
    BY <1>3 DEF Exit, Init
  <2> QED
    BY <2>1, <2>2
<1>4. ASSUME NEW r \in Requests, CheckLimit(r) PROVE LimiterInv'
  <2>1. req[r].key \in Keys /\ Allow(req[r].key)
    BY <1>4 DEF CheckLimit, AtStep, KeysHeld
  <2> QED
    BY <2>1, AllowInv
<1>5. ASSUME NEW r \in Requests, Serve(r), ~CheckLimit(r) PROVE UNCHANGED vars
  BY <1>5 DEF Serve, Arrive, AdminOnly, AuthMiddleware, Handle, HandleLogin, limiter
<1>6. ASSUME NEW k \in Keys, InsertKey(k) \/ DeleteKey(k) \/ ExpireKey(k) \/ TouchAPIKey(k)
      PROVE  UNCHANGED vars
  BY <1>6 DEF InsertKey, DeleteKey, ExpireKey, TouchAPIKey, limiter
<1>7. Start \/ UNCHANGED accessVars => UNCHANGED vars
  BY DEF Start, OpenDb, ReadApplied, ApplyStatement, RecordMigration, CountKeys, SeedKey,
         accessVars, limiter
<1> QED
  BY <1>1, <1>2, <1>3, <1>4, <1>5, <1>6, <1>7 DEF AccessNext

LEMMA LimiterHoldsInChain == AccessSpec => []LimiterInv
<1>1. AccessInit => KeysHeld /\ LimiterInv
  BY LimiterInit, FreeIsRequest DEF AccessInit, KeysHeld
<1> QED
  BY <1>1, AccessInvariant, KeysHeldStep, LimiterInChain, PTL DEF AccessSpec

\* However requests with the same key pass the chain at once, and however often the
\* process is started again, a process grants no key more than its limit in a window.
THEOREM RateBoundedInChain == AccessSpec => []RateBound
BY LimiterHoldsInChain, PTL DEF LimiterInv

\* What the limiter remembers of a key is the end of what the chain let pass with it.
THEOREM WindowKeptInChain == AccessSpec => []WindowIsHistory
BY LimiterHoldsInChain, PTL DEF LimiterInv

\* The chain answers 429 when Allow refuses, and whenever it refused a request, as many
\* as the limit of its key had been let pass in the window before.
THEOREM RefusalsJustifiedInChain == AccessSpec => []NoFalseRefusal
BY LimiterHoldsInChain, PTL DEF LimiterInv

-----------------------------------------------------------------------------
(* The admission of a pod *)

\* What a call of HandleMutate may add to a pod: one sidecar, where there is none.
LEMMA InjectedOnce ==
  ASSUME NEW p \in Pod(Seq(Names)), Sidecar \in Names
  PROVE  /\ Injected(p) \in Pod(Seq(Names))
         /\ Injected(p).namespace = p.namespace /\ Injected(p).inject = p.inject
         /\ Has(Injected(p))
         /\ ~Has(p) => Cardinality(SidecarsIn(Injected(p).containers)) = 1
<1> DEFINE cs == p.containers
           ds == Append(cs, Sidecar)
<1>1. /\ p \in [namespace : Namespaces \union {NoName},
                inject : {"absent", "true", "false"}, containers : Seq(Names)]
      /\ cs \in Seq(Names)
  BY DEF Pod
<1>2. ds \in Seq(Names)
  BY <1>1
<1>3. /\ Injected(p).namespace = p.namespace /\ Injected(p).inject = p.inject
      /\ Injected(p).containers = ds /\ Injected(p) \in Pod(Seq(Names))
  BY <1>1, <1>2 DEF Injected, Pod
<1>4. /\ Len(cs) \in Nat /\ DOMAIN cs = 1 .. Len(cs) /\ DOMAIN ds = 1 .. Len(cs) + 1
      /\ ds[Len(cs) + 1] = Sidecar /\ \A i \in 1 .. Len(cs) : ds[i] = cs[i]
  BY <1>1
<1>5. Len(cs) + 1 \in SidecarsIn(ds)
  <2>1. Len(cs) + 1 \in DOMAIN ds
    BY <1>4
  <2> HIDE DEF ds
  <2> QED
    BY <1>4, <2>1 DEF SidecarsIn
<1>6. ASSUME ~Has(p) PROVE SidecarsIn(ds) = {Len(cs) + 1}
  <2>1. \A i \in 1 .. Len(cs) : cs[i] # Sidecar
    BY <1>4, <1>6 DEF Has, SidecarsIn
  <2> HIDE DEF ds
  <2> QED
    BY <1>4, <2>1 DEF SidecarsIn
<1> HIDE DEF ds
<1> QED
  BY <1>3, <1>5, <1>6, FS_Singleton DEF Has

\* The pods the API server is sent.
LEMMA SentPods ==
  ASSUME NEW p \in Pod(Lists)
  PROVE  /\ p \in Pod(Seq(Names)) /\ Cardinality(SidecarsIn(p.containers)) \in {0, 1}
BY WebhookAssumption DEF WebhookAssumption, Pod

\* A pod that a hook matches and that may be injected is injected.
LEMMA MutateDecides ==
  ASSUME NEW p, NEW hook \in Hooks, Matches(hook, p)
  PROVE  HandleMutate(p) = IF ~Has(p) /\ p.namespace \notin SystemNamespaces
                             THEN Injected(p) ELSE p
BY DEF Matches, HandleMutate, NeedsInjection, Hooks

\* One more hook is called.
LEMMA CallKeepsInv == ASSUME WebhookInv, NEW hook \in Hooks, CallHook(hook) PROVE WebhookInv'
<1> DEFINE wanted == ~Has(sent) /\ sent.namespace \notin SystemNamespaces
<1>1. WebhookTypeOK'
  BY DEF WebhookInv, WebhookTypeOK, CallHook, cluster
<1>2. /\ hook \in due /\ due' = due \ {hook} /\ sent' = sent /\ due \subseteq Hooks
      /\ pod' = IF Matches(hook, pod) THEN HandleMutate(pod) ELSE pod
      /\ \A h, p : Matches(h, p)' <=> Matches(h, p')
  BY DEF WebhookInv, WebhookTypeOK, CallHook, cluster, Matches
<1>3. Hooks \ due' = (Hooks \ due) \union {hook}
  BY <1>2
<1>4. /\ Injected(sent).namespace = sent.namespace /\ Injected(sent).inject = sent.inject
      /\ Has(Injected(sent))
  BY WebhookAssumption, InjectedOnce DEF WebhookInv, WebhookTypeOK, WebhookAssumption
<1>5. Matches(hook, Injected(sent)) <=> Matches(hook, sent)
  BY <1>4 DEF Matches
<1>6. CASE wanted /\ \E h \in Hooks \ due : Matches(h, sent)
  <2>1. pod = Injected(sent)
    BY <1>6 DEF WebhookInv, CallsSoFar
  <2>2. pod' = pod
    BY <1>2, <1>4, <2>1, MutateDecides
  <2> QED
    BY <1>1, <1>2, <1>3, <1>6, <2>1, <2>2 DEF WebhookInv, CallsSoFar, Has, Matches, CallHook, cluster
<1>7. CASE ~(wanted /\ \E h \in Hooks \ due : Matches(h, sent))
  <2>1. pod = sent
    BY <1>7 DEF WebhookInv, CallsSoFar
  <2>2. pod' = IF Matches(hook, sent) /\ wanted THEN Injected(sent) ELSE sent
    BY <1>2, <2>1, MutateDecides
  <2>3. (wanted /\ \E h \in Hooks \ due' : Matches(h, sent)) <=> (wanted /\ Matches(hook, sent))
    BY <1>3, <1>7
  <2> QED
    BY <1>1, <1>2, <2>2, <2>3 DEF WebhookInv, CallsSoFar, Has, Matches, CallHook, cluster
<1> QED
  BY <1>6, <1>7

LEMMA WebhookStep == WebhookInv /\ [WebhookNext]_webhookVars => WebhookInv'
<1> SUFFICES ASSUME WebhookInv, [WebhookNext]_webhookVars PROVE WebhookInv'
  OBVIOUS
<1>1. CASE CreateAgain
  <2>1. PICK name \in {home', NoName} : pod' = [pod EXCEPT !.namespace = name]
    BY <1>1 DEF CreateAgain
  <2>2. pod \in Pod(Seq(Names)) /\ Cardinality(SidecarsIn(pod.containers)) \in {0, 1}
    BY WebhookAssumption, InjectedOnce DEF WebhookInv, WebhookTypeOK, CallsSoFar, WebhookAssumption
  <2>3. /\ pod' \in Pod(Seq(Names)) /\ pod'.namespace = name
        /\ pod'.containers = pod.containers
    BY <1>1, <2>1, <2>2 DEF CreateAgain, Pod
  <2> QED
    BY <1>1, <2>2, <2>3 DEF CreateAgain, WebhookInv, WebhookTypeOK, CallsSoFar
<1>2. CASE RefusePod
  BY <1>2 DEF RefusePod, WebhookInv, WebhookTypeOK, CallsSoFar, cluster
<1>3. CASE UNCHANGED webhookVars
  BY <1>3 DEF webhookVars, cluster, WebhookInv, WebhookTypeOK, CallsSoFar, Matches
<1> QED
  BY <1>1, <1>2, <1>3, CallKeepsInv DEF WebhookNext

LEMMA WebhookInvariant == WebhookSpec => []WebhookInv
<1>1. WebhookInit => WebhookInv
  BY SentPods DEF WebhookInit, WebhookInv, WebhookTypeOK, CallsSoFar
<1> QED
  BY <1>1, WebhookStep, PTL DEF WebhookSpec

\* In any cluster and for any pod, in whatever order the hooks are called and however
\* often it is refused or created again: an admitted pod that asks outside of the
\* system namespaces has one sidecar, one that came with a sidecar has that one, and any
\* other has none, but for objects that leave a system namespace out.
THEOREM InjectionExact == WebhookSpec => []InjectionIsExact
<1>1. ASSUME WebhookInv PROVE InjectionIsExact
  <2> SUFFICES ASSUME Admitted, home \in SystemNamespaces => sent.namespace = home
               PROVE  Cardinality(SidecarsIn(pod.containers)) =
                        IF Has(sent) \/ (Asks /\ home \notin SystemNamespaces) THEN 1 ELSE 0
    BY DEF InjectionIsExact
  <2>1. sent.namespace \in SystemNamespaces <=> home \in SystemNamespaces
    BY <1>1, WebhookAssumption DEF WebhookInv, WebhookTypeOK, WebhookAssumption
  <2>2. (\E hook \in Hooks \ due : Matches(hook, sent)) <=> Asks
    BY DEF Admitted, Hooks, Matches, Asks
  <2>3. pod = IF ~Has(sent) /\ Asks /\ home \notin SystemNamespaces THEN Injected(sent) ELSE sent
    BY <1>1, <2>1, <2>2 DEF WebhookInv, CallsSoFar
  <2>4. ~Has(sent) => Cardinality(SidecarsIn(sent.containers)) = 0
    BY FS_EmptySet DEF Has
  <2>5. Has(sent) => Cardinality(SidecarsIn(sent.containers)) = 1
    <3>1. IsFiniteSet(SidecarsIn(sent.containers))
      <4>1. sent.containers \in Seq(Names)
        BY <1>1 DEF WebhookInv, WebhookTypeOK, Pod
      <4>2. /\ Len(sent.containers) \in Int /\ 1 \in Int
            /\ SidecarsIn(sent.containers) \subseteq 1 .. Len(sent.containers)
        BY <4>1 DEF SidecarsIn
      <4>3. IsFiniteSet(1 .. Len(sent.containers))
        BY <4>2, FS_Interval
      <4> QED
        BY <4>2, <4>3, FS_Subset
    <3> QED
      BY <1>1, <3>1, FS_EmptySet DEF Has, WebhookInv, WebhookTypeOK
  <2>6. ~Has(sent) => Cardinality(SidecarsIn(Injected(sent).containers)) = 1
    BY <1>1, WebhookAssumption, InjectedOnce DEF WebhookInv, WebhookTypeOK, WebhookAssumption
  <2> QED
    BY <2>3, <2>4, <2>5, <2>6
<1> QED
  BY <1>1, WebhookInvariant, PTL
=============================================================================
