------------------------------- MODULE Access -------------------------------
(***************************************************************************)
(* How the control plane comes up and whom it lets in: NewStore with its   *)
(* migration and bootstrap key (store.go), and the chain of middlewares of *)
(* every request (AuditLogger, AdminOnly, AuthMiddleware and the rate      *)
(* limiter, server.go:135-187), with handleLogin.                          *)
(*                                                                         *)
(* The statements of a migration take effect one by one.  The process may  *)
(* end between any two steps and is started again; only the database       *)
(* survives.  Keys are put in and taken out by an operator's SQL, for the  *)
(* handlers of /api/keys are never reached.                                *)
(***************************************************************************)
EXTENDS RateLimiter

CONSTANTS Requests,    \* requests served at the same time; a slot is used again
          Bootstrap,   \* the key that migrate seeds
          NoKey,       \* the key of a free slot
          Statements   \* the number of statements of the migration

ASSUME AccessAssumption ==
  /\ Bootstrap \in Keys /\ NoKey \notin Keys
  /\ Statements \in Nat \ {0}

VARIABLES made,      \* database: how many statements have taken effect
          recorded,  \* database: schema_migrations has the migration
          keyRow,    \* database: api_keys, each key "none", "live" or "expired"
          boot,      \* where the start of the process is
          at,        \* the statements this start has executed
          authOn,    \* AUTH_ENABLED of this process
          req,       \* req[r]: a request and what is left of its chain
          touching   \* keys whose last_used_at is about to be written

db == <<made, recorded, keyRow>>
limiter == vars
process == <<boot, at, authOn>>
accessVars == <<limiter, db, process, req, touching>>

Boots == {"down", "read", "apply", "tenant", "seed", "serving"}

Routes == {"api", "admin", "login"}

\* What a request passes, from the outside in.  AuditLogger comes before: it reads
\* the tenant of the outer context, where there is none, and lets every request
\* pass; what it inserts afterwards lacks created_at, which is NOT NULL, so no row
\* is ever stored.
Chain(route) == CASE route = "api"   -> <<"auth", "handler">>
                  [] route = "admin" -> <<"admin", "auth", "handler">>
                  [] route = "login" -> <<"login">>

\* A slot without a request.  Of the last one it had, only what a property asks
\* for is kept: whether it was served or forbidden, and its key could be used.
Ended(could, code) == [key |-> NoKey, todo |-> <<>>, tenant |-> FALSE,
                       could |-> could, code |-> code]
Free == Ended(FALSE, 0)

AccessInit ==
  /\ Init
  /\ made = 0 /\ recorded = FALSE /\ keyRow = [k \in Keys |-> "none"]
  /\ boot = "down" /\ at = 0 /\ authOn = FALSE
  /\ req = [r \in Requests |-> Free]
  /\ touching = {}

-----------------------------------------------------------------------------
(* Mutants *)

\* The migration is recorded before it is applied.
RecordMigrationFirst ==
  /\ boot = "apply"
  /\ recorded' \in {recorded, TRUE}
  /\ IF at = Statements THEN boot' = "tenant" ELSE UNCHANGED boot
  /\ UNCHANGED <<limiter, made, keyRow, at, authOn, req, touching>>

-----------------------------------------------------------------------------
(* NewStore and migrate *)

\* The database is opened, schema_migrations created if it is not there, and read.
OpenDb ==
  /\ boot = "down"
  /\ boot' = "read"
  /\ authOn' \in BOOLEAN
  /\ at' = 0
  /\ UNCHANGED <<limiter, db, req, touching>>

ReadApplied ==
  /\ boot = "read"
  /\ boot' = IF recorded THEN "tenant" ELSE "apply"
  /\ UNCHANGED <<limiter, db, at, authOn, req, touching>>

\* CREATE ... IF NOT EXISTS: one that has taken effect before changes nothing.
ApplyStatement ==
  /\ boot = "apply" /\ at < Statements
  /\ at' = at + 1
  /\ made' = IF made < at + 1 THEN at + 1 ELSE made
  /\ UNCHANGED <<limiter, recorded, keyRow, boot, authOn, req, touching>>

\* The error of the INSERT is ignored.
RecordMigration ==
  /\ boot = "apply" /\ at = Statements
  /\ boot' = "tenant"
  /\ recorded' \in {recorded, TRUE}
  /\ UNCHANGED <<limiter, made, keyRow, at, authOn, req, touching>>

\* INSERT OR IGNORE of the default tenant, and the count of the keys; when the
\* count fails no key is seeded.
CountKeys ==
  /\ boot = "tenant"
  /\ \/ boot' = "serving"
     \/ boot' = "seed" /\ \A k \in Keys : keyRow[k] = "none"
  /\ UNCHANGED <<limiter, db, at, authOn, req, touching>>

\* Its error is ignored too, and it changes nothing when there is such a key by now.
SeedKey ==
  /\ boot = "seed"
  /\ boot' = "serving"
  /\ \/ UNCHANGED keyRow
     \/ keyRow[Bootstrap] = "none" /\ keyRow' = [keyRow EXCEPT ![Bootstrap] = "live"]
  /\ UNCHANGED <<limiter, made, recorded, at, authOn, req, touching>>

\* An error of the migration ends the process; so may a crash, at any time.  The
\* limiter, its history and its clock start again with the next one.
Exit ==
  /\ boot # "down"
  /\ boot' = "down" /\ at' = 0 /\ authOn' = FALSE
  /\ now' = 0
  /\ windows' = [k \in Keys |-> <<>>]
  /\ granted' = [k \in Keys |-> <<>>]
  /\ refused' = [k \in Keys |-> {}]
  /\ req' = [r \in Requests |-> Free]
  /\ touching' = {}
  /\ UNCHANGED db

-----------------------------------------------------------------------------
(* The operator *)

Tables == made = Statements

\* could: a request may hold a key that came in after it did.
InsertKey(k) ==
  /\ Tables /\ keyRow[k] = "none"
  /\ keyRow' = [keyRow EXCEPT ![k] = "live"]
  /\ req' = [r \in Requests |-> IF req[r].key = k THEN [req[r] EXCEPT !.could = TRUE]
                                                  ELSE req[r]]
  /\ UNCHANGED <<limiter, made, recorded, process, touching>>

DeleteKey(k) ==
  /\ keyRow[k] # "none"
  /\ keyRow' = [keyRow EXCEPT ![k] = "none"]
  /\ UNCHANGED <<limiter, made, recorded, process, req, touching>>

\* expires_at is reached; the bootstrap key has none.
ExpireKey(k) ==
  /\ k # Bootstrap /\ keyRow[k] = "live"
  /\ keyRow' = [keyRow EXCEPT ![k] = "expired"]
  /\ UNCHANGED <<limiter, made, recorded, process, req, touching>>

-----------------------------------------------------------------------------
(* Requests *)

AtStep(r, step) == boot = "serving" /\ req[r].todo # <<>> /\ Head(req[r].todo) = step

Usable(k) == k \in Keys /\ keyRow[k] = "live"

Pass(r) == [req[r] EXCEPT !.todo = Tail(@)]
Done(r, code) == Ended(req[r].could, code)

Arrive(r, route, k) ==
  /\ boot = "serving" /\ req[r].todo = <<>>
  /\ req' = [req EXCEPT ![r] = [key |-> k, todo |-> Chain(route), tenant |-> FALSE,
                                 could |-> Usable(k), code |-> 0]]
  /\ UNCHANGED <<limiter, db, process, touching>>

\* All keys are admins here: the others only have one more way to 403.
AdminOnly(r) ==
  /\ AtStep(r, "admin")
  /\ req' = [req EXCEPT ![r] = IF req[r].tenant THEN Pass(r) ELSE Done(r, 403)]
  /\ UNCHANGED <<limiter, db, process, touching>>

\* Mutant: a key that was used lately is not looked up again.
ValidateBearerCached(r, ok) ==
  /\ ok => (Usable(req[r].key) \/ (req[r].key \in Keys /\ windows[req[r].key] # <<>>))
  /\ touching' = IF ok THEN touching \union {req[r].key} ELSE touching

\* ValidateBearer: the key is looked up for every request.  ok may be FALSE for any
\* key: the database fails, or the token is missing or another one.
ValidateBearer(r, ok) ==
  /\ ok => Usable(req[r].key)
  /\ touching' = IF ok THEN touching \union {req[r].key} ELSE touching

\* AuthMiddleware up to the limiter.  A preflight ends here (204), and a request
\* without a usable key (401).
AuthMiddleware(r) ==
  /\ AtStep(r, "auth")
  /\ \/ /\ req' = [req EXCEPT ![r] = Free]
        /\ UNCHANGED touching
     \/ /\ ~authOn
        /\ req' = [req EXCEPT ![r] = [Pass(r) EXCEPT !.tenant = TRUE]]
        /\ UNCHANGED touching
     \/ /\ authOn
        /\ \E ok \in BOOLEAN :
             /\ ValidateBearer(r, ok)
             /\ req' = [req EXCEPT ![r] =
                  IF ok THEN [@ EXCEPT !.todo = <<"limit", "handler">>] ELSE Free]
  /\ UNCHANGED <<limiter, db, process>>

\* The rate limit check (429), and the tenant in the context of what follows.
CheckLimit(r) ==
  /\ AtStep(r, "limit")
  /\ Allow(req[r].key)
  /\ req' = [req EXCEPT ![r] = IF granted' = granted THEN Free
                                ELSE [Pass(r) EXCEPT !.tenant = TRUE]]
  /\ UNCHANGED <<db, process, touching>>

Handle(r) ==
  /\ AtStep(r, "handler")
  /\ req' = [req EXCEPT ![r] = Done(r, 200)]
  /\ UNCHANGED <<limiter, db, process, touching>>

\* handleLogin, which no middleware wraps: whether authentication is on or off,
\* the key is validated.
HandleLogin(r) ==
  /\ AtStep(r, "login")
  /\ \E ok \in BOOLEAN : /\ ValidateBearer(r, ok)
                         /\ req' = [req EXCEPT ![r] = IF ok THEN Done(r, 200) ELSE Free]
  /\ UNCHANGED <<limiter, db, process>>

\* TouchAPIKey, in a goroutine of its own: an UPDATE, which may find no row.
TouchAPIKey(k) ==
  /\ boot = "serving" /\ k \in touching
  /\ touching' = touching \ {k}
  /\ UNCHANGED <<limiter, db, process, req>>

\* The clock of the limiter runs with its process.
Clock == boot = "serving" /\ Tick /\ UNCHANGED <<db, process, req, touching>>

Start == OpenDb \/ ReadApplied \/ ApplyStatement \/ RecordMigration \/ CountKeys \/ SeedKey

Serve(r) == \/ \E route \in Routes, k \in Keys : Arrive(r, route, k)
            \/ AdminOnly(r) \/ AuthMiddleware(r) \/ CheckLimit(r)
            \/ Handle(r) \/ HandleLogin(r)

AccessNext ==
  \/ Start \/ Exit \/ Clock
  \/ \E r \in Requests : Serve(r)
  \/ \E k \in Keys : InsertKey(k) \/ DeleteKey(k) \/ ExpireKey(k) \/ TouchAPIKey(k)

AccessSpec == AccessInit /\ [][AccessNext]_accessVars
-----------------------------------------------------------------------------
(* Properties *)

\* The code goes on only after a whole schema: a migration that is recorded, or
\* that this process has passed, has taken full effect, whatever statement an
\* earlier start was cut off at, and there are no keys without their table.
SchemaComplete ==
  /\ (recorded \/ boot \in {"tenant", "seed", "serving"}) => made = Statements
  /\ (\E k \in Keys : keyRow[k] # "none") => made = Statements

\* With authentication on, a handler runs, and a login succeeds, only for a key
\* that could be used at some time since the request came in.
ServedCouldPass ==
  \A r \in Requests :
    authOn /\ (req[r].code = 200 \/ req[r].tenant) => req[r].could

\* "AdminOnly middleware guard - use after AuthMiddleware in handler registration"
\* (middleware.go:104), "AuthMiddleware wraps handler, then AdminOnly wraps the
\* result" (server.go:158): the keys being admins, no request that comes with a
\* usable key is forbidden.
AdminReachable ==
  \A r \in Requests : req[r].code = 403 => ~req[r].could

-----------------------------------------------------------------------------
(* The inductive invariant *)

Todos == {<<>>, <<"login">>, <<"admin", "auth", "handler">>, <<"auth", "handler">>,
          <<"limit", "handler">>, <<"handler">>}

Request == [key : Keys \union {NoKey}, todo : Todos, tenant : BOOLEAN,
            could : BOOLEAN, code : {0, 200, 403}]

AccessTypeOK ==
  /\ made \in 0 .. Statements /\ at \in 0 .. Statements
  /\ recorded \in BOOLEAN /\ authOn \in BOOLEAN
  /\ keyRow \in [Keys -> {"none", "live", "expired"}]
  /\ boot \in Boots
  /\ req \in [Requests -> Request]
  /\ touching \subseteq Keys

\* What this start has executed has taken effect.
AppliedIsMade == boot \in {"read", "apply"} => at <= made

\* A request holds what it was told of its key: it knows of every time the key
\* could be used, and is past authentication only when there was one.
RequestKnows ==
  \A r \in Requests :
    /\ Usable(req[r].key) => req[r].could
    /\ authOn /\ req[r].todo \in {<<"limit", "handler">>, <<"handler">>} => req[r].could
    /\ boot # "serving" => req[r] = Free

\* A request that has something to pass came with a key.
KeysHeld == \A r \in Requests : req[r].todo # <<>> => req[r].key \in Keys

AccessInv == /\ AccessTypeOK /\ SchemaComplete /\ AppliedIsMade
             /\ RequestKnows /\ ServedCouldPass
=============================================================================
