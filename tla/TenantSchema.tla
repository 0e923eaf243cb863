---------------------------- MODULE TenantSchema ----------------------------
(***************************************************************************)
(* How the program chooses the tenant a statement works on: a database     *)
(* connection has a search_path, a thread has the context variable         *)
(* _current_schema, and a request or task changes both through             *)
(* apps/core/tenant_utils.py, in blocks that nest with the blocks of       *)
(* transaction.atomic().                                                   *)
(*                                                                         *)
(* `want` is what the text of the program asks for at a point: the schema  *)
(* of the innermost block, or the one the request was authenticated into.  *)
(* A server is a PostgreSQL session.  Without a pooler every thread keeps  *)
(* a session of its own; behind PgBouncer (pool_mode = transaction) a      *)
(* session belongs to a thread for one statement or one transaction.       *)
(***************************************************************************)
EXTENDS Naturals, Sequences

CONSTANTS
  Tenants,    \* schema names of the centers
  Public,     \* the schema "public"
  WebThreads,  \* threads that serve web requests
  Tasks,      \* Celery worker processes
  Servers,    \* PostgreSQL sessions
  Own,        \* Own[h]: the session thread h has opened, without a pooler
  Pooled,     \* is PgBouncer between the threads and the sessions?
  NoSession,  \* no session
  MaxDepth    \* bound on the nesting of schema and atomic blocks

Handlers == WebThreads \cup Tasks
Schemas  == Tenants \cup {Public}

ASSUME SchemasAssumption  == Public \notin Tenants /\ NoSession \notin Schemas \cup Servers
ASSUME HandlersAssumption == WebThreads \cap Tasks = {}
ASSUME OwnAssumption ==
  /\ Own \in [Handlers -> Servers]
  /\ \A g, h \in Handlers : Own[g] = Own[h] => g = h
ASSUME PooledAssumption == Pooled \in BOOLEAN
ASSUME DepthAssumption  == MaxDepth \in Nat

VARIABLES
  path,     \* path[s]: the first schema of session s's search_path
  conn,     \* conn[h]: the session h holds, or NoSession
  ctx,      \* ctx[h]: _current_schema in h's context
  phase,    \* phase[h]: between requests, before or after authentication
  want,     \* want[h]: the schema the program text asks for
  blocks,   \* blocks[h]: the schema and atomic blocks entered, innermost last
  aborted   \* aborted[h]: a statement of h's transaction has failed

tenantVars == <<path, conn, ctx, phase, want, blocks, aborted>>

\* A schema block remembers the context variable, an atomic block what its
\* rollback brings the search_path back to; both the schema wanted outside.
Block == [kind : {"schema", "atomic"}, saved : Schemas, outer : Schemas]

-----------------------------------------------------------------------------
(* The session a statement runs on.                                        *)

Usable(h) == IF conn[h] # NoSession THEN {conn[h]}
             ELSE {s \in Servers : \A g \in Handlers : conn[g] # s}

Depth(h)    == Len(blocks[h])
Top(h)      == blocks[h][Depth(h)]
Outer(h)    == SubSeq(blocks[h], 1, Depth(h) - 1)
In(h, k)    == Depth(h) > 0 /\ Top(h).kind = k
InAtomic(h) == \E i \in 1..Depth(h) : blocks[h][i].kind = "atomic"

\* SET search_path, one statement on one session.
Set(s, x) == path' = [path EXCEPT ![s] = x]

Ctx(h, x)   == ctx' = [ctx EXCEPT ![h] = x]
Want(h, x)  == want' = [want EXCEPT ![h] = x]
Phase(h, p) == phase' = [phase EXCEPT ![h] = p]

Push(h, k, x) == blocks' = [blocks EXCEPT ![h] =
                   Append(@, [kind |-> k, saved |-> x, outer |-> want[h]])]

\* Leaving the innermost block brings back the schema wanted around it.
Pop(h) == /\ blocks' = [blocks EXCEPT ![h] = Outer(h)]
          /\ Want(h, Top(h).outer)

DefaultSchema == Public

-----------------------------------------------------------------------------
(* A web request: reset, authenticate, work, reset.                        *)

\* SchemaResetWrapperMiddleware, before the request is handled.
BeginRequest(h) ==
  /\ phase[h] = "idle"
  /\ \E s \in Usable(h) : Set(s, Public)
  /\ Ctx(h, Public) /\ Phase(h, "auth")
  /\ UNCHANGED <<conn, want, blocks, aborted>>

\* TenantAwareJWTAuthentication, for a user of center t: set_public_schema,
\* read user and center, set_tenant_schema.
Authenticate(h, t) ==
  /\ phase[h] = "auth"
  /\ \E r, s \in Usable(h) : path' = [path EXCEPT ![r] = Public, ![s] = t]
  /\ Ctx(h, t) /\ Want(h, t) /\ Phase(h, "body")
  /\ UNCHANGED <<conn, blocks, aborted>>

\* No credentials, or a user without a center.
StayPublic(h) ==
  /\ phase[h] = "auth"
  /\ \E s \in Usable(h) : Set(s, Public)
  /\ Ctx(h, Public) /\ Phase(h, "body")
  /\ UNCHANGED <<conn, want, blocks, aborted>>

PathKept(s) == path   \* fault: the middleware's finally is dropped

PathReset(s) == [path EXCEPT ![s] = Public]

\* SchemaResetWrapperMiddleware's finally: after the response, a refused
\* authentication or an exception.
EndRequest(h) ==
  /\ phase[h] # "idle" /\ blocks[h] = <<>>
  /\ \E s \in Usable(h) : path' = PathReset(s)
  /\ Ctx(h, Public) /\ Want(h, Public) /\ Phase(h, "idle")
  /\ UNCHANGED <<conn, blocks, aborted>>

\* A view of the public models, or a task of the centers app, calls
\* set_public_schema for the rest of it.
GoPublic(h) ==
  /\ phase[h] = "body" /\ blocks[h] = <<>>
  /\ \E s \in Usable(h) : Set(s, Public)
  /\ Ctx(h, Public) /\ Want(h, Public)
  /\ UNCHANGED <<conn, phase, blocks, aborted>>

\* Nothing resets the schema when a task starts or ends.
BeginTask(h) ==
  /\ phase[h] = "idle"
  /\ Phase(h, "body")
  /\ UNCHANGED <<path, conn, ctx, want, blocks, aborted>>

EndTask(h) ==
  /\ phase[h] = "body" /\ blocks[h] = <<>>
  /\ Phase(h, "idle")
  /\ UNCHANGED <<path, conn, ctx, want, blocks, aborted>>

-----------------------------------------------------------------------------
(* Blocks: schema_context(x), and with_public_schema for x = Public.       *)

CanEnter(h) == phase[h] = "body" /\ Depth(h) < MaxDepth

Enter(h, x) ==
  /\ CanEnter(h) /\ ~aborted[h]
  /\ \E s \in Usable(h) : Set(s, x)
  /\ Push(h, "schema", ctx[h])
  /\ Ctx(h, x) /\ Want(h, x)
  /\ UNCHANGED <<conn, phase, aborted>>

\* In an aborted transaction set_public_schema swallows the error, so
\* with_public_schema still runs its function.
EnterPublicAborted(h) ==
  /\ CanEnter(h) /\ aborted[h]
  /\ Push(h, "schema", ctx[h])
  /\ Ctx(h, Public) /\ Want(h, Public)
  /\ UNCHANGED <<path, conn, phase, aborted>>

\* set_tenant_schema raises there: schema_context restores and raises too,
\* and both ways to restore end in set_public_schema.
EnterTenantAborted(h) ==
  /\ CanEnter(h) /\ aborted[h]
  /\ Ctx(h, Public)
  /\ UNCHANGED <<path, conn, phase, want, blocks, aborted>>

RestoredNothing(h) == ctx[h]   \* fault: the finally clause is dropped
RestoredPublic(h)  == Public   \* fault: restores "public" whatever was saved

Restored(h) == Top(h).saved

\* Whatever was saved, when the SET fails the context becomes "public".
CtxAfterError(h) == Public

\* The finally clause of a schema block.
Exit(h) ==
  /\ In(h, "schema")
  /\ IF aborted[h]
       THEN Ctx(h, CtxAfterError(h)) /\ UNCHANGED path
       ELSE Ctx(h, Restored(h)) /\ \E s \in Usable(h) : Set(s, Restored(h))
  /\ Pop(h)
  /\ UNCHANGED <<conn, phase, aborted>>

-----------------------------------------------------------------------------
(* Transactions.                                                           *)

\* BEGIN, or SAVEPOINT inside another atomic block.
BeginAtomic(h) ==
  /\ CanEnter(h) /\ ~aborted[h]
  /\ \E s \in Usable(h) :
       conn' = [conn EXCEPT ![h] = s] /\ Push(h, "atomic", path[s])
  /\ UNCHANGED <<path, ctx, phase, want, aborted>>

\* A statement of the transaction fails.
StatementFails(h) ==
  /\ InAtomic(h) /\ ~aborted[h]
  /\ aborted' = [aborted EXCEPT ![h] = TRUE]
  /\ UNCHANGED <<path, conn, ctx, phase, want, blocks>>

Released(h) ==
  IF Pooled /\ \A i \in 1..(Depth(h) - 1) : blocks[h][i].kind # "atomic"
    THEN NoSession ELSE conn[h]

\* COMMIT or RELEASE; an aborted transaction is rolled back instead.
Commit(h) ==
  /\ In(h, "atomic") /\ ~aborted[h]
  /\ conn' = [conn EXCEPT ![h] = Released(h)]
  /\ Pop(h)
  /\ UNCHANGED <<path, ctx, phase, aborted>>

\* ROLLBACK undoes SET search_path, and nothing tells the context variable.
Rollback(h) ==
  /\ In(h, "atomic")
  /\ Set(conn[h], Top(h).saved)
  /\ conn' = [conn EXCEPT ![h] = Released(h)]
  /\ aborted' = [aborted EXCEPT ![h] = FALSE]
  /\ Pop(h)
  /\ UNCHANGED <<ctx, phase>>

\* The process dies.  Its own session dies with it and the next one starts
\* with search_path public; a pooled session is rolled back and lives on.
OutermostAtomic(h) ==
  CHOOSE i \in 1..Depth(h) :
    /\ blocks[h][i].kind = "atomic"
    /\ \A j \in 1..(i - 1) : blocks[h][j].kind # "atomic"

Kill(h) ==
  /\ phase[h] # "idle"
  /\ path' = IF ~Pooled THEN [path EXCEPT ![conn[h]] = Public]
             ELSE IF InAtomic(h)
               THEN [path EXCEPT ![conn[h]] = blocks[h][OutermostAtomic(h)].saved]
               ELSE path
  /\ conn' = [conn EXCEPT ![h] = IF Pooled THEN NoSession ELSE @]
  /\ ctx' = [ctx EXCEPT ![h] = DefaultSchema]
  /\ Want(h, Public) /\ Phase(h, "idle")
  /\ blocks' = [blocks EXCEPT ![h] = <<>>]
  /\ aborted' = [aborted EXCEPT ![h] = FALSE]

-----------------------------------------------------------------------------
TenantInit ==
  /\ path = [s \in Servers |-> Public]
  /\ conn = [h \in Handlers |-> IF Pooled THEN NoSession ELSE Own[h]]
  /\ ctx = [h \in Handlers |-> DefaultSchema]
  /\ phase = [h \in Handlers |-> "idle"]
  /\ want = [h \in Handlers |-> Public]
  /\ blocks = [h \in Handlers |-> <<>>]
  /\ aborted = [h \in Handlers |-> FALSE]

RequestStep(h) ==
  \/ BeginRequest(h) \/ StayPublic(h) \/ EndRequest(h) \/ GoPublic(h)
  \/ \E t \in Tenants : Authenticate(h, t)

TaskStep(h) == BeginTask(h) \/ EndTask(h) \/ GoPublic(h)

BlockStep(h) ==
  \/ \E x \in Schemas : Enter(h, x)
  \/ EnterPublicAborted(h) \/ EnterTenantAborted(h) \/ Exit(h)

TransactionStep(h) ==
  BeginAtomic(h) \/ StatementFails(h) \/ Commit(h) \/ Rollback(h)

TenantNext ==
  \/ \E h \in WebThreads : RequestStep(h)
  \/ \E h \in Tasks : TaskStep(h)
  \/ \E h \in Handlers : BlockStep(h) \/ TransactionStep(h) \/ Kill(h)

TenantSpec == TenantInit /\ [][TenantNext]_tenantVars

-----------------------------------------------------------------------------
(* Properties.                                                             *)

\* Sessions and contexts name schemas, and blocks nest within the bound.
TenantTypeOK ==
  /\ path \in [Servers -> Schemas]
  /\ conn \in [Handlers -> Servers \cup {NoSession}]
  /\ ctx \in [Handlers -> Schemas]
  /\ phase \in [Handlers -> {"idle", "auth", "body"}]
  /\ want \in [Handlers -> Schemas]
  /\ blocks \in [Handlers -> Seq(Block)]
  /\ \A h \in Handlers : Depth(h) <= MaxDepth
  /\ aborted \in [Handlers -> BOOLEAN]

\* A statement never works on the wrong tenant: wherever it may run, the
\* search_path starts with the schema the program asks for at this point or,
\* where that was lost to a failed transaction, with public (no tenant's).
TenantIsolation ==
  \A h \in Handlers : phase[h] = "body" /\ ~aborted[h] =>
    \A s \in Usable(h) : path[s] \in {want[h], Public}

\* A request or task of one tenant never works on the tables of another.
NoForeignTenant ==
  \A h \in Handlers : phase[h] = "body" /\ ~aborted[h] /\ want[h] \in Tenants =>
    \A s \in Usable(h) : path[s] \in {want[h], Public}

\* get_current_schema(), which the views compare with the user's center before
\* they trust a row, is the schema the statements really run in whenever it
\* names a tenant, also after rollbacks that moved the search_path back.
ContextIsTruthful ==
  \A h \in Handlers : ctx[h] \in Tenants /\ ~aborted[h] =>
    \A s \in Usable(h) : path[s] = ctx[h]

\* Between requests and between tasks a connection is on public, whatever
\* failed, was nested, rolled back or killed before.
CleanBetweenRequests ==
  \A h \in Handlers : phase[h] = "idle" =>
    ctx[h] = Public /\ \A s \in Usable(h) : path[s] = Public

Lost(h) ==
  \/ ctx[h] # want[h]
  \/ \E i \in 1..Depth(h) : blocks[h][i].kind = "schema"
                            /\ blocks[h][i].saved # blocks[h][i].outer

\* "Safe for nested use; restores the previous schema": the program loses the
\* schema it is in only by opening or closing a block on an aborted transaction.
LostOnlyByAbort ==
  [][\A h \in Handlers : ~Lost(h) /\ Lost(h)' => aborted[h]]_tenantVars
=============================================================================
