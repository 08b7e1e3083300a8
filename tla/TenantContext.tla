--------------------------- MODULE TenantContext ---------------------------
(***************************************************************************)
(* Sessions of the API on the connection pool (services/api/src/           *)
(* database.py: build_engine, get_db) and the setting app.current_tenant   *)
(* that row-level security compares with (tenant.py: _set_tenant_context   *)
(* and the dependencies that call it; the policies of migration            *)
(* df467b3bdd3f).                                                          *)
(*                                                                         *)
(* PostgreSQL and SQLAlchemy are external.  A setting made or reset in a   *)
(* transaction is undone when the transaction rolls back and stays on the  *)
(* connection when it commits: guc is its value now, base the value a      *)
(* rollback returns to.  A session checks a connection out for the first   *)
(* statement of a transaction and gives it back when the transaction ends, *)
(* so a request that goes on after a commit may go on elsewhere.  The pool *)
(* lends its idle connections first in, first out, opens up to overflow    *)
(* more, and keeps at most size idle ones.                                 *)
(***************************************************************************)
EXTENDS Naturals, FiniteSets, Sequences, Functions

CONSTANTS
  Req,          \* requests in progress
  Conn,         \* identities of database connections
  Tenant,
  AllTenants,   \* _ALL_TENANTS_SENTINEL
  Unset,        \* NULL or '': the policies match no row
  Plain,        \* the context of a route that sets none
  PoolLimits,   \* settings of pool_size and max_overflow to consider
  NoConn

ASSUME PoolAssumption ==
  /\ PoolLimits \subseteq [size : Nat \ {0}, overflow : Nat]
  /\ IsFiniteSet(Conn)
  /\ \A p \in PoolLimits : Cardinality(Conn) >= p.size + p.overflow
  /\ NoConn \notin Conn /\ AllTenants \notin Tenant /\ Unset \notin Tenant
  /\ AllTenants # Unset /\ Plain \notin Tenant \union {AllTenants, Unset}

VARIABLES
  pool,   \* pool_size and max_overflow (constant)
  open,   \* connections to the database
  idle,   \* the pool's queue of idle connections
  guc,    \* app.current_tenant on each connection
  base,   \* its value after a rollback
  rpc,    \* where each request is
  ctx,    \* the value its dependency sets
  held,   \* the connection of its transaction
  moved,  \* requests that have ended a transaction and go on
  left    \* tenant contexts under which requests committed (history)

poolVars == <<pool, open, idle, guc, base>>
requestVars == <<rpc, ctx, held, moved>>
vars == <<pool, open, idle, guc, base, rpc, ctx, held, moved, left>>

-----------------------------------------------------------------------------
Context == Tenant \union {AllTenants, Unset}

\* USING (bypass OR tenant_expr = current_setting('app.current_tenant', true)).
Visible(value) == IF value = AllTenants THEN Tenant ELSE Tenant \intersect {value}

TypeOK ==
  /\ pool \in PoolLimits
  /\ open \subseteq Conn
  /\ idle \in Seq(Conn)
  /\ guc \in [Conn -> Context] /\ base \in [Conn -> Context]
  /\ rpc \in [Req -> {"free", "set", "run", "reset", "close"}]
  /\ ctx \in [Req -> Context \union {Plain}]
  /\ held \in [Req -> Conn \union {NoConn}]
  /\ moved \subseteq Req
  /\ left \subseteq Context \ {Unset}

Init ==
  /\ pool \in PoolLimits
  /\ open = {} /\ idle = <<>>
  /\ guc = [c \in Conn |-> Unset] /\ base = [c \in Conn |-> Unset]
  /\ rpc = [r \in Req |-> "free"]
  /\ ctx = [r \in Req |-> Plain]
  /\ held = [r \in Req |-> NoConn]
  /\ moved = {} /\ left = {}

-----------------------------------------------------------------------------
(* The pool.                                                               *)

Goto(r, label) == rpc' = [rpc EXCEPT ![r] = label]

\* A statement is next and the session has no connection: the oldest idle one,
\* or a new one.
Checkout(r) ==
  /\ rpc[r] \in {"set", "run", "reset"} /\ held[r] = NoConn
  /\ \/ /\ idle # <<>>
        /\ held' = [held EXCEPT ![r] = Head(idle)]
        /\ idle' = Tail(idle)
        /\ UNCHANGED open
     \/ /\ idle = <<>> /\ Cardinality(open) < pool.size + pool.overflow
        /\ \E c \in Conn \ open :
             /\ held' = [held EXCEPT ![r] = c]
             /\ open' = open \union {c}
        /\ UNCHANGED idle
  /\ UNCHANGED <<pool, guc, base, rpc, ctx, moved, left>>

\* The transaction of r, if it has one, ends with the setting at v: the
\* connection goes back to the pool, or is closed when the queue is full.
EndTransaction(r, v) ==
  IF held[r] = NoConn THEN UNCHANGED <<pool, open, idle, guc, base, held>>
  ELSE LET c == held[r]
           keep == Len(idle) < pool.size
           value == IF keep THEN v ELSE Unset
       IN /\ idle' = IF keep THEN Append(idle, c) ELSE idle
          /\ open' = IF keep THEN open ELSE open \ {c}
          /\ guc' = [guc EXCEPT ![c] = value]
          /\ base' = [base EXCEPT ![c] = value]
          /\ held' = [held EXCEPT ![r] = NoConn]
          /\ UNCHANGED pool

Rollback(r) == EndTransaction(r, IF held[r] = NoConn THEN Unset ELSE base[held[r]])

\* pool_pre_ping or pool_recycle replaces an idle connection by a new one.
Reconnect(c) ==
  /\ c \in Range(idle) /\ guc[c] # Unset
  /\ guc' = [guc EXCEPT ![c] = Unset]
  /\ base' = [base EXCEPT ![c] = Unset]
  /\ UNCHANGED <<pool, open, idle, requestVars, left>>

-----------------------------------------------------------------------------
(* The dependencies of a route.                                            *)

Begin(r, value) ==
  /\ rpc[r] = "free"
  /\ Goto(r, IF value = Plain THEN "run" ELSE "set")
  /\ ctx' = [ctx EXCEPT ![r] = value]
  /\ UNCHANGED <<poolVars, held, moved, left>>

\* get_tenant_scoped_db: the sentinel for a super_admin, else the client_id of
\* the token, '' for a token without one.
TenantScopedRequest(r) ==
  \E role \in {"super_admin", "tenant_admin", "agent"}, client_id \in Tenant \union {Unset} :
    Begin(r, IF role = "super_admin" THEN AllTenants ELSE client_id)

\* get_internal_service_db and get_login_db.
AllTenantsRequest(r) == Begin(r, AllTenants)

\* A route with get_db alone sets nothing (health, metrics, client profile).
PlainRequest(r) == Begin(r, Plain)

\* Mutant: the context is only set for callers that have a tenant.
SetContextIfAny(r) ==
  /\ rpc[r] = "set" /\ held[r] # NoConn
  /\ guc' = IF ctx[r] = Unset THEN guc ELSE [guc EXCEPT ![held[r]] = ctx[r]]
  /\ Goto(r, "run")
  /\ UNCHANGED <<pool, open, idle, base, ctx, held, moved, left>>

\* _set_tenant_context: set_config('app.current_tenant', value, false).
SetContext(r) ==
  /\ rpc[r] = "set" /\ held[r] # NoConn
  /\ guc' = [guc EXCEPT ![held[r]] = ctx[r]]
  /\ Goto(r, "run")
  /\ UNCHANGED <<pool, open, idle, base, ctx, held, moved, left>>

-----------------------------------------------------------------------------
(* The handler: add, commit, refresh, audit in transactions of their own.  *)

Commit(r) ==
  /\ rpc[r] = "run" /\ held[r] # NoConn
  /\ EndTransaction(r, guc[held[r]])
  /\ left' = left \union ({guc[held[r]]} \ {Unset})
  /\ moved' = moved \union {r}
  /\ UNCHANGED <<rpc, ctx>>

\* A handler that catches a failed statement and goes on.
HandlerRollback(r) ==
  /\ rpc[r] = "run" /\ held[r] # NoConn
  /\ Rollback(r)
  /\ moved' = moved \union {r}
  /\ UNCHANGED <<rpc, ctx, left>>

\* Mutant: get_db commits what the handler left open.
ReturnsCommitting(r) ==
  /\ rpc[r] = "run"
  /\ EndTransaction(r, IF held[r] = NoConn THEN Unset ELSE guc[held[r]])
  /\ Goto(r, "reset")
  /\ UNCHANGED <<ctx, moved, left>>

\* The handler returns, or is cancelled (CancelledError is no Exception).
Returns(r) ==
  /\ rpc[r] = "run"
  /\ Goto(r, "reset")
  /\ UNCHANGED <<poolVars, ctx, held, moved, left>>

-----------------------------------------------------------------------------
(* get_db's ways out.                                                      *)

\* Mutant: the exception leaves the session open.
RaisesAndLeaks(r) ==
  /\ rpc[r] \in {"set", "run"}
  /\ held' = [held EXCEPT ![r] = NoConn]
  /\ Goto(r, "reset")
  /\ UNCHANGED <<poolVars, ctx, moved, left>>

\* The dependency or the handler raises, also when no connection can be had.
Raises(r) ==
  /\ rpc[r] \in {"set", "run"}
  /\ Rollback(r)
  /\ Goto(r, "reset")
  /\ UNCHANGED <<ctx, moved, left>>

\* finally: RESET app.current_tenant, in whatever transaction there is.
Reset(r) ==
  /\ rpc[r] = "reset" /\ held[r] # NoConn
  /\ guc' = [guc EXCEPT ![held[r]] = Unset]
  /\ Goto(r, "close")
  /\ UNCHANGED <<pool, open, idle, base, ctx, held, moved, left>>

\* No connection is idle and none can be opened in time: the error is
\* suppressed.
ResetFails(r) ==
  /\ rpc[r] = "reset" /\ held[r] = NoConn /\ idle = <<>>
  /\ Goto(r, "close")
  /\ UNCHANGED <<poolVars, ctx, held, moved, left>>

\* The connection breaks under a statement: it is discarded, and the error is
\* raised, or suppressed when the statement was the RESET.
ConnectionLost(r) ==
  /\ rpc[r] \in {"set", "run", "reset"} /\ held[r] # NoConn
  /\ open' = open \ {held[r]}
  /\ guc' = [guc EXCEPT ![held[r]] = Unset]
  /\ base' = [base EXCEPT ![held[r]] = Unset]
  /\ held' = [held EXCEPT ![r] = NoConn]
  /\ Goto(r, IF rpc[r] = "reset" THEN "close" ELSE "reset")
  /\ UNCHANGED <<pool, idle, ctx, moved, left>>

Done(r) ==
  /\ Goto(r, "free")
  /\ ctx' = [ctx EXCEPT ![r] = Plain]
  /\ moved' = moved \ {r}
  /\ UNCHANGED left

\* Mutant: a connection the RESET had to check out is not given back.
CloseForgets(r) ==
  /\ rpc[r] = "close"
  /\ IF r \in moved
     THEN held' = [held EXCEPT ![r] = NoConn] /\ UNCHANGED poolVars
     ELSE Rollback(r)
  /\ Done(r)

\* async with async_session_factory(): close() rolls back.
Close(r) ==
  /\ rpc[r] = "close"
  /\ Rollback(r)
  /\ Done(r)

-----------------------------------------------------------------------------
Handler(r) == Checkout(r) \/ SetContext(r) \/ Commit(r) \/ HandlerRollback(r)
WayOut(r) == Returns(r) \/ Reset(r) \/ ResetFails(r) \/ Close(r)

Next ==
  \/ \E r \in Req :
       \/ TenantScopedRequest(r) \/ AllTenantsRequest(r) \/ PlainRequest(r)
       \/ Handler(r) \/ Raises(r) \/ ConnectionLost(r) \/ WayOut(r)
  \/ \E c \in Conn : Reconnect(c)

Spec == Init /\ [][Next]_vars

\* The event loop runs every handler, a handler returns, and a request that
\* waits for a connection gets one when connections keep coming back.
Fairness ==
  \A r \in Req : /\ SF_vars(Checkout(r)) /\ WF_vars(SetContext(r))
                 /\ WF_vars(WayOut(r))

FairSpec == Spec /\ Fairness

-----------------------------------------------------------------------------
(* Properties.                                                             *)

Holders(c) == {r \in Req : held[r] = c}

\* No exit of get_db, with or without an exception, a failed RESET or a
\* transaction ended half way, loses a connection or returns it twice: every
\* open connection is idle or has one holder, and the pool keeps its limits.
PoolAccounted ==
  /\ open = Range(idle) \union {held[r] : r \in {q \in Req : held[q] # NoConn}}
  /\ \A c \in open : Cardinality(Holders(c)) + Cardinality({i \in DOMAIN idle : idle[i] = c}) = 1
  /\ Len(idle) <= pool.size /\ Cardinality(open) <= pool.size + pool.overflow

\* Row-level security holds on its own in the first transaction of a request,
\* whatever its connection carried before: only rows of the caller's context
\* are visible, none for a caller without tenant.
FirstTransactionIsScoped ==
  \A r \in Req :
    rpc[r] = "run" /\ held[r] # NoConn /\ ctx[r] # Plain /\ r \notin moved =>
      Visible(guc[held[r]]) = Visible(ctx[r])

\* A request that did not commit leaves no trace on its connection, although
\* set_config is session-scoped: an idle connection carries a tenant only if a
\* request committed under that context.
OnlyCommitsLeaveContext ==
  \A c \in Range(idle) : guc[c] \in left \union {Unset}

\* A request ends and gives its connection back even when the pool is
\* exhausted: no session waits for a connection while it holds one.
EveryRequestEnds == \A r \in Req : rpc[r] # "free" ~> rpc[r] = "free"

\* get_db's RESET clears the tenant before the connection returns to the pool:
\* once every request is over, no idle connection has a tenant context.
ContextIsCleared ==
  (\A r \in Req : rpc[r] = "free") => \A c \in Range(idle) : guc[c] = Unset

=============================================================================
