------------------------ MODULE TenantContextProofs ------------------------
(***************************************************************************)
(* Proofs about TenantContext, for any number of requests, tenants and     *)
(* connections and every limit of the pool.                                *)
(***************************************************************************)
EXTENDS TenantContext, FiniteSetTheorems, TLAPS

-----------------------------------------------------------------------------
(* The pool's queue.                                                       *)

Distinct(s) == \A i, j \in DOMAIN s : s[i] = s[j] => i = j

LEMMA HeadAndTail ==
  ASSUME NEW s \in Seq(Conn), s # <<>>, Distinct(s)
  PROVE  /\ Head(s) \in Conn /\ Tail(s) \in Seq(Conn) /\ Distinct(Tail(s))
         /\ Head(s) \in Range(s) /\ Range(Tail(s)) = Range(s) \ {Head(s)}
         /\ Len(Tail(s)) <= Len(s)
<1>1. /\ Head(s) = s[1] /\ 1 \in DOMAIN s /\ Tail(s) \in Seq(Conn)
      /\ Len(Tail(s)) = Len(s) - 1 /\ DOMAIN s = 1 .. Len(s) /\ Len(s) \in Nat
      /\ DOMAIN Tail(s) = 1 .. Len(s) - 1
      /\ \A i \in 1 .. Len(s) - 1 : Tail(s)[i] = s[i + 1]
  OBVIOUS
<1>2. Distinct(Tail(s))
  <2> SUFFICES ASSUME NEW i \in DOMAIN Tail(s), NEW j \in DOMAIN Tail(s),
                      Tail(s)[i] = Tail(s)[j]
               PROVE  i = j
    BY DEF Distinct
  <2>1. i + 1 \in DOMAIN s /\ j + 1 \in DOMAIN s /\ s[i + 1] = s[j + 1]
    BY <1>1
  <2> QED
    BY <1>1, <2>1 DEF Distinct
<1>3. ASSUME NEW x \in Range(Tail(s)) PROVE x \in Range(s) /\ x # Head(s)
  <2>1. PICK i \in DOMAIN Tail(s) : x = Tail(s)[i]
    BY <1>3 DEF Range
  <2>2. i + 1 \in DOMAIN s /\ x = s[i + 1] /\ i + 1 # 1
    BY <1>1, <2>1
  <2> QED
    BY <1>1, <2>2 DEF Range, Distinct
<1>4. ASSUME NEW x \in Range(s), x # Head(s) PROVE x \in Range(Tail(s))
  <2>1. PICK i \in DOMAIN s : x = s[i]
    BY DEF Range
  <2>2. i # 1 /\ i - 1 \in DOMAIN Tail(s) /\ Tail(s)[i - 1] = s[i]
    BY <1>1, <1>4, <2>1
  <2> QED
    BY <2>1, <2>2 DEF Range
<1>5. Range(Tail(s)) = Range(s) \ {Head(s)}
  BY <1>3, <1>4
<1>6. Head(s) \in Conn /\ Head(s) \in Range(s) /\ Len(Tail(s)) <= Len(s)
  BY <1>1 DEF Range
<1> QED
  BY <1>1, <1>2, <1>5, <1>6

LEMMA AtTheEnd ==
  ASSUME NEW s \in Seq(Conn), NEW c \in Conn \ Range(s), Distinct(s)
  PROVE  /\ Append(s, c) \in Seq(Conn) /\ Distinct(Append(s, c))
         /\ Range(Append(s, c)) = Range(s) \union {c}
         /\ Len(Append(s, c)) = Len(s) + 1
<1> DEFINE t == Append(s, c)
<1>1. /\ t \in Seq(Conn) /\ Len(t) = Len(s) + 1 /\ Len(s) \in Nat
      /\ DOMAIN s = 1 .. Len(s) /\ DOMAIN t = 1 .. Len(s) + 1
      /\ t[Len(s) + 1] = c /\ \A i \in 1 .. Len(s) : t[i] = s[i]
  OBVIOUS
<1> HIDE DEF t
<1>2. \A i \in 1 .. Len(s) : t[i] # c
  BY <1>1 DEF Range
<1>3. Distinct(t)
  BY <1>1, <1>2 DEF Distinct
<1>4. Range(t) = Range(s) \union {c}
  <2>1. \A i \in DOMAIN t : i \in DOMAIN s \/ i = Len(s) + 1
    BY <1>1
  <2>2. Range(t) \subseteq Range(s) \union {c}
    BY <1>1, <2>1 DEF Range
  <2>3. Len(s) + 1 \in DOMAIN t /\ \A i \in DOMAIN s : i \in DOMAIN t
    BY <1>1
  <2>4. Range(s) \union {c} \subseteq Range(t)
    BY <1>1, <2>3 DEF Range
  <2> QED
    BY <2>2, <2>4
<1> QED
  BY <1>1, <1>3, <1>4 DEF t

-----------------------------------------------------------------------------
(* Types.                                                                  *)

\* A request about to set its context has one to set.
SetHasContext == \A r \in Req : rpc[r] = "set" => ctx[r] # Plain

Typed == TypeOK /\ SetHasContext

\* Who has which connection: an open one is idle or lent, and lent only once.
Lent ==
  /\ Distinct(idle)
  /\ Range(idle) \subseteq open
  /\ \A r \in Req : held[r] # NoConn => held[r] \in open \ Range(idle)
  /\ \A q, r \in Req : held[q] # NoConn /\ held[q] = held[r] => q = r
  /\ \A c \in open \ Range(idle) : \E r \in Req : held[r] = c

Limits == Len(idle) <= pool.size /\ Cardinality(open) <= pool.size + pool.overflow

PoolInv == Typed /\ Lent /\ Limits

LEMMA LimitsAreNumbers ==
  ASSUME PoolInv
  PROVE  /\ pool.size \in Nat /\ pool.overflow \in Nat /\ Len(idle) \in Nat
         /\ IsFiniteSet(open) /\ Cardinality(open) \in Nat
<1>1. IsFiniteSet(open)
  BY PoolAssumption, FS_Subset DEF PoolInv, Typed, TypeOK
<1> QED
  BY <1>1, PoolAssumption, FS_CardinalityType DEF PoolInv, Typed, TypeOK

\* A step that lends and takes back nothing.
LEMMA QuietPool ==
  ASSUME PoolInv, Typed', UNCHANGED <<pool, open, idle, held>>
  PROVE  PoolInv'
BY DEF PoolInv, Lent, Limits

LEMMA CheckoutPool ==
  ASSUME PoolInv, NEW r \in Req, Checkout(r)
  PROVE  PoolInv'
<1>1. held[r] = NoConn /\ UNCHANGED <<pool, guc, base, rpc, ctx, moved, left>>
  BY DEF Checkout
<1>2. CASE /\ idle # <<>> /\ held' = [held EXCEPT ![r] = Head(idle)]
           /\ idle' = Tail(idle) /\ UNCHANGED open
  <2>1. /\ Head(idle) \in Conn /\ Tail(idle) \in Seq(Conn) /\ Distinct(Tail(idle))
        /\ Head(idle) \in Range(idle) /\ Range(Tail(idle)) = Range(idle) \ {Head(idle)}
        /\ Len(Tail(idle)) <= Len(idle)
    BY <1>2, HeadAndTail DEF PoolInv, Typed, TypeOK, Lent
  <2>2. Typed'
    BY <1>1, <1>2, <2>1 DEF PoolInv, Typed, TypeOK, SetHasContext
  <2>3. Limits'
    BY <1>1, <1>2, <2>1, <2>2, LimitsAreNumbers DEF PoolInv, Limits, Typed, TypeOK
  <2>4. Head(idle) # NoConn
    BY <2>1, PoolAssumption
  <2>5. Lent'
    <3>1. \A q \in Req : held'[q] = IF q = r THEN Head(idle) ELSE held[q]
      BY <1>2, <2>1, <2>4 DEF PoolInv, Typed, TypeOK
    <3>2. Range(idle') = Range(idle) \ {Head(idle)} /\ open' = open
      BY <1>2, <2>1, <2>4
    <3>3. \A q \in Req : held[q] # Head(idle)
      BY <2>1, <2>4 DEF PoolInv, Lent
    <3>4. Distinct(idle') /\ Range(idle') \subseteq open'
      BY <1>2, <2>1, <2>4, <3>2 DEF PoolInv, Lent
    <3>5. \A q \in Req : held'[q] # NoConn => held'[q] \in open' \ Range(idle')
      BY <1>2, <2>1, <2>4, <3>1, <3>2 DEF PoolInv, Lent
    <3>6. \A p, q \in Req : held'[p] # NoConn /\ held'[p] = held'[q] => p = q
      BY <3>1, <3>3 DEF PoolInv, Lent
    <3>7. \A c1 \in open' \ Range(idle') : \E q \in Req : held'[q] = c1
      BY <1>2, <2>1, <2>4, <1>1, <3>1, <3>2, PoolAssumption
      DEF PoolInv, Lent, Typed, TypeOK
    <3> QED
      BY <3>4, <3>5, <3>6, <3>7 DEF Lent
  <2> QED
    BY <2>2, <2>3, <2>5 DEF PoolInv
<1>3. ASSUME NEW c \in Conn \ open,
             /\ Cardinality(open) < pool.size + pool.overflow
             /\ held' = [held EXCEPT ![r] = c] /\ open' = open \union {c}
             /\ UNCHANGED idle
      PROVE  PoolInv'
  <2>1. Typed'
    BY <1>1, <1>3 DEF PoolInv, Typed, TypeOK, SetHasContext
  <2>2. Limits'
    <3>1. Cardinality(open') = Cardinality(open) + 1
      BY <1>3, LimitsAreNumbers, FS_AddElement
    <3> QED
      BY <1>1, <1>3, <3>1, LimitsAreNumbers DEF PoolInv, Limits
  <2>3. c # NoConn
    BY PoolAssumption
  <2>4. Lent'
    <3>1. \A q \in Req : held'[q] = IF q = r THEN c ELSE held[q]
      BY <1>3, <2>3 DEF PoolInv, Typed, TypeOK
    <3>2. Range(idle') = Range(idle) /\ open' = open \union {c}
      BY <1>3, <2>3
    <3>3. \A q \in Req : held[q] # c
      BY <1>3, <2>3 DEF PoolInv, Lent
    <3>4. Distinct(idle') /\ Range(idle') \subseteq open'
      BY <1>3, <2>3, <3>2 DEF PoolInv, Lent
    <3>5. \A q \in Req : held'[q] # NoConn => held'[q] \in open' \ Range(idle')
      BY <1>3, <2>3, <3>1, <3>2 DEF PoolInv, Lent
    <3>6. \A p, q \in Req : held'[p] # NoConn /\ held'[p] = held'[q] => p = q
      BY <3>1, <3>3 DEF PoolInv, Lent
    <3>7. \A c1 \in open' \ Range(idle') : \E q \in Req : held'[q] = c1
      BY <1>3, <2>3, <1>1, <3>1, <3>2, PoolAssumption
      DEF PoolInv, Lent, Typed, TypeOK
    <3> QED
      BY <3>4, <3>5, <3>6, <3>7 DEF Lent
  <2> QED
    BY <2>1, <2>2, <2>4 DEF PoolInv
<1> QED
  BY <1>2, <1>3 DEF Checkout

\* A connection that is closed, by the pool or because it broke.
LEMMA Discarded ==
  ASSUME PoolInv, NEW r \in Req, held[r] # NoConn,
         idle' = idle, open' = open \ {held[r]},
         guc' = [guc EXCEPT ![held[r]] = Unset], base' = [base EXCEPT ![held[r]] = Unset],
         held' = [held EXCEPT ![r] = NoConn], pool' = pool,
         rpc' \in [Req -> {"free", "set", "run", "reset", "close"}],
         ctx' \in [Req -> Context \union {Plain}],
         moved' \subseteq Req, left' \subseteq Context \ {Unset}, SetHasContext'
  PROVE  PoolInv'
<1>1. Typed'
  BY DEF PoolInv, Typed, TypeOK, Context
<1>2. Cardinality(open') <= Cardinality(open) /\ Cardinality(open') \in Nat
  BY LimitsAreNumbers, FS_Subset, FS_CardinalityType
<1>3. Limits'
  BY <1>2, LimitsAreNumbers DEF PoolInv, Limits
<1>4. Lent'
  BY DEF PoolInv, Lent, Typed, TypeOK
<1> QED
  BY <1>1, <1>3, <1>4 DEF PoolInv

\* Either way out of a transaction: the connection becomes idle or is closed.
LEMMA EndPool ==
  ASSUME PoolInv, NEW r \in Req, NEW v \in Context, EndTransaction(r, v),
         rpc' \in [Req -> {"free", "set", "run", "reset", "close"}],
         ctx' \in [Req -> Context \union {Plain}],
         moved' \subseteq Req, left' \subseteq Context \ {Unset}, SetHasContext'
  PROVE  PoolInv'
<1>1. CASE held[r] = NoConn
  <2>1. UNCHANGED <<pool, open, idle, guc, base, held>>
    BY <1>1 DEF EndTransaction
  <2> QED
    BY <2>1, QuietPool DEF PoolInv, Typed, TypeOK
<1>2. ASSUME held[r] # NoConn, Len(idle) < pool.size PROVE PoolInv'
  <2>1. /\ idle' = Append(idle, held[r]) /\ open' = open
        /\ guc' = [guc EXCEPT ![held[r]] = v] /\ base' = [base EXCEPT ![held[r]] = v]
        /\ held' = [held EXCEPT ![r] = NoConn] /\ pool' = pool
    BY <1>2 DEF EndTransaction
  <2>2. held[r] \in Conn \ Range(idle)
    BY <1>2 DEF PoolInv, Typed, TypeOK, Lent
  <2>3. /\ idle' \in Seq(Conn) /\ Distinct(idle')
        /\ Range(idle') = Range(idle) \union {held[r]} /\ Len(idle') = Len(idle) + 1
    BY <2>1, <2>2, AtTheEnd DEF PoolInv, Typed, TypeOK, Lent
  <2>4. Typed'
    BY <2>1, <2>3 DEF PoolInv, Typed, TypeOK
  <2>5. Limits'
    BY <1>2, <2>1, <2>3, LimitsAreNumbers DEF PoolInv, Limits
  <2>6. Lent'
    BY <1>2, <2>1, <2>3 DEF PoolInv, Lent, Typed, TypeOK
  <2> QED
    BY <2>4, <2>5, <2>6 DEF PoolInv
<1>3. ASSUME held[r] # NoConn, ~(Len(idle) < pool.size) PROVE PoolInv'
  <2>1. /\ idle' = idle /\ open' = open \ {held[r]}
        /\ guc' = [guc EXCEPT ![held[r]] = Unset] /\ base' = [base EXCEPT ![held[r]] = Unset]
        /\ held' = [held EXCEPT ![r] = NoConn] /\ pool' = pool
    BY <1>3 DEF EndTransaction
  <2> QED
    BY <1>3, <2>1, Discarded
<1> QED
  BY <1>1, <1>2, <1>3

-----------------------------------------------------------------------------
\* What a rollback leaves on the connection.
RolledBack(r) == IF held[r] = NoConn THEN Unset ELSE base[held[r]]

LEMMA RollbackEnds ==
  ASSUME TypeOK, NEW r \in Req, Rollback(r)
  PROVE  RolledBack(r) \in Context /\ EndTransaction(r, RolledBack(r))
BY DEF Rollback, RolledBack, TypeOK, Context

\* Every step of a request accounts for its connection.
LEMMA RequestPool ==
  ASSUME PoolInv, NEW r \in Req,
         \/ TenantScopedRequest(r) \/ AllTenantsRequest(r) \/ PlainRequest(r)
         \/ Handler(r) \/ Raises(r) \/ ConnectionLost(r) \/ WayOut(r)
  PROVE  PoolInv'
<1>0. TypeOK /\ SetHasContext
  BY DEF PoolInv, Typed
<1>1. ASSUME NEW value \in Context \union {Plain}, Begin(r, value) PROVE PoolInv'
  <2>1. Typed'
    BY <1>0, <1>1 DEF Begin, Goto, poolVars, Typed, TypeOK, SetHasContext
  <2> QED
    BY <1>1, <2>1, QuietPool DEF Begin, poolVars
<1>2. CASE TenantScopedRequest(r) \/ AllTenantsRequest(r) \/ PlainRequest(r)
  BY <1>1, <1>2 DEF TenantScopedRequest, AllTenantsRequest, PlainRequest, Context
<1>3. CASE Checkout(r)
  BY <1>3, CheckoutPool
<1>4. CASE SetContext(r) \/ Reset(r)
  <2>1. Typed'
    BY <1>0, <1>4 DEF SetContext, Reset, Goto, Typed, TypeOK, SetHasContext, Context
  <2> QED
    BY <1>4, <2>1, QuietPool DEF SetContext, Reset
<1>5. CASE Returns(r) \/ ResetFails(r)
  <2>1. Typed'
    BY <1>0, <1>5 DEF Returns, ResetFails, Goto, poolVars, Typed, TypeOK, SetHasContext
  <2> QED
    BY <1>5, <2>1, QuietPool DEF Returns, ResetFails, poolVars
<1>6. CASE Commit(r)
  <2>1. guc[held[r]] \in Context /\ EndTransaction(r, guc[held[r]])
    BY <1>0, <1>6 DEF Commit, TypeOK
  <2>2. /\ rpc' = rpc /\ ctx' = ctx /\ moved' \subseteq Req
        /\ left' \subseteq Context \ {Unset}
    BY <1>0, <1>6, <2>1 DEF Commit, TypeOK
  <2>3. SetHasContext'
    BY <1>0, <2>2 DEF SetHasContext
  <2> QED
    BY <1>0, <2>1, <2>2, <2>3, EndPool DEF TypeOK
<1>7. CASE HandlerRollback(r)
  <2>1. RolledBack(r) \in Context /\ EndTransaction(r, RolledBack(r))
    BY <1>0, <1>7, RollbackEnds DEF HandlerRollback
  <2>2. UNCHANGED <<rpc, ctx, left>> /\ moved' \subseteq Req /\ SetHasContext'
    BY <1>0, <1>7 DEF HandlerRollback, TypeOK, SetHasContext
  <2> QED
    BY <1>0, <2>1, <2>2, EndPool DEF TypeOK
<1>8. CASE Raises(r)
  <2>1. RolledBack(r) \in Context /\ EndTransaction(r, RolledBack(r))
    BY <1>0, <1>8, RollbackEnds DEF Raises
  <2>2. /\ rpc' \in [Req -> {"free", "set", "run", "reset", "close"}]
        /\ UNCHANGED <<ctx, moved, left>> /\ SetHasContext'
    BY <1>0, <1>8 DEF Raises, Goto, TypeOK, SetHasContext
  <2> QED
    BY <1>0, <2>1, <2>2, EndPool DEF TypeOK
<1>9. CASE Close(r)
  <2>1. RolledBack(r) \in Context /\ EndTransaction(r, RolledBack(r))
    BY <1>0, <1>9, RollbackEnds DEF Close
  <2>2. /\ rpc' \in [Req -> {"free", "set", "run", "reset", "close"}]
        /\ ctx' \in [Req -> Context \union {Plain}] /\ moved' \subseteq Req
        /\ left' = left /\ SetHasContext'
    BY <1>0, <1>9 DEF Close, Done, Goto, TypeOK, SetHasContext
  <2> QED
    BY <1>0, <2>1, <2>2, EndPool DEF TypeOK
<1>10. CASE ConnectionLost(r)
  <2>1. /\ rpc' \in [Req -> {"free", "set", "run", "reset", "close"}]
        /\ UNCHANGED <<pool, idle, ctx, moved, left>> /\ SetHasContext'
    BY <1>0, <1>10 DEF ConnectionLost, Goto, TypeOK, SetHasContext
  <2> QED
    BY <1>0, <1>10, <2>1, Discarded DEF ConnectionLost, TypeOK
<1> QED
  BY <1>2, <1>3, <1>4, <1>5, <1>6, <1>7, <1>8, <1>9, <1>10 DEF Handler, WayOut

LEMMA PoolStep == PoolInv /\ [Next]_vars => PoolInv'
<1> SUFFICES ASSUME PoolInv, [Next]_vars PROVE PoolInv'
  OBVIOUS
<1>1. ASSUME NEW c \in Conn, Reconnect(c) PROVE PoolInv'
  <2>1. Typed'
    BY <1>1 DEF Reconnect, requestVars, PoolInv, Typed, TypeOK, SetHasContext, Context
  <2> QED
    BY <1>1, <2>1, QuietPool DEF Reconnect, requestVars
<1>2. CASE UNCHANGED vars
  <2>1. Typed'
    BY <1>2 DEF vars, PoolInv, Typed, TypeOK, SetHasContext
  <2> QED
    BY <1>2, <2>1, QuietPool DEF vars
<1> QED
  BY <1>1, <1>2, RequestPool DEF Next

LEMMA PoolInvariant == Spec => []PoolInv
<1>1. Init => PoolInv
  <2> SUFFICES ASSUME Init PROVE PoolInv
    OBVIOUS
  <2>1. Typed
    BY DEF Init, Typed, TypeOK, SetHasContext, Context
  <2>2. Lent
    BY DEF Init, Lent, Distinct, Range
  <2>3. Limits
    <3>1. pool.size \in Nat /\ pool.overflow \in Nat /\ Cardinality(open) = 0
      BY PoolAssumption, FS_EmptySet DEF Init
    <3> QED
      BY <3>1 DEF Init, Limits
  <2> QED
    BY <2>1, <2>2, <2>3 DEF PoolInv
<1> QED
  BY <1>1, PoolStep, PTL DEF Spec

\* Sessions, connections and settings keep their types on every way through
\* get_db.
THEOREM TenantContextTyped == Spec => []TypeOK
<1>1. PoolInv => TypeOK
  BY DEF PoolInv, Typed
<1> QED
  BY <1>1, PoolInvariant, PTL

\* No exit of get_db loses a connection or returns it twice, for a pool of any
\* size and any number of requests.
THEOREM NoConnectionIsLost == Spec => []PoolAccounted
<1>1. ASSUME PoolInv PROVE PoolAccounted
  <2>1. open = Range(idle) \union {held[r] : r \in {q \in Req : held[q] # NoConn}}
    BY <1>1, PoolAssumption DEF PoolInv, Typed, TypeOK, Lent
  <2>2. ASSUME NEW c \in open
        PROVE  Cardinality(Holders(c)) + Cardinality({i \in DOMAIN idle : idle[i] = c}) = 1
    <3>1. CASE c \in Range(idle)
      <4>1. PICK i \in DOMAIN idle : idle[i] = c
        BY <3>1 DEF Range
      <4>2. {j \in DOMAIN idle : idle[j] = c} = {i}
        BY <1>1, <4>1 DEF PoolInv, Lent, Distinct
      <4>3. Holders(c) = {}
        BY <1>1, <2>2, <3>1, PoolAssumption DEF PoolInv, Lent, Holders, Typed, TypeOK
      <4>4. Cardinality(Holders(c)) = 0 /\ Cardinality({j \in DOMAIN idle : idle[j] = c}) = 1
        BY <4>2, <4>3, FS_EmptySet, FS_Singleton
      <4> QED
        BY <4>4
    <3>2. CASE c \notin Range(idle)
      <4>1. PICK r \in Req : held[r] = c
        BY <1>1, <3>2 DEF PoolInv, Lent
      <4>2. Holders(c) = {r}
        BY <1>1, <2>2, <4>1, PoolAssumption DEF PoolInv, Lent, Holders, Typed, TypeOK
      <4>3. {j \in DOMAIN idle : idle[j] = c} = {}
        BY <3>2 DEF Range
      <4>4. Cardinality(Holders(c)) = 1 /\ Cardinality({j \in DOMAIN idle : idle[j] = c}) = 0
        BY <4>2, <4>3, FS_EmptySet, FS_Singleton
      <4> QED
        BY <4>4
    <3> QED
      BY <3>1, <3>2
  <2> QED
    BY <1>1, <2>1, <2>2 DEF PoolInv, Limits, PoolAccounted
<1> QED
  BY <1>1, PoolInvariant, PTL

-----------------------------------------------------------------------------
(* The tenant setting.                                                     *)

\* A request in its first transaction has its connection, with its context.
Scoped ==
  \A r \in Req :
    rpc[r] = "run" /\ ctx[r] # Plain /\ r \notin moved =>
      held[r] # NoConn /\ guc[held[r]] = ctx[r]

\* What a rollback returns to has been committed as well.
Clean == OnlyCommitsLeaveContext /\ \A c \in Conn : base[c] \in left \union {Unset}

\* A step of r leaves the others and their connections alone.
LEMMA OthersScoped ==
  ASSUME PoolInv, Scoped, NEW r \in Req,
         \A q \in Req \ {r} : rpc'[q] = rpc[q] /\ ctx'[q] = ctx[q] /\ held'[q] = held[q],
         moved' \ {r} = moved \ {r},
         \A c \in Conn : c # held[r] => guc'[c] = guc[c],
         rpc'[r] = "run" /\ ctx'[r] # Plain /\ r \notin moved' =>
           held'[r] # NoConn /\ guc'[held'[r]] = ctx'[r]
  PROVE  Scoped'
<1> SUFFICES ASSUME NEW q \in Req, rpc'[q] = "run", ctx'[q] # Plain, q \notin moved'
             PROVE  held'[q] # NoConn /\ guc'[held'[q]] = ctx'[q]
  BY DEF Scoped
<1>1. CASE q = r
  BY <1>1
<1>2. CASE q # r
  <2>1. held[q] # NoConn /\ guc[held[q]] = ctx[q]
    BY <1>2 DEF Scoped
  <2>2. held[q] \in Conn /\ held[q] # held[r]
    BY <1>2, <2>1 DEF PoolInv, Lent, Typed, TypeOK
  <2> QED
    BY <1>2, <2>1, <2>2
<1> QED
  BY <1>1, <1>2

\* How the end of a transaction changes settings and the queue.
LEMMA EndEffect ==
  ASSUME TypeOK, NEW r \in Req, NEW v, EndTransaction(r, v)
  PROVE  /\ \A q \in Req \ {r} : held'[q] = held[q]
         /\ \A c \in Conn : c # held[r] => guc'[c] = guc[c] /\ base'[c] = base[c]
         /\ held[r] # NoConn => guc'[held[r]] \in {v, Unset} /\ base'[held[r]] \in {v, Unset}
         /\ Range(idle') \subseteq Range(idle) \union ({held[r]} \ {NoConn})
<1>1. CASE held[r] = NoConn
  BY <1>1 DEF EndTransaction
<1>2. CASE held[r] # NoConn
  <2>1. /\ idle' = Append(idle, held[r]) \/ idle' = idle
        /\ \E w \in {v, Unset} : /\ guc' = [guc EXCEPT ![held[r]] = w]
                                /\ base' = [base EXCEPT ![held[r]] = w]
        /\ held' = [held EXCEPT ![r] = NoConn]
    BY <1>2 DEF EndTransaction
  <2>2. held[r] \in Conn
    BY <1>2 DEF TypeOK
  <2>3. Range(Append(idle, held[r])) \subseteq Range(idle) \union {held[r]}
    <3>1. \A i \in DOMAIN Append(idle, held[r]) :
            \/ i \in DOMAIN idle /\ Append(idle, held[r])[i] = idle[i]
            \/ Append(idle, held[r])[i] = held[r]
      BY <2>2 DEF TypeOK
    <3> QED
      BY <3>1 DEF Range
  <2> QED
    BY <1>2, <2>1, <2>2, <2>3 DEF TypeOK
<1> QED
  BY <1>1, <1>2

LEMMA ScopedStep == PoolInv /\ Scoped /\ [Next]_vars => Scoped'
<1> SUFFICES ASSUME PoolInv, Scoped, [Next]_vars PROVE Scoped'
  OBVIOUS
<1>0. TypeOK
  BY DEF PoolInv, Typed
<1>1. ASSUME NEW r \in Req, NEW value, Begin(r, value) PROVE Scoped'
  BY <1>0, <1>1, OthersScoped DEF Begin, Goto, poolVars, TypeOK
<1>2. ASSUME NEW r \in Req, Checkout(r) PROVE Scoped'
  <2>1. \A q \in Req \ {r} : held'[q] = held[q]
    BY <1>0, <1>2 DEF Checkout, TypeOK
  <2>2. held[r] = NoConn /\ UNCHANGED <<guc, rpc, ctx, moved>>
    BY <1>2 DEF Checkout
  <2>3. ~(rpc[r] = "run" /\ ctx[r] # Plain /\ r \notin moved)
    BY <2>2 DEF Scoped
  <2> QED
    BY <2>1, <2>2, <2>3, OthersScoped
<1>3. ASSUME NEW r \in Req, SetContext(r) PROVE Scoped'
  <2>1. /\ \A q \in Req \ {r} : rpc'[q] = rpc[q]
        /\ \A c \in Conn : c # held[r] => guc'[c] = guc[c]
        /\ guc'[held[r]] = ctx[r] /\ held[r] # NoConn
        /\ UNCHANGED <<ctx, held, moved>>
    BY <1>0, <1>3 DEF SetContext, Goto, TypeOK
  <2> QED
    BY <2>1, OthersScoped
<1>4. ASSUME NEW r \in Req, Commit(r) \/ HandlerRollback(r) PROVE Scoped'
  <2>1. \E v : EndTransaction(r, v)
    BY <1>4 DEF Commit, HandlerRollback, Rollback
  <2>2. UNCHANGED <<rpc, ctx>> /\ moved' = moved \union {r}
    BY <1>4 DEF Commit, HandlerRollback
  <2> QED
    BY <1>0, <2>1, <2>2, EndEffect, OthersScoped
<1>5. ASSUME NEW r \in Req, Returns(r) \/ ResetFails(r) PROVE Scoped'
  BY <1>0, <1>5, OthersScoped DEF Returns, ResetFails, Goto, poolVars, TypeOK
<1>6. ASSUME NEW r \in Req, Reset(r) \/ ConnectionLost(r) PROVE Scoped'
  <2>1. /\ \A q \in Req \ {r} : rpc'[q] = rpc[q] /\ held'[q] = held[q]
        /\ \A c \in Conn : c # held[r] => guc'[c] = guc[c]
        /\ rpc'[r] # "run"
        /\ UNCHANGED <<ctx, moved>>
    BY <1>0, <1>6 DEF Reset, ConnectionLost, Goto, TypeOK
  <2> QED
    BY <2>1, OthersScoped
<1>7. ASSUME NEW r \in Req, Raises(r) \/ Close(r) PROVE Scoped'
  <2>1. \E v : EndTransaction(r, v)
    BY <1>7 DEF Raises, Close, Rollback
  <2>2. /\ \A q \in Req \ {r} : rpc'[q] = rpc[q] /\ ctx'[q] = ctx[q]
        /\ rpc'[r] # "run" /\ moved' \ {r} = moved \ {r}
    BY <1>0, <1>7 DEF Raises, Close, Done, Goto, TypeOK
  <2>3. /\ \A q \in Req \ {r} : held'[q] = held[q]
        /\ \A c \in Conn : c # held[r] => guc'[c] = guc[c]
    BY <1>0, <2>1, EndEffect
  <2>4. \A q \in Req \ {r} : rpc'[q] = rpc[q] /\ ctx'[q] = ctx[q] /\ held'[q] = held[q]
    BY <2>2, <2>3
  <2> QED
    BY <2>2, <2>3, <2>4, OthersScoped
<1>8. ASSUME NEW c \in Conn, Reconnect(c) PROVE Scoped'
  <2>1. \A q \in Req : held[q] # c
    BY <1>8, PoolAssumption DEF Reconnect, PoolInv, Lent
  <2>2. /\ UNCHANGED <<rpc, ctx, held, moved>>
        /\ \A d \in Conn : d # c => guc'[d] = guc[d]
    BY <1>0, <1>8 DEF Reconnect, requestVars, TypeOK
  <2> QED
    BY <1>0, <2>1, <2>2 DEF Scoped, TypeOK
<1>9. CASE UNCHANGED vars
  BY <1>9 DEF vars, Scoped
<1> QED
  BY <1>1, <1>2, <1>3, <1>4, <1>5, <1>6, <1>7, <1>8, <1>9
  DEF Next, Handler, WayOut, TenantScopedRequest, AllTenantsRequest, PlainRequest

\* Whatever its connection carried before, a request sees in its first
\* transaction the rows of its own context and no others.
THEOREM RequestsStartScoped == Spec => []FirstTransactionIsScoped
<1>1. Init => Scoped
  BY DEF Init, Scoped
<1>2. Scoped => FirstTransactionIsScoped
  BY DEF Scoped, FirstTransactionIsScoped
<1> QED
  BY <1>1, <1>2, ScopedStep, PoolInvariant, PTL DEF Spec

LEMMA CleanStep == PoolInv /\ Clean /\ [Next]_vars => Clean'
<1> SUFFICES ASSUME PoolInv, Clean, [Next]_vars PROVE Clean'
  OBVIOUS
<1>0. /\ TypeOK /\ Range(idle) \subseteq Conn
      /\ \A r \in Req : held[r] # NoConn => held[r] \in Conn \ Range(idle)
  BY DEF PoolInv, Typed, TypeOK, Lent
<1>1. ASSUME NEW r \in Req, NEW v, EndTransaction(r, v), v \in left' \union {Unset},
             left \subseteq left'
      PROVE  Clean'
  <2>1. /\ \A c \in Conn : c # held[r] => guc'[c] = guc[c] /\ base'[c] = base[c]
        /\ held[r] # NoConn => guc'[held[r]] \in {v, Unset} /\ base'[held[r]] \in {v, Unset}
        /\ Range(idle') \subseteq Range(idle) \union ({held[r]} \ {NoConn})
    BY <1>0, <1>1, EndEffect
  <2>2. held[r] \in Conn => held[r] # NoConn
    BY PoolAssumption
  <2>3. ASSUME NEW c \in Conn PROVE base'[c] \in left' \union {Unset}
    BY <1>1, <2>1, <2>2, <2>3 DEF Clean
  <2>4. ASSUME NEW c \in Range(idle') PROVE guc'[c] \in left' \union {Unset}
    <3>1. CASE c \in Range(idle)
      BY <1>0, <1>1, <2>1, <2>2, <3>1 DEF Clean, OnlyCommitsLeaveContext
    <3>2. CASE c = held[r] /\ c # NoConn
      BY <1>1, <2>1, <3>2
    <3> QED
      BY <2>1, <2>4, <3>1, <3>2
  <2> QED
    BY <2>3, <2>4 DEF Clean, OnlyCommitsLeaveContext
<1>2. ASSUME NEW r \in Req, Commit(r) PROVE Clean'
  BY <1>1, <1>2 DEF Commit
<1>3. ASSUME NEW r \in Req, Rollback(r), left' = left PROVE Clean'
  <2>1. RolledBack(r) \in left' \union {Unset} /\ EndTransaction(r, RolledBack(r))
    BY <1>0, <1>3 DEF Rollback, RolledBack, Clean
  <2> QED
    BY <1>1, <1>3, <2>1
<1>4. ASSUME NEW r \in Req, HandlerRollback(r) \/ Raises(r) \/ Close(r) PROVE Clean'
  BY <1>3, <1>4 DEF HandlerRollback, Raises, Close, Done
<1>5. ASSUME UNCHANGED <<base, left>>, Range(idle') \subseteq Range(idle),
             \A c \in Range(idle) : guc'[c] = guc[c]
      PROVE  Clean'
  BY <1>5 DEF Clean, OnlyCommitsLeaveContext
<1>6. ASSUME NEW r \in Req, Checkout(r) PROVE Clean'
  <2>1. Range(idle') \subseteq Range(idle)
    BY <1>6, HeadAndTail DEF Checkout, PoolInv, Typed, TypeOK, Lent
  <2> QED
    BY <1>5, <1>6, <2>1 DEF Checkout
<1>7. ASSUME NEW r \in Req, SetContext(r) \/ Reset(r) PROVE Clean'
  <2>1. UNCHANGED <<base, left, idle>> /\ \A c \in Range(idle) : guc'[c] = guc[c]
    BY <1>0, <1>7 DEF SetContext, Reset, TypeOK
  <2> QED
    BY <1>5, <2>1
<1>8. ASSUME NEW r \in Req, ConnectionLost(r) PROVE Clean'
  <2>1. /\ UNCHANGED <<idle, left>> /\ \A c \in Range(idle) : guc'[c] = guc[c]
        /\ \A c \in Conn : base'[c] \in {base[c], Unset}
    BY <1>0, <1>8 DEF ConnectionLost, TypeOK
  <2> QED
    BY <2>1 DEF Clean, OnlyCommitsLeaveContext
<1>9. ASSUME NEW c \in Conn, Reconnect(c) PROVE Clean'
  <2>1. /\ UNCHANGED <<idle, left>>
        /\ \A d \in Conn : guc'[d] \in {guc[d], Unset} /\ base'[d] \in {base[d], Unset}
    BY <1>0, <1>9 DEF Reconnect, TypeOK
  <2> QED
    BY <1>0, <2>1 DEF Clean, OnlyCommitsLeaveContext
<1>10. ASSUME UNCHANGED <<idle, guc, base, left>> PROVE Clean'
  BY <1>10 DEF Clean, OnlyCommitsLeaveContext
<1>11. ASSUME NEW r \in Req, \/ TenantScopedRequest(r) \/ AllTenantsRequest(r)
                             \/ PlainRequest(r) \/ Returns(r) \/ ResetFails(r)
       PROVE  Clean'
  BY <1>10, <1>11 DEF TenantScopedRequest, AllTenantsRequest, PlainRequest, Begin, Returns,
                      ResetFails, poolVars
<1>12. CASE UNCHANGED vars
  BY <1>10, <1>12 DEF vars
<1> QED
  BY <1>2, <1>4, <1>6, <1>7, <1>8, <1>9, <1>11, <1>12 DEF Next, Handler, WayOut

\* An idle connection carries a tenant only if a request committed under it:
\* requests that fail, or only read, leave nothing behind.
THEOREM ReadersLeaveNoContext == Spec => []OnlyCommitsLeaveContext
<1>1. Init => Clean
  BY DEF Init, Clean, OnlyCommitsLeaveContext, Range
<1>2. Clean => OnlyCommitsLeaveContext
  BY DEF Clean
<1> QED
  BY <1>1, <1>2, CleanStep, PoolInvariant, PTL DEF Spec

=============================================================================
