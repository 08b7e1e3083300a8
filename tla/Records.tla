------------------------------- MODULE Records -------------------------------
(***************************************************************************)
(* The tables managed over HTTP: clients (alias tenants) and users through *)
(* routers/admin.py, customers through routers/client.py.  A row has a     *)
(* unique key (slug, e-mail address, phone number), a kind (plan, role,    *)
(* profile) and a status.                                                  *)
(*                                                                         *)
(* Each request runs its own transactions on PostgreSQL (read committed):  *)
(* it loads or searches, commits, reads its row again and, for the admin   *)
(* tables, commits an audit entry.  Another request may act between any    *)
(* two of these awaits.  SQLAlchemy writes the columns that differ from    *)
(* what the request loaded, and a rollback expires the loaded object.      *)
(***************************************************************************)
EXTENDS Naturals

CONSTANTS
  Table,       \* the tables considered
  Id, Key, Kind, Status,
  Removed,     \* the status a soft delete sets
  Active,      \* server default of status
  Req,         \* requests over the life of the model
  None

ASSUME TablesKnown == Table \subseteq {"clients", "users", "customers"}
ASSUME StatusesNamed == Removed \in Status /\ Active \in Status
ASSUME KindsExist == Kind # {}
ASSUME NoneFresh == None \notin Id /\ None \notin Key /\ None \notin Kind /\ None \notin Status

Row == [key : Key, kind : Kind, status : Status]

ASSUME NoneIsNoRow == None \notin Row

\* A request's fields; model_dump(exclude_none=True) drops the None ones.
Body == [key : Key \union {None}, kind : Kind \union {None}, status : Status \union {None}]

VARIABLES
  table,   \* which table, fixed
  rows,    \* its contents
  audit,   \* audit_logs
  pc,      \* where each request is, then its answer
  op, id, body,   \* what it asks for; id is None until a row is found or made
  obj,     \* the ORM object it holds
  before,  \* the snapshot taken for the audit entry
  wrote    \* requests whose change is committed

input == <<table, op, body>>
vars == <<table, rows, audit, pc, op, id, body, obj, before, wrote>>

-----------------------------------------------------------------------------
Ops == {"create", "update", "delete", "upsert"}

Answer == {"ok", "400", "404", "409", "500"}
PC == {"idle", "load", "check", "insert", "commit", "refresh", "audit"} \union Answer

AuditRow == [by : Req, id : Id, before : Row \union {None}, after : Row]

TypeOK ==
  /\ table \in Table
  /\ rows \in [Id -> Row \union {None}]
  /\ audit \subseteq AuditRow
  /\ pc \in [Req -> PC]
  /\ op \in [Req -> Ops \union {None}]
  /\ id \in [Req -> Id \union {None}]
  /\ body \in [Req -> Body \union {None}]
  /\ obj \in [Req -> Row \union {None}] /\ before \in [Req -> Row \union {None}]
  /\ wrote \subseteq Req

KeysUnique ==
  \A i, j \in Id : rows[i] # None /\ rows[j] # None /\ rows[i].key = rows[j].key => i = j

\* A table as earlier requests may have left it.
Init ==
  /\ table \in Table
  /\ rows \in [Id -> Row \union {None}] /\ KeysUnique
  /\ audit = {} /\ wrote = {}
  /\ pc = [r \in Req |-> "idle"]
  /\ op = [r \in Req |-> None] /\ body = [r \in Req |-> None] /\ id = [r \in Req |-> None]
  /\ obj = [r \in Req |-> None] /\ before = [r \in Req |-> None]

Goto(r, l) == pc' = [pc EXCEPT ![r] = l]

\* select ... where key: the row with that key, if any.
Holders(k) == {i \in Id : rows[i] # None /\ rows[i].key = k}

\* What the unique index lets a request store under key k in row i.
IndexAllows(i, k) == Holders(k) \subseteq {i}

-----------------------------------------------------------------------------
(* A request arrives.                                                      *)

\* The routes of each table; a slug can be changed, an e-mail address or a
\* phone number cannot.
Routes ==
  [clients   |-> {"create", "update", "delete"},
   users     |-> {"create", "update", "delete"},
   customers |-> {"upsert", "update"}]

\* The fields each route takes.
Accepts(o, b) ==
  /\ o \in Routes[table]
  /\ CASE o = "create" -> b.key # None /\ b.status = None
       [] o = "upsert" -> b.key # None /\ b.status = None
       [] o = "update" -> b.key # None => table = "clients"
       [] o = "delete" -> b = [key |-> None, kind |-> None, status |-> Removed]

Receive(r, o, i, b) ==
  /\ pc[r] = "idle"
  /\ Accepts(o, b)
  /\ op' = [op EXCEPT ![r] = o] /\ body' = [body EXCEPT ![r] = b]
  /\ id' = [id EXCEPT ![r] = IF o \in {"update", "delete"} THEN i ELSE None]
  /\ Goto(r, "load")
  /\ UNCHANGED <<table, rows, audit, obj, before, wrote>>

\* A plan, role or status outside the valid sets.
RejectBody(r) ==
  /\ pc[r] = "idle"
  /\ Goto(r, "400")
  /\ UNCHANGED <<rows, audit, input, id, obj, before, wrote>>

-----------------------------------------------------------------------------
(* update and delete: the row is loaded by id.                             *)

NotFound(r) ==
  /\ pc[r] = "load" /\ op[r] \in {"update", "delete"}
  /\ rows[id[r]] = None
  /\ Goto(r, "404")
  /\ UNCHANGED <<rows, audit, input, id, obj, before, wrote>>

Load(r) ==
  /\ pc[r] = "load" /\ op[r] \in {"update", "delete"}
  /\ rows[id[r]] # None
  /\ obj' = [obj EXCEPT ![r] = rows[id[r]]]
  /\ before' = [before EXCEPT ![r] = rows[id[r]]]
  /\ Goto(r, IF body[r].key \in {None, rows[id[r]].key} THEN "commit" ELSE "check")
  /\ UNCHANGED <<rows, audit, input, id, wrote>>

\* The new key is looked up before it is set.
CheckKey(r) ==
  /\ pc[r] = "check"
  /\ Goto(r, IF Holders(body[r].key) = {} THEN "commit" ELSE "409")
  /\ UNCHANGED <<rows, audit, input, id, obj, before, wrote>>

(* create and upsert: the key is looked up.                                *)

FindNone(r) ==
  /\ pc[r] = "load" /\ op[r] \in {"create", "upsert"}
  /\ Holders(body[r].key) = {}
  /\ Goto(r, "insert")
  /\ UNCHANGED <<rows, audit, input, id, obj, before, wrote>>

\* create_user: the tenant it names does not exist.
TenantMissing(r) ==
  /\ pc[r] = "insert" /\ op[r] = "create" /\ table = "users"
  /\ Goto(r, "404")
  /\ UNCHANGED <<rows, audit, input, id, obj, before, wrote>>

FindForCreate(r) ==
  /\ pc[r] = "load" /\ op[r] = "create"
  /\ Holders(body[r].key) # {}
  /\ Goto(r, "409")
  /\ UNCHANGED <<rows, audit, input, id, obj, before, wrote>>

FindForUpsert(r) ==
  /\ pc[r] = "load" /\ op[r] = "upsert"
  /\ \E i \in Holders(body[r].key) :
       /\ id' = [id EXCEPT ![r] = i]
       /\ obj' = [obj EXCEPT ![r] = rows[i]]
  /\ Goto(r, "commit")
  /\ UNCHANGED <<rows, audit, input, before, wrote>>

-----------------------------------------------------------------------------
(* The change is committed.                                                *)

New(b) == [key |-> b.key,
           kind |-> IF b.kind = None THEN CHOOSE k \in Kind : TRUE ELSE b.kind,
           status |-> Active]

\* Mutant: there is no unique index.
InsertUnchecked(r) ==
  /\ pc[r] = "insert"
  /\ \E i \in Id :
       /\ rows[i] = None
       /\ rows' = [rows EXCEPT ![i] = New(body[r])]
       /\ id' = [id EXCEPT ![r] = i]
       /\ obj' = [obj EXCEPT ![r] = New(body[r])]
  /\ wrote' = wrote \union {r}
  /\ Goto(r, "refresh")
  /\ UNCHANGED <<audit, input, before>>

Insert(r) ==
  /\ pc[r] = "insert"
  /\ Holders(body[r].key) = {}
  /\ \E i \in Id :
       /\ rows[i] = None
       /\ rows' = [rows EXCEPT ![i] = New(body[r])]
       /\ id' = [id EXCEPT ![r] = i]
       /\ obj' = [obj EXCEPT ![r] = New(body[r])]
  /\ wrote' = wrote \union {r}
  /\ Goto(r, "refresh")
  /\ UNCHANGED <<audit, input, before>>

\* IntegrityError is caught nowhere: the request fails and is rolled back.
InsertConflicts(r) ==
  /\ pc[r] = "insert"
  /\ Holders(body[r].key) # {}
  /\ Goto(r, "500")
  /\ UNCHANGED <<rows, audit, input, id, obj, before, wrote>>

\* Only the columns that differ from the loaded object are written.
Column(asked, loaded, stored) == IF asked \in {None, loaded} THEN stored ELSE asked
Written(row, b, o) ==
  [key |-> Column(b.key, o.key, row.key),
   kind |-> Column(b.kind, o.kind, row.kind),
   status |-> Column(b.status, o.status, row.status)]

\* Mutant: the whole loaded object is written back.
UpdateWholeRow(r) ==
  LET new == Written(obj[r], body[r], obj[r]) IN
  /\ pc[r] = "commit" /\ IndexAllows(id[r], new.key)
  /\ rows' = [rows EXCEPT ![id[r]] = new]
  /\ obj' = [obj EXCEPT ![r] = new]
  /\ wrote' = wrote \union {r}
  /\ Goto(r, IF op[r] = "delete" THEN "audit" ELSE "refresh")
  /\ UNCHANGED <<audit, input, id, before>>

\* Mutant: the audit entry goes first, the change after it.
UpdateAfterAudit(r) ==
  /\ pc[r] = "commit"
  /\ audit' = audit \union {[by |-> r, id |-> id[r], before |-> obj[r],
                              after |-> Written(obj[r], body[r], obj[r])]}
  /\ Goto(r, "refresh")
  /\ UNCHANGED <<rows, input, id, obj, before, wrote>>

\* delete does not read its row again before the audit entry.
Update(r) ==
  LET new == Written(rows[id[r]], body[r], obj[r]) IN
  /\ pc[r] = "commit" /\ IndexAllows(id[r], new.key)
  /\ rows' = [rows EXCEPT ![id[r]] = new]
  /\ obj' = [obj EXCEPT ![r] = Written(obj[r], body[r], obj[r])]
  /\ wrote' = wrote \union {r}
  /\ Goto(r, IF op[r] = "delete" THEN "audit" ELSE "refresh")
  /\ UNCHANGED <<audit, input, id, before>>

UpdateConflicts(r) ==
  /\ pc[r] = "commit"
  /\ ~IndexAllows(id[r], Written(rows[id[r]], body[r], obj[r]).key)
  /\ Goto(r, "500")
  /\ UNCHANGED <<rows, audit, input, id, obj, before, wrote>>

-----------------------------------------------------------------------------
(* After the commit.                                                       *)

\* Mutant: the request's body is taken for the row.
RefreshFromBody(r) ==
  /\ pc[r] = "refresh"
  /\ obj' = [obj EXCEPT ![r] = body[r]]
  /\ Goto(r, IF table # "customers" THEN "audit" ELSE "ok")
  /\ UNCHANGED <<rows, audit, input, id, before, wrote>>

Refresh(r) ==
  /\ pc[r] = "refresh"
  /\ obj' = [obj EXCEPT ![r] = rows[id[r]]]
  /\ Goto(r, IF table # "customers" THEN "audit" ELSE "ok")
  /\ UNCHANGED <<rows, audit, input, id, before, wrote>>

\* _write_audit_log, in a transaction of its own.
WriteAuditLog(r) ==
  /\ pc[r] = "audit"
  /\ audit' = audit \union {[by |-> r, id |-> id[r], before |-> before[r], after |-> obj[r]]}
  /\ Goto(r, "ok")
  /\ UNCHANGED <<rows, input, id, obj, before, wrote>>

\* Its failure is swallowed, but the rollback expires the loaded object:
\* create and update then fail while they build their response from it.
AuditLogFails(r) ==
  /\ pc[r] = "audit"
  /\ Goto(r, IF op[r] = "delete" THEN "ok" ELSE "500")
  /\ UNCHANGED <<rows, audit, input, id, obj, before, wrote>>

\* Any other database error, which rolls the open transaction back, or the
\* process stops and the client gets no answer at all.
Fails(r) ==
  /\ pc[r] \notin Answer \union {"idle"}
  /\ Goto(r, "500")
  /\ UNCHANGED <<rows, audit, input, id, obj, before, wrote>>

-----------------------------------------------------------------------------
Step(r) ==
  \/ RejectBody(r) \/ NotFound(r) \/ Load(r) \/ CheckKey(r)
  \/ FindNone(r) \/ TenantMissing(r) \/ FindForCreate(r) \/ FindForUpsert(r)
  \/ Insert(r) \/ InsertConflicts(r) \/ Update(r) \/ UpdateConflicts(r)
  \/ Refresh(r) \/ WriteAuditLog(r) \/ AuditLogFails(r) \/ Fails(r)

Next ==
  \E r \in Req :
    \/ \E o \in Ops, i \in Id, b \in Body : Receive(r, o, i, b)
    \/ Step(r)

Spec == Init /\ [][Next]_vars

-----------------------------------------------------------------------------
(* Properties.                                                             *)

\* A change touches the fields its own request names and leaves every other
\* field as the last request left it, although it was loaded long before.
Touched(i) ==
  {f \in {"key", "kind", "status"} : rows[i] # None /\ rows'[i][f] # rows[i][f]}

NoFieldClobbered ==
  [][\A i \in Id : \A f \in Touched(i) :
       \E r \in Req : id[r] = i /\ r \in wrote' \ wrote /\ body[r][f] = rows'[i][f]]_vars

\* The trail claims nothing that did not happen: an audit entry is written by
\* a request whose own change is committed, and one entry per request.
AuditedWasCommitted ==
  /\ \A e \in audit : e.by \in wrote /\ e.id = id[e.by]
  /\ \A e, f \in audit : e.by = f.by => e = f

=============================================================================
