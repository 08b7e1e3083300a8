---------------------------- MODULE RecordsProofs ----------------------------
(***************************************************************************)
(* Proofs about Records, for any number of rows, keys and requests.        *)
(***************************************************************************)
EXTENDS Records, TLAPS

Busy == {"load", "check", "insert", "commit", "refresh", "audit"}

\* What a request relies on between its awaits: its inputs are well formed,
\* and the row it holds exists (no route deletes one physically).
Holding(r) ==
  /\ pc[r] \in Busy => body[r] \in Body /\ op[r] \in Ops
  /\ pc[r] = "load" => IF op[r] \in {"update", "delete"} THEN id[r] \in Id ELSE body[r].key \in Key
  /\ pc[r] = "insert" => body[r].key \in Key
  /\ pc[r] \in {"check", "commit", "refresh", "audit"} =>
       id[r] \in Id /\ rows[id[r]] # None /\ obj[r] \in Row
  /\ pc[r] \in {"refresh", "audit"} => r \in wrote

Shape ==
  /\ rows \in [Id -> Row \union {None}]
  /\ pc \in [Req -> PC]
  /\ op \in [Req -> Ops \union {None}]
  /\ id \in [Req -> Id \union {None}]
  /\ body \in [Req -> Body \union {None}]
  /\ obj \in [Req -> Row \union {None}]
  /\ wrote \subseteq Req

TableInv == Shape /\ KeysUnique /\ \A r \in Req : Holding(r)

\* Only request r moves, and no row disappears.
OnlyMoves(r) ==
  /\ \A s \in Req \ {r} : /\ pc'[s] = pc[s] /\ op'[s] = op[s] /\ id'[s] = id[s]
                          /\ body'[s] = body[s] /\ obj'[s] = obj[s]
  /\ \A i \in Id : rows[i] # None => rows'[i] # None
  /\ wrote \subseteq wrote'

\* What the other requests hold survives the step of one.
LEMMA OthersHold ==
  ASSUME TableInv, NEW r \in Req, OnlyMoves(r), Holding(r)'
  PROVE  \A s \in Req : Holding(s)'
<1> TAKE s \in Req
<1>1. CASE s = r
  BY <1>1
<1>2. CASE s # r
  <2>1. Holding(s)
    BY DEF TableInv
  <2>2. /\ pc'[s] = pc[s] /\ op'[s] = op[s] /\ id'[s] = id[s] /\ body'[s] = body[s]
        /\ obj'[s] = obj[s]
    BY <1>2 DEF OnlyMoves
  <2>3. \A i \in Id : rows[i] # None => rows'[i] # None
    BY DEF OnlyMoves
  <2>4. s \in wrote => s \in wrote'
    BY DEF OnlyMoves
  <2> QED BY <2>1, <2>2, <2>3, <2>4 DEF Holding
<1> QED BY <1>1, <1>2

\* A request that only reads, or gives up, keeps the table and everybody's
\* view of it.
LEMMA QuietStep ==
  ASSUME TableInv, NEW r \in Req, Shape', OnlyMoves(r), rows' = rows, Holding(r)'
  PROVE  TableInv'
<1>1. KeysUnique'
  BY DEF TableInv, KeysUnique
<1> QED BY <1>1, OthersHold DEF TableInv

\* The unique index: a row stored under a key nobody else has keeps keys unique.
LEMMA StoreKeepsUnique ==
  ASSUME Shape, KeysUnique, NEW i \in Id, NEW row \in Row, IndexAllows(i, row.key),
         rows' = [rows EXCEPT ![i] = row]
  PROVE  KeysUnique'
<1> SUFFICES ASSUME NEW a \in Id, NEW b \in Id, rows'[a] # None, rows'[b] # None,
                    rows'[a].key = rows'[b].key
             PROVE  a = b
  BY DEF KeysUnique
<1>1. \A j \in Id \ {i} : rows'[j] = rows[j]
  BY DEF Shape
<1>2. rows'[i] = row
  BY DEF Shape
<1>3. \A j \in Id : rows[j] # None /\ rows[j].key = row.key => j = i
  BY DEF IndexAllows, Holders
<1> QED BY <1>1, <1>2, <1>3 DEF KeysUnique

\* What an UPDATE stores is a row.
LEMMA WrittenIsRow ==
  ASSUME NEW row \in Row, NEW b \in Body, NEW o \in Row
  PROVE  Written(row, b, o) \in Row
  BY DEF Written, Column, Row, Body

\* Every answer without a change: refusals, conflicts, errors, a stop.
LEMMA EndStep ==
  ASSUME TableInv, NEW r \in Req, NEW l \in Answer, Goto(r, l),
         UNCHANGED <<rows, input, id, obj, wrote>>
  PROVE  TableInv'
<1>1. pc' = [pc EXCEPT ![r] = l] /\ l \in PC
  BY DEF Goto, PC
<1>2. rows' = rows /\ op' = op /\ body' = body /\ id' = id /\ obj' = obj /\ wrote' = wrote
  BY DEF input
<1>3. Shape'
  BY <1>1, <1>2 DEF TableInv, Shape
<1>4. OnlyMoves(r)
  BY <1>1, <1>2 DEF OnlyMoves, TableInv, Shape
<1>5. pc'[r] = l /\ pc'[r] \notin Busy
  BY <1>1 DEF TableInv, Shape, Answer, Busy
<1>6. Holding(r)'
  BY <1>5 DEF Holding, Busy
<1> QED BY <1>2, <1>3, <1>4, <1>6, QuietStep

\* Every step keeps TableInv.
LEMMA TableStep == TableInv /\ [Next]_vars => TableInv'
<1> SUFFICES ASSUME TableInv, [Next]_vars PROVE TableInv'
  OBVIOUS
<1>u. CASE UNCHANGED vars
  BY <1>u DEF vars, TableInv, Shape, KeysUnique, Holding
<1>s. Shape /\ KeysUnique /\ \A r \in Req : Holding(r)
  BY DEF TableInv
<1>1. ASSUME NEW r \in Req, NEW o \in Ops, NEW i \in Id, NEW b \in Body, Receive(r, o, i, b)
      PROVE  TableInv'
  <2> DEFINE target == IF o \in {"update", "delete"} THEN i ELSE None
  <2>1. /\ pc' = [pc EXCEPT ![r] = "load"] /\ op' = [op EXCEPT ![r] = o]
        /\ body' = [body EXCEPT ![r] = b] /\ id' = [id EXCEPT ![r] = target]
        /\ rows' = rows /\ obj' = obj /\ wrote' = wrote
    BY <1>1 DEF Receive, Goto
  <2>2. o \notin {"update", "delete"} => b.key \in Key
    BY <1>1 DEF Receive, Accepts, Body, Ops
  <2>3. Shape'
    BY <1>s, <2>1 DEF Shape, PC
  <2>4. OnlyMoves(r)
    BY <1>s, <2>1 DEF OnlyMoves, Shape
  <2>5. pc'[r] = "load" /\ op'[r] = o /\ body'[r] = b /\ id'[r] = target
    BY <1>s, <2>1 DEF Shape
  <2>6. Holding(r)'
    BY <2>2, <2>5 DEF Holding
  <2> QED BY <2>1, <2>3, <2>4, <2>6, QuietStep
<1>2. ASSUME NEW r \in Req,
             \/ RejectBody(r) \/ NotFound(r) \/ TenantMissing(r) \/ FindForCreate(r)
             \/ InsertConflicts(r) \/ UpdateConflicts(r) \/ WriteAuditLog(r)
             \/ AuditLogFails(r) \/ Fails(r)
      PROVE  TableInv'
  <2>1. \E l \in Answer : Goto(r, l)
    BY <1>2 DEF RejectBody, NotFound, TenantMissing, FindForCreate, InsertConflicts,
                UpdateConflicts, WriteAuditLog, AuditLogFails, Fails, Answer
  <2>2. UNCHANGED <<rows, input, id, obj, wrote>>
    BY <1>2 DEF RejectBody, NotFound, TenantMissing, FindForCreate, InsertConflicts,
                UpdateConflicts, WriteAuditLog, AuditLogFails, Fails
  <2> QED BY <2>1, <2>2, EndStep
<1>3. ASSUME NEW r \in Req, Load(r) PROVE TableInv'
  <2> DEFINE l == IF body[r].key \in {None, rows[id[r]].key} THEN "commit" ELSE "check"
  <2>1. /\ pc[r] = "load" /\ op[r] \in {"update", "delete"} /\ rows[id[r]] # None
        /\ pc' = [pc EXCEPT ![r] = l] /\ obj' = [obj EXCEPT ![r] = rows[id[r]]]
        /\ rows' = rows /\ op' = op /\ body' = body /\ id' = id /\ wrote' = wrote
    BY <1>3 DEF Load, Goto, input
  <2>2. id[r] \in Id /\ body[r] \in Body /\ op[r] \in Ops
    BY <1>s, <2>1 DEF Holding, Busy
  <2>3. rows[id[r]] \in Row
    BY <1>s, <2>1, <2>2 DEF Shape
  <2>4. l \in {"commit", "check"}
    OBVIOUS
  <2> HIDE DEF l
  <2>5. Shape'
    BY <1>s, <2>1, <2>3, <2>4 DEF Shape, PC
  <2>6. OnlyMoves(r)
    BY <1>s, <2>1 DEF OnlyMoves, Shape
  <2>7. pc'[r] = l /\ obj'[r] = rows[id[r]]
    BY <1>s, <2>1 DEF Shape
  <2>8. Holding(r)'
    BY <2>1, <2>2, <2>3, <2>4, <2>7 DEF Holding
  <2> QED BY <2>1, <2>5, <2>6, <2>8, QuietStep
<1>4. ASSUME NEW r \in Req, CheckKey(r) PROVE TableInv'
  <2>1. /\ pc[r] = "check" /\ UNCHANGED <<rows, input, id, obj, wrote>>
        /\ Goto(r, "commit") \/ Goto(r, "409")
    BY <1>4 DEF CheckKey
  <2>2. CASE Goto(r, "409")
    BY <2>1, <2>2, EndStep DEF Answer
  <2>3. CASE Goto(r, "commit")
    <3>1. /\ pc' = [pc EXCEPT ![r] = "commit"] /\ rows' = rows /\ op' = op /\ body' = body
          /\ id' = id /\ obj' = obj /\ wrote' = wrote
      BY <2>1, <2>3 DEF Goto, input
    <3>2. Shape'
      BY <1>s, <3>1 DEF Shape, PC
    <3>3. OnlyMoves(r)
      BY <1>s, <3>1 DEF OnlyMoves, Shape
    <3>4. pc'[r] = "commit"
      BY <1>s, <3>1 DEF Shape
    <3>5. Holding(r)'
      BY <1>s, <2>1, <3>1, <3>4 DEF Holding, Busy
    <3> QED BY <3>1, <3>2, <3>3, <3>5, QuietStep
  <2> QED BY <2>1, <2>2, <2>3
<1>5. ASSUME NEW r \in Req, FindNone(r) PROVE TableInv'
  <2>1. /\ pc[r] = "load" /\ op[r] \in {"create", "upsert"} /\ pc' = [pc EXCEPT ![r] = "insert"]
        /\ rows' = rows /\ op' = op /\ body' = body /\ id' = id /\ obj' = obj /\ wrote' = wrote
    BY <1>5 DEF FindNone, Goto, input
  <2>2. body[r] \in Body /\ op[r] \in Ops /\ body[r].key \in Key
    BY <1>s, <2>1 DEF Holding, Busy
  <2>3. Shape'
    BY <1>s, <2>1 DEF Shape, PC
  <2>4. OnlyMoves(r)
    BY <1>s, <2>1 DEF OnlyMoves, Shape
  <2>5. pc'[r] = "insert"
    BY <1>s, <2>1 DEF Shape
  <2>6. Holding(r)'
    BY <2>1, <2>2, <2>5 DEF Holding
  <2> QED BY <2>1, <2>3, <2>4, <2>6, QuietStep
<1>6. ASSUME NEW r \in Req, FindForUpsert(r) PROVE TableInv'
  <2>1. PICK i \in Holders(body[r].key) :
          id' = [id EXCEPT ![r] = i] /\ obj' = [obj EXCEPT ![r] = rows[i]]
    BY <1>6 DEF FindForUpsert
  <2>2. /\ pc[r] = "load" /\ pc' = [pc EXCEPT ![r] = "commit"]
        /\ rows' = rows /\ op' = op /\ body' = body /\ wrote' = wrote
    BY <1>6 DEF FindForUpsert, Goto, input
  <2>3. i \in Id /\ rows[i] # None /\ rows[i] \in Row
    BY <1>s DEF Holders, Shape
  <2>4. body[r] \in Body /\ op[r] \in Ops
    BY <1>s, <2>2 DEF Holding, Busy
  <2>5. Shape'
    BY <1>s, <2>1, <2>2, <2>3 DEF Shape, PC
  <2>6. OnlyMoves(r)
    BY <1>s, <2>1, <2>2 DEF OnlyMoves, Shape
  <2>7. pc'[r] = "commit" /\ id'[r] = i /\ obj'[r] = rows[i]
    BY <1>s, <2>1, <2>2 DEF Shape
  <2>8. Holding(r)'
    BY <2>2, <2>3, <2>4, <2>7 DEF Holding
  <2> QED BY <2>2, <2>5, <2>6, <2>8, QuietStep
<1>7. ASSUME NEW r \in Req, Refresh(r) PROVE TableInv'
  <2> DEFINE l == IF table # "customers" THEN "audit" ELSE "ok"
  <2>1. /\ pc[r] = "refresh" /\ pc' = [pc EXCEPT ![r] = l] /\ obj' = [obj EXCEPT ![r] = rows[id[r]]]
        /\ rows' = rows /\ op' = op /\ body' = body /\ id' = id /\ wrote' = wrote
    BY <1>7 DEF Refresh, Goto, input
  <2>2. /\ id[r] \in Id /\ rows[id[r]] # None /\ r \in wrote
        /\ body[r] \in Body /\ op[r] \in Ops
    BY <1>s, <2>1 DEF Holding, Busy
  <2>3. rows[id[r]] \in Row
    BY <1>s, <2>2 DEF Shape
  <2>4. l \in {"audit", "ok"}
    OBVIOUS
  <2> HIDE DEF l
  <2>5. Shape'
    BY <1>s, <2>1, <2>3, <2>4 DEF Shape, PC, Answer
  <2>6. OnlyMoves(r)
    BY <1>s, <2>1 DEF OnlyMoves, Shape
  <2>7. pc'[r] = l /\ obj'[r] = rows[id[r]]
    BY <1>s, <2>1 DEF Shape
  <2>8. Holding(r)'
    BY <2>1, <2>2, <2>3, <2>4, <2>7 DEF Holding, Busy
  <2> QED BY <2>1, <2>5, <2>6, <2>8, QuietStep
<1>8. ASSUME NEW r \in Req, Insert(r) PROVE TableInv'
  <2> DEFINE new == New(body[r])
  <2>1. PICK i \in Id : /\ rows[i] = None /\ rows' = [rows EXCEPT ![i] = new]
                        /\ id' = [id EXCEPT ![r] = i] /\ obj' = [obj EXCEPT ![r] = new]
    BY <1>8 DEF Insert
  <2>2. /\ pc[r] = "insert" /\ pc' = [pc EXCEPT ![r] = "refresh"] /\ op' = op /\ body' = body
        /\ wrote' = wrote \union {r} /\ Holders(body[r].key) = {}
    BY <1>8 DEF Insert, Goto, input
  <2>3. body[r] \in Body /\ op[r] \in Ops /\ body[r].key \in Key
    BY <1>s, <2>2 DEF Holding, Busy
  <2>4. new \in Row /\ new.key = body[r].key
    BY <2>3, StatusesNamed, KindsExist DEF New, Row, Body
  <2> HIDE DEF new
  <2>5. IndexAllows(i, new.key)
    BY <2>2, <2>4 DEF IndexAllows
  <2>6. KeysUnique'
    BY <1>s, <2>1, <2>4, <2>5, StoreKeepsUnique
  <2>7. new # None
    BY <2>4, NoneIsNoRow
  <2>8. Shape'
    BY <1>s, <2>1, <2>2, <2>4 DEF Shape, PC
  <2>9. OnlyMoves(r)
    BY <1>s, <2>1, <2>2, <2>7 DEF OnlyMoves, Shape
  <2>10. pc'[r] = "refresh" /\ id'[r] = i /\ obj'[r] = new /\ rows'[i] = new
    BY <1>s, <2>1, <2>2 DEF Shape
  <2>11. Holding(r)'
    BY <2>2, <2>3, <2>4, <2>7, <2>10 DEF Holding
  <2> QED BY <2>6, <2>8, <2>9, <2>11, OthersHold DEF TableInv
<1>9. ASSUME NEW r \in Req, Update(r) PROVE TableInv'
  <2> DEFINE new == Written(rows[id[r]], body[r], obj[r])
             mine == Written(obj[r], body[r], obj[r])
             l == IF op[r] = "delete" THEN "audit" ELSE "refresh"
  <2>1. /\ pc[r] = "commit" /\ IndexAllows(id[r], new.key) /\ rows' = [rows EXCEPT ![id[r]] = new]
        /\ obj' = [obj EXCEPT ![r] = mine] /\ wrote' = wrote \union {r}
        /\ pc' = [pc EXCEPT ![r] = l] /\ op' = op /\ body' = body /\ id' = id
    BY <1>9 DEF Update, Goto, input
  <2>2. /\ id[r] \in Id /\ rows[id[r]] # None /\ obj[r] \in Row
        /\ body[r] \in Body /\ op[r] \in Ops
    BY <1>s, <2>1 DEF Holding, Busy
  <2>3. rows[id[r]] \in Row
    BY <1>s, <2>2 DEF Shape
  <2>4. new \in Row /\ mine \in Row
    BY <2>2, <2>3, WrittenIsRow
  <2>5. l \in {"audit", "refresh"}
    OBVIOUS
  <2> HIDE DEF new, mine, l
  <2>6. KeysUnique'
    BY <1>s, <2>1, <2>2, <2>4, StoreKeepsUnique
  <2>7. new # None
    BY <2>4, NoneIsNoRow
  <2>8. Shape'
    BY <1>s, <2>1, <2>2, <2>4, <2>5 DEF Shape, PC
  <2>9. OnlyMoves(r)
    BY <1>s, <2>1, <2>2, <2>7 DEF OnlyMoves, Shape
  <2>10. pc'[r] = l /\ obj'[r] = mine /\ rows'[id[r]] = new
    BY <1>s, <2>1, <2>2 DEF Shape
  <2>11. Holding(r)'
    BY <2>1, <2>2, <2>4, <2>5, <2>7, <2>10 DEF Holding
  <2> QED BY <2>6, <2>8, <2>9, <2>11, OthersHold DEF TableInv
<1> QED BY <1>u, <1>1, <1>2, <1>3, <1>4, <1>5, <1>6, <1>7, <1>8, <1>9 DEF Next, Step

\* The table invariant holds throughout.
THEOREM TableInvariant == Spec => []TableInv
<1>1. Init => TableInv
  BY DEF Init, TableInv, Shape, Holding, Busy, PC
<1> QED BY <1>1, TableStep, PTL DEF Spec

\* No interleaving of creates, updates and upserts leaves two rows with one
\* slug, e-mail address or phone number: where the look-up before the write
\* is overtaken, the unique index decides.
THEOREM KeysStayUnique == Spec => []KeysUnique
<1>1. TableInv => KeysUnique
  BY DEF TableInv
<1> QED BY <1>1, TableInvariant, PTL

-----------------------------------------------------------------------------
(* The audit trail.                                                        *)

\* The author of an entry has committed its change and is done.
TrailInv ==
  /\ \A e \in audit : e.by \in wrote /\ e.id = id[e.by] /\ pc[e.by] = "ok"
  /\ \A e, f \in audit : e.by = f.by => e = f

\* Every step keeps TrailInv: entries come from requests in "audit", which
\* have committed, and a request that is done moves no more.
LEMMA TrailStep == TableInv /\ TrailInv /\ [Next]_vars => TrailInv'
<1> SUFFICES ASSUME TableInv, TrailInv, [Next]_vars PROVE TrailInv'
  OBVIOUS
<1>s. Shape /\ \A r \in Req : Holding(r)
  BY DEF TableInv
<1>u. CASE UNCHANGED vars
  BY <1>u DEF vars, TrailInv
<1>q. ASSUME NEW r \in Req, audit' = audit, pc[r] # "ok", wrote \subseteq wrote',
             \A s \in Req \ {r} : pc'[s] = pc[s] /\ id'[s] = id[s]
      PROVE  TrailInv'
  <2>1. \A e \in audit : e.by \in Req \ {r}
    BY <1>q, <1>s DEF TrailInv, Shape
  <2> QED BY <1>q, <2>1 DEF TrailInv
<1>1. ASSUME NEW r \in Req, NEW o \in Ops, NEW i \in Id, NEW b \in Body, Receive(r, o, i, b)
      PROVE  TrailInv'
  <2>1. /\ audit' = audit /\ pc[r] = "idle" /\ wrote' = wrote
        /\ \A s \in Req \ {r} : pc'[s] = pc[s] /\ id'[s] = id[s]
    BY <1>1, <1>s DEF Receive, Goto, Shape
  <2> QED BY <1>q, <2>1
<1>2. ASSUME NEW r \in Req, WriteAuditLog(r) PROVE TrailInv'
  <2> DEFINE entry == [by |-> r, id |-> id[r], before |-> before[r], after |-> obj[r]]
  <2>1. /\ pc[r] = "audit" /\ audit' = audit \union {entry} /\ id' = id /\ wrote' = wrote
        /\ pc' = [pc EXCEPT ![r] = "ok"]
    BY <1>2 DEF WriteAuditLog, Goto
  <2>2. r \in wrote
    BY <1>s, <2>1 DEF Holding
  <2>3. entry.by = r /\ entry.id = id[r]
    OBVIOUS
  <2> HIDE DEF entry
  <2>4. \A e \in audit : e.by \in Req \ {r}
    BY <1>s, <2>1 DEF TrailInv, Shape
  <2>5. pc'[r] = "ok" /\ \A s \in Req \ {r} : pc'[s] = pc[s]
    BY <1>s, <2>1 DEF Shape
  <2>6. \A e \in audit' : e.by \in wrote' /\ e.id = id'[e.by] /\ pc'[e.by] = "ok"
    BY <2>1, <2>2, <2>3, <2>4, <2>5 DEF TrailInv
  <2>7. \A e, f \in audit' : e.by = f.by => e = f
    BY <2>1, <2>3, <2>4 DEF TrailInv
  <2> QED BY <2>6, <2>7 DEF TrailInv
<1>3. ASSUME NEW r \in Req, Step(r), ~WriteAuditLog(r) PROVE TrailInv'
  <2>1. audit' = audit /\ pc[r] # "ok" /\ wrote \subseteq wrote'
    BY <1>3 DEF Step, RejectBody, NotFound, Load, CheckKey, FindNone, TenantMissing,
                FindForCreate, FindForUpsert, Insert, InsertConflicts, Update,
                UpdateConflicts, Refresh, AuditLogFails, Fails, Answer
  <2>2. \A s \in Req \ {r} : pc'[s] = pc[s]
    BY <1>3, <1>s DEF Step, Shape, Goto, RejectBody, NotFound, Load, CheckKey, FindNone,
                TenantMissing, FindForCreate, FindForUpsert, Insert, InsertConflicts, Update,
                UpdateConflicts, Refresh, AuditLogFails, Fails
  <2>3. \A s \in Req \ {r} : id'[s] = id[s]
    BY <1>3, <1>s DEF Step, Shape, RejectBody, NotFound, Load, CheckKey, FindNone,
                TenantMissing, FindForCreate, FindForUpsert, Insert, InsertConflicts, Update,
                UpdateConflicts, Refresh, AuditLogFails, Fails
  <2> QED BY <1>q, <2>1, <2>2, <2>3
<1> QED BY <1>u, <1>1, <1>2, <1>3 DEF Next

\* _write_audit_log: the trail holds only changes that were committed, by the
\* request it names and to the row it names, once per request, whatever
\* fails, stops or interleaves.
THEOREM TrailIsTrue == Spec => []AuditedWasCommitted
<1>1. Init => TrailInv
  BY DEF Init, TrailInv
<1>2. TrailInv => AuditedWasCommitted
  BY DEF TrailInv, AuditedWasCommitted
<1> QED BY <1>1, <1>2, TrailStep, TableInvariant, PTL DEF Spec

-----------------------------------------------------------------------------
(* Types of the whole module.                                              *)

LEMMA RestTyped ==
  TableInv /\ TypeOK /\ [Next]_vars =>
    (table \in Table /\ audit \subseteq AuditRow /\ before \in [Req -> Row \union {None}])'
<1> SUFFICES ASSUME TableInv, TypeOK, [Next]_vars
             PROVE  table' \in Table /\ audit' \subseteq AuditRow
                    /\ before' \in [Req -> Row \union {None}]
  OBVIOUS
<1>u. CASE UNCHANGED vars
  BY <1>u DEF vars, TypeOK
<1>1. ASSUME NEW r \in Req, NEW o \in Ops, NEW i \in Id, NEW b \in Body, Receive(r, o, i, b)
      PROVE  table' = table /\ audit' = audit /\ before' = before
  BY <1>1 DEF Receive
<1>2. ASSUME NEW r \in Req, Step(r), ~Load(r), ~WriteAuditLog(r)
      PROVE  table' = table /\ audit' = audit /\ before' = before
  BY <1>2 DEF Step, input, RejectBody, NotFound, CheckKey, FindNone, TenantMissing, FindForCreate,
              FindForUpsert, Insert, InsertConflicts, Update, UpdateConflicts, Refresh,
              AuditLogFails, Fails
<1>3. ASSUME NEW r \in Req, Load(r)
      PROVE  table' = table /\ audit' = audit /\ before' \in [Req -> Row \union {None}]
  <2>1. id[r] \in Id
    BY <1>3 DEF Load, TableInv, Holding
  <2> QED BY <1>3, <2>1 DEF Load, input, TypeOK
<1>4. ASSUME NEW r \in Req, WriteAuditLog(r)
      PROVE  table' = table /\ audit' \subseteq AuditRow /\ before' = before
  <2>1. id[r] \in Id /\ obj[r] \in Row /\ before[r] \in Row \union {None}
    BY <1>4 DEF WriteAuditLog, TableInv, Holding, TypeOK
  <2>2. [by |-> r, id |-> id[r], before |-> before[r], after |-> obj[r]] \in AuditRow
    BY <2>1 DEF AuditRow
  <2> QED BY <1>4, <2>2 DEF WriteAuditLog, input, TypeOK
<1> QED BY <1>u, <1>1, <1>2, <1>3, <1>4 DEF Next, TypeOK

\* The tables, the trail and what every request holds keep their types: no
\* request works on a row it has not found, and none logs a missing one.
THEOREM RecordsTyped == Spec => []TypeOK
<1>1. Init => TypeOK
  BY DEF Init, TypeOK, PC
<1>2. TableInv' /\ (table \in Table /\ audit \subseteq AuditRow
                    /\ before \in [Req -> Row \union {None}])' => TypeOK'
  BY DEF TableInv, Shape, TypeOK
<1>3. TableInv /\ TypeOK /\ [Next]_vars => TypeOK'
  BY <1>2, TableStep, RestTyped
<1> QED BY <1>1, <1>3, TableInvariant, PTL DEF Spec

-----------------------------------------------------------------------------
(* Updates that overlap.                                                   *)

\* A request commits once: before its commit it has written nothing.
WritesOnce ==
  \A r \in Req : pc[r] \in {"idle", "load", "check", "insert", "commit"} => r \notin wrote

LEMMA OnceStep == TableInv /\ WritesOnce /\ [Next]_vars => WritesOnce'
<1> SUFFICES ASSUME TableInv, WritesOnce, [Next]_vars PROVE WritesOnce'
  OBVIOUS
<1>s. Shape
  BY DEF TableInv
<1>u. CASE UNCHANGED vars
  BY <1>u DEF vars, WritesOnce
<1>1. ASSUME NEW r \in Req, NEW o \in Ops, NEW i \in Id, NEW b \in Body, Receive(r, o, i, b)
      PROVE  WritesOnce'
  BY <1>1, <1>s DEF Receive, Goto, Shape, WritesOnce
<1>2. ASSUME NEW r \in Req, Insert(r) \/ Update(r) PROVE WritesOnce'
  BY <1>2, <1>s DEF Insert, Update, Goto, Shape, WritesOnce
<1>3. ASSUME NEW r \in Req, Step(r), ~Insert(r), ~Update(r) PROVE WritesOnce'
  <2>1. wrote' = wrote
    BY <1>3 DEF Step, RejectBody, NotFound, Load, CheckKey, FindNone, TenantMissing,
                FindForCreate, FindForUpsert, InsertConflicts, UpdateConflicts, Refresh,
                WriteAuditLog, AuditLogFails, Fails
  <2>2. \E l : /\ pc' = [pc EXCEPT ![r] = l]
               /\ pc[r] \in {"idle", "load", "check", "insert", "commit"}
                  \/ l \in Answer \union {"audit"}
    BY <1>3 DEF Step, RejectBody, NotFound, Load, CheckKey, FindNone, TenantMissing, Goto,
                FindForCreate, FindForUpsert, InsertConflicts, UpdateConflicts, Refresh,
                WriteAuditLog, AuditLogFails, Fails, Answer
  <2> QED BY <1>s, <2>1, <2>2 DEF Shape, WritesOnce, Answer
<1> QED BY <1>u, <1>1, <1>2, <1>3 DEF Next

\* A column that changes gets the value the request asked for.
LEMMA ColumnTouched ==
  ASSUME NEW asked, NEW loaded, NEW stored, Column(asked, loaded, stored) # stored
  PROVE  Column(asked, loaded, stored) = asked
BY DEF Column

LEMMA UpdateTouches ==
  ASSUME TableInv, NEW r \in Req, Update(r), NEW i \in Id, NEW f \in Touched(i)
  PROVE  id[r] = i /\ body[r][f] = rows'[i][f]
<1> DEFINE row == rows[id[r]]
           new == Written(row, body[r], obj[r])
<1>1. /\ id[r] \in Id /\ rows' = [rows EXCEPT ![id[r]] = new] /\ rows \in [Id -> Row \union {None}]
  BY DEF Update, TableInv, Holding, Shape
<1>2. rows[i] # None /\ rows'[i][f] # rows[i][f] /\ f \in {"key", "kind", "status"}
  BY DEF Touched
<1>3. id[r] = i /\ rows'[i] = new
  BY <1>1, <1>2
<1>4. new[f] # row[f]
  BY <1>2, <1>3
<1>5. CASE f = "key"
  <2>1. new.key = Column(body[r].key, obj[r].key, row.key)
    BY DEF Written
  <2> QED BY <1>3, <1>4, <1>5, <2>1, ColumnTouched
<1>6. CASE f = "kind"
  <2>1. new.kind = Column(body[r].kind, obj[r].kind, row.kind)
    BY DEF Written
  <2> QED BY <1>3, <1>4, <1>6, <2>1, ColumnTouched
<1>7. CASE f = "status"
  <2>1. new.status = Column(body[r].status, obj[r].status, row.status)
    BY DEF Written
  <2> QED BY <1>3, <1>4, <1>7, <2>1, ColumnTouched
<1> QED BY <1>2, <1>5, <1>6, <1>7

\* SQLAlchemy's flush: an update that was loaded before another request's
\* commit changes only the fields it was asked to change, to the values it was
\* asked for, and each request changes a row at most once.
THEOREM NothingClobbered == Spec => NoFieldClobbered
<1> DEFINE Own == \A i \in Id : \A f \in Touched(i) :
             \E r \in Req : id[r] = i /\ r \in wrote' \ wrote /\ body[r][f] = rows'[i][f]
<1>1. Init => WritesOnce
  BY DEF Init, WritesOnce
<1>2. TableInv /\ WritesOnce /\ [Next]_vars => [Own]_vars
  <2> SUFFICES ASSUME TableInv, WritesOnce, Next PROVE Own
    OBVIOUS
  <2>1. ASSUME rows' = rows PROVE Own
    BY <2>1 DEF Touched
  <2>2. ASSUME NEW r \in Req, Update(r) PROVE Own
    <3>1. r \in wrote' \ wrote
      BY <2>2 DEF Update, WritesOnce
    <3> QED BY <2>2, <3>1, UpdateTouches
  <2>3. ASSUME NEW r \in Req, Insert(r) PROVE Own
    <3>1. PICK i \in Id : rows[i] = None /\ rows' = [rows EXCEPT ![i] = New(body[r])]
      BY <2>3 DEF Insert
    <3>2. \A j \in Id : rows[j] # None => rows'[j] = rows[j]
      BY <3>1 DEF TableInv, Shape
    <3> QED BY <3>2 DEF Touched
  <2>4. ASSUME NEW r \in Req, Step(r), ~Insert(r), ~Update(r) PROVE rows' = rows
    BY <2>4 DEF Step, RejectBody, NotFound, Load, CheckKey, FindNone, TenantMissing,
                FindForCreate, FindForUpsert, InsertConflicts, UpdateConflicts, Refresh,
                WriteAuditLog, AuditLogFails, Fails
  <2>5. ASSUME NEW r \in Req, NEW o \in Ops, NEW i \in Id, NEW b \in Body, Receive(r, o, i, b)
        PROVE  rows' = rows
    BY <2>5 DEF Receive
  <2> QED BY <2>1, <2>2, <2>3, <2>4, <2>5 DEF Next
<1> HIDE DEF Own
<1>3. Spec => [][Own]_vars
  BY <1>1, <1>2, OnceStep, TableInvariant, PTL DEF Spec
<1> QED BY <1>3 DEF Own, NoFieldClobbered

=============================================================================
