-------------------------- MODULE VoiceCallsProofs --------------------------
(***************************************************************************)
(* Proofs about VoiceCalls: the call counter is exact, the drain loop has  *)
(* nothing to wait for, and with a working Redis a session never comes     *)
(* back after its connection is over.                                      *)
(***************************************************************************)
EXTENDS VoiceCalls, FiniteSetTheorems, TLAPS

-----------------------------------------------------------------------------
(* The counter and the drain.                                              *)

Counting == TypeOK /\ ActiveIsCounted /\ DrainNeverWaits

\* How a step that moves one connection changes the live set.
LEMMA LiveFinite == IsFiniteSet(LiveConns)
  BY FiniteConns, FS_Subset DEF LiveConns

LEMMA MoveEffect ==
  ASSUME TypeOK, NEW c \in Conn, NEW s \in ConnState, Move(c, s)
  PROVE  /\ conn' \in [Conn -> ConnState]
         /\ \A d \in Conn : conn'[d] = IF d = c THEN s ELSE conn[d]
         /\ s \in Live => LiveConns' = LiveConns \union {c}
         /\ s \notin Live => LiveConns' = LiveConns \ {c}
  BY DEF TypeOK, Move, LiveConns

LEMMA MoveCount ==
  ASSUME TypeOK, ActiveIsCounted, NEW c \in Conn, NEW s \in ConnState, Move(c, s),
         active' = active + (IF s \in Live THEN 1 ELSE 0)
                          - (IF conn[c] \in Live THEN 1 ELSE 0)
  PROVE  ActiveIsCounted' /\ active' \in Int
<1>1. active = Cardinality(LiveConns) /\ active \in Int /\ Cardinality(LiveConns) \in Nat
  BY LiveFinite, FS_CardinalityType DEF ActiveIsCounted, TypeOK
<1>2. c \in LiveConns <=> conn[c] \in Live
  BY DEF LiveConns
<1>3. CASE s \in Live
  <2>1. Cardinality(LiveConns') = IF conn[c] \in Live THEN Cardinality(LiveConns)
                                  ELSE Cardinality(LiveConns) + 1
    BY <1>2, <1>3, LiveFinite, MoveEffect, FS_AddElement
  <2> QED BY <1>1, <1>3, <2>1 DEF ActiveIsCounted
<1>4. CASE s \notin Live
  <2>1. Cardinality(LiveConns') = IF conn[c] \in Live THEN Cardinality(LiveConns) - 1
                                  ELSE Cardinality(LiveConns)
    BY <1>2, <1>4, LiveFinite, MoveEffect, FS_RemoveElement
  <2> QED BY <1>1, <1>4, <2>1 DEF ActiveIsCounted
<1> QED BY <1>3, <1>4

\* Store and Remove keep the sessions in their type.
LEMMA SessionTypes ==
  ASSUME TypeOK, NEW k \in CallId, Store(k) \/ Remove(k)
  PROVE  mem' \subseteq CallId /\ redis' \subseteq CallId
  BY DEF TypeOK, Store, Remove

\* A connection past the checks names a call.
CallNamed ==
  \A c \in Conn : conn[c] \in Live \union {"accepting"} => ccall[c] \in CallId

LEMMA ConnCounting ==
  ASSUME Counting, CallNamed, NEW c \in Conn, ConnStep(c)
  PROVE  Counting' /\ CallNamed'
<1> USE DEF Counting
<1>0. TypeOK /\ ActiveIsCounted /\ active \in Int
  BY DEF TypeOK
<1>1. ASSUME NEW k \in CallId, Connect(c, k) \/ Refuse(c, k)  PROVE Counting' /\ CallNamed'
  <2>1. PICK s \in {"accepting", "refused"} : Move(c, s) /\ conn[c] = "idle"
    BY <1>1 DEF Connect, Refuse
  <2>2. active' = active /\ UNCHANGED <<opened, lifeVars>> /\ ccall' = [ccall EXCEPT ![c] = k]
    BY <1>1 DEF Connect, Refuse, sessionVars
  <2>3. ActiveIsCounted' /\ active' \in Int
    <3>1. s \in ConnState /\ s \notin Live /\ conn[c] \notin Live
      BY <2>1 DEF ConnState, Live
    <3>2. active' = active + (IF s \in Live THEN 1 ELSE 0) - (IF conn[c] \in Live THEN 1 ELSE 0)
      BY <1>0, <2>2, <3>1
    <3> QED BY <1>0, <2>1, <3>1, <3>2, MoveCount
  <2>4. mem' \subseteq CallId /\ redis' \subseteq CallId
    BY <1>0, <1>1, SessionTypes DEF TypeOK, Connect, Refuse, sessionVars
  <2> QED BY <1>0, <2>1, <2>2, <2>3, <2>4, MoveEffect
          DEF TypeOK, DrainNeverWaits, IsDraining, CallNamed, ConnState, Live, lifeVars
<1>2. ASSUME NEW s \in ConnState, Move(c, s), s # "accepting", Up,
             conn[c] \in Live \union {"accepting"},
             active' = active + (IF s \in Live THEN 1 ELSE 0)
                              - (IF conn[c] \in Live THEN 1 ELSE 0),
             mem' \subseteq CallId, redis' \subseteq CallId,
             UNCHANGED <<opened, ccall, phase, waited>>
      PROVE  Counting' /\ CallNamed'
  <2>1. ActiveIsCounted' /\ active' \in Int
    BY <1>0, <1>2, MoveCount
  <2> QED BY <1>0, <1>2, <2>1, MoveEffect DEF TypeOK, DrainNeverWaits, IsDraining, Up, CallNamed
<1>3. CASE Accept(c)
  <2>1. "handshake" \in ConnState /\ "handshake" \in Live /\ "accepting" \notin Live
    BY DEF ConnState, Live
  <2> QED BY <1>0, <1>2, <1>3, <2>1 DEF Accept, TypeOK, sessionVars, lifeVars
<1>4. CASE AcceptFails(c)
  <2>1. "broken" \in ConnState /\ "broken" \notin Live /\ "accepting" \notin Live
    BY DEF ConnState, Live
  <2> QED BY <1>0, <1>2, <1>4, <2>1 DEF AcceptFails, TypeOK, sessionVars, lifeVars
<1>5. CASE HandshakeRead(c)
  <2>1. "talking" \in ConnState /\ "talking" \in Live /\ "handshake" \in Live
    BY DEF ConnState, Live
  <2> QED BY <1>0, <1>2, <1>5, <2>1 DEF HandshakeRead, TypeOK, sessionVars, lifeVars
<1>6. CASE HandshakeMissing(c)
  <2>1. "left" \in ConnState /\ "left" \notin Live /\ "handshake" \in Live
    BY DEF ConnState, Live
  <2>2. ccall[c] \in CallId
    BY <1>6, <2>1 DEF HandshakeMissing, CallNamed
  <2> QED BY <1>0, <1>2, <1>6, <2>1, <2>2, SessionTypes DEF HandshakeMissing, lifeVars
<1>7. CASE SetupRaises(c)
  <2>1. "broken" \in ConnState /\ "broken" \notin Live /\ "handshake" \in Live
    BY DEF ConnState, Live
  <2> QED BY <1>0, <1>2, <1>7, <2>1 DEF SetupRaises, TypeOK, sessionVars, lifeVars
<1>8. CASE AddTurn(c)
  <2>1. ccall[c] \in CallId
    BY <1>8 DEF AddTurn, CallNamed, Live
  <2> QED BY <1>0, <1>8, <2>1, SessionTypes
          DEF AddTurn, connVars, lifeVars, TypeOK, ActiveIsCounted, LiveConns,
              DrainNeverWaits, IsDraining, CallNamed
<1>9. CASE HangUp(c)
  <2>1. "cleaning" \in ConnState /\ "cleaning" \in Live /\ "talking" \in Live
    BY DEF ConnState, Live
  <2>2. ccall[c] \in CallId
    BY <1>9, <2>1 DEF HangUp, CallNamed
  <2> QED BY <1>0, <1>2, <1>9, <2>1, <2>2, SessionTypes DEF HangUp, lifeVars
<1>10. CASE Leave(c)
  <2>1. "left" \in ConnState /\ "left" \notin Live /\ "cleaning" \in Live
    BY DEF ConnState, Live
  <2> QED BY <1>0, <1>2, <1>10, <2>1 DEF Leave, TypeOK, sessionVars, lifeVars
<1> QED BY <1>1, <1>3, <1>4, <1>5, <1>6, <1>7, <1>8, <1>9, <1>10 DEF ConnStep

LEMMA OtherCounting ==
  ASSUME Counting, CallNamed,
         \/ \E k \in CallId : CallbackCreates(k) \/ CallbackEnds(k) \/ RedisExpires(k)
         \/ Sigterm \/ UNCHANGED vars
  PROVE  Counting' /\ CallNamed'
<1> USE DEF Counting
<1>1. ASSUME NEW k \in CallId, CallbackCreates(k) \/ CallbackEnds(k) \/ RedisExpires(k)
      PROVE  Counting' /\ CallNamed'
  <2>1. mem' \subseteq CallId /\ redis' \subseteq CallId /\ opened' \subseteq CallId
    BY <1>1, SessionTypes DEF CallbackCreates, CallbackEnds, RedisExpires, TypeOK
  <2>2. UNCHANGED <<connVars, active, lifeVars>>
    BY <1>1 DEF CallbackCreates, CallbackEnds, RedisExpires
  <2> QED BY <2>1, <2>2 DEF connVars, lifeVars, TypeOK, ActiveIsCounted, LiveConns,
                            DrainNeverWaits, IsDraining, CallNamed
<1>2. CASE Sigterm
  BY <1>2 DEF Sigterm, sessionVars, connVars, TypeOK, ActiveIsCounted, LiveConns,
              DrainNeverWaits, IsDraining, CallNamed
<1>3. CASE UNCHANGED vars
  BY <1>3 DEF vars, TypeOK, ActiveIsCounted, LiveConns, DrainNeverWaits, IsDraining, CallNamed
<1> QED BY <1>1, <1>2, <1>3

\* No connection is left when _lifespan resumes, so the exact counter is zero
\* and the loop is left at its first test.
LEMMA DrainCounting ==
  ASSUME Counting, CallNamed, LifespanShutdown \/ Drain
  PROVE  Counting' /\ CallNamed'
<1> USE DEF Counting
<1>1. CASE LifespanShutdown
  <2>1. LiveConns = {}
    BY <1>1 DEF LifespanShutdown, LiveConns
  <2>2. active = 0
    BY <2>1, FS_EmptySet DEF ActiveIsCounted
  <2> QED BY <1>1, <2>2 DEF LifespanShutdown, sessionVars, connVars, TypeOK, ActiveIsCounted,
                            LiveConns, DrainNeverWaits, IsDraining, CallNamed
<1>2. CASE Drain
  <2>1. active = 0
    BY <1>2 DEF Drain, DrainNeverWaits, IsDraining
  <2>2. phase' = "stopped" /\ mem' = {} /\ UNCHANGED <<waited, redis, opened, conn, ccall, active>>
    BY <1>2, <2>1 DEF Drain, connVars
  <2> QED BY <2>1, <2>2 DEF TypeOK, ActiveIsCounted, LiveConns, DrainNeverWaits, CallNamed
<1> QED BY <1>1, <1>2

\* Types, the exact counter and the drain that finds it zero, together inductive.
THEOREM CountingInvariant == Spec => [](Counting /\ CallNamed)
<1>1. Init => Counting /\ CallNamed
  <2> SUFFICES ASSUME Init PROVE Counting /\ CallNamed
    OBVIOUS
  <2>1. LiveConns = {}
    BY DEF Init, LiveConns, Live
  <2>2. ActiveIsCounted
    BY <2>1, FS_EmptySet DEF Init, ActiveIsCounted
  <2> QED BY <2>2, PollsNatural
          DEF Init, Counting, TypeOK, ConnState, DrainNeverWaits, IsDraining, CallNamed, Live
<1>2. Counting /\ CallNamed /\ [Next]_vars => (Counting /\ CallNamed)'
  BY ConnCounting, OtherCounting, DrainCounting DEF Next
<1> QED BY <1>1, <1>2, PTL DEF Spec

\* Every step of a connection, of the callback and of the drain keeps the types,
\* the polls of the drain within their limit included.
THEOREM VoiceCallsTyped == Spec => []TypeOK
<1>1. Counting /\ CallNamed => TypeOK
  BY DEF Counting
<1> QED BY <1>1, CountingInvariant, PTL

\* The counter the drain loop polls equals the number of calls in progress:
\* on_call_started and on_call_ended are paired on every path.
THEOREM CounterIsExact == Spec => []ActiveIsCounted
<1>1. Counting /\ CallNamed => ActiveIsCounted
  BY DEF Counting
<1> QED BY <1>1, CountingInvariant, PTL

\* Whatever calls were in progress at SIGTERM, the drain loop finds the counter
\* at zero and never sleeps.
THEOREM DrainHasNothingToDo == Spec => []DrainNeverWaits
<1>1. Counting /\ CallNamed => DrainNeverWaits
  BY DEF Counting
<1> QED BY <1>1, CountingInvariant, PTL

-----------------------------------------------------------------------------
(* Sessions, when Redis works and unresolved calls are refused.            *)

\* Every session and every accepted connection goes back to the callback.
FromCallback ==
  /\ mem \union redis \subseteq opened
  /\ \A c \in Conn : conn[c] \in Live \union {"accepting", "left"} => ccall[c] \in opened

Gone == FromCallback /\ HungUpMeansGone

LEMMA ReliableSessions ==
  ASSUME RedisFails = FALSE, NEW k
  PROVE  /\ Store(k) => mem' = mem \union {k} /\ redis' = redis \union {k}
         /\ Remove(k) => mem' = mem \ {k} /\ redis' = redis \ {k}
  BY DEF Store, Remove, RedisOk

LEMMA ConnGone ==
  ASSUME AllowUnresolved = FALSE, RedisFails = FALSE,
         TypeOK, Gone, NEW c \in Conn, ConnStep(c)
  PROVE  Gone'
<1> USE DEF Gone, FromCallback, HungUpMeansGone, Live
<1>1. ASSUME NEW k \in CallId, Connect(c, k) PROVE Gone'
  <2>1. k \in mem \union redis /\ mem' = mem \union {k} /\ redis' = redis
    BY <1>1 DEF Connect, Found
  <2>2. /\ opened' = opened
        /\ conn' = [conn EXCEPT ![c] = "accepting"] /\ ccall' = [ccall EXCEPT ![c] = k]
    BY <1>1 DEF Connect, Move
  <2> QED BY <2>1, <2>2 DEF TypeOK
<1>2. ASSUME NEW k \in CallId, Refuse(c, k) PROVE Gone'
  BY <1>2 DEF Refuse, Move, sessionVars, TypeOK
<1>3. CASE Accept(c) \/ AcceptFails(c) \/ HandshakeRead(c) \/ SetupRaises(c) \/ Leave(c)
  <2>1. UNCHANGED <<mem, redis, opened, ccall>>
    BY <1>3 DEF Accept, AcceptFails, HandshakeRead, SetupRaises, Leave, sessionVars
  <2>2. PICK s \in {"handshake", "broken", "talking", "left"} :
          /\ conn' = [conn EXCEPT ![c] = s]
          /\ conn[c] \in Live \union {"accepting"}
          /\ s = "left" => conn[c] = "cleaning"
    BY <1>3 DEF Accept, AcceptFails, HandshakeRead, SetupRaises, Leave, Move
  <2> QED BY <2>1, <2>2 DEF TypeOK
<1>4. CASE HandshakeMissing(c) \/ HangUp(c)
  <2>1. PICK k : k = ccall[c]
    OBVIOUS
  <2>2. mem' = mem \ {k} /\ redis' = redis \ {k} /\ UNCHANGED <<opened, ccall>>
    BY <1>4, <2>1, ReliableSessions DEF HandshakeMissing, HangUp
  <2>3. PICK s \in {"left", "cleaning"} :
          conn' = [conn EXCEPT ![c] = s] /\ conn[c] \in Live
    BY <1>4 DEF HandshakeMissing, HangUp, Move
  <2> QED BY <2>1, <2>2, <2>3 DEF TypeOK
<1>5. CASE AddTurn(c)
  <2>1. PICK k : k = ccall[c]
    OBVIOUS
  <2>2. k \in mem \union redis /\ mem' = mem \union {k} /\ redis' = redis \union {k}
    BY <1>5, <2>1, ReliableSessions DEF AddTurn, Found
  <2>3. UNCHANGED <<opened, conn, ccall>>
    BY <1>5 DEF AddTurn, connVars
  <2> QED BY <2>2, <2>3
<1> QED BY <1>1, <1>2, <1>3, <1>4, <1>5 DEF ConnStep

LEMMA OtherGone ==
  ASSUME RedisFails = FALSE, TypeOK, Gone,
         \/ \E k \in CallId : CallbackCreates(k) \/ CallbackEnds(k) \/ RedisExpires(k)
         \/ Sigterm \/ LifespanShutdown \/ Drain \/ UNCHANGED vars
  PROVE  Gone'
<1> USE DEF Gone, FromCallback, HungUpMeansGone, Live
<1>1. ASSUME NEW k \in CallId, CallbackCreates(k) PROVE Gone'
  <2>1. /\ k \notin opened /\ opened' = opened \union {k}
        /\ mem' = mem \union {k} /\ redis' = redis \union {k}
    BY <1>1, ReliableSessions DEF CallbackCreates
  <2>2. UNCHANGED <<conn, ccall>>
    BY <1>1 DEF CallbackCreates, connVars
  <2> QED BY <2>1, <2>2
<1>2. ASSUME NEW k \in CallId, CallbackEnds(k) \/ RedisExpires(k) PROVE Gone'
  <2>1. mem' \subseteq mem /\ redis' \subseteq redis /\ UNCHANGED <<opened, conn, ccall>>
    BY <1>2, ReliableSessions DEF CallbackEnds, RedisExpires, connVars
  <2> QED BY <2>1
<1>3. CASE Sigterm \/ LifespanShutdown \/ Drain \/ UNCHANGED vars
  <2>1. mem' \subseteq mem /\ UNCHANGED <<redis, opened, conn, ccall>>
    BY <1>3 DEF Sigterm, LifespanShutdown, Drain, vars, sessionVars, connVars
  <2> QED BY <2>1
<1> QED BY <1>1, <1>2, <1>3

\* With a working Redis and without the development escape hatch, the session
\* of a call whose connection is over never comes back, whatever callbacks,
\* reconnects and late turns follow.
THEOREM SessionsStayGone ==
  ASSUME AllowUnresolved = FALSE, RedisFails = FALSE
  PROVE  Spec => []HungUpMeansGone
<1>1. Init => Gone
  BY DEF Init, Gone, FromCallback, HungUpMeansGone, Live
<1>2. TypeOK /\ Gone /\ [Next]_vars => Gone'
  BY ConnGone, OtherGone DEF Next
<1>3. Counting /\ CallNamed => TypeOK
  BY DEF Counting
<1>4. Gone => HungUpMeansGone
  BY DEF Gone
<1> QED BY <1>1, <1>2, <1>3, <1>4, CountingInvariant, PTL DEF Spec

=============================================================================
