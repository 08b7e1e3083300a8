----------------------------- MODULE VoiceCalls -----------------------------
(***************************************************************************)
(* The audio side of the voice gateway: the WebSocket endpoint             *)
(* (services/voice-gateway/voice_pipeline.py), the sessions it shares with *)
(* the Exotel callback and the shutdown with its drain loop                *)
(* (services/voice-gateway/src/main.py).                                   *)
(*                                                                         *)
(* Everything runs on one event loop, so what happens between two awaits   *)
(* is one step: the drain flag is read when a connection arrives, the call *)
(* is counted only after accept() has been awaited, and the count drops    *)
(* after transport.cleanup() has been awaited.                             *)
(*                                                                         *)
(* The server is uvicorn 0.30.6 (requirements.txt).  On SIGTERM it stops   *)
(* listening, closes every WebSocket and waits, without a limit, until all *)
(* its connections and tasks are over; only then does it resume _lifespan  *)
(* after the yield.                                                        *)
(***************************************************************************)
EXTENDS Integers, FiniteSets

CONSTANTS
  CallId,           \* call ids the clients connect with
  Conn,             \* WebSocket connections over the life of the process
  DrainPolls,       \* _DRAIN_TIMEOUT_SECONDS / _DRAIN_POLL_INTERVAL_SECONDS
  AllowUnresolved,  \* EXOTEL_DEV_ROUTING
  RedisFails,       \* whether a Redis command may fail
  NoCall

ASSUME FiniteConns == IsFiniteSet(Conn)
ASSUME PollsNatural == DrainPolls \in Nat
ASSUME FlagsBoolean == AllowUnresolved \in BOOLEAN /\ RedisFails \in BOOLEAN
ASSUME NoCallFresh == NoCall \notin CallId

VARIABLES
  mem, redis,  \* sessions in the process and in Redis
  opened,      \* calls whose session the callback has created
  conn,        \* where each connection is in voice_websocket / _run_call
  ccall,       \* the call_id in its path
  active,      \* _active_calls
  phase,       \* of the server and of _lifespan
  waited       \* polls of the drain loop so far

sessionVars == <<mem, redis, opened>>
connVars == <<conn, ccall>>
lifeVars == <<phase, waited>>
vars == <<mem, redis, opened, conn, ccall, active, phase, waited>>

-----------------------------------------------------------------------------
\* Connections between on_call_started and on_call_ended.
Live == {"handshake", "talking", "cleaning"}
ConnState == Live \union {"idle", "accepting", "refused", "left", "broken"}

TypeOK ==
  /\ mem \subseteq CallId /\ redis \subseteq CallId /\ opened \subseteq CallId
  /\ conn \in [Conn -> ConnState]
  /\ ccall \in [Conn -> CallId \union {NoCall}]
  /\ active \in Int
  /\ phase \in {"serving", "closing", "draining", "stopped"}
  /\ waited \in 0 .. DrainPolls

Init ==
  /\ mem = {} /\ redis = {} /\ opened = {}
  /\ conn = [c \in Conn |-> "idle"]
  /\ ccall = [c \in Conn |-> NoCall]
  /\ active = 0
  /\ phase = "serving" /\ waited = 0

\* uvicorn takes new connections, and runs the ones it has.
Listening == phase = "serving"
Up == phase \in {"serving", "closing"}

\* _draining, set when _lifespan resumes.
IsDraining == phase \in {"draining", "stopped"}

Move(c, s) == conn' = [conn EXCEPT ![c] = s]

-----------------------------------------------------------------------------
(* _GatewaySessionManager.                                                 *)

\* A Redis command takes effect, or fails and the error is swallowed.
RedisOk == {TRUE} \union IF RedisFails THEN {FALSE} ELSE {}

\* What get() may answer; what it finds in Redis it keeps in memory.
Found(k) == k \in mem \union redis
Missed(k) == k \notin mem /\ (k \notin redis \/ FALSE \in RedisOk)

Store(k) ==
  /\ mem' = mem \union {k}
  /\ \E ok \in RedisOk : redis' = IF ok THEN redis \union {k} ELSE redis

\* get, end and remove: nothing when get misses.
Remove(k) ==
  /\ mem' = mem \ {k}
  /\ \E ok \in RedisOk : redis' = IF ok THEN redis \ {k} ELSE redis

\* The Exotel callback opens and closes the session of a call.
CallbackCreates(k) ==
  /\ Up /\ k \notin opened
  /\ opened' = opened \union {k}
  /\ Store(k)
  /\ UNCHANGED <<connVars, active, lifeVars>>

CallbackEnds(k) ==
  /\ Up /\ k \in opened
  /\ Remove(k)
  /\ UNCHANGED <<opened, connVars, active, lifeVars>>

\* The key's 3600 s have passed.
RedisExpires(k) ==
  /\ k \in redis
  /\ redis' = redis \ {k}
  /\ UNCHANGED <<mem, opened, connVars, active, lifeVars>>

-----------------------------------------------------------------------------
(* voice_websocket.                                                        *)

\* The flag never refuses a connection: while the server listens it is not set.
Refuse(c, k) ==
  /\ Listening /\ conn[c] = "idle"
  /\ IsDraining \/ (Missed(k) /\ ~AllowUnresolved)
  /\ Move(c, "refused")
  /\ ccall' = [ccall EXCEPT ![c] = k]
  /\ UNCHANGED <<sessionVars, active, lifeVars>>

Connect(c, k) ==
  /\ Listening /\ conn[c] = "idle"
  /\ ~IsDraining
  /\ \/ Found(k) /\ mem' = mem \union {k} /\ UNCHANGED redis
     \/ Missed(k) /\ AllowUnresolved /\ Store(k)
  /\ Move(c, "accepting")
  /\ ccall' = [ccall EXCEPT ![c] = k]
  /\ UNCHANGED <<opened, active, lifeVars>>

\* accept() has returned: on_call_started.
Accept(c) ==
  /\ Up /\ conn[c] = "accepting"
  /\ Move(c, "handshake")
  /\ active' = active + 1
  /\ UNCHANGED <<sessionVars, ccall, lifeVars>>

\* accept() raised: the call was never counted and its session stays.
AcceptFails(c) ==
  /\ Up /\ conn[c] = "accepting"
  /\ Move(c, "broken")
  /\ UNCHANGED <<sessionVars, ccall, active, lifeVars>>

-----------------------------------------------------------------------------
(* _run_call.                                                              *)

HandshakeRead(c) ==
  /\ Up /\ conn[c] = "handshake"
  /\ Move(c, "talking")
  /\ UNCHANGED <<sessionVars, ccall, active, lifeVars>>

\* Mutant: the early return skips on_call_ended.
HandshakeMissingUncounted(c) ==
  /\ Up /\ conn[c] = "handshake"
  /\ Remove(ccall[c])
  /\ Move(c, "left")
  /\ UNCHANGED <<opened, ccall, active, lifeVars>>

\* The client closed before the handshake message (ValueError).
HandshakeMissing(c) ==
  /\ Up /\ conn[c] = "handshake"
  /\ Remove(ccall[c])
  /\ Move(c, "left")
  /\ active' = active - 1
  /\ UNCHANGED <<opened, ccall, lifeVars>>

\* Any other exception before the pipeline runs passes through the finally.
SetupRaises(c) ==
  /\ Up /\ conn[c] = "handshake"
  /\ Move(c, "broken")
  /\ active' = active - 1
  /\ UNCHANGED <<sessionVars, ccall, lifeVars>>

\* Mutant: a turn is written whether the session exists or not.
AddTurnBlindly(c) ==
  /\ Up /\ conn[c] = "talking"
  /\ Store(ccall[c])
  /\ UNCHANGED <<opened, connVars, active, lifeVars>>

\* add_turn: nothing without a session, else memory and Redis are written.
AddTurn(c) ==
  /\ Up /\ conn[c] = "talking"
  /\ Found(ccall[c])
  /\ Store(ccall[c])
  /\ UNCHANGED <<opened, connVars, active, lifeVars>>

\* Mutant: the disconnect does not cancel the worker, so run() never returns.
HangUpUnnoticed(c) ==
  /\ Up /\ conn[c] = "talking"
  /\ UNCHANGED vars

\* The caller hangs up, or uvicorn has closed the socket, and runner.run()
\* returns or raises: the session goes first, transport.cleanup() is awaited,
\* then on_call_ended.
HangUp(c) ==
  /\ Up /\ conn[c] = "talking"
  /\ Remove(ccall[c])
  /\ Move(c, "cleaning")
  /\ UNCHANGED <<opened, ccall, active, lifeVars>>

\* Mutant: the count drops only when the call ended by itself.
LeaveUncounted(c) ==
  /\ Up /\ conn[c] = "cleaning"
  /\ Move(c, "left")
  /\ active' = IF Listening THEN active - 1 ELSE active
  /\ UNCHANGED <<sessionVars, ccall, lifeVars>>

Leave(c) ==
  /\ Up /\ conn[c] = "cleaning"
  /\ Move(c, "left")
  /\ active' = active - 1
  /\ UNCHANGED <<sessionVars, ccall, lifeVars>>

-----------------------------------------------------------------------------
(* Shutdown: uvicorn, then _lifespan after the yield.                       *)

\* SIGTERM: no new connections, and every WebSocket is closed (1012).
Sigterm ==
  /\ phase = "serving"
  /\ phase' = "closing"
  /\ UNCHANGED <<sessionVars, connVars, active, waited>>

\* No connection and no task is left: lifespan shutdown sets _draining.
LifespanShutdown ==
  /\ phase = "closing"
  /\ \A c \in Conn : conn[c] \notin Live \union {"accepting"}
  /\ phase' = "draining"
  /\ UNCHANGED <<sessionVars, connVars, active, waited>>

\* One test of the loop: sleep and poll again, or end the process.
Drain ==
  /\ phase = "draining"
  /\ IF active > 0 /\ waited < DrainPolls
       THEN waited' = waited + 1 /\ UNCHANGED <<phase, mem>>
       ELSE phase' = "stopped" /\ mem' = {} /\ UNCHANGED waited
  /\ UNCHANGED <<redis, opened, connVars, active>>

-----------------------------------------------------------------------------
ConnStep(c) ==
  \/ \E k \in CallId : Connect(c, k) \/ Refuse(c, k)
  \/ Accept(c) \/ AcceptFails(c)
  \/ HandshakeRead(c) \/ HandshakeMissing(c) \/ SetupRaises(c)
  \/ AddTurn(c) \/ HangUp(c) \/ Leave(c)

Next ==
  \/ \E k \in CallId : CallbackCreates(k) \/ CallbackEnds(k) \/ RedisExpires(k)
  \/ \E c \in Conn : ConnStep(c)
  \/ Sigterm \/ LifespanShutdown \/ Drain

Spec == Init /\ [][Next]_vars

\* A connection whose socket uvicorn has closed is told so at its next await
\* (on_client_disconnected); while serving, callers need not hang up.
Finish(c) ==
  /\ phase = "closing"
  /\ \/ Accept(c) \/ AcceptFails(c)
     \/ HandshakeRead(c) \/ HandshakeMissing(c) \/ SetupRaises(c)
     \/ HangUp(c) \/ Leave(c)

\* uvicorn's wait and the sleeping drain loop are woken by their timers.
Fairness ==
  /\ \A c \in Conn : WF_vars(Finish(c))
  /\ WF_vars(LifespanShutdown) /\ WF_vars(Drain)

FairSpec == Spec /\ Fairness

-----------------------------------------------------------------------------
(* Properties.                                                             *)

LiveConns == {c \in Conn : conn[c] \in Live}

\* _active_calls counts the calls in progress on every path out of _run_call:
\* it is never stuck above zero and never drops below it.
ActiveIsCounted == active = Cardinality(LiveConns)

\* The drain loop finds nothing to wait for: uvicorn has closed every call and
\* each has been counted down before _lifespan resumes, the ones that were
\* between the drain check and on_call_started at SIGTERM included.  A count
\* left over by any exit would hold the container for the whole timeout.
DrainNeverWaits ==
  waited = 0 /\ (IsDraining => active = 0)

\* Once a caller's connection is over, its session is gone from memory and
\* Redis for good, even if another connection for the same call (a reconnect)
\* is still adding turns.
HungUpMeansGone ==
  \A c \in Conn : conn[c] \in {"cleaning", "left"} => ccall[c] \notin mem \union redis

\* The process stops after SIGTERM although no caller hangs up: every closed
\* socket cancels its worker, so uvicorn's unbounded wait for the calls ends.
ShutdownEnds == phase = "closing" ~> phase = "stopped"

=============================================================================
