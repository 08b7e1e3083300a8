-------------------------- MODULE GatewayCallbacks --------------------------
(***************************************************************************)
(* The Exotel webhook of the voice gateway (services/voice-gateway/        *)
(* exotel_routes.py: callback), the API calls it makes (create_event,      *)
(* get_phone_route, create_call and finalize_call of services/api), the    *)
(* provider-call mapping and the call sessions kept in memory and in Redis *)
(* (services/voice-gateway/src/main.py).                                   *)
(*                                                                         *)
(* A delivery of a webhook is served by a slot.  The handler is split at   *)
(* its awaits: what it does between two awaits is one step, and what the   *)
(* API does for it in between are steps of their own.  When the gateway    *)
(* gives up on a request (timeout or crash) the API may still carry it out *)
(* (gone).  Exotel delivers an event again until one delivery is answered  *)
(* with a 2xx.  Rejected deliveries (401, 422) touch nothing and are left  *)
(* out.                                                                    *)
(***************************************************************************)
EXTENDS Naturals, FiniteSets

CONSTANTS
  PCall,        \* provider calls (Exotel CallSid)
  CallId,       \* values of uuid4()
  Slot,         \* webhook deliveries that can be in progress at once
  StartEvents,  \* of {"connected", "start", "answered", "started"}
  EndEvents,    \* of {"completed", "failed", "disconnected", "terminal"}
  OtherEvents,  \* any other EventType
  CallStatuses, \* values of Status in an end event
  Ordered,      \* the call outlasts the handling of its start event
  Scenarios,    \* what Exotel sends, and which faults happen
  NoCall, NoPCall

Event == StartEvents \union EndEvents \union OtherEvents
Scenario == [events : SUBSET (PCall \X Event), faults : SUBSET {"api", "lost", "crash", "redis"}]

ASSUME EventsDisjoint ==
  /\ StartEvents \subseteq {"connected", "start", "answered", "started"}
  /\ EndEvents \subseteq {"completed", "failed", "disconnected", "terminal"}
  /\ OtherEvents \intersect (StartEvents \union EndEvents) = {}
ASSUME ScenariosKnown == Scenarios \subseteq Scenario /\ Ordered \in BOOLEAN
ASSUME NoIdsFresh == NoCall \notin CallId /\ NoPCall \notin PCall

VARIABLES
  recorded,   \* (provider_call_id, event_type) rows of call_jobs: the dedup index
  owner,      \* provider_call_id of each calls row, NoPCall while there is none
  cstatus,    \* status of each calls row
  mapping,    \* Redis: provider call -> call_id (CallStore)
  mem,        \* sessions in the gateway's memory
  redis,      \* sessions in Redis
  spc,        \* where each slot is in callback()
  sp, sev,    \* the provider call and event it is about
  scid,       \* the call it creates or finalizes
  gone,       \* slots whose gateway side has ended
  scenario,   \* the scenario of this behaviour (constant)
  said,       \* the Status Exotel reports with an end event (constant)
  sent,       \* events Exotel has started to deliver
  answers     \* 2xx answers Exotel has received: <<pcall, event, status>>

dbVars == <<recorded, owner, cstatus>>
redisVars == <<mapping, redis>>
slotVars == <<spc, sp, sev, scid, gone>>
vars == <<recorded, owner, cstatus, mapping, mem, redis,
          spc, sp, sev, scid, gone, scenario, said, sent, answers>>
chosen == <<scenario, said>>

-----------------------------------------------------------------------------
\* is_failure and end_reason of the end branch.
ReasonFor(e, st) ==
  IF e = "failed" \/ st \in {"failed", "busy", "no-answer"}
  THEN "provider_failure" ELSE "caller_hangup"

\* _END_REASON_MAP, for the reasons the webhook sends.
FinalStatus == [caller_hangup |-> "completed", provider_failure |-> "failed"]

\* Requests that wait for the API, and replies that wait for the gateway.
AtApi == {"record", "route", "create", "finalize", "write"}
AtGateway == {"fresh", "duplicate", "created", "finalized"}

EndsIn(sc) == {pe \in sc.events : pe[2] \in EndEvents}

TypeOK ==
  /\ recorded \subseteq PCall \X Event
  /\ owner \in [CallId -> PCall \union {NoPCall}]
  /\ cstatus \in [CallId -> {"none", "active", "completed", "failed"}]
  /\ mapping \in [PCall -> CallId \union {NoCall}]
  /\ mem \subseteq CallId /\ redis \subseteq CallId
  /\ spc \in [Slot -> {"free"} \union AtApi \union AtGateway]
  /\ sp \in [Slot -> PCall \union {NoPCall}]
  /\ sev \in [Slot -> Event \union {"none"}]
  /\ scid \in [Slot -> CallId \union {NoCall}]
  /\ gone \subseteq Slot
  /\ scenario \in Scenarios
  /\ said \in [EndsIn(scenario) -> CallStatuses]
  /\ sent \subseteq PCall \X Event
  /\ answers \subseteq PCall \X Event \X
       {"duplicate", "session_started", "session_cleaned", "ignored"}

Init ==
  /\ recorded = {}
  /\ owner = [c \in CallId |-> NoPCall]
  /\ cstatus = [c \in CallId |-> "none"]
  /\ mapping = [p \in PCall |-> NoCall]
  /\ mem = {} /\ redis = {}
  /\ spc = [r \in Slot |-> "free"]
  /\ sp = [r \in Slot |-> NoPCall]
  /\ sev = [r \in Slot |-> "none"]
  /\ scid = [r \in Slot |-> NoCall]
  /\ scenario \in Scenarios
  /\ said \in [EndsIn(scenario) -> CallStatuses]
  /\ gone = {} /\ sent = {} /\ answers = {}

-----------------------------------------------------------------------------
(* Slots.                                                                  *)

Release(R) ==
  /\ spc' = [r \in Slot |-> IF r \in R THEN "free" ELSE spc[r]]
  /\ sp' = [r \in Slot |-> IF r \in R THEN NoPCall ELSE sp[r]]
  /\ sev' = [r \in Slot |-> IF r \in R THEN "none" ELSE sev[r]]
  /\ scid' = [r \in Slot |-> IF r \in R THEN NoCall ELSE scid[r]]
  /\ gone' = gone \ R

MoveTo(r, pc) ==
  /\ spc' = [spc EXCEPT ![r] = pc]
  /\ UNCHANGED <<sp, sev, scid, gone>>

\* The API has answered; nobody listens when the gateway side is gone.
Answered(r, pc) == IF r \in gone THEN Release({r}) ELSE MoveTo(r, pc)

\* The handler returns status to Exotel.
Answer2xx(r, status) ==
  /\ answers' = answers \union {<<sp[r], sev[r], status>>}
  /\ Release({r})

-----------------------------------------------------------------------------
(* Exotel.                                                                 *)

Acknowledged(p, e) == \E a \in answers : a[1] = p /\ a[2] = e

Webhook(r, p, e) ==
  /\ spc[r] = "free"
  /\ <<p, e>> \in scenario.events /\ ~Acknowledged(p, e)
  /\ e \notin StartEvents =>
       \E s \in StartEvents : IF Ordered THEN <<p, s, "session_started">> \in answers
                                         ELSE <<p, s>> \in sent
  /\ spc' = [spc EXCEPT ![r] = "record"]
  /\ sp' = [sp EXCEPT ![r] = p]
  /\ sev' = [sev EXCEPT ![r] = e]
  /\ sent' = sent \union {<<p, e>>}
  /\ UNCHANGED <<dbVars, redisVars, mem, scid, gone, answers, chosen>>

-----------------------------------------------------------------------------
(* callback(): the durable event record comes first.                       *)

\* Mutant: the existing row is answered as a new one.
RecordForgets(r) ==
  /\ spc[r] = "record"
  /\ recorded' = recorded \union {<<sp[r], sev[r]>>}
  /\ Answered(r, "fresh")
  /\ UNCHANGED <<owner, cstatus, redisVars, mem, sent, answers, chosen>>

\* create_event: INSERT, or the existing row as a duplicate.
RecordEvent(r) ==
  /\ spc[r] = "record"
  /\ LET key == <<sp[r], sev[r]>> IN
       /\ recorded' = recorded \union {key}
       /\ Answered(r, IF key \in recorded THEN "duplicate" ELSE "fresh")
  /\ UNCHANGED <<owner, cstatus, redisVars, mem, sent, answers, chosen>>

\* The row exists, but the rollback after the IntegrityError has undone the
\* set_config of this transaction: unless the pooled connection still carries
\* the sentinel from an earlier commit, row-level security hides the row and
\* the error is raised again, a 503 to Exotel.
DuplicateUnseen(r) ==
  /\ spc[r] = "record" /\ <<sp[r], sev[r]>> \in recorded
  /\ Release({r})
  /\ UNCHANGED <<dbVars, redisVars, mem, sent, answers, chosen>>

AnswerDuplicate(r) ==
  /\ spc[r] = "duplicate"
  /\ Answer2xx(r, "duplicate")
  /\ UNCHANGED <<dbVars, redisVars, mem, sent, chosen>>

IgnoreOther(r) ==
  /\ spc[r] = "fresh" /\ sev[r] \in OtherEvents
  /\ Answer2xx(r, "ignored")
  /\ UNCHANGED <<dbVars, redisVars, mem, sent, chosen>>

-----------------------------------------------------------------------------
(* Start events: resolve the route, create the call, then the session.     *)

FreshStart(r) ==
  /\ spc[r] = "fresh" /\ sev[r] \in StartEvents
  /\ MoveTo(r, "route")
  /\ UNCHANGED <<dbVars, redisVars, mem, sent, answers, chosen>>

\* resolve() answered; call_id = uuid4().
ResolveRoute(r) ==
  /\ spc[r] = "route"
  /\ IF r \in gone THEN Release({r})
     ELSE /\ \E c \in {c \in CallId : owner[c] = NoPCall /\ \A s \in Slot : scid[s] # c} :
               scid' = [scid EXCEPT ![r] = c]
          /\ spc' = [spc EXCEPT ![r] = "create"]
          /\ UNCHANGED <<sp, sev, gone>>
  /\ UNCHANGED <<dbVars, redisVars, mem, sent, answers, chosen>>

\* Mutant: success is answered although the row was not committed.
CreateUncommitted(r) ==
  /\ spc[r] = "create"
  /\ Answered(r, "created")
  /\ UNCHANGED <<dbVars, redisVars, mem, sent, answers, chosen>>

\* Mutant: a status no reader of calls knows.
CreateMisspelt(r) ==
  /\ spc[r] = "create"
  /\ owner' = [owner EXCEPT ![scid[r]] = sp[r]]
  /\ cstatus' = [cstatus EXCEPT ![scid[r]] = "in_progress"]
  /\ Answered(r, "created")
  /\ UNCHANGED <<recorded, redisVars, mem, sent, answers, chosen>>

CreateCall(r) ==
  /\ spc[r] = "create"
  /\ owner' = [owner EXCEPT ![scid[r]] = sp[r]]
  /\ cstatus' = [cstatus EXCEPT ![scid[r]] = "active"]
  /\ Answered(r, "created")
  /\ UNCHANGED <<recorded, redisVars, mem, sent, answers, chosen>>

\* A Redis command takes effect, or fails and is only logged.
RedisOk == {TRUE} \union IF "redis" \in scenario.faults THEN {FALSE} ELSE {}

\* session_manager.create and _store.set, with no await in between.
StartSession(r) ==
  /\ spc[r] = "created"
  /\ mem' = mem \union {scid[r]}
  /\ \E ok \in RedisOk : redis' = IF ok THEN redis \union {scid[r]} ELSE redis
  /\ \E ok \in RedisOk :
       mapping' = IF ok THEN [mapping EXCEPT ![sp[r]] = scid[r]] ELSE mapping
  /\ Answer2xx(r, "session_started")
  /\ UNCHANGED <<dbVars, sent, chosen>>

-----------------------------------------------------------------------------
(* End events: look the call up, finalize it, then clean up.               *)

FreshEnd(r) ==
  /\ spc[r] = "fresh" /\ sev[r] \in EndEvents
  /\ \E ok \in RedisOk :
       IF ok /\ mapping[sp[r]] # NoCall
       THEN /\ spc' = [spc EXCEPT ![r] = "finalize"]
            /\ scid' = [scid EXCEPT ![r] = mapping[sp[r]]]
            /\ UNCHANGED <<sp, sev, gone, answers>>
       ELSE Answer2xx(r, "ignored")
  /\ UNCHANGED <<dbVars, redisVars, mem, sent, chosen>>

\* finalize_call reads the row: a call that has ended is returned as it is.
FinalizeCheck(r) ==
  /\ spc[r] = "finalize"
  /\ IF cstatus[scid[r]] = "active" THEN MoveTo(r, "write") ELSE Answered(r, "finalized")
  /\ UNCHANGED <<dbVars, redisVars, mem, sent, answers, chosen>>

\* Mutant: the end_reason is not consulted.
FinalizeCompleted(r) ==
  /\ spc[r] = "write"
  /\ cstatus' = [cstatus EXCEPT ![scid[r]] = "completed"]
  /\ Answered(r, "finalized")
  /\ UNCHANGED <<recorded, owner, redisVars, mem, sent, answers, chosen>>

\* The ORM flush: an UPDATE by primary key, with no condition on ended_at.
FinalizeWrite(r) ==
  /\ spc[r] = "write"
  /\ cstatus' = [cstatus EXCEPT ![scid[r]] = FinalStatus[ReasonFor(sev[r], said[<<sp[r], sev[r]>>])]]
  /\ Answered(r, "finalized")
  /\ UNCHANGED <<recorded, owner, redisVars, mem, sent, answers, chosen>>

\* Mutant: only a session found in this process's memory is removed.
CleanMemoryOnly(r) ==
  /\ spc[r] = "finalized"
  /\ mem' = mem \ {scid[r]}
  /\ redis' = IF scid[r] \in mem THEN redis \ {scid[r]} ELSE redis
  /\ mapping' = [mapping EXCEPT ![sp[r]] = NoCall]
  /\ Answer2xx(r, "session_cleaned")
  /\ UNCHANGED <<dbVars, sent, chosen>>

\* session get / end / remove and _store.delete, with no await in between.
CleanUp(r) ==
  /\ spc[r] = "finalized"
  /\ mem' = mem \ {scid[r]}
  /\ \E ok \in RedisOk : redis' = IF ok THEN redis \ {scid[r]} ELSE redis
  /\ \E ok \in RedisOk :
       mapping' = IF ok THEN [mapping EXCEPT ![sp[r]] = NoCall] ELSE mapping
  /\ Answer2xx(r, "session_cleaned")
  /\ UNCHANGED <<dbVars, sent, chosen>>

-----------------------------------------------------------------------------
(* Faults.                                                                 *)

\* The API refuses or the route is unknown: 503 or 404, no effect.
ApiError(r) ==
  /\ "api" \in scenario.faults
  /\ spc[r] \in AtApi
  /\ Release({r})
  /\ UNCHANGED <<dbVars, redisVars, mem, sent, answers, chosen>>

\* httpx times out or the API's reply is lost: 503 to Exotel.
ReplyLost(r) ==
  /\ "lost" \in scenario.faults
  /\ spc[r] # "free" /\ r \notin gone
  /\ IF spc[r] \in AtApi
     THEN gone' = gone \union {r} /\ UNCHANGED <<spc, sp, sev, scid>>
     ELSE Release({r})
  /\ UNCHANGED <<dbVars, redisVars, mem, sent, answers, chosen>>

\* Mutant: the mapping lives in the process, as in _DictCallStore.
CrashForgetsCalls ==
  /\ "crash" \in scenario.faults
  /\ mem # {}
  /\ mem' = {}
  /\ mapping' = [p \in PCall |-> NoCall]
  /\ UNCHANGED <<dbVars, redis, slotVars, sent, answers, chosen>>

\* The gateway process dies and restarts: its memory and handlers are lost.
Crash ==
  /\ "crash" \in scenario.faults
  /\ mem # {} \/ \E r \in Slot : spc[r] # "free" /\ r \notin gone
  /\ mem' = {}
  /\ spc' = [r \in Slot |-> IF spc[r] \in AtGateway THEN "free" ELSE spc[r]]
  /\ sp' = [r \in Slot |-> IF spc[r] \in AtGateway THEN NoPCall ELSE sp[r]]
  /\ sev' = [r \in Slot |-> IF spc[r] \in AtGateway THEN "none" ELSE sev[r]]
  /\ scid' = [r \in Slot |-> IF spc[r] \in AtGateway THEN NoCall ELSE scid[r]]
  /\ gone' = {r \in Slot : spc[r] \in AtApi}
  /\ UNCHANGED <<dbVars, redisVars, sent, answers, chosen>>

\* A Redis key is evicted or expires (24 h mapping, 1 h session).
RedisForgets ==
  /\ "redis" \in scenario.faults
  /\ \/ \E p \in PCall : /\ mapping[p] # NoCall
                         /\ mapping' = [mapping EXCEPT ![p] = NoCall]
                         /\ UNCHANGED redis
     \/ \E c \in redis : redis' = redis \ {c} /\ UNCHANGED mapping
  /\ UNCHANGED <<dbVars, mem, slotVars, sent, answers, chosen>>

-----------------------------------------------------------------------------
GatewayStep(r) ==
  \/ AnswerDuplicate(r) \/ IgnoreOther(r)
  \/ FreshStart(r) \/ StartSession(r)
  \/ FreshEnd(r) \/ CleanUp(r)

ApiStep(r) ==
  \/ RecordEvent(r) \/ ResolveRoute(r) \/ CreateCall(r)
  \/ FinalizeCheck(r) \/ FinalizeWrite(r)

Next ==
  \/ \E r \in Slot :
       \/ \E p \in PCall, e \in Event : Webhook(r, p, e)
       \/ GatewayStep(r) \/ ApiStep(r)
       \/ DuplicateUnseen(r) \/ ApiError(r) \/ ReplyLost(r)
  \/ Crash
  \/ RedisForgets

Spec == Init /\ [][Next]_vars

\* An unanswered event is delivered again; the event loop runs every handler;
\* an API that is asked again and again answers in the end, so a retry meets a
\* connection that sees the recorded event.
Retry(p, e) == <<p, e>> \in sent /\ \E r \in Slot : Webhook(r, p, e)

Fairness ==
  /\ \A p \in PCall, e \in Event : SF_vars(Retry(p, e))
  /\ \A r \in Slot : WF_vars(GatewayStep(r)) /\ SF_vars(ApiStep(r))

FairSpec == Spec /\ Fairness

-----------------------------------------------------------------------------
(* Properties.                                                             *)

CallsOf(p) == {c \in CallId : owner[c] = p}
Ended(c) == cstatus[c] \in {"completed", "failed"}
EndRecorded(p) == \E e \in EndEvents : <<p, e>> \in recorded
RedisKeeps == "redis" \notin scenario.faults
Told(p, status) == \E e \in Event : <<p, e, status>> \in answers

\* However often Exotel delivers an event, in parallel or after a gateway
\* restart or a lost answer, each recorded start event opens at most one call:
\* callback() creates a call only for the delivery whose INSERT won.
OneCallPerStartEvent ==
  \A p \in PCall :
    Cardinality(CallsOf(p)) <= Cardinality({e \in StartEvents : <<p, e>> \in recorded})

\* A session or a provider-call mapping always has its calls row, and the
\* mapping never leads to another caller's call: create_call commits before
\* session_manager.create and CallStore.set run.
SessionsHaveCalls ==
  /\ \A c \in mem \union redis : owner[c] # NoPCall
  /\ \A p \in PCall : mapping[p] # NoCall => owner[mapping[p]] = p

\* Once Exotel was told session_started, the call can be found for its end
\* event until one is recorded, across gateway crashes (as long as Redis keeps
\* its data): the promise of CallStore.
AckedCallIsFindable ==
  \A p \in PCall :
    RedisKeeps /\ Told(p, "session_started") /\ ~EndRecorded(p) =>
      mapping[p] # NoCall /\ cstatus[mapping[p]] = "active"

\* session_cleaned is answered only when the call is over everywhere: the calls
\* row ended and neither a session nor a mapping is left, even after a crash
\* emptied the memory and with late deliveries of the start event around (as
\* long as Redis keeps its data).
CleanedIsGone ==
  \A p \in PCall :
    RedisKeeps /\ Told(p, "session_cleaned") =>
      /\ mapping[p] = NoCall
      /\ \A c \in CallsOf(p) : Ended(c) /\ c \notin mem \union redis

\* The status of an ended call is one Exotel reported for that very call.
CallEndsAsReported ==
  \A c \in CallId :
    Ended(c) => \E e \in EndEvents :
                  /\ <<owner[c], e>> \in recorded \intersect EndsIn(scenario)
                  /\ cstatus[c] = FinalStatus[ReasonFor(e, said[<<owner[c], e>>])]

\* A call whose end Exotel reports is ended in the database and its sessions
\* are cleaned up (callback, end branch).
EndFinalizes ==
  \A p \in PCall :
    (\E e \in EndEvents : <<p, e>> \in sent) ~>
      \A c \in CallsOf(p) : Ended(c) /\ c \notin mem \union redis

=============================================================================
