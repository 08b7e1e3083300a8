----------------------- MODULE GatewayCallbacksProofs -----------------------
(***************************************************************************)
(* Proofs about GatewayCallbacks, for any number of provider calls,        *)
(* deliveries and call ids and every scenario of events and faults.        *)
(***************************************************************************)
EXTENDS GatewayCallbacks, FiniteSetTheorems, TLAPS

-----------------------------------------------------------------------------
(* Where a delivery stands.                                                *)

\* A delivery whose INSERT won carries out the event: it alone gets here.
Winner == {"fresh", "route", "create", "created", "finalize", "write", "finalized"}
OfStart == {"route", "create", "created"}
OfEnd == {"finalize", "write", "finalized"}
HasCall == {"create", "created"} \union OfEnd

\* What a delivery relies on between its awaits.
SlotOk(r) ==
  /\ spc[r] = "free" => r \notin gone
  /\ spc[r] # "free" => <<sp[r], sev[r]>> \in scenario.events
  /\ spc[r] \in Winner => <<sp[r], sev[r]>> \in recorded
  /\ spc[r] \in AtGateway => r \notin gone
  /\ spc[r] \in OfStart => sev[r] \in StartEvents
  /\ spc[r] \in OfEnd => sev[r] \in EndEvents
  /\ IF spc[r] \in HasCall THEN scid[r] \in CallId ELSE scid[r] = NoCall

\* What it relies on about the call it works on.
CallOk(r) ==
  /\ spc[r] = "create" => owner[scid[r]] = NoPCall
  /\ spc[r] \in {"created"} \union OfEnd => owner[scid[r]] = sp[r]
  /\ spc[r] = "created" => cstatus[scid[r]] = "active"
  /\ spc[r] = "finalized" => Ended(scid[r])

\* An event is carried out by one delivery.
OneWinner ==
  \A r, s \in Slot : /\ spc[r] \in Winner /\ spc[s] \in Winner
                     /\ sp[r] = sp[s] /\ sev[r] = sev[s]
                     => r = s

\* A call id is a fresh uuid until its session is started: nobody else has it.
OwnCall ==
  \A r \in Slot : spc[r] \in {"create", "created"} =>
    /\ \A s \in Slot : scid[s] = scid[r] => s = r
    /\ \A p \in PCall : mapping[p] # scid[r]

RowsOk ==
  /\ recorded \subseteq scenario.events
  /\ \A c \in CallId : owner[c] = NoPCall <=> cstatus[c] = "none"

\* Start events of p that are recorded and whose call is not created yet.
Pending == {"fresh", "route", "create"}
Waiting(p) == {e \in StartEvents : \E r \in Slot : spc[r] \in Pending /\ sp[r] = p /\ sev[r] = e}

\* Each call has a start event of its own, which no delivery still works on.
Paid(p) ==
  \E f \in [CallId -> Event \union {"none"}] :
    /\ \A c \in CallsOf(p) : f[c] \in StartEvents \ Waiting(p) /\ <<p, f[c]>> \in recorded
    /\ \A c, d \in CallsOf(p) : f[c] = f[d] => c = d

DeliveryInv ==
  /\ TypeOK
  /\ \A r \in Slot : SlotOk(r) /\ CallOk(r)
  /\ OneWinner /\ OwnCall /\ RowsOk /\ SessionsHaveCalls

GatewayInv == DeliveryInv /\ \A p \in PCall : Paid(p)

\* Exotel announces a call with one kind of start event.
SingleStart ==
  \A sc \in Scenarios, p \in PCall, d, e \in StartEvents :
    <<p, d>> \in sc.events /\ <<p, e>> \in sc.events => d = e

CleanInv ==
  /\ CleanedIsGone
  /\ \A p \in PCall : RedisKeeps /\ Told(p, "session_cleaned") => CallsOf(p) # {}
  /\ \A r \in Slot : RedisKeeps /\ spc[r] = "created" => ~Told(sp[r], "session_cleaned")

-----------------------------------------------------------------------------
(* What the steps of a slot do to the slots.                               *)

Label == {"free"} \union AtApi \union AtGateway

SlotTypes ==
  /\ spc \in [Slot -> Label]
  /\ sp \in [Slot -> PCall \union {NoPCall}]
  /\ sev \in [Slot -> Event \union {"none"}]
  /\ scid \in [Slot -> CallId \union {NoCall}]
  /\ gone \subseteq Slot

\* Only slot r moves.
Others(r) ==
  /\ \A s \in Slot \ {r} : /\ spc'[s] = spc[s] /\ sp'[s] = sp[s]
                           /\ sev'[s] = sev[s] /\ scid'[s] = scid[s]
  /\ gone' \ {r} = gone \ {r}

Freed(r) == spc'[r] = "free" /\ sp'[r] = NoPCall /\ scid'[r] = NoCall /\ r \notin gone'

\* It goes to label pc with the same event.
Goes(r, pc) == /\ spc'[r] = pc /\ sp'[r] = sp[r] /\ sev'[r] = sev[r]
               /\ r \in gone' => r \in gone

LEMMA ReleaseEffect ==
  ASSUME TypeOK, NEW r \in Slot, Release({r})
  PROVE  SlotTypes' /\ Others(r) /\ Freed(r)
BY DEF TypeOK, Release, SlotTypes, Label, Others, Freed, AtApi, AtGateway

LEMMA MoveEffect ==
  ASSUME TypeOK, NEW r \in Slot, NEW pc \in Label, MoveTo(r, pc)
  PROVE  SlotTypes' /\ Others(r) /\ Goes(r, pc) /\ scid'[r] = scid[r] /\ gone' = gone
BY DEF TypeOK, MoveTo, SlotTypes, Label, Others, Goes

LEMMA AnsweredEffect ==
  ASSUME TypeOK, NEW r \in Slot, NEW pc \in Label, Answered(r, pc)
  PROVE  /\ SlotTypes' /\ Others(r)
         /\ \/ Freed(r)
            \/ Goes(r, pc) /\ scid'[r] = scid[r] /\ r \notin gone'
<1>1. CASE r \in gone
  BY <1>1, ReleaseEffect DEF Answered
<1>2. CASE r \notin gone
  BY <1>2, MoveEffect DEF Answered
<1> QED BY <1>1, <1>2

LEMMA EventsTyped ==
  ASSUME TypeOK PROVE scenario.events \subseteq PCall \X Event
BY ScenariosKnown DEF TypeOK, Scenario

-----------------------------------------------------------------------------
(* What one slot's step owes the others.                                   *)

\* The rows a step may touch: the one its delivery creates or finalizes.
RowChange(r) ==
  /\ recorded \subseteq recorded' /\ UNCHANGED chosen
  /\ \A c \in CallId : owner'[c] = owner[c] \/ (c = scid[r] /\ spc[r] = "create")
  /\ \A c \in CallId : \/ cstatus'[c] = cstatus[c]
                       \/ c = scid[r] /\ spc[r] = "create"
                       \/ c = scid[r] /\ spc[r] = "write" /\ Ended(c)'

\* A delivery carries out an event only if it did before, or recorded it.
StaysWinner(r) ==
  spc'[r] \in Winner =>
    /\ sp'[r] = sp[r] /\ sev'[r] = sev[r]
    /\ spc[r] \in Winner \/ <<sp[r], sev[r]>> \notin recorded

\* The call id of another delivery is not taken, nor mapped.
LeavesCalls(r) ==
  \A s \in Slot \ {r} : spc[s] \in {"create", "created"} =>
    scid'[r] # scid[s] /\ \A p \in PCall : mapping'[p] # scid[s]

OwnsCall(r) ==
  spc'[r] \in {"create", "created"} =>
    /\ \A s \in Slot \ {r} : scid[s] # scid'[r]
    /\ \A p \in PCall : mapping'[p] # scid'[r]

LEMMA OthersKeep ==
  ASSUME DeliveryInv, NEW r \in Slot, Others(r), RowChange(r),
         SlotOk(r)', CallOk(r)', StaysWinner(r), LeavesCalls(r), OwnsCall(r)
  PROVE  (\A s \in Slot : SlotOk(s) /\ CallOk(s))' /\ OneWinner' /\ OwnCall'
<1>1. ASSUME NEW s \in Slot PROVE SlotOk(s)'
  <2>1. CASE s = r
    BY <2>1
  <2>2. CASE s # r
    BY <2>2 DEF DeliveryInv, SlotOk, Others, RowChange, chosen
  <2> QED BY <2>1, <2>2
<1>2. ASSUME NEW s \in Slot PROVE CallOk(s)'
  <2>1. CASE s = r
    BY <2>1
  <2>2. CASE s # r
    <3>1. CallOk(s) /\ SlotOk(s) /\ OwnCall
      BY DEF DeliveryInv
    <3>2. /\ spc'[s] = spc[s] /\ sp'[s] = sp[s] /\ scid'[s] = scid[s]
      BY <2>2 DEF Others
    <3>3. spc[s] \in HasCall => scid[s] \in CallId
      BY <3>1 DEF SlotOk
    <3>4. spc[r] = "create" => scid[s] # scid[r]
      BY <2>2, <3>1 DEF OwnCall
    <3>5. spc[s] \in HasCall => owner'[scid[s]] = owner[scid[s]]
      BY <3>3, <3>4 DEF RowChange
    <3>6. spc[s] = "created" => scid[s] # scid[r]
      BY <2>2, <3>1 DEF OwnCall
    <3>7. spc[s] = "created" => cstatus'[scid[s]] = cstatus[scid[s]]
      BY <3>3, <3>6 DEF RowChange, HasCall
    <3>8. spc[s] = "finalized" /\ Ended(scid[s]) => Ended(scid[s])'
      <4>1. "finalized" \in HasCall
        BY DEF HasCall, OfEnd
      <4> QED BY <3>2, <3>3, <3>4, <4>1 DEF RowChange, Ended
    <3> QED BY <3>1, <3>2, <3>5, <3>7, <3>8 DEF CallOk, HasCall, OfEnd
  <2> QED BY <2>1, <2>2
<1>3. OneWinner'
  <2> SUFFICES ASSUME NEW a \in Slot, NEW b \in Slot, spc'[a] \in Winner, spc'[b] \in Winner,
                      sp'[a] = sp'[b], sev'[a] = sev'[b]
               PROVE  a = b
    BY DEF OneWinner, Winner
  <2>1. \A s \in Slot : spc[s] \in Winner => <<sp[s], sev[s]>> \in recorded
    BY DEF DeliveryInv, SlotOk
  <2>2. CASE a # r /\ b # r
    BY <2>2 DEF Others, DeliveryInv, OneWinner
  <2>3. CASE a = r /\ b # r
    BY <2>1, <2>3 DEF Others, DeliveryInv, OneWinner, StaysWinner
  <2>4. CASE a # r /\ b = r
    BY <2>1, <2>4 DEF Others, DeliveryInv, OneWinner, StaysWinner
  <2> QED BY <2>2, <2>3, <2>4
<1>4. OwnCall'
  <2> SUFFICES ASSUME NEW a \in Slot, spc'[a] \in {"create", "created"}
               PROVE  /\ \A s \in Slot : scid'[s] = scid'[a] => s = a
                      /\ \A p \in PCall : mapping'[p] # scid'[a]
    BY DEF OwnCall
  <2>1. CASE a = r
    BY <2>1 DEF Others, OwnsCall
  <2>2. CASE a # r
    BY <2>2 DEF Others, LeavesCalls, DeliveryInv, OwnCall
  <2> QED BY <2>1, <2>2
<1> QED BY <1>1, <1>2, <1>3, <1>4

LEMMA FreedOk ==
  ASSUME NEW r \in Slot, Freed(r)
  PROVE  SlotOk(r)' /\ CallOk(r)' /\ StaysWinner(r) /\ OwnsCall(r)
BY DEF Freed, SlotOk, CallOk, StaysWinner, OwnsCall, Winner, OfStart, OfEnd, HasCall, AtGateway

\* A step that takes no new call id and maps at most its own.
LEMMA KeepsCalls ==
  ASSUME DeliveryInv, NEW r \in Slot, scid'[r] \in {scid[r], NoCall},
         \A p \in PCall : mapping'[p] \in {mapping[p], scid[r], NoCall}
  PROVE  LeavesCalls(r)
<1> SUFFICES ASSUME NEW s \in Slot \ {r}, spc[s] \in {"create", "created"}
             PROVE  scid'[r] # scid[s] /\ \A p \in PCall : mapping'[p] # scid[s]
  BY DEF LeavesCalls
<1>1. scid[s] # NoCall
  BY NoIdsFresh DEF DeliveryInv, SlotOk, HasCall
<1>2. scid[r] # scid[s] /\ \A p \in PCall : mapping[p] # scid[s]
  BY DEF DeliveryInv, OwnCall
<1> QED BY <1>1, <1>2

\* Steps that touch neither rows nor sessions.
LEMMA QuietStep ==
  ASSUME DeliveryInv, NEW r \in Slot, SlotTypes', Others(r),
         UNCHANGED <<dbVars, redisVars, mem, chosen>>,
         sent' \subseteq PCall \X Event,
         answers' \subseteq PCall \X Event \X
           {"duplicate", "session_started", "session_cleaned", "ignored"},
         SlotOk(r)', CallOk(r)', StaysWinner(r), LeavesCalls(r), OwnsCall(r)
  PROVE  DeliveryInv'
<1>1. TypeOK'
  BY DEF DeliveryInv, TypeOK, SlotTypes, Label, dbVars, redisVars, chosen
<1>2. RowChange(r)
  BY DEF RowChange, dbVars
<1>3. RowsOk' /\ SessionsHaveCalls'
  BY DEF DeliveryInv, RowsOk, SessionsHaveCalls, dbVars, redisVars, chosen
<1> QED BY <1>1, <1>2, <1>3, OthersKeep DEF DeliveryInv

LEMMA FreeStep ==
  ASSUME DeliveryInv, NEW r \in Slot, Release({r}),
         UNCHANGED <<dbVars, redisVars, mem, chosen, sent>>,
         answers' \subseteq PCall \X Event \X
           {"duplicate", "session_started", "session_cleaned", "ignored"}
  PROVE  DeliveryInv'
<1>1. SlotTypes' /\ Others(r) /\ Freed(r)
  BY ReleaseEffect DEF DeliveryInv
<1>2. LeavesCalls(r)
  BY <1>1, KeepsCalls DEF Freed, redisVars
<1> QED BY <1>1, <1>2, FreedOk, QuietStep DEF DeliveryInv, TypeOK

\* A 2xx names the event of the delivery.
LEMMA AnswerTyped ==
  ASSUME DeliveryInv, NEW r \in Slot, spc[r] # "free",
         NEW status \in {"duplicate", "session_started", "session_cleaned", "ignored"},
         Answer2xx(r, status)
  PROVE  /\ answers' \subseteq PCall \X Event \X
              {"duplicate", "session_started", "session_cleaned", "ignored"}
         /\ Release({r})
<1>1. <<sp[r], sev[r]>> \in PCall \X Event
  BY EventsTyped DEF DeliveryInv, SlotOk
<1> QED BY <1>1 DEF Answer2xx, DeliveryInv, TypeOK

LEMMA WebhookStep ==
  ASSUME DeliveryInv, NEW r \in Slot, NEW p \in PCall, NEW e \in Event, Webhook(r, p, e)
  PROVE  DeliveryInv'
<1>1. SlotTypes' /\ Others(r)
  BY DEF Webhook, DeliveryInv, TypeOK, SlotTypes, Label, AtApi, Others
<1>2. /\ spc'[r] = "record" /\ <<sp'[r], sev'[r]>> \in scenario.events
      /\ scid'[r] = NoCall /\ UNCHANGED <<scid, mapping, gone, scenario>>
  BY DEF Webhook, DeliveryInv, TypeOK, SlotOk, HasCall, OfEnd, redisVars, chosen
<1>3. SlotOk(r)' /\ CallOk(r)' /\ StaysWinner(r) /\ OwnsCall(r)
  BY <1>2 DEF SlotOk, CallOk, StaysWinner, OwnsCall, Winner, OfStart, OfEnd, HasCall, AtGateway
<1>4. LeavesCalls(r)
  BY <1>2, KeepsCalls
<1> QED BY <1>1, <1>3, <1>4, QuietStep DEF Webhook, DeliveryInv, TypeOK

LEMMA RecordStep ==
  ASSUME DeliveryInv, NEW r \in Slot, RecordEvent(r)
  PROVE  DeliveryInv'
<1> DEFINE key == <<sp[r], sev[r]>>
<1> DEFINE pc == IF key \in recorded THEN "duplicate" ELSE "fresh"
<1>1. /\ spc[r] = "record" /\ recorded' = recorded \union {key}
      /\ UNCHANGED <<owner, cstatus, mapping, redis, mem, sent, answers, scenario, said>>
      /\ key \in scenario.events /\ key \in PCall \X Event /\ scid[r] = NoCall
  BY EventsTyped DEF RecordEvent, redisVars, chosen, DeliveryInv, SlotOk, HasCall, OfEnd
<1>2. pc \in Label /\ Answered(r, pc)
  BY DEF RecordEvent, Label, AtGateway
<1>3. /\ SlotTypes' /\ Others(r)
      /\ Freed(r) \/ (Goes(r, pc) /\ scid'[r] = scid[r] /\ r \notin gone')
  BY <1>2, AnsweredEffect DEF DeliveryInv
<1>4. SlotOk(r)' /\ CallOk(r)' /\ StaysWinner(r) /\ OwnsCall(r)
  <2>1. CASE Freed(r)
    BY <2>1, FreedOk
  <2>2. CASE Goes(r, pc) /\ scid'[r] = scid[r] /\ r \notin gone'
    <3>1. SlotOk(r)' /\ CallOk(r)'
      BY <1>1, <2>2 DEF Goes, SlotOk, CallOk, Winner, OfStart, OfEnd, HasCall
    <3>2. StaysWinner(r) /\ OwnsCall(r)
      BY <2>2 DEF Goes, StaysWinner, OwnsCall, Winner
    <3> QED BY <3>1, <3>2
  <2> QED BY <1>3, <2>1, <2>2
<1>5. LeavesCalls(r)
  BY <1>1, <1>3, KeepsCalls DEF Freed
<1>6. RowChange(r)
  BY <1>1 DEF RowChange, chosen
<1>7. TypeOK'
  BY <1>1, <1>3 DEF DeliveryInv, TypeOK, SlotTypes, Label
<1>8. RowsOk' /\ SessionsHaveCalls'
  BY <1>1 DEF DeliveryInv, RowsOk, SessionsHaveCalls
<1> QED BY <1>3, <1>4, <1>5, <1>6, <1>7, <1>8, OthersKeep DEF DeliveryInv

LEMMA ResolveStep ==
  ASSUME DeliveryInv, NEW r \in Slot, ResolveRoute(r)
  PROVE  DeliveryInv'
<1>1. CASE r \in gone
  BY <1>1, FreeStep DEF ResolveRoute, DeliveryInv, TypeOK
<1>2. CASE r \notin gone
  <2>1. PICK c \in CallId : /\ owner[c] = NoPCall /\ \A s \in Slot : scid[s] # c
                           /\ scid' = [scid EXCEPT ![r] = c]
    BY <1>2 DEF ResolveRoute
  <2>2. /\ spc[r] = "route" /\ spc' = [spc EXCEPT ![r] = "create"]
        /\ UNCHANGED <<sp, sev, gone, dbVars, redisVars, mem, sent, answers, chosen>>
    BY <1>2 DEF ResolveRoute
  <2>3. SlotTypes' /\ Others(r)
    BY <2>1, <2>2 DEF DeliveryInv, TypeOK, SlotTypes, Label, AtApi, Others
  <2>4. spc'[r] = "create" /\ sp'[r] = sp[r] /\ sev'[r] = sev[r] /\ scid'[r] = c
    BY <2>1, <2>2 DEF DeliveryInv, TypeOK
  <2>5. SlotOk(r)' /\ CallOk(r)'
    BY <2>1, <2>2, <2>4 DEF DeliveryInv, SlotOk, CallOk, Winner, OfStart, OfEnd, HasCall,
                            AtGateway, dbVars, chosen
  <2>6. StaysWinner(r)
    BY <2>2, <2>4 DEF StaysWinner, Winner
  <2>7. \A p \in PCall : mapping'[p] # c
    BY <2>1, <2>2, NoIdsFresh DEF DeliveryInv, SessionsHaveCalls, redisVars
  <2>8. OwnsCall(r)
    BY <2>1, <2>4, <2>7 DEF OwnsCall
  <2>9. LeavesCalls(r)
    BY <2>1, <2>2, <2>4 DEF LeavesCalls, DeliveryInv, OwnCall, redisVars
  <2> QED BY <2>2, <2>3, <2>5, <2>6, <2>8, <2>9, QuietStep DEF DeliveryInv, TypeOK
<1> QED BY <1>1, <1>2

LEMMA CreateStep ==
  ASSUME DeliveryInv, NEW r \in Slot, CreateCall(r)
  PROVE  DeliveryInv'
<1>1. /\ spc[r] = "create" /\ scid[r] \in CallId /\ owner[scid[r]] = NoPCall
      /\ owner' = [owner EXCEPT ![scid[r]] = sp[r]]
      /\ cstatus' = [cstatus EXCEPT ![scid[r]] = "active"]
      /\ UNCHANGED <<recorded, mapping, redis, mem, sent, answers, scenario, said>>
  BY DEF CreateCall, redisVars, chosen, DeliveryInv, SlotOk, CallOk, HasCall
<1>2. sp[r] \in PCall
  BY <1>1, EventsTyped DEF DeliveryInv, SlotOk
<1>3. /\ SlotTypes' /\ Others(r)
      /\ Freed(r) \/ (Goes(r, "created") /\ scid'[r] = scid[r] /\ r \notin gone')
  BY AnsweredEffect DEF CreateCall, DeliveryInv, Label, AtGateway
<1>4. \A c \in CallId : /\ owner'[c] = IF c = scid[r] THEN sp[r] ELSE owner[c]
                        /\ cstatus'[c] = IF c = scid[r] THEN "active" ELSE cstatus[c]
  BY <1>1 DEF DeliveryInv, TypeOK
<1>5. SlotOk(r)' /\ CallOk(r)' /\ StaysWinner(r) /\ OwnsCall(r)
  <2>1. CASE Freed(r)
    BY <2>1, FreedOk
  <2>2. CASE Goes(r, "created") /\ scid'[r] = scid[r] /\ r \notin gone'
    <3>1. SlotOk(r)' /\ CallOk(r)'
      BY <1>1, <1>4, <2>2 DEF DeliveryInv, Goes, SlotOk, CallOk, Winner, OfStart, OfEnd, HasCall
    <3>2. StaysWinner(r)
      BY <1>1, <2>2 DEF Goes, StaysWinner, Winner
    <3>3. OwnsCall(r)
      BY <1>1, <2>2 DEF DeliveryInv, OwnCall, OwnsCall
    <3> QED BY <3>1, <3>2, <3>3
  <2> QED BY <1>3, <2>1, <2>2
<1>6. LeavesCalls(r)
  BY <1>1, <1>3, KeepsCalls DEF Freed
<1>7. RowChange(r)
  BY <1>1, <1>4 DEF RowChange, chosen
<1>8. TypeOK'
  BY <1>1, <1>2, <1>3 DEF DeliveryInv, TypeOK, SlotTypes, Label
<1>9. RowsOk'
  BY <1>1, <1>2, <1>4, NoIdsFresh DEF DeliveryInv, RowsOk
<1>10. SessionsHaveCalls'
  <2>1. \A c \in mem \union redis : c \in CallId
    BY DEF DeliveryInv, TypeOK
  <2>2. \A p \in PCall : mapping[p] # NoCall => mapping[p] \in CallId /\ mapping[p] # scid[r]
    BY <1>1, NoIdsFresh DEF DeliveryInv, TypeOK, SessionsHaveCalls
  <2> QED BY <1>1, <1>2, <1>4, <2>1, <2>2, NoIdsFresh DEF DeliveryInv, SessionsHaveCalls
<1> QED BY <1>3, <1>5, <1>6, <1>7, <1>8, <1>9, <1>10, OthersKeep DEF DeliveryInv

LEMMA FreshStartStep ==
  ASSUME DeliveryInv, NEW r \in Slot, FreshStart(r)
  PROVE  DeliveryInv'
<1>1. /\ spc[r] = "fresh" /\ sev[r] \in StartEvents
      /\ UNCHANGED <<dbVars, redisVars, mem, sent, answers, chosen>>
  BY DEF FreshStart
<1>2. SlotTypes' /\ Others(r) /\ Goes(r, "route") /\ scid'[r] = scid[r] /\ gone' = gone
  BY MoveEffect DEF FreshStart, DeliveryInv, Label, AtApi
<1>3. SlotOk(r)' /\ CallOk(r)'
  BY <1>1, <1>2 DEF DeliveryInv, Goes, SlotOk, CallOk, Winner, OfStart, OfEnd, HasCall,
                    AtGateway, dbVars, chosen
<1>4. StaysWinner(r) /\ OwnsCall(r)
  BY <1>1, <1>2 DEF Goes, StaysWinner, OwnsCall, Winner
<1>5. LeavesCalls(r)
  BY <1>1, <1>2, KeepsCalls DEF redisVars
<1> QED BY <1>1, <1>2, <1>3, <1>4, <1>5, QuietStep DEF DeliveryInv, TypeOK

LEMMA StartSessionStep ==
  ASSUME DeliveryInv, NEW r \in Slot, StartSession(r)
  PROVE  DeliveryInv'
<1>1. /\ spc[r] = "created" /\ scid[r] \in CallId /\ owner[scid[r]] = sp[r] /\ sp[r] \in PCall
      /\ mem' = mem \union {scid[r]}
      /\ redis' = redis \/ redis' = redis \union {scid[r]}
      /\ mapping' = mapping \/ mapping' = [mapping EXCEPT ![sp[r]] = scid[r]]
      /\ UNCHANGED <<recorded, owner, cstatus, sent, scenario, said>>
  BY EventsTyped DEF StartSession, dbVars, chosen, DeliveryInv, SlotOk, CallOk, HasCall
<1>2. /\ answers' \subseteq PCall \X Event \X
           {"duplicate", "session_started", "session_cleaned", "ignored"}
      /\ Release({r})
  BY <1>1, AnswerTyped DEF StartSession
<1>3. SlotTypes' /\ Others(r) /\ Freed(r)
  BY <1>2, ReleaseEffect DEF DeliveryInv
<1>4. mapping' \in [PCall -> CallId \union {NoCall}]
  BY <1>1 DEF DeliveryInv, TypeOK
<1>5. \A p \in PCall : mapping'[p] = mapping[p] \/ (p = sp[r] /\ mapping'[p] = scid[r])
  BY <1>1 DEF DeliveryInv, TypeOK
<1>6. LeavesCalls(r)
  BY <1>3, <1>5, KeepsCalls DEF Freed
<1>7. RowChange(r)
  BY <1>1 DEF RowChange, chosen
<1>8. TypeOK'
  BY <1>1, <1>2, <1>3, <1>4 DEF DeliveryInv, TypeOK, SlotTypes, Label
<1>9. RowsOk'
  BY <1>1 DEF DeliveryInv, RowsOk
<1>10. SessionsHaveCalls'
  BY <1>1, <1>5, NoIdsFresh DEF DeliveryInv, SessionsHaveCalls
<1> QED BY <1>3, <1>6, <1>7, <1>8, <1>9, <1>10, FreedOk, OthersKeep DEF DeliveryInv

LEMMA FreshEndStep ==
  ASSUME DeliveryInv, NEW r \in Slot, FreshEnd(r)
  PROVE  DeliveryInv'
<1>1. /\ spc[r] = "fresh" /\ sev[r] \in EndEvents /\ sp[r] \in PCall
      /\ UNCHANGED <<dbVars, redisVars, mem, sent, chosen>>
  BY EventsTyped DEF FreshEnd, DeliveryInv, SlotOk
<1>2. CASE Answer2xx(r, "ignored")
  BY <1>1, <1>2, AnswerTyped, FreeStep
<1>3. CASE /\ mapping[sp[r]] # NoCall
           /\ spc' = [spc EXCEPT ![r] = "finalize"]
           /\ scid' = [scid EXCEPT ![r] = mapping[sp[r]]]
           /\ UNCHANGED <<sp, sev, gone, answers>>
  <2>1. /\ mapping[sp[r]] \in CallId /\ owner[mapping[sp[r]]] = sp[r]
    BY <1>1, <1>3 DEF DeliveryInv, TypeOK, SessionsHaveCalls
  <2>2. SlotTypes' /\ Others(r)
    BY <1>3, <2>1 DEF DeliveryInv, TypeOK, SlotTypes, Label, AtApi, Others
  <2>3. spc'[r] = "finalize" /\ sp'[r] = sp[r] /\ sev'[r] = sev[r] /\ scid'[r] = mapping[sp[r]]
    BY <1>3 DEF DeliveryInv, TypeOK
  <2>4. SlotOk(r)' /\ CallOk(r)'
    BY <1>1, <1>3, <2>1, <2>3 DEF DeliveryInv, SlotOk, CallOk, Winner, OfStart, OfEnd, HasCall,
                                  AtGateway, dbVars, chosen
  <2>5. StaysWinner(r) /\ OwnsCall(r)
    BY <1>1, <2>3 DEF StaysWinner, OwnsCall, Winner
  <2>6. LeavesCalls(r)
    BY <1>1, <2>3 DEF LeavesCalls, DeliveryInv, OwnCall, redisVars
  <2> QED BY <1>1, <1>3, <2>2, <2>4, <2>5, <2>6, QuietStep DEF DeliveryInv, TypeOK
<1> QED BY <1>2, <1>3 DEF FreshEnd

LEMMA CheckStep ==
  ASSUME DeliveryInv, NEW r \in Slot, FinalizeCheck(r)
  PROVE  DeliveryInv'
<1>1. /\ spc[r] = "finalize" /\ scid[r] \in CallId /\ owner[scid[r]] = sp[r] /\ sp[r] \in PCall
      /\ UNCHANGED <<dbVars, redisVars, mem, sent, answers, chosen>>
  BY EventsTyped DEF FinalizeCheck, DeliveryInv, SlotOk, CallOk, HasCall, OfEnd
<1>2. cstatus[scid[r]] \in {"active", "completed", "failed"}
  BY <1>1, NoIdsFresh DEF DeliveryInv, RowsOk, TypeOK
<1>3. CASE cstatus[scid[r]] = "active"
  <2>1. SlotTypes' /\ Others(r) /\ Goes(r, "write") /\ scid'[r] = scid[r] /\ gone' = gone
    BY <1>3, MoveEffect DEF FinalizeCheck, DeliveryInv, Label, AtApi
  <2>2. SlotOk(r)' /\ CallOk(r)'
    BY <1>1, <2>1 DEF DeliveryInv, Goes, SlotOk, CallOk, Winner, OfStart, OfEnd, HasCall,
                      AtGateway, dbVars, chosen
  <2>3. StaysWinner(r) /\ OwnsCall(r) /\ LeavesCalls(r)
    BY <1>1, <2>1, KeepsCalls DEF Goes, StaysWinner, OwnsCall, Winner, redisVars
  <2> QED BY <1>1, <2>1, <2>2, <2>3, QuietStep DEF DeliveryInv, TypeOK
<1>4. CASE Ended(scid[r]) /\ Answered(r, "finalized")
  <2>1. /\ SlotTypes' /\ Others(r)
        /\ Freed(r) \/ (Goes(r, "finalized") /\ scid'[r] = scid[r] /\ r \notin gone')
    BY <1>4, AnsweredEffect DEF DeliveryInv, Label, AtGateway
  <2>2. LeavesCalls(r)
    BY <1>1, <2>1, KeepsCalls DEF Freed, redisVars
  <2>3. CASE Freed(r)
    BY <1>1, <2>1, <2>2, <2>3, FreedOk, QuietStep DEF DeliveryInv, TypeOK
  <2>4. CASE Goes(r, "finalized") /\ scid'[r] = scid[r] /\ r \notin gone'
    <3>1. SlotOk(r)' /\ CallOk(r)'
      BY <1>1, <1>4, <2>4 DEF DeliveryInv, Goes, SlotOk, CallOk, Ended, Winner, OfStart, OfEnd,
                              HasCall, dbVars, chosen
    <3>2. StaysWinner(r) /\ OwnsCall(r)
      BY <1>1, <2>4 DEF Goes, StaysWinner, OwnsCall, Winner
    <3> QED BY <1>1, <2>1, <2>2, <3>1, <3>2, QuietStep DEF DeliveryInv, TypeOK
  <2> QED BY <2>1, <2>3, <2>4
<1> QED BY <1>2, <1>3, <1>4 DEF FinalizeCheck, Ended

\* What finalize_call writes for the event of a delivery.
Outcome(r) == FinalStatus[ReasonFor(sev[r], said[<<sp[r], sev[r]>>])]

LEMMA WriteEffect ==
  ASSUME DeliveryInv, NEW r \in Slot, FinalizeWrite(r)
  PROVE  /\ spc[r] = "write" /\ scid[r] \in CallId /\ owner[scid[r]] = sp[r] /\ sp[r] \in PCall
         /\ <<sp[r], sev[r]>> \in recorded /\ sev[r] \in EndEvents
         /\ Outcome(r) \in {"completed", "failed"}
         /\ cstatus' = [cstatus EXCEPT ![scid[r]] = Outcome(r)]
         /\ UNCHANGED <<recorded, owner, mapping, redis, mem, sent, answers, scenario, said>>
<1>1. Outcome(r) \in {"completed", "failed"}
  BY DEF Outcome, FinalStatus, ReasonFor
<1> QED BY <1>1, EventsTyped DEF FinalizeWrite, Outcome, redisVars, chosen, DeliveryInv, SlotOk,
                                 CallOk, HasCall, OfEnd, Winner

LEMMA WriteStep ==
  ASSUME DeliveryInv, NEW r \in Slot, FinalizeWrite(r)
  PROVE  DeliveryInv'
<1>1. /\ spc[r] = "write" /\ scid[r] \in CallId /\ owner[scid[r]] = sp[r] /\ sp[r] \in PCall
      /\ Outcome(r) \in {"completed", "failed"}
      /\ cstatus' = [cstatus EXCEPT ![scid[r]] = Outcome(r)]
      /\ UNCHANGED <<recorded, owner, mapping, redis, mem, sent, answers, scenario, said>>
  BY WriteEffect
<1>2. \A c \in CallId : cstatus'[c] = IF c = scid[r] THEN Outcome(r) ELSE cstatus[c]
  BY <1>1 DEF DeliveryInv, TypeOK
<1>3. /\ SlotTypes' /\ Others(r)
      /\ Freed(r) \/ (Goes(r, "finalized") /\ scid'[r] = scid[r] /\ r \notin gone')
  BY AnsweredEffect DEF FinalizeWrite, DeliveryInv, Label, AtGateway
<1>4. SlotOk(r)' /\ CallOk(r)' /\ StaysWinner(r) /\ OwnsCall(r)
  <2>1. CASE Freed(r)
    BY <2>1, FreedOk
  <2>2. CASE Goes(r, "finalized") /\ scid'[r] = scid[r] /\ r \notin gone'
    <3>1. SlotOk(r)' /\ CallOk(r)'
      BY <1>1, <1>2, <2>2 DEF DeliveryInv, Goes, SlotOk, CallOk, Ended, Winner, OfStart, OfEnd,
                              HasCall
    <3>2. StaysWinner(r) /\ OwnsCall(r)
      BY <1>1, <2>2 DEF Goes, StaysWinner, OwnsCall, Winner
    <3> QED BY <3>1, <3>2
  <2> QED BY <1>3, <2>1, <2>2
<1>5. LeavesCalls(r)
  BY <1>1, <1>3, KeepsCalls DEF Freed
<1>6. RowChange(r)
  BY <1>1, <1>2 DEF RowChange, chosen, Ended
<1>7. TypeOK'
  BY <1>1, <1>3 DEF DeliveryInv, TypeOK, SlotTypes, Label
<1>8. RowsOk' /\ SessionsHaveCalls'
  BY <1>1, <1>2, NoIdsFresh DEF DeliveryInv, RowsOk, SessionsHaveCalls
<1> QED BY <1>3, <1>4, <1>5, <1>6, <1>7, <1>8, OthersKeep DEF DeliveryInv

LEMMA CleanUpStep ==
  ASSUME DeliveryInv, NEW r \in Slot, CleanUp(r)
  PROVE  DeliveryInv'
<1>1. /\ spc[r] = "finalized" /\ sp[r] \in PCall
      /\ mem' \subseteq mem /\ redis' \subseteq redis
      /\ mapping' = mapping \/ mapping' = [mapping EXCEPT ![sp[r]] = NoCall]
      /\ UNCHANGED <<recorded, owner, cstatus, sent, scenario, said>>
  BY EventsTyped DEF CleanUp, dbVars, chosen, DeliveryInv, SlotOk
<1>2. /\ answers' \subseteq PCall \X Event \X
           {"duplicate", "session_started", "session_cleaned", "ignored"}
      /\ Release({r})
  BY <1>1, AnswerTyped DEF CleanUp
<1>3. SlotTypes' /\ Others(r) /\ Freed(r)
  BY <1>2, ReleaseEffect DEF DeliveryInv
<1>4. /\ mapping' \in [PCall -> CallId \union {NoCall}]
      /\ \A p \in PCall : mapping'[p] \in {mapping[p], NoCall}
  BY <1>1 DEF DeliveryInv, TypeOK
<1>5. LeavesCalls(r)
  BY <1>3, <1>4, KeepsCalls DEF Freed
<1>6. RowChange(r)
  BY <1>1 DEF RowChange, chosen
<1>7. TypeOK'
  BY <1>1, <1>2, <1>3, <1>4 DEF DeliveryInv, TypeOK, SlotTypes, Label
<1>8. RowsOk' /\ SessionsHaveCalls'
  BY <1>1, <1>4 DEF DeliveryInv, RowsOk, SessionsHaveCalls
<1> QED BY <1>3, <1>5, <1>6, <1>7, <1>8, FreedOk, OthersKeep DEF DeliveryInv

\* A request that the gateway has given up goes on at the API.
LEMMA ReplyLostStep ==
  ASSUME DeliveryInv, NEW r \in Slot, ReplyLost(r)
  PROVE  DeliveryInv'
<1>1. /\ UNCHANGED <<dbVars, redisVars, mem, sent, answers, chosen>>
  BY DEF ReplyLost
<1>2. CASE Release({r})
  BY <1>1, <1>2, FreeStep DEF DeliveryInv, TypeOK
<1>3. CASE spc[r] \in AtApi /\ gone' = gone \union {r} /\ UNCHANGED <<spc, sp, sev, scid>>
  <2>1. SlotTypes' /\ Others(r)
    BY <1>3 DEF DeliveryInv, TypeOK, SlotTypes, Label, Others
  <2>2. SlotOk(r)' /\ CallOk(r)'
    BY <1>1, <1>3 DEF DeliveryInv, SlotOk, CallOk, Ended, AtApi, AtGateway, dbVars, chosen
  <2>3. StaysWinner(r) /\ OwnsCall(r) /\ LeavesCalls(r)
    BY <1>1, <1>3, KeepsCalls DEF StaysWinner, OwnsCall, DeliveryInv, OwnCall, redisVars
  <2> QED BY <1>1, <1>3, <2>1, <2>2, <2>3, QuietStep DEF DeliveryInv, TypeOK
<1> QED BY <1>2, <1>3 DEF ReplyLost

\* What a restart leaves of a slot.
LEMMA CrashEffect ==
  ASSUME DeliveryInv, Crash
  PROVE  /\ SlotTypes' /\ mem' = {}
         /\ UNCHANGED <<dbVars, redisVars, sent, answers, chosen>>
         /\ \A s \in Slot : \/ Freed(s)
                             \/ /\ spc'[s] = spc[s] /\ sp'[s] = sp[s] /\ sev'[s] = sev[s]
                                /\ scid'[s] = scid[s] /\ spc[s] \notin AtGateway
                                /\ s \in gone' => spc[s] \in AtApi
BY DEF Crash, DeliveryInv, TypeOK, SlotTypes, Label, AtApi, AtGateway, Freed

LEMMA CrashStep ==
  ASSUME DeliveryInv, Crash
  PROVE  DeliveryInv'
<1>1. /\ SlotTypes' /\ mem' = {}
      /\ UNCHANGED <<recorded, owner, cstatus, mapping, redis, sent, answers, scenario, said>>
  BY CrashEffect DEF dbVars, redisVars, chosen
<1>2. \A s \in Slot : \/ Freed(s)
                      \/ /\ spc'[s] = spc[s] /\ sp'[s] = sp[s] /\ sev'[s] = sev[s]
                         /\ scid'[s] = scid[s] /\ spc[s] \notin AtGateway
                         /\ s \in gone' => spc[s] \in AtApi
  BY CrashEffect
<1>3. TypeOK'
  BY <1>1 DEF DeliveryInv, TypeOK, SlotTypes, Label
<1>4. ASSUME NEW s \in Slot PROVE SlotOk(s)' /\ CallOk(s)'
  <2>1. CASE Freed(s)
    BY <2>1, FreedOk
  <2>2. CASE ~Freed(s)
    BY <1>1, <1>2, <2>2 DEF DeliveryInv, SlotOk, CallOk, Ended, AtApi, AtGateway
  <2> QED BY <2>1, <2>2
<1>5. \A s \in Slot : spc'[s] # "free" =>
        /\ spc'[s] = spc[s] /\ sp'[s] = sp[s] /\ sev'[s] = sev[s] /\ scid'[s] = scid[s]
  BY <1>2 DEF Freed
<1>6. OneWinner'
  <2>1. "free" \notin Winner
    BY DEF Winner
  <2> QED BY <1>5, <2>1 DEF DeliveryInv, OneWinner
<1>7. OwnCall'
  <2>1. \A s \in Slot : scid'[s] \in {scid[s], NoCall}
    BY <1>2 DEF Freed
  <2>2. \A s \in Slot : spc[s] \in {"create", "created"} => scid[s] # NoCall
    BY NoIdsFresh DEF DeliveryInv, SlotOk, HasCall
  <2> QED BY <1>1, <1>5, <2>1, <2>2 DEF DeliveryInv, OwnCall
<1>8. RowsOk' /\ SessionsHaveCalls'
  BY <1>1 DEF DeliveryInv, RowsOk, SessionsHaveCalls
<1> QED BY <1>3, <1>4, <1>6, <1>7, <1>8 DEF DeliveryInv

LEMMA ForgetStep ==
  ASSUME DeliveryInv, RedisForgets
  PROVE  DeliveryInv'
<1>1. /\ redis' \subseteq redis /\ mapping' \in [PCall -> CallId \union {NoCall}]
      /\ \A p \in PCall : mapping'[p] \in {mapping[p], NoCall}
      /\ UNCHANGED <<recorded, owner, cstatus, mem, spc, sp, sev, scid, gone, sent, answers,
                     scenario, said>>
  BY DEF RedisForgets, dbVars, slotVars, chosen, DeliveryInv, TypeOK
<1>2. TypeOK' /\ \A s \in Slot : SlotOk(s)' /\ CallOk(s)'
  BY <1>1 DEF DeliveryInv, TypeOK, SlotOk, CallOk, Ended
<1>3. OneWinner' /\ RowsOk' /\ SessionsHaveCalls'
  BY <1>1 DEF DeliveryInv, OneWinner, RowsOk, SessionsHaveCalls
<1>4. OwnCall'
  <2>1. \A s \in Slot : spc[s] \in {"create", "created"} => scid[s] # NoCall
    BY NoIdsFresh DEF DeliveryInv, SlotOk, HasCall
  <2> QED BY <1>1, <2>1 DEF DeliveryInv, OwnCall
<1> QED BY <1>2, <1>3, <1>4 DEF DeliveryInv

LEMMA StutterStep ==
  ASSUME DeliveryInv, UNCHANGED vars
  PROVE  DeliveryInv'
<1>1. TypeOK' /\ \A s \in Slot : SlotOk(s)' /\ CallOk(s)'
  BY DEF vars, DeliveryInv, TypeOK, SlotOk, CallOk, Ended
<1>2. OneWinner' /\ OwnCall' /\ RowsOk' /\ SessionsHaveCalls'
  BY DEF vars, DeliveryInv, OneWinner, OwnCall, RowsOk, SessionsHaveCalls
<1> QED BY <1>1, <1>2 DEF DeliveryInv

LEMMA DeliveryStep == DeliveryInv /\ [Next]_vars => DeliveryInv'
<1> SUFFICES ASSUME DeliveryInv, [Next]_vars PROVE DeliveryInv'
  OBVIOUS
<1>1. ASSUME NEW r \in Slot, AnswerDuplicate(r) \/ IgnoreOther(r) PROVE DeliveryInv'
  BY <1>1, AnswerTyped, FreeStep DEF AnswerDuplicate, IgnoreOther
<1>2. ASSUME NEW r \in Slot, ApiError(r) \/ DuplicateUnseen(r) PROVE DeliveryInv'
  BY <1>2, FreeStep DEF ApiError, DuplicateUnseen, DeliveryInv, TypeOK
<1> QED
  BY <1>1, <1>2, WebhookStep, RecordStep, ResolveStep, CreateStep, FreshStartStep,
     StartSessionStep, FreshEndStep, CheckStep, WriteStep, CleanUpStep, ReplyLostStep,
     CrashStep, ForgetStep, StutterStep
  DEF Next, GatewayStep, ApiStep

LEMMA DeliveryInit == Init => DeliveryInv
<1> SUFFICES ASSUME Init PROVE DeliveryInv
  OBVIOUS
<1>1. TypeOK
  BY DEF Init, TypeOK
<1>2. \A s \in Slot : SlotOk(s) /\ CallOk(s)
  BY DEF Init, SlotOk, CallOk, Winner, OfStart, OfEnd, HasCall, AtGateway
<1>3. OneWinner /\ OwnCall
  BY DEF Init, OneWinner, OwnCall, Winner
<1>4. RowsOk /\ SessionsHaveCalls
  BY DEF Init, RowsOk, SessionsHaveCalls
<1> QED BY <1>1, <1>2, <1>3, <1>4 DEF DeliveryInv

\* callback(): whatever is delivered, retried, lost or crashed, each delivery
\* finds at its next await the rows it relies on; an event is carried out by
\* one delivery and a call id belongs to one until its session is started.
THEOREM DeliveryInvariant == Spec => []DeliveryInv
BY DeliveryInit, DeliveryStep, PTL DEF Spec

\* The webhook, the API calls it makes and both stores keep their types.
THEOREM GatewayTyped == Spec => []TypeOK
<1>1. DeliveryInv => TypeOK
  BY DEF DeliveryInv
<1> QED BY <1>1, DeliveryInvariant, PTL

\* A session or a mapping never outruns its calls row, and a mapping leads to
\* a call of its own caller: create_call commits before CallStore.set.
THEOREM SessionsAlwaysHaveCalls == Spec => []SessionsHaveCalls
<1>1. DeliveryInv => SessionsHaveCalls
  BY DEF DeliveryInv
<1> QED BY <1>1, DeliveryInvariant, PTL

-----------------------------------------------------------------------------
(* Which steps touch rows, sessions and promises.                          *)

\* Nothing that Exotel was promised, and no session, is new.
Silent ==
  /\ UNCHANGED redisVars /\ mem' \subseteq mem
  /\ answers \subseteq answers'
  /\ \A p \in PCall, e \in Event, status \in {"session_started", "session_cleaned"} :
       <<p, e, status>> \in answers' => <<p, e, status>> \in answers

LEMMA StepKinds ==
  ASSUME DeliveryInv, [Next]_vars
  PROVE  /\ UNCHANGED chosen /\ recorded \subseteq recorded'
         /\ \/ UNCHANGED <<owner, cstatus>>
            \/ \E r \in Slot : CreateCall(r) \/ FinalizeWrite(r)
         /\ \/ Silent
            \/ \E r \in Slot : StartSession(r) \/ CleanUp(r)
            \/ RedisForgets
<1>1. ASSUME NEW r \in Slot, NEW p \in PCall, NEW e \in Event, Webhook(r, p, e)
      PROVE  UNCHANGED <<chosen, dbVars>> /\ Silent
  BY <1>1 DEF Webhook, Silent
<1>2. ASSUME NEW r \in Slot, AnswerDuplicate(r) \/ IgnoreOther(r)
      PROVE  UNCHANGED <<chosen, dbVars>> /\ Silent
  BY <1>2 DEF AnswerDuplicate, IgnoreOther, Answer2xx, Silent
<1>3. ASSUME NEW r \in Slot, FreshStart(r) \/ ResolveRoute(r) \/ FinalizeCheck(r)
                             \/ DuplicateUnseen(r) \/ ApiError(r) \/ ReplyLost(r)
      PROVE  UNCHANGED <<chosen, dbVars>> /\ Silent
  BY <1>3 DEF FreshStart, ResolveRoute, FinalizeCheck, DuplicateUnseen, ApiError, ReplyLost,
              Silent
<1>4. ASSUME NEW r \in Slot, FreshEnd(r)
      PROVE  UNCHANGED <<chosen, dbVars>> /\ Silent
  BY <1>4 DEF FreshEnd, Answer2xx, Silent
<1>5. ASSUME NEW r \in Slot, RecordEvent(r)
      PROVE  UNCHANGED <<chosen, owner, cstatus>> /\ recorded \subseteq recorded' /\ Silent
  BY <1>5 DEF RecordEvent, Silent
<1>6. ASSUME NEW r \in Slot, CreateCall(r) \/ FinalizeWrite(r)
      PROVE  UNCHANGED <<chosen, recorded>> /\ Silent
  BY <1>6 DEF CreateCall, FinalizeWrite, Silent
<1>7. ASSUME NEW r \in Slot, StartSession(r) \/ CleanUp(r)
      PROVE  UNCHANGED <<chosen, dbVars>>
  BY <1>7 DEF StartSession, CleanUp
<1>8. ASSUME Crash PROVE UNCHANGED <<chosen, dbVars>> /\ Silent
  BY <1>8 DEF Crash, Silent
<1>9. ASSUME RedisForgets PROVE UNCHANGED <<chosen, dbVars>>
  BY <1>9 DEF RedisForgets
<1>10. ASSUME UNCHANGED vars PROVE UNCHANGED <<chosen, dbVars>> /\ Silent
  BY <1>10 DEF vars, chosen, dbVars, redisVars, Silent
<1>11. UNCHANGED dbVars => UNCHANGED <<owner, cstatus, recorded>>
  BY DEF dbVars
<1>12. CASE \E r \in Slot : StartSession(r) \/ CleanUp(r)
  BY <1>7, <1>11, <1>12
<1>13. CASE \E r \in Slot : CreateCall(r) \/ FinalizeWrite(r)
  BY <1>6, <1>13
<1> QED BY <1>1, <1>2, <1>3, <1>4, <1>5, <1>8, <1>9, <1>10, <1>11, <1>12, <1>13
        DEF Next, GatewayStep, ApiStep

-----------------------------------------------------------------------------
(* The status of an ended call.                                            *)

LEMMA ReportedStep ==
  DeliveryInv /\ CallEndsAsReported /\ [Next]_vars => CallEndsAsReported'
<1> SUFFICES ASSUME DeliveryInv, CallEndsAsReported, [Next]_vars, NEW c \in CallId, Ended(c)'
             PROVE  \E e \in EndEvents :
                      /\ <<owner'[c], e>> \in recorded' \intersect EndsIn(scenario')
                      /\ cstatus'[c] = FinalStatus[ReasonFor(e, said'[<<owner'[c], e>>])]
  BY DEF CallEndsAsReported
<1>1. scenario' = scenario /\ said' = said /\ recorded \subseteq recorded'
  BY StepKinds DEF chosen
<1>2. CASE owner'[c] = owner[c] /\ cstatus'[c] = cstatus[c]
  <2>1. PICK e \in EndEvents : /\ <<owner[c], e>> \in recorded \intersect EndsIn(scenario)
                               /\ cstatus[c] = FinalStatus[ReasonFor(e, said[<<owner[c], e>>])]
    BY <1>2 DEF CallEndsAsReported, Ended
  <2> QED BY <1>1, <1>2, <2>1
<1>3. ASSUME NEW r \in Slot, CreateCall(r)
      PROVE  owner'[c] = owner[c] /\ cstatus'[c] = cstatus[c]
  <2>1. c # scid[r]
    BY <1>3 DEF CreateCall, DeliveryInv, TypeOK, Ended
  <2> QED BY <1>3, <2>1 DEF CreateCall, DeliveryInv, TypeOK
<1>4. ASSUME NEW r \in Slot, FinalizeWrite(r), c = scid[r]
      PROVE  \E e \in EndEvents :
               /\ <<owner'[c], e>> \in recorded' \intersect EndsIn(scenario')
               /\ cstatus'[c] = FinalStatus[ReasonFor(e, said'[<<owner'[c], e>>])]
  <2>1. /\ owner[c] = sp[r] /\ <<sp[r], sev[r]>> \in recorded /\ sev[r] \in EndEvents
        /\ cstatus' = [cstatus EXCEPT ![scid[r]] = Outcome(r)] /\ owner' = owner
    BY <1>4, WriteEffect
  <2>2. cstatus'[c] = Outcome(r) /\ owner'[c] = sp[r]
    BY <1>4, <2>1 DEF DeliveryInv, TypeOK
  <2>3. <<sp[r], sev[r]>> \in EndsIn(scenario)
    BY <2>1 DEF DeliveryInv, RowsOk, EndsIn
  <2> QED BY <1>1, <2>1, <2>2, <2>3 DEF Outcome
<1>5. ASSUME NEW r \in Slot, FinalizeWrite(r), c # scid[r]
      PROVE  owner'[c] = owner[c] /\ cstatus'[c] = cstatus[c]
  BY <1>5, WriteEffect DEF DeliveryInv, TypeOK
<1> QED BY <1>2, <1>3, <1>4, <1>5, StepKinds

\* finalize_call: the status of an ended call is the one Exotel reported for
\* that very call, even when two end events of a call pass the ended_at check
\* together, the replies get lost and the gateway restarts.
THEOREM CallsEndAsReported == Spec => []CallEndsAsReported
<1>1. Init => CallEndsAsReported
  BY DEF Init, CallEndsAsReported, Ended
<1> QED BY <1>1, DeliveryInit, DeliveryStep, ReportedStep, PTL DEF Spec

-----------------------------------------------------------------------------
(* The promise of CallStore.                                               *)

\* While Redis keeps its data, what a session step does to the mapping.
LEMMA StartMaps ==
  ASSUME DeliveryInv, RedisKeeps, NEW r \in Slot, StartSession(r)
  PROVE  /\ mapping' = [mapping EXCEPT ![sp[r]] = scid[r]]
         /\ mem' = mem \union {scid[r]} /\ redis' = redis \union {scid[r]}
         /\ spc[r] = "created" /\ scid[r] \in CallId /\ owner[scid[r]] = sp[r]
         /\ sp[r] \in PCall /\ cstatus[scid[r]] = "active"
         /\ answers' = answers \union {<<sp[r], sev[r], "session_started">>}
         /\ UNCHANGED <<owner, cstatus>>
<1>1. RedisOk = {TRUE}
  BY DEF RedisOk, RedisKeeps
<1> QED BY <1>1, EventsTyped DEF StartSession, Answer2xx, dbVars, DeliveryInv, SlotOk, CallOk,
                                 HasCall

LEMMA CleanUnmaps ==
  ASSUME DeliveryInv, RedisKeeps, NEW r \in Slot, CleanUp(r)
  PROVE  /\ mapping' = [mapping EXCEPT ![sp[r]] = NoCall]
         /\ mem' = mem \ {scid[r]} /\ redis' = redis \ {scid[r]}
         /\ spc[r] = "finalized" /\ scid[r] \in CallId /\ owner[scid[r]] = sp[r]
         /\ sp[r] \in PCall /\ Ended(scid[r]) /\ EndRecorded(sp[r])
         /\ answers' = answers \union {<<sp[r], sev[r], "session_cleaned">>}
         /\ UNCHANGED <<owner, cstatus>>
<1>1. RedisOk = {TRUE}
  BY DEF RedisOk, RedisKeeps
<1>2. /\ spc[r] = "finalized" /\ sev[r] \in EndEvents /\ <<sp[r], sev[r]>> \in recorded
      /\ scid[r] \in CallId /\ owner[scid[r]] = sp[r] /\ Ended(scid[r])
  BY DEF CleanUp, DeliveryInv, SlotOk, CallOk, HasCall, OfEnd, Winner
<1>3. EndRecorded(sp[r]) /\ sp[r] \in PCall
  BY <1>2 DEF EndRecorded, DeliveryInv, TypeOK
<1> QED BY <1>1, <1>2, <1>3 DEF CleanUp, Answer2xx, dbVars

LEMMA FindableStep ==
  DeliveryInv /\ AckedCallIsFindable /\ [Next]_vars => AckedCallIsFindable'
<1> SUFFICES ASSUME DeliveryInv, AckedCallIsFindable, [Next]_vars, NEW p \in PCall,
                    RedisKeeps', Told(p, "session_started")', ~EndRecorded(p)'
             PROVE  mapping'[p] # NoCall /\ cstatus'[mapping'[p]] = "active"
  BY DEF AckedCallIsFindable
<1>1. scenario' = scenario /\ recorded \subseteq recorded'
  BY StepKinds DEF chosen
<1>2. RedisKeeps /\ ~EndRecorded(p)
  BY <1>1 DEF RedisKeeps, EndRecorded
<1>3. Told(p, "session_started") => mapping[p] \in CallId /\ cstatus[mapping[p]] = "active"
  BY <1>2 DEF AckedCallIsFindable, DeliveryInv, TypeOK
<1>4. ASSUME Silent PROVE mapping'[p] = mapping[p] /\ Told(p, "session_started")
  BY <1>4 DEF Silent, Told, redisVars
<1>5. ASSUME NEW r \in Slot, StartSession(r)
      PROVE  \/ mapping'[p] = mapping[p] /\ Told(p, "session_started")
             \/ mapping'[p] \in CallId /\ cstatus'[mapping'[p]] = "active"
  <2>1. CASE p = sp[r]
    BY <1>2, <1>5, <2>1, StartMaps DEF DeliveryInv, TypeOK
  <2>2. CASE p # sp[r]
    BY <1>2, <1>5, <2>2, StartMaps DEF DeliveryInv, TypeOK, Told
  <2> QED BY <2>1, <2>2
<1>6. ASSUME NEW r \in Slot, CleanUp(r)
      PROVE  mapping'[p] = mapping[p] /\ Told(p, "session_started")
  <2>1. p # sp[r]
    BY <1>2, <1>6, CleanUnmaps
  <2> QED BY <1>2, <1>6, <2>1, CleanUnmaps DEF DeliveryInv, TypeOK, Told
<1>7. ~RedisForgets
  BY <1>2 DEF RedisForgets, RedisKeeps
<1>8. ASSUME NEW r \in Slot, CreateCall(r), mapping[p] \in CallId
      PROVE  cstatus'[mapping[p]] = cstatus[mapping[p]]
  <2>1. mapping[p] # scid[r]
    BY <1>8 DEF CreateCall, DeliveryInv, OwnCall
  <2> QED BY <1>8, <2>1 DEF CreateCall, DeliveryInv, TypeOK
<1>9. ASSUME NEW r \in Slot, FinalizeWrite(r), mapping[p] \in CallId
      PROVE  cstatus'[mapping[p]] = cstatus[mapping[p]]
  <2>1. EndRecorded(sp[r]) /\ owner[scid[r]] = sp[r]
    BY <1>9, WriteEffect DEF EndRecorded
  <2>2. owner[mapping[p]] = p
    BY <1>9, NoIdsFresh DEF DeliveryInv, SessionsHaveCalls
  <2>3. mapping[p] # scid[r]
    BY <1>2, <2>1, <2>2
  <2> QED BY <1>9, <2>3, WriteEffect DEF DeliveryInv, TypeOK
<1>10. \/ mapping'[p] = mapping[p] /\ Told(p, "session_started")
       \/ mapping'[p] \in CallId /\ cstatus'[mapping'[p]] = "active"
  BY <1>4, <1>5, <1>6, <1>7, StepKinds
<1>11. mapping[p] \in CallId => cstatus'[mapping[p]] = cstatus[mapping[p]]
  BY <1>8, <1>9, StepKinds
<1> QED BY <1>3, <1>10, <1>11, NoIdsFresh

\* CallStore: once Exotel was told session_started the end event will find the
\* call, still active, until an end event is recorded. Crashes, lost replies and
\* parallel deliveries do not break the promise while Redis keeps its data.
THEOREM AckedCallsStayFindable == Spec => []AckedCallIsFindable
<1>1. Init => AckedCallIsFindable
  BY DEF Init, AckedCallIsFindable, Told
<1> QED BY <1>1, DeliveryInit, DeliveryStep, FindableStep, PTL DEF Spec

-----------------------------------------------------------------------------
(* One call per start event.                                               *)

\* A delivery that is about to create a call was so before, or its INSERT
\* has just won.
LEMMA PendingStep ==
  ASSUME DeliveryInv, [Next]_vars, NEW s \in Slot, spc'[s] \in Pending
  PROVE  /\ sp'[s] = sp[s] /\ sev'[s] = sev[s]
         /\ spc[s] \in Pending \/ <<sp[s], sev[s]>> \notin recorded
<1>0. TypeOK
  BY DEF DeliveryInv
<1>1. ASSUME NEW r \in Slot, Release({r})
      PROVE  spc'[s] = spc[s] /\ sp'[s] = sp[s] /\ sev'[s] = sev[s]
  BY <1>1 DEF Release, Pending
<1>2. ASSUME NEW r \in Slot, NEW pc, MoveTo(r, pc)
      PROVE  /\ sp'[s] = sp[s] /\ sev'[s] = sev[s]
             /\ spc'[s] = spc[s] \/ (s = r /\ spc'[s] = pc)
  BY <1>0, <1>2 DEF MoveTo, TypeOK
<1>3. ASSUME NEW r \in Slot, NEW p \in PCall, NEW e \in Event, Webhook(r, p, e)
      PROVE  spc'[s] = spc[s] /\ sp'[s] = sp[s] /\ sev'[s] = sev[s]
  BY <1>0, <1>3 DEF Webhook, TypeOK, Pending
<1>4. ASSUME NEW r \in Slot, \/ AnswerDuplicate(r) \/ IgnoreOther(r) \/ StartSession(r)
                             \/ CleanUp(r) \/ DuplicateUnseen(r) \/ ApiError(r)
      PROVE  spc'[s] = spc[s] /\ sp'[s] = sp[s] /\ sev'[s] = sev[s]
  BY <1>1, <1>4 DEF AnswerDuplicate, IgnoreOther, StartSession, CleanUp, DuplicateUnseen,
                    ApiError, Answer2xx
<1>5. ASSUME NEW r \in Slot, FreshStart(r)
      PROVE  /\ sp'[s] = sp[s] /\ sev'[s] = sev[s] /\ spc[s] \in Pending
  BY <1>2, <1>5 DEF FreshStart, Pending
<1>6. ASSUME NEW r \in Slot, FreshEnd(r)
      PROVE  spc'[s] = spc[s] /\ sp'[s] = sp[s] /\ sev'[s] = sev[s]
  BY <1>0, <1>1, <1>6 DEF FreshEnd, Answer2xx, TypeOK, Pending
<1>7. ASSUME NEW r \in Slot, RecordEvent(r)
      PROVE  /\ sp'[s] = sp[s] /\ sev'[s] = sev[s]
             /\ spc[s] \in Pending \/ <<sp[s], sev[s]>> \notin recorded
  BY <1>1, <1>2, <1>7 DEF RecordEvent, Answered, Pending
<1>8. ASSUME NEW r \in Slot, ResolveRoute(r)
      PROVE  sp'[s] = sp[s] /\ sev'[s] = sev[s] /\ spc[s] \in Pending
  BY <1>0, <1>1, <1>8 DEF ResolveRoute, TypeOK, Pending
<1>9. ASSUME NEW r \in Slot, CreateCall(r) \/ FinalizeCheck(r) \/ FinalizeWrite(r)
      PROVE  spc'[s] = spc[s] /\ sp'[s] = sp[s] /\ sev'[s] = sev[s]
  BY <1>1, <1>2, <1>9 DEF CreateCall, FinalizeCheck, FinalizeWrite, Answered, Pending
<1>10. ASSUME NEW r \in Slot, ReplyLost(r)
       PROVE  spc'[s] = spc[s] /\ sp'[s] = sp[s] /\ sev'[s] = sev[s]
  BY <1>1, <1>10 DEF ReplyLost
<1>11. ASSUME Crash PROVE spc'[s] = spc[s] /\ sp'[s] = sp[s] /\ sev'[s] = sev[s]
  BY <1>11 DEF Crash, Pending
<1>12. ASSUME RedisForgets \/ UNCHANGED vars
       PROVE  spc'[s] = spc[s] /\ sp'[s] = sp[s] /\ sev'[s] = sev[s]
  BY <1>12 DEF RedisForgets, slotVars, vars
<1> QED BY <1>3, <1>4, <1>5, <1>6, <1>7, <1>8, <1>9, <1>10, <1>11, <1>12
        DEF Next, GatewayStep, ApiStep

LEMMA WaitingStep ==
  ASSUME DeliveryInv, [Next]_vars, NEW p \in PCall, NEW e \in StartEvents,
         <<p, e>> \in recorded, e \in Waiting(p)'
  PROVE  e \in Waiting(p)
<1>1. PICK s \in Slot : spc'[s] \in Pending /\ sp'[s] = p /\ sev'[s] = e
  BY DEF Waiting
<1>2. sp[s] = p /\ sev[s] = e /\ spc[s] \in Pending
  BY <1>1, PendingStep
<1> QED BY <1>2 DEF Waiting

\* The event of a delivery that creates its call is no longer waited for.
LEMMA CreatorDone ==
  ASSUME DeliveryInv, [Next]_vars, NEW r \in Slot, CreateCall(r), NEW p, NEW e, p = sp[r], e = sev[r]
  PROVE  /\ e \in StartEvents /\ <<p, e>> \in recorded /\ p \in PCall
         /\ e \in Waiting(p) /\ e \notin Waiting(p)'
<1>1. /\ spc[r] = "create" /\ e \in StartEvents /\ <<p, e>> \in recorded
      /\ p \in PCall
  BY EventsTyped DEF CreateCall, DeliveryInv, SlotOk, Winner, OfStart
<1>2. e \in Waiting(p)
  BY <1>1 DEF Waiting, Pending
<1>3. spc'[r] \notin Pending
  <2>1. Freed(r) \/ Goes(r, "created")
    BY AnsweredEffect DEF CreateCall, DeliveryInv, Label, AtGateway
  <2> QED BY <2>1 DEF Freed, Goes, Pending
<1>4. ASSUME NEW s \in Slot, spc'[s] \in Pending, sp'[s] = p, sev'[s] = e
      PROVE  FALSE
  <2>1. sp[s] = sp[r] /\ sev[s] = sev[r] /\ spc[s] \in Pending
    BY <1>1, <1>4, PendingStep
  <2>2. s = r
    BY <1>1, <2>1 DEF DeliveryInv, OneWinner, Winner, Pending
  <2> QED BY <1>3, <1>4, <2>2
<1>5. e \notin Waiting(p)'
  BY <1>4 DEF Waiting
<1> QED BY <1>1, <1>2, <1>5

LEMMA PaidStep ==
  ASSUME DeliveryInv, [Next]_vars, NEW p \in PCall, Paid(p)
  PROVE  Paid(p)'
<1>1. PICK f \in [CallId -> Event \union {"none"}] :
        /\ \A c \in CallsOf(p) : f[c] \in StartEvents \ Waiting(p) /\ <<p, f[c]>> \in recorded
        /\ \A c, d \in CallsOf(p) : f[c] = f[d] => c = d
  BY DEF Paid
<1>2. recorded \subseteq recorded'
  BY StepKinds
<1>3. \A c \in CallsOf(p) : f[c] \in StartEvents \ Waiting(p)' /\ <<p, f[c]>> \in recorded'
  BY <1>1, <1>2, WaitingStep
<1>4. CASE CallsOf(p)' = CallsOf(p)
  BY <1>1, <1>3, <1>4 DEF Paid
<1>5. ASSUME NEW r \in Slot, CreateCall(r), p # sp[r]
      PROVE  CallsOf(p)' = CallsOf(p)
  BY <1>5, NoIdsFresh DEF CreateCall, CallsOf, DeliveryInv, TypeOK, CallOk
<1>6. ASSUME NEW r \in Slot, CreateCall(r), p = sp[r]
      PROVE  Paid(p)'
  <2> DEFINE g == [f EXCEPT ![scid[r]] = sev[r]]
  <2> DEFINE e == sev[r]
  <2>1. /\ e \in StartEvents /\ <<p, e>> \in recorded /\ e \in Waiting(p)
    BY <1>6, CreatorDone
  <2>2. \A x : x = e => x \notin Waiting(p)'
    BY <1>6, CreatorDone
  <2>3. scid[r] \in CallId /\ owner[scid[r]] = NoPCall
    BY <1>6 DEF CreateCall, DeliveryInv, SlotOk, CallOk, HasCall
  <2>4. CallsOf(p)' = CallsOf(p) \union {scid[r]} /\ scid[r] \notin CallsOf(p)
    BY <1>6, <2>3, NoIdsFresh DEF CreateCall, CallsOf, DeliveryInv, TypeOK
  <2>5. g \in [CallId -> Event \union {"none"}]
    BY <2>1 DEF Event
  <2>6. g[scid[r]] = sev[r] /\ \A c \in CallsOf(p) : g[c] = f[c]
    BY <2>3, <2>4 DEF CallsOf
  <2>7. \A c \in CallsOf(p)' : g[c] \in StartEvents \ Waiting(p)' /\ <<p, g[c]>> \in recorded'
    BY <1>2, <1>3, <2>1, <2>2, <2>4, <2>6
  <2>8. \A c, d \in CallsOf(p)' : g[c] = g[d] => c = d
    BY <1>1, <2>1, <2>4, <2>6
  <2> HIDE DEF g
  <2> QED BY <2>5, <2>7, <2>8 DEF Paid
<1>7. ASSUME NEW r \in Slot, FinalizeWrite(r) PROVE CallsOf(p)' = CallsOf(p)
  BY <1>7 DEF FinalizeWrite, CallsOf
<1>8. UNCHANGED <<owner, cstatus>> => CallsOf(p)' = CallsOf(p)
  BY DEF CallsOf
<1> QED BY <1>4, <1>5, <1>6, <1>7, <1>8, StepKinds

LEMMA GatewayInit == Init => GatewayInv
<1> SUFFICES ASSUME Init, NEW p \in PCall PROVE Paid(p)
  BY DeliveryInit DEF GatewayInv
<1>1. CallsOf(p) = {}
  BY NoIdsFresh DEF Init, CallsOf
<1>2. [c \in CallId |-> "none"] \in [CallId -> Event \union {"none"}]
  OBVIOUS
<1> QED BY <1>1, <1>2 DEF Paid

LEMMA GatewayStays == GatewayInv /\ [Next]_vars => GatewayInv'
BY DeliveryStep, PaidStep DEF GatewayInv

LEMMA PaidCounts ==
  ASSUME NEW p \in PCall, Paid(p)
  PROVE  Cardinality(CallsOf(p)) <= Cardinality({e \in StartEvents : <<p, e>> \in recorded})
<1> DEFINE T == {e \in StartEvents : <<p, e>> \in recorded}
<1>1. PICK f \in [CallId -> Event \union {"none"}] :
        /\ \A c \in CallsOf(p) : f[c] \in StartEvents \ Waiting(p) /\ <<p, f[c]>> \in recorded
        /\ \A c, d \in CallsOf(p) : f[c] = f[d] => c = d
  BY DEF Paid
<1> DEFINE g == [c \in CallsOf(p) |-> f[c]]
<1>2. g \in Injection(CallsOf(p), T)
  BY <1>1 DEF Injection, IsInjective
<1>3. IsFiniteSet(T)
  <2>1. IsFiniteSet({"connected", "start", "answered", "started"})
    <3>1. IsFiniteSet({"connected"})
      BY FS_Singleton
    <3>2. IsFiniteSet({"connected"} \union {"start"})
      BY <3>1, FS_AddElement
    <3>3. IsFiniteSet({"connected"} \union {"start"} \union {"answered"})
      BY <3>2, FS_AddElement
    <3>4. IsFiniteSet({"connected"} \union {"start"} \union {"answered"} \union {"started"})
      BY <3>3, FS_AddElement
    <3>5. {"connected"} \union {"start"} \union {"answered"} \union {"started"}
            = {"connected", "start", "answered", "started"}
      OBVIOUS
    <3> QED BY <3>4, <3>5
  <2>2. T \in SUBSET {"connected", "start", "answered", "started"}
    BY EventsDisjoint
  <2> HIDE DEF T
  <2> QED BY <2>1, <2>2, FS_Subset
<1> HIDE DEF T, g
<1>4. Cardinality(CallsOf(p)) <= Cardinality(T)
  BY <1>2, <1>3, FS_Injection
<1> QED BY <1>4 DEF T

\* callback(): however an event is delivered, repeated, lost or interrupted by
\* a restart, each recorded start event opens at most one call.
THEOREM OneCallForEachStart == Spec => []OneCallPerStartEvent
<1>1. GatewayInv => OneCallPerStartEvent
  BY PaidCounts DEF GatewayInv, OneCallPerStartEvent
<1> QED BY <1>1, GatewayInit, GatewayStays, PTL DEF Spec

-----------------------------------------------------------------------------
(* A cleaned call is gone, when Exotel announces it with one start event.  *)

LEMMA AtMostOneCall ==
  ASSUME GatewayInv, SingleStart, NEW p \in PCall, NEW c \in CallsOf(p), NEW d \in CallsOf(p)
  PROVE  c = d
<1>1. PICK f \in [CallId -> Event \union {"none"}] :
        /\ \A x \in CallsOf(p) : f[x] \in StartEvents \ Waiting(p) /\ <<p, f[x]>> \in recorded
        /\ \A x, y \in CallsOf(p) : f[x] = f[y] => x = y
  BY DEF GatewayInv, Paid
<1>2. scenario \in Scenarios /\ recorded \subseteq scenario.events
  BY DEF GatewayInv, DeliveryInv, TypeOK, RowsOk
<1>3. f[c] = f[d]
  BY <1>1, <1>2 DEF SingleStart
<1> QED BY <1>1, <1>3

LEMMA NoCallYet ==
  ASSUME GatewayInv, SingleStart, NEW p \in PCall, NEW e \in Waiting(p), <<p, e>> \in recorded
  PROVE  CallsOf(p) = {}
<1> SUFFICES ASSUME NEW c \in CallsOf(p) PROVE FALSE
  OBVIOUS
<1>1. PICK f \in [CallId -> Event \union {"none"}] :
        \A x \in CallsOf(p) : f[x] \in StartEvents \ Waiting(p) /\ <<p, f[x]>> \in recorded
  BY DEF GatewayInv, Paid
<1>2. scenario \in Scenarios /\ recorded \subseteq scenario.events /\ e \in StartEvents
  BY DEF GatewayInv, DeliveryInv, TypeOK, RowsOk, Waiting
<1>3. f[c] = e
  BY <1>1, <1>2 DEF SingleStart
<1> QED BY <1>1, <1>3

\* Only create_call's answer lets a delivery start a session.
LEMMA CreatedStep ==
  ASSUME DeliveryInv, [Next]_vars, NEW s \in Slot, spc'[s] = "created"
  PROVE  sp'[s] = sp[s] /\ (spc[s] = "created" \/ CreateCall(s))
<1>0. TypeOK
  BY DEF DeliveryInv
<1>1. ASSUME NEW r \in Slot, Release({r})
      PROVE  spc'[s] = spc[s] /\ sp'[s] = sp[s]
  BY <1>1 DEF Release
<1>2. ASSUME NEW r \in Slot, NEW pc, MoveTo(r, pc)
      PROVE  sp'[s] = sp[s] /\ (spc'[s] = spc[s] \/ (s = r /\ pc = "created"))
  BY <1>0, <1>2 DEF MoveTo, TypeOK
<1>3. ASSUME NEW r \in Slot, NEW p \in PCall, NEW e \in Event, Webhook(r, p, e)
      PROVE  spc'[s] = spc[s] /\ sp'[s] = sp[s]
  BY <1>0, <1>3 DEF Webhook, TypeOK
<1>4. ASSUME NEW r \in Slot, \/ AnswerDuplicate(r) \/ IgnoreOther(r) \/ StartSession(r)
                             \/ CleanUp(r) \/ DuplicateUnseen(r) \/ ApiError(r)
      PROVE  spc'[s] = spc[s] /\ sp'[s] = sp[s]
  BY <1>1, <1>4 DEF AnswerDuplicate, IgnoreOther, StartSession, CleanUp, DuplicateUnseen,
                    ApiError, Answer2xx
<1>5. ASSUME NEW r \in Slot, FreshStart(r) \/ RecordEvent(r) \/ FinalizeCheck(r) \/ FinalizeWrite(r)
      PROVE  spc'[s] = spc[s] /\ sp'[s] = sp[s]
  BY <1>1, <1>2, <1>5 DEF FreshStart, RecordEvent, FinalizeCheck, FinalizeWrite, Answered
<1>6. ASSUME NEW r \in Slot, FreshEnd(r)
      PROVE  spc'[s] = spc[s] /\ sp'[s] = sp[s]
  BY <1>0, <1>1, <1>6 DEF FreshEnd, Answer2xx, TypeOK
<1>7. ASSUME NEW r \in Slot, ResolveRoute(r)
      PROVE  spc'[s] = spc[s] /\ sp'[s] = sp[s]
  BY <1>0, <1>1, <1>7 DEF ResolveRoute, TypeOK
<1>8. ASSUME NEW r \in Slot, CreateCall(r)
      PROVE  sp'[s] = sp[s] /\ (spc'[s] = spc[s] \/ CreateCall(s))
  BY <1>1, <1>2, <1>8 DEF CreateCall, Answered
<1>9. ASSUME NEW r \in Slot, ReplyLost(r)
      PROVE  spc'[s] = spc[s] /\ sp'[s] = sp[s]
  BY <1>1, <1>9 DEF ReplyLost
<1>10. ASSUME Crash PROVE spc'[s] = spc[s] /\ sp'[s] = sp[s]
  BY <1>10 DEF Crash
<1>11. ASSUME RedisForgets \/ UNCHANGED vars
       PROVE  spc'[s] = spc[s] /\ sp'[s] = sp[s]
  BY <1>11 DEF RedisForgets, slotVars, vars
<1> QED BY <1>3, <1>4, <1>5, <1>6, <1>7, <1>8, <1>9, <1>10, <1>11
        DEF Next, GatewayStep, ApiStep

\* CleanInv, said of one provider call.
Cleaned(p) == RedisKeeps /\ Told(p, "session_cleaned")
GoneFor(p) ==
  /\ mapping[p] = NoCall /\ CallsOf(p) # {}
  /\ \A c \in CallsOf(p) : Ended(c) /\ c \notin mem \union redis
  /\ \A r \in Slot : spc[r] = "created" => sp[r] # p

LEMMA CleanParts ==
  ASSUME CleanInv, NEW p \in PCall, Cleaned(p)
  PROVE  GoneFor(p)
BY DEF CleanInv, CleanedIsGone, Cleaned, GoneFor

\* Outside CleanUp nobody new is told, and what is gone stays gone.
LEMMA GoneStays ==
  ASSUME GatewayInv, SingleStart, [Next]_vars, NEW p \in PCall, RedisKeeps, GoneFor(p),
         \A r \in Slot : CleanUp(r) => sp[r] # p
  PROVE  GoneFor(p)'
<1> USE DEF GatewayInv
<1>1. ASSUME NEW r \in Slot, CreateCall(r) PROVE sp[r] # p
  <2> SUFFICES ASSUME sp[r] = p PROVE FALSE
    OBVIOUS
  <2> DEFINE e == sev[r]
  <2>1. <<p, e>> \in recorded /\ e \in Waiting(p)
    BY <1>1, CreatorDone
  <2>2. CallsOf(p) = {}
    BY <2>1, NoCallYet
  <2> QED BY <2>2 DEF GoneFor
<1>2. CallsOf(p)' = CallsOf(p) /\ \A c \in CallsOf(p) : Ended(c) => Ended(c)'
  <2>1. ASSUME NEW r \in Slot, CreateCall(r)
        PROVE  CallsOf(p)' = CallsOf(p) /\ \A c \in CallsOf(p) : Ended(c) => Ended(c)'
    <3>1. owner[scid[r]] = NoPCall /\ scid[r] \in CallId
      BY <2>1 DEF CreateCall, DeliveryInv, SlotOk, CallOk, HasCall
    <3>2. \A c \in CallId : c # scid[r] => owner'[c] = owner[c] /\ cstatus'[c] = cstatus[c]
      BY <2>1, <3>1 DEF CreateCall, DeliveryInv, TypeOK
    <3>3. owner'[scid[r]] # p /\ owner[scid[r]] # p
      BY <1>1, <2>1, <3>1, NoIdsFresh DEF CreateCall, DeliveryInv, TypeOK
    <3> QED BY <3>2, <3>3 DEF CallsOf, Ended
  <2>2. ASSUME NEW r \in Slot, FinalizeWrite(r)
        PROVE  CallsOf(p)' = CallsOf(p) /\ \A c \in CallsOf(p) : Ended(c) => Ended(c)'
    <3>1. /\ owner' = owner /\ Outcome(r) \in {"completed", "failed"} /\ scid[r] \in CallId
          /\ cstatus' = [cstatus EXCEPT ![scid[r]] = Outcome(r)]
      BY <2>2, WriteEffect
    <3>2. \A c \in CallId : cstatus'[c] = IF c = scid[r] THEN Outcome(r) ELSE cstatus[c]
      BY <3>1 DEF DeliveryInv, TypeOK
    <3> QED BY <3>1, <3>2 DEF CallsOf, Ended
  <2>3. ASSUME UNCHANGED <<owner, cstatus>>
        PROVE  CallsOf(p)' = CallsOf(p) /\ \A c \in CallsOf(p) : Ended(c) => Ended(c)'
    BY <2>3 DEF CallsOf, Ended
  <2> QED BY <2>1, <2>2, <2>3, StepKinds
<1>3. mapping'[p] = NoCall /\ \A c \in CallsOf(p) : c \notin mem' \union redis'
  <2>0. ~RedisForgets
    BY DEF RedisForgets, RedisKeeps
  <2>1. ASSUME Silent
        PROVE  mapping'[p] = NoCall /\ \A c \in CallsOf(p) : c \notin mem' \union redis'
    BY <2>1 DEF Silent, redisVars, GoneFor
  <2>2. ASSUME NEW r \in Slot, StartSession(r)
        PROVE  mapping'[p] = NoCall /\ \A c \in CallsOf(p) : c \notin mem' \union redis'
    <3>1. sp[r] # p /\ owner[scid[r]] = sp[r]
      BY <2>2, StartMaps DEF GoneFor
    <3>2. scid[r] \notin CallsOf(p)
      BY <3>1 DEF CallsOf
    <3> QED BY <2>2, <3>1, <3>2, StartMaps DEF GoneFor, DeliveryInv, TypeOK
  <2>3. ASSUME NEW r \in Slot, CleanUp(r)
        PROVE  mapping'[p] = NoCall /\ \A c \in CallsOf(p) : c \notin mem' \union redis'
    BY <2>3, CleanUnmaps DEF GoneFor, DeliveryInv, TypeOK
  <2> QED BY <2>0, <2>1, <2>2, <2>3, StepKinds
<1>4. \A r \in Slot : spc'[r] = "created" => sp'[r] # p
  BY <1>1, CreatedStep DEF GoneFor
<1> QED BY <1>2, <1>3, <1>4 DEF GoneFor

\* session_cleaned is answered when nothing of the call is left.
LEMMA CleanUpGone ==
  ASSUME GatewayInv, SingleStart, [Next]_vars, NEW r \in Slot, CleanUp(r), RedisKeeps,
         NEW p \in PCall, sp[r] = p
  PROVE  GoneFor(p)'
<1> USE DEF GatewayInv
<1>1. /\ mapping' = [mapping EXCEPT ![p] = NoCall]
      /\ mem' = mem \ {scid[r]} /\ redis' = redis \ {scid[r]}
      /\ scid[r] \in CallId /\ owner[scid[r]] = p /\ Ended(scid[r])
      /\ UNCHANGED <<owner, cstatus>>
  BY CleanUnmaps
<1>2. \A c \in CallsOf(p) : c = scid[r]
  BY <1>1, AtMostOneCall DEF CallsOf
<1>3. \A c \in CallsOf(p)' : c = scid[r] /\ Ended(c)'
  BY <1>1, <1>2 DEF CallsOf, Ended
<1>4. mapping'[p] = NoCall /\ scid[r] \in CallsOf(p)'
  BY <1>1 DEF DeliveryInv, TypeOK, CallsOf
<1>5. ASSUME NEW s \in Slot, spc'[s] = "created" PROVE sp'[s] # p
  <2>1. spc[s] = "created" /\ sp'[s] = sp[s] /\ spc[r] = "finalized"
    BY <1>5 DEF CleanUp, Answer2xx, Release
  <2>2. scid[s] # scid[r]
    BY <2>1 DEF DeliveryInv, OwnCall
  <2>3. scid[s] \in CallId /\ owner[scid[s]] = sp[s]
    BY <2>1 DEF DeliveryInv, SlotOk, CallOk, HasCall
  <2> QED BY <1>2, <2>1, <2>2, <2>3 DEF CallsOf
<1>6. \A c \in CallsOf(p)' : c \notin mem' \union redis'
  BY <1>1, <1>3
<1> QED BY <1>3, <1>4, <1>5, <1>6 DEF GoneFor

LEMMA CleanStep ==
  ASSUME SingleStart
  PROVE  GatewayInv /\ CleanInv /\ [Next]_vars => CleanInv'
<1> SUFFICES ASSUME GatewayInv, CleanInv, [Next]_vars PROVE CleanInv'
  OBVIOUS
<1>1. DeliveryInv /\ DeliveryInv'
  BY DeliveryStep DEF GatewayInv
<1>2. scenario' = scenario
  BY <1>1, StepKinds DEF chosen
<1>3. \A r \in Slot : spc'[r] = "created" => sp'[r] \in PCall
  BY <1>1, <1>2, EventsTyped DEF DeliveryInv, SlotOk
<1>4. ASSUME NEW p \in PCall, Cleaned(p)' PROVE GoneFor(p)'
  <2>1. RedisKeeps
    BY <1>2, <1>4 DEF Cleaned, RedisKeeps
  <2>2. CASE \E r \in Slot : CleanUp(r) /\ sp[r] = p
    BY <2>1, <2>2, CleanUpGone
  <2>3. CASE \A r \in Slot : CleanUp(r) => sp[r] # p
    <3>1. Told(p, "session_cleaned")
      <4>1. Silent => Told(p, "session_cleaned")
        BY <1>4 DEF Silent, Cleaned, Told
      <4>2. ASSUME NEW r \in Slot, StartSession(r) PROVE Told(p, "session_cleaned")
        BY <1>1, <1>4, <2>1, <4>2, StartMaps DEF Cleaned, Told
      <4>3. ASSUME NEW r \in Slot, CleanUp(r) PROVE Told(p, "session_cleaned")
        BY <1>1, <1>4, <2>1, <2>3, <4>3, CleanUnmaps DEF Cleaned, Told
      <4>4. ~RedisForgets
        BY <2>1 DEF RedisForgets, RedisKeeps
      <4> QED BY <1>1, <4>1, <4>2, <4>3, <4>4, StepKinds
    <3>2. GoneFor(p)
      BY <2>1, <3>1, CleanParts DEF Cleaned
    <3> QED BY <2>1, <2>3, <3>2, GoneStays
  <2> QED BY <2>2, <2>3
<1> QED BY <1>3, <1>4 DEF CleanInv, CleanedIsGone, Cleaned, GoneFor

\* callback(), end branch: session_cleaned is answered only when the call is
\* over everywhere and no late delivery of its start event can bring it back,
\* while Redis keeps its data and each call is announced by one kind of start
\* event (with two kinds there may be two calls, and the mapping knows one).
THEOREM CleanedStaysGone == SingleStart => (Spec => []CleanedIsGone)
<1> SUFFICES ASSUME SingleStart PROVE Spec => []CleanedIsGone
  OBVIOUS
<1>1. Init => CleanInv
  BY DEF Init, CleanInv, CleanedIsGone, Told
<1>2. CleanInv => CleanedIsGone
  BY DEF CleanInv
<1>3. GatewayInv /\ CleanInv /\ [Next]_vars => CleanInv'
  BY CleanStep
<1> QED BY <1>1, <1>2, <1>3, GatewayInit, GatewayStays, PTL DEF Spec

=============================================================================
