------------------------- MODULE ConversationProofs -------------------------
(***************************************************************************)
(* Proofs about Conversation for every limit on the buffer, every length   *)
(* of silence that ends a turn and every length of a call.                 *)
(***************************************************************************)
EXTENDS Conversation, SequenceTheorems, WellFoundedInduction, TLAPS

-----------------------------------------------------------------------------
(* Turn detection.                                                         *)

\* STTProcessor's fields keep their types and limits.
ListenInv ==
  /\ call \in {"talking", "over"}
  /\ buffer \in Seq(Nat) /\ speaking \in BOOLEAN /\ silence \in Nat
  /\ spoken \in Nat /\ stt \in Nat /\ turn \in Nat
  /\ BufferBounded

\* A sequence of positive length is not the empty one.
LEMMA LongIsNotEmpty == ASSUME NEW s, Len(s) > 0 PROVE s # <<>>
<1>1. Len(<<>>) = 0
  BY EmptySeq
<1> QED BY <1>1

\* Every step of every processor, the callback and the hang-up keeps ListenInv.
LEMMA ListenStep == ListenInv /\ [Next]_vars => ListenInv'
<1> SUFFICES ASSUME ListenInv, [Next]_vars PROVE ListenInv'
  OBVIOUS
<1> USE LimitsPositive
<1>t. call \in {"talking", "over"} /\ buffer \in Seq(Nat) /\ silence \in Nat /\ spoken \in Nat /\ turn \in Nat /\ stt \in Nat
  BY DEF ListenInv
<1>0. ASSUME NEW frames \in Seq(Nat), Flush(frames), call' = call, spoken' \in Nat
      PROVE ListenInv'
  <2>1. buffer' = <<>> /\ speaking' = FALSE /\ silence' = 0 /\ turn' \in Nat /\ stt' \in Nat
    BY <1>0, <1>t DEF Flush
  <2>2. BufferBounded'
    BY <2>1 DEF BufferBounded
  <2>3. buffer' \in Seq(Nat)
    BY <2>1
  <2> QED BY <1>0, <1>t, <2>1, <2>2, <2>3 DEF ListenInv
<1>k. ASSUME NEW frames \in Seq(Nat), NEW run \in Nat, frames # <<>>, Len(frames) < MaxFrames,
             run < SilenceFrames, Keep(frames, run), call' = call, spoken' \in Nat
      PROVE ListenInv'
  <2>1. buffer' = frames /\ speaking' = TRUE /\ silence' = run /\ turn' = turn /\ stt' = stt
    BY <1>k DEF Keep
  <2>2. BufferBounded'
    BY <1>k, <2>1 DEF BufferBounded
  <2> QED BY <1>k, <1>t, <2>1, <2>2 DEF ListenInv
<1>1. CASE HearSpeech
  <2> DEFINE frames == Append(buffer, spoken + 1)
  <2>1. frames \in Seq(Nat) /\ Len(frames) = Len(buffer) + 1
    BY <1>t
  <2>2. call' = call /\ spoken' \in Nat
    BY <1>1, <1>t DEF HearSpeech
  <2>3. Flush(frames) \/ (Len(frames) < MaxFrames /\ Keep(frames, 0))
    BY <1>1, <2>1 DEF HearSpeech
  <2>4. frames # <<>>
    BY <1>t, <2>1, LongIsNotEmpty
  <2> HIDE DEF frames
  <2> QED BY <1>0, <1>k, <2>1, <2>2, <2>3, <2>4
<1>2. CASE HearSilence
  <2> DEFINE frames == Append(buffer, 0)
  <2>1. frames \in Seq(Nat) /\ Len(frames) = Len(buffer) + 1
    BY <1>t
  <2>2. call' = call /\ spoken' \in Nat
    BY <1>2, <1>t DEF HearSilence
  <2>3. \/ Flush(frames)
        \/ Len(frames) < MaxFrames /\ silence + 1 < SilenceFrames /\ Keep(frames, silence + 1)
    BY <1>2, <1>t, <2>1 DEF HearSilence
  <2>4. frames # <<>>
    BY <1>t, <2>1, LongIsNotEmpty
  <2> HIDE DEF frames
  <2> QED BY <1>0, <1>k, <1>t, <2>1, <2>2, <2>3, <2>4
<1>3. CASE Transcribed \/ NotTranscribed
  BY <1>3 DEF Transcribed, NotTranscribed, ListenInv, BufferBounded
<1>4. CASE HangUp
  BY <1>4 DEF HangUp, ListenInv, BufferBounded
<1>5. CASE \/ Greet \/ HandleUserTurn \/ Respond \/ RespondSorry
           \/ Synthesize \/ SynthesizeFails \/ CallbackEnds \/ RedisExpires
  BY <1>5 DEF Greet, HandleUserTurn, Respond, RespondSorry, Say, Synthesize,
              SynthesizeFails, CallbackEnds, RedisExpires, sttVars,
              ListenInv, BufferBounded
<1>6. CASE UNCHANGED vars
  BY <1>6 DEF vars, sttVars, ListenInv, BufferBounded
<1> QED BY <1>1, <1>2, <1>3, <1>4, <1>5, <1>6 DEF Next

\* _handle_audio keeps the buffer below max_buffer_seconds and the run of
\* silence below silence_frames_to_end_turn, for every mix of frames.
THEOREM BufferStaysBounded == Spec => []BufferBounded
<1>1. Init => ListenInv
  <2> SUFFICES ASSUME Init PROVE ListenInv
    OBVIOUS
  <2>1. BufferBounded
    BY LimitsPositive DEF Init, BufferBounded
  <2>2. /\ call = "talking" /\ buffer = <<>> /\ speaking = FALSE
        /\ silence = 0 /\ spoken = 0 /\ stt = 0 /\ turn = 0
    BY DEF Init
  <2>3. buffer \in Seq(Nat)
    BY <2>2
  <2> QED BY <2>1, <2>2, <2>3 DEF ListenInv
<1>2. ListenInv => BufferBounded
  BY DEF ListenInv
<1> QED BY <1>1, <1>2, ListenStep, PTL DEF Spec

-----------------------------------------------------------------------------
(* The kept history.                                                       *)

\* AIProcessor has not taken the StartFrame yet.
GreetingWaits == Len(aiQueue) > 0 /\ aiQueue[1] = Greeting

\* Where the history stands while AIProcessor is idle, greeting or answering.
HistoryStands ==
  /\ GreetingWaits \/ ai = Greeting => Len(mem) = 0
  /\ ai \in Nat \ {Greeting} =>
       /\ view = mem /\ Len(mem) > 0 /\ Len(mem) % 2 = 0
       /\ mem[Len(mem)].text = ai
  /\ ai = NoTurn /\ ~GreetingWaits => Len(mem) % 2 = 1

AnswerInv ==
  /\ stt \in Nat /\ turn \in Nat
  /\ aiQueue \in Seq(Nat) /\ ai \in Nat \union {NoTurn} /\ view \in History
  /\ \A i \in 2 .. Len(aiQueue) : aiQueue[i] # Greeting
  /\ GreetingWaits => ai = NoTurn
  /\ ai = Greeting => view = <<>>
  /\ mem = NoSession => redis = NoSession
  /\ mem # NoSession => mem \in History /\ Dialogue /\ HistoryStands

\* LocalRuleBasedAIProvider answers the last turn when that is the caller's.
LEMMA AnswersLastTurn ==
  ASSUME NEW h \in History, Len(h) > 0, h[Len(h)].role = "user"
  PROVE  GenerateResponse(h) = h[Len(h)].text
<1> DEFINE users == {i \in DOMAIN h : h[i].role = "user"}
<1>1. Len(h) \in users /\ \A i \in users : i \in Nat /\ Len(h) >= i
  BY DEF History
<1> HIDE DEF users
<1>2. Max(users) \in users /\ \A i \in users : Max(users) >= i
  BY <1>1 DEF Max
<1>3. Max(users) = Len(h)
  BY <1>1, <1>2 DEF History
<1> QED BY <1>1, <1>3 DEF GenerateResponse, users

\* With nothing in the history it greets.
LEMMA AnswersNothing == GenerateResponse(<<>>) = Greeting
  BY DEF GenerateResponse

\* A reply recorded in the session keeps the dialogue.
LEMMA SayStep ==
  ASSUME AnswerInv, ~redisFails, ai # NoTurn, NEW response, Say(response),
         response \in {Sorry, GenerateResponse(view)}
  PROVE  AnswerInv'
<1> USE DEF Greeting, Sorry, NoTurn
<1>1. /\ ai' = NoTurn /\ view' = <<>> /\ aiQueue' = aiQueue /\ stt' = stt /\ turn' = turn
  BY DEF Say, sttVars
<1>2. ~GreetingWaits /\ ~GreetingWaits' /\ ai \in Nat
  BY <1>1 DEF AnswerInv, GreetingWaits
<1>3. view' \in History
  BY <1>1 DEF History
<1>4. CASE mem = NoSession
  <2>1. mem' = NoSession /\ redis' = NoSession
    BY <1>4 DEF Say, Get, AnswerInv, sessionVars
  <2> QED BY <1>1, <1>2, <1>3, <2>1 DEF AnswerInv
<1>5. CASE mem # NoSession
  <2> DEFINE reply == [role |-> "assistant", text |-> response]
  <2>1. mem \in History /\ Dialogue /\ HistoryStands
    BY <1>5 DEF AnswerInv
  <2>2. mem' = Append(mem, reply) /\ redis' = Append(mem, reply)
    BY <1>5 DEF Say, Get, AddTurn, MayFail
  <2>3. Len(mem) \in Nat /\ Len(mem) % 2 = 0
    BY <1>2, <2>1 DEF HistoryStands, History
  <2>4. response \in {Sorry, IF Len(mem) = 0 THEN Greeting ELSE mem[Len(mem)].text}
    <3>1. CASE ai = Greeting
      BY <2>1, <3>1, AnswersNothing DEF AnswerInv, HistoryStands
    <3>2. CASE ai # Greeting
      <4>1. view = mem /\ Len(mem) > 0
        BY <1>2, <2>1, <3>2 DEF HistoryStands
      <4>2. mem[Len(mem)].role = "user"
        <5>1. Len(mem) \in DOMAIN mem
          BY <2>1, <2>3, <4>1 DEF History
        <5>2. Len(mem) % 2 # 1
          BY <2>3
        <5> QED BY <1>5, <2>1, <5>1, <5>2 DEF Dialogue
      <4> QED BY <2>1, <4>1, <4>2, AnswersLastTurn
    <3> QED BY <3>1, <3>2
  <2>5. response \in Int
    <3>1. CASE Len(mem) = 0
      BY <2>4, <3>1
    <3>2. CASE Len(mem) # 0
      <4>1. mem[Len(mem)] \in Turn
        BY <2>1, <2>3, <3>2 DEF History
      <4> QED BY <2>4, <3>2, <4>1 DEF Turn
    <3> QED BY <3>1, <3>2
  <2>6. reply \in Turn /\ reply.role = "assistant" /\ reply.text = response
    BY <2>5 DEF Turn
  <2> HIDE DEF reply
  <2>7. /\ mem' \in History /\ Len(mem') = Len(mem) + 1 /\ mem'[Len(mem) + 1] = reply
        /\ \A i \in 1 .. Len(mem) : mem'[i] = mem[i]
    BY <2>1, <2>2, <2>6 DEF History
  <2>8. mem' # NoSession
    BY <2>7, NoSessionFresh
  <2>9. Dialogue'
    <3> SUFFICES ASSUME NEW i \in 1 .. Len(mem) + 1
                 PROVE  IF i % 2 = 1
                        THEN /\ mem'[i].role = "assistant"
                             /\ mem'[i].text \in {Sorry, IF i = 1 THEN Greeting ELSE mem'[i - 1].text}
                        ELSE mem'[i].role = "user" /\ (i = Len(mem') => ai' = mem'[i].text)
      BY <2>7 DEF Dialogue, History
    <3>1. CASE i = Len(mem) + 1
      <4>1. i % 2 = 1 /\ mem'[i] = reply
        BY <2>3, <2>7, <3>1
      <4>2. CASE Len(mem) = 0
        BY <2>4, <2>6, <3>1, <4>1, <4>2
      <4>3. CASE Len(mem) # 0
        <5>1. mem'[i - 1] = mem[Len(mem)]
          BY <2>3, <2>7, <3>1, <4>3
        <5> QED BY <2>3, <2>4, <2>6, <3>1, <4>1, <4>3, <5>1
      <4> QED BY <4>2, <4>3
    <3>2. CASE i \in 1 .. Len(mem)
      <4>1. mem'[i] = mem[i] /\ (i > 1 => mem'[i - 1] = mem[i - 1]) /\ i # Len(mem')
        BY <2>3, <2>7, <3>2
      <4>2. i \in DOMAIN mem
        BY <2>1, <3>2 DEF History
      <4>3. IF i % 2 = 1
            THEN /\ mem[i].role = "assistant"
                 /\ mem[i].text \in {Sorry, IF i = 1 THEN Greeting ELSE mem[i - 1].text}
            ELSE mem[i].role = "user"
        BY <1>5, <2>1, <4>2 DEF Dialogue
      <4>4. CASE i = 1
        BY <4>1, <4>3, <4>4
      <4>5. CASE i > 1
        BY <4>1, <4>3, <4>5
      <4> QED BY <4>4, <4>5
    <3> QED BY <2>3, <3>1, <3>2
  <2>10. HistoryStands'
    BY <1>1, <1>2, <2>3, <2>7 DEF HistoryStands
  <2> QED BY <1>1, <1>2, <1>3, <2>7, <2>8, <2>9, <2>10 DEF AnswerInv
<1> QED BY <1>4, <1>5

\* A turn of the caller recorded in the session keeps the dialogue: the
\* history then ends with the turn that is being answered.
LEMMA UserTurnStep ==
  ASSUME AnswerInv, ~redisFails, HandleUserTurn
  PROVE  AnswerInv'
<1> USE DEF Greeting, Sorry, NoTurn
<1>1. /\ ai = NoTurn /\ aiQueue # <<>> /\ aiQueue[1] # Greeting
      /\ ai' = aiQueue[1] /\ aiQueue' = Tail(aiQueue) /\ stt' = stt /\ turn' = turn
  BY DEF HandleUserTurn, sttVars
<1>2. aiQueue \in Seq(Nat) /\ Len(aiQueue) \in Nat \ {0}
  BY <1>1, EmptySeq DEF AnswerInv
<1>3. /\ aiQueue' \in Seq(Nat) /\ ai' \in Nat \ {Greeting}
      /\ Len(aiQueue') = Len(aiQueue) - 1
      /\ \A i \in 1 .. Len(aiQueue') : aiQueue'[i] = aiQueue[i + 1]
  BY <1>1, <1>2, HeadTailProperties
<1>4. \A i \in 1 .. Len(aiQueue') : aiQueue'[i] # Greeting
  <2> TAKE i \in 1 .. Len(aiQueue')
  <2>1. i + 1 \in 2 .. Len(aiQueue)
    BY <1>2, <1>3
  <2>2. aiQueue[i + 1] # Greeting
    BY <2>1 DEF AnswerInv
  <2> QED BY <1>3, <2>2
<1>5. ~GreetingWaits /\ ~GreetingWaits'
  <2>1. Len(aiQueue') \in Nat
    BY <1>2, <1>3
  <2>2. ~GreetingWaits
    BY <1>1 DEF GreetingWaits
  <2>3. Len(aiQueue') > 0 => 1 \in 1 .. Len(aiQueue')
    BY <2>1
  <2> QED BY <1>4, <2>2, <2>3 DEF GreetingWaits
<1>6. CASE mem = NoSession
  <2>1. mem' = NoSession /\ redis' = NoSession /\ view' = <<>>
    BY <1>6 DEF HandleUserTurn, Get, AnswerInv
  <2>2. view' \in History
    BY <2>1 DEF History
  <2> QED BY <1>1, <1>3, <1>4, <1>5, <2>1, <2>2 DEF AnswerInv
<1>7. CASE mem # NoSession
  <2> DEFINE said1 == [role |-> "user", text |-> aiQueue[1]]
  <2>1. mem \in History /\ Dialogue /\ HistoryStands
    BY <1>7 DEF AnswerInv
  <2>2. mem' = Append(mem, said1) /\ view' = mem'
    <3>1. Get = {mem} /\ MayFail = {FALSE} /\ Head(aiQueue) = aiQueue[1]
      BY <1>2, <1>7 DEF Get, MayFail
    <3>2. PICK s \in Get \ {NoSession} :
            AddTurn(s, [role |-> "user", text |-> Head(aiQueue)]) /\ view' = mem'
      BY <1>7, <3>1 DEF HandleUserTurn
    <3> QED BY <3>1, <3>2 DEF AddTurn
  <2>3. Len(mem) \in Nat /\ Len(mem) % 2 = 1
    BY <1>1, <1>5, <2>1 DEF HistoryStands, History
  <2>4. said1 \in Turn /\ said1.role = "user" /\ said1.text = ai'
    BY <1>1, <1>3 DEF Turn
  <2> HIDE DEF said1
  <2>5. /\ mem' \in History /\ Len(mem') = Len(mem) + 1 /\ mem'[Len(mem) + 1] = said1
        /\ \A i \in 1 .. Len(mem) : mem'[i] = mem[i]
    BY <2>1, <2>2, <2>4 DEF History
  <2>6. mem' # NoSession
    BY <2>5, NoSessionFresh
  <2>7. Dialogue'
    <3> SUFFICES ASSUME NEW i \in 1 .. Len(mem) + 1
                 PROVE  IF i % 2 = 1
                        THEN /\ mem'[i].role = "assistant"
                             /\ mem'[i].text \in {Sorry, IF i = 1 THEN Greeting ELSE mem'[i - 1].text}
                        ELSE mem'[i].role = "user" /\ (i = Len(mem') => ai' = mem'[i].text)
      BY <2>5 DEF Dialogue, History
    <3>1. CASE i = Len(mem) + 1
      <4>1. i % 2 # 1 /\ mem'[i] = said1
        BY <2>3, <2>5, <3>1
      <4> QED BY <2>4, <4>1
    <3>2. CASE i \in 1 .. Len(mem)
      <4>1. mem'[i] = mem[i] /\ (i > 1 => mem'[i - 1] = mem[i - 1]) /\ i # Len(mem')
        BY <2>3, <2>5, <3>2
      <4>2. i \in DOMAIN mem
        BY <2>1, <3>2 DEF History
      <4>3. IF i % 2 = 1
            THEN /\ mem[i].role = "assistant"
                 /\ mem[i].text \in {Sorry, IF i = 1 THEN Greeting ELSE mem[i - 1].text}
            ELSE mem[i].role = "user"
        BY <1>7, <2>1, <4>2 DEF Dialogue
      <4>4. CASE i = 1
        BY <4>1, <4>3, <4>4
      <4>5. CASE i > 1
        BY <4>1, <4>3, <4>5
      <4> QED BY <4>4, <4>5
    <3> QED BY <2>3, <3>1, <3>2
  <2>8. HistoryStands'
    <3>1. view' = mem' /\ mem'[Len(mem')].text = ai'
      BY <2>2, <2>4, <2>5
    <3>2. Len(mem') > 0 /\ Len(mem') % 2 = 0
      BY <2>3, <2>5
    <3> QED BY <1>3, <1>5, <3>1, <3>2 DEF HistoryStands
  <2> QED BY <1>1, <1>3, <1>4, <1>5, <2>2, <2>5, <2>6, <2>7, <2>8 DEF AnswerInv
<1> QED BY <1>6, <1>7

\* AnswerInv is kept by every step, given a Redis that does not fail.
LEMMA AnswerStep == ~redisFails /\ AnswerInv /\ [Next]_vars => AnswerInv'
<1> SUFFICES ASSUME ~redisFails, AnswerInv, [Next]_vars PROVE AnswerInv'
  OBVIOUS
<1>0. ASSUME UNCHANGED <<aiVars, sessionVars>>, stt' \in Nat, turn' \in Nat
      PROVE  AnswerInv'
  BY <1>0 DEF AnswerInv, aiVars, sessionVars, GreetingWaits, Dialogue, HistoryStands
<1>t. stt \in Nat /\ turn \in Nat
  BY DEF AnswerInv
<1>1. CASE HearSpeech \/ HearSilence
  <2>1. stt' \in Nat /\ turn' \in Nat
    BY <1>1, <1>t DEF HearSpeech, HearSilence, Flush, Keep
  <2>2. UNCHANGED <<aiVars, sessionVars>>
    BY <1>1 DEF HearSpeech, HearSilence
  <2> QED BY <1>0, <2>1, <2>2
<1>2. CASE NotTranscribed \/ Synthesize \/ SynthesizeFails \/ UNCHANGED vars
  <2>1. UNCHANGED <<aiVars, sessionVars>> /\ stt' \in Nat /\ turn' \in Nat
    BY <1>2, <1>t DEF NotTranscribed, Synthesize, SynthesizeFails, vars, sttVars
  <2> QED BY <1>0, <2>1
<1>3. CASE Transcribed
  <2>1. /\ aiQueue' = Append(aiQueue, stt) /\ stt # Greeting /\ stt' = 0 /\ turn' = turn
        /\ ai' = ai /\ view' = view /\ mem' = mem /\ redis' = redis
    BY <1>3 DEF Transcribed, sessionVars, Greeting
  <2>2. aiQueue \in Seq(Nat) /\ \A i \in 2 .. Len(aiQueue) : aiQueue[i] # Greeting
    BY DEF AnswerInv
  <2>3. /\ aiQueue' \in Seq(Nat) /\ Len(aiQueue') = Len(aiQueue) + 1
        /\ aiQueue'[Len(aiQueue) + 1] = stt
        /\ \A i \in 1 .. Len(aiQueue) : aiQueue'[i] = aiQueue[i]
    BY <1>t, <2>1, <2>2
  <2>4. \A i \in 2 .. Len(aiQueue') : aiQueue'[i] # Greeting
    BY <2>1, <2>2, <2>3
  <2>5. GreetingWaits' = GreetingWaits
    BY <2>1, <2>2, <2>3 DEF GreetingWaits
  <2>6. mem # NoSession => Dialogue' /\ HistoryStands'
    BY <2>1, <2>5 DEF AnswerInv, Dialogue, HistoryStands
  <2> QED BY <1>t, <2>1, <2>3, <2>4, <2>5, <2>6 DEF AnswerInv
<1>4. CASE Greet
  <2>1. /\ ai = NoTurn /\ aiQueue # <<>> /\ aiQueue[1] = Greeting
        /\ ai' = Greeting /\ view' = <<>> /\ aiQueue' = Tail(aiQueue)
        /\ stt' = stt /\ turn' = turn /\ mem' = mem /\ redis' = redis
    BY <1>4 DEF Greet, sttVars, sessionVars
  <2>2. aiQueue \in Seq(Nat) /\ Len(aiQueue) \in Nat \ {0}
    BY <2>1, EmptySeq DEF AnswerInv
  <2>3. /\ aiQueue' \in Seq(Nat) /\ Len(aiQueue') = Len(aiQueue) - 1
        /\ \A i \in 1 .. Len(aiQueue') : aiQueue'[i] = aiQueue[i + 1]
    BY <2>1, <2>2, HeadTailProperties
  <2>4. \A i \in 1 .. Len(aiQueue') : aiQueue'[i] # Greeting
    <3> TAKE i \in 1 .. Len(aiQueue')
    <3>1. i + 1 \in 2 .. Len(aiQueue)
      BY <2>2, <2>3
    <3>2. aiQueue[i + 1] # Greeting
      BY <3>1 DEF AnswerInv
    <3> QED BY <2>3, <3>2
  <2>5. GreetingWaits /\ ~GreetingWaits'
    BY <2>1, <2>2, <2>3, <2>4 DEF GreetingWaits
  <2>6. ASSUME mem # NoSession PROVE Dialogue' /\ HistoryStands'
    <3>1. mem \in History /\ Len(mem) = 0 /\ mem' = mem
      BY <2>1, <2>5, <2>6 DEF AnswerInv, HistoryStands
    <3>2. DOMAIN mem' = {}
      BY <3>1 DEF History
    <3> QED BY <2>1, <2>5, <3>1, <3>2 DEF Dialogue, HistoryStands, Greeting, NoTurn
  <2>7. view' \in History /\ ai' \in Nat
    BY <2>1 DEF History, Greeting
  <2> QED BY <1>t, <2>1, <2>3, <2>4, <2>5, <2>6, <2>7 DEF AnswerInv
<1>5. CASE HandleUserTurn
  BY <1>5, UserTurnStep
<1>6. CASE Respond \/ RespondSorry
  BY <1>6, SayStep DEF Respond, RespondSorry
<1>7. CASE CallbackEnds
  <2>1. /\ mem' = NoSession /\ redis' = NoSession /\ UNCHANGED aiVars /\ stt' = stt /\ turn' = turn
    BY <1>7 DEF CallbackEnds, Drop, MayFail, sttVars
  <2> QED BY <2>1 DEF AnswerInv, aiVars, GreetingWaits
<1>8. CASE RedisExpires
  <2>1. mem' = mem /\ redis' = NoSession /\ UNCHANGED aiVars /\ stt' = stt /\ turn' = turn
    BY <1>8 DEF RedisExpires, sttVars
  <2> QED BY <2>1 DEF AnswerInv, aiVars, GreetingWaits, Dialogue, HistoryStands
<1>9. CASE HangUp
  <2>1. mem' = NoSession /\ redis' = NoSession
    BY <1>9 DEF HangUp, Drop, MayFail, Get, AnswerInv, sessionVars
  <2>2. aiQueue' = <<>> /\ ai' = NoTurn /\ view' = <<>> /\ stt' = 0 /\ turn' = turn
    BY <1>9 DEF HangUp
  <2>3. aiQueue' \in Seq(Nat) /\ Len(aiQueue') = 0 /\ view' \in History
    BY <2>2 DEF History
  <2> QED BY <1>t, <2>1, <2>2, <2>3 DEF AnswerInv, GreetingWaits, Greeting, NoTurn
<1> QED BY <1>1, <1>2, <1>3, <1>4, <1>5, <1>6, <1>7, <1>8, <1>9 DEF Next

\* Whether Redis may fail is settled when the call begins.
LEMMA FailsFixed == [Next]_vars => redisFails' = redisFails
BY DEF Next, vars, HearSpeech, HearSilence, Transcribed, NotTranscribed, Greet, HandleUserTurn,
       Respond, RespondSorry, Say, AddTurn, Synthesize, SynthesizeFails, CallbackEnds,
       RedisExpires, HangUp, Drop, sessionVars

LEMMA AnswerInit == Init => AnswerInv
<1> SUFFICES ASSUME Init PROVE AnswerInv
  OBVIOUS
<1>1. /\ stt = 0 /\ turn = 0 /\ aiQueue = <<Greeting>> /\ ai = NoTurn
      /\ view = <<>> /\ mem = <<>> /\ redis = <<>>
  BY DEF Init
<1>2. /\ aiQueue \in Seq(Nat) /\ Len(aiQueue) = 1 /\ aiQueue[1] = Greeting
      /\ view \in History /\ mem \in History /\ Len(mem) = 0 /\ DOMAIN mem = {}
  BY <1>1 DEF History, Greeting
<1>3. GreetingWaits /\ Dialogue /\ HistoryStands
  BY <1>1, <1>2 DEF GreetingWaits, Dialogue, HistoryStands, Greeting, NoTurn
<1> QED BY <1>1, <1>2, <1>3, NoSessionFresh DEF AnswerInv, Greeting, NoTurn

\* AIProcessor: with a working Redis the history kept for a call is a dialogue
\* (greeting first, each turn of the caller followed by its own reply), also
\* while turns queue up and the callback removes the session.
THEOREM HistoryStaysDialogue == Spec => []HistoryIsDialogue
<1> DEFINE Inv == ~redisFails => AnswerInv
<1>1. Init => Inv
  BY AnswerInit
<1>2. Inv => HistoryIsDialogue
  BY DEF AnswerInv, HistoryIsDialogue, Dialogue
<1>3. Inv /\ [Next]_vars => Inv'
  BY AnswerStep, FailsFixed
<1> QED BY <1>1, <1>2, <1>3, PTL DEF Spec

-----------------------------------------------------------------------------
(* Types of the whole pipeline.                                            *)

\* A nonempty set of numbers has a least element.
LEMMA LeastNumber ==
  ASSUME NEW S \in SUBSET Nat, S # {}
  PROVE  \E x \in S : \A y \in S : x <= y
<1> DEFINE R == {ss \in Nat \X Nat : ss[1] < ss[2]}
<1>1. IsWellFoundedOn(R, Nat)
  BY NatLessThanWellFounded DEF OpToRel
<1>2. \E x \in S : \A y \in S : ~(<<y, x>> \in R)
  <2> HIDE DEF R
  <2> QED BY <1>1, WFMin
<1>3. PICK x \in S : \A y \in S : ~(<<y, x>> \in R)
  BY <1>2
<1>4. \A y \in S : x <= y
  <2> TAKE y \in S
  <2>1. ~(<<y, x>> \in R) /\ x \in Nat /\ y \in Nat
    BY <1>3
  <2> QED BY <2>1
<1> QED BY <1>4

LEMMA MaxOfSome ==
  ASSUME NEW n \in Nat, NEW S \in SUBSET (0 .. n), S # {}
  PROVE  Max(S) \in S
<1> DEFINE T == {i \in 0 .. n : n - i \in S}
<1>1. T \in SUBSET Nat
  OBVIOUS
<1>2. T # {}
  <2>1. PICK x \in S : TRUE
    OBVIOUS
  <2>2. n - x \in 0 .. n /\ n - (n - x) = x
    OBVIOUS
  <2> QED BY <2>2
<1>3. PICK m \in T : \A y \in T : m <= y
  BY <1>1, <1>2, LeastNumber
<1>4. \A y \in S : n - y \in T
  OBVIOUS
<1>5. n - m \in S /\ \A y \in S : n - m >= y
  BY <1>3, <1>4
<1> QED BY <1>5 DEF Max

\* Whatever the history, the AI provider's answer names something.
LEMMA ResponseTyped ==
  ASSUME NEW h \in History
  PROVE  GenerateResponse(h) \in Int
<1> DEFINE users == {i \in DOMAIN h : h[i].role = "user"}
<1>1. Len(h) \in Nat /\ DOMAIN h = 1 .. Len(h) /\ \A i \in 1 .. Len(h) : h[i] \in Turn
  BY DEF History
<1>2. CASE users = {}
  BY <1>2 DEF GenerateResponse, Greeting
<1>3. CASE users # {}
  <2>1. users \in SUBSET (0 .. Len(h))
    BY <1>1
  <2> HIDE DEF users
  <2>2. Max(users) \in users
    BY <1>1, <1>3, <2>1, MaxOfSome
  <2>3. h[Max(users)] \in Turn
    BY <1>1, <2>2 DEF users
  <2> QED BY <1>3, <2>3 DEF GenerateResponse, users, Turn
<1> QED BY <1>2, <1>3

\* What a session step leaves, whether Redis fails or not.
SessionTyped ==
  /\ mem \in History \union {NoSession} /\ redis \in History \union {NoSession}
  /\ redisFails \in BOOLEAN

LEMMA AddTurnTyped ==
  ASSUME SessionTyped, NEW s \in Get \ {NoSession}, NEW t \in Turn, AddTurn(s, t)
  PROVE  SessionTyped' /\ mem' \in History
<1>1. s \in History
  BY DEF SessionTyped, Get
<1>2. Append(s, t) \in History
  BY <1>1 DEF History
<1> QED BY <1>2 DEF AddTurn, SessionTyped

LEMMA DropTyped ==
  ASSUME SessionTyped, Drop
  PROVE  SessionTyped'
BY DEF Drop, SessionTyped

LEMMA SayTyped ==
  ASSUME TypeOK, ai # NoTurn, NEW response \in Int, Say(response)
  PROVE  TypeOK'
<1> DEFINE reply == [role |-> "assistant", text |-> response]
<1>1. /\ ttsQueue' = Append(ttsQueue, response) /\ ai' = NoTurn /\ view' = <<>>
      /\ UNCHANGED <<call, spoken, buffer, speaking, silence, stt, turn, said, aiQueue, played>>
  BY DEF Say, sttVars
<1>2. reply \in Turn /\ SessionTyped
  BY DEF Turn, TypeOK, SessionTyped
<1> HIDE DEF reply
<1>3. SessionTyped'
  <2>1. CASE UNCHANGED sessionVars
    BY <1>2, <2>1 DEF sessionVars, SessionTyped
  <2>2. CASE \E s \in Get \ {NoSession} : AddTurn(s, reply)
    BY <1>2, <2>2, AddTurnTyped
  <2> QED BY <2>1, <2>2 DEF Say, reply
<1>4. ttsQueue' \in Seq(Int) /\ view' \in History
  BY <1>1 DEF TypeOK, History
<1>5. answered' \subseteq Nat
  BY DEF Say, TypeOK
<1> QED BY <1>1, <1>3, <1>4, <1>5 DEF TypeOK, SessionTyped, NoTurn

LEMMA UserTurnTyped ==
  ASSUME TypeOK, HandleUserTurn
  PROVE  TypeOK'
<1> DEFINE t == [role |-> "user", text |-> Head(aiQueue)]
<1>1. /\ aiQueue # <<>> /\ ai' = Head(aiQueue) /\ aiQueue' = Tail(aiQueue)
      /\ UNCHANGED <<call, spoken, buffer, speaking, silence, stt, turn, said, ttsQueue, played, answered>>
  BY DEF HandleUserTurn, sttVars, ttsVars
<1>2. Head(aiQueue) \in Nat /\ Tail(aiQueue) \in Seq(Nat)
  BY <1>1, HeadTailProperties DEF TypeOK
<1>3. t \in Turn /\ SessionTyped
  BY <1>2 DEF Turn, TypeOK, SessionTyped
<1> HIDE DEF t
<1>4. SessionTyped' /\ view' \in History
  <2>1. CASE \E s \in Get \ {NoSession} : AddTurn(s, t) /\ view' = mem'
    BY <1>3, <2>1, AddTurnTyped
  <2>2. CASE \E s \in Get : /\ view' = (IF s = NoSession THEN <<>> ELSE s) /\ mem' = s
                            /\ redis' = redis /\ redisFails' = redisFails
    <3>1. PICK s \in Get : /\ view' = (IF s = NoSession THEN <<>> ELSE s) /\ mem' = s
                           /\ redis' = redis /\ redisFails' = redisFails
      BY <2>2
    <3>2. s \in History \union {NoSession} /\ <<>> \in History
      BY <1>3 DEF SessionTyped, Get, History
    <3> QED BY <1>3, <3>1, <3>2 DEF SessionTyped
  <2> QED BY <2>1, <2>2 DEF HandleUserTurn, t
<1> QED BY <1>1, <1>2, <1>4 DEF TypeOK, SessionTyped

LEMMA TypeStep == TypeOK /\ [Next]_vars => TypeOK'
<1> SUFFICES ASSUME TypeOK, [Next]_vars PROVE TypeOK'
  OBVIOUS
<1>t. /\ buffer \in Seq(Nat) /\ said \in Seq(Nat) /\ spoken \in Nat /\ silence \in Nat
      /\ turn \in Nat /\ stt \in Nat /\ aiQueue \in Seq(Nat) /\ SessionTyped
  BY DEF TypeOK, SessionTyped
<1>1. CASE HearSpeech \/ HearSilence
  <2>1. PICK x \in Nat : Flush(Append(buffer, x)) \/ \E run \in Nat : Keep(Append(buffer, x), run)
    BY <1>1, <1>t DEF HearSpeech, HearSilence
  <2>2. Append(buffer, x) \in Seq(Nat) /\ said \o Append(buffer, x) \in Seq(Nat)
    BY <1>t, AppendProperties, ConcatProperties
  <2>3. /\ buffer' \in Seq(Nat) /\ said' \in Seq(Nat) /\ speaking' \in BOOLEAN
        /\ silence' \in Nat /\ turn' \in Nat /\ stt' \in Nat
    <3> DEFINE frames == Append(buffer, x)
    <3>0. frames \in Seq(Nat) /\ said \o frames \in Seq(Nat)
      BY <2>2
    <3> HIDE DEF frames
    <3>1. ASSUME Flush(frames)
          PROVE  /\ buffer' = <<>> /\ said' = said \o frames /\ speaking' = FALSE
                 /\ silence' = 0 /\ turn' = turn + 1 /\ stt' = turn + 1
      BY <3>1 DEF Flush
    <3>2. ASSUME NEW run \in Nat, Keep(frames, run)
          PROVE  /\ buffer' = frames /\ said' = said /\ speaking' = TRUE
                 /\ silence' = run /\ turn' = turn /\ stt' = stt
      BY <3>2 DEF Keep
    <3>3. Flush(frames) \/ \E run \in Nat : Keep(frames, run)
      BY <2>1 DEF frames
    <3>4. <<>> \in Seq(Nat) /\ 0 \in Nat /\ turn + 1 \in Nat
      BY <1>t
    <3> QED BY <1>t, <3>0, <3>1, <3>2, <3>3, <3>4
  <2>4. spoken' \in Nat /\ UNCHANGED <<call, aiVars, ttsVars, sessionVars>>
    BY <1>1, <1>t DEF HearSpeech, HearSilence
  <2> QED BY <2>3, <2>4 DEF TypeOK, aiVars, ttsVars, sessionVars
<1>2. CASE Transcribed \/ NotTranscribed
  <2>1. /\ aiQueue' = aiQueue \/ aiQueue' = Append(aiQueue, stt)
        /\ stt' = 0
        /\ UNCHANGED <<call, spoken, buffer, speaking, silence, turn, said, ai, view, ttsVars,
                       sessionVars>>
    BY <1>2 DEF Transcribed, NotTranscribed, aiVars
  <2>2. Append(aiQueue, stt) \in Seq(Nat) /\ 0 \in Nat
    BY <1>t, AppendProperties
  <2>3. aiQueue' \in Seq(Nat) /\ stt' \in Nat
    BY <1>t, <2>1, <2>2
  <2> QED BY <2>1, <2>3 DEF TypeOK, ttsVars, sessionVars
<1>3. CASE Greet
  <2>1. Tail(aiQueue) \in Seq(Nat) /\ <<>> \in History
    BY <1>3, <1>t, HeadTailProperties DEF Greet, History
  <2> QED BY <1>3, <2>1 DEF Greet, TypeOK, Greeting, sttVars, ttsVars, sessionVars
<1>4. CASE HandleUserTurn
  BY <1>4, UserTurnTyped
<1>5. CASE Respond \/ RespondSorry
  <2>1. GenerateResponse(view) \in Int /\ Sorry \in Int
    BY ResponseTyped DEF TypeOK, Sorry
  <2> QED BY <1>5, <2>1, SayTyped DEF Respond, RespondSorry
<1>6. CASE Synthesize \/ SynthesizeFails
  <2>1. ttsQueue \in Seq(Int) /\ ttsQueue # <<>> /\ played \in Seq(Int)
    BY <1>6 DEF TypeOK, Synthesize, SynthesizeFails
  <2>2. Tail(ttsQueue) \in Seq(Int) /\ Append(played, Head(ttsQueue)) \in Seq(Int)
    BY <2>1, HeadTailProperties, AppendProperties
  <2> QED BY <1>6, <2>2 DEF Synthesize, SynthesizeFails, TypeOK, sttVars, aiVars, sessionVars
<1>7. CASE CallbackEnds \/ RedisExpires
  <2>1. SessionTyped'
    BY <1>7, <1>t, DropTyped DEF CallbackEnds, RedisExpires, SessionTyped
  <2> QED BY <1>7, <2>1 DEF CallbackEnds, RedisExpires, TypeOK, SessionTyped, sttVars, aiVars,
                            ttsVars
<1>8. CASE HangUp
  <2>1. SessionTyped'
    BY <1>8, <1>t, DropTyped DEF HangUp, SessionTyped, sessionVars
  <2>2. <<>> \in Seq(Nat) /\ <<>> \in Seq(Int) /\ <<>> \in History
    BY DEF History
  <2> QED BY <1>8, <2>1, <2>2 DEF HangUp, TypeOK, SessionTyped, NoTurn
<1>9. CASE UNCHANGED vars
  BY <1>9 DEF vars, sttVars, aiVars, ttsVars, sessionVars, TypeOK
<1> QED BY <1>1, <1>2, <1>3, <1>4, <1>5, <1>6, <1>7, <1>8, <1>9 DEF Next

\* The three processors, their queues and the session keep their types, also
\* when Redis fails: a provider never sees a history that is none.
THEOREM ConversationTyped == Spec => []TypeOK
<1>1. Init => TypeOK
  <2> SUFFICES ASSUME Init PROVE TypeOK
    OBVIOUS
  <2>1. <<>> \in Seq(Nat) /\ <<>> \in Seq(Int) /\ <<>> \in History /\ <<Greeting>> \in Seq(Nat)
    BY DEF History, Greeting
  <2> QED BY <2>1 DEF Init, TypeOK, NoTurn
<1> QED BY <1>1, TypeStep, PTL DEF Spec

-----------------------------------------------------------------------------
(* Sequences in which what counts (is positive) rises.                     *)

Rising(s) == \A i, j \in 1 .. Len(s) : i < j /\ s[i] > 0 /\ s[j] > 0 => s[i] < s[j]
Elements(s) == {s[i] : i \in 1 .. Len(s)}

\* What counts in S comes before what counts in T.
Ahead(S, T) == \A x \in S, y \in T : x > 0 /\ y > 0 => x < y

LEMMA AppendElements ==
  ASSUME NEW s \in Seq(Int), NEW x \in Int
  PROVE  Elements(Append(s, x)) = Elements(s) \union {x}
<1>1. /\ Len(Append(s, x)) = Len(s) + 1 /\ Len(s) \in Nat
      /\ \A i \in 1 .. Len(s) : Append(s, x)[i] = s[i]
      /\ Append(s, x)[Len(s) + 1] = x
  BY AppendProperties, LenProperties
<1>2. ASSUME NEW i \in 1 .. Len(s) + 1 PROVE Append(s, x)[i] \in Elements(s) \union {x}
  <2>1. i \in 1 .. Len(s) \/ i = Len(s) + 1
    BY <1>1
  <2> QED BY <1>1, <2>1 DEF Elements
<1>3. ASSUME NEW i \in 1 .. Len(s) PROVE \E j \in 1 .. Len(s) + 1 : s[i] = Append(s, x)[j]
  <2>1. i \in 1 .. Len(s) + 1
    BY <1>1
  <2> QED BY <1>1, <2>1
<1>4. Len(s) + 1 \in 1 .. Len(s) + 1
  BY <1>1
<1> QED BY <1>1, <1>2, <1>3, <1>4 DEF Elements

LEMMA AppendRises ==
  ASSUME NEW s \in Seq(Int), NEW x \in Int, Rising(s), Ahead(Elements(s), {x})
  PROVE  Rising(Append(s, x))
<1>1. /\ Len(Append(s, x)) = Len(s) + 1 /\ Len(s) \in Nat
      /\ \A i \in 1 .. Len(s) : Append(s, x)[i] = s[i]
      /\ Append(s, x)[Len(s) + 1] = x
  BY AppendProperties, LenProperties
<1> SUFFICES ASSUME NEW i \in 1 .. Len(s) + 1, NEW j \in 1 .. Len(s) + 1, i < j,
                    Append(s, x)[i] > 0, Append(s, x)[j] > 0
             PROVE  Append(s, x)[i] < Append(s, x)[j]
  BY <1>1 DEF Rising
<1>2. i \in 1 .. Len(s) /\ (j \in 1 .. Len(s) \/ j = Len(s) + 1)
  BY <1>1
<1>3. s[i] \in Elements(s)
  BY <1>2 DEF Elements
<1>4. CASE j \in 1 .. Len(s)
  BY <1>1, <1>2, <1>4 DEF Rising
<1>5. CASE j = Len(s) + 1
  BY <1>1, <1>2, <1>3, <1>5 DEF Ahead
<1> QED BY <1>2, <1>4, <1>5

\* Taking the first element: the rest rises, after it.
LEMMA TailRises ==
  ASSUME NEW s \in Seq(Int), s # <<>>, Rising(s)
  PROVE  /\ Rising(Tail(s)) /\ Elements(Tail(s)) \subseteq Elements(s)
         /\ Head(s) \in Elements(s) /\ Ahead({Head(s)}, Elements(Tail(s)))
<1>1. /\ Len(Tail(s)) = Len(s) - 1 /\ Len(s) \in Nat \ {0} /\ Head(s) = s[1]
      /\ \A i \in 1 .. Len(Tail(s)) : Tail(s)[i] = s[i + 1]
  BY HeadTailProperties, LenProperties, EmptySeq
<1>2. \A i \in 1 .. Len(Tail(s)) : i + 1 \in 1 .. Len(s) /\ 1 < i + 1
  BY <1>1
<1>3. 1 \in 1 .. Len(s)
  BY <1>1
<1>4. Rising(Tail(s))
  <2> SUFFICES ASSUME NEW i \in 1 .. Len(Tail(s)), NEW j \in 1 .. Len(Tail(s)), i < j,
                      Tail(s)[i] > 0, Tail(s)[j] > 0
               PROVE  Tail(s)[i] < Tail(s)[j]
    BY DEF Rising
  <2>1. i + 1 < j + 1
    BY <1>1
  <2> QED BY <1>1, <1>2, <2>1 DEF Rising
<1>5. Elements(Tail(s)) \subseteq Elements(s) /\ Head(s) \in Elements(s)
  BY <1>1, <1>2, <1>3 DEF Elements
<1>6. Ahead({Head(s)}, Elements(Tail(s)))
  BY <1>1, <1>2, <1>3 DEF Ahead, Elements, Rising
<1> QED BY <1>4, <1>5, <1>6

\* Leaving out the first of the second part.
LEMMA SkipRises ==
  ASSUME NEW p \in Seq(Int), NEW q \in Seq(Int), q # <<>>, Rising(p \o q)
  PROVE  Rising(p \o Tail(q)) /\ Elements(p \o Tail(q)) \subseteq Elements(p \o q)
<1> DEFINE s == p \o q
           t == p \o Tail(q)
<1>1. /\ Tail(q) \in Seq(Int) /\ Len(Tail(q)) = Len(q) - 1 /\ Len(q) \in Nat \ {0} /\ Len(p) \in Nat
      /\ \A i \in 1 .. Len(Tail(q)) : Tail(q)[i] = q[i + 1]
  BY HeadTailProperties, LenProperties, EmptySeq
<1>2. /\ Len(s) = Len(p) + Len(q)
      /\ \A i \in 1 .. Len(p) + Len(q) : s[i] = IF i <= Len(p) THEN p[i] ELSE q[i - Len(p)]
  BY ConcatProperties
<1>3. /\ Len(t) = Len(p) + Len(q) - 1
      /\ \A i \in 1 .. Len(p) + Len(q) - 1 :
           t[i] = IF i <= Len(p) THEN p[i] ELSE Tail(q)[i - Len(p)]
  BY <1>1, ConcatProperties
<1> HIDE DEF s, t
<1> DEFINE at(i) == IF i <= Len(p) THEN i ELSE i + 1
<1>4. \A i \in 1 .. Len(t) : at(i) \in 1 .. Len(s) /\ t[i] = s[at(i)]
  <2> TAKE i \in 1 .. Len(t)
  <2>1. CASE i <= Len(p)
    BY <1>1, <1>2, <1>3, <2>1
  <2>2. CASE i > Len(p)
    <3>1. i - Len(p) \in 1 .. Len(Tail(q)) /\ i + 1 \in 1 .. Len(s) /\ ~(i + 1 <= Len(p))
      BY <1>1, <1>2, <1>3, <2>2
    <3>2. t[i] = q[i - Len(p) + 1] /\ s[i + 1] = q[i + 1 - Len(p)]
      BY <1>1, <1>2, <1>3, <2>2, <3>1
    <3> QED BY <1>1, <1>3, <2>2, <3>1, <3>2
  <2> QED BY <1>1, <1>3, <2>1, <2>2
<1>5. \A i, j \in 1 .. Len(t) : i < j => at(i) < at(j)
  BY <1>1, <1>3
<1>6. Rising(s)
  BY DEF s
<1> HIDE DEF at
<1>7. Rising(t) /\ Elements(t) \subseteq Elements(s)
  BY <1>4, <1>5, <1>6 DEF Rising, Elements
<1> QED BY <1>7 DEF s, t

LEMMA PrefixRises ==
  ASSUME NEW p \in Seq(Int), NEW q \in Seq(Int), Rising(p \o q)
  PROVE  Rising(p) /\ Elements(p) \subseteq Elements(p \o q)
<1>1. /\ Len(p \o q) = Len(p) + Len(q) /\ Len(p) \in Nat /\ Len(q) \in Nat
      /\ \A i \in 1 .. Len(p) + Len(q) : (p \o q)[i] = IF i <= Len(p) THEN p[i] ELSE q[i - Len(p)]
  BY ConcatProperties, LenProperties
<1>2. \A i \in 1 .. Len(p) : i \in 1 .. Len(p \o q) /\ (p \o q)[i] = p[i]
  BY <1>1
<1> QED BY <1>2 DEF Rising, Elements

-----------------------------------------------------------------------------
(* Speech between two turns.                                               *)

\* Everything heard so far, handed over or still in the buffer.
Heard == said \o buffer

SpeechInv ==
  call = "talking" => /\ Rising(Heard) /\ Elements(Heard) \subseteq 0 .. spoken
                      /\ 1 .. spoken \subseteq Elements(Heard)

\* A frame is kept or flushed: either way it is heard next.
LEMMA HeardGrows ==
  ASSUME TypeOK, NEW x \in Nat,
         Flush(Append(buffer, x)) \/ \E run : Keep(Append(buffer, x), run)
  PROVE  Heard' = Append(Heard, x)
<1>1. said \in Seq(Nat) /\ buffer \in Seq(Nat) /\ Append(buffer, x) \in Seq(Nat) /\ <<x>> \in Seq(Nat)
  BY AppendProperties DEF TypeOK
<1>2. said \o Append(buffer, x) = Append(Heard, x)
  <2>1. Append(buffer, x) = buffer \o <<x>> /\ Append(Heard, x) = Heard \o <<x>>
    BY <1>1, AppendIsConcat, ConcatProperties DEF Heard
  <2> QED BY <1>1, <2>1, ConcatAssociative DEF Heard
<1>3. said \o Append(buffer, x) \in Seq(Nat)
  BY <1>1, ConcatProperties
<1>4. CASE Flush(Append(buffer, x))
  <2>1. said' = said \o Append(buffer, x) /\ buffer' = <<>>
    BY <1>4 DEF Flush
  <2> QED BY <1>2, <1>3, <2>1, ConcatEmptySeq DEF Heard
<1>5. CASE \E run : Keep(Append(buffer, x), run)
  BY <1>2, <1>5 DEF Keep, Heard
<1> QED BY <1>4, <1>5

LEMMA SpeechStep == TypeOK /\ SpeechInv /\ [Next]_vars => SpeechInv'
<1> SUFFICES ASSUME TypeOK, SpeechInv, [Next]_vars, call' = "talking"
             PROVE  /\ Rising(Heard') /\ Elements(Heard') \subseteq 0 .. spoken'
                    /\ 1 .. spoken' \subseteq Elements(Heard')
  BY DEF SpeechInv, Rising, Elements
<1>t. Heard \in Seq(Int) /\ spoken \in Nat
  <2>1. said \in Seq(Nat) /\ buffer \in Seq(Nat) /\ spoken \in Nat
    BY DEF TypeOK
  <2>2. Heard \in Seq(Nat)
    BY <2>1, ConcatProperties DEF Heard
  <2> QED BY <2>1, <2>2, SeqMonotonic
<1>1. CASE HearSpeech
  <2> DEFINE x == spoken + 1
  <2>1. call = "talking" /\ spoken' = x /\ x \in Nat
    BY <1>1, <1>t DEF HearSpeech
  <2>2. Flush(Append(buffer, x)) \/ \E run : Keep(Append(buffer, x), run)
    BY <1>1 DEF HearSpeech
  <2>3. Heard' = Append(Heard, x)
    BY <2>1, <2>2, HeardGrows
  <2>4. /\ Rising(Heard) /\ Elements(Heard) \subseteq 0 .. spoken
        /\ 1 .. spoken \subseteq Elements(Heard)
    BY <2>1 DEF SpeechInv
  <2>5. Ahead(Elements(Heard), {x})
    BY <1>t, <2>4 DEF Ahead
  <2>6. Rising(Heard') /\ Elements(Heard') = Elements(Heard) \union {x}
    BY <1>t, <2>1, <2>3, <2>4, <2>5, AppendRises, AppendElements
  <2> QED BY <1>t, <2>1, <2>4, <2>6
<1>2. CASE HearSilence
  <2>1. call = "talking" /\ spoken' = spoken
    BY <1>2 DEF HearSilence
  <2>2. Flush(Append(buffer, 0)) \/ \E run : Keep(Append(buffer, 0), run)
    BY <1>2 DEF HearSilence
  <2>3. Heard' = Append(Heard, 0)
    BY <2>2, HeardGrows
  <2>4. /\ Rising(Heard) /\ Elements(Heard) \subseteq 0 .. spoken
        /\ 1 .. spoken \subseteq Elements(Heard)
    BY <2>1 DEF SpeechInv
  <2>5. Ahead(Elements(Heard), {0})
    BY DEF Ahead
  <2>6. Rising(Heard') /\ Elements(Heard') = Elements(Heard) \union {0}
    BY <1>t, <2>3, <2>4, <2>5, AppendRises, AppendElements
  <2> QED BY <1>t, <2>1, <2>4, <2>6
<1>3. ASSUME Next, ~HearSpeech, ~HearSilence PROVE UNCHANGED <<call, spoken, said, buffer>>
  BY <1>3 DEF Next, Transcribed, NotTranscribed, Greet, HandleUserTurn, Respond, RespondSorry,
              Say, Synthesize, SynthesizeFails, CallbackEnds, RedisExpires, HangUp, sttVars
<1>4. CASE UNCHANGED <<call, spoken, said, buffer>>
  BY <1>4 DEF SpeechInv, Heard
<1>5. CASE UNCHANGED vars
  BY <1>4, <1>5 DEF vars, sttVars
<1> QED BY <1>1, <1>2, <1>3, <1>4, <1>5

\* STTProcessor: every frame of speech is handed to the transcription, once
\* and in order, or is still in the buffer, wherever the turns are cut.
THEOREM SpeechIsNeverLost == Spec => []NoSpeechLost
<1>1. Init => SpeechInv
  <2> SUFFICES ASSUME Init PROVE Len(Heard) = 0 /\ spoken = 0
    BY DEF SpeechInv, Rising, Elements
  <2>1. said = <<>> /\ buffer = <<>> /\ spoken = 0
    BY DEF Init
  <2>2. Heard = <<>>
    BY <2>1, EmptySeq, ConcatEmptySeq DEF Heard
  <2> QED BY <2>1, <2>2, EmptySeq
<1>2. TypeOK /\ SpeechInv => NoSpeechLost
  <2> SUFFICES ASSUME TypeOK, SpeechInv PROVE NoSpeechLost
    OBVIOUS
  <2>1. said \in Seq(Nat) /\ buffer \in Seq(Nat)
    BY DEF TypeOK
  <2>2. Heard \in Seq(Nat) /\ DOMAIN Heard = 1 .. Len(Heard) /\ \A i \in 1 .. Len(Heard) : Heard[i] \in Nat
    BY <2>1, ConcatProperties, LenProperties, ElementOfSeq DEF Heard
  <2>3. ASSUME call = "talking", NEW n \in 1 .. spoken PROVE \E i \in DOMAIN Heard : Heard[i] = n
    BY <2>2, <2>3 DEF SpeechInv, Elements
  <2>4. ASSUME call = "talking", NEW i \in DOMAIN Heard, NEW j \in DOMAIN Heard, i < j,
               Heard[i] # 0, Heard[j] # 0
        PROVE  Heard[i] < Heard[j]
    BY <2>2, <2>4 DEF SpeechInv, Rising
  <2> QED BY <2>3, <2>4 DEF NoSpeechLost, Heard
<1> QED BY <1>1, <1>2, SpeechStep, ConversationTyped, PTL DEF Spec

-----------------------------------------------------------------------------
(* The order of the replies.                                               *)

\* Everything the caller has been or is about to be told.
Replies == played \o ttsQueue

\* The turn being answered is the last the provider sees, if it sees any.
ViewStands ==
  ai > 0 => view = <<>> \/ (Len(view) > 0 /\ view[Len(view)].role = "user"
                            /\ view[Len(view)].text = ai)

\* The turns in the pipeline, from the replies back to the transcription,
\* follow each other in the order in which they were spoken.
PipelineInv ==
  /\ Rising(Replies) /\ Rising(aiQueue)
  /\ Ahead(Elements(Replies), {ai, stt, turn + 1} \union Elements(aiQueue))
  /\ Ahead({ai}, {stt, turn + 1} \union Elements(aiQueue))
  /\ Ahead(Elements(aiQueue), {stt, turn + 1})
  /\ Ahead({stt}, {turn + 1})
  /\ ViewStands

LEMMA RepliesTyped ==
  ASSUME TypeOK
  PROVE  /\ Replies \in Seq(Int) /\ aiQueue \in Seq(Int)
         /\ ai \in Int /\ stt \in Int /\ turn \in Nat
         /\ Elements(Replies) \subseteq Int /\ Elements(aiQueue) \subseteq Nat
<1>1. Replies \in Seq(Int)
  BY ConcatProperties DEF TypeOK, Replies
<1>2. aiQueue \in Seq(Nat) /\ aiQueue \in Seq(Int)
  BY SeqMonotonic DEF TypeOK
<1>3. Elements(Replies) \subseteq Int /\ Elements(aiQueue) \subseteq Nat
  BY <1>1, <1>2, ElementOfSeq DEF Elements
<1> QED BY <1>1, <1>2, <1>3 DEF TypeOK, NoTurn

\* The reply is to the turn taken up, or names no turn.
LEMMA ReplyIsOwn ==
  ASSUME TypeOK, AnswerInv, PipelineInv, ai # NoTurn
  PROVE  GenerateResponse(view) \in {Greeting, ai}
<1>1. view \in History /\ ai \in Nat
  BY DEF TypeOK
<1>2. CASE view = <<>>
  BY <1>2, AnswersNothing
<1>3. CASE view # <<>>
  <2>1. ai > 0
    BY <1>1, <1>3 DEF AnswerInv, Greeting
  <2>2. Len(view) > 0 /\ view[Len(view)].role = "user" /\ view[Len(view)].text = ai
    BY <1>3, <2>1 DEF PipelineInv, ViewStands
  <2> QED BY <1>1, <2>2, AnswersLastTurn
<1> QED BY <1>2, <1>3

LEMMA PipelineStep ==
  ~redisFails /\ TypeOK /\ AnswerInv /\ PipelineInv /\ [Next]_vars => PipelineInv'
<1> SUFFICES ASSUME ~redisFails, TypeOK, AnswerInv, PipelineInv, [Next]_vars PROVE PipelineInv'
  OBVIOUS
<1>t. /\ Replies \in Seq(Int) /\ aiQueue \in Seq(Int)
      /\ ai \in Int /\ stt \in Int /\ turn \in Nat
      /\ Elements(Replies) \subseteq Int /\ Elements(aiQueue) \subseteq Nat
  BY RepliesTyped
<1>i. /\ Rising(Replies) /\ Rising(aiQueue)
      /\ Ahead(Elements(Replies), {ai, stt, turn + 1} \union Elements(aiQueue))
      /\ Ahead({ai}, {stt, turn + 1} \union Elements(aiQueue))
      /\ Ahead(Elements(aiQueue), {stt, turn + 1})
      /\ Ahead({stt}, {turn + 1})
      /\ ViewStands
  BY DEF PipelineInv
\* Nothing moves but, perhaps, the transcription: cut off or begun.
<1>0. ASSUME Replies' = Replies, UNCHANGED aiVars,
             \/ stt' = stt /\ turn' = turn
             \/ stt' = 0 /\ turn' = turn
             \/ stt' = turn + 1 /\ turn' = turn + 1
      PROVE  PipelineInv'
  <2>1. Replies' = Replies /\ aiQueue' = aiQueue /\ ai' = ai /\ view' = view
    BY <1>0 DEF aiVars
  <2>2. Rising(Replies') /\ Rising(aiQueue') /\ ViewStands'
    BY <1>i, <2>1 DEF ViewStands
  <2>3. \A x \in Int : Ahead({x}, {stt, turn + 1}) => Ahead({x}, {stt', turn' + 1})
    BY <1>0, <1>t DEF Ahead
  <2>4. /\ Ahead(Elements(Replies), {ai, stt', turn' + 1} \union Elements(aiQueue))
        /\ Ahead({ai}, {stt', turn' + 1} \union Elements(aiQueue))
        /\ Ahead(Elements(aiQueue), {stt', turn' + 1})
    BY <1>t, <1>i, <2>3 DEF Ahead
  <2>5. Ahead({stt'}, {turn' + 1})
    BY <1>0, <1>t, <1>i DEF Ahead
  <2> QED BY <2>1, <2>2, <2>4, <2>5 DEF PipelineInv
<1>1. CASE HearSpeech \/ HearSilence
  <2>1. UNCHANGED aiVars /\ Replies' = Replies
    BY <1>1 DEF HearSpeech, HearSilence, ttsVars, Replies
  <2>2. (stt' = stt /\ turn' = turn) \/ (stt' = turn + 1 /\ turn' = turn + 1)
    BY <1>1 DEF HearSpeech, HearSilence, Flush, Keep
  <2> QED BY <1>0, <2>1, <2>2
<1>2. CASE NotTranscribed \/ CallbackEnds \/ RedisExpires \/ UNCHANGED vars
  <2>1. UNCHANGED aiVars /\ Replies' = Replies /\ turn' = turn /\ (stt' = stt \/ stt' = 0)
    BY <1>2 DEF NotTranscribed, CallbackEnds, RedisExpires, vars, ttsVars, sttVars, Replies
  <2> QED BY <1>0, <2>1
<1>3. CASE Synthesize
  <2>1. /\ ttsQueue # <<>> /\ played' = Append(played, Head(ttsQueue)) /\ ttsQueue' = Tail(ttsQueue)
        /\ UNCHANGED aiVars /\ stt' = stt /\ turn' = turn
    BY <1>3 DEF Synthesize, sttVars
  <2>2. played \in Seq(Int) /\ ttsQueue \in Seq(Int)
    BY DEF TypeOK
  <2>3. Head(ttsQueue) \in Int /\ Tail(ttsQueue) \in Seq(Int) /\ <<Head(ttsQueue)>> \in Seq(Int)
    BY <2>1, <2>2, HeadTailProperties
  <2>4. Append(played, Head(ttsQueue)) = played \o <<Head(ttsQueue)>>
    BY <2>2, <2>3, AppendIsConcat
  <2>5. <<Head(ttsQueue)>> \o Tail(ttsQueue) = ttsQueue
    BY <2>1, <2>2
  <2>6. Replies' = Replies
    BY <2>1, <2>2, <2>3, <2>4, <2>5, ConcatAssociative DEF Replies
  <2> QED BY <1>0, <2>1, <2>6
<1>4. CASE SynthesizeFails
  <2>1. /\ ttsQueue # <<>> /\ played' = played /\ ttsQueue' = Tail(ttsQueue)
        /\ aiQueue' = aiQueue /\ ai' = ai /\ view' = view /\ stt' = stt /\ turn' = turn
    BY <1>4 DEF SynthesizeFails, sttVars, aiVars
  <2>2. Rising(Replies') /\ Elements(Replies') \subseteq Elements(Replies)
    BY <1>i, <2>1, SkipRises DEF Replies, TypeOK
  <2>3. ViewStands'
    BY <1>i, <2>1 DEF ViewStands
  <2>4. Ahead(Elements(Replies'), {ai, stt, turn + 1} \union Elements(aiQueue))
    BY <1>i, <2>2 DEF Ahead
  <2> QED BY <1>i, <2>1, <2>2, <2>3, <2>4 DEF PipelineInv
<1>5. CASE Transcribed
  <2>1. /\ aiQueue' = Append(aiQueue, stt) /\ stt' = 0 /\ turn' = turn /\ ai' = ai /\ view' = view
        /\ Replies' = Replies
    BY <1>5 DEF Transcribed, ttsVars, Replies
  <2>2. Ahead(Elements(aiQueue), {stt})
    BY <1>i DEF Ahead
  <2>3. Rising(aiQueue') /\ Elements(aiQueue') = Elements(aiQueue) \union {stt}
    BY <1>t, <1>i, <2>1, <2>2, AppendRises, AppendElements
  <2>4. ViewStands'
    BY <1>i, <2>1 DEF ViewStands
  <2>5. /\ Ahead(Elements(Replies), {ai, 0, turn + 1} \union Elements(aiQueue'))
        /\ Ahead({ai}, {0, turn + 1} \union Elements(aiQueue'))
        /\ Ahead(Elements(aiQueue'), {0, turn + 1})
        /\ Ahead({0}, {turn + 1})
    BY <1>i, <2>3 DEF Ahead
  <2> QED BY <1>i, <2>1, <2>3, <2>4, <2>5 DEF PipelineInv
<1>6. CASE Greet \/ HandleUserTurn
  <2>1. /\ aiQueue # <<>> /\ ai' = Head(aiQueue) /\ aiQueue' = Tail(aiQueue)
        /\ stt' = stt /\ turn' = turn /\ Replies' = Replies
    BY <1>6 DEF Greet, HandleUserTurn, Greeting, sttVars, ttsVars, Replies
  <2>2. /\ Rising(aiQueue') /\ Elements(aiQueue') \subseteq Elements(aiQueue)
        /\ ai' \in Elements(aiQueue) /\ Ahead({ai'}, Elements(aiQueue'))
    BY <1>t, <1>i, <2>1, TailRises
  <2>3. ViewStands'
    <3>1. CASE Greet
      BY <3>1 DEF Greet, Greeting, ViewStands
    <3>2. CASE HandleUserTurn /\ mem = NoSession
      <4>1. view' = <<>>
        BY <3>2 DEF HandleUserTurn, Get, AnswerInv
      <4> QED BY <4>1 DEF ViewStands
    <3>3. CASE HandleUserTurn /\ mem # NoSession
      <4> DEFINE t == [role |-> "user", text |-> Head(aiQueue)]
      <4>1. mem \in History /\ t \in Turn /\ t.role = "user" /\ t.text = ai'
        <5>1. Head(aiQueue) \in Int
          BY <1>t, <2>1, HeadTailProperties
        <5> QED BY <2>1, <3>3, <5>1 DEF TypeOK, Turn
      <4>2. mem' = Append(mem, t) /\ view' = mem'
        BY <3>3 DEF HandleUserTurn, Get, AddTurn, MayFail
      <4> HIDE DEF t
      <4>3. Len(view') = Len(mem) + 1 /\ Len(mem) \in Nat /\ view'[Len(mem) + 1] = t
        BY <4>1, <4>2, AppendProperties, LenProperties DEF History
      <4> QED BY <4>1, <4>3 DEF ViewStands
    <3> QED BY <1>6, <3>1, <3>2, <3>3
  <2>4. /\ Ahead(Elements(Replies), {ai', stt, turn + 1} \union Elements(aiQueue'))
        /\ Ahead({ai'}, {stt, turn + 1} \union Elements(aiQueue'))
        /\ Ahead(Elements(aiQueue'), {stt, turn + 1})
    BY <1>i, <2>2 DEF Ahead
  <2> QED BY <1>i, <2>1, <2>2, <2>3, <2>4 DEF PipelineInv
<1>7. CASE Respond \/ RespondSorry
  <2>1. PICK response \in {Sorry, Greeting, ai} : Say(response)
    BY <1>7, ReplyIsOwn DEF Respond, RespondSorry
  <2>2. /\ ttsQueue' = Append(ttsQueue, response) /\ played' = played /\ ai' = NoTurn
        /\ view' = <<>> /\ aiQueue' = aiQueue /\ stt' = stt /\ turn' = turn
    BY <2>1 DEF Say, sttVars
  <2>3. response \in Int /\ (response > 0 => response = ai)
    BY <1>t DEF Sorry, Greeting
  <2>4. Replies' = Append(Replies, response)
    <3>1. played \in Seq(Int) /\ ttsQueue \in Seq(Int) /\ <<response>> \in Seq(Int)
      BY <2>3 DEF TypeOK
    <3>2. /\ Append(ttsQueue, response) = ttsQueue \o <<response>>
          /\ Append(Replies, response) = Replies \o <<response>>
      BY <1>t, <2>3, <3>1, AppendIsConcat
    <3> QED BY <2>2, <3>1, <3>2, ConcatAssociative DEF Replies
  <2>5. Ahead(Elements(Replies), {response})
    BY <1>i, <2>3 DEF Ahead
  <2>6. Rising(Replies') /\ Elements(Replies') = Elements(Replies) \union {response}
    BY <1>t, <1>i, <2>3, <2>4, <2>5, AppendRises, AppendElements
  <2>7. ViewStands'
    BY <2>2 DEF ViewStands
  <2>8. /\ Ahead(Elements(Replies'), {NoTurn, stt, turn + 1} \union Elements(aiQueue))
        /\ Ahead({NoTurn}, {stt, turn + 1} \union Elements(aiQueue))
    BY <1>i, <2>3, <2>6 DEF Ahead, NoTurn
  <2> QED BY <1>i, <2>2, <2>6, <2>7, <2>8 DEF PipelineInv
<1>8. CASE HangUp
  <2>1. /\ played' = played /\ ttsQueue' = <<>> /\ aiQueue' = <<>> /\ ai' = NoTurn
        /\ view' = <<>> /\ stt' = 0 /\ turn' = turn
    BY <1>8 DEF HangUp
  <2>2. Replies' = played
    BY <2>1, ConcatEmptySeq DEF Replies, TypeOK
  <2>3. Rising(played) /\ Elements(played) \subseteq Elements(Replies)
    BY <1>i, PrefixRises DEF Replies, TypeOK
  <2>4. Rising(aiQueue') /\ Elements(aiQueue') = {}
    <3>1. Len(aiQueue') = 0
      BY <2>1, EmptySeq
    <3> QED BY <3>1 DEF Rising, Elements
  <2>5. /\ Ahead(Elements(played), {NoTurn, 0, turn + 1} \union {})
        /\ Ahead({NoTurn}, {0, turn + 1} \union {}) /\ Ahead({0}, {turn + 1})
        /\ Ahead({}, {0, turn + 1})
    BY <1>i, <2>3 DEF Ahead, NoTurn
  <2> QED BY <2>1, <2>2, <2>3, <2>4, <2>5 DEF PipelineInv, ViewStands
<1> QED BY <1>1, <1>2, <1>3, <1>4, <1>5, <1>6, <1>7, <1>8 DEF Next

\* With a working Redis the replies name the caller's turns in the order they
\* were spoken and none twice, although the three processors run concurrently
\* and responses, transcriptions and sessions get lost on the way.
THEOREM RepliesKeepOrder == Spec => []RepliesInOrder
<1> DEFINE Inv == ~redisFails => AnswerInv /\ PipelineInv
<1>1. Init => PipelineInv
  <2> SUFFICES ASSUME Init PROVE PipelineInv
    OBVIOUS
  <2>1. /\ played = <<>> /\ ttsQueue = <<>> /\ aiQueue = <<Greeting>> /\ ai = NoTurn /\ stt = 0
        /\ turn = 0
    BY DEF Init
  <2>2. Len(Replies) = 0
    BY <2>1, EmptySeq, ConcatEmptySeq DEF Replies
  <2>3. Rising(Replies) /\ Elements(Replies) = {}
    BY <2>2 DEF Rising, Elements
  <2>4. Rising(aiQueue) /\ Elements(aiQueue) = {0}
    <3>1. Len(aiQueue) = 1 /\ aiQueue[1] = 0
      BY <2>1 DEF Greeting
    <3> QED BY <3>1 DEF Rising, Elements
  <2> QED BY <2>1, <2>3, <2>4 DEF PipelineInv, Ahead, ViewStands, NoTurn
<1>2. TypeOK /\ Inv => RepliesInOrder
  <2> SUFFICES ASSUME TypeOK, Inv, ~redisFails PROVE RepliesInOrder
    BY DEF RepliesInOrder
  <2>1. DOMAIN Replies = 1 .. Len(Replies)
    BY RepliesTyped, LenProperties
  <2> QED BY <2>1 DEF PipelineInv, Rising, Replies, RepliesInOrder
<1>3. TypeOK /\ Inv /\ [Next]_vars => Inv'
  BY PipelineStep, AnswerStep, FailsFixed
<1>4. Init => Inv
  BY <1>1, AnswerInit
<1> QED BY <1>2, <1>3, <1>4, ConversationTyped, PTL DEF Spec

=============================================================================
