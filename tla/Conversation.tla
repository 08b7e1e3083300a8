---------------------------- MODULE Conversation ----------------------------
(***************************************************************************)
(* The spoken dialogue of one call: STTProcessor, AIProcessor and          *)
(* TTSProcessor (services/voice-gateway/conversation.py), chained by       *)
(* _run_call, and the turn history they keep in the call's session         *)
(* (_GatewaySessionManager.add_turn).                                      *)
(*                                                                         *)
(* Each processor handles its frames one at a time and in order, while the *)
(* others work; the history is touched before and after the AI provider is *)
(* awaited, and the Exotel callback may remove the session in between.     *)
(* A frame of speech is its number, 0 is a frame of silence; what is said  *)
(* in a turn is named by the number of the turn.                           *)
(***************************************************************************)
EXTENDS Integers, Sequences, SequencesExt

CONSTANTS
  SilenceFrames,  \* silence_frames_to_end_turn
  MaxFrames,      \* max_buffer_seconds, in frames
  MaxSpeech,      \* bound: frames of speech in a call
  NoSession

ASSUME LimitsPositive == SilenceFrames \in Nat \ {0} /\ MaxFrames \in Nat \ {0}
ASSUME SpeechNatural == MaxSpeech \in Nat

VARIABLES
  call,      \* of _run_call: "talking", then "over"
  spoken,    \* frames of speech the caller has produced
  buffer, speaking, silence,  \* STTProcessor: _buffer, _speaking, _silence_run
  stt,       \* the turn being transcribed, 0 for none
  turn,      \* turns flushed so far
  said,      \* the audio handed to the STT provider, all turns together
  aiQueue, ai, ttsQueue,      \* frames waiting, and the turn being answered
  view,      \* the history handed to the AI provider
  played,    \* responses that became audio
  answered,  \* history: turns for which a response was pushed to TTSProcessor
  mem, redis,  \* the session's turns in the process and in Redis
  redisFails \* whether Redis commands may fail during this call

sttVars == <<spoken, buffer, speaking, silence, stt, turn, said>>
aiVars == <<aiQueue, ai, view>>
ttsVars == <<ttsQueue, played, answered>>
sessionVars == <<mem, redis, redisFails>>
vars == <<call, sttVars, aiVars, ttsVars, sessionVars>>

-----------------------------------------------------------------------------
Greeting == 0  \* the StartFrame, and the response to an empty history
Sorry == -1    \* the response when the AI provider fails
NoTurn == -2   \* AIProcessor is idle

Turn == [role : {"user", "assistant"}, text : Int]
History == Seq(Turn)

ASSUME NoSessionFresh == NoSession \notin History

TypeOK ==
  /\ call \in {"talking", "over"}
  /\ spoken \in Nat /\ buffer \in Seq(Nat) /\ speaking \in BOOLEAN /\ silence \in Nat
  /\ stt \in Nat /\ turn \in Nat /\ said \in Seq(Nat)
  /\ aiQueue \in Seq(Nat) /\ ai \in Nat \union {NoTurn} /\ view \in History
  /\ ttsQueue \in Seq(Int) /\ played \in Seq(Int) /\ answered \subseteq Nat
  /\ mem \in History \union {NoSession} /\ redis \in History \union {NoSession}
  /\ redisFails \in BOOLEAN

\* The pipeline of an accepted connection whose session exists, StartFrame
\* first.
Init ==
  /\ call = "talking"
  /\ spoken = 0 /\ buffer = <<>> /\ speaking = FALSE /\ silence = 0
  /\ stt = 0 /\ turn = 0 /\ said = <<>>
  /\ aiQueue = <<Greeting>> /\ ai = NoTurn /\ view = <<>>
  /\ ttsQueue = <<>> /\ played = <<>> /\ answered = {}
  /\ mem = <<>> /\ redis = <<>> /\ redisFails \in BOOLEAN

-----------------------------------------------------------------------------
(* STTProcessor.                                                           *)

\* _flush_turn up to the await: the buffer becomes a turn to transcribe.
Flush(frames) ==
  /\ buffer' = <<>> /\ speaking' = FALSE /\ silence' = 0
  /\ turn' = turn + 1 /\ stt' = turn + 1
  /\ said' = said \o frames

Keep(frames, run) ==
  /\ buffer' = frames /\ speaking' = TRUE /\ silence' = run
  /\ UNCHANGED <<stt, turn, said>>

\* Mutant: a full buffer is thrown away instead of being flushed.
HearSpeechOrDrop ==
  /\ call = "talking" /\ stt = 0 /\ spoken < MaxSpeech
  /\ spoken' = spoken + 1
  /\ LET frames == Append(buffer, spoken + 1) IN
       Keep(IF Len(frames) >= MaxFrames THEN <<>> ELSE frames, 0)
  /\ UNCHANGED <<call, aiVars, ttsVars, sessionVars>>

\* _handle_audio for a frame above the silence threshold.
HearSpeech ==
  /\ call = "talking" /\ stt = 0 /\ spoken < MaxSpeech
  /\ spoken' = spoken + 1
  /\ LET frames == Append(buffer, spoken + 1) IN
       IF Len(frames) >= MaxFrames THEN Flush(frames) ELSE Keep(frames, 0)
  /\ UNCHANGED <<call, aiVars, ttsVars, sessionVars>>

\* Mutant: only the run of silence is tested, not the size of the buffer.
HearSilenceUnbounded ==
  /\ call = "talking" /\ stt = 0 /\ speaking
  /\ LET frames == Append(buffer, 0) IN
       IF silence + 1 >= SilenceFrames THEN Flush(frames) ELSE Keep(frames, silence + 1)
  /\ UNCHANGED <<call, spoken, aiVars, ttsVars, sessionVars>>

\* _handle_audio for a silent frame; before any speech it changes nothing.
HearSilence ==
  /\ call = "talking" /\ stt = 0 /\ speaking
  /\ LET frames == Append(buffer, 0) IN
       IF silence + 1 >= SilenceFrames \/ Len(frames) >= MaxFrames
       THEN Flush(frames) ELSE Keep(frames, silence + 1)
  /\ UNCHANGED <<call, spoken, aiVars, ttsVars, sessionVars>>

\* transcribe() answered with some text: a TranscriptionFrame.
Transcribed ==
  /\ call = "talking" /\ stt # 0
  /\ aiQueue' = Append(aiQueue, stt)
  /\ stt' = 0
  /\ UNCHANGED <<call, spoken, buffer, speaking, silence, turn, said, ai, view,
                 ttsVars, sessionVars>>

\* It raised, or the text was blank: the turn is skipped.
NotTranscribed ==
  /\ call = "talking" /\ stt # 0
  /\ stt' = 0
  /\ UNCHANGED <<call, spoken, buffer, speaking, silence, turn, said, aiVars,
                 ttsVars, sessionVars>>

-----------------------------------------------------------------------------
(* _GatewaySessionManager.                                                 *)

MayFail == IF redisFails THEN {TRUE, FALSE} ELSE {FALSE}

\* get(): memory first, then Redis, where an error reads as no session.
Get == IF mem # NoSession THEN {mem}
       ELSE {redis} \union IF redisFails THEN {NoSession} ELSE {}

\* add_turn on the session s that its get() found.
AddTurn(s, t) ==
  LET h == Append(s, t) IN
  /\ mem' = h
  /\ \E failed \in MayFail : redis' = IF failed THEN redis ELSE h
  /\ UNCHANGED redisFails

Drop ==
  /\ mem' = NoSession
  /\ \E failed \in MayFail : redis' = IF failed THEN redis ELSE NoSession
  /\ UNCHANGED redisFails

\* The Exotel callback ends the call: end() and remove().
CallbackEnds ==
  /\ Drop
  /\ UNCHANGED <<call, sttVars, aiVars, ttsVars>>

RedisExpires ==
  /\ redis # NoSession
  /\ redis' = NoSession
  /\ UNCHANGED <<call, sttVars, aiVars, ttsVars, mem, redisFails>>

-----------------------------------------------------------------------------
(* AIProcessor.                                                            *)

\* _maybe_greet up to the await.
Greet ==
  /\ call = "talking" /\ ai = NoTurn
  /\ aiQueue # <<>> /\ Head(aiQueue) = Greeting
  /\ ai' = Greeting /\ view' = <<>>
  /\ aiQueue' = Tail(aiQueue)
  /\ UNCHANGED <<call, sttVars, ttsVars, sessionVars>>

\* _handle_user_turn up to the await: add_turn, then get() once more.
HandleUserTurn ==
  /\ call = "talking" /\ ai = NoTurn
  /\ aiQueue # <<>> /\ Head(aiQueue) # Greeting
  /\ ai' = Head(aiQueue)
  /\ aiQueue' = Tail(aiQueue)
  /\ \/ \E s \in Get \ {NoSession} :
          /\ AddTurn(s, [role |-> "user", text |-> Head(aiQueue)])
          /\ view' = mem'
     \/ /\ NoSession \in Get
        /\ \E s \in Get :
             /\ view' = IF s = NoSession THEN <<>> ELSE s
             /\ mem' = s
        /\ UNCHANGED <<redis, redisFails>>
  /\ UNCHANGED <<call, sttVars, ttsVars>>

\* Mutant: the first user turn is answered, not the last.
GenerateFirst(h) ==
  LET users == {i \in DOMAIN h : h[i].role = "user"}
  IN IF users = {} THEN Greeting ELSE h[Min(users)].text

\* generate_response of LocalRuleBasedAIProvider: about the last user turn.
GenerateResponse(h) ==
  LET users == {i \in DOMAIN h : h[i].role = "user"}
  IN IF users = {} THEN Greeting ELSE h[Max(users)].text

\* Mutant: the response is recorded under a role the history does not know.
SayAsBot(response) ==
  /\ \/ \E s \in Get \ {NoSession} : AddTurn(s, [role |-> "bot", text |-> response])
     \/ NoSession \in Get /\ UNCHANGED sessionVars
  /\ ttsQueue' = Append(ttsQueue, response) /\ answered' = answered \union {ai}
  /\ ai' = NoTurn /\ view' = <<>>
  /\ UNCHANGED <<call, sttVars, aiQueue, played>>

\* _respond after the await, for the response given: it is recorded if there
\* is a session, and spoken in any case.
Say(response) ==
  /\ \/ \E s \in Get \ {NoSession} :
          AddTurn(s, [role |-> "assistant", text |-> response])
     \/ NoSession \in Get /\ UNCHANGED sessionVars
  /\ ttsQueue' = Append(ttsQueue, response) /\ answered' = answered \union {ai}
  /\ ai' = NoTurn /\ view' = <<>>
  /\ UNCHANGED <<call, sttVars, aiQueue, played>>

Respond ==
  /\ call = "talking" /\ ai # NoTurn
  /\ Say(GenerateResponse(view))

\* Mutant: a provider failure skips the turn.
RespondNothing ==
  /\ call = "talking" /\ ai # NoTurn
  /\ ai' = NoTurn /\ view' = <<>>
  /\ UNCHANGED <<call, sttVars, aiQueue, ttsVars, sessionVars>>

\* AIError: the caller is asked to repeat.
RespondSorry ==
  /\ call = "talking" /\ ai # NoTurn
  /\ Say(Sorry)

-----------------------------------------------------------------------------
(* TTSProcessor and the end of the call.                                   *)

Synthesize ==
  /\ call = "talking" /\ ttsQueue # <<>>
  /\ played' = Append(played, Head(ttsQueue))
  /\ ttsQueue' = Tail(ttsQueue)
  /\ UNCHANGED <<call, sttVars, aiVars, answered, sessionVars>>

\* TTSError: no audio for this response.
SynthesizeFails ==
  /\ call = "talking" /\ ttsQueue # <<>>
  /\ ttsQueue' = Tail(ttsQueue)
  /\ UNCHANGED <<call, sttVars, aiVars, played, answered, sessionVars>>

\* The client disconnects: worker.cancel() sends a CancelFrame through the
\* pipeline, which drops what it holds, and _run_call removes the session if
\* get() finds one.
HangUp ==
  /\ call = "talking"
  /\ call' = "over"
  /\ buffer' = <<>> /\ stt' = 0
  /\ aiQueue' = <<>> /\ ai' = NoTurn /\ view' = <<>> /\ ttsQueue' = <<>>
  /\ \/ Get # {NoSession} /\ Drop
     \/ NoSession \in Get /\ UNCHANGED sessionVars
  /\ UNCHANGED <<spoken, speaking, silence, turn, said, played, answered>>

-----------------------------------------------------------------------------
Next ==
  \/ HearSpeech \/ HearSilence \/ Transcribed \/ NotTranscribed
  \/ Greet \/ HandleUserTurn \/ Respond \/ RespondSorry
  \/ Synthesize \/ SynthesizeFails
  \/ CallbackEnds \/ RedisExpires \/ HangUp

Spec == Init /\ [][Next]_vars

\* The processors run on the event loop and the providers they await answer
\* or raise; callers need not speak, fall silent or hang up.
Fairness ==
  /\ WF_vars(Transcribed \/ NotTranscribed)
  /\ WF_vars(Greet \/ HandleUserTurn) /\ WF_vars(Respond \/ RespondSorry)
  /\ WF_vars(Synthesize \/ SynthesizeFails)

FairSpec == Spec /\ Fairness

-----------------------------------------------------------------------------
(* Properties.                                                             *)

\* The buffer and the run of silence stay under their limits whatever mix of
\* frames arrives, and there is a buffer exactly while the caller is speaking.
BufferBounded ==
  /\ Len(buffer) < MaxFrames
  /\ silence < SilenceFrames
  /\ call = "talking" => (speaking <=> buffer # <<>>)

\* However a turn ends, by silence or by a full buffer, nothing the caller
\* says during a call falls between two turns, is sent twice or out of order.
NoSpeechLost ==
  LET heard == said \o buffer IN
  call = "talking" =>
    /\ \A n \in 1 .. spoken : \E i \in DOMAIN heard : heard[i] = n
    /\ \A i, j \in DOMAIN heard : i < j /\ heard[i] # 0 /\ heard[j] # 0 => heard[i] < heard[j]

Dialogue ==
  mem # NoSession =>
    \A i \in DOMAIN mem :
      IF i % 2 = 1
      THEN /\ mem[i].role = "assistant"
           /\ mem[i].text \in {Sorry, IF i = 1 THEN Greeting ELSE mem[i - 1].text}
      ELSE mem[i].role = "user" /\ (i = Len(mem) => ai = mem[i].text)

\* While Redis works, the greeting comes first in the kept history and every
\* turn of the caller is followed by the reply to that very turn (or the
\* apology), also when turns are transcribed faster than they are answered.
HistoryIsDialogue == ~redisFails => Dialogue

\* While Redis works, what the caller is told never falls behind the caller:
\* the responses of a call name turns in the order in which they were spoken,
\* none of them twice.
RepliesInOrder ==
  LET told == played \o ttsQueue IN
  ~redisFails => \A i, j \in DOMAIN told : i < j /\ told[i] > 0 /\ told[j] > 0 => told[i] < told[j]

Pending(n) == ai = n \/ n \in ToSet(aiQueue)

\* Every turn that was transcribed gets a reply or an apology pushed to
\* TTSProcessor, or the call ends: neither a failing AI provider, nor a failing
\* Redis, nor a session removed under the call makes AIProcessor drop it.
TurnsAreAnswered ==
  \A n \in 1 .. MaxSpeech : Pending(n) ~> (n \in answered \/ call = "over")

=============================================================================
