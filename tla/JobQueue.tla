------------------------------ MODULE JobQueue ------------------------------
(***************************************************************************)
(* The durable job queue: the call_jobs table and its HTTP handlers        *)
(* (services/api/src/routers/jobs.py), the worker replicas that drive it   *)
(* (services/worker/src/main.py, jobs_client.py, integration_client.py)    *)
(* and the Redis list that only carries wake-up hints.                     *)
(*                                                                         *)
(* A worker talks to the API over HTTP.  A request occupies an API handler *)
(* until the handler returns; when the worker's 10 s timeout fires first,  *)
(* the worker goes on and the handler is left running with no client.      *)
(* complete_event and fail_event read the row and update it in two         *)
(* database statements, so each is two steps here; claim_event and         *)
(* reap_stale_jobs are one guarded UPDATE, so one step each.               *)
(*                                                                         *)
(* Clock values are abstracted to what the guards compare: due stands for  *)
(* available_at <= now, stale for updated_at < now - 120 s.                *)
(***************************************************************************)
EXTENDS Naturals, Sequences, FiniteSets

CONSTANTS
  Job,            \* rows, one per (provider_call_id, event_type) or per anonymous event
  Worker,         \* worker replicas
  Handler,        \* API requests that can be in progress at once
  AttemptLimits,  \* values of max_attempts that create_event is called with
  PollLimit,      \* the limit= of list_eligible
  NoJob, NoWorker

ASSUME FiniteActors == IsFiniteSet(Worker) /\ IsFiniteSet(Handler)
ASSUME LimitsInRange == AttemptLimits \subseteq 1 .. 20
ASSUME PollLimitPositive == PollLimit \in Nat \ {0}
ASSUME NullsAreFresh == NoJob \notin Job /\ NoWorker \notin Worker

VARIABLES
  \* the call_jobs table
  status, attempts, max_attempts,
  due,        \* rows with available_at <= now
  stale,      \* processing rows not written for _STALE_PROCESSING_SECONDS
  processed,  \* rows with processed_at set
  \* the requests the API is serving
  op, target, client, stage,
  \* the workers
  pc,         \* where each is in _run_loop / process_one
  cur,        \* the job process_one was called with
  todo,       \* the rest of the list_eligible answer being iterated
  stopping,   \* workers whose _shutdown flag is set
  \* the rest
  queue,      \* the Redis list WORKER_QUEUE_KEY
  acks        \* history: successful integration answers per job

jobVars == <<status, attempts, max_attempts, due, stale, processed>>
requestVars == <<op, target, client, stage>>
workerVars == <<pc, cur, todo, stopping>>
vars == <<status, attempts, max_attempts, due, stale, processed,
          op, target, client, stage, pc, cur, todo, stopping, queue, acks>>

-----------------------------------------------------------------------------
(* Types.                                                                  *)

Claimable == {"queued", "retrying"}
Terminal == {"completed", "failed"}
Status == {"absent", "processing"} \union Claimable \union Terminal

\* A worker waits for an answer in one of these places.
Waiting == {"reaping", "claiming", "reporting"}
PC == Waiting \union {"top", "blpop", "list", "loop", "calling", "down"}

TypeOK ==
  /\ status \in [Job -> Status]
  /\ attempts \in [Job -> Nat]
  /\ max_attempts \in [Job -> 1 .. 20]
  /\ due \subseteq Job /\ stale \subseteq Job /\ processed \subseteq Job
  /\ op \in [Handler -> {"none", "claim", "complete", "fail", "reap"}]
  /\ target \in [Handler -> Job \union {NoJob}]
  /\ client \in [Handler -> Worker \union {NoWorker}]
  /\ stage \in [Handler -> {"start", "checked", "retry", "giveup"}]
  /\ pc \in [Worker -> PC]
  /\ cur \in [Worker -> Job \union {NoJob}]
  /\ todo \in [Worker -> SUBSET Job]
  /\ stopping \subseteq Worker
  /\ queue \in Seq(Job)
  /\ acks \in [Job -> Nat]

Init ==
  /\ status = [j \in Job |-> "absent"]
  /\ attempts = [j \in Job |-> 0]
  /\ max_attempts = [j \in Job |-> 1]
  /\ due = {} /\ stale = {} /\ processed = {}
  /\ op = [h \in Handler |-> "none"]
  /\ target = [h \in Handler |-> NoJob]
  /\ client = [h \in Handler |-> NoWorker]
  /\ stage = [h \in Handler |-> "start"]
  /\ pc = [w \in Worker |-> "top"]
  /\ cur = [w \in Worker |-> NoJob]
  /\ todo = [w \in Worker |-> {}]
  /\ stopping = {}
  /\ queue = <<>>
  /\ acks = [j \in Job |-> 0]

-----------------------------------------------------------------------------
(* create_event, called by the voice gateway, and the passage of time.     *)

\* The row is committed, then its id is pushed to Redis, best effort.
CreateEvent(j) ==
  /\ status[j] = "absent"
  /\ status' = [status EXCEPT ![j] = "queued"]
  /\ \E m \in AttemptLimits : max_attempts' = [max_attempts EXCEPT ![j] = m]
  /\ due' = due \union {j}
  /\ queue' = queue \/ queue' = Append(queue, j)
  /\ UNCHANGED <<attempts, stale, processed, requestVars, workerVars, acks>>

\* The unique index refuses the row: the answer is the existing one or, where
\* the rollback has taken the connection's sight of it, the IntegrityError
\* again (a 500).  Nothing is written or pushed either way.
CreateDuplicate(j) ==
  /\ status[j] # "absent"
  /\ UNCHANGED vars

BackoffElapses(j) ==
  /\ status[j] = "retrying" /\ j \notin due
  /\ due' = due \union {j}
  /\ UNCHANGED <<status, attempts, max_attempts, stale, processed,
                 requestVars, workerVars, queue, acks>>

ProcessingGoesStale(j) ==
  /\ status[j] = "processing" /\ j \notin stale
  /\ stale' = stale \union {j}
  /\ UNCHANGED <<status, attempts, max_attempts, due, processed,
                 requestVars, workerVars, queue, acks>>

-----------------------------------------------------------------------------
(* API handlers.                                                           *)

Free(h) ==
  /\ op' = [op EXCEPT ![h] = "none"]
  /\ target' = [target EXCEPT ![h] = NoJob]
  /\ client' = [client EXCEPT ![h] = NoWorker]
  /\ stage' = [stage EXCEPT ![h] = "start"]

\* Handler h returns; its client, if it still waits, continues at p.
Reply(h, p) ==
  /\ Free(h)
  /\ pc' = [w \in Worker |-> IF client[h] = w THEN p ELSE pc[w]]
  /\ UNCHANGED <<cur, todo, stopping>>

\* Mutant: a 409 is taken for a successful claim.
ClaimConflictIgnored(h) ==
  /\ op[h] = "claim"
  /\ LET j == target[h] IN
       IF status[j] \in Claimable /\ j \in due
       THEN /\ status' = [status EXCEPT ![j] = "processing"]
            /\ attempts' = [attempts EXCEPT ![j] = @ + 1]
            /\ stale' = stale \ {j}
       ELSE UNCHANGED <<status, attempts, stale>>
  /\ Reply(h, "calling")
  /\ UNCHANGED <<max_attempts, due, processed, queue, acks>>

\* One UPDATE guarded by status and available_at; no row means 409.
ClaimEvent(h) ==
  /\ op[h] = "claim"
  /\ LET j == target[h] IN
       \/ /\ status[j] \in Claimable /\ j \in due
          /\ status' = [status EXCEPT ![j] = "processing"]
          /\ attempts' = [attempts EXCEPT ![j] = @ + 1]
          /\ stale' = stale \ {j}
          /\ Reply(h, "calling")
       \/ /\ ~(status[j] \in Claimable /\ j \in due)
          /\ Reply(h, "loop")
          /\ UNCHANGED <<status, attempts, stale>>
  /\ UNCHANGED <<max_attempts, due, processed, queue, acks>>

\* The read that complete_event and fail_event start with: anything but
\* 'processing' ends the request (a no-op for a terminal row, else 409).
Check(h, verdict) ==
  /\ stage[h] = "start"
  /\ \/ /\ status[target[h]] = "processing"
        /\ stage' = [stage EXCEPT ![h] = verdict]
        /\ UNCHANGED <<op, target, client, workerVars>>
     \/ status[target[h]] # "processing" /\ Reply(h, "loop")
  /\ UNCHANGED <<jobVars, queue, acks>>

CompleteCheck(h) == op[h] = "complete" /\ Check(h, "checked")

\* Mutant: the retry flag alone decides.
FailAlwaysRetries(h) == op[h] = "fail" /\ Check(h, "retry")

\* can_retry is decided here, from this read of attempts.
FailCheck(h) ==
  /\ op[h] = "fail"
  /\ LET j == target[h]
     IN Check(h, IF attempts[j] < max_attempts[j] THEN "retry" ELSE "giveup")

\* Mutant: the UPDATE has no condition on the status.
CompleteUnguarded(h) ==
  /\ op[h] = "complete" /\ stage[h] = "checked"
  /\ status' = [status EXCEPT ![target[h]] = "completed"]
  /\ processed' = processed \union {target[h]}
  /\ stale' = stale \ {target[h]}
  /\ Reply(h, "loop")
  /\ UNCHANGED <<attempts, max_attempts, due, queue, acks>>

\* Mutant: a status the table's CHECK constraint does not know.
CompleteMisspelt(h) ==
  /\ op[h] = "complete" /\ stage[h] = "checked"
  /\ status[target[h]] = "processing"
  /\ status' = [status EXCEPT ![target[h]] = "complete"]
  /\ Reply(h, "loop")
  /\ UNCHANGED <<attempts, max_attempts, due, stale, processed, queue, acks>>

\* UPDATE ... WHERE status = 'processing'; no row means 409.
CompleteUpdate(h) ==
  /\ op[h] = "complete" /\ stage[h] = "checked"
  /\ LET j == target[h] IN
       \/ /\ status[j] = "processing"
          /\ status' = [status EXCEPT ![j] = "completed"]
          /\ processed' = processed \union {j}
          /\ stale' = stale \ {j}
       \/ status[j] # "processing" /\ UNCHANGED <<status, processed, stale>>
  /\ Reply(h, "loop")
  /\ UNCHANGED <<attempts, max_attempts, due, queue, acks>>

FailUpdate(h) ==
  /\ op[h] = "fail" /\ stage[h] \in {"retry", "giveup"}
  /\ LET j == target[h] IN
       \/ /\ status[j] = "processing" /\ stage[h] = "retry"
          /\ status' = [status EXCEPT ![j] = "retrying"]
          /\ due' = due \ {j}
          /\ stale' = stale \ {j}
          /\ UNCHANGED processed
       \/ /\ status[j] = "processing" /\ stage[h] = "giveup"
          /\ status' = [status EXCEPT ![j] = "failed"]
          /\ processed' = processed \union {j}
          /\ stale' = stale \ {j}
          /\ UNCHANGED due
       \/ status[j] # "processing" /\ UNCHANGED <<status, due, processed, stale>>
  /\ Reply(h, "loop")
  /\ UNCHANGED <<attempts, max_attempts, queue, acks>>

Overdue == {j \in stale : status[j] = "processing"}
Exhausted == {j \in Job : attempts[j] >= max_attempts[j]}

\* Mutant: the sweep does not set processed_at.
ReapKeepsProcessed(h) ==
  /\ op[h] = "reap"
  /\ status' = [j \in Job |-> IF j \notin Overdue THEN status[j]
                              ELSE IF j \in Exhausted THEN "failed" ELSE "retrying"]
  /\ due' = due \union Overdue
  /\ stale' = stale \ Overdue
  /\ Reply(h, "blpop")
  /\ UNCHANGED <<attempts, max_attempts, processed, queue, acks>>

\* Mutant: the sweep skips jobs with no attempt left.
ReapRetriesOnly(h) ==
  /\ op[h] = "reap"
  /\ LET again == Overdue \ Exhausted IN
       /\ status' = [j \in Job |-> IF j \in again THEN "retrying" ELSE status[j]]
       /\ due' = due \union again
       /\ stale' = stale \ again
  /\ Reply(h, "blpop")
  /\ UNCHANGED <<attempts, max_attempts, processed, queue, acks>>

\* One UPDATE over every row that is processing and stale.
ReapStaleJobs(h) ==
  /\ op[h] = "reap"
  /\ status' = [j \in Job |-> IF j \notin Overdue THEN status[j]
                              ELSE IF j \in Exhausted THEN "failed" ELSE "retrying"]
  /\ due' = due \union Overdue
  /\ processed' = (processed \ Overdue) \union (Overdue \intersect Exhausted)
  /\ stale' = stale \ Overdue
  /\ Reply(h, "blpop")
  /\ UNCHANGED <<attempts, max_attempts, queue, acks>>

HandlerStep(h) ==
  \/ ClaimEvent(h)
  \/ CompleteCheck(h) \/ CompleteUpdate(h)
  \/ FailCheck(h) \/ FailUpdate(h)
  \/ ReapStaleJobs(h)

-----------------------------------------------------------------------------
(* JobsApiError.                                                           *)

\* The workers in W get a JobsApiError: a failed reap or report is logged and
\* the loop goes on; a failed claim leaves process_one and its caller's loop.
JobsApiError(W) ==
  /\ pc' = [w \in Worker |->
              IF w \notin W THEN pc[w]
              ELSE IF pc[w] = "reaping" THEN "blpop"
              ELSE IF pc[w] = "claiming" THEN "top" ELSE "loop"]
  /\ LET dropped == {w \in W : pc[w] = "claiming"} IN
       /\ cur' = [w \in Worker |-> IF w \in dropped THEN NoJob ELSE cur[w]]
       /\ todo' = [w \in Worker |-> IF w \in dropped THEN {} ELSE todo[w]]
  /\ UNCHANGED stopping

\* The request is lost, the API restarts or the database refuses: the
\* transaction is rolled back and the client, if any, gets the error.
HandlerFails(h) ==
  /\ op[h] # "none"
  /\ Free(h)
  /\ JobsApiError({client[h]} \ {NoWorker})
  /\ UNCHANGED <<jobVars, queue, acks>>

\* The requests of w go on without a client.
Abandon(w) ==
  /\ client' = [h \in Handler |-> IF client[h] = w THEN NoWorker ELSE client[h]]
  /\ UNCHANGED <<op, target, stage>>

\* httpx gives up after 10 s; the handler keeps running.
RequestTimesOut(w) ==
  /\ pc[w] \in Waiting
  /\ Abandon(w)
  /\ JobsApiError({w})
  /\ UNCHANGED <<jobVars, queue, acks>>

-----------------------------------------------------------------------------
(* Workers: _run_loop and process_one.                                     *)

Goto(w, p) == pc' = [pc EXCEPT ![w] = p]

\* JobsClient._request: a free API handler takes the call.
Send(w, o, j) ==
  \E h \in Handler :
    /\ op[h] = "none"
    /\ op' = [op EXCEPT ![h] = o]
    /\ target' = [target EXCEPT ![h] = j]
    /\ client' = [client EXCEPT ![h] = w]
    /\ stage' = [stage EXCEPT ![h] = "start"]

\* REAP_INTERVAL_SECONDS have passed since the last sweep.
StartReap(w) ==
  /\ pc[w] = "top" /\ w \notin stopping
  /\ Send(w, "reap", NoJob)
  /\ Goto(w, "reaping")
  /\ UNCHANGED <<jobVars, cur, todo, stopping, queue, acks>>

SkipReap(w) ==
  /\ pc[w] = "top" /\ w \notin stopping
  /\ Goto(w, "blpop")
  /\ UNCHANGED <<jobVars, requestVars, cur, todo, stopping, queue, acks>>

\* A hint was popped: process_one is called with it, whatever the flag says.
BlpopHit(w) ==
  /\ pc[w] = "blpop" /\ queue # <<>>
  /\ Send(w, "claim", Head(queue))
  /\ queue' = Tail(queue)
  /\ cur' = [cur EXCEPT ![w] = Head(queue)]
  /\ Goto(w, "claiming")
  /\ UNCHANGED <<jobVars, todo, stopping, acks>>

BlpopTimeout(w) ==
  /\ pc[w] = "blpop" /\ queue = <<>>
  /\ Goto(w, "list")
  /\ UNCHANGED <<jobVars, requestVars, cur, todo, stopping, queue, acks>>

\* Redis cannot be reached: the worker falls back to the poll.
BlpopError(w) ==
  /\ pc[w] = "blpop"
  /\ Goto(w, "list")
  /\ UNCHANGED <<jobVars, requestVars, cur, todo, stopping, queue, acks>>

Eligible == {j \in Job : status[j] \in Claimable /\ j \in due}

\* All of the eligible rows, or PollLimit of them.
Pages == {T \in SUBSET Eligible :
            Cardinality(T) = PollLimit \/ (T = Eligible /\ Cardinality(T) < PollLimit)}

ListEligible(w) ==
  /\ pc[w] = "list"
  /\ \E T \in Pages : todo' = [todo EXCEPT ![w] = T]
  /\ Goto(w, "loop")
  /\ UNCHANGED <<jobVars, requestVars, cur, stopping, queue, acks>>

ListFails(w) ==
  /\ pc[w] = "list"
  /\ Goto(w, "top")
  /\ UNCHANGED <<jobVars, requestVars, cur, todo, stopping, queue, acks>>

\* The for loop over the listed jobs.
NextListed(w) ==
  /\ pc[w] = "loop" /\ w \notin stopping
  /\ \E j \in todo[w] :
       /\ Send(w, "claim", j)
       /\ cur' = [cur EXCEPT ![w] = j]
       /\ todo' = [todo EXCEPT ![w] = @ \ {j}]
  /\ Goto(w, "claiming")
  /\ UNCHANGED <<jobVars, stopping, queue, acks>>

LoopDone(w) ==
  /\ pc[w] = "loop"
  /\ todo[w] = {} \/ w \in stopping
  /\ Goto(w, "top")
  /\ cur' = [cur EXCEPT ![w] = NoJob]
  /\ todo' = [todo EXCEPT ![w] = {}]
  /\ UNCHANGED <<jobVars, requestVars, stopping, queue, acks>>

\* integration.process returned: report the success.
IntegrationSucceeds(w) ==
  /\ pc[w] = "calling"
  /\ acks' = [acks EXCEPT ![cur[w]] = @ + 1]
  /\ Send(w, "complete", cur[w])
  /\ Goto(w, "reporting")
  /\ UNCHANGED <<jobVars, cur, todo, stopping, queue>>

\* Mutant: a failed integration call is reported as a success.
AckOnFailure(w) ==
  /\ pc[w] = "calling"
  /\ Send(w, "complete", cur[w])
  /\ Goto(w, "reporting")
  /\ UNCHANGED <<jobVars, cur, todo, stopping, queue, acks>>

\* IntegrationError: report the failure with retry=True.
IntegrationFails(w) ==
  /\ pc[w] = "calling"
  /\ Send(w, "fail", cur[w])
  /\ Goto(w, "reporting")
  /\ UNCHANGED <<jobVars, cur, todo, stopping, queue, acks>>

\* SIGTERM or SIGINT.
HandleSignal(w) ==
  /\ pc[w] # "down" /\ w \notin stopping
  /\ stopping' = stopping \union {w}
  /\ UNCHANGED <<jobVars, requestVars, pc, cur, todo, queue, acks>>

\* The while loop ends; the flag dies with the process.
Exit(w) ==
  /\ pc[w] = "top" /\ w \in stopping
  /\ Goto(w, "down")
  /\ stopping' = stopping \ {w}
  /\ UNCHANGED <<jobVars, requestVars, cur, todo, queue, acks>>

\* The process dies at any point, with its memory.
Crash(w) ==
  /\ pc[w] # "down"
  /\ Goto(w, "down")
  /\ Abandon(w)
  /\ cur' = [cur EXCEPT ![w] = NoJob]
  /\ todo' = [todo EXCEPT ![w] = {}]
  /\ stopping' = stopping \ {w}
  /\ UNCHANGED <<jobVars, queue, acks>>

\* main() of a fresh process.
Start(w) ==
  /\ pc[w] = "down"
  /\ Goto(w, "top")
  /\ UNCHANGED <<jobVars, requestVars, cur, todo, stopping, queue, acks>>

WorkerStep(w) ==
  \/ StartReap(w) \/ SkipReap(w)
  \/ BlpopHit(w) \/ BlpopTimeout(w)
  \/ ListEligible(w) \/ NextListed(w) \/ LoopDone(w)
  \/ IntegrationSucceeds(w) \/ IntegrationFails(w)
  \/ Exit(w) \/ Start(w)

\* The Redis list is lost (restart without persistence).
RedisLosesHints ==
  /\ queue # <<>>
  /\ queue' = <<>>
  /\ UNCHANGED <<jobVars, requestVars, workerVars, acks>>

-----------------------------------------------------------------------------
TimePasses(j) == BackoffElapses(j) \/ ProcessingGoesStale(j)

Fault ==
  \/ \E h \in Handler : HandlerFails(h)
  \/ \E w \in Worker : \/ BlpopError(w) \/ ListFails(w) \/ RequestTimesOut(w)
                       \/ HandleSignal(w) \/ Crash(w)
  \/ RedisLosesHints

Work ==
  \/ \E j \in Job : CreateEvent(j) \/ CreateDuplicate(j) \/ TimePasses(j)
  \/ \E h \in Handler : HandlerStep(h)
  \/ \E w \in Worker : WorkerStep(w)

Next == Work \/ Fault

Spec == Init /\ [][Next]_vars

\* The worker is a loop that docker restarts, every request a handler has
\* taken ends, time passes, and the sweep timer of _run_loop keeps firing
\* (strong fairness: the worker is at the top again and again, not for good).
Fairness ==
  /\ \A j \in Job : WF_vars(TimePasses(j))
  /\ \A h \in Handler : WF_vars(HandlerStep(h))
  /\ \A w \in Worker : WF_vars(WorkerStep(w)) /\ SF_vars(StartReap(w))

FairSpec == Spec /\ Fairness

-----------------------------------------------------------------------------
(* Refinement: the queue implements EventDelivery.                         *)

OutcomeOf(s) == CASE s = "absent"    -> "none"
                  [] s = "completed" -> "done"
                  [] s = "failed"    -> "dead"
                  [] OTHER           -> "pending"

Delivery == INSTANCE EventDelivery
              WITH Event <- Job,
                   outcome <- [j \in Job |-> OutcomeOf(status[j])],
                   deliveries <- acks

\* Seen through the outcome a caller can observe, every step of the queue is
\* a step of the promise or changes nothing: an event is settled only after
\* a delivery, and at most once.
ImplementsDelivery == Delivery!EDSpec

-----------------------------------------------------------------------------
(* Properties.                                                             *)

\* processed_at is set exactly in the terminal states, whichever of
\* complete_event, fail_event and reap_stale_jobs ended the job.
ProcessedIffTerminal == processed = {j \in Job : status[j] \in Terminal}

\* process_one never acknowledges early: a job is completed only after an
\* integration call for it has returned success, even when the request that
\* completes it is one a worker gave up on long ago.
NoPrematureAck == \A j \in Job : status[j] = "completed" => acks[j] > 0

Callers(j) == {w \in Worker : pc[w] = "calling" /\ cur[w] = j}

\* claim_event hands out each attempt once: the integration calls that
\* succeeded plus the workers about to call never exceed the attempts
\* counted in the row, so no attempt is executed by two workers.
OneCallPerAttempt ==
  \A j \in Job : acks[j] + Cardinality(Callers(j)) <= attempts[j]

\* What is left of max_attempts under races: fail_event decides on attempts
\* it read earlier, so a job may be retried past max_attempts, but each
\* attempt below the limit leaves at most one such late decision behind.
RetriesBounded == \A j \in Job : attempts[j] <= 2 * max_attempts[j] - 1

\* A terminal row is never written again, by a late report, a late claim or
\* a sweep.
TerminalIsFinal ==
  [][\A j \in Job : status[j] \in Terminal =>
       /\ status'[j] = status[j] /\ attempts'[j] = attempts[j]
       /\ j \in due' <=> j \in due
       /\ j \in processed' <=> j \in processed]_vars

\* Constraint #12: whatever hints, requests and workers were lost on the
\* way, every recorded event ends in a terminal state once faults cease.
FaultsCease == <>[][Work]_vars
EveryJobEnds ==
  FaultsCease => \A j \in Job : status[j] = "queued" ~> status[j] \in Terminal

=============================================================================
