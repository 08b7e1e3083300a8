--------------------------- MODULE JobQueueProofs ---------------------------
(***************************************************************************)
(* Proofs about JobQueue, for any finite number of workers and concurrent  *)
(* requests, any set of jobs and any max_attempts.                         *)
(*                                                                         *)
(* Stage 1 (Shape): every request is well formed and its client, if it     *)
(* still has one, waits for exactly that request.                          *)
(* Stage 2 (Accounting): every integration call and every report stems     *)
(* from an attempt counted in the row.                                     *)
(* Stage 3 (Delivery): terminal rows are final and JobQueue implements     *)
(* EventDelivery, step by step from the invariants of stages 1 and 2.      *)
(***************************************************************************)
EXTENDS JobQueue, FiniteSetTheorems, TLAPS

-----------------------------------------------------------------------------
(* Stage 1: requests and the workers that wait for them.                   *)

RequestNamesJob ==
  \A h \in Handler : op[h] \in {"claim", "complete", "fail"} => target[h] \in Job

ClientWaits ==
  \A h \in Handler : client[h] \in Worker =>
    \/ op[h] = "claim" /\ pc[client[h]] = "claiming" /\ cur[client[h]] = target[h]
    \/ op[h] \in {"complete", "fail"} /\ pc[client[h]] = "reporting"
    \/ op[h] = "reap" /\ pc[client[h]] = "reaping"

OneRequestPerClient ==
  \A g, h \in Handler : client[g] = client[h] /\ client[h] \in Worker => g = h

BusyWorkerHasJob ==
  \A w \in Worker : pc[w] \in {"claiming", "calling"} => cur[w] \in Job

Shape ==
  /\ TypeOK
  /\ RequestNamesJob
  /\ ClientWaits
  /\ OneRequestPerClient
  /\ BusyWorkerHasJob

LEMMA InitShape == Init => Shape
BY NullsAreFresh DEF Init, Shape, TypeOK, Status, PC, Waiting,
   RequestNamesJob, ClientWaits, OneRequestPerClient, BusyWorkerHasJob

\* A handler that returns leaves everybody else's request alone.
LEMMA ReplyShape ==
  ASSUME Shape, NEW h \in Handler, NEW p \in {"loop", "blpop", "calling"}, Reply(h, p),
         p = "calling" => op[h] = "claim",
         op[h] # "none", UNCHANGED <<queue, acks>>,
         status' \in [Job -> Status], attempts' \in [Job -> Nat], max_attempts' = max_attempts,
         due' \subseteq Job, stale' \subseteq Job, processed' \subseteq Job
  PROVE  Shape'
<1>1. TypeOK'
  BY DEF Shape, TypeOK, Reply, Free, PC
<1>2. RequestNamesJob'
  BY DEF Shape, TypeOK, Reply, Free, RequestNamesJob
<1>3. ClientWaits'
  BY NullsAreFresh DEF Shape, TypeOK, Reply, Free, ClientWaits, OneRequestPerClient
<1>4. OneRequestPerClient'
  BY NullsAreFresh DEF Shape, TypeOK, Reply, Free, OneRequestPerClient
<1>5. BusyWorkerHasJob'
  BY DEF Shape, TypeOK, Reply, Free, BusyWorkerHasJob, ClientWaits, RequestNamesJob
<1> QED BY <1>1, <1>2, <1>3, <1>4, <1>5 DEF Shape

LEMMA HandlerShape ==
  ASSUME Shape, NEW h \in Handler, HandlerStep(h)
  PROVE  Shape'
<1>1. CASE ClaimEvent(h)
  <2>1. target[h] \in Job
    BY <1>1 DEF Shape, RequestNamesJob, ClaimEvent
  <2>2. /\ status' \in [Job -> Status] /\ attempts' \in [Job -> Nat]
        /\ stale' \subseteq Job
    <3>1. CASE UNCHANGED <<status, attempts, stale>>
      BY <3>1 DEF Shape, TypeOK
    <3>2. CASE /\ status' = [status EXCEPT ![target[h]] = "processing"]
               /\ attempts' = [attempts EXCEPT ![target[h]] = @ + 1]
               /\ stale' = stale \ {target[h]}
      BY <2>1, <3>2 DEF Shape, TypeOK, Status
    <3> QED BY <1>1, <3>1, <3>2 DEF ClaimEvent
  <2> QED BY <1>1, <2>2, ReplyShape DEF ClaimEvent, Shape, TypeOK
<1>2. ASSUME NEW v \in {"checked", "retry", "giveup"}, Check(h, v),
             op[h] \in {"complete", "fail"}
      PROVE  Shape'
  <2>1. CASE Reply(h, "loop")
    BY <1>2, <2>1, ReplyShape DEF Check, jobVars, Shape, TypeOK
  <2>2. CASE /\ stage' = [stage EXCEPT ![h] = v]
             /\ UNCHANGED <<op, target, client, workerVars>>
    BY <1>2, <2>2 DEF Check, jobVars, workerVars, Shape, TypeOK,
       RequestNamesJob, ClientWaits, OneRequestPerClient, BusyWorkerHasJob
  <2> QED BY <1>2, <2>1, <2>2 DEF Check
<1>3. CASE CompleteCheck(h)
  BY <1>2, <1>3 DEF CompleteCheck
<1>4. CASE FailCheck(h)
  BY <1>2, <1>4 DEF FailCheck
<1>5. CASE CompleteUpdate(h)
  <2>1. status' \in [Job -> Status] /\ stale' \subseteq Job /\ processed' \subseteq Job
    BY <1>5 DEF CompleteUpdate, Shape, TypeOK, RequestNamesJob, Status, Terminal
  <2> QED BY <1>5, <2>1, ReplyShape DEF CompleteUpdate, Shape, TypeOK
<1>6. CASE FailUpdate(h)
  <2>1. /\ status' \in [Job -> Status] /\ due' \subseteq Job
        /\ stale' \subseteq Job /\ processed' \subseteq Job
    <3>1. target[h] \in Job
      BY <1>6 DEF FailUpdate, Shape, RequestNamesJob
    <3>2. CASE UNCHANGED <<status, due, processed, stale>>
      BY <3>2 DEF Shape, TypeOK
    <3>3. CASE /\ \E s \in {"retrying", "failed"} : status' = [status EXCEPT ![target[h]] = s]
               /\ due' \subseteq due /\ stale' \subseteq stale
               /\ processed' \subseteq processed \union {target[h]}
      BY <3>1, <3>3 DEF Shape, TypeOK, Status, Terminal, Claimable
    <3> QED BY <1>6, <3>2, <3>3 DEF FailUpdate
  <2> QED BY <1>6, <2>1, ReplyShape DEF FailUpdate, Shape, TypeOK
<1>7. CASE ReapStaleJobs(h)
  <2>1. /\ status' \in [Job -> Status] /\ due' \subseteq Job
        /\ stale' \subseteq Job /\ processed' \subseteq Job
    BY <1>7 DEF ReapStaleJobs, Overdue, Exhausted, Shape, TypeOK, Status, Terminal, Claimable
  <2> QED BY <1>7, <2>1, ReplyShape DEF ReapStaleJobs, Shape, TypeOK
<1> QED BY <1>1, <1>3, <1>4, <1>5, <1>6, <1>7 DEF HandlerStep

\* A worker that waits for nothing sends a request and waits for it.
LEMMA SendShape ==
  ASSUME Shape, NEW w \in Worker, pc[w] \notin Waiting,
         NEW o \in {"claim", "complete", "fail", "reap"}, NEW j \in Job \union {NoJob},
         o # "reap" => j \in Job,
         NEW p, Goto(w, p), Send(w, o, j),
         \/ o = "claim" /\ p = "claiming" /\ cur' = [cur EXCEPT ![w] = j]
         \/ o \in {"complete", "fail"} /\ p = "reporting" /\ cur' = cur
         \/ o = "reap" /\ p = "reaping" /\ cur' = cur,
         UNCHANGED <<jobVars, stopping>>,
         queue' \in Seq(Job), todo' \in [Worker -> SUBSET Job], acks' \in [Job -> Nat]
  PROVE  Shape'
<1>1. PICK h \in Handler :
        /\ op[h] = "none"
        /\ op' = [op EXCEPT ![h] = o]
        /\ target' = [target EXCEPT ![h] = j]
        /\ client' = [client EXCEPT ![h] = w]
        /\ stage' = [stage EXCEPT ![h] = "start"]
  BY DEF Send
<1>2. \A g \in Handler : client[g] # w
  BY DEF Shape, ClientWaits, Waiting
<1>3. TypeOK'
  BY <1>1 DEF Shape, TypeOK, PC, Waiting, Goto, jobVars
<1>4. RequestNamesJob'
  BY <1>1 DEF Shape, TypeOK, RequestNamesJob
<1>5. ClientWaits'
  BY <1>1, <1>2 DEF Shape, TypeOK, Goto, ClientWaits
<1>6. OneRequestPerClient'
  BY <1>1, <1>2 DEF Shape, TypeOK, OneRequestPerClient
<1>7. BusyWorkerHasJob'
  BY DEF Shape, TypeOK, Goto, BusyWorkerHasJob
<1> QED BY <1>3, <1>4, <1>5, <1>6, <1>7 DEF Shape

\* A worker moves on its own, between requests.
LEMMA MoveShape ==
  ASSUME Shape, NEW w \in Worker, pc[w] \notin Waiting,
         NEW p \in PC \ (Waiting \union {"calling"}), Goto(w, p),
         UNCHANGED <<jobVars, requestVars, queue, acks>>,
         cur' = cur \/ cur' = [cur EXCEPT ![w] = NoJob],
         todo' \in [Worker -> SUBSET Job], stopping' \subseteq Worker
  PROVE  Shape'
<1>1. TypeOK'
  BY DEF Shape, TypeOK, PC, Waiting, Goto, jobVars, requestVars
<1>2. \A h \in Handler : client[h] # w
  BY DEF Shape, ClientWaits, Waiting
<1>3. RequestNamesJob' /\ OneRequestPerClient'
  BY DEF Shape, requestVars, RequestNamesJob, OneRequestPerClient
<1>4. ClientWaits'
  BY <1>2 DEF Shape, TypeOK, requestVars, Goto, ClientWaits
<1>5. BusyWorkerHasJob'
  BY DEF Shape, TypeOK, Goto, BusyWorkerHasJob, Waiting
<1> QED BY <1>1, <1>3, <1>4, <1>5 DEF Shape

LEMMA WorkerShape ==
  ASSUME Shape, NEW w \in Worker, WorkerStep(w)
  PROVE  Shape'
<1> USE DEF Waiting
<1>1. CASE StartReap(w)
  BY <1>1, SendShape DEF StartReap, Shape, TypeOK
<1>2. CASE SkipReap(w) \/ BlpopTimeout(w) \/ Start(w)
  BY <1>2, MoveShape DEF SkipReap, BlpopTimeout, Start, Shape, TypeOK, PC
<1>3. CASE BlpopHit(w)
  <2>1. Head(queue) \in Job /\ Tail(queue) \in Seq(Job)
    BY <1>3 DEF BlpopHit, Shape, TypeOK
  <2> QED BY <1>3, <2>1, SendShape DEF BlpopHit, Shape, TypeOK
<1>4. CASE ListEligible(w)
  <2>1. todo' \in [Worker -> SUBSET Job]
    BY <1>4 DEF ListEligible, Pages, Eligible, Shape, TypeOK
  <2> QED BY <1>4, <2>1, MoveShape DEF ListEligible, Shape, TypeOK, PC
<1>5. CASE NextListed(w)
  <2>1. PICK j \in todo[w] : /\ Send(w, "claim", j)
                             /\ cur' = [cur EXCEPT ![w] = j]
                             /\ todo' = [todo EXCEPT ![w] = @ \ {j}]
    BY <1>5 DEF NextListed
  <2>2. j \in Job /\ todo' \in [Worker -> SUBSET Job]
    BY <2>1 DEF Shape, TypeOK
  <2> QED BY <1>5, <2>1, <2>2, SendShape DEF NextListed, Shape, TypeOK
<1>6. CASE LoopDone(w)
  BY <1>6, MoveShape DEF LoopDone, Shape, TypeOK, PC
<1>7. CASE IntegrationSucceeds(w)
  <2>1. cur[w] \in Job
    BY <1>7 DEF IntegrationSucceeds, Shape, BusyWorkerHasJob
  <2>2. acks' \in [Job -> Nat]
    BY <1>7, <2>1 DEF IntegrationSucceeds, Shape, TypeOK
  <2> QED BY <1>7, <2>1, <2>2, SendShape DEF IntegrationSucceeds, Shape, TypeOK
<1>8. CASE IntegrationFails(w)
  <2>1. cur[w] \in Job
    BY <1>8 DEF IntegrationFails, Shape, BusyWorkerHasJob
  <2> QED BY <1>8, <2>1, SendShape DEF IntegrationFails, Shape, TypeOK
<1>9. CASE Exit(w)
  BY <1>9, MoveShape DEF Exit, Shape, TypeOK, PC
<1> QED BY <1>1, <1>2, <1>3, <1>4, <1>5, <1>6, <1>7, <1>8, <1>9 DEF WorkerStep

LEMMA FaultShape ==
  ASSUME Shape, Fault
  PROVE  Shape'
<1>1. ASSUME NEW h \in Handler, HandlerFails(h)
      PROVE  Shape'
  <2> DEFINE W == {client[h]} \ {NoWorker}
  <2>1. \A w \in Worker : w \in W <=> w = client[h]
    BY NullsAreFresh
  <2>2. TypeOK'
    BY <1>1 DEF Shape, TypeOK, HandlerFails, Free, JobsApiError, jobVars, PC, Waiting
  <2>3. RequestNamesJob'
    BY <1>1 DEF Shape, TypeOK, HandlerFails, Free, RequestNamesJob
  <2>4. ClientWaits'
    BY <1>1, <2>1, NullsAreFresh DEF Shape, TypeOK, HandlerFails, Free, JobsApiError,
       ClientWaits, OneRequestPerClient
  <2>5. OneRequestPerClient'
    BY <1>1, NullsAreFresh DEF Shape, TypeOK, HandlerFails, Free, OneRequestPerClient
  <2>6. BusyWorkerHasJob'
    BY <1>1, <2>1 DEF Shape, TypeOK, HandlerFails, JobsApiError, BusyWorkerHasJob
  <2> QED BY <2>2, <2>3, <2>4, <2>5, <2>6 DEF Shape
<1>2. ASSUME NEW w \in Worker, RequestTimesOut(w)
      PROVE  Shape'
  <2>1. TypeOK'
    BY <1>2 DEF Shape, TypeOK, RequestTimesOut, Abandon, JobsApiError, jobVars, PC, Waiting
  <2>2. RequestNamesJob' /\ OneRequestPerClient'
    BY <1>2, NullsAreFresh DEF Shape, TypeOK, RequestTimesOut, Abandon,
       RequestNamesJob, OneRequestPerClient
  <2>3. ClientWaits'
    BY <1>2, NullsAreFresh DEF Shape, TypeOK, RequestTimesOut, Abandon, JobsApiError, ClientWaits
  <2>4. BusyWorkerHasJob'
    BY <1>2 DEF Shape, TypeOK, RequestTimesOut, JobsApiError, BusyWorkerHasJob
  <2> QED BY <2>1, <2>2, <2>3, <2>4 DEF Shape
<1>3. ASSUME NEW w \in Worker, Crash(w)
      PROVE  Shape'
  <2>1. TypeOK'
    BY <1>3 DEF Shape, TypeOK, Crash, Goto, Abandon, jobVars, PC
  <2>2. RequestNamesJob' /\ OneRequestPerClient'
    BY <1>3, NullsAreFresh DEF Shape, TypeOK, Crash, Abandon, RequestNamesJob, OneRequestPerClient
  <2>3. ClientWaits'
    BY <1>3, NullsAreFresh DEF Shape, TypeOK, Crash, Goto, Abandon, ClientWaits
  <2>4. BusyWorkerHasJob'
    BY <1>3 DEF Shape, TypeOK, Crash, Goto, BusyWorkerHasJob
  <2> QED BY <2>1, <2>2, <2>3, <2>4 DEF Shape
<1>4. ASSUME NEW w \in Worker, BlpopError(w) \/ ListFails(w)
      PROVE  Shape'
  BY <1>4, MoveShape DEF BlpopError, ListFails, Shape, TypeOK, PC, Waiting
<1>5. ASSUME NEW w \in Worker, HandleSignal(w)
      PROVE  Shape'
  BY <1>5 DEF HandleSignal, jobVars, requestVars, Shape, TypeOK,
     RequestNamesJob, ClientWaits, OneRequestPerClient, BusyWorkerHasJob
<1>6. CASE RedisLosesHints
  BY <1>6 DEF RedisLosesHints, jobVars, requestVars, workerVars, Shape, TypeOK,
     RequestNamesJob, ClientWaits, OneRequestPerClient, BusyWorkerHasJob
<1> QED BY <1>1, <1>2, <1>3, <1>4, <1>5, <1>6 DEF Fault

LEMMA EnvironmentShape ==
  ASSUME Shape, NEW j \in Job, CreateEvent(j) \/ CreateDuplicate(j) \/ TimePasses(j)
  PROVE  Shape'
<1>1. /\ UNCHANGED <<requestVars, workerVars, attempts, processed, acks>>
      /\ UNCHANGED status \/ status' = [status EXCEPT ![j] = "queued"]
      /\ due' \subseteq due \union {j} /\ stale' \subseteq stale \union {j}
      /\ queue' = queue \/ queue' = Append(queue, j)
      /\ max_attempts' = max_attempts
         \/ \E m \in AttemptLimits : max_attempts' = [max_attempts EXCEPT ![j] = m]
  BY DEF CreateEvent, CreateDuplicate, TimePasses, BackoffElapses, ProcessingGoesStale,
     vars, requestVars, workerVars
<1>2. TypeOK'
  <2>1. queue' \in Seq(Job)
    <3>1. queue \in Seq(Job)
      BY DEF Shape, TypeOK
    <3> QED BY <1>1, <3>1
  <2>2. max_attempts' \in [Job -> 1 .. 20]
    BY <1>1, LimitsInRange DEF Shape, TypeOK
  <2>3. status' \in [Job -> Status]
    BY <1>1 DEF Shape, TypeOK, Status, Claimable
  <2> QED BY <1>1, <2>1, <2>2, <2>3 DEF Shape, TypeOK, requestVars, workerVars
<1> QED BY <1>1, <1>2 DEF Shape, requestVars, workerVars,
       RequestNamesJob, ClientWaits, OneRequestPerClient, BusyWorkerHasJob

\* Every request in progress is well formed, and a worker that waits for an
\* answer waits for the one request it sent last.
THEOREM ShapeInvariant == Spec => []Shape
<1>1. Shape /\ [Next]_vars => Shape'
  <2> SUFFICES ASSUME Shape, [Next]_vars PROVE Shape'
    OBVIOUS
  <2>1. CASE UNCHANGED vars
    BY <2>1 DEF vars, Shape, TypeOK, RequestNamesJob, ClientWaits,
       OneRequestPerClient, BusyWorkerHasJob
  <2> QED BY <2>1, HandlerShape, WorkerShape, FaultShape, EnvironmentShape DEF Next, Work
<1> QED BY <1>1, InitShape, PTL DEF Spec

\* The variables of the queue keep their types: no handler, worker or fault
\* step leaves a row, a request or a worker in a state the code has no name for.
THEOREM TypeCorrect == Spec => []TypeOK
<1>1. Shape => TypeOK
  BY DEF Shape
<1> QED BY <1>1, ShapeInvariant, PTL

-----------------------------------------------------------------------------
(* Stage 2: accounting.  Three numbers are charged to the attempts of a    *)
(* job: integration calls, failure reports, and those failure reports that *)
(* have decided to retry and not yet written the row.                      *)

FailRequests(j) == {h \in Handler : op[h] = "fail" /\ target[h] = j}
LateRetries(j) == {h \in FailRequests(j) : stage[h] = "retry"}

UncreatedIsUnclaimed == \A j \in Job : status[j] = "absent" => attempts[j] = 0

CompletionIsEarned ==
  \A h \in Handler : op[h] = "complete" => acks[target[h]] > 0

ReportsCharged ==
  \A j \in Job :
    Cardinality(Callers(j)) + Cardinality(FailRequests(j)) <= attempts[j]

\* Past the limit only a late retry can make the job claimable again.
LateRetriesCharged ==
  \A j \in Job : attempts[j] >= max_attempts[j] =>
    /\ attempts[j] + Cardinality(LateRetries(j)) <= 2 * max_attempts[j] - 1
    /\ status[j] \in Claimable =>
         attempts[j] + Cardinality(LateRetries(j)) <= 2 * max_attempts[j] - 2

Accounting ==
  /\ UncreatedIsUnclaimed
  /\ CompletionIsEarned
  /\ ProcessedIffTerminal
  /\ NoPrematureAck
  /\ OneCallPerAttempt
  /\ ReportsCharged
  /\ LateRetriesCharged

\* The three charges of one job.
Charges(j) ==
  /\ acks[j] + Cardinality(Callers(j)) <= attempts[j]
  /\ Cardinality(Callers(j)) + Cardinality(FailRequests(j)) <= attempts[j]
  /\ attempts[j] >= max_attempts[j] =>
       /\ attempts[j] + Cardinality(LateRetries(j)) <= 2 * max_attempts[j] - 1
       /\ status[j] \in Claimable =>
            attempts[j] + Cardinality(LateRetries(j)) <= 2 * max_attempts[j] - 2

LEMMA AccountingIsCharges ==
  /\ Accounting <=> /\ UncreatedIsUnclaimed /\ CompletionIsEarned
                    /\ ProcessedIffTerminal /\ NoPrematureAck
                    /\ \A j \in Job : Charges(j)
  /\ Accounting' <=> /\ UncreatedIsUnclaimed' /\ CompletionIsEarned'
                     /\ ProcessedIffTerminal' /\ NoPrematureAck'
                     /\ \A j \in Job : Charges(j)'
BY DEF Accounting, OneCallPerAttempt, ReportsCharged, LateRetriesCharged, Charges

LEMMA CardSub ==
  ASSUME NEW S, IsFiniteSet(S), NEW T \in SUBSET S
  PROVE  IsFiniteSet(T) /\ Cardinality(T) \in Nat /\ Cardinality(T) <= Cardinality(S)
BY FS_Subset, FS_CardinalityType

LEMMA CardAdd ==
  ASSUME NEW S, IsFiniteSet(S), NEW x, NEW T, T \subseteq S \union {x}
  PROVE  Cardinality(T) \in Nat /\ Cardinality(T) <= Cardinality(S) + 1
<1>1. Cardinality(S) \in Nat
  BY FS_CardinalityType
<1>2. IsFiniteSet(S \union {x}) /\ Cardinality(S \union {x}) <= Cardinality(S) + 1
  <2>1. CASE x \in S
    <3>1. S \union {x} = S
      BY <2>1
    <3> QED BY <1>1, <3>1
  <2>2. CASE x \notin S
    <3>1. Cardinality(S \union {x}) = Cardinality(S) + 1 /\ IsFiniteSet(S \union {x})
      BY <2>2, FS_AddElement
    <3> QED BY <1>1, <3>1
  <2> QED BY <2>1, <2>2
<1>3. Cardinality(T) \in Nat /\ Cardinality(T) <= Cardinality(S \union {x})
  BY <1>2, CardSub
<1> QED BY <1>1, <1>2, <1>3, FS_CardinalityType

LEMMA CardDrop ==
  ASSUME NEW S, IsFiniteSet(S), NEW x \in S, NEW T, T \subseteq S \ {x}
  PROVE  Cardinality(T) \in Nat /\ Cardinality(T) + 1 <= Cardinality(S)
<1>1. IsFiniteSet(S \ {x}) /\ Cardinality(S \ {x}) = Cardinality(S) - 1
  BY FS_RemoveElement
<1> QED BY <1>1, FS_Subset, FS_CardinalityType

\* The charged sets are finite, before and after a step.
LEMMA Finite ==
  ASSUME NEW j \in Job
  PROVE  /\ IsFiniteSet(Callers(j)) /\ Cardinality(Callers(j)) \in Nat
         /\ IsFiniteSet(FailRequests(j)) /\ Cardinality(FailRequests(j)) \in Nat
         /\ IsFiniteSet(LateRetries(j)) /\ Cardinality(LateRetries(j)) \in Nat
         /\ Cardinality(LateRetries(j)) <= Cardinality(FailRequests(j))
<1>1. IsFiniteSet(Callers(j)) /\ Cardinality(Callers(j)) \in Nat
  BY CardSub, FiniteActors DEF Callers
<1>2. IsFiniteSet(FailRequests(j)) /\ Cardinality(FailRequests(j)) \in Nat
  BY CardSub, FiniteActors DEF FailRequests
<1>3. LateRetries(j) \subseteq FailRequests(j)
  BY DEF LateRetries
<1> QED BY <1>1, <1>2, <1>3, CardSub

\* A step that starts no call and no failure report, takes no retry decision
\* and makes no exhausted job claimable keeps the charges.
LEMMA QuietStep ==
  ASSUME TypeOK, NEW j \in Job, Charges(j),
         Callers(j)' \subseteq Callers(j),
         FailRequests(j)' \subseteq FailRequests(j),
         LateRetries(j)' \subseteq LateRetries(j),
         attempts'[j] = attempts[j], max_attempts'[j] = max_attempts[j], acks'[j] = acks[j],
         status'[j] \in Claimable => attempts[j] < max_attempts[j] \/ status[j] \in Claimable
  PROVE  Charges(j)'
<1>1. /\ Cardinality(Callers(j)') \in Nat /\ Cardinality(Callers(j)') <= Cardinality(Callers(j))
      /\ Cardinality(FailRequests(j)') \in Nat
      /\ Cardinality(FailRequests(j)') <= Cardinality(FailRequests(j))
      /\ Cardinality(LateRetries(j)') \in Nat
      /\ Cardinality(LateRetries(j)') <= Cardinality(LateRetries(j))
  BY Finite, CardSub
<1>2. attempts[j] \in Nat /\ max_attempts[j] \in 1 .. 20 /\ acks[j] \in Nat
  BY DEF TypeOK
<1> QED BY <1>1, <1>2, Finite DEF Charges

LEMMA InitAccounting == Init => Accounting
<1> SUFFICES ASSUME Init PROVE Accounting
  OBVIOUS
<1>1. ASSUME NEW j \in Job
      PROVE  Charges(j)
  <2>1. Callers(j) = {} /\ FailRequests(j) = {} /\ LateRetries(j) = {}
    BY DEF Init, Callers, FailRequests, LateRetries
  <2> QED BY <2>1, FS_EmptySet DEF Init, Charges, Claimable
<1> QED BY <1>1, AccountingIsCharges DEF Init, UncreatedIsUnclaimed, CompletionIsEarned,
       ProcessedIffTerminal, NoPrematureAck, Terminal

\* A returning handler ends its own charges; its client calls nobody unless
\* the answer is a granted claim.
LEMMA ReplyCharges ==
  ASSUME Shape, NEW h \in Handler, NEW p, Reply(h, p), NEW j \in Job
  PROVE  /\ p # "calling" => Callers(j)' \subseteq Callers(j)
         /\ Callers(j)' \subseteq Callers(j) \union {client[h]}
         /\ j # target[h] /\ op[h] = "claim" => Callers(j)' \subseteq Callers(j)
         /\ FailRequests(j)' \subseteq FailRequests(j) \ {h}
         /\ LateRetries(j)' \subseteq LateRetries(j) \ {h}
<1>1. p # "calling" => Callers(j)' \subseteq Callers(j)
  BY DEF Shape, TypeOK, Reply, Callers
<1>2. Callers(j)' \subseteq Callers(j) \union {client[h]}
  BY DEF Shape, TypeOK, Reply, Callers
<1>3. j # target[h] /\ op[h] = "claim" => Callers(j)' \subseteq Callers(j)
  BY DEF Shape, TypeOK, Reply, Callers, ClientWaits
<1>4. /\ FailRequests(j)' \subseteq FailRequests(j) \ {h}
      /\ LateRetries(j)' \subseteq LateRetries(j) \ {h}
  BY DEF Shape, TypeOK, Reply, Free, FailRequests, LateRetries
<1> QED BY <1>1, <1>2, <1>3, <1>4

LEMMA ClaimAccounting ==
  ASSUME Shape, Accounting, NEW h \in Handler, ClaimEvent(h)
  PROVE  Accounting'
<1>1. PICK t \in Job : t = target[h]
  BY DEF Shape, RequestNamesJob, ClaimEvent
<1>2. TypeOK /\ \A j \in Job : Charges(j)
  BY AccountingIsCharges DEF Shape
<1>3. CASE UNCHANGED <<status, attempts, stale>> /\ Reply(h, "loop")
  <2>1. ASSUME NEW j \in Job PROVE Charges(j)'
    <3>1. /\ Callers(j)' \subseteq Callers(j) /\ FailRequests(j)' \subseteq FailRequests(j)
          /\ LateRetries(j)' \subseteq LateRetries(j)
      BY <1>3, ReplyCharges
    <3> QED BY <1>2, <1>3, <3>1, QuietStep DEF ClaimEvent
  <2>2. CompletionIsEarned'
    BY <1>3 DEF Accounting, CompletionIsEarned, ClaimEvent, Reply, Free, Shape, TypeOK
  <2> QED BY <1>3, <2>1, <2>2, AccountingIsCharges DEF ClaimEvent, Accounting,
         UncreatedIsUnclaimed, ProcessedIffTerminal, NoPrematureAck
<1>4. CASE /\ status[t] \in Claimable
           /\ status' = [status EXCEPT ![t] = "processing"]
           /\ attempts' = [attempts EXCEPT ![t] = @ + 1]
           /\ Reply(h, "calling")
  <2>1. ASSUME NEW j \in Job, j # t PROVE Charges(j)'
    <3>1. /\ Callers(j)' \subseteq Callers(j) /\ FailRequests(j)' \subseteq FailRequests(j)
          /\ LateRetries(j)' \subseteq LateRetries(j)
      BY <1>1, <1>4, <2>1, ReplyCharges DEF ClaimEvent
    <3> QED BY <1>2, <1>4, <2>1, <3>1, QuietStep DEF ClaimEvent, TypeOK
  <2>2. Charges(t)'
    <3>1. /\ Callers(t)' \subseteq Callers(t) \union {client[h]}
          /\ FailRequests(t)' \subseteq FailRequests(t)
          /\ LateRetries(t)' \subseteq LateRetries(t)
      BY <1>1, <1>4, ReplyCharges
    <3>2. /\ Cardinality(Callers(t)') \in Nat
          /\ Cardinality(Callers(t)') <= Cardinality(Callers(t)) + 1
          /\ Cardinality(FailRequests(t)') \in Nat
          /\ Cardinality(FailRequests(t)') <= Cardinality(FailRequests(t))
          /\ Cardinality(LateRetries(t)') \in Nat
          /\ Cardinality(LateRetries(t)') <= Cardinality(LateRetries(t))
      BY <1>1, <3>1, Finite, CardAdd, CardSub
    <3>3. /\ attempts[t] \in Nat /\ max_attempts[t] \in 1 .. 20 /\ acks[t] \in Nat
          /\ attempts'[t] = attempts[t] + 1 /\ max_attempts'[t] = max_attempts[t]
          /\ acks'[t] = acks[t] /\ status'[t] = "processing"
      BY <1>1, <1>2, <1>4 DEF TypeOK, ClaimEvent
    <3>4. /\ Charges(t)
          /\ Cardinality(Callers(t)) \in Nat /\ Cardinality(FailRequests(t)) \in Nat
          /\ Cardinality(LateRetries(t)) \in Nat
          /\ Cardinality(LateRetries(t)) <= Cardinality(FailRequests(t))
      BY <1>1, <1>2, Finite
    <3> QED BY <1>4, <3>2, <3>3, <3>4 DEF Charges, Claimable
  <2>3. UncreatedIsUnclaimed'
    BY <1>1, <1>2, <1>4 DEF Accounting, UncreatedIsUnclaimed, TypeOK
  <2>4. CompletionIsEarned'
    BY <1>4 DEF Accounting, CompletionIsEarned, ClaimEvent, Reply, Free, Shape, TypeOK
  <2>5. ProcessedIffTerminal' /\ NoPrematureAck'
    BY <1>1, <1>2, <1>4 DEF Accounting, ProcessedIffTerminal, NoPrematureAck, ClaimEvent,
       TypeOK, Claimable, Terminal
  <2> QED BY <2>1, <2>2, <2>3, <2>4, <2>5, AccountingIsCharges
<1> QED BY <1>1, <1>3, <1>4 DEF ClaimEvent

\* The conjuncts of Accounting that the table alone can break survive a step
\* that leaves the table and acks alone and adds no completion request.
LEMMA TableUntouched ==
  ASSUME Accounting, UNCHANGED <<jobVars, acks>>, \A j \in Job : Charges(j)',
         \A h \in Handler : op'[h] = "complete" => op[h] = "complete" /\ target'[h] = target[h]
  PROVE  Accounting'
BY AccountingIsCharges DEF Accounting, jobVars, UncreatedIsUnclaimed, CompletionIsEarned,
   ProcessedIffTerminal, NoPrematureAck

LEMMA CheckAccounting ==
  ASSUME Shape, Accounting, NEW h \in Handler, CompleteCheck(h) \/ FailCheck(h)
  PROVE  Accounting'
<1>1. PICK t \in Job : t = target[h]
  BY DEF Shape, RequestNamesJob, CompleteCheck, FailCheck
<1>2. TypeOK /\ \A j \in Job : Charges(j)
  BY AccountingIsCharges DEF Shape
<1>3. UNCHANGED <<jobVars, acks>>
  BY DEF CompleteCheck, FailCheck, Check
<1>4. \A g \in Handler : op'[g] = "complete" => op[g] = "complete" /\ target'[g] = target[g]
  BY <1>2 DEF CompleteCheck, FailCheck, Check, Reply, Free, TypeOK
<1>5. CASE Reply(h, "loop")
  <2>1. ASSUME NEW j \in Job PROVE Charges(j)'
    <3>1. /\ Callers(j)' \subseteq Callers(j) /\ FailRequests(j)' \subseteq FailRequests(j)
          /\ LateRetries(j)' \subseteq LateRetries(j)
      BY <1>5, ReplyCharges
    <3> QED BY <1>2, <1>3, <3>1, QuietStep DEF jobVars
  <2> QED BY <1>3, <1>4, <2>1, TableUntouched
<1>6. ASSUME NEW v, v = "retry" => op[h] = "fail" /\ attempts[t] < max_attempts[t],
             stage' = [stage EXCEPT ![h] = v], UNCHANGED <<op, target, client, workerVars>>
      PROVE  Accounting'
  <2>1. ASSUME NEW j \in Job PROVE Charges(j)'
    <3>1. Callers(j)' = Callers(j) /\ FailRequests(j)' = FailRequests(j)
      BY <1>6 DEF Callers, FailRequests, workerVars
    <3>2. v # "retry" \/ j # t => LateRetries(j)' \subseteq LateRetries(j)
      BY <1>1, <1>2, <1>6 DEF LateRetries, FailRequests, TypeOK
    <3>3. CASE v # "retry" \/ j # t
      BY <1>2, <1>3, <3>1, <3>2, <3>3, QuietStep DEF jobVars
    <3>4. CASE v = "retry" /\ j = t
      <4>1. attempts' = attempts /\ max_attempts' = max_attempts /\ acks' = acks
        BY <1>3 DEF jobVars
      <4>2. attempts[j] < max_attempts[j] /\ attempts[j] \in Nat /\ max_attempts[j] \in 1 .. 20
        BY <1>2, <1>6, <3>4 DEF TypeOK
      <4>3. ~(attempts[j] >= max_attempts[j])
        BY <4>2
      <4> QED BY <1>2, <3>1, <4>1, <4>3 DEF Charges
    <3> QED BY <3>3, <3>4
  <2> QED BY <1>3, <1>4, <2>1, TableUntouched
<1> QED BY <1>1, <1>5, <1>6 DEF CompleteCheck, FailCheck, Check

LEMMA CompleteAccounting ==
  ASSUME Shape, Accounting, NEW h \in Handler, CompleteUpdate(h)
  PROVE  Accounting'
<1>1. PICK t \in Job : t = target[h]
  BY DEF Shape, RequestNamesJob, CompleteUpdate
<1>2. TypeOK /\ (\A j \in Job : Charges(j)) /\ Reply(h, "loop")
  BY AccountingIsCharges DEF Shape, CompleteUpdate
<1>3. /\ UNCHANGED <<attempts, max_attempts, acks>>
      /\ \/ UNCHANGED <<status, processed>>
         \/ /\ status[t] = "processing" /\ status' = [status EXCEPT ![t] = "completed"]
            /\ processed' = processed \union {t}
  BY <1>1 DEF CompleteUpdate
<1>4. ASSUME NEW j \in Job PROVE Charges(j)'
  <2>1. /\ Callers(j)' \subseteq Callers(j) /\ FailRequests(j)' \subseteq FailRequests(j)
        /\ LateRetries(j)' \subseteq LateRetries(j)
    BY <1>2, ReplyCharges
  <2> QED BY <1>2, <1>3, <2>1, QuietStep DEF TypeOK, Claimable
<1>5. UncreatedIsUnclaimed'
  BY <1>2, <1>3 DEF Accounting, UncreatedIsUnclaimed, TypeOK
<1>6. CompletionIsEarned'
  BY <1>2, <1>3 DEF Accounting, CompletionIsEarned, Reply, Free, TypeOK
<1>7. ProcessedIffTerminal'
  BY <1>2, <1>3 DEF Accounting, ProcessedIffTerminal, TypeOK, Terminal
<1>8. NoPrematureAck'
  BY <1>1, <1>2, <1>3 DEF Accounting, CompletionIsEarned, NoPrematureAck, TypeOK, CompleteUpdate
<1> QED BY <1>4, <1>5, <1>6, <1>7, <1>8, AccountingIsCharges

LEMMA FailAccounting ==
  ASSUME Shape, Accounting, NEW h \in Handler, FailUpdate(h)
  PROVE  Accounting'
<1>1. PICK t \in Job : t = target[h]
  BY DEF Shape, RequestNamesJob, FailUpdate
<1>2. TypeOK /\ (\A j \in Job : Charges(j)) /\ Reply(h, "loop")
  BY AccountingIsCharges DEF Shape, FailUpdate
<1>3. /\ UNCHANGED <<attempts, max_attempts, acks>>
      /\ \/ UNCHANGED <<status, processed>>
         \/ /\ status[t] = "processing" /\ status' = [status EXCEPT ![t] = "failed"]
            /\ processed' = processed \union {t}
         \/ /\ status[t] = "processing" /\ status' = [status EXCEPT ![t] = "retrying"]
            /\ processed' = processed /\ stage[h] = "retry"
  BY <1>1 DEF FailUpdate
<1>4. ASSUME NEW j \in Job PROVE Charges(j)'
  <2>1. /\ Callers(j)' \subseteq Callers(j)
        /\ FailRequests(j)' \subseteq FailRequests(j)
        /\ LateRetries(j)' \subseteq LateRetries(j) \ {h}
    BY <1>2, ReplyCharges
  <2>2. CASE j = t /\ status'[t] = "retrying" /\ stage[h] = "retry"
    <3>1. h \in LateRetries(j)
      BY <1>1, <2>2 DEF LateRetries, FailRequests, FailUpdate
    <3>2. /\ Cardinality(Callers(j)') \in Nat
          /\ Cardinality(Callers(j)') <= Cardinality(Callers(j))
          /\ Cardinality(FailRequests(j)') \in Nat
          /\ Cardinality(FailRequests(j)') <= Cardinality(FailRequests(j))
          /\ Cardinality(LateRetries(j)') \in Nat
          /\ Cardinality(LateRetries(j)') + 1 <= Cardinality(LateRetries(j))
      BY <2>1, <3>1, Finite, CardSub, CardDrop
    <3>3. /\ attempts[j] \in Nat /\ max_attempts[j] \in 1 .. 20 /\ acks[j] \in Nat
          /\ attempts'[j] = attempts[j] /\ max_attempts'[j] = max_attempts[j]
          /\ acks'[j] = acks[j]
      BY <1>2, <1>3 DEF TypeOK
    <3> QED BY <1>2, <3>2, <3>3, Finite DEF Charges
  <2>3. CASE ~(j = t /\ status'[t] = "retrying" /\ stage[h] = "retry")
    BY <1>2, <1>3, <2>1, <2>3, QuietStep DEF TypeOK, Claimable
  <2> QED BY <2>2, <2>3
<1>5. UncreatedIsUnclaimed'
  BY <1>2, <1>3 DEF Accounting, UncreatedIsUnclaimed, TypeOK
<1>6. CompletionIsEarned'
  BY <1>2, <1>3 DEF Accounting, CompletionIsEarned, Reply, Free, TypeOK
<1>7. ProcessedIffTerminal'
  BY <1>2, <1>3 DEF Accounting, ProcessedIffTerminal, TypeOK, Terminal
<1>8. NoPrematureAck'
  BY <1>2, <1>3 DEF Accounting, NoPrematureAck, TypeOK
<1> QED BY <1>4, <1>5, <1>6, <1>7, <1>8, AccountingIsCharges

LEMMA ReapAccounting ==
  ASSUME Shape, Accounting, NEW h \in Handler, ReapStaleJobs(h)
  PROVE  Accounting'
<1>1. /\ TypeOK /\ (\A j \in Job : Charges(j)) /\ Reply(h, "blpop")
      /\ UNCHANGED <<attempts, max_attempts, acks>>
  BY AccountingIsCharges DEF Shape, ReapStaleJobs
<1>2. \A j \in Job : \/ status'[j] = status[j] /\ j \notin Overdue
                     \/ /\ status[j] = "processing" /\ j \in Overdue
                        /\ \/ status'[j] = "failed" /\ j \in Exhausted
                           \/ /\ status'[j] = "retrying" /\ j \notin Exhausted
                              /\ attempts[j] < max_attempts[j]
  <2> TAKE j \in Job
  <2>1. j \notin Exhausted => attempts[j] < max_attempts[j]
    <3>1. attempts[j] \in Nat /\ max_attempts[j] \in 1 .. 20
      BY <1>1 DEF TypeOK
    <3>2. j \notin Exhausted => ~(attempts[j] >= max_attempts[j])
      BY DEF Exhausted
    <3> QED BY <3>1, <3>2
  <2>2. status'[j] = IF j \notin Overdue THEN status[j]
                     ELSE IF j \in Exhausted THEN "failed" ELSE "retrying"
    BY DEF ReapStaleJobs
  <2>3. j \in Overdue => status[j] = "processing"
    BY DEF Overdue
  <2> QED BY <2>1, <2>2, <2>3
<1>3. ASSUME NEW j \in Job PROVE Charges(j)'
  <2>1. /\ Callers(j)' \subseteq Callers(j) /\ FailRequests(j)' \subseteq FailRequests(j)
        /\ LateRetries(j)' \subseteq LateRetries(j)
    BY <1>1, ReplyCharges
  <2>2. attempts'[j] = attempts[j] /\ max_attempts'[j] = max_attempts[j] /\ acks'[j] = acks[j]
    BY <1>1
  <2> QED BY <1>1, <1>2, <2>1, <2>2, QuietStep DEF Claimable
<1>4. UncreatedIsUnclaimed' /\ NoPrematureAck'
  BY <1>1, <1>2 DEF Accounting, UncreatedIsUnclaimed, NoPrematureAck
<1>5. CompletionIsEarned'
  BY <1>1 DEF Accounting, CompletionIsEarned, Reply, Free, TypeOK
<1>6. ProcessedIffTerminal'
  <2>1. Overdue \subseteq Job
    BY <1>1 DEF Overdue, TypeOK
  <2>2. processed' = (processed \ Overdue) \union (Overdue \intersect Exhausted)
    BY DEF ReapStaleJobs
  <2>3. processed = {j \in Job : status[j] \in Terminal}
    BY DEF Accounting, ProcessedIffTerminal
  <2>4. \A j \in Job : j \in processed' <=> status'[j] \in Terminal
    BY <1>2, <2>2, <2>3 DEF Terminal
  <2>5. processed' \subseteq Job
    BY <2>1, <2>2, <2>3
  <2> QED BY <2>4, <2>5 DEF ProcessedIffTerminal
<1> QED BY <1>3, <1>4, <1>5, <1>6, AccountingIsCharges

\* Steps of a worker or a fault that leave the table alone and start neither
\* an integration call nor a failure report.
LEMMA QuietWorkers ==
  ASSUME Shape, Accounting, UNCHANGED <<jobVars, acks>>,
         \A j \in Job : Callers(j)' \subseteq Callers(j),
         \A h \in Handler : /\ op'[h] \in {"complete", "fail"} =>
                                 op'[h] = op[h] /\ target'[h] = target[h]
                            /\ stage'[h] = "retry" => stage[h] = "retry"
  PROVE  Accounting'
<1>1. TypeOK /\ \A j \in Job : Charges(j)
  BY AccountingIsCharges DEF Shape
<1>2. ASSUME NEW j \in Job PROVE Charges(j)'
  <2>1. /\ FailRequests(j)' \subseteq FailRequests(j)
        /\ LateRetries(j)' \subseteq LateRetries(j)
    BY DEF FailRequests, LateRetries
  <2> QED BY <1>1, <2>1, QuietStep DEF jobVars
<1> QED BY <1>2, TableUntouched

\* What Send does to the requests, seen from one of them.
LEMMA SendEffect ==
  ASSUME Shape, NEW w \in Worker, NEW o, NEW j, Send(w, o, j)
  PROVE  \E h \in Handler :
           /\ op[h] = "none" /\ op'[h] = o /\ target'[h] = j /\ stage'[h] = "start"
           /\ \A g \in Handler \ {h} : /\ op'[g] = op[g] /\ target'[g] = target[g]
                                       /\ stage'[g] = stage[g]
BY DEF Shape, TypeOK, Send

LEMMA WorkerAccounting ==
  ASSUME Shape, Accounting, NEW w \in Worker, WorkerStep(w)
  PROVE  Accounting'
<1>1. TypeOK /\ \A j \in Job : Charges(j)
  BY AccountingIsCharges DEF Shape
<1>2. CASE StartReap(w) \/ BlpopHit(w) \/ NextListed(w)
  <2>1. PICK o \in {"reap", "claim"}, p \in {"reaping", "claiming"}, j \in Job \union {NoJob} :
          Send(w, o, j) /\ Goto(w, p)
    <3>1. BlpopHit(w) => Head(queue) \in Job
      BY <1>1 DEF BlpopHit, TypeOK
    <3>2. NextListed(w) => \A j \in todo[w] : j \in Job
      BY <1>1 DEF TypeOK
    <3> QED BY <1>2, <3>1, <3>2 DEF StartReap, BlpopHit, NextListed
  <2>2. \A v \in Worker : v # w => cur'[v] = cur[v]
    BY <1>1, <1>2 DEF StartReap, BlpopHit, NextListed, TypeOK
  <2>3. \A j_1 \in Job : Callers(j_1)' \subseteq Callers(j_1)
    BY <1>1, <2>1, <2>2 DEF Goto, Callers, TypeOK
  <2> QED BY <1>2, <2>1, <2>3, SendEffect, QuietWorkers DEF StartReap, BlpopHit, NextListed
<1>3. CASE \/ SkipReap(w) \/ BlpopTimeout(w) \/ ListEligible(w) \/ LoopDone(w)
           \/ Exit(w) \/ Start(w)
  <2>1. PICK p \in PC \ {"calling"} : Goto(w, p)
    BY <1>3 DEF SkipReap, BlpopTimeout, ListEligible, LoopDone, Exit, Start, PC
  <2>2. \A v \in Worker : v # w => cur'[v] = cur[v]
    BY <1>1, <1>3 DEF SkipReap, BlpopTimeout, ListEligible, LoopDone, Exit, Start, TypeOK
  <2>3. \A j \in Job : Callers(j)' \subseteq Callers(j)
    BY <1>1, <2>1, <2>2 DEF Goto, Callers, TypeOK
  <2>4. UNCHANGED <<jobVars, acks, requestVars>>
    BY <1>3 DEF SkipReap, BlpopTimeout, ListEligible, LoopDone, Exit, Start
  <2> QED BY <2>3, <2>4, QuietWorkers DEF requestVars
<1>4. ASSUME NEW o \in {"complete", "fail"}, pc[w] = "calling", Send(w, o, cur[w]),
             Goto(w, "reporting"), UNCHANGED <<jobVars, cur>>,
             o = "complete" => acks' = [acks EXCEPT ![cur[w]] = @ + 1],
             o = "fail" => acks' = acks
      PROVE  Accounting'
  <2>1. PICK t \in Job : t = cur[w]
    BY <1>4 DEF Shape, BusyWorkerHasJob
  <2>2. PICK h \in Handler :
           /\ op[h] = "none" /\ op'[h] = o /\ target'[h] = t
           /\ \A g \in Handler \ {h} : /\ op'[g] = op[g] /\ target'[g] = target[g]
                                       /\ stage'[g] = stage[g]
           /\ stage'[h] = "start"
    BY <1>4, <2>1, SendEffect
  <2>3. ASSUME NEW j \in Job, j # t PROVE Charges(j)'
    <3>1. Callers(j)' \subseteq Callers(j)
      BY <1>1, <1>4 DEF Goto, Callers, TypeOK
    <3>2. FailRequests(j)' \subseteq FailRequests(j) /\ LateRetries(j)' \subseteq LateRetries(j)
      BY <2>2, <2>3 DEF FailRequests, LateRetries
    <3>3. acks'[j] = acks[j]
      BY <1>1, <1>4, <2>1, <2>3 DEF TypeOK
    <3> QED BY <1>1, <1>4, <3>1, <3>2, <3>3, QuietStep DEF jobVars
  <2>4. Charges(t)'
    <3>1. w \in Callers(t) /\ Callers(t)' \subseteq Callers(t) \ {w}
      BY <1>1, <1>4, <2>1 DEF Goto, Callers, TypeOK
    <3>2. LateRetries(t)' \subseteq LateRetries(t)
      BY <2>2 DEF FailRequests, LateRetries
    <3>3. /\ FailRequests(t)' \subseteq FailRequests(t) \union {h}
          /\ o = "complete" => FailRequests(t)' \subseteq FailRequests(t)
      BY <2>2 DEF FailRequests
    <3>4. /\ Cardinality(Callers(t)') \in Nat
          /\ Cardinality(Callers(t)') + 1 <= Cardinality(Callers(t))
          /\ Cardinality(FailRequests(t)') \in Nat
          /\ Cardinality(FailRequests(t)') <= Cardinality(FailRequests(t)) + 1
          /\ Cardinality(LateRetries(t)') \in Nat
          /\ Cardinality(LateRetries(t)') <= Cardinality(LateRetries(t))
      BY <3>1, <3>2, <3>3, Finite, CardAdd, CardSub, CardDrop
    <3>5. /\ attempts[t] \in Nat /\ max_attempts[t] \in 1 .. 20 /\ acks[t] \in Nat
          /\ attempts'[t] = attempts[t] /\ max_attempts'[t] = max_attempts[t]
          /\ status'[t] = status[t] /\ acks'[t] \in Nat /\ acks'[t] <= acks[t] + 1
      BY <1>1, <1>4, <2>1 DEF TypeOK, jobVars
    <3>6. /\ Cardinality(Callers(t)) \in Nat /\ Cardinality(FailRequests(t)) \in Nat
          /\ Cardinality(LateRetries(t)) \in Nat /\ Charges(t)
      BY <1>1, Finite
    <3> QED BY <3>4, <3>5, <3>6 DEF Charges
  <2> DEFINE Grew == \A j \in Job : acks[j] > 0 => acks'[j] > 0
  <2>8. Grew
    <3>1. CASE acks' = acks
      BY <3>1
    <3>2. CASE acks' = [acks EXCEPT ![t] = @ + 1]
      <4> TAKE j \in Job
      <4>1. acks[j] \in Nat
        BY <1>1 DEF TypeOK
      <4>2. acks'[j] = acks[j] \/ acks'[j] = acks[j] + 1
        BY <1>1, <3>2 DEF TypeOK
      <4> QED BY <4>1, <4>2
    <3> QED BY <1>4, <2>1, <3>1, <3>2
  <2>5. CompletionIsEarned'
    <3>1. Grew
      BY <2>8
    <3>2. o = "complete" => acks'[t] > 0
      BY <1>1, <1>4, <2>1 DEF TypeOK
    <3>3. \A g \in Handler : op[g] = "complete" => target[g] \in Job
      BY DEF Shape, RequestNamesJob
    <3> QED BY <1>1, <2>2, <3>1, <3>2, <3>3 DEF Accounting, CompletionIsEarned, TypeOK
  <2>6. NoPrematureAck'
    BY <1>4, <2>8 DEF Accounting, NoPrematureAck, jobVars
  <2>7. UncreatedIsUnclaimed' /\ ProcessedIffTerminal'
    BY <1>4 DEF Accounting, UncreatedIsUnclaimed, ProcessedIffTerminal, jobVars
  <2> QED BY <2>3, <2>4, <2>5, <2>6, <2>7, AccountingIsCharges
<1>5. CASE IntegrationSucceeds(w)
  BY <1>4, <1>5 DEF IntegrationSucceeds
<1>6. CASE IntegrationFails(w)
  BY <1>4, <1>6 DEF IntegrationFails
<1> QED BY <1>2, <1>3, <1>5, <1>6 DEF WorkerStep

LEMMA FaultAccounting ==
  ASSUME Shape, Accounting, Fault
  PROVE  Accounting'
<1>1. TypeOK
  BY DEF Shape
<1>2. ASSUME NEW W, JobsApiError(W), NEW j \in Job
      PROVE  Callers(j)' \subseteq Callers(j)
  BY <1>1, <1>2 DEF JobsApiError, Callers, TypeOK
<1>3. ASSUME NEW h \in Handler, HandlerFails(h)
      PROVE  Accounting'
  BY <1>1, <1>2, <1>3, QuietWorkers DEF HandlerFails, Free, TypeOK
<1>4. ASSUME NEW w \in Worker, RequestTimesOut(w)
      PROVE  Accounting'
  BY <1>2, <1>4, QuietWorkers DEF RequestTimesOut, Abandon
<1>5. ASSUME NEW w \in Worker, Crash(w)
      PROVE  Accounting'
  <2>1. \A j \in Job : Callers(j)' \subseteq Callers(j)
    BY <1>1, <1>5 DEF Crash, Goto, Callers, TypeOK
  <2> QED BY <1>5, <2>1, QuietWorkers DEF Crash, Abandon
<1>6. ASSUME NEW w \in Worker, BlpopError(w) \/ ListFails(w) \/ HandleSignal(w)
      PROVE  Accounting'
  <2>1. \A j \in Job : Callers(j)' \subseteq Callers(j)
    BY <1>1, <1>6 DEF BlpopError, ListFails, HandleSignal, Goto, Callers, TypeOK
  <2> QED BY <1>6, <2>1, QuietWorkers DEF BlpopError, ListFails, HandleSignal, requestVars
<1>7. CASE RedisLosesHints
  BY <1>7, QuietWorkers DEF RedisLosesHints, requestVars, workerVars, Callers
<1> QED BY <1>3, <1>4, <1>5, <1>6, <1>7 DEF Fault

LEMMA EnvironmentAccounting ==
  ASSUME Shape, Accounting, NEW t \in Job,
         CreateEvent(t) \/ CreateDuplicate(t) \/ TimePasses(t)
  PROVE  Accounting'
<1>1. TypeOK /\ \A j \in Job : Charges(j)
  BY AccountingIsCharges DEF Shape
<1>2. /\ UNCHANGED <<requestVars, workerVars, attempts, processed, acks>>
      /\ \/ UNCHANGED <<status, max_attempts>>
         \/ /\ status[t] = "absent"
            /\ status' = [status EXCEPT ![t] = "queued"]
            /\ \E m \in AttemptLimits : max_attempts' = [max_attempts EXCEPT ![t] = m]
  BY DEF CreateEvent, CreateDuplicate, TimePasses, BackoffElapses, ProcessingGoesStale,
     vars, requestVars, workerVars
<1>3. ASSUME NEW j \in Job PROVE Charges(j)'
  <2>1. /\ Callers(j)' = Callers(j) /\ FailRequests(j)' = FailRequests(j)
        /\ LateRetries(j)' = LateRetries(j)
    BY <1>2 DEF Callers, FailRequests, LateRetries, requestVars, workerVars
  <2>2. CASE status'[j] = status[j] /\ max_attempts'[j] = max_attempts[j]
    BY <1>1, <1>2, <2>1, <2>2, QuietStep
  <2>3. CASE j = t /\ status[t] = "absent" /\ \E m \in AttemptLimits : max_attempts'[t] = m
    <3>1. attempts[j] = 0
      BY <2>3 DEF Accounting, UncreatedIsUnclaimed
    <3>2. ~(attempts'[j] >= max_attempts'[j])
      BY <1>2, <2>3, <3>1, LimitsInRange
    <3> QED BY <1>1, <1>2, <2>1, <3>2 DEF Charges
  <2> QED BY <1>1, <1>2, <2>2, <2>3 DEF TypeOK
<1>4. UncreatedIsUnclaimed' /\ ProcessedIffTerminal' /\ NoPrematureAck'
  BY <1>1, <1>2 DEF Accounting, UncreatedIsUnclaimed, ProcessedIffTerminal, NoPrematureAck,
     Terminal, TypeOK
<1>5. CompletionIsEarned'
  BY <1>2 DEF Accounting, CompletionIsEarned, requestVars
<1> QED BY <1>3, <1>4, <1>5, AccountingIsCharges

LEMMA NextAccounting == Shape /\ Accounting /\ [Next]_vars => Accounting'
<1> SUFFICES ASSUME Shape, Accounting, [Next]_vars PROVE Accounting'
  OBVIOUS
<1>1. CASE UNCHANGED vars
  BY <1>1, QuietWorkers DEF vars, jobVars, Callers
<1>2. ASSUME NEW h \in Handler, HandlerStep(h) PROVE Accounting'
  BY <1>2, ClaimAccounting, CheckAccounting, CompleteAccounting, FailAccounting, ReapAccounting
     DEF HandlerStep
<1> QED BY <1>1, <1>2, WorkerAccounting, FaultAccounting, EnvironmentAccounting DEF Next, Work

LEMMA AccountingInvariant == Spec => []Accounting
<1>1. Init => Accounting
  BY InitAccounting
<1> QED BY <1>1, ShapeInvariant, NextAccounting, PTL DEF Spec

-----------------------------------------------------------------------------
(* The results.                                                            *)

\* process_one's "no premature ack", for any number of workers and requests.
THEOREM NeverCompletedEarly == Spec => []NoPrematureAck
<1>1. Accounting => NoPrematureAck
  BY DEF Accounting
<1> QED BY <1>1, AccountingInvariant, PTL

\* A job has its processed_at time exactly when it is in a terminal state,
\* whichever handler ended it.
THEOREM EndsAreStamped == Spec => []ProcessedIffTerminal
<1>1. Accounting => ProcessedIffTerminal
  BY DEF Accounting
<1> QED BY <1>1, AccountingInvariant, PTL

\* Constraint #10: no attempt of a job is executed by two workers.
THEOREM ClaimsAreExclusive == Spec => []OneCallPerAttempt
<1>1. Accounting => OneCallPerAttempt
  BY DEF Accounting
<1> QED BY <1>1, AccountingInvariant, PTL

\* Constraint #11 as far as it holds: a job with limit m is attempted at most
\* 2m - 1 times, however many workers, requests and faults there are.
THEOREM RetriesAreBounded == Spec => []RetriesBounded
<1>1. Shape /\ Accounting => RetriesBounded
  <2> SUFFICES ASSUME Shape, Accounting, NEW j \in Job
               PROVE  attempts[j] <= 2 * max_attempts[j] - 1
    BY DEF RetriesBounded
  <2>1. attempts[j] \in Nat /\ max_attempts[j] \in 1 .. 20
    BY DEF Shape, TypeOK
  <2>2. Charges(j) /\ Cardinality(LateRetries(j)) \in Nat
    BY AccountingIsCharges, Finite
  <2> QED BY <2>1, <2>2 DEF Charges
<1> QED BY <1>1, ShapeInvariant, AccountingInvariant, PTL

-----------------------------------------------------------------------------
(* Stage 3: what the queue delivers.                                       *)

\* The part of a row that a late write could damage.
RowKept(j) ==
  /\ status'[j] = status[j] /\ attempts'[j] = attempts[j]
  /\ j \in due' <=> j \in due
  /\ j \in processed' <=> j \in processed

LEMMA HandlerKeepsTerminal ==
  ASSUME TypeOK, NEW h \in Handler, HandlerStep(h), NEW j \in Job, status[j] \in Terminal
  PROVE  RowKept(j)
<1>1. status[j] \notin Claimable /\ status[j] # "processing"
  BY DEF Terminal, Claimable
<1>2. CASE ClaimEvent(h)
  BY <1>1, <1>2 DEF ClaimEvent, RowKept, TypeOK
<1>3. CASE CompleteCheck(h) \/ FailCheck(h)
  BY <1>3 DEF CompleteCheck, FailCheck, Check, jobVars, RowKept
<1>4. CASE CompleteUpdate(h)
  BY <1>1, <1>4 DEF CompleteUpdate, RowKept, TypeOK
<1>5. CASE FailUpdate(h)
  BY <1>1, <1>5 DEF FailUpdate, RowKept, TypeOK
<1>6. CASE ReapStaleJobs(h)
  BY <1>1, <1>6 DEF ReapStaleJobs, Overdue, RowKept
<1> QED BY <1>2, <1>3, <1>4, <1>5, <1>6 DEF HandlerStep

\* Workers and faults never write the table.
LEMMA OthersKeepTable ==
  ASSUME (\E w \in Worker : WorkerStep(w)) \/ Fault
  PROVE  UNCHANGED jobVars
BY DEF WorkerStep, StartReap, SkipReap, BlpopHit, BlpopTimeout, ListEligible, NextListed,
   LoopDone, IntegrationSucceeds, IntegrationFails, Exit, Start, Fault, HandlerFails,
   BlpopError, ListFails, RequestTimesOut, HandleSignal, Crash, RedisLosesHints

LEMMA EnvironmentKeepsTerminal ==
  ASSUME TypeOK, NEW t \in Job, CreateEvent(t) \/ CreateDuplicate(t) \/ TimePasses(t),
         NEW j \in Job, status[j] \in Terminal
  PROVE  RowKept(j)
BY DEF CreateEvent, CreateDuplicate, TimePasses, BackoffElapses, ProcessingGoesStale,
   RowKept, TypeOK, Terminal, vars

\* No late report, late claim or sweep writes a completed or failed row.
THEOREM TerminalRowsAreFinal == Spec => TerminalIsFinal
<1>1. ASSUME TypeOK, [Next]_vars, NEW j \in Job, status[j] \in Terminal
      PROVE  RowKept(j)
  <2>1. CASE UNCHANGED vars \/ UNCHANGED jobVars
    BY <2>1 DEF vars, jobVars, RowKept
  <2> QED BY <1>1, <2>1, HandlerKeepsTerminal, OthersKeepTable, EnvironmentKeepsTerminal DEF Next, Work
<1>2. TypeOK /\ [Next]_vars =>
        [\A j \in Job : status[j] \in Terminal =>
           /\ status'[j] = status[j] /\ attempts'[j] = attempts[j]
           /\ j \in due' <=> j \in due
           /\ j \in processed' <=> j \in processed]_vars
  BY <1>1 DEF RowKept
<1> QED BY <1>2, TypeCorrect, PTL DEF Spec, TerminalIsFinal

-----------------------------------------------------------------------------
(* Refinement.                                                             *)

\* What a caller sees of each status.
LEMMA OutcomeValues ==
  /\ OutcomeOf("absent") = "none"
  /\ OutcomeOf("completed") = "done"
  /\ OutcomeOf("failed") = "dead"
  /\ \A s \in Claimable \union {"processing"} : OutcomeOf(s) = "pending"
BY DEF OutcomeOf, Claimable


Seen == [j \in Job |-> OutcomeOf(status[j])]

\* A step that no caller can see.
LEMMA Invisible ==
  ASSUME acks' = acks, \A j \in Job : OutcomeOf(status'[j]) = OutcomeOf(status[j])
  PROVE  UNCHANGED Delivery!edvars
BY DEF Delivery!edvars

\* Every way a handler writes the table is recording nothing, settling one
\* delivered event, or giving events up.
LEMMA HandlerRefines ==
  ASSUME Shape, Accounting, NEW h \in Handler, HandlerStep(h)
  PROVE  [Delivery!EDNext]_(Delivery!edvars)
<1> USE OutcomeValues
<1>1. TypeOK /\ acks' = acks
  BY DEF Shape, HandlerStep, ClaimEvent, CompleteCheck, FailCheck, Check, CompleteUpdate,
     FailUpdate, ReapStaleJobs
<1>2. op[h] \in {"claim", "complete", "fail"} => target[h] \in Job
  BY DEF Shape, RequestNamesJob
<1>3. CASE ClaimEvent(h) \/ CompleteCheck(h) \/ FailCheck(h)
  <2>1. \A j \in Job : \/ status'[j] = status[j]
                       \/ status[j] \in Claimable /\ status'[j] = "processing"
    BY <1>1, <1>2, <1>3 DEF ClaimEvent, CompleteCheck, FailCheck, Check, jobVars, TypeOK
  <2>2. \A j \in Job : OutcomeOf(status'[j]) = OutcomeOf(status[j])
    BY <2>1
  <2> QED BY <1>1, <2>2, Invisible
<1>4. CASE CompleteUpdate(h)
  <2>1. CASE UNCHANGED status
    BY <1>1, <2>1, Invisible
  <2>2. CASE status[target[h]] = "processing" /\ status' = [status EXCEPT ![target[h]] = "completed"]
    <3>1. PICK t \in Job : t = target[h]
      BY <1>2, <1>4 DEF CompleteUpdate
    <3>2. acks[t] > 0
      BY <1>4, <3>1 DEF CompleteUpdate, Accounting, CompletionIsEarned
    <3>3. Seen[t] = "pending" /\ Seen' = [Seen EXCEPT ![t] = "done"]
      BY <1>1, <2>2, <3>1 DEF Seen, TypeOK
    <3>4. Delivery!Settle(t)
      BY <1>1, <3>2, <3>3 DEF Delivery!Settle, Seen
    <3> QED BY <3>4 DEF Delivery!EDNext
  <2> QED BY <1>4, <2>1, <2>2 DEF CompleteUpdate
<1>5. ASSUME NEW E \in SUBSET Job, \A j \in E : status[j] = "processing" /\ status'[j] = "failed",
             \A j \in Job \ E : OutcomeOf(status'[j]) = OutcomeOf(status[j])
      PROVE  Delivery!GiveUp(E)
  <2>1. \A j \in E : Seen[j] = "pending"
    BY <1>5 DEF Seen
  <2>2. Seen' = [j \in Job |-> IF j \in E THEN "dead" ELSE Seen[j]]
    BY <1>5 DEF Seen
  <2> QED BY <1>1, <2>1, <2>2 DEF Delivery!GiveUp, Seen
<1>6. CASE FailUpdate(h)
  <2>1. PICK t \in Job : t = target[h]
    BY <1>2, <1>6 DEF FailUpdate
  <2>2. CASE UNCHANGED status
    BY <1>1, <2>2, Invisible
  <2>3. CASE status[t] = "processing" /\ status' = [status EXCEPT ![t] = "retrying"]
    <3>1. \A j \in Job : OutcomeOf(status'[j]) = OutcomeOf(status[j])
      BY <1>1, <2>3 DEF TypeOK, Claimable
    <3> QED BY <1>1, <3>1, Invisible
  <2>4. CASE status[t] = "processing" /\ status' = [status EXCEPT ![t] = "failed"]
    <3>1. /\ \A j \in {t} : status[j] = "processing" /\ status'[j] = "failed"
          /\ \A j \in Job \ {t} : OutcomeOf(status'[j]) = OutcomeOf(status[j])
      BY <1>1, <2>4 DEF TypeOK
    <3>2. Delivery!GiveUp({t})
      BY <1>5, <3>1
    <3> QED BY <3>2 DEF Delivery!EDNext
  <2> QED BY <1>6, <2>1, <2>2, <2>3, <2>4 DEF FailUpdate
<1>7. CASE ReapStaleJobs(h)
  <2>1. PICK E \in SUBSET Job : E = Overdue \intersect Exhausted
    BY DEF Exhausted
  <2>2. \A j \in E : status[j] = "processing" /\ status'[j] = "failed"
    BY <1>7, <2>1 DEF ReapStaleJobs, Overdue
  <2>3. \A j \in Job \ E : \/ status'[j] = status[j]
                           \/ status[j] = "processing" /\ status'[j] = "retrying"
    BY <1>7, <2>1 DEF ReapStaleJobs, Overdue
  <2>4. \A j \in Job \ E : OutcomeOf(status'[j]) = OutcomeOf(status[j])
    BY <2>3 DEF Claimable
  <2>5. Delivery!GiveUp(E)
    BY <1>5, <2>2, <2>4
  <2> QED BY <2>5 DEF Delivery!EDNext
<1> QED BY <1>3, <1>4, <1>6, <1>7 DEF HandlerStep

\* Only a successful integration call of a worker can be seen, as a delivery.
LEMMA WorkerRefines ==
  ASSUME Shape, Accounting, NEW w \in Worker, WorkerStep(w)
  PROVE  [Delivery!EDNext]_(Delivery!edvars)
<1>1. status' = status
  BY OthersKeepTable DEF jobVars
<1>2. CASE acks' = acks
  BY <1>1, <1>2, Invisible
<1>3. CASE IntegrationSucceeds(w)
  <2>1. PICK t \in Job : t = cur[w]
    BY <1>3 DEF IntegrationSucceeds, Shape, BusyWorkerHasJob
  <2>2. status[t] # "absent"
    <3>1. w \in Callers(t)
      BY <1>3, <2>1 DEF IntegrationSucceeds, Callers
    <3>2. Cardinality(Callers(t) \ {w}) \in Nat /\ Cardinality(Callers(t) \ {w}) + 1 <= Cardinality(Callers(t))
      BY <3>1, Finite, CardDrop
    <3>3. acks[t] \in Nat /\ attempts[t] \in Nat /\ acks[t] + Cardinality(Callers(t)) <= attempts[t]
      BY DEF Shape, TypeOK, Accounting, OneCallPerAttempt
    <3>4. attempts[t] # 0
      BY <3>2, <3>3, Finite
    <3> QED BY <3>4 DEF Accounting, UncreatedIsUnclaimed
  <2>3. Seen[t] # "none"
    BY <2>2, OutcomeValues DEF Seen, Shape, TypeOK, Status, Terminal
  <2>4. Seen' = Seen /\ acks' = [acks EXCEPT ![t] = @ + 1]
    BY <1>1, <1>3, <2>1 DEF Seen, IntegrationSucceeds
  <2>5. Delivery!Deliver(t)
    BY <2>3, <2>4 DEF Delivery!Deliver, Seen
  <2> QED BY <2>5 DEF Delivery!EDNext
<1> QED BY <1>2, <1>3 DEF WorkerStep, StartReap, SkipReap, BlpopHit, BlpopTimeout, ListEligible,
       NextListed, LoopDone, IntegrationFails, Exit, Start

LEMMA EnvironmentRefines ==
  ASSUME Shape, NEW t \in Job, CreateEvent(t) \/ CreateDuplicate(t) \/ TimePasses(t)
  PROVE  [Delivery!EDNext]_(Delivery!edvars)
<1>1. CASE CreateEvent(t)
  <2>1. /\ Seen[t] = "none" /\ Seen' = [Seen EXCEPT ![t] = "pending"] /\ acks' = acks
    BY <1>1, OutcomeValues DEF CreateEvent, Seen, Shape, TypeOK, Claimable
  <2>2. Delivery!Record(t)
    BY <2>1 DEF Delivery!Record, Seen
  <2> QED BY <2>2 DEF Delivery!EDNext
<1>2. CASE status' = status /\ acks' = acks
  BY <1>2, Invisible
<1> QED BY <1>1, <1>2 DEF CreateDuplicate, TimePasses, BackoffElapses, ProcessingGoesStale, vars

\* The queue, with its races, retries, crashes and lost requests, gives its
\* callers exactly what EventDelivery promises.
THEOREM QueueImplementsDelivery == Spec => ImplementsDelivery
<1>1. Init => Delivery!EDInit
  BY OutcomeValues DEF Init, Delivery!EDInit
<1>2. Shape /\ Accounting /\ [Next]_vars => [Delivery!EDNext]_(Delivery!edvars)
  <2> SUFFICES ASSUME Shape, Accounting, [Next]_vars
               PROVE  [Delivery!EDNext]_(Delivery!edvars)
    OBVIOUS
  <2>1. CASE UNCHANGED vars
    BY <2>1, Invisible DEF vars
  <2>2. CASE Fault
    <3>1. status' = status /\ acks' = acks
      BY <2>2, OthersKeepTable DEF jobVars, Fault, HandlerFails, BlpopError, ListFails,
         RequestTimesOut, HandleSignal, Crash, RedisLosesHints
    <3> QED BY <3>1, Invisible
  <2> QED BY <2>1, <2>2, HandlerRefines, WorkerRefines, EnvironmentRefines DEF Next, Work
<1> QED BY <1>1, <1>2, ShapeInvariant, AccountingInvariant, PTL
       DEF Spec, ImplementsDelivery, Delivery!EDSpec

=============================================================================
