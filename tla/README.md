# TLA+ models of the StayKaro AI caller

These modules model the parts of the system in which processes, requests and
messages meet: the durable job queue and its workers, the Exotel webhook of the
voice gateway, the gateway's calls, sessions and shutdown, the spoken dialogue of
a call, the tables that are edited over HTTP, the users and tokens that may do
so, the database sessions they run in, and the alerts. TLC checks them
on small instances; TLAPS proves the main results for every instance.

## The system

| component | source | state | operations |
|---|---|---|---|
| job queue API | `services/api/src/routers/jobs.py` | `call_jobs` rows: status, attempts, limits, times | create, list, claim, complete, fail, reap |
| worker | `services/worker/src/` | the job in hand, a shutdown flag, the time of the last sweep | sweep, pop a hint, poll, claim, call the integration, report |
| integration service | `services/integration-service/src/main.py` | none | process one event, succeed or fail |
| Exotel callback | `services/voice-gateway/exotel_routes.py`, `internal_calls.py` | none of its own | record the event, then create or finalize the call |
| internal calls API | `services/api/src/routers/internal.py` | `calls` rows, phone routes | create, finalize, resolve |
| sessions and call store | `services/voice-gateway/src/main.py` | sessions in memory and Redis (1 h), provider call to call id in Redis (24 h) | create, get, end, remove, add a turn; set, get, delete |
| voice WebSocket, drain | `voice_pipeline.py`, `src/main.py` | connections, `_active_calls`, `_draining` | accept, handshake, talk, hang up; drain on shutdown |
| conversation pipeline | `conversation.py`, `stt_/ai_/tts_provider.py` | audio buffer, turn history | detect a turn, answer it |
| authentication | `services/api/src/auth.py`, `main.py` | `admin_users` rows; signed tokens, kept by the browser | log in, refresh, log out; create, update, suspend users |
| tenant context, sessions | `services/api/src/tenant.py`, `database.py` | connection pool, `app.current_tenant` on each connection | set the tenant, commit, roll back, reset, close |
| call request API | `services/api/src/main.py` (`POST /call`) | a call request per submission | create |
| admin and client API | `routers/admin.py`, `routers/client.py` | clients, users, customers, audit log | create, update, query |
| monitoring | `services/api/src/monitoring.py`, `main.py` | a window of recent requests | record, health, metrics, check and notify |
| dashboards | `apps/` | the two tokens of a tab | send requests, refresh silently after a 401 |
| legacy prototype, deployment | `app/`, `scripts/`, `infrastructure/` | | |

How they interact. Exotel calls the webhook. The webhook records every event
through the job queue API (one row per provider call and event type, which is
also the duplicate check), creates or finalizes the call through the internal
calls API, and keeps sessions and the mapping from provider calls to calls in
Redis. The caller's audio arrives on a WebSocket that uses the same session.
The recorded events are jobs: workers learn of them from a Redis list or by
polling, claim them, call the integration service and report the result.
Every API route runs in a database session from the pool, most of them after
setting the tenant that row-level security compares with; which tenant, the
token in the request says. A middleware feeds each answer to the monitoring,
whose loop checks the dependencies and the window every minute.

What is hard here: requests that outlive the client that sent them; workers
that die between claim and report; a sweep that takes work away from a slow
worker; webhooks delivered twice, in parallel or out of order; an event that is
recorded before its effect; Redis that loses what it was told; a process that
has to stop while calls are going on; turns that are heard faster than they are
answered; requests that check a table in one statement and write it in another;
tokens that outlive the rights they were issued for; settings that stay on a
connection when the request that made them is gone.
`PROJECT.json` lists these hazards at
the lines where they bite.

What makes each part correct:

* queue and workers: an attempt belongs to one worker, nothing is acknowledged
  before it was delivered, retries are bounded, ended jobs stay ended, and every
  recorded event ends;
* webhook and sessions: one call per event, a call that was acknowledged can be
  found at its end, its outcome is the one Exotel reported, and afterwards
  nothing of it is left;
* WebSocket and drain: the count of calls is exact, the shutdown finds nothing
  left to wait for, the process does stop, and sessions do not come back;
* conversation: no speech is lost between turns, buffers stay bounded, every turn
  that was understood gets a reply or an apology, replies keep the order of the
  turns and the history pairs each turn with its reply;
* admin and client tables: keys stay unique, a request changes only what it
  names, and the audit trail says only what happened;
* accounts: a token never names another tenant, the tokens of a tab belong
  together, and a right that was revoked and has expired everywhere is gone;
* tenant context: no way out of a session loses a connection, every request
  ends, and what a connection carried before does not widen what a request sees;
* monitoring: window, percentiles and alerts are those of the last minutes
  exactly, and an outage that lasts is reported.

## Modules

| module | what it is |
|---|---|
| `EventDelivery` | abstract promise of the queue: an event is recorded, delivered at least once and settled, or given up |
| `JobQueue` | table, API handlers, workers and hints; refines `EventDelivery` |
| `JobQueueProofs` | inductive invariant of `JobQueue`, the safety theorems, and that it implements `EventDelivery` |
| `GatewayCallbacks` | webhook handlers, the API calls they make, call store and sessions |
| `GatewayCallbacksProofs` | inductive invariant of a delivery, and the six safety theorems about calls, sessions and mappings |
| `VoiceCalls` | WebSocket connections, sessions, the call counter and the shutdown |
| `VoiceCallsProofs` | types, counter, shutdown and session theorems |
| `Conversation` | the processors of one call and the turn history in its session |
| `ConversationProofs` | types, buffer bound, no speech lost, shape of the history, order of the replies |
| `Records` | requests on clients (alias tenants), users and customers, and the audit log |
| `RecordsProofs` | types, uniqueness of keys, truth of the audit trail, updates that overlap |
| `TenantContext` | sessions on the connection pool and the tenant setting |
| `TenantContextProofs` | the pool's accounts, the scope of a request, what stays on connections |
| `Accounts` | users, logins and the tokens of dashboard tabs |
| `AccountsProofs` | types, tenants of tokens, revocation |
| `Monitoring` | metrics registry, alert rules and the monitoring loop |
| `MonitoringProofs` | types, exact window, percentiles, exact alerts |
| `MCJobQueue`, `MCGatewayCallbacks`, `MCVoiceCalls`, `MCConversation`, `MCRecords`, `MCTenantContext`, `MCAccounts`, `MCMonitoring` | instances for TLC: symmetry sets, and the values of constants that are sets of records |

Each specification also holds a few operators marked *Mutant*: a definition
with one plausible mistake in it. No behaviour of the specification uses them.
Put in place of the original, each makes TLC report the property it is listed
with in `PROJECT.json`, which shows that the property depends on that code.

### JobQueue

A row is `status`, `attempts`, `max_attempts` and three sets: `due` for
`available_at <= now`, `stale` for a processing row not written for 120 s, and
`processed` for a row with `processed_at`. Times are kept only as far as the
guards compare them; `BackoffElapses` and `ProcessingGoesStale` are time passing.

A request occupies a `Handler` until it returns. `complete_event` and
`fail_event` read the row and update it in two statements, so they are two steps
(`CompleteCheck`/`CompleteUpdate`, `FailCheck`/`FailUpdate`) with other requests
between them. `claim_event` and `reap_stale_jobs` are one guarded `UPDATE`, so
one step. A worker that waits too long goes on and leaves its handler running
without a client (`RequestTimesOut`); a handler can fail with its transaction
rolled back (`HandlerFails`). Of a worker the model keeps where it is in
`_run_loop`/`process_one` (`pc`), its job (`cur`), the rest of its poll page
(`todo`) and the shutdown flag. A worker can be signalled, crash anywhere and be
started again. `acks` counts successful integration calls; no guard reads it.

Left out: validation and the token check (they end a request before it touches
a row), `get_event`, the text of errors, and the length of the backoff.

### GatewayCallbacks

A `Slot` is one webhook delivery being served. `callback` is cut at its awaits:
`Webhook` to `RecordEvent` (`create_event` in the API), then `AnswerDuplicate`,
`IgnoreOther`, or for a start event `FreshStart`, `ResolveRoute`, `CreateCall`,
`StartSession`, and for an end event `FreshEnd`, `FinalizeCheck`,
`FinalizeWrite`, `CleanUp`. Redis is called synchronously, so the session and
mapping writes after an await are one step. `finalize_call` reads the row and
flushes an update by primary key: two steps.

`DuplicateUnseen` is the other way `create_event` can end for a recorded event.
The rollback after the `IntegrityError` also undoes the transaction's
`set_config`, and row-level security is forced on `call_jobs`: unless the pooled
connection still carries the sentinel from an earlier commit, the look-up finds no
row, the error is raised again, and Exotel gets a 503 and redelivers.

`ApiError` is a 4xx or 5xx of the API, and also the webhook's own 503 or 422 for
missing routing or a missing number: each ends the delivery after the event was
recorded. `ReplyLost` is a request the gateway gives up on; the API may still
carry it out. `Crash` restarts the gateway: memory and handlers are gone, Redis
and the database are not. `RedisForgets` is expiry or eviction, and with the
fault `"redis"` each Redis command may fail silently, as the code allows. Which
events are sent and which faults happen is the `scenario`, fixed for a behaviour
and chosen from the constant `Scenarios`. `said` is the `Status` Exotel reports
with each end event, the same at every redelivery. `Ordered` says that a call's
end event is sent only after its start was answered `session_started`.

Rejected deliveries (401, 422 of the body) touch nothing and are left out.
Tenants and agents are data no step depends on.

### VoiceCalls

The drain flag is read when a connection arrives, the call is counted after
`accept()` has been awaited, and the count drops after `transport.cleanup()`
has been awaited: `Connect`/`Refuse`, `Accept`, then `HandshakeRead`,
`HandshakeMissing` or `SetupRaises`, `AddTurn`, `HangUp`, `Leave`.

The shutdown is that of uvicorn 0.30.6 (external, pinned in `requirements.txt`),
and `phase` follows it. `Sigterm`: the server stops listening and closes every
WebSocket with code 1012. While it is `closing` it waits, without a limit, for
all connections and tasks; each call notices the closed socket and leaves through
the same code as when the caller hangs up. `LifespanShutdown`: only when none is
left does `_lifespan` resume after its `yield` and set `_draining`; `Drain` is its
loop. So calls in progress are cut at SIGTERM, where the comment at
`src/main.py:24-32` says that they "finish naturally"; the flag is never set
while a connection could still be refused; and the loop has nothing to wait for
(`DrainNeverWaits`). `PROGRESS.md:78` says that draining was not verified with a
real active call. A SIGKILL at the end of the container's grace period is not
modelled.

The callback's creation and removal of sessions are the
actions `CallbackCreates` and `CallbackEnds`; call ids are fresh uuids, so a
session is created once. One life of the process is modelled.

### Conversation

One call after its handshake. Pipecat (external) hands every processor one frame
at a time and in order, and runs the processors concurrently: `STTProcessor` is
`HearSpeech`, `HearSilence`, `Transcribed`, `NotTranscribed`; `AIProcessor` is
`Greet` or `HandleUserTurn`, then, after the awaited provider, `Respond` or
`RespondSorry`; `TTSProcessor` is `Synthesize` and `SynthesizeFails`. A frame of
speech is its number and silence is 0, so that `said`, all the audio handed to
the STT provider, can be compared with what was spoken. The text of a turn is the turn's
number: a transcript, a reply and an entry of the history are told apart by the
turn they are about, and `GenerateResponse` is the rule of the local provider,
the last user turn or the greeting. `answered`, a history variable, collects the
turns for which a response was pushed to `TTSProcessor`, the apology included.
`mem` and `redis` are the session's two copies, each Redis command of a call with
`redisFails` may fail silently, with `get` preferring memory; `CallbackEnds` is the webhook removing the
session under the pipeline, `RedisExpires` the TTL.

Left out: the audio itself and its thresholds, the wording of replies, and
barge-in, which `voice_pipeline.py` mentions and `conversation.py` does not
implement.

### Records

The admin and client routers treat clients (and tenants, the same rows under
another name), users and customers alike, so one module serves them all; `table`
says which one, and `Routes`, `Accepts` and three guards hold the differences: a
slug may change, a user names a tenant, customers are upserted and not audited.
A row is its unique key, a kind (plan, role, profile) and a status.

A request is cut at its awaits: look up (`Load`, `FindNone`, ...), the look-up of
a new slug (`CheckKey`), commit (`Insert`, `Update`), `Refresh`, and
`WriteAuditLog` in a transaction of its own. PostgreSQL (external) runs read
committed and enforces the unique index, by which a write that was overtaken
fails (`InsertConflicts`, `UpdateConflicts`: nobody catches the error). SQLAlchemy
(external) writes the columns that differ from the loaded object (`Written`). A
request may fail or its process stop at any await (`Fails`). When the audit write
fails, the rollback expires the loaded object, and a create or an update cannot
build its response from it any more (`AuditLogFails`); the change stays. Rows are
never deleted physically. Initially the table is any table with unique keys.

Left out: lists, statistics and the call log, which only read; roles of the
caller, checked before anything happens.

### TenantContext

`get_db` and the dependencies built on it, for requests that share a pool. A
request is `free`, about to `set` its tenant, running its handler (`run`), in the
`finally` of `get_db` (`reset`), or closing its session. `ctx` is what its
dependency sets: the caller's tenant, the sentinel for all tenants, `''` for a
token without tenant, or nothing at all (`Plain`). `Checkout` is SQLAlchemy
taking a connection for the next statement; `Commit`, `HandlerRollback`,
`Raises` and `Close` end a transaction and give it back; `ConnectionLost` breaks
one; `ResetFails` is the suppressed exception.

PostgreSQL and SQLAlchemy are external, and three of their rules matter. A
session-scoped `set_config`, and likewise `RESET`, is undone if its transaction
rolls back (`guc` is the value now, `base` the one a rollback restores). A session
holds a connection per transaction, so a request that goes on after a commit
may do so on another one. The pool is a queue of `size` connections with
`overflow` more. `left`, a history variable, collects the contexts under which
something was committed. `pool_timeout` is the exception a waiting request may
get at any time. What the statements read and write is left out: rows matter
only by the tenant that `Visible` compares.

### Accounts

Tokens are signed and stored nowhere on the server, so the state is the
`admin_users` rows and what tabs hold: an access and a refresh token each
(`access`, `refresh`), the refresh request in flight (`asking`) and the login in
flight (`login`, holding what was read from the row). A token is its subject,
role and tenant; a token that expires is gone (`AccessExpires`,
`RefreshExpires`), since every check refuses it. `LoginReads` and `LoginAnswers`
are two steps because the row can change before the answer reaches the tab;
`RefreshSends`, `RefreshAnswers` and `RefreshFails` are `fetchWithAuth` and `refresh_token`, and the tab can log
out or in between them. The break-glass address may log in while it has no row.
Initially there are no rows at all; the first login is the break-glass one.

Left out: hashing and signatures, which are taken to work; the other routes,
which change neither users nor tokens; the e-mail address as a key, which is
`Records`.

### Monitoring

`Request`, `Health` and `Metrics` are the middleware and the two routes; the
loop is `Wake`, `CheckDependencies` and `Notify`, split at the awaits, with
`IterationFails` for its `except` and `Stop`/`Start` for the life of the
process. `log` records every request for comparison with the deque `samples`;
`InWindow`, the requests a snapshot has to describe, is a set of places in it.
The alert rules are integer comparisons; they decide like the code's floating
point for every count up to `max_samples`. An alert that is due is notified once
per iteration, so `alerts` is what the last iteration said.

A request whose handler raises is not in the window: `call_next` raises before
`record` is reached, although the comment at `main.py:141` speaks of every
request. The error rate therefore counts the 5xx answers that handlers return,
not unhandled exceptions, and the model says so in its header.

The comment at `monitoring.py:151` quotes "> 1.5s sustained for 5 minutes". The
code pages at the first iteration at which the percentile of the window is above
the limit, however short the rise; the tests and `PROGRESS.md:185-189` expect
that, and so does `AlertsAreExact`.

## Runs

| run | instance | shows |
|---|---|---|
| `JobRaces` | 1 job, 2 workers, 3 requests, limits 1 and 2 | types, `ProcessedIffTerminal`, `NoPrematureAck`, `OneCallPerAttempt`, `RetriesBounded`, `TerminalIsFinal`, `ImplementsDelivery` |
| `JobLiveness` | 2 jobs, 1 worker, 1 request, poll pages of 1 | `EveryJobEnds` |
| `GatewayRaces` | 2 provider calls, 3 call ids, 2 deliveries at once; a start and an end each with API errors, lost replies and crashes; or one call announced by two kinds of start event with lost replies and crashes; or one call with every other kind of event and crashes and Redis faults | types, `OneCallPerStartEvent`, `SessionsHaveCalls`, `CallEndsAsReported`; with a working Redis also `AckedCallIsFindable`, `CleanedIsGone` |
| `VoiceDrain` | 2 calls, 3 connections, 2 polls, working Redis | `ActiveIsCounted`, `HungUpMeansGone`, `DrainNeverWaits`, `ShutdownEnds` |
| `ConversationTurns` | up to 3 frames of speech, buffer of 4, turn end after 2 silent frames, session removed or expired at any time, Redis working or failing | types, `BufferBounded`, `NoSpeechLost`, `TurnsAreAnswered`; with a working Redis also `HistoryIsDialogue`, `RepliesInOrder` |
| `RecordRequests` | 2 requests on 2 rows, with 2 keys, kinds and statuses, each of the three tables | types, `KeysUnique`, `AuditedWasCommitted`, `NoFieldClobbered` |
| `TenantRequests` | 2 requests, pools of 1, 1+1 and 2 connections, 1 tenant besides the sentinel and the empty context | `PoolAccounted`, `FirstTransactionIsScoped`, `OnlyCommitsLeaveContext`, `EveryRequestEnds` |
| `AccountTokens` | 2 tabs, 2 users (one break-glass), 2 roles, a login and a refresh in flight | types, `TokenTenantIsOwn`, `PairIsOneUser`, `RevokedStaysRevoked` |
| `MonitoringAlerts` | up to 4 requests (good, slow, failed), deque of 3, window of 1 in 2 units of time, database and disk failing, 1 failed iteration | types, `SnapshotIsExact`, `AlertsAreExact`, `OutageIsAlerted` |

Three runs end in a counterexample, each of a sentence in the repository:

* `GatewayEndRetry` (`EndFinalizes`): the end event is recorded before
  `finalize` is tried, so when that fails Exotel's retry is a duplicate and the
  call is never finalized. The run assumes that Exotel keeps retrying and that
  the API recovers, so nothing but the code's own order strands the call.
* `TenantContextLeak` (`ContextIsCleared`): a handler commits, which makes its
  tenant the committed setting of the connection. The `RESET` on the way out
  starts a transaction that `close()` rolls back, so the setting returns and the
  connection goes to the pool with it. What limits the effect is
  `FirstTransactionIsScoped`: a request sets its own context first.
* `RefreshKeepsTenant` (`TenantIsKept`): refresh tokens carry no tenant and
  `refresh_token` adds none, so after the first silent refresh the token of a
  tenant's user has no tenant.

The models also contain races that no run singles out. `fail_event` decides
`can_retry` from a read and writes it under a condition on the status only, so a
sweep and a new claim in between let a job be attempted past `max_attempts`
(`RetriesBounded` is what holds). When integration succeeds and `complete` fails,
integration is called again: delivery is at least once, as `EventDelivery` says.
Two end events of one call can both pass the `ended_at` check, and the second
outcome stays (`CallEndsAsReported` is what holds). An end event that overtakes
its start is answered `ignored`, and the session the start then opens stays. A
call announced by two kinds of start event gets two call rows. A redelivery can
meet a connection that hides the recorded row, and is then an error and not a
duplicate. SIGTERM cuts the calls in progress before the drain begins. The audit entry of a user
update can show a role change another request made. A turn spoken after the
session was removed is answered with the greeting. Two upserts of one new phone
number make the second fail on the unique index. A failed audit write spoils the
answer of the change it describes. After a commit a request can go on with a
connection on which nothing has set its tenant. A refresh that is answered after
a logout or another login puts the old user's tokens back. A super administrator
can suspend every user, the break-glass row included, and then nobody can log in.

### Bounds

The races over a job are between two workers, a sweep and a request left behind:
two workers and three handlers hold all of them at once, and limit 2 is the least
at which a late decision can overrun. Workers do not interact across jobs except
in the sweep and the poll page; two jobs and a page of one show both. Two
deliveries at once are what a duplicate or a pair of end events needs, and a
second provider call what a mix-up of calls needs; a third call id leaves room
for a call too many. With three connections one can be counted, one between
accept and count, and one reconnecting. Three frames of speech make three turns
of one frame, so that with the greeting a turn can be transcribed, one be
answered and one be spoken at a time; with a pause between them they fill the
buffer of four. Two requests make every
pair of overlapping routes, and two rows and two keys let keys change hands
between them. Two requests on a pool of one let one wait while the other holds
the connection; a pool that overflows closes connections, one of two lets a
request move between them; one tenant is enough, since tenant, sentinel, empty
and unset are what `Visible` tells apart. Two tabs are an administrator's and
another's, or one user's twice; each can have a login and a refresh in flight
at once, and refreshes of two tabs meet only in the rows, which they do not read.
Four requests overfill a deque of three after one has left
the window, and 60 for `p95` puts the percentile's index away from the last
sample of three. `DrainPolls` is 2 instead of 150: the
loop only compares it, and leaves at its first test. Attempts need no bound of their own, since
`RetriesBounded` holds. The gateway, voice and record configurations switch
deadlock checking off: once all is answered, or the process has stopped, nothing
is left to do.

### Fairness

`JobQueue`: a worker is a loop in a container that is restarted; a handler that
took a request ends it; time passes; and the sweep timer, which a worker passes
again and again, fires (strong fairness, because the worker is not at the top of
its loop all the time). `EveryJobEnds` is claimed only if faults cease.
`GatewayCallbacks`: the event loop runs every handler, Exotel redelivers what was
not answered, and an API asked again and again does not fail each time (strong
fairness, since `ApiError` takes the request away). A retry meets, in the
end, a connection on which the recorded row is visible. `VoiceCalls`: a connection
whose socket the server has closed is told so at its next await
(`on_client_disconnected` cancels the worker) and finishes; the server's wait and
the drain loop go on; while serving, callers may talk forever. `Conversation`: the processors run on the
event loop, and a provider they await answers or raises; callers need neither
speak, fall silent nor hang up. `TenantContext`: the event loop runs every
request, handlers return, and a request that waits for a connection gets one if
connections keep coming back (strong fairness on `Checkout`, the pool's waiting
queue); exceptions need not happen. `Monitoring`: the event loop runs the task
once the sleep or the query is over; only finitely many iterations raise.
`Records` and `Accounts` claim nothing under fairness.

## Proofs

All are for any sets of jobs, workers, handlers, calls, connections, requests,
users and tabs, and for every window and threshold, under
the assumptions stated with the constants: finitely many workers, handlers and
connections, `max_attempts` between 1 and 20 as the request schema demands, a
deque that holds at least one sample, percentiles below 100, and fresh null
values. Nothing is proved by induction over data; where a proof needs the first
or the last of something it takes it from the well-foundedness of the naturals
(`LeastNumber`).

*Job queue.* None of the safety invariants is inductive alone. `Shape` says who
may be where: a request names a job, a waiting worker has at most one request,
a busy worker has a job. `Accounting` charges things to `attempts`: successful
integration calls plus workers about to call, and separately failure reports,
of which those that have decided to retry (`LateRetries`) were each decided
below the limit. An attempt can produce one report, so each late retry
pays for one claim past the limit, which gives `2 * max_attempts - 1`. From
`Shape` and `Accounting` follow `TypeCorrect`, `NeverCompletedEarly`,
`EndsAreStamped`, `ClaimsAreExclusive` and `RetriesAreBounded`; with them
`TerminalRowsAreFinal` and `QueueImplementsDelivery`, where every step is shown
to be a step of `EventDelivery` or to leave the observed outcome unchanged.

*Gateway callbacks.* `DeliveryInv` is what a delivery relies on between two
awaits: its event is recorded if it carries it out (`SlotOk`), the call it works
on is its own and in the state it left it (`CallOk`), no other delivery carries
out the same event (`OneWinner`), a call id is unknown to everybody else until
its session is started (`OwnCall`), and call rows have owners (`RowsOk`). It holds
with crashes, lost replies, API errors and a forgetful Redis
(`DeliveryInvariant`) and contains the types and `SessionsAlwaysHaveCalls`. On it
rest `CallsEndAsReported` and `AckedCallsStayFindable`. `OneCallForEachStart`
needs `Paid`: the calls of a provider call are mapped one to one to its recorded
start events that no delivery still works on. The count alone is not inductive:
a delivery that creates a call has to have an event of its own left to pay with.
`CleanedStaysGone` (`CleanInv`) has one hypothesis, `SingleStart`: Exotel
announces a call by one kind of start event. The code treats four kinds alike and
deduplicates by call and kind, so that a call announced by two kinds gets two
call rows of which the mapping keeps one, and the other outlives the end event.
In the run, the scenario with two kinds of start event sends no end event; the
others have one kind, and so satisfy the hypothesis.

*Voice calls.* `CountingInvariant` combines the types, the exact counter and
the shutdown property: when `_lifespan` resumes no connection is left, nor can one
come, so the exact counter is zero and the loop ends at its first test
(`CounterIsExact`, `DrainHasNothingToDo`).
`SessionsStayGone` adds that every session and every accepted connection goes
back to a callback (`FromCallback`), for a Redis that works and without the
development flag that admits unknown calls.

*Conversation.* `BufferStaysBounded` needs `ListenInv`, which adds the types of
the listening state. `HistoryStaysDialogue` holds for calls of any length. What
`HistoryIsDialogue` says of a call with a working Redis is not inductive alone;
whether Redis may fail is fixed for a call (`FailsFixed`), so that the proof
carries `~redisFails => AnswerInv`. `AnswerInv` adds
where the history stands while the AI processor is idle, greeting or answering
(`HistoryStands`), that the start frame is first in its queue, and that a session
gone from memory is gone from Redis too, so that none comes back half way.
`SpeechIsNeverLost` is about `Heard`, what was handed over followed by what is
buffered: its frames of speech rise (`Rising`) and are exactly those spoken
(`SpeechInv`). `RepliesKeepOrder` is about the whole pipeline: the replies, the
turn being answered, the queue, the transcription and the next turn are each ahead
of what follows (`PipelineInv`), and the turn being answered is the last the
provider sees (`ViewStands`), which takes `AnswerInv` and so, again, `~redisFails`.

*Records.* `TableInv` adds to `KeysUnique` what a request holds between its awaits
(`Holding`): well-formed input and a row that still exists, since nothing deletes
one. Then the unique index alone carries `KeysStayUnique`, and the look-ups before
a write are not needed for it. `TrailInv` adds that the author of an entry is
done; with `Holding`, by which whoever writes an entry has committed, it gives
`TrailIsTrue`. `NothingClobbered` rests on the columns SQLAlchemy writes
(`Written`: those in which the loaded object was changed) and on `WritesOnce`: a
request that has not reached its commit has written nothing.

*Tenant context.* `PoolInv` says who has which connection (`Lent`: an open
one is idle once or lent to one request, never both), with the types and the
limits of the pool; `NoConnectionIsLost` is its count. On it rest the two results
about the setting. `Scoped` strengthens `FirstTransactionIsScoped`: in its first
transaction a request already has its connection, so that none is checked out
unset; nobody else changes that connection, by `Lent` (`RequestsStartScoped`).
`Clean` adds to `OnlyCommitsLeaveContext` that what a rollback restores was
committed too (`ReadersLeaveNoContext`).

*Accounts.* `TokenTenantIsOwn` needs what the logins in flight say
(`LoginTenantIsOwn`) and that an absent row has no tenant (`AbsentHasNoTenant`):
creating a row could otherwise contradict a break-glass token issued before.
Together with the types and `PairIsOneUser` they are `TokenInv`
(`TokensNameOwnTenant`, `TabsNeverMixUsers`). `RevokedRolesStayRevoked` rests on
`CarriedFrom`: every token or login after a step repeats user and role of one
before it, except what `LoginReads` takes from a row that grants it.

*Monitoring.* `WindowInv` says that the log is ordered by time, the deque is its
end (`DequeIsSuffix`), and what the deque has lost was too old or more than
`max_samples` back (`LostIsOld`), which time passing cannot undo. So a snapshot is
of `InWindow`, whenever the deque was trimmed before. `SortedAtIndex` shows that
the sorted latencies have an element at each index: the least latency with more
than that many up to it. `SnapshotsAreExact` follows with the rounding of the
index (`PercentileIndex`), and `AlertsStayExact` since a percentile exceeds a limit
exactly when at most that percentage keeps to it (`PercentileExceeds`) and the
deque counts what the log counts (`CountsAgree`).

Only model-checked: liveness (`EveryJobEnds`, `ShutdownEnds`, `TurnsAreAnswered`,
`EveryRequestEnds`, `OutageIsAlerted`), which needs fairness. Every invariant and
every action property that a passing run checks has a theorem. The types of
`VoiceCalls` and `TenantContext` are proved (`VoiceCallsTyped`,
`TenantContextTyped`) and need no run.

## Plan

Done: `JobQueue` with its abstract specification, and `GatewayCallbacks`,
`VoiceCalls`, `Conversation`, `Records`, `TenantContext`, `Accounts` and
`Monitoring`, each model-checked and with proofs. Next, in this order:

1. an abstract call life cycle (announced, active, ended, cleaned) that
   `GatewayCallbacks` implements, as `JobQueue` implements `EventDelivery`;
2. what remains of `RepliesInOrder` and `HistoryIsDialogue` when Redis fails;
3. a composition of `GatewayCallbacks` with `JobQueue` in which `recorded` is the
   job table.

## Not modelled

* Outbound telephony providers: one stateless HTTP call each.
* Lists, statistics, call log and profile routes: they read and change nothing.
* The dashboards beyond their tokens: presentation.
* The legacy prototype in `app/` and beside the gateway: superseded by the
  services.
* Migrations, the seed script, proxies and deployment scripts: run once, by
  hand, with nothing to interleave with. The row-level policies that one
  migration creates are `Visible` in `TenantContext`.
