----------------------------- MODULE Monitoring -----------------------------
(***************************************************************************)
(* Metrics and alerts of the API: services/api/src/monitoring.py, and of   *)
(* main.py the request_logging middleware, _monitoring_loop,               *)
(* _check_dependencies, health and metrics_endpoint.                       *)
(*                                                                         *)
(* One event loop runs everything, so a step lasts from one await to the   *)
(* next.  Rates and percentiles are in percent and compared by multiplying *)
(* out, which decides as the code's floats do for every count up to        *)
(* max_samples.  A request whose handler raises is not recorded: call_next *)
(* raises before registry.record is reached, and nothing changes here.     *)
(***************************************************************************)
EXTENDS Integers, FiniteSetsExt, Sequences

CONSTANTS
  Dep,            \* what may fail: "db", "redis" (if configured), "disk" (too full)
  Answer,         \* the status and latency requests are answered with
  Window, MaxSamples,                          \* window_seconds, max_samples
  ErrorPct, MinRequests, Latency, P95,         \* thresholds
  NoLatency,      \* None, the percentile of nothing
  MaxTime, MaxRequests, MaxFaults              \* bounds

Signal == {"database_unreachable", "redis_unreachable", "disk_usage", "error_rate", "latency_p95"}
Sample == [at : 0 .. MaxTime, status : Nat, elapsed : Nat]

ASSUME MonitoringAssumption ==
  /\ Dep \subseteq {"db", "redis", "disk"}
  /\ Answer \subseteq [status : Nat, elapsed : Nat]
  /\ Window \in Nat /\ MaxSamples \in Nat \ {0}
  /\ ErrorPct \in 0 .. 100 /\ MinRequests \in Nat /\ Latency \in Nat /\ P95 \in 0 .. 99
  /\ NoLatency \notin Nat
  /\ MaxTime \in Nat /\ MaxRequests \in Nat /\ MaxFaults \in Nat

VARIABLES
  now,       \* time.monotonic()
  log,       \* every request recorded since the process started
  samples,   \* the registry's deque
  down,      \* the dependencies that fail
  loop,      \* where _monitoring_loop waits: asleep, for the database, for close
  checks,    \* the failures _check_dependencies reported in this iteration
  alerts,    \* what this iteration notified of
  faults     \* iterations that raised

vars == <<now, log, samples, down, loop, checks, alerts, faults>>

-----------------------------------------------------------------------------
TypeOK ==
  /\ now \in 0 .. MaxTime
  /\ log \in Seq(Sample) /\ Len(log) <= MaxRequests
  /\ samples \in Seq(Sample) /\ Len(samples) <= MaxSamples
  /\ down \subseteq Dep
  /\ loop \in {"asleep", "checking", "checked", "ended"}
  /\ checks \subseteq {"db", "redis"}
  /\ alerts \subseteq Signal
  /\ faults \in 0 .. MaxFaults

Init ==
  /\ now = 0
  /\ log = <<>> /\ samples = <<>>
  /\ down \in SUBSET Dep
  /\ loop = "asleep"
  /\ checks = {} /\ alerts = {}
  /\ faults = 0

-----------------------------------------------------------------------------
(* The registry.                                                           *)

\* Mutant: a deque without maxlen.
AppendUnbounded(s, e) == Append(s, e)

\* deque(maxlen): a full one drops its oldest element.
AppendSample(s, e) ==
  IF Len(s) = MaxSamples THEN Append(Tail(s), e) ELSE Append(s, e)

\* popleft while the oldest sample is before the cutoff.
Recent(s) ==
  LET fresh(e) == e.at >= now - Window
  IN SubSeq(s, Min({i \in DOMAIN s : fresh(s[i])} \union {Len(s) + 1}), Len(s))

\* The latency at index i, from 0, once the samples' latencies are sorted.
SortedAt(s, i) ==
  CHOOSE v \in {s[k].elapsed : k \in DOMAIN s} :
    /\ Cardinality({k \in DOMAIN s : s[k].elapsed < v}) <= i
    /\ Cardinality({k \in DOMAIN s : s[k].elapsed <= v}) > i

\* Mutant: the index counts from one.
PercentileNext(s, p) ==
  IF s = <<>> THEN NoLatency
  ELSE SortedAt(s, Min({Len(s) - 1, (Len(s) * p) \div 100 + 1}))

Percentile(s, p) ==
  IF s = <<>> THEN NoLatency
  ELSE SortedAt(s, Min({Len(s) - 1, (Len(s) * p) \div 100}))

Snapshot(s) ==
  [requests |-> Len(s),
   errors |-> Cardinality({i \in DOMAIN s : s[i].status >= 500}),
   p50 |-> Percentile(s, 50),
   p95 |-> Percentile(s, P95)]

\* Mutant: any error in the window, however few the requests.
CheckAlertsEarly(snap, failed, full) ==
  LET raised == [database_unreachable |-> "db" \in failed,
                 redis_unreachable |-> "redis" \in failed,
                 error_rate |-> snap.errors * 100 > ErrorPct * snap.requests,
                 latency_p95 |-> snap.p95 # NoLatency /\ snap.p95 > Latency,
                 disk_usage |-> full]
  IN {s \in Signal : raised[s]}

CheckAlerts(snap, failed, full) ==
  LET raised == [database_unreachable |-> "db" \in failed,
                 redis_unreachable |-> "redis" \in failed,
                 error_rate |-> /\ snap.requests >= MinRequests
                                /\ snap.errors * 100 > ErrorPct * snap.requests,
                 latency_p95 |-> snap.p95 # NoLatency /\ snap.p95 > Latency,
                 disk_usage |-> full]
  IN {s \in Signal : raised[s]}

-----------------------------------------------------------------------------
(* Requests.                                                               *)

Record(answer) ==
  /\ loop # "ended" /\ Len(log) < MaxRequests
  /\ LET e == [at |-> now, status |-> answer.status, elapsed |-> answer.elapsed]
     IN log' = Append(log, e) /\ samples' = AppendSample(samples, e)

\* request_logging, after any handler that answers.
Request(answer) ==
  /\ Record(answer)
  /\ UNCHANGED <<now, down, loop, checks, alerts, faults>>

\* GET /health feeds the window as well: 503 while a dependency is unreachable.
Health(elapsed) ==
  /\ Record([status |-> IF down \intersect {"db", "redis"} = {} THEN 200 ELSE 503,
             elapsed |-> elapsed])
  /\ UNCHANGED <<now, down, loop, checks, alerts, faults>>

\* GET /metrics takes a snapshot; it is recorded as a request of its own.
Metrics ==
  /\ loop # "ended"
  /\ samples' = Recent(samples)
  /\ UNCHANGED <<now, log, down, loop, checks, alerts, faults>>

Tick ==
  /\ now < MaxTime
  /\ now' = now + 1
  /\ UNCHANGED <<log, samples, down, loop, checks, alerts, faults>>

Fail(x) ==
  /\ x \notin down
  /\ down' = down \union {x}
  /\ UNCHANGED <<now, log, samples, loop, checks, alerts, faults>>

Recover(x) ==
  /\ x \in down
  /\ down' = down \ {x}
  /\ UNCHANGED <<now, log, samples, loop, checks, alerts, faults>>

-----------------------------------------------------------------------------
(* _monitoring_loop                                                        *)

\* Mutant: no except, so that a failed iteration is the last.
WakeUnlessFailed ==
  /\ loop = "asleep" /\ faults = 0
  /\ loop' = "checking"
  /\ alerts' = {}
  /\ UNCHANGED <<now, log, samples, down, checks, faults>>

Wake ==
  /\ loop = "asleep"
  /\ loop' = "checking"
  /\ alerts' = {}
  /\ UNCHANGED <<now, log, samples, down, checks, faults>>

\* The database answers or fails, and the ping of Redis follows at once.
CheckDependencies ==
  /\ loop = "checking"
  /\ loop' = "checked"
  /\ checks' = down \intersect {"db", "redis"}
  /\ UNCHANGED <<now, log, samples, down, alerts, faults>>

\* After the session is closed: snapshot, check_and_notify.
Notify ==
  /\ loop = "checked"
  /\ samples' = Recent(samples)
  /\ \E snap \in {Snapshot(samples')} :
       alerts' = CheckAlerts(snap, checks, "disk" \in down)
  /\ loop' = "asleep"
  /\ checks' = {}
  /\ UNCHANGED <<now, log, down, faults>>

\* Any exception on the way is logged, and the loop goes on.
IterationFails ==
  /\ loop \in {"checking", "checked"} /\ faults < MaxFaults
  /\ loop' = "asleep"
  /\ checks' = {}
  /\ faults' = faults + 1
  /\ UNCHANGED <<now, log, samples, down, alerts>>

\* The process stops: CancelledError at whichever await the loop is in.  The
\* registry goes with it.
Stop ==
  /\ loop # "ended"
  /\ loop' = "ended"
  /\ log' = <<>> /\ samples' = <<>>
  /\ checks' = {} /\ alerts' = {}
  /\ UNCHANGED <<now, down, faults>>

\* lifespan: a new task over an empty registry.
Start ==
  /\ loop = "ended"
  /\ loop' = "asleep"
  /\ UNCHANGED <<now, log, samples, down, checks, alerts, faults>>

-----------------------------------------------------------------------------
Loop == Wake \/ CheckDependencies \/ Notify

Next ==
  \/ \E answer \in Answer : Request(answer) \/ Health(answer.elapsed)
  \/ Metrics \/ Tick
  \/ \E x \in Dep : Fail(x) \/ Recover(x)
  \/ Wake \/ CheckDependencies \/ Notify \/ IterationFails
  \/ Stop \/ Start

Spec == Init /\ [][Next]_vars

\* The event loop runs the task whenever what it waits for has come.
FairSpec == Spec /\ WF_vars(Loop)

-----------------------------------------------------------------------------
(* Properties.                                                             *)

\* The requests a snapshot taken now has to describe, by their place in the log:
\* of the newest MaxSamples, those recorded in the last Window.
InWindow ==
  {i \in DOMAIN log : log[i].at >= now - Window /\ i > Len(log) - MaxSamples}

\* Whenever the deque was trimmed before, it holds just these, in order.
WindowIsExact ==
  LET s == Recent(samples)
      n == Len(log)
      old == n - Len(s)
  IN s = SubSeq(log, old + 1, n) /\ InWindow = old + 1 .. n

\* At most p percent of the latencies are below v, and p percent do not exceed it.
IsQuantile(s, v, p) ==
  /\ Cardinality({k \in DOMAIN s : s[k].elapsed < v}) * 100 <= p * Len(s)
  /\ Cardinality({k \in DOMAIN s : s[k].elapsed <= v}) * 100 >= p * Len(s)

PercentilesAreQuantiles ==
  LET s == Recent(samples)
  IN s # <<>> => IsQuantile(s, Snapshot(s).p50, 50) /\ IsQuantile(s, Snapshot(s).p95, P95)

\* A snapshot describes the last window exactly: trimming from the left when
\* somebody asks and dropping from the left when full lose nothing else, and its
\* percentiles are quantiles: p percent of the latencies do not exceed one, and
\* at most p percent are below it.
SnapshotIsExact == WindowIsExact /\ PercentilesAreQuantiles

\* The window calls for an alert: on the error rate when there were enough requests
\* and more than ErrorPct of them failed, on the latency when at most P95 percent
\* of them were fast.
AlertsMatchWindow ==
  LET n == Cardinality(InWindow)
      failed == {i \in InWindow : log[i].status >= 500}
      fast == {i \in InWindow : log[i].elapsed <= Latency}
  IN /\ "error_rate" \in alerts' <=>
          n >= MinRequests /\ Cardinality(failed) * 100 > ErrorPct * n
     /\ "latency_p95" \in alerts' <=> n > 0 /\ Cardinality(fast) * 100 <= P95 * n

\* An iteration that gets through pages exactly when the requests of the last
\* window call for it.
AlertsAreExact ==
  [][loop = "checked" /\ loop' = "asleep" /\ faults' = faults => AlertsMatchWindow]_vars

SignalOf == [db |-> "database_unreachable", redis |-> "redis_unreachable", disk |-> "disk_usage"]

\* An outage that lasts is notified again and again until the process stops, with
\* or without traffic and whatever iterations failed before.
OutageIsAlerted ==
  \A x \in Dep : []<>(x \in down => loop = "ended" \/ SignalOf[x] \in alerts)

=============================================================================
