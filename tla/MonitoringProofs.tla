-------------------------- MODULE MonitoringProofs --------------------------
(***************************************************************************)
(* Proofs about Monitoring, for any window, deque length and thresholds,   *)
(* any latencies and any number of requests.                               *)
(*                                                                         *)
(* Stage 1 (types).  Stage 2 (WindowInv): the deque is the end of the log, *)
(* and what it no longer has is too old or too far back.  Stage 3: sorting *)
(* makes quantiles, and so alerts are exact.                               *)
(***************************************************************************)
EXTENDS Monitoring, FiniteSetTheorems, SequenceTheorems, WellFoundedInduction, TLAPS

-----------------------------------------------------------------------------
(* Least numbers.                                                          *)

\* A nonempty set of numbers has a least element.
LEMMA LeastNumber ==
  ASSUME NEW S \in SUBSET Nat, S # {}
  PROVE  \E x \in S : \A y \in S : x <= y
<1> DEFINE R == {ss \in Nat \X Nat : ss[1] < ss[2]}
<1>1. IsWellFoundedOn(R, Nat)
  BY NatLessThanWellFounded DEF OpToRel
<1>2. \E x \in S : \A y \in S : ~(<<y, x>> \in R)
  <2> HIDE DEF R
  <2> QED BY <1>1, WFMin
<1>3. PICK x \in S : \A y \in S : ~(<<y, x>> \in R)
  BY <1>2
<1>4. \A y \in S : x <= y
  <2> TAKE y \in S
  <2>1. ~(<<y, x>> \in R) /\ x \in Nat /\ y \in Nat
    BY <1>3
  <2> QED BY <2>1
<1> QED BY <1>4

LEMMA MinOfSome ==
  ASSUME NEW S \in SUBSET Nat, S # {}
  PROVE  Min(S) \in S /\ \A y \in S : Min(S) <= y
<1>1. PICK x \in S : \A y \in S : x <= y
  BY LeastNumber
<1> QED BY <1>1 DEF Min

-----------------------------------------------------------------------------
(* Stage 1: types.                                                         *)

LEMMA AppendTyped ==
  ASSUME NEW s \in Seq(Sample), Len(s) <= MaxSamples, NEW e \in Sample
  PROVE  /\ AppendSample(s, e) \in Seq(Sample)
         /\ Len(AppendSample(s, e)) <= MaxSamples
<1>1. MaxSamples \in Nat \ {0} /\ Len(s) \in Nat
  BY MonitoringAssumption, LenProperties
<1>2. CASE Len(s) = MaxSamples
  <2>1. s # <<>>
    BY <1>1, <1>2
  <2>2. Tail(s) \in Seq(Sample) /\ Len(Tail(s)) = Len(s) - 1
    BY <2>1, HeadTailProperties
  <2> QED BY <1>1, <1>2, <2>2, AppendProperties DEF AppendSample
<1>3. CASE Len(s) # MaxSamples
  BY <1>1, <1>3, AppendProperties DEF AppendSample
<1> QED BY <1>2, <1>3

\* What trimming keeps: the end of the deque, from its first fresh sample on.
LEMMA RecentKeeps ==
  ASSUME NEW s \in Seq(Sample), now \in Int
  PROVE  \E m \in 1 .. Len(s) + 1 :
           /\ Recent(s) \in Seq(Sample)
           /\ Len(Recent(s)) = Len(s) - m + 1
           /\ \A i \in 1 .. Len(s) - m + 1 : Recent(s)[i] = s[m + i - 1]
           /\ \A i \in 1 .. m - 1 : s[i].at < now - Window
           /\ m <= Len(s) => s[m].at >= now - Window
<1> DEFINE F == {i \in DOMAIN s : s[i].at >= now - Window}
           m == Min(F \union {Len(s) + 1})
<1>1. Len(s) \in Nat /\ DOMAIN s = 1 .. Len(s) /\ Window \in Nat
  BY LenProperties, MonitoringAssumption
<1>2. F \union {Len(s) + 1} \in SUBSET Nat /\ F \union {Len(s) + 1} # {}
  BY <1>1
<1>3. m \in F \union {Len(s) + 1} /\ \A y \in F \union {Len(s) + 1} : m <= y
  <2> HIDE DEF F
  <2> QED BY <1>2, MinOfSome
<1>4. m \in 1 .. Len(s) + 1 /\ m \in Int
  BY <1>1, <1>3
<1>5. Recent(s) = SubSeq(s, m, Len(s))
  BY DEF Recent
<1> HIDE DEF m
<1>6. \A i \in m .. Len(s) : s[i] \in Sample
  BY <1>1, <1>4, ElementOfSeq
<1>7. /\ SubSeq(s, m, Len(s)) \in Seq(Sample)
      /\ Len(SubSeq(s, m, Len(s))) = IF m <= Len(s) THEN Len(s) - m + 1 ELSE 0
      /\ \A i \in 1 .. Len(s) - m + 1 : SubSeq(s, m, Len(s))[i] = s[m + i - 1]
  BY <1>1, <1>4, <1>6, SubSeqProperties
<1>8. \A i \in 1 .. m - 1 : s[i].at < now - Window
  <2> SUFFICES ASSUME NEW i \in 1 .. m - 1, ~(s[i].at < now - Window) PROVE FALSE
    OBVIOUS
  <2>1. i \in DOMAIN s /\ s[i] \in Sample
    BY <1>1, <1>4, ElementOfSeq
  <2>2. s[i].at \in Int
    BY <2>1, MonitoringAssumption DEF Sample
  <2>3. i \in F
    BY <1>1, <2>1, <2>2
  <2>4. m <= i
    BY <1>3, <2>3
  <2> QED BY <1>4, <2>4
<1>9. m <= Len(s) => s[m].at >= now - Window
  BY <1>1, <1>3
<1>10. Len(Recent(s)) = Len(s) - m + 1
  BY <1>1, <1>4, <1>5, <1>7
<1> QED BY <1>4, <1>5, <1>7, <1>8, <1>9, <1>10

LEMMA RecordTyped ==
  ASSUME TypeOK, NEW answer \in [status : Nat, elapsed : Nat], Record(answer)
  PROVE  /\ log' \in Seq(Sample) /\ Len(log') <= MaxRequests
         /\ samples' \in Seq(Sample) /\ Len(samples') <= MaxSamples
<1> DEFINE e == [at |-> now, status |-> answer.status, elapsed |-> answer.elapsed]
<1>1. e \in Sample
  BY DEF TypeOK, Sample
<1>2. log' = Append(log, e) /\ samples' = AppendSample(samples, e) /\ Len(log) < MaxRequests
  BY DEF Record
<1> HIDE DEF e
<1>3. log \in Seq(Sample) /\ samples \in Seq(Sample) /\ Len(samples) <= MaxSamples
  BY DEF TypeOK
<1>4. MaxRequests \in Nat /\ Len(log) \in Nat
  BY <1>3, MonitoringAssumption, LenProperties
<1> QED BY <1>1, <1>2, <1>3, <1>4, AppendTyped, AppendProperties

LEMMA TypeStep == TypeOK /\ [Next]_vars => TypeOK'
<1> SUFFICES ASSUME TypeOK, [Next]_vars PROVE TypeOK'
  OBVIOUS
<1>t. /\ now \in 0 .. MaxTime /\ log \in Seq(Sample) /\ Len(log) <= MaxRequests
      /\ samples \in Seq(Sample) /\ Len(samples) <= MaxSamples /\ down \subseteq Dep
      /\ checks \subseteq {"db", "redis"} /\ alerts \subseteq Signal
      /\ faults \in 0 .. MaxFaults
  BY DEF TypeOK
<1>n. now \in Int /\ MaxTime \in Nat /\ MaxFaults \in Nat /\ MaxSamples \in Nat
  BY <1>t, MonitoringAssumption
<1>r. Recent(samples) \in Seq(Sample) /\ Len(Recent(samples)) <= MaxSamples
  <2>1. PICK m \in 1 .. Len(samples) + 1 : /\ Recent(samples) \in Seq(Sample)
                                           /\ Len(Recent(samples)) = Len(samples) - m + 1
    BY <1>t, <1>n, RecentKeeps
  <2>2. Len(samples) \in Nat
    BY <1>t, LenProperties
  <2> QED BY <1>t, <1>n, <2>1, <2>2
<1>0. ASSUME NEW answer \in [status : Nat, elapsed : Nat], Record(answer),
             UNCHANGED <<now, down, loop, checks, alerts, faults>>
      PROVE  TypeOK'
  BY <1>0, RecordTyped DEF TypeOK
<1>1. ASSUME NEW answer \in Answer, Request(answer) \/ Health(answer.elapsed) PROVE TypeOK'
  <2>1. answer \in [status : Nat, elapsed : Nat]
    BY MonitoringAssumption
  <2>2. CASE Request(answer)
    BY <1>0, <2>1, <2>2 DEF Request
  <2>3. CASE Health(answer.elapsed)
    <3> DEFINE a == [status |-> IF down \intersect {"db", "redis"} = {} THEN 200 ELSE 503,
                     elapsed |-> answer.elapsed]
    <3>1. a \in [status : Nat, elapsed : Nat]
      BY <2>1
    <3>2. Record(a) /\ UNCHANGED <<now, down, loop, checks, alerts, faults>>
      BY <2>3 DEF Health
    <3> HIDE DEF a
    <3> QED BY <1>0, <3>1, <3>2
  <2> QED BY <1>1, <2>2, <2>3
<1>2. CASE Metrics
  BY <1>2, <1>r DEF Metrics, TypeOK
<1>3. CASE Tick
  BY <1>3, <1>n DEF Tick, TypeOK
<1>4. ASSUME NEW x \in Dep, Fail(x) \/ Recover(x) PROVE TypeOK'
  BY <1>4 DEF Fail, Recover, TypeOK
<1>5. CASE Wake \/ Start
  BY <1>5 DEF Wake, Start, TypeOK
<1>6. CASE CheckDependencies
  BY <1>6 DEF CheckDependencies, TypeOK
<1>7. CASE Notify
  <2>1. alerts' \subseteq Signal
    BY <1>7 DEF Notify, CheckAlerts
  <2> QED BY <1>7, <1>r, <2>1 DEF Notify, TypeOK
<1>8. CASE IterationFails
  BY <1>8, <1>n DEF IterationFails, TypeOK
<1>9. CASE Stop
  <2>1. <<>> \in Seq(Sample) /\ Len(<<>>) = 0 /\ MaxRequests \in Nat
    BY MonitoringAssumption
  <2> QED BY <1>9, <1>n, <2>1 DEF Stop, TypeOK
<1>10. CASE UNCHANGED vars
  BY <1>10 DEF vars, TypeOK
<1> QED BY <1>1, <1>2, <1>3, <1>4, <1>5, <1>6, <1>7, <1>8, <1>9, <1>10 DEF Next

\* The registry keeps to its limits and records what it should, through any
\* requests, snapshots, failed iterations and restarts of the API.
THEOREM MonitoringTyped == Spec => []TypeOK
<1>1. Init => TypeOK
  <2>1. <<>> \in Seq(Sample) /\ Len(<<>>) = 0
    OBVIOUS
  <2> QED BY <2>1, MonitoringAssumption DEF Init, TypeOK
<1>2. TypeOK /\ [Next]_vars => TypeOK'
  BY TypeStep
<1> QED BY <1>1, <1>2, PTL DEF Spec

-----------------------------------------------------------------------------
(* Stage 2: the window.                                                    *)

\* Requests are logged as time passes.
LogOrdered ==
  /\ \A i \in 1 .. Len(log) : log[i].at <= now
  /\ \A i, k \in 1 .. Len(log) : i <= k => log[i].at <= log[k].at

\* The deque is the end of the log.
DequeIsSuffix ==
  /\ Len(samples) <= Len(log)
  /\ \A i \in 1 .. Len(samples) : samples[i] = log[Len(log) - Len(samples) + i]

\* What the deque has lost was too old, or more than MaxSamples ago.
LostIsOld ==
  \A i \in 1 .. Len(log) - Len(samples) :
    log[i].at < now - Window \/ i <= Len(log) - MaxSamples

WindowInv == LogOrdered /\ DequeIsSuffix /\ LostIsOld

LEMMA WindowRecord ==
  ASSUME TypeOK, WindowInv, NEW answer \in [status : Nat, elapsed : Nat], Record(answer),
         now' = now
  PROVE  WindowInv'
<1> DEFINE e == [at |-> now, status |-> answer.status, elapsed |-> answer.elapsed]
<1>1. e \in Sample /\ e.at = now
  BY DEF TypeOK, Sample
<1>2. log' = Append(log, e) /\ samples' = AppendSample(samples, e)
  BY DEF Record
<1> HIDE DEF e
<1>3. log \in Seq(Sample) /\ samples \in Seq(Sample) /\ Len(samples) <= MaxSamples /\ now \in Int
  BY MonitoringAssumption DEF TypeOK
<1>4. MaxSamples \in Nat \ {0} /\ Len(log) \in Nat /\ Len(samples) \in Nat /\ Window \in Nat
  BY <1>3, MonitoringAssumption, LenProperties
<1>5. /\ Len(log') = Len(log) + 1 /\ log'[Len(log) + 1] = e
      /\ \A i \in 1 .. Len(log) : log'[i] = log[i]
  BY <1>1, <1>2, <1>3, AppendProperties
<1>6. \A i \in 1 .. Len(log) : log[i].at \in Int
  <2> TAKE i \in 1 .. Len(log)
  <2>1. log[i] \in Sample
    BY <1>3, ElementOfSeq
  <2> QED BY <2>1, MonitoringAssumption DEF Sample
<1>7. LogOrdered'
  <2>1. \A i \in 1 .. Len(log) : log'[i].at = log[i].at /\ log[i].at <= now
    BY <1>5 DEF WindowInv, LogOrdered
  <2>2. \A i, k \in 1 .. Len(log) : i <= k => log[i].at <= log[k].at
    BY DEF WindowInv, LogOrdered
  <2>3. log'[Len(log) + 1].at = now
    BY <1>1, <1>5
  <2>4. \A i \in 1 .. Len(log) + 1 : i = Len(log) + 1 \/ i \in 1 .. Len(log)
    BY <1>4
  <2>5. \A i \in 1 .. Len(log) + 1 : log'[i].at <= now
    BY <1>3, <2>1, <2>3, <2>4
  <2>6. ASSUME NEW i \in 1 .. Len(log) + 1, NEW k \in 1 .. Len(log) + 1, i <= k
        PROVE  log'[i].at <= log'[k].at
    <3>1. CASE k = Len(log) + 1
      BY <2>3, <2>5, <3>1
    <3>2. CASE k \in 1 .. Len(log)
      <4>1. i \in 1 .. Len(log)
        BY <1>4, <2>6, <3>2
      <4> QED BY <2>1, <2>2, <2>6, <3>2, <4>1
    <3> QED BY <2>4, <3>1, <3>2
  <2> QED BY <1>5, <2>5, <2>6 DEF LogOrdered
<1>8. CASE Len(samples) = MaxSamples
  <2>1. samples # <<>>
    BY <1>4, <1>8
  <2>2. /\ Tail(samples) \in Seq(Sample) /\ Len(Tail(samples)) = Len(samples) - 1
        /\ \A i \in 1 .. Len(samples) - 1 : Tail(samples)[i] = samples[i + 1]
    BY <1>3, <2>1, HeadTailProperties
  <2>3. /\ Len(samples') = Len(samples) /\ samples'[Len(samples)] = e
        /\ \A i \in 1 .. Len(samples) - 1 : samples'[i] = samples[i + 1]
    <3>1. samples' = Append(Tail(samples), e)
      BY <1>2, <1>8 DEF AppendSample
    <3> QED BY <1>1, <1>4, <2>2, <3>1, AppendProperties
  <2>4. DequeIsSuffix'
    <3>1. Len(samples') <= Len(log')
      BY <1>4, <1>5, <2>3 DEF WindowInv, DequeIsSuffix
    <3>2. ASSUME NEW i \in 1 .. Len(samples)
          PROVE  samples'[i] = log'[Len(log) + 1 - Len(samples) + i]
      <4>1. CASE i = Len(samples)
        BY <1>4, <1>5, <2>3, <4>1
      <4>2. CASE i # Len(samples)
        <5>1. i \in 1 .. Len(samples) - 1 /\ i + 1 \in 1 .. Len(samples)
          BY <1>4, <4>2
        <5>2. samples[i + 1] = log[Len(log) - Len(samples) + (i + 1)]
          BY <5>1 DEF WindowInv, DequeIsSuffix
        <5>3. /\ Len(log) - Len(samples) + (i + 1) \in 1 .. Len(log)
              /\ Len(log) - Len(samples) + (i + 1) = Len(log) + 1 - Len(samples) + i
          BY <1>4, <5>1 DEF WindowInv, DequeIsSuffix
        <5> QED BY <1>5, <2>3, <5>1, <5>2, <5>3
      <4> QED BY <4>1, <4>2
    <3> QED BY <1>5, <2>3, <3>1, <3>2 DEF DequeIsSuffix
  <2>5. LostIsOld'
    <3>1. \A i \in 1 .. Len(log') - Len(samples') : i <= Len(log') - MaxSamples
      BY <1>4, <1>5, <1>8, <2>3
    <3> QED BY <3>1 DEF LostIsOld
  <2> QED BY <1>7, <2>4, <2>5 DEF WindowInv
<1>9. CASE Len(samples) # MaxSamples
  <2>1. /\ Len(samples') = Len(samples) + 1 /\ samples'[Len(samples) + 1] = e
        /\ \A i \in 1 .. Len(samples) : samples'[i] = samples[i]
    <3>1. samples' = Append(samples, e)
      BY <1>2, <1>9 DEF AppendSample
    <3> QED BY <1>1, <1>3, <3>1, AppendProperties
  <2>2. DequeIsSuffix'
    <3>1. Len(samples') <= Len(log')
      BY <1>4, <1>5, <2>1 DEF WindowInv, DequeIsSuffix
    <3>2. ASSUME NEW i \in 1 .. Len(samples) + 1
          PROVE  samples'[i] = log'[Len(log) - Len(samples) + i]
      <4>1. CASE i = Len(samples) + 1
        <5>1. Len(log) - Len(samples) + i = Len(log) + 1
          BY <1>4, <4>1
        <5> QED BY <1>5, <2>1, <4>1, <5>1
      <4>2. CASE i \in 1 .. Len(samples)
        <5>1. samples[i] = log[Len(log) - Len(samples) + i]
          BY <4>2 DEF WindowInv, DequeIsSuffix
        <5>2. Len(log) - Len(samples) + i \in 1 .. Len(log)
          BY <1>4, <4>2 DEF WindowInv, DequeIsSuffix
        <5> QED BY <1>5, <2>1, <4>2, <5>1, <5>2
      <4> QED BY <1>4, <4>1, <4>2
    <3>3. Len(log') - Len(samples') = Len(log) - Len(samples)
      BY <1>4, <1>5, <2>1
    <3> QED BY <2>1, <3>1, <3>2, <3>3 DEF DequeIsSuffix
  <2>3. LostIsOld'
    <3>1. ASSUME NEW i \in 1 .. Len(log') - Len(samples')
          PROVE  log'[i].at < now' - Window \/ i <= Len(log') - MaxSamples
      <4>1. i \in 1 .. Len(log) - Len(samples) /\ i \in 1 .. Len(log)
        BY <1>4, <1>5, <2>1
      <4>2. log'[i] = log[i] /\ (log[i].at < now - Window \/ i <= Len(log) - MaxSamples)
        BY <1>5, <4>1 DEF WindowInv, LostIsOld
      <4> QED BY <1>4, <1>5, <4>2
    <3> QED BY <3>1 DEF LostIsOld
  <2> QED BY <1>7, <2>2, <2>3 DEF WindowInv
<1> QED BY <1>8, <1>9

LEMMA WindowTrim ==
  ASSUME TypeOK, WindowInv, samples' = Recent(samples), log' = log, now' = now
  PROVE  WindowInv'
<1>1. samples \in Seq(Sample) /\ log \in Seq(Sample) /\ now \in Int
  BY MonitoringAssumption DEF TypeOK
<1>2. Len(log) \in Nat /\ Len(samples) \in Nat
  BY <1>1, LenProperties
<1>3. PICK m \in 1 .. Len(samples) + 1 :
        /\ Len(Recent(samples)) = Len(samples) - m + 1
        /\ \A i \in 1 .. Len(samples) - m + 1 : Recent(samples)[i] = samples[m + i - 1]
        /\ \A i \in 1 .. m - 1 : samples[i].at < now - Window
  BY <1>1, RecentKeeps
<1>4. Len(samples') = Len(samples) - m + 1
  BY <1>3
<1>5. Len(samples) <= Len(log)
  BY DEF WindowInv, DequeIsSuffix
<1>6. LogOrdered'
  BY DEF WindowInv, LogOrdered
<1>7. DequeIsSuffix'
  <2>1. ASSUME NEW i \in 1 .. Len(samples) - m + 1
        PROVE  samples'[i] = log[Len(log) - (Len(samples) - m + 1) + i]
    <3>1. samples'[i] = samples[m + i - 1]
      BY <1>3, <2>1
    <3>2. m + i - 1 \in 1 .. Len(samples)
      BY <1>2
    <3>3. samples[m + i - 1] = log[Len(log) - Len(samples) + (m + i - 1)]
      BY <3>2 DEF WindowInv, DequeIsSuffix
    <3>4. Len(log) - Len(samples) + (m + i - 1) = Len(log) - (Len(samples) - m + 1) + i
      BY <1>2
    <3> QED BY <3>1, <3>3, <3>4
  <2>2. Len(samples) - m + 1 <= Len(log)
    BY <1>2, <1>5
  <2> QED BY <1>4, <2>1, <2>2 DEF DequeIsSuffix
<1>8. LostIsOld'
  <2> SUFFICES ASSUME NEW i \in 1 .. Len(log) - (Len(samples) - m + 1)
               PROVE  log[i].at < now - Window \/ i <= Len(log) - MaxSamples
    BY <1>4 DEF LostIsOld
  <2>1. CASE i <= Len(log) - Len(samples)
    <3>1. i \in 1 .. Len(log) - Len(samples)
      BY <1>2, <2>1
    <3> QED BY <3>1 DEF WindowInv, LostIsOld
  <2>2. CASE i > Len(log) - Len(samples)
    <3> DEFINE k == i - (Len(log) - Len(samples))
    <3>1. k \in 1 .. m - 1 /\ k \in 1 .. Len(samples) /\ Len(log) - Len(samples) + k = i
      BY <1>2, <1>5, <2>2
    <3> HIDE DEF k
    <3>2. samples[k] = log[i] /\ samples[k].at < now - Window
      BY <1>3, <3>1 DEF WindowInv, DequeIsSuffix
    <3> QED BY <3>2
  <2> QED BY <1>2, <2>1, <2>2
<1> QED BY <1>6, <1>7, <1>8 DEF WindowInv

LEMMA WindowStep == TypeOK /\ WindowInv /\ [Next]_vars => WindowInv'
<1> SUFFICES ASSUME TypeOK, WindowInv, [Next]_vars PROVE WindowInv'
  OBVIOUS
<1>0. ASSUME UNCHANGED <<now, log, samples>> PROVE WindowInv'
  BY <1>0 DEF WindowInv, LogOrdered, DequeIsSuffix, LostIsOld
<1>1. ASSUME NEW answer \in Answer, Request(answer) \/ Health(answer.elapsed) PROVE WindowInv'
  <2>1. answer \in [status : Nat, elapsed : Nat]
    BY MonitoringAssumption
  <2>2. CASE Request(answer)
    BY <2>1, <2>2, WindowRecord DEF Request
  <2>3. CASE Health(answer.elapsed)
    <3> DEFINE a == [status |-> IF down \intersect {"db", "redis"} = {} THEN 200 ELSE 503,
                     elapsed |-> answer.elapsed]
    <3>1. a \in [status : Nat, elapsed : Nat]
      BY <2>1
    <3>2. Record(a) /\ now' = now
      BY <2>3 DEF Health
    <3> HIDE DEF a
    <3> QED BY <3>1, <3>2, WindowRecord
  <2> QED BY <1>1, <2>2, <2>3
<1>2. CASE Metrics
  BY <1>2, WindowTrim DEF Metrics
<1>3. CASE Tick
  <2>1. now' = now + 1 /\ UNCHANGED <<log, samples>> /\ now \in Int /\ Window \in Nat
    BY <1>3, MonitoringAssumption DEF Tick, TypeOK
  <2>2. log \in Seq(Sample) /\ Len(log) \in Nat /\ Len(samples) \in Nat
    BY LenProperties DEF TypeOK
  <2>3. \A i \in 1 .. Len(log) : log[i].at \in Int
    <3> TAKE i \in 1 .. Len(log)
    <3>1. log[i] \in Sample
      BY <2>2, ElementOfSeq
    <3> QED BY <3>1, MonitoringAssumption DEF Sample
  <2>4. LogOrdered'
    BY <2>1, <2>3 DEF WindowInv, LogOrdered
  <2>5. LostIsOld'
    <3> SUFFICES ASSUME NEW i \in 1 .. Len(log) - Len(samples)
                 PROVE  log[i].at < now' - Window \/ i <= Len(log) - MaxSamples
      BY <2>1 DEF LostIsOld
    <3>1. i \in 1 .. Len(log)
      BY <2>2
    <3>2. log[i].at < now - Window \/ i <= Len(log) - MaxSamples
      BY DEF WindowInv, LostIsOld
    <3> QED BY <2>1, <2>3, <3>1, <3>2
  <2>6. DequeIsSuffix'
    BY <2>1 DEF WindowInv, DequeIsSuffix
  <2> QED BY <2>4, <2>5, <2>6 DEF WindowInv
<1>4. ASSUME NEW x \in Dep, Fail(x) \/ Recover(x) PROVE WindowInv'
  BY <1>0, <1>4 DEF Fail, Recover
<1>5. CASE Wake \/ CheckDependencies \/ IterationFails \/ Start \/ UNCHANGED vars
  BY <1>0, <1>5 DEF Wake, CheckDependencies, IterationFails, Start, vars
<1>6. CASE Notify
  BY <1>6, WindowTrim DEF Notify
<1>7. CASE Stop
  BY <1>7 DEF Stop, WindowInv, LogOrdered, DequeIsSuffix, LostIsOld
<1> QED BY <1>1, <1>2, <1>3, <1>4, <1>5, <1>6, <1>7 DEF Next

\* At any moment, however the deque was filled, trimmed and overrun, it holds the
\* end of the log and has lost nothing else a snapshot would describe.
THEOREM WindowInvariant == Spec => []WindowInv
<1>1. Init => WindowInv
  BY DEF Init, WindowInv, LogOrdered, DequeIsSuffix, LostIsOld
<1>2. TypeOK /\ WindowInv /\ [Next]_vars => WindowInv'
  BY WindowStep
<1> QED BY <1>1, <1>2, MonitoringTyped, PTL DEF Spec

LEMMA WindowExact == TypeOK /\ WindowInv => WindowIsExact
<1> SUFFICES ASSUME TypeOK, WindowInv PROVE WindowIsExact
  OBVIOUS
<1> DEFINE s == Recent(samples)
           n == Len(log)
           old == n - Len(s)
<1>1. samples \in Seq(Sample) /\ log \in Seq(Sample) /\ now \in Int /\ Len(samples) <= MaxSamples
  BY MonitoringAssumption DEF TypeOK
<1>2. n \in Nat /\ Len(samples) \in Nat /\ DOMAIN log = 1 .. n /\ MaxSamples \in Nat /\ Window \in Nat
  BY <1>1, LenProperties, MonitoringAssumption
<1>3. PICK m \in 1 .. Len(samples) + 1 :
        /\ s \in Seq(Sample)
        /\ Len(s) = Len(samples) - m + 1
        /\ \A i \in 1 .. Len(samples) - m + 1 : s[i] = samples[m + i - 1]
        /\ \A i \in 1 .. m - 1 : samples[i].at < now - Window
        /\ m <= Len(samples) => samples[m].at >= now - Window
  BY <1>1, RecentKeeps
<1>4. /\ Len(samples) <= n
      /\ \A i \in 1 .. Len(samples) : samples[i] = log[n - Len(samples) + i]
      /\ \A i, k \in 1 .. n : i <= k => log[i].at <= log[k].at
      /\ \A i \in 1 .. n - Len(samples) : log[i].at < now - Window \/ i <= n - MaxSamples
  BY DEF WindowInv, DequeIsSuffix, LogOrdered, LostIsOld
<1> HIDE DEF s, n
<1>5. old \in 0 .. n /\ old = n - Len(samples) + m - 1
  BY <1>2, <1>3, <1>4
<1>6. \A i \in 1 .. n : log[i].at \in Int
  <2> TAKE i \in 1 .. n
  <2>1. log[i] \in Sample
    BY <1>1, ElementOfSeq DEF n
  <2> QED BY <2>1, MonitoringAssumption DEF Sample
<1>7. s = SubSeq(log, old + 1, n)
  <2>1. \A i \in old + 1 .. n : log[i] \in Sample
    BY <1>1, <1>2, <1>5, ElementOfSeq DEF n
  <2>2. /\ SubSeq(log, old + 1, n) \in Seq(Sample)
        /\ Len(SubSeq(log, old + 1, n)) = IF old + 1 <= n THEN n - (old + 1) + 1 ELSE 0
        /\ \A i \in 1 .. n - (old + 1) + 1 : SubSeq(log, old + 1, n)[i] = log[old + 1 + i - 1]
    BY <1>2, <1>5, <2>1, SubSeqProperties
  <2>3. Len(SubSeq(log, old + 1, n)) = Len(s)
    <3>1. Len(s) \in Nat
      BY <1>3, LenProperties
    <3>2. Len(SubSeq(log, old + 1, n)) = IF old + 1 <= n THEN n - (old + 1) + 1 ELSE 0
      BY <2>2
    <3> QED BY <1>2, <3>1, <3>2, <1>5
  <2>4. ASSUME NEW i \in 1 .. Len(s) PROVE s[i] = SubSeq(log, old + 1, n)[i]
    <3>1. m + i - 1 \in 1 .. Len(samples) /\ s[i] = samples[m + i - 1]
      BY <1>2, <1>3
    <3>2. samples[m + i - 1] = log[n - Len(samples) + (m + i - 1)]
      BY <1>4, <3>1
    <3>3. n - Len(samples) + (m + i - 1) = old + 1 + i - 1 /\ i \in 1 .. n - (old + 1) + 1
      BY <1>2, <1>3, <1>5
    <3> QED BY <2>2, <3>1, <3>2, <3>3
  <2> QED BY <1>3, <2>2, <2>3, <2>4, SeqEqual
<1>8. ASSUME NEW i \in 1 .. n, i > old PROVE i \in InWindow
  <2>1. m <= Len(samples) /\ m \in 1 .. Len(samples) /\ old + 1 \in 1 .. n /\ old + 1 <= i
    BY <1>2, <1>3, <1>5, <1>8
  <2>2. samples[m] = log[old + 1]
    <3>1. n - Len(samples) + m = old + 1
      BY <1>2, <1>5
    <3> QED BY <1>4, <2>1, <3>1
  <2>3. log[old + 1].at >= now - Window /\ log[old + 1].at <= log[i].at
    BY <1>3, <1>4, <2>1, <2>2
  <2>4. log[i].at >= now - Window
    BY <1>1, <1>2, <1>6, <2>1, <2>3
  <2>5. i > n - MaxSamples
    BY <1>1, <1>2, <1>3, <1>5, <1>8
  <2> QED BY <1>2, <2>4, <2>5 DEF InWindow, n
<1>9. ASSUME NEW i \in InWindow PROVE i \in old + 1 .. n
  <2>1. i \in 1 .. n /\ log[i].at >= now - Window /\ i > n - MaxSamples
    BY <1>2 DEF InWindow, n
  <2>2. CASE i <= n - Len(samples)
    <3>1. i \in 1 .. n - Len(samples)
      BY <1>2, <2>1, <2>2
    <3>2. log[i].at < now - Window \/ i <= n - MaxSamples
      BY <1>4, <3>1
    <3> QED BY <1>1, <1>2, <1>6, <2>1, <3>2
  <2>3. CASE i > n - Len(samples) /\ i <= old
    <3> DEFINE k == i - (n - Len(samples))
    <3>1. k \in 1 .. m - 1 /\ k \in 1 .. Len(samples) /\ n - Len(samples) + k = i
      BY <1>2, <1>4, <1>5, <2>1, <2>3
    <3> HIDE DEF k
    <3>2. samples[k] = log[i] /\ samples[k].at < now - Window
      BY <1>3, <1>4, <3>1
    <3> QED BY <1>1, <1>2, <1>6, <2>1, <3>2
  <2> QED BY <1>2, <1>5, <2>1, <2>2, <2>3
<1>10. InWindow = old + 1 .. n
  <2>1. \A i \in old + 1 .. n : i \in 1 .. n /\ i > old
    BY <1>2, <1>5
  <2> QED BY <1>8, <1>9, <2>1
<1> QED BY <1>7, <1>10 DEF WindowIsExact, s, n

-----------------------------------------------------------------------------
(* Stage 3: percentiles.                                                   *)

Below(s, v) == {k \in DOMAIN s : s[k].elapsed < v}
UpTo(s, v) == {k \in DOMAIN s : s[k].elapsed <= v}

LEMMA SampleFacts ==
  ASSUME NEW s \in Seq(Sample)
  PROVE  /\ DOMAIN s = 1 .. Len(s) /\ Len(s) \in Nat
         /\ IsFiniteSet(DOMAIN s) /\ Cardinality(DOMAIN s) = Len(s)
         /\ \A k \in DOMAIN s : s[k].elapsed \in Nat
<1>1. DOMAIN s = 1 .. Len(s) /\ Len(s) \in Nat
  BY LenProperties
<1>2. IsFiniteSet(1 .. Len(s)) /\ Cardinality(1 .. Len(s)) = Len(s)
  BY <1>1, FS_Interval
<1>3. \A k \in DOMAIN s : s[k].elapsed \in Nat
  <2> TAKE k \in DOMAIN s
  <2>1. s[k] \in Sample
    BY <1>1, ElementOfSeq
  <2> QED BY <2>1 DEF Sample
<1> QED BY <1>1, <1>2, <1>3

LEMMA CountFacts ==
  ASSUME NEW s \in Seq(Sample), NEW A \in SUBSET DOMAIN s
  PROVE  IsFiniteSet(A) /\ Cardinality(A) \in Nat /\ Cardinality(A) <= Len(s)
<1>1. IsFiniteSet(DOMAIN s) /\ Cardinality(DOMAIN s) = Len(s)
  BY SampleFacts
<1>2. IsFiniteSet(A) /\ Cardinality(A) <= Cardinality(DOMAIN s)
  BY <1>1, FS_Subset
<1>3. Cardinality(A) \in Nat
  BY <1>2, FS_CardinalityType
<1> QED BY <1>1, <1>2, <1>3

LEMMA CountGrows ==
  ASSUME NEW s \in Seq(Sample), NEW B \in SUBSET DOMAIN s, NEW A \in SUBSET B
  PROVE  Cardinality(A) <= Cardinality(B) /\ (A # B => Cardinality(A) < Cardinality(B))
<1>1. IsFiniteSet(B)
  BY CountFacts
<1>2. /\ Cardinality(A) <= Cardinality(B)
      /\ Cardinality(B) = Cardinality(A) => B = A
  BY <1>1, FS_Subset
<1>3. A \in SUBSET DOMAIN s
  OBVIOUS
<1>4. Cardinality(A) \in Nat /\ Cardinality(B) \in Nat
  BY <1>3, CountFacts
<1> QED BY <1>2, <1>4

\* Of some of the samples, one is the slowest: the one with most others up to it.
LEMMA SlowestOfSome ==
  ASSUME NEW s \in Seq(Sample), NEW A \in SUBSET DOMAIN s, A # {}
  PROVE  \E k \in A : \A j \in A : s[j].elapsed <= s[k].elapsed
<1> DEFINE C(k) == {j \in A : s[j].elapsed <= s[k].elapsed}
           S == {Len(s) - Cardinality(C(k)) : k \in A}
<1>1. \A k \in A : C(k) \in SUBSET DOMAIN s
  OBVIOUS
<1>2. \A k \in A : Cardinality(C(k)) \in Nat /\ Cardinality(C(k)) <= Len(s)
  <2> HIDE DEF C
  <2> QED BY <1>1, CountFacts
<1>3. Len(s) \in Nat
  BY SampleFacts
<1>4. S \in SUBSET Nat /\ S # {}
  <2> HIDE DEF C
  <2> QED BY <1>2, <1>3
<1>5. PICK x \in S : \A y \in S : x <= y
  <2> HIDE DEF S
  <2> QED BY <1>4, LeastNumber
<1>6. PICK k \in A : x = Len(s) - Cardinality(C(k))
  OBVIOUS
<1>7. \A j \in A : Cardinality(C(j)) <= Cardinality(C(k))
  <2> HIDE DEF C
  <2> TAKE j \in A
  <2>1. Len(s) - Cardinality(C(j)) \in S
    OBVIOUS
  <2>2. Len(s) - Cardinality(C(k)) <= Len(s) - Cardinality(C(j))
    BY <1>5, <1>6, <2>1
  <2> QED BY <1>2, <1>3, <2>2
<1>8. \A j \in A : s[j].elapsed \in Nat
  BY SampleFacts
<1>9. ASSUME NEW j \in A, ~(s[j].elapsed <= s[k].elapsed) PROVE FALSE
  <2>1. s[k].elapsed < s[j].elapsed
    BY <1>8, <1>9
  <2>2. C(k) \in SUBSET C(j)
    BY <1>8, <2>1
  <2>3. j \in C(j) /\ j \notin C(k)
    BY <1>8, <1>9
  <2>4. C(k) # C(j)
    BY <2>3
  <2>5. Cardinality(C(k)) < Cardinality(C(j))
    <3> HIDE DEF C
    <3> QED BY <1>1, <2>2, <2>4, CountGrows
  <2>6. Cardinality(C(j)) <= Cardinality(C(k))
    BY <1>7
  <2>7. Cardinality(C(j)) \in Nat /\ Cardinality(C(k)) \in Nat
    BY <1>2
  <2> HIDE DEF C
  <2> QED BY <2>5, <2>6, <2>7
<1> QED BY <1>9

\* Sorting has something at each index: the least latency with more than i up to it.
LEMMA SortedAtIndex ==
  ASSUME NEW s \in Seq(Sample), NEW i \in Nat, i < Len(s)
  PROVE  /\ SortedAt(s, i) \in Nat
         /\ Cardinality(Below(s, SortedAt(s, i))) <= i
         /\ Cardinality(UpTo(s, SortedAt(s, i))) > i
<1> DEFINE E == {s[k].elapsed : k \in DOMAIN s}
           T == {v \in E : Cardinality(UpTo(s, v)) > i}
<1>1. /\ DOMAIN s = 1 .. Len(s) /\ Len(s) \in Nat /\ Cardinality(DOMAIN s) = Len(s)
      /\ \A k \in DOMAIN s : s[k].elapsed \in Nat
  BY SampleFacts
<1>2. E \in SUBSET Nat
  BY <1>1
<1>3. T \in SUBSET Nat
  BY <1>2
<1>4. T # {}
  <2>1. DOMAIN s # {}
    BY <1>1
  <2>2. PICK k \in DOMAIN s : \A j \in DOMAIN s : s[j].elapsed <= s[k].elapsed
    BY <2>1, SlowestOfSome
  <2>3. UpTo(s, s[k].elapsed) = DOMAIN s
    BY <2>2 DEF UpTo
  <2>4. s[k].elapsed \in T
    BY <1>1, <2>3
  <2> QED BY <2>4
<1>5. PICK v \in T : \A w \in T : v <= w
  <2> HIDE DEF T
  <2> QED BY <1>3, <1>4, LeastNumber
<1>6. v \in Nat /\ v \in E /\ Cardinality(UpTo(s, v)) > i
  BY <1>3, <1>5
<1>7. Below(s, v) \in SUBSET DOMAIN s
  BY DEF Below
<1>8. ASSUME ~(Cardinality(Below(s, v)) <= i) PROVE FALSE
  <2>1. Cardinality(Below(s, v)) \in Nat
    BY <1>7, CountFacts
  <2>2. Below(s, v) # {}
    <3>1. Cardinality({}) = 0
      BY FS_EmptySet
    <3>2. ASSUME Below(s, v) = {} PROVE FALSE
      <4>1. Cardinality(Below(s, v)) = 0
        BY <3>1, <3>2
      <4> QED BY <1>8, <4>1
    <3> QED BY <3>2
  <2>3. PICK k \in Below(s, v) : \A j \in Below(s, v) : s[j].elapsed <= s[k].elapsed
    BY <1>7, <2>2, SlowestOfSome
  <2>4. k \in DOMAIN s /\ s[k].elapsed \in Nat /\ s[k].elapsed < v
    BY <1>1, <2>3 DEF Below
  <2>5. UpTo(s, s[k].elapsed) = Below(s, v)
    <3>1. \A j \in DOMAIN s : s[j].elapsed <= s[k].elapsed => s[j].elapsed < v
      BY <1>1, <1>6, <2>4
    <3>2. \A j \in DOMAIN s : s[j].elapsed < v => s[j].elapsed <= s[k].elapsed
      BY <2>3 DEF Below
    <3> QED BY <3>1, <3>2 DEF UpTo, Below
  <2>6. Cardinality(UpTo(s, s[k].elapsed)) > i
    BY <1>8, <2>1, <2>5
  <2>7. s[k].elapsed \in T
    BY <2>4, <2>6
  <2>8. v <= s[k].elapsed
    BY <1>5, <2>7
  <2> QED BY <1>6, <2>4, <2>8
<1>9. v \in E /\ Cardinality(Below(s, v)) <= i /\ Cardinality(UpTo(s, v)) > i
  BY <1>6, <1>8
<1>10. SortedAt(s, i) = CHOOSE w \in E : Cardinality(Below(s, w)) <= i /\ Cardinality(UpTo(s, w)) > i
  BY DEF SortedAt, Below, UpTo
<1>11. /\ SortedAt(s, i) \in E
       /\ Cardinality(Below(s, SortedAt(s, i))) <= i
       /\ Cardinality(UpTo(s, SortedAt(s, i))) > i
  <2> HIDE DEF E
  <2> QED BY <1>9, <1>10
<1> QED BY <1>2, <1>11

\* The index of a percentile is within the samples, and rounds down.
LEMMA PercentileIndex ==
  ASSUME NEW s \in Seq(Sample), s # <<>>, NEW p \in 0 .. 99
  PROVE  \E i \in Nat : /\ i < Len(s) /\ Percentile(s, p) = SortedAt(s, i)
                        /\ i * 100 <= p * Len(s) /\ p * Len(s) < (i + 1) * 100
<1> DEFINE n == Len(s)
           i == (n * p) \div 100
<1>1. n \in Nat /\ n > 0
  BY LenProperties, EmptySeq
<1>2. n * p \in Nat /\ n * p = p * n
  BY <1>1
<1>3. n * p < n * 100
  BY <1>1
<1>4. i \in Nat /\ i * 100 <= n * p /\ n * p < (i + 1) * 100
  <2> DEFINE q == n * p
  <2>1. q \in Nat
    BY <1>2
  <2> HIDE DEF q
  <2>2. q \div 100 \in Nat /\ (q \div 100) * 100 <= q /\ q < (q \div 100 + 1) * 100
    BY <2>1
  <2> QED BY <2>2 DEF q
<1>5. i < n
  <2> HIDE DEF i
  <2> QED BY <1>1, <1>3, <1>4
<1>6. Min({n - 1, i}) = i
  <2> HIDE DEF i, n
  <2>1. {n - 1, i} \in SUBSET Nat
    BY <1>1, <1>4
  <2>2. Min({n - 1, i}) \in {n - 1, i} /\ \A y \in {n - 1, i} : Min({n - 1, i}) <= y
    BY <2>1, MinOfSome
  <2> QED BY <1>1, <1>4, <1>5, <2>2
<1>7. Percentile(s, p) = SortedAt(s, i)
  BY <1>6 DEF Percentile
<1> QED BY <1>2, <1>4, <1>5, <1>7

LEMMA PercentileIsQuantile ==
  ASSUME NEW s \in Seq(Sample), s # <<>>, NEW p \in 0 .. 99
  PROVE  Percentile(s, p) \in Nat /\ IsQuantile(s, Percentile(s, p), p)
<1>1. PICK i \in Nat : /\ i < Len(s) /\ Percentile(s, p) = SortedAt(s, i)
                       /\ i * 100 <= p * Len(s) /\ p * Len(s) < (i + 1) * 100
  BY PercentileIndex
<1> DEFINE v == SortedAt(s, i)
<1>2. v \in Nat /\ Cardinality(Below(s, v)) <= i /\ Cardinality(UpTo(s, v)) > i
  BY <1>1, SortedAtIndex
<1>3. Cardinality(Below(s, v)) \in Nat /\ Cardinality(UpTo(s, v)) \in Nat
  <2>1. Below(s, v) \in SUBSET DOMAIN s /\ UpTo(s, v) \in SUBSET DOMAIN s
    BY DEF Below, UpTo
  <2> QED BY <2>1, CountFacts
<1>4. Len(s) \in Nat
  BY LenProperties
<1> HIDE DEF v
<1>5. Cardinality(Below(s, v)) * 100 <= p * Len(s) /\ Cardinality(UpTo(s, v)) * 100 >= p * Len(s)
  <2> DEFINE b == Cardinality(Below(s, v))
             u == Cardinality(UpTo(s, v))
             pn == p * Len(s)
  <2>1. b \in Nat /\ u \in Nat /\ pn \in Nat /\ b <= i /\ u > i
        /\ i * 100 <= pn /\ pn < (i + 1) * 100
    BY <1>1, <1>2, <1>3, <1>4
  <2> HIDE DEF b, u, pn
  <2>2. b * 100 <= pn /\ u * 100 >= pn
    BY <2>1
  <2> QED BY <2>2 DEF b, u, pn
<1>6. IsQuantile(s, v, p)
  BY <1>5 DEF IsQuantile, Below, UpTo
<1>7. Percentile(s, p) = v
  BY <1>1 DEF v
<1> QED BY <1>2, <1>6, <1>7

\* A snapshot, whenever it is taken, describes exactly the requests of the last
\* window (the newest max_samples of them), and its percentiles are quantiles of
\* their latencies: for every window, deque length, percentile and traffic.
THEOREM SnapshotsAreExact == Spec => []SnapshotIsExact
<1>1. TypeOK => PercentilesAreQuantiles
  <2> SUFFICES ASSUME TypeOK, Recent(samples) # <<>>
               PROVE  /\ IsQuantile(Recent(samples), Snapshot(Recent(samples)).p50, 50)
                      /\ IsQuantile(Recent(samples), Snapshot(Recent(samples)).p95, P95)
    BY DEF PercentilesAreQuantiles
  <2>1. samples \in Seq(Sample) /\ now \in Int /\ P95 \in 0 .. 99 /\ 50 \in 0 .. 99
    BY MonitoringAssumption DEF TypeOK
  <2>2. Recent(samples) \in Seq(Sample)
    BY <2>1, RecentKeeps
  <2>3. /\ Snapshot(Recent(samples)).p50 = Percentile(Recent(samples), 50)
        /\ Snapshot(Recent(samples)).p95 = Percentile(Recent(samples), P95)
    BY DEF Snapshot
  <2> QED BY <2>1, <2>2, <2>3, PercentileIsQuantile
<1>2. TypeOK /\ WindowInv => SnapshotIsExact
  BY <1>1, WindowExact DEF SnapshotIsExact
<1> QED BY <1>2, MonitoringTyped, WindowInvariant, PTL

-----------------------------------------------------------------------------
(* Alerts.                                                                 *)

LEMMA ShiftCount ==
  ASSUME NEW d \in Int, NEW A \in SUBSET Int, IsFiniteSet(A),
         NEW B, B = {i + d : i \in A}
  PROVE  Cardinality(B) = Cardinality(A)
<1> DEFINE f == [i \in A |-> i + d]
<1>1. f \in [A -> B]
  OBVIOUS
<1>2. \A x, y \in A : f[x] = f[y] => x = y
  OBVIOUS
<1>3. \A b \in B : \E x \in A : f[x] = b
  OBVIOUS
<1>4. f \in Bijection(A, B)
  <2> HIDE DEF f
  <2> QED BY <1>1, <1>2, <1>3 DEF Bijection, Injection, Surjection, IsInjective
<1>5. ExistsBijection(A, B)
  BY <1>4 DEF ExistsBijection
<1> QED BY <1>5, FS_Bijection

\* A percentile exceeds a limit exactly when at most p percent keep to it.
LEMMA PercentileExceeds ==
  ASSUME NEW s \in Seq(Sample), s # <<>>, NEW p \in 0 .. 99, NEW limit \in Nat
  PROVE  /\ Percentile(s, p) \in Nat
         /\ Percentile(s, p) > limit <=> Cardinality(UpTo(s, limit)) * 100 <= p * Len(s)
<1>1. PICK i \in Nat : /\ i < Len(s) /\ Percentile(s, p) = SortedAt(s, i)
                       /\ i * 100 <= p * Len(s) /\ p * Len(s) < (i + 1) * 100
  BY PercentileIndex
<1> DEFINE v == Percentile(s, p)
           c == Cardinality(UpTo(s, limit))
           pn == p * Len(s)
<1>2. v \in Nat /\ Cardinality(Below(s, v)) <= i /\ Cardinality(UpTo(s, v)) > i
  BY <1>1, SortedAtIndex
<1>3. /\ Below(s, v) \in SUBSET DOMAIN s /\ UpTo(s, v) \in SUBSET DOMAIN s
      /\ UpTo(s, limit) \in SUBSET DOMAIN s
  BY DEF Below, UpTo
<1>4. Cardinality(Below(s, v)) \in Nat /\ Cardinality(UpTo(s, v)) \in Nat /\ c \in Nat
  BY <1>3, CountFacts
<1>5. pn \in Nat /\ i * 100 <= pn /\ pn < (i + 1) * 100
  <2>1. Len(s) \in Nat
    BY LenProperties
  <2> QED BY <1>1, <2>1
<1>6. \A k \in DOMAIN s : s[k].elapsed \in Nat
  BY SampleFacts
<1> HIDE DEF v
<1>7. CASE v > limit
  <2>1. UpTo(s, limit) \in SUBSET Below(s, v)
    BY <1>2, <1>6, <1>7 DEF UpTo, Below
  <2>2. c <= Cardinality(Below(s, v))
    BY <1>3, <2>1, CountGrows
  <2> HIDE DEF c, pn
  <2>3. c * 100 <= pn
    BY <1>2, <1>4, <1>5, <2>2
  <2> QED BY <1>2, <1>7, <2>3 DEF v, c, pn
<1>8. CASE ~(v > limit)
  <2>1. UpTo(s, v) \in SUBSET UpTo(s, limit)
    BY <1>2, <1>6, <1>8 DEF UpTo
  <2>2. Cardinality(UpTo(s, v)) <= c
    BY <1>3, <2>1, CountGrows
  <2> HIDE DEF c, pn
  <2>3. ~(c * 100 <= pn)
    BY <1>2, <1>4, <1>5, <2>2
  <2> QED BY <1>2, <1>8, <2>3 DEF v, c, pn
<1> QED BY <1>7, <1>8

\* What the properties count in the log, the snapshot counts in the deque.
LEMMA CountsAgree ==
  ASSUME TypeOK, WindowInv, NEW s, s = Recent(samples)
  PROVE  /\ s \in Seq(Sample) /\ Cardinality(InWindow) = Len(s)
         /\ Cardinality({i \in InWindow : log[i].status >= 500})
              = Cardinality({i \in DOMAIN s : s[i].status >= 500})
         /\ Cardinality({i \in InWindow : log[i].elapsed <= Latency})
              = Cardinality(UpTo(s, Latency))
<1> DEFINE n == Len(log)
           old == n - Len(s)
<1>1. s = SubSeq(log, old + 1, n) /\ InWindow = old + 1 .. n
  BY WindowExact DEF WindowIsExact
<1>2. s \in Seq(Sample) /\ log \in Seq(Sample)
  <2>1. samples \in Seq(Sample) /\ now \in Int
    BY MonitoringAssumption DEF TypeOK
  <2>2. Recent(samples) \in Seq(Sample)
    BY <2>1, RecentKeeps
  <2> QED BY <2>2 DEF TypeOK
<1>3. Len(s) \in Nat /\ DOMAIN s = 1 .. Len(s) /\ n \in Nat /\ DOMAIN log = 1 .. n
  BY <1>2, LenProperties
<1>4. old \in Nat
  <2>1. InWindow \subseteq 1 .. n /\ InWindow = old + 1 .. n
    BY <1>1, <1>3 DEF InWindow
  <2>2. n \in Nat /\ old \in Int
    BY <1>3
  <2> HIDE DEF n, old
  <2>3. old < 0 => 0 \in old + 1 .. n
    BY <2>2
  <2>4. 0 \notin 1 .. n
    OBVIOUS
  <2> QED BY <2>1, <2>2, <2>3, <2>4
<1>5. Cardinality(InWindow) = Len(s)
  <2>1. Cardinality(old + 1 .. n) = IF old + 1 > n THEN 0 ELSE n - (old + 1) + 1
    <3>1. old + 1 \in Int /\ n \in Int
      BY <1>3, <1>4
    <3> HIDE DEF n, old
    <3> QED BY <3>1, FS_Interval
  <2> QED BY <1>1, <1>3, <2>1
<1>6. \A i \in 1 .. Len(s) : s[i] = log[i + old]
  <2>1. \A i \in old + 1 .. n : log[i] \in Sample
    BY <1>2, <1>3, <1>4, ElementOfSeq
  <2>2. \A i \in 1 .. n - (old + 1) + 1 : SubSeq(log, old + 1, n)[i] = log[old + 1 + i - 1]
    BY <1>3, <2>1, SubSeqProperties
  <2> TAKE i \in 1 .. Len(s)
  <2>3. i \in 1 .. n - (old + 1) + 1 /\ old + 1 + i - 1 = i + old
    BY <1>3
  <2> HIDE DEF old
  <2> QED BY <1>1, <2>2, <2>3
<1>7. /\ old \in Int /\ \A i \in 1 .. Len(s) : i + old \in old + 1 .. n
      /\ \A k \in old + 1 .. n : k - old \in 1 .. Len(s) /\ (k - old) + old = k
  BY <1>3
<1> HIDE DEF old, n
<1>8. ASSUME NEW A \in SUBSET DOMAIN s, NEW B \in SUBSET InWindow,
             \A i \in 1 .. Len(s) : i \in A => i + old \in B,
             \A k \in B : k - old \in A
      PROVE  Cardinality(B) = Cardinality(A)
  <2>1. IsFiniteSet(A) /\ A \in SUBSET Int
    BY <1>2, <1>3, CountFacts
  <2>2. B = {i + old : i \in A}
    <3>1. \A k \in B : k - old \in A /\ (k - old) + old = k
      BY <1>1, <1>7, <1>8
    <3>2. \A i \in A : i + old \in B
      BY <1>3, <1>8
    <3> QED BY <3>1, <3>2
  <2> QED BY <1>7, <2>1, <2>2, ShiftCount
<1>9. Cardinality({i \in InWindow : log[i].status >= 500})
        = Cardinality({i \in DOMAIN s : s[i].status >= 500})
  <2> DEFINE A == {i \in DOMAIN s : s[i].status >= 500}
             B == {i \in InWindow : log[i].status >= 500}
  <2>1. \A i \in 1 .. Len(s) : i \in A => i + old \in B
    BY <1>1, <1>6, <1>7
  <2>2. \A k \in B : k - old \in A
    BY <1>1, <1>3, <1>6, <1>7
  <2>3. A \in SUBSET DOMAIN s /\ B \in SUBSET InWindow
    OBVIOUS
  <2> HIDE DEF A, B
  <2>4. Cardinality(B) = Cardinality(A)
    BY <1>8, <2>1, <2>2, <2>3
  <2> QED BY <2>4 DEF A, B
<1>10. Cardinality({i \in InWindow : log[i].elapsed <= Latency}) = Cardinality(UpTo(s, Latency))
  <2> DEFINE A == UpTo(s, Latency)
             B == {i \in InWindow : log[i].elapsed <= Latency}
  <2>1. \A i \in 1 .. Len(s) : i \in A => i + old \in B
    BY <1>1, <1>6, <1>7 DEF UpTo
  <2>2. \A k \in B : k - old \in A
    BY <1>1, <1>3, <1>6, <1>7 DEF UpTo
  <2>3. A \in SUBSET DOMAIN s /\ B \in SUBSET InWindow
    BY DEF UpTo
  <2> HIDE DEF A, B
  <2>4. Cardinality(B) = Cardinality(A)
    BY <1>8, <2>1, <2>2, <2>3
  <2> QED BY <2>4 DEF A, B
<1> QED BY <1>2, <1>5, <1>9, <1>10

LEMMA NotifyExact ==
  ASSUME TypeOK, WindowInv, Notify
  PROVE  AlertsMatchWindow
<1> DEFINE s == Recent(samples)
           snap == Snapshot(s)
<1>1. alerts' = CheckAlerts(snap, checks, "disk" \in down)
  BY DEF Notify
<1>2. /\ s \in Seq(Sample) /\ Cardinality(InWindow) = Len(s)
      /\ Cardinality({i \in InWindow : log[i].status >= 500})
           = Cardinality({i \in DOMAIN s : s[i].status >= 500})
      /\ Cardinality({i \in InWindow : log[i].elapsed <= Latency}) = Cardinality(UpTo(s, Latency))
  BY CountsAgree
<1>3. /\ snap.requests = Len(s)
      /\ snap.errors = Cardinality({i \in DOMAIN s : s[i].status >= 500})
      /\ snap.p95 = Percentile(s, P95)
  BY DEF Snapshot
<1> HIDE DEF s, snap
<1>4. /\ "error_rate" \in alerts' <=>
           snap.requests >= MinRequests /\ snap.errors * 100 > ErrorPct * snap.requests
      /\ "latency_p95" \in alerts' <=> snap.p95 # NoLatency /\ snap.p95 > Latency
  BY <1>1 DEF CheckAlerts, Signal
<1>5. snap.p95 # NoLatency /\ snap.p95 > Latency
        <=> Len(s) > 0 /\ Cardinality(UpTo(s, Latency)) * 100 <= P95 * Len(s)
  <2>1. P95 \in 0 .. 99 /\ Latency \in Nat /\ NoLatency \notin Nat /\ Len(s) \in Nat
    BY <1>2, MonitoringAssumption, LenProperties
  <2>2. CASE s = <<>>
    BY <1>3, <2>2 DEF Percentile
  <2>3. CASE s # <<>>
    <3>1. Len(s) > 0
      BY <1>2, <2>1, <2>3, EmptySeq
    <3>2. /\ Percentile(s, P95) \in Nat
          /\ Percentile(s, P95) > Latency <=> Cardinality(UpTo(s, Latency)) * 100 <= P95 * Len(s)
      BY <1>2, <2>1, <2>3, PercentileExceeds
    <3> QED BY <1>3, <2>1, <3>1, <3>2
  <2> QED BY <2>2, <2>3
<1> QED BY <1>2, <1>3, <1>4, <1>5 DEF AlertsMatchWindow

\* An iteration of the monitoring loop that gets through raises the error-rate and
\* latency alerts exactly when the requests of the last window call for them, at
\* whatever awaits requests, clock ticks and other snapshots came in between.
THEOREM AlertsStayExact == Spec => AlertsAreExact
<1>1. ASSUME TypeOK, WindowInv, [Next]_vars, loop = "checked", loop' = "asleep", faults' = faults
      PROVE  Notify
  <2>1. faults \in Int
    BY <1>1, MonitoringAssumption DEF TypeOK
  <2>2. ~IterationFails
    BY <1>1, <2>1 DEF IterationFails
  <2>3. ~(\E answer \in Answer : Request(answer) \/ Health(answer.elapsed))
    BY <1>1 DEF Request, Health
  <2>4. ~(\E x \in Dep : Fail(x) \/ Recover(x))
    BY <1>1 DEF Fail, Recover
  <2>5. ~Metrics /\ ~Tick /\ ~Wake /\ ~CheckDependencies /\ ~Stop /\ ~Start /\ ~UNCHANGED vars
    BY <1>1 DEF Metrics, Tick, Wake, CheckDependencies, Stop, Start, vars
  <2> QED BY <1>1, <2>2, <2>3, <2>4, <2>5 DEF Next
<1>2. TypeOK /\ WindowInv /\ [Next]_vars
        => [loop = "checked" /\ loop' = "asleep" /\ faults' = faults => AlertsMatchWindow]_vars
  BY <1>1, NotifyExact
<1>3. Spec => [][loop = "checked" /\ loop' = "asleep" /\ faults' = faults => AlertsMatchWindow]_vars
  BY <1>2, MonitoringTyped, WindowInvariant, PTL DEF Spec
<1> QED BY <1>3 DEF AlertsAreExact

=============================================================================
