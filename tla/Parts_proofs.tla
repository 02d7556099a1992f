---------------------------- MODULE Parts_proofs ----------------------------
(* Proofs about the parts that stand by themselves: SqsWorker, OSMetrics,    *)
(* WebRequests, LogManager, ContextRegistry, Decorators and                  *)
(* CircularityCheck.  Each has an inductive invariant, its lemmas, and its   *)
(* theorems.                                                                 *)
EXTENDS SqsWorker, OSMetrics, WebRequests, LogManager, ContextRegistry, Decorators,
        CircularityCheck,
        FiniteSetTheorems, SequenceTheorems, WellFoundedInduction, TLAPS

-----------------------------------------------------------------------------
(* SqsWorker                                                                 *)

SqsTypeOK ==
  /\ queued \in [Message -> {"visible", "invisible", "deleted"}]
  /\ received \in [Message -> Nat]
  /\ delivery \in [Message -> [1..MaxReceives ->
       {"none", "skipped", "unanswered", "answered", "settled"}]]
  /\ runs \in [Message -> Nat]
  /\ fulfilled \subseteq Message

(* Every run is a delivery, of the first maxRetries.                         *)
RunsAreDeliveries == \A m \in Message : runs[m] <= received[m] /\ runs[m] <= maxRetries

SqsIInv == SqsTypeOK /\ RunsAreDeliveries /\ DeletedWhenDone

LEMMA SqsInitImplies == SqsInit => SqsIInv
  BY SqsBounds DEF SqsInit, SqsIInv, SqsTypeOK, RunsAreDeliveries, DeletedWhenDone

LEMMA SqsHandles ==
  ASSUME SqsIInv, NEW m \in Message, handleMessage(m)
  PROVE  SqsIInv'
<1> DEFINE n == received[m] + 1
<1>0. maxRetries \in Nat /\ n \in Nat
  BY SqsBounds DEF SqsIInv, SqsTypeOK
<1>1. n \in 1..MaxReceives
  BY <1>0, SqsBounds DEF handleMessage, SqsIInv, SqsTypeOK
<1>2. CASE n > maxRetries
  <2>1. /\ received' = [received EXCEPT ![m] = n]
        /\ delivery' = [delivery EXCEPT ![m] = [@ EXCEPT ![n] = "skipped"]]
        /\ queued' = [queued EXCEPT ![m] = "deleted"]
        /\ runs' = runs /\ fulfilled' = fulfilled
    BY <1>2 DEF handleMessage
  <2> HIDE DEF n
  <2>2. SqsTypeOK'
    BY <1>0, <1>1, <2>1 DEF SqsIInv, SqsTypeOK
  <2>3. received'[m] = n /\ \A k \in Message : k # m => received'[k] = received[k] /\ queued'[k] = queued[k]
    BY <2>1 DEF SqsIInv, SqsTypeOK
  <2>4. RunsAreDeliveries' /\ DeletedWhenDone'
    BY <1>0, <1>2, <2>1, <2>3 DEF SqsIInv, SqsTypeOK, RunsAreDeliveries, DeletedWhenDone, n
  <2> QED BY <2>2, <2>4 DEF SqsIInv
<1>3. CASE ~(n > maxRetries)
  <2>1. runs[m] + 1 <= n /\ n <= maxRetries
    BY <1>0, <1>3 DEF SqsIInv, SqsTypeOK, RunsAreDeliveries
  <2>2. /\ runs' = [runs EXCEPT ![m] = @ + 1]
        /\ received' = [received EXCEPT ![m] = n]
        /\ fulfilled' = fulfilled
        /\ \E d \in {"unanswered", "settled"} : delivery' = [delivery EXCEPT ![m][n] = d]
        /\ queued' = queued \/ queued' = [queued EXCEPT ![m] = "invisible"]
        /\ queued[m] = "visible"
    BY <1>3 DEF handleMessage
  <2>3. SqsTypeOK' /\ RunsAreDeliveries'
    <3>1. PICK d \in {"unanswered", "settled"} :
            delivery' = [delivery EXCEPT ![m] = [@ EXCEPT ![n] = d]]
      BY <2>2
    <3>2. received' \in [Message -> Nat] /\ runs' \in [Message -> Nat]
      BY <1>0, <2>2 DEF SqsIInv, SqsTypeOK
    <3>3. queued' \in [Message -> {"visible", "invisible", "deleted"}] /\ fulfilled' \subseteq Message
      BY <2>2 DEF SqsIInv, SqsTypeOK
    <3>4. RunsAreDeliveries'
      BY <1>0, <2>1, <2>2 DEF SqsIInv, SqsTypeOK, RunsAreDeliveries
    <3> HIDE DEF n
    <3>5. delivery' \in [Message -> [1..MaxReceives ->
            {"none", "skipped", "unanswered", "answered", "settled"}]]
      BY <1>1, <3>1 DEF SqsIInv, SqsTypeOK
    <3> QED BY <3>2, <3>3, <3>4, <3>5 DEF SqsTypeOK
  <2>4. DeletedWhenDone'
    <3> SUFFICES ASSUME NEW k \in Message
                 PROVE  (queued'[k] = "deleted" => k \in fulfilled' \/ received'[k] > maxRetries)
                        /\ runs'[k] <= maxRetries
      BY DEF DeletedWhenDone
    <3>1. queued'[k] = "deleted" => k # m /\ queued[k] = "deleted"
      BY <2>2 DEF SqsIInv, SqsTypeOK
    <3>2. k # m => received'[k] = received[k]
      BY <2>2 DEF SqsIInv, SqsTypeOK
    <3> QED BY <3>1, <3>2, <2>2, <2>3 DEF SqsIInv, DeletedWhenDone, RunsAreDeliveries
  <2> QED BY <2>3, <2>4 DEF SqsIInv
<1> QED BY <1>2, <1>3

(* An answer deletes a message that a handler has fulfilled, and no other.   *)
LEMMA SqsAnswers ==
  ASSUME SqsIInv, NEW m \in Message, NEW n \in 1..MaxReceives,
         NEW err \in BOOLEAN,
         NEW d \in {"answered", "settled"},
         delivery' = [delivery EXCEPT ![m][n] = d],
         Answer(m, n, err) \/ queued' = queued,
         fulfilled' = fulfilled \/ fulfilled' = fulfilled \cup {m},
         Answer(m, n, err) /\ ~err => m \in fulfilled',
         received' = received, runs' = runs
  PROVE  SqsIInv'
<1>1. queued' \in [Message -> {"visible", "invisible", "deleted"}]
  BY DEF Answer, SqsIInv, SqsTypeOK
<1>2. SqsTypeOK'
  BY <1>1 DEF SqsIInv, SqsTypeOK
<1>3. ASSUME NEW k \in Message, queued'[k] = "deleted"
      PROVE  queued[k] = "deleted" \/ k \in fulfilled'
  BY <1>3 DEF Answer, SqsIInv, SqsTypeOK
<1>4. DeletedWhenDone' /\ RunsAreDeliveries'
  BY <1>3 DEF SqsIInv, SqsTypeOK, DeletedWhenDone, RunsAreDeliveries
<1> QED BY <1>2, <1>4 DEF SqsIInv

LEMMA SqsStepPreserves == SqsIInv /\ [SqsNext]_sqsVars => SqsIInv'
<1> SUFFICES ASSUME SqsIInv, [SqsNext]_sqsVars PROVE SqsIInv'
  OBVIOUS
<1>1. CASE initialise \/ shutdown \/ UNCHANGED sqsVars
  BY <1>1 DEF initialise, shutdown, sqsVars, SqsIInv, SqsTypeOK, RunsAreDeliveries, DeletedWhenDone
<1>2. ASSUME NEW m \in Message, handleMessage(m) PROVE SqsIInv'
  BY <1>2, SqsHandles
<1>3. ASSUME NEW m \in Message, visibilityTimeout(m) PROVE SqsIInv'
  BY <1>3 DEF visibilityTimeout, SqsIInv, SqsTypeOK, RunsAreDeliveries, DeletedWhenDone
<1>4. ASSUME NEW m \in Message, NEW n \in 1..MaxReceives, promiseRejects(m, n) PROVE SqsIInv'
  <2>1. Answer(m, n, TRUE) \/ queued' = queued
    BY <1>4 DEF promiseRejects
  <2> QED BY <1>4, <2>1, SqsAnswers DEF promiseRejects
<1>5. ASSUME NEW m \in Message, NEW n \in 1..MaxReceives, NEW err \in BOOLEAN,
             handlerCallsDone(m, n, err)
      PROVE  SqsIInv'
  <2>1. Answer(m, n, err) /\ (~err => m \in fulfilled')
        /\ (fulfilled' = fulfilled \/ fulfilled' = fulfilled \cup {m})
    BY <1>5 DEF handlerCallsDone
  <2> QED BY <1>5, <2>1, SqsAnswers DEF handlerCallsDone
<1>6. ASSUME NEW m \in Message, NEW n \in 1..MaxReceives, NEW value \in {"nothing", "something"},
             promiseResolves(m, n, value)
      PROVE  SqsIInv'
  <2> DEFINE err == value = "something"
  <2>1. err \in BOOLEAN
    OBVIOUS
  <2>2. Answer(m, n, err) \/ queued' = queued
    BY <1>6 DEF promiseResolves
  <2>3. m \in fulfilled'
    BY <1>6 DEF promiseResolves
  <2> HIDE DEF err
  <2> QED BY <1>6, <2>1, <2>2, <2>3, SqsAnswers DEF promiseResolves
<1> QED BY <1>1, <1>2, <1>3, <1>4, <1>5, <1>6 DEF SqsNext

(* A message leaves the queue only when a handler has said that it is done,  *)
(* or when it has come more than maxRetries times, and is handled no more    *)
(* often than that: for any number of messages, and however their deliveries *)
(* overlap (initialise(), handleMessage).                                    *)
THEOREM DeletedOnlyWhenDone == SqsInit /\ [][SqsNext]_sqsVars => []DeletedWhenDone
<1>1. SqsIInv => DeletedWhenDone
  BY DEF SqsIInv
<1> QED BY SqsInitImplies, SqsStepPreserves, <1>1, PTL

-----------------------------------------------------------------------------
(* OSMetrics                                                                 *)

MetricTypeOK ==
  /\ stat \in [Names -> Nat] /\ first \in [Names -> Nat]
  /\ lastMetrics \in [Names -> Nat] \cup {<<>>}
  /\ cpuStats \in [Names -> Int] \cup {<<>>}
  /\ shrunk \in BOOLEAN

(* Every metric is counted to the last reading at most, which is not ahead   *)
(* of the kernel; after a reading that failed, not beyond the kernel.        *)
NotAhead ==
  ~shrunk /\ cpuStats # <<>> => \A n \in Names :
    /\ cpuStats[n] <= stat[n] - first[n]
    /\ lastMetrics # <<>> => cpuStats[n] <= lastMetrics[n] - first[n] /\ lastMetrics[n] <= stat[n]

MetricIInv == MetricTypeOK /\ NotAhead

LEMMA MetricInitImplies == registerOSMetrics => MetricIInv
<1> SUFFICES ASSUME registerOSMetrics PROVE MetricIInv
  OBVIOUS
<1>1. stat \in [Names -> Nat] /\ first = stat /\ shrunk = FALSE /\ \A n \in Names : stat[n] = 0
  BY DEF registerOSMetrics
<1>2. CASE lastMetrics = stat
  <2>1. DOMAIN stat = Names
    BY <1>1
  <2>2. cpuStats = [n \in Names |-> 0]
    BY <1>2, <2>1 DEF registerOSMetrics
  <2>3. NotAhead
    <3> SUFFICES ASSUME NEW n \in Names
                 PROVE  cpuStats[n] <= stat[n] - first[n] /\ cpuStats[n] <= lastMetrics[n] - first[n]
                        /\ lastMetrics[n] <= stat[n]
      BY DEF NotAhead
    <3>1. stat[n] = 0 /\ first[n] = 0 /\ lastMetrics[n] = 0 /\ cpuStats[n] = 0
      BY <1>1, <1>2, <2>2
    <3> QED BY <3>1
  <2>4. cpuStats \in [Names -> Int]
    BY <2>2
  <2>5. first \in [Names -> Nat] /\ lastMetrics \in [Names -> Nat] /\ shrunk \in BOOLEAN
    BY <1>1, <1>2
  <2> QED BY <1>1, <2>3, <2>4, <2>5 DEF MetricIInv, MetricTypeOK
<1>3. CASE lastMetrics = <<>>
  <2>1. cpuStats = <<>>
    BY <1>3 DEF registerOSMetrics
  <2> QED BY <1>1, <1>3, <2>1 DEF MetricIInv, MetricTypeOK, NotAhead
<1> QED BY <1>2, <1>3 DEF registerOSMetrics, getOSMetrics

LEMMA KernelCounts ==
  ASSUME MetricIInv, NEW n \in Names, kernelCounts(n)
  PROVE  MetricIInv'
<1>1. PICK v \in 0..MaxValue :
        /\ v > stat[n] \/ (n \in MayShrink /\ v < stat[n])
        /\ stat' = [stat EXCEPT ![n] = v]
        /\ shrunk' = (shrunk \/ v < stat[n])
  BY DEF kernelCounts
<1>2. v \in Nat /\ lastMetrics' = lastMetrics /\ cpuStats' = cpuStats /\ first' = first
  BY MetricBounds DEF kernelCounts
<1>3. MetricTypeOK'
  BY <1>1, <1>2 DEF MetricIInv, MetricTypeOK
<1>4. ~shrunk' => ~shrunk /\ \A k \in Names : stat[k] <= stat'[k]
  <2>1. ~shrunk' => ~shrunk /\ ~(v < stat[n])
    BY <1>1, Zenon
  <2>2. ~(v < stat[n]) => \A k \in Names : stat[k] <= stat'[k]
    BY <1>1, <1>2 DEF MetricIInv, MetricTypeOK
  <2> QED BY <2>1, <2>2
<1>5. NotAhead'
  <2> SUFFICES ASSUME ~shrunk', cpuStats # <<>>, NEW k \in Names
               PROVE  /\ cpuStats[k] <= stat'[k] - first[k]
                      /\ lastMetrics # <<>> => /\ cpuStats[k] <= lastMetrics[k] - first[k]
                                               /\ lastMetrics[k] <= stat'[k]
    BY <1>2 DEF NotAhead
  <2>1. stat[k] \in Nat /\ stat'[k] \in Nat /\ first[k] \in Nat /\ cpuStats[k] \in Int
        /\ stat[k] <= stat'[k] /\ (lastMetrics # <<>> => lastMetrics[k] \in Nat)
    BY <1>3, <1>4 DEF MetricIInv, MetricTypeOK
  <2> QED BY <1>4, <2>1 DEF MetricIInv, NotAhead
<1> QED BY <1>3, <1>5 DEF MetricIInv

LEMMA GrowthIsInt ==
  ASSUME MetricTypeOK, NEW s \in {stat, <<>>}, NEW n \in Names
  PROVE  /\ Growth(n, s) \in Int
         /\ s = <<>> \/ lastMetrics = <<>> => Growth(n, s) = 0
         /\ s # <<>> /\ lastMetrics # <<>> => Growth(n, s) = stat[n] - lastMetrics[n]
<1>1. stat[n] \in Nat /\ DOMAIN stat = Names
  BY DEF MetricTypeOK
<1>2. DOMAIN <<>> = {}
  OBVIOUS
<1>3. CASE s = <<>> \/ lastMetrics = <<>>
  <2>1. n \notin DOMAIN s \cap DOMAIN lastMetrics
    BY <1>2, <1>3
  <2>2. Growth(n, s) = 0
    BY <2>1 DEF Growth
  <2> QED BY <1>3, <2>2
<1>4. CASE s # <<>> /\ lastMetrics # <<>>
  <2>1. s = stat /\ lastMetrics[n] \in Nat /\ DOMAIN lastMetrics = Names
    BY <1>4 DEF MetricTypeOK
  <2>2. n \in DOMAIN s \cap DOMAIN lastMetrics
    BY <1>1, <2>1
  <2>3. Growth(n, s) = stat[n] - lastMetrics[n]
    BY <2>1, <2>2 DEF Growth
  <2> QED BY <1>1, <1>4, <2>1, <2>3
<1> QED BY <1>3, <1>4

(* Nothing throws while no number has gone down.                             *)
LEMMA EveryMetricIsPushed ==
  ASSUME NEW s, \A n \in Names : Growth(n, s) >= 0
  PROVE  Pushed(s) = Names
<1>1. \A k \in DOMAIN CPUOSMetricNames : \A j \in 1..k : j \in DOMAIN CPUOSMetricNames
  BY MetricBounds
<1>2. \A k \in DOMAIN CPUOSMetricNames : \A j \in 1..k : CPUOSMetricNames[j] \in Names
  BY <1>1 DEF Names
<1> HIDE DEF Names
<1>3. {k \in DOMAIN CPUOSMetricNames : \A j \in 1..k : Growth(CPUOSMetricNames[j], s) >= 0}
        = DOMAIN CPUOSMetricNames
  BY <1>2
<1> QED BY <1>3 DEF Pushed, Names

LEMMA PushPreserves ==
  ASSUME MetricIInv, pushStats
  PROVE  MetricIInv'
<1>0. MetricTypeOK /\ NotAhead /\ cpuStats # <<>> /\ stat' = stat /\ first' = first /\ shrunk' = shrunk
  BY DEF pushStats, MetricIInv
<1>1. PICK s \in {stat, <<>>} :
        /\ cpuStats' = [n \in Names |-> IF n \in Pushed(s) THEN cpuStats[n] + Growth(n, s)
                                        ELSE cpuStats[n]]
        /\ lastMetrics' = IF Pushed(s) = Names THEN s ELSE lastMetrics
  BY DEF pushStats, getOSMetrics
<1>2. cpuStats' \in [Names -> Int]
  <2>1. \A n \in Names : Growth(n, s) \in Int /\ cpuStats[n] \in Int
    BY <1>0, GrowthIsInt DEF MetricTypeOK
  <2> QED BY <1>1, <2>1
<1>3. MetricTypeOK'
  BY <1>0, <1>1, <1>2 DEF MetricTypeOK
<1>4. ASSUME ~shrunk PROVE NotAhead'
  <2>1. ASSUME NEW n \in Names
        PROVE  /\ Growth(n, s) >= 0
               /\ s = <<>> => Growth(n, s) = 0
               /\ cpuStats[n] + Growth(n, s) <= stat[n] - first[n]
    <3>1. stat[n] \in Nat /\ first[n] \in Nat /\ cpuStats[n] \in Int
          /\ (lastMetrics # <<>> => lastMetrics[n] \in Nat)
      BY <1>0 DEF MetricTypeOK
    <3>2. /\ cpuStats[n] <= stat[n] - first[n]
          /\ lastMetrics # <<>> => cpuStats[n] <= lastMetrics[n] - first[n] /\ lastMetrics[n] <= stat[n]
      BY <1>0, <1>4 DEF NotAhead
    <3>3. CASE s = <<>> \/ lastMetrics = <<>>
      BY <1>0, <3>1, <3>2, <3>3, GrowthIsInt
    <3>4. CASE s # <<>> /\ lastMetrics # <<>>
      BY <1>0, <3>1, <3>2, <3>4, GrowthIsInt
    <3> QED BY <3>3, <3>4
  <2>2. Pushed(s) = Names
    BY <2>1, EveryMetricIsPushed
  <2>3. lastMetrics' = s /\ \A n \in Names : cpuStats'[n] = cpuStats[n] + Growth(n, s)
    BY <1>1, <2>2
  <2>4. ASSUME NEW n \in Names, s # <<>>
        PROVE  cpuStats'[n] <= s[n] - first[n] /\ s[n] <= stat[n]
    BY <1>0, <2>1, <2>3, <2>4 DEF MetricTypeOK
  <2> QED BY <1>0, <2>1, <2>3, <2>4 DEF NotAhead
<1> QED BY <1>0, <1>3, <1>4 DEF MetricIInv, NotAhead

(* The counter never runs ahead of the operating system while none of its    *)
(* numbers goes down: for any metrics in any order, any number of readings   *)
(* and whichever of them fail (pushStats(), pushIndividualCPUStat()).        *)
THEOREM NothingIsCountedTwice ==
  registerOSMetrics /\ [][MetricsNext]_metricVars => []CountsNothingTwice
<1>1. MetricIInv /\ [MetricsNext]_metricVars => MetricIInv'
  <2>1. MetricIInv /\ UNCHANGED metricVars => MetricIInv'
    BY DEF metricVars, MetricIInv, MetricTypeOK, NotAhead
  <2> QED BY <2>1, KernelCounts, PushPreserves DEF MetricsNext
<1>2. MetricIInv => CountsNothingTwice
  <2> SUFFICES ASSUME MetricIInv, ~shrunk, NEW n \in DOMAIN cpuStats
               PROVE  cpuStats[n] <= stat[n] - first[n]
    BY DEF CountsNothingTwice
  <2>1. DOMAIN <<>> = {}
    OBVIOUS
  <2>2. cpuStats # <<>>
    BY <2>1
  <2>3. DOMAIN cpuStats = Names
    BY <2>2 DEF MetricIInv, MetricTypeOK
  <2> QED BY <2>2, <2>3 DEF MetricIInv, NotAhead
<1> QED BY MetricInitImplies, <1>1, <1>2, PTL

-----------------------------------------------------------------------------
(* WebRequests                                                               *)

Places ==
  {"client", "metadata", "CORS", "router", "thrown", "looking", "handling", "routes", "routed", "done"}
Replies == {"none", "open", "200", "401", "404", "500"}

WebTypeOK ==
  /\ at \in [Request -> Places]
  /\ headersSent \in [Request -> BOOLEAN]
  /\ reply \in [Request -> Replies]
  /\ gone \in [Request -> BOOLEAN]
  /\ noticed \in [Request -> Nat]
  /\ settled \in [Request -> {"no", "resolved", "rejected"}]

(* Nothing is written before a handler or an error middleware has it; what   *)
(* is reported of a request, and what becomes of it once it is through.      *)
RequestOK(r) ==
  /\ headersSent[r] <=> reply[r] # "none"
  /\ at[r] \notin {"handling", "routed", "done"} => reply[r] = "none"
  /\ at[r] = "client" => ~gone[r]
  /\ reply[r] = "500" => noticed[r] = 1
  /\ reply[r] # "500" => noticed[r] = 0
  /\ at[r] = "done" /\ reply[r] \in {"none", "open"} =>
       gone[r] \/ (settled[r] = "resolved" /\ headersSent[r])

(* The requests the gauge counts.                                            *)
UnderWay(r) == at[r] # "client" /\ ~gone[r] /\ ~Finished(r)
GaugeIsTrue == active = Cardinality({r \in Request : UnderWay(r)})

RequestsOK == WebTypeOK /\ (\A r \in Request : RequestOK(r)) /\ GaugeIsTrue

(* A step of one request: the others stay, and the gauge follows that one.   *)
LEMMA OneRequestMoves ==
  ASSUME RequestsOK, WebTypeOK', NEW r \in Request, RequestOK(r)',
         \A k \in Request \ {r} :
           /\ at'[k] = at[k] /\ headersSent'[k] = headersSent[k] /\ reply'[k] = reply[k]
           /\ gone'[k] = gone[k] /\ noticed'[k] = noticed[k] /\ settled'[k] = settled[k],
         (UnderWay(r) <=> UnderWay(r)') => active' = active,
         ~UnderWay(r) /\ UnderWay(r)' => active' = active + 1,
         UnderWay(r) /\ ~UnderWay(r)' => active' = active - 1
  PROVE  RequestsOK'
<1>1. \A k \in Request : RequestOK(k)'
  BY DEF RequestsOK, RequestOK
<1> DEFINE U == {k \in Request : UnderWay(k)}
           V == {k \in Request : UnderWay(k)'}
<1>2. \A k \in Request \ {r} : UnderWay(k) <=> UnderWay(k)'
  BY DEF UnderWay, Finished
<1>3. IsFiniteSet(U) /\ Cardinality(U) \in Nat
  BY RequestsAreFinite, FS_Subset, FS_CardinalityType
<1>4. active = Cardinality(U)
  BY DEF RequestsOK, GaugeIsTrue
<1>5. CASE UnderWay(r) <=> UnderWay(r)'
  <2>1. V = U
    BY <1>2, <1>5
  <2> QED BY <1>1, <1>4, <1>5, <2>1 DEF RequestsOK, GaugeIsTrue
<1>6. CASE ~UnderWay(r) /\ UnderWay(r)'
  <2>1. V = U \cup {r} /\ r \notin U
    BY <1>2, <1>6
  <2>2. Cardinality(V) = Cardinality(U) + 1
    BY <1>3, <2>1, FS_AddElement
  <2> QED BY <1>1, <1>4, <1>6, <2>2 DEF RequestsOK, GaugeIsTrue
<1>7. CASE UnderWay(r) /\ ~UnderWay(r)'
  <2>1. V = U \ {r} /\ r \in U
    BY <1>2, <1>7
  <2>2. Cardinality(V) = Cardinality(U) - 1
    BY <1>3, <2>1, FS_RemoveElement
  <2> QED BY <1>1, <1>4, <1>7, <2>2 DEF RequestsOK, GaugeIsTrue
<1> QED BY <1>5, <1>6, <1>7

(* An answer, of a request that has not been answered: the gauge hears of it *)
(* unless the connection was closed before.                                  *)
LEMMA AnswerMoves ==
  ASSUME RequestsOK, NEW r \in Request, NEW status \in {"200", "401", "404", "500"},
         Send(r, status), ~Finished(r), at[r] # "client",
         at' = at \/ at' = [at EXCEPT ![r] = "done"],
         at'[r] \in {"handling", "routed", "done"},
         noticed' = IF status = "500" THEN [noticed EXCEPT ![r] = @ + 1] ELSE noticed,
         settled' \in [Request -> {"no", "resolved", "rejected"}],
         \A k \in Request \ {r} : settled'[k] = settled[k]
  PROVE  RequestsOK'
<1>1. /\ headersSent' = [headersSent EXCEPT ![r] = TRUE]
      /\ reply' = [reply EXCEPT ![r] = status]
      /\ gone' = gone
      /\ active' = IF ~gone[r] /\ ~Finished(r) THEN active - 1 ELSE active
  BY DEF Send, onFinished
<1>2. WebTypeOK'
  BY <1>1 DEF RequestsOK, WebTypeOK, Places, Replies
<1>3. reply'[r] = status /\ headersSent'[r] = TRUE /\ gone'[r] = gone[r]
      /\ at'[r] # "client"
  BY <1>1 DEF RequestsOK, WebTypeOK
<1>4. noticed[r] = 0
  BY DEF RequestsOK, RequestOK, Finished
<1>5. RequestOK(r)'
  BY <1>1, <1>3, <1>4 DEF RequestsOK, RequestOK, WebTypeOK
<1>6. \A k \in Request \ {r} :
           /\ at'[k] = at[k] /\ headersSent'[k] = headersSent[k] /\ reply'[k] = reply[k]
           /\ gone'[k] = gone[k] /\ noticed'[k] = noticed[k] /\ settled'[k] = settled[k]
  BY <1>1 DEF RequestsOK, WebTypeOK
<1>7. ~UnderWay(r)' /\ (UnderWay(r) <=> ~gone[r])
  BY <1>3 DEF UnderWay, Finished
<1> QED BY <1>1, <1>2, <1>5, <1>6, <1>7, OneRequestMoves

(* The connection is closed, by the client or by express.                    *)
LEMMA ClosingMoves ==
  ASSUME RequestsOK, NEW r \in Request, at[r] # "client",
         gone' = [gone EXCEPT ![r] = TRUE], onFinished(r, TRUE),
         headersSent' = headersSent, reply' = reply, noticed' = noticed,
         at' = at \/ at' = [at EXCEPT ![r] = "done"],
         settled' \in [Request -> {"no", "resolved", "rejected"}],
         \A k \in Request \ {r} : settled'[k] = settled[k]
  PROVE  RequestsOK'
<1>1. active' = IF ~gone[r] /\ ~Finished(r) THEN active - 1 ELSE active
  BY DEF onFinished
<1>2. WebTypeOK'
  BY DEF RequestsOK, WebTypeOK, Places
<1>3. gone'[r] = TRUE /\ (at'[r] = at[r] \/ at'[r] = "done")
  BY DEF RequestsOK, WebTypeOK
<1>4. RequestOK(r)'
  BY <1>3 DEF RequestsOK, RequestOK
<1>5. \A k \in Request \ {r} :
           /\ at'[k] = at[k] /\ headersSent'[k] = headersSent[k] /\ reply'[k] = reply[k]
           /\ gone'[k] = gone[k] /\ noticed'[k] = noticed[k] /\ settled'[k] = settled[k]
  BY DEF RequestsOK, WebTypeOK
<1>6. ~UnderWay(r)' /\ (UnderWay(r) <=> ~gone[r] /\ ~Finished(r))
  BY <1>3 DEF UnderWay
<1> QED BY <1>1, <1>2, <1>4, <1>5, <1>6, OneRequestMoves

(* next(err): an error is answered, or the connection is closed.             *)
LEMMA FailMoves ==
  ASSUME RequestsOK, NEW r \in Request, NEW err \in {"401", "404", "500", "plain"},
         Fail(r, err), at[r] # "client",
         settled' \in [Request -> {"no", "resolved", "rejected"}],
         \A k \in Request \ {r} : settled'[k] = settled[k]
  PROVE  RequestsOK'
<1> DEFINE one == clientErrorMiddleware(err, headersSent[r])
           two == IF one.next = "nothing" THEN one ELSE errorMiddleware(one.next, headersSent[r])
<1>1. /\ at' = [at EXCEPT ![r] = "done"]
      /\ noticed' = [noticed EXCEPT ![r] = @ + two.notices]
      /\ two.next = "nothing" => Send(r, two.sends)
      /\ two.next # "nothing" => gone' = [gone EXCEPT ![r] = TRUE] /\ onFinished(r, TRUE)
                                   /\ headersSent' = headersSent /\ reply' = reply
  BY Zenon DEF Fail
<1>2. RequestOK(r) /\ at[r] \in Places /\ headersSent[r] \in BOOLEAN /\ noticed \in [Request -> Nat]
      /\ at \in [Request -> Places]
  BY DEF RequestsOK, WebTypeOK
<1>3. CASE headersSent[r] = TRUE
  <2>1. one = [sends |-> "nothing", next |-> IF IsClientError(err) THEN "plain" ELSE err, notices |-> 0]
    BY <1>3 DEF clientErrorMiddleware, Pass, IsClientError
  <2>2. two.next # "nothing" /\ two.notices = 0
    BY <1>3, <2>1 DEF errorMiddleware, Pass
  <2>3. noticed' = noticed
    BY <1>1, <1>2, <2>2
  <2> HIDE DEF two
  <2> QED BY <1>1, <1>2, <2>2, <2>3, ClosingMoves
<1>4. CASE headersSent[r] = FALSE
  <2>1. IsClientError(err) => one = [sends |-> err, next |-> "nothing", notices |-> 0]
    BY <1>4 DEF clientErrorMiddleware
  <2>2. ~IsClientError(err) => one = Pass(err)
    BY DEF clientErrorMiddleware
  <2>3. two.next = "nothing" /\ two.sends \in {"401", "404", "500"}
        /\ two.notices = IF two.sends = "500" THEN 1 ELSE 0
    <3>1. CASE IsClientError(err)
      BY <2>1, <3>1 DEF IsClientError
    <3>2. CASE ~IsClientError(err)
      <4>1. one.next = err /\ err # "nothing" /\ err \in {"500", "plain"}
        BY <2>2, <3>2 DEF Pass, IsClientError
      <4>2. two = errorMiddleware(err, FALSE)
        BY <1>4, <4>1
      <4> HIDE DEF one, two
      <4>3. two.next = "nothing" /\ two.sends = "500" /\ two.notices = 1
        BY <3>2, <4>1, <4>2 DEF errorMiddleware, IsClientError
      <4> QED BY <4>3
    <3> QED BY <3>1, <3>2
  <2> HIDE DEF one, two
  <2>4. PICK status \in {"401", "404", "500"} : two.sends = status
    BY <2>3
  <2>5. noticed' = IF status = "500" THEN [noticed EXCEPT ![r] = @ + 1] ELSE noticed
    <3>1. CASE status = "500"
      BY <1>1, <2>3, <2>4, <3>1
    <3>2. CASE status # "500"
      <4>1. two.notices = 0 /\ noticed[r] \in Nat
        BY <1>2, <2>3, <2>4, <3>2
      <4>2. noticed' = noticed
        BY <1>1, <1>2, <4>1
      <4> QED BY <3>2, <4>2
    <3> QED BY <3>1, <3>2
  <2>6. ~Finished(r)
    BY <1>2, <1>4 DEF RequestOK, Finished
  <2>7. at'[r] = "done"
    BY <1>1, <1>2
  <2>8. Send(r, status)
    BY <1>1, <2>3, <2>4
  <2> QED BY <1>1, <2>5, <2>6, <2>7, <2>8, AnswerMoves
<1> QED BY <1>2, <1>3, <1>4

(* A request comes further without an answer.                                *)
LEMMA QuietMoves ==
  ASSUME RequestsOK, NEW r \in Request, NEW p \in Places \ {"client", "done"},
         at' = [at EXCEPT ![r] = p], at[r] # "client",
         p \notin {"handling", "routed"} => reply[r] = "none",
         UNCHANGED <<headersSent, reply, gone, active, noticed, settled>>
  PROVE  RequestsOK'
<1>1. WebTypeOK' /\ at'[r] = p
  BY DEF RequestsOK, WebTypeOK, Places
<1>2. RequestOK(r)'
  BY <1>1 DEF RequestsOK, RequestOK, Places
<1>3. \A k \in Request \ {r} :
           /\ at'[k] = at[k] /\ headersSent'[k] = headersSent[k] /\ reply'[k] = reply[k]
           /\ gone'[k] = gone[k] /\ noticed'[k] = noticed[k] /\ settled'[k] = settled[k]
  BY DEF RequestsOK, WebTypeOK
<1>4. UnderWay(r) <=> UnderWay(r)'
  BY <1>1 DEF UnderWay, Finished
<1> QED BY <1>1, <1>2, <1>3, <1>4, OneRequestMoves

(* What the caches and the requests have been served by.                     *)
CacheOK ==
  /\ \A k \in DOMAIN handlerCache : handlerCache[k].controller \o handlerCache[k].method = k
  /\ DOMAIN ran = Request
  /\ \A r \in Request : ran[r] # NoHandler => ran[r].controller \o ran[r].method = Key(r)

WebIInv == RequestsOK /\ CacheOK

(* The router throws outside its try for want of a basePath only.            *)
ThrownOK == \A r \in Request : at[r] = "thrown" => ~transactionNamed(r)

LEMMA WebInitImplies == WebInit => WebIInv
<1> SUFFICES ASSUME WebInit PROVE WebIInv
  OBVIOUS
<1>1. WebTypeOK /\ \A r \in Request : RequestOK(r)
  BY DEF WebInit, WebTypeOK, RequestOK, Places, Replies
<1>2. {r \in Request : UnderWay(r)} = {}
  BY DEF WebInit, UnderWay
<1>3. GaugeIsTrue
  BY <1>2, FS_EmptySet DEF WebInit, GaugeIsTrue
<1>4. CacheOK
  <2>1. DOMAIN handlerCache = {}
    BY DEF WebInit
  <2> QED BY <2>1 DEF WebInit, CacheOK
<1> QED BY <1>1, <1>3, <1>4 DEF WebIInv, RequestsOK

LEMMA CacheKept ==
  ASSUME CacheOK, UNCHANGED <<kind, handlerCache, ran>>
  PROVE  CacheOK'
  BY DEF CacheOK, Key

LEMMA ArriveMoves ==
  ASSUME WebIInv, NEW r \in Request, arrives(r)
  PROVE  WebIInv'
<1>1. RequestOK(r) /\ WebTypeOK /\ CacheOK /\ RequestsOK
  BY DEF WebIInv, RequestsOK
<1>2. /\ at[r] = "client" /\ at' = [at EXCEPT ![r] = "metadata"] /\ active' = active + 1
      /\ UNCHANGED <<kind, headersSent, reply, gone, ran, settled, handlerCache, noticed>>
  BY DEF arrives, fixed
<1>3. at'[r] = "metadata" /\ \A k \in Request \ {r} : at'[k] = at[k]
  BY <1>1, <1>2 DEF WebTypeOK
<1>4. WebTypeOK'
  BY <1>1, <1>2 DEF WebTypeOK, Places
<1>5. RequestOK(r)'
  BY <1>1, <1>2, <1>3 DEF RequestOK
<1>6. ~UnderWay(r) /\ UnderWay(r)'
  BY <1>1, <1>2, <1>3 DEF UnderWay, RequestOK, Finished
<1>7. RequestsOK'
  BY <1>1, <1>2, <1>3, <1>4, <1>5, <1>6, OneRequestMoves
<1> QED BY <1>1, <1>2, <1>7, CacheKept DEF WebIInv

(* swagger-tools, CORS and the plain routes.                                 *)
LEMMA MiddlewareMoves ==
  ASSUME WebIInv, NEW r \in Request, swaggerTools(r) \/ CORSMiddleware(r) \/ route(r)
  PROVE  WebIInv'
<1>1. RequestOK(r) /\ WebTypeOK /\ CacheOK /\ RequestsOK
  BY DEF WebIInv, RequestsOK
<1>2. UNCHANGED <<kind, ran, settled, handlerCache>>
  BY DEF swaggerTools, CORSMiddleware, route, fixed
<1>3. CacheOK'
  BY <1>1, <1>2, CacheKept
<1>4. at[r] \in {"metadata", "CORS", "routes"} /\ reply[r] = "none" /\ ~Finished(r)
  BY <1>1 DEF swaggerTools, CORSMiddleware, route, RequestOK, Finished
<1>5. settled' \in [Request -> {"no", "resolved", "rejected"}]
      /\ \A k \in Request \ {r} : settled'[k] = settled[k]
  BY <1>1, <1>2 DEF WebTypeOK
<1>6. ASSUME NEW err \in {"401", "404", "500", "plain"}, Fail(r, err) PROVE RequestsOK'
  BY <1>1, <1>4, <1>5, <1>6, FailMoves
<1>7. ASSUME NEW status \in {"200", "404"}, Send(r, status), at' = [at EXCEPT ![r] = "done"],
             noticed' = noticed
      PROVE  RequestsOK'
  <2>1. at'[r] = "done"
    BY <1>1, <1>7 DEF WebTypeOK
  <2> QED BY <1>1, <1>4, <1>5, <1>7, <2>1, AnswerMoves
<1>8. ASSUME NEW p \in {"CORS", "router", "routed"}, at' = [at EXCEPT ![r] = p],
             UNCHANGED <<headersSent, reply, gone, active, noticed>>
      PROVE  RequestsOK'
  <2>1. p \in Places \ {"client", "done"}
    BY DEF Places
  <2> QED BY <1>1, <1>2, <1>4, <1>8, <2>1, QuietMoves
<1>9. ASSUME swaggerTools(r) PROVE RequestsOK'
  <2>1. \/ at' = [at EXCEPT ![r] = "CORS"] /\ UNCHANGED <<headersSent, reply, gone, active, noticed>>
        \/ Fail(r, "401") \/ Fail(r, "plain")
    BY <1>9, Zenon DEF swaggerTools
  <2> QED BY <1>6, <1>8, <2>1
<1>10. ASSUME CORSMiddleware(r) PROVE RequestsOK'
  <2>1. \/ Send(r, "200") /\ at' = [at EXCEPT ![r] = "done"] /\ noticed' = noticed
        \/ /\ at' = [at EXCEPT ![r] = "router"]
           /\ UNCHANGED <<headersSent, reply, gone, active, noticed>>
    BY <1>10 DEF CORSMiddleware
  <2> QED BY <1>7, <1>8, <2>1
<1>11. ASSUME route(r) PROVE RequestsOK'
  <2>1. \/ at' = [at EXCEPT ![r] = "routed"] /\ UNCHANGED <<headersSent, reply, gone, active, noticed>>
        \/ \E err \in {"404", "500", "plain"} : Fail(r, err)
        \/ Send(r, "404") /\ at' = [at EXCEPT ![r] = "done"] /\ noticed' = noticed
    BY <1>11 DEF route
  <2> QED BY <1>6, <1>7, <1>8, <2>1
<1>12. RequestsOK'
  BY <1>9, <1>10, <1>11
<1> QED BY <1>3, <1>12 DEF WebIInv

(* The router, and what it looks up: the key of a handler is made of its own *)
(* names.                                                                    *)
LEMMA RouterMoves ==
  ASSUME WebIInv, NEW r \in Request, router(r) \/ routerThrows(r) \/ getControllerHandler(r)
  PROVE  WebIInv'
<1>1. RequestOK(r) /\ WebTypeOK /\ CacheOK /\ RequestsOK
  BY DEF WebIInv, RequestsOK
<1>2. at[r] \in {"router", "looking"} /\ reply[r] = "none"
      /\ kind' = kind /\ settled' = settled
  BY <1>1 DEF router, routerThrows, getControllerHandler, fixed, RequestOK
<1>3. ASSUME Fail(r, "plain") PROVE RequestsOK'
  BY <1>1, <1>2, <1>3, FailMoves DEF WebTypeOK
<1>4. ASSUME NEW p \in {"thrown", "routes", "handling", "looking"}, at' = [at EXCEPT ![r] = p],
             UNCHANGED <<headersSent, reply, gone, active, noticed>>
      PROVE  RequestsOK'
  <2>1. p \in Places \ {"client", "done"}
    BY DEF Places
  <2> QED BY <1>1, <1>2, <1>4, <2>1, QuietMoves
<1>5. RequestsOK'
  BY <1>3, <1>4 DEF router, routerThrows, getControllerHandler
<1>6. CASE UNCHANGED <<handlerCache, ran>>
  BY <1>1, <1>2, <1>5, <1>6, CacheKept DEF WebIInv
<1>7. CASE handlerCache' = handlerCache /\ Key(r) \in DOMAIN handlerCache
           /\ ran' = [ran EXCEPT ![r] = handlerCache[Key(r)]]
  <2>1. \A k \in Request : ran'[k] = IF k = r THEN handlerCache[Key(r)] ELSE ran[k]
    BY <1>1, <1>7 DEF CacheOK
  <2>2. CacheOK'
    BY <1>1, <1>2, <1>7, <2>1 DEF CacheOK, Key
  <2> QED BY <1>5, <2>2 DEF WebIInv
<1>8. CASE /\ handlerCache' = [k \in DOMAIN handlerCache \cup {Key(r)} |->
                                 IF k = Key(r) THEN Handler(r) ELSE handlerCache[k]]
           /\ ran' = [ran EXCEPT ![r] = Handler(r)]
  <2>1. Handler(r).controller \o Handler(r).method = Key(r)
    BY DEF Handler, Key
  <2>2. \A k \in Request : ran'[k] = IF k = r THEN Handler(r) ELSE ran[k]
    BY <1>1, <1>8 DEF CacheOK
  <2>3. DOMAIN ran' = Request
    BY <1>1, <1>8 DEF CacheOK
  <2>4. \A k \in Request : Key(k)' = Key(k)
    BY <1>2 DEF Key
  <2>5. \A k \in DOMAIN handlerCache' : handlerCache'[k].controller \o handlerCache'[k].method = k
    <3> HIDE DEF Handler, Key
    <3> SUFFICES ASSUME NEW k \in DOMAIN handlerCache'
                 PROVE  handlerCache'[k].controller \o handlerCache'[k].method = k
      OBVIOUS
    <3>1. k \in DOMAIN handlerCache \cup {Key(r)}
          /\ handlerCache'[k] = IF k = Key(r) THEN Handler(r) ELSE handlerCache[k]
      BY <1>8
    <3> QED BY <1>1, <2>1, <3>1 DEF CacheOK
  <2>6. \A k \in Request : ran'[k] # NoHandler => ran'[k].controller \o ran'[k].method = Key(k)
    BY <1>1, <2>1, <2>2 DEF CacheOK
  <2>7. CacheOK'
    BY <2>3, <2>4, <2>5, <2>6 DEF CacheOK, NoHandler
  <2> QED BY <1>5, <2>7 DEF WebIInv
<1>9. CASE router(r)
  BY <1>6, <1>7, <1>9 DEF router
<1>10. CASE getControllerHandler(r)
  BY <1>6, <1>8, <1>10 DEF getControllerHandler
<1>11. CASE routerThrows(r)
  BY <1>6, <1>11 DEF routerThrows
<1> QED BY <1>9, <1>10, <1>11

(* A handler writes, ends and settles; and the client leaves.                *)
LEMMA HandlerMoves ==
  ASSUME WebIInv, NEW r \in Request,
         \/ handlerResolves(r) \/ handlerWrites(r) \/ handlerEnds(r) \/ clientLeaves(r)
         \/ \E err \in {"404", "500", "plain"} : handlerRejects(r, err)
  PROVE  WebIInv'
<1>1. RequestOK(r) /\ WebTypeOK /\ CacheOK /\ RequestsOK
  BY DEF WebIInv, RequestsOK
<1>2. UNCHANGED <<kind, ran, handlerCache>>
  BY DEF handlerResolves, handlerWrites, handlerEnds, clientLeaves, handlerRejects, fixed
<1>3. CacheOK'
  BY <1>1, <1>2, CacheKept
<1>4. at[r] # "client"
  BY <1>1 DEF handlerResolves, handlerWrites, handlerEnds, clientLeaves, handlerRejects, RequestOK
<1>5. ASSUME NEW v \in {"resolved", "rejected"}, settled' = [settled EXCEPT ![r] = v]
      PROVE  /\ settled' \in [Request -> {"no", "resolved", "rejected"}] /\ settled'[r] = v
             /\ \A k \in Request \ {r} : settled'[k] = settled[k]
  BY <1>1, <1>5 DEF WebTypeOK
<1>6. ASSUME settled' = settled
      PROVE  /\ settled' \in [Request -> {"no", "resolved", "rejected"}]
             /\ \A k \in Request \ {r} : settled'[k] = settled[k]
  BY <1>1, <1>6 DEF WebTypeOK
<1>7. ASSUME NEW err \in {"404", "500", "plain"}, handlerRejects(r, err) PROVE RequestsOK'
  BY <1>1, <1>4, <1>5, <1>7, FailMoves DEF handlerRejects
<1>8. ASSUME handlerResolves(r) PROVE RequestsOK'
  <2>1. settled' = [settled EXCEPT ![r] = "resolved"] /\ at[r] = "handling"
    BY <1>8 DEF handlerResolves
  <2>2. CASE ~headersSent[r]
    BY <1>1, <1>4, <1>5, <1>8, <2>1, <2>2, FailMoves DEF handlerResolves
  <2>3. CASE headersSent[r]
    <3>1. /\ at' = [at EXCEPT ![r] = "done"]
          /\ UNCHANGED <<headersSent, reply, gone, active, noticed>>
      BY <1>8, <2>3 DEF handlerResolves
    <3>2. WebTypeOK' /\ at'[r] = "done" /\ settled'[r] = "resolved"
          /\ \A k \in Request \ {r} : at'[k] = at[k] /\ settled'[k] = settled[k]
      BY <1>1, <1>5, <2>1, <3>1 DEF WebTypeOK, Places
    <3>3. RequestOK(r)'
      BY <1>1, <2>3, <3>1, <3>2 DEF RequestOK
    <3>4. UnderWay(r) <=> UnderWay(r)'
      BY <2>1, <3>1, <3>2 DEF UnderWay, Finished
    <3> QED BY <1>1, <3>1, <3>2, <3>3, <3>4, OneRequestMoves
  <2> QED BY <2>2, <2>3
<1>9. ASSUME handlerWrites(r) PROVE RequestsOK'
  <2>1. /\ at[r] \in {"handling", "routed"} /\ ~headersSent[r]
        /\ headersSent' = [headersSent EXCEPT ![r] = TRUE]
        /\ reply' = [reply EXCEPT ![r] = "open"]
        /\ UNCHANGED <<at, gone, active, noticed, settled>>
    BY <1>9 DEF handlerWrites
  <2>2. /\ WebTypeOK' /\ reply'[r] = "open" /\ headersSent'[r] = TRUE
        /\ \A k \in Request \ {r} : headersSent'[k] = headersSent[k] /\ reply'[k] = reply[k]
    BY <1>1, <2>1 DEF WebTypeOK, Replies
  <2>3. RequestOK(r)'
    BY <1>1, <2>1, <2>2 DEF RequestOK
  <2>4. UnderWay(r) <=> UnderWay(r)'
    BY <1>1, <2>1, <2>2 DEF UnderWay, Finished, RequestOK
  <2> QED BY <1>1, <2>1, <2>2, <2>3, <2>4, OneRequestMoves
<1>10. ASSUME handlerEnds(r) PROVE RequestsOK'
  <2>1. /\ ~Finished(r) /\ Send(r, "200") /\ at' = at /\ noticed' = noticed /\ settled' = settled
        /\ at[r] \in {"handling", "routed"} \/ reply[r] = "open"
    BY <1>10 DEF handlerEnds
  <2>2. at[r] \in {"handling", "routed", "done"}
    BY <1>1, <2>1 DEF RequestOK
  <2> QED BY <1>1, <1>4, <1>6, <2>1, <2>2, AnswerMoves
<1>11. ASSUME clientLeaves(r) PROVE RequestsOK'
  BY <1>1, <1>4, <1>6, <1>11, ClosingMoves DEF clientLeaves
<1>12. RequestsOK'
  BY <1>7, <1>8, <1>9, <1>10, <1>11
<1> QED BY <1>3, <1>12 DEF WebIInv

LEMMA WebStepPreserves == WebIInv /\ [WebNext]_webVars => WebIInv'
<1>1. WebIInv /\ UNCHANGED webVars => WebIInv'
  <2> SUFFICES ASSUME WebIInv, UNCHANGED webVars PROVE WebIInv'
    OBVIOUS
  <2>1. UNCHANGED <<kind, at, headersSent, reply, gone, ran, settled, handlerCache, active, noticed>>
    BY DEF webVars
  <2>2. WebTypeOK' /\ \A r \in Request : RequestOK(r)'
    BY <2>1 DEF WebIInv, RequestsOK, WebTypeOK, RequestOK
  <2>3. \A r \in Request : UnderWay(r) <=> UnderWay(r)'
    BY <2>1 DEF UnderWay, Finished
  <2>4. {r \in Request : UnderWay(r)} = {r \in Request : UnderWay(r)'}
    BY <2>3
  <2>5. GaugeIsTrue'
    BY <2>1, <2>4 DEF WebIInv, RequestsOK, GaugeIsTrue
  <2> QED BY <2>1, <2>2, <2>5, CacheKept DEF WebIInv, RequestsOK
<1>2. WebIInv /\ WebNext => WebIInv'
  <2> SUFFICES ASSUME WebIInv, WebNext PROVE WebIInv'
    OBVIOUS
  <2>1. PICK r \in Request :
          \/ arrives(r) \/ swaggerTools(r) \/ CORSMiddleware(r) \/ router(r) \/ routerThrows(r)
          \/ getControllerHandler(r) \/ route(r) \/ handlerResolves(r) \/ handlerWrites(r)
          \/ handlerEnds(r) \/ clientLeaves(r)
          \/ \E err \in {"404", "500", "plain"} : handlerRejects(r, err)
    BY Zenon DEF WebNext
  <2> QED BY <2>1, ArriveMoves, MiddlewareMoves, RouterMoves, HandlerMoves
<1> QED BY <1>1, <1>2

LEMMA WebInductive == WebInit /\ [][WebNext]_webVars => []WebIInv
  BY WebInitImplies, WebStepPreserves, PTL

(* Nobody else leaves a request where the router has thrown.                 *)
LEMMA ThrownStays == WebIInv /\ ThrownOK /\ [WebNext]_webVars => ThrownOK'
<1>1. ASSUME ThrownOK, UNCHANGED webVars PROVE ThrownOK'
  BY <1>1 DEF ThrownOK, transactionNamed, webVars
<1>2. ASSUME WebIInv, ThrownOK, WebNext PROVE ThrownOK'
  <2>1. at \in [Request -> Places]
    BY <1>2 DEF WebIInv, RequestsOK, WebTypeOK
  <2>2. PICK r \in Request :
          \/ arrives(r) \/ swaggerTools(r) \/ CORSMiddleware(r) \/ router(r) \/ routerThrows(r)
          \/ getControllerHandler(r) \/ route(r) \/ handlerResolves(r) \/ handlerWrites(r)
          \/ handlerEnds(r) \/ clientLeaves(r)
          \/ \E err \in {"404", "500", "plain"} : handlerRejects(r, err)
    BY <1>2, Zenon DEF WebNext
  <2>3. kind' = kind /\ configured' = configured
    BY <2>2 DEF arrives, swaggerTools, CORSMiddleware, router, routerThrows, getControllerHandler, route,
       handlerResolves, handlerWrites, handlerEnds, clientLeaves, handlerRejects, fixed
  <2>4. ASSUME NEW err, Fail(r, err) PROVE at' = [at EXCEPT ![r] = "done"]
    BY <2>4, Zenon DEF Fail
  <2>5. \/ at' = at \/ routerThrows(r)
        \/ \E p \in Places \ {"thrown"} : at' = [at EXCEPT ![r] = p]
    BY <2>2, <2>4 DEF arrives, swaggerTools, CORSMiddleware, router, getControllerHandler, route,
       handlerResolves, handlerWrites, handlerEnds, clientLeaves, handlerRejects, Places
  <2>6. \A k \in Request : at'[k] = "thrown" => at[k] = "thrown" \/ ~transactionNamed(k)
    BY <2>1, <2>5 DEF routerThrows
  <2> QED BY <1>2, <2>3, <2>6 DEF ThrownOK, transactionNamed
<1> QED BY <1>1, <1>2

LEMMA ThrownForWant == WebInit /\ [][WebNext]_webVars => []ThrownOK
<1>1. WebInit => ThrownOK
  BY DEF WebInit, ThrownOK
<1> QED BY <1>1, WebInductive, ThrownStays, PTL

(* Who gets into the router is answered or cut off, at the latest when the   *)
(* handler settles, unless it has begun an answer itself, and the router     *)
(* throws outside its try for want of a basePath only: for any number of     *)
(* requests and whatever they ask for (SwaggerRouterMiddleware.register()).  *)
THEOREM RequestsAreAnswered == WebInit /\ [][WebNext]_webVars => []AnsweredOnceSettled
<1>1. WebIInv /\ ThrownOK => AnsweredOnceSettled
  BY DEF WebIInv, RequestsOK, RequestOK, ThrownOK, AnsweredOnceSettled
<1> QED BY WebInductive, ThrownForWant, <1>1, PTL

(* The method that runs is the one the operation names, but for operations   *)
(* whose joined names are the same, whatever the cache of handlers has seen  *)
(* before (getControllerHandler()).                                          *)
THEOREM TheNamedMethodRuns == WebInit /\ [][WebNext]_webVars => []ServedByItsController
<1>1. WebIInv => ServedByItsController
  BY DEF WebIInv, CacheOK, Key, ServedByItsController
<1> QED BY WebInductive, <1>1, PTL

(* NewRelic hears once of a request whose error was answered as the server's *)
(* and of no other, and the gauge counts those under way (errorMiddleware(), *)
(* activeRequestsGauge).                                                     *)
THEOREM ReportsAreTrue == WebInit /\ [][WebNext]_webVars => []RequestsAccountedFor
<1>1. WebIInv => RequestsAccountedFor
  <2> SUFFICES ASSUME WebIInv PROVE RequestsAccountedFor
    OBVIOUS
  <2>1. {r \in Request : UnderWay(r)} = {r \in Request : at[r] # "client" /\ ~gone[r] /\ ~Finished(r)}
    BY DEF UnderWay
  <2>2. active = Cardinality({r \in Request : at[r] # "client" /\ ~gone[r] /\ ~Finished(r)})
    BY <2>1 DEF WebIInv, RequestsOK, GaugeIsTrue
  <2> QED BY <2>2 DEF WebIInv, RequestsOK, RequestOK, RequestsAccountedFor
<1> QED BY WebInductive, <1>1, PTL

-----------------------------------------------------------------------------
(* LogManager                                                                *)

(* No directory is without its parents, and the current one is there.        *)
DirsOK ==
  /\ \A d \in dirs : d \in Seq(STRING) /\ \A i \in 1..Len(d) : SubSeq(d, 1, i) \in dirs
  /\ \A i \in 1..Len(Cwd) : SubSeq(Cwd, 1, i) \in dirs

(* Only streams to redis are ended; a logger has streams that were made, and *)
(* ROOT's are those a logger of that name is configured with.                *)
StreamsOK ==
  /\ \A s \in DOMAIN streamCache : streamCache[s] = "ended" => StreamType[s] = "redis"
  /\ \A f \in DOMAIN logger : DOMAIN logger[f] \subseteq DOMAIN streamCache
  /\ process = "running" => <<"ROOT">> \in DOMAIN logger
  /\ <<"ROOT">> \in DOMAIN logger => \A s \in DOMAIN logger[<<"ROOT">>] :
       \E i \in DOMAIN Loggers : Loggers[i].name = <<"ROOT">> /\ s \in StreamsOf(Loggers[i])

LogIInv == DirsOK /\ StreamsOK /\ process \in {"loading", "running", "exited"} /\ LoggingIsHarmless

LEMMA LogInitImplies == LogInit => LogIInv
<1> SUFFICES ASSUME LogInit PROVE LogIInv
  OBVIOUS
<1>1. PICK D \in FirstDirs : dirs = {SubSeq(Cwd, 1, i) : i \in 1..Len(Cwd)} \cup D
  BY DEF LogInit
<1>2. \A i \in 1..Len(Cwd) : SubSeq(Cwd, 1, i) \in Seq(STRING) /\ Len(SubSeq(Cwd, 1, i)) = i
        /\ \A j \in 1..i : SubSeq(SubSeq(Cwd, 1, i), 1, j) = SubSeq(Cwd, 1, j)
  BY LogBounds
<1>3. DirsOK
  BY <1>1, <1>2, LogBounds DEF DirsOK
<1>4. streamCache = <<>> /\ logger = <<>> /\ process = "loading"
  BY DEF LogInit
<1>5. DOMAIN <<>> = {}
  OBVIOUS
<1>6. StreamsOK
  BY <1>4, <1>5 DEF StreamsOK
<1> QED BY <1>3, <1>4, <1>6 DEF LogIInv, LoggingIsHarmless

(* A set of numbers that is not empty has a least one.                       *)
LEMMA LeastNumber ==
  ASSUME NEW T \in SUBSET Nat, T # {}
  PROVE  \E x \in T : \A y \in T : x <= y
<1> DEFINE R == {p \in Nat \X Nat : p[1] < p[2]}
<1>1. IsWellFoundedOn(R, Nat)
  BY NatLessThanWellFounded DEF OpToRel
<1>2. PICK x \in T : \A y \in T : <<y, x>> \notin R
  <2> HIDE DEF R
  <2> QED BY <1>1, WFMin
<1>3. ASSUME NEW y \in T PROVE x <= y
  <2>1. x \in Nat /\ y \in Nat /\ ~(y < x)
    BY <1>2
  <2> QED BY <2>1
<1> QED BY <1>3

(* What mkdirpSync() makes lies in the current directory.                    *)
LEMMA MadeInCwd ==
  ASSUME NEW name \in STRING
  PROVE  /\ Append(Cwd, name) \in Seq(STRING) /\ Len(Append(Cwd, name)) = Len(Cwd) + 1
         /\ \A i \in 1..Len(Cwd) : SubSeq(Append(Cwd, name), 1, i) = SubSeq(Cwd, 1, i)
         /\ SubSeq(Append(Cwd, name), 1, Len(Cwd) + 1) = Append(Cwd, name)
<1>1. Cwd \in Seq(STRING) /\ Len(Cwd) \in Nat
  BY LogBounds
<1> DEFINE p == Append(Cwd, name)
<1>2. p \in Seq(STRING) /\ Len(p) = Len(Cwd) + 1 /\ \A i \in 1..Len(Cwd) : p[i] = Cwd[i]
  <2>1. p \in Seq(STRING)
    BY <1>1, AppendProperties
  <2>2. Len(p) = Len(Cwd) + 1
    BY <1>1, AppendProperties
  <2>3. \A i \in 1..Len(Cwd) : p[i] = Cwd[i]
    BY <1>1, AppendProperties
  <2> QED BY <2>1, <2>2, <2>3
<1> HIDE DEF p
<1>3. ASSUME NEW i \in 1..Len(Cwd)
      PROVE  SubSeq(p, 1, i) = SubSeq(Cwd, 1, i)
  <2>1. \A j \in 1..i : p[j] \in STRING /\ Cwd[j] \in STRING /\ p[j] = Cwd[j]
    BY <1>1, <1>2, ElementOfSeq
  <2>2. /\ SubSeq(p, 1, i) \in Seq(STRING) /\ Len(SubSeq(p, 1, i)) = i
        /\ \A j \in 1..i : SubSeq(p, 1, i)[j] = p[j]
    BY <1>1, <2>1, SubSeqProperties
  <2>3. /\ SubSeq(Cwd, 1, i) \in Seq(STRING) /\ Len(SubSeq(Cwd, 1, i)) = i
        /\ \A j \in 1..i : SubSeq(Cwd, 1, i)[j] = Cwd[j]
    BY <1>1, <2>1, SubSeqProperties
  <2> QED BY <2>1, <2>2, <2>3, SeqEqual
<1>4. SubSeq(p, 1, Len(Cwd) + 1) = p
  BY <1>2, SubSeqFull
<1> USE DEF p
<1> QED BY <1>2, <1>3, <1>4

LEMMA DirsStayClosed ==
  ASSUME DirsOK, NEW new \in SUBSET STRING,
         dirs' = dirs \cup {Append(Cwd, x) : x \in new}
  PROVE  DirsOK'
<1>1. Len(Cwd) \in Nat
  BY LogBounds
<1>2. ASSUME NEW x \in new
      PROVE  /\ Append(Cwd, x) \in Seq(STRING)
             /\ \A i \in 1..Len(Append(Cwd, x)) : SubSeq(Append(Cwd, x), 1, i) \in dirs'
  <2> DEFINE p == Append(Cwd, x)
  <2>1. /\ p \in Seq(STRING) /\ Len(p) = Len(Cwd) + 1
        /\ \A i \in 1..Len(Cwd) : SubSeq(p, 1, i) = SubSeq(Cwd, 1, i)
        /\ SubSeq(p, 1, Len(Cwd) + 1) = p /\ p \in dirs'
    BY MadeInCwd
  <2> HIDE DEF p
  <2>2. \A i \in 1..Len(p) : i \in 1..Len(Cwd) \/ i = Len(Cwd) + 1
    BY <1>1, <2>1
  <2>3. \A i \in 1..Len(p) : SubSeq(p, 1, i) \in dirs'
    BY <2>1, <2>2 DEF DirsOK
  <2> QED BY <2>1, <2>3 DEF p
<1> QED BY <1>2 DEF DirsOK

(* The path of a stream of type file.                                        *)
LEMMA FilePaths ==
  ASSUME NEW i \in DOMAIN Loggers, NEW s \in DOMAIN Loggers[i].streams, StreamType[s] = "file"
  PROVE  /\ s \in DOMAIN StreamType /\ Directory[s] \in Seq(STRING)
         /\ Len(Directory[s]) \in Nat /\ DOMAIN Directory[s] = 1..Len(Directory[s])
         /\ \A k \in 1..Len(Directory[s]) : Directory[s][k] \in STRING
<1>1. s \in DOMAIN StreamType /\ Directory[s] \in Seq(STRING)
  BY LogBounds
<1> QED BY <1>1, LenProperties, ElementOfSeq

(* mkdirpSync() makes directories in the current one, of a path's names.     *)
LEMMA MakesNames ==
  ASSUME NEW p \in Seq(STRING), NEW d \in mkdirpSync(p)
  PROVE  \E x \in STRING : d = Append(Cwd, x)
<1>1. PICK i \in MissingParts(p) : d = made(p, i)
  BY DEF mkdirpSync
<1>2. p[i] \in STRING
  BY ElementOfSeq, LenProperties DEF MissingParts
<1> QED BY <1>1, <1>2 DEF made

(* When it throws, a directory with the name of a missing part is in the     *)
(* current one, and the part is still missing.                               *)
LEMMA ThrowingLeavesMissing ==
  ASSUME DirsOK, DirsOK', NEW p \in Seq(STRING), mkdirpThrows(p) # {},
         dirs' = dirs \cup mkdirpSync(p)
  PROVE  p \notin dirs' /\ \E i \in MissingParts(p)' : Append(Cwd, p[i]) \in dirs'
<1>1. /\ Len(p) \in Nat /\ DOMAIN p = 1..Len(p) /\ \A k \in 1..Len(p) : p[k] \in STRING
      /\ Cwd \in Seq(STRING) /\ Len(Cwd) \in Nat /\ \A k \in 1..Len(Cwd) : Cwd[k] \in STRING
  BY LenProperties, ElementOfSeq, LogBounds
<1>2. mkdirpThrows(p) \in SUBSET Nat
  BY <1>1 DEF mkdirpThrows, MissingParts
<1>3. PICK i \in mkdirpThrows(p) : \A j \in mkdirpThrows(p) : i <= j
  BY <1>2, LeastNumber
<1>4. /\ i \in 1..Len(p) /\ SubSeq(p, 1, i) \notin dirs
      /\ made(p, i) \in dirs \/ \E j \in MissingParts(p) : j < i /\ p[j] = p[i]
  BY <1>1, <1>3 DEF mkdirpThrows, MissingParts
<1>5. \A d : d \in mkdirpSync(p) <=> \E k \in MissingParts(p) : k < i /\ d = made(p, k)
  <2>1. \A k \in MissingParts(p) : k \in Nat
    BY <1>1 DEF MissingParts
  <2>2. \A k \in MissingParts(p) : (\A j \in mkdirpThrows(p) : k < j) <=> k < i
    BY <1>2, <1>3, <2>1
  <2> QED BY <2>2 DEF mkdirpSync
<1>6. made(p, i) \in dirs'
  BY <1>4, <1>5 DEF made
<1>7. ASSUME NEW k \in MissingParts(p), k < i, SubSeq(p, 1, i) = made(p, k)
      PROVE  FALSE
  <2>1. k \in 1..Len(p) /\ SubSeq(p, 1, k) \notin dirs
    BY <1>1 DEF MissingParts
  <2>2. /\ Len(made(p, k)) = Len(Cwd) + 1
        /\ \A m \in 1..Len(Cwd) : made(p, k)[m] = Cwd[m]
    <3>1. p[k] \in STRING
      BY <1>1, <2>1
    <3>2. Len(Append(Cwd, p[k])) = Len(Cwd) + 1
      BY <1>1, <3>1, AppendProperties
    <3>3. \A m \in 1..Len(Cwd) : Append(Cwd, p[k])[m] = Cwd[m]
      BY <1>1, <3>1, AppendProperties
    <3> QED BY <3>2, <3>3 DEF made
  <2>3. \A n \in 1..Len(p) : /\ SubSeq(p, 1, n) \in Seq(STRING) /\ Len(SubSeq(p, 1, n)) = n
                             /\ \A m \in 1..n : SubSeq(p, 1, n)[m] = p[m]
    <3> SUFFICES ASSUME NEW n \in 1..Len(p)
                 PROVE  /\ SubSeq(p, 1, n) \in Seq(STRING) /\ Len(SubSeq(p, 1, n)) = n
                        /\ \A m \in 1..n : SubSeq(p, 1, n)[m] = p[m]
      OBVIOUS
    <3>1. \A m \in 1..n : p[m] \in STRING
      BY <1>1
    <3> QED BY <1>1, <3>1, SubSeqProperties
  <2>4. i = Len(Cwd) + 1 /\ k \in 1..Len(Cwd) /\ \A m \in 1..k : p[m] = Cwd[m]
    BY <1>1, <1>4, <1>7, <2>1, <2>2, <2>3
  <2>5. /\ SubSeq(Cwd, 1, k) \in Seq(STRING) /\ Len(SubSeq(Cwd, 1, k)) = k
        /\ \A m \in 1..k : SubSeq(Cwd, 1, k)[m] = Cwd[m]
    <3>1. \A m \in 1..k : Cwd[m] \in STRING
      BY <1>1, <2>4
    <3> QED BY <1>1, <2>4, <3>1, SubSeqProperties
  <2>6. SubSeq(p, 1, k) = SubSeq(Cwd, 1, k)
    BY <2>1, <2>3, <2>4, <2>5, SeqEqual
  <2> QED BY <2>1, <2>4, <2>6 DEF DirsOK
<1>8. SubSeq(p, 1, i) \notin dirs'
  BY <1>4, <1>5, <1>7
<1>9. p \notin dirs'
  BY <1>4, <1>8 DEF DirsOK
<1>10. i \in MissingParts(p)'
  BY <1>1, <1>4, <1>8 DEF MissingParts
<1> QED BY <1>6, <1>9, <1>10 DEF made

(* The logger of a path is one of the configured ones, and only one; that of *)
(* ROOT has this name.                                                       *)
LEMMA OneConfig ==
  ASSUME NEW path
  PROVE  \A c, d \in LoggerConfig(path) : c = d /\ \E i \in DOMAIN Loggers : c = Loggers[i]
  BY LogBounds DEF LoggerConfig

LEMMA RootConfig ==
  ASSUME NEW c \in LoggerConfig(LoggerPath(<<"ROOT">>))
  PROVE  \E i \in DOMAIN Loggers : c = Loggers[i] /\ Loggers[i].name = <<"ROOT">>
<1>1. LoggerPath(<<"ROOT">>) = <<"ROOT">>
  BY DEF LoggerPath, removeExtension
<1>2. ASSUME NEW i \in DOMAIN Loggers, StartsWith(<<"ROOT">>, Loggers[i].name)
      PROVE  Loggers[i].name = <<"ROOT">>
  <2> DEFINE q == Loggers[i].name
  <2>1. q \in Seq(STRING) /\ q # <<>> /\ Len(q) <= 1
    BY <1>2, LogBounds DEF StartsWith
  <2>2. Len(q) = 1
    BY <2>1, EmptySeq
  <2>3. SubSeq(<<"ROOT">>, 1, 1) = q
    BY <1>2, <2>2 DEF StartsWith
  <2>4. SubSeq(<<"ROOT">>, 1, 1) = <<"ROOT">>
    <3>1. <<"ROOT">> \in Seq({"ROOT"})
      OBVIOUS
    <3>2. Len(<<"ROOT">>) = 1
      OBVIOUS
    <3> QED BY <3>1, <3>2, SubSeqFull
  <2> QED BY <2>3, <2>4
<1> QED BY <1>1, <1>2 DEF LoggerConfig

LEMMA RootIsConfigured ==
  ASSUME \E i \in DOMAIN Loggers : Loggers[i].name = <<"ROOT">>, NEW path
  PROVE  LoggerConfig(path) # {}
<1> DEFINE fits == {i \in DOMAIN Loggers : StartsWith(path, Loggers[i].name)}
           root == {i \in DOMAIN Loggers : Loggers[i].name = <<"ROOT">>}
           candidates == IF fits # {} THEN fits ELSE root
<1>1. candidates # {} /\ candidates \in SUBSET Nat
  BY LogBounds
<1>2. PICK k \in candidates : \A j \in candidates : k <= j
  <2> HIDE DEF candidates
  <2> QED BY <1>1, LeastNumber
<1>3. Loggers[k] \in LoggerConfig(path)
  BY <1>2 DEF LoggerConfig
<1> QED BY <1>3

LEMMA StreamsOfStay ==
  ASSUME env' = env
  PROVE  \A c : StreamsOf(c)' = StreamsOf(c)
  BY DEF StreamsOf, getEffectiveLevel

LEMMA LoggerPreserves ==
  ASSUME LogIInv, NEW file \in Files, getLogger(file),
         \E i \in DOMAIN Loggers : Loggers[i].name = <<"ROOT">>
  PROVE  LogIInv'
<1> DEFINE config == LoggerConfig(LoggerPath(file))
           S == UNION {StreamsOf(c) : c \in config}
           throws == config = {} \/ Throwing(S) # {}
           files == {t \in S : NeedsDirectory(t)}
<1>1. PICK M \in IF throws THEN SUBSET (S \ Throwing(S)) ELSE {S} : getUnderlyingStreams(S, M)
  BY DEF getLogger
<1>2. /\ process # "exited" /\ file \notin DOMAIN logger
      /\ process = "loading" <=> file = <<"ROOT">>
      /\ process' = IF throws /\ process = "loading" THEN "exited" ELSE "running"
      /\ DOMAIN logger' = DOMAIN logger \cup IF throws THEN {} ELSE {file}
      /\ \A f \in DOMAIN logger : logger'[f] = logger[f]
      /\ ~throws => DOMAIN logger'[file] = S
      /\ env' = env
  BY DEF getLogger
<1>3. /\ dirs' = dirs \cup UNION {mkdirpSync(Directory[s]) : s \in files}
      /\ DOMAIN streamCache' = DOMAIN streamCache \cup M
      /\ \A s \in DOMAIN streamCache : streamCache'[s] = streamCache[s]
      /\ \A s \in M : s \notin DOMAIN streamCache => streamCache'[s] = "open"
      /\ M \subseteq S /\ (~throws => M = S)
  BY <1>1 DEF getUnderlyingStreams
<1>4. \A s \in S : \E c \in config : s \in StreamsOf(c)
  OBVIOUS
<1>5. ASSUME NEW s \in files
      PROVE  /\ \E i \in DOMAIN Loggers : /\ Loggers[i] \in config /\ s \in DOMAIN Loggers[i].streams
             /\ StreamType[s] = "file" /\ s \in DOMAIN StreamType /\ Directory[s] \in Seq(STRING)
  <2>1. PICK c \in config : s \in StreamsOf(c)
    BY <1>4
  <2>2. PICK i \in DOMAIN Loggers : c = Loggers[i]
    BY <2>1, OneConfig
  <2>3. s \in DOMAIN Loggers[i].streams /\ StreamType[s] = "file"
    BY <2>1, <2>2 DEF StreamsOf, NeedsDirectory
  <2> HIDE DEF config
  <2> QED BY <2>1, <2>2, <2>3, FilePaths
<1>6. DirsOK'
  <2> DEFINE Made == UNION {mkdirpSync(Directory[s]) : s \in files}
             new == {x \in STRING : Append(Cwd, x) \in Made}
  <2>1. Made = {Append(Cwd, x) : x \in new}
    <3>1. \A d \in Made : \E x \in STRING : d = Append(Cwd, x)
      <4> HIDE DEF files
      <4> QED BY <1>5, MakesNames
    <3> HIDE DEF Made
    <3> QED BY <3>1
  <2>2. dirs' = dirs \cup {Append(Cwd, x) : x \in new} /\ new \in SUBSET STRING
    BY <1>3, <2>1
  <2> HIDE DEF new
  <2> QED BY <2>2, DirsStayClosed DEF LogIInv
<1>7. StreamsOK'
  <2> HIDE DEF S, throws, config, files
  <2>1. \A s \in DOMAIN streamCache' : streamCache'[s] = "ended" => StreamType[s] = "redis"
    BY <1>3 DEF LogIInv, StreamsOK
  <2>2. \A f \in DOMAIN logger' : DOMAIN logger'[f] \subseteq DOMAIN streamCache'
    <3> SUFFICES ASSUME NEW f \in DOMAIN logger' PROVE DOMAIN logger'[f] \subseteq DOMAIN streamCache'
      OBVIOUS
    <3>1. CASE f \in DOMAIN logger
      BY <1>2, <1>3, <3>1 DEF LogIInv, StreamsOK
    <3>2. CASE f \notin DOMAIN logger
      BY <1>2, <1>3, <3>2
    <3> QED BY <3>1, <3>2
  <2>3. process' = "running" => <<"ROOT">> \in DOMAIN logger'
    BY <1>2 DEF LogIInv, StreamsOK
  <2>4. ASSUME <<"ROOT">> \in DOMAIN logger', NEW s \in DOMAIN logger'[<<"ROOT">>]
        PROVE  \E i \in DOMAIN Loggers : Loggers[i].name = <<"ROOT">> /\ s \in StreamsOf(Loggers[i])'
    <3>1. CASE <<"ROOT">> \in DOMAIN logger
      <4>1. PICK i \in DOMAIN Loggers : Loggers[i].name = <<"ROOT">> /\ s \in StreamsOf(Loggers[i])
        BY <1>2, <2>4, <3>1 DEF LogIInv, StreamsOK
      <4> QED BY <1>2, <4>1, StreamsOfStay
    <3>2. CASE <<"ROOT">> \notin DOMAIN logger
      <4>1. file = <<"ROOT">> /\ s \in S
        BY <1>2, <2>4, <3>2
      <4>2. PICK c \in config : s \in StreamsOf(c)
        BY <1>4, <4>1
      <4>3. PICK i \in DOMAIN Loggers : c = Loggers[i] /\ Loggers[i].name = <<"ROOT">>
        BY <4>1, <4>2, RootConfig DEF config
      <4> QED BY <1>2, <4>2, <4>3, StreamsOfStay
    <3> QED BY <3>1, <3>2
  <2> QED BY <2>1, <2>2, <2>3, <2>4 DEF StreamsOK
<1>8. LoggingIsHarmless'
  <2> SUFFICES ASSUME process' = "exited"
               PROVE  \E s \in DOMAIN StreamType :
                        /\ StreamType[s] = "file" /\ Directory[s] \notin dirs'
                        /\ \E i \in MissingParts(Directory[s])' : Append(Cwd, Directory[s][i]) \in dirs'
    BY DEF LoggingIsHarmless
  <2>1. Throwing(S) # {}
    BY <1>2, RootIsConfigured
  <2>2. PICK s \in S : NeedsDirectory(s) /\ mkdirpThrows(Directory[s]) # {}
    BY <2>1 DEF Throwing
  <2>3. s \in files
    BY <2>2
  <2> HIDE DEF S, throws, config
  <2>4. \A t \in files : t = s
    <3> SUFFICES ASSUME NEW t \in files PROVE t = s
      OBVIOUS
    <3> HIDE DEF files
    <3>1. PICK i \in DOMAIN Loggers : Loggers[i] \in config /\ s \in DOMAIN Loggers[i].streams
      BY <1>5, <2>3
    <3>2. PICK j \in DOMAIN Loggers : Loggers[j] \in config /\ t \in DOMAIN Loggers[j].streams
      BY <1>5
    <3>3. Loggers[i] = Loggers[j]
      BY <3>1, <3>2, OneConfig DEF config
    <3>4. StreamType[s] = "file" /\ StreamType[t] = "file" /\ t \in DOMAIN Loggers[i].streams
      BY <1>5, <2>3, <3>2, <3>3
    <3> QED BY <3>1, <3>4, LogBounds
  <2>5. dirs' = dirs \cup mkdirpSync(Directory[s])
    <3>1. files = {s}
      BY <2>3, <2>4
    <3> HIDE DEF files
    <3> QED BY <1>3, <3>1
  <2>6. StreamType[s] = "file" /\ s \in DOMAIN StreamType /\ Directory[s] \in Seq(STRING)
    BY <1>5, <2>3
  <2>7. PICK p \in Seq(STRING) : p = Directory[s]
    BY <2>6
  <2>8. p \notin dirs' /\ \E i \in MissingParts(p)' : Append(Cwd, p[i]) \in dirs'
    BY <1>6, <2>2, <2>5, <2>7, ThrowingLeavesMissing DEF LogIInv
  <2> QED BY <2>6, <2>7, <2>8
<1> QED BY <1>2, <1>6, <1>7, <1>8 DEF LogIInv

(* A handler of the process's events meets an ended stream of ROOT.          *)
LEMMA HandlerEndsProcess ==
  ASSUME LogIInv, uncaughtException
  PROVE  LogIInv'
<1>1. /\ process = "running" /\ process' \in {"running", "exited"}
      /\ process' = "exited" => WritesAfterEnd(<<"ROOT">>, "FATAL")
      /\ env' = env /\ dirs' = dirs /\ streamCache' = streamCache /\ logger' = logger
  BY DEF uncaughtException
<1>2. DirsOK' /\ StreamsOK'
  <2>1. \A i \in DOMAIN Loggers : StreamsOf(Loggers[i])' = StreamsOf(Loggers[i])
    BY <1>1, StreamsOfStay
  <2> QED BY <1>1, <2>1 DEF LogIInv, DirsOK, StreamsOK
<1>3. LoggingIsHarmless'
  <2> SUFFICES ASSUME process' = "exited"
               PROVE  \E i \in DOMAIN Loggers, s \in DOMAIN streamCache' :
                        /\ Loggers[i].name = <<"ROOT">> /\ s \in StreamsOf(Loggers[i])'
                        /\ StreamType[s] = "redis" /\ streamCache'[s] = "ended"
    BY DEF LoggingIsHarmless
  <2>1. PICK s \in DOMAIN logger[<<"ROOT">>] : streamCache[s] = "ended"
    BY <1>1 DEF WritesAfterEnd
  <2>2. <<"ROOT">> \in DOMAIN logger /\ s \in DOMAIN streamCache /\ StreamType[s] = "redis"
    BY <1>1, <2>1 DEF LogIInv, StreamsOK
  <2>3. PICK i \in DOMAIN Loggers : Loggers[i].name = <<"ROOT">> /\ s \in StreamsOf(Loggers[i])
    BY <2>1, <2>2 DEF LogIInv, StreamsOK
  <2> QED BY <1>1, <2>1, <2>2, <2>3, StreamsOfStay
<1> QED BY <1>1, <1>2, <1>3 DEF LogIInv

(* The steps that leave a process as it is, while it runs.                   *)
LEMMA RunningStays ==
  ASSUME LogIInv, process = "running",
         UNCHANGED <<env, dirs, process, logger>>,
         DOMAIN streamCache' = DOMAIN streamCache,
         \A s \in DOMAIN streamCache : streamCache'[s] = "ended" =>
           streamCache[s] = "ended" \/ StreamType[s] = "redis"
  PROVE  LogIInv'
<1>1. \A i \in DOMAIN Loggers : StreamsOf(Loggers[i])' = StreamsOf(Loggers[i])
  BY StreamsOfStay
<1>2. DirsOK' /\ LoggingIsHarmless'
  BY DEF LogIInv, DirsOK, LoggingIsHarmless
<1>3. StreamsOK'
  BY <1>1 DEF LogIInv, StreamsOK
<1> QED BY <1>2, <1>3 DEF LogIInv

LEMMA RestartPreserves ==
  ASSUME LogIInv, restart
  PROVE  LogIInv'
<1>1. process' = "loading" /\ streamCache' = <<>> /\ logger' = <<>> /\ dirs' = dirs
  BY DEF restart
<1>2. DOMAIN <<>> = {}
  OBVIOUS
<1>3. StreamsOK'
  BY <1>1, <1>2 DEF StreamsOK
<1> QED BY <1>1, <1>3 DEF LogIInv, DirsOK, LoggingIsHarmless

LEMMA LogStutters ==
  ASSUME LogIInv, UNCHANGED logVars
  PROVE  LogIInv'
<1>1. \A c : StreamsOf(c)' = StreamsOf(c)
  BY StreamsOfStay DEF logVars
<1>2. \A p : MissingParts(p)' = MissingParts(p)
  BY DEF logVars, MissingParts
<1>3. DirsOK' /\ StreamsOK'
  BY <1>1 DEF logVars, LogIInv, DirsOK, StreamsOK
<1>4. LoggingIsHarmless'
  BY <1>1, <1>2 DEF logVars, LogIInv, LoggingIsHarmless
<1> QED BY <1>3, <1>4 DEF logVars, LogIInv

(* With a logger ROOT, logging ends a process for two reasons only: ROOT     *)
(* logs to redis and the streams have been ended, or a directory is missing  *)
(* and mkdirpSync() finds the name of a part of its path in the current      *)
(* directory.  For all configurations, directories and overrides of the      *)
(* environment, any number of files, processes and restarts (closeStreams(), *)
(* mkdirpSync(), getLoggerInternal()).                                       *)
THEOREM LoggingEndsAProcessForTwoReasons ==
  ASSUME \E i \in DOMAIN Loggers : Loggers[i].name = <<"ROOT">>
  PROVE  LogInit /\ [][LogNext]_logVars => []LoggingIsHarmless
<1>1. ASSUME LogIInv, NEW f \in Files, NEW level \in DOMAIN Severity, logs(f, level) PROVE LogIInv'
  BY <1>1, RunningStays DEF logs
<1>2. ASSUME LogIInv, unhandledRejection \/ warning \/ scheduleShutdown PROVE LogIInv'
  BY <1>2, RunningStays DEF unhandledRejection, warning, scheduleShutdown
<1>3. ASSUME LogIInv, closeStreams PROVE LogIInv'
  <2>1. /\ process = "running" /\ UNCHANGED <<env, dirs, process, logger>>
        /\ DOMAIN streamCache' = DOMAIN streamCache
        /\ \A s \in DOMAIN streamCache : streamCache'[s] = "ended" =>
             streamCache[s] = "ended" \/ StreamType[s] = "redis"
    BY <1>3 DEF closeStreams
  <2> QED BY <1>3, <2>1, RunningStays
<1>4. ASSUME LogIInv, LogNext PROVE LogIInv'
  BY <1>1, <1>2, <1>3, <1>4, LoggerPreserves, HandlerEndsProcess, RestartPreserves DEF LogNext
<1>5. LogIInv /\ [LogNext]_logVars => LogIInv'
  BY <1>4, LogStutters
<1>6. LogIInv => LoggingIsHarmless
  BY DEF LogIInv
<1> QED BY LogInitImplies, <1>5, <1>6, PTL
-----------------------------------------------------------------------------
(* ContextRegistry                                                           *)

Stops == {"STOPPING", "STOPPED"}
Runs == {"STARTED", "STOPPING"}

IsDefinition(r) ==
  /\ DOMAIN r = {"ctx", "lazy", "status", "injected", "params", "hears"}
  /\ r = [f \in DOMAIN r |-> r[f]]

RegistryTypeOK ==
  /\ assembly \in Assemblies
  /\ DOMAIN assembly.parents \subseteq Live /\ Live \subseteq Contexts
  /\ lc \in [Contexts -> Stoppable \cup Stops]
  /\ starts \in [Contexts -> {"idle", "waiting", "begun", "failed", "done"}]
  /\ defs = [c \in Contexts |-> defs[c]]
  /\ started = [c \in Contexts |-> started[c]]
  /\ awaits = [c \in Contexts |-> awaits[c]]
  /\ def = [d \in DOMAIN def |-> def[d]]
  /\ \A d \in DOMAIN def : IsDefinition(def[d])
  /\ inspected \in Live \cup {None}

(* One level of parents; the copy that clone() makes is not there before.    *)
Families ==
  /\ \A c \in Live : parent[c] # None => parent[c] \in Live /\ parent[parent[c]] = None
  /\ twin \notin Live =>
       lc[twin] = "NOT_STARTED" /\ starts[twin] = "idle" /\ \A d \in DOMAIN def : d[2] # twin

(* The maps hold definitions under their names.                              *)
Named ==
  /\ assembly.blueprints \X {"new"} \subseteq DOMAIN def
  /\ \A c \in Contexts : \A n \in DOMAIN defs[c] :
       defs[c][n] \in DOMAIN def /\ NameOf(defs[c][n]) = n

(* A context that listens to a definition has it in its map, or has had it.  *)
Heard ==
  \A d \in DOMAIN def :
    /\ def[d].ctx # None => def[d].ctx \in def[d].hears
    /\ \A c \in def[d].hears :
         /\ c \in Live /\ NameOf(d) \in DOMAIN defs[c]
         /\ defs[c][NameOf(d)] = d \/ <<c, NameOf(d)>> \in replaced

(* startedObjects holds what runs, and what the context listens to.          *)
HeldRun ==
  \A c \in Contexts : \A n \in DOMAIN started[c] :
    /\ started[c][n] \in DOMAIN def /\ NameOf(started[c][n]) = n
    /\ c \in def[started[c][n]].hears /\ def[started[c][n]].status \in Runs

Excused(c, d) == d \in late \/ <<c, NameOf(d)>> \in replaced

(* And what runs is held until its context stops, and awaited then.          *)
RunningHeld ==
  \A d \in DOMAIN def : \A c \in Live :
    def[d].ctx = c /\ def[d].status \in Runs /\ ~Excused(c, d) =>
      /\ lc[c] \notin Stops => NameOf(d) \in DOMAIN started[c] /\ started[c][NameOf(d)] = d
      /\ lc[c] = "STOPPING" => d \in awaits[c]
      /\ lc[c] # "STOPPED"

(* A start, and what it needs of the parent's.                               *)
StartsOrdered ==
  /\ inspected # None => starts[inspected] = "begun"
  /\ \A c \in Live :
       /\ starts[c] = "begun" => lc[c] = "STARTING"
       /\ starts[c] = "done" => lc[c] # "NOT_STARTED"
       /\ lc[c] \in {"STARTING", "FAILING", "STARTED"} /\ parent[c] # None
            => lc[parent[c]] # "NOT_STARTED"

RegistryIInv ==
  /\ RegistryTypeOK /\ Families /\ Named /\ Heard /\ HeldRun /\ RunningHeld /\ StartsOrdered
-----------------------------------------------------------------------------
LEMMA RegistryInitImplies == RegistryInit => RegistryIInv
<1> SUFFICES ASSUME RegistryInit
             PROVE  RegistryIInv
  OBVIOUS
<1>1. /\ assembly \in Assemblies /\ parent = assembly.parents /\ Live = DOMAIN assembly.parents
      /\ twin \notin Live /\ twin # "new" /\ Live \subseteq Contexts
      /\ \A c \in Live : parent[c] # None => parent[c] \in Live /\ parent[parent[c]] = None
  BY RegistryAssumption DEF RegistryInit, Live, Contexts
<1>2. /\ \A c \in Contexts : lc[c] = "NOT_STARTED" /\ starts[c] = "idle" /\ DOMAIN started[c] = {}
      /\ inspected = None
  BY DEF RegistryInit
<1>3. /\ DOMAIN def = ({"__CONTEXT__"} \X Live) \cup (assembly.blueprints \X {"new"})
      /\ \A d \in DOMAIN def :
           def[d] = IF d \in {"__CONTEXT__"} \X Live THEN NewContextDefinition(d[2])
                    ELSE NewDefinition(d[1])
  <2> DEFINE f == [d \in {"__CONTEXT__"} \X Live |-> NewContextDefinition(d[2])]
             g == [d \in assembly.blueprints \X {"new"} |-> NewDefinition(d[1])]
  <2>1. def = Over(f, g)
    BY DEF RegistryInit
  <2>2. /\ DOMAIN f = {"__CONTEXT__"} \X Live /\ DOMAIN g = assembly.blueprints \X {"new"}
        /\ \A d \in {"__CONTEXT__"} \X Live : f[d] = NewContextDefinition(d[2])
        /\ \A d \in assembly.blueprints \X {"new"} : g[d] = NewDefinition(d[1])
    OBVIOUS
  <2> HIDE DEF f, g
  <2> QED BY <2>1, <2>2 DEF Over
<1>4. \A d \in DOMAIN def : IsDefinition(def[d]) /\ def[d].status = "NOT_STARTED"
  <2>1. \A c : LET r == NewContextDefinition(c) IN IsDefinition(r) /\ r.status = "NOT_STARTED"
    BY DEF IsDefinition, NewContextDefinition
  <2>2. \A b : LET r == NewDefinition(b) IN IsDefinition(r) /\ r.status = "NOT_STARTED"
    BY DEF IsDefinition, NewDefinition
  <2> QED BY <1>3, <2>1, <2>2
<1>5. \A c \in Contexts : /\ c \notin Live => DOMAIN defs[c] = {}
                          /\ c \in Live => /\ DOMAIN defs[c] = {"__CONTEXT__"}
                                           /\ defs[c]["__CONTEXT__"] = ContextDefinition(c)
  BY DEF RegistryInit
<1>6. RegistryTypeOK
  BY <1>1, <1>2, <1>4 DEF RegistryInit, RegistryTypeOK, Stoppable, Over
<1>7. Families
  BY <1>1, <1>2, <1>3 DEF Families, Contexts
<1>8. Named
  BY <1>1, <1>3, <1>5 DEF Named, ContextDefinition, NameOf
<1>9. Heard
  <2> SUFFICES ASSUME NEW d \in DOMAIN def
               PROVE  /\ def[d].ctx # None => def[d].ctx \in def[d].hears
                      /\ \A c \in def[d].hears :
                           /\ c \in Live /\ NameOf(d) \in DOMAIN defs[c]
                           /\ defs[c][NameOf(d)] = d \/ <<c, NameOf(d)>> \in replaced
    BY DEF Heard
  <2>1. CASE d \in {"__CONTEXT__"} \X Live
    <3>1. d[2] \in Live /\ d = ContextDefinition(d[2]) /\ NameOf(d) = "__CONTEXT__"
      BY <2>1 DEF ContextDefinition, NameOf
    <3>2. def[d].ctx = d[2] /\ def[d].hears = {d[2]}
      <4>1. def[d] = NewContextDefinition(d[2])
        BY <1>3, <2>1
      <4> QED BY <4>1 DEF NewContextDefinition
    <3> QED BY <1>1, <1>5, <3>1, <3>2
  <2>2. CASE d \notin {"__CONTEXT__"} \X Live
    <3>1. def[d].ctx = None /\ def[d].hears = {}
      <4>1. def[d] = NewDefinition(d[1])
        BY <1>3, <2>2
      <4> QED BY <4>1 DEF NewDefinition
    <3> QED BY <3>1
  <2> QED BY <2>1, <2>2
<1>10. HeldRun /\ RunningHeld /\ StartsOrdered
  BY <1>1, <1>2, <1>4 DEF HeldRun, RunningHeld, Runs, StartsOrdered
<1> QED BY <1>6, <1>7, <1>8, <1>9, <1>10 DEF RegistryIInv

(* A definition keeps what the invariant speaks of.                          *)
Same(d) == /\ def'[d].ctx = def[d].ctx /\ def'[d].hears = def[d].hears
           /\ def'[d].status = def[d].status

LEMMA MapsUndisturbed ==
  ASSUME RegistryIInv, UNCHANGED <<assembly, parent, defs, started, awaits, late, replaced>>,
         DOMAIN def' = DOMAIN def, \A d \in DOMAIN def : Same(d),
         \A c \in Live : lc[c] \in Stops \/ lc'[c] \in Stops => lc'[c] = lc[c]
  PROVE  Named' /\ Heard' /\ HeldRun' /\ RunningHeld'
<1>1. Live' = Live /\ Contexts' = Contexts
  BY DEF Live, Contexts
<1>2. Named'
  BY <1>1 DEF RegistryIInv, Named
<1>3. Heard'
  BY <1>1 DEF RegistryIInv, Heard, Same
<1>4. HeldRun'
  BY <1>1 DEF RegistryIInv, HeldRun, Same
<1>5. RunningHeld'
  BY <1>1 DEF RegistryIInv, RunningHeld, Same, Excused, Stops
<1> QED BY <1>2, <1>3, <1>4, <1>5

(* Two definitions of one name that a context listens to: one took the place *)
(* of the other.                                                             *)
LEMMA HeardOnce ==
  ASSUME Heard, NEW d \in DOMAIN def, NEW e \in DOMAIN def, NEW c,
         c \in def[d].hears, c \in def[e].hears, NameOf(d) = NameOf(e),
         <<c, NameOf(d)>> \notin replaced
  PROVE  d = e
BY DEF Heard

LEMMA EnterKeeps ==
  ASSUME RegistryIInv, NEW c \in Live, NEW D \in SUBSET DOMAIN def,
         \A d, e \in D : NameOf(d) = NameOf(e) => d = e, Enter(c, D),
         UNCHANGED <<contextMaps, lc, started, inspected, awaits, late>>
  PROVE  RegistryIInv'
<1> DEFINE names == {NameOf(d) : d \in D}
<1>1. /\ UNCHANGED <<assembly, parent, starts, lc, started, inspected, awaits, late>>
      /\ Live' = Live /\ Contexts' = Contexts /\ c \in Contexts
  BY DEF contextMaps, Live, Contexts, RegistryIInv, RegistryTypeOK
<1>2. /\ DOMAIN def' = DOMAIN def
      /\ \A d \in DOMAIN def : IsDefinition(def'[d]) /\ def'[d].status = def[d].status
      /\ \A d \in DOMAIN def : \/ def'[d].ctx = def[d].ctx /\ def'[d].hears = def[d].hears
                               \/ /\ d \in D /\ def[d].status = "NOT_STARTED"
                                  /\ def'[d].ctx = c /\ def'[d].hears = def[d].hears \cup {c}
      /\ def' = [d \in DOMAIN def' |-> def'[d]]
  <2>1. \A d \in DOMAIN def : IsDefinition(def[d])
    BY DEF RegistryIInv, RegistryTypeOK
  <2>2. def' = [d \in DOMAIN def |->
                  IF d \in D /\ def[d].status = "NOT_STARTED"
                  THEN [def[d] EXCEPT !.ctx = c, !.hears = @ \cup {c}] ELSE def[d]]
    BY DEF Enter
  <2>3. ASSUME NEW r, IsDefinition(r)
        PROVE  LET q == [r EXCEPT !.ctx = c, !.hears = @ \cup {c}]
               IN /\ IsDefinition(q) /\ q.status = r.status
                  /\ q.ctx = c /\ q.hears = r.hears \cup {c}
    BY <2>3 DEF IsDefinition
  <2> QED BY <2>1, <2>2, <2>3
<1>3. /\ defs' = [x \in Contexts |-> IF x = c THEN Over(ByName(D), defs[c]) ELSE defs[x]]
      /\ DOMAIN ByName(D) = names
      /\ \A d \in D : ByName(D)[NameOf(d)] = d
  <2>1. defs' = [x \in Contexts |-> IF x = c THEN Over(ByName(D), defs[c]) ELSE defs[x]]
    BY <1>1 DEF RegistryIInv, RegistryTypeOK, Enter
  <2>2. DOMAIN ByName(D) = names
    BY DEF ByName
  <2>3. \A d \in D : ByName(D)[NameOf(d)] = d
    BY DEF ByName
  <2> QED BY <2>1, <2>2, <2>3
<1>4. /\ \A x \in Contexts : x # c => defs'[x] = defs[x]
      /\ DOMAIN defs'[c] = names \cup DOMAIN defs[c]
      /\ \A d \in D : defs'[c][NameOf(d)] = d
      /\ \A n \in DOMAIN defs[c] : n \notin names => defs'[c][n] = defs[c][n]
  BY <1>1, <1>3 DEF Over
<1>5. /\ replaced \subseteq replaced'
      /\ \A e \in D : NameOf(e) \in DOMAIN defs[c] /\ defs[c][NameOf(e)] # e =>
                        <<c, NameOf(e)>> \in replaced'
  BY DEF Enter
<1>6. RegistryTypeOK'
  <2>1. def' = [d \in DOMAIN def' |-> def'[d]] /\ \A d \in DOMAIN def' : IsDefinition(def'[d])
    BY <1>2
  <2>2. defs' = [x \in Contexts' |-> defs'[x]]
    BY <1>1, <1>3
  <2> QED BY <1>1, <2>1, <2>2 DEF RegistryIInv, RegistryTypeOK
<1>7. Families' /\ StartsOrdered'
  BY <1>1, <1>2 DEF RegistryIInv, Families, StartsOrdered
<1>8. Named'
  <2>1. ASSUME NEW x \in Contexts, NEW n \in DOMAIN defs'[x]
        PROVE  defs'[x][n] \in DOMAIN def /\ NameOf(defs'[x][n]) = n
    <3>1. CASE x = c /\ n \in names
      BY <1>4, <3>1
    <3>2. CASE ~(x = c /\ n \in names)
      <4>1. n \in DOMAIN defs[x] /\ defs'[x][n] = defs[x][n]
        BY <1>1, <1>4, <2>1, <3>2
      <4> QED BY <4>1 DEF RegistryIInv, Named
    <3> QED BY <3>1, <3>2
  <2>2. (assembly.blueprints \X {"new"} \subseteq DOMAIN def)'
    BY <1>1, <1>2 DEF RegistryIInv, Named
  <2> QED BY <1>1, <1>2, <2>1, <2>2 DEF Named
<1>9. Heard'
  <2>1. ASSUME NEW d \in DOMAIN def
        PROVE  def'[d].ctx # None => def'[d].ctx \in def'[d].hears
    BY <1>2 DEF RegistryIInv, Heard
  <2>2. ASSUME NEW d \in DOMAIN def, NEW x \in def'[d].hears
        PROVE  /\ x \in Live /\ NameOf(d) \in DOMAIN defs'[x]
               /\ defs'[x][NameOf(d)] = d \/ <<x, NameOf(d)>> \in replaced'
    <3>1. CASE x = c /\ d \in D
      BY <1>4, <3>1
    <3>2. CASE ~(x = c /\ d \in D)
      <4>1. x \in def[d].hears
        BY <1>2, <2>2, <3>2
      <4>2. /\ x \in Live /\ x \in Contexts /\ NameOf(d) \in DOMAIN defs[x]
            /\ defs[x][NameOf(d)] = d \/ <<x, NameOf(d)>> \in replaced
        BY <4>1 DEF RegistryIInv, Heard, RegistryTypeOK
      <4>3. CASE x = c /\ NameOf(d) \in names
        <5>1. PICK e \in D : NameOf(e) = NameOf(d)
          BY <4>3
        <5>2. e # d
          BY <3>2, <4>3
        <5> QED BY <1>4, <1>5, <4>2, <4>3, <5>1, <5>2
      <4>4. CASE ~(x = c /\ NameOf(d) \in names)
        BY <1>4, <1>5, <4>2, <4>4
      <4> QED BY <4>3, <4>4
    <3> QED BY <3>1, <3>2
  <2> QED BY <1>1, <1>2, <2>1, <2>2 DEF Heard
<1>10. HeldRun'
  <2>1. \A d \in DOMAIN def : def[d].hears \subseteq def'[d].hears
    BY <1>2
  <2> QED BY <1>1, <1>2, <2>1 DEF RegistryIInv, HeldRun
<1>11. RunningHeld'
  <2>1. \A d \in DOMAIN def : def'[d].status \in Runs =>
          def'[d].ctx = def[d].ctx /\ def[d].status = def'[d].status
    BY <1>2 DEF Runs
  <2>2. \A d \in DOMAIN def : \A x : Excused(x, d) => Excused(x, d)'
    BY <1>1, <1>5 DEF Excused
  <2> QED BY <1>1, <1>2, <2>1, <2>2 DEF RegistryIInv, RunningHeld
<1> QED BY <1>6, <1>7, <1>8, <1>9, <1>10, <1>11 DEF RegistryIInv
-----------------------------------------------------------------------------
(* getInstance() of some definitions, for a caller or for doStart().         *)
LEMMA InstantiateMoves ==
  ASSUME RegistryIInv, NEW D, Instantiate(D)
  PROVE  /\ DOMAIN def' = DOMAIN def /\ def' = [d \in DOMAIN def' |-> def'[d]]
         /\ \A d \in DOMAIN def :
              /\ IsDefinition(def'[d])
              /\ def'[d].ctx = def[d].ctx /\ def'[d].hears = def[d].hears
              /\ \/ def'[d].status = def[d].status
                 \/ def[d].status = "NOT_STARTED" /\ def'[d].status \in {"STARTED", "BROKEN"}
<1>1. PICK fresh \in {Fresh(D)} :
        def' = [d \in DOMAIN def |->
                  IF d \notin fresh THEN def[d]
                  ELSE [def[d] EXCEPT !.status = IF Rejects(d) THEN "BROKEN" ELSE "STARTED",
                                      !.injected = Given(d)]]
  BY DEF Instantiate
<1>2. \A d \in fresh : def[d].status = "NOT_STARTED"
  BY DEF Fresh
<1>3. \A d \in DOMAIN def : IsDefinition(def[d])
  BY DEF RegistryIInv, RegistryTypeOK
<1>4. DOMAIN def' = DOMAIN def /\ def' = [d \in DOMAIN def' |-> def'[d]]
  BY <1>1
<1>5. ASSUME NEW d \in DOMAIN def
      PROVE  /\ IsDefinition(def'[d])
             /\ def'[d].ctx = def[d].ctx /\ def'[d].hears = def[d].hears
             /\ \/ def'[d].status = def[d].status
                \/ def[d].status = "NOT_STARTED" /\ def'[d].status \in {"STARTED", "BROKEN"}
  <2>1. CASE d \in fresh
    <3> DEFINE s == IF Rejects(d) THEN "BROKEN" ELSE "STARTED"
    <3>1. def'[d] = [def[d] EXCEPT !.status = s, !.injected = Given(d)] /\ s \in {"STARTED", "BROKEN"}
      BY <1>1, <2>1
    <3> HIDE DEF s
    <3> DEFINE q == [def[d] EXCEPT !.status = s, !.injected = Given(d)]
    <3>2. /\ IsDefinition(q) /\ q.status = s
          /\ q.ctx = def[d].ctx /\ q.hears = def[d].hears
      <4>1. IsDefinition(def[d])
        BY <1>3
      <4> QED BY <4>1 DEF IsDefinition
    <3>3. def'[d] = q /\ def[d].status = "NOT_STARTED"
      BY <1>2, <2>1, <3>1
    <3> HIDE DEF q
    <3> QED BY <3>1, <3>2, <3>3
  <2>2. CASE d \notin fresh
    BY <1>1, <1>3, <2>2
  <2> QED BY <2>1, <2>2
<1> QED BY <1>4, <1>5

LEMMA InstantiateKeeps ==
  ASSUME RegistryIInv, NEW D, Instantiate(D),
         UNCHANGED <<assembly, parent, defs, awaits, replaced>>,
         \A c \in Live : lc[c] \in Stops \/ lc'[c] \in Stops => lc'[c] = lc[c]
  PROVE  Named' /\ Heard' /\ HeldRun' /\ RunningHeld'
<1>1. /\ DOMAIN def' = DOMAIN def /\ def' = [d \in DOMAIN def' |-> def'[d]]
      /\ \A d \in DOMAIN def :
           /\ def'[d].ctx = def[d].ctx /\ def'[d].hears = def[d].hears
           /\ \/ def'[d].status = def[d].status
              \/ def[d].status = "NOT_STARTED" /\ def'[d].status \in {"STARTED", "BROKEN"}
  BY InstantiateMoves
<1>2. Live' = Live /\ Contexts' = Contexts /\ Live \subseteq Contexts
  BY DEF Live, Contexts, RegistryIInv, RegistryTypeOK
<1>3. \A d : d \in Started <=>
        d \in DOMAIN def /\ def[d].status = "NOT_STARTED" /\ def'[d].status = "STARTED"
  BY DEF Started, Settled
<1> DEFINE new(c) == {d \in Started : c \in def[d].hears}
<1>4. \A c \in Contexts : started'[c] = Over(ByName(new(c)), started[c])
  BY DEF Instantiate
<1>5. ASSUME NEW c \in Contexts
      PROVE  /\ DOMAIN started'[c] = {NameOf(d) : d \in new(c)} \cup DOMAIN started[c]
             /\ \A d \in new(c) : /\ started'[c][NameOf(d)] \in new(c)
                                  /\ NameOf(started'[c][NameOf(d)]) = NameOf(d)
             /\ \A n \in DOMAIN started[c] :
                  n \notin {NameOf(d) : d \in new(c)} => started'[c][n] = started[c][n]
  <2> DEFINE N == new(c)
             f == ByName(N)
  <2>1. started'[c] = Over(f, started[c])
    BY <1>4
  <2> HIDE DEF new, N
  <2>2. DOMAIN f = {NameOf(d) : d \in N}
    BY DEF ByName
  <2>3. \A d \in N : f[NameOf(d)] \in N /\ NameOf(f[NameOf(d)]) = NameOf(d)
    BY DEF ByName
  <2> HIDE DEF f
  <2>4. /\ DOMAIN started'[c] = {NameOf(d) : d \in N} \cup DOMAIN started[c]
        /\ \A d \in N : started'[c][NameOf(d)] = f[NameOf(d)]
        /\ \A n \in DOMAIN started[c] :
             n \notin {NameOf(d) : d \in N} => started'[c][n] = started[c][n]
    BY <2>1, <2>2 DEF Over
  <2> QED BY <2>3, <2>4 DEF N
<1>6. /\ late \subseteq late'
      /\ \A d \in Started : lc[def[d].ctx] \in Stops => d \in late'
  BY DEF Instantiate, Stops
<1>7. Named' /\ Heard'
  BY <1>1, <1>2 DEF RegistryIInv, Named, Heard
<1>8. HeldRun'
  <2> SUFFICES ASSUME NEW c \in Contexts, NEW n \in DOMAIN started'[c]
               PROVE  /\ started'[c][n] \in DOMAIN def /\ NameOf(started'[c][n]) = n
                      /\ c \in def[started'[c][n]].hears /\ def'[started'[c][n]].status \in Runs
    BY <1>1, <1>2 DEF HeldRun
  <2>1. CASE n \in {NameOf(d) : d \in new(c)}
    <3>1. started'[c][n] \in new(c) /\ NameOf(started'[c][n]) = n
      BY <1>5, <2>1
    <3> QED BY <1>3, <3>1 DEF Runs
  <2>2. CASE n \notin {NameOf(d) : d \in new(c)}
    <3>1. n \in DOMAIN started[c] /\ started'[c][n] = started[c][n]
      BY <1>5, <2>2
    <3> QED BY <1>1, <3>1 DEF RegistryIInv, HeldRun, Runs
  <2> QED BY <2>1, <2>2
<1>9. RunningHeld'
  <2> SUFFICES ASSUME NEW d \in DOMAIN def, NEW c \in Live,
                      def'[d].ctx = c, def'[d].status \in Runs, ~Excused(c, d)'
               PROVE  /\ lc'[c] \notin Stops =>
                           NameOf(d) \in DOMAIN started'[c] /\ started'[c][NameOf(d)] = d
                      /\ lc'[c] = "STOPPING" => d \in awaits[c]
                      /\ lc'[c] # "STOPPED"
    BY <1>1, <1>2 DEF RunningHeld
  <2>1. /\ c \in Contexts /\ c # None /\ def[d].ctx = c /\ c \in def[d].hears
        /\ d \notin late' /\ <<c, NameOf(d)>> \notin replaced
    BY <1>1, <1>2, RegistryAssumption DEF RegistryIInv, Heard, Excused, Contexts, RegistryTypeOK
  <2>2. \A e \in new(c) : NameOf(e) = NameOf(d) => e = d
    BY <1>3, <2>1, HeardOnce DEF RegistryIInv
  <2>3. CASE d \in Started
    <3>1. lc[c] \notin Stops
      BY <1>6, <2>1, <2>3
    <3>2. d \in new(c)
      BY <2>1, <2>3
    <3> QED BY <1>5, <2>1, <2>2, <3>1, <3>2 DEF Stops
  <2>4. CASE d \notin Started
    <3>1. def[d].status \in Runs /\ ~Excused(c, d)
      BY <1>1, <1>3, <1>6, <2>1, <2>4 DEF Runs, Excused
    <3>2. /\ lc[c] \notin Stops => NameOf(d) \in DOMAIN started[c] /\ started[c][NameOf(d)] = d
          /\ lc[c] = "STOPPING" => d \in awaits[c]
          /\ lc[c] # "STOPPED"
      BY <2>1, <3>1 DEF RegistryIInv, RunningHeld
    <3>3. NameOf(d) \notin {NameOf(e) : e \in new(c)}
      BY <2>2, <2>4
    <3> QED BY <1>5, <2>1, <3>2, <3>3 DEF Stops
  <2> QED BY <2>3, <2>4
<1> QED BY <1>7, <1>8, <1>9
-----------------------------------------------------------------------------
(* A start: the parent's, then the context's own.                            *)
LEMMA StartKeeps ==
  ASSUME RegistryIInv, NEW c \in Live, lcStart(c) \/ superLcStart(c),
         \A x \in Live : starts[x] # "begun"
  PROVE  RegistryIInv'
<1>1. /\ UNCHANGED <<assembly, parent, defs, started, inspected, def, awaits, late, replaced>>
      /\ Live' = Live /\ Contexts' = Contexts
  BY DEF lcStart, superLcStart, history, Live, Contexts
<1>2. /\ Live \subseteq Contexts /\ lc \in [Contexts -> Stoppable \cup Stops]
      /\ starts \in [Contexts -> {"idle", "waiting", "begun", "failed", "done"}]
      /\ \A x \in Live : parent[x] # None => parent[x] \in Live /\ parent[parent[x]] = None
      /\ twin \notin Live => starts[twin] = "idle" /\ lc[twin] = "NOT_STARTED"
      /\ None \notin Live /\ twin \in Contexts
  BY RegistryAssumption DEF RegistryIInv, RegistryTypeOK, Families, Contexts
<1>3. inspected = None
  BY DEF RegistryIInv, StartsOrdered, RegistryTypeOK
<1>4. \/ lc' = lc /\ starts' = [starts EXCEPT ![c] = "failed"]
      \/ \E x \in Live :
           /\ lc' = [lc EXCEPT ![x] = "STARTING"] /\ lc[x] = "NOT_STARTED"
           /\ \/ starts' = [starts EXCEPT ![c] = "waiting", ![x] = "begun"] /\ parent[x] = None
              \/ /\ starts' = [starts EXCEPT ![x] = "begun"]
                 /\ parent[x] # None => starts[parent[x]] = "done"
  <2>1. CASE lcStart(c)
    <3> DEFINE top == IF parent[c] = None THEN c ELSE parent[c]
    <3>1. top \in Live /\ parent[top] = None
      BY <1>2
    <3>2. \/ lc' = lc /\ starts' = [starts EXCEPT ![c] = "failed"]
          \/ /\ lc' = [lc EXCEPT ![top] = "STARTING"] /\ lc[top] = "NOT_STARTED"
             /\ starts' = [starts EXCEPT ![c] = "waiting", ![top] = "begun"]
      BY <2>1 DEF lcStart
    <3> HIDE DEF top
    <3> QED BY <3>1, <3>2
  <2>2. CASE superLcStart(c)
    BY <2>2 DEF superLcStart
  <2> QED BY <2>1, <2>2
<1>5. /\ lc' \in [Contexts -> Stoppable \cup Stops]
      /\ starts' \in [Contexts -> {"idle", "waiting", "begun", "failed", "done"}]
      /\ \A x \in Live : lc'[x] # lc[x] => lc[x] = "NOT_STARTED" /\ lc'[x] = "STARTING"
      /\ twin \notin Live => starts'[twin] = "idle" /\ lc'[twin] = "NOT_STARTED"
  BY <1>2, <1>4 DEF Stoppable
<1>6. RegistryTypeOK' /\ Families'
  BY <1>1, <1>5 DEF RegistryIInv, RegistryTypeOK, Families
<1>7. Named' /\ Heard' /\ HeldRun' /\ RunningHeld'
  BY <1>1, <1>5, MapsUndisturbed DEF Same, Stops
<1>8. StartsOrdered'
  <2>1. \A x \in Live :
          /\ starts[x] = "done" => lc[x] # "NOT_STARTED"
          /\ lc[x] \in {"STARTING", "FAILING", "STARTED"} /\ parent[x] # None
               => lc[parent[x]] # "NOT_STARTED"
    BY DEF RegistryIInv, StartsOrdered
  <2>2. \A x \in Live : starts'[x] = "begun" => lc'[x] = "STARTING"
    BY <1>2, <1>4
  <2>3. \A x \in Live : starts'[x] = "done" => lc'[x] # "NOT_STARTED"
    BY <1>2, <1>4, <1>5, <2>1
  <2>4. \A x \in Live : lc'[x] \in {"STARTING", "FAILING", "STARTED"} /\ parent[x] # None
               => lc'[parent[x]] # "NOT_STARTED"
    BY <1>2, <1>4, <1>5, <2>1
  <2> QED BY <1>1, <1>3, <2>2, <2>3, <2>4 DEF StartsOrdered
<1> QED BY <1>6, <1>7, <1>8 DEF RegistryIInv

LEMMA InspectMoves ==
  ASSUME RegistryIInv, NEW D, Inspect(D)
  PROVE  /\ DOMAIN def' = DOMAIN def /\ def' = [d \in DOMAIN def' |-> def'[d]]
         /\ \A d \in DOMAIN def : IsDefinition(def'[d]) /\ Same(d)
<1>1. \A d \in DOMAIN def : IsDefinition(def[d])
  BY DEF RegistryIInv, RegistryTypeOK
<1> DEFINE more(d) == IF Blueprint[d[1]].wired.type = "nothing" THEN <<>>
                      ELSE <<<<d[1], d[2], Len(def[d].params)>>>>
<1>2. def' = [d \in DOMAIN def |->
                IF d \notin D THEN def[d]
                ELSE [def[d] EXCEPT !.lazy = Blueprint[d[1]].lazy, !.params = @ \o more(d)]]
  BY DEF Inspect
<1> HIDE DEF more
<1>3. ASSUME NEW d \in DOMAIN def
      PROVE  IsDefinition(def'[d]) /\ Same(d)
  <2> DEFINE lazy == Blueprint[d[1]].lazy
             params == def[d].params \o more(d)
             q == [def[d] EXCEPT !.lazy = lazy, !.params = params]
  <2>1. def'[d] = def[d] \/ def'[d] = q
    BY <1>2
  <2>2. IsDefinition(q) /\ q.ctx = def[d].ctx /\ q.hears = def[d].hears /\ q.status = def[d].status
    <3> HIDE DEF lazy, params
    <3>1. IsDefinition(def[d])
      BY <1>1
    <3> QED BY <3>1 DEF IsDefinition
  <2> HIDE DEF q
  <2> QED BY <1>1, <2>1, <2>2 DEF Same
<1> QED BY <1>2, <1>3

LEMMA ApplyKeeps ==
  ASSUME RegistryIInv, inspected = None, NEW c \in Live, applyObjectDefinitionModifiers(c)
  PROVE  RegistryIInv'
<1>1. /\ UNCHANGED <<assembly, parent, lc, defs, started, awaits, late, replaced>>
      /\ Live' = Live /\ Contexts' = Contexts
      /\ starts[c] = "begun"
      /\ \/ inspected' = c /\ starts' = starts
         \/ inspected' = None /\ starts' = [starts EXCEPT ![c] = "failed"]
      /\ \E D : Inspect(D)
  BY DEF applyObjectDefinitionModifiers, history, Live, Contexts
<1>2. /\ DOMAIN def' = DOMAIN def /\ def' = [d \in DOMAIN def' |-> def'[d]]
      /\ \A d \in DOMAIN def : IsDefinition(def'[d]) /\ Same(d)
  BY <1>1, InspectMoves
<1>3. /\ starts' \in [Contexts -> {"idle", "waiting", "begun", "failed", "done"}]
      /\ \A x \in Contexts : starts'[x] # starts[x] => starts'[x] = "failed" /\ starts[x] = "begun"
      /\ inspected' # None => starts'[inspected'] = "begun"
  BY <1>1 DEF RegistryIInv, RegistryTypeOK
<1>4. RegistryTypeOK'
  BY <1>1, <1>2, <1>3 DEF RegistryIInv, RegistryTypeOK
<1>5. Named' /\ Heard' /\ HeldRun' /\ RunningHeld'
  BY <1>1, <1>2, MapsUndisturbed
<1>6. Families' /\ StartsOrdered'
  <2>1. Live \subseteq Contexts /\ twin \in Contexts
    BY DEF RegistryIInv, RegistryTypeOK, Contexts
  <2> QED BY <1>1, <1>2, <1>3, <2>1 DEF RegistryIInv, Families, StartsOrdered
<1> QED BY <1>4, <1>5, <1>6 DEF RegistryIInv

LEMMA DoStartKeeps ==
  ASSUME RegistryIInv, inspected # None, doStart(inspected)
  PROVE  RegistryIInv'
<1> DEFINE c == inspected
<1>1. /\ UNCHANGED <<assembly, parent, defs, awaits, replaced>>
      /\ Live' = Live /\ Contexts' = Contexts
      /\ inspected' = None
      /\ \E D : Instantiate(D)
  BY DEF doStart, Live, Contexts
<1>2. /\ c \in Live /\ Live \subseteq Contexts /\ twin \in Contexts
      /\ starts[c] = "begun" /\ lc[c] = "STARTING"
  BY DEF RegistryIInv, RegistryTypeOK, StartsOrdered, Contexts
<1>3. PICK l \in {"FAILING", "STARTED"}, s \in {"failed", "done"} :
        lc' = [lc EXCEPT ![c] = l] /\ starts' = [starts EXCEPT ![c] = s]
  BY DEF doStart
<1> HIDE DEF c
<1>4. /\ lc' \in [Contexts -> Stoppable \cup Stops]
      /\ starts' \in [Contexts -> {"idle", "waiting", "begun", "failed", "done"}]
      /\ \A x \in Contexts : x # c => lc'[x] = lc[x] /\ starts'[x] = starts[x]
      /\ lc'[c] \in {"FAILING", "STARTED"} /\ starts'[c] \in {"failed", "done"}
  BY <1>2, <1>3 DEF RegistryIInv, RegistryTypeOK, Stoppable
<1>5. /\ DOMAIN def' = DOMAIN def /\ def' = [d \in DOMAIN def' |-> def'[d]]
      /\ \A d \in DOMAIN def : IsDefinition(def'[d])
  BY <1>1, InstantiateMoves
<1>6. started' = [x \in Contexts |-> started'[x]]
  BY <1>1 DEF Instantiate
<1>7. RegistryTypeOK'
  BY <1>1, <1>4, <1>5, <1>6 DEF RegistryIInv, RegistryTypeOK
<1>8. Named' /\ Heard' /\ HeldRun' /\ RunningHeld'
  BY <1>1, <1>2, <1>4, InstantiateKeeps DEF Stops
<1>9. Families'
  BY <1>1, <1>2, <1>4, <1>5 DEF RegistryIInv, Families
<1>10. StartsOrdered'
  <2>1. \A x \in Live : parent[x] # None => parent[x] \in Live
    BY DEF RegistryIInv, Families
  <2> QED BY <1>1, <1>2, <1>4, <2>1 DEF RegistryIInv, StartsOrdered
<1> QED BY <1>7, <1>8, <1>9, <1>10 DEF RegistryIInv

LEMMA GetKeeps ==
  ASSUME RegistryIInv, NEW D, Get(D)
  PROVE  RegistryIInv'
<1>1. /\ UNCHANGED <<assembly, parent, lc, starts, defs, inspected, awaits, replaced>>
      /\ Live' = Live /\ Contexts' = Contexts /\ Instantiate(D)
  BY DEF Get, Live, Contexts
<1>2. /\ DOMAIN def' = DOMAIN def /\ def' = [d \in DOMAIN def' |-> def'[d]]
      /\ \A d \in DOMAIN def : IsDefinition(def'[d])
  BY <1>1, InstantiateMoves
<1>3. started' = [x \in Contexts |-> started'[x]]
  BY <1>1 DEF Instantiate
<1>4. RegistryTypeOK' /\ Families' /\ StartsOrdered'
  BY <1>1, <1>2, <1>3 DEF RegistryIInv, RegistryTypeOK, Families, StartsOrdered
<1>5. Named' /\ Heard' /\ HeldRun' /\ RunningHeld'
  BY <1>1, InstantiateKeeps
<1> QED BY <1>4, <1>5 DEF RegistryIInv
-----------------------------------------------------------------------------
(* What is told to stop was running, and no other context minds.             *)
LEMMA ToldMoves ==
  ASSUME RegistryIInv, NEW c \in Live, NEW told, told = Values(started[c]),
         def' = [d \in DOMAIN def |-> IF d \in told THEN [def[d] EXCEPT !.status = "STOPPING"]
                                      ELSE def[d]]
  PROVE  /\ DOMAIN def' = DOMAIN def /\ def' = [d \in DOMAIN def' |-> def'[d]]
         /\ \A d \in DOMAIN def :
              /\ IsDefinition(def'[d])
              /\ def'[d].ctx = def[d].ctx /\ def'[d].hears = def[d].hears
              /\ def'[d].status \in Runs <=> def[d].status \in Runs
              /\ d \notin told => def'[d].status = def[d].status
<1>1. \A d \in told : def[d].status \in Runs
  BY DEF Values, RegistryIInv, HeldRun, RegistryTypeOK
<1>2. ASSUME NEW d \in DOMAIN def
      PROVE  /\ IsDefinition(def'[d])
             /\ def'[d].ctx = def[d].ctx /\ def'[d].hears = def[d].hears
             /\ def'[d].status \in Runs <=> def[d].status \in Runs
             /\ d \notin told => def'[d].status = def[d].status
  <2> DEFINE q == [def[d] EXCEPT !.status = "STOPPING"]
  <2>1. def'[d] = IF d \in told THEN q ELSE def[d]
    OBVIOUS
  <2>2. IsDefinition(def[d])
    BY DEF RegistryIInv, RegistryTypeOK
  <2>3. IsDefinition(q) /\ q.ctx = def[d].ctx /\ q.hears = def[d].hears /\ q.status = "STOPPING"
    BY <2>2 DEF IsDefinition
  <2> HIDE DEF q
  <2> QED BY <1>1, <2>1, <2>2, <2>3 DEF Runs
<1> QED BY <1>2

LEMMA StopBegins ==
  ASSUME RegistryIInv, NEW c \in Live, lc[c] \in Stoppable,
         def' = [d \in DOMAIN def |->
                   IF d \in Values(started[c]) THEN [def[d] EXCEPT !.status = "STOPPING"] ELSE def[d]],
         UNCHANGED <<assembly, parent, defs, started, late, replaced>>,
         lc'[c] = "STOPPING", Values(started[c]) \subseteq awaits'[c],
         \A x \in Live : x # c => awaits'[x] = awaits[x],
         \A x \in Live : x # c /\ lc'[x] # lc[x] =>
           /\ lc[x] = "STOPPING" /\ lc'[x] = "STOPPED"
           /\ \A d \in awaits[x] : d # Missing /\ def[d].status = "STOPPED"
  PROVE  Named' /\ Heard' /\ HeldRun' /\ RunningHeld'
<1> DEFINE told == Values(started[c])
<1>1. /\ DOMAIN def' = DOMAIN def
      /\ \A d \in DOMAIN def :
           /\ def'[d].ctx = def[d].ctx /\ def'[d].hears = def[d].hears
           /\ def'[d].status \in Runs <=> def[d].status \in Runs
  BY ToldMoves
<1>2. Live' = Live /\ Contexts' = Contexts
  BY DEF Live, Contexts
<1>3. Named' /\ Heard'
  BY <1>1, <1>2 DEF RegistryIInv, Named, Heard
<1>4. HeldRun'
  BY <1>1, <1>2 DEF RegistryIInv, HeldRun
<1>5. RunningHeld'
  <2> SUFFICES ASSUME NEW d \in DOMAIN def, NEW x \in Live,
                      def[d].ctx = x, def[d].status \in Runs, ~Excused(x, d)
               PROVE  /\ lc'[x] \notin Stops => NameOf(d) \in DOMAIN started[x] /\ started[x][NameOf(d)] = d
                      /\ lc'[x] = "STOPPING" => d \in awaits'[x]
                      /\ lc'[x] # "STOPPED"
    BY <1>1, <1>2 DEF RunningHeld, Excused
  <2>1. /\ lc[x] \notin Stops => NameOf(d) \in DOMAIN started[x] /\ started[x][NameOf(d)] = d
        /\ lc[x] = "STOPPING" => d \in awaits[x]
        /\ lc[x] # "STOPPED"
    BY DEF RegistryIInv, RunningHeld
  <2>2. CASE x = c
    <3>1. d \in Values(started[c])
      BY <2>1, <2>2 DEF Stoppable, Stops, Values
    <3> QED BY <2>2, <3>1 DEF Stops
  <2>3. CASE x # c
    BY <2>1, <2>3 DEF Stops, Runs
  <2> QED BY <2>2, <2>3
<1> QED BY <1>3, <1>4, <1>5

(* Statuses of contexts that only move towards the stop.                     *)
LEMMA StopsOrdered ==
  ASSUME RegistryIInv, UNCHANGED <<assembly, parent, starts, inspected, started, defs>>,
         DOMAIN def' = DOMAIN def, \A x \in Live : starts[x] # "begun",
         lc' \in [Contexts -> Stoppable \cup Stops],
         \A x \in Contexts : lc'[x] # lc[x] => x \in Live /\ lc'[x] \in Stops
  PROVE  Families' /\ StartsOrdered' /\ inspected' = None
<1>1. Live' = Live /\ Contexts' = Contexts /\ Live \subseteq Contexts /\ twin \in Contexts
  BY DEF Live, Contexts, RegistryIInv, RegistryTypeOK
<1>2. inspected = None
  BY DEF RegistryIInv, StartsOrdered, RegistryTypeOK
<1>3. Families'
  BY <1>1 DEF RegistryIInv, Families
<1>4. StartsOrdered'
  <2>1. \A x \in Live : parent[x] # None => parent[x] \in Live
    BY DEF RegistryIInv, Families
  <2> QED BY <1>1, <1>2, <2>1 DEF RegistryIInv, StartsOrdered, Stops
<1> QED BY <1>2, <1>3, <1>4

LEMMA LcStopKeeps ==
  ASSUME RegistryIInv, NEW c \in Live, \A x \in Live : starts[x] # "begun", lcStop(c)
  PROVE  RegistryIInv'
<1> DEFINE told == Values(started[c])
           others == IF {d \in told : def[d].status # "STARTED"} = {} THEN {} ELSE {Missing}
<1>1. /\ UNCHANGED <<assembly, parent, starts, defs, started, inspected, late, replaced>>
      /\ lc[c] \in Stoppable /\ lc' = [lc EXCEPT ![c] = "STOPPING"]
      /\ awaits' = [awaits EXCEPT ![c] = told \cup others]
      /\ def' = [d \in DOMAIN def |-> IF d \in told THEN [def[d] EXCEPT !.status = "STOPPING"]
                                      ELSE def[d]]
  BY DEF lcStop, BeginStop, contextMaps, history
<1> HIDE DEF others
<1>2. Live' = Live /\ Contexts' = Contexts /\ c \in Contexts /\ Live \subseteq Contexts
  BY <1>1 DEF Live, Contexts, RegistryIInv, RegistryTypeOK
<1>3. /\ awaits' = [x \in Contexts |-> awaits'[x]] /\ awaits'[c] = told \cup others
      /\ \A x \in Contexts : x # c => awaits'[x] = awaits[x]
  BY <1>1, <1>2 DEF RegistryIInv, RegistryTypeOK
<1>4. /\ lc' \in [Contexts -> Stoppable \cup Stops] /\ lc'[c] = "STOPPING"
      /\ \A x \in Contexts : x # c => lc'[x] = lc[x]
  BY <1>1, <1>2 DEF RegistryIInv, RegistryTypeOK, Stops
<1>5. /\ DOMAIN def' = DOMAIN def /\ def' = [d \in DOMAIN def' |-> def'[d]]
      /\ \A d \in DOMAIN def : IsDefinition(def'[d])
  BY <1>1, ToldMoves
<1>6. RegistryTypeOK'
  BY <1>1, <1>2, <1>3, <1>4, <1>5 DEF RegistryIInv, RegistryTypeOK
<1>7. Named' /\ Heard' /\ HeldRun' /\ RunningHeld'
  BY <1>1, <1>2, <1>3, <1>4, StopBegins
<1>8. Families' /\ StartsOrdered'
  BY <1>1, <1>2, <1>4, <1>5, StopsOrdered DEF Stops
<1> QED BY <1>6, <1>7, <1>8 DEF RegistryIInv

LEMMA ContextStoppedKeeps ==
  ASSUME RegistryIInv, NEW c \in Live, \A x \in Live : starts[x] # "begun", contextStopped(c)
  PROVE  RegistryIInv'
<1> DEFINE p == parent[c]
           told == Values(started[p])
           others == IF \A d \in told : def[d].status = "STARTED" THEN {} ELSE {Missing}
<1>1. /\ UNCHANGED <<assembly, parent, starts, defs, started, inspected, late, replaced>>
      /\ Live' = Live /\ Contexts' = Contexts
      /\ lc[c] = "STOPPING" /\ \A d \in awaits[c] : d # Missing /\ def[d].status = "STOPPED"
  BY DEF contextStopped, contextMaps, history, Live, Contexts
<1>2. c \in Contexts /\ Live \subseteq Contexts /\ (p # None => p \in Live)
  BY DEF RegistryIInv, RegistryTypeOK, Families
<1>3. CASE p # None /\ lc[p] \in Stoppable
  <2>1. /\ lc' = [lc EXCEPT ![c] = "STOPPED", ![p] = "STOPPING"]
        /\ awaits' = [awaits EXCEPT ![p] = told \cup others]
        /\ def' = [d \in DOMAIN def |-> IF d \in told THEN [def[d] EXCEPT !.status = "STOPPING"]
                                        ELSE def[d]]
    BY <1>3 DEF contextStopped
  <2> HIDE DEF p, told, others
  <2>2. p # c /\ p \in Live /\ p \in Contexts
    BY <1>1, <1>2, <1>3 DEF Stoppable
  <2>3. /\ lc' \in [Contexts -> Stoppable \cup Stops] /\ lc'[p] = "STOPPING" /\ lc'[c] = "STOPPED"
        /\ \A x \in Contexts : x \notin {p, c} => lc'[x] = lc[x]
    BY <1>2, <2>1, <2>2 DEF RegistryIInv, RegistryTypeOK, Stops
  <2>4. /\ awaits' = [x \in Contexts |-> awaits'[x]] /\ told \subseteq awaits'[p]
        /\ \A x \in Contexts : x # p => awaits'[x] = awaits[x]
    BY <2>1, <2>2 DEF RegistryIInv, RegistryTypeOK
  <2>5. /\ DOMAIN def' = DOMAIN def /\ def' = [d \in DOMAIN def' |-> def'[d]]
        /\ \A d \in DOMAIN def : IsDefinition(def'[d])
    BY <2>1, <2>2, ToldMoves DEF told
  <2>6. RegistryTypeOK'
    BY <1>1, <2>3, <2>4, <2>5 DEF RegistryIInv, RegistryTypeOK
  <2>7. Named' /\ Heard' /\ HeldRun' /\ RunningHeld'
    <3>1. told = Values(started[p]) /\ lc[p] \in Stoppable
      BY <1>3 DEF told
    <3>2. \A x \in Live : x # p /\ lc'[x] # lc[x] => x = c
      BY <1>2, <2>3
    <3> QED BY <1>1, <1>2, <2>1, <2>2, <2>3, <2>4, <3>1, <3>2, StopBegins
  <2>8. Families' /\ StartsOrdered'
    BY <1>1, <1>2, <2>2, <2>3, <2>5, StopsOrdered DEF Stops
  <2> QED BY <2>6, <2>7, <2>8 DEF RegistryIInv
<1>4. CASE ~(p # None /\ lc[p] \in Stoppable)
  <2>1. lc' = [lc EXCEPT ![c] = "STOPPED"] /\ UNCHANGED <<awaits, def>>
    BY <1>4 DEF contextStopped
  <2>2. /\ lc' \in [Contexts -> Stoppable \cup Stops] /\ lc'[c] = "STOPPED"
        /\ \A x \in Contexts : x # c => lc'[x] = lc[x]
    BY <1>2, <2>1 DEF RegistryIInv, RegistryTypeOK, Stops
  <2>3. RegistryTypeOK'
    BY <1>1, <2>1, <2>2 DEF RegistryIInv, RegistryTypeOK
  <2>4. Named' /\ Heard' /\ HeldRun'
    BY <1>1, <2>1 DEF RegistryIInv, Named, Heard, HeldRun
  <2>5. RunningHeld'
    <3> SUFFICES ASSUME NEW d \in DOMAIN def, NEW x \in Live,
                        def[d].ctx = x, def[d].status \in Runs, ~Excused(x, d)
                 PROVE  /\ lc'[x] \notin Stops => NameOf(d) \in DOMAIN started[x] /\ started[x][NameOf(d)] = d
                        /\ lc'[x] = "STOPPING" => d \in awaits[x]
                        /\ lc'[x] # "STOPPED"
      BY <1>1, <2>1 DEF RunningHeld, Excused
    <3>1. /\ lc[x] \notin Stops => NameOf(d) \in DOMAIN started[x] /\ started[x][NameOf(d)] = d
          /\ lc[x] = "STOPPING" => d \in awaits[x]
          /\ lc[x] # "STOPPED"
      BY DEF RegistryIInv, RunningHeld
    <3>2. x # c
      BY <1>1, <3>1 DEF Runs
    <3> QED BY <1>2, <2>2, <3>1, <3>2
  <2>6. Families' /\ StartsOrdered'
    BY <1>1, <1>2, <2>1, <2>2, StopsOrdered DEF Stops
  <2> QED BY <2>3, <2>4, <2>5, <2>6 DEF RegistryIInv
<1> QED BY <1>3, <1>4

(* The object that has stopped leaves startedObjects everywhere, and takes   *)
(* with it only what has its name.                                           *)
LEMMA ObjectStoppedKeeps ==
  ASSUME RegistryIInv, NEW d \in DOMAIN def, objectStopped(d)
  PROVE  RegistryIInv'
<1>1. /\ UNCHANGED <<assembly, parent, lc, starts, defs, inspected, awaits, late, replaced>>
      /\ Live' = Live /\ Contexts' = Contexts
  BY DEF objectStopped, contextMaps, history, Live, Contexts
<1>2. /\ DOMAIN def' = DOMAIN def /\ def' = [e \in DOMAIN def' |-> def'[e]]
      /\ \A e \in DOMAIN def : e # d => def'[e] = def[e]
      /\ IsDefinition(def'[d]) /\ def'[d].status = "STOPPED"
      /\ def'[d].ctx = def[d].ctx /\ def'[d].hears = def[d].hears
  <2> DEFINE q == [def[d] EXCEPT !.status = "STOPPED"]
  <2>1. def' = [def EXCEPT ![d] = q]
    BY DEF objectStopped
  <2>2. IsDefinition(def[d]) /\ def = [e \in DOMAIN def |-> def[e]]
    BY DEF RegistryIInv, RegistryTypeOK
  <2>3. IsDefinition(q) /\ q.status = "STOPPED" /\ q.ctx = def[d].ctx /\ q.hears = def[d].hears
    BY <2>2 DEF IsDefinition
  <2> HIDE DEF q
  <2> QED BY <2>1, <2>2, <2>3
<1>3. /\ started' = [c \in Contexts |-> started'[c]]
      /\ \A c \in Contexts : \A n :
           n \in DOMAIN started'[c] <=> n \in DOMAIN started[c] /\ ~(c \in def[d].hears /\ n = NameOf(d))
      /\ \A c \in Contexts : \A n \in DOMAIN started'[c] : started'[c][n] = started[c][n]
  <2>1. started' = [c \in Contexts |->
          IF c \in def[d].hears
          THEN [n \in DOMAIN started[c] \ {NameOf(d)} |-> started[c][n]] ELSE started[c]]
    BY DEF objectStopped
  <2>2. ASSUME NEW c \in Contexts
        PROVE  /\ \A n : n \in DOMAIN started'[c] <=>
                           n \in DOMAIN started[c] /\ ~(c \in def[d].hears /\ n = NameOf(d))
               /\ \A n \in DOMAIN started'[c] : started'[c][n] = started[c][n]
    <3>1. CASE c \in def[d].hears
      BY <2>1, <3>1
    <3>2. CASE c \notin def[d].hears
      BY <2>1, <3>2
    <3> QED BY <3>1, <3>2
  <2> QED BY <2>1, <2>2
<1>4. RegistryTypeOK' /\ Families' /\ StartsOrdered'
  <2>1. \A e \in DOMAIN def : IsDefinition(def'[e])
    BY <1>2 DEF RegistryIInv, RegistryTypeOK
  <2> QED BY <1>1, <1>2, <1>3, <2>1 DEF RegistryIInv, RegistryTypeOK, Families, StartsOrdered
<1>5. \A e \in DOMAIN def : def'[e].ctx = def[e].ctx /\ def'[e].hears = def[e].hears
  BY <1>2
<1>6. Named' /\ Heard'
  BY <1>1, <1>2, <1>5 DEF RegistryIInv, Named, Heard
<1>7. HeldRun'
  <2> SUFFICES ASSUME NEW c \in Contexts, NEW n \in DOMAIN started'[c]
               PROVE  /\ started[c][n] \in DOMAIN def /\ NameOf(started[c][n]) = n
                      /\ c \in def'[started[c][n]].hears /\ def'[started[c][n]].status \in Runs
    BY <1>1, <1>2, <1>3 DEF HeldRun
  <2>1. /\ started[c][n] \in DOMAIN def /\ NameOf(started[c][n]) = n
        /\ c \in def[started[c][n]].hears /\ def[started[c][n]].status \in Runs
    BY <1>3 DEF RegistryIInv, HeldRun
  <2>2. started[c][n] # d
    BY <1>3, <2>1
  <2> QED BY <1>2, <2>1, <2>2
<1>8. RunningHeld'
  <2> SUFFICES ASSUME NEW e \in DOMAIN def, NEW c \in Live,
                      def'[e].ctx = c, def'[e].status \in Runs, ~Excused(c, e)
               PROVE  /\ lc[c] \notin Stops => NameOf(e) \in DOMAIN started'[c] /\ started'[c][NameOf(e)] = e
                      /\ lc[c] = "STOPPING" => e \in awaits[c]
                      /\ lc[c] # "STOPPED"
    BY <1>1, <1>2 DEF RunningHeld, Excused
  <2>1. e # d /\ def'[e] = def[e] /\ c \in Contexts /\ c # None
    BY <1>2, RegistryAssumption DEF Runs, RegistryIInv, RegistryTypeOK, Contexts
  <2>2. /\ lc[c] \notin Stops => NameOf(e) \in DOMAIN started[c] /\ started[c][NameOf(e)] = e
        /\ lc[c] = "STOPPING" => e \in awaits[c]
        /\ lc[c] # "STOPPED"
    BY <2>1 DEF RegistryIInv, RunningHeld
  <2>3. c \in def[e].hears /\ <<c, NameOf(e)>> \notin replaced
    BY <2>1 DEF RegistryIInv, Heard, Excused
  <2>4. ~(c \in def[d].hears /\ NameOf(e) = NameOf(d))
    BY <2>1, <2>3, HeardOnce DEF RegistryIInv
  <2> QED BY <1>3, <2>1, <2>2, <2>4
<1> QED BY <1>4, <1>6, <1>7, <1>8 DEF RegistryIInv
-----------------------------------------------------------------------------
(* clone() adds a context with copies: nothing that exists changes.          *)
LEMMA CloneKeeps ==
  ASSUME RegistryIInv, NEW c \in Live, clone(c)
  PROVE  RegistryIInv'
<1> DEFINE copies == [e \in {copyOf(d) : d \in Own(c)} |->
                        LET d == CHOOSE x \in Own(c) : copyOf(x) = e
                        IN [NewDefinition(d[1]) EXCEPT !.ctx = twin, !.hears = {twin},
                              !.lazy = def[d].lazy, !.params = def[d].params]]
           own == ContextDefinition(twin)
           new == {copyOf(d) : d \in Own(c)} \cup {own}
<1>1. /\ UNCHANGED <<assembly, lc, starts, started, inspected, awaits, late, replaced>>
      /\ twin \notin Live
      /\ parent' = [x \in Live \cup {twin} |-> parent[IF x = twin THEN c ELSE x]]
      /\ defs' = [defs EXCEPT ![twin] = ByName(new)]
      /\ def' = Over(copies, Over(def, [d \in {own} |-> NewContextDefinition(twin)]))
  BY DEF clone, history
<1>2. /\ Live' = Live \cup {twin} /\ Contexts' = Contexts /\ twin \in Contexts
      /\ \A x \in Live : parent'[x] = parent[x]
      /\ parent'[twin] = parent[c] /\ twin # None
  BY <1>1, RegistryAssumption DEF Live, Contexts
<1>3. \A d \in DOMAIN def : d[2] # twin
  BY <1>1 DEF RegistryIInv, Families
<1>4. /\ \A e \in new : e[2] = twin
      /\ \A e \in new : e \notin DOMAIN def
      /\ \A d, e \in new : NameOf(d) = NameOf(e) => d = e
  <2>1. \A d \in Own(c) : /\ NameOf(copyOf(d)) = NameOf(d) /\ NameOf(d) # "__CONTEXT__"
                          /\ copyOf(d)[2] = twin
    BY DEF copyOf, NameOf, Own
  <2>2. \A d, e \in Own(c) : NameOf(d) = NameOf(e) => d = e
    BY DEF Own, Values, RegistryIInv, Named, RegistryTypeOK
  <2>3. NameOf(own) = "__CONTEXT__" /\ own[2] = twin
    BY DEF NameOf, ContextDefinition
  <2> QED BY <1>3, <2>1, <2>2, <2>3
<1>5. /\ DOMAIN def' = DOMAIN def \cup new
      /\ def' = [d \in DOMAIN def' |-> def'[d]]
      /\ \A d \in DOMAIN def : def'[d] = def[d]
      /\ \A e \in new : /\ IsDefinition(def'[e]) /\ def'[e].status = "NOT_STARTED"
                        /\ def'[e].ctx = twin /\ def'[e].hears = {twin}
  <2> DEFINE f == [d \in {own} |-> NewContextDefinition(twin)]
  <2>1. /\ DOMAIN copies = {copyOf(d) : d \in Own(c)}
        /\ DOMAIN f = {own} /\ f[own] = NewContextDefinition(twin)
    OBVIOUS
  <2>2. LET r == NewContextDefinition(twin)
        IN IsDefinition(r) /\ r.status = "NOT_STARTED" /\ r.ctx = twin /\ r.hears = {twin}
    BY DEF NewContextDefinition, IsDefinition
  <2>3. ASSUME NEW e \in DOMAIN copies
        PROVE  /\ IsDefinition(copies[e]) /\ copies[e].status = "NOT_STARTED"
               /\ copies[e].ctx = twin /\ copies[e].hears = {twin}
    <3> DEFINE d == CHOOSE x \in Own(c) : copyOf(x) = e
               lazy == def[d].lazy
               params == def[d].params
               r == NewDefinition(d[1])
               q == [r EXCEPT !.ctx = twin, !.hears = {twin}, !.lazy = lazy, !.params = params]
    <3>1. copies[e] = q
      BY <2>3
    <3>2. IsDefinition(r) /\ r.status = "NOT_STARTED"
      <4> HIDE DEF d
      <4> QED BY DEF NewDefinition, IsDefinition
    <3>3. /\ IsDefinition(q) /\ q.status = "NOT_STARTED"
          /\ q.ctx = twin /\ q.hears = {twin}
      <4> HIDE DEF r, lazy, params
      <4> QED BY <3>2 DEF IsDefinition
    <3> HIDE DEF q, copies
    <3> QED BY <3>1, <3>3
  <2>4. def' = Over(copies, Over(def, f))
    BY <1>1
  <2> HIDE DEF copies, f
  <2> QED BY <1>4, <2>1, <2>2, <2>3, <2>4 DEF Over
<1>6. /\ defs' = [x \in Contexts |-> defs'[x]]
      /\ \A x \in Contexts : x # twin => defs'[x] = defs[x]
      /\ DOMAIN defs'[twin] = {NameOf(d) : d \in new}
      /\ \A d \in new : defs'[twin][NameOf(d)] = d
  <2> HIDE DEF new
  <2>1. DOMAIN ByName(new) = {NameOf(d) : d \in new} /\ \A d \in new : ByName(new)[NameOf(d)] = d
    BY <1>4 DEF ByName
  <2> QED BY <1>1, <1>2, <2>1 DEF RegistryIInv, RegistryTypeOK
<1> HIDE DEF new, copies
<1>7. RegistryTypeOK'
  <2>1. \A d \in DOMAIN def' : IsDefinition(def'[d])
    BY <1>5 DEF RegistryIInv, RegistryTypeOK
  <2> QED BY <1>1, <1>2, <1>5, <1>6, <2>1 DEF RegistryIInv, RegistryTypeOK
<1>8. Families'
  <2>1. \A x \in Live : parent[x] # None => parent[x] \in Live /\ parent[parent[x]] = None
    BY DEF RegistryIInv, Families
  <2> QED BY <1>2, <2>1 DEF Families
<1>9. Named'
  <2>1. \A x \in Contexts : \A n \in DOMAIN defs'[x] :
          defs'[x][n] \in DOMAIN def' /\ NameOf(defs'[x][n]) = n
    BY <1>5, <1>6 DEF RegistryIInv, Named
  <2> QED BY <1>1, <1>2, <1>5, <2>1 DEF RegistryIInv, Named
<1>10. Heard'
  <2> SUFFICES ASSUME NEW d \in DOMAIN def'
               PROVE  /\ def'[d].ctx # None => def'[d].ctx \in def'[d].hears
                      /\ \A x \in def'[d].hears :
                           /\ x \in Live' /\ NameOf(d) \in DOMAIN defs'[x]
                           /\ defs'[x][NameOf(d)] = d \/ <<x, NameOf(d)>> \in replaced
    BY <1>1 DEF Heard
  <2>1. CASE d \in new
    BY <1>2, <1>5, <1>6, <2>1
  <2>2. CASE d \in DOMAIN def
    <3>1. /\ def[d].ctx # None => def[d].ctx \in def[d].hears
          /\ \A x \in def[d].hears :
               /\ x \in Live /\ NameOf(d) \in DOMAIN defs[x]
               /\ defs[x][NameOf(d)] = d \/ <<x, NameOf(d)>> \in replaced
      BY <2>2 DEF RegistryIInv, Heard
    <3>2. \A x \in Live : x \in Contexts /\ x # twin
      BY <1>1 DEF RegistryIInv, RegistryTypeOK
    <3> QED BY <1>2, <1>5, <1>6, <2>2, <3>1, <3>2
  <2> QED BY <1>5, <2>1, <2>2
<1>11. HeldRun'
  BY <1>1, <1>2, <1>5 DEF RegistryIInv, HeldRun
<1>12. RunningHeld'
  <2> SUFFICES ASSUME NEW d \in DOMAIN def', NEW x \in Live',
                      def'[d].ctx = x, def'[d].status \in Runs, ~Excused(x, d)
               PROVE  /\ lc[x] \notin Stops => NameOf(d) \in DOMAIN started[x] /\ started[x][NameOf(d)] = d
                      /\ lc[x] = "STOPPING" => d \in awaits[x]
                      /\ lc[x] # "STOPPED"
    BY <1>1 DEF RunningHeld, Excused
  <2>1. d \in DOMAIN def /\ def'[d] = def[d]
    BY <1>5 DEF Runs
  <2>2. x # None
    BY <1>2, RegistryAssumption DEF RegistryIInv, RegistryTypeOK, Contexts
  <2>3. x \in Live
    BY <2>1, <2>2 DEF RegistryIInv, Heard
  <2> QED BY <2>1, <2>3 DEF RegistryIInv, RunningHeld
<1>13. StartsOrdered'
  <2>1. lc[twin] = "NOT_STARTED" /\ starts[twin] = "idle"
    BY <1>1 DEF RegistryIInv, Families
  <2>2. /\ inspected # None => starts[inspected] = "begun"
        /\ \A x \in Live :
             /\ starts[x] = "begun" => lc[x] = "STARTING"
             /\ starts[x] = "done" => lc[x] # "NOT_STARTED"
             /\ lc[x] \in {"STARTING", "FAILING", "STARTED"} /\ parent[x] # None
                  => lc[parent[x]] # "NOT_STARTED"
    BY DEF RegistryIInv, StartsOrdered
  <2> QED BY <1>1, <1>2, <2>1, <2>2 DEF StartsOrdered
<1> QED BY <1>7, <1>8, <1>9, <1>10, <1>11, <1>12, <1>13 DEF RegistryIInv

LEMMA RegisterKeeps ==
  ASSUME RegistryIInv, NEW c \in Live, NEW b \in assembly.blueprints, NEW overwrite,
         registerDefinition(c, <<b, "new">>, overwrite)
  PROVE  RegistryIInv'
<1>1. <<b, "new">> \in DOMAIN def
  BY DEF RegistryIInv, Named
<1> DEFINE D == {<<b, "new">>}
<1>2. /\ Enter(c, D) /\ UNCHANGED <<contextMaps, lc, started, inspected, awaits, late>>
      /\ D \in SUBSET DOMAIN def /\ \A d, e \in D : NameOf(d) = NameOf(e) => d = e
  BY <1>1 DEF registerDefinition
<1> HIDE DEF D
<1> QED BY <1>2, EnterKeeps

LEMMA ImportKeeps ==
  ASSUME RegistryIInv, NEW c \in Live, NEW other \in Live, NEW overwrite,
         importContext(c, other, overwrite)
  PROVE  RegistryIInv'
<1>1. /\ Own(other) \subseteq DOMAIN def
      /\ \A d, e \in Own(other) : NameOf(d) = NameOf(e) => d = e
  BY DEF Own, Values, RegistryIInv, Named, RegistryTypeOK
<1>2. PICK D \in SUBSET Own(other) : Enter(c, D)
  BY DEF importContext
<1>3. UNCHANGED <<contextMaps, lc, started, inspected, awaits, late>>
  BY DEF importContext
<1>4. D \in SUBSET DOMAIN def /\ \A d, e \in D : NameOf(d) = NameOf(e) => d = e
  BY <1>1
<1> QED BY <1>2, <1>3, <1>4, EnterKeeps
-----------------------------------------------------------------------------
LEMMA RegistryStepPreserves ==
  ASSUME RegistryIInv, [RegistryNext]_registryVars
  PROVE  RegistryIInv'
<1>1. CASE UNCHANGED registryVars
  <2>1. /\ UNCHANGED <<assembly, parent, lc, starts, defs, started, inspected, def, awaits, late, replaced>>
        /\ Live' = Live /\ Contexts' = Contexts
    BY <1>1 DEF registryVars, Live, Contexts
  <2>2. RegistryTypeOK' /\ Families' /\ StartsOrdered'
    BY <2>1 DEF RegistryIInv, RegistryTypeOK, Families, StartsOrdered
  <2>3. Named' /\ Heard' /\ HeldRun' /\ RunningHeld'
    BY <2>1, MapsUndisturbed DEF Same
  <2> QED BY <2>2, <2>3 DEF RegistryIInv
<1>2. CASE RegistryNext
  <2>1. CASE inspected # None /\ doStart(inspected)
    BY <2>1, DoStartKeeps
  <2>2. CASE inspected = None /\ \E c \in Live : applyObjectDefinitionModifiers(c)
    BY <2>2, ApplyKeeps
  <2>3. ASSUME NEW c \in Live, \A x \in Live : starts[x] # "begun",
               lcStart(c) \/ superLcStart(c) \/ lcStop(c) \/ contextStopped(c)
        PROVE  RegistryIInv'
    BY <2>3, StartKeeps, LcStopKeeps, ContextStoppedKeeps
  <2>4. ASSUME NEW c \in Live, clone(c)
        PROVE  RegistryIInv'
    BY <2>4, CloneKeeps
  <2>5. ASSUME NEW c \in Live, NEW o \in Live, NEW overwrite \in BOOLEAN,
               importContext(c, o, overwrite)
        PROVE  RegistryIInv'
    BY <2>5, ImportKeeps
  <2>6. ASSUME NEW c \in Live, NEW b \in assembly.blueprints, NEW overwrite \in BOOLEAN,
               registerDefinition(c, <<b, "new">>, overwrite)
        PROVE  RegistryIInv'
    BY <2>6, RegisterKeeps
  <2>7. ASSUME NEW c, NEW n,
               \/ getObjectByName(c, n) \/ getObjectByType(c, n)
               \/ getObjectsByType(c, n) \/ getObjectsByGroup(c, n)
        PROVE  RegistryIInv'
    <3>1. \E D : Get(D)
      BY <2>7 DEF getObjectByName, getObjectByType, getObjectsByType, getObjectsByGroup
    <3> QED BY <3>1, GetKeeps
  <2>8. ASSUME NEW d \in DOMAIN def, objectStopped(d)
        PROVE  RegistryIInv'
    BY <2>8, ObjectStoppedKeeps
  <2> QED BY <1>2, <2>1, <2>2, <2>3, <2>4, <2>5, <2>6, <2>7, <2>8 DEF RegistryNext
<1> QED BY <1>1, <1>2

LEMMA RegistryInductive == RegistryInit /\ [][RegistryNext]_registryVars => []RegistryIInv
BY RegistryInitImplies, RegistryStepPreserves, PTL

(* A stopped context leaves nothing of its own started or stopping, but what *)
(* was asked for after the stop and what lost its name to another: whatever  *)
(* was registered, imported or copied before, however many contexts listen   *)
(* to a definition, in whichever order they stop (doStop(), startedObjects). *)
THEOREM NothingIsLeftRunning ==
  RegistryInit /\ [][RegistryNext]_registryVars => []NothingLeftRunning
<1>1. RegistryIInv => NothingLeftRunning
  <2> SUFFICES ASSUME RegistryIInv, NEW c \in Live, lc[c] = "STOPPED", NEW d \in Values(defs[c]),
                      def[d].ctx = c, def[d].status \in {"STARTED", "STOPPING"}
               PROVE  d \in late \/ <<c, NameOf(d)>> \in replaced
    BY DEF NothingLeftRunning
  <2>1. d \in DOMAIN def
    BY DEF Values, RegistryIInv, Named, RegistryTypeOK
  <2> QED BY <2>1 DEF RegistryIInv, RunningHeld, Runs, Excused
<1> QED BY <1>1, RegistryInductive, PTL

(* Definitions enter only a context that has not been told to start.         *)
LEMMA MapsFixed ==
  ASSUME RegistryIInv, [RegistryNext]_registryVars, NEW c \in Live
  PROVE  /\ c \in Live' /\ parent'[c] = parent[c]
         /\ lc[c] # "NOT_STARTED" => defs'[c] = defs[c]
<1>1. c \in Contexts /\ Live = DOMAIN parent /\ Live' = DOMAIN parent'
  BY DEF RegistryIInv, RegistryTypeOK, Live
<1>2. \A x, D : Enter(x, D) => \A y \in Contexts : y # x => defs'[y] = defs[y]
  <2>1. defs = [x \in Contexts |-> defs[x]]
    BY DEF RegistryIInv, RegistryTypeOK
  <2> QED BY <2>1 DEF Enter
<1>3. ASSUME NEW x, NEW D, Enter(x, D), lc[x] = "NOT_STARTED", UNCHANGED contextMaps
      PROVE  /\ c \in Live' /\ parent'[c] = parent[c]
             /\ lc[c] # "NOT_STARTED" => defs'[c] = defs[c]
  BY <1>1, <1>2, <1>3 DEF contextMaps
<1>4. ASSUME NEW x \in Live, clone(x)
      PROVE  /\ c \in Live' /\ parent'[c] = parent[c]
             /\ lc[c] # "NOT_STARTED" => defs'[c] = defs[c]
  <2>1. /\ twin \notin Live
        /\ parent' = [y \in Live \cup {twin} |-> parent[IF y = twin THEN x ELSE y]]
        /\ \E f : defs' = [defs EXCEPT ![twin] = f]
    BY <1>4 DEF clone
  <2> QED BY <1>1, <2>1 DEF RegistryIInv, RegistryTypeOK
<1>5. \/ UNCHANGED <<parent, defs>>
      \/ \E x \in Live : clone(x)
      \/ \E x, D : Enter(x, D) /\ lc[x] = "NOT_STARTED" /\ UNCHANGED contextMaps
  <2>1. CASE UNCHANGED registryVars
    BY <2>1 DEF registryVars
  <2>2. CASE inspected # None /\ doStart(inspected)
    BY <2>2 DEF doStart
  <2>3. ASSUME NEW x, applyObjectDefinitionModifiers(x) \/ lcStart(x) \/ superLcStart(x)
        PROVE  UNCHANGED <<parent, defs>>
    BY <2>3 DEF applyObjectDefinitionModifiers, lcStart, superLcStart
  <2>4. ASSUME NEW x, lcStop(x) \/ contextStopped(x) \/ objectStopped(x)
        PROVE  UNCHANGED <<parent, defs>>
    BY <2>4 DEF lcStop, contextStopped, objectStopped, contextMaps
  <2>5. ASSUME NEW x, NEW o, NEW overwrite, importContext(x, o, overwrite)
        PROVE  \E D : Enter(x, D) /\ lc[x] = "NOT_STARTED" /\ UNCHANGED contextMaps
    BY <2>5 DEF importContext
  <2>6. ASSUME NEW x, NEW b, NEW overwrite, registerDefinition(x, <<b, "new">>, overwrite)
        PROVE  \E D : Enter(x, D) /\ lc[x] = "NOT_STARTED" /\ UNCHANGED contextMaps
    BY <2>6 DEF registerDefinition
  <2>7. ASSUME NEW x, NEW n,
               \/ getObjectByName(x, n) \/ getObjectByType(x, n)
               \/ getObjectsByType(x, n) \/ getObjectsByGroup(x, n)
        PROVE  UNCHANGED <<parent, defs>>
    BY <2>7 DEF getObjectByName, getObjectByType, getObjectsByType, getObjectsByGroup, Get
  <2> QED BY <2>1, <2>2, <2>3, <2>4, <2>5, <2>6, <2>7 DEF RegistryNext
<1> QED BY <1>1, <1>3, <1>4, <1>5

(* What a started context resolves never changes again: the parent has been  *)
(* told to start before, and no call of any context or of its parent adds to *)
(* either (lcStart(), registerDefinition()).                                 *)
THEOREM LookupsAreFixed == RegistryInit /\ [][RegistryNext]_registryVars => LookupsFixed
<1>1. ASSUME RegistryIInv, [RegistryNext]_registryVars
      PROVE  [\A c \in Live : lc[c] = "STARTED" => Visible'[c] = Visible[c]]_registryVars
  <2> SUFFICES ASSUME NEW c \in Live, lc[c] = "STARTED"
               PROVE  Visible'[c] = Visible[c]
    OBVIOUS
  <2>1. c \in Live' /\ parent'[c] = parent[c] /\ defs'[c] = defs[c]
    BY <1>1, MapsFixed
  <2>2. parent[c] # None => parent[c] \in Live /\ lc[parent[c]] # "NOT_STARTED"
    BY <1>1 DEF RegistryIInv, Families, StartsOrdered
  <2>3. parent[c] # None => defs'[parent[c]] = defs[parent[c]]
    BY <1>1, <2>2, MapsFixed
  <2> QED BY <2>1, <2>3 DEF Visible, Over
<1> QED BY <1>1, RegistryInductive, PTL DEF LookupsFixed
-----------------------------------------------------------------------------
(* Groups.  A parameter belongs to the blueprint, or to one definition.      *)
ParamIds == assembly.blueprints \X {"new", twin, "written"} \X Nat
GroupedNames == {Blueprint[b].name : b \in assembly.blueprints}

Parameterised(d) ==
  /\ d = <<d[1], d[2]>>
  /\ NameOf(d) # "__CONTEXT__" => d[1] \in assembly.blueprints /\ d[2] \in {"new", twin}
  /\ def[d].params \in Seq(ParamIds)
  /\ \A i \in DOMAIN def[d].params :
       \/ def[d].params[i][2] = "written"
       \/ def[d].params[i][1] = d[1] /\ def[d].params[i][2] = d[2]

(* What is resolved was a parameter of something that no longer waits.       *)
ResolvedFor(p) ==
  p[2] # "written" => <<p[1], p[2]>> \in DOMAIN def /\ def[<<p[1], p[2]>>].status # "NOT_STARTED"

Owned ==
  /\ \A d \in DOMAIN def : Parameterised(d)
  /\ \A p \in DOMAIN resolved : ResolvedFor(p)

(* Without importContext() a definition has one context, and the decorators  *)
(* are read once the context is told to start.                               *)
Unshared ==
  "import" \notin assembly.may =>
    \A c \in Live : \A d \in Own(c) :
      /\ def[d].ctx = c
      /\ lc[c] = "NOT_STARTED" => \A i \in DOMAIN def[d].params : def[d].params[i][2] = "written"

GroupsNamed ==
  \A c \in Contexts : \A g \in DOMAIN groups[c] : groups[c][g] \in Seq(GroupedNames)

(* The objects of a context in which the decorators have been read: a member *)
(* is in its group, and who gets the group has the parameter, then the       *)
(* member.                                                                   *)
Read(c) == starts[c] = "done" \/ inspected = c
GroupsKnown ==
  \A c \in Live : Read(c) =>
    \A d, e \in Own(c) : def[d].ctx = c /\ Wires(d, e) =>
      /\ NameOf(e) \in Values(getGroupObjectNames(c, Blueprint[e[1]].group))
      /\ def[d].status = "NOT_STARTED" =>
           \E i \in DOMAIN def[d].params : /\ def[d].params[i][1] = d[1]
                                           /\ def[d].params[i][2] = d[2]
      /\ def[d].status = "STARTED" => e \in def[d].injected

GroupIInv == Owned /\ Unshared /\ GroupsNamed /\ GroupsKnown

LEMMA OwnDefined ==
  ASSUME RegistryIInv, NEW c \in Contexts, NEW d \in Own(c)
  PROVE  d \in DOMAIN def /\ NameOf(d) \in DOMAIN defs[c] /\ defs[c][NameOf(d)] = d
         /\ NameOf(d) # "__CONTEXT__"
BY DEF Own, Values, RegistryIInv, Named

LEMMA GroupInitImplies == RegistryInit => GroupIInv
<1> SUFFICES ASSUME RegistryInit
             PROVE  GroupIInv
  OBVIOUS
<1>1. /\ assembly \in Assemblies /\ DOMAIN resolved = {} /\ inspected = None
      /\ \A c \in Contexts : DOMAIN groups[c] = {} /\ starts[c] = "idle"
  BY DEF RegistryInit
<1>2. /\ DOMAIN def = ({"__CONTEXT__"} \X Live) \cup (assembly.blueprints \X {"new"})
      /\ \A d \in DOMAIN def :
           def[d] = IF d \in {"__CONTEXT__"} \X Live THEN NewContextDefinition(d[2])
                    ELSE NewDefinition(d[1])
  <2> DEFINE f == [d \in {"__CONTEXT__"} \X Live |-> NewContextDefinition(d[2])]
             g == [d \in assembly.blueprints \X {"new"} |-> NewDefinition(d[1])]
  <2>1. def = Over(f, g)
    BY DEF RegistryInit
  <2>2. /\ DOMAIN f = {"__CONTEXT__"} \X Live /\ DOMAIN g = assembly.blueprints \X {"new"}
        /\ \A d \in {"__CONTEXT__"} \X Live : f[d] = NewContextDefinition(d[2])
        /\ \A d \in assembly.blueprints \X {"new"} : g[d] = NewDefinition(d[1])
    OBVIOUS
  <2> HIDE DEF f, g
  <2> QED BY <2>1, <2>2 DEF Over
<1>3. \A b \in assembly.blueprints :
        /\ Written(b) \in Seq(ParamIds)
        /\ \A i \in DOMAIN Written(b) : Written(b)[i][2] = "written"
  <2> TAKE b \in assembly.blueprints
  <2> DEFINE n == Len(Blueprint[b].params)
  <2>1. n \in Nat /\ DOMAIN Blueprint[b].params = 1..n
    BY <1>1, RegistryAssumption
  <2> HIDE DEF n
  <2>2. Written(b) = [i \in 1..n |-> <<b, "written", i>>]
    BY <2>1 DEF Written
  <2>3. \A i \in 1..n : <<b, "written", i>> \in ParamIds
    BY <2>1 DEF ParamIds
  <2>4. Written(b) \in Seq(ParamIds)
    <3> HIDE DEF ParamIds
    <3>1. [i \in 1..n |-> <<b, "written", i>>] \in [1..n -> ParamIds]
      BY <2>3
    <3> QED BY <2>1, <2>2, <3>1, SeqDef
  <2> QED BY <2>2, <2>4
<1>4. Owned
  <2> SUFFICES ASSUME NEW d \in DOMAIN def
               PROVE  Parameterised(d)
    BY <1>1 DEF Owned
  <2>1. CASE d \in {"__CONTEXT__"} \X Live
    <3>1. NameOf(d) = "__CONTEXT__" /\ d = <<d[1], d[2]>>
      BY <2>1 DEF NameOf
    <3>2. def[d].params = <<>>
      <4>1. def[d] = NewContextDefinition(d[2])
        BY <1>2, <2>1
      <4> QED BY <4>1 DEF NewContextDefinition
    <3> QED BY <3>1, <3>2 DEF Parameterised
  <2>2. CASE d \notin {"__CONTEXT__"} \X Live
    <3>1. d = <<d[1], d[2]>> /\ d[1] \in assembly.blueprints /\ d[2] = "new"
      BY <1>2, <2>2
    <3>2. def[d].params = Written(d[1])
      <4>1. def[d] = NewDefinition(d[1])
        BY <1>2, <2>2
      <4> QED BY <4>1 DEF NewDefinition
    <3> QED BY <1>3, <3>1, <3>2 DEF Parameterised
  <2> QED BY <2>1, <2>2
<1>5. \A c \in Live : Own(c) = {}
  <2>1. \A c \in Live : defs[c] = [n \in {"__CONTEXT__"} |-> ContextDefinition(c)]
    BY RegistryAssumption DEF RegistryInit, Live, Contexts
  <2> QED BY <2>1 DEF Own, Values, ContextDefinition, NameOf
<1>6. Unshared /\ GroupsNamed /\ GroupsKnown
  BY <1>1, <1>5 DEF Unshared, GroupsNamed, GroupsKnown
<1> QED BY <1>4, <1>6 DEF GroupIInv

(* What the invariant speaks of is not touched: a start, a stop.             *)
Waits(d) == def[d].status = "NOT_STARTED"
SameObject(d) ==
  /\ def'[d].ctx = def[d].ctx /\ def'[d].params = def[d].params
  /\ Waits(d)' <=> Waits(d)
  /\ def'[d].status = "STARTED" => def[d].status = "STARTED" /\ def'[d].injected = def[d].injected

LEMMA GroupsUndisturbed ==
  ASSUME RegistryIInv, GroupIInv, UNCHANGED <<assembly, parent, defs, groups, resolved>>,
         DOMAIN def' = DOMAIN def, \A d \in DOMAIN def : SameObject(d),
         \A c \in Live : /\ lc'[c] = "NOT_STARTED" => lc[c] = "NOT_STARTED"
                         /\ Read(c)' => Read(c)
  PROVE  GroupIInv'
<1>1. /\ Live' = Live /\ Contexts' = Contexts /\ ParamIds' = ParamIds
      /\ GroupedNames' = GroupedNames /\ \A c : Own(c)' = Own(c)
      /\ \A c, g : getGroupObjectNames(c, g)' = getGroupObjectNames(c, g)
  BY DEF Live, Contexts, ParamIds, GroupedNames, Own, getGroupObjectNames
<1>2. \A c \in Live : \A d \in Own(c) : d \in DOMAIN def
  BY OwnDefined DEF RegistryIInv, RegistryTypeOK
<1>3. Owned'
  <2>1. \A d \in DOMAIN def : Parameterised(d)'
    BY <1>1 DEF GroupIInv, Owned, Parameterised, SameObject
  <2>2. \A p \in DOMAIN resolved : ResolvedFor(p)'
    BY DEF GroupIInv, Owned, ResolvedFor, SameObject, Waits
  <2> QED BY <2>1, <2>2 DEF Owned
<1>4. Unshared'
  BY <1>1, <1>2 DEF GroupIInv, Unshared, SameObject
<1>5. GroupsNamed'
  BY <1>1 DEF GroupIInv, GroupsNamed
<1>6. GroupsKnown'
  <2> SUFFICES ASSUME NEW c \in Live, Read(c)', NEW d \in Own(c), NEW e \in Own(c),
                      def'[d].ctx = c, Wires(d, e)'
               PROVE  /\ NameOf(e) \in Values(getGroupObjectNames(c, Blueprint[e[1]].group))
                      /\ Waits(d) => \E i \in DOMAIN def[d].params : /\ def[d].params[i][1] = d[1]
                                                                     /\ def[d].params[i][2] = d[2]
                      /\ def'[d].status = "STARTED" => e \in def'[d].injected
    BY <1>1, <1>2 DEF GroupsKnown, SameObject, Waits
  <2>1. def[d].ctx = c /\ Wires(d, e)
    BY <1>2 DEF Wires, SameObject
  <2> QED BY <1>2, <2>1 DEF GroupIInv, GroupsKnown, SameObject, Waits
<1> QED BY <1>3, <1>4, <1>5, <1>6 DEF GroupIInv

LEMMA StartsUndisturbed ==
  ASSUME RegistryIInv, GroupIInv, NEW c \in Live, lcStart(c) \/ superLcStart(c)
  PROVE  GroupIInv'
<1>1. /\ UNCHANGED <<assembly, parent, defs, groups, resolved, def, inspected>>
      /\ \A d \in DOMAIN def : SameObject(d)
  BY DEF lcStart, superLcStart, SameObject, Waits
<1>2. /\ Live \subseteq Contexts /\ lc \in [Contexts -> Stoppable \cup Stops]
      /\ starts \in [Contexts -> {"idle", "waiting", "begun", "failed", "done"}]
  BY DEF RegistryIInv, RegistryTypeOK
<1>3. \/ lc' = lc /\ \E s \in {"failed"} : starts' = [starts EXCEPT ![c] = s]
      \/ \E x : /\ lc' = [lc EXCEPT ![x] = "STARTING"]
                /\ \/ starts' = [starts EXCEPT ![c] = "waiting", ![x] = "begun"]
                   \/ starts' = [starts EXCEPT ![x] = "begun"]
  BY DEF lcStart, superLcStart
<1>4. \A x \in Live : /\ lc'[x] = "NOT_STARTED" => lc[x] = "NOT_STARTED"
                      /\ starts'[x] = "done" => starts[x] = "done"
  BY <1>2, <1>3
<1> QED BY <1>1, <1>4, GroupsUndisturbed DEF Read

(* What is told to stop has been running.                                    *)
LEMMA StopsUndisturbed ==
  ASSUME RegistryIInv, GroupIInv, NEW told, NEW s \in {"STOPPING", "STOPPED"},
         \A d \in told \cap DOMAIN def : def[d].status \in Runs,
         def' = [d \in DOMAIN def |-> IF d \in told THEN [def[d] EXCEPT !.status = s] ELSE def[d]],
         UNCHANGED <<assembly, parent, defs, groups, resolved, starts, inspected>>,
         \A c \in Live : lc'[c] = lc[c] \/ lc'[c] \in Stops
  PROVE  GroupIInv'
<1>1. DOMAIN def' = DOMAIN def
  OBVIOUS
<1>2. ASSUME NEW d \in DOMAIN def
      PROVE  SameObject(d)
  <2> DEFINE q == [def[d] EXCEPT !.status = s]
  <2>1. def'[d] = IF d \in told THEN q ELSE def[d]
    OBVIOUS
  <2>2. IsDefinition(def[d])
    BY DEF RegistryIInv, RegistryTypeOK
  <2>3. q.ctx = def[d].ctx /\ q.params = def[d].params /\ q.status = s
    BY <2>2 DEF IsDefinition
  <2> HIDE DEF q
  <2> QED BY <2>1, <2>3 DEF SameObject, Waits, Runs
<1>3. \A c \in Live : /\ lc'[c] = "NOT_STARTED" => lc[c] = "NOT_STARTED"
                      /\ Read(c)' => Read(c)
  BY DEF Stops, Read
<1> QED BY <1>1, <1>2, <1>3, GroupsUndisturbed

LEMMA StoppingUndisturbed ==
  ASSUME RegistryIInv, GroupIInv, NEW c,
         \/ c \in Live /\ (lcStop(c) \/ contextStopped(c))
         \/ c \in DOMAIN def /\ objectStopped(c)
  PROVE  GroupIInv'
<1>1. \A x \in Contexts : \A d \in Values(started[x]) : def[d].status \in Runs
  BY DEF Values, RegistryIInv, HeldRun
<1>2. /\ UNCHANGED <<assembly, parent, defs, groups, resolved, starts, inspected>>
      /\ \A x \in Live : lc'[x] = lc[x] \/ lc'[x] \in Stops
  <2>1. lc \in [Contexts -> Stoppable \cup Stops] /\ Live \subseteq Contexts
    BY DEF RegistryIInv, RegistryTypeOK
  <2>2. CASE c \in Live /\ lcStop(c)
    BY <2>1, <2>2 DEF lcStop, BeginStop, contextMaps, Stops
  <2>3. CASE c \in Live /\ contextStopped(c)
    BY <2>1, <2>3 DEF contextStopped, contextMaps, Stops
  <2>4. CASE objectStopped(c)
    BY <2>4 DEF objectStopped, contextMaps
  <2> QED BY <2>2, <2>3, <2>4
<1>3. ASSUME NEW x \in Live, 
             def' = [d \in DOMAIN def |-> IF d \in Values(started[x])
                                          THEN [def[d] EXCEPT !.status = "STOPPING"] ELSE def[d]]
      PROVE  GroupIInv'
  <2> DEFINE told == Values(started[x])
  <2>1. \A d \in told : def[d].status \in Runs
    BY <1>1 DEF RegistryIInv, RegistryTypeOK
  <2>2. def' = [d \in DOMAIN def |-> IF d \in told THEN [def[d] EXCEPT !.status = "STOPPING"] ELSE def[d]]
    BY <1>3
  <2> HIDE DEF told
  <2> QED BY <1>2, <2>1, <2>2, StopsUndisturbed
<1>4. CASE c \in Live /\ lcStop(c)
  BY <1>3, <1>4 DEF lcStop, BeginStop
<1>5. CASE c \in Live /\ contextStopped(c)
  <2>1. CASE parent[c] # None /\ lc[parent[c]] \in Stoppable
    <3>1. parent[c] \in Live
      BY <1>5, <2>1 DEF RegistryIInv, Families
    <3> QED BY <1>3, <1>5, <2>1, <3>1 DEF contextStopped
  <2>2. CASE ~(parent[c] # None /\ lc[parent[c]] \in Stoppable)
    <3>1. def' = def /\ \A d \in DOMAIN def : SameObject(d)
      BY <1>5, <2>2 DEF contextStopped, SameObject, Waits
    <3> QED BY <1>2, <3>1, GroupsUndisturbed DEF Read, Stops
  <2> QED BY <2>1, <2>2
<1>6. CASE c \in DOMAIN def /\ objectStopped(c)
  <2> DEFINE told == {c}
  <2>1. def[c].status = "STOPPING" /\ def' = [def EXCEPT ![c].status = "STOPPED"]
    BY <1>6 DEF objectStopped
  <2>2. def' = [d \in DOMAIN def |-> IF d \in told THEN [def[d] EXCEPT !.status = "STOPPED"] ELSE def[d]]
    BY <1>6, <2>1 DEF RegistryIInv, RegistryTypeOK
  <2>3. \A d \in told : def[d].status \in Runs
    BY <2>1 DEF Runs
  <2> HIDE DEF told
  <2> QED BY <1>2, <2>2, <2>3, StopsUndisturbed
<1> QED BY <1>4, <1>5, <1>6

(* getInstance() gives an object its groups: the parameter is resolved for   *)
(* it alone, in its context, from the names and what they stand for there.   *)
LEMMA GroupGiven ==
  ASSUME RegistryIInv, GroupIInv, NEW c \in Live, Read(c), NEW d \in Own(c), NEW e \in Own(c),
         def[d].ctx = c, Wires(d, e), Waits(d), ResolvedParams(d) = DOMAIN def[d].params
  PROVE  e \in Given(d)
<1> DEFINE g == Blueprint[e[1]].group
           names == getGroupObjectNames(c, g)
<1>1. /\ c \in Contexts /\ d \in DOMAIN def /\ NameOf(d) # "__CONTEXT__"
      /\ NameOf(e) \in DOMAIN defs[c] /\ defs[c][NameOf(e)] = e
  BY OwnDefined DEF RegistryIInv, RegistryTypeOK
<1>2. PICK k \in DOMAIN names : names[k] = NameOf(e)
  BY DEF GroupIInv, GroupsKnown, Values
<1>3. PICK i \in DOMAIN def[d].params : def[d].params[i][1] = d[1] /\ def[d].params[i][2] = d[2]
  BY DEF GroupIInv, GroupsKnown, Waits
<1> DEFINE p == def[d].params[i]
<1>4. d = <<d[1], d[2]>> /\ d[2] # "written" /\ p[1] = d[1] /\ p[2] = d[2]
  BY <1>1, <1>3, RegistryAssumption DEF GroupIInv, Owned, Parameterised
<1>5. p \notin DOMAIN resolved
  BY <1>1, <1>4 DEF GroupIInv, Owned, ResolvedFor, Waits
<1>6. ParamAt(p).type = "group" /\ ParamAt(p).target = g
  BY <1>4 DEF ParamAt, Wires
<1>7. Visible[c][NameOf(e)] = e /\ NameOf(e) \in DOMAIN Visible[c]
  BY <1>1 DEF Visible, Over
<1>8. e \in Values(getDefinitionsByGroup(c, g))
  <2>1. getDefinitionsByGroup(c, g) = [j \in DOMAIN names |-> getDefinitionByName(c, names[j])]
    BY DEF getDefinitionsByGroup
  <2>2. getDefinitionByName(c, NameOf(e)) = e
    BY <1>7 DEF getDefinitionByName
  <2> QED BY <1>2, <2>1, <2>2 DEF Values
<1>9. Targets(d, i) = Values(getDefinitionsByGroup(c, g))
  <2>1. Targets(d, i) = resolveParamObjectDefinition(p, c)
    BY DEF Targets
  <2> HIDE DEF p, g
  <2> QED BY <1>5, <1>6, <2>1 DEF resolveParamObjectDefinition
<1> QED BY <1>3, <1>8, <1>9 DEF Given

LEMMA InstantiateGives ==
  ASSUME RegistryIInv, NEW D, Instantiate(D)
  PROVE  /\ DOMAIN def' = DOMAIN def
         /\ \A d \in DOMAIN def :
              /\ def'[d].ctx = def[d].ctx /\ def'[d].params = def[d].params
              /\ \/ def'[d] = def[d]
                 \/ /\ Waits(d) /\ ~Waits(d)'
                    /\ def'[d].status = "STARTED" =>
                         /\ ResolvedParams(d) = DOMAIN def[d].params
                         /\ def'[d].injected = Given(d)
         /\ \A p \in DOMAIN resolved' :
              \/ p \in DOMAIN resolved
              \/ \E d \in DOMAIN def : /\ ~Waits(d)'
                                       /\ \E i \in DOMAIN def[d].params : p = def[d].params[i]
<1>1. PICK fresh \in {Fresh(D)} :
        def' = [d \in DOMAIN def |->
                  IF d \notin fresh THEN def[d]
                  ELSE [def[d] EXCEPT !.status = IF Rejects(d) THEN "BROKEN" ELSE "STARTED",
                                      !.injected = Given(d)]]
  BY DEF Instantiate
<1>2. \A d \in fresh : Waits(d)
  BY DEF Fresh, Waits
<1>3. \A d : Waits(d) /\ ~Rejects(d) => ResolvedParams(d) = DOMAIN def[d].params
  <2>1. \A d : d \in Reached({d})
    BY DEF Reached
  <2> QED BY <2>1 DEF Rejects, Waits
<1>4. ASSUME NEW d \in DOMAIN def
      PROVE  /\ def'[d].ctx = def[d].ctx /\ def'[d].params = def[d].params
             /\ \/ def'[d] = def[d]
                \/ /\ Waits(d) /\ ~Waits(d)'
                   /\ def'[d].status = "STARTED" =>
                        /\ ResolvedParams(d) = DOMAIN def[d].params
                        /\ def'[d].injected = Given(d)
  <2> DEFINE s == IF Rejects(d) THEN "BROKEN" ELSE "STARTED"
             given == Given(d)
             q == [def[d] EXCEPT !.status = s, !.injected = given]
  <2>1. def'[d] = IF d \notin fresh THEN def[d] ELSE q
    BY <1>1
  <2>2. s \in {"BROKEN", "STARTED"} /\ (s = "STARTED" => ~Rejects(d))
    OBVIOUS
  <2>3. IsDefinition(def[d])
    BY DEF RegistryIInv, RegistryTypeOK
  <2> HIDE DEF s
  <2>4. q.ctx = def[d].ctx /\ q.params = def[d].params /\ q.status = s /\ q.injected = given
    <3> HIDE DEF given
    <3> QED BY <2>3 DEF IsDefinition
  <2> HIDE DEF q
  <2>5. CASE d \notin fresh
    BY <2>1, <2>5
  <2>6. CASE d \in fresh
    BY <1>2, <1>3, <2>1, <2>2, <2>4, <2>6 DEF Waits
  <2> QED BY <2>5, <2>6
<1>5. ASSUME NEW p \in DOMAIN resolved', p \notin DOMAIN resolved
      PROVE  \E d \in DOMAIN def : /\ ~Waits(d)'
                                   /\ \E i \in DOMAIN def[d].params : p = def[d].params[i]
  <2>1. PICK params \in {{x \in Settled \X (1..3) : x[2] \in ResolvedParams(x[1])}} :
          resolved' = Over([q \in {def[x[1]].params[x[2]] : x \in params} |->
                              LET x == CHOOSE y \in params : def[y[1]].params[y[2]] = q
                              IN Targets(x[1], x[2])], resolved)
    BY DEF Instantiate
  <2>2. PICK x \in params : p = def[x[1]].params[x[2]]
    <3> DEFINE S == {def[x[1]].params[x[2]] : x \in params}
               f == [q \in S |-> LET x == CHOOSE y \in params : def[y[1]].params[y[2]] = q
                                IN Targets(x[1], x[2])]
    <3>1. resolved' = Over(f, resolved) /\ DOMAIN f = S
      BY <2>1
    <3> HIDE DEF f, S
    <3>2. p \in S
      BY <1>5, <3>1 DEF Over
    <3> QED BY <3>2 DEF S
  <2>3. x[1] \in Settled /\ x[2] \in ResolvedParams(x[1])
    <3>1. params = {y \in Settled \X (1..3) : y[2] \in ResolvedParams(y[1])}
      BY <2>1
    <3> QED BY <2>2, <3>1
  <2>4. x[1] \in DOMAIN def /\ ~Waits(x[1])' /\ x[2] \in DOMAIN def[x[1]].params
    BY <2>3 DEF Settled, ResolvedParams, Waits
  <2> QED BY <2>2, <2>4
<1> QED BY <1>1, <1>4, <1>5

LEMMA InstantiateKeepsGroups ==
  ASSUME RegistryIInv, GroupIInv, NEW D, Instantiate(D), UNCHANGED <<assembly, parent, defs, groups>>,
         \A c \in Live : /\ lc'[c] = "NOT_STARTED" => lc[c] = "NOT_STARTED"
                         /\ Read(c)' => Read(c)
  PROVE  GroupIInv'
<1>1. /\ Live' = Live /\ Contexts' = Contexts /\ ParamIds' = ParamIds
      /\ GroupedNames' = GroupedNames /\ \A c : Own(c)' = Own(c)
      /\ \A c, g : getGroupObjectNames(c, g)' = getGroupObjectNames(c, g)
  BY DEF Live, Contexts, ParamIds, GroupedNames, Own, getGroupObjectNames
<1>2. \A c \in Live : \A d \in Own(c) : d \in DOMAIN def
  BY OwnDefined DEF RegistryIInv, RegistryTypeOK
<1>3. /\ DOMAIN def' = DOMAIN def
      /\ \A d \in DOMAIN def :
           /\ def'[d].ctx = def[d].ctx /\ def'[d].params = def[d].params
           /\ \/ def'[d] = def[d]
              \/ /\ Waits(d) /\ ~Waits(d)'
                 /\ def'[d].status = "STARTED" =>
                      /\ ResolvedParams(d) = DOMAIN def[d].params
                      /\ def'[d].injected = Given(d)
      /\ \A p \in DOMAIN resolved' :
           \/ p \in DOMAIN resolved
           \/ \E d \in DOMAIN def : /\ ~Waits(d)'
                                    /\ \E i \in DOMAIN def[d].params : p = def[d].params[i]
  BY InstantiateGives
<1>4. Owned'
  <2>1. \A d \in DOMAIN def : Parameterised(d)'
    BY <1>1, <1>3 DEF GroupIInv, Owned, Parameterised
  <2>2. ASSUME NEW p \in DOMAIN resolved'
        PROVE  ResolvedFor(p)'
    <3>1. CASE p \in DOMAIN resolved
      <4>1. ResolvedFor(p)
        BY <3>1 DEF GroupIInv, Owned
      <4> QED BY <1>3, <4>1 DEF ResolvedFor, Waits
    <3>2. CASE p \notin DOMAIN resolved
      <4>1. PICK d \in DOMAIN def : /\ ~Waits(d)'
                                    /\ \E i \in DOMAIN def[d].params : p = def[d].params[i]
        BY <1>3, <3>2
      <4>2. PICK i \in DOMAIN def[d].params : p = def[d].params[i]
        BY <4>1
      <4>3. Parameterised(d)
        BY DEF GroupIInv, Owned
      <4>4. SUFFICES ASSUME p[2] # "written"
                     PROVE  <<p[1], p[2]>> = d
        BY <1>3, <4>1 DEF ResolvedFor, Waits
      <4>5. p[1] = d[1] /\ p[2] = d[2]
        BY <4>2, <4>3, <4>4 DEF Parameterised
      <4>6. def[d].params \in Seq(ParamIds) /\ p \in ParamIds
        BY <4>2, <4>3, ElementOfSeq DEF Parameterised
      <4>7. d = <<d[1], d[2]>>
        BY <4>3 DEF Parameterised
      <4> QED BY <4>5, <4>7
    <3> QED BY <3>1, <3>2
  <2> QED BY <1>3, <2>1, <2>2 DEF Owned
<1>5. Unshared' /\ GroupsNamed'
  BY <1>1, <1>2, <1>3 DEF GroupIInv, Unshared, GroupsNamed
<1>6. GroupsKnown'
  <2> SUFFICES ASSUME NEW c \in Live, Read(c)', NEW d \in Own(c), NEW e \in Own(c),
                      def'[d].ctx = c, Wires(d, e)'
               PROVE  /\ NameOf(e) \in Values(getGroupObjectNames(c, Blueprint[e[1]].group))
                      /\ Waits(d)' => \E i \in DOMAIN def[d].params : /\ def[d].params[i][1] = d[1]
                                                                      /\ def[d].params[i][2] = d[2]
                      /\ def'[d].status = "STARTED" => e \in def'[d].injected
    BY <1>1, <1>2, <1>3 DEF GroupsKnown, Waits
  <2>1. def[d].ctx = c /\ Wires(d, e) /\ Read(c)
    BY <1>2, <1>3 DEF Wires
  <2>2. /\ NameOf(e) \in Values(getGroupObjectNames(c, Blueprint[e[1]].group))
        /\ Waits(d) => \E i \in DOMAIN def[d].params : /\ def[d].params[i][1] = d[1]
                                                       /\ def[d].params[i][2] = d[2]
        /\ def[d].status = "STARTED" => e \in def[d].injected
    BY <2>1 DEF GroupIInv, GroupsKnown, Waits
  <2>3. ASSUME def'[d].status = "STARTED", def'[d] # def[d]
        PROVE  e \in def'[d].injected
    BY <1>2, <1>3, <2>1, <2>3, GroupGiven
  <2> QED BY <1>2, <1>3, <2>2, <2>3 DEF Waits
<1> QED BY <1>4, <1>5, <1>6 DEF GroupIInv

LEMMA GetKeepsGroups == ASSUME RegistryIInv, GroupIInv, NEW D, Get(D) PROVE GroupIInv'
  BY InstantiateKeepsGroups DEF Get, Read

LEMMA DoStartKeepsGroups ==
  ASSUME RegistryIInv, GroupIInv, inspected # None, doStart(inspected)
  PROVE  GroupIInv'
<1> DEFINE c == inspected
<1>1. c \in Contexts /\ starts[c] = "begun" /\ lc[c] = "STARTING" /\ Live \subseteq Contexts
  BY DEF RegistryIInv, RegistryTypeOK, StartsOrdered
<1>2. PICK l \in {"FAILING", "STARTED"}, s \in {"failed", "done"} :
        lc' = [lc EXCEPT ![c] = l] /\ starts' = [starts EXCEPT ![c] = s]
  BY DEF doStart
<1>3. /\ lc \in [Contexts -> Stoppable \cup Stops]
      /\ starts \in [Contexts -> {"idle", "waiting", "begun", "failed", "done"}]
  BY DEF RegistryIInv, RegistryTypeOK
<1>4. inspected' = None /\ None \notin Live
  BY RegistryAssumption DEF doStart, RegistryIInv, RegistryTypeOK, Contexts
<1>5. \A x \in Live : /\ lc'[x] = "NOT_STARTED" => lc[x] = "NOT_STARTED"
                      /\ Read(x)' => Read(x)
  BY <1>1, <1>2, <1>3, <1>4 DEF Read
<1>6. /\ \E E : Instantiate(E)
      /\ UNCHANGED <<assembly, parent, defs, groups>>
  BY DEF doStart
<1> QED BY <1>5, <1>6, InstantiateKeepsGroups
-----------------------------------------------------------------------------
(* The names that join a group are listed in some order.                     *)
LEMMA NamesListed ==
  ASSUME RegistryIInv, NEW S \in SUBSET GroupedNames
  PROVE  LET s == CHOOSE t \in [1..Cardinality(S) -> S] : Values(t) = S
         IN s \in Seq(GroupedNames) /\ Values(s) = S
<1> DEFINE B == assembly.blueprints
<1>1. IsFiniteSet(B)
  BY RegistryAssumption DEF RegistryIInv, RegistryTypeOK
<1>2. [b \in B |-> Blueprint[b].name] \in Surjection(B, GroupedNames)
  BY DEF Surjection, GroupedNames
<1>3. IsFiniteSet(GroupedNames)
  BY <1>1, <1>2, FS_Surjection
<1>4. IsFiniteSet(S)
  BY <1>3, FS_Subset
<1> DEFINE n == Cardinality(S)
<1>5. n \in Nat /\ ExistsBijection(1..n, S)
  BY <1>4, FS_CardinalityType
<1> HIDE DEF n
<1>6. \E t \in [1..n -> S] : Values(t) = S
  BY <1>5 DEF ExistsBijection, Bijection, Surjection, Values
<1> DEFINE s == CHOOSE t \in [1..n -> S] : Values(t) = S
<1>7. s \in [1..n -> S] /\ Values(s) = S
  BY <1>6
<1> HIDE DEF s
<1>8. s \in [1..n -> GroupedNames]
  BY <1>7
<1>9. s \in Seq(GroupedNames)
  BY <1>5, <1>8, SeqDef
<1> QED BY <1>7, <1>9 DEF s, n

LEMMA InspectGroups ==
  ASSUME RegistryIInv, GroupIInv, NEW D, D \subseteq DOMAIN def,
         \A d \in D : NameOf(d) # "__CONTEXT__", Inspect(D), UNCHANGED assembly
  PROVE  /\ GroupsNamed'
         /\ \A c \in Contexts : \A g :
              Values(getGroupObjectNames(c, g)) \subseteq Values(getGroupObjectNames(c, g)')
         /\ \A c \in Contexts : \A e \in D :
              def[e].ctx = c /\ Blueprint[e[1]].group # "nothing" =>
                NameOf(e) \in Values(getGroupObjectNames(c, Blueprint[e[1]].group)')
<1>1. \A e \in D : NameOf(e) = Blueprint[e[1]].name /\ NameOf(e) \in GroupedNames
  BY DEF GroupIInv, Owned, Parameterised, GroupedNames, NameOf
<1> DEFINE joins(c) == {d \in D : def[d].ctx = c /\ Blueprint[d[1]].group # "nothing"}
           new(c, g) == {NameOf(d) : d \in {e \in joins(c) : Blueprint[e[1]].group = g}}
           listed(c, g) == CHOOSE s \in [1..Cardinality(new(c, g)) -> new(c, g)] :
                             Values(s) = new(c, g)
           more(c) == [g \in {Blueprint[d[1]].group : d \in joins(c)} |->
                         getGroupObjectNames(c, g) \o listed(c, g)]
<1>2. groups' = [c \in Contexts |-> Over(more(c), groups[c])]
  BY DEF Inspect
<1>3. ASSUME NEW c, NEW g
      PROVE  listed(c, g) \in Seq(GroupedNames) /\ Values(listed(c, g)) = new(c, g)
  <2>1. new(c, g) \in SUBSET GroupedNames
    BY <1>1
  <2> HIDE DEF new
  <2> QED BY <2>1, NamesListed
<1>4. \A c \in Contexts : \A g : getGroupObjectNames(c, g) \in Seq(GroupedNames)
  BY DEF getGroupObjectNames, GroupIInv, GroupsNamed
<1> HIDE DEF listed
<1>5. ASSUME NEW c \in Contexts, NEW g
      PROVE  /\ getGroupObjectNames(c, g)' \in Seq(GroupedNames)
             /\ Values(getGroupObjectNames(c, g)) \subseteq Values(getGroupObjectNames(c, g)')
             /\ new(c, g) \subseteq Values(getGroupObjectNames(c, g)')
  <2> DEFINE old == getGroupObjectNames(c, g)
             names == listed(c, g)
             G == {Blueprint[d[1]].group : d \in joins(c)}
             m == more(c)
  <2>1. groups'[c] = Over(m, groups[c]) /\ DOMAIN m = G /\ (g \in G => m[g] = old \o names)
    BY <1>2
  <2>2. new(c, g) # {} => g \in G
    OBVIOUS
  <2>3. /\ old \in Seq(GroupedNames) /\ names \in Seq(GroupedNames)
        /\ Values(names) = new(c, g)
    BY <1>3, <1>4
  <2> HIDE DEF m, G, new, names
  <2>4. getGroupObjectNames(c, g)' = IF g \in G THEN old \o names ELSE old
    BY <2>1 DEF getGroupObjectNames, Over
  <2> HIDE DEF old
  <2>5. /\ old \o names \in Seq(GroupedNames)
        /\ Values(old) \subseteq Values(old \o names) /\ Values(names) \subseteq Values(old \o names)
    <3> HIDE DEF joins
    <3>1. /\ old \o names \in Seq(GroupedNames) /\ Len(old \o names) = Len(old) + Len(names)
          /\ \A i \in 1..Len(old) : (old \o names)[i] = old[i]
          /\ \A i \in 1..Len(names) : (old \o names)[Len(old) + i] = names[i]
      BY <2>3
    <3>2. /\ DOMAIN old = 1..Len(old) /\ DOMAIN names = 1..Len(names)
          /\ DOMAIN (old \o names) = 1..(Len(old) + Len(names))
          /\ Len(old) \in Nat /\ Len(names) \in Nat
      BY <2>3, <3>1
    <3>3. \A i \in 1..Len(names) : Len(old) + i \in 1..(Len(old) + Len(names))
      BY <3>2
    <3>4. \A i \in DOMAIN old : old[i] \in Values(old \o names)
      <4>1. \A i \in DOMAIN old : i \in DOMAIN (old \o names) /\ old[i] = (old \o names)[i]
        BY <3>1, <3>2
      <4> QED BY <4>1 DEF Values
    <3>5. \A i \in DOMAIN names : names[i] \in Values(old \o names)
      <4>1. \A i \in DOMAIN names : /\ Len(old) + i \in DOMAIN (old \o names)
                                    /\ names[i] = (old \o names)[Len(old) + i]
        BY <3>1, <3>2, <3>3
      <4> QED BY <4>1 DEF Values
    <3> QED BY <3>1, <3>4, <3>5 DEF Values
  <2>6. CASE g \in G
    BY <2>3, <2>4, <2>5, <2>6 DEF old
  <2>7. CASE g \notin G
    BY <2>2, <2>3, <2>4, <2>7 DEF old
  <2> QED BY <2>6, <2>7
<1>6. GroupsNamed'
  <2>1. Contexts' = Contexts /\ GroupedNames' = GroupedNames
    BY DEF Contexts, GroupedNames
  <2>2. \A c \in Contexts : \A g \in DOMAIN groups'[c] :
          getGroupObjectNames(c, g)' = groups'[c][g]
    BY DEF getGroupObjectNames
  <2> HIDE DEF new
  <2> QED BY <1>5, <2>1, <2>2 DEF GroupsNamed
<1>7. \A c \in Contexts : \A e \in D :
        def[e].ctx = c /\ Blueprint[e[1]].group # "nothing" =>
          NameOf(e) \in new(c, Blueprint[e[1]].group)
  OBVIOUS
<1> HIDE DEF new
<1> QED BY <1>5, <1>6, <1>7

LEMMA InspectAdds ==
  ASSUME RegistryIInv, GroupIInv, NEW D, D \subseteq DOMAIN def,
         \A d \in D : NameOf(d) # "__CONTEXT__", Inspect(D), UNCHANGED assembly
  PROVE  /\ DOMAIN def' = DOMAIN def
         /\ \A d \in DOMAIN def :
              /\ def'[d].ctx = def[d].ctx /\ def'[d].status = def[d].status
              /\ def'[d].injected = def[d].injected
              /\ d \notin D => def'[d].params = def[d].params
              /\ Parameterised(d)'
              /\ \A i \in DOMAIN def[d].params :
                   i \in DOMAIN def'[d].params /\ def'[d].params[i] = def[d].params[i]
              /\ d \in D /\ Blueprint[d[1]].wired.type # "nothing" =>
                   \E i \in DOMAIN def'[d].params : /\ def'[d].params[i][1] = d[1]
                                                    /\ def'[d].params[i][2] = d[2]
<1> DEFINE more(d) == IF Blueprint[d[1]].wired.type = "nothing" THEN <<>>
                      ELSE <<<<d[1], d[2], Len(def[d].params)>>>>
<1>1. def' = [d \in DOMAIN def |->
                IF d \notin D THEN def[d]
                ELSE [def[d] EXCEPT !.lazy = Blueprint[d[1]].lazy, !.params = @ \o more(d)]]
  BY DEF Inspect
<1> HIDE DEF more
<1>2. ParamIds' = ParamIds
  BY DEF ParamIds
<1> SUFFICES ASSUME NEW d \in DOMAIN def
             PROVE  /\ def'[d].ctx = def[d].ctx /\ def'[d].status = def[d].status
                    /\ def'[d].injected = def[d].injected
                    /\ d \notin D => def'[d].params = def[d].params
                    /\ Parameterised(d)'
                    /\ \A i \in DOMAIN def[d].params :
                         i \in DOMAIN def'[d].params /\ def'[d].params[i] = def[d].params[i]
                    /\ d \in D /\ Blueprint[d[1]].wired.type # "nothing" =>
                         \E i \in DOMAIN def'[d].params : /\ def'[d].params[i][1] = d[1]
                                                          /\ def'[d].params[i][2] = d[2]
  BY <1>1
<1>3. Parameterised(d)
  BY DEF GroupIInv, Owned
<1>4. CASE d \notin D
  <2>1. def'[d] = def[d]
    BY <1>1, <1>4
  <2> QED BY <1>2, <1>3, <1>4, <2>1 DEF Parameterised
<1>5. CASE d \in D
  <2> DEFINE lazy == Blueprint[d[1]].lazy
             old == def[d].params
             add == more(d)
             params == old \o add
             q == [def[d] EXCEPT !.lazy = lazy, !.params = params]
  <2>1. def'[d] = q
    BY <1>1, <1>5
  <2>2. /\ q.ctx = def[d].ctx /\ q.status = def[d].status
        /\ q.injected = def[d].injected /\ q.params = params
    <3> HIDE DEF lazy, params
    <3>1. IsDefinition(def[d])
      BY DEF RegistryIInv, RegistryTypeOK
    <3> QED BY <3>1 DEF IsDefinition
  <2> HIDE DEF q
  <2>3. /\ old \in Seq(ParamIds) /\ d = <<d[1], d[2]>> /\ d[1] \in assembly.blueprints
        /\ d[2] \in {"new", twin}
    BY <1>3, <1>5 DEF Parameterised
  <2>4. CASE Blueprint[d[1]].wired.type = "nothing"
    <3>1. params = old
      BY <2>3, <2>4 DEF more
    <3> QED BY <1>2, <1>3, <1>5, <2>1, <2>2, <2>4, <3>1 DEF Parameterised
  <2>5. CASE Blueprint[d[1]].wired.type # "nothing"
    <3> DEFINE p == <<d[1], d[2], Len(old)>>
    <3>1. add = <<p>>
      BY <2>5 DEF more
    <3>2. p \in ParamIds /\ p[1] = d[1] /\ p[2] = d[2]
      BY <2>3, LenProperties DEF ParamIds
    <3> HIDE DEF p, add
    <3>3. /\ params \in Seq(ParamIds) /\ DOMAIN params = 1..(Len(old) + 1)
          /\ params[Len(old) + 1] = p /\ Len(old) \in Nat /\ DOMAIN old = 1..Len(old)
          /\ \A i \in DOMAIN old : params[i] = old[i]
      <4> HIDE DEF old
      <4> QED BY <2>3, <3>1, <3>2
    <3>4. \A i \in DOMAIN old : i \in DOMAIN params
      BY <3>3
    <3>5. \A i \in DOMAIN params : i \in DOMAIN old \/ i = Len(old) + 1
      BY <3>3
    <3>6. Len(old) + 1 \in DOMAIN params
      BY <3>3
    <3> HIDE DEF params
    <3>7. Parameterised(d)'
      BY <1>2, <1>3, <2>1, <2>2, <3>2, <3>3, <3>5 DEF Parameterised
    <3> QED BY <1>5, <2>1, <2>2, <3>2, <3>3, <3>4, <3>6, <3>7
  <2> QED BY <2>4, <2>5
<1> QED BY <1>4, <1>5

LEMMA ApplyKeepsGroups ==
  ASSUME RegistryIInv, GroupIInv, inspected = None, NEW c \in Live, applyObjectDefinitionModifiers(c)
  PROVE  GroupIInv'
<1> DEFINE all == {d \in Own(c) : Decorated(d)}
<1>1. PICK D \in SUBSET all :
        /\ Inspect(D) /\ \A d \in D : def[d].status = "NOT_STARTED"
        /\ \/ D = all /\ inspected' = c /\ starts' = starts
           \/ inspected' = inspected /\ starts' = [starts EXCEPT ![c] = "failed"]
  <2> DEFINE clean == {d \in all : def[d].status = "NOT_STARTED"}
  <2>1. CASE clean = all
    BY <2>1 DEF applyObjectDefinitionModifiers
  <2>2. CASE clean # all
    BY <2>2 DEF applyObjectDefinitionModifiers
  <2> QED BY <2>1, <2>2
<1>2. /\ UNCHANGED <<assembly, parent, lc, defs, resolved>> /\ starts[c] = "begun"
      /\ Live' = Live /\ Contexts' = Contexts /\ \A x : Own(x)' = Own(x)
  BY DEF applyObjectDefinitionModifiers, Live, Contexts, Own
<1>3. /\ D \subseteq DOMAIN def /\ \A d \in D : NameOf(d) # "__CONTEXT__"
      /\ \A x \in Live : x \in Contexts /\ \A d \in Own(x) : d \in DOMAIN def
  BY OwnDefined DEF RegistryIInv, RegistryTypeOK
<1>4. /\ DOMAIN def' = DOMAIN def
      /\ \A d \in DOMAIN def :
           /\ def'[d].ctx = def[d].ctx /\ def'[d].status = def[d].status
           /\ def'[d].injected = def[d].injected
           /\ d \notin D => def'[d].params = def[d].params
           /\ Parameterised(d)'
           /\ \A i \in DOMAIN def[d].params :
                i \in DOMAIN def'[d].params /\ def'[d].params[i] = def[d].params[i]
           /\ d \in D /\ Blueprint[d[1]].wired.type # "nothing" =>
                \E i \in DOMAIN def'[d].params : /\ def'[d].params[i][1] = d[1]
                                                 /\ def'[d].params[i][2] = d[2]
  BY <1>1, <1>2, <1>3, InspectAdds
<1>5. /\ GroupsNamed'
      /\ \A x \in Contexts : \A g :
           Values(getGroupObjectNames(x, g)) \subseteq Values(getGroupObjectNames(x, g)')
      /\ \A x \in Contexts : \A e \in D :
           def[e].ctx = x /\ Blueprint[e[1]].group # "nothing" =>
             NameOf(e) \in Values(getGroupObjectNames(x, Blueprint[e[1]].group)')
  BY <1>1, <1>2, <1>3, InspectGroups
<1>6. Owned'
  <2>1. \A p \in DOMAIN resolved : ResolvedFor(p)'
    BY <1>4 DEF GroupIInv, Owned, ResolvedFor
  <2> QED BY <1>2, <1>4, <2>1 DEF Owned
<1>7. Unshared'
  <2> SUFFICES ASSUME "import" \notin assembly.may, NEW x \in Live, NEW d \in Own(x)
               PROVE  /\ def[d].ctx = x
                      /\ lc[x] = "NOT_STARTED" =>
                           \A i \in DOMAIN def'[d].params : def'[d].params[i][2] = "written"
    BY <1>2, <1>3, <1>4 DEF Unshared
  <2>1. /\ def[d].ctx = x
        /\ lc[x] = "NOT_STARTED" => \A i \in DOMAIN def[d].params : def[d].params[i][2] = "written"
    BY DEF GroupIInv, Unshared
  <2>2. d \in D => x = c
    BY <2>1 DEF GroupIInv, Unshared
  <2>3. lc[c] = "STARTING"
    BY <1>2 DEF RegistryIInv, StartsOrdered
  <2> QED BY <1>3, <1>4, <2>1, <2>2, <2>3
<1>8. GroupsKnown'
  <2> SUFFICES ASSUME NEW x \in Live, Read(x)', NEW d \in Own(x), NEW e \in Own(x),
                      def[d].ctx = x, Wires(d, e)
               PROVE  /\ NameOf(e) \in Values(getGroupObjectNames(x, Blueprint[e[1]].group)')
                      /\ Waits(d) => \E i \in DOMAIN def'[d].params : /\ def'[d].params[i][1] = d[1]
                                                                      /\ def'[d].params[i][2] = d[2]
                      /\ def[d].status = "STARTED" => e \in def[d].injected
    BY <1>2, <1>3, <1>4 DEF GroupsKnown, Wires, Waits
  <2>1. CASE Read(x)
    <3>1. /\ NameOf(e) \in Values(getGroupObjectNames(x, Blueprint[e[1]].group))
          /\ Waits(d) => \E i \in DOMAIN def[d].params : /\ def[d].params[i][1] = d[1]
                                                         /\ def[d].params[i][2] = d[2]
          /\ def[d].status = "STARTED" => e \in def[d].injected
      BY <2>1 DEF GroupIInv, GroupsKnown, Waits
    <3> QED BY <1>3, <1>4, <1>5, <3>1
  <2>2. CASE ~Read(x)
    <3>1. starts \in [Contexts -> {"idle", "waiting", "begun", "failed", "done"}] /\ c # None
      BY RegistryAssumption DEF RegistryIInv, RegistryTypeOK, Contexts
    <3>2. x = c /\ D = all
      BY <1>1, <1>2, <1>3, <2>2, <3>1 DEF Read
    <3>3. d \in D /\ e \in D /\ def[e].ctx = x /\ Blueprint[e[1]].group # "nothing"
          /\ Blueprint[d[1]].wired.type = "group"
      BY <3>2 DEF Wires
    <3> QED BY <1>1, <1>3, <1>4, <1>5, <3>3 DEF Waits
  <2> QED BY <2>1, <2>2
<1> QED BY <1>5, <1>6, <1>7, <1>8 DEF GroupIInv
-----------------------------------------------------------------------------
(* Definitions enter a context that has not been told to start: nobody       *)
(* speaks of its groups yet.                                                 *)
LEMMA EnterKeepsGroups ==
  ASSUME RegistryIInv, GroupIInv, NEW c \in Live, NEW D \in SUBSET DOMAIN def,
         \A d, e \in D : NameOf(d) = NameOf(e) => d = e, Enter(c, D), lc[c] = "NOT_STARTED",
         UNCHANGED <<contextMaps, lc, inspected, resolved>>,
         "import" \notin assembly.may =>
           \A d \in D : /\ def[d].ctx = None /\ Waits(d)
                        /\ \A i \in DOMAIN def[d].params : def[d].params[i][2] = "written"
  PROVE  GroupIInv'
<1>1. /\ UNCHANGED <<assembly, parent, starts, groups>>
      /\ Live' = Live /\ Contexts' = Contexts /\ ParamIds' = ParamIds
      /\ GroupedNames' = GroupedNames /\ Live \subseteq Contexts
      /\ \A x, g : getGroupObjectNames(x, g)' = getGroupObjectNames(x, g)
  BY DEF contextMaps, Live, Contexts, ParamIds, GroupedNames, getGroupObjectNames, RegistryIInv, RegistryTypeOK
<1>2. /\ DOMAIN def' = DOMAIN def
      /\ \A d \in DOMAIN def :
           /\ def'[d].params = def[d].params /\ def'[d].status = def[d].status
           /\ def'[d].injected = def[d].injected
           /\ def'[d].ctx = IF d \in D /\ Waits(d) THEN c ELSE def[d].ctx
  <2>1. \A d \in DOMAIN def : IsDefinition(def[d])
    BY DEF RegistryIInv, RegistryTypeOK
  <2>2. def' = [d \in DOMAIN def |->
                  IF d \in D /\ def[d].status = "NOT_STARTED"
                  THEN [def[d] EXCEPT !.ctx = c, !.hears = @ \cup {c}] ELSE def[d]]
    BY DEF Enter
  <2>3. ASSUME NEW r, IsDefinition(r)
        PROVE  LET q == [r EXCEPT !.ctx = c, !.hears = @ \cup {c}]
               IN q.ctx = c /\ q.params = r.params /\ q.status = r.status /\ q.injected = r.injected
    BY <2>3 DEF IsDefinition
  <2> QED BY <2>1, <2>2, <2>3 DEF Waits
<1>3. /\ \A x \in Live : x # c => Own(x)' = Own(x)
      /\ Own(c)' \subseteq Own(c) \cup D
  <2>1. defs = [x \in Contexts |-> defs[x]]
    BY DEF RegistryIInv, RegistryTypeOK
  <2>2. /\ \A x \in Live : x # c => defs'[x] = defs[x]
        /\ defs'[c] = Over(ByName(D), defs[c])
    BY <1>1, <2>1 DEF Enter
  <2>3. DOMAIN ByName(D) = {NameOf(d) : d \in D} /\ \A d \in D : ByName(D)[NameOf(d)] = d
    BY DEF ByName
  <2>4. Values(defs'[c]) \subseteq Values(defs[c]) \cup D
    BY <2>2, <2>3 DEF Values, Over
  <2> QED BY <2>2, <2>4 DEF Own
<1>4. \A x \in Live : x \in Contexts /\ x # None /\ \A d \in Own(x) : d \in DOMAIN def
  <2>1. \A x \in Live : x \in Contexts /\ x # None
    BY RegistryAssumption DEF RegistryIInv, RegistryTypeOK, Contexts
  <2> QED BY <2>1, OwnDefined
<1>5. Owned'
  <2>1. \A d \in DOMAIN def : Parameterised(d)'
    BY <1>1, <1>2 DEF GroupIInv, Owned, Parameterised
  <2>2. \A p \in DOMAIN resolved : ResolvedFor(p)'
    BY <1>2 DEF GroupIInv, Owned, ResolvedFor
  <2> QED BY <1>2, <2>1, <2>2 DEF Owned
<1>6. Unshared'
  <2> SUFFICES ASSUME "import" \notin assembly.may, NEW x \in Live, NEW d \in Own(x)'
               PROVE  /\ def'[d].ctx = x
                      /\ lc[x] = "NOT_STARTED" =>
                           \A i \in DOMAIN def'[d].params : def'[d].params[i][2] = "written"
    BY <1>1 DEF Unshared
  <2>1. \A e \in Own(x) : /\ def[e].ctx = x
                          /\ lc[x] = "NOT_STARTED" =>
                               \A i \in DOMAIN def[e].params : def[e].params[i][2] = "written"
    BY DEF GroupIInv, Unshared
  <2>2. CASE d \in D
    <3>1. x = c
      BY <1>3, <1>4, <2>1, <2>2
    <3> QED BY <1>2, <2>2, <3>1
  <2>3. CASE d \notin D
    <3>1. d \in Own(x)
      BY <1>3, <2>3
    <3> QED BY <1>2, <1>4, <2>1, <2>3, <3>1
  <2> QED BY <2>2, <2>3
<1>7. GroupsNamed'
  BY <1>1 DEF GroupIInv, GroupsNamed
<1>8. GroupsKnown'
  <2>1. ~Read(c)
    BY <1>4 DEF RegistryIInv, StartsOrdered, Read
  <2> SUFFICES ASSUME NEW x \in Live, Read(x), NEW d \in Own(x), NEW e \in Own(x),
                      def'[d].ctx = x, Wires(d, e)'
               PROVE  /\ NameOf(e) \in Values(getGroupObjectNames(x, Blueprint[e[1]].group))
                      /\ Waits(d) => \E i \in DOMAIN def[d].params : /\ def[d].params[i][1] = d[1]
                                                                     /\ def[d].params[i][2] = d[2]
                      /\ def[d].status = "STARTED" => e \in def[d].injected
    <3>1. \A x \in Live : Read(x)' => Read(x) /\ Own(x)' = Own(x)
      BY <1>1, <1>3, <2>1 DEF Read
    <3> QED BY <1>1, <1>2, <1>4, <3>1 DEF GroupsKnown, Waits
  <2>2. def[d].ctx = x /\ Wires(d, e)
    BY <1>2, <1>4, <2>1 DEF Wires
  <2> QED BY <2>2 DEF GroupIInv, GroupsKnown, Waits
<1> QED BY <1>5, <1>6, <1>7, <1>8 DEF GroupIInv

LEMMA EnteringKeepsGroups ==
  ASSUME RegistryIInv, GroupIInv, NEW c \in Live, NEW overwrite,
         \/ \E b \in assembly.blueprints : registerDefinition(c, <<b, "new">>, overwrite)
         \/ \E other \in Live : importContext(c, other, overwrite)
  PROVE  GroupIInv'
<1>1. ASSUME NEW b \in assembly.blueprints, registerDefinition(c, <<b, "new">>, overwrite)
      PROVE  GroupIInv'
  <2> DEFINE d == <<b, "new">>
             D == {d}
  <2>1. /\ d \in DOMAIN def /\ def[d] = NewDefinition(b) /\ Enter(c, D) /\ lc[c] = "NOT_STARTED"
        /\ UNCHANGED <<contextMaps, lc, inspected, resolved>>
    BY <1>1 DEF registerDefinition, RegistryIInv, Named
  <2>2. def[d].ctx = None /\ Waits(d) /\ def[d].params = Written(b)
    BY <2>1 DEF NewDefinition, Waits
  <2>3. \A i \in DOMAIN Written(b) : Written(b)[i][2] = "written"
    BY DEF Written
  <2> HIDE DEF d
  <2>4. D \in SUBSET DOMAIN def /\ \A e, f \in D : NameOf(e) = NameOf(f) => e = f
    BY <2>1
  <2>5. \A e \in D : /\ def[e].ctx = None /\ Waits(e)
                     /\ \A i \in DOMAIN def[e].params : def[e].params[i][2] = "written"
    BY <2>2, <2>3
  <2> HIDE DEF D
  <2> QED BY <2>1, <2>4, <2>5, EnterKeepsGroups
<1>2. ASSUME NEW other \in Live, importContext(c, other, overwrite)
      PROVE  GroupIInv'
  <2>1. /\ Own(other) \subseteq DOMAIN def
        /\ \A d, e \in Own(other) : NameOf(d) = NameOf(e) => d = e
    BY DEF Own, Values, RegistryIInv, Named, RegistryTypeOK
  <2>2. PICK D \in SUBSET Own(other) : Enter(c, D)
    BY <1>2 DEF importContext
  <2>3. /\ "import" \in assembly.may /\ lc[c] = "NOT_STARTED"
        /\ UNCHANGED <<contextMaps, lc, inspected, resolved>>
    BY <1>2 DEF importContext
  <2>4. D \in SUBSET DOMAIN def /\ \A d, e \in D : NameOf(d) = NameOf(e) => d = e
    BY <2>1
  <2> QED BY <2>2, <2>3, <2>4, EnterKeepsGroups
<1> QED BY <1>1, <1>2

(* clone() adds copies.  Their parameters are shared with the originals', so *)
(* that nothing may have been resolved, nor added, when they are made.       *)
LEMMA CloneKeepsGroups ==
  ASSUME RegistryIInv, GroupIInv, NEW c \in Live, clone(c), "import" \notin assembly.may
  PROVE  GroupIInv'
<1> DEFINE copies == [e \in {copyOf(d) : d \in Own(c)} |->
                        LET d == CHOOSE x \in Own(c) : copyOf(x) = e
                        IN [NewDefinition(d[1]) EXCEPT !.ctx = twin, !.hears = {twin},
                              !.lazy = def[d].lazy, !.params = def[d].params]]
           own == ContextDefinition(twin)
           new == {copyOf(d) : d \in Own(c)} \cup {own}
<1>1. /\ UNCHANGED <<assembly, lc, starts, groups, inspected, resolved>>
      /\ twin \notin Live /\ lc[c] = "NOT_STARTED"
      /\ parent' = [x \in Live \cup {twin} |-> parent[IF x = twin THEN c ELSE x]]
      /\ defs' = [defs EXCEPT ![twin] = ByName(new)]
      /\ def' = Over(copies, Over(def, [d \in {own} |-> NewContextDefinition(twin)]))
  BY DEF clone
<1>2. /\ Live' = Live \cup {twin} /\ Contexts' = Contexts /\ twin \in Contexts /\ twin # None
      /\ ParamIds' = ParamIds /\ GroupedNames' = GroupedNames
      /\ \A x \in Live : x \in Contexts /\ x # twin
      /\ \A x, g : getGroupObjectNames(x, g)' = getGroupObjectNames(x, g)
  BY <1>1, RegistryAssumption DEF Live, Contexts, ParamIds, GroupedNames, getGroupObjectNames,
     RegistryIInv, RegistryTypeOK
<1>3. \A d \in DOMAIN def : d[2] # twin
  BY <1>1 DEF RegistryIInv, Families
<1>4. \A d \in Own(c) : /\ d \in DOMAIN def /\ NameOf(d) # "__CONTEXT__" /\ Parameterised(d)
                        /\ \A i \in DOMAIN def[d].params : def[d].params[i][2] = "written"
  <2>1. \A d \in Own(c) : d \in DOMAIN def /\ NameOf(d) # "__CONTEXT__"
    BY <1>2, OwnDefined
  <2> QED BY <1>1, <2>1 DEF GroupIInv, Owned, Unshared
<1>5. \A e \in new : e[2] = twin /\ e \notin DOMAIN def
  BY <1>3 DEF copyOf, ContextDefinition
<1>6. /\ DOMAIN def' = DOMAIN def \cup new
      /\ \A d \in DOMAIN def : def'[d] = def[d]
      /\ \A e \in new : /\ def'[e].ctx = twin /\ Parameterised(e)'
                        /\ \A i \in DOMAIN def'[e].params : def'[e].params[i][2] = "written"
  <2> DEFINE f == [d \in {own} |-> NewContextDefinition(twin)]
  <2>1. /\ DOMAIN copies = {copyOf(d) : d \in Own(c)}
        /\ DOMAIN f = {own} /\ f[own] = NewContextDefinition(twin)
    OBVIOUS
  <2>2. LET r == NewContextDefinition(twin) IN r.ctx = twin /\ r.params = <<>>
    BY DEF NewContextDefinition
  <2>3. ASSUME NEW e \in DOMAIN copies
        PROVE  \E d \in Own(c) : /\ e = copyOf(d) /\ copies[e].ctx = twin
                                 /\ copies[e].params = def[d].params
    <3> DEFINE d == CHOOSE x \in Own(c) : copyOf(x) = e
               lazy == def[d].lazy
               params == def[d].params
               r == NewDefinition(d[1])
               q == [r EXCEPT !.ctx = twin, !.hears = {twin}, !.lazy = lazy, !.params = params]
    <3>1. copies[e] = q
      BY <2>3
    <3>2. d \in Own(c) /\ copyOf(d) = e
      BY <2>3
    <3>3. IsDefinition(r)
      <4> HIDE DEF d
      <4> QED BY DEF NewDefinition, IsDefinition
    <3>4. q.ctx = twin /\ q.params = params
      <4> HIDE DEF r, lazy, params
      <4> QED BY <3>3 DEF IsDefinition
    <3> HIDE DEF q, copies, d
    <3> QED BY <3>1, <3>2, <3>4
  <2>4. def' = Over(copies, Over(def, f))
    BY <1>1
  <2> HIDE DEF copies, f
  <2>5. /\ DOMAIN def' = DOMAIN def \cup new
        /\ \A d \in DOMAIN def : def'[d] = def[d]
        /\ \A e \in DOMAIN copies : def'[e] = copies[e]
        /\ own \notin DOMAIN copies => def'[own] = NewContextDefinition(twin)
    BY <1>5, <2>1, <2>4 DEF Over
  <2>6. own \notin DOMAIN copies /\ own = <<own[1], own[2]>> /\ NameOf(own) = "__CONTEXT__"
    <3>1. \A d \in Own(c) : copyOf(d) # own
      BY <1>4 DEF copyOf, ContextDefinition, NameOf
    <3> QED BY <2>1, <3>1 DEF ContextDefinition, NameOf
  <2>7. /\ def'[own].ctx = twin /\ Parameterised(own)'
        /\ \A i \in DOMAIN def'[own].params : def'[own].params[i][2] = "written"
    <3>1. def'[own].ctx = twin /\ def'[own].params = <<>>
      BY <2>2, <2>5, <2>6
    <3> QED BY <2>6, <3>1 DEF Parameterised
  <2>8. ASSUME NEW e \in DOMAIN copies
        PROVE  /\ def'[e].ctx = twin /\ Parameterised(e)'
               /\ \A i \in DOMAIN def'[e].params : def'[e].params[i][2] = "written"
    <3>1. PICK d \in Own(c) : e = copyOf(d) /\ def'[e].ctx = twin /\ def'[e].params = def[d].params
      BY <2>3, <2>5
    <3>2. /\ d[1] \in assembly.blueprints /\ def[d].params \in Seq(ParamIds)
          /\ \A i \in DOMAIN def[d].params : def[d].params[i][2] = "written"
      BY <1>4 DEF Parameterised
    <3>3. e = <<e[1], e[2]>> /\ e[1] = d[1] /\ e[2] = twin
      BY <3>1 DEF copyOf
    <3> QED BY <1>1, <1>2, <3>1, <3>2, <3>3 DEF Parameterised
  <2> QED BY <2>1, <2>5, <2>7, <2>8
<1>7. /\ \A x \in Live : Own(x)' = Own(x)
      /\ Own(twin)' \subseteq new
  <2> HIDE DEF new
  <2>1. /\ \A x \in Live : defs'[x] = defs[x]
        /\ defs'[twin] = ByName(new)
    BY <1>1, <1>2 DEF RegistryIInv, RegistryTypeOK
  <2>2. \A n \in DOMAIN ByName(new) : ByName(new)[n] \in new
    BY DEF ByName
  <2> QED BY <2>1, <2>2 DEF Own, Values
<1> HIDE DEF copies, new, own
<1>8. \A x \in Live : \A d \in Own(x) : d \in DOMAIN def
  BY <1>2, OwnDefined
<1>9. Owned'
  <2>1. \A d \in DOMAIN def : Parameterised(d)'
    BY <1>1, <1>2, <1>6 DEF GroupIInv, Owned, Parameterised
  <2>2. \A p \in DOMAIN resolved : ResolvedFor(p)'
    BY <1>6 DEF GroupIInv, Owned, ResolvedFor
  <2> QED BY <1>1, <1>6, <2>1, <2>2 DEF Owned
<1>10. Unshared'
  BY <1>1, <1>2, <1>6, <1>7, <1>8 DEF GroupIInv, Unshared
<1>11. GroupsNamed'
  BY <1>1, <1>2 DEF GroupIInv, GroupsNamed
<1>12. GroupsKnown'
  <2>1. ~Read(twin)
    BY <1>1, <1>2 DEF RegistryIInv, RegistryTypeOK, Families, Read
  <2> SUFFICES ASSUME NEW x \in Live, Read(x), NEW d \in Own(x), NEW e \in Own(x),
                      def[d].ctx = x, Wires(d, e)
               PROVE  /\ NameOf(e) \in Values(getGroupObjectNames(x, Blueprint[e[1]].group))
                      /\ Waits(d) => \E i \in DOMAIN def[d].params : /\ def[d].params[i][1] = d[1]
                                                                     /\ def[d].params[i][2] = d[2]
                      /\ def[d].status = "STARTED" => e \in def[d].injected
    BY <1>1, <1>2, <1>6, <1>7, <1>8, <2>1 DEF GroupsKnown, Waits, Read, Wires
  <2> QED BY DEF GroupIInv, GroupsKnown, Waits
<1> QED BY <1>9, <1>10, <1>11, <1>12 DEF GroupIInv
-----------------------------------------------------------------------------
(* A context is copied, or imported from, but not both: the copy of an object *)
(* that another context has taken over and inspected would share parameters  *)
(* that are already resolved.                                                *)
CopiedOrImported == \A a \in Assemblies : "clone" \in a.may => "import" \notin a.may

LEMMA GroupStepPreserves ==
  ASSUME CopiedOrImported, RegistryIInv, GroupIInv, [RegistryNext]_registryVars
  PROVE  GroupIInv'
<1>1. CASE UNCHANGED registryVars
  <2>1. /\ UNCHANGED <<assembly, parent, lc, starts, defs, groups, inspected, def, resolved>>
        /\ \A d \in DOMAIN def : SameObject(d)
    BY <1>1 DEF registryVars, SameObject, Waits
  <2> QED BY <2>1, GroupsUndisturbed DEF Read
<1>2. CASE RegistryNext
  <2>1. CASE inspected # None /\ doStart(inspected)
    BY <2>1, DoStartKeepsGroups
  <2>2. CASE inspected = None /\ \E c \in Live : applyObjectDefinitionModifiers(c)
    BY <2>2, ApplyKeepsGroups
  <2>3. ASSUME NEW c \in Live, lcStart(c) \/ superLcStart(c)
        PROVE  GroupIInv'
    BY <2>3, StartsUndisturbed
  <2>4. ASSUME NEW c \in Live, lcStop(c) \/ contextStopped(c)
        PROVE  GroupIInv'
    BY <2>4, StoppingUndisturbed
  <2>5. ASSUME NEW c \in Live, clone(c)
        PROVE  GroupIInv'
    <3>1. "clone" \in assembly.may /\ assembly \in Assemblies
      BY <2>5 DEF clone, RegistryIInv, RegistryTypeOK
    <3> QED BY <2>5, <3>1, CloneKeepsGroups DEF CopiedOrImported
  <2>6. ASSUME NEW c \in Live, NEW o \in Live, NEW overwrite \in BOOLEAN,
               importContext(c, o, overwrite)
        PROVE  GroupIInv'
    BY <2>6, EnteringKeepsGroups
  <2>7. ASSUME NEW c \in Live, NEW b \in assembly.blueprints, NEW overwrite \in BOOLEAN,
               registerDefinition(c, <<b, "new">>, overwrite)
        PROVE  GroupIInv'
    BY <2>7, EnteringKeepsGroups
  <2>8. ASSUME NEW c, NEW n,
               \/ getObjectByName(c, n) \/ getObjectByType(c, n)
               \/ getObjectsByType(c, n) \/ getObjectsByGroup(c, n)
        PROVE  GroupIInv'
    <3>1. PICK D : Get(D)
      BY <2>8 DEF getObjectByName, getObjectByType, getObjectsByType, getObjectsByGroup
    <3> QED BY <3>1, GetKeepsGroups
  <2>9. ASSUME NEW d \in DOMAIN def, objectStopped(d)
        PROVE  GroupIInv'
    BY <2>9, StoppingUndisturbed
  <2> QED BY <1>2, <2>1, <2>2, <2>3, <2>4, <2>5, <2>6, <2>7, <2>8, <2>9 DEF RegistryNext
<1> QED BY <1>1, <1>2

(* Whoever is wired to a group by a decorator gets all of it, once a context *)
(* has started: whatever was registered, imported or overwritten before, and *)
(* however many contexts have inspected a definition, as long as none is     *)
(* both copied and imported from (applyObjectDefinitionModifiers(),          *)
(* resolveParamObjectDefinition()).                                          *)
THEOREM GroupsAreComplete ==
  ASSUME CopiedOrImported
  PROVE  RegistryInit /\ [][RegistryNext]_registryVars => []GroupsComplete
<1>1. RegistryIInv /\ GroupIInv => GroupsComplete
  BY DEF GroupIInv, GroupsKnown, GroupsComplete, Read
<1>2. RegistryIInv /\ GroupIInv /\ [RegistryNext]_registryVars => GroupIInv'
  BY GroupStepPreserves
<1> QED BY <1>1, <1>2, RegistryInductive, GroupInitImplies, PTL

-----------------------------------------------------------------------------
(* Decorators                                                                *)

IsMetadata(m) ==
  /\ m = [autowire |-> m.autowire, defaultValue |-> m.defaultValue, lazy |-> m.lazy,
          startMethod |-> m.startMethod, stopMethod |-> m.stopMethod, groups |-> m.groups]
  /\ IsFiniteSet(DOMAIN m.autowire)

IsList(s) == \E S : s \in Seq(S)
Wirable(w) ==
  /\ w = [lazy |-> w.lazy, start |-> w.start, stop |-> w.stop, args |-> w.args, sets |-> w.sets]
  /\ IsList(w.sets)

DecoratorTypeOK ==
  /\ declaring \in Nat \ {0} /\ inspecting \in 1..6
  /\ written = [c \in Classes |-> written[c]]
  /\ \A c \in Classes : written[c] \subseteq MayWrite[c] /\ statics[c] \in MayKeep[c]
  /\ DOMAIN ioc \subseteq Classes
  /\ \A h \in DOMAIN ioc : IsMetadata(ioc[h])
  /\ wiring = [c \in Classes |-> wiring[c]]
  /\ \A c \in Classes : Wirable(wiring[c])

(* The metadata of a decorated class are those of exactly one of its          *)
(* ancestors: no class with metadata of its own is the ancestor of another.  *)
NothingAhead == \A i \in DOMAIN Order : i > declaring => written[Order[i]] = {}
DecoratedHeld == \A c \in Classes : IsDecorated(c) => Ancestors[c] \cap DOMAIN ioc # {}
HoldersDecorated == \A h \in DOMAIN ioc : IsDecorated(h)
HoldersApart == \A h, k \in DOMAIN ioc : h \in Ancestors[k] => h = k

(* They hold what the heirs of their class have written, all of it and       *)
(* nothing else.                                                             *)
Keyed == {"Autowire", "AutowireConfig"}
KeysHeld ==
  \A c \in Classes : \A x \in written[c] : \A h \in Ancestors[c] \cap DOMAIN ioc :
    x.kind \in Keyed => x.key \in DOMAIN ioc[h].autowire
KeysOfHeirs ==
  \A h \in DOMAIN ioc : \A k \in DOMAIN ioc[h].autowire :
    \E e \in Classes : h \in Ancestors[e] /\ \E x \in written[e] : x.kind \in Keyed /\ x.key = k
Handled == {"StartMethod", "StopMethod"}
MethodsOfHeirs ==
  \A h \in DOMAIN ioc : \A n \in {ioc[h].startMethod, ioc[h].stopMethod} : n # NotSet =>
    \E e \in Classes : h \in Ancestors[e] /\ \E x \in written[e] : x.kind \in Handled /\ x.key = n

MetadataOK ==
  /\ NothingAhead /\ DecoratedHeld /\ HoldersDecorated /\ HoldersApart
  /\ KeysHeld /\ KeysOfHeirs /\ MethodsOfHeirs

(* What the inspectors that are done have added.                             *)
KeysOf(sets) == {sets[i].key : i \in DOMAIN sets}
StaticKeys(c) == IF "autowire" \in DOMAIN statics[c] THEN DOMAIN statics[c].autowire ELSE {}
HeldKeys(c) == IF Holder(ioc, c) = NotSet THEN {} ELSE DOMAIN Metadata(c).autowire
Progress ==
  /\ declaring <= Len(Order) => inspecting = 1 /\ ~refused
  /\ \A c \in Classes :
       /\ inspecting = 1 => wiring[c].sets = <<>>
       /\ inspecting \in 2..4 => KeysOf(wiring[c].sets) = StaticKeys(c)
       /\ inspecting \in 5..6 => KeysOf(wiring[c].sets) = StaticKeys(c) \cup HeldKeys(c)

Refusal ==
  refused => \E e \in Classes :
     \/ \E a \in Ancestors[e] \ {e}, x \in written[e] :
          x.kind \in Handled /\ IsDecorated(a) /\ ~Has(a, x.key)
     \/ \E key \in {"startMethod", "stopMethod"} : Throws(e, StaticMethod(e, key))

DecoratorIInv == DecoratorTypeOK /\ MetadataOK /\ Progress /\ Refusal

(* The operators.                                                            *)
LEMMA OrderFacts ==
  /\ Len(Order) \in Nat /\ DOMAIN Order = 1..Len(Order)
  /\ \A i \in 1..Len(Order) : Order[i] \in Classes
  /\ \A c \in Classes : Super[c] \in Classes
  /\ \A c \in Classes : \E i \in 1..Len(Order) : c = Order[i]
<1>1. Order \in Seq(Classes)
  BY DeclarationOrder
<1>2. Len(Order) \in Nat /\ DOMAIN Order = 1..Len(Order)
  BY <1>1
<1> QED BY <1>2, DeclarationOrder DEF Classes

LEMMA AncestorFacts ==
  ASSUME NEW c \in Classes
  PROVE  /\ c \in Ancestors[c] /\ Ancestors[c] \subseteq Classes
         /\ \A b \in Ancestors[c] : Super[b] \in Ancestors[c]
  BY OrderFacts DEF Ancestors

LEMMA AncestorsLeast ==
  ASSUME NEW c \in Classes, NEW S \in SUBSET Classes, c \in S, \A b \in S : Super[b] \in S
  PROVE  Ancestors[c] \subseteq S
  BY DEF Ancestors

LEMMA AncestorsTransitive ==
  ASSUME NEW c \in Classes, NEW b \in Ancestors[c]
  PROVE  b \in Classes /\ Ancestors[b] \subseteq Ancestors[c]
<1>1. b \in Classes /\ Ancestors[c] \in SUBSET Classes
  BY AncestorFacts
<1> QED BY <1>1, AncestorFacts, AncestorsLeast

LEMMA AncestorsLinear ==
  ASSUME NEW c \in Classes, NEW a \in Ancestors[c], NEW b \in Ancestors[c]
  PROVE  a \in Ancestors[b] \/ b \in Ancestors[a]
<1> DEFINE S == {x \in Classes : b \in Ancestors[x] \/ x \in Ancestors[b]}
<1>1. b \in Classes /\ c \in S
  BY AncestorFacts
<1>2. ASSUME NEW x \in S PROVE Super[x] \in S
  <2>1. x \in Classes /\ Super[x] \in Classes
    BY OrderFacts
  <2>2. CASE x \in Ancestors[b]
    BY <1>1, <2>1, <2>2, AncestorFacts
  <2>3. CASE b \in Ancestors[x]
    <3> DEFINE T == {x} \cup Ancestors[Super[x]]
    <3>1. T \in SUBSET Classes /\ x \in T /\ \A y \in T : Super[y] \in T
      BY <2>1, AncestorFacts
    <3>2. Ancestors[x] \subseteq T
      BY <2>1, <3>1, AncestorsLeast
    <3>3. b = x \/ b \in Ancestors[Super[x]]
      BY <2>3, <3>2
    <3> QED BY <1>1, <2>1, <3>3, AncestorFacts
  <2> QED BY <2>2, <2>3
<1>3. S \in SUBSET Classes
  OBVIOUS
<1> HIDE DEF S
<1>4. a \in S
  BY <1>1, <1>2, <1>3, AncestorsLeast
<1> QED BY <1>4 DEF S

LEMMA AncestorsEarlier ==
  ASSUME NEW i \in 1..Len(Order), NEW j \in 1..Len(Order), Order[j] \in Ancestors[Order[i]]
  PROVE  j <= i
<1> DEFINE S == {Order[k] : k \in 1..i}
<1>1. S \in SUBSET Classes /\ Order[i] \in S /\ Order[i] \in Classes
  BY OrderFacts
<1>2. ASSUME NEW x \in S PROVE Super[x] \in S
  <2>1. PICK k \in 1..i : x = Order[k]
    OBVIOUS
  <2>2. k \in DOMAIN Order
    BY <2>1, OrderFacts
  <2>3. PICK l \in 1..k : Super[x] = Order[l]
    BY <2>1, <2>2, DeclarationOrder
  <2> QED BY <2>1, <2>3, OrderFacts
<1> HIDE DEF S
<1>3. Order[j] \in S
  BY <1>1, <1>2, AncestorsLeast
<1>4. PICK k \in 1..i : Order[j] = Order[k]
  BY <1>3 DEF S
<1>5. j \in DOMAIN Order /\ k \in DOMAIN Order
  BY OrderFacts
<1>6. j = k
  BY <1>4, <1>5, DeclarationOrder
<1> QED BY <1>4, <1>6, OrderFacts

LEMMA HolderIs ==
  ASSUME DOMAIN ioc \subseteq Classes, HoldersApart, NEW c \in Classes
  PROVE  \/ Holder(ioc, c) = NotSet /\ Ancestors[c] \cap DOMAIN ioc = {}
         \/ Holder(ioc, c) # NotSet /\ Ancestors[c] \cap DOMAIN ioc = {Holder(ioc, c)}
<1> DEFINE A == Ancestors[c] \cap DOMAIN ioc
<1>1. CASE A = {}
  BY <1>1 DEF Holder
<1>2. CASE A # {}
  <2>1. PICK h : h \in A
    BY <1>2
  <2>2. A = {h}
    BY <2>1, AncestorsLinear DEF HoldersApart
  <2>3. h \in Ancestors[h] /\ h # NotSet
    BY <2>1, AncestorFacts, DeclarationOrder
  <2>4. Holder(ioc, c) = CHOOSE a \in A : \A b \in A : b \in Ancestors[a]
    BY <1>2 DEF Holder
  <2> HIDE DEF A
  <2>5. Holder(ioc, c) = h
    BY <2>2, <2>3, <2>4
  <2> QED BY <2>2, <2>3, <2>5 DEF A
<1> QED BY <1>1, <1>2

LEMMA InOrderHasAll ==
  ASSUME NEW S, IsFiniteSet(S)
  PROVE  InOrder(S) \in Seq(S) /\ {InOrder(S)[i] : i \in DOMAIN InOrder(S)} = S
<1> DEFINE n == Cardinality(S)
<1>1. n \in Nat /\ ExistsBijection(1..n, S)
  BY FS_CardinalityType
<1>2. PICK s \in Bijection(1..n, S) : TRUE
  BY <1>1 DEF ExistsBijection
<1>3. s \in [1..n -> S] /\ {s[i] : i \in DOMAIN s} = S
  BY <1>2 DEF Bijection, Surjection, Injection
<1>4. InOrder(S) \in [1..n -> S] /\ {InOrder(S)[i] : i \in DOMAIN InOrder(S)} = S
  BY <1>3 DEF InOrder
<1> HIDE DEF n
<1> QED BY <1>1, <1>4

LEMMA KeysJoined ==
  ASSUME NEW s, NEW t, IsList(s), IsList(t)
  PROVE  IsList(s \o t) /\ KeysOf(s \o t) = KeysOf(s) \cup KeysOf(t)
<1>0. PICK S, T : s \in Seq(S) /\ t \in Seq(T)
  BY DEF IsList
<1>1. s \in Seq(S \cup T) /\ t \in Seq(S \cup T)
  BY <1>0, SeqMonotonic
<1>2. /\ Len(s) \in Nat /\ DOMAIN s = 1..Len(s)
      /\ Len(t) \in Nat /\ DOMAIN t = 1..Len(t)
  BY <1>0
<1>3. /\ s \o t \in Seq(S \cup T)
      /\ Len(s \o t) = Len(s) + Len(t)
      /\ \A i \in 1..Len(s) + Len(t) :
           (s \o t)[i] = IF i <= Len(s) THEN s[i] ELSE t[i - Len(s)]
  BY <1>1, ConcatProperties
<1>4. DOMAIN (s \o t) = 1..Len(s) + Len(t)
  BY <1>3
<1>5. ASSUME NEW k \in KeysOf(s \o t) PROVE k \in KeysOf(s) \cup KeysOf(t)
  <2>1. PICK i \in 1..Len(s) + Len(t) : k = (s \o t)[i].key
    BY <1>4 DEF KeysOf
  <2>2. CASE i <= Len(s)
    BY <1>2, <1>3, <2>1, <2>2 DEF KeysOf
  <2>3. CASE ~(i <= Len(s))
    <3>1. i - Len(s) \in 1..Len(t) /\ k = t[i - Len(s)].key
      BY <1>2, <1>3, <2>1, <2>3
    <3> QED BY <1>2, <3>1 DEF KeysOf
  <2> QED BY <2>2, <2>3
<1>6. ASSUME NEW k \in KeysOf(s) PROVE k \in KeysOf(s \o t)
  <2>1. PICK i \in 1..Len(s) : k = s[i].key
    BY <1>2 DEF KeysOf
  <2>2. i \in 1..Len(s) + Len(t) /\ k = (s \o t)[i].key
    BY <1>2, <1>3, <2>1
  <2> QED BY <1>4, <2>2 DEF KeysOf
<1>7. ASSUME NEW k \in KeysOf(t) PROVE k \in KeysOf(s \o t)
  <2>1. PICK i \in 1..Len(t) : k = t[i].key
    BY <1>2 DEF KeysOf
  <2>2. Len(s) + i \in 1..Len(s) + Len(t) /\ ~(Len(s) + i <= Len(s)) /\ Len(s) + i - Len(s) = i
    BY <1>2, <2>1
  <2>3. k = (s \o t)[Len(s) + i].key
    BY <1>3, <2>1, <2>2
  <2> QED BY <1>4, <2>2, <2>3 DEF KeysOf
<1>8. IsList(s \o t)
  BY <1>3 DEF IsList
<1> QED BY <1>5, <1>6, <1>7, <1>8

(* What an inspector appends for the entries of a map: p[k] for each key k.   *)
LEMMA EntriesAppended ==
  ASSUME NEW D, IsFiniteSet(D), NEW p, p = [k \in D |-> p[k]],
         \A k \in D : p[k].key = k, NEW s, IsList(s)
  PROVE  LET t == s \o InOrder({p[k] : k \in D})
         IN IsList(t) /\ KeysOf(t) = KeysOf(s) \cup D
<1> DEFINE P == {p[k] : k \in D}
<1>1. p \in Surjection(D, P)
  BY DEF Surjection
<1>2. IsFiniteSet(P)
  BY <1>1, FS_Surjection
<1>3. IsList(InOrder(P)) /\ {InOrder(P)[i] : i \in DOMAIN InOrder(P)} = P
  <2> HIDE DEF P
  <2> QED BY <1>2, InOrderHasAll DEF IsList
<1>4. KeysOf(InOrder(P)) = {q.key : q \in P}
  <2> HIDE DEF P
  <2> QED BY <1>3 DEF KeysOf
<1>5. {q.key : q \in P} = D
  OBVIOUS
<1> HIDE DEF P
<1>6. IsList(s \o InOrder(P)) /\ KeysOf(s \o InOrder(P)) = KeysOf(s) \cup KeysOf(InOrder(P))
  BY <1>3, KeysJoined
<1> QED BY <1>4, <1>5, <1>6 DEF P

LEMMA ParamKeys ==
  \A key, what, m : FromStatic(key, what).key = key /\ FromDecorator(key, what, m).key = key
<1>1. \A key, what : FromStatic(key, what).key = key
  BY DEF FromStatic, Param
<1> HIDE DEF FromStatic
<1> QED BY <1>1 DEF FromDecorator, Param

(* The steps.                                                                *)
LEMMA DecoratorInitImplies == DecoratorInit => DecoratorIInv
<1> SUFFICES ASSUME DecoratorInit PROVE DecoratorIInv
  OBVIOUS
<1>1. DOMAIN ioc = {} /\ \A c \in Classes : written[c] = {}
  BY DEF DecoratorInit
<1>2. \A c \in Classes : Wirable(NewDefinition0(c)) /\ NewDefinition0(c).sets = <<>>
  BY DEF Wirable, IsList, NewDefinition0
<1>3. DecoratorTypeOK
  <2>1. \A c \in Classes : wiring[c] = NewDefinition0(c)
    BY DEF DecoratorInit
  <2>2. \A c \in Classes : Wirable(wiring[c])
    BY <1>2, <2>1
  <2>3. written = [c \in Classes |-> written[c]] /\ wiring = [c \in Classes |-> wiring[c]]
    BY DEF DecoratorInit
  <2>4. declaring = 1 /\ inspecting = 1 /\ refused = FALSE /\ \A c \in Classes : statics[c] \in MayKeep[c]
    BY DEF DecoratorInit
  <2> QED BY <1>1, <2>2, <2>3, <2>4 DEF DecoratorTypeOK
<1>4. MetadataOK
  BY <1>1, OrderFacts DEF MetadataOK, NothingAhead, DecoratedHeld, HoldersDecorated, HoldersApart,
         KeysHeld, KeysOfHeirs, MethodsOfHeirs, IsDecorated
<1>5. Progress /\ Refusal
  BY <1>2 DEF DecoratorInit, Progress, Refusal
<1> QED BY <1>3, <1>4, <1>5 DEF DecoratorIInv

(* Nothing that inherits from the class being declared has been declared.     *)
LEMMA HeirsLater ==
  ASSUME NothingAhead, NEW c \in Classes, declaring \in DOMAIN Order, c = Order[declaring]
  PROVE  \A e \in Classes : c \in Ancestors[e] /\ e # c => written[e] = {}
<1> SUFFICES ASSUME NEW e \in Classes, c \in Ancestors[e], e # c PROVE written[e] = {}
  OBVIOUS
<1>1. PICK i \in 1..Len(Order) : e = Order[i]
  BY OrderFacts
<1>2. declaring <= i /\ i # declaring
  BY <1>1, AncestorsEarlier, OrderFacts
<1> QED BY <1>1, <1>2, OrderFacts DEF NothingAhead

LEMMA UpdateKeeps ==
  ASSUME DecoratorIInv, NEW c \in Classes, NEW x \in MayWrite[c], Writes(c, x),
         x.kind \in InceptumKinds, NEW m, IsMetadata(m), Update(c, m),
         DOMAIN m.autowire = DOMAIN Mine(c).autowire \cup {k \in {x.key} : x.kind \in Keyed},
         \A n \in {m.startMethod, m.stopMethod} :
           \/ n \in {Mine(c).startMethod, Mine(c).stopMethod}
           \/ x.kind \in Handled /\ n = x.key
  PROVE  DecoratorIInv'
<1> DEFINE h == HolderOrNew(ioc, c)
<1>0. DecoratorTypeOK /\ MetadataOK /\ Progress /\ Refusal
  BY DEF DecoratorIInv
<1>1. /\ h \in Classes /\ h \in Ancestors[c]
      /\ \/ h \in DOMAIN ioc /\ Mine(c) = ioc[h]
         \/ h \notin DOMAIN ioc /\ h = c /\ Mine(c) = InceptumMetadata
      /\ Ancestors[c] \cap (DOMAIN ioc \cup {h}) = {h}
  BY <1>0, HolderIs, AncestorFacts DEF HolderOrNew, Mine, DecoratorTypeOK, MetadataOK
<1>2. /\ DOMAIN ioc' = DOMAIN ioc \cup {h} /\ ioc'[h] = m
      /\ \A k \in DOMAIN ioc : k # h => ioc'[k] = ioc[k]
  BY DEF Update, Put
<1>3. /\ declaring' = declaring /\ statics' = statics /\ inspecting' = inspecting
      /\ wiring' = wiring /\ refused' = refused
      /\ declaring \in DOMAIN Order /\ declaring <= Len(Order) /\ c = Order[declaring]
  BY <1>0, OrderFacts DEF Writes, DecoratorTypeOK, Progress
<1>4. /\ written'[c] = written[c] \cup {x}
      /\ \A e \in Classes : e # c => written'[e] = written[e]
      /\ written' = [e \in Classes |-> written'[e]]
  BY <1>0 DEF Writes, DecoratorTypeOK
<1>5. /\ \A e \in Classes : IsDecorated(e) => IsDecorated(e)'
      /\ IsDecorated(c)' /\ \A e \in Classes : e # c => (IsDecorated(e)' => IsDecorated(e))
  BY <1>4 DEF IsDecorated
<1>6. \A e \in Classes : c \in Ancestors[e] /\ e # c => written[e] = {}
  BY <1>0, <1>3, HeirsLater DEF MetadataOK
<1>7. h \notin DOMAIN ioc => ~IsDecorated(c) /\ \A k \in DOMAIN ioc : c \notin Ancestors[k]
  <2>1. ASSUME h \notin DOMAIN ioc PROVE ~IsDecorated(c)
    BY <1>0, <1>1, <2>1 DEF MetadataOK, DecoratedHeld
  <2>2. ASSUME h \notin DOMAIN ioc, NEW k \in DOMAIN ioc PROVE c \notin Ancestors[k]
    <3>1. k \in Classes /\ IsDecorated(k) /\ k # c
      BY <1>0, <1>1, <2>2 DEF MetadataOK, HoldersDecorated, DecoratorTypeOK
    <3> QED BY <1>6, <3>1 DEF IsDecorated
  <2> QED BY <2>1, <2>2
<1> HIDE DEF h
<1>8. DecoratorTypeOK'
  BY <1>0, <1>1, <1>2, <1>3, <1>4 DEF DecoratorTypeOK
<1>9. NothingAhead'
  <2> SUFFICES ASSUME NEW i \in DOMAIN Order, i > declaring PROVE written'[Order[i]] = {}
    BY <1>3 DEF NothingAhead
  <2>1. Order[i] \in Classes /\ Order[i] # c
    BY <1>0, <1>3, OrderFacts, DeclarationOrder DEF DecoratorTypeOK
  <2> QED BY <1>0, <1>4, <2>1 DEF MetadataOK, NothingAhead
<1>10. DecoratedHeld' /\ HoldersDecorated'
  BY <1>0, <1>1, <1>2, <1>5 DEF MetadataOK, DecoratedHeld, HoldersDecorated, DecoratorTypeOK
<1>11. HoldersApart'
  <2> SUFFICES ASSUME NEW a \in DOMAIN ioc', NEW k \in DOMAIN ioc', a \in Ancestors[k] PROVE a = k
    BY DEF HoldersApart
  <2>1. CASE a \in DOMAIN ioc /\ k \in DOMAIN ioc
    BY <1>0, <2>1 DEF MetadataOK, HoldersApart
  <2>2. CASE h \notin DOMAIN ioc /\ k = h
    BY <1>1, <1>2, <2>2
  <2>3. CASE h \notin DOMAIN ioc /\ a = h /\ k \in DOMAIN ioc
    BY <1>1, <1>7, <2>3
  <2> QED BY <1>2, <2>1, <2>2, <2>3
<1>12. KeysHeld'
  <2> SUFFICES ASSUME NEW e \in Classes, NEW y \in written'[e], NEW a \in Ancestors[e],
                      a \in DOMAIN ioc', y.kind \in Keyed
               PROVE  y.key \in DOMAIN ioc'[a].autowire
    BY DEF KeysHeld
  <2>1. CASE e = c /\ y = x
    BY <1>1, <1>2, <2>1
  <2>2. CASE y \in written[e]
    <3>1. CASE a \in DOMAIN ioc
      <4>1. y.key \in DOMAIN ioc[a].autowire
        BY <1>0, <2>2, <3>1 DEF MetadataOK, KeysHeld
      <4> QED BY <1>1, <1>2, <3>1, <4>1
    <3>2. CASE a \notin DOMAIN ioc
      <4>1. a = c /\ ~IsDecorated(c)
        BY <1>1, <1>2, <1>7, <3>2
      <4>2. e = c
        BY <1>6, <2>2, <4>1
      <4> QED BY <2>2, <4>1, <4>2 DEF IsDecorated, InceptumKinds, Keyed
    <3> QED BY <3>1, <3>2
  <2> QED BY <1>4, <2>1, <2>2
<1>13. KeysOfHeirs'
  <2> SUFFICES ASSUME NEW a \in DOMAIN ioc', NEW k \in DOMAIN ioc'[a].autowire
               PROVE  \E e \in Classes : /\ a \in Ancestors[e]
                                         /\ \E y \in written'[e] : y.kind \in Keyed /\ y.key = k
    BY DEF KeysOfHeirs
  <2>1. CASE a \in DOMAIN ioc /\ k \in DOMAIN ioc[a].autowire
    <3>1. PICK e \in Classes : a \in Ancestors[e] /\ \E y \in written[e] : y.kind \in Keyed /\ y.key = k
      BY <1>0, <2>1 DEF MetadataOK, KeysOfHeirs
    <3> QED BY <1>4, <3>1
  <2>2. CASE ~(a \in DOMAIN ioc /\ k \in DOMAIN ioc[a].autowire)
    <3>1. a = h
      BY <1>2, <2>2
    <3>2. k \in DOMAIN Mine(c).autowire \cup {y \in {x.key} : x.kind \in Keyed}
      BY <1>2, <3>1
    <3>3. k \notin DOMAIN Mine(c).autowire
      BY <1>1, <2>2, <3>1 DEF InceptumMetadata
    <3> QED BY <1>1, <1>4, <3>1, <3>2, <3>3
  <2> QED BY <2>1, <2>2
<1>14. MethodsOfHeirs'
  <2> SUFFICES ASSUME NEW a \in DOMAIN ioc', NEW n \in {ioc'[a].startMethod, ioc'[a].stopMethod},
                      n # NotSet
               PROVE  \E e \in Classes : /\ a \in Ancestors[e]
                                         /\ \E y \in written'[e] : y.kind \in Handled /\ y.key = n
    BY DEF MethodsOfHeirs
  <2>1. CASE a \in DOMAIN ioc /\ n \in {ioc[a].startMethod, ioc[a].stopMethod}
    <3>1. PICK e \in Classes : a \in Ancestors[e] /\ \E y \in written[e] : y.kind \in Handled /\ y.key = n
      BY <1>0, <2>1 DEF MetadataOK, MethodsOfHeirs
    <3> QED BY <1>4, <3>1
  <2>2. CASE ~(a \in DOMAIN ioc /\ n \in {ioc[a].startMethod, ioc[a].stopMethod})
    <3>1. a = h
      BY <1>2, <2>2
    <3>2. n \notin {Mine(c).startMethod, Mine(c).stopMethod}
      BY <1>1, <2>2, <3>1 DEF InceptumMetadata
    <3>3. x.kind \in Handled /\ n = x.key
      BY <1>2, <3>1, <3>2
    <3> QED BY <1>1, <1>4, <3>1, <3>3
  <2> QED BY <2>1, <2>2
<1>15. Progress'
  BY <1>0, <1>3 DEF Progress, StaticKeys
<1>16. Refusal'
  BY <1>0, <1>3 DEF Progress, Refusal
<1> QED BY <1>8, <1>9, <1>10, <1>11, <1>12, <1>13, <1>14, <1>15, <1>16
        DEF DecoratorIInv, MetadataOK

LEMMA DecoratingKeeps ==
  ASSUME DecoratorIInv, NEW c \in Classes, NEW x \in MayWrite[c],
         \/ Autowire(c, x) \/ AutowireConfig(c, x) \/ Lazy(c, x) \/ StartMethod(c, x)
         \/ StopMethod(c, x) \/ RegisterInGroup(c, x)
  PROVE  DecoratorIInv'
<1> DEFINE M == Mine(c)
<1>1. IsMetadata(M)
  <2>1. IsMetadata(InceptumMetadata)
    <3>1. DOMAIN InceptumMetadata.autowire = {}
      BY DEF InceptumMetadata
    <3> QED BY <3>1, FS_EmptySet DEF IsMetadata, InceptumMetadata
  <2>2. \/ Mine(c) = InceptumMetadata
        \/ Mine(c) = ioc[Holder(ioc, c)] /\ Holder(ioc, c) \in DOMAIN ioc
    <3>1. \/ Holder(ioc, c) = NotSet
          \/ Holder(ioc, c) # NotSet /\ Ancestors[c] \cap DOMAIN ioc = {Holder(ioc, c)}
      BY HolderIs DEF DecoratorIInv, DecoratorTypeOK, MetadataOK
    <3>2. CASE Holder(ioc, c) = NotSet
      BY <3>2 DEF Mine
    <3>3. CASE Holder(ioc, c) # NotSet
      <4>1. Holder(ioc, c) \in Ancestors[c] \cap DOMAIN ioc
        BY <3>1, <3>3
      <4> QED BY <3>3, <4>1 DEF Mine
    <3> QED BY <3>2, <3>3
  <2> QED BY <2>1, <2>2 DEF DecoratorIInv, DecoratorTypeOK
<1>2. \A k, v : /\ DOMAIN Put(M.autowire, k, v) = DOMAIN M.autowire \cup {k}
                /\ IsFiniteSet(DOMAIN Put(M.autowire, k, v))
  BY <1>1, FS_AddElement DEF IsMetadata, Put
<1> HIDE DEF M
<1>3. CASE Autowire(c, x)
  <2> DEFINE m == [M EXCEPT !.autowire = Put(@, x.key, x.what)]
  <2>1. Writes(c, x) /\ Update(c, m) /\ x.kind = "Autowire"
    BY <1>3 DEF Autowire, M
  <2>2. /\ m.autowire = Put(M.autowire, x.key, x.what) /\ m.startMethod = M.startMethod
        /\ m.stopMethod = M.stopMethod
        /\ m = [autowire |-> m.autowire, defaultValue |-> m.defaultValue, lazy |-> m.lazy,
                startMethod |-> m.startMethod, stopMethod |-> m.stopMethod, groups |-> m.groups]
    BY <1>1 DEF IsMetadata
  <2> HIDE DEF m
  <2>3. IsMetadata(m) /\ DOMAIN m.autowire = DOMAIN M.autowire \cup {k \in {x.key} : x.kind \in Keyed}
    <3>1. DOMAIN m.autowire = DOMAIN M.autowire \cup {x.key} /\ IsFiniteSet(DOMAIN m.autowire)
      BY <1>2, <2>2
    <3>2. {k \in {x.key} : x.kind \in Keyed} = {x.key}
      BY <2>1 DEF Keyed
    <3> QED BY <2>2, <3>1, <3>2 DEF IsMetadata
  <2> QED BY <2>1, <2>2, <2>3, UpdateKeeps DEF M, InceptumKinds
<1>4. CASE AutowireConfig(c, x)
  <2> DEFINE keys == Put(M.autowire, x.key, <<"#", x.name>>)
             dflt == IF x.default = NotSet THEN M.defaultValue ELSE Put(M.defaultValue, x.name, x.default)
             m == [M EXCEPT !.autowire = keys, !.defaultValue = dflt]
  <2>1. Writes(c, x) /\ Update(c, m) /\ x.kind = "AutowireConfig"
    BY <1>4 DEF AutowireConfig, M
  <2>2. /\ m.autowire = Put(M.autowire, x.key, <<"#", x.name>>) /\ m.startMethod = M.startMethod
        /\ m.stopMethod = M.stopMethod
        /\ m = [autowire |-> m.autowire, defaultValue |-> m.defaultValue, lazy |-> m.lazy,
                startMethod |-> m.startMethod, stopMethod |-> m.stopMethod, groups |-> m.groups]
    <3> HIDE DEF dflt, keys
    <3>1. /\ m.autowire = keys /\ m.startMethod = M.startMethod /\ m.stopMethod = M.stopMethod
          /\ m = [autowire |-> m.autowire, defaultValue |-> m.defaultValue, lazy |-> m.lazy,
                  startMethod |-> m.startMethod, stopMethod |-> m.stopMethod, groups |-> m.groups]
      <4>1. m = [autowire |-> keys, defaultValue |-> dflt, lazy |-> M.lazy,
                 startMethod |-> M.startMethod, stopMethod |-> M.stopMethod, groups |-> M.groups]
        <5>1. m = [[M EXCEPT !.autowire = keys] EXCEPT !.defaultValue = dflt]
          BY <1>1 DEF IsMetadata
        <5>2. [M EXCEPT !.autowire = keys] =
                [autowire |-> keys, defaultValue |-> M.defaultValue, lazy |-> M.lazy,
                 startMethod |-> M.startMethod, stopMethod |-> M.stopMethod, groups |-> M.groups]
          BY <1>1 DEF IsMetadata
        <5> HIDE DEF m
        <5> QED BY <5>1, <5>2
      <4> HIDE DEF m
      <4> QED BY <4>1
    <3> HIDE DEF m
    <3> QED BY <3>1 DEF keys
  <2> HIDE DEF m
  <2>3. IsMetadata(m) /\ DOMAIN m.autowire = DOMAIN M.autowire \cup {k \in {x.key} : x.kind \in Keyed}
    <3>1. DOMAIN m.autowire = DOMAIN M.autowire \cup {x.key} /\ IsFiniteSet(DOMAIN m.autowire)
      BY <1>2, <2>2
    <3>2. {k \in {x.key} : x.kind \in Keyed} = {x.key}
      BY <2>1 DEF Keyed
    <3> QED BY <2>2, <3>1, <3>2 DEF IsMetadata
  <2> QED BY <2>1, <2>2, <2>3, UpdateKeeps DEF M, InceptumKinds
<1>5. ASSUME NEW m, Writes(c, x), Update(c, m), x.kind \in InceptumKinds \ Keyed,
             m.autowire = M.autowire,
             m = [autowire |-> m.autowire, defaultValue |-> m.defaultValue, lazy |-> m.lazy,
                  startMethod |-> m.startMethod, stopMethod |-> m.stopMethod, groups |-> m.groups],
             \A n \in {m.startMethod, m.stopMethod} :
               n \in {M.startMethod, M.stopMethod} \/ (x.kind \in Handled /\ n = x.key)
      PROVE  DecoratorIInv'
  <2>1. IsMetadata(m) /\ DOMAIN m.autowire = DOMAIN M.autowire \cup {k \in {x.key} : x.kind \in Keyed}
    BY <1>1, <1>5 DEF IsMetadata
  <2> QED BY <1>5, <2>1, UpdateKeeps DEF M
<1>6. CASE Lazy(c, x)
  <2> DEFINE m == [M EXCEPT !.lazy = x.lazy]
  <2>1. Writes(c, x) /\ Update(c, m) /\ x.kind = "Lazy"
    BY <1>6 DEF Lazy, M
  <2>2. /\ m.autowire = M.autowire /\ m.startMethod = M.startMethod /\ m.stopMethod = M.stopMethod
        /\ m = [autowire |-> m.autowire, defaultValue |-> m.defaultValue, lazy |-> m.lazy,
                startMethod |-> m.startMethod, stopMethod |-> m.stopMethod, groups |-> m.groups]
    BY <1>1 DEF IsMetadata
  <2> HIDE DEF m
  <2>3. /\ x.kind \in InceptumKinds \ Keyed
        /\ \A n \in {m.startMethod, m.stopMethod} :
             n \in {M.startMethod, M.stopMethod} \/ (x.kind \in Handled /\ n = x.key)
    BY <2>1, <2>2 DEF InceptumKinds, Keyed
  <2> QED BY <1>5, <2>1, <2>2, <2>3
<1>7. CASE StartMethod(c, x)
  <2> DEFINE m == [M EXCEPT !.startMethod = x.key]
  <2>1. Writes(c, x) /\ Update(c, m) /\ x.kind = "StartMethod"
    BY <1>7 DEF StartMethod, M
  <2>2. /\ m.autowire = M.autowire /\ m.startMethod = x.key /\ m.stopMethod = M.stopMethod
        /\ m = [autowire |-> m.autowire, defaultValue |-> m.defaultValue, lazy |-> m.lazy,
                startMethod |-> m.startMethod, stopMethod |-> m.stopMethod, groups |-> m.groups]
    BY <1>1 DEF IsMetadata
  <2> HIDE DEF m
  <2>3. x.kind \in InceptumKinds \ Keyed /\ x.kind \in Handled
    BY <2>1 DEF InceptumKinds, Keyed, Handled
  <2>4. \A n \in {m.startMethod, m.stopMethod} : n \in {M.startMethod, M.stopMethod} \/ n = x.key
    BY <2>2
  <2> QED BY <1>5, <2>1, <2>2, <2>3, <2>4
<1>8. CASE StopMethod(c, x)
  <2> DEFINE m == [M EXCEPT !.stopMethod = x.key]
  <2>1. Writes(c, x) /\ Update(c, m) /\ x.kind = "StopMethod"
    BY <1>8 DEF StopMethod, M
  <2>2. /\ m.autowire = M.autowire /\ m.startMethod = M.startMethod /\ m.stopMethod = x.key
        /\ m = [autowire |-> m.autowire, defaultValue |-> m.defaultValue, lazy |-> m.lazy,
                startMethod |-> m.startMethod, stopMethod |-> m.stopMethod, groups |-> m.groups]
    BY <1>1 DEF IsMetadata
  <2> HIDE DEF m
  <2>3. x.kind \in InceptumKinds \ Keyed /\ x.kind \in Handled
    BY <2>1 DEF InceptumKinds, Keyed, Handled
  <2>4. \A n \in {m.startMethod, m.stopMethod} : n \in {M.startMethod, M.stopMethod} \/ n = x.key
    BY <2>2
  <2> QED BY <1>5, <2>1, <2>2, <2>3, <2>4
<1>9. CASE RegisterInGroup(c, x)
  <2> DEFINE m == [M EXCEPT !.groups = Append(@, x.group)]
  <2>1. Writes(c, x) /\ Update(c, m) /\ x.kind = "RegisterInGroup"
    BY <1>9 DEF RegisterInGroup, M
  <2>2. /\ m.autowire = M.autowire /\ m.startMethod = M.startMethod /\ m.stopMethod = M.stopMethod
        /\ m = [autowire |-> m.autowire, defaultValue |-> m.defaultValue, lazy |-> m.lazy,
                startMethod |-> m.startMethod, stopMethod |-> m.stopMethod, groups |-> m.groups]
    BY <1>1 DEF IsMetadata
  <2> HIDE DEF m
  <2>3. /\ x.kind \in InceptumKinds \ Keyed
        /\ \A n \in {m.startMethod, m.stopMethod} :
             n \in {M.startMethod, M.stopMethod} \/ (x.kind \in Handled /\ n = x.key)
    BY <2>1, <2>2 DEF InceptumKinds, Keyed
  <2> QED BY <1>5, <2>1, <2>2, <2>3
<1> QED BY <1>3, <1>4, <1>6, <1>7, <1>8, <1>9

(* A decorator of a route writes other metadata.                             *)
LEMMA RouteKeeps ==
  ASSUME DecoratorIInv, NEW c \in Classes, NEW x \in MayWrite[c], Route(c, x)
  PROVE  DecoratorIInv'
<1>1. /\ declaring' = declaring /\ statics' = statics /\ inspecting' = inspecting
      /\ wiring' = wiring /\ refused' = refused /\ ioc' = ioc /\ declaring <= Len(Order)
      /\ c = Order[declaring] /\ x.kind = "Route"
  BY DEF Route, Writes
<1>2. /\ written'[c] = written[c] \cup {x}
      /\ \A e \in Classes : e # c => written'[e] = written[e]
      /\ written' = [e \in Classes |-> written'[e]]
  BY DEF Route, Writes, DecoratorIInv, DecoratorTypeOK
<1>3. \A e \in Classes : \A y \in written'[e] : y.kind # "Route" => y \in written[e]
  BY <1>1, <1>2
<1>4. \A e \in Classes : written[e] \subseteq written'[e]
  BY <1>2
<1>5. DecoratorTypeOK'
  BY <1>1, <1>2 DEF DecoratorIInv, DecoratorTypeOK
<1>6. NothingAhead'
  <2> SUFFICES ASSUME NEW i \in DOMAIN Order, i > declaring PROVE written'[Order[i]] = {}
    BY <1>1 DEF NothingAhead
  <2>1. Order[i] \in Classes /\ Order[i] # c
    BY <1>1, OrderFacts, DeclarationOrder DEF DecoratorIInv, DecoratorTypeOK
  <2> QED BY <1>2, <2>1 DEF DecoratorIInv, MetadataOK, NothingAhead
<1>7. \A e \in Classes : IsDecorated(e)' <=> IsDecorated(e)
  BY <1>3, <1>4 DEF IsDecorated, InceptumKinds
<1>8. DecoratedHeld' /\ HoldersDecorated' /\ HoldersApart'
  BY <1>1, <1>7 DEF DecoratorIInv, DecoratorTypeOK, MetadataOK, DecoratedHeld, HoldersDecorated, HoldersApart
<1>9. KeysHeld' /\ KeysOfHeirs' /\ MethodsOfHeirs'
  <2>1. KeysHeld'
    BY <1>1, <1>3 DEF DecoratorIInv, MetadataOK, KeysHeld, Keyed
  <2>2. KeysOfHeirs'
    BY <1>1, <1>4 DEF DecoratorIInv, MetadataOK, KeysOfHeirs
  <2>3. MethodsOfHeirs'
    BY <1>1, <1>4 DEF DecoratorIInv, MetadataOK, MethodsOfHeirs
  <2> QED BY <2>1, <2>2, <2>3
<1>10. Progress' /\ Refusal'
  BY <1>1 DEF DecoratorIInv, Progress, Refusal, StaticKeys
<1> QED BY <1>5, <1>6, <1>8, <1>9, <1>10 DEF DecoratorIInv, MetadataOK

LEMMA MetadataStays ==
  ASSUME MetadataOK, UNCHANGED <<ioc, written>>, declaring' = declaring \/ declaring' = declaring + 1,
         declaring \in Nat
  PROVE  MetadataOK'
<1>1. \A e \in Classes : IsDecorated(e)' <=> IsDecorated(e)
  BY DEF IsDecorated
<1>2. NothingAhead'
  BY OrderFacts DEF MetadataOK, NothingAhead
<1>3. DecoratedHeld' /\ HoldersDecorated' /\ HoldersApart'
  BY <1>1 DEF MetadataOK, DecoratedHeld, HoldersDecorated, HoldersApart, IsDecorated
<1>4. KeysHeld' /\ KeysOfHeirs' /\ MethodsOfHeirs'
  BY DEF MetadataOK, KeysHeld, KeysOfHeirs, MethodsOfHeirs
<1> QED BY <1>2, <1>3, <1>4 DEF MetadataOK

LEMMA EndClassKeeps ==
  ASSUME DecoratorIInv, endClass
  PROVE  DecoratorIInv'
<1>1. /\ declaring' = declaring + 1 /\ declaring \in Nat \ {0} /\ declaring <= Len(Order)
      /\ UNCHANGED <<ioc, statics, inspecting, wiring, refused, written>>
  BY DEF endClass, DecoratorIInv, DecoratorTypeOK
<1>2. DecoratorTypeOK'
  BY <1>1 DEF DecoratorIInv, DecoratorTypeOK
<1>3. MetadataOK'
  BY <1>1, MetadataStays DEF DecoratorIInv
<1>4. Progress' /\ Refusal'
  BY <1>1 DEF DecoratorIInv, Progress, Refusal, StaticKeys
<1> QED BY <1>2, <1>3, <1>4 DEF DecoratorIInv

(* The inspectors.                                                           *)
LEMMA InspectionKeeps ==
  ASSUME DecoratorIInv, applyInspector, wiring' = [c \in Classes |-> wiring'[c]],
         \A c \in Classes : Wirable(wiring'[c]), Progress', Refusal'
  PROVE  DecoratorIInv'
<1>1. /\ UNCHANGED <<ioc, statics, declaring, written>>
      /\ inspecting' = inspecting + 1 /\ inspecting \in 1..5
  BY DEF applyInspector, declared, Inspectors, DecoratorIInv, DecoratorTypeOK
<1>2. DecoratorTypeOK'
  BY <1>1 DEF DecoratorIInv, DecoratorTypeOK
<1>3. MetadataOK'
  BY <1>1, MetadataStays DEF DecoratorIInv, DecoratorTypeOK
<1> QED BY <1>2, <1>3 DEF DecoratorIInv

(* What the inspectors make of a definition.                                  *)
Loaded(w, lazy) == [w EXCEPT !.lazy = lazy]
Run(w, start, stop) == [w EXCEPT !.start = start, !.stop = stop]
Fed(w, args, sets) == [w EXCEPT !.args = args, !.sets = sets]
Rewired(w, lazy, start, stop, sets) ==
  [w EXCEPT !.lazy = lazy, !.start = start, !.stop = stop, !.sets = sets]

LEMMA FieldChanged ==
  ASSUME NEW w, Wirable(w), NEW x
  PROVE  /\ Wirable([w EXCEPT !.lazy = x]) /\ [w EXCEPT !.lazy = x].sets = w.sets
         /\ Wirable([w EXCEPT !.start = x]) /\ [w EXCEPT !.start = x].sets = w.sets
         /\ Wirable([w EXCEPT !.stop = x]) /\ [w EXCEPT !.stop = x].sets = w.sets
         /\ Wirable([w EXCEPT !.args = x]) /\ [w EXCEPT !.args = x].sets = w.sets
         /\ IsList(x) => Wirable([w EXCEPT !.sets = x]) /\ [w EXCEPT !.sets = x].sets = x
<1>1. Wirable([w EXCEPT !.lazy = x]) /\ [w EXCEPT !.lazy = x].sets = w.sets
  BY DEF Wirable
<1>2. Wirable([w EXCEPT !.start = x]) /\ [w EXCEPT !.start = x].sets = w.sets
  BY DEF Wirable
<1>3. Wirable([w EXCEPT !.stop = x]) /\ [w EXCEPT !.stop = x].sets = w.sets
  BY DEF Wirable
<1>4. Wirable([w EXCEPT !.args = x]) /\ [w EXCEPT !.args = x].sets = w.sets
  BY DEF Wirable
<1>5. IsList(x) => Wirable([w EXCEPT !.sets = x]) /\ [w EXCEPT !.sets = x].sets = x
  BY DEF Wirable
<1> QED BY <1>1, <1>2, <1>3, <1>4, <1>5

LEMMA LoadedFields ==
  ASSUME NEW w, Wirable(w), NEW lazy
  PROVE  Wirable(Loaded(w, lazy)) /\ Loaded(w, lazy).sets = w.sets
  BY FieldChanged DEF Loaded

LEMMA RunFields ==
  ASSUME NEW w, Wirable(w), NEW start, NEW stop
  PROVE  Wirable(Run(w, start, stop)) /\ Run(w, start, stop).sets = w.sets
<1> DEFINE v == [w EXCEPT !.start = start]
<1>1. Wirable(v) /\ v.sets = w.sets
  BY FieldChanged
<1>2. Run(w, start, stop) = [v EXCEPT !.stop = stop]
  BY DEF Wirable, Run
<1> HIDE DEF v
<1>3. Wirable([v EXCEPT !.stop = stop]) /\ [v EXCEPT !.stop = stop].sets = v.sets
  BY <1>1, FieldChanged
<1> QED BY <1>1, <1>2, <1>3

LEMMA FedFields ==
  ASSUME NEW w, Wirable(w), NEW args, NEW sets, IsList(sets)
  PROVE  Wirable(Fed(w, args, sets)) /\ Fed(w, args, sets).sets = sets
<1> DEFINE v == [w EXCEPT !.args = args]
<1>1. Wirable(v)
  BY FieldChanged
<1>2. Fed(w, args, sets) = [v EXCEPT !.sets = sets]
  BY DEF Wirable, Fed
<1> HIDE DEF v
<1>3. Wirable([v EXCEPT !.sets = sets]) /\ [v EXCEPT !.sets = sets].sets = sets
  BY <1>1, FieldChanged
<1> QED BY <1>2, <1>3

LEMMA RewiredFields ==
  ASSUME NEW w, Wirable(w), NEW lazy, NEW start, NEW stop, NEW sets, IsList(sets)
  PROVE  /\ Wirable(Rewired(w, lazy, start, stop, sets))
         /\ Rewired(w, lazy, start, stop, sets).sets = sets
<1> DEFINE u == [w EXCEPT !.lazy = lazy]
           v == [u EXCEPT !.start = start]
           q == [v EXCEPT !.stop = stop]
<1>1. Rewired(w, lazy, start, stop, sets) = [q EXCEPT !.sets = sets]
  BY DEF Wirable, Rewired
<1>2. Wirable(u)
  BY FieldChanged
<1> HIDE DEF u
<1>3. Wirable(v)
  BY <1>2, FieldChanged
<1> HIDE DEF v
<1>4. Wirable(q)
  BY <1>3, FieldChanged
<1> HIDE DEF q
<1>5. Wirable([q EXCEPT !.sets = sets]) /\ [q EXCEPT !.sets = sets].sets = sets
  BY <1>4, FieldChanged
<1> QED BY <1>1, <1>5

LEMMA AutowiringKeeps ==
  ASSUME DecoratorIInv, applyInspector, inspecting = 1, AutowiringInspector
  PROVE  DecoratorIInv'
<1>0. DecoratorTypeOK /\ Progress /\ Refusal
  BY DEF DecoratorIInv
<1>1. /\ UNCHANGED <<ioc, statics, declaring, written, refused>>
      /\ inspecting' = 2 /\ declaring > Len(Order)
  <2>1. refused' = refused
    BY DEF AutowiringInspector
  <2> QED BY <1>0, <2>1, OrderFacts DEF applyInspector, declared, DecoratorTypeOK
<1>2. wiring' = [c \in Classes |-> wiring'[c]]
  BY DEF AutowiringInspector, Configure
<1>3. ASSUME NEW c \in Classes
      PROVE  Wirable(wiring'[c]) /\ KeysOf(wiring'[c].sets) = StaticKeys(c)
  <2> DEFINE w == wiring[c]
  <2>1. Wirable(w) /\ w.sets = <<>> /\ KeysOf(<<>>) = {} /\ IsList(<<>>)
    BY <1>0 DEF DecoratorTypeOK, Progress, KeysOf, IsList
  <2>2. CASE "autowire" \in DOMAIN statics[c]
    <3> DEFINE D == DOMAIN statics[c].autowire
               p == [k \in D |-> FromStatic(k, statics[c].autowire[k])]
               args == w.args \o [i \in DOMAIN statics[c].constructorArgs |->
                                    ArgumentFromStatic(statics[c].constructorArgs[i])]
               s == w.sets \o InOrder({FromStatic(k, statics[c].autowire[k]) : k \in D})
    <3>1. wiring'[c] = Fed(w, args, s)
      BY <2>2 DEF AutowiringInspector, Configure, Fed
    <3>2. IsFiniteSet(D)
      BY <1>0, <2>2, WrittenInTheBody DEF DecoratorTypeOK
    <3>3. {FromStatic(k, statics[c].autowire[k]) : k \in D} = {p[k] : k \in D}
      OBVIOUS
    <3>4. p = [k \in D |-> p[k]] /\ \A k \in D : p[k].key = k
      BY ParamKeys
    <3>5. IsList(s) /\ KeysOf(s) = KeysOf(w.sets) \cup D
      <4> HIDE DEF p, D, w
      <4>1. IsList(w.sets)
        BY <2>1
      <4> DEFINE t == w.sets \o InOrder({p[k] : k \in D})
      <4>2. IsList(t) /\ KeysOf(t) = KeysOf(w.sets) \cup D
        BY <3>2, <3>4, <4>1, EntriesAppended
      <4>3. s = t
        BY <3>3
      <4> QED BY <4>2, <4>3
    <3> HIDE DEF s, args, w, p
    <3>6. Wirable(wiring'[c]) /\ wiring'[c].sets = s
      BY <2>1, <3>1, <3>5, FedFields
    <3> QED BY <2>1, <2>2, <3>5, <3>6 DEF StaticKeys
  <2>3. CASE "autowire" \notin DOMAIN statics[c]
    <3>1. wiring'[c] = w
      BY <2>3 DEF AutowiringInspector, Configure
    <3> QED BY <2>1, <2>3, <3>1 DEF StaticKeys
  <2> QED BY <2>2, <2>3
<1>4. \A c \in Classes : StaticKeys(c)' = StaticKeys(c)
  BY <1>1 DEF StaticKeys
<1>5. Progress'
  BY <1>0, <1>1, <1>3, <1>4, OrderFacts DEF Progress, DecoratorTypeOK
<1>6. Refusal'
  BY <1>1 DEF applyInspector, Refusal
<1> QED BY <1>2, <1>3, <1>5, <1>6, InspectionKeeps

LEMMA LazyKeeps ==
  ASSUME DecoratorIInv, applyInspector, inspecting = 2, LazyLoadingInspector
  PROVE  DecoratorIInv'
<1>0. DecoratorTypeOK /\ Progress /\ Refusal
  BY DEF DecoratorIInv
<1>1. /\ UNCHANGED <<ioc, statics, declaring, written, refused>>
      /\ inspecting' = 3 /\ declaring > Len(Order)
  BY DEF applyInspector, declared, LazyLoadingInspector
<1>2. wiring' = [c \in Classes |-> wiring'[c]]
  BY DEF LazyLoadingInspector, Configure
<1>3. ASSUME NEW c \in Classes
      PROVE  Wirable(wiring'[c]) /\ wiring'[c].sets = wiring[c].sets
  <2>1. wiring'[c] \in {wiring[c], Loaded(wiring[c], statics[c].lazy)}
    BY DEF LazyLoadingInspector, Configure, Loaded
  <2>2. Wirable(wiring[c])
    BY <1>0 DEF DecoratorTypeOK
  <2> QED BY <2>1, <2>2, LoadedFields
<1>4. \A c \in Classes : StaticKeys(c)' = StaticKeys(c)
  BY <1>1 DEF StaticKeys
<1>5. Progress'
  BY <1>0, <1>1, <1>3, <1>4, OrderFacts DEF Progress, DecoratorTypeOK
<1>6. Refusal'
  BY <1>1 DEF applyInspector, Refusal
<1> QED BY <1>2, <1>3, <1>5, <1>6, InspectionKeeps

LEMMA StartStopKeeps ==
  ASSUME DecoratorIInv, applyInspector, inspecting = 3, StartStopMethodsInspector
  PROVE  DecoratorIInv'
<1>0. DecoratorTypeOK /\ Progress /\ Refusal
  BY DEF DecoratorIInv
<1>1. /\ UNCHANGED <<ioc, statics, declaring, written>>
      /\ inspecting' = 4 /\ declaring > Len(Order)
  BY DEF applyInspector, declared
<1>2. wiring' = [c \in Classes |-> wiring'[c]]
  BY DEF StartStopMethodsInspector, Configure
<1>3. ASSUME NEW c \in Classes
      PROVE  Wirable(wiring'[c]) /\ wiring'[c].sets = wiring[c].sets
  <2>1. wiring'[c] = Run(wiring[c], StaticMethod(c, "startMethod"), StaticMethod(c, "stopMethod"))
    BY DEF StartStopMethodsInspector, Configure, Run
  <2>2. Wirable(wiring[c])
    BY <1>0 DEF DecoratorTypeOK
  <2> QED BY <2>1, <2>2, RunFields
<1>4. \A c \in Classes : StaticKeys(c)' = StaticKeys(c)
  BY <1>1 DEF StaticKeys
<1>5. Progress'
  BY <1>0, <1>1, <1>3, <1>4, OrderFacts DEF Progress, DecoratorTypeOK
<1>6. \A c \in Classes, key \in {"startMethod", "stopMethod"} :
        Throws(c, StaticMethod(c, key))' <=> Throws(c, StaticMethod(c, key))
  BY <1>1 DEF Throws, StaticMethod, Inherited
<1>7. Refusal'
  BY <1>6 DEF StartStopMethodsInspector, Refusal
<1> QED BY <1>2, <1>3, <1>5, <1>7, InspectionKeeps

LEMMA DecoratorKeeps ==
  ASSUME DecoratorIInv, applyInspector, inspecting = 4, DecoratorInspector
  PROVE  DecoratorIInv'
<1> DEFINE D == {c \in Classes : Holder(ioc, c) # NotSet}
<1>0. DecoratorTypeOK /\ MetadataOK /\ Progress /\ Refusal
  BY DEF DecoratorIInv
<1>1. /\ UNCHANGED <<ioc, statics, declaring, written>>
      /\ inspecting' = 5 /\ declaring > Len(Order)
  BY <1>0, OrderFacts DEF applyInspector, declared, DecoratorTypeOK
<1>2. wiring' = [c \in Classes |-> wiring'[c]]
  BY DEF DecoratorInspector, Configure
<1>3. ASSUME NEW c \in Classes, Holder(ioc, c) # NotSet
      PROVE  /\ Holder(ioc, c) \in DOMAIN ioc /\ Holder(ioc, c) \in Ancestors[c]
             /\ IsMetadata(Metadata(c))
  <2>1. Ancestors[c] \cap DOMAIN ioc = {Holder(ioc, c)}
    BY <1>0, <1>3, HolderIs DEF DecoratorTypeOK, MetadataOK
  <2>2. Holder(ioc, c) \in Ancestors[c] \cap DOMAIN ioc
    BY <2>1
  <2> QED BY <1>0, <2>2 DEF DecoratorTypeOK, Metadata
<1>4. ASSUME NEW c \in Classes
      PROVE  Wirable(wiring'[c]) /\ KeysOf(wiring'[c].sets) = StaticKeys(c) \cup HeldKeys(c)
  <2> DEFINE w == wiring[c]
  <2>1. Wirable(w) /\ IsList(w.sets) /\ KeysOf(w.sets) = StaticKeys(c)
    BY <1>0 DEF DecoratorTypeOK, Progress, Wirable
  <2>2. CASE Holder(ioc, c) # NotSet
    <3> DEFINE m == Metadata(c)
               K == DOMAIN m.autowire
               p == [k \in K |-> FromDecorator(k, m.autowire[k], m)]
               s == w.sets \o InOrder({FromDecorator(k, m.autowire[k], m) : k \in K})
    <3>1. PICK start, stop : wiring'[c] = Rewired(w, m.lazy, start, stop, s)
      <4>1. wiring'[c] = Rewired(w, m.lazy,
                IF m.startMethod # NotSet THEN m.startMethod ELSE w.start,
                IF m.stopMethod # NotSet THEN m.stopMethod ELSE w.stop, s)
        BY <2>2 DEF DecoratorInspector, Configure, Rewired
      <4> QED BY <4>1
    <3>2. IsFiniteSet(K)
      BY <1>3, <2>2 DEF IsMetadata
    <3>3. {FromDecorator(k, m.autowire[k], m) : k \in K} = {p[k] : k \in K}
      OBVIOUS
    <3>4. p = [k \in K |-> p[k]] /\ \A k \in K : p[k].key = k
      BY ParamKeys
    <3>5. IsList(s) /\ KeysOf(s) = KeysOf(w.sets) \cup K
      <4> HIDE DEF p, K, w
      <4> DEFINE t == w.sets \o InOrder({p[k] : k \in K})
      <4>1. IsList(t) /\ KeysOf(t) = KeysOf(w.sets) \cup K
        BY <2>1, <3>2, <3>4, EntriesAppended
      <4>2. s = t
        BY <3>3
      <4> QED BY <4>1, <4>2
    <3> HIDE DEF s, w, p
    <3>6. Wirable(wiring'[c]) /\ wiring'[c].sets = s
      <4> HIDE DEF m
      <4> QED BY <2>1, <3>1, <3>5, RewiredFields
    <3> QED BY <2>1, <2>2, <3>5, <3>6 DEF HeldKeys
  <2>3. CASE Holder(ioc, c) = NotSet
    <3>1. wiring'[c] = w
      BY <2>3 DEF DecoratorInspector, Configure
    <3> QED BY <2>1, <2>3, <3>1 DEF HeldKeys
  <2> QED BY <2>2, <2>3
<1>5. \A c \in Classes : StaticKeys(c)' = StaticKeys(c) /\ HeldKeys(c)' = HeldKeys(c)
  BY <1>1 DEF StaticKeys, HeldKeys, Holder, Metadata
<1>6. Progress'
  BY <1>0, <1>1, <1>4, <1>5, OrderFacts DEF Progress, DecoratorTypeOK
<1>7. Refusal'
  <2> SUFFICES ASSUME refused'
               PROVE  \E e \in Classes : \E a \in Ancestors[e] \ {e}, x \in written'[e] :
                        x.kind \in Handled /\ IsDecorated(a)' /\ ~Has(a, x.key)
    BY DEF Refusal
  <2>1. PICK c \in D : Throws(c, Metadata(c).startMethod) \/ Throws(c, Metadata(c).stopMethod)
    BY DEF DecoratorInspector
  <2>2. PICK h : h = Holder(ioc, c)
    OBVIOUS
  <2>3. PICK n \in {ioc[h].startMethod, ioc[h].stopMethod} : n # NotSet /\ ~Has(c, n)
    BY <2>1, <2>2 DEF Throws, Metadata
  <2>4. h \in DOMAIN ioc /\ h \in Ancestors[c] /\ h \in Classes /\ IsDecorated(h)
    BY <1>0, <1>3, <2>2 DEF MetadataOK, HoldersDecorated, DecoratorTypeOK
  <2>5. PICK e \in Classes : h \in Ancestors[e] /\ \E x \in written[e] : x.kind \in Handled /\ x.key = n
    BY <1>0, <2>3, <2>4 DEF MetadataOK, MethodsOfHeirs
  <2>6. PICK x \in written[e] : x.kind \in Handled /\ x.key = n
    BY <2>5
  <2>7. ~Has(h, n)
    BY <2>3, <2>4, AncestorsTransitive DEF Has
  <2>8. e # h
    <3>1. x.key \in Methods[e]
      BY <1>0, <2>6, WrittenInTheBody DEF DecoratorTypeOK, Handled
    <3>2. Has(e, n)
      BY <2>6, <3>1, AncestorFacts DEF Has
    <3> QED BY <2>7, <3>2
  <2>9. IsDecorated(h)' /\ x \in written'[e]
    BY <1>1, <2>4 DEF IsDecorated
  <2> QED BY <2>4, <2>5, <2>6, <2>7, <2>8, <2>9
<1> QED BY <1>2, <1>4, <1>6, <1>7, InspectionKeeps

LEMMA WebRoutingKeeps ==
  ASSUME DecoratorIInv, applyInspector, inspecting = 5, WebRoutingInspector
  PROVE  DecoratorIInv'
<1>0. DecoratorTypeOK /\ Progress /\ Refusal
  BY DEF DecoratorIInv
<1>1. /\ UNCHANGED <<ioc, statics, declaring, written, wiring, refused>>
      /\ inspecting' = 6 /\ declaring > Len(Order)
  <2>1. UNCHANGED <<wiring, refused>>
    BY DEF WebRoutingInspector
  <2> QED BY <1>0, <2>1, OrderFacts DEF applyInspector, declared, DecoratorTypeOK
<1>2. \A c \in Classes : StaticKeys(c)' = StaticKeys(c) /\ HeldKeys(c)' = HeldKeys(c)
  BY <1>1 DEF StaticKeys, HeldKeys, Holder, Metadata
<1>3. Progress'
  BY <1>0, <1>1, <1>2, OrderFacts DEF Progress, DecoratorTypeOK
<1>4. Refusal'
  BY <1>1 DEF applyInspector, Refusal
<1> QED BY <1>0, <1>1, <1>3, <1>4, InspectionKeeps DEF DecoratorTypeOK

LEMMA DecoratorStepPreserves == DecoratorIInv /\ [DecoratorNext]_decoratorVars => DecoratorIInv'
<1> SUFFICES ASSUME DecoratorIInv, [DecoratorNext]_decoratorVars PROVE DecoratorIInv'
  OBVIOUS
<1>1. ASSUME NEW c \in Classes, NEW x \in MayWrite[c],
             \/ Autowire(c, x) \/ AutowireConfig(c, x) \/ Lazy(c, x) \/ StartMethod(c, x)
             \/ StopMethod(c, x) \/ RegisterInGroup(c, x) \/ Route(c, x)
      PROVE  DecoratorIInv'
  BY <1>1, DecoratingKeeps, RouteKeeps
<1>2. CASE applyInspector
  <2>1. \/ inspecting = 1 /\ AutowiringInspector
        \/ inspecting = 2 /\ LazyLoadingInspector
        \/ inspecting = 3 /\ StartStopMethodsInspector
        \/ inspecting = 4 /\ DecoratorInspector
        \/ inspecting = 5 /\ WebRoutingInspector
    <3>1. inspecting \in 1..5
      BY <1>2 DEF applyInspector, Inspectors, DecoratorIInv, DecoratorTypeOK
    <3>2. \/ Inspectors[inspecting] = "autowire" /\ AutowiringInspector
          \/ Inspectors[inspecting] = "lazy" /\ LazyLoadingInspector
          \/ Inspectors[inspecting] = "startStop" /\ StartStopMethodsInspector
          \/ Inspectors[inspecting] = "decorator" /\ DecoratorInspector
          \/ Inspectors[inspecting] = "web" /\ WebRoutingInspector
      BY <1>2 DEF applyInspector
    <3> QED BY <3>1, <3>2 DEF Inspectors
  <2> QED BY <1>2, <2>1, AutowiringKeeps, LazyKeeps, StartStopKeeps, DecoratorKeeps, WebRoutingKeeps
<1>3. CASE UNCHANGED decoratorVars
  <2>1. /\ UNCHANGED <<ioc, statics, inspecting, wiring, refused, written, declaring>>
        /\ DecoratorTypeOK /\ MetadataOK /\ Progress /\ Refusal
    BY <1>3 DEF decoratorVars, DecoratorIInv
  <2>2. DecoratorTypeOK'
    BY <2>1 DEF DecoratorTypeOK
  <2>3. MetadataOK'
    BY <2>1, MetadataStays DEF DecoratorTypeOK
  <2>4. \A c \in Classes : StaticKeys(c)' = StaticKeys(c) /\ HeldKeys(c)' = HeldKeys(c)
    BY <2>1 DEF StaticKeys, HeldKeys, Holder, Metadata
  <2>5. Progress'
    BY <2>1, <2>4 DEF Progress
  <2>6. Refusal'
    <3>1. \A e \in Classes : IsDecorated(e)' <=> IsDecorated(e)
      BY <2>1 DEF IsDecorated
    <3>2. \A e \in Classes, key \in {"startMethod", "stopMethod"} :
            Throws(e, StaticMethod(e, key))' <=> Throws(e, StaticMethod(e, key))
      BY <2>1 DEF Throws, StaticMethod, Inherited
    <3>3. \A e \in Classes : Ancestors[e] \subseteq Classes
      BY AncestorFacts
    <3> QED BY <2>1, <3>1, <3>2, <3>3 DEF Refusal
  <2> QED BY <2>2, <2>3, <2>5, <2>6 DEF DecoratorIInv
<1> QED BY <1>1, <1>2, <1>3, EndClassKeeps DEF DecoratorNext

LEMMA DecoratorIInvImplies == DecoratorIInv => WiredAsWritten
<1> SUFFICES ASSUME DecoratorIInv PROVE WiredAsWritten
  OBVIOUS
<1>0. DecoratorTypeOK /\ MetadataOK /\ Progress /\ Refusal
  BY DEF DecoratorIInv
<1>1. ASSUME Inspected, NEW c \in Classes
      PROVE  LET shared == {e \in Classes : \E a \in Ancestors[c] \cap Ancestors[e] : IsDecorated(a)}
             IN /\ KeysWritten(Ancestors[c]) \subseteq KeysOf(wiring[c].sets)
                /\ KeysOf(wiring[c].sets) \subseteq StaticKeys(c) \cup KeysWritten(Ancestors[c] \cup shared)
  <2> DEFINE shared == {e \in Classes : \E a \in Ancestors[c] \cap Ancestors[e] : IsDecorated(a)}
             h == Holder(ioc, c)
  <2>1. KeysOf(wiring[c].sets) = StaticKeys(c) \cup HeldKeys(c)
    <3>1. inspecting \in 5..6
      BY <1>0, <1>1 DEF Inspected, Inspectors, DecoratorTypeOK
    <3> QED BY <1>0, <3>1 DEF Progress
  <2>2. \/ h = NotSet /\ Ancestors[c] \cap DOMAIN ioc = {}
        \/ h # NotSet /\ Ancestors[c] \cap DOMAIN ioc = {h}
    BY <1>0, HolderIs DEF DecoratorTypeOK, MetadataOK
  <2> HIDE DEF h
  <2>3. ASSUME NEW k \in KeysWritten(Ancestors[c]) PROVE k \in HeldKeys(c)
    <3>1. PICK a \in Ancestors[c] : \E x \in written[a] : x.kind \in Keyed /\ x.key = k
      BY <2>3 DEF KeysWritten, Keyed
    <3>2. a \in Classes /\ Ancestors[a] \subseteq Ancestors[c] /\ IsDecorated(a)
      BY <3>1, AncestorsTransitive DEF IsDecorated, InceptumKinds, Keyed
    <3>3. PICK g : g \in Ancestors[a] \cap DOMAIN ioc
      BY <1>0, <3>2 DEF MetadataOK, DecoratedHeld
    <3>4. h # NotSet /\ g = h
      BY <2>2, <3>2, <3>3
    <3>5. k \in DOMAIN ioc[g].autowire
      BY <1>0, <3>1, <3>2, <3>3 DEF MetadataOK, KeysHeld
    <3> QED BY <3>4, <3>5 DEF HeldKeys, Metadata, h
  <2>4. ASSUME NEW k \in HeldKeys(c) PROVE k \in KeysWritten(Ancestors[c] \cup shared)
    <3>1. h # NotSet /\ k \in DOMAIN ioc[h].autowire
      BY <2>4 DEF HeldKeys, Metadata, h
    <3>2. h \in Ancestors[c] \cap DOMAIN ioc
      BY <2>2, <3>1
    <3>3. PICK e \in Classes : h \in Ancestors[e] /\ \E x \in written[e] : x.kind \in Keyed /\ x.key = k
      BY <1>0, <3>1, <3>2 DEF MetadataOK, KeysOfHeirs
    <3>4. IsDecorated(h)
      BY <1>0, <3>2 DEF MetadataOK, HoldersDecorated
    <3>5. e \in shared
      BY <3>2, <3>3, <3>4
    <3> QED BY <3>3, <3>5 DEF KeysWritten, Keyed
  <2> QED BY <2>1, <2>3, <2>4
<1> QED BY <1>0, <1>1 DEF WiredAsWritten, Refusal, Handled, KeysOf, StaticKeys

(* For any hierarchy of classes and whatever they write: a class is wired     *)
(* with what it and its superclasses have written, and with nothing of        *)
(* another class unless they share metadata (ioc/Decorators.ts and the        *)
(* inspectors of ioc/autoconfig).                                             *)
THEOREM WiringIsAsWritten == DecoratorInit /\ [][DecoratorNext]_decoratorVars => []WiredAsWritten
<1>1. DecoratorInit => DecoratorIInv
  BY DecoratorInitImplies
<1>2. DecoratorIInv /\ [DecoratorNext]_decoratorVars => DecoratorIInv'
  BY DecoratorStepPreserves
<1>3. DecoratorIInv => WiredAsWritten
  BY DecoratorIInvImplies
<1> QED BY <1>1, <1>2, <1>3, PTL

-----------------------------------------------------------------------------
(* CircularityCheck                                                          *)

(* s is a chain of calls along G, left[i] what the i-th has still to call:   *)
(* all others it has to call are done, but for the one that now runs.        *)
Underway(G, s, left, done) ==
  /\ s \in Seq(Defs) /\ left \in Seq(SUBSET Defs) /\ Len(left) = Len(s)
  /\ \A i \in 1..Len(s) :
       /\ left[i] \subseteq G[s[i]]
       /\ \A e \in G[s[i]] : e \in left[i] \/ e \in done \/ (i < Len(s) /\ e = s[i+1])
  /\ \A i \in 1..Len(s) : i < Len(s) => s[i+1] \in G[s[i]]

Acyclic(G) == {d \in Defs : ~ReachesCycle(G, d)}
Allowed == Closure(ctor, asked \cap Acyclic(ctor))

CircTypeOK ==
  /\ ctor \in Graph /\ prop \in Graph
  /\ promise \in [Defs -> {"none", "rejected", "instantiated", "wired"}]
  /\ asked \subseteq Defs
  /\ doing \in {"idle", "constructor", "instantiate", "properties"}

(* The getInstance() calls: none is entered again, and all but one that is   *)
(* being checked have passed the check.                                      *)
CallsInv ==
  /\ Underway(ctor, calls, argsLeft, Begun)
  /\ (doing = "idle") <=> (Len(calls) = 0)
  /\ \A i, j \in 1..Len(calls) : calls[i] = calls[j] => i = j
  /\ \A i \in 1..Len(calls) :
       /\ IF i = Len(calls) /\ doing = "properties"
          THEN promise[calls[i]] = "instantiated" ELSE promise[calls[i]] = "none"
       /\ calls[i] \in Acyclic(ctor) \/ (i = Len(calls) /\ doing = "constructor")
       /\ calls[i] \in Acyclic(ctor) => calls[i] \in Allowed
  /\ Len(calls) > 0 => calls[1] \in asked
  /\ doing = "properties" => argsLeft[Len(argsLeft)] = {}

(* The walk: what has been left reaches no cycle.                            *)
WalkInv ==
  Walking => /\ Underway(Walked(doing), trace, toCheck, Acyclic(Walked(doing)))
             /\ Len(trace) > 0 /\ trace[1] = calls[Len(calls)]

(* The promises, whatever runs.                                              *)
PromiseInv ==
  /\ \A d \in Defs :
       /\ promise[d] = "rejected" => d \in asked /\ d \notin Acyclic(ctor)
       /\ d \in Begun => d \in Acyclic(ctor) /\ d \in Allowed /\ ctor[d] \subseteq Begun
  /\ \A d \in asked : promise[d] = "none" => Len(calls) > 0 /\ d = calls[1]

CircIInv == CircTypeOK /\ CallsInv /\ WalkInv /\ PromiseInv

(* What is on no cycle and what a walk visits, over any graph.               *)
LEMMA ReachesIntro ==
  ASSUME NEW G \in Graph, NEW d \in Defs, NEW X \in SUBSET Defs, d \in X,
         \A x \in X : G[x] \cap X # {}
  PROVE  ReachesCycle(G, d)
  BY DEF ReachesCycle

LEMMA AcyclicIsClosed ==
  ASSUME NEW G \in Graph, NEW d \in Acyclic(G), NEW e \in G[d]
  PROVE  e \in Acyclic(G)
<1>1. d \in Defs /\ e \in Defs
  BY DEF Graph, Acyclic
<1> SUFFICES ASSUME ReachesCycle(G, e)
             PROVE  FALSE
  BY <1>1 DEF Acyclic
<1>2. PICK X \in SUBSET Defs : e \in X /\ \A x \in X : G[x] \cap X # {}
  BY DEF ReachesCycle
<1> DEFINE Y == X \cup {d}
<1>3. Y \in SUBSET Defs /\ d \in Y /\ \A x \in Y : G[x] \cap Y # {}
  BY <1>1, <1>2
<1> HIDE DEF Y
<1>4. ReachesCycle(G, d)
  BY <1>1, <1>3, ReachesIntro
<1> QED BY <1>4 DEF Acyclic

LEMMA AcyclicIfAllAre ==
  ASSUME NEW G \in Graph, NEW d \in Defs, G[d] \subseteq Acyclic(G)
  PROVE  d \in Acyclic(G)
<1> SUFFICES ASSUME ReachesCycle(G, d)
             PROVE  FALSE
  BY DEF Acyclic
<1>1. PICK X \in SUBSET Defs : d \in X /\ \A x \in X : G[x] \cap X # {}
  BY DEF ReachesCycle
<1>2. PICK e \in Defs : e \in G[d] /\ e \in X
  BY <1>1 DEF Graph
<1>3. ReachesCycle(G, e)
  BY <1>1, <1>2, ReachesIntro
<1> QED BY <1>2, <1>3 DEF Acyclic

LEMMA ClosureContains ==
  ASSUME NEW G \in Graph, NEW D \in SUBSET Defs
  PROVE  /\ D \subseteq Closure(G, D) /\ Closure(G, D) \subseteq Defs
         /\ \A x \in Closure(G, D) : G[x] \subseteq Closure(G, D)
  BY DEF Closure, Graph

LEMMA ClosureLeast ==
  ASSUME NEW G \in Graph, NEW D \in SUBSET Defs, NEW X \in SUBSET Defs,
         D \subseteq X, \A y \in X : G[y] \subseteq X
  PROVE  Closure(G, D) \subseteq X
  BY DEF Closure

LEMMA ClosureGrows ==
  ASSUME NEW G \in Graph, NEW D \in SUBSET Defs, NEW E \in SUBSET Defs, D \subseteq E
  PROVE  Closure(G, D) \subseteq Closure(G, E)
  BY ClosureContains, ClosureLeast

-----------------------------------------------------------------------------
(* Chains of calls.                                                          *)
LEMMA UnderwayBegins ==
  ASSUME NEW G \in Graph, NEW d \in Defs, NEW done
  PROVE  Underway(G, <<d>>, <<G[d]>>, done)
  BY DEF Underway, Graph

LEMMA LastShrinks ==
  ASSUME NEW left \in Seq(SUBSET Defs), Len(left) > 0, NEW e
  PROVE  /\ Taken(left, e) \in Seq(SUBSET Defs) /\ Len(Taken(left, e)) = Len(left)
         /\ \A i \in 1..Len(left) : Taken(left, e)[i] = IF i = Len(left) THEN left[i] \ {e} ELSE left[i]
<1> DEFINE rest == [left EXCEPT ![Len(left)] = @ \ {e}]
<1>1. DOMAIN left = 1..Len(left) /\ Len(left) \in Nat /\ \A i \in 1..Len(left) : left[i] \in SUBSET Defs
  OBVIOUS
<1>2. \A i \in 1..Len(left) : rest[i] = IF i = Len(left) THEN left[i] \ {e} ELSE left[i]
  BY <1>1
<1>3. DOMAIN rest = 1..Len(left) /\ \A i \in 1..Len(left) : rest[i] \in SUBSET Defs
  BY <1>1, <1>2
<1>4. rest = [i \in 1..Len(left) |-> rest[i]]
  BY <1>1
<1>5. rest \in [1..Len(left) -> SUBSET Defs]
  BY <1>3, <1>4
<1>6. rest = Taken(left, e)
  BY DEF Taken
<1> HIDE DEF rest
<1> DEFINE n == Len(left)
<1>7. n \in Nat /\ rest \in [1..n -> SUBSET Defs]
  BY <1>1, <1>5
<1> HIDE DEF n
<1>8. rest \in Seq(SUBSET Defs) /\ Len(rest) = n
  BY <1>7
<1> QED BY <1>2, <1>6, <1>8 DEF n

LEMMA UnderwayDescends ==
  ASSUME NEW G \in Graph, NEW s, NEW left, NEW done, Underway(G, s, left, done), Len(s) > 0,
         NEW e \in left[Len(left)]
  PROVE  Underway(G, Append(s, e), Append(Taken(left, e), G[e]), done)
<1>1. /\ s \in Seq(Defs) /\ left \in Seq(SUBSET Defs) /\ Len(left) = Len(s)
      /\ Len(s) \in Nat /\ e \in G[s[Len(s)]] /\ s[Len(s)] \in Defs /\ e \in Defs /\ G[e] \in SUBSET Defs
  BY DEF Underway, Graph
<1> DEFINE rest == Taken(left, e)
<1>2. /\ rest \in Seq(SUBSET Defs) /\ Len(rest) = Len(s)
      /\ \A i \in 1..Len(s) : rest[i] = IF i = Len(s) THEN left[i] \ {e} ELSE left[i]
  <2>1. left \in Seq(SUBSET Defs) /\ Len(left) > 0
    BY <1>1
  <2>2. /\ rest \in Seq(SUBSET Defs) /\ Len(rest) = Len(left)
        /\ \A i \in 1..Len(left) : rest[i] = IF i = Len(left) THEN left[i] \ {e} ELSE left[i]
    BY <2>1, LastShrinks
  <2> QED BY <1>1, <2>2
<1> HIDE DEF rest
<1> DEFINE t == Append(s, e)
           r == Append(rest, G[e])
<1>3. /\ t \in Seq(Defs) /\ Len(t) = Len(s) + 1 /\ t[Len(s) + 1] = e
      /\ \A i \in 1..Len(s) : t[i] = s[i]
  BY <1>1
<1>4. /\ r \in Seq(SUBSET Defs) /\ Len(r) = Len(s) + 1 /\ r[Len(s) + 1] = G[e]
      /\ \A i \in 1..Len(s) : r[i] = rest[i]
  BY <1>1, <1>2
<1> HIDE DEF t, r
<1>5. ASSUME NEW i \in 1..Len(t)
      PROVE  /\ r[i] \subseteq G[t[i]]
             /\ \A x \in G[t[i]] : x \in r[i] \/ x \in done \/ (i < Len(t) /\ x = t[i+1])
             /\ i < Len(t) => t[i+1] \in G[t[i]]
  <2>1. CASE i = Len(s) + 1
    BY <1>1, <1>3, <1>4, <2>1
  <2>2. CASE i = Len(s)
    <3>0. i \in 1..Len(s) /\ i < Len(t)
      BY <1>1, <1>3, <2>2
    <3>1. t[i] = s[i] /\ t[i+1] = e /\ r[i] = left[i] \ {e} /\ i < Len(t)
      BY <3>0, <1>2, <1>3, <1>4, <2>2
    <3>2. /\ left[i] \subseteq G[s[i]]
          /\ \A x \in G[s[i]] : x \in left[i] \/ x \in done
      BY <1>1, <2>2 DEF Underway
    <3> QED BY <1>1, <2>2, <3>1, <3>2
  <2>3. CASE i < Len(s)
    <3>0. i \in 1..Len(s) /\ i < Len(t) /\ i + 1 \in 1..Len(s) /\ i # Len(s)
      BY <1>1, <1>3, <2>3
    <3>1. t[i] = s[i] /\ t[i+1] = s[i+1] /\ r[i] = left[i] /\ i < Len(t)
      BY <3>0, <1>2, <1>3, <1>4
    <3>2. /\ left[i] \subseteq G[s[i]] /\ s[i+1] \in G[s[i]]
          /\ \A x \in G[s[i]] : x \in left[i] \/ x \in done \/ x = s[i+1]
      BY <1>1, <1>3, <2>3 DEF Underway
    <3> QED BY <3>1, <3>2
  <2> QED BY <1>1, <1>3, <2>1, <2>2, <2>3
<1>6. Underway(G, t, r, done)
  BY <1>3, <1>4, <1>5 DEF Underway
<1> QED BY <1>6 DEF t, r, rest

LEMMA UnderwaySkips ==
  ASSUME NEW G \in Graph, NEW s, NEW left, NEW done, Underway(G, s, left, done), Len(s) > 0,
         NEW e \in done
  PROVE  Underway(G, s, Taken(left, e), done)
<1>1. s \in Seq(Defs) /\ left \in Seq(SUBSET Defs) /\ Len(left) = Len(s) /\ Len(s) \in Nat
  BY DEF Underway
<1> DEFINE rest == Taken(left, e)
<1>2. /\ rest \in Seq(SUBSET Defs) /\ Len(rest) = Len(s)
      /\ \A i \in 1..Len(s) : rest[i] = IF i = Len(s) THEN left[i] \ {e} ELSE left[i]
  <2>1. left \in Seq(SUBSET Defs) /\ Len(left) > 0
    BY <1>1
  <2>2. /\ rest \in Seq(SUBSET Defs) /\ Len(rest) = Len(left)
        /\ \A i \in 1..Len(left) : rest[i] = IF i = Len(left) THEN left[i] \ {e} ELSE left[i]
    BY <2>1, LastShrinks
  <2> QED BY <1>1, <2>2
<1> HIDE DEF rest
<1>3. Underway(G, s, rest, done)
  BY <1>1, <1>2 DEF Underway
<1> QED BY <1>3 DEF rest

LEMMA FrontIs ==
  ASSUME NEW S, NEW s \in Seq(S), Len(s) > 0
  PROVE  /\ Front(s) \in Seq(S) /\ Len(Front(s)) = Len(s) - 1
         /\ \A i \in 1..Len(s) - 1 : Front(s)[i] = s[i]
<1> DEFINE n == Len(s) - 1
<1>1. Front(s) = SubSeq(s, 1, n)
  BY DEF Front
<1>2. n \in Nat /\ 1 \in 1..Len(s) + 1 /\ n \in 0..Len(s)
  OBVIOUS
<1> HIDE DEF n
<1>3. /\ SubSeq(s, 1, n) \in Seq(S)
      /\ Len(SubSeq(s, 1, n)) = IF 1 <= n THEN n - 1 + 1 ELSE 0
      /\ \A i \in 1..n - 1 + 1 : SubSeq(s, 1, n)[i] = s[1 + i - 1]
  BY <1>2, SubSeqProperties
<1>4. Len(SubSeq(s, 1, n)) = n /\ \A i \in 1..n : SubSeq(s, 1, n)[i] = s[i]
  BY <1>2, <1>3
<1> QED BY <1>1, <1>3, <1>4 DEF n

LEMMA UnderwayAscends ==
  ASSUME NEW G \in Graph, NEW s, NEW left, NEW done, Underway(G, s, left, done), Len(s) > 0,
         NEW more, done \subseteq more, s[Len(s)] \in more
  PROVE  Underway(G, Front(s), Front(left), more)
<1>1. s \in Seq(Defs) /\ left \in Seq(SUBSET Defs) /\ Len(left) = Len(s) /\ Len(s) \in Nat
  BY DEF Underway
<1> DEFINE t == Front(s)
           r == Front(left)
<1>2. t \in Seq(Defs) /\ Len(t) = Len(s) - 1 /\ \A i \in 1..Len(s) - 1 : t[i] = s[i]
  BY <1>1, FrontIs
<1>3. r \in Seq(SUBSET Defs) /\ Len(r) = Len(s) - 1 /\ \A i \in 1..Len(s) - 1 : r[i] = left[i]
  BY <1>1, FrontIs
<1> HIDE DEF t, r
<1>4. ASSUME NEW i \in 1..Len(t)
      PROVE  /\ r[i] \subseteq G[t[i]]
             /\ \A x \in G[t[i]] : x \in r[i] \/ x \in more \/ (i < Len(t) /\ x = t[i+1])
             /\ i < Len(t) => t[i+1] \in G[t[i]]
  <2>1. i \in 1..Len(s) /\ i < Len(s) /\ t[i] = s[i] /\ r[i] = left[i]
    BY <1>1, <1>2, <1>3
  <2>2. CASE i + 1 = Len(s)
    BY <1>1, <1>2, <2>1, <2>2 DEF Underway
  <2>3. CASE i + 1 < Len(s)
    <3>1. t[i+1] = s[i+1]
      BY <1>1, <1>2, <2>1, <2>3
    <3> QED BY <1>1, <1>2, <2>1, <2>3, <3>1 DEF Underway
  <2> QED BY <1>1, <2>1, <2>2, <2>3
<1>5. Underway(G, t, r, more)
  BY <1>2, <1>3, <1>4 DEF Underway
<1> QED BY <1>5 DEF t, r

LEMMA UnderwayEnds ==
  ASSUME NEW G \in Graph, NEW s, NEW left, NEW done, Underway(G, s, left, done), Len(s) > 0,
         left[Len(left)] = {}
  PROVE  G[s[Len(s)]] \subseteq done
  BY DEF Underway

LEMMA UnderwayMeets ==
  ASSUME NEW G \in Graph, NEW s, NEW left, NEW done, Underway(G, s, left, done), Len(s) > 0,
         NEW e \in G[s[Len(s)]], NEW j \in 1..Len(s), s[j] = e
  PROVE  \A i \in 1..Len(s) : s[i] \notin Acyclic(G)
<1> DEFINE X == {s[i] : i \in 1..Len(s)}
<1>1. s \in Seq(Defs) /\ Len(s) \in Nat /\ X \in SUBSET Defs
  BY DEF Underway
<1>2. ASSUME NEW i \in 1..Len(s)
      PROVE  G[s[i]] \cap X # {}
  <2>1. CASE i = Len(s)
    BY <2>1
  <2>2. CASE i < Len(s)
    <3>1. s[i+1] \in G[s[i]] /\ s[i+1] \in X
      BY <1>1, <2>2 DEF Underway
    <3> QED BY <3>1
  <2> QED BY <1>1, <2>1, <2>2
<1>3. \A x \in X : G[x] \cap X # {}
  BY <1>2
<1>4. ASSUME NEW i \in 1..Len(s)
      PROVE  ReachesCycle(G, s[i])
  <2>1. s[i] \in X /\ s[i] \in Defs
    BY <1>1
  <2> HIDE DEF X
  <2> QED BY <1>1, <1>3, <2>1, ReachesIntro
<1> QED BY <1>4 DEF Acyclic

-----------------------------------------------------------------------------
LEMMA CircInitImplies == CircularityInit => CircIInv
<1> SUFFICES ASSUME CircularityInit
             PROVE  CircIInv
  OBVIOUS
<1>1. CircTypeOK
  BY DEF CircularityInit, CircTypeOK, Graph
<1>2. CallsInv
  BY DEF CircularityInit, CallsInv, Underway
<1>3. WalkInv /\ PromiseInv
  BY DEF CircularityInit, WalkInv, PromiseInv, Walking, Begun
<1> QED BY <1>1, <1>2, <1>3 DEF CircIInv

(* While a getInstance() runs, no graph changes.                             *)
LEMMA GraphsFrozen ==
  ASSUME ctor' = ctor, prop' = prop
  PROVE  /\ Uses' = Uses /\ Acyclic(ctor)' = Acyclic(ctor) /\ Acyclic(Uses)' = Acyclic(Uses)
         /\ \A w : Walked(w)' = Walked(w) /\ Acyclic(Walked(w))' = Acyclic(Walked(w))
<1>1. Uses' = Uses
  BY DEF Uses
<1>2. \A w : Walked(w)' = Walked(w)
  BY <1>1 DEF Walked
<1> QED BY <1>1, <1>2 DEF Acyclic, ReachesCycle

LEMMA CircGraphs ==
  ASSUME CircTypeOK
  PROVE  /\ ctor \in Graph /\ Uses \in Graph /\ Acyclic(ctor) \subseteq Defs
         /\ \A w : Walked(w) \in Graph
         /\ Allowed \subseteq Defs /\ \A x \in Allowed : ctor[x] \subseteq Allowed
         /\ asked \cap Acyclic(ctor) \subseteq Allowed
<1>1. ctor \in Graph /\ Uses \in Graph /\ Acyclic(ctor) \subseteq Defs
  BY DEF CircTypeOK, Uses, Graph, Acyclic
<1>2. \A w : Walked(w) \in Graph
  BY <1>1 DEF Walked
<1> DEFINE D == asked \cap Acyclic(ctor)
<1>3. D \in SUBSET Defs
  BY DEF CircTypeOK
<1> HIDE DEF D
<1>4. D \subseteq Closure(ctor, D) /\ Closure(ctor, D) \subseteq Defs
      /\ \A x \in Closure(ctor, D) : ctor[x] \subseteq Closure(ctor, D)
  BY <1>1, <1>3, ClosureContains
<1> QED BY <1>1, <1>2, <1>4 DEF Allowed, D

(* A definition that has not begun takes another reference.                  *)
LEMMA AcyclicShrinks ==
  ASSUME NEW G \in Graph, NEW H \in Graph, \A x \in Defs : G[x] \subseteq H[x]
  PROVE  Acyclic(H) \subseteq Acyclic(G)
<1> SUFFICES ASSUME NEW d \in Defs, ReachesCycle(G, d)
             PROVE  ReachesCycle(H, d)
  BY DEF Acyclic
<1>1. PICK X \in SUBSET Defs : d \in X /\ \A x \in X : G[x] \cap X # {}
  BY DEF ReachesCycle
<1>2. \A x \in X : H[x] \cap X # {}
  BY <1>1
<1> QED BY <1>1, <1>2, ReachesIntro

LEMMA AcyclicWithin ==
  ASSUME NEW G \in Graph, NEW H \in Graph, NEW M \in SUBSET Defs,
         \A x \in M : H[x] = G[x] /\ G[x] \subseteq M /\ x \in Acyclic(G)
  PROVE  M \subseteq Acyclic(H)
<1> SUFFICES ASSUME NEW d \in M, ReachesCycle(H, d)
             PROVE  FALSE
  BY DEF Acyclic
<1>1. PICK X \in SUBSET Defs : d \in X /\ \A x \in X : H[x] \cap X # {}
  BY DEF ReachesCycle
<1> DEFINE Y == X \cap M
<1>2. Y \in SUBSET Defs /\ d \in Y /\ \A x \in Y : G[x] \cap Y # {}
  BY <1>1
<1> HIDE DEF Y
<1>3. ReachesCycle(G, d)
  BY <1>2, ReachesIntro
<1> QED BY <1>3 DEF Acyclic

LEMMA CircConfigures ==
  ASSUME CircIInv, NEW d \in Defs, NEW e \in Defs,
         constructorParamByRef(d, e) \/ setPropertyByRef(d, e)
  PROVE  CircIInv'
<1>1. /\ doing = "idle" /\ doing' = "idle" /\ d \notin Begun
      /\ promise' = promise /\ calls' = calls /\ argsLeft' = argsLeft /\ asked' = asked
      /\ ctor \in Graph /\ ctor' \in Graph /\ prop' \in Graph
      /\ \A x \in Defs : ctor[x] \subseteq ctor'[x] /\ (x # d => ctor'[x] = ctor[x])
  BY DEF constructorParamByRef, setPropertyByRef, Configurable, CircIInv, CircTypeOK, Graph, Begun
<1>2. Len(calls) = 0 /\ calls \in Seq(Defs) /\ argsLeft \in Seq(SUBSET Defs) /\ Len(argsLeft) = 0
  BY <1>1 DEF CircIInv, CallsInv, Underway
<1>3. CircTypeOK /\ CircTypeOK' /\ Begun' = Begun
  BY <1>1 DEF CircIInv, CircTypeOK, Begun
<1>4. Acyclic(ctor') \subseteq Acyclic(ctor)
  BY <1>1, AcyclicShrinks
<1>5. Begun \in SUBSET Defs /\ \A x \in Begun : /\ x \in Acyclic(ctor) /\ x \in Allowed
                                            /\ ctor[x] \subseteq Begun /\ ctor'[x] = ctor[x]
  BY <1>1 DEF CircIInv, PromiseInv, Begun
<1>6. Begun \subseteq Acyclic(ctor')
  BY <1>1, <1>5, AcyclicWithin
<1>7. Allowed \subseteq Allowed'
  <2> DEFINE D == asked \cap Acyclic(ctor)
             E == asked \cap Acyclic(ctor')
  <2>1. D \subseteq E
    <3>1. \A x \in D : promise[x] # "none" /\ promise[x] # "rejected"
      BY <1>2 DEF CircIInv, PromiseInv, CircTypeOK
    <3>2. D \subseteq Begun
      BY <3>1, <1>3 DEF CircTypeOK, Begun
    <3> QED BY <3>2, <1>6
  <2>2. D \in SUBSET Defs /\ E \in SUBSET Defs
    BY <1>3 DEF CircTypeOK
  <2>3. Allowed = Closure(ctor, D) /\ Allowed' = Closure(ctor', E)
    BY <1>1 DEF Allowed, Closure, Acyclic, ReachesCycle
  <2> HIDE DEF D, E
  <2>4. /\ E \subseteq Closure(ctor', E) /\ Closure(ctor', E) \in SUBSET Defs
        /\ \A x \in Closure(ctor', E) : ctor[x] \subseteq Closure(ctor', E)
    <3>1. /\ E \subseteq Closure(ctor', E) /\ Closure(ctor', E) \subseteq Defs
          /\ \A x \in Closure(ctor', E) : ctor'[x] \subseteq Closure(ctor', E)
      BY <1>1, <2>2, ClosureContains
    <3> QED BY <3>1, <1>1
  <2>5. Closure(ctor, D) \subseteq Closure(ctor', E)
    BY <2>1, <2>2, <2>4, <1>1, ClosureLeast
  <2> QED BY <2>3, <2>5
<1>8. Acyclic(ctor)' = Acyclic(ctor')
  BY DEF Acyclic, ReachesCycle
<1>9. CallsInv'
  BY <1>1, <1>2 DEF CallsInv, Underway
<1>10. WalkInv'
  BY <1>1 DEF WalkInv, Walking
<1>11. PromiseInv'
  <2>1. \A x \in Defs : promise[x] = "rejected" => x \in asked /\ x \notin Acyclic(ctor')
    BY <1>4 DEF CircIInv, PromiseInv
  <2>2. \A x \in Begun : x \in Acyclic(ctor') /\ x \in Allowed' /\ ctor'[x] \subseteq Begun
    BY <1>5, <1>6, <1>7
  <2>3. \A x \in asked : promise[x] # "none"
    <3>1. \A x \in asked : promise[x] = "none" => Len(calls) > 0
      BY DEF CircIInv, PromiseInv
    <3> QED BY <3>1, <1>2
  <2> QED BY <2>1, <2>2, <2>3, <1>1, <1>3, <1>8 DEF PromiseInv
<1> QED BY <1>3, <1>9, <1>10, <1>11 DEF CircIInv

LEMMA WalkBegins ==
  ASSUME CircTypeOK, ctor' = ctor, prop' = prop, NEW w, NEW d \in Defs, Walk(w, d),
         calls'[Len(calls')] = d
  PROVE  WalkInv'
<1>1. Underway(Walked(w), <<d>>, <<Walked(w)[d]>>, Acyclic(Walked(w)))
  BY CircGraphs, UnderwayBegins
<1>2. /\ doing' = w /\ trace' = <<d>> /\ toCheck' = <<Walked(w)[d]>>
      /\ Walked(doing)' = Walked(w) /\ Acyclic(Walked(doing))' = Acyclic(Walked(w))
  BY DEF Walk, Walked, Uses, Acyclic, ReachesCycle
<1>3. Underway(Walked(doing), trace, toCheck, Acyclic(Walked(doing)))'
  BY <1>1, <1>2 DEF Underway
<1> QED BY <1>2, <1>3 DEF WalkInv

LEMMA CircAsks ==
  ASSUME CircIInv, NEW d \in Defs, getInstance(d)
  PROVE  CircIInv'
<1>1. /\ doing = "idle" /\ promise[d] = "none" /\ asked' = asked \cup {d}
      /\ calls' = Append(calls, d) /\ argsLeft' = Append(argsLeft, ctor[d])
      /\ doing' = "constructor" /\ ctor' = ctor /\ prop' = prop /\ promise' = promise
      /\ Walk("constructor", d)
  BY DEF getInstance, Call, Walk
<1>2. calls = <<>> /\ argsLeft = <<>>
  <2>1. calls \in Seq(Defs) /\ argsLeft \in Seq(SUBSET Defs) /\ Len(argsLeft) = Len(calls) /\ Len(calls) = 0
    BY <1>1 DEF CircIInv, CallsInv, Underway
  <2> QED BY <2>1
<1>3. calls' = <<d>> /\ argsLeft' = <<ctor[d]>> /\ Len(calls') = 1 /\ calls'[1] = d
  BY <1>1, <1>2
<1>4. CircTypeOK' /\ CircTypeOK
  BY <1>1 DEF CircIInv, CircTypeOK
<1>5. WalkInv'
  BY <1>1, <1>3, <1>4, WalkBegins
<1>6. Begun' = Begun /\ Acyclic(ctor)' = Acyclic(ctor) /\ Acyclic(Uses)' = Acyclic(Uses)
  BY <1>1, GraphsFrozen DEF Begun
<1>7. Allowed \subseteq Allowed' /\ asked' \cap Acyclic(ctor) \subseteq Allowed'
  <2> DEFINE D == asked \cap Acyclic(ctor)
             E == asked' \cap Acyclic(ctor)
  <2>1. D \in SUBSET Defs /\ E \in SUBSET Defs /\ D \subseteq E /\ ctor \in Graph
    BY <1>1, <1>4, CircGraphs
  <2>2. Allowed = Closure(ctor, D) /\ Allowed' = Closure(ctor, E)
    BY <1>1, <1>6 DEF Allowed, Closure
  <2> HIDE DEF D, E
  <2>3. Closure(ctor, D) \subseteq Closure(ctor, E) /\ E \subseteq Closure(ctor, E)
    BY <2>1, ClosureGrows, ClosureContains
  <2> QED BY <2>2, <2>3 DEF E
<1>8. d \in Acyclic(ctor)' => d \in Allowed'
  BY <1>1, <1>6, <1>7
<1>9. CallsInv'
  <2>1. Underway(ctor, <<d>>, <<ctor[d]>>, Begun)
    BY <1>4, CircGraphs, UnderwayBegins
  <2>2. Underway(ctor, calls, argsLeft, Begun)'
    BY <2>1, <1>1, <1>3, <1>6 DEF Underway
  <2> QED BY <2>2, <1>1, <1>3, <1>8 DEF CallsInv
<1>10. PromiseInv'
  BY <1>1, <1>2, <1>3, <1>6, <1>7 DEF CircIInv, PromiseInv, CircTypeOK
<1> QED BY <1>4, <1>5, <1>9, <1>10 DEF CircIInv

LEMMA CircAsksForArgument ==
  ASSUME CircIInv, NEW e \in Defs, getParamDefinitionValue(e)
  PROVE  CircIInv'
<1> DEFINE n == Len(calls)
           c == calls[Len(calls)]
<1>1. /\ doing = "instantiate" /\ e \in argsLeft[Len(argsLeft)]
      /\ ctor' = ctor /\ prop' = prop /\ promise' = promise /\ asked' = asked
  BY DEF getParamDefinitionValue, Last
<1>2. /\ Underway(ctor, calls, argsLeft, Begun) /\ n \in Nat \ {0} /\ Len(argsLeft) = n /\ n > 0
      /\ c \in Defs /\ e \in ctor[c] /\ c \in Acyclic(ctor) /\ calls \in Seq(Defs) /\ ctor \in Graph
  BY <1>1, CircGraphs DEF CircIInv, CallsInv, Underway
<1>3. CircTypeOK /\ (doing' \in {"constructor", "instantiate"} => CircTypeOK')
  BY <1>1 DEF CircIInv, CircTypeOK
<1>4. /\ Begun' = Begun /\ Acyclic(ctor)' = Acyclic(ctor) /\ Acyclic(Uses)' = Acyclic(Uses)
      /\ Allowed' = Allowed
  BY <1>1, GraphsFrozen DEF Begun, Allowed, Closure
<1>5. e \in Acyclic(ctor) /\ e \in Allowed
  <2>1. e \in Acyclic(ctor)
    BY <1>2, AcyclicIsClosed
  <2>2. c \in Allowed
    BY <1>2 DEF CircIInv, CallsInv
  <2> QED BY <2>1, <2>2, <1>2, <1>3, CircGraphs
<1>6. CASE promise[e] # "none"
  <2>1. argsLeft' = Taken(argsLeft, e) /\ calls' = calls /\ doing' = doing /\ trace' = trace /\ toCheck' = toCheck
    BY <1>6 DEF getParamDefinitionValue
  <2>2. e \in Begun
    BY <1>5, <1>6 DEF CircIInv, CircTypeOK, PromiseInv, Begun
  <2>3. Underway(ctor, calls, Taken(argsLeft, e), Begun)
    BY <1>2, <2>2, UnderwaySkips
  <2>4. Underway(ctor, calls, argsLeft, Begun)'
    BY <2>1, <2>3, <1>1, <1>4
  <2>5. CallsInv'
    BY <2>1, <2>4, <1>1, <1>4 DEF CircIInv, CallsInv
  <2>6. WalkInv'
    BY <2>1, <1>1 DEF WalkInv, Walking
  <2>7. PromiseInv'
    BY <2>1, <1>1, <1>4 DEF CircIInv, PromiseInv
  <2> QED BY <1>1, <1>3, <2>1, <2>5, <2>6, <2>7 DEF CircIInv
<1>7. CASE promise[e] = "none"
  <2>1. /\ calls' = Append(calls, e) /\ argsLeft' = Append(Taken(argsLeft, e), ctor[e])
        /\ doing' = "constructor" /\ Walk("constructor", e)
    BY <1>7 DEF getParamDefinitionValue, Call, Walk
  <2>2. /\ Len(calls') = n + 1 /\ calls'[n + 1] = e
        /\ \A i \in 1..n : calls'[i] = calls[i]
    BY <1>2, <2>1
  <2>3. WalkInv'
    BY <1>1, <1>3, <2>1, <2>2, WalkBegins
  <2>4. Underway(ctor, Append(calls, e), Append(Taken(argsLeft, e), ctor[e]), Begun)
    BY <1>1, <1>2, UnderwayDescends
  <2>5. Underway(ctor, calls, argsLeft, Begun)'
    BY <2>1, <2>4, <1>1, <1>4
  <2>6. \A i \in 1..n : calls[i] # e
    <3> SUFFICES ASSUME NEW i \in 1..n, calls[i] = e
                 PROVE  FALSE
      OBVIOUS
    <3>1. \A k \in 1..n : calls[k] \notin Acyclic(ctor)
      BY <1>2, UnderwayMeets
    <3> QED BY <3>1, <1>2
  <2>7. \A i, j \in 1..n + 1 : calls'[i] = calls'[j] => i = j
    BY <1>2, <2>2, <2>6 DEF CircIInv, CallsInv
  <2>8. \A i \in 1..n : /\ calls[i] \in Acyclic(ctor) /\ calls[i] \in Allowed
                        /\ promise[calls[i]] = "none"
    BY <1>1 DEF CircIInv, CallsInv
  <2>9. calls[1] \in asked
    BY <1>2 DEF CircIInv, CallsInv
  <2>10. CallsInv'
    <3>1. \A i \in 1..Len(calls') : /\ calls'[i] \in Acyclic(ctor)' /\ calls'[i] \in Allowed'
                                    /\ promise'[calls'[i]] = "none"
      BY <1>1, <1>2, <1>4, <1>5, <1>7, <2>2, <2>8
    <3>2. /\ Len(calls') > 0 /\ calls'[1] \in asked' /\ doing' = "constructor"
          /\ \A i, j \in 1..Len(calls') : calls'[i] = calls'[j] => i = j
      BY <1>1, <1>2, <2>1, <2>2, <2>7, <2>9
    <3> QED BY <3>1, <3>2, <2>5 DEF CallsInv
  <2>11. PromiseInv'
    <3>2. calls'[1] = calls[1] /\ Len(calls') > 0
      BY <1>2, <2>2
    <3> QED BY <3>2, <1>1, <1>2, <1>4, <2>1 DEF CircIInv, PromiseInv
  <2> QED BY <1>3, <2>1, <2>3, <2>10, <2>11 DEF CircIInv
<1> QED BY <1>6, <1>7

LEMMA CircInstantiates ==
  ASSUME CircIInv, instantiate
  PROVE  CircIInv'
<1> DEFINE n == Len(calls)
           c == calls[Len(calls)]
<1>1. /\ doing = "instantiate" /\ argsLeft[Len(argsLeft)] = {}
      /\ promise' = [promise EXCEPT ![c] = "instantiated"]
      /\ Walk("properties", c) /\ doing' = "properties"
      /\ ctor' = ctor /\ prop' = prop /\ asked' = asked /\ calls' = calls /\ argsLeft' = argsLeft
  BY DEF instantiate, Last, Walk
<1>2. /\ Underway(ctor, calls, argsLeft, Begun) /\ n \in Nat \ {0} /\ Len(argsLeft) = n /\ n > 0
      /\ c \in Defs /\ c \in Acyclic(ctor) /\ calls \in Seq(Defs) /\ ctor \in Graph
  BY <1>1, CircGraphs DEF CircIInv, CallsInv, Underway
<1>3. CircTypeOK /\ CircTypeOK'
  BY <1>1, <1>2 DEF CircIInv, CircTypeOK
<1>4. /\ Acyclic(ctor)' = Acyclic(ctor) /\ Acyclic(Uses)' = Acyclic(Uses)
      /\ Allowed' = Allowed
  BY <1>1, GraphsFrozen DEF Allowed, Closure
<1>5. Begun' = Begun \cup {c}
  BY <1>1, <1>2, <1>3 DEF Begun, CircTypeOK
<1>6. WalkInv'
  BY <1>1, <1>2, <1>3, WalkBegins
<1>7. ctor[c] \subseteq Begun
  BY <1>1, <1>2, UnderwayEnds
<1>8. CallsInv'
  <2>1. Underway(ctor, calls, argsLeft, Begun)'
    BY <1>1, <1>2, <1>5 DEF Underway
  <2>2. \A i, j \in 1..n : calls[i] = calls[j] => i = j
    BY DEF CircIInv, CallsInv
  <2>3. \A i \in 1..n : IF i = n THEN promise'[calls[i]] = "instantiated" ELSE promise'[calls[i]] = "none"
    BY <1>1, <1>2, <1>3, <2>2 DEF CircIInv, CallsInv, CircTypeOK
  <2> QED BY <2>1, <2>3, <1>1, <1>2, <1>4 DEF CircIInv, CallsInv
<1>9. PromiseInv'
  <2>1. c \in Allowed
    BY <1>2 DEF CircIInv, CallsInv
  <2>2. \A x \in Defs : promise'[x] = IF x = c THEN "instantiated" ELSE promise[x]
    BY <1>1, <1>3 DEF CircTypeOK
  <2> QED BY <2>1, <2>2, <1>1, <1>2, <1>4, <1>5, <1>7 DEF CircIInv, PromiseInv
<1> QED BY <1>3, <1>6, <1>8, <1>9 DEF CircIInv

LEMMA OnlyTheWalk ==
  ASSUME CircIInv, ctor' = ctor, prop' = prop, promise' = promise, asked' = asked,
         calls' = calls, argsLeft' = argsLeft, doing' = doing
  PROVE  /\ Walked(doing)' = Walked(doing) /\ Acyclic(Walked(doing))' = Acyclic(Walked(doing))
         /\ CallsInv' /\ PromiseInv'
<1>1. Walked(doing)' = Walked(doing)
  BY GraphsFrozen DEF Walked
<1>2. /\ Acyclic(ctor)' = Acyclic(ctor) /\ Acyclic(Uses)' = Acyclic(Uses)
      /\ Acyclic(Walked(doing))' = Acyclic(Walked(doing)) /\ Allowed' = Allowed /\ Begun' = Begun
  BY <1>1, GraphsFrozen DEF Allowed, Closure, Begun, Acyclic, ReachesCycle
<1> QED BY <1>1, <1>2 DEF CircIInv, CallsInv, PromiseInv

LEMMA CircDescends ==
  ASSUME CircIInv, NEW e \in Defs, descend(e)
  PROVE  CircIInv'
<1>1. /\ Walking /\ e \in toCheck[Len(toCheck)]
      /\ trace' = Append(trace, e) /\ toCheck' = Append(Taken(toCheck, e), Walked(doing)[e])
      /\ ctor' = ctor /\ prop' = prop /\ promise' = promise /\ asked' = asked
      /\ calls' = calls /\ argsLeft' = argsLeft /\ doing' = doing
  BY DEF descend, Last
<1>2. CircTypeOK /\ CircTypeOK'
  BY <1>1 DEF CircIInv, CircTypeOK
<1>3. /\ Walked(doing)' = Walked(doing) /\ Acyclic(Walked(doing))' = Acyclic(Walked(doing))
      /\ CallsInv' /\ PromiseInv'
  BY <1>1, OnlyTheWalk
<1>4. WalkInv'
  <2>1. /\ Underway(Walked(doing), trace, toCheck, Acyclic(Walked(doing))) /\ Len(trace) > 0
        /\ trace[1] = calls[Len(calls)] /\ trace \in Seq(Defs) /\ Walked(doing) \in Graph
    BY <1>1, <1>2, CircGraphs DEF CircIInv, WalkInv, Underway
  <2>2. Underway(Walked(doing), trace', toCheck', Acyclic(Walked(doing)))
    BY <1>1, <2>1, UnderwayDescends
  <2>3. Underway(Walked(doing), trace, toCheck, Acyclic(Walked(doing)))'
    BY <2>2, <1>3
  <2>4. Len(trace') > 0 /\ trace'[1] = trace[1]
    BY <1>1, <2>1
  <2> QED BY <2>1, <2>3, <2>4, <1>1 DEF WalkInv
<1> QED BY <1>2, <1>3, <1>4 DEF CircIInv

LEMMA CircAscends ==
  ASSUME CircIInv, ascend
  PROVE  CircIInv'
<1> DEFINE m == Len(trace)
           x == trace[Len(trace)]
<1>1. /\ Walking /\ toCheck[Len(toCheck)] = {} /\ m > 1
      /\ trace' = Front(trace) /\ toCheck' = Front(toCheck)
      /\ ctor' = ctor /\ prop' = prop /\ promise' = promise /\ asked' = asked
      /\ calls' = calls /\ argsLeft' = argsLeft /\ doing' = doing
  BY DEF ascend, Last
<1>2. CircTypeOK /\ CircTypeOK'
  BY <1>1 DEF CircIInv, CircTypeOK
<1>3. /\ Walked(doing)' = Walked(doing) /\ Acyclic(Walked(doing))' = Acyclic(Walked(doing))
      /\ CallsInv' /\ PromiseInv'
  BY <1>1, OnlyTheWalk
<1>4. WalkInv'
  <2>1. /\ Underway(Walked(doing), trace, toCheck, Acyclic(Walked(doing))) /\ m > 0 /\ m \in Nat
        /\ trace[1] = calls[Len(calls)] /\ trace \in Seq(Defs) /\ x \in Defs
        /\ Walked(doing) \in Graph
    BY <1>1, <1>2, CircGraphs DEF CircIInv, WalkInv, Underway
  <2>2. x \in Acyclic(Walked(doing))
    BY <1>1, <2>1, UnderwayEnds, AcyclicIfAllAre
  <2>3. Underway(Walked(doing), trace', toCheck', Acyclic(Walked(doing)))
    BY <1>1, <2>1, <2>2, UnderwayAscends
  <2>4. Underway(Walked(doing), trace, toCheck, Acyclic(Walked(doing)))'
    BY <2>3, <1>3
  <2>5. Len(trace') > 0 /\ trace'[1] = trace[1]
    BY <1>1, <2>1, FrontIs
  <2> QED BY <2>1, <2>4, <2>5, <1>1 DEF WalkInv
<1> QED BY <1>2, <1>3, <1>4 DEF CircIInv

(* What the end of a getInstance() leaves, whatever the outcome.             *)
LEMMA ReturnIs ==
  ASSUME CircIInv, Walking, NEW p \in {"rejected", "instantiated", "wired"}, Return(p)
  PROVE  LET n == Len(calls)
             c == calls[Len(calls)]
         IN /\ n \in Nat \ {0} /\ c \in Defs /\ CircTypeOK /\ CircTypeOK'
            /\ \A x \in Defs : promise'[x] = IF x = c THEN p ELSE promise[x]
            /\ ctor' = ctor /\ prop' = prop /\ asked' = asked
            /\ Len(calls') = n - 1 /\ \A i \in 1..n - 1 : calls'[i] = calls[i]
            /\ doing' = IF n = 1 THEN "idle" ELSE "instantiate"
            /\ Acyclic(ctor)' = Acyclic(ctor) /\ Acyclic(Uses)' = Acyclic(Uses) /\ Allowed' = Allowed
            /\ calls' = Front(calls) /\ argsLeft' = Front(argsLeft) /\ WalkInv'
<1> DEFINE n == Len(calls)
           c == calls[Len(calls)]
<1>1. /\ promise' = [promise EXCEPT ![c] = p]
      /\ calls' = Front(calls) /\ argsLeft' = Front(argsLeft)
      /\ doing' = IF n = 1 THEN "idle" ELSE "instantiate"
      /\ ctor' = ctor /\ prop' = prop /\ asked' = asked
  BY DEF Return, Last
<1>2. n \in Nat \ {0} /\ n > 0 /\ c \in Defs /\ calls \in Seq(Defs)
  BY DEF Walking, CircIInv, CallsInv, Underway
<1>3. CircTypeOK /\ CircTypeOK' /\ \A x \in Defs : promise'[x] = IF x = c THEN p ELSE promise[x]
  BY <1>1, <1>2 DEF CircIInv, CircTypeOK
<1>4. Len(calls') = n - 1 /\ \A i \in 1..n - 1 : calls'[i] = calls[i]
  BY <1>1, <1>2, FrontIs
<1>5. /\ Acyclic(ctor)' = Acyclic(ctor) /\ Acyclic(Uses)' = Acyclic(Uses)
      /\ Allowed' = Allowed /\ WalkInv'
  BY <1>1, GraphsFrozen DEF Allowed, Closure, WalkInv, Walking
<1> QED BY <1>1, <1>2, <1>3, <1>4, <1>5

LEMMA CircRejects ==
  ASSUME CircIInv, doing = "constructor", calls[Len(calls)] \notin Acyclic(ctor), Return("rejected")
  PROVE  CircIInv'
<1> DEFINE n == Len(calls)
           c == calls[Len(calls)]
<1>1. /\ n \in Nat \ {0} /\ c \in Defs /\ CircTypeOK /\ CircTypeOK'
      /\ \A x \in Defs : promise'[x] = IF x = c THEN "rejected" ELSE promise[x]
      /\ ctor' = ctor /\ prop' = prop /\ asked' = asked
      /\ Len(calls') = n - 1 /\ doing' = IF n = 1 THEN "idle" ELSE "instantiate"
      /\ Acyclic(ctor)' = Acyclic(ctor) /\ Acyclic(Uses)' = Acyclic(Uses) /\ Allowed' = Allowed
      /\ calls' = Front(calls) /\ argsLeft' = Front(argsLeft) /\ WalkInv'
  BY ReturnIs DEF Walking
<1>2. /\ Underway(ctor, calls, argsLeft, Begun) /\ ctor \in Graph
      /\ promise[c] = "none"
  BY <1>1, CircGraphs DEF CircIInv, CallsInv
<1>3. n = 1
  <2> SUFFICES ASSUME n # 1
               PROVE  FALSE
    OBVIOUS
  <2>1. n - 1 \in 1..n /\ n - 1 < n /\ n - 1 + 1 = n /\ n - 1 # n
    BY <1>1
  <2>2. calls[n - 1 + 1] \in ctor[calls[n - 1]]
    BY <1>2, <2>1 DEF Underway
  <2>3. calls[n - 1] \in Acyclic(ctor) /\ c \in ctor[calls[n - 1]]
    BY <2>1, <2>2 DEF CircIInv, CallsInv
  <2> QED BY <1>2, <2>3, AcyclicIsClosed
<1>4. c \in asked /\ Begun' = Begun
  BY <1>1, <1>2, <1>3 DEF CircIInv, CallsInv, Begun
<1>5. CallsInv'
  <2>1. Underway(ctor, Front(calls), Front(argsLeft), Begun \cup {c})
    BY <1>1, <1>2, UnderwayAscends
  <2>2. calls' \in Seq(Defs) /\ argsLeft' \in Seq(SUBSET Defs) /\ Len(calls') = 0 /\ Len(argsLeft') = 0
    <3>1. /\ Front(calls) \in Seq(Defs) /\ Front(argsLeft) \in Seq(SUBSET Defs)
          /\ Len(Front(argsLeft)) = Len(Front(calls))
      BY <2>1 DEF Underway
    <3>2. n - 1 = 0 /\ Len(calls') = n - 1
      BY <1>1, <1>3
    <3> QED BY <3>1, <3>2, <1>1
  <2>3. Underway(ctor, calls, argsLeft, Begun)'
    BY <2>2 DEF Underway
  <2> QED BY <2>2, <2>3, <1>1, <1>3 DEF CallsInv
<1>6. PromiseInv'
  <2>2. \A x \in asked : promise'[x] # "none"
    <3>1. \A x \in asked : promise[x] = "none" => x = c
      BY <1>3 DEF CircIInv, PromiseInv
    <3> QED BY <3>1, <1>1 DEF CircTypeOK
  <2> QED BY <2>2, <1>1, <1>2, <1>4 DEF CircIInv, PromiseInv
<1> QED BY <1>1, <1>5, <1>6 DEF CircIInv

LEMMA CircReturns ==
  ASSUME CircIInv, doing = "properties", NEW p, Return(p),
         p = IF calls[Len(calls)] \in Acyclic(Uses) THEN "wired" ELSE "instantiated"
  PROVE  CircIInv'
<1> DEFINE n == Len(calls)
           c == calls[Len(calls)]
<1>1. /\ n \in Nat \ {0} /\ c \in Defs /\ CircTypeOK /\ CircTypeOK'
      /\ \A x \in Defs : promise'[x] = IF x = c THEN p ELSE promise[x]
      /\ ctor' = ctor /\ prop' = prop /\ asked' = asked
      /\ Len(calls') = n - 1 /\ \A i \in 1..n - 1 : calls'[i] = calls[i]
      /\ doing' = IF n = 1 THEN "idle" ELSE "instantiate"
      /\ Acyclic(ctor)' = Acyclic(ctor) /\ Acyclic(Uses)' = Acyclic(Uses) /\ Allowed' = Allowed
      /\ calls' = Front(calls) /\ argsLeft' = Front(argsLeft) /\ WalkInv'
  BY ReturnIs DEF Walking
<1>2. /\ Underway(ctor, calls, argsLeft, Begun) /\ ctor \in Graph
      /\ promise[c] = "instantiated" /\ c \in Begun
  BY <1>1, CircGraphs DEF CircIInv, CallsInv, Begun
<1>3. Begun' = Begun
  BY <1>1, <1>2 DEF Begun
<1>4. CallsInv'
  <2>1. Underway(ctor, Front(calls), Front(argsLeft), Begun)
    BY <1>1, <1>2, UnderwayAscends
  <2>2. Underway(ctor, calls, argsLeft, Begun)'
    BY <2>1, <1>1, <1>3
  <2>3. \A i \in 1..n - 1 : /\ i \in 1..n /\ i # n /\ calls[i] # c
                            /\ promise[calls[i]] = "none" /\ calls[i] \in Defs
                            /\ calls[i] \in Acyclic(ctor) /\ calls[i] \in Allowed
    BY <1>1, <1>2 DEF CircIInv, CallsInv, Underway
  <2>4. \A i, j \in 1..n - 1 : calls'[i] = calls'[j] => i = j
    BY <1>1, <2>3 DEF CircIInv, CallsInv
  <2>5. \A i \in 1..n - 1 : /\ promise'[calls'[i]] = "none"
                            /\ calls'[i] \in Acyclic(ctor)' /\ calls'[i] \in Allowed'
    BY <1>1, <2>3
  <2>6. (doing' = "idle") <=> (Len(calls') = 0)
    BY <1>1
  <2>7. Len(calls') > 0 => calls'[1] \in asked'
    BY <1>1 DEF CircIInv, CallsInv
  <2> QED BY <2>2, <2>4, <2>5, <2>6, <2>7, <1>1 DEF CallsInv
<1>5. PromiseInv'
  <2>2. \A x \in asked : promise'[x] = "none" => n > 1 /\ x = calls[1] /\ x # c
    BY <1>1, <1>2 DEF CircIInv, PromiseInv, CircTypeOK
  <2>3. \A x \in asked : promise'[x] = "none" => Len(calls') > 0 /\ x = calls'[1]
    BY <2>2, <1>1
  <2> QED BY <2>3, <1>1, <1>2, <1>3 DEF CircIInv, PromiseInv
<1> QED BY <1>1, <1>4, <1>5 DEF CircIInv

(* Where the walk stands when it answers.                                    *)
LEMMA WalkStands ==
  ASSUME CircIInv, Walking
  PROVE  /\ Underway(Walked(doing), trace, toCheck, Acyclic(Walked(doing))) /\ Len(trace) > 0
         /\ trace \in Seq(Defs) /\ toCheck \in Seq(SUBSET Defs) /\ Len(toCheck) = Len(trace)
         /\ trace[1] = calls[Len(calls)] /\ Walked(doing) \in Graph
         /\ toCheck[Len(toCheck)] \subseteq Walked(doing)[trace[Len(trace)]]
  BY CircGraphs DEF CircIInv, WalkInv, Underway

LEMMA CircularIsRight ==
  ASSUME CircIInv, NEW e \in Defs, circular(e)
  PROVE  calls[Len(calls)] \notin Acyclic(Walked(doing))
<1>1. Walking /\ e \in toCheck[Len(toCheck)] /\ e \in Range(trace)
  BY DEF circular, Last
<1>2. PICK j \in 1..Len(trace) : trace[j] = e
  BY <1>1, WalkStands DEF Range
<1>3. \A i \in 1..Len(trace) : trace[i] \notin Acyclic(Walked(doing))
  BY <1>1, <1>2, WalkStands, UnderwayMeets
<1> QED BY <1>1, <1>3, WalkStands

LEMMA CircFindsACycle ==
  ASSUME CircIInv, NEW e \in Defs, circular(e)
  PROVE  CircIInv'
<1>1. Walking
  BY DEF circular
<1>4. calls[Len(calls)] \notin Acyclic(Walked(doing))
  BY CircularIsRight
<1>5. CASE doing = "constructor"
  BY <1>4, <1>5, CircRejects DEF circular, Walked
<1>6. CASE doing = "properties"
  <2>1. Return("instantiated") /\ calls[Len(calls)] \notin Acyclic(Uses)
    BY <1>4, <1>6 DEF circular, Walked
  <2> QED BY <1>6, <2>1, CircReturns
<1> QED BY <1>1, <1>5, <1>6 DEF Walking

LEMMA NoneIsRight ==
  ASSUME CircIInv, noneFound
  PROVE  calls[Len(calls)] \in Acyclic(Walked(doing))
<1>1. Walking /\ toCheck[Len(toCheck)] = {} /\ Len(trace) = 1
  BY DEF noneFound, Last
<1>2. trace[1] \in Defs /\ trace[1] = calls[Len(calls)]
  <2>1. trace \in Seq(Defs) /\ trace[1] = calls[Len(calls)]
    BY <1>1, WalkStands
  <2> QED BY <1>1, <2>1
<1>3. Walked(doing)[trace[1]] \subseteq Acyclic(Walked(doing))
  BY <1>1, WalkStands, UnderwayEnds
<1> QED BY <1>1, <1>2, <1>3, WalkStands, AcyclicIfAllAre

LEMMA CircFindsNone ==
  ASSUME CircIInv, noneFound
  PROVE  CircIInv'
<1>1. Walking
  BY DEF noneFound
<1>2. calls[Len(calls)] \in Acyclic(Walked(doing))
  BY NoneIsRight
<1>3. CASE doing = "properties"
  <2>1. Return("wired") /\ calls[Len(calls)] \in Acyclic(Uses)
    BY <1>2, <1>3 DEF noneFound, Walked
  <2> QED BY <1>3, <2>1, CircReturns
<1>4. CASE doing = "constructor"
  <2>1. /\ ctor' = ctor /\ prop' = prop /\ promise' = promise /\ asked' = asked
        /\ calls' = calls /\ argsLeft' = argsLeft /\ doing' = "instantiate"
    BY <1>4 DEF noneFound
  <2>2. calls[Len(calls)] \in Acyclic(ctor)
    BY <1>2, <1>4 DEF Walked
  <2>3. /\ Acyclic(ctor)' = Acyclic(ctor) /\ Acyclic(Uses)' = Acyclic(Uses)
        /\ Allowed' = Allowed /\ Begun' = Begun
    BY <2>1, GraphsFrozen DEF Allowed, Closure, Begun
  <2>4. CircTypeOK' /\ WalkInv'
    BY <2>1 DEF CircIInv, CircTypeOK, WalkInv, Walking
  <2>5. CallsInv'
    BY <2>1, <2>2, <2>3, <1>4 DEF CircIInv, CallsInv
  <2>6. PromiseInv'
    BY <2>1, <2>3, <1>4 DEF CircIInv, PromiseInv
  <2> QED BY <2>4, <2>5, <2>6 DEF CircIInv
<1> QED BY <1>1, <1>3, <1>4 DEF Walking

LEMMA CircStep ==
  ASSUME CircIInv, [CircularityNext]_circularityVars
  PROVE  CircIInv'
<1>1. ASSUME NEW d \in Defs, NEW e \in Defs, constructorParamByRef(d, e) \/ setPropertyByRef(d, e)
      PROVE  CircIInv'
  BY <1>1, CircConfigures
<1>2. ASSUME NEW d \in Defs, getInstance(d)
      PROVE  CircIInv'
  BY <1>2, CircAsks
<1>3. ASSUME NEW d \in Defs, getParamDefinitionValue(d)
      PROVE  CircIInv'
  BY <1>3, CircAsksForArgument
<1>4. ASSUME NEW d \in Defs, descend(d)
      PROVE  CircIInv'
  BY <1>4, CircDescends
<1>5. ASSUME NEW d \in Defs, circular(d)
      PROVE  CircIInv'
  BY <1>5, CircFindsACycle
<1>6. CASE instantiate
  BY <1>6, CircInstantiates
<1>7. CASE ascend
  BY <1>7, CircAscends
<1>8. CASE noneFound
  BY <1>8, CircFindsNone
<1>9. CASE UNCHANGED circularityVars
  <2>1. /\ Begun' = Begun /\ Allowed' = Allowed /\ Uses' = Uses /\ Walked(doing)' = Walked(doing)
        /\ Acyclic(ctor)' = Acyclic(ctor) /\ Acyclic(Uses)' = Acyclic(Uses)
        /\ Acyclic(Walked(doing))' = Acyclic(Walked(doing))
    BY <1>9 DEF circularityVars, Begun, Allowed, Acyclic, Uses, Walked, Closure, ReachesCycle
  <2>2. CircTypeOK' /\ CallsInv'
    BY <1>9, <2>1 DEF circularityVars, CircIInv, CircTypeOK, CallsInv
  <2>3. WalkInv' /\ PromiseInv'
    BY <1>9, <2>1 DEF circularityVars, CircIInv, WalkInv, Walking, PromiseInv
  <2> QED BY <2>2, <2>3 DEF CircIInv
<1> QED BY <1>1, <1>2, <1>3, <1>4, <1>5, <1>6, <1>7, <1>8, <1>9 DEF CircularityNext

(* Nothing is entered again while it runs.                                   *)
LEMMA NoneIsReentered ==
  ASSUME CircIInv, [CircularityNext]_circularityVars, Len(calls') > Len(calls)
  PROVE  Last(calls') \notin Range(calls)
<1>1. CircIInv'
  BY CircStep
<1>2. /\ calls \in Seq(Defs) /\ Len(calls) \in Nat
      /\ \A i, j \in 1..Len(calls') : calls'[i] = calls'[j] => i = j
  BY <1>1 DEF CircIInv, CallsInv, Underway
<1>3. PICK d \in Defs : calls' = Append(calls, d)
  <2>1. CASE \E d \in Defs : getInstance(d) \/ getParamDefinitionValue(d)
    BY <2>1 DEF getInstance, getParamDefinitionValue, Call
  <2>2. ASSUME Return("rejected") \/ Return("instantiated") \/ Return("wired"), Walking
        PROVE  FALSE
    <3>1. Len(calls') = Len(calls) - 1
      BY <2>2, ReturnIs
    <3> QED BY <3>1, <1>2
  <2>3. CASE ~\E d \in Defs : getInstance(d) \/ getParamDefinitionValue(d)
    <3>1. calls' = calls
      BY <2>2, <2>3 DEF CircularityNext, circularityVars, constructorParamByRef, setPropertyByRef,
             Configurable, descend, circular, instantiate, ascend, noneFound
    <3> QED BY <3>1, <1>2
  <2> QED BY <2>1, <2>3
<1>4. /\ Len(calls') = Len(calls) + 1 /\ calls'[Len(calls')] = d
      /\ \A i \in 1..Len(calls) : calls'[i] = calls[i]
  BY <1>2, <1>3
<1>5. \A i \in 1..Len(calls) : calls[i] # d
  BY <1>2, <1>4
<1> QED BY <1>2, <1>4, <1>5 DEF Last, Range

(* What has begun when nothing runs any more.                                *)
LEMMA CircImplies == CircIInv => BegunIsAsked
<1> SUFFICES ASSUME CircIInv, doing = "idle"
             PROVE  Begun = Closure(ctor, {x \in asked : ~ReachesCycle(ctor, x)})
  BY DEF BegunIsAsked
<1>1. {x \in asked : ~ReachesCycle(ctor, x)} = asked \cap Acyclic(ctor)
  BY DEF Acyclic, CircIInv, CircTypeOK
<1>2. Closure(ctor, {x \in asked : ~ReachesCycle(ctor, x)}) = Allowed
  BY <1>1 DEF Allowed
<1>3. Len(calls) = 0
  BY DEF CircIInv, CallsInv
<1>4. \A d \in asked : promise[d] # "none"
  <2>1. \A d \in asked : promise[d] = "none" => Len(calls) > 0
    BY DEF CircIInv, PromiseInv
  <2> QED BY <2>1, <1>3
<1>5. Allowed \subseteq Begun
  <2> DEFINE D == asked \cap Acyclic(ctor)
  <2>1. D \subseteq Begun
    BY <1>4 DEF CircIInv, PromiseInv, Begun, CircTypeOK
  <2>2. D \in SUBSET Defs /\ Begun \in SUBSET Defs /\ \A y \in Begun : ctor[y] \subseteq Begun
    BY DEF CircIInv, PromiseInv, Begun, CircTypeOK
  <2> HIDE DEF D
  <2>3. Closure(ctor, D) \subseteq Begun
    BY <2>1, <2>2, ClosureLeast, CircGraphs DEF CircIInv
  <2> QED BY <2>3 DEF Allowed, D
<1>6. Begun \subseteq Allowed
  BY DEF CircIInv, PromiseInv, Begun
<1> QED BY <1>2, <1>5, <1>6

LEMMA ReturnedIsExact ==
  ASSUME CircIInv, [CircularityNext]_circularityVars, Len(calls') < Len(calls)
  PROVE  promise'[Last(calls)] = IF ReachesCycle(ctor, Last(calls)) THEN "rejected"
                                 ELSE IF ReachesCycle(Uses, Last(calls)) THEN "instantiated"
                                 ELSE "wired"
<1> DEFINE c == calls[Len(calls)]
<1>1. calls \in Seq(Defs) /\ Len(calls) \in Nat /\ Len(calls) > 0 /\ c \in Defs
  <2>1. calls \in Seq(Defs) /\ Len(calls) \in Nat /\ calls' \in Seq(Defs) /\ Len(calls') \in Nat
    BY CircStep DEF CircIInv, CallsInv, Underway
  <2> QED BY <2>1
<1>2. (\E e \in Defs : circular(e)) \/ (noneFound /\ doing = "properties")
  <2>1. \A d \in Defs : ~(calls' = Append(calls, d))
    BY <1>1
  <2>2. calls' # calls
    BY <1>1
  <2> QED BY <2>1, <2>2 DEF CircularityNext, circularityVars, constructorParamByRef, setPropertyByRef,
             Configurable, getInstance, getParamDefinitionValue, Call, descend, instantiate, ascend,
             noneFound
<1>3. PICK p \in {"rejected", "instantiated", "wired"} : Return(p) /\ Walking /\
        \/ p = "rejected" /\ doing = "constructor" /\ c \notin Acyclic(ctor)
        \/ p = "instantiated" /\ doing = "properties" /\ c \notin Acyclic(Uses)
        \/ p = "wired" /\ doing = "properties" /\ c \in Acyclic(Uses)
  <2>1. CASE \E e \in Defs : circular(e)
    <3>1. PICK e \in Defs : circular(e)
      BY <2>1
    <3>2. c \notin Acyclic(Walked(doing)) /\ Walking
      BY <3>1, CircularIsRight DEF circular
    <3> QED BY <3>1, <3>2 DEF circular, Walking, Walked
  <2>2. CASE noneFound /\ doing = "properties"
    <3>1. c \in Acyclic(Walked(doing)) /\ Walking
      BY <2>2, NoneIsRight DEF noneFound
    <3> QED BY <2>2, <3>1 DEF noneFound, Walked
  <2> QED BY <1>2, <2>1, <2>2
<1>4. promise'[c] = p
  BY <1>1, <1>3, ReturnIs
<1>5. p # "rejected" => c \in Acyclic(ctor)
  BY <1>1, <1>3 DEF CircIInv, CallsInv
<1>6. p = IF ReachesCycle(ctor, c) THEN "rejected" ELSE IF ReachesCycle(Uses, c) THEN "instantiated" ELSE "wired"
  BY <1>1, <1>3, <1>5 DEF Acyclic
<1> QED BY <1>4, <1>6 DEF Last

(* The recursive walks and the recursion of instantiate() answer what the    *)
(* questions on the graph answer, on graphs of any size, whoever is asked    *)
(* and in whichever order, also while definitions that have not begun are    *)
(* still being configured.                                                   *)
THEOREM WalksAreExact == CircularityInit /\ [][CircularityNext]_circularityVars => WalksExact
<1>1. CircIInv /\ [CircularityNext]_circularityVars => CircIInv'
  BY CircStep
<1>2. CircIInv /\ CircIInv' /\ BegunIsAsked' /\ [CircularityNext]_circularityVars =>
        [/\ Len(calls') > Len(calls) => Last(calls') \notin Range(calls)
         /\ Len(calls') < Len(calls) =>
              promise'[Last(calls)] = IF ReachesCycle(ctor, Last(calls)) THEN "rejected"
                                      ELSE IF ReachesCycle(Uses, Last(calls)) THEN "instantiated"
                                      ELSE "wired"
         /\ BegunIsAsked'
        ]_circularityVars
  BY NoneIsReentered, ReturnedIsExact
<1> QED BY CircInitImplies, CircImplies, <1>1, <1>2, PTL DEF WalksExact
=============================================================================
