----------------------------- MODULE OSMetrics -----------------------------
(* The operating system's counters and the Prometheus counter that follows   *)
(* them (metrics/MetricsPlugin.ts, metrics/OSMetricsService.ts).  Every      *)
(* interval the plugin adds to the counter what has come since the last      *)
(* reading, one metric after the other; the counter throws when it is to go  *)
(* down, which some of the kernel's numbers do.                              *)
EXTENDS Integers, Sequences

CONSTANTS
  CPUOSMetricNames, \* in their order
  MayShrink,        \* the metrics the kernel may also take back
  MaxValue,         \* bound: of what the kernel counts
  MaxIntervals      \* bound: how often pushStats() runs

ASSUME MetricBounds ==
  CPUOSMetricNames \in Seq(STRING) /\ MaxValue \in Nat /\ MaxIntervals \in Nat

VARIABLES
  stat,        \* /proc/stat: the kernel's numbers
  lastMetrics, \* the last reading; <<>> if it failed
  cpuStats,    \* the counter, by metric; <<>> if it was not registered
  intervals,
  first,       \* for the invariant: the numbers at the registration,
  shrunk       \* and whether some number has gone down

metricVars == <<stat, lastMetrics, cpuStats, intervals, first, shrunk>>

Names == {CPUOSMetricNames[i] : i \in DOMAIN CPUOSMetricNames}

(* Without procfs, or when it cannot be read, all is undefined.              *)
getOSMetrics == {stat, <<>>}

registerOSMetrics ==
  /\ stat = [n \in Names |-> 0]
  /\ lastMetrics \in getOSMetrics
  /\ cpuStats = [n \in DOMAIN lastMetrics |-> 0]
  /\ intervals = 0
  /\ first = stat /\ shrunk = FALSE

kernelCounts(n) ==
  /\ \E v \in 0..MaxValue :
       /\ v > stat[n] \/ (n \in MayShrink /\ v < stat[n])
       /\ stat' = [stat EXCEPT ![n] = v]
       /\ shrunk' = (shrunk \/ v < stat[n])
  /\ UNCHANGED <<lastMetrics, cpuStats, intervals, first>>

(* What a metric has grown by, if both readings have it.                     *)
Growth(name, newStats) ==
  IF name \in DOMAIN newStats \cap DOMAIN lastMetrics
  THEN newStats[name] - lastMetrics[name] ELSE 0

(* pushIndividualCPUStat() for each metric, up to one that has gone down.    *)
Pushed(newStats) ==
  {CPUOSMetricNames[i] : i \in {k \in DOMAIN CPUOSMetricNames :
     \A j \in 1..k : Growth(CPUOSMetricNames[j], newStats) >= 0}}

(* Mutant: the last reading is never replaced.                               *)
pushStatsKeeping ==
  /\ cpuStats # <<>> /\ intervals < MaxIntervals /\ intervals' = intervals + 1
  /\ \E newStats \in getOSMetrics :
       /\ cpuStats' = [n \in Names |-> IF n \in Pushed(newStats) THEN cpuStats[n] + Growth(n, newStats)
                                       ELSE cpuStats[n]]
       /\ UNCHANGED lastMetrics
  /\ UNCHANGED <<stat, first, shrunk>>

(* If one throws, the last reading stays: what was pushed before it will be  *)
(* pushed again.                                                             *)
pushStats ==
  /\ cpuStats # <<>> /\ intervals < MaxIntervals /\ intervals' = intervals + 1
  /\ \E newStats \in getOSMetrics :
       /\ cpuStats' = [n \in Names |-> IF n \in Pushed(newStats) THEN cpuStats[n] + Growth(n, newStats)
                                       ELSE cpuStats[n]]
       /\ lastMetrics' = IF Pushed(newStats) = Names THEN newStats ELSE lastMetrics
  /\ UNCHANGED <<stat, first, shrunk>>

MetricsNext == (\E n \in Names : kernelCounts(n)) \/ pushStats

-----------------------------------------------------------------------------
(* The counter never runs ahead of the operating system, whichever readings  *)
(* fail, as long as no number of the kernel has gone down (pushStats(),      *)
(* pushIndividualCPUStat()).                                                 *)
CountsNothingTwice ==
  ~shrunk => \A n \in DOMAIN cpuStats : cpuStats[n] <= stat[n] - first[n]
=============================================================================
