------------------------------ MODULE Latency ------------------------------
(***************************************************************************)
(* The times taken in consumerThread and in ImageProcessor, and the        *)
(* LatencyTracker (src/utils/metrics.hpp) that sums them up at the end.    *)
(*                                                                         *)
(* Two clocks are read.  steady_clock counts from the boot of the machine; *)
(* high_resolution_clock is the system's clock in libstdc++, and counts    *)
(* from 1970: EpochOffset more.  Times are in microseconds.                *)
(***************************************************************************)
EXTENDS Integers, Sequences, FiniteSets

CONSTANTS
  EpochOffset,   \* high_resolution_clock minus steady_clock
  IntMax,        \* the greatest int
  MaxClock,      \* bound: the time a behaviour takes
  MaxFrames      \* bound: the latencies recorded

ASSUME LatencyAssumption ==
  {EpochOffset, IntMax, MaxClock, MaxFrames} \subseteq Nat \ {0}

VARIABLES
  clock,            \* what steady_clock::now() returns
  pc,
  total_start,
  capture_time_us,
  inference_start_time_us,
  total_time_us,    \* of the DetectionResults last made
  latencies_us      \* of e2e_tracker

vars == <<clock, pc, total_start, capture_time_us, inference_start_time_us,
          total_time_us, latencies_us>>

Half == IntMax + 1

\* An int64_t assigned to an int keeps its low bits.
ToInt(t) == ((t + Half) % (2 * Half)) - Half

TypeOK ==
  /\ clock \in 0 .. MaxClock
  /\ pc \in {"loop", "dequeue", "infer", "post", "enqueue", "joined"}
  /\ total_start \in 0 .. clock
  /\ capture_time_us \in 0 .. clock
  /\ inference_start_time_us \in {0} \cup EpochOffset .. clock + EpochOffset
  /\ total_time_us \in -Half .. Half - 1
  /\ latencies_us \in Seq(0 .. clock) /\ Len(latencies_us) <= MaxFrames

Init ==
  /\ clock = 0
  /\ pc = "loop"
  /\ total_start = 0
  /\ capture_time_us = 0
  /\ inference_start_time_us = 0
  /\ total_time_us = 0
  /\ latencies_us = <<>>

-----------------------------------------------------------------------------
Pass ==
  /\ clock < MaxClock
  /\ clock' = clock + 1
  /\ UNCHANGED <<pc, total_start, capture_time_us, inference_start_time_us,
                 total_time_us, latencies_us>>

Goes(from, to) == pc = from /\ pc' = to /\ UNCHANGED clock

\* Mutant of StartIteration: the time is taken for the first frame only.
StartIterationOnce ==
  /\ Len(latencies_us) < MaxFrames
  /\ Goes("loop", "dequeue")
  /\ UNCHANGED <<total_start, capture_time_us, inference_start_time_us,
                 total_time_us, latencies_us>>

StartIteration ==
  /\ Len(latencies_us) < MaxFrames
  /\ Goes("loop", "dequeue")
  /\ total_start' = clock
  /\ UNCHANGED <<capture_time_us, inference_start_time_us, total_time_us,
                 latencies_us>>

\* There is no frame, or it is one of those skipped.
NoFrame ==
  /\ Goes("dequeue", "loop")
  /\ UNCHANGED <<total_start, capture_time_us, inference_start_time_us,
                 total_time_us, latencies_us>>

Preprocess ==
  /\ Goes("dequeue", "infer")
  /\ capture_time_us' = clock
  /\ UNCHANGED <<total_start, inference_start_time_us, total_time_us, latencies_us>>

InferThrows ==
  /\ Goes("infer", "loop")
  /\ UNCHANGED <<total_start, capture_time_us, inference_start_time_us,
                 total_time_us, latencies_us>>

\* The time handed to postprocessDetections is taken after infer returned.
Infer ==
  /\ Goes("infer", "post")
  /\ inference_start_time_us' = clock + EpochOffset
  /\ UNCHANGED <<total_start, capture_time_us, total_time_us, latencies_us>>

Postprocess ==
  /\ Goes("post", "enqueue")
  /\ total_time_us' = ToInt(clock - inference_start_time_us)
  /\ UNCHANGED <<total_start, capture_time_us, inference_start_time_us, latencies_us>>

Record ==
  /\ Goes("enqueue", "loop")
  /\ latencies_us' = Append(latencies_us, clock - total_start)
  /\ UNCHANGED <<total_start, capture_time_us, inference_start_time_us, total_time_us>>

\* The loop ends and main, having joined the thread, calls printStats.
Joined ==
  /\ Goes("loop", "joined")
  /\ UNCHANGED <<total_start, capture_time_us, inference_start_time_us,
                 total_time_us, latencies_us>>

Ended == pc = "joined" /\ UNCHANGED vars

Next ==
  \/ Pass \/ StartIteration \/ NoFrame \/ Preprocess \/ InferThrows \/ Infer
  \/ Postprocess \/ Record \/ Joined \/ Ended

Spec == Init /\ [][Next]_vars

-----------------------------------------------------------------------------
(***************************************************************************)
(* printStats                                                              *)
(***************************************************************************)
n == Len(latencies_us)

\* The places of latencies_us in an order in which the latencies rise.
Sorts(order) ==
  /\ \A i, j \in 1 .. n : i # j => order[i] # order[j]
  /\ \A i, j \in 1 .. n : i < j => latencies_us[order[i]] <= latencies_us[order[j]]

sorted_lat ==
  LET order == CHOOSE order \in [1 .. n -> 1 .. n] : Sorts(order)
  IN  [k \in 1 .. n |-> latencies_us[order[k]]]

\* Mutant of Percentile: C++'s index is taken for TLA+'s.
PercentileBelow(p, q) == sorted_lat[IF (n * p) \div q = 0 THEN 1 ELSE (n * p) \div q]

\* getPercentile(p/q), an index that C++ counts from 0.
Percentile(p, q) ==
  LET idx == (n * p) \div q
  IN  sorted_lat[(IF idx >= n THEN n - 1 ELSE idx) + 1]

Percentiles == {<<50, 100>>, <<99, 100>>, <<999, 1000>>}

\* std::accumulate; the sum is the same in any order.
SumOf(s) ==
  LET sum[k \in 0 .. Len(s)] == IF k = 0 THEN 0 ELSE sum[k - 1] + s[k]
  IN  sum[Len(s)]

Total == SumOf(latencies_us)

(***************************************************************************)
(* A percentile is one: at least the share p/q of the latencies is not     *)
(* above the value printed, and at least the rest is not below it.         *)
(***************************************************************************)
Ranked(p, q) ==
  LET value == Percentile(p, q)
      NotAbove == {k \in 1 .. n : latencies_us[k] <= value}
      NotBelow == {k \in 1 .. n : latencies_us[k] >= value}
  IN  /\ q * Cardinality(NotAbove) >= p * n
      /\ q * Cardinality(NotBelow) >= (q - p) * n

PercentilesRanked ==
  pc = "joined" /\ n > 0 => \A pq \in Percentiles : Ranked(pq[1], pq[2])

(***************************************************************************)
(* The iterations that are recorded do not overlap and none is counted     *)
(* twice: the latencies add up to no more than the time that has passed,   *)
(* so the throughput printed (n over their sum) never understates.         *)
(***************************************************************************)
NoTimeCountedTwice == Total <= clock
=============================================================================
