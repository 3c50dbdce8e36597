------------------------- MODULE ThroughputSampler -------------------------
(***************************************************************************)
(* The Session Telemetry Sampler: CalculateThroughput. main schedules its *)
(* first call 0.1 s into the run and stops the simulator at               *)
(* simulationTime + 0.101 s; each call asks CalculateSingleStreamThroughput*)
(* for the bytes the packet sink received since the previous call (it     *)
(* keeps the running total in the global totalRx), writes one row for the *)
(* interval [Now - 0.1, Now] and reschedules itself 100 ms later. The     *)
(* source application sends from 0.01 s to simulationTime; packets in     *)
(* flight may still reach the sink after it stops.                         *)
(*                                                                         *)
(* Time is in milliseconds. The clock jumps from one scheduled event to    *)
(* the next; packets received in between are counted, not timed.          *)
(***************************************************************************)
EXTENDS Integers, Sequences

CONSTANTS
  SimTimeMs,   \* --simulationTime, in ms
  MaxPkts      \* bound on the packets the sink receives

ASSUME SamplerConstantsAssumption ==
  /\ SimTimeMs \in Nat
  /\ MaxPkts \in Nat \ {0}

\* Simulator::Schedule (MilliSeconds (100), &CalculateThroughput, ...).
PeriodMs == 100

\* Simulator::Schedule (Seconds (0.1), &CalculateThroughput, ...) in main.
FirstSampleMs == 100

\* Mutant: the simulator is stopped at simulationTime.
StopTimeAtSimTime == SimTimeMs

\* Simulator::Stop (Seconds (simulationTime + 0.101)).
StopTime == SimTimeMs + 101

VARIABLES
  now,       \* simulation time of the last event run
  next,      \* time of the pending CalculateThroughput event
  sinkRx,    \* packets received by the packet sink (GetTotalRx)
  totalRx,   \* the global totalRx: the sink total at the last sample
  rows,      \* the samples written: interval bounds and packets
  running    \* Simulator::Run has not returned

vars == <<now, next, sinkRx, totalRx, rows, running>>

TypeOK ==
  /\ now \in Nat /\ next \in Nat
  /\ sinkRx \in 0 .. MaxPkts /\ totalRx \in 0 .. MaxPkts
  /\ rows \in Seq([from : Int, to : Nat, pkts : Int])
  /\ running \in BOOLEAN

Init ==
  /\ now = 0
  /\ next = FirstSampleMs
  /\ sinkRx = 0
  /\ totalRx = 0
  /\ rows = <<>>
  /\ running = TRUE

\* The sink receives a packet before the next event. The source sends
\* until simulationTime, but what it queued (a 4000-packet MAC queue,
\* filled at twice the stream rate) keeps arriving until Simulator::Stop.
Receive ==
  /\ running
  /\ sinkRx < MaxPkts
  /\ sinkRx' = sinkRx + 1
  /\ UNCHANGED <<now, next, totalRx, rows, running>>

\* Mutant: the whole sink total is reported, totalRx is not subtracted.
IntervalPacketsCumulative(total) == total

\* CalculateSingleStreamThroughput: the packets received since the last
\* call (the bytes of the interval, times 8 over 1e5, is the throughput).
IntervalPackets(total) == total - totalRx

\* CalculateThroughput runs at its scheduled time, before the Stop event:
\* it writes the row of [Now - 0.1, Now], updates totalRx and reschedules.
CalculateThroughput ==
  /\ running
  /\ next < StopTime
  /\ now' = next
  /\ rows' = Append(rows, [from |-> next - PeriodMs, to |-> next,
                           pkts |-> IntervalPackets(sinkRx)])
  /\ totalRx' = sinkRx
  /\ next' = next + PeriodMs
  /\ UNCHANGED <<sinkRx, running>>

\* The Stop event runs (it was scheduled before Run, so before any
\* CalculateThroughput of the same time): Simulator::Run returns.
Stop ==
  /\ running
  /\ next >= StopTime
  /\ now' = StopTime
  /\ running' = FALSE
  /\ UNCHANGED <<next, sinkRx, totalRx, rows>>

Next == Receive \/ CalculateThroughput \/ Stop

\* The scheduler runs every due event: the sample and the Stop event.
Fairness == WF_vars(CalculateThroughput) /\ WF_vars(Stop)

Spec == Init /\ [][Next]_vars /\ Fairness

-----------------------------------------------------------------------------
(* Properties.                                                             *)

\* Packets reported by the first n rows of s.
ReportedBy(s) ==
  LET f[n \in 0 .. Len(s)] == IF n = 0 THEN 0 ELSE f[n - 1] + s[n].pkts
  IN  f[Len(s)]

\* The rows tile the run from time 0 in 100 ms intervals with no gap or
\* overlap, and their packet counts add up to the sink's total at the last
\* sample: CalculateThroughput's interval label, its reschedule period and
\* the totalRx bookkeeping of CalculateSingleStreamThroughput agree, so no
\* packet is counted in two rows.
SamplesPartitionReceived ==
  /\ \A i \in 1 .. Len(rows) : rows[i].from = (i - 1) * PeriodMs
                               /\ rows[i].to = i * PeriodMs
  /\ ReportedBy(rows) = totalRx
  /\ totalRx <= sinkRx

\* Every packet the sink has received while the clock is still at or
\* before simulationTime (the source's sending period and what arrives up
\* to the next sample) is eventually reported in a row before the run
\* ends: with Simulator::Stop at simulationTime + 0.101 s, the 100 ms
\* reschedule puts one more CalculateThroughput after the source stops
\* and before Stop. Packets arriving after that last sample are not
\* reported; the property does not claim them.
EveryPacketReported ==
  \A k \in 1 .. MaxPkts : (sinkRx >= k /\ now <= SimTimeMs) ~> (totalRx >= k)

=============================================================================
