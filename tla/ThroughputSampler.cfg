\* A 0.3 s run with up to three packets: samples at 0.1 .. 0.4 s.
CONSTANTS
  SimTimeMs = 300
  MaxPkts = 3

SPECIFICATION Spec

\* Simulator::Stop ends the run: no event remains after it.
CHECK_DEADLOCK FALSE

INVARIANT SamplesPartitionReceived
PROPERTY EveryPacketReported
