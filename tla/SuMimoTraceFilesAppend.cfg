\* Are the trace files append-only, as the design says?
CONSTANTS
  AP = AP
  STA = STA
  Nodes <- MCNodes
  MaxTrainings = 2
  MaxCalls <- MCMaxCalls

SPECIFICATION Spec

CHECK_DEADLOCK FALSE

PROPERTY AppendOnly
