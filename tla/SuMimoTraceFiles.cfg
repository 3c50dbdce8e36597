\* Two nodes, two trainings each: a retraining after an abort replaces the
\* files of the given-up training. The simulation
\* stops with the event bounds exhausted: no deadlock check.
CONSTANTS
  AP = AP
  STA = STA
  Nodes <- MCNodes
  MaxTrainings = 2
  MaxCalls <- MCMaxCalls

SPECIFICATION Spec

CHECK_DEADLOCK FALSE

INVARIANT FilesDescribeCurrentTraining
