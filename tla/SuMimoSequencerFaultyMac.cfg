\* The MAC may lose a TXSS sweep and abort a training: the counter and the
\* training gate stay right through failures and re-triggers.
CONSTANTS
  AP = AP
  STA = STA
  Csv = FALSE
  MacFailures = TRUE
  UseAwvs = TRUE
  DwellDtis <- MCDwellDtis

SPECIFICATION Spec

INVARIANT TrainingGatedOnMutualSls
INVARIANT IInv
PROPERTY NoTrainingAfterCompletion
