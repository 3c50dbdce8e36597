\* csv on: is the SU-MIMO training still started and completed?
CONSTANTS
  AP = AP
  STA = STA
  Csv = TRUE
  MacFailures = FALSE
  UseAwvs = FALSE
  DwellDtis <- MCDwellDtis

SPECIFICATION FairSpec

PROPERTY TrainingCompletes
