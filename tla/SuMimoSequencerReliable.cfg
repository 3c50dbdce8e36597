\* Reliable MAC, csv off: the phase machine, the trigger and completion.
CONSTANTS
  AP = AP
  STA = STA
  Csv = FALSE
  MacFailures = FALSE
  UseAwvs = FALSE
  DwellDtis <- MCDwellDtis

SPECIFICATION FairSpec

PROPERTY PhaseRefinement
PROPERTY TrainingCompletes
