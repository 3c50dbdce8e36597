\* MAC may abort a training: does the phase still never regress?
CONSTANTS
  AP = AP
  STA = STA
  Csv = FALSE
  MacFailures = TRUE
  UseAwvs = FALSE
  DwellDtis <- MCDwellDtis

SPECIFICATION FairSpec

PROPERTY PhaseRefinement
