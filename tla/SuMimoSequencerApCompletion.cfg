\* The PCP/AP's MIMO-phase completion sets the shared suMimoCompleted: is
\* the STA's session only Complete when its own training was not given up?
CONSTANTS
  AP = AP
  STA = STA
  Csv = FALSE
  MacFailures = TRUE
  UseAwvs = FALSE
  DwellDtis <- MCDwellDtis

SPECIFICATION Spec

INVARIANT CompletedByInitiator
