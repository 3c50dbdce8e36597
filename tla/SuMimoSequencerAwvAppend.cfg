\* --useAwvs with a MAC that may give up a training: are the AWVs appended
\* to the STA's codebook only once?
CONSTANTS
  AP = AP
  STA = STA
  Csv = FALSE
  MacFailures = TRUE
  UseAwvs = TRUE
  DwellDtis <- MCDwellDtis

SPECIFICATION Spec

INVARIANT AwvsAppendedOnce
