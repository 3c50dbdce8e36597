\* Reliable MAC: does the STA issue a single StartSuMimoBeamforming?
CONSTANTS
  AP = AP
  STA = STA
  Csv = FALSE
  MacFailures = FALSE
  UseAwvs = FALSE
  DwellDtis <- MCDwellDtis

SPECIFICATION FairSpec

INVARIANT SingleBeginRequest
