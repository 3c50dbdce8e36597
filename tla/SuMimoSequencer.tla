--------------------------- MODULE SuMimoSequencer ---------------------------
(***************************************************************************)
(* The beam-training phase sequencer of evaluate_11ay_su_mimo.cc: the     *)
(* globals firstDti, beamformedLinks and suMimoCompleted and the trace    *)
(* callbacks that read and write them, driven by the events of the MAC    *)
(* layer of the two nodes (the EDMG PCP/AP and the EDMG STA).             *)
(*                                                                         *)
(* The MAC layer is an external collaborator: its events are actions of  *)
(* this module, each one together with the whole callback it triggers.   *)
(* The SU-MIMO training is initiated by the STA (the DTIStarted callback  *)
(* is connected on the STA only), so the training state is the STA's.    *)
(* What the callbacks write to trace files and to stdout is left out     *)
(* here; the trace files are modelled in their own module.               *)
(***************************************************************************)
EXTENDS Naturals

CONSTANTS
  AP,           \* the EDMG PCP/AP node
  STA,          \* the EDMG STA node, initiator of the SU-MIMO training
  Csv,          \* value of the --csv command-line flag
  DwellDtis,    \* number of DTIs that start before Seconds (0.6)
  MacFailures,  \* whether the MAC may lose a sector sweep or abort a training
  UseAwvs       \* value of the --useAwvs command-line flag

ASSUME EndpointsAssumption == AP # STA
ASSUME FlagsAssumption ==
  Csv \in BOOLEAN /\ MacFailures \in BOOLEAN /\ UseAwvs \in BOOLEAN
ASSUME DwellAssumption == DwellDtis \in Nat

Endpoints == {AP, STA}

\* Access periods a sector-level sweep can complete in (CHANNEL_ACCESS_BHI
\* and CHANNEL_ACCESS_DTI).
AccessPeriods == {"BHI", "DTI"}

\* State of the STA's SU-MIMO training in the MAC: no training, SISO phase,
\* MIMO phase requested (StartSuMimoMimoPhase called), MIMO phase running.
MacStates == {"Idle", "Siso", "MimoRequested", "Mimo"}

\* Width of beamformedLinks (uint8_t).
LinkCounterModulus == 256

VARIABLES
  associated,       \* the STA's MAC is associated with the PCP/AP
  firstDti,         \* global firstDti
  beamformedLinks,  \* global beamformedLinks (uint8_t)
  suMimoCompleted,  \* global suMimoCompleted
  dti,              \* DTIs started so far, saturated at DwellDtis + 1
  txss,             \* nodes still owed an SLSCompleted for the TXSS TXOP
  slsRows,          \* (node, access period) of every SLSCompleted callback
  startScheduled,   \* a StartSuMimoBeamforming event is pending (3 us)
  mac,              \* the STA's SU-MIMO training state in the MAC
  begins,           \* StartSuMimoBeamforming calls scheduled, saturated at 2
  stalled,          \* history: MAC state at which the last training aborted
  awvAppends        \* AppendAwvsForSuMimoBFT_27 calls on the STA's codebook,
                    \* saturated at 2

vars == <<associated, firstDti, beamformedLinks, suMimoCompleted, dti, txss,
          slsRows, startScheduled, mac, begins, stalled, awvAppends>>

\* Nodes that completed a sector sweep with each other in a DTI.
DtiSls == {e \in Endpoints : <<e, "DTI">> \in slsRows}

TypeOK ==
  /\ associated \in BOOLEAN
  /\ firstDti \in BOOLEAN
  /\ beamformedLinks \in 0 .. (LinkCounterModulus - 1)
  /\ suMimoCompleted \in BOOLEAN
  /\ dti \in 0 .. (DwellDtis + 1)
  /\ txss \subseteq Endpoints
  /\ slsRows \subseteq Endpoints \X AccessPeriods
  /\ startScheduled \in BOOLEAN
  /\ mac \in MacStates
  /\ begins \in 0 .. 2
  /\ stalled \in MacStates
  /\ awvAppends \in 0 .. 2

\* The globals' initialisers; no event has happened yet.
Init ==
  /\ associated = FALSE
  /\ firstDti = TRUE
  /\ beamformedLinks = 0
  /\ suMimoCompleted = FALSE
  /\ dti = 0
  /\ txss = {}
  /\ slsRows = {}
  /\ startScheduled = FALSE
  /\ mac = "Idle"
  /\ begins = 0
  /\ stalled = "Idle"
  /\ awvAppends = 0

-----------------------------------------------------------------------------
(* MAC events and the callbacks they run.                                  *)

\* "Assoc": the STA associates; StationAssoicated only prints.
StationAssoicated ==
  /\ ~associated
  /\ associated' = TRUE
  /\ UNCHANGED <<firstDti, beamformedLinks, suMimoCompleted, dti, txss,
                 slsRows, startScheduled, mac, begins, stalled, awvAppends>>

\* Mutant: the trigger tests beamformedLinks >= 1 instead of == 2.
DtiStartedOnOneLink ==
  LET now == IF dti > DwellDtis THEN dti ELSE dti + 1
      performTxss == associated /\ firstDti
      startMimo == beamformedLinks >= 1 /\ now > DwellDtis /\ ~suMimoCompleted
  IN
  /\ ~startScheduled
  /\ dti' = now
  /\ txss' = IF performTxss THEN Endpoints ELSE txss
  /\ firstDti' = IF performTxss THEN FALSE ELSE firstDti
  /\ startScheduled' = startMimo
  /\ begins' = IF startMimo /\ begins < 2 THEN begins + 1 ELSE begins
  /\ UNCHANGED <<associated, beamformedLinks, suMimoCompleted, slsRows, mac,
                 stalled, awvAppends>>

\* Mutant: the "!" of !suMimoCompleted is lost.
DtiStartedWhenCompleted ==
  LET now == IF dti > DwellDtis THEN dti ELSE dti + 1
      performTxss == associated /\ firstDti
      startMimo == beamformedLinks = 2 /\ now > DwellDtis /\ suMimoCompleted
  IN
  /\ ~startScheduled
  /\ dti' = now
  /\ txss' = IF performTxss THEN Endpoints ELSE txss
  /\ firstDti' = IF performTxss THEN FALSE ELSE firstDti
  /\ startScheduled' = startMimo
  /\ begins' = IF startMimo /\ begins < 2 THEN begins + 1 ELSE begins
  /\ UNCHANGED <<associated, beamformedLinks, suMimoCompleted, slsRows, mac,
                 stalled, awvAppends>>

\* Mutant: the !suMimoCompleted test is dropped from the trigger.
DtiStartedIgnoringCompletion ==
  LET now == IF dti > DwellDtis THEN dti ELSE dti + 1
      performTxss == associated /\ firstDti
      startMimo == beamformedLinks = 2 /\ now > DwellDtis
  IN
  /\ ~startScheduled
  /\ dti' = now
  /\ txss' = IF performTxss THEN Endpoints ELSE txss
  /\ firstDti' = IF performTxss THEN FALSE ELSE firstDti
  /\ startScheduled' = startMimo
  /\ begins' = IF startMimo /\ begins < 2 THEN begins + 1 ELSE begins
  /\ UNCHANGED <<associated, beamformedLinks, suMimoCompleted, slsRows, mac,
                 stalled, awvAppends>>

\* "DTIStarted" on the STA. The first DTI in which the STA is associated
\* starts a TXSS TXOP with the PCP/AP; every DTI after 0.6 s in which two
\* links are beamformed and SU-MIMO has not completed schedules
\* StartSuMimoBeamforming 3 us later. The scheduled call runs before the
\* next DTI starts, hence the guard ~startScheduled.
DataTransmissionIntervalStarted ==
  LET now == IF dti > DwellDtis THEN dti ELSE dti + 1
      performTxss == associated /\ firstDti
      startMimo == beamformedLinks = 2 /\ now > DwellDtis /\ ~suMimoCompleted
  IN
  /\ ~startScheduled
  /\ dti' = now
  /\ txss' = IF performTxss THEN Endpoints ELSE txss
  /\ firstDti' = IF performTxss THEN FALSE ELSE firstDti
  /\ startScheduled' = startMimo
  /\ begins' = IF startMimo /\ begins < 2 THEN begins + 1 ELSE begins
  /\ UNCHANGED <<associated, beamformedLinks, suMimoCompleted, slsRows, mac,
                 stalled, awvAppends>>

\* Mutant: the accessPeriod == CHANNEL_ACCESS_DTI test is dropped.
SLSCompletedAnyPeriod(e, p) ==
  /\ \/ p = "DTI" /\ e \in txss
     \/ p = "BHI" /\ <<e, "BHI">> \notin slsRows
  /\ txss' = IF p = "DTI" THEN txss \ {e} ELSE txss
  /\ slsRows' = slsRows \cup {<<e, p>>}
  /\ beamformedLinks' = IF ~Csv
                          THEN (beamformedLinks + 1) % LinkCounterModulus
                          ELSE beamformedLinks
  /\ UNCHANGED <<associated, firstDti, suMimoCompleted, dti, startScheduled,
                 mac, begins, stalled, awvAppends>>

\* "SLSCompleted" on node e in access period p. A DTI sweep is the one the
\* TXSS TXOP started; the counter is only touched when csv is off.
SLSCompleted(e, p) ==
  /\ \/ p = "DTI" /\ e \in txss
     \/ p = "BHI" /\ <<e, "BHI">> \notin slsRows
  /\ txss' = IF p = "DTI" THEN txss \ {e} ELSE txss
  /\ slsRows' = slsRows \cup {<<e, p>>}
  /\ beamformedLinks' = IF ~Csv /\ p = "DTI"
                          THEN (beamformedLinks + 1) % LinkCounterModulus
                          ELSE beamformedLinks
  /\ UNCHANGED <<associated, firstDti, suMimoCompleted, dti, startScheduled,
                 mac, begins, stalled, awvAppends>>

\* The MAC fails the TXSS with node e: no SLSCompleted is raised for it.
TxssLost(e) ==
  /\ MacFailures
  /\ e \in txss
  /\ txss' = txss \ {e}
  /\ UNCHANGED <<associated, firstDti, beamformedLinks, suMimoCompleted, dti,
                 slsRows, startScheduled, mac, begins, stalled, awvAppends>>

\* The scheduled DmgWifiMac::StartSuMimoBeamforming runs; a MAC already
\* training ignores it.
StartSuMimoBeamforming ==
  /\ startScheduled
  /\ startScheduled' = FALSE
  /\ mac' = IF mac = "Idle" THEN "Siso" ELSE mac
  /\ stalled' = IF mac = "Idle" THEN "Idle" ELSE stalled
  /\ UNCHANGED <<associated, firstDti, beamformedLinks, suMimoCompleted, dti,
                 txss, slsRows, begins, awvAppends>>

\* "SuMimoSisoPhaseCompleted": the callback selects the K best combinations,
\* with useAwvs appends AWVs to the STA's codebook, and calls
\* StartSuMimoMimoPhase. No frame exchange ends within the 3 us a scheduled
\* StartSuMimoBeamforming waits, hence ~startScheduled here and in the
\* other training events.
SuMimoSisoPhaseComplete ==
  /\ ~startScheduled
  /\ mac = "Siso"
  /\ mac' = "MimoRequested"
  /\ awvAppends' = IF UseAwvs /\ awvAppends < 2 THEN awvAppends + 1
                                                ELSE awvAppends
  /\ UNCHANGED <<associated, firstDti, beamformedLinks, suMimoCompleted, dti,
                 txss, slsRows, startScheduled, begins, stalled>>

\* "SuMimoMimoCandidatesSelected": the MAC starts the MIMO phase; the
\* callback only writes the candidate traces.
SuMimoMimoCandidatesSelected ==
  /\ ~startScheduled
  /\ mac = "MimoRequested"
  /\ mac' = "Mimo"
  /\ UNCHANGED <<associated, firstDti, beamformedLinks, suMimoCompleted, dti,
                 txss, slsRows, startScheduled, begins, stalled, awvAppends>>

\* Mutant: the completion callback does not set suMimoCompleted.
SuMimoMimoPhaseCompleteNoFlag ==
  /\ ~startScheduled
  /\ mac = "Mimo"
  /\ mac' = "Idle"
  /\ UNCHANGED <<associated, firstDti, beamformedLinks, suMimoCompleted, dti,
                 txss, slsRows, startScheduled, begins, stalled, awvAppends>>

\* "SuMimoMimoPhaseCompleted": the callback sets suMimoCompleted.
SuMimoMimoPhaseComplete ==
  /\ ~startScheduled
  /\ mac = "Mimo"
  /\ mac' = "Idle"
  /\ suMimoCompleted' = TRUE
  /\ UNCHANGED <<associated, firstDti, beamformedLinks, dti, txss, slsRows,
                 startScheduled, begins, stalled, awvAppends>>

\* "SuMimoMimoPhaseCompleted" on the PCP/AP, the responder of the STA's
\* training, at the end of its MIMO phase: the callback is the same
\* function and sets the same suMimoCompleted.
ApSuMimoMimoPhaseComplete ==
  /\ ~startScheduled
  /\ mac = "Mimo"
  /\ ~suMimoCompleted
  /\ suMimoCompleted' = TRUE
  /\ UNCHANGED <<associated, firstDti, beamformedLinks, dti, txss, slsRows,
                 startScheduled, mac, begins, stalled, awvAppends>>

\* The MAC gives up a training without raising a completion event.
MacAbortsTraining ==
  /\ MacFailures
  /\ ~startScheduled
  /\ mac # "Idle"
  /\ mac' = "Idle"
  /\ stalled' = mac
  /\ UNCHANGED <<associated, firstDti, beamformedLinks, suMimoCompleted, dti,
                 txss, slsRows, startScheduled, begins, awvAppends>>

Next ==
  \/ StationAssoicated
  \/ DataTransmissionIntervalStarted
  \/ \E e \in Endpoints, p \in AccessPeriods : SLSCompleted(e, p)
  \/ \E e \in Endpoints : TxssLost(e)
  \/ StartSuMimoBeamforming
  \/ SuMimoSisoPhaseComplete
  \/ SuMimoMimoCandidatesSelected
  \/ SuMimoMimoPhaseComplete
  \/ ApSuMimoMimoPhaseComplete
  \/ MacAbortsTraining

\* Beacon intervals keep coming and a scheduled event runs; the training
\* steps of the MAC are disabled only during the 3 us windows, so they are
\* strongly fair.
Fairness ==
  /\ WF_vars(DataTransmissionIntervalStarted)
  /\ WF_vars(StartSuMimoBeamforming)
  /\ SF_vars(SuMimoSisoPhaseComplete)
  /\ SF_vars(SuMimoMimoCandidatesSelected)
  /\ SF_vars(SuMimoMimoPhaseComplete)

Spec == Init /\ [][Next]_vars

FairSpec == Spec /\ Fairness

-----------------------------------------------------------------------------
(* Properties.                                                             *)

\* The training phase of the STA-to-AP session, read off the globals and
\* the MAC's training state. A training the MAC gave up leaves the session
\* in the phase it had reached (the design: no automatic re-trigger).
PhaseOf ==
  LET m == IF mac = "Idle" THEN stalled ELSE mac
  IN  CASE suMimoCompleted                       -> "Complete"
        [] ~suMimoCompleted /\ m = "Mimo"          -> "MimoEvaluation"
        [] ~suMimoCompleted /\ m = "MimoRequested" -> "MimoCandidateSelection"
        [] ~suMimoCompleted /\ m = "Siso"          -> "SisoDiscovery"
        [] ~suMimoCompleted /\ m = "Idle" /\ begins > 0 -> "SisoDiscovery"
        [] ~suMimoCompleted /\ m = "Idle" /\ begins = 0 /\ ~firstDti
                                                  -> "SectorSweep"
        [] ~suMimoCompleted /\ m = "Idle" /\ begins = 0 /\ firstDti
                                                  -> "Idle"

Phases == INSTANCE SuMimoPhases WITH phase <- PhaseOf

\* The sequencer implements the abstract phase machine: the phase never
\* regresses and never skips one (DataTransmissionIntervalStarted,
\* SLSCompleted and the SU-MIMO callbacks together).
PhaseRefinement == Phases!Spec

\* SU-MIMO training is begun (StartSuMimoBeamforming scheduled or running,
\* or completed) only after both nodes completed a sector sweep with each
\* other in a DTI and after the 0.6 s dwell: the beamformedLinks == 2 test
\* of DataTransmissionIntervalStarted must count exactly the DTI sweeps of
\* distinct nodes counted by SLSCompleted.
TrainingGatedOnMutualSls ==
  (startScheduled \/ mac # "Idle" \/ suMimoCompleted)
    => DtiSls = Endpoints /\ dti > DwellDtis

\* Once both nodes are beamformed in a DTI, the SU-MIMO training is
\* eventually completed (DataTransmissionIntervalStarted re-checks the
\* trigger at every DTI).
TrainingCompletes == DtiSls = Endpoints ~> suMimoCompleted

\* The design: the SectorSweep -> SisoDiscovery transition issues a single
\* begin-combination-training request. Checked against
\* DataTransmissionIntervalStarted, which schedules StartSuMimoBeamforming.
SingleBeginRequest == begins <= 1

\* The design: the session of the STA is Complete only through its own
\* "MIMO phase complete" event. Checked against SuMimoMimoPhaseComplete,
\* connected on both nodes to one suMimoCompleted: when it is set, the
\* STA's last training was not given up (stalled is reset by every
\* StartSuMimoBeamforming that begins a training and set by an abort).
CompletedByInitiator == suMimoCompleted => stalled = "Idle"

\* Completion is final: once suMimoCompleted is set, by the STA's or the
\* AP's SuMimoMimoPhaseCompleted callback, the STA's MAC never begins
\* another training, even after the MAC gave up the one in progress
\* (DataTransmissionIntervalStarted tests !suMimoCompleted before it
\* schedules StartSuMimoBeamforming).
NoTrainingAfterCompletion ==
  [][suMimoCompleted => ~(mac = "Idle" /\ mac' = "Siso")]_vars

\* The AWVs are appended to the STA's codebook once ("Append 5 AWVs to
\* each sector"), however often SuMimoSisoPhaseComplete runs.
AwvsAppendedOnce == awvAppends <= 1

\* What beamformedLinks should be: the number of distinct nodes with a DTI
\* sweep (there are two nodes).
SweepCount(S) == IF S = {} THEN 0 ELSE IF S = Endpoints THEN 2 ELSE 1

\* Inductive invariant: beamformedLinks, updated by SLSCompleted and read by
\* DataTransmissionIntervalStarted, counts the distinct nodes that completed
\* a DTI sweep (and stays 0 with csv on); the single TXSS owes each node at
\* most one sweep; and the training gate holds.
IInv ==
  /\ TypeOK
  /\ beamformedLinks = IF Csv THEN 0 ELSE SweepCount(DtiSls)
  /\ txss \cap DtiSls = {}
  /\ firstDti => txss = {} /\ DtiSls = {}
  /\ TrainingGatedOnMutualSls

=============================================================================
