---------------------- MODULE SuMimoSequencerRefinement ----------------------
(***************************************************************************)
(* Proof that, with a MAC that neither loses a sweep nor gives up a        *)
(* training, the sequencer implements the abstract phase machine          *)
(* SuMimoPhases under the mapping PhaseOf: every callback either leaves   *)
(* the session's phase alone or advances it by exactly one phase. This is *)
(* the safety part of PhaseRefinement, for every dwell length and with    *)
(* csv and useAwvs on or off.                                              *)
(***************************************************************************)
EXTENDS SuMimoSequencerProofs

\* What the refinement needs beyond IInv: with a reliable MAC no training
\* is ever given up; a request, a training or a completion means a
\* StartSuMimoBeamforming was scheduled; and a scheduled one comes after
\* the single TXSS (firstDti is already cleared).
RExtra ==
  /\ stalled = "Idle"
  /\ startScheduled => begins > 0
  /\ (mac # "Idle" \/ suMimoCompleted) => begins > 0
  /\ begins > 0 => ~firstDti

-----------------------------------------------------------------------------
(* The abstract phase order.                                               *)

\* The successor of each phase but Complete in SuMimoPhases's order.
LEMMA Successors ==
  /\ Phases!PhaseOrder[Phases!Rank("Idle") + 1] = "SectorSweep"
  /\ Phases!PhaseOrder[Phases!Rank("SectorSweep") + 1] = "SisoDiscovery"
  /\ Phases!PhaseOrder[Phases!Rank("SisoDiscovery") + 1]
       = "MimoCandidateSelection"
  /\ Phases!PhaseOrder[Phases!Rank("MimoCandidateSelection") + 1]
       = "MimoEvaluation"
  /\ Phases!PhaseOrder[Phases!Rank("MimoEvaluation") + 1] = "Complete"
<1>1. /\ Phases!Rank("Idle") = 1
      /\ Phases!Rank("SectorSweep") = 2
      /\ Phases!Rank("SisoDiscovery") = 3
      /\ Phases!Rank("MimoCandidateSelection") = 4
      /\ Phases!Rank("MimoEvaluation") = 5
  BY DEF Phases!Rank, Phases!PhaseOrder
<1> QED BY <1>1 DEF Phases!PhaseOrder

-----------------------------------------------------------------------------
(* The invariant.                                                          *)

LEMMA RExtraInit == Init => RExtra
  BY DEF Init, RExtra

\* Given IInv, a step of a reliable MAC preserves RExtra.
LEMMA RExtraStep ==
  ASSUME ~MacFailures
  PROVE  IInv /\ RExtra /\ [Next]_vars => RExtra'
<1> SUFFICES ASSUME IInv, RExtra, [Next]_vars PROVE RExtra'
  OBVIOUS
<1>1. CASE DataTransmissionIntervalStarted
  <2> DEFINE now == IF dti > DwellDtis THEN dti ELSE dti + 1
             startMimo == beamformedLinks = 2 /\ now > DwellDtis
                          /\ ~suMimoCompleted
  <2>1. startMimo => DtiSls = Endpoints
    <3>1. DtiSls \in SUBSET Endpoints
      BY DEF DtiSls
    <3>2. beamformedLinks = 2 => SweepCount(DtiSls) = 2
      BY DEF IInv
    <3> QED BY <3>1, <3>2, SweepCountTwo
  <2>2. startMimo => ~firstDti
    BY <2>1 DEF IInv, Endpoints
  <2>3. begins' > 0 => ~firstDti'
    BY <1>1, <2>2 DEF DataTransmissionIntervalStarted, RExtra, IInv, TypeOK
  <2>4. startScheduled' => begins' > 0
    BY <1>1 DEF DataTransmissionIntervalStarted, IInv, TypeOK
  <2> QED BY <1>1, <2>3, <2>4 DEF DataTransmissionIntervalStarted, RExtra,
             IInv, TypeOK
<1>2. CASE StartSuMimoBeamforming
  BY <1>2 DEF StartSuMimoBeamforming, RExtra
<1>3. ASSUME NEW e \in Endpoints, NEW p \in AccessPeriods, SLSCompleted(e, p)
      PROVE  RExtra'
  BY <1>3 DEF SLSCompleted, RExtra
<1>4. ASSUME NEW e \in Endpoints, TxssLost(e) PROVE RExtra'
  BY <1>4 DEF TxssLost
<1>5. CASE MacAbortsTraining
  BY <1>5 DEF MacAbortsTraining
<1>6. CASE StationAssoicated
  BY <1>6 DEF StationAssoicated, RExtra
<1>7. CASE SuMimoSisoPhaseComplete
  BY <1>7 DEF SuMimoSisoPhaseComplete, RExtra
<1>8. CASE SuMimoMimoCandidatesSelected
  BY <1>8 DEF SuMimoMimoCandidatesSelected, RExtra
<1>9. CASE SuMimoMimoPhaseComplete
  BY <1>9 DEF SuMimoMimoPhaseComplete, RExtra
<1>10. CASE ApSuMimoMimoPhaseComplete
  BY <1>10 DEF ApSuMimoMimoPhaseComplete, RExtra
<1>11. CASE UNCHANGED vars
  BY <1>11 DEF vars, RExtra
<1> QED BY <1>1, <1>2, <1>3, <1>4, <1>5, <1>6, <1>7, <1>8, <1>9, <1>10, <1>11
        DEF Next

\* Two beamformed links mean the TXSS of the first DTI has happened.
LEMMA TwoLinksAfterTxss == IInv /\ beamformedLinks = 2 => ~firstDti
<1> SUFFICES ASSUME IInv, beamformedLinks = 2 PROVE ~firstDti
  OBVIOUS
<1>1. DtiSls \in SUBSET Endpoints
  BY DEF DtiSls
<1>2. DtiSls = Endpoints
  BY <1>1, SweepCountTwo DEF IInv
<1> QED BY <1>2 DEF IInv, Endpoints

-----------------------------------------------------------------------------
(* The refinement step.                                                    *)

\* Under IInv /\ RExtra every step of a reliable MAC is an Advance of the
\* abstract phase or leaves the phase unchanged.
LEMMA PhaseStep ==
  ASSUME ~MacFailures
  PROVE  IInv /\ RExtra /\ [Next]_vars => [Phases!Advance]_PhaseOf
<1> SUFFICES ASSUME IInv, RExtra, [Next]_vars
             PROVE  [Phases!Advance]_PhaseOf
  OBVIOUS
<1> USE Successors DEF Phases!Advance
<1>1. CASE DataTransmissionIntervalStarted
  <2> DEFINE startMimo == beamformedLinks = 2
               /\ (IF dti > DwellDtis THEN dti ELSE dti + 1) > DwellDtis
               /\ ~suMimoCompleted
  <2>0. /\ startMimo => ~firstDti
        /\ begins \in 0 .. 2 /\ mac \in MacStates
    BY TwoLinksAfterTxss DEF IInv, TypeOK
  <2>1. CASE suMimoCompleted
    BY <1>1, <2>1 DEF DataTransmissionIntervalStarted, PhaseOf
  <2>2. CASE ~suMimoCompleted /\ (mac # "Idle" \/ begins > 0)
    BY <1>1, <2>0, <2>2 DEF DataTransmissionIntervalStarted, PhaseOf, RExtra
  <2>3. CASE ~suMimoCompleted /\ mac = "Idle" /\ begins = 0 /\ firstDti
             /\ associated
    BY <1>1, <2>0, <2>3 DEF DataTransmissionIntervalStarted, PhaseOf, RExtra
  <2>4. CASE ~suMimoCompleted /\ mac = "Idle" /\ begins = 0 /\ firstDti
             /\ ~associated
    BY <1>1, <2>0, <2>4 DEF DataTransmissionIntervalStarted, PhaseOf, RExtra
  <2>5. CASE ~suMimoCompleted /\ mac = "Idle" /\ begins = 0 /\ ~firstDti
    BY <1>1, <2>0, <2>5 DEF DataTransmissionIntervalStarted, PhaseOf, RExtra
  <2> QED BY <2>0, <2>1, <2>2, <2>3, <2>4, <2>5
<1>2. CASE StartSuMimoBeamforming
  BY <1>2 DEF StartSuMimoBeamforming, PhaseOf, RExtra
<1>3. ASSUME NEW e \in Endpoints, NEW p \in AccessPeriods, SLSCompleted(e, p)
      PROVE  [Phases!Advance]_PhaseOf
  BY <1>3 DEF SLSCompleted, PhaseOf
<1>4. ASSUME NEW e \in Endpoints, TxssLost(e) PROVE [Phases!Advance]_PhaseOf
  BY <1>4 DEF TxssLost
<1>5. CASE MacAbortsTraining
  BY <1>5 DEF MacAbortsTraining
<1>6. CASE StationAssoicated
  BY <1>6 DEF StationAssoicated, PhaseOf
<1>7. CASE SuMimoSisoPhaseComplete
  BY <1>7 DEF SuMimoSisoPhaseComplete, PhaseOf, RExtra
<1>8. CASE SuMimoMimoCandidatesSelected
  BY <1>8 DEF SuMimoMimoCandidatesSelected, PhaseOf, RExtra
<1>9. CASE SuMimoMimoPhaseComplete
  BY <1>9 DEF SuMimoMimoPhaseComplete, PhaseOf, RExtra
<1>10. CASE ApSuMimoMimoPhaseComplete
  BY <1>10 DEF ApSuMimoMimoPhaseComplete, PhaseOf, RExtra
<1>11. CASE UNCHANGED vars
  BY <1>11 DEF vars, PhaseOf
<1> QED BY <1>1, <1>2, <1>3, <1>4, <1>5, <1>6, <1>7, <1>8, <1>9, <1>10, <1>11
        DEF Next

\* With a MAC that neither loses a TXSS nor gives up a training, every
\* behaviour of the callbacks (DataTransmissionIntervalStarted,
\* SLSCompleted, StartSuMimoBeamforming and the SU-MIMO phase events)
\* starts at Idle and moves the session's phase only forward, one phase at
\* a time, for every dwell length and every csv and useAwvs setting.
THEOREM PhaseRefinementProof ==
  ASSUME ~MacFailures
  PROVE  Spec => PhaseRefinement
<1>1. Init => Phases!Init
  BY DEF Init, PhaseOf, Phases!Init
<1>2. Spec => [](IInv /\ RExtra)
  <2>1. Init => RExtra
    BY RExtraInit
  <2>2. IInv /\ RExtra /\ [Next]_vars => RExtra'
    BY RExtraStep
  <2> QED BY <2>1, <2>2, CounterInvariant, PTL DEF Spec
<1>3. IInv /\ RExtra /\ [Next]_vars => [Phases!Advance]_PhaseOf
  BY PhaseStep
<1> QED BY <1>1, <1>2, <1>3, PTL DEF Spec, PhaseRefinement, Phases!Spec

=============================================================================
