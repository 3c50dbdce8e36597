------------------------ MODULE SuMimoSequencerProofs ------------------------
(***************************************************************************)
(* Proofs about SuMimoSequencer, for every value of the constants:        *)
(* type correctness, and that beamformedLinks counts the distinct nodes  *)
(* beamformed in a DTI, so that the SU-MIMO training is begun only after *)
(* both nodes completed a DTI sector sweep and after the dwell.          *)
(***************************************************************************)
EXTENDS SuMimoSequencer, TLAPS

USE EndpointsAssumption, FlagsAssumption, DwellAssumption

-----------------------------------------------------------------------------
(* Lemmas about the operators.                                             *)

\* Adding a node that has no DTI sweep yet raises the count by one.
LEMMA SweepCountStep ==
  ASSUME NEW S \in SUBSET Endpoints, NEW e \in Endpoints \ S
  PROVE  SweepCount(S \cup {e}) = SweepCount(S) + 1
  BY DEF SweepCount, Endpoints

\* The count reaches 2 only when both nodes swept.
LEMMA SweepCountTwo ==
  ASSUME NEW S \in SUBSET Endpoints, SweepCount(S) = 2
  PROVE  S = Endpoints
  BY DEF SweepCount

\* How an SLSCompleted callback changes the set of nodes beamformed in a DTI.
LEMMA DtiSlsAfterSls ==
  ASSUME TypeOK, NEW e \in Endpoints, NEW p \in AccessPeriods,
         SLSCompleted(e, p)
  PROVE  DtiSls' = IF p = "DTI" THEN DtiSls \cup {e} ELSE DtiSls
  BY DEF SLSCompleted, DtiSls, AccessPeriods

-----------------------------------------------------------------------------
(* Type correctness.                                                       *)

\* One step of any callback or MAC event preserves the types.
LEMMA TypeStep == TypeOK /\ [Next]_vars => TypeOK'
<1> SUFFICES ASSUME TypeOK, [Next]_vars PROVE TypeOK'
  OBVIOUS
<1>1. CASE StationAssoicated
  BY <1>1 DEF StationAssoicated, TypeOK
<1>2. CASE DataTransmissionIntervalStarted
  <2>1. dti' \in 0 .. (DwellDtis + 1) /\ begins' \in 0 .. 2
    BY <1>2 DEF DataTransmissionIntervalStarted, TypeOK
  <2>2. txss' \subseteq Endpoints
    BY <1>2 DEF DataTransmissionIntervalStarted, TypeOK
  <2>3. QED
    BY <1>2, <2>1, <2>2, Zenon DEF DataTransmissionIntervalStarted, TypeOK
<1>3. ASSUME NEW e \in Endpoints, NEW p \in AccessPeriods, SLSCompleted(e, p)
      PROVE  TypeOK'
  BY <1>3 DEF SLSCompleted, TypeOK, LinkCounterModulus
<1>4. ASSUME NEW e \in Endpoints, TxssLost(e) PROVE TypeOK'
  BY <1>4 DEF TxssLost, TypeOK
<1>5. CASE StartSuMimoBeamforming
  BY <1>5 DEF StartSuMimoBeamforming, TypeOK, MacStates
<1>6. CASE SuMimoSisoPhaseComplete
  <2>1. awvAppends' \in 0 .. 2
    BY <1>6 DEF SuMimoSisoPhaseComplete, TypeOK
  <2>2. QED
    BY <1>6, <2>1 DEF SuMimoSisoPhaseComplete, TypeOK, MacStates
<1>7. CASE SuMimoMimoCandidatesSelected
  BY <1>7 DEF SuMimoMimoCandidatesSelected, TypeOK, MacStates
<1>8. CASE SuMimoMimoPhaseComplete
  BY <1>8 DEF SuMimoMimoPhaseComplete, TypeOK, MacStates
<1>9. CASE MacAbortsTraining
  BY <1>9 DEF MacAbortsTraining, TypeOK, MacStates
<1>10. CASE UNCHANGED vars
  BY <1>10 DEF vars, TypeOK
<1>11. CASE ApSuMimoMimoPhaseComplete
  BY <1>11 DEF ApSuMimoMimoPhaseComplete, TypeOK
<1>12. QED
  BY <1>1, <1>2, <1>3, <1>4, <1>5, <1>6, <1>7, <1>8, <1>9, <1>10, <1>11
  DEF Next

\* The initial state has the types.
LEMMA TypeInit == Init => TypeOK
<1> SUFFICES ASSUME Init PROVE TypeOK
  OBVIOUS
<1>1. beamformedLinks \in 0 .. (LinkCounterModulus - 1) /\ begins \in 0 .. 2
      /\ dti \in 0 .. (DwellDtis + 1)
  BY DEF Init, LinkCounterModulus
<1>2. QED
  BY <1>1, Zenon DEF Init, TypeOK, MacStates

\* Every variable keeps the type TypeOK gives it: the callbacks and the MAC
\* events only assign values of the declared types (beamformedLinks wraps
\* modulo 256 as a uint8_t, dti saturates).
LEMMA TypeCorrect == Spec => []TypeOK
BY TypeInit, TypeStep, PTL DEF Spec

-----------------------------------------------------------------------------
(* The counter and the training gate.                                      *)

\* IInv holds in every reachable state, whatever the MAC loses or aborts
\* and whether csv is on: beamformedLinks counts the distinct nodes with a
\* DTI sweep, and a training is begun only after both and after the dwell.
THEOREM CounterInvariant == Spec => []IInv
<1>1. Init => IInv
  <2> SUFFICES ASSUME Init PROVE IInv
    OBVIOUS
  <2>1. TypeOK
    BY TypeInit
  <2>2. DtiSls = {}
    BY DEF Init, DtiSls
  <2>3. beamformedLinks = IF Csv THEN 0 ELSE SweepCount(DtiSls)
    BY <2>2 DEF Init, SweepCount
  <2>4. QED
    BY <2>1, <2>2, <2>3 DEF Init, IInv, TrainingGatedOnMutualSls
<1>2. IInv /\ [Next]_vars => IInv'
  <2> SUFFICES ASSUME IInv, [Next]_vars PROVE IInv'
    OBVIOUS
  <2>0. TypeOK'
    BY TypeStep DEF IInv
  <2>1. CASE StationAssoicated
    BY <2>0, <2>1 DEF StationAssoicated, IInv, DtiSls, TrainingGatedOnMutualSls
  <2>2. CASE DataTransmissionIntervalStarted
    <3> DEFINE now == IF dti > DwellDtis THEN dti ELSE dti + 1
    <3>1. beamformedLinks = 2 => DtiSls = Endpoints
      <4>1. DtiSls \in SUBSET Endpoints
        BY DEF DtiSls
      <4>2. beamformedLinks = 2 => SweepCount(DtiSls) = 2
        BY DEF IInv
      <4>3. QED
        BY <4>1, <4>2, SweepCountTwo
    <3>2. dti' = now /\ now >= dti
      BY <2>2 DEF DataTransmissionIntervalStarted, IInv, TypeOK
    <3>3. DtiSls' = DtiSls
      BY <2>2 DEF DataTransmissionIntervalStarted, DtiSls
    <3>4. startScheduled' => DtiSls' = Endpoints /\ dti' > DwellDtis
      BY <2>2, <3>1, <3>2, <3>3 DEF DataTransmissionIntervalStarted
    <3>5. (mac' # "Idle" \/ suMimoCompleted')
            => DtiSls' = Endpoints /\ dti' > DwellDtis
      BY <2>2, <3>2, <3>3 DEF DataTransmissionIntervalStarted, IInv,
         TrainingGatedOnMutualSls
    <3>6. firstDti' => txss' = {} /\ DtiSls' = {}
      BY <2>2, <3>3 DEF DataTransmissionIntervalStarted, IInv
    <3>7. txss' \cap DtiSls' = {}
      BY <2>2, <3>3, <3>6 DEF DataTransmissionIntervalStarted, IInv
    <3>8. beamformedLinks' = IF Csv THEN 0 ELSE SweepCount(DtiSls')
      BY <2>2, <3>3 DEF DataTransmissionIntervalStarted, IInv
    <3>9. QED
      BY <2>0, <3>4, <3>5, <3>6, <3>7, <3>8 DEF IInv, TrainingGatedOnMutualSls
  <2>3. ASSUME NEW e \in Endpoints, NEW p \in AccessPeriods, SLSCompleted(e, p)
        PROVE  IInv'
    <3>1. DtiSls' = IF p = "DTI" THEN DtiSls \cup {e} ELSE DtiSls
      BY <2>3, DtiSlsAfterSls DEF IInv
    <3>2. DtiSls \subseteq DtiSls'
      BY <3>1
    <3>3. CASE p = "DTI"
      <4>1. e \in txss /\ e \notin DtiSls
        BY <2>3, <3>3 DEF SLSCompleted, IInv
      <4>2. SweepCount(DtiSls') = SweepCount(DtiSls) + 1
        BY <3>1, <3>3, <4>1, SweepCountStep DEF DtiSls
      <4>3. beamformedLinks' = IF Csv THEN 0 ELSE SweepCount(DtiSls')
        BY <2>3, <3>3, <4>2 DEF SLSCompleted, IInv, SweepCount,
           LinkCounterModulus
      <4>4. txss' \cap DtiSls' = {}
        BY <2>3, <3>1, <3>3 DEF SLSCompleted, IInv
      <4>5. firstDti' => txss' = {} /\ DtiSls' = {}
        BY <2>3, <4>1 DEF SLSCompleted, IInv
      <4>6. TrainingGatedOnMutualSls'
        <5>1. DtiSls' \subseteq Endpoints
          BY DEF DtiSls
        <5>2. QED
          BY <2>3, <3>2, <5>1 DEF SLSCompleted, IInv, TrainingGatedOnMutualSls
      <4>7. QED
        BY <2>0, <4>3, <4>4, <4>5, <4>6 DEF IInv
    <3>4. CASE p = "BHI"
      BY <2>0, <2>3, <3>1, <3>4 DEF SLSCompleted, IInv,
         TrainingGatedOnMutualSls
    <3>5. QED
      BY <3>3, <3>4 DEF AccessPeriods
  <2>4. ASSUME NEW e \in Endpoints, TxssLost(e) PROVE IInv'
    BY <2>0, <2>4 DEF TxssLost, IInv, DtiSls, TrainingGatedOnMutualSls
  <2>5. CASE StartSuMimoBeamforming
    BY <2>0, <2>5 DEF StartSuMimoBeamforming, IInv, DtiSls,
       TrainingGatedOnMutualSls
  <2>6. CASE SuMimoSisoPhaseComplete
    BY <2>0, <2>6 DEF SuMimoSisoPhaseComplete, IInv, DtiSls,
       TrainingGatedOnMutualSls
  <2>7. CASE SuMimoMimoCandidatesSelected
    BY <2>0, <2>7 DEF SuMimoMimoCandidatesSelected, IInv, DtiSls,
       TrainingGatedOnMutualSls
  <2>8. CASE SuMimoMimoPhaseComplete
    BY <2>0, <2>8 DEF SuMimoMimoPhaseComplete, IInv, DtiSls,
       TrainingGatedOnMutualSls
  <2>9. CASE MacAbortsTraining
    BY <2>0, <2>9 DEF MacAbortsTraining, IInv, DtiSls,
       TrainingGatedOnMutualSls
  <2>10. CASE UNCHANGED vars
    BY <2>0, <2>10 DEF vars, IInv, DtiSls, TrainingGatedOnMutualSls
  <2>11. CASE ApSuMimoMimoPhaseComplete
    BY <2>0, <2>11 DEF ApSuMimoMimoPhaseComplete, IInv, DtiSls,
       TrainingGatedOnMutualSls
  <2>12. QED
    BY <2>1, <2>2, <2>3, <2>4, <2>5, <2>6, <2>7, <2>8, <2>9, <2>10, <2>11
    DEF Next
<1>3. QED
  BY <1>1, <1>2, PTL DEF Spec

\* The SU-MIMO training (StartSuMimoBeamforming scheduled, a training in
\* the MAC, or suMimoCompleted) is only ever begun after both nodes
\* completed a DTI sector sweep with each other and after the 0.6 s dwell.
THEOREM TrainingGated == Spec => []TrainingGatedOnMutualSls
<1>1. IInv => TrainingGatedOnMutualSls
  BY DEF IInv
<1>2. QED
  BY <1>1, CounterInvariant, PTL

-----------------------------------------------------------------------------
(* Completion is final.                                                    *)

\* No StartSuMimoBeamforming is pending once SU-MIMO is completed: the DTI
\* trigger tests !suMimoCompleted, and no completion event runs in the 3 us
\* a scheduled call waits.
CompletedNotScheduled == suMimoCompleted => ~startScheduled

LEMMA CompletedNotScheduledStep ==
  CompletedNotScheduled /\ [Next]_vars => CompletedNotScheduled'
<1> SUFFICES ASSUME CompletedNotScheduled, [Next]_vars
             PROVE  CompletedNotScheduled'
  OBVIOUS
<1> USE DEF CompletedNotScheduled
<1>1. CASE DataTransmissionIntervalStarted
  BY <1>1 DEF DataTransmissionIntervalStarted
<1>2. ASSUME NEW e \in Endpoints, NEW p \in AccessPeriods, SLSCompleted(e, p)
      PROVE  CompletedNotScheduled'
  BY <1>2 DEF SLSCompleted
<1>3. ASSUME NEW e \in Endpoints, TxssLost(e) PROVE CompletedNotScheduled'
  BY <1>3 DEF TxssLost
<1> QED BY <1>1, <1>2, <1>3
        DEF Next, vars, StationAssoicated, StartSuMimoBeamforming,
            SuMimoSisoPhaseComplete, SuMimoMimoCandidatesSelected,
            SuMimoMimoPhaseComplete, ApSuMimoMimoPhaseComplete,
            MacAbortsTraining

\* Only StartSuMimoBeamforming moves the MAC from Idle into a training.
LEMMA OnlyStartBegins ==
  [Next]_vars /\ mac = "Idle" /\ mac' = "Siso" => StartSuMimoBeamforming
  BY DEF Next, vars, StationAssoicated, DataTransmissionIntervalStarted,
         SLSCompleted, TxssLost, SuMimoSisoPhaseComplete,
         SuMimoMimoCandidatesSelected, SuMimoMimoPhaseComplete,
         ApSuMimoMimoPhaseComplete, MacAbortsTraining

\* For every dwell length, with lost sweeps and aborted trainings, once
\* either node's SuMimoMimoPhaseCompleted callback has set suMimoCompleted
\* the STA's MAC never begins another SU-MIMO training.
THEOREM FinalCompletion == Spec => NoTrainingAfterCompletion
<1>1. Init => CompletedNotScheduled
  BY DEF Init, CompletedNotScheduled
<1>2. CompletedNotScheduled /\ [Next]_vars => CompletedNotScheduled'
  BY CompletedNotScheduledStep
<1>3. CompletedNotScheduled /\ [Next]_vars
        => [suMimoCompleted => ~(mac = "Idle" /\ mac' = "Siso")]_vars
  BY OnlyStartBegins DEF CompletedNotScheduled, StartSuMimoBeamforming
<1> QED BY <1>1, <1>2, <1>3, PTL DEF Spec, NoTrainingAfterCompletion

=============================================================================
