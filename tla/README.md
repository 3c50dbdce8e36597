# Verification of `src/scratch/evaluate_11ay_su_mimo.cc`

TLA+ models of the 802.11ay SU-MIMO evaluation scenario, their TLC runs and
TLAPS proofs. The program is one ns-3 script. Two nodes, an EDMG PCP/AP and an
EDMG STA, associate, beamform with a sector-level sweep (SLS), and then the STA
runs SU-MIMO beamforming training: a SISO phase, then MIMO candidate
selection, then the MIMO phase. The script drives that training from trace
callbacks and writes each phase's results to CSV trace files.

## The system

| Part (spec section) | Code | State | Operations |
|---|---|---|---|
| Phase Sequencer (4.1) | globals at lines 91-94; callbacks at 160, 117, 377, 221, 248, 361 | `firstDti`, `beamformedLinks` (uint8_t), `suMimoCompleted`; the MAC's training state | association, DTI start, SLS completed, SISO completed, candidates selected, MIMO completed |
| Trace Exporter (4.3) | the callbacks' file writes; the `slsResults` stream opened in `main` (619) | one CSV file per phase and node, plus the shared `slsResults` | `CreateFileStream` (truncates), header row, data rows |
| Combination Ranker (4.2) | `FindKBestCombinations` (240) in DmgWifiMac; the `minSnr` queue drained at 320-358 | in the MAC | selection and ranking |
| Telemetry Sampler (4.4) | `CalculateThroughput` (96-115) | received bytes | every 100 ms |
| Statistics counters | 151-192 | four counters and the SNR file | increments |
| Bootstrap | `main` (397-725) | configuration | - |

**How the parts interact.** Everything runs on the single-threaded ns-3
event scheduler. The MAC of each node raises traced events and the script's
callbacks react:
- `Assoc` reports the STA's association.
- `DTIStarted` runs on the STA only. At the first DTI after association it starts a TXSS TXOP. At every DTI after 0.6 s in which `beamformedLinks == 2` and `!suMimoCompleted`, it schedules `StartSuMimoBeamforming` 3 µs later.
- `SLSCompleted` runs on both nodes. It writes an `slsResults` row and, when csv is off and the sweep happened in a DTI, increments `beamformedLinks`.
- The four SU-MIMO events run on both nodes and write the trace files.
- `SuMimoSisoPhaseCompleted` also picks the K best combinations and requests the MIMO phase.
- `SuMimoMimoPhaseCompleted` sets `suMimoCompleted`.

**Hard behaviours.**
- The trigger is re-tested at every DTI, so the same request can be issued repeatedly.
- SLS events of the BHI and of the DTI arrive interleaved from both nodes.
- The MAC may lose a sweep or give up a training, and nothing in the script notices.
- `beamformedLinks` is a uint8_t tested with `==`.
- Each SU-MIMO callback reopens, and so truncates, its file.

## Modules

- **`SuMimoPhases`**: the abstract specification, the phase machine of spec §3/§4.1. The phases are `Idle < SectorSweep < SisoDiscovery < MimoCandidateSelection < MimoEvaluation < Complete`, and there is one action, `Advance`.
- **`SuMimoSequencer`**: the Phase Sequencer. Its variables are the three globals plus the following:
  - `associated`;
  - `dti`, the DTIs started so far, saturating at `DwellDtis + 1` (only "after 0.6 s" is ever observed, so saturation is exact);
  - `txss`, the nodes still owed a TXSS sweep;
  - `slsRows`, which (node, access period) pairs have had an SLS;
  - `startScheduled`, the pending 3 µs call;
  - `mac`, the STA's training state in the MAC (`Idle`, `Siso`, `MimoRequested`, `Mimo`);
  - two history variables: `begins` (requests issued, saturating at 2) and `stalled` (where an aborted training stopped).

  Its actions are the callbacks, each with its whole handler, together with the MAC events that raise them:
  - `StationAssoicated`;
  - `DataTransmissionIntervalStarted`;
  - `SLSCompleted(e, p)`;
  - `StartSuMimoBeamforming`;
  - `SuMimoSisoPhaseComplete`;
  - `SuMimoMimoCandidatesSelected`;
  - `SuMimoMimoPhaseComplete`.

  Two actions model MAC failures, enabled by the constant `MacFailures`: `TxssLost(e)` and `MacAbortsTraining`.

  `ApSuMimoMimoPhaseComplete` is the AP's `SuMimoMimoPhaseCompleted` callback (connected at 638): the same function sets the same global. With `UseAwvs`, the history variable `awvAppends` counts the `AppendAwvsForSuMimoBFT_27` calls of `SuMimoSisoPhaseComplete` on the STA's codebook.

  Two timing facts become guards. The scheduled 3 µs call runs before the next DTI (102.4 ms later) and before any frame exchange ends, hence `~startScheduled` on the DTI and on the training events. The `SuMimoSisoPhaseMeasurements` and `SuMimoMimoPhaseMeasurements` callbacks touch none of the sequencer's state; they are actions of `SuMimoTraceFiles`.

  `PhaseOf` maps the sequencer's state to a phase, and `PhaseRefinement` is `SuMimoPhases!Spec` under that mapping.
- **`SuMimoTraceFiles`**: the Trace Exporter. Its state is `files`, the contents of every file: a row is abstracted to header or data and the training it belongs to. Column counts are left out, since no property tells them apart. `WriteFile` models `CreateFileStream` as truncate-then-write. Each node's MAC raises the SU-MIMO events in the order of spec §6, may give a training up, and may be given another one.
- **`SuMimoMimoExport`**: the drain loop of `SuMimoMimoPhaseMeasurements` (320-358), by value. Its state is the ranking queue `minSnr` the MAC hands over, the rows written so far (each with the (tx, rx) combination whose measurement it read), and whether an `at()` threw. The actions are as follows:
  - `DrainStep` is one iteration. It takes a top entry (`Top`, the entries of largest minimum stream SNR, ties left open) and computes the index of line 331 for each rx id (`MeasurementIndex`). Then it either writes the row and pops the entry, or throws.
  - `DrainDone` ends the loop.

  The MAC's layout of `mimoMeasurements` (tx-major, `MeasuredAt`) and its size (`MeasurementCount`) come from the MAC's interface, not from this file.

  `Written` maps the rows to the queue entries they were written for, dropping the measurements. `RankedDrainRefinement` is `RankedDrain!Spec` under `pending <- queue`, `out <- Written` and `done <- (status = "Done")`.
- **`RankedDrain`**: the abstract specification of draining the ranking queue (the design's `RankByMinStreamSnr`). `Pop` takes an entry of the highest key, appends it to `out` and removes it. `Finish` ends the drain, and only on an empty queue.
- **`SisoSectorLabel`**: the rows of `SuMimoSisoPhaseMeasurements` (194-217) with the value of their `TX_SECTOR_ID` column. `SectorLabel(awv, n)` is `awv / edmgTrnN` with `awv` counted from 1. The MAC's lists hold `edmgTrnN` samples per sector, sector after sector.
- **`ThroughputSampler`**: the Session Telemetry Sampler. Its state:
  - a discrete-event clock `now`;
  - the pending `CalculateThroughput` event `next`;
  - the sink's packet count `sinkRx` and the global `totalRx`;
  - the rows written;
  - whether `Simulator::Run` is still running.

  Its actions:
  - `Receive`: the sink gets a packet at any time before `Stop`. The source sends until `simulationTime` (593), but it fills a 4000-packet MAC queue (408) at twice the stream rate (582), so what it queued keeps arriving after it stops;
  - `CalculateThroughput`: the whole of 96-115, with `CalculateSingleStreamThroughput` as `IntervalPackets`;
  - `Stop`: `Simulator::Stop` at `simulationTime + 0.101` s (686).

  The Stop event was scheduled before `Run`, so at equal times it runs before a sample.
- **`MCSuMimoSequencer`, `MCSuMimoTraceFiles`, `MCSuMimoMimoExport`**: the model-checking instances.
- **`SuMimoSequencerProofs`, `SuMimoSequencerRefinement`, `SuMimoMimoExportProofs`, `SuMimoTraceFilesProofs`, `ThroughputSamplerProofs`**: the TLAPS proofs. `SuMimoTraceFiles` defines its own `RowSet` and `PrefixOf` rather than taking `Range` and `IsPrefix` from SequencesExt. SequencesExt reaches the recursive operators of Folds, and a module with theorems may not reach a RECURSIVE declaration.

## Runs

| Run | cfg | Expect | What it shows |
|---|---|---|---|
| sequencer_reliable | SuMimoSequencerReliable | pass | `PhaseRefinement`: the phase never regresses and never skips. `TrainingCompletes`: once both nodes swept in a DTI, the training completes. |
| sequencer_faulty_mac | SuMimoSequencerFaultyMac | pass | With sweeps lost and trainings aborted, `IInv` holds (`beamformedLinks` counts the distinct nodes with a DTI sweep) and `TrainingGatedOnMutualSls` holds (the training is begun only after both swept and the dwell passed). `NoTrainingAfterCompletion` (an action property): once either node's completion callback has set `suMimoCompleted`, the STA's MAC never begins another training, not even after an abort. |
| sequencer_duplicate_begin | SuMimoSequencerDuplicateBegin | violation | `SingleBeginRequest` fails: a training still running at the next DTI gets a second `StartSuMimoBeamforming`. |
| sequencer_csv | SuMimoSequencerCsv | violation | `TrainingCompletes` fails with `--csv`: the counter is only incremented when csv is off. |
| sequencer_mac_abort | SuMimoSequencerMacAbort | violation | `PhaseRefinement` fails: after an abort in the MIMO phase, the next DTI restarts SISO discovery. |
| trace_files | SuMimoTraceFiles | pass | `FilesDescribeCurrentTraining`: a retraining's SISO results and candidate files never mix with an abandoned training's. |
| trace_append_only | SuMimoTraceFilesAppend | violation | `AppendOnly` fails: a second SISO measurement report truncates the file. |
| sequencer_ap_completion | SuMimoSequencerApCompletion | violation | `CompletedByInitiator` fails. The AP completes the MIMO phase and sets the shared `suMimoCompleted`; then the STA's MAC gives its training up, and the STA is never retriggered. |
| sequencer_awv_append | SuMimoSequencerAwvAppend | violation | `AwvsAppendedOnce` fails: after an abort, the DTI trigger retrains, and the second SISO completion appends the AWVs again. |
| mimo_export | SuMimoMimoExport | pass | `RowsReadOwnMeasurements`: every row's SNRs are the measurements of its own tx and rx ids. `NoOutOfRange`: `at()` never throws. `RankedDrainRefinement`: the loop implements `RankedDrain`, so each queued entry is written once, highest key first, and the loop ends normally only on an empty queue. The run enumerates every queue of up to three entries over 2 tx ids, 3 rx ids per antenna, 2 antennas and 2 SNR levels. |
| throughput_sampler | ThroughputSampler | pass | `SamplesPartitionReceived`: the rows tile the run in 100 ms intervals and their counts add up to the sink total at the last sample. `EveryPacketReported`: every packet received up to `simulationTime` is eventually reported, by the sample after the source stops. Packets received after that sample and before `Stop` are never reported; TLC finds this tail when the property is stated for every packet (one received at 400 ms, Stop at 401 ms), and no run is spent on it. |
| siso_sector_label | SisoSectorLabel | violation | `SectorLabelsFollowBlocks` fails: with two AWVs per sector, the two rows of the first sector get `TX_SECTOR_ID` 0 and 1. |

Each property of a passing run has a mutant in PROJECT.json, a plausible bug in the mapped code that TLC catches:
- the `!` of `!suMimoCompleted` lost (the test inverted);
- the `!suMimoCompleted` test dropped from the trigger;
- `beamformedLinks >= 1` in place of `== 2`;
- the access-period test dropped;
- the completion flag not set;
- a file opened for appending;
- the measurement index striding by `nRxAntennas` instead of `rxCombinationsTested`;
- the index without its final `- 1`;
- the loop ending with entries still queued (`DrainDoneEarly`);
- `totalRx` not subtracted (cumulative throughput);
- `Simulator::Stop` at `simulationTime`.

**Bounds.**
- `DwellDtis = 6`: a DTI starts every 102.4 ms beacon interval, so six DTIs start before 0.6 s. The trigger can therefore only fire from the seventh, and the dwell really is observed.
- Two nodes, which is all the scenario has.
- `begins` saturates at 2, which is enough to see a duplicate.
- The trace model allows two trainings per node (a retraining after an abort happens) and seven trace-writing callbacks. That is enough for one node to run a training, abort it, and run most of a second training interleaved with the other node's events.
- Zero or one data row per callback: one row stands for all the rows of a call, which belong to the same training.
- Export: `nRxAntennas = 2` but `rxCombinationsTested = 3`. Because the two differ, an index striding by the antenna count reads the wrong SNRs. Two SNR levels make both ties and strict ranks happen.
- Sampler: a 0.3 s run with up to three packets. The samples at 0.1 to 0.4 s include the one after the source stops, and packets can fall in every interval, stragglers after the last sample included. Times are exact multiples of 1 ms, like the program's `Seconds (0.1)` and `MilliSeconds (100)`.
- Sector label: one and two AWVs per sector, over one to three sectors.

The trace runs set `CHECK_DEADLOCK FALSE` because the simulation really stops: `Simulator::Stop` ends the run, which the bounds stand for.

**Fairness** (sequencer_reliable only):
- `WF` on `DataTransmissionIntervalStarted`: beacon intervals never stop.
- `WF` on `StartSuMimoBeamforming`: a scheduled event runs.
- `SF` on the three training steps of the MAC: each is disabled only during the 3 µs windows of a pending `StartSuMimoBeamforming` and enabled again after it, so only strong fairness says a reliable MAC finishes its exchange.

The lost-sweep and abort actions carry no fairness.

**Fairness** (throughput_sampler): `WF` on `CalculateThroughput` and on `Stop`. The scheduler runs every pending event at its time. The sink's receptions carry no fairness: the source may send nothing.

## Proofs (`SuMimoSequencerProofs`, all checked by tlapm)

The proofs assume `AP # STA`, that the flags are Booleans, and `DwellDtis \in Nat`. They hold for every dwell length and flag value, with failures on or off.

- `TypeCorrect`: `Spec => []TypeOK`. It rests on `TypeInit` and `TypeStep` (one case per action). `beamformedLinks` stays in `0..255` because of the `% 256` of the uint8_t increment.
- `CounterInvariant`: `Spec => []IInv`. The gate `TrainingGatedOnMutualSls` is not inductive by itself: a DTI step fires on `beamformedLinks = 2`, and only the relation of the counter to the sweeps makes that mean "both nodes swept". `IInv` strengthens it:
  - `beamformedLinks = SweepCount(DtiSls)` (0 under csv);
  - `txss \cap DtiSls = {}`, so a node cannot sweep twice in a DTI;
  - `firstDti => txss = {} /\ DtiSls = {}`, so the single TXSS has not yet happened.

  The step proof has one case per action. For `SLSCompleted` it is split into a DTI case and a BHI case. It uses the lemmas `SweepCountStep`, `SweepCountTwo` and `DtiSlsAfterSls`.
- `TrainingGated`: `Spec => []TrainingGatedOnMutualSls`, from `CounterInvariant`.
- `FinalCompletion`: `Spec => NoTrainingAfterCompletion`, an action property. It rests on the invariant `CompletedNotScheduled` (`suMimoCompleted => ~startScheduled`), which is inductive by itself: the trigger tests `!suMimoCompleted`, and no completion event runs while a call is pending. `OnlyStartBegins` says that only `StartSuMimoBeamforming` moves the MAC from `Idle` to `Siso`, and that needs a pending call.

## Refinement proof (`SuMimoSequencerRefinement`, all checked by tlapm)

`PhaseRefinementProof`: `~MacFailures => (Spec => PhaseRefinement)`. With a MAC that neither loses a TXSS nor gives up a training, the sequencer implements `SuMimoPhases` under `PhaseOf`. This holds for every dwell length and every csv and useAwvs setting. The hypothesis is the one the runs need: with failures, the run sequencer_mac_abort shows the session regressing. `SuMimoPhases` has no fairness, so the whole refinement is a safety property, and the proof follows the usual pattern:
- the initial state maps to `Idle`;
- every step maps to an `Advance` of the abstract phase or to a stutter (`PhaseStep`);
- the QED combines the two with PTL.

The step needs more than `IInv`. `RExtra` adds four facts, and `RExtraStep` proves it preserved given `IInv`. PTL then combines it with the already proved `CounterInvariant`. The four facts:
- no training was given up (`stalled = "Idle"`);
- a pending call means a request was issued (`startScheduled => begins > 0`);
- so do a training in progress and a completion (`begins > 0`);
- an issued request comes after the TXSS (`~firstDti`).

The DTI step is split by phase:
- `Idle -> SectorSweep` when the TXSS is performed;
- `SectorSweep -> SisoDiscovery` when the first request is scheduled. `TwoLinksAfterTxss` shows that a trigger cannot fire in the TXSS's own DTI;
- a stutter otherwise.

`StartSuMimoBeamforming` is a stutter within `SisoDiscovery`. The lemma `Successors` computes `Rank` (a CHOOSE over the phase order) for each phase. TLC checked `IInv /\ RExtra` as an invariant before the proof was written.

## Proofs (`SuMimoMimoExportProofs`, all checked by tlapm)

They hold for every number of antennas and of tested combinations. They assume `IdsTested`: the MAC queues only tx ids in `1..TxTested` and rx ids in `1..RxTested`, as it numbers the combinations it measured.

- `IndexInRange` and `IndexReadsOwn` are arithmetic lemmas. For tested ids, `(tx - 1) * R + rx - 1` lies in `0..T*R-1`, and its quotient and remainder by `R` give back `tx - 1` and `rx - 1`.
- `OwnMeasurements`: `Spec => []RowsReadOwnMeasurements`.
- `NeverThrows`: `Spec => []NoOutOfRange`.
- `RankedDrainProof`: `Spec => RankedDrainRefinement`, with no assumption on the ids. Initial states map to `RankedDrain!Init`. Under `TypeOK` (`TypeInit`, `TypeStep`), the step lemma `RankedStep` maps a written row to a `Pop` of its entry: `EntryIsRecord` shows that the entry is the record of the row's first three fields. `DrainDone` maps to `Finish`, and a throw to a stutter, because it leaves `queue` and the rows alone and `status` is not `"Done"` on either side.

`OwnMeasurements` and `NeverThrows` rest on the inductive invariant `TypeOK /\ RowsReadOwnMeasurements /\ NoOutOfRange`. The type part is needed because the step reasons about the appended row and the queue's entries. `NoOutOfRange` is needed because a `Threw` state would stop the loop with rows unchecked. The append is handled by the lemma `AppendRow`, which is stated for the row type because the provers cannot instantiate a set parameter.

## Proofs (`SuMimoTraceFilesProofs`, all checked by tlapm)

`CurrentTrainingFiles`: `Spec => []FilesDescribeCurrentTraining`, for every set of nodes and every bound on trainings and callbacks.

It rests on the inductive invariant `TInv`, which is `TypeOK /\ FilesDescribeCurrentTraining`. The type part is needed because the step reasons about the rows of the rewritten files. TLC checked `TInv` on the trace_files instance first. The central fact is about a file rewritten by `CreateFileStream`. Its contents `Fresh(t, n)` are a header and `n` data rows, all of training `t` (`ConsRow`, `FreshRows`). Replacing one per-node file with such contents keeps every file typed (`RewriteTyped`). The candidates callback applies this twice, once per file, and the step lemma `TInvStep` has one case per callback.

## Proofs (`ThroughputSamplerProofs`, all checked by tlapm)

`SamplesPartition`: `Spec => []SamplesPartitionReceived`, for every run length and every packet bound.

`ReportedBy` is a recursive function. Its value is the `CHOOSE` of a function satisfying its defining equation (`SumEq`), so nothing can be said about it without knowing that the equation has exactly one solution. For an arbitrary sequence, that takes an induction over the sequence, which the provers cannot do. The proof avoids this by carrying the fact along the behaviour instead.

The inductive invariant `SInv` contains `SumUnique(rows, totalRx)`: a solution `g` exists, every solution equals `g`, and `g`'s last value is `totalRx`. The other conjuncts of `SInv` are:
- `TypeOK`;
- `next = (Len(rows) + 1) * 100`;
- the tiling;
- `totalRx <= sinkRx`.

`SumAppend` is the central lemma. It extends `g` by one value for the appended row, and any solution for the longer sequence, cut back to the old length, solves the old equation. That gives existence and uniqueness one row at a time, following `CalculateThroughput`. `ReportedByIs` then reads `ReportedBy(rows) = totalRx` off the unique solution.

TLC checked `SInv` first, with uniqueness over functions into `-3..3`.

## What stays model-checked, and why

- The liveness properties `TrainingCompletes` and `EveryPacketReported`. They need fairness and ENABLED, which the prover does not handle.
- What `ReportedBy` computes for an arbitrary sequence. That is an induction over data. The proofs only use its value on the rows a behaviour builds, one `Append` at a time (see above).
- `PhaseRefinement` with MAC failures on. It is false there, and the run sequencer_mac_abort shows it.

## Not modelled, and the plan

- **Combination Ranker.** `FindKBestCombinations` and the construction of the ranking queue are in DmgWifiMac, outside this repository. Only the order in which the script consumes the queue is modelled, and proved to implement `RankedDrain`. The plan: a spec-modelled `KBestRanker` (the max-min ranking with the tie-break of spec §4.2) checked against a reference definition over small feedback maps.
- **Row values of the other files.** The SLS and SISO result rows and the candidate files copy fields from the MAC's maps. Neither their values nor their column counts are modelled. The `slsResults` header (620-621) has 13 columns and its rows (121-126) have 8; this is listed as a hazard.
- **Composition of the trace files with the sequencer.** The plan is for `SuMimoTraceFiles`'s trainings to be those the sequencer begins.
- **Statistics counters** (`MacRxOk`, `MacTxDataFailed`, `PhyTxEnd`, `PhyRxDrop`, `PhyRxEnd`, 151-192). Each increments an independent counter or appends an SNR line. Nothing reads them before the final printout, so there is no control to check.
- **Bootstrap** (`main`): configuration and I/O. Only its trace connections, the files it creates and its two schedule/stop calls enter the models.
- **Summary throughput** (710): a printed floating-point expression. Its divisor `simulationTime - 1` is listed as a hazard.
