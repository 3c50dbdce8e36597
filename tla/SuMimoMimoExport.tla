-------------------------- MODULE SuMimoMimoExport --------------------------
(***************************************************************************)
(* The drain loop of SuMimoMimoPhaseMeasurements: the MAC hands over the  *)
(* list mimoMeasurements of every tested (tx, rx) combination and the      *)
(* ranking queue minSnr; the callback pops the queue, one row per entry,   *)
(* and for each rx id of the entry reads the measurement at               *)
(* (txId - 1) * rxCombinationsTested + rxId - 1 with at(), which throws   *)
(* std::out_of_range when the index is outside the list (the exception is *)
(* not caught: the run ends with the file cut after the previous row).    *)
(*                                                                         *)
(* The MAC lays mimoMeasurements out tx-major: position k holds the        *)
(* measurement of tx combination k \div R + 1 with rx combination         *)
(* k % R + 1, R = rxCombinationsTested. The queue is a max-heap keyed by  *)
(* the minimum stream SNR; the order of equal keys is left open.          *)
(***************************************************************************)
EXTENDS Naturals, Sequences

CONSTANTS
  NRx,          \* nRxAntennas: rx ids per queue entry
  TxTested,     \* tx combinations tested in the MIMO phase
  RxTested,     \* rxCombinationsTested
  TxIds,        \* tx AWV ids the MAC may put in the queue
  RxIds,        \* rx AWV ids the MAC may put in the queue
  Snrs          \* minimum stream SNR values (an ordered set of levels)

ASSUME ExportConstantsAssumption ==
  /\ NRx \in Nat \ {0}
  /\ TxTested \in Nat \ {0}
  /\ RxTested \in Nat \ {0}
  /\ TxIds \subseteq Nat /\ RxIds \subseteq Nat /\ Snrs \subseteq Nat

\* Length of mimoMeasurements.
MeasurementCount == TxTested * RxTested

\* The (tx, rx) combination whose measurement is at position k.
MeasuredAt(k) == <<(k \div RxTested) + 1, (k % RxTested) + 1>>

\* An entry of minSnr: its minimum stream SNR and its AWV ids.
Entries == [snr : Snrs, tx : TxIds, rx : [1 .. NRx -> RxIds]]

VARIABLES
  queue,    \* entries still in minSnr
  rows,     \* rows written: the entry and the measurements read for it
  status    \* "Draining", "Done", or "Threw" (an at() out of range)

vars == <<queue, rows, status>>

TypeOK ==
  /\ queue \subseteq Entries
  /\ rows \in Seq([snr : Snrs, tx : TxIds, rx : [1 .. NRx -> RxIds],
                   read : [1 .. NRx -> Nat \X Nat]])
  /\ status \in {"Draining", "Done", "Threw"}

\* The queue the MAC passes: up to three entries.
Init ==
  /\ queue \in {{a, b, c} : a, b, c \in Entries}
  /\ rows = <<>>
  /\ status = "Draining"

\* Mutant: the measurement index strides by nRxAntennas.
MeasurementIndexByAntennas(txId, rxId) == (txId - 1) * NRx + rxId - 1

\* Mutant: the final "- 1" is dropped.
MeasurementIndexFromOne(txId, rxId) == (txId - 1) * RxTested + rxId

\* The index of the measurement of txId with rx id rxId (line 331).
MeasurementIndex(txId, rxId) == (txId - 1) * RxTested + rxId - 1

\* The entries minSnr.top() may return: those of the largest key.
Top(q) == {e \in q : \A d \in q : d.snr <= e.snr}

\* One iteration of the while loop: read the measurements of the top
\* entry, write its row and pop it; an index outside the list throws.
DrainStep ==
  /\ status = "Draining"
  /\ queue # {}
  /\ \E top \in Top(queue) :
       LET idx == [j \in 1 .. NRx |-> MeasurementIndex(top.tx, top.rx[j])]
       IN  IF \A j \in 1 .. NRx : idx[j] \in 0 .. (MeasurementCount - 1)
             THEN /\ rows' = Append(rows, [snr |-> top.snr, tx |-> top.tx,
                                           rx |-> top.rx,
                                           read |-> [j \in 1 .. NRx |->
                                                      MeasuredAt(idx[j])]])
                  /\ queue' = queue \ {top}
                  /\ UNCHANGED status
             ELSE /\ status' = "Threw"
                  /\ UNCHANGED <<queue, rows>>

\* Mutant: the loop may end with entries still in the queue.
DrainDoneEarly ==
  /\ status = "Draining"
  /\ status' = "Done"
  /\ UNCHANGED <<queue, rows>>

\* minSnr.empty(): the loop ends.
DrainDone ==
  /\ status = "Draining"
  /\ queue = {}
  /\ status' = "Done"
  /\ UNCHANGED <<queue, rows>>

Next == DrainStep \/ DrainDone

Spec == Init /\ [][Next]_vars

-----------------------------------------------------------------------------
(* Properties.                                                             *)

\* Every SNR in a row is the measurement of that row's own tx and rx ids:
\* the index formula matches the layout of mimoMeasurements, so no row
\* reports another combination's SNRs.
RowsReadOwnMeasurements ==
  \A i \in 1 .. Len(rows) :
    \A j \in 1 .. NRx : rows[i].read[j] = <<rows[i].tx, rows[i].rx[j]>>

\* The loop never throws: every id the MAC queues indexes the list.
NoOutOfRange == status # "Threw"

\* The queue entries the rows were written for, without the measurements.
Written == [i \in 1 .. Len(rows) |->
              [snr |-> rows[i].snr, tx |-> rows[i].tx, rx |-> rows[i].rx]]

\* The drain as the abstract RankedDrain sees it: what is still in minSnr,
\* the entries written, and whether the loop has ended normally.
Ranked == INSTANCE RankedDrain WITH pending <- queue, out <- Written,
                                    done <- (status = "Done")

\* The while loop of SuMimoMimoPhaseMeasurements implements RankedDrain:
\* each row is written for the entry minSnr.top() returns and that entry
\* is popped, so every queued entry is written once, in rank order, and
\* the loop ends only on an empty queue (a throw stops it where it is).
RankedDrainRefinement == Ranked!Spec

=============================================================================
