----------------------- MODULE SuMimoMimoExportProofs -----------------------
(***************************************************************************)
(* Proofs about the drain loop of SuMimoMimoPhaseMeasurements, for every  *)
(* number of antennas and of tested combinations: when the MAC queues only *)
(* ids of tested combinations, the index (txId - 1) * rxCombinationsTested *)
(* + rxId - 1 is inside mimoMeasurements and is the position of that very *)
(* combination, so no row reads another combination's SNRs and at() never *)
(* throws.                                                                 *)
(***************************************************************************)
EXTENDS SuMimoMimoExport, TLAPS

USE ExportConstantsAssumption

\* The MAC queues ids of the tested combinations only, numbered from 1.
IdsTested == TxIds \subseteq 1 .. TxTested /\ RxIds \subseteq 1 .. RxTested

-----------------------------------------------------------------------------
(* The index formula.                                                      *)

\* The index of a tested (tx, rx) pair lies in the list.
LEMMA IndexInRange ==
  ASSUME NEW tx \in 1 .. TxTested, NEW rx \in 1 .. RxTested
  PROVE  MeasurementIndex(tx, rx) \in 0 .. (MeasurementCount - 1)
<1>1. (tx - 1) * RxTested \in 0 .. (TxTested - 1) * RxTested
  BY SMT
<1>2. (TxTested - 1) * RxTested + RxTested = MeasurementCount
  BY SMT DEF MeasurementCount
<1> QED BY <1>1, <1>2, SMT DEF MeasurementIndex

\* The tx-major layout puts the pair's own measurement at its index.
LEMMA IndexReadsOwn ==
  ASSUME NEW tx \in 1 .. TxTested, NEW rx \in 1 .. RxTested
  PROVE  MeasuredAt(MeasurementIndex(tx, rx)) = <<tx, rx>>
<1> DEFINE k == MeasurementIndex(tx, rx)
<1>1. k = (tx - 1) * RxTested + (rx - 1)
  BY DEF MeasurementIndex
<1>2. k \div RxTested = tx - 1 /\ k % RxTested = rx - 1
  BY <1>1, SMT
<1> QED BY <1>2 DEF MeasuredAt

\* The rows of the file, as TypeOK types them.
RowType == [snr : Snrs, tx : TxIds, rx : [1 .. NRx -> RxIds],
            read : [1 .. NRx -> Nat \X Nat]]

\* A row appended to the file is its last row; earlier rows stay.
LEMMA AppendRow ==
  ASSUME NEW s \in Seq(RowType), NEW e \in RowType
  PROVE  /\ Append(s, e) \in Seq(RowType)
         /\ Len(Append(s, e)) = Len(s) + 1
         /\ Append(s, e)[Len(s) + 1] = e
         /\ \A i \in 1 .. Len(s) : Append(s, e)[i] = s[i]
  OBVIOUS

-----------------------------------------------------------------------------
(* The drain loop.                                                         *)

\* The inductive invariant: the types, every row read its own
\* measurements, and the loop has not thrown.
IInv == TypeOK /\ RowsReadOwnMeasurements /\ NoOutOfRange

\* The row DrainStep writes for a top entry with tested ids.
LEMMA DrainRow ==
  ASSUME IdsTested, NEW top \in Entries
  PROVE  LET idx == [j \in 1 .. NRx |-> MeasurementIndex(top.tx, top.rx[j])]
         IN  /\ \A j \in 1 .. NRx : idx[j] \in 0 .. (MeasurementCount - 1)
             /\ \A j \in 1 .. NRx : MeasuredAt(idx[j]) = <<top.tx, top.rx[j]>>
<1>1. top.tx \in 1 .. TxTested /\ \A j \in 1 .. NRx : top.rx[j] \in 1 .. RxTested
  BY DEF IdsTested, Entries
<1> QED BY <1>1, IndexInRange, IndexReadsOwn

LEMMA IInvInit == Init => IInv
  BY DEF Init, IInv, TypeOK, RowsReadOwnMeasurements, NoOutOfRange

LEMMA IInvStep == IdsTested /\ IInv /\ [Next]_vars => IInv'
<1> SUFFICES ASSUME IdsTested, IInv, [Next]_vars PROVE IInv'
  OBVIOUS
<1>1. CASE DrainStep
  <2>1. PICK top \in Top(queue) :
          LET idx == [j \in 1 .. NRx |-> MeasurementIndex(top.tx, top.rx[j])]
          IN  IF \A j \in 1 .. NRx : idx[j] \in 0 .. (MeasurementCount - 1)
                THEN /\ rows' = Append(rows, [snr |-> top.snr, tx |-> top.tx,
                                              rx |-> top.rx,
                                              read |-> [j \in 1 .. NRx |->
                                                         MeasuredAt(idx[j])]])
                     /\ queue' = queue \ {top}
                     /\ UNCHANGED status
                ELSE /\ status' = "Threw"
                     /\ UNCHANGED <<queue, rows>>
    BY <1>1 DEF DrainStep
  <2>2. top \in Entries
    BY DEF Top, IInv, TypeOK
  <2> DEFINE idx == [j \in 1 .. NRx |-> MeasurementIndex(top.tx, top.rx[j])]
             row == [snr |-> top.snr, tx |-> top.tx, rx |-> top.rx,
                     read |-> [j \in 1 .. NRx |-> MeasuredAt(idx[j])]]
  <2>3. /\ \A j \in 1 .. NRx : idx[j] \in 0 .. (MeasurementCount - 1)
        /\ \A j \in 1 .. NRx : MeasuredAt(idx[j]) = <<top.tx, top.rx[j]>>
    BY <2>2, DrainRow
  <2>4. rows' = Append(rows, row) /\ queue' = queue \ {top} /\ status' = status
    BY <2>1, <2>3
  <2>5. row.read = [j \in 1 .. NRx |-> <<top.tx, top.rx[j]>>]
    BY <2>3
  <2>6. row \in [snr : Snrs, tx : TxIds, rx : [1 .. NRx -> RxIds],
                 read : [1 .. NRx -> Nat \X Nat]]
    <3>1. top.snr \in Snrs /\ top.tx \in TxIds /\ top.rx \in [1 .. NRx -> RxIds]
      BY <2>2 DEF Entries
    <3>2. \A j \in 1 .. NRx : <<top.tx, top.rx[j]>> \in Nat \X Nat
      BY <3>1, ExportConstantsAssumption
    <3> QED BY <3>1, <3>2, <2>5
  <2>7. TypeOK'
    BY <2>4, <2>6 DEF IInv, TypeOK
  <2>8. RowsReadOwnMeasurements'
    <3>1. rows \in Seq([snr : Snrs, tx : TxIds, rx : [1 .. NRx -> RxIds],
                        read : [1 .. NRx -> Nat \X Nat]])
      BY DEF IInv, TypeOK
    <3>2. SUFFICES ASSUME NEW i \in 1 .. Len(rows'), NEW j \in 1 .. NRx
                   PROVE  rows'[i].read[j] = <<rows'[i].tx, rows'[i].rx[j]>>
      BY DEF RowsReadOwnMeasurements
    <3>3. CASE i \in 1 .. Len(rows)
      <4>1. rows'[i] = rows[i]
        BY <3>1, <3>3, <2>4, <2>6, AppendRow DEF RowType
      <4> QED BY <4>1, <3>3 DEF IInv, RowsReadOwnMeasurements
    <3>4. CASE i = Len(rows) + 1
      <4>1. Append(rows, row)[Len(rows) + 1] = row
        BY <3>1, <2>6, AppendRow DEF RowType
      <4>2. rows'[i] = row
        BY <4>1, <3>4, <2>4
      <4> QED BY <4>2, <2>5
    <3>5. Len(rows') = Len(rows) + 1
      BY <3>1, <2>4, <2>6, AppendRow DEF RowType
    <3> QED BY <3>2, <3>3, <3>4, <3>5
  <2>9. NoOutOfRange'
    BY <2>4 DEF IInv, NoOutOfRange
  <2> QED BY <2>7, <2>8, <2>9 DEF IInv
<1>2. CASE DrainDone
  BY <1>2 DEF DrainDone, IInv, TypeOK, RowsReadOwnMeasurements, NoOutOfRange
<1>3. CASE UNCHANGED vars
  BY <1>3 DEF vars, IInv, TypeOK, RowsReadOwnMeasurements, NoOutOfRange
<1> QED BY <1>1, <1>2, <1>3 DEF Next

\* For every number of antennas and of tested combinations, the rows of
\* SuMimoMimoPhaseMeasurements report each combination's own SNRs, when
\* the MAC queues only ids of tested combinations.
THEOREM OwnMeasurements ==
  ASSUME IdsTested
  PROVE  Spec => []RowsReadOwnMeasurements
<1>1. Init => IInv
  BY IInvInit
<1>2. IInv /\ [Next]_vars => IInv'
  BY IInvStep
<1>3. IInv => RowsReadOwnMeasurements
  BY DEF IInv
<1> QED BY <1>1, <1>2, <1>3, PTL DEF Spec

\* For every size, the at() of the drain loop never throws out_of_range
\* when the MAC queues only ids of tested combinations.
THEOREM NeverThrows ==
  ASSUME IdsTested
  PROVE  Spec => []NoOutOfRange
<1>1. Init => IInv
  BY IInvInit
<1>2. IInv /\ [Next]_vars => IInv'
  BY IInvStep
<1>3. IInv => NoOutOfRange
  BY DEF IInv
<1> QED BY <1>1, <1>2, <1>3, PTL DEF Spec

-----------------------------------------------------------------------------
(* The types, whatever ids the MAC queues.                                 *)

\* A popped top entry writes a typed row whatever its ids: the guard keeps
\* every index inside the list, and a throw leaves the rows alone.
LEMMA TypeStep == TypeOK /\ [Next]_vars => TypeOK'
<1> SUFFICES ASSUME TypeOK, [Next]_vars PROVE TypeOK'
  OBVIOUS
<1>0. rows \in Seq(RowType)
  BY DEF TypeOK, RowType
<1>1. CASE DrainStep
  <2>1. PICK top \in Top(queue) :
          LET idx == [j \in 1 .. NRx |-> MeasurementIndex(top.tx, top.rx[j])]
          IN  IF \A j \in 1 .. NRx : idx[j] \in 0 .. (MeasurementCount - 1)
                THEN /\ rows' = Append(rows, [snr |-> top.snr, tx |-> top.tx,
                                              rx |-> top.rx,
                                              read |-> [j \in 1 .. NRx |->
                                                         MeasuredAt(idx[j])]])
                     /\ queue' = queue \ {top}
                     /\ UNCHANGED status
                ELSE /\ status' = "Threw"
                     /\ UNCHANGED <<queue, rows>>
    BY <1>1 DEF DrainStep
  <2>2. top \in Entries /\ top \in queue
    BY DEF Top, TypeOK
  <2> DEFINE idx == [j \in 1 .. NRx |-> MeasurementIndex(top.tx, top.rx[j])]
             row == [snr |-> top.snr, tx |-> top.tx, rx |-> top.rx,
                     read |-> [j \in 1 .. NRx |-> MeasuredAt(idx[j])]]
             inRange == \A j \in 1 .. NRx : idx[j] \in 0 .. (MeasurementCount - 1)
  <2>3. CASE ~inRange
    BY <2>1, <2>3 DEF TypeOK
  <2>4. CASE inRange
    <3>1. rows' = Append(rows, row) /\ queue' = queue \ {top}
          /\ status' = status
      BY <2>1, <2>4
    <3>2. row \in RowType
      <4>1. \A j \in 1 .. NRx : MeasuredAt(idx[j]) \in Nat \X Nat
        BY <2>4, ExportConstantsAssumption DEF MeasuredAt
      <4> QED BY <4>1, <2>2 DEF Entries, RowType
    <3>3. rows' \in Seq(RowType)
      BY <1>0, <3>1, <3>2, AppendRow
    <3> QED BY <3>1, <3>3 DEF TypeOK, RowType
  <2> QED BY <2>3, <2>4
<1>2. CASE DrainDone
  BY <1>2 DEF DrainDone, TypeOK
<1>3. CASE UNCHANGED vars
  BY <1>3 DEF vars, TypeOK
<1> QED BY <1>1, <1>2, <1>3 DEF Next

LEMMA TypeInit == Init => TypeOK
  BY DEF Init, TypeOK

-----------------------------------------------------------------------------
(* The refinement of RankedDrain.                                          *)

\* A queue entry is the record of its three fields.
LEMMA EntryIsRecord ==
  ASSUME NEW e \in Entries
  PROVE  e = [snr |-> e.snr, tx |-> e.tx, rx |-> e.rx]
  BY DEF Entries

\* Under TypeOK, each step of the drain loop is a step of RankedDrain or
\* leaves the queue, the written entries and the end of the loop alone: a
\* written row is a Pop of its entry, DrainDone a Finish, a throw a stutter.
LEMMA RankedStep ==
  TypeOK /\ [Next]_vars
    => [Ranked!Pop \/ Ranked!Finish]_<<queue, Written, status = "Done">>
<1> SUFFICES ASSUME TypeOK, [Next]_vars
             PROVE  [Ranked!Pop \/ Ranked!Finish]_<<queue, Written,
                                                     status = "Done">>
  OBVIOUS
<1>0. rows \in Seq(RowType) /\ queue \subseteq Entries
  BY DEF TypeOK, RowType
<1>1. CASE DrainStep
  <2>1. PICK top \in Top(queue) :
          LET idx == [j \in 1 .. NRx |-> MeasurementIndex(top.tx, top.rx[j])]
          IN  IF \A j \in 1 .. NRx : idx[j] \in 0 .. (MeasurementCount - 1)
                THEN /\ rows' = Append(rows, [snr |-> top.snr, tx |-> top.tx,
                                              rx |-> top.rx,
                                              read |-> [j \in 1 .. NRx |->
                                                         MeasuredAt(idx[j])]])
                     /\ queue' = queue \ {top}
                     /\ UNCHANGED status
                ELSE /\ status' = "Threw"
                     /\ UNCHANGED <<queue, rows>>
    BY <1>1 DEF DrainStep
  <2>2. top \in Entries /\ top \in queue /\ \A d \in queue : d.snr <= top.snr
    BY <1>0 DEF Top
  <2> DEFINE idx == [j \in 1 .. NRx |-> MeasurementIndex(top.tx, top.rx[j])]
             row == [snr |-> top.snr, tx |-> top.tx, rx |-> top.rx,
                     read |-> [j \in 1 .. NRx |-> MeasuredAt(idx[j])]]
             inRange == \A j \in 1 .. NRx : idx[j] \in 0 .. (MeasurementCount - 1)
  <2>3. CASE ~inRange
    BY <1>1, <2>1, <2>3 DEF DrainStep, Written
  <2>4. CASE inRange
    <3>1. rows' = Append(rows, row) /\ queue' = queue \ {top}
          /\ status' = status /\ status = "Draining"
      BY <1>1, <2>1, <2>4 DEF DrainStep
    <3>0. row \in RowType
      <4>1. \A j \in 1 .. NRx : MeasuredAt(idx[j]) \in Nat \X Nat
        BY <2>4, ExportConstantsAssumption DEF MeasuredAt
      <4> QED BY <4>1, <2>2 DEF Entries, RowType
    <3>2. /\ Len(rows') = Len(rows) + 1
          /\ rows'[Len(rows) + 1] = row
          /\ \A i \in 1 .. Len(rows) : rows'[i] = rows[i]
      BY <1>0, <3>0, <3>1, AppendRow
    <3>3. [snr |-> row.snr, tx |-> row.tx, rx |-> row.rx] = top
      BY <2>2, EntryIsRecord
    <3>4. Written' = Append(Written, top)
      BY <1>0, <3>2, <3>3 DEF Written
    <3> QED BY <2>2, <3>1, <3>4 DEF Ranked!Pop
  <2> QED BY <2>3, <2>4
<1>2. CASE DrainDone
  <2>1. Written' = Written
    BY <1>2 DEF DrainDone, Written
  <2> QED BY <1>2, <2>1 DEF DrainDone, Ranked!Finish
<1>3. CASE UNCHANGED vars
  BY <1>3 DEF vars, Written
<1> QED BY <1>1, <1>2, <1>3 DEF Next

\* For every size and whatever ids the MAC queues, the drain loop of
\* SuMimoMimoPhaseMeasurements implements RankedDrain: each row is written
\* for an entry of the highest key still in minSnr, which is then popped,
\* so no entry is written twice or out of rank, and the loop ends normally
\* only when the queue is empty.
THEOREM RankedDrainProof == Spec => RankedDrainRefinement
<1>1. Init => Ranked!Init
  BY DEF Init, Written, Ranked!Init
<1>2. TypeOK /\ [Next]_vars
        => [Ranked!Pop \/ Ranked!Finish]_<<queue, Written, status = "Done">>
  BY RankedStep
<1> QED BY <1>1, <1>2, TypeInit, TypeStep, PTL
        DEF Spec, RankedDrainRefinement, Ranked!Spec

=============================================================================
