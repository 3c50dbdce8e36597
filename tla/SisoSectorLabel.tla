-------------------------- MODULE SisoSectorLabel --------------------------
(***************************************************************************)
(* The rows of SuMimoSisoPhaseMeasurements. The MAC reports, for each     *)
(* (rx antenna, tx antenna) pair, the list of SNR samples of the SISO      *)
(* phase: edmgTrnN samples (AWVs) per tx sector, sector after sector. The *)
(* callback truncates its file and writes one row per sample, numbering   *)
(* the samples of a list from 1 (awv = distance (start, snrIt) + 1) and    *)
(* labelling the row's TX_SECTOR_ID with awv / edmgTrnN.                   *)
(***************************************************************************)
EXTENDS Naturals

CONSTANTS
  AntennaPairs,   \* the (rx, tx) antenna pairs keying measurementsMap
  TrnNs,          \* edmgTrnN values the MAC may pass: AWVs per sector
  SectorCounts    \* tx sectors swept per antenna pair

VARIABLES
  rows,   \* the rows of the file: pair, awv number and TX_SECTOR_ID
  trnN    \* edmgTrnN of the last report

vars == <<rows, trnN>>

Init ==
  /\ rows = {}
  /\ trnN = 0

\* uint16_t (awv / edmgTrnN): the TX_SECTOR_ID written for sample awv.
SectorLabel(awv, n) == awv \div n

\* The MAC reports lists of s sectors of n samples each: the callback
\* recreates the file and writes a row for every sample of every list.
SuMimoSisoPhaseMeasurements(n, s) ==
  /\ rows' = {[pair |-> p, awv |-> k, sector |-> SectorLabel(k, n)] :
                p \in AntennaPairs, k \in 1 .. (s * n)}
  /\ trnN' = n

Next == \E n \in TrnNs, s \in SectorCounts : SuMimoSisoPhaseMeasurements(n, s)

Spec == Init /\ [][Next]_vars

-----------------------------------------------------------------------------
(* Properties.                                                             *)

\* The sector a sample was measured in: its block of edmgTrnN samples.
SectorBlock(awv, n) == (awv - 1) \div n

\* Two rows of the same antenna pair carry the same TX_SECTOR_ID exactly
\* when their samples were measured in the same sector (spec 3: the samples
\* are one per AWV tested within that sector), so the file can be grouped
\* by sector.
SectorLabelsFollowBlocks ==
  \A r1, r2 \in rows :
    r1.pair = r2.pair =>
      (SectorBlock(r1.awv, trnN) = SectorBlock(r2.awv, trnN)
         <=> r1.sector = r2.sector)

=============================================================================
