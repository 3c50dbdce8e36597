------------------------- MODULE MCSuMimoMimoExport -------------------------
(***************************************************************************)
(* Model-checking instance of SuMimoMimoExport for the 2x2 scenario: two  *)
(* rx antennas, two tx and three rx combinations tested (more rx           *)
(* combinations than rx antennas, as when AWVs are tested), two SNR       *)
(* levels so that equal keys occur.                                       *)
(***************************************************************************)
EXTENDS SuMimoMimoExport

\* AWV ids as the MAC numbers them, from 1.
MCTxIds == 1 .. 2
MCRxIds == 1 .. 3

=============================================================================
