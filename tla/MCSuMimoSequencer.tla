------------------------- MODULE MCSuMimoSequencer --------------------------
(***************************************************************************)
(* Model-checking instance of SuMimoSequencer. The nodes are model        *)
(* values. A DTI starts every 102.4 ms beacon interval, a few ms after    *)
(* its start, so the DTIs of intervals 0..5 start before 0.6 s and the    *)
(* seventh is the first after it: six DTIs of dwell.                      *)
(***************************************************************************)
EXTENDS SuMimoSequencer

\* Beacon intervals that end before the 0.6 s dwell of the scenario.
MCDwellDtis == 6

=============================================================================
