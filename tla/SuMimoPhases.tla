---------------------------- MODULE SuMimoPhases ----------------------------
(***************************************************************************)
(* Abstract specification of the training phase of one link session, as   *)
(* the design states it: the phase only moves forward, one phase at a     *)
(* time, from Idle to Complete, and then stays there.                     *)
(***************************************************************************)
EXTENDS Naturals, Sequences

VARIABLE phase

\* The phases in the order a session goes through them.
PhaseOrder == <<"Idle", "SectorSweep", "SisoDiscovery",
                "MimoCandidateSelection", "MimoEvaluation", "Complete">>

Phase == {PhaseOrder[i] : i \in 1..Len(PhaseOrder)}

\* Position of a phase in PhaseOrder.
Rank(p) == CHOOSE i \in 1..Len(PhaseOrder) : PhaseOrder[i] = p

Init == phase = "Idle"

\* The only step: advance to the next phase.
Advance ==
  /\ phase # "Complete"
  /\ phase' = PhaseOrder[Rank(phase) + 1]

Spec == Init /\ [][Advance]_phase

=============================================================================
