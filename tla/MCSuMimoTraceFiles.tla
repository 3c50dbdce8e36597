------------------------- MODULE MCSuMimoTraceFiles -------------------------
(***************************************************************************)
(* Model-checking instance of SuMimoTraceFiles: the two nodes as model    *)
(* values and two trainings per node, so that a retraining after an abort *)
(* happens.                                                                *)
(***************************************************************************)
EXTENDS SuMimoTraceFiles

CONSTANTS AP, STA

MCNodes == {AP, STA}

\* Enough trace-writing callbacks for a full training, an abort and a
\* second training of one node interleaved with the other node's.
MCMaxCalls == 7

=============================================================================
