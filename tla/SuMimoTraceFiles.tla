-------------------------- MODULE SuMimoTraceFiles --------------------------
(***************************************************************************)
(* The trace files written by the callbacks of evaluate_11ay_su_mimo.cc.   *)
(* The sector-sweep file is one stream, opened once in main and shared by *)
(* the SLSCompleted callbacks of both nodes. Every SU-MIMO callback opens  *)
(* its per-node file with AsciiTraceHelper::CreateFileStream, which        *)
(* truncates it, writes a header row and then its data rows.               *)
(*                                                                         *)
(* A row is abstracted to whether it is a header and the training of the  *)
(* node it belongs to; the columns are left out. Each node's MAC raises   *)
(* the SU-MIMO events in the order of its interface: SISO measurements    *)
(* zero or more times, SISO completed, candidates selected, MIMO          *)
(* measurements zero or more times, MIMO completed; it may also give up a *)
(* training, and the sequencer may then begin another one.                *)
(***************************************************************************)
EXTENDS Naturals, Sequences

CONSTANTS
  Nodes,          \* the nodes whose callbacks write traces (AP and STA)
  MaxTrainings,   \* bound on the trainings begun per node
  MaxCalls        \* bound on the callbacks that write a trace

ASSUME TraceConstantsAssumption ==
  /\ MaxTrainings \in Nat
  /\ MaxCalls \in Nat

\* The per-node trace files of the SU-MIMO callbacks, and the shared
\* slsResults file.
PerNodeKinds == {"SisoMeas", "SisoRes", "MimoTx", "MimoRx", "MimoMeas"}
SlsFile == <<"Sls", "shared">>
FileNames == (PerNodeKinds \X Nodes) \cup {SlsFile}

\* A row: header or data, and the training it belongs to.
Row(hdr, t) == [hdr |-> hdr, training |-> t]

VARIABLES
  files,      \* contents of every trace file
  session,    \* each node's SU-MIMO training state in its MAC
  training,   \* trainings begun per node
  calls       \* callbacks that wrote a trace so far

vars == <<files, session, training, calls>>

Sessions == {"Idle", "Siso", "Candidates", "Mimo"}

TypeOK ==
  /\ files \in [FileNames -> Seq([hdr : BOOLEAN, training : 0 .. MaxTrainings])]
  /\ session \in [Nodes -> Sessions]
  /\ training \in [Nodes -> 0 .. MaxTrainings]
  /\ calls \in 0 .. MaxCalls

\* main creates slsResults and writes its header; no other file exists yet.
Init ==
  /\ files = [f \in FileNames |->
                IF f = SlsFile THEN <<Row(TRUE, 0)>> ELSE <<>>]
  /\ session = [e \in Nodes |-> "Idle"]
  /\ training = [e \in Nodes |-> 0]
  /\ calls = 0

\* Mutant: the stream is opened for appending instead of truncated.
AppendFile(f, header, rows) == files' = [files EXCEPT ![f] = @ \o <<header>> \o rows]

\* CreateFileStream truncates file f; the callback writes the header and
\* then its data rows.
WriteFile(f, header, rows) == files' = [files EXCEPT ![f] = <<header>> \o rows]

\* Data rows of one callback: none when its map or list is empty, else
\* rows of training t (one stands for all the rows of the call).
DataRows(n, t) == [i \in 1 .. n |-> Row(FALSE, t)]

\* A trace-writing callback runs; calls is bounded.
Call == calls < MaxCalls /\ calls' = calls + 1

-----------------------------------------------------------------------------
(* The callbacks and the MAC events that raise them.                       *)

\* SLSCompleted on node e appends one row to the shared slsResults stream.
SLSCompleted(e) ==
  /\ Call
  /\ files' = [files EXCEPT ![SlsFile] = Append(@, Row(FALSE, 0))]
  /\ UNCHANGED <<session, training>>

\* The sequencer begins a training on node e (StartSuMimoBeamforming).
BeginTraining(e) ==
  /\ session[e] = "Idle"
  /\ training[e] < MaxTrainings
  /\ session' = [session EXCEPT ![e] = "Siso"]
  /\ training' = [training EXCEPT ![e] = @ + 1]
  /\ UNCHANGED <<files, calls>>

\* SuMimoSisoPhaseMeasurements: rewrites the node's measurement file.
SuMimoSisoPhaseMeasurements(e, n) ==
  /\ session[e] = "Siso"
  /\ Call
  /\ WriteFile(<<"SisoMeas", e>>, Row(TRUE, training[e]),
               DataRows(n, training[e]))
  /\ UNCHANGED <<session, training>>

\* SuMimoSisoPhaseComplete: rewrites the SISO results file and starts the
\* MIMO phase with the K best combinations.
SuMimoSisoPhaseComplete(e, n) ==
  /\ session[e] = "Siso"
  /\ Call
  /\ WriteFile(<<"SisoRes", e>>, Row(TRUE, training[e]),
               DataRows(n, training[e]))
  /\ session' = [session EXCEPT ![e] = "Candidates"]
  /\ UNCHANGED training

\* SuMimoMimoCandidatesSelected: rewrites the Tx and the Rx candidate
\* files, each with its header and one row per candidate.
SuMimoMimoCandidatesSelected(e, n) ==
  LET t == training[e]
  IN
  /\ session[e] = "Candidates"
  /\ Call
  /\ files' = [files EXCEPT
                 ![<<"MimoTx", e>>] = <<Row(TRUE, t)>> \o DataRows(n, t),
                 ![<<"MimoRx", e>>] = <<Row(TRUE, t)>> \o DataRows(n, t)]
  /\ session' = [session EXCEPT ![e] = "Mimo"]
  /\ UNCHANGED training

\* SuMimoMimoPhaseMeasurements: rewrites the MIMO measurement file, one
\* row per entry drained from the minSnr queue.
SuMimoMimoPhaseMeasurements(e, n) ==
  /\ session[e] = "Mimo"
  /\ Call
  /\ WriteFile(<<"MimoMeas", e>>, Row(TRUE, training[e]),
               DataRows(n, training[e]))
  /\ UNCHANGED <<session, training>>

\* SuMimoMimoPhaseComplete: no trace is written.
SuMimoMimoPhaseComplete(e) ==
  /\ session[e] = "Mimo"
  /\ session' = [session EXCEPT ![e] = "Idle"]
  /\ UNCHANGED <<files, training, calls>>

\* The MAC gives up the training of node e.
MacAbortsTraining(e) ==
  /\ session[e] # "Idle"
  /\ session' = [session EXCEPT ![e] = "Idle"]
  /\ UNCHANGED <<files, training, calls>>

\* Rows per callback: an empty map or list, or some rows.
RowCounts == 0 .. 1

Next ==
  \E e \in Nodes :
    \/ SLSCompleted(e)
    \/ BeginTraining(e)
    \/ \E n \in RowCounts : SuMimoSisoPhaseMeasurements(e, n)
    \/ \E n \in RowCounts : SuMimoSisoPhaseComplete(e, n)
    \/ \E n \in RowCounts : SuMimoMimoCandidatesSelected(e, n)
    \/ \E n \in RowCounts : SuMimoMimoPhaseMeasurements(e, n)
    \/ SuMimoMimoPhaseComplete(e)
    \/ MacAbortsTraining(e)

Spec == Init /\ [][Next]_vars

-----------------------------------------------------------------------------
(* Properties.                                                             *)

\* The rows of a file.
RowSet(s) == {s[i] : i \in DOMAIN s}

\* s is an initial part of t: t only grew at its end.
PrefixOf(s, t) == Len(s) <= Len(t) /\ SubSeq(t, 1, Len(s)) = s

\* While a training is past its SISO phase, the SISO results and the
\* candidate files describe that training only, not an earlier one that
\* was given up: SuMimoSisoPhaseComplete and SuMimoMimoCandidatesSelected
\* must replace what an earlier training wrote.
FilesDescribeCurrentTraining ==
  \A e \in Nodes :
    /\ session[e] \in {"Candidates", "Mimo"} =>
         \A r \in RowSet(files[<<"SisoRes", e>>]) : r.training = training[e]
    /\ session[e] = "Mimo" =>
         \A k \in {"MimoTx", "MimoRx"} :
           \A r \in RowSet(files[<<k, e>>]) : r.training = training[e]

\* The design: trace files are append-only, no row is ever rewritten or
\* deleted. Checked against the callbacks that open their file with
\* CreateFileStream on every call.
AppendOnly == [][\A f \in FileNames : PrefixOf(files[f], files'[f])]_files

=============================================================================
